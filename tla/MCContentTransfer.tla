-------------------------- MODULE MCContentTransfer --------------------------
(***************************************************************************)
(* Instances of ContentTransfer: content of one to five bytes in chunks of    *)
(* two, and what others have stored.  The functions of Manifest are compared  *)
(* with their reference definitions over every byte string up to MaxLen,      *)
(* every chunk size up to MaxChunk and both algorithms.                      *)
(***************************************************************************)
EXTENDS ContentTransfer

CONSTANTS b0, b1, MaxLen, MaxChunk

\* A single block, two chunks, and three of which two are the same.
MCBlobs == {<<b0>>, <<b0, b0, b1>>, <<b0, b0, b0, b0, b1>>}

\* Two chunks that read differently in the other order; nothing at all; and a chunk
\* hashed with SHA-256.
MCForeign == {[data |-> <<b1, b1, b0>>, alg |-> "blake3"],
              [data |-> <<>>, alg |-> "blake3"],
              [data |-> <<b0>>, alg |-> "sha256"]}

Data  == UNION {[1..n -> Bytes] : n \in 0..MaxLen}
Sizes == 1..MaxChunk

-----------------------------------------------------------------------------
\* The powers of two up to that of n.
Powers(n) ==
  LET power[k \in 0..n] == IF k = 0 THEN 1 ELSE 2 * power[k - 1]
  IN power

\* The width of the levels of the tree over n leaves, and its height.
Width(n, level) == (n + Powers(n)[level] - 1) \div Powers(n)[level]
Height(n) == CHOOSE h \in 0..n : Width(n, h) = 1 /\ \A g \in 0..(h - 1) : Width(n, g) > 1

\* The Merkle tree from its definition: a node hashes its two children, and the
\* last node of a level of odd width is its own sibling.
TreeRoot(leaves, alg) ==
  LET n == Len(leaves)
      node[l \in 0..Height(n)] ==
        [i \in 0..(Width(n, l) - 1) |->
           IF l = 0 THEN leaves[i + 1]
           ELSE LET w == Width(n, l - 1)
                    right == IF 2 * i + 1 < w THEN 2 * i + 1 ELSE w - 1
                IN Hash(alg, <<node[l - 1][2 * i], node[l - 1][right]>>)]
  IN IF n = 0 THEN Hash(alg, <<>>) ELSE node[Height(n)][0]

\* Before the first transfer: there the functions are compared, once.
Untouched == pc = "idle" /\ last = None

\* The chunks of a manifest lie end to end at the offsets it records, each of
\* chunk_size bytes but the last; put together they are the data; the fold over
\* shrinking lists computes the root of the tree above; and from_wire accepts it
\* all (manifest.rs create, do_chunk, root_hash_for).
ManifestDescribes ==
  Untouched => \A data \in Data, size \in Sizes, alg \in Algorithms :
    LET chunks == do_chunk(data, size)
        m == create(data, "n", size, alg)
    IN /\ FlattenSeq(chunks) = data
       /\ from_wire(m)
       /\ \A k \in DOMAIN chunks :
            /\ chunks[k] # <<>>
            /\ k < Len(chunks) => Len(chunks[k]) = size
            /\ SubSeq(data, m.chunks[k].offset + 1, m.chunks[k].offset + m.chunks[k].size)
                 = chunks[k]
       /\ m.root_hash = TreeRoot([k \in DOMAIN chunks |-> m.chunks[k].hash], alg)

\* A manifest binds its content: verify accepts the data it was made of and no
\* other, and no other data has its address, although the pairing of a leftover
\* hash with itself gives <<a, b, c>> and <<a, b, c, c>> one root, and the address
\* leaves out the list of chunks (manifest.rs verify, compute_mcid, combine).
ManifestBinds ==
  Untouched => \A size \in Sizes, alg \in Algorithms :
    LET made == [data \in Data |-> create(data, "n", size, alg)]
    IN \A data, other \in Data :
         /\ verify(made[data], other) <=> other = data
         /\ made[data].mcid = made[other].mcid => other = data

===============================================================================
