------------------------------- MODULE Manifest -------------------------------
(***************************************************************************)
(* Chunking, the Merkle root and the manifest of src/manifest.rs.           *)
(*                                                                          *)
(* A hash is a term, <<algorithm, what was hashed>>: equal only for equal   *)
(* inputs under the same algorithm.  Bytes are model values, so that no     *)
(* byte string is mistaken for a hash.                                      *)
(***************************************************************************)
EXTENDS Integers, Sequences, SequencesExt, FiniteSets

Algorithms == {"blake3", "sha256"}

Hash(alg, x) == <<alg, x>>

\* do_chunk: slices of n bytes, the last one shorter; none of empty data.
do_chunk(data, n) ==
  [k \in 1..((Len(data) + n - 1) \div n) |->
     SubSeq(data, (k - 1) * n + 1, IF k * n < Len(data) THEN k * n ELSE Len(data))]

chunk_infos(chunks, alg) ==
  [k \in DOMAIN chunks |->
     [offset |-> Len(FlattenSeq(SubSeq(chunks, 1, k - 1))),
      size   |-> Len(chunks[k]),
      hash   |-> Hash(alg, chunks[k])]]

\* Slip: a leftover hash is carried to the next level as it is.
combine_carry(hashes, alg) ==
  [k \in 1..((Len(hashes) + 1) \div 2) |->
     IF 2 * k <= Len(hashes) THEN Hash(alg, <<hashes[2 * k - 1], hashes[2 * k]>>)
     ELSE hashes[2 * k - 1]]

\* One pass of the Merkle fold: a leftover hash is paired with itself.
combine(hashes, alg) ==
  [k \in 1..((Len(hashes) + 1) \div 2) |->
     Hash(alg, <<hashes[2 * k - 1],
                 hashes[IF 2 * k <= Len(hashes) THEN 2 * k ELSE 2 * k - 1]>>)]

\* A pass is made while there is more than one hash.
merge(level, alg) == IF Len(level) > 1 THEN combine(level, alg) ELSE level

\* The levels of the fold; there are fewer passes than there are hashes.
levels(leaves, alg) ==
  LET pass[k \in 0..Len(leaves)] == IF k = 0 THEN leaves ELSE merge(pass[k - 1], alg)
  IN pass

root_hash_for(infos, alg) ==
  LET leaves == [i \in DOMAIN infos |-> infos[i].hash]
  IN IF infos = <<>> THEN Hash(alg, <<>>) ELSE levels(leaves, alg)[Len(leaves)][1]

RootOf(data, n, alg) == root_hash_for(chunk_infos(do_chunk(data, n), alg), alg)

-----------------------------------------------------------------------------
(* Content addresses.                                                       *)

RawMcid(hash) == [codec |-> "raw", hash |-> hash]

\* block_mcid: always BLAKE3.
block_mcid(data) == RawMcid(Hash("blake3", data))

mcid_is_chunked(mcid) == mcid.codec = "manifest"

\* compute_mcid: neither the time of creation nor the list of chunks is hashed.
compute_mcid(name, size, n, count, alg, root) ==
  [codec |-> "manifest", hash |-> Hash(alg, <<name, size, n, count, alg, root>>)]

create(data, name, n, alg) ==
  LET infos == chunk_infos(do_chunk(data, n), alg)
      root  == root_hash_for(infos, alg)
  IN [mcid |-> compute_mcid(name, Len(data), n, Len(infos), alg, root),
      name |-> name,
      size |-> Len(data),
      chunk_size |-> n,
      chunk_count |-> Len(infos),
      hash_algorithm |-> alg,
      root_hash |-> root,
      chunks |-> infos]

chunk_mcid(m, k) == RawMcid(m.chunks[k].hash)

\* Slip: only the root is compared.
verify_root(m, data) ==
  RootOf(data, m.chunk_size, m.hash_algorithm) = m.root_hash

\* verify: the size first, then the root of the data chunked afresh.
verify(m, data) ==
  /\ Len(data) = m.size
  /\ RootOf(data, m.chunk_size, m.hash_algorithm) = m.root_hash

\* from_wire refuses what verify or chunk_mcid would panic on.
from_wire(m) ==
  /\ m.chunk_size # 0
  /\ Len(m.chunks) = m.chunk_count

===============================================================================
