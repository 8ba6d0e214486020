--------------------------- MODULE ContentTransfer ---------------------------
(***************************************************************************)
(* put and get of src/content.rs: one transfer at a time, each over a       *)
(* dedicated stream of its own, one _content.* CALL in flight, with         *)
(* call_with_retry's retries.                                               *)
(*                                                                          *)
(* The station may lose a request or its answer, refuse a request whether   *)
(* or not it has carried it out, miss what it stores, and answer wrongly.    *)
(***************************************************************************)
EXTENDS Manifest

CONSTANTS
  Bytes,        \* the bytes content is made of
  ChunkSize,    \* manifest::DEFAULT_CHUNK_SIZE
  Blobs,        \* what this client puts
  Foreign,      \* content of others: records of data and alg, chunked
  Misaddressed, \* the station may answer with the manifest of another address
  MaxLate,      \* no more late requests than these still reach the station
  None

ASSUME ContentAssumption ==
  /\ ChunkSize \in Nat \ {0}
  /\ Blobs \subseteq Seq(Bytes)
  /\ \A f \in Foreign : f.data \in Seq(Bytes) /\ f.alg \in Algorithms
  /\ Misaddressed \in BOOLEAN
  /\ MaxLate \in Nat

MAX_ATTEMPTS == 3

VARIABLES
  pc,        \* idle, or where call_with_retry stands: call, await, backoff
  op,        \* the transfer in progress
  manifest,  \* its manifest, if it has one
  index,     \* the chunk it is at
  got,       \* what get has put together
  req,       \* the _content.* request it makes
  attempt,   \* of call_with_retry
  last,      \* between two transfers, how the last one ended
  wire,      \* the request on its way to the station
  reply,     \* the station's answer on its way back
  honest,    \* all its answers in this transfer were to what was asked
  late,      \* puts the client no longer waits for, still on their way
  blocks,    \* what the station stores: blocks, as <<mcid, data>>
  manifests  \* and manifests

transferVars == <<op, manifest, index, got>>
netVars      == <<wire, reply, honest, late>>
storeVars    == <<blocks, manifests>>
vars == <<pc, transferVars, req, attempt, last, netVars, storeVars>>

-----------------------------------------------------------------------------
(* Requests and answers.                                                    *)

Answer(says, body) == [says |-> says, body |-> body]

PutBlock(data, mcid) == [proc |-> "put_block", mcid |-> mcid, payload |-> data]
PutManifest(m)       == [proc |-> "put_manifest", manifest |-> m]
GetBlock(mcid)       == [proc |-> "get_block", mcid |-> mcid]
GetManifest(mcid)    == [proc |-> "get_manifest", mcid |-> mcid]

Chunk(m, data, k) == PutBlock(do_chunk(data, m.chunk_size)[k], chunk_mcid(m, k))

\* The manifest of what this client puts, by CreateOptions::default().
Own(data) == create(data, "name", ChunkSize, "blake3")

Others == {create(f.data, "other", ChunkSize, f.alg) : f \in Foreign}

IsChunked(data) == Len(data) > ChunkSize

Address(data) == IF IsChunked(data) THEN Own(data).mcid ELSE block_mcid(data)

\* The addresses the application may know of.
Addresses == {Address(data) : data \in Blobs} \cup {m.mcid : m \in Others}

\* Others' content hashed with anything but BLAKE3.
HashedOtherwise(mcid) ==
  \E f \in Foreign :
    f.alg # "blake3" /\ create(f.data, "other", ChunkSize, f.alg).mcid = mcid

\* What the address stands for.
Content(mcid) ==
  {data \in Blobs : Address(data) = mcid}
    \cup {f.data : f \in {g \in Foreign : create(g.data, "other", ChunkSize, g.alg).mcid = mcid}}

\* The others' content is complete from the start.
Init ==
  /\ pc = "idle"
  /\ op = None /\ manifest = None /\ index = 0 /\ got = <<>>
  /\ req = None /\ attempt = 0
  /\ last = None
  /\ wire = None /\ reply = None /\ honest = TRUE /\ late = {}
  /\ blocks = UNION {{<<chunk_mcid(create(f.data, "other", ChunkSize, f.alg), k),
                        do_chunk(f.data, ChunkSize)[k]>> :
                      k \in DOMAIN do_chunk(f.data, ChunkSize)} : f \in Foreign}
  /\ manifests = Others

-----------------------------------------------------------------------------
(* call_with_retry.                                                         *)

\* A call_with_retry begins.
Request(r) == pc' = "call" /\ req' = r /\ attempt' = 1

\* The requests that change what the station stores.
Puts(requests) == {r \in requests \ {None} : r.proc \in {"put_block", "put_manifest"}}

\* put or get returns; its stream is dropped, what is on it is not taken back.
Finish(says, data) ==
  /\ pc' = "idle"
  /\ op' = None /\ manifest' = None /\ index' = 0 /\ got' = <<>>
  /\ req' = None /\ attempt' = 0
  /\ last' = [op |-> op, says |-> says, data |-> data, honest |-> honest]
  /\ late' = IF Cardinality(late) < MaxLate THEN late \cup Puts({wire}) ELSE late
  /\ wire' = None /\ reply' = None /\ honest' = TRUE
  /\ UNCHANGED storeVars

\* FrameStream::call: the CALL is written, or cannot be; so also when the first
\* call finds that the dedicated stream cannot be opened.
Send ==
  /\ pc = "call"
  /\ \/ /\ pc' = "await"
        /\ wire' = req
        /\ UNCHANGED <<transferVars, req, attempt, last, reply, honest, late, storeVars>>
     \/ Finish("failed", None)

\* No answer within the timeout of the call, or the stream is lost: no retry.
AwaitFails == pc = "await" /\ Finish("failed", None)

\* Only an ERROR whose BOLT#4 code is_retryable.
ShouldRetry(says) == says = "retryable" /\ attempt < MAX_ATTEMPTS

Retry ==
  /\ pc = "await"
  /\ reply # None
  /\ ShouldRetry(reply.says)
  /\ pc' = "backoff"
  /\ reply' = None
  /\ UNCHANGED <<transferVars, req, attempt, last, wire, honest, late, storeVars>>

\* Slip: the attempts are counted afresh by each turn of the loop.
NextAttemptFirst == 1

NextAttempt == attempt + 1

BackOff ==
  /\ pc = "backoff"
  /\ pc' = "call"
  /\ attempt' = NextAttempt
  /\ UNCHANGED <<transferVars, req, last, netVars, storeVars>>

\* An answer that call_with_retry hands to the transfer.
Answered(proc) ==
  /\ pc = "await"
  /\ reply # None
  /\ ~ShouldRetry(reply.says)
  /\ req.proc = proc

\* The next request of the transfer.
Proceed(r) ==
  /\ Request(r)
  /\ reply' = None
  /\ UNCHANGED <<op, last, wire, honest, late, storeVars>>

-----------------------------------------------------------------------------
(* put: the chunks in order, then the manifest; a single block has none.    *)

\* Slip: the manifest is registered before its chunks.
FirstPutManifest(data) ==
  IF IsChunked(data) THEN PutManifest(Own(data)) ELSE PutBlock(data, block_mcid(data))

FirstPut(data) ==
  IF IsChunked(data) THEN Chunk(Own(data), data, 1) ELSE PutBlock(data, block_mcid(data))

Put(data) ==
  /\ pc = "idle"
  /\ op' = [kind |-> "put", data |-> data, mcid |-> Address(data)]
  /\ manifest' = IF IsChunked(data) THEN Own(data) ELSE None
  /\ index' = 1
  /\ Request(FirstPut(data))
  /\ last' = None
  /\ honest' = TRUE
  /\ UNCHANGED <<got, wire, reply, late, storeVars>>

\* Slip: the last chunk is left out.
MoreChunksButLast == index + 1 < manifest.chunk_count

MoreChunks == index < manifest.chunk_count

PutBlockAnswered ==
  /\ Answered("put_block")
  /\ IF reply.says # "ok" THEN Finish(reply.says, None)
     ELSE IF ~mcid_is_chunked(op.mcid) THEN Finish("ok", op.data)
     ELSE /\ IF MoreChunks THEN Proceed(Chunk(manifest, op.data, index + 1))
             ELSE Proceed(PutManifest(manifest))
          /\ index' = index + 1
          /\ UNCHANGED <<manifest, got>>

PutManifestAnswered ==
  /\ Answered("put_manifest")
  /\ Finish(reply.says, op.data)

-----------------------------------------------------------------------------
(* get: a single block, or the manifest and then its chunks in order.       *)

Get(mcid) ==
  /\ pc = "idle"
  /\ op' = [kind |-> "get", data |-> None, mcid |-> mcid]
  /\ Request(IF mcid_is_chunked(mcid) THEN GetManifest(mcid) ELSE GetBlock(mcid))
  /\ last' = None
  /\ honest' = TRUE
  /\ UNCHANGED <<manifest, index, got, wire, reply, late, storeVars>>

\* Slip: the data is only measured.
AcceptsSize(m, data) == Len(data) = m.size

Accepts(m, data) == verify(m, data)

\* Every chunk is in hand.
Reassembled(m, data) ==
  IF Accepts(m, data) THEN Finish("ok", data) ELSE Finish("verify", None)

GetManifestAnswered ==
  /\ Answered("get_manifest")
  /\ IF reply.says # "ok" THEN Finish(reply.says, None)
     ELSE IF ~from_wire(reply.body) THEN Finish("manifest_decode", None)
     ELSE IF reply.body.chunk_count = 0 THEN Reassembled(reply.body, <<>>)
     ELSE /\ manifest' = reply.body
          /\ index' = 1
          /\ Proceed(GetBlock(chunk_mcid(reply.body, 1)))
          /\ UNCHANGED got

\* Slip: a chunk is put in front of what is there.
AppendInFront(data, chunk) == chunk \o data

AppendChunk(data, chunk) == data \o chunk

IsTheBlock(data) == block_mcid(data) = req.mcid

GetBlockAnswered ==
  /\ Answered("get_block")
  /\ IF reply.says # "ok" THEN Finish(reply.says, None)
     ELSE IF ~IsTheBlock(reply.body) THEN Finish("hash_mismatch", None)
     ELSE IF ~mcid_is_chunked(op.mcid) THEN Finish("ok", reply.body)
     ELSE IF index = manifest.chunk_count
       THEN Reassembled(manifest, AppendChunk(got, reply.body))
     ELSE /\ got' = AppendChunk(got, reply.body)
          /\ index' = index + 1
          /\ Proceed(GetBlock(chunk_mcid(manifest, index + 1)))
          /\ UNCHANGED manifest

-----------------------------------------------------------------------------
(* The station, and the way there and back.                                 *)

\* The station carries out a request: a block is stored only if it is what its
\* address says.
Store(r) ==
  /\ blocks' = IF r.proc = "put_block" /\ r.mcid = block_mcid(r.payload)
               THEN blocks \cup {<<r.mcid, r.payload>>} ELSE blocks
  /\ manifests' = IF r.proc = "put_manifest" THEN manifests \cup {r.manifest} ELSE manifests

\* m with its list of chunks replaced by other chunks the station holds.
Relisted(m) ==
  {[m EXCEPT !.chunks = [k \in 1..n |-> [offset |-> 0, size |-> Len(b[2]), hash |-> b[1].hash]]] :
     b \in blocks, n \in {1, m.chunk_count}}
  \cup {[m EXCEPT !.chunks = Reverse(@)]}

\* What the station answers to a request it has carried out; it need not find
\* what it stores.
Answers(r) ==
  CASE r.proc \in {"put_block", "put_manifest"} -> {Answer("ok", None)}
    [] r.proc = "get_block" ->
         {Answer("ok", b[2]) : b \in {c \in blocks : c[1] = r.mcid}}
           \cup {Answer("not_found", None)}
    [] r.proc = "get_manifest" ->
         {Answer("ok", m) : m \in {n \in manifests : n.mcid = r.mcid}}
           \cup {Answer("not_found", None)}

\* What a faulty one answers: a block's hash does not match, another block, or a
\* manifest with other chunks, which its address does not cover.
WrongAnswers(r) ==
  CASE r.proc = "put_block" -> {Answer("hash_mismatch", None)}
    [] r.proc = "put_manifest" -> {}
    [] r.proc = "get_block" -> {Answer("ok", b[2]) : b \in blocks}
    [] r.proc = "get_manifest" ->
         LET found == {m \in manifests : Misaddressed \/ m.mcid = r.mcid}
         IN {Answer("ok", m) : m \in found \cup UNION {Relisted(n) : n \in found}}

\* A BOLT#4 ERROR, which the client retries or not, or a RESULT of no shape it knows.
Refusals == {Answer(says, None) : says \in {"retryable", "fatal", "unexpected"}}

\* Carried out and answered, rightly or wrongly; carried out and refused; or
\* only refused.
Serve ==
  /\ wire # None
  /\ wire' = None
  /\ \/ /\ Store(wire)
        /\ \/ reply' \in Answers(wire) \cup Refusals /\ UNCHANGED honest
           \/ reply' \in WrongAnswers(wire) /\ honest' = FALSE
     \/ reply' \in Refusals /\ UNCHANGED <<honest, storeVars>>
  /\ UNCHANGED <<pc, transferVars, req, attempt, last, late>>

\* A put whose transfer is over arrives all the same, or never.
ServeLate ==
  \E r \in late :
    /\ late' = late \ {r}
    /\ Store(r) \/ UNCHANGED storeVars
    /\ UNCHANGED <<pc, transferVars, req, attempt, last, wire, reply, honest>>

-----------------------------------------------------------------------------
Client ==
  \/ Send \/ AwaitFails \/ Retry \/ BackOff
  \/ PutBlockAnswered \/ PutManifestAnswered
  \/ GetManifestAnswered \/ GetBlockAnswered

User == (\E data \in Blobs : Put(data)) \/ (\E mcid \in Addresses : Get(mcid))

Next == Client \/ User \/ Serve \/ ServeLate

Spec == Init /\ [][Next]_vars

\* A transfer is awaited.  Its timeouts and its back-off run whatever the station
\* does; nothing bounds the opening of the stream and the writing of a request.
LiveSpec == Spec /\ WF_vars(pc # "call" /\ Client)

\* Every stream is opened in the end and every request written, or cannot be.
StationReads == []<>(pc # "call")

-----------------------------------------------------------------------------
\* The types; between transfers nothing of a transfer is left.
TypeOK ==
  /\ pc \in {"idle", "call", "await", "backoff"}
  /\ (pc = "idle") = (op = None)
  /\ (pc = "idle") = (req = None)
  /\ pc = "idle" => manifest = None /\ wire = None /\ reply = None
  /\ index \in Nat
  /\ got \in Seq(Bytes)
  /\ attempt \in 0..MAX_ATTEMPTS
  /\ wire # None => pc = "await" /\ wire = req /\ reply = None
  /\ reply # None => pc = "await"
  /\ Puts(late) = late /\ Cardinality(late) <= MaxLate
  /\ \A b \in blocks : b[2] \in Seq(Bytes)

\* The errors of get that blame what the station has answered.
Mismatches == {"hash_mismatch", "verify", "manifest_decode"}

\* The blocks of m, each under its address, are on the station.
HasChunks(m) == \A k \in DOMAIN m.chunks : \E b \in blocks : b[1] = chunk_mcid(m, k)

\* Once put has returned an address, the whole content can be had under it,
\* whatever was lost, refused and retried on the way (content.rs put).
PutStored ==
  last # None /\ last.op.kind = "put" /\ last.says = "ok" =>
    IF IsChunked(last.op.data)
      THEN \E m \in manifests : m.mcid = last.op.mcid /\ HasChunks(m)
      ELSE <<last.op.mcid, last.op.data>> \in blocks

\* A manifest on the station has all its chunks there, even when the put that
\* sent it fails half-way, times out or arrives late (content.rs put).
NoDanglingManifest == \A m \in manifests : HasChunks(m)

\* What get returns is what its address stands for, whatever blocks and lists of
\* chunks the station answers with (content.rs get).
GetGenuine ==
  last # None /\ last.op.kind = "get" /\ last.says = "ok" =>
    last.data \in Content(last.op.mcid)

\* When the station has answered with what it was asked for, content passes its
\* checks, of whichever algorithm that a manifest may name it was made (README.md:62
\* "BLAKE3/SHA-256"; content.rs get).  It does not: get_block compares with
\* block_mcid, which is BLAKE3 whatever the manifest says.
HonestNeverMismatch ==
  last # None /\ last.op.kind = "get" /\ last.honest => last.says \notin Mismatches

\* What remains of it: content hashed with BLAKE3 is never refused, however many
\* attempts it took and whatever other content the station holds (content.rs get).
Blake3NeverMismatch ==
  last # None /\ last.op.kind = "get" /\ last.honest /\ ~HashedOtherwise(last.op.mcid) =>
    last.says \notin Mismatches

\* Every transfer ends, as long as the station takes streams and what is written to
\* them or the connection is lost: the stream is opened and a request written without
\* a timeout; every other wait has one, and the attempts are counted (content.rs
\* call_with_retry, FrameStream::call).
TransferEnds == StationReads => ((pc # "idle") ~> (pc = "idle"))

===============================================================================
