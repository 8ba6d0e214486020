# A verification development for macula-rust-sdk

`macula-rust-sdk` is the Rust client of the Macula mesh: an application holds a QUIC
session with a *station* and calls procedures, serves them, publishes, subscribes,
streams and moves content over it, through a pool of links if it wants to survive the
loss of stations. This directory holds TLA+ models of its components, the TLC
configurations that check them on small instances, and theorems checked by TLAPS.
Paths below are relative to `src/src/` unless they say otherwise; `lib.rs` is
`src/macula-rust-ffi/src/lib.rs`.

Run `tlc -config MCX_y.cfg MCX` for a check and `tlapm XProofs.tla` for the proofs of one part.

## The system

| Component | State | Operations | Beside it run | What makes it correct |
|---|---|---|---|---|
| **Connection pool** `pool.rs` | links (session, connected, failures, redialing, gave_up, each with a lock), the list of links, the task set, the stop flag | `connect`, `call`, `publish`, `close`, `status`, `links`, a lifecycle task per link, the discovery loop | callers, lifecycle tasks, discovery, `close`, the stations | one redial per link, no session changed under its user or lost from sight, a lost link is redialled or given up, nothing new after `close` |
| **Session** `connection.rs` | the connection, the control stream and its byte buffer | handshake, `call`, `call_with_ucan`, `serve_one_call(_gated)`, `publish`, `subscribe`, `unsubscribe`, `advertise`, `keep_advertised`, `run_publisher`, `run_subscriber`, `recv_event`, `close`, dedicated streams | the station, spawned handlers, timers | a call returns its own answer, facts bracket what they announce, a reply fits its CALL, frames are whole and none is lost |
| **Content transfer** `content.rs` | none between transfers | `put`, `get`, `call_with_retry` | the station, late requests | complete content behind every manifest, genuine content out of every get |
| **Manifest** `manifest.rs` | none | `create`, `verify`, addresses, wire form | - | chunks rebuild the data, the address binds it |
| **Streaming RPC** `stream.rs` | stream id, mode, `seq_out`, a dedicated stream | `open`, `accept`, `send_data`, `close_send`, `send_reply`, `recv`, `await_reply`, `abort` | the peer | chunks in order, an abort told from an end, what is begun returns |
| **Direct dial** `direct_dial.rs` | none | `resolve*`, `call*`, `advertise_direct*`, `keep_advertised_direct`, `open_stream_direct*`, `put_direct`, `get_direct` | DHT, stations | the station reached is the one advertised, no session is forgotten, an advertisement is renewed while it is served |
| **DHT records** `dht.rs` | none | `sign`, `verify`, keys, `put_record`, `find_*` | other publishers | only verified records are used, expiry |
| **UCAN, certificates** `ucan.rs`, `cert.rs`, `cert_chain.rs` | none | `Policy::check`, chain verification | - | a token is accepted only for what its issuer signed, while it is valid |
| **Codecs** `frame.rs`, `cbor.rs`, `bolt4.rs` | none | encode, decode, sign, verify | - | decode inverts encode, one encoding of each value, a signature covers the frame |
| **Identity, key store** `identity.rs`, `keystore.rs` | the key file, the store's entry | generate, `save`, `load` | crashes | a key once used is not lost |
| **Transport** `transport.rs` | - | dial, trust | - | the pinned key is the peer's |
| **FFI** `lib.rs` | a mutex around each session and stream | the same operations, from Kotlin and Swift | foreign threads and handlers | who waits for the mutex gets on if the other side acts, nothing after `close` |

How they interact. A pool's caller, its lifecycle tasks and its discovery loop share each
link through the link's lock and a few atomics. `Session` methods borrow the session
mutably, so that one application uses the control stream at a time (and may drop the future it awaits); the station writes to
it at any time, and a spawned handler runs on when the call that spawned it is over.
Content transfer is made of calls; streams open dedicated QUIC streams of the same
connection. Discovery and direct dial are calls of DHT procedures on a session, and a
direct dial works in a second session of its own. The FFI wraps sessions and streams in
mutexes, and its handlers may call back into them.

What is hard: the order of locks, atomics and aborts in the pool; timeouts that cancel a
future in the middle of what it does; answers that come late; records that are stale or
lie; a station that only relays what it answers; two ends that both write; the end of
everything by `close`. `PROJECT.json` lists each hazard at its line.

## The modules

| Module | Models | Checked in |
|---|---|---|
| `Pool` | the pool: callers, lifecycle tasks, discovery, close, both runtimes | `MCPool` |
| `ControlStream` | a session after its handshake, with the station and the handlers | `MCControlStream` |
| `FrameFifo`, `FrameStream` | a queue of frames; the byte buffer, the length prefix and the handshake that implement it | `MCParts` |
| `Stream` | both ends of a dedicated stream | `MCDedicated`, `MCStream` |
| `Manifest` | the functions of `manifest.rs` | `MCContentTransfer` |
| `ContentTransfer` | put, get and their retries; EXTENDS `Manifest` | `MCContentTransfer` |
| `Records` | DHT records and their certificate chains: build, sign, verify, read | `MCParts`, and under `DirectDial` |
| `DirectDial` | resolution, dial, check, work, close; EXTENDS `Records` | `MCDedicated` |
| `Advertiser` | `advertise_direct` in the loop of `keep_advertised_direct`, in time | `MCParts` |
| `Ucan` | tokens and the policy | `MCParts` |
| `Frames` | constructors, parsers and signatures of all frames | `MCParts` |
| `Cbor` | the codec, byte by byte | `MCControlStream` |
| `KeyFile` | key files and the key store, with crashes | `MCParts` |
| `Ffi` | the methods of the foreign wrappers around their mutex | `MCParts` |

Theorems and their proofs are in modules of their own:

| Module | Proves | About |
|---|---|---|
| `PoolProofs` | `TypeOK`, `OneLifecycle`, `InUseStaysInPlace`, `NothingAfterStop`, `SessionIsOffered`, on both runtimes | `Pool` |
| `ControlStreamProofs` | `OwnAnswer`, `CallStory`, `BracketsClose`, `ServeStory`, `CutOnlyByDrop`, `TypeOK` | `ControlStream` |
| `FrameStreamProofs` | `ImplementsFifo` | `FrameStream`, `FrameFifo` |
| `StreamProofs`, `DedicatedProofs` | `ChunksAccounted`, `AbortToldApart` | `Stream`, and `Stream` as `MCDedicated` runs it |
| `ContentTransferProofs` | `PutStored`, `NoDanglingManifest`, `GetGenuine`, `Blake3NeverMismatch`, `ManifestBinds`, `ManifestDescribes`, and what Merkle roots bind | `Manifest`, `ContentTransfer` |
| `DirectDialProofs` | `WorksWhereResolved`, `NoneForgotten`, and what a record's signature binds | `DirectDial`, `Records` |
| `PartsProofs` | `SaveIsAtomic`, `KeptAdvertised`, `LockKept`, `RoundTrip`, `SignaturesBind`, and what is parsed of any frame and bound by any signature | `KeyFile`, `Advertiser`, `Ffi`, `Frames`, `Records`, `Ucan` as `MCParts` runs them |

A definition whose comment begins with *Slip* is a variant of the one that follows, with a
plausible mistake in it. No specification uses it; it shows which property would notice
the mistake. The `TypeOK` of the modules other than `Pool` are not listed in a run: those of
`ControlStream`, `Stream`, `FrameStream` and `KeyFile` are proved, as theorems or as parts of an
inductive invariant.

`MCParts` checks in one run components that share nothing: a behaviour is one of
`FrameStream`, `KeyFile`, `Advertiser` and `Ffi`, the others staying as they began; `Frames`,
`Records` and `Ucan` have no state: TLC evaluates their properties over samples, and `PartsProofs` proves the
general facts behind them. `Cbor` is evaluated by `MCControlStream` before the first frame is sent (it declares RECURSIVE operators,
so that nothing can be proved in a module that reaches it). `MCDedicated` does the same for `DirectDial` and `Stream`.

## The runs

| Run | Bounds | What it shows |
|---|---|---|
| `pool_two` | two seeds in any order, two callers that may drop what they await, three task slots, four sessions, current-thread | `OneLifecycle`: one lifecycle per link. `InUseStaysInPlace`: no session changes under its user. `NothingAfterStop`: nothing is dialled once the stop signal was received. The three are theorems for both runtimes |
| `pool_live` | one seed; with discovery of one station and a budget of one link, or with two callers; two task slots, two sessions; multi-thread | `SessionIsOffered`: a session that is installed is offered to callers. `CallReturns`, `CloseEnds`: where stations read. `LinkRecovers` |
| `pool_stop_lost` | one seed, two callers, multi-thread | a finding |
| `pool_orphan` | the same | a finding |
| `cs` | six applications: a call beside run_subscriber and recv_event; a call beside publish, run_publisher and keep_advertised; all of these but the call; two calls in sequence; a call beside an inbound CALL; three inbound CALLs, one of each way to be answered. Two more sends, one dropped future | `OwnAnswer`: a call returns the station's answer to that call. `CallStory`: sent, CALL, completed, in order on each path, with the right outcome. `BracketsClose`: what is opened is closed. `ServeStory`: received, replied, reply, in order and at most once; Ok only for a whole reply. `CutOnlyByDrop`: no frame of a live connection is cut but where a future is dropped. `CallEnds`, `ServeEnds`. `CborCanonical`, of the codec |
| `cs_timeout` | one inbound CALL | a finding |
| `content` | content of one, three and five bytes in chunks of two, and of others an empty one, one of three bytes and one hashed with SHA-256; two late requests; functions over all data up to five bytes, chunk sizes to three, both algorithms | `PutStored`: a put that returned Ok can be fetched. `NoDanglingManifest`. `GetGenuine`. `Blake3NeverMismatch`: no false alarm for BLAKE3 content. `TransferEnds`: where the station reads. `ManifestDescribes`, `ManifestBinds`: the functions against reference definitions |
| `content_misaddressed` | one late request | a finding |
| `content_sha` | one late request | a finding |
| `parts` | see each module below | `ImplementsFifo`, `FramesArrive`, `SaveIsAtomic`, `KeptAdvertised`, `MethodsReturn`, `LockKept`, `RoundTrip`, `SignaturesBind` |
| `dedicated`, streams | a caller that opens and sends two frames more, a provider that sends one; windows of two, chunks that may be too large to encode; one stray frame | `ChunksAccounted`: what is read is what was sent, in order, and a gap in the numbers is a failed send. `AbortToldApart`: an abort is never read as an end. `OpsReturn`: what is begun returns, a write into a full window apart |
| `dedicated`, direct dial | two operations, four adverts, six endpoints, three contents, garbage, three stations, two hosts; two retries, two ticks, one move | `WorksWhereResolved`: work is done only with the station that a trusted record names. `NoneForgotten`: each dialled session is closed or handed on. `OpEnds`: where the stations read |
| `stream_accept` | STREAM_OPEN only | a finding |

Why these bounds are enough to be of use: two links are what it takes for a caller to carry
stale candidates from one link to another and for close to drain one while another is in use;
two callers for two to see the same session fail; a spare task slot lets an old lifecycle and a
new one overlap; one failure before giving up reaches every branch of `should_give_up`. Two calls let the
first answer come while the second waits. Five chunks make three levels of odd, odd
and even width. Two retries meet a stale record and then a live one, or no live one.

## Module by module

### Pool

Actors are callers (`Invoke` … `Return`, one call or publish at a time, which `Drop` may end at any await), one lifecycle task per
spawn (`Start`, `Check`, `DialOk`/`DialErr`, `Wake`, `Install`, `Announce`, `Release`), the
discovery loop and the closer. Each has a program counter whose labels are the awaits of
the code. A tokio mutex is a holder and a FIFO queue (`Enqueue`, `Unlock`). The constant
`MultiThread` says how actors interleave: on a current-thread runtime an actor is not
interrupted between two awaits (`Running`, `MayRun`), and an aborted task is never polled
again; on a multi-thread runtime any actor can be interrupted at any step.

Abstractions: sessions are small numbers that are reused when nobody holds them (`Fresh`); the
failure counter saturates at `MaxFailures`; the slots of finished tasks are reused, and of
the interchangeable free slots and session numbers one is taken (`NextTask`, `NextSession`); a lock
that is free may still cost a turn of the scheduler. `add_discovered_links` takes its four locks one after the other
(`CountSlots`, `PushLink`, `ClaimNew`, `Spawn`). Left out: node ids and addresses of discovered rows, with
`has_link_for_node_id`, which waits for the state locks of connected links while it holds the read lock of `links`; `status` and
`links`, which only read.

Which runtime. `pool.rs` promises what it promises on any tokio runtime, and tokio's default is the multi-thread
one. `OneLifecycle`, `InUseStaysInPlace`, `NothingAfterStop`, `SessionIsOffered` and the types are theorems for both. TLC checks the
first three on a current-thread runtime, because two links, two callers and every interleaving are beyond minutes; the properties of `pool_live` and both
findings on a multi-thread one. What is *not* true on a multi-thread runtime is said by
`pool_orphan` and under *Observations*, and no property is stated for a current-thread runtime only.

`pool_live` uses `EndsSpec`, which starts either with discovery and no callers or with callers, one of which may
publish, and no discovery (`Applications` lists the sets of callers an application may have, `Publishers` who publishes):
discovery uses the pool as a caller does, and both at once are beyond what TLC checks in
minutes. `CHECK_DEADLOCK FALSE`: the whole pool comes to rest after `close`.

Fairness: each actor that can go on is polled in the end (tokio's scheduler; for the closer, strong, because an aborted task is
dropped between two of its own steps), a dial and a sleep end by their timers, and a station that is dialled for ever answers once.
A call, a publish, a lookup and a GOODBYE are not assumed to end: the answers have timeouts, but the writes before them
(connection.rs:208, 243-249, 570-579, 842-850) have none, and a station that stops reading holds the link's lock for as long as its
connection stays up. `CallReturns` and `CloseEnds` therefore say `StationsRead => …`. `LinkRecovers` does not: a link that is being dialled
waits for nobody who uses a session, since its lock is free once its own is lost. Users are not obliged to call, nor stations to live or to die.

### ControlStream

The application stands at one await at a time (`pc`): a write, a read or the join of a
handler. A write is two steps, `Begin` and `Written`, so that a timeout or the loss of the
connection can cut a frame short; a frame that is too large to be encoded (`Unencodable`) writes
nothing, and an announcement that cannot be written is passed over. `Abandon` drops the future of the method in progress at any await, as connection.rs:864-868
tells applications to cancel: it leaves half a frame where it strikes in the middle of a write. A panic ends a method in the same way, and
there is one: `frame::sign` does not return an error for an integer outside 64 bits but panics (frame.rs:909, 1051). `out` is the sequence of frames the session began to write, and `Reads` lets the
station read only what comes before the first cut. `inq` holds what the station sent: one
RESULT or ERROR per call at any time, however late, a stray frame that carries a call's id, CALLs,
EVENTs, the end of its side. The station does more here than a real one would: it need not know of
a subscription to deliver an EVENT.

A timeout strikes only where the code really waits, since `tokio::time::timeout` polls the
future before the timer: for a frame, in the middle of a write, for a handler. The send of
a `call` is outside its timeout, `serve_one_call`'s timeout covers everything; that
difference is what `CutOnlyByDrop` is about. `Uses` restricts the methods of a run, `MaxOut`
bounds the optional sends, `MaxDrops` the dropped futures; what one application uses is chosen at the start (`app` of `MCControlStream`), because all methods at once
are beyond what TLC checks in minutes. Deadlock is not checked: a closed session does nothing more.

Not distinguished: an ERROR with a text so long that the reply itself exceeds `MAX_FRAME_BYTES` (a text that is too long for the announcement alone is `long_err`), and a
`Session` that is dropped without `close` between two methods, which is the loss of the connection.

Fairness: what the application awaits is polled. A write of `call` is assumed to end (`StationReads`),
because the station reads on or the connection is lost; of `serve_one_call`
nothing is assumed but its timer, nor anything of handlers.

### FrameStream implements FrameFifo

`FrameFifo` is what `ControlStream` and `Stream` take for granted: frames are received in
the order they were sent, each once. `FrameStream` is `FrameStream::recv_frame` and `read_one_frame` over
bytes: a frame is a header and a body, `Arrive` delivers any number of bytes, a read takes up to
`READ_CHUNK` of them into the buffer, `decode` says Frame, More or an error, `Timeout` drops the future of a
read, and the handshake (`Hello`) reads one frame with the same buffer before there is a session. The
peer's script contains frames of several lengths, one that does not decode, one whose
length is over the limit, a HELLO with a bad signature and a refusal. `ImplementsFifo` is the
refinement (`INSTANCE FrameFifo WITH sent <- …, got <- got`): no byte is lost between the handshake and
the session, by a timeout, or at the border of two reads. `FramesArrive`: a frame that was sent on a
connection that stays up is received by who keeps reading, unless one before it does not
decode. Bounds: header two, read chunk five, frames of three to five bytes, so that one read holds
less than a frame, exactly one, and one and a half.

### Stream

Both ends run the code: a *caller* opens, a *provider* accepts, and each may send, half-close,
reply, read, abort or drop its handle. `chan` is what is on the wire in each direction, no longer
than a window. A write begins (`StartWrite`), waits while the window is full and ends (`EndWrite`): it is
taken, fails with the connection or a peer that no longer reads, or is refused by the encoder as too large
(`Unencodable`); a chunk that fails is still counted in `seq_out`. The relay may put in a frame of another
stream (`Stray`). `Lose` ends the connection. Fairness: a method that was called is polled. `stream_accept`
assumes it of the provider alone (`ProviderSpec`); in `dedicated` both ends run this code, so that an `open` that
has begun goes on. Nobody has to read or to send.

### Manifest and ContentTransfer

`Hash(alg, x)` is a term, equal only for equal arguments: an ideal hash. Bytes are model
values. `ManifestDescribes` compares the shrinking-list fold with the tree built from the top,
and the chunks and offsets with the data; `ManifestBinds` says that `verify` and the address tell
all data apart, though three chunks and four whose last two are equal share a root.

`pc` is where `call_with_retry` stands: about to call, awaiting, backing off. `req` is the request, `op`,
`manifest`, `index` and `got` are the locals of `put` and `get`. The station (`Serve`) carries a
request out and answers, carries it out and refuses, or refuses; an answer that never comes
is a request left on the wire. A put the client has given up may still be carried out later
(`ServeLate`, at most `MaxLate` of them on the way). The station may also answer wrongly
(`WrongAnswers`): with any block, or with a manifest whose list of chunks, which the address does
not cover, is another one; with `Misaddressed`, with any manifest. `honest` remembers whether
it has done so in the transfer. The number of transfers is unbounded. The CBOR form of requests is
left out; a reply of an unknown shape is one answer, `unexpected`. Fairness: the wait for an answer and the
backoff are timed. The stream's `open_bi` and the write of a request of up to a chunk are not (content.rs:328), so that
nothing is assumed of `Send`, and `TransferEnds` says `StationReads => …`.

`HashedOtherwise` tells the addresses of content that others made with SHA-256. `HonestNeverMismatch`, that no genuine content is ever refused, does not
hold for it (`content_sha`); `Blake3NeverMismatch` is what does hold, with such content on the same station.

### Records, DirectDial, Advertiser

A record is its envelope, its payload and a symbolic signature over the domain and both
(`Sig`-terms say who signed what). `verify` checks the signature, then the expiry; reading
checks each field; a certificate chain is checked for its path to the realm CA, its validity and
the leaf's key and organization. `RecordSignatureBinds` alters every field of every sample.

`DirectDial` runs each of the seven operations through its awaits: `FindAdvert` or `FindContent`,
`FindEndpoint`, `Dial`, `Check` (the HELLO names the station that was resolved), `Work`, `Close`, `Return`. A
lookup answers with any of the stored records in any order, with garbage among them, none, or an error.
Records expire as the clock ticks, a host moves to another station between the lookup and the
dial, and `resolve_via`'s session may be lost. `WorksWhereResolved` follows the chain from the
advertisement to the HELLO, at the time each record was read. `NoneForgotten`: when an operation has returned, the
session it dialled is closed or belongs to the stream it returned. Fairness: the dial and every wait for an answer have a
timeout; what is written to a station - a lookup's CALL, the work, GOODBYE (`Writing`) - has none, and is assumed to end only in `StationsRead`, the
hypothesis of `OpEnds`.

`Advertiser` counts time: the interval, the longest a put takes, the life of a record. A put may
land though its answer is lost, and late ticks burst (tokio's default `MissedTickBehavior`). `KeptAdvertised`:
who finds the record is let through while the connection stands; and a record is there in spite of
`Margin` failed ticks in a row if `Ttl > (Margin + 1) * max(Interval, PutMax) + PutMax`, a
bound that is tight. `PutMax` is an assumption about the station as well as the code: the answer to a put has a timeout (`DHT_TIMEOUT`), the writes of
ADVERTISE and of the put's CALL have not. Bounds: ttl nine, interval three, put two, margin one.

### Frames, Ucan, Cbor

`Frames` has the constructors and parsers as tables of fields and the forms they are set
and read in, over maps that are lists of pairs as in the code. `RoundTrip`: every frame that is built and
signed has each field once, verifies after the wire, and is taken by its own parser and no other
with the fields it was built from. `FrameSignaturesBind`: no field can change under a signature, and a
publisher's signature survives the stations that relay the event.

`Ucan` has tokens as header, payload and symbolic signature; `TokenHonoured` compares the policy's decision
with what was issued, at the seconds around both ends of its validity, for tokens altered in each part.

`Cbor` works on bytes. `CborCanonical`: the encoding does not depend on the order of a map's pairs; decode inverts
encode; what decodes encodes back to the same bytes or to a shorter canonical form; out-of-range integers are
refused. Inputs: the integers around each width, maps and lists two deep with equal keys,
each head byte with too few bytes behind it, half and single floats. It is written with RECURSIVE operators, since nothing is to be proved about it.

### KeyFile

`save` is its four calls, `Open` (create or truncate the `.tmp`), `Write`, `Chmod`, `Rename`, each of which may fail, with a
crash (`Stop`) between any two. `SaveIsAtomic`: what `load` finds is what was there before or a key whose save was attempted, whole, and
a key file is its owner's only. Bounds: two keys and two paths with the same stem, so that both use one
`.tmp`. Saves follow one another; two at once are an observation. Nothing is said of the `.tmp`, which holds the seed with the umask's mode until `Chmod`, and keeps it there after a crash; a crash is that of
the process, not of the machine (`save` does not sync). The store's `save_seed`, `load_seed`, `delete_seed` act on one entry.

### Ffi

Each of the 33 methods of `FfiSession` and `FfiStream` is a record of what it does under the mutex: send, ask (write, then wait for an answer),
receive, accept, serve, look or close; whether its arguments can be refused before the lock; whether its result is
converted after. tokio's mutex is a FIFO queue. A served CALL spawns a handler, which may call any
method of the same object. `MethodsReturn`: every call of a method returns, a serve that a re-entrant handler waits
for included, because `serve_one_call`'s timeout runs under the lock. `LockKept`: a CALL is answered only if its
handler did not need the session, and nothing is sent after GOODBYE or a stream's ERROR.

Fairness: a wait for an answer, for an event and for a handler is timed; a handler may never return. A write and the first
frame of an accepted stream are not (`Untimed`): that they end is `OtherSideActs`, the hypothesis of `MethodsReturn`. It can fail without anybody's fault: `send_data` holds
the mutex while it waits for the peer's window (lib.rs:1644, stream.rs:257), and the `recv` that would free the peer's own `send_data` queues behind it; if both ends are
such objects, both wait for ever, though both applications read.

## What is proved

Every safety property that a passing run lists is a theorem, but for `CborCanonical` (below). A theorem `Spec => []P` holds for every value of the constants that satisfies the named
assumptions of the modules (sets of actors are disjoint, bounds are numbers, `None` is nobody); what it
assumes beyond them is said here. The argument is always the same: an inductive invariant, which the
initial states satisfy and each action preserves, and which implies the property. What follows says
what the invariant adds, that is, why the property holds.

### Pool (`PoolProofs`)

`IInv`, on both runtimes: `ScopeInv` (an actor at a label that concerns a link concerns one the pool
knows), `HolderInv` (an actor that uses a session across an await is at the head of the link's lock),
`ClaimInv` (a link with a live lifecycle task, or with a caller about to spawn one, has its claim `redialing`
set, and there is only one such actor). From it `TypeCorrect`, `SingleLifecycle` and `SessionStaysInPlace`: the
lock makes a session in use stable, the uniqueness of the claim the lifecycle single.

`LinkInv`, on both runtimes: an actor is in one queue at most and once; what is installed is a session; once
`close` has aborted the tasks and the stop signal was received, those that a late failure spawns do not get
past their first look at it (`StopInv`); and `SessionIsOffered`, which is inductive with these. From it `StoppedStaysClosed`
and `SessionsAreOffered`. The second rests on the lock as much as on the order of the flag and the session: who clears the flag holds the lock and empties the
link in the same stretch, and the one task that sets it, late, may only find the link emptied meanwhile. So the flag can be true of an
empty link, which callers skip, but not false of a full one.

None of these assumes a runtime. What holds on a current-thread one only is not stated.

### A session (`ControlStreamProofs`, `FrameStreamProofs`)

`ControlStream`'s properties speak of what is on the wire, so the invariant gives, for every label the application
can stand at, exactly what is out about the call in progress (`CallTold`, `ServeTold`) and about those that are
over (`Told`, `ServeOver`) while the connection is alive; once it is lost, nothing is written any more, and what
was a beginning of the story stays one (`CallBegun`, `ServeBegun`). `AnswerInv` ties the response a call is about to
return to its id, `TakenInv` says that an inbound CALL is fresh, queued, in progress or over, `BracketInv` where the last frame may
be one that wants another after it. Five properties follow: `ResponseIsOwn`, `CallIsBracketed`, `NothingStaysOpen`,
`ServingTellsItsStory`, `OnlyDropsCut`. A dropped future adds one case to each, which `dropped`, the numbers of the frames after which one was
dropped, keeps apart. The stories are subsequences picked out by `SelectSeq`, so that their lemmas
need an induction on the length; the library's theorem takes an operator and cannot be used here, and `Induction` proves the same
of a *set* of numbers from the well-foundedness of `<` (`NatLessThanWellFounded`, `WFMin`).

`Refinement` is `Spec => ImplementsFifo`: for any scripts, header and read chunk, each step of the byte buffer is a step of
`FrameFifo` or a stutter. `BytesInv` orders the offsets of what was drained, read, delivered and
written, and `PlaceInv` says that the buffer begins where the last returned frame ends; `FrameStreamAssumption` says that frames are
longer than their header.

### Streams (`StreamProofs`, `DedicatedProofs`)

`ChunksAccounted` and `AbortToldApart` speak of what an end has read; the invariant adds what is still on its way.
`NumberInv`: the chunks of an end are numbered without a gap in the order of its calls. `FlowInv`: a chunk that was
written is read, on its way, or lost with the connection together with everything after it, so that a reader never gets past a
gap it cannot explain. `EndingInv`: the STREAM_ERROR of an abort is the last frame of its end, and is read or on its way wherever the end of the
stream has come. The theorems hold for any window, any number of frames, sizes and strays. `StreamProofs` proves them of `Stream`,
under `StreamAssumption`; `DedicatedProofs` transfers them to the instance that `MCDedicated` runs, by showing that the two
instances have the same initial states and steps.

### Content (`ContentTransferProofs`)

Of `Manifest`, with an ideal hash: `RootBinds` (data of one length in chunks of one size with one Merkle root are equal, though
a leftover node is hashed with itself), by induction on the number of levels; with it `VerifyBinds`, `AddressBinds` (the list of
chunks is not hashed, but what is hashed determines it) and `ManifestsBind`, for every bound of the run.

`FoldIsTree` says what the root is, for any leaves: that of the tree over the least power of two of them, where a node
without a right sibling is paired with itself. The reference is a table of rows, the level above computed from the one below; the
induction is on the level, and rests on `Width` (how many nodes a level has). `CreateDescribesContent` adds the chunks: laid end to end at their offsets they are the data,
all but the last are of the chunk size, and `from_wire` accepts what `create` made, for any data, chunk size and algorithm. `ManifestsDescribe` is
its instance for the run's data; it assumes `MaxChunk \in Nat`.

Of `ContentTransfer`: a manifest on the station, or late on its way to it, has all its chunks on the station (`StoreInv`), a put
at its index-th chunk has stored the ones before (`PutInv`), a get holds a manifest that describes what its address stands for
(`GetInv`). From it `ManifestsComplete`, `PutIsStored` and `GetIsGenuine`. The last assumes `~Misaddressed`: a station that answers with the
manifest of another address is believed, as the run `content_misaddressed` shows. `Blake3AnswersPass` (`Blake3NeverMismatch`) needs no such hypothesis: the
manifest a get works with, if the station has been honest, is one of those that have the address, and these name BLAKE3 all or none (`AlgsOfAreAlgs`,
`StoreAddressed`), so that each chunk's address is what `block_mcid` makes of the chunk.

### Direct dial (`DirectDialProofs`)

`BasisInv`: at each await, the records an operation rests on were genuine when they were read, and name the station it
goes for, through an advertisement and an endpoint, an endpoint, or a content announcement. `StandInv`: an operation has a session of its own at
`check` and `work` only, and from `work` on it is the station's it resolved. Any records, stations, hosts, numbers of operations, retries and moves.

Of the records themselves, for any values of their fields, where the run evaluates three samples: two that carry one signature and are not refused
for it are equal (`SignatureBindsRecord`), and a record is the same after the wire (`RecordTravelsWhole`).

### Key file, advertiser, foreign objects (`PartsProofs`)

`SavesAreAtomic`: `SavingInv` follows the key from `.tmp` to its path: the file that is renamed is whole, private and of the key
that is being saved. It assumes `KeyFileAssumption`: no saved path is itself the `.tmp` (one that ends in `.tmp` is written in place).

`RecordsAreKept`, for every ttl, interval, put time and margin: `AgeInv` bounds the age of the record by
`failed * max(Interval, PutMax)` and the time since the last tick, and is what shows why the ttl needs room for `Margin + 1` of them and one
put more: the tick that succeeds in the end is as late as the one before it was, plus a put.

`LockIsKept`, for any number of foreign tasks: whoever is past the lock holds it, alone (`HoldInv`), the waiting are in the queue once each
(`QueueInv`), a GOODBYE is the last frame and leaves nobody past the lock (`InnerInv`), and while serve waits for its handler the
handler is not past the lock (`HandlerInv`): that is why a CALL whose handler calls back is never answered.

### Frames, records, tokens (`PartsProofs`)

What a run evaluates over samples is proved for anything the code can be given. A frame is a list of named fields, and the argument starts from
`Plain`: each name is there once. `with_field` and `without` preserve it, and `sign`, `relay` and the constructors build with nothing else. The loops are
folds: `FoldExists` and `FoldInduction` show that `FoldSet` and `FoldLeft` of the library are defined on finite sets and lists, from the
well-foundedness of `<`, since an induction theorem that takes an operator cannot be used; `ListFold` then follows a fold element by element.

*What the signatures cover.* An ideal signature is a term of its key, its domain and the bytes (`SigIs`), and the bytes are all the fields but the two signatures,
whatever order they were added in (`SignableIs`). So two frames that are good under one signature agree on every other field (`SignatureBindsFrame`), and no
field can be set, added or left out unnoticed (`FrameTamper`). Of the publisher's signature, which has to survive a station that adds
`delivered_via`, turns PUBLISH into EVENT and signs again: it fixes topic, realm, publisher, number and payload (`PublisherBinds`, `EventTamper`), where
a payload that is missing and a null one are the same.

*What is parsed.* `BuiltIsParsed`: for all options of a constructor that their Rust types allow (`WellTyped`), what it builds is signed, verified and parsed into exactly
those options, and no parser of another type takes it. `BuildIs` says what is at each name of a built frame; `TablesMatch` that each table of a
constructor and that of its parser name the same fields in forms that agree (`Agree`); `FieldsTaken` that a frame that is so `Readable` is taken. `EventIsRead` composes
both halves: what a subscriber reads of an EVENT is what the publisher put, whichever station delivered it. `RoundTripHolds` and the frames' part of `SignaturesBindHold` are
instances, since every sample is well typed (`SampleIs`).

*Records and tokens.* `RecordBinds` and `PutIsFound` are the lemmas of `DirectDialProofs` for the instance that `MCParts` runs. `TokenBinds`: two tokens that verify under one
signature are one token of one issuer; `TokensHonoured` goes through the tokens that the run alters and the times at the edges of their validity.

Beyond the constants' types these rest on `SymbolsAssumption` (a field that the run makes `Wrong` was not `Wrong` before, and a signature is not the mark for none)
and `UcanAssumption` (what does not decode is not a token), which are about the model values and which TLC evaluates.

Two changes of the model came from these proofs. The tree and the lists of fields were defined by recursion and are now tables and folds. And some `CASE`
expressions of `Frames` (`verify`, `verify_publisher`, `Parse`, `Sample`) had arms that overlapped, where TLA+ leaves open which is taken, although TLC takes the first: they
are now written in the order in which the code tests.

### What is only model-checked

* Liveness: `CallReturns`, `CloseEnds`, `LinkRecovers`, `CallEnds`, `ServeEnds`, `TransferEnds`, `FramesArrive`, `MethodsReturn`, `OpsReturn`,
  `OpEnds`. Fairness needs `ENABLED`, which the prover does not handle.
* `CborCanonical`: `Cbor` is recursive throughout and compares bytes; the prover loses its SMT backend in a module that declares a RECURSIVE operator, and
  what a recursive definition computes for every input needs an induction that it cannot instantiate.

## Findings

Each is a run that TLC ends with a counterexample; `PROJECT.json` has the quotations.

1. `pool_stop_lost` (pool.rs:605): `close` signals a watch channel that has no receiver when every
   link is up, so a call that fails during `close` can bring its link back for good.
2. `cs_timeout` (connection.rs:775): `ServeCallError::Timeout` may mean that a CALL was consumed
   and its handler is running.
3. `content_misaddressed` (content.rs:188): `get` does not compare the manifest with the address
   it asked for.
4. `stream_accept` (stream.rs:213): the timeout of `accept` does not cover the read of the first frame.
5. `pool_orphan` (pool.rs:669): a caller that fails on a new session before its lifecycle has released the claim loses its own claim to it,
   and nobody dials the link again (multi-thread runtime).
6. `content_sha` (content.rs:203): chunks of a SHA-256 manifest are compared with a BLAKE3 address and refused.

### Observations

What was seen while modelling, for which no run is kept.

Pool
* On a multi-thread runtime a caller descheduled between dropping the
  lock and asking for it again (pool.rs:630) throws away, unclosed, the session of a later redial, which it did not see fail; the link is then dialled once more.
* With a caller beside discovery, a late `mark_disconnected` (pool.rs:638) dials a link that has given up, so that
  discovery's links can hold more sessions than `max_links`, which counts only links that have not given up.
* A caller dropped while it waits for the JoinSet's lock (pool.rs:639-641) has claimed the link and spawns nothing: nobody dials the link again, as in `pool_orphan` (`Drop`; on a current-thread runtime that lock is only waited for while `close` has it). A
  station named twice before either link is connected is added twice (pool.rs:976).

Session and frames
* `frame::sign` panics on an argument or a handler's result with an integer outside 64 bits (`expect`, frame.rs:909, 1051), after `rpc.sent_v1` or `rpc.replied_v1` is out; a result
  that is too large fails after `rpc.replied_v1` was sent.
* `encode` has no limit of nesting while `decode` stops at 128: a frame can be sent that no peer of this crate reads.
* A dropped `Session` loses writes that quinn has not sent (documented, connection.rs:717-730).

Content
* A station that stops reading holds a transfer for ever, whatever `BLOCK_TIMEOUT` and `MANIFEST_TIMEOUT` say: only the answer is timed (content.rs:328).

Streams
* Two ends that send without reading fill both windows and wait for each other for ever: `send_data` has no timeout. `OpsReturn` excepts that state.

Direct dial and records
* Adverts that are there but all expired end in `NoTrustedAdvertisement` at once, without the retries of an empty answer; the
  documentation says "none had a valid signature" (direct_dial.rs:58-59). Only the first verified advert is tried.
* A found record's own procedure or content id is not compared with the one that was asked for.
* A content announcement of ttl zero is born expired; a procedure advertisement of ttl zero gets `DEFAULT_TTL`.
* Dialling `resolve_via`'s own station with the same identity makes the station drop `resolve_via` (documented, direct_dial.rs:820-828).
* `keep_advertised_direct` never unadvertises when it returns.
* `dht::verify` looks at the signature before the time, `ucan::verify` at the times first. `Policy` looks at neither audience nor capabilities.

Key files
* `save` does not sync the file; the `.tmp` holds the seed with the umask's mode before the `chmod`, and after a crash for good; two paths with one stem share a `.tmp`, and a path that ends in `.tmp` is written in place.

FFI
* `deadline_ms` is computed before the lock is taken (lib.rs:886), so that time in the queue counts against the CALL and not against its timeout.
* A result, chunk or accepted stream whose conversion fails has been consumed and is gone. `o.deadline_ms as i64` truncates (lib.rs:692).
* `close` waits behind a long `serve_one_call` or `accept_stream`. `recv` and `recv_event` are documented as "bounded by `timeout_ms`" (lib.rs:1531, 1668), but wait for the mutex first, without a bound.
* Two foreign ends that send large chunks while their `recv`s queue behind the sends wait for each other for ever (see `Ffi`).
* The CALL of a re-entrant handler is never answered.

## Plan

Modelled, and proved where it can be: everything in the tables of modules. What is left, in order:

1. Steps towards liveness that are safety: that a method that waits always has something that can wake it (no deadlock in `Stream`
   but the one of two full windows, none in `Ffi`).
2. Node ids and duplicates in the discovery loop.

## Not modelled

Cryptography (hashes and signatures are terms), key generation and the puzzle, X.509 parsing and
the pin of a station's self-signed certificate (`cert.rs`, a callback of rustls), the CBOR shape of
manifests and content requests, QUIC itself (a reliable ordered stream that can break), the
configuration of TLS (`transport.rs`), the mirror types of the FFI, examples and live tests. Of the pool: node
ids and addresses of discovered rows. Of the token module: the getters and the CID, which decide nothing.
