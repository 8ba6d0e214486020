-------------------------------- MODULE Stream --------------------------------
(***************************************************************************)
(* Streaming RPC, src/stream.rs: the StreamHandle of the caller and the     *)
(* StreamHandle of the provider over one dedicated QUIC stream, which the   *)
(* station relays.                                                          *)
(*                                                                          *)
(* Every method takes &mut self, so each end does one thing at a time; what *)
(* interleaves is the two ends, the relay and time.  Frames travel in order *)
(* (FrameFifo says so, FrameStream implements it); a write waits while the  *)
(* flow-control window of its direction is full.                            *)
(***************************************************************************)
EXTENDS Naturals, Sequences, SequencesExt

CONSTANTS
  Uses,       \* the methods the application of each end uses
  MaxFrames,  \* how many frames each end tries to write
  Window,     \* frames a direction holds before a write has to wait
  Large,      \* types of frames that the application may make too large
  Strays      \* frames of another stream_id that the relay may put in

Ends == {"caller", "provider"}

\* What the constants are.
StreamAssumption ==
  /\ Uses \in [Ends -> SUBSET {"send_data", "close_send", "send_reply", "abort", "drop",
                               "recv", "await_reply"}]
  /\ MaxFrames \in [Ends -> Nat]
  /\ Window \in Nat \ {0}
  /\ Large \subseteq {"open", "data", "reply", "error"}
  /\ Strays \in Nat

Peer(e) == IF e = "caller" THEN "provider" ELSE "caller"

VARIABLES
  handle,  \* each end's StreamHandle: none yet, held, or gone
  pc,      \* the await each end stands at
  seqOut,  \* seq_out of each handle
  chan,    \* the frames on their way to each end
  begun,   \* the provider's quinn knows the stream: its first bytes are there
  fin,     \* the direction to each end is finished: the peer's half is dropped
  stopped, \* each end has learned that nobody reads what it writes
  up,      \* the QUIC connection is alive
  strays,  \* strays put in so far
  tried,   \* every frame each end tried to write, in order, the last perhaps still
           \* being written
  failed,  \* the positions in tried of the frames that were not written
  got,     \* what each end made of every frame it read, in order
  told     \* how the stream ended for each end, as its reads said

wireVars == <<chan, begun, fin, stopped, up, strays>>
endVars  == <<handle, pc, seqOut>>
history  == <<tried, failed, got, told>>
vars == <<wireVars, endVars, history>>

-----------------------------------------------------------------------------
(* Frames.                                                                  *)

\* A frame; a STREAM_DATA carries its number and, as body, the place of its
\* send_data among all of this end.
Frame(type, seq, body) == [type |-> type, seq |-> seq, body |-> body]
Bare(type) == Frame(type, 0, 0)

\* The chunks this end has asked to send: the number of its send_data calls.
Chunks(e) == Cardinality({p \in DOMAIN tried[e] : tried[e][p].type = "data"})

Init ==
  /\ handle = [e \in Ends |-> "none"]
  /\ pc = [e \in Ends |-> "idle"]
  /\ seqOut = [e \in Ends |-> 0]
  /\ chan = [e \in Ends |-> <<>>]
  /\ begun = FALSE
  /\ fin = [e \in Ends |-> FALSE]
  /\ stopped = [e \in Ends |-> FALSE]
  /\ up = TRUE
  /\ strays = 0
  /\ tried = [e \in Ends |-> <<>>]
  /\ failed = [e \in Ends |-> {}]
  /\ got = [e \in Ends |-> <<>>]
  /\ told = [e \in Ends |-> {}]

-----------------------------------------------------------------------------
(* Writing.                                                                 *)

\* A method of end e signs f and begins to write it.
StartWrite(e, label, f) ==
  /\ Len(tried[e]) < MaxFrames[e]
  /\ pc' = [pc EXCEPT ![e] = label]
  /\ tried' = [tried EXCEPT ![e] = Append(@, f)]

Writing == {"opening", "sending", "aborting"}

\* The handle of e is dropped: quinn finishes the half that writes and asks the
\* peer to stop what the other half would have read.
Dropped(e) ==
  /\ handle' = [handle EXCEPT ![e] = "gone"]
  /\ fin' = [fin EXCEPT ![Peer(e)] = @ \/ up]

\* The write of e has ended, and with it the method: an open that has failed and
\* an abort leave no handle.
EndWrite(e, written) ==
  /\ pc' = [pc EXCEPT ![e] = "idle"]
  /\ IF pc[e] = "aborting" \/ (pc[e] = "opening" /\ ~written)
     THEN Dropped(e)
     ELSE /\ handle' = [handle EXCEPT ![e] = "held"]
          /\ UNCHANGED fin

\* write_all has taken the last byte.
Written(e) ==
  /\ pc[e] \in Writing
  /\ up /\ ~stopped[e]
  /\ Len(chan[Peer(e)]) < Window
  /\ chan' = [chan EXCEPT ![Peer(e)] = Append(@, Last(tried[e]))]
  /\ begun' = TRUE
  /\ EndWrite(e, TRUE)
  /\ UNCHANGED <<stopped, up, strays, seqOut, history>>

\* The write fails: the peer reads no more, or the connection is lost.
WriteFails(e) ==
  /\ pc[e] \in Writing
  /\ handle[Peer(e)] = "gone" \/ ~up
  /\ stopped' = [stopped EXCEPT ![e] = TRUE]
  /\ failed' = [failed EXCEPT ![e] = @ \cup {Len(tried[e])}]
  /\ EndWrite(e, FALSE)
  /\ UNCHANGED <<chan, begun, up, strays, seqOut, tried, got, told>>

\* frame::encode refuses the frame, larger than MAX_FRAME_BYTES with what the
\* application put in it: nothing is written.
Unencodable(e) ==
  /\ pc[e] \in Writing
  /\ ~(pc[e] = "opening" /\ begun)
  /\ Last(tried[e]).type \in Large
  /\ failed' = [failed EXCEPT ![e] = @ \cup {Len(tried[e])}]
  /\ EndWrite(e, FALSE)
  /\ UNCHANGED <<chan, begun, stopped, up, strays, seqOut, tried, got, told>>

-----------------------------------------------------------------------------
(* open and accept.                                                         *)

Open ==
  /\ handle["caller"] = "none" /\ pc["caller"] = "idle"
  /\ StartWrite("caller", "opening", Bare("open"))
  /\ UNCHANGED <<wireVars, handle, seqOut, failed, got, told>>

\* The first bytes of STREAM_OPEN reach the provider, which is how quinn learns
\* of a stream.
OpenBegins ==
  /\ pc["caller"] = "opening"
  /\ up /\ ~begun
  /\ begun' = TRUE
  /\ UNCHANGED <<chan, fin, stopped, up, strays, endVars, history>>

Accept ==
  /\ handle["provider"] = "none" /\ pc["provider"] = "idle"
  /\ pc' = [pc EXCEPT !["provider"] = "accepting"]
  /\ UNCHANGED <<wireVars, handle, seqOut, history>>

\* accept_dedicated_stream returns within the timeout; the read of the first
\* frame that follows is bounded by nothing.
AcceptStream ==
  /\ pc["provider"] = "accepting"
  /\ begun
  /\ pc' = [pc EXCEPT !["provider"] = "first"]
  /\ UNCHANGED <<wireVars, handle, seqOut, history>>

\* AcceptError::Timeout, or AcceptStream when the connection is lost.
AcceptFails ==
  /\ pc["provider"] = "accepting"
  /\ pc' = [pc EXCEPT !["provider"] = "idle"]
  /\ UNCHANGED <<wireVars, handle, seqOut, history>>

\* parse_stream_open takes the first frame, or refuses it and drops the stream.
FirstFrame ==
  /\ pc["provider"] = "first"
  /\ chan["provider"] # <<>>
  /\ chan' = [chan EXCEPT !["provider"] = Tail(@)]
  /\ pc' = [pc EXCEPT !["provider"] = "idle"]
  /\ IF Head(chan["provider"]).type = "open"
     THEN handle' = [handle EXCEPT !["provider"] = "held"] /\ UNCHANGED fin
     ELSE Dropped("provider")
  /\ UNCHANGED <<begun, stopped, up, strays, seqOut, history>>

\* AcceptError::Recv: the stream ends before its first frame is whole.
FirstFails ==
  /\ pc["provider"] = "first"
  /\ chan["provider"] = <<>>
  /\ fin["provider"] \/ ~up
  /\ pc' = [pc EXCEPT !["provider"] = "idle"]
  /\ Dropped("provider")
  /\ UNCHANGED <<chan, begun, stopped, up, strays, seqOut, history>>

-----------------------------------------------------------------------------
(* The methods of a handle.                                                 *)

\* The application calls a method: self is borrowed, so no other is running.
Ready(e, method) == method \in Uses[e] /\ handle[e] = "held" /\ pc[e] = "idle"

\* Slip: a chunk that is counted only once it is whole leaves the number as it is.
send_data_uncounted(e) ==
  /\ Ready(e, "send_data")
  /\ StartWrite(e, "sending", Frame("data", seqOut[e], Chunks(e)))
  /\ UNCHANGED <<wireVars, handle, seqOut, failed, got, told>>

\* The chunk takes its number, and the counter moves, before anything is sent.
send_data(e) ==
  /\ Ready(e, "send_data")
  /\ StartWrite(e, "sending", Frame("data", seqOut[e], Chunks(e)))
  /\ seqOut' = [seqOut EXCEPT ![e] = @ + 1]
  /\ UNCHANGED <<wireVars, handle, failed, got, told>>

close_send(e) ==
  /\ Ready(e, "close_send")
  /\ StartWrite(e, "sending", Bare("end"))
  /\ UNCHANGED <<wireVars, handle, seqOut, failed, got, told>>

send_reply(e) ==
  /\ Ready(e, "send_reply")
  /\ StartWrite(e, "sending", Bare("reply"))
  /\ UNCHANGED <<wireVars, handle, seqOut, failed, got, told>>

\* Slip: abort drops the handle and leaves the STREAM_ERROR unsent.
abort_unsaid(e) ==
  /\ Ready(e, "abort")
  /\ Len(tried[e]) < MaxFrames[e]
  /\ tried' = [tried EXCEPT ![e] = Append(@, Bare("error"))]
  /\ Dropped(e)
  /\ UNCHANGED <<chan, begun, stopped, up, strays, pc, seqOut, failed, got, told>>

\* abort takes self: STREAM_ERROR is written, best effort, then all is dropped.
abort(e) ==
  /\ Ready(e, "abort")
  /\ StartWrite(e, "aborting", Bare("error"))
  /\ UNCHANGED <<wireVars, handle, seqOut, failed, got, told>>

\* The application drops its handle.
Drop(e) ==
  /\ Ready(e, "drop")
  /\ Dropped(e)
  /\ UNCHANGED <<chan, begun, stopped, up, strays, pc, seqOut, history>>

recv(e) ==
  /\ Ready(e, "recv")
  /\ pc' = [pc EXCEPT ![e] = "recv"]
  /\ UNCHANGED <<wireVars, handle, seqOut, history>>

await_reply(e) ==
  /\ Ready(e, "await_reply")
  /\ pc' = [pc EXCEPT ![e] = "await_reply"]
  /\ UNCHANGED <<wireVars, handle, seqOut, history>>

\* What a method makes of a frame: a STREAM_REPLY is refused by recv, a
\* STREAM_DATA and a STREAM_END are refused by await_reply, before the
\* stream_id is looked at.
Outcome(method, f) ==
  IF method = "recv"
  THEN CASE f.type = "data"  -> "item"
         [] f.type = "end"   -> "eof"
         [] f.type = "error" -> "aborted"
         [] f.type = "reply" -> "unexpected"
         [] f.type = "stray" -> "mismatch"
         [] OTHER            -> "unparsed"
  ELSE CASE f.type = "reply" -> "reply"
         [] f.type = "error" -> "aborted"
         [] f.type \in {"data", "end"} -> "unexpected"
         [] f.type = "stray" -> "mismatch"
         [] OTHER            -> "unparsed"

Reading == {"recv", "await_reply"}

\* recv_frame has a frame: it is consumed, whatever the method makes of it.
Received(e) ==
  /\ pc[e] \in Reading
  /\ chan[e] # <<>>
  /\ chan' = [chan EXCEPT ![e] = Tail(@)]
  /\ got' = [got EXCEPT ![e] = Append(@, [how |-> Outcome(pc[e], Head(chan[e])),
                                          f |-> Head(chan[e])])]
  /\ pc' = [pc EXCEPT ![e] = "idle"]
  /\ UNCHANGED <<begun, fin, stopped, up, strays, handle, seqOut, tried, failed, told>>

\* Nothing is left to read: StreamClosed if the end of the stream has arrived, Read
\* if the connection is lost before.
ReadEnds(e) ==
  /\ pc[e] \in Reading
  /\ chan[e] = <<>>
  /\ fin[e] \/ ~up
  /\ told' = [told EXCEPT ![e] = @ \cup {IF fin[e] THEN "closed" ELSE "lost"}]
  /\ pc' = [pc EXCEPT ![e] = "idle"]
  /\ UNCHANGED <<wireVars, handle, seqOut, tried, failed, got>>

\* Slip: a read that nothing bounds.
ReadTimeout_never(e) == FALSE /\ UNCHANGED vars

\* recv_frame_timeout gives up; bytes that have arrived stay in the buffer.
ReadTimeout(e) ==
  /\ pc[e] \in Reading
  /\ pc' = [pc EXCEPT ![e] = "idle"]
  /\ UNCHANGED <<wireVars, handle, seqOut, history>>

-----------------------------------------------------------------------------
(* The relay and the network.                                               *)

\* A frame of another stream arrives, which no well-behaved relay sends.
Stray(e) ==
  /\ up /\ begun /\ strays < Strays
  /\ Len(chan[e]) < Window
  /\ strays' = strays + 1
  /\ chan' = [chan EXCEPT ![e] = Append(@, Bare("stray"))]
  /\ UNCHANGED <<begun, fin, stopped, up, endVars, history>>

\* The connection is lost: some of what was on its way to each end has arrived and
\* can be read, the end of the stream with it if it has arrived after all else.
Lose ==
  /\ up
  /\ up' = FALSE
  /\ \E n \in [Ends -> 0..Window] :
       /\ \A e \in Ends : n[e] <= Len(chan[e])
       /\ chan' = [e \in Ends |-> SubSeq(chan[e], 1, n[e])]
       /\ fin' \in {f \in [Ends -> BOOLEAN] :
                     \A e \in Ends : f[e] => fin[e] /\ n[e] = Len(chan[e])}
  /\ UNCHANGED <<begun, stopped, strays, endVars, history>>

-----------------------------------------------------------------------------

\* Steps a method takes on its own, once it has been called.
Progress(e) ==
  \/ Written(e) \/ WriteFails(e)
  \/ Received(e) \/ ReadEnds(e) \/ ReadTimeout(e)

AcceptProgress == AcceptStream \/ AcceptFails \/ FirstFrame \/ FirstFails

Methods(e) ==
  \/ send_data(e) \/ close_send(e) \/ send_reply(e) \/ abort(e) \/ Drop(e)
  \/ recv(e) \/ await_reply(e)

Next ==
  \/ Open \/ OpenBegins \/ Accept \/ AcceptProgress
  \/ \E e \in Ends : Methods(e) \/ Progress(e) \/ Unencodable(e) \/ Stray(e)
  \/ Lose

Spec == Init /\ [][Next]_vars

\* What has been called goes on: a write is taken while the window has room, a
\* reading method is polled and timed out by tokio.
EndFairness(e) == WF_vars(Progress(e))

\* The provider's end alone is fair: nothing is known of the peer.
ProviderFairness == EndFairness("provider") /\ WF_vars(AcceptProgress)
ProviderSpec == Spec /\ ProviderFairness

\* Both ends run this code, so that an open that has begun goes on.
Fairness == ProviderFairness /\ EndFairness("caller")
FairSpec == Spec /\ Fairness

-----------------------------------------------------------------------------
(* Properties.                                                              *)

TypeOK ==
  /\ handle \in [Ends -> {"none", "held", "gone"}]
  /\ pc \in [Ends -> Writing \cup Reading \cup {"idle", "accepting", "first"}]
  /\ seqOut \in [Ends -> Nat]
  /\ \A e \in Ends : Len(chan[e]) <= Window /\ failed[e] \subseteq DOMAIN tried[e]

\* The numbers of the chunks whose send_data has failed.
FailedChunks(e) == {tried[e][p].body : p \in {q \in failed[e] : tried[e][q].type = "data"}}

IsChunk(r) == r.f.type = "data"

\* A receiver can tell which chunks it lacks: numbers grow, each is that of the
\* sender's call, and every number that was skipped belongs to a send_data that
\* failed or to a chunk that await_reply has refused and so consumed
\* (stream.rs send_data counts before it sends; recv, await_reply).
ChunksAccounted ==
  \A e \in Ends : \A i \in DOMAIN got[e] :
    LET before == {j \in 1..(i - 1) : IsChunk(got[e][j])}
        seen == {got[e][j].f.seq : j \in before}
        n == got[e][i].f.seq
    IN got[e][i].how = "item" =>
         /\ got[e][i].f.body = n
         /\ \A k \in seen : k < n
         /\ (0..(n - 1)) \ seen \subseteq FailedChunks(Peer(e))

\* The end of a stream tells a cancellation from a loss: an end that reads
\* StreamClosed from a peer that has aborted, its STREAM_ERROR written, has read
\* that STREAM_ERROR before (stream.rs abort).
AbortToldApart ==
  \A e \in Ends :
    /\ "closed" \in told[e]
    /\ tried[Peer(e)] # <<>> /\ Last(tried[Peer(e)]).type = "error"
    /\ Len(tried[Peer(e)]) \notin failed[Peer(e)]
    => \E j \in DOMAIN got[e] : got[e][j].how = "aborted"

\* A write that waits for room in a window that the peer does not empty.
Jammed(e) == pc[e] \in Writing /\ Len(chan[Peer(e)]) = Window

\* Every method returns, a write that is jammed apart: whatever the peer does, the
\* reads are bounded; accept needs a peer that finishes its STREAM_OPEN
\* (stream.rs recv, await_reply, accept, send_data).
OpsReturn == \A e \in Ends : (pc[e] # "idle") ~> (pc[e] = "idle" \/ Jammed(e))

\* "block for the next inbound STREAM_OPEN on session's connection, bounded by
\* timeout" (stream.rs:198-199): accept returns, whatever the peer does.
AcceptBounded == (pc["provider"] \in {"accepting", "first"}) ~> (pc["provider"] = "idle")

===============================================================================
