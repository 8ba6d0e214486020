------------------------------ MODULE StreamProofs ------------------------------
(***************************************************************************)
(* Proofs about Stream, for any use of the two ends, any window and any     *)
(* number of frames and strays.                                             *)
(*                                                                          *)
(* ChunksAccounted and AbortToldApart speak of what an end has read; what   *)
(* makes them inductive is what is still on its way to it.  NumberInv says   *)
(* that the chunks an end tries to send are numbered without gaps in the    *)
(* order of the calls.  Flow says where a chunk that was written is: read,  *)
(* on its way, or lost with the connection together with all that came      *)
(* after it, so that a reader never gets past a gap; an end whose handle is *)
(* gone reads nothing more and is left out.  Ending says the same of the    *)
(* STREAM_ERROR of an abort, which is the last frame of its end and so is   *)
(* there whenever the end of the stream has arrived.                        *)
(***************************************************************************)
EXTENDS Stream, FiniteSetTheorems, SequenceTheorems, TLAPS

Types == {"open", "data", "end", "reply", "error", "stray"}
Hows == {"item", "eof", "aborted", "unexpected", "mismatch", "unparsed", "reply"}

StreamFrames == [type : Types, seq : Nat, body : Nat]

\* The values of the variables.
TypeInv ==
  /\ handle \in [Ends -> {"none", "held", "gone"}]
  /\ pc \in [Ends -> Writing \cup Reading \cup {"idle", "accepting", "first"}]
  /\ seqOut \in [Ends -> Nat]
  /\ chan \in [Ends -> Seq(StreamFrames)]
  /\ fin \in [Ends -> BOOLEAN]
  /\ stopped \in [Ends -> BOOLEAN]
  /\ begun \in BOOLEAN /\ up \in BOOLEAN
  /\ tried \in [Ends -> Seq(StreamFrames)]
  /\ failed \in [Ends -> SUBSET Nat]
  /\ got \in [Ends -> Seq([how : Hows, f : StreamFrames])]
  /\ told \in [Ends -> SUBSET {"closed", "lost"}]
  /\ \A e \in Ends : Len(chan[e]) <= Window /\ failed[e] \subseteq DOMAIN tried[e]

\* Which handle an end has where its methods stand, and when a stream is finished.
PlaceInv ==
  \A e \in Ends :
    /\ pc[e] \in Reading \cup {"sending", "aborting"} => handle[e] = "held"
    /\ pc[e] \in {"opening", "accepting", "first"} => handle[e] = "none"
    /\ pc[e] = "opening" => e = "caller"
    /\ pc[e] \in {"accepting", "first"} => e = "provider"
    /\ pc[e] \in Writing => tried[e] # <<>>
    /\ fin[e] => handle[Peer(e)] = "gone"
    /\ "closed" \in told[e] => handle[Peer(e)] = "gone"

Data(f) == f.type = "data"

\* The chunks of an end are numbered from 0 in the order of its calls.
Numbered(e) ==
  /\ seqOut[e] = Chunks(e)
  /\ \A p \in DOMAIN tried[e] :
       Data(tried[e][p]) => tried[e][p].body = tried[e][p].seq /\ tried[e][p].seq < seqOut[e]
  /\ \A p, q \in DOMAIN tried[e] :
       p < q /\ Data(tried[e][p]) /\ Data(tried[e][q]) => tried[e][p].seq < tried[e][q].seq
  /\ \A n \in 0..(seqOut[e] - 1) :
       \E p \in DOMAIN tried[e] : Data(tried[e][p]) /\ tried[e][p].seq = n

NumberInv == \A e \in Ends : Numbered(e)

\* The write of the frame at p of an end has ended.
Ended(e, p) == p # Len(tried[e]) \/ pc[e] \notin Writing

\* The chunk numbered n has been read, or is on its way, ...
Arrived(e, n) ==
  \/ \E i \in DOMAIN got[e] : Data(got[e][i].f) /\ got[e][i].f.seq = n
  \/ \E j \in DOMAIN chan[e] : Data(chan[e][j]) /\ chan[e][j].seq = n

\* ... or the connection was lost before it, and nothing that came after it was read.
Lost(e, n) ==
  /\ ~up
  /\ \A i \in DOMAIN got[e] : Data(got[e][i].f) => got[e][i].f.seq < n
  /\ \A j \in DOMAIN chan[e] : Data(chan[e][j]) => chan[e][j].seq < n

SentBy(e, f) == \E p \in DOMAIN tried[e] : tried[e][p] = f /\ Ended(e, p)

\* What is read, and what is on its way, was sent, and in the order it was sent.
Ordered(e) ==
  /\ \A i \in DOMAIN got[e] : Data(got[e][i].f) => SentBy(Peer(e), got[e][i].f)
  /\ \A j \in DOMAIN chan[e] : Data(chan[e][j]) => SentBy(Peer(e), chan[e][j])
  /\ \A i, j \in DOMAIN got[e] :
       i < j /\ Data(got[e][i].f) /\ Data(got[e][j].f) => got[e][i].f.seq < got[e][j].f.seq
  /\ \A i, j \in DOMAIN chan[e] :
       i < j /\ Data(chan[e][i]) /\ Data(chan[e][j]) => chan[e][i].seq < chan[e][j].seq
  /\ \A i \in DOMAIN got[e], j \in DOMAIN chan[e] :
       Data(got[e][i].f) /\ Data(chan[e][j]) => got[e][i].f.seq < chan[e][j].seq

\* No chunk that was written is missing before one that has come.
Gapless(e) ==
  handle[e] # "gone" =>
    \A p \in DOMAIN tried[Peer(e)] :
      LET f == tried[Peer(e)][p]
      IN Data(f) /\ p \notin failed[Peer(e)] /\ Ended(Peer(e), p)
           => Arrived(e, f.seq) \/ Lost(e, f.seq)

Flow(e) ==
  /\ \A i \in DOMAIN got[e] : got[e][i].how = "item" => Data(got[e][i].f)
  /\ Ordered(e)
  /\ Gapless(e)

FlowInv == \A e \in Ends : Flow(e)

\* The last frame of an end is a STREAM_ERROR that has been written.
Aborted(e) ==
  /\ tried[e] # <<>>
  /\ tried[e][Len(tried[e])].type = "error"
  /\ Len(tried[e]) \notin failed[e]

\* The STREAM_ERROR has been read.
AbortRead(e) == \E j \in DOMAIN got[e] : got[e][j].how = "aborted"

\* It is on its way.
AbortComing(e) == \E j \in DOMAIN chan[e] : chan[e][j].type = "error"

\* Once it has been written, an end that still reads has read it or will, as long as the
\* connection, or the end of the stream, is there.
Delivered(e) ==
  handle[e] # "gone" /\ Aborted(Peer(e)) /\ pc[Peer(e)] \notin Writing /\ (up \/ fin[e])
    => AbortRead(e) \/ AbortComing(e)

Ending(e) ==
  /\ "closed" \in told[e] /\ Aborted(Peer(e)) => AbortRead(e)
  /\ Delivered(e)

EndingInv == \A e \in Ends : Ending(e)

IInv == TypeInv /\ PlaceInv /\ NumberInv /\ FlowInv /\ ChunksAccounted /\ EndingInv
-----------------------------------------------------------------------------
(* Helpers.                                                                 *)

\* The two ends.
LEMMA TwoEnds ==
  /\ \A e \in Ends : Peer(e) \in Ends /\ Peer(e) # e /\ Peer(Peer(e)) = e
  /\ \A e, d \in Ends : d # e => d = Peer(e)
  /\ "caller" \in Ends /\ "provider" \in Ends /\ Peer("caller") = "provider"
BY DEF Ends, Peer

\* A sequence with one more element, and without its first.
LEMMA QueueParts ==
  ASSUME NEW S, NEW s \in Seq(S), NEW x \in S
  PROVE  /\ Append(s, x) \in Seq(S)
         /\ Len(Append(s, x)) = Len(s) + 1
         /\ \A k \in DOMAIN s : Append(s, x)[k] = s[k]
         /\ Append(s, x)[Len(s) + 1] = x
         /\ DOMAIN s = 1..Len(s)
         /\ DOMAIN Append(s, x) = 1..(Len(s) + 1)
         /\ s # <<>> => /\ Tail(s) \in Seq(S) /\ Len(Tail(s)) = Len(s) - 1
                        /\ \A k \in DOMAIN Tail(s) : Tail(s)[k] = s[k + 1] /\ k + 1 \in DOMAIN s
                        /\ DOMAIN Tail(s) = 1..(Len(s) - 1)
                        /\ Head(s) = s[1] /\ 1 \in DOMAIN s /\ Head(s) \in S
                        /\ Len(s) \in DOMAIN s
OBVIOUS

-----------------------------------------------------------------------------
(* The kinds of steps.                                                      *)

\* A method begins to write a frame.
Start(e) ==
  \/ e = "caller" /\ Open
  \/ send_data(e) \/ close_send(e) \/ send_reply(e) \/ abort(e)

\* A write ends and leaves nothing on the wire.
Fails(e) == WriteFails(e) \/ Unencodable(e)

\* A step that puts nothing on the wire and takes nothing from it.
Quiet ==
  \/ OpenBegins \/ Accept \/ AcceptStream \/ AcceptFails \/ FirstFails
  \/ \E e \in Ends : Drop(e) \/ recv(e) \/ await_reply(e) \/ ReadEnds(e) \/ ReadTimeout(e)
  \/ UNCHANGED vars

\* These are all the steps.
LEMMA StepIs ==
  ASSUME [Next]_vars
  PROVE  \/ Quiet \/ FirstFrame \/ Lose
         \/ \E e \in Ends : Start(e) \/ Fails(e) \/ Written(e) \/ Received(e) \/ Stray(e)
BY DEF Next, AcceptProgress, Methods, Progress, Quiet, Start, Fails, Ends

\* What a quiet step leaves as it is, and how handles, ends and reads change in it.
Quietly ==
  /\ UNCHANGED <<seqOut, chan, up, tried, failed, got>>
  /\ handle' \in [Ends -> {"none", "held", "gone"}]
  /\ pc' \in [Ends -> Writing \cup Reading \cup {"idle", "accepting", "first"}]
  /\ fin' \in [Ends -> BOOLEAN] /\ stopped' \in [Ends -> BOOLEAN] /\ begun' \in BOOLEAN
  /\ told' \in [Ends -> SUBSET {"closed", "lost"}]
  /\ \A e \in Ends :
       /\ pc'[e] = pc[e] \/ pc'[e] \in {"idle", "accepting", "first"} \cup Reading
       /\ pc[e] \in Writing => pc'[e] = pc[e]
       /\ handle'[e] = handle[e] \/ (handle'[e] = "gone" /\ pc'[e] = "idle")
       /\ pc'[e] = pc[e] \/ pc'[e] = "idle"
            \/ (handle[e] = "held" /\ handle'[e] = "held" /\ pc'[e] \in Reading)
            \/ (handle[e] = "none" /\ handle'[e] = "none" /\ e = "provider"
                   /\ pc'[e] \in {"accepting", "first"})
       /\ fin'[e] => fin[e] \/ (up /\ handle'[Peer(e)] = "gone")
       /\ "closed" \in told'[e] =>
            "closed" \in told[e] \/ (fin[e] /\ chan[e] = <<>> /\ handle[e] = "held")

\* Quiet steps are quiet (StreamHandle::recv, await_reply, accept; the drop of a handle).
LEMMA QuietTells ==
  ASSUME TypeInv, PlaceInv, Quiet
  PROVE  Quietly
<1> USE TwoEnds DEF TypeInv, Writing, Reading, Ready, Quietly
<1>1. CASE OpenBegins \/ UNCHANGED vars
  BY <1>1 DEF OpenBegins, vars, wireVars, endVars, history
<1>2. CASE Accept \/ AcceptStream \/ AcceptFails
  <2>1. UNCHANGED <<wireVars, history, handle, seqOut>>
    BY <1>2 DEF Accept, AcceptStream, AcceptFails
  <2>2. PICK l \in {"accepting", "first", "idle"} : pc' = [pc EXCEPT !["provider"] = l]
    BY <1>2 DEF Accept, AcceptStream, AcceptFails
  <2>3. handle["provider"] = "none" /\ pc["provider"] \in {"idle", "accepting"}
    BY <1>2 DEF Accept, AcceptStream, AcceptFails, PlaceInv
  <2>4. pc' \in [Ends -> Writing \cup Reading \cup {"idle", "accepting", "first"}]
    BY <2>2
  <2>5. \A e \in Ends : pc'[e] = IF e = "provider" THEN l ELSE pc[e]
    BY <2>2
  <2>6. QED BY <2>1, <2>3, <2>4, <2>5 DEF wireVars, history
<1>3. CASE FirstFails
  BY <1>3 DEF FirstFails, Dropped, history
<1>4. ASSUME NEW e \in Ends, Drop(e)
      PROVE  Quietly
  BY <1>4 DEF Drop, Dropped, history
<1>5. ASSUME NEW e \in Ends, recv(e) \/ await_reply(e)
      PROVE  Quietly
  <2>1. UNCHANGED <<wireVars, history, handle, seqOut>> /\ handle[e] = "held" /\ pc[e] = "idle"
    BY <1>5 DEF recv, await_reply
  <2>2. PICK l \in Reading : pc' = [pc EXCEPT ![e] = l]
    BY <1>5 DEF recv, await_reply
  <2>3. pc' \in [Ends -> Writing \cup Reading \cup {"idle", "accepting", "first"}]
    BY <2>2
  <2>4. \A d \in Ends : pc'[d] = IF d = e THEN l ELSE pc[d]
    BY <2>2
  <2>5. QED BY <2>1, <2>3, <2>4 DEF wireVars, history
<1>6. ASSUME NEW e \in Ends, ReadEnds(e) \/ ReadTimeout(e)
      PROVE  Quietly
  <2>1. /\ UNCHANGED <<wireVars, handle, seqOut, tried, failed, got>>
        /\ handle[e] = "held" /\ pc[e] \in Reading
        /\ pc' = [pc EXCEPT ![e] = "idle"]
    BY <1>6 DEF ReadEnds, ReadTimeout, history, PlaceInv
  <2>2. /\ pc' \in [Ends -> Writing \cup Reading \cup {"idle", "accepting", "first"}]
        /\ \A d \in Ends : pc'[d] = IF d = e THEN "idle" ELSE pc[d]
    BY <2>1
  <2>3. /\ told' \in [Ends -> SUBSET {"closed", "lost"}]
        /\ \A d \in Ends :
             "closed" \in told'[d] =>
               "closed" \in told[d] \/ (d = e /\ fin[e] /\ chan[e] = <<>>)
    <3>1. CASE ReadEnds(e)
      BY <3>1 DEF ReadEnds
    <3>2. CASE ReadTimeout(e)
      BY <3>2 DEF ReadTimeout, history
    <3>3. QED BY <1>6, <3>1, <3>2
  <2>4. QED BY <2>1, <2>2, <2>3 DEF wireVars
<1>7. QED BY <1>1, <1>2, <1>3, <1>4, <1>5, <1>6 DEF Quiet

\* A method that writes takes its frame into account before it writes.
Starting(e, f, label) ==
  /\ pc[e] = "idle" /\ pc' = [pc EXCEPT ![e] = label]
  /\ tried' = [tried EXCEPT ![e] = Append(@, f)]
  /\ IF label = "opening" THEN e = "caller" /\ handle[e] = "none" ELSE handle[e] = "held"
  /\ IF Data(f)
     THEN f.seq = seqOut[e] /\ f.body = seqOut[e] /\ seqOut' = [seqOut EXCEPT ![e] = @ + 1]
     ELSE UNCHANGED seqOut
  /\ UNCHANGED <<wireVars, handle, failed, got, told>>

\* That is what open, send_data, close_send, send_reply and abort do.
LEMMA StartTells ==
  ASSUME TypeInv, NumberInv, NEW e \in Ends, Start(e)
  PROVE  \E f \in StreamFrames, label \in Writing : Starting(e, f, label)
<1> USE DEF StartWrite, Bare, Frame, Data, Starting, StreamFrames, Types, Writing, Ready
<1>1. CASE e = "caller" /\ Open
  <2>1. Starting(e, Bare("open"), "opening") /\ Bare("open") \in StreamFrames
    BY <1>1 DEF Open
  <2>2. QED BY <2>1
<1>2. CASE send_data(e)
  <2>1. Chunks(e) = seqOut[e] /\ seqOut[e] \in Nat
    BY DEF NumberInv, Numbered, TypeInv
  <2>2. /\ Starting(e, Frame("data", seqOut[e], seqOut[e]), "sending")
        /\ Frame("data", seqOut[e], seqOut[e]) \in StreamFrames
    BY <1>2, <2>1 DEF send_data, wireVars
  <2>3. QED BY <2>2
<1>3. CASE close_send(e)
  <2>1. Starting(e, Bare("end"), "sending") /\ Bare("end") \in StreamFrames
    BY <1>3 DEF close_send
  <2>2. QED BY <2>1
<1>4. CASE send_reply(e)
  <2>1. Starting(e, Bare("reply"), "sending") /\ Bare("reply") \in StreamFrames
    BY <1>4 DEF send_reply
  <2>2. QED BY <2>1
<1>5. CASE abort(e)
  <2>1. Starting(e, Bare("error"), "aborting") /\ Bare("error") \in StreamFrames
    BY <1>5 DEF abort
  <2>2. QED BY <2>1
<1>6. QED BY <1>1, <1>2, <1>3, <1>4, <1>5 DEF Start

\* A write that ends leaves the handle held, or drops it.
WriteOver(e) ==
  /\ pc' = [pc EXCEPT ![e] = "idle"]
  /\ handle' \in [Ends -> {"none", "held", "gone"}] /\ fin' \in [Ends -> BOOLEAN]
  /\ handle'[e] \in {"held", "gone"}
  /\ \A d \in Ends : d # e => handle'[d] = handle[d]
  /\ \A d \in Ends : fin'[d] => fin[d] \/ (up /\ d = Peer(e) /\ handle'[e] = "gone")

\* So do all that end (write_all; the error paths of open and abort).
LEMMA EndWriteTells ==
  ASSUME TypeInv, NEW e \in Ends, NEW written \in BOOLEAN, EndWrite(e, written)
  PROVE  WriteOver(e)
<1>1. pc' = [pc EXCEPT ![e] = "idle"]
  BY DEF EndWrite
<1>2. CASE Dropped(e)
  BY <1>1, <1>2, TwoEnds DEF TypeInv, Dropped, WriteOver
<1>3. CASE handle' = [handle EXCEPT ![e] = "held"] /\ UNCHANGED fin
  BY <1>1, <1>3 DEF TypeInv, WriteOver
<1>4. QED BY <1>2, <1>3 DEF EndWrite

\* What a write that fails changes.
LEMMA FailsTells ==
  ASSUME TypeInv, NEW e \in Ends, Fails(e)
  PROVE  /\ pc[e] \in Writing /\ WriteOver(e)
         /\ failed' = [failed EXCEPT ![e] = @ \cup {Len(tried[e])}]
         /\ stopped' \in [Ends -> BOOLEAN]
         /\ UNCHANGED <<chan, begun, up, strays, seqOut, tried, got, told>>
<1>1. CASE WriteFails(e)
  BY <1>1, EndWriteTells DEF WriteFails, TypeInv
<1>2. CASE Unencodable(e)
  BY <1>2, EndWriteTells DEF Unencodable, TypeInv
<1>3. QED BY <1>1, <1>2 DEF Fails

\* What a write that succeeds changes.
LEMMA WrittenTells ==
  ASSUME TypeInv, PlaceInv, NEW e \in Ends, Written(e)
  PROVE  /\ pc[e] \in Writing /\ WriteOver(e) /\ up
         /\ chan' = [chan EXCEPT ![Peer(e)] = Append(@, tried[e][Len(tried[e])])]
         /\ tried[e] \in Seq(StreamFrames) /\ tried[e] # <<>>
         /\ Len(tried[e]) \in DOMAIN tried[e] /\ tried[e][Len(tried[e])] \in StreamFrames
         /\ Len(chan[Peer(e)]) < Window
         /\ begun' = TRUE
         /\ UNCHANGED <<stopped, up, seqOut, tried, failed, got, told>>
<1>1. pc[e] \in Writing /\ tried[e] \in Seq(StreamFrames) /\ tried[e] # <<>>
  BY DEF Written, TypeInv, PlaceInv
<1>2. Len(tried[e]) \in DOMAIN tried[e] /\ tried[e][Len(tried[e])] \in StreamFrames
  BY <1>1, QueueParts
<1>3. QED BY <1>1, <1>2, EndWriteTells DEF Written, Last, history

\* What is read is the first of what is on its way.
LEMMA ReceivedTells ==
  ASSUME TypeInv, PlaceInv, NEW e \in Ends, Received(e)
  PROVE  /\ pc[e] \in Reading /\ handle[e] = "held"
         /\ chan[e] \in Seq(StreamFrames) /\ chan[e] # <<>> /\ Head(chan[e]) \in StreamFrames
         /\ chan' = [chan EXCEPT ![e] = Tail(@)]
         /\ \E r \in [how : Hows, f : StreamFrames] :
              /\ r = [how |-> Outcome(pc[e], Head(chan[e])), f |-> Head(chan[e])]
              /\ r.how = "item" => r.f.type = "data"
              /\ r.f.type = "error" => r.how = "aborted"
              /\ got' = [got EXCEPT ![e] = Append(@, r)]
         /\ pc' = [pc EXCEPT ![e] = "idle"]
         /\ UNCHANGED <<begun, fin, stopped, up, strays, handle, seqOut, tried, failed, told>>
<1>1. pc[e] \in Reading /\ handle[e] = "held" /\ chan[e] \in Seq(StreamFrames) /\ chan[e] # <<>>
  BY DEF Received, PlaceInv, TypeInv
<1>2. Head(chan[e]) \in StreamFrames
  BY <1>1
<1>3. PICK h \in StreamFrames : h = Head(chan[e])
  BY <1>2
<1>4. /\ Outcome(pc[e], h) \in Hows
      /\ Outcome(pc[e], h) = "item" => h.type = "data"
      /\ h.type = "error" => Outcome(pc[e], h) = "aborted"
  BY <1>1, <1>3 DEF Outcome, Hows, StreamFrames, Types, Reading
<1>5. QED BY <1>1, <1>3, <1>4 DEF Received

\* The first frame is taken, and if it is not STREAM_OPEN the handle is gone.
LEMMA FirstTells ==
  ASSUME TypeInv, PlaceInv, FirstFrame
  PROVE  /\ handle["provider"] = "none"
         /\ chan["provider"] \in Seq(StreamFrames) /\ chan["provider"] # <<>>
         /\ chan' = [chan EXCEPT !["provider"] = Tail(@)]
         /\ pc["provider"] = "first" /\ pc' = [pc EXCEPT !["provider"] = "idle"]
         /\ handle'["caller"] = handle["caller"] /\ handle' \in [Ends -> {"none", "held", "gone"}]
         /\ handle'["provider"] = "gone" \/ Head(chan["provider"]).type = "open"
         /\ handle'["provider"] \in {"held", "gone"}
         /\ fin' \in [Ends -> BOOLEAN]
         /\ \A d \in Ends : fin'[d] => fin[d] \/ (up /\ d = "caller" /\ handle'["provider"] = "gone")
         /\ UNCHANGED <<begun, stopped, up, strays, seqOut, history>>
BY TwoEnds DEF FirstFrame, TypeInv, PlaceInv, Dropped, Ends

\* What is on its way is cut when the connection is lost, the end of the stream first.
LEMMA LoseTells ==
  ASSUME TypeInv, Lose
  PROVE  /\ up /\ up' = FALSE
         /\ \E n \in [Ends -> Nat] :
              /\ \A e \in Ends : n[e] <= Len(chan[e]) /\ chan'[e] = SubSeq(chan[e], 1, n[e])
              /\ chan' \in [Ends -> Seq(StreamFrames)]
              /\ fin' \in [Ends -> BOOLEAN]
              /\ \A e \in Ends : fin'[e] => fin[e] /\ n[e] = Len(chan[e])
              /\ \A e \in Ends : Len(chan'[e]) = n[e]
              /\ \A e \in Ends : \A k \in DOMAIN chan'[e] :
                   k \in DOMAIN chan[e] /\ chan'[e][k] = chan[e][k] /\ k <= n[e]
              /\ \A e \in Ends : \A k \in DOMAIN chan[e] : k <= n[e] => k \in DOMAIN chan'[e]
         /\ UNCHANGED <<begun, stopped, strays, endVars, history>>
<1>1. PICK n \in [Ends -> 0..Window] :
        /\ \A e \in Ends : n[e] <= Len(chan[e])
        /\ chan' = [e \in Ends |-> SubSeq(chan[e], 1, n[e])]
        /\ fin' \in {f \in [Ends -> BOOLEAN] :
                      \A e \in Ends : f[e] => fin[e] /\ n[e] = Len(chan[e])}
  BY DEF Lose
<1>2. n \in [Ends -> Nat]
  BY <1>1
<1>3. ASSUME NEW e \in Ends
      PROVE  /\ chan'[e] = SubSeq(chan[e], 1, n[e])
             /\ chan'[e] \in Seq(StreamFrames)
             /\ Len(chan'[e]) = n[e]
             /\ \A k \in DOMAIN chan'[e] :
                  k \in DOMAIN chan[e] /\ chan'[e][k] = chan[e][k] /\ k <= n[e]
             /\ \A k \in DOMAIN chan[e] : k <= n[e] => k \in DOMAIN chan'[e]
  <2>1. chan[e] \in Seq(StreamFrames) /\ n[e] \in Nat /\ n[e] <= Len(chan[e])
        /\ chan'[e] = SubSeq(chan[e], 1, n[e])
    BY <1>1, <1>2 DEF TypeInv
  <2>2. /\ SubSeq(chan[e], 1, n[e]) \in Seq(StreamFrames) /\ Len(SubSeq(chan[e], 1, n[e])) = n[e]
        /\ \A k \in 1..n[e] : SubSeq(chan[e], 1, n[e])[k] = chan[e][k]
    BY <2>1
  <2>3. DOMAIN chan[e] = 1..Len(chan[e]) /\ DOMAIN chan'[e] = 1..n[e]
    BY <2>1, <2>2
  <2>4. QED BY <2>1, <2>2, <2>3
<1>4. chan' \in [Ends -> Seq(StreamFrames)]
  BY <1>1, <1>3
<1>5. QED BY <1>1, <1>2, <1>3, <1>4 DEF Lose

-----------------------------------------------------------------------------
(* Types and places.                                                        *)

\* The first state.
LEMMA InitTypes ==
  ASSUME StreamAssumption, Init
  PROVE  TypeInv /\ PlaceInv
<1>1. <<>> \in Seq(StreamFrames) /\ <<>> \in Seq([how : Hows, f : StreamFrames]) /\ Len(<<>>) = 0
  OBVIOUS
<1>2. TypeInv
  <2>1. /\ handle \in [Ends -> {"none", "held", "gone"}]
        /\ pc \in [Ends -> Writing \cup Reading \cup {"idle", "accepting", "first"}]
        /\ seqOut \in [Ends -> Nat]
        /\ fin \in [Ends -> BOOLEAN] /\ stopped \in [Ends -> BOOLEAN]
        /\ begun \in BOOLEAN /\ up \in BOOLEAN
    BY DEF Init
  <2>2. /\ chan \in [Ends -> Seq(StreamFrames)]
        /\ tried \in [Ends -> Seq(StreamFrames)]
        /\ got \in [Ends -> Seq([how : Hows, f : StreamFrames])]
    BY <1>1 DEF Init
  <2>3. /\ failed \in [Ends -> SUBSET Nat]
        /\ told \in [Ends -> SUBSET {"closed", "lost"}]
    BY DEF Init
  <2>4. \A e \in Ends : Len(chan[e]) <= Window /\ failed[e] \subseteq DOMAIN tried[e]
    BY <1>1 DEF Init, StreamAssumption
  <2>5. QED BY <2>1, <2>2, <2>3, <2>4 DEF TypeInv
<1>3. PlaceInv
  BY TwoEnds DEF Init, PlaceInv, Reading, Writing
<1>4. QED BY <1>2, <1>3

\* Every variable keeps its values, and no direction holds more than its window.
LEMMA TypeStep ==
  ASSUME StreamAssumption, TypeInv, PlaceInv, NumberInv, [Next]_vars
  PROVE  TypeInv'
<1>0. Window \in Nat \ {0}
  BY DEF StreamAssumption
<1>1. CASE Quiet
  <2>1. Quietly
    BY <1>1, QuietTells
  <2>2. QED BY <2>1 DEF Quietly, TypeInv
<1>2. CASE FirstFrame
  <2>1. PICK s : s = chan["provider"]
    OBVIOUS
  <2>2. /\ s \in Seq(StreamFrames) /\ s # <<>> /\ Len(s) <= Window
        /\ chan' = [chan EXCEPT !["provider"] = Tail(s)]
        /\ handle' \in [Ends -> {"none", "held", "gone"}]
        /\ fin' \in [Ends -> BOOLEAN]
        /\ pc' = [pc EXCEPT !["provider"] = "idle"]
        /\ UNCHANGED <<begun, stopped, up, strays, seqOut, history>>
    BY <1>2, <2>1, FirstTells, TwoEnds DEF TypeInv
  <2>3. Tail(s) \in Seq(StreamFrames) /\ Len(Tail(s)) <= Window
    BY <1>0, <2>2
  <2>4. /\ chan' \in [Ends -> Seq(StreamFrames)]
        /\ \A e \in Ends : Len(chan'[e]) <= Window
    BY <2>2, <2>3 DEF TypeInv
  <2>5. pc' \in [Ends -> Writing \cup Reading \cup {"idle", "accepting", "first"}]
    BY <2>2 DEF TypeInv
  <2>6. QED BY <2>2, <2>4, <2>5 DEF history, TypeInv
<1>3. CASE Lose
  <2>1. /\ chan' \in [Ends -> Seq(StreamFrames)] /\ fin' \in [Ends -> BOOLEAN] /\ up' = FALSE
        /\ UNCHANGED <<begun, stopped, strays, endVars, history>>
        /\ \E n \in [Ends -> Nat] : \A e \in Ends : Len(chan'[e]) = n[e] /\ n[e] <= Len(chan[e])
    BY <1>3, LoseTells
  <2>2. \A e \in Ends : Len(chan'[e]) <= Window
    BY <1>0, <2>1 DEF TypeInv
  <2>3. QED BY <2>1, <2>2 DEF endVars, history, TypeInv
<1>4. ASSUME NEW e \in Ends, Start(e)
      PROVE  TypeInv'
  <2>1. PICK f \in StreamFrames, label \in Writing : Starting(e, f, label)
    BY <1>4, StartTells
  <2>2. /\ tried' \in [Ends -> Seq(StreamFrames)]
        /\ \A d \in Ends : DOMAIN tried[d] \subseteq DOMAIN tried'[d]
    <3>1. /\ Append(tried[e], f) \in Seq(StreamFrames)
          /\ DOMAIN tried[e] \subseteq DOMAIN Append(tried[e], f)
      BY QueueParts DEF TypeInv
    <3>2. tried' = [tried EXCEPT ![e] = Append(tried[e], f)]
      BY <2>1 DEF Starting
    <3>3. QED BY <3>1, <3>2 DEF TypeInv
  <2>3. pc' \in [Ends -> Writing \cup Reading \cup {"idle", "accepting", "first"}]
    BY <2>1 DEF Starting, TypeInv
  <2>4. seqOut' \in [Ends -> Nat]
    <3>1. CASE Data(f)
      <4>1. seqOut' = [seqOut EXCEPT ![e] = seqOut[e] + 1]
        BY <2>1, <3>1 DEF Starting
      <4>2. seqOut[e] + 1 \in Nat
        BY DEF TypeInv
      <4>3. QED BY <4>1, <4>2 DEF TypeInv
    <3>2. CASE ~Data(f)
      BY <2>1, <3>2 DEF Starting, TypeInv
    <3>3. QED BY <3>1, <3>2
  <2>5. QED BY <2>1, <2>2, <2>3, <2>4 DEF Starting, wireVars, TypeInv
<1>5. ASSUME NEW e \in Ends, Fails(e)
      PROVE  TypeInv'
  <2>1. /\ pc[e] \in Writing /\ WriteOver(e)
        /\ failed' = [failed EXCEPT ![e] = @ \cup {Len(tried[e])}]
        /\ stopped' \in [Ends -> BOOLEAN]
        /\ UNCHANGED <<chan, begun, up, strays, seqOut, tried, got, told>>
    BY <1>5, FailsTells
  <2>2. tried[e] \in Seq(StreamFrames) /\ tried[e] # <<>>
    BY <2>1 DEF PlaceInv, TypeInv
  <2>3. Len(tried[e]) \in DOMAIN tried[e] /\ Len(tried[e]) \in Nat
    BY <2>2
  <2>4. /\ failed' \in [Ends -> SUBSET Nat]
        /\ \A d \in Ends : failed'[d] \subseteq DOMAIN tried[d]
    BY <2>1, <2>3 DEF TypeInv
  <2>5. pc' \in [Ends -> Writing \cup Reading \cup {"idle", "accepting", "first"}]
    BY <2>1 DEF WriteOver, TypeInv
  <2>6. QED BY <2>1, <2>4, <2>5 DEF WriteOver, TypeInv
<1>6. ASSUME NEW e \in Ends, Written(e)
      PROVE  TypeInv'
  <2>1. PICK d \in Ends, f \in StreamFrames : d = Peer(e) /\ f = tried[e][Len(tried[e])]
    BY <1>6, WrittenTells, TwoEnds
  <2>2. /\ WriteOver(e) /\ Len(chan[d]) < Window /\ begun' = TRUE
        /\ chan' = [chan EXCEPT ![d] = Append(chan[d], f)]
        /\ UNCHANGED <<stopped, up, seqOut, tried, failed, got, told>>
    BY <1>6, <2>1, WrittenTells
  <2>3. Append(chan[d], f) \in Seq(StreamFrames) /\ Len(Append(chan[d], f)) = Len(chan[d]) + 1
        /\ Len(chan[d]) \in Nat
    BY QueueParts DEF TypeInv
  <2>4. Len(Append(chan[d], f)) <= Window
    BY <1>0, <2>2, <2>3
  <2>5. /\ chan' \in [Ends -> Seq(StreamFrames)]
        /\ \A c \in Ends : Len(chan'[c]) <= Window
    BY <2>2, <2>3, <2>4 DEF TypeInv
  <2>6. pc' \in [Ends -> Writing \cup Reading \cup {"idle", "accepting", "first"}]
    BY <2>2 DEF WriteOver, TypeInv
  <2>7. QED BY <2>2, <2>5, <2>6 DEF WriteOver, TypeInv
<1>7. ASSUME NEW e \in Ends, Received(e)
      PROVE  TypeInv'
  <2>1. PICK r \in [how : Hows, f : StreamFrames] : got' = [got EXCEPT ![e] = Append(@, r)]
    BY <1>7, ReceivedTells
  <2>2. /\ chan[e] \in Seq(StreamFrames) /\ chan[e] # <<>>
        /\ chan' = [chan EXCEPT ![e] = Tail(@)]
        /\ pc' = [pc EXCEPT ![e] = "idle"]
        /\ UNCHANGED <<begun, fin, stopped, up, strays, handle, seqOut, tried, failed, told>>
    BY <1>7, ReceivedTells
  <2>3. Tail(chan[e]) \in Seq(StreamFrames) /\ Len(Tail(chan[e])) <= Window
    BY <1>0, <2>2 DEF TypeInv
  <2>4. Append(got[e], r) \in Seq([how : Hows, f : StreamFrames])
    <3>1. got[e] \in Seq([how : Hows, f : StreamFrames])
      BY DEF TypeInv
    <3>2. QED BY <3>1, AppendProperties
  <2>5. /\ chan' \in [Ends -> Seq(StreamFrames)]
        /\ \A c \in Ends : Len(chan'[c]) <= Window
    BY <2>2, <2>3 DEF TypeInv
  <2>6. got' \in [Ends -> Seq([how : Hows, f : StreamFrames])]
    BY <2>1, <2>4 DEF TypeInv
  <2>7. pc' \in [Ends -> Writing \cup Reading \cup {"idle", "accepting", "first"}]
    BY <2>2 DEF TypeInv
  <2>8. QED BY <2>2, <2>5, <2>6, <2>7 DEF TypeInv
<1>8. ASSUME NEW e \in Ends, Stray(e)
      PROVE  TypeInv'
  <2>1. Bare("stray") \in StreamFrames
    BY DEF Bare, Frame, StreamFrames, Types
  <2>2. /\ Append(chan[e], Bare("stray")) \in Seq(StreamFrames)
        /\ Len(Append(chan[e], Bare("stray"))) = Len(chan[e]) + 1
        /\ Len(chan[e]) \in Nat
    BY <2>1, QueueParts DEF TypeInv
  <2>3. /\ chan' \in [Ends -> Seq(StreamFrames)]
        /\ \A c \in Ends : Len(chan'[c]) <= Window
    BY <1>0, <1>8, <2>2 DEF Stray, TypeInv
  <2>4. QED BY <1>8, <2>3 DEF Stray, endVars, history, TypeInv
<1>9. QED
  BY <1>1, <1>2, <1>3, <1>4, <1>5, <1>6, <1>7, <1>8, StepIs

\* What PlaceInv says of one end.
Placed(e) ==
  /\ pc[e] \in Reading \cup {"sending", "aborting"} => handle[e] = "held"
  /\ pc[e] \in {"opening", "accepting", "first"} => handle[e] = "none"
  /\ pc[e] = "opening" => e = "caller"
  /\ pc[e] \in {"accepting", "first"} => e = "provider"
  /\ pc[e] \in Writing => tried[e] # <<>>
  /\ fin[e] => handle[Peer(e)] = "gone"
  /\ "closed" \in told[e] => handle[Peer(e)] = "gone"

\* Every method stands where its handle allows, and a stream that is finished has nobody
\* who writes to it (StreamHandle, whose methods borrow it and whose drop finishes its half).
LEMMA PlaceStep ==
  ASSUME TypeInv, PlaceInv, NumberInv, [Next]_vars
  PROVE  PlaceInv'
<1> SUFFICES ASSUME NEW d \in Ends
             PROVE  Placed(d)'
  BY DEF PlaceInv, Placed
<1>0. /\ Placed(d) /\ Placed(Peer(d)) /\ d \in Ends /\ Peer(d) \in Ends /\ Peer(d) # d
      /\ Peer(Peer(d)) = d
      /\ pc[d] \in Writing \cup Reading \cup {"idle", "accepting", "first"}
      /\ handle[d] \in {"none", "held", "gone"}
  BY TwoEnds DEF PlaceInv, Placed, TypeInv
<1> USE DEF Placed, Reading, Writing
<1>1. CASE Quiet
  <2>1. Quietly
    BY <1>1, QuietTells
  <2>2. /\ pc'[d] = pc[d] \/ pc'[d] \in {"idle", "accepting", "first"} \cup Reading
        /\ pc[d] \in Writing => pc'[d] = pc[d]
        /\ handle'[d] = handle[d] \/ (handle'[d] = "gone" /\ pc'[d] = "idle")
        /\ pc'[d] = pc[d] \/ pc'[d] = "idle"
             \/ (handle[d] = "held" /\ handle'[d] = "held" /\ pc'[d] \in Reading)
             \/ (handle[d] = "none" /\ handle'[d] = "none" /\ d = "provider"
                    /\ pc'[d] \in {"accepting", "first"})
        /\ fin'[d] => fin[d] \/ (up /\ handle'[Peer(d)] = "gone")
        /\ "closed" \in told'[d] =>
             "closed" \in told[d] \/ (fin[d] /\ chan[d] = <<>> /\ handle[d] = "held")
        /\ handle'[Peer(d)] = handle[Peer(d)] \/ handle'[Peer(d)] = "gone"
        /\ tried' = tried
        /\ pc'[d] \in Writing \cup Reading \cup {"idle", "accepting", "first"}
    BY <1>0, <2>1 DEF Quietly
  <2>3. /\ fin'[d] => handle'[Peer(d)] = "gone"
        /\ "closed" \in told'[d] => handle'[Peer(d)] = "gone"
    BY <1>0, <2>2
  <2>4. CASE pc'[d] = pc[d]
    <3>1. handle'[d] = handle[d] \/ pc'[d] = "idle"
      BY <2>2
    <3>2. QED BY <1>0, <2>2, <2>3, <2>4, <3>1
  <2>5. CASE pc'[d] = "idle"
    BY <2>3, <2>5
  <2>6. CASE handle'[d] = "held" /\ pc'[d] \in Reading
    BY <2>3, <2>6
  <2>7. CASE handle[d] = "none" /\ handle'[d] = "none" /\ d = "provider"
             /\ pc'[d] \in {"accepting", "first"}
    BY <2>3, <2>7
  <2>8. QED BY <2>2, <2>4, <2>5, <2>6, <2>7
<1>2. CASE FirstFrame
  <2>1. /\ handle["provider"] = "none" /\ handle'["caller"] = handle["caller"]
        /\ pc' = [pc EXCEPT !["provider"] = "idle"]
        /\ handle'["provider"] \in {"held", "gone"}
        /\ \A e \in Ends : fin'[e] => fin[e] \/ (up /\ e = "caller" /\ handle'["provider"] = "gone")
        /\ UNCHANGED <<tried, told>>
    BY <1>2, FirstTells DEF history
  <2>2. /\ pc'[d] = IF d = "provider" THEN "idle" ELSE pc[d]
    BY <2>1 DEF TypeInv
  <2>3. CASE d = "provider"
    <3>1. Peer(d) = "caller"
      BY <2>3 DEF Peer
    <3>2. QED BY <1>0, <2>1, <2>2, <2>3, <3>1
  <2>4. CASE d = "caller"
    <3>1. Peer(d) = "provider"
      BY <2>4 DEF Peer
    <3>2. ~fin[d] /\ "closed" \notin told[d]
      BY <1>0, <2>1, <3>1
    <3>3. QED BY <1>0, <2>1, <2>2, <2>4, <3>1, <3>2
  <2>5. QED BY <2>3, <2>4 DEF Ends
<1>3. CASE Lose
  <2>1. (fin'[d] => fin[d]) /\ UNCHANGED <<pc, handle, tried, told>>
    BY <1>3, LoseTells DEF endVars, history
  <2>2. QED BY <1>0, <2>1
<1>4. ASSUME NEW e \in Ends, Start(e)
      PROVE  Placed(d)'
  <2>1. PICK f \in StreamFrames, label \in Writing : Starting(e, f, label)
    BY <1>4, StartTells
  <2>2. /\ UNCHANGED <<fin, told, handle>>
        /\ pc' = [pc EXCEPT ![e] = label]
        /\ tried' = [tried EXCEPT ![e] = Append(tried[e], f)]
        /\ IF label = "opening" THEN e = "caller" /\ handle[e] = "none" ELSE handle[e] = "held"
    BY <2>1 DEF Starting, wireVars
  <2>3. Append(tried[e], f) # <<>>
    <3>1. tried[e] \in Seq(StreamFrames)
      BY DEF TypeInv
    <3>2. Len(Append(tried[e], f)) = Len(tried[e]) + 1 /\ Len(tried[e]) \in Nat
      BY <3>1
    <3>3. Len(<<>>) = 0
      OBVIOUS
    <3>4. QED BY <3>2, <3>3
  <2>4. /\ tried'[d] = IF d = e THEN Append(tried[e], f) ELSE tried[d]
        /\ pc'[d] = IF d = e THEN label ELSE pc[d]
    BY <2>2 DEF TypeInv
  <2>5. QED BY <1>0, <2>2, <2>3, <2>4
<1>5. ASSUME NEW e \in Ends, Fails(e) \/ Written(e)
      PROVE  Placed(d)'
  <2>1. pc[e] \in Writing /\ WriteOver(e) /\ UNCHANGED <<tried, told>>
    BY <1>5, FailsTells, WrittenTells
  <2>2. /\ pc'[d] = IF d = e THEN "idle" ELSE pc[d]
        /\ d # e => handle'[d] = handle[d]
        /\ Peer(d) # e => handle'[Peer(d)] = handle[Peer(d)]
        /\ fin'[d] => fin[d] \/ (d = Peer(e) /\ handle'[e] = "gone")
    BY <1>0, <2>1 DEF WriteOver, TypeInv
  <2>3. Placed(e)
    BY DEF PlaceInv, Placed
  <2>4. Peer(d) = e => handle[Peer(d)] # "gone"
    BY <2>1, <2>3
  <2>5. d = Peer(e) => Peer(d) = e
    BY TwoEnds
  <2>6. QED BY <1>0, <2>1, <2>2, <2>4, <2>5
<1>6. ASSUME NEW e \in Ends, Received(e)
      PROVE  Placed(d)'
  <2>1. /\ UNCHANGED <<fin, told, handle, tried>> /\ pc' = [pc EXCEPT ![e] = "idle"]
    BY <1>6, ReceivedTells
  <2>2. pc'[d] = IF d = e THEN "idle" ELSE pc[d]
    BY <2>1 DEF TypeInv
  <2>3. QED BY <1>0, <2>1, <2>2
<1>7. ASSUME NEW e \in Ends, Stray(e)
      PROVE  Placed(d)'
  <2>1. UNCHANGED <<pc, fin, told, handle, tried>>
    BY <1>7 DEF Stray, endVars, history
  <2>2. QED BY <1>0, <2>1
<1>8. QED
  BY <1>1, <1>2, <1>3, <1>4, <1>5, <1>6, <1>7, StepIs
-----------------------------------------------------------------------------
(* The numbers of the chunks.                                               *)

\* The places of the chunks in a sequence of frames.
ChunkPlaces(s) == {p \in DOMAIN s : s[p].type = "data"}

\* A frame that is added counts if it is a chunk.
LEMMA CountGrows ==
  ASSUME NEW s \in Seq(StreamFrames), NEW f \in StreamFrames
  PROVE  /\ Cardinality(ChunkPlaces(s)) \in Nat
         /\ Cardinality(ChunkPlaces(Append(s, f))) =
              IF Data(f) THEN Cardinality(ChunkPlaces(s)) + 1 ELSE Cardinality(ChunkPlaces(s))
<1>1. DOMAIN s = 1..Len(s) /\ Len(s) \in Nat
  OBVIOUS
<1>2. IsFiniteSet(DOMAIN s)
  BY <1>1, FS_Interval
<1>3. IsFiniteSet(ChunkPlaces(s))
  BY <1>2, FS_Subset DEF ChunkPlaces
<1>4. Cardinality(ChunkPlaces(s)) \in Nat
  BY <1>3, FS_CardinalityType
<1>5. CASE Data(f)
  <2>1. ChunkPlaces(Append(s, f)) = ChunkPlaces(s) \cup {Len(s) + 1}
    BY <1>1, <1>5, QueueParts DEF ChunkPlaces, Data
  <2>2. Len(s) + 1 \notin ChunkPlaces(s)
    BY <1>1 DEF ChunkPlaces
  <2>3. Cardinality(ChunkPlaces(s) \cup {Len(s) + 1}) = Cardinality(ChunkPlaces(s)) + 1
    BY <1>3, <2>2, FS_AddElement
  <2>4. QED BY <1>4, <1>5, <2>1, <2>3
<1>6. CASE ~Data(f)
  <2>1. ChunkPlaces(Append(s, f)) = ChunkPlaces(s)
    BY <1>1, <1>6, QueueParts DEF ChunkPlaces, Data
  <2>2. QED BY <1>4, <1>6, <2>1
<1>7. QED BY <1>5, <1>6

\* No chunk has been sent yet.
LEMMA InitNumber == Init => NumberInv
<1> SUFFICES ASSUME Init, NEW e \in Ends
             PROVE  Numbered(e)
  BY DEF NumberInv
<1>1. tried[e] = <<>> /\ seqOut[e] = 0
  BY DEF Init
<1>2. {p \in DOMAIN tried[e] : tried[e][p].type = "data"} = {}
  BY <1>1
<1>3. Chunks(e) = 0
  BY <1>2, FS_EmptySet DEF Chunks
<1>4. QED BY <1>1, <1>3 DEF Numbered

\* Each send_data takes the next number, whatever becomes of its chunk
\* (StreamHandle::send_data).
LEMMA NumberStep ==
  ASSUME TypeInv, PlaceInv, NumberInv, [Next]_vars
  PROVE  NumberInv'
<1>1. ASSUME NEW e \in Ends, Start(e), NEW d \in Ends
      PROVE  Numbered(d)'
  <2>1. PICK f \in StreamFrames, label \in Writing : Starting(e, f, label)
    BY <1>1, StartTells
  <2>2. CASE d # e
    <3>1. tried'[d] = tried[d] /\ seqOut'[d] = seqOut[d]
      BY <2>1, <2>2 DEF Starting, TypeInv
    <3>2. Numbered(d)
      BY DEF NumberInv
    <3>3. QED BY <3>1, <3>2 DEF Numbered, Chunks
  <2>3. CASE d = e
    <3>1. PICK s \in Seq(StreamFrames), n \in Nat : s = tried[e] /\ n = seqOut[e]
      BY DEF TypeInv
    <3>2. tried'[e] = Append(s, f)
      BY <2>1, <3>1 DEF Starting, TypeInv
    <3>3. seqOut'[e] = IF Data(f) THEN n + 1 ELSE n
      <4>1. CASE Data(f)
        <5>1. seqOut' = [seqOut EXCEPT ![e] = seqOut[e] + 1]
          BY <2>1, <4>1 DEF Starting
        <5>2. QED BY <3>1, <4>1, <5>1 DEF TypeInv
      <4>2. CASE ~Data(f)
        BY <2>1, <3>1, <4>2 DEF Starting
      <4>3. QED BY <4>1, <4>2
    <3>4. Data(f) => f.seq = n /\ f.body = n
      BY <2>1, <3>1 DEF Starting
    <3>5. /\ n = Cardinality(ChunkPlaces(s))
          /\ \A p \in DOMAIN s : Data(s[p]) => s[p].body = s[p].seq /\ s[p].seq < n
          /\ \A p, q \in DOMAIN s : p < q /\ Data(s[p]) /\ Data(s[q]) => s[p].seq < s[q].seq
          /\ \A k \in 0..(n - 1) : \E p \in DOMAIN s : Data(s[p]) /\ s[p].seq = k
      BY <3>1 DEF NumberInv, Numbered, Chunks, ChunkPlaces
    <3>6. PICK t \in Seq(StreamFrames) : t = Append(s, f)
      BY QueueParts
    <3>7. /\ DOMAIN s = 1..Len(s) /\ DOMAIN t = 1..(Len(s) + 1) /\ Len(s) \in Nat
          /\ \A p \in DOMAIN s : t[p] = s[p]
          /\ t[Len(s) + 1] = f
      BY <3>6, QueueParts
    <3>8. PICK m \in Nat : m = seqOut'[e]
      BY <3>3
    <3>9. m = Cardinality(ChunkPlaces(t))
      BY <3>3, <3>5, <3>6, <3>8, CountGrows
    <3>10. \A p \in DOMAIN t : Data(t[p]) => t[p].body = t[p].seq /\ t[p].seq < m
      <4> SUFFICES ASSUME NEW p \in DOMAIN t, Data(t[p])
                   PROVE  t[p].body = t[p].seq /\ t[p].seq < m
        OBVIOUS
      <4>1. CASE p = Len(s) + 1
        BY <3>3, <3>4, <3>7, <3>8, <4>1
      <4>2. CASE p \in DOMAIN s
        <5>1. s[p].seq \in Nat
          <6>1. s[p] \in StreamFrames
            BY <4>2
          <6>2. QED BY <6>1 DEF StreamFrames
        <5>2. QED BY <3>3, <3>5, <3>7, <3>8, <4>2, <5>1
      <4>3. QED BY <3>7, <4>1, <4>2
    <3>11. \A p, q \in DOMAIN t : p < q /\ Data(t[p]) /\ Data(t[q]) => t[p].seq < t[q].seq
      <4> SUFFICES ASSUME NEW p \in DOMAIN t, NEW q \in DOMAIN t, p < q, Data(t[p]), Data(t[q])
                   PROVE  t[p].seq < t[q].seq
        OBVIOUS
      <4>1. p \in DOMAIN s
        BY <3>7
      <4>2. CASE q = Len(s) + 1
        BY <3>4, <3>5, <3>7, <4>1, <4>2
      <4>3. CASE q \in DOMAIN s
        BY <3>5, <3>7, <4>1, <4>3
      <4>4. QED BY <3>7, <4>2, <4>3
    <3>12. \A k \in 0..(m - 1) : \E p \in DOMAIN t : Data(t[p]) /\ t[p].seq = k
      <4> SUFFICES ASSUME NEW k \in 0..(m - 1)
                   PROVE  \E p \in DOMAIN t : Data(t[p]) /\ t[p].seq = k
        OBVIOUS
      <4>1. CASE k \in 0..(n - 1)
        <5>1. PICK p \in DOMAIN s : Data(s[p]) /\ s[p].seq = k
          BY <3>5, <4>1
        <5>2. p \in DOMAIN t /\ t[p] = s[p]
          BY <3>7
        <5>3. QED BY <5>1, <5>2
      <4>2. CASE k \notin 0..(n - 1)
        <5>1. Data(f) /\ k = n
          BY <3>3, <3>8, <4>2
        <5>2. QED BY <3>4, <3>7, <5>1
      <4>3. QED BY <4>1, <4>2
    <3>13. tried'[e] = t /\ seqOut'[e] = m
      BY <3>2, <3>6, <3>8
    <3>14. QED
      BY <2>3, <3>9, <3>10, <3>11, <3>12, <3>13 DEF Numbered, Chunks, ChunkPlaces
  <2>4. QED BY <2>2, <2>3
<1>2. ASSUME UNCHANGED <<tried, seqOut>>
      PROVE  NumberInv'
  BY <1>2 DEF NumberInv, Numbered, Chunks
<1>3. CASE Quiet \/ FirstFrame \/ Lose
  <2>1. UNCHANGED <<tried, seqOut>>
    BY <1>3, QuietTells, FirstTells, LoseTells DEF Quietly, endVars, history
  <2>2. QED BY <1>2, <2>1
<1>4. ASSUME NEW e \in Ends, Fails(e) \/ Written(e) \/ Received(e) \/ Stray(e)
      PROVE  NumberInv'
  <2>1. UNCHANGED <<tried, seqOut>>
    BY <1>4, FailsTells, WrittenTells, ReceivedTells DEF Stray, endVars, history
  <2>2. QED BY <1>2, <2>1
<1>5. QED
  BY <1>1, <1>3, <1>4, StepIs DEF NumberInv

-----------------------------------------------------------------------------
(* Where the chunks are.                                                    *)

\* Nothing is on its way yet.
LEMMA InitFlow == Init => FlowInv /\ ChunksAccounted
<1> SUFFICES ASSUME Init
             PROVE  FlowInv /\ ChunksAccounted
  OBVIOUS
<1>1. \A e \in Ends : got[e] = <<>> /\ chan[e] = <<>> /\ tried[e] = <<>>
  BY DEF Init
<1>2. DOMAIN <<>> = {}
  OBVIOUS
<1>3. \A e \in Ends : DOMAIN got[e] = {} /\ DOMAIN chan[e] = {} /\ DOMAIN tried[Peer(e)] = {}
  BY <1>1, <1>2, TwoEnds
<1>4. QED BY <1>3 DEF FlowInv, Flow, Ordered, Gapless, ChunksAccounted

\* The same frames are read and on their way, and no write has ended but one that failed.
LEMMA FlowKept ==
  ASSUME NEW e \in Ends, Flow(e), got'[e] = got[e], chan'[e] = chan[e], up' = up,
         \A p \in DOMAIN tried[Peer(e)] :
           /\ p \in DOMAIN tried'[Peer(e)] /\ tried'[Peer(e)][p] = tried[Peer(e)][p]
           /\ Ended(Peer(e), p) => Ended(Peer(e), p)',
         \A p \in DOMAIN tried'[Peer(e)] :
           Ended(Peer(e), p)' /\ p \notin failed'[Peer(e)] =>
             p \in DOMAIN tried[Peer(e)] /\ Ended(Peer(e), p) /\ p \notin failed[Peer(e)],
         handle'[e] # "gone" => handle[e] # "gone"
  PROVE  Flow(e)'
<1>1. \A f : SentBy(Peer(e), f) => SentBy(Peer(e), f)'
  BY DEF SentBy
<1>2. Ordered(e)'
  <2>1. Ordered(e)
    BY DEF Flow
  <2>2. /\ \A i \in DOMAIN got[e] : Data(got[e][i].f) => SentBy(Peer(e), got[e][i].f)'
        /\ \A j \in DOMAIN chan[e] : Data(chan[e][j]) => SentBy(Peer(e), chan[e][j])'
    BY <1>1, <2>1 DEF Ordered
  <2>3. QED BY <2>1, <2>2 DEF Ordered
<1>3. \A n : (Arrived(e, n) => Arrived(e, n)') /\ (Lost(e, n) => Lost(e, n)')
  BY DEF Arrived, Lost
<1>4. Gapless(e)'
  <2> SUFFICES ASSUME handle'[e] # "gone", NEW p \in DOMAIN tried'[Peer(e)],
                      Data(tried'[Peer(e)][p]), p \notin failed'[Peer(e)], Ended(Peer(e), p)'
               PROVE  \E n : n = tried'[Peer(e)][p].seq /\ (Arrived(e, n)' \/ Lost(e, n)')
    BY DEF Gapless
  <2>1. PICK n : n = tried'[Peer(e)][p].seq
    OBVIOUS
  <2>2. /\ p \in DOMAIN tried[Peer(e)] /\ Ended(Peer(e), p) /\ p \notin failed[Peer(e)]
        /\ tried[Peer(e)][p] = tried'[Peer(e)][p]
    OBVIOUS
  <2>3. Arrived(e, n) \/ Lost(e, n)
    BY <2>1, <2>2 DEF Flow, Gapless
  <2>4. QED BY <1>3, <2>1, <2>3
<1>5. QED BY <1>2, <1>4 DEF Flow

\* A chunk that is written comes after all that has come before.
LEMMA FlowWritten ==
  ASSUME TypeInv, PlaceInv, NumberInv, NEW e \in Ends, Flow(e), Written(Peer(e))
  PROVE  Flow(e)'
<1> DEFINE d == Peer(e)
<1>1. d \in Ends /\ Peer(d) = e /\ d # e
  BY TwoEnds
<1>2. PICK s \in Seq(StreamFrames), C \in Seq(StreamFrames), g \in StreamFrames :
        s = tried[d] /\ C = chan[e] /\ g = s[Len(s)] /\ Len(s) \in DOMAIN s
  BY <1>1, WrittenTells DEF TypeInv
<1>3. PICK G \in Seq([how : Hows, f : StreamFrames]) : G = got[e]
  BY DEF TypeInv
<1>4. /\ pc[d] \in Writing /\ WriteOver(d) /\ up
      /\ chan' = [chan EXCEPT ![e] = Append(C, g)]
      /\ UNCHANGED <<up, tried, failed, got>>
  BY <1>1, <1>2, WrittenTells
<1>5. PICK D \in Seq(StreamFrames) : D = Append(C, g)
  BY QueueParts
<1>6. /\ DOMAIN C = 1..Len(C) /\ DOMAIN D = 1..(Len(C) + 1) /\ Len(C) \in Nat
      /\ \A k \in DOMAIN C : D[k] = C[k]
      /\ D[Len(C) + 1] = g
  BY <1>5, QueueParts
<1>7. /\ got'[e] = G /\ chan'[e] = D /\ tried'[d] = s /\ tried[d] = s /\ chan[e] = C /\ got[e] = G
      /\ handle'[e] = handle[e] /\ up' = up /\ pc'[d] = "idle" /\ failed'[d] = failed[d]
  BY <1>1, <1>2, <1>3, <1>4, <1>5 DEF WriteOver, TypeInv
<1>8. \A p : Ended(d, p)'
  BY <1>7 DEF Ended, Writing
<1>9. \A f : SentBy(d, f) => SentBy(d, f)'
  BY <1>7, <1>8 DEF SentBy
<1>10. SentBy(d, g)'
  BY <1>2, <1>7, <1>8 DEF SentBy
<1>11. /\ \A i \in DOMAIN G : G[i].how = "item" => Data(G[i].f)
       /\ \A i \in DOMAIN G : Data(G[i].f) => SentBy(d, G[i].f)
       /\ \A j \in DOMAIN C : Data(C[j]) => SentBy(d, C[j])
       /\ \A i, j \in DOMAIN G : i < j /\ Data(G[i].f) /\ Data(G[j].f) => G[i].f.seq < G[j].f.seq
       /\ \A i, j \in DOMAIN C : i < j /\ Data(C[i]) /\ Data(C[j]) => C[i].seq < C[j].seq
       /\ \A i \in DOMAIN G, j \in DOMAIN C : Data(G[i].f) /\ Data(C[j]) => G[i].f.seq < C[j].seq
  BY <1>7 DEF Flow, Ordered
<1>12. ASSUME NEW f, SentBy(d, f), Data(f), Data(g)
       PROVE  f.seq < g.seq
  <2>1. PICK p \in DOMAIN s : s[p] = f /\ Ended(d, p)
    BY <1>7, <1>12 DEF SentBy
  <2>2. p # Len(s) /\ p < Len(s)
    BY <1>4, <1>7, <2>1 DEF Ended
  <2>3. QED BY <1>1, <1>2, <1>7, <1>12, <2>1, <2>2 DEF NumberInv, Numbered
<1>13. Ordered(e)'
  <2>1. \A i \in DOMAIN G : Data(G[i].f) => SentBy(d, G[i].f)'
    BY <1>9, <1>11
  <2>2. \A j \in DOMAIN D : Data(D[j]) => SentBy(d, D[j])'
    BY <1>6, <1>9, <1>10, <1>11
  <2>3. \A i, j \in DOMAIN D : i < j /\ Data(D[i]) /\ Data(D[j]) => D[i].seq < D[j].seq
    <3> SUFFICES ASSUME NEW i \in DOMAIN D, NEW j \in DOMAIN D, i < j, Data(D[i]), Data(D[j])
                 PROVE  D[i].seq < D[j].seq
      OBVIOUS
    <3>1. i \in DOMAIN C
      BY <1>6
    <3>2. CASE j = Len(C) + 1
      BY <1>6, <1>11, <1>12, <3>1, <3>2
    <3>3. CASE j \in DOMAIN C
      BY <1>6, <1>11, <3>1, <3>3
    <3>4. QED BY <1>6, <3>2, <3>3
  <2>4. \A i \in DOMAIN G, j \in DOMAIN D : Data(G[i].f) /\ Data(D[j]) => G[i].f.seq < D[j].seq
    BY <1>6, <1>11, <1>12
  <2>5. QED BY <1>7, <1>11, <2>1, <2>2, <2>3, <2>4 DEF Ordered
<1>14. Gapless(e)'
  <2> SUFFICES ASSUME handle'[e] # "gone", NEW p \in DOMAIN s, Data(s[p]), p \notin failed[d]
               PROVE  Arrived(e, s[p].seq)'
    BY <1>7 DEF Gapless
  <2>1. CASE p = Len(s)
    <3>1. Data(D[Len(C) + 1]) /\ D[Len(C) + 1].seq = s[p].seq /\ Len(C) + 1 \in DOMAIN D
      BY <1>2, <1>6, <2>1
    <3>2. QED BY <1>7, <3>1 DEF Arrived
  <2>2. CASE p # Len(s)
    <3>1. Ended(d, p)
      BY <1>7, <2>2 DEF Ended
    <3>2. Arrived(e, s[p].seq)
      BY <1>4, <1>7, <3>1 DEF Flow, Gapless, Lost
    <3>3. QED BY <1>6, <1>7, <3>2 DEF Arrived
  <2>3. QED BY <2>1, <2>2
<1>15. QED BY <1>7, <1>11, <1>13, <1>14 DEF Flow
\* The other end stands where it stood.
LEMMA SenderKept ==
  ASSUME NEW d \in Ends, tried'[d] = tried[d], pc'[d] = pc[d], failed'[d] = failed[d]
  PROVE  /\ \A p : Ended(d, p)' = Ended(d, p)
         /\ \A f : SentBy(d, f)' = SentBy(d, f)
BY DEF Ended, SentBy

\* What is read is what was next, and it joins what has been read.
LEMMA FlowReceived ==
  ASSUME TypeInv, PlaceInv, NEW e \in Ends, Flow(e), Received(e)
  PROVE  Flow(e)'
<1> DEFINE d == Peer(e)
<1>1. d \in Ends /\ d # e
  BY TwoEnds
<1>2. PICK r \in [how : Hows, f : StreamFrames] :
        /\ r.f = Head(chan[e]) /\ (r.how = "item" => r.f.type = "data")
        /\ got' = [got EXCEPT ![e] = Append(@, r)]
  BY ReceivedTells
<1>3. PICK C \in Seq(StreamFrames), G \in Seq([how : Hows, f : StreamFrames]) :
        C = chan[e] /\ G = got[e] /\ C # <<>>
  <2>1. chan[e] \in Seq(StreamFrames) /\ chan[e] # <<>>
    BY ReceivedTells
  <2>2. got[e] \in Seq([how : Hows, f : StreamFrames])
    BY DEF TypeInv
  <2>3. QED BY <2>1, <2>2
<1>4. PICK T \in Seq(StreamFrames), H \in Seq([how : Hows, f : StreamFrames]) :
        T = Tail(C) /\ H = Append(G, r)
  BY <1>3, QueueParts
<1>5. /\ DOMAIN C = 1..Len(C) /\ Len(C) \in Nat /\ Len(C) > 0
      /\ DOMAIN T = 1..(Len(C) - 1)
      /\ \A k \in DOMAIN T : T[k] = C[k + 1] /\ k + 1 \in DOMAIN C
      /\ C[1] = r.f /\ 1 \in DOMAIN C
  BY <1>2, <1>3, <1>4, QueueParts
<1>6. /\ DOMAIN G = 1..Len(G) /\ Len(G) \in Nat /\ DOMAIN H = 1..(Len(G) + 1)
      /\ \A k \in DOMAIN G : H[k] = G[k]
      /\ H[Len(G) + 1] = r
  BY <1>4, QueueParts
<1>7. /\ got'[e] = H /\ chan'[e] = T /\ chan[e] = C /\ got[e] = G
      /\ UNCHANGED <<up, tried, failed, handle>> /\ pc'[d] = pc[d]
  <2>1. /\ got' = [got EXCEPT ![e] = Append(got[e], r)]
        /\ chan' = [chan EXCEPT ![e] = Tail(chan[e])]
        /\ pc' = [pc EXCEPT ![e] = "idle"]
        /\ UNCHANGED <<up, tried, failed, handle>>
    BY <1>2, ReceivedTells
  <2>2. got'[e] = Append(got[e], r) /\ chan'[e] = Tail(chan[e]) /\ pc'[d] = pc[d]
    BY <1>1, <2>1 DEF TypeInv
  <2>3. QED BY <1>3, <1>4, <2>1, <2>2
<1>8. (\A p : Ended(d, p)' = Ended(d, p)) /\ \A f : SentBy(d, f)' = SentBy(d, f)
  BY <1>1, <1>7, SenderKept
<1>9. /\ \A i \in DOMAIN G : G[i].how = "item" => Data(G[i].f)
      /\ \A i \in DOMAIN G : Data(G[i].f) => SentBy(d, G[i].f)
      /\ \A j \in DOMAIN C : Data(C[j]) => SentBy(d, C[j])
      /\ \A i, j \in DOMAIN G : i < j /\ Data(G[i].f) /\ Data(G[j].f) => G[i].f.seq < G[j].f.seq
      /\ \A i, j \in DOMAIN C : i < j /\ Data(C[i]) /\ Data(C[j]) => C[i].seq < C[j].seq
      /\ \A i \in DOMAIN G, j \in DOMAIN C : Data(G[i].f) /\ Data(C[j]) => G[i].f.seq < C[j].seq
  <2> HIDE DEF d
  <2>1. chan[e] = C /\ got[e] = G /\ d = Peer(e)
    BY <1>7 DEF d
  <2>2. Ordered(e) /\ \A i \in DOMAIN got[e] : got[e][i].how = "item" => Data(got[e][i].f)
    BY DEF Flow
  <2>3. QED BY <2>1, <2>2 DEF Ordered
<1>10. \A i \in DOMAIN H : H[i].how = "item" => Data(H[i].f)
  BY <1>2, <1>6, <1>9 DEF Data
<1>11. Ordered(e)'
  <2>1. \A i \in DOMAIN H : Data(H[i].f) => SentBy(d, H[i].f)'
    <3> SUFFICES ASSUME NEW i \in DOMAIN H, Data(H[i].f)
                 PROVE  SentBy(d, H[i].f)
      BY <1>8
    <3>1. CASE i = Len(G) + 1
      <4>1. H[i].f = C[1]
        BY <1>5, <1>6, <3>1
      <4>2. QED BY <1>5, <1>9, <4>1
    <3>2. CASE i \in DOMAIN G
      BY <1>6, <1>9, <3>2
    <3>3. QED BY <1>6, <3>1, <3>2
  <2>2. \A j \in DOMAIN T : Data(T[j]) => SentBy(d, T[j])'
    BY <1>5, <1>8, <1>9
  <2>3. \A i, j \in DOMAIN H : i < j /\ Data(H[i].f) /\ Data(H[j].f) => H[i].f.seq < H[j].f.seq
    <3> SUFFICES ASSUME NEW i \in DOMAIN H, NEW j \in DOMAIN H, i < j, Data(H[i].f), Data(H[j].f)
                 PROVE  H[i].f.seq < H[j].f.seq
      OBVIOUS
    <3>1. i \in DOMAIN G
      BY <1>6
    <3>2. CASE j = Len(G) + 1
      BY <1>5, <1>6, <1>9, <3>1, <3>2
    <3>3. CASE j \in DOMAIN G
      BY <1>6, <1>9, <3>1, <3>3
    <3>4. QED BY <1>6, <3>2, <3>3
  <2>4. \A i, j \in DOMAIN T : i < j /\ Data(T[i]) /\ Data(T[j]) => T[i].seq < T[j].seq
    <3> SUFFICES ASSUME NEW i \in DOMAIN T, NEW j \in DOMAIN T, i < j, Data(T[i]), Data(T[j])
                 PROVE  T[i].seq < T[j].seq
      OBVIOUS
    <3>1. i + 1 < j + 1 /\ T[i] = C[i + 1] /\ T[j] = C[j + 1]
          /\ i + 1 \in DOMAIN C /\ j + 1 \in DOMAIN C
      BY <1>5
    <3>2. QED BY <1>9, <3>1
  <2>5. \A i \in DOMAIN H, j \in DOMAIN T : Data(H[i].f) /\ Data(T[j]) => H[i].f.seq < T[j].seq
    <3> SUFFICES ASSUME NEW i \in DOMAIN H, NEW j \in DOMAIN T, Data(H[i].f), Data(T[j])
                 PROVE  H[i].f.seq < T[j].seq
      OBVIOUS
    <3>1. T[j] = C[j + 1] /\ j + 1 \in DOMAIN C /\ 1 < j + 1
      BY <1>5
    <3>2. CASE i = Len(G) + 1
      BY <1>5, <1>6, <1>9, <3>1, <3>2
    <3>3. CASE i \in DOMAIN G
      BY <1>6, <1>9, <3>1, <3>3
    <3>4. QED BY <1>6, <3>2, <3>3
  <2>6. QED BY <1>7, <2>1, <2>2, <2>3, <2>4, <2>5 DEF Ordered
<1>12. ASSUME NEW n, Arrived(e, n)
       PROVE  Arrived(e, n)'
  <2>1. CASE \E i \in DOMAIN G : Data(G[i].f) /\ G[i].f.seq = n
    BY <1>6, <1>7, <2>1 DEF Arrived
  <2>2. ASSUME NEW j \in DOMAIN C, Data(C[j]), C[j].seq = n
        PROVE  Arrived(e, n)'
    <3>1. CASE j = 1
      BY <1>5, <1>6, <1>7, <2>2, <3>1 DEF Arrived
    <3>2. CASE j # 1
      <4>1. j - 1 \in DOMAIN T /\ T[j - 1] = C[j]
        BY <1>5, <3>2
      <4>2. QED BY <1>7, <2>2, <4>1 DEF Arrived
    <3>3. QED BY <3>1, <3>2
  <2>3. QED BY <1>7, <1>12, <2>1, <2>2 DEF Arrived
<1>13. ASSUME NEW n, Lost(e, n)
       PROVE  Lost(e, n)'
  <2>1. \A i \in DOMAIN H : Data(H[i].f) => H[i].f.seq < n
    BY <1>5, <1>6, <1>7, <1>13 DEF Lost
  <2>2. \A j \in DOMAIN T : Data(T[j]) => T[j].seq < n
    BY <1>5, <1>7, <1>13 DEF Lost
  <2>3. QED BY <1>7, <1>13, <2>1, <2>2 DEF Lost
<1>14. Gapless(e)'
  <2> SUFFICES ASSUME handle[e] # "gone", NEW p \in DOMAIN tried[d], Data(tried[d][p]),
                      p \notin failed[d], Ended(d, p)
               PROVE  \E n : n = tried[d][p].seq /\ (Arrived(e, n)' \/ Lost(e, n)')
    BY <1>7, <1>8 DEF Gapless
  <2>1. PICK n : n = tried[d][p].seq
    OBVIOUS
  <2>2. Arrived(e, n) \/ Lost(e, n)
    BY <2>1 DEF Flow, Gapless
  <2>3. QED BY <1>12, <1>13, <2>1, <2>2
<1>15. QED BY <1>7, <1>10, <1>11, <1>14 DEF Flow

\* The STREAM_OPEN that is taken is no chunk; any other first frame ends the handle.
LEMMA FlowFirst ==
  ASSUME TypeInv, PlaceInv, Flow("provider"), FirstFrame
  PROVE  Flow("provider")'
<1>1. "provider" \in Ends /\ Peer("provider") = "caller" /\ "caller" \in Ends
  BY TwoEnds DEF Peer
<1>2. PICK C \in Seq(StreamFrames) : C = chan["provider"] /\ C # <<>>
  BY FirstTells
<1>3. PICK G \in Seq([how : Hows, f : StreamFrames]) : G = got["provider"]
  BY <1>1 DEF TypeInv
<1>4. PICK T \in Seq(StreamFrames) : T = Tail(C)
  <2>1. Tail(C) \in Seq(StreamFrames)
    BY <1>2, HeadTailProperties
  <2>2. QED BY <2>1
<1>5. /\ DOMAIN C = 1..Len(C) /\ Len(C) \in Nat /\ Len(C) > 0
      /\ DOMAIN T = 1..(Len(C) - 1)
      /\ \A k \in DOMAIN T : T[k] = C[k + 1] /\ k + 1 \in DOMAIN C
      /\ Head(C) = C[1]
  BY <1>2, <1>4, QueueParts
<1>6. /\ chan'["provider"] = T /\ chan["provider"] = C
      /\ got'["provider"] = G /\ got["provider"] = G
      /\ UNCHANGED <<up, tried, failed>> /\ pc'["caller"] = pc["caller"]
      /\ handle'["provider"] # "gone" => C[1].type = "open" /\ handle["provider"] = "none"
  BY <1>1, <1>2, <1>3, <1>4, <1>5, FirstTells DEF TypeInv, history
<1>7. /\ \A p : Ended("caller", p)' = Ended("caller", p)
      /\ \A f : SentBy("caller", f)' = SentBy("caller", f)
  BY <1>1, <1>6, SenderKept
<1>8. /\ \A i \in DOMAIN G : G[i].how = "item" => Data(G[i].f)
      /\ \A i \in DOMAIN G : Data(G[i].f) => SentBy("caller", G[i].f)
      /\ \A j \in DOMAIN C : Data(C[j]) => SentBy("caller", C[j])
      /\ \A i, j \in DOMAIN G : i < j /\ Data(G[i].f) /\ Data(G[j].f) => G[i].f.seq < G[j].f.seq
      /\ \A i, j \in DOMAIN C : i < j /\ Data(C[i]) /\ Data(C[j]) => C[i].seq < C[j].seq
      /\ \A i \in DOMAIN G, j \in DOMAIN C : Data(G[i].f) /\ Data(C[j]) => G[i].f.seq < C[j].seq
  BY <1>1, <1>6 DEF Flow, Ordered
<1>9. Ordered("provider")'
  <2>1. \A j \in DOMAIN T : Data(T[j]) => SentBy("caller", T[j])'
    BY <1>5, <1>7, <1>8
  <2>2. \A i, j \in DOMAIN T : i < j /\ Data(T[i]) /\ Data(T[j]) => T[i].seq < T[j].seq
    <3> SUFFICES ASSUME NEW i \in DOMAIN T, NEW j \in DOMAIN T, i < j, Data(T[i]), Data(T[j])
                 PROVE  T[i].seq < T[j].seq
      OBVIOUS
    <3>1. i + 1 < j + 1 /\ T[i] = C[i + 1] /\ T[j] = C[j + 1]
          /\ i + 1 \in DOMAIN C /\ j + 1 \in DOMAIN C
      BY <1>5
    <3>2. QED BY <1>8, <3>1
  <2>3. \A i \in DOMAIN G, j \in DOMAIN T : Data(G[i].f) /\ Data(T[j]) => G[i].f.seq < T[j].seq
    BY <1>5, <1>8
  <2>4. QED BY <1>1, <1>6, <1>7, <1>8, <2>1, <2>2, <2>3 DEF Ordered
<1>10. ASSUME NEW n, Arrived("provider", n), ~Data(C[1])
       PROVE  Arrived("provider", n)'
  <2>1. CASE \E i \in DOMAIN G : Data(G[i].f) /\ G[i].f.seq = n
    BY <1>6, <2>1 DEF Arrived
  <2>2. ASSUME NEW j \in DOMAIN C, Data(C[j]), C[j].seq = n
        PROVE  Arrived("provider", n)'
    <3>1. j - 1 \in DOMAIN T /\ T[j - 1] = C[j]
      BY <1>5, <1>10, <2>2
    <3>2. QED BY <1>6, <2>2, <3>1 DEF Arrived
  <2>3. QED BY <1>6, <1>10, <2>1, <2>2 DEF Arrived
<1>11. ASSUME NEW n, Lost("provider", n)
       PROVE  Lost("provider", n)'
  BY <1>5, <1>6, <1>11 DEF Lost
<1>12. Gapless("provider")'
  <2> SUFFICES ASSUME handle'["provider"] # "gone", NEW p \in DOMAIN tried["caller"],
                      Data(tried["caller"][p]), p \notin failed["caller"], Ended("caller", p)
               PROVE  \E n : n = tried["caller"][p].seq
                             /\ (Arrived("provider", n)' \/ Lost("provider", n)')
    BY <1>1, <1>6, <1>7 DEF Gapless
  <2>1. PICK n : n = tried["caller"][p].seq
    OBVIOUS
  <2>2. handle["provider"] = "none" /\ ~Data(C[1])
    BY <1>6 DEF Data
  <2>3. Arrived("provider", n) \/ Lost("provider", n)
    BY <1>1, <2>1, <2>2 DEF Flow, Gapless
  <2>4. QED BY <1>10, <1>11, <2>1, <2>2, <2>3
<1>13. QED BY <1>1, <1>6, <1>8, <1>9, <1>12 DEF Flow

\* A frame of another stream is no chunk of this one.
LEMMA FlowStray ==
  ASSUME TypeInv, NEW e \in Ends, Flow(e), Stray(e)
  PROVE  Flow(e)'
<1> DEFINE d == Peer(e)
<1>1. d \in Ends
  BY TwoEnds
<1>2. PICK C \in Seq(StreamFrames), g \in StreamFrames : C = chan[e] /\ g = Bare("stray")
  BY DEF TypeInv, Bare, Frame, StreamFrames, Types
<1>3. PICK D \in Seq(StreamFrames) : D = Append(C, g)
  BY QueueParts
<1>4. /\ DOMAIN C = 1..Len(C) /\ DOMAIN D = 1..(Len(C) + 1) /\ Len(C) \in Nat
      /\ \A k \in DOMAIN C : D[k] = C[k]
      /\ D[Len(C) + 1] = g /\ ~Data(g)
  BY <1>2, <1>3, QueueParts DEF Bare, Frame, Data
<1>5. /\ chan'[e] = D /\ chan[e] = C /\ up
      /\ UNCHANGED <<up, tried, failed, got, pc, handle>>
  BY <1>2, <1>3 DEF Stray, endVars, history, TypeInv
<1>6. (\A p : Ended(d, p)' = Ended(d, p)) /\ \A f : SentBy(d, f)' = SentBy(d, f)
  BY <1>1, <1>5, SenderKept
<1>7. \A k \in DOMAIN D : Data(D[k]) => k \in DOMAIN C /\ D[k] = C[k]
  BY <1>4
<1>8. Ordered(e)'
  BY <1>5, <1>6, <1>7 DEF Flow, Ordered
<1>9. \A n : Arrived(e, n) => Arrived(e, n)'
  BY <1>4, <1>5 DEF Arrived
<1>10. Gapless(e)'
  <2> SUFFICES ASSUME handle[e] # "gone", NEW p \in DOMAIN tried[d], Data(tried[d][p]),
                      p \notin failed[d], Ended(d, p)
               PROVE  \E n : n = tried[d][p].seq /\ (Arrived(e, n)' \/ Lost(e, n)')
    BY <1>5, <1>6 DEF Gapless
  <2>1. PICK n : n = tried[d][p].seq
    OBVIOUS
  <2>2. Arrived(e, n)
    BY <1>5, <2>1 DEF Flow, Gapless, Lost
  <2>3. QED BY <1>9, <2>1, <2>2
<1>11. QED BY <1>5, <1>8, <1>10 DEF Flow

\* What the connection takes with it comes after all that can still be read.
LEMMA FlowLose ==
  ASSUME TypeInv, NEW e \in Ends, Flow(e), Lose
  PROVE  Flow(e)'
<1> DEFINE d == Peer(e)
<1>1. d \in Ends
  BY TwoEnds
<1>2. PICK n \in Nat :
        /\ \A k \in DOMAIN chan'[e] : k \in DOMAIN chan[e] /\ chan'[e][k] = chan[e][k] /\ k <= n
        /\ \A k \in DOMAIN chan[e] : k <= n => k \in DOMAIN chan'[e]
  BY LoseTells
<1>3. /\ up /\ ~up' /\ UNCHANGED <<tried, failed, got, pc, handle>>
  BY LoseTells DEF endVars, history
<1>4. (\A p : Ended(d, p)' = Ended(d, p)) /\ \A f : SentBy(d, f)' = SentBy(d, f)
  BY <1>1, <1>3, SenderKept
<1>5. Ordered(e)'
  BY <1>2, <1>3, <1>4 DEF Flow, Ordered
<1>6. chan[e] \in Seq(StreamFrames) /\ DOMAIN chan[e] = 1..Len(chan[e]) /\ Len(chan[e]) \in Nat
  BY DEF TypeInv
<1>7. ASSUME NEW m, Arrived(e, m)
      PROVE  Arrived(e, m)' \/ Lost(e, m)'
  <2>1. CASE \E i \in DOMAIN got[e] : Data(got[e][i].f) /\ got[e][i].f.seq = m
    BY <1>3, <2>1 DEF Arrived
  <2>2. ASSUME NEW j \in DOMAIN chan[e], Data(chan[e][j]), chan[e][j].seq = m
        PROVE  Arrived(e, m)' \/ Lost(e, m)'
    <3>1. CASE j <= n
      BY <1>2, <2>2, <3>1 DEF Arrived
    <3>2. CASE ~(j <= n)
      <4>1. \A i \in DOMAIN got[e] : Data(got[e][i].f) => got[e][i].f.seq < m
        BY <2>2 DEF Flow, Ordered
      <4>2. \A k \in DOMAIN chan'[e] : Data(chan'[e][k]) => chan'[e][k].seq < m
        <5> SUFFICES ASSUME NEW k \in DOMAIN chan'[e], Data(chan'[e][k])
                     PROVE  chan'[e][k].seq < m
          OBVIOUS
        <5>1. k \in DOMAIN chan[e] /\ chan'[e][k] = chan[e][k] /\ k < j
          BY <1>2, <1>6, <3>2
        <5>2. QED BY <2>2, <5>1 DEF Flow, Ordered
      <4>3. QED BY <1>3, <4>1, <4>2 DEF Lost
    <3>3. QED BY <3>1, <3>2
  <2>3. QED BY <1>7, <2>1, <2>2 DEF Arrived
<1>8. Gapless(e)'
  <2> SUFFICES ASSUME handle[e] # "gone", NEW p \in DOMAIN tried[d], Data(tried[d][p]),
                      p \notin failed[d], Ended(d, p)
               PROVE  \E m : m = tried[d][p].seq /\ (Arrived(e, m)' \/ Lost(e, m)')
    BY <1>3, <1>4 DEF Gapless
  <2>1. PICK m : m = tried[d][p].seq
    OBVIOUS
  <2>2. Arrived(e, m)
    BY <1>3, <2>1 DEF Flow, Gapless, Lost
  <2>3. QED BY <1>7, <2>1, <2>2
<1>9. QED BY <1>3, <1>5, <1>8 DEF Flow

\* Each end's chunks go on as above, whichever end moves.
LEMMA FlowStep ==
  ASSUME TypeInv, PlaceInv, NumberInv, FlowInv, [Next]_vars
  PROVE  FlowInv'
<1> SUFFICES ASSUME NEW e \in Ends
             PROVE  Flow(e)'
  BY DEF FlowInv
<1> DEFINE d == Peer(e)
<1>0. d \in Ends /\ d # e /\ Peer(d) = e /\ (\A c \in Ends : c = e \/ c = d) /\ Flow(e)
  BY TwoEnds DEF FlowInv
<1>1. ASSUME got'[e] = got[e], chan'[e] = chan[e], up' = up, UNCHANGED <<tried, failed>>,
             pc'[d] \in Writing <=> pc[d] \in Writing, handle'[e] # "gone" => handle[e] # "gone"
      PROVE  Flow(e)'
  <2>1. \A p : Ended(d, p)' <=> Ended(d, p)
    BY <1>1 DEF Ended
  <2>2. QED BY <1>0, <1>1, <2>1, FlowKept
<1>2. CASE Quiet
  <2>1. Quietly
    BY <1>2, QuietTells
  <2>2. /\ UNCHANGED <<chan, up, tried, failed, got>>
        /\ handle'[e] = handle[e] \/ handle'[e] = "gone"
        /\ pc'[d] = pc[d] \/ pc'[d] \in {"idle", "accepting", "first"} \cup Reading
        /\ pc[d] \in Writing => pc'[d] = pc[d]
    BY <1>0, <2>1 DEF Quietly
  <2>3. pc'[d] \in Writing <=> pc[d] \in Writing
    BY <2>2 DEF Writing, Reading
  <2>4. QED BY <1>1, <2>2, <2>3
<1>3. CASE FirstFrame
  <2>1. CASE e = "provider"
    BY <1>0, <1>3, <2>1, FlowFirst
  <2>2. CASE e = "caller"
    <3>1. d = "provider"
      BY <2>2 DEF Peer
    <3>2. /\ chan' = [chan EXCEPT !["provider"] = Tail(@)]
          /\ pc["provider"] = "first" /\ pc' = [pc EXCEPT !["provider"] = "idle"]
          /\ handle'["caller"] = handle["caller"]
          /\ UNCHANGED <<up, tried, failed, got>>
      BY <1>3, FirstTells DEF history
    <3>3. chan'["caller"] = chan["caller"] /\ pc'["provider"] = "idle"
      BY <3>2, TwoEnds DEF TypeInv
    <3>4. QED BY <1>1, <2>2, <3>1, <3>2, <3>3 DEF Writing
  <2>3. QED BY <2>1, <2>2 DEF Ends
<1>4. CASE Lose
  BY <1>0, <1>4, FlowLose
<1>5. ASSUME NEW c \in Ends, Start(c)
      PROVE  Flow(e)'
  <2>1. PICK f \in StreamFrames, label \in Writing : Starting(c, f, label)
    BY <1>5, StartTells
  <2>2. /\ UNCHANGED <<chan, up, failed, got, handle>>
        /\ pc' = [pc EXCEPT ![c] = label] /\ pc[c] = "idle"
        /\ tried' = [tried EXCEPT ![c] = Append(tried[c], f)]
    BY <2>1 DEF Starting, wireVars
  <2>3. PICK s \in Seq(StreamFrames), t \in Seq(StreamFrames) : s = tried[d] /\ t = tried'[d]
    <3>1. tried[d] \in Seq(StreamFrames)
      BY <1>0 DEF TypeInv
    <3>2. tried'[d] = tried[d] \/ tried'[d] = Append(tried[d], f)
      BY <1>0, <2>2 DEF TypeInv
    <3>3. tried'[d] \in Seq(StreamFrames)
      BY <3>1, <3>2, QueueParts
    <3>4. QED BY <3>1, <3>3
  <2>4. CASE c = e
    <3>1. tried'[d] = tried[d] /\ pc'[d] = pc[d]
      BY <1>0, <2>2, <2>4 DEF TypeInv
    <3>2. \A p : Ended(d, p)' <=> Ended(d, p)
      BY <3>1 DEF Ended
    <3>3. QED BY <1>0, <2>2, <3>1, <3>2, FlowKept
  <2>5. CASE c = d
    <3>1. t = Append(s, f) /\ pc'[d] = label /\ pc[d] = "idle"
      BY <1>0, <2>2, <2>3, <2>5 DEF TypeInv
    <3>2. /\ DOMAIN s = 1..Len(s) /\ DOMAIN t = 1..(Len(s) + 1) /\ Len(s) \in Nat
          /\ Len(t) = Len(s) + 1
          /\ \A p \in DOMAIN s : t[p] = s[p]
      BY <3>1, QueueParts
    <3>3. \A p \in DOMAIN s : p \in DOMAIN t /\ t[p] = s[p] /\ Ended(d, p)'
      BY <2>3, <3>2 DEF Ended
    <3>4. \A p \in DOMAIN t : Ended(d, p)' => p \in DOMAIN s
      BY <2>3, <3>1, <3>2 DEF Ended
    <3>5. \A p : Ended(d, p)
      BY <3>1 DEF Ended, Writing
    <3>6. QED BY <1>0, <2>2, <2>3, <3>3, <3>4, <3>5, FlowKept
  <2>6. QED BY <1>0, <2>4, <2>5
<1>6. ASSUME NEW c \in Ends, Fails(c)
      PROVE  Flow(e)'
  <2>1. /\ pc[c] \in Writing /\ WriteOver(c)
        /\ failed' = [failed EXCEPT ![c] = @ \cup {Len(tried[c])}]
        /\ UNCHANGED <<chan, up, tried, got>>
    BY <1>6, FailsTells
  <2>2. handle[c] # "gone"
    BY <2>1 DEF PlaceInv, Writing
  <2>3. handle'[e] # "gone" => handle[e] # "gone"
    BY <1>0, <2>1, <2>2 DEF WriteOver
  <2>4. CASE c = e
    <3>1. failed'[d] = failed[d] /\ pc'[d] = pc[d]
      BY <1>0, <2>1, <2>4 DEF TypeInv, WriteOver
    <3>2. \A p : Ended(d, p)' <=> Ended(d, p)
      BY <2>1, <3>1 DEF Ended
    <3>3. QED BY <1>0, <2>1, <2>3, <3>1, <3>2, FlowKept
  <2>5. CASE c = d
    <3>1. failed'[d] = failed[d] \cup {Len(tried[d])} /\ pc'[d] = "idle"
      BY <1>0, <2>1, <2>5 DEF TypeInv, WriteOver
    <3>2. \A p : Ended(d, p)'
      BY <3>1 DEF Ended, Writing
    <3>3. \A p : p \notin failed'[d] => Ended(d, p) /\ p \notin failed[d]
      BY <3>1 DEF Ended
    <3>4. QED BY <1>0, <2>1, <2>3, <3>2, <3>3, FlowKept
  <2>6. QED BY <1>0, <2>4, <2>5
<1>7. ASSUME NEW c \in Ends, Written(c)
      PROVE  Flow(e)'
  <2>1. CASE c = d
    BY <1>0, <1>7, <2>1, FlowWritten
  <2>2. CASE c = e
    <3>1. /\ pc[e] \in Writing /\ WriteOver(e)
          /\ chan' = [chan EXCEPT ![d] = Append(@, tried[e][Len(tried[e])])]
          /\ UNCHANGED <<up, tried, failed, got>>
      BY <1>7, <2>2, WrittenTells
    <3>2. chan'[e] = chan[e] /\ pc'[d] = pc[d]
      BY <1>0, <3>1 DEF TypeInv, WriteOver
    <3>3. handle[e] # "gone"
      BY <3>1 DEF PlaceInv, Writing
    <3>4. QED BY <1>1, <3>1, <3>2, <3>3
  <2>3. QED BY <1>0, <2>1, <2>2
<1>8. ASSUME NEW c \in Ends, Received(c)
      PROVE  Flow(e)'
  <2>1. CASE c = e
    BY <1>0, <1>8, <2>1, FlowReceived
  <2>2. CASE c = d
    <3>1. PICK r : got' = [got EXCEPT ![d] = Append(@, r)]
      BY <1>8, <2>2, ReceivedTells
    <3>2. /\ chan' = [chan EXCEPT ![d] = Tail(@)]
          /\ pc[d] \in Reading /\ pc' = [pc EXCEPT ![d] = "idle"]
          /\ UNCHANGED <<up, tried, failed, handle>>
      BY <1>8, <2>2, ReceivedTells
    <3>3. chan'[e] = chan[e] /\ got'[e] = got[e] /\ pc'[d] = "idle"
      BY <1>0, <3>1, <3>2 DEF TypeInv
    <3>4. pc'[d] \notin Writing /\ pc[d] \notin Writing
      BY <3>2, <3>3 DEF Reading, Writing
    <3>5. QED BY <1>1, <3>2, <3>3, <3>4
  <2>3. QED BY <1>0, <2>1, <2>2
<1>9. ASSUME NEW c \in Ends, Stray(c)
      PROVE  Flow(e)'
  <2>1. CASE c = e
    BY <1>0, <1>9, <2>1, FlowStray
  <2>2. CASE c = d
    <3>1. UNCHANGED <<up, tried, failed, got, pc, handle>> /\ chan'[e] = chan[e]
      BY <1>0, <1>9, <2>2 DEF Stray, endVars, history, TypeInv
    <3>2. QED BY <1>1, <3>1
  <2>3. QED BY <1>0, <2>1, <2>2
<1>10. QED
  BY <1>2, <1>3, <1>4, <1>5, <1>6, <1>7, <1>8, <1>9, StepIs

-----------------------------------------------------------------------------
(* Which chunks a reader lacks.                                             *)

\* What ChunksAccounted says of one thing that was read, chunk by chunk.
Accounted(e, i) ==
  got[e][i].how = "item" =>
    /\ got[e][i].f.body = got[e][i].f.seq
    /\ \A j \in 1..(i - 1) : IsChunk(got[e][j]) => got[e][j].f.seq < got[e][i].f.seq
    /\ \A k \in 0..(got[e][i].f.seq - 1) :
         k \in FailedChunks(Peer(e)) \/ \E j \in 1..(i - 1) : IsChunk(got[e][j]) /\ got[e][j].f.seq = k

\* The two say the same.
LEMMA AccountedAll == ChunksAccounted <=> \A e \in Ends : \A i \in DOMAIN got[e] : Accounted(e, i)
<1>1. ASSUME NEW e \in Ends, NEW i \in DOMAIN got[e]
      PROVE  Accounted(e, i) <=>
               LET before == {j \in 1..(i - 1) : IsChunk(got[e][j])}
                   seen == {got[e][j].f.seq : j \in before}
                   n == got[e][i].f.seq
               IN got[e][i].how = "item" =>
                    /\ got[e][i].f.body = n
                    /\ \A k \in seen : k < n
                    /\ (0..(n - 1)) \ seen \subseteq FailedChunks(Peer(e))
  BY DEF Accounted
<1>2. QED BY <1>1 DEF ChunksAccounted

\* A send_data that has failed stays failed.
LEMMA FailedStay ==
  ASSUME TypeInv, PlaceInv, NumberInv, [Next]_vars, NEW d \in Ends
  PROVE  FailedChunks(d) \subseteq FailedChunks(d)'
<1>1. ASSUME failed[d] \subseteq failed'[d],
             \A p \in failed[d] : tried'[d][p] = tried[d][p]
      PROVE  FailedChunks(d) \subseteq FailedChunks(d)'
  BY <1>1 DEF FailedChunks
<1>2. failed[d] \subseteq DOMAIN tried[d]
  BY DEF TypeInv
<1>3. CASE UNCHANGED <<tried, failed>>
  BY <1>1, <1>3
<1>4. CASE Quiet \/ FirstFrame \/ Lose
  <2>1. UNCHANGED <<tried, failed>>
    BY <1>4, QuietTells, FirstTells, LoseTells DEF Quietly, endVars, history
  <2>2. QED BY <1>3, <2>1
<1>5. ASSUME NEW e \in Ends, Written(e) \/ Received(e) \/ Stray(e)
      PROVE  UNCHANGED <<tried, failed>>
  BY <1>5, WrittenTells, ReceivedTells DEF Stray, endVars, history
<1>6. ASSUME NEW e \in Ends, Start(e)
      PROVE  FailedChunks(d) \subseteq FailedChunks(d)'
  <2>1. PICK f \in StreamFrames, label \in Writing : Starting(e, f, label)
    BY <1>6, StartTells
  <2>2. failed' = failed /\ tried' = [tried EXCEPT ![e] = Append(tried[e], f)]
    BY <2>1 DEF Starting
  <2>3. \A p \in DOMAIN tried[e] : Append(tried[e], f)[p] = tried[e][p]
    BY QueueParts DEF TypeInv
  <2>4. \A p \in DOMAIN tried[d] : tried'[d][p] = tried[d][p]
    BY <2>2, <2>3 DEF TypeInv
  <2>5. QED BY <1>1, <1>2, <2>2, <2>4
<1>7. ASSUME NEW e \in Ends, Fails(e)
      PROVE  FailedChunks(d) \subseteq FailedChunks(d)'
  <2>1. tried' = tried /\ failed' = [failed EXCEPT ![e] = @ \cup {Len(tried[e])}]
    BY <1>7, FailsTells
  <2>2. failed[d] \subseteq failed'[d]
    BY <2>1 DEF TypeInv
  <2>3. QED BY <1>1, <2>1, <2>2
<1>8. QED BY <1>3, <1>4, <1>5, <1>6, <1>7, StepIs

\* What was read before a step is accounted for after it.
LEMMA AccountedStays ==
  ASSUME NEW e \in Ends, NEW i, Accounted(e, i), got'[e][i] = got[e][i],
         \A j \in 1..(i - 1) : got'[e][j] = got[e][j],
         FailedChunks(Peer(e)) \subseteq FailedChunks(Peer(e))'
  PROVE  Accounted(e, i)'
<1>1. CASE got[e][i].how = "item"
  <2>1. /\ got'[e][i].f.body = got'[e][i].f.seq
        /\ \A j \in 1..(i - 1) : IsChunk(got'[e][j]) => got'[e][j].f.seq < got'[e][i].f.seq
    BY <1>1 DEF Accounted
  <2>2. \A k \in 0..(got'[e][i].f.seq - 1) :
           k \in FailedChunks(Peer(e))'
             \/ \E j \in 1..(i - 1) : IsChunk(got'[e][j]) /\ got'[e][j].f.seq = k
    BY <1>1 DEF Accounted
  <2>3. QED BY <2>1, <2>2 DEF Accounted, IsChunk
<1>2. CASE got[e][i].how # "item"
  BY <1>2 DEF Accounted
<1>3. QED BY <1>1, <1>2

\* A chunk that is read: all before it were read, or have failed.
LEMMA NextAccounted ==
  ASSUME TypeInv, PlaceInv, NumberInv, FlowInv, NEW e \in Ends, Received(e),
         FailedChunks(Peer(e)) \subseteq FailedChunks(Peer(e))',
         NEW m, m = Len(got[e]) + 1
  PROVE  Accounted(e, m)'
<1> DEFINE d == Peer(e)
<1>1. d \in Ends /\ d # e /\ Flow(e) /\ Numbered(d) /\ handle[e] = "held"
  BY TwoEnds, ReceivedTells DEF FlowInv, NumberInv
<1>2. PICK r \in [how : Hows, f : StreamFrames] :
        /\ r.f = Head(chan[e]) /\ (r.how = "item" => r.f.type = "data")
        /\ got' = [got EXCEPT ![e] = Append(got[e], r)]
  BY ReceivedTells
<1>3. chan[e] \in Seq(StreamFrames) /\ chan[e] # <<>>
  BY ReceivedTells
<1>4. PICK G \in Seq([how : Hows, f : StreamFrames]), C \in Seq(StreamFrames) :
        G = got[e] /\ C = chan[e] /\ C # <<>>
  BY <1>3 DEF TypeInv
<1>5. PICK s \in Seq(StreamFrames) : s = tried[d]
  BY <1>1 DEF TypeInv
<1>6. PICK H \in Seq([how : Hows, f : StreamFrames]) : H = Append(G, r) /\ got'[e] = H
  BY <1>2, <1>4, QueueParts DEF TypeInv
<1>7. /\ Len(G) \in Nat /\ DOMAIN G = 1..Len(G)
      /\ \A j \in DOMAIN G : H[j] = G[j]
      /\ H[Len(G) + 1] = r
  BY <1>6, QueueParts
<1>8. 1 \in DOMAIN C /\ C[1] = r.f /\ DOMAIN C = 1..Len(C) /\ Len(C) \in Nat
  BY <1>2, <1>4, QueueParts
<1>9. ASSUME r.how = "item"
      PROVE  /\ r.f.body = r.f.seq
             /\ \A j \in 1..Len(G) : IsChunk(G[j]) => G[j].f.seq < r.f.seq
             /\ \A k \in 0..(r.f.seq - 1) :
                  k \in FailedChunks(d) \/ \E j \in 1..Len(G) : IsChunk(G[j]) /\ G[j].f.seq = k
  <2>1. Data(C[1]) /\ Data(r.f) /\ r.f.seq \in Nat
    BY <1>2, <1>8, <1>9 DEF Data, StreamFrames
  <2>2. PICK p \in DOMAIN s : s[p] = r.f
    BY <1>4, <1>5, <1>8, <2>1, <1>1 DEF Flow, Ordered, SentBy
  <2>3. r.f.body = r.f.seq /\ r.f.seq < seqOut[d] /\ seqOut[d] \in Nat
    BY <1>1, <1>5, <2>1, <2>2 DEF Numbered, TypeInv
  <2>4. \A j \in 1..Len(G) : IsChunk(G[j]) => G[j].f.seq < r.f.seq
    BY <1>1, <1>4, <1>7, <1>8, <2>1 DEF Flow, Ordered, IsChunk, Data
  <2>5. ASSUME NEW k \in 0..(r.f.seq - 1)
        PROVE  k \in FailedChunks(d) \/ \E j \in 1..Len(G) : IsChunk(G[j]) /\ G[j].f.seq = k
    <3>1. k \in 0..(seqOut[d] - 1) /\ k < r.f.seq /\ k \in Nat
      BY <2>1, <2>3
    <3>2. PICK q \in DOMAIN s : Data(s[q]) /\ s[q].seq = k
      BY <1>1, <1>5, <3>1 DEF Numbered
    <3>3. DOMAIN s = 1..Len(s) /\ Len(s) \in Nat
      OBVIOUS
    <3>4. q < p
      <4>1. CASE p < q
        <5>1. r.f.seq < k
          BY <1>1, <1>5, <2>1, <2>2, <3>2, <4>1 DEF Numbered
        <5>2. QED BY <2>1, <3>1, <5>1
      <4>2. CASE p = q
        BY <2>1, <2>2, <3>1, <3>2, <4>2
      <4>3. QED BY <3>3, <4>1, <4>2
    <3>5. Ended(d, q)
      BY <1>5, <3>3, <3>4 DEF Ended
    <3>6. CASE q \in failed[d]
      <4>1. s[q].body = k
        BY <1>1, <1>5, <3>2 DEF Numbered
      <4>2. QED BY <1>5, <3>2, <3>6, <4>1 DEF FailedChunks, Data
    <3>7. CASE q \notin failed[d]
      <4>1. Arrived(e, k) \/ Lost(e, k)
        BY <1>1, <1>5, <3>2, <3>5, <3>7 DEF Flow, Gapless
      <4>2. ~Lost(e, k)
        <5> SUFFICES ASSUME Lost(e, k)
                     PROVE  FALSE
          OBVIOUS
        <5>1. r.f.seq < k
          BY <1>4, <1>8, <2>1 DEF Lost
        <5>2. QED BY <2>1, <3>1, <5>1
      <4>3. ASSUME NEW j \in DOMAIN C, Data(C[j]), C[j].seq = k
            PROVE  FALSE
        <5>1. CASE j = 1
          BY <1>8, <2>1, <3>1, <4>3, <5>1
        <5>2. CASE j # 1
          <6>1. 1 < j
            BY <1>8, <5>2
          <6>2. r.f.seq < k
            BY <1>1, <1>4, <1>8, <2>1, <4>3, <6>1 DEF Flow, Ordered
          <6>3. QED BY <2>1, <3>1, <6>2
        <5>3. QED BY <5>1, <5>2
      <4>4. \E i \in DOMAIN G : Data(G[i].f) /\ G[i].f.seq = k
        BY <1>4, <4>1, <4>2, <4>3 DEF Arrived
      <4>5. QED BY <1>7, <4>4 DEF IsChunk, Data
    <3>8. QED BY <3>6, <3>7
  <2>6. QED BY <2>3, <2>4, <2>5
<1>10. m = Len(G) + 1 /\ m \in Nat /\ m - 1 = Len(G)
  BY <1>4, <1>7
<1>11. got'[e][m] = r /\ \A j \in 1..(m - 1) : got'[e][j] = G[j]
  BY <1>6, <1>7, <1>10
<1>12. CASE r.how # "item"
  BY <1>11, <1>12 DEF Accounted
<1>13. CASE r.how = "item"
  <2>1. \A k \in FailedChunks(d) : k \in FailedChunks(d)'
    OBVIOUS
  <2>2. /\ r.f.body = r.f.seq
        /\ \A j \in 1..(m - 1) : IsChunk(G[j]) => G[j].f.seq < r.f.seq
        /\ \A k \in 0..(r.f.seq - 1) :
             k \in FailedChunks(d)' \/ \E j \in 1..(m - 1) : IsChunk(G[j]) /\ G[j].f.seq = k
    BY <1>9, <1>10, <1>13, <2>1
  <2>3. /\ got'[e][m].f.body = got'[e][m].f.seq
        /\ \A j \in 1..(m - 1) : IsChunk(got'[e][j]) => got'[e][j].f.seq < got'[e][m].f.seq
        /\ \A k \in 0..(got'[e][m].f.seq - 1) :
             k \in FailedChunks(d)'
               \/ \E j \in 1..(m - 1) : IsChunk(got'[e][j]) /\ got'[e][j].f.seq = k
    <3>1. got'[e][m].f.body = got'[e][m].f.seq
      BY <1>11, <2>2
    <3>2. ASSUME NEW j \in 1..(m - 1), IsChunk(got'[e][j])
          PROVE  got'[e][j].f.seq < got'[e][m].f.seq
      <4>1. got'[e][j] = G[j]
        BY <1>11
      <4>2. IsChunk(G[j])
        BY <3>2, <4>1
      <4>3. QED BY <1>11, <2>2, <4>1, <4>2
    <3>3. ASSUME NEW k \in 0..(got'[e][m].f.seq - 1), k \notin FailedChunks(d)'
          PROVE  \E j \in 1..(m - 1) : IsChunk(got'[e][j]) /\ got'[e][j].f.seq = k
      <4>1. PICK j \in 1..(m - 1) : IsChunk(G[j]) /\ G[j].f.seq = k
        BY <1>11, <2>2, <3>3
      <4>2. got'[e][j] = G[j]
        BY <1>11
      <4>3. QED BY <4>1, <4>2
    <3>4. QED BY <3>1, <3>2, <3>3
  <2>4. QED BY <2>3 DEF Accounted, IsChunk
<1>14. QED BY <1>12, <1>13

\* A receiver can always tell which chunks it lacks (StreamHandle::send_data counts before it
\* sends; recv and await_reply take what comes in order).
LEMMA AccountedStep ==
  ASSUME TypeInv, PlaceInv, NumberInv, FlowInv, ChunksAccounted, [Next]_vars
  PROVE  ChunksAccounted'
<1>1. \A d \in Ends : FailedChunks(d) \subseteq FailedChunks(d)'
  BY FailedStay
<1>2. \A e \in Ends : \A i \in DOMAIN got[e] : Accounted(e, i)
  BY AccountedAll
<1>3. ASSUME NEW e \in Ends, got'[e] = got[e]
      PROVE  \A i \in DOMAIN got'[e] : Accounted(e, i)'
  <2>1. Peer(e) \in Ends
    BY TwoEnds
  <2>2. QED BY <1>1, <1>2, <1>3, <2>1, AccountedStays
<1>4. ASSUME NEW e \in Ends, Received(e)
      PROVE  \A i \in DOMAIN got'[e] : Accounted(e, i)'
  <2>1. PICK r \in [how : Hows, f : StreamFrames] : got' = [got EXCEPT ![e] = Append(got[e], r)]
    BY <1>4, ReceivedTells
  <2>2. PICK G \in Seq([how : Hows, f : StreamFrames]) : G = got[e]
    BY DEF TypeInv
  <2>3. got'[e] = Append(G, r)
    BY <2>1, <2>2 DEF TypeInv
  <2>4. /\ Len(G) \in Nat /\ DOMAIN G = 1..Len(G) /\ DOMAIN got'[e] = 1..(Len(G) + 1)
        /\ \A j \in DOMAIN G : got'[e][j] = G[j]
    BY <2>3, QueueParts
  <2>5. Peer(e) \in Ends
    BY TwoEnds
  <2>6. ASSUME NEW i \in DOMAIN G
        PROVE  Accounted(e, i)'
    <3>1. \A j \in 1..(i - 1) : got'[e][j] = got[e][j]
      BY <2>2, <2>4
    <3>2. QED BY <1>1, <1>2, <2>2, <2>4, <2>5, <3>1, AccountedStays
  <2>7. Accounted(e, Len(G) + 1)'
    <3>1. FailedChunks(Peer(e)) \subseteq FailedChunks(Peer(e))'
      BY <1>1, <2>5
    <3>2. Len(G) + 1 = Len(got[e]) + 1
      BY <2>2
    <3>3. QED BY <1>4, <3>1, <3>2, NextAccounted
  <2>8. QED BY <2>4, <2>6, <2>7
<1>5. ASSUME NEW e \in Ends
      PROVE  got'[e] = got[e] \/ Received(e)
  <2>1. CASE Quiet \/ FirstFrame \/ Lose
    BY <2>1, QuietTells, FirstTells, LoseTells DEF Quietly, endVars, history
  <2>2. ASSUME NEW c \in Ends, Fails(c) \/ Written(c) \/ Stray(c)
        PROVE  got' = got
    BY <2>2, FailsTells, WrittenTells DEF Stray, endVars, history
  <2>3. ASSUME NEW c \in Ends, Start(c)
        PROVE  got' = got
    BY <2>3, StartTells DEF Starting
  <2>4. ASSUME NEW c \in Ends, Received(c), c # e
        PROVE  got'[e] = got[e]
    <3>1. PICK r : got' = [got EXCEPT ![c] = Append(got[c], r)]
      BY <2>4, ReceivedTells
    <3>2. QED BY <2>4, <3>1 DEF TypeInv
  <2>5. QED BY <2>1, <2>2, <2>3, <2>4, StepIs
<1>6. \A e \in Ends : \A i \in DOMAIN got'[e] : Accounted(e, i)'
  BY <1>3, <1>4, <1>5
<1>7. ChunksAccounted' <=> \A e \in Ends : \A i \in DOMAIN got'[e] : Accounted(e, i)'
  <2>1. ASSUME NEW e \in Ends, NEW i \in DOMAIN got'[e]
        PROVE  Accounted(e, i)' <=>
                 LET before == {j \in 1..(i - 1) : IsChunk(got'[e][j])}
                     seen == {got'[e][j].f.seq : j \in before}
                     n == got'[e][i].f.seq
                 IN got'[e][i].how = "item" =>
                      /\ got'[e][i].f.body = n
                      /\ \A k \in seen : k < n
                      /\ (0..(n - 1)) \ seen \subseteq FailedChunks(Peer(e))'
    BY DEF Accounted
  <2>2. QED BY <2>1 DEF ChunksAccounted
<1>8. QED BY <1>6, <1>7

-----------------------------------------------------------------------------
(* Whether a reader learns of an abort.                                     *)

\* Nobody has aborted in the first state.
LEMMA InitEnding == Init => EndingInv
<1> SUFFICES ASSUME Init, NEW e \in Ends
             PROVE  Ending(e)
  BY DEF EndingInv
<1>1. tried[Peer(e)] = <<>> /\ told[e] = {}
  BY TwoEnds DEF Init
<1>2. QED BY <1>1 DEF Ending, Delivered, Aborted

\* A step that leaves the frames, the reads and the writes of both directions, and begins
\* nothing that the end e is waiting for.
LEMMA EndingKept ==
  ASSUME NEW e \in Ends, Ending(e), "closed" \in told'[e] => "closed" \in told[e],
         tried'[Peer(e)] = tried[Peer(e)], failed'[Peer(e)] = failed[Peer(e)],
         got'[e] = got[e], chan'[e] = chan[e],
         handle'[e] # "gone" => handle[e] # "gone",
         pc[Peer(e)] \in Writing => pc'[Peer(e)] \in Writing,
         up' \/ fin'[e] => up \/ fin[e]
  PROVE  Ending(e)'
<1>1. Aborted(Peer(e))' = Aborted(Peer(e)) /\ AbortRead(e)' = AbortRead(e)
      /\ AbortComing(e)' = AbortComing(e)
  BY DEF Aborted, AbortRead, AbortComing
<1>2. ("closed" \in told[e] /\ Aborted(Peer(e)) => AbortRead(e)) /\ Delivered(e)
  BY DEF Ending
<1>3. "closed" \in told'[e] /\ Aborted(Peer(e))' => AbortRead(e)'
  BY <1>1, <1>2
<1>4. Delivered(e)'
  BY <1>1, <1>2 DEF Delivered
<1>5. QED BY <1>3, <1>4 DEF Ending

\* The stream ends for a reader behind everything that was written (ReadEnds after abort).
LEMMA EndingQuiet ==
  ASSUME TypeInv, PlaceInv, NEW e \in Ends, Ending(e), Quietly
  PROVE  Ending(e)'
<1> DEFINE d == Peer(e)
<1>1. d \in Ends
  BY TwoEnds
<1>2. /\ UNCHANGED <<chan, up, tried, failed, got>>
      /\ handle'[e] # "gone" => handle[e] # "gone"
      /\ pc[d] \in Writing => pc'[d] \in Writing
      /\ up' \/ fin'[e] => up \/ fin[e]
  BY <1>1 DEF Quietly
<1>3. CASE "closed" \in told'[e] => "closed" \in told[e]
  BY <1>2, <1>3, EndingKept
<1>4. CASE fin[e] /\ chan[e] = <<>> /\ handle[e] = "held"
  <2>1. handle[d] = "gone" /\ pc[d] \notin Writing
    BY <1>1, <1>4 DEF PlaceInv, Writing
  <2>2. ~AbortComing(e)
    BY <1>4 DEF AbortComing
  <2>3. Aborted(d) => AbortRead(e)
    BY <1>4, <2>1, <2>2 DEF Ending, Delivered
  <2>4. Aborted(d)' = Aborted(d) /\ AbortRead(e)' = AbortRead(e)
    BY <1>2 DEF Aborted, AbortRead
  <2>5. QED BY <2>3, <2>4 DEF Ending, Delivered
<1>5. QED BY <1>3, <1>4 DEF Quietly

\* A frame that joins those on their way to e leaves the STREAM_ERROR there.
LEMMA ComingStays ==
  ASSUME TypeInv, NEW e \in Ends, NEW f \in StreamFrames, chan'[e] = Append(chan[e], f)
  PROVE  /\ AbortComing(e) => AbortComing(e)'
         /\ f.type = "error" => AbortComing(e)'
<1>1. PICK C \in Seq(StreamFrames) : C = chan[e]
  BY DEF TypeInv
<1>2. /\ DOMAIN C = 1..Len(C) /\ Len(C) \in Nat /\ DOMAIN chan'[e] = 1..(Len(C) + 1)
      /\ \A k \in DOMAIN C : chan'[e][k] = C[k]
      /\ chan'[e][Len(C) + 1] = f
  BY <1>1, QueueParts
<1>3. Len(C) + 1 \in DOMAIN chan'[e] /\ \A k \in DOMAIN C : k \in DOMAIN chan'[e]
  BY <1>2
<1>4. QED BY <1>1, <1>2, <1>3 DEF AbortComing

\* A STREAM_ERROR that is written is on its way; nothing else changes for its reader.
LEMMA EndingWritten ==
  ASSUME TypeInv, PlaceInv, NEW e \in Ends, Ending(e), Written(Peer(e))
  PROVE  Ending(e)'
<1> DEFINE d == Peer(e)
<1>1. d \in Ends /\ Peer(d) = e /\ d # e
  BY TwoEnds
<1>2. PICK f \in StreamFrames : f = tried[d][Len(tried[d])] /\ chan' = [chan EXCEPT ![e] = Append(@, f)]
  BY <1>1, WrittenTells
<1>3. chan'[e] = Append(chan[e], f)
  BY <1>2 DEF TypeInv
<1>4. UNCHANGED <<tried, failed, got, told>>
  BY <1>1, WrittenTells
<1>5. Aborted(d)' = Aborted(d) /\ AbortRead(e)' = AbortRead(e)
  BY <1>4 DEF Aborted, AbortRead
<1>6. Aborted(d) => f.type = "error"
  BY <1>2 DEF Aborted
<1>7. Aborted(d)' => AbortComing(e)'
  BY <1>3, <1>5, <1>6, ComingStays
<1>8. "closed" \in told'[e] /\ Aborted(d)' => AbortRead(e)'
  BY <1>4, <1>5 DEF Ending
<1>9. QED BY <1>7, <1>8 DEF Ending, Delivered

\* A write that has failed leaves no STREAM_ERROR to wait for.
LEMMA EndingFails ==
  ASSUME TypeInv, PlaceInv, NEW e \in Ends, Ending(e), Fails(Peer(e))
  PROVE  Ending(e)'
<1> DEFINE d == Peer(e)
<1>1. d \in Ends
  BY TwoEnds
<1>2. tried' = tried /\ failed' = [failed EXCEPT ![d] = @ \cup {Len(tried[d])}]
  BY <1>1, FailsTells
<1>3. Len(tried'[d]) \in failed'[d]
  BY <1>1, <1>2 DEF TypeInv
<1>4. ~Aborted(d)'
  BY <1>3 DEF Aborted
<1>5. QED BY <1>4 DEF Ending, Delivered

\* An end whose peer begins a write has not been told that the stream is closed.
LEMMA EndingStart ==
  ASSUME TypeInv, PlaceInv, NumberInv, NEW e \in Ends, Ending(e), Start(Peer(e))
  PROVE  Ending(e)'
<1> DEFINE d == Peer(e)
<1>1. d \in Ends
  BY TwoEnds
<1>2. PICK f \in StreamFrames, label \in Writing : Starting(d, f, label)
  BY <1>1, StartTells
<1>3. pc'[d] \in Writing
  BY <1>1, <1>2 DEF Starting, TypeInv
<1>4. handle[d] # "gone" /\ told' = told
  BY <1>2 DEF Starting
<1>5. "closed" \notin told[e]
  BY <1>4 DEF PlaceInv
<1>6. QED BY <1>3, <1>4, <1>5 DEF Ending, Delivered

\* A STREAM_ERROR that is read is read as an abort (recv and await_reply).
LEMMA EndingReceived ==
  ASSUME TypeInv, PlaceInv, NEW e \in Ends, Ending(e), Received(e)
  PROVE  Ending(e)'
<1> DEFINE d == Peer(e)
<1>1. d \in Ends /\ d # e
  BY TwoEnds
<1>2. PICK r \in [how : Hows, f : StreamFrames] :
        /\ r.f = Head(chan[e]) /\ (r.f.type = "error" => r.how = "aborted")
        /\ got' = [got EXCEPT ![e] = Append(@, r)]
  BY ReceivedTells
<1>3. /\ chan[e] \in Seq(StreamFrames) /\ chan[e] # <<>>
      /\ chan' = [chan EXCEPT ![e] = Tail(@)] /\ pc' = [pc EXCEPT ![e] = "idle"]
      /\ UNCHANGED <<up, fin, handle, tried, failed, told>>
  BY ReceivedTells
<1>4. PICK C \in Seq(StreamFrames), G \in Seq([how : Hows, f : StreamFrames]) :
        C = chan[e] /\ G = got[e] /\ C # <<>>
  <2>1. got[e] \in Seq([how : Hows, f : StreamFrames])
    BY DEF TypeInv
  <2>2. QED BY <1>3, <2>1
<1>5. chan'[e] = Tail(C) /\ got'[e] = Append(G, r) /\ pc'[d] = pc[d]
  BY <1>1, <1>2, <1>3, <1>4 DEF TypeInv
<1>6. /\ DOMAIN C = 1..Len(C) /\ Len(C) \in Nat /\ C[1] = r.f
      /\ DOMAIN chan'[e] = 1..(Len(C) - 1)
      /\ \A k \in DOMAIN chan'[e] : chan'[e][k] = C[k + 1]
  BY <1>2, <1>4, <1>5, QueueParts
<1>7. /\ DOMAIN G = 1..Len(G) /\ Len(G) \in Nat /\ DOMAIN got'[e] = 1..(Len(G) + 1)
      /\ \A k \in DOMAIN G : got'[e][k] = G[k]
      /\ got'[e][Len(G) + 1] = r
  BY <1>4, <1>5, QueueParts
<1>8. AbortRead(e) => AbortRead(e)'
  <2>1. \A k \in DOMAIN G : k \in DOMAIN got'[e]
    BY <1>7
  <2>2. QED BY <1>4, <1>7, <2>1 DEF AbortRead
<1>9. AbortComing(e) => AbortRead(e)' \/ AbortComing(e)'
  <2> SUFFICES ASSUME NEW j \in DOMAIN C, C[j].type = "error"
               PROVE  AbortRead(e)' \/ AbortComing(e)'
    BY <1>4 DEF AbortComing
  <2>1. CASE j = 1
    <3>1. r.how = "aborted"
      BY <1>2, <1>6, <2>1
    <3>2. Len(G) + 1 \in DOMAIN got'[e]
      BY <1>7
    <3>3. QED BY <1>7, <3>1, <3>2 DEF AbortRead
  <2>2. CASE j # 1
    <3>1. j - 1 \in DOMAIN chan'[e] /\ (j - 1) + 1 = j
      BY <1>6, <2>2
    <3>2. chan'[e][j - 1].type = "error"
      BY <1>6, <3>1
    <3>3. QED BY <3>1, <3>2 DEF AbortComing
  <2>3. QED BY <2>1, <2>2
<1>10. Aborted(d)' = Aborted(d)
  BY <1>3 DEF Aborted
<1>11. "closed" \in told'[e] /\ Aborted(d)' => AbortRead(e)'
  BY <1>3, <1>8, <1>10 DEF Ending
<1>12. Delivered(e)'
  BY <1>3, <1>5, <1>8, <1>9, <1>10 DEF Ending, Delivered
<1>13. QED BY <1>11, <1>12 DEF Ending

\* The first frame is no STREAM_ERROR, or the provider has no handle to read with.
LEMMA EndingFirst ==
  ASSUME TypeInv, PlaceInv, NEW e \in Ends, Ending(e), FirstFrame
  PROVE  Ending(e)'
<1>1. /\ handle["provider"] = "none"
      /\ chan["provider"] \in Seq(StreamFrames) /\ chan["provider"] # <<>>
      /\ chan' = [chan EXCEPT !["provider"] = Tail(@)]
      /\ pc["provider"] = "first" /\ pc' = [pc EXCEPT !["provider"] = "idle"]
      /\ handle'["caller"] = handle["caller"]
      /\ handle'["provider"] = "gone" \/ Head(chan["provider"]).type = "open"
      /\ \A c \in Ends : fin'[c] => fin[c] \/ (up /\ c = "caller" /\ handle'["provider"] = "gone")
      /\ UNCHANGED <<up, history>>
  BY FirstTells
<1>2. CASE e = "caller"
  <2>1. Peer(e) = "provider" /\ "provider" \in Ends
    BY <1>2, TwoEnds
  <2>2. pc[Peer(e)] \notin Writing
    BY <1>1, <2>1 DEF Writing
  <2>3. chan'[e] = chan[e] /\ handle'[e] = handle[e]
    BY <1>1, <1>2 DEF TypeInv
  <2>4. QED BY <1>1, <2>2, <2>3, EndingKept DEF history
<1>3. CASE e = "provider"
  <2>1. Peer(e) = "caller" /\ "caller" \in Ends /\ "caller" # "provider"
    BY <1>3, TwoEnds
  <2>2. pc'[Peer(e)] = pc[Peer(e)] /\ (fin'[e] => fin[e]) /\ UNCHANGED <<up, tried, failed, got, told>>
    BY <1>1, <1>3, <2>1 DEF TypeInv, history
  <2>3. Aborted(Peer(e))' = Aborted(Peer(e)) /\ AbortRead(e)' = AbortRead(e)
    BY <2>2 DEF Aborted, AbortRead
  <2>4. ASSUME handle'[e] # "gone", AbortComing(e)
        PROVE  AbortComing(e)'
    <3>1. PICK C \in Seq(StreamFrames) : C = chan[e] /\ C # <<>>
      BY <1>1, <1>3
    <3>2. chan'[e] = Tail(C) /\ Head(C).type = "open"
      BY <1>1, <1>3, <2>4, <3>1 DEF TypeInv
    <3>3. /\ DOMAIN C = 1..Len(C) /\ Len(C) \in Nat /\ C[1].type = "open"
          /\ DOMAIN chan'[e] = 1..(Len(C) - 1)
          /\ \A k \in DOMAIN chan'[e] : chan'[e][k] = C[k + 1]
      BY <3>1, <3>2, QueueParts
    <3>4. PICK j \in DOMAIN C : C[j].type = "error"
      BY <2>4, <3>1 DEF AbortComing
    <3>5. j # 1
      BY <3>3, <3>4
    <3>6. j - 1 \in DOMAIN chan'[e] /\ (j - 1) + 1 = j
      BY <3>3, <3>5
    <3>7. chan'[e][j - 1].type = "error"
      BY <3>3, <3>4, <3>6
    <3>8. QED BY <3>6, <3>7 DEF AbortComing
  <2>5. handle[e] # "gone"
    BY <1>1, <1>3
  <2>6. "closed" \in told'[e] /\ Aborted(Peer(e))' => AbortRead(e)'
    BY <2>2, <2>3 DEF Ending
  <2>7. Delivered(e)'
    BY <2>2, <2>3, <2>4, <2>5 DEF Ending, Delivered
  <2>8. QED BY <2>6, <2>7 DEF Ending
<1>4. QED BY <1>2, <1>3 DEF Ends

\* The end of a stream survives the loss of the connection only behind all its frames.
LEMMA EndingLose ==
  ASSUME TypeInv, NEW e \in Ends, Ending(e), Lose
  PROVE  Ending(e)'
<1>1. PICK n \in [Ends -> Nat] :
        /\ n[e] <= Len(chan[e])
        /\ fin'[e] => fin[e] /\ n[e] = Len(chan[e])
        /\ \A k \in DOMAIN chan'[e] :
             k \in DOMAIN chan[e] /\ chan'[e][k] = chan[e][k] /\ k <= n[e]
        /\ \A k \in DOMAIN chan[e] : k <= n[e] => k \in DOMAIN chan'[e]
  BY LoseTells
<1>2. up' = FALSE /\ UNCHANGED <<handle, pc, tried, failed, got, told>>
  BY LoseTells DEF endVars, history
<1>3. Aborted(Peer(e))' = Aborted(Peer(e)) /\ AbortRead(e)' = AbortRead(e)
  BY <1>2 DEF Aborted, AbortRead
<1>4. ASSUME fin'[e], AbortComing(e)
      PROVE  AbortComing(e)'
  <2>1. PICK C \in Seq(StreamFrames) : C = chan[e]
    BY DEF TypeInv
  <2>2. PICK j \in DOMAIN C : C[j].type = "error"
    BY <1>4, <2>1 DEF AbortComing
  <2>3. j <= n[e]
    BY <1>1, <1>4, <2>1
  <2>4. j \in DOMAIN chan'[e] /\ chan'[e][j] = C[j]
    BY <1>1, <2>1, <2>3
  <2>5. QED BY <2>2, <2>4 DEF AbortComing
<1>5. "closed" \in told'[e] /\ Aborted(Peer(e))' => AbortRead(e)'
  BY <1>2, <1>3 DEF Ending
<1>6. Delivered(e)'
  BY <1>1, <1>2, <1>3, <1>4 DEF Ending, Delivered
<1>7. QED BY <1>5, <1>6 DEF Ending

\* What an end does with its own frames, and what its peer reads, is no news to it; a frame
\* of another stream joins what is on its way.
LEMMA EndingOwn ==
  ASSUME TypeInv, PlaceInv, NumberInv, NEW e \in Ends, Ending(e),
         Start(e) \/ Fails(e) \/ Written(e) \/ Received(Peer(e)) \/ Stray(e) \/ Stray(Peer(e))
  PROVE  Ending(e)'
<1> DEFINE d == Peer(e)
<1>1. d \in Ends /\ d # e /\ Peer(d) = e
  BY TwoEnds
<1>2. CASE Start(e)
  <2>1. PICK f \in StreamFrames, label \in Writing : Starting(e, f, label)
    BY <1>2, StartTells
  <2>2. /\ UNCHANGED <<chan, up, fin, handle, failed, got, told>>
        /\ tried'[d] = tried[d] /\ pc'[d] = pc[d]
    BY <1>1, <2>1 DEF Starting, wireVars, TypeInv
  <2>3. QED BY <2>2, EndingKept
<1>3. CASE Fails(e) \/ Written(e)
  <2>1. /\ pc[e] \in Writing /\ WriteOver(e) /\ chan'[e] = chan[e] /\ failed'[d] = failed[d]
        /\ UNCHANGED <<up, tried, got, told>>
    <3>1. CASE Fails(e)
      <4>1. failed' = [failed EXCEPT ![e] = @ \cup {Len(tried[e])}]
        BY <3>1, FailsTells
      <4>2. failed'[d] = failed[d]
        BY <1>1, <4>1 DEF TypeInv
      <4>3. QED BY <3>1, <4>2, FailsTells
    <3>2. CASE Written(e)
      <4>1. chan' = [chan EXCEPT ![d] = Append(@, tried[e][Len(tried[e])])]
        BY <3>2, WrittenTells
      <4>2. chan'[e] = chan[e]
        BY <1>1, <4>1 DEF TypeInv
      <4>3. QED BY <3>2, <4>2, WrittenTells
    <3>3. QED BY <1>3, <3>1, <3>2
  <2>2. handle[e] # "gone"
    BY <2>1 DEF PlaceInv, Writing
  <2>3. pc'[d] = pc[d] /\ (fin'[e] => fin[e])
    BY <1>1, <2>1 DEF WriteOver, TypeInv
  <2>4. QED BY <2>1, <2>2, <2>3, EndingKept
<1>4. CASE Received(d)
  <2>1. /\ chan' = [chan EXCEPT ![d] = Tail(@)] /\ pc[d] \in Reading
        /\ UNCHANGED <<up, fin, handle, tried, failed, told>>
    BY <1>1, <1>4, ReceivedTells
  <2>2. PICK r : got' = [got EXCEPT ![d] = Append(got[d], r)]
    BY <1>1, <1>4, ReceivedTells
  <2>3. chan'[e] = chan[e] /\ got'[e] = got[e] /\ pc[d] \notin Writing
    BY <1>1, <2>1, <2>2 DEF TypeInv, Reading, Writing
  <2>4. QED BY <2>1, <2>3, EndingKept
<1>5. CASE Stray(d)
  <2>1. UNCHANGED <<fin, up, handle, pc, tried, failed, got, told>> /\ chan'[e] = chan[e]
    BY <1>1, <1>5 DEF Stray, endVars, history, TypeInv
  <2>2. QED BY <2>1, EndingKept
<1>6. CASE Stray(e)
  <2>1. /\ UNCHANGED <<fin, up, handle, pc, tried, failed, got, told>>
        /\ chan'[e] = Append(chan[e], Bare("stray"))
    BY <1>6 DEF Stray, endVars, history, TypeInv
  <2>2. Bare("stray") \in StreamFrames
    BY DEF Bare, Frame, StreamFrames, Types
  <2>3. AbortComing(e) => AbortComing(e)'
    BY <2>1, <2>2, ComingStays
  <2>4. Aborted(d)' = Aborted(d) /\ AbortRead(e)' = AbortRead(e)
    BY <2>1 DEF Aborted, AbortRead
  <2>5. QED BY <2>1, <2>3, <2>4 DEF Ending, Delivered
<1>7. QED BY <1>2, <1>3, <1>4, <1>5, <1>6

\* Every step keeps what is known of a STREAM_ERROR.
LEMMA EndingStep ==
  ASSUME TypeInv, PlaceInv, NumberInv, EndingInv, [Next]_vars
  PROVE  EndingInv'
<1> SUFFICES ASSUME NEW e \in Ends
             PROVE  Ending(e)'
  BY DEF EndingInv
<1>1. Ending(e)
  BY DEF EndingInv
<1>2. \A c \in Ends : c = e \/ c = Peer(e)
  BY TwoEnds
<1>3. CASE Quiet
  BY <1>1, <1>3, QuietTells, EndingQuiet
<1>4. CASE FirstFrame
  BY <1>1, <1>4, EndingFirst
<1>5. CASE Lose
  BY <1>1, <1>5, EndingLose
<1>6. ASSUME NEW c \in Ends, Start(c)
      PROVE  Ending(e)'
  BY <1>1, <1>2, <1>6, EndingStart, EndingOwn
<1>7. ASSUME NEW c \in Ends, Fails(c)
      PROVE  Ending(e)'
  BY <1>1, <1>2, <1>7, EndingFails, EndingOwn
<1>8. ASSUME NEW c \in Ends, Written(c)
      PROVE  Ending(e)'
  BY <1>1, <1>2, <1>8, EndingWritten, EndingOwn
<1>9. ASSUME NEW c \in Ends, Received(c)
      PROVE  Ending(e)'
  BY <1>1, <1>2, <1>9, EndingReceived, EndingOwn
<1>10. ASSUME NEW c \in Ends, Stray(c)
       PROVE  Ending(e)'
  BY <1>1, <1>2, <1>10, EndingOwn
<1>11. QED BY <1>3, <1>4, <1>5, <1>6, <1>7, <1>8, <1>9, <1>10, StepIs

-----------------------------------------------------------------------------
(* The theorems.                                                            *)

\* IInv holds in the first state and every step keeps it: whatever the two ends and the relay
\* do, chunks come in order and without gaps, and a STREAM_ERROR comes last.
THEOREM Invariance ==
  ASSUME StreamAssumption
  PROVE  Spec => []IInv
<1>1. Init => IInv
  BY InitTypes, InitNumber, InitFlow, InitEnding DEF IInv
<1>2. IInv /\ [Next]_vars => IInv'
  <2> SUFFICES ASSUME IInv, [Next]_vars
               PROVE  IInv'
    OBVIOUS
  <2>1. TypeInv /\ PlaceInv /\ NumberInv /\ FlowInv /\ ChunksAccounted /\ EndingInv
    BY DEF IInv
  <2>2. TypeInv' /\ PlaceInv' /\ NumberInv'
    BY <2>1, TypeStep, PlaceStep, NumberStep
  <2>3. FlowInv' /\ ChunksAccounted' /\ EndingInv'
    BY <2>1, FlowStep, AccountedStep, EndingStep
  <2>4. QED BY <2>2, <2>3 DEF IInv
<1>3. QED BY <1>1, <1>2, PTL DEF Spec

\* No direction holds more frames than its window, and only frames that were tried have failed
\* (StreamHandle's methods await the write).
THEOREM TypeCorrect ==
  ASSUME StreamAssumption
  PROVE  Spec => []TypeOK
<1>1. IInv => TypeOK
  BY DEF IInv, TypeInv, TypeOK
<1>2. QED BY <1>1, Invariance, PTL

\* A receiver can tell which chunks it lacks: numbers grow, each is that of the sender's call,
\* and a number that is skipped belongs to a send_data that failed or to a chunk that
\* await_reply has consumed (StreamHandle::send_data counts before it sends; recv, await_reply).
THEOREM ChunksAreAccountedFor ==
  ASSUME StreamAssumption
  PROVE  Spec => []ChunksAccounted
<1>1. IInv => ChunksAccounted
  BY DEF IInv
<1>2. QED BY <1>1, Invariance, PTL

\* An end that reads StreamClosed from a peer whose abort has been written has read its
\* STREAM_ERROR (StreamHandle::abort; recv, await_reply).
THEOREM AbortIsToldApart ==
  ASSUME StreamAssumption
  PROVE  Spec => []AbortToldApart
<1>1. IInv => AbortToldApart
  <2> SUFFICES ASSUME IInv, NEW e \in Ends, "closed" \in told[e], tried[Peer(e)] # <<>>,
                      Last(tried[Peer(e)]).type = "error",
                      Len(tried[Peer(e)]) \notin failed[Peer(e)]
               PROVE  \E j \in DOMAIN got[e] : got[e][j].how = "aborted"
    BY DEF AbortToldApart
  <2>1. Aborted(Peer(e))
    BY DEF Aborted, Last
  <2>2. Ending(e)
    BY DEF IInv, EndingInv
  <2>3. QED BY <2>1, <2>2 DEF Ending, AbortRead
<1>2. QED BY <1>1, Invariance, PTL

=============================================================================
