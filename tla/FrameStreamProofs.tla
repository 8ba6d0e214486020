-------------------------- MODULE FrameStreamProofs --------------------------
(***************************************************************************)
(* FrameStream implements FrameFifo, for every script of frames, header and  *)
(* read size: however the bytes arrive and wherever a timeout strikes, what  *)
(* is returned is the next frame that was sent.                             *)
(*                                                                          *)
(* The invariant that carries the proof places the buffer: it begins where   *)
(* the last returned frame ends (PlaceInv) and holds only bytes that were    *)
(* sent (BytesInv).  So the frame at its head is the next one, and a frame   *)
(* that is there whole has been sent.                                       *)
(***************************************************************************)
EXTENDS FrameStream, SequenceTheorems, TLAPS

\* The bytes on their way from the peer to the application.
BytesInv == consumed <= taken /\ taken <= arrived /\ arrived <= Written

\* buf begins behind the last frame that was returned.
PlaceInv ==
  /\ Len(got) <= sent
  /\ consumed = Start(Len(got) + 1)

IInv == TypeOK /\ BytesInv /\ PlaceInv

-----------------------------------------------------------------------------
(* Offsets.                                                                 *)

\* The script is a sequence of frames, the later ones end further on.
LEMMA ScriptShape ==
  ASSUME script \in Scripts
  PROVE  /\ script \in Seq([kind : Kinds, end : Nat])
         /\ \A k \in 1..Len(script) : script[k] \in [kind : Kinds, end : Nat]
         /\ \A k \in 1..Len(script) : script[k].end > 0
         /\ \A j, k \in 1..Len(script) : j < k => script[j].end < script[k].end
<1> DEFINE F == [kind : Kinds, end : Nat]
<1>0. script \in Seq(F)
  BY FrameStreamAssumption
<1> HIDE DEF F
<1>1. DOMAIN script = 1..Len(script)
  BY <1>0, LenProperties
<1>2. \A k \in 1..Len(script) : script[k] \in F
  BY <1>0, ElementOfSeq
<1>3. \A k \in 1..Len(script) : script[k].end > Header
  BY <1>1, FrameStreamAssumption
<1>4. \A j, k \in 1..Len(script) : j < k => script[k].end > Header + script[j].end
  BY <1>1, FrameStreamAssumption
<1>5. Header \in Nat
  BY FrameStreamAssumption
<1>6. QED
  BY <1>0, <1>1, <1>2, <1>3, <1>4, <1>5 DEF F

\* At most one frame begins at an offset.
LEMMA StartsDiffer ==
  ASSUME script \in Scripts,
         NEW j \in 1..Len(script), NEW k \in 1..Len(script), Start(j) = Start(k)
  PROVE  j = k
<1>1. Len(script) \in Nat
  BY ScriptShape
<1>2. ASSUME NEW i \in 1..Len(script), NEW n \in 1..Len(script), i < n
      PROVE  Start(i) # Start(n)
  <2>1. n - 1 \in 1..Len(script) /\ n # 1
    BY <1>1, <1>2
  <2>2. Start(n) = script[n - 1].end
    BY <2>1 DEF Start
  <2>3. CASE i = 1
    BY <2>1, <2>2, <2>3, ScriptShape DEF Start
  <2>4. CASE i # 1
    <3>1. i - 1 \in 1..Len(script) /\ i - 1 < n - 1
      BY <1>1, <1>2, <2>4
    <3>2. QED
      BY <2>1, <2>2, <2>4, <3>1, ScriptShape DEF Start
  <2>5. QED
    BY <2>3, <2>4
<1>3. CASE j < k
  BY <1>2, <1>3
<1>4. CASE k < j
  BY <1>2, <1>4
<1>5. QED
  BY <1>1, <1>3, <1>4

\* What decode takes for a frame is the one behind the last that was returned, and
\* the peer has written it.
LEMMA HeadIsNext ==
  ASSUME IInv, decode = "frame"
  PROVE  /\ Len(got) < sent
         /\ Head1 = script[Len(got) + 1]
         /\ Head1.end <= taken
<1> DEFINE n == Len(got) + 1
<1>1. /\ script \in Scripts /\ sent \in 0..Len(script) /\ Len(got) \in Nat
      /\ taken \in Nat /\ arrived \in Nat /\ Len(script) \in Nat
  BY ScriptShape DEF IInv, TypeOK
<1>2. AtHead # {} /\ taken >= Head1.end
  BY <1>1, ScriptShape DEF decode, Head1, AtHead
<1>3. PICK k \in 1..Len(script) : k \in AtHead /\ Head1 = script[k] /\ Start(k) = consumed
  BY <1>2 DEF Head1, AtHead
<1>4. n \in 1..Len(script) => k = n
  BY <1>1, <1>3, StartsDiffer DEF IInv, PlaceInv
<1>5. k <= sent
  <2>1. script[k].end <= Written
    BY <1>1, <1>2, <1>3, ScriptShape DEF IInv, BytesInv, Written
  <2>2. CASE sent = 0
    BY <1>1, <1>3, <2>1, <2>2, ScriptShape DEF Written
  <2>3. CASE sent # 0
    BY <1>1, <1>3, <2>1, <2>3, ScriptShape DEF Written
  <2>4. QED
    BY <2>2, <2>3
<1>6. n \in 1..Len(script)
  <2>1. CASE Len(got) = Len(script)
    <3>1. Len(got) # 0 /\ consumed = script[Len(got)].end
      BY <1>1, <1>3, <2>1 DEF IInv, PlaceInv, Start
    <3>2. Start(k) < script[Len(got)].end
      <4>1. CASE k = 1
        BY <1>1, <3>1, <4>1, <2>1, ScriptShape DEF Start
      <4>2. CASE k # 1
        <5>1. k - 1 \in 1..Len(script) /\ k - 1 < Len(got)
          BY <1>1, <1>3, <2>1, <4>2
        <5>2. QED
          BY <1>1, <3>1, <4>2, <5>1, <2>1, ScriptShape DEF Start
      <4>3. QED
        BY <4>1, <4>2
    <3>3. QED
      BY <1>1, <1>3, <3>1, <3>2, <2>1, ScriptShape
  <2>2. CASE Len(got) # Len(script)
    BY <1>1, <2>2 DEF IInv, PlaceInv
  <2>3. QED
    BY <2>1, <2>2
<1>7. QED
  BY <1>1, <1>2, <1>3, <1>4, <1>5, <1>6

-----------------------------------------------------------------------------
(* The invariant.                                                           *)

\* Nothing is buffered, sent or read before the first step.
LEMMA InitInv ==
  ASSUME Init
  PROVE  IInv
<1>1. script \in Scripts /\ Len(script) \in Nat
  BY ScriptShape, LenProperties DEF Init
<1>2. got = <<>> /\ Len(got) = 0 /\ got \in Seq([kind : Kinds, end : Nat])
  BY DEF Init
<1>3. TypeOK
  <2>1. sent \in 0..Len(script) /\ fin \in BOOLEAN /\ up \in BOOLEAN
    <3>1. sent = 0 /\ fin = FALSE /\ up = TRUE
      BY DEF Init
    <3>2. 0 \in 0..Len(script)
      BY <1>1
    <3>3. QED
      BY <3>1, <3>2
  <2>2. /\ arrived \in Nat /\ taken \in Nat /\ consumed \in Nat
        /\ phase \in {"hello", "session", "failed"} /\ pc \in {"idle", "reading"}
    BY DEF Init
  <2>3. QED
    BY <1>1, <1>2, <2>1, <2>2 DEF TypeOK
<1>4. BytesInv /\ PlaceInv
  BY <1>1, <1>2 DEF Init, BytesInv, PlaceInv, Written, Start
<1>5. QED
  BY <1>3, <1>4 DEF IInv

\* The frame that is returned, the HELLO too, is the next one: the buffer begins
\* behind it.
LEMMA TakeKeeps ==
  ASSUME IInv, decode = "frame", UNCHANGED <<wire, taken>>,
         consumed' = Head1.end, got' = Append(got, Head1),
         phase' \in {"hello", "session", "failed"}, pc' \in {"idle", "reading"}
  PROVE  IInv'
<1> DEFINE n == Len(got) + 1
<1>1. /\ n \in 1..Len(script) /\ n <= sent
      /\ Head1 = script[n] /\ Head1.end <= taken
  BY HeadIsNext, ScriptShape DEF IInv, TypeOK
<1>2. Head1 \in [kind : Kinds, end : Nat] /\ Head1.end \in Nat
  BY <1>1, ScriptShape DEF IInv, TypeOK
<1>3. got' \in Seq([kind : Kinds, end : Nat]) /\ Len(got') = n
  BY <1>2, AppendProperties DEF IInv, TypeOK
<1>4. TypeOK'
  BY <1>2, <1>3 DEF IInv, TypeOK, wire
<1>5. BytesInv'
  BY <1>1 DEF IInv, BytesInv, Written, wire
<1>6. PlaceInv'
  BY <1>1, <1>3 DEF PlaceInv, Start, wire
<1>7. QED
  BY <1>4, <1>5, <1>6 DEF IInv

\* Every step keeps the invariant.
LEMMA InvStep ==
  ASSUME IInv, [Next]_vars
  PROVE  IInv'
<1>1. script' = script
  BY DEF Next, PeerSends, PeerFinishes, Arrive, Lose, Call, Turn, Read, Frame, Undecodable,
    Ended, Hello, Timeout, NoHello, vars, wire
<1>2. CASE PeerSends
  <2>1. sent' \in 0..Len(script) /\ Written <= Written'
    <3>1. sent \in Nat /\ sent' = sent + 1 /\ sent < Len(script) /\ Len(script) \in Nat
      BY <1>2, ScriptShape DEF PeerSends, IInv, TypeOK
    <3>2. sent' \in 1..Len(script) /\ Written' = script[sent'].end
      BY <1>1, <3>1 DEF Written
    <3>3. CASE sent = 0
      BY <3>1, <3>2, <3>3, ScriptShape DEF Written, IInv, TypeOK
    <3>4. CASE sent # 0
      BY <3>1, <3>2, <3>4, ScriptShape DEF Written, IInv, TypeOK
    <3>5. QED
      BY <3>1, <3>2, <3>3, <3>4
  <2>2. arrived <= Written'
    <3>1. Written \in Nat /\ Written' \in Nat
      BY <1>1, <2>1, ScriptShape DEF Written, IInv, TypeOK
    <3>2. QED
      BY <2>1, <3>1 DEF IInv, TypeOK, BytesInv
  <2>3. QED
    BY <1>1, <1>2, <2>1, <2>2 DEF PeerSends, IInv, TypeOK, BytesInv, PlaceInv, Start
<1>3. CASE Arrive
  <2>1. Written \in Nat
    BY ScriptShape DEF Written, IInv, TypeOK
  <2>2. arrived' \in Nat /\ arrived < arrived' /\ arrived' <= Written
    BY <1>3, <2>1 DEF Arrive, IInv, TypeOK
  <2>3. QED
    BY <1>3, <2>2 DEF Arrive, IInv, TypeOK, BytesInv, PlaceInv, Start, Written
<1>4. CASE Read
  <2>1. taken' \in Nat /\ taken < taken' /\ taken' <= arrived
    BY <1>4 DEF Read, IInv, TypeOK
  <2>2. QED
    BY <1>4, <2>1 DEF Read, IInv, TypeOK, BytesInv, PlaceInv, Start, Written, wire
<1>5. CASE Frame
  BY <1>5, TakeKeeps DEF Frame, IInv, TypeOK
<1>6. CASE Hello
  BY <1>6, TakeKeeps DEF Hello
<1>7. CASE PeerFinishes \/ Lose \/ Call \/ Undecodable \/ Ended \/ Timeout \/ NoHello
  BY <1>7 DEF PeerFinishes, Lose, Call, Undecodable, Ended, Timeout, NoHello, IInv, TypeOK,
    BytesInv, PlaceInv, Start, Written, wire
<1>8. CASE UNCHANGED vars
  BY <1>8 DEF vars, wire, IInv, TypeOK, BytesInv, PlaceInv, Start, Written
<1>9. QED
  BY <1>2, <1>3, <1>4, <1>5, <1>6, <1>7, <1>8 DEF Next, Turn

-----------------------------------------------------------------------------
(* The refinement.                                                          *)

\* The frames that may be sent, as FrameFifo has them.
AllFrames == UNION {{s[k] : k \in DOMAIN s} : s \in Scripts}

\* Of the first n frames of the script: their length, the kth, and one frame more.
LEMMA PrefixShape ==
  ASSUME script \in Scripts, NEW n \in 0..Len(script)
  PROVE  /\ Len(SubSeq(script, 1, n)) = n
         /\ \A k \in 1..n : SubSeq(script, 1, n)[k] = script[k]
         /\ n < Len(script) =>
              SubSeq(script, 1, n + 1) = Append(SubSeq(script, 1, n), script[n + 1])
<1> DEFINE F == [kind : Kinds, end : Nat]
<1>1. script \in Seq(F) /\ \A k \in 1..Len(script) : script[k] \in F
  BY ScriptShape
<1> HIDE DEF F
<1>2. Len(script) \in Nat
  BY <1>1, LenProperties
<1>3. ASSUME NEW m \in 0..Len(script)
      PROVE  /\ SubSeq(script, 1, m) \in Seq(F) /\ Len(SubSeq(script, 1, m)) = m
             /\ \A k \in 1..m : SubSeq(script, 1, m)[k] = script[k]
  BY <1>1, <1>2, SubSeqProperties
<1>4. ASSUME n < Len(script)
      PROVE  SubSeq(script, 1, n + 1) = Append(SubSeq(script, 1, n), script[n + 1])
  <2> DEFINE p == SubSeq(script, 1, n)
             q == SubSeq(script, 1, n + 1)
  <2>1. n + 1 \in 1..Len(script) /\ script[n + 1] \in F
    BY <1>1, <1>2, <1>4
  <2>2. /\ p \in Seq(F) /\ Len(p) = n
        /\ q \in Seq(F) /\ Len(q) = n + 1
        /\ \A k \in 1..n : p[k] = script[k]
        /\ \A k \in 1..(n + 1) : q[k] = script[k]
    BY <1>3, <2>1
  <2> HIDE DEF p, q
  <2>3. /\ Append(p, script[n + 1]) \in Seq(F)
        /\ Len(Append(p, script[n + 1])) = n + 1
        /\ \A k \in 1..n : Append(p, script[n + 1])[k] = p[k]
        /\ Append(p, script[n + 1])[n + 1] = script[n + 1]
    BY <2>1, <2>2, AppendProperties
  <2>4. \A k \in 1..(n + 1) : q[k] = Append(p, script[n + 1])[k]
    BY <1>2, <2>2, <2>3
  <2>5. q = Append(p, script[n + 1])
    BY <2>2, <2>3, <2>4, SeqEqual
  <2>6. QED
    BY <2>5 DEF p, q
<1>5. QED
  BY <1>3, <1>4

\* What the peer sends is one of the frames, put behind the others.
LEMMA SendRefines ==
  ASSUME IInv, PeerSends
  PROVE  Fifo!Send
<1>1. script \in Scripts /\ sent \in 0..Len(script) /\ sent < Len(script) /\ Len(script) \in Nat
  BY ScriptShape DEF IInv, TypeOK, PeerSends
<1>2. sent + 1 \in DOMAIN script /\ script[sent + 1] \in AllFrames
  <2>1. DOMAIN script = 1..Len(script)
    BY <1>1, ScriptShape, LenProperties
  <2>2. QED
    BY <1>1, <2>1 DEF AllFrames
<1>3. SubSeq(script, 1, sent)' = Append(SubSeq(script, 1, sent), script[sent + 1])
  BY <1>1, PrefixShape DEF PeerSends
<1>4. QED
  BY <1>2, <1>3 DEF Fifo!Send, AllFrames, PeerSends

\* What is returned is the frame at the head of the queue.
LEMMA ReceiveRefines ==
  ASSUME IInv, decode = "frame", UNCHANGED wire, got' = Append(got, Head1)
  PROVE  Fifo!Receive
<1>1. /\ script \in Scripts /\ sent \in 0..Len(script)
      /\ Len(got) \in Nat /\ Len(got) < sent /\ Head1 = script[Len(got) + 1]
  BY HeadIsNext DEF IInv, TypeOK
<1>2. Len(SubSeq(script, 1, sent)) = sent /\ SubSeq(script, 1, sent)[Len(got) + 1] = Head1
  BY <1>1, PrefixShape
<1>3. QED
  BY <1>1, <1>2 DEF Fifo!Receive, wire

\* Every step is a step of the queue, or one that the queue does not see.
LEMMA StepRefines ==
  ASSUME IInv, [Next]_vars
  PROVE  [Fifo!Next]_Fifo!vars
<1>1. CASE PeerSends
  BY <1>1, SendRefines DEF Fifo!Next
<1>2. CASE Frame
  BY <1>2, ReceiveRefines DEF Frame, Fifo!Next
<1>3. CASE Hello
  BY <1>3, ReceiveRefines DEF Hello, Fifo!Next
<1>4. CASE \/ PeerFinishes \/ Arrive \/ Lose \/ Call \/ Read \/ Undecodable \/ Ended
           \/ Timeout \/ NoHello
  BY <1>4 DEF PeerFinishes, Arrive, Lose, Call, Read, Undecodable, Ended, Timeout, NoHello,
    wire, Fifo!vars
<1>5. CASE UNCHANGED vars
  BY <1>5 DEF vars, wire, Fifo!vars
<1>6. QED
  BY <1>1, <1>2, <1>3, <1>4, <1>5 DEF Next, Turn

-----------------------------------------------------------------------------
(* Theorems.                                                                *)

\* The buffer stays in place, and the variables keep their types.
THEOREM Invariance == Spec => []IInv
<1>1. Init => IInv
  BY InitInv
<1>2. IInv /\ [Next]_vars => IInv'
  BY InvStep
<1>3. QED
  BY <1>1, <1>2, PTL DEF Spec

\* Whatever pieces the bytes arrive in, whatever was read along with the HELLO and
\* wherever a timeout drops a read, the frames are received whole, in order, each
\* once and none passed over (connection.rs recv_frame, read_one_frame, with_buf).
THEOREM Refinement == Spec => ImplementsFifo
<1>1. Init => Fifo!Init
  <2>1. ASSUME Init PROVE SubSeq(script, 1, sent) = <<>>
    BY <2>1, ScriptShape, SubSeqProperties DEF Init
  <2>2. QED
    BY <2>1 DEF Init, Fifo!Init
<1>2. IInv /\ [Next]_vars => [Fifo!Next]_Fifo!vars
  BY StepRefines
<1>3. QED
  BY <1>1, <1>2, Invariance, PTL DEF Spec, ImplementsFifo, Fifo!Spec

=============================================================================
