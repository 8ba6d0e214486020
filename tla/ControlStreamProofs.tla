------------------------- MODULE ControlStreamProofs -------------------------
(***************************************************************************)
(* Proofs about ControlStream, for any calls of the application's own, any   *)
(* inbound CALLs and any events.                                            *)
(*                                                                          *)
(* While the connection is alive the label that the application stands at   *)
(* and the write that is under way determine what is out about the call in   *)
(* progress, and about one that is over its outcome does: that is CallTold   *)
(* and ServeTold, which say of every label more than the two stories do.     *)
(* Once the connection is lost nothing is written any more, so what was a    *)
(* beginning of the story stays one.                                         *)
(***************************************************************************)
EXTENDS ControlStream, SequenceTheorems, WellFoundedInduction, TLAPS

-----------------------------------------------------------------------------
(* The inductive invariant.                                                 *)

Subjects == OwnCalls \cup Inbound \cup {None}

\* What a frame is, and what it, or what a call returns, can say.
Types == {"sent", "call", "completed", "received", "replied", "reply", "publish", "started",
          "finished", "subscribe", "unsubscribe", "advertise", "goodbye"}
Says == {"", "none", "timeout", "failed", "completed", "replied", "result", "error",
         "unauthorized", "unknown_next_peer", "unknown_error", "temporary_relay_failure",
         "dropped"}

WireFrames == [type : Types, of : Subjects, says : Says, whole : BOOLEAN]

\* What the station sends.
StationFrames ==
  [type : {"response"}, of : OwnCalls, says : Responses \cup {"stray"}]
    \cup [type : {"call"}, of : Inbound, says : {""}]
    \cup [type : {"event"}, of : Events, says : {""}]

\* The types, the subject of every label, and the write that is under way.
WireInv ==
  /\ out \in Seq(WireFrames)
  /\ res \in [of : Subjects, says : Says]
  /\ answer \in [OwnCalls -> [of : Subjects, says : Says]]
  /\ task \in [Inbound -> {"none", "running", "ok", "err", "long_err", "panic"}]
  /\ served \in [Inbound -> {"none", "replied", "unsent", "timeout", "dropped"}]
  /\ fin \in BOOLEAN /\ up \in BOOLEAN /\ half \in BOOLEAN
  /\ dropped \subseteq 0..Len(out)
  /\ pc \in Labels
  /\ IF pc \in CallLabels THEN cur \in OwnCalls
     ELSE IF pc \in ServeLabels \ {"take"} THEN cur \in Inbound
     ELSE cur = None
  /\ half =>
       /\ pc \in (CallLabels \cup ServeLabels \cup OtherWrites) \ {"await", "take", "join"}
       /\ out # <<>>
       /\ ~out[Len(out)].whole
       /\ out[Len(out)].of = cur

\* What is in flight was sent, once.
QueueInv ==
  /\ inq \in Seq(StationFrames)
  /\ sent \subseteq StationFrames
  /\ \A p \in DOMAIN inq : inq[p] \in sent
  /\ \A p, q \in DOMAIN inq : inq[p] = inq[q] => p = q

\* The response that a call is about to return is its own.
AnswerInv ==
  /\ pc \in CallLabels => answer[cur] = NoResult
  /\ pc = "completed" => res.says \in Responses \cup {"timeout", "failed"}
  /\ pc = "completed" /\ res.says \in Responses =>
       res.of = cur /\ Frame("response", cur, res.says) \in sent
  /\ \A c \in OwnCalls :
       answer[c].says \in Responses \cup {"none", "timeout", "failed", "dropped"}

Rejected == Unauthorized \cup Unknown

\* An inbound CALL that has not been taken.
Fresh(i) ==
  \/ Frame("call", i, "") \notin sent
  \/ \E p \in DOMAIN inq : inq[p] = Frame("call", i, "")

\* What the reply to i says.
ReplyOf(i) ==
  IF i \in Unauthorized THEN "unauthorized"
  ELSE IF i \in Unknown THEN "unknown_next_peer"
  ELSE ReplyTo[task[i]]

\* Every inbound CALL goes its way once.
TakenInv ==
  /\ \A i \in Inbound :
       /\ Fresh(i) => served[i] = "none" /\ task[i] = "none" /\ cur # i
       /\ i \in Rejected => task[i] = "none"
       /\ served[i] = "replied" => task[i] # "running"
  /\ pc \in ServeLabels \ {"take"} => served[cur] = "none"
  /\ pc = "received" => cur \notin Rejected /\ task[cur] = "none"
  /\ pc = "join" => cur \notin Rejected /\ task[cur] # "none"
  /\ pc = "replied" =>
       cur \notin Rejected /\ task[cur] \in {"ok", "err"} /\ res.says = ReplyTo[task[cur]]
  /\ pc = "reply" =>
       /\ cur \notin Rejected => task[cur] \in {"ok", "err", "long_err", "panic"}
       /\ res.says = ReplyOf(cur)

\* The places where a frame that must be followed by another may be the last.
BracketInv ==
  up =>
    /\ Open("subscribe", "unsubscribe") =>
         \/ pc = "subscribe" /\ half
         \/ pc = "listen"
         \/ pc = "unsubscribe" /\ ~half
    /\ Open("started", "finished") =>
         \/ pc = "started" /\ half
         \/ pc = "publishing"
         \/ pc = "finished" /\ ~half
    /\ Open("sent", "completed") =>
         \/ pc = "sent" /\ half
         \/ pc \in {"call", "await"}
         \/ pc = "completed" /\ ~half

\* Where a frame is cut short, and how the inbound CALL that it is about ended.
CutInv ==
  up => \A p \in DOMAIN out :
          ~out[p].whole /\ ~(half /\ p = Len(out)) =>
            /\ \/ p \in dropped
               \/ out[p].of \in Inbound /\ served[out[p].of] = "timeout"
            /\ out[p].of \in Inbound => served[out[p].of] \in {"timeout", "dropped"}

\* The frames of a call of the application's own.
Sent == <<"sent", "">>
Called == <<"call", "">>
Completed(r) == <<"completed", CompletedFact(r)>>

\* What is out about a call before its last frame, and with it.
ToldUntil(st, r) == st = <<Sent, Called>> \/ (st = <<Sent>> /\ r.says = "failed")
Told(st, r) ==
  st = <<Sent, Called, Completed(r)>> \/ (st = <<Sent, Completed(r)>> /\ r.says = "failed")

\* What may be out about a call once the connection is lost.
CallBegun(st) ==
  \/ st \in {<<>>, <<Sent>>, <<Sent, Called>>}
  \/ \E f \in {"completed", "failed"} : st = <<Sent, Called, <<"completed", f>> >>
  \/ st = <<Sent, <<"completed", "failed">> >>

\* What is out about the call c while the connection is alive.
CallTold(c) ==
  /\ answer[c] # NoResult =>
       IF answer[c].says = "dropped" THEN CallBegun(Story(c)) ELSE Told(Story(c), answer[c])
  /\ answer[c] = NoResult /\ cur # c => Story(c) = <<>>
  /\ cur = c =>
       /\ pc = "sent" => Story(c) = IF half THEN <<Sent>> ELSE <<>>
       /\ pc = "call" => Story(c) = IF half THEN <<Sent, Called>> ELSE <<Sent>>
       /\ pc = "await" => Story(c) = <<Sent, Called>>
       /\ pc = "completed" =>
            IF half THEN Told(Story(c), res) ELSE ToldUntil(Story(c), res)

CallInv == \A c \in OwnCalls : IF up THEN CallTold(c) ELSE CallBegun(Story(c))

\* The frames of an inbound CALL.
Received == <<"received", "">>
Replied(i) == <<"replied", RepliedFact[task[i]]>>
Answered(i) == <<"reply", ReplyOf(i)>>

\* What is out about an inbound CALL before its reply.
Served(i) ==
  IF i \in Rejected THEN <<>>
  ELSE IF task[i] \in {"panic", "long_err"} THEN <<Received>>
  ELSE <<Received, Replied(i)>>

\* What may be out about i at all.
ServeBegun(i) ==
  \/ Story(i) = <<>>
  \/ i \notin Rejected /\ Story(i) = <<Received>>
  \/ i \notin Rejected /\ task[i] \in {"ok", "err"} /\ Story(i) = <<Received, Replied(i)>>
  \/ /\ i \in Rejected \/ task[i] \in {"ok", "err", "long_err", "panic"}
     /\ Story(i) = Append(Served(i), Answered(i))

\* What is out about the inbound CALL in progress while the connection is alive.
ServeTold(i) ==
  /\ pc = "received" => Story(i) = IF half THEN <<Received>> ELSE <<>>
  /\ pc = "join" => Story(i) = <<Received>>
  /\ pc = "replied" =>
       Story(i) = IF half THEN <<Received, Replied(i)>> ELSE <<Received>>
  /\ pc = "reply" =>
       Story(i) = IF half THEN Append(Served(i), Answered(i)) ELSE Served(i)

\* What is out about i once serve_one_call has returned Ok.
ServeOver(i) ==
  /\ i \in Rejected \/ task[i] \in {"ok", "err", "long_err", "panic"}
  /\ Story(i) = Append(Served(i), Answered(i))
  /\ \A p \in DOMAIN out : out[p].of = i => out[p].whole

ServeInv ==
  \A i \in Inbound :
    /\ ServeBegun(i)
    /\ Fresh(i) => Story(i) = <<>>
    /\ served[i] = "replied" => ServeOver(i)
    /\ up /\ cur = i => ServeTold(i)

IInv ==
  /\ WireInv /\ QueueInv /\ AnswerInv /\ OwnAnswer /\ TakenInv
  /\ CutInv /\ BracketInv /\ CallInv /\ ServeInv
-----------------------------------------------------------------------------
(* Helpers: the story under an append.                                      *)

\* Induction: a set with 0 and with the successor of each of its numbers has them all.
LEMMA Induction ==
  ASSUME NEW P, 0 \in P, \A n \in Nat : n \in P => n + 1 \in P
  PROVE  Nat \subseteq P
<1> SUFFICES ASSUME NEW x \in Nat, x \notin P
             PROVE  FALSE
  OBVIOUS
<1> DEFINE R == OpToRel(<, Nat)
           T == Nat \ P
<1>1. IsWellFoundedOn(R, Nat)
  BY NatLessThanWellFounded
<1>2. T \subseteq Nat /\ x \in T
  OBVIOUS
<1> HIDE DEF R, T
<1>3. PICK m \in T : \A k \in T : <<k, m>> \notin R
  BY <1>1, <1>2, WFMin
<1>4. \A k \in T : ~(k < m)
  BY <1>2, <1>3 DEF R, OpToRel
<1>5. m \in Nat \ {0} /\ m - 1 \in Nat /\ m = (m - 1) + 1 /\ m - 1 < m
  BY <1>3 DEF T
<1>6. m - 1 \in P
  BY <1>4, <1>5 DEF T
<1>7. QED BY <1>3, <1>5, <1>6 DEF T

\* One frame later, the story of x is st.
Longer(st, f, x) == IF f.of = x THEN Append(st, <<f.type, f.says>>) ELSE st

\* The recursion of Stories is over finitely many frames, so it defines a function.
LEMMA StoriesAre ==
  ASSUME NEW frames, Len(frames) \in Nat, NEW x
  PROVE  /\ Stories(frames, x)[0] = <<>>
         /\ \A n \in 1..Len(frames) :
              Stories(frames, x)[n] = Longer(Stories(frames, x)[n - 1], frames[n], x)
<1> DEFINE Upto(g, m) == /\ g = [k \in 0..m |-> g[k]]
                         /\ g[0] = <<>>
                         /\ \A k \in 1..m : g[k] = Longer(g[k - 1], frames[k], x)
           P == {m \in Nat : \E g : Upto(g, m)}
           n == Len(frames)
           Defines(g) == g = [k \in 0..n |-> IF k = 0 THEN <<>>
                                             ELSE Longer(g[k - 1], frames[k], x)]
<1>1. n \in Nat
  OBVIOUS
<1> HIDE DEF n
<1>2. 0 \in P
  <2>1. Upto([k \in 0..0 |-> <<>>], 0)
    OBVIOUS
  <2>2. QED BY <2>1
<1>3. ASSUME NEW m \in Nat, m \in P
      PROVE  m + 1 \in P
  <2>1. PICK g : Upto(g, m)
    BY <1>3
  <2> DEFINE f == [k \in 0..(m + 1) |-> IF k = m + 1 THEN Longer(g[m], frames[k], x) ELSE g[k]]
  <2>2. f = [k \in 0..(m + 1) |-> f[k]] /\ f[0] = <<>>
    BY <2>1
  <2>3. ASSUME NEW k \in 1..(m + 1)
        PROVE  f[k] = Longer(f[k - 1], frames[k], x)
    <3>1. k - 1 \in 0..(m + 1) /\ k - 1 # m + 1 /\ k \in 0..(m + 1)
      OBVIOUS
    <3>2. f[k - 1] = g[k - 1]
      BY <3>1
    <3>3. CASE k = m + 1
      <4>1. f[k] = Longer(g[m], frames[k], x) /\ k - 1 = m
        BY <3>1, <3>3
      <4>2. QED BY <3>2, <4>1
    <3>4. CASE k # m + 1
      <4>1. k \in 1..m /\ f[k] = g[k]
        BY <3>1, <3>4
      <4>2. QED BY <2>1, <3>2, <4>1
    <3>5. QED BY <3>3, <3>4
  <2>4. Upto(f, m + 1)
    <3> HIDE DEF f
    <3> QED BY <2>2, <2>3
  <2> HIDE DEF f, Upto
  <2>5. QED BY <2>4
<1>4. n \in P
  <2> HIDE DEF P
  <2> QED BY <1>1, <1>2, <1>3, Induction
<1>5. PICK g : Upto(g, n)
  BY <1>4
<1>6. Defines(g)
  <2>1. \A k \in 0..n : g[k] = IF k = 0 THEN <<>> ELSE Longer(g[k - 1], frames[k], x)
    BY <1>1, <1>5
  <2>2. QED BY <1>5, <2>1
<1>7. Stories(frames, x) = CHOOSE f : Defines(f)
  BY DEF Stories, Longer, n
<1>8. Defines(Stories(frames, x))
  <2> HIDE DEF Defines
  <2> QED BY <1>6, <1>7
<1>9. \A k \in 0..n : Stories(frames, x)[k] =
        IF k = 0 THEN <<>> ELSE Longer(Stories(frames, x)[k - 1], frames[k], x)
  <2> DEFINE f == Stories(frames, x)
  <2>1. f = [k \in 0..n |-> IF k = 0 THEN <<>> ELSE Longer(f[k - 1], frames[k], x)]
    BY <1>8
  <2> HIDE DEF f
  <2>2. \A k \in 0..n : f[k] = IF k = 0 THEN <<>> ELSE Longer(f[k - 1], frames[k], x)
    BY <2>1
  <2>3. QED BY <2>2 DEF f
<1>10. 0 \in 0..n /\ \A k \in 1..n : k \in 0..n /\ k # 0
  BY <1>1
<1>11. QED BY <1>9, <1>10 DEF n

\* Two sequences with the same frames up to m, whole or not, tell the same up to m.
LEMMA StoriesAgree ==
  ASSUME NEW old, Len(old) \in Nat, NEW new, Len(new) \in Nat, NEW x,
         NEW m \in 0..Len(old), m <= Len(new),
         \A k \in 1..m : /\ new[k].type = old[k].type
                         /\ new[k].of = old[k].of
                         /\ new[k].says = old[k].says
  PROVE  Stories(new, x)[m] = Stories(old, x)[m]
<1> DEFINE P == {k \in Nat : k <= m => Stories(new, x)[k] = Stories(old, x)[k]}
<1>1. 0 \in P
  BY StoriesAre
<1>2. ASSUME NEW k \in Nat, k \in P
      PROVE  k + 1 \in P
  <2> SUFFICES ASSUME k + 1 <= m
               PROVE  Stories(new, x)[k + 1] = Stories(old, x)[k + 1]
    OBVIOUS
  <2>1. k + 1 \in 1..m /\ k + 1 \in 1..Len(old) /\ k + 1 \in 1..Len(new) /\ (k + 1) - 1 = k
    OBVIOUS
  <2>2. Stories(new, x)[k] = Stories(old, x)[k]
    BY <1>2
  <2>3. /\ Stories(new, x)[k + 1] = Longer(Stories(new, x)[k], new[k + 1], x)
        /\ Stories(old, x)[k + 1] = Longer(Stories(old, x)[k], old[k + 1], x)
    <3> HIDE DEF P
    <3> QED BY <2>1, StoriesAre
  <2>4. QED BY <2>1, <2>2, <2>3 DEF Longer
<1>3. Nat \subseteq P
  <2> HIDE DEF P
  <2> QED BY <1>1, <1>2, Induction
<1>4. QED BY <1>3

-----------------------------------------------------------------------------
(* Helpers: what a step does to the wire.                                   *)

FramesToSend == [type : Types, of : Subjects, says : Says]

\* A frame whose write begins is the last, and the story of its subject is longer by it.
LEMMA BeginTells ==
  ASSUME out \in Seq(WireFrames), NEW f \in FramesToSend, Begin(f)
  PROVE  /\ out' \in Seq(WireFrames) /\ out' # <<>>
         /\ Len(out') = Len(out) + 1
         /\ \A p \in DOMAIN out : p \in DOMAIN out' /\ out'[p] = out[p]
         /\ out'[Len(out')] = [type |-> f.type, of |-> f.of, says |-> f.says, whole |-> FALSE]
         /\ \A x : Story(x)' = Longer(Story(x), f, x)
<1> DEFINE w == [type |-> f.type, of |-> f.of, says |-> f.says, whole |-> FALSE]
<1>1. w \in WireFrames
  BY DEF FramesToSend, WireFrames
<1>2. out' = Append(out, w)
  BY DEF Begin
<1> HIDE DEF w
<1>3. /\ out' \in Seq(WireFrames) /\ out' # <<>>
      /\ Len(out) \in Nat /\ Len(out') = Len(out) + 1
      /\ \A p \in 1..Len(out) : out'[p] = out[p]
      /\ out'[Len(out')] = w
  BY <1>1, <1>2
<1>4. DOMAIN out = 1..Len(out) /\ DOMAIN out' = 1..Len(out')
  BY <1>3
<1>5. ASSUME NEW x
      PROVE  Story(x)' = Longer(Story(x), f, x)
  <2> DEFINE m == Len(out)
  <2>1. m \in Nat /\ m \in 0..Len(out) /\ m + 1 = Len(out') /\ m <= Len(out')
        /\ m + 1 \in 1..Len(out') /\ (m + 1) - 1 = m
    BY <1>3
  <2>2. Stories(out', x)[m] = Stories(out, x)[m]
    <3>1. \A k \in 1..m : out'[k] = out[k]
      BY <1>3
    <3> HIDE DEF m
    <3>2. Len(out) \in Nat /\ Len(out') \in Nat
      BY <1>3
    <3>3. QED BY <2>1, <3>1, <3>2, StoriesAgree
  <2>3. Stories(out', x)[m + 1] = Longer(Stories(out', x)[m], out'[m + 1], x)
    <3> HIDE DEF m
    <3>1. Len(out') \in Nat
      BY <2>1
    <3>2. QED BY <2>1, <3>1, StoriesAre
  <2>4. Longer(Stories(out, x)[m], w, x) = Longer(Stories(out, x)[m], f, x)
    BY DEF Longer, w
  <2>5. Story(x)' = Stories(out', x)[Len(out')] /\ Story(x) = Stories(out, x)[m]
    BY DEF Story
  <2>6. QED BY <1>3, <2>1, <2>2, <2>3, <2>4, <2>5
<1>6. QED BY <1>3, <1>4, <1>5 DEF w

\* The end of a write marks the last frame and tells nothing new.
LEMMA WrittenTells ==
  ASSUME out \in Seq(WireFrames), out # <<>>, Written
  PROVE  /\ out' \in Seq(WireFrames) /\ out' # <<>>
         /\ Len(out') = Len(out) /\ DOMAIN out' = DOMAIN out
         /\ \A p \in DOMAIN out :
              /\ out'[p].type = out[p].type
              /\ out'[p].of = out[p].of
              /\ out'[p].whole = (out[p].whole \/ p = Len(out))
         /\ \A x : Story(x)' = Story(x)
<1> DEFINE n == Len(out)
<1>1. out' = [out EXCEPT ![n].whole = TRUE]
  BY DEF Written
<1>2. n \in Nat /\ n \in 1..n /\ DOMAIN out = 1..n /\ \A p \in 1..n : out[p] \in WireFrames
  BY EmptySeq
<1>3. DOMAIN out' = 1..n /\ \A p \in 1..n : out'[p] = IF p = n THEN [out[p] EXCEPT !.whole = TRUE]
                                                      ELSE out[p]
  BY <1>1, <1>2
<1>4. ASSUME NEW p \in 1..n
      PROVE  /\ out'[p] \in WireFrames
             /\ out'[p].type = out[p].type /\ out'[p].of = out[p].of
             /\ out'[p].says = out[p].says
             /\ out'[p].whole = (out[p].whole \/ p = n)
  BY <1>2, <1>3 DEF WireFrames
<1>5. out' \in Seq(WireFrames)
  <2>1. out' = [p \in 1..n |-> out'[p]]
    BY <1>1, <1>2
  <2>2. \A p \in 1..n : out'[p] \in WireFrames
    BY <1>4
  <2>3. out' \in [1..n -> WireFrames]
    BY <2>1, <2>2
  <2>4. QED BY <1>2, <2>3
<1>6. Len(out') = n /\ out' # <<>>
  BY <1>2, <1>3, <1>5
<1>7. ASSUME NEW x
      PROVE  Story(x)' = Story(x)
  <2>1. Len(out) \in Nat /\ Len(out') \in Nat /\ n \in 0..Len(out) /\ n <= Len(out')
    BY <1>2, <1>6
  <2>2. Stories(out', x)[n] = Stories(out, x)[n]
    <3> HIDE DEF n
    <3> QED BY <1>4, <2>1, StoriesAgree
  <2>3. QED BY <1>6, <2>2 DEF Story
<1>8. QED BY <1>2, <1>3, <1>4, <1>5, <1>6, <1>7

\* A step that writes nothing.
LEMMA SilenceTells ==
  ASSUME UNCHANGED out
  PROVE  \A x : Story(x)' = Story(x)
BY DEF Story

\* A frame of the second type closes what one of the first type opened.
LEMMA BeginOpens ==
  ASSUME out \in Seq(WireFrames), NEW f \in FramesToSend, Begin(f),
         NEW a, NEW b, a # b, Open(a, b)'
  PROVE  f.type # b /\ (f.type = a \/ Open(a, b))
<1>1. /\ \A p \in DOMAIN out : p \in DOMAIN out' /\ out'[p] = out[p]
      /\ Len(out) \in Nat /\ Len(out') = Len(out) + 1 /\ out'[Len(out')].type = f.type
      /\ DOMAIN out = 1..Len(out) /\ DOMAIN out' = 1..Len(out')
  <2>1. /\ out' \in Seq(WireFrames) /\ Len(out') = Len(out) + 1
        /\ \A p \in DOMAIN out : p \in DOMAIN out' /\ out'[p] = out[p]
        /\ out'[Len(out')] = [type |-> f.type, of |-> f.of, says |-> f.says, whole |-> FALSE]
    BY BeginTells
  <2>2. out'[Len(out')].type = f.type
    BY <2>1
  <2>3. /\ Len(out) \in Nat
        /\ DOMAIN out = 1..Len(out) /\ DOMAIN out' = 1..Len(out')
    BY <2>1
  <2>4. QED BY <2>1, <2>2, <2>3
<1>2. PICK p \in DOMAIN out' : /\ out'[p].type = a
                               /\ \A q \in DOMAIN out' : q > p => out'[q].type # b
                               /\ \A d \in dropped : d < p
  BY DEF Open, Begin
<1>3. CASE p = Len(out')
  <2>1. f.type = a
    BY <1>1, <1>2, <1>3
  <2>2. CASE f.type # b
    BY <2>1, <2>2
  <2>3. CASE f.type = b
    BY <2>1, <2>3
  <2>4. QED BY <2>2, <2>3
<1>4. CASE p # Len(out')
  <2>1. p \in DOMAIN out /\ Len(out') \in DOMAIN out' /\ Len(out') > p
    BY <1>1, <1>4
  <2>2. f.type # b
    BY <1>1, <1>2, <2>1
  <2>3. Open(a, b)
    BY <1>1, <1>2, <2>1 DEF Open
  <2>4. QED BY <2>2, <2>3
<1>5. QED BY <1>3, <1>4

\* Nothing else opens anything.
LEMMA OtherwiseNothingOpens ==
  ASSUME out \in Seq(WireFrames), out # <<>>, Written \/ UNCHANGED out,
         UNCHANGED dropped, NEW a, NEW b, Open(a, b)'
  PROVE  Open(a, b)
<1>1. CASE Written
  BY <1>1, WrittenTells DEF Open
<1>2. CASE UNCHANGED out
  BY <1>2 DEF Open
<1>3. QED BY <1>1, <1>2

-----------------------------------------------------------------------------
(* Helpers: the steps, by what they do to the wire.                         *)

\* The frame that is written at each label.
Writing(f) ==
  \/ pc = "sent" /\ f = Frame("sent", cur, "")
  \/ pc = "call" /\ f = Frame("call", cur, "")
  \/ pc = "completed" /\ f = Frame("completed", cur, CompletedFact(res))
  \/ pc = "received" /\ f = Frame("received", cur, "")
  \/ pc = "replied" /\ f = Frame("replied", cur, RepliedFact[task[cur]])
  \/ pc = "reply" /\ f = Frame("reply", cur, res.says)
  \/ pc \in {"publish", "publishing"} /\ f = Frame("publish", None, "")
  \/ pc = "started" /\ f = Frame("started", None, "")
  \/ pc = "finished" /\ f = Frame("finished", None, res.says)
  \/ pc \in {"subscribe", "unsubscribe", "advertise", "goodbye"} /\ f = Frame(pc, None, "")

\* The application begins to write.
Starts == \E f : Writing(f) /\ Start(pc, f)

\* It leaves a write of Session::call.
LeavesCall ==
  /\ \/ pc = "sent" /\ (Written \/ Broken) /\ Goto("call")
     \/ pc = "call" /\ Written /\ Goto("await")
     \/ pc = "call" /\ (Broken \/ Unencodable) /\ Outcome(Result(cur, "failed"))
     \/ /\ pc = "completed"
        /\ Written \/ Broken
        /\ Return
        /\ answer' = [answer EXCEPT ![cur] = res]
        /\ UNCHANGED <<served, task>>
  /\ UNCHANGED peerVars

\* It leaves a write of serve_one_call.
LeavesServe ==
  /\ \/ /\ pc = "received"
        /\ Written \/ Broken
        /\ pc' = "join"
        /\ task' = [task EXCEPT ![cur] = "running"]
        /\ UNCHANGED <<cur, res, answer, served>>
     \/ pc = "replied" /\ (Written \/ Broken) /\ Goto("reply")
     \/ pc = "reply" /\ Written /\ Serves("replied")
     \/ pc = "reply" /\ (Broken \/ Unencodable) /\ Serves("unsent")
     \/ /\ pc \in {"received", "replied", "reply"}
        /\ half' = FALSE /\ UNCHANGED <<out, dropped>>
        /\ Serves("timeout")
  /\ UNCHANGED peerVars

\* It leaves another write.
LeavesOther ==
  /\ \/ Written
     \/ Broken
     \/ /\ pc \in {"publish", "publishing", "started", "subscribe", "advertise", "goodbye"}
        /\ Unencodable
  /\ \/ pc \in {"publish", "finished", "unsubscribe"} /\ pc' = "idle"
     \/ pc = "started" /\ pc' = "publishing"
     \/ pc = "publishing" /\ pc' = "finished"
     \/ pc = "subscribe" /\ Written /\ pc' = "listen"
     \/ pc = "subscribe" /\ (Broken \/ Unencodable) /\ pc' = "idle"
     \/ pc = "advertise" /\ pc' = "tick"
     \/ pc = "goodbye" /\ pc' = "drain"
  /\ cur' = None
  /\ res' \in [of : Subjects, says : Says]
  /\ UNCHANGED <<peerVars, answer, served, task>>

\* The steps of the methods that write nothing.
QuietCall == (\E c \in OwnCalls : Call(c)) \/ AwaitResponse \/ AwaitFails \/ AwaitTimeout

QuietServe ==
  \/ Serve \/ Take \/ TakeFails \/ Join
  \/ pc = "take" /\ Goto("idle") /\ UNCHANGED <<peerVars, wireVars>>
  \/ pc = "join" /\ task[cur] = "running" /\ Serves("timeout") /\ UNCHANGED wireVars

QuietOther ==
  /\ \/ pc = "idle" /\ pc' \in {"publish", "started", "tick", "subscribe", "event", "goodbye"}
     \/ pc = "listen" /\ pc' \in {"listen", "unsubscribe"}
     \/ pc = "event" /\ pc' = "idle"
     \/ pc = "tick" /\ pc' \in {"idle", "advertise"}
     \/ pc = "drain" /\ pc' = "closed"
  /\ cur' = None
  /\ \/ UNCHANGED peerVars
     \/ Receive
     \/ pc' = "closed" /\ up' = FALSE /\ UNCHANGED <<inq, sent, fin>>
  /\ UNCHANGED <<wireVars, res, answer, served, task>>

\* What a label writes is a frame.
LEMMA WritingFrames ==
  ASSUME WireInv, TakenInv, NEW f, Writing(f)
  PROVE  f \in FramesToSend /\ f.of = cur
<1>1. cur \in Subjects /\ res.says \in Says
  BY DEF WireInv, Subjects
<1>2. CompletedFact(res) \in Says
  BY DEF CompletedFact, Says
<1>3. ASSUME pc = "replied"
      PROVE  RepliedFact[task[cur]] \in Says
  <2>1. task[cur] \in {"ok", "err"}
    BY <1>3 DEF TakenInv
  <2>2. RepliedFact["ok"] = "replied" /\ RepliedFact["err"] = "failed"
    BY DEF RepliedFact
  <2>3. QED BY <2>1, <2>2 DEF Says
<1>4. pc \notin CallLabels \cup (ServeLabels \ {"take"}) => cur = None
  BY DEF WireInv
<1>6. None \in Subjects
  BY DEF Subjects
<1>7. PICK t \in Types, x \in Subjects, s \in Says : f = Frame(t, x, s) /\ x = cur
  <2>1. "" \in Says
    BY DEF Says
  <2>2. QED
    BY <1>1, <1>2, <1>3, <1>4, <1>6, <2>1 DEF Writing, Types, CallLabels, ServeLabels
<1>8. QED BY <1>7 DEF Frame, FramesToSend

\* The steps of Session::call.
LEMMA CallingIs ==
  Calling => Starts \/ LeavesCall \/ QuietCall
<1>1. AnnounceSent => Starts \/ LeavesCall
  BY DEF AnnounceSent, Announce, Starts, Start, Writing, LeavesCall
<1>2. SendCall => Starts \/ LeavesCall
  BY DEF SendCall, Starts, Start, Writing, LeavesCall
<1>3. AnnounceCompleted => Starts \/ LeavesCall
  BY DEF AnnounceCompleted, Starts, Start, Writing, LeavesCall
<1>4. QED BY <1>1, <1>2, <1>3 DEF Calling, QuietCall

\* The steps of serve_one_call_gated, and its timeout.
LEMMA ServingIs ==
  Serve \/ Serving \/ ServeTimeout => Starts \/ LeavesServe \/ QuietServe
<1>1. AnnounceReceived => Starts \/ LeavesServe
  BY DEF AnnounceReceived, Starts, Start, Writing, LeavesServe
<1>2. AnnounceReplied => Starts \/ LeavesServe
  BY DEF AnnounceReplied, Announce, Starts, Start, Writing, LeavesServe
<1>3. Reply => Starts \/ LeavesServe
  <2>1. Start("reply", Frame("reply", cur, res.says)) => Starts
    BY DEF Starts, Start, Writing
  <2>2. pc = "reply" /\ Written /\ Serves("replied") => LeavesServe
    BY DEF LeavesServe, Serves
  <2>3. pc = "reply" /\ (Broken \/ Unencodable) /\ Serves("unsent") => LeavesServe
    BY DEF LeavesServe, Serves
  <2>4. QED BY <2>1, <2>2, <2>3 DEF Reply
<1>4. ServeTimeout => LeavesServe \/ QuietServe
  BY DEF ServeTimeout, LeavesServe, QuietServe, Serves
<1>5. QED BY <1>1, <1>2, <1>3, <1>4 DEF Serving, QuietServe

\* A method that is about no call has no call in progress.
LEMMA NoCall ==
  WireInv /\ pc \notin CallLabels \cup (ServeLabels \ {"take"}) => cur = None
BY DEF WireInv

\* The steps of publish, run_publisher and keep_advertised.
LEMMA PublisherIs ==
  ASSUME WireInv, Publisher
  PROVE  Starts \/ LeavesOther \/ QuietOther
<1>1. NoResult \in [of : Subjects, says : Says] /\ res \in [of : Subjects, says : Says]
  BY DEF WireInv, NoResult, Result, Subjects, Says
<1>2. Result(None, "completed") \in [of : Subjects, says : Says]
      /\ Result(None, "failed") \in [of : Subjects, says : Says]
  BY DEF Result, Subjects, Says
<1>3. pc \in {"idle", "publish", "started", "publishing", "finished", "tick", "advertise"} =>
        cur = None
  BY NoCall DEF CallLabels, ServeLabels
<1> USE DEF Start, Writing
<1>4. Publish \/ RunPublisher \/ KeepAdvertised => QuietOther
  BY <1>3 DEF Publish, RunPublisher, KeepAdvertised, Enter, QuietOther
<1>5. SendPublish => Starts \/ LeavesOther
  BY <1>1, <1>3 DEF SendPublish, AnnounceOwn, Announce, Goto, Starts, LeavesOther
<1>6. AnnounceStarted => Starts \/ LeavesOther
  BY <1>1, <1>3 DEF AnnounceStarted, AnnounceOwn, Announce, Goto, Starts, LeavesOther
<1>7. SendPublishing => Starts \/ LeavesOther
  BY <1>2, <1>3 DEF SendPublishing, Starts, LeavesOther
<1>8. AnnounceFinished => Starts \/ LeavesOther
  BY <1>1, <1>3 DEF AnnounceFinished, Return, Starts, LeavesOther
<1>9. Tick => QuietOther
  BY <1>3 DEF Tick, Goto, QuietOther
<1>10. Advertise => Starts \/ LeavesOther
  BY <1>1, <1>3 DEF Advertise, AnnounceOwn, Announce, Goto, Starts, LeavesOther
<1>11. QED
  BY <1>4, <1>5, <1>6, <1>7, <1>8, <1>9, <1>10 DEF Publisher

\* The steps of run_subscriber, recv_event and close.
LEMMA SubscriberIs ==
  ASSUME WireInv, Subscriber \/ Closing
  PROVE  Starts \/ LeavesOther \/ QuietOther
<1>1. res \in [of : Subjects, says : Says]
  BY DEF WireInv
<1>2. pc \in {"idle", "subscribe", "listen", "unsubscribe", "event", "goodbye", "drain"} =>
        cur = None
  BY NoCall DEF CallLabels, ServeLabels
<1> USE DEF Start, Writing
<1>3. RunSubscriber \/ RecvEvent \/ Close => QuietOther
  BY <1>2 DEF RunSubscriber, RecvEvent, Close, Enter, QuietOther
<1>4. Subscribe => Starts \/ LeavesOther
  BY <1>1, <1>2 DEF Subscribe, Goto, Starts, LeavesOther
<1>5. Listen \/ ListenEnds => QuietOther
  BY <1>2 DEF Listen, ListenEnds, Receive, Goto, appVars, QuietOther
<1>6. Unsubscribe => Starts \/ LeavesOther
  BY <1>1, <1>2 DEF Unsubscribe, Announce, Goto, Starts, LeavesOther
<1>7. TakeEvent => QuietOther
  BY <1>2 DEF TakeEvent, Receive, Goto, QuietOther
<1>8. Goodbye => Starts \/ LeavesOther
  BY <1>1, <1>2 DEF Goodbye, AnnounceOwn, Announce, Goto, Starts, LeavesOther
<1>9. CloseConnection => QuietOther
  BY <1>2 DEF CloseConnection, Goto, QuietOther
<1>10. QED
  BY <1>3, <1>4, <1>5, <1>6, <1>7, <1>8, <1>9 DEF Subscriber, Closing

\* Every step of the model is one of these.
LEMMA StepIs ==
  ASSUME WireInv, [Next]_vars
  PROVE  \/ Starts \/ LeavesCall \/ LeavesServe \/ LeavesOther
         \/ QuietCall \/ QuietServe \/ QuietOther
         \/ Abandon \/ Station \/ Handlers \/ UNCHANGED vars
<1>1. (\E c \in OwnCalls : Call(c)) => QuietCall
  BY DEF QuietCall
<1>2. QED
  BY <1>1, CallingIs, ServingIs, PublisherIs, SubscriberIs DEF Next

\* A step that leaves a write ends it, and tells nothing new.
LEMMA LeavesTells ==
  ASSUME WireInv, LeavesCall \/ LeavesServe \/ LeavesOther
  PROVE  /\ half' = FALSE /\ UNCHANGED <<dropped, peerVars>>
         /\ Written \/ UNCHANGED out
         /\ out' \in Seq(WireFrames) /\ DOMAIN out' = DOMAIN out /\ Len(out') = Len(out)
         /\ \A p \in DOMAIN out : /\ out'[p].type = out[p].type
                                  /\ out'[p].of = out[p].of
                                  /\ out[p].whole => out'[p].whole
         /\ \A x : Story(x)' = Story(x)
<1>1. half' = FALSE /\ UNCHANGED <<dropped, peerVars>> /\ (Written \/ UNCHANGED out)
  <2>1. half \in BOOLEAN
    BY DEF WireInv
  <2>2. Unencodable => half' = FALSE /\ UNCHANGED <<out, dropped>>
    BY <2>1 DEF Unencodable, wireVars
  <2>3. Broken => half' = FALSE /\ UNCHANGED <<out, dropped>>
    BY DEF Broken
  <2>4. Written => half' = FALSE /\ UNCHANGED dropped
    BY DEF Written
  <2>5. CASE LeavesCall
    BY <2>2, <2>3, <2>4, <2>5 DEF LeavesCall
  <2>6. CASE LeavesServe
    BY <2>2, <2>3, <2>4, <2>6 DEF LeavesServe
  <2>7. CASE LeavesOther
    BY <2>2, <2>3, <2>4, <2>7 DEF LeavesOther
  <2>8. QED BY <2>5, <2>6, <2>7
<1>2. CASE Written
  <2>1. out \in Seq(WireFrames) /\ out # <<>>
    BY <1>2 DEF WireInv, Written
  <2>2. QED BY <1>1, <1>2, <2>1, WrittenTells
<1>3. CASE UNCHANGED out
  BY <1>1, <1>3, SilenceTells DEF WireInv
<1>4. QED BY <1>1, <1>2, <1>3

\* The other steps leave the wire alone.
LEMMA QuietTells ==
  ASSUME QuietCall \/ QuietServe \/ QuietOther \/ Station \/ Handlers \/ UNCHANGED vars
  PROVE  UNCHANGED wireVars
<1>1. CASE QuietCall
  BY <1>1 DEF QuietCall, Call, Enter, AwaitResponse, AwaitFails, AwaitTimeout, Receive
<1>2. CASE QuietServe
  BY <1>2 DEF QuietServe, Serve, Enter, Take, TakeFails, Join, Receive
<1>3. CASE QuietOther
  BY <1>3 DEF QuietOther
<1>4. CASE Station
  BY <1>4 DEF Station, Respond, Stray, Route, Deliver, Sends, Finish, Die
<1>5. CASE Handlers
  BY <1>5 DEF Handlers, HandlerEnds
<1>6. CASE UNCHANGED vars
  BY <1>6 DEF vars
<1>7. QED BY <1>1, <1>2, <1>3, <1>4, <1>5, <1>6

\* The station and the handlers leave the application where it stands.
LEMMA OthersLeaveApplication ==
  ASSUME Station \/ Handlers \/ UNCHANGED vars
  PROVE  UNCHANGED <<pc, cur, res, answer, served>>
<1>1. CASE Station
  BY <1>1 DEF Station, Respond, Stray, Route, Deliver, Sends, Finish, Die, appVars
<1>2. CASE Handlers
  BY <1>2 DEF Handlers, HandlerEnds
<1>3. CASE UNCHANGED vars
  BY <1>3 DEF vars, appVars
<1>4. QED BY <1>1, <1>2, <1>3

\* A dropped future writes nothing, leaves the application idle or closed, and touches only the
\* call in progress.
LEMMA AbandonTells ==
  ASSUME Abandon
  PROVE  /\ UNCHANGED <<out, inq, sent, fin, task>> /\ half' = FALSE
         /\ UNCHANGED up \/ up' = FALSE
         /\ dropped' = dropped \cup {Len(out)}
         /\ pc' \in {"idle", "closed"} /\ cur' = None /\ res' = NoResult
         /\ answer' = [c \in OwnCalls |-> IF c = cur THEN Result(c, "dropped") ELSE answer[c]]
         /\ served' = [i \in Inbound |-> IF i = cur THEN "dropped" ELSE served[i]]
         /\ \A x : Story(x)' = Story(x)
<1>1. UNCHANGED out
  BY DEF Abandon
<1>2. QED BY <1>1, SilenceTells DEF Abandon, peerVars

-----------------------------------------------------------------------------
(* The wire.                                                                *)

\* Where the write under way is not looked at: types and the subject of the label.
Subject ==
  IF pc \in CallLabels THEN cur \in OwnCalls
  ELSE IF pc \in ServeLabels \ {"take"} THEN cur \in Inbound
  ELSE cur = None

AppTypes ==
  /\ res \in [of : Subjects, says : Says]
  /\ answer \in [OwnCalls -> [of : Subjects, says : Says]]
  /\ task \in [Inbound -> {"none", "running", "ok", "err", "long_err", "panic"}]
  /\ served \in [Inbound -> {"none", "replied", "unsent", "timeout", "dropped"}]
  /\ pc \in Labels
  /\ Subject

\* Types and labels hold before anything is sent (Session after its handshake).
LEMMA InitWire == Init => WireInv
<1> SUFFICES ASSUME Init
             PROVE  WireInv
  OBVIOUS
<1>1. out \in Seq(WireFrames)
  BY DEF Init
<1>2. NoResult \in [of : Subjects, says : Says]
  BY DEF NoResult, Result, Subjects, Says
<1>3. pc \in Labels /\ pc \notin CallLabels /\ pc \notin ServeLabels
  BY DEF Init, Labels, CallLabels, ServeLabels, OtherWrites
<1>4. QED BY <1>1, <1>2, <1>3 DEF Init, WireInv

\* A call moves within Session::call and returns.
LEMMA CallTypes ==
  ASSUME WireInv, QueueInv, LeavesCall \/ QuietCall
  PROVE  AppTypes'
<1>1. AppTypes
  BY DEF WireInv, AppTypes, Subject
<1>2. NoResult \in [of : Subjects, says : Says] /\ None \in Subjects /\ OwnCalls \subseteq Subjects
  BY DEF NoResult, Result, Subjects, Says
<1>3. \A c \in OwnCalls, says \in Says : Result(c, says) \in [of : Subjects, says : Says]
  BY DEF Result, Subjects
<1>4. "failed" \in Says /\ "timeout" \in Says /\ Responses \subseteq Says
  BY DEF Says, Responses
<1> USE DEF CallLabels, ServeLabels, Labels, OtherWrites
<1>5. CASE LeavesCall
  <2>1. pc \in CallLabels /\ cur \in OwnCalls
    BY <1>1, <1>5 DEF LeavesCall, AppTypes, Subject
  <2>2. Result(cur, "failed") \in [of : Subjects, says : Says]
    BY <1>3, <1>4, <2>1
  <2>3. QED
    BY <1>1, <1>2, <1>5, <2>1, <2>2 DEF LeavesCall, Goto, Outcome, Return, AppTypes, Subject
<1>6. CASE QuietCall
  <2>1. CASE \E c \in OwnCalls : Call(c)
    BY <1>1, <2>1 DEF Call, Enter, AppTypes, Subject
  <2>2. CASE AwaitResponse
    <3>1. cur \in OwnCalls
      BY <1>1, <2>2 DEF AwaitResponse, AppTypes, Subject
    <3>2. Matches(Head(inq)) =>
            Result(Head(inq).of, Head(inq).says) \in [of : Subjects, says : Says]
      BY <1>3, <1>4, <3>1 DEF Matches
    <3>3. QED
      BY <1>1, <2>2, <3>1, <3>2 DEF AwaitResponse, Outcome, AppTypes, Subject, appVars
  <2>3. CASE AwaitFails \/ AwaitTimeout
    <3>1. cur \in OwnCalls
      BY <1>1, <2>3 DEF AwaitFails, AwaitTimeout, AppTypes, Subject
    <3>2. QED
      BY <1>1, <1>3, <1>4, <2>3, <3>1 DEF AwaitFails, AwaitTimeout, Outcome, AppTypes, Subject
  <2>4. QED BY <1>6, <2>1, <2>2, <2>3 DEF QuietCall
<1>7. QED BY <1>5, <1>6

\* The frame that is received next.
LEMMA HeadIs ==
  ASSUME QueueInv, Receive
  PROVE  /\ Head(inq) \in StationFrames /\ Head(inq) = inq[1] /\ 1 \in DOMAIN inq
         /\ Head(inq) \in sent
         /\ Head(inq).type = "call" =>
              Head(inq).of \in Inbound /\ Head(inq) = Frame("call", Head(inq).of, "")
<1>1. inq # <<>> /\ inq \in Seq(StationFrames)
  BY DEF QueueInv, Receive
<1>2. Head(inq) \in StationFrames /\ Head(inq) = inq[1] /\ 1 \in DOMAIN inq
  BY <1>1
<1>3. Head(inq) \in sent
  BY <1>2 DEF QueueInv
<1>4. ASSUME Head(inq).type = "call"
      PROVE  Head(inq).of \in Inbound /\ Head(inq) = Frame("call", Head(inq).of, "")
  <2>1. Head(inq) \in [type : {"call"}, of : Inbound, says : {""}]
    BY <1>2, <1>4 DEF StationFrames
  <2>2. QED BY <2>1 DEF Frame
<1>5. QED BY <1>2, <1>3, <1>4

\* The reply of a handler is one that an answer can be.
LEMMA ReplyTos ==
  /\ ReplyTo["ok"] = "result"
  /\ ReplyTo["err"] = "unknown_error"
  /\ ReplyTo["long_err"] = "unknown_error"
  /\ ReplyTo["panic"] = "temporary_relay_failure"
  /\ RepliedFact["ok"] = "replied"
  /\ RepliedFact["err"] = "failed"
BY DEF ReplyTo, RepliedFact

\* serve_one_call takes a CALL, sees it through and returns.
LEMMA ServeTypes ==
  ASSUME WireInv, QueueInv, TakenInv, LeavesServe \/ QuietServe
  PROVE  AppTypes'
<1>1. AppTypes
  BY DEF WireInv, AppTypes, Subject
<1>2. NoResult \in [of : Subjects, says : Says]
  BY DEF NoResult, Result, Subjects, Says
<1>3. \A i \in Inbound, says \in Says : Result(i, says) \in [of : Subjects, says : Says]
  BY DEF Result, Subjects
<1> USE DEF CallLabels, ServeLabels, Labels, OtherWrites
<1>4. CASE LeavesServe
  <2>1. cur \in Inbound
    BY <1>1, <1>4 DEF LeavesServe, AppTypes, Subject
  <2>2. QED
    BY <1>1, <1>2, <1>4, <2>1 DEF LeavesServe, Goto, Serves, Return, AppTypes, Subject
<1>5. CASE QuietServe
  <2>1. CASE Serve
    BY <1>1, <2>1 DEF Serve, Enter, AppTypes, Subject
  <2>2. CASE Take
    <3>1. Receive /\ pc = "take" /\ UNCHANGED <<answer, served, task>>
      BY <2>2 DEF Take
    <3>2. CASE Head(inq).type = "call"
      <4> DEFINE i == Head(inq).of
      <4>1. i \in Inbound
        BY <3>1, <3>2, HeadIs
      <4>2. cur' = i /\ Dispatch(i)
        BY <2>2, <3>2 DEF Take
      <4> HIDE DEF i
      <4>3. pc' \in {"reply", "received"}
        BY <4>2 DEF Dispatch
      <4>4. res' \in [of : Subjects, says : Says]
        <5>1. "unauthorized" \in Says /\ "unknown_next_peer" \in Says
          BY DEF Says
        <5>2. \/ res' = Result(i, "unauthorized")
              \/ res' = Result(i, "unknown_next_peer")
              \/ res' = res
          BY <4>2 DEF Dispatch
        <5>3. QED BY <1>1, <1>3, <4>1, <5>1, <5>2 DEF AppTypes
      <4>5. QED BY <1>1, <3>1, <4>1, <4>2, <4>3, <4>4 DEF AppTypes, Subject
    <3>3. CASE Head(inq).type # "call"
      BY <1>1, <2>2, <3>1, <3>3 DEF Take, AppTypes, Subject
    <3>4. QED BY <3>2, <3>3
  <2>3. CASE TakeFails
    BY <1>1, <2>3 DEF TakeFails, Goto, AppTypes, Subject
  <2>4. CASE Join
    <3>1. pc = "join" /\ cur \in Inbound /\ task[cur] \in {"ok", "err", "long_err", "panic"}
      BY <1>1, <2>4 DEF Join, AppTypes, Subject, TakenInv
    <3>2. ReplyTo[task[cur]] \in Says
      BY <3>1, ReplyTos DEF Says
    <3>3. QED BY <1>1, <1>3, <2>4, <3>1, <3>2 DEF Join, AppTypes, Subject
  <2>5. CASE pc = "take" /\ Goto("idle") /\ UNCHANGED <<peerVars, wireVars>>
    BY <1>1, <2>5 DEF Goto, AppTypes, Subject
  <2>6. CASE pc = "join" /\ task[cur] = "running" /\ Serves("timeout") /\ UNCHANGED wireVars
    <3>1. cur \in Inbound
      BY <1>1, <2>6 DEF AppTypes, Subject
    <3>2. QED BY <1>1, <1>2, <2>6, <3>1 DEF Serves, Return, AppTypes, Subject
  <2>7. QED BY <1>5, <2>1, <2>2, <2>3, <2>4, <2>5, <2>6 DEF QuietServe
<1>6. QED BY <1>4, <1>5

\* The other methods.
LEMMA OtherTypes ==
  ASSUME WireInv, LeavesOther \/ QuietOther
  PROVE  AppTypes'
<1>1. AppTypes
  BY DEF WireInv, AppTypes, Subject
<1>2. pc' \in {"idle", "publish", "started", "tick", "subscribe", "event", "goodbye", "listen",
               "unsubscribe", "advertise", "closed", "publishing", "finished", "drain"}
      /\ cur' = None
  BY DEF LeavesOther, QuietOther
<1>3. /\ res' \in [of : Subjects, says : Says]
      /\ UNCHANGED <<answer, served, task>>
  BY <1>1 DEF LeavesOther, QuietOther, AppTypes
<1>4. QED
  BY <1>1, <1>2, <1>3 DEF AppTypes, Subject, CallLabels, ServeLabels, Labels, OtherWrites

\* What the station and handlers do.
LEMMA StationTypes ==
  ASSUME WireInv, Station \/ Handlers \/ UNCHANGED vars
  PROVE  AppTypes'
<1>1. AppTypes
  BY DEF WireInv, AppTypes, Subject
<1>2. UNCHANGED <<pc, cur, res, answer, served>>
  BY OthersLeaveApplication
<1>3. task' \in [Inbound -> {"none", "running", "ok", "err", "long_err", "panic"}]
  <2>1. CASE Station
    BY <1>1, <2>1 DEF Station, Respond, Stray, Route, Deliver, Sends, Finish, Die, appVars, AppTypes
  <2>2. CASE Handlers
    BY <1>1, <2>2 DEF Handlers, HandlerEnds, AppTypes
  <2>3. CASE UNCHANGED vars
    BY <1>1, <2>3 DEF vars, appVars, AppTypes
  <2>4. QED BY <2>1, <2>2, <2>3
<1>4. QED BY <1>1, <1>2, <1>3 DEF AppTypes, Subject

\* The peer's variables keep their types.
LEMMA PeerTypes ==
  ASSUME WireInv,
         \/ QuietCall \/ QuietServe \/ QuietOther
         \/ Station \/ Handlers \/ UNCHANGED vars
  PROVE  fin' \in BOOLEAN /\ up' \in BOOLEAN /\ (up' => up)
<1>1. fin \in BOOLEAN /\ up \in BOOLEAN
  BY DEF WireInv
<1> USE DEF peerVars
<1>2. CASE QuietCall
  BY <1>1, <1>2
  DEF QuietCall, Call, Enter, AwaitResponse, AwaitFails, AwaitTimeout, Receive
<1>3. CASE QuietServe
  BY <1>1, <1>3 DEF QuietServe, Serve, Enter, Take, TakeFails, Join, Receive, Serves
<1>4. CASE QuietOther
  <2>1. Receive => UNCHANGED <<fin, up>>
    BY DEF Receive
  <2>2. \/ UNCHANGED <<fin, up>>
        \/ up' = FALSE /\ UNCHANGED fin
    BY <1>4, <2>1 DEF QuietOther
  <2>3. CASE UNCHANGED <<fin, up>>
    BY <1>1, <2>3
  <2>4. CASE up' = FALSE /\ UNCHANGED fin
    BY <1>1, <2>4
  <2>5. QED BY <2>2, <2>3, <2>4
<1>5. CASE Station
  BY <1>1, <1>5 DEF Station, Respond, Stray, Route, Deliver, Sends, Finish, Die
<1>6. CASE Handlers \/ UNCHANGED vars
  BY <1>1, <1>6 DEF Handlers, HandlerEnds, vars
<1>7. QED BY <1>2, <1>3, <1>4, <1>5, <1>6

\* A label that writes nothing has no write under way.
LEMMA QuietMeansNoWrite ==
  ASSUME WireInv, QuietCall \/ QuietServe \/ QuietOther
  PROVE  ~half
<1>1. pc \in {"idle", "await", "take", "join", "listen", "event", "tick", "drain"}
  <2>1. QuietCall => pc \in {"idle", "await"}
    BY DEF QuietCall, Call, Enter, AwaitResponse, AwaitFails, AwaitTimeout
  <2>2. QuietServe => pc \in {"idle", "take", "join"}
    BY DEF QuietServe, Serve, Enter, Take, TakeFails, Join
  <2>3. QuietOther => pc \in {"idle", "listen", "event", "tick", "drain"}
    BY DEF QuietOther
  <2>4. QED BY <2>1, <2>2, <2>3
<1>2. QED
  BY <1>1 DEF WireInv, CallLabels, ServeLabels, OtherWrites

\* What a Start leaves alone, and what it writes.
LEMMA StartsTells ==
  ASSUME WireInv, TakenInv, Starts
  PROVE  /\ up /\ ~half /\ half' = TRUE /\ UNCHANGED <<peerVars, appVars>>
         /\ \E f \in FramesToSend : Writing(f) /\ f.of = cur /\ Begin(f)
<1>1. PICK f : Writing(f) /\ Start(pc, f)
  BY DEF Starts
<1>2. f \in FramesToSend /\ f.of = cur
  BY <1>1, WritingFrames
<1>3. QED BY <1>1, <1>2 DEF Start, Begin

\* Types, subjects and the write under way (src/connection.rs, every method).
LEMMA WireStep ==
  ASSUME WireInv, QueueInv, TakenInv, [Next]_vars
  PROVE  WireInv'
<1>1. /\ AppTypes /\ out \in Seq(WireFrames) /\ fin \in BOOLEAN /\ up \in BOOLEAN
      /\ half \in BOOLEAN /\ dropped \subseteq 0..Len(out)
  BY DEF WireInv, AppTypes, Subject
<1>2. ASSUME AppTypes', out' \in Seq(WireFrames), fin' \in BOOLEAN, up' \in BOOLEAN,
             half' \in BOOLEAN, dropped' \subseteq 0..Len(out'),
             half' => /\ pc' \in (CallLabels \cup ServeLabels \cup OtherWrites)
                                   \ {"await", "take", "join"}
                      /\ out' # <<>>
                      /\ ~out'[Len(out')].whole
                      /\ out'[Len(out')].of = cur'
      PROVE  WireInv'
  BY <1>2 DEF WireInv, AppTypes, Subject
<1>3. CASE Starts
  <2>1. /\ half' = TRUE /\ UNCHANGED <<peerVars, appVars>>
        /\ \E f \in FramesToSend : Writing(f) /\ f.of = cur /\ Begin(f)
    BY <1>3, StartsTells
  <2>2. PICK f \in FramesToSend : Writing(f) /\ f.of = cur /\ Begin(f)
    BY <2>1
  <2>3. /\ out' \in Seq(WireFrames) /\ out' # <<>>
        /\ out'[Len(out')] = [type |-> f.type, of |-> f.of, says |-> f.says, whole |-> FALSE]
        /\ Len(out') = Len(out) + 1
    BY <1>1, <2>2, BeginTells
  <2>4. ~out'[Len(out')].whole /\ out'[Len(out')].of = cur
    BY <2>2, <2>3
  <2>5. UNCHANGED <<pc, cur, res, answer, served, task, fin, up>>
    BY <2>1 DEF peerVars, appVars
  <2>6. AppTypes'
    BY <1>1, <2>5 DEF AppTypes, Subject
  <2>7. pc \in (CallLabels \cup ServeLabels \cup OtherWrites) \ {"await", "take", "join"}
    BY <2>2 DEF Writing, CallLabels, ServeLabels, OtherWrites
  <2>8. dropped' \subseteq 0..Len(out')
    <3>1. UNCHANGED dropped /\ Len(out) \in Nat
      BY <1>1, <2>2 DEF Begin
    <3>2. QED BY <1>1, <2>3, <3>1
  <2>9. QED BY <1>1, <1>2, <2>1, <2>3, <2>4, <2>5, <2>6, <2>7, <2>8
<1>4. CASE LeavesCall \/ LeavesServe \/ LeavesOther
  <2>1. /\ half' = FALSE /\ UNCHANGED <<dropped, peerVars>> /\ out' \in Seq(WireFrames)
        /\ Len(out') = Len(out)
    BY <1>4, LeavesTells
  <2>2. AppTypes'
    BY <1>4, CallTypes, ServeTypes, OtherTypes
  <2>3. QED BY <1>1, <1>2, <2>1, <2>2 DEF peerVars
<1>5. CASE QuietCall \/ QuietServe \/ QuietOther
  <2>1. UNCHANGED <<out, half, dropped>>
    BY <1>5, QuietTells DEF wireVars
  <2>2. AppTypes'
    BY <1>5, CallTypes, ServeTypes, OtherTypes
  <2>3. fin' \in BOOLEAN /\ up' \in BOOLEAN
    BY <1>5, PeerTypes
  <2>4. ~half
    BY <1>5, QuietMeansNoWrite
  <2>5. QED BY <1>1, <1>2, <2>1, <2>2, <2>3, <2>4
<1>6. CASE Station \/ Handlers \/ UNCHANGED vars
  <2>1. UNCHANGED <<out, half, dropped>>
    BY <1>6, QuietTells DEF wireVars
  <2>2. AppTypes'
    BY <1>6, StationTypes
  <2>3. fin' \in BOOLEAN /\ up' \in BOOLEAN
    BY <1>6, PeerTypes
  <2>4. UNCHANGED <<pc, cur>>
    BY <1>6, OthersLeaveApplication
  <2>5. QED BY <1>1, <1>2, <2>1, <2>2, <2>3, <2>4 DEF WireInv
<1>7. CASE Abandon
  <2>1. NoResult \in [of : Subjects, says : Says] /\ None \in Subjects
    BY DEF NoResult, Result, Subjects, Says
  <2>2. \A c \in OwnCalls : Result(c, "dropped") \in [of : Subjects, says : Says]
    BY DEF Result, Subjects, Says
  <2>3. /\ UNCHANGED <<out, fin, task>> /\ half' = FALSE
        /\ UNCHANGED up \/ up' = FALSE
        /\ dropped' = dropped \cup {Len(out)}
        /\ pc' \in {"idle", "closed"} /\ cur' = None /\ res' = NoResult
        /\ answer' = [c \in OwnCalls |-> IF c = cur THEN Result(c, "dropped") ELSE answer[c]]
        /\ served' = [i \in Inbound |-> IF i = cur THEN "dropped" ELSE served[i]]
    BY <1>7, AbandonTells
  <2>4. answer' \in [OwnCalls -> [of : Subjects, says : Says]]
    BY <1>1, <2>2, <2>3 DEF AppTypes
  <2>5. served' \in [Inbound -> {"none", "replied", "unsent", "timeout", "dropped"}]
    BY <1>1, <2>3 DEF AppTypes
  <2>6. pc' \in Labels /\ Subject'
    BY <2>3 DEF Subject, Labels, CallLabels, ServeLabels
  <2>7. dropped' \subseteq 0..Len(out')
    <3>1. Len(out) \in Nat /\ Len(out') = Len(out) /\ dropped' = dropped \cup {Len(out)}
      BY <1>1, <2>3
    <3>2. dropped \subseteq 0..Len(out) /\ Len(out) \in 0..Len(out)
      BY <1>1, <3>1
    <3>3. QED BY <3>1, <3>2
  <2>8. AppTypes'
    BY <1>1, <2>1, <2>3, <2>4, <2>5, <2>6 DEF AppTypes
  <2>9. QED BY <1>1, <1>2, <2>3, <2>7, <2>8
<1>8. QED BY <1>3, <1>4, <1>5, <1>6, <1>7, StepIs

-----------------------------------------------------------------------------
(* What is in flight.                                                       *)

\* The station sends f, which it has not sent before.
Sending(f) == f \notin sent /\ sent' = sent \cup {f} /\ inq' = Append(inq, f)

\* What a step does to the frames of the station.
LEMMA InqMoves ==
  ASSUME [Next]_vars, WireInv, TakenInv
  PROVE  \/ UNCHANGED <<inq, sent>>
         \/ Receive
         \/ Station /\ \E f \in StationFrames : Sending(f)
<1>1. CASE Starts
  <2>1. UNCHANGED peerVars
    BY <1>1, StartsTells
  <2>2. QED BY <2>1 DEF peerVars
<1>2. CASE LeavesCall \/ LeavesServe \/ LeavesOther
  <2>1. UNCHANGED peerVars
    BY <1>2, LeavesTells
  <2>2. QED BY <2>1 DEF peerVars
<1>3. CASE QuietCall
  BY <1>3 DEF QuietCall, Call, Enter, AwaitResponse, AwaitFails, AwaitTimeout, peerVars
<1>4. CASE QuietServe
  BY <1>4 DEF QuietServe, Serve, Enter, Take, TakeFails, Join, Serves, peerVars
<1>5. CASE QuietOther
  BY <1>5 DEF QuietOther, peerVars
<1>6. CASE Station
  <2>1. \A f : Sends(f) => Sending(f)
    BY DEF Sends, Sending
  <2>2. ASSUME NEW c \in OwnCalls, NEW says \in Responses \cup {"stray"}
        PROVE  Frame("response", c, says) \in StationFrames
    BY DEF Frame, StationFrames
  <2>3. ASSUME NEW i \in Inbound
        PROVE  Frame("call", i, "") \in StationFrames
    BY DEF Frame, StationFrames
  <2>4. ASSUME NEW e \in Events
        PROVE  Frame("event", e, "") \in StationFrames
    BY DEF Frame, StationFrames
  <2>5. ASSUME NEW c \in OwnCalls, NEW says \in Responses, Respond(c, says)
        PROVE  \E f \in StationFrames : Sending(f)
    BY <2>1, <2>2, <2>5 DEF Respond
  <2>6. ASSUME NEW c \in OwnCalls, Stray(c)
        PROVE  \E f \in StationFrames : Sending(f)
    BY <2>1, <2>2, <2>6 DEF Stray
  <2>7. (\E i \in Inbound : Route(i)) => \E f \in StationFrames : Sending(f)
    BY <2>1, <2>3 DEF Route
  <2>8. (\E e \in Events : Deliver(e)) => \E f \in StationFrames : Sending(f)
    BY <2>1, <2>4 DEF Deliver
  <2>9. Finish \/ Die => UNCHANGED <<inq, sent>>
    BY DEF Finish, Die
  <2>10. QED BY <1>6, <2>5, <2>6, <2>7, <2>8, <2>9 DEF Station
<1>7. CASE Handlers \/ UNCHANGED vars
  BY <1>7 DEF Handlers, HandlerEnds, vars, peerVars
<1>8. CASE Abandon
  BY <1>8, AbandonTells
<1>9. QED BY <1>1, <1>2, <1>3, <1>4, <1>5, <1>6, <1>7, <1>8, StepIs

\* A frame that was received is in flight no more, the others still are.
LEMMA ReceiveTakes ==
  ASSUME QueueInv, Receive
  PROVE  /\ inq' \in Seq(StationFrames) /\ UNCHANGED sent
         /\ \A p \in DOMAIN inq' : p + 1 \in DOMAIN inq /\ inq'[p] = inq[p + 1]
         /\ \A p \in DOMAIN inq' : inq'[p] # Head(inq)
<1>1. inq \in Seq(StationFrames) /\ inq # <<>> /\ inq' = Tail(inq) /\ UNCHANGED sent
  BY DEF QueueInv, Receive
<1>2. /\ inq' \in Seq(StationFrames)
      /\ Len(inq) \in Nat /\ Len(inq') = Len(inq) - 1
      /\ \A p \in 1..Len(inq') : inq'[p] = inq[p + 1]
      /\ Head(inq) = inq[1]
  BY <1>1
<1>3. DOMAIN inq = 1..Len(inq) /\ DOMAIN inq' = 1..Len(inq')
  BY <1>1, <1>2
<1>4. ASSUME NEW p \in DOMAIN inq'
      PROVE  p + 1 \in DOMAIN inq /\ p + 1 # 1 /\ 1 \in DOMAIN inq /\ inq'[p] = inq[p + 1]
  BY <1>2, <1>3
<1>5. \A p, q \in DOMAIN inq : inq[p] = inq[q] => p = q
  BY DEF QueueInv
<1>6. QED BY <1>1, <1>2, <1>4, <1>5

\* What the station sends comes last.
LEMMA SendingAdds ==
  ASSUME QueueInv, NEW f \in StationFrames, Sending(f)
  PROVE  /\ inq' \in Seq(StationFrames) /\ sent' = sent \cup {f}
         /\ \A p \in DOMAIN inq : p \in DOMAIN inq' /\ inq'[p] = inq[p]
         /\ \A p \in DOMAIN inq' : (p \in DOMAIN inq /\ inq'[p] = inq[p])
                                     \/ (p = Len(inq') /\ inq'[p] = f)
         /\ f \notin sent /\ \A p \in DOMAIN inq : inq[p] # f
<1>1. inq \in Seq(StationFrames) /\ inq' = Append(inq, f) /\ sent' = sent \cup {f} /\ f \notin sent
  BY DEF QueueInv, Sending
<1>2. /\ inq' \in Seq(StationFrames)
      /\ Len(inq) \in Nat /\ Len(inq') = Len(inq) + 1
      /\ \A p \in 1..Len(inq) : inq'[p] = inq[p]
      /\ inq'[Len(inq')] = f
  BY <1>1
<1>3. DOMAIN inq = 1..Len(inq) /\ DOMAIN inq' = 1..Len(inq')
  BY <1>1, <1>2
<1>4. \A p \in DOMAIN inq : inq[p] # f
  BY <1>1 DEF QueueInv
<1>5. \A p \in DOMAIN inq' : p \in DOMAIN inq \/ p = Len(inq')
  BY <1>2, <1>3
<1>6. QED BY <1>1, <1>2, <1>3, <1>4, <1>5

\* What is in flight was sent, once (the station's side of FrameStream).
LEMMA QueueStep ==
  ASSUME WireInv, TakenInv, QueueInv, [Next]_vars
  PROVE  QueueInv'
<1>1. CASE UNCHANGED <<inq, sent>>
  BY <1>1 DEF QueueInv
<1>2. CASE Receive
  <2>1. /\ inq' \in Seq(StationFrames) /\ UNCHANGED sent
        /\ \A p \in DOMAIN inq' : p + 1 \in DOMAIN inq /\ inq'[p] = inq[p + 1]
    BY <1>2, ReceiveTakes
  <2>2. DOMAIN inq' \subseteq Nat
    BY <2>1
  <2>3. ASSUME NEW p \in DOMAIN inq', NEW q \in DOMAIN inq', inq'[p] = inq'[q]
        PROVE  p = q
    <3>1. inq[p + 1] = inq[q + 1] /\ p + 1 \in DOMAIN inq /\ q + 1 \in DOMAIN inq
      BY <2>1, <2>3
    <3>2. p + 1 = q + 1
      BY <3>1 DEF QueueInv
    <3>3. QED BY <2>2, <3>2
  <2>4. QED BY <2>1, <2>3 DEF QueueInv
<1>3. ASSUME NEW f \in StationFrames, Sending(f)
      PROVE  QueueInv'
  <2>1. /\ inq' \in Seq(StationFrames) /\ sent' = sent \cup {f}
        /\ \A p \in DOMAIN inq' : (p \in DOMAIN inq /\ inq'[p] = inq[p])
                                    \/ (p = Len(inq') /\ inq'[p] = f)
        /\ \A p \in DOMAIN inq : inq[p] # f
    BY <1>3, SendingAdds
  <2>2. QED BY <2>1 DEF QueueInv
<1>4. QED BY <1>1, <1>2, <1>3, InqMoves

\* The station takes nothing back.
LEMMA SentGrows ==
  ASSUME WireInv, TakenInv, QueueInv, [Next]_vars
  PROVE  sent \subseteq sent'
<1>1. Receive => UNCHANGED sent
  BY DEF Receive
<1>2. QED BY <1>1, InqMoves DEF Sending

-----------------------------------------------------------------------------
(* The answer of a call.                                                    *)

\* No call has returned anything yet.
LEMMA InitAnswer == Init => AnswerInv /\ OwnAnswer
BY DEF Init, AnswerInv, OwnAnswer, NoResult, Result, Responses, CallLabels

\* A step outside of Session::call returns nothing from one.
LEMMA AnswerKept ==
  ASSUME AnswerInv, OwnAnswer, sent \subseteq sent', UNCHANGED answer,
         pc' \notin CallLabels \/ UNCHANGED <<pc, cur, res>>
  PROVE  AnswerInv' /\ OwnAnswer'
<1>1. OwnAnswer'
  BY DEF OwnAnswer
<1>2. \A c \in OwnCalls : answer'[c].says \in Responses \cup {"none", "timeout", "failed", "dropped"}
  BY DEF AnswerInv
<1>3. CASE pc' \notin CallLabels
  BY <1>1, <1>2, <1>3 DEF AnswerInv, CallLabels
<1>4. CASE UNCHANGED <<pc, cur, res>>
  BY <1>1, <1>2, <1>4 DEF AnswerInv
<1>5. QED BY <1>3, <1>4

\* A call that returns a response returns its own (await_call_response).
LEMMA AnswerStep ==
  ASSUME WireInv, TakenInv, QueueInv, AnswerInv, OwnAnswer, [Next]_vars
  PROVE  AnswerInv' /\ OwnAnswer'
<1>1. sent \subseteq sent'
  BY SentGrows
<1> USE DEF CallLabels
<1>2. CASE Starts
  <2>1. UNCHANGED <<pc, cur, res, answer>>
    BY <1>2, StartsTells DEF appVars
  <2>2. QED BY <1>1, <2>1, AnswerKept
<1>3. CASE LeavesCall
  <2>1. pc \in CallLabels /\ cur \in OwnCalls
    BY <1>3 DEF LeavesCall, WireInv
  <2>2. UNCHANGED sent
    BY <1>3 DEF LeavesCall, peerVars
  <2>3. CASE pc = "sent" /\ Goto("call")
    BY <2>2, <2>3 DEF Goto, AnswerInv, OwnAnswer
  <2>4. CASE pc = "call" /\ Goto("await")
    BY <2>2, <2>4 DEF Goto, AnswerInv, OwnAnswer
  <2>5. CASE pc = "call" /\ Outcome(Result(cur, "failed"))
    <3>1. res'.says = "failed" /\ "failed" \notin Responses
      BY <2>5 DEF Outcome, Result, Responses
    <3>2. QED BY <2>2, <2>5, <3>1 DEF Outcome, AnswerInv, OwnAnswer
  <2>6. CASE pc = "completed" /\ Return /\ answer' = [answer EXCEPT ![cur] = res]
    <3>1. pc' = "idle"
      BY <2>6 DEF Return
    <3>2. \A c \in OwnCalls : answer'[c] = IF c = cur THEN res ELSE answer[c]
      BY <2>6 DEF WireInv
    <3>3. res.says \in Responses => res.of = cur /\ Frame("response", cur, res.says) \in sent
      BY <2>6 DEF AnswerInv
    <3>4. OwnAnswer'
      BY <2>2, <3>2, <3>3 DEF OwnAnswer
    <3>5. \A c \in OwnCalls : answer'[c].says \in Responses \cup {"none", "timeout", "failed", "dropped"}
      BY <2>6, <3>2 DEF AnswerInv
    <3>6. QED BY <3>1, <3>4, <3>5 DEF AnswerInv
  <2>7. QED BY <1>3, <2>3, <2>4, <2>5, <2>6 DEF LeavesCall
<1>4. CASE LeavesServe
  <2>1. pc' \in {"join", "reply", "idle"} /\ UNCHANGED answer
    BY <1>4 DEF LeavesServe, Goto, Serves, Return
  <2>2. QED BY <1>1, <2>1, AnswerKept
<1>5. CASE LeavesOther
  <2>1. pc' \notin CallLabels /\ UNCHANGED answer
    BY <1>5 DEF LeavesOther
  <2>2. QED BY <1>1, <2>1, AnswerKept
<1>6. CASE QuietCall
  <2>1. ASSUME NEW c \in OwnCalls, Call(c)
        PROVE  AnswerInv' /\ OwnAnswer'
    BY <1>1, <2>1 DEF Call, Enter, AnswerInv, OwnAnswer
  <2>2. CASE AwaitResponse
    <3>1. pc = "await" /\ Receive /\ cur \in OwnCalls
      BY <2>2 DEF AwaitResponse, WireInv
    <3>2. CASE Matches(Head(inq))
      <4> DEFINE f == Head(inq)
      <4>1. f \in StationFrames /\ f \in sent
        BY <3>1, HeadIs
      <4>2. f.of = cur /\ f.says \in Responses
        BY <3>2 DEF Matches
      <4>3. f \in [type : {"response"}, of : OwnCalls, says : Responses \cup {"stray"}]
        BY <4>1, <4>2 DEF StationFrames, Responses
      <4>4. f = Frame("response", cur, f.says)
        BY <4>2, <4>3 DEF Frame
      <4>5. pc' = "completed" /\ res' = Result(f.of, f.says) /\ UNCHANGED <<cur, answer>>
        BY <2>2, <3>2 DEF AwaitResponse, Outcome
      <4> HIDE DEF f
      <4>6. res'.of = cur /\ res'.says = f.says
        BY <4>2, <4>5 DEF Result
      <4>7. Frame("response", cur, f.says) \in sent'
        BY <1>1, <4>1, <4>4
      <4>8. answer[cur] = NoResult
        BY <3>1 DEF AnswerInv
      <4>9. OwnAnswer'
        BY <1>1, <4>5 DEF OwnAnswer
      <4>10. QED BY <4>2, <4>5, <4>6, <4>7, <4>8, <4>9 DEF AnswerInv
    <3>3. CASE ~Matches(Head(inq))
      <4>1. UNCHANGED <<pc, cur, res, answer>>
        BY <2>2, <3>3 DEF AwaitResponse, appVars
      <4>2. QED BY <1>1, <4>1, AnswerKept
    <3>4. QED BY <3>2, <3>3
  <2>3. CASE AwaitFails \/ AwaitTimeout
    <3>1. /\ pc = "await" /\ pc' = "completed" /\ UNCHANGED <<cur, answer>>
          /\ res'.says \in {"failed", "timeout"}
      BY <2>3 DEF AwaitFails, AwaitTimeout, Outcome, Result
    <3>2. answer[cur] = NoResult
      BY <3>1 DEF AnswerInv
    <3>3. OwnAnswer'
      BY <1>1, <3>1 DEF OwnAnswer
    <3>4. QED BY <3>1, <3>2, <3>3 DEF AnswerInv, Responses
  <2>4. QED BY <1>6, <2>1, <2>2, <2>3 DEF QuietCall
<1>7. CASE QuietServe
  <2>1. CASE Take
    <3>1. (pc' \in {"reply", "received"} \/ UNCHANGED <<pc, cur, res>>) /\ UNCHANGED answer
      BY <2>1 DEF Take, Dispatch
    <3>2. QED BY <1>1, <3>1, AnswerKept
  <2>2. CASE ~Take
    <3>1. pc' \in {"take", "idle", "reply", "replied"} /\ UNCHANGED answer
      BY <1>7, <2>2 DEF QuietServe, Serve, Enter, TakeFails, Join, Goto, Serves, Return
    <3>2. QED BY <1>1, <3>1, AnswerKept
  <2>3. QED BY <2>1, <2>2
<1>8. CASE QuietOther
  <2>1. pc' \notin CallLabels /\ UNCHANGED answer
    BY <1>8 DEF QuietOther
  <2>2. QED BY <1>1, <2>1, AnswerKept
<1>9. CASE Station \/ Handlers \/ UNCHANGED vars
  <2>1. UNCHANGED <<pc, cur, res, answer>>
    BY <1>9, OthersLeaveApplication
  <2>2. QED BY <1>1, <2>1, AnswerKept
<1>10. CASE Abandon
  <2>1. /\ pc' \notin CallLabels
        /\ \A c \in OwnCalls : answer'[c] = IF c = cur THEN Result(c, "dropped") ELSE answer[c]
    BY <1>10, AbandonTells
  <2>2. \A c \in OwnCalls : Result(c, "dropped").says = "dropped"
    BY DEF Result
  <2>3. \A c \in OwnCalls : answer'[c].says \in Responses => answer'[c] = answer[c]
    BY <2>1, <2>2 DEF Responses
  <2>4. OwnAnswer'
    BY <1>1, <2>3 DEF OwnAnswer
  <2>5. \A c \in OwnCalls :
          answer'[c].says \in Responses \cup {"none", "timeout", "failed", "dropped"}
    BY <2>1, <2>2 DEF AnswerInv
  <2>6. QED BY <2>1, <2>4, <2>5 DEF AnswerInv
<1>11. QED BY <1>2, <1>3, <1>4, <1>5, <1>6, <1>7, <1>8, <1>9, <1>10, StepIs

-----------------------------------------------------------------------------
(* Inbound CALLs are taken once.                                            *)

\* A CALL that has been taken is not taken again.
LEMMA FreshShrinks ==
  ASSUME WireInv, TakenInv, QueueInv, [Next]_vars, NEW i \in Inbound, Fresh(i)'
  PROVE  Fresh(i)
<1> DEFINE f == Frame("call", i, "")
<1>1. f' = f
  BY DEF Frame
<1>2. CASE UNCHANGED <<inq, sent>>
  BY <1>2 DEF Fresh, Frame
<1>3. CASE Receive
  <2>1. UNCHANGED sent /\ \A p \in DOMAIN inq' : p + 1 \in DOMAIN inq /\ inq'[p] = inq[p + 1]
    BY <1>3, ReceiveTakes
  <2>2. f \notin sent \/ \E p \in DOMAIN inq' : inq'[p] = f
    BY <2>1 DEF Fresh, Frame
  <2> HIDE DEF f
  <2>3. f \notin sent \/ \E p \in DOMAIN inq : inq[p] = f
    BY <2>1, <2>2
  <2>4. QED BY <2>3 DEF Fresh, f
<1>4. ASSUME NEW g \in StationFrames, Sending(g)
      PROVE  Fresh(i)
  <2>1. /\ sent' = sent \cup {g} /\ g \notin sent
        /\ \A p \in DOMAIN inq' : (p \in DOMAIN inq /\ inq'[p] = inq[p])
                                    \/ (p = Len(inq') /\ inq'[p] = g)
    BY <1>4, SendingAdds
  <2>2. f \notin sent' \/ \E p \in DOMAIN inq' : inq'[p] = f
    BY DEF Fresh, Frame
  <2> HIDE DEF f
  <2>3. f \notin sent \/ \E p \in DOMAIN inq : inq[p] = f
    BY <2>1, <2>2
  <2>4. QED BY <2>3 DEF Fresh, f
<1>5. QED BY <1>2, <1>3, <1>4, InqMoves

\* The CALL that Take takes was fresh, and is no more.
LEMMA TakenIsFresh ==
  ASSUME WireInv, QueueInv, Receive, Head(inq).type = "call"
  PROVE  \E i \in Inbound : Head(inq).of = i /\ Fresh(i) /\ ~Fresh(i)'
<1>1. PICK i \in Inbound : /\ Head(inq).of = i /\ Head(inq) = Frame("call", i, "")
                           /\ Head(inq) \in sent /\ 1 \in DOMAIN inq /\ inq[1] = Head(inq)
  BY HeadIs
<1>2. UNCHANGED sent /\ \A p \in DOMAIN inq' : inq'[p] # Head(inq)
  BY ReceiveTakes
<1>3. Fresh(i)
  BY <1>1 DEF Fresh
<1>4. ~Fresh(i)'
  BY <1>1, <1>2 DEF Fresh, Frame
<1>5. QED BY <1>1, <1>3, <1>4

\* What is true of an inbound CALL wherever the application stands.
TakenOnce(i) ==
  /\ Fresh(i) => served[i] = "none" /\ task[i] = "none" /\ cur # i
  /\ i \in Rejected => task[i] = "none"
  /\ served[i] = "replied" => task[i] # "running"

\* What is true of the one in progress.
InProgress ==
  /\ pc \in ServeLabels \ {"take"} => served[cur] = "none"
  /\ pc = "received" => cur \notin Rejected /\ task[cur] = "none"
  /\ pc = "join" => cur \notin Rejected /\ task[cur] # "none"
  /\ pc = "replied" =>
       cur \notin Rejected /\ task[cur] \in {"ok", "err"} /\ res.says = ReplyTo[task[cur]]
  /\ pc = "reply" =>
       /\ cur \notin Rejected => task[cur] \in {"ok", "err", "long_err", "panic"}
       /\ res.says = ReplyOf(cur)

\* TakenInv is about the CALL in progress and about every CALL.
LEMMA TakenParts == TakenInv <=> InProgress /\ \A i \in Inbound : TakenOnce(i)
BY DEF TakenInv, InProgress, TakenOnce

\* No CALL has been taken yet.
LEMMA InitTaken == Init => TakenInv
BY ControlAssumption DEF Init, TakenInv, ServeLabels, Rejected

\* A step that is not about inbound CALLs.
LEMMA TakenKept ==
  ASSUME TakenInv, UNCHANGED <<task, served>>,
         \A i \in Inbound : Fresh(i)' => Fresh(i),
         \A i \in Inbound : cur' = i => cur = i,
         \/ pc' \notin ServeLabels \ {"take"}
         \/ UNCHANGED <<pc, cur, res>>
  PROVE  TakenInv'
<1>1. \A i \in Inbound : TakenOnce(i)'
  BY TakenParts DEF TakenOnce
<1>2. InProgress'
  <2>1. CASE pc' \notin ServeLabels \ {"take"}
    BY <2>1 DEF InProgress, ServeLabels
  <2>2. CASE UNCHANGED <<pc, cur, res>>
    BY <2>2, TakenParts DEF InProgress, ReplyOf
  <2>3. QED BY <2>1, <2>2
<1>3. TakenInv' = (InProgress' /\ \A i \in Inbound : TakenOnce(i)')
  BY DEF TakenInv, InProgress, TakenOnce
<1>4. QED BY <1>1, <1>2, <1>3

\* Every inbound CALL goes its way once: it is taken once, its handler spawned once, and
\* serve_one_call returns once (build_call_reply, serve_one_call_gated).
LEMMA TakenStep ==
  ASSUME WireInv, QueueInv, TakenInv, [Next]_vars
  PROVE  TakenInv'
<1>1. \A i \in Inbound : Fresh(i)' => Fresh(i)
  BY FreshShrinks
<1>2. None \notin Inbound /\ OwnCalls \cap Inbound = {} /\ Rejected \subseteq Inbound
  BY ControlAssumption DEF Rejected
<1>3. ASSUME InProgress', \A i \in Inbound : TakenOnce(i)'
      PROVE  TakenInv'
  BY <1>3 DEF TakenInv, InProgress, TakenOnce
<1>4. InProgress /\ \A i \in Inbound : TakenOnce(i)
  BY TakenParts
<1> USE DEF ServeLabels
<1>5. CASE Starts
  <2>1. UNCHANGED <<pc, cur, res, served, task>>
    BY <1>5, StartsTells DEF appVars
  <2>2. QED BY <1>1, <2>1, TakenKept
<1>6. CASE LeavesCall
  <2>1. /\ pc' \in {"call", "await", "completed", "idle"} /\ UNCHANGED <<task, served>>
        /\ cur' = cur \/ cur' = None
    BY <1>6 DEF LeavesCall, Goto, Outcome, Return
  <2>2. QED BY <1>1, <1>2, <2>1, TakenKept
<1>7. CASE LeavesServe
  <2>1. pc \in {"received", "replied", "reply"} /\ cur \in Inbound
    BY <1>7 DEF LeavesServe, WireInv, CallLabels
  <2>2. ~Fresh(cur) /\ served[cur] = "none"
    BY <1>4, <2>1 DEF TakenOnce, InProgress
  <2>3. CASE pc = "received" /\ pc' = "join" /\ task' = [task EXCEPT ![cur] = "running"]
             /\ UNCHANGED <<cur, res, answer, served>>
    <3>1. \A i \in Inbound : task'[i] = IF i = cur THEN "running" ELSE task[i]
      BY <2>3 DEF WireInv
    <3>2. cur \notin Rejected
      BY <1>4, <2>3 DEF InProgress
    <3>3. \A i \in Inbound : TakenOnce(i)'
      BY <1>1, <1>4, <2>2, <2>3, <3>1, <3>2 DEF TakenOnce
    <3>4. InProgress'
      BY <2>1, <2>2, <2>3, <3>1, <3>2 DEF InProgress
    <3>5. QED BY <1>3, <3>3, <3>4
  <2>4. CASE pc = "replied" /\ Goto("reply")
    <3>1. UNCHANGED <<cur, res, task, served>> /\ pc' = "reply"
      BY <2>4 DEF Goto
    <3>2. /\ cur \notin Rejected /\ task[cur] \in {"ok", "err"}
          /\ res.says = ReplyTo[task[cur]]
      BY <1>4, <2>4 DEF InProgress
    <3>3. \A i \in Inbound : TakenOnce(i)'
      BY <1>1, <1>4, <3>1 DEF TakenOnce
    <3>4. InProgress'
      BY <2>2, <3>1, <3>2 DEF InProgress, ReplyOf, Rejected
    <3>5. QED BY <1>3, <3>3, <3>4
  <2>5. CASE \E how \in {"replied", "unsent", "timeout"} :
               Serves(how) /\ (how = "replied" => pc = "reply")
    <3>1. PICK how \in {"replied", "unsent", "timeout"} :
                 Serves(how) /\ (how = "replied" => pc = "reply")
      BY <2>5
    <3>2. /\ pc' = "idle" /\ cur' = None /\ UNCHANGED task
          /\ \A i \in Inbound : served'[i] = IF i = cur THEN how ELSE served[i]
      BY <3>1 DEF Serves, Return, WireInv
    <3>3. how = "replied" => task[cur] # "running"
      BY <1>4, <2>1, <3>1 DEF InProgress, TakenOnce
    <3>4. \A i \in Inbound : TakenOnce(i)'
      BY <1>1, <1>2, <1>4, <2>2, <3>2, <3>3 DEF TakenOnce
    <3>5. InProgress'
      BY <3>2 DEF InProgress
    <3>6. QED BY <1>3, <3>4, <3>5
  <2>6. QED BY <1>7, <2>3, <2>4, <2>5 DEF LeavesServe
<1>8. CASE LeavesOther
  <2>1. pc' \notin ServeLabels /\ cur' = None /\ UNCHANGED <<task, served>>
    BY <1>8 DEF LeavesOther
  <2>2. QED BY <1>1, <1>2, <2>1, TakenKept
<1>9. CASE QuietCall
  <2>1. UNCHANGED <<task, served>>
    BY <1>9
    DEF QuietCall, Call, Enter, AwaitResponse, AwaitFails, AwaitTimeout, Outcome, appVars
  <2>2. pc' \in {"sent", "completed", "await"}
    BY <1>9
    DEF QuietCall, Call, Enter, AwaitResponse, AwaitFails, AwaitTimeout, Outcome, appVars
  <2>3. cur' \in OwnCalls \/ cur' = cur
    BY <1>9
    DEF QuietCall, Call, Enter, AwaitResponse, AwaitFails, AwaitTimeout, Outcome, appVars
  <2>4. QED BY <1>1, <1>2, <2>1, <2>2, <2>3, TakenKept
<1>10. CASE QuietServe
  <2>1. CASE Take
    <3>1. pc = "take" /\ Receive /\ UNCHANGED <<served, task>>
      BY <2>1 DEF Take
    <3>2. CASE Head(inq).type = "call"
      <4>1. PICK i \in Inbound : Head(inq).of = i /\ Fresh(i) /\ ~Fresh(i)'
        BY <3>1, <3>2, TakenIsFresh
      <4>2. served[i] = "none" /\ task[i] = "none"
        BY <1>4, <4>1 DEF TakenOnce
      <4>3. cur' = i /\ Dispatch(i)
        BY <2>1, <3>2, <4>1 DEF Take
      <4>4. ASSUME NEW j \in Inbound
            PROVE  TakenOnce(j)'
        <5>1. CASE j = i
          <6>1. ~Fresh(j)'
            BY <4>1, <5>1
          <6>2. QED BY <1>4, <3>1, <6>1 DEF TakenOnce
        <5>2. CASE j # i
          <6>1. Fresh(j)' => Fresh(j)
            BY <1>1
          <6>2. QED BY <1>4, <3>1, <4>3, <5>2, <6>1 DEF TakenOnce
        <5>3. QED BY <5>1, <5>2
      <4>5. InProgress'
        <5>1. CASE i \in Unauthorized
          BY <3>1, <4>2, <4>3, <5>1 DEF Dispatch, Result, InProgress, ReplyOf, Rejected
        <5>2. CASE i \notin Unauthorized /\ i \in Unknown
          BY <3>1, <4>2, <4>3, <5>2 DEF Dispatch, Result, InProgress, ReplyOf, Rejected
        <5>3. CASE i \notin Rejected
          BY <3>1, <4>2, <4>3, <5>3 DEF Dispatch, InProgress, Rejected
        <5>4. QED BY <5>1, <5>2, <5>3 DEF Rejected
      <4>6. QED BY <1>3, <4>4, <4>5
    <3>3. CASE Head(inq).type # "call"
      <4>1. UNCHANGED <<pc, cur, res>>
        BY <2>1, <3>3 DEF Take
      <4>2. QED BY <1>1, <3>1, <4>1, TakenKept
    <3>4. QED BY <3>2, <3>3
  <2>2. CASE Join
    <3>1. /\ pc = "join" /\ res' = Result(cur, ReplyTo[task[cur]]) /\ task[cur] # "running"
          /\ pc' = IF task[cur] \in {"panic", "long_err"} THEN "reply" ELSE "replied"
          /\ UNCHANGED <<cur, served, task>>
      BY <2>2 DEF Join
    <3>2. cur \in Inbound /\ cur \notin Rejected /\ served[cur] = "none"
          /\ task[cur] \in {"ok", "err", "long_err", "panic"}
      BY <1>4, <3>1 DEF InProgress, WireInv, CallLabels
    <3>3. res'.says = ReplyTo[task[cur]]
      BY <3>1 DEF Result
    <3>4. InProgress'
      BY <3>1, <3>2, <3>3 DEF InProgress, ReplyOf, Rejected
    <3>5. \A i \in Inbound : TakenOnce(i)'
      BY <1>1, <1>4, <3>1 DEF TakenOnce
    <3>6. QED BY <1>3, <3>4, <3>5
  <2>3. CASE pc = "join" /\ task[cur] = "running" /\ Serves("timeout")
    <3>1. cur \in Inbound
      BY <2>3 DEF WireInv, CallLabels
    <3>2. ~Fresh(cur)
      BY <1>4, <3>1 DEF TakenOnce
    <3>3. /\ pc' = "idle" /\ cur' = None /\ UNCHANGED task
          /\ \A i \in Inbound : served'[i] = IF i = cur THEN "timeout" ELSE served[i]
      BY <2>3 DEF Serves, Return, WireInv
    <3>4. \A i \in Inbound : TakenOnce(i)'
      BY <1>1, <1>2, <1>4, <3>2, <3>3 DEF TakenOnce
    <3>5. InProgress'
      BY <3>3 DEF InProgress
    <3>6. QED BY <1>3, <3>4, <3>5
  <2>4. CASE Serve \/ TakeFails \/ (pc = "take" /\ Goto("idle"))
    <3>1. pc' \in {"take", "idle"} /\ UNCHANGED <<task, served>> /\ (cur' = cur \/ cur' = None)
      BY <2>4 DEF Serve, Enter, TakeFails, Goto
    <3>2. QED BY <1>1, <1>2, <3>1, TakenKept
  <2>5. QED BY <1>10, <2>1, <2>2, <2>3, <2>4 DEF QuietServe
<1>11. CASE QuietOther
  <2>1. pc' \notin ServeLabels /\ cur' = None /\ UNCHANGED <<task, served>>
    BY <1>11 DEF QuietOther
  <2>2. QED BY <1>1, <1>2, <2>1, TakenKept
<1>12. CASE Station \/ UNCHANGED vars
  <2>1. UNCHANGED <<pc, cur, res, served>>
    BY <1>12, OthersLeaveApplication
  <2>2. UNCHANGED task
    BY <1>12 DEF Station, Respond, Stray, Route, Deliver, Sends, Finish, Die, appVars, vars
  <2>3. QED BY <1>1, <2>1, <2>2, TakenKept
<1>13. CASE Handlers
  <2>1. PICK i \in Inbound, how \in {"ok", "err", "long_err", "panic"} : HandlerEnds(i, how)
    BY <1>13 DEF Handlers
  <2>2. /\ task[i] = "running" /\ UNCHANGED <<pc, cur, res, served>>
        /\ \A j \in Inbound : task'[j] = IF j = i THEN how ELSE task[j]
    BY <2>1 DEF HandlerEnds, WireInv
  <2>3. \A j \in Inbound : TakenOnce(j)'
    BY <1>1, <1>4, <2>2 DEF TakenOnce
  <2>4. InProgress'
    <3>1. CASE pc \notin ServeLabels \ {"take"}
      BY <2>2, <3>1 DEF InProgress
    <3>2. CASE pc \in ServeLabels \ {"take"}
      <4>1. cur \in Inbound
        BY <3>2 DEF WireInv, CallLabels
      <4>2. cur \in Rejected => task[cur] = "none"
        BY <1>4, <4>1 DEF TakenOnce
      <4>3. pc # "join" => i # cur
        BY <1>4, <2>2, <3>2, <4>2 DEF InProgress
      <4>4. pc # "join" => task'[cur] = task[cur]
        BY <2>2, <4>1, <4>3
      <4>5. task'[cur] # "none" \/ task'[cur] = task[cur]
        BY <2>2, <4>1
      <4>6. QED BY <1>4, <2>2, <4>4, <4>5 DEF InProgress, ReplyOf
    <3>3. QED BY <3>1, <3>2
  <2>5. QED BY <1>3, <2>3, <2>4
<1>14. CASE Abandon
  <2>1. /\ UNCHANGED task /\ pc' \notin ServeLabels /\ cur' = None
        /\ \A i \in Inbound : served'[i] = IF i = cur THEN "dropped" ELSE served[i]
    BY <1>14, AbandonTells
  <2>2. \A i \in Inbound : TakenOnce(i)'
    BY <1>1, <1>2, <1>4, <2>1 DEF TakenOnce
  <2>3. InProgress'
    BY <2>1 DEF InProgress
  <2>4. QED BY <1>3, <2>2, <2>3
<1>15. QED
  BY <1>5, <1>6, <1>7, <1>8, <1>9, <1>10, <1>11, <1>12, <1>13, <1>14, StepIs

-----------------------------------------------------------------------------
(* Frames that are cut short.                                               *)

\* No frame has been begun yet, so none is cut.
LEMMA InitCut == Init => CutInv
BY DEF Init, CutInv

\* How serve_one_call ended for a CALL does not change any more.
LEMMA ServedKept ==
  ASSUME WireInv, QueueInv, TakenInv, [Next]_vars, NEW i \in Inbound, served[i] # "none"
  PROVE  served'[i] = served[i] /\ cur' # i /\ cur # i
<1>1. None \notin Inbound /\ OwnCalls \cap Inbound = {}
  BY ControlAssumption
<1>2. cur # i
  BY <1>1 DEF WireInv, TakenInv
<1> USE DEF ServeLabels
<1>3. CASE Starts
  BY <1>2, <1>3, StartsTells DEF appVars
<1>4. CASE LeavesCall
  BY <1>1, <1>2, <1>4 DEF LeavesCall, Goto, Outcome, Return
<1>5. CASE LeavesServe
  BY <1>1, <1>2, <1>5 DEF LeavesServe, Goto, Serves, Return, WireInv
<1>6. CASE LeavesOther
  BY <1>1, <1>2, <1>6 DEF LeavesOther
<1>7. CASE QuietCall
  BY <1>1, <1>2, <1>7
  DEF QuietCall, Call, Enter, AwaitResponse, AwaitFails, AwaitTimeout, Outcome, appVars
<1>8. CASE QuietServe
  <2>1. CASE Take
    <3>1. CASE Head(inq).type = "call"
      <4>1. PICK j \in Inbound : Head(inq).of = j /\ Fresh(j)
        BY <2>1, <3>1, TakenIsFresh DEF Take
      <4>2. j # i
        BY <4>1 DEF TakenInv
      <4>3. QED BY <1>2, <2>1, <3>1, <4>1, <4>2 DEF Take
    <3>2. CASE Head(inq).type # "call"
      BY <1>2, <2>1, <3>2 DEF Take
    <3>3. QED BY <3>1, <3>2
  <2>2. CASE ~Take
    BY <1>1, <1>2, <1>8, <2>2
    DEF QuietServe, Serve, Enter, TakeFails, Join, Goto, Serves, Return, WireInv
  <2>3. QED BY <2>1, <2>2
<1>9. CASE QuietOther
  BY <1>1, <1>2, <1>9 DEF QuietOther
<1>10. CASE Station \/ Handlers \/ UNCHANGED vars
  BY <1>2, <1>10, OthersLeaveApplication
<1>11. CASE Abandon
  BY <1>1, <1>2, <1>11, AbandonTells
<1>12. QED
  BY <1>3, <1>4, <1>5, <1>6, <1>7, <1>8, <1>9, <1>10, <1>11, StepIs

\* On a live connection only a dropped future cuts a frame.
LEMMA CutStep ==
  ASSUME WireInv, TakenInv, QueueInv, CutInv, [Next]_vars
  PROVE  CutInv'
<1>1. out \in Seq(WireFrames) /\ half \in BOOLEAN
  BY DEF WireInv
<1>2. CASE Starts
  <2>1. PICK f \in FramesToSend : Begin(f)
    BY <1>2, StartsTells
  <2>2. /\ Len(out') = Len(out) + 1 /\ out' \in Seq(WireFrames)
        /\ \A p \in DOMAIN out : p \in DOMAIN out' /\ out'[p] = out[p]
    <3> HIDE DEF WireFrames
    <3> QED BY <1>1, <2>1, BeginTells
  <2>3. \A p \in DOMAIN out' : p = Len(out') \/ p \in DOMAIN out
    BY <1>1, <2>2
  <2>4. up /\ ~half /\ half' = TRUE /\ UNCHANGED <<served, dropped>>
    BY <1>2, <2>1, StartsTells DEF appVars, Begin
  <2>5. QED BY <2>2, <2>3, <2>4 DEF CutInv
<1>3. CASE LeavesCall \/ LeavesServe \/ LeavesOther
  <2>1. /\ half' = FALSE /\ UNCHANGED <<up, dropped>> /\ (Written \/ UNCHANGED out)
        /\ DOMAIN out' = DOMAIN out
        /\ \A p \in DOMAIN out : out'[p].of = out[p].of
    BY <1>3, LeavesTells DEF peerVars
  <2>2. CASE Written
    <3>1. \A p \in DOMAIN out : out'[p].whole = (out[p].whole \/ p = Len(out))
      BY <1>1, <2>2, WrittenTells DEF WireInv, Written
    <3>2. \A i \in Inbound : served[i] # "none" => served'[i] = served[i]
      BY ServedKept
    <3>3. QED BY <2>1, <3>1, <3>2 DEF CutInv
  <2>3. CASE UNCHANGED out /\ ~half
    <3>1. \A i \in Inbound : served[i] # "none" => served'[i] = served[i]
      BY ServedKept
    <3>2. QED BY <2>1, <2>3, <3>1 DEF CutInv
  <2>4. CASE UNCHANGED out /\ half /\ up /\ ~Written
    <3>1. Serves("timeout") /\ pc \in {"received", "replied", "reply"}
      BY <1>3, <2>4 DEF LeavesCall, LeavesServe, LeavesOther, Broken, Unencodable
    <3>2. cur \in Inbound /\ out[Len(out)].of = cur
      BY <2>4, <3>1 DEF WireInv, CallLabels, ServeLabels
    <3>3. served'[cur] = "timeout"
      BY <3>1, <3>2 DEF Serves, WireInv
    <3>4. \A i \in Inbound : served[i] # "none" => served'[i] = served[i]
      BY ServedKept
    <3>5. QED BY <2>1, <2>4, <3>2, <3>3, <3>4 DEF CutInv
  <2>5. CASE ~up
    BY <2>1, <2>5 DEF CutInv
  <2>6. QED BY <1>1, <2>1, <2>2, <2>3, <2>4, <2>5
<1>4. CASE QuietCall \/ QuietServe \/ QuietOther \/ Station \/ Handlers \/ UNCHANGED vars
  <2>1. UNCHANGED <<out, half, dropped>> /\ (up' => up)
    BY <1>4, QuietTells, PeerTypes DEF wireVars
  <2>2. \A i \in Inbound : served[i] # "none" => served'[i] = served[i]
    BY ServedKept
  <2>3. QED BY <2>1, <2>2 DEF CutInv
<1>5. CASE Abandon
  <2>1. /\ UNCHANGED out /\ half' = FALSE /\ (up' => up)
        /\ dropped' = dropped \cup {Len(out)}
        /\ \A i \in Inbound : served'[i] = IF i = cur THEN "dropped" ELSE served[i]
    <3>1. /\ UNCHANGED out /\ half' = FALSE
          /\ UNCHANGED up \/ up' = FALSE
          /\ dropped' = dropped \cup {Len(out)}
          /\ served' = [i \in Inbound |-> IF i = cur THEN "dropped" ELSE served[i]]
      BY <1>5, AbandonTells
    <3>2. up' => up
      BY <3>1
    <3>3. QED BY <3>1, <3>2
  <2>2. \A i \in Inbound : served[i] # "none" => served'[i] = served[i]
    BY ServedKept
  <2>3. half => out[Len(out)].of = cur
    BY DEF WireInv
  <2>4. ASSUME up', NEW p \in DOMAIN out, ~out[p].whole
        PROVE  /\ \/ p \in dropped'
                  \/ out[p].of \in Inbound /\ served'[out[p].of] = "timeout"
               /\ out[p].of \in Inbound => served'[out[p].of] \in {"timeout", "dropped"}
    <3>1. CASE half /\ p = Len(out)
      BY <2>1, <2>3, <3>1
    <3>2. CASE ~(half /\ p = Len(out))
      BY <2>1, <2>2, <2>4, <3>2 DEF CutInv
    <3>3. QED BY <3>1, <3>2
  <2>5. QED BY <2>1, <2>4 DEF CutInv
<1>6. QED BY <1>2, <1>3, <1>4, <1>5, StepIs

-----------------------------------------------------------------------------
(* Brackets.                                                                *)

\* Nothing has been opened yet.
LEMMA InitBracket == Init => BracketInv
BY DEF Init, BracketInv, Open

\* What is open after a step that began no frame was open before it.
LEMMA NothingOpens ==
  ASSUME WireInv, [Next]_vars, ~Starts, NEW a, NEW b, Open(a, b)'
  PROVE  Open(a, b)
<1>1. CASE LeavesCall \/ LeavesServe \/ LeavesOther
  <2>1. UNCHANGED dropped /\ (Written \/ UNCHANGED out)
    BY <1>1, LeavesTells
  <2>2. CASE Written
    BY <2>1, <2>2, OtherwiseNothingOpens DEF WireInv, Written
  <2>3. CASE UNCHANGED out
    BY <2>1, <2>3 DEF Open
  <2>4. QED BY <2>1, <2>2, <2>3
<1>2. CASE QuietCall \/ QuietServe \/ QuietOther \/ Station \/ Handlers \/ UNCHANGED vars
  BY <1>2, QuietTells DEF wireVars, Open
<1>3. CASE Abandon
  <2>1. UNCHANGED out /\ Len(out) \in dropped'
    BY <1>3, AbandonTells
  <2>2. out \in Seq(WireFrames) /\ DOMAIN out = 1..Len(out) /\ Len(out) \in Nat
    BY DEF WireInv
  <2>3. PICK p \in DOMAIN out' : \A d \in dropped' : d < p
    BY DEF Open
  <2>4. QED BY <2>1, <2>2, <2>3
<1>4. QED BY <1>1, <1>2, <1>3, StepIs

\* One bracket: while it is open the application is still opening it, or stands at one of
\* the labels, or at closer and has not begun to close it.
Bracket(opening, closing, labels, closer) ==
  up /\ Open(opening, closing) =>
    (pc = opening /\ half) \/ pc \in labels \/ (pc = closer /\ ~half)

\* BracketInv is one statement for each pair of frames.
LEMMA BracketParts ==
  BracketInv <=> /\ Bracket("subscribe", "unsubscribe", {"listen"}, "unsubscribe")
                 /\ Bracket("started", "finished", {"publishing"}, "finished")
                 /\ Bracket("sent", "completed", {"call", "await"}, "completed")
BY DEF BracketInv, Bracket

\* Frames are named for the labels that write them.
LEMMA WritingType ==
  ASSUME NEW f, Writing(f)
  PROVE  f.type = IF pc = "publishing" THEN "publish" ELSE pc
<1>1. \A t, x, s : Frame(t, x, s).type = t
  BY DEF Frame
<1>2. CASE pc \in {"subscribe", "unsubscribe", "advertise", "goodbye"}
  <2>1. f = Frame(pc, None, "") /\ pc # "publishing"
    BY <1>2 DEF Writing
  <2>2. QED BY <1>1, <2>1
<1>3. CASE pc \notin {"subscribe", "unsubscribe", "advertise", "goodbye"}
  <2>1. \E x, s : f = Frame(IF pc = "publishing" THEN "publish" ELSE pc, x, s)
    BY <1>3 DEF Writing
  <2>2. QED BY <1>1, <2>1
<1>4. QED BY <1>2, <1>3

\* A write that begins leaves every bracket as it must be.
LEMMA BracketStarts ==
  ASSUME WireInv, TakenInv, Starts,
         NEW a, NEW b, a # b, NEW labels, NEW closer, Bracket(a, b, labels, closer),
         \A f : Writing(f) /\ f.type = a => pc = a,
         \A f : Writing(f) /\ pc = closer => f.type = b
  PROVE  Bracket(a, b, labels, closer)'
<1>1. PICK f \in FramesToSend : Writing(f) /\ Begin(f)
  BY StartsTells
<1>2. UNCHANGED pc /\ up /\ ~half /\ half' = TRUE
  BY StartsTells DEF appVars
<1>3. ASSUME Open(a, b)'
      PROVE  pc' = a \/ pc' \in labels
  <2>1. f.type # b /\ (f.type = a \/ Open(a, b))
    BY <1>1, <1>3, BeginOpens DEF WireInv
  <2>2. QED BY <1>1, <1>2, <2>1 DEF Bracket
<1>4. QED BY <1>2, <1>3 DEF Bracket

\* Between run_subscriber and its UNSUBSCRIBE, run_publisher and its closing fact, call and
\* its rpc.completed_v1.
LEMMA BracketStep ==
  ASSUME WireInv, TakenInv, BracketInv, [Next]_vars
  PROVE  BracketInv'
<1>1. ASSUME Bracket("subscribe", "unsubscribe", {"listen"}, "unsubscribe")',
             Bracket("started", "finished", {"publishing"}, "finished")',
             Bracket("sent", "completed", {"call", "await"}, "completed")'
      PROVE  BracketInv'
  BY <1>1 DEF BracketInv, Bracket
<1>2. CASE Starts
  <2>1. Bracket("subscribe", "unsubscribe", {"listen"}, "unsubscribe")'
    <3>1. \A f : Writing(f) /\ f.type = "subscribe" => pc = "subscribe"
      BY WritingType
    <3>2. \A f : Writing(f) /\ pc = "unsubscribe" => f.type = "unsubscribe"
      BY WritingType
    <3>3. QED BY <1>2, <3>1, <3>2, BracketParts, BracketStarts
  <2>2. Bracket("started", "finished", {"publishing"}, "finished")'
    <3>1. \A f : Writing(f) /\ f.type = "started" => pc = "started"
      BY WritingType
    <3>2. \A f : Writing(f) /\ pc = "finished" => f.type = "finished"
      BY WritingType
    <3>3. QED BY <1>2, <3>1, <3>2, BracketParts, BracketStarts
  <2>3. Bracket("sent", "completed", {"call", "await"}, "completed")'
    <3>1. \A f : Writing(f) /\ f.type = "sent" => pc = "sent"
      BY WritingType
    <3>2. \A f : Writing(f) /\ pc = "completed" => f.type = "completed"
      BY WritingType
    <3>3. QED BY <1>2, <3>1, <3>2, BracketParts, BracketStarts
  <2>4. QED BY <1>1, <2>1, <2>2, <2>3
<1>3. CASE ~Starts
  <2> SUFFICES ASSUME up'
               PROVE  BracketInv'
    BY DEF BracketInv
  <2>1. /\ Open("subscribe", "unsubscribe")' => Open("subscribe", "unsubscribe")
        /\ Open("started", "finished")' => Open("started", "finished")
        /\ Open("sent", "completed")' => Open("sent", "completed")
    BY <1>3, NothingOpens
  <2>2. CASE LeavesCall \/ LeavesServe \/ LeavesOther
    <3>1. up
      BY <2>2, LeavesTells DEF peerVars
    <3>2. CASE LeavesCall
      <4>1. \/ pc = "sent" /\ pc' = "call"
            \/ pc = "call" /\ pc' \in {"await", "completed"}
            \/ pc = "completed" /\ half
        BY <3>1, <3>2 DEF LeavesCall, Goto, Outcome, Written, Broken
      <4>2. half' = FALSE
        BY <3>2, LeavesTells
      <4>3. QED BY <2>1, <3>1, <4>1, <4>2 DEF BracketInv
    <3>3. CASE LeavesServe
      <4>1. pc \in {"received", "replied", "reply"}
        BY <3>3 DEF LeavesServe
      <4>2. QED BY <2>1, <3>1, <4>1 DEF BracketInv
    <3>4. CASE LeavesOther
      <4>1. \/ pc = "started" /\ pc' = "publishing"
            \/ pc = "publishing" /\ pc' = "finished"
            \/ pc = "subscribe" /\ (pc' = "listen" \/ ~half)
            \/ pc \in {"finished", "unsubscribe"} /\ half
            \/ pc \in {"publish", "advertise", "goodbye"}
        BY <3>1, <3>4 DEF LeavesOther, Written, Broken, Unencodable
      <4>2. half' = FALSE
        BY <3>4, LeavesTells
      <4>3. QED BY <2>1, <3>1, <4>1, <4>2 DEF BracketInv
    <3>5. QED BY <2>2, <3>2, <3>3, <3>4
  <2>3. CASE QuietCall \/ QuietServe \/ QuietOther
    <3>1. up /\ ~half /\ UNCHANGED half
      BY <2>3, PeerTypes, QuietTells, QuietMeansNoWrite DEF wireVars
    <3>2. CASE QuietCall
      BY <2>1, <3>1, <3>2
      DEF QuietCall, Call, Enter, AwaitResponse, AwaitFails, AwaitTimeout, Outcome, appVars,
          BracketInv
    <3>3. CASE QuietServe
      <4>1. pc \in {"idle", "take", "join"}
        BY <3>3 DEF QuietServe, Serve, Enter, Take, TakeFails, Join
      <4>2. QED BY <2>1, <3>1, <4>1 DEF BracketInv
    <3>4. CASE QuietOther
      BY <2>1, <3>1, <3>4 DEF QuietOther, BracketInv
    <3>5. QED BY <2>3, <3>2, <3>3, <3>4
  <2>4. CASE Station \/ Handlers \/ UNCHANGED vars
    <3>1. up /\ UNCHANGED <<half, pc>>
      BY <2>4, PeerTypes, QuietTells, OthersLeaveApplication DEF wireVars
    <3>2. QED BY <2>1, <3>1 DEF BracketInv
  <2>5. CASE Abandon
    <3>1. out \in Seq(WireFrames) /\ DOMAIN out = 1..Len(out) /\ Len(out) \in Nat
      BY DEF WireInv
    <3>2. UNCHANGED out /\ Len(out) \in dropped'
      BY <2>5, AbandonTells
    <3>3. ASSUME NEW a, NEW b
          PROVE  ~Open(a, b)'
      BY <3>1, <3>2 DEF Open
    <3>4. QED BY <3>3 DEF BracketInv
  <2>6. QED BY <1>3, <2>2, <2>3, <2>4, <2>5, StepIs
<1>4. QED BY <1>2, <1>3

-----------------------------------------------------------------------------
(* The story of a call.                                                     *)

\* A story of at most three frames grows by one (FrameStream::send_frame).
LEMMA Appends ==
  /\ \A a : Append(<<>>, a) = <<a>>
  /\ \A a, b : Append(<<a>>, b) = <<a, b>>
  /\ \A a, b, c : Append(<<a, b>>, c) = <<a, b, c>>
<1>1. \A a : Append(<<>>, a) = <<a>>
  OBVIOUS
<1>2. ASSUME NEW a, NEW b
      PROVE  Append(<<a>>, b) = <<a, b>>
  <2>1. <<a>> \in Seq({a, b}) /\ <<a, b>> \in Seq({a, b})
    OBVIOUS
  <2>2. Append(<<a>>, b) \in Seq({a, b}) /\ Len(Append(<<a>>, b)) = 2
        /\ Append(<<a>>, b)[1] = a /\ Append(<<a>>, b)[2] = b
    BY <2>1
  <2>3. Len(<<a, b>>) = 2 /\ \A i \in 1..2 : Append(<<a>>, b)[i] = <<a, b>>[i]
    BY <2>2
  <2> DEFINE s == Append(<<a>>, b)  t == <<a, b>>
  <2>4. s \in Seq({a, b}) /\ t \in Seq({a, b}) /\ Len(s) = Len(t) /\ \A i \in 1..Len(s) : s[i] = t[i]
    BY <2>1, <2>2, <2>3
  <2> HIDE DEF s, t
  <2>5. s = t
    BY <2>4, SeqEqual
  <2>6. QED BY <2>5 DEF s, t
<1>3. ASSUME NEW a, NEW b, NEW c
      PROVE  Append(<<a, b>>, c) = <<a, b, c>>
  <2>1. <<a, b>> \in Seq({a, b, c}) /\ <<a, b, c>> \in Seq({a, b, c})
    OBVIOUS
  <2>2. Append(<<a, b>>, c) \in Seq({a, b, c}) /\ Len(Append(<<a, b>>, c)) = 3
        /\ Append(<<a, b>>, c)[1] = a /\ Append(<<a, b>>, c)[2] = b
        /\ Append(<<a, b>>, c)[3] = c
    BY <2>1
  <2>3. Len(<<a, b, c>>) = 3 /\ \A i \in 1..3 : Append(<<a, b>>, c)[i] = <<a, b, c>>[i]
    BY <2>2
  <2> DEFINE s == Append(<<a, b>>, c)  t == <<a, b, c>>
  <2>4. s \in Seq({a, b, c}) /\ t \in Seq({a, b, c}) /\ Len(s) = Len(t) /\ \A i \in 1..Len(s) : s[i] = t[i]
    BY <2>1, <2>2, <2>3
  <2> HIDE DEF s, t
  <2>5. s = t
    BY <2>4, SeqEqual
  <2>6. QED BY <2>5 DEF s, t
<1>4. QED BY <1>1, <1>2, <1>3

\* An outcome is announced as one of two.
LEMMA Outcomes ==
  /\ \A r : CompletedFact(r) \in {"completed", "failed"}
  /\ \A r : r.says = "failed" => CompletedFact(r) = "failed"
BY DEF CompletedFact

\* What is told on a live connection is a beginning of the story.
LEMMA ToldBegun ==
  ASSUME WireInv, AnswerInv, NEW c \in OwnCalls, CallTold(c)
  PROVE  CallBegun(Story(c))
<1>1. \A r : Told(Story(c), r) \/ ToldUntil(Story(c), r) => CallBegun(Story(c))
  <2> SUFFICES ASSUME NEW r, Told(Story(c), r) \/ ToldUntil(Story(c), r)
               PROVE  CallBegun(Story(c))
    OBVIOUS
  <2>1. CASE Story(c) = <<Sent, Called, Completed(r)>>
    BY <2>1, Outcomes DEF CallBegun, Completed
  <2>2. CASE Story(c) = <<Sent, Completed(r)>> /\ r.says = "failed"
    BY <2>2, Outcomes DEF CallBegun, Completed
  <2>3. CASE ToldUntil(Story(c), r)
    BY <2>3 DEF CallBegun, ToldUntil
  <2>4. QED BY <2>1, <2>2, <2>3 DEF Told
<1>2. CASE answer[c] # NoResult
  <2>1. CASE answer[c].says = "dropped"
    BY <1>2, <2>1 DEF CallTold
  <2>2. CASE answer[c].says # "dropped"
    BY <1>1, <1>2, <2>2 DEF CallTold
  <2>3. QED BY <2>1, <2>2
<1>3. CASE answer[c] = NoResult /\ cur # c
  BY <1>3 DEF CallTold, CallBegun
<1>4. CASE cur = c
  <2>1. pc \in CallLabels
    BY <1>4, ControlAssumption DEF WireInv
  <2>2. CASE pc = "completed"
    BY <1>1, <1>4, <2>2 DEF CallTold
  <2>3. CASE pc \in {"sent", "call", "await"}
    BY <1>4, <2>3 DEF CallTold, CallBegun
  <2>4. QED BY <2>1, <2>2, <2>3 DEF CallLabels
<1>5. QED BY <1>2, <1>3, <1>4

\* Nothing is told before the first frame.
LEMMA StoryOfNothing == out = <<>> => \A x : Story(x) = <<>>
<1> SUFFICES ASSUME out = <<>>, NEW x
             PROVE  Story(x) = <<>>
  OBVIOUS
<1>1. Len(out) = 0
  OBVIOUS
<1>2. Stories(out, x)[0] = <<>>
  BY <1>1, StoriesAre
<1>3. QED BY <1>1, <1>2 DEF Story

\* No call has begun yet.
LEMMA InitCall == Init => CallInv
<1> SUFFICES ASSUME Init, NEW c \in OwnCalls
             PROVE  CallTold(c)
  BY DEF CallInv, Init
<1>1. Story(c) = <<>>
  BY StoryOfNothing DEF Init
<1>2. cur # c
  BY ControlAssumption DEF Init
<1>3. QED BY <1>1, <1>2 DEF Init, CallTold

\* A step that is not about c.
LEMMA CallKept ==
  ASSUME NEW c \in OwnCalls, CallTold(c), Story(c)' = Story(c), answer'[c] = answer[c],
         cur # c, cur' # c
  PROVE  CallTold(c)'
BY DEF CallTold, CallBegun, NoResult, Result, Told, Completed, CompletedFact, Sent, Called

\* The story of a call goes on frame by frame while the connection is alive.
LEMMA CallGoesOn ==
  ASSUME WireInv, QueueInv, AnswerInv, TakenInv, up, up', NEW c \in OwnCalls, CallTold(c),
         [Next]_vars
  PROVE  CallTold(c)'
<1>1. None # c /\ c \notin Inbound
  BY ControlAssumption
<1> USE DEF CallLabels
<1>2. CASE Starts
  <2>1. PICK f \in FramesToSend : Writing(f) /\ f.of = cur /\ Begin(f)
    BY <1>2, StartsTells
  <2>2. Story(c)' = Longer(Story(c), f, c)
    BY <2>1, BeginTells DEF WireInv
  <2>3. ~half /\ half' = TRUE /\ UNCHANGED <<pc, cur, res, answer>>
    BY <1>2, StartsTells DEF appVars
  <2>4. CASE cur # c
    <3>1. Story(c)' = Story(c)
      BY <2>1, <2>2, <2>4 DEF Longer
    <3>2. QED BY <2>3, <2>4, <3>1, CallKept
  <2>5. CASE cur = c
    <3>1. pc \in {"sent", "call", "completed"}
      BY <1>1, <2>1, <2>5 DEF Writing, WireInv, ServeLabels
    <3>2. Story(c)' = Append(Story(c), <<f.type, f.says>>)
      BY <2>1, <2>2, <2>5 DEF Longer
    <3>3. answer[c] = NoResult
      BY <2>5, <3>1 DEF AnswerInv
    <3>4. CASE pc = "sent"
      <4> f = Frame("sent", cur, "")
        BY <2>1, <3>4 DEF Writing
      <4>1. f.type = "sent" /\ f.says = "" /\ Story(c) = <<>>
        BY <2>3, <2>5, <3>4 DEF Frame, CallTold
      <4>2. Story(c)' = <<Sent>>
        BY <3>2, <4>1, Appends DEF Sent
      <4>3. QED BY <2>3, <2>5, <3>3, <3>4, <4>2 DEF CallTold, NoResult, Result, Sent
    <3>5. CASE pc = "call"
      <4> f = Frame("call", cur, "")
        BY <2>1, <3>5 DEF Writing
      <4>1. f.type = "call" /\ f.says = "" /\ Story(c) = <<Sent>>
        BY <2>3, <2>5, <3>5 DEF Frame, CallTold
      <4>2. Story(c)' = <<Sent, Called>>
        BY <3>2, <4>1, Appends DEF Called
      <4>3. QED
        BY <2>3, <2>5, <3>3, <3>5, <4>2 DEF CallTold, NoResult, Result, Sent, Called
    <3>6. CASE pc = "completed"
      <4>1. f.type = "completed" /\ f.says = CompletedFact(res) /\ ToldUntil(Story(c), res)
        BY <2>1, <2>3, <2>5, <3>6 DEF Writing, Frame, CallTold
      <4>2. Story(c)' = Append(Story(c), Completed(res))
        BY <3>2, <4>1 DEF Completed
      <4>3. CASE Story(c) = <<Sent, Called>>
        <5>1. Story(c)' = <<Sent, Called, Completed(res)>>
          BY <4>2, <4>3, Appends
        <5>2. Told(Story(c)', res)
          BY <5>1 DEF Told
        <5>3. QED
          BY <2>3, <2>5, <3>3, <3>6, <5>2
          DEF CallTold, NoResult, Result, Told, Completed, CompletedFact, Sent, Called
      <4>4. CASE Story(c) = <<Sent>> /\ res.says = "failed"
        <5>1. Story(c)' = <<Sent, Completed(res)>>
          BY <4>2, <4>4, Appends
        <5>2. Told(Story(c)', res)
          BY <4>4, <5>1 DEF Told
        <5>3. QED
          BY <2>3, <2>5, <3>3, <3>6, <5>2
          DEF CallTold, NoResult, Result, Told, Completed, CompletedFact, Sent, Called
      <4>5. QED BY <4>1, <4>3, <4>4 DEF ToldUntil
    <3>7. QED BY <3>1, <3>4, <3>5, <3>6
  <2>6. QED BY <2>4, <2>5
<1>3. CASE LeavesCall
  <2>1. pc \in CallLabels /\ cur \in OwnCalls
    BY <1>3 DEF LeavesCall, WireInv
  <2>2. Story(c)' = Story(c) /\ half' = FALSE
    BY <1>3, LeavesTells
  <2>3. CASE cur # c
    <3>1. (cur' = cur \/ cur' = None) /\ answer'[c] = answer[c]
      BY <1>3, <2>3 DEF LeavesCall, Goto, Outcome, Return, WireInv
    <3>2. QED BY <1>1, <2>2, <2>3, <3>1, CallKept
  <2>4. CASE cur = c
    <3>1. answer[c] = NoResult
      BY <2>1, <2>4 DEF AnswerInv
    <3> USE DEF CallTold
    <3>2. CASE pc = "sent" /\ Written /\ Goto("call")
      <4>1. Story(c)' = <<Sent>>
        BY <2>2, <2>4, <3>2 DEF Written
      <4>2. pc' = "call" /\ cur' = c /\ answer' = answer
        BY <2>4, <3>2 DEF Goto
      <4>3. QED BY <2>2, <3>1, <4>1, <4>2 DEF NoResult, Result, Sent
    <3>3. CASE pc = "call" /\ Written /\ Goto("await")
      <4>1. Story(c)' = <<Sent, Called>>
        BY <2>2, <2>4, <3>3 DEF Written
      <4>2. pc' = "await" /\ cur' = c /\ answer' = answer
        BY <2>4, <3>3 DEF Goto
      <4>3. QED BY <2>2, <3>1, <4>1, <4>2 DEF NoResult, Result, Sent, Called
    <3>4. CASE pc = "call" /\ Unencodable /\ Outcome(Result(cur, "failed"))
      <4>1. Story(c)' = <<Sent>>
        BY <2>2, <2>4, <3>4 DEF Unencodable
      <4>2. pc' = "completed" /\ cur' = c /\ answer' = answer /\ res'.says = "failed"
        BY <2>4, <3>4 DEF Outcome, Result
      <4>3. ToldUntil(Story(c), res)'
        BY <4>1, <4>2 DEF ToldUntil, Sent
      <4>4. QED BY <2>2, <3>1, <4>2, <4>3 DEF NoResult, Result
    <3>5. CASE pc = "completed" /\ Written /\ Return /\ answer' = [answer EXCEPT ![cur] = res]
      <4>1. Told(Story(c), res)
        BY <2>4, <3>5 DEF Written
      <4>2. answer'[c] = res /\ cur' = None
        BY <2>1, <2>4, <3>5 DEF Return, WireInv
      <4>3. res # NoResult /\ res.says # "dropped"
        BY <3>5 DEF AnswerInv, NoResult, Result, Responses
      <4>4. Told(Story(c)', answer'[c])
        BY <2>2, <4>1, <4>2
      <4>5. Told(Story(c), answer[c])'
        BY <4>4 DEF Told, Completed, CompletedFact, Sent, Called
      <4>6. QED BY <1>1, <4>2, <4>3, <4>5 DEF NoResult, Result
    <3> HIDE DEF CallTold
    <3>6. QED BY <1>3, <3>2, <3>3, <3>4, <3>5 DEF LeavesCall, Broken
  <2>5. QED BY <2>3, <2>4
<1>4. CASE LeavesServe
  <2>1. cur \in Inbound /\ (cur' = cur \/ cur' = None) /\ UNCHANGED answer
    BY <1>4 DEF LeavesServe, Goto, Serves, Return, WireInv, ServeLabels
  <2>2. Story(c)' = Story(c)
    BY <1>4, LeavesTells
  <2>3. QED BY <1>1, <2>1, <2>2, CallKept
<1>5. CASE LeavesOther \/ QuietOther
  <2>1. cur = None /\ cur' = None /\ UNCHANGED answer
    BY <1>5 DEF LeavesOther, QuietOther, WireInv, ServeLabels
  <2>2. Story(c)' = Story(c)
    BY <1>5, LeavesTells, QuietTells, SilenceTells DEF wireVars
  <2>3. QED BY <1>1, <2>1, <2>2, CallKept
<1>6. CASE QuietCall
  <2>1. Story(c)' = Story(c) /\ ~half /\ ~half'
    BY <1>6, QuietTells, SilenceTells, QuietMeansNoWrite DEF wireVars
  <2>2. UNCHANGED answer
    BY <1>6
    DEF QuietCall, Call, Enter, AwaitResponse, AwaitFails, AwaitTimeout, Outcome, appVars
  <2>3. ASSUME NEW d \in OwnCalls, Call(d)
        PROVE  CallTold(c)'
    <3>1. pc = "idle" /\ cur = None /\ pc' = "sent" /\ cur' = d /\ answer[d] = NoResult
      BY <2>3 DEF Call, Enter, WireInv, ServeLabels
    <3>2. CASE d # c
      BY <1>1, <2>1, <2>2, <3>1, <3>2, CallKept
    <3>3. CASE d = c
      <4>1. Story(c) = <<>>
        BY <1>1, <3>1, <3>3 DEF CallTold
      <4>2. QED BY <2>1, <2>2, <3>1, <3>3, <4>1 DEF CallTold, NoResult, Result
    <3>4. QED BY <3>2, <3>3
  <2>4. CASE AwaitResponse \/ AwaitFails \/ AwaitTimeout
    <3>1. pc = "await" /\ cur' = cur /\ cur \in OwnCalls
      BY <2>4 DEF AwaitResponse, AwaitFails, AwaitTimeout, Outcome, appVars, WireInv
    <3>2. pc' = "completed" \/ UNCHANGED <<pc, res>>
      BY <2>4 DEF AwaitResponse, AwaitFails, AwaitTimeout, Outcome, appVars
    <3>3. CASE cur # c
      BY <2>1, <2>2, <3>1, <3>3, CallKept
    <3>4. CASE cur = c
      <4>1. Story(c) = <<Sent, Called>> /\ answer[c] = NoResult
        BY <3>1, <3>4 DEF CallTold, AnswerInv
      <4>2. ToldUntil(Story(c), res)' /\ (Story(c) = <<Sent, Called>>)'
        BY <2>1, <4>1 DEF ToldUntil, Sent, Called
      <4>3. QED
        BY <2>1, <2>2, <3>1, <3>2, <3>4, <4>1, <4>2 DEF CallTold, NoResult, Result
    <3>5. QED BY <3>3, <3>4
  <2>5. QED BY <1>6, <2>3, <2>4 DEF QuietCall
<1>7. CASE QuietServe
  <2>1. Story(c)' = Story(c)
    BY <1>7, QuietTells, SilenceTells DEF wireVars
  <2>2. cur # c
    BY <1>1, <1>7
    DEF QuietServe, Serve, Enter, Take, TakeFails, Join, WireInv, ServeLabels
  <2>3. cur' # c /\ UNCHANGED answer
    <3>1. CASE Take
      <4>1. Head(inq).type = "call" => Head(inq).of \in Inbound
        BY <3>1, HeadIs DEF Take
      <4>2. QED BY <1>1, <2>2, <3>1, <4>1 DEF Take
    <3>2. CASE ~Take
      BY <1>1, <1>7, <2>2, <3>2
      DEF QuietServe, Serve, Enter, TakeFails, Join, Goto, Serves, Return
    <3>3. QED BY <3>1, <3>2
  <2>4. QED BY <2>1, <2>2, <2>3, CallKept
<1>8. CASE Station \/ Handlers \/ UNCHANGED vars
  <2>1. Story(c)' = Story(c) /\ UNCHANGED half
    BY <1>8, QuietTells, SilenceTells DEF wireVars
  <2>2. UNCHANGED <<pc, cur, res, answer>>
    BY <1>8, OthersLeaveApplication
  <2>3. QED
    BY <2>1, <2>2
    DEF CallTold, CallBegun, Told, ToldUntil, Completed, CompletedFact, Sent, Called, NoResult,
        Result
<1>9. CASE Abandon
  <2>1. /\ Story(c)' = Story(c) /\ cur' = None
        /\ answer'[c] = IF c = cur THEN Result(c, "dropped") ELSE answer[c]
    BY <1>9, AbandonTells
  <2>2. CASE cur # c
    BY <1>1, <2>1, <2>2, CallKept
  <2>3. CASE cur = c
    <3>1. CallBegun(Story(c))
      BY ToldBegun
    <3>2. CallBegun(Story(c))'
      BY <2>1, <3>1 DEF CallBegun, Sent, Called
    <3>3. answer'[c].says = "dropped" /\ answer'[c] # NoResult /\ cur' # c
      BY <1>1, <2>1, <2>3 DEF NoResult, Result
    <3>4. QED BY <3>2, <3>3 DEF CallTold, NoResult, Result
  <2>4. QED BY <2>2, <2>3
<1>10. QED
  BY <1>2, <1>3, <1>4, <1>5, <1>6, <1>7, <1>8, <1>9, StepIs

\* Session::call brackets the CALL with its two facts.
LEMMA CallStep ==
  ASSUME WireInv, QueueInv, AnswerInv, TakenInv, CallInv, [Next]_vars
  PROVE  CallInv'
<1> SUFFICES ASSUME NEW c \in OwnCalls
             PROVE  (IF up THEN CallTold(c) ELSE CallBegun(Story(c)))'
  BY DEF CallInv
<1>1. IF up THEN CallTold(c) ELSE CallBegun(Story(c))
  BY DEF CallInv
<1>2. up' => up
  <2>1. Starts \/ LeavesCall \/ LeavesServe \/ LeavesOther => UNCHANGED up
    BY StartsTells, LeavesTells DEF peerVars
  <2>2. QED BY <2>1, AbandonTells, PeerTypes, StepIs
<1>3. CASE up'
  BY <1>1, <1>2, <1>3, CallGoesOn
<1>4. CASE ~up'
  <2>1. CallBegun(Story(c))
    BY <1>1, ToldBegun
  <2>2. ~Starts
    <3>1. Starts => up /\ UNCHANGED up
      BY StartsTells DEF peerVars
    <3>2. QED BY <1>4, <3>1
  <2>3. Story(c)' = Story(c)
    BY <2>2, LeavesTells, AbandonTells, QuietTells, SilenceTells, StepIs DEF wireVars
  <2>4. CallBegun(Story(c))'
    BY <2>1, <2>3 DEF CallBegun, Sent, Called
  <2>5. QED BY <1>4, <2>4
<1>5. QED BY <1>3, <1>4

-----------------------------------------------------------------------------
(* The story of an inbound CALL.                                            *)

\* Nothing about an inbound CALL is out yet.
LEMMA InitServe == Init => ServeInv
<1> SUFFICES ASSUME Init, NEW i \in Inbound
             PROVE  /\ ServeBegun(i)
                    /\ Fresh(i) => Story(i) = <<>>
                    /\ served[i] = "replied" => ServeOver(i)
                    /\ up /\ cur = i => ServeTold(i)
  BY DEF ServeInv
<1>1. Story(i) = <<>>
  BY StoryOfNothing DEF Init
<1>2. cur # i
  BY ControlAssumption DEF Init
<1>3. QED BY <1>1, <1>2 DEF Init, ServeBegun

\* The parts of ServeInv.
ServeOne(i) ==
  /\ ServeBegun(i)
  /\ Fresh(i) => Story(i) = <<>>
  /\ served[i] = "replied" => ServeOver(i)

\* Nothing new about i: not in its story, not in its handler, not in how it ended.
LEMMA ServeKept ==
  ASSUME NEW i \in Inbound, ServeOne(i), Story(i)' = Story(i), task'[i] = task[i],
         Fresh(i)' => Fresh(i), served'[i] = "replied" => served[i] = "replied",
         served[i] = "replied" =>
           \A p \in DOMAIN out' : out'[p].of = i => p \in DOMAIN out /\ out[p].of = i
                                                    /\ (out[p].whole => out'[p].whole)
  PROVE  ServeOne(i)'
<1>1. /\ Received' = Received /\ Replied(i)' = Replied(i) /\ Answered(i)' = Answered(i)
      /\ Served(i)' = Served(i)
  BY DEF Received, Replied, Answered, ReplyOf, Served
<1>2. ServeBegun(i)'
  BY <1>1 DEF ServeOne, ServeBegun
<1>3. served'[i] = "replied" => ServeOver(i)'
  BY <1>1 DEF ServeOne, ServeOver
<1>4. (Fresh(i) => Story(i) = <<>>)'
  BY DEF ServeOne
<1>5. QED BY <1>2, <1>3, <1>4 DEF ServeOne

\* A handler that starts, or ends, adds nothing to what has been told.
LEMMA ServeTaskChanges ==
  ASSUME NEW i \in Inbound, ServeOne(i), Story(i)' = Story(i), task[i] \in {"none", "running"},
         i \notin Rejected, Fresh(i)' => Fresh(i), served[i] # "replied", served'[i] # "replied"
  PROVE  ServeOne(i)'
<1>1. Story(i) \in {<<>>, <<Received>>}
  BY DEF ServeOne, ServeBegun
<1>2. ServeBegun(i)'
  BY <1>1 DEF ServeBegun, Received, Rejected
<1>3. (Fresh(i) => Story(i) = <<>>)'
  BY DEF ServeOne
<1>4. QED BY <1>2, <1>3 DEF ServeOne

\* The frame that begins about the CALL in progress is the next of its story.
LEMMA ServeWrites ==
  ASSUME WireInv, TakenInv, Starts, NEW i \in Inbound, cur = i, ServeTold(i)
  PROVE  ServeTold(i)' /\ ServeBegun(i)'
<1>1. PICK f \in FramesToSend : Writing(f) /\ f.of = cur /\ Begin(f)
  BY StartsTells
<1>2. up /\ ~half /\ half' = TRUE /\ UNCHANGED <<pc, cur, res, task>>
  BY StartsTells DEF appVars
<1>3. Story(i)' = Append(Story(i), <<f.type, f.says>>)
  <2>1. Story(i)' = Longer(Story(i), f, i)
    BY <1>1, BeginTells DEF WireInv
  <2>2. QED BY <1>1, <2>1 DEF Longer
<1>4. pc \in {"received", "replied", "reply"}
  BY <1>1, ControlAssumption DEF Writing, WireInv, CallLabels, ServeLabels
<1>5. /\ Received' = Received /\ Replied(i)' = Replied(i) /\ Answered(i)' = Answered(i)
      /\ Served(i)' = Served(i) /\ Rejected' = Rejected
  BY <1>2 DEF Received, Replied, Answered, ReplyOf, Served, Rejected
<1>6. CASE pc = "received"
  <2>1. f = Frame("received", cur, "") /\ i \notin Rejected /\ Story(i) = <<>>
    BY <1>1, <1>2, <1>6 DEF Writing, TakenInv, ServeTold
  <2>2. Story(i)' = <<Received>>
    BY <1>3, <2>1, Appends DEF Frame, Received
  <2>3. QED BY <1>2, <1>5, <1>6, <2>1, <2>2 DEF ServeTold, ServeBegun
<1>7. CASE pc = "replied"
  <2>1. f = Frame("replied", cur, RepliedFact[task[cur]]) /\ i \notin Rejected
        /\ task[i] \in {"ok", "err"} /\ Story(i) = <<Received>>
    BY <1>1, <1>2, <1>7 DEF Writing, TakenInv, ServeTold
  <2>2. <<f.type, f.says>> = Replied(i)
    BY <2>1 DEF Frame, Replied
  <2>3. Story(i)' = <<Received, Replied(i)>>
    BY <1>3, <2>1, <2>2, Appends
  <2>4. QED BY <1>2, <1>5, <1>7, <2>1, <2>3 DEF ServeTold, ServeBegun
<1>8. CASE pc = "reply"
  <2>1. f = Frame("reply", cur, res.says) /\ res.says = ReplyOf(i) /\ Story(i) = Served(i)
        /\ (i \in Rejected \/ task[i] \in {"ok", "err", "long_err", "panic"})
    BY <1>1, <1>2, <1>8 DEF Writing, TakenInv, ServeTold
  <2>2. <<f.type, f.says>> = Answered(i)
    BY <2>1 DEF Frame, Answered
  <2>3. Story(i)' = Append(Served(i), Answered(i))
    BY <1>3, <2>1, <2>2
  <2>4. QED BY <1>2, <1>5, <1>8, <2>1, <2>3 DEF ServeTold, ServeBegun
<1>9. QED BY <1>4, <1>6, <1>7, <1>8

\* A step about which the CALL in progress has nothing to tell.
LEMMA ToldKept ==
  ASSUME NEW i \in Inbound, ServeTold(i), Story(i)' = Story(i), UNCHANGED <<pc, half>>,
         task'[i] = task[i] \/ pc = "join"
  PROVE  ServeTold(i)'
<1>1. CASE pc = "join"
  BY <1>1 DEF ServeTold, Received
<1>2. CASE task'[i] = task[i]
  <2>1. /\ Received' = Received /\ Replied(i)' = Replied(i) /\ Answered(i)' = Answered(i)
        /\ Served(i)' = Served(i)
    BY <1>2 DEF Received, Replied, Answered, ReplyOf, Served
  <2>2. QED BY <2>1 DEF ServeTold
<1>3. QED BY <1>1, <1>2

\* A step that ends a write, of whatever call, keeps every frame whole that was.
LEMMA WholeKept ==
  ASSUME WireInv, NEW i \in Inbound, LeavesCall \/ LeavesServe \/ LeavesOther
  PROVE  \A p \in DOMAIN out' : out'[p].of = i => p \in DOMAIN out /\ out[p].of = i
                                                  /\ (out[p].whole => out'[p].whole)
BY LeavesTells

\* serve_one_call goes on frame by frame.
LEMMA ServeLeaves ==
  ASSUME WireInv, QueueInv, TakenInv, CutInv, LeavesServe, [Next]_vars,
         NEW i \in Inbound, cur = i, ServeOne(i), up => ServeTold(i)
  PROVE  ServeOne(i)' /\ (up' /\ cur' = i => ServeTold(i)')
<1>1. /\ Story(i)' = Story(i) /\ half' = FALSE /\ UNCHANGED up
      /\ Written \/ UNCHANGED out
  BY LeavesTells DEF peerVars
<1>2. Fresh(i)' => Fresh(i)
  BY FreshShrinks
<1>3. pc \in {"received", "replied", "reply"} /\ served[i] = "none" /\ None # i
  BY ControlAssumption DEF LeavesServe, TakenInv, ServeLabels
<1>4. CASE /\ pc = "received" /\ pc' = "join" /\ task' = [task EXCEPT ![cur] = "running"]
           /\ Written \/ Broken
           /\ UNCHANGED <<cur, res, answer, served>>
  <2>1. task[i] = "none" /\ i \notin Rejected
    BY <1>4 DEF TakenInv
  <2>2. ServeOne(i)'
    BY <1>1, <1>2, <1>3, <1>4, <2>1, ServeTaskChanges
  <2>3. up => Story(i)' = <<Received>>
    BY <1>1, <1>4 DEF ServeTold, Written, Broken
  <2>4. QED BY <1>1, <1>4, <2>2, <2>3 DEF ServeTold, Received
<1>5. CASE pc = "replied" /\ (Written \/ Broken) /\ Goto("reply")
  <2>1. pc' = "reply" /\ UNCHANGED <<cur, res, task, served>>
    BY <1>5 DEF Goto
  <2>2. ServeOne(i)'
    BY <1>1, <1>2, <1>3, <2>1, ServeKept
  <2>3. i \notin Rejected /\ task[i] \in {"ok", "err"}
    BY <1>5 DEF TakenInv
  <2>4. up => Story(i)' = <<Received, Replied(i)>>
    BY <1>1, <1>5 DEF ServeTold, Written, Broken
  <2>5. Served(i)' = <<Received, Replied(i)>>
    BY <2>1, <2>3 DEF Served, Replied, Received, Rejected
  <2>6. QED BY <1>1, <2>1, <2>2, <2>4, <2>5 DEF ServeTold
<1>6. CASE pc = "reply" /\ Written /\ Serves("replied")
  <2>1. /\ pc' = "idle" /\ cur' = None /\ UNCHANGED task
        /\ served'[i] = "replied"
    BY <1>6 DEF Serves, Return, WireInv
  <2>2. up /\ half /\ Story(i) = Append(Served(i), Answered(i))
    BY <1>6 DEF Written, ServeTold
  <2>3. \A p \in DOMAIN out' : out'[p].of = i => out'[p].whole
    <3>1. out \in Seq(WireFrames) /\ out # <<>>
      BY <1>6 DEF WireInv, Written
    <3>2. /\ DOMAIN out' = DOMAIN out
          /\ \A p \in DOMAIN out : /\ out'[p].of = out[p].of
                                   /\ out'[p].whole = (out[p].whole \/ p = Len(out))
      BY <1>6, <3>1, WrittenTells
    <3>3. ASSUME NEW p \in DOMAIN out, out[p].of = i, p # Len(out)
          PROVE  out[p].whole
      BY <1>3, <2>2, <3>3 DEF CutInv
    <3>4. QED BY <3>2, <3>3
  <2>4. /\ Replied(i)' = Replied(i) /\ Answered(i)' = Answered(i)
        /\ Served(i)' = Served(i) /\ Received' = Received
    BY <2>1 DEF Received, Replied, Answered, ReplyOf, Served
  <2>5. ServeOver(i)'
    <3>1. i \in Rejected \/ task[i] \in {"ok", "err", "long_err", "panic"}
      BY <1>6 DEF TakenInv
    <3>2. QED BY <1>1, <2>1, <2>2, <2>3, <2>4, <3>1 DEF ServeOver, Rejected
  <2>6. ServeBegun(i)'
    BY <1>1, <2>1, <2>4 DEF ServeOne, ServeBegun
  <2>7. (Fresh(i) => Story(i) = <<>>)'
    BY <1>1, <1>2 DEF ServeOne
  <2>8. QED BY <1>3, <2>1, <2>5, <2>6, <2>7 DEF ServeOne
<1>7. CASE Serves("unsent") \/ Serves("timeout")
  <2>1. cur' = None /\ UNCHANGED task /\ served'[i] # "replied"
    BY <1>7 DEF Serves, Return, WireInv
  <2>2. ServeOne(i)'
    BY <1>1, <1>2, <1>3, <2>1, ServeKept
  <2>3. QED BY <1>3, <2>1, <2>2
<1>8. QED BY <1>4, <1>5, <1>6, <1>7 DEF LeavesServe

\* serve_one_call takes a CALL and joins its handler.
LEMMA ServeMoves ==
  ASSUME WireInv, QueueInv, TakenInv, QuietServe, [Next]_vars,
         NEW i \in Inbound, ServeOne(i), up /\ cur = i => ServeTold(i)
  PROVE  ServeOne(i)' /\ (up' /\ cur' = i => ServeTold(i)')
<1>1. Story(i)' = Story(i) /\ ~half /\ half' = half /\ (up' => up) /\ UNCHANGED out
  BY QuietTells, SilenceTells, QuietMeansNoWrite, PeerTypes DEF wireVars
<1>2. Fresh(i)' => Fresh(i)
  BY FreshShrinks
<1>3. UNCHANGED task /\ (served'[i] = "replied" => served[i] = "replied")
  BY DEF QuietServe, Serve, Enter, Take, TakeFails, Join, Goto, Serves, Return, WireInv
<1>4. ServeOne(i)'
  BY <1>1, <1>2, <1>3, ServeKept
<1>5. ASSUME up', cur' = i
      PROVE  ServeTold(i)'
  <2>1. CASE Take /\ Head(inq).type = "call"
    <3>1. Head(inq).of = i /\ Fresh(i)
      BY <1>5, <2>1, TakenIsFresh DEF Take
    <3>2. Story(i)' = <<>>
      BY <1>1, <3>1 DEF ServeOne
    <3>3. Dispatch(i)
      BY <2>1, <3>1 DEF Take
    <3>4. pc' = "received" \/ (pc' = "reply" /\ i \in Rejected)
      BY <3>3 DEF Dispatch, Rejected
    <3>5. QED BY <1>1, <3>2, <3>4 DEF ServeTold, Served, Rejected
  <2>2. CASE Join
    <3>1. pc = "join" /\ cur = i /\ i \notin Rejected
          /\ pc' = IF task[i] \in {"panic", "long_err"} THEN "reply" ELSE "replied"
      BY <1>5, <2>2 DEF Join, TakenInv
    <3>2. Story(i)' = <<Received>>
      BY <1>1, <1>5, <3>1 DEF ServeTold
    <3>3. QED BY <1>1, <1>3, <3>1, <3>2 DEF ServeTold, Served, Received, Rejected
  <2>3. CASE ~Join /\ ~(Take /\ Head(inq).type = "call")
    <3>1. pc' \in {"take", "idle"}
      BY <2>3 DEF QuietServe, Serve, Enter, Take, TakeFails, Goto, Serves, Return
    <3>2. QED BY <3>1 DEF ServeTold
  <2>4. QED BY <2>1, <2>2, <2>3
<1>6. QED BY <1>4, <1>5

\* Every inbound CALL's story goes on frame by frame, or stays what it is (build_call_reply,
\* serve_one_call_gated).
LEMMA ServeStep ==
  ASSUME WireInv, QueueInv, TakenInv, CutInv, ServeInv, [Next]_vars
  PROVE  ServeInv'
<1> SUFFICES ASSUME NEW i \in Inbound
             PROVE  ServeOne(i)' /\ (up' /\ cur' = i => ServeTold(i)')
  BY DEF ServeInv, ServeOne
<1>1. ServeOne(i) /\ (up /\ cur = i => ServeTold(i))
  BY DEF ServeInv, ServeOne
<1>2. Fresh(i)' => Fresh(i)
  BY FreshShrinks
<1>3. None # i /\ i \notin OwnCalls
  BY ControlAssumption
<1>4. CASE Starts
  <2>1. UNCHANGED <<pc, cur, res, task, served>> /\ up
    BY <1>4, StartsTells DEF appVars
  <2>2. CASE cur = i
    <3>1. ServeTold(i)' /\ ServeBegun(i)'
      BY <1>1, <1>4, <2>1, <2>2, ServeWrites
    <3>2. ~Fresh(i)
      BY <2>2 DEF TakenInv
    <3>3. pc \in ServeLabels \ {"take"}
      BY <1>3, <2>2 DEF WireInv
    <3>4. served[i] = "none"
      BY <2>2, <3>3 DEF TakenInv
    <3>5. ServeOne(i)'
      BY <1>2, <2>1, <3>1, <3>2, <3>4 DEF ServeOne
    <3>6. QED BY <3>1, <3>5
  <2>3. CASE cur # i
    <3>1. PICK f \in FramesToSend : f.of = cur /\ Begin(f)
      BY <1>4, StartsTells
    <3>2. /\ Story(i)' = Longer(Story(i), f, i)
          /\ \A p \in DOMAIN out : p \in DOMAIN out' /\ out'[p] = out[p]
          /\ Len(out') = Len(out) + 1 /\ out' \in Seq(WireFrames)
          /\ out'[Len(out')] = [type |-> f.type, of |-> f.of, says |-> f.says, whole |-> FALSE]
      <4> HIDE DEF WireFrames, FramesToSend
      <4> QED BY <3>1, BeginTells DEF WireInv
    <3>3. Story(i)' = Story(i)
      BY <2>3, <3>1, <3>2 DEF Longer
    <3>4. out \in Seq(WireFrames)
      BY DEF WireInv
    <3>5. out'[Len(out')].of # i
      BY <2>3, <3>1, <3>2
    <3>6. \A p \in DOMAIN out' : p = Len(out') \/ p \in DOMAIN out
      BY <3>2, <3>4
    <3>7. \A p \in DOMAIN out' : out'[p].of = i => p \in DOMAIN out /\ out[p].of = i
                                                   /\ (out[p].whole => out'[p].whole)
      BY <3>2, <3>5, <3>6
    <3>8. ServeOne(i)'
      BY <1>1, <1>2, <2>1, <3>3, <3>7, ServeKept
    <3>9. QED BY <2>1, <2>3, <3>8
  <2>4. QED BY <2>2, <2>3
<1>5. CASE LeavesServe
  <2>1. CASE cur = i
    BY <1>1, <1>5, <2>1, ServeLeaves
  <2>2. CASE cur # i
    <3>1. Story(i)' = Story(i)
      BY <1>5, LeavesTells
    <3>2. \A p \in DOMAIN out' : out'[p].of = i => p \in DOMAIN out /\ out[p].of = i
                                                   /\ (out[p].whole => out'[p].whole)
      BY <1>5, WholeKept
    <3>3. /\ task'[i] = task[i] /\ served'[i] = served[i]
          /\ cur' = cur \/ cur' = None
      BY <1>5, <2>2 DEF LeavesServe, Goto, Serves, Return, WireInv
    <3>4. ServeOne(i)'
      BY <1>1, <1>2, <3>1, <3>2, <3>3, ServeKept
    <3>5. QED BY <1>3, <2>2, <3>3, <3>4
  <2>3. QED BY <2>1, <2>2
<1>6. CASE LeavesCall \/ LeavesOther
  <2>1. Story(i)' = Story(i)
    BY <1>6, LeavesTells
  <2>2. \A p \in DOMAIN out' : out'[p].of = i => p \in DOMAIN out /\ out[p].of = i
                                                 /\ (out[p].whole => out'[p].whole)
    BY <1>6, WholeKept
  <2>3. /\ UNCHANGED <<task, served>>
        /\ cur' \in OwnCalls \/ cur' = None
    BY <1>6 DEF LeavesCall, LeavesOther, Goto, Outcome, Return, WireInv, CallLabels
  <2>4. ServeOne(i)'
    BY <1>1, <1>2, <2>1, <2>2, <2>3, ServeKept
  <2>5. QED BY <1>3, <2>3, <2>4
<1>7. CASE QuietServe
  BY <1>1, <1>7, ServeMoves
<1>8. CASE QuietCall \/ QuietOther
  <2>1. Story(i)' = Story(i) /\ UNCHANGED out
    BY <1>8, QuietTells, SilenceTells DEF wireVars
  <2>2. UNCHANGED <<task, served>>
    BY <1>8
    DEF QuietCall, QuietOther, Call, Enter, AwaitResponse, AwaitFails, AwaitTimeout, Outcome,
        appVars
  <2>3. cur' \in OwnCalls \/ cur' = None
    <3>1. CASE QuietCall
      BY <3>1
      DEF QuietCall, Call, Enter, AwaitResponse, AwaitFails, AwaitTimeout, Outcome, appVars,
          WireInv, CallLabels
    <3>2. CASE QuietOther
      BY <3>2 DEF QuietOther
    <3>3. QED BY <1>8, <3>1, <3>2
  <2>4. ServeOne(i)'
    BY <1>1, <1>2, <2>1, <2>2, ServeKept
  <2>5. QED BY <1>3, <2>3, <2>4
<1>9. CASE Station \/ Handlers \/ UNCHANGED vars
  <2>1. Story(i)' = Story(i) /\ UNCHANGED <<out, half>> /\ (up' => up)
    BY <1>9, QuietTells, SilenceTells, PeerTypes DEF wireVars
  <2>2. UNCHANGED <<pc, cur, res, served>>
    BY <1>9, OthersLeaveApplication
  <2>3. CASE task'[i] = task[i]
    <3>1. ServeOne(i)'
      BY <1>1, <1>2, <2>1, <2>2, <2>3, ServeKept
    <3>2. QED BY <1>1, <2>1, <2>2, <2>3, <3>1, ToldKept
  <2>4. CASE task'[i] # task[i]
    <3>1. Handlers
      BY <1>9, <2>4
      DEF Station, Respond, Stray, Route, Deliver, Sends, Finish, Die, appVars, vars
    <3>2. task[i] = "running"
      BY <2>4, <3>1 DEF Handlers, HandlerEnds, WireInv
    <3>3. i \notin Rejected /\ served[i] # "replied"
      BY <3>2 DEF TakenInv
    <3>4. ServeOne(i)'
      BY <1>1, <1>2, <2>1, <2>2, <3>2, <3>3, ServeTaskChanges
    <3>5. ASSUME up', cur' = i
          PROVE  ServeTold(i)'
      <4>1. cur = i /\ pc \in ServeLabels \ {"take"}
        BY <1>3, <2>2, <3>5 DEF WireInv
      <4>2. pc = "join"
        BY <3>2, <3>3, <4>1 DEF TakenInv, ServeLabels
      <4>3. QED BY <1>1, <2>1, <2>2, <3>5, <4>1, <4>2, ToldKept
    <3>6. QED BY <3>4, <3>5
  <2>5. QED BY <2>3, <2>4
<1>10. CASE Abandon
  <2>1. Story(i)' = Story(i) /\ UNCHANGED <<out, task>> /\ cur' = None
        /\ served'[i] = IF i = cur THEN "dropped" ELSE served[i]
    BY <1>10, AbandonTells
  <2>2. ServeOne(i)'
    BY <1>1, <1>2, <2>1, ServeKept
  <2>3. QED BY <1>3, <2>1, <2>2
<1>11. QED
  BY <1>4, <1>5, <1>6, <1>7, <1>8, <1>9, <1>10, StepIs

-----------------------------------------------------------------------------
(* From what is told to the stories.                                        *)

\* A sequence begins another that is at least as long and agrees with it.
LEMMA PrefixIs ==
  ASSUME NEW S, NEW s \in Seq(S), NEW t \in Seq(S), Len(s) <= Len(t),
         \A k \in 1..Len(s) : s[k] = t[k]
  PROVE  IsPrefix(s, t)
<1> DEFINE n == Len(s)
<1>1. n \in Nat /\ n <= Len(s) /\ n <= Len(t)
  OBVIOUS
<1>2. /\ SubSeq(s, 1, n) \in Seq(S) /\ SubSeq(t, 1, n) \in Seq(S)
      /\ Len(SubSeq(s, 1, n)) = n /\ Len(SubSeq(t, 1, n)) = n
      /\ \A k \in 1..n : SubSeq(s, 1, n)[k] = s[k] /\ SubSeq(t, 1, n)[k] = t[k]
  BY <1>1
<1>3. SubSeq(s, 1, n) = SubSeq(t, 1, n)
  BY <1>2, SeqEqual
<1>4. QED BY <1>3 DEF IsPrefix

\* A sequence begins whatever is appended to it.
LEMMA PrefixOfAppends ==
  ASSUME NEW S, NEW s \in Seq(S), NEW x \in S, NEW y \in S, NEW z \in S
  PROVE  /\ IsPrefix(s, s)
         /\ IsPrefix(s, Append(s, x))
         /\ IsPrefix(s, Append(Append(s, x), y))
         /\ IsPrefix(s, Append(Append(Append(s, x), y), z))
<1>1. IsPrefix(s, s)
  BY PrefixIs
<1>2. /\ Append(s, x) \in Seq(S) /\ Len(s) <= Len(Append(s, x))
      /\ \A k \in 1..Len(s) : s[k] = Append(s, x)[k]
  OBVIOUS
<1>3. /\ Append(Append(s, x), y) \in Seq(S) /\ Len(s) <= Len(Append(Append(s, x), y))
      /\ \A k \in 1..Len(s) : s[k] = Append(Append(s, x), y)[k]
  BY <1>2
<1>4. /\ Append(Append(Append(s, x), y), z) \in Seq(S)
      /\ Len(s) <= Len(Append(Append(Append(s, x), y), z))
      /\ \A k \in 1..Len(s) : s[k] = Append(Append(Append(s, x), y), z)[k]
  BY <1>3
<1>5. IsPrefix(s, Append(s, x))
  BY <1>2, PrefixIs
<1>6. IsPrefix(s, Append(Append(s, x), y))
  BY <1>3, PrefixIs
<1>7. IsPrefix(s, Append(Append(Append(s, x), y), z))
  BY <1>4, PrefixIs
<1>8. QED BY <1>1, <1>5, <1>6, <1>7

\* The beginnings of a story of at most three frames.
LEMMA BeginningsOf ==
  /\ \A a : IsPrefix(<<>>, <<a>>) /\ IsPrefix(<<a>>, <<a>>)
  /\ \A a, b : /\ IsPrefix(<<>>, <<a, b>>) /\ IsPrefix(<<a>>, <<a, b>>)
               /\ IsPrefix(<<a, b>>, <<a, b>>)
  /\ \A a, b, c : /\ IsPrefix(<<>>, <<a, b, c>>) /\ IsPrefix(<<a>>, <<a, b, c>>)
                  /\ IsPrefix(<<a, b>>, <<a, b, c>>) /\ IsPrefix(<<a, b, c>>, <<a, b, c>>)
<1>1. ASSUME NEW a, NEW b, NEW c
      PROVE  /\ IsPrefix(<<>>, <<a>>) /\ IsPrefix(<<>>, <<a, b>>) /\ IsPrefix(<<>>, <<a, b, c>>)
             /\ IsPrefix(<<a>>, <<a>>) /\ IsPrefix(<<a>>, <<a, b>>) /\ IsPrefix(<<a>>, <<a, b, c>>)
             /\ IsPrefix(<<a, b>>, <<a, b>>) /\ IsPrefix(<<a, b>>, <<a, b, c>>)
             /\ IsPrefix(<<a, b, c>>, <<a, b, c>>)
  <2>1. PICK S : S = {a, b, c}
    OBVIOUS
  <2>2. /\ a \in S /\ b \in S /\ c \in S
        /\ <<>> \in Seq(S) /\ <<a>> \in Seq(S) /\ <<a, b>> \in Seq(S) /\ <<a, b, c>> \in Seq(S)
    BY <2>1
  <2>3. /\ IsPrefix(<<>>, Append(<<>>, a))
        /\ IsPrefix(<<>>, Append(Append(<<>>, a), b))
        /\ IsPrefix(<<>>, Append(Append(Append(<<>>, a), b), c))
    BY <2>2, PrefixOfAppends
  <2>4. /\ IsPrefix(<<a>>, <<a>>)
        /\ IsPrefix(<<a>>, Append(<<a>>, b))
        /\ IsPrefix(<<a>>, Append(Append(<<a>>, b), c))
    BY <2>2, PrefixOfAppends
  <2>5. IsPrefix(<<a, b>>, <<a, b>>) /\ IsPrefix(<<a, b>>, Append(<<a, b>>, c))
    BY <2>2, PrefixOfAppends
  <2>6. IsPrefix(<<a, b, c>>, <<a, b, c>>)
    BY <2>2, PrefixOfAppends
  <2>7. /\ Append(<<>>, a) = <<a>> /\ Append(<<a>>, b) = <<a, b>>
        /\ Append(<<a, b>>, c) = <<a, b, c>>
    BY Appends
  <2>8. QED BY <2>3, <2>4, <2>5, <2>6, <2>7
<1>2. QED BY <1>1

\* A sequence of one, and what follows it.
LEMMA FirstThenRest ==
  /\ \A a : <<a>> \o <<>> = <<a>>
  /\ \A a, b : <<a>> \o <<b>> = <<a, b>>
  /\ \A a, b, c : <<a>> \o <<b, c>> = <<a, b, c>>
<1>1. ASSUME NEW a
      PROVE  <<a>> \o <<>> = <<a>>
  <2>1. <<a>> \in Seq({a})
    OBVIOUS
  <2>2. QED BY <2>1, ConcatEmptySeq
<1>2. ASSUME NEW a, NEW b
      PROVE  <<a>> \o <<b>> = <<a, b>>
  <2>1. <<a>> \in Seq({a, b}) /\ <<b>> \in Seq({a, b}) /\ <<a, b>> \in Seq({a, b})
    OBVIOUS
  <2> DEFINE s == <<a>> \o <<b>>  t == <<a, b>>
  <2>2. s \in Seq({a, b}) /\ t \in Seq({a, b}) /\ Len(s) = Len(t) /\ \A i \in 1..Len(s) : s[i] = t[i]
    BY <2>1, ConcatProperties
  <2> HIDE DEF s, t
  <2>3. s = t
    BY <2>2, SeqEqual
  <2>4. QED BY <2>3 DEF s, t
<1>3. ASSUME NEW a, NEW b, NEW c
      PROVE  <<a>> \o <<b, c>> = <<a, b, c>>
  <2>1. <<a>> \in Seq({a, b, c}) /\ <<b, c>> \in Seq({a, b, c}) /\ <<a, b, c>> \in Seq({a, b, c})
    OBVIOUS
  <2> DEFINE s == <<a>> \o <<b, c>>  t == <<a, b, c>>
  <2>2. s \in Seq({a, b, c}) /\ t \in Seq({a, b, c}) /\ Len(s) = Len(t) /\ \A i \in 1..Len(s) : s[i] = t[i]
    BY <2>1, ConcatProperties
  <2> HIDE DEF s, t
  <2>3. s = t
    BY <2>2, SeqEqual
  <2>4. QED BY <2>3 DEF s, t
<1>4. QED BY <1>1, <1>2, <1>3

\* The whole story of a CALL whose handler has ended, or that has none.
LEMMA ServedThenAnswered ==
  ASSUME NEW i \in Inbound, i \in Rejected \/ task[i] \in {"ok", "err", "long_err", "panic"}
  PROVE  ReplyStory(i) = Append(Served(i), Answered(i))
<1>1. CASE i \in Unauthorized
  BY <1>1, Appends DEF ReplyStory, Served, Answered, ReplyOf, Rejected
<1>2. CASE i \notin Unauthorized /\ i \in Unknown
  BY <1>2, Appends DEF ReplyStory, Served, Answered, ReplyOf, Rejected
<1>3. CASE i \notin Rejected /\ task[i] \in {"panic", "long_err"}
  <2>1. ReplyStory(i) = <<Received>> \o <<Answered(i)>>
    BY <1>3, ReplyTos DEF ReplyStory, Received, Answered, ReplyOf, Rejected
  <2>2. Append(Served(i), Answered(i)) = <<Received, Answered(i)>>
    BY <1>3, Appends DEF Served
  <2>3. QED BY <2>1, <2>2, FirstThenRest
<1>4. CASE i \notin Rejected /\ task[i] \in {"ok", "err"}
  <2>1. ReplyStory(i) = <<Received>> \o <<Replied(i), Answered(i)>>
    BY <1>4, ReplyTos DEF ReplyStory, Received, Replied, Answered, ReplyOf, Rejected
  <2>2. Append(Served(i), Answered(i)) = <<Received, Replied(i), Answered(i)>>
    BY <1>4, Appends DEF Served
  <2>3. QED BY <2>1, <2>2, FirstThenRest
<1>5. QED BY <1>1, <1>2, <1>3, <1>4 DEF Rejected

-----------------------------------------------------------------------------
(* Theorems.                                                                *)

\* The invariant holds in every reachable state.
THEOREM Invariance == Spec => []IInv
<1>1. Init => IInv
  <2>1. Init => QueueInv
    BY DEF Init, QueueInv
  <2>2. QED
    BY <2>1, InitWire, InitAnswer, InitTaken, InitCut, InitBracket, InitCall, InitServe DEF IInv
<1>2. IInv /\ [Next]_vars => IInv'
  BY WireStep, QueueStep, AnswerStep, TakenStep, CutStep, BracketStep, CallStep, ServeStep
  DEF IInv
<1>3. QED
  BY <1>1, <1>2, PTL DEF Spec

\* Every label is a place where the code awaits, a call is in progress where it says so, and
\* a write is under way only where the code writes, on the last frame
\* (FrameStream::send_frame holds the lock of the send half).
THEOREM TypeCorrect == Spec => []TypeOK
<1>1. ASSUME IInv
      PROVE  TypeOK
  <2>1. cur \in OwnCalls \cup Inbound \cup {None}
    BY <1>1 DEF IInv, WireInv
  <2>2. /\ pc \in CallLabels => cur \in OwnCalls
        /\ pc \in ServeLabels \ {"take"} => cur \in Inbound
    BY <1>1 DEF IInv, WireInv, CallLabels, ServeLabels
  <2>3. half => /\ pc \notin {"idle", "await", "take", "join", "listen", "event", "tick",
                              "drain", "closed"}
                /\ out # <<>>
                /\ ~Last(out).whole
    BY <1>1 DEF IInv, WireInv, CallLabels, ServeLabels, OtherWrites, Last
  <2>4. ToSet(inq) \subseteq sent
    BY <1>1 DEF IInv, QueueInv, ToSet
  <2>5. QED BY <1>1, <2>1, <2>2, <2>3, <2>4 DEF IInv, WireInv, AnswerInv, TypeOK
<1>2. IInv => TypeOK
  BY <1>1
<1>3. QED
  BY <1>2, Invariance, PTL

\* A call that returns a response returns the station's response to that very call, although
\* late answers and frames that only carry its call_id arrive before it
\* (FrameStream::await_call_response).
THEOREM ResponseIsOwn == Spec => []OwnAnswer
<1>1. IInv => OwnAnswer
  BY DEF IInv
<1>2. QED
  BY <1>1, Invariance, PTL

\* On a live connection a frame is cut short, and everything written after it lost, only
\* where a future is dropped in the middle of a write, by the application or by the timeout
\* of serve_one_call: the timeout of a call, a failure and a handler never do it
\* (FrameStream::send_frame, await_call_response, serve_one_call_gated).
THEOREM OnlyDropsCut == Spec => []CutOnlyByDrop
<1>1. IInv => CutOnlyByDrop
  BY DEF IInv, CutInv, CutOnlyByDrop
<1>2. QED
  BY <1>1, Invariance, PTL

\* run_subscriber, run_publisher and call are never back on a live connection without the
\* frame that closes what they opened.
THEOREM NothingStaysOpen == Spec => []BracketsClose
<1>1. IInv => BracketsClose
  BY DEF IInv, BracketInv, BracketsClose
<1>2. QED
  BY <1>1, Invariance, PTL

\* Session::call brackets the CALL with rpc.sent_v1 and rpc.completed_v1 on every path of a
\* live connection, and announces the outcome that it returns.
THEOREM CallIsBracketed == Spec => []CallStory
<1>1. ASSUME IInv, NEW c \in OwnCalls
      PROVE  LET closing(says) == <<"completed", says>>
                 full == {<< <<"sent", "">>, <<"call", "">>, closing(says)>> :
                            says \in {"completed", "failed"}}
                           \cup {<< <<"sent", "">>, closing("failed")>>}
             IN /\ \E s \in full : IsPrefix(Story(c), s)
                /\ up /\ answer[c].says \notin {"none", "dropped"} =>
                     /\ Story(c) \in full
                     /\ Last(Story(c)) = closing(CompletedFact(answer[c]))
  <2> DEFINE closing(says) == <<"completed", says>>
             full == {<<Sent, Called, closing(says)>> : says \in {"completed", "failed"}}
                       \cup {<<Sent, closing("failed")>>}
  <2>1. \A f \in {"completed", "failed"} : <<Sent, Called, closing(f)>> \in full
    OBVIOUS
  <2>2. <<Sent, closing("failed")>> \in full
    OBVIOUS
  <2>3. CallBegun(Story(c))
    BY <1>1, ToldBegun DEF IInv, CallInv
  <2>4. \E s \in full : IsPrefix(Story(c), s)
    <3>1. PICK t : t = Story(c)
      OBVIOUS
    <3>2. CASE t \in {<<>>, <<Sent>>, <<Sent, Called>>}
      <4>1. /\ IsPrefix(<<>>, <<Sent, Called, closing("failed")>>)
            /\ IsPrefix(<<Sent>>, <<Sent, Called, closing("failed")>>)
            /\ IsPrefix(<<Sent, Called>>, <<Sent, Called, closing("failed")>>)
        BY BeginningsOf
      <4>2. QED BY <2>1, <3>1, <3>2, <4>1
    <3>3. ASSUME NEW f \in {"completed", "failed"}, t = <<Sent, Called, closing(f)>>
          PROVE  \E s \in full : IsPrefix(t, s)
      <4>1. IsPrefix(<<Sent, Called, closing(f)>>, <<Sent, Called, closing(f)>>)
        BY BeginningsOf
      <4>2. QED BY <2>1, <3>3, <4>1
    <3>4. CASE t = <<Sent, closing("failed")>>
      <4>1. IsPrefix(<<Sent, closing("failed")>>, <<Sent, closing("failed")>>)
        BY BeginningsOf
      <4>2. IsPrefix(t, <<Sent, closing("failed")>>)
        BY <3>4, <4>1
      <4>3. QED BY <2>2, <3>1, <4>2
    <3>5. QED BY <2>3, <3>1, <3>2, <3>3, <3>4 DEF CallBegun
  <2>5. ASSUME up, answer[c].says \notin {"none", "dropped"}
        PROVE  Story(c) \in full /\ Last(Story(c)) = closing(CompletedFact(answer[c]))
    <3> DEFINE r == answer[c]
    <3>1. Told(Story(c), r)
      BY <1>1, <2>5 DEF IInv, CallInv, CallTold, NoResult, Result
    <3>2. CASE Story(c) = <<Sent, Called, Completed(r)>>
      <4>1. Story(c) \in full
        BY <2>1, <3>2, Outcomes DEF Completed
      <4>2. QED BY <3>2, <4>1 DEF Last, Completed
    <3>3. CASE Story(c) = <<Sent, Completed(r)>> /\ r.says = "failed"
      <4>1. Story(c) \in full
        BY <2>2, <3>3, Outcomes DEF Completed
      <4>2. QED BY <3>3, <4>1 DEF Last, Completed
    <3>4. QED BY <3>1, <3>2, <3>3 DEF Told
  <2>6. QED BY <2>4, <2>5 DEF Sent, Called
<1>2. IInv => CallStory
  BY <1>1 DEF CallStory
<1>3. QED
  BY <1>2, Invariance, PTL

\* What is out about an inbound CALL is its story or a beginning of it, in order and once,
\* and the whole of it when serve_one_call returns Ok.
THEOREM ServingTellsItsStory == Spec => []ServeStory
<1>1. ASSUME NEW i \in Inbound, i \in Rejected \/ task[i] \in {"ok", "err", "long_err", "panic"}
      PROVE  ReplyStory(i) = Append(Served(i), Answered(i))
  BY <1>1, ServedThenAnswered
<1>2. ASSUME IInv, NEW i \in Inbound
      PROVE  IsPrefix(Story(i), ReplyStory(i))
  <2>1. CASE i \in Rejected
    <3>1. ReplyStory(i) = <<Answered(i)>>
      BY <1>1, <2>1, Appends DEF Served
    <3>2. Story(i) = <<>> \/ Story(i) = <<Answered(i)>>
      BY <1>2, <2>1, Appends DEF IInv, ServeInv, ServeBegun, Served
    <3>3. QED BY <3>1, <3>2, BeginningsOf
  <2>2. CASE i \notin Rejected /\ task[i] \in {"ok", "err"}
    <3>1. Append(Served(i), Answered(i)) = <<Received, Replied(i), Answered(i)>>
      BY <2>2, Appends DEF Served
    <3>2. ReplyStory(i) = <<Received, Replied(i), Answered(i)>>
      BY <1>1, <2>2, <3>1
    <3>3. Story(i) \in {<<>>, <<Received>>, <<Received, Replied(i)>>,
                        <<Received, Replied(i), Answered(i)>>}
      BY <1>2, <3>1 DEF IInv, ServeInv, ServeBegun
    <3>4. QED BY <3>2, <3>3, BeginningsOf
  <2>3. CASE i \notin Rejected /\ task[i] \in {"panic", "long_err"}
    <3>1. Append(Served(i), Answered(i)) = <<Received, Answered(i)>>
      BY <2>3, Appends DEF Served
    <3>2. ReplyStory(i) = <<Received, Answered(i)>>
      BY <1>1, <2>3, <3>1
    <3>3. Story(i) \in {<<>>, <<Received>>, <<Received, Answered(i)>>}
      BY <1>2, <2>3, <3>1 DEF IInv, ServeInv, ServeBegun
    <3>4. QED BY <3>2, <3>3, BeginningsOf
  <2>4. CASE i \notin Rejected /\ task[i] \notin {"ok", "err", "long_err", "panic"}
    <3>1. ReplyStory(i) = <<Received>> \o <<>>
      BY <2>4 DEF ReplyStory, Received, Rejected
    <3>2. ReplyStory(i) = <<Received>>
      BY <3>1, FirstThenRest
    <3>3. Story(i) \in {<<>>, <<Received>>}
      BY <1>2, <2>4 DEF IInv, ServeInv, ServeBegun
    <3>4. QED BY <3>2, <3>3, BeginningsOf
  <2>5. QED BY <2>1, <2>2, <2>3, <2>4
<1>3. ASSUME IInv, NEW i \in Inbound, served[i] = "replied"
      PROVE  Story(i) = ReplyStory(i) /\ \A p \in DOMAIN out : out[p].of = i => out[p].whole
  BY <1>1, <1>3 DEF IInv, ServeInv, ServeOver
<1>4. IInv => ServeStory
  BY <1>2, <1>3 DEF ServeStory
<1>5. QED
  BY <1>4, Invariance, PTL

=============================================================================
