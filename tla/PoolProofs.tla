----------------------------- MODULE PoolProofs -----------------------------
(***************************************************************************)
(* Proofs about Pool for every number of seeds, stations, callers and       *)
(* sessions, on either flavour of the runtime.                              *)
(*                                                                          *)
(* The inductive invariant has four parts.  Types alone are not inductive:  *)
(* an actor that unlocks must be at the head of a queue (HolderInv), and an *)
(* actor that works must work on a link of the pool (ScopeInv).  The claim  *)
(* on a link is the exclusive property of one actor (ClaimInv).             *)
(*                                                                          *)
(* The second half proves more: what holds of the queues, the sessions that *)
(* are offered and the close (LinkInv).                                     *)
(***************************************************************************)
EXTENDS Pool, SequenceTheorems, FiniteSetTheorems, TLAPS

\* Labels of actors that are at work on a link.
Placed ==
  {"lock", "using", "mark", "markLock", "claim", "spawn", "blocked", "find", "finding",
   "newClaim", "newSpawn", "check", "dial", "install", "announce", "sleep", "release",
   "drainLock", "goodbye"}

\* Labels of actors that hold the lock of their link across an await.
Holding == {"using", "finding", "goodbye"}

ScopeInv ==
  /\ \A a \in Users \cup {Closer} : todo[a] \subseteq Known
  /\ \A a \in Actors : pc[a] \in Placed => at[a] \in Known
  /\ \A t \in Tasks : pc[t] = "new" => at[t] \in Known
  /\ pc[Disco] = "push" => at[Disco] \in Discoverable

HolderInv == \A a \in Actors : pc[a] \in Holding => Holds(a, at[a])

ClaimInv ==
  /\ \A a \in Actors, l \in Links : OwnsClaim(a, l) => redialing[l]
  /\ OneLifecycle

IInv == TypeOK /\ ScopeInv /\ HolderInv /\ ClaimInv

-----------------------------------------------------------------------------
(* Queues.                                                                  *)

\* Joining a queue leaves its head alone.
LEMMA AppendKeepsHead ==
  ASSUME NEW S, NEW q \in Seq(S), NEW e \in S
  PROVE  /\ Append(q, e) \in Seq(S)
         /\ Append(q, e) # <<>>
         /\ q # <<>> => Head(Append(q, e)) = Head(q)
  BY AppendProperties

\* Leaving a queue from behind its head leaves its head alone.
LEMMA RemoveKeepsHead ==
  ASSUME NEW S, NEW q \in Seq(S), NEW i \in 1..Len(q)
  PROVE  /\ RemoveAt(q, i) \in Seq(S)
         /\ q[i] # Head(q) => RemoveAt(q, i) # <<>> /\ Head(RemoveAt(q, i)) = Head(q)
<1> DEFINE front == SubSeq(q, 1, i - 1)
           back  == SubSeq(q, i + 1, Len(q))
<1>1. /\ front \in Seq(S)
      /\ Len(front) = i - 1
      /\ \A j \in 1..(i - 1) : front[j] = q[j]
  <2>1. \A j \in 1..(i - 1) : q[j] \in S
    OBVIOUS
  <2>2. QED
    BY <2>1, SubSeqProperties
<1>2. back \in Seq(S)
  <2>1. \A j \in (i + 1)..Len(q) : q[j] \in S
    OBVIOUS
  <2>2. QED
    BY <2>1, SubSeqProperties
<1>3. RemoveAt(q, i) = front \o back
  BY DEF RemoveAt
<1>  HIDE DEF front, back
<1>4. RemoveAt(q, i) \in Seq(S)
  BY <1>1, <1>2, <1>3, ConcatProperties
<1>5. ASSUME q[i] # Head(q)
      PROVE  RemoveAt(q, i) # <<>> /\ Head(RemoveAt(q, i)) = Head(q)
  <2>1. i > 1 /\ Len(front) >= 1
    BY <1>1, <1>5
  <2>2. Len(front \o back) >= 1 /\ (front \o back)[1] = front[1]
    <3>1. Len(back) \in Nat
      BY <1>2
    <3>2. QED
      BY <1>1, <1>2, <2>1, <3>1, ConcatProperties
  <2>3. front[1] = q[1]
    BY <1>1, <2>1
  <2>4. QED
    BY <1>3, <1>4, <2>2, <2>3
<1>6. QED
  BY <1>4, <1>5

-----------------------------------------------------------------------------
(* Types.                                                                   *)

\* The links of the pool are links.
LEMMA KnownLinks ==
  ASSUME TypeOK
  PROVE  Known \subseteq Links
  BY DEF TypeOK, Known

\* An actor at work works on a link.
LEMMA PlacedLink ==
  ASSUME TypeOK, ScopeInv, NEW a \in Actors, pc[a] \in Placed
  PROVE  at[a] \in Links
  BY KnownLinks DEF ScopeInv

\* The names of the actors are distinct.
LEMMA ActorKinds ==
  /\ Users \subseteq Actors /\ Tasks \subseteq Actors /\ Callers \subseteq Users
  /\ Closer \in Actors /\ Disco \in Users
  /\ Closer \notin Users /\ Closer \notin Tasks /\ Disco \notin Callers
  /\ \A t \in Tasks : t \notin Users
  BY PoolAssumption DEF Users, Actors

\* Queues stay queues of actors.
LEMMA QueueTypes ==
  ASSUME TypeOK, NEW l \in Links, NEW a \in Actors
  PROVE  /\ Enqueue(a, l) => mutex' \in [Links -> Seq(Actors)]
         /\ Unlock(l) /\ mutex[l] # <<>> => mutex' \in [Links -> Seq(Actors)]
<1>1. mutex \in [Links -> Seq(Actors)] /\ mutex[l] \in Seq(Actors)
  BY DEF TypeOK
<1>2. Append(mutex[l], a) \in Seq(Actors)
  BY <1>1, AppendKeepsHead
<1>3. mutex[l] # <<>> => Tail(mutex[l]) \in Seq(Actors)
  BY <1>1, HeadTailProperties
<1>4. QED
  BY <1>1, <1>2, <1>3 DEF Enqueue, Unlock

\* The initial state is well typed.
LEMMA InitType ==
  ASSUME Init
  PROVE  TypeOK
<1>1. links \in Seq(Links)
  BY PoolAssumption DEF Init, Links
<1>2. pc \in [Actors -> {"new", "off", "idle"}]
  BY DEF Init
<1>3. LabelsOK
  BY <1>2, ActorKinds DEF Init, LabelsOK, UserLabels, DiscoLabels, TaskLabels, CloserLabels
<1>4. at \in [Actors -> Links \cup {NoLink}]
  BY DEF Init, Links
<1>5. mutex \in [Links -> Seq(Actors)]
  BY DEF Init
<1>6. failures \in [Links -> 0..MaxFailures]
  BY PoolAssumption DEF Init
<1>7. redialing \in [Links -> BOOLEAN] /\ todo \in [Users \cup {Closer} -> SUBSET Links]
  BY DEF Init
<1>8. /\ session \in [Links -> Sessions \cup {NoSession}]
      /\ connected \in [Links -> BOOLEAN]
  BY DEF Init
<1>9. /\ sess \in [Actors -> Sessions \cup {NoSession}]
      /\ op \in [Users -> {"call", "publish"}]
  BY DEF Init
<1>10. gaveUp = [l \in Links |-> FALSE] /\ stop = FALSE
  BY DEF Init
<1>11. QED
  BY <1>1, <1>3, <1>4, <1>5, <1>6, <1>7, <1>8, <1>9, <1>10 DEF TypeOK

\* A step of a user leaves every actor at a place of its code.
LEMMA UserLabel ==
  ASSUME LabelsOK, NEW u \in Users, UserStep(u)
  PROVE  LabelsOK'
<1> USE ActorKinds DEF LabelsOK, Goto, Move, UserLabels, DiscoLabels, TaskLabels, CloserLabels
<1>1. u \in Callers \/ u = Disco
  BY DEF Users
<1>2. CASE Return(u)
  BY <1>1, <1>2 DEF Return, Finish
<1>3. CASE \E l \in Links : TryNext(u, l)
  BY <1>1, <1>3 DEF TryNext
<1>4. CASE Skip(u)
  BY <1>1, <1>4 DEF Skip
<1>5. CASE Use(u)
  BY <1>1, <1>5 DEF Use
<1>6. CASE Succeed(u)
  BY <1>1, <1>6 DEF Succeed, Finish
<1>7. CASE Fail(u)
  BY <1>1, <1>7 DEF Fail
<1>8. CASE MarkLock(u)
  BY <1>1, <1>8 DEF MarkLock
<1>9. CASE MarkDisconnected(u)
  BY <1>1, <1>9 DEF MarkDisconnected
<1>10. CASE try_claim_redial(u)
  BY <1>1, <1>10 DEF try_claim_redial
<1>11. CASE Spawn(u)
  BY <1>1, <1>11 DEF Spawn
<1>12. QED
  BY <1>2, <1>3, <1>4, <1>5, <1>6, <1>7, <1>8, <1>9, <1>10, <1>11 DEF UserStep, UserMove, Used

\* A step of a user keeps the types.
LEMMA UserType ==
  ASSUME TypeOK, ScopeInv, HolderInv, NEW u \in Users, UserStep(u)
  PROVE  TypeOK'
<1>1. LabelsOK'
  BY UserLabel DEF TypeOK
<1> USE <1>1, ActorKinds DEF TypeOK, Move, linkVars, userVars
<1>2. CASE Return(u)
  BY <1>2 DEF Return, Finish
<1>3. CASE \E l \in Links : TryNext(u, l)
  BY <1>3, QueueTypes DEF TryNext
<1>4. CASE Skip(u)
  BY <1>4, PlacedLink, QueueTypes DEF Skip, Holds, Placed
<1>5. CASE Use(u)
  BY <1>5, PlacedLink DEF Use, Placed
<1>6. CASE Succeed(u)
  BY <1>6, PlacedLink, QueueTypes DEF Succeed, Finish, Placed, Holds, HolderInv, Holding
<1>7. CASE Fail(u)
  BY <1>7, PlacedLink, QueueTypes DEF Fail, Placed, Holds, HolderInv, Holding
<1>8. CASE MarkLock(u)
  BY <1>8, PlacedLink, QueueTypes DEF MarkLock, Placed
<1>9. CASE MarkDisconnected(u)
  BY <1>9, PlacedLink, QueueTypes DEF MarkDisconnected, Placed, Holds
<1>10. CASE try_claim_redial(u)
  BY <1>10 DEF try_claim_redial
<1>11. CASE Spawn(u)
  BY <1>11, PlacedLink DEF Spawn, Placed
<1>12. QED
  BY <1>2, <1>3, <1>4, <1>5, <1>6, <1>7, <1>8, <1>9, <1>10, <1>11 DEF UserStep, UserMove, Used

\* A step of a lifecycle task leaves every actor at a place of its code.
LEMMA TaskLabel ==
  ASSUME LabelsOK, NEW t \in Tasks, TaskStep(t)
  PROVE  LabelsOK'
<1> USE ActorKinds DEF LabelsOK, Goto, Move, UserLabels, DiscoLabels, TaskLabels, CloserLabels
<1>1. CASE Start(t)
  BY <1>1 DEF Start
<1>2. CASE Check(t)
  BY <1>2 DEF Check
<1>3. CASE DialOk(t)
  BY <1>3 DEF DialOk
<1>4. CASE DialErr(t)
  BY <1>4 DEF DialErr
<1>5. CASE Wake(t)
  BY <1>5 DEF Wake
<1>6. CASE Install(t)
  BY <1>6 DEF Install
<1>7. CASE Announce(t)
  BY <1>7 DEF Announce
<1>8. CASE Release(t)
  BY <1>8 DEF Release
<1>9. QED
  BY <1>1, <1>2, <1>3, <1>4, <1>5, <1>6, <1>7, <1>8 DEF TaskStep

\* A link without failures is in the range of the counter.
LEMMA ZeroFailures == 0 \in 0..MaxFailures
  BY PoolAssumption

\* A step of a lifecycle task keeps the types.
LEMMA TaskType ==
  ASSUME TypeOK, ScopeInv, HolderInv, NEW t \in Tasks, TaskStep(t)
  PROVE  TypeOK'
<1>1. LabelsOK'
  BY TaskLabel DEF TypeOK
<1> USE <1>1, ActorKinds DEF TypeOK, Move, linkVars, userVars
<1>2. CASE Start(t)
  BY <1>2 DEF Start
<1>3. CASE Check(t)
  BY <1>3 DEF Check
<1>4. CASE DialOk(t)
  BY <1>4, PlacedLink, QueueTypes DEF DialOk, Placed
<1>5. CASE DialErr(t)
  BY <1>5, PlacedLink, PoolAssumption DEF DialErr, Placed
<1>6. CASE Wake(t)
  BY <1>6 DEF Wake
<1>7. CASE Install(t)
  BY <1>7, PlacedLink, QueueTypes DEF Install, Placed, Holds
<1>8. CASE Announce(t)
  BY <1>8, ZeroFailures DEF Announce
<1>9. CASE Release(t)
  BY <1>9 DEF Release
<1>10. QED
  BY <1>2, <1>3, <1>4, <1>5, <1>6, <1>7, <1>8, <1>9 DEF TaskStep

\* A step of the discovery loop leaves every actor at a place of its code.
LEMMA DiscoLabel ==
  ASSUME LabelsOK, DiscoStep
  PROVE  LabelsOK'
<1> USE ActorKinds DEF LabelsOK, Goto, Move, UserLabels, DiscoLabels, TaskLabels, CloserLabels
<1>1. CASE DiscoStart
  BY <1>1 DEF DiscoStart
<1>2. CASE DiscoStop
  BY <1>2 DEF DiscoStop
<1>3. CASE Resolve
  BY <1>3 DEF Resolve
<1>4. CASE Find
  BY <1>4 DEF Find
<1>5. CASE FindDone
  BY <1>5 DEF FindDone
<1>6. CASE Invoke(Disco, "call")
  BY <1>6 DEF Invoke
<1>7. CASE \E l \in Links : CountSlots(l)
  BY <1>7 DEF CountSlots
<1>8. CASE PushLink
  BY <1>8 DEF PushLink
<1>9. CASE ClaimNew
  BY <1>9 DEF ClaimNew
<1>10. CASE Added
  BY <1>10 DEF Added
<1>11. QED
  BY <1>1, <1>2, <1>3, <1>4, <1>5, <1>6, <1>7, <1>8, <1>9, <1>10 DEF DiscoStep, DiscoMove

\* A step of the discovery loop keeps the types.
LEMMA DiscoType ==
  ASSUME TypeOK, ScopeInv, HolderInv, DiscoStep
  PROVE  TypeOK'
<1>1. LabelsOK'
  BY DiscoLabel DEF TypeOK
<1> USE <1>1, ActorKinds DEF TypeOK, Move, linkVars, userVars
<1>2. CASE DiscoStart
  BY <1>2 DEF DiscoStart
<1>3. CASE DiscoStop
  BY <1>3 DEF DiscoStop
<1>4. CASE Resolve
  BY <1>4, KnownLinks, QueueTypes DEF Resolve, ConnectedLinks, VisibleLinks
<1>5. CASE Find
  BY <1>5, PlacedLink, QueueTypes DEF Find, Placed, Holds
<1>6. CASE FindDone
  BY <1>6, PlacedLink, QueueTypes DEF FindDone, Placed, Holds, HolderInv, Holding
<1>7. CASE Invoke(Disco, "call")
  BY <1>7, KnownLinks DEF Invoke, ConnectedLinks, VisibleLinks
<1>8. CASE \E l \in Links : CountSlots(l)
  BY <1>8 DEF CountSlots
<1>9. CASE PushLink
  <2>1. at[Disco] \in Links
    BY <1>9 DEF PushLink, ScopeInv, Links
  <2>2. links' \in Seq(Links)
    BY <1>9, <2>1, AppendProperties DEF PushLink
  <2>3. QED
    BY <1>9, <2>2 DEF PushLink
<1>10. CASE ClaimNew
  BY <1>10 DEF ClaimNew
<1>11. CASE Added
  BY <1>11 DEF Added
<1>12. QED
  BY <1>2, <1>3, <1>4, <1>5, <1>6, <1>7, <1>8, <1>9, <1>10, <1>11 DEF DiscoStep, DiscoMove

\* A step of close leaves every actor at a place of its code.
LEMMA CloserLabel ==
  ASSUME LabelsOK, CloserStep
  PROVE  LabelsOK'
<1> USE ActorKinds DEF LabelsOK, Goto, Move, UserLabels, DiscoLabels, TaskLabels, CloserLabels
<1>1. CASE Shutdown
  BY <1>1 DEF Shutdown, StartDrain
<1>2. CASE \E a \in Tasks \cup {Disco} : Abort(a)
  BY <1>2 DEF Abort
<1>3. CASE Drain
  BY <1>3 DEF Drain, StartDrain
<1>4. CASE \E l \in Links : DrainNext(l)
  BY <1>4 DEF DrainNext
<1>5. CASE Take
  BY <1>5 DEF Take
<1>6. CASE Drained
  BY <1>6 DEF Drained
<1>7. CASE Closed
  BY <1>7 DEF Closed
<1>8. QED
  BY <1>1, <1>2, <1>3, <1>4, <1>5, <1>6, <1>7 DEF CloserStep, CloserMove

\* Who waits for a lock, and is not close, can leave the queue of its link.
LEMMA LockingLink ==
  ASSUME TypeOK, ScopeInv, NEW a \in Users \cup Tasks, pc[a] \in Locking
  PROVE  at[a] \in Links
BY PlacedLink, ActorKinds DEF Locking, Placed

\* A dropped future leaves its queue and nothing else changes in the queues.
LEMMA LeaveTypes ==
  ASSUME TypeOK, ScopeInv, NEW a \in Users \cup Tasks, LeaveQueue(a)
  PROVE  mutex' \in [Links -> Seq(Actors)]
<1>1. CASE pc[a] \notin Locking
  BY <1>1 DEF LeaveQueue, TypeOK
<1>2. CASE pc[a] \in Locking
  <2>1. at[a] \in Links
    BY <1>2, LockingLink
  <2>2. PICK i \in 1..Len(mutex[at[a]]) : mutex' = [mutex EXCEPT ![at[a]] = RemoveAt(@, i)]
    BY <1>2 DEF LeaveQueue
  <2>3. RemoveAt(mutex[at[a]], i) \in Seq(Actors)
    BY <2>1, RemoveKeepsHead DEF TypeOK
  <2>4. QED
    BY <2>1, <2>2, <2>3 DEF TypeOK
<1>3. QED
  BY <1>1, <1>2

\* A caller that is dropped leaves every variable with its type.
LEMMA DropType ==
  ASSUME TypeOK, ScopeInv, NEW c \in Callers, Drop(c)
  PROVE  TypeOK'
<1> USE ActorKinds
<1>1. mutex' \in [Links -> Seq(Actors)]
  BY LeaveTypes DEF Drop
<1>2. LabelsOK'
  BY DEF Drop, TypeOK, LabelsOK, Goto, UserLabels, DiscoLabels, TaskLabels, CloserLabels
<1>3. QED
  BY <1>1, <1>2 DEF Drop, Finish, TypeOK, linkVars

\* A step of close keeps the types.
LEMMA CloserType ==
  ASSUME TypeOK, ScopeInv, HolderInv, CloserStep
  PROVE  TypeOK'
<1>1. LabelsOK'
  BY CloserLabel DEF TypeOK
<1> USE <1>1, ActorKinds DEF TypeOK, Move, linkVars, userVars
<1>2. CASE Shutdown
  BY <1>2, KnownLinks DEF Shutdown, StartDrain
<1>3. CASE \E a \in Tasks \cup {Disco} : Abort(a)
  BY <1>3, LeaveTypes DEF Abort
<1>4. CASE Drain
  BY <1>4, KnownLinks DEF Drain, StartDrain
<1>5. CASE \E l \in Links : DrainNext(l)
  BY <1>5, QueueTypes DEF DrainNext
<1>6. CASE Take
  BY <1>6, PlacedLink DEF Take, Placed
<1>7. CASE Drained
  BY <1>7, PlacedLink, QueueTypes DEF Drained, Placed, Holds, HolderInv, Holding
<1>8. CASE Closed
  BY <1>8 DEF Closed
<1>9. QED
  BY <1>2, <1>3, <1>4, <1>5, <1>6, <1>7, <1>8 DEF CloserStep, CloserMove


\* Every step keeps the types.
LEMMA TypeStep ==
  ASSUME TypeOK, ScopeInv, HolderInv, [Next]_vars
  PROVE  TypeOK'
<1>1. CASE \E c \in Callers, o \in {"call", "publish"} : Invoke(c, o)
  BY <1>1, KnownLinks, ActorKinds DEF Invoke, TypeOK, LabelsOK, Goto, Move, FanOut, ConnectedLinks,
    VisibleLinks, UserLabels, DiscoLabels, linkVars
<1>2. CASE SendStop
  BY <1>2, ActorKinds DEF SendStop, TypeOK, LabelsOK, Goto, Move, CloserLabels, linkVars, userVars
<1>3. CASE \E c \in Callers : Drop(c)
  BY <1>3, DropType
<1>4. CASE UNCHANGED vars
  BY <1>4 DEF vars, TypeOK, LabelsOK, linkVars, userVars
<1>5. QED
  BY <1>1, <1>2, <1>3, <1>4, UserType, TaskType, DiscoType, CloserType DEF Next

-----------------------------------------------------------------------------
(* Everybody works on a link of the pool.                                   *)

\* Only the discovery loop changes the list of links.
LEMMA OnlyDiscoAdds ==
  ASSUME [Next]_vars, ~PushLink
  PROVE  links' = links
<1>1. CASE UNCHANGED vars
  BY <1>1 DEF vars, linkVars
<1>2. ASSUME NEW u \in Users, UserStep(u) PROVE links' = links
  BY <1>2 DEF UserStep, UserMove, Used, Return, Finish, TryNext, Skip, Use, Succeed, Fail, MarkLock,
    MarkDisconnected, try_claim_redial, Spawn, linkVars
<1>3. ASSUME NEW t \in Tasks, TaskStep(t) PROVE links' = links
  BY <1>3 DEF TaskStep, Start, Check, DialOk, DialErr, Wake, Install, Announce, Release,
    linkVars
<1>4. CASE DiscoStep
  BY <1>4 DEF DiscoStep, DiscoMove, DiscoStart, DiscoStop, Resolve, Find, FindDone, Invoke,
    CountSlots, ClaimNew, Added, linkVars
<1>5. CASE CloserStep \/ SendStop
  BY <1>5 DEF CloserStep, CloserMove, SendStop, Shutdown, Abort, Drain, DrainNext, Take, Drained,
      Closed,
    linkVars
<1>6. CASE \E c \in Callers, o \in {"call", "publish"} : Invoke(c, o)
  BY <1>6 DEF Invoke, linkVars
<1>7. CASE \E c \in Callers : Drop(c)
  BY <1>7 DEF Drop, linkVars
<1>8. QED
  BY <1>1, <1>2, <1>3, <1>4, <1>5, <1>6, <1>7 DEF Next

\* A link that was in the pool stays known, and discovery adds one at a time.
LEMMA KnownStep ==
  ASSUME TypeOK, ScopeInv, [Next]_vars
  PROVE  /\ Known \subseteq Known'
         /\ PushLink => Known' = Known \cup {at[Disco]}
<1>1. ASSUME PushLink, at[Disco] \notin Known
      PROVE  Known' = Known \cup {at[Disco]}
  <2> DEFINE l == at[Disco]
  <2>1. l \in Links /\ links' = Append(links, l)
    BY <1>1 DEF PushLink, ScopeInv, Links, Move
  <2>2. /\ Len(links') = Len(links) + 1
        /\ \A i \in 1..Len(links) : links'[i] = links[i]
        /\ links'[Len(links) + 1] = l
    BY <2>1, AppendProperties DEF TypeOK
  <2>3. Len(links) \in Nat
    BY DEF TypeOK
  <2> HIDE DEF l
  <2>4. Known' = Known \cup {l}
    BY <2>2, <2>3 DEF Known
  <2>5. QED
    BY <2>4 DEF l
<1>2. CASE links' = links
  BY <1>1, <1>2 DEF Known
<1>3. PushLink /\ at[Disco] \in Known => links' = links
  BY DEF PushLink
<1>4. QED
  BY <1>1, <1>2, <1>3, OnlyDiscoAdds DEF Known

\* A step of a user keeps everybody on links of the pool.
LEMMA UserScope ==
  ASSUME TypeOK, ScopeInv, NEW u \in Users, UserStep(u)
  PROVE  ScopeInv'
<1>1. Known \subseteq Known'
  BY KnownStep DEF Next
<1>2. /\ pc = [a \in Actors |-> pc[a]] /\ at = [a \in Actors |-> at[a]]
      /\ todo = [a \in Users \cup {Closer} |-> todo[a]]
  BY DEF TypeOK, LabelsOK
<1> USE ActorKinds, <1>2 DEF ScopeInv, Placed, Goto, Move, userVars
<1>3. CASE Return(u)
  BY <1>1, <1>3 DEF Return, Finish
<1>4. CASE \E l \in Links : TryNext(u, l)
  <2>1. PICK l \in Links : TryNext(u, l)
    BY <1>4
  <2>2. /\ pc' = [pc EXCEPT ![u] = "lock"]
        /\ at' = [at EXCEPT ![u] = l]
        /\ todo' = [todo EXCEPT ![u] = @ \ {l}]
        /\ l \in Known
    BY <2>1 DEF TryNext
  <2>3. QED
    BY <1>1, <2>2
<1>5. CASE Skip(u)
  BY <1>1, <1>5 DEF Skip
<1>6. CASE Use(u)
  BY <1>1, <1>6 DEF Use
<1>7. CASE Succeed(u)
  BY <1>1, <1>7 DEF Succeed, Finish
<1>8. CASE Fail(u)
  BY <1>1, <1>8 DEF Fail
<1>9. CASE MarkLock(u)
  BY <1>1, <1>9 DEF MarkLock
<1>10. CASE MarkDisconnected(u)
  BY <1>1, <1>10 DEF MarkDisconnected
<1>11. CASE try_claim_redial(u)
  BY <1>1, <1>11 DEF try_claim_redial
<1>12. CASE Spawn(u)
  BY <1>1, <1>12 DEF Spawn
<1>13. QED
  BY <1>3, <1>4, <1>5, <1>6, <1>7, <1>8, <1>9, <1>10, <1>11, <1>12 DEF UserStep, UserMove, Used

\* A step of a lifecycle task keeps everybody on links of the pool.
LEMMA TaskScope ==
  ASSUME TypeOK, ScopeInv, NEW t \in Tasks, TaskStep(t)
  PROVE  ScopeInv'
<1>1. Known \subseteq Known'
  BY KnownStep DEF Next
<1>2. /\ pc = [a \in Actors |-> pc[a]] /\ at = [a \in Actors |-> at[a]]
      /\ todo = [a \in Users \cup {Closer} |-> todo[a]]
  BY DEF TypeOK, LabelsOK
<1> USE ActorKinds, <1>2 DEF ScopeInv, Placed, Goto, Move, userVars
<1>3. CASE Start(t)
  BY <1>1, <1>3 DEF Start
<1>4. CASE Check(t)
  BY <1>1, <1>4 DEF Check
<1>5. CASE DialOk(t)
  BY <1>1, <1>5 DEF DialOk
<1>6. CASE DialErr(t)
  BY <1>1, <1>6 DEF DialErr
<1>7. CASE Wake(t)
  BY <1>1, <1>7 DEF Wake
<1>8. CASE Install(t)
  BY <1>1, <1>8 DEF Install
<1>9. CASE Announce(t)
  BY <1>1, <1>9 DEF Announce
<1>10. CASE Release(t)
  BY <1>1, <1>10 DEF Release
<1>11. QED
  BY <1>3, <1>4, <1>5, <1>6, <1>7, <1>8, <1>9, <1>10 DEF TaskStep

\* A step of the discovery loop keeps everybody on links of the pool.
LEMMA DiscoScope ==
  ASSUME TypeOK, ScopeInv, DiscoStep
  PROVE  ScopeInv'
<1>1. Known \subseteq Known'
  BY KnownStep DEF Next
<1>2. /\ pc = [a \in Actors |-> pc[a]] /\ at = [a \in Actors |-> at[a]]
      /\ todo = [a \in Users \cup {Closer} |-> todo[a]]
  BY DEF TypeOK, LabelsOK
<1> USE ActorKinds, <1>2 DEF ScopeInv, Placed, Goto, Move, userVars
<1>3. CASE DiscoStart
  BY <1>1, <1>3 DEF DiscoStart
<1>4. CASE DiscoStop
  BY <1>1, <1>4 DEF DiscoStop
<1>5. CASE Resolve
  BY <1>1, <1>5 DEF Resolve, ConnectedLinks, VisibleLinks
<1>6. CASE Find
  BY <1>1, <1>6 DEF Find
<1>7. CASE FindDone
  BY <1>1, <1>7 DEF FindDone
<1>8. CASE Invoke(Disco, "call")
  <2>1. /\ pc' = [pc EXCEPT ![Disco] = "next"] /\ at' = at
        /\ todo' = [todo EXCEPT ![Disco] = ConnectedLinks]
    BY <1>8 DEF Invoke
  <2>2. ConnectedLinks \subseteq Known
    BY DEF ConnectedLinks, VisibleLinks
  <2>3. QED
    BY <1>1, <2>1, <2>2
<1>9. CASE \E l \in Links : CountSlots(l)
  BY <1>1, <1>9, KnownStep DEF CountSlots
<1>10. CASE PushLink
  <2>1. at[Disco] \in Known'
    BY <1>10, KnownStep DEF PushLink, Next, DiscoStep, DiscoMove
  <2>2. /\ UNCHANGED <<at, todo>>
        /\ pc' \in {[pc EXCEPT ![Disco] = "adding"], [pc EXCEPT ![Disco] = "newClaim"]}
    BY <1>10 DEF PushLink
  <2>3. QED
    BY <1>1, <2>1, <2>2
<1>11. CASE ClaimNew
  BY <1>1, <1>11 DEF ClaimNew
<1>12. CASE Added
  BY <1>1, <1>12, KnownStep DEF Added
<1>13. QED
  BY <1>3, <1>4, <1>5, <1>6, <1>7, <1>8, <1>9, <1>10, <1>11, <1>12 DEF DiscoStep, DiscoMove

\* A step of close keeps everybody on links of the pool.
LEMMA CloserScope ==
  ASSUME TypeOK, ScopeInv, CloserStep
  PROVE  ScopeInv'
<1>1. Known \subseteq Known'
  BY KnownStep DEF Next
<1>2. /\ pc = [a \in Actors |-> pc[a]] /\ at = [a \in Actors |-> at[a]]
      /\ todo = [a \in Users \cup {Closer} |-> todo[a]]
  BY DEF TypeOK, LabelsOK
<1> USE ActorKinds, <1>2 DEF ScopeInv, Placed, Goto, Move, userVars
<1>3. CASE Shutdown
  BY <1>1, <1>3 DEF Shutdown, StartDrain
<1>4. CASE \E a \in Tasks \cup {Disco} : Abort(a)
  <2>1. PICK a \in Tasks \cup {Disco} : Abort(a)
    BY <1>4
  <2>2. /\ a \in Actors /\ pc'[a] \in {"gone", "idle"} /\ todo' = todo
        /\ \A b \in Actors \ {a} : pc'[b] = pc[b] /\ at'[b] = at[b]
    BY <2>1 DEF Abort
  <2>3. QED BY <1>1, <2>2
<1>5. CASE Drain
  BY <1>1, <1>5 DEF Drain, StartDrain
<1>6. CASE \E l \in Links : DrainNext(l)
  <2>1. PICK l \in Links : DrainNext(l)
    BY <1>6
  <2>2. /\ pc' = [pc EXCEPT ![Closer] = "drainLock"]
        /\ at' = [at EXCEPT ![Closer] = l]
        /\ todo' = [todo EXCEPT ![Closer] = @ \ {l}]
        /\ l \in Known
    BY <2>1 DEF DrainNext
  <2>3. QED
    BY <1>1, <2>2
<1>7. CASE Take
  BY <1>1, <1>7 DEF Take
<1>8. CASE Drained
  BY <1>1, <1>8 DEF Drained
<1>9. CASE Closed
  BY <1>1, <1>9 DEF Closed
<1>10. QED
  BY <1>3, <1>4, <1>5, <1>6, <1>7, <1>8, <1>9 DEF CloserStep, CloserMove

\* Every step keeps everybody on links of the pool.
LEMMA ScopeStep ==
  ASSUME TypeOK, ScopeInv, [Next]_vars
  PROVE  ScopeInv'
<1>1. Known \subseteq Known'
  BY KnownStep
<1>2. CASE \E c \in Callers, o \in {"call", "publish"} : Invoke(c, o)
  BY <1>1, <1>2, ActorKinds DEF Invoke, TypeOK, ScopeInv, Placed, Goto, Move, FanOut,
    ConnectedLinks, VisibleLinks
<1>3. CASE SendStop
  BY <1>1, <1>3, ActorKinds DEF SendStop, TypeOK, ScopeInv, Placed, Goto, Move, userVars
<1>4. CASE \E c \in Callers : Drop(c)
  BY <1>1, <1>4, ActorKinds DEF Drop, Finish, Goto, TypeOK, LabelsOK, ScopeInv, Placed
<1>5. CASE UNCHANGED vars
  BY <1>1, <1>5 DEF vars, ScopeInv, userVars
<1>6. QED
  BY <1>2, <1>3, <1>4, <1>5, UserScope, TaskScope, DiscoScope, CloserScope DEF Next

-----------------------------------------------------------------------------
(* Whoever uses a session holds the lock of its link.                       *)

\* A holder stays at the head when another joins the queue or unlocks.
LEMMA HeadKept ==
  ASSUME TypeOK, NEW l \in Links, NEW m \in Links, NEW a \in Actors, NEW b \in Actors,
         a # b, Holds(b, m)
  PROVE  /\ Enqueue(a, l) => Holds(b, m)'
         /\ Unlock(l) /\ Holds(a, l) => Holds(b, m)'
<1>1. mutex[l] \in Seq(Actors) /\ mutex = [x \in Links |-> mutex[x]]
  BY DEF TypeOK
<1>2. ASSUME Enqueue(a, l) PROVE Holds(b, m)'
  BY <1>1, <1>2, AppendKeepsHead DEF Enqueue, Holds
<1>3. ASSUME Unlock(l), Holds(a, l) PROVE Holds(b, m)'
  BY <1>1, <1>3 DEF Unlock, Holds
<1>4. QED
  BY <1>2, <1>3

\* A step of a user takes no lock from another and uses a session under its own.
LEMMA UserHolds ==
  ASSUME TypeOK, ScopeInv, HolderInv, NEW u \in Users, UserStep(u)
  PROVE  HolderInv'
<1> SUFFICES ASSUME NEW b \in Actors, pc'[b] \in Holding
             PROVE  Holds(b, at[b])'
  BY DEF HolderInv
<1>1. pc = [a \in Actors |-> pc[a]] /\ at = [a \in Actors |-> at[a]]
  BY DEF TypeOK, LabelsOK
<1>2. pc[b] \in Holding => at[b] \in Links /\ Holds(b, at[b])
  BY PlacedLink DEF HolderInv, Placed, Holding
<1> USE ActorKinds, <1>1, <1>2 DEF Holding, Goto, Move
<1>3. CASE Return(u)
  BY <1>3 DEF Return, Finish, Holds
<1>4. CASE \E l \in Links : TryNext(u, l)
  BY <1>4, HeadKept DEF TryNext
<1>5. CASE Skip(u)
  BY <1>5, PlacedLink, HeadKept DEF Skip, Placed
<1>6. CASE Use(u)
  BY <1>6 DEF Use, Holds
<1>7. CASE Succeed(u)
  BY <1>7, PlacedLink, HeadKept DEF Succeed, Finish, Placed, HolderInv
<1>8. CASE Fail(u)
  BY <1>8, PlacedLink, HeadKept DEF Fail, Placed, HolderInv
<1>9. CASE MarkLock(u)
  BY <1>9, PlacedLink, HeadKept DEF MarkLock, Placed
<1>10. CASE MarkDisconnected(u)
  BY <1>10, PlacedLink, HeadKept DEF MarkDisconnected, Placed
<1>11. CASE try_claim_redial(u)
  BY <1>11 DEF try_claim_redial, Holds
<1>12. CASE Spawn(u)
  BY <1>12 DEF Spawn, Holds
<1>13. QED
  BY <1>3, <1>4, <1>5, <1>6, <1>7, <1>8, <1>9, <1>10, <1>11, <1>12 DEF UserStep, UserMove, Used

\* A step of a lifecycle task takes no lock from another.
LEMMA TaskHolds ==
  ASSUME TypeOK, ScopeInv, HolderInv, NEW t \in Tasks, TaskStep(t)
  PROVE  HolderInv'
<1> SUFFICES ASSUME NEW b \in Actors, pc'[b] \in Holding
             PROVE  Holds(b, at[b])'
  BY DEF HolderInv
<1>1. pc = [a \in Actors |-> pc[a]] /\ at = [a \in Actors |-> at[a]]
  BY DEF TypeOK, LabelsOK
<1>2. pc[b] \in Holding => at[b] \in Links /\ Holds(b, at[b])
  BY PlacedLink DEF HolderInv, Placed, Holding
<1> USE ActorKinds, <1>1, <1>2 DEF Holding, Goto, Move
<1>3. CASE Start(t)
  BY <1>3 DEF Start, Holds
<1>4. CASE Check(t)
  BY <1>4 DEF Check, Holds
<1>5. CASE DialOk(t)
  BY <1>5, PlacedLink, HeadKept DEF DialOk, Placed
<1>6. CASE DialErr(t)
  BY <1>6 DEF DialErr, Holds
<1>7. CASE Wake(t)
  BY <1>7 DEF Wake, Holds
<1>8. CASE Install(t)
  BY <1>8, PlacedLink, HeadKept DEF Install, Placed
<1>9. CASE Announce(t)
  BY <1>9 DEF Announce, Holds
<1>10. CASE Release(t)
  BY <1>10 DEF Release, Holds
<1>11. QED
  BY <1>3, <1>4, <1>5, <1>6, <1>7, <1>8, <1>9, <1>10 DEF TaskStep

\* A step of the discovery loop takes no lock from another.
LEMMA DiscoHolds ==
  ASSUME TypeOK, ScopeInv, HolderInv, DiscoStep
  PROVE  HolderInv'
<1> SUFFICES ASSUME NEW b \in Actors, pc'[b] \in Holding
             PROVE  Holds(b, at[b])'
  BY DEF HolderInv
<1>1. pc = [a \in Actors |-> pc[a]] /\ at = [a \in Actors |-> at[a]]
  BY DEF TypeOK, LabelsOK
<1>2. pc[b] \in Holding => at[b] \in Links /\ Holds(b, at[b])
  BY PlacedLink DEF HolderInv, Placed, Holding
<1> USE ActorKinds, <1>1, <1>2 DEF Holding, Goto, Move
<1>3. CASE DiscoStart
  BY <1>3 DEF DiscoStart, Holds
<1>4. CASE DiscoStop
  BY <1>4 DEF DiscoStop, Holds
<1>5. CASE Resolve
  BY <1>5, KnownLinks, HeadKept DEF Resolve, ConnectedLinks, VisibleLinks
<1>6. CASE Find
  BY <1>6, PlacedLink, HeadKept DEF Find, Placed, Holds
<1>7. CASE FindDone
  BY <1>7, PlacedLink, HeadKept DEF FindDone, Placed, HolderInv
<1>8. CASE Invoke(Disco, "call")
  BY <1>8 DEF Invoke, Holds
<1>9. CASE \E l \in Links : CountSlots(l)
  BY <1>9 DEF CountSlots, Holds
<1>10. CASE PushLink
  BY <1>10 DEF PushLink, Holds
<1>11. CASE ClaimNew
  BY <1>11 DEF ClaimNew, Holds
<1>12. CASE Added
  BY <1>12 DEF Added, Holds
<1>13. QED
  BY <1>3, <1>4, <1>5, <1>6, <1>7, <1>8, <1>9, <1>10, <1>11, <1>12 DEF DiscoStep, DiscoMove

\* A dropped future leaves the holders of all locks in place, but for itself.
LEMMA LeaveHolds ==
  ASSUME TypeOK, ScopeInv, HolderInv, NEW a \in Users \cup Tasks, LeaveQueue(a),
         NEW b \in Actors, a # b, pc[b] \in Holding, at'[b] = at[b]
  PROVE  Holds(b, at[b])'
<1>1. at[b] \in Links /\ Holds(b, at[b])
  BY PlacedLink DEF HolderInv, Placed, Holding
<1>2. CASE pc[a] \notin Locking
  BY <1>1, <1>2 DEF LeaveQueue, Holds
<1>3. CASE pc[a] \in Locking
  <2>1. at[a] \in Links
    BY <1>3, LockingLink
  <2>2. PICK i \in 1..Len(mutex[at[a]]) :
          /\ mutex[at[a]][i] = a
          /\ mutex' = [mutex EXCEPT ![at[a]] = RemoveAt(@, i)]
    BY <1>3 DEF LeaveQueue
  <2>3. CASE at[a] = at[b]
    <3>1. RemoveAt(mutex[at[a]], i) # <<>> /\ Head(RemoveAt(mutex[at[a]], i)) = b
      BY <1>1, <2>1, <2>2, <2>3, RemoveKeepsHead DEF TypeOK, Holds
    <3>2. QED
      BY <1>1, <2>1, <2>2, <2>3, <3>1 DEF TypeOK, Holds
  <2>4. CASE at[a] # at[b]
    BY <1>1, <2>1, <2>2, <2>4 DEF TypeOK, Holds
  <2>5. QED
    BY <2>3, <2>4
<1>4. QED
  BY <1>2, <1>3

\* A caller that is dropped takes no lock from another.
LEMMA DropHolds ==
  ASSUME TypeOK, ScopeInv, HolderInv, NEW c \in Callers, Drop(c)
  PROVE  HolderInv'
<1> SUFFICES ASSUME NEW b \in Actors, pc'[b] \in Holding
             PROVE  Holds(b, at[b])'
  BY DEF HolderInv
<1>1. c \in Actors /\ c \in Users \cup Tasks /\ LeaveQueue(c)
  BY ActorKinds DEF Drop
<1>2. pc'[c] = "idle" /\ \A a \in Actors \ {c} : pc'[a] = pc[a] /\ at'[a] = at[a]
  BY <1>1 DEF Drop, Finish, Goto, TypeOK, LabelsOK
<1>3. b # c
  BY <1>2 DEF Holding
<1>4. QED
  BY <1>1, <1>2, <1>3, LeaveHolds

\* A step of close takes no lock from another.
LEMMA CloserHolds ==
  ASSUME TypeOK, ScopeInv, HolderInv, CloserStep
  PROVE  HolderInv'
<1> SUFFICES ASSUME NEW b \in Actors, pc'[b] \in Holding
             PROVE  Holds(b, at[b])'
  BY DEF HolderInv
<1>1. pc = [a \in Actors |-> pc[a]] /\ at = [a \in Actors |-> at[a]]
  BY DEF TypeOK, LabelsOK
<1>2. pc[b] \in Holding => at[b] \in Links /\ Holds(b, at[b])
  BY PlacedLink DEF HolderInv, Placed, Holding
<1> USE ActorKinds, <1>1, <1>2 DEF Holding, Goto, Move
<1>3. CASE Shutdown
  BY <1>3 DEF Shutdown, StartDrain, Holds
<1>4. CASE \E a \in Tasks \cup {Disco} : Abort(a)
  <2>1. PICK a \in Tasks \cup {Disco} : Abort(a)
    BY <1>4
  <2>2. a \in Actors /\ a \in Users \cup Tasks /\ LeaveQueue(a)
    BY <2>1 DEF Abort
  <2>3. a # b /\ pc'[b] = pc[b] /\ at'[b] = at[b]
    BY <2>1, <2>2 DEF Abort
  <2>4. QED
    BY <2>2, <2>3, LeaveHolds
<1>5. CASE Drain
  BY <1>5 DEF Drain, StartDrain, Holds
<1>6. CASE \E l \in Links : DrainNext(l)
  BY <1>6, HeadKept DEF DrainNext
<1>7. CASE Take
  BY <1>7 DEF Take, Holds
<1>8. CASE Drained
  BY <1>8, PlacedLink, HeadKept DEF Drained, Placed, HolderInv
<1>9. CASE Closed
  BY <1>9 DEF Closed, Holds
<1>10. QED
  BY <1>3, <1>4, <1>5, <1>6, <1>7, <1>8, <1>9 DEF CloserStep, CloserMove

\* Whoever uses a session holds the lock of its link, after every step.
LEMMA HolderStep ==
  ASSUME TypeOK, ScopeInv, HolderInv, [Next]_vars
  PROVE  HolderInv'
<1>1. CASE \E c \in Callers, o \in {"call", "publish"} : Invoke(c, o)
  BY <1>1, ActorKinds DEF Invoke, HolderInv, Holding, Holds, Goto, Move, TypeOK, LabelsOK
<1>2. CASE SendStop
  BY <1>2, ActorKinds DEF SendStop, HolderInv, Holding, Holds, Goto, Move, TypeOK, LabelsOK
<1>3. CASE \E c \in Callers : Drop(c)
  BY <1>3, DropHolds
<1>4. CASE UNCHANGED vars
  BY <1>4 DEF vars, HolderInv, Holds
<1>5. QED
  BY <1>1, <1>2, <1>3, <1>4, UserHolds, TaskHolds, DiscoHolds, CloserHolds DEF Next

-----------------------------------------------------------------------------
(* One claim, one lifecycle.                                                *)

\* In the initial state every seed has the one task that was spawned for it.
LEMMA InitClaim ==
  ASSUME Init
  PROVE  ScopeInv /\ HolderInv /\ ClaimInv
<1>1. PICK owner \in [BootstrapLinks -> Tasks], callers \in Applications, discovery \in Discovery :
        /\ \A l, m \in BootstrapLinks : l # m => owner[l] # owner[m]
        /\ pc = [a \in Actors |->
                   CASE \E l \in BootstrapLinks : owner[l] = a -> "new"
                     [] a = Disco -> IF discovery THEN "new" ELSE "off"
                     [] a \in Callers -> IF a \in callers THEN "idle" ELSE "off"
                     [] OTHER -> "idle"]
        /\ at = [a \in Actors |->
                   IF \E l \in BootstrapLinks : owner[l] = a
                   THEN CHOOSE l \in BootstrapLinks : owner[l] = a
                   ELSE NoLink]
  BY DEF Init
<1>2. Known = BootstrapLinks
  BY DEF Init, Known, BootstrapLinks
<1>3. \A a \in Actors : pc[a] \in {"new", "off", "idle"}
  BY <1>1
<1>4. \A t \in Tasks : pc[t] # "idle" => at[t] \in BootstrapLinks /\ owner[at[t]] = t
  BY <1>1, ActorKinds
<1>5. ScopeInv
  BY <1>2, <1>3, <1>4, ActorKinds DEF Init, ScopeInv, Placed
<1>6. HolderInv
  BY <1>3 DEF HolderInv, Holding
<1>7. ASSUME NEW a \in Actors, NEW l \in Links, OwnsClaim(a, l)
      PROVE  l \in BootstrapLinks /\ owner[l] = a
  BY <1>3, <1>4, <1>7, ActorKinds DEF OwnsClaim
<1>8. ClaimInv
  <2>1. \A a \in Actors, l \in Links : OwnsClaim(a, l) => redialing[l]
    <3>1. redialing = [l \in Links |-> l \in BootstrapLinks]
      BY DEF Init
    <3>2. QED
      BY <1>7, <3>1
  <2>2. OneLifecycle
    BY <1>7 DEF OneLifecycle
  <2>3. QED
    BY <2>1, <2>2 DEF ClaimInv
<1>9. QED
  BY <1>5, <1>6, <1>8

\* A user claims a free link only, and hands its claim to the task it spawns.
LEMMA UserClaim ==
  ASSUME TypeOK, ScopeInv, ClaimInv, NEW u \in Users, UserStep(u)
  PROVE  ClaimInv'
<1>1. /\ pc = [a \in Actors |-> pc[a]] /\ at = [a \in Actors |-> at[a]]
      /\ redialing = [l \in Links |-> redialing[l]]
  BY DEF TypeOK, LabelsOK
<1> USE ActorKinds, <1>1 DEF ClaimInv, OneLifecycle, OwnsClaim, Goto, Move, linkVars
<1>2. CASE Return(u)
  BY <1>2 DEF Return, Finish
<1>3. CASE \E l \in Links : TryNext(u, l)
  BY <1>3 DEF TryNext
<1>4. CASE Skip(u)
  BY <1>4 DEF Skip
<1>5. CASE Use(u)
  BY <1>5 DEF Use
<1>6. CASE Succeed(u)
  BY <1>6 DEF Succeed, Finish
<1>7. CASE Fail(u)
  BY <1>7 DEF Fail
<1>8. CASE MarkLock(u)
  BY <1>8 DEF MarkLock
<1>9. CASE MarkDisconnected(u)
  BY <1>9 DEF MarkDisconnected
<1>10. CASE try_claim_redial(u)
  BY <1>10, PlacedLink DEF try_claim_redial, Placed
<1>11. CASE Spawn(u)
  BY <1>11, PlacedLink DEF Spawn, Placed
<1>12. QED
  BY <1>2, <1>3, <1>4, <1>5, <1>6, <1>7, <1>8, <1>9, <1>10, <1>11 DEF UserStep, UserMove, Used

\* A lifecycle task gives its claim back at its end and not before.
LEMMA TaskClaim ==
  ASSUME TypeOK, ScopeInv, ClaimInv, NEW t \in Tasks, TaskStep(t)
  PROVE  ClaimInv'
<1>1. /\ pc = [a \in Actors |-> pc[a]] /\ at = [a \in Actors |-> at[a]]
      /\ redialing = [l \in Links |-> redialing[l]]
  BY DEF TypeOK, LabelsOK
<1> USE ActorKinds, <1>1 DEF ClaimInv, OneLifecycle, OwnsClaim, Goto, Move, linkVars
<1>2. CASE Start(t)
  BY <1>2 DEF Start
<1>3. CASE Check(t)
  BY <1>3 DEF Check
<1>4. CASE DialOk(t)
  BY <1>4 DEF DialOk
<1>5. CASE DialErr(t)
  BY <1>5 DEF DialErr
<1>6. CASE Wake(t)
  BY <1>6 DEF Wake
<1>7. CASE Install(t)
  BY <1>7 DEF Install
<1>8. CASE Announce(t)
  BY <1>8 DEF Announce
<1>9. CASE Release(t)
  BY <1>9, PlacedLink DEF Release, Placed
<1>10. QED
  BY <1>2, <1>3, <1>4, <1>5, <1>6, <1>7, <1>8, <1>9 DEF TaskStep

\* A link is claimed for its task as discovery adds it.
LEMMA DiscoClaim ==
  ASSUME TypeOK, ScopeInv, ClaimInv, DiscoStep
  PROVE  ClaimInv'
<1>1. /\ pc = [a \in Actors |-> pc[a]] /\ at = [a \in Actors |-> at[a]]
      /\ redialing = [l \in Links |-> redialing[l]]
  BY DEF TypeOK, LabelsOK
<1> USE ActorKinds, <1>1 DEF ClaimInv, OneLifecycle, OwnsClaim, Goto, Move, linkVars
<1>2. CASE DiscoStart
  BY <1>2 DEF DiscoStart
<1>3. CASE DiscoStop
  BY <1>3 DEF DiscoStop
<1>4. CASE Resolve
  BY <1>4 DEF Resolve
<1>5. CASE Find
  BY <1>5 DEF Find
<1>6. CASE FindDone
  BY <1>6 DEF FindDone
<1>7. CASE Invoke(Disco, "call")
  BY <1>7 DEF Invoke
<1>8. CASE \E l \in Links : CountSlots(l)
  BY <1>8 DEF CountSlots
<1>9. CASE PushLink
  BY <1>9 DEF PushLink
<1>10. CASE ClaimNew
  BY <1>10, PlacedLink DEF ClaimNew, Placed
<1>11. CASE Added
  BY <1>11 DEF Added
<1>12. QED
  BY <1>2, <1>3, <1>4, <1>5, <1>6, <1>7, <1>8, <1>9, <1>10, <1>11 DEF DiscoStep, DiscoMove

\* close claims nothing.
LEMMA CloserClaim ==
  ASSUME TypeOK, ScopeInv, ClaimInv, CloserStep
  PROVE  ClaimInv'
<1>1. /\ pc = [a \in Actors |-> pc[a]] /\ at = [a \in Actors |-> at[a]]
      /\ redialing = [l \in Links |-> redialing[l]]
  BY DEF TypeOK, LabelsOK
<1> USE ActorKinds, <1>1 DEF ClaimInv, OneLifecycle, OwnsClaim, Goto, Move, linkVars
<1>2. CASE Shutdown
  BY <1>2 DEF Shutdown, StartDrain
<1>3. CASE \E a \in Tasks \cup {Disco} : Abort(a)
  BY <1>3 DEF Abort
<1>4. CASE Drain
  BY <1>4 DEF Drain, StartDrain
<1>5. CASE \E l \in Links : DrainNext(l)
  BY <1>5 DEF DrainNext
<1>6. CASE Take
  BY <1>6 DEF Take
<1>7. CASE Drained
  BY <1>7 DEF Drained
<1>8. CASE Closed
  BY <1>8 DEF Closed
<1>9. QED
  BY <1>2, <1>3, <1>4, <1>5, <1>6, <1>7, <1>8 DEF CloserStep, CloserMove

\* Every step keeps the claims apart.
LEMMA ClaimStep ==
  ASSUME TypeOK, ScopeInv, ClaimInv, [Next]_vars
  PROVE  ClaimInv'
<1>1. CASE \E c \in Callers, o \in {"call", "publish"} : Invoke(c, o)
  BY <1>1, ActorKinds DEF Invoke, ClaimInv, OneLifecycle, OwnsClaim, Goto, Move, linkVars, TypeOK,
    LabelsOK
<1>2. CASE SendStop
  BY <1>2, ActorKinds DEF SendStop, ClaimInv, OneLifecycle, OwnsClaim, Goto, Move, linkVars, TypeOK,
    LabelsOK
<1>3. CASE \E c \in Callers : Drop(c)
  BY <1>3, ActorKinds DEF Drop, Finish, ClaimInv, OneLifecycle, OwnsClaim, Goto, linkVars, TypeOK,
    LabelsOK
<1>4. CASE UNCHANGED vars
  BY <1>4 DEF vars, ClaimInv, OneLifecycle, OwnsClaim, linkVars
<1>5. QED
  BY <1>1, <1>2, <1>3, <1>4, UserClaim, TaskClaim, DiscoClaim, CloserClaim DEF Next

-----------------------------------------------------------------------------
(* A session in use stays in place.                                         *)

\* A user empties a link only when nobody else is using its session.
LEMMA UserInPlace ==
  ASSUME TypeOK, ScopeInv, HolderInv, InUseStaysInPlace, NEW u \in Users, UserStep(u)
  PROVE  InUseStaysInPlace'
<1> SUFFICES ASSUME NEW v \in Users, pc'[v] \in {"using", "finding"}
             PROVE  session'[at'[v]] = sess'[v]
  BY DEF InUseStaysInPlace
<1>1. /\ pc = [a \in Actors |-> pc[a]] /\ at = [a \in Actors |-> at[a]]
      /\ sess = [a \in Actors |-> sess[a]] /\ session = [l \in Links |-> session[l]]
  BY DEF TypeOK, LabelsOK
<1>2. pc[v] \in {"using", "finding"} =>
        at[v] \in Links /\ Head(mutex[at[v]]) = v /\ session[at[v]] = sess[v]
  BY PlacedLink, ActorKinds DEF HolderInv, Placed, Holding, Holds, InUseStaysInPlace
<1> USE ActorKinds, <1>1, <1>2 DEF Goto, Move, linkVars
<1>3. CASE Return(u)
  BY <1>3 DEF Return, Finish
<1>4. CASE \E l \in Links : TryNext(u, l)
  BY <1>4 DEF TryNext
<1>5. CASE Skip(u)
  BY <1>5 DEF Skip
<1>6. CASE Use(u)
  BY <1>6 DEF Use
<1>7. CASE Succeed(u)
  BY <1>7 DEF Succeed, Finish
<1>8. CASE Fail(u)
  BY <1>8 DEF Fail
<1>9. CASE MarkLock(u)
  BY <1>9 DEF MarkLock
<1>10. CASE MarkDisconnected(u)
  BY <1>10, PlacedLink DEF MarkDisconnected, Placed, Holds
<1>11. CASE try_claim_redial(u)
  BY <1>11 DEF try_claim_redial
<1>12. CASE Spawn(u)
  BY <1>12 DEF Spawn
<1>13. QED
  BY <1>3, <1>4, <1>5, <1>6, <1>7, <1>8, <1>9, <1>10, <1>11, <1>12 DEF UserStep, UserMove, Used

\* A lifecycle task fills a link only when nobody is using its session.
LEMMA TaskInPlace ==
  ASSUME TypeOK, ScopeInv, HolderInv, InUseStaysInPlace, NEW t \in Tasks, TaskStep(t)
  PROVE  InUseStaysInPlace'
<1> SUFFICES ASSUME NEW v \in Users, pc'[v] \in {"using", "finding"}
             PROVE  session'[at'[v]] = sess'[v]
  BY DEF InUseStaysInPlace
<1>1. /\ pc = [a \in Actors |-> pc[a]] /\ at = [a \in Actors |-> at[a]]
      /\ sess = [a \in Actors |-> sess[a]] /\ session = [l \in Links |-> session[l]]
  BY DEF TypeOK, LabelsOK
<1>2. pc[v] \in {"using", "finding"} =>
        at[v] \in Links /\ Head(mutex[at[v]]) = v /\ session[at[v]] = sess[v]
  BY PlacedLink, ActorKinds DEF HolderInv, Placed, Holding, Holds, InUseStaysInPlace
<1> USE ActorKinds, <1>1, <1>2 DEF Goto, Move, linkVars
<1>3. CASE Start(t)
  BY <1>3 DEF Start
<1>4. CASE Check(t)
  BY <1>4 DEF Check
<1>5. CASE DialOk(t)
  BY <1>5 DEF DialOk
<1>6. CASE DialErr(t)
  BY <1>6 DEF DialErr
<1>7. CASE Wake(t)
  BY <1>7 DEF Wake
<1>8. CASE Install(t)
  BY <1>8, PlacedLink DEF Install, Placed, Holds
<1>9. CASE Announce(t)
  BY <1>9 DEF Announce
<1>10. CASE Release(t)
  BY <1>10 DEF Release
<1>11. QED
  BY <1>3, <1>4, <1>5, <1>6, <1>7, <1>8, <1>9, <1>10 DEF TaskStep

\* The discovery loop changes no session.
LEMMA DiscoInPlace ==
  ASSUME TypeOK, ScopeInv, HolderInv, InUseStaysInPlace, DiscoStep
  PROVE  InUseStaysInPlace'
<1> SUFFICES ASSUME NEW v \in Users, pc'[v] \in {"using", "finding"}
             PROVE  session'[at'[v]] = sess'[v]
  BY DEF InUseStaysInPlace
<1>1. /\ pc = [a \in Actors |-> pc[a]] /\ at = [a \in Actors |-> at[a]]
      /\ sess = [a \in Actors |-> sess[a]] /\ session = [l \in Links |-> session[l]]
  BY DEF TypeOK, LabelsOK
<1>2. pc[v] \in {"using", "finding"} =>
        at[v] \in Links /\ Head(mutex[at[v]]) = v /\ session[at[v]] = sess[v]
  BY PlacedLink, ActorKinds DEF HolderInv, Placed, Holding, Holds, InUseStaysInPlace
<1> USE ActorKinds, <1>1, <1>2 DEF Goto, Move, linkVars
<1>3. CASE DiscoStart
  BY <1>3 DEF DiscoStart
<1>4. CASE DiscoStop
  BY <1>4 DEF DiscoStop
<1>5. CASE Resolve
  BY <1>5 DEF Resolve
<1>6. CASE Find
  BY <1>6 DEF Find
<1>7. CASE FindDone
  BY <1>7 DEF FindDone
<1>8. CASE Invoke(Disco, "call")
  BY <1>8 DEF Invoke
<1>9. CASE \E l \in Links : CountSlots(l)
  BY <1>9 DEF CountSlots
<1>10. CASE PushLink
  BY <1>10 DEF PushLink
<1>11. CASE ClaimNew
  BY <1>11 DEF ClaimNew
<1>12. CASE Added
  BY <1>12 DEF Added
<1>13. QED
  BY <1>3, <1>4, <1>5, <1>6, <1>7, <1>8, <1>9, <1>10, <1>11, <1>12 DEF DiscoStep, DiscoMove

\* close takes a session only when nobody is using it.
LEMMA CloserInPlace ==
  ASSUME TypeOK, ScopeInv, HolderInv, InUseStaysInPlace, CloserStep
  PROVE  InUseStaysInPlace'
<1> SUFFICES ASSUME NEW v \in Users, pc'[v] \in {"using", "finding"}
             PROVE  session'[at'[v]] = sess'[v]
  BY DEF InUseStaysInPlace
<1>1. /\ pc = [a \in Actors |-> pc[a]] /\ at = [a \in Actors |-> at[a]]
      /\ sess = [a \in Actors |-> sess[a]] /\ session = [l \in Links |-> session[l]]
  BY DEF TypeOK, LabelsOK
<1>2. pc[v] \in {"using", "finding"} =>
        at[v] \in Links /\ Head(mutex[at[v]]) = v /\ session[at[v]] = sess[v]
  BY PlacedLink, ActorKinds DEF HolderInv, Placed, Holding, Holds, InUseStaysInPlace
<1> USE ActorKinds, <1>1, <1>2 DEF Goto, Move, linkVars
<1>3. CASE Shutdown
  BY <1>3 DEF Shutdown, StartDrain
<1>4. CASE \E a \in Tasks \cup {Disco} : Abort(a)
  BY <1>4 DEF Abort
<1>5. CASE Drain
  BY <1>5 DEF Drain, StartDrain
<1>6. CASE \E l \in Links : DrainNext(l)
  BY <1>6 DEF DrainNext
<1>7. CASE Take
  BY <1>7, PlacedLink DEF Take, Placed, Holds
<1>8. CASE Drained
  BY <1>8 DEF Drained
<1>9. CASE Closed
  BY <1>9 DEF Closed
<1>10. QED
  BY <1>3, <1>4, <1>5, <1>6, <1>7, <1>8, <1>9 DEF CloserStep, CloserMove

\* Every step leaves the sessions that are in use in place.
LEMMA InPlaceStep ==
  ASSUME TypeOK, ScopeInv, HolderInv, InUseStaysInPlace, [Next]_vars
  PROVE  InUseStaysInPlace'
<1>1. CASE \E c \in Callers, o \in {"call", "publish"} : Invoke(c, o)
  BY <1>1, ActorKinds DEF Invoke, InUseStaysInPlace, Goto, Move, TypeOK, LabelsOK, linkVars
<1>2. CASE SendStop
  BY <1>2, ActorKinds DEF SendStop, InUseStaysInPlace, Goto, Move, TypeOK, LabelsOK, linkVars
<1>3. CASE \E c \in Callers : Drop(c)
  BY <1>3, ActorKinds DEF Drop, Finish, InUseStaysInPlace, Goto, TypeOK, LabelsOK, linkVars
<1>4. CASE UNCHANGED vars
  BY <1>4 DEF vars, InUseStaysInPlace, linkVars
<1>5. QED
  BY <1>1, <1>2, <1>3, <1>4, UserInPlace, TaskInPlace, DiscoInPlace, CloserInPlace DEF Next

-----------------------------------------------------------------------------
(* Theorems.                                                                *)

\* The invariant holds in every reachable state of every pool.
THEOREM Invariance == Spec => []IInv
<1>1. Init => IInv
  BY InitType, InitClaim DEF IInv
<1>2. IInv /\ [Next]_vars => IInv'
  BY TypeStep, ScopeStep, HolderStep, ClaimStep DEF IInv
<1>3. QED
  BY <1>1, <1>2, PTL DEF Spec

\* Every variable of the pool keeps its type and every actor is at a place of
\* the code it runs.
THEOREM TypeCorrect == Spec => []TypeOK
<1>1. IInv => TypeOK
  BY DEF IInv
<1>2. QED
  BY <1>1, Invariance, PTL

\* However many callers see a session fail, and on either flavour of the
\* runtime, a link never has two lifecycle tasks (PooledLink::redialing).
THEOREM SingleLifecycle == Spec => []OneLifecycle
<1>1. IInv => OneLifecycle
  BY DEF IInv, ClaimInv
<1>2. QED
  BY <1>1, Invariance, PTL

\* Nobody changes a link's session under a caller that uses it: every writer
\* of LinkState holds its lock, and so does the caller across its await.
THEOREM SessionStaysInPlace == Spec => []InUseStaysInPlace
<1>1. Init => InUseStaysInPlace
  <2>1. ASSUME Init, NEW u \in Users PROVE pc[u] \in {"new", "off", "idle"}
    BY <2>1, ActorKinds DEF Init
  <2>2. QED
    BY <2>1 DEF InUseStaysInPlace
<1>2. IInv /\ InUseStaysInPlace /\ [Next]_vars => InUseStaysInPlace'
  BY InPlaceStep DEF IInv
<1>3. QED
  BY <1>1, <1>2, Invariance, PTL DEF Spec

-----------------------------------------------------------------------------
(* The queues, the sessions and the close.                                   *)

\* Labels of actors that wait for the lock of their link or hold it.
Queued ==
  {"lock", "using", "markLock", "find", "finding", "install", "drainLock", "goodbye"}

\* Of a queue: a is in it, everybody is in it once.
Waits(q, a) == \E i \in 1..Len(q) : q[i] = a
Once(q) == \A i, j \in 1..Len(q) : q[i] = q[j] => i = j

\* An actor is in the queue of a link, once, if and only if it waits for its lock
\* or holds it.
QueueInv ==
  /\ \A l \in Links : Once(mutex[l])
  /\ \A a \in Actors, l \in Links : Waits(mutex[l], a) <=> pc[a] \in Queued /\ at[a] = l

\* What is installed is a session, and what failed was one.
SessionInv ==
  /\ \A l \in Links \ Known : session[l] = NoSession
  /\ \A u \in Users : pc[u] = "using" => sess[u] # NoSession
  /\ \A t \in Tasks : pc[t] = "install" => sess[t] # NoSession
  /\ pc[Closer] = "goodbye" => session[at[Closer]] = NoSession

Draining == {"drain", "drainLock", "goodbye", "done"}

\* Once the tasks are gone, those that are spawned nevertheless see the signal.
StopInv ==
  /\ pc[Closer] \in Draining => pc[Disco] \in {"off", "gone"}
  /\ stop => pc[Closer] # "idle"
  /\ pc[Closer] = "done" => todo[Closer] = {}
  /\ stop /\ pc[Closer] \in Draining =>
       /\ \A t \in Tasks : pc[t] \in {"idle", "new", "check", "release"}
       /\ \A l \in Known : \/ session[l] = NoSession
                           \/ l \in todo[Closer]
                           \/ pc[Closer] = "drainLock" /\ at[Closer] = l

LinkInv == QueueInv /\ SessionInv /\ StopInv /\ SessionIsOffered

-----------------------------------------------------------------------------
(* Everybody is in a queue once, and where it waits.                        *)

\* Who joins a queue is in it once, as everybody else is.
LEMMA AppendOrder ==
  ASSUME NEW S, NEW q \in Seq(S), NEW e \in S, Once(q), ~Waits(q, e)
  PROVE  /\ Once(Append(q, e))
         /\ \A a : Waits(Append(q, e), a) <=> Waits(q, a) \/ a = e
<1> DEFINE r == Append(q, e)
           n == Len(q)
<1>1. /\ n \in Nat /\ Len(r) = n + 1 /\ r[n + 1] = e
      /\ \A i \in 1..n : r[i] = q[i]
  BY AppendProperties
<1>2. \A i \in 1..(n + 1) : i \in 1..n \/ i = n + 1
  BY <1>1
<1>3. 1..n \subseteq 1..(n + 1) /\ n + 1 \in 1..(n + 1) /\ \A i \in 1..n : i < n + 1
  BY <1>1
<1> HIDE DEF r, n
<1>4. Once(r)
  <2> SUFFICES ASSUME NEW i \in 1..(n + 1), NEW j \in 1..(n + 1), r[i] = r[j]
               PROVE  i = j
    BY <1>1 DEF Once
  <2>1. CASE i \in 1..n /\ j \in 1..n
    BY <1>1, <2>1 DEF Once, n
  <2>2. CASE i = n + 1 /\ j \in 1..n
    BY <1>1, <2>2 DEF Waits, n
  <2>3. CASE i \in 1..n /\ j = n + 1
    BY <1>1, <2>3 DEF Waits, n
  <2>4. QED BY <1>2, <2>1, <2>2, <2>3
<1>5. ASSUME NEW a
      PROVE  Waits(r, a) <=> Waits(q, a) \/ a = e
  <2>1. ASSUME Waits(r, a) PROVE Waits(q, a) \/ a = e
    BY <1>1, <1>2, <2>1 DEF Waits, n
  <2>2. ASSUME Waits(q, a) \/ a = e PROVE Waits(r, a)
    BY <1>1, <1>3, <2>2 DEF Waits, n
  <2>3. QED BY <2>1, <2>2
<1>6. QED BY <1>4, <1>5 DEF r

\* Who leaves from the head leaves the others in the queue.
LEMMA TailOrder ==
  ASSUME NEW S, NEW q \in Seq(S), q # <<>>, Once(q)
  PROVE  /\ Once(Tail(q))
         /\ \A a : Waits(Tail(q), a) <=> Waits(q, a) /\ a # Head(q)
<1> DEFINE r == Tail(q)
           n == Len(q)
<1>1. /\ n \in Nat \ {0} /\ Len(r) = n - 1 /\ Head(q) = q[1]
      /\ \A i \in 1..(n - 1) : r[i] = q[i + 1]
  BY HeadTailProperties
<1>2. \A i \in 1..n : i = 1 \/ (i > 1 /\ i - 1 \in 1..(n - 1) /\ (i - 1) + 1 = i)
  BY <1>1
<1>3. 1 \in 1..n /\ \A i \in 1..(n - 1) : i + 1 \in 1..n /\ i + 1 # 1
  BY <1>1
<1> HIDE DEF r, n
<1>4. Once(r)
  <2> SUFFICES ASSUME NEW i \in 1..(n - 1), NEW j \in 1..(n - 1), r[i] = r[j]
               PROVE  i = j
    BY <1>1 DEF Once
  <2>1. i + 1 = j + 1
    BY <1>1, <1>3 DEF Once, n
  <2>2. QED BY <1>1, <2>1
<1>5. ASSUME NEW a
      PROVE  Waits(r, a) <=> Waits(q, a) /\ a # Head(q)
  <2>1. ASSUME Waits(r, a) PROVE Waits(q, a) /\ a # Head(q)
    <3>1. PICK i \in 1..(n - 1) : r[i] = a
      BY <1>1, <2>1 DEF Waits
    <3>2. i + 1 \in 1..n /\ i + 1 # 1 /\ q[i + 1] = a
      BY <1>1, <1>3, <3>1
    <3>3. q[i + 1] # q[1]
      BY <1>3, <3>2 DEF Once, n
    <3>4. QED BY <1>1, <3>2, <3>3 DEF Waits, n
  <2>2. ASSUME Waits(q, a), a # Head(q) PROVE Waits(r, a)
    <3>1. PICK i \in 1..n : q[i] = a
      BY <2>2 DEF Waits, n
    <3>2. i - 1 \in 1..(n - 1) /\ r[i - 1] = a
      BY <1>1, <1>2, <2>2, <3>1
    <3>3. QED BY <1>1, <3>2 DEF Waits
  <2>3. QED BY <2>1, <2>2
<1>6. QED BY <1>4, <1>5 DEF r

\* A queue without one of its places.
LEMMA RemoveIs ==
  ASSUME NEW S, NEW q \in Seq(S), NEW k \in 1..Len(q)
  PROVE  /\ Len(RemoveAt(q, k)) = Len(q) - 1
         /\ \A i \in 1..(Len(q) - 1) : RemoveAt(q, k)[i] = IF i < k THEN q[i] ELSE q[i + 1]
<1> DEFINE n == Len(q)
           front == SubSeq(q, 1, k - 1)
           back  == SubSeq(q, k + 1, n)
<1>1. n \in Nat /\ \A i \in 1..n : q[i] \in S
  OBVIOUS
<1>2. /\ front \in Seq(S) /\ Len(front) = k - 1
      /\ \A i \in 1..(k - 1) : front[i] = q[i]
  <2>1. \A i \in 1..(k - 1) : q[i] \in S
    BY <1>1
  <2>2. QED BY <2>1, SubSeqProperties
<1>3. /\ back \in Seq(S) /\ Len(back) = n - k
      /\ \A i \in 1..(n - k) : back[i] = q[k + i]
  <2>1. \A i \in (k + 1)..n : q[i] \in S
    BY <1>1
  <2>2. QED BY <1>1, <2>1, SubSeqProperties
<1>4. RemoveAt(q, k) = front \o back
  BY DEF RemoveAt
<1> HIDE DEF n, front, back
<1>5. /\ Len(front \o back) = Len(front) + Len(back)
      /\ \A i \in 1..(Len(front) + Len(back)) :
           (front \o back)[i] = IF i <= Len(front) THEN front[i] ELSE back[i - Len(front)]
  BY <1>2, <1>3, ConcatProperties
<1>6. Len(front) + Len(back) = n - 1 /\ k \in 1..n
  BY <1>1, <1>2, <1>3 DEF n
<1>7. ASSUME NEW i \in 1..(n - 1)
      PROVE  (front \o back)[i] = IF i < k THEN q[i] ELSE q[i + 1]
  <2>1. (front \o back)[i] = IF i <= k - 1 THEN front[i] ELSE back[i - (k - 1)]
    BY <1>2, <1>5, <1>6
  <2>2. CASE i < k
    <3>1. i \in 1..(k - 1) /\ i <= k - 1
      BY <1>1, <1>6, <2>2
    <3>2. QED BY <1>2, <2>1, <2>2, <3>1
  <2>3. CASE ~(i < k)
    <3>1. i - (k - 1) \in 1..(n - k) /\ k + (i - (k - 1)) = i + 1 /\ ~(i <= k - 1)
      BY <1>1, <1>6, <2>3
    <3>2. QED BY <1>3, <2>1, <2>3, <3>1
  <2>4. QED BY <2>2, <2>3
<1>8. QED BY <1>4, <1>5, <1>6, <1>7 DEF n

\* Who leaves from anywhere leaves the others in the queue.
LEMMA RemoveOrder ==
  ASSUME NEW S, NEW q \in Seq(S), NEW k \in 1..Len(q), Once(q)
  PROVE  /\ Once(RemoveAt(q, k))
         /\ \A a : Waits(RemoveAt(q, k), a) <=> Waits(q, a) /\ a # q[k]
<1> DEFINE r == RemoveAt(q, k)
           n == Len(q)
           old(i) == IF i < k THEN i ELSE i + 1
           new(i) == IF i < k THEN i ELSE i - 1
<1>1. n \in Nat /\ Len(r) = n - 1 /\ k \in 1..n
  BY RemoveIs
<1>2. \A i \in 1..(n - 1) : old(i) \in 1..n /\ old(i) # k /\ r[i] = q[old(i)]
  <2>1. \A i \in 1..(n - 1) : r[i] = q[old(i)]
    BY RemoveIs
  <2> HIDE DEF r, n
  <2>2. \A i \in 1..(n - 1) : old(i) \in 1..n /\ old(i) # k
    BY <1>1
  <2>3. QED BY <2>1, <2>2
<1> HIDE DEF r, n
<1>3. \A i \in 1..n : i # k => new(i) \in 1..(n - 1) /\ old(new(i)) = i
  BY <1>1
<1>4. \A i, j \in 1..(n - 1) : old(i) = old(j) => i = j
  BY <1>1
<1> HIDE DEF old, new
<1>6. Once(r)
  <2> SUFFICES ASSUME NEW i \in 1..(n - 1), NEW j \in 1..(n - 1), r[i] = r[j]
               PROVE  i = j
    BY <1>1 DEF Once
  <2>1. old(i) = old(j)
    BY <1>2 DEF Once, n
  <2>2. QED BY <1>4, <2>1
<1>7. ASSUME NEW a
      PROVE  Waits(r, a) <=> Waits(q, a) /\ a # q[k]
  <2>1. ASSUME Waits(r, a) PROVE Waits(q, a) /\ a # q[k]
    <3>1. PICK i \in 1..(n - 1) : r[i] = a
      BY <1>1, <2>1 DEF Waits
    <3>2. q[old(i)] = a /\ q[old(i)] # q[k]
      BY <1>1, <1>2, <3>1 DEF Once, n
    <3>3. QED BY <1>2, <3>2 DEF Waits, n
  <2>2. ASSUME Waits(q, a), a # q[k] PROVE Waits(r, a)
    <3>1. PICK i \in 1..n : q[i] = a
      BY <2>2 DEF Waits, n
    <3>2. new(i) \in 1..(n - 1) /\ r[new(i)] = a
      BY <1>2, <1>3, <2>2, <3>1
    <3>3. QED BY <1>1, <3>2 DEF Waits
  <2>3. QED BY <2>1, <2>2
<1>5. QED BY <1>6, <1>7 DEF r

\* Nobody joins or leaves a queue.
LEMMA QueueStays ==
  ASSUME QueueInv, UNCHANGED mutex,
         \A a \in Actors : pc'[a] \in Queued \/ pc[a] \in Queued =>
           pc'[a] \in Queued /\ pc[a] \in Queued /\ at'[a] = at[a]
  PROVE  QueueInv'
BY DEF QueueInv

\* One actor joins the queue of a link.
LEMMA QueueJoins ==
  ASSUME TypeOK, QueueInv, NEW l \in Links, NEW a \in Actors, Enqueue(a, l),
         pc[a] \notin Queued, pc'[a] \in Queued, at'[a] = l,
         \A b \in Actors \ {a} : pc'[b] = pc[b] /\ at'[b] = at[b]
  PROVE  QueueInv'
<1>1. /\ mutex \in [Links -> Seq(Actors)] /\ mutex[l] \in Seq(Actors)
      /\ mutex'[l] = Append(mutex[l], a)
      /\ \A m \in Links \ {l} : mutex'[m] = mutex[m]
  BY DEF TypeOK, Enqueue
<1>2. Once(mutex[l]) /\ ~Waits(mutex[l], a)
  BY DEF QueueInv
<1>3. /\ Once(mutex'[l])
      /\ \A b : Waits(mutex'[l], b) <=> Waits(mutex[l], b) \/ b = a
  BY <1>1, <1>2, AppendOrder
<1>4. \A m \in Links : Once(mutex'[m])
  BY <1>1, <1>3 DEF QueueInv
<1>5. ASSUME NEW b \in Actors, NEW m \in Links
      PROVE  Waits(mutex'[m], b) <=> pc'[b] \in Queued /\ at'[b] = m
  <2>1. Waits(mutex[m], b) <=> pc[b] \in Queued /\ at[b] = m
    BY DEF QueueInv
  <2>2. CASE m = l
    BY <1>3, <2>1, <2>2
  <2>3. CASE m # l
    BY <1>1, <2>1, <2>3
  <2>4. QED BY <2>2, <2>3
<1>6. QED BY <1>1, <1>3, <1>4, <1>5 DEF QueueInv

\* The holder of a lock leaves its queue.
LEMMA QueueLeaves ==
  ASSUME TypeOK, QueueInv, NEW l \in Links, NEW a \in Actors, Holds(a, l), Unlock(l),
         pc'[a] \notin Queued,
         \A b \in Actors \ {a} : pc'[b] = pc[b] /\ at'[b] = at[b]
  PROVE  QueueInv'
<1>1. /\ mutex \in [Links -> Seq(Actors)] /\ mutex[l] \in Seq(Actors) /\ mutex[l] # <<>>
      /\ Head(mutex[l]) = a /\ mutex'[l] = Tail(mutex[l])
      /\ \A m \in Links \ {l} : mutex'[m] = mutex[m]
  BY DEF TypeOK, Unlock, Holds
<1>2. Once(mutex[l])
  BY DEF QueueInv
<1>3. /\ Once(mutex'[l])
      /\ \A b : Waits(mutex'[l], b) <=> Waits(mutex[l], b) /\ b # a
  BY <1>1, <1>2, TailOrder
<1>4. \A m \in Links : Once(mutex'[m])
  BY <1>1, <1>3 DEF QueueInv
<1>5. Waits(mutex[l], a)
  BY <1>1, HeadTailProperties DEF Waits
<1>6. at[a] = l
  BY <1>5 DEF QueueInv
<1>7. ASSUME NEW b \in Actors, NEW m \in Links
      PROVE  Waits(mutex'[m], b) <=> pc'[b] \in Queued /\ at'[b] = m
  <2>1. Waits(mutex[m], b) <=> pc[b] \in Queued /\ at[b] = m
    BY DEF QueueInv
  <2>2. CASE m = l
    BY <1>3, <2>1, <2>2
  <2>3. CASE m # l
    BY <1>1, <1>6, <2>1, <2>3
  <2>4. QED BY <2>2, <2>3
<1>8. QED BY <1>1, <1>3, <1>4, <1>7 DEF QueueInv

\* A dropped future leaves the queue it was in.
LEMMA QueueDropped ==
  ASSUME TypeOK, ScopeInv, QueueInv, NEW a \in Users \cup Tasks, LeaveQueue(a),
         pc'[a] \notin Queued,
         \A b \in Actors \ {a} : pc'[b] = pc[b] /\ at'[b] = at[b]
  PROVE  QueueInv'
<1>1. a \in Actors /\ (pc[a] \in Queued <=> pc[a] \in Locking)
  BY ActorKinds
     DEF Users, Queued, Locking, TypeOK, LabelsOK, TaskLabels, DiscoLabels, UserLabels
<1>2. CASE pc[a] \notin Locking
  BY <1>1, <1>2 DEF QueueInv, LeaveQueue
<1>3. CASE pc[a] \in Locking
  <2> DEFINE l == at[a]
  <2>1. l \in Links
    BY <1>3, LockingLink
  <2>2. PICK k \in 1..Len(mutex[l]) :
          /\ mutex[l][k] = a
          /\ mutex' = [mutex EXCEPT ![l] = RemoveAt(@, k)]
    BY <1>3 DEF LeaveQueue
  <2>3. /\ mutex \in [Links -> Seq(Actors)] /\ mutex[l] \in Seq(Actors)
        /\ mutex'[l] = RemoveAt(mutex[l], k)
        /\ \A m \in Links \ {l} : mutex'[m] = mutex[m]
    BY <2>1, <2>2 DEF TypeOK
  <2>4. Once(mutex[l])
    BY <2>1 DEF QueueInv
  <2>5. /\ Once(mutex'[l])
        /\ \A b : Waits(mutex'[l], b) <=> Waits(mutex[l], b) /\ b # a
    BY <2>2, <2>3, <2>4, RemoveOrder
  <2>6. \A m \in Links : Once(mutex'[m])
    BY <2>1, <2>3, <2>5 DEF QueueInv
  <2>7. ASSUME NEW b \in Actors, NEW m \in Links
        PROVE  Waits(mutex'[m], b) <=> pc'[b] \in Queued /\ at'[b] = m
    <3>1. Waits(mutex[m], b) <=> pc[b] \in Queued /\ at[b] = m
      BY DEF QueueInv
    <3>2. CASE m = l
      BY <2>5, <3>1, <3>2
    <3>3. CASE m # l
      BY <2>3, <3>1, <3>3
    <3>4. QED BY <3>2, <3>3
  <2> HIDE DEF l
  <2>8. QED BY <2>6, <2>7 DEF QueueInv
<1>4. QED BY <1>2, <1>3

\* A caller that is dropped leaves the queue it was in.
LEMMA DropQueue ==
  ASSUME TypeOK, ScopeInv, QueueInv, NEW c \in Callers, Drop(c)
  PROVE  QueueInv'
<1>1. c \in Actors /\ c \in Users \cup Tasks /\ LeaveQueue(c)
  BY ActorKinds DEF Drop
<1>2. pc'[c] = "idle" /\ \A a \in Actors \ {c} : pc'[a] = pc[a] /\ at'[a] = at[a]
  BY <1>1 DEF Drop, Finish, Goto, TypeOK, LabelsOK
<1>3. QED
  BY <1>1, <1>2, QueueDropped DEF Queued

\* A step of a user.
LEMMA UserQueue ==
  ASSUME TypeOK, ScopeInv, HolderInv, QueueInv, NEW u \in Users, UserStep(u)
  PROVE  QueueInv'
<1>1. u \in Actors /\ pc = [a \in Actors |-> pc[a]] /\ at = [a \in Actors |-> at[a]]
  BY ActorKinds DEF TypeOK, LabelsOK
<1>2. pc[u] \in Placed => at[u] \in Links
  BY <1>1, PlacedLink
<1> USE <1>1, <1>2 DEF Queued, Placed, Goto, Move
<1>3. CASE Return(u)
  BY <1>3, QueueStays DEF Return, Finish
<1>4. CASE \E l \in Links : TryNext(u, l)
  BY <1>4, QueueJoins DEF TryNext
<1>5. CASE Skip(u)
  BY <1>5, QueueLeaves DEF Skip
<1>6. CASE Use(u)
  BY <1>6, QueueStays DEF Use
<1>7. CASE Succeed(u)
  BY <1>7, QueueLeaves DEF Succeed, Finish, HolderInv, Holding
<1>8. CASE Fail(u)
  BY <1>8, QueueLeaves DEF Fail, HolderInv, Holding
<1>9. CASE MarkLock(u)
  BY <1>9, QueueJoins DEF MarkLock
<1>10. CASE MarkDisconnected(u)
  BY <1>10, QueueLeaves DEF MarkDisconnected
<1>11. CASE try_claim_redial(u)
  BY <1>11, QueueStays DEF try_claim_redial
<1>12. CASE Spawn(u)
  <2>1. PICK t \in Tasks : /\ pc[t] = "idle" /\ UNCHANGED mutex
                           /\ pc' \in {[pc EXCEPT ![u] = "next", ![t] = "new"],
                                      [pc EXCEPT ![u] = "adding", ![t] = "new"]}
                           /\ at' = [at EXCEPT ![t] = at[u]]
    BY <1>12 DEF Spawn, NextTask
  <2>2. pc[u] \in {"spawn", "blocked", "newSpawn"} /\ t \in Actors /\ t # u
    BY <1>12, ActorKinds DEF Spawn
  <2>3. QED BY <2>1, <2>2, QueueStays
<1>13. QED
  BY <1>3, <1>4, <1>5, <1>6, <1>7, <1>8, <1>9, <1>10, <1>11, <1>12 DEF UserStep, UserMove, Used

\* A step of a lifecycle task.
LEMMA TaskQueue ==
  ASSUME TypeOK, ScopeInv, HolderInv, QueueInv, NEW t \in Tasks, TaskStep(t)
  PROVE  QueueInv'
<1>1. t \in Actors /\ pc = [a \in Actors |-> pc[a]] /\ at = [a \in Actors |-> at[a]]
  BY ActorKinds DEF TypeOK, LabelsOK
<1>2. pc[t] \in Placed => at[t] \in Links
  BY <1>1, PlacedLink
<1> USE <1>1, <1>2 DEF Queued, Placed, Goto, Move
<1>3. CASE Start(t) \/ Check(t)
  BY <1>3, QueueStays DEF Start, Check
<1>4. CASE DialOk(t)
  BY <1>4, QueueJoins DEF DialOk
<1>5. CASE DialErr(t) \/ Wake(t)
  BY <1>5, QueueStays DEF DialErr, Wake
<1>6. CASE Install(t)
  BY <1>6, QueueLeaves DEF Install
<1>7. CASE Announce(t) \/ Release(t)
  BY <1>7, QueueStays DEF Announce, Release
<1>8. QED
  BY <1>3, <1>4, <1>5, <1>6, <1>7 DEF TaskStep

\* A step of the discovery loop.
LEMMA DiscoQueue ==
  ASSUME TypeOK, ScopeInv, HolderInv, QueueInv, DiscoStep
  PROVE  QueueInv'
<1>1. Disco \in Actors /\ pc = [a \in Actors |-> pc[a]] /\ at = [a \in Actors |-> at[a]]
  BY ActorKinds DEF TypeOK, LabelsOK
<1>2. pc[Disco] \in Placed => at[Disco] \in Links
  BY <1>1, PlacedLink
<1> USE <1>1, <1>2 DEF Queued, Placed, Goto, Move
<1>3. CASE DiscoStart \/ DiscoStop \/ Added
  BY <1>3, QueueStays DEF DiscoStart, DiscoStop, Added
<1>4. CASE Resolve
  BY <1>4, KnownLinks, QueueJoins DEF Resolve, ConnectedLinks, VisibleLinks
<1>5. CASE Find
  <2>1. CASE session[at[Disco]] = NoSession
    BY <1>5, <2>1, QueueLeaves DEF Find
  <2>2. CASE session[at[Disco]] # NoSession
    BY <1>5, <2>2, QueueStays DEF Find
  <2>3. QED BY <2>1, <2>2
<1>6. CASE FindDone
  BY <1>6, QueueLeaves DEF FindDone, HolderInv, Holding
<1>7. CASE Invoke(Disco, "call")
  BY <1>7, QueueStays DEF Invoke
<1>8. CASE \E l \in Links : CountSlots(l)
  BY <1>8, QueueStays DEF CountSlots
<1>9. CASE PushLink
  BY <1>9, QueueStays DEF PushLink
<1>10. CASE ClaimNew
  BY <1>10, QueueStays DEF ClaimNew
<1>11. QED
  BY <1>3, <1>4, <1>5, <1>6, <1>7, <1>8, <1>9, <1>10 DEF DiscoStep, DiscoMove

\* A step of close.
LEMMA CloserQueue ==
  ASSUME TypeOK, ScopeInv, HolderInv, QueueInv, CloserStep
  PROVE  QueueInv'
<1>1. Closer \in Actors /\ pc = [a \in Actors |-> pc[a]] /\ at = [a \in Actors |-> at[a]]
  BY ActorKinds DEF TypeOK, LabelsOK
<1>2. pc[Closer] \in Placed => at[Closer] \in Links
  BY <1>1, PlacedLink
<1>3. CASE \E a \in Tasks \cup {Disco} : Abort(a)
  <2>1. PICK a \in Tasks \cup {Disco} : Abort(a)
    BY <1>3
  <2>2. a \in Actors /\ a \in Users \cup Tasks /\ LeaveQueue(a)
    BY <2>1, ActorKinds DEF Abort
  <2>3. /\ pc'[a] \notin Queued
        /\ \A b \in Actors \ {a} : pc'[b] = pc[b] /\ at'[b] = at[b]
    BY <1>1, <2>1, <2>2 DEF Abort, Goto, Queued
  <2>4. QED
    BY <2>2, <2>3, QueueDropped
<1> USE <1>1, <1>2 DEF Queued, Placed, Goto, Move
<1>4. CASE Shutdown \/ Drain \/ Closed
  BY <1>4, QueueStays DEF Shutdown, Drain, Closed, StartDrain
<1>5. CASE \E l \in Links : DrainNext(l)
  BY <1>5, QueueJoins DEF DrainNext
<1>6. CASE Take
  BY <1>6, QueueStays DEF Take
<1>7. CASE Drained
  BY <1>7, QueueLeaves DEF Drained, HolderInv, Holding
<1>8. QED
  BY <1>3, <1>4, <1>5, <1>6, <1>7 DEF CloserStep, CloserMove

\* Every queue holds whom it should, after every step.
LEMMA QueueStep ==
  ASSUME TypeOK, ScopeInv, HolderInv, QueueInv, [Next]_vars
  PROVE  QueueInv'
<1>1. pc = [a \in Actors |-> pc[a]]
  BY DEF TypeOK, LabelsOK
<1>2. CASE \E c \in Callers, o \in {"call", "publish"} : Invoke(c, o)
  BY <1>1, <1>2, ActorKinds, QueueStays DEF Invoke, Goto, Queued
<1>3. CASE SendStop
  BY <1>1, <1>3, ActorKinds, QueueStays DEF SendStop, Goto, Move, Queued
<1>4. CASE \E c \in Callers : Drop(c)
  BY <1>4, DropQueue
<1>5. CASE UNCHANGED vars
  BY <1>5, QueueStays DEF vars
<1>6. QED
  BY <1>2, <1>3, <1>4, <1>5, UserQueue, TaskQueue, DiscoQueue, CloserQueue DEF Next

-----------------------------------------------------------------------------
(* Sessions.                                                                *)

\* In the initial state there are no sessions, no queues and no stop.
LEMMA InitLinks ==
  ASSUME Init
  PROVE  QueueInv /\ SessionInv /\ StopInv /\ SessionIsOffered
<1>1. /\ mutex = [l \in Links |-> <<>>] /\ session = [l \in Links |-> NoSession]
      /\ stop = FALSE
      /\ \A a \in Actors : pc[a] \in {"new", "off", "idle"}
      /\ pc[Closer] = "idle"
  BY ActorKinds DEF Init
<1>2. QueueInv
  BY <1>1 DEF QueueInv, Once, Waits, Queued
<1>3. SessionInv /\ StopInv
  BY <1>1, ActorKinds DEF SessionInv, StopInv, Draining
<1>4. SessionIsOffered
  BY <1>1 DEF SessionIsOffered
<1>5. QED BY <1>2, <1>3, <1>4

\* A step of a user changes sessions as it should.
LEMMA UserSession ==
  ASSUME TypeOK, ScopeInv, HolderInv, SessionInv, NEW u \in Users, UserStep(u)
  PROVE  SessionInv'
<1>1. /\ u \in Actors /\ pc = [a \in Actors |-> pc[a]] /\ at = [a \in Actors |-> at[a]]
      /\ sess = [a \in Actors |-> sess[a]] /\ session = [l \in Links |-> session[l]]
  BY ActorKinds DEF TypeOK, LabelsOK
<1>2. links' = links /\ Known' = Known
  BY DEF UserStep, UserMove, Used, Return, Finish, TryNext, Skip, Use, Succeed, Fail, MarkLock,
      MarkDisconnected,
         try_claim_redial, Spawn, linkVars, Known
<1> USE <1>1, <1>2, ActorKinds DEF SessionInv, Goto, Move
<1>3. CASE Return(u) \/ \E l \in Links : TryNext(u, l)
  BY <1>3 DEF Return, Finish, TryNext, linkVars
<1>4. CASE Skip(u)
  BY <1>4 DEF Skip, linkVars
<1>5. CASE Use(u)
  BY <1>5 DEF Use, linkVars
<1>6. CASE Succeed(u)
  BY <1>6 DEF Succeed, Finish, linkVars
<1>7. CASE Fail(u) \/ MarkLock(u)
  BY <1>7 DEF Fail, MarkLock, linkVars
<1>8. CASE MarkDisconnected(u)
  BY <1>8 DEF MarkDisconnected
<1>9. CASE try_claim_redial(u)
  BY <1>9 DEF try_claim_redial
<1>10. CASE Spawn(u)
  BY <1>10 DEF Spawn, linkVars
<1>11. QED
  BY <1>3, <1>4, <1>5, <1>6, <1>7, <1>8, <1>9, <1>10 DEF UserStep, UserMove, Used

\* A lifecycle task installs the session it has dialled.
LEMMA TaskSession ==
  ASSUME TypeOK, ScopeInv, HolderInv, SessionInv, NEW t \in Tasks, TaskStep(t)
  PROVE  SessionInv'
<1>1. /\ t \in Actors /\ pc = [a \in Actors |-> pc[a]] /\ at = [a \in Actors |-> at[a]]
      /\ sess = [a \in Actors |-> sess[a]] /\ session = [l \in Links |-> session[l]]
  BY ActorKinds DEF TypeOK, LabelsOK
<1>2. links' = links /\ Known' = Known
  BY DEF TaskStep, Start, Check, DialOk, DialErr, Wake, Install, Announce, Release, linkVars,
         Known
<1> USE <1>1, <1>2, ActorKinds DEF SessionInv, Goto, Move
<1>3. CASE Start(t) \/ Check(t) \/ Wake(t)
  BY <1>3 DEF Start, Check, Wake, linkVars
<1>4. CASE DialOk(t)
  <2>1. PICK s \in Sessions : sess' = [sess EXCEPT ![t] = s]
    BY <1>4 DEF DialOk
  <2>2. s # NoSession
    BY PoolAssumption
  <2>3. pc' = [pc EXCEPT ![t] = "install"] /\ UNCHANGED <<links, session, at>>
    BY <1>4 DEF DialOk, linkVars
  <2>4. QED BY <2>1, <2>2, <2>3
<1>5. CASE DialErr(t)
  BY <1>5 DEF DialErr
<1>6. CASE Install(t)
  <2>1. at[t] \in Known
    BY <1>6 DEF Install, ScopeInv, Placed
  <2>2. pc[Closer] = "goodbye" => at[Closer] # at[t]
    BY <1>6 DEF Install, HolderInv, Holding, Holds
  <2>3. QED BY <1>6, <2>1, <2>2 DEF Install
<1>7. CASE Announce(t) \/ Release(t)
  BY <1>7 DEF Announce, Release
<1>8. QED
  BY <1>3, <1>4, <1>5, <1>6, <1>7 DEF TaskStep

\* The discovery loop changes no session.
LEMMA DiscoSession ==
  ASSUME TypeOK, ScopeInv, HolderInv, SessionInv, DiscoStep
  PROVE  SessionInv'
<1>1. /\ Disco \in Actors /\ pc = [a \in Actors |-> pc[a]] /\ at = [a \in Actors |-> at[a]]
      /\ sess = [a \in Actors |-> sess[a]] /\ session = [l \in Links |-> session[l]]
  BY ActorKinds DEF TypeOK, LabelsOK
<1>0. links' = links => Known' = Known
  BY DEF Known
<1> USE <1>0, <1>1, ActorKinds DEF SessionInv, Goto, Move
<1>2. CASE DiscoStart \/ DiscoStop \/ Added
  BY <1>2 DEF DiscoStart, DiscoStop, Added, linkVars
<1>3. CASE Resolve
  BY <1>3 DEF Resolve, linkVars
<1>4. CASE Find
  BY <1>4 DEF Find, linkVars
<1>5. CASE FindDone
  BY <1>5 DEF FindDone, linkVars
<1>6. CASE Invoke(Disco, "call")
  BY <1>6 DEF Invoke, linkVars
<1>7. CASE \E l \in Links : CountSlots(l)
  BY <1>7 DEF CountSlots, linkVars
<1>8. CASE PushLink
  <2>1. Known \subseteq Known'
    BY <1>8, KnownStep DEF Next, DiscoStep, DiscoMove
  <2>2. QED BY <1>8, <2>1 DEF PushLink
<1>9. CASE ClaimNew
  BY <1>9 DEF ClaimNew
<1>10. QED
  BY <1>2, <1>3, <1>4, <1>5, <1>6, <1>7, <1>8, <1>9 DEF DiscoStep, DiscoMove

\* Close takes the sessions away.
LEMMA CloserSession ==
  ASSUME TypeOK, ScopeInv, HolderInv, SessionInv, CloserStep
  PROVE  SessionInv'
<1>1. /\ Closer \in Actors /\ pc = [a \in Actors |-> pc[a]] /\ at = [a \in Actors |-> at[a]]
      /\ sess = [a \in Actors |-> sess[a]] /\ session = [l \in Links |-> session[l]]
  BY ActorKinds DEF TypeOK, LabelsOK
<1>2. links' = links /\ Known' = Known
  BY DEF CloserStep, CloserMove, Shutdown, Abort, Drain, StartDrain, DrainNext, Take, Drained,
      Closed,
         linkVars, Known
<1> USE <1>1, <1>2, ActorKinds DEF SessionInv, Goto, Move
<1>3. CASE Shutdown \/ Drain \/ Closed
  BY <1>3 DEF Shutdown, Drain, Closed, StartDrain, linkVars
<1>4. CASE \E a \in Tasks \cup {Disco} : Abort(a)
  BY <1>4 DEF Abort, linkVars
<1>5. CASE \E l \in Links : DrainNext(l)
  BY <1>5 DEF DrainNext, linkVars
<1>6. CASE Take
  BY <1>6, PlacedLink DEF Take, Placed
<1>7. CASE Drained
  BY <1>7 DEF Drained
<1>8. QED
  BY <1>3, <1>4, <1>5, <1>6, <1>7 DEF CloserStep, CloserMove

\* Sessions, after every step.
LEMMA SessionStep ==
  ASSUME TypeOK, ScopeInv, HolderInv, SessionInv, [Next]_vars
  PROVE  SessionInv'
<1>1. pc = [a \in Actors |-> pc[a]]
  BY DEF TypeOK, LabelsOK
<1>2. links' = links => Known' = Known
  BY DEF Known
<1>3. CASE \E c \in Callers, o \in {"call", "publish"} : Invoke(c, o)
  BY <1>1, <1>2, <1>3, ActorKinds DEF Invoke, Goto, SessionInv, linkVars
<1>4. CASE SendStop
  BY <1>1, <1>2, <1>4, ActorKinds DEF SendStop, Goto, Move, SessionInv, linkVars
<1>5. CASE \E c \in Callers : Drop(c)
  BY <1>1, <1>2, <1>5, ActorKinds DEF Drop, Finish, Goto, SessionInv, linkVars, TypeOK
<1>6. CASE UNCHANGED vars
  BY <1>2, <1>6 DEF vars, SessionInv, linkVars
<1>7. QED
  BY <1>3, <1>4, <1>5, <1>6, UserSession, TaskSession, DiscoSession, CloserSession DEF Next

-----------------------------------------------------------------------------
(* The end of the pool.                                                     *)

\* A user that is late may spawn a task, and may not install a session.
LEMMA UserStop ==
  ASSUME TypeOK, ScopeInv, StopInv, NEW u \in Users, UserStep(u)
  PROVE  StopInv'
<1>1. /\ u \in Actors /\ pc = [a \in Actors |-> pc[a]] /\ at = [a \in Actors |-> at[a]]
      /\ session = [l \in Links |-> session[l]]
      /\ todo = [a \in Users \cup {Closer} |-> todo[a]]
  BY ActorKinds DEF TypeOK, LabelsOK
<1>2. /\ links' = links /\ stop' = stop /\ Known' = Known
      /\ pc'[Closer] = pc[Closer] /\ at'[Closer] = at[Closer]
      /\ todo'[Closer] = todo[Closer]
  <2>1. links' = links /\ stop' = stop
    BY DEF UserStep, UserMove, Used, Return, Finish, TryNext, Skip, Use, Succeed, Fail, MarkLock,
        MarkDisconnected,
           try_claim_redial, Spawn, linkVars
  <2>2. pc'[Closer] = pc[Closer] /\ at'[Closer] = at[Closer]
    BY <1>1, ActorKinds
       DEF UserStep, UserMove, Used, Return, Finish, TryNext, Skip, Use, Succeed, Fail, MarkLock,
           MarkDisconnected,
           try_claim_redial, Spawn, Goto, Move, NextTask
  <2>3. todo'[Closer] = todo[Closer]
    BY <1>1, ActorKinds
       DEF UserStep, UserMove, Used, Return, Finish, TryNext, Skip, Use, Succeed, Fail, MarkLock,
           MarkDisconnected,
           try_claim_redial, Spawn, userVars
  <2>4. QED BY <2>1, <2>2, <2>3 DEF Known
<1>3. pc[Disco] \in {"off", "gone"} => pc'[Disco] = pc[Disco]
  BY <1>1, ActorKinds
     DEF UserStep, UserMove, Used, Return, Finish, TryNext, Skip, Use, Succeed, Fail, MarkLock,
         MarkDisconnected,
         try_claim_redial, Spawn, Goto, Move, NextTask
<1>4. \A t \in Tasks : pc'[t] \in {pc[t], "new"}
  BY <1>1, ActorKinds
     DEF UserStep, UserMove, Used, Return, Finish, TryNext, Skip, Use, Succeed, Fail, MarkLock,
         MarkDisconnected,
         try_claim_redial, Spawn, Goto, Move, NextTask
<1>5. \A l \in Links : session'[l] \in {session[l], NoSession}
  BY <1>1
     DEF UserStep, UserMove, Used, Return, Finish, TryNext, Skip, Use, Succeed, Fail, MarkLock,
         MarkDisconnected,
         try_claim_redial, Spawn, linkVars
<1>6. Known \subseteq Links
  BY KnownLinks
<1>7. QED BY <1>2, <1>3, <1>4, <1>5, <1>6 DEF StopInv

\* A task sees the signal and does not dial.
LEMMA TaskStop ==
  ASSUME TypeOK, ScopeInv, StopInv, NEW t \in Tasks, TaskStep(t)
  PROVE  StopInv'
<1>1. /\ t \in Actors /\ pc = [a \in Actors |-> pc[a]] /\ at = [a \in Actors |-> at[a]]
  BY ActorKinds DEF TypeOK, LabelsOK
<1>2. /\ links' = links /\ stop' = stop /\ Known' = Known /\ todo' = todo
      /\ pc'[Closer] = pc[Closer] /\ at'[Closer] = at[Closer]
      /\ pc'[Disco] = pc[Disco]
      /\ \A b \in Tasks \ {t} : pc'[b] = pc[b]
  <2>1. links' = links /\ stop' = stop /\ todo' = todo
    BY DEF TaskStep, Start, Check, DialOk, DialErr, Wake, Install, Announce, Release, linkVars,
           userVars
  <2>2. /\ pc'[Closer] = pc[Closer] /\ at'[Closer] = at[Closer]
        /\ pc'[Disco] = pc[Disco]
        /\ \A b \in Tasks \ {t} : pc'[b] = pc[b]
    BY <1>1, ActorKinds
       DEF TaskStep, Start, Check, DialOk, DialErr, Wake, Install, Announce, Release, Goto, Move
  <2>3. QED BY <2>1, <2>2 DEF Known
<1>3. stop /\ pc[t] \in {"idle", "new", "check", "release"} =>
        session' = session /\ pc'[t] \in {"idle", "new", "check", "release"}
  BY <1>1
     DEF TaskStep, Start, Check, DialOk, DialErr, Wake, Install, Announce, Release, Goto, Move,
         linkVars
<1>4. QED BY <1>2, <1>3 DEF StopInv

\* The discovery loop is over before close drains the links.
LEMMA DiscoStops ==
  ASSUME TypeOK, ScopeInv, StopInv, DiscoStep
  PROVE  StopInv'
<1>1. Disco \in Actors /\ pc = [a \in Actors |-> pc[a]]
  BY ActorKinds DEF TypeOK, LabelsOK
<1>2. pc[Disco] \notin {"off", "gone"}
  BY DEF DiscoStep, DiscoMove, DiscoStart, DiscoStop, Resolve, Find, FindDone, Invoke,
      CountSlots, PushLink, ClaimNew,
         Added, Move
<1>3. pc[Closer] \notin Draining
  BY <1>2 DEF StopInv
<1>4. stop' = stop /\ pc'[Closer] = pc[Closer]
  BY <1>1, ActorKinds
     DEF DiscoStep, DiscoMove, DiscoStart, DiscoStop, Resolve, Find, FindDone, Invoke,
         CountSlots, PushLink, ClaimNew,
         Added, Move, Goto, NextTask
<1>5. QED BY <1>3, <1>4 DEF StopInv, Draining

\* Close drains every link.
LEMMA CloserStops ==
  ASSUME TypeOK, ScopeInv, SessionInv, StopInv, CloserStep
  PROVE  StopInv'
<1>1. /\ Closer \in Actors /\ pc = [a \in Actors |-> pc[a]] /\ at = [a \in Actors |-> at[a]]
      /\ session = [l \in Links |-> session[l]]
      /\ todo = [a \in Users \cup {Closer} |-> todo[a]]
  BY ActorKinds DEF TypeOK, LabelsOK
<1>2. links' = links /\ stop' = stop /\ Known' = Known
  BY DEF CloserStep, CloserMove, Shutdown, Abort, Drain, StartDrain, DrainNext, Take, Drained,
      Closed,
         linkVars, Known
<1> USE <1>1, <1>2, ActorKinds DEF StopInv, Draining, Goto, Move
<1>3. CASE (Shutdown \/ Drain) /\ TasksGone
  BY <1>3 DEF Shutdown, Drain, StartDrain, TasksGone, linkVars
<1>4. CASE Shutdown /\ ~TasksGone
  BY <1>4 DEF Shutdown
<1>5. CASE Shutdown /\ pc'[Closer] = "shutdown"
  BY <1>5 DEF Shutdown
<1>6. CASE \E a \in Tasks \cup {Disco} : Abort(a)
  BY <1>6 DEF Abort
<1>7. CASE \E l \in Links : DrainNext(l)
  <2>1. PICK m \in Links :
          /\ pc[Closer] = "drain" /\ pc' = [pc EXCEPT ![Closer] = "drainLock"]
          /\ at' = [at EXCEPT ![Closer] = m]
          /\ todo' = [todo EXCEPT ![Closer] = @ \ {m}]
          /\ UNCHANGED <<stop, session>>
    BY <1>7 DEF DrainNext, linkVars
  <2>2. /\ pc'[Closer] = "drainLock" /\ at'[Closer] = m
        /\ todo'[Closer] = todo[Closer] \ {m}
        /\ \A a \in Actors \ {Closer} : pc'[a] = pc[a]
    BY <2>1
  <2>3. /\ pc'[Disco] = pc[Disco] /\ \A t \in Tasks : pc'[t] = pc[t]
    BY <2>2
  <2>4. ASSUME stop, NEW l \in Known
        PROVE  \/ session'[l] = NoSession
               \/ l \in todo'[Closer]
               \/ pc'[Closer] = "drainLock" /\ at'[Closer] = l
    <3>1. session[l] = NoSession \/ l \in todo[Closer]
      BY <2>1, <2>4
    <3>2. QED BY <2>1, <2>2, <3>1
  <2>5. stop => \A t \in Tasks : pc'[t] \in {"idle", "new", "check", "release"}
    BY <2>1, <2>3
  <2>6. pc'[Disco] \in {"off", "gone"} /\ stop' = stop
    BY <2>1, <2>3
  <2> HIDE DEF Draining
  <2>7. QED BY <1>2, <2>2, <2>4, <2>5, <2>6
<1>8. CASE Take
  <2>1. pc[Closer] = "drainLock" /\ pc' = [pc EXCEPT ![Closer] = "goodbye"]
        /\ UNCHANGED <<stop, at, todo>>
        /\ session' = [session EXCEPT ![at[Closer]] = NoSession]
    BY <1>8 DEF Take, userVars
  <2>2. QED BY <2>1, KnownLinks
<1>9. CASE Drained
  BY <1>9 DEF Drained, userVars
<1>10. CASE Closed
  BY <1>10 DEF Closed, linkVars, userVars
<1>11. QED
  BY <1>3, <1>4, <1>5, <1>6, <1>7, <1>8, <1>9, <1>10 DEF CloserStep, CloserMove, Drain, Shutdown

\* What has come to an end stays so, after every step.
LEMMA StopStep ==
  ASSUME TypeOK, ScopeInv, SessionInv, StopInv, [Next]_vars
  PROVE  StopInv'
<1>1. pc = [a \in Actors |-> pc[a]]
  BY DEF TypeOK, LabelsOK
<1>2. links' = links => Known' = Known
  BY DEF Known
<1>3. CASE \E c \in Callers, o \in {"call", "publish"} : Invoke(c, o)
  <2>1. PICK c \in Callers, o \in {"call", "publish"} : Invoke(c, o)
    BY <1>3
  <2>2. /\ \A a \in Actors \ {c} : pc'[a] = pc[a]
        /\ UNCHANGED <<links, session, stop, at>>
        /\ todo'[Closer] = todo[Closer]
    BY <1>1, <2>1, ActorKinds DEF Invoke, Goto, linkVars, TypeOK
  <2>3. QED BY <1>2, <2>2, ActorKinds DEF StopInv, Users
<1>4. CASE SendStop
  BY <1>1, <1>4, ActorKinds DEF SendStop, Goto, Move, StopInv, Draining
<1>5. CASE \E c \in Callers : Drop(c)
  <2>1. PICK c \in Callers : Drop(c)
    BY <1>5
  <2>2. /\ \A a \in Actors \ {c} : pc'[a] = pc[a] /\ at'[a] = at[a]
        /\ UNCHANGED <<links, session, stop>>
        /\ todo'[Closer] = todo[Closer]
    BY <1>1, <2>1, ActorKinds DEF Drop, Finish, Goto, linkVars, TypeOK
  <2>3. QED BY <1>2, <2>2, ActorKinds DEF StopInv, Users
<1>6. CASE UNCHANGED vars
  BY <1>2, <1>6 DEF vars, StopInv, linkVars, userVars
<1>7. QED
  BY <1>3, <1>4, <1>5, <1>6, UserStop, TaskStop, DiscoStops, CloserStops DEF Next

-----------------------------------------------------------------------------
(* Sessions in sight.                                                       *)

\* A user empties a link at the moment it takes it out of sight.
LEMMA UserOffer ==
  ASSUME TypeOK, ScopeInv, SessionIsOffered, NEW u \in Users, UserStep(u)
  PROVE  SessionIsOffered'
<1>1. /\ pc = [a \in Actors |-> pc[a]] /\ at = [a \in Actors |-> at[a]]
      /\ session = [l \in Links |-> session[l]]
      /\ connected = [l \in Links |-> connected[l]]
  BY DEF TypeOK, LabelsOK
<1>2. \A t \in Tasks : pc[t] = "announce" => pc'[t] = "announce" /\ at'[t] = at[t]
  BY <1>1, ActorKinds
     DEF UserStep, UserMove, Used, Return, Finish, TryNext, Skip, Use, Succeed, Fail, MarkLock,
         MarkDisconnected, try_claim_redial, Spawn, Goto, Move, NextTask
<1>3. CASE MarkDisconnected(u)
  BY <1>1, <1>2, <1>3 DEF MarkDisconnected, SessionIsOffered
<1>4. CASE ~MarkDisconnected(u)
  <2>1. session' = session /\ connected' = connected
    BY <1>4 DEF UserStep, UserMove, Used, Return, TryNext, Skip, Use, Succeed, Fail, MarkLock,
      try_claim_redial, Spawn, linkVars
  <2>2. QED
    BY <1>2, <2>1 DEF SessionIsOffered
<1>5. QED
  BY <1>3, <1>4

\* A lifecycle task announces the session it has installed.
LEMMA TaskOffer ==
  ASSUME TypeOK, ScopeInv, SessionIsOffered, NEW t \in Tasks, TaskStep(t)
  PROVE  SessionIsOffered'
<1>1. /\ pc = [a \in Actors |-> pc[a]] /\ at = [a \in Actors |-> at[a]]
      /\ session = [l \in Links |-> session[l]]
      /\ connected = [l \in Links |-> connected[l]]
  BY DEF TypeOK, LabelsOK
<1>2. t \in Actors /\ (pc[t] \in Placed => at[t] \in Links)
  BY ActorKinds, PlacedLink
<1>3. CASE Install(t)
  BY <1>1, <1>2, <1>3, ActorKinds DEF Install, SessionIsOffered, Goto, Move, Placed
<1>4. CASE Announce(t)
  BY <1>1, <1>2, <1>4, ActorKinds DEF Announce, SessionIsOffered, Goto, Move, Placed
<1>5. CASE ~Install(t) /\ ~Announce(t)
  <2>1. session' = session /\ connected' = connected
    BY <1>5 DEF TaskStep, Start, Check, DialOk, DialErr, Wake, Release, linkVars
  <2>2. \A s \in Tasks : pc[s] = "announce" => pc'[s] = "announce" /\ at'[s] = at[s]
    BY <1>1, <1>2, <1>5, ActorKinds
       DEF TaskStep, Start, Check, DialOk, DialErr, Wake, Release, Goto, Move
  <2>3. QED
    BY <2>1, <2>2 DEF SessionIsOffered
<1>6. QED
  BY <1>3, <1>4, <1>5

\* Close takes a session first and out of sight after it.
LEMMA CloserOffer ==
  ASSUME TypeOK, ScopeInv, SessionInv, SessionIsOffered, CloserStep
  PROVE  SessionIsOffered'
<1>1. /\ pc = [a \in Actors |-> pc[a]] /\ at = [a \in Actors |-> at[a]]
      /\ session = [l \in Links |-> session[l]]
      /\ connected = [l \in Links |-> connected[l]]
  BY DEF TypeOK, LabelsOK
<1>2. \A t \in Tasks : pc[t] = "announce" => pc'[t] = "announce" /\ at'[t] = at[t]
  BY <1>1, ActorKinds
     DEF CloserStep, CloserMove, Shutdown, StartDrain, Abort, Abortable, Drain, DrainNext, Take,
         Drained, Closed, Goto, Move
<1>3. CASE Take
  BY <1>1, <1>2, <1>3 DEF Take, SessionIsOffered
<1>4. CASE Drained
  BY <1>1, <1>2, <1>4 DEF Drained, SessionIsOffered, SessionInv, Move
<1>5. CASE ~Take /\ ~Drained
  <2>1. session' = session /\ connected' = connected
    BY <1>5 DEF CloserStep, CloserMove, Shutdown, Abort, Drain, DrainNext, Closed, linkVars
  <2>2. QED
    BY <1>2, <2>1 DEF SessionIsOffered
<1>6. QED
  BY <1>3, <1>4, <1>5

\* Every session stays in sight, after every step.
LEMMA OfferStep ==
  ASSUME TypeOK, ScopeInv, SessionInv, SessionIsOffered, [Next]_vars
  PROVE  SessionIsOffered'
<1>1. pc = [a \in Actors |-> pc[a]] /\ at = [a \in Actors |-> at[a]]
  BY DEF TypeOK, LabelsOK
<1>2. CASE \E c \in Callers, o \in {"call", "publish"} : Invoke(c, o)
  BY <1>1, <1>2, ActorKinds DEF Invoke, Goto, SessionIsOffered, linkVars
<1>3. CASE \E c \in Callers : Drop(c)
  BY <1>1, <1>3, ActorKinds DEF Drop, Finish, Goto, SessionIsOffered, linkVars
<1>4. CASE SendStop
  BY <1>1, <1>4, ActorKinds DEF SendStop, Goto, Move, SessionIsOffered, linkVars
<1>5. CASE DiscoStep
  <2>1. session' = session /\ connected' = connected
    BY <1>5 DEF DiscoStep, DiscoMove, DiscoStart, DiscoStop, Resolve, Find, FindDone, Invoke,
      CountSlots, PushLink, ClaimNew, Added, linkVars
  <2>2. \A t \in Tasks : pc'[t] = pc[t] /\ at'[t] = at[t]
    BY <1>1, <1>5, ActorKinds
       DEF DiscoStep, DiscoMove, DiscoStart, DiscoStop, Resolve, Find, FindDone, Invoke,
           CountSlots, PushLink, ClaimNew, Added, Goto, Move
  <2>3. QED
    BY <2>1, <2>2 DEF SessionIsOffered
<1>6. CASE UNCHANGED vars
  BY <1>6 DEF vars, SessionIsOffered, linkVars
<1>7. QED
  BY <1>2, <1>3, <1>4, <1>5, <1>6, UserOffer, TaskOffer, CloserOffer DEF Next

-----------------------------------------------------------------------------
(* What follows of the links.                                               *)

\* Queues, sessions, what is offered of them and the close are right in every
\* reachable state of every pool.
THEOREM LinksInvariance == Spec => []LinkInv
<1>1. Init => LinkInv
  BY InitLinks DEF LinkInv
<1>2. IInv /\ LinkInv /\ [Next]_vars => LinkInv'
  BY QueueStep, SessionStep, StopStep, OfferStep DEF LinkInv, IInv
<1>3. QED
  BY <1>1, <1>2, Invariance, PTL DEF Spec

\* A session that a link has is offered to whoever selects links, or is about to
\* be, on either flavour of the runtime: no late mark_disconnected leaves one
\* behind that nobody can select (PooledLink::connected).
THEOREM SessionsAreOffered == Spec => []SessionIsOffered
<1>1. LinkInv => SessionIsOffered
  BY DEF LinkInv
<1>2. QED
  BY <1>1, LinksInvariance, PTL

\* A pool whose stop signal was received is left without a session, and nobody
\* dials for it, although a late failure of a call may still spawn a lifecycle
\* task (Pool::close, run_link_lifecycle).
THEOREM StoppedStaysClosed == Spec => []NothingAfterStop
<1>1. LinkInv => NothingAfterStop
  <2> SUFFICES ASSUME LinkInv, stop, pc[Closer] = "done"
               PROVE  /\ \A l \in Links : session[l] = NoSession
                      /\ \A t \in Tasks : pc[t] \notin {"dial", "install"}
    BY DEF NothingAfterStop, NothingAfterClose
  <2>1. \A l \in Known : session[l] = NoSession
    BY DEF LinkInv, StopInv, Draining
  <2>2. \A l \in Links \ Known : session[l] = NoSession
    BY DEF LinkInv, SessionInv
  <2>3. \A t \in Tasks : pc[t] \in {"idle", "new", "check", "release"}
    BY DEF LinkInv, StopInv, Draining
  <2>4. QED
    BY <2>1, <2>2, <2>3
<1>2. QED
  BY <1>1, LinksInvariance, PTL

=============================================================================
