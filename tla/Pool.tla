-------------------------------- MODULE Pool --------------------------------
(***************************************************************************)
(* The connection pool of src/pool.rs: links that are dialled and redialled *)
(* by background tasks, callers of Pool::call and Pool::publish that share  *)
(* the links' sessions, the station-discovery loop that adds links, and     *)
(* Pool::close.                                                             *)
(*                                                                          *)
(* An actor is a caller, a lifecycle task, the discovery loop or the        *)
(* closer.  Its program counter stands between two steps of its code.  A    *)
(* label in Running is a place without an await: on a current-thread tokio  *)
(* runtime nobody else moves while an actor is there, on a multi-thread     *)
(* runtime (MultiThread) every other worker may.                            *)
(***************************************************************************)
EXTENDS Naturals, Sequences, FiniteSets, SequencesExt

CONSTANTS
  Bootstrap,    \* the links of the caller-supplied seeds, in order (a sequence)
  Discoverable, \* the links that hecate_stations.list_stations can name
  Callers,      \* application tasks that use the pool
  Publishers,   \* those of them that publish as well as call
  Tasks,        \* slots of the pool's JoinSet for lifecycle tasks
  Sessions,     \* identities of QUIC connections, reused once forgotten
  Disco,        \* the discovery loop
  Closer,       \* the task that runs Pool::close
  NoSession, NoLink,
  MaxFailures,  \* DISCOVERY_LINK_MAX_RESPAWN_ATTEMPTS
  MaxLinks,     \* StationDiscoveryOptions::max_links
  Replication,  \* PoolOptions::replication_factor
  RandomOrder,  \* LinkSelection::Random rather than FirstSuccess
  Applications, \* the sets of callers that the application may have
  Discovery,    \* what "station_discovery.enabled, and a trust other than Pinned" may be
  MultiThread   \* the flavour of the tokio runtime

BootstrapLinks == {Bootstrap[i] : i \in 1..Len(Bootstrap)}
Links  == BootstrapLinks \cup Discoverable
Users  == Callers \cup {Disco}
Actors == Users \cup Tasks \cup {Closer}

ASSUME PoolAssumption ==
  /\ Bootstrap \in Seq(BootstrapLinks)
  /\ Bootstrap # <<>>
  /\ \A i, j \in 1..Len(Bootstrap) : i # j => Bootstrap[i] # Bootstrap[j]
  /\ BootstrapLinks \cap Discoverable = {}
  /\ NoLink \notin Links
  /\ NoSession \notin Sessions
  /\ Disco \notin Callers
  /\ Closer \notin Users
  /\ Tasks \cap (Users \cup {Closer}) = {}
  /\ MaxFailures \in Nat \ {0}
  /\ MaxLinks \in Nat
  /\ Replication \in Nat
  /\ {RandomOrder, MultiThread} \cup Discovery \subseteq BOOLEAN

VARIABLES
  links,     \* Pool::links, append-only until close drains it
  session,   \* LinkState::session of each link
  connected, \* PooledLink::connected
  redialing, \* PooledLink::redialing
  gaveUp,    \* PooledLink::gave_up
  failures,  \* PooledLink::consecutive_failures, saturating at MaxFailures
  mutex,     \* PooledLink::state's fair lock: the head holds it, the rest wait
  stop,      \* the value in the pool's watch channel
  pc,        \* where each actor is
  at,        \* the link an actor works on
  sess,      \* the session an actor uses or has just dialled
  todo,      \* the links a user has still to try, or close to drain
  op         \* what a user is doing: a call or a publish

linkVars == <<links, session, connected, redialing, gaveUp, failures>>
userVars == <<todo, op>>
vars == <<linkVars, mutex, stop, pc, at, sess, userVars>>

-----------------------------------------------------------------------------
(* The program counter and the executor.                                    *)

UserLabels ==
  {"off", "idle", "next", "lock", "using", "mark", "markLock", "claim", "spawn", "blocked"}
DiscoLabels ==
  UserLabels \cup {"new", "find", "finding", "resolved", "adding", "push", "newClaim",
                   "newSpawn", "gone"}
TaskLabels == {"idle", "new", "check", "dial", "install", "announce", "sleep", "release"}
CloserLabels == {"idle", "tasks", "shutdown", "drain", "drainLock", "goodbye", "done"}

\* The labels inside a stretch of code that has no await in it.
Running ==
  {"next", "mark", "claim", "spawn", "resolved", "newClaim", "newSpawn", "check", "announce",
   "release", "tasks", "drain"}

\* The executor lets actor a move.  A current-thread runtime preempts nobody,
\* and never polls again a task that abort_all has marked.
MayRun(a) ==
  \/ MultiThread
  \/ /\ \A b \in Actors \ {a} : pc[b] \notin Running
     /\ a \in Tasks \cup {Disco} => pc[Closer] # "shutdown"

Goto(a, label) == pc' = [pc EXCEPT ![a] = label]

Move(a, from, to) == MayRun(a) /\ pc[a] = from /\ Goto(a, to)

-----------------------------------------------------------------------------
(* tokio::sync::Mutex is fair: an actor joins the tail, the head holds.     *)

Holds(a, l) == mutex[l] # <<>> /\ Head(mutex[l]) = a
Enqueue(a, l) == mutex' = [mutex EXCEPT ![l] = Append(@, a)]
Unlock(l) == mutex' = [mutex EXCEPT ![l] = Tail(@)]

\* The places at which an actor waits for the lock of its link, or holds it.
Locking == {"lock", "using", "markLock", "find", "finding", "install"}

\* A future that is dropped gives up the lock, or its place in the queue.
LeaveQueue(a) ==
  IF pc[a] \in Locking
  THEN \E i \in 1..Len(mutex[at[a]]) :
         /\ mutex[at[a]][i] = a
         /\ mutex' = [mutex EXCEPT ![at[a]] = RemoveAt(@, i)]
  ELSE UNCHANGED mutex

-----------------------------------------------------------------------------
(* Derived state.                                                           *)

\* Pool::close holds the write lock of links from its drain to its end.
LinksLocked == pc[Closer] \in {"drain", "drainLock", "goodbye"}

\* The links that were ever in the pool.
Known == {links[i] : i \in 1..Len(links)}

\* What a reader finds in Pool::links: nothing once close has drained it.
VisibleLinks == IF pc[Closer] = "done" THEN {} ELSE Known

ConnectedLinks == {l \in VisibleLinks : connected[l]}

\* Insertion order, the order FirstSuccess tries links in.
Before(l, m) == \E i, j \in 1..Len(links) : i < j /\ links[i] = l /\ links[j] = m

\* l may be the next of the candidates S to be tried.
MayPick(l, S) == RandomOrder \/ \A m \in S \ {l} : Before(l, m)

\* The links a publish fans out to: the first `replication_factor` (at least
\* one) of the candidates S, in the order of the link selection.
FanOut(S) ==
  LET n == IF Replication = 0 THEN 1 ELSE Replication
  IN {T \in SUBSET S :
        /\ Cardinality(T) = IF Cardinality(S) < n THEN Cardinality(S) ELSE n
        /\ RandomOrder \/ \A l \in T, m \in S \ T : Before(l, m)}

\* count_occupied_discovery_slots
OccupiedSlots == Cardinality({l \in VisibleLinks \cap Discoverable : ~gaveUp[l]})

\* Those subscribed to the watch channel; send fails when there is nobody.
Receivers ==
  {t \in Tasks : pc[t] \in {"check", "dial", "install", "announce", "sleep"}}
    \cup {d \in {Disco} : pc[d] \notin {"off", "new", "gone"}}

\* A session nobody in the pool knows of any more: its identity is free.
Fresh(s) ==
  /\ \A l \in Links : session[l] # s
  /\ \A a \in Actors : sess[a] # s

\* Free identities are interchangeable, and so are free slots: one is taken.
NextSession(s) == Fresh(s) /\ s = CHOOSE r \in Sessions : Fresh(r)
NextTask(t) == pc[t] = "idle" /\ t = CHOOSE r \in Tasks : pc[r] = "idle"

should_give_up(l, n) == l \in Discoverable /\ n >= MaxFailures

-----------------------------------------------------------------------------
(* Pool::connect returns with every seed's lifecycle task spawned.          *)

Init ==
  \E owner \in [BootstrapLinks -> Tasks], callers \in Applications, discovery \in Discovery :
    /\ \A l, m \in BootstrapLinks : l # m => owner[l] # owner[m]
    /\ links = Bootstrap
    /\ session = [l \in Links |-> NoSession]
    /\ connected = [l \in Links |-> FALSE]
    /\ redialing = [l \in Links |-> l \in BootstrapLinks]
    /\ gaveUp = [l \in Links |-> FALSE]
    /\ failures = [l \in Links |-> 0]
    /\ mutex = [l \in Links |-> <<>>]
    /\ stop = FALSE
    /\ pc = [a \in Actors |->
               CASE \E l \in BootstrapLinks : owner[l] = a -> "new"
                 [] a = Disco -> IF discovery THEN "new" ELSE "off"
                 [] a \in Callers -> IF a \in callers THEN "idle" ELSE "off"
                 [] OTHER -> "idle"]
    /\ at = [a \in Actors |->
               IF \E l \in BootstrapLinks : owner[l] = a
               THEN CHOOSE l \in BootstrapLinks : owner[l] = a
               ELSE NoLink]
    /\ sess = [a \in Actors |-> NoSession]
    /\ todo = [a \in Users \cup {Closer} |-> {}]
    /\ op = [u \in Users |-> "call"]

-----------------------------------------------------------------------------
(* Pool::call and Pool::publish.                                            *)

\* select_connected_links, cut to the fan-out for a publish.
Invoke(u, o) ==
  /\ MayRun(u)
  /\ pc[u] = IF u = Disco THEN "resolved" ELSE "idle"
  /\ o = "publish" => u \in Publishers
  /\ ~LinksLocked
  /\ \E S \in (IF o = "call" THEN {ConnectedLinks} ELSE FanOut(ConnectedLinks)) :
       todo' = [todo EXCEPT ![u] = S]
  /\ op' = [op EXCEPT ![u] = o]
  /\ Goto(u, "next")
  /\ UNCHANGED <<linkVars, mutex, stop, at, sess>>

\* A call or a publish is over: its locals go.
Finish(u) ==
  /\ at' = [at EXCEPT ![u] = NoLink]
  /\ todo' = [todo EXCEPT ![u] = {}]
  /\ op' = [op EXCEPT ![u] = "call"]

\* No candidate is left: the result, or the last error, goes to the caller.
Return(u) ==
  /\ Move(u, "next", "idle")
  /\ todo[u] = {}
  /\ Finish(u)
  /\ UNCHANGED <<linkVars, mutex, stop, sess>>

TryNext(u, l) ==
  /\ Move(u, "next", "lock")
  /\ l \in todo[u]
  /\ MayPick(l, todo[u])
  /\ todo' = [todo EXCEPT ![u] = @ \ {l}]
  /\ at' = [at EXCEPT ![u] = l]
  /\ Enqueue(u, l)
  /\ UNCHANGED <<linkVars, stop, sess, op>>

\* The lock is granted, but the session went since the link was selected.
Skip(u) ==
  /\ Move(u, "lock", "next")
  /\ Holds(u, at[u])
  /\ session[at[u]] = NoSession
  /\ Unlock(at[u])
  /\ UNCHANGED <<linkVars, stop, at, sess, userVars>>

\* Session::call or Session::publish starts, with the lock held across it.
Use(u) ==
  /\ Move(u, "lock", "using")
  /\ Holds(u, at[u])
  /\ session[at[u]] # NoSession
  /\ sess' = [sess EXCEPT ![u] = session[at[u]]]
  /\ UNCHANGED <<linkVars, mutex, stop, at, userVars>>

\* A publish goes on to its next target, a call returns its answer.  Whether a
\* session still lives is seen when it is used, and not before.
Succeed(u) ==
  /\ Move(u, "using",
         IF op[u] = "publish" THEN "next" ELSE IF u = Disco THEN "adding" ELSE "idle")
  /\ Unlock(at[u])
  /\ sess' = [sess EXCEPT ![u] = NoSession]
  /\ IF op[u] = "publish" THEN UNCHANGED <<at, userVars>> ELSE Finish(u)
  /\ UNCHANGED <<linkVars, stop>>

\* Slip: the lock is not dropped before mark_disconnected asks for it.
FailLocked(u) ==
  /\ Move(u, "using", "mark")
  /\ sess' = [sess EXCEPT ![u] = NoSession]
  /\ UNCHANGED <<linkVars, mutex, stop, at, userVars>>

\* A transport error or a timeout: drop(state), then mark_disconnected.
Fail(u) ==
  /\ Move(u, "using", "mark")
  /\ Unlock(at[u])
  /\ sess' = [sess EXCEPT ![u] = NoSession]
  /\ UNCHANGED <<linkVars, stop, at, userVars>>

MarkLock(u) ==
  /\ Move(u, "mark", "markLock")
  /\ Enqueue(u, at[u])
  /\ UNCHANGED <<linkVars, stop, at, sess, userVars>>

\* mark_disconnected empties the link whatever session it finds there.
MarkDisconnected(u) ==
  /\ Move(u, "markLock", "claim")
  /\ Holds(u, at[u])
  /\ session' = [session EXCEPT ![at[u]] = NoSession]
  /\ connected' = [connected EXCEPT ![at[u]] = FALSE]
  /\ Unlock(at[u])
  /\ UNCHANGED <<links, redialing, gaveUp, failures, stop, at, sess, userVars>>

\* Slip: connected is cleared once the lock is dropped.
ClaimClears(u) ==
  /\ Move(u, "claim",
         IF redialing[at[u]] THEN "next"
         ELSE IF pc[Closer] = "shutdown" THEN "blocked" ELSE "spawn")
  /\ redialing' = [redialing EXCEPT ![at[u]] = TRUE]
  /\ connected' = [connected EXCEPT ![at[u]] = FALSE]
  /\ UNCHANGED <<links, session, gaveUp, failures, mutex, stop, at, sess, userVars>>

\* Slip: the flag is stored, not compared and exchanged.
ClaimAlways(u) ==
  /\ Move(u, "claim", IF pc[Closer] = "shutdown" THEN "blocked" ELSE "spawn")
  /\ redialing' = [redialing EXCEPT ![at[u]] = TRUE]
  /\ UNCHANGED <<links, session, connected, gaveUp, failures, mutex, stop,
                 at, sess, userVars>>

\* try_claim_redial: a compare-exchange that only one contender wins.
try_claim_redial(u) ==
  /\ Move(u, "claim",
         IF redialing[at[u]] THEN "next"
         ELSE IF pc[Closer] = "shutdown" THEN "blocked" ELSE "spawn")
  /\ redialing' = [redialing EXCEPT ![at[u]] = TRUE]
  /\ UNCHANGED <<links, session, connected, gaveUp, failures, mutex, stop,
                 at, sess, userVars>>

\* The winner spawns a lifecycle task once it has the lock of the JoinSet.
Spawn(u) ==
  /\ MayRun(u)
  /\ pc[u] \in {"spawn", "blocked", "newSpawn"}
  /\ pc[Closer] # "shutdown"
  /\ \E t \in Tasks :
       /\ NextTask(t)
       /\ pc' = [pc EXCEPT ![u] = IF pc[u] = "newSpawn" THEN "adding" ELSE "next",
                          ![t] = "new"]
       /\ at' = [at EXCEPT ![t] = at[u]]
  /\ UNCHANGED <<linkVars, mutex, stop, sess, userVars>>

\* The application drops a call or a publish at an await.  One that was about
\* to spawn leaves its claim on the link behind.
Drop(c) ==
  /\ \/ pc[c] \in {"lock", "using", "markLock", "blocked"}
     \/ MultiThread /\ pc[c] = "spawn"
  /\ LeaveQueue(c)
  /\ sess' = [sess EXCEPT ![c] = NoSession]
  /\ Finish(c)
  /\ Goto(c, "idle")
  /\ UNCHANGED <<linkVars, stop>>

-----------------------------------------------------------------------------
(* link_lifecycle_future and run_link_lifecycle.                            *)

Start(t) ==
  /\ Move(t, "new", "check")
  /\ UNCHANGED <<linkVars, mutex, stop, at, sess, userVars>>

\* Slip: the signal is looked at after the respawn delay only.
CheckNothing(t) ==
  /\ Move(t, "check", "dial")
  /\ UNCHANGED <<linkVars, mutex, stop, at, sess, userVars>>

\* The head of the loop: return when told to stop, else dial.
Check(t) ==
  /\ Move(t, "check", IF stop THEN "release" ELSE "dial")
  /\ UNCHANGED <<linkVars, mutex, stop, at, sess, userVars>>

\* connection::connect answers: the task queues for the link's lock.
DialOk(t) ==
  /\ Move(t, "dial", "install")
  /\ \E s \in Sessions :
       /\ NextSession(s)
       /\ sess' = [sess EXCEPT ![t] = s]
  /\ Enqueue(t, at[t])
  /\ UNCHANGED <<linkVars, stop, at, userVars>>

\* Slip: the count of failures goes on after the link has given up.
DialErrCounts(t) ==
  /\ Move(t, "dial", IF should_give_up(at[t], failures[at[t]] + 1) THEN "release" ELSE "sleep")
  /\ failures' = [failures EXCEPT ![at[t]] = @ + 1]
  /\ UNCHANGED <<links, session, connected, redialing, gaveUp, mutex, stop, at, sess,
                 userVars>>

DialErr(t) ==
  LET n == failures[at[t]] + 1
      quits == should_give_up(at[t], n)
  IN /\ Move(t, "dial", IF quits THEN "release" ELSE "sleep")
     /\ failures' = [failures EXCEPT ![at[t]] = IF n > MaxFailures THEN @ ELSE n]
     /\ gaveUp' = [gaveUp EXCEPT ![at[t]] = @ \/ quits]
     /\ UNCHANGED <<links, session, connected, redialing, mutex, stop, at, sess,
                    userVars>>

\* Slip: the task leaves the redial to the next failure.
WakeEnds(t) ==
  /\ Move(t, "sleep", "release")
  /\ UNCHANGED <<linkVars, mutex, stop, at, sess, userVars>>

\* respawn_delay is over, or the stop signal changed to true.
Wake(t) ==
  /\ Move(t, "sleep", "check")
  /\ UNCHANGED <<linkVars, mutex, stop, at, sess, userVars>>

\* The lock is granted: a session that is there is dropped, not closed.
Install(t) ==
  /\ Move(t, "install", "announce")
  /\ Holds(t, at[t])
  /\ session' = [session EXCEPT ![at[t]] = sess[t]]
  /\ sess' = [sess EXCEPT ![t] = NoSession]
  /\ Unlock(at[t])
  /\ UNCHANGED <<links, connected, redialing, gaveUp, failures, stop, at, userVars>>

Announce(t) ==
  /\ Move(t, "announce", "release")
  /\ connected' = [connected EXCEPT ![at[t]] = TRUE]
  /\ failures' = [failures EXCEPT ![at[t]] = 0]
  /\ UNCHANGED <<links, session, redialing, gaveUp, mutex, stop, at, sess,
                 userVars>>

\* The future ends: its claim on the link goes with it.
Release(t) ==
  /\ Move(t, "release", "idle")
  /\ redialing' = [redialing EXCEPT ![at[t]] = FALSE]
  /\ at' = [at EXCEPT ![t] = NoLink]
  /\ UNCHANGED <<links, session, connected, gaveUp, failures, mutex, stop, sess,
                 userVars>>

-----------------------------------------------------------------------------
(* discover_stations_loop.                                                  *)

DiscoStart ==
  /\ Move(Disco, "new", "idle")
  /\ UNCHANGED <<linkVars, mutex, stop, at, sess, userVars>>

DiscoStop ==
  /\ Move(Disco, "idle", "gone")
  /\ stop
  /\ UNCHANGED <<linkVars, mutex, stop, at, sess, userVars>>

\* resolve_list_stations_realm asks the first connected link.
Resolve ==
  /\ Move(Disco, "idle", "find")
  /\ ~stop
  /\ ~LinksLocked
  /\ \E l \in ConnectedLinks :
       /\ \A m \in ConnectedLinks \ {l} : Before(l, m)
       /\ at' = [at EXCEPT ![Disco] = l]
       /\ Enqueue(Disco, l)
  /\ UNCHANGED <<linkVars, stop, sess, userVars>>

Find ==
  /\ MayRun(Disco)
  /\ pc[Disco] = "find"
  /\ Holds(Disco, at[Disco])
  /\ sess' = [sess EXCEPT ![Disco] = session[at[Disco]]]
  /\ IF session[at[Disco]] = NoSession
     THEN Unlock(at[Disco]) /\ Goto(Disco, "idle")
     ELSE UNCHANGED mutex /\ Goto(Disco, "finding")
  /\ UNCHANGED <<linkVars, stop, at, userVars>>

\* A failed lookup, or one without a match, waits for the next refresh and
\* leaves the link as it is.
FindDone ==
  /\ MayRun(Disco)
  /\ pc[Disco] = "finding"
  /\ Unlock(at[Disco])
  /\ sess' = [sess EXCEPT ![Disco] = NoSession]
  /\ \/ Goto(Disco, "idle")
     \/ Goto(Disco, "resolved")
  /\ UNCHANGED <<linkVars, stop, at, userVars>>

\* One row of the answer, while discovery has a free slot: the links are read.
CountSlots(l) ==
  /\ Move(Disco, "adding", "push")
  /\ ~LinksLocked
  /\ OccupiedSlots < MaxLinks
  /\ l \in Discoverable
  /\ at' = [at EXCEPT ![Disco] = l]
  /\ UNCHANGED <<linkVars, mutex, stop, sess, userVars>>

\* spawn_seed_link_if_absent, under the write lock of the links.
PushLink ==
  LET l == at[Disco]
  IN /\ Move(Disco, "push", IF l \in Known THEN "adding" ELSE "newClaim")
     /\ ~LinksLocked
     /\ links' = IF l \in Known THEN links ELSE Append(links, l)
     /\ UNCHANGED <<session, connected, redialing, gaveUp, failures, mutex, stop,
                    at, sess, userVars>>

\* try_claim_redial of the new link.
ClaimNew ==
  /\ Move(Disco, "newClaim", IF redialing[at[Disco]] THEN "adding" ELSE "newSpawn")
  /\ redialing' = [redialing EXCEPT ![at[Disco]] = TRUE]
  /\ UNCHANGED <<links, session, connected, gaveUp, failures, mutex, stop, at,
                 sess, userVars>>

\* The rows are at an end, or the slots.
Added ==
  /\ Move(Disco, "adding", "idle")
  /\ UNCHANGED <<linkVars, mutex, stop, at, sess, userVars>>

-----------------------------------------------------------------------------
(* Pool::close.                                                             *)

\* watch::Sender::send fails, and sets nothing, when there is no receiver.
\* The receiver that came with the channel went when Pool::connect returned.
SendStop ==
  /\ Move(Closer, "idle", "tasks")
  /\ stop' = (Receivers # {})
  /\ UNCHANGED <<linkVars, mutex, at, sess, userVars>>

TasksGone == pc[Disco] \in {"off", "gone"} /\ \A t \in Tasks : pc[t] = "idle"

\* close locks the list of links and will drain it in order.
StartDrain ==
  /\ todo' = [todo EXCEPT ![Closer] = Known]
  /\ Goto(Closer, "drain")

\* JoinSet::shutdown, under the lock of the JoinSet, waits only for a task.
Shutdown ==
  /\ MayRun(Closer)
  /\ pc[Closer] = "tasks"
  /\ \/ TasksGone /\ StartDrain
     \/ (MultiThread \/ ~TasksGone) /\ Goto(Closer, "shutdown") /\ UNCHANGED todo
  /\ UNCHANGED <<linkVars, mutex, stop, at, sess, op>>

Abortable(a) ==
  \/ a \in Tasks /\ pc[a] \in {"new", "dial", "install", "sleep"}
  \/ a = Disco /\ pc[a] \in {"new", "idle", "find", "finding", "lock", "using", "markLock",
                             "spawn", "blocked", "adding", "push", "newSpawn"}

\* Slip: a cancelled waiter keeps its place in the queue of the lock.
AbortKeepsPlace(a) ==
  /\ pc[Closer] = "shutdown"
  /\ Abortable(a)
  /\ at' = [at EXCEPT ![a] = NoLink]
  /\ sess' = [sess EXCEPT ![a] = NoSession]
  /\ Goto(a, IF a = Disco THEN "gone" ELSE "idle")
  /\ UNCHANGED <<linkVars, mutex, stop, userVars>>

\* An aborted future is dropped at an await, and with it its place in a lock
\* and a session it has dialled.  A claim it had on a link stays for good.
Abort(a) ==
  /\ pc[Closer] = "shutdown"
  /\ Abortable(a)
  /\ LeaveQueue(a)
  /\ at' = [at EXCEPT ![a] = NoLink]
  /\ sess' = [sess EXCEPT ![a] = NoSession]
  /\ Goto(a, IF a = Disco THEN "gone" ELSE "idle")
  /\ UNCHANGED <<linkVars, stop, userVars>>

Drain ==
  /\ MayRun(Closer)
  /\ pc[Closer] = "shutdown"
  /\ TasksGone
  /\ StartDrain
  /\ UNCHANGED <<linkVars, mutex, stop, at, sess, op>>

DrainNext(l) ==
  /\ Move(Closer, "drain", "drainLock")
  /\ l \in todo[Closer]
  /\ \A m \in todo[Closer] \ {l} : Before(l, m)
  /\ todo' = [todo EXCEPT ![Closer] = @ \ {l}]
  /\ at' = [at EXCEPT ![Closer] = l]
  /\ Enqueue(Closer, l)
  /\ UNCHANGED <<linkVars, stop, sess, op>>

\* Slip: the session is taken while somebody else holds the lock.
TakeUnlocked ==
  /\ Move(Closer, "drainLock", "goodbye")
  /\ sess' = [sess EXCEPT ![Closer] = session[at[Closer]]]
  /\ session' = [session EXCEPT ![at[Closer]] = NoSession]
  /\ UNCHANGED <<links, connected, redialing, gaveUp, failures, mutex, stop,
                 at, userVars>>

\* state.session.take(): a session that was there gets a GOODBYE first.
Take ==
  /\ Move(Closer, "drainLock", "goodbye")
  /\ Holds(Closer, at[Closer])
  /\ sess' = [sess EXCEPT ![Closer] = session[at[Closer]]]
  /\ session' = [session EXCEPT ![at[Closer]] = NoSession]
  /\ UNCHANGED <<links, connected, redialing, gaveUp, failures, mutex, stop,
                 at, userVars>>

\* Session::close is over, or there was nothing to close.
Drained ==
  /\ Move(Closer, "goodbye", "drain")
  /\ connected' = [connected EXCEPT ![at[Closer]] = FALSE]
  /\ Unlock(at[Closer])
  /\ sess' = [sess EXCEPT ![Closer] = NoSession]
  /\ UNCHANGED <<links, session, redialing, gaveUp, failures, stop, at, userVars>>

Closed ==
  /\ Move(Closer, "drain", "done")
  /\ todo[Closer] = {}
  /\ UNCHANGED <<linkVars, mutex, stop, at, sess, userVars>>

-----------------------------------------------------------------------------

\* What user u does once it has begun: a call on the session, which ends when
\* the station lets it, and the rest.
Used(u) == Succeed(u) \/ Fail(u)

UserMove(u) ==
  \/ Return(u)
  \/ \E l \in Links : TryNext(u, l)
  \/ Skip(u) \/ Use(u)
  \/ MarkLock(u) \/ MarkDisconnected(u) \/ try_claim_redial(u) \/ Spawn(u)

UserStep(u) == UserMove(u) \/ Used(u)

TaskStep(t) ==
  \/ Start(t) \/ Check(t) \/ DialOk(t) \/ DialErr(t) \/ Wake(t)
  \/ Install(t) \/ Announce(t) \/ Release(t)

DiscoMove ==
  \/ DiscoStart \/ DiscoStop \/ Resolve \/ Find
  \/ Invoke(Disco, "call")
  \/ \E l \in Links : CountSlots(l)
  \/ PushLink \/ ClaimNew \/ Added

DiscoStep == DiscoMove \/ FindDone

CloserMove ==
  \/ Shutdown
  \/ \E a \in Tasks \cup {Disco} : Abort(a)
  \/ Drain
  \/ \E l \in Links : DrainNext(l)
  \/ Take \/ Closed

CloserStep == CloserMove \/ Drained

Next ==
  \/ \E c \in Callers, o \in {"call", "publish"} : Invoke(c, o)
  \/ \E c \in Callers : Drop(c)
  \/ \E u \in Users : UserStep(u)
  \/ \E t \in Tasks : TaskStep(t)
  \/ DiscoStep
  \/ SendStop
  \/ CloserStep

Spec == Init /\ [][Next]_vars

\* A multi-thread executor polls every ready actor in the end, and whoever can
\* go on stays able to; an aborted task is dropped at one of its awaits, between
\* two of which it runs, so that close needs more.  A dial and a sleep are bounded by timers
\* (HANDSHAKE_TIMEOUT, respawn_delay), and a station that is dialled for ever is
\* reached at last.  Nothing is assumed of Used, FindDone and Drained: they wait
\* for writes without a timeout (a CALL, a fact, a PUBLISH, a GOODBYE).
Fairness ==
  /\ \A c \in Callers : WF_vars(UserMove(c))
  /\ \A t \in Tasks : WF_vars(TaskStep(t)) /\ SF_vars(DialOk(t))
  /\ WF_vars(UserMove(Disco) \/ DiscoMove)
  /\ SF_vars(CloserMove)

LiveSpec == Spec /\ Fairness

-----------------------------------------------------------------------------
(* Properties.                                                              *)

LabelsOK ==
  /\ pc \in [Actors -> UserLabels \cup DiscoLabels \cup TaskLabels \cup CloserLabels]
  /\ \A c \in Callers : pc[c] \in UserLabels
  /\ \A t \in Tasks : pc[t] \in TaskLabels
  /\ pc[Disco] \in DiscoLabels
  /\ pc[Closer] \in CloserLabels

\* Every variable of the pool has its type, and every actor is at a place of
\* the code it runs.
TypeOK ==
  /\ links \in Seq(Links)
  /\ session \in [Links -> Sessions \cup {NoSession}]
  /\ connected \in [Links -> BOOLEAN]
  /\ redialing \in [Links -> BOOLEAN]
  /\ gaveUp \in [Links -> BOOLEAN]
  /\ failures \in [Links -> 0..MaxFailures]
  /\ mutex \in [Links -> Seq(Actors)]
  /\ stop \in BOOLEAN
  /\ LabelsOK
  /\ at \in [Actors -> Links \cup {NoLink}]
  /\ sess \in [Actors -> Sessions \cup {NoSession}]
  /\ todo \in [Users \cup {Closer} -> SUBSET Links]
  /\ op \in [Users -> {"call", "publish"}]

\* Actor a owns the claim on link l: it runs its lifecycle or will spawn it.
OwnsClaim(a, l) ==
  /\ at[a] = l
  /\ \/ a \in Tasks /\ pc[a] # "idle"
     \/ a \in Users /\ pc[a] \in {"spawn", "blocked", "newSpawn"}

\* A link never has two lifecycle tasks, however many callers saw its session
\* fail (PooledLink::redialing, try_claim_redial, link_lifecycle_future).
OneLifecycle ==
  \A l \in Links : \A a, b \in Actors :
    OwnsClaim(a, l) /\ OwnsClaim(b, l) => a = b

\* A link without a session that has not given up has somebody who will dial
\* it, until close: a link is "retried forever on failure", and who loses the
\* claim need not spawn, "the winner's own task is already responsible for this
\* link" (try_claim_redial, link_lifecycle_future).
NoOrphan ==
  pc[Closer] = "idle" =>
    \A l \in Known :
      \/ session[l] # NoSession
      \/ gaveUp[l]
      \/ \E a \in Actors : OwnsClaim(a, l)
      \/ \E u \in Users : at[u] = l /\ pc[u] \in {"claim", "newClaim"}

\* Nobody changes a link's session under a caller that is using it: the state
\* lock is held across the whole of a call, publish or lookup.
InUseStaysInPlace ==
  \A u \in Users :
    pc[u] \in {"using", "finding"} => session[at[u]] = sess[u]

\* No session is lost from sight: a link that has one is connected to those who
\* select links without its lock, or the task that installed it is about to say
\* so, however late a mark_disconnected of an older session comes between
\* (PooledLink::connected, cleared under the lock and set after it).
SessionIsOffered ==
  \A l \in Links :
    session[l] # NoSession =>
      connected[l] \/ \E t \in Tasks : at[t] = l /\ pc[t] = "announce"

\* Nothing is connected, dialled or dialling in a pool whose close is over.
NothingAfterClose ==
  pc[Closer] = "done" =>
    /\ \A l \in Links : session[l] = NoSession
    /\ \A t \in Tasks : pc[t] \notin {"dial", "install"}

\* The same of a pool whose stop signal was received: a late failure of a call
\* may still spawn a lifecycle task, which must see the signal and not dial.
NothingAfterStop == stop => NothingAfterClose

\* What the next two properties ask of the stations: no call, publish or
\* GOODBYE waits for ever for its station to read.  The code has no timeout on
\* these writes (Session::call, Session::publish, Session::close); quinn ends a
\* connection that is silent, and not one whose station only stops to read.
StationsRead ==
  /\ \A u \in Users : []<>(pc[u] \notin {"using", "finding"})
  /\ []<>(pc[Closer] # "goodbye")

\* Where the stations read, a call or a publish ends, whatever fails, in whatever
\* order the locks are asked for, and whatever close does meanwhile.
CallReturns ==
  StationsRead => \A c \in Callers : pc[c] \notin {"off", "idle"} ~> pc[c] = "idle"

\* Where the stations read, Pool::close ends: tasks and discovery are gone and
\* every link is drained.
CloseEnds == StationsRead => (pc[Closer] # "idle" ~> pc[Closer] = "done")

\* A link whose lifecycle has not installed a session yet gets one or gives up,
\* unless the pool is closed, even where other links' stations stop to read
\* (run_link_lifecycle, link_lifecycle_future).
LinkRecovers ==
  \A l \in Links :
    (\E t \in Tasks : at[t] = l /\ pc[t] \in {"new", "check", "dial", "install", "sleep"})
      ~> session[l] # NoSession \/ gaveUp[l] \/ pc[Closer] # "idle"

=============================================================================
