---------------------------------- MODULE Ffi ----------------------------------
(***************************************************************************)
(* The objects of macula-rust-ffi/src/lib.rs that foreign code shares: an     *)
(* FfiSession or an FfiStream is a tokio mutex around an Option, and its      *)
(* methods, 33 functions of one shape, are a table.                          *)
(*                                                                          *)
(* A method checks its arguments, waits its turn for the lock, finds the      *)
(* session there or gone, runs one operation of the crate under the lock and  *)
(* converts what it got.  The operations themselves are ControlStream's,      *)
(* Stream's, DirectDial's and ContentTransfer's.                             *)
(***************************************************************************)
EXTENDS Naturals, Sequences, FiniteSets

CONSTANTS
  Tasks,   \* foreign tasks, each calling one method
  Handler, \* the task of an FfiCallHandler
  None     \* no task

Callers == Tasks \cup {Handler}

\* What the constants are.
FfiAssumption == None \notin Callers

-----------------------------------------------------------------------------
(* The methods: whether an argument may be refused before the lock, what runs *)
(* under it (send: it writes; ask: it writes and awaits an answer; recv and    *)
(* accept: it awaits what comes), and whether the result holds an FfiValue.    *)

Method(refusable, core, converts) ==
  [refusable |-> refusable, core |-> core, converts |-> converts]

\* Arguments are refused by to_32 or to_mcid and FfiPolicy's or FfiTrust's try_from.
call                             == Method(TRUE, "ask", TRUE)
serve_one_call                   == Method(FALSE, "serve", FALSE)
serve_one_call_gated             == Method(TRUE, "serve", FALSE)
publish                          == Method(TRUE, "send", FALSE)
subscribe                        == Method(TRUE, "send", FALSE)
unsubscribe                      == Method(TRUE, "send", FALSE)
advertise                        == Method(TRUE, "send", FALSE)
unadvertise                      == Method(TRUE, "send", FALSE)
resolve_direct                   == Method(TRUE, "ask", FALSE)
call_direct                      == Method(TRUE, "ask", TRUE)
advertise_direct                 == Method(TRUE, "ask", FALSE)
call_with_ucan                   == Method(TRUE, "ask", TRUE)
run_publisher                    == Method(TRUE, "send", FALSE)
resolve_direct_with_cert_chain   == Method(TRUE, "ask", FALSE)
call_direct_with_cert_chain      == Method(TRUE, "ask", TRUE)
advertise_direct_with_cert_chain == Method(TRUE, "ask", FALSE)
open_stream_direct               == Method(TRUE, "ask", FALSE)
open_stream_direct_with_cert_chain == Method(TRUE, "ask", FALSE)
put_direct                       == Method(TRUE, "ask", FALSE)
get_direct                       == Method(TRUE, "ask", FALSE)
accept_stream                    == Method(FALSE, "accept", TRUE)
recv_event                       == Method(FALSE, "recv", TRUE)
content_put                      == Method(FALSE, "ask", FALSE)
content_get                      == Method(TRUE, "ask", FALSE)
stream_open                      == Method(TRUE, "send", FALSE)
station_id                       == Method(FALSE, "look", FALSE)
close                            == Method(FALSE, "close", FALSE)

FfiSession ==
  {call, serve_one_call, serve_one_call_gated, publish, subscribe, unsubscribe, advertise,
   unadvertise, resolve_direct, call_direct, advertise_direct, call_with_ucan,
   run_publisher, resolve_direct_with_cert_chain, call_direct_with_cert_chain,
   advertise_direct_with_cert_chain, open_stream_direct,
   open_stream_direct_with_cert_chain, put_direct, get_direct, accept_stream,
   recv_event, content_put, content_get, stream_open, station_id, close}

send_data   == Method(FALSE, "send", FALSE)
close_send  == Method(FALSE, "send", FALSE)
recv        == Method(FALSE, "recv", TRUE)
await_reply == Method(FALSE, "recv", TRUE)
send_reply  == Method(FALSE, "send", FALSE)
abort       == Method(FALSE, "close", FALSE)

FfiStream == {send_data, close_send, recv, await_reply, send_reply, abort}

-----------------------------------------------------------------------------

VARIABLES
  methods, \* of the object there is: FfiSession or FfiStream
  inner,   \* the Option: "some" or "none"
  lock,    \* who holds the mutex
  queue,   \* who waits for it, first come first served
  method,  \* what each caller has called
  pc,      \* "idle", "queued", "running", "waiting", "handling" (serve), "closing", "done"
  out,     \* what each caller got: "Ok" or an error
  frames,  \* what the object's operations have put on the wire
  handler  \* the handler's task: "none", "running", "ended"

vars == <<methods, inner, lock, queue, method, pc, out, frames, handler>>

Init ==
  /\ methods \in {FfiSession, FfiStream}
  /\ inner = "some"
  /\ lock = None
  /\ queue = <<>>
  /\ method = [t \in Callers |-> station_id]
  /\ pc = [t \in Callers |-> "idle"]
  /\ out = [t \in Callers |-> "none"]
  /\ frames = <<>>
  /\ handler = "none"

\* t is through, with a result or an error; its guard is dropped.
Leave(t, result) ==
  /\ pc' = [pc EXCEPT ![t] = "done"]
  /\ out' = [out EXCEPT ![t] = result]
  /\ lock' = IF lock = t THEN None ELSE lock

-----------------------------------------------------------------------------

\* The handler calls methods while its task runs, like anyone else.
MayCall(t) == pc[t] = "idle" /\ (t = Handler => handler = "running")

Refuse(t) ==
  /\ MayCall(t)
  /\ \E m \in methods : m.refusable /\ method' = [method EXCEPT ![t] = m]
  /\ Leave(t, "WrongByteLength")
  /\ UNCHANGED <<methods, inner, queue, frames, handler>>

Enter(t) ==
  /\ MayCall(t)
  /\ \E m \in methods : method' = [method EXCEPT ![t] = m]
  /\ queue' = Append(queue, t)
  /\ pc' = [pc EXCEPT ![t] = "queued"]
  /\ UNCHANGED <<methods, inner, lock, out, frames, handler>>

\* self.0.lock().await, and the Option: close has nothing to do and station_id
\* says nothing where it is None, the others return Closed.
Lock(t) ==
  /\ lock = None /\ queue # <<>> /\ Head(queue) = t
  /\ queue' = Tail(queue)
  /\ IF inner = "some"
     THEN /\ lock' = t
          /\ pc' = [pc EXCEPT ![t] = "running"]
          /\ UNCHANGED out
     ELSE Leave(t, IF method[t].core \in {"close", "look"} THEN "Ok" ELSE "Closed")
  /\ UNCHANGED <<methods, inner, method, frames, handler>>

Runs(t, core) == pc[t] = "running" /\ method[t].core = core

\* One frame, or an error before it.
Send(t) ==
  /\ Runs(t, "send")
  /\ \/ frames' = Append(frames, "frame") /\ Leave(t, "Ok")
     \/ Leave(t, "Send") /\ UNCHANGED frames
  /\ UNCHANGED <<methods, inner, queue, method, handler>>

Look(t) ==
  /\ Runs(t, "look")
  /\ Leave(t, "Ok")
  /\ UNCHANGED <<methods, inner, queue, method, frames, handler>>

\* The request goes out, or fails before it does; the operation goes on to wait.  (An
\* operation that makes several requests makes a bounded number of them.)
Ask(t) ==
  /\ Runs(t, "ask")
  /\ \/ frames' = Append(frames, "frame") /\ pc' = [pc EXCEPT ![t] = "waiting"]
        /\ UNCHANGED <<lock, out>>
     \/ Leave(t, "Failed") /\ UNCHANGED frames
  /\ UNCHANGED <<methods, inner, queue, method, handler>>

\* An answer in, or an error or the timeout; an answer whose integers do not fit an
\* i64 is gone, with the stream that was accepted or the chunk received.
Wait(t) ==
  /\ pc[t] = "waiting" \/ Runs(t, "recv") \/ Runs(t, "accept")
  /\ \/ Leave(t, "Ok")
     \/ Leave(t, "Failed")
     \/ method[t].converts /\ Leave(t, "UnrepresentableValue")
  /\ UNCHANGED <<methods, inner, queue, method, frames, handler>>

\* Slip: the lock is not held while the handler runs.
Dispatch_unlocked(t) ==
  /\ Runs(t, "serve") /\ handler = "none"
  /\ handler' = "running"
  /\ pc' = [pc EXCEPT ![t] = "handling"]
  /\ lock' = None
  /\ UNCHANGED <<methods, inner, queue, method, out, frames>>

\* A CALL arrives: the handler is spawned, and serve waits for its task.  (One CALL
\* is modelled: there is one handler task.)
Dispatch(t) ==
  /\ Runs(t, "serve") /\ handler = "none"
  /\ handler' = "running"
  /\ pc' = [pc EXCEPT ![t] = "handling"]
  /\ UNCHANGED <<methods, inner, lock, queue, method, out, frames>>

\* A handler that waits for a method has not returned.
HandlerEnds ==
  /\ handler = "running" /\ pc[Handler] \in {"idle", "done"}
  /\ handler' = "ended"
  /\ UNCHANGED <<methods, inner, lock, queue, method, pc, out, frames>>

Reply(t) ==
  /\ pc[t] = "handling" /\ handler = "ended"
  /\ \/ frames' = Append(frames, "reply") /\ Leave(t, "Ok")
     \/ Leave(t, "Recv") /\ UNCHANGED frames
  /\ UNCHANGED <<methods, inner, queue, method, handler>>

\* Slip: the timeout is for the CALL to come, not for the handler.
Cut_waiting(t) ==
  /\ pc[t] = "running" /\ method[t].core = "serve"
  /\ Leave(t, "Recv")
  /\ UNCHANGED <<methods, inner, queue, method, frames, handler>>

\* The timeout of serve_one_call, or an error of the session's; the handler's task
\* goes on by itself.
Cut(t) ==
  /\ pc[t] \in {"running", "handling"} /\ method[t].core = "serve"
  /\ Leave(t, "Recv")
  /\ UNCHANGED <<methods, inner, queue, method, frames, handler>>

\* close and abort take the Option, and say so to the other end under the lock.
Take(t) ==
  /\ Runs(t, "close")
  /\ inner' = "none"
  /\ pc' = [pc EXCEPT ![t] = "closing"]
  /\ UNCHANGED <<methods, lock, queue, method, out, frames, handler>>

Goodbye(t) ==
  /\ pc[t] = "closing"
  /\ frames' = Append(frames, "goodbye")
  /\ Leave(t, "Ok")
  /\ UNCHANGED <<methods, inner, queue, method, handler>>

-----------------------------------------------------------------------------

\* What a call does by itself, once it is made.
Works(t) ==
  Lock(t) \/ Send(t) \/ Look(t) \/ Ask(t) \/ Wait(t) \/ Reply(t) \/ Cut(t) \/ Take(t) \/ Goodbye(t)

Next ==
  \/ \E t \in Callers : Refuse(t) \/ Enter(t) \/ Works(t) \/ Dispatch(t)
  \/ HandlerEnds

Spec == Init /\ [][Next]_vars

\* The operation under the lock is one that no timeout of its own ends: it writes, and
\* waits for the other side to read, or it reads the first frame of an accepted stream.
Untimed(t) == Runs(t, "send") \/ Runs(t, "ask") \/ Runs(t, "accept") \/ pc[t] = "closing"

\* tokio's mutex is fair and timers fire: an answer is awaited, a CALL and its handler are
\* served, within a timeout.  Nothing else ends by itself; a handler is foreign code and
\* may never return.
Fairness == \A t \in Callers : WF_vars(~Untimed(t) /\ Works(t))

FairSpec == Spec /\ Fairness

-----------------------------------------------------------------------------

TypeOK ==
  /\ methods \in {FfiSession, FfiStream} /\ inner \in {"some", "none"}
  /\ lock \in Callers \cup {None} /\ queue \in Seq(Callers)
  /\ method \in [Callers -> FfiSession \cup FfiStream]
  /\ pc \in [Callers -> {"idle", "queued", "running", "waiting", "handling", "closing", "done"}]
  /\ frames \in Seq({"frame", "reply", "goodbye"})
  /\ handler \in {"none", "running", "ended"}

\* The other side reads what is written, and writes the first frame of a stream it opens.
OtherSideActs == \A t \in Callers : []<>~Untimed(t)

\* Every call of a method returns: who serves a CALL, a handler that calls the session
\* that serves it, who closes, and whoever waits behind them - as long as the other side
\* acts.  It need not: a send_data holds the mutex while it waits for the peer's window,
\* with the recv that would free the peer's own send_data queued behind it, so that two
\* objects may wait for each other for ever (lib.rs FfiSession, FfiStream; connection.rs
\* serve_one_call_gated's timeout; stream.rs send_data, which has none).
MethodsReturn ==
  OtherSideActs => \A t \in Callers : (pc[t] = "queued") ~> (pc[t] = "done")

\* A CALL is answered only if its handler used nothing of the session that serves it: a
\* handler that does gets its turn when serve has given up.  And after GOODBYE, or a
\* stream's ERROR, nothing more is sent, whoever was waiting (lib.rs serve_one_call_gated,
\* close, abort).
LockKept ==
  /\ (\E k \in DOMAIN frames : frames[k] = "reply")
       => out[Handler] \in {"none", "WrongByteLength"} /\ pc[Handler] \in {"idle", "done"}
  /\ \A k \in DOMAIN frames : frames[k] = "goodbye" => k = Len(frames)

================================================================================
