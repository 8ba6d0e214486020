---------------------------- MODULE ControlStream ----------------------------
(***************************************************************************)
(* A Session of src/connection.rs after its handshake: one application that *)
(* calls, serves, subscribes and publishes over the one control stream, and *)
(* the station at the other end.                                            *)
(*                                                                          *)
(* Every method takes &mut self, so the application does one thing at a     *)
(* time; what runs beside it is the station, the handlers that              *)
(* build_call_reply has spawned, and time.  A label of the program counter  *)
(* is an await of the code: a write, a read, or the join of a handler.  At   *)
(* any of them the application may drop the future that it awaits.           *)
(***************************************************************************)
EXTENDS Naturals, Sequences, SequencesExt

CONSTANTS
  OwnCalls,     \* the calls the application makes, named by their call_id
  Inbound,      \* the CALLs the station routes to this session
  Events,       \* the EVENTs the station delivers
  Unauthorized, \* inbound CALLs that the policy of their procedure rejects
  Unknown,      \* inbound CALLs whose procedure lookup does not know
  None,         \* the subject of a frame that is about no call
  Uses,         \* the methods the application uses
  MaxOut,       \* no optional send starts when this many frames are out
  MaxDrops      \* the application drops a future at no more lengths of out than these

Methods == {"call", "serve_one_call", "publish", "run_publisher", "run_subscriber",
            "recv_event", "keep_advertised", "close"}

ASSUME ControlAssumption ==
  /\ OwnCalls \cap Inbound = {}
  /\ None \notin OwnCalls \cup Inbound
  /\ Unauthorized \subseteq Inbound
  /\ Unknown \subseteq Inbound
  /\ Uses \subseteq Methods
  /\ MaxOut \in Nat
  /\ MaxDrops \in Nat

VARIABLES
  pc,     \* the await the application stands at
  cur,    \* the call in progress, one it makes or one it serves
  res,    \* what that call returns, or the reply to it
  inq,    \* frames from the station, in flight or buffered
  sent,   \* what the station has sent so far
  fin,    \* the station has finished its side of the stream
  up,     \* the QUIC connection is alive
  out,    \* every frame the session began to write, in order
  half,   \* the last of them is still being written
  dropped, \* how many frames had been begun when the application dropped a future
  task,   \* the handler of each inbound CALL
  answer, \* what each call of the application returned
  served  \* how serve_one_call ended for each CALL it took

peerVars == <<inq, sent, fin, up>>
wireVars == <<out, half, dropped>>
appVars  == <<pc, cur, res, answer, served, task>>
vars == <<peerVars, wireVars, appVars>>

-----------------------------------------------------------------------------
(* Frames and what a call can return.                                       *)

Frame(type, of, says) == [type |-> type, of |-> of, says |-> says]

Result(of, says) == [of |-> of, says |-> says]
NoResult == Result(None, "none")

Responses == {"result", "error"}

\* The RESULT or BOLT#4 code that answers a CALL whose handler ended so; a
\* long_err is an error whose text leaves no room for the rest of the fact.
ReplyTo == [ok       |-> "result",
            err      |-> "unknown_error",
            long_err |-> "unknown_error",
            panic    |-> "temporary_relay_failure"]

\* rpc.replied_v1's outcome; a panic announces nothing.
RepliedFact == [ok |-> "replied", err |-> "failed"]

\* rpc.completed_v1's outcome.
CompletedFact(r) == IF r.says = "result" THEN "completed" ELSE "failed"

-----------------------------------------------------------------------------
(* FrameStream::send_frame and recv_frame.                                  *)

\* write_all starts on f; the station's flow control decides how far it gets.
Begin(f) ==
  /\ up
  /\ ~half
  /\ out' = Append(out, [type |-> f.type, of |-> f.of, says |-> f.says, whole |-> FALSE])
  /\ half' = TRUE
  /\ UNCHANGED dropped

\* The last byte of the frame is taken.
Written ==
  /\ up
  /\ half
  /\ out' = [out EXCEPT ![Len(out)].whole = TRUE]
  /\ half' = FALSE
  /\ UNCHANGED dropped

\* The connection is lost, before the write or in the middle of it.
Broken == ~up /\ half' = FALSE /\ UNCHANGED <<out, dropped>>

\* frame::encode refuses a frame of more than MAX_FRAME_BYTES, and nothing is
\* written.  (A value that CBOR cannot hold does not get so far: see Abandon.)
Unencodable == ~half /\ UNCHANGED wireVars

\* The application stays at its label while it begins to write f.
Start(label, f) == pc = label /\ Begin(f) /\ UNCHANGED <<peerVars, appVars>>

\* The application goes on to its next await.
Goto(label) == pc' = label /\ UNCHANGED <<cur, res, answer, served, task>>

\* A method returns and its locals are gone.
Return == pc' = "idle" /\ cur' = None /\ res' = NoResult

\* A send whose failure is discarded, from one label to the next.
Announce(label, f, next) ==
  \/ Start(label, f)
  \/ pc = label /\ (Written \/ Broken) /\ Goto(next) /\ UNCHANGED peerVars

\* The same, of a frame that carries a text or a value of the application's own.
AnnounceOwn(label, f, next) ==
  \/ Announce(label, f, next)
  \/ pc = label /\ Unencodable /\ Goto(next) /\ UNCHANGED peerVars

\* recv_frame returns the next frame.
Receive == inq # <<>> /\ inq' = Tail(inq) /\ UNCHANGED <<sent, fin, up, wireVars>>

\* recv_frame fails: the station has finished, or the connection is lost and
\* with it whatever quinn had not handed over.
ReceiveFails == (fin /\ inq = <<>>) \/ ~up

Room == Len(out) < MaxOut

\* The application calls a method, about call x if it is about one.
Enter(method, label, x) ==
  /\ method \in Uses
  /\ pc = "idle"
  /\ pc' = label
  /\ cur' = x
  /\ UNCHANGED <<peerVars, wireVars, res, answer, served, task>>

-----------------------------------------------------------------------------
Init ==
  /\ pc = "idle"
  /\ cur = None
  /\ res = NoResult
  /\ inq = <<>>
  /\ sent = {}
  /\ fin = FALSE
  /\ up = TRUE
  /\ out = <<>>
  /\ half = FALSE
  /\ dropped = {}
  /\ task = [i \in Inbound |-> "none"]
  /\ answer = [c \in OwnCalls |-> NoResult]
  /\ served = [i \in Inbound |-> "none"]

-----------------------------------------------------------------------------
(* Session::call: rpc.sent_v1, the CALL, the wait, rpc.completed_v1.        *)

Call(c) == answer[c] = NoResult /\ Enter("call", "sent", c)

AnnounceSent == Announce("sent", Frame("sent", cur, ""), "call")

\* Session::call goes on to announce the outcome, whatever it is.
Outcome(r) == pc' = "completed" /\ res' = r /\ UNCHANGED <<cur, answer, served, task>>

\* Slip: the caller's timeout covers the send as well.
SendCallTimed ==
  \/ Start("call", Frame("call", cur, ""))
  \/ pc = "call" /\ Written /\ Goto("await") /\ UNCHANGED peerVars
  \/ /\ pc = "call"
     /\ half' = FALSE
     /\ Outcome(Result(cur, "timeout"))
     /\ UNCHANGED <<peerVars, out, dropped>>

SendCall ==
  \/ Start("call", Frame("call", cur, ""))
  \/ pc = "call" /\ Written /\ Goto("await") /\ UNCHANGED peerVars
  \/ /\ pc = "call"
     /\ Broken \/ Unencodable
     /\ Outcome(Result(cur, "failed"))
     /\ UNCHANGED peerVars

\* Slip: any response will do.
MatchesAny(f) == f.type = "response" /\ f.says \in Responses

\* await_call_response takes a frame for its own if the call_id matches and it
\* parses as a RESULT or an ERROR.
Matches(f) == f.of = cur /\ f.says \in Responses

AwaitResponse ==
  /\ pc = "await"
  /\ Receive
  /\ IF Matches(Head(inq))
       THEN Outcome(Result(Head(inq).of, Head(inq).says))
       ELSE UNCHANGED appVars

AwaitFails ==
  /\ pc = "await"
  /\ ReceiveFails
  /\ Outcome(Result(cur, "failed"))
  /\ UNCHANGED <<peerVars, wireVars>>

\* Slip: an error returns at once, without its rpc.completed_v1.
AwaitTimeoutReturns ==
  /\ pc = "await"
  /\ Return
  /\ answer' = [answer EXCEPT ![cur] = Result(cur, "timeout")]
  /\ UNCHANGED <<peerVars, wireVars, served, task>>

\* Slip: nothing bounds the wait.
AwaitForever == FALSE

\* The caller's timeout covers the wait, not the send before it.
AwaitTimeout ==
  /\ pc = "await"
  /\ Outcome(Result(cur, "timeout"))
  /\ UNCHANGED <<peerVars, wireVars>>

AnnounceCompleted ==
  \/ Start("completed", Frame("completed", cur, CompletedFact(res)))
  \/ /\ pc = "completed"
     /\ Written \/ Broken
     /\ Return
     /\ answer' = [answer EXCEPT ![cur] = res]
     /\ UNCHANGED <<peerVars, served, task>>

-----------------------------------------------------------------------------
(* Session::serve_one_call_gated and build_call_reply.                      *)

ServeLabels == {"take", "received", "join", "replied", "reply"}

Serve == Enter("serve_one_call", "take", None)

\* Slip: the lookup comes before the policy.
DispatchLookupFirst(i) ==
  IF i \in Unknown THEN pc' = "reply" /\ res' = Result(i, "unknown_next_peer")
  ELSE IF i \in Unauthorized THEN pc' = "reply" /\ res' = Result(i, "unauthorized")
  ELSE pc' = "received" /\ UNCHANGED res

\* Where a CALL goes: the policy comes first, then the lookup.
Dispatch(i) ==
  IF i \in Unauthorized THEN pc' = "reply" /\ res' = Result(i, "unauthorized")
  ELSE IF i \in Unknown THEN pc' = "reply" /\ res' = Result(i, "unknown_next_peer")
  ELSE pc' = "received" /\ UNCHANGED res

\* Any frame that is not a CALL is discarded.
Take ==
  /\ pc = "take"
  /\ Receive
  /\ IF Head(inq).type = "call"
       THEN Dispatch(Head(inq).of) /\ cur' = Head(inq).of
       ELSE UNCHANGED <<pc, cur, res>>
  /\ UNCHANGED <<answer, served, task>>

TakeFails ==
  pc = "take" /\ ReceiveFails /\ Goto("idle") /\ UNCHANGED <<peerVars, wireVars>>

\* The handler is spawned as soon as rpc.received_v1 is out, or has failed.
AnnounceReceived ==
  \/ Start("received", Frame("received", cur, ""))
  \/ /\ pc = "received"
     /\ Written \/ Broken
     /\ pc' = "join"
     /\ task' = [task EXCEPT ![cur] = "running"]
     /\ UNCHANGED <<peerVars, cur, res, answer, served>>

\* A spawned handler runs on whatever becomes of serve_one_call.
HandlerEnds(i, how) ==
  /\ task[i] = "running"
  /\ task' = [task EXCEPT ![i] = how]
  /\ UNCHANGED <<peerVars, wireVars, pc, cur, res, answer, served>>

\* A panic skips rpc.replied_v1; for a long_err announce_rpc_replied comes back
\* from frame::encode with the failure that announce_fact discards.
Join ==
  /\ pc = "join"
  /\ task[cur] # "running"
  /\ res' = Result(cur, ReplyTo[task[cur]])
  /\ pc' = IF task[cur] \in {"panic", "long_err"} THEN "reply" ELSE "replied"
  /\ UNCHANGED <<peerVars, wireVars, cur, answer, served, task>>

AnnounceReplied == Announce("replied", Frame("replied", cur, RepliedFact[task[cur]]), "reply")

\* serve_one_call_gated returns.
Serves(how) ==
  /\ Return
  /\ served' = [served EXCEPT ![cur] = how]
  /\ UNCHANGED <<peerVars, answer, task>>

\* A RESULT's payload and an unknown_error's detail come from the handler.
Reply ==
  \/ Start("reply", Frame("reply", cur, res.says))
  \/ pc = "reply" /\ Written /\ Serves("replied")
  \/ pc = "reply" /\ Broken /\ Serves("unsent")
  \/ /\ pc = "reply"
     /\ res.says \in {"result", "unknown_error"}
     /\ Unencodable
     /\ Serves("unsent")

\* Slip: the timeout covers the wait for a CALL only.
TakeTimeout == pc = "take" /\ Goto("idle") /\ UNCHANGED <<peerVars, wireVars>>

\* The timeout of serve_one_call covers everything up to the last byte of the
\* reply.  It strikes where the code really waits: for a frame, for flow
\* control before a write or in the middle of it, for a handler that still runs.
ServeTimeout ==
  \/ pc = "take" /\ Goto("idle") /\ UNCHANGED <<peerVars, wireVars>>
  \/ /\ pc = "join"
     /\ task[cur] = "running"
     /\ Serves("timeout")
     /\ UNCHANGED wireVars
  \/ /\ pc \in {"received", "replied", "reply"}
     /\ half' = FALSE
     /\ Serves("timeout")
     /\ UNCHANGED <<out, dropped>>

-----------------------------------------------------------------------------
(* Publishing, subscribing, advertising and closing.                        *)

\* publish, advertise and the other fire-and-forget sends.
Publish == Room /\ Enter("publish", "publish", None)

SendPublish == AnnounceOwn("publish", Frame("publish", None, ""), "idle")

\* run_publisher with announce: a fact before and one after, which tells how
\* the publish went.
RunPublisher == Room /\ Enter("run_publisher", "started", None)

AnnounceStarted == AnnounceOwn("started", Frame("started", None, ""), "publishing")

SendPublishing ==
  \/ Start("publishing", Frame("publish", None, ""))
  \/ /\ pc = "publishing"
     /\ \/ Written /\ res' = Result(None, "completed")
        \/ (Broken \/ Unencodable) /\ res' = Result(None, "failed")
     /\ pc' = "finished"
     /\ UNCHANGED <<peerVars, cur, answer, served, task>>

AnnounceFinished ==
  \/ Start("finished", Frame("finished", None, res.says))
  \/ /\ pc = "finished"
     /\ Written \/ Broken
     /\ Return
     /\ UNCHANGED <<peerVars, answer, served, task>>

\* run_subscriber: SUBSCRIBE, the loop, UNSUBSCRIBE.
RunSubscriber == Room /\ Enter("run_subscriber", "subscribe", None)

Subscribe ==
  \/ Start("subscribe", Frame("subscribe", None, ""))
  \/ pc = "subscribe" /\ Written /\ Goto("listen") /\ UNCHANGED peerVars
  \/ pc = "subscribe" /\ (Broken \/ Unencodable) /\ Goto("idle") /\ UNCHANGED peerVars

\* An EVENT goes to the handler, any other frame nowhere.
Listen == pc = "listen" /\ Receive /\ UNCHANGED appVars

\* Slip: a failed read returns at once.
ListenEndsOnError ==
  /\ pc = "listen"
  /\ Goto(IF ReceiveFails THEN "idle" ELSE "unsubscribe")
  /\ UNCHANGED <<peerVars, wireVars>>

\* `stop` resolves, or the read fails: either way the loop breaks.
ListenEnds == pc = "listen" /\ Goto("unsubscribe") /\ UNCHANGED <<peerVars, wireVars>>

Unsubscribe == Announce("unsubscribe", Frame("unsubscribe", None, ""), "idle")

\* recv_event: the next frame, whatever it is, or a timeout.
RecvEvent == Enter("recv_event", "event", None)

TakeEvent ==
  /\ pc = "event"
  /\ Receive \/ UNCHANGED <<peerVars, wireVars>>
  /\ Goto("idle")

\* keep_advertised: an ADVERTISE at every tick until `stop` resolves; a tick
\* that fails does not end it.
KeepAdvertised == Room /\ Enter("keep_advertised", "tick", None)

Tick ==
  /\ pc = "tick"
  /\ Goto("idle") \/ (Room /\ Goto("advertise"))
  /\ UNCHANGED <<peerVars, wireVars>>

Advertise == AnnounceOwn("advertise", Frame("advertise", None, ""), "tick")

\* close: GOODBYE, finish, CLOSE_DRAIN, and the connection is closed.
Close == Enter("close", "goodbye", None)

Goodbye == AnnounceOwn("goodbye", Frame("goodbye", None, ""), "drain")

CloseConnection ==
  pc = "drain" /\ Goto("closed") /\ up' = FALSE /\ UNCHANGED <<inq, sent, fin, wireVars>>

-----------------------------------------------------------------------------
(* Dropped futures.                                                         *)

\* The application drops the future of the method that it awaits, at any await:
\* what is written stays, half a frame too; handlers that were spawned run on; and
\* a Session that close had taken over is gone with its connection.  A method that
\* panics ends like this as well, and one does when what it was given to send, or a
\* handler to reply, holds an integer that CBOR cannot (frame.rs signable_bytes).
Abandon ==
  /\ pc \notin {"idle", "closed"}
  /\ Cardinality(dropped) < MaxDrops
  /\ half' = FALSE
  /\ dropped' = dropped \cup {Len(out)}
  /\ cur' = None
  /\ res' = NoResult
  /\ answer' = [c \in OwnCalls |-> IF c = cur THEN Result(c, "dropped") ELSE answer[c]]
  /\ served' = [i \in Inbound |-> IF i = cur THEN "dropped" ELSE served[i]]
  /\ IF pc \in {"goodbye", "drain"}
       THEN pc' = "closed" /\ up' = FALSE /\ UNCHANGED <<inq, sent, fin>>
       ELSE pc' = "idle" /\ UNCHANGED peerVars
  /\ UNCHANGED <<out, task>>

-----------------------------------------------------------------------------
(* The station and the network.                                             *)

\* The station can tell frames apart until the first one that was cut short.
Reads(type, x) ==
  \E p \in 1..Len(out) :
    /\ out[p].type = type
    /\ out[p].of = x
    /\ \A q \in 1..p : out[q].whole

Sends(f) ==
  /\ up
  /\ ~fin
  /\ f \notin sent
  /\ sent' = sent \cup {f}
  /\ inq' = Append(inq, f)
  /\ UNCHANGED <<fin, up, wireVars, appVars>>

\* At any time, the one RESULT or ERROR of a call.
Respond(c, says) ==
  /\ Reads("call", c)
  /\ \A r \in Responses : Frame("response", c, r) \notin sent
  /\ Sends(Frame("response", c, says))

\* A frame that carries the call_id and is neither.
Stray(c) == Reads("call", c) /\ Sends(Frame("response", c, "stray"))

Route(i) == Sends(Frame("call", i, ""))

Deliver(e) == Sends(Frame("event", e, ""))

Finish == up /\ ~fin /\ fin' = TRUE /\ UNCHANGED <<inq, sent, up, wireVars, appVars>>

Die == up /\ up' = FALSE /\ UNCHANGED <<inq, sent, fin, wireVars, appVars>>

-----------------------------------------------------------------------------
\* What Session::call does once it is polled.
Calling ==
  \/ AnnounceSent \/ SendCall \/ AwaitResponse \/ AwaitFails \/ AwaitTimeout
  \/ AnnounceCompleted

\* What serve_one_call_gated_inner does once it is polled.
Serving ==
  Take \/ TakeFails \/ AnnounceReceived \/ Join \/ AnnounceReplied \/ Reply

Publisher ==
  \/ Publish \/ SendPublish
  \/ RunPublisher \/ AnnounceStarted \/ SendPublishing \/ AnnounceFinished
  \/ KeepAdvertised \/ Tick \/ Advertise

Subscriber ==
  \/ RunSubscriber \/ Subscribe \/ Listen \/ ListenEnds \/ Unsubscribe
  \/ RecvEvent \/ TakeEvent

Closing == Close \/ Goodbye \/ CloseConnection

Station ==
  \/ \E c \in OwnCalls, says \in Responses : Respond(c, says)
  \/ \E c \in OwnCalls : Stray(c)
  \/ \E i \in Inbound : Route(i)
  \/ \E e \in Events : Deliver(e)
  \/ Finish
  \/ Die

Handlers == \E i \in Inbound, how \in {"ok", "err", "long_err", "panic"} : HandlerEnds(i, how)

Next ==
  \/ \E c \in OwnCalls : Call(c)
  \/ Calling
  \/ Serve \/ Serving \/ ServeTimeout
  \/ Publisher \/ Subscriber \/ Closing
  \/ Abandon
  \/ Station \/ Handlers

Spec == Init /\ [][Next]_vars

\* tokio polls the application, fires its timers and ends a write when the
\* connection is lost.  Nothing is assumed of handlers, nor of a write while the
\* connection lives: no timeout bounds it, and the station may have ceased to read.
Fairness ==
  /\ WF_vars((half => ~up) /\ Calling)
  /\ WF_vars((half => ~up) /\ Serving)
  /\ WF_vars(ServeTimeout)

LiveSpec == Spec /\ Fairness

-----------------------------------------------------------------------------
(* Properties.                                                              *)

CallLabels == {"sent", "call", "await", "completed"}
OtherWrites == {"publish", "started", "publishing", "finished", "subscribe",
                "unsubscribe", "advertise", "goodbye"}
Labels == CallLabels \cup ServeLabels \cup OtherWrites
            \cup {"idle", "listen", "event", "tick", "drain", "closed"}

\* The values each variable takes; a write is under way only where the code
\* writes, and only on the last frame.
TypeOK ==
  /\ pc \in Labels
  /\ cur \in OwnCalls \cup Inbound \cup {None}
  /\ pc \in CallLabels => cur \in OwnCalls
  /\ pc \in ServeLabels \ {"take"} => cur \in Inbound
  /\ {fin, up, half} \subseteq BOOLEAN
  /\ half => /\ pc \notin {"idle", "await", "take", "join", "listen", "event", "tick",
                           "drain", "closed"}
             /\ out # <<>>
             /\ ~Last(out).whole
  /\ dropped \subseteq 0..Len(out)
  /\ task \in [Inbound -> {"none", "running", "ok", "err", "long_err", "panic"}]
  /\ served \in [Inbound -> {"none", "replied", "unsent", "timeout", "dropped"}]
  /\ \A c \in OwnCalls :
       answer[c].says \in Responses \cup {"none", "timeout", "failed", "dropped"}
  /\ ToSet(inq) \subseteq sent

\* What the first n frames say about one call, in their order.
Stories(frames, x) ==
  LET upTo[n \in 0..Len(frames)] ==
        IF n = 0 THEN <<>>
        ELSE IF frames[n].of = x
               THEN Append(upTo[n - 1], <<frames[n].type, frames[n].says>>)
        ELSE upTo[n - 1]
  IN upTo

\* What the session wrote about one call.
Story(x) == Stories(out, x)[Len(out)]

\* A call that returned a response returned the station's response to that
\* very call: never the late answer to an earlier call that timed out, and
\* never a frame that carries its call_id without answering it
\* (FrameStream::await_call_response).
OwnAnswer ==
  \A c \in OwnCalls :
    answer[c].says \in Responses =>
      /\ answer[c].of = c
      /\ Frame("response", c, answer[c].says) \in sent

\* Session::call brackets the CALL with rpc.sent_v1 and rpc.completed_v1, in
\* that order, on every path of a live connection: response, timeout, a stream
\* the station has finished, a CALL that cannot be encoded.  The outcome
\* announced is the outcome returned.  A call that the application drops stops
\* short of the end, and its story is a beginning of one of these.
CallStory ==
  \A c \in OwnCalls :
    LET closing(says) == <<"completed", says>>
        full == {<< <<"sent", "">>, <<"call", "">>, closing(says)>> :
                   says \in {"completed", "failed"}}
                  \cup {<< <<"sent", "">>, closing("failed")>>}
    IN /\ \E s \in full : IsPrefix(Story(c), s)
       /\ up /\ answer[c].says \notin {"none", "dropped"} =>
            /\ Story(c) \in full
            /\ Last(Story(c)) = closing(CompletedFact(answer[c]))

\* What the session writes about an inbound CALL when all goes well: a rejected
\* CALL is answered without a handler and without facts, a handler runs between
\* rpc.received_v1 and rpc.replied_v1, a panic is replied to and not announced, nor
\* is an error too long for the fact.
ReplyStory(i) ==
  IF i \in Unauthorized THEN << <<"reply", "unauthorized">> >>
  ELSE IF i \in Unknown THEN << <<"reply", "unknown_next_peer">> >>
  ELSE << <<"received", "">> >> \o
       CASE task[i] = "ok"    -> << <<"replied", "replied">>, <<"reply", "result">> >>
         [] task[i] = "err"   -> << <<"replied", "failed">>, <<"reply", "unknown_error">> >>
         [] task[i] = "long_err" -> << <<"reply", "unknown_error">> >>
         [] task[i] = "panic" -> << <<"reply", "temporary_relay_failure">> >>
         [] OTHER             -> <<>>

\* build_call_reply and serve_one_call_gated write that story or a beginning of
\* it, never twice and never out of order, even when an earlier CALL's handler
\* outlives its serve_one_call; and serve_one_call returns Ok only when the
\* whole of it is written.
ServeStory ==
  \A i \in Inbound :
    /\ IsPrefix(Story(i), ReplyStory(i))
    /\ served[i] = "replied" =>
         /\ Story(i) = ReplyStory(i)
         /\ \A p \in DOMAIN out : out[p].of = i => out[p].whole

\* On a live connection a frame is cut short, and with it everything written
\* after it made unreadable, only where a future is dropped in the middle of a
\* write: by the application, or by the timeout of serve_one_call.  No timeout
\* of `call`, no failure and no handler ever does it (FrameStream::send_frame).
CutOnlyByDrop ==
  up => \A p \in DOMAIN out :
          ~out[p].whole /\ ~(half /\ p = Len(out)) =>
            \/ p \in dropped
            \/ out[p].of \in Inbound /\ served[out[p].of] = "timeout"

\* A frame of the first type is out, and none of the second type after it; nor has
\* the application dropped a future since.
Open(opening, closing) ==
  \E p \in DOMAIN out :
    /\ out[p].type = opening
    /\ \A q \in DOMAIN out : q > p => out[q].type # closing
    /\ \A d \in dropped : d < p

\* While the connection lives, the application is never back from
\* run_subscriber with the subscription in place, nor from run_publisher or
\* call without the closing fact, however the read, the wait or the encoding
\* in between went; only where it drops the future itself does it stay without.
BracketsClose ==
  up /\ pc = "idle" =>
    /\ ~Open("subscribe", "unsubscribe")
    /\ ~Open("started", "finished")
    /\ ~Open("sent", "completed")

\* ServeCallError::Timeout "just means nothing arrived".
TimeoutMeansNothingArrived == \A i \in Inbound : served[i] # "timeout"

\* No write waits for ever on a live connection.
StationReads == []<>(half => ~up)

\* A call returns even if the station never answers, as long as the station goes on
\* reading what is written to it: the sends of a call have no timeout.
CallEnds ==
  StationReads => \A c \in OwnCalls : (pc = "sent" /\ cur = c) ~> (answer[c] # NoResult)

\* serve_one_call returns even if a handler never ends or the station stops
\* reading in the middle of the reply.
ServeEnds == (pc \in ServeLabels) ~> (pc = "idle")

=============================================================================
