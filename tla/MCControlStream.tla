---------------------------- MODULE MCControlStream ----------------------------
(***************************************************************************)
(* Small sessions for TLC.  A behaviour is one application, which uses some   *)
(* of the methods beside some of the frames that the station has for it: a    *)
(* call beside what reads events; a call beside what publishes; everything    *)
(* but calls; two calls; a call and an inbound CALL; three inbound CALLs, of  *)
(* which i1 is rejected by its policy, and its procedure is unknown as well,  *)
(* i2's is unknown, and i3 reaches a handler.                                *)
(*                                                                          *)
(* What its frames are made of, CBOR, has no state: its property is          *)
(* evaluated before anything is sent.                                       *)
(***************************************************************************)
EXTENDS ControlStream

CONSTANTS c1, c2, i1, i2, i3, e1

VARIABLE app \* what this application does, and what the station sends to it

App(uses, makes, takes) == [uses |-> uses, makes |-> makes, takes |-> takes]

EventMethods   == {"run_subscriber", "recv_event"}
PublishMethods == {"publish", "run_publisher", "keep_advertised"}

Listener  == App({"call", "close"} \cup EventMethods, {c1}, {e1})
Announcer == App({"call", "close"} \cup PublishMethods, {c1}, {})
Mixed     == App({"close"} \cup EventMethods \cup PublishMethods, {}, {e1})
Caller    == App({"call"}, {c1, c2}, {})
Both      == App({"call", "serve_one_call"}, {c1}, {i3})
Server    == App({"serve_one_call"}, {}, {i1, i2, i3})

\* The first await of each method.
FirstAwait ==
  [call |-> "sent", serve_one_call |-> "take", publish |-> "publish",
   run_publisher |-> "started", run_subscriber |-> "subscribe", recv_event |-> "event",
   keep_advertised |-> "tick", close |-> "goodbye"]

MCInit == Init /\ app \in {Listener, Announcer, Mixed, Caller, Both, Server}

\* A step of the application's kind.
MCNext ==
  /\ Next
  /\ pc = "idle" => pc' \in {"idle"} \cup {FirstAwait[m] : m \in app.uses}
  /\ pc' = "sent" => cur' \in app.makes
  /\ \A f \in sent' : f.type \in {"call", "event"} => f.of \in app.takes
  /\ UNCHANGED app

MCSpec == MCInit /\ [][MCNext]_<<vars, app>> /\ Fairness

-----------------------------------------------------------------------------
Codec == INSTANCE Cbor WITH MaxDepth <- 3

\* Cbor: one encoding for each value, one value for each encoding (cbor.rs).
CborCanonical == out = <<>> /\ app = Caller => Codec!CborCanonical

=============================================================================
