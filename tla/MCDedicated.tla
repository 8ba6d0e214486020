----------------------------- MODULE MCDedicated -----------------------------
(***************************************************************************)
(* What runs beside the control stream: an instance of DirectDial, or one of *)
(* Stream, as "part" says.                                                  *)
(*                                                                          *)
(* DirectDial: the home station H of resolve_via, a station S that serves,  *)
(* and X, which may answer at S's address and signs records of its own.  P  *)
(* provides the procedure; Q signs for another organization.                *)
(*                                                                          *)
(* Stream: a bidirectional exchange in which the caller pushes chunks and   *)
(* waits for a reply.                                                       *)
(***************************************************************************)
EXTENDS DirectDial

CONSTANTS Uses, MaxFrames, Window, Large, Strays

VARIABLES
  part,
  handle, end_pc, seqOut, chan, begun, fin, stopped, up, strays, tried, failed, got, told

stream_vars ==
  <<handle, end_pc, seqOut, chan, begun, fin, stopped, up, strays, tried, failed, got, told>>

MCStations == {"H", "S", "X"}
MCHosts == {"h", "s"}

\* A record of node id, signed, that lives from 0 to ttl.
Advert(id, serving, chain, ttl) ==
  LET plain == new_procedure_advertisement(id, <<"realm", "proc">>, serving, 0, ttl, 0)
  IN sign(IF chain = <<>> THEN plain ELSE WithCertChain(plain, chain), id)

OrgCa(org) == Cert(<<"ca", org>>, org, "RealmCa", 9)
Service(id, org) == Cert(id, org, <<"ca", org>>, 9)

Served  == Advert("P", "S", <<Service("P", "Org"), OrgCa("Org")>>, 9)
Brief   == Advert("P", "H", <<>>, 2)
Foreign == Advert("Q", "X", <<Service("Q", "Other"), OrgCa("Other")>>, 9)
\* What P signed, with another station written over it.
Forged  == [Served EXCEPT !.payload.serving_station = "X"]

MCAdverts == {Served, Brief, Foreign, Forged}

\* The station_endpoint of a station, signed by whoever calls itself id.
Endpoint(id, hosts, ttl) ==
  sign(new_envelope("station_endpoint", id, 0,
                    [quic_port |-> 4433, host_advertised |-> hosts], ttl, 0), id)

MCEndpoints ==
  {Endpoint("S", <<Wrong, "s">>, 2), Endpoint("S", <<"s">>, 9), Endpoint("H", <<"h">>, 9),
   Endpoint("X", <<"s">>, 9), Endpoint("S", <<>>, 9),
   [Endpoint("H", <<"h">>, 2) EXCEPT !.expires_at = 9]}

Announced(id, node, endpoint) ==
  LET rec == new_content_announcement(id, "mcid", endpoint, 0, 9, 0)
  IN sign([rec EXCEPT !.payload.announcer_node = node], id)

MCContents == {Announced("S", "S", "s"), Announced("X", "S", "h"), Announced("H", "H", "nowhere")}

MCGarbage == {[type |-> Wrong]}

-----------------------------------------------------------------------------

\* What the documentation has either role do (stream.rs:28-56).
MCUses == [caller   |-> {"send_data", "close_send", "abort", "drop", "recv", "await_reply"},
           provider |-> {"send_data", "send_reply", "abort", "drop", "recv"}]

\* STREAM_OPEN and two frames more; a chunk, a reply or an abort.
MCMaxFrames == [caller |-> 3, provider |-> 1]

End == INSTANCE Stream WITH pc <- end_pc

ASSUME MCAssumption == End!StreamAssumption

DedicatedInit ==
  /\ part \in {"direct", "stream"}
  /\ Init /\ End!Init
  /\ part # "direct" => at = [h \in Hosts |-> NoStation]

DedicatedNext ==
  \/ part = "direct" /\ Next /\ UNCHANGED <<part, stream_vars>>
  \/ part = "stream" /\ End!Next /\ UNCHANGED <<part, vars>>

\* A part that does not run has nothing to do that is fair.
DedicatedSpec ==
  /\ DedicatedInit /\ [][DedicatedNext]_<<part, vars, stream_vars>>
  /\ Fairness /\ End!Fairness

\* Stream: a receiver knows which chunks it lacks (stream.rs send_data, recv).
ChunksAccounted == End!ChunksAccounted

\* Stream: a cancellation is told from an end (stream.rs abort).
AbortToldApart == End!AbortToldApart

\* Stream: every method returns, a jammed write apart (stream.rs).
OpsReturn == End!OpsReturn

==============================================================================
