------------------------------ MODULE DirectDial ------------------------------
(***************************************************************************)
(* Direct dialling, src/direct_dial.rs: one caller that resolves a procedure, *)
(* a station or a piece of content in the DHT through the session it has,    *)
(* dials the station it finds in a second connection and works there.        *)
(*                                                                          *)
(* The DHT and the stations are external: a lookup returns any of the        *)
(* records stored there, or none, in any order; records expire; a station    *)
(* leaves its address and another one answers there.                        *)
(***************************************************************************)
EXTENDS Records

CONSTANTS
  Ops,       \* the operations the application may call
  MaxCalls,  \* how many it calls, one after the other
  Adverts,   \* procedure_advertisements that may be in the DHT
  Endpoints, \* station_endpoints that may be in the DHT
  Contents,  \* content_announcements that may be in the DHT
  Garbage,   \* items in the station's answers that are no records
  Stations,  \* the stations of the mesh
  Hosts,     \* addresses to dial
  Home,      \* the station of resolve_via
  RealmCa,   \* the realm CA the application trusts
  Org,       \* the organization it expects
  NoStation,
  Retries,   \* RESOLVE_RETRIES
  MaxAnswer, \* the longest list of records that a station answers
  MaxNow,    \* the last tick of the clock
  MaxMoves   \* how often a host changes its station

ASSUME DirectAssumption ==
  /\ Ops \subseteq {"call", "call_with_ucan", "call_with_cert_chain", "open_stream_direct",
                    "open_stream_direct_with_cert_chain", "put_direct", "get_direct"}
  /\ Home \in Stations /\ NoStation \notin Stations
  /\ Retries \in Nat \ {0} /\ MaxNow \in Nat /\ MaxMoves \in Nat /\ MaxCalls \in Nat
  /\ MaxAnswer \in Nat

\* The operations for realms whose advertisements carry certificates, and those that
\* return a stream together with its session.
Managed == {"call_with_cert_chain", "open_stream_direct_with_cert_chain"}
Streaming == {"open_stream_direct", "open_stream_direct_with_cert_chain"}

VARIABLES
  now,     \* the time
  at,      \* the station that answers at each host
  moves,   \* hosts that have changed so far
  via,     \* resolve_via: "up", "kicked" by one's own dial, or "lost"
  calls,   \* operations called so far
  op,      \* the operation in progress
  pc,      \* the await it stands at
  tries,   \* rounds of the resolving loop so far
  station, \* the station it has to reach
  host,    \* where it is to be found
  target,  \* the station of the dialled session that is open, as its HELLO proved
  said,    \* what the last operation returned
  held,    \* sessions in the application's hands
  basis    \* the records the resolution rests on, and when each was verified

world == <<now, at, moves>>
result == <<said, held>>
vars == <<world, via, calls, op, pc, tries, station, host, target, result, basis>>

NoOp == "none"

Init ==
  /\ now = 1
  /\ at \in [Hosts -> Stations \cup {NoStation}]
  /\ moves = 0
  /\ via = "up"
  /\ calls = 0
  /\ op = NoOp
  /\ pc = "idle"
  /\ tries = 0
  /\ station = NoStation
  /\ host = NoStation
  /\ target = NoStation
  /\ said = "nothing"
  /\ held = {}
  /\ basis = <<>>

-----------------------------------------------------------------------------
(* Starting and ending an operation.                                        *)

\* put_direct knows its station; get_direct asks for content, once.
First(o) == CASE o = "put_direct" -> "endpoint"
              [] o = "get_direct" -> "content"
              [] OTHER            -> "advert"

Call(o, s) ==
  /\ pc = "idle" /\ calls < MaxCalls
  /\ op' = o
  /\ calls' = calls + 1
  /\ pc' = First(o)
  /\ tries' = 0
  /\ station' = IF o = "put_direct" THEN s ELSE NoStation
  /\ basis' = <<>>
  /\ UNCHANGED <<world, via, host, target, result>>

\* The operation returns: its locals are gone.
Return(what) ==
  /\ said' = what
  /\ op' = NoOp
  /\ pc' = "idle"
  /\ tries' = 0
  /\ station' = NoStation
  /\ host' = NoStation
  /\ basis' = <<>>
  /\ UNCHANGED calls

Fails(why) == Return(why) /\ UNCHANGED <<world, via, target, held>>

\* One more round of a resolving loop, after RESOLVE_RETRY_DELAY; the last round
\* ends it.
Retry(exhausted) ==
  IF tries + 1 < Retries
  THEN /\ tries' = tries + 1
       /\ UNCHANGED <<world, via, calls, op, pc, station, host, target, result, basis>>
  ELSE Fails(exhausted)

\* The lookup itself fails: resolve_via is lost, the call times out, or the
\* station reports an error.
LookupFails == pc \in {"advert", "endpoint", "content"} /\ Fails("dht")

-----------------------------------------------------------------------------
(* Looking up the procedure and the content.                                *)

\* Any of the records in any order, and whatever else the station puts in its list.
AdvertAnswers  == SeqOf({to_rpc_value(r) : r \in Adverts} \cup Garbage, MaxAnswer)
ContentAnswers == SeqOf({to_rpc_value(r) : r \in Contents} \cup Garbage, MaxAnswer)

\* Of the places of the records that pass, the first one, if any passes.
FirstOf(passing) == {k \in passing : \A j \in passing : k <= j}

first_trusted_advertisement(recs) ==
  FirstOf({k \in DOMAIN recs :
             verify(recs[k], now) = "Ok" /\ reads_procedure_advertisement(recs[k])})

first_authorized_advertisement(recs) ==
  FirstOf({k \in DOMAIN recs :
             verify_advertisement_cert_chain(RealmCa, recs[k], Org, now) = "Ok"})

\* Some record was genuine, and it was its chain that was refused.
SomeGenuine(recs) == \E k \in DOMAIN recs : verify(recs[k], now) = "Ok"

\* resolve and resolve_with_cert_chain: an empty answer is retried, any other is
\* final.
FindAdvert ==
  /\ pc = "advert" /\ via = "up"
  /\ \E items \in AdvertAnswers :
       LET recs == records_list(items)
           found == IF op \in Managed THEN first_authorized_advertisement(recs)
                    ELSE first_trusted_advertisement(recs)
       IN IF recs = <<>> THEN Retry("ProcedureNotAdvertised")
          ELSE IF found = {}
          THEN Fails(IF op \in Managed /\ SomeGenuine(recs)
                     THEN "NoAuthorizedAdvertisement" ELSE "NoTrustedAdvertisement")
          ELSE \E k \in found :
                 /\ station' = recs[k].payload.serving_station
                 /\ basis' = <<[rec |-> recs[k], seen |-> now]>>
                 /\ pc' = "endpoint"
                 /\ tries' = 0
                 /\ UNCHANGED <<world, via, calls, op, host, target, result>>

first_trusted_content_provider(recs) ==
  FirstOf({k \in DOMAIN recs : /\ verify(recs[k], now) = "Ok"
                               /\ reads_content_announcement(recs[k])
                               /\ recs[k].payload.announcer_node = recs[k].key})

\* parse_seed_url finds a host and a port in it.
Dialable(endpoint) == endpoint \in Hosts

\* get_direct asks once; the announcement names its own address.
FindContent ==
  /\ pc = "content" /\ via = "up"
  /\ \E items \in ContentAnswers :
       LET recs == records_list(items)
           found == first_trusted_content_provider(recs)
       IN IF found = {} THEN Fails("NotAnnounced")
          ELSE \E k \in found :
            IF ~Dialable(recs[k].payload.endpoint) THEN Fails("EndpointParse")
            ELSE /\ station' = recs[k].payload.announcer_node
                 /\ host' = recs[k].payload.endpoint
                 /\ basis' = <<[rec |-> recs[k], seen |-> now]>>
                 /\ pc' = "dial"
                 /\ UNCHANGED <<world, via, calls, op, tries, target, result>>

-----------------------------------------------------------------------------
(* resolve_station_endpoint.                                                *)

NoEndpoint == pc = "endpoint" /\ via = "up" /\ Retry("StationEndpointNotFound")

\* One replica of what is stored for the station: it must be signed by the
\* station itself, an expired one is retried, and the first host counts.
FindEndpoint ==
  /\ pc = "endpoint" /\ via = "up"
  /\ \E rec \in Endpoints :
       IF rec.key # station THEN Fails("StationEndpointSignerMismatch")
       ELSE IF verify(rec, now) = "Expired" THEN Retry("StationEndpointNotFound")
       ELSE IF verify(rec, now) # "Ok" THEN Fails("NoTrustedAdvertisement")
       ELSE IF ~reads_station_endpoint(rec) \/ HostsOf(rec) = <<>>
       THEN Fails("StationEndpointNotFound")
       ELSE /\ host' = Head(HostsOf(rec))
            /\ basis' = Append(basis, [rec |-> rec, seen |-> now])
            /\ pc' = "dial"
            /\ UNCHANGED <<world, via, calls, op, tries, station, target, result>>

-----------------------------------------------------------------------------
(* Dialling and working.                                                    *)

\* connect with Trust::Insecure: whichever station answers proves itself by its
\* HELLO.  A station keeps one connection for each identity, so that a dial to
\* the home station ends resolve_via.
Dial ==
  /\ pc = "dial"
  /\ at[host] # NoStation
  /\ target' = at[host]
  /\ via' = IF at[host] = Home /\ via = "up" THEN "kicked" ELSE via
  /\ pc' = "check"
  /\ UNCHANGED <<world, calls, op, tries, station, host, result, basis>>

\* Slip: nothing bounds the dial.
DialFails_never == pc = "dial" /\ at[host] = NoStation /\ UNCHANGED vars

\* No HELLO within the timeout, or a refusal.
DialFails == pc = "dial" /\ Fails("dial")

\* The dialled session is closed, with its GOODBYE.
Close == target' = NoStation

\* Slip: a session with whoever answered is as good as the one resolved.
Check_skipped ==
  /\ pc = "check"
  /\ pc' = "work"
  /\ UNCHANGED <<world, via, calls, op, tries, station, host, target, result, basis>>

\* The HELLO's identity is compared with the resolved one before any use; a
\* stranger's session is closed.
Check ==
  /\ pc = "check"
  /\ IF target = station
     THEN /\ pc' = "work"
          /\ UNCHANGED <<world, via, calls, op, tries, station, host, target, result, basis>>
     ELSE Close /\ Return("TrustViolation") /\ UNCHANGED <<world, via, held>>

\* Slip: a stream that does not open leaves its session behind.
Work_leaving(ok) ==
  /\ pc = "work"
  /\ IF op \in Streaming THEN UNCHANGED target ELSE Close
  /\ held' = IF ok /\ op \in Streaming THEN held \cup {target} ELSE held
  /\ Return(IF ok THEN "done" ELSE "failed")
  /\ UNCHANGED <<world, via>>

\* The call, the put or the get ends, well or not, and its session is closed; a
\* stream that has been opened goes to the application with its session.
Work(ok) ==
  /\ pc = "work"
  /\ IF ok /\ op \in Streaming
     THEN held' = held \cup {target} /\ target' = NoStation
     ELSE Close /\ UNCHANGED held
  /\ Return(IF ok THEN "done" ELSE "failed")
  /\ UNCHANGED <<world, via>>

-----------------------------------------------------------------------------
(* The world.                                                               *)

Tick ==
  /\ now < MaxNow
  /\ now' = now + 1
  /\ UNCHANGED <<at, moves, via, calls, op, pc, tries, station, host, target, result, basis>>

\* Another station answers at h, or none.
Move(h, s) ==
  /\ moves < MaxMoves /\ at[h] # s
  /\ moves' = moves + 1
  /\ at' = [at EXCEPT ![h] = s]
  /\ UNCHANGED <<now, via, calls, op, pc, tries, station, host, target, result, basis>>

LoseVia ==
  /\ via = "up" /\ via' = "lost"
  /\ UNCHANGED <<world, calls, op, pc, tries, station, host, target, result, basis>>

-----------------------------------------------------------------------------

Steps ==
  \/ LookupFails \/ FindAdvert \/ FindContent \/ NoEndpoint \/ FindEndpoint
  \/ Dial \/ DialFails \/ Check \/ \E ok \in BOOLEAN : Work(ok)

Next ==
  \/ \E o \in Ops, s \in Stations : Call(o, s)
  \/ Steps
  \/ Tick \/ \E h \in Hosts, s \in Stations \cup {NoStation} : Move(h, s)
  \/ LoseVia

Spec == Init /\ [][Next]_vars

\* The operation writes to a station before it goes on: a lookup's CALL to that of
\* resolve_via, the work and GOODBYE to the one dialled.  No timeout bounds a write, as
\* it does the dial and the wait for an answer (Session::call, Session::close).
Writing ==
  \/ pc \in {"advert", "endpoint", "content"} /\ via = "up"
  \/ pc = "check" /\ target # station
  \/ pc = "work"

\* The dial ends by its timeout; a lost session's lookup fails; and a comparison is made.
Fairness == WF_vars(~Writing /\ Steps)
FairSpec == Spec /\ Fairness

-----------------------------------------------------------------------------
(* Properties.                                                              *)

Genuine(b) == verify(b.rec, b.seen) = "Ok"

\* What is done is done at the station that the operation was to reach, by a
\* chain of records each genuine and unexpired when it was read: an advertisement
\* (authorized for the organization where that was asked) names the station, the
\* station's own endpoint names the host, and the HELLO of whoever answered there
\* is the station's, though the host may have changed hands in between
\* (direct_dial.rs resolve*, first_*, dial_and_verify).
WorksWhereResolved ==
  pc = "work" =>
    /\ target = station
    /\ \A k \in DOMAIN basis : Genuine(basis[k])
    /\ LET last == Last(basis) IN
         CASE op = "get_direct" -> last.rec.key = target
           [] OTHER -> last.rec.key = target /\ last.rec.type = "station_endpoint"
    /\ op \notin {"put_direct", "get_direct"} =>
         basis[1].rec.payload.serving_station = target
    /\ op \in Managed =>
         verify_advertisement_cert_chain(RealmCa, basis[1].rec, Org, basis[1].seen) = "Ok"

\* No dialled session is forgotten: between operations the only ones open are
\* those of streams, which the application has been given (direct_dial.rs call,
\* put_direct, get_direct, open_stream_direct).
NoneForgotten == op = NoOp => target = NoStation

\* The stations read what is written to them, or their connections are lost.
StationsRead == WF_vars(Writing /\ Steps)

\* Every operation returns, if the stations read: the loops are bounded, whatever the DHT
\* answers, and whoever leaves or does not answer (direct_dial.rs resolve*,
\* dial_and_verify).
OpEnds == StationsRead => ((op # NoOp) ~> (op = NoOp))

===============================================================================
