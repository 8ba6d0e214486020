-------------------------- MODULE DirectDialProofs --------------------------
(***************************************************************************)
(* Proofs about DirectDial for every set of records in the DHT, of stations  *)
(* and of hosts, and any number of operations, retries and moves.           *)
(*                                                                          *)
(* What a resolution rests on grows from await to await: BasisInv says what  *)
(* the records name at each of them and that each was genuine when it was   *)
(* read; StandInv says at which awaits an operation has a session.          *)
(*                                                                          *)
(* At the end, what Records promises of any record: its signature binds it,  *)
(* and the wire leaves it as it is.                                         *)
(***************************************************************************)
EXTENDS DirectDial, SequenceTheorems, TLAPS

\* The operations that look a procedure up.
Looking == Ops \ {"put_direct", "get_direct"}

\* The awaits at which an operation stands, and where it has a dialled session.
StandInv ==
  /\ pc \in {"idle", "advert", "endpoint", "content", "dial", "check", "work"}
  /\ op \in Ops \cup {NoOp}
  /\ op = NoOp <=> pc = "idle"
  /\ pc = "advert" => op \in Looking
  /\ pc = "content" => op = "get_direct"
  /\ pc = "endpoint" => op # "get_direct"
  /\ target # NoStation => pc \in {"check", "work"}
  /\ pc = "work" => target = station

\* b is an advertisement of the station s, authorized where the operation o asks it.
Advertises(b, o, s) ==
  /\ b.rec.payload.serving_station = s
  /\ o \in Managed => verify_advertisement_cert_chain(RealmCa, b.rec, Org, b.seen) = "Ok"

\* b is the endpoint of the station s, its own.
Locates(b, s) == b.rec.key = s /\ b.rec.type = "station_endpoint"

BasisInv ==
  /\ \A k \in DOMAIN basis : Genuine(basis[k])
  /\ pc \in {"advert", "content"} => basis = <<>>
  /\ pc = "endpoint" =>
       \/ op = "put_direct" /\ basis = <<>>
       \/ op \in Looking /\ basis = <<basis[1]>> /\ Advertises(basis[1], op, station)
  /\ pc \in {"dial", "check", "work"} =>
       \/ op = "get_direct" /\ basis = <<basis[1]>> /\ basis[1].rec.key = station
       \/ op = "put_direct" /\ basis = <<basis[1]>> /\ Locates(basis[1], station)
       \/ /\ op \in Looking /\ basis = <<basis[1], basis[2]>>
          /\ Advertises(basis[1], op, station) /\ Locates(basis[2], station)

IInv == StandInv /\ BasisInv

-----------------------------------------------------------------------------
(* The operators and the steps that several actions share.                  *)

\* A chain that authorizes an advertisement has found its signature genuine first
\* (cert_chain.rs verify_advertisement_cert_chain).
LEMMA AuthorizedGenuine ==
  ASSUME NEW rec, NEW seen,
         verify_advertisement_cert_chain(RealmCa, rec, Org, seen) = "Ok"
  PROVE  verify(rec, seen) = "Ok"
<1>1. verify(rec, seen) # "Ok" =>
        verify_advertisement_cert_chain(RealmCa, rec, Org, seen) = "BadSignature"
  BY DEF verify_advertisement_cert_chain
<1>2. QED BY <1>1

\* What first_trusted_advertisement or first_authorized_advertisement picks is
\* genuine, and authorized where that was asked (direct_dial.rs).
LEMMA FoundAdvert ==
  ASSUME NEW recs, NEW k,
         k \in IF op \in Managed THEN first_authorized_advertisement(recs)
               ELSE first_trusted_advertisement(recs)
  PROVE  /\ verify(recs[k], now) = "Ok"
         /\ op \in Managed =>
              verify_advertisement_cert_chain(RealmCa, recs[k], Org, now) = "Ok"
<1>1. CASE op \in Managed
  <2>1. verify_advertisement_cert_chain(RealmCa, recs[k], Org, now) = "Ok"
    BY <1>1 DEF first_authorized_advertisement, FirstOf
  <2>2. QED BY <2>1, AuthorizedGenuine, <1>1
<1>2. CASE op \notin Managed
  BY <1>2 DEF first_trusted_advertisement, FirstOf
<1>3. QED BY <1>1, <1>2

\* A second record after the first.
LEMMA AppendPair == \A x, y : Append(<<x>>, y) = <<x, y>>
<1> SUFFICES ASSUME NEW x, NEW y
             PROVE  Append(<<x>>, y) = <<x, y>>
  OBVIOUS
<1>1. <<x>> \in Seq({x, y}) /\ <<x, y>> \in Seq({x, y})
  OBVIOUS
<1>2. Append(<<x>>, y) \in Seq({x, y}) /\ Len(Append(<<x>>, y)) = 2
  BY <1>1
<1>3. Append(<<x>>, y)[1] = x /\ Append(<<x>>, y)[2] = y
  BY <1>1
<1>4. \A k \in 1..2 : Append(<<x>>, y)[k] = <<x, y>>[k]
  BY <1>3
<1>5. QED BY <1>1, <1>2, <1>4, SeqEqual

\* An operation that is none of the seven names: NoOp.
LEMMA NoOpIsNone == NoOp \notin Ops
BY DirectAssumption DEF NoOp

\* An operation that has returned has kept nothing of its resolution, and has no
\* session when its step left none (direct_dial.rs, every early return).
LEMMA ReturnKeeps ==
  ASSUME NEW what, Return(what), target' = NoStation
  PROVE  IInv'
<1>1. StandInv'
  BY NoOpIsNone DEF Return, StandInv
<1>2. BasisInv'
  BY DEF Return, BasisInv
<1>3. QED BY <1>1, <1>2 DEF IInv

\* The same for an operation that fails before it has dialled.
LEMMA FailsKeeps ==
  ASSUME NEW why, IInv, pc \notin {"check", "work"}, Fails(why)
  PROVE  IInv'
<1>1. target' = NoStation
  BY DEF Fails, IInv, StandInv
<1>2. QED BY <1>1, ReturnKeeps DEF Fails

\* A step that leaves the operation, its await, its station, its session and its
\* records alone.
LEMMA SameKeeps ==
  ASSUME IInv, UNCHANGED <<op, pc, station, target, basis>>
  PROVE  IInv'
<1>1. StandInv'
  BY DEF IInv, StandInv
<1>2. BasisInv'
  BY DEF IInv, BasisInv, Genuine, Advertises, Locates
<1>3. QED BY <1>1, <1>2 DEF IInv

\* One more round, or the end.
LEMMA RetryKeeps ==
  ASSUME NEW why, IInv, pc \notin {"check", "work"}, Retry(why)
  PROVE  IInv'
<1>1. CASE tries + 1 < Retries
  BY <1>1, SameKeeps DEF Retry, result
<1>2. CASE ~(tries + 1 < Retries)
  BY <1>2, FailsKeeps DEF Retry
<1>3. QED BY <1>1, <1>2

-----------------------------------------------------------------------------
(* The actions.                                                             *)

\* A call begins with nothing resolved.
LEMMA CallKeeps ==
  ASSUME IInv, NEW o \in Ops, NEW s \in Stations, Call(o, s)
  PROVE  IInv'
<1>1. /\ pc = "idle" /\ op' = o /\ pc' = First(o) /\ basis' = <<>>
      /\ target' = NoStation
  BY DEF Call, IInv, StandInv
<1>2. /\ pc' \in {"endpoint", "content", "advert"}
      /\ pc' = "endpoint" <=> o = "put_direct"
      /\ pc' = "content" <=> o = "get_direct"
  BY <1>1 DEF First
<1>3. StandInv'
  BY <1>1, <1>2, NoOpIsNone DEF StandInv, Looking
<1>4. BasisInv'
  BY <1>1, <1>2 DEF BasisInv
<1>5. QED BY <1>3, <1>4 DEF IInv

\* The advertisement that is found names the station to reach.
LEMMA FindAdvertKeeps ==
  ASSUME IInv, FindAdvert
  PROVE  IInv'
<1>1. pc = "advert"
  BY DEF FindAdvert
<1>2. PICK items \in AdvertAnswers :
        LET recs == records_list(items)
            found == IF op \in Managed THEN first_authorized_advertisement(recs)
                     ELSE first_trusted_advertisement(recs)
        IN IF recs = <<>> THEN Retry("ProcedureNotAdvertised")
           ELSE IF found = {}
           THEN Fails(IF op \in Managed /\ SomeGenuine(recs)
                      THEN "NoAuthorizedAdvertisement" ELSE "NoTrustedAdvertisement")
           ELSE \E k \in found :
                  /\ station' = recs[k].payload.serving_station
                  /\ basis' = <<[rec |-> recs[k], seen |-> now]>>
                  /\ pc' = "endpoint"
                  /\ tries' = 0
                  /\ UNCHANGED <<world, via, calls, op, host, target, result>>
  BY DEF FindAdvert
<1> DEFINE recs == records_list(items)
           found == IF op \in Managed THEN first_authorized_advertisement(recs)
                    ELSE first_trusted_advertisement(recs)
<1>3. CASE recs = <<>>
  BY <1>1, <1>2, <1>3, RetryKeeps
<1>4. CASE recs # <<>> /\ found = {}
  BY <1>1, <1>2, <1>4, FailsKeeps
<1>5. CASE recs # <<>> /\ found # {}
  <2>1. PICK k \in found :
          /\ station' = recs[k].payload.serving_station
          /\ basis' = <<[rec |-> recs[k], seen |-> now]>>
          /\ pc' = "endpoint"
          /\ UNCHANGED <<op, target>>
    BY <1>2, <1>5
  <2>2. /\ verify(recs[k], now) = "Ok"
        /\ op \in Managed =>
             verify_advertisement_cert_chain(RealmCa, recs[k], Org, now) = "Ok"
    BY <2>1, FoundAdvert
  <2>3. op \in Looking /\ op' \in Looking
    BY <1>1, <2>1 DEF IInv, StandInv
  <2>4. StandInv'
    BY <1>1, <2>1, <2>3 DEF IInv, StandInv, Looking
  <2> DEFINE b == [rec |-> recs[k], seen |-> now]
  <2>5. b.rec = recs[k] /\ b.seen = now /\ basis' = <<b>> /\ basis'[1] = b
    BY <2>1
  <2> HIDE DEF b, recs, found
  <2>6. Genuine(b) /\ Advertises(b, op', station')
    BY <2>1, <2>2, <2>5 DEF Genuine, Advertises
  <2>7. BasisInv'
    <3>1. \A j \in DOMAIN basis' : basis'[j] = b
      BY <2>5
    <3>2. \A j \in DOMAIN basis' : Genuine(basis'[j])
      BY <3>1, <2>6
    <3>3. Advertises(basis'[1], op', station')
      BY <2>5, <2>6 DEF Advertises
    <3>4. QED BY <3>2, <3>3, <2>1, <2>3, <2>5 DEF BasisInv, Genuine, Advertises
  <2>8. QED BY <2>4, <2>7 DEF IInv
<1>6. QED BY <1>3, <1>4, <1>5

\* The announcement that is found is the provider's own.
LEMMA FindContentKeeps ==
  ASSUME IInv, FindContent
  PROVE  IInv'
<1>1. pc = "content" /\ op = "get_direct" /\ target = NoStation
  BY DEF FindContent, IInv, StandInv
<1>2. PICK items \in ContentAnswers :
        LET recs == records_list(items)
            found == first_trusted_content_provider(recs)
        IN IF found = {} THEN Fails("NotAnnounced")
           ELSE \E k \in found :
             IF ~Dialable(recs[k].payload.endpoint) THEN Fails("EndpointParse")
             ELSE /\ station' = recs[k].payload.announcer_node
                  /\ host' = recs[k].payload.endpoint
                  /\ basis' = <<[rec |-> recs[k], seen |-> now]>>
                  /\ pc' = "dial"
                  /\ UNCHANGED <<world, via, calls, op, tries, target, result>>
  BY DEF FindContent
<1> DEFINE recs == records_list(items)
           found == first_trusted_content_provider(recs)
<1>3. CASE found = {}
  BY <1>1, <1>2, <1>3, FailsKeeps
<1>4. CASE found # {}
  <2>1. PICK k \in found :
          IF ~Dialable(recs[k].payload.endpoint) THEN Fails("EndpointParse")
          ELSE /\ station' = recs[k].payload.announcer_node
               /\ basis' = <<[rec |-> recs[k], seen |-> now]>>
               /\ pc' = "dial"
               /\ UNCHANGED <<op, target>>
    BY <1>2, <1>4
  <2>2. verify(recs[k], now) = "Ok" /\ recs[k].payload.announcer_node = recs[k].key
    BY <2>1 DEF first_trusted_content_provider, FirstOf
  <2>3. CASE ~Dialable(recs[k].payload.endpoint)
    BY <1>1, <2>1, <2>3, FailsKeeps
  <2>4. CASE Dialable(recs[k].payload.endpoint)
    <3> DEFINE b == [rec |-> recs[k], seen |-> now]
    <3>1. /\ station' = b.rec.key /\ basis' = <<b>> /\ basis'[1] = b
          /\ pc' = "dial" /\ UNCHANGED <<op, target>> /\ Genuine(b)
      BY <2>1, <2>2, <2>4 DEF Genuine
    <3> HIDE DEF b, recs, found
    <3>2. StandInv'
      BY <1>1, <3>1 DEF IInv, StandInv
    <3>3. \A j \in DOMAIN basis' : Genuine(basis'[j])
      BY <3>1
    <3>4. BasisInv'
      BY <1>1, <3>1, <3>3 DEF BasisInv, Genuine
    <3>5. QED BY <3>2, <3>4 DEF IInv
  <2>5. QED BY <2>3, <2>4
<1>5. QED BY <1>3, <1>4

\* The endpoint that is found is signed by the station to reach.
LEMMA FindEndpointKeeps ==
  ASSUME IInv, FindEndpoint
  PROVE  IInv'
<1>1. pc = "endpoint" /\ op # "get_direct" /\ target = NoStation
  BY DEF FindEndpoint, IInv, StandInv
<1>2. PICK rec \in Endpoints :
       IF rec.key # station THEN Fails("StationEndpointSignerMismatch")
       ELSE IF verify(rec, now) = "Expired" THEN Retry("StationEndpointNotFound")
       ELSE IF verify(rec, now) # "Ok" THEN Fails("NoTrustedAdvertisement")
       ELSE IF ~reads_station_endpoint(rec) \/ HostsOf(rec) = <<>>
       THEN Fails("StationEndpointNotFound")
       ELSE /\ basis' = Append(basis, [rec |-> rec, seen |-> now])
            /\ pc' = "dial"
            /\ UNCHANGED <<op, station, target>>
  BY DEF FindEndpoint
<1>3. CASE \/ rec.key # station
           \/ verify(rec, now) # "Ok"
           \/ ~reads_station_endpoint(rec)
           \/ HostsOf(rec) = <<>>
  BY <1>1, <1>2, <1>3, FailsKeeps, RetryKeeps
<1>4. CASE /\ rec.key = station
           /\ verify(rec, now) = "Ok"
           /\ reads_station_endpoint(rec)
           /\ HostsOf(rec) # <<>>
  <2> DEFINE b == [rec |-> rec, seen |-> now]
  <2>1. /\ basis' = Append(basis, b) /\ pc' = "dial" /\ UNCHANGED <<op, station, target>>
    BY <1>2, <1>4
  <2>2. Genuine(b) /\ Locates(b, station)
    <3>0. ReadsAs(rec, "station_endpoint", {"quic_port"})
      BY <1>4 DEF reads_station_endpoint
    <3>1. rec.type = "station_endpoint"
      BY <3>0 DEF ReadsAs
    <3>2. b.rec = rec /\ b.seen = now
      OBVIOUS
    <3> HIDE DEF b
    <3>3. QED BY <1>4, <3>1, <3>2 DEF Genuine, Locates
  <2> HIDE DEF b
  <2>3. StandInv'
    BY <1>1, <2>1 DEF IInv, StandInv
  <2>4. CASE op = "put_direct" /\ basis = <<>>
    <3>1. basis' = <<b>> /\ basis'[1] = b
      BY <2>1, <2>4
    <3>2. Locates(basis'[1], station')
      BY <3>1, <2>1, <2>2 DEF Locates
    <3>3. \A j \in DOMAIN basis' : Genuine(basis'[j])
      BY <3>1, <2>2
    <3>4. QED BY <2>1, <2>3, <2>4, <3>1, <3>2, <3>3 DEF IInv, BasisInv, Locates, Genuine
  <2>5. CASE op \in Looking /\ basis = <<basis[1]>> /\ Advertises(basis[1], op, station)
    <3> DEFINE a == basis[1]
    <3>1. basis = <<a>> /\ Genuine(a) /\ Advertises(a, op, station)
      BY <2>5 DEF IInv, BasisInv
    <3> HIDE DEF a
    <3>2. basis' = <<a, b>> /\ basis'[1] = a /\ basis'[2] = b
      BY <2>1, <3>1, AppendPair
    <3>3. Locates(basis'[2], station') /\ Advertises(basis'[1], op', station')
      BY <3>1, <3>2, <2>1, <2>2 DEF Locates, Advertises
    <3>4. \A j \in DOMAIN basis' : Genuine(basis'[j])
      BY <3>1, <3>2, <2>2
    <3>5. QED BY <2>1, <2>3, <2>5, <3>2, <3>3, <3>4
              DEF IInv, BasisInv, Locates, Advertises, Genuine
  <2>6. QED BY <1>1, <2>4, <2>5 DEF IInv, BasisInv
<1>5. QED BY <1>3, <1>4

-----------------------------------------------------------------------------
(* The specification.                                                       *)

\* The invariant holds at the start and through every step.
THEOREM Invariance == Spec => []IInv
<1>1. Init => IInv
  BY NoOpIsNone DEF Init, IInv, StandInv, BasisInv
<1>2. IInv /\ [Next]_vars => IInv'
  <2> SUFFICES ASSUME IInv, [Next]_vars
               PROVE  IInv'
    OBVIOUS
  <2>1. CASE \E o \in Ops, s \in Stations : Call(o, s)
    BY <2>1, CallKeeps
  <2>2. CASE LookupFails
    BY <2>2, FailsKeeps DEF LookupFails
  <2>3. CASE FindAdvert
    BY <2>3, FindAdvertKeeps
  <2>4. CASE FindContent
    BY <2>4, FindContentKeeps
  <2>5. CASE NoEndpoint
    BY <2>5, RetryKeeps DEF NoEndpoint
  <2>6. CASE FindEndpoint
    BY <2>6, FindEndpointKeeps
  <2>7. CASE Dial
    <3>1. pc = "dial" /\ pc' = "check" /\ UNCHANGED <<op, station, basis>>
      BY <2>7 DEF Dial
    <3>2. StandInv'
      BY <3>1 DEF IInv, StandInv
    <3>3. BasisInv'
      BY <3>1 DEF IInv, BasisInv, Genuine, Advertises, Locates
    <3>4. QED BY <3>2, <3>3 DEF IInv
  <2>8. CASE DialFails
    BY <2>8, FailsKeeps DEF DialFails
  <2>9. CASE Check
    <3>1. CASE target = station
      <4>1. pc = "check" /\ pc' = "work" /\ UNCHANGED <<op, station, target, basis>>
        BY <2>9, <3>1 DEF Check
      <4>2. StandInv'
        BY <3>1, <4>1 DEF IInv, StandInv
      <4>3. BasisInv'
        BY <4>1 DEF IInv, BasisInv, Genuine, Advertises, Locates
      <4>4. QED BY <4>2, <4>3 DEF IInv
    <3>2. CASE target # station
      BY <2>9, <3>2, ReturnKeeps DEF Check, Close
    <3>3. QED BY <3>1, <3>2
  <2>10. CASE \E ok \in BOOLEAN : Work(ok)
    BY <2>10, ReturnKeeps DEF Work, Close
  <2>11. CASE Tick
    BY <2>11, SameKeeps DEF Tick
  <2>12. CASE \E h \in Hosts, s \in Stations \cup {NoStation} : Move(h, s)
    BY <2>12, SameKeeps DEF Move
  <2>13. CASE LoseVia
    BY <2>13, SameKeeps DEF LoseVia
  <2>14. CASE UNCHANGED vars
    BY <2>14, SameKeeps DEF vars
  <2>15. QED
    BY <2>1, <2>2, <2>3, <2>4, <2>5, <2>6, <2>7, <2>8, <2>9, <2>10, <2>11, <2>12, <2>13,
       <2>14 DEF Next, Steps
<1>3. QED BY <1>1, <1>2, PTL DEF Spec

\* Whatever the records in the DHT and whoever moves where in between, an operation
\* works with the station that its chain of genuine records names and that has proved
\* itself by its HELLO (direct_dial.rs resolve*, dial_and_verify).
THEOREM WorkIsWhereResolved == Spec => []WorksWhereResolved
<1>1. IInv => WorksWhereResolved
  <2> SUFFICES ASSUME IInv, pc = "work"
               PROVE  WorksWhereResolved
    BY DEF WorksWhereResolved
  <2>1. target = station /\ \A k \in DOMAIN basis : Genuine(basis[k])
    BY DEF IInv, StandInv, BasisInv
  <2>2. CASE op = "get_direct" /\ basis = <<basis[1]>> /\ basis[1].rec.key = station
    <3>1. Last(basis) = basis[1]
      BY <2>2 DEF Last
    <3>2. QED BY <2>1, <2>2, <3>1 DEF WorksWhereResolved, Managed
  <2>3. CASE op = "put_direct" /\ basis = <<basis[1]>> /\ Locates(basis[1], station)
    <3>1. Last(basis) = basis[1]
      BY <2>3 DEF Last
    <3>2. QED BY <2>1, <2>3, <3>1 DEF WorksWhereResolved, Managed, Locates
  <2>4. CASE /\ op \in Looking /\ basis = <<basis[1], basis[2]>>
             /\ Advertises(basis[1], op, station) /\ Locates(basis[2], station)
    <3>1. Last(basis) = basis[2]
      BY <2>4 DEF Last
    <3>2. QED BY <2>1, <2>4, <3>1 DEF WorksWhereResolved, Looking, Locates, Advertises
  <2>5. QED BY <2>2, <2>3, <2>4 DEF IInv, BasisInv
<1>2. QED BY <1>1, Invariance, PTL

\* No dialled session outlives the operation that dialled it, except in the hands of
\* the application (direct_dial.rs call, put_direct, get_direct, open_stream_direct).
THEOREM NoSessionForgotten == Spec => []NoneForgotten
<1>1. IInv => NoneForgotten
  BY DEF IInv, StandInv, NoneForgotten
<1>2. QED BY <1>1, Invariance, PTL

-----------------------------------------------------------------------------
(* The records themselves, for any values of their fields.                  *)

\* A record has the fields of the envelope and a signature.
IsRecord(r) == r = [n \in Envelope \cup {"signature"} |-> r[n]]

\* What one key has signed as one record is one record: two that carry the same signature and
\* are not refused for it agree in every field, their lifetime included, whenever they are
\* verified (dht.rs canonical_unsigned, sign, verify).
THEOREM SignatureBindsRecord ==
  ASSUME NEW r, IsRecord(r), NEW s, IsRecord(s), NEW t, NEW u,
         verify(r, t) # "InvalidSignature", verify(s, u) # "InvalidSignature",
         r.signature = s.signature
  PROVE  r = s
<1>1. r.signature = [by |-> r.key, over |-> Message(r)]
  BY DEF verify
<1>2. s.signature = [by |-> s.key, over |-> Message(s)]
  BY DEF verify
<1>3. Message(r) = Message(s)
  <2>1. \A a, b, c, d : [by |-> a, over |-> b] = [by |-> c, over |-> d] => b = d
    OBVIOUS
  <2>2. QED BY <1>1, <1>2, <2>1
<1>4. canonical_unsigned(r) = canonical_unsigned(s)
  BY <1>3 DEF Message
<1>5. \A n \in Envelope : r[n] = s[n]
  <2>1. DOMAIN r = Envelope \cup {"signature"} /\ DOMAIN s = Envelope \cup {"signature"}
    BY DEF IsRecord
  <2>2. "signature" \notin Envelope
    BY DEF Envelope
  <2>3. /\ canonical_unsigned(r) = [n \in Envelope |-> r[n]]
        /\ canonical_unsigned(s) = [n \in Envelope |-> s[n]]
    BY <2>1, <2>2 DEF canonical_unsigned
  <2> HIDE DEF Envelope
  <2>4. QED BY <1>4, <2>3
<1>6. \A n \in Envelope \cup {"signature"} : r[n] = s[n]
  BY <1>5
<1>7. QED BY <1>6 DEF IsRecord

\* A record that is put and found is the one that was put, signed or not, if its signature is
\* a byte string (dht.rs to_rpc_value, record_from_rpc_value).
THEOREM RecordTravelsWhole ==
  ASSUME NEW r, IsRecord(r), r.signature # Wrong
  PROVE  record_from_rpc_value(to_rpc_value(r)) = r
<1> DEFINE v == to_rpc_value(r)
           back == record_from_rpc_value(v)
<1>1. "signature" \notin Envelope
  BY DEF Envelope
<1>2. /\ DOMAIN v = IF r.signature = NoSig THEN Envelope ELSE Envelope \cup {"signature"}
      /\ \A n \in DOMAIN v : v[n] = r[n]
  BY DEF to_rpc_value
<1> HIDE DEF v
<1>3. \A n \in Envelope : back[n] = r[n]
  BY <1>1, <1>2 DEF record_from_rpc_value
<1>4. back["signature"] = r.signature
  <2>1. CASE r.signature = NoSig
    BY <1>1, <1>2, <2>1 DEF record_from_rpc_value
  <2>2. CASE r.signature # NoSig
    BY <1>2, <2>2 DEF record_from_rpc_value
  <2>3. QED BY <2>1, <2>2
<1>5. back = [n \in Envelope \cup {"signature"} |-> back[n]]
  BY DEF record_from_rpc_value
<1>6. \A n \in Envelope \cup {"signature"} : back[n] = r[n]
  BY <1>3, <1>4
<1> HIDE DEF back
<1>7. back = r
  BY <1>5, <1>6 DEF IsRecord
<1>8. QED BY <1>7 DEF back, v

=============================================================================
