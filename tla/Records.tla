------------------------------- MODULE Records -------------------------------
(***************************************************************************)
(* The DHT records of src/dht.rs and the certificate chains that            *)
(* src/cert_chain.rs checks in them.                                        *)
(*                                                                          *)
(* Cryptography is symbolic: a signature is the key that made it and what it *)
(* was made over.  A map of CBOR values is a function from the names of its *)
(* fields; a value of another CBOR type than the reader expects is Wrong.   *)
(***************************************************************************)
EXTENDS Naturals, Sequences, SequencesExt, FiniteSets

CONSTANTS
  Wrong,      \* a value of a type no reader takes
  NoSig,      \* the empty signature of a record that is not signed
  DefaultTtl  \* DEFAULT_TTL

ASSUME RecordsAssumption == DefaultTtl \in Nat \ {0}

Types == {"procedure_advertisement", "station_endpoint", "content_announcement"}

-----------------------------------------------------------------------------
(* Making, signing and verifying records.                                   *)

\* new_envelope: unsigned, and as old as it will ever be young.
new_envelope(type, key, version, payload, ttl, now) ==
  [type |-> type, key |-> key, version |-> version, created_at |-> now,
   expires_at |-> now + ttl, payload |-> payload, signature |-> NoSig]

new_procedure_advertisement(advertiser, uri, station, version, ttl, now) ==
  new_envelope("procedure_advertisement", advertiser, version,
               [procedure_uri |-> uri, advertiser_node |-> advertiser,
                serving_station |-> station],
               IF ttl = 0 THEN DefaultTtl ELSE ttl, now)

\* The same with an embedded chain of certificates, leaf first.
WithCertChain(rec, chain) ==
  [rec EXCEPT !.payload = [n \in DOMAIN @ \cup {"cert_chain"} |->
                             IF n = "cert_chain" THEN chain ELSE @[n]]]

new_content_announcement(announcer, mcid, endpoint, version, ttl, now) ==
  new_envelope("content_announcement", announcer, version,
               [announcer_node |-> announcer, mcid |-> mcid, endpoint |-> endpoint],
               ttl, now)

\* Everything but the signature, under the record's own domain.
canonical_unsigned(r) == [n \in DOMAIN r \ {"signature"} |-> r[n]]

Message(r) == <<"macula-v2-record", canonical_unsigned(r)>>

sign(r, id) == [r EXCEPT !.signature = [by |-> id, over |-> Message(r)]]

\* The signature first, then the age: Expired is said of genuine records only.
verify(r, now) ==
  IF r.signature # [by |-> r.key, over |-> Message(r)] THEN "InvalidSignature"
  ELSE IF r.expires_at > 0 /\ now >= r.expires_at THEN "Expired"
  ELSE "Ok"

-----------------------------------------------------------------------------
(* Reading payloads: a record of the wrong type, or a field that is missing  *)
(* or of the wrong type, is an error.                                       *)

Has(map, names) == names \subseteq DOMAIN map /\ \A n \in names : map[n] # Wrong

ReadsAs(r, type, names) == r.type = type /\ Has(r.payload, names)

reads_procedure_advertisement(r) ==
  ReadsAs(r, "procedure_advertisement", {"procedure_uri", "advertiser_node", "serving_station"})

reads_content_announcement(r) ==
  ReadsAs(r, "content_announcement", {"announcer_node", "mcid", "endpoint"})

Ports == 1..65535

\* A port is 1..65535; host_advertised may be anything, and what is not text in
\* it is skipped.
reads_station_endpoint(r) ==
  /\ ReadsAs(r, "station_endpoint", {"quic_port"})
  /\ r.payload.quic_port \in Ports

HostsOf(r) ==
  IF Has(r.payload, {"host_advertised"})
  THEN SelectSeq(r.payload.host_advertised, LAMBDA h : h # Wrong)
  ELSE <<>>

-----------------------------------------------------------------------------
(* Records as arguments and results of the _dht procedures.                 *)

Envelope == {"type", "key", "version", "created_at", "expires_at", "payload"}

\* A record that is not signed travels without a signature.
to_rpc_value(r) ==
  [n \in IF r.signature = NoSig THEN Envelope ELSE Envelope \cup {"signature"} |-> r[n]]

is_record(v) ==
  /\ Envelope \subseteq DOMAIN v
  /\ \A n \in Envelope \ {"payload"} : v[n] # Wrong

\* A signature that is missing or of another type is the empty one.
record_from_rpc_value(v) ==
  [n \in Envelope \cup {"signature"} |->
     IF n = "signature" /\ (n \notin DOMAIN v \/ v["signature"] = Wrong) THEN NoSig ELSE v[n]]

\* find_records: what is no record in the station's answer is passed over.
records_list(items) ==
  FoldLeft(LAMBDA found, v : IF is_record(v) THEN Append(found, record_from_rpc_value(v)) ELSE found,
           <<>>, items)

-----------------------------------------------------------------------------
(* Storage keys: SHA-256 of what they name, each kind of its own.            *)

discovery_uri(realm, procedure) == <<realm, procedure>>
procedure_key(uri) == <<"sha256", uri>>
station_endpoint_key(station) == <<"sha256", "station_endpoint", station>>
content_key(mcid) == <<"sha256", mcid>>

-----------------------------------------------------------------------------
(* verify_advertisement_cert_chain.                                         *)

\* A certificate: whose key and which organization it certifies, who signed it,
\* and when it ends.
Cert(key, org, issuer, until) == [key |-> key, org |-> org, issuer |-> issuer, until |-> until]

\* The leaf leads to the anchor through some of the other certificates of the
\* bundle, in whatever order they come, and none on the way has ended.
validate_cert_path(anchor, chain, now) ==
  \E n \in DOMAIN chain : \E path \in [1..n -> DOMAIN chain] :
    /\ path[1] = 1
    /\ \A k \in 1..(n - 1) : chain[path[k]].issuer = chain[path[k + 1]].key
    /\ chain[path[n]].issuer = anchor
    /\ \A k \in 1..n : now <= chain[path[k]].until

\* The checks in their order; a bundle without a certificate is undecodable.
verify_advertisement_cert_chain(anchor, rec, org, now) ==
  IF verify(rec, now) # "Ok" \/ ~reads_procedure_advertisement(rec) THEN "BadSignature"
  ELSE IF ~Has(rec.payload, {"cert_chain"}) THEN "Absent"
  ELSE LET chain == rec.payload.cert_chain
       IN IF chain = <<>> THEN "Undecodable"
          ELSE IF chain[1].key # rec.key THEN "KeyMismatch"
          ELSE IF ~validate_cert_path(anchor, chain, now) THEN "Untrusted"
          ELSE IF chain[1].org # org THEN "OrgMismatch"
          ELSE "Ok"

-----------------------------------------------------------------------------

Samples == {new_procedure_advertisement("K", "uri", "S", 1, 9, 0),
            new_content_announcement("K", "mcid", "endpoint", 1, 9, 0),
            WithCertChain(new_procedure_advertisement("K", "uri", "S", 1, 0, 0), <<>>)}

\* What the symbols are: no value that a record is made with is one of another type, and the
\* signature of a record is neither that nor the empty one.
SymbolsAssumption ==
  \A r \in Samples : /\ \A name \in Envelope : r[name] # Wrong
                     /\ sign(r, "K").signature \notin {NoSig, Wrong}

\* A record that is put and found is the one that was signed, and nothing of it can
\* change under its signature, its lifetime included (dht.rs canonical_unsigned,
\* verify, to_rpc_value, record_from_rpc_value).
RecordSignatureBinds ==
  \A r \in Samples :
    LET signed == sign(r, "K")
        found == records_list(<<[type |-> Wrong], to_rpc_value(signed)>>)
    IN /\ found = <<signed>>
       /\ verify(found[1], 0) = "Ok"
       /\ verify(found[1], signed.expires_at) = "Expired"
       /\ verify(record_from_rpc_value(to_rpc_value(r)), 0) = "InvalidSignature"
       /\ verify(sign(r, "L"), 0) = "InvalidSignature"
       /\ \A name \in Envelope :
            verify([n \in DOMAIN signed |-> IF n = name THEN Wrong ELSE signed[n]], 0) # "Ok"

=============================================================================
