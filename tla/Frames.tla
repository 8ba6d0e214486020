--------------------------------- MODULE Frames ---------------------------------
(***************************************************************************)
(* The application frames of src/frame.rs: what each constructor builds, what *)
(* each parser takes, and what the two signatures cover.                     *)
(*                                                                          *)
(* A frame is a Value::Map: a sequence of pairs, in which a name may come    *)
(* twice.  Values are tagged with what the parsers tell apart; the           *)
(* constructors and the parsers, functions of one shape, are tables.         *)
(***************************************************************************)
EXTENDS Integers, Sequences, SequencesExt, FiniteSets, FiniteSetsExt

CONSTANT None \* an Option that is None

-----------------------------------------------------------------------------
(* cbor::Value as frame.rs uses it.                                         *)

Null == <<"Null">>
Text(s) == <<"Text", s>>

\* The places of a name in a map, and the value get finds: the first.
Places(frame, name) == {k \in DOMAIN frame : frame[k][1] = name}
Least(S) == CHOOSE k \in S : \A j \in S : k <= j

Missing == <<"Missing">>
get(frame, name) ==
  IF Places(frame, name) = {} THEN Missing ELSE frame[Least(Places(frame, name))][2]

\* Slip: a field is pushed, whether or not the envelope has one of that name.
with_field_pushed(frame, name, value) == Append(frame, <<name, value>>)

with_field(frame, name, value) ==
  IF Places(frame, name) = {} THEN Append(frame, <<name, value>>)
  ELSE [frame EXCEPT ![Least(Places(frame, name))] = <<name, value>>]

without(frame, names) ==
  FoldLeft(LAMBDA kept, pair : IF pair[1] \in names THEN kept ELSE Append(kept, pair), <<>>, frame)

\* cbor::encode sorts the pairs, so that their order is forgotten; of two equal names
\* cbor::decode keeps one.  (Cbor is about the bytes.)
encode(frame) == {<<name, {frame[k][2] : k \in Places(frame, name)}>> :
                  name \in {frame[k][1] : k \in DOMAIN frame}}
decode(bytes) ==
  FoldSet(LAMBDA b, frame : Append(frame, <<b[1], CHOOSE v \in b[2] : TRUE>>), <<>>, bytes)

-----------------------------------------------------------------------------
(* BOLT#4 codes, src/bolt4.rs.                                              *)

CodeNames ==
  <<"ok", "unknown_next_peer", "temporary_relay_failure", "relay_disabled",
    "node_not_found_at_target_relay", "target_realm_refused", "loop_detected",
    "expiry_too_soon", "upstream_congestion", "invalid_path_header",
    "crypto_puzzle_invalid", "realm_not_authoritative_here", "tombstoned",
    "payload_too_large", "signature_invalid", "unknown_error", "unauthorized">>

code_name(code) == CodeNames[code + 1]

-----------------------------------------------------------------------------
(* Constructors.                                                            *)

\* The envelope that every frame starts with.
base(type) ==
  << <<"version", <<"Int", 2>> >>, <<"frame_type", Text(type)>>,
     <<"frame_id", <<"Bytes16", "fresh">> >>, <<"sent_at_ms", <<"Int", 1>> >>,
     <<"capabilities", <<"Int", 0>> >>, <<"realm", Null>>, <<"call_id", Null>>,
     <<"source_route", Null>> >>

\* The fields each constructor sets, in its order, and the form it sets them in.  CONNECT
\* and GOODBYE push theirs, which have no place in the envelope.
connect ==
  << <<"node_id", "b32">>, <<"station_id", "b32">>, <<"realms", "b32s">>,
     <<"addresses", "list">>, <<"site", "any?">>,
     <<"puzzle_evidence", "b32">>, <<"endorsements", "list">> >>

\* HELLO is the station's frame, with the fields parse_hello reads.
hello ==
  << <<"node_id", "b32">>, <<"station_id", "b32">>, <<"realms", "b32s">>,
     <<"capabilities", "uint">>, <<"accepted", "bool">>,
     <<"negotiated_capabilities", "uint">>, <<"refusal_code", "int?">> >>

goodbye ==
  << <<"reason", "text">>, <<"detail", "string?">> >>

call ==
  << <<"realm", "b32">>, <<"call_id", "b16">>, <<"procedure", "string">>,
     <<"payload", "any">>, <<"deadline_ms", "int">>, <<"caller", "b32">>,
     <<"source_route", "bytes">>, <<"retry_budget", "int">>,
     <<"ucan_token", "bytes">> >>

result ==
  << <<"call_id", "b16">>, <<"payload", "any">>, <<"responded_by", "b32">>,
     <<"source_route_reverse", "bytes">> >>

call_error ==
  << <<"call_id", "b16">>, <<"code", "u8">>, <<"name", "code_name">>,
     <<"reported_by", "b32">>, <<"detail", "string?">>,
     <<"offending_hop", "b32?">>, <<"source_route_partial", "bytes">> >>

publish ==
  << <<"realm", "b32">>, <<"topic", "string">>, <<"publisher", "b32">>,
     <<"seq", "uint">>, <<"payload", "any">>, <<"published_at_ms", "uint">>,
     <<"ttl_ms", "int?">> >>

subscribe ==
  << <<"realm", "b32">>, <<"topic", "string">>, <<"subscriber", "b32">>,
     <<"filter", "null">>, <<"options", "empty">> >>

unsubscribe ==
  << <<"realm", "b32">>, <<"topic", "string">>, <<"subscriber", "b32">> >>

advertise ==
  << <<"realm", "b32">>, <<"procedure", "string">>, <<"advertiser", "b32">>,
     <<"options", "empty">> >>

unadvertise ==
  << <<"realm", "b32">>, <<"procedure", "string">>,
     <<"advertiser", "b32">> >>

stream_open ==
  << <<"stream_id", "b16">>, <<"procedure", "string">>, <<"realm", "b32">>,
     <<"mode", "mode">>, <<"args", "any">>, <<"deadline_ms", "int">>,
     <<"caller", "b32">>, <<"source_route", "bytes">>,
     <<"retry_budget", "int">> >>

stream_data ==
  << <<"stream_id", "b16">>, <<"seq", "uint">>, <<"encoding", "encoding">>,
     <<"body", "any">>, <<"signer", "signer">> >>

stream_end ==
  << <<"stream_id", "b16">>, <<"role", "role">>, <<"signer", "signer">> >>

stream_error ==
  << <<"stream_id", "b16">>, <<"code", "string">>, <<"message", "string">>,
     <<"signer", "signer">> >>

stream_reply ==
  << <<"stream_id", "b16">>, <<"payload", "any">>,
     <<"responded_by", "b32">> >>

Sets ==
  [connect |-> connect, hello |-> hello, goodbye |-> goodbye, call |-> call,
   result |-> result, error |-> call_error, publish |-> publish,
   subscribe |-> subscribe, unsubscribe |-> unsubscribe, advertise |-> advertise,
   unadvertise |-> unadvertise, stream_open |-> stream_open,
   stream_data |-> stream_data, stream_end |-> stream_end,
   stream_error |-> stream_error, stream_reply |-> stream_reply]

\* The value of a field of a form: strings that Erlang has as binaries are bytes, an
\* absent option is null.
Form(form, x) ==
  CASE form = "any"             -> x
    [] form = "any?"            -> IF x = None THEN Null ELSE x
    [] form = "b16"             -> <<"Bytes16", x>>
    [] form \in {"b32", "signer"} -> <<"Bytes32", x>>
    [] form = "b32?"            -> IF x = None THEN Null ELSE <<"Bytes32", x>>
    [] form = "b32s"            -> <<"List", [k \in DOMAIN x |-> <<"Bytes32", x[k]>>]>>
    [] form = "list"            -> <<"List", x>>
    [] form = "bytes"           -> <<"Bytes", x>>
    [] form = "string"          -> <<"Utf8", x>>
    [] form = "string?"         -> IF x = None THEN Null ELSE <<"Utf8", x>>
    [] form \in {"text", "bool", "mode", "encoding", "role"} -> Text(x)
    [] form \in {"int", "uint", "u8"} -> <<"Int", x>>
    [] form = "int?"            -> IF x = None THEN Null ELSE <<"Int", x>>
    [] form = "null"            -> Null
    [] form = "empty"           -> <<"Map", <<>> >>

\* A signer is stamped only where there is one.
Set(frame, field, spec) ==
  LET name == field[1]
  IN CASE field[2] = "signer" /\ spec[name] = None -> frame
       [] field[2] = "code_name" -> with_field(frame, name, Text(code_name(spec["code"])))
       [] OTHER -> with_field(frame, name, Form(field[2], spec[name]))

\* connect, goodbye, call, result, call_error, publish, subscribe, ... of a spec.
Build(type, spec) == FoldLeft(LAMBDA f, field : Set(f, field, spec), base(type), Sets[type])

-----------------------------------------------------------------------------
(* Parsers.                                                                 *)

\* The fields each parser reads, in its order, and what it takes for each.
parse_call ==
  << <<"call_id", "b16">>, <<"procedure", "string">>, <<"realm", "b32">>,
     <<"payload", "any">>, <<"deadline_ms", "int">>, <<"caller", "b32">>,
     <<"ucan_token", "bytes!">> >>

parse_result ==
  << <<"payload", "any">>, <<"responded_by", "b32">> >>

parse_error ==
  << <<"code", "u8">>, <<"name", "text">>, <<"reported_by", "b32">>,
     <<"detail", "string?">> >>

parse_event ==
  << <<"topic", "string">>, <<"realm", "b32">>, <<"publisher", "b32">>,
     <<"seq", "uint">>, <<"payload", "any">>, <<"delivered_via", "text">> >>

parse_hello ==
  << <<"refusal_code", "int?">>, <<"node_id", "b32">>, <<"station_id", "b32">>,
     <<"realms", "b32s">>, <<"capabilities", "uint">>, <<"accepted", "bool">>,
     <<"negotiated_capabilities", "uint">> >>

parse_stream_open ==
  << <<"stream_id", "b16">>, <<"procedure", "string">>, <<"realm", "b32">>,
     <<"mode", "mode">>, <<"args", "any">>, <<"deadline_ms", "int">>,
     <<"caller", "b32">> >>

parse_stream_data ==
  << <<"stream_id", "b16">>, <<"seq", "uint">>, <<"encoding", "encoding">>,
     <<"body", "any">> >>

parse_stream_end ==
  << <<"stream_id", "b16">>, <<"role", "role">> >>

parse_stream_error ==
  << <<"stream_id", "b16">>, <<"code", "string">>,
     <<"message", "string">> >>

parse_stream_reply ==
  << <<"stream_id", "b16">>, <<"payload", "any">>,
     <<"responded_by", "b32">> >>

Reads ==
  [call |-> parse_call, result |-> parse_result, error |-> parse_error,
   event |-> parse_event, hello |-> parse_hello, stream_open |-> parse_stream_open,
   stream_data |-> parse_stream_data, stream_end |-> parse_stream_end,
   stream_error |-> parse_stream_error, stream_reply |-> parse_stream_reply]

Names == [mode     |-> {"server_stream", "client_stream", "bidi"},
          encoding |-> {"raw", "msgpack"},
          role     |-> {"send", "both"}]

\* A value is of the type a form asks for.
Takes(form, v) ==
  CASE form = "any"     -> TRUE
    [] form = "b16"     -> v[1] = "Bytes16"
    [] form = "b32"     -> v[1] = "Bytes32"
    [] form = "b32s"    -> v[1] = "List" /\ \A k \in DOMAIN v[2] : v[2][k][1] = "Bytes32"
    [] form = "string"  -> v[1] = "Utf8"
    [] form = "string?" -> v[1] \in {"Missing", "Null", "Utf8"}
    [] form = "int"     -> v[1] = "Int"
    [] form = "int?"    -> v[1] \in {"Missing", "Null", "Int"}
    [] form = "uint"    -> v[1] = "Int" /\ v[2] >= 0
    [] form = "u8"      -> v[1] = "Int" /\ v[2] \in 0..255
    [] form = "text"    -> v[1] = "Text"
    [] form = "bool"    -> v[1] = "Text" /\ v[2] \in {"true", "false"}
    [] form = "bytes!"  -> TRUE
    [] form \in {"mode", "encoding", "role"} -> v[1] = "Text" /\ v[2] \in Names[form]

\* What the parser makes of it: an absent option is None, a token of another type is
\* no token.
Taken(form, v) ==
  CASE form = "any" -> v
    [] form = "b32s" -> [k \in DOMAIN v[2] |-> v[2][k][2]]
    [] form = "bytes!" -> IF v[1] = "Bytes" THEN v[2] ELSE ""
    [] form \in {"string?", "int?"} -> IF v[1] \in {"Missing", "Null"} THEN None ELSE v[2]
    [] OTHER -> v[2]

\* The first field that does not do is the error; else the fields.
Fields(type, frame) ==
  LET reads == Reads[type]
      v(k) == get(frame, reads[k][1])
      required(k) == reads[k][2] \notin {"string?", "int?", "bytes!"}
      bad == {k \in DOMAIN reads : IF v(k) = Missing THEN required(k)
                                   ELSE ~Takes(reads[k][2], v(k))}
  IN IF bad = {}
     THEN <<"Ok", [name \in {reads[k][1] : k \in DOMAIN reads} |->
                     LET k == CHOOSE j \in DOMAIN reads : reads[j][1] = name
                     IN Taken(reads[k][2], v(k))]>>
     ELSE <<IF v(Least(bad)) = Missing THEN "MissingField" ELSE "WrongFieldType",
            reads[Least(bad)][1]>>

\* parse_call, parse_event, parse_hello, parse_stream_open; parse_call_response and
\* parse_stream_event, which take more than one frame_type.
Types == [parse_call          |-> {"call"},
          parse_event         |-> {"event"},
          parse_hello         |-> {"hello"},
          parse_stream_open   |-> {"stream_open"},
          parse_call_response |-> {"result", "error"},
          parse_stream_event  |-> {"stream_data", "stream_end", "stream_error", "stream_reply"}]

\* parse_stream_event looks for the stream_id first, the others for the frame_type.
Parse(parser, frame) ==
  LET type == get(frame, "frame_type")
      id == get(frame, "stream_id")
  IN IF parser = "parse_stream_event" /\ id = Missing THEN <<"MissingField", "stream_id">>
     ELSE IF parser = "parse_stream_event" /\ ~Takes("b16", id)
     THEN <<"WrongFieldType", "stream_id">>
     ELSE IF type[1] # "Text" \/ type[2] \notin Types[parser] THEN <<"NotThatFrame">>
     ELSE Fields(type[2], frame)

-----------------------------------------------------------------------------
(* Signatures: symbolic, they say who made them and over what.               *)

Sig(id, domain, bytes) == <<"Bytes64", [by |-> id, over |-> <<domain, bytes>>]>>

\* Slip: publisher_sig is left under the signature.
signable_bytes_whole(frame) == encode(without(frame, {"signature"}))

signable_bytes(frame) == encode(without(frame, {"signature", "publisher_sig"}))

sign(frame, id) ==
  with_field(frame, "signature", Sig(id, "macula-v2-frame", signable_bytes(frame)))

verify(frame, pubkey) ==
  LET sig == get(frame, "signature")
  IN IF sig[1] \notin {"Bytes", "Bytes16", "Bytes32", "Bytes64", "Utf8"} THEN "MissingSignature"
     ELSE IF sig[1] # "Bytes64" THEN "BadSignature"
     ELSE IF sig # Sig(pubkey, "macula-v2-frame", signable_bytes(frame)) THEN "SignatureInvalid"
     ELSE "Ok"

\* What a publisher vouches for, whatever frame it travels in; a field that is not
\* there counts as null.
publisher_signing_bytes(frame) ==
  {<<name, IF get(frame, name) = Missing THEN Null ELSE get(frame, name)>> :
     name \in {"topic", "realm", "publisher", "seq", "payload"}}

sign_publisher(frame, id) ==
  with_field(frame, "publisher_sig",
             Sig(id, "macula-v2-event-pub", publisher_signing_bytes(frame)))

verify_publisher(frame) ==
  LET sig == get(frame, "publisher_sig")
      publisher == get(frame, "publisher")
  IN IF sig[1] \notin {"Bytes", "Bytes16", "Bytes32", "Bytes64", "Utf8"}
     THEN "MissingPublisherSig"
     ELSE IF sig[1] # "Bytes64" \/ publisher[1] # "Bytes32" THEN "BadPublisherSig"
     ELSE IF sig # Sig(publisher[2], "macula-v2-event-pub", publisher_signing_bytes(frame))
     THEN "PublisherSigInvalid" ELSE "Ok"

\* What the stations make of a PUBLISH: an EVENT of their own, signed by the one that
\* delivers it, with the publisher's fields and signature in it.
relay(frame, station) ==
  sign(with_field(with_field(without(frame, {"published_at_ms", "ttl_ms"}),
                             "frame_type", Text("event")),
                  "delivered_via", Text("gossip")), station)

-----------------------------------------------------------------------------
(* Properties.                                                              *)

\* Samples of each form: without the options and with them.
Sample(form, full) ==
  CASE form \in {"any"}  -> IF full THEN <<"Map", << <<"k", Null>> >> >> ELSE Null
    [] form \in {"any?", "string?", "b32?", "int?", "signer"} /\ ~full -> None
    [] form = "any?" /\ full -> <<"Int", 7>>
    [] form = "int?" /\ full -> 9
    [] form = "int"      -> IF full THEN 9 ELSE -1
    [] form = "uint"     -> IF full THEN 9 ELSE 0
    [] form = "u8"       -> IF full THEN 16 ELSE 0
    [] form \in {"mode", "encoding", "role"} -> CHOOSE n \in Names[form] : TRUE
    [] form = "bool"     -> IF full THEN "true" ELSE "false"
    [] form = "b32s"     -> IF full THEN <<"r1", "r2">> ELSE <<>>
    [] form = "list"     -> <<>>
    [] OTHER             -> IF full THEN "long" ELSE ""

Spec(type, full) ==
  LET sets == {Sets[type][k] : k \in DOMAIN Sets[type]}
  IN [name \in {s[1] : s \in sets} |->
        Sample((CHOOSE s \in sets : s[1] = name)[2], full)]

Built == {Build(type, Spec(type, full)) : type \in DOMAIN Sets, full \in BOOLEAN}

\* What reaches the other end of the wire.
Delivered(frame) == decode(encode(frame))

\* Every frame this crate builds and signs has each field once, is verified after the
\* wire, and is taken by the parser for its type, and no other, with exactly the fields
\* of the spec it was built from (frame.rs constructors, with_field, parse_*).
RoundTrip ==
  \A type \in DOMAIN Sets, full \in BOOLEAN :
    LET spec == Spec(type, full)
        signed == sign(Build(type, spec), "K")
        frame == Delivered(signed)
    IN /\ \A name \in {signed[k][1] : k \in DOMAIN signed} : Cardinality(Places(signed, name)) = 1
       /\ verify(frame, "K") = "Ok"
       /\ \A parser \in DOMAIN Types :
            LET parsed == Parse(parser, frame)
            IN IF type \in Types[parser]
               THEN /\ parsed[1] = "Ok"
                    /\ \A name \in DOMAIN parsed[2] :
                         parsed[2][name] = IF type = "error" /\ name = "name"
                                           THEN code_name(spec["code"]) ELSE spec[name]
               ELSE parsed[1] # "Ok"

Unsigned == {"signature", "publisher_sig"}

\* Nothing of a frame can change under its signature, a publisher_sig that is put in
\* before or after apart; and a publisher_sig goes through PUBLISH to EVENT and stands
\* for the five fields that the subscriber reads, whoever delivers them
\* (frame.rs signable_bytes, verify, publisher_signing_bytes, verify_publisher).
FrameSignaturesBind ==
  /\ \A f \in Built :
       LET signed == sign(f, "K")
       IN /\ verify(sign_publisher(signed, "P"), "K") = "Ok"
          /\ verify(sign(sign_publisher(f, "P"), "K"), "K") = "Ok"
          /\ verify(signed, "L") = "SignatureInvalid"
          /\ verify(f, "K") = "MissingSignature"
          /\ \A name \in {f[k][1] : k \in DOMAIN f} \cup {"other"} :
               verify(with_field(signed, name, <<"Int", 77>>), "K") = "SignatureInvalid"
          /\ \A name \in {f[k][1] : k \in DOMAIN f} :
               verify(without(signed, {name}), "K") = "SignatureInvalid"
  /\ \A full \in BOOLEAN :
       LET news == Build("publish", [Spec("publish", full) EXCEPT !["publisher"] = "P"])
           event == Delivered(relay(sign(sign_publisher(news, "P"), "P"), "S"))
       IN /\ Parse("parse_event", event)[1] = "Ok"
          /\ verify(event, "S") = "Ok"
          /\ verify_publisher(event) = "Ok"
          /\ verify_publisher(relay(sign(sign_publisher(news, "Q"), "Q"), "S")) # "Ok"
          /\ \A name \in {"topic", "realm", "seq", "payload"} :
               verify_publisher(with_field(event, name, <<"Int", 77>>)) = "PublisherSigInvalid"

=================================================================================
