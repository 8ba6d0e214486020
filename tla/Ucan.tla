---------------------------------- MODULE Ucan ----------------------------------
(***************************************************************************)
(* UCAN tokens and the policy of a gated procedure, src/ucan.rs.  A token is  *)
(* three parts, of which the last is a signature over the first two; one that *)
(* does not have them is Malformed, as the empty token is.                   *)
(***************************************************************************)
EXTENDS Integers

CONSTANTS
  Malformed, \* a token of other than three parts, or whose payload does not decode
  Never      \* no exp, or no nbf

TokenHeader == [alg |-> "EdDSA", typ |-> "JWT", ucv |-> "0.10.0"]

create(issuer, audience, capabilities, id, exp, nbf) ==
  LET payload == [iss |-> issuer, aud |-> audience, cap |-> capabilities,
                  exp |-> exp, nbf |-> nbf]
  IN [header |-> TokenHeader, payload |-> payload,
      sig |-> [by |-> id, over |-> <<TokenHeader, payload>>]]

\* decode, and with it get_issuer, get_audience, get_capabilities, get_expiration and
\* get_proofs, looks at no signature.
decode(token) == IF token = Malformed THEN "InvalidToken" ELSE token.payload

is_expired(token, now) == token.payload.exp # Never /\ now > token.payload.exp

\* The times come before the signature; a token is good in the second it expires.
verify(token, key, now) ==
  IF token = Malformed THEN "InvalidToken"
  ELSE IF is_expired(token, now) THEN "Expired"
  ELSE IF token.payload.nbf # Never /\ now < token.payload.nbf THEN "NotYetValid"
  ELSE IF token.sig # [by |-> key, over |-> <<token.header, token.payload>>]
  THEN "InvalidSignature" ELSE "Ok"

\* Policy::open and Policy::required; check is what serve_one_call asks before a handler.
open == [gated |-> FALSE]
required(issuer) == [gated |-> TRUE, issuer |-> issuer]

check(policy, token, presented, now) ==
  IF ~policy.gated THEN "Ok"
  ELSE IF ~presented THEN "NoToken"
  ELSE verify(token, policy.issuer, now)

-----------------------------------------------------------------------------

Signers == {"I", "J"}
Issued == {create(iss, "aud", "can", id, exp, nbf) :
             iss \in Signers, id \in Signers, exp \in {2, Never}, nbf \in {1, Never}}
Altered == {[t EXCEPT !.payload.exp = 9] : t \in Issued} \cup
           {[t EXCEPT !.payload.cap = "more"] : t \in Issued} \cup
           {[t EXCEPT !.header.alg = "none"] : t \in Issued}

\* No token that is issued, or made from one, is one that does not decode.
UcanAssumption == Malformed \notin Issued \cup Altered

\* A gated procedure is served exactly to those who present a token that its issuer's
\* key has signed as it stands, in the time it is good for; what the token itself says
\* of its issuer counts for nothing (ucan.rs verify, Policy::check).
TokenHonoured ==
  \A token \in Issued \cup Altered \cup {Malformed}, now \in 0..3, presented \in BOOLEAN :
    check(required("I"), token, presented, now) = "Ok" <=>
      /\ presented
      /\ token \in Issued /\ token.sig.by = "I"
      /\ now >= (IF token.payload.nbf = Never THEN 0 ELSE token.payload.nbf)
      /\ now <= (IF token.payload.exp = Never THEN 3 ELSE token.payload.exp)

=================================================================================
