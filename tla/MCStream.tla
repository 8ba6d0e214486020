------------------------------ MODULE MCStream ------------------------------
(***************************************************************************)
(* An instance of Stream: a call that is opened and accepted.                *)
(***************************************************************************)
EXTENDS Stream

\* What the module's own documentation has either role do (stream.rs:28-56).
Roles == [caller   |-> {"send_data", "close_send", "abort", "drop", "recv", "await_reply"},
          provider |-> {"send_data", "send_reply", "abort", "drop", "recv"}]

\* STREAM_OPEN only.
Opening == [caller |-> 1, provider |-> 0]

=============================================================================
