------------------------------- MODULE FrameFifo -------------------------------
(***************************************************************************)
(* What the users of a FrameStream rely on: the frames the peer sends are    *)
(* received whole, in order, each once and none passed over.  ControlStream, *)
(* Stream and ContentTransfer take this for granted; FrameStream implements  *)
(* it from the bytes that QUIC delivers.                                    *)
(***************************************************************************)
EXTENDS Naturals, Sequences

CONSTANT Frames

VARIABLES
  sent, \* the frames sent
  got   \* the frames received

vars == <<sent, got>>

Init == sent = <<>> /\ got = <<>>

Send ==
  /\ \E f \in Frames : sent' = Append(sent, f)
  /\ UNCHANGED got

Receive ==
  /\ Len(got) < Len(sent)
  /\ got' = Append(got, sent[Len(got) + 1])
  /\ UNCHANGED sent

Next == Send \/ Receive

Spec == Init /\ [][Next]_vars

===============================================================================
