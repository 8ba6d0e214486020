------------------------------ MODULE FrameStream ------------------------------
(***************************************************************************)
(* FrameStream and the CONNECT/HELLO handshake, src/connection.rs, with      *)
(* frame::decode of src/frame.rs: how the reading end of one QUIC stream     *)
(* makes frames of bytes.                                                   *)
(*                                                                          *)
(* Bytes are counted, not spelled: the peer's frames lie end to end, QUIC    *)
(* delivers bytes in order and in pieces of any size, and buf is what has    *)
(* been read and not yet drained.                                           *)
(***************************************************************************)
EXTENDS Naturals, Sequences, FiniteSets

CONSTANTS
  Scripts,   \* what the peer may send: sequences of frames
  Header,    \* bytes of the length prefix
  ReadChunk  \* READ_CHUNK

Kinds == {"hello", "refusal", "forged", "frame", "undecodable", "huge"}

\* A frame is of a kind and ends at an offset of the stream: each has its header
\* and at least one byte more, behind all that were sent before it.
ASSUME FrameStreamAssumption ==
  /\ Header \in Nat \ {0}
  /\ ReadChunk \in Nat \ {0}
  /\ \A s \in Scripts :
       /\ s \in Seq([kind : Kinds, end : Nat])
       /\ \A k \in DOMAIN s : s[k].end > Header
       /\ \A j, k \in DOMAIN s : j < k => s[k].end > Header + s[j].end

VARIABLES
  script,   \* the frames this peer sends, one after the other
  sent,     \* how many of them it has written
  fin,      \* it has finished its half of the stream
  up,       \* the QUIC connection is alive
  arrived,  \* bytes of the stream that quinn holds or has delivered
  taken,    \* bytes read from quinn
  consumed, \* bytes drained from buf, so that buf holds those between
  phase,    \* "hello": in connect; "session": a FrameStream; "failed": neither
  pc,       \* "reading" in the loop of recv_frame or read_one_frame
  got       \* the frames that were returned

wire == <<script, sent, fin, up, arrived>>
vars == <<wire, taken, consumed, phase, pc, got>>

\* Where frame k begins, and the offset after the last frame that was sent.
Start(k) == IF k = 1 THEN 0 ELSE script[k - 1].end
Written == IF sent = 0 THEN 0 ELSE script[sent].end

\* A control stream begins with the handshake, a dedicated stream without one.
Init ==
  /\ script \in Scripts
  /\ sent = 0
  /\ fin = FALSE
  /\ up = TRUE
  /\ arrived = 0
  /\ taken = 0
  /\ consumed = 0
  /\ phase \in {"hello", "session"}
  /\ pc = IF phase = "hello" THEN "reading" ELSE "idle"
  /\ got = <<>>

-----------------------------------------------------------------------------
(* The peer and the network.                                                *)

\* send_frame of the peer: header and body in one write.
PeerSends ==
  /\ up /\ ~fin /\ sent < Len(script)
  /\ sent' = sent + 1
  /\ UNCHANGED <<script, fin, up, arrived, taken, consumed, phase, pc, got>>

PeerFinishes ==
  /\ up /\ ~fin
  /\ fin' = TRUE
  /\ UNCHANGED <<script, sent, up, arrived, taken, consumed, phase, pc, got>>

\* Some more bytes arrive, in order.
Arrive ==
  /\ up
  /\ arrived' \in (arrived + 1)..Written
  /\ UNCHANGED <<script, sent, fin, up, taken, consumed, phase, pc, got>>

\* What has arrived can still be read.
Lose ==
  /\ up
  /\ up' = FALSE
  /\ UNCHANGED <<script, sent, fin, arrived, taken, consumed, phase, pc, got>>

-----------------------------------------------------------------------------
(* frame::decode.                                                           *)

\* The frame at the head of buf: buf is drained by whole frames, so that one
\* begins there.
AtHead == {k \in 1..Len(script) : Start(k) = consumed}

\* What decode says of buf.  A length over MAX_FRAME_BYTES is refused as soon as
\* the header is there, a body that is not CBOR once it is whole; bytes out of the
\* middle of a frame decode to nothing.
decode ==
  IF taken - consumed < Header THEN "more"
  ELSE IF AtHead = {} THEN "error"
  ELSE LET f == script[CHOOSE k \in AtHead : TRUE]
       IN IF f.kind = "huge" THEN "error"
          ELSE IF taken < f.end THEN "more"
          ELSE IF f.kind = "undecodable" THEN "error"
          ELSE "frame"

Head1 == script[CHOOSE k \in AtHead : TRUE]

-----------------------------------------------------------------------------
(* The reading end.                                                         *)

\* recv_frame or recv_frame_timeout is called.
Call ==
  /\ phase = "session" /\ pc = "idle"
  /\ pc' = "reading"
  /\ UNCHANGED <<wire, taken, consumed, phase, got>>

\* RecvStream::read: some of what has arrived, into buf.
Read ==
  /\ pc = "reading" /\ decode = "more"
  /\ taken' \in (taken + 1)..arrived
  /\ taken' - taken <= ReadChunk
  /\ UNCHANGED <<wire, consumed, phase, pc, got>>

\* recv_frame returns the frame at the head, and drains it.
Frame ==
  /\ phase = "session" /\ pc = "reading" /\ decode = "frame"
  /\ consumed' = Head1.end
  /\ got' = Append(got, Head1)
  /\ pc' = "idle"
  /\ UNCHANGED <<wire, taken, phase>>

\* recv_frame reports RecvFrameError::Decode and leaves buf as it is: so will
\* every later call.
Undecodable ==
  /\ phase = "session" /\ pc = "reading" /\ decode = "error"
  /\ pc' = "idle"
  /\ UNCHANGED <<wire, taken, consumed, phase, got>>

\* Nothing more to be had of quinn.
Drained == decode = "more" /\ taken = arrived

\* StreamClosed or Read, with what there may be of a frame still in buf.
Ended ==
  /\ phase = "session" /\ pc = "reading" /\ Drained
  /\ ~up \/ (fin /\ arrived = Written)
  /\ pc' = "idle"
  /\ UNCHANGED <<wire, taken, consumed, phase, got>>

\* Slip: the timeout drops what has been read of a frame.
Timeout_forgets ==
  /\ phase = "session" /\ pc = "reading" /\ Drained
  /\ pc' = "idle"
  /\ consumed' = taken
  /\ UNCHANGED <<wire, taken, phase, got>>

\* recv_frame_timeout: the timer is looked at only when the read has to wait.
Timeout ==
  /\ phase = "session" /\ pc = "reading" /\ Drained
  /\ pc' = "idle"
  /\ UNCHANGED <<wire, taken, consumed, phase, got>>

-----------------------------------------------------------------------------
(* The handshake: connect_inner within HANDSHAKE_TIMEOUT.                    *)

\* Slip: what was read beyond the HELLO goes with read_one_frame's own buffer.
Hello_leftover ==
  /\ phase = "hello" /\ decode = "frame" /\ Head1.kind = "hello"
  /\ got' = Append(got, Head1)
  /\ consumed' = taken
  /\ phase' = "session"
  /\ pc' = "idle"
  /\ UNCHANGED <<wire, taken>>

\* A HELLO that parses, is signed by the node_id it claims and accepts: the
\* Session begins with the bytes read beyond it.
Hello ==
  /\ phase = "hello" /\ decode = "frame" /\ Head1.kind = "hello"
  /\ got' = Append(got, Head1)
  /\ consumed' = Head1.end
  /\ phase' = "session"
  /\ pc' = "idle"
  /\ UNCHANGED <<wire, taken>>

\* UnexpectedFrameType, SignatureInvalid, Refused, Decode; StreamClosed or Read;
\* Timeout; and Transport, OpenStream and Write, before anything is read.
NoHello ==
  /\ phase = "hello"
  /\ \/ decode = "frame" /\ Head1.kind # "hello"
     \/ decode = "error"
     \/ Drained
  /\ phase' = "failed"
  /\ pc' = "idle"
  /\ UNCHANGED <<wire, taken, consumed, got>>

-----------------------------------------------------------------------------

\* One turn of the reading loop that does not depend on the clock.
Turn == Read \/ Frame \/ Undecodable \/ Ended \/ Hello

Next ==
  \/ PeerSends \/ PeerFinishes \/ Arrive \/ Lose
  \/ Call \/ Turn \/ Timeout \/ NoHello

\* QUIC retransmits until everything has arrived; the loop turns while it can; an
\* application that waits for frames calls again.
Fairness == WF_vars(Arrive) /\ WF_vars(Turn) /\ WF_vars(Call)

Spec == Init /\ [][Next]_vars
FairSpec == Spec /\ Fairness

-----------------------------------------------------------------------------
(* Properties.                                                              *)

TypeOK ==
  /\ script \in Scripts
  /\ sent \in 0..Len(script) /\ fin \in BOOLEAN /\ up \in BOOLEAN
  /\ arrived \in Nat /\ taken \in Nat /\ consumed \in Nat
  /\ phase \in {"hello", "session", "failed"} /\ pc \in {"idle", "reading"}
  /\ got \in Seq([kind : Kinds, end : Nat])

Fifo == INSTANCE FrameFifo
          WITH Frames <- UNION {{s[k] : k \in DOMAIN s} : s \in Scripts},
               sent <- SubSeq(script, 1, sent), got <- got

\* Frames are returned as FrameFifo says, however the bytes arrive, where a timeout
\* cuts a read short and whatever was read along with the HELLO (connection.rs
\* recv_frame, recv_frame_timeout, read_one_frame, with_buf).
ImplementsFifo == Fifo!Spec

Decodes(f) == f.kind \notin {"undecodable", "huge"}

\* An application that goes on reading gets every frame in front of the first that
\* does not decode, unless the connection is lost (connection.rs recv_frame).
FramesArrive ==
  \A n \in 1..4 :
    (phase = "session" /\ sent >= n /\ \A k \in 1..n : Decodes(script[k]))
      ~> (Len(got) >= n \/ ~up)

===============================================================================
