--------------------------- MODULE DedicatedProofs ---------------------------
(***************************************************************************)
(* What StreamProofs shows of a stream holds of the stream that runs as a   *)
(* part of MCDedicated, for any values of the constants.                    *)
(***************************************************************************)
EXTENDS MCDedicated, TLAPS

Proved == INSTANCE StreamProofs WITH pc <- end_pc

-----------------------------------------------------------------------------
(* End, which MCDedicated runs, and Proved, which the theorems of            *)
(* StreamProofs are about, are the same specification.                      *)

\* They start alike: no handle, nothing sent, the connection up (Stream's Init).
LEMMA SameInit == End!Init => Proved!Init
BY DEF End!Init, Proved!Init, End!Ends, Proved!Ends

\* They make the same steps: the methods of StreamHandle, the relay, the loss of the connection.
LEMMA SameNext == End!Next => Proved!Next
<1>1. ASSUME NEW e, End!Methods(e)
      PROVE  Proved!Methods(e)
  BY <1>1 DEF End!Methods, Proved!Methods, End!send_data, Proved!send_data, End!close_send,
     Proved!close_send, End!send_reply, Proved!send_reply, End!abort, Proved!abort,
     End!Drop, Proved!Drop, End!recv, Proved!recv, End!await_reply, Proved!await_reply,
     End!Ready, Proved!Ready, End!StartWrite, Proved!StartWrite, End!Dropped,
     Proved!Dropped, End!Chunks, Proved!Chunks, End!Cardinality, Proved!Cardinality,
     End!Peer, Proved!Peer, End!Frame, Proved!Frame, End!Bare, Proved!Bare, End!wireVars,
     Proved!wireVars, End!endVars, Proved!endVars, End!history, Proved!history
<1>2. ASSUME NEW e, End!Progress(e)
      PROVE  Proved!Progress(e)
  BY <1>2 DEF End!Progress, Proved!Progress, End!Written, Proved!Written, End!WriteFails,
     Proved!WriteFails, End!EndWrite, Proved!EndWrite, End!Dropped, Proved!Dropped,
     End!Writing, Proved!Writing, End!Received, Proved!Received, End!ReadEnds,
     Proved!ReadEnds, End!ReadTimeout, Proved!ReadTimeout, End!Outcome, Proved!Outcome,
     End!Reading, Proved!Reading, End!Last, Proved!Last, End!Peer, Proved!Peer,
     End!wireVars, Proved!wireVars, End!endVars, Proved!endVars, End!history,
     Proved!history
<1>3. End!AcceptProgress => Proved!AcceptProgress
  BY DEF End!AcceptProgress, Proved!AcceptProgress, End!AcceptStream, Proved!AcceptStream,
     End!AcceptFails, Proved!AcceptFails, End!FirstFrame, Proved!FirstFrame,
     End!FirstFails, Proved!FirstFails, End!Dropped, Proved!Dropped, End!Peer, Proved!Peer,
     End!wireVars, Proved!wireVars, End!endVars, Proved!endVars, End!history,
     Proved!history
<1>4. End!Open \/ End!OpenBegins \/ End!Accept => Proved!Open \/ Proved!OpenBegins \/ Proved!Accept
  BY DEF End!Open, Proved!Open, End!OpenBegins, Proved!OpenBegins, End!Accept,
     Proved!Accept, End!StartWrite, Proved!StartWrite, End!Frame, Proved!Frame, End!Bare,
     Proved!Bare, End!wireVars, Proved!wireVars, End!endVars, Proved!endVars, End!history,
     Proved!history
<1>5. ASSUME NEW e, End!Unencodable(e) \/ End!Stray(e)
      PROVE  Proved!Unencodable(e) \/ Proved!Stray(e)
  BY <1>5 DEF End!Unencodable, Proved!Unencodable, End!Stray, Proved!Stray, End!EndWrite,
     Proved!EndWrite, End!Dropped, Proved!Dropped, End!Writing, Proved!Writing, End!Last,
     Proved!Last, End!Peer, Proved!Peer, End!Frame, Proved!Frame, End!Bare, Proved!Bare,
     End!wireVars, Proved!wireVars, End!endVars, Proved!endVars, End!history,
     Proved!history
<1>6. End!Lose => Proved!Lose
  BY DEF End!Lose, Proved!Lose, End!Ends, Proved!Ends, End!wireVars, Proved!wireVars,
     End!endVars, Proved!endVars, End!history, Proved!history
<1>7. QED
  BY <1>1, <1>2, <1>3, <1>4, <1>5, <1>6 DEF End!Next, Proved!Next, End!Ends, Proved!Ends

\* The constants of the run are as Stream assumes them.
LEMMA SameAssumption == Proved!StreamAssumption
BY MCAssumption DEF Proved!StreamAssumption, End!StreamAssumption, Proved!Ends, End!Ends

\* The stream behaves as Stream says: a step of a direct dial leaves it alone.
LEMMA StreamRuns == DedicatedSpec => Proved!Spec
<1>1. DedicatedInit => Proved!Init
  BY SameInit DEF DedicatedInit
<1>2. [DedicatedNext]_<<part, vars, stream_vars>> => [Proved!Next]_Proved!vars
  BY SameNext DEF DedicatedNext, stream_vars, Proved!vars, Proved!wireVars, Proved!endVars,
     Proved!history
<1>3. QED BY <1>1, <1>2, PTL DEF DedicatedSpec, Proved!Spec

-----------------------------------------------------------------------------
(* The theorems.                                                            *)

\* A receiver can tell which chunks it lacks, for any use of the two ends, any window and any
\* number of frames (StreamHandle::send_data counts before it sends; recv, await_reply).
THEOREM StreamAccounts == DedicatedSpec => []ChunksAccounted
<1>1. Proved!Spec => []Proved!ChunksAccounted
  BY SameAssumption, Proved!ChunksAreAccountedFor
<1>2. Proved!ChunksAccounted => ChunksAccounted
  BY DEF ChunksAccounted, Proved!ChunksAccounted, End!ChunksAccounted, Proved!IsChunk, End!IsChunk,
     Proved!FailedChunks, End!FailedChunks, Proved!Ends, End!Ends, Proved!Peer, End!Peer
<1>3. QED BY <1>1, <1>2, StreamRuns, PTL

\* An end that reads StreamClosed from a peer whose abort has been written has read its
\* STREAM_ERROR, in the same generality (StreamHandle::abort; recv, await_reply).
THEOREM StreamTellsAborts == DedicatedSpec => []AbortToldApart
<1>1. Proved!Spec => []Proved!AbortToldApart
  BY SameAssumption, Proved!AbortIsToldApart
<1>2. Proved!AbortToldApart => AbortToldApart
  BY DEF AbortToldApart, Proved!AbortToldApart, End!AbortToldApart, Proved!Ends, End!Ends,
     Proved!Peer, End!Peer, Proved!Last, End!Last
<1>3. QED BY <1>1, <1>2, StreamRuns, PTL

=============================================================================
