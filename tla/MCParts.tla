--------------------------------- MODULE MCParts ---------------------------------
(***************************************************************************)
(* The smaller parts of the crate, each on an instance of its own: a         *)
(* behaviour is one of FrameStream, KeyFile, Advertiser or Ffi, as "part"    *)
(* says.  Frames, Records and Ucan have no state: their properties are       *)
(* evaluated in the one state of the part "codec".                           *)
(***************************************************************************)
EXTENDS FrameStream

CONSTANTS
  Absent, Never, Malformed, Wrong, NoSig,
  Keys, Paths, Tmp,
  Ttl, Interval, PutMax, Margin,
  Tasks, Handler

VARIABLES
  part,
  files, store, save_pc, saving, kept, attempted,
  session_up, routed, alive, due, age, landed, loop_pc, stop, failed,
  methods, inner, lock, queue, method, call_pc, out, frames, handler

file_vars == <<files, store, save_pc, saving, kept, attempted>>
loop_vars == <<session_up, routed, alive, due, age, landed, loop_pc, stop, failed>>
object_vars == <<methods, inner, lock, queue, method, call_pc, out, frames, handler>>

F(kind, end) == [kind |-> kind, end |-> end]

MCScripts ==
  {<<F("hello", 3), F("frame", 7), F("frame", 10)>>,
   <<F("hello", 4), F("frame", 7), F("undecodable", 10), F("frame", 13)>>,
   <<F("frame", 3), F("huge", 6), F("frame", 9)>>,
   <<F("forged", 3), F("frame", 6)>>,
   <<F("refusal", 3), F("frame", 6)>>}

File == INSTANCE KeyFile WITH pc <- save_pc

Loop == INSTANCE Advertiser WITH up <- session_up, pc <- loop_pc

Object == INSTANCE Ffi WITH None <- Absent, pc <- call_pc

Frame_ == INSTANCE Frames WITH None <- Absent
Record == INSTANCE Records WITH DefaultTtl <- 2
Token == INSTANCE Ucan

ASSUME PartsAssumption ==
  /\ File!KeyFileAssumption /\ Loop!AdvertiserAssumption /\ Object!FfiAssumption
  /\ Record!SymbolsAssumption /\ Token!UcanAssumption

PartsInit ==
  /\ part \in {"stream", "file", "loop", "object", "codec"}
  /\ Init /\ File!Init /\ Loop!Init /\ Object!Init
  /\ part # "stream" => phase = "hello" /\ script = <<F("refusal", 3), F("frame", 6)>>
  /\ part # "file" => saving = CHOOSE s \in Keys \X Paths : TRUE
  /\ part # "object" => methods = Object!FfiSession

PartsNext ==
  \/ part = "stream" /\ Next /\ UNCHANGED <<part, file_vars, loop_vars, object_vars>>
  \/ part = "file" /\ File!Next /\ UNCHANGED <<part, vars, loop_vars, object_vars>>
  \/ part = "loop" /\ Loop!Next /\ UNCHANGED <<part, vars, file_vars, object_vars>>
  \/ part = "object" /\ Object!Next /\ UNCHANGED <<part, vars, file_vars, loop_vars>>

\* A part that does not run has nothing to do that is fair.
PartsSpec ==
  /\ PartsInit /\ [][PartsNext]_<<part, vars, file_vars, loop_vars, object_vars>>
  /\ Fairness /\ Object!Fairness

\* KeyFile: what is saved is there whole or not at all (identity.rs save, load).
SaveIsAtomic == File!SaveIsAtomic

\* Advertiser: a record that is kept does not lapse, and leads to a station that lets
\* callers through (direct_dial.rs keep_advertised_direct).
KeptAdvertised == Loop!KeptAdvertised

\* Ffi: every method returns, if the other side reads (lib.rs FfiSession, FfiStream).
MethodsReturn == Object!MethodsReturn

\* Ffi: no answer of a handler that needs its own session, nothing sent after GOODBYE
\* (lib.rs serve_one_call_gated, close).
LockKept == Object!LockKept

\* Frames: what is built is what is parsed (frame.rs).
RoundTrip == part = "codec" => Frame_!RoundTrip

\* Frames, Records, Ucan: nothing can change under a signature, and a gate opens to what
\* its issuer has signed only (frame.rs, dht.rs, ucan.rs).
SignaturesBind ==
  part = "codec" =>
    Frame_!FrameSignaturesBind /\ Record!RecordSignatureBinds /\ Token!TokenHonoured

==================================================================================
