--------------------------------- MODULE KeyFile ---------------------------------
(***************************************************************************)
(* Where an identity is kept: the key file of src/identity.rs (save, load)   *)
(* and the secure stores of src/keystore.rs.                                 *)
(*                                                                          *)
(* A process saves one key at a time and may be killed between any two       *)
(* system calls; what it had written stays.  Others may load at any time.    *)
(* A file is how much of a key has been written into it, and its mode.       *)
(***************************************************************************)
EXTENDS Naturals, FiniteSets

CONSTANTS
  Keys,    \* key pairs
  Paths,   \* where keys are saved
  Tmp,     \* the temporary file next to them: they share the stem
  Absent   \* no such file, no such entry

VARIABLES
  files,     \* the file at each path
  store,     \* the seed in the platform's store
  pc,        \* the next system call of save, or "idle"
  saving,    \* the key and the path of the save that runs, or ran
  kept,      \* at each path, the key of the last save that returned Ok
  attempted  \* at each path, the keys of the saves since that did not

vars == <<files, store, pc, saving, kept, attempted>>

\* Fresh files get the umask's mode, truncated ones keep theirs.
Modes == {"umask", "0600"}
Parts == {"none", "some", "whole"}
FileTypes == [key : Keys, part : Parts, mode : Modes]

\* What the constants are.  A path that ends in .tmp is its own temporary file: what is saved
\* there is written in place, and nothing below is promised of it.
KeyFileAssumption ==
  /\ Tmp \notin Paths
  /\ Absent \notin Keys \cup FileTypes

\* Slip: the key is written where it will stay.
tmp_path_same(path) == path

\* path.with_extension("tmp").
tmp_path(path) == Tmp

Init ==
  /\ files = [p \in Paths \cup {Tmp} |-> Absent]
  /\ store = Absent
  /\ pc = "idle"
  /\ saving \in Keys \X Paths
  /\ kept = [p \in Paths |-> Absent]
  /\ attempted = [p \in Paths |-> {}]

key == saving[1]
path == saving[2]
tmp == tmp_path(path)

save(k, p) ==
  /\ pc = "idle"
  /\ pc' = "open"
  /\ saving' = <<k, p>>
  /\ attempted' = [attempted EXCEPT ![p] = @ \cup {k}]
  /\ UNCHANGED <<files, store, kept>>

\* fs::write: the file is created or truncated, ...
Open ==
  /\ pc = "open"
  /\ files' = [files EXCEPT ![tmp] = [key |-> key, part |-> "none",
                                      mode |-> IF @ = Absent THEN "umask" ELSE @.mode]]
  /\ pc' = "write"
  /\ UNCHANGED <<store, saving, kept, attempted>>

\* ... and the magic, the public key and the seed are written, in one piece or more.
Write ==
  /\ pc = "write"
  /\ \E part \in {"some", "whole"} :
       /\ files' = [files EXCEPT ![tmp].part = part]
       /\ pc' = IF part = "whole" THEN "chmod" ELSE "write"
  /\ UNCHANGED <<store, saving, kept, attempted>>

Chmod ==
  /\ pc = "chmod"
  /\ files' = [files EXCEPT ![tmp].mode = "0600"]
  /\ pc' = "rename"
  /\ UNCHANGED <<store, saving, kept, attempted>>

\* fs::rename replaces what is at path in one step.
Rename ==
  /\ pc = "rename"
  /\ files' = [f \in DOMAIN files |->
                 IF f = path THEN files[tmp] ELSE IF f = tmp THEN Absent ELSE files[f]]
  /\ pc' = "return"
  /\ UNCHANGED <<store, saving, kept, attempted>>

Return ==
  /\ pc = "return"
  /\ kept' = [kept EXCEPT ![path] = key]
  /\ attempted' = [attempted EXCEPT ![path] = {}]
  /\ pc' = "idle"
  /\ UNCHANGED <<files, store, saving>>

\* A system call fails and save returns its error, or the process is killed.
Stop ==
  /\ pc # "idle"
  /\ pc' = "idle"
  /\ UNCHANGED <<files, store, saving, kept, attempted>>

-----------------------------------------------------------------------------

\* What is read of a file at any time.  A whole file's public key is always that of
\* its seed, so that PubkeyMismatch is for files save did not write.
load(p) ==
  IF files[p] = Absent THEN "Io"
  ELSE IF files[p].part # "whole" THEN "BadKeyFile"
  ELSE files[p].key

\* KeyringStore and LinuxKeyutilsStore: set_secret overwrites, deleting what is not
\* there is no error, and whatever the backend refuses leaves the entry as it was.
save_seed(k) == pc = "idle" /\ store' = k /\ UNCHANGED <<files, pc, saving, kept, attempted>>
delete_seed == pc = "idle" /\ store' = Absent /\ UNCHANGED <<files, pc, saving, kept, attempted>>
load_seed == IF store = Absent THEN "NotFound" ELSE store

Next ==
  \/ \E k \in Keys, p \in Paths : save(k, p)
  \/ Open \/ Write \/ Chmod \/ Rename \/ Return \/ Stop
  \/ \E k \in Keys : save_seed(k)
  \/ delete_seed

Spec == Init /\ [][Next]_vars

-----------------------------------------------------------------------------

TypeOK ==
  /\ files \in [Paths \cup {Tmp} -> FileTypes \cup {Absent}]
  /\ store \in Keys \cup {Absent}
  /\ pc \in {"idle", "open", "write", "chmod", "rename", "return"}
  /\ saving \in Keys \X Paths
  /\ kept \in [Paths -> Keys \cup {Absent}]
  /\ attempted \in [Paths -> SUBSET Keys]

\* Whenever a saving process is killed, at each path there is what the last save that
\* returned has left, or the whole key of one that was cut off after it, or nothing
\* where nothing was saved: never part of a key, and never a file that others than its
\* owner may read (identity.rs save, load).
SaveIsAtomic ==
  \A p \in Paths :
    /\ load(p) \in attempted[p] \cup {IF kept[p] = Absent THEN "Io" ELSE kept[p]}
    /\ files[p] = Absent \/ files[p].mode = "0600"

==================================================================================
