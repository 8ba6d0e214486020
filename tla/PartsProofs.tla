----------------------------- MODULE PartsProofs -----------------------------
(***************************************************************************)
(* Proofs about the parts that MCParts runs: KeyFile, Advertiser and Ffi for *)
(* any keys and paths, any times and any number of foreign tasks; Frames,    *)
(* Records and Ucan for any options, fields and signers.                     *)
(*                                                                          *)
(* FileInv follows a key from the temporary file to its path.  LoopInv counts *)
(* the time since the tick that put the last record: it is what makes the    *)
(* record outlive the ticks that fail.  ObjectInv says who may hold the lock  *)
(* of an object, and that the handler of a CALL is not among them.           *)
(*                                                                          *)
(* A frame, a record and a token are maps that have each name once (Plain).  *)
(* What a loop over one of them builds is followed element by element        *)
(* (ListFold); what a constructor sets is matched with what the parser of    *)
(* its type reads (Matches); and two maps with one signature have the same   *)
(* fields under it.                                                         *)
(***************************************************************************)
EXTENDS MCParts, SequenceTheorems, FiniteSetTheorems, WellFoundedInduction, TLAPS

-----------------------------------------------------------------------------
(* KeyFile: the key at each path is whole.                                  *)

\* The file at p is a whole key of the last save or of one that was cut off after it.
Settled(p) ==
  IF files[p] = Absent THEN kept[p] = Absent
  ELSE /\ files[p].part = "whole" /\ files[p].mode = "0600"
       /\ files[p].key \in attempted[p] \cup {kept[p]}

\* A file that holds key k, as much as its writer has written of it.
Holds(f, k) == f # Absent /\ f.key = k

\* Where save stands, and what it has behind it.
SavingInv ==
  LET k == saving[1]
      p == saving[2]
  IN /\ save_pc # "idle" => k \in attempted[p]
     /\ save_pc \in {"write", "chmod", "rename"} => Holds(files[Tmp], k)
     /\ save_pc \in {"chmod", "rename"} => files[Tmp].part = "whole"
     /\ save_pc = "rename" => files[Tmp].mode = "0600"
     /\ save_pc = "return" => Holds(files[p], k)

FileInv ==
  /\ File!TypeOK
  /\ SavingInv
  /\ \A p \in Paths : Settled(p)

\* There is no file before the first save.
LEMMA InitFile == File!Init => FileInv
<1> SUFFICES ASSUME File!Init
             PROVE  FileInv
  OBVIOUS
<1>1. File!TypeOK
  BY DEF File!Init, File!TypeOK
<1>2. SavingInv /\ \A p \in Paths : Settled(p)
  BY DEF File!Init, SavingInv, Settled
<1>3. QED BY <1>1, <1>2 DEF FileInv

\* Every system call of save leaves each path with a whole key or none (Identity::save).
LEMMA FileStep ==
  ASSUME FileInv, [File!Next]_file_vars
  PROVE  FileInv'
<1>1. /\ Tmp \notin Paths /\ Absent \notin Keys /\ Absent \notin File!FileTypes
      /\ File!TypeOK /\ SavingInv /\ \A p \in Paths : Settled(p)
  BY PartsAssumption DEF FileInv, File!KeyFileAssumption
<1>2. PICK k \in Keys, p \in Paths : saving = <<k, p>>
  BY <1>1 DEF File!TypeOK
<1>3. /\ File!key = k /\ File!path = p /\ File!tmp = Tmp
      /\ saving[1] = k /\ saving[2] = p
  BY <1>2 DEF File!key, File!path, File!tmp, File!tmp_path
<1>4. CASE UNCHANGED file_vars
  BY <1>1, <1>4 DEF file_vars, FileInv, File!TypeOK, SavingInv, Settled
<1>5. ASSUME NEW j \in Keys, NEW q \in Paths, File!save(j, q)
      PROVE  FileInv'
  BY <1>1, <1>5 DEF File!save, FileInv, File!TypeOK, SavingInv, Settled
<1>6. CASE File!Open
  <2>1. PICK f \in File!FileTypes : f.key = k /\ files' = [files EXCEPT ![Tmp] = f]
    <3> DEFINE m == IF files[Tmp] = Absent THEN "umask" ELSE files[Tmp].mode
               g == [key |-> k, part |-> "none", mode |-> m]
    <3>1. files' = [files EXCEPT ![Tmp] = g]
      BY <1>1, <1>3, <1>6 DEF File!Open, File!TypeOK
    <3>2. m \in File!Modes
      <4>1. CASE files[Tmp] = Absent
        BY <4>1 DEF File!Modes
      <4>2. CASE files[Tmp] # Absent
        <5>1. files[Tmp] \in File!FileTypes
          BY <1>1, <4>2 DEF File!TypeOK
        <5>2. files[Tmp].mode \in File!Modes
          BY <5>1 DEF File!FileTypes
        <5>3. QED BY <4>2, <5>2
      <4>3. QED BY <4>1, <4>2
    <3>3. g \in File!FileTypes
      <4> HIDE DEF m
      <4>1. QED BY <1>2, <3>2 DEF File!FileTypes, File!Parts
    <3>4. QED BY <3>1, <3>3
  <2>2. save_pc' = "write" /\ UNCHANGED <<store, saving, kept, attempted>> /\ save_pc = "open"
    BY <1>6 DEF File!Open
  <2>3. File!TypeOK'
    BY <1>1, <2>1, <2>2 DEF File!TypeOK
  <2>4. f # Absent
    BY <1>1
  <2>5. SavingInv'
    BY <1>1, <1>3, <2>1, <2>2, <2>4 DEF File!TypeOK, SavingInv, Holds
  <2>6. \A q \in Paths : Settled(q)'
    BY <1>1, <2>1, <2>2 DEF File!TypeOK, Settled
  <2>7. QED BY <2>3, <2>5, <2>6 DEF FileInv
<1>7. CASE File!Write
  <2>1. PICK part_ \in {"some", "whole"} :
          /\ files' = [files EXCEPT ![Tmp].part = part_]
          /\ save_pc' = IF part_ = "whole" THEN "chmod" ELSE "write"
    BY <1>3, <1>7 DEF File!Write
  <2>2. save_pc = "write" /\ UNCHANGED <<store, saving, kept, attempted>>
    BY <1>7 DEF File!Write
  <2>3. files[Tmp] \in File!FileTypes /\ files[Tmp].key = k
    BY <1>1, <1>3, <2>2 DEF File!TypeOK, SavingInv, Holds
  <2>4. PICK f \in File!FileTypes :
          f = [files[Tmp] EXCEPT !.part = part_] /\ f.key = k /\ f.part = part_
    <3> DEFINE g == files[Tmp]
    <3>1. g \in File!FileTypes /\ g.key = k
      BY <2>3
    <3> HIDE DEF g
    <3>2. /\ [g EXCEPT !.part = part_] \in File!FileTypes
          /\ [g EXCEPT !.part = part_].key = k /\ [g EXCEPT !.part = part_].part = part_
      BY <3>1 DEF File!FileTypes, File!Parts
    <3>3. QED BY <3>2 DEF g
  <2>5. files' = [files EXCEPT ![Tmp] = f]
    BY <2>1, <2>4
  <2>6. File!TypeOK'
    BY <1>1, <2>1, <2>2, <2>5 DEF File!TypeOK
  <2>7. f # Absent
    BY <1>1
  <2>8. SavingInv'
    BY <1>1, <1>3, <2>1, <2>2, <2>4, <2>5, <2>7 DEF File!TypeOK, SavingInv, Holds
  <2>9. \A q \in Paths : Settled(q)'
    BY <1>1, <2>2, <2>5 DEF File!TypeOK, Settled
  <2>10. QED BY <2>6, <2>8, <2>9 DEF FileInv
<1>8. CASE File!Chmod
  <2>1. /\ files' = [files EXCEPT ![Tmp].mode = "0600"] /\ save_pc' = "rename"
        /\ save_pc = "chmod" /\ UNCHANGED <<store, saving, kept, attempted>>
    BY <1>3, <1>8 DEF File!Chmod
  <2>2. files[Tmp] \in File!FileTypes /\ files[Tmp].key = k /\ files[Tmp].part = "whole"
    BY <1>1, <1>3, <2>1 DEF File!TypeOK, SavingInv, Holds
  <2>3. PICK f \in File!FileTypes :
          /\ f = [files[Tmp] EXCEPT !.mode = "0600"]
          /\ f.key = k /\ f.part = "whole" /\ f.mode = "0600"
    <3> DEFINE g == files[Tmp]
    <3>1. g \in File!FileTypes /\ g.key = k /\ g.part = "whole"
      BY <2>2
    <3> HIDE DEF g
    <3>2. /\ [g EXCEPT !.mode = "0600"] \in File!FileTypes
          /\ [g EXCEPT !.mode = "0600"].key = k /\ [g EXCEPT !.mode = "0600"].part = "whole"
          /\ [g EXCEPT !.mode = "0600"].mode = "0600"
      BY <3>1 DEF File!FileTypes, File!Modes
    <3>3. QED BY <3>2 DEF g
  <2>4. files' = [files EXCEPT ![Tmp] = f]
    BY <2>1, <2>3
  <2>5. File!TypeOK'
    BY <1>1, <2>1, <2>4 DEF File!TypeOK
  <2>6. f # Absent
    BY <1>1
  <2>7. SavingInv'
    BY <1>1, <1>3, <2>1, <2>3, <2>4, <2>6 DEF File!TypeOK, SavingInv, Holds
  <2>8. \A q \in Paths : Settled(q)'
    BY <1>1, <2>1, <2>4 DEF File!TypeOK, Settled
  <2>9. QED BY <2>5, <2>7, <2>8 DEF FileInv
<1>9. CASE File!Rename
  <2>1. /\ files' = [f \in DOMAIN files |->
                       IF f = p THEN files[Tmp] ELSE IF f = Tmp THEN Absent ELSE files[f]]
        /\ save_pc' = "return" /\ save_pc = "rename" /\ UNCHANGED <<store, saving, kept, attempted>>
    BY <1>3, <1>9 DEF File!Rename
  <2>2. /\ files[Tmp] \in File!FileTypes /\ files[Tmp].key = k /\ files[Tmp].part = "whole"
        /\ files[Tmp].mode = "0600" /\ files[Tmp] # Absent /\ k \in attempted[p]
    BY <1>1, <1>3, <2>1 DEF File!TypeOK, SavingInv, Holds
  <2>3. /\ files'[p] = files[Tmp] /\ \A q \in Paths \ {p} : files'[q] = files[q]
        /\ files' \in [Paths \cup {Tmp} -> File!FileTypes \cup {Absent}]
    BY <1>1, <2>1, <2>2 DEF File!TypeOK
  <2>4. File!TypeOK'
    BY <1>1, <2>1, <2>3 DEF File!TypeOK
  <2>5. SavingInv'
    BY <1>3, <2>1, <2>2, <2>3 DEF SavingInv, Holds
  <2>6. \A q \in Paths : Settled(q)'
    BY <1>1, <2>1, <2>2, <2>3 DEF Settled
  <2>7. QED BY <2>4, <2>5, <2>6 DEF FileInv
<1>10. CASE File!Return
  <2>1. /\ save_pc = "return" /\ save_pc' = "idle" /\ UNCHANGED <<files, store, saving>>
        /\ kept' = [kept EXCEPT ![p] = k] /\ attempted' = [attempted EXCEPT ![p] = {}]
    BY <1>3, <1>10 DEF File!Return
  <2>2. files[p] # Absent /\ files[p].key = k
    BY <1>1, <1>3, <2>1 DEF SavingInv, Holds
  <2>3. File!TypeOK'
    BY <1>1, <2>1 DEF File!TypeOK
  <2>4. \A q \in Paths : Settled(q)'
    BY <1>1, <2>1, <2>2 DEF File!TypeOK, Settled
  <2>5. QED BY <2>1, <2>3, <2>4 DEF FileInv, SavingInv
<1>11. CASE File!Stop
  BY <1>1, <1>11 DEF File!Stop, FileInv, File!TypeOK, SavingInv, Settled
<1>12. CASE File!delete_seed \/ \E j \in Keys : File!save_seed(j)
  BY <1>1, <1>12 DEF File!delete_seed, File!save_seed, FileInv, File!TypeOK, SavingInv, Settled
<1>13. QED
  BY <1>4, <1>5, <1>6, <1>7, <1>8, <1>9, <1>10, <1>11, <1>12 DEF File!Next

\* Whenever a saving process is killed, each path holds the key of the last save that returned,
\* or the whole key of one that was cut off after it, readable by its owner only
\* (Identity::save: fs::write, set_permissions, fs::rename; Identity::load).
THEOREM SavesAreAtomic == PartsSpec => []SaveIsAtomic
<1>1. PartsInit => FileInv
  BY InitFile DEF PartsInit
<1>2. FileInv /\ [PartsNext]_<<part, vars, file_vars, loop_vars, object_vars>> => FileInv'
  <2>1. [PartsNext]_<<part, vars, file_vars, loop_vars, object_vars>> => [File!Next]_file_vars
    BY DEF PartsNext
  <2>2. QED BY <2>1, FileStep
<1>3. FileInv => SaveIsAtomic
  <2> SUFFICES ASSUME FileInv, NEW p \in Paths
               PROVE  /\ File!load(p) \in
                           attempted[p] \cup {IF kept[p] = Absent THEN "Io" ELSE kept[p]}
                      /\ files[p] = Absent \/ files[p].mode = "0600"
    BY DEF SaveIsAtomic, File!SaveIsAtomic
  <2>1. Settled(p) /\ File!TypeOK /\ Absent \notin Keys /\ Absent \notin File!FileTypes
    BY PartsAssumption DEF FileInv, File!KeyFileAssumption
  <2>2. CASE files[p] = Absent
    BY <2>1, <2>2 DEF Settled, File!load
  <2>3. CASE files[p] # Absent
    <3>1. files[p] \in File!FileTypes
      BY <2>1, <2>3 DEF File!TypeOK
    <3>2. files[p].key \in Keys
      BY <3>1 DEF File!FileTypes
    <3>3. /\ File!load(p) = files[p].key /\ files[p].mode = "0600"
          /\ files[p].key \in attempted[p] \cup {kept[p]}
      BY <2>1, <2>3 DEF Settled, File!load
    <3>4. files[p].key = kept[p] => kept[p] # Absent
      BY <2>1, <3>2
    <3>5. QED BY <3>3, <3>4
  <2>4. QED BY <2>2, <2>3
<1>4. QED BY <1>1, <1>2, <1>3, PTL DEF PartsSpec

-----------------------------------------------------------------------------
(* Advertiser: the record that is kept in the DHT.                          *)

\* How old the oldest record may be when n ticks in a row have failed.
Behind(n) == n * Loop!Larger

LoopTypes ==
  /\ alive \in Int /\ age \in 0..PutMax /\ due \in Int
  /\ loop_pc \in {"select", "put", "returned"} /\ failed \in Nat

\* A record leads to the station's registration; a put starts with the schedule.
RouteInv ==
  /\ session_up /\ (alive > 0 \/ loop_pc = "put") => routed
  /\ loop_pc = "put" => age + due <= Interval

\* The record has at least what is left when the failed ticks and the time since the last
\* tick are taken off its ttl.
AgeInv ==
  /\ loop_pc = "put" /\ landed => alive >= Ttl - age
  /\ loop_pc = "put" /\ failed <= Margin => alive >= Ttl - (Behind(failed + 1) + age)
  /\ loop_pc = "select" /\ failed <= Margin =>
       alive >= Ttl - (Behind(failed) + (IF due >= 0 THEN Interval - due ELSE Loop!Larger))

LoopInv == LoopTypes /\ RouteInv /\ AgeInv

\* What the times are (keep_advertised_direct's interval, DHT_TIMEOUT).
LEMMA Times ==
  /\ Ttl \in Nat /\ PutMax \in Nat /\ Margin \in Nat /\ Interval \in Nat \ {0}
  /\ Loop!Larger \in Nat /\ Interval <= Loop!Larger /\ PutMax <= Loop!Larger
<1>1. Ttl \in Nat /\ PutMax \in Nat /\ Margin \in Nat /\ Interval \in Nat \ {0}
  BY PartsAssumption DEF Loop!AdvertiserAssumption
<1>2. QED BY <1>1 DEF Loop!Larger

\* One more failed tick is one more interval, or one more put that was waited for.
LEMMA OneMore ==
  ASSUME NEW n \in Nat
  PROVE  /\ Behind(n) \in Nat /\ Behind(n + 1) = Behind(n) + Loop!Larger
         /\ Behind(0) = 0
         /\ n <= Margin => Behind(n + 1) <= (Margin + 1) * Loop!Larger
<1> DEFINE l == Loop!Larger
<1>1. l \in Nat /\ Margin \in Nat
  BY Times
<1> HIDE DEF l
<1>2. n * l \in Nat /\ (n + 1) * l = n * l + l /\ 0 * l = 0
  BY <1>1
<1>3. ASSUME n <= Margin
      PROVE  (n + 1) * l <= (Margin + 1) * l
  <2>1. PICK d \in Nat : Margin + 1 = (n + 1) + d
    <3>1. Margin - n \in Nat /\ Margin + 1 = (n + 1) + (Margin - n)
      BY <1>1, <1>3
    <3>2. QED BY <3>1
  <2>2. (Margin + 1) * l = (n + 1) * l + d * l
    BY <1>1, <2>1
  <2>3. d * l \in Nat /\ (n + 1) * l \in Nat
    BY <1>1, <2>1
  <2>4. QED BY <2>2, <2>3
<1>4. QED BY <1>2, <1>3 DEF Behind, l

\* Before the first tick nothing is in the DHT, and nothing is promised.
LEMMA InitLoop == Loop!Init => LoopInv
<1> SUFFICES ASSUME Loop!Init
             PROVE  LoopInv
  OBVIOUS
<1>1. LoopTypes /\ RouteInv
  BY Times DEF Loop!Init, LoopTypes, RouteInv
<1>2. ~(failed <= Margin)
  BY Times DEF Loop!Init
<1>3. loop_pc = "select"
  BY DEF Loop!Init
<1>4. QED BY <1>1, <1>2, <1>3 DEF LoopInv, AgeInv

\* Every step of the loop, of its put and of the clock keeps the record's age in bounds
\* (keep_advertised_direct, advertise_direct).
LEMMA LoopStep ==
  ASSUME LoopInv, [Loop!Next]_loop_vars
  PROVE  LoopInv'
<1>1. LoopTypes /\ RouteInv /\ AgeInv
  BY DEF LoopInv
<1>2. /\ failed \in Nat /\ Behind(failed) \in Nat /\ Behind(failed + 1) \in Nat
      /\ Behind(failed + 1) = Behind(failed) + Loop!Larger
      /\ Behind(failed + 1 + 1) = Behind(failed + 1) + Loop!Larger
      /\ Behind(0) = 0 /\ Behind(0 + 1) = Loop!Larger
  <2>1. failed \in Nat /\ failed + 1 \in Nat /\ 0 \in Nat
    BY <1>1 DEF LoopTypes
  <2>2. QED BY <2>1, OneMore, Times
<1>3. CASE UNCHANGED loop_vars
  BY <1>1, <1>3 DEF loop_vars, LoopInv, LoopTypes, RouteInv, AgeInv
<1>4. CASE Loop!Tick /\ session_up
  <2>1. /\ loop_pc = "select" /\ due <= 0 /\ due' = due + Interval /\ routed' = TRUE
        /\ loop_pc' = "put" /\ age' = 0 /\ landed' = FALSE
        /\ UNCHANGED <<failed, session_up, alive, stop>>
    BY <1>4 DEF Loop!Tick
  <2>2. LoopTypes' /\ RouteInv'
    BY <1>1, <2>1, Times DEF LoopTypes, RouteInv
  <2>3. failed <= Margin => alive >= Ttl - (Behind(failed + 1) + 0)
    BY <1>1, <1>2, <2>1, Times DEF LoopTypes, AgeInv
  <2>4. AgeInv'
    BY <2>1, <2>3 DEF AgeInv
  <2>5. QED BY <2>2, <2>4 DEF LoopInv
<1>5. CASE Loop!Tick /\ ~session_up
  <2>1. /\ loop_pc = "select" /\ due <= 0 /\ due' = due + Interval
        /\ failed' = Loop!Fails(failed)
        /\ UNCHANGED <<routed, loop_pc, age, landed, session_up, alive, stop>>
    BY <1>5 DEF Loop!Tick
  <2>2. LoopTypes' /\ RouteInv'
    BY <1>1, <2>1, Times DEF LoopTypes, RouteInv, Loop!Fails
  <2>3. AgeInv'
    <3>1. CASE failed > Margin
      <4>1. failed' > Margin /\ failed' \in Nat
        BY <1>1, <2>1, <3>1, Times DEF LoopTypes, Loop!Fails
      <4>2. QED BY <2>1, <4>1, Times DEF AgeInv
    <3>2. CASE failed <= Margin
      <4>1. failed' = failed + 1
        BY <1>1, <2>1, <3>2, Times DEF LoopTypes, Loop!Fails
      <4>2. alive >= Ttl - Behind(failed + 1)
        BY <1>1, <1>2, <2>1, <3>2, Times DEF LoopTypes, AgeInv
      <4>3. alive >= Ttl - (Behind(failed + 1)
                            + (IF due' >= 0 THEN Interval - due' ELSE Loop!Larger))
        BY <1>1, <1>2, <2>1, <4>2, Times DEF LoopTypes
      <4>4. QED BY <2>1, <4>1, <4>3 DEF AgeInv
    <3>3. QED BY <1>2, <3>1, <3>2, Times
  <2>4. QED BY <2>2, <2>3 DEF LoopInv
<1>6. CASE Loop!Land
  <2>1. /\ loop_pc = "put" /\ landed' = TRUE /\ alive' = Ttl - age
        /\ UNCHANGED <<session_up, routed, due, age, loop_pc, stop, failed>>
    BY <1>6 DEF Loop!Land
  <2>2. LoopTypes' /\ RouteInv'
    BY <1>1, <2>1, Times DEF LoopTypes, RouteInv
  <2>3. Ttl - age >= Ttl - age /\ Ttl - age >= Ttl - (Behind(failed + 1) + age)
    BY <1>1, <1>2, Times DEF LoopTypes
  <2>4. AgeInv'
    BY <2>1, <2>3 DEF AgeInv
  <2>5. QED BY <2>2, <2>4 DEF LoopInv
<1>7. ASSUME NEW ok \in BOOLEAN, Loop!PutEnds(ok)
      PROVE  LoopInv'
  <2>1. /\ loop_pc = "put" /\ loop_pc' = "select" /\ (ok => landed)
        /\ failed' = IF ok THEN 0 ELSE Loop!Fails(failed)
        /\ UNCHANGED <<session_up, routed, alive, due, age, landed, stop>>
    BY <1>7 DEF Loop!PutEnds
  <2>2. LoopTypes' /\ RouteInv'
    BY <1>1, <2>1, Times DEF LoopTypes, RouteInv, Loop!Fails
  <2>3. age <= IF due >= 0 THEN Interval - due ELSE Loop!Larger
    BY <1>1, <2>1, Times DEF LoopTypes, RouteInv
  <2>4. AgeInv'
    <3>1. CASE ok
      <4>1. failed' = 0 /\ alive >= Ttl - age
        BY <1>1, <2>1, <3>1 DEF AgeInv
      <4>2. alive >= Ttl - (Behind(0) + (IF due >= 0 THEN Interval - due ELSE Loop!Larger))
        BY <1>1, <1>2, <2>3, <4>1, Times DEF LoopTypes
      <4>3. QED BY <2>1, <4>1, <4>2 DEF AgeInv
    <3>2. CASE ~ok /\ failed > Margin
      <4>1. failed' > Margin /\ failed' \in Nat
        BY <1>1, <2>1, <3>2, Times DEF LoopTypes, Loop!Fails
      <4>2. QED BY <2>1, <4>1, Times DEF AgeInv
    <3>3. CASE ~ok /\ failed <= Margin
      <4>1. failed' = failed + 1
        BY <1>1, <2>1, <3>3, Times DEF LoopTypes, Loop!Fails
      <4>2. alive >= Ttl - (Behind(failed + 1) + age)
        BY <1>1, <2>1, <3>3 DEF AgeInv
      <4>3. alive >= Ttl - (Behind(failed + 1)
                            + (IF due >= 0 THEN Interval - due ELSE Loop!Larger))
        BY <1>1, <1>2, <2>3, <4>2, Times DEF LoopTypes
      <4>4. QED BY <2>1, <4>1, <4>3 DEF AgeInv
    <3>4. QED BY <1>2, <3>1, <3>2, <3>3, Times
  <2>5. QED BY <2>2, <2>4 DEF LoopInv
<1>8. CASE Loop!Pass
  <2>1. /\ alive' = Loop!Less(alive) /\ UNCHANGED <<session_up, routed, landed, loop_pc, stop, failed>>
        /\ due' = IF loop_pc = "returned" THEN due ELSE due - 1
        /\ age' = IF loop_pc = "put" THEN age + 1 ELSE age
        /\ loop_pc = "select" => due > 0
        /\ loop_pc = "put" => age < PutMax
    BY <1>8 DEF Loop!Pass
  <2>2. alive' \in Int /\ alive' >= alive - 1 /\ (alive' > 0 => alive > 0)
    BY <1>1, <2>1 DEF LoopTypes, Loop!Less
  <2>3. LoopTypes' /\ RouteInv'
    BY <1>1, <2>1, <2>2, Times DEF LoopTypes, RouteInv
  <2>4. AgeInv'
    <3>1. CASE loop_pc = "put"
      <4>1. age' = age + 1 /\ loop_pc' = "put"
        BY <2>1, <3>1
      <4>2. landed => alive' >= Ttl - (age + 1)
        BY <1>1, <2>2, <3>1, Times DEF LoopTypes, AgeInv
      <4>3. failed <= Margin => alive' >= Ttl - (Behind(failed + 1) + (age + 1))
        BY <1>1, <1>2, <2>2, <3>1, Times DEF LoopTypes, AgeInv
      <4>4. QED BY <2>1, <4>1, <4>2, <4>3 DEF AgeInv
    <3>2. CASE loop_pc = "select"
      <4>1. due' = due - 1 /\ loop_pc' = "select"
        BY <2>1, <3>2
      <4>2. failed <= Margin =>
              alive' >= Ttl - (Behind(failed)
                               + (IF due - 1 >= 0 THEN Interval - (due - 1) ELSE Loop!Larger))
        BY <1>1, <1>2, <2>1, <2>2, <3>2, Times DEF LoopTypes, AgeInv
      <4>3. QED BY <2>1, <4>1, <4>2 DEF AgeInv
    <3>3. CASE loop_pc = "returned"
      BY <2>1, <3>3 DEF AgeInv
    <3>4. QED BY <1>1, <3>1, <3>2, <3>3 DEF LoopTypes
  <2>5. QED BY <2>3, <2>4 DEF LoopInv
<1>9. CASE Loop!Returns \/ Loop!StopResolves \/ Loop!Lose
  <2>1. /\ UNCHANGED <<alive, due, age, landed, failed>>
        /\ loop_pc' \in {loop_pc, "returned"}
        /\ \/ UNCHANGED <<session_up, routed>>
           \/ session_up' = FALSE /\ routed' = FALSE
    BY <1>9 DEF Loop!Returns, Loop!StopResolves, Loop!Lose
  <2>2. LoopTypes' /\ RouteInv'
    BY <1>1, <2>1 DEF LoopTypes, RouteInv
  <2>3. AgeInv'
    BY <1>1, <2>1 DEF AgeInv
  <2>4. QED BY <2>2, <2>3 DEF LoopInv
<1>10. QED
  BY <1>3, <1>4, <1>5, <1>6, <1>7, <1>8, <1>9 DEF Loop!Next

\* While the connection stands, who finds the record is let through by the station; while the
\* loop runs the record, once put, does not lapse through Margin failed ticks, for every ttl
\* that has room for them (direct_dial.rs advertise_direct, keep_advertised_direct).
THEOREM RecordsAreKept == PartsSpec => []KeptAdvertised
<1>1. PartsInit => LoopInv
  BY InitLoop DEF PartsInit
<1>2. LoopInv /\ [PartsNext]_<<part, vars, file_vars, loop_vars, object_vars>> => LoopInv'
  <2>1. [PartsNext]_<<part, vars, file_vars, loop_vars, object_vars>> => [Loop!Next]_loop_vars
    BY DEF PartsNext
  <2>2. QED BY <2>1, LoopStep
<1>3. LoopInv => KeptAdvertised
  <2> SUFFICES ASSUME LoopInv
               PROVE  Loop!KeptAdvertised
    BY DEF KeptAdvertised
  <2>1. LoopTypes /\ RouteInv /\ AgeInv
    BY DEF LoopInv
  <2>2. session_up /\ alive > 0 => routed
    BY <2>1 DEF RouteInv
  <2>3. ASSUME loop_pc # "returned", failed <= Margin,
               Ttl > (Margin + 1) * Loop!Larger + PutMax
        PROVE  alive > 0
    <3> DEFINE most == (Margin + 1) * Loop!Larger
    <3>1. /\ failed \in Nat /\ Behind(failed) \in Nat /\ Behind(failed + 1) \in Nat
          /\ Behind(failed + 1) = Behind(failed) + Loop!Larger /\ Behind(failed + 1) <= most
      <4>1. failed \in Nat /\ failed + 1 \in Nat
        BY <2>1 DEF LoopTypes
      <4>2. /\ Behind(failed) \in Nat /\ Behind(failed + 1) = Behind(failed) + Loop!Larger
            /\ failed <= Margin => Behind(failed + 1) <= (Margin + 1) * Loop!Larger
        BY <4>1, OneMore
      <4>3. Behind(failed + 1) \in Nat
        BY <4>1, OneMore
      <4>4. QED BY <2>3, <4>1, <4>2, <4>3
    <3>2. most \in Nat /\ Ttl > most + PutMax
      BY <2>3, Times
    <3> HIDE DEF most
    <3>3. CASE loop_pc = "put"
      <4>1. alive >= Ttl - (Behind(failed + 1) + age)
        BY <2>1, <2>3, <3>3 DEF AgeInv
      <4>2. QED BY <2>1, <3>1, <3>2, <4>1, Times DEF LoopTypes
    <3>4. CASE loop_pc = "select"
      <4>1. alive >= Ttl - (Behind(failed) + (IF due >= 0 THEN Interval - due ELSE Loop!Larger))
        BY <2>1, <2>3, <3>4 DEF AgeInv
      <4>2. QED BY <2>1, <3>1, <3>2, <4>1, Times DEF LoopTypes
    <3>5. QED BY <2>1, <2>3, <3>3, <3>4 DEF LoopTypes
  <2>4. QED BY <2>2, <2>3 DEF Loop!KeptAdvertised
<1>4. QED BY <1>1, <1>2, <1>3, PTL DEF PartsSpec

-----------------------------------------------------------------------------
(* Ffi: the lock of an object, and what is sent under it.                   *)

Callers == Object!Callers
ObjectFrames == {"frame", "reply", "goodbye"}
Outs == {"none", "Ok", "WrongByteLength", "Closed", "Send", "Failed", "UnrepresentableValue", "Recv"}

ObjectTypes ==
  /\ queue \in Seq(Callers) /\ frames \in Seq(ObjectFrames)
  /\ call_pc \in [Callers -> {"idle", "queued", "running", "waiting", "handling", "closing", "done"}]
  /\ out \in [Callers -> Outs]
  /\ lock \in Callers \cup {Absent} /\ inner \in {"some", "none"}
  /\ handler \in {"none", "running", "ended"}

Holding(t) == call_pc[t] \in {"running", "waiting", "handling", "closing"}

\* One caller at a time is past the lock, and the others wait in the queue, once each.
HoldInv == \A t \in Callers : Holding(t) <=> lock = t

QueueInv ==
  /\ \A i \in 1..Len(queue) : call_pc[queue[i]] = "queued"
  /\ \A i, j \in 1..Len(queue) : queue[i] = queue[j] => i = j

\* Who runs has found the session there; who closes it has taken it, and GOODBYE is last.
InnerInv ==
  /\ \A t \in Callers :
       /\ call_pc[t] \in {"running", "waiting", "handling"} => inner = "some"
       /\ call_pc[t] = "closing" => inner = "none"
  /\ \A k \in 1..Len(frames) : frames[k] = "goodbye" =>
       k = Len(frames) /\ inner = "none" /\ \A t \in Callers : ~Holding(t)

\* The handler waits while serve waits for it.
HandlerInv ==
  /\ handler = "none" => call_pc[Handler] = "idle" /\ out[Handler] = "none"
  /\ handler = "ended" => call_pc[Handler] \in {"idle", "done"}
  /\ \A t \in Callers : call_pc[t] = "handling" =>
       /\ t # Handler /\ handler # "none" /\ out[Handler] \in {"none", "WrongByteLength"}
       /\ call_pc[Handler] \in {"idle", "queued", "done"}
  /\ \A k \in 1..Len(frames) : frames[k] = "reply" =>
       handler = "ended" /\ out[Handler] \in {"none", "WrongByteLength"}

ObjectInv == ObjectTypes /\ HoldInv /\ QueueInv /\ InnerInv /\ HandlerInv

\* No task is the absence of one (Ffi).
LEMMA Tokens == Handler \in Callers /\ Absent \notin Callers
BY PartsAssumption DEF Object!FfiAssumption, Object!Callers, Callers

\* An object is new: nobody has called it.
LEMMA InitObject == Object!Init => ObjectInv
<1> SUFFICES ASSUME Object!Init
             PROVE  ObjectInv
  OBVIOUS
<1>1. /\ call_pc = [t \in Callers |-> "idle"] /\ out = [t \in Callers |-> "none"]
      /\ queue = <<>> /\ frames = <<>> /\ lock = Absent /\ inner = "some" /\ handler = "none"
  BY DEF Object!Init, Callers
<1>2. ObjectTypes
  BY <1>1 DEF ObjectTypes, Outs
<1>3. HoldInv /\ QueueInv
  BY <1>1, Tokens DEF HoldInv, QueueInv, Holding
<1>4. InnerInv /\ HandlerInv
  BY <1>1, Tokens DEF InnerInv, HandlerInv
<1>5. QED BY <1>2, <1>3, <1>4 DEF ObjectInv

\* Who is through drops the lock, having sent one more frame of the kind it may send
\* (the methods' operations under the lock, serve_one_call_gated, close).
LEMMA LeaveStep ==
  ASSUME ObjectInv, NEW t \in Callers, NEW result \in Outs,
         Holding(t), Object!Leave(t, result), UNCHANGED <<inner, queue, handler>>,
         \/ frames' = frames
         \/ frames' = Append(frames, "frame") /\ call_pc[t] = "running"
         \/ frames' = Append(frames, "reply") /\ call_pc[t] = "handling" /\ handler = "ended"
         \/ frames' = Append(frames, "goodbye") /\ call_pc[t] = "closing"
  PROVE  ObjectInv'
<1>1. ObjectTypes /\ HoldInv /\ QueueInv /\ InnerInv /\ HandlerInv
  BY DEF ObjectInv
<1>2. lock = t /\ \A u \in Callers : Holding(u) => u = t
  BY <1>1 DEF HoldInv
<1>3. /\ call_pc' = [call_pc EXCEPT ![t] = "done"] /\ out' = [out EXCEPT ![t] = result]
      /\ lock' = Absent
  BY <1>2 DEF Object!Leave
<1>4. /\ call_pc'[t] = "done"
      /\ \A u \in Callers \ {t} : call_pc'[u] = call_pc[u] /\ out'[u] = out[u]
      /\ \A u \in Callers : ~Holding(u)'
  BY <1>1, <1>2, <1>3 DEF ObjectTypes, Holding
<1>5. /\ \A k \in 1..Len(frames) : frames[k] # "goodbye"
      /\ \A k \in 1..Len(frames) : frames[k] = "reply" => t # Handler
  BY <1>1 DEF InnerInv, HandlerInv, Holding
<1>6. /\ frames' \in Seq(ObjectFrames)
      /\ \A k \in 1..Len(frames') :
           \/ k \in 1..Len(frames) /\ frames'[k] = frames[k]
           \/ /\ k = Len(frames')
              /\ \/ frames'[k] = "frame"
                 \/ frames'[k] = "reply" /\ call_pc[t] = "handling" /\ handler = "ended"
                 \/ frames'[k] = "goodbye" /\ call_pc[t] = "closing"
  <2>1. CASE frames' = frames
    BY <1>1, <2>1 DEF ObjectTypes
  <2>2. ASSUME NEW x \in ObjectFrames, frames' = Append(frames, x)
        PROVE  /\ frames' \in Seq(ObjectFrames) /\ Len(frames') = Len(frames) + 1
               /\ frames'[Len(frames) + 1] = x
               /\ \A k \in 1..Len(frames) : frames'[k] = frames[k]
    BY <1>1, <2>2 DEF ObjectTypes
  <2>3. Len(frames) \in Nat
    BY <1>1 DEF ObjectTypes
  <2>4. CASE frames' = Append(frames, "frame") /\ call_pc[t] = "running"
    BY <2>2, <2>3, <2>4 DEF ObjectFrames
  <2>5. CASE frames' = Append(frames, "reply") /\ call_pc[t] = "handling" /\ handler = "ended"
    BY <2>2, <2>3, <2>5 DEF ObjectFrames
  <2>6. CASE frames' = Append(frames, "goodbye") /\ call_pc[t] = "closing"
    BY <2>2, <2>3, <2>6 DEF ObjectFrames
  <2>7. QED BY <2>1, <2>4, <2>5, <2>6
<1>7. ObjectTypes'
  BY <1>1, <1>3, <1>6 DEF ObjectTypes
<1>8. HoldInv'
  BY <1>3, <1>4, Tokens DEF HoldInv
<1>9. QueueInv'
  <2>1. \A i \in 1..Len(queue) : queue[i] \in Callers /\ queue[i] # t
    BY <1>1 DEF ObjectTypes, QueueInv, Holding
  <2>2. QED BY <1>1, <1>4, <2>1 DEF QueueInv
<1>10. InnerInv'
  <2>1. \A u \in Callers : call_pc'[u] \notin {"running", "waiting", "handling", "closing"}
    BY <1>4 DEF Holding
  <2>2. ASSUME NEW k \in 1..Len(frames'), frames'[k] = "goodbye"
        PROVE  k = Len(frames') /\ inner' = "none"
    BY <1>1, <1>5, <1>6, <2>2 DEF InnerInv
  <2>3. QED BY <1>4, <2>1, <2>2 DEF InnerInv, Holding
<1>11. HandlerInv'
  <2>1. \A u \in Callers : call_pc'[u] # "handling"
    BY <1>4 DEF Holding
  <2>2. handler = "none" => t # Handler
    BY <1>1 DEF HandlerInv, Holding
  <2>3. handler = "ended" => t # Handler
    BY <1>1 DEF HandlerInv, Holding
  <2>4. t # Handler => call_pc'[Handler] = call_pc[Handler] /\ out'[Handler] = out[Handler]
    BY <1>4, Tokens
  <2>5. ASSUME NEW k \in 1..Len(frames'), frames'[k] = "reply"
        PROVE  handler = "ended" /\ out[Handler] \in {"none", "WrongByteLength"}
    BY <1>1, <1>6, <2>5 DEF HandlerInv
  <2>6. QED BY <1>1, <2>1, <2>2, <2>3, <2>4, <2>5 DEF HandlerInv
<1>12. QED BY <1>7, <1>8, <1>9, <1>10, <1>11 DEF ObjectInv

\* Every step of a method, of its caller or of the handler keeps the lock's order
\* (lib.rs FfiSession, FfiStream, FfiCallHandler).
LEMMA ObjectStep ==
  ASSUME ObjectInv, [Object!Next]_object_vars
  PROVE  ObjectInv'
<1>1. ObjectTypes /\ HoldInv /\ QueueInv /\ InnerInv /\ HandlerInv
  BY DEF ObjectInv
<1>2. Len(queue) \in Nat /\ \A i \in 1..Len(queue) : queue[i] \in Callers
  BY <1>1 DEF ObjectTypes
<1>3. CASE UNCHANGED object_vars
  BY <1>1, <1>3
  DEF object_vars, ObjectInv, ObjectTypes, HoldInv, QueueInv, InnerInv, HandlerInv, Holding
<1>4. ASSUME NEW t \in Callers, Object!Refuse(t)
      PROVE  ObjectInv'
  <2>1. /\ call_pc[t] = "idle" /\ (t = Handler => handler = "running")
        /\ call_pc' = [call_pc EXCEPT ![t] = "done"]
        /\ out' = [out EXCEPT ![t] = "WrongByteLength"]
        /\ lock' = IF lock = t THEN Absent ELSE lock
        /\ UNCHANGED <<inner, queue, frames, handler>>
    BY <1>4 DEF Object!Refuse, Object!MayCall, Object!Leave
  <2>2. lock # t
    BY <1>1, <2>1 DEF HoldInv, Holding
  <2>3. /\ call_pc'[t] = "done" /\ out'[t] = "WrongByteLength" /\ lock' = lock
        /\ \A u \in Callers \ {t} : call_pc'[u] = call_pc[u] /\ out'[u] = out[u]
        /\ \A u \in Callers : Holding(u)' <=> Holding(u)
    BY <1>1, <2>1, <2>2 DEF ObjectTypes, Holding
  <2>4. ObjectTypes'
    BY <1>1, <2>1, <2>2 DEF ObjectTypes, Outs
  <2>5. HoldInv'
    BY <1>1, <2>3 DEF HoldInv
  <2>6. QueueInv'
    <3>1. \A i \in 1..Len(queue) : queue[i] # t
      BY <1>1, <2>1 DEF QueueInv
    <3>2. QED BY <1>1, <1>2, <2>1, <2>3, <3>1 DEF QueueInv
  <2>7. InnerInv'
    BY <1>1, <2>1, <2>3 DEF InnerInv
  <2>8. HandlerInv'
    <3>1. CASE t = Handler
      BY <1>1, <2>1, <2>3, <3>1, Tokens DEF HandlerInv
    <3>2. CASE t # Handler
      <4>1. call_pc'[Handler] = call_pc[Handler] /\ out'[Handler] = out[Handler]
        BY <2>3, <3>2, Tokens
      <4>2. \A u \in Callers : call_pc'[u] = "handling" => call_pc[u] = "handling"
        BY <2>3
      <4>3. QED BY <1>1, <2>1, <4>1, <4>2 DEF HandlerInv
    <3>3. QED BY <3>1, <3>2
  <2>9. QED BY <2>4, <2>5, <2>6, <2>7, <2>8 DEF ObjectInv
<1>5. ASSUME NEW t \in Callers, Object!Enter(t)
      PROVE  ObjectInv'
  <2>1. /\ call_pc[t] = "idle" /\ (t = Handler => handler = "running")
        /\ call_pc' = [call_pc EXCEPT ![t] = "queued"] /\ queue' = Append(queue, t)
        /\ UNCHANGED <<inner, lock, out, frames, handler>>
    BY <1>5 DEF Object!Enter, Object!MayCall
  <2>2. /\ call_pc'[t] = "queued"
        /\ \A u \in Callers \ {t} : call_pc'[u] = call_pc[u]
        /\ \A u \in Callers : Holding(u)' <=> Holding(u)
    BY <1>1, <2>1 DEF ObjectTypes, Holding
  <2>3. /\ queue' \in Seq(Callers) /\ Len(queue') = Len(queue) + 1
        /\ queue'[Len(queue) + 1] = t /\ \A i \in 1..Len(queue) : queue'[i] = queue[i]
    BY <1>1, <2>1 DEF ObjectTypes
  <2>4. ObjectTypes'
    BY <1>1, <2>1, <2>3 DEF ObjectTypes
  <2>5. HoldInv'
    BY <1>1, <2>1, <2>2 DEF HoldInv
  <2>6. QueueInv'
    <3>1. \A i \in 1..Len(queue) : queue[i] # t
      BY <1>1, <2>1 DEF QueueInv
    <3>2. \A i \in 1..Len(queue') : call_pc'[queue'[i]] = "queued"
      BY <1>1, <1>2, <2>2, <2>3, <3>1 DEF QueueInv
    <3>3. \A i, j \in 1..Len(queue') : queue'[i] = queue'[j] => i = j
      BY <1>1, <1>2, <2>3, <3>1 DEF QueueInv
    <3>4. QED BY <3>2, <3>3 DEF QueueInv
  <2>7. InnerInv'
    BY <1>1, <2>1, <2>2 DEF InnerInv
  <2>8. HandlerInv'
    <3>1. CASE t = Handler
      BY <1>1, <2>1, <2>2, <3>1, Tokens DEF HandlerInv
    <3>2. CASE t # Handler
      <4>1. call_pc'[Handler] = call_pc[Handler]
        BY <2>2, <3>2, Tokens
      <4>2. \A u \in Callers : call_pc'[u] = "handling" => call_pc[u] = "handling"
        BY <2>2
      <4>3. QED BY <1>1, <2>1, <4>1, <4>2 DEF HandlerInv
    <3>3. QED BY <3>1, <3>2
  <2>9. QED BY <2>4, <2>5, <2>6, <2>7, <2>8 DEF ObjectInv
<1>6. ASSUME NEW t \in Callers, Object!Lock(t)
      PROVE  ObjectInv'
  <2>1. /\ lock = Absent /\ queue # <<>> /\ Head(queue) = t /\ queue' = Tail(queue)
        /\ UNCHANGED <<inner, frames, handler>>
    BY <1>6 DEF Object!Lock
  <2>2. /\ Len(queue) >= 1 /\ queue[1] = t /\ call_pc[t] = "queued"
        /\ queue' \in Seq(Callers) /\ Len(queue') = Len(queue) - 1
        /\ \A i \in 1..Len(queue') : queue'[i] = queue[i + 1]
    BY <1>1, <1>2, <2>1 DEF ObjectTypes, QueueInv
  <2>3. \A u \in Callers : ~Holding(u)
    BY <1>1, <2>1, Tokens DEF HoldInv
  <2>4. PICK next \in {"running", "done"}, result \in Outs :
          /\ call_pc' = [call_pc EXCEPT ![t] = next]
          /\ next = "running" => inner = "some" /\ lock' = t /\ out' = out
          /\ next = "done" => lock' = Absent /\ out' = [out EXCEPT ![t] = result]
    <3>1. CASE inner = "some"
      BY <1>6, <3>1 DEF Object!Lock, Outs
    <3>2. CASE inner # "some"
      BY <1>6, <2>1, <3>2, Tokens DEF Object!Lock, Object!Leave, Outs
    <3>3. QED BY <3>1, <3>2
  <2>5. /\ call_pc'[t] = next
        /\ \A u \in Callers \ {t} : call_pc'[u] = call_pc[u] /\ out'[u] = out[u]
    BY <1>1, <2>4 DEF ObjectTypes
  <2>6. ObjectTypes'
    BY <1>1, <2>1, <2>2, <2>4 DEF ObjectTypes
  <2>7. HoldInv'
    <3>1. \A u \in Callers \ {t} : ~Holding(u)'
      BY <2>3, <2>5 DEF Holding
    <3>2. CASE next = "running"
      BY <2>4, <2>5, <3>1, <3>2 DEF HoldInv, Holding
    <3>3. CASE next = "done"
      BY <2>4, <2>5, <3>1, <3>3, Tokens DEF HoldInv, Holding
    <3>4. QED BY <3>2, <3>3
  <2>8. QueueInv'
    <3>1. \A i \in 1..Len(queue') : i + 1 \in 1..Len(queue) /\ i + 1 # 1 /\ 1 \in 1..Len(queue)
      BY <1>2, <2>2
    <3>2. \A i \in 1..Len(queue') : queue'[i] # t /\ queue'[i] \in Callers
                                    /\ call_pc[queue'[i]] = "queued"
      BY <1>1, <1>2, <2>2, <3>1 DEF QueueInv
    <3>3. \A i, j \in 1..Len(queue') : queue'[i] = queue'[j] => i = j
      BY <1>1, <2>2, <3>1 DEF QueueInv
    <3>4. QED BY <2>5, <3>2, <3>3 DEF QueueInv
  <2>9. InnerInv'
    <3>1. \A k \in 1..Len(frames) : frames[k] = "goodbye" => next # "running"
      BY <1>1, <2>4 DEF InnerInv
    <3>2. \A u \in Callers \ {t} : ~Holding(u)'
      BY <2>3, <2>5 DEF Holding
    <3>3. next # "running" => ~Holding(t)'
      BY <2>5 DEF Holding
    <3>4. \A u \in Callers : call_pc'[u] \in {"running", "waiting", "handling"} => inner' = "some"
      BY <2>1, <2>4, <2>5, <3>2 DEF Holding
    <3>5. \A u \in Callers : call_pc'[u] # "closing"
      BY <2>5, <3>2 DEF Holding
    <3>6. QED BY <1>1, <2>1, <3>1, <3>2, <3>3, <3>4, <3>5 DEF InnerInv
  <2>10. HandlerInv'
    <3>1. \A u \in Callers : call_pc'[u] # "handling"
      BY <2>3, <2>5 DEF Holding
    <3>2. t = Handler => handler = "running"
      BY <1>1, <2>2 DEF HandlerInv, ObjectTypes
    <3>3. t # Handler => call_pc'[Handler] = call_pc[Handler] /\ out'[Handler] = out[Handler]
      BY <2>5, Tokens
    <3>4. QED BY <1>1, <2>1, <3>1, <3>2, <3>3 DEF HandlerInv
  <2>11. QED BY <2>6, <2>7, <2>8, <2>9, <2>10 DEF ObjectInv
<1>7. ASSUME NEW t \in Callers,
             Object!Send(t) \/ Object!Look(t) \/ Object!Wait(t) \/ Object!Reply(t) \/ Object!Cut(t)
               \/ Object!Goodbye(t)
      PROVE  ObjectInv'
  <2>1. PICK result \in Outs :
          /\ Holding(t) /\ Object!Leave(t, result) /\ UNCHANGED <<inner, queue, handler>>
          /\ \/ frames' = frames
             \/ frames' = Append(frames, "frame") /\ call_pc[t] = "running"
             \/ frames' = Append(frames, "reply") /\ call_pc[t] = "handling" /\ handler = "ended"
             \/ frames' = Append(frames, "goodbye") /\ call_pc[t] = "closing"
    <3>1. CASE Object!Send(t)
      BY <3>1 DEF Object!Send, Object!Runs, Holding, Outs
    <3>2. CASE Object!Look(t)
      BY <3>2 DEF Object!Look, Object!Runs, Holding, Outs
    <3>3. CASE Object!Wait(t)
      BY <3>3 DEF Object!Wait, Object!Runs, Holding, Outs
    <3>4. CASE Object!Reply(t)
      BY <3>4 DEF Object!Reply, Holding, Outs
    <3>5. CASE Object!Cut(t)
      BY <3>5 DEF Object!Cut, Holding, Outs
    <3>6. CASE Object!Goodbye(t)
      BY <3>6 DEF Object!Goodbye, Holding, Outs
    <3>7. QED BY <1>7, <3>1, <3>2, <3>3, <3>4, <3>5, <3>6
  <2>2. QED BY <2>1, LeaveStep
<1>8. ASSUME NEW t \in Callers, Object!Take(t)
      PROVE  ObjectInv'
  <2>1. /\ call_pc[t] = "running" /\ inner' = "none"
        /\ call_pc' = [call_pc EXCEPT ![t] = "closing"]
        /\ UNCHANGED <<lock, queue, out, frames, handler>>
    BY <1>8 DEF Object!Take, Object!Runs
  <2>2. /\ call_pc'[t] = "closing"
        /\ \A u \in Callers \ {t} : call_pc'[u] = call_pc[u] /\ ~Holding(u)
        /\ \A u \in Callers : Holding(u)' <=> Holding(u)
    BY <1>1, <2>1 DEF ObjectTypes, HoldInv, Holding
  <2>3. ObjectTypes'
    BY <1>1, <2>1 DEF ObjectTypes
  <2>4. HoldInv'
    BY <1>1, <2>1, <2>2 DEF HoldInv
  <2>5. QueueInv'
    <3>1. \A i \in 1..Len(queue) : queue[i] # t
      BY <1>1, <2>1 DEF QueueInv
    <3>2. QED BY <1>1, <1>2, <2>1, <2>2, <3>1 DEF QueueInv
  <2>6. InnerInv'
    <3>1. \A k \in 1..Len(frames) : frames[k] # "goodbye"
      BY <1>1, <2>1 DEF InnerInv, Holding
    <3>2. \A u \in Callers : call_pc'[u] \notin {"running", "waiting", "handling"}
      BY <2>2 DEF Holding
    <3>3. QED BY <2>1, <3>1, <3>2 DEF InnerInv
  <2>7. HandlerInv'
    <3>1. t = Handler => handler = "running"
      BY <1>1, <2>1 DEF HandlerInv, ObjectTypes
    <3>2. t # Handler => call_pc'[Handler] = call_pc[Handler]
      BY <2>2, Tokens
    <3>3. \A u \in Callers : call_pc'[u] # "handling"
      BY <2>2 DEF Holding
    <3>4. QED BY <1>1, <2>1, <3>1, <3>2, <3>3 DEF HandlerInv
  <2>8. QED BY <2>3, <2>4, <2>5, <2>6, <2>7 DEF ObjectInv
<1>9. ASSUME NEW t \in Callers, Object!Dispatch(t)
      PROVE  ObjectInv'
  <2>1. /\ call_pc[t] = "running" /\ handler = "none" /\ handler' = "running"
        /\ call_pc' = [call_pc EXCEPT ![t] = "handling"]
        /\ UNCHANGED <<inner, lock, queue, out, frames>>
    BY <1>9 DEF Object!Dispatch, Object!Runs
  <2>2. /\ call_pc'[t] = "handling"
        /\ \A u \in Callers \ {t} : call_pc'[u] = call_pc[u] /\ ~Holding(u)
        /\ \A u \in Callers : Holding(u)' <=> Holding(u)
    BY <1>1, <2>1 DEF ObjectTypes, HoldInv, Holding
  <2>3. t # Handler /\ call_pc[Handler] = "idle" /\ out[Handler] = "none"
    BY <1>1, <2>1 DEF HandlerInv
  <2>4. ObjectTypes'
    BY <1>1, <2>1 DEF ObjectTypes
  <2>5. HoldInv'
    BY <1>1, <2>1, <2>2 DEF HoldInv
  <2>6. QueueInv'
    <3>1. \A i \in 1..Len(queue) : queue[i] # t
      BY <1>1, <2>1 DEF QueueInv
    <3>2. QED BY <1>1, <1>2, <2>1, <2>2, <3>1 DEF QueueInv
  <2>7. InnerInv'
    <3>1. \A k \in 1..Len(frames) : frames[k] # "goodbye"
      BY <1>1, <2>1 DEF InnerInv, Holding
    <3>2. \A u \in Callers : call_pc'[u] # "closing"
      BY <2>2 DEF Holding
    <3>3. inner = "some"
      BY <1>1, <2>1 DEF InnerInv
    <3>4. QED BY <2>1, <3>1, <3>2, <3>3 DEF InnerInv
  <2>8. HandlerInv'
    <3>1. call_pc'[Handler] = "idle" /\ out'[Handler] = "none"
      BY <2>1, <2>2, <2>3, Tokens
    <3>2. \A u \in Callers : call_pc'[u] = "handling" => u = t
      BY <2>2 DEF Holding
    <3>3. \A k \in 1..Len(frames) : frames[k] # "reply"
      BY <1>1, <2>1 DEF HandlerInv
    <3>4. QED BY <2>1, <2>3, <3>1, <3>2, <3>3 DEF HandlerInv
  <2>9. QED BY <2>4, <2>5, <2>6, <2>7, <2>8 DEF ObjectInv
<1>10. CASE Object!HandlerEnds
  <2>1. /\ handler = "running" /\ call_pc[Handler] \in {"idle", "done"} /\ handler' = "ended"
        /\ UNCHANGED <<inner, lock, queue, call_pc, out, frames>>
    BY <1>10 DEF Object!HandlerEnds
  <2>2. ObjectTypes' /\ HoldInv' /\ QueueInv' /\ InnerInv'
    BY <1>1, <2>1 DEF ObjectTypes, HoldInv, QueueInv, InnerInv, Holding
  <2>3. HandlerInv'
    BY <1>1, <2>1 DEF HandlerInv
  <2>4. QED BY <2>2, <2>3 DEF ObjectInv
<1>11. ASSUME NEW t \in Callers, Object!Ask(t)
       PROVE  ObjectInv'
  <2>1. CASE Object!Leave(t, "Failed") /\ frames' = frames
    <3>1. Holding(t) /\ "Failed" \in Outs /\ UNCHANGED <<inner, queue, handler>>
      BY <1>11 DEF Object!Ask, Object!Runs, Holding, Outs
    <3>2. QED BY <2>1, <3>1, LeaveStep
  <2>2. CASE ~(Object!Leave(t, "Failed") /\ frames' = frames)
    <3>1. /\ call_pc[t] = "running" /\ call_pc' = [call_pc EXCEPT ![t] = "waiting"]
          /\ frames' = Append(frames, "frame")
          /\ UNCHANGED <<inner, lock, queue, out, handler>>
      BY <1>11, <2>2 DEF Object!Ask, Object!Runs
    <3>2. /\ call_pc'[t] = "waiting"
          /\ \A u \in Callers \ {t} : call_pc'[u] = call_pc[u] /\ ~Holding(u)
          /\ \A u \in Callers : Holding(u)' <=> Holding(u)
      BY <1>1, <3>1 DEF ObjectTypes, HoldInv, Holding
    <3>3. /\ frames' \in Seq(ObjectFrames) /\ Len(frames) \in Nat
          /\ Len(frames') = Len(frames) + 1
          /\ \A k \in 1..Len(frames') : frames'[k] = IF k <= Len(frames) THEN frames[k] ELSE "frame"
      BY <1>1, <3>1 DEF ObjectTypes, ObjectFrames
    <3>4. ObjectTypes'
      BY <1>1, <3>1, <3>3 DEF ObjectTypes
    <3>5. HoldInv'
      BY <1>1, <3>1, <3>2 DEF HoldInv
    <3>6. QueueInv'
      <4>1. \A i \in 1..Len(queue) : queue[i] # t
        BY <1>1, <3>1 DEF QueueInv
      <4>2. QED BY <1>1, <1>2, <3>1, <3>2, <4>1 DEF QueueInv
    <3>7. InnerInv'
      <4>1. \A k \in 1..Len(frames) : frames[k] # "goodbye"
        BY <1>1, <3>1 DEF InnerInv, Holding
      <4>2. \A k \in 1..Len(frames') : frames'[k] # "goodbye"
        BY <3>3, <4>1
      <4>3. \A u \in Callers : call_pc'[u] # "closing"
        BY <3>2 DEF Holding
      <4>4. inner' = "some"
        BY <1>1, <3>1 DEF InnerInv
      <4>5. QED BY <4>2, <4>3, <4>4 DEF InnerInv
    <3>8. HandlerInv'
      <4>1. t = Handler => handler = "running"
        BY <1>1, <3>1 DEF HandlerInv, ObjectTypes
      <4>2. t # Handler => call_pc'[Handler] = call_pc[Handler]
        BY <3>2, Tokens
      <4>3. \A u \in Callers : call_pc'[u] # "handling"
        BY <3>2 DEF Holding
      <4>4. ASSUME NEW k \in 1..Len(frames'), frames'[k] = "reply"
            PROVE  handler = "ended" /\ out[Handler] \in {"none", "WrongByteLength"}
        <5>1. k \in 1..Len(frames) /\ frames[k] = "reply"
          BY <3>3, <4>4
        <5>2. QED BY <1>1, <5>1 DEF HandlerInv
      <4>5. QED BY <1>1, <3>1, <4>1, <4>2, <4>3, <4>4 DEF HandlerInv
    <3>9. QED BY <3>4, <3>5, <3>6, <3>7, <3>8 DEF ObjectInv
  <2>3. QED BY <2>1, <2>2
<1>12. QED
  BY <1>3, <1>4, <1>5, <1>6, <1>7, <1>8, <1>9, <1>10, <1>11 DEF Object!Next, Object!Works, Callers

\* A CALL is answered only if its handler got nothing from the session that serves it, and
\* after GOODBYE, or a stream's ERROR, nothing is sent, for any number of foreign tasks
\* (lib.rs serve_one_call_gated, close, abort).
THEOREM LockIsKept == PartsSpec => []LockKept
<1>1. PartsInit => ObjectInv
  BY InitObject DEF PartsInit
<1>2. ObjectInv /\ [PartsNext]_<<part, vars, file_vars, loop_vars, object_vars>> => ObjectInv'
  <2>1. [PartsNext]_<<part, vars, file_vars, loop_vars, object_vars>>
          => [Object!Next]_object_vars
    BY DEF PartsNext
  <2>2. QED BY <2>1, ObjectStep
<1>3. ObjectInv => LockKept
  <2> SUFFICES ASSUME ObjectInv
               PROVE  Object!LockKept
    BY DEF LockKept
  <2>1. DOMAIN frames = 1..Len(frames)
    BY DEF ObjectInv, ObjectTypes
  <2>2. QED BY <2>1 DEF ObjectInv, HandlerInv, InnerInv, Object!LockKept
<1>4. QED BY <1>1, <1>2, <1>3, PTL DEF PartsSpec

-----------------------------------------------------------------------------
(* Folds over finite sets and lists.                                        *)

\* Every set of numbers has a least one.
LEMMA LeastElement ==
  ASSUME NEW T, T \subseteq Nat, T # {}
  PROVE  \E m \in T : \A k \in T : m <= k
<1> DEFINE R == OpToRel(<, Nat)
<1>1. IsWellFoundedOn(R, Nat)
  BY NatLessThanWellFounded
<1> HIDE DEF R
<1>2. PICK m \in T : \A k \in T : <<k, m>> \notin R
  BY <1>1, WFMin
<1>3. \A k \in T : ~(k < m)
  BY <1>2 DEF R, OpToRel
<1>4. QED BY <1>2, <1>3

\* ch chooses an element of every set of elements of D but the empty one.
Chooses(ch, D) == \A s \in SUBSET D : s # {} => ch[s] \in s

\* Induction over the sets a fold goes through: what holds of the empty set, and of each set
\* when it holds of the set without the element that is chosen, holds of all.
LEMMA FoldInduction ==
  ASSUME NEW D, IsFiniteSet(D), NEW ch, Chooses(ch, D), NEW P, {} \in P,
         \A s \in SUBSET D : s # {} /\ s \ {ch[s]} \in P => s \in P
  PROVE  SUBSET D \subseteq P
<1> SUFFICES ASSUME NEW x \in SUBSET D, x \notin P
             PROVE  FALSE
  OBVIOUS
<1> DEFINE T == {Cardinality(s) : s \in {y \in SUBSET D : y \notin P}}
<1>1. ASSUME NEW s \in SUBSET D
      PROVE  IsFiniteSet(s) /\ Cardinality(s) \in Nat
  BY FS_Subset, FS_CardinalityType
<1>2. T \subseteq Nat /\ T # {}
  BY <1>1
<1>3. PICK m \in T : \A k \in T : m <= k
  <2> HIDE DEF T
  <2> QED BY <1>2, LeastElement
<1>4. PICK s \in SUBSET D : s \notin P /\ Cardinality(s) = m
  BY <1>3
<1>5. s # {} /\ ch[s] \in s
  BY <1>4 DEF Chooses
<1>6. s \ {ch[s]} \in SUBSET D /\ Cardinality(s \ {ch[s]}) = Cardinality(s) - 1
  BY <1>1, <1>5, FS_RemoveElement
<1>7. s \ {ch[s]} \in P
  <2>1. ~(m <= m - 1)
    BY <1>2, <1>3
  <2>2. Cardinality(s \ {ch[s]}) \notin T
    BY <1>3, <1>4, <1>6, <2>1
  <2>3. QED BY <1>6, <2>2
<1>8. QED BY <1>4, <1>5, <1>7

\* g is what a fold with T over each set of elements of D comes to, with those that ch chooses.
Folds(g, D, ch, A, first, T) ==
  /\ g \in [SUBSET D -> A]
  /\ \A s \in SUBSET D : g[s] = IF s = {} THEN first ELSE T[<<g[s \ {ch[s]}], ch[s]>>]

\* A fold over a finite set has an outcome for each set of its elements.
LEMMA FoldExists ==
  ASSUME NEW D, IsFiniteSet(D), NEW ch, Chooses(ch, D), NEW A, NEW first \in A,
         NEW T \in [A \X D -> A]
  PROVE  \E g : Folds(g, D, ch, A, first, T)
<1> DEFINE Upto(m) == {s \in SUBSET D : Cardinality(s) <= m}
           Ok(g, m) == /\ g \in [Upto(m) -> A]
                       /\ \A s \in Upto(m) :
                            g[s] = IF s = {} THEN first ELSE T[<<g[s \ {ch[s]}], ch[s]>>]
           n == Cardinality(D)
           Bad == {m \in Nat : ~ \E g : Ok(g, m)}
<1>1. n \in Nat
  BY FS_CardinalityType
<1>2. ASSUME NEW s \in SUBSET D
      PROVE  /\ Cardinality(s) \in Nat /\ Cardinality(s) <= n
             /\ Cardinality(s) = 0 <=> s = {}
             /\ s # {} => /\ ch[s] \in D /\ s \ {ch[s]} \in SUBSET D
                          /\ Cardinality(s \ {ch[s]}) = Cardinality(s) - 1
  <2>1. IsFiniteSet(s) /\ Cardinality(s) \in Nat /\ Cardinality(s) <= n
    BY FS_Subset, FS_CardinalityType
  <2>2. Cardinality(s) = 0 <=> s = {}
    BY <2>1, FS_EmptySet
  <2>3. s # {} => /\ ch[s] \in D /\ s \ {ch[s]} \in SUBSET D
                  /\ Cardinality(s \ {ch[s]}) = Cardinality(s) - 1
    <3>1. s # {} => ch[s] \in s
      BY DEF Chooses
    <3>2. s # {} => Cardinality(s \ {ch[s]}) = Cardinality(s) - 1
      BY <2>1, <3>1, FS_RemoveElement
    <3>3. QED BY <3>1, <3>2
  <2>4. QED BY <2>1, <2>2, <2>3
<1>3. Ok([s \in Upto(0) |-> first], 0)
  <2>1. ASSUME NEW s \in Upto(0)
        PROVE  s = {}
    <3>1. s \in SUBSET D /\ Cardinality(s) <= 0
      OBVIOUS
    <3>2. Cardinality(s) \in Nat
      BY <1>2, <3>1
    <3>3. Cardinality(s) = 0
      BY <3>1, <3>2
    <3>4. QED BY <1>2, <3>1, <3>3
  <2>2. QED BY <2>1
<1>4. ASSUME NEW m \in Nat, NEW g, Ok(g, m)
      PROVE  \E f : Ok(f, m + 1)
  <2> DEFINE f == [s \in Upto(m + 1) |-> IF s \in Upto(m) THEN g[s]
                                         ELSE T[<<g[s \ {ch[s]}], ch[s]>>]]
  <2>1. ASSUME NEW s \in Upto(m + 1), s # {}
        PROVE  /\ s \ {ch[s]} \in Upto(m) /\ s \ {ch[s]} \in Upto(m + 1)
               /\ <<g[s \ {ch[s]}], ch[s]>> \in A \X D
    <3>1. s \in SUBSET D /\ Cardinality(s) <= m + 1
      OBVIOUS
    <3>2. s \ {ch[s]} \in SUBSET D /\ Cardinality(s \ {ch[s]}) = Cardinality(s) - 1 /\ ch[s] \in D
          /\ Cardinality(s) \in Nat
      BY <1>2, <2>1, <3>1
    <3>3. Cardinality(s \ {ch[s]}) <= m /\ Cardinality(s \ {ch[s]}) <= m + 1
      BY <3>1, <3>2
    <3>4. s \ {ch[s]} \in Upto(m) /\ s \ {ch[s]} \in Upto(m + 1)
      BY <3>2, <3>3
    <3>5. g[s \ {ch[s]}] \in A
      BY <1>4, <3>4
    <3>6. QED BY <3>2, <3>4, <3>5
  <2>2. {} \in Upto(m)
    <3>1. {} \in SUBSET D
      OBVIOUS
    <3>2. Cardinality({}) = 0
      BY <1>2, <3>1
    <3>3. QED BY <3>1, <3>2
  <2>3. ASSUME NEW s \in Upto(m + 1)
        PROVE  f[s] \in A /\ f[s] = IF s = {} THEN first ELSE T[<<f[s \ {ch[s]}], ch[s]>>]
    <3>1. CASE s = {}
      <4>1. f[s] = g[s] /\ g[s] = first
        BY <1>4, <2>2, <3>1
      <4>2. QED BY <3>1, <4>1
    <3>2. CASE s # {}
      <4>1. f[s \ {ch[s]}] = g[s \ {ch[s]}]
        BY <2>1, <3>2
      <4>2. f[s] = T[<<g[s \ {ch[s]}], ch[s]>>]
        <5>1. CASE s \in Upto(m)
          <6>1. g[s] = T[<<g[s \ {ch[s]}], ch[s]>>]
            BY <1>4, <3>2, <5>1
          <6>2. QED BY <5>1, <6>1
        <5>2. CASE s \notin Upto(m)
          BY <5>2
        <5>3. QED BY <5>1, <5>2
      <4>3. T[<<g[s \ {ch[s]}], ch[s]>>] \in A
        BY <2>1, <3>2
      <4> HIDE DEF f, Upto
      <4>4. QED BY <3>2, <4>1, <4>2, <4>3
    <3>3. QED BY <3>1, <3>2
  <2>4. f = [s \in Upto(m + 1) |-> f[s]]
    OBVIOUS
  <2>5. Ok(f, m + 1)
    <3> HIDE DEF f, Upto
    <3> QED BY <2>3, <2>4
  <2> HIDE DEF f, Ok
  <2>6. QED BY <2>5
<1>5. Bad = {}
  <2> SUFFICES ASSUME Bad # {}
               PROVE  FALSE
    OBVIOUS
  <2>1. Bad \subseteq Nat
    OBVIOUS
  <2>2. PICK m \in Bad : \A k \in Bad : m <= k
    <3> HIDE DEF Bad
    <3> QED BY <2>1, LeastElement
  <2> HIDE DEF Ok
  <2>3. m # 0
    BY <1>3, <2>2
  <2>4. m - 1 \in Nat /\ (m - 1) + 1 = m /\ ~(m <= m - 1)
    BY <2>3
  <2>5. m - 1 \notin Bad
    BY <2>2, <2>4
  <2>6. PICK g : Ok(g, m - 1)
    BY <2>4, <2>5
  <2>7. \E f : Ok(f, (m - 1) + 1)
    BY <1>4, <2>4, <2>6
  <2>8. QED BY <2>4, <2>7
<1>6. PICK g : Ok(g, n)
  <2> HIDE DEF Ok
  <2> QED BY <1>1, <1>5
<1>7. Upto(n) = SUBSET D
  BY <1>2
<1>8. Folds(g, D, ch, A, first, T)
  <2> HIDE DEF Upto, n
  <2> QED BY <1>6, <1>7 DEF Folds
<1>9. QED BY <1>8

\* A fold over a list takes the last place of those that are left.
Top(S) == CHOOSE x \in S : \A y \in S : x >= y

\* There is a last place of any that are left, and taking it off the first k leaves the first
\* k - 1: the fold over the first k of a list is one step from that over the first k - 1
\* (the loops over the pairs of a frame, frame.rs Value::without).
LEMMA TopOf ==
  ASSUME NEW n \in Nat
  PROVE  /\ Chooses([s \in SUBSET (1..n) |-> Top(s)], 1..n)
         /\ \A k \in 1..n : Top(1..k) = k /\ (1..k) \ {k} = 1..(k - 1)
<1>1. ASSUME NEW s \in SUBSET (1..n), s # {}
      PROVE  Top(s) \in s
  <2> DEFINE T == {n - x : x \in s}
  <2>1. T \subseteq Nat /\ T # {}
    <3>1. \A x \in s : n - x \in Nat
      OBVIOUS
    <3>2. T \subseteq Nat
      BY <3>1
    <3>3. PICK x \in s : TRUE
      BY <1>1
    <3>4. n - x \in T
      OBVIOUS
    <3>5. QED BY <3>2, <3>4
  <2>2. PICK m \in T : \A k \in T : m <= k
    <3> HIDE DEF T
    <3> QED BY <2>1, LeastElement
  <2>3. PICK x \in s : m = n - x
    BY <2>2
  <2>4. ASSUME NEW y \in s
        PROVE  x >= y
    <3>1. n - x <= n - y
      BY <2>2, <2>3
    <3>2. x \in 1..n /\ y \in 1..n
      OBVIOUS
    <3>3. QED BY <3>1, <3>2
  <2>5. \E z \in s : \A y \in s : z >= y
    BY <2>4
  <2>6. QED BY <2>5 DEF Top
<1>2. ASSUME NEW k \in 1..n
      PROVE  Top(1..k) = k /\ (1..k) \ {k} = 1..(k - 1)
  <2>1. k \in 1..k /\ \A y \in 1..k : k >= y
    OBVIOUS
  <2>2. \A x \in 1..k : (\A y \in 1..k : x >= y) => x = k
    BY <2>1
  <2>3. QED BY <2>1, <2>2 DEF Top
<1>3. QED BY <1>1, <1>2 DEF Chooses

-----------------------------------------------------------------------------
(* Frames: maps that have each name once.                                   *)

\* A list of anything; f is a map with each name once.
NamesIn(f) == {f[k][1] : k \in DOMAIN f}
Plain(f) ==
  /\ Len(f) \in Nat /\ f \in Seq({f[k] : k \in 1..Len(f)})
  /\ \A j, k \in 1..Len(f) : f[j][1] = f[k][1] => j = k

\* A list is plain when it is a list.
LEMMA PlainBy ==
  ASSUME NEW V, NEW f \in Seq(V), \A j, k \in 1..Len(f) : f[j][1] = f[k][1] => j = k
  PROVE  Plain(f)
<1> DEFINE n == Len(f)
<1>1. n \in Nat /\ f \in [1..n -> V]
  OBVIOUS
<1> HIDE DEF n
<1>2. f = [k \in 1..n |-> f[k]]
  BY <1>1
<1>3. [k \in 1..n |-> f[k]] \in Seq({f[k] : k \in 1..n})
  <2>1. [k \in 1..n |-> f[k]] \in [1..n -> {f[k] : k \in 1..n}]
    OBVIOUS
  <2>2. QED BY <1>1, <2>1
<1>4. f \in Seq({f[k] : k \in 1..n})
  BY <1>2, <1>3, Zenon
<1>5. QED BY <1>1, <1>4 DEF Plain, n

\* get finds the one value of a name (cbor.rs get).
LEMMA GetIs ==
  ASSUME NEW f, Plain(f)
  PROVE  /\ DOMAIN f = 1..Len(f)
         /\ \A k \in 1..Len(f) : /\ Frame_!Places(f, f[k][1]) = {k}
                                 /\ Frame_!get(f, f[k][1]) = f[k][2]
         /\ \A name : name \in NamesIn(f) <=> Frame_!Places(f, name) # {}
         /\ \A name : name \notin NamesIn(f) => Frame_!get(f, name) = Frame_!Missing
<1>1. DOMAIN f = 1..Len(f)
  BY DEF Plain
<1>2. ASSUME NEW k \in 1..Len(f)
      PROVE  /\ Frame_!Places(f, f[k][1]) = {k}
             /\ Frame_!get(f, f[k][1]) = f[k][2]
  <2>1. Frame_!Places(f, f[k][1]) = {k}
    BY <1>1 DEF Plain, Frame_!Places
  <2>2. Frame_!Least({k}) = k
    <3>1. k \in Int
      BY DEF Plain
    <3>2. \A j \in {k} : k <= j
      BY <3>1
    <3>3. QED BY <3>2 DEF Frame_!Least
  <2>3. QED BY <2>1, <2>2 DEF Frame_!get
<1>3. \A name : name \in NamesIn(f) <=> Frame_!Places(f, name) # {}
  BY DEF NamesIn, Frame_!Places
<1>4. \A name : name \notin NamesIn(f) => Frame_!get(f, name) = Frame_!Missing
  BY <1>3 DEF Frame_!get
<1>5. QED BY <1>1, <1>2, <1>3, <1>4

\* What of a plain map goes to the wire (frame.rs encode).
LEMMA EncodeIs ==
  ASSUME NEW f, Plain(f)
  PROVE  Frame_!encode(f) = {<<name, {Frame_!get(f, name)}>> : name \in NamesIn(f)}
<1>1. ASSUME NEW name \in NamesIn(f)
      PROVE  {f[k][2] : k \in Frame_!Places(f, name)} = {Frame_!get(f, name)}
  <2>1. PICK k \in DOMAIN f : name = f[k][1]
    BY DEF NamesIn
  <2>2. Frame_!Places(f, name) = {k} /\ Frame_!get(f, name) = f[k][2]
    BY <2>1, GetIs
  <2>3. QED BY <2>2
<1>2. Frame_!encode(f) = {<<name, {f[k][2] : k \in Frame_!Places(f, name)}>> : name \in NamesIn(f)}
  BY DEF Frame_!encode, NamesIn
<1>3. QED BY <1>1, <1>2

\* with_field sets one field and leaves the others (frame.rs with_field).
LEMMA WithFieldIs ==
  ASSUME NEW f, Plain(f), NEW name, NEW value
  PROVE  LET g == Frame_!with_field(f, name, value)
         IN /\ Plain(g)
            /\ NamesIn(g) = NamesIn(f) \cup {name}
            /\ Frame_!get(g, name) = value
            /\ \A other : other # name => Frame_!get(g, other) = Frame_!get(f, other)
<1> DEFINE g == Frame_!with_field(f, name, value)
           V == {f[k] : k \in 1..Len(f)}
           n == Len(f)
           pair == <<name, value>>
<1>1. n \in Nat /\ f \in Seq(V) /\ DOMAIN f = 1..n
  BY DEF Plain
<1>2. CASE name \notin NamesIn(f)
  <2>1. g = Append(f, pair)
    BY <1>2, GetIs DEF Frame_!with_field
  <2> HIDE DEF g, V, pair
  <2>2. g \in Seq(V \cup {pair}) /\ Len(g) = n + 1 /\ g[n + 1] = pair
        /\ \A k \in 1..n : g[k] = f[k]
    BY <1>1, <2>1
  <2>3. \A k \in 1..n : f[k][1] # name
    BY <1>1, <1>2 DEF NamesIn
  <2>4. ASSUME NEW j \in 1..Len(g), NEW k \in 1..Len(g), g[j][1] = g[k][1]
        PROVE  j = k
    <3>1. (j \in 1..n \/ j = n + 1) /\ (k \in 1..n \/ k = n + 1)
      BY <1>1, <2>2
    <3>2. g[n + 1][1] = name
      BY <2>2 DEF pair
    <3>3. QED BY <2>2, <2>3, <2>4, <3>1, <3>2 DEF Plain
  <2>5. Plain(g)
    BY <2>2, <2>4, PlainBy
  <2>6. DOMAIN g = 1..(n + 1)
    BY <2>2
  <2>7. NamesIn(g) = NamesIn(f) \cup {name}
    <3>1. \A k \in 1..(n + 1) : k \in 1..n \/ k = n + 1
      BY <1>1
    <3>2. 1..n \subseteq 1..(n + 1) /\ n + 1 \in 1..(n + 1)
      BY <1>1
    <3>3. QED BY <1>1, <2>2, <2>6, <3>1, <3>2 DEF NamesIn, pair
  <2>8. Frame_!get(g, name) = value
    <3>1. n + 1 \in 1..Len(g) /\ g[n + 1][1] = name /\ g[n + 1][2] = value
      BY <1>1, <2>2 DEF pair
    <3>2. QED BY <2>5, <3>1, GetIs
  <2>9. ASSUME NEW other, other # name
        PROVE  Frame_!get(g, other) = Frame_!get(f, other)
    <3>1. CASE other \in NamesIn(f)
      <4>1. PICK k \in 1..n : other = f[k][1]
        BY <1>1, <3>1 DEF NamesIn
      <4>2. k \in 1..Len(g) /\ g[k] = f[k]
        BY <1>1, <2>2
      <4>3. Frame_!get(f, other) = f[k][2]
        BY <4>1, GetIs
      <4>4. Frame_!get(g, other) = g[k][2]
        BY <2>5, <4>1, <4>2, GetIs
      <4>5. QED BY <4>2, <4>3, <4>4
    <3>2. CASE other \notin NamesIn(f)
      <4>1. other \notin NamesIn(g)
        BY <2>7, <2>9, <3>2
      <4>2. QED BY <2>5, <3>2, <4>1, GetIs
    <3>3. QED BY <3>1, <3>2
  <2>10. QED BY <2>5, <2>7, <2>8, <2>9 DEF g
<1>3. CASE name \in NamesIn(f)
  <2>1. PICK i \in 1..n : name = f[i][1]
    BY <1>1, <1>3 DEF NamesIn
  <2>2. Frame_!Places(f, name) = {i}
    BY <2>1, GetIs
  <2>3. Frame_!Least({i}) = i
    <3>1. i \in Int
      BY <1>1
    <3>2. \A j \in {i} : i <= j
      BY <3>1
    <3>3. QED BY <3>2 DEF Frame_!Least
  <2>4. g = [f EXCEPT ![i] = pair]
    BY <2>2, <2>3 DEF Frame_!with_field
  <2> HIDE DEF g, V, pair
  <2>5. g \in Seq(V \cup {pair}) /\ Len(g) = n /\ g[i] = pair
        /\ \A k \in 1..n : k # i => g[k] = f[k]
    <3>1. f \in [1..n -> V]
      BY <1>1
    <3>2. g \in [1..n -> V \cup {pair}]
      BY <2>4, <3>1
    <3>3. g \in Seq(V \cup {pair}) /\ Len(g) = n
      BY <1>1, <3>2
    <3>4. QED BY <1>1, <2>4, <3>3
  <2>6. \A k \in 1..n : g[k][1] = f[k][1]
    BY <2>1, <2>5 DEF pair
  <2>7. Plain(g)
    <3>1. \A j, k \in 1..Len(g) : g[j][1] = g[k][1] => j = k
      BY <2>5, <2>6 DEF Plain
    <3>2. QED BY <2>5, <3>1, PlainBy
  <2>8. NamesIn(g) = NamesIn(f) \cup {name}
    <3>1. DOMAIN g = 1..n
      BY <2>5
    <3>2. NamesIn(g) = NamesIn(f)
      BY <1>1, <2>6, <3>1 DEF NamesIn
    <3>3. QED BY <1>3, <3>2
  <2>9. Frame_!get(g, name) = value
    <3>1. i \in 1..Len(g) /\ g[i][1] = name /\ g[i][2] = value
      BY <2>5 DEF pair
    <3>2. QED BY <2>7, <3>1, GetIs
  <2>10. ASSUME NEW other, other # name
         PROVE  Frame_!get(g, other) = Frame_!get(f, other)
    <3>1. CASE other \in NamesIn(f)
      <4>1. PICK k \in 1..n : other = f[k][1]
        BY <1>1, <3>1 DEF NamesIn
      <4>2. k \in 1..Len(g) /\ g[k] = f[k]
        BY <2>1, <2>5, <2>10, <4>1
      <4>3. Frame_!get(f, other) = f[k][2]
        BY <4>1, GetIs
      <4>4. Frame_!get(g, other) = g[k][2]
        BY <2>7, <4>1, <4>2, GetIs
      <4>5. QED BY <4>2, <4>3, <4>4
    <3>2. CASE other \notin NamesIn(f)
      <4>1. other \notin NamesIn(g)
        BY <2>8, <2>10, <3>2
      <4>2. QED BY <2>7, <3>2, <4>1, GetIs
    <3>3. QED BY <3>1, <3>2
  <2>11. QED BY <2>7, <2>8, <2>9, <2>10 DEF g
<1>4. QED BY <1>2, <1>3

\* without goes through the fields in their order (cbor.rs Value::without).
LEMMA WithoutSteps ==
  ASSUME NEW f, Plain(f), NEW names
  PROVE  \E w : /\ w[0] = <<>>
                /\ \A k \in 1..Len(f) :
                     w[k] = IF f[k][1] \in names THEN w[k - 1] ELSE Append(w[k - 1], f[k])
                /\ Frame_!without(f, names) = w[Len(f)]
<1> DEFINE n == Len(f)
           D == 1..n
           V == {f[k] : k \in 1..n}
           A == Seq(V)
           Op(a, k) == IF f[k][1] \in names THEN a ELSE Append(a, f[k])
           T == [p \in A \X D |-> Op(p[1], p[2])]
           ch == [s \in SUBSET D |-> Top(s)]
           Defines(g) == g = [s \in SUBSET D |-> IF s = {} THEN <<>> ELSE Op(g[s \ {Top(s)}], Top(s))]
           it == CHOOSE g : Defines(g)
<1>1. n \in Nat /\ DOMAIN f = D
  BY DEF Plain
<1>2. Frame_!without(f, names) = it[D]
  BY <1>1 DEF Frame_!without, Frame_!FoldLeft, Frame_!MapThenFoldSet, Frame_!Max, Top
<1>3. Chooses(ch, D) /\ \A k \in 1..n : Top(1..k) = k /\ (1..k) \ {k} = 1..(k - 1)
  BY <1>1, TopOf
<1>4. IsFiniteSet(D)
  BY <1>1, FS_Interval
<1>5. T \in [A \X D -> A] /\ <<>> \in A
  OBVIOUS
<1> HIDE DEF it
<1>6. \E g : Defines(g)
  <2>0. \A s \in SUBSET D : ch[s] = Top(s)
    OBVIOUS
  <2> HIDE DEF A, T, D, ch
  <2>10. PICK g : Folds(g, D, ch, A, <<>>, T)
    BY <1>3, <1>4, <1>5, FoldExists
  <2>1. g \in [SUBSET D -> A] /\
        \A s \in SUBSET D : g[s] = IF s = {} THEN <<>> ELSE T[<<g[s \ {ch[s]}], ch[s]>>]
    BY <2>10 DEF Folds
  <2>2. \A s \in SUBSET D : g[s] = IF s = {} THEN <<>> ELSE Op(g[s \ {Top(s)}], Top(s))
    <3> SUFFICES ASSUME NEW s \in SUBSET D, s # {}
                 PROVE  g[s] = Op(g[s \ {Top(s)}], Top(s))
      BY <2>1
    <3>1. ch[s] = Top(s) /\ Top(s) \in D
      BY <1>3, <2>0 DEF Chooses
    <3>2. g[s \ {Top(s)}] \in A
      BY <2>1
    <3>3. T[<<g[s \ {Top(s)}], Top(s)>>] = Op(g[s \ {Top(s)}], Top(s))
      <4> HIDE DEF Op
      <4> QED BY <3>1, <3>2 DEF T
    <3> HIDE DEF Op
    <3>4. QED BY <2>1, <3>1, <3>3
  <2>3. QED BY <2>1, <2>2
<1>7. Defines(it)
  <2> HIDE DEF Defines
  <2> QED BY <1>6 DEF it
<1>8. \A s \in SUBSET D : it[s] = IF s = {} THEN <<>> ELSE Op(it[s \ {Top(s)}], Top(s))
  <2> HIDE DEF Op
  <2> QED BY <1>7
<1> HIDE DEF Defines, A, T
<1> DEFINE w == [k \in 0..n |-> it[1..k]]
<1>9. w[0] = <<>> /\ w[n] = it[D]
  <2>1. 1..0 = {} /\ 0 \in 0..n /\ n \in 0..n
    BY <1>1
  <2>2. it[{}] = <<>>
    BY <1>8
  <2>3. QED BY <2>1, <2>2
<1>10. ASSUME NEW k \in 1..n
       PROVE  w[k] = Op(w[k - 1], k)
  <2>1. 1..k \in SUBSET D /\ 1..k # {} /\ k \in 0..n /\ k - 1 \in 0..n
    BY <1>1
  <2>2. it[1..k] = Op(it[1..(k - 1)], k)
    <3> HIDE DEF Op, D
    <3>1. it[1..k] = Op(it[(1..k) \ {Top(1..k)}], Top(1..k))
      BY <1>8, <2>1
    <3>2. QED BY <1>3, <3>1
  <2>3. w[k] = it[1..k] /\ w[k - 1] = it[1..(k - 1)]
    BY <2>1
  <2> HIDE DEF w, Op
  <2>4. QED BY <2>2, <2>3
<1> HIDE DEF w
<1>11. QED BY <1>2, <1>9, <1>10

\* Induction over the naturals, for a set.
LEMMA CountUp ==
  ASSUME NEW P, 0 \in P, \A n \in Nat : n \in P => n + 1 \in P
  PROVE  Nat \subseteq P
<1> SUFFICES ASSUME NEW x \in Nat, x \notin P
             PROVE  FALSE
  OBVIOUS
<1> DEFINE T == Nat \ P
<1>1. T \subseteq Nat /\ x \in T
  OBVIOUS
<1>2. PICK m \in T : \A k \in T : m <= k
  <2> HIDE DEF T
  <2> QED BY <1>1, LeastElement
<1>3. m \in Nat \ {0} /\ m - 1 \in Nat /\ m = (m - 1) + 1
  BY DEF T
<1>4. m - 1 \in P
  BY <1>2, <1>3
<1>5. QED BY <1>3, <1>4

\* without takes the named fields away and leaves the others (cbor.rs Value::without).
LEMMA WithoutIs ==
  ASSUME NEW f, Plain(f), NEW names
  PROVE  LET g == Frame_!without(f, names)
         IN /\ Plain(g)
            /\ NamesIn(g) = NamesIn(f) \ names
            /\ \A other : other \notin names => Frame_!get(g, other) = Frame_!get(f, other)
<1> DEFINE n == Len(f)
           V == {f[k] : k \in 1..n}
           g == Frame_!without(f, names)
<1>1. n \in Nat /\ DOMAIN f = 1..n /\ \A j, k \in 1..n : f[j][1] = f[k][1] => j = k
  BY DEF Plain
<1>2. PICK w : /\ w[0] = <<>>
               /\ \A k \in 1..n :
                    w[k] = IF f[k][1] \in names THEN w[k - 1] ELSE Append(w[k - 1], f[k])
               /\ g = w[n]
  BY WithoutSteps
<1> DEFINE Good(k) == /\ w[k] \in Seq(V)
                      /\ \A i \in 1..Len(w[k]) : \E j \in 1..k : w[k][i] = f[j] /\ f[j][1] \notin names
                      /\ \A j \in 1..k : f[j][1] \notin names => \E i \in 1..Len(w[k]) : w[k][i] = f[j]
                      /\ \A i, j \in 1..Len(w[k]) : w[k][i][1] = w[k][j][1] => i = j
           P == {k \in Nat : k <= n => Good(k)}
<1>3. 0 \in P
  <2>1. w[0] \in Seq(V) /\ Len(w[0]) = 0
    BY <1>2
  <2>2. 1..0 = {}
    OBVIOUS
  <2> HIDE DEF V
  <2>3. Good(0)
    BY <2>1, <2>2
  <2>4. QED BY <2>3
<1>4. ASSUME NEW k \in Nat, k \in P
      PROVE  k + 1 \in P
  <2> SUFFICES ASSUME k + 1 <= n
               PROVE  Good(k + 1)
    OBVIOUS
  <2>1. k + 1 \in 1..n /\ (k + 1) - 1 = k /\ k <= n /\ 1..k \subseteq 1..(k + 1)
    BY <1>1
  <2>2. Good(k)
    BY <1>4, <2>1
  <2> DEFINE l == k + 1
             a == w[k]
  <2>3. w[l] = IF f[l][1] \in names THEN a ELSE Append(a, f[l])
    BY <1>2, <2>1
  <2>4. \A j \in 1..l : j \in 1..k \/ j = l
    OBVIOUS
  <2>5. l \in 1..l /\ l \in 1..n /\ 1..k \subseteq 1..l /\ l \notin 1..k /\ 1..k \subseteq 1..n
    BY <2>1
  <2>6. /\ a \in Seq(V)
        /\ \A i \in 1..Len(a) : \E j \in 1..k : a[i] = f[j] /\ f[j][1] \notin names
        /\ \A j \in 1..k : f[j][1] \notin names => \E i \in 1..Len(a) : a[i] = f[j]
        /\ \A i, j \in 1..Len(a) : a[i][1] = a[j][1] => i = j
    BY <2>2
  <2> HIDE DEF P, V, l, a, Good
  <2>7. CASE f[l][1] \in names
    <3>1. w[l] = a
      BY <2>3, <2>7
    <3>2. w[l] \in Seq(V) /\ \A i, j \in 1..Len(w[l]) : w[l][i][1] = w[l][j][1] => i = j
      BY <2>6, <3>1
    <3>3. \A i \in 1..Len(w[l]) : \E j \in 1..l : w[l][i] = f[j] /\ f[j][1] \notin names
      BY <2>5, <2>6, <3>1
    <3>4. \A j \in 1..l : f[j][1] \notin names => \E i \in 1..Len(w[l]) : w[l][i] = f[j]
      BY <2>4, <2>6, <2>7, <3>1
    <3>5. Good(l)
      BY <3>2, <3>3, <3>4 DEF Good
    <3>6. QED BY <3>5 DEF l
  <2>8. CASE f[l][1] \notin names
    <3>1. w[l] = Append(a, f[l])
      BY <2>3, <2>8
    <3> DEFINE m == Len(a)
    <3>2. f[l] \in V
      BY <2>5 DEF V
    <3>3. /\ m \in Nat /\ w[l] \in Seq(V) /\ Len(w[l]) = m + 1 /\ w[l][m + 1] = f[l]
          /\ \A i \in 1..m : w[l][i] = a[i]
      BY <2>6, <3>1, <3>2
    <3> HIDE DEF m
    <3>4. \A i \in 1..(m + 1) : i \in 1..m \/ i = m + 1
      BY <3>3
    <3>5. m + 1 \in 1..(m + 1) /\ 1..m \subseteq 1..(m + 1)
      BY <3>3
    <3>6. \A i \in 1..Len(w[l]) : \E j \in 1..l : w[l][i] = f[j] /\ f[j][1] \notin names
      BY <2>5, <2>6, <2>8, <3>3, <3>4 DEF m
    <3>7. \A j \in 1..l : f[j][1] \notin names => \E i \in 1..Len(w[l]) : w[l][i] = f[j]
      <4> SUFFICES ASSUME NEW j \in 1..l, f[j][1] \notin names
                   PROVE  \E i \in 1..Len(w[l]) : w[l][i] = f[j]
        OBVIOUS
      <4>1. CASE j = l
        BY <3>3, <3>5, <4>1
      <4>2. CASE j \in 1..k
        <5>1. PICK i \in 1..m : a[i] = f[j]
          BY <2>6, <4>2 DEF m
        <5>2. QED BY <3>3, <3>5, <5>1
      <4>3. QED BY <2>4, <4>1, <4>2
    <3>8. ASSUME NEW i \in 1..m
          PROVE  w[l][i][1] # f[l][1]
      <4>1. PICK j \in 1..k : a[i] = f[j]
        BY <2>6 DEF m
      <4>2. j # l /\ j \in 1..n /\ f[j][1] # f[l][1]
        BY <1>1, <2>5
      <4>3. QED BY <3>3, <4>1, <4>2
    <3>9. \A i, j \in 1..Len(w[l]) : w[l][i][1] = w[l][j][1] => i = j
      <4> SUFFICES ASSUME NEW i \in 1..(m + 1), NEW j \in 1..(m + 1), w[l][i][1] = w[l][j][1]
                   PROVE  i = j
        BY <3>3
      <4>1. CASE i \in 1..m /\ j \in 1..m
        BY <2>6, <3>3, <4>1 DEF m
      <4>2. CASE i = m + 1 /\ j \in 1..m
        BY <3>3, <3>8, <4>2
      <4>3. CASE i \in 1..m /\ j = m + 1
        BY <3>3, <3>8, <4>3
      <4>4. QED BY <3>4, <4>1, <4>2, <4>3
    <3>10. Good(l)
      BY <3>3, <3>6, <3>7, <3>9 DEF Good
    <3>11. QED BY <3>10 DEF l
  <2>9. QED BY <2>7, <2>8
<1>5. Good(n)
  <2>1. Nat \subseteq P
    <3> HIDE DEF P
    <3> QED BY <1>3, <1>4, CountUp
  <2>2. n <= n
    BY <1>1
  <2>3. n \in P
    BY <1>1, <2>1
  <2> HIDE DEF Good, n
  <2>4. QED BY <2>2, <2>3
<1> HIDE DEF P, g, n
<1>6. /\ g \in Seq(V)
      /\ \A i \in 1..Len(g) : \E j \in 1..n : g[i] = f[j] /\ f[j][1] \notin names
      /\ \A j \in 1..n : f[j][1] \notin names => \E i \in 1..Len(g) : g[i] = f[j]
      /\ \A i, j \in 1..Len(g) : g[i][1] = g[j][1] => i = j
  BY <1>2, <1>5
<1>7. Plain(g)
  <2> HIDE DEF V
  <2> QED BY <1>6, PlainBy
<1>8. DOMAIN g = 1..Len(g)
  BY <1>7, GetIs
<1>9. NamesIn(g) = NamesIn(f) \ names
  <2>1. NamesIn(g) \subseteq NamesIn(f) \ names
    BY <1>1, <1>6, <1>8 DEF NamesIn
  <2>2. ASSUME NEW name \in NamesIn(f), name \notin names
        PROVE  name \in NamesIn(g)
    <3>1. PICK j \in 1..n : name = f[j][1]
      BY <1>1 DEF NamesIn
    <3>2. PICK i \in 1..Len(g) : g[i] = f[j]
      BY <1>6, <2>2, <3>1
    <3>3. QED BY <1>8, <3>1, <3>2 DEF NamesIn
  <2>3. QED BY <2>1, <2>2
<1>10. ASSUME NEW other, other \notin names
       PROVE  Frame_!get(g, other) = Frame_!get(f, other)
  <2>1. CASE other \in NamesIn(f)
    <3>1. PICK j \in 1..n : other = f[j][1]
      BY <1>1, <2>1 DEF NamesIn
    <3>2. PICK i \in 1..Len(g) : g[i] = f[j]
      BY <1>6, <1>10, <3>1
    <3>3. Frame_!get(f, other) = f[j][2]
      BY <3>1, GetIs DEF n
    <3>4. Frame_!get(g, other) = g[i][2]
      BY <1>7, <3>1, <3>2, GetIs
    <3>5. QED BY <3>2, <3>3, <3>4
  <2>2. CASE other \notin NamesIn(f)
    <3>1. other \notin NamesIn(g)
      BY <1>9, <2>2
    <3>2. QED BY <1>7, <2>2, <3>1, GetIs
  <2>3. QED BY <2>1, <2>2
<1>11. QED BY <1>7, <1>9, <1>10 DEF g

\* Equal lists of fields, but for the order: what the wire keeps of a map.
Same(f, g) ==
  NamesIn(f) = NamesIn(g) /\ \A name : Frame_!get(f, name) = Frame_!get(g, name)

\* Same says that the same goes to the wire.
LEMMA EncodeSame ==
  ASSUME NEW f, Plain(f), NEW g, Plain(g), Frame_!encode(f) = Frame_!encode(g)
  PROVE  Same(f, g)
<1>1. /\ Frame_!encode(f) = {<<name, {Frame_!get(f, name)}>> : name \in NamesIn(f)}
      /\ Frame_!encode(g) = {<<name, {Frame_!get(g, name)}>> : name \in NamesIn(g)}
  BY EncodeIs
<1>2. ASSUME NEW name \in NamesIn(f)
      PROVE  name \in NamesIn(g) /\ Frame_!get(f, name) = Frame_!get(g, name)
  <2>1. <<name, {Frame_!get(f, name)}>> \in Frame_!encode(g)
    BY <1>1
  <2>2. PICK other \in NamesIn(g) :
          <<name, {Frame_!get(f, name)}>> = <<other, {Frame_!get(g, other)}>>
    BY <1>1, <2>1
  <2>3. name = other /\ {Frame_!get(f, name)} = {Frame_!get(g, other)}
    BY <2>2
  <2>4. QED BY <2>3
<1>3. ASSUME NEW name \in NamesIn(g)
      PROVE  name \in NamesIn(f)
  <2>1. <<name, {Frame_!get(g, name)}>> \in Frame_!encode(f)
    BY <1>1
  <2>2. PICK other \in NamesIn(f) :
          <<name, {Frame_!get(g, name)}>> = <<other, {Frame_!get(f, other)}>>
    BY <1>1, <2>1
  <2>3. QED BY <2>2
<1>4. \A name : name \notin NamesIn(f) => Frame_!get(f, name) = Frame_!get(g, name)
  BY <1>3, GetIs
<1>5. QED BY <1>2, <1>3, <1>4 DEF Same

\* The other way around.
LEMMA SameEncode ==
  ASSUME NEW f, Plain(f), NEW g, Plain(g), Same(f, g)
  PROVE  Frame_!encode(f) = Frame_!encode(g)
<1>1. /\ Frame_!encode(f) = {<<name, {Frame_!get(f, name)}>> : name \in NamesIn(f)}
      /\ Frame_!encode(g) = {<<name, {Frame_!get(g, name)}>> : name \in NamesIn(g)}
  BY EncodeIs
<1>2. NamesIn(f) = NamesIn(g) /\ \A name : Frame_!get(f, name) = Frame_!get(g, name)
  BY DEF Same
<1>3. QED BY <1>1, <1>2

\* A list names finitely many things.
LEMMA FiniteNames ==
  ASSUME NEW f, Plain(f)
  PROVE  IsFiniteSet(NamesIn(f)) /\ IsFiniteSet(Frame_!encode(f))
<1>1. Len(f) \in Nat /\ DOMAIN f = 1..Len(f)
  BY GetIs DEF Plain
<1>2. IsFiniteSet(1..Len(f))
  BY <1>1, FS_Interval
<1>3. IsFiniteSet(NamesIn(f))
  <2>1. [k \in 1..Len(f) |-> f[k][1]] \in Surjection(1..Len(f), NamesIn(f))
    BY <1>1 DEF NamesIn, Surjection
  <2>2. QED BY <1>2, <2>1, FS_Surjection
<1>4. IsFiniteSet(Frame_!encode(f))
  <2> DEFINE h == [name \in NamesIn(f) |-> <<name, {Frame_!get(f, name)}>>]
             E == {<<name, {Frame_!get(f, name)}>> : name \in NamesIn(f)}
  <2>1. h \in [NamesIn(f) -> E] /\ \A b \in E : \E name \in NamesIn(f) : h[name] = b
    OBVIOUS
  <2> HIDE DEF h, E
  <2>2. h \in Surjection(NamesIn(f), E)
    BY <2>1 DEF Surjection
  <2>3. IsFiniteSet(E)
    BY <1>3, <2>2, FS_Surjection
  <2>4. QED BY <2>3, EncodeIs DEF E
<1>5. QED BY <1>3, <1>4

\* The fold of decode has an outcome, one field after the other in whatever order.
LEMMA DecodeSteps ==
  ASSUME NEW D, IsFiniteSet(D)
  PROVE  \E it, ch : /\ Chooses(ch, D)
                     /\ it[{}] = <<>>
                     /\ \A s \in SUBSET D : s # {} =>
                          it[s] = Append(it[s \ {ch[s]}], <<ch[s][1], CHOOSE v \in ch[s][2] : TRUE>>)
                     /\ Frame_!decode(D) = it[D]
<1> DEFINE Any(s) == CHOOSE b \in s : TRUE
           Field(b) == <<b[1], CHOOSE v \in b[2] : TRUE>>
           V == {Field(b) : b \in D}
           A == Seq(V)
           T == [p \in A \X D |-> Append(p[1], Field(p[2]))]
           ch == [s \in SUBSET D |-> Any(s)]
           Defines(g) == g = [s \in SUBSET D |-> IF s = {} THEN <<>>
                                                 ELSE Append(g[s \ {Any(s)}], Field(Any(s)))]
           it == CHOOSE g : Defines(g)
<1>1. Frame_!decode(D) = it[D]
  BY DEF Frame_!decode, Frame_!FoldSet, Frame_!MapThenFoldSet
<1>2. Chooses(ch, D)
  BY DEF Chooses
<1> HIDE DEF it
<1>3. T \in [A \X D -> A] /\ <<>> \in A
  OBVIOUS
<1>4. \E g : Defines(g)
  <2>1. \A s \in SUBSET D : ch[s] = Any(s)
    OBVIOUS
  <2> HIDE DEF A, T, ch
  <2>2. PICK g : Folds(g, D, ch, A, <<>>, T)
    BY <1>2, <1>3, FoldExists
  <2>3. /\ g \in [SUBSET D -> A]
        /\ \A s \in SUBSET D : g[s] = IF s = {} THEN <<>> ELSE T[<<g[s \ {ch[s]}], ch[s]>>]
    BY <2>2 DEF Folds
  <2> HIDE DEF Field, Any
  <2>4. ASSUME NEW s \in SUBSET D, s # {}
        PROVE  g[s] = Append(g[s \ {Any(s)}], Field(Any(s)))
    <3>1. ch[s] = Any(s) /\ Any(s) \in D
      BY <1>2, <2>1, <2>4 DEF Chooses
    <3>2. g[s \ {Any(s)}] \in A
      BY <2>3
    <3>3. T[<<g[s \ {Any(s)}], Any(s)>>] = Append(g[s \ {Any(s)}], Field(Any(s)))
      BY <3>1, <3>2 DEF T
    <3>4. QED BY <2>3, <2>4, <3>1, <3>3
  <2>5. g = [s \in SUBSET D |-> g[s]] /\ g[{}] = <<>>
    BY <2>3
  <2>6. \A s \in SUBSET D : g[s] = IF s = {} THEN <<>> ELSE Append(g[s \ {Any(s)}], Field(Any(s)))
    BY <2>4, <2>5
  <2>7. QED BY <2>5, <2>6
<1>5. Defines(it)
  <2> HIDE DEF Defines
  <2> QED BY <1>4 DEF it
<1>6. \A s \in SUBSET D : it[s] = IF s = {} THEN <<>> ELSE Append(it[s \ {Any(s)}], Field(Any(s)))
  <2> HIDE DEF Any, Field
  <2> QED BY <1>5
<1>7. it[{}] = <<>> /\ \A s \in SUBSET D : s # {} => it[s] = Append(it[s \ {ch[s]}], Field(ch[s]))
  <2>1. \A s \in SUBSET D : ch[s] = Any(s)
    OBVIOUS
  <2>2. it[{}] = <<>>
    BY <1>6
  <2> HIDE DEF Any, Field, ch
  <2>3. QED BY <1>6, <2>1, <2>2
<1> HIDE DEF ch, Defines, A, T
<1>8. QED BY <1>1, <1>2, <1>7

\* A frame comes off the wire with the fields it went on it with, in whatever order
\* (frame.rs encode, decode).
LEMMA DeliveredIs ==
  ASSUME NEW f, Plain(f)
  PROVE  Plain(Frame_!Delivered(f)) /\ Same(Frame_!Delivered(f), f)
<1> DEFINE D == Frame_!encode(f)
           g == Frame_!Delivered(f)
<1>1. D = {<<name, {Frame_!get(f, name)}>> : name \in NamesIn(f)}
  BY EncodeIs
<1>2. IsFiniteSet(D)
  BY FiniteNames
<1>3. g = Frame_!decode(D)
  BY DEF Frame_!Delivered
<1> HIDE DEF D, g
<1>4. PICK it, ch : /\ Chooses(ch, D)
                    /\ it[{}] = <<>>
                    /\ \A s \in SUBSET D : s # {} =>
                         it[s] = Append(it[s \ {ch[s]}], <<ch[s][1], CHOOSE v \in ch[s][2] : TRUE>>)
                    /\ Frame_!decode(D) = it[D]
  BY <1>2, DecodeSteps
<1> DEFINE Good(s, a) == /\ Plain(a)
                         /\ NamesIn(a) = {b[1] : b \in s}
                         /\ \A name \in NamesIn(a) : Frame_!get(a, name) = Frame_!get(f, name)
           P == {s \in SUBSET D : Good(s, it[s])}
<1>5. {} \in P
  <2>1. Plain(<<>>)
    <3>1. <<>> \in Seq({}) /\ Len(<<>>) = 0
      OBVIOUS
    <3>2. \A j, k \in 1..Len(<<>>) : <<>>[j][1] = <<>>[k][1] => j = k
      BY <3>1
    <3>3. QED BY <3>1, <3>2, PlainBy
  <2>2. NamesIn(<<>>) = {}
    BY DEF NamesIn
  <2>3. QED BY <1>4, <2>1, <2>2
<1>6. ASSUME NEW s \in SUBSET D, s # {}, s \ {ch[s]} \in P
      PROVE  s \in P
  <2>1. ch[s] \in s
    BY <1>4, <1>6 DEF Chooses
  <2>2. PICK name \in NamesIn(f) : ch[s] = <<name, {Frame_!get(f, name)}>>
    BY <1>1, <2>1
  <2> DEFINE r == s \ {ch[s]}
             a == it[r]
             value == Frame_!get(f, name)
  <2>3. (CHOOSE v \in ch[s][2] : TRUE) = value /\ ch[s][1] = name
    <3>1. ch[s][2] = {value}
      BY <2>2
    <3>2. (CHOOSE v \in {value} : TRUE) = value
      OBVIOUS
    <3>3. QED BY <2>2, <3>1, <3>2
  <2>4. it[s] = Append(a, <<name, value>>)
    BY <1>4, <1>6, <2>3
  <2>5. Good(r, a)
    BY <1>6
  <2>6. \A b \in s : b[1] = name => b = ch[s]
    BY <1>1, <2>2
  <2>7. name \notin NamesIn(a) /\ {b[1] : b \in s} = NamesIn(a) \cup {name}
    <3>1. NamesIn(a) = {b[1] : b \in r}
      BY <2>5
    <3> HIDE DEF a
    <3>2. \A b \in r : b \in s /\ b[1] # name
      BY <2>6
    <3>3. \A b \in s : b \in r \/ b[1] = name
      BY <2>3
    <3>4. QED BY <2>1, <2>3, <3>1, <3>2, <3>3
  <2>8. it[s] = Frame_!with_field(a, name, value)
    <3>1. Plain(a)
      BY <2>5
    <3> HIDE DEF a, value, Good
    <3>2. Frame_!Places(a, name) = {}
      BY <2>7, <3>1, GetIs
    <3>3. QED BY <2>4, <3>2 DEF Frame_!with_field
  <2>9. /\ Plain(it[s]) /\ NamesIn(it[s]) = NamesIn(a) \cup {name}
        /\ Frame_!get(it[s], name) = value
        /\ \A other : other # name => Frame_!get(it[s], other) = Frame_!get(a, other)
    <3>1. Plain(a)
      BY <2>5
    <3> HIDE DEF a, value, Good
    <3>2. QED BY <2>8, <3>1, WithFieldIs
  <2>10. \A other \in NamesIn(it[s]) : Frame_!get(it[s], other) = Frame_!get(f, other)
    BY <2>5, <2>9
  <2> HIDE DEF a, r
  <2>11. QED BY <2>7, <2>9, <2>10
<1>7. D \in P
  <2> HIDE DEF P
  <2>1. SUBSET D \subseteq P
    BY <1>2, <1>4, <1>5, <1>6, FoldInduction
  <2>2. QED BY <2>1
<1>8. Good(D, g)
  BY <1>3, <1>4, <1>7
<1>9. NamesIn(g) = NamesIn(f)
  <2>1. {b[1] : b \in D} = NamesIn(f)
    <3>1. \A b \in D : b[1] \in NamesIn(f)
      BY <1>1
    <3>2. \A name \in NamesIn(f) : <<name, {Frame_!get(f, name)}>> \in D
      BY <1>1
    <3>3. \A name \in NamesIn(f) : \E b \in D : b[1] = name
      BY <3>2
    <3>4. QED BY <3>1, <3>3
  <2>2. QED BY <1>8, <2>1
<1>10. \A name : Frame_!get(g, name) = Frame_!get(f, name)
  <2>1. \A name : name \notin NamesIn(g) => Frame_!get(g, name) = Frame_!get(f, name)
    BY <1>8, <1>9, GetIs
  <2>2. QED BY <1>8, <2>1
<1>11. QED BY <1>8, <1>9, <1>10 DEF Same, g

-----------------------------------------------------------------------------
(* Frames: what the two signatures cover.                                   *)

\* What is signed are all fields but the two signatures (frame.rs signable_bytes).
LEMMA SignableIs ==
  ASSUME NEW f, Plain(f), NEW g, Plain(g)
  PROVE  Frame_!signable_bytes(f) = Frame_!signable_bytes(g) <=>
           /\ NamesIn(f) \ Frame_!Unsigned = NamesIn(g) \ Frame_!Unsigned
           /\ \A name : name \notin Frame_!Unsigned => Frame_!get(f, name) = Frame_!get(g, name)
<1> DEFINE a == Frame_!without(f, Frame_!Unsigned)
           b == Frame_!without(g, Frame_!Unsigned)
<1>1. Frame_!signable_bytes(f) = Frame_!encode(a) /\ Frame_!signable_bytes(g) = Frame_!encode(b)
  BY DEF Frame_!signable_bytes, Frame_!Unsigned
<1>2. /\ Plain(a) /\ NamesIn(a) = NamesIn(f) \ Frame_!Unsigned
      /\ \A name : name \notin Frame_!Unsigned => Frame_!get(a, name) = Frame_!get(f, name)
  BY WithoutIs
<1>3. /\ Plain(b) /\ NamesIn(b) = NamesIn(g) \ Frame_!Unsigned
      /\ \A name : name \notin Frame_!Unsigned => Frame_!get(b, name) = Frame_!get(g, name)
  BY WithoutIs
<1> HIDE DEF a, b
<1>4. \A name \in Frame_!Unsigned : Frame_!get(a, name) = Frame_!Missing
                                    /\ Frame_!get(b, name) = Frame_!Missing
  BY <1>2, <1>3, GetIs
<1>5. ASSUME Frame_!encode(a) = Frame_!encode(b)
      PROVE  Same(a, b)
  BY <1>2, <1>3, <1>5, EncodeSame
<1>6. ASSUME Same(a, b)
      PROVE  Frame_!encode(a) = Frame_!encode(b)
  BY <1>2, <1>3, <1>6, SameEncode
<1>7. Same(a, b) <=>
        /\ NamesIn(f) \ Frame_!Unsigned = NamesIn(g) \ Frame_!Unsigned
        /\ \A name : name \notin Frame_!Unsigned => Frame_!get(f, name) = Frame_!get(g, name)
  <2>1. ASSUME Same(a, b)
        PROVE  /\ NamesIn(f) \ Frame_!Unsigned = NamesIn(g) \ Frame_!Unsigned
               /\ \A name : name \notin Frame_!Unsigned => Frame_!get(f, name) = Frame_!get(g, name)
    BY <1>2, <1>3, <2>1 DEF Same
  <2>2. ASSUME NamesIn(f) \ Frame_!Unsigned = NamesIn(g) \ Frame_!Unsigned,
               \A name : name \notin Frame_!Unsigned => Frame_!get(f, name) = Frame_!get(g, name)
        PROVE  Same(a, b)
    <3>1. \A name : Frame_!get(a, name) = Frame_!get(b, name)
      BY <1>2, <1>3, <1>4, <2>2
    <3>2. QED BY <1>2, <1>3, <2>2, <3>1 DEF Same
  <2>3. QED BY <2>1, <2>2
<1>8. QED BY <1>1, <1>5, <1>6, <1>7

\* verify takes the signature of the key over the frame as it stands, and no other
\* (frame.rs verify).
LEMMA VerifyIs ==
  ASSUME NEW f, NEW id
  PROVE  LET sig == Frame_!get(f, "signature")
             good == Frame_!Sig(id, "macula-v2-frame", Frame_!signable_bytes(f))
         IN /\ Frame_!verify(f, id) = "Ok" <=> sig = good
            /\ sig[1] = "Bytes64" /\ sig # good => Frame_!verify(f, id) = "SignatureInvalid"
            /\ sig = Frame_!Missing => Frame_!verify(f, id) = "MissingSignature"
<1> DEFINE sig == Frame_!get(f, "signature")
           good == Frame_!Sig(id, "macula-v2-frame", Frame_!signable_bytes(f))
<1>1. Frame_!verify(f, id) =
        IF sig[1] \notin {"Bytes", "Bytes16", "Bytes32", "Bytes64", "Utf8"} THEN "MissingSignature"
        ELSE IF sig[1] # "Bytes64" THEN "BadSignature"
        ELSE IF sig # good THEN "SignatureInvalid" ELSE "Ok"
  BY DEF Frame_!verify
<1>2. good[1] = "Bytes64"
  BY DEF Frame_!Sig
<1>3. Frame_!Missing[1] = "Missing"
  BY DEF Frame_!Missing
<1> HIDE DEF sig, good
<1>4. sig = good => Frame_!verify(f, id) = "Ok"
  BY <1>1, <1>2
<1>5. sig[1] = "Bytes64" /\ sig # good => Frame_!verify(f, id) = "SignatureInvalid"
  BY <1>1
<1>6. sig[1] # "Bytes64" => Frame_!verify(f, id) # "Ok"
  BY <1>1
<1>7. sig = Frame_!Missing => Frame_!verify(f, id) = "MissingSignature"
  <2>1. sig = Frame_!Missing => sig[1] \notin {"Bytes", "Bytes16", "Bytes32", "Bytes64", "Utf8"}
    BY <1>3
  <2>2. QED BY <1>1, <2>1
<1>8. Frame_!verify(f, id) = "Ok" => sig = good
  BY <1>5, <1>6
<1>9. QED BY <1>4, <1>5, <1>7, <1>8 DEF sig, good

\* A signature is of one key, over one thing.
LEMMA SigIs ==
  /\ \A id, domain, bytes : Frame_!Sig(id, domain, bytes)[1] = "Bytes64"
  /\ \A id, domain, bytes, id2, domain2, bytes2 :
       Frame_!Sig(id, domain, bytes) = Frame_!Sig(id2, domain2, bytes2)
         => id = id2 /\ domain = domain2 /\ bytes = bytes2
BY DEF Frame_!Sig

\* Two frames that are good under one signature are of one signer, and alike in every field
\* but the signatures (frame.rs verify, signable_bytes).
THEOREM SignatureBindsFrame ==
  ASSUME NEW f, Plain(f), NEW g, Plain(g), NEW id, NEW other,
         Frame_!get(f, "signature") = Frame_!get(g, "signature"),
         Frame_!verify(f, id) = "Ok", Frame_!verify(g, other) = "Ok"
  PROVE  /\ id = other
         /\ NamesIn(f) \ Frame_!Unsigned = NamesIn(g) \ Frame_!Unsigned
         /\ \A name : name \notin Frame_!Unsigned => Frame_!get(f, name) = Frame_!get(g, name)
<1>1. Frame_!Sig(id, "macula-v2-frame", Frame_!signable_bytes(f))
        = Frame_!Sig(other, "macula-v2-frame", Frame_!signable_bytes(g))
  BY VerifyIs
<1>2. id = other /\ Frame_!signable_bytes(f) = Frame_!signable_bytes(g)
  BY <1>1, SigIs
<1>3. QED BY <1>2, SignableIs

\* What sign makes: the frame with a signature that its own key verifies and no other
\* (frame.rs sign, verify).
LEMMA SignIs ==
  ASSUME NEW f, Plain(f), NEW id
  PROVE  LET g == Frame_!sign(f, id)
         IN /\ Plain(g)
            /\ NamesIn(g) = NamesIn(f) \cup {"signature"}
            /\ \A name : name # "signature" => Frame_!get(g, name) = Frame_!get(f, name)
            /\ Frame_!get(g, "signature") = Frame_!Sig(id, "macula-v2-frame", Frame_!signable_bytes(f))
            /\ Frame_!signable_bytes(g) = Frame_!signable_bytes(f)
            /\ Frame_!verify(g, id) = "Ok"
            /\ \A other : other # id => Frame_!verify(g, other) = "SignatureInvalid"
<1> DEFINE g == Frame_!sign(f, id)
           s == Frame_!Sig(id, "macula-v2-frame", Frame_!signable_bytes(f))
<1>1. g = Frame_!with_field(f, "signature", s)
  BY DEF Frame_!sign
<1> HIDE DEF g, s
<1>2. /\ Plain(g)
      /\ NamesIn(g) = NamesIn(f) \cup {"signature"}
      /\ Frame_!get(g, "signature") = s
      /\ \A name : name # "signature" => Frame_!get(g, name) = Frame_!get(f, name)
  BY <1>1, WithFieldIs
<1>3. "signature" \in Frame_!Unsigned
  BY DEF Frame_!Unsigned
<1>4. Frame_!signable_bytes(g) = Frame_!signable_bytes(f)
  <2>1. NamesIn(f) \ Frame_!Unsigned = NamesIn(g) \ Frame_!Unsigned
    BY <1>2, <1>3
  <2>2. \A name : name \notin Frame_!Unsigned => Frame_!get(f, name) = Frame_!get(g, name)
    BY <1>2, <1>3
  <2>3. QED BY <1>2, <2>1, <2>2, SignableIs
<1>5. Frame_!verify(g, id) = "Ok"
  BY <1>2, <1>4, VerifyIs DEF s
<1>6. ASSUME NEW other, other # id
      PROVE  Frame_!verify(g, other) = "SignatureInvalid"
  <2>1. s[1] = "Bytes64" /\ s # Frame_!Sig(other, "macula-v2-frame", Frame_!signable_bytes(g))
    BY <1>6, SigIs DEF s
  <2>2. QED BY <1>2, <2>1, VerifyIs
<1>7. QED BY <1>2, <1>4, <1>5, <1>6 DEF g, s

\* A signed frame stays good when a signature field is set, and no field else can be set to
\* another value, added or taken away (frame.rs signable_bytes, verify).
THEOREM FrameTamper ==
  ASSUME NEW f, Plain(f), NEW id, Frame_!verify(f, id) = "Ok"
  PROVE  /\ \A value : Frame_!verify(Frame_!with_field(f, "publisher_sig", value), id) = "Ok"
         /\ \A name, value : name \notin Frame_!Unsigned /\ value # Frame_!get(f, name)
              => Frame_!verify(Frame_!with_field(f, name, value), id) = "SignatureInvalid"
         /\ \A names : "signature" \notin names /\ names \cap (NamesIn(f) \ Frame_!Unsigned) # {}
              => Frame_!verify(Frame_!without(f, names), id) = "SignatureInvalid"
<1> DEFINE s == Frame_!Sig(id, "macula-v2-frame", Frame_!signable_bytes(f))
<1>1. Frame_!get(f, "signature") = s
  BY VerifyIs
<1>2. s[1] = "Bytes64" /\ \A bytes : bytes # Frame_!signable_bytes(f)
                            => s # Frame_!Sig(id, "macula-v2-frame", bytes)
  BY SigIs
<1>3. "signature" \in Frame_!Unsigned /\ "publisher_sig" \in Frame_!Unsigned
      /\ "signature" # "publisher_sig"
  BY DEF Frame_!Unsigned
<1>4. ASSUME NEW value
      PROVE  Frame_!verify(Frame_!with_field(f, "publisher_sig", value), id) = "Ok"
  <2> DEFINE g == Frame_!with_field(f, "publisher_sig", value)
  <2> HIDE DEF g
  <2>1. /\ Plain(g) /\ NamesIn(g) = NamesIn(f) \cup {"publisher_sig"}
        /\ \A name : name # "publisher_sig" => Frame_!get(g, name) = Frame_!get(f, name)
    BY WithFieldIs DEF g
  <2>2. NamesIn(f) \ Frame_!Unsigned = NamesIn(g) \ Frame_!Unsigned
    BY <1>3, <2>1
  <2>3. \A name : name \notin Frame_!Unsigned => Frame_!get(f, name) = Frame_!get(g, name)
    BY <1>3, <2>1
  <2>4. Frame_!signable_bytes(g) = Frame_!signable_bytes(f)
    BY <2>1, <2>2, <2>3, SignableIs
  <2>5. Frame_!get(g, "signature") = s
    BY <1>1, <1>3, <2>1
  <2>6. Frame_!verify(g, id) = "Ok"
    BY <2>4, <2>5, VerifyIs
  <2>7. QED BY <2>6 DEF g
<1>5. ASSUME NEW name, NEW value, name \notin Frame_!Unsigned, value # Frame_!get(f, name)
      PROVE  Frame_!verify(Frame_!with_field(f, name, value), id) = "SignatureInvalid"
  <2> DEFINE g == Frame_!with_field(f, name, value)
  <2> HIDE DEF g
  <2>1. /\ Plain(g) /\ Frame_!get(g, name) = value
        /\ \A other : other # name => Frame_!get(g, other) = Frame_!get(f, other)
    BY WithFieldIs DEF g
  <2>2. Frame_!signable_bytes(g) # Frame_!signable_bytes(f)
    BY <1>5, <2>1, SignableIs
  <2>3. Frame_!get(g, "signature") = s
    BY <1>1, <1>3, <1>5, <2>1
  <2>4. Frame_!verify(g, id) = "SignatureInvalid"
    BY <1>2, <2>2, <2>3, VerifyIs
  <2>5. QED BY <2>4 DEF g
<1>6. ASSUME NEW names, "signature" \notin names, names \cap (NamesIn(f) \ Frame_!Unsigned) # {}
      PROVE  Frame_!verify(Frame_!without(f, names), id) = "SignatureInvalid"
  <2> DEFINE g == Frame_!without(f, names)
  <2> HIDE DEF g
  <2>1. /\ Plain(g) /\ NamesIn(g) = NamesIn(f) \ names
        /\ \A other : other \notin names => Frame_!get(g, other) = Frame_!get(f, other)
    BY WithoutIs DEF g
  <2>2. NamesIn(f) \ Frame_!Unsigned # NamesIn(g) \ Frame_!Unsigned
    BY <1>6, <2>1
  <2>3. Frame_!signable_bytes(g) # Frame_!signable_bytes(f)
    BY <2>1, <2>2, SignableIs
  <2>4. Frame_!get(g, "signature") = s
    BY <1>1, <1>6, <2>1
  <2>5. Frame_!verify(g, id) = "SignatureInvalid"
    BY <1>2, <2>3, <2>4, VerifyIs
  <2>6. QED BY <2>5 DEF g
<1>7. QED BY <1>4, <1>5, <1>6

\* Like frames are signed and verified alike, whatever the order of their fields: a frame
\* that was good before it went on the wire is good behind it.
LEMMA SameVerified ==
  ASSUME NEW f, Plain(f), NEW g, Plain(g), Same(f, g)
  PROVE  /\ Frame_!signable_bytes(f) = Frame_!signable_bytes(g)
         /\ \A id : Frame_!verify(f, id) = Frame_!verify(g, id)
         /\ Frame_!publisher_signing_bytes(f) = Frame_!publisher_signing_bytes(g)
         /\ Frame_!verify_publisher(f) = Frame_!verify_publisher(g)
         /\ \A parser : Frame_!Parse(parser, f) = Frame_!Parse(parser, g)
<1>1. NamesIn(f) = NamesIn(g) /\ \A name : Frame_!get(f, name) = Frame_!get(g, name)
  BY DEF Same
<1>2. Frame_!signable_bytes(f) = Frame_!signable_bytes(g)
  BY <1>1, SignableIs
<1>3. \A id : Frame_!verify(f, id) = Frame_!verify(g, id)
  BY <1>1, <1>2 DEF Frame_!verify
<1>4. Frame_!publisher_signing_bytes(f) = Frame_!publisher_signing_bytes(g)
  BY <1>1 DEF Frame_!publisher_signing_bytes
<1>5. Frame_!verify_publisher(f) = Frame_!verify_publisher(g)
  BY <1>1, <1>4 DEF Frame_!verify_publisher
<1>6. ASSUME NEW parser
      PROVE  Frame_!Parse(parser, f) = Frame_!Parse(parser, g)
  <2>1. ASSUME NEW type
        PROVE  Frame_!Fields(type, f) = Frame_!Fields(type, g)
    <3> DEFINE reads == Frame_!Reads[type]
               v(h, k) == Frame_!get(h, reads[k][1])
               required(k) == reads[k][2] \notin {"string?", "int?", "bytes!"}
               wrong(h, k) == IF v(h, k) = Frame_!Missing THEN required(k)
                              ELSE ~Frame_!Takes(reads[k][2], v(h, k))
               bad(h) == {k \in DOMAIN reads : wrong(h, k)}
               made(h) == [name \in {reads[k][1] : k \in DOMAIN reads} |->
                              LET k == CHOOSE j \in DOMAIN reads : reads[j][1] = name
                              IN Frame_!Taken(reads[k][2], v(h, k))]
    <3>1. \A h : Frame_!Fields(type, h) =
            IF bad(h) = {} THEN <<"Ok", made(h)>>
            ELSE <<IF v(h, Frame_!Least(bad(h))) = Frame_!Missing THEN "MissingField"
                   ELSE "WrongFieldType", reads[Frame_!Least(bad(h))][1]>>
      BY DEF Frame_!Fields
    <3>2. \A k : v(f, k) = v(g, k)
      BY <1>1
    <3> HIDE DEF v, reads
    <3>3. bad(f) = bad(g) /\ made(f) = made(g)
      BY <3>2
    <3> HIDE DEF bad, made
    <3>4. QED BY <3>1, <3>2, <3>3
  <2>2. QED BY <1>1, <2>1 DEF Frame_!Parse
<1>7. QED BY <1>2, <1>3, <1>4, <1>5, <1>6

\* The fields that a publisher signs, and what it signs for one that is not there.
Published == {"topic", "realm", "publisher", "seq", "payload"}
Shown(f, name) ==
  IF Frame_!get(f, name) = Frame_!Missing THEN Frame_!Null ELSE Frame_!get(f, name)

\* They are what is signed (frame.rs publisher_signing_bytes).
LEMMA PublisherBytes ==
  ASSUME NEW f, NEW g
  PROVE  Frame_!publisher_signing_bytes(f) = Frame_!publisher_signing_bytes(g)
           <=> \A name \in Published : Shown(f, name) = Shown(g, name)
<1>1. \A h : Frame_!publisher_signing_bytes(h) = {<<name, Shown(h, name)>> : name \in Published}
  BY DEF Frame_!publisher_signing_bytes, Shown, Published
<1>2. ASSUME Frame_!publisher_signing_bytes(f) = Frame_!publisher_signing_bytes(g),
             NEW name \in Published
      PROVE  Shown(f, name) = Shown(g, name)
  <2>1. <<name, Shown(f, name)>> \in {<<other, Shown(g, other)>> : other \in Published}
    BY <1>1, <1>2
  <2>2. PICK other \in Published : <<name, Shown(f, name)>> = <<other, Shown(g, other)>>
    BY <2>1
  <2>3. QED BY <2>2
<1>3. ASSUME \A name \in Published : Shown(f, name) = Shown(g, name)
      PROVE  Frame_!publisher_signing_bytes(f) = Frame_!publisher_signing_bytes(g)
  BY <1>1, <1>3
<1>4. QED BY <1>2, <1>3

\* verify_publisher takes the signature of the publisher the frame names over its five fields,
\* and no other (frame.rs verify_publisher).
LEMMA VerifyPublisherIs ==
  ASSUME NEW f
  PROVE  LET sig == Frame_!get(f, "publisher_sig")
             publisher == Frame_!get(f, "publisher")
             good == Frame_!Sig(publisher[2], "macula-v2-event-pub", Frame_!publisher_signing_bytes(f))
         IN /\ Frame_!verify_publisher(f) = "Ok" <=> publisher[1] = "Bytes32" /\ sig = good
            /\ sig[1] = "Bytes64" /\ publisher[1] = "Bytes32" /\ sig # good
                 => Frame_!verify_publisher(f) = "PublisherSigInvalid"
<1> DEFINE sig == Frame_!get(f, "publisher_sig")
           publisher == Frame_!get(f, "publisher")
           good == Frame_!Sig(publisher[2], "macula-v2-event-pub", Frame_!publisher_signing_bytes(f))
<1>1. Frame_!verify_publisher(f) =
        IF sig[1] \notin {"Bytes", "Bytes16", "Bytes32", "Bytes64", "Utf8"}
        THEN "MissingPublisherSig"
        ELSE IF sig[1] # "Bytes64" \/ publisher[1] # "Bytes32" THEN "BadPublisherSig"
        ELSE IF sig # good THEN "PublisherSigInvalid" ELSE "Ok"
  BY DEF Frame_!verify_publisher
<1>2. good[1] = "Bytes64"
  BY DEF Frame_!Sig
<1> HIDE DEF sig, good, publisher
<1>3. sig = good /\ publisher[1] = "Bytes32" => Frame_!verify_publisher(f) = "Ok"
  BY <1>1, <1>2
<1>4. sig[1] = "Bytes64" /\ publisher[1] = "Bytes32" /\ sig # good
        => Frame_!verify_publisher(f) = "PublisherSigInvalid"
  BY <1>1
<1>5. sig[1] # "Bytes64" \/ publisher[1] # "Bytes32" => Frame_!verify_publisher(f) # "Ok"
  BY <1>1
<1>6. Frame_!verify_publisher(f) = "Ok" => sig = good /\ publisher[1] = "Bytes32"
  BY <1>4, <1>5
<1>7. QED BY <1>3, <1>4, <1>6 DEF sig, good, publisher

\* What a subscriber reads of an EVENT is what the publisher signed, whoever has delivered it:
\* two frames that are good under one publisher_sig name one publisher and agree on the topic,
\* the realm, the number and the payload (frame.rs publisher_signing_bytes, verify_publisher).
THEOREM PublisherBinds ==
  ASSUME NEW f, NEW g, Frame_!get(f, "publisher_sig") = Frame_!get(g, "publisher_sig"),
         Frame_!verify_publisher(f) = "Ok", Frame_!verify_publisher(g) = "Ok"
  PROVE  /\ Frame_!get(f, "publisher") = Frame_!get(g, "publisher")
         /\ \A name \in Published : Shown(f, name) = Shown(g, name)
<1>1. \A h : Frame_!verify_publisher(h) = "Ok" =>
        /\ Frame_!get(h, "publisher")[1] = "Bytes32"
        /\ Frame_!get(h, "publisher_sig")
             = Frame_!Sig(Frame_!get(h, "publisher")[2], "macula-v2-event-pub",
                          Frame_!publisher_signing_bytes(h))
  BY VerifyPublisherIs
<1>2. Frame_!publisher_signing_bytes(f) = Frame_!publisher_signing_bytes(g)
  BY <1>1, SigIs
<1>3. \A name \in Published : Shown(f, name) = Shown(g, name)
  BY <1>2, PublisherBytes
<1>4. \A h : Frame_!verify_publisher(h) = "Ok" => Shown(h, "publisher") = Frame_!get(h, "publisher")
  <2>1. Frame_!Missing[1] # "Bytes32"
    BY DEF Frame_!Missing
  <2>2. QED BY <1>1, <2>1 DEF Shown
<1>5. "publisher" \in Published
  BY DEF Published
<1>6. Frame_!get(f, "publisher") = Frame_!get(g, "publisher")
  BY <1>3, <1>4, <1>5
<1>7. QED BY <1>3, <1>6

\* None of the four fields a subscriber takes from the publisher can be set to another value
\* without verify_publisher refusing it (frame.rs publisher_signing_bytes, verify_publisher).
THEOREM EventTamper ==
  ASSUME NEW f, Plain(f), Frame_!verify_publisher(f) = "Ok",
         NEW name \in Published \ {"publisher"}, NEW value, value # Frame_!Missing,
         value # Shown(f, name)
  PROVE  Frame_!verify_publisher(Frame_!with_field(f, name, value)) = "PublisherSigInvalid"
<1> DEFINE g == Frame_!with_field(f, name, value)
           publisher == Frame_!get(f, "publisher")
<1> HIDE DEF g
<1>1. name # "publisher_sig" /\ name # "publisher" /\ name \in Published
  BY DEF Published
<1>2. /\ Frame_!get(g, name) = value
      /\ \A other : other # name => Frame_!get(g, other) = Frame_!get(f, other)
  BY WithFieldIs DEF g
<1>3. Shown(g, name) # Shown(f, name)
  BY <1>2 DEF Shown
<1>4. Frame_!publisher_signing_bytes(g) # Frame_!publisher_signing_bytes(f)
  BY <1>1, <1>3, PublisherBytes
<1>5. /\ publisher[1] = "Bytes32"
      /\ Frame_!get(f, "publisher_sig")
           = Frame_!Sig(publisher[2], "macula-v2-event-pub", Frame_!publisher_signing_bytes(f))
  BY VerifyPublisherIs
<1>6. Frame_!get(g, "publisher") = publisher
      /\ Frame_!get(g, "publisher_sig") = Frame_!get(f, "publisher_sig")
  BY <1>1, <1>2
<1> HIDE DEF publisher
<1>7. /\ Frame_!get(g, "publisher_sig")[1] = "Bytes64"
      /\ Frame_!get(g, "publisher_sig")
           # Frame_!Sig(publisher[2], "macula-v2-event-pub", Frame_!publisher_signing_bytes(g))
  BY <1>4, <1>5, <1>6, SigIs
<1>8. Frame_!verify_publisher(g) = "PublisherSigInvalid"
  BY <1>5, <1>6, <1>7, VerifyPublisherIs
<1>9. QED BY <1>8 DEF g

\* The frame with the publisher's signature: good when the key is the one it names.
LEMMA SignPublisherIs ==
  ASSUME NEW f, Plain(f), NEW id
  PROVE  LET g == Frame_!sign_publisher(f, id)
         IN /\ Plain(g)
            /\ NamesIn(g) = NamesIn(f) \cup {"publisher_sig"}
            /\ \A name : name # "publisher_sig" => Frame_!get(g, name) = Frame_!get(f, name)
            /\ Frame_!get(g, "publisher_sig")
                 = Frame_!Sig(id, "macula-v2-event-pub", Frame_!publisher_signing_bytes(f))
            /\ Frame_!get(f, "publisher") = <<"Bytes32", id>> => Frame_!verify_publisher(g) = "Ok"
            /\ \A other : Frame_!get(f, "publisher") = <<"Bytes32", other>> /\ other # id
                 => Frame_!verify_publisher(g) = "PublisherSigInvalid"
<1> DEFINE g == Frame_!sign_publisher(f, id)
           s == Frame_!Sig(id, "macula-v2-event-pub", Frame_!publisher_signing_bytes(f))
<1>1. g = Frame_!with_field(f, "publisher_sig", s)
  BY DEF Frame_!sign_publisher
<1> HIDE DEF g, s
<1>2. /\ Plain(g)
      /\ NamesIn(g) = NamesIn(f) \cup {"publisher_sig"}
      /\ Frame_!get(g, "publisher_sig") = s
      /\ \A name : name # "publisher_sig" => Frame_!get(g, name) = Frame_!get(f, name)
  BY <1>1, WithFieldIs
<1>3. Frame_!publisher_signing_bytes(g) = Frame_!publisher_signing_bytes(f)
  <2>1. \A name \in Published : name # "publisher_sig"
    BY DEF Published
  <2>2. \A name \in Published : Shown(g, name) = Shown(f, name)
    BY <1>2, <2>1 DEF Shown
  <2>3. QED BY <2>2, PublisherBytes
<1>4. Frame_!get(g, "publisher") = Frame_!get(f, "publisher")
  BY <1>2
<1>5. ASSUME Frame_!get(f, "publisher") = <<"Bytes32", id>>
      PROVE  Frame_!verify_publisher(g) = "Ok"
  <2>1. Frame_!get(g, "publisher")[1] = "Bytes32" /\ Frame_!get(g, "publisher")[2] = id
    BY <1>4, <1>5
  <2>2. QED BY <1>2, <1>3, <2>1, VerifyPublisherIs DEF s
<1>6. ASSUME NEW other, Frame_!get(f, "publisher") = <<"Bytes32", other>>, other # id
      PROVE  Frame_!verify_publisher(g) = "PublisherSigInvalid"
  <2>1. Frame_!get(g, "publisher")[1] = "Bytes32" /\ Frame_!get(g, "publisher")[2] = other
    BY <1>4, <1>6
  <2>2. s[1] = "Bytes64"
        /\ s # Frame_!Sig(other, "macula-v2-event-pub", Frame_!publisher_signing_bytes(g))
    BY <1>6, SigIs DEF s
  <2>3. QED BY <1>2, <2>1, <2>2, VerifyPublisherIs
<1>7. QED BY <1>2, <1>5, <1>6 DEF g, s

\* What a station makes of a PUBLISH and the wire of that: an EVENT of the station, with
\* every other field and the publisher's signature as the publisher had them.
LEMMA RelayIs ==
  ASSUME NEW f, Plain(f), NEW station
  PROVE  LET event == Frame_!Delivered(Frame_!relay(f, station))
         IN /\ Plain(event)
            /\ Frame_!verify(event, station) = "Ok"
            /\ Frame_!get(event, "frame_type") = Frame_!Text("event")
            /\ Frame_!get(event, "delivered_via") = Frame_!Text("gossip")
            /\ \A name : name \notin {"published_at_ms", "ttl_ms", "frame_type",
                                      "delivered_via", "signature"}
                 => Frame_!get(event, name) = Frame_!get(f, name)
            /\ Frame_!verify_publisher(event) = Frame_!verify_publisher(f)
            /\ Frame_!verify_publisher(Frame_!relay(f, station)) = Frame_!verify_publisher(f)
<1> DEFINE a == Frame_!without(f, {"published_at_ms", "ttl_ms"})
           b == Frame_!with_field(a, "frame_type", Frame_!Text("event"))
           c == Frame_!with_field(b, "delivered_via", Frame_!Text("gossip"))
           d == Frame_!sign(c, station)
           e == Frame_!Delivered(d)
<1>1. Frame_!relay(f, station) = d
  BY DEF Frame_!relay
<1>2. /\ Plain(a)
      /\ \A name : name \notin {"published_at_ms", "ttl_ms"}
           => Frame_!get(a, name) = Frame_!get(f, name)
  BY WithoutIs
<1> HIDE DEF a
<1>3. /\ Plain(b) /\ Frame_!get(b, "frame_type") = Frame_!Text("event")
      /\ \A name : name # "frame_type" => Frame_!get(b, name) = Frame_!get(a, name)
  BY <1>2, WithFieldIs
<1> HIDE DEF b
<1>4. /\ Plain(c) /\ Frame_!get(c, "delivered_via") = Frame_!Text("gossip")
      /\ \A name : name # "delivered_via" => Frame_!get(c, name) = Frame_!get(b, name)
  BY <1>3, WithFieldIs
<1> HIDE DEF c
<1>5. /\ Plain(d) /\ Frame_!verify(d, station) = "Ok"
      /\ \A name : name # "signature" => Frame_!get(d, name) = Frame_!get(c, name)
  BY <1>4, SignIs
<1> HIDE DEF d
<1>6. Plain(e) /\ Same(e, d)
  BY <1>5, DeliveredIs
<1> HIDE DEF e
<1>7. Frame_!verify(e, station) = "Ok"
  BY <1>5, <1>6, SameVerified
<1>8. \A name : Frame_!get(e, name) = Frame_!get(d, name)
  BY <1>6 DEF Same
<1>9. Frame_!get(e, "frame_type") = Frame_!Text("event")
      /\ Frame_!get(e, "delivered_via") = Frame_!Text("gossip")
  BY <1>3, <1>4, <1>5, <1>8
<1>10. \A name : name \notin {"published_at_ms", "ttl_ms", "frame_type", "delivered_via", "signature"}
         => Frame_!get(e, name) = Frame_!get(f, name)
  BY <1>2, <1>3, <1>4, <1>5, <1>8
<1>11. Frame_!verify_publisher(e) = Frame_!verify_publisher(f)
  <2>1. \A name \in Published : name \notin {"published_at_ms", "ttl_ms", "frame_type",
                                             "delivered_via", "signature"}
    BY DEF Published
  <2>2. \A name \in Published : Shown(e, name) = Shown(f, name)
    BY <1>10, <2>1 DEF Shown
  <2>3. Frame_!publisher_signing_bytes(e) = Frame_!publisher_signing_bytes(f)
    BY <2>2, PublisherBytes
  <2>4. Frame_!get(e, "publisher") = Frame_!get(f, "publisher")
        /\ Frame_!get(e, "publisher_sig") = Frame_!get(f, "publisher_sig")
    BY <1>10
  <2>5. QED BY <2>3, <2>4 DEF Frame_!verify_publisher
<1>12. Frame_!verify_publisher(d) = Frame_!verify_publisher(f)
  BY <1>5, <1>6, <1>11, SameVerified
<1>13. QED BY <1>1, <1>6, <1>7, <1>9, <1>10, <1>11, <1>12 DEF e

-----------------------------------------------------------------------------
(* Frames: what is built, and what is parsed of it.                         *)

\* Every form a constructor sets a field in.
Forms == {"any", "any?", "b16", "b32", "signer", "b32?", "b32s", "list", "bytes", "string",
          "string?", "text", "bool", "mode", "encoding", "role", "int", "uint", "u8", "int?",
          "null", "empty", "code_name"}

\* A list of fields with each name once, none of them one that is not the constructor's to set.
Settable(fields) ==
  /\ Len(fields) \in Nat /\ DOMAIN fields = 1..Len(fields)
  /\ \A j, k \in 1..Len(fields) : fields[j][1] = fields[k][1] => j = k
  /\ \A k \in 1..Len(fields) :
       /\ fields[k][1] \notin {"frame_type", "signature", "publisher_sig", "other"}
       /\ fields[k][2] \in Forms

\* The fields that each constructor sets are set once each, in a known form, and none of them is
\* the type or a signature (frame.rs connect, hello, call, ..., stream_reply).
LEMMA Tables == \A type \in DOMAIN Frame_!Sets : Settable(Frame_!Sets[type])
<1>1. DOMAIN Frame_!Sets = {"connect", "hello", "goodbye", "call", "result", "error", "publish",
        "subscribe", "unsubscribe", "advertise", "unadvertise", "stream_open", "stream_data",
        "stream_end", "stream_error", "stream_reply"}
  BY DEF Frame_!Sets
<1>2. Settable(Frame_!connect)
  BY DEF Settable, Forms, Frame_!connect
<1>3. Settable(Frame_!hello)
  BY DEF Settable, Forms, Frame_!hello
<1>4. Settable(Frame_!goodbye)
  BY DEF Settable, Forms, Frame_!goodbye
<1>5. Settable(Frame_!call)
  BY DEF Settable, Forms, Frame_!call
<1>6. Settable(Frame_!result)
  BY DEF Settable, Forms, Frame_!result
<1>7. Settable(Frame_!call_error)
  BY DEF Settable, Forms, Frame_!call_error
<1>8. Settable(Frame_!publish)
  BY DEF Settable, Forms, Frame_!publish
<1>9. Settable(Frame_!subscribe)
  BY DEF Settable, Forms, Frame_!subscribe
<1>10. Settable(Frame_!unsubscribe)
  BY DEF Settable, Forms, Frame_!unsubscribe
<1>11. Settable(Frame_!advertise)
  BY DEF Settable, Forms, Frame_!advertise
<1>12. Settable(Frame_!unadvertise)
  BY DEF Settable, Forms, Frame_!unadvertise
<1>13. Settable(Frame_!stream_open)
  BY DEF Settable, Forms, Frame_!stream_open
<1>14. Settable(Frame_!stream_data)
  BY DEF Settable, Forms, Frame_!stream_data
<1>15. Settable(Frame_!stream_end)
  BY DEF Settable, Forms, Frame_!stream_end
<1>16. Settable(Frame_!stream_error)
  BY DEF Settable, Forms, Frame_!stream_error
<1>17. Settable(Frame_!stream_reply)
  BY DEF Settable, Forms, Frame_!stream_reply
<1>18. QED
  BY <1>1, <1>2, <1>3, <1>4, <1>5, <1>6, <1>7, <1>8, <1>9, <1>10, <1>11, <1>12, <1>13, <1>14,
     <1>15, <1>16, <1>17 DEF Frame_!Sets

\* A field that a constructor leaves out, and the value of one that it sets.
LeftOut(field, spec) == field[2] = "signer" /\ spec[field[1]] = Absent
ValueOf(field, spec) ==
  IF field[2] = "code_name" THEN Frame_!Text(Frame_!code_name(spec["code"]))
  ELSE Frame_!Form(field[2], spec[field[1]])

\* The name of a code goes with the code, and everything else is set from its own option
\* (frame.rs call_error, stamp_signer).
LEMMA SetIs ==
  ASSUME NEW f, NEW field, NEW spec
  PROVE  Frame_!Set(f, field, spec) = IF LeftOut(field, spec) THEN f
                                      ELSE Frame_!with_field(f, field[1], ValueOf(field, spec))
BY DEF Frame_!Set, LeftOut, ValueOf

\* g is what a fold with T over any of the places of a list comes to.
ListFolds(g, n, A, first, T) ==
  /\ g \in [SUBSET (1..n) -> A]
  /\ \A s \in SUBSET (1..n) :
       /\ g[s] = IF s = {} THEN first ELSE T[<<g[s \ {Top(s)}], Top(s)>>]
       /\ s # {} => Top(s) \in 1..n /\ g[s \ {Top(s)}] \in A

\* There is an outcome for each of them.
LEMMA ListFold ==
  ASSUME NEW n \in Nat, NEW A, NEW first \in A, NEW T \in [A \X (1..n) -> A]
  PROVE  \E g : ListFolds(g, n, A, first, T)
<1> DEFINE D == 1..n
           ch == [s \in SUBSET D |-> Top(s)]
<1>1. IsFiniteSet(D) /\ Chooses(ch, D)
  <2>1. IsFiniteSet(D)
    BY FS_Interval
  <2>2. Chooses(ch, D)
    BY TopOf
  <2>3. QED BY <2>1, <2>2
<1>2. \A s \in SUBSET D : ch[s] = Top(s)
  OBVIOUS
<1> HIDE DEF ch
<1>3. PICK g : Folds(g, D, ch, A, first, T)
  BY <1>1, FoldExists
<1>4. g \in [SUBSET D -> A]
      /\ \A s \in SUBSET D : g[s] = IF s = {} THEN first ELSE T[<<g[s \ {ch[s]}], ch[s]>>]
  BY <1>3 DEF Folds
<1>5. \A s \in SUBSET D : s # {} => Top(s) \in D /\ g[s \ {Top(s)}] \in A
  BY <1>1, <1>2, <1>4 DEF Chooses
<1>6. QED BY <1>2, <1>4, <1>5 DEF ListFolds

\* with_field keeps to the kind of the fields it is given.
LEMMA WithFieldType ==
  ASSUME NEW V, NEW f \in Seq(V), NEW name, NEW value, <<name, value>> \in V
  PROVE  Frame_!with_field(f, name, value) \in Seq(V)
<1> DEFINE P == Frame_!Places(f, name)
           pair == <<name, value>>
<1>1. Len(f) \in Nat /\ DOMAIN f = 1..Len(f) /\ f \in [1..Len(f) -> V]
  OBVIOUS
<1>2. CASE P = {}
  <2>1. Frame_!with_field(f, name, value) = Append(f, pair)
    BY <1>2 DEF Frame_!with_field
  <2> HIDE DEF pair
  <2>2. QED BY <2>1 DEF pair
<1>3. CASE P # {}
  <2>1. Frame_!with_field(f, name, value) = [f EXCEPT ![Frame_!Least(P)] = pair]
    BY <1>3 DEF Frame_!with_field
  <2> HIDE DEF pair
  <2>2. [f EXCEPT ![Frame_!Least(P)] = pair] \in [1..Len(f) -> V]
    BY <1>1 DEF pair
  <2>3. QED BY <1>1, <2>1, <2>2
<1>4. QED BY <1>2, <1>3

\* A constructor sets its fields one after the other in the envelope (frame.rs call, result,
\* publish, ...).
LEMMA BuildSteps ==
  ASSUME NEW type \in DOMAIN Frame_!Sets, NEW spec
  PROVE  LET fields == Frame_!Sets[type]
         IN \E w : /\ w[0] = Frame_!base(type)
                   /\ \A k \in 1..Len(fields) : w[k] = Frame_!Set(w[k - 1], fields[k], spec)
                   /\ Frame_!Build(type, spec) = w[Len(fields)]
<1> DEFINE fields == Frame_!Sets[type]
           n == Len(fields)
           D == 1..n
           first == Frame_!base(type)
           V == {first[k] : k \in 1..8}
                  \cup {<<fields[k][1], ValueOf(fields[k], spec)>> : k \in 1..n}
           A == Seq(V)
           Op(a, k) == Frame_!Set(a, fields[k], spec)
           T == [p \in A \X D |-> Op(p[1], p[2])]
           Defines(g) == g = [s \in SUBSET D |-> IF s = {} THEN first ELSE Op(g[s \ {Top(s)}], Top(s))]
           it == CHOOSE g : Defines(g)
<1>1. n \in Nat /\ DOMAIN fields = D
  BY Tables DEF Settable
<1>2. Frame_!Build(type, spec) = it[D]
  BY <1>1 DEF Frame_!Build, Frame_!FoldLeft, Frame_!MapThenFoldSet, Frame_!Max, Top
<1>3. first \in A
  <2>1. Len(first) = 8 /\ first \in Seq({first[k] : k \in 1..8})
    BY DEF Frame_!base
  <2> HIDE DEF first
  <2>2. QED BY <2>1
<1>4. ASSUME NEW a \in A, NEW k \in D
      PROVE  Op(a, k) \in A
  <2>1. <<fields[k][1], ValueOf(fields[k], spec)>> \in V
    OBVIOUS
  <2> HIDE DEF V, fields
  <2>2. Frame_!with_field(a, fields[k][1], ValueOf(fields[k], spec)) \in A
    BY <2>1, WithFieldType
  <2>3. QED BY <2>2, SetIs
<1>5. T \in [A \X D -> A]
  <2> HIDE DEF A, D, Op
  <2>1. \A p \in A \X D : p[1] \in A /\ p[2] \in D
    OBVIOUS
  <2>2. QED BY <1>4, <2>1
<1> HIDE DEF it
<1>6. \E g : Defines(g)
  <2> HIDE DEF Op, A, first
  <2>1. \A a \in A, k \in D : T[<<a, k>>] = Op(a, k)
    OBVIOUS
  <2> HIDE DEF T, n
  <2>2. PICK g : ListFolds(g, n, A, first, T)
    BY <1>1, <1>3, <1>5, ListFold
  <2> HIDE DEF D
  <2>3. /\ g \in [SUBSET D -> A]
        /\ \A s \in SUBSET D : g[s] = IF s = {} THEN first ELSE T[<<g[s \ {Top(s)}], Top(s)>>]
        /\ \A s \in SUBSET D : s # {} => Top(s) \in D /\ g[s \ {Top(s)}] \in A
    BY <2>2 DEF ListFolds, D
  <2>4. ASSUME NEW s \in SUBSET D, s # {}
        PROVE  g[s] = Op(g[s \ {Top(s)}], Top(s))
    <3>1. Top(s) \in D /\ g[s \ {Top(s)}] \in A
      BY <2>3, <2>4
    <3>2. g[s] = T[<<g[s \ {Top(s)}], Top(s)>>]
      BY <2>3, <2>4
    <3>3. QED BY <2>1, <3>1, <3>2
  <2>5. \A s \in SUBSET D : g[s] = IF s = {} THEN first ELSE Op(g[s \ {Top(s)}], Top(s))
    BY <2>3, <2>4
  <2>6. QED BY <2>3, <2>5
<1>7. Defines(it)
  <2> HIDE DEF Defines
  <2> QED BY <1>6 DEF it
<1>8. \A s \in SUBSET D : it[s] = IF s = {} THEN first ELSE Op(it[s \ {Top(s)}], Top(s))
  <2> HIDE DEF Op, first
  <2> QED BY <1>7
<1> HIDE DEF Defines, A, T
<1> DEFINE w == [k \in 0..n |-> it[1..k]]
<1>9. w[0] = first /\ w[n] = it[D]
  <2> HIDE DEF Op, first
  <2>1. 1..0 = {} /\ 0 \in 0..n /\ n \in 0..n
    BY <1>1
  <2>2. it[{}] = first
    BY <1>8
  <2> HIDE DEF n
  <2>3. QED BY <2>1, <2>2
<1>10. ASSUME NEW k \in 1..n
       PROVE  w[k] = Op(w[k - 1], k)
  <2> HIDE DEF Op, first
  <2> HIDE DEF n
  <2>1. 1..k \in SUBSET D /\ 1..k # {} /\ k \in 0..n /\ k - 1 \in 0..n
    BY <1>1
  <2>2. Top(1..k) = k /\ (1..k) \ {k} = 1..(k - 1)
    BY <1>1, TopOf
  <2> HIDE DEF D
  <2>3. it[1..k] = Op(it[1..(k - 1)], k)
    BY <1>8, <2>1, <2>2
  <2>4. w[k] = it[1..k] /\ w[k - 1] = it[1..(k - 1)]
    BY <2>1
  <2> HIDE DEF w
  <2>5. QED BY <2>3, <2>4
<1> HIDE DEF w
<1>11. QED BY <1>2, <1>9, <1>10

\* The names in the envelope of every frame, and in what a constructor sets of its own.
InEnvelope == {"version", "frame_type", "frame_id", "sent_at_ms", "capabilities", "realm",
               "call_id", "source_route"}
SetBy(type, spec, m) ==
  {Frame_!Sets[type][k][1] : k \in {j \in 1..m : ~LeftOut(Frame_!Sets[type][j], spec)}}

\* The envelope has each name once, and none of its values is that of a tamperer
\* (frame.rs base).
LEMMA BaseIs ==
  ASSUME NEW type
  PROVE  /\ Plain(Frame_!base(type))
         /\ NamesIn(Frame_!base(type)) = InEnvelope
         /\ Frame_!get(Frame_!base(type), "frame_type") = Frame_!Text(type)
         /\ \A name \in InEnvelope : Frame_!get(Frame_!base(type), name) # <<"Int", 77>>
<1> DEFINE f == Frame_!base(type)
<1>1. /\ Len(f) = 8 /\ DOMAIN f = 1..8
      /\ f \in Seq({f[k] : k \in 1..8})
      /\ f[1][1] = "version" /\ f[2][1] = "frame_type" /\ f[3][1] = "frame_id"
      /\ f[4][1] = "sent_at_ms" /\ f[5][1] = "capabilities" /\ f[6][1] = "realm"
      /\ f[7][1] = "call_id" /\ f[8][1] = "source_route"
      /\ f[2][2] = Frame_!Text(type)
      /\ \A k \in 1..8 : f[k][2] # <<"Int", 77>>
  BY DEF Frame_!base, Frame_!Text, Frame_!Null
<1> HIDE DEF f
<1>2. \A j, k \in 1..8 : f[j][1] = f[k][1] => j = k
  BY <1>1
<1>3. Plain(f)
  BY <1>1, <1>2, PlainBy
<1>4. NamesIn(f) = InEnvelope
  <2>1. \A k \in 1..8 : f[k][1] \in InEnvelope
    BY <1>1 DEF InEnvelope
  <2>2. \A name \in InEnvelope : \E k \in 1..8 : name = f[k][1]
    BY <1>1 DEF InEnvelope
  <2>3. NamesIn(f) = {f[k][1] : k \in 1..8}
    BY <1>1 DEF NamesIn
  <2>4. QED BY <2>1, <2>2, <2>3
<1>5. \A k \in 1..8 : Frame_!get(f, f[k][1]) = f[k][2]
  <2>1. \A k \in 1..Len(f) : Frame_!get(f, f[k][1]) = f[k][2]
    BY <1>3, GetIs
  <2>2. QED BY <1>1, <2>1
<1>6. Frame_!get(f, "frame_type") = Frame_!Text(type)
  BY <1>1, <1>5
<1>7. ASSUME NEW name \in InEnvelope
      PROVE  Frame_!get(f, name) # <<"Int", 77>>
  <2>1. PICK k \in 1..8 : name = f[k][1]
    BY <1>1, <1>4 DEF NamesIn
  <2>2. QED BY <1>1, <1>5, <2>1
<1>8. QED BY <1>3, <1>4, <1>6, <1>7 DEF f

\* What a constructor builds: the envelope, with each field it sets at the value of the
\* option it has for it, once (frame.rs call, result, publish, ...).
LEMMA BuildIs ==
  ASSUME NEW type \in DOMAIN Frame_!Sets, NEW spec
  PROVE  LET fields == Frame_!Sets[type]
             n == Len(fields)
             f == Frame_!Build(type, spec)
         IN /\ Plain(f)
            /\ NamesIn(f) = InEnvelope \cup SetBy(type, spec, n)
            /\ \A k \in 1..n : ~LeftOut(fields[k], spec)
                 => Frame_!get(f, fields[k][1]) = ValueOf(fields[k], spec)
            /\ \A name : name \notin SetBy(type, spec, n)
                 => Frame_!get(f, name) = Frame_!get(Frame_!base(type), name)
<1> DEFINE fields == Frame_!Sets[type]
           n == Len(fields)
           f == Frame_!Build(type, spec)
           first == Frame_!base(type)
           S(m) == SetBy(type, spec, m)
<1>1. n \in Nat /\ \A j, k \in 1..n : fields[j][1] = fields[k][1] => j = k
  BY Tables DEF Settable
<1>2. PICK w : /\ w[0] = first
               /\ \A k \in 1..n : w[k] = Frame_!Set(w[k - 1], fields[k], spec)
               /\ f = w[n]
  BY BuildSteps
<1> DEFINE Good(m) ==
             /\ Plain(w[m])
             /\ NamesIn(w[m]) = InEnvelope \cup S(m)
             /\ \A k \in 1..m : ~LeftOut(fields[k], spec)
                  => Frame_!get(w[m], fields[k][1]) = ValueOf(fields[k], spec)
             /\ \A name : name \notin S(m) => Frame_!get(w[m], name) = Frame_!get(first, name)
           P == {m \in Nat : m <= n => Good(m)}
<1> HIDE DEF f, first, n
<1>3. 0 \in P
  <2>1. 1..0 = {}
    OBVIOUS
  <2>2. S(0) = {}
    BY <2>1 DEF SetBy
  <2>3. Plain(first) /\ NamesIn(first) = InEnvelope
    BY BaseIs DEF first
  <2> HIDE DEF S
  <2>4. Good(0)
    BY <1>2, <2>1, <2>2, <2>3
  <2>5. QED BY <2>4
<1>4. ASSUME NEW m \in Nat, m \in P
      PROVE  m + 1 \in P
  <2> SUFFICES ASSUME m + 1 <= n
               PROVE  Good(m + 1)
    OBVIOUS
  <2> DEFINE l == m + 1
             field == fields[l]
             a == w[m]
             b == w[l]
  <2>1. l \in 1..n /\ l - 1 = m /\ m <= n /\ l \notin 1..m /\ 1..m \subseteq 1..n
        /\ (\A k \in 1..l : k \in 1..m \/ k = l) /\ l \in 1..l /\ 1..m \subseteq 1..l
    BY <1>1
  <2>2. Good(m)
    BY <1>4, <2>1
  <2>3. b = IF LeftOut(field, spec) THEN a
            ELSE Frame_!with_field(a, field[1], ValueOf(field, spec))
    BY <1>2, <2>1, SetIs
  <2>4. /\ Plain(a)
        /\ NamesIn(a) = InEnvelope \cup S(m)
        /\ \A k \in 1..m : ~LeftOut(fields[k], spec)
             => Frame_!get(a, fields[k][1]) = ValueOf(fields[k], spec)
        /\ \A name : name \notin S(m) => Frame_!get(a, name) = Frame_!get(first, name)
    BY <2>2
  <2>5. \A k \in 1..m : fields[k][1] # field[1]
    BY <1>1, <2>1
  <2>6. S(l) = IF LeftOut(field, spec) THEN S(m) ELSE S(m) \cup {field[1]}
    <3> HIDE DEF l
    <3> QED BY <2>1 DEF SetBy
  <2> HIDE DEF l, a, b, S, fields
  <2>7. CASE LeftOut(field, spec)
    <3>1. b = a /\ S(l) = S(m)
      BY <2>3, <2>6, <2>7
    <3>2. \A k \in 1..l : ~LeftOut(fields[k], spec)
             => Frame_!get(b, fields[k][1]) = ValueOf(fields[k], spec)
      BY <2>1, <2>4, <2>7, <3>1
    <3>3. QED BY <2>4, <3>1, <3>2 DEF b, l
  <2>8. CASE ~LeftOut(field, spec)
    <3>1. b = Frame_!with_field(a, field[1], ValueOf(field, spec)) /\ S(l) = S(m) \cup {field[1]}
      BY <2>3, <2>6, <2>8
    <3> HIDE DEF field
    <3>2. /\ Plain(b)
          /\ NamesIn(b) = NamesIn(a) \cup {field[1]}
          /\ Frame_!get(b, field[1]) = ValueOf(field, spec)
          /\ \A name : name # field[1] => Frame_!get(b, name) = Frame_!get(a, name)
      BY <2>4, <3>1, WithFieldIs
    <3>3. NamesIn(b) = InEnvelope \cup S(l)
      BY <2>4, <3>1, <3>2
    <3>4. \A k \in 1..l : ~LeftOut(fields[k], spec)
             => Frame_!get(b, fields[k][1]) = ValueOf(fields[k], spec)
      BY <2>1, <2>4, <2>5, <3>2 DEF field
    <3>5. \A name : name \notin S(l) => Frame_!get(b, name) = Frame_!get(first, name)
      BY <2>4, <3>1, <3>2
    <3>6. QED BY <3>2, <3>3, <3>4, <3>5 DEF b, l
  <2>9. QED BY <2>7, <2>8
<1>5. Good(n)
  <2>1. Nat \subseteq P
    <3> HIDE DEF P
    <3> QED BY <1>3, <1>4, CountUp
  <2>2. n \in P /\ n <= n
    BY <1>1, <2>1
  <2> HIDE DEF Good
  <2>3. QED BY <2>2
<1>6. QED BY <1>2, <1>5 DEF f, n, first

\* What the type of an option allows: a Value is a value, a u64 is not negative, an enum is
\* one of its names, a Vec is a list.
Typed(form, x) ==
  /\ form = "any" => x # Frame_!Missing
  /\ form = "uint" => x \in Nat
  /\ form = "u8" => x \in 0..255
  /\ form \in {"mode", "encoding", "role"} => x \in Frame_!Names[form]
  /\ form = "bool" => x \in {"true", "false"}
  /\ form = "b32s" => x = [k \in DOMAIN x |-> x[k]]

WellTyped(type, spec) ==
  \A k \in 1..Len(Frame_!Sets[type]) :
    Typed(Frame_!Sets[type][k][2], spec[Frame_!Sets[type][k][1]])

\* The forms that are read as they are set; a token is optional for the reader only, and the
\* name of a code is text.
ReadForms == {"any", "b16", "b32", "b32s", "string", "string?", "int", "int?", "uint", "u8",
              "bool", "mode", "encoding", "role"}
Agree(set, read) ==
  \/ set = read /\ set \in ReadForms
  \/ set = "bytes" /\ read = "bytes!"
  \/ set = "code_name" /\ read = "text"

\* The value that a parser gives back for the option x of a form that it agrees with is x
\* (frame.rs get_bytes, get_i128, get_string, ...).
LEMMA TakenIs ==
  ASSUME NEW set, NEW read, Agree(set, read), set # "code_name", NEW x, Typed(set, x)
  PROVE  LET v == Frame_!Form(set, x)
         IN v # Frame_!Missing /\ Frame_!Takes(read, v) /\ Frame_!Taken(read, v) = x
<1>1. CASE set = "bytes" /\ read = "bytes!"
  BY <1>1 DEF Frame_!Form, Frame_!Takes, Frame_!Taken, Frame_!Missing
<1>2. CASE set = read /\ set = "any"
  BY <1>2 DEF Frame_!Form, Frame_!Takes, Frame_!Taken, Typed
<1>3. CASE set = read /\ set = "b16"
  BY <1>3 DEF Frame_!Form, Frame_!Takes, Frame_!Taken, Frame_!Missing
<1>4. CASE set = read /\ set = "b32"
  BY <1>4 DEF Frame_!Form, Frame_!Takes, Frame_!Taken, Frame_!Missing
<1>5. CASE set = read /\ set = "b32s"
  <2> DEFINE l == [k \in DOMAIN x |-> <<"Bytes32", x[k]>>]
             v == Frame_!Form(set, x)
  <2>1. v = <<"List", l>>
    BY <1>5 DEF Frame_!Form
  <2>2. DOMAIN l = DOMAIN x /\ \A k \in DOMAIN x : l[k][1] = "Bytes32" /\ l[k][2] = x[k]
    OBVIOUS
  <2> HIDE DEF l, v
  <2>3. v[1] = "List" /\ v[2] = l /\ v # Frame_!Missing
    BY <2>1 DEF Frame_!Missing
  <2>4. Frame_!Takes(read, v)
    BY <1>5, <2>2, <2>3 DEF Frame_!Takes
  <2>5. Frame_!Taken(read, v) = [k \in DOMAIN l |-> l[k][2]]
    BY <1>5, <2>3 DEF Frame_!Taken
  <2>6. [k \in DOMAIN l |-> l[k][2]] = [k \in DOMAIN x |-> x[k]]
    BY <2>2
  <2>7. x = [k \in DOMAIN x |-> x[k]]
    BY <1>5 DEF Typed
  <2>8. QED BY <2>3, <2>4, <2>5, <2>6, <2>7 DEF v
<1>6. CASE set = read /\ set = "string"
  BY <1>6 DEF Frame_!Form, Frame_!Takes, Frame_!Taken, Frame_!Missing
<1>7. CASE set = read /\ set = "string?"
  BY <1>7 DEF Frame_!Form, Frame_!Takes, Frame_!Taken, Frame_!Missing, Frame_!Null
<1>8. CASE set = read /\ set = "int"
  BY <1>8 DEF Frame_!Form, Frame_!Takes, Frame_!Taken, Frame_!Missing
<1>9. CASE set = read /\ set = "int?"
  BY <1>9 DEF Frame_!Form, Frame_!Takes, Frame_!Taken, Frame_!Missing, Frame_!Null
<1>10. CASE set = read /\ set = "uint"
  BY <1>10 DEF Frame_!Form, Frame_!Takes, Frame_!Taken, Frame_!Missing, Typed
<1>11. CASE set = read /\ set = "u8"
  BY <1>11 DEF Frame_!Form, Frame_!Takes, Frame_!Taken, Frame_!Missing, Typed
<1>12. CASE set = read /\ set = "bool"
  BY <1>12 DEF Frame_!Form, Frame_!Takes, Frame_!Taken, Frame_!Missing, Frame_!Text, Typed
<1>13. CASE set = read /\ set \in {"mode", "encoding", "role"}
  BY <1>13 DEF Frame_!Form, Frame_!Takes, Frame_!Taken, Frame_!Missing, Frame_!Text, Typed
<1>14. QED
  BY <1>1, <1>2, <1>3, <1>4, <1>5, <1>6, <1>7, <1>8, <1>9, <1>10, <1>11, <1>12, <1>13
     DEF Agree, ReadForms

\* Every field that a parser reads is one that the constructor of the same frame sets, in a
\* form that they agree on.
Matches(fields, reads) ==
  /\ Len(reads) \in Nat /\ DOMAIN reads = 1..Len(reads)
  /\ \A j, k \in 1..Len(reads) : reads[j][1] = reads[k][1] => j = k
  /\ \A k \in 1..Len(reads) :
       \E j \in 1..Len(fields) : /\ fields[j][1] = reads[k][1]
                                 /\ Agree(fields[j][2], reads[k][2])

\* The tables of the parsers match those of the constructors (frame.rs parse_call and call,
\* parse_hello, parse_stream_open and stream_open, ...).
LEMMA TablesMatch ==
  \A type \in DOMAIN Frame_!Sets \cap DOMAIN Frame_!Reads :
    Matches(Frame_!Sets[type], Frame_!Reads[type])
<1>1. DOMAIN Frame_!Sets \cap DOMAIN Frame_!Reads =
        {"call", "result", "error", "hello", "stream_open", "stream_data", "stream_end",
         "stream_error", "stream_reply"}
  BY DEF Frame_!Sets, Frame_!Reads
<1>2. Matches(Frame_!call, Frame_!parse_call)
  BY DEF Matches, Agree, ReadForms, Frame_!call, Frame_!parse_call
<1>3. Matches(Frame_!result, Frame_!parse_result)
  BY DEF Matches, Agree, ReadForms, Frame_!result, Frame_!parse_result
<1>4. Matches(Frame_!call_error, Frame_!parse_error)
  BY DEF Matches, Agree, ReadForms, Frame_!call_error, Frame_!parse_error
<1>5. Matches(Frame_!hello, Frame_!parse_hello)
  BY DEF Matches, Agree, ReadForms, Frame_!hello, Frame_!parse_hello
<1>6. Matches(Frame_!stream_open, Frame_!parse_stream_open)
  BY DEF Matches, Agree, ReadForms, Frame_!stream_open, Frame_!parse_stream_open
<1>7. Matches(Frame_!stream_data, Frame_!parse_stream_data)
  BY DEF Matches, Agree, ReadForms, Frame_!stream_data, Frame_!parse_stream_data
<1>8. Matches(Frame_!stream_end, Frame_!parse_stream_end)
  BY DEF Matches, Agree, ReadForms, Frame_!stream_end, Frame_!parse_stream_end
<1>9. Matches(Frame_!stream_error, Frame_!parse_stream_error)
  BY DEF Matches, Agree, ReadForms, Frame_!stream_error, Frame_!parse_stream_error
<1>10. Matches(Frame_!stream_reply, Frame_!parse_stream_reply)
  BY DEF Matches, Agree, ReadForms, Frame_!stream_reply, Frame_!parse_stream_reply
<1>11. QED
  BY <1>1, <1>2, <1>3, <1>4, <1>5, <1>6, <1>7, <1>8, <1>9, <1>10 DEF Frame_!Sets, Frame_!Reads

\* Each field that the parser of a type reads is in f, of the type that it takes, and it makes
\* of each what is wanted.
Readable(type, f, want) ==
  LET reads == Frame_!Reads[type]
  IN /\ Len(reads) \in Nat /\ DOMAIN reads = 1..Len(reads)
     /\ \A j, k \in 1..Len(reads) : reads[j][1] = reads[k][1] => j = k
     /\ \A k \in 1..Len(reads) :
          LET v == Frame_!get(f, reads[k][1])
          IN /\ v # Frame_!Missing /\ Frame_!Takes(reads[k][2], v)
             /\ Frame_!Taken(reads[k][2], v) = want[reads[k][1]]

\* A parser whose fields are all there, each of the type it takes, gives back what it takes of
\* each (frame.rs parse_call, parse_hello, ...).
LEMMA FieldsTaken ==
  ASSUME NEW type, NEW f, NEW want,
         Readable(type, f, want)
  PROVE  /\ Frame_!Fields(type, f)[1] = "Ok"
         /\ DOMAIN Frame_!Fields(type, f)[2] =
              {Frame_!Reads[type][k][1] : k \in 1..Len(Frame_!Reads[type])}
         /\ \A name \in DOMAIN Frame_!Fields(type, f)[2] :
              Frame_!Fields(type, f)[2][name] = want[name]
<1> DEFINE reads == Frame_!Reads[type]
           v(k) == Frame_!get(f, reads[k][1])
           required(k) == reads[k][2] \notin {"string?", "int?", "bytes!"}
           bad == {k \in DOMAIN reads : IF v(k) = Frame_!Missing THEN required(k)
                                        ELSE ~Frame_!Takes(reads[k][2], v(k))}
           the(name) == CHOOSE j \in DOMAIN reads : reads[j][1] = name
           made == [name \in {reads[k][1] : k \in DOMAIN reads} |->
                      Frame_!Taken(reads[the(name)][2], v(the(name)))]
<1>1. Frame_!Fields(type, f) =
        IF bad = {} THEN <<"Ok", made>>
        ELSE <<IF v(Frame_!Least(bad)) = Frame_!Missing THEN "MissingField"
               ELSE "WrongFieldType", reads[Frame_!Least(bad)][1]>>
  BY DEF Frame_!Fields
<1>2. /\ DOMAIN reads = 1..Len(reads)
      /\ \A j, k \in 1..Len(reads) : reads[j][1] = reads[k][1] => j = k
      /\ \A k \in 1..Len(reads) : /\ v(k) # Frame_!Missing /\ Frame_!Takes(reads[k][2], v(k))
                                  /\ Frame_!Taken(reads[k][2], v(k)) = want[reads[k][1]]
  BY DEF Readable
<1> HIDE DEF v, reads
<1>3. bad = {}
  BY <1>2
<1> HIDE DEF bad
<1>4. ASSUME NEW name \in DOMAIN made
      PROVE  made[name] = want[name]
  <2>1. PICK k \in DOMAIN reads : name = reads[k][1]
    OBVIOUS
  <2>2. the(name) = k
    BY <1>2, <2>1
  <2>3. made[name] = Frame_!Taken(reads[k][2], v(k))
    BY <2>2
  <2>4. QED BY <1>2, <2>1, <2>3
<1>5. DOMAIN made = {reads[k][1] : k \in 1..Len(reads)}
  BY <1>2
<1> HIDE DEF made
<1>6. Frame_!Fields(type, f) = <<"Ok", made>>
  BY <1>1, <1>3
<1>7. QED BY <1>4, <1>5, <1>6 DEF reads

\* The only name that goes with a code is that of an ERROR (frame.rs call_error).
LEMMA CodeNameIs ==
  \A type \in DOMAIN Frame_!Sets : \A k \in 1..Len(Frame_!Sets[type]) :
    Frame_!Sets[type][k][2] = "code_name" <=> type = "error" /\ Frame_!Sets[type][k][1] = "name"
<1> DEFINE Plainly(fields) == \A k \in 1..Len(fields) : fields[k][2] # "code_name"
<1>1. DOMAIN Frame_!Sets = {"connect", "hello", "goodbye", "call", "result", "error", "publish",
        "subscribe", "unsubscribe", "advertise", "unadvertise", "stream_open", "stream_data",
        "stream_end", "stream_error", "stream_reply"}
  BY DEF Frame_!Sets
<1>2. Plainly(Frame_!connect) /\ Plainly(Frame_!hello) /\ Plainly(Frame_!goodbye)
  BY DEF Frame_!connect, Frame_!hello, Frame_!goodbye
<1>3. Plainly(Frame_!call) /\ Plainly(Frame_!result)
  BY DEF Frame_!call, Frame_!result
<1>4. Plainly(Frame_!publish) /\ Plainly(Frame_!subscribe) /\ Plainly(Frame_!unsubscribe)
  BY DEF Frame_!publish, Frame_!subscribe, Frame_!unsubscribe
<1>5. Plainly(Frame_!advertise) /\ Plainly(Frame_!unadvertise)
  BY DEF Frame_!advertise, Frame_!unadvertise
<1>6. Plainly(Frame_!stream_open) /\ Plainly(Frame_!stream_data) /\ Plainly(Frame_!stream_end)
  BY DEF Frame_!stream_open, Frame_!stream_data, Frame_!stream_end
<1>7. Plainly(Frame_!stream_error) /\ Plainly(Frame_!stream_reply)
  BY DEF Frame_!stream_error, Frame_!stream_reply
<1>8. \A k \in 1..Len(Frame_!call_error) :
        Frame_!call_error[k][2] = "code_name" <=> Frame_!call_error[k][1] = "name"
  BY DEF Frame_!call_error
<1>9. "error" \in DOMAIN Frame_!Sets /\ Frame_!Sets["error"] = Frame_!call_error
  BY DEF Frame_!Sets
<1>10. \A type \in DOMAIN Frame_!Sets \ {"error"} : Plainly(Frame_!Sets[type])
  <2> HIDE DEF Plainly
  <2>1. QED BY <1>1, <1>2, <1>3, <1>4, <1>5, <1>6, <1>7 DEF Frame_!Sets
<1>11. QED BY <1>8, <1>9, <1>10

\* What is in a frame that was built from a spec, of each field that the parser of its type
\* reads.
LEMMA ReadsIs ==
  ASSUME NEW type \in DOMAIN Frame_!Sets \cap DOMAIN Frame_!Reads, NEW spec,
         WellTyped(type, spec), NEW f,
         \A name : name # "signature" => Frame_!get(f, name) = Frame_!get(Frame_!Build(type, spec), name),
         NEW k \in 1..Len(Frame_!Reads[type])
  PROVE  LET read == Frame_!Reads[type][k]
             v == Frame_!get(f, read[1])
         IN /\ v # Frame_!Missing /\ Frame_!Takes(read[2], v)
            /\ Frame_!Taken(read[2], v) = IF type = "error" /\ read[1] = "name"
                                          THEN Frame_!code_name(spec["code"]) ELSE spec[read[1]]
<1> DEFINE fields == Frame_!Sets[type]
           read == Frame_!Reads[type][k]
           v == Frame_!get(f, read[1])
<1>1. PICK j \in 1..Len(fields) : fields[j][1] = read[1] /\ Agree(fields[j][2], read[2])
  BY TablesMatch DEF Matches
<1>2. ~LeftOut(fields[j], spec)
  BY <1>1 DEF LeftOut, Agree, ReadForms
<1>3. Frame_!get(Frame_!Build(type, spec), read[1]) = ValueOf(fields[j], spec)
  BY <1>1, <1>2, BuildIs
<1>4. read[1] # "signature"
  BY <1>1, Tables DEF Settable
<1>5. v = ValueOf(fields[j], spec)
  BY <1>3, <1>4
<1>6. fields[j][2] = "code_name" <=> type = "error" /\ read[1] = "name"
  BY <1>1, CodeNameIs
<1>7. Typed(fields[j][2], spec[read[1]])
  BY <1>1 DEF WellTyped
<1> HIDE DEF v, read, fields
<1>8. CASE fields[j][2] = "code_name"
  <2>1. v = Frame_!Text(Frame_!code_name(spec["code"]))
    BY <1>5, <1>8 DEF ValueOf
  <2>2. read[2] = "text"
    BY <1>1, <1>8 DEF Agree, ReadForms
  <2>3. v # Frame_!Missing /\ Frame_!Takes(read[2], v)
        /\ Frame_!Taken(read[2], v) = Frame_!code_name(spec["code"])
    BY <2>1, <2>2 DEF Frame_!Text, Frame_!Missing, Frame_!Takes, Frame_!Taken
  <2>4. QED BY <1>6, <1>8, <2>3 DEF v, read
<1>9. CASE fields[j][2] # "code_name"
  <2>1. v = Frame_!Form(fields[j][2], spec[read[1]])
    BY <1>1, <1>5, <1>9 DEF ValueOf
  <2>2. v # Frame_!Missing /\ Frame_!Takes(read[2], v) /\ Frame_!Taken(read[2], v) = spec[read[1]]
    BY <1>1, <1>7, <1>9, <2>1, TakenIs
  <2>3. QED BY <1>6, <1>9, <2>2 DEF v, read
<1>10. QED BY <1>8, <1>9

\* Whatever options a constructor is given, the frame it builds has each field once; when it
\* is signed and sent, the other end verifies it, and the parser for its type, and no other,
\* takes it and finds in it exactly those options (frame.rs call, parse_call, ...).
THEOREM BuiltIsParsed ==
  ASSUME NEW type \in DOMAIN Frame_!Sets, NEW spec, WellTyped(type, spec), NEW id
  PROVE  LET signed == Frame_!sign(Frame_!Build(type, spec), id)
             frame == Frame_!Delivered(signed)
         IN /\ \A name \in {signed[k][1] : k \in DOMAIN signed} :
                 Cardinality(Frame_!Places(signed, name)) = 1
            /\ Frame_!verify(frame, id) = "Ok"
            /\ \A parser \in DOMAIN Frame_!Types :
                 LET parsed == Frame_!Parse(parser, frame)
                 IN IF type \in Frame_!Types[parser]
                    THEN /\ parsed[1] = "Ok"
                         /\ DOMAIN parsed[2] =
                              {Frame_!Reads[type][k][1] : k \in 1..Len(Frame_!Reads[type])}
                         /\ \A name \in DOMAIN parsed[2] :
                              parsed[2][name] = IF type = "error" /\ name = "name"
                                                THEN Frame_!code_name(spec["code"])
                                                ELSE spec[name]
                    ELSE parsed[1] # "Ok"
<1> DEFINE f == Frame_!Build(type, spec)
           signed == Frame_!sign(f, id)
           frame == Frame_!Delivered(signed)
<1>1. /\ Plain(f) /\ Frame_!get(f, "frame_type") = Frame_!Text(type)
  <2>1. "frame_type" \notin SetBy(type, spec, Len(Frame_!Sets[type]))
    BY Tables DEF SetBy, Settable
  <2>2. QED BY <2>1, BuildIs, BaseIs
<1> HIDE DEF f
<1>2. /\ Plain(signed) /\ Frame_!verify(signed, id) = "Ok"
      /\ \A name : name # "signature" => Frame_!get(signed, name) = Frame_!get(f, name)
  BY <1>1, SignIs
<1> HIDE DEF signed
<1>3. Plain(frame) /\ Same(frame, signed)
  BY <1>2, DeliveredIs
<1>4. Frame_!verify(frame, id) = "Ok"
  BY <1>2, <1>3, SameVerified
<1>5. \A name : name # "signature" => Frame_!get(frame, name) = Frame_!get(f, name)
  BY <1>2, <1>3 DEF Same
<1> HIDE DEF frame
<1>6. ASSUME NEW name \in {signed[k][1] : k \in DOMAIN signed}
      PROVE  Cardinality(Frame_!Places(signed, name)) = 1
  <2>1. PICK k \in DOMAIN signed : name = signed[k][1]
    OBVIOUS
  <2>2. Frame_!Places(signed, name) = {k}
    BY <1>2, <2>1, GetIs
  <2>3. QED BY <2>2, FS_Singleton
<1>7. ASSUME NEW parser \in DOMAIN Frame_!Types, type \in Frame_!Types[parser]
      PROVE  LET parsed == Frame_!Parse(parser, frame)
             IN /\ parsed[1] = "Ok"
                /\ DOMAIN parsed[2] =
                     {Frame_!Reads[type][k][1] : k \in 1..Len(Frame_!Reads[type])}
                /\ \A name \in DOMAIN parsed[2] :
                     parsed[2][name] = IF type = "error" /\ name = "name"
                                       THEN Frame_!code_name(spec["code"]) ELSE spec[name]
  <2> DEFINE reads == Frame_!Reads[type]
             parsed == Frame_!Parse(parser, frame)
             want == [name \in {reads[k][1] : k \in 1..Len(reads)} |->
                        IF type = "error" /\ name = "name" THEN Frame_!code_name(spec["code"])
                        ELSE spec[name]]
  <2>1. type \in DOMAIN Frame_!Reads
    BY <1>7 DEF Frame_!Types, Frame_!Sets, Frame_!Reads
  <2>2. Matches(Frame_!Sets[type], reads)
    BY <2>1, TablesMatch
  <2>3. \A k \in 1..Len(reads) :
          LET v == Frame_!get(frame, reads[k][1])
          IN /\ v # Frame_!Missing /\ Frame_!Takes(reads[k][2], v)
             /\ Frame_!Taken(reads[k][2], v) = want[reads[k][1]]
    BY <1>5, <2>1, ReadsIs DEF f
  <2>4. /\ Frame_!Fields(type, frame)[1] = "Ok"
        /\ DOMAIN Frame_!Fields(type, frame)[2] = {reads[k][1] : k \in 1..Len(reads)}
        /\ \A name \in DOMAIN Frame_!Fields(type, frame)[2] :
             Frame_!Fields(type, frame)[2][name] = want[name]
    <3> HIDE DEF want
    <3>1. Readable(type, frame, want)
      BY <2>2, <2>3 DEF Readable, Matches
    <3>2. QED BY <3>1, FieldsTaken
  <2>5. parser = "parse_stream_event" =>
          LET v == Frame_!get(frame, "stream_id") IN v # Frame_!Missing /\ Frame_!Takes("b16", v)
    <3>1. parser = "parse_stream_event" => Len(reads) >= 1 /\ reads[1] = <<"stream_id", "b16">>
      BY <1>7 DEF Frame_!Types, Frame_!Reads, Frame_!parse_stream_data, Frame_!parse_stream_end,
                  Frame_!parse_stream_error, Frame_!parse_stream_reply
    <3> HIDE DEF reads, want
    <3>2. Len(reads) >= 1 => 1 \in 1..Len(reads)
      BY <2>2 DEF Matches
    <3>3. QED BY <2>3, <3>1, <3>2
  <2>6. parsed = Frame_!Fields(type, frame)
    <3>1. Frame_!get(frame, "frame_type") = Frame_!Text(type)
      BY <1>1, <1>5
    <3>2. QED BY <1>7, <2>5, <3>1 DEF Frame_!Parse, Frame_!Text
  <2>7. DOMAIN parsed[2] = DOMAIN want
    BY <2>4, <2>6
  <2> HIDE DEF parsed
  <2>8. \A name \in DOMAIN parsed[2] :
          parsed[2][name] = IF type = "error" /\ name = "name"
                            THEN Frame_!code_name(spec["code"]) ELSE spec[name]
    BY <2>4, <2>6, <2>7
  <2>9. QED BY <2>4, <2>6, <2>8 DEF parsed, reads
<1>8. ASSUME NEW parser \in DOMAIN Frame_!Types, type \notin Frame_!Types[parser]
      PROVE  Frame_!Parse(parser, frame)[1] # "Ok"
  <2>1. Frame_!get(frame, "frame_type") = Frame_!Text(type)
    BY <1>1, <1>5
  <2>2. QED BY <1>8, <2>1 DEF Frame_!Parse, Frame_!Text
<1>9. QED BY <1>4, <1>6, <1>7, <1>8 DEF frame, signed, f

\* A sample spec has a sample of each form (frame.rs tests).
LEMMA SpecIs ==
  ASSUME NEW type \in DOMAIN Frame_!Sets, NEW full
  PROVE  LET fields == Frame_!Sets[type]
             spec == Frame_!Spec(type, full)
         IN /\ DOMAIN spec = {fields[k][1] : k \in 1..Len(fields)}
            /\ \A k \in 1..Len(fields) : spec[fields[k][1]] = Frame_!Sample(fields[k][2], full)
<1> DEFINE fields == Frame_!Sets[type]
           n == Len(fields)
           sets == {fields[k] : k \in DOMAIN fields}
           spec == Frame_!Spec(type, full)
<1>1. DOMAIN fields = 1..n /\ \A j, k \in 1..n : fields[j][1] = fields[k][1] => j = k
  BY Tables DEF Settable
<1>2. spec = [name \in {s[1] : s \in sets} |->
                Frame_!Sample((CHOOSE s \in sets : s[1] = name)[2], full)]
  BY DEF Frame_!Spec
<1> HIDE DEF spec, fields
<1>3. DOMAIN spec = {fields[k][1] : k \in 1..n}
  BY <1>1, <1>2
<1>4. ASSUME NEW k \in 1..n
      PROVE  spec[fields[k][1]] = Frame_!Sample(fields[k][2], full)
  <2>1. fields[k] \in sets /\ \A s \in sets : s[1] = fields[k][1] => s = fields[k]
    BY <1>1
  <2> HIDE DEF sets
  <2>2. (CHOOSE s \in sets : s[1] = fields[k][1]) = fields[k]
    BY <2>1
  <2>3. fields[k][1] \in {s[1] : s \in sets}
    BY <2>1
  <2>4. QED BY <1>2, <2>2, <2>3
<1>5. QED BY <1>3, <1>4 DEF spec, fields

\* Every sample is of its type, and no value that it becomes is that of a tamperer.
LEMMA SampleIs ==
  ASSUME NEW form \in Forms, NEW full \in BOOLEAN
  PROVE  /\ Typed(form, Frame_!Sample(form, full))
         /\ form # "code_name" => Frame_!Form(form, Frame_!Sample(form, full)) # <<"Int", 77>>
<1> DEFINE x == Frame_!Sample(form, full)
<1>1. CASE form = "any"
  BY <1>1 DEF Frame_!Sample, Frame_!Form, Typed, Frame_!Missing, Frame_!Null
<1>2. CASE form = "any?"
  <2>1. Frame_!Sample("any?", TRUE) = <<"Int", 7>> /\ Frame_!Sample("any?", FALSE) = Absent
    BY DEF Frame_!Sample
  <2>2. x = <<"Int", 7>> \/ x = Absent
    BY <1>2, <2>1
  <2> HIDE DEF x
  <2>3. QED BY <1>2, <2>2 DEF Frame_!Form, Typed, Frame_!Null, x
<1>3. CASE form \in {"int", "int?", "uint", "u8"}
  <2>1. /\ Frame_!Sample("int", TRUE) = 9 /\ Frame_!Sample("int", FALSE) = -1
        /\ Frame_!Sample("int?", TRUE) = 9 /\ Frame_!Sample("int?", FALSE) = Absent
        /\ Frame_!Sample("uint", TRUE) = 9 /\ Frame_!Sample("uint", FALSE) = 0
        /\ Frame_!Sample("u8", TRUE) = 16 /\ Frame_!Sample("u8", FALSE) = 0
    BY DEF Frame_!Sample
  <2>2. \/ form = "int?" /\ x \in {9, Absent}
        \/ form \in {"int", "uint", "u8"} /\ x \in {9, -1, 0, 16} /\ (form # "int" => x \in {0, 9, 16})
    BY <1>3, <2>1
  <2> HIDE DEF x
  <2>3. QED BY <1>3, <2>2 DEF Frame_!Form, Typed, Frame_!Null, x
<1>4. CASE form \in {"mode", "encoding", "role"}
  <2>1. x \in Frame_!Names[form]
    <3>1. x = CHOOSE n \in Frame_!Names[form] : TRUE
      BY <1>4 DEF Frame_!Sample
    <3>2. Frame_!Names[form] # {}
      BY <1>4 DEF Frame_!Names
    <3>3. QED BY <3>1, <3>2
  <2>2. QED BY <1>4, <2>1 DEF Typed, Frame_!Form, Frame_!Text
<1>5. CASE form = "bool"
  BY <1>5 DEF Frame_!Sample, Frame_!Form, Typed, Frame_!Text
<1>6. CASE form = "b32s"
  <2>1. x = <<"r1", "r2">> \/ x = <<>>
    BY <1>6 DEF Frame_!Sample
  <2>2. <<"r1", "r2">> \in Seq({"r1", "r2"}) /\ <<>> \in Seq({"r1", "r2"})
    OBVIOUS
  <2>3. x \in Seq({"r1", "r2"})
    BY <2>1, <2>2
  <2> HIDE DEF x
  <2>4. x = [k \in DOMAIN x |-> x[k]]
    BY <2>3
  <2>5. Typed(form, x)
    BY <1>6, <2>4 DEF Typed
  <2>6. Frame_!Form(form, x)[1] = "List"
    BY <1>6 DEF Frame_!Form
  <2>7. QED BY <2>5, <2>6 DEF x
<1>7. CASE form \in {"b16", "b32", "signer", "b32?", "list", "bytes", "string", "string?", "text",
                     "null", "empty", "code_name"}
  BY <1>7 DEF Frame_!Form, Typed, Frame_!Null, Frame_!Text
<1>8. QED BY <1>1, <1>2, <1>3, <1>4, <1>5, <1>6, <1>7 DEF Forms

\* The Cardinality of the instance is that of the sets.
LEMMA SameCardinality == \A S : Frame_!Cardinality(S) = Cardinality(S)
  BY DEF Frame_!Cardinality, Cardinality

\* RoundTrip holds of the samples, as it does of every spec.
LEMMA SamplesRoundTrip == Frame_!RoundTrip
<1> SUFFICES ASSUME NEW type \in DOMAIN Frame_!Sets, NEW full \in BOOLEAN
             PROVE  LET spec == Frame_!Spec(type, full)
                        signed == Frame_!sign(Frame_!Build(type, spec), "K")
                        frame == Frame_!Delivered(signed)
                    IN /\ \A name \in {signed[k][1] : k \in DOMAIN signed} :
                            Frame_!Cardinality(Frame_!Places(signed, name)) = 1
                       /\ Frame_!verify(frame, "K") = "Ok"
                       /\ \A parser \in DOMAIN Frame_!Types :
                            LET parsed == Frame_!Parse(parser, frame)
                            IN IF type \in Frame_!Types[parser]
                               THEN /\ parsed[1] = "Ok"
                                    /\ \A name \in DOMAIN parsed[2] :
                                         parsed[2][name] = IF type = "error" /\ name = "name"
                                                           THEN Frame_!code_name(spec["code"])
                                                           ELSE spec[name]
                               ELSE parsed[1] # "Ok"
  BY DEF Frame_!RoundTrip
<1>1. WellTyped(type, Frame_!Spec(type, full))
  <2>1. \A k \in 1..Len(Frame_!Sets[type]) : Frame_!Sets[type][k][2] \in Forms
    BY Tables DEF Settable
  <2>2. QED BY <2>1, SpecIs, SampleIs DEF WellTyped
<1> DEFINE spec == Frame_!Spec(type, full)
<1> HIDE DEF spec
<1>2. QED BY <1>1, BuiltIsParsed, SameCardinality DEF spec

\* RoundTrip: in every state of the part "codec", whatever an absent option is written as,
\* what is built is what is parsed (frame.rs).
THEOREM RoundTripHolds == PartsSpec => []RoundTrip
<1>1. RoundTrip
  BY SamplesRoundTrip DEF RoundTrip
<1>2. QED BY <1>1, PTL

\* The names that a built frame has, and what it has at none of them.
LEMMA BuiltIs ==
  ASSUME NEW type \in DOMAIN Frame_!Sets, NEW spec
  PROVE  LET f == Frame_!Build(type, spec)
         IN Plain(f) /\ NamesIn(f) \cap {"signature", "publisher_sig", "other"} = {}
<1> DEFINE n == Len(Frame_!Sets[type])
<1>1. SetBy(type, spec, n) \cap {"signature", "publisher_sig", "other"} = {}
  BY Tables DEF SetBy, Settable
<1>2. InEnvelope \cap {"signature", "publisher_sig", "other"} = {}
  BY DEF InEnvelope
<1>3. QED BY <1>1, <1>2, BuildIs

\* No field of a frame is what a tamperer would set it to when none of the options is.
LEMMA BuiltUnlike ==
  ASSUME NEW type \in DOMAIN Frame_!Sets, NEW spec,
         \A k \in 1..Len(Frame_!Sets[type]) :
           LET field == Frame_!Sets[type][k]
           IN field[2] # "code_name" => Frame_!Form(field[2], spec[field[1]]) # <<"Int", 77>>
  PROVE  \A name : Frame_!get(Frame_!Build(type, spec), name) # <<"Int", 77>>
<1> SUFFICES ASSUME NEW name
             PROVE  Frame_!get(Frame_!Build(type, spec), name) # <<"Int", 77>>
  OBVIOUS
<1> DEFINE fields == Frame_!Sets[type]
           n == Len(fields)
           f == Frame_!Build(type, spec)
<1>1. /\ Plain(f) /\ NamesIn(f) = InEnvelope \cup SetBy(type, spec, n)
      /\ \A k \in 1..n : ~LeftOut(fields[k], spec) => Frame_!get(f, fields[k][1]) = ValueOf(fields[k], spec)
      /\ \A other : other \notin SetBy(type, spec, n)
           => Frame_!get(f, other) = Frame_!get(Frame_!base(type), other)
  BY BuildIs
<1>2. CASE name \in SetBy(type, spec, n)
  <2>1. PICK k \in 1..n : name = fields[k][1] /\ ~LeftOut(fields[k], spec)
    BY <1>2 DEF SetBy
  <2>2. ValueOf(fields[k], spec) # <<"Int", 77>>
    <3>1. \A s : Frame_!Text(s) # <<"Int", 77>>
      BY DEF Frame_!Text
    <3>2. QED BY <3>1 DEF ValueOf
  <2>3. QED BY <1>1, <2>1, <2>2
<1>3. CASE name \in InEnvelope /\ name \notin SetBy(type, spec, n)
  BY <1>1, <1>3, BaseIs
<1>4. CASE name \notin NamesIn(f)
  <2>1. Frame_!get(f, name) = Frame_!Missing
    BY <1>1, <1>4, GetIs
  <2>2. QED BY <2>1 DEF Frame_!Missing
<1>5. QED BY <1>1, <1>2, <1>3, <1>4

\* The sample frames cannot change under their signatures, a publisher_sig apart
\* (frame.rs signable_bytes, sign, verify).
LEMMA SamplesBind ==
  ASSUME NEW f \in Frame_!Built
  PROVE  LET signed == Frame_!sign(f, "K")
         IN /\ Frame_!verify(Frame_!sign_publisher(signed, "P"), "K") = "Ok"
            /\ Frame_!verify(Frame_!sign(Frame_!sign_publisher(f, "P"), "K"), "K") = "Ok"
            /\ Frame_!verify(signed, "L") = "SignatureInvalid"
            /\ Frame_!verify(f, "K") = "MissingSignature"
            /\ \A name \in {f[k][1] : k \in DOMAIN f} \cup {"other"} :
                 Frame_!verify(Frame_!with_field(signed, name, <<"Int", 77>>), "K") = "SignatureInvalid"
            /\ \A name \in {f[k][1] : k \in DOMAIN f} :
                 Frame_!verify(Frame_!without(signed, {name}), "K") = "SignatureInvalid"
<1> DEFINE signed == Frame_!sign(f, "K")
<1>1. PICK type \in DOMAIN Frame_!Sets, full \in BOOLEAN : f = Frame_!Build(type, Frame_!Spec(type, full))
  BY DEF Frame_!Built
<1>2. Plain(f) /\ NamesIn(f) \cap {"signature", "publisher_sig", "other"} = {}
  BY <1>1, BuiltIs
<1>3. \A name : Frame_!get(f, name) # <<"Int", 77>>
  <2>1. \A k \in 1..Len(Frame_!Sets[type]) :
          LET field == Frame_!Sets[type][k]
          IN field[2] # "code_name" =>
               Frame_!Form(field[2], Frame_!Spec(type, full)[field[1]]) # <<"Int", 77>>
    <3> SUFFICES ASSUME NEW k \in 1..Len(Frame_!Sets[type])
                 PROVE  LET field == Frame_!Sets[type][k]
                        IN field[2] # "code_name" =>
                             Frame_!Form(field[2], Frame_!Spec(type, full)[field[1]]) # <<"Int", 77>>
      OBVIOUS
    <3> DEFINE field == Frame_!Sets[type][k]
    <3>1. field[2] \in Forms
      BY Tables DEF Settable
    <3>2. Frame_!Spec(type, full)[field[1]] = Frame_!Sample(field[2], full)
      BY SpecIs
    <3> HIDE DEF field
    <3>3. QED BY <3>1, <3>2, SampleIs DEF field
  <2>2. QED BY <1>1, <2>1, BuiltUnlike
<1>4. /\ Plain(signed) /\ Frame_!verify(signed, "K") = "Ok"
      /\ Frame_!verify(signed, "L") = "SignatureInvalid"
      /\ NamesIn(signed) = NamesIn(f) \cup {"signature"}
      /\ \A name : name # "signature" => Frame_!get(signed, name) = Frame_!get(f, name)
  BY <1>2, SignIs
<1> HIDE DEF signed
<1>5. Frame_!verify(Frame_!sign_publisher(signed, "P"), "K") = "Ok"
  BY <1>4, FrameTamper DEF Frame_!sign_publisher
<1>6. Frame_!verify(Frame_!sign(Frame_!sign_publisher(f, "P"), "K"), "K") = "Ok"
  BY <1>2, SignPublisherIs, SignIs
<1>7. Frame_!verify(f, "K") = "MissingSignature"
  <2>1. "signature" \notin NamesIn(f)
    BY <1>2
  <2>2. Frame_!get(f, "signature") = Frame_!Missing
    BY <1>2, <2>1, GetIs
  <2>3. QED BY <2>2, VerifyIs
<1>8. Frame_!Unsigned = {"signature", "publisher_sig"}
  BY DEF Frame_!Unsigned
<1>9. {f[k][1] : k \in DOMAIN f} = NamesIn(f)
  BY DEF NamesIn
<1>10. ASSUME NEW name \in NamesIn(f) \cup {"other"}
       PROVE  Frame_!verify(Frame_!with_field(signed, name, <<"Int", 77>>), "K") = "SignatureInvalid"
  <2>1. name \notin Frame_!Unsigned /\ name # "signature"
    BY <1>2, <1>8
  <2>2. <<"Int", 77>> # Frame_!get(signed, name)
    BY <1>3, <1>4, <2>1
  <2>3. QED BY <1>4, <2>1, <2>2, FrameTamper
<1>11. ASSUME NEW name \in NamesIn(f)
       PROVE  Frame_!verify(Frame_!without(signed, {name}), "K") = "SignatureInvalid"
  <2>1. "signature" \notin {name} /\ {name} \cap (NamesIn(signed) \ Frame_!Unsigned) # {}
    BY <1>2, <1>4, <1>8
  <2>2. QED BY <1>4, <2>1, FrameTamper
<1>12. QED BY <1>4, <1>5, <1>6, <1>7, <1>9, <1>10, <1>11 DEF signed

\* No field that a publisher signs, but its key, can be set to another value in f without the
\* subscriber's noticing it.
PublisherBound(f) ==
  \A name \in Published \ {"publisher"} : \A value :
    value # Frame_!Missing /\ value # Frame_!get(f, name)
      => Frame_!verify_publisher(Frame_!with_field(f, name, value)) = "PublisherSigInvalid"

\* What a subscriber reads of an EVENT is what the publisher put in its PUBLISH, whatever that
\* was and whichever station delivers it: the parser takes the EVENT, the station's signature
\* and the publisher's are both good, one that another key made is not, and none of the four
\* other fields can be set to another value (frame.rs sign_publisher, verify_publisher,
\* parse_event).
THEOREM EventIsRead ==
  ASSUME NEW spec, WellTyped("publish", spec), NEW id, spec["publisher"] = id, NEW station
  PROVE  LET news == Frame_!Build("publish", spec)
             event == Frame_!Delivered(
                        Frame_!relay(Frame_!sign(Frame_!sign_publisher(news, id), id), station))
             parsed == Frame_!Parse("parse_event", event)
         IN /\ parsed[1] = "Ok"
            /\ DOMAIN parsed[2] = Published \cup {"delivered_via"}
            /\ \A name \in Published : /\ parsed[2][name] = spec[name]
                                       /\ Frame_!get(event, name) = Frame_!get(news, name)
            /\ Frame_!verify(event, station) = "Ok"
            /\ Frame_!verify_publisher(event) = "Ok"
            /\ \A other : other # id =>
                 Frame_!verify_publisher(
                   Frame_!relay(Frame_!sign(Frame_!sign_publisher(news, other), other), station))
                     = "PublisherSigInvalid"
            /\ PublisherBound(event)
<1> DEFINE news == Frame_!Build("publish", spec)
           published(key) == Frame_!sign(Frame_!sign_publisher(news, key), key)
           event == Frame_!Delivered(Frame_!relay(published(id), station))
           fields == Frame_!publish
<1>1. "publish" \in DOMAIN Frame_!Sets /\ Frame_!Sets["publish"] = fields
  BY DEF Frame_!Sets
<1>2. /\ Len(fields) = 7
      /\ fields[1] = <<"realm", "b32">> /\ fields[2] = <<"topic", "string">>
      /\ fields[3] = <<"publisher", "b32">> /\ fields[4] = <<"seq", "uint">>
      /\ fields[5] = <<"payload", "any">>
  BY DEF Frame_!publish
<1> HIDE DEF fields
<1>3. Plain(news) /\ \A k \in 1..Len(fields) : ~LeftOut(fields[k], spec)
        => Frame_!get(news, fields[k][1]) = ValueOf(fields[k], spec)
  BY <1>1, BuildIs
<1>4. /\ Frame_!get(news, "realm") = <<"Bytes32", spec["realm"]>>
      /\ Frame_!get(news, "topic") = <<"Utf8", spec["topic"]>>
      /\ Frame_!get(news, "publisher") = <<"Bytes32", spec["publisher"]>>
      /\ Frame_!get(news, "seq") = <<"Int", spec["seq"]>>
      /\ Frame_!get(news, "payload") = spec["payload"]
  <2>1. \A k \in 1..5 : k \in 1..Len(fields) /\ ~LeftOut(fields[k], spec)
    BY <1>2 DEF LeftOut
  <2>2. \A k \in 1..5 : Frame_!get(news, fields[k][1]) = ValueOf(fields[k], spec)
    BY <1>3, <2>1
  <2> HIDE DEF news
  <2>3. \A k \in 1..5 : ValueOf(fields[k], spec) = Frame_!Form(fields[k][2], spec[fields[k][1]])
    BY <1>2 DEF ValueOf
  <2>4. \A x : Frame_!Form("b32", x) = <<"Bytes32", x>> /\ Frame_!Form("string", x) = <<"Utf8", x>>
               /\ Frame_!Form("uint", x) = <<"Int", x>> /\ Frame_!Form("any", x) = x
    BY DEF Frame_!Form
  <2>5. 1 \in 1..5 /\ 2 \in 1..5 /\ 3 \in 1..5 /\ 4 \in 1..5 /\ 5 \in 1..5
    OBVIOUS
  <2>6. \A k \in 1..5 : Frame_!get(news, fields[k][1]) = Frame_!Form(fields[k][2], spec[fields[k][1]])
    BY <2>2, <2>3
  <2>7. QED BY <1>2, <2>4, <2>5, <2>6
<1>5. spec["seq"] \in Nat /\ spec["payload"] # Frame_!Missing
  <2>1. 4 \in 1..Len(fields) /\ 5 \in 1..Len(fields)
    BY <1>2
  <2>2. \A k \in 1..Len(fields) : Typed(fields[k][2], spec[fields[k][1]])
    BY <1>1 DEF WellTyped
  <2>3. Typed("uint", spec["seq"]) /\ Typed("any", spec["payload"])
    BY <1>2, <2>1, <2>2
  <2>4. QED BY <2>3 DEF Typed
<1> HIDE DEF news
<1>6. ASSUME NEW key
      PROVE  /\ Plain(published(key))
             /\ \A name : name \notin Frame_!Unsigned
                  => Frame_!get(published(key), name) = Frame_!get(news, name)
             /\ key = id => Frame_!verify_publisher(published(key)) = "Ok"
             /\ key # id => Frame_!verify_publisher(published(key)) = "PublisherSigInvalid"
  <2> DEFINE f == Frame_!sign_publisher(news, key)
             g == Frame_!sign(f, key)
  <2>1. /\ Plain(f)
        /\ \A name : name # "publisher_sig" => Frame_!get(f, name) = Frame_!get(news, name)
        /\ key = id => Frame_!verify_publisher(f) = "Ok"
        /\ key # id => Frame_!verify_publisher(f) = "PublisherSigInvalid"
    BY <1>3, <1>4, SignPublisherIs
  <2> HIDE DEF f
  <2>2. Plain(g) /\ \A name : name # "signature" => Frame_!get(g, name) = Frame_!get(f, name)
    BY <2>1, SignIs
  <2> HIDE DEF g
  <2>3. Frame_!verify_publisher(g) = Frame_!verify_publisher(f)
    <3>1. \A name \in Published : Shown(g, name) = Shown(f, name)
      BY <2>2 DEF Shown, Published
    <3>2. Frame_!publisher_signing_bytes(g) = Frame_!publisher_signing_bytes(f)
      BY <3>1, PublisherBytes
    <3>3. Frame_!get(g, "publisher") = Frame_!get(f, "publisher")
          /\ Frame_!get(g, "publisher_sig") = Frame_!get(f, "publisher_sig")
      BY <2>2
    <3>4. QED BY <3>2, <3>3 DEF Frame_!verify_publisher
  <2>4. "signature" \in Frame_!Unsigned /\ "publisher_sig" \in Frame_!Unsigned
    BY DEF Frame_!Unsigned
  <2>5. QED BY <2>1, <2>2, <2>3, <2>4 DEF f, g
<1> HIDE DEF published
<1>7. /\ Plain(event)
      /\ Frame_!verify(event, station) = "Ok"
      /\ Frame_!get(event, "frame_type") = Frame_!Text("event")
      /\ Frame_!get(event, "delivered_via") = Frame_!Text("gossip")
      /\ \A name \in Published : Frame_!get(event, name) = Frame_!get(news, name)
      /\ Frame_!verify_publisher(event) = "Ok"
  <2>1. \A name \in Published : name \notin {"published_at_ms", "ttl_ms", "frame_type",
                                             "delivered_via", "signature"}
                                /\ name \notin Frame_!Unsigned
    BY DEF Published, Frame_!Unsigned
  <2>2. QED BY <1>6, <2>1, RelayIs
<1>8. ASSUME NEW other, other # id
      PROVE  Frame_!verify_publisher(Frame_!relay(published(other), station)) = "PublisherSigInvalid"
  BY <1>6, <1>8, RelayIs
<1> HIDE DEF event
<1>9. \A name \in Published : Shown(event, name) = Frame_!get(event, name)
  <2>1. \A name \in Published : Frame_!get(event, name) # Frame_!Missing
    <3>1. Frame_!Missing[1] = "Missing"
      BY DEF Frame_!Missing
    <3>2. \A name \in Published \ {"payload"} : Frame_!get(event, name)[1] \in {"Bytes32", "Utf8", "Int"}
      BY <1>4, <1>7 DEF Published
    <3>3. "payload" \in Published
      BY DEF Published
    <3>4. QED BY <1>4, <1>5, <1>7, <3>1, <3>2, <3>3
  <2>2. QED BY <2>1 DEF Shown
<1>10. ASSUME NEW name \in Published \ {"publisher"}, NEW value,
              value # Frame_!Missing, value # Frame_!get(event, name)
       PROVE  Frame_!verify_publisher(Frame_!with_field(event, name, value)) = "PublisherSigInvalid"
  BY <1>7, <1>9, <1>10, EventTamper
<1> DEFINE reads == Frame_!parse_event
           parsed == Frame_!Parse("parse_event", event)
           want == [name \in Published \cup {"delivered_via"} |->
                      IF name = "delivered_via" THEN "gossip" ELSE spec[name]]
<1>11. parsed = Frame_!Fields("event", event)
  BY <1>7 DEF Frame_!Parse, Frame_!Text, Frame_!Types
<1>12. Frame_!Reads["event"] = reads
  BY DEF Frame_!Reads
<1>13. /\ Len(reads) = 6 /\ DOMAIN reads = 1..6
       /\ reads[1] = <<"topic", "string">> /\ reads[2] = <<"realm", "b32">>
       /\ reads[3] = <<"publisher", "b32">> /\ reads[4] = <<"seq", "uint">>
       /\ reads[5] = <<"payload", "any">> /\ reads[6] = <<"delivered_via", "text">>
  BY DEF Frame_!parse_event
<1> HIDE DEF reads, parsed
<1>14. \A j, k \in 1..6 : reads[j][1] = reads[k][1] => j = k
  BY <1>13
<1>15. {reads[k][1] : k \in 1..6} = Published \cup {"delivered_via"}
  <2>1. \A k \in 1..6 : reads[k][1] \in Published \cup {"delivered_via"}
    BY <1>13 DEF Published
  <2>2. \A name \in Published \cup {"delivered_via"} : \E k \in 1..6 : name = reads[k][1]
    BY <1>13 DEF Published
  <2>3. QED BY <2>1, <2>2
<1>16. ASSUME NEW k \in 1..6
       PROVE  LET v == Frame_!get(event, reads[k][1])
              IN /\ v # Frame_!Missing /\ Frame_!Takes(reads[k][2], v)
                 /\ Frame_!Taken(reads[k][2], v) = want[reads[k][1]]
  <2>1. \A name \in Published : want[name] = spec[name]
    BY DEF Published
  <2>2. want["delivered_via"] = "gossip"
    OBVIOUS
  <2> HIDE DEF want
  <2>3. \A form, x : form # "code_name" /\ form \in ReadForms /\ Typed(form, x) =>
          LET v == Frame_!Form(form, x)
          IN v # Frame_!Missing /\ Frame_!Takes(form, v) /\ Frame_!Taken(form, v) = x
    BY TakenIs DEF Agree
  <2>4. CASE k \in 1..5
    <3>1. \E j \in 1..5 : fields[j] = reads[k]
      BY <1>2, <1>13, <2>4
    <3>2. PICK j \in 1..5 : fields[j] = reads[k]
      BY <3>1
    <3>3. Typed(reads[k][2], spec[reads[k][1]])
      BY <1>1, <1>2, <3>2 DEF WellTyped
    <3>4. reads[k][2] \in ReadForms /\ reads[k][2] # "code_name" /\ reads[k][1] \in Published
      BY <1>13, <2>4 DEF ReadForms, Published
    <3>5. Frame_!get(event, reads[k][1]) = Frame_!Form(reads[k][2], spec[reads[k][1]])
      <4>1. \A x : Frame_!Form("b32", x) = <<"Bytes32", x>> /\ Frame_!Form("string", x) = <<"Utf8", x>>
                   /\ Frame_!Form("uint", x) = <<"Int", x>> /\ Frame_!Form("any", x) = x
        BY DEF Frame_!Form
      <4>2. Frame_!get(event, reads[k][1]) = Frame_!get(news, reads[k][1])
        BY <1>7, <3>4
      <4>3. QED BY <1>4, <1>13, <2>4, <4>1, <4>2
    <3>6. QED BY <2>1, <2>3, <3>3, <3>4, <3>5
  <2>5. CASE k = 6
    <3>1. Frame_!get(event, reads[k][1]) = <<"Text", "gossip">> /\ reads[k][2] = "text"
      BY <1>7, <1>13, <2>5 DEF Frame_!Text
    <3>2. want[reads[k][1]] = "gossip"
      BY <1>13, <2>2, <2>5
    <3>3. LET v == <<"Text", "gossip">>
          IN v # Frame_!Missing /\ Frame_!Takes("text", v) /\ Frame_!Taken("text", v) = "gossip"
      BY DEF Frame_!Missing, Frame_!Takes, Frame_!Taken
    <3>4. QED BY <3>1, <3>2, <3>3
  <2>6. QED BY <2>4, <2>5
<1>17. /\ parsed[1] = "Ok" /\ DOMAIN parsed[2] = Published \cup {"delivered_via"}
       /\ \A name \in DOMAIN parsed[2] : parsed[2][name] = want[name]
  <2> HIDE DEF want
  <2>1. Readable("event", event, want)
    BY <1>12, <1>13, <1>14, <1>16 DEF Readable
  <2>2. LET fs == Frame_!Fields("event", event)
            rs == Frame_!Reads["event"]
        IN /\ fs[1] = "Ok" /\ DOMAIN fs[2] = {rs[k][1] : k \in 1..Len(rs)}
           /\ \A name \in DOMAIN fs[2] : fs[2][name] = want[name]
    BY <2>1, FieldsTaken
  <2>3. {Frame_!Reads["event"][k][1] : k \in 1..Len(Frame_!Reads["event"])}
          = Published \cup {"delivered_via"}
    BY <1>12, <1>13, <1>15
  <2>4. QED BY <1>11, <2>2, <2>3
<1>18. \A name \in Published : want[name] = spec[name]
  BY DEF Published
<1>19. QED
  <2> HIDE DEF want
  <2>1. \A name \in Published : parsed[2][name] = spec[name]
    BY <1>17, <1>18
  <2>2. PublisherBound(event)
    BY <1>10 DEF PublisherBound
  <2>3. QED BY <1>7, <1>8, <1>17, <2>1, <2>2 DEF parsed, event, published, news

\* The frames of the samples are bound by their signatures, and the PUBLISH of a sample by that
\* of its publisher (frame.rs signable_bytes, publisher_signing_bytes).
LEMMA FramesBind == Frame_!FrameSignaturesBind
<1>1. ASSUME NEW full \in BOOLEAN
      PROVE  LET news == Frame_!Build("publish", [Frame_!Spec("publish", full) EXCEPT !["publisher"] = "P"])
                 event == Frame_!Delivered(
                            Frame_!relay(Frame_!sign(Frame_!sign_publisher(news, "P"), "P"), "S"))
             IN /\ Frame_!Parse("parse_event", event)[1] = "Ok"
                /\ Frame_!verify(event, "S") = "Ok"
                /\ Frame_!verify_publisher(event) = "Ok"
                /\ Frame_!verify_publisher(
                     Frame_!relay(Frame_!sign(Frame_!sign_publisher(news, "Q"), "Q"), "S")) # "Ok"
                /\ \A name \in {"topic", "realm", "seq", "payload"} :
                     Frame_!verify_publisher(Frame_!with_field(event, name, <<"Int", 77>>))
                       = "PublisherSigInvalid"
  <2> DEFINE sample == Frame_!Spec("publish", full)
             spec == [sample EXCEPT !["publisher"] = "P"]
             fields == Frame_!Sets["publish"]
             n == Len(fields)
             news == Frame_!Build("publish", spec)
             event == Frame_!Delivered(
                        Frame_!relay(Frame_!sign(Frame_!sign_publisher(news, "P"), "P"), "S"))
  <2>1. "publish" \in DOMAIN Frame_!Sets
    BY DEF Frame_!Sets
  <2>2. Settable(fields) /\ \E k \in 1..n : fields[k] = <<"publisher", "b32">>
    <3>1. fields = Frame_!publish
      BY DEF Frame_!Sets
    <3>2. Len(Frame_!publish) = 7 /\ Frame_!publish[3] = <<"publisher", "b32">>
      BY DEF Frame_!publish
    <3>3. QED BY <2>1, <3>1, <3>2, Tables
  <2>3. /\ DOMAIN sample = {fields[k][1] : k \in 1..n}
        /\ \A k \in 1..n : sample[fields[k][1]] = Frame_!Sample(fields[k][2], full)
    BY <2>1, SpecIs
  <2> HIDE DEF sample, fields
  <2>4. "publisher" \in DOMAIN sample
    BY <2>2, <2>3
  <2>5. spec["publisher"] = "P"
    BY <2>4
  <2>6. ASSUME NEW k \in 1..n
        PROVE  \/ spec[fields[k][1]] = Frame_!Sample(fields[k][2], full)
               \/ spec[fields[k][1]] = "P" /\ fields[k][2] = "b32"
    <3>1. CASE fields[k][1] = "publisher"
      <4>1. fields[k][2] = "b32"
        BY <2>2, <3>1 DEF Settable
      <4>2. QED BY <2>5, <3>1, <4>1
    <3>2. CASE fields[k][1] # "publisher"
      BY <2>3, <3>2
    <3>3. QED BY <3>1, <3>2
  <2> HIDE DEF spec
  <2>7. ASSUME NEW k \in 1..n
        PROVE  /\ Typed(fields[k][2], spec[fields[k][1]])
               /\ fields[k][2] # "code_name"
                    => Frame_!Form(fields[k][2], spec[fields[k][1]]) # <<"Int", 77>>
    <3>1. fields[k][2] \in Forms
      BY <2>2 DEF Settable
    <3>2. Typed("b32", "P") /\ Frame_!Form("b32", "P") # <<"Int", 77>>
      BY DEF Typed, Frame_!Form
    <3>3. QED BY <2>6, <3>1, <3>2, SampleIs
  <2>8. WellTyped("publish", spec)
    BY <2>7 DEF WellTyped, fields
  <2>9. \A name : Frame_!get(news, name) # <<"Int", 77>>
    BY <2>1, <2>7, BuiltUnlike DEF fields
  <2> HIDE DEF news
  <2>10. /\ Frame_!Parse("parse_event", event)[1] = "Ok"
         /\ \A name \in Published : Frame_!get(event, name) = Frame_!get(news, name)
         /\ Frame_!verify(event, "S") = "Ok"
         /\ Frame_!verify_publisher(event) = "Ok"
    BY <2>5, <2>8, EventIsRead, SMTT(30) DEF news
  <2>11. Frame_!verify_publisher(
           Frame_!relay(Frame_!sign(Frame_!sign_publisher(news, "Q"), "Q"), "S")) # "Ok"
    BY <2>5, <2>8, EventIsRead, SMTT(30) DEF news
  <2>12. PublisherBound(event)
    BY <2>5, <2>8, EventIsRead, SMTT(30) DEF news
  <2> HIDE DEF event
  <2>13. ASSUME NEW name \in {"topic", "realm", "seq", "payload"}
         PROVE  Frame_!verify_publisher(Frame_!with_field(event, name, <<"Int", 77>>))
                  = "PublisherSigInvalid"
    <3>1. name \in Published \ {"publisher"}
      BY DEF Published
    <3>2. <<"Int", 77>> # Frame_!Missing
      BY DEF Frame_!Missing
    <3>3. <<"Int", 77>> # Frame_!get(event, name)
      BY <2>9, <2>10, <3>1
    <3>4. QED BY <2>12, <3>1, <3>2, <3>3 DEF PublisherBound
  <2>14. QED BY <2>10, <2>11, <2>13 DEF event, news, spec, sample
<1>2. QED BY <1>1, SamplesBind DEF Frame_!FrameSignaturesBind

-----------------------------------------------------------------------------
(* Records: what is signed, and what the wire keeps.                         *)

\* A record as it is made: every field but the payload is of its type.
IsRecord(r) ==
  /\ r = [name \in Record!Envelope \cup {"signature"} |-> r[name]]
  /\ \A name \in Record!Envelope \ {"payload"} : r[name] # Wrong
  /\ r["signature"] = NoSig \/ r["signature"] # Wrong

\* Two records that are good under one signature are one record, whatever the time: its
\* lifetime, its key and its payload are under the signature (dht.rs canonical_unsigned, verify).
LEMMA RecordBinds ==
  ASSUME NEW r, IsRecord(r), NEW s, IsRecord(s), r.signature = s.signature,
         NEW now, NEW later, Record!verify(r, now) # "InvalidSignature",
         Record!verify(s, later) # "InvalidSignature"
  PROVE  r = s
<1>1. r.signature = [by |-> r.key, over |-> Record!Message(r)]
      /\ s.signature = [by |-> s.key, over |-> Record!Message(s)]
  BY DEF Record!verify
<1>2. Record!canonical_unsigned(r) = Record!canonical_unsigned(s)
  <2>1. \A x, y, v, w : [by |-> x, over |-> v] = [by |-> y, over |-> w] => v = w
    OBVIOUS
  <2>2. [by |-> r.key, over |-> Record!Message(r)] = [by |-> s.key, over |-> Record!Message(s)]
    BY <1>1
  <2>3. Record!Message(r) = Record!Message(s)
    BY <2>1, <2>2
  <2>4. QED BY <2>3 DEF Record!Message
<1>3. DOMAIN r = Record!Envelope \cup {"signature"} /\ DOMAIN s = Record!Envelope \cup {"signature"}
  BY DEF IsRecord
<1>4. ASSUME NEW name \in Record!Envelope \cup {"signature"}
      PROVE  r[name] = s[name]
  <2>1. CASE name = "signature"
    BY <2>1
  <2>2. CASE name # "signature"
    <3>1. Record!canonical_unsigned(r)[name] = r[name] /\ Record!canonical_unsigned(s)[name] = s[name]
      BY <1>3, <2>2 DEF Record!canonical_unsigned
    <3>2. QED BY <1>2, <3>1
  <2>3. QED BY <2>1, <2>2
<1>5. QED BY <1>4 DEF IsRecord

\* What is put is what is found: the value of a record is taken for one, and read back as the
\* record it was, with its signature or without one (dht.rs to_rpc_value,
\* record_from_rpc_value).
LEMMA PutIsFound ==
  ASSUME NEW r, IsRecord(r)
  PROVE  /\ Record!is_record(Record!to_rpc_value(r))
         /\ Record!record_from_rpc_value(Record!to_rpc_value(r)) = r
<1> DEFINE v == Record!to_rpc_value(r)
           E == Record!Envelope
<1>1. "signature" \notin E
  BY DEF Record!Envelope
<1>2. v = [name \in IF r.signature = NoSig THEN E ELSE E \cup {"signature"} |-> r[name]]
  BY DEF Record!to_rpc_value
<1>3. /\ r = [name \in E \cup {"signature"} |-> r[name]]
      /\ \A name \in E \ {"payload"} : r[name] # Wrong
      /\ r.signature = NoSig \/ r.signature # Wrong
  BY DEF IsRecord
<1> HIDE DEF v, E
<1>4. /\ DOMAIN v = IF r.signature = NoSig THEN E ELSE E \cup {"signature"}
      /\ \A name \in DOMAIN v : v[name] = r[name]
  BY <1>2
<1>5. Record!is_record(v)
  BY <1>3, <1>4 DEF Record!is_record, E
<1>6. Record!record_from_rpc_value(v) = [name \in E \cup {"signature"} |-> r[name]]
  <2>1. ASSUME NEW name \in E \cup {"signature"}
        PROVE  (IF name = "signature" /\ (name \notin DOMAIN v \/ v["signature"] = Wrong)
                THEN NoSig ELSE v[name]) = r[name]
    <3>1. CASE name \in E
      BY <1>1, <1>4, <3>1
    <3>2. CASE name = "signature" /\ r.signature = NoSig
      BY <1>1, <1>4, <3>2
    <3>3. CASE name = "signature" /\ r.signature # NoSig
      BY <1>3, <1>4, <3>3
    <3>4. QED BY <3>1, <3>2, <3>3
  <2>2. QED BY <2>1 DEF Record!record_from_rpc_value, E
<1>7. QED BY <1>3, <1>5, <1>6 DEF v

\* find_records gives back the records of an answer and passes over what is none: of one such
\* item and a record, the record (dht.rs records_list).
LEMMA FindsOne ==
  ASSUME NEW v1, ~Record!is_record(v1), NEW v2, Record!is_record(v2)
  PROVE  Record!records_list(<<v1, v2>>) = <<Record!record_from_rpc_value(v2)>>
<1> DEFINE D == 1..2
           items == <<v1, v2>>
           A == Seq({Record!record_from_rpc_value(items[k]) : k \in D})
           Op(a, k) == IF Record!is_record(items[k])
                       THEN Append(a, Record!record_from_rpc_value(items[k])) ELSE a
           T == [p \in A \X D |-> Op(p[1], p[2])]
           Defines(g) == g = [s \in SUBSET D |-> IF s = {} THEN <<>> ELSE Op(g[s \ {Top(s)}], Top(s))]
           it == CHOOSE g : Defines(g)
<1>1. DOMAIN items = D
  OBVIOUS
<1>2. Record!records_list(items) = it[D]
  BY <1>1 DEF Record!records_list, Record!FoldLeft, Record!MapThenFoldSet, Record!Max, Top
<1>3. <<>> \in A /\ T \in [A \X D -> A]
  OBVIOUS
<1> HIDE DEF it, items
<1>4. \E g : Defines(g)
  <2> HIDE DEF Op, A
  <2>1. \A a \in A, k \in D : T[<<a, k>>] = Op(a, k)
    OBVIOUS
  <2> HIDE DEF T
  <2>2. 2 \in Nat
    OBVIOUS
  <2>3. PICK g : ListFolds(g, 2, A, <<>>, T)
    BY <1>3, <2>2, ListFold
  <2> HIDE DEF D
  <2>4. /\ g \in [SUBSET D -> A]
        /\ \A s \in SUBSET D : g[s] = IF s = {} THEN <<>> ELSE T[<<g[s \ {Top(s)}], Top(s)>>]
        /\ \A s \in SUBSET D : s # {} => Top(s) \in D /\ g[s \ {Top(s)}] \in A
    BY <2>3 DEF ListFolds, D
  <2>5. ASSUME NEW s \in SUBSET D, s # {}
        PROVE  g[s] = Op(g[s \ {Top(s)}], Top(s))
    <3>1. Top(s) \in D /\ g[s \ {Top(s)}] \in A
      BY <2>4, <2>5
    <3>2. g[s] = T[<<g[s \ {Top(s)}], Top(s)>>]
      BY <2>4, <2>5
    <3>3. QED BY <2>1, <3>1, <3>2
  <2>6. \A s \in SUBSET D : g[s] = IF s = {} THEN <<>> ELSE Op(g[s \ {Top(s)}], Top(s))
    BY <2>4, <2>5
  <2>7. QED BY <2>4, <2>6
<1>5. Defines(it)
  <2> HIDE DEF Defines
  <2> QED BY <1>4 DEF it
<1>6. \A s \in SUBSET D : it[s] = IF s = {} THEN <<>> ELSE Op(it[s \ {Top(s)}], Top(s))
  <2> HIDE DEF Op
  <2> QED BY <1>5
<1> HIDE DEF Defines, A, T, Op
<1>7. /\ Top(1..1) = 1 /\ (1..1) \ {1} = {} /\ Top(1..2) = 2 /\ (1..2) \ {2} = 1..1
  <2>1. 2 \in Nat /\ 1 \in 1..2 /\ 2 \in 1..2 /\ 1 - 1 = 0 /\ 2 - 1 = 1 /\ 1..0 = {}
    OBVIOUS
  <2>2. \A k \in 1..2 : Top(1..k) = k /\ (1..k) \ {k} = 1..(k - 1)
    BY <2>1, TopOf
  <2>3. QED BY <2>1, <2>2
<1>8. /\ {} \in SUBSET D /\ 1..1 \in SUBSET D /\ D \in SUBSET D /\ 1..1 # {} /\ D # {}
  OBVIOUS
<1>9. it[{}] = <<>> /\ it[1..1] = Op(it[{}], 1) /\ it[D] = Op(it[1..1], 2)
  <2>1. it[1..1] = Op(it[(1..1) \ {Top(1..1)}], Top(1..1))
    BY <1>6, <1>8
  <2>2. it[D] = Op(it[D \ {Top(D)}], Top(D))
    BY <1>6, <1>8
  <2>3. it[{}] = <<>>
    BY <1>6, <1>8
  <2>4. QED BY <1>7, <2>1, <2>2, <2>3
<1>10. Op(<<>>, 1) = <<>> /\ Op(<<>>, 2) = <<Record!record_from_rpc_value(v2)>>
  <2>1. items[1] = v1 /\ items[2] = v2
    BY DEF items
  <2>2. \A x : Append(<<>>, x) = <<x>>
    OBVIOUS
  <2>3. QED BY <2>1, <2>2 DEF Op
<1>11. QED BY <1>2, <1>9, <1>10 DEF items

\* The records that this crate makes are whole, and signed they are found as they were put:
\* good until they expire, and with nothing in them that can be altered (dht.rs sign, verify).
LEMMA RecordsBind == Record!RecordSignatureBinds
<1> SUFFICES ASSUME NEW r \in Record!Samples
             PROVE  LET signed == Record!sign(r, "K")
                        found == Record!records_list(<<[type |-> Wrong], Record!to_rpc_value(signed)>>)
                    IN /\ found = <<signed>>
                       /\ Record!verify(found[1], 0) = "Ok"
                       /\ Record!verify(found[1], signed.expires_at) = "Expired"
                       /\ Record!verify(Record!record_from_rpc_value(Record!to_rpc_value(r)), 0)
                            = "InvalidSignature"
                       /\ Record!verify(Record!sign(r, "L"), 0) = "InvalidSignature"
                       /\ \A name \in Record!Envelope :
                            Record!verify([n \in DOMAIN signed |-> IF n = name THEN Wrong ELSE signed[n]], 0)
                              # "Ok"
  BY DEF Record!RecordSignatureBinds
<1> DEFINE E == Record!Envelope
           signed == Record!sign(r, "K")
           v1 == [type |-> Wrong]
           found == Record!records_list(<<v1, Record!to_rpc_value(signed)>>)
<1>1. /\ r = [name \in E \cup {"signature"} |-> r[name]]
      /\ r.key = "K" /\ r.signature = NoSig /\ r.expires_at \in {2, 9}
  <2>1. \A type, key, version, payload, ttl, now :
          LET s == Record!new_envelope(type, key, version, payload, ttl, now)
          IN /\ s = [name \in E \cup {"signature"} |-> s[name]]
             /\ s.key = key /\ s.signature = NoSig /\ s.expires_at = now + ttl
             /\ \A chain : LET t == Record!WithCertChain(s, chain)
                           IN /\ t = [name \in E \cup {"signature"} |-> t[name]]
                              /\ t.key = key /\ t.signature = NoSig /\ t.expires_at = now + ttl
    BY DEF Record!new_envelope, Record!WithCertChain, Record!Envelope
  <2>2. \E ttl \in {2, 9} : \E type, version, payload :
          LET s == Record!new_envelope(type, "K", version, payload, ttl, 0)
          IN r = s \/ \E chain : r = Record!WithCertChain(s, chain)
    BY DEF Record!Samples, Record!new_procedure_advertisement, Record!new_content_announcement
  <2>3. QED BY <2>1, <2>2

<1>2. /\ \A name \in E : r[name] # Wrong
      /\ signed.signature \notin {NoSig, Wrong}
  BY PartsAssumption DEF Record!SymbolsAssumption
<1>3. ASSUME NEW id
      PROVE  LET s == Record!sign(r, id)
             IN /\ s = [name \in E \cup {"signature"} |-> s[name]]
                /\ s.signature = [by |-> id, over |-> Record!Message(r)]
                /\ \A name \in E : s[name] = r[name]
                /\ Record!Message(s) = Record!Message(r)
  <2> DEFINE s == Record!sign(r, id)
  <2>1. s = [r EXCEPT !.signature = [by |-> id, over |-> Record!Message(r)]]
    BY DEF Record!sign
  <2>2. "signature" \notin E
    BY DEF Record!Envelope
  <2> HIDE DEF s, E
  <2>3. /\ s = [name \in E \cup {"signature"} |-> s[name]]
        /\ s.signature = [by |-> id, over |-> Record!Message(r)]
        /\ \A name \in E : s[name] = r[name]
    BY <1>1, <2>1, <2>2
  <2>4. Record!canonical_unsigned(s) = Record!canonical_unsigned(r)
    BY <1>1, <2>2, <2>3 DEF Record!canonical_unsigned
  <2>5. Record!Message(s) = Record!Message(r)
    BY <2>4 DEF Record!Message
  <2>6. QED BY <2>3, <2>5 DEF s
<1>4. "key" \in E /\ "expires_at" \in E /\ "signature" \notin E
  BY DEF Record!Envelope
<1>5. /\ signed = [name \in E \cup {"signature"} |-> signed[name]]
      /\ signed.signature = [by |-> "K", over |-> Record!Message(r)]
      /\ \A name \in E : signed[name] = r[name]
      /\ Record!Message(signed) = Record!Message(r)
      /\ signed.key = "K" /\ signed.expires_at = r.expires_at
  BY <1>1, <1>3, <1>4
<1> HIDE DEF signed
<1>6. IsRecord(signed) /\ IsRecord(r)
  BY <1>1, <1>2, <1>5 DEF IsRecord
<1>7. found = <<signed>>
  <2>1. ~Record!is_record(v1)
    <3>1. DOMAIN v1 = {"type"}
      OBVIOUS
    <3>2. QED BY <3>1 DEF Record!is_record, Record!Envelope
  <2> HIDE DEF v1
  <2>2. QED BY <1>6, <2>1, PutIsFound, FindsOne
<1>8. Record!verify(signed, 0) = "Ok" /\ Record!verify(signed, signed.expires_at) = "Expired"
  <2>1. signed.expires_at > 0 /\ ~(0 >= signed.expires_at) /\ signed.expires_at >= signed.expires_at
    BY <1>1, <1>5
  <2>2. signed.signature = [by |-> signed.key, over |-> Record!Message(signed)]
    BY <1>5
  <2>3. QED BY <2>1, <2>2 DEF Record!verify
<1>9. Record!verify(Record!record_from_rpc_value(Record!to_rpc_value(r)), 0) = "InvalidSignature"
  <2>1. Record!record_from_rpc_value(Record!to_rpc_value(r)) = r
    BY <1>6, PutIsFound
  <2>2. r.signature # [by |-> r.key, over |-> Record!Message(r)]
    BY <1>1, <1>2, <1>5
  <2>3. QED BY <2>1, <2>2 DEF Record!verify
<1>10. Record!verify(Record!sign(r, "L"), 0) = "InvalidSignature"
  <2> DEFINE s == Record!sign(r, "L")
  <2>1. s.signature = [by |-> "L", over |-> Record!Message(r)] /\ s.key = "K"
    BY <1>1, <1>3, <1>4
  <2> HIDE DEF s
  <2>2. s.signature.by = "L"
    BY <2>1
  <2>3. s.signature # [by |-> s.key, over |-> Record!Message(s)]
    BY <2>1, <2>2
  <2>4. Record!verify(s, 0) = "InvalidSignature"
    BY <2>3 DEF Record!verify
  <2>5. QED BY <2>4 DEF s
<1>11. ASSUME NEW name \in E
       PROVE  Record!verify([n \in DOMAIN signed |-> IF n = name THEN Wrong ELSE signed[n]], 0) # "Ok"
  <2> DEFINE t == [n \in DOMAIN signed |-> IF n = name THEN Wrong ELSE signed[n]]
  <2>1. DOMAIN signed = E \cup {"signature"}
    BY <1>5
  <2>2. DOMAIN t = E \cup {"signature"} /\ t[name] = Wrong /\ t.signature = signed.signature
    BY <1>4, <2>1
  <2> HIDE DEF t
  <2>3. ASSUME Record!verify(t, 0) = "Ok"
        PROVE  FALSE
    <3>1. t.signature = [by |-> t.key, over |-> Record!Message(t)]
      BY <2>3 DEF Record!verify
    <3>2. t.signature.over = Record!Message(t) /\ t.signature.over = Record!Message(r)
      BY <1>5, <2>2, <3>1
    <3>3. Record!Message(t) = Record!Message(r)
      BY <3>2
    <3>4. Record!canonical_unsigned(t) = Record!canonical_unsigned(r)
      BY <3>3 DEF Record!Message
    <3>5. Record!canonical_unsigned(t)[name] = t[name]
          /\ Record!canonical_unsigned(r)[name] = r[name]
      <4>1. DOMAIN r = E \cup {"signature"}
        BY <1>1
      <4>2. name \in DOMAIN t \ {"signature"} /\ name \in DOMAIN r \ {"signature"}
        BY <1>4, <2>2, <4>1
      <4>3. QED BY <4>2 DEF Record!canonical_unsigned
    <3>6. QED BY <1>2, <2>2, <3>4, <3>5
  <2>4. QED BY <2>3 DEF t
<1>12. QED BY <1>7, <1>8, <1>9, <1>10, <1>11 DEF signed

-----------------------------------------------------------------------------
(* Tokens: what a signature fixes, and who is honoured.                      *)

\* Two tokens that are good under one signature are one token, and of one issuer's key
\* (ucan.rs verify).
THEOREM TokenBinds ==
  ASSUME NEW t, NEW u, t.sig = u.sig, NEW key, NEW other, NEW now, NEW later,
         Token!verify(t, key, now) = "Ok", Token!verify(u, other, later) = "Ok"
  PROVE  key = other /\ t.header = u.header /\ t.payload = u.payload
<1>1. \A x, y, v, w : [by |-> x, over |-> v] = [by |-> y, over |-> w] => x = y /\ v = w
  OBVIOUS
<1>2. t.sig = [by |-> key, over |-> <<t.header, t.payload>>]
  BY DEF Token!verify
<1>3. u.sig = [by |-> other, over |-> <<u.header, u.payload>>]
  BY DEF Token!verify
<1>4. [by |-> key, over |-> <<t.header, t.payload>>] = [by |-> other, over |-> <<u.header, u.payload>>]
  BY <1>2, <1>3
<1>5. key = other /\ <<t.header, t.payload>> = <<u.header, u.payload>>
  BY <1>1, <1>4
<1>6. QED BY <1>5

\* The fields of a token that is issued.
LEMMA IssuedIs ==
  ASSUME NEW token
  PROVE  token \in Token!Issued <=>
           \E iss \in Token!Signers, id \in Token!Signers, exp \in {2, Never}, nbf \in {1, Never} :
             token = [header |-> Token!TokenHeader,
                      payload |-> [iss |-> iss, aud |-> "aud", cap |-> "can", exp |-> exp, nbf |-> nbf],
                      sig |-> [by |-> id,
                               over |-> <<Token!TokenHeader,
                                          [iss |-> iss, aud |-> "aud", cap |-> "can", exp |-> exp,
                                           nbf |-> nbf]>>]]
BY DEF Token!Issued, Token!create

\* Of the sample tokens, and those made from them, a gated procedure takes those that its
\* issuer's key has signed as they stand, in their time (ucan.rs verify, Policy::check).
LEMMA TokensHonoured == Token!TokenHonoured
<1> DEFINE Known == Token!Issued \cup Token!Altered
           Signed(t) == t.sig = [by |-> "I", over |-> <<t.header, t.payload>>]
<1>1. Malformed \notin Known
  BY PartsAssumption DEF Token!UcanAssumption
<1>2. ASSUME NEW t \in Token!Issued
      PROVE  /\ t = [header |-> t.header, payload |-> t.payload, sig |-> t.sig]
             /\ t.sig = [by |-> t.sig.by, over |-> <<t.header, t.payload>>]
             /\ t.payload.exp \in {2, Never} /\ t.payload.nbf \in {1, Never}
  BY IssuedIs
<1>3. ASSUME NEW t \in Token!Altered
      PROVE  \E u \in Token!Issued :
               /\ t = [header |-> t.header, payload |-> t.payload, sig |-> u.sig]
               /\ t.payload.exp \in {2, 9, Never} /\ t.payload.nbf \in {1, Never}
  <2>1. PICK u \in Token!Issued : \/ t = [u EXCEPT !.payload.exp = 9]
                                  \/ t = [u EXCEPT !.payload.cap = "more"]
                                  \/ t = [u EXCEPT !.header.alg = "none"]
    BY DEF Token!Altered
  <2>2. PICK iss \in Token!Signers, id \in Token!Signers, exp \in {2, Never}, nbf \in {1, Never} :
          u = [header |-> Token!TokenHeader,
               payload |-> [iss |-> iss, aud |-> "aud", cap |-> "can", exp |-> exp, nbf |-> nbf],
               sig |-> [by |-> id,
                        over |-> <<Token!TokenHeader,
                                   [iss |-> iss, aud |-> "aud", cap |-> "can", exp |-> exp,
                                    nbf |-> nbf]>>]]
    BY IssuedIs
  <2> DEFINE p == [iss |-> iss, aud |-> "aud", cap |-> "can", exp |-> exp, nbf |-> nbf]
  <2>3. u.payload = p /\ u = [header |-> u.header, payload |-> u.payload, sig |-> u.sig]
    BY <2>2
  <2>4. CASE t = [u EXCEPT !.payload.exp = 9]
    <3>1. t.payload = [u.payload EXCEPT !.exp = 9] /\ t.sig = u.sig
          /\ t = [header |-> t.header, payload |-> t.payload, sig |-> t.sig]
      BY <2>3, <2>4
    <3>2. t.payload.exp = 9 /\ t.payload.nbf = nbf
      BY <2>3, <3>1
    <3>3. QED BY <3>1, <3>2
  <2>5. CASE t = [u EXCEPT !.payload.cap = "more"]
    <3>1. t.payload = [u.payload EXCEPT !.cap = "more"] /\ t.sig = u.sig
          /\ t = [header |-> t.header, payload |-> t.payload, sig |-> t.sig]
      BY <2>3, <2>5
    <3>2. t.payload.exp = exp /\ t.payload.nbf = nbf
      BY <2>3, <3>1
    <3>3. QED BY <3>1, <3>2
  <2>6. CASE t = [u EXCEPT !.header.alg = "none"]
    <3>1. t.payload = u.payload /\ t.sig = u.sig
          /\ t = [header |-> t.header, payload |-> t.payload, sig |-> t.sig]
      BY <2>3, <2>6
    <3>2. t.payload.exp = exp /\ t.payload.nbf = nbf
      BY <2>3, <3>1
    <3>3. QED BY <3>1, <3>2
  <2>7. QED BY <2>1, <2>4, <2>5, <2>6
<1>4. ASSUME NEW t \in Known
      PROVE  Signed(t) <=> t \in Token!Issued /\ t.sig.by = "I"
  <2>0. \A x, y, v, w : [by |-> x, over |-> v] = [by |-> y, over |-> w] => x = y /\ v = w
    OBVIOUS
  <2>1. t \in Token!Issued /\ t.sig.by = "I" => Signed(t)
    BY <1>2
  <2>2. t \in Token!Issued /\ Signed(t) => t.sig.by = "I"
    OBVIOUS
  <2>3. ASSUME t \in Token!Altered, Signed(t)
        PROVE  t \in Token!Issued
    <3>1. PICK u \in Token!Issued : t = [header |-> t.header, payload |-> t.payload, sig |-> u.sig]
      BY <1>3, <2>3
    <3>2. u.sig = [by |-> u.sig.by, over |-> <<u.header, u.payload>>]
          /\ u = [header |-> u.header, payload |-> u.payload, sig |-> u.sig]
      BY <1>2
    <3>3. t.sig = u.sig
      BY <3>1
    <3>4. [by |-> u.sig.by, over |-> <<u.header, u.payload>>]
            = [by |-> "I", over |-> <<t.header, t.payload>>]
      BY <2>3, <3>2, <3>3
    <3>5. <<u.header, u.payload>> = <<t.header, t.payload>>
      BY <2>0, <3>4
    <3>6. t = u
      BY <3>1, <3>2, <3>5
    <3>7. QED BY <3>6
  <2>4. QED BY <2>1, <2>2, <2>3
<1>5. ASSUME NEW t \in Known
      PROVE  t.payload.exp \in {2, 9, Never} /\ t.payload.nbf \in {1, Never}
  BY <1>2, <1>3
<1> HIDE DEF Signed
<1>6. ASSUME NEW t \in Known, NEW now \in 0..3
      PROVE  Token!verify(t, "I", now) = "Ok" <=>
               /\ t \in Token!Issued /\ t.sig.by = "I"
               /\ now >= (IF t.payload.nbf = Never THEN 0 ELSE t.payload.nbf)
               /\ now <= (IF t.payload.exp = Never THEN 3 ELSE t.payload.exp)
  <2>1. t # Malformed
    BY <1>1
  <2>2. Token!is_expired(t, now) <=> ~(now <= (IF t.payload.exp = Never THEN 3 ELSE t.payload.exp))
    BY <1>5 DEF Token!is_expired
  <2>3. (t.payload.nbf # Never /\ now < t.payload.nbf)
          <=> ~(now >= (IF t.payload.nbf = Never THEN 0 ELSE t.payload.nbf))
    BY <1>5
  <2>4. Token!verify(t, "I", now) = "Ok" <=>
          /\ ~Token!is_expired(t, now) /\ ~(t.payload.nbf # Never /\ now < t.payload.nbf) /\ Signed(t)
    BY <2>1 DEF Token!verify, Signed
  <2>5. QED BY <1>4, <2>2, <2>3, <2>4
<1>7. ASSUME NEW t \in Known \cup {Malformed}, NEW now \in 0..3, NEW presented \in BOOLEAN
      PROVE  Token!check(Token!required("I"), t, presented, now) = "Ok" <=>
               /\ presented
               /\ t \in Token!Issued /\ t.sig.by = "I"
               /\ now >= (IF t.payload.nbf = Never THEN 0 ELSE t.payload.nbf)
               /\ now <= (IF t.payload.exp = Never THEN 3 ELSE t.payload.exp)
  <2>1. Token!check(Token!required("I"), t, presented, now)
          = IF ~presented THEN "NoToken" ELSE Token!verify(t, "I", now)
    BY DEF Token!check, Token!required
  <2>2. CASE t \in Known
    BY <1>6, <2>1, <2>2
  <2>3. CASE t = Malformed
    <3>1. Token!verify(t, "I", now) = "InvalidToken"
      BY <2>3 DEF Token!verify
    <3>2. t \notin Token!Issued
      BY <1>1, <2>3
    <3>3. QED BY <2>1, <3>1, <3>2
  <2>4. QED BY <2>2, <2>3
<1>8. QED BY <1>7 DEF Token!TokenHonoured

\* SignaturesBind: in every state of the part "codec", nothing can change under a signature of a
\* frame, a record or a token, and a gate opens to what its issuer has signed only
\* (frame.rs, dht.rs, ucan.rs).
THEOREM SignaturesBindHold == PartsSpec => []SignaturesBind
<1>1. SignaturesBind
  BY FramesBind, RecordsBind, TokensHonoured DEF SignaturesBind
<1>2. QED BY <1>1, PTL

=============================================================================
