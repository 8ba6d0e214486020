------------------------------- MODULE Advertiser -------------------------------
(***************************************************************************)
(* keep_advertised_direct and advertise_direct, src/direct_dial.rs: a        *)
(* provider that renews its registration with its station and its record in  *)
(* the DHT on a schedule, against the clock.                                 *)
(*                                                                          *)
(* Times are relative: how long the record has to live, how long until the   *)
(* next tick is due.  Time passes only when the loop waits.  The frames of a  *)
(* tick, ADVERTISE and the CALL of the put, are written without a timeout:    *)
(* that PutMax bounds them is assumed of a station that reads.               *)
(***************************************************************************)
EXTENDS Integers

CONSTANTS
  Ttl,       \* ttl of the records
  Interval,  \* between two ticks
  PutMax,    \* the longest a put_record takes: DHT_TIMEOUT, once its CALL is written
  Margin     \* how many ticks in a row may fail

\* What the constants are; tokio panics on an interval of no time.
AdvertiserAssumption ==
  /\ {Ttl, PutMax, Margin} \subseteq Nat
  /\ Interval \in Nat \ {0}

Larger == IF Interval > PutMax THEN Interval ELSE PutMax

VARIABLES
  up,      \* the session's connection
  routed,  \* the station has this session's registration
  alive,   \* how long the record in the DHT has to live, 0 if there is none
  due,     \* time until the next tick, negative when it is late
  age,     \* how old the record is that is being put, or was put last
  landed,  \* that record is in the DHT
  pc,      \* "select", "put" or "returned"
  stop,    \* the stop future has resolved
  failed   \* ticks that failed since a record was put, or more than Margin of them

vars == <<up, routed, alive, due, age, landed, pc, stop, failed>>

\* The first tick is due at once; until a first record is put nothing is promised.
Init ==
  /\ up = TRUE /\ routed = FALSE /\ alive = 0 /\ due = 0
  /\ age = 0 /\ landed = FALSE
  /\ pc = "select" /\ stop = FALSE
  /\ failed = Margin + 1

Fails(n) == IF n > Margin THEN n ELSE n + 1

-----------------------------------------------------------------------------

\* Slip: the record alone, no ADVERTISE.
Tick_record_only ==
  /\ pc = "select" /\ due <= 0
  /\ due' = due + Interval
  /\ IF up
     THEN pc' = "put" /\ age' = 0 /\ landed' = FALSE /\ UNCHANGED failed
     ELSE failed' = Fails(failed) /\ UNCHANGED <<pc, age, landed>>
  /\ UNCHANGED <<up, routed, alive, stop>>

\* A tick: ADVERTISE on the control stream, then a fresh record.  A tick that is late
\* does not put off the next one.  On a dead connection ADVERTISE fails.
Tick ==
  /\ pc = "select" /\ due <= 0
  /\ due' = due + Interval
  /\ IF up
     THEN routed' = TRUE /\ pc' = "put" /\ age' = 0 /\ landed' = FALSE /\ UNCHANGED failed
     ELSE failed' = Fails(failed) /\ UNCHANGED <<routed, pc, age, landed>>
  /\ UNCHANGED <<up, alive, stop>>

\* _dht.put_record reaches the DHT.
Land ==
  /\ pc = "put" /\ ~landed
  /\ landed' = TRUE
  /\ alive' = Ttl - age
  /\ UNCHANGED <<up, routed, due, age, pc, stop, failed>>

\* The station's answer, or an error, or no answer in time: on_error, and on with the
\* loop.  No answer does not say that the record has not landed.
PutEnds(ok) ==
  /\ pc = "put"
  /\ ok => landed /\ up
  /\ pc' = "select"
  /\ failed' = IF ok THEN 0 ELSE Fails(failed)
  /\ UNCHANGED <<up, routed, alive, due, age, landed, stop>>

\* select! takes a tick or the stop if both are there; while a tick runs neither is
\* looked at.
Returns ==
  /\ pc = "select" /\ stop
  /\ pc' = "returned"
  /\ UNCHANGED <<up, routed, alive, due, age, landed, stop, failed>>

StopResolves ==
  /\ ~stop
  /\ stop' = TRUE
  /\ UNCHANGED <<up, routed, alive, due, age, landed, pc, failed>>

\* The connection goes, and with it the station's registration; the record stays.
Lose ==
  /\ up
  /\ up' = FALSE /\ routed' = FALSE
  /\ UNCHANGED <<alive, due, age, landed, pc, stop, failed>>

Less(n) == IF n = 0 THEN 0 ELSE n - 1

\* The loop is at once where it can be: a tick that is due or a stop does not wait,
\* a put waits for PutMax at most (assumed of its write).
Pass ==
  /\ \/ pc = "select" /\ due > 0 /\ ~stop
     \/ pc = "put" /\ age < PutMax
     \/ pc = "returned" /\ alive > 0
  /\ alive' = Less(alive)
  /\ due' = IF pc = "returned" THEN due ELSE due - 1
  /\ age' = IF pc = "put" THEN age + 1 ELSE age
  /\ UNCHANGED <<up, routed, landed, pc, stop, failed>>

Next == Tick \/ Land \/ (\E ok \in BOOLEAN : PutEnds(ok)) \/ Returns \/ StopResolves \/ Lose \/ Pass

Spec == Init /\ [][Next]_vars

-----------------------------------------------------------------------------

TypeOK ==
  /\ up \in BOOLEAN /\ routed \in BOOLEAN /\ landed \in BOOLEAN /\ stop \in BOOLEAN
  /\ alive \in 0..Ttl /\ age \in 0..PutMax /\ due \in Int
  /\ pc \in {"select", "put", "returned"} /\ failed \in 0..(Margin + 1)

\* While the connection stands, who finds the record is let through by the station; and
\* while the loop runs, once a record has been put, one is there: through Margin failed
\* ticks in a row, if the ttl has room for them (direct_dial.rs advertise_direct,
\* keep_advertised_direct).
KeptAdvertised ==
  /\ up /\ alive > 0 => routed
  /\ pc # "returned" /\ failed <= Margin /\ Ttl > (Margin + 1) * Larger + PutMax => alive > 0

=================================================================================
