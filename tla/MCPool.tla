------------------------------- MODULE MCPool -------------------------------
(***************************************************************************)
(* Small pools for TLC: one or two seeds, at most one station to discover,  *)
(* two callers.  Every link may have a task of its own and one more slot is *)
(* left free, so that a second lifecycle of a link would have room to run.  *)
(***************************************************************************)
EXTENDS Pool, TLC

CONSTANTS l1, l2, d1, c1, c2, t1, t2, t3, s1, s2, s3, s4

OneSeed  == <<l1>>
TwoSeeds == <<l1, l2>>

\* Slots of the JoinSet and callers are interchangeable.
Symmetry == Permutations(Tasks) \cup Permutations(Callers)

\* What ends is checked of two pools: one with discovery, which uses the pool as a
\* caller does, and one with callers, of which one may publish.
EndsInit == Init /\ pc[t1] = "new" /\ (pc[Disco] = "off" <=> pc[c1] = "idle")
EndsSpec == EndsInit /\ [][Next]_vars /\ Fairness

=============================================================================
