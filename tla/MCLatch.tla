------------------------------ MODULE MCLatch ------------------------------
(* Latch for TLC.                                                          *)
EXTENDS Latch, TLC

(* Everybody is done: no work is left to make, and the owner sleeps.       *)
Stop ==
  /\ sets = MaxSets
  /\ \A o \in Owner : pc[Main(o)] \in {"block", "out", "gone"}
  /\ \A c \in Context : c[2] = "handler" \/ c[1] \in Setter => pc[c] = "idle"
  /\ UNCHANGED vars

MCNext == Next \/ Stop

MCSpec == Init /\ [][MCNext]_vars

MCFairSpec == MCSpec /\ Fairness

Symmetry == Permutations(Owner) \cup Permutations(Setter)
=============================================================================
