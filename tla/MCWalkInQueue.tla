--------------------------- MODULE MCWalkInQueue ---------------------------
(* Entries are interchangeable. *)
EXTENDS WalkInQueue, TLC

Symmetry == Permutations(Entries)

\* Constraint: three people do everything; a fourth joins only on a day on which
\* nobody gives a number or is taken into service, so that two calls can time
\* out while two people wait.
ThreeOrAllWaiting ==
    \/ Cardinality({e \in Entries : entry[e] # NoRow}) <= 3
    \/ day = 1 /\ isOpen /\ timeoutOn /\ \A e \in Entries : entry[e].appt = "none" /\ entry[e].phone = NoPhone

\* Constraint: the owner changes settings on the first day only.
SettingsFirst == day = 1 \/ (isOpen /\ timeoutOn)
=============================================================================
