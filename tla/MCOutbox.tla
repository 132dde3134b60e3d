------------------------------- MODULE MCOutbox -------------------------------
(***************************************************************************)
(* Instances of Outbox for TLC.  The configurations choose the relays, the *)
(* tasks and the bounds; symmetry exchanges relays, and is used only where *)
(* no liveness property is checked.                                        *)
(***************************************************************************)
EXTENDS Outbox, TLC

CONSTANTS r1, r2, t1, t2, t3

TwoRelays == {r1, r2}
OneRelay == {r1}
TwoTasks == {t1, t2}
ThreeTasks == {t1, t2, t3}
OneTask == {t1}
NoJitter == {0}
SomeJitter == {0, 1}

RelaySymmetry == Permutations(Relays)
===============================================================================
