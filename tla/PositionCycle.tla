--------------------------- MODULE PositionCycle ----------------------------
(***************************************************************************)
(* What a paper account sees of its trader, whatever goes on inside: a     *)
(* position is opened from flat by one order of at most the configured     *)
(* size, and closed as a whole; from a halt to the operator's clearing of  *)
(* it nothing is opened.  SimHalt implements it.                           *)
(***************************************************************************)
EXTENDS Integers

CONSTANT MaxSize

VARIABLES position, stopped

cycle == <<position, stopped>>

\* An entry fills.
Enter == /\ position = 0 /\ ~stopped
         /\ position' \in (-MaxSize..MaxSize) \ {0}
         /\ UNCHANGED stopped

\* An exit, a stop or the kill switch closes it.
Leave == position # 0 /\ position' = 0 /\ UNCHANGED stopped

\* A halt and its end: neither touches the position.
Stop  == ~stopped /\ stopped' = TRUE /\ UNCHANGED position
Clear == stopped /\ stopped' = FALSE /\ UNCHANGED position

CycleInit == position = 0 /\ stopped = FALSE
CycleSpec == CycleInit /\ [][Enter \/ Leave \/ Stop \/ Clear]_cycle
=============================================================================
