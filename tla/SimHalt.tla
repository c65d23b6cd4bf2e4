------------------------------ MODULE SimHalt -------------------------------
(***************************************************************************)
(* SimTrader with three history variables.  halted says that the           *)
(* positions_local row has been HALTED or LIQUIDATED since the last        *)
(* --clear-halt; cut says that since then the process died while           *)
(* shutdown() had the row at EXIT_PENDING for the order that flattens a    *)
(* halted router; missed says that the side the strategy is on is one it   *)
(* asked for and was refused (a guard, or kill:pause).                     *)
(***************************************************************************)
EXTENDS SimTrader

VARIABLES halted, cut, missed

haltVars == <<vars, halted, cut, missed>>

Cut == pc # "down" /\ pc' = "down" /\ halted /\ row.state \notin Frozen

\* A bar that a flat router lets pass without an order.
Passed == pc = "bar" /\ pc' = "idle" /\ rt.state = "FLAT"

HaltNext ==
  /\ \/ /\ Step
        /\ halted' = (halted \/ row'.state \in Frozen)
        /\ cut' = (cut \/ Cut)
     \/ /\ OperatorClears
        /\ halted' = FALSE /\ cut' = FALSE
  /\ missed' = (side' # 0 /\ (missed \/ Passed))

HaltInit == Init /\ halted = FALSE /\ cut = FALSE /\ missed = FALSE
HaltSpec == HaltInit /\ [][HaltNext]_haltVars

\* With no handler running and no event queued, the strategy is on the side the
\* router holds, and on none when it is flat: through stops, halts, exits by the
\* kill switch and restarts.  The one exception is an entry it asked for on a bar
\* that a guard or kill:pause let pass: target() has moved it by then.
BeliefTrue ==
  Quiet => /\ rt.state = "OPEN" => side = Sign(rt.size)
           /\ rt.state = "FLAT" => side = 0 \/ missed

Account == INSTANCE PositionCycle WITH
             MaxSize <- MaxQty, position <- pos, stopped <- halted /\ ~cut

\* The paper account goes from flat to one configured order and back to flat,
\* and opens nothing between a halt and the operator's --clear-halt: no order is
\* sent twice, no entry is stacked on a position the router does not know of, and
\* no fill, adoption, reconciliation or restart thaws a halt, unless the process
\* died inside the order by which shutdown() flattens a halted router.
CycleKept == Account!CycleSpec
=============================================================================
