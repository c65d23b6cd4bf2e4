---------------------------- MODULE RouterProofs ----------------------------
(***************************************************************************)
(* Every action of Router preserves the router's types and the parts of    *)
(* RouterInv.  SimTrader and LiveTrader only conjoin these actions with    *)
(* what the executor does, so the lemmas here serve both.                  *)
(***************************************************************************)
EXTENDS Router, TLAPS

USE DEF Frozen, Pending, States, GaveUp, Terminal, InFlight, Statuses, Sides, Stops
USE DEF SnapshotPcs, PlacePcs, CancelPcs, Pcs

-----------------------------------------------------------------------------
(* Types of what the actions build.                                         *)

LEMMA CidsFacts == NoCid \notin Cids /\ Cids \subseteq Nat
BY RouterAssumption DEF Cids, NoCid

LEMMA EmptySnapshotType == EmptySnapshot \in Snapshots
BY DEF EmptySnapshot, Snapshots

LEMMA NoLocalsType == NoLocals \in Locals /\ NoLocals.why = "none"
BY EmptySnapshotType DEF NoLocals, Locals, NoCid

LEMMA FreshRouterType == FreshRouter \in Routers
BY DEF FreshRouter, Routers, NoCid

LEMMA ImageType ==
  ASSUME NEW r \in Routers PROVE Image(r) \in Rows
BY DEF Image, Routers, Rows

LEMMA WithStatusType ==
  ASSUME RouterTypeOK, NEW c \in Cids, NEW st \in Statuses
  PROVE  /\ WithStatus(c, st) \in [Cids -> OrderRows]
         /\ WithStatusUnlessTerminal(c, st) \in [Cids -> OrderRows]
BY DEF RouterTypeOK, WithStatus, WithStatusUnlessTerminal, OrderRows

LEMMA HaltType ==
  ASSUME RouterTypeOK, Halt PROVE rt' \in Routers /\ row' \in Rows
<1>1. HaltedRouter \in Routers
  BY DEF RouterTypeOK, HaltedRouter, Routers, NoCid
<1> QED
  BY <1>1, ImageType DEF RouterTypeOK, Halt

LEMMA CommitType ==
  ASSUME NEW r \in Routers, Commit(r) PROVE rt' \in Routers /\ row' \in Rows
BY ImageType DEF Commit

USE DEF RouterInv, SeqCoversOrders, RowKnown, SendingHasRow, RowSaved, PendingNamed,
        SizeKnown, ErrorHalted, Starting, Unsaved, Unsettled, Sending

-----------------------------------------------------------------------------
(* Snapshots.                                                               *)

LEMMA StartsPreserve ==
  ASSUME RouterTypeOK, RouterInv, StartBar \/ StartFast \/ StartReconcile
  PROVE  RouterTypeOK' /\ RouterInv'
<1>1. RouterTypeOK'
  BY DEF RouterTypeOK, StartBar, StartFast, StartReconcile
<1>2. RouterInv'
  BY DEF StartBar, StartFast, StartReconcile, HasRow
<1> QED
  BY <1>1, <1>2

LEMMA SnapshotReturnsPreserves ==
  ASSUME RouterTypeOK, RouterInv, NEW s \in Snapshots, SnapshotReturns(s)
  PROVE  RouterTypeOK' /\ RouterInv'
<1> USE DEF SnapshotReturns, RouterTypeOK
<1>1. loc' \in Locals
  BY DEF Locals
<1>2. pc' \in Pcs
  BY DEF AfterSnapshot
<1>3. /\ loc'.cid = loc.cid /\ loc'.prior = loc.prior /\ loc'.why = loc.why
      /\ UNCHANGED <<rt, row, orders>>
  BY DEF Locals
<1>4. /\ pc = "boot_snap" <=> pc' = "recover"
      /\ pc = "landed_snap" <=> pc' = "landed"
      /\ pc \in SnapshotPcs
      /\ pc' \in {"recover", "bar", "check_pending", "missing_stop", "landed", "adopt"}
  BY DEF AfterSnapshot
<1>5. SeqCoversOrders' /\ RowKnown'
  BY <1>3, <1>4 DEF HasRow
<1>6. SendingHasRow' /\ ErrorHalted'
  BY <1>3, <1>4 DEF HasRow
<1>7. RowSaved' /\ PendingNamed' /\ SizeKnown'
  BY <1>3, <1>4 DEF HasRow, Image
<1> QED
  BY <1>1, <1>2, <1>3, <1>5, <1>6, <1>7

-----------------------------------------------------------------------------
(* _send.                                                                   *)

LEMMA MarkPendingPreserves ==
  ASSUME RouterTypeOK, RouterInv, MarkPending
  PROVE  RouterTypeOK' /\ RouterInv'
<1> USE DEF MarkPending
<1>1. rt' \in Routers
  BY DEF RouterTypeOK, Routers, Locals, Commit
<1>2. row' \in Rows /\ row' = Image(rt')
  BY <1>1, ImageType DEF Commit
<1>3. loc' \in Locals
  BY DEF RouterTypeOK, Routers, Locals
<1>4. RouterTypeOK'
  BY <1>1, <1>2, <1>3 DEF RouterTypeOK
<1>5. /\ rt'.pend = loc.cid /\ rt'.seq = rt.seq /\ rt'.size = rt.size /\ rt'.state \in Pending
      /\ loc'.cid = loc.cid /\ loc'.prior = rt.state /\ loc'.why = loc.why
      /\ UNCHANGED orders /\ pc = "mark_pending" /\ pc' = "submit"
  BY DEF RouterTypeOK, Routers, Locals, Commit
<1>6. rt.state \in States /\ HasRow(loc.cid) /\ rt.state \notin Pending /\ loc.why # "error"
  BY DEF RouterTypeOK, Routers
<1>7. RouterInv'
  BY <1>2, <1>5, <1>6, CidsFacts DEF HasRow, Image
<1> QED
  BY <1>4, <1>7

LEMMA CallsPreserve ==
  ASSUME RouterTypeOK, RouterInv, SubmitCalled \/ AckTimeout
  PROVE  RouterTypeOK' /\ RouterInv'
<1>1. RouterTypeOK'
  BY DEF RouterTypeOK, SubmitCalled, AckTimeout
<1>2. RouterInv'
  BY DEF SubmitCalled, AckTimeout, HasRow
<1> QED
  BY <1>1, <1>2

\* An update of a row that exists keeps the set of rows.
LEMMA WithStatusKeepsRows ==
  ASSUME RouterTypeOK, NEW c \in Cids, NEW st \in Statuses, HasRow(c),
         orders' \in {WithStatus(c, st), WithStatusUnlessTerminal(c, st)}
  PROVE  \A d : HasRow(d)' <=> HasRow(d)
BY DEF RouterTypeOK, OrderRows, WithStatus, WithStatusUnlessTerminal, HasRow

LEMMA SendReturnsFacts ==
  ASSUME RouterTypeOK, SendReturns
  PROVE  loc' \in Locals /\ pc' \in {"idle", "halt_closed"} /\ loc'.why = "none"
BY NoLocalsType DEF RouterTypeOK, SendReturns, NoLocals

LEMMA OrderAcceptedPreserves ==
  ASSUME RouterTypeOK, RouterInv, AckAccepted \/ LandedAfterAll
  PROVE  RouterTypeOK' /\ RouterInv'
<1>1. /\ pc \in {"ack", "landed"} /\ UNCHANGED <<rt, row>> /\ SendReturns
      /\ orders' = WithStatusUnlessTerminal(loc.cid, "accepted")
  BY DEF AckAccepted, LandedAfterAll, OrderAccepted
<1>2. HasRow(loc.cid) /\ loc.cid \in Cids
  BY <1>1 DEF HasRow
<1>3. RouterTypeOK'
  BY <1>1, <1>2, WithStatusType, SendReturnsFacts DEF RouterTypeOK
<1>4. \A d : HasRow(d)' <=> HasRow(d)
  BY <1>1, <1>2, WithStatusKeepsRows
<1>5. RouterInv'
  BY <1>1, <1>4, SendReturnsFacts DEF Image
<1> QED
  BY <1>3, <1>5

LEMMA AckRejectedPreserves ==
  ASSUME RouterTypeOK, RouterInv, AckRejected
  PROVE  RouterTypeOK' /\ RouterInv'
<1>1. /\ pc = "ack" /\ SendReturns /\ orders' = WithStatus(loc.cid, "rejected")
      /\ Commit([rt EXCEPT !.pend = NoCid, !.state = loc.prior])
  BY DEF AckRejected
<1>2. /\ HasRow(loc.cid) /\ loc.cid \in Cids /\ loc.prior \in States \ Pending
      /\ loc.prior = "FLAT" => rt.size = 0
      /\ loc.prior = "OPEN" => rt.size # 0
  BY <1>1 DEF HasRow
<1>3. [rt EXCEPT !.pend = NoCid, !.state = loc.prior] \in Routers
  BY <1>2 DEF RouterTypeOK, Routers
<1>4. RouterTypeOK'
  BY <1>1, <1>2, <1>3, CommitType, WithStatusType, SendReturnsFacts DEF RouterTypeOK
<1>5. \A d : HasRow(d)' <=> HasRow(d)
  BY <1>1, <1>2, WithStatusKeepsRows
<1>6. /\ rt'.state = loc.prior /\ rt'.size = rt.size /\ rt'.seq = rt.seq /\ rt'.pend = NoCid
      /\ row' = Image(rt') /\ row'.state # "none"
  BY <1>1, <1>2 DEF RouterTypeOK, Routers, Commit, Image
<1>7. RouterInv'
  BY <1>1, <1>2, <1>5, <1>6, SendReturnsFacts
<1> QED
  BY <1>4, <1>7

\* What halt() leaves: a frozen router of the same size, saved if it was.
LEMMA HaltFacts ==
  ASSUME RouterTypeOK, Halt, row = Image(rt)
  PROVE  /\ rt'.state \in Frozen /\ rt'.size = rt.size /\ rt'.seq = rt.seq
         /\ rt'.pend \in {NoCid, rt.pend}
         /\ row' = Image(rt') /\ row'.state # "none"
BY DEF RouterTypeOK, Routers, Halt, HaltedRouter, Image

LEMMA SubmitRaisedPreserves ==
  ASSUME RouterTypeOK, RouterInv, SubmitRaised
  PROVE  RouterTypeOK' /\ RouterInv'
<1>1. /\ pc \in {"submit", "ack", "landed_snap"} /\ pc' = "err_snap"
      /\ orders' = WithStatus(loc.cid, "error") /\ Halt
      /\ loc' = [loc EXCEPT !.why = "error"]
  BY DEF SubmitRaised
<1>2. HasRow(loc.cid) /\ loc.cid \in Cids /\ row = Image(rt)
  BY <1>1 DEF HasRow
<1>3. loc' \in Locals
  BY <1>1 DEF RouterTypeOK, Locals
<1>4. RouterTypeOK'
  BY <1>1, <1>2, <1>3, HaltType, WithStatusType DEF RouterTypeOK
<1>5. \A d : HasRow(d)' <=> HasRow(d)
  BY <1>1, <1>2, WithStatusKeepsRows
<1>6. RouterInv'
  BY <1>1, <1>2, <1>5, HaltFacts
<1> QED
  BY <1>4, <1>6

LEMMA RetryPreserves ==
  ASSUME RouterTypeOK, RouterInv, Retry
  PROVE  RouterTypeOK' /\ RouterInv'
<1> USE DEF Retry, RouterTypeOK
<1>1. loc' \in Locals
  BY EmptySnapshotType DEF Locals
<1>2. loc'.cid = loc.cid /\ loc'.prior = loc.prior /\ loc'.why = loc.why
  BY DEF Locals
<1>3. RouterInv'
  BY <1>2 DEF HasRow
<1> QED
  BY <1>1, <1>3

LEMMA GiveUpPreserves ==
  ASSUME RouterTypeOK, RouterInv, GiveUp
  PROVE  RouterTypeOK' /\ RouterInv'
<1>1. pc = "landed" /\ orders' = WithStatus(loc.cid, "lost") /\ Halt /\ SendReturns
  BY DEF GiveUp
<1>2. HasRow(loc.cid) /\ loc.cid \in Cids /\ row = Image(rt)
  BY <1>1 DEF HasRow
<1>3. RouterTypeOK'
  BY <1>1, <1>2, HaltType, WithStatusType, SendReturnsFacts DEF RouterTypeOK
<1>4. \A d : HasRow(d)' <=> HasRow(d)
  BY <1>1, <1>2, WithStatusKeepsRows
<1>5. RouterInv'
  BY <1>1, <1>2, <1>4, HaltFacts, SendReturnsFacts
<1> QED
  BY <1>3, <1>5

\* A commit of a settled state, at the end of a handler.
LEMMA CommitIdlePreserves ==
  ASSUME RouterTypeOK, RouterInv, ~Starting, NEW st \in States \ Pending, NEW r \in Routers,
         Commit(r), r.state = st, r.seq = rt.seq, r.pend \in {NoCid, rt.pend},
         st = "FLAT" => r.size = 0, st = "OPEN" => r.size # 0,
         Idle, UNCHANGED orders
  PROVE  RouterTypeOK' /\ RouterInv'
<1>1. RouterTypeOK'
  BY CommitType, NoLocalsType DEF RouterTypeOK, Idle
<1>2. /\ rt' = r /\ row' = Image(r) /\ Image(r).state = st /\ loc'.why = "none" /\ pc' = "idle"
      /\ UNCHANGED orders
  BY DEF Commit, Image, Idle, NoLocals
<1>3. RouterInv'
  BY <1>2 DEF HasRow
<1> QED
  BY <1>1, <1>3

LEMMA HaltClosedPreserves ==
  ASSUME RouterTypeOK, RouterInv, HaltClosed
  PROVE  RouterTypeOK' /\ RouterInv'
<1> DEFINE r == [rt EXCEPT !.state = "HALTED"]
<1>1. r \in Routers /\ r.state = "HALTED" /\ r.seq = rt.seq /\ r.pend = rt.pend
  BY DEF RouterTypeOK, Routers
<1> QED
  BY <1>1, CommitIdlePreserves DEF HaltClosed

\* The new row takes the next id, which no row had.
LEMMA WriteOrderPreserves ==
  ASSUME RouterTypeOK, RouterInv, pc \in {"bar", "on_fast"}, rt.state \notin Pending,
         NEW side \in Sides, NEW qty \in Nat, NEW reduce \in BOOLEAN, NEW closing \in BOOLEAN,
         WriteOrder(side, qty, reduce, closing)
  PROVE  RouterTypeOK' /\ RouterInv'
<1> DEFINE c == rt.seq + 1
           o == [side |-> side, qty |-> qty, reduce |-> reduce,
                 status |-> "submitting", filled |-> 0]
<1>1. c \in Cids /\ rt.seq \in Nat
  BY RouterAssumption DEF WriteOrder, RouterTypeOK, Routers, Cids
<1>2. rt' \in Routers /\ rt' = [rt EXCEPT !.seq = rt.seq + 1]
  BY <1>1 DEF WriteOrder, RouterTypeOK, Routers
<1>3. o \in OrderRows
  BY DEF OrderRows
<1>4. orders' = [orders EXCEPT ![c] = o]
  BY DEF WriteOrder
<1>5. orders' \in [Cids -> OrderRows]
  BY <1>1, <1>3, <1>4 DEF RouterTypeOK
<1>6. loc' \in Locals /\ loc'.cid = c /\ loc'.why = "none"
  BY <1>1, NoLocalsType DEF WriteOrder, Locals, NoLocals
<1>7. RouterTypeOK'
  BY <1>2, <1>5, <1>6 DEF WriteOrder, RouterTypeOK
<1>8. HasRow(loc.cid)'
  <2>1. orders'[c] = o
    BY <1>1, <1>4 DEF RouterTypeOK
  <2> QED
    BY <1>1, <1>6, <2>1 DEF HasRow
<1>9. \A d \in Cids : d # c => (HasRow(d)' <=> HasRow(d))
  BY <1>1, <1>4 DEF HasRow, RouterTypeOK
<1>10. /\ rt'.state = rt.state /\ rt'.size = rt.size /\ rt'.pend = rt.pend /\ rt'.stop = rt.stop
       /\ rt'.seq = rt.seq + 1 /\ row' = row /\ pc' = "mark_pending"
  BY <1>2 DEF WriteOrder, RouterTypeOK, Routers
<1>11. SeqCoversOrders'
  <2>1. \A d \in Cids : HasRow(d) => d <= rt.seq
    OBVIOUS
  <2>2. \A d \in Cids : d # c /\ HasRow(d)' => d <= rt.seq + 1
    BY <1>1, <1>9, <2>1, CidsFacts
  <2> QED
    BY <1>1, <1>10, <2>2
<1>12. row.state # "none" /\ row = Image(rt)
  OBVIOUS
<1>13. PendingNamed'
  <2>1. rt.pend # NoCid => rt.pend \in Cids /\ rt.pend # c /\ HasRow(rt.pend)
    BY <1>1, CidsFacts DEF HasRow
  <2> QED
    BY <1>9, <1>10, <2>1 DEF HasRow
<1>14. RouterInv'
  BY <1>6, <1>8, <1>10, <1>11, <1>12, <1>13 DEF Image
<1> QED
  BY <1>7, <1>14

\* _exit of a size that is an integer.
LEMMA WriteExitPreserves ==
  ASSUME RouterTypeOK, RouterInv, pc \in {"bar", "on_fast"}, rt.state \notin Pending,
         NEW n \in Int, NEW closing \in BOOLEAN, WriteExit(n, closing)
  PROVE  RouterTypeOK' /\ RouterInv'
<1>1. ClosingSide(n) \in Sides /\ Magnitude(n) \in Nat
  BY DEF ClosingSide, Magnitude
<1> QED
  BY <1>1, WriteOrderPreserves DEF WriteExit

-----------------------------------------------------------------------------
(* on_bar and on_fast.                                                      *)

\* A handler that ends without touching anything.
LEMMA IdlePreserves ==
  ASSUME RouterTypeOK, RouterInv, ~Unsaved, ~Unsettled, Idle, UNCHANGED <<rt, row, orders>>
  PROVE  RouterTypeOK' /\ RouterInv'
<1>1. RouterTypeOK'
  BY NoLocalsType DEF RouterTypeOK, Idle
<1>2. RouterInv'
  BY DEF Idle, NoLocals, HasRow
<1> QED
  BY <1>1, <1>2

LEMMA BarPreserves ==
  ASSUME RouterTypeOK, RouterInv, NEW kill, NEW bar, NEW target, NEW qty \in Int,
         \/ BarEnter(kill, bar, target, qty)
         \/ BarExit(kill, bar, target)
         \/ BarNoOrder(kill, bar, target, qty)
  PROVE  RouterTypeOK' /\ RouterInv'
<1>1. CASE BarEnter(kill, bar, target, qty)
  <2>1. qty \in Nat /\ pc = "bar" /\ rt.state = "FLAT"
    BY <1>1 DEF BarEnter, WantsEntry
  <2>2. \E side \in Sides : WriteOrder(side, qty, FALSE, FALSE)
    BY <1>1 DEF BarEnter
  <2> QED
    BY <2>1, <2>2, WriteOrderPreserves
<1>2. CASE BarExit(kill, bar, target)
  <2>1. rt.size \in Int /\ pc = "bar" /\ rt.state = "OPEN" /\ WriteExit(rt.size, FALSE)
    BY <1>2 DEF BarExit, WantsExit, RouterTypeOK, Routers
  <2> QED
    BY <2>1, WriteExitPreserves
<1>3. CASE BarNoOrder(kill, bar, target, qty)
  BY <1>3, IdlePreserves DEF BarNoOrder
<1> QED
  BY <1>1, <1>2, <1>3

LEMMA BarShutdownPreserves ==
  ASSUME RouterTypeOK, RouterInv, BarShutdown
  PROVE  RouterTypeOK' /\ RouterInv'
<1> DEFINE held == loc.snap.pos
           r == [rt EXCEPT !.state = "HALTED"]
<1>1. pc = "bar" /\ held \in Int /\ r \in Routers /\ r.state = "HALTED" /\ r.seq = rt.seq /\ r.pend = rt.pend
  BY DEF BarShutdown, RouterTypeOK, Routers, Locals, Snapshots
<1>2. \/ Idle /\ UNCHANGED <<rt, row, orders>>
      \/ rt.state \notin Pending /\ WriteExit(held, TRUE)
      \/ Commit(r) /\ Idle /\ UNCHANGED orders
  BY DEF BarShutdown
<1> QED
  BY <1>1, <1>2, IdlePreserves, WriteExitPreserves, CommitIdlePreserves

LEMMA FastPreserves ==
  ASSUME RouterTypeOK, RouterInv, NEW due \in BOOLEAN,
         FastLiquidated \/ FastExit(due) \/ FastNothing(due)
  PROVE  RouterTypeOK' /\ RouterInv'
<1>1. CASE FastLiquidated
  <2> DEFINE r == [rt EXCEPT !.state = "LIQUIDATED"]
  <2>1. r \in Routers /\ r.state = "LIQUIDATED" /\ r.seq = rt.seq /\ r.pend = rt.pend
    BY DEF RouterTypeOK, Routers
  <2> QED
    BY <1>1, <2>1, CommitIdlePreserves DEF FastLiquidated
<1>2. CASE FastExit(due)
  <2>1. rt.size \in Int /\ pc = "on_fast" /\ rt.state = "OPEN" /\ WriteExit(rt.size, FALSE)
    BY <1>2 DEF FastExit, RouterTypeOK, Routers
  <2> QED
    BY <2>1, WriteExitPreserves
<1>3. CASE FastNothing(due)
  BY <1>3, IdlePreserves DEF FastNothing
<1> QED
  BY <1>1, <1>2, <1>3

LEMMA CheckPendingPreserves ==
  ASSUME RouterTypeOK, RouterInv, NEW expired \in BOOLEAN,
         PendingTimesOut(expired) \/ NothingPending(expired)
  PROVE  RouterTypeOK' /\ RouterInv'
<1>1. CASE PendingTimesOut(expired)
  <2>1. /\ pc = "check_pending" /\ pc' = "adopt" /\ rt.state \in Pending /\ UNCHANGED <<rt, row>>
        /\ loc' = [loc EXCEPT !.why = "timeout"]
    BY <1>1 DEF PendingTimesOut
  <2>2. HasRow(rt.pend) /\ rt.pend \in Cids
    BY <2>1 DEF HasRow
  <2>3. orders' = WithStatus(rt.pend, "timeout_adopted")
    BY <1>1, <2>2, CidsFacts DEF PendingTimesOut
  <2>4. loc' \in Locals /\ loc'.why = "timeout"
    BY <2>1 DEF RouterTypeOK, Locals
  <2>5. RouterTypeOK'
    BY <2>1, <2>2, <2>3, <2>4, WithStatusType DEF RouterTypeOK
  <2>6. \A d : HasRow(d)' <=> HasRow(d)
    BY <2>2, <2>3, WithStatusKeepsRows
  <2>7. RouterInv'
    BY <2>1, <2>4, <2>6 DEF Image
  <2> QED
    BY <2>5, <2>7
<1>2. CASE NothingPending(expired)
  <2>1. RouterTypeOK'
    BY <1>2 DEF NothingPending, RouterTypeOK
  <2>2. RouterInv'
    BY <1>2 DEF NothingPending, HasRow
  <2> QED
    BY <2>1, <2>2
<1> QED
  BY <1>1, <1>2

-----------------------------------------------------------------------------
(* Adoption and stops.                                                      *)

LEMMA AdoptPreserves ==
  ASSUME RouterTypeOK, RouterInv, Adopt
  PROVE  RouterTypeOK' /\ RouterInv'
<1>1. /\ AdoptedRouter \in Routers /\ AdoptedRouter.seq = rt.seq /\ AdoptedRouter.pend = NoCid
      /\ AdoptedRouter.state = rt.state
  BY DEF AdoptedRouter, RouterTypeOK, Routers, Locals, Snapshots, NoCid
<1>2. /\ pc = "adopt" /\ rt' = AdoptedRouter /\ UNCHANGED <<orders, loc>>
      /\ \/ pc' = "adopt_place" /\ UNCHANGED row
         \/ pc' = "adopted" /\ row' = Image(AdoptedRouter)
  BY DEF Adopt, Commit
<1>3. RouterTypeOK'
  BY <1>1, <1>2, ImageType DEF RouterTypeOK
<1>4. rt.state # "none" /\ row.state # "none" /\ Image(AdoptedRouter).state # "none"
  BY <1>1, <1>2 DEF RouterTypeOK, Routers, Image
<1>5. RouterInv'
  BY <1>1, <1>2, <1>4 DEF HasRow
<1> QED
  BY <1>3, <1>5

LEMMA AdoptedAfterErrorPreserves ==
  ASSUME RouterTypeOK, RouterInv, AdoptedAfterError
  PROVE  RouterTypeOK' /\ RouterInv'
<1>1. /\ pc = "adopted" /\ rt.state \in Frozen /\ SendReturns /\ UNCHANGED <<rt, row, orders>>
  BY DEF AdoptedAfterError
<1>2. RouterTypeOK'
  BY <1>1, SendReturnsFacts DEF RouterTypeOK
<1>3. RouterInv'
  BY <1>1, SendReturnsFacts DEF HasRow
<1> QED
  BY <1>2, <1>3

LEMMA AfterSettleFacts ==
  ASSUME RouterTypeOK, AfterSettle
  PROVE  loc' \in Locals /\ loc'.why # "error" /\ pc' \in {"on_fast", "idle"}
<1>1. CASE loc.why = "timeout"
  BY <1>1 DEF RouterTypeOK, AfterSettle
<1>2. CASE loc.why # "timeout"
  BY <1>2, NoLocalsType DEF AfterSettle, Idle
<1> QED
  BY <1>1, <1>2

LEMMA SettlePreserves ==
  ASSUME RouterTypeOK, RouterInv, Settle
  PROVE  RouterTypeOK' /\ RouterInv'
<1> DEFINE st == Unfrozen(Settled(rt.size))
           r  == [rt EXCEPT !.state = st]
<1>1. /\ st \in States \ Pending
      /\ st = "FLAT" => rt.size = 0
      /\ st = "OPEN" => rt.size # 0
  BY DEF Unfrozen, Settled
<1>2. r \in Routers /\ r.state = st /\ r.size = rt.size /\ r.seq = rt.seq /\ r.pend = rt.pend
  BY <1>1 DEF RouterTypeOK, Routers
<1>3. /\ pc = "adopted" /\ rt' = r /\ row' = Image(r) /\ UNCHANGED orders
      /\ loc' \in Locals /\ loc'.why # "error" /\ pc' \in {"settle_cancel", "on_fast", "idle"}
  BY AfterSettleFacts DEF Settle, Commit, RouterTypeOK
<1>4. RouterTypeOK'
  BY <1>2, <1>3, ImageType DEF RouterTypeOK
<1>5. Image(r).state = st
  BY <1>2 DEF Image
<1>6. RouterInv'
  BY <1>1, <1>2, <1>3, <1>5 DEF HasRow
<1> QED
  BY <1>4, <1>6

LEMMA StopPlacedPreserves ==
  ASSUME RouterTypeOK, RouterInv, StopPlaced
  PROVE  RouterTypeOK' /\ RouterInv'
<1> DEFINE r == [rt EXCEPT !.stop = WantedStop]
<1>1. /\ r \in Routers /\ r.state = rt.state /\ r.size = rt.size /\ r.seq = rt.seq
      /\ r.pend = rt.pend /\ r.state \in States
  BY DEF WantedStop, Guarding, RouterTypeOK, Routers
<1>2. rt' = r /\ row' = Image(r) /\ UNCHANGED orders
  BY DEF StopPlaced, Commit
<1>3. /\ loc' \in Locals /\ loc'.why \in {loc.why, "none"}
      /\ \/ pc = "replace_stop" /\ pc' = "idle"
         \/ pc = "adopt_place" /\ pc' = "adopted"
         \/ pc = "missing_place" /\ pc' = "size"
         \/ pc = "recover_place" /\ pc' = "recover_orders"
  <2>1. pc = "replace_stop" => pc' = "idle" /\ loc' = NoLocals
    BY DEF StopPlaced, Idle
  <2>2. pc # "replace_stop" =>
          /\ loc' = loc
          /\ \/ pc = "adopt_place" /\ pc' = "adopted"
             \/ pc = "missing_place" /\ pc' = "size"
             \/ pc = "recover_place" /\ pc' = "recover_orders"
    BY DEF StopPlaced
  <2> QED
    BY <2>1, <2>2, NoLocalsType DEF RouterTypeOK
<1>4. RouterTypeOK'
  BY <1>1, <1>2, <1>3, ImageType DEF RouterTypeOK
<1>5. Image(r).state = rt.state
  BY <1>1 DEF Image
<1>6. RouterInv'
  BY <1>1, <1>2, <1>3, <1>5 DEF HasRow
<1> QED
  BY <1>4, <1>6

LEMMA StopCancelledPreserves ==
  ASSUME RouterTypeOK, RouterInv, StopCancelled
  PROVE  RouterTypeOK' /\ RouterInv'
<1>1. CASE pc = "flat_cancel"
  <2> DEFINE st == Unfrozen("FLAT")
             r  == [rt EXCEPT !.state = st]
  <2>1. /\ st \in States \ Pending /\ st # "OPEN" /\ r \in Routers /\ r.state = st
        /\ r.seq = rt.seq /\ r.pend = rt.pend /\ r.size = rt.size /\ rt.size = 0
    BY <1>1 DEF Unfrozen, RouterTypeOK, Routers
  <2>2. Commit(r) /\ Idle /\ UNCHANGED orders
    BY <1>1 DEF StopCancelled
  <2> QED
    BY <1>1, <2>1, <2>2, CommitIdlePreserves
<1>2. CASE pc \in {"settle_cancel", "orphan_cancel"}
  <2>1. /\ UNCHANGED <<rt, row, orders>> /\ loc' \in Locals
        /\ loc'.why # "error" \/ loc' = loc
        /\ pc' \in {"on_fast", "idle", "unknown_orders"}
    BY <1>2, AfterSettleFacts DEF StopCancelled, RouterTypeOK
  <2>2. RouterTypeOK'
    BY <2>1 DEF RouterTypeOK
  <2>3. RouterInv'
    BY <1>2, <2>1 DEF HasRow
  <2> QED
    BY <2>2, <2>3
<1> QED
  BY <1>1, <1>2 DEF StopCancelled

-----------------------------------------------------------------------------
(* handle_event.                                                            *)

LEMMA OnOrderUpdatePreserves ==
  ASSUME RouterTypeOK, RouterInv, NEW c \in Cids, NEW st \in Statuses, OnOrderUpdate(c, st)
  PROVE  RouterTypeOK' /\ RouterInv'
<1>1. pc = "idle" /\ UNCHANGED <<pc, loc>> /\ row = Image(rt)
  BY DEF OnOrderUpdate
<1>2. CASE c = rt.pend /\ st = "cancelled"
  <2> DEFINE s == Unfrozen(Settled(rt.size))
             r == [rt EXCEPT !.pend = NoCid, !.state = s]
  <2>1. /\ s \in States \ Pending
        /\ s = "FLAT" => rt.size = 0
        /\ s = "OPEN" => rt.size # 0
        /\ s = rt.state \/ rt.state \notin Frozen
    BY DEF Unfrozen, Settled
  <2>2. /\ r \in Routers /\ r.state = s /\ r.size = rt.size /\ r.seq = rt.seq /\ r.pend = NoCid
        /\ Image(r).state = s
    BY <2>1 DEF RouterTypeOK, Routers, Image, NoCid
  <2>3. orders' = WithStatus(c, st) /\ rt' = r /\ row' = Image(r)
    BY <1>2 DEF OnOrderUpdate, Commit
  <2>4. HasRow(c)
    BY <1>2, CidsFacts
  <2>5. RouterTypeOK'
    BY <1>1, <2>2, <2>3, ImageType, WithStatusType DEF RouterTypeOK
  <2>6. \A d : HasRow(d)' <=> HasRow(d)
    BY <2>3, <2>4, WithStatusKeepsRows
  <2>7. RouterInv'
    BY <1>1, <2>1, <2>2, <2>3, <2>6
  <2> QED
    BY <2>5, <2>7
<1>3. CASE ~(c = rt.pend /\ st = "cancelled")
  <2>1. /\ UNCHANGED <<rt, row>>
        /\ orders' = IF HasRow(c) THEN WithStatusUnlessTerminal(c, st) ELSE orders
    BY <1>3 DEF OnOrderUpdate
  <2>2. RouterTypeOK'
    BY <1>1, <2>1, WithStatusType DEF RouterTypeOK
  <2>3. \A d : HasRow(d)' <=> HasRow(d)
    BY <2>1, WithStatusKeepsRows DEF HasRow
  <2>4. RouterInv'
    BY <1>1, <2>1, <2>3
  <2> QED
    BY <2>2, <2>4
<1> QED
  BY <1>2, <1>3

LEMMA LateFillPreserves ==
  ASSUME RouterTypeOK, RouterInv, NEW c, NEW q \in Nat, LateFill(c, q)
  PROVE  RouterTypeOK' /\ RouterInv'
<1>1. /\ pc = "idle" /\ pc' = "late_snap" /\ UNCHANGED <<rt, row>> /\ c \in Cids
      /\ loc' = [loc EXCEPT !.why = "late"]
      /\ orders' = [orders EXCEPT ![c].filled = orders[c].filled + q]
  BY DEF LateFill, IsLateFill, HasRow
<1>2. loc' \in Locals /\ loc'.why = "late"
  BY <1>1 DEF RouterTypeOK, Locals
<1>3. orders' \in [Cids -> OrderRows]
  BY <1>1 DEF RouterTypeOK, OrderRows
<1>4. \A d : HasRow(d)' <=> HasRow(d)
  BY <1>1 DEF RouterTypeOK, OrderRows, HasRow
<1>5. RouterTypeOK'
  BY <1>1, <1>2, <1>3 DEF RouterTypeOK
<1>6. RouterInv'
  BY <1>1, <1>2, <1>4
<1> QED
  BY <1>5, <1>6

LEMMA RecordFillType ==
  ASSUME RouterTypeOK, NEW c \in Cids, HasRow(c), NEW q \in Nat, orders' = RecordFill(c, q)
  PROVE  orders' \in [Cids -> OrderRows] /\ \A d : HasRow(d)' <=> HasRow(d)
<1> DEFINE st == IF orders[c].status \in Terminal THEN orders[c].status
                 ELSE IF orders[c].filled + q >= orders[c].qty THEN "filled" ELSE "partial"
           o  == [orders[c] EXCEPT !.filled = orders[c].filled + q, !.status = st]
<1>1. orders' = [orders EXCEPT ![c] = o]
  BY DEF RecordFill, RouterTypeOK, OrderRows
<1>2. orders[c] \in OrderRows
  BY DEF RouterTypeOK
<1>3. st \in Statuses
  OBVIOUS
<1>4. o \in OrderRows /\ o.status = st
  <2> DEFINE f == orders[c].filled + q
  <2>1. f \in Nat
    BY <1>2 DEF OrderRows
  <2>2. o = [[orders[c] EXCEPT !.filled = f] EXCEPT !.status = st]
    OBVIOUS
  <2> HIDE DEF st, f, o
  <2> QED
    BY <1>2, <1>3, <2>1, <2>2 DEF OrderRows
<1>5. st # "none"
  OBVIOUS
<1>6. orders' \in [Cids -> OrderRows]
  <2> HIDE DEF o
  <2> QED BY <1>1, <1>4 DEF RouterTypeOK
<1>7. \A d : HasRow(d)' <=> HasRow(d)
  <2> HIDE DEF o, st
  <2> QED BY <1>1, <1>4, <1>5 DEF RouterTypeOK, HasRow
<1> QED
  BY <1>6, <1>7

LEMMA ApplyFillPreserves ==
  ASSUME RouterTypeOK, RouterInv, NEW c, NEW side \in Sides, NEW q \in Nat, ApplyFill(c, side, q)
  PROVE  RouterTypeOK' /\ RouterInv'
<1> DEFINE n == rt.size + Signed(side, q)
           r == [rt EXCEPT !.size = n]
<1>1. pc = "idle" /\ loc' = loc /\ row = Image(rt) /\ rt.state \in States
  BY DEF ApplyFill, RouterTypeOK, Routers
<1>2. /\ r \in Routers /\ r.size = n /\ r.state = rt.state /\ r.seq = rt.seq /\ r.pend = rt.pend
      /\ r.stop = rt.stop
  BY DEF Signed, RouterTypeOK, Routers
<1>3. orders' \in [Cids -> OrderRows] /\ \A d : HasRow(d)' <=> HasRow(d)
  <2>1. orders' = IF HasRow(c) THEN RecordFill(c, q) ELSE orders
    BY DEF ApplyFill
  <2>2. CASE HasRow(c)
    BY <2>1, <2>2, RecordFillType DEF HasRow
  <2>3. CASE ~HasRow(c)
    BY <2>1, <2>3 DEF RouterTypeOK, HasRow
  <2> QED
    BY <2>2, <2>3
\* The fill leaves a position: the state follows or stays.
<1>4. ASSUME NEW e \in Routers, n # 0, Commit(e), e.size = n, e.seq = rt.seq,
             pc' \in {"idle", "replace_stop"},
             \/ e.state = "OPEN" /\ rt.state \notin Frozen /\ e.pend \in {NoCid, rt.pend}
             \/ e.state = rt.state /\ e.pend = rt.pend /\ rt.state # "FLAT"
      PROVE  RouterTypeOK' /\ RouterInv'
  <2>1. rt' = e /\ row' = Image(e) /\ Image(e).state = e.state
    BY <1>4 DEF Commit, Image
  <2>2. RouterTypeOK'
    BY <1>1, <1>3, <1>4, <2>1, ImageType DEF RouterTypeOK
  <2>3. SeqCoversOrders' /\ RowKnown' /\ SendingHasRow' /\ RowSaved'
    BY <1>1, <1>3, <1>4, <2>1
  <2>4. PendingNamed'
    BY <1>1, <1>3, <1>4, <2>1
  <2>5. SizeKnown' /\ ErrorHalted'
    BY <1>1, <1>4, <2>1
  <2> QED
    BY <2>2, <2>3, <2>4, <2>5
<1>5. CASE FillCase(c, n) = "flat"
  <2> DEFINE e == [r EXCEPT !.pend = NoCid, !.stop = "none"]
  <2>1. n = 0
    BY <1>5 DEF FillCase
  <2>2. /\ e \in Routers /\ e.state = rt.state /\ e.size = n /\ e.seq = rt.seq /\ e.pend = NoCid
    BY <1>2 DEF Routers, NoCid
  <2>3. rt' = e /\ row' = Image(r) /\ pc' = "flat_cancel" /\ Image(r).state = rt.state
    BY <1>2, <1>5 DEF ApplyFill, Image
  <2>4. RouterTypeOK'
    BY <1>1, <1>2, <1>3, <2>2, <2>3, ImageType DEF RouterTypeOK
  <2>5. RouterInv'
    BY <1>1, <1>3, <2>1, <2>2, <2>3
  <2> QED
    BY <2>4, <2>5
<1>6. CASE FillCase(c, n) = "entered"
  <2> DEFINE e == [r EXCEPT !.state = "OPEN", !.pend = NoCid]
  <2>1. n # 0 /\ rt.state \notin Frozen
    BY <1>6 DEF FillCase
  <2>2. e \in Routers /\ e.state = "OPEN" /\ e.size = n /\ e.seq = rt.seq /\ e.pend = NoCid
    BY <1>2 DEF Routers, NoCid
  <2>3. Commit(e) /\ pc' = "replace_stop"
    BY <1>6 DEF ApplyFill
  <2> QED
    BY <1>4, <2>1, <2>2, <2>3
<1>7. CASE FillCase(c, n) = "unexpected"
  <2> DEFINE e == [r EXCEPT !.state = "OPEN"]
  <2>1. n # 0 /\ rt.state \notin Frozen
    BY <1>7 DEF FillCase
  <2>2. e \in Routers /\ e.state = "OPEN" /\ e.size = n /\ e.seq = rt.seq /\ e.pend = rt.pend
    BY <1>2 DEF Routers
  <2>3. Commit(e) /\ pc' = "replace_stop"
    BY <1>7 DEF ApplyFill
  <2> QED
    BY <1>4, <2>1, <2>2, <2>3
<1>8. CASE FillCase(c, n) \in {"frozen", "later"}
  <2>1. n # 0 /\ rt.state # "FLAT"
    BY <1>8 DEF FillCase
  <2>2. Commit(r) /\ pc' \in {"idle", "replace_stop"}
    BY <1>1, <1>8 DEF ApplyFill
  <2> QED
    BY <1>2, <1>4, <2>1, <2>2
<1>9. FillCase(c, n) \in {"flat", "entered", "frozen", "unexpected", "later"}
  BY DEF FillCase
<1> QED
  BY <1>5, <1>6, <1>7, <1>8, <1>9

LEMMA OnFillPreserves ==
  ASSUME RouterTypeOK, RouterInv, NEW c, NEW side \in Sides, NEW q \in Nat, OnFill(c, side, q)
  PROVE  RouterTypeOK' /\ RouterInv'
BY LateFillPreserves, ApplyFillPreserves DEF OnFill

-----------------------------------------------------------------------------
(* _reconcile.                                                              *)

LEMMA ReconcilePreserves ==
  ASSUME RouterTypeOK, RouterInv, CheckMissingStop \/ CheckSize \/ ReconcileEnds
  PROVE  RouterTypeOK' /\ RouterInv'
<1>1. CASE CheckMissingStop
  <2>1. RouterTypeOK'
    BY <1>1 DEF CheckMissingStop, RouterTypeOK
  <2>2. RouterInv'
    BY <1>1 DEF CheckMissingStop, HasRow
  <2> QED
    BY <2>1, <2>2
<1>2. CASE CheckSize
  <2>1. /\ pc = "size" /\ pc' \in {"orphan_cancel", "unknown_orders"} /\ UNCHANGED <<orders, loc>>
        /\ Halt \/ UNCHANGED <<rt, row>>
    BY <1>2 DEF CheckSize
  <2>2. row = Image(rt)
    BY <2>1
  <2>3. RouterTypeOK'
    BY <2>1, HaltType DEF RouterTypeOK
  <2>4. CASE Halt
    BY <2>1, <2>2, <2>3, <2>4, HaltFacts DEF HasRow
  <2>5. CASE UNCHANGED <<rt, row>>
    BY <2>1, <2>2, <2>3, <2>5 DEF HasRow
  <2> QED
    BY <2>1, <2>3, <2>4, <2>5
<1>3. CASE ReconcileEnds
  BY <1>3, IdlePreserves DEF ReconcileEnds
<1> QED
  BY <1>1, <1>2, <1>3

LEMMA OrderCancelledPreserves ==
  ASSUME RouterTypeOK, RouterInv, NEW c, OrderCancelled(c)
  PROVE  RouterTypeOK' /\ RouterInv'
<1>1. /\ pc = "unknown_orders" /\ UNCHANGED <<rt, row, orders, pc>>
      /\ loc' = [loc EXCEPT !.snap.open = @ \ {c}]
  BY DEF OrderCancelled
<1>2. loc' \in Locals /\ loc'.why = loc.why
  BY <1>1 DEF RouterTypeOK, Locals, Snapshots
<1>3. RouterTypeOK'
  BY <1>1, <1>2 DEF RouterTypeOK
<1>4. RouterInv'
  BY <1>1, <1>2 DEF HasRow
<1> QED
  BY <1>3, <1>4

-----------------------------------------------------------------------------
(* recover(), --clear-halt, death and restart.                              *)

LEMMA RecoverPreserves ==
  ASSUME RouterTypeOK, RouterInv, Recover
  PROVE  RouterTypeOK' /\ RouterInv'
<1>1. PICK n \in 0..MaxSeq :
        /\ LastSeq(n)
        /\ \/ rt' = RecoveredRouter(n) /\ pc' = "recover_place" /\ UNCHANGED row
           \/ Commit(RecoveredRouter(n)) /\ pc' = "recover_orders"
  BY DEF Recover
<1> DEFINE r == RecoveredRouter(n)
<1>2. /\ pc = "recover" /\ UNCHANGED orders /\ loc' = [loc EXCEPT !.prior = row.state]
  BY DEF Recover
<1>3. n \in Nat
  BY RouterAssumption
<1>4. /\ r \in Routers /\ r.state \in States \ Pending /\ r.pend = NoCid
      /\ r.state = "FLAT" => r.size = 0
      /\ r.state = "OPEN" => r.size # 0
      /\ r.seq = IF row.state = "none" THEN 0 ELSE n
  <2>1. loc.snap.pos \in Int /\ loc.snap.stop \in Stops
    BY DEF RouterTypeOK, Locals, Snapshots
  <2> DEFINE st == IF row.state \in Frozen THEN row.state ELSE Settled(loc.snap.pos)
             sq == IF row.state = "none" THEN 0 ELSE n
             sp == IF loc.snap.pos = 0 THEN "none" ELSE loc.snap.stop
  <2>2. /\ st \in States \ Pending
        /\ st = "FLAT" => loc.snap.pos = 0
        /\ st = "OPEN" => loc.snap.pos # 0
    BY DEF Settled
  <2>3. sq \in Nat /\ sp \in Stops
    BY <1>3, <2>1
  <2>4. r = [state |-> st, size |-> loc.snap.pos, stop |-> sp, pend |-> NoCid, seq |-> sq]
    BY DEF RecoveredRouter
  <2>5. r.seq = sq
    BY <2>4
  <2> HIDE DEF st, sq, sp, r
  <2>6. r \in Routers /\ r.state = st /\ r.pend = NoCid /\ r.size = loc.snap.pos
    BY <2>1, <2>2, <2>3, <2>4 DEF Routers
  <2> QED
    BY <2>2, <2>5, <2>6 DEF sq
<1>5. loc' \in Locals /\ loc'.why = loc.why
  BY <1>2 DEF RouterTypeOK, Locals, Rows
<1>6. /\ rt' = r
      /\ \/ pc' = "recover_place" /\ row' = row
         \/ pc' = "recover_orders" /\ row' = Image(r)
  BY <1>1 DEF Commit
<1>7. RouterTypeOK'
  BY <1>2, <1>4, <1>5, <1>6, ImageType DEF RouterTypeOK
<1>8. \A c \in Cids : HasRow(c) => c <= r.seq
  BY <1>1, <1>4 DEF LastSeq
<1>9. Image(r).state = r.state
  BY <1>4 DEF Image
<1>10. loc.why # "error"
  BY <1>2
<1>11. RouterInv'
  BY <1>2, <1>4, <1>5, <1>6, <1>8, <1>9, <1>10 DEF HasRow
<1> QED
  BY <1>7, <1>11

LEMMA RecoverOrdersPreserves ==
  ASSUME RouterTypeOK, RouterInv, RecoverOrders
  PROVE  RouterTypeOK' /\ RouterInv'
<1> DEFINE inflight == {c \in Cids : orders[c].status \in InFlight}
           resting  == inflight \cap loc.snap.open
<1>1. pc = "recover_orders" /\ pc' = "recovered" /\ loc' \in Locals /\ loc'.why = "none"
  BY NoLocalsType DEF RecoverOrders
<1>2. orders' = [c \in Cids |->
          IF c \in resting THEN [orders[c] EXCEPT !.status = "adopted"]
          ELSE IF c \in inflight THEN [orders[c] EXCEPT !.status = "abandoned"]
          ELSE orders[c]]
  BY DEF RecoverOrders
<1>3. orders' \in [Cids -> OrderRows] /\ \A d : HasRow(d)' <=> HasRow(d)
  <2>1. ASSUME NEW d \in Cids
        PROVE  /\ orders'[d] \in OrderRows
               /\ orders'[d].status # "none" <=> orders[d].status # "none"
    <3>1. orders[d] \in OrderRows
      BY DEF RouterTypeOK
    <3>2. CASE d \in resting
      BY <1>2, <3>1, <3>2 DEF OrderRows
    <3>3. CASE d \notin resting /\ d \in inflight
      BY <1>2, <3>1, <3>3 DEF OrderRows
    <3>4. CASE d \notin resting /\ d \notin inflight
      BY <1>2, <3>1, <3>4
    <3> QED
      BY <3>2, <3>3, <3>4
  <2> HIDE DEF resting, inflight
  <2>2. orders' \in [Cids -> OrderRows]
    BY <1>2, <2>1
  <2> QED
    BY <2>1, <2>2 DEF HasRow
<1>4. CASE UNCHANGED <<rt, row>>
  <2>1. RouterTypeOK'
    BY <1>1, <1>3, <1>4 DEF RouterTypeOK
  <2>2. RouterInv'
    BY <1>1, <1>3, <1>4
  <2> QED
    BY <2>1, <2>2
<1>5. ASSUME NEW c \in resting, loc.prior \in Pending,
             Commit([rt EXCEPT !.pend = c, !.state = loc.prior])
      PROVE  RouterTypeOK' /\ RouterInv'
  <2> DEFINE r == [rt EXCEPT !.pend = c, !.state = loc.prior]
  <2>1. HasRow(c) /\ c \in Cids
    BY <1>5 DEF HasRow
  <2>2. /\ r \in Routers /\ r.state = loc.prior /\ r.pend = c /\ r.seq = rt.seq /\ r.size = rt.size
    BY <1>5, <2>1 DEF RouterTypeOK, Routers
  <2>3. rt' = r /\ row' = Image(r) /\ Image(r).state = loc.prior
    BY <1>5, <2>2 DEF Commit, Image
  <2>4. RouterTypeOK'
    BY <1>1, <1>3, <2>2, <2>3, ImageType DEF RouterTypeOK
  <2>5. RouterInv'
    BY <1>1, <1>3, <1>5, <2>1, <2>2, <2>3, CidsFacts
  <2> QED
    BY <2>4, <2>5
<1> QED
  BY <1>4, <1>5 DEF RecoverOrders

LEMMA ProcessPreserves ==
  ASSUME RouterTypeOK, RouterInv, Start \/ ClearHalt \/ Die \/ Restart
  PROVE  RouterTypeOK' /\ RouterInv'
<1>1. CASE Start
  BY <1>1, IdlePreserves DEF Start
<1>2. CASE ClearHalt
  <2> DEFINE st == Settled(rt.size)
             r  == [rt EXCEPT !.state = st]
  <2>1. /\ st \in States \ Pending
        /\ st = "FLAT" => rt.size = 0
        /\ st = "OPEN" => rt.size # 0
    BY DEF Settled
  <2>2. r \in Routers /\ r.state = st /\ r.seq = rt.seq /\ r.pend = rt.pend /\ r.size = rt.size
    BY <2>1 DEF RouterTypeOK, Routers
  <2>3. pc = "recovered" /\ Commit(r) /\ Idle /\ UNCHANGED orders
    BY <1>2 DEF ClearHalt
  <2> QED
    BY <2>1, <2>2, <2>3, CommitIdlePreserves
<1>3. CASE Die
  <2>1. rt' \in Routers /\ rt'.pend = NoCid /\ loc' \in Locals /\ loc'.why = "none"
    BY <1>3, FreshRouterType, NoLocalsType DEF Die, FreshRouter
  <2>2. RouterTypeOK'
    BY <1>3, <2>1 DEF Die, RouterTypeOK
  <2>3. RouterInv'
    BY <1>3, <2>1 DEF Die, HasRow
  <2> QED
    BY <2>2, <2>3
<1>4. CASE Restart
  <2>1. RouterTypeOK'
    BY <1>4 DEF Restart, RouterTypeOK
  <2>2. RouterInv'
    BY <1>4 DEF Restart, HasRow
  <2> QED
    BY <2>1, <2>2
<1> QED
  BY <1>1, <1>2, <1>3, <1>4

LEMMA RouterInitInv ==
  ASSUME RouterInit PROVE RouterTypeOK /\ RouterInv
<1>1. rt \in Routers /\ loc \in Locals /\ loc.why = "none" /\ rt.pend = NoCid
  BY FreshRouterType, NoLocalsType DEF RouterInit, FreshRouter
<1>2. row \in Rows /\ orders \in [Cids -> OrderRows] /\ pc = "down"
  BY DEF RouterInit, NoRow, NoOrder, Rows, OrderRows
<1>3. \A c : ~HasRow(c)
  BY DEF RouterInit, NoOrder, HasRow
<1> QED
  BY <1>1, <1>2, <1>3 DEF RouterTypeOK

\* A stutter of the router's variables.
LEMMA RouterStutter ==
  ASSUME RouterTypeOK, RouterInv, UNCHANGED routerVars
  PROVE  RouterTypeOK' /\ RouterInv'
<1>1. RouterTypeOK'
  BY DEF RouterTypeOK, routerVars
<1>2. RouterInv'
  BY DEF routerVars, HasRow, Image
<1> QED
  BY <1>1, <1>2

-----------------------------------------------------------------------------
(* A step of a composed system, seen from the router.                       *)

RouterStep ==
  \/ StartBar \/ StartFast \/ StartReconcile
  \/ \E s \in Snapshots : SnapshotReturns(s)
  \/ MarkPending \/ SubmitCalled \/ AckAccepted \/ AckRejected \/ SubmitRaised \/ AckTimeout
  \/ LandedAfterAll \/ Retry \/ GiveUp \/ HaltClosed
  \/ \E kill \in {"run", "pause", "shutdown"}, bar \in Bars, target \in Targets, qty \in Int :
       \/ BarEnter(kill, bar, target, qty)
       \/ BarExit(kill, bar, target)
       \/ BarNoOrder(kill, bar, target, qty)
  \/ BarShutdown
  \/ \E b \in BOOLEAN : PendingTimesOut(b) \/ NothingPending(b)
  \/ FastLiquidated \/ \E b \in BOOLEAN : FastExit(b) \/ FastNothing(b)
  \/ Adopt \/ AdoptedAfterError \/ Settle \/ StopPlaced \/ StopCancelled
  \/ \E c \in Cids, st \in Statuses : OnOrderUpdate(c, st)
  \/ \E c \in Cids \cup {Venue}, side \in Sides, q \in Nat : OnFill(c, side, q)
  \/ CheckMissingStop \/ CheckSize \/ ReconcileEnds
  \/ \E c \in Cids : OrderCancelled(c)
  \/ Recover \/ RecoverOrders
  \/ Start \/ ClearHalt \/ Die \/ Restart

\* The router's half of the inductive invariants of SimTrader and LiveTrader:
\* order_router.py, reconciliation.py and state_recovery.py keep it whatever the
\* executor answers and wherever the process dies.
THEOREM RouterStepPreserves ==
  ASSUME RouterTypeOK, RouterInv, RouterStep \/ UNCHANGED routerVars
  PROVE  RouterTypeOK' /\ RouterInv'
<1>1. CASE StartBar \/ StartFast \/ StartReconcile
  BY <1>1, StartsPreserve
<1>2. CASE \E s \in Snapshots : SnapshotReturns(s)
  BY <1>2, SnapshotReturnsPreserves
<1>3. CASE \/ MarkPending \/ SubmitCalled \/ AckAccepted \/ AckRejected \/ SubmitRaised \/ AckTimeout
           \/ LandedAfterAll \/ Retry \/ GiveUp \/ HaltClosed
  BY <1>3, MarkPendingPreserves, CallsPreserve, OrderAcceptedPreserves, AckRejectedPreserves,
     SubmitRaisedPreserves, RetryPreserves, GiveUpPreserves, HaltClosedPreserves
<1>4. CASE \E kill \in {"run", "pause", "shutdown"}, bar \in Bars, target \in Targets, qty \in Int :
             \/ BarEnter(kill, bar, target, qty)
             \/ BarExit(kill, bar, target)
             \/ BarNoOrder(kill, bar, target, qty)
  BY <1>4, BarPreserves
<1>5. CASE \/ BarShutdown
           \/ \E b \in BOOLEAN : PendingTimesOut(b) \/ NothingPending(b)
           \/ FastLiquidated \/ \E b \in BOOLEAN : FastExit(b) \/ FastNothing(b)
  BY <1>5, BarShutdownPreserves, CheckPendingPreserves, FastPreserves
<1>6. CASE Adopt \/ AdoptedAfterError \/ Settle \/ StopPlaced \/ StopCancelled
  BY <1>6, AdoptPreserves, AdoptedAfterErrorPreserves, SettlePreserves, StopPlacedPreserves,
     StopCancelledPreserves
<1>7. CASE \/ \E c \in Cids, st \in Statuses : OnOrderUpdate(c, st)
           \/ \E c \in Cids \cup {Venue}, side \in Sides, q \in Nat : OnFill(c, side, q)
  BY <1>7, OnOrderUpdatePreserves, OnFillPreserves
<1>8. CASE \/ CheckMissingStop \/ CheckSize \/ ReconcileEnds
           \/ \E c \in Cids : OrderCancelled(c)
  BY <1>8, ReconcilePreserves, OrderCancelledPreserves
<1>9. CASE Recover \/ RecoverOrders \/ Start \/ ClearHalt \/ Die \/ Restart
  BY <1>9, RecoverPreserves, RecoverOrdersPreserves, ProcessPreserves
<1>10. CASE UNCHANGED routerVars
  BY <1>10, RouterStutter
<1> QED
  BY <1>1, <1>2, <1>3, <1>4, <1>5, <1>6, <1>7, <1>8, <1>9, <1>10 DEF RouterStep

-----------------------------------------------------------------------------
(* Order rows are only ever added or updated in place.                      *)

LEMMA WithStatusKeepsOrder ==
  ASSUME RouterTypeOK, NEW c \in Cids, NEW st \in Statuses,
         orders' \in {WithStatus(c, st), WithStatusUnlessTerminal(c, st)}
  PROVE  RowsKept
BY DEF RouterTypeOK, OrderRows, WithStatus, WithStatusUnlessTerminal, RowsKept, SameOrder, HasRow

LEMMA SameOrdersKeepRows ==
  ASSUME UNCHANGED orders PROVE RowsKept
BY DEF RowsKept, SameOrder, HasRow

\* The new row has an id above every row.
LEMMA WriteOrderKeepsRows ==
  ASSUME RouterTypeOK, RouterInv, ~Starting, NEW side, NEW qty, NEW reduce, NEW closing,
         WriteOrder(side, qty, reduce, closing)
  PROVE  RowsKept
<1>1. rt.seq \in Nat /\ \A c \in Cids : HasRow(c) => c <= rt.seq
  BY DEF RouterTypeOK, Routers
<1>2. \A c \in Cids : HasRow(c) => c # rt.seq + 1
  BY <1>1, CidsFacts
<1>3. \A c \in Cids : c # rt.seq + 1 => orders'[c] = orders[c]
  BY DEF WriteOrder, RouterTypeOK
<1> QED
  BY <1>2, <1>3 DEF RowsKept, SameOrder, HasRow

LEMMA OnFillKeepsRows ==
  ASSUME RouterTypeOK, NEW c, NEW side \in Sides, NEW q \in Nat, OnFill(c, side, q)
  PROVE  RowsKept
<1>1. CASE LateFill(c, q)
  <2>1. c \in Cids /\ orders' = [orders EXCEPT ![c].filled = orders[c].filled + q]
    BY <1>1 DEF LateFill, IsLateFill, HasRow
  <2> QED
    BY <2>1 DEF RouterTypeOK, OrderRows, RowsKept, SameOrder, HasRow
<1>2. CASE HasRow(c) /\ orders' = RecordFill(c, q)
  <2>1. \A d : HasRow(d)' <=> HasRow(d)
    BY <1>2, RecordFillType DEF HasRow
  <2>2. \A d \in Cids : /\ orders'[d].side = orders[d].side
                        /\ orders'[d].qty = orders[d].qty
                        /\ orders'[d].reduce = orders[d].reduce
    BY <1>2 DEF RecordFill, RouterTypeOK, OrderRows
  <2> QED
    BY <2>1, <2>2 DEF RowsKept, SameOrder
<1>3. CASE UNCHANGED orders
  BY <1>3, SameOrdersKeepRows
<1> QED
  BY <1>1, <1>2, <1>3 DEF OnFill, ApplyFill

LEMMA RecoverOrdersKeepsRows ==
  ASSUME RouterTypeOK, RecoverOrders
  PROVE  RowsKept
<1> DEFINE inflight == {c \in Cids : orders[c].status \in InFlight}
           resting  == inflight \cap loc.snap.open
<1>1. orders' = [c \in Cids |->
          IF c \in resting THEN [orders[c] EXCEPT !.status = "adopted"]
          ELSE IF c \in inflight THEN [orders[c] EXCEPT !.status = "abandoned"]
          ELSE orders[c]]
  BY DEF RecoverOrders
<1>2. ASSUME NEW c \in Cids, HasRow(c)
      PROVE  HasRow(c)' /\ SameOrder(orders[c]', orders[c])
  <2>1. orders[c] \in OrderRows
    BY DEF RouterTypeOK
  <2>2. orders[c].status # "none"
    BY <1>2 DEF HasRow
  <2>3. CASE c \in resting
    BY <1>1, <2>1, <2>2, <2>3 DEF OrderRows, HasRow, SameOrder
  <2>4. CASE c \notin resting /\ c \in inflight
    BY <1>1, <2>1, <2>2, <2>4 DEF OrderRows, HasRow, SameOrder
  <2>5. CASE c \notin resting /\ c \notin inflight
    BY <1>1, <2>1, <2>2, <2>5 DEF OrderRows, HasRow, SameOrder
  <2> QED
    BY <2>3, <2>4, <2>5
<1> QED
  BY <1>2 DEF RowsKept

\* No handler, recovery included, rewrites or deletes an orders row.
THEOREM RouterStepKeepsRows ==
  ASSUME RouterTypeOK, RouterInv, RouterStep \/ UNCHANGED routerVars
  PROVE  RowsKept
<1>1. CASE AckAccepted \/ LandedAfterAll \/ AckRejected \/ SubmitRaised \/ GiveUp
  <2>1. loc.cid \in Cids
    BY <1>1 DEF AckAccepted, LandedAfterAll, OrderAccepted, AckRejected, SubmitRaised, GiveUp, HasRow
  <2>2. \E st \in Statuses :
          orders' \in {WithStatus(loc.cid, st), WithStatusUnlessTerminal(loc.cid, st)}
    BY <1>1 DEF AckAccepted, LandedAfterAll, OrderAccepted, AckRejected, SubmitRaised, GiveUp
  <2> QED
    BY <2>1, <2>2, WithStatusKeepsOrder
<1>2. CASE \E kill \in {"run", "pause", "shutdown"}, bar \in Bars, target \in Targets, qty \in Int :
             \/ BarEnter(kill, bar, target, qty)
             \/ BarExit(kill, bar, target)
             \/ BarNoOrder(kill, bar, target, qty)
  <2>1. pc = "bar"
    BY <1>2 DEF BarEnter, BarExit, BarNoOrder
  <2>2. UNCHANGED orders \/ \E side, qty, reduce, closing : WriteOrder(side, qty, reduce, closing)
    BY <1>2 DEF BarEnter, BarExit, BarNoOrder, WriteExit
  <2> QED
    BY <2>1, <2>2, WriteOrderKeepsRows, SameOrdersKeepRows
<1>3. CASE BarShutdown
  <2>1. UNCHANGED orders \/ \E side, qty, reduce, closing : WriteOrder(side, qty, reduce, closing)
    BY <1>3 DEF BarShutdown, WriteExit
  <2> QED
    BY <1>3, <2>1, WriteOrderKeepsRows, SameOrdersKeepRows DEF BarShutdown
<1>4. CASE FastLiquidated \/ \E b \in BOOLEAN : FastExit(b) \/ FastNothing(b)
  <2>1. pc = "on_fast"
    BY <1>4 DEF FastLiquidated, FastExit, FastNothing
  <2>2. UNCHANGED orders \/ \E side, qty, reduce, closing : WriteOrder(side, qty, reduce, closing)
    BY <1>4 DEF FastLiquidated, FastExit, FastNothing, WriteExit
  <2> QED
    BY <2>1, <2>2, WriteOrderKeepsRows, SameOrdersKeepRows
<1>5. CASE \E b \in BOOLEAN : PendingTimesOut(b) \/ NothingPending(b)
  <2>1. UNCHANGED orders \/ (rt.pend # NoCid /\ orders' = WithStatus(rt.pend, "timeout_adopted"))
    BY <1>5 DEF PendingTimesOut, NothingPending
  <2> QED
    BY <2>1, WithStatusKeepsOrder, SameOrdersKeepRows DEF HasRow
<1>6. CASE \E c \in Cids, st \in Statuses : OnOrderUpdate(c, st)
  <2>1. UNCHANGED orders \/ \E c \in Cids, st \in Statuses :
          orders' \in {WithStatus(c, st), WithStatusUnlessTerminal(c, st)}
    BY <1>6 DEF OnOrderUpdate
  <2> QED
    BY <2>1, WithStatusKeepsOrder, SameOrdersKeepRows
<1>7. CASE \E c \in Cids \cup {Venue}, side \in Sides, q \in Nat : OnFill(c, side, q)
  BY <1>7, OnFillKeepsRows
<1>8. CASE RecoverOrders
  BY <1>8, RecoverOrdersKeepsRows
<1>9. CASE \/ StartBar \/ StartFast \/ StartReconcile
           \/ \E s \in Snapshots : SnapshotReturns(s)
           \/ MarkPending \/ SubmitCalled \/ AckTimeout \/ Retry \/ HaltClosed
           \/ Adopt \/ AdoptedAfterError \/ Settle \/ StopPlaced \/ StopCancelled
           \/ CheckMissingStop \/ CheckSize \/ ReconcileEnds
           \/ \E c \in Cids : OrderCancelled(c)
           \/ Recover \/ Start \/ ClearHalt \/ Die \/ Restart
           \/ UNCHANGED routerVars
  <2>1. UNCHANGED orders
    BY <1>9 DEF StartBar, StartFast, StartReconcile, SnapshotReturns, MarkPending, SubmitCalled,
       AckTimeout, Retry, HaltClosed, Adopt, AdoptedAfterError, Settle, StopPlaced, StopCancelled,
       CheckMissingStop, CheckSize, ReconcileEnds, OrderCancelled, Recover, Start, ClearHalt, Die,
       Restart, routerVars
  <2> QED
    BY <2>1, SameOrdersKeepRows
<1> QED
  BY <1>1, <1>2, <1>3, <1>4, <1>5, <1>6, <1>7, <1>8, <1>9 DEF RouterStep


-----------------------------------------------------------------------------
(* A step adds at most one orders row.                                      *)

\* No row is new, or the row of d is the only new one.
NoNewRow  == \A c \in Cids : HasRow(c)' => HasRow(c)
OnlyNew(d) == ~HasRow(d) /\ HasRow(d)' /\ \A c \in Cids : c # d => (HasRow(c)' => HasRow(c))

LEMMA WithStatusAddsNone ==
  ASSUME RouterTypeOK, NEW d \in Cids, HasRow(d), NEW st,
         orders' \in {WithStatus(d, st), WithStatusUnlessTerminal(d, st)}
  PROVE  NoNewRow
BY DEF RouterTypeOK, WithStatus, WithStatusUnlessTerminal, NoNewRow, HasRow

LEMMA WriteOrderAddsOne ==
  ASSUME RouterTypeOK, RouterInv, ~Starting, NEW side, NEW qty, NEW reduce, NEW closing,
         WriteOrder(side, qty, reduce, closing)
  PROVE  \E d \in Cids : OnlyNew(d)
<1>1. rt.seq \in Nat /\ \A c \in Cids : HasRow(c) => c <= rt.seq
  BY DEF RouterTypeOK, Routers, RouterInv, SeqCoversOrders
<1>2. rt.seq + 1 \in Cids /\ ~HasRow(rt.seq + 1)
  <2>1. rt.seq < MaxSeq
    BY DEF WriteOrder
  <2>2. rt.seq + 1 \in Cids
    BY <1>1, <2>1, RouterAssumption DEF Cids
  <2>3. ~(rt.seq + 1 <= rt.seq)
    BY <1>1
  <2> QED
    BY <1>1, <2>2, <2>3
<1>3. PICK d \in Cids : d = rt.seq + 1
  BY <1>2
<1>4. \A c \in Cids : c # d => orders'[c] = orders[c]
  BY <1>3 DEF WriteOrder, RouterTypeOK
<1>5. orders'[d].status = "submitting"
  BY <1>3 DEF WriteOrder, RouterTypeOK
<1>6. ~HasRow(d)
  BY <1>2, <1>3
<1>7. OnlyNew(d)
  BY <1>4, <1>5, <1>6 DEF OnlyNew, HasRow
<1> QED
  BY <1>7

LEMMA SameOrdersAddNone ==
  ASSUME UNCHANGED orders PROVE NoNewRow
BY DEF NoNewRow, HasRow

LEMMA OnFillAddsNone ==
  ASSUME RouterTypeOK, NEW c, NEW side \in Sides, NEW q \in Nat, OnFill(c, side, q)
  PROVE  NoNewRow
<1>1. CASE LateFill(c, q)
  <2>1. HasRow(c) /\ orders' = [orders EXCEPT ![c].filled = orders[c].filled + q]
    BY <1>1 DEF LateFill, IsLateFill
  <2> QED
    BY <2>1 DEF RouterTypeOK, NoNewRow, HasRow
<1>2. CASE HasRow(c) /\ orders' = RecordFill(c, q)
  BY <1>2, RecordFillType DEF HasRow, NoNewRow
<1>3. CASE UNCHANGED orders
  BY <1>3, SameOrdersAddNone
<1> QED
  BY <1>1, <1>2, <1>3 DEF OnFill, ApplyFill

LEMMA RecoverOrdersAddsNone ==
  ASSUME RouterTypeOK, RecoverOrders
  PROVE  NoNewRow
<1>1. \A c \in Cids : orders[c].status \notin {"submitting", "accepted"} => orders'[c] = orders[c]
  <2> DEFINE inflight == {c \in Cids : orders[c].status \in InFlight}
             resting  == inflight \cap loc.snap.open
             next(c)  == IF c \in resting THEN [orders[c] EXCEPT !.status = "adopted"]
                         ELSE IF c \in inflight THEN [orders[c] EXCEPT !.status = "abandoned"]
                         ELSE orders[c]
  <2>1. orders' = [c \in Cids |-> next(c)]
    BY DEF RecoverOrders
  <2>2. \A c \in Cids : c \notin inflight => next(c) = orders[c]
    OBVIOUS
  <2>3. \A c \in Cids : orders[c].status \notin {"submitting", "accepted"} => c \notin inflight
    BY DEF InFlight
  <2> HIDE DEF inflight, next
  <2> QED
    BY <2>1, <2>2, <2>3
<1> QED
  BY <1>1 DEF NoNewRow, HasRow, RouterTypeOK

\* Only _send writes a row, and one at a time.
THEOREM RouterStepAddsOneRow ==
  ASSUME RouterTypeOK, RouterInv, RouterStep \/ UNCHANGED routerVars
  PROVE  NoNewRow \/ \E d \in Cids : OnlyNew(d)
<1>1. CASE AckAccepted \/ LandedAfterAll \/ AckRejected \/ SubmitRaised \/ GiveUp
  <2>1. HasRow(loc.cid) /\ loc.cid \in Cids
    BY <1>1 DEF AckAccepted, LandedAfterAll, OrderAccepted, AckRejected, SubmitRaised, GiveUp,
       RouterInv, SendingHasRow, Sending, HasRow
  <2>2. \E st : orders' \in {WithStatus(loc.cid, st), WithStatusUnlessTerminal(loc.cid, st)}
    BY <1>1 DEF AckAccepted, LandedAfterAll, OrderAccepted, AckRejected, SubmitRaised, GiveUp
  <2> QED
    BY <2>1, <2>2, WithStatusAddsNone
<1>2. CASE \E kill \in {"run", "pause", "shutdown"}, bar \in Bars, target \in Targets, qty \in Int :
             \/ BarEnter(kill, bar, target, qty)
             \/ BarExit(kill, bar, target)
             \/ BarNoOrder(kill, bar, target, qty)
  <2>1. pc = "bar"
    BY <1>2 DEF BarEnter, BarExit, BarNoOrder
  <2>2. UNCHANGED orders \/ \E side, qty, reduce, closing : WriteOrder(side, qty, reduce, closing)
    BY <1>2 DEF BarEnter, BarExit, BarNoOrder, WriteExit
  <2> QED
    BY <2>1, <2>2, WriteOrderAddsOne, SameOrdersAddNone DEF Starting
<1>3. CASE BarShutdown
  <2>1. UNCHANGED orders \/ \E side, qty, reduce, closing : WriteOrder(side, qty, reduce, closing)
    BY <1>3 DEF BarShutdown, WriteExit
  <2> QED
    BY <1>3, <2>1, WriteOrderAddsOne, SameOrdersAddNone DEF BarShutdown, Starting
<1>4. CASE FastLiquidated \/ \E b \in BOOLEAN : FastExit(b) \/ FastNothing(b)
  <2>1. pc = "on_fast"
    BY <1>4 DEF FastLiquidated, FastExit, FastNothing
  <2>2. UNCHANGED orders \/ \E side, qty, reduce, closing : WriteOrder(side, qty, reduce, closing)
    BY <1>4 DEF FastLiquidated, FastExit, FastNothing, WriteExit
  <2> QED
    BY <2>1, <2>2, WriteOrderAddsOne, SameOrdersAddNone DEF Starting
<1>5. CASE \E b \in BOOLEAN : PendingTimesOut(b) \/ NothingPending(b)
  <2>1. UNCHANGED orders \/ (rt.pend # NoCid /\ orders' = WithStatus(rt.pend, "timeout_adopted"))
    BY <1>5 DEF PendingTimesOut, NothingPending
  <2> QED
    BY <2>1, WithStatusAddsNone, SameOrdersAddNone DEF HasRow, RouterInv, PendingNamed
<1>6. CASE \E c \in Cids, st \in Statuses : OnOrderUpdate(c, st)
  <2>1. PICK c \in Cids, st \in Statuses : OnOrderUpdate(c, st)
    BY <1>6
  <2>2. c = rt.pend => HasRow(c)
    BY CidsFacts DEF RouterInv, PendingNamed
  <2>3. UNCHANGED orders \/ (HasRow(c) /\ orders' \in {WithStatus(c, st), WithStatusUnlessTerminal(c, st)})
    BY <2>1, <2>2 DEF OnOrderUpdate
  <2> QED
    BY <2>3, WithStatusAddsNone, SameOrdersAddNone
<1>7. CASE \E c \in Cids \cup {Venue}, side \in Sides, q \in Nat : OnFill(c, side, q)
  BY <1>7, OnFillAddsNone
<1>8. CASE RecoverOrders
  BY <1>8, RecoverOrdersAddsNone
<1>9. CASE \/ StartBar \/ StartFast \/ StartReconcile
           \/ \E s \in Snapshots : SnapshotReturns(s)
           \/ MarkPending \/ SubmitCalled \/ AckTimeout \/ Retry \/ HaltClosed
           \/ Adopt \/ AdoptedAfterError \/ Settle \/ StopPlaced \/ StopCancelled
           \/ CheckMissingStop \/ CheckSize \/ ReconcileEnds
           \/ \E c \in Cids : OrderCancelled(c)
           \/ Recover \/ Start \/ ClearHalt \/ Die \/ Restart
           \/ UNCHANGED routerVars
  <2>1. UNCHANGED orders
    BY <1>9 DEF StartBar, StartFast, StartReconcile, SnapshotReturns, MarkPending, SubmitCalled,
       AckTimeout, Retry, HaltClosed, Adopt, AdoptedAfterError, Settle, StopPlaced, StopCancelled,
       CheckMissingStop, CheckSize, ReconcileEnds, OrderCancelled, Recover, Start, ClearHalt, Die,
       Restart, routerVars
  <2> QED
    BY <2>1, SameOrdersAddNone
<1> QED
  BY <1>1, <1>2, <1>3, <1>4, <1>5, <1>6, <1>7, <1>8, <1>9 DEF RouterStep
=============================================================================
