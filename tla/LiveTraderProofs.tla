-------------------------- MODULE LiveTraderProofs --------------------------
(***************************************************************************)
(* Safety of the live trader for every MaxSeq, MaxQty, MaxCrash, MaxCloses *)
(* and Kills.  IInv is inductive: RouterProofs has the router's half, and  *)
(* here are the venue's types and the rows behind the venue's orders.      *)
(***************************************************************************)
EXTENDS LiveTrader, RouterProofs

USE DEF Sides, Stops, GaveUp, Terminal, InFlight, Statuses

\* Seen from the router, a step of the live trader is a router step or none.
LEMMA NextIsRouterStep ==
  ASSUME TypeOK, [Next]_vars PROVE RouterStep \/ UNCHANGED routerVars
<1>1. ASSUME BarCloses \/ FastTick \/ ReconcileTick PROVE RouterStep
  BY <1>1 DEF BarCloses, FastTick, ReconcileTick, RouterStep
<1>2. ASSUME NEW ev \in events, Deliver(ev) PROVE RouterStep
  <2>1. CASE ev \in Fills
    BY <1>2, <2>1 DEF Deliver, Fills, RouterStep
  <2>2. CASE ev \in Updates
    BY <1>2, <2>2 DEF Deliver, Updates, RouterStep
  <2> QED
    BY <2>1, <2>2 DEF TypeOK
<1>3. ASSUME StartSnapshot PROVE UNCHANGED routerVars
  BY <1>3 DEF StartSnapshot
<1>4. ASSUME FetchOpenOrders PROVE RouterStep
  <2> DEFINE s == [pos |-> half.pos, liq |-> half.liq, stop |-> vstop,
                   open |-> {c \in Cids : vord[c].status = "open"}]
  <2>1. s \in Snapshots
    BY DEF TypeOK, Snapshots
  <2> QED
    BY <1>4, <2>1 DEF FetchOpenOrders, RouterStep
<1>5. ASSUME Submit \/ SubmitFails \/ ReplyAccepted \/ ReplyRejected \/ ReplyTimesOut PROVE RouterStep
  BY <1>5 DEF Submit, SubmitFails, ReplyAccepted, ReplyRejected, ReplyTimesOut, RouterStep
<1>6. ASSUME PlaceStop \/ CancelStop \/ Crash PROVE RouterStep
  BY <1>6 DEF PlaceStop, CancelStop, Crash, Dies, RouterStep
<1>7. ASSUME Bar PROVE RouterStep
  <2>1. CASE \E kill \in Kills \ {"shutdown"}, bar \in Bars, target \in Targets :
               \/ \E qty \in -1..MaxQty : \/ BarEnter(kill, bar, target, qty)
                                          \/ BarNoOrder(kill, bar, target, qty)
               \/ BarExit(kill, bar, target)
    <3>1. PICK kill \in Kills, bar \in Bars, target \in Targets :
               \/ \E qty \in -1..MaxQty : \/ BarEnter(kill, bar, target, qty)
                                          \/ BarNoOrder(kill, bar, target, qty)
               \/ BarExit(kill, bar, target)
      BY <2>1
    <3>2. kill \in {"run", "pause", "shutdown"}
      BY LiveAssumption
    <3>3. \E qty \in Int : \/ BarEnter(kill, bar, target, qty)
                           \/ BarExit(kill, bar, target)
                           \/ BarNoOrder(kill, bar, target, qty)
      BY <3>1, RouterAssumption
    <3> QED
      BY <3>2, <3>3 DEF RouterStep
  <2>2. CASE BarShutdown
    BY <2>2 DEF RouterStep
  <2> QED
    BY <1>7, <2>1, <2>2 DEF Bar
<1>8. ASSUME CheckPending \/ Fast PROVE RouterStep
  BY <1>8 DEF CheckPending, Fast, RouterStep
<1>9. ASSUME Reconcile PROVE RouterStep
  BY <1>9 DEF Reconcile, CancelOrder, RouterStep
<1>10. ASSUME Send \/ AdoptSize PROVE RouterStep
  BY <1>10 DEF Send, AdoptSize, RouterStep
<1>11. ASSUME Startup \/ OperatorClears PROVE RouterStep
  BY <1>11 DEF Startup, OperatorClears, RouterStep
<1>12. ASSUME VenueStep PROVE UNCHANGED routerVars
  BY <1>12 DEF VenueStep, Arrive, Expire, Match, StopFires, LiquidationStarts, LiquidationEnds
<1>13. ASSUME UNCHANGED vars PROVE UNCHANGED routerVars
  BY <1>13 DEF vars, routerVars
<1>14. CASE Proceed
  BY <1>3, <1>4, <1>5, <1>6, <1>7, <1>8, <1>9, <1>10, <1>11, <1>14 DEF Proceed
<1> QED
  BY <1>1, <1>2, <1>6, <1>11, <1>12, <1>13, <1>14 DEF Next

-----------------------------------------------------------------------------
(* Types of the venue's half.                                               *)

LiveTypeOK ==
  /\ net \in SUBSET Requests /\ vord \in [Cids -> VenueOrders]
  /\ vpos \in Int /\ vstop \in Stops /\ vliq \in BOOLEAN
  /\ events \in SUBSET (Fills \cup Updates)
  /\ half \in [ready: BOOLEAN, pos: Int, liq: BOOLEAN]
  /\ crashes \in 0..MaxCrash /\ closes \in 0..MaxCloses

\* A step that leaves the venue alone, but for a snapshot's first half and a
\* death of the process.
LEMMA RouterOnlyTypes ==
  ASSUME LiveTypeOK, UNCHANGED <<net, vord, vpos, vliq, closes>>,
         vstop' \in Stops, events' \subseteq events,
         half' \in {half, NoHalf, [ready |-> TRUE, pos |-> vpos, liq |-> vliq]},
         crashes' = crashes \/ (crashes < MaxCrash /\ crashes' = crashes + 1)
  PROVE  LiveTypeOK'
<1>1. half' \in [ready: BOOLEAN, pos: Int, liq: BOOLEAN]
  <2>1. NoHalf \in [ready: BOOLEAN, pos: Int, liq: BOOLEAN]
    BY DEF NoHalf
  <2>2. [ready |-> TRUE, pos |-> vpos, liq |-> vliq] \in [ready: BOOLEAN, pos: Int, liq: BOOLEAN]
    BY DEF LiveTypeOK
  <2> QED
    BY <2>1, <2>2 DEF LiveTypeOK
<1>2. crashes' \in 0..MaxCrash
  BY LiveAssumption DEF LiveTypeOK
<1> QED
  BY <1>1, <1>2 DEF LiveTypeOK

LEMMA EmitType ==
  ASSUME LiveTypeOK, NEW evs, evs \subseteq Fills \cup Updates, Emit(evs)
  PROVE  events' \in SUBSET (Fills \cup Updates)
BY DEF LiveTypeOK, Emit

LEMMA ClosedTypes ==
  ASSUME LiveTypeOK, ClosedByVenue
  PROVE  /\ vpos' \in Int /\ closes' \in 0..MaxCloses
         /\ events' \in SUBSET (Fills \cup Updates)
<1> DEFINE ev == FillEvent(Venue, closes + 1, ClosingSide(vpos), Magnitude(vpos))
<1>1. closes + 1 \in Nat /\ Magnitude(vpos) \in Nat /\ ClosingSide(vpos) \in Sides
  BY LiveAssumption DEF LiveTypeOK, Magnitude, ClosingSide
<1>2. ev \in Fills
  <2> HIDE DEF Sides
  <2> QED
    BY <1>1 DEF FillEvent, Fills
<1>3. events' \in SUBSET (Fills \cup Updates)
  BY <1>2, EmitType DEF ClosedByVenue
<1>4. vpos' \in Int /\ closes' \in 0..MaxCloses
  BY LiveAssumption DEF ClosedByVenue, LiveTypeOK
<1> QED
  BY <1>3, <1>4

LEMMA MatchTypes ==
  ASSUME LiveTypeOK, NEW c \in Cids, NEW q \in Nat, Match(c, q)
  PROVE  LiveTypeOK'
<1> DEFINE o == vord[c]
           filled == o.filled + q
           st == IF filled = o.qty THEN "filled" ELSE o.status
           e == [[o EXCEPT !.filled = filled] EXCEPT !.status = st]
<1>1. o \in VenueOrders
  BY DEF LiveTypeOK
<1>2. o.side \in Sides /\ o.filled \in Nat /\ filled \in Nat /\ Signed(o.side, q) \in Int
  BY <1>1 DEF VenueOrders, Signed
<1>3. e \in VenueOrders
  <2>1. st \in {"none", "open", "filled", "cancelled", "refused"}
    BY <1>1 DEF VenueOrders
  <2> HIDE DEF st, filled, o
  <2> QED
    BY <1>1, <1>2, <2>1 DEF VenueOrders
<1>4. vord' = [vord EXCEPT ![c] = e]
  BY DEF Match, LiveTypeOK, VenueOrders
<1>5. vord' \in [Cids -> VenueOrders]
  <2> HIDE DEF e
  <2> QED
    BY <1>3, <1>4 DEF LiveTypeOK
<1>6. FillEvent(c, filled, o.side, q) \in Fills
  <2> HIDE DEF filled, o, Sides
  <2> QED
    BY <1>2 DEF FillEvent, Fills
<1>7. UpdateEvent(c, "filled") \in Updates
  BY DEF UpdateEvent, Updates
<1>8. events' \in SUBSET (Fills \cup Updates)
  <2> DEFINE evs == {FillEvent(c, filled, o.side, q)} \cup
                    (IF filled = o.qty THEN {UpdateEvent(c, "filled")} ELSE {})
  <2>1. evs \subseteq Fills \cup Updates
    BY <1>6, <1>7
  <2>2. Emit(evs)
    BY DEF Match
  <2> QED
    BY <2>1, <2>2, EmitType
<1>9. vpos' \in Int
  BY <1>2 DEF Match, LiveTypeOK
<1> QED
  BY <1>5, <1>8, <1>9 DEF Match, LiveTypeOK

LEMMA VenueStepTypes ==
  ASSUME LiveTypeOK, VenueStep PROVE LiveTypeOK'
<1>1. ASSUME NEW m \in net, Arrive(m) PROVE LiveTypeOK'
  <2>1. m \in Requests
    BY DEF LiveTypeOK
  <2> DEFINE e == [status |-> IF m.qty > 0 /\ CanReduce(m) THEN "open" ELSE "refused",
                   side |-> m.side, qty |-> m.qty, reduce |-> m.reduce, filled |-> 0]
  <2>2. m.cid \in Cids /\ e \in VenueOrders
    BY <2>1 DEF Requests, VenueOrders
  <2>3. vord' \in [Cids -> VenueOrders]
    <3>1. vord' = vord \/ vord' = [vord EXCEPT ![m.cid] = e]
      BY <1>1 DEF Arrive
    <3> HIDE DEF e
    <3> QED
      BY <2>2, <3>1 DEF LiveTypeOK
  <2> QED
    BY <1>1, <2>3 DEF Arrive, LiveTypeOK
<1>2. ASSUME NEW c \in Cids, Expire(c) PROVE LiveTypeOK'
  <2>1. vord' \in [Cids -> VenueOrders]
    BY <1>2 DEF Expire, LiveTypeOK, VenueOrders
  <2>2. UpdateEvent(c, "cancelled") \in Updates
    BY DEF UpdateEvent, Updates
  <2>3. events' \in SUBSET (Fills \cup Updates)
    BY <1>2, <2>2, EmitType DEF Expire
  <2> QED
    BY <1>2, <2>1, <2>3 DEF Expire, LiveTypeOK
<1>3. ASSUME NEW c \in Cids, NEW q \in 1..MaxQty, Match(c, q) PROVE LiveTypeOK'
  BY <1>3, MatchTypes, RouterAssumption
<1>4. ASSUME StopFires PROVE LiveTypeOK'
  BY <1>4, ClosedTypes DEF StopFires, LiveTypeOK
<1>5. ASSUME LiquidationStarts PROVE LiveTypeOK'
  BY <1>5 DEF LiquidationStarts, LiveTypeOK
<1>6. ASSUME LiquidationEnds PROVE LiveTypeOK'
  BY <1>6, ClosedTypes DEF LiquidationEnds, LiveTypeOK
<1> QED
  BY <1>1, <1>2, <1>3, <1>4, <1>5, <1>6 DEF VenueStep

LEMMA TypesPreserved ==
  ASSUME IInv, [Next]_vars PROVE LiveTypeOK'
<1>1. LiveTypeOK
  BY DEF IInv, TypeOK, LiveTypeOK
<1>2. ASSUME BarCloses \/ FastTick \/ ReconcileTick \/ StartSnapshot PROVE LiveTypeOK'
  BY <1>1, <1>2, RouterOnlyTypes
     DEF BarCloses, FastTick, ReconcileTick, StartSnapshot, FetchPortfolio, venueVars, LiveTypeOK
<1>3. ASSUME FetchOpenOrders \/ SubmitFails PROVE LiveTypeOK'
  BY <1>1, <1>3, RouterOnlyTypes DEF FetchOpenOrders, SubmitFails, venueVars, LiveTypeOK
<1>4. ASSUME NEW ev \in events, Deliver(ev) PROVE LiveTypeOK'
  BY <1>1, <1>4 DEF Deliver, LiveTypeOK
<1>5. ASSUME Submit PROVE LiveTypeOK'
  <2>1. HasRow(loc.cid)
    BY <1>5 DEF IInv, RouterInv, SendingHasRow, Sending, Submit, SubmitCalled
  <2>2. loc.cid \in Cids /\ orders[loc.cid] \in OrderRows
    BY <2>1 DEF IInv, TypeOK, RouterTypeOK, HasRow
  <2>3. Request \in Requests
    BY <2>2 DEF Request, Requests, OrderRows
  <2> QED
    BY <1>1, <1>5, <2>3 DEF Submit, LiveTypeOK
<1>6. ASSUME PlaceStop \/ CancelStop \/ Crash PROVE LiveTypeOK'
  <2>1. vstop' \in Stops
    BY <1>1, <1>6 DEF PlaceStop, CancelStop, Crash, WantedStop, Guarding, LiveTypeOK
  <2>2. CASE crashes' = crashes /\ UNCHANGED <<events, half>>
    BY <1>1, <1>6, <2>1, <2>2 DEF PlaceStop, CancelStop, Crash, LiveTypeOK
  <2>3. CASE Dies
    <3>1. crashes < MaxCrash /\ crashes' = crashes + 1 /\ events' = {} /\ half' = NoHalf
      BY <2>3 DEF Dies
    <3>2. UNCHANGED <<net, vord, vpos, vliq, closes>>
      BY <1>6 DEF PlaceStop, CancelStop, Crash
    <3> QED
      BY <1>1, <2>1, <3>1, <3>2, RouterOnlyTypes
  <2> QED
    BY <1>6, <2>2, <2>3 DEF PlaceStop, CancelStop, Crash
<1>7. ASSUME NEW c \in Cids, CancelOrder(c) PROVE LiveTypeOK'
  <2>1. vord' \in [Cids -> VenueOrders]
    BY <1>1, <1>7 DEF CancelOrder, LiveTypeOK, VenueOrders
  <2>2. UpdateEvent(c, "cancelled") \in Updates
    BY DEF UpdateEvent, Updates
  <2>3. events' \in SUBSET (Fills \cup Updates)
    BY <1>1, <1>7, <2>2, EmitType DEF CancelOrder, LiveTypeOK
  <2> QED
    BY <1>1, <1>7, <2>1, <2>3 DEF CancelOrder, LiveTypeOK
<1>8. ASSUME UNCHANGED liveVars PROVE LiveTypeOK'
  BY <1>1, <1>8 DEF liveVars, LiveTypeOK
<1>9. ASSUME Reconcile PROVE LiveTypeOK'
  BY <1>7, <1>8, <1>9 DEF Reconcile
<1>10. CASE Proceed
  <2>1. CASE \/ ReplyAccepted \/ ReplyRejected \/ ReplyTimesOut
             \/ Bar \/ CheckPending \/ Fast \/ Send \/ AdoptSize \/ Startup
    BY <1>8, <2>1 DEF ReplyAccepted, ReplyRejected, ReplyTimesOut, Bar, CheckPending, Fast, Send,
       AdoptSize, Startup
  <2> QED
    BY <1>2, <1>3, <1>5, <1>6, <1>9, <1>10, <2>1 DEF Proceed
<1>11. CASE VenueStep
  BY <1>1, <1>11, VenueStepTypes
<1>12. CASE OperatorClears \/ UNCHANGED vars
  BY <1>8, <1>12 DEF OperatorClears, vars
<1> QED
  BY <1>2, <1>4, <1>6, <1>10, <1>11, <1>12 DEF Next

-----------------------------------------------------------------------------
(* The rows behind the venue's orders.                                      *)

\* An order that is on its way or known to the venue, and the row behind it.
Backed(c, o) == HasRow(c) /\ SameOrder(o, orders[c])

LEMMA BackedStays ==
  ASSUME RowsKept, NEW c, NEW o, Backed(c, o) PROVE Backed(c, o)'
BY DEF RowsKept, Backed, SameOrder, HasRow

\* The requests and the venue's orders of the next state, from those of this one.
LEMMA RowsPreserved ==
  ASSUME IInv, [Next]_vars, RowsKept PROVE RowsBeforeSends'
<1> DEFINE NetOK  == \A m \in net' : m \in net \/ Backed(m.cid, m)
           VordOK == \A c \in Cids : vord'[c].status # "none" =>
                       \/ vord[c].status # "none" /\ SameOrder(vord'[c], vord[c])
                       \/ \E m \in net : m.cid = c /\ SameOrder(vord'[c], m)
<1>1. ASSUME NetOK, VordOK PROVE RowsBeforeSends'
  <2>1. \A m \in net' : Backed(m.cid, m)
    BY <1>1 DEF IInv, RowsBeforeSends, Backed
  <2>2. \A m \in net' : HasRow(m.cid)' /\ SameOrder(m, orders'[m.cid])
    BY <2>1 DEF RowsKept, Backed, SameOrder, HasRow
  <2>3. ASSUME NEW c \in Cids, vord'[c].status # "none"
        PROVE  Backed(c, vord'[c])
    BY <1>1, <2>3 DEF IInv, RowsBeforeSends, Backed, SameOrder
  <2>4. \A c \in Cids : vord'[c].status # "none" =>
          HasRow(c)' /\ SameOrder(vord'[c], orders'[c])
    BY <2>3 DEF RowsKept, Backed, SameOrder, HasRow
  <2> QED
    BY <2>2, <2>4 DEF RowsBeforeSends, SameOrder, HasRow
<1>2. ASSUME UNCHANGED <<net, vord>> PROVE RowsBeforeSends'
  BY <1>1, <1>2 DEF SameOrder
<1>3. ASSUME Submit PROVE RowsBeforeSends'
  <2>1. HasRow(loc.cid)
    BY <1>3 DEF IInv, RouterInv, SendingHasRow, Sending, Submit, SubmitCalled
  <2>2. Backed(Request.cid, Request)
    BY <2>1 DEF Backed, Request, SameOrder
  <2> QED
    BY <1>1, <1>3, <2>2 DEF Submit, SameOrder
<1>4. ASSUME NEW m \in net, Arrive(m) PROVE RowsBeforeSends'
  <2>1. NetOK
    BY <1>4 DEF Arrive
  <2>2. VordOK
    BY <1>4 DEF Arrive, IInv, TypeOK, SameOrder
  <2> QED
    BY <1>1, <2>1, <2>2
<1>5. ASSUME NEW c \in Cids, Expire(c) \/ CancelOrder(c) PROVE RowsBeforeSends'
  <2>1. NetOK
    BY <1>5 DEF Expire, CancelOrder
  <2>2. \/ UNCHANGED vord
        \/ vord[c].status = "open" /\ vord' = [vord EXCEPT ![c].status = "cancelled"]
    <3>1. CASE Expire(c)
      BY <3>1 DEF Expire
    <3>2. CASE CancelOrder(c)
      BY <3>2 DEF CancelOrder
    <3> QED
      BY <1>5, <3>1, <3>2
  <2>3. VordOK
    BY <2>2 DEF IInv, TypeOK, VenueOrders, SameOrder
  <2> QED
    BY <1>1, <2>1, <2>3
<1>6. ASSUME NEW c \in Cids, NEW q \in 1..MaxQty, Match(c, q) PROVE RowsBeforeSends'
  <2>1. NetOK
    BY <1>6 DEF Match
  <2>2. vord[c].status = "open" /\ \A d \in Cids : d # c => vord'[d] = vord[d]
    BY <1>6 DEF Match, IInv, TypeOK
  <2>3. SameOrder(vord'[c], vord[c])
    BY <1>6 DEF Match, IInv, TypeOK, VenueOrders, SameOrder
  <2>4. VordOK
    BY <2>2, <2>3 DEF SameOrder
  <2> QED
    BY <1>1, <2>1, <2>4
<1>7. ASSUME VenueStep PROVE RowsBeforeSends'
  BY <1>2, <1>4, <1>5, <1>6, <1>7 DEF VenueStep, StopFires, LiquidationStarts, LiquidationEnds
<1>8. ASSUME Proceed PROVE RowsBeforeSends'
  <2>1. CASE Reconcile
    BY <1>2, <1>5, <2>1 DEF Reconcile, liveVars
  <2>2. CASE \/ StartSnapshot \/ FetchOpenOrders \/ SubmitFails \/ ReplyAccepted \/ ReplyRejected
             \/ ReplyTimesOut \/ PlaceStop \/ CancelStop \/ Bar \/ CheckPending \/ Fast
             \/ Send \/ AdoptSize \/ Startup
    BY <1>2, <2>2 DEF StartSnapshot, FetchOpenOrders, SubmitFails, ReplyAccepted, ReplyRejected,
       ReplyTimesOut, PlaceStop, CancelStop, Bar, CheckPending, Fast, Send, AdoptSize, Startup,
       liveVars, venueVars
  <2> QED
    BY <1>3, <1>8, <2>1, <2>2 DEF Proceed
<1>9. CASE BarCloses \/ FastTick \/ ReconcileTick \/ OperatorClears \/ Crash \/ UNCHANGED vars
          \/ \E ev \in events : Deliver(ev)
  BY <1>2, <1>9 DEF BarCloses, FastTick, ReconcileTick, OperatorClears, Crash, Deliver, vars,
     liveVars, venueVars
<1> QED
  BY <1>7, <1>8, <1>9 DEF Next

-----------------------------------------------------------------------------
(* The theorems.                                                            *)

\* The initial state, and every step, of the live trader keep the inductive
\* invariant.
THEOREM InitIInv == Init => IInv
<1> SUFFICES ASSUME Init PROVE IInv
  OBVIOUS
<1>1. RouterTypeOK /\ RouterInv
  BY RouterInitInv DEF Init
<1>2. NotSeen \in VenueOrders
  BY DEF NotSeen, VenueOrders
<1>3. LiveTypeOK
  <2>1. vord \in [Cids -> VenueOrders]
    BY <1>2 DEF Init
  <2>2. half \in [ready: BOOLEAN, pos: Int, liq: BOOLEAN]
    BY DEF Init, NoHalf
  <2>3. crashes \in 0..MaxCrash /\ closes \in 0..MaxCloses
    BY LiveAssumption DEF Init
  <2>4. net \in SUBSET Requests /\ events \in SUBSET (Fills \cup Updates)
    BY DEF Init
  <2>5. vpos \in Int /\ vstop \in Stops
    BY DEF Init
  <2>6. vliq \in BOOLEAN
    BY Zenon DEF Init
  <2> QED
    BY <2>1, <2>2, <2>3, <2>4, <2>5, <2>6 DEF LiveTypeOK
<1>4. RowsBeforeSends
  BY DEF Init, NotSeen, RowsBeforeSends
<1> QED
  BY <1>1, <1>3, <1>4 DEF IInv, TypeOK, LiveTypeOK

THEOREM StepIInv == IInv /\ [Next]_vars => IInv' /\ RowsKept
<1> SUFFICES ASSUME IInv, [Next]_vars PROVE IInv' /\ RowsKept
  OBVIOUS
<1>1. RouterTypeOK /\ RouterInv /\ TypeOK
  BY DEF IInv, TypeOK
<1>2. RouterStep \/ UNCHANGED routerVars
  BY <1>1, NextIsRouterStep
<1>3. RouterTypeOK' /\ RouterInv'
  BY <1>1, <1>2, RouterStepPreserves
<1>4. RowsKept
  BY <1>1, <1>2, RouterStepKeepsRows
<1>5. LiveTypeOK'
  BY TypesPreserved
<1>6. RowsBeforeSends'
  BY <1>4, RowsPreserved
<1> QED
  BY <1>3, <1>4, <1>5, <1>6 DEF IInv, TypeOK, LiveTypeOK

THEOREM Invariant == Spec => []IInv
BY InitIInv, StepIInv, PTL DEF Spec

\* No interleaving of handlers, fills, answers, timeouts, deaths and restarts
\* takes a variable out of its type.
THEOREM TypesHold == Spec => []TypeOK
<1>1. IInv => TypeOK
  BY DEF IInv
<1> QED
  BY <1>1, Invariant, PTL

\* Everything the venue can act on was committed to the database before it was
\* sent (_send), and stays there through restarts.
THEOREM RowsComeFirst == Spec => []RowsBeforeSends
<1>1. IInv => RowsBeforeSends
  BY DEF IInv
<1> QED
  BY <1>1, Invariant, PTL

\* No step deletes an orders row or gives its id to another order.
THEOREM RowsStay == Spec => RowsNeverRewritten
<1>1. IInv /\ [Next]_vars => [RowsKept]_vars
  BY StepIInv
<1> QED
  BY <1>1, Invariant, PTL DEF Spec, RowsNeverRewritten

\* With the lock free, the row is the router, a FLAT or OPEN router is what it
\* says, and a pending one has an order to wait for.
THEOREM RouterConsistent == Spec => []ConsistentWhenFree
<1>1. IInv => ConsistentWhenFree
  BY DEF IInv, RouterInv, RowSaved, SizeKnown, PendingNamed, Unsaved, Unsettled, Starting,
     ConsistentWhenFree, RowInSync, StateMatchesSize, PendingHasOrder, HasRow
<1> QED
  BY <1>1, Invariant, PTL

-----------------------------------------------------------------------------
(* The live trader implements the order ledger.                             *)

\* A step leaves the venue's orders what they were about.
VenueKept ==
  \A c \in Cids : /\ vord'[c].status # "none" <=> vord[c].status # "none"
                  /\ vord[c].status # "none" => SameOrder(vord'[c], vord[c])

\* Only the arrival of a first copy gives the venue a new order.
LEMMA VenueStepsKeep ==
  ASSUME IInv, [Next]_vars
  PROVE  VenueKept \/ \E m \in net : Arrive(m) /\ vord[m.cid].status = "none"
<1>0. vord \in [Cids -> VenueOrders] /\ net \in SUBSET Requests
  BY DEF IInv, TypeOK
<1>1. ASSUME UNCHANGED vord PROVE VenueKept
  BY <1>1 DEF VenueKept, SameOrder
<1>2. ASSUME NEW c \in Cids, vord[c].status = "open",
             vord' = [vord EXCEPT ![c].status = "cancelled"]
      PROVE  VenueKept
  BY <1>0, <1>2 DEF VenueKept, SameOrder, VenueOrders
<1>3. ASSUME NEW c \in Cids, Expire(c) \/ CancelOrder(c) PROVE VenueKept
  BY <1>1, <1>2, <1>3 DEF Expire, CancelOrder
<1>4. ASSUME NEW c \in Cids, NEW q \in 1..MaxQty, Match(c, q) PROVE VenueKept
  <2>1. vord[c].status = "open" /\ \A d \in Cids : d # c => vord'[d] = vord[d]
    BY <1>0, <1>4 DEF Match
  <2>2. SameOrder(vord'[c], vord[c])
    BY <1>0, <1>4 DEF Match, VenueOrders, SameOrder
  <2>3. vord'[c].status \in {"open", "filled"}
    BY <1>0, <1>4 DEF Match, VenueOrders
  <2> QED
    BY <2>1, <2>2, <2>3 DEF VenueKept, SameOrder
<1>5. ASSUME NEW m \in net, Arrive(m), vord[m.cid].status # "none" PROVE VenueKept
  BY <1>1, <1>5 DEF Arrive
<1>6. CASE VenueStep
  BY <1>1, <1>3, <1>4, <1>5, <1>6 DEF VenueStep, StopFires, LiquidationStarts, LiquidationEnds
<1>7. CASE Proceed
  <2>1. CASE Reconcile
    BY <1>1, <1>3, <2>1 DEF Reconcile, liveVars
  <2>2. CASE \/ StartSnapshot \/ FetchOpenOrders \/ Submit \/ SubmitFails \/ ReplyAccepted
             \/ ReplyRejected \/ ReplyTimesOut \/ PlaceStop \/ CancelStop \/ Bar
             \/ CheckPending \/ Fast \/ Send \/ AdoptSize \/ Startup
    BY <1>1, <2>2 DEF StartSnapshot, FetchOpenOrders, Submit, SubmitFails, ReplyAccepted,
       ReplyRejected, ReplyTimesOut, PlaceStop, CancelStop, Bar, CheckPending, Fast, Send,
       AdoptSize, Startup, liveVars, venueVars
  <2> QED
    BY <1>7, <2>1, <2>2 DEF Proceed
<1>8. CASE BarCloses \/ FastTick \/ ReconcileTick \/ OperatorClears \/ Crash \/ UNCHANGED vars
          \/ \E ev \in events : Deliver(ev)
  BY <1>1, <1>8 DEF BarCloses, FastTick, ReconcileTick, OperatorClears, Crash, Deliver, vars,
     liveVars, venueVars
<1> QED
  BY <1>6, <1>7, <1>8 DEF Next

\* The same order is the same abstract order.
LEMMA SameOrderOf ==
  ASSUME NEW a, NEW b, SameOrder(a, b) PROVE OrderOf(a) = OrderOf(b)
BY DEF SameOrder, OrderOf

LEMMA VenueKeptTaken ==
  ASSUME VenueKept PROVE Taken' = Taken
<1>1. \A c \in Cids : vord[c].status # "none" => OrderOf(vord'[c]) = OrderOf(vord[c])
  BY SameOrderOf DEF VenueKept
<1>2. \A c \in Cids : vord'[c].status # "none" <=> vord[c].status # "none"
  BY DEF VenueKept
<1>3. Taken' = {<<c, OrderOf(vord'[c])>> : c \in {d \in Cids : vord'[d].status # "none"}}
  BY DEF Taken, OrderOf
<1>4. Taken = {<<c, OrderOf(vord[c])>> : c \in {d \in Cids : vord[d].status # "none"}}
  BY DEF Taken
<1> QED
  BY <1>1, <1>2, <1>3, <1>4

LEMMA RowsKeptAsked ==
  ASSUME RowsKept
  PROVE  /\ NoNewRow => Asked' = Asked
         /\ \A d \in Cids : OnlyNew(d) => Asked' = Asked \cup {<<d, OrderOf(orders'[d])>>}
<1>1. \A c \in Cids : HasRow(c) => HasRow(c)' /\ OrderOf(orders'[c]) = OrderOf(orders[c])
  BY SameOrderOf DEF RowsKept
<1>2. Asked' = {<<c, OrderOf(orders'[c])>> : c \in {d \in Cids : HasRow(d)'}}
  BY DEF Asked, OrderOf
<1>3. Asked = {<<c, OrderOf(orders[c])>> : c \in {d \in Cids : HasRow(d)}}
  BY DEF Asked
<1>4. NoNewRow => Asked' = Asked
  BY <1>1, <1>2, <1>3 DEF NoNewRow
<1>5. ASSUME NEW d \in Cids, OnlyNew(d)
      PROVE  Asked' = Asked \cup {<<d, OrderOf(orders'[d])>>}
  <2>1. \A c \in Cids : HasRow(c)' <=> HasRow(c) \/ c = d
    BY <1>1, <1>5 DEF OnlyNew
  <2> QED
    BY <1>1, <1>2, <1>3, <2>1
<1> QED
  BY <1>4, <1>5

LEMMA OrderOfType ==
  ASSUME NEW o, o.side \in Sides, o.qty \in Nat, o.reduce \in BOOLEAN
  PROVE  OrderOf(o) \in OrderKinds
BY DEF OrderOf, OrderKinds

\* A step that asks for an order, one that lets the venue take one, and the rest.
LEMMA StepIsLedgerStep ==
  ASSUME IInv, IInv', RowsKept, [Next]_vars
  PROVE  [Ledger!LedgerNext]_(Ledger!ledger)
<1>1. RouterTypeOK /\ RouterInv /\ TypeOK /\ RouterTypeOK'
  BY DEF IInv, TypeOK
<1>2. NoNewRow \/ \E d \in Cids : OnlyNew(d)
  BY <1>1, NextIsRouterStep, RouterStepAddsOneRow
<1>3. CASE VenueKept /\ NoNewRow
  BY <1>3, VenueKeptTaken, RowsKeptAsked DEF Ledger!ledger
<1>4. ASSUME VenueKept, NEW d \in Cids, OnlyNew(d) PROVE Ledger!LedgerNext
  <2> DEFINE p == <<d, OrderOf(orders'[d])>>
  <2>1. Taken' = Taken /\ Asked' = Asked \cup {p}
    BY <1>4, VenueKeptTaken, RowsKeptAsked
  <2>2. orders'[d] \in OrderRows
    BY <1>1 DEF RouterTypeOK
  <2>3. p \in Cids \X OrderKinds
    BY <2>2, OrderOfType DEF OrderRows
  <2>4. \A q \in Asked : q[1] # d
    BY <1>4 DEF Asked, OnlyNew
  <2>5. Ledger!Ask(p)
    BY <2>1, <2>3, <2>4 DEF Ledger!Ask
  <2> QED
    BY <2>1, <2>5 DEF Ledger!LedgerNext
<1>5. ASSUME NEW m \in net, Arrive(m), vord[m.cid].status = "none" PROVE Ledger!LedgerNext
  <2> DEFINE c == m.cid
             p == <<c, OrderOf(m)>>
  <2>1. c \in Cids /\ HasRow(c) /\ SameOrder(m, orders[c])
    BY <1>1 DEF IInv, RowsBeforeSends, HasRow
  <2>2. UNCHANGED orders
    BY <1>5 DEF Arrive, routerVars
  <2>3. Asked' = Asked
    BY <2>2 DEF Asked, HasRow, OrderOf
  <2>4. OrderOf(m) = OrderOf(orders[c])
    BY <2>1, SameOrderOf
  <2>5. p \in Asked
    BY <2>1, <2>4 DEF Asked
  <2>6. p \notin Taken
    BY <1>5 DEF Taken
  <2>7. /\ vord'[c].status # "none" /\ OrderOf(vord'[c]) = OrderOf(m)
        /\ \A d \in Cids : d # c => vord'[d] = vord[d]
    BY <1>1, <1>5, <2>1 DEF Arrive, TypeOK, OrderOf
  <2>8. Taken' = {<<d, OrderOf(vord'[d])>> : d \in {e \in Cids : vord'[e].status # "none"}}
    BY DEF Taken, OrderOf
  <2>9. Taken' = Taken \cup {p}
    <3>1. \A d \in Cids : vord'[d].status # "none" <=> vord[d].status # "none" \/ d = c
      BY <2>7
    <3>2. Taken = {<<d, OrderOf(vord[d])>> : d \in {e \in Cids : vord[e].status # "none"}}
      BY DEF Taken
    <3>3. vord[c].status = "none"
      BY <1>5
    <3> HIDE DEF c
    <3> QED
      BY <2>1, <2>7, <2>8, <3>1, <3>2, <3>3
  <2>10. Ledger!Take(p)
    BY <2>3, <2>5, <2>6, <2>9 DEF Ledger!Take
  <2> QED
    BY <2>3, <2>5, <2>10 DEF Ledger!LedgerNext
<1> QED
  BY <1>2, <1>3, <1>4, <1>5, VenueStepsKeep

\* The live trader implements OrderLedger: whatever is retried, lost, late or cut
\* short by a death, an id names one order, which is in the database before the
\* venue has it and which the venue takes at most once.
THEOREM ImplementsLedger == Spec => LedgerKept
<1>1. Init => Ledger!LedgerInit
  BY DEF Init, RouterInit, Ledger!LedgerInit, Asked, Taken, HasRow, NoOrder, NotSeen
<1>2. IInv /\ [Next]_vars => [Ledger!LedgerNext]_(Ledger!ledger)
  BY StepIInv, StepIsLedgerStep
<1> QED
  BY <1>1, <1>2, Invariant, PTL DEF Spec, LedgerKept, Ledger!LedgerSpec
=============================================================================
