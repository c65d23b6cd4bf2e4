----------------------------- MODULE SimProofs ------------------------------
(***************************************************************************)
(* Safety of the paper trader for every MaxSeq, MaxQty, MaxCrash, MaxFires *)
(* and Kills, and that its account is a PositionCycle.                     *)
(*                                                                         *)
(* Everything rests on what the event queue owes the router (Books): there *)
(* is nothing in it, or one fill, or two, the exit of a shutdown() queued  *)
(* behind an entry that the pump has not delivered; and the account is     *)
(* ahead of the router by exactly their sum.  SimExecutor never refuses an *)
(* order, never lets one rest and answers every call at once, which is why *)
(* the rest of Router (retries, adoption, late fills) is out of reach      *)
(* (Reached).  Sound adds the router's own invariant, from RouterProofs.   *)
(* Three more invariants are inductive on top of it: Guarded (stops),      *)
(* Believed (the strategy) and HaltKept (halts).                           *)
(***************************************************************************)
EXTENDS SimHalt, RouterProofs, SequenceTheorems

USE DEF Frozen, Pending, States, GaveUp, Terminal, InFlight, Statuses, Sides, Stops
USE DEF SnapshotPcs, PlacePcs, CancelPcs, Pcs, Starting

-----------------------------------------------------------------------------
(* Short queues.                                                            *)

LEMMA HeadAndTail ==
  ASSUME NEW a, NEW b, NEW c, NEW d
  PROVE  /\ Head(<<a>>) = a /\ Tail(<<a>>) = <<>>
         /\ Head(<<a, b>>) = a /\ Tail(<<a, b>>) = <<b>>
         /\ Head(<<a, b, c>>) = a /\ Tail(<<a, b, c>>) = <<b, c>>
         /\ Head(<<a, b, c, d>>) = a /\ Tail(<<a, b, c, d>>) = <<b, c, d>>
OBVIOUS

LEMMA Lengths ==
  ASSUME NEW a, NEW b, NEW c, NEW d
  PROVE  /\ <<a>> # <<>> /\ <<a, b>> # <<>> /\ <<a, b, c>> # <<>> /\ <<a, b, c, d>> # <<>>
         /\ Len(<<a>>) = 1 /\ Len(<<a, b>>) = 2 /\ Len(<<a, b, c>>) = 3 /\ Len(<<a, b, c, d>>) = 4
OBVIOUS

LEMMA Concatenated ==
  ASSUME NEW a, NEW b, NEW c
  PROVE  /\ <<>> \o <<a, b>> = <<a, b>>
         /\ <<a>> \o <<b, c>> = <<a, b, c>>
<1> DEFINE S == {a, b, c}
           three == <<a>> \o <<b, c>>
<1>0. a \in S /\ b \in S /\ c \in S
  OBVIOUS
<1> HIDE DEF S
<1>1. /\ <<>> \in Seq(S) /\ <<a>> \in Seq(S) /\ <<a, b>> \in Seq(S) /\ <<b, c>> \in Seq(S)
      /\ <<a, b, c>> \in Seq(S)
  BY <1>0
<1>2. <<>> \o <<a, b>> = <<a, b>>
  BY <1>1, ConcatEmptySeq
<1>3. three \in Seq(S) /\ Len(three) = 3 /\ three[1] = a /\ three[2] = b /\ three[3] = c
  <2>1. Len(<<a>>) = 1 /\ Len(<<b, c>>) = 2
    OBVIOUS
  <2>2. \A i \in 1..3 : three[i] = IF i <= 1 THEN <<a>>[i] ELSE <<b, c>>[i - 1]
    BY <1>1, <2>1, ConcatProperties
  <2>3. three \in Seq(S) /\ Len(three) = 3
    BY <1>1, <2>1, ConcatProperties
  <2> HIDE DEF three
  <2> QED
    BY <2>2, <2>3
<1> HIDE DEF three
<1>4. \A i \in 1..3 : three[i] = <<a, b, c>>[i]
  BY <1>3
<1>5. three = <<a, b, c>>
  BY <1>1, <1>3, <1>4, SeqEqual
<1> QED
  BY <1>2, <1>5 DEF three

LEMMA ConcatenatedFour ==
  ASSUME NEW a, NEW b, NEW c, NEW d
  PROVE  <<a, b>> \o <<c, d>> = <<a, b, c, d>>
<1> DEFINE S == {a, b, c, d}
           four == <<a, b>> \o <<c, d>>
<1>0. a \in S /\ b \in S /\ c \in S /\ d \in S
  OBVIOUS
<1> HIDE DEF S
<1>1. <<a, b>> \in Seq(S) /\ <<c, d>> \in Seq(S) /\ <<a, b, c, d>> \in Seq(S)
  BY <1>0
<1>2. four \in Seq(S) /\ Len(four) = 4 /\ four[1] = a /\ four[2] = b /\ four[3] = c /\ four[4] = d
  <2>1. Len(<<a, b>>) = 2 /\ Len(<<c, d>>) = 2
    OBVIOUS
  <2>2. \A i \in 1..4 : four[i] = IF i <= 2 THEN <<a, b>>[i] ELSE <<c, d>>[i - 2]
    BY <1>1, <2>1, ConcatProperties
  <2>3. four \in Seq(S) /\ Len(four) = 4
    BY <1>1, <2>1, ConcatProperties
  <2> HIDE DEF four
  <2> QED
    BY <2>2, <2>3
<1> HIDE DEF four
<1>3. \A i \in 1..4 : four[i] = <<a, b, c, d>>[i]
  BY <1>2
<1>4. four = <<a, b, c, d>>
  BY <1>1, <1>2, <1>3, SeqEqual
<1> QED
  BY <1>4 DEF four

-----------------------------------------------------------------------------
(* The invariant.                                                           *)

\* The two events of a filled order.
Update(c, s, k) == [kind |-> "update", cid |-> c, side |-> s, qty |-> k]
Fill(c, s, k)   == [kind |-> "fill",   cid |-> c, side |-> s, qty |-> k]

SimTypeOK ==
  /\ pos \in Int /\ vstop \in Stops /\ side \in Targets
  /\ crashes \in 0..MaxCrash /\ fires \in 0..MaxFires

\* Before the loops run.
Booting == Starting \/ pc \in {"recover_place", "recover_orders", "recovered"}

\* No order is given up on, so nothing is adopted and no fill comes late.
Reached ==
  /\ pc \notin {"landed_snap", "landed", "late_snap", "err_snap", "adopt", "adopt_place",
                "adopted", "settle_cancel"}
  /\ loc.why = "none"
  /\ \A c \in Cids : orders[c].status \notin GaveUp

\* A handler's snapshot is still the account: only submit() and a stop that
\* fires move the position, and no handler reads its snapshot after a submit.
ReadTrue ==
  /\ pc \in {"recover", "bar", "check_pending", "on_fast", "missing_stop", "missing_place", "size"} =>
       loc.snap.pos = pos
  /\ pc = "recover" => loc.snap.stop = vstop
  /\ pc \in {"recover", "recover_place", "recover_orders"} => loc.snap.open = {}
  /\ pc = "orphan_cancel" => pos = 0

\* The order being sent.  An exit is for what the account holds, so submit()
\* refuses nothing; an entry finds account and queue empty.
Asked == orders[loc.cid]

SendTrue ==
  /\ pc \in {"mark_pending", "submit"} /\ Asked.reduce =>
       pos # 0 /\ Asked.side = ClosingSide(pos) /\ Asked.qty = Magnitude(pos)
  /\ pc \in {"mark_pending", "submit"} /\ ~Asked.reduce =>
       queue = <<>> /\ pos = 0 /\ Asked.qty <= MaxQty
  /\ pc = "mark_pending" => IF Asked.reduce THEN rt.state # "FLAT" ELSE rt.state = "FLAT"
  /\ pc \in {"submit", "ack"} =>
       /\ rt.pend = loc.cid
       /\ rt.state = IF Asked.reduce THEN "EXIT_PENDING" ELSE "ENTRY_PENDING"

\* Nothing is queued: the router holds the account's position.
NoneDue ==
  /\ queue = <<>> /\ rt.size = pos /\ pc # "ack"
  /\ rt.state \in Pending => pc \in {"submit", "flat_cancel"}

\* The fill of order c is queued, its update perhaps before it.  The router waits
\* for it or is frozen, and one of the two ends of the order is flat.
OneDue(c, s, k) ==
  /\ queue \in {<<Fill(c, s, k)>>, <<Update(c, s, k), Fill(c, s, k)>>}
  /\ pos = rt.size + Signed(s, k)
  /\ pos = 0 \/ rt.size = 0
  /\ ~Booting /\ pc # "flat_cancel"
  /\ rt.state \in Pending \cup Frozen
  /\ pc \in {"mark_pending", "submit"} => rt.size = 0 /\ loc.closing
  /\ rt.state \in Pending /\ pc # "submit" =>
       rt.pend = c /\ (rt.state = "EXIT_PENDING" => pos = 0)

\* The entry c is queued, and the exit d by which shutdown() flattened it: both
\* ends are flat, and the router is frozen or about to be.
TwoDue(c, s, k, d, t, m) ==
  /\ queue \in {<<Fill(c, s, k), Update(d, t, m), Fill(d, t, m)>>,
                <<Update(c, s, k), Fill(c, s, k), Update(d, t, m), Fill(d, t, m)>>}
  /\ rt.size = 0 /\ pos = 0
  /\ Signed(s, k) # 0 /\ Signed(t, m) = -Signed(s, k)
  /\ ~Booting /\ pc \notin {"flat_cancel", "mark_pending", "submit"}
  /\ \/ rt.state \in Frozen
     \/ rt.state = "EXIT_PENDING" /\ pc \in {"ack", "halt_closed"}
  /\ pc = "ack" => d = loc.cid /\ loc.closing

\* A process that has not recovered yet has no queue; any other has at most two
\* orders in it.
Books ==
  IF Starting THEN queue = <<>>
  ELSE \/ NoneDue
       \/ \E c \in Cids, s \in Sides, k \in Nat : OneDue(c, s, k)
       \/ \E c, d \in Cids, s, t \in Sides, k, m \in Nat : TwoDue(c, s, k, d, t, m)

BookInv == SimTypeOK /\ Reached /\ ReadTrue /\ SendTrue /\ Books

-----------------------------------------------------------------------------
(* What the router's actions do, field by field.                            *)

LEMMA WriteOrderDoes ==
  ASSUME RouterTypeOK, NEW s \in Sides, NEW q \in Nat, NEW red \in BOOLEAN, NEW cl \in BOOLEAN,
         WriteOrder(s, q, red, cl)
  PROVE  /\ rt'.state = rt.state /\ rt'.size = rt.size /\ rt'.stop = rt.stop /\ rt'.pend = rt.pend
         /\ row' = row /\ pc' = "mark_pending"
         /\ loc'.cid \in Cids /\ loc'.closing = cl /\ loc'.why = "none"
         /\ orders'[loc'.cid].side = s /\ orders'[loc'.cid].qty = q /\ orders'[loc'.cid].reduce = red
         /\ \A c \in Cids : orders'[c].status \in {orders[c].status, "submitting"}
<1> DEFINE c == rt.seq + 1
           o == [side |-> s, qty |-> q, reduce |-> red, status |-> "submitting", filled |-> 0]
<1>1. c \in Cids
  BY RouterAssumption DEF RouterTypeOK, Routers, WriteOrder, Cids
<1>2. loc'.cid = c /\ loc'.closing = cl /\ loc'.why = "none"
  BY DEF WriteOrder, NoLocals
<1>3. /\ rt'.state = rt.state /\ rt'.size = rt.size /\ rt'.stop = rt.stop /\ rt'.pend = rt.pend
      /\ row' = row /\ pc' = "mark_pending"
  BY DEF WriteOrder, RouterTypeOK, Routers
<1>4. orders' = [orders EXCEPT ![c] = o]
  BY DEF WriteOrder
<1>5. \A d \in Cids : orders'[d] = IF d = c THEN o ELSE orders[d]
  <2> HIDE DEF o, c
  <2> QED
    BY <1>4 DEF RouterTypeOK
<1> QED
  BY <1>1, <1>2, <1>3, <1>5

LEMMA WriteExitDoes ==
  ASSUME RouterTypeOK, NEW n \in Int, NEW cl \in BOOLEAN, WriteExit(n, cl)
  PROVE  /\ rt'.state = rt.state /\ rt'.size = rt.size /\ rt'.stop = rt.stop /\ rt'.pend = rt.pend
         /\ row' = row /\ pc' = "mark_pending"
         /\ loc'.cid \in Cids /\ loc'.closing = cl /\ loc'.why = "none"
         /\ orders'[loc'.cid].side = ClosingSide(n) /\ orders'[loc'.cid].qty = Magnitude(n)
         /\ orders'[loc'.cid].reduce = TRUE
         /\ \A c \in Cids : orders'[c].status \in {orders[c].status, "submitting"}
<1>1. ClosingSide(n) \in Sides /\ Magnitude(n) \in Nat
  BY DEF ClosingSide, Magnitude
<1>2. WriteOrder(ClosingSide(n), Magnitude(n), TRUE, cl)
  BY DEF WriteExit
<1> HIDE DEF Sides
<1> QED
  BY <1>1, <1>2, WriteOrderDoes

LEMMA MarkPendingDoes ==
  ASSUME RouterTypeOK, RouterInv, MarkPending
  PROVE  /\ rt'.size = rt.size /\ rt'.stop = rt.stop /\ rt'.pend = loc.cid
         /\ rt'.state = IF orders[loc.cid].reduce THEN "EXIT_PENDING" ELSE "ENTRY_PENDING"
         /\ row'.state = rt'.state /\ pc' = "submit" /\ orders' = orders
         /\ loc'.cid = loc.cid /\ loc'.closing = loc.closing /\ loc'.why = loc.why
         /\ loc'.snap = loc.snap /\ loc.cid \in Cids
<1> DEFINE st == IF orders[loc.cid].reduce THEN "EXIT_PENDING" ELSE "ENTRY_PENDING"
           a == [rt EXCEPT !.pend = loc.cid]
           b == [a EXCEPT !.state = st]
           f == [loc EXCEPT !.prior = rt.state]
           g == [f EXCEPT !.before = rt.size]
           h == [g EXCEPT !.att = 1]
<1>1. loc.cid \in Cids
  BY DEF MarkPending, HasRow, RouterInv, SendingHasRow, Sending
<1>2. rt' = b /\ row' = Image(b) /\ loc' = h /\ pc' = "submit" /\ orders' = orders
  BY DEF MarkPending, Commit
<1>3. b.size = rt.size /\ b.stop = rt.stop /\ b.pend = loc.cid /\ b.state = st
  <2> HIDE DEF st
  <2> QED
    BY DEF RouterTypeOK, Routers
<1>4. h.cid = loc.cid /\ h.closing = loc.closing /\ h.why = loc.why /\ h.snap = loc.snap
  BY DEF RouterTypeOK, Locals
<1> HIDE DEF b, h
<1> QED
  BY <1>1, <1>2, <1>3, <1>4 DEF Image

LEMMA AcceptedDoes ==
  ASSUME RouterTypeOK, RouterInv, AckAccepted
  PROVE  /\ rt' = rt /\ row' = row /\ loc' = NoLocals
         /\ pc' = IF loc.closing THEN "halt_closed" ELSE "idle"
         /\ \A c \in Cids : orders'[c].status \in {orders[c].status, "accepted"}
<1>1. /\ rt' = rt /\ row' = row /\ loc' = NoLocals /\ pc = "ack"
      /\ pc' = IF loc.closing THEN "halt_closed" ELSE "idle"
      /\ orders' = WithStatusUnlessTerminal(loc.cid, "accepted")
  BY DEF AckAccepted, OrderAccepted, SendReturns
<1>2. \A c \in Cids : orders'[c].status \in {orders[c].status, "accepted"}
  BY <1>1 DEF WithStatusUnlessTerminal, RouterTypeOK, OrderRows
<1> QED
  BY <1>1, <1>2

\* A fill that brings the router's size to n, of an order nobody gave up on.
FillResult(c, n) ==
  /\ pc = "idle" /\ loc' = loc /\ rt'.size = n
  /\ \A d \in Cids : orders'[d].status \notin GaveUp
  /\ row'.state = rt'.state
  /\ n = 0 => /\ pc' = "flat_cancel" /\ rt'.state = rt.state
              /\ rt'.stop = "none" /\ rt'.pend = NoCid
  /\ n # 0 /\ rt.state = "ENTRY_PENDING" /\ c = rt.pend =>
       pc' = "replace_stop" /\ rt'.state = "OPEN" /\ rt'.pend = NoCid
  /\ n # 0 /\ rt.state \in Frozen =>
       pc' = "replace_stop" /\ rt'.state = rt.state /\ rt'.pend = rt.pend
  /\ n # 0 /\ rt.state = "FLAT" => pc' = "replace_stop" /\ rt'.state = "OPEN"
  /\ n # 0 /\ rt.state = "ENTRY_PENDING" /\ c # rt.pend =>
       pc' = "idle" /\ rt'.state = rt.state /\ rt'.pend = rt.pend /\ rt'.stop = rt.stop

LEMMA FillDoes ==
  ASSUME RouterTypeOK, NEW c, NEW s \in Sides, NEW q \in Nat, OnFill(c, s, q), Reached,
         NEW n, n = rt.size + Signed(s, q)
  PROVE  FillResult(c, n)
<1> DEFINE r == [rt EXCEPT !.size = n]
<1>0. n \in Int /\ rt.state \in States
  BY DEF Signed, RouterTypeOK, Routers
<1>1. ~IsLateFill(c)
  BY DEF Reached, IsLateFill, HasRow
<1>2. ApplyFill(c, s, q) /\ pc = "idle" /\ loc' = loc
  BY <1>1 DEF OnFill, LateFill, ApplyFill
<1>3. \A d \in Cids : orders'[d].status \notin GaveUp
  <2>1. orders' = IF HasRow(c) THEN RecordFill(c, q) ELSE orders
    BY <1>2 DEF ApplyFill
  <2>2. CASE ~HasRow(c)
    BY <2>1, <2>2 DEF Reached
  <2>3. CASE HasRow(c)
    <3> DEFINE fill == orders[c].filled + q
               st == IF orders[c].status \in Terminal THEN orders[c].status
                     ELSE IF fill >= orders[c].qty THEN "filled" ELSE "partial"
               o1 == [orders[c] EXCEPT !.filled = fill]
               o2 == [o1 EXCEPT !.status = st]
    <3>1. c \in Cids /\ orders[c] \in OrderRows
      BY <2>3 DEF HasRow, RouterTypeOK
    <3>2. o1.status = orders[c].status
      BY <3>1 DEF OrderRows
    <3>3. o2.status = st
      BY <3>1 DEF OrderRows
    <3>4. orders' = [orders EXCEPT ![c] = o2]
      <4>1. orders' = RecordFill(c, q)
        BY <2>1, <2>3
      <4> QED
        BY <3>1, <3>2, <4>1 DEF RecordFill, RouterTypeOK
    <3>5. st \notin GaveUp
      BY <3>1 DEF Reached
    <3> HIDE DEF o2, st
    <3> QED
      BY <3>1, <3>3, <3>4, <3>5 DEF RouterTypeOK, Reached
  <2> QED
    BY <2>2, <2>3
<1>4. /\ r \in Routers /\ r.size = n /\ r.state = rt.state /\ r.pend = rt.pend /\ r.stop = rt.stop
  BY <1>0 DEF RouterTypeOK, Routers
<1>5. n = 0 => FillCase(c, n) = "flat"
  BY DEF FillCase
<1>6. n # 0 /\ rt.state = "ENTRY_PENDING" /\ c = rt.pend => FillCase(c, n) = "entered"
  BY DEF FillCase
<1>7. n # 0 /\ rt.state \in Frozen => FillCase(c, n) = "frozen"
  BY DEF FillCase
<1>8. n # 0 /\ rt.state = "FLAT" => FillCase(c, n) = "unexpected"
  BY DEF FillCase
<1>9. n # 0 /\ rt.state = "ENTRY_PENDING" /\ c # rt.pend => FillCase(c, n) = "later"
  BY DEF FillCase
<1>9a. FillCase(c, n) \in {"flat", "entered", "frozen", "unexpected", "later"}
  BY DEF FillCase
<1>10. \/ FillCase(c, n) = "entered" /\ Commit([r EXCEPT !.state = "OPEN", !.pend = NoCid]) /\ pc' = "replace_stop"
       \/ FillCase(c, n) = "frozen" /\ Commit(r) /\ pc' = "replace_stop"
       \/ FillCase(c, n) = "unexpected" /\ Commit([r EXCEPT !.state = "OPEN"]) /\ pc' = "replace_stop"
       \/ FillCase(c, n) = "later" /\ Commit(r) /\ pc' = pc
       \/ FillCase(c, n) = "flat" /\ rt' = [r EXCEPT !.pend = NoCid, !.stop = "none"] /\ row' = Image(r)
                         /\ pc' = "flat_cancel"
  BY <1>2 DEF ApplyFill
<1> HIDE DEF r
<1>11. CASE FillCase(c, n) = "entered"
  <2> DEFINE e == [[r EXCEPT !.state = "OPEN"] EXCEPT !.pend = NoCid]
  <2>1. e.state = "OPEN" /\ e.pend = NoCid /\ e.size = n /\ e.stop = rt.stop
    BY <1>4 DEF Routers
  <2>2. rt' = e /\ row' = Image(e) /\ pc' = "replace_stop"
    BY <1>10, <1>11 DEF Commit
  <2> HIDE DEF e
  <2> QED
    BY <1>0, <1>2, <1>3, <1>5, <1>6, <1>7, <1>8, <1>9, <1>11, <2>1, <2>2 DEF Image, FillResult
<1>12. CASE FillCase(c, n) = "unexpected"
  <2> DEFINE e == [r EXCEPT !.state = "OPEN"]
  <2>1. e.state = "OPEN" /\ e.pend = rt.pend /\ e.size = n /\ e.stop = rt.stop
    BY <1>4 DEF Routers
  <2>2. rt' = e /\ row' = Image(e) /\ pc' = "replace_stop"
    BY <1>10, <1>12 DEF Commit
  <2> HIDE DEF e
  <2> QED
    BY <1>0, <1>2, <1>3, <1>5, <1>6, <1>7, <1>8, <1>9, <1>12, <2>1, <2>2 DEF Image, FillResult
<1>13. CASE FillCase(c, n) = "flat"
  <2> DEFINE e == [[r EXCEPT !.pend = NoCid] EXCEPT !.stop = "none"]
  <2>1. e.state = rt.state /\ e.pend = NoCid /\ e.size = n /\ e.stop = "none"
    BY <1>4 DEF Routers
  <2>2. rt' = e /\ row' = Image(r) /\ pc' = "flat_cancel"
    BY <1>10, <1>13
  <2> HIDE DEF e
  <2> QED
    BY <1>0, <1>2, <1>3, <1>4, <1>5, <1>6, <1>7, <1>8, <1>9, <1>13, <2>1, <2>2 DEF Image, FillResult
<1>14. CASE FillCase(c, n) \in {"frozen", "later"}
  <2>1. rt' = r /\ row' = Image(r)
    BY <1>10, <1>14 DEF Commit
  <2>2. pc' = IF FillCase(c, n) = "later" THEN "idle" ELSE "replace_stop"
    BY <1>2, <1>10, <1>14
  <2> QED
    BY <1>0, <1>2, <1>3, <1>4, <1>5, <1>6, <1>7, <1>8, <1>9, <1>14, <2>1, <2>2 DEF Image, FillResult
<1> QED
  BY <1>9a, <1>11, <1>12, <1>13, <1>14

LEMMA UpdateDoes ==
  ASSUME RouterTypeOK, NEW c, OnOrderUpdate(c, "filled")
  PROVE  /\ pc = "idle" /\ pc' = "idle" /\ rt' = rt /\ row' = row /\ loc' = loc
         /\ \A d \in Cids : orders'[d].status \in {orders[d].status, "filled"}
<1>1. /\ pc = "idle" /\ pc' = "idle" /\ rt' = rt /\ row' = row /\ loc' = loc
      /\ orders' = IF HasRow(c) THEN WithStatusUnlessTerminal(c, "filled") ELSE orders
  BY DEF OnOrderUpdate
<1>2. \A d \in Cids : orders'[d].status \in {orders[d].status, "filled"}
  BY <1>1 DEF WithStatusUnlessTerminal, RouterTypeOK, OrderRows, HasRow
<1> QED
  BY <1>1, <1>2

LEMMA PlacedDoes ==
  ASSUME RouterTypeOK, StopPlaced
  PROVE  /\ rt'.state = rt.state /\ rt'.size = rt.size /\ rt'.pend = rt.pend
         /\ rt'.stop = WantedStop /\ row'.state = rt.state
         /\ WantedStop \in {"long", "short"} /\ orders' = orders
         /\ pc = "replace_stop" => pc' = "idle" /\ loc' = NoLocals
         /\ pc = "missing_place" => pc' = "size" /\ loc' = loc
         /\ pc = "recover_place" => pc' = "recover_orders" /\ loc' = loc
<1> DEFINE w == WantedStop
           e == [rt EXCEPT !.stop = w]
<1>1. w \in {"long", "short"}
  BY DEF WantedStop, Guarding
<1>2. /\ rt' = e /\ row' = Image(e) /\ orders' = orders
  BY DEF StopPlaced, Commit
<1>3. /\ pc = "replace_stop" => pc' = "idle" /\ loc' = NoLocals
      /\ pc = "missing_place" => pc' = "size" /\ loc' = loc
      /\ pc = "recover_place" => pc' = "recover_orders" /\ loc' = loc
  BY DEF StopPlaced, Idle
<1>4. e.state = rt.state /\ e.size = rt.size /\ e.pend = rt.pend /\ e.stop = w
  <2> HIDE DEF w
  <2> QED
    BY DEF RouterTypeOK, Routers
<1> HIDE DEF e
<1> QED
  BY <1>1, <1>2, <1>3, <1>4 DEF Image

LEMMA CancelledDoes ==
  ASSUME RouterTypeOK, StopCancelled
  PROVE  /\ orders' = orders
         /\ pc = "flat_cancel" =>
              /\ rt'.state = (IF rt.state \in Frozen THEN rt.state ELSE "FLAT")
              /\ row'.state = rt'.state /\ rt'.size = rt.size /\ rt'.pend = rt.pend
              /\ rt'.stop = rt.stop /\ pc' = "idle" /\ loc' = NoLocals
         /\ pc = "orphan_cancel" => rt' = rt /\ row' = row /\ loc' = loc /\ pc' = "unknown_orders"
<1>1. orders' = orders
  BY DEF StopCancelled
<1>2. CASE pc = "flat_cancel"
  <2> DEFINE st == Unfrozen("FLAT")
             e == [rt EXCEPT !.state = st]
  <2>1. rt' = e /\ row' = Image(e) /\ pc' = "idle" /\ loc' = NoLocals
    BY <1>2 DEF StopCancelled, Commit, Idle
  <2>2. st = IF rt.state \in Frozen THEN rt.state ELSE "FLAT"
    BY DEF Unfrozen
  <2>3. e.state = st /\ e.size = rt.size /\ e.pend = rt.pend /\ e.stop = rt.stop
    <3> HIDE DEF st
    <3> QED
      BY DEF RouterTypeOK, Routers
  <2> HIDE DEF e, st
  <2> QED
    BY <1>1, <1>2, <2>1, <2>2, <2>3 DEF Image
<1>3. CASE pc = "orphan_cancel"
  BY <1>1, <1>3 DEF StopCancelled
<1> QED
  BY <1>1, <1>2, <1>3

LEMMA CommitStateDoes ==
  ASSUME RouterTypeOK, NEW st \in States, Commit([rt EXCEPT !.state = st])
  PROVE  /\ rt'.state = st /\ rt'.size = rt.size /\ rt'.stop = rt.stop /\ rt'.pend = rt.pend
         /\ row'.state = st
<1> DEFINE e == [rt EXCEPT !.state = st]
<1>1. e.state = st /\ e.size = rt.size /\ e.stop = rt.stop /\ e.pend = rt.pend
  BY DEF RouterTypeOK, Routers
<1>2. rt' = e /\ row' = Image(e)
  BY DEF Commit
<1> HIDE DEF e
<1> QED
  BY <1>1, <1>2 DEF Image

LEMMA RecoverDoes ==
  ASSUME RouterTypeOK, Recover
  PROVE  /\ pc = "recover" /\ orders' = orders
         /\ loc'.why = loc.why /\ loc'.snap = loc.snap
         /\ rt'.size = loc.snap.pos /\ rt'.pend = NoCid
         /\ rt'.state = IF row.state \in Frozen THEN row.state ELSE Settled(loc.snap.pos)
         /\ IF loc.snap.pos # 0 /\ loc.snap.stop = "none"
              THEN pc' = "recover_place" /\ row' = row
              ELSE pc' = "recover_orders" /\ row'.state = rt'.state
         /\ loc.snap.pos # 0 => rt'.stop = loc.snap.stop
<1>1. PICK n \in 0..MaxSeq :
        IF loc.snap.pos # 0 /\ loc.snap.stop = "none"
          THEN rt' = RecoveredRouter(n) /\ pc' = "recover_place" /\ UNCHANGED row
          ELSE Commit(RecoveredRouter(n)) /\ pc' = "recover_orders"
  BY DEF Recover
<1>2. /\ RecoveredRouter(n).size = loc.snap.pos /\ RecoveredRouter(n).pend = NoCid
      /\ RecoveredRouter(n).state = IF row.state \in Frozen THEN row.state ELSE Settled(loc.snap.pos)
      /\ RecoveredRouter(n).stop = IF loc.snap.pos = 0 THEN "none" ELSE loc.snap.stop
  BY DEF RecoveredRouter
<1>3. pc = "recover" /\ orders' = orders /\ loc'.why = loc.why /\ loc'.snap = loc.snap
  BY DEF Recover, RouterTypeOK, Locals
<1>4. rt' = RecoveredRouter(n)
  BY <1>1 DEF Commit
<1>5. ~(loc.snap.pos # 0 /\ loc.snap.stop = "none") => row'.state = RecoveredRouter(n).state
  BY <1>1 DEF Commit, Image
<1> QED
  BY <1>1, <1>2, <1>3, <1>4, <1>5

LEMMA RecoverOrdersDoes ==
  ASSUME RouterTypeOK, RecoverOrders, loc.snap.open = {}
  PROVE  /\ pc = "recover_orders" /\ pc' = "recovered" /\ rt' = rt /\ row' = row /\ loc' = NoLocals
         /\ \A c \in Cids : orders'[c].status \in {orders[c].status, "abandoned"}
<1> DEFINE inflight == {c \in Cids : orders[c].status \in InFlight}
<1>1. pc = "recover_orders" /\ pc' = "recovered" /\ rt' = rt /\ row' = row /\ loc' = NoLocals
  BY DEF RecoverOrders
<1>2. orders' = [c \in Cids |-> IF c \in inflight THEN [orders[c] EXCEPT !.status = "abandoned"]
                                ELSE orders[c]]
  BY DEF RecoverOrders
<1>3. \A c \in Cids : orders'[c].status \in {orders[c].status, "abandoned"}
  BY <1>2 DEF RouterTypeOK, OrderRows
<1> QED
  BY <1>1, <1>3

-----------------------------------------------------------------------------
(* What the invariant says of a router that is not waiting for anything.    *)

Sound == RouterTypeOK /\ RouterInv /\ BookInv

LEMMA SettledNothingDue ==
  ASSUME BookInv, ~Starting, rt.state \in {"OPEN", "FLAT"}
  PROVE  NoneDue
BY DEF BookInv, Books, OneDue, TwoDue

\* A position the router has not been told of is an order that fills from flat.
LEMMA HeldNotTwoDue ==
  ASSUME BookInv, ~Starting, pos # 0
  PROVE  NoneDue \/ \E c \in Cids, s \in Sides, k \in Nat : OneDue(c, s, k)
BY DEF BookInv, Books, TwoDue

LEMMA PosEqualsSize ==
  ASSUME RouterTypeOK, RouterInv, BookInv, pc = "bar" \/ pc = "on_fast" \/ pc = "size",
         rt.state \in {"OPEN", "FLAT"}
  PROVE  rt.size = pos /\ loc.snap.pos = pos /\ queue = <<>>
         /\ (rt.state = "FLAT" <=> pos = 0)
<1>1. NoneDue
  BY SettledNothingDue
<1>2. rt.state = "FLAT" <=> rt.size = 0
  BY DEF RouterInv, SizeKnown, Unsettled
<1> QED
  BY <1>1, <1>2 DEF NoneDue, BookInv, ReadTrue

-----------------------------------------------------------------------------
(* Frames.                                                                  *)

\* A step between two points where nothing is being sent or settled.
Calm == pc \notin {"mark_pending", "submit", "ack", "halt_closed", "flat_cancel"}

LEMMA BooksFrame ==
  ASSUME Books, ~Starting, ~Starting', Calm, Calm', Booting' => Booting,
         UNCHANGED <<queue, pos>>,
         rt'.size = rt.size, rt'.pend = rt.pend,
         rt'.state = rt.state \/ rt'.state = "HALTED"
  PROVE  Books'
<1>1. CASE NoneDue
  <2>1. NoneDue'
    BY <1>1 DEF NoneDue, Calm
  <2> QED
    BY <2>1 DEF Books
<1>2. CASE \E c \in Cids, s \in Sides, k \in Nat : OneDue(c, s, k)
  <2>1. PICK c \in Cids, s \in Sides, k \in Nat : OneDue(c, s, k)
    BY <1>2
  <2>2. OneDue(c, s, k)'
    BY <2>1 DEF OneDue, Calm, Update, Fill
  <2> QED
    BY <2>2 DEF Books
<1>3. CASE \E c, d \in Cids, s, t \in Sides, k, m \in Nat : TwoDue(c, s, k, d, t, m)
  <2>1. PICK c \in Cids, d \in Cids, s \in Sides, t \in Sides, k \in Nat, m \in Nat :
               TwoDue(c, s, k, d, t, m)
    BY <1>3
  <2>2. TwoDue(c, s, k, d, t, m)'
    BY <2>1 DEF TwoDue, Calm, Update, Fill
  <2> QED
    BY <2>2 DEF Books
<1> QED
  BY <1>1, <1>2, <1>3 DEF Books

\* Nothing but the place of the handler, the state, the stop and the strategy's
\* side moves.
LEMMA CalmKeeps ==
  ASSUME Sound, ~Starting, ~Starting', Calm, Calm', Booting' => Booting,
         UNCHANGED <<queue, pos, crashes, fires>>, vstop' \in Stops, side' \in Targets,
         rt'.size = rt.size, rt'.pend = rt.pend,
         rt'.state = rt.state \/ rt'.state = "HALTED",
         Reached', ReadTrue'
  PROVE  BookInv'
<1>1. Books'
  BY BooksFrame DEF Sound, BookInv
<1>2. SendTrue'
  BY DEF Calm, SendTrue
<1>3. SimTypeOK'
  BY DEF Sound, BookInv, SimTypeOK
<1> QED
  BY <1>1, <1>2, <1>3 DEF BookInv

\* The process dies: the queue and the router are gone, the account stays.
LEMMA DeathKeeps ==
  ASSUME Sound, Die, queue' = <<>>, side' = 0, crashes < MaxCrash, crashes' = crashes + 1,
         pos' \in Int, vstop' \in Stops, fires' \in 0..MaxFires
  PROVE  BookInv'
<1>1. pc' = "down" /\ loc' = NoLocals /\ orders' = orders
  BY DEF Die
<1>2. SimTypeOK'
  BY SimAssumption DEF Sound, BookInv, SimTypeOK, Targets
<1>3. Reached' /\ ReadTrue' /\ SendTrue' /\ Books'
  BY <1>1, NoLocalsType DEF Sound, BookInv, Reached, ReadTrue, SendTrue, Books
<1> QED
  BY <1>2, <1>3 DEF BookInv

LEMMA SnapshotKeeps ==
  ASSUME Sound, Snapshot PROVE BookInv'
<1>1. /\ pc \in SnapshotPcs /\ pc' = AfterSnapshot(pc) /\ rt' = rt /\ orders' = orders
      /\ loc' = [loc EXCEPT !.snap = SimSnapshot] /\ UNCHANGED simVars
  BY DEF Snapshot, SnapshotReturns
<1>2. loc'.snap = SimSnapshot /\ loc'.why = loc.why
  BY <1>1 DEF Sound, RouterTypeOK, Locals
<1>3. loc'.snap.pos = pos /\ loc'.snap.stop = vstop /\ loc'.snap.open = {}
  BY <1>2 DEF SimSnapshot
<1>4. pc \in {"boot_snap", "bar_snap", "fast_snap", "rec_snap"}
  BY <1>1 DEF Sound, BookInv, Reached
<1>5. Reached' /\ ReadTrue' /\ SendTrue' /\ SimTypeOK'
  BY <1>1, <1>2, <1>3, <1>4
     DEF Sound, BookInv, Reached, ReadTrue, SendTrue, SimTypeOK, AfterSnapshot, simVars
<1>6. CASE pc = "boot_snap"
  <2>1. Books'
    BY <1>1, <1>6 DEF Sound, BookInv, Books, AfterSnapshot, simVars
  <2> QED
    BY <1>5, <2>1 DEF BookInv
<1>7. CASE pc # "boot_snap"
  <2>1. ~Starting /\ ~Starting' /\ Calm /\ Calm' /\ ~Booting'
    BY <1>1, <1>4, <1>7 DEF AfterSnapshot, Calm, Booting
  <2>2. Books'
    BY <1>1, <2>1, BooksFrame DEF Sound, BookInv, simVars
  <2> QED
    BY <1>5, <2>2 DEF BookInv
<1> QED
  BY <1>6, <1>7

-----------------------------------------------------------------------------
(* Orders.                                                                  *)

\* An exit is written for what the account holds.
LEMMA ExitKeeps ==
  ASSUME Sound, ~Booting, Calm, NEW cl \in BOOLEAN, WriteExit(pos, cl), pos # 0, rt.state # "FLAT",
         UNCHANGED <<pos, vstop, queue, crashes, fires>>, side' \in Targets,
         NoneDue \/ ((\E c \in Cids, s \in Sides, k \in Nat : OneDue(c, s, k)) /\ cl)
  PROVE  BookInv'
<1>0. pos \in Int /\ SimTypeOK'
  BY DEF Sound, BookInv, SimTypeOK
<1>1. /\ rt'.state = rt.state /\ rt'.size = rt.size /\ rt'.stop = rt.stop /\ rt'.pend = rt.pend
      /\ pc' = "mark_pending"
      /\ loc'.cid \in Cids /\ loc'.closing = cl /\ loc'.why = "none"
      /\ orders'[loc'.cid].side = ClosingSide(pos) /\ orders'[loc'.cid].qty = Magnitude(pos)
      /\ orders'[loc'.cid].reduce = TRUE
      /\ \A c \in Cids : orders'[c].status \in {orders[c].status, "submitting"}
  BY <1>0, WriteExitDoes DEF Sound
<1>2. Reached' /\ ReadTrue' /\ SendTrue'
  BY <1>1 DEF Sound, BookInv, Reached, ReadTrue, SendTrue, Asked
<1>3. CASE NoneDue
  <2>1. NoneDue' /\ ~Starting'
    BY <1>1, <1>3 DEF NoneDue, Calm
  <2> QED
    BY <1>0, <1>2, <2>1 DEF BookInv, Books
<1>4. CASE (\E c \in Cids, s \in Sides, k \in Nat : OneDue(c, s, k)) /\ cl
  <2>1. PICK c \in Cids, s \in Sides, k \in Nat : OneDue(c, s, k)
    BY <1>4
  <2>2. OneDue(c, s, k)' /\ ~Starting'
    BY <1>1, <1>4, <2>1 DEF OneDue, Calm, Booting, Update, Fill
  <2> QED
    BY <1>0, <1>2, <2>2 DEF BookInv, Books
<1> QED
  BY <1>3, <1>4

\* An entry is written by a flat router.
LEMMA EntryKeeps ==
  ASSUME Sound, pc = "bar", rt.state = "FLAT", NEW s \in Sides, NEW q \in 0..MaxQty,
         WriteOrder(s, q, FALSE, FALSE),
         UNCHANGED <<pos, vstop, queue, crashes, fires>>, side' \in Targets
  PROVE  BookInv'
<1>0. SimTypeOK' /\ q \in Nat /\ q <= MaxQty
  BY RouterAssumption DEF Sound, BookInv, SimTypeOK
<1>1. /\ rt'.state = rt.state /\ rt'.size = rt.size /\ rt'.stop = rt.stop /\ rt'.pend = rt.pend
      /\ pc' = "mark_pending"
      /\ loc'.cid \in Cids /\ loc'.closing = FALSE /\ loc'.why = "none"
      /\ orders'[loc'.cid].side = s /\ orders'[loc'.cid].qty = q
      /\ orders'[loc'.cid].reduce = FALSE
      /\ \A c \in Cids : orders'[c].status \in {orders[c].status, "submitting"}
  BY <1>0, WriteOrderDoes DEF Sound
<1>2. rt.size = pos /\ queue = <<>> /\ pos = 0
  BY PosEqualsSize DEF Sound
<1>3. Reached' /\ ReadTrue' /\ SendTrue'
  BY <1>0, <1>1, <1>2 DEF Sound, BookInv, Reached, ReadTrue, SendTrue, Asked
<1>4. NoneDue' /\ ~Starting'
  BY <1>1, <1>2 DEF NoneDue
<1> QED
  BY <1>0, <1>3, <1>4 DEF BookInv, Books

LEMMA MarkPendingKeeps ==
  ASSUME Sound, MarkPending, UNCHANGED simVars PROVE BookInv'
<1>1. /\ rt'.size = rt.size /\ rt'.pend = loc.cid
      /\ rt'.state = IF orders[loc.cid].reduce THEN "EXIT_PENDING" ELSE "ENTRY_PENDING"
      /\ pc' = "submit" /\ orders' = orders
      /\ loc'.cid = loc.cid /\ loc'.closing = loc.closing /\ loc'.why = loc.why
      /\ loc.cid \in Cids /\ pc = "mark_pending"
  BY MarkPendingDoes DEF Sound, MarkPending
<1>2. Reached' /\ ReadTrue' /\ SendTrue' /\ SimTypeOK'
  BY <1>1 DEF Sound, BookInv, Reached, ReadTrue, SendTrue, SimTypeOK, Asked, simVars
<1>3. CASE NoneDue
  <2>1. NoneDue' /\ ~Starting'
    BY <1>1, <1>3 DEF NoneDue, simVars
  <2> QED
    BY <1>2, <2>1 DEF BookInv, Books
<1>4. CASE \E c \in Cids, s \in Sides, k \in Nat : OneDue(c, s, k)
  <2>1. PICK c \in Cids, s \in Sides, k \in Nat : OneDue(c, s, k)
    BY <1>4
  <2>2. OneDue(c, s, k)' /\ ~Starting'
    BY <1>1, <2>1 DEF OneDue, Booting, Update, Fill, simVars
  <2> QED
    BY <1>2, <2>2 DEF BookInv, Books
<1> QED
  BY <1>1, <1>3, <1>4 DEF Sound, BookInv, Books, TwoDue

\* Nothing the paper account is asked for is refused: an order fills whole.
LEMMA SubmitDoes ==
  ASSUME Sound, Submit
  PROVE  /\ pc = "submit" /\ pc' = "ack" /\ rt' = rt /\ orders' = orders /\ loc' = loc
         /\ loc.cid \in Cids /\ Asked \in OrderRows
         /\ pos' = pos + Signed(Asked.side, Asked.qty)
         /\ queue' = queue \o <<Update(loc.cid, Asked.side, Asked.qty), Fill(loc.cid, Asked.side, Asked.qty)>>
         /\ UNCHANGED <<vstop, side, crashes, fires>>
         /\ Asked.reduce => pos # 0 /\ pos' = 0
         /\ ~Asked.reduce => pos = 0 /\ queue = <<>> /\ Asked.qty <= MaxQty
<1>1. pc = "submit" /\ pc' = "ack" /\ rt' = rt /\ orders' = orders /\ loc' = loc
  BY DEF Submit, SubmitCalled
<1>2. loc.cid \in Cids
  BY <1>1 DEF Sound, RouterInv, SendingHasRow, Sending, HasRow
<1>3. Asked \in OrderRows /\ pos \in Int
  BY <1>2 DEF Asked, Sound, RouterTypeOK, BookInv, SimTypeOK
<1>4. /\ Asked.reduce => pos # 0 /\ Asked.side = ClosingSide(pos) /\ Asked.qty = Magnitude(pos)
      /\ ~Asked.reduce => pos = 0 /\ queue = <<>> /\ Asked.qty <= MaxQty
  BY <1>1 DEF Sound, BookInv, SendTrue
<1>5. ~SimRefuses(Asked)
  BY <1>3, <1>4 DEF SimRefuses, ClosingSide
<1> DEFINE q == IF Asked.reduce /\ Magnitude(pos) < Asked.qty THEN Magnitude(pos) ELSE Asked.qty
<1>6. q = Asked.qty
  BY <1>3, <1>4 DEF Magnitude
<1>7. /\ pos' = pos + Signed(Asked.side, q)
      /\ queue' = queue \o <<Update(loc.cid, Asked.side, q), Fill(loc.cid, Asked.side, q)>>
      /\ UNCHANGED <<vstop, side, crashes, fires>>
  BY <1>5 DEF Submit, Asked, Update, Fill
<1> HIDE DEF q
<1>8. Asked.reduce => pos' = 0
  BY <1>3, <1>4, <1>6, <1>7 DEF ClosingSide, Magnitude, Signed
<1> QED
  BY <1>1, <1>2, <1>3, <1>4, <1>6, <1>7, <1>8

LEMMA SubmitKeeps ==
  ASSUME Sound, Submit PROVE BookInv'
<1> DEFINE c == loc.cid
           s == Asked.side
           k == Asked.qty
<1>1. /\ pc = "submit" /\ pc' = "ack" /\ rt' = rt /\ orders' = orders /\ loc' = loc
      /\ c \in Cids /\ s \in Sides /\ k \in Nat /\ Asked.reduce \in BOOLEAN
      /\ pos' = pos + Signed(s, k) /\ pos \in Int /\ Signed(s, k) \in Int
      /\ queue' = queue \o <<Update(c, s, k), Fill(c, s, k)>>
      /\ UNCHANGED <<vstop, side, crashes, fires>>
      /\ Asked.reduce => pos # 0 /\ pos' = 0
      /\ ~Asked.reduce => pos = 0 /\ queue = <<>>
  BY SubmitDoes DEF OrderRows, Sound, BookInv, SimTypeOK, Signed
<1>2. /\ rt.pend = c /\ rt.state = IF Asked.reduce THEN "EXIT_PENDING" ELSE "ENTRY_PENDING"
  BY <1>1 DEF Sound, BookInv, SendTrue
<1>3. Reached' /\ ReadTrue' /\ SendTrue' /\ SimTypeOK'
  BY <1>1, <1>2 DEF Sound, BookInv, Reached, ReadTrue, SendTrue, SimTypeOK, Asked
<1>4. CASE NoneDue
  <2>1. queue' = <<Update(c, s, k), Fill(c, s, k)>>
    BY <1>1, <1>4, Concatenated DEF NoneDue
  <2>2. OneDue(loc.cid, Asked.side, Asked.qty)' /\ ~Starting'
    BY <1>1, <1>2, <1>4, <2>1 DEF OneDue, NoneDue, Booting, Asked, Update, Fill
  <2>3. \E d \in Cids, t \in Sides, m \in Nat : OneDue(d, t, m)'
    <3>1. loc'.cid = c /\ Asked'.side = s /\ Asked'.qty = k
      BY <1>1 DEF Asked
    <3> QED
      BY <1>1, <2>2, <3>1
  <2> QED
    BY <1>3, <2>2, <2>3 DEF BookInv, Books
<1>5. CASE \E d \in Cids, t \in Sides, m \in Nat : OneDue(d, t, m)
  <2>1. PICK d \in Cids, t \in Sides, m \in Nat : OneDue(d, t, m)
    BY <1>5
  <2> HIDE DEF c, s, k
  <2>1a. queue' = queue \o <<Update(c, s, k), Fill(c, s, k)>>
    BY <1>1
  <2>2. queue' \in {<<Fill(d, t, m), Update(c, s, k), Fill(c, s, k)>>,
                    <<Update(d, t, m), Fill(d, t, m), Update(c, s, k), Fill(c, s, k)>>}
    <3>1. CASE queue = <<Fill(d, t, m)>>
      <4>1. <<Fill(d, t, m)>> \o <<Update(c, s, k), Fill(c, s, k)>>
              = <<Fill(d, t, m), Update(c, s, k), Fill(c, s, k)>>
        BY Concatenated, Zenon
      <4> QED
        BY <2>1a, <3>1, <4>1
    <3>2. CASE queue = <<Update(d, t, m), Fill(d, t, m)>>
      <4>1. <<Update(d, t, m), Fill(d, t, m)>> \o <<Update(c, s, k), Fill(c, s, k)>>
              = <<Update(d, t, m), Fill(d, t, m), Update(c, s, k), Fill(c, s, k)>>
        BY ConcatenatedFour, Zenon
      <4> QED
        BY <2>1a, <3>2, <4>1
    <3> QED
      BY <2>1, <3>1, <3>2 DEF OneDue
  <2>3. rt.size = 0 /\ loc.closing /\ pos = Signed(t, m) /\ Signed(t, m) \in Int /\ pos # 0 /\ pos' = 0
    <3>1. rt.size = 0 /\ loc.closing /\ pos = rt.size + Signed(t, m) /\ Signed(t, m) \in Int
      BY <1>1, <2>1 DEF OneDue, Signed
    <3>2. queue # <<>>
      BY <2>1, Lengths DEF OneDue
    <3> QED
      BY <1>1, <3>1, <3>2
  <2>4. Asked.reduce
    BY <1>1, <2>3
  <2>5. PICK x \in Cids, y \in Sides, z \in Nat : x = c /\ y = s /\ z = k
    BY <1>1
  <2>6. TwoDue(d, t, m, x, y, z)' /\ ~Starting'
    <3>1. queue' \in {<<Fill(d, t, m), Update(x, y, z), Fill(x, y, z)>>,
                      <<Update(d, t, m), Fill(d, t, m), Update(x, y, z), Fill(x, y, z)>>}
      BY <2>2, <2>5
    <3>2. Signed(y, z) = -Signed(t, m) /\ Signed(t, m) # 0
      BY <1>1, <2>3, <2>5
    <3>3. x = loc'.cid
      BY <1>1, <2>5 DEF c
    <3> QED
      BY <1>1, <1>2, <2>3, <2>4, <3>1, <3>2, <3>3 DEF TwoDue, Booting, Update, Fill, Signed
  <2> QED
    BY <1>3, <2>6 DEF BookInv, Books
<1>6. ASSUME NEW a \in Cids, NEW b \in Cids, NEW x \in Sides, NEW y \in Sides, NEW i \in Nat,
             NEW j \in Nat, TwoDue(a, x, i, b, y, j)
      PROVE  FALSE
  BY <1>1, <1>6 DEF TwoDue
<1>7. ~Starting
  BY <1>1
<1> QED
  BY <1>4, <1>5, <1>6, <1>7 DEF Sound, BookInv, Books

LEMMA AnsweredDoes ==
  ASSUME Sound, SubmitAnswered PROVE AckAccepted /\ UNCHANGED simVars
<1>1. pc = "ack" /\ UNCHANGED simVars
  BY DEF SubmitAnswered, AckAccepted, AckRejected
<1>2. CASE \E c \in Cids, s \in Sides, k \in Nat : OneDue(c, s, k)
  <2>1. PICK c \in Cids, s \in Sides, k \in Nat : OneDue(c, s, k)
    BY <1>2
  <2>2. c = loc.cid
    BY <1>1, <2>1 DEF Sound, BookInv, OneDue, SendTrue
  <2>3. CASE queue = <<Fill(c, s, k)>>
    <3>1. queue[1].cid = loc.cid /\ Len(queue) = 1
      BY <2>2, <2>3 DEF Fill
    <3> QED
      BY <1>1, <3>1 DEF SubmitAnswered, SubmitFilled
  <2>4. CASE queue = <<Update(c, s, k), Fill(c, s, k)>>
    <3>1. queue[1].cid = loc.cid /\ Len(queue) = 2
      BY <2>2, <2>4 DEF Update
    <3> QED
      BY <1>1, <3>1 DEF SubmitAnswered, SubmitFilled
  <2> QED
    BY <2>1, <2>3, <2>4 DEF OneDue
<1>3. CASE \E c, d \in Cids, s, t \in Sides, k, m \in Nat : TwoDue(c, s, k, d, t, m)
  <2>1. PICK c \in Cids, d \in Cids, s \in Sides, t \in Sides, k \in Nat, m \in Nat :
               TwoDue(c, s, k, d, t, m)
    BY <1>3
  <2>2. d = loc.cid
    BY <1>1, <2>1 DEF TwoDue
  <2>3. CASE queue = <<Fill(c, s, k), Update(d, t, m), Fill(d, t, m)>>
    <3>1. queue[2].cid = loc.cid /\ Len(queue) = 3
      BY <2>2, <2>3 DEF Update
    <3> QED
      BY <1>1, <3>1 DEF SubmitAnswered, SubmitFilled
  <2>4. CASE queue = <<Update(c, s, k), Fill(c, s, k), Update(d, t, m), Fill(d, t, m)>>
    <3>1. queue[3].cid = loc.cid /\ Len(queue) = 4
      BY <2>2, <2>4 DEF Update
    <3> QED
      BY <1>1, <3>1 DEF SubmitAnswered, SubmitFilled
  <2> QED
    BY <2>1, <2>3, <2>4 DEF TwoDue
<1> QED
  BY <1>1, <1>2, <1>3 DEF Sound, BookInv, Books, NoneDue

LEMMA AnsweredKeeps ==
  ASSUME Sound, SubmitAnswered PROVE BookInv'
<1>1. /\ rt' = rt /\ loc' = NoLocals /\ pc = "ack"
      /\ pc' = IF loc.closing THEN "halt_closed" ELSE "idle"
      /\ \A c \in Cids : orders'[c].status \in {orders[c].status, "accepted"}
      /\ UNCHANGED simVars
  BY AnsweredDoes, AcceptedDoes DEF Sound, AckAccepted
<1>2. Reached' /\ ReadTrue' /\ SendTrue' /\ SimTypeOK'
  BY <1>1, NoLocalsType DEF Sound, BookInv, Reached, ReadTrue, SendTrue, SimTypeOK, simVars
<1>3. CASE \E c \in Cids, s \in Sides, k \in Nat : OneDue(c, s, k)
  <2>1. PICK c \in Cids, s \in Sides, k \in Nat : OneDue(c, s, k)
    BY <1>3
  <2>2. OneDue(c, s, k)' /\ ~Starting'
    BY <1>1, <2>1 DEF OneDue, Booting, Update, Fill, simVars
  <2> QED
    BY <1>2, <2>2 DEF BookInv, Books
<1>4. CASE \E c, d \in Cids, s, t \in Sides, k, m \in Nat : TwoDue(c, s, k, d, t, m)
  <2>1. PICK c \in Cids, d \in Cids, s \in Sides, t \in Sides, k \in Nat, m \in Nat :
               TwoDue(c, s, k, d, t, m)
    BY <1>4
  <2>2. TwoDue(c, s, k, d, t, m)' /\ ~Starting'
    BY <1>1, <2>1 DEF TwoDue, Booting, Update, Fill, simVars
  <2> QED
    BY <1>2, <2>2 DEF BookInv, Books
<1> QED
  BY <1>1, <1>3, <1>4 DEF Sound, BookInv, Books, NoneDue

-----------------------------------------------------------------------------
(* Events.                                                                  *)

PumpOne(c, s, k) ==
  /\ OneDue(c, s, k)
  /\ \/ OnOrderUpdate(c, "filled") /\ queue' = <<Fill(c, s, k)>>
     \/ OnFill(c, s, k) /\ queue' = <<>>

PumpTwo(c, s, k, d, t, m) ==
  /\ TwoDue(c, s, k, d, t, m)
  /\ \/ OnOrderUpdate(c, "filled") /\ queue' = <<Fill(c, s, k), Update(d, t, m), Fill(d, t, m)>>
     \/ OnFill(c, s, k) /\ queue' = <<Update(d, t, m), Fill(d, t, m)>>

LEMMA PumpDoes ==
  ASSUME Sound, Pump
  PROVE  /\ pc = "idle" /\ UNCHANGED <<pos, vstop, side, crashes, fires>>
         /\ \/ \E c \in Cids, s \in Sides, k \in Nat : PumpOne(c, s, k)
            \/ \E c, d \in Cids, s, t \in Sides, k, m \in Nat : PumpTwo(c, s, k, d, t, m)
<1> DEFINE ev == Head(queue)
<1>1. /\ queue # <<>> /\ queue' = Tail(queue) /\ UNCHANGED <<pos, vstop, side, crashes, fires>>
      /\ IF ev.kind = "update" THEN OnOrderUpdate(ev.cid, "filled") ELSE OnFill(ev.cid, ev.side, ev.qty)
  BY DEF Pump
<1>2. pc = "idle"
  BY <1>1 DEF OnOrderUpdate, OnFill, LateFill, ApplyFill
<1>3. ASSUME NEW c, NEW s, NEW k, ev = Update(c, s, k) PROVE OnOrderUpdate(c, "filled")
  BY <1>1, <1>3 DEF Update
<1>4. ASSUME NEW c, NEW s, NEW k, ev = Fill(c, s, k) PROVE OnFill(c, s, k)
  <2>1. ev.kind = "fill" /\ ev.cid = c /\ ev.side = s /\ ev.qty = k
    BY <1>4 DEF Fill
  <2> HIDE DEF ev
  <2>2. OnFill(ev.cid, ev.side, ev.qty)
    BY <1>1, <2>1
  <2> QED
    BY <2>1, <2>2
<1>5. CASE \E c \in Cids, s \in Sides, k \in Nat : OneDue(c, s, k)
  <2>1. PICK c \in Cids, s \in Sides, k \in Nat : OneDue(c, s, k)
    BY <1>5
  <2>2. CASE queue = <<Fill(c, s, k)>>
    <3>1. ev = Fill(c, s, k) /\ Tail(queue) = <<>>
      BY <2>2, HeadAndTail
    <3> QED
      BY <1>1, <1>2, <1>4, <2>1, <3>1 DEF PumpOne
  <2>3. CASE queue = <<Update(c, s, k), Fill(c, s, k)>>
    <3>1. ev = Update(c, s, k) /\ Tail(queue) = <<Fill(c, s, k)>>
      BY <2>3, HeadAndTail
    <3> QED
      BY <1>1, <1>2, <1>3, <2>1, <3>1 DEF PumpOne
  <2> QED
    BY <2>1, <2>2, <2>3 DEF OneDue
<1>6. CASE \E c, d \in Cids, s, t \in Sides, k, m \in Nat : TwoDue(c, s, k, d, t, m)
  <2>1. PICK c \in Cids, d \in Cids, s \in Sides, t \in Sides, k \in Nat, m \in Nat :
               TwoDue(c, s, k, d, t, m)
    BY <1>6
  <2>2. CASE queue = <<Fill(c, s, k), Update(d, t, m), Fill(d, t, m)>>
    <3>1. ev = Fill(c, s, k) /\ Tail(queue) = <<Update(d, t, m), Fill(d, t, m)>>
      BY <2>2, HeadAndTail
    <3> QED
      BY <1>1, <1>2, <1>4, <2>1, <3>1 DEF PumpTwo
  <2>3. CASE queue = <<Update(c, s, k), Fill(c, s, k), Update(d, t, m), Fill(d, t, m)>>
    <3>1. ev = Update(c, s, k) /\ Tail(queue) = <<Fill(c, s, k), Update(d, t, m), Fill(d, t, m)>>
      BY <2>3, HeadAndTail
    <3> QED
      BY <1>1, <1>2, <1>3, <2>1, <3>1 DEF PumpTwo
  <2> QED
    BY <2>1, <2>2, <2>3 DEF TwoDue
<1> QED
  BY <1>1, <1>2, <1>5, <1>6 DEF Sound, BookInv, Books, NoneDue

LEMMA PumpOneKeeps ==
  ASSUME Sound, Pump, NEW c \in Cids, NEW s \in Sides, NEW k \in Nat, PumpOne(c, s, k)
  PROVE  BookInv'
<1>1. pc = "idle" /\ UNCHANGED <<pos, vstop, side, crashes, fires>>
  BY PumpDoes
<1>2. SimTypeOK' /\ pos \in Int /\ rt.size \in Int
  BY <1>1 DEF Sound, BookInv, SimTypeOK, RouterTypeOK, Routers
<1>3. CASE OnOrderUpdate(c, "filled") /\ queue' = <<Fill(c, s, k)>>
  <2>1. /\ pc' = "idle" /\ rt' = rt /\ loc' = loc
        /\ \A d \in Cids : orders'[d].status \in {orders[d].status, "filled"}
    BY <1>3, UpdateDoes DEF Sound
  <2>2. Reached' /\ ReadTrue' /\ SendTrue'
    BY <1>1, <2>1 DEF Sound, BookInv, Reached, ReadTrue, SendTrue
  <2>3. OneDue(c, s, k)' /\ ~Starting'
    BY <1>1, <1>3, <2>1 DEF PumpOne, OneDue, Booting, Update, Fill
  <2> QED
    BY <1>2, <2>2, <2>3 DEF BookInv, Books
<1>4. CASE OnFill(c, s, k) /\ queue' = <<>>
  <2>1. pos = rt.size + Signed(s, k)
    BY DEF PumpOne, OneDue
  <2>3. FillResult(c, pos)
    BY <1>4, <2>1, FillDoes DEF Sound, BookInv
  <2>4. /\ rt.state \in Pending \cup Frozen
        /\ rt.state \in Pending => rt.pend = c /\ (rt.state = "EXIT_PENDING" => pos = 0)
    BY <1>1 DEF PumpOne, OneDue
  <2>5. \/ pos = 0 /\ pc' = "flat_cancel"
        \/ pos # 0 /\ pc' = "replace_stop" /\ rt'.state \notin Pending
    BY <2>3, <2>4 DEF FillResult
  <2>6. Reached' /\ ReadTrue' /\ SendTrue'
    BY <1>1, <2>3, <2>5 DEF FillResult, Sound, BookInv, Reached, ReadTrue, SendTrue
  <2>7. NoneDue' /\ ~Starting'
    BY <1>1, <1>4, <2>3, <2>5 DEF FillResult, NoneDue
  <2> QED
    BY <1>2, <2>6, <2>7 DEF BookInv, Books
<1> QED
  BY <1>3, <1>4 DEF PumpOne

LEMMA PumpTwoKeeps ==
  ASSUME Sound, Pump, NEW c \in Cids, NEW d \in Cids, NEW s \in Sides, NEW t \in Sides,
         NEW k \in Nat, NEW m \in Nat, PumpTwo(c, s, k, d, t, m)
  PROVE  BookInv'
<1>1. pc = "idle" /\ UNCHANGED <<pos, vstop, side, crashes, fires>>
  BY PumpDoes
<1>2. SimTypeOK' /\ pos \in Int /\ rt.size \in Int /\ Signed(s, k) \in Int
  BY <1>1 DEF Sound, BookInv, SimTypeOK, RouterTypeOK, Routers, Signed
<1>3. CASE OnOrderUpdate(c, "filled") /\ queue' = <<Fill(c, s, k), Update(d, t, m), Fill(d, t, m)>>
  <2>1. /\ pc' = "idle" /\ rt' = rt /\ loc' = loc
        /\ \A e \in Cids : orders'[e].status \in {orders[e].status, "filled"}
    BY <1>3, UpdateDoes DEF Sound
  <2>2. Reached' /\ ReadTrue' /\ SendTrue'
    BY <1>1, <2>1 DEF Sound, BookInv, Reached, ReadTrue, SendTrue
  <2>3. TwoDue(c, s, k, d, t, m)' /\ ~Starting'
    BY <1>1, <1>3, <2>1 DEF PumpTwo, TwoDue, Booting, Update, Fill
  <2> QED
    BY <1>2, <2>2, <2>3 DEF BookInv, Books
<1>4. CASE OnFill(c, s, k) /\ queue' = <<Update(d, t, m), Fill(d, t, m)>>
  <2>1. /\ rt.size = 0 /\ pos = 0 /\ rt.state \in Frozen
        /\ Signed(s, k) # 0 /\ Signed(t, m) = -Signed(s, k)
    BY <1>1 DEF PumpTwo, TwoDue
  <2>2. FillResult(c, Signed(s, k))
    <3>1. Signed(s, k) = rt.size + Signed(s, k)
      BY <1>2, <2>1
    <3> QED
      BY <1>4, <3>1, FillDoes DEF Sound, BookInv
  <2>4. /\ loc' = loc /\ rt'.size = Signed(s, k) /\ pc' = "replace_stop" /\ rt'.state = rt.state
        /\ \A e \in Cids : orders'[e].status \notin GaveUp
    BY <2>1, <2>2 DEF FillResult
  <2>5. Reached' /\ ReadTrue' /\ SendTrue'
    BY <1>1, <2>4 DEF Sound, BookInv, Reached, ReadTrue, SendTrue
  <2>6. OneDue(d, t, m)' /\ ~Starting'
    BY <1>1, <1>2, <1>4, <2>1, <2>4 DEF OneDue, Booting, Update, Fill
  <2> QED
    BY <1>2, <2>5, <2>6 DEF BookInv, Books
<1> QED
  BY <1>3, <1>4 DEF PumpTwo

LEMMA PumpKeeps ==
  ASSUME Sound, Pump PROVE BookInv'
BY PumpDoes, PumpOneKeeps, PumpTwoKeeps

-----------------------------------------------------------------------------
(* Stops.                                                                   *)

LEMMA PlaceKeeps ==
  ASSUME Sound, PlaceStop PROVE BookInv'
<1>1. pc \in PlacePcs /\ vstop' = WantedStop /\ UNCHANGED <<pos, fires>>
  BY DEF PlaceStop
<1>2. WantedStop \in Stops
  BY DEF WantedStop, Guarding
<1>3. CASE DieAfterSave
  BY <1>1, <1>2, <1>3, DeathKeeps DEF DieAfterSave, Sound, BookInv, SimTypeOK
<1>4. CASE StopPlaced /\ UNCHANGED <<queue, side, crashes>>
  <2>1. /\ rt'.state = rt.state /\ rt'.size = rt.size /\ rt'.pend = rt.pend /\ orders' = orders
        /\ pc = "replace_stop" => pc' = "idle" /\ loc' = NoLocals
        /\ pc = "missing_place" => pc' = "size" /\ loc' = loc
        /\ pc = "recover_place" => pc' = "recover_orders" /\ loc' = loc
    BY <1>4, PlacedDoes DEF Sound
  <2>2. pc \in {"replace_stop", "missing_place", "recover_place"}
    BY <1>1 DEF Sound, BookInv, Reached
  <2>3. Reached' /\ ReadTrue'
    BY <1>1, <2>1, <2>2, NoLocalsType DEF Sound, BookInv, Reached, ReadTrue
  <2>4. ~Starting /\ ~Starting' /\ Calm /\ Calm' /\ (Booting' => Booting)
    BY <2>1, <2>2 DEF Calm, Booting
  <2>5. side' \in Targets
    BY <1>4 DEF Sound, BookInv, SimTypeOK
  <2> QED
    BY <1>1, <1>2, <1>4, <2>1, <2>3, <2>4, <2>5, CalmKeeps
<1> QED
  BY <1>3, <1>4 DEF PlaceStop

LEMMA CancelKeeps ==
  ASSUME Sound, CancelStop PROVE BookInv'
<1>1. pc \in CancelPcs /\ vstop' = "none" /\ UNCHANGED <<pos, fires>>
  BY DEF CancelStop
<1>2. pc \in {"flat_cancel", "orphan_cancel"}
  BY <1>1 DEF Sound, BookInv, Reached
<1>3. CASE DieAfterSave
  BY <1>1, <1>3, DeathKeeps DEF DieAfterSave, Sound, BookInv, SimTypeOK
<1>4. CASE StopCancelled /\ side' = SideAfterCancel /\ UNCHANGED <<queue, crashes>>
  <2>1. side' \in Targets
    BY <1>4 DEF SideAfterCancel, Sound, BookInv, SimTypeOK, Targets
  <2>2. CASE pc = "orphan_cancel"
    <3>1. rt' = rt /\ row' = row /\ loc' = loc /\ pc' = "unknown_orders" /\ orders' = orders
      BY <1>4, <2>2, CancelledDoes DEF Sound
    <3>2. Reached' /\ ReadTrue'
      BY <1>1, <2>2, <3>1 DEF Sound, BookInv, Reached, ReadTrue
    <3>3. ~Starting /\ ~Starting' /\ Calm /\ Calm' /\ (Booting' => Booting)
      BY <2>2, <3>1 DEF Calm, Booting
    <3> QED
      BY <1>1, <1>4, <2>1, <3>1, <3>2, <3>3, CalmKeeps
  <2>3. CASE pc = "flat_cancel"
    <3>1. /\ rt'.state = (IF rt.state \in Frozen THEN rt.state ELSE "FLAT")
          /\ rt'.size = rt.size /\ pc' = "idle" /\ loc' = NoLocals /\ orders' = orders
      BY <1>4, <2>3, CancelledDoes DEF Sound
    <3>2. Reached' /\ ReadTrue' /\ SendTrue' /\ SimTypeOK'
      BY <1>1, <1>4, <2>1, <3>1, NoLocalsType
         DEF Sound, BookInv, Reached, ReadTrue, SendTrue, SimTypeOK
    <3>3. NoneDue
      BY <2>3 DEF Sound, BookInv, Books, OneDue, TwoDue
    <3>4. NoneDue' /\ ~Starting'
      BY <1>1, <1>4, <3>1, <3>3 DEF NoneDue
    <3> QED
      BY <3>2, <3>4 DEF BookInv, Books
  <2> QED
    BY <1>2, <2>2, <2>3
<1> QED
  BY <1>3, <1>4 DEF CancelStop

\* The fill of a stop takes from the router what the account held.
LEMMA StopFillDoes ==
  ASSUME Sound, pos # 0, OnFill(Venue, ClosingSide(pos), Magnitude(pos))
  PROVE  FillResult(Venue, rt.size - pos)
<1> DEFINE s == ClosingSide(pos)
           k == Magnitude(pos)
<1>1. pos \in Int /\ rt.size \in Int
  BY DEF Sound, BookInv, SimTypeOK, RouterTypeOK, Routers
<1>2. s \in Sides /\ k \in Nat /\ rt.size - pos = rt.size + Signed(s, k)
  BY <1>1 DEF ClosingSide, Magnitude, Signed
<1> HIDE DEF s, k
<1>3. OnFill(Venue, s, k)
  BY DEF s, k
<1> QED
  BY <1>2, <1>3, FillDoes DEF Sound, BookInv

LEMMA FireKeeps ==
  ASSUME Sound, StopFires PROVE BookInv'
<1>1. /\ pc = "idle" /\ fires < MaxFires /\ pos # 0 /\ pos' = 0 /\ vstop' = "none"
      /\ fires' = fires + 1
  BY DEF StopFires
<1>2. fires' \in 0..MaxFires /\ pos \in Int /\ rt.size \in Int
  BY <1>1, SimAssumption DEF Sound, BookInv, SimTypeOK, RouterTypeOK, Routers
<1>3. CASE DieAfterSave
  BY <1>1, <1>2, <1>3, DeathKeeps DEF DieAfterSave
<1>4. CASE OnFill(Venue, ClosingSide(pos), Magnitude(pos)) /\ UNCHANGED <<queue, side, crashes>>
  <2>1. FillResult(Venue, rt.size - pos)
    BY <1>1, <1>4, StopFillDoes
  <2>2. SimTypeOK'
    BY <1>1, <1>2, <1>4 DEF Sound, BookInv, SimTypeOK
  <2>3. pc' \in {"idle", "replace_stop", "flat_cancel"} => Reached' /\ ReadTrue' /\ SendTrue'
    BY <1>1, <2>1 DEF FillResult, Sound, BookInv, Reached, ReadTrue, SendTrue
  <2>4. CASE NoneDue
    <3>1. rt.size - pos = 0 /\ rt.state \notin Pending
      BY <1>1, <1>2, <2>4 DEF NoneDue
    <3>2. NoneDue' /\ ~Starting' /\ pc' = "flat_cancel"
      BY <1>1, <1>4, <2>1, <2>4, <3>1 DEF FillResult, NoneDue
    <3> QED
      BY <2>2, <2>3, <3>2 DEF BookInv, Books
  <2>5. CASE \E c \in Cids, s \in Sides, k \in Nat : OneDue(c, s, k)
    <3>1. PICK c \in Cids, s \in Sides, k \in Nat : OneDue(c, s, k)
      BY <2>5
    <3>2. /\ rt.size = 0 /\ rt.size - pos # 0 /\ pos = Signed(s, k)
          /\ rt.state \in {"ENTRY_PENDING"} \cup Frozen
          /\ rt.state = "ENTRY_PENDING" => rt.pend = c
      <4>1. rt.size = 0
        BY <1>1, <3>1 DEF OneDue
      <4>2. pos = Signed(s, k) /\ Signed(s, k) \in Int
        BY <1>2, <3>1, <4>1 DEF OneDue, Signed
      <4> QED
        BY <1>1, <1>2, <3>1, <4>1, <4>2 DEF OneDue
    <3>3. Venue # rt.pend
      BY RouterAssumption DEF Sound, RouterTypeOK, Routers, Venue, Cids, NoCid
    <3>4. /\ rt'.size = -Signed(s, k) /\ rt'.state = rt.state /\ rt'.pend = rt.pend
          /\ pc' \in {"idle", "replace_stop"}
      BY <1>2, <2>1, <3>2, <3>3 DEF FillResult
    <3>5. OneDue(c, s, k)' /\ ~Starting'
      BY <1>1, <1>2, <1>4, <3>1, <3>2, <3>4 DEF OneDue, Booting, Update, Fill
    <3> QED
      BY <2>2, <2>3, <3>4, <3>5 DEF BookInv, Books
  <2> QED
    BY <1>1, <2>4, <2>5, HeldNotTwoDue DEF Sound
<1> QED
  BY <1>3, <1>4 DEF StopFires

-----------------------------------------------------------------------------
(* The loops.                                                               *)

\* A handler ends, with the router halted or as it was.
LEMMA IdleKeeps ==
  ASSUME Sound, ~Booting, Calm, Idle, orders' = orders,
         UNCHANGED <<pos, vstop, queue, crashes, fires>>, side' \in Targets,
         rt'.size = rt.size, rt'.pend = rt.pend, rt'.state = rt.state \/ rt'.state = "HALTED"
  PROVE  BookInv'
<1>1. pc' = "idle" /\ loc' = NoLocals
  BY DEF Idle
<1>2. Reached' /\ ReadTrue'
  BY <1>1, NoLocalsType DEF Sound, BookInv, Reached, ReadTrue
<1>3. ~Starting /\ ~Starting' /\ Calm' /\ ~Booting'
  BY <1>1 DEF Calm, Booting
<1>4. vstop' \in Stops
  BY DEF Sound, BookInv, SimTypeOK
<1> QED
  BY <1>2, <1>3, <1>4, CalmKeeps

LEMMA StartsKeep ==
  ASSUME Sound, StartBar \/ StartFast \/ StartReconcile, UNCHANGED simVars PROVE BookInv'
<1>1. /\ pc = "idle" /\ pc' \in {"bar_snap", "fast_snap", "rec_snap"}
      /\ rt' = rt /\ orders' = orders /\ loc' = loc
  BY DEF StartBar, StartFast, StartReconcile
<1>2. Reached' /\ ReadTrue'
  BY <1>1 DEF Sound, BookInv, Reached, ReadTrue
<1>3. ~Starting /\ ~Starting' /\ Calm /\ Calm' /\ ~Booting'
  BY <1>1 DEF Calm, Booting
<1>4. vstop' \in Stops /\ side' \in Targets
  BY DEF Sound, BookInv, SimTypeOK, simVars
<1> QED
  BY <1>1, <1>2, <1>3, <1>4, CalmKeeps DEF simVars

\* shutdown(): flattens what the account holds, or only halts.
LEMMA ShutdownDoes ==
  ASSUME Sound, BarShutdown
  PROVE  /\ pc = "bar" /\ ~Booting /\ Calm
         /\ \/ rt' = rt /\ row' = row /\ orders' = orders /\ Idle
            \/ /\ WriteExit(pos, TRUE) /\ pos # 0 /\ rt.state # "FLAT"
               /\ rt.state \in {"OPEN", "HALTED"}
               /\ NoneDue \/ \E c \in Cids, s \in Sides, k \in Nat : OneDue(c, s, k)
            \/ /\ rt'.state = "HALTED" /\ row'.state = "HALTED" /\ rt'.size = rt.size
               /\ rt'.stop = rt.stop /\ rt'.pend = rt.pend /\ orders' = orders /\ Idle
<1>1. pc = "bar" /\ ~Booting /\ Calm /\ ~Starting
  BY DEF BarShutdown, Booting, Calm
<1>2. loc.snap.pos = pos
  BY <1>1 DEF Sound, BookInv, ReadTrue
<1>3. \/ rt' = rt /\ row' = row /\ orders' = orders /\ Idle
      \/ WriteExit(pos, TRUE) /\ pos # 0 /\ rt.state \in {"OPEN", "HALTED", "FLAT"}
      \/ Commit([rt EXCEPT !.state = "HALTED"]) /\ Idle /\ orders' = orders
  BY <1>2 DEF BarShutdown
<1>4. pos # 0 => rt.state # "FLAT"
  BY <1>1, PosEqualsSize DEF Sound
<1>5. pos # 0 => NoneDue \/ \E c \in Cids, s \in Sides, k \in Nat : OneDue(c, s, k)
  BY <1>1, HeldNotTwoDue DEF Sound
<1>6. Commit([rt EXCEPT !.state = "HALTED"]) =>
        /\ rt'.state = "HALTED" /\ row'.state = "HALTED" /\ rt'.size = rt.size
        /\ rt'.stop = rt.stop /\ rt'.pend = rt.pend
  BY CommitStateDoes DEF Sound
<1> QED
  BY <1>1, <1>3, <1>4, <1>5, <1>6

LEMMA ShutdownKeeps ==
  ASSUME Sound, BarShutdown, UNCHANGED simVars PROVE BookInv'
<1>1. side' \in Targets /\ UNCHANGED <<pos, vstop, queue, crashes, fires>>
  BY DEF Sound, BookInv, SimTypeOK, simVars
<1>2. CASE WriteExit(pos, TRUE)
  <2>1. pc' = "mark_pending"
    BY <1>2 DEF WriteExit, WriteOrder
  <2>2. /\ pos # 0 /\ rt.state # "FLAT" /\ ~Booting /\ Calm
        /\ NoneDue \/ \E c \in Cids, s \in Sides, k \in Nat : OneDue(c, s, k)
    BY <2>1, ShutdownDoes DEF Idle
  <2> QED
    BY <1>1, <1>2, <2>2, ExitKeeps
<1>3. CASE ~WriteExit(pos, TRUE)
  <2>1. /\ ~Booting /\ Calm /\ Idle /\ orders' = orders /\ rt'.size = rt.size /\ rt'.pend = rt.pend
        /\ rt'.state = rt.state \/ rt'.state = "HALTED"
    BY <1>3, ShutdownDoes
  <2> QED
    BY <1>1, <2>1, IdleKeeps
<1> QED
  BY <1>2, <1>3

\* A bar with no shutdown: an entry, an exit or nothing.
LEMMA BarDecides ==
  ASSUME Sound, NEW kill \in Kills, NEW bar \in Bars, NEW target \in Targets,
         UNCHANGED <<pos, vstop, queue, crashes, fires>>, side' = SideAfterBar(bar, target),
         \/ \E qty \in -1..MaxQty : BarEnter(kill, bar, target, qty) \/ BarNoOrder(kill, bar, target, qty)
         \/ BarExit(kill, bar, target)
  PROVE  BookInv'
<1>1. pc = "bar" /\ ~Booting /\ Calm
  BY DEF BarEnter, BarNoOrder, BarExit, Booting, Calm
<1>2. side' \in Targets
  BY DEF SideAfterBar, Sound, BookInv, SimTypeOK
<1>3. ASSUME NEW qty \in -1..MaxQty, BarEnter(kill, bar, target, qty) PROVE BookInv'
  <2> DEFINE s == IF target > 0 THEN "buy" ELSE "sell"
  <2>1. WriteOrder(s, qty, FALSE, FALSE) /\ rt.state = "FLAT" /\ s \in Sides
    BY <1>3 DEF BarEnter, WantsEntry
  <2>2. qty \in 0..MaxQty
    BY <1>3, RouterAssumption DEF BarEnter
  <2> HIDE DEF s
  <2> QED
    BY <1>1, <1>2, <2>1, <2>2, EntryKeeps
<1>4. ASSUME BarExit(kill, bar, target) PROVE BookInv'
  <2>1. rt.state = "OPEN" /\ WriteExit(rt.size, FALSE)
    BY <1>4 DEF BarExit, WantsExit
  <2>2. NoneDue /\ rt.size = pos /\ pos # 0
    <3>1. NoneDue
      BY <1>1, <2>1, SettledNothingDue DEF Sound
    <3> QED
      BY <1>1, <2>1, <3>1, PosEqualsSize DEF Sound
  <2> QED
    BY <1>1, <1>2, <2>1, <2>2, ExitKeeps
<1>5. ASSUME NEW qty \in -1..MaxQty, BarNoOrder(kill, bar, target, qty) PROVE BookInv'
  <2>1. Idle /\ rt' = rt /\ orders' = orders
    BY <1>5 DEF BarNoOrder
  <2> QED
    BY <1>1, <1>2, <2>1, IdleKeeps
<1> QED
  BY <1>3, <1>4, <1>5

LEMMA BarKeeps ==
  ASSUME Sound, Bar PROVE BookInv'
<1>1. UNCHANGED <<pos, vstop, queue, crashes, fires>>
  BY DEF Bar
<1>2. CASE (StartBar \/ BarShutdown) /\ UNCHANGED side
  BY <1>1, <1>2, StartsKeep, ShutdownKeeps DEF simVars
<1>3. CASE \E kill \in Kills \ {"shutdown"}, bar \in Bars, target \in Targets :
             /\ \/ \E qty \in -1..MaxQty : BarEnter(kill, bar, target, qty) \/ BarNoOrder(kill, bar, target, qty)
                \/ BarExit(kill, bar, target)
             /\ side' = SideAfterBar(bar, target)
  BY <1>1, <1>3, BarDecides
<1> QED
  BY <1>2, <1>3 DEF Bar

LEMMA FastKeeps ==
  ASSUME Sound, Fast PROVE BookInv'
<1>0. UNCHANGED simVars /\ side' \in Targets /\ vstop' \in Stops
  BY DEF Fast, simVars, Sound, BookInv, SimTypeOK
<1>1. CASE StartFast
  BY <1>0, <1>1, StartsKeep
<1>2. CASE NothingPending(FALSE)
  <2>1. pc = "check_pending" /\ pc' = "on_fast" /\ rt' = rt /\ orders' = orders /\ loc' = loc
    BY <1>2 DEF NothingPending
  <2>2. Reached' /\ ReadTrue'
    BY <1>0, <2>1 DEF Sound, BookInv, Reached, ReadTrue, simVars
  <2>3. ~Starting /\ ~Starting' /\ Calm /\ Calm' /\ ~Booting'
    BY <2>1 DEF Calm, Booting
  <2> QED
    BY <1>0, <2>1, <2>2, <2>3, CalmKeeps DEF simVars
<1>3. ASSUME NEW due \in BOOLEAN, FastExit(due) PROVE BookInv'
  <2>1. pc = "on_fast" /\ rt.state = "OPEN" /\ WriteExit(rt.size, FALSE) /\ ~Booting /\ Calm
    BY <1>3 DEF FastExit, Booting, Calm
  <2>2. NoneDue /\ rt.size = pos /\ pos # 0
    <3>1. NoneDue
      BY <2>1, SettledNothingDue DEF Sound
    <3> QED
      BY <2>1, <3>1, PosEqualsSize DEF Sound
  <2> QED
    BY <1>0, <2>1, <2>2, ExitKeeps DEF simVars
<1>4. ASSUME NEW due \in BOOLEAN, FastNothing(due) PROVE BookInv'
  <2>1. Idle /\ rt' = rt /\ orders' = orders /\ ~Booting /\ Calm
    BY <1>4 DEF FastNothing, Booting, Calm
  <2> QED
    BY <1>0, <2>1, IdleKeeps DEF simVars
<1> QED
  BY <1>1, <1>2, <1>3, <1>4 DEF Fast

\* diff() finds a wrong size only on a router that is frozen already.
LEMMA MismatchIsFrozen ==
  ASSUME Sound, pc = "size", SizeMismatch PROVE rt.state \in Frozen
<1>1. row.state = rt.state /\ row.size = rt.size /\ rt.state \in States
  BY DEF Sound, RouterInv, RowSaved, Unsaved, Image, RouterTypeOK, Routers
<1>2. rt.state \in {"OPEN", "FLAT"} => rt.size = loc.snap.pos
  BY PosEqualsSize DEF Sound
<1> QED
  BY <1>1, <1>2 DEF SizeMismatch

LEMMA CheckSizeDoes ==
  ASSUME Sound, CheckSize
  PROVE  /\ pc = "size" /\ rt' = rt /\ row' = row /\ orders' = orders /\ loc' = loc
         /\ \/ pc' = "orphan_cancel" /\ pos = 0
            \/ pc' = "unknown_orders"
<1>1. /\ pc = "size" /\ orders' = orders /\ loc' = loc
      /\ pc' = IF loc.snap.pos = 0 /\ loc.snap.stop # "none" THEN "orphan_cancel" ELSE "unknown_orders"
      /\ IF SizeMismatch THEN Halt ELSE UNCHANGED <<rt, row>>
  BY DEF CheckSize
<1>2. loc.snap.pos = pos
  BY <1>1 DEF Sound, BookInv, ReadTrue
<1>3. rt' = rt /\ row' = row
  BY <1>1, MismatchIsFrozen DEF Halt, HaltedRouter
<1> QED
  BY <1>1, <1>2, <1>3

LEMMA ReconcileKeeps ==
  ASSUME Sound, Reconcile PROVE BookInv'
<1>0. UNCHANGED simVars /\ side' \in Targets /\ vstop' \in Stops
  BY DEF Reconcile, simVars, Sound, BookInv, SimTypeOK
<1>1. CASE StartReconcile
  BY <1>0, <1>1, StartsKeep
<1>2. CASE CheckMissingStop \/ CheckSize
  <2>1. /\ rt' = rt /\ orders' = orders /\ loc' = loc /\ pc \in {"missing_stop", "size"}
        /\ pc' \in {"missing_place", "size", "orphan_cancel", "unknown_orders"}
        /\ pc = "size" => pc' \in {"orphan_cancel", "unknown_orders"}
        /\ pc' = "orphan_cancel" => pos = 0
    BY <1>2, CheckSizeDoes DEF CheckMissingStop
  <2>2. Reached' /\ ReadTrue'
    BY <1>0, <2>1 DEF Sound, BookInv, Reached, ReadTrue, simVars
  <2>3. ~Starting /\ ~Starting' /\ Calm /\ Calm' /\ ~Booting'
    BY <2>1 DEF Calm, Booting
  <2> QED
    BY <1>0, <2>1, <2>2, <2>3, CalmKeeps DEF simVars
<1>3. CASE ReconcileEnds
  <2>1. Idle /\ rt' = rt /\ orders' = orders /\ ~Booting /\ Calm
    BY <1>3 DEF ReconcileEnds, Booting, Calm
  <2> QED
    BY <1>0, <2>1, IdleKeeps DEF simVars
<1> QED
  BY <1>1, <1>2, <1>3 DEF Reconcile

LEMMA HaltClosedKeeps ==
  ASSUME Sound, HaltClosed, UNCHANGED simVars PROVE BookInv'
<1>1. pc = "halt_closed" /\ Commit([rt EXCEPT !.state = "HALTED"]) /\ pc' = "idle"
      /\ loc' = NoLocals /\ orders' = orders
  BY DEF HaltClosed, Idle
<1>2. rt'.state = "HALTED" /\ rt'.size = rt.size /\ rt'.pend = rt.pend
  BY <1>1, CommitStateDoes DEF Sound
<1>3. Reached' /\ ReadTrue' /\ SendTrue' /\ SimTypeOK'
  BY <1>1, NoLocalsType DEF Sound, BookInv, Reached, ReadTrue, SendTrue, SimTypeOK, simVars
<1>4. CASE NoneDue
  <2>1. NoneDue' /\ ~Starting'
    BY <1>1, <1>2, <1>4 DEF NoneDue, simVars
  <2> QED
    BY <1>3, <2>1 DEF BookInv, Books
<1>5. CASE \E c \in Cids, s \in Sides, k \in Nat : OneDue(c, s, k)
  <2>1. PICK c \in Cids, s \in Sides, k \in Nat : OneDue(c, s, k)
    BY <1>5
  <2>2. OneDue(c, s, k)' /\ ~Starting'
    BY <1>1, <1>2, <2>1 DEF OneDue, Booting, Update, Fill, simVars
  <2> QED
    BY <1>3, <2>2 DEF BookInv, Books
<1>6. CASE \E c, d \in Cids, s, t \in Sides, k, m \in Nat : TwoDue(c, s, k, d, t, m)
  <2>1. PICK c \in Cids, d \in Cids, s \in Sides, t \in Sides, k \in Nat, m \in Nat :
               TwoDue(c, s, k, d, t, m)
    BY <1>6
  <2>2. TwoDue(c, s, k, d, t, m)' /\ ~Starting'
    BY <1>1, <1>2, <2>1 DEF TwoDue, Booting, Update, Fill, simVars
  <2> QED
    BY <1>3, <2>2 DEF BookInv, Books
<1>7. ~Starting
  BY <1>1
<1> QED
  BY <1>4, <1>5, <1>6, <1>7 DEF Sound, BookInv, Books

-----------------------------------------------------------------------------
(* The start of the process.                                                *)

LEMMA RecoverKeeps ==
  ASSUME Sound, Recover, UNCHANGED simVars PROVE BookInv'
<1>1. /\ pc = "recover" /\ orders' = orders /\ loc'.why = loc.why /\ loc'.snap = loc.snap
      /\ rt'.size = loc.snap.pos
      /\ rt'.state = IF row.state \in Frozen THEN row.state ELSE Settled(loc.snap.pos)
      /\ pc' \in {"recover_place", "recover_orders"}
  BY RecoverDoes DEF Sound
<1>2. loc.snap.pos = pos /\ loc.snap.open = {} /\ queue = <<>>
  BY <1>1 DEF Sound, BookInv, ReadTrue, Books
<1>3. Reached' /\ ReadTrue' /\ SendTrue' /\ SimTypeOK'
  BY <1>1, <1>2 DEF Sound, BookInv, Reached, ReadTrue, SendTrue, SimTypeOK, simVars
<1>4. NoneDue' /\ ~Starting'
  BY <1>1, <1>2 DEF NoneDue, Settled, simVars
<1> QED
  BY <1>3, <1>4 DEF BookInv, Books

LEMMA StartupKeeps ==
  ASSUME Sound, Startup \/ OperatorClears PROVE BookInv'
<1>1. CASE Restart /\ UNCHANGED simVars
  BY <1>1 DEF Restart, Sound, BookInv, Reached, ReadTrue, SendTrue, SimTypeOK, Books, simVars
<1>2. CASE Recover /\ UNCHANGED simVars
  BY <1>2, RecoverKeeps
<1>3. CASE RecoverOrders /\ UNCHANGED simVars
  <2>1. pc = "recover_orders"
    BY <1>3 DEF RecoverOrders
  <2>2. loc.snap.open = {}
    BY <2>1 DEF Sound, BookInv, ReadTrue
  <2>3. /\ pc' = "recovered" /\ rt' = rt /\ loc' = NoLocals
        /\ \A c \in Cids : orders'[c].status \in {orders[c].status, "abandoned"}
    BY <1>3, <2>2, RecoverOrdersDoes DEF Sound
  <2>4. Reached' /\ ReadTrue'
    BY <2>1, <2>3, NoLocalsType DEF Sound, BookInv, Reached, ReadTrue
  <2>5. ~Starting /\ ~Starting' /\ Calm /\ Calm' /\ Booting
    BY <2>1, <2>3 DEF Calm, Booting
  <2>6. vstop' \in Stops /\ side' \in Targets
    BY <1>3 DEF Sound, BookInv, SimTypeOK, simVars
  <2> QED
    BY <1>3, <2>3, <2>4, <2>5, <2>6, CalmKeeps DEF simVars
<1>4. CASE (Start \/ ClearHalt) /\ side' = RecoveredSide /\ UNCHANGED <<pos, vstop, queue, crashes, fires>>
  <2>1. pc = "recovered" /\ pc' = "idle" /\ loc' = NoLocals /\ orders' = orders
    BY <1>4 DEF Start, ClearHalt, Idle
  <2>2. rt.size \in Int
    BY DEF Sound, RouterTypeOK, Routers
  <2>3. side' \in Targets
    BY <1>4, <2>2 DEF RecoveredSide, Sign, Targets, Sound, BookInv, SimTypeOK
  <2>4. NoneDue
    BY <2>1 DEF Sound, BookInv, Books, OneDue, TwoDue, Booting
  <2>5. rt'.size = rt.size /\ rt'.state \notin Pending
    <3>1. CASE Start
      BY <2>1, <2>4, <3>1 DEF Start, NoneDue
    <3>2. CASE ClearHalt
      <4>1. Settled(rt.size) \in {"OPEN", "FLAT"}
        BY DEF Settled
      <4>2. Commit([rt EXCEPT !.state = Settled(rt.size)])
        BY <3>2 DEF ClearHalt
      <4> QED
        BY <4>1, <4>2, CommitStateDoes DEF Sound
    <3> QED
      BY <1>4, <3>1, <3>2
  <2>6. Reached' /\ ReadTrue' /\ SendTrue' /\ SimTypeOK'
    BY <1>4, <2>1, <2>3, NoLocalsType DEF Sound, BookInv, Reached, ReadTrue, SendTrue, SimTypeOK
  <2>7. NoneDue' /\ ~Starting'
    BY <1>4, <2>1, <2>4, <2>5 DEF NoneDue
  <2> QED
    BY <2>6, <2>7 DEF BookInv, Books
<1> QED
  BY <1>1, <1>2, <1>3, <1>4 DEF Startup, OperatorClears

-----------------------------------------------------------------------------
(* The invariant is inductive.                                              *)

LEMMA BarIsRouterStep ==
  ASSUME Bar PROVE RouterStep
<1>1. CASE StartBar \/ BarShutdown
  BY <1>1 DEF RouterStep
<1>2. CASE \E kill \in Kills \ {"shutdown"}, bar \in Bars, target \in Targets :
             \/ \E qty \in -1..MaxQty : \/ BarEnter(kill, bar, target, qty)
                                        \/ BarNoOrder(kill, bar, target, qty)
             \/ BarExit(kill, bar, target)
  <2>1. PICK kill \in Kills, bar \in Bars, target \in Targets :
             \/ \E qty \in -1..MaxQty : \/ BarEnter(kill, bar, target, qty)
                                        \/ BarNoOrder(kill, bar, target, qty)
             \/ BarExit(kill, bar, target)
    BY <1>2
  <2>2. kill \in {"run", "pause", "shutdown"}
    BY SimAssumption
  <2>3. \E qty \in Int : \/ BarEnter(kill, bar, target, qty)
                         \/ BarExit(kill, bar, target)
                         \/ BarNoOrder(kill, bar, target, qty)
    BY <2>1, RouterAssumption
  <2> QED
    BY <2>2, <2>3 DEF RouterStep
<1> QED
  BY <1>1, <1>2 DEF Bar

LEMMA PumpIsRouterStep ==
  ASSUME Sound, Pump PROVE RouterStep
<1>1. \/ \E c \in Cids : OnOrderUpdate(c, "filled")
      \/ \E c \in Cids, s \in Sides, k \in Nat : OnFill(c, s, k)
  BY PumpDoes DEF PumpOne, PumpTwo
<1> QED
  BY <1>1 DEF RouterStep

\* Seen from the router, a step of the paper trader is a router step.
LEMMA NextIsRouterStep ==
  ASSUME Sound, Next PROVE RouterStep
<1>1. CASE Snapshot
  <2>1. SimSnapshot \in Snapshots
    BY DEF SimSnapshot, Snapshots, Sound, BookInv, SimTypeOK
  <2> QED
    BY <1>1, <2>1 DEF Snapshot, RouterStep
<1>2. CASE Submit \/ SubmitAnswered
  BY <1>2 DEF Submit, SubmitAnswered, RouterStep
<1>3. CASE Crash \/ PlaceStop \/ CancelStop
  BY <1>3 DEF Crash, PlaceStop, CancelStop, DieAfterSave, RouterStep
<1>4. CASE StopFires
  <2>1. CASE DieAfterSave
    BY <2>1 DEF DieAfterSave, RouterStep
  <2>2. CASE OnFill(Venue, ClosingSide(pos), Magnitude(pos))
    <3>1. ClosingSide(pos) \in Sides /\ Magnitude(pos) \in Nat
      BY DEF ClosingSide, Magnitude, Sound, BookInv, SimTypeOK
    <3> QED
      BY <2>2, <3>1 DEF RouterStep
  <2> QED
    BY <1>4, <2>1, <2>2 DEF StopFires
<1>5. CASE Fast \/ Reconcile \/ Send \/ Startup \/ OperatorClears
  BY <1>5 DEF Fast, Reconcile, Send, Startup, OperatorClears, RouterStep
<1> QED
  BY <1>1, <1>2, <1>3, <1>4, <1>5, BarIsRouterStep, PumpIsRouterStep DEF Next, Step

LEMMA BookStep ==
  ASSUME Sound, Next PROVE BookInv'
<1>1. CASE Crash
  BY <1>1, DeathKeeps DEF Crash, Sound, BookInv, SimTypeOK
<1>2. CASE Send
  BY <1>2, MarkPendingKeeps, HaltClosedKeeps DEF Send
<1> QED
  BY <1>1, <1>2, SnapshotKeeps, SubmitKeeps, AnsweredKeeps, PumpKeeps, PlaceKeeps, CancelKeeps,
     FireKeeps, BarKeeps, FastKeeps, ReconcileKeeps, StartupKeeps DEF Next, Step

\* The first process starts on an empty database and a flat account.
THEOREM SimInit == Init => Sound
<1> SUFFICES ASSUME Init PROVE Sound
  OBVIOUS
<1>1. RouterTypeOK /\ RouterInv
  BY RouterInitInv DEF Init
<1>2. pc = "down" /\ loc = NoLocals /\ orders = [c \in Cids |-> NoOrder]
  BY DEF Init, RouterInit
<1>3. SimTypeOK
  BY SimAssumption DEF Init, SimTypeOK, Targets
<1>4. Reached /\ ReadTrue /\ SendTrue /\ Books
  BY <1>2, NoLocalsType DEF Init, Reached, ReadTrue, SendTrue, Books, NoOrder
<1> QED
  BY <1>1, <1>3, <1>4 DEF Sound, BookInv

\* Every step of the router, of SimExecutor, of a loop, of the operator, and every
\* death of the process keeps it.
THEOREM SimStep == Sound /\ [Next]_vars => Sound'
<1> SUFFICES ASSUME Sound, [Next]_vars PROVE Sound'
  OBVIOUS
<1>1. CASE Next
  <2>1. RouterTypeOK' /\ RouterInv'
    BY <1>1, NextIsRouterStep, RouterStepPreserves DEF Sound
  <2> QED
    BY <1>1, <2>1, BookStep DEF Sound
<1>2. CASE UNCHANGED vars
  <2>1. RouterTypeOK' /\ RouterInv'
    BY <1>2, RouterStutter DEF vars, Sound
  <2>2. UNCHANGED <<rt, row, orders, pc, loc, pos, vstop, queue, side, crashes, fires>>
    BY <1>2 DEF vars, routerVars, simVars
  <2>3. SimTypeOK' /\ Reached' /\ ReadTrue' /\ SendTrue'
    BY <2>2 DEF Sound, BookInv, SimTypeOK, Reached, ReadTrue, SendTrue, Asked
  <2>4. Books'
    BY <2>2 DEF Sound, BookInv, Books, NoneDue, OneDue, TwoDue, Booting, Update, Fill
  <2> QED
    BY <2>1, <2>3, <2>4 DEF Sound, BookInv
<1> QED
  BY <1>1, <1>2

\* The paper trader, through any crashes and stops: types, the router's invariant,
\* and a queue that owes the router exactly what the account is ahead by.
THEOREM SimInvariant == Spec => []Sound
BY SimInit, SimStep, PTL DEF Spec

\* With no handler running and no event queued, the router, its row and the paper
\* account hold the same position and nothing is pending: the queue always owes
\* the router exactly what the account is ahead of it by.
THEOREM BooksAlwaysAgree == Spec => []BooksAgree
<1>1. Sound => BooksAgree
  <2> SUFFICES ASSUME Sound, Quiet PROVE rt.size = pos /\ row = Image(rt) /\ rt.state \notin Pending
    BY DEF BooksAgree
  <2>1. NoneDue
    BY Lengths DEF Quiet, Sound, BookInv, Books, OneDue, TwoDue
  <2>2. row = Image(rt)
    BY DEF Quiet, Sound, RouterInv, RowSaved, Unsaved
  <2> QED
    BY <2>1, <2>2 DEF NoneDue, Quiet
<1> QED
  BY <1>1, SimInvariant, PTL

\* reconcile_now never halts a router over a fill that is only on its way: when
\* diff() reports a size mismatch the router is frozen already.
THEOREM NeverPhantomHalt == Spec => []NoPhantomHalt
<1>1. Sound => NoPhantomHalt
  BY MismatchIsFrozen DEF NoPhantomHalt
<1> QED
  BY <1>1, SimInvariant, PTL

-----------------------------------------------------------------------------
(* Stops: with nothing queued, the only places where a position may be      *)
(* without its stop are the ones about to place it.                         *)

Guarded ==
  ~Starting /\ pc \notin {"recover_place", "replace_stop"} /\ queue = <<>> /\ pos # 0 =>
    vstop # "none" /\ rt.stop = vstop

LEMMA GuardFrame ==
  ASSUME Guarded, ~Starting, pc \notin {"recover_place", "replace_stop"},
         rt'.stop = rt.stop, UNCHANGED <<vstop, pos, queue>>
  PROVE  Guarded'
BY DEF Guarded

\* Orders, snapshots and the ends of handlers leave the stop alone.
LEMMA StopUntouched ==
  ASSUME Sound, Snapshot \/ SubmitAnswered \/ Bar \/ Fast \/ Reconcile \/ Send
  PROVE  rt'.stop = rt.stop /\ UNCHANGED <<vstop, pos, queue>>
         /\ ((pc = "boot_snap" /\ pc' = "recover") \/ (~Starting /\ pc \notin {"recover_place", "replace_stop"}))
<1>1. CASE Snapshot
  BY <1>1 DEF Snapshot, SnapshotReturns, AfterSnapshot, simVars
<1>2. CASE SubmitAnswered
  BY <1>2, AnsweredDoes, AcceptedDoes DEF AckAccepted, Sound, simVars
<1>3. ASSUME NEW n \in Int, NEW cl \in BOOLEAN, WriteExit(n, cl) PROVE rt'.stop = rt.stop
  BY <1>3, WriteExitDoes DEF Sound
<1>4. rt.size \in Int /\ pos \in Int
  BY DEF Sound, RouterTypeOK, Routers, BookInv, SimTypeOK
<1>5. CASE Bar
  <2>1. CASE StartBar
    BY <1>5, <2>1 DEF Bar, StartBar
  <2>2. CASE BarShutdown
    BY <1>3, <1>4, <1>5, <2>2, ShutdownDoes DEF Bar
  <2>3. ASSUME NEW kill, NEW bar, NEW target \in Targets, NEW qty \in -1..MaxQty,
               BarEnter(kill, bar, target, qty)
        PROVE  rt'.stop = rt.stop /\ pc = "bar"
    <3> DEFINE s == IF target > 0 THEN "buy" ELSE "sell"
    <3>1. WriteOrder(s, qty, FALSE, FALSE) /\ s \in Sides /\ pc = "bar" /\ qty >= 0
      BY <2>3 DEF BarEnter
    <3>2. qty \in Nat
      BY <3>1, RouterAssumption
    <3> HIDE DEF s
    <3> QED
      BY <3>1, <3>2, WriteOrderDoes DEF Sound
  <2>4. ASSUME NEW kill, NEW bar, NEW target, NEW qty,
               BarNoOrder(kill, bar, target, qty) \/ BarExit(kill, bar, target)
        PROVE  rt'.stop = rt.stop /\ pc = "bar"
    BY <1>3, <1>4, <2>4 DEF BarNoOrder, BarExit
  <2> QED
    BY <1>5, <2>1, <2>2, <2>3, <2>4 DEF Bar
<1>6. CASE Fast
  BY <1>3, <1>4, <1>6 DEF Fast, StartFast, NothingPending, FastExit, FastNothing, simVars
<1>7. CASE Reconcile
  BY <1>7, CheckSizeDoes DEF Reconcile, StartReconcile, CheckMissingStop, ReconcileEnds, simVars
<1>8. CASE Send
  <2>1. CASE MarkPending
    BY <1>8, <2>1, MarkPendingDoes DEF Send, MarkPending, Sound, simVars
  <2>2. CASE HaltClosed
    BY <1>8, <2>2, CommitStateDoes DEF Send, HaltClosed, Sound, simVars
  <2> QED
    BY <1>8, <2>1, <2>2 DEF Send
<1> QED
  BY <1>1, <1>2, <1>5, <1>6, <1>7, <1>8

LEMMA GuardStep ==
  ASSUME Sound, Sound', Guarded, [Next]_vars PROVE Guarded'
<1>0. CASE UNCHANGED vars
  BY <1>0 DEF Guarded, vars, routerVars, simVars
<1>1. CASE Snapshot \/ SubmitAnswered \/ Bar \/ Fast \/ Reconcile \/ Send
  <2>1. CASE pc = "boot_snap" /\ pc' = "recover"
    BY <2>1 DEF Guarded
  <2>2. CASE ~Starting /\ pc \notin {"recover_place", "replace_stop"}
    BY <1>1, <2>2, StopUntouched, GuardFrame
  <2> QED
    BY <1>1, <2>1, <2>2, StopUntouched
<1>2. CASE Die
  BY <1>2 DEF Die, Guarded
<1>3. CASE Submit \/ StopFires
  <2>1. CASE StopFires
    BY <2>1 DEF StopFires, Guarded
  <2>2. CASE Submit
    <3>1. pc' = "ack"
      BY <2>2 DEF Submit, SubmitCalled
    <3>2. queue' # <<>>
      BY <3>1, Lengths DEF Sound, BookInv, Books, NoneDue, OneDue, TwoDue
    <3> QED
      BY <3>2 DEF Guarded
  <2> QED
    BY <1>3, <2>1, <2>2
<1>4. CASE Pump
  <2>1. CASE \E c \in Cids, s \in Sides, k \in Nat : PumpOne(c, s, k)
    <3>1. PICK c \in Cids, s \in Sides, k \in Nat : PumpOne(c, s, k)
      BY <2>1
    <3>2. CASE queue' = <<Fill(c, s, k)>>
      BY <3>2, Lengths DEF Guarded
    <3>3. CASE OnFill(c, s, k) /\ queue' = <<>>
      <4>1. pos = rt.size + Signed(s, k) /\ pc = "idle" /\ pos' = pos
        BY <1>4, <3>1, PumpDoes DEF PumpOne, OneDue
      <4>2. FillResult(c, pos)
        BY <3>3, <4>1, FillDoes DEF Sound, BookInv
      <4>3. /\ rt.state \in Pending \cup Frozen
            /\ rt.state \in Pending => rt.pend = c /\ (rt.state = "EXIT_PENDING" => pos = 0)
        BY <3>1, <4>1 DEF PumpOne, OneDue
      <4>4. pos' = 0 \/ pc' = "replace_stop"
        BY <4>1, <4>2, <4>3 DEF FillResult
      <4> QED
        BY <4>4 DEF Guarded
    <3> QED
      BY <3>1, <3>2, <3>3 DEF PumpOne
  <2>2. CASE \E c, d \in Cids, s, t \in Sides, k, m \in Nat : PumpTwo(c, s, k, d, t, m)
    <3>1. queue' # <<>>
      BY <2>2, Lengths DEF PumpTwo
    <3> QED
      BY <3>1 DEF Guarded
  <2> QED
    BY <1>4, <2>1, <2>2, PumpDoes
<1>5. CASE PlaceStop /\ ~Die
  BY <1>5, PlacedDoes DEF PlaceStop, DieAfterSave, Sound, Guarded
<1>6. CASE CancelStop /\ ~Die
  <2>1. pc \in {"flat_cancel", "orphan_cancel"} /\ pos' = pos /\ queue' = queue
    BY <1>6 DEF CancelStop, DieAfterSave, Sound, BookInv, Reached
  <2>2. pos = 0
    <3>1. CASE pc = "orphan_cancel"
      BY <3>1 DEF Sound, BookInv, ReadTrue
    <3>2. CASE pc = "flat_cancel"
      BY <3>2 DEF Sound, BookInv, Books, NoneDue, OneDue, TwoDue, RouterInv, SizeKnown
    <3> QED
      BY <2>1, <3>1, <3>2
  <2> QED
    BY <2>1, <2>2 DEF Guarded
<1>7. CASE Startup \/ OperatorClears
  <2>1. CASE Restart
    BY <2>1 DEF Restart, Guarded
  <2>2. CASE Recover /\ UNCHANGED simVars
    <3>1. loc.snap.pos = pos /\ loc.snap.stop = vstop
      BY <2>2 DEF Recover, Sound, BookInv, ReadTrue
    <3>2. /\ loc.snap.pos # 0 => rt'.stop = loc.snap.stop
          /\ IF loc.snap.pos # 0 /\ loc.snap.stop = "none"
               THEN pc' = "recover_place" ELSE pc' = "recover_orders"
      BY <2>2, RecoverDoes DEF Sound
    <3> QED
      BY <2>2, <3>1, <3>2 DEF Guarded, simVars
  <2>3. CASE RecoverOrders /\ UNCHANGED simVars
    <3>1. pc = "recover_orders" /\ rt' = rt
      BY <2>3, RecoverOrdersDoes DEF RecoverOrders, Sound, BookInv, ReadTrue
    <3> QED
      BY <2>3, <3>1, GuardFrame DEF simVars
  <2>4. CASE (Start \/ ClearHalt) /\ UNCHANGED <<pos, vstop, queue>>
    <3>1. CASE Start
      BY <2>4, <3>1, GuardFrame DEF Start
    <3>2. CASE ClearHalt
      <4>1. Settled(rt.size) \in States
        BY DEF Settled
      <4>2. Commit([rt EXCEPT !.state = Settled(rt.size)]) /\ pc = "recovered"
        BY <3>2 DEF ClearHalt
      <4>3. rt'.stop = rt.stop
        BY <4>1, <4>2, CommitStateDoes DEF Sound
      <4> QED
        BY <2>4, <4>2, <4>3, GuardFrame
    <3> QED
      BY <2>4, <3>1, <3>2
  <2> QED
    BY <1>7, <2>1, <2>2, <2>3, <2>4 DEF Startup, OperatorClears
<1> QED
  BY <1>0, <1>1, <1>2, <1>3, <1>4, <1>5, <1>6, <1>7 DEF Next, Step, Crash

\* With no handler running and no event queued, a position on the paper account
\* has a stop and the router knows which, wherever the process died before.
THEOREM PositionsGuarded == Spec => []GuardedWhenQuiet
<1>1. Init => Guarded
  BY DEF Init, RouterInit, Guarded
<1>2. Guarded => GuardedWhenQuiet
  BY DEF Guarded, GuardedWhenQuiet, Quiet
<1>3. Sound /\ Sound' /\ Guarded /\ [Next]_vars => Guarded'
  BY GuardStep
<1> QED
  BY <1>1, <1>2, <1>3, SimInvariant, PTL DEF Spec

-----------------------------------------------------------------------------
(* What the strategy believes.                                              *)

\* on_recover and on_flatten tell the strategy of the router's side; target() moves
\* it when it asks for an entry.  While an entry is pending it is on the account's
\* side, and while one is being sent on the order's.
Believed ==
  /\ Booting => side = 0
  /\ ~Booting /\ pc \notin {"mark_pending", "flat_cancel"} =>
       /\ rt.state = "OPEN" => side = Sign(rt.size)
       /\ rt.state = "FLAT" => side = 0 \/ missed
       /\ rt.state = "ENTRY_PENDING" /\ pos # 0 => side = Sign(pos)
  /\ pc \in {"mark_pending", "submit"} /\ ~Asked.reduce /\ Asked.qty # 0 =>
       side = Sign(Signed(Asked.side, Asked.qty))

LEMMA HaltNextIsNext ==
  ASSUME HaltNext PROVE Next
BY DEF HaltNext, Next

LEMMA MissedStays ==
  ASSUME HaltNext, missed \/ Passed, side' # 0 PROVE missed'
<1>1. missed' = (side' # 0 /\ (missed \/ Passed))
  BY DEF HaltNext
<1> QED
  BY <1>1, Zenon

\* The router's state and size, the account and the strategy stay as they are.
LEMMA BeliefFrame ==
  ASSUME Believed, HaltNext, ~Booting, pc \notin {"mark_pending", "flat_cancel"},
         ~Booting', pc' \notin {"mark_pending", "flat_cancel", "submit"},
         side' = side, pos' = pos \/ pos' = 0, rt'.size = rt.size \/ rt'.state # "OPEN",
         rt'.state = rt.state \/ rt'.state \in Frozen
  PROVE  Believed'
<1>1. rt'.state = "FLAT" => side' = 0 \/ missed'
  BY MissedStays DEF Believed
<1> QED
  BY <1>1 DEF Believed

\* A handler in its send, or a booting process, holds no belief to keep.
LEMMA BeliefPlaces ==
  ASSUME side' = 0, Booting' PROVE Believed'
BY DEF Believed, Booting

LEMMA ExitIgnoresBelief ==
  ASSUME pc' = "mark_pending", orders'[loc'.cid].reduce = TRUE PROVE Believed'
BY DEF Believed, Booting, Asked

LEMMA BarBelief ==
  ASSUME Sound, Believed, HaltNext, Bar PROVE Believed'
<1>1. rt.size \in Int /\ pos \in Int /\ side \in Targets
  BY DEF Sound, BookInv, SimTypeOK, RouterTypeOK, Routers
<1>2. UNCHANGED <<pos, vstop, queue, crashes, fires>>
  BY DEF Bar
<1>3. CASE StartBar /\ UNCHANGED side
  <2>1. pc = "idle" /\ pc' = "bar_snap" /\ rt' = rt
    BY <1>3 DEF StartBar
  <2> QED
    BY <1>2, <1>3, <2>1, BeliefFrame DEF Booting
<1>4. CASE BarShutdown /\ UNCHANGED side
  <2>1. CASE WriteExit(pos, TRUE)
    BY <1>1, <2>1, WriteExitDoes, ExitIgnoresBelief DEF Sound
  <2>2. CASE ~WriteExit(pos, TRUE)
    <3>1. /\ pc = "bar" /\ pc' = "idle" /\ rt'.size = rt.size
          /\ rt'.state = rt.state \/ rt'.state \in Frozen
      BY <1>4, <2>2, ShutdownDoes DEF Idle
    <3> QED
      BY <1>2, <1>4, <3>1, BeliefFrame DEF Booting
  <2> QED
    BY <2>1, <2>2
<1>5. ASSUME NEW kill \in Kills, NEW bar \in Bars, NEW target \in Targets, NEW qty \in -1..MaxQty,
             BarEnter(kill, bar, target, qty), side' = SideAfterBar(bar, target)
      PROVE  Believed'
  <2> DEFINE s == IF target > 0 THEN "buy" ELSE "sell"
  <2>1. WriteOrder(s, qty, FALSE, FALSE) /\ s \in Sides /\ qty >= 0 /\ side' = target /\ target # 0
    BY <1>5 DEF BarEnter, WantsEntry, SideAfterBar
  <2>2. qty \in Nat
    BY <2>1, RouterAssumption
  <2>3. qty # 0 => Sign(Signed(s, qty)) = target
    BY <2>1, <2>2 DEF Sign, Signed, Targets
  <2> HIDE DEF s
  <2>4. /\ pc' = "mark_pending"
        /\ orders'[loc'.cid].side = s /\ orders'[loc'.cid].qty = qty
    BY <2>1, <2>2, WriteOrderDoes DEF Sound
  <2> QED
    BY <2>1, <2>3, <2>4 DEF Believed, Booting, Asked
<1>6. ASSUME NEW kill \in Kills, NEW bar \in Bars, NEW target \in Targets, BarExit(kill, bar, target)
      PROVE  Believed'
  <2>1. WriteExit(rt.size, FALSE)
    BY <1>6 DEF BarExit
  <2> QED
    BY <1>1, <2>1, WriteExitDoes, ExitIgnoresBelief DEF Sound
<1>7. ASSUME NEW kill \in Kills, NEW bar \in Bars, NEW target \in Targets, NEW qty \in -1..MaxQty,
             BarNoOrder(kill, bar, target, qty), side' = SideAfterBar(bar, target)
      PROVE  Believed'
  <2>1. /\ pc = "bar" /\ pc' = "idle" /\ rt' = rt /\ ~WantsExit(bar, target)
    BY <1>7 DEF BarNoOrder, Idle
  <2>2. rt.state = "FLAT" => side' = 0 \/ missed'
    BY <2>1, MissedStays DEF Passed
  <2>3. rt.state = "OPEN" => side' = Sign(rt.size)
    <3>1. rt.state = "OPEN" => rt.size # 0 /\ side = Sign(rt.size)
      BY <2>1 DEF Believed, Booting, Sound, RouterInv, SizeKnown, Unsettled
    <3>2. CASE rt.state = "OPEN" /\ bar = "ok"
      <4>1. side' = target /\ target # 0 /\ ~Flips(target)
        BY <1>7, <2>1, <3>2 DEF SideAfterBar, WantsExit
      <4> QED
        BY <1>1, <3>1, <4>1 DEF Flips, Sign, Targets
    <3>3. CASE rt.state = "OPEN" /\ bar # "ok"
      BY <1>7, <3>1, <3>3 DEF SideAfterBar
    <3> QED
      BY <3>2, <3>3
  <2>4. rt.state = "ENTRY_PENDING" => side' = side
    BY <1>7 DEF SideAfterBar
  <2>5. rt.state = "ENTRY_PENDING" /\ pos # 0 => side' = Sign(pos)
    BY <2>1, <2>4 DEF Believed, Booting
  <2> QED
    BY <1>2, <2>1, <2>2, <2>3, <2>5 DEF Believed, Booting
<1> QED
  BY <1>3, <1>4, <1>5, <1>6, <1>7 DEF Bar

LEMMA FillBelief ==
  ASSUME Sound, Believed, HaltNext, Pump PROVE Believed'
<1>0. pc = "idle" /\ pos' = pos /\ side' = side /\ rt.state \in States
  BY PumpDoes DEF Sound, RouterTypeOK, Routers
<1>1. ASSUME NEW c \in Cids, OnOrderUpdate(c, "filled") PROVE Believed'
  <2>1. pc' = "idle" /\ rt' = rt
    BY <1>1, UpdateDoes DEF Sound
  <2> QED
    BY <1>0, <2>1, BeliefFrame DEF Booting
<1>2. ASSUME NEW c \in Cids, NEW s \in Sides, NEW k \in Nat, OneDue(c, s, k), OnFill(c, s, k)
      PROVE  Believed'
  <2>1. pos = rt.size + Signed(s, k)
    BY <1>2 DEF OneDue
  <2>2. FillResult(c, pos)
    BY <1>2, <2>1, FillDoes DEF Sound, BookInv
  <2>3. /\ rt.state \in Pending \cup Frozen
        /\ rt.state \in Pending => rt.pend = c /\ (rt.state = "EXIT_PENDING" => pos = 0)
    BY <1>0, <1>2 DEF OneDue
  <2>4. rt.state = "ENTRY_PENDING" /\ pos # 0 => side = Sign(pos)
    BY <1>0 DEF Believed, Booting
  <2>5. \/ pc' = "flat_cancel"
        \/ pc' = "replace_stop" /\ rt'.state = "OPEN" /\ rt'.size = pos /\ side' = Sign(pos)
        \/ pc' = "replace_stop" /\ rt'.state \in Frozen
    BY <1>0, <2>2, <2>3, <2>4 DEF FillResult
  <2> QED
    BY <2>5 DEF Believed, Booting
<1>3. ASSUME NEW c \in Cids, NEW d \in Cids, NEW s \in Sides, NEW t \in Sides, NEW k \in Nat,
             NEW m \in Nat, TwoDue(c, s, k, d, t, m), OnFill(c, s, k)
      PROVE  Believed'
  <2>1. rt.size = 0 /\ rt.state \in Frozen /\ Signed(s, k) \in Int
    BY <1>0, <1>3 DEF TwoDue, Signed
  <2>2. Signed(s, k) = rt.size + Signed(s, k) /\ Signed(s, k) # 0
    BY <1>3, <2>1 DEF TwoDue
  <2>3. FillResult(c, Signed(s, k))
    BY <1>3, <2>2, FillDoes DEF Sound, BookInv
  <2>4. pc' = "replace_stop" /\ rt'.state \in Frozen
    BY <2>1, <2>2, <2>3 DEF FillResult
  <2> QED
    BY <2>4 DEF Believed, Booting
<1> QED
  BY <1>1, <1>2, <1>3, PumpDoes DEF PumpOne, PumpTwo

LEMMA FireBelief ==
  ASSUME Sound, Believed, HaltNext, StopFires, ~DieAfterSave PROVE Believed'
<1>1. /\ pc = "idle" /\ pos # 0 /\ pos' = 0 /\ side' = side
      /\ OnFill(Venue, ClosingSide(pos), Magnitude(pos))
  BY DEF StopFires
<1>2. FillResult(Venue, rt.size - pos)
  BY <1>1, StopFillDoes
<1>3. rt.size \in Int /\ pos \in Int /\ Venue # rt.pend
  BY RouterAssumption DEF Sound, RouterTypeOK, Routers, BookInv, SimTypeOK, Venue, Cids, NoCid
<1>4. CASE NoneDue
  <2>1. pc' = "flat_cancel"
    BY <1>2, <1>3, <1>4 DEF NoneDue, FillResult
  <2> QED
    BY <2>1 DEF Believed, Booting
<1>5. CASE \E c \in Cids, s \in Sides, k \in Nat : OneDue(c, s, k)
  <2>1. rt.size = 0 /\ rt.state \in {"ENTRY_PENDING"} \cup Frozen
    BY <1>1, <1>5 DEF OneDue
  <2>2. rt'.state = rt.state /\ pc' \in {"idle", "replace_stop"}
    BY <1>1, <1>2, <1>3, <2>1 DEF FillResult
  <2> QED
    BY <1>1, <2>1, <2>2, BeliefFrame DEF Booting
<1> QED
  BY <1>1, <1>4, <1>5, HeldNotTwoDue DEF Sound

LEMMA SendBelief ==
  ASSUME Sound, Believed, HaltNext, Submit \/ SubmitAnswered \/ Send PROVE Believed'
<1>1. CASE Submit
  <2>1. /\ pc = "submit" /\ pc' = "ack" /\ rt' = rt /\ orders' = orders /\ loc' = loc /\ side' = side
        /\ Asked \in OrderRows /\ pos' = pos + Signed(Asked.side, Asked.qty)
        /\ ~Asked.reduce => pos = 0
    BY <1>1, SubmitDoes
  <2>2. rt.state = IF Asked.reduce THEN "EXIT_PENDING" ELSE "ENTRY_PENDING"
    BY <2>1 DEF Sound, BookInv, SendTrue
  <2>3. ASSUME ~Asked.reduce, pos' # 0 PROVE side' = Sign(pos')
    <3>1. pos' = Signed(Asked.side, Asked.qty)
      BY <2>1, <2>3 DEF OrderRows, Signed
    <3>2. Asked.qty # 0
      BY <2>3, <3>1 DEF Signed
    <3>3. side = Sign(Signed(Asked.side, Asked.qty))
      BY <2>1, <2>3, <3>2 DEF Believed
    <3> QED
      BY <2>1, <3>1, <3>3 DEF Sign
  <2> QED
    BY <2>1, <2>2, <2>3 DEF Believed, Booting
<1>2. CASE SubmitAnswered
  <2>1. /\ pc = "ack" /\ pc' \in {"idle", "halt_closed"} /\ rt' = rt /\ pos' = pos /\ side' = side
    BY <1>2, AnsweredDoes, AcceptedDoes DEF AckAccepted, Sound, simVars
  <2> QED
    BY <2>1, BeliefFrame DEF Booting
<1>3. CASE Send
  <2>1. CASE MarkPending
    <3>1. /\ pc = "mark_pending" /\ pc' = "submit" /\ orders' = orders /\ loc'.cid = loc.cid
          /\ rt'.state = IF Asked.reduce THEN "EXIT_PENDING" ELSE "ENTRY_PENDING"
          /\ pos' = pos /\ side' = side
      BY <1>3, <2>1, MarkPendingDoes DEF MarkPending, Send, Sound, Asked, simVars
    <3>2. ~Asked.reduce => pos = 0
      BY <3>1 DEF Sound, BookInv, SendTrue
    <3> QED
      BY <3>1, <3>2 DEF Believed, Booting, Asked
  <2>2. CASE HaltClosed
    <3>1. pc' = "idle" /\ rt'.state = "HALTED"
      BY <2>2, CommitStateDoes DEF HaltClosed, Idle, Sound
    <3> QED
      BY <3>1 DEF Believed, Booting
  <2> QED
    BY <1>3, <2>1, <2>2 DEF Send
<1> QED
  BY <1>1, <1>2, <1>3

LEMMA StopBelief ==
  ASSUME Sound, Believed, HaltNext, PlaceStop \/ CancelStop, ~DieAfterSave PROVE Believed'
<1>1. CASE PlaceStop
  <2>1. /\ StopPlaced /\ side' = side /\ pos' = pos
        /\ pc \in {"replace_stop", "missing_place", "recover_place"}
    BY <1>1 DEF PlaceStop, Sound, BookInv, Reached
  <2>2. /\ rt'.state = rt.state /\ rt'.size = rt.size
        /\ pc = "replace_stop" => pc' = "idle"
        /\ pc = "missing_place" => pc' = "size"
        /\ pc = "recover_place" => pc' = "recover_orders"
    BY <2>1, PlacedDoes DEF Sound
  <2>3. CASE pc = "recover_place"
    BY <2>1, <2>2, <2>3 DEF Believed, Booting
  <2>4. CASE pc # "recover_place"
    BY <2>1, <2>2, <2>4, BeliefFrame DEF Booting
  <2> QED
    BY <2>3, <2>4
<1>2. CASE CancelStop
  <2>1. /\ StopCancelled /\ side' = SideAfterCancel /\ pos' = pos
        /\ pc \in {"flat_cancel", "orphan_cancel"}
    BY <1>2 DEF CancelStop, Sound, BookInv, Reached
  <2>2. CASE pc = "flat_cancel"
    <3>1. pc' = "idle" /\ rt'.state \in Frozen \cup {"FLAT"} /\ side' = 0
      BY <2>1, <2>2, CancelledDoes DEF Sound, SideAfterCancel
    <3> QED
      BY <3>1 DEF Believed, Booting
  <2>3. CASE pc = "orphan_cancel"
    <3>1. rt' = rt /\ pc' = "unknown_orders" /\ side' = side
      BY <2>1, <2>3, CancelledDoes DEF Sound, SideAfterCancel
    <3> QED
      BY <2>1, <2>3, <3>1, BeliefFrame DEF Booting
  <2> QED
    BY <2>1, <2>2, <2>3
<1> QED
  BY <1>1, <1>2

LEMMA LoopBelief ==
  ASSUME Sound, Believed, HaltNext, Snapshot \/ Fast \/ Reconcile PROVE Believed'
<1>0. pos' = pos /\ side' = side /\ rt.size \in Int
  BY DEF Snapshot, Fast, Reconcile, simVars, Sound, RouterTypeOK, Routers
<1>1. CASE Snapshot
  <2>1. rt' = rt /\ pc \in {"boot_snap", "bar_snap", "fast_snap", "rec_snap"} /\ pc' = AfterSnapshot(pc)
    BY <1>1 DEF Snapshot, SnapshotReturns, Sound, BookInv, Reached
  <2>2. CASE pc = "boot_snap"
    BY <1>0, <2>1, <2>2 DEF AfterSnapshot, Believed, Booting
  <2>3. CASE pc # "boot_snap"
    <3>1. pc' \in {"bar", "check_pending", "missing_stop"}
      BY <2>1, <2>3 DEF AfterSnapshot
    <3> QED
      BY <1>0, <2>1, <2>3, <3>1, BeliefFrame DEF Booting
  <2> QED
    BY <2>2, <2>3
<1>2. ASSUME NEW due \in BOOLEAN, FastExit(due) PROVE Believed'
  <2>1. WriteExit(rt.size, FALSE)
    BY <1>2 DEF FastExit
  <2> QED
    BY <1>0, <2>1, WriteExitDoes, ExitIgnoresBelief DEF Sound
<1>3. CASE \/ StartFast \/ NothingPending(FALSE) \/ \E due \in BOOLEAN : FastNothing(due)
           \/ StartReconcile \/ CheckMissingStop \/ CheckSize \/ ReconcileEnds
  <2>1. /\ rt' = rt /\ pc \in {"idle", "check_pending", "on_fast", "missing_stop", "size", "unknown_orders"}
        /\ pc' \in {"fast_snap", "on_fast", "idle", "rec_snap", "missing_place", "size",
                    "orphan_cancel", "unknown_orders"}
    BY <1>3, CheckSizeDoes DEF StartFast, NothingPending, FastNothing, StartReconcile,
       CheckMissingStop, ReconcileEnds, Idle
  <2> QED
    BY <1>0, <2>1, BeliefFrame DEF Booting
<1> QED
  BY <1>1, <1>2, <1>3 DEF Fast, Reconcile

LEMMA StartupBelief ==
  ASSUME Sound, Believed, Startup \/ OperatorClears PROVE Believed'
<1>1. CASE (Restart \/ Recover \/ RecoverOrders) /\ UNCHANGED simVars
  <2>1. Booting /\ Booting'
    BY <1>1, RecoverDoes DEF Restart, RecoverOrders, Recover, Booting, Sound
  <2> QED
    BY <1>1, <2>1, BeliefPlaces DEF Believed, simVars
<1>2. CASE (Start \/ ClearHalt) /\ side' = RecoveredSide /\ UNCHANGED <<pos, vstop, queue, crashes, fires>>
  <2>1. pc = "recovered" /\ pc' = "idle" /\ side = 0
    BY <1>2 DEF Start, ClearHalt, Idle, Believed, Booting
  <2>2. /\ rt'.size = rt.size /\ rt'.state # "ENTRY_PENDING"
        /\ rt'.state = "OPEN" => rt.size # 0
        /\ rt'.state = "FLAT" => rt.size = 0
    <3>1. CASE Start
      BY <2>1, <3>1 DEF Start, Sound, RouterInv, SizeKnown, Unsettled, BookInv, Books, NoneDue,
         OneDue, TwoDue, Booting
    <3>2. CASE ClearHalt
      <4>1. Settled(rt.size) \in States
        BY DEF Settled
      <4>2. Commit([rt EXCEPT !.state = Settled(rt.size)])
        BY <3>2 DEF ClearHalt
      <4>3. rt'.state = Settled(rt.size) /\ rt'.size = rt.size
        BY <4>1, <4>2, CommitStateDoes DEF Sound
      <4> QED
        BY <4>3 DEF Settled
    <3> QED
      BY <1>2, <3>1, <3>2
  <2>3. /\ rt.size # 0 => side' = Sign(rt.size)
        /\ rt.size = 0 => side' = 0
    BY <1>2, <2>1 DEF RecoveredSide
  <2> QED
    BY <2>1, <2>2, <2>3 DEF Believed, Booting
<1> QED
  BY <1>1, <1>2 DEF Startup, OperatorClears

LEMMA BeliefStep ==
  ASSUME Sound, Believed, [HaltNext]_haltVars PROVE Believed'
<1>1. CASE UNCHANGED haltVars
  BY <1>1 DEF haltVars, vars, routerVars, simVars, Believed, Booting, Asked
<1>2. CASE HaltNext
  <2>1. CASE Crash \/ DieAfterSave
    BY <2>1, BeliefPlaces DEF Crash, DieAfterSave, Die, Booting
  <2>2. CASE Bar
    BY <1>2, <2>2, BarBelief
  <2>3. CASE Pump
    BY <1>2, <2>3, FillBelief
  <2>4. CASE Submit \/ SubmitAnswered \/ Send
    BY <1>2, <2>4, SendBelief
  <2>5. CASE (StopFires \/ PlaceStop \/ CancelStop) /\ ~DieAfterSave
    BY <1>2, <2>5, FireBelief, StopBelief
  <2>6. CASE Snapshot \/ Fast \/ Reconcile
    BY <1>2, <2>6, LoopBelief
  <2>7. CASE Startup \/ OperatorClears
    BY <1>2, <2>7, StartupBelief
  <2>8. Next
    BY <1>2, HaltNextIsNext
  <2> QED
    BY <2>1, <2>2, <2>3, <2>4, <2>5, <2>6, <2>7, <2>8 DEF Next, Step
<1> QED
  BY <1>1, <1>2

\* With no handler running and no event queued, the strategy is on the side the
\* router holds, and on none when it is flat, unless it moved on an entry that a
\* guard or kill:pause did not let through.
THEOREM BeliefAlwaysTrue == HaltSpec => []BeliefTrue
<1>1. HaltInit => Sound /\ Believed
  <2>1. HaltInit => Sound
    BY SimInit DEF HaltInit
  <2>2. HaltInit => Believed
    BY DEF HaltInit, Init, RouterInit, Believed, Booting
  <2> QED
    BY <2>1, <2>2
<1>2. Sound /\ Believed /\ [HaltNext]_haltVars => (Sound /\ Believed)'
  <2> SUFFICES ASSUME Sound, Believed, [HaltNext]_haltVars PROVE Sound' /\ Believed'
    OBVIOUS
  <2>1. [Next]_vars
    BY HaltNextIsNext DEF haltVars
  <2> QED
    BY <2>1, SimStep, BeliefStep
<1>3. Sound /\ Believed => BeliefTrue
  BY DEF Believed, BeliefTrue, Quiet, Booting
<1> QED
  BY <1>1, <1>2, <1>3, PTL DEF HaltSpec

-----------------------------------------------------------------------------
(* A halt lasts until the operator clears it.                               *)

\* shutdown() has the row at EXIT_PENDING for the order that flattens.
Flattening ==
  /\ pc \in {"submit", "ack", "halt_closed"} /\ row.state = "EXIT_PENDING"
  /\ pc # "halt_closed" => loc.closing /\ Asked.reduce

\* The router follows a frozen row, and only shutdown() sends from there.
FrozenFollowed ==
  /\ pc \in {"recover_place", "flat_cancel"} /\ row.state \in Frozen => rt.state \in Frozen
  /\ pc = "mark_pending" /\ rt.state \in Frozen => loc.closing

\* A halt that was not cut short is in the database, or shutdown() is flattening.
HaltKept ==
  /\ halted \in BOOLEAN /\ cut \in BOOLEAN
  /\ row.state \in Frozen => halted
  /\ halted /\ ~cut => row.state \in Frozen \/ Flattening
  /\ FrozenFollowed

\* What a step does to a frozen row.
StaysFrozen ==
  /\ FrozenFollowed'
  /\ row.state \in Frozen => row'.state \in Frozen \/ Flattening'
  /\ Flattening => row'.state \in Frozen \/ Flattening' \/ pc' = "down"

LEMMA SavedState ==
  ASSUME Sound, ~Unsaved PROVE row.state = rt.state
BY DEF Sound, RouterInv, RowSaved, Image

\* A step outside the send that goes where nothing is claimed.
LEMMA FreezeFrame ==
  ASSUME pc \notin {"submit", "ack", "halt_closed"},
         pc' \notin {"recover_place", "flat_cancel", "mark_pending"},
         row.state \in Frozen => row'.state \in Frozen
  PROVE  StaysFrozen
BY DEF StaysFrozen, FrozenFollowed, Flattening

LEMMA ExitFreeze ==
  ASSUME Sound, pc \in {"bar", "on_fast"}, NEW n \in Int, NEW cl \in BOOLEAN, WriteExit(n, cl),
         rt.state \in Frozen => cl
  PROVE  StaysFrozen
<1>1. rt'.state = rt.state /\ row' = row /\ pc' = "mark_pending" /\ loc'.closing = cl
  BY WriteExitDoes DEF Sound
<1> QED
  BY <1>1 DEF StaysFrozen, FrozenFollowed, Flattening

LEMMA BarFreeze ==
  ASSUME Sound, Bar PROVE StaysFrozen
<1>0. rt.size \in Int /\ pos \in Int
  BY DEF Sound, BookInv, SimTypeOK, RouterTypeOK, Routers
<1>1. CASE StartBar
  BY <1>1, FreezeFrame DEF StartBar
<1>2. CASE BarShutdown
  <2>1. CASE WriteExit(pos, TRUE)
    BY <1>0, <1>2, <2>1, ExitFreeze DEF BarShutdown
  <2>2. CASE ~WriteExit(pos, TRUE)
    <3>1. pc = "bar" /\ pc' = "idle" /\ (row' = row \/ row'.state = "HALTED")
      BY <1>2, <2>2, ShutdownDoes DEF Idle
    <3> QED
      BY <3>1, FreezeFrame
  <2> QED
    BY <2>1, <2>2
<1>3. ASSUME NEW kill, NEW bar, NEW target \in Targets, NEW qty \in -1..MaxQty,
             BarEnter(kill, bar, target, qty)
      PROVE  StaysFrozen
  <2> DEFINE s == IF target > 0 THEN "buy" ELSE "sell"
  <2>1. /\ WriteOrder(s, qty, FALSE, FALSE) /\ s \in Sides /\ qty >= 0
        /\ pc = "bar" /\ rt.state = "FLAT"
    BY <1>3 DEF BarEnter, WantsEntry
  <2>2. qty \in Nat
    BY <2>1, RouterAssumption
  <2> HIDE DEF s
  <2>3. pc' = "mark_pending" /\ row' = row /\ rt'.state = rt.state
    BY <2>1, <2>2, WriteOrderDoes DEF Sound
  <2> QED
    BY <2>1, <2>3 DEF StaysFrozen, FrozenFollowed, Flattening
<1>4. ASSUME NEW kill, NEW bar, NEW target, BarExit(kill, bar, target) PROVE StaysFrozen
  <2>1. pc = "bar" /\ rt.state = "OPEN" /\ WriteExit(rt.size, FALSE)
    BY <1>4 DEF BarExit, WantsExit
  <2> QED
    BY <1>0, <2>1, ExitFreeze
<1>5. ASSUME NEW kill, NEW bar, NEW target, NEW qty, BarNoOrder(kill, bar, target, qty)
      PROVE  StaysFrozen
  BY <1>5, FreezeFrame DEF BarNoOrder, Idle
<1> QED
  BY <1>1, <1>2, <1>3, <1>4, <1>5 DEF Bar

LEMMA LoopFreeze ==
  ASSUME Sound, Snapshot \/ Fast \/ Reconcile PROVE StaysFrozen
<1>0. rt.size \in Int
  BY DEF Sound, RouterTypeOK, Routers
<1>1. CASE Snapshot
  BY <1>1, FreezeFrame DEF Snapshot, SnapshotReturns, AfterSnapshot
<1>2. ASSUME NEW due \in BOOLEAN, FastExit(due) PROVE StaysFrozen
  <2>1. pc = "on_fast" /\ rt.state = "OPEN" /\ WriteExit(rt.size, FALSE)
    BY <1>2 DEF FastExit
  <2> QED
    BY <1>0, <2>1, ExitFreeze
<1>3. CASE \/ StartFast \/ NothingPending(FALSE) \/ \E due \in BOOLEAN : FastNothing(due)
           \/ StartReconcile \/ CheckMissingStop \/ CheckSize \/ ReconcileEnds
  <2>1. /\ row' = row /\ pc \in {"idle", "check_pending", "on_fast", "missing_stop", "size", "unknown_orders"}
        /\ pc' \in {"fast_snap", "on_fast", "idle", "rec_snap", "missing_place", "size",
                    "orphan_cancel", "unknown_orders"}
    BY <1>3, CheckSizeDoes DEF StartFast, NothingPending, FastNothing, StartReconcile,
       CheckMissingStop, ReconcileEnds, Idle
  <2> QED
    BY <2>1, FreezeFrame
<1> QED
  BY <1>1, <1>2, <1>3 DEF Fast, Reconcile

LEMMA SendFreeze ==
  ASSUME Sound, FrozenFollowed, Submit \/ SubmitAnswered \/ Send PROVE StaysFrozen
<1>1. CASE Submit
  <2>1. pc = "submit" /\ pc' = "ack" /\ row' = row /\ rt' = rt /\ orders' = orders /\ loc' = loc
    BY <1>1 DEF Submit, SubmitCalled
  <2> QED
    BY <2>1 DEF StaysFrozen, FrozenFollowed, Flattening, Asked
<1>2. CASE SubmitAnswered
  <2>1. /\ pc = "ack" /\ row' = row /\ pc' = IF loc.closing THEN "halt_closed" ELSE "idle"
    BY <1>2, AnsweredDoes, AcceptedDoes DEF AckAccepted, Sound
  <2> QED
    BY <2>1 DEF StaysFrozen, FrozenFollowed, Flattening
<1>3. CASE MarkPending
  <2>1. /\ pc = "mark_pending" /\ pc' = "submit" /\ orders' = orders /\ loc'.cid = loc.cid
        /\ loc'.closing = loc.closing
        /\ row'.state = IF Asked.reduce THEN "EXIT_PENDING" ELSE "ENTRY_PENDING"
    BY <1>3, MarkPendingDoes DEF MarkPending, Sound, Asked
  <2>2. row.state = rt.state
    BY <2>1, SavedState DEF Unsaved
  <2>3. row.state \in Frozen => loc.closing /\ Asked.reduce
    BY <2>1, <2>2 DEF FrozenFollowed, Sound, BookInv, SendTrue
  <2> QED
    BY <2>1, <2>3 DEF StaysFrozen, FrozenFollowed, Flattening, Asked
<1>4. CASE HaltClosed
  <2>1. pc = "halt_closed" /\ pc' = "idle" /\ row'.state = "HALTED"
    BY <1>4, CommitStateDoes DEF HaltClosed, Idle, Sound
  <2> QED
    BY <2>1 DEF StaysFrozen, FrozenFollowed
<1> QED
  BY <1>1, <1>2, <1>3, <1>4 DEF Send

LEMMA StopFreeze ==
  ASSUME Sound, FrozenFollowed, PlaceStop \/ CancelStop, ~DieAfterSave PROVE StaysFrozen
<1>1. CASE PlaceStop
  <2>1. StopPlaced /\ pc \in {"replace_stop", "missing_place", "recover_place"}
    BY <1>1 DEF PlaceStop, Sound, BookInv, Reached
  <2>2. row'.state = rt.state /\ pc' \in {"idle", "size", "recover_orders"}
    BY <2>1, PlacedDoes DEF Sound
  <2>3. row.state \in Frozen => rt.state \in Frozen
    BY <2>1, SavedState DEF FrozenFollowed, Unsaved
  <2> QED
    BY <2>1, <2>2, <2>3, FreezeFrame
<1>2. CASE CancelStop
  <2>1. StopCancelled /\ pc \in {"flat_cancel", "orphan_cancel"}
    BY <1>2 DEF CancelStop, Sound, BookInv, Reached
  <2>2. /\ pc' \in {"idle", "unknown_orders"}
        /\ row' = row \/ (pc = "flat_cancel" /\ (rt.state \in Frozen => row'.state \in Frozen))
    BY <2>1, CancelledDoes DEF Sound
  <2>3. row.state \in Frozen => row'.state \in Frozen
    BY <2>2 DEF FrozenFollowed
  <2> QED
    BY <2>1, <2>2, <2>3, FreezeFrame
<1> QED
  BY <1>1, <1>2

\* A fill, of an order or of a stop.
LEMMA FillFreeze ==
  ASSUME Sound, NEW c, NEW n, FillResult(c, n),
         n # 0 => rt.state \in Frozen \cup {"ENTRY_PENDING"}
  PROVE  StaysFrozen /\ (row'.state \in Frozen => row.state \in Frozen) /\ pc' # "down"
<1>1. pc = "idle" /\ row.state = rt.state
  BY SavedState DEF FillResult, Unsaved
<1>2. /\ row'.state = rt'.state /\ pc' \in {"idle", "replace_stop", "flat_cancel"}
      /\ rt'.state = rt.state \/ (rt.state = "ENTRY_PENDING" /\ rt'.state = "OPEN")
  BY DEF FillResult
<1> QED
  BY <1>1, <1>2 DEF StaysFrozen, FrozenFollowed, Flattening

LEMMA PumpFreeze ==
  ASSUME Sound, Pump PROVE StaysFrozen
<1>0. pc = "idle"
  BY PumpDoes
<1>1. ASSUME NEW c \in Cids, OnOrderUpdate(c, "filled") PROVE StaysFrozen
  <2>1. pc' = "idle" /\ row' = row
    BY <1>1, UpdateDoes DEF Sound
  <2> QED
    BY <1>0, <2>1, FreezeFrame
<1>2. ASSUME NEW c \in Cids, NEW s \in Sides, NEW k \in Nat, OneDue(c, s, k), OnFill(c, s, k)
      PROVE  StaysFrozen
  <2>1. pos = rt.size + Signed(s, k)
    BY <1>2 DEF OneDue
  <2>2. FillResult(c, pos)
    BY <1>2, <2>1, FillDoes DEF Sound, BookInv
  <2>3. pos # 0 => rt.state \in Frozen \cup {"ENTRY_PENDING"}
    BY <1>0, <1>2 DEF OneDue
  <2> QED
    BY <2>2, <2>3, FillFreeze
<1>3. ASSUME NEW c \in Cids, NEW d \in Cids, NEW s \in Sides, NEW t \in Sides, NEW k \in Nat,
             NEW m \in Nat, TwoDue(c, s, k, d, t, m), OnFill(c, s, k)
      PROVE  StaysFrozen
  <2>1. rt.size = 0 /\ rt.state \in Frozen /\ Signed(s, k) \in Int
    BY <1>0, <1>3 DEF TwoDue, Signed
  <2>2. Signed(s, k) = rt.size + Signed(s, k)
    BY <2>1
  <2>3. FillResult(c, Signed(s, k))
    BY <1>3, <2>2, FillDoes DEF Sound, BookInv
  <2> QED
    BY <2>1, <2>3, FillFreeze
<1> QED
  BY <1>1, <1>2, <1>3, PumpDoes DEF PumpOne, PumpTwo

LEMMA FireFreeze ==
  ASSUME Sound, StopFires, ~DieAfterSave
  PROVE  StaysFrozen /\ (row'.state \in Frozen => row.state \in Frozen) /\ pc' # "down"
<1>1. pc = "idle" /\ pos # 0 /\ OnFill(Venue, ClosingSide(pos), Magnitude(pos))
  BY DEF StopFires
<1>2. FillResult(Venue, rt.size - pos)
  BY <1>1, StopFillDoes
<1>3. rt.size \in Int /\ pos \in Int
  BY DEF Sound, RouterTypeOK, Routers, BookInv, SimTypeOK
<1>4. rt.size - pos # 0 => rt.state \in Frozen \cup {"ENTRY_PENDING"}
  BY <1>1, <1>3, HeldNotTwoDue DEF NoneDue, OneDue, Sound
<1> QED
  BY <1>2, <1>4, FillFreeze

LEMMA StartupFreeze ==
  ASSUME Sound, Startup PROVE StaysFrozen
<1>1. CASE Recover
  <2>1. /\ pc = "recover"
        /\ rt'.state = IF row.state \in Frozen THEN row.state ELSE Settled(loc.snap.pos)
        /\ \/ pc' = "recover_place" /\ row' = row
           \/ pc' = "recover_orders" /\ row'.state = rt'.state
    BY <1>1, RecoverDoes DEF Sound
  <2> QED
    BY <2>1 DEF StaysFrozen, FrozenFollowed, Flattening
<1>2. CASE RecoverOrders
  <2>1. pc = "recover_orders" /\ pc' = "recovered" /\ row' = row
    BY <1>2, RecoverOrdersDoes DEF RecoverOrders, Sound, BookInv, ReadTrue
  <2> QED
    BY <2>1, FreezeFrame
<1>3. CASE Restart \/ Start
  BY <1>3, FreezeFrame DEF Restart, Start, Idle
<1> QED
  BY <1>1, <1>2, <1>3 DEF Startup

LEMMA DeathFreeze ==
  ASSUME Die PROVE StaysFrozen /\ row' = row /\ pc' = "down"
BY DEF Die, StaysFrozen, FrozenFollowed

LEMMA StepFreeze ==
  ASSUME Sound, FrozenFollowed, Step PROVE StaysFrozen
<1>1. CASE Crash \/ DieAfterSave
  BY <1>1, DeathFreeze DEF Crash, DieAfterSave
<1>2. CASE ~DieAfterSave /\ (StopFires \/ PlaceStop \/ CancelStop)
  BY <1>2, FireFreeze, StopFreeze
<1>3. CASE \/ Snapshot \/ Submit \/ SubmitAnswered \/ Pump \/ Bar \/ Fast \/ Reconcile
           \/ Send \/ Startup
  BY <1>3, LoopFreeze, SendFreeze, PumpFreeze, BarFreeze, StartupFreeze
<1> QED
  BY <1>1, <1>2, <1>3 DEF Step

LEMMA HaltStep ==
  ASSUME Sound, HaltKept, [HaltNext]_haltVars PROVE HaltKept'
<1>1. CASE UNCHANGED haltVars
  BY <1>1 DEF haltVars, vars, routerVars, HaltKept, FrozenFollowed, Flattening, Asked
<1>2. CASE OperatorClears /\ halted' = FALSE /\ cut' = FALSE
  <2>1. pc' = "idle" /\ row'.state \notin Frozen
    <3>1. Settled(rt.size) \in States \ Frozen
      BY DEF Settled
    <3>2. Commit([rt EXCEPT !.state = Settled(rt.size)]) /\ pc' = "idle"
      BY <1>2 DEF OperatorClears, ClearHalt, Idle
    <3> QED
      BY <3>1, <3>2, CommitStateDoes DEF Sound
  <2> QED
    BY <1>2, <2>1 DEF HaltKept, FrozenFollowed
<1>3. CASE /\ Step
           /\ halted' = (halted \/ row'.state \in Frozen)
           /\ cut' = (cut \/ Cut)
  <2>1. StaysFrozen
    BY <1>3, StepFreeze DEF HaltKept
  <2>2. halted' \in BOOLEAN /\ cut' \in BOOLEAN
    BY <1>3
  <2>3. row'.state \in Frozen => halted'
    BY <1>3
  <2>4. ASSUME halted', ~cut' PROVE row'.state \in Frozen \/ Flattening'
    <3>1. CASE row'.state \in Frozen
      BY <3>1
    <3>2. CASE row'.state \notin Frozen
      <4>1. halted /\ ~cut /\ ~Cut
        BY <1>3, <2>4, <3>2
      <4>2. CASE row.state \in Frozen
        BY <2>1, <4>2 DEF StaysFrozen
      <4>3. CASE row.state \notin Frozen
        <5>1. Flattening
          BY <4>1, <4>3 DEF HaltKept
        <5>2. pc' # "down"
          BY <4>1, <4>3, <5>1 DEF Cut, Flattening
        <5> QED
          BY <2>1, <5>1, <5>2 DEF StaysFrozen
      <4> QED
        BY <4>2, <4>3
    <3> QED
      BY <3>1, <3>2
  <2> QED
    BY <2>1, <2>2, <2>3, <2>4 DEF HaltKept, StaysFrozen
<1> QED
  BY <1>1, <1>2, <1>3 DEF HaltNext

-----------------------------------------------------------------------------
(* The paper account is a PositionCycle.                                    *)

CycleStep == [Account!Enter \/ Account!Leave \/ Account!Stop \/ Account!Clear]_(Account!cycle)

\* A halt, the end of one, or nothing.
LEMMA PositionKeptIsCycleStep ==
  ASSUME HaltKept, HaltKept', pos' = pos PROVE CycleStep
<1>1. halted \in BOOLEAN /\ cut \in BOOLEAN /\ halted' \in BOOLEAN /\ cut' \in BOOLEAN
  BY DEF HaltKept
<1>2. \/ (halted /\ ~cut)' = (halted /\ ~cut)
      \/ ~(halted /\ ~cut) /\ (halted /\ ~cut)' = TRUE
      \/ (halted /\ ~cut) /\ (halted /\ ~cut)' = FALSE
  BY <1>1, Zenon
<1> QED
  BY <1>2 DEF CycleStep, Account!Stop, Account!Clear, Account!cycle

\* What leaves the row alone and the process alive keeps the halt.
LEMMA HaltUnmoved ==
  ASSUME HaltKept, NEW P \in BOOLEAN, NEW C \in BOOLEAN, P => halted, C => cut,
         halted' = (halted \/ P), cut' = (cut \/ C)
  PROVE  (halted /\ ~cut)' = (halted /\ ~cut)
<1>1. halted \in BOOLEAN /\ cut \in BOOLEAN
  BY DEF HaltKept
<1>2. halted' = halted
  BY <1>1, Zenon
<1>3. cut' = cut
  BY <1>1, Zenon
<1> QED
  BY <1>2, <1>3

LEMMA SubmitIsCycleStep ==
  ASSUME Sound, HaltKept, Submit, halted' = (halted \/ row'.state \in Frozen), cut' = (cut \/ Cut)
  PROVE  CycleStep
<1>1. /\ pc = "submit" /\ pc' = "ack" /\ Asked \in OrderRows
      /\ pos' = pos + Signed(Asked.side, Asked.qty)
      /\ Asked.reduce => pos # 0 /\ pos' = 0
      /\ ~Asked.reduce => pos = 0 /\ Asked.qty <= MaxQty
  BY SubmitDoes
<1>2. row' = row
  BY DEF Submit, SubmitCalled
<1>3. row'.state \in Frozen => halted
  BY <1>2 DEF HaltKept
<1>4. ~Cut
  BY <1>1 DEF Cut
<1>5. (halted /\ ~cut)' = (halted /\ ~cut)
  <2> DEFINE P == row'.state \in Frozen
  <2>1. P \in BOOLEAN /\ Cut \in BOOLEAN
    BY DEF Cut
  <2> QED
    BY <1>3, <1>4, <2>1, HaltUnmoved
<1>6. CASE Asked.reduce
  <2>1. Account!Leave
    BY <1>1, <1>5, <1>6 DEF Account!Leave
  <2> QED
    BY <2>1 DEF CycleStep
<1>7. CASE ~Asked.reduce /\ pos' = 0
  <2>1. UNCHANGED (Account!cycle)
    BY <1>1, <1>5, <1>7 DEF Account!cycle
  <2> QED
    BY <2>1 DEF CycleStep
<1>8. CASE ~Asked.reduce /\ pos' # 0
  <2>1. row.state = "ENTRY_PENDING"
    BY <1>1, <1>8, SavedState DEF Unsaved, Sound, BookInv, SendTrue
  <2>2. ~(halted /\ ~cut)
    BY <1>1, <1>8, <2>1 DEF HaltKept, Flattening
  <2>3. pos = 0 /\ pos' \in (-MaxQty..MaxQty) \ {0}
    BY <1>1, <1>8, RouterAssumption DEF OrderRows, Signed
  <2>4. Account!Enter
    BY <1>5, <2>2, <2>3 DEF Account!Enter
  <2> QED
    BY <2>4 DEF CycleStep
<1> QED
  BY <1>6, <1>7, <1>8

LEMMA FireIsCycleStep ==
  ASSUME Sound, HaltKept, StopFires, halted' = (halted \/ row'.state \in Frozen), cut' = (cut \/ Cut)
  PROVE  CycleStep
<1>1. pc = "idle" /\ pos # 0 /\ pos' = 0
  BY DEF StopFires
<1>2. row'.state \in Frozen => row.state \in Frozen
  BY FireFreeze, DeathFreeze DEF DieAfterSave
<1>3. row'.state \in Frozen => halted
  BY <1>2 DEF HaltKept
<1>4. Cut => cut
  BY <1>1 DEF Cut, HaltKept, Flattening
<1>5. (halted /\ ~cut)' = (halted /\ ~cut)
  <2> DEFINE P == row'.state \in Frozen
  <2>1. P \in BOOLEAN /\ Cut \in BOOLEAN
    BY DEF Cut
  <2> QED
    BY <1>3, <1>4, <2>1, HaltUnmoved
<1>6. Account!Leave
  BY <1>1, <1>5 DEF Account!Leave
<1> QED
  BY <1>6 DEF CycleStep

\* Only an order that fills and a stop that fires move the account.
LEMMA OthersKeepPosition ==
  ASSUME \/ Snapshot \/ SubmitAnswered \/ Pump \/ Crash \/ PlaceStop \/ CancelStop
         \/ Bar \/ Fast \/ Reconcile \/ Send \/ Startup \/ OperatorClears
  PROVE  pos' = pos
BY DEF Snapshot, SubmitAnswered, Pump, Crash, PlaceStop, CancelStop, Bar, Fast, Reconcile, Send,
   Startup, OperatorClears, simVars

LEMMA StepIsCycleStep ==
  ASSUME Sound, HaltKept, [HaltNext]_haltVars PROVE CycleStep
<1>0. HaltKept'
  BY HaltStep
<1>1. CASE UNCHANGED haltVars
  BY <1>0, <1>1, PositionKeptIsCycleStep DEF haltVars, vars, simVars
<1>2. CASE /\ Submit
           /\ halted' = (halted \/ row'.state \in Frozen) /\ cut' = (cut \/ Cut)
  BY <1>2, SubmitIsCycleStep
<1>3. CASE /\ StopFires
           /\ halted' = (halted \/ row'.state \in Frozen) /\ cut' = (cut \/ Cut)
  BY <1>3, FireIsCycleStep
<1>4. CASE \/ Snapshot \/ SubmitAnswered \/ Pump \/ Crash \/ PlaceStop \/ CancelStop
           \/ Bar \/ Fast \/ Reconcile \/ Send \/ Startup \/ OperatorClears
  BY <1>0, <1>4, OthersKeepPosition, PositionKeptIsCycleStep
<1> QED
  BY <1>1, <1>2, <1>3, <1>4 DEF HaltNext, Step

\* The paper account goes from flat to one order of at most the configured size and
\* back to flat, and opens nothing from a halt to the operator's --clear-halt: no
\* order is sent twice, no entry is stacked on a position, no fill, reconciliation
\* or restart thaws a halt, unless the process died inside the order by which
\* shutdown() flattens a halted router.
THEOREM ImplementsCycle == HaltSpec => CycleKept
<1>1. HaltInit => Sound /\ HaltKept
  <2>1. HaltInit => Sound
    BY SimInit DEF HaltInit
  <2>2. ASSUME HaltInit PROVE HaltKept
    <3>1. row.state = "none" /\ pc = "down"
      BY <2>2 DEF HaltInit, Init, RouterInit, NoRow
    <3>2. FrozenFollowed /\ row.state \notin Frozen
      BY <3>1 DEF FrozenFollowed
    <3>3. halted = FALSE /\ cut = FALSE
      BY <2>2 DEF HaltInit
    <3> QED
      BY <3>2, <3>3, Zenon DEF HaltKept
  <2> QED
    BY <2>1, <2>2
<1>2. HaltInit => Account!CycleInit
  BY DEF HaltInit, Init, Account!CycleInit
<1>3. Sound /\ HaltKept /\ [HaltNext]_haltVars => (Sound /\ HaltKept)'
  <2> SUFFICES ASSUME Sound, HaltKept, [HaltNext]_haltVars PROVE Sound' /\ HaltKept'
    OBVIOUS
  <2>1. [Next]_vars
    BY HaltNextIsNext DEF haltVars
  <2> QED
    BY <2>1, SimStep, HaltStep
<1>4. Sound /\ HaltKept /\ [HaltNext]_haltVars
        => [Account!Enter \/ Account!Leave \/ Account!Stop \/ Account!Clear]_(Account!cycle)
  BY StepIsCycleStep DEF CycleStep
<1> QED
  BY <1>1, <1>2, <1>3, <1>4, PTL DEF HaltSpec, CycleKept, Account!CycleSpec
=============================================================================
