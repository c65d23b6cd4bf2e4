---------------------------- MODULE OrderLedger -----------------------------
(***************************************************************************)
(* What the order path of the trader promises, with no router, no process  *)
(* and no network in it: an id is asked for once, for one order, and the   *)
(* venue takes that order at most once and as it was asked for.  Nothing   *)
(* is forgotten or changed afterwards.  LiveTrader implements it: asked is *)
(* the orders table of storage/db.py, taken is what the venue has seen.    *)
(***************************************************************************)
CONSTANTS Ids, Orders

VARIABLES asked,   \* pairs of an id and the order it names
          taken    \* those the venue has taken

ledger == <<asked, taken>>

\* A new id for an order (_send's insert_order): p is the pair that appears.
Ask(p) ==
  /\ p \in Ids \X Orders
  /\ \A q \in asked : q[1] # p[1]
  /\ asked' = asked \cup {p}
  /\ UNCHANGED taken

\* The venue takes an order it was asked for (submit, as often as it is sent).
Take(p) ==
  /\ p \in asked \ taken
  /\ taken' = taken \cup {p}
  /\ UNCHANGED asked

LedgerNext == \E p \in asked' : Ask(p) \/ Take(p)

LedgerInit == asked = {} /\ taken = {}

LedgerSpec == LedgerInit /\ [][LedgerNext]_ledger
=============================================================================
