--------------------------- MODULE RetentionProofs --------------------------
(***************************************************************************)
(* Rollup and retention, for any length of an hour, grace, retention and   *)
(* lag, any history and any number of runs of prune.py that overlap and    *)
(* die.                                                                    *)
(*                                                                         *)
(* The readers are exact because of what the runs do to each other's work. *)
(* Let the value of an hour be what rollup_hours would write had nothing   *)
(* been deleted.  The value of a closed hour is final: the grace outlasts  *)
(* the lag of every insert (FreshIsOpen).  A rollup row is the value of a  *)
(* closed hour, and no hour before it is missing with a value of its own   *)
(* (NoHoles), which is what lets the next run resume after the newest row. *)
(* A row is deleted only when the rollup has the value of its hour and of  *)
(* the next one, whose open_mark the row may be (PrunedRolled); so an hour *)
(* the rollup lacks has lost nothing, and a run that reads it late reads   *)
(* its value (ReadIsValue).  In between, a run carries rows it has read    *)
(* and not written; JobOK says that with the rollup they cover every       *)
(* closed hour behind it, whatever other runs wrote meanwhile.             *)
(***************************************************************************)
EXTENDS Retention, WellFoundedInduction, TLAPS

\* What an hour amounts to, over everything ever stored.
Value(h) == [index |-> Newest(In(allTicks, h)), spread |-> In(allBooks, h),
             mark |-> Newest(Opening(allTicks, h))]

Ats      == {"idle", "read", "prune"}
RollRows == [index : Int, spread : SUBSET Nat, mark : Int]
Jobs     == [at : Ats, now : Nat, next : Nat, rows : [Hours -> RollRows]]

RetentionTypeOK ==
  /\ clock \in Nat /\ clock <= MaxClock
  /\ allTicks \subseteq 0..clock /\ allBooks \subseteq 0..clock
  /\ ticks \subseteq allTicks /\ books \subseteq allBooks
  /\ rollup \in [Hours -> RollRows]
  /\ job \in [Runs -> Jobs]

\* A row of the rollup is exact, and its hour is closed for good.
RolledExact == \A h \in Rolled : rollup[h] = Value(h) /\ IsClosed(h, clock)

\* The rollup has no holes: an hour it passed over has nothing to say.
NoHoles == \A g \in Rolled, h \in Hours : h <= g => rollup[h] = Value(h)

\* A row goes only when the rollup has its hour; a tick only when it has the hour
\* after it too, whose opening mark it may be.
Secured(h) == h \in Hours /\ IsClosed(h, clock) /\ rollup[h] = Value(h)

PrunedRolled ==
  /\ \A t \in allTicks \ ticks : Secured(HourOf(t)) /\ Secured(HourOf(t) + 1)
  /\ \A t \in allBooks \ books : Secured(HourOf(t))

\* Behind its next hour a run has every closed one in hand or in the rollup, and
\* it deletes nothing before all of them are in the rollup.
Covered(j, h) == (IF rollup[h] = NoRow THEN j.rows[h] ELSE rollup[h]) = Value(h)

JobOK(j) ==
  /\ j.now <= clock
  /\ j.at # "read" => j.rows = NoRows
  /\ \A h \in Hours :
       /\ j.rows[h] # NoRow => h < j.next /\ IsClosed(h, j.now)
       /\ j.at = "read" /\ h < j.next /\ IsClosed(h, j.now) => Covered(j, h)
       /\ j.at = "prune" /\ IsClosed(h, j.now) => rollup[h] = Value(h)

RetentionInv ==
  RetentionTypeOK /\ RolledExact /\ NoHoles /\ PrunedRolled /\ \A r \in Runs : JobOK(job[r])

-----------------------------------------------------------------------------
(* Hours.                                                                   *)

LEMMA Sizes ==
  /\ HourLen \in Nat /\ HourLen > 0 /\ FillLatency \in Nat /\ FillLatency < HourLen
  /\ Grace \in Nat /\ Lag \in Nat /\ Lag <= Grace
  /\ Retain \in Nat /\ Retain >= 2 * HourLen + Grace /\ MaxClock \in Nat
BY RetentionAssumption

LEMMA Scaled ==
  ASSUME NEW k \in Nat, NEW a \in Int, NEW b \in Int
  PROVE  (a + 1) * k = a * k + k /\ (a <= b => a * k <= b * k)
OBVIOUS

LEMMA HourOfFacts ==
  ASSUME NEW t \in Nat
  PROVE  /\ HourOf(t) \in Nat /\ HourOf(t) * HourLen <= t
         /\ \A h \in Int : HourOf(t) <= h <=> t < (h + 1) * HourLen
<1> DEFINE q == HourOf(t)
<1>1. q \in Nat /\ q * HourLen <= t /\ t < q * HourLen + HourLen
  BY Sizes DEF HourOf
<1> HIDE DEF q
<1>2. ASSUME NEW h \in Int, q <= h PROVE t < (h + 1) * HourLen
  <2>1. q * HourLen <= h * HourLen /\ (h + 1) * HourLen = h * HourLen + HourLen
    BY <1>1, <1>2, Sizes, Scaled
  <2>2. q * HourLen \in Int /\ h * HourLen \in Int
    BY <1>1, Sizes
  <2> QED
    BY <1>1, <2>1, <2>2, Sizes
<1>3. ASSUME NEW h \in Int, h < q PROVE (h + 1) * HourLen <= t
  <2>1. h + 1 <= q /\ h + 1 \in Int
    BY <1>1, <1>3
  <2>2. (h + 1) * HourLen <= q * HourLen
    BY <1>1, <2>1, Sizes, Scaled
  <2>3. q * HourLen \in Int /\ (h + 1) * HourLen \in Int
    BY <1>1, Sizes
  <2> QED
    BY <1>1, <2>2, <2>3
<1>4. ASSUME NEW h \in Int PROVE q <= h <=> t < (h + 1) * HourLen
  <2>1. (h + 1) * HourLen \in Int
    BY Sizes
  <2> QED
    BY <1>1, <1>2, <1>3, <2>1
<1> QED
  BY <1>1, <1>4 DEF q

LEMMA ClosedFacts ==
  ASSUME NEW g \in Int, NEW h \in Int, h <= g, NEW n \in Nat, NEW m \in Nat, n <= m, IsClosed(g, n)
  PROVE  IsClosed(h, m)
<1>1. (h + 1) * HourLen <= (g + 1) * HourLen
  BY Sizes, Scaled
<1>2. (h + 1) * HourLen \in Int /\ (g + 1) * HourLen \in Int
  BY Sizes
<1> QED
  BY <1>1, <1>2, Sizes DEF IsClosed

\* The hours there are.
LEMMA HoursFacts == HourOf(MaxClock) \in Nat /\ Hours = 0..HourOf(MaxClock) /\ Hours \subseteq Nat
<1>1. HourOf(MaxClock) \in Nat
  BY HourOfFacts, Sizes
<1> QED
  BY <1>1 DEF Hours

LEMMA SlotHour ==
  ASSUME NEW t \in Nat, t <= MaxClock PROVE HourOf(t) \in Hours
<1> DEFINE q == HourOf(t)
           m == HourOf(MaxClock)
<1>1. m \in Nat /\ MaxClock < (m + 1) * HourLen
  BY HourOfFacts, Sizes
<1>2. q \in Nat /\ (q <= m <=> t < (m + 1) * HourLen)
  BY <1>1, HourOfFacts
<1>3. (m + 1) * HourLen \in Int
  BY <1>1, Sizes
<1> HIDE DEF q, m
<1>4. q \in 0..m
  BY <1>1, <1>2, <1>3, Sizes
<1> QED
  BY <1>4 DEF q, m, Hours

LEMMA ClosedIsHour ==
  ASSUME NEW h \in Nat, NEW n \in Nat, n <= MaxClock, IsClosed(h, n) PROVE h \in Hours
<1> DEFINE m == HourOf(MaxClock)
<1>1. m \in Nat /\ (m <= h <=> MaxClock < (h + 1) * HourLen)
  BY HourOfFacts, Sizes
<1>2. (h + 1) * HourLen + Grace <= n /\ (h + 1) * HourLen \in Int
  BY Sizes DEF IsClosed
<1> HIDE DEF m
<1>3. h \in 0..m
  BY <1>1, <1>2, Sizes
<1> QED
  BY <1>3 DEF m, Hours

\* A tick that can open an hour is of it or of the hour before.
LEMMA OpeningHour ==
  ASSUME NEW S, NEW h \in Nat, NEW t \in Nat, t \in Opening(S, h)
  PROVE  t \in S /\ (HourOf(t) = h \/ HourOf(t) + 1 = h)
<1> DEFINE q == HourOf(t)
           k == h * HourLen
<1>1. t \in S /\ k - HourLen <= t /\ t <= k + FillLatency
  BY DEF Opening
<1>2. k \in Int /\ (h + 1) * HourLen = k + HourLen
  BY Sizes, Scaled
<1>3. (h - 1) * HourLen = k - HourLen /\ (h - 2) + 1 = h - 1
  <2>1. ((h - 1) + 1) * HourLen = (h - 1) * HourLen + HourLen
    BY Sizes, Scaled
  <2>2. (h - 1) + 1 = h /\ (h - 1) * HourLen \in Int
    BY Sizes
  <2> QED
    BY <1>2, <2>1, <2>2, Sizes
<1>4. q \in Nat /\ (q <= h <=> t < (h + 1) * HourLen)
  BY HourOfFacts
<1>5. q <= h - 2 <=> t < ((h - 2) + 1) * HourLen
  BY HourOfFacts
<1> HIDE DEF q, k
<1>6. q <= h
  BY <1>1, <1>2, <1>4, Sizes
<1>7. ~(q <= h - 2)
  BY <1>1, <1>2, <1>3, <1>5, Sizes
<1>8. q = h \/ q + 1 = h
  BY <1>4, <1>6, <1>7
<1> QED
  BY <1>1, <1>8 DEF q

\* What has expired is of an hour that is closed, and so is the hour after it.
LEMMA ExpiredClosed ==
  ASSUME NEW t \in Nat, NEW n \in Nat, t < n - Retain
  PROVE  IsClosed(HourOf(t), n) /\ IsClosed(HourOf(t) + 1, n)
<1> DEFINE q == HourOf(t)
<1>1. q \in Nat /\ q * HourLen <= t /\ q * HourLen \in Int
  BY HourOfFacts, Sizes
<1> HIDE DEF q
<1>2. (q + 1) * HourLen = q * HourLen + HourLen
  BY <1>1, Sizes, Scaled
<1>3. ((q + 1) + 1) * HourLen = (q + 1) * HourLen + HourLen
  BY <1>1, Sizes, Scaled
<1>4. IsClosed(q + 1, n)
  BY <1>1, <1>2, <1>3, Sizes DEF IsClosed
<1>5. IsClosed(q, n)
  BY <1>1, <1>2, Sizes DEF IsClosed
<1> QED
  BY <1>4, <1>5 DEF q

\* What is inserted now is of no closed hour and opens none.
LEMMA FreshIsOpen ==
  ASSUME NEW t \in Nat, NEW n \in Nat, n <= t + Lag, NEW h \in Nat, IsClosed(h, n)
  PROVE  HourOf(t) # h /\ HourOf(t) + 1 # h
<1> DEFINE q == HourOf(t)
<1>1. q \in Nat /\ (q <= h <=> t < (h + 1) * HourLen)
  BY HourOfFacts
<1>2. (h + 1) * HourLen + Grace <= n /\ (h + 1) * HourLen \in Int
  BY Sizes DEF IsClosed
<1> HIDE DEF q
<1>3. ~(q <= h)
  BY <1>1, <1>2, Sizes
<1>4. q # h /\ q + 1 # h
  BY <1>1, <1>3
<1> QED
  BY <1>4 DEF q

-----------------------------------------------------------------------------
(* Newest and Oldest are choices: they mean something because every set     *)
(* they are asked of is a bounded set of naturals.                          *)

LEMMA Least ==
  ASSUME NEW S \in SUBSET Nat, S # {} PROVE \E m \in S : \A t \in S : m <= t
<1> DEFINE R == OpToRel(<, Nat)
<1>1. IsWellFoundedOn(R, Nat)
  BY NatLessThanWellFounded
<1>2. \A x, y \in Nat : <<y, x>> \notin R => x <= y
  BY DEF OpToRel
<1> HIDE DEF R
<1>3. \E x \in S : \A y \in S : <<y, x>> \notin R
  BY <1>1, WFMin
<1> QED
  BY <1>2, <1>3

LEMMA Greatest ==
  ASSUME NEW b \in Nat, NEW S \in SUBSET (0..b), S # {} PROVE \E m \in S : \A t \in S : t <= m
<1> DEFINE D == {b - t : t \in S}
<1>1. D \in SUBSET Nat
  OBVIOUS
<1>2. D # {}
  <2>1. PICK t \in S : TRUE
    OBVIOUS
  <2>2. b - t \in D
    OBVIOUS
  <2> QED
    BY <2>2
<1>3. PICK d \in D : \A e \in D : d <= e
  <2> HIDE DEF D
  <2> QED
    BY <1>1, <1>2, Least
<1>4. PICK m \in S : d = b - m
  OBVIOUS
<1>5. \A t \in S : b - m <= b - t
  BY <1>3, <1>4
<1> QED
  BY <1>5

LEMMA NewestFacts ==
  ASSUME NEW b \in Nat, NEW S \in SUBSET (0..b)
  PROVE  /\ Newest(S) \in Int
         /\ S = {} => Newest(S) = None
         /\ S # {} => Newest(S) \in S /\ Newest(S) # None /\ \A t \in S : t <= Newest(S)
<1>1. CASE S = {}
  BY <1>1 DEF Newest, None
<1>2. CASE S # {}
  <2>1. Newest(S) = CHOOSE t \in S : \A u \in S : u <= t
    BY <1>2 DEF Newest
  <2>2. Newest(S) \in S /\ \A t \in S : t <= Newest(S)
    BY <1>2, <2>1, Greatest
  <2>3. \A t \in S : t \in Int /\ t # None
    BY DEF None
  <2> QED
    BY <1>2, <2>2, <2>3
<1> QED
  BY <1>1, <1>2

LEMMA OldestFacts ==
  ASSUME NEW S \in SUBSET Nat, S # {} PROVE Oldest(S) \in S /\ \A t \in S : Oldest(S) <= t
BY Least DEF Oldest

LEMMA HourOfMonotone ==
  ASSUME NEW t \in Nat, NEW u \in Nat, t <= u PROVE HourOf(t) <= HourOf(u)
<1> DEFINE q == HourOf(u)
<1>1. q \in Nat /\ u < (q + 1) * HourLen
  BY HourOfFacts
<1>2. HourOf(t) <= q <=> t < (q + 1) * HourLen
  BY <1>1, HourOfFacts
<1>3. (q + 1) * HourLen \in Int
  BY <1>1, Sizes
<1> HIDE DEF q
<1>4. HourOf(t) <= q
  BY <1>1, <1>2, <1>3
<1> QED
  BY <1>4 DEF q

-----------------------------------------------------------------------------
(* Values and what is left of them.                                         *)

LEMMA RowTimes ==
  ASSUME RetentionTypeOK
  PROVE  /\ clock \in Nat /\ allTicks \in SUBSET (0..clock) /\ allBooks \in SUBSET (0..clock)
         /\ \A t \in allTicks \cup allBooks : t \in Nat /\ t <= clock /\ t <= MaxClock
BY Sizes DEF RetentionTypeOK

LEMMA NoRowFacts ==
  /\ NoRow \in RollRows /\ NoRow.index = None /\ NoRow.spread = {} /\ NoRow.mark = None
  /\ NoRows \in [Hours -> RollRows] /\ \A h \in Hours : NoRows[h] = NoRow
<1>1. NoRow \in RollRows /\ NoRow.index = None /\ NoRow.spread = {} /\ NoRow.mark = None
  BY DEF NoRow, RollRows, None
<1> QED
  BY <1>1, Zenon DEF NoRows

LEMMA ValueFacts ==
  ASSUME RetentionTypeOK, NEW h \in Nat
  PROVE  /\ Value(h) \in RollRows
         /\ Value(h).index = Newest(In(allTicks, h))
         /\ Value(h).spread = In(allBooks, h)
         /\ Value(h).mark = Newest(Opening(allTicks, h))
         /\ In(allTicks, h) # {} => Value(h).index # None
         /\ Opening(allTicks, h) # {} => Value(h).mark # None
         /\ In(allTicks, h) = {} /\ In(allBooks, h) = {} /\ Opening(allTicks, h) = {}
              => Value(h) = NoRow
<1> DEFINE A == In(allTicks, h)
           B == In(allBooks, h)
           C == Opening(allTicks, h)
<1>1. clock \in Nat /\ A \in SUBSET (0..clock) /\ B \in SUBSET (0..clock) /\ C \in SUBSET (0..clock)
  BY RowTimes DEF In, Opening
<1>2. Value(h) = [index |-> Newest(A), spread |-> B, mark |-> Newest(C)]
  BY DEF Value
<1> HIDE DEF A, B, C
<1>3. Newest(A) \in Int /\ (A = {} => Newest(A) = None) /\ (A # {} => Newest(A) # None)
  BY <1>1, NewestFacts
<1>4. Newest(C) \in Int /\ (C = {} => Newest(C) = None) /\ (C # {} => Newest(C) # None)
  BY <1>1, NewestFacts
<1>5. B \in SUBSET Nat
  BY <1>1
<1>6. Value(h) \in RollRows
  BY <1>2, <1>3, <1>4, <1>5 DEF RollRows
<1>7. Value(h).index = Newest(A) /\ Value(h).spread = B /\ Value(h).mark = Newest(C)
  BY <1>2
<1>8. A = {} /\ B = {} /\ C = {} => Value(h) = NoRow
  BY <1>2, <1>3, <1>4 DEF NoRow
<1> QED
  BY <1>3, <1>4, <1>6, <1>7, <1>8 DEF A, B, C

\* While the rollup has nothing for an hour, nothing it could say has been deleted.
LEMMA NothingPruned ==
  ASSUME RetentionInv, NEW h \in Hours, rollup[h] = NoRow
  PROVE  /\ In(ticks, h) = In(allTicks, h) /\ In(books, h) = In(allBooks, h)
         /\ Opening(ticks, h) = Opening(allTicks, h)
<1>1. RetentionTypeOK /\ PrunedRolled /\ h \in Nat /\ ticks \subseteq allTicks /\ books \subseteq allBooks
  BY HoursFacts DEF RetentionInv, RetentionTypeOK
<1>2. Value(h).spread = In(allBooks, h)
  BY <1>1, ValueFacts
<1>3. In(allTicks, h) # {} => Value(h).index # None
  BY <1>1, ValueFacts
<1>4. Opening(allTicks, h) # {} => Value(h).mark # None
  BY <1>1, ValueFacts
<1>5. Secured(h) => Value(h) = NoRow
  BY DEF Secured
<1>6. ASSUME NEW t \in In(allTicks, h) PROVE t \in ticks
  <2>1. Value(h) # NoRow /\ t \in allTicks /\ HourOf(t) = h
    BY <1>3, <1>6, NoRowFacts DEF In
  <2> QED
    BY <1>1, <1>5, <2>1 DEF PrunedRolled
<1>7. ASSUME NEW t \in In(allBooks, h) PROVE t \in books
  <2>1. Value(h) # NoRow /\ t \in allBooks /\ HourOf(t) = h
    BY <1>2, <1>7, NoRowFacts DEF In
  <2> QED
    BY <1>1, <1>5, <2>1 DEF PrunedRolled
<1>8. ASSUME NEW t \in Opening(allTicks, h) PROVE t \in ticks
  <2>1. Value(h) # NoRow /\ t \in allTicks
    BY <1>4, <1>8, NoRowFacts DEF Opening
  <2>2. t \in Nat
    BY <1>1, <2>1, RowTimes
  <2>3. HourOf(t) = h \/ HourOf(t) + 1 = h
    BY <1>1, <1>8, <2>2, OpeningHour
  <2> QED
    BY <1>1, <1>5, <2>1, <2>3 DEF PrunedRolled
<1> QED
  BY <1>1, <1>6, <1>7, <1>8 DEF In, Opening

\* So what a run reads of an hour the rollup lacks is its value.
LEMMA ReadIsValue ==
  ASSUME RetentionInv, NEW h \in Hours, rollup[h] = NoRow
  PROVE  [index |-> IndexByHour(h), spread |-> SpreadByHour(h), mark |-> Newest(Opening(ticks, h))]
           = Value(h)
<1>1. IndexByHour(h) = Newest(In(allTicks, h))
  BY NothingPruned, NoRowFacts DEF IndexByHour
<1>2. SpreadByHour(h) = In(allBooks, h)
  BY NothingPruned, NoRowFacts DEF SpreadByHour
<1>3. Newest(Opening(ticks, h)) = Newest(Opening(allTicks, h))
  BY NothingPruned
<1> QED
  BY <1>1, <1>2, <1>3 DEF Value

LEMMA ReadsExact == RetentionInv => ReadersExact
<1> SUFFICES ASSUME RetentionInv, NEW h \in Hours
             PROVE  IndexByHour(h) = Newest(In(allTicks, h)) /\ SpreadByHour(h) = In(allBooks, h)
  BY DEF ReadersExact
<1>1. CASE rollup[h] = NoRow
  BY <1>1, NothingPruned, NoRowFacts DEF IndexByHour, SpreadByHour
<1>2. CASE rollup[h] # NoRow
  <2>1. RetentionTypeOK /\ h \in Nat /\ rollup[h] = Value(h)
    BY <1>2, HoursFacts DEF RetentionInv, RolledExact, Rolled
  <2>2. ticks \subseteq allTicks /\ books \subseteq allBooks
    BY <2>1 DEF RetentionTypeOK
  <2>3. rollup[h].index = Newest(In(allTicks, h)) /\ rollup[h].spread = In(allBooks, h)
    BY <2>1, ValueFacts
  <2>4. rollup[h].index = None => In(allTicks, h) = {}
    BY <2>1, ValueFacts
  <2>5. rollup[h].index = None => In(ticks, h) = {} /\ In(allTicks, h) = {}
    BY <2>2, <2>4 DEF In
  <2>6. rollup[h].spread = {} => In(books, h) = {}
    BY <2>2, <2>3 DEF In
  <2>7. IndexByHour(h) = Newest(In(allTicks, h))
    BY <2>3, <2>5 DEF IndexByHour
  <2>8. SpreadByHour(h) = In(allBooks, h)
    BY <2>3, <2>6 DEF SpreadByHour
  <2> QED
    BY <2>7, <2>8
<1> QED
  BY <1>1, <1>2

LEMMA MarksExact == RetentionInv => MarkExact
<1> SUFFICES ASSUME RetentionInv, NEW h \in Rolled
             PROVE  rollup[h].mark = Newest(Opening(allTicks, h))
  BY DEF MarkExact
<1>1. RetentionTypeOK /\ h \in Nat /\ rollup[h] = Value(h)
  BY HoursFacts DEF RetentionInv, RolledExact, Rolled
<1> QED
  BY <1>1, ValueFacts

\* An hour before every raw row is in the rollup, or there was nothing in it.
LEMMA BehindRaw ==
  ASSUME RetentionInv, NEW h \in Hours, \A t \in ticks \cup books : h < HourOf(t)
  PROVE  rollup[h] = Value(h)
<1>1. RetentionTypeOK /\ h \in Nat /\ ticks \subseteq allTicks /\ books \subseteq allBooks
  BY HoursFacts DEF RetentionInv, RetentionTypeOK
<1>2. CASE rollup[h] # NoRow
  BY <1>2 DEF RetentionInv, RolledExact, Rolled
<1>3. CASE rollup[h] = NoRow
  <2>1. \A t \in ticks \cup books : t \in Nat /\ HourOf(t) \in Nat
    BY <1>1, RowTimes, HourOfFacts
  <2>2. \A t \in ticks \cup books : HourOf(t) # h /\ HourOf(t) + 1 # h
    BY <1>1, <2>1
  <2>3. In(ticks, h) = {} /\ In(books, h) = {}
    BY <2>2 DEF In
  <2>4. Opening(ticks, h) = {}
    <3> SUFFICES ASSUME NEW t \in Opening(ticks, h) PROVE FALSE
      OBVIOUS
    <3>1. t \in ticks
      BY DEF Opening
    <3> QED
      BY <1>1, <2>1, <2>2, <3>1, OpeningHour
  <2>5. In(allTicks, h) = {} /\ In(allBooks, h) = {} /\ Opening(allTicks, h) = {}
    BY <1>3, <2>3, <2>4, NothingPruned
  <2> QED
    BY <1>1, <1>3, <2>5, ValueFacts
<1> QED
  BY <1>2, <1>3

-----------------------------------------------------------------------------
(* The feed and time: no closed hour changes.                               *)

LEMMA FeedKeeps ==
  ASSUME RetentionInv, RetentionTypeOK', UNCHANGED <<rollup, job>>, clock <= clock',
         allTicks' \ ticks' = allTicks \ ticks, allBooks' \ books' = allBooks \ books,
         \A h \in Hours : IsClosed(h, clock) => Value(h)' = Value(h)
  PROVE  RetentionInv'
<1>1. RetentionTypeOK /\ RolledExact /\ NoHoles /\ PrunedRolled /\ \A r \in Runs : JobOK(job[r])
  BY DEF RetentionInv
<1>2. clock \in Nat /\ clock' \in Nat /\ Hours \subseteq Nat /\ Rolled' = Rolled
  BY <1>1, HoursFacts DEF RetentionTypeOK, Rolled
<1>3. \A h \in Hours, n \in Nat : n <= clock /\ IsClosed(h, n) => Value(h)' = Value(h) /\ IsClosed(h, clock')
  <2> SUFFICES ASSUME NEW h \in Hours, NEW n \in Nat, n <= clock, IsClosed(h, n)
               PROVE  Value(h)' = Value(h) /\ IsClosed(h, clock')
    OBVIOUS
  <2>1. h \in Int /\ n <= clock'
    BY <1>2
  <2>2. IsClosed(h, clock) /\ IsClosed(h, clock')
    BY <1>2, <2>1, ClosedFacts
  <2> QED
    BY <2>2
<1>4. RolledExact'
  <2> SUFFICES ASSUME NEW h \in Rolled' PROVE rollup'[h] = Value(h)' /\ IsClosed(h, clock')
    BY DEF RolledExact
  <2>1. h \in Hours /\ rollup[h] = Value(h) /\ IsClosed(h, clock)
    BY <1>1, <1>2 DEF RolledExact, Rolled
  <2> QED
    BY <1>2, <1>3, <2>1
<1>5. NoHoles'
  <2> SUFFICES ASSUME NEW g \in Rolled', NEW h \in Hours, h <= g PROVE rollup'[h] = Value(h)'
    BY DEF NoHoles
  <2>1. g \in Hours /\ rollup[h] = Value(h) /\ IsClosed(g, clock) /\ g \in Int /\ h \in Int
    BY <1>1, <1>2 DEF RolledExact, NoHoles, Rolled
  <2>2. IsClosed(h, clock)
    BY <1>2, <2>1, ClosedFacts
  <2> QED
    BY <2>1, <2>2
<1>6. \A h : Secured(h) => Secured(h)'
  BY <1>2, <1>3 DEF Secured
<1>7. PrunedRolled'
  BY <1>1, <1>6 DEF PrunedRolled
<1>8. ASSUME NEW j \in Jobs, JobOK(j) PROVE JobOK(j)'
  <2>1. j.now \in Nat /\ j.now <= clock /\ (j.at # "read" => j.rows = NoRows)
    BY <1>8 DEF JobOK, Jobs
  <2>2. j.now <= clock'
    BY <1>2, <2>1
  <2>3. ASSUME NEW h \in Hours
        PROVE  /\ j.rows[h] # NoRow => h < j.next /\ IsClosed(h, j.now)
               /\ j.at = "read" /\ h < j.next /\ IsClosed(h, j.now) => Covered(j, h)'
               /\ j.at = "prune" /\ IsClosed(h, j.now) => rollup'[h] = Value(h)'
    <3>1. IsClosed(h, j.now) => Value(h)' = Value(h)
      BY <1>3, <2>1
    <3>2. IsClosed(h, j.now) /\ Covered(j, h) => Covered(j, h)'
      BY <3>1 DEF Covered
    <3> QED
      BY <1>8, <3>1, <3>2 DEF JobOK
  <2> QED
    BY <2>1, <2>2, <2>3 DEF JobOK
<1>9. \A r \in Runs : JobOK(job[r])'
  BY <1>1, <1>8 DEF RetentionTypeOK
<1> QED
  BY <1>4, <1>5, <1>7, <1>9 DEF RetentionInv

LEMMA InsertTickKeeps ==
  ASSUME RetentionInv, NEW t \in Slots, InsertTick(t) PROVE RetentionInv'
<1>1. RetentionTypeOK /\ t \in Nat /\ t <= clock /\ clock <= t + Lag /\ clock \in Nat
  BY Sizes DEF RetentionInv, RetentionTypeOK, InsertTick, Slots
<1>2. UNCHANGED <<clock, books, allBooks, rollup, job>> /\ t \notin allTicks
      /\ ticks' = ticks \cup {t} /\ allTicks' = allTicks \cup {t}
  BY DEF InsertTick
<1>3. RetentionTypeOK'
  BY <1>1, <1>2 DEF RetentionTypeOK
<1>4. ASSUME NEW h \in Hours, IsClosed(h, clock) PROVE Value(h)' = Value(h)
  <2>1. h \in Nat /\ HourOf(t) # h /\ HourOf(t) + 1 # h
    BY <1>1, <1>4, HoursFacts, FreshIsOpen
  <2>2. In(allTicks', h) = In(allTicks, h)
    BY <1>2, <2>1 DEF In
  <2>3. ~(h * HourLen - HourLen <= t /\ t <= h * HourLen + FillLatency)
    <3> SUFFICES ASSUME h * HourLen - HourLen <= t /\ t <= h * HourLen + FillLatency PROVE FALSE
      OBVIOUS
    <3>1. t \in Opening({t}, h)
      BY DEF Opening
    <3> QED
      BY <1>1, <2>1, <3>1, OpeningHour
  <2>4. Opening(allTicks', h) = Opening(allTicks, h)
    BY <1>2, <2>3 DEF Opening
  <2> QED
    BY <1>2, <2>2, <2>4 DEF Value
<1>5. allTicks' \ ticks' = allTicks \ ticks /\ allBooks' \ books' = allBooks \ books
  BY <1>1, <1>2 DEF RetentionTypeOK
<1>6. clock <= clock'
  BY <1>1, <1>2
<1> QED
  BY <1>2, <1>3, <1>4, <1>5, <1>6, FeedKeeps

LEMMA InsertBookKeeps ==
  ASSUME RetentionInv, NEW t \in Slots, InsertBook(t) PROVE RetentionInv'
<1>1. RetentionTypeOK /\ t \in Nat /\ t <= clock /\ clock <= t + Lag /\ clock \in Nat
  BY Sizes DEF RetentionInv, RetentionTypeOK, InsertBook, Slots
<1>2. UNCHANGED <<clock, ticks, allTicks, rollup, job>> /\ t \notin allBooks
      /\ books' = books \cup {t} /\ allBooks' = allBooks \cup {t}
  BY DEF InsertBook
<1>3. RetentionTypeOK'
  BY <1>1, <1>2 DEF RetentionTypeOK
<1>4. ASSUME NEW h \in Hours, IsClosed(h, clock) PROVE Value(h)' = Value(h)
  <2>1. h \in Nat /\ HourOf(t) # h
    BY <1>1, <1>4, HoursFacts, FreshIsOpen
  <2>2. In(allBooks', h) = In(allBooks, h)
    BY <1>2, <2>1 DEF In
  <2> QED
    BY <1>2, <2>2 DEF Value
<1>5. allTicks' \ ticks' = allTicks \ ticks /\ allBooks' \ books' = allBooks \ books
  BY <1>1, <1>2 DEF RetentionTypeOK
<1>6. clock <= clock'
  BY <1>1, <1>2
<1> QED
  BY <1>2, <1>3, <1>4, <1>5, <1>6, FeedKeeps

LEMMA PassKeeps == ASSUME RetentionInv, Pass PROVE RetentionInv'
<1>1. RetentionTypeOK /\ clock \in Nat /\ clock < MaxClock /\ clock' = clock + 1
      /\ UNCHANGED <<ticks, books, allTicks, allBooks, rollup, job>>
  BY DEF RetentionInv, RetentionTypeOK, Pass
<1>2. RetentionTypeOK'
  <2>1. clock' \in Nat /\ clock' <= MaxClock /\ 0..clock \subseteq 0..clock' /\ clock <= clock'
    BY <1>1, Sizes
  <2> QED
    BY <1>1, <2>1 DEF RetentionTypeOK
<1>3. \A h \in Hours : Value(h)' = Value(h)
  BY <1>1 DEF Value
<1>4. clock <= clock'
  BY <1>1
<1> QED
  BY <1>1, <1>2, <1>3, <1>4, FeedKeeps

-----------------------------------------------------------------------------
(* The runs.                                                                *)

\* A step that moves one run only.
LEMMA JobStep ==
  ASSUME RetentionInv, UNCHANGED <<clock, ticks, books, allTicks, allBooks, rollup>>,
         NEW r \in Runs, NEW j \in Jobs, JobOK(j), job' = [job EXCEPT ![r] = j]
  PROVE  RetentionInv'
<1>1. RetentionTypeOK /\ RolledExact /\ NoHoles /\ PrunedRolled /\ \A q \in Runs : JobOK(job[q])
  BY DEF RetentionInv
<1>2. job \in [Runs -> Jobs]
  BY <1>1 DEF RetentionTypeOK
<1>3. job' \in [Runs -> Jobs] /\ \A q \in Runs : job'[q] = IF q = r THEN j ELSE job[q]
  BY <1>2
<1>4. RetentionTypeOK'
  BY <1>1, <1>3 DEF RetentionTypeOK
<1>5. \A h : Value(h)' = Value(h)
  BY DEF Value
<1>6. RolledExact' /\ NoHoles' /\ PrunedRolled'
  BY <1>1, <1>5 DEF RolledExact, NoHoles, PrunedRolled, Secured, Rolled
<1>7. \A k \in Jobs : JobOK(k) => JobOK(k)'
  BY <1>5 DEF JobOK, Covered
<1>8. \A q \in Runs : JobOK(job[q])'
  BY <1>1, <1>2, <1>3, <1>7
<1> QED
  BY <1>4, <1>6, <1>8 DEF RetentionInv

LEMMA IdleOK == ASSUME RetentionTypeOK PROVE Idle \in Jobs /\ JobOK(Idle)
<1>1. Idle.at = "idle" /\ Idle.now = 0 /\ Idle.rows = NoRows /\ Idle \in Jobs
  BY NoRowFacts DEF Idle, Jobs, Ats
<1> QED
  BY <1>1, NoRowFacts DEF JobOK, RetentionTypeOK

LEMMA FinishKeeps == ASSUME RetentionInv, NEW r \in Runs, Finish(r) PROVE RetentionInv'
BY IdleOK, JobStep DEF Finish, feed, RetentionInv

LEMMA DieKeeps == ASSUME RetentionInv, NEW r \in Runs, Die(r) PROVE RetentionInv'
BY IdleOK, JobStep DEF Die, feed, RetentionInv

\* Where a run resumes, every hour behind it is dealt with.
LEMMA ResumeFacts ==
  ASSUME RetentionInv, ticks \cup books # {}
  PROVE  Resume \in Nat /\ \A h \in Hours : h < Resume => rollup[h] = Value(h)
<1> DEFINE o == Oldest(ticks \cup books)
           n == Newest(Rolled)
<1>1. RetentionTypeOK /\ NoHoles /\ \A t \in ticks \cup books : t \in Nat
  BY RowTimes DEF RetentionInv, RetentionTypeOK
<1>2. o \in Nat /\ \A t \in ticks \cup books : o <= t
  <2>1. ticks \cup books \in SUBSET Nat
    BY <1>1
  <2> QED
    BY <1>1, <2>1, OldestFacts
<1>3. Rolled # {} => n \in Rolled /\ n \in Nat
  <2>1. Rolled \in SUBSET (0..HourOf(MaxClock)) /\ HourOf(MaxClock) \in Nat
    BY HoursFacts DEF Rolled
  <2>2. Rolled # {} => n \in Rolled
    BY <2>1, NewestFacts
  <2>3. \A h \in Rolled : h \in Nat
    BY HoursFacts DEF Rolled
  <2> HIDE DEF n
  <2> QED
    BY <2>2, <2>3
<1>4. FirstRaw = HourOf(o) /\ HourOf(o) \in Nat
  BY <1>2, HourOfFacts DEF FirstRaw
<1>5. \A t \in ticks \cup books : HourOf(o) <= HourOf(t) /\ HourOf(t) \in Nat
  BY <1>1, <1>2, HourOfMonotone, HourOfFacts
<1>6. \A h \in Hours : h < FirstRaw => rollup[h] = Value(h)
  <2> SUFFICES ASSUME NEW h \in Hours, h < FirstRaw PROVE rollup[h] = Value(h)
    OBVIOUS
  <2>1. h \in Nat
    BY HoursFacts
  <2>2. \A t \in ticks \cup books : h < HourOf(t)
    BY <1>4, <1>5, <2>1
  <2> QED
    BY <2>2, BehindRaw
<1>7. Rolled # {} => \A h \in Hours : h <= n => rollup[h] = Value(h)
  BY <1>1, <1>3 DEF NoHoles
<1> HIDE DEF o, n
<1>8. Resume = IF Rolled # {} /\ n + 1 > FirstRaw THEN n + 1 ELSE FirstRaw
  BY DEF Resume, n
<1>9. CASE Rolled # {} /\ n + 1 > FirstRaw
  <2>1. \A h \in Hours : h < n + 1 => h <= n
    BY <1>3, <1>9, HoursFacts
  <2> QED
    BY <1>3, <1>7, <1>8, <1>9, <2>1
<1>10. CASE ~(Rolled # {} /\ n + 1 > FirstRaw)
  BY <1>4, <1>6, <1>8, <1>10
<1> QED
  BY <1>9, <1>10

LEMMA BeginKeeps == ASSUME RetentionInv, NEW r \in Runs, Begin(r) PROVE RetentionInv'
<1>1. RetentionTypeOK /\ clock \in Nat /\ UNCHANGED <<clock, ticks, books, allTicks, allBooks, rollup>>
  BY DEF RetentionInv, RetentionTypeOK, Begin, feed
<1>2. CASE ticks \cup books = {}
  <2> DEFINE j == [Idle EXCEPT !.at = "prune", !.now = clock]
  <2>1. j.at = "prune" /\ j.now = clock /\ j.rows = NoRows /\ j \in Jobs
    BY <1>1, NoRowFacts DEF Idle, Jobs, Ats
  <2>2. job' = [job EXCEPT ![r] = j]
    BY <1>2 DEF Begin
  <2> HIDE DEF j
  <2>3. \A h \in Hours : rollup[h] = Value(h)
    BY <1>2, BehindRaw
  <2>4. JobOK(j)
    BY <1>1, <2>1, <2>3, NoRowFacts DEF JobOK
  <2> QED
    BY <1>1, <2>1, <2>2, <2>4, JobStep
<1>3. CASE ticks \cup books # {}
  <2> DEFINE j == [Idle EXCEPT !.at = "read", !.now = clock, !.next = Resume]
  <2>1. j.at = "read" /\ j.now = clock /\ j.rows = NoRows /\ j.next = Resume /\ j \in Jobs
    BY <1>1, <1>3, NoRowFacts, ResumeFacts DEF Idle, Jobs, Ats
  <2>2. job' = [job EXCEPT ![r] = j]
    BY <1>3 DEF Begin
  <2> HIDE DEF j
  <2>3. \A h \in Hours : h < Resume => rollup[h] = Value(h)
    BY <1>3, ResumeFacts
  <2>4. \A h \in Hours : rollup[h] = Value(h) => Covered(j, h)
    BY <2>1, NoRowFacts DEF Covered
  <2>5. JobOK(j)
    BY <1>1, <2>1, <2>3, <2>4, NoRowFacts DEF JobOK
  <2> QED
    BY <1>1, <2>1, <2>2, <2>5, JobStep
<1> QED
  BY <1>2, <1>3

LEMMA ReadHourKeeps == ASSUME RetentionInv, NEW r \in Runs, ReadHour(r) PROVE RetentionInv'
<1> DEFINE j  == job[r]
           h  == j.next
           v  == [index |-> IndexByHour(h), spread |-> SpreadByHour(h), mark |-> Newest(Opening(ticks, h))]
           rw == [j.rows EXCEPT ![h] = v]
           k  == [j EXCEPT !.next = h + 1, !.rows = rw]
<1>1. RetentionTypeOK /\ j \in Jobs /\ JobOK(j) /\ j.at = "read" /\ IsClosed(h, j.now) /\ RolledExact
  BY DEF RetentionInv, RetentionTypeOK, ReadHour
<1>2. h \in Nat /\ j.now \in Nat /\ j.now <= clock /\ clock \in Nat /\ clock <= MaxClock
      /\ j.rows \in [Hours -> RollRows]
  BY <1>1 DEF JobOK, Jobs, RetentionTypeOK
<1>3. h \in Hours
  <2>1. j.now <= MaxClock
    BY <1>2, Sizes
  <2> HIDE DEF j, h
  <2> QED
    BY <1>1, <1>2, <2>1, ClosedIsHour
<1>4. UNCHANGED <<clock, ticks, books, allTicks, allBooks, rollup>>
  BY DEF ReadHour, feed
<1>5. job' = [job EXCEPT ![r] = k]
  BY <1>1 DEF ReadHour, RetentionTypeOK, Jobs
<1>6. v \in RollRows
  <2>1. IndexByHour(h) \in Int /\ SpreadByHour(h) \in SUBSET Nat
    <3>1. IndexByHour(h) = Newest(In(allTicks, h)) /\ SpreadByHour(h) = In(allBooks, h)
      BY <1>3, ReadsExact DEF ReadersExact
    <3>2. Value(h) \in RollRows /\ Value(h).index = Newest(In(allTicks, h))
          /\ Value(h).spread = In(allBooks, h)
      BY <1>1, <1>2, ValueFacts
    <3>3. \A x \in RollRows : x.index \in Int /\ x.spread \in SUBSET Nat
      BY DEF RollRows
    <3> QED
      BY <3>1, <3>2, <3>3
  <2>2. Newest(Opening(ticks, h)) \in Int
    <3>1. Opening(ticks, h) \in SUBSET (0..clock)
      BY <1>1 DEF RetentionTypeOK, Opening
    <3> QED
      BY <1>2, <3>1, NewestFacts
  <2> QED
    BY <2>1, <2>2 DEF RollRows
<1>7. rollup[h] = NoRow => v = Value(h)
  BY <1>3, ReadIsValue
<1>8. rollup[h] # NoRow => rollup[h] = Value(h)
  BY <1>1, <1>3 DEF RolledExact, Rolled
<1> HIDE DEF v
<1>9. rw \in [Hours -> RollRows] /\ \A g \in Hours : rw[g] = IF g = h THEN v ELSE j.rows[g]
  BY <1>2, <1>3, <1>6
<1> HIDE DEF rw, j
<1>10. k \in Jobs /\ k.at = "read" /\ k.now = j.now /\ k.next = h + 1 /\ k.rows = rw
  <2> DEFINE n == h + 1
  <2>1. n \in Nat /\ rw \in [Hours -> RollRows]
    BY <1>2, <1>9
  <2>2. j \in [at : Ats, now : Nat, next : Nat, rows : [Hours -> RollRows]] /\ j.at = "read"
    BY <1>1 DEF Jobs
  <2>3. k = [j EXCEPT !.next = n, !.rows = rw]
    OBVIOUS
  <2> HIDE DEF n, k, h
  <2>4. k.at = "read" /\ k.now = j.now /\ k.next = n /\ k.rows = rw
    BY <2>2, <2>3
  <2>5. k \in Jobs
    BY <2>1, <2>2, <2>3 DEF Jobs
  <2> QED
    BY <2>4, <2>5 DEF n
<1>11. JobOK(k)
  <2>1. ASSUME NEW g \in Hours, rw[g] # NoRow PROVE g < h + 1 /\ IsClosed(g, j.now)
    <3>1. CASE g = h
      BY <1>1, <1>2, <3>1
    <3>2. CASE g # h
      <4>1. j.rows[g] # NoRow
        BY <1>9, <2>1, <3>2
      <4>2. g < h /\ IsClosed(g, j.now) /\ g \in Nat
        BY <1>1, <4>1, HoursFacts DEF JobOK
      <4> QED
        BY <1>2, <4>2
    <3> QED
      BY <3>1, <3>2
  <2>2. ASSUME NEW g \in Hours, g < h + 1, IsClosed(g, j.now) PROVE Covered(k, g)
    <3>1. CASE g = h
      BY <1>7, <1>8, <1>9, <1>10, <3>1 DEF Covered
    <3>2. CASE g # h
      <4>1. g \in Nat
        BY HoursFacts
      <4>2. g < h
        BY <1>2, <2>2, <3>2, <4>1
      <4>3. Covered(j, g)
        BY <1>1, <2>2, <4>2 DEF JobOK
      <4> QED
        BY <1>9, <1>10, <3>2, <4>3 DEF Covered
    <3> QED
      BY <3>1, <3>2
  <2> HIDE DEF k
  <2> QED
    BY <1>2, <1>10, <2>1, <2>2 DEF JobOK
<1> HIDE DEF k
<1> QED
  BY <1>4, <1>5, <1>10, <1>11, JobStep

LEMMA WriteKeeps == ASSUME RetentionInv, NEW r \in Runs, Write(r) PROVE RetentionInv'
<1> DEFINE j == job[r]
           k == [j EXCEPT !.at = "prune", !.rows = NoRows]
<1>1. RetentionTypeOK /\ RolledExact /\ NoHoles /\ PrunedRolled /\ \A q \in Runs : JobOK(job[q])
  BY DEF RetentionInv
<1>2. j \in Jobs /\ JobOK(j) /\ j.at = "read" /\ ~IsClosed(j.next, j.now)
  BY <1>1 DEF RetentionTypeOK, Write
<1>3. j.next \in Nat /\ j.now \in Nat /\ j.now <= clock /\ clock \in Nat /\ j.rows \in [Hours -> RollRows]
  BY <1>1, <1>2 DEF JobOK, Jobs, RetentionTypeOK
<1>4. UNCHANGED <<clock, ticks, books, allTicks, allBooks>> /\ rollup' = Merged(j.rows)
  BY DEF Write, feed
<1>5. job' = [job EXCEPT ![r] = k] /\ job \in [Runs -> Jobs]
  BY <1>1 DEF Write, RetentionTypeOK, Jobs
<1>6. k \in Jobs /\ k.at = "prune" /\ k.now = j.now /\ k.rows = NoRows
  BY <1>2, NoRowFacts DEF Jobs, Ats
<1> HIDE DEF k
<1>7. /\ rollup' \in [Hours -> RollRows]
      /\ \A h \in Hours : rollup'[h] = IF rollup[h] = NoRow THEN j.rows[h] ELSE rollup[h]
  BY <1>1, <1>3, <1>4 DEF Merged, RetentionTypeOK
<1> HIDE DEF j
<1>8. job' \in [Runs -> Jobs] /\ \A q \in Runs : job'[q] = IF q = r THEN k ELSE job[q]
  BY <1>5, <1>6
<1>9. RetentionTypeOK'
  BY <1>1, <1>4, <1>7, <1>8 DEF RetentionTypeOK
<1>10. \A h : Value(h)' = Value(h)
  BY <1>4 DEF Value
<1>11. ASSUME NEW h \in Hours, rollup'[h] # NoRow PROVE rollup'[h] = Value(h) /\ IsClosed(h, clock)
  <2>1. CASE rollup[h] # NoRow
    BY <1>1, <1>7, <2>1 DEF RolledExact, Rolled
  <2>2. CASE rollup[h] = NoRow
    <3>1. j.rows[h] # NoRow /\ rollup'[h] = j.rows[h]
      BY <1>7, <1>11, <2>2
    <3>2. h < j.next /\ IsClosed(h, j.now)
      BY <1>2, <3>1 DEF JobOK
    <3>3. Covered(j, h)
      BY <1>2, <3>2 DEF JobOK
    <3>4. h \in Int
      BY HoursFacts
    <3>5. IsClosed(h, clock)
      BY <1>3, <3>2, <3>4, ClosedFacts
    <3> QED
      BY <2>2, <3>1, <3>3, <3>5 DEF Covered
  <2> QED
    BY <2>1, <2>2
<1>12. ASSUME NEW h \in Hours, rollup[h] = Value(h) PROVE rollup'[h] = Value(h)
  BY <1>7, <1>11, <1>12
<1>13. ASSUME NEW h \in Hours, IsClosed(h, j.now) PROVE rollup'[h] = Value(h)
  <2>1. h \in Nat
    BY HoursFacts
  <2>2. h < j.next
    <3> SUFFICES ASSUME j.next <= h PROVE FALSE
      BY <1>3, <2>1
    <3>1. IsClosed(j.next, j.now)
      BY <1>3, <1>13, <2>1, ClosedFacts
    <3> QED
      BY <1>2, <3>1
  <2>3. Covered(j, h)
    BY <1>2, <1>13, <2>2 DEF JobOK
  <2> QED
    BY <1>7, <2>3 DEF Covered
<1>14. RolledExact'
  BY <1>4, <1>10, <1>11 DEF RolledExact, Rolled
<1>15. NoHoles'
  <2> SUFFICES ASSUME NEW g \in Hours, rollup'[g] # NoRow, NEW h \in Hours, h <= g
               PROVE  rollup'[h] = Value(h)
    BY <1>10 DEF NoHoles, Rolled
  <2>1. CASE rollup[g] # NoRow
    BY <1>1, <1>12, <2>1 DEF NoHoles, Rolled
  <2>2. CASE rollup[g] = NoRow
    <3>1. IsClosed(g, j.now)
      BY <1>2, <1>7, <2>2 DEF JobOK
    <3>2. g \in Int /\ h \in Int
      BY HoursFacts
    <3>3. IsClosed(h, j.now)
      BY <1>3, <3>1, <3>2, ClosedFacts
    <3> QED
      BY <1>13, <3>3
  <2> QED
    BY <2>1, <2>2
<1>16. \A h : Secured(h) => Secured(h)'
  BY <1>4, <1>10, <1>12 DEF Secured
<1>17. PrunedRolled'
  BY <1>1, <1>4, <1>16 DEF PrunedRolled
<1>18. ASSUME NEW q \in Jobs, JobOK(q) PROVE JobOK(q)'
  <2>1. ASSUME NEW h \in Hours, Covered(q, h) PROVE Covered(q, h)'
    BY <1>7, <1>10, <1>11, <2>1 DEF Covered
  <2> QED
    BY <1>4, <1>10, <1>12, <1>18, <2>1 DEF JobOK
<1>19. ASSUME NEW x \in Jobs, x = k PROVE JobOK(x)'
  BY <1>3, <1>4, <1>6, <1>10, <1>13, <1>19, NoRowFacts DEF JobOK
<1>20. ASSUME NEW q \in Runs PROVE JobOK(job[q])'
  BY <1>1, <1>5, <1>8, <1>18, <1>19
<1> QED
  BY <1>9, <1>14, <1>15, <1>17, <1>20 DEF RetentionInv

\* A step that deletes a row of an hour the rollup has.
LEMMA PruneStep ==
  ASSUME RetentionInv, UNCHANGED <<clock, allTicks, allBooks, rollup, job>>,
         ticks' \subseteq ticks, books' \subseteq books,
         \A t \in ticks \ ticks' : Secured(HourOf(t)) /\ Secured(HourOf(t) + 1),
         \A t \in books \ books' : Secured(HourOf(t))
  PROVE  RetentionInv'
<1>1. RetentionTypeOK /\ RolledExact /\ NoHoles /\ PrunedRolled /\ \A q \in Runs : JobOK(job[q])
  BY DEF RetentionInv
<1>2. RetentionTypeOK'
  BY <1>1 DEF RetentionTypeOK
<1>3. \A h : Value(h)' = Value(h)
  BY DEF Value
<1>4. RolledExact' /\ NoHoles'
  BY <1>1, <1>3 DEF RolledExact, NoHoles, Rolled
<1>5. \A h : Secured(h)' <=> Secured(h)
  BY <1>3 DEF Secured
<1>6. PrunedRolled'
  BY <1>1, <1>5 DEF PrunedRolled
<1>7. \A k \in Jobs : JobOK(k) => JobOK(k)'
  BY <1>3 DEF JobOK, Covered
<1>8. \A q \in Runs : JobOK(job[q])'
  BY <1>1, <1>7 DEF RetentionTypeOK
<1> QED
  BY <1>2, <1>4, <1>6, <1>8 DEF RetentionInv

\* What a pruning run may delete, the rollup has.
LEMMA ExpiredSecured ==
  ASSUME RetentionInv, NEW r \in Runs, job[r].at = "prune", NEW S, NEW t \in Nat, t \in Expired(S, r)
  PROVE  Secured(HourOf(t)) /\ Secured(HourOf(t) + 1)
<1> DEFINE n == job[r].now
           q == HourOf(t)
<1>1. RetentionTypeOK /\ JobOK(job[r]) /\ job[r] \in Jobs
  BY DEF RetentionInv, RetentionTypeOK
<1>2. n \in Nat /\ n <= clock /\ clock \in Nat /\ clock <= MaxClock
  BY <1>1 DEF JobOK, Jobs, RetentionTypeOK
<1>3. t < n - Retain
  BY DEF Expired
<1>4. \A h \in Hours : IsClosed(h, n) => rollup[h] = Value(h)
  BY <1>1 DEF JobOK
<1> HIDE DEF n
<1>5. IsClosed(q, n) /\ IsClosed(q + 1, n) /\ q \in Nat
  BY <1>2, <1>3, ExpiredClosed, HourOfFacts
<1> HIDE DEF q
<1>6. ASSUME NEW h \in Nat, IsClosed(h, n) PROVE Secured(h)
  <2>1. n <= MaxClock /\ h \in Int /\ h <= h
    BY <1>2, Sizes
  <2>2. h \in Hours
    BY <1>2, <1>6, <2>1, ClosedIsHour
  <2>3. IsClosed(h, clock)
    BY <1>2, <1>6, <2>1, ClosedFacts
  <2> QED
    BY <1>4, <1>6, <2>2, <2>3 DEF Secured
<1>7. q + 1 \in Nat
  BY <1>5
<1>8. Secured(q) /\ Secured(q + 1)
  BY <1>5, <1>6, <1>7
<1> QED
  BY <1>8 DEF q

LEMMA PruneTickKeeps ==
  ASSUME RetentionInv, NEW r \in Runs, NEW t \in Slots, PruneTick(r, t) PROVE RetentionInv'
<1>1. job[r].at = "prune" /\ t \in Expired(ticks, r) /\ t \in Nat /\ ticks' = ticks \ {t}
      /\ UNCHANGED <<clock, allTicks, allBooks, books, rollup, job>>
  BY DEF PruneTick, feed, Slots
<1>2. Secured(HourOf(t)) /\ Secured(HourOf(t) + 1)
  BY <1>1, ExpiredSecured
<1> QED
  BY <1>1, <1>2, PruneStep

LEMMA PruneBookKeeps ==
  ASSUME RetentionInv, NEW r \in Runs, NEW t \in Slots, PruneBook(r, t) PROVE RetentionInv'
<1>1. job[r].at = "prune" /\ t \in Expired(books, r) /\ t \in Nat /\ books' = books \ {t}
      /\ UNCHANGED <<clock, allTicks, allBooks, ticks, rollup, job>>
  BY DEF PruneBook, feed, Slots
<1>2. Secured(HourOf(t))
  BY <1>1, ExpiredSecured
<1> QED
  BY <1>1, <1>2, PruneStep

LEMMA RetentionInit == ASSUME Init PROVE RetentionInv
<1>1. clock = 0 /\ ticks = {} /\ books = {} /\ allTicks = {} /\ allBooks = {}
      /\ rollup = NoRows /\ job = [r \in Runs |-> Idle]
  BY DEF Init
<1>2. Idle \in Jobs
  BY NoRowFacts DEF Idle, Jobs, Ats
<1>3. RetentionTypeOK
  BY <1>1, <1>2, NoRowFacts, Sizes DEF RetentionTypeOK
<1>4. Rolled = {}
  BY <1>1, NoRowFacts DEF Rolled
<1>5. RolledExact /\ NoHoles /\ PrunedRolled
  BY <1>1, <1>4 DEF RolledExact, NoHoles, PrunedRolled
<1>6. \A r \in Runs : JobOK(job[r])
  BY <1>1, <1>3, IdleOK
<1> QED
  BY <1>3, <1>5, <1>6 DEF RetentionInv

LEMMA RetentionStutter == ASSUME RetentionInv, UNCHANGED vars PROVE RetentionInv'
<1>1. UNCHANGED <<clock, allTicks, allBooks, ticks, books, rollup, job>>
  BY DEF vars, feed
<1> QED
  BY <1>1, PruneStep

LEMMA RetentionStep == ASSUME RetentionInv, [Next]_vars PROVE RetentionInv'
<1>1. CASE UNCHANGED vars
  BY <1>1, RetentionStutter
<1>2. ASSUME NEW t \in Slots, InsertTick(t) \/ InsertBook(t) PROVE RetentionInv'
  BY <1>2, InsertTickKeeps, InsertBookKeeps
<1>3. CASE Pass
  BY <1>3, PassKeeps
<1>4. ASSUME NEW r \in Runs, Run(r) PROVE RetentionInv'
  BY <1>4, BeginKeeps, ReadHourKeeps, WriteKeeps, FinishKeeps, PruneTickKeeps, PruneBookKeeps DEF Run
<1>5. ASSUME NEW r \in Runs, Die(r) PROVE RetentionInv'
  BY <1>5, DieKeeps
<1> QED
  BY <1>1, <1>2, <1>3, <1>4, <1>5 DEF Next

(* Whatever the feed inserts while runs of prune.py overlap and die, the     *)
(* inductive invariant holds: rows of hourly_rollup are exact and final,     *)
(* rollup_hours leaves no hole, and prune deletes only what is rolled up.    *)
THEOREM RetentionInvariant == Spec => []RetentionInv
<1>1. Init => RetentionInv
  BY RetentionInit
<1>2. RetentionInv /\ [Next]_vars => RetentionInv'
  BY RetentionStep
<1> QED
  BY <1>1, <1>2, PTL DEF Spec

(* build_bars' readers return, for every hour and at every moment, what the *)
(* raw tables would say had nothing ever been deleted.                      *)
THEOREM ReadsStayExact == Spec => []ReadersExact
BY RetentionInvariant, ReadsExact, PTL

(* The open_mark rollup_hours stored for an hour is that of all its ticks,   *)
(* so a late insert, an overlapping run or a pruned tick never falsifies it. *)
THEOREM MarksStayExact == Spec => []MarkExact
BY RetentionInvariant, MarksExact, PTL
=============================================================================
