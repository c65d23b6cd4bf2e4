----------------------------- MODULE Retention -----------------------------
(***************************************************************************)
(* Ticks and book snapshots of one instrument, the hourly rollup made of   *)
(* them and their deletion: scripts/prune.py and the rollup functions and  *)
(* readers of storage/db.py, while run_feed.py goes on inserting.          *)
(*                                                                         *)
(* Time is counted in slots, HourLen to the hour; a row is its exchange    *)
(* time, which stands for its prices too.  An hour's spread is the median  *)
(* of its snapshots, so the model keeps the set.  Every insert and every   *)
(* batch of a DELETE is a transaction of its own; the three SELECTs of an  *)
(* hour (index, spread, open mark) are one step.  A run may die between    *)
(* any two steps, and a run by hand may overlap the timer's.               *)
(* --vacuum, an operator's repair step, is left out.                       *)
(***************************************************************************)
EXTENDS Integers, FiniteSets

CONSTANTS HourLen,      \* slots in an hour
          FillLatency,  \* _FILL_LATENCY
          Grace,        \* _ROLLUP_GRACE
          Retain,       \* RETAIN_DAYS
          Lag,          \* how late a row is inserted
          Runs,         \* runs of prune.py that may overlap
          MaxClock,     \* bound: the last slot
          MaxRows,      \* bound: rows inserted
          MaxDeaths     \* bound: runs that die

ASSUME RetentionAssumption ==
  /\ {HourLen, FillLatency, Grace, Retain, Lag, MaxClock, MaxRows, MaxDeaths} \subseteq Nat
  /\ HourLen > 0 /\ FillLatency < HourLen
  /\ Lag <= Grace                    \* staleness and commits take seconds, the grace is minutes
  /\ Retain >= 2 * HourLen + Grace   \* days against hours

VARIABLES clock,
          ticks, books,        \* the raw tables
          allTicks, allBooks,  \* everything ever inserted
          rollup,              \* hourly_rollup
          job,                 \* the runs of prune.py
          deaths

feed == <<clock, allTicks, allBooks>>
vars == <<feed, ticks, books, rollup, job, deaths>>

Slots   == 0..MaxClock
HourOf(t) == t \div HourLen
Hours   == 0..HourOf(MaxClock)
None    == -1
NoRow   == [index |-> None, spread |-> {}, mark |-> None]   \* NULL columns
NoRows  == [h \in Hours |-> NoRow]
Idle    == [at |-> "idle", now |-> 0, next |-> 0, rows |-> NoRows]

Newest(S) == IF S = {} THEN None ELSE CHOOSE t \in S : \A u \in S : u <= t
Oldest(S) == CHOOSE t \in S : \A u \in S : t <= u
In(S, h)  == {t \in S : HourOf(t) = h}

\* Native ticks from an hour before h to just after it began.
Opening(S, h) == {t \in S : h * HourLen - HourLen <= t /\ t <= h * HourLen + FillLatency}

-----------------------------------------------------------------------------
(* The readers: the rollup's value where there is one, else the raw rows.   *)
IndexByHour(h)  == IF rollup[h].index # None THEN rollup[h].index ELSE Newest(In(ticks, h))
SpreadByHour(h) == IF rollup[h].spread # {} THEN rollup[h].spread ELSE In(books, h)

-----------------------------------------------------------------------------
(* The feed, and time.                                                      *)
Inserted == Cardinality(allTicks) + Cardinality(allBooks)

InsertTick(t) ==
  /\ t \notin allTicks /\ t <= clock /\ clock <= t + Lag /\ Inserted < MaxRows
  /\ ticks' = ticks \cup {t} /\ allTicks' = allTicks \cup {t}
  /\ UNCHANGED <<clock, books, allBooks, rollup, job, deaths>>

InsertBook(t) ==
  /\ t \notin allBooks /\ t <= clock /\ clock <= t + Lag /\ Inserted < MaxRows
  /\ books' = books \cup {t} /\ allBooks' = allBooks \cup {t}
  /\ UNCHANGED <<clock, ticks, allTicks, rollup, job, deaths>>

Pass ==
  /\ clock < MaxClock /\ clock' = clock + 1
  /\ UNCHANGED <<ticks, books, allTicks, allBooks, rollup, job, deaths>>

-----------------------------------------------------------------------------
(* rollup_hours.                                                            *)
Rolled == {h \in Hours : rollup[h] # NoRow}

FirstRaw == HourOf(Oldest(ticks \cup books))

\* Where to resume: after the newest rollup hour.
Resume == IF Rolled # {} /\ Newest(Rolled) + 1 > FirstRaw THEN Newest(Rolled) + 1 ELSE FirstRaw

Begin(r) ==
  /\ job[r].at = "idle"
  /\ job' = [job EXCEPT ![r] =
       IF ticks \cup books = {}
         THEN [Idle EXCEPT !.at = "prune", !.now = clock]
         ELSE [Idle EXCEPT !.at = "read", !.now = clock, !.next = Resume]]
  /\ UNCHANGED <<feed, ticks, books, rollup, deaths>>

\* Bug: an hour is frozen as soon as it is over.
BugNoGrace(h, now) == (h + 1) * HourLen <= now

IsClosed(h, now) == (h + 1) * HourLen + Grace <= now

ReadHour(r) ==
  LET h == job[r].next
  IN /\ job[r].at = "read" /\ IsClosed(h, job[r].now)
     /\ job' = [job EXCEPT ![r].next = h + 1,
                           ![r].rows[h] = [index |-> IndexByHour(h), spread |-> SpreadByHour(h),
                                           mark |-> Newest(Opening(ticks, h))]]
     /\ UNCHANGED <<feed, ticks, books, rollup, deaths>>

\* Bug: INSERT OR REPLACE.
BugReplaces(rows) == [h \in Hours |-> IF rows[h] # NoRow THEN rows[h] ELSE rollup[h]]

\* INSERT OR IGNORE of the rows with something in them.
Merged(rows) == [h \in Hours |-> IF rollup[h] = NoRow THEN rows[h] ELSE rollup[h]]

Write(r) ==
  /\ job[r].at = "read" /\ ~IsClosed(job[r].next, job[r].now)
  /\ rollup' = Merged(job[r].rows)
  /\ job' = [job EXCEPT ![r].at = "prune", ![r].rows = NoRows]
  /\ UNCHANGED <<feed, ticks, books, deaths>>

-----------------------------------------------------------------------------
(* prune: the ticks, then the books, in batches.                            *)
Expired(S, r) == {t \in S : t < job[r].now - Retain}

PruneTick(r, t) ==
  /\ job[r].at = "prune" /\ t \in Expired(ticks, r)
  /\ ticks' = ticks \ {t}
  /\ UNCHANGED <<feed, books, rollup, job, deaths>>

PruneBook(r, t) ==
  /\ job[r].at = "prune" /\ Expired(ticks, r) = {} /\ t \in Expired(books, r)
  /\ books' = books \ {t}
  /\ UNCHANGED <<feed, ticks, rollup, job, deaths>>

\* Bug: the run ends with the first table.
BugFinishEarly(r) ==
  /\ job[r].at = "prune" /\ Expired(ticks, r) = {}
  /\ job' = [job EXCEPT ![r] = Idle]
  /\ UNCHANGED <<feed, ticks, books, rollup, deaths>>

Finish(r) ==
  /\ job[r].at = "prune" /\ Expired(ticks, r) = {} /\ Expired(books, r) = {}
  /\ job' = [job EXCEPT ![r] = Idle]
  /\ UNCHANGED <<feed, ticks, books, rollup, deaths>>

Die(r) ==
  /\ job[r].at # "idle" /\ deaths < MaxDeaths
  /\ job' = [job EXCEPT ![r] = Idle] /\ deaths' = deaths + 1
  /\ UNCHANGED <<feed, ticks, books, rollup>>

Init ==
  /\ clock = 0 /\ ticks = {} /\ books = {} /\ allTicks = {} /\ allBooks = {}
  /\ rollup = NoRows /\ job = [r \in Runs |-> Idle] /\ deaths = 0

\* The timer starts the run again and again, and a run goes on until it dies.
Run(r) == \/ Begin(r) \/ ReadHour(r) \/ Write(r) \/ Finish(r)
          \/ \E t \in Slots : PruneTick(r, t) \/ PruneBook(r, t)

Next ==
  \/ \E t \in Slots : InsertTick(t) \/ InsertBook(t)
  \/ Pass
  \/ \E r \in Runs : Run(r) \/ Die(r)

Spec     == Init /\ [][Next]_vars
LiveSpec == Spec /\ \A r \in Runs : WF_vars(Run(r))

-----------------------------------------------------------------------------
(* What build_bars reads of an hour is what the feed ever stored for it: the *)
(* last tick as its index close and every book in its spread's median,      *)
(* before, during and after rollup and pruning.                             *)
ReadersExact ==
  \A h \in Hours : /\ IndexByHour(h) = Newest(In(allTicks, h))
                   /\ SpreadByHour(h) = In(allBooks, h)

(* open_mark is what the schema says: the last tick at or just after the    *)
(* hour's start, at most an hour back, over everything ever stored.         *)
MarkExact == \A h \in Rolled : rollup[h].mark = Newest(Opening(allTicks, h))

(* The tables stay bounded: again and again, and once the clock is at its   *)
(* bound for good, no row is left past the retention, whatever runs died.   *)
ExpiredGoes == []<>(\A t \in ticks \cup books : t >= clock - Retain)
=============================================================================
