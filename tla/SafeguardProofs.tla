--------------------------- MODULE SafeguardProofs --------------------------
(***************************************************************************)
(* What stands around the traders: the gates before a live order, the REST *)
(* budget under every request, the limits over every entry and the check   *)
(* that watches the machine.  Four components that share nothing, each     *)
(* proved by itself.                                                       *)
(*                                                                         *)
(* The gates, for any number of backtests, versions, edits and orders.     *)
(* What a live trader stands on was decided when it started, from a log    *)
(* that goes on changing.  The invariant therefore speaks of every record: *)
(* a run has one record, which no window of its own outlasts; a record     *)
(* nobody edited passed because its verdicts did; and the record behind a  *)
(* running trader is still there, an edit of its flag included.            *)
(*                                                                         *)
(* The rate the client keeps is bounded for every rate, every burst, every *)
(* number of callers and every window.                                     *)
(*                                                                         *)
(* The health check, for any problems, restarts and kills.  Its memory is  *)
(* one file, overwritten at the end, so between two sinks of one alert the *)
(* invariant speaks of what is still to be told: what the run will save    *)
(* has been told to each sink or waits for it, and every alert waits once. *)
(* As long as every run saved, what the journal calls a problem is in the  *)
(* memory or its recovery waits to be told; hence no alert comes twice.    *)
(*                                                                         *)
(* The limits, for any set of instruments, any equities and any number of  *)
(* entries, losses and restarts: a shutdown goes from router to router, so *)
(* the invariant says which are halted at every point of it (SweepHalts),  *)
(* and that one not cut short holds them all; the pause limit lets one     *)
(* entry slip at most.  The caps compare sums: what the guard adds up      *)
(* before an entry with what is out there after it.  A sum is a fold in an *)
(* order nobody chose; it is first shown to be one that any element can be *)
(* taken out of (TotalWithout), and then the two are compared instrument   *)
(* by instrument.                                                          *)
(***************************************************************************)
EXTENDS Gates, TokenBucket, Healthcheck, Exposure, WellFoundedInduction,
        FiniteSetTheorems, SequenceTheorems, TLAPS

-----------------------------------------------------------------------------
(* The gates.                                                               *)

Jobs    == [run : Nat, pair : Pairs, native : BOOLEAN, ver : Nat, end : Nat]
Records == [job : Jobs, verdict : Verdicts, passed : BOOLEAN, edited : BOOLEAN]

GatesTypeOK ==
  /\ clock \in Nat /\ version \in Nat /\ approval \in Nat
  /\ jobs \subseteq Jobs /\ log \subseteq Records

\* A window ends no later than its run began, and runs are numbered by the clock.
InTime(j) == j.end <= j.run /\ j.run <= clock

WindowsClosed == (\A j \in jobs : InTime(j)) /\ (\A r \in log : InTime(r.job))

OneRecord ==
  /\ \A j, k \in jobs : j.run = k.run => j = k
  /\ \A j \in jobs, r \in log : j.run # r.job.run
  /\ \A r, s \in log : r.job.run = s.job.run => r = s

FlagEarned == \A r \in log : r.passed /\ ~r.edited => Passed(r.job, r.verdict)

\* The record r bears a trader of version ver approved on the run named.
Bears(r, named, ver) ==
  /\ r.job.run = named /\ r.job.ver = ver
  /\ r.job.native /\ r.verdict.met /\ r.verdict.fills /\ r.verdict.robust
  /\ ~r.edited => r.verdict.clears /\ r.verdict.long

TraderBorne == proc.up => \E r \in log : Bears(r, proc.basis, proc.ver)

GatesInv == GatesTypeOK /\ WindowsClosed /\ OneRecord /\ FlagEarned /\ TraderBorne

-----------------------------------------------------------------------------
LEMMA GatesStart == GatesInit => GatesInv
BY DEF GatesInit, Down, GatesInv, GatesTypeOK, WindowsClosed, OneRecord, FlagEarned, TraderBorne

\* A run that starts takes a number nobody has.
LEMMA RunStartsKeeps ==
  ASSUME GatesInv, NEW pair \in Pairs, NEW native \in BOOLEAN, NEW wanted \in Times,
         RunStarts(pair, native, wanted)
  PROVE  GatesInv'
<1> DEFINE j == [run |-> clock + 1, pair |-> pair, native |-> native, ver |-> version,
                 end |-> WindowEnd(wanted)]
<1>1. wanted \in Nat
  BY GatesAssumption DEF Times
<1>2. j \in Jobs /\ j.end <= j.run /\ j.run = clock + 1
  BY <1>1 DEF GatesInv, GatesTypeOK, Jobs, WindowEnd
<1>3. clock' = clock + 1 /\ jobs' = jobs \cup {j} /\ log' = log /\ proc' = proc
      /\ version' = version /\ approval' = approval
  BY DEF RunStarts
<1> HIDE DEF j
<1>4. GatesTypeOK'
  BY <1>2, <1>3 DEF GatesInv, GatesTypeOK
<1>5. WindowsClosed'
  BY <1>2, <1>3 DEF GatesInv, GatesTypeOK, WindowsClosed, InTime, Jobs, Records
<1>6. OneRecord'
  BY <1>2, <1>3 DEF GatesInv, GatesTypeOK, OneRecord, WindowsClosed, InTime, Jobs, Records
<1>7. FlagEarned' /\ TraderBorne'
  BY <1>3 DEF GatesInv, FlagEarned, TraderBorne, Bears, Passed
<1> QED
  BY <1>4, <1>5, <1>6, <1>7 DEF GatesInv

\* A run that ends hands its number from the jobs to the log.
LEMMA RunEndsKeeps ==
  ASSUME GatesInv, NEW j \in jobs, NEW v \in OneShort, RunEnds(j, v)
  PROVE  GatesInv'
<1> DEFINE r == [job |-> j, verdict |-> v, passed |-> Passed(j, v), edited |-> FALSE]
<1>1. j \in Jobs /\ v \in Verdicts
  BY DEF GatesInv, GatesTypeOK, OneShort
<1>2. Passed(j, v) \in BOOLEAN
  BY <1>1 DEF Passed, Verdicts, Jobs
<1>3. r \in Records
  BY <1>1, <1>2 DEF Records
<1>4. r.job = j /\ (r.passed => Passed(r.job, r.verdict))
  OBVIOUS
<1>5. jobs' = jobs \ {j} /\ log' = log \cup {r} /\ clock' = clock /\ proc' = proc
      /\ version' = version /\ approval' = approval
  BY DEF RunEnds
<1> HIDE DEF r
<1>6. GatesTypeOK'
  BY <1>3, <1>5 DEF GatesInv, GatesTypeOK
<1>7. WindowsClosed'
  BY <1>4, <1>5 DEF GatesInv, WindowsClosed, InTime
<1>8. OneRecord'
  BY <1>4, <1>5 DEF GatesInv, OneRecord
<1>9. FlagEarned'
  BY <1>4, <1>5 DEF GatesInv, FlagEarned
<1>10. TraderBorne'
  BY <1>5 DEF GatesInv, TraderBorne
<1> QED
  BY <1>6, <1>7, <1>8, <1>9, <1>10 DEF GatesInv

LEMMA RunDiesKeeps ==
  ASSUME GatesInv, NEW j \in jobs, RunDies(j)
  PROVE  GatesInv'
<1>1. jobs' = jobs \ {j} /\ UNCHANGED <<clock, version, log, approval, proc>>
  BY DEF RunDies
<1> QED
  BY <1>1 DEF GatesInv, GatesTypeOK, WindowsClosed, InTime, OneRecord, FlagEarned, TraderBorne

\* The gate re-derives from the record what it lets a trader start on.
LEMMA PassingBears ==
  ASSUME GatesInv, NEW r \in log, NEW ver, RecordPasses(r, ver)
  PROVE  Bears(r, r.job.run, ver)
BY DEF GatesInv, FlagEarned, RecordPasses, Bears, Passed

LEMMA TraderStartsKeeps ==
  ASSUME GatesInv, TraderStarts
  PROVE  GatesInv'
<1>1. UNCHANGED <<clock, version, jobs, log, approval>> /\ proc' = Started
  BY DEF TraderStarts
<1>2. Started.basis = approval /\ Started.ver = version
  BY DEF Started
<1>3. Validated(log, approval, version)
  BY DEF TraderStarts, Allowed, Started
<1>4. PICK a \in log : a.job.run = approval /\ RecordPasses(a, version)
  BY <1>3 DEF Validated
<1>5. Bears(a, approval, version)
  BY <1>4, PassingBears
<1>6. TraderBorne'
  BY <1>1, <1>2, <1>5 DEF TraderBorne, Bears
<1> QED
  BY <1>1, <1>6 DEF GatesInv, GatesTypeOK, WindowsClosed, InTime, OneRecord, FlagEarned

\* Editing a flag leaves the job and the verdicts of the record.
LEMMA EditFlagKeeps ==
  ASSUME GatesInv, NEW r \in log, EditFlag(r)
  PROVE  GatesInv'
<1> DEFINE e == [r EXCEPT !.passed = TRUE, !.edited = TRUE]
<1>1. r \in Records
  BY DEF GatesInv, GatesTypeOK
<1>2. e \in Records /\ e.job = r.job /\ e.verdict = r.verdict /\ e.edited
  BY <1>1 DEF Records
<1>3. log' = (log \ {r}) \cup {e} /\ UNCHANGED <<clock, version, jobs, approval, proc>>
  BY DEF EditFlag
<1> HIDE DEF e
<1>4. GatesTypeOK'
  BY <1>2, <1>3 DEF GatesInv, GatesTypeOK
<1>5. WindowsClosed'
  BY <1>2, <1>3 DEF GatesInv, WindowsClosed, InTime
<1>6. OneRecord'
  BY <1>2, <1>3 DEF GatesInv, OneRecord
<1>7. FlagEarned'
  BY <1>2, <1>3 DEF GatesInv, FlagEarned
<1>8. \A named, ver : Bears(r, named, ver) => Bears(e, named, ver)
  BY <1>2 DEF Bears
<1>9. TraderBorne'
  BY <1>3, <1>8 DEF GatesInv, TraderBorne
<1> QED
  BY <1>4, <1>5, <1>6, <1>7, <1>9 DEF GatesInv

LEMMA GatesStep == GatesInv /\ [GatesNext]_gatesVars => GatesInv'
<1> SUFFICES ASSUME GatesInv, [GatesNext]_gatesVars PROVE GatesInv'
  OBVIOUS
<1>1. ASSUME NEW pair \in Pairs, NEW native \in BOOLEAN, NEW wanted \in Times,
             RunStarts(pair, native, wanted)
      PROVE  GatesInv'
  BY <1>1, RunStartsKeeps
<1>2. ASSUME NEW j \in jobs, RunDies(j) PROVE GatesInv'
  BY <1>2, RunDiesKeeps
<1>3. ASSUME NEW j \in jobs, NEW v \in OneShort, RunEnds(j, v) PROVE GatesInv'
  BY <1>3, RunEndsKeeps
<1>4. CASE TraderStarts
  BY <1>4, TraderStartsKeeps
<1>5. CASE TraderEnds
  BY <1>5 DEF TraderEnds, Down, GatesInv, GatesTypeOK, WindowsClosed, InTime, OneRecord, FlagEarned, TraderBorne
<1>6. CASE Order
  BY <1>6 DEF Order, GatesInv, GatesTypeOK, WindowsClosed, InTime, OneRecord, FlagEarned, TraderBorne
<1>7. ASSUME NEW named \in Times, Approve(named) PROVE GatesInv'
  <2>1. named \in Nat
    BY GatesAssumption DEF Times
  <2> QED
    BY <1>7, <2>1 DEF Approve, GatesInv, GatesTypeOK, WindowsClosed, InTime, OneRecord, FlagEarned, TraderBorne
<1>8. CASE SetEnv
  BY <1>8 DEF SetEnv, GatesInv, GatesTypeOK, WindowsClosed, InTime, OneRecord, FlagEarned, TraderBorne
<1>9. ASSUME NEW v \in Versions, Deploy(v) PROVE GatesInv'
  <2>1. v \in Nat
    BY GatesAssumption DEF Versions
  <2> QED
    BY <1>9, <2>1 DEF Deploy, GatesInv, GatesTypeOK, WindowsClosed, InTime, OneRecord, FlagEarned, TraderBorne
<1>10. ASSUME NEW r \in log, EditFlag(r) PROVE GatesInv'
  BY <1>10, EditFlagKeeps
<1>11. CASE UNCHANGED gatesVars
  BY <1>11 DEF gatesVars, GatesInv, GatesTypeOK, WindowsClosed, InTime, OneRecord, FlagEarned, TraderBorne
<1> QED
  BY <1>1, <1>2, <1>3, <1>4, <1>5, <1>6, <1>7, <1>8, <1>9, <1>10, <1>11 DEF GatesNext

(* Every reachable state satisfies the invariant of the log and of the      *)
(* trader that stands on it (base.py, validation_log.py).                   *)
THEOREM GatesInvariant == GatesSpec => []GatesInv
<1>1. GatesInit => GatesInv
  BY GatesStart
<1>2. GatesInv /\ [GatesNext]_gatesVars => GatesInv'
  BY GatesStep
<1> QED
  BY <1>1, <1>2, PTL DEF GatesSpec

(* A live trader runs the harness version of the record it was approved on, *)
(* whatever was deployed, edited or approved since (_record_passes).        *)
THEOREM TestedCodeTrades == GatesSpec => []CodeThatTradesWasTested
<1>1. GatesInv => CodeThatTradesWasTested
  BY DEF GatesInv, TraderBorne, Bears, CodeThatTradesWasTested, Basis
<1> QED
  BY <1>1, GatesInvariant, PTL

(* A live trader stands on native data that met the bar with robust fills,  *)
(* also after a flag was edited by hand (_record_passes, evaluate_run).     *)
THEOREM EvidenceStands == GatesSpec => []EvidenceRederived
<1>1. GatesInv => EvidenceRederived
  BY DEF GatesInv, TraderBorne, Bears, EvidenceRederived, Basis
<1> QED
  BY <1>1, GatesInvariant, PTL

(* A native run made later, on all the data there is, that fails closes the *)
(* gate to the next trader: its window ends after the approved one's,       *)
(* because no window outlasts its run (_revokes).                           *)
THEOREM FailedRecheckCloses == GatesSpec => RecheckCloses
<1> DEFINE Closed == \E a, f \in log :
              /\ a.job.run = approval /\ f.job.pair = a.job.pair
              /\ f.job.native /\ f.job.ver = version /\ ~f.passed
              /\ f.job.run > a.job.run /\ f.job.end = f.job.run
           Step == ~proc.up /\ proc'.up => ~Closed
<1>1. GatesInv /\ [GatesNext]_gatesVars => [Step]_gatesVars
  <2> SUFFICES ASSUME GatesInv, GatesNext, ~proc.up, proc'.up, Closed PROVE FALSE
    BY DEF Closed
  <2>1. TraderStarts
    <3>1. CASE TraderEnds
      BY <3>1 DEF TraderEnds, Down
    <3> QED
      BY <3>1 DEF GatesNext, RunStarts, RunDies, RunEnds, Order, Approve, SetEnv, Deploy, EditFlag
  <2>2. Validated(log, approval, version)
    BY <2>1 DEF TraderStarts, Allowed, Started
  <2>3. PICK b \in log : b.job.run = approval /\ (\A r \in log : ~Revokes(r, b, version))
    BY <2>2 DEF Validated
  <2>4. PICK a \in log, f \in log :
              /\ a.job.run = approval /\ f.job.pair = a.job.pair
              /\ f.job.native /\ f.job.ver = version /\ ~f.passed
              /\ f.job.run > a.job.run /\ f.job.end = f.job.run
    OBVIOUS
  <2>5. a = b
    BY <2>3, <2>4 DEF GatesInv, OneRecord
  <2>6. f.job.end > b.job.end
    BY <2>4, <2>5 DEF GatesInv, GatesTypeOK, WindowsClosed, InTime, Records, Jobs
  <2>7. Revokes(f, b, version)
    BY <2>4, <2>5, <2>6 DEF Revokes
  <2> QED
    BY <2>3, <2>7
<1>2. RecheckCloses <=> [][Step]_gatesVars
  BY DEF RecheckCloses, Closed, Step
<1> QED
  BY <1>1, <1>2, GatesInvariant, PTL DEF GatesSpec

-----------------------------------------------------------------------------
(* The REST budget.                                                         *)

\* The bucket holds at least one token.
LEMMA CapacityHoldsOne == Capacity \in Nat /\ Token <= Capacity
<1>1. Token \in Nat /\ Burst \in Nat /\ Burst >= 1 /\ Token >= 1
  BY BucketAssumption
<1>2. Token * Burst \in Nat /\ Token * 1 <= Token * Burst
  BY <1>1, SMT
<1> QED
  BY <1>1, <1>2 DEF Capacity

\* A refill stops at the burst and loses nothing below it.
LEMMA RefillBounds ==
  ASSUME TypeOK
  PROVE  /\ Refilled \in Int /\ Refilled <= Capacity /\ -Early <= Refilled
         /\ Refilled = Capacity \/ Refilled = tokens + elapsed
         /\ Refilled <= tokens + elapsed
BY CapacityHoldsOne, BucketAssumption DEF TypeOK, Refilled, Lesser

\* Less credit in the bucket, no more in the window.
LEMMA LessCredit ==
  ASSUME NEW t \in Int, NEW r \in Int, NEW less \in Int, NEW bound \in Int,
         t + r <= bound, less <= r
  PROVE  t + less <= bound
OBVIOUS

\* A token taken from a refilled bucket moves credit from the bucket to the window.
LEMMA TakingKeepsCredit ==
  ASSUME TypeOK, CreditBound, tokens' = Refilled - Token, elapsed' = 0, taken' = taken + Token,
         window' = window
  PROVE  CreditBound'
<1>1. Refilled \in Int
  BY RefillBounds
<1>2. Refilled' <= Refilled - Token
  BY <1>1, CapacityHoldsOne, BucketAssumption DEF Refilled, Lesser, Capacity
<1>3. Refilled' \in Int /\ Capacity' = Capacity
  BY <1>1, CapacityHoldsOne, BucketAssumption DEF Refilled, Lesser, Capacity
<1>4. taken \in Nat /\ window \in Nat /\ taken + Refilled <= Capacity + window
  BY DEF TypeOK, CreditBound
<1>5. taken' \in Int /\ Capacity + window' \in Int /\ Refilled - Token \in Int
      /\ taken' + (Refilled - Token) <= Capacity + window'
  BY <1>1, <1>4, CapacityHoldsOne, BucketAssumption
<1>6. taken' + Refilled' <= Capacity + window'
  BY <1>2, <1>3, <1>5, LessCredit
<1> QED
  BY <1>3, <1>6 DEF CreditBound

\* The bucket starts full, nobody asleep, an empty window.
THEOREM InitBucket == BucketInit => IInv
<1> SUFFICES ASSUME BucketInit PROVE IInv
  OBVIOUS
<1>1. TypeOK
  BY CapacityHoldsOne, BucketAssumption DEF BucketInit, TypeOK, Awake
<1>2. SleepCovers
  BY DEF BucketInit, SleepCovers, Awake
<1>3. CreditBound
  BY CapacityHoldsOne DEF BucketInit, CreditBound, Refilled, Lesser
<1> QED
  BY <1>1, <1>2, <1>3 DEF IInv

\* Calls, sleeps, wake-ups, cancellations and time keep the bucket's invariant.
THEOREM StepBucket == IInv /\ [BucketNext]_bucketVars => IInv'
<1> SUFFICES ASSUME IInv, [BucketNext]_bucketVars PROVE IInv'
  OBVIOUS
<1>1. TypeOK /\ SleepCovers /\ CreditBound
  BY DEF IInv
<1>2. /\ tokens \in Int /\ elapsed \in Nat /\ window \in Nat /\ taken \in Nat
      /\ waiting \in SUBSET Callers /\ left \in [Callers -> [sleeping: BOOLEAN, rest: Int]]
      /\ -Early <= tokens /\ tokens <= Capacity
      /\ Token \in Nat \ {0} /\ Early \in Nat /\ Capacity \in Nat /\ Capacity' = Capacity
  BY <1>1, CapacityHoldsOne, BucketAssumption DEF TypeOK, Capacity
<1>3. /\ Refilled \in Int /\ Refilled <= Capacity /\ -Early <= Refilled
      /\ Refilled <= tokens + elapsed
      /\ Refilled = Capacity \/ Refilled = tokens + elapsed
  BY <1>1, RefillBounds
<1>4. ASSUME NEW c \in Callers, Call(c)
      PROVE  IInv'
  <2>1. TypeOK'
    BY <1>2, <1>4 DEF Call, TypeOK
  <2>2. SleepCovers'
    BY <1>1, <1>2, <1>4 DEF Call, SleepCovers
  <2>3. CreditBound'
    BY <1>1, <1>2, <1>4 DEF Call, CreditBound, Refilled
  <2> QED
    BY <2>1, <2>2, <2>3 DEF IInv
<1>5. ASSUME NEW c \in Callers, Take(c)
      PROVE  IInv'
  <2>1. TypeOK'
    BY <1>2, <1>3, <1>5 DEF Take, TypeOK
  <2>2. SleepCovers'
    BY <1>1, <1>2, <1>5 DEF Take, Turn, SleepCovers
  <2>3. CreditBound'
    BY <1>1, <1>5, TakingKeepsCredit DEF Take
  <2> QED
    BY <2>1, <2>2, <2>3 DEF IInv
<1>6. ASSUME NEW c \in Callers, Sleep(c)
      PROVE  IInv'
  <2>1. tokens' = Refilled /\ elapsed' = 0 /\ taken' = taken /\ window' = window /\ waiting' = waiting
        /\ Refilled < Token
    BY <1>6 DEF Sleep
  <2>2. /\ left'[c] = [sleeping |-> TRUE, rest |-> Token - Refilled]
        /\ \A d \in Callers \ {c} : left'[d] = left[d] /\ ~left'[d].sleeping
        /\ left' \in [Callers -> [sleeping: BOOLEAN, rest: Int]]
    BY <1>2, <1>3, <1>6 DEF Sleep, Turn
  <2>3. TypeOK'
    BY <1>2, <1>3, <2>1, <2>2 DEF TypeOK
  <2>4. Refilled + 0 + (Token - Refilled) = Token
    BY <1>2, <1>3
  <2>5. c \in waiting
    BY <1>6 DEF Sleep, Turn
  <2>6. SleepCovers'
    BY <2>1, <2>2, <2>4, <2>5 DEF SleepCovers
  <2>7. Refilled' \in Int /\ Refilled' <= Refilled
    BY <1>2, <1>3, <2>1 DEF Refilled, Lesser
  <2>8. taken + Refilled <= Capacity + window
    BY <1>1 DEF CreditBound
  <2>9. taken' \in Int /\ Capacity' + window' \in Int /\ taken' + Refilled <= Capacity' + window'
    BY <1>2, <2>1, <2>8
  <2>10. taken' + Refilled' <= Capacity' + window'
    BY <1>3, <2>7, <2>9, LessCredit
  <2> QED
    BY <2>3, <2>6, <2>10 DEF IInv, CreditBound
<1>7. ASSUME NEW c \in Callers, Wake(c)
      PROVE  IInv'
  <2>1. /\ left[c].sleeping /\ left[c].rest <= Early /\ tokens' = Refilled - Token /\ elapsed' = 0
        /\ taken' = taken + Token /\ waiting' = waiting \ {c} /\ window' = window
    BY <1>7 DEF Wake
  <2>2. tokens + elapsed + left[c].rest = Token /\ left[c].rest \in Int /\ tokens < Token
    BY <1>1, <1>2, <2>1 DEF SleepCovers
  <2>3. -Early <= Refilled - Token
    BY <1>2, <1>3, <2>1, <2>2, CapacityHoldsOne
  <2>4. left' \in [Callers -> [sleeping: BOOLEAN, rest: Int]]
    BY <1>2, <1>7 DEF Wake, Awake
  <2>5. TypeOK'
    BY <1>2, <1>3, <2>1, <2>3, <2>4 DEF TypeOK
  <2>6. \A d \in Callers : ~left'[d].sleeping
    BY <1>1, <1>2, <1>7 DEF Wake, Awake, SleepCovers
  <2>7. SleepCovers'
    BY <2>6 DEF SleepCovers
  <2>8. CreditBound'
    BY <1>1, <2>1, TakingKeepsCredit
  <2> QED
    BY <2>5, <2>7, <2>8 DEF IInv
<1>8. ASSUME NEW c \in Callers, Abandon(c)
      PROVE  IInv'
  <2>1. TypeOK'
    BY <1>2, <1>8 DEF Abandon, Awake, TypeOK
  <2>2. SleepCovers'
    BY <1>1, <1>2, <1>8 DEF Abandon, Awake, SleepCovers
  <2>3. CreditBound'
    BY <1>1, <1>2, <1>8 DEF Abandon, CreditBound, Refilled
  <2> QED
    BY <2>1, <2>2, <2>3 DEF IInv
<1>9. CASE Tick
  <2>1. /\ elapsed' = elapsed + 1 /\ window' = window + 1
        /\ tokens' = tokens /\ waiting' = waiting /\ taken' = taken
        /\ left' = [c \in Callers |-> IF left[c].sleeping THEN [left[c] EXCEPT !.rest = @ - 1] ELSE left[c]]
    BY <1>9 DEF Tick
  <2>2. \A c \in Callers : /\ left'[c].sleeping = left[c].sleeping
                           /\ left[c].sleeping => left'[c].rest = left[c].rest - 1
                           /\ left'[c] \in [sleeping: BOOLEAN, rest: Int]
    BY <1>2, <2>1
  <2>3. TypeOK'
    BY <1>2, <2>1, <2>2 DEF TypeOK
  <2>4. ASSUME NEW c \in Callers, left'[c].sleeping
        PROVE  /\ c \in waiting /\ tokens < Token /\ tokens + (elapsed + 1) + left'[c].rest = Token
               /\ \A d \in Callers : left'[d].sleeping => d = c
    <3>1. left[c].sleeping /\ left[c].rest \in Int /\ left'[c].rest = left[c].rest - 1
      BY <1>2, <2>2, <2>4
    <3>2. c \in waiting /\ tokens < Token /\ tokens + elapsed + left[c].rest = Token
          /\ \A d \in Callers : left[d].sleeping => d = c
      BY <1>1, <3>1 DEF SleepCovers
    <3> QED
      BY <1>2, <2>2, <3>1, <3>2
  <2>5. SleepCovers'
    BY <2>1, <2>4 DEF SleepCovers
  <2>6. Refilled' \in Int /\ Refilled' <= Refilled + 1
    BY <1>2, <2>1 DEF Refilled, Lesser
  <2>7. taken + Refilled <= Capacity + window
    BY <1>1 DEF CreditBound
  <2>8. taken' + Refilled' <= Capacity' + window'
    BY <1>2, <1>3, <2>1, <2>6, <2>7
  <2> QED
    BY <2>3, <2>5, <2>8 DEF IInv, CreditBound
<1>10. CASE Watch
  <2>1. TypeOK'
    BY <1>2, <1>10 DEF Watch, TypeOK
  <2>2. SleepCovers'
    BY <1>1, <1>10 DEF Watch, SleepCovers
  <2>3. Refilled' = Refilled
    BY <1>2, <1>10 DEF Watch, Refilled
  <2>4. CreditBound'
    BY <1>2, <1>3, <1>10, <2>3 DEF Watch, CreditBound
  <2> QED
    BY <2>1, <2>2, <2>4 DEF IInv
<1>11. CASE UNCHANGED bucketVars
  BY <1>1, <1>11 DEF bucketVars, IInv, TypeOK, SleepCovers, CreditBound, Refilled, Capacity
<1> QED
  BY <1>4, <1>5, <1>6, <1>7, <1>8, <1>9, <1>10, <1>11 DEF BucketNext

\* The bucket's invariant: the credit handed out in the window and the credit still
\* there are together no more than the burst and the age of the window.
THEOREM BucketInvariant == BucketSpec => []IInv
BY InitBucket, StepBucket, PTL DEF BucketSpec

\* However callers queue, sleep and are cancelled, no window sees more requests
\* than the burst and what its length accrues (TokenBucket.acquire).
THEOREM RateIsBounded == BucketSpec => []RateBound
<1>1. IInv => RateBound
  <2> SUFFICES ASSUME IInv PROVE RateBound
    OBVIOUS
  <2>1. TypeOK /\ CreditBound
    BY DEF IInv
  <2>2. Refilled \in Int /\ -Early <= Refilled
    BY <2>1, RefillBounds
  <2> QED
    BY <2>1, <2>2, CapacityHoldsOne, BucketAssumption DEF TypeOK, CreditBound, RateBound
<1> QED
  BY <1>1, BucketInvariant, PTL

-----------------------------------------------------------------------------
(* The health check.                                                        *)

Memories == [open : SUBSET Keys, seen : Int]
Messages == {Raise(k) : k \in Keys} \cup {Recovered(k) : k \in Keys} \cup {Restarted}

HealthTypeOK ==
  /\ bad \in SUBSET Keys /\ n \in Int
  /\ file \in Memories /\ next \in Memories
  /\ step \in {"idle", "emit", "save"}
  /\ due \in Seq(Messages) /\ sink \in {1, 2, 3}
  /\ DOMAIN said = Keys /\ DOMAIN handed = Others

\* The alert a is still to be given to the i-th sink.
Awaits(a, i) == \E j \in DOMAIN due : due[j] = a /\ (j = 1 => sink <= i)

DueOnce == \A i, j \in DOMAIN due : due[i] = due[j] => i = j

\* What the run will save has been told to every sink, or is about to be.
Telling ==
  /\ step = "save" => due = <<>>
  /\ step # "idle" =>
       /\ \A k \in next.open : /\ k \in ever \/ Awaits(Raise(k), 1)
                               /\ k \in handed["table"] \/ Awaits(Raise(k), 2)
                               /\ k \in handed["telegram"] \/ Awaits(Raise(k), 3)
       /\ next.seen \in covered \/ Awaits(Restarted, 1)

\* What the journal calls a problem is in the memory, or will be, or its recovery is
\* about to be told; and what is about to be raised will be in it and is no problem yet.
Remembered ==
  /\ step = "idle" => \A k \in Keys : said[k] = "problem" => k \in file.open
  /\ step # "idle" => \A k \in Keys :
       /\ said[k] = "problem" => k \in next.open \/ Awaits(Recovered(k), 1)
       /\ Awaits(Raise(k), 1) => k \in next.open /\ said[k] # "problem"

HealthInv ==
  /\ HealthTypeOK /\ DueOnce /\ Telling /\ MemoryTold
  /\ unsaved \/ (~repeated /\ Remembered)

-----------------------------------------------------------------------------
(* Sets put in order, and sequences put together.                           *)

LEMMA OrderedFacts ==
  ASSUME NEW S \in SUBSET Keys
  PROVE  /\ Cardinality(S) \in Nat
         /\ SetToSeq(S) \in [1..Cardinality(S) -> S]
         /\ \A i, j \in 1..Cardinality(S) : SetToSeq(S)[i] = SetToSeq(S)[j] => i = j
         /\ \A k \in S : \E i \in 1..Cardinality(S) : SetToSeq(S)[i] = k
<1> DEFINE c == Cardinality(S)
           f == SetToSeq(S)
<1>1. IsFiniteSet(S)
  BY HealthAssumption, FS_Subset
<1>2. c \in Nat /\ ExistsBijection(1..c, S)
  BY <1>1, FS_CardinalityType
<1>3. \E g \in [1..c -> S] : IsInjective(g)
  BY <1>2 DEF ExistsBijection, Bijection, Injection, IsInjective
<1>4. f \in [1..c -> S] /\ IsInjective(f)
  BY <1>3 DEF SetToSeq
<1> HIDE DEF f
<1>5. f \in Injection(1..c, S)
  BY <1>4 DEF Injection, IsInjective
<1>6. IsFiniteSet(1..c) /\ Cardinality(1..c) = c
  <2> HIDE DEF c
  <2> QED
    BY <1>2, FS_Interval
<1>7. f \in Surjection(1..c, S)
  BY <1>1, <1>5, <1>6, FS_Injection
<1>8. \A k \in S : \E i \in 1..c : f[i] = k
  BY <1>7 DEF Surjection
<1>9. \A i, j \in 1..c : f[i] = f[j] => i = j
  BY <1>4 DEF IsInjective
<1> QED
  BY <1>2, <1>4, <1>8, <1>9 DEF f

\* Each element of A once and nothing else.
Lists(s, A) ==
  /\ s \in Seq(Messages)
  /\ \A i \in DOMAIN s : s[i] \in A
  /\ \A a \in A : \E i \in DOMAIN s : s[i] = a
  /\ \A i, j \in DOMAIN s : s[i] = s[j] => i = j

LEMMA ListsTogether ==
  ASSUME NEW s, NEW u, NEW A, NEW B, Lists(s, A), Lists(u, B), A \cap B = {}
  PROVE  Lists(s \o u, A \cup B)
<1> DEFINE w == s \o u
           m == Len(s)
           q == Len(u)
<1>1. s \in Seq(Messages) /\ u \in Seq(Messages) /\ m \in Nat /\ q \in Nat
      /\ DOMAIN s = 1..m /\ DOMAIN u = 1..q
  BY DEF Lists
<1>2. /\ w \in Seq(Messages) /\ Len(w) = m + q
      /\ \A i \in 1..(m + q) : w[i] = IF i <= m THEN s[i] ELSE u[i - m]
  BY <1>1, ConcatProperties
<1>3. DOMAIN w = 1..(m + q)
  BY <1>2
<1> HIDE DEF w, m, q
<1>4. \A i \in 1..m : i \in 1..(m + q) /\ w[i] = s[i]
  BY <1>1, <1>2
<1>5. \A i \in 1..q : m + i \in 1..(m + q) /\ w[m + i] = u[i]
  <2> SUFFICES ASSUME NEW i \in 1..q PROVE m + i \in 1..(m + q) /\ w[m + i] = u[i]
    OBVIOUS
  <2>1. m + i \in 1..(m + q) /\ ~(m + i <= m) /\ (m + i) - m = i
    BY <1>1
  <2> QED
    BY <1>2, <2>1
<1>6. \A i \in 1..(m + q) : (i \in 1..m /\ w[i] = s[i]) \/ (i - m \in 1..q /\ i > m /\ w[i] = u[i - m])
  BY <1>1, <1>2
<1>7. \A i \in DOMAIN w : w[i] \in A \cup B
  BY <1>1, <1>3, <1>6 DEF Lists
<1>8. \A a \in A \cup B : \E i \in DOMAIN w : w[i] = a
  <2> SUFFICES ASSUME NEW a \in A \cup B PROVE \E i \in 1..(m + q) : w[i] = a
    BY <1>3
  <2>1. CASE a \in A
    <3>1. PICK i \in 1..m : s[i] = a
      BY <1>1, <2>1 DEF Lists
    <3> QED
      BY <1>4, <3>1
  <2>2. CASE a \in B
    <3>1. PICK i \in 1..q : u[i] = a
      BY <1>1, <2>2 DEF Lists
    <3> QED
      BY <1>5, <3>1
  <2> QED
    BY <2>1, <2>2
<1>9. ASSUME NEW i \in 1..(m + q), NEW j \in 1..(m + q), w[i] = w[j] PROVE i = j
  <2>1. \A x \in 1..m : s[x] \in A
    BY <1>1 DEF Lists
  <2>2. \A x \in 1..q : u[x] \in B
    BY <1>1 DEF Lists
  <2>3. CASE i \in 1..m /\ j \in 1..m
    BY <1>1, <1>4, <1>9, <2>3 DEF Lists
  <2>4. CASE i > m /\ j > m
    <3>1. i - m \in 1..q /\ j - m \in 1..q /\ u[i - m] = u[j - m]
      BY <1>1, <1>6, <1>9, <2>4
    <3>2. i - m = j - m
      BY <1>1, <3>1 DEF Lists
    <3> QED
      BY <1>1, <3>2
  <2>5. CASE i \in 1..m /\ j > m
    BY <1>1, <1>4, <1>6, <1>9, <2>1, <2>2, <2>5
  <2>6. CASE i > m /\ j \in 1..m
    BY <1>1, <1>4, <1>6, <1>9, <2>1, <2>2, <2>6
  <2> QED
    BY <1>1, <1>6, <2>3, <2>4, <2>5, <2>6
<1>10. Lists(w, A \cup B)
  BY <1>2, <1>3, <1>7, <1>8, <1>9 DEF Lists
<1> QED
  BY <1>10 DEF w

LEMMA RaisesListed ==
  ASSUME NEW S \in SUBSET Keys
  PROVE  Lists([i \in DOMAIN SetToSeq(S) |-> Raise(SetToSeq(S)[i])], {Raise(k) : k \in S})
<1> DEFINE c == Cardinality(S)
           f == SetToSeq(S)
           s == [i \in DOMAIN f |-> Raise(f[i])]
<1>1. c \in Nat /\ f \in [1..c -> S] /\ (\A i, j \in 1..c : f[i] = f[j] => i = j)
      /\ (\A k \in S : \E i \in 1..c : f[i] = k)
  BY OrderedFacts
<1> HIDE DEF c, f
<1>2. s = [i \in 1..c |-> Raise(f[i])] /\ DOMAIN s = 1..c
  BY <1>1
<1>3. \A i \in 1..c : s[i] = Raise(f[i]) /\ f[i] \in S /\ s[i] \in Messages
  BY <1>1, <1>2 DEF Messages
<1> HIDE DEF s
<1>4. s \in Seq(Messages)
  BY <1>1, <1>2, <1>3
<1>5. \A k, l : Raise(k) = Raise(l) => k = l
  BY DEF Raise
<1>6. Lists(s, {Raise(k) : k \in S})
  BY <1>1, <1>2, <1>3, <1>4, <1>5 DEF Lists
<1> QED
  BY <1>6 DEF s, f

LEMMA RecoveriesListed ==
  ASSUME NEW S \in SUBSET Keys
  PROVE  Lists([i \in DOMAIN SetToSeq(S) |-> Recovered(SetToSeq(S)[i])], {Recovered(k) : k \in S})
<1> DEFINE c == Cardinality(S)
           f == SetToSeq(S)
           s == [i \in DOMAIN f |-> Recovered(f[i])]
<1>1. c \in Nat /\ f \in [1..c -> S] /\ (\A i, j \in 1..c : f[i] = f[j] => i = j)
      /\ (\A k \in S : \E i \in 1..c : f[i] = k)
  BY OrderedFacts
<1> HIDE DEF c, f
<1>2. s = [i \in 1..c |-> Recovered(f[i])] /\ DOMAIN s = 1..c
  BY <1>1
<1>3. \A i \in 1..c : s[i] = Recovered(f[i]) /\ f[i] \in S /\ s[i] \in Messages
  BY <1>1, <1>2 DEF Messages
<1> HIDE DEF s
<1>4. s \in Seq(Messages)
  BY <1>1, <1>2, <1>3
<1>5. \A k, l : Recovered(k) = Recovered(l) => k = l
  BY DEF Recovered
<1>6. Lists(s, {Recovered(k) : k \in S})
  BY <1>1, <1>2, <1>3, <1>4, <1>5 DEF Lists
<1> QED
  BY <1>6 DEF s, f

LEMMA KindsDiffer ==
  /\ \A k : Raise(k).kind = "problem" /\ Raise(k).key = k /\ Recovered(k).kind = "recovered"
            /\ Recovered(k).key = k
  /\ \A k, l : Raise(k) # Recovered(l) /\ Raise(k) # Restarted /\ Recovered(l) # Restarted
  /\ \A k, l : (Raise(k) = Raise(l) => k = l) /\ (Recovered(k) = Recovered(l) => k = l)
  /\ Restarted.kind = "restarted"
BY DEF Raise, Recovered, Restarted

\* What evaluate() raises: every problem that is new, every recovery, each once.
LEMMA AlertsListed ==
  ASSUME HealthTypeOK
  PROVE  Lists(Alerts, (IF NewRestarts THEN {Restarted} ELSE {})
                       \cup {Raise(k) : k \in bad \ file.open}
                       \cup {Recovered(k) : k \in file.open \ bad})
<1> DEFINE R == IF NewRestarts THEN <<Restarted>> ELSE <<>>
           a == SetToSeq(bad \ file.open)
           c == SetToSeq(file.open \ bad)
           A == [i \in DOMAIN a |-> Raise(a[i])]
           C == [i \in DOMAIN c |-> Recovered(c[i])]
           r == IF NewRestarts THEN {Restarted} ELSE {}
           x == {Raise(k) : k \in bad \ file.open}
           y == {Recovered(k) : k \in file.open \ bad}
<1>1. bad \ file.open \in SUBSET Keys /\ file.open \ bad \in SUBSET Keys
  BY DEF HealthTypeOK, Memories
<1>2. Lists(A, x)
  BY <1>1, RaisesListed
<1>3. Lists(C, y)
  BY <1>1, RecoveriesListed
<1>4. Lists(R, r)
  <2>1. CASE NewRestarts
    <3>1. R = <<Restarted>> /\ r = {Restarted}
      BY <2>1
    <3>2. <<Restarted>> \in Seq(Messages) /\ DOMAIN <<Restarted>> = 1..1 /\ <<Restarted>>[1] = Restarted
      BY DEF Messages
    <3> QED
      BY <3>1, <3>2 DEF Lists
  <2>2. CASE ~NewRestarts
    <3>1. R = <<>> /\ r = {}
      BY <2>2
    <3>2. <<>> \in Seq(Messages) /\ DOMAIN <<>> = {}
      OBVIOUS
    <3> QED
      BY <3>1, <3>2 DEF Lists
  <2> QED
    BY <2>1, <2>2
<1>5. r \cap x = {} /\ (r \cup x) \cap y = {}
  BY KindsDiffer
<1>6. Alerts = R \o A \o C
  BY DEF Alerts
<1> HIDE DEF R, A, C, r, x, y
<1>7. Lists(R \o A, r \cup x)
  BY <1>2, <1>4, <1>5, ListsTogether
<1>8. Lists((R \o A) \o C, (r \cup x) \cup y)
  BY <1>3, <1>5, <1>7, ListsTogether
<1> QED
  BY <1>6, <1>8 DEF r, x, y

-----------------------------------------------------------------------------
(* What one turn of Alerter.emit does.                                      *)

LEMMA TailFacts ==
  ASSUME HealthTypeOK, due # <<>>
  PROVE  /\ Tail(due) \in Seq(Messages)
         /\ 1 \in DOMAIN due /\ Head(due) = due[1] /\ due[1] \in Messages
         /\ \A j \in DOMAIN Tail(due) : j \in Nat \ {0} /\ j + 1 \in DOMAIN due /\ Tail(due)[j] = due[j + 1]
         /\ \A j \in DOMAIN due : j \in Nat \ {0}
         /\ \A j \in DOMAIN due : j # 1 => j - 1 \in DOMAIN Tail(due) /\ Tail(due)[j - 1] = due[j]
<1>1. due \in Seq(Messages) /\ Len(due) \in Nat /\ DOMAIN due = 1..Len(due) /\ Len(due) # 0
  BY DEF HealthTypeOK
<1>2. /\ Tail(due) \in Seq(Messages) /\ Len(Tail(due)) = Len(due) - 1
      /\ \A j \in 1..(Len(due) - 1) : Tail(due)[j] = due[j + 1]
      /\ Head(due) = due[1]
  BY <1>1
<1>3. DOMAIN Tail(due) = 1..(Len(due) - 1)
  BY <1>2
<1>4. \A j \in DOMAIN due : j # 1 => j - 1 \in DOMAIN Tail(due) /\ Tail(due)[j - 1] = due[j]
  <2> SUFFICES ASSUME NEW j \in DOMAIN due, j # 1
               PROVE  j - 1 \in DOMAIN Tail(due) /\ Tail(due)[j - 1] = due[j]
    OBVIOUS
  <2>1. j - 1 \in 1..(Len(due) - 1) /\ (j - 1) + 1 = j
    BY <1>1
  <2> QED
    BY <1>2, <1>3, <2>1
<1>5. 1 \in DOMAIN due /\ due[1] \in Messages
  BY <1>1
<1> QED
  BY <1>1, <1>2, <1>3, <1>4, <1>5

LEMMA EmitDoes ==
  ASSUME HealthTypeOK, Emit
  PROVE  /\ due # <<>> /\ step = "emit"
         /\ UNCHANGED <<bad, full, n, readable, file, step, next, erring, unsaved, deaths>>
         /\ sink = 1 => Writes(due[1]) /\ handed' = handed
         /\ sink = 2 => Given("table", due[1])
         /\ sink = 3 => /\ UNCHANGED <<said, ever, covered, repeated>>
                        /\ \/ due[1].kind = "recovered" /\ handed' = handed
                           \/ Given("telegram", due[1])
         /\ sink # 3 => sink' = sink + 1 /\ due' = due
         /\ sink = 3 => sink' = 1 /\ due' = Tail(due)
<1>1. due # <<>> /\ step = "emit"
      /\ UNCHANGED <<bad, full, n, readable, file, step, next, erring, unsaved, deaths>>
  BY DEF Emit, world
<1>2. Head(due) = due[1]
  BY <1>1, TailFacts
<1>3. PICK ok \in BOOLEAN :
        /\ \/ Sinks[sink] = "journal" /\ ToJournal(Head(due), ok)
           \/ Sinks[sink] = "table" /\ ToTable(Head(due), ok)
           \/ Sinks[sink] = "telegram" /\ ToTelegram(Head(due), ok)
        /\ NextSink(ok)
  BY DEF Emit
<1>4. Sinks[1] = "journal" /\ Sinks[2] = "table" /\ Sinks[3] = "telegram" /\ Len(Sinks) = 3
  BY DEF Sinks
<1>5. sink \in {1, 2, 3}
  BY DEF HealthTypeOK
<1>6. sink = 1 => Writes(due[1]) /\ handed' = handed
  BY <1>2, <1>3, <1>4 DEF ToJournal
<1>7. sink = 2 => Given("table", due[1])
  BY <1>2, <1>3, <1>4 DEF ToTable
<1>8. sink = 3 => ToTelegram(due[1], ok)
  BY <1>2, <1>3, <1>4
<1>9. sink = 3 => /\ UNCHANGED <<said, ever, covered, repeated>>
                  /\ \/ due[1].kind = "recovered" /\ handed' = handed
                     \/ Given("telegram", due[1])
  BY <1>8, Zenon DEF ToTelegram, Given, journal
<1>10. sink # 3 => sink' = sink + 1 /\ due' = due
  BY <1>3, <1>4 DEF NextSink
<1>11. sink = 3 => sink' = 1 /\ due' = Tail(due)
  BY <1>3, <1>4 DEF NextSink, Done
<1> QED
  BY <1>1, <1>6, <1>7, <1>9, <1>10, <1>11

\* An alert goes on waiting for a sink until that sink has had it.
LEMMA AwaitsMoves ==
  ASSUME HealthTypeOK, Emit, NEW b, NEW i \in {1, 2, 3}, Awaits(b, i)
  PROVE  Awaits(b, i)' \/ (b = due[1] /\ sink = i)
<1>1. due # <<>> /\ (sink # 3 => sink' = sink + 1 /\ due' = due) /\ (sink = 3 => sink' = 1 /\ due' = Tail(due))
  BY EmitDoes
<1>2. PICK j \in DOMAIN due : due[j] = b /\ (j = 1 => sink <= i)
  BY DEF Awaits
<1>3. sink \in {1, 2, 3}
  BY DEF HealthTypeOK
<1>4. CASE sink # 3
  BY <1>1, <1>2, <1>3, <1>4 DEF Awaits
<1>5. CASE sink = 3
  <2>1. CASE j = 1
    BY <1>2, <1>5, <2>1
  <2>2. CASE j # 1
    <3>1. j - 1 \in DOMAIN due' /\ due'[j - 1] = b
      BY <1>1, <1>2, <1>5, <2>2, TailFacts
    <3>2. sink' <= i
      BY <1>1, <1>5
    <3> QED
      BY <3>1, <3>2 DEF Awaits
  <2> QED
    BY <2>1, <2>2
<1> QED
  BY <1>4, <1>5

\* No alert waits for the journal that did not before, nor the one it has just had.
LEMMA AwaitsOnce ==
  ASSUME HealthTypeOK, DueOnce, Emit, NEW b, Awaits(b, 1)'
  PROVE  Awaits(b, 1) /\ ~(b = due[1] /\ sink = 1)
<1>1. due # <<>> /\ (sink # 3 => sink' = sink + 1 /\ due' = due) /\ (sink = 3 => sink' = 1 /\ due' = Tail(due))
  BY EmitDoes
<1>2. PICK j \in DOMAIN due' : due'[j] = b /\ (j = 1 => sink' <= 1)
  BY DEF Awaits
<1>3. sink \in {1, 2, 3}
  BY DEF HealthTypeOK
<1>4. CASE sink # 3
  <2>1. j # 1 /\ j \in DOMAIN due /\ due[j] = b /\ due' = due
    BY <1>1, <1>2, <1>3, <1>4
  <2>2. b # due[1]
    BY <1>1, <2>1, TailFacts DEF DueOnce
  <2> QED
    BY <2>1, <2>2 DEF Awaits
<1>5. CASE sink = 3
  <2>1. j \in Nat \ {0} /\ j + 1 \in DOMAIN due /\ due[j + 1] = b
    BY <1>1, <1>2, <1>5, TailFacts
  <2>2. j + 1 # 1
    BY <2>1
  <2> QED
    BY <1>5, <2>1, <2>2 DEF Awaits
<1> QED
  BY <1>4, <1>5

LEMMA DueStaysOnce ==
  ASSUME HealthTypeOK, DueOnce, Emit
  PROVE  DueOnce'
<1>1. due # <<>> /\ (sink # 3 => due' = due) /\ (sink = 3 => due' = Tail(due))
  BY EmitDoes
<1>2. CASE sink # 3
  BY <1>1, <1>2 DEF DueOnce
<1>3. CASE sink = 3
  <2> SUFFICES ASSUME NEW i \in DOMAIN due', NEW j \in DOMAIN due', due'[i] = due'[j]
               PROVE  i = j
    BY DEF DueOnce
  <2>1. i \in Nat /\ j \in Nat /\ i + 1 \in DOMAIN due /\ j + 1 \in DOMAIN due /\ due[i + 1] = due[j + 1]
    BY <1>1, <1>3, TailFacts
  <2>2. i + 1 = j + 1
    BY <2>1 DEF DueOnce
  <2> QED
    BY <2>1, <2>2
<1> QED
  BY <1>2, <1>3

\* What a sink has been told it stays told.
LEMMA EmitTells ==
  ASSUME HealthTypeOK, Emit
  PROVE  /\ ever \subseteq ever' /\ covered \subseteq covered'
         /\ \A s \in Others : handed[s] \subseteq handed'[s]
         /\ DOMAIN said' = Keys /\ DOMAIN handed' = Others
         /\ \A k \in Keys : due[1] = Raise(k) => /\ sink = 1 => k \in ever'
                                                 /\ sink = 2 => k \in handed'["table"]
                                                 /\ sink = 3 => k \in handed'["telegram"]
         /\ due[1] = Restarted /\ sink = 1 => next.seen \in covered'
<1> DEFINE a == due[1]
<1>1. sink \in {1, 2, 3} /\ DOMAIN said = Keys /\ DOMAIN handed = Others
  BY DEF HealthTypeOK
<1>2. "table" \in Others /\ "telegram" \in Others
  BY DEF Others
<1>3. CASE sink = 1
  <2>1. /\ said' = IF a = Restarted THEN said ELSE [said EXCEPT ![a.key] = a.kind]
        /\ ever' = IF a.kind = "problem" THEN ever \cup {a.key} ELSE ever
        /\ covered' = IF a = Restarted THEN covered \cup {next.seen} ELSE covered
        /\ handed' = handed
    BY <1>3, EmitDoes, Zenon DEF Writes
  <2>2. ever \subseteq ever' /\ covered \subseteq covered' /\ DOMAIN said' = Keys
    <3> HIDE DEF a
    <3> QED
      BY <1>1, <2>1
  <2>3. \A k \in Keys : a = Raise(k) => k \in ever'
    BY <2>1, KindsDiffer
  <2> QED
    BY <1>1, <1>3, <2>1, <2>2, <2>3
<1>4. CASE sink = 2
  <2>1. handed' = (IF a.kind = "problem" THEN [handed EXCEPT !["table"] = @ \cup {a.key}] ELSE handed)
        /\ UNCHANGED <<said, ever, covered>>
    BY <1>4, EmitDoes, Zenon DEF Given, journal
  <2>2. DOMAIN handed' = Others /\ \A s \in Others : handed[s] \subseteq handed'[s]
    <3> HIDE DEF a
    <3> QED
      BY <1>1, <2>1
  <2>3. \A k \in Keys : a = Raise(k) => k \in handed'["table"]
    BY <1>1, <1>2, <2>1, KindsDiffer
  <2> QED
    BY <1>1, <1>4, <2>1, <2>2, <2>3
<1>5. CASE sink = 3
  <2>1. UNCHANGED <<said, ever, covered>>
    BY <1>5, EmitDoes
  <2>2. CASE a.kind = "recovered" /\ handed' = handed
    <3>1. \A k \in Keys : a # Raise(k)
      BY <2>2, KindsDiffer
    <3> QED
      BY <1>1, <1>5, <2>1, <2>2, <3>1
  <2>3. CASE handed' = IF a.kind = "problem" THEN [handed EXCEPT !["telegram"] = @ \cup {a.key}] ELSE handed
    <3>1. DOMAIN handed' = Others /\ \A s \in Others : handed[s] \subseteq handed'[s]
      <4> HIDE DEF a
      <4> QED
        BY <1>1, <2>3
    <3>2. \A k \in Keys : a = Raise(k) => k \in handed'["telegram"]
      BY <1>1, <1>2, <2>3, KindsDiffer
    <3> QED
      BY <1>1, <1>5, <2>1, <3>1, <3>2
  <2> QED
    BY <1>5, <2>2, <2>3, EmitDoes, Zenon DEF Given
<1> QED
  BY <1>1, <1>3, <1>4, <1>5

\* What a turn changes in the journal's last words.
LEMMA EmitSays ==
  ASSUME HealthTypeOK, Emit
  PROVE  /\ \A k \in Keys : said'[k] = "problem" =>
               \/ sink = 1 /\ due[1] = Raise(k)
               \/ said[k] = "problem" /\ ~(sink = 1 /\ due[1] = Recovered(k))
         /\ repeated' => repeated \/ (sink = 1 /\ \E k \in Keys : due[1] = Raise(k) /\ said[k] = "problem")
<1>1. sink \in {1, 2, 3} /\ DOMAIN said = Keys /\ due[1] \in Messages
  BY EmitDoes, TailFacts DEF HealthTypeOK
<1>2. CASE sink = 1
  <2>1. /\ said' = IF due[1] = Restarted THEN said ELSE [said EXCEPT ![due[1].key] = due[1].kind]
        /\ repeated' = (repeated \/ (due[1].kind = "problem" /\ said[due[1].key] = "problem"))
    BY <1>2, EmitDoes, Zenon DEF Writes
  <2>2. CASE due[1] = Restarted
    <3>1. due[1].kind # "problem" /\ \A k \in Keys : due[1] # Recovered(k)
      BY <2>2, KindsDiffer
    <3>2. said' = said
      BY <2>1, <2>2
    <3>3. repeated' => repeated
      BY <2>1, <3>1, Zenon
    <3> QED
      BY <3>1, <3>2, <3>3, Zenon
  <2>3. CASE \E x \in Keys : due[1] = Raise(x)
    <3>1. PICK x \in Keys : due[1] = Raise(x)
      BY <2>3
    <3>2. due[1].kind = "problem" /\ due[1].key = x /\ due[1] # Restarted
      BY <3>1, KindsDiffer
    <3>3. \A k \in Keys : said'[k] = "problem" => k = x \/ said[k] = "problem"
      BY <1>1, <2>1, <3>2
    <3>4. \A k \in Keys : due[1] # Recovered(k)
      BY <3>1, KindsDiffer
    <3>5. repeated' => repeated \/ said[x] = "problem"
      BY <2>1, <3>2, Zenon
    <3> QED
      BY <1>2, <3>1, <3>3, <3>4, <3>5, Zenon
  <2>4. CASE \E x \in Keys : due[1] = Recovered(x)
    <3>1. PICK x \in Keys : due[1] = Recovered(x)
      BY <2>4
    <3>2. due[1].kind = "recovered" /\ due[1].key = x /\ due[1] # Restarted
      BY <3>1, KindsDiffer
    <3>3. \A k \in Keys : said'[k] = "problem" => k # x /\ said[k] = "problem"
      BY <1>1, <2>1, <3>2
    <3>4. \A k \in Keys : k # x => due[1] # Recovered(k)
      BY <3>1, KindsDiffer
    <3>5. due[1].kind # "problem"
      BY <3>2
    <3>6. repeated' => repeated
      BY <2>1, <3>5, Zenon
    <3> QED
      BY <3>3, <3>4, <3>6, Zenon
  <2> QED
    BY <1>1, <2>2, <2>3, <2>4 DEF Messages
<1>3. CASE sink # 1
  <2>1. sink = 2 => said' = said /\ (repeated' => repeated)
    BY EmitDoes, Zenon DEF Given, journal
  <2>2. sink = 3 => said' = said /\ (repeated' => repeated)
    BY EmitDoes, Zenon
  <2>3. said' = said /\ (repeated' => repeated)
    BY <1>1, <1>3, <2>1, <2>2
  <2> QED
    BY <1>3, <2>3, Zenon
<1> QED
  BY <1>2, <1>3

-----------------------------------------------------------------------------
(* Every step of the check and of the machine keeps the invariant.          *)

LEMMA EmitKeeps == HealthInv /\ Emit => HealthInv'
<1> SUFFICES ASSUME HealthInv, Emit PROVE HealthInv'
  OBVIOUS
<1>0. unsaved \/ (~repeated /\ Remembered)
  BY Zenon DEF HealthInv
<1>1. HealthTypeOK /\ DueOnce /\ Telling /\ MemoryTold
  BY DEF HealthInv
<1>2. /\ due # <<>> /\ step = "emit" /\ step' = step
      /\ bad' = bad /\ n' = n /\ file' = file /\ next' = next
      /\ sink # 3 => sink' = sink + 1 /\ due' = due
      /\ sink = 3 => sink' = 1 /\ due' = Tail(due)
  BY <1>1, EmitDoes
<1>3. unsaved => unsaved'
  BY <1>1, EmitDoes, Zenon
<1>4. HealthTypeOK'
  <2>1. sink' \in {1, 2, 3}
    BY <1>1, <1>2 DEF HealthTypeOK
  <2>2. due' \in Seq(Messages)
    <3>1. due \in Seq(Messages) /\ Tail(due) \in Seq(Messages)
      BY <1>1, <1>2, TailFacts DEF HealthTypeOK
    <3> QED
      BY <1>2, <3>1
  <2> QED
    BY <1>1, <1>2, <2>1, <2>2, EmitTells DEF HealthTypeOK
<1>5. DueOnce'
  BY <1>1, DueStaysOnce
<1>6. MemoryTold'
  BY <1>1, <1>2, EmitTells DEF MemoryTold
<1>7. Telling'
  <2>1. ASSUME NEW k \in next'.open
        PROVE  /\ k \in ever' \/ Awaits(Raise(k), 1)'
               /\ k \in handed'["table"] \/ Awaits(Raise(k), 2)'
               /\ k \in handed'["telegram"] \/ Awaits(Raise(k), 3)'
    <3>1. k \in Keys /\ k \in next.open
      BY <1>1, <1>2 DEF HealthTypeOK, Memories
    <3>2. /\ k \in ever \/ Awaits(Raise(k), 1)
          /\ k \in handed["table"] \/ Awaits(Raise(k), 2)
          /\ k \in handed["telegram"] \/ Awaits(Raise(k), 3)
      BY <1>1, <1>2, <3>1 DEF Telling
    <3>3. k \in ever' \/ Awaits(Raise(k), 1)'
      BY <1>1, <3>1, <3>2, AwaitsMoves, EmitTells
    <3>4. k \in handed'["table"] \/ Awaits(Raise(k), 2)'
      BY <1>1, <3>1, <3>2, AwaitsMoves, EmitTells DEF Others
    <3>5. k \in handed'["telegram"] \/ Awaits(Raise(k), 3)'
      BY <1>1, <3>1, <3>2, AwaitsMoves, EmitTells DEF Others
    <3> QED
      BY <3>3, <3>4, <3>5
  <2>2. next'.seen \in covered' \/ Awaits(Restarted, 1)'
    <3>1. next.seen \in covered \/ Awaits(Restarted, 1)
      BY <1>1, <1>2 DEF Telling
    <3>2. CASE next.seen \in covered
      BY <1>1, <1>2, <3>2, EmitTells
    <3>3. CASE Awaits(Restarted, 1)
      <4>1. Awaits(Restarted, 1)' \/ (Restarted = due[1] /\ sink = 1)
        BY <1>1, <3>3, AwaitsMoves
      <4> QED
        BY <1>1, <1>2, <4>1, EmitTells
    <3> QED
      BY <3>1, <3>2, <3>3
  <2> QED
    BY <1>2, <2>1, <2>2 DEF Telling
<1>8. ASSUME ~unsaved' PROVE ~repeated' /\ Remembered'
  <2>1. ~repeated /\ Remembered
    BY <1>0, <1>3, <1>8, Zenon
  <2>2. \A k \in Keys : /\ said[k] = "problem" => k \in next.open \/ Awaits(Recovered(k), 1)
                        /\ Awaits(Raise(k), 1) => k \in next.open /\ said[k] # "problem"
    BY <1>2, <2>1 DEF Remembered
  <2>3. \A k \in Keys : sink = 1 /\ due[1] = Raise(k) => Awaits(Raise(k), 1)
    BY <1>1, <1>2, TailFacts DEF Awaits
  <2>4. ~repeated'
    BY <1>1, <2>1, <2>2, <2>3, EmitSays, Zenon
  <2>5. ASSUME NEW k \in Keys
        PROVE  /\ said'[k] = "problem" => k \in next'.open \/ Awaits(Recovered(k), 1)'
               /\ Awaits(Raise(k), 1)' => k \in next'.open /\ said'[k] # "problem"
    <3>1. ASSUME said'[k] = "problem" PROVE k \in next'.open \/ Awaits(Recovered(k), 1)'
      <4>1. CASE sink = 1 /\ due[1] = Raise(k)
        BY <1>2, <2>2, <2>3, <4>1
      <4>2. CASE said[k] = "problem" /\ ~(sink = 1 /\ due[1] = Recovered(k))
        <5>1. CASE k \in next.open
          BY <1>2, <5>1
        <5>2. CASE Awaits(Recovered(k), 1)
          BY <1>1, <4>2, <5>2, AwaitsMoves
        <5> QED
          BY <2>2, <4>2, <5>1, <5>2
      <4> QED
        BY <1>1, <3>1, <4>1, <4>2, EmitSays
    <3>2. ASSUME Awaits(Raise(k), 1)' PROVE k \in next'.open /\ said'[k] # "problem"
      <4>1. Awaits(Raise(k), 1) /\ ~(Raise(k) = due[1] /\ sink = 1)
        BY <1>1, <3>2, AwaitsOnce
      <4>2. k \in next.open /\ said[k] # "problem"
        BY <2>2, <4>1
      <4> QED
        BY <1>1, <1>2, <4>1, <4>2, EmitSays
    <3> QED
      BY <3>1, <3>2
  <2>6. Remembered'
    BY <1>2, <2>5 DEF Remembered
  <2> QED
    BY <2>4, <2>6, Zenon
<1> QED
  BY <1>4, <1>5, <1>6, <1>7, <1>8, Zenon DEF HealthInv

LEMMA CheckKeeps == HealthInv /\ Check => HealthInv'
<1> SUFFICES ASSUME HealthInv, Check PROVE HealthInv'
  OBVIOUS
<1>0. unsaved \/ (~repeated /\ Remembered)
  BY Zenon DEF HealthInv
<1>1. HealthTypeOK /\ DueOnce /\ Telling /\ MemoryTold
  BY DEF HealthInv
<1>2. /\ step = "idle" /\ step' = "emit" /\ due' = Alerts /\ sink' = 1
      /\ next' = [open |-> bad, seen |-> n]
      /\ covered' = (IF file.seen = Unknown \/ n < file.seen THEN covered \cup {n} ELSE covered)
      /\ bad' = bad /\ n' = n /\ file' = file /\ said' = said /\ ever' = ever /\ handed' = handed
  BY DEF Check, world
<1>3. (unsaved => unsaved') /\ (repeated' => repeated)
  BY Zenon DEF Check
<1>4. Lists(Alerts, (IF NewRestarts THEN {Restarted} ELSE {})
                    \cup {Raise(k) : k \in bad \ file.open}
                    \cup {Recovered(k) : k \in file.open \ bad})
  BY <1>1, AlertsListed
<1> DEFINE all == (IF NewRestarts THEN {Restarted} ELSE {})
                  \cup {Raise(k) : k \in bad \ file.open}
                  \cup {Recovered(k) : k \in file.open \ bad}
<1>5. \A a, i : i \in {1, 2, 3} => (Awaits(a, i)' <=> a \in all)
  <2> SUFFICES ASSUME NEW a, NEW i \in {1, 2, 3} PROVE Awaits(a, i)' <=> a \in all
    OBVIOUS
  <2> HIDE DEF all
  <2>1. Lists(Alerts, all)
    BY <1>4 DEF all
  <2> QED
    BY <1>2, <2>1 DEF Lists, Awaits
<1>6. HealthTypeOK'
  <2>1. due' \in Seq(Messages)
    BY <1>2, <1>4 DEF Lists
  <2>2. next' \in Memories
    BY <1>1, <1>2 DEF HealthTypeOK, Memories
  <2> QED
    BY <1>1, <1>2, <2>1, <2>2 DEF HealthTypeOK
<1>7. DueOnce'
  BY <1>2, <1>4 DEF Lists, DueOnce
<1>8. covered \subseteq covered'
  BY <1>2
<1>9. MemoryTold'
  BY <1>1, <1>2, <1>8 DEF MemoryTold
<1>10. Telling'
  <2>1. ASSUME NEW k \in bad
        PROVE  /\ k \in ever \/ Awaits(Raise(k), 1)'
               /\ k \in handed["table"] \/ Awaits(Raise(k), 2)'
               /\ k \in handed["telegram"] \/ Awaits(Raise(k), 3)'
    <3>1. CASE k \in file.open
      BY <1>1, <3>1 DEF MemoryTold, Others
    <3>2. CASE k \notin file.open
      <4>1. Raise(k) \in all
        BY <3>2
      <4> HIDE DEF all
      <4> QED
        BY <1>5, <4>1
    <3> QED
      BY <3>1, <3>2
  <2>2. n \in covered' \/ Awaits(Restarted, 1)'
    <3>1. CASE file.seen = Unknown \/ n < file.seen
      BY <1>2, <3>1
    <3>2. CASE NewRestarts
      <4>1. Restarted \in all
        BY <3>2
      <4> HIDE DEF all
      <4> QED
        BY <1>5, <4>1
    <3>3. CASE file.seen # Unknown /\ n = file.seen
      BY <1>1, <1>8, <3>3 DEF MemoryTold
    <3>4. n \in Int /\ file.seen \in Int
      BY <1>1 DEF HealthTypeOK, Memories
    <3> QED
      BY <3>1, <3>2, <3>3, <3>4 DEF NewRestarts
  <2> QED
    BY <1>2, <2>1, <2>2 DEF Telling
<1>11. ASSUME ~unsaved' PROVE ~repeated' /\ Remembered'
  <2>1. ~repeated /\ Remembered
    BY <1>0, <1>3, <1>11, Zenon
  <2>2. \A k \in Keys : said[k] = "problem" => k \in file.open
    BY <1>2, <2>1 DEF Remembered
  <2>3. ASSUME NEW k \in Keys
        PROVE  /\ said[k] = "problem" => k \in bad \/ Awaits(Recovered(k), 1)'
               /\ Awaits(Raise(k), 1)' => k \in bad /\ said[k] # "problem"
    <3>1. k \in file.open \ bad => Recovered(k) \in all
      OBVIOUS
    <3>2. Raise(k) \in all => k \in bad \ file.open
      BY KindsDiffer
    <3> HIDE DEF all
    <3> QED
      BY <1>5, <2>2, <3>1, <3>2
  <2>4. Remembered'
    BY <1>2, <2>3 DEF Remembered
  <2> QED
    BY <1>3, <2>1, <2>4, Zenon
<1> QED
  BY <1>6, <1>7, <1>9, <1>10, <1>11, Zenon DEF HealthInv

\* What leaves the run and the journal alone, whatever happens to the machine.
LEMMA MachineKeeps ==
  ASSUME HealthInv, bad' \in SUBSET Keys, n' \in Int, UNCHANGED <<run, journal, handed, unsaved>>
  PROVE  HealthInv'
<1>1. /\ file' = file /\ step' = step /\ due' = due /\ sink' = sink /\ next' = next
      /\ said' = said /\ ever' = ever /\ covered' = covered /\ handed' = handed
  BY DEF run, journal
<1>2. (unsaved => unsaved') /\ (repeated' => repeated)
  BY Zenon DEF journal
<1>3. \A a, i : Awaits(a, i)' <=> Awaits(a, i)
  BY <1>1 DEF Awaits
<1>4. HealthTypeOK' /\ DueOnce' /\ MemoryTold'
  BY <1>1 DEF HealthInv, HealthTypeOK, DueOnce, MemoryTold
<1>5. Telling'
  BY <1>1, <1>3 DEF HealthInv, Telling
<1>6. Remembered => Remembered'
  BY <1>1, <1>3 DEF Remembered
<1> QED
  BY <1>2, <1>4, <1>5, <1>6, Zenon DEF HealthInv

LEMMA SaveKeeps == HealthInv /\ Save => HealthInv'
<1> SUFFICES ASSUME HealthInv, Save PROVE HealthInv'
  OBVIOUS
<1>1. HealthTypeOK /\ DueOnce /\ Telling /\ MemoryTold
  BY DEF HealthInv
<1>2. /\ step = "save" /\ step' = "idle" /\ file' \in {Empty, next}
      /\ due' = due /\ sink' = sink /\ next' = next /\ bad' = bad /\ n' = n
      /\ said' = said /\ ever' = ever /\ covered' = covered /\ handed' = handed
  BY DEF Save, world, journal
<1>3. /\ unsaved' \/ (~unsaved /\ file' = next)
      /\ repeated' => repeated
  BY Zenon DEF Save, journal
<1>4. \A a, i : ~Awaits(a, i)
  BY <1>1, <1>2 DEF Telling, Awaits
<1>5. Empty \in Memories /\ Empty.open = {} /\ Empty.seen = Unknown
  BY DEF Empty, Memories, Unknown
<1>6. HealthTypeOK' /\ DueOnce'
  BY <1>1, <1>2, <1>5 DEF HealthTypeOK, DueOnce
<1>7. MemoryTold'
  <2>1. CASE file' = Empty
    BY <1>5, <2>1 DEF MemoryTold
  <2>2. CASE file' = next
    <3>1. /\ \A k \in next.open : k \in ever /\ k \in handed["table"] /\ k \in handed["telegram"]
          /\ next.seen \in covered
      BY <1>1, <1>2, <1>4 DEF Telling
    <3> QED
      BY <1>2, <2>2, <3>1 DEF MemoryTold, Others
  <2> QED
    BY <1>2, <2>1, <2>2
<1>8. Telling'
  BY <1>2 DEF Telling
<1>9. ASSUME ~unsaved' PROVE ~repeated' /\ Remembered'
  <2>1. ~repeated /\ Remembered /\ file' = next
    BY <1>3, <1>9, Zenon DEF HealthInv
  <2>2. \A k \in Keys : said[k] = "problem" => k \in next.open
    BY <1>2, <1>4, <2>1 DEF Remembered
  <2>3. Remembered'
    BY <1>2, <2>1, <2>2 DEF Remembered
  <2> QED
    BY <1>3, <2>1, <2>3, Zenon
<1> QED
  BY <1>6, <1>7, <1>8, <1>9, Zenon DEF HealthInv

LEMMA DieKeeps == HealthInv /\ Die => HealthInv'
<1> SUFFICES ASSUME HealthInv, Die PROVE HealthInv'
  OBVIOUS
<1>1. HealthTypeOK /\ MemoryTold
  BY DEF HealthInv
<1>2. /\ step' = "idle" /\ file' \in {Empty, file} /\ due' = <<>> /\ sink' = 1
      /\ next' = next /\ bad' = bad /\ n' = n
      /\ said' = said /\ ever' = ever /\ covered' = covered /\ handed' = handed
  BY DEF Die, world, journal
<1>3. unsaved'
  BY Zenon DEF Die
<1>4. Empty \in Memories /\ Empty.open = {} /\ Empty.seen = Unknown
  BY DEF Empty, Memories, Unknown
<1>5. <<>> \in Seq(Messages) /\ DOMAIN <<>> = {}
  OBVIOUS
<1>6. HealthTypeOK'
  BY <1>1, <1>2, <1>4, <1>5 DEF HealthTypeOK
<1>7. DueOnce' /\ Telling'
  BY <1>2, <1>5 DEF DueOnce, Telling
<1>8. MemoryTold'
  BY <1>1, <1>2, <1>4 DEF MemoryTold
<1> QED
  BY <1>3, <1>6, <1>7, <1>8, Zenon DEF HealthInv

LEMMA EmittedKeeps == HealthInv /\ Emitted => HealthInv'
<1> SUFFICES ASSUME HealthInv, Emitted PROVE HealthInv'
  OBVIOUS
<1>0. unsaved \/ (~repeated /\ Remembered)
  BY Zenon DEF HealthInv
<1>1. HealthTypeOK /\ DueOnce /\ Telling /\ MemoryTold
  BY DEF HealthInv
<1>2. /\ step = "emit" /\ step' = "save" /\ due = <<>>
      /\ file' = file /\ due' = due /\ sink' = sink /\ next' = next /\ bad' = bad /\ n' = n
      /\ said' = said /\ ever' = ever /\ covered' = covered /\ handed' = handed
  BY DEF Emitted, world, journal
<1>4. \A a, i : Awaits(a, i)' <=> Awaits(a, i)
  BY <1>2 DEF Awaits
<1>5. HealthTypeOK' /\ DueOnce' /\ MemoryTold'
  BY <1>1, <1>2 DEF HealthTypeOK, DueOnce, MemoryTold
<1>6. Telling'
  BY <1>1, <1>2, <1>4 DEF Telling
<1>7. Remembered => Remembered'
  BY <1>2, <1>4 DEF Remembered
<1>8. unsaved' \/ (~repeated' /\ Remembered')
  BY <1>0, <1>7, Zenon DEF Emitted, journal
<1> QED
  BY <1>5, <1>6, <1>8, Zenon DEF HealthInv

LEMMA HealthStart == HealthInit => HealthInv
<1> SUFFICES ASSUME HealthInit PROVE HealthInv
  OBVIOUS
<1>1. /\ bad = {} /\ n = 0 /\ file = Empty /\ step = "idle" /\ due = <<>> /\ sink = 1 /\ next = Empty
      /\ said = [k \in Keys |-> "nothing"] /\ handed = [s \in Others |-> {}]
  BY DEF HealthInit
<1>2. ~repeated
  BY Zenon DEF HealthInit
<1>3. Empty \in Memories /\ Empty.open = {} /\ Empty.seen = Unknown
  BY DEF Empty, Memories, Unknown
<1>4. <<>> \in Seq(Messages) /\ DOMAIN <<>> = {}
  OBVIOUS
<1>5. HealthTypeOK /\ DueOnce
  BY <1>1, <1>3, <1>4 DEF HealthTypeOK, DueOnce
<1>6. Telling /\ MemoryTold /\ Remembered
  BY <1>1, <1>3 DEF Telling, MemoryTold, Remembered
<1> QED
  BY <1>2, <1>5, <1>6, Zenon DEF HealthInv

LEMMA HealthKeeps == HealthInv /\ [HealthNext]_healthVars => HealthInv'
<1> SUFFICES ASSUME HealthInv, [HealthNext]_healthVars PROVE HealthInv'
  OBVIOUS
<1>1. bad \in SUBSET Keys /\ n \in Int
  BY DEF HealthInv, HealthTypeOK
<1>2. CASE Check
  BY <1>2, CheckKeeps
<1>3. CASE Emit
  BY <1>3, EmitKeeps
<1>4. CASE Emitted
  BY <1>4, EmittedKeeps
<1>5. CASE Save
  BY <1>5, SaveKeeps
<1>6. CASE Die
  BY <1>6, DieKeeps
<1>7. CASE CheckFails
  BY <1>1, <1>7, MachineKeeps DEF CheckFails, world
<1>8. CASE \E k \in Keys : Appear(k) \/ Clear(k)
  <2>1. PICK k \in Keys : Appear(k) \/ Clear(k)
    BY <1>8
  <2>2. bad' \in SUBSET Keys /\ n' \in Int /\ UNCHANGED <<run, journal, handed, unsaved>>
    BY <1>1, <2>1 DEF Appear, Clear, idle
  <2> QED
    BY <2>2, MachineKeeps
<1>9. CASE Fill
  BY <1>1, <1>9, MachineKeeps DEF Fill, idle
<1>10. CASE Restart
  BY <1>1, <1>10, MachineKeeps DEF Restart, idle
<1>11. CASE Redeploy
  BY <1>1, <1>11, MachineKeeps DEF Redeploy, idle
<1>12. CASE Lock
  BY <1>1, <1>12, MachineKeeps DEF Lock, idle
<1>13. CASE UNCHANGED healthVars
  BY <1>1, <1>13, MachineKeeps DEF healthVars, world
<1> QED
  BY <1>2, <1>3, <1>4, <1>5, <1>6, <1>7, <1>8, <1>9, <1>10, <1>11, <1>12, <1>13
  DEF HealthNext, HealthStep

(* Whatever appears and clears, fails and is killed, what the check will save has been
   told or is about to be, and what the journal calls a problem is remembered as long
   as every run saved its memory (healthcheck.py main, alerts.py Alerter.emit). *)
THEOREM HealthInvariant == HealthSpec => []HealthInv
<1>1. HealthInit => HealthInv
  BY HealthStart
<1>2. HealthInv /\ [HealthNext]_healthVars => HealthInv'
  BY HealthKeeps
<1> QED
  BY <1>1, <1>2, PTL DEF HealthSpec

(* health-state.json never lists a problem or a restart that some sink was not given:
   killed between two alerts or two sinks, the check repeats an alert and loses none,
   for every set of problems (healthcheck.py main saves after the loop over emit). *)
THEOREM MemoryNeverAhead == HealthSpec => []MemoryTold
<1>1. HealthInv => MemoryTold
  BY DEF HealthInv
<1> QED
  BY <1>1, HealthInvariant, PTL

(* As long as every run saved its memory, no problem is raised twice without having
   been reported as recovered in between, however it flaps (healthcheck.py evaluate). *)
THEOREM RaisedOnce == HealthSpec => []OnceUnlessLost
<1>1. HealthInv => OnceUnlessLost
  BY Zenon DEF HealthInv, OnceUnlessLost
<1> QED
  BY <1>1, HealthInvariant, PTL

-----------------------------------------------------------------------------
(* Sums over the instruments.                                               *)

\* The element a sum takes next, and the recursion it follows.
First(s) == CHOOSE x \in s : TRUE

Sums(h, f, S) ==
    h = [s \in SUBSET S |-> IF s = {} THEN 0 ELSE f[First(s)] + h[s \ {First(s)}]]

LEMMA TotalIs == ASSUME NEW f, NEW S PROVE Total(S, f) = (CHOOSE h : Sums(h, f, S))[S]
BY DEF Total, SumFunctionOnSet, FoldFunctionOnSet, MapThenFoldSet, Sums, First

LEMMA LeastNat == ASSUME NEW B \in SUBSET Nat, B # {} PROVE \E m \in B : \A k \in B : m <= k
<1> DEFINE R == OpToRel(<, Nat)
<1>1. IsWellFoundedOn(R, Nat)
  BY NatLessThanWellFounded
<1>2. \A x, y \in Nat : <<y, x>> \notin R => x <= y
  BY DEF OpToRel
<1> HIDE DEF R
<1>3. \E x \in B : \A y \in B : <<y, x>> \notin R
  BY <1>1, WFMin
<1> QED
  BY <1>2, <1>3

\* Induction over the sets of instruments, smaller ones first.
LEMMA BySize ==
    ASSUME NEW G \in SUBSET SUBSET Instruments,
           \A s \in SUBSET Instruments :
               (\A t \in SUBSET Instruments : Cardinality(t) < Cardinality(s) => t \in G) => s \in G
    PROVE  G = SUBSET Instruments
<1> DEFINE B == (SUBSET Instruments) \ G
           N == {Cardinality(t) : t \in B}
<1>1. \A t \in SUBSET Instruments : Cardinality(t) \in Nat
  BY ExposureAssumption, FS_Subset, FS_CardinalityType
<1>2. SUFFICES ASSUME B # {} PROVE FALSE
  OBVIOUS
<1>3. N \in SUBSET Nat /\ N # {}
  BY <1>1, <1>2
<1>4. PICK m \in N : \A k \in N : m <= k
  BY <1>3, LeastNat
<1>5. PICK s \in B : Cardinality(s) = m
  BY <1>4
<1>6. \A t \in SUBSET Instruments : Cardinality(t) < Cardinality(s) => t \in G
  <2> SUFFICES ASSUME NEW t \in SUBSET Instruments, Cardinality(t) < Cardinality(s), t \notin G
               PROVE  FALSE
    OBVIOUS
  <2>1. Cardinality(t) \in N /\ m \in Nat /\ Cardinality(t) \in Nat
    BY <1>1, <1>3
  <2>2. m <= Cardinality(t)
    BY <1>4, <2>1
  <2> QED
    BY <1>5, <2>1, <2>2
<1> QED
  BY <1>5, <1>6

LEMMA Smaller ==
    ASSUME NEW s \in SUBSET Instruments, NEW x \in s
    PROVE  s \ {x} \in SUBSET Instruments /\ Cardinality(s \ {x}) < Cardinality(s)
<1>1. IsFiniteSet(s) /\ Cardinality(s) \in Nat
  BY ExposureAssumption, FS_Subset, FS_CardinalityType
<1>2. Cardinality(s \ {x}) = Cardinality(s) - 1
  BY <1>1, FS_RemoveElement
<1> QED
  BY <1>1, <1>2

LEMMA FirstIn == ASSUME NEW s, s # {} PROVE First(s) \in s
BY DEF First

Ledgers == [Instruments -> Int]

\* The recursion has a solution: one for the small sets extends to larger ones.
LEMMA SumsExist == ASSUME NEW f \in Ledgers PROVE \E h : Sums(h, f, Instruments)
<1> DEFINE D(m) == {s \in SUBSET Instruments : Cardinality(s) <= m}
           val(h, s) == IF s = {} THEN 0 ELSE f[First(s)] + h[s \ {First(s)}]
           Solved(m) == \E h : \A s \in D(m) : h[s] = val(h, s)
           N == {m \in Nat : ~Solved(m)}
<1>1. \A t \in SUBSET Instruments : Cardinality(t) \in Nat
  BY ExposureAssumption, FS_Subset, FS_CardinalityType
<1>2. \A s \in SUBSET Instruments : s # {} => First(s) \in s /\ s \ {First(s)} \in SUBSET Instruments
                                              /\ Cardinality(s \ {First(s)}) < Cardinality(s)
  BY FirstIn, Smaller
<1>3. ASSUME NEW m \in Nat, m = 0 \/ Solved(m - 1) PROVE Solved(m)
  <2>1. PICK h : m # 0 => \A s \in D(m - 1) : h[s] = val(h, s)
    BY <1>3
  <2> DEFINE g == [s \in SUBSET Instruments |-> IF m # 0 /\ s \in D(m - 1) THEN h[s] ELSE val(h, s)]
  <2> SUFFICES ASSUME NEW s \in D(m) PROVE g[s] = val(g, s)
    OBVIOUS
  <2>2. CASE s = {}
    BY <2>1, <2>2
  <2>3. CASE s # {}
    <3> DEFINE t == s \ {First(s)}
    <3>1. t \in SUBSET Instruments /\ Cardinality(t) < Cardinality(s) /\ Cardinality(s) <= m
      BY <1>2, <2>3
    <3>2. m # 0 /\ t \in D(m - 1)
      BY <1>1, <3>1
    <3>3. g[t] = h[t]
      BY <3>1, <3>2
    <3>4. g[s] = val(h, s)
      BY <2>1, <3>2
    <3> QED
      BY <2>3, <3>3, <3>4
  <2> QED
    BY <2>2, <2>3
<1>4. N = {}
  <2> HIDE DEF Solved
  <2> SUFFICES ASSUME N # {} PROVE FALSE
    OBVIOUS
  <2>1. PICK m \in N : \A k \in N : m <= k
    BY LeastNat
  <2>2. m = 0 \/ (m - 1 \in Nat /\ m - 1 \notin N)
    BY <2>1
  <2> QED
    BY <1>3, <2>1, <2>2
<1>5. PICK h : \A s \in D(Cardinality(Instruments)) : h[s] = val(h, s)
  BY <1>1, <1>4
<1>6. \A s \in SUBSET Instruments : s \in D(Cardinality(Instruments))
  BY ExposureAssumption, FS_Subset
<1> DEFINE g == [s \in SUBSET Instruments |-> h[s]]
<1>7. \A s \in SUBSET Instruments : g[s] = val(g, s)
  <2> SUFFICES ASSUME NEW s \in SUBSET Instruments PROVE g[s] = val(g, s)
    OBVIOUS
  <2>1. h[s] = val(h, s)
    BY <1>5, <1>6
  <2>2. s # {} => g[s \ {First(s)}] = h[s \ {First(s)}]
    BY <1>2
  <2> QED
    BY <2>1, <2>2
<1>8. g = [s \in SUBSET Instruments |-> val(g, s)]
  BY <1>7
<1> QED
  BY <1>8 DEF Sums

\* Two solutions agree on the sets they share, and every value is an integer.
LEMMA SumsAgree ==
    ASSUME NEW f \in Ledgers, NEW S \in SUBSET Instruments, NEW T \in SUBSET Instruments,
           NEW h, Sums(h, f, S), NEW g, Sums(g, f, T)
    PROVE  \A s \in SUBSET Instruments : s \subseteq S /\ s \subseteq T => h[s] = g[s] /\ h[s] \in Int
<1> DEFINE G == {s \in SUBSET Instruments : s \subseteq S /\ s \subseteq T => h[s] = g[s] /\ h[s] \in Int}
<1>1. /\ \A s \in SUBSET S : h[s] = IF s = {} THEN 0 ELSE f[First(s)] + h[s \ {First(s)}]
      /\ \A s \in SUBSET T : g[s] = IF s = {} THEN 0 ELSE f[First(s)] + g[s \ {First(s)}]
  BY DEF Sums
<1>2. ASSUME NEW s \in SUBSET Instruments,
             \A t \in SUBSET Instruments : Cardinality(t) < Cardinality(s) => t \in G
      PROVE  s \in G
  <2> SUFFICES ASSUME s \subseteq S, s \subseteq T PROVE h[s] = g[s] /\ h[s] \in Int
    OBVIOUS
  <2>1. CASE s = {}
    <3>1. s \in SUBSET S /\ s \in SUBSET T
      OBVIOUS
    <3>2. h[s] = 0 /\ g[s] = 0
      BY <1>1, <2>1, <3>1
    <3> QED
      BY <3>2
  <2>2. CASE s # {}
    <3> DEFINE t == s \ {First(s)}
    <3>1. First(s) \in s /\ t \in G
      BY <1>2, <2>2, FirstIn, Smaller
    <3>2. h[t] = g[t] /\ h[t] \in Int /\ f[First(s)] \in Int
      BY <3>1 DEF Ledgers
    <3>3. h[s] = f[First(s)] + h[t] /\ g[s] = f[First(s)] + g[t]
      BY <1>1, <2>2
    <3> QED
      BY <3>2, <3>3
  <2> QED
    BY <2>1, <2>2
<1> HIDE DEF G
<1>3. G = SUBSET Instruments
  <2>1. G \in SUBSET SUBSET Instruments
    BY DEF G
  <2> QED
    BY <1>2, <2>1, BySize
<1> QED
  BY <1>3 DEF G

LEMMA TotalChosen ==
    ASSUME NEW f \in Ledgers, NEW S \in SUBSET Instruments
    PROVE  \E h : Sums(h, f, S) /\ Total(S, f) = h[S]
<1>1. PICK h : Sums(h, f, Instruments)
  BY SumsExist
<1> DEFINE g == [s \in SUBSET S |-> h[s]]
<1>2. \A s \in SUBSET Instruments : h[s] = IF s = {} THEN 0 ELSE f[First(s)] + h[s \ {First(s)}]
  BY <1>1 DEF Sums
<1>3. ASSUME NEW s \in SUBSET S PROVE g[s] = IF s = {} THEN 0 ELSE f[First(s)] + g[s \ {First(s)}]
  <2>1. s \in SUBSET Instruments /\ s \ {First(s)} \in SUBSET S
    OBVIOUS
  <2> QED
    BY <1>2, <2>1
<1>4. g = [s \in SUBSET S |-> IF s = {} THEN 0 ELSE f[First(s)] + g[s \ {First(s)}]]
  BY <1>3
<1>5. \E k : Sums(k, f, S)
  BY <1>4 DEF Sums
<1>6. Sums(CHOOSE k : Sums(k, f, S), f, S)
  BY <1>5
<1> QED
  BY <1>6, TotalIs

\* A sum is an integer, nothing for no instrument, and the first element and the rest.
LEMMA TotalStep ==
    ASSUME NEW f \in Ledgers, NEW S \in SUBSET Instruments
    PROVE  /\ Total(S, f) \in Int
           /\ S = {} => Total(S, f) = 0
           /\ S # {} => Total(S, f) = f[First(S)] + Total(S \ {First(S)}, f)
<1>1. PICK h : Sums(h, f, S) /\ Total(S, f) = h[S]
  BY TotalChosen
<1>2. h[S] \in Int
  BY <1>1, SumsAgree
<1>3. h[S] = IF S = {} THEN 0 ELSE f[First(S)] + h[S \ {First(S)}]
  BY <1>1 DEF Sums
<1>4. CASE S # {}
  <2> DEFINE T == S \ {First(S)}
  <2>1. T \in SUBSET Instruments /\ T \subseteq S
    OBVIOUS
  <2> HIDE DEF T
  <2>2. PICK g : Sums(g, f, T) /\ Total(T, f) = g[T]
    BY <2>1, TotalChosen
  <2>3. \A s \in SUBSET Instruments : s \subseteq S /\ s \subseteq T => h[s] = g[s] /\ h[s] \in Int
    BY <1>1, <2>1, <2>2, SumsAgree
  <2>4. h[T] = g[T]
    BY <2>1, <2>3
  <2> QED
    BY <1>1, <1>2, <1>3, <1>4, <2>2, <2>4 DEF T
<1> QED
  BY <1>1, <1>2, <1>3, <1>4

\* Any element may be taken out of a sum.
LEMMA TotalWithout ==
    ASSUME NEW f \in Ledgers, NEW S \in SUBSET Instruments, NEW y \in S
    PROVE  Total(S, f) = f[y] + Total(S \ {y}, f)
<1> DEFINE G == {s \in SUBSET Instruments : \A z \in s : Total(s, f) = f[z] + Total(s \ {z}, f)}
<1>1. ASSUME NEW s \in SUBSET Instruments,
             \A t \in SUBSET Instruments : Cardinality(t) < Cardinality(s) => t \in G
      PROVE  s \in G
  <2> SUFFICES ASSUME NEW z \in s PROVE Total(s, f) = f[z] + Total(s \ {z}, f)
    OBVIOUS
  <2> DEFINE x == First(s)
  <2>1. x \in s /\ Total(s, f) = f[x] + Total(s \ {x}, f)
    BY FirstIn, TotalStep
  <2> HIDE DEF x
  <2>2. CASE z = x
    BY <2>1, <2>2
  <2>3. CASE z # x
    <3>1. s \ {x} \in G /\ s \ {z} \in G
      BY <1>1, <2>1, Smaller
    <3>2. Total(s \ {x}, f) = f[z] + Total((s \ {x}) \ {z}, f)
      BY <2>3, <3>1
    <3>3. Total(s \ {z}, f) = f[x] + Total((s \ {z}) \ {x}, f)
      BY <2>1, <2>3, <3>1
    <3>4. (s \ {x}) \ {z} = (s \ {z}) \ {x}
      OBVIOUS
    <3>5. f[x] \in Int /\ f[z] \in Int
      BY <2>1 DEF Ledgers
    <3>6. Total((s \ {x}) \ {z}, f) \in Int
      BY TotalStep
    <3> DEFINE rest == Total((s \ {x}) \ {z}, f)
    <3>7. Total(s, f) = f[x] + (f[z] + rest) /\ Total(s \ {z}, f) = f[x] + rest
      BY <2>1, <3>2, <3>3, <3>4
    <3> HIDE DEF rest
    <3> QED
      BY <3>5, <3>6, <3>7 DEF rest
  <2> QED
    BY <2>2, <2>3
<1> HIDE DEF G
<1>2. G = SUBSET Instruments
  <2>1. G \in SUBSET SUBSET Instruments
    BY DEF G
  <2> QED
    BY <1>1, <2>1, BySize
<1> QED
  BY <1>2 DEF G

LEMMA TotalAdds ==
    ASSUME NEW f \in Ledgers, NEW g \in Ledgers, NEW h \in Ledgers, NEW S \in SUBSET Instruments,
           \A j \in Instruments : h[j] = f[j] + g[j]
    PROVE  Total(S, h) = Total(S, f) + Total(S, g)
<1> DEFINE G == {s \in SUBSET Instruments : Total(s, h) = Total(s, f) + Total(s, g)}
<1>1. ASSUME NEW s \in SUBSET Instruments,
             \A t \in SUBSET Instruments : Cardinality(t) < Cardinality(s) => t \in G
      PROVE  s \in G
  <2>1. CASE s = {}
    <3>1. Total(s, f) = 0 /\ Total(s, g) = 0 /\ Total(s, h) = 0
      BY <2>1, TotalStep
    <3> QED
      BY <3>1
  <2>2. CASE s # {}
    <3>1. PICK x \in s : TRUE
      BY <2>2
    <3> DEFINE t == s \ {x}
    <3>2. t \in SUBSET Instruments /\ t \in G
      BY <1>1, <3>1, Smaller
    <3>3. Total(s, f) = f[x] + Total(t, f) /\ Total(s, g) = g[x] + Total(t, g)
          /\ Total(s, h) = h[x] + Total(t, h)
      BY <3>1, TotalWithout
    <3> HIDE DEF t
    <3>4. Total(t, h) = Total(t, f) + Total(t, g) /\ Total(t, f) \in Int /\ Total(t, g) \in Int
      BY <3>2, TotalStep
    <3>5. h[x] = f[x] + g[x] /\ f[x] \in Int /\ g[x] \in Int
      BY <3>1 DEF Ledgers
    <3> QED
      BY <3>3, <3>4, <3>5
  <2> QED
    BY <2>1, <2>2
<1> HIDE DEF G
<1>2. G = SUBSET Instruments
  <2>1. G \in SUBSET SUBSET Instruments
    BY DEF G
  <2> QED
    BY <1>1, <2>1, BySize
<1> QED
  BY <1>2 DEF G

LEMMA TotalOrdered ==
    ASSUME NEW f \in Ledgers, NEW g \in Ledgers, NEW S \in SUBSET Instruments,
           \A j \in S : f[j] <= g[j]
    PROVE  Total(S, f) <= Total(S, g)
<1> DEFINE G == {s \in SUBSET Instruments : s \subseteq S => Total(s, f) <= Total(s, g)}
<1>1. ASSUME NEW s \in SUBSET Instruments,
             \A t \in SUBSET Instruments : Cardinality(t) < Cardinality(s) => t \in G
      PROVE  s \in G
  <2> SUFFICES ASSUME s \subseteq S PROVE Total(s, f) <= Total(s, g)
    OBVIOUS
  <2>1. CASE s = {}
    <3>1. Total(s, f) = 0 /\ Total(s, g) = 0
      BY <2>1, TotalStep
    <3> QED
      BY <3>1
  <2>2. CASE s # {}
    <3>1. PICK x \in s : TRUE
      BY <2>2
    <3> DEFINE t == s \ {x}
    <3>2. t \in SUBSET Instruments /\ t \in G /\ t \subseteq S
      BY <1>1, <3>1, Smaller
    <3>3. Total(s, f) = f[x] + Total(t, f) /\ Total(s, g) = g[x] + Total(t, g)
      BY <3>1, TotalWithout
    <3> HIDE DEF t
    <3>4. Total(t, f) <= Total(t, g) /\ Total(t, f) \in Int /\ Total(t, g) \in Int
      BY <3>2, TotalStep
    <3>5. f[x] <= g[x] /\ f[x] \in Int /\ g[x] \in Int
      BY <3>1 DEF Ledgers
    <3> QED
      BY <3>3, <3>4, <3>5
  <2> QED
    BY <2>1, <2>2
<1> HIDE DEF G
<1>2. G = SUBSET Instruments
  <2>1. G \in SUBSET SUBSET Instruments
    BY DEF G
  <2> QED
    BY <1>1, <2>1, BySize
<1> QED
  BY <1>2 DEF G

\* What is zero outside T sums to the sum over T.
LEMMA TotalPart ==
    ASSUME NEW f \in Ledgers, NEW g \in Ledgers, NEW S \in SUBSET Instruments, NEW T \in SUBSET S,
           \A j \in T : g[j] = f[j], \A j \in S \ T : g[j] = 0
    PROVE  Total(S, g) = Total(T, f)
<1> DEFINE G == {s \in SUBSET Instruments : s \subseteq S => Total(s, g) = Total(s \cap T, f)}
<1>1. ASSUME NEW s \in SUBSET Instruments,
             \A t \in SUBSET Instruments : Cardinality(t) < Cardinality(s) => t \in G
      PROVE  s \in G
  <2> SUFFICES ASSUME s \subseteq S PROVE Total(s, g) = Total(s \cap T, f)
    OBVIOUS
  <2>1. CASE s = {}
    <3>1. s \cap T = {}
      BY <2>1
    <3> QED
      BY <2>1, <3>1, TotalStep
  <2>2. CASE s # {}
    <3>1. PICK x \in s : TRUE
      BY <2>2
    <3> DEFINE t == s \ {x}
    <3>2. t \in SUBSET Instruments /\ t \in G /\ t \subseteq S
      BY <1>1, <3>1, Smaller
    <3>3. Total(s, g) = g[x] + Total(t, g) /\ Total(t, g) = Total(t \cap T, f)
      BY <3>1, <3>2, TotalWithout
    <3>4. t \cap T \in SUBSET Instruments /\ s \cap T \in SUBSET Instruments
      OBVIOUS
    <3>5. Total(t \cap T, f) \in Int
      BY <3>4, TotalStep
    <3>6. CASE x \in T
      <4>1. x \in s \cap T /\ (s \cap T) \ {x} = t \cap T
        BY <3>6
      <4>2. Total(s \cap T, f) = f[x] + Total(t \cap T, f)
        BY <3>4, <4>1, TotalWithout
      <4> QED
        BY <3>3, <3>6, <4>2
    <3>7. CASE x \notin T
      <4>1. s \cap T = t \cap T /\ g[x] = 0
        BY <3>1, <3>7
      <4> HIDE DEF t
      <4> QED
        BY <3>3, <3>5, <4>1
    <3> QED
      BY <3>6, <3>7
  <2> QED
    BY <2>1, <2>2
<1> HIDE DEF G
<1>2. G = SUBSET Instruments
  <2>1. G \in SUBSET SUBSET Instruments
    BY DEF G
  <2> QED
    BY <1>1, <2>1, BySize
<1>3. S \cap T = T
  OBVIOUS
<1> QED
  BY <1>2, <1>3 DEF G

LEMMA TotalSigned ==
    ASSUME NEW f \in Ledgers, NEW g \in Ledgers, NEW S \in SUBSET Instruments, NEW sign \in Signs,
           \A j \in Instruments : g[j] = sign * f[j]
    PROVE  Total(S, g) = sign * Total(S, f)
<1> DEFINE zero == [j \in Instruments |-> 0]
<1>1. Total(S, f) \in Int /\ Total(S, g) \in Int
  BY TotalStep
<1>2. CASE sign = 1
  <2>1. \A j \in Instruments : g[j] = f[j]
    BY <1>2 DEF Ledgers
  <2>2. g = f
    BY <2>1 DEF Ledgers
  <2> QED
    BY <1>1, <1>2, <2>2
<1>3. CASE sign = -1
  <2>1. zero \in Ledgers /\ \A j \in Instruments : zero[j] = f[j] + g[j]
    BY <1>3 DEF Ledgers
  <2>2. Total(S, zero) = Total({}, zero)
    BY <2>1, TotalPart
  <2>3. Total({}, zero) = 0
    BY <2>1, TotalStep
  <2> HIDE DEF zero
  <2>4. Total(S, zero) = Total(S, f) + Total(S, g)
    BY <2>1, TotalAdds
  <2> QED
    BY <1>1, <1>3, <2>2, <2>3, <2>4
<1> QED
  BY <1>2, <1>3 DEF Signs

\* What is bounded piece by piece is bounded in sum.
LEMMA TotalBound ==
    ASSUME NEW f \in Ledgers, NEW a \in Ledgers, NEW b \in Ledgers, NEW c \in Ledgers, NEW d \in Ledgers,
           NEW S \in SUBSET Instruments, \A j \in S : f[j] <= a[j] + b[j] + c[j] + d[j]
    PROVE  Total(S, f) <= Total(S, a) + Total(S, b) + Total(S, c) + Total(S, d)
<1> DEFINE ab == [j \in Instruments |-> a[j] + b[j]]
           abc == [j \in Instruments |-> ab[j] + c[j]]
           all == [j \in Instruments |-> abc[j] + d[j]]
<1>1. ab \in Ledgers /\ \A j \in Instruments : ab[j] = a[j] + b[j]
  BY DEF Ledgers
<1> HIDE DEF ab
<1>2. abc \in Ledgers /\ \A j \in Instruments : abc[j] = ab[j] + c[j]
  BY <1>1 DEF Ledgers
<1> HIDE DEF abc
<1>3. all \in Ledgers /\ \A j \in Instruments : all[j] = abc[j] + d[j]
  BY <1>2 DEF Ledgers
<1> HIDE DEF all
<1>4. \A j \in S : f[j] <= all[j]
  BY <1>1, <1>2, <1>3
<1>5. Total(S, f) <= Total(S, all)
  BY <1>3, <1>4, TotalOrdered
<1>6. Total(S, ab) = Total(S, a) + Total(S, b)
  BY <1>1, TotalAdds
<1>7. Total(S, abc) = Total(S, ab) + Total(S, c)
  BY <1>1, <1>2, TotalAdds
<1>8. Total(S, all) = Total(S, abc) + Total(S, d)
  BY <1>2, <1>3, TotalAdds
<1> QED
  BY <1>5, <1>6, <1>7, <1>8

LEMMA TotalPoint ==
    ASSUME NEW i \in Instruments, NEW r \in Int, NEW g \in Ledgers, NEW S \in SUBSET Instruments, i \in S,
           \A j \in Instruments : g[j] = IF j = i THEN r ELSE 0
    PROVE  Total(S, g) = r
<1>1. Total(S, g) = g[i] + Total(S \ {i}, g)
  BY TotalWithout
<1>2. Total(S \ {i}, g) = Total({}, g)
  <2>1. S \ {i} \in SUBSET Instruments /\ \A j \in S \ {i} : g[j] = 0
    OBVIOUS
  <2> QED
    BY <2>1, TotalPart
<1>3. Total({}, g) = 0
  BY TotalStep
<1> QED
  BY <1>1, <1>2, <1>3

-----------------------------------------------------------------------------
(* The limits.                                                              *)

Sweeps == [at : SUBSET Instruments, left : SUBSET Instruments, exits : SUBSET Instruments]

ExposureTypeOK ==
    /\ st \in [Instruments -> States]
    /\ DOMAIN intent = Instruments
    /\ DOMAIN flight = Instruments
    /\ equity \in Int
    /\ sweep \in Sweeps
    /\ alerts \in Nat
    /\ cut \in Nat
    /\ late \in Nat

\* An entry its router waits for is the one its intent stands for, in whole.
FlightCounted == \A i \in Instruments : flight[i] # 0 => Counted(i) /\ flight[i] = intent[i]

\* A shutdown under way has the lock and its bar, and leaves halted what it has passed.
SweepHalts ==
    /\ ~Unlocked => /\ bar.kill = "shutdown"
                    /\ \A i \in Instruments \ (sweep.at \cup sweep.left) : st[i] = "HALTED"
    /\ \A i \in sweep.exits : st[i] # "ENTRY_PENDING"

\* One that was raised and not cut short holds every router.
ShutdownHolds ==
    /\ alerts <= 1 + cut
    /\ Unlocked /\ alerts > cut => \A i \in Instruments : st[i] = "HALTED"

\* After a late entry there is no verdict left that would let another one out.
VerdictSpent == late <= 1 /\ (late = 1 => AtLimit(equity) /\ bar.kill # "run")

ExposureInv == ExposureTypeOK /\ FlightCounted /\ SweepHalts /\ ShutdownHolds /\ VerdictSpent

USE ExposureAssumption DEF limit

---------------------------------------------------------------------------
LEMMA VerdictAtLimit == ASSUME NEW e \in Int, AtLimit(e) PROVE LossLimit(e) # "run"
<1>1. CASE 10 * e <= 9 * StartEquity
  BY <1>1 DEF LossLimit
<1>2. CASE 10 * e > 9 * StartEquity
  BY <1>2 DEF LossLimit, AtLimit
<1> QED
  BY <1>1, <1>2

LEMMA NoSweepFacts ==
    /\ NoSweep \in Sweeps /\ NoSweep.at = {} /\ NoSweep.left = {} /\ NoSweep.exits = {}
    /\ NoBar.kill = "none"
BY DEF NoSweep, Sweeps, NoBar

LEMMA ExposureStart == ASSUME Init, StartEquity \in Int PROVE ExposureInv
<1>1. sweep = NoSweep /\ alerts = 0 /\ cut = 0 /\ Unlocked
  BY DEF Init, Unlocked
<1>2. SweepHalts /\ ShutdownHolds
  BY <1>1, NoSweepFacts DEF SweepHalts, ShutdownHolds
<1> QED
  BY <1>1, <1>2, NoSweepFacts DEF Init, ExposureInv, ExposureTypeOK, FlightCounted, VerdictSpent, States

\* What the lock keeps out of a step.
LEMMA LockFrame ==
    ASSUME ExposureInv, UNCHANGED <<sweep, alerts, cut>>,
           Unlocked \/ (bar' = bar /\ st' = st),
           \A i \in Instruments : st[i] = "HALTED" /\ alerts > cut => st'[i] = "HALTED"
    PROVE  SweepHalts' /\ ShutdownHolds'
<1>1. Unlocked' <=> Unlocked
  BY DEF Unlocked
<1>2. SweepHalts'
  <2>1. CASE Unlocked
    BY <1>1, <2>1, NoSweepFacts DEF SweepHalts, Unlocked
  <2>2. CASE ~Unlocked
    BY <1>1, <2>2 DEF ExposureInv, SweepHalts, Unlocked
  <2> QED
    BY <2>1, <2>2
<1>3. ShutdownHolds'
  BY <1>1 DEF ExposureInv, ShutdownHolds
<1> QED
  BY <1>2, <1>3

\* What a step leaves alone when it only waits for a verdict or drops one.
LEMMA JudgeKeeps ==
    ASSUME ExposureInv, NEW i \in Instruments, Judge(i)
    PROVE  ExposureInv'
<1>1. bar'.kill = LossLimit(equity) /\ UNCHANGED <<st, intent, flight, equity, sweep, alerts, cut, late>>
      /\ bar.kill # "shutdown"
  BY NoSweepFacts DEF Judge, Bar
<1>2. VerdictSpent'
  BY <1>1, VerdictAtLimit DEF ExposureInv, ExposureTypeOK, VerdictSpent, AtLimit
<1>3. Unlocked
  BY <1>1 DEF ExposureInv, SweepHalts
<1>4. SweepHalts' /\ ShutdownHolds'
  BY <1>1, <1>3, LockFrame
<1> QED
  BY <1>1, <1>2, <1>4 DEF ExposureInv, ExposureTypeOK, FlightCounted, Counted

LEMMA BarDoneKeeps == ASSUME ExposureInv, BarDone PROVE ExposureInv'
<1>1. bar'.kill = "none" /\ UNCHANGED <<st, intent, flight, equity, sweep, alerts, cut, late>>
      /\ bar.kill # "shutdown"
  BY DEF BarDone, NoBar
<1>2. Unlocked
  BY <1>1 DEF ExposureInv, SweepHalts
<1>3. SweepHalts' /\ ShutdownHolds'
  BY <1>1, <1>2, LockFrame
<1> QED
  BY <1>1, <1>3 DEF ExposureInv, ExposureTypeOK, FlightCounted, Counted, VerdictSpent, AtLimit

\* What is left of a shutdown after a step of it.
LEMMA SweepFacts ==
    ASSUME NEW one \in SUBSET Instruments, NEW rest \in SUBSET Instruments,
           NEW out \in SUBSET Instruments, bar.kill = "shutdown",
           sweep' = IF one = {} /\ rest = {} THEN NoSweep
                    ELSE [at |-> one, left |-> rest, exits |-> out \cap rest],
           bar' = IF one = {} /\ rest = {} THEN NoBar ELSE bar
    PROVE  /\ sweep' \in Sweeps /\ sweep'.at = one /\ sweep'.left = rest /\ sweep'.exits \subseteq out \cap rest
           /\ Unlocked' <=> one = {} /\ rest = {}
           /\ bar'.kill # "run" /\ (~Unlocked' => bar'.kill = "shutdown")
<1>1. CASE one = {} /\ rest = {}
  <2>1. sweep' = NoSweep /\ bar' = NoBar
    BY <1>1
  <2>2. Unlocked'
    BY <2>1 DEF Unlocked
  <2> QED
    BY <1>1, <2>1, <2>2, NoSweepFacts
<1>2. CASE ~(one = {} /\ rest = {})
  <2>1. sweep' = [at |-> one, left |-> rest, exits |-> out \cap rest] /\ bar' = bar
    BY <1>2
  <2>2. sweep' # NoSweep
    BY <1>2, <2>1, NoSweepFacts
  <2>3. ~Unlocked'
    BY <2>2 DEF Unlocked
  <2> QED
    BY <1>2, <2>1, <2>3 DEF Sweeps
<1> QED
  BY <1>1, <1>2

LEMMA ShutDownKeeps == ASSUME ExposureInv, ShutDown PROVE ExposureInv'
<1>1. UNCHANGED <<st, intent, flight, equity, cut, late>> /\ bar.kill = "shutdown" /\ Unlocked
      /\ Sweep({}, ShutDownRouters, Exits)
  BY Zenon DEF ShutDown
<1>a. alerts' = IF \E i \in Instruments : st[i] # "HALTED" THEN alerts + 1 ELSE alerts
  BY Zenon DEF ShutDown
<1>2. /\ Exits \in SUBSET Instruments /\ ShutDownRouters \in SUBSET Instruments
      /\ \A i \in Exits : st[i] # "ENTRY_PENDING"
      /\ \A i \in Instruments \ ShutDownRouters : st[i] = "HALTED"
  BY DEF Exits, ShutDownRouters
<1>3. /\ sweep' \in Sweeps /\ sweep'.at = {} /\ sweep'.left = ShutDownRouters /\ sweep'.exits \subseteq Exits
      /\ Unlocked' <=> ShutDownRouters = {}
      /\ bar'.kill # "run" /\ (~Unlocked' => bar'.kill = "shutdown")
  <2>1. {} \in SUBSET Instruments
    OBVIOUS
  <2>2. /\ sweep' \in Sweeps /\ sweep'.at = {} /\ sweep'.left = ShutDownRouters
        /\ sweep'.exits \subseteq Exits \cap ShutDownRouters
        /\ Unlocked' <=> {} = {} /\ ShutDownRouters = {}
        /\ bar'.kill # "run" /\ (~Unlocked' => bar'.kill = "shutdown")
    <3>1. /\ sweep' = IF {} = {} /\ ShutDownRouters = {} THEN NoSweep
                      ELSE [at |-> {}, left |-> ShutDownRouters, exits |-> Exits \cap ShutDownRouters]
          /\ bar' = IF {} = {} /\ ShutDownRouters = {} THEN NoBar ELSE bar
      BY <1>1, Zenon DEF Sweep
    <3> QED
      BY <1>1, <1>2, <2>1, <3>1, SweepFacts, Zenon
  <2> QED
    BY <2>2
<1>4. alerts \in Nat /\ cut \in Nat
  BY DEF ExposureInv, ExposureTypeOK
<1>5. alerts' \in Nat /\ alerts' <= 1 + cut
  <2>1. CASE \E i \in Instruments : st[i] # "HALTED"
    <3>1. ~(alerts > cut)
      BY <1>1, <2>1 DEF ExposureInv, ShutdownHolds
    <3> QED
      BY <1>a, <1>4, <2>1, <3>1
  <2>2. CASE ~(\E i \in Instruments : st[i] # "HALTED")
    <3>1. alerts' = alerts
      BY <1>a, <2>2
    <3> QED
      BY <1>4, <3>1 DEF ExposureInv, ShutdownHolds
  <2> QED
    BY <2>1, <2>2
<1>6. ExposureTypeOK'
  BY <1>1, <1>3, <1>5 DEF ExposureInv, ExposureTypeOK
<1>7. SweepHalts'
  BY <1>1, <1>2, <1>3 DEF SweepHalts
<1>8. ShutdownHolds'
  BY <1>1, <1>2, <1>3, <1>5 DEF ShutdownHolds
<1> QED
  BY <1>1, <1>3, <1>6, <1>7, <1>8 DEF ExposureInv, FlightCounted, Counted, VerdictSpent, AtLimit

\* The position is being closed: the router is neither halted nor free.
LEMMA SweepExitKeeps ==
    ASSUME ExposureInv, NEW i \in Instruments, SweepExit(i)
    PROVE  ExposureInv'
<1>1. UNCHANGED <<intent, flight, equity, alerts, cut, late>> /\ sweep.at = {} /\ i \in sweep.exits
      /\ st' = [st EXCEPT ![i] = "EXIT_PENDING"] /\ Sweep({i}, sweep.left \ {i}, sweep.exits)
  BY DEF SweepExit
<1>2. sweep.left \in SUBSET Instruments /\ sweep.exits \in SUBSET Instruments /\ st \in [Instruments -> States]
  BY DEF ExposureInv, ExposureTypeOK, Sweeps
<1>3. ~Unlocked
  BY <1>1, NoSweepFacts DEF Unlocked
<1>4. bar.kill = "shutdown" /\ (\A j \in Instruments \ sweep.left : st[j] = "HALTED") /\ st[i] # "ENTRY_PENDING"
      /\ \A j \in sweep.exits : st[j] # "ENTRY_PENDING"
  BY <1>1, <1>3 DEF ExposureInv, SweepHalts
<1>5. sweep.left \ {i} \in SUBSET Instruments
  BY <1>2
<1>6. /\ sweep' \in Sweeps /\ sweep'.at = {i} /\ sweep'.left = sweep.left \ {i}
      /\ sweep'.exits \subseteq sweep.exits \cap (sweep.left \ {i})
      /\ ~Unlocked' /\ bar'.kill = "shutdown"
  <2> DEFINE one == {i}
             rest == sweep.left \ {i}
             out == sweep.exits
  <2>1. one \in SUBSET Instruments /\ one # {} /\ rest \in SUBSET Instruments /\ out \in SUBSET Instruments
    BY <1>2
  <2>2. /\ sweep' = IF one = {} /\ rest = {} THEN NoSweep
                    ELSE [at |-> one, left |-> rest, exits |-> out \cap rest]
        /\ bar' = IF one = {} /\ rest = {} THEN NoBar ELSE bar
    BY <1>1, Zenon DEF Sweep
  <2> HIDE DEF one, rest, out
  <2>3. /\ sweep' \in Sweeps /\ sweep'.at = one /\ sweep'.left = rest /\ sweep'.exits \subseteq out \cap rest
        /\ ~Unlocked' /\ bar'.kill = "shutdown"
    BY <1>4, <2>1, <2>2, SweepFacts
  <2> QED
    BY <2>3 DEF one, rest, out
<1>7. ExposureTypeOK'
  BY <1>1, <1>2, <1>6 DEF ExposureInv, ExposureTypeOK, States
<1>8. flight[i] = 0
  BY <1>4 DEF ExposureInv, FlightCounted, Counted
<1>9. FlightCounted'
  BY <1>1, <1>2, <1>8 DEF ExposureInv, FlightCounted, Counted
<1>10. SweepHalts'
  BY <1>1, <1>2, <1>4, <1>6 DEF SweepHalts
<1>11. ShutdownHolds'
  BY <1>1, <1>6 DEF ExposureInv, ShutdownHolds
<1> QED
  BY <1>1, <1>6, <1>7, <1>9, <1>10, <1>11 DEF ExposureInv, VerdictSpent, AtLimit

\* The last router to halt ends the shutdown: then all of them are.
LEMMA SweepHaltKeeps ==
    ASSUME ExposureInv, NEW i \in Instruments, SweepHalt(i)
    PROVE  ExposureInv'
<1>1. /\ st' = [st EXCEPT ![i] = "HALTED"] /\ intent' = [intent EXCEPT ![i] = 0]
      /\ flight' = [flight EXCEPT ![i] = 0] /\ Sweep({}, sweep.left \ {i}, sweep.exits)
      /\ UNCHANGED <<equity, alerts, cut, late>>
      /\ sweep.at = {i} \/ (sweep.at = {} /\ i \in sweep.left)
  BY DEF SweepHalt
<1>2. sweep.left \in SUBSET Instruments /\ sweep.exits \in SUBSET Instruments /\ st \in [Instruments -> States]
  BY DEF ExposureInv, ExposureTypeOK, Sweeps
<1>3. ~Unlocked
  BY <1>1, NoSweepFacts DEF Unlocked
<1>4. bar.kill = "shutdown" /\ (\A j \in Instruments \ (sweep.at \cup sweep.left) : st[j] = "HALTED")
      /\ \A j \in sweep.exits : st[j] # "ENTRY_PENDING"
  BY <1>3 DEF ExposureInv, SweepHalts
<1>5. sweep.left \ {i} \in SUBSET Instruments
  BY <1>2
<1>6. /\ sweep' \in Sweeps /\ sweep'.at = {} /\ sweep'.left = sweep.left \ {i}
      /\ sweep'.exits \subseteq sweep.exits
      /\ Unlocked' <=> sweep.left \ {i} = {}
      /\ bar'.kill # "run" /\ (~Unlocked' => bar'.kill = "shutdown")
  <2>1. {} \in SUBSET Instruments
    OBVIOUS
  <2>2. /\ sweep' \in Sweeps /\ sweep'.at = {} /\ sweep'.left = sweep.left \ {i}
        /\ sweep'.exits \subseteq sweep.exits \cap (sweep.left \ {i})
        /\ Unlocked' <=> {} = {} /\ sweep.left \ {i} = {}
        /\ bar'.kill # "run" /\ (~Unlocked' => bar'.kill = "shutdown")
    <3>1. /\ sweep' = IF {} = {} /\ sweep.left \ {i} = {} THEN NoSweep
                      ELSE [at |-> {}, left |-> sweep.left \ {i}, exits |-> sweep.exits \cap (sweep.left \ {i})]
          /\ bar' = IF {} = {} /\ sweep.left \ {i} = {} THEN NoBar ELSE bar
      BY <1>1, Zenon DEF Sweep
    <3> QED
      BY <1>2, <1>4, <1>5, <2>1, <3>1, SweepFacts, Zenon
  <2> QED
    BY <2>2
<1>7. \A j \in Instruments \ (sweep.left \ {i}) : st'[j] = "HALTED"
  BY <1>1, <1>2, <1>4
<1>8. ExposureTypeOK'
  BY <1>1, <1>2, <1>6 DEF ExposureInv, ExposureTypeOK, States
<1>9. FlightCounted'
  BY <1>1, <1>2 DEF ExposureInv, ExposureTypeOK, FlightCounted, Counted
<1>10. SweepHalts'
  <2>1. \A j \in sweep'.exits : st'[j] # "ENTRY_PENDING"
    BY <1>1, <1>2, <1>4, <1>6
  <2> QED
    BY <1>6, <1>7, <2>1 DEF SweepHalts
<1>11. ShutdownHolds'
  BY <1>1, <1>6, <1>7 DEF ExposureInv, ShutdownHolds
<1> QED
  BY <1>1, <1>6, <1>8, <1>9, <1>10, <1>11 DEF ExposureInv, VerdictSpent, AtLimit

LEMMA EnterKeeps ==
    ASSUME ExposureInv, NEW i \in Instruments, NEW sign \in Signs, Enter(i, sign)
    PROVE  ExposureInv' /\ ~(alerts > cut)
<1> DEFINE amount == sign * Room(i, sign)
<1>1. /\ bar.kill = "run" /\ bar'.kill = "none" /\ st[i] = "FLAT"
      /\ late' = IF AtLimit(equity) THEN late + 1 ELSE 0
      /\ UNCHANGED <<equity, sweep, alerts, cut>>
  BY DEF Enter, Bar, NoBar
<1>2. VerdictSpent'
  BY <1>1 DEF ExposureInv, ExposureTypeOK, VerdictSpent, AtLimit
<1>3. Unlocked /\ ~(alerts > cut)
  BY <1>1 DEF ExposureInv, SweepHalts, ShutdownHolds
<1>4. SweepHalts' /\ ShutdownHolds'
  BY <1>1, <1>3, LockFrame
<1>5. Accepted(i, amount) \/ Refused \/ Lost(i, amount)
  BY DEF Enter
<1>6. late' \in Nat
  BY <1>1 DEF ExposureInv, ExposureTypeOK
<1> HIDE DEF amount
<1>7. CASE Accepted(i, amount)
  <2>1. ExposureTypeOK'
    BY <1>1, <1>6, <1>7 DEF Accepted, ExposureInv, ExposureTypeOK, States
  <2>2. FlightCounted'
    BY <1>7 DEF Accepted, ExposureInv, ExposureTypeOK, FlightCounted, Counted
  <2> QED
    BY <1>2, <1>3, <1>4, <2>1, <2>2 DEF ExposureInv
<1>8. CASE Refused
  BY <1>1, <1>2, <1>3, <1>4, <1>6, <1>8 DEF Refused, ExposureInv, ExposureTypeOK, FlightCounted, Counted
<1>9. CASE Lost(i, amount)
  <2>1. ExposureTypeOK'
    BY <1>1, <1>6, <1>9 DEF Lost, ExposureInv, ExposureTypeOK, States
  <2>2. flight[i] = 0
    BY <1>1 DEF ExposureInv, FlightCounted, Counted
  <2>3. FlightCounted'
    BY <1>9, <2>2 DEF Lost, ExposureInv, ExposureTypeOK, FlightCounted, Counted
  <2> QED
    BY <1>2, <1>3, <1>4, <2>1, <2>3 DEF ExposureInv
<1> QED
  BY <1>5, <1>7, <1>8, <1>9

LEMMA ExitKeeps ==
    ASSUME ExposureInv, NEW i \in Instruments, Exit(i)
    PROVE  ExposureInv'
<1>1. st[i] = "OPEN" /\ st' = [st EXCEPT ![i] = "EXIT_PENDING"] /\ Unlocked
      /\ UNCHANGED <<intent, flight, equity, bar, sweep, alerts, cut, late>>
  BY DEF Exit
<1>2. flight[i] = 0
  BY <1>1 DEF ExposureInv, FlightCounted, Counted
<1>3. ExposureTypeOK'
  BY <1>1 DEF ExposureInv, ExposureTypeOK, States
<1>4. FlightCounted'
  BY <1>1, <1>2 DEF ExposureInv, ExposureTypeOK, FlightCounted, Counted
<1>5. SweepHalts' /\ ShutdownHolds'
  BY <1>1, LockFrame
<1> QED
  BY <1>1, <1>3, <1>4, <1>5 DEF ExposureInv, VerdictSpent, AtLimit

\* HALTED stays, and nothing is waited for any more.
LEMMA SettleKeeps ==
    ASSUME ExposureInv, NEW i \in Instruments, Settle(i), Unlocked,
           UNCHANGED <<equity, bar, sweep, alerts, cut, late>>
    PROVE  ExposureInv'
<1>1. /\ st' = IF st[i] = "HALTED" THEN st ELSE [st EXCEPT ![i] = Settled(i)]
      /\ intent' = [intent EXCEPT ![i] = 0] /\ flight' = [flight EXCEPT ![i] = 0]
  BY DEF Settle
<1>2. Settled(i) \in States
  BY DEF Settled, States
<1>3. ExposureTypeOK'
  BY <1>1, <1>2 DEF ExposureInv, ExposureTypeOK
<1>4. FlightCounted'
  BY <1>1 DEF ExposureInv, ExposureTypeOK, FlightCounted, Counted
<1>5. \A j \in Instruments : st[j] = "HALTED" => st'[j] = "HALTED"
  BY <1>1
<1>6. SweepHalts' /\ ShutdownHolds'
  BY <1>5, LockFrame
<1> QED
  BY <1>3, <1>4, <1>6 DEF ExposureInv, VerdictSpent, AtLimit

LEMMA RecoverKeeps == ASSUME ExposureInv, Recover PROVE ExposureInv'
<1>1. /\ flight' = [i \in Instruments |-> 0] /\ intent' = [i \in Instruments |-> 0]
      /\ bar'.kill = "none" /\ sweep' = NoSweep /\ cut' = (IF Unlocked THEN cut ELSE cut + 1)
      /\ UNCHANGED <<equity, alerts, late>>
  BY DEF Recover, NoBar
<1>2. PICK exits \in SUBSET {i \in Instruments : st[i] = "EXIT_PENDING"} :
          st' = [i \in Instruments |-> RecoveredState(i, exits)]
  BY DEF Recover
<1>3. ASSUME NEW i \in Instruments
      PROVE  st'[i] \in States /\ (st[i] = "HALTED" => st'[i] = "HALTED")
  <2>1. st'[i] = RecoveredState(i, exits)
    BY <1>2
  <2>2. CASE st[i] = "HALTED"
    BY <2>1, <2>2 DEF States, RecoveredState
  <2>3. CASE st[i] # "HALTED"
    <3>1. Settled(i) \in States
      BY DEF Settled, States
    <3>2. RecoveredState(i, exits) \in {"ENTRY_PENDING", "EXIT_PENDING", Settled(i)}
      BY <2>3 DEF RecoveredState
    <3> QED
      BY <2>1, <2>3, <3>1, <3>2 DEF States
  <2> QED
    BY <2>2, <2>3
<1>4. st' \in [Instruments -> States]
  BY <1>2, <1>3
<1>5. alerts \in Nat /\ cut \in Nat /\ cut' \in Nat /\ Unlocked'
  BY <1>1 DEF ExposureInv, ExposureTypeOK, Unlocked
<1>6. ExposureTypeOK'
  BY <1>1, <1>4, <1>5, NoSweepFacts DEF ExposureInv, ExposureTypeOK
<1>7. SweepHalts'
  BY <1>1, <1>5, NoSweepFacts DEF SweepHalts
<1>8. ShutdownHolds'
  <2>1. alerts <= 1 + cut
    BY DEF ExposureInv, ShutdownHolds
  <2>2. CASE Unlocked
    BY <1>1, <1>3, <2>1, <2>2 DEF ExposureInv, ShutdownHolds
  <2>3. CASE ~Unlocked
    BY <1>1, <1>5, <2>1, <2>3 DEF ShutdownHolds
  <2> QED
    BY <2>2, <2>3
<1> QED
  BY <1>1, <1>6, <1>7, <1>8 DEF ExposureInv, FlightCounted, VerdictSpent, AtLimit

\* The venue takes an order off its book, or changes a position.
LEMMA VenueKeeps ==
    ASSUME ExposureInv, NEW i \in Instruments, Venue(i)
    PROVE  ExposureInv'
<1>1. UNCHANGED <<st, intent, equity, bar, sweep, alerts, cut, late>>
  BY DEF Venue, Execute, ExecuteStray, Close
<1>2. flight' = flight \/ flight' = [flight EXCEPT ![i] = 0]
  BY DEF Venue, Execute, ExecuteStray, Close
<1>3. ExposureTypeOK'
  BY <1>1, <1>2 DEF ExposureInv, ExposureTypeOK
<1>4. FlightCounted'
  BY <1>1, <1>2 DEF ExposureInv, ExposureTypeOK, FlightCounted, Counted
<1>5. SweepHalts' /\ ShutdownHolds'
  BY <1>1, LockFrame
<1> QED
  BY <1>1, <1>3, <1>4, <1>5 DEF ExposureInv, VerdictSpent, AtLimit

LEMMA RevalueKeeps == ASSUME ExposureInv, Revalue PROVE ExposureInv'
<1>1. UNCHANGED <<st, intent, flight, bar, sweep, alerts, cut>> /\ equity' \in Int
      /\ late' = IF AtLimit(equity') THEN late ELSE 0
  BY DEF Revalue
<1>2. VerdictSpent'
  <2>1. CASE AtLimit(equity')
    BY <1>1, <2>1 DEF ExposureInv, ExposureTypeOK, VerdictSpent, AtLimit
  <2>2. CASE ~AtLimit(equity')
    BY <1>1, <2>2 DEF VerdictSpent
  <2> QED
    BY <2>1, <2>2
<1>3. SweepHalts' /\ ShutdownHolds'
  BY <1>1, LockFrame
<1> QED
  BY <1>1, <1>2, <1>3 DEF ExposureInv, ExposureTypeOK, FlightCounted, Counted

LEMMA ExposureStep == ExposureInv /\ [Next]_vars => ExposureInv'
<1> SUFFICES ASSUME ExposureInv, [Next]_vars PROVE ExposureInv'
  OBVIOUS
<1>1. ASSUME NEW i \in Instruments, RouterOf(i) PROVE ExposureInv'
  <2>1. ASSUME NEW sign \in Signs, Enter(i, sign) PROVE ExposureInv'
    BY <2>1, EnterKeeps
  <2>2. CASE Exit(i)
    BY <2>2, ExitKeeps
  <2>3. CASE HandleEvent(i)
    BY <2>3, SettleKeeps DEF HandleEvent
  <2>4. CASE CheckPending(i)
    BY <2>4, SettleKeeps DEF CheckPending
  <2> QED
    BY <1>1, <2>1, <2>2, <2>3, <2>4 DEF RouterOf
<1>2. ASSUME NEW i \in Instruments, Venue(i) PROVE ExposureInv'
  BY <1>2, VenueKeeps
<1>3. ASSUME NEW i \in Instruments, Judge(i) PROVE ExposureInv'
  BY <1>3, JudgeKeeps
<1>4. ASSUME NEW i \in Instruments, SweepExit(i) \/ SweepHalt(i) PROVE ExposureInv'
  BY <1>4, SweepExitKeeps, SweepHaltKeeps
<1>5. CASE UNCHANGED vars
  <2>1. UNCHANGED <<st, intent, flight, equity, bar, sweep, alerts, cut, late>>
    BY <1>5 DEF vars
  <2>2. SweepHalts' /\ ShutdownHolds'
    BY <2>1, LockFrame
  <2> QED
    BY <2>1, <2>2 DEF ExposureInv, ExposureTypeOK, FlightCounted, Counted, VerdictSpent, AtLimit
<1> QED
  BY <1>1, <1>2, <1>3, <1>4, <1>5, BarDoneKeeps, ShutDownKeeps, RecoverKeeps, RevalueKeeps DEF Next

(* Every reachable state satisfies the invariant the properties below follow *)
(* from, those in the middle of a shutdown included (order_router.py,        *)
(* kill_switch.py, run_trader.py).                                           *)
THEOREM ExposureInvariant == Spec => []ExposureInv
<1>1. Init => ExposureInv
  BY ExposureStart
<1>2. ExposureInv /\ [Next]_vars => ExposureInv'
  BY ExposureStep
<1> QED
  BY <1>1, <1>2, PTL DEF Spec

(* A shutdown is raised once, and again only for each one that a death or an *)
(* exception cut short, at whichever of its routers, exits and commits       *)
(* (Portfolio._shutdown, InstrumentRouter.shutdown).                         *)
THEOREM ShutdownRaisedOnce == Spec => []ShutdownOnce
<1>1. ExposureInv => ShutdownOnce
  BY DEF ExposureInv, ShutdownHolds, ShutdownOnce
<1> QED
  BY <1>1, ExposureInvariant, PTL

(* From its alert on a shutdown that is not cut short ends the trading of    *)
(* every instrument, whatever the equity, the venue and restarts do          *)
(* afterwards, as long as no operator clears a halt (Portfolio._shutdown,    *)
(* recover).                                                                 *)
THEOREM ShutdownEndsTrading == Spec => NoEntryAfterShutdown
<1>1. ExposureInv /\ [Next]_vars => [alerts > cut => entries' = entries]_vars
  <2> SUFFICES ASSUME ExposureInv, [Next]_vars, alerts > cut PROVE entries' = entries
    OBVIOUS
  <2>1. ~\E i \in Instruments, sign \in Signs : Enter(i, sign)
    BY EnterKeeps
  <2> QED
    BY <2>1 DEF Next, RouterOf, Exit, HandleEvent, CheckPending, Venue, Execute, ExecuteStray, Close, Judge,
       BarDone, ShutDown, SweepExit, SweepHalt, Recover, Revalue, vars
<1> QED
  BY <1>1, ExposureInvariant, PTL DEF Spec, NoEntryAfterShutdown

(* At or below the pause limit one entry is sent at most: the one whose     *)
(* verdict the bar loop had taken before (run_trader.py bar_loop).          *)
THEOREM OneEntrySlips == Spec => []LimitBites
<1>1. ExposureInv => LimitBites
  BY DEF ExposureInv, VerdictSpent, LimitBites
<1> QED
  BY <1>1, ExposureInvariant, PTL

-----------------------------------------------------------------------------
(* The caps.                                                                *)

Amounts ==
    /\ pos \in Ledgers /\ intent \in Ledgers /\ flight \in Ledgers
    /\ stray \in [Instruments -> [Signs -> Nat]]
    /\ entries \in Nat

LEMMA SignFacts ==
    /\ 1 \in Signs /\ -1 \in Signs
    /\ \A x \in Int : Abs(x) \in Nat /\ Sign(x) \in Signs
    /\ \A sign \in Signs, r \in Nat \ {0} : Sign(sign * r) = sign /\ Abs(sign * r) = r /\ sign * r \in Int
BY DEF Signs, Abs, Sign

LEMMA LeastOfFive ==
    ASSUME NEW a \in Int, NEW b \in Int, NEW c \in Int, NEW d \in Int, NEW e \in Int
    PROVE  LET r == Min({a, b, c, d, e}) IN r \in Int /\ r <= d /\ r <= e
<1> DEFINE S == {a, b, c, d, e}
<1>1. \E x \in S : \A y \in S : x <= y
  <2>1. PICK p \in {a, b} : p <= a /\ p <= b
    OBVIOUS
  <2>2. PICK q \in {p, c} : q <= p /\ q <= c
    BY <2>1
  <2>3. PICK u \in {q, d} : u <= q /\ u <= d
    BY <2>1, <2>2
  <2>4. PICK v \in {u, e} : v <= u /\ v <= e
    BY <2>1, <2>2, <2>3
  <2> QED
    BY <2>1, <2>2, <2>3, <2>4
<1>2. Min(S) \in S /\ \A y \in S : Min(S) <= y
  BY <1>1 DEF Min
<1> QED
  BY <1>2

\* What the guards leave of an entry keeps it within the gross and the cluster cap.
LEMMA RoomFacts ==
    ASSUME ExposureTypeOK, Amounts, NEW i \in Instruments, NEW sign \in Signs
    PROVE  /\ Existing(i) \in Int /\ NetExisting(i) \in Int /\ Room(i, sign) \in Int
           /\ Room(i, sign) <= GrossCap - Existing(i)
           /\ Room(i, sign) <= ClusterCap - sign * NetExisting(i)
<1> DEFINE held == [j \in Instruments |-> Abs(pos[j])]
           sent == [j \in Instruments |-> Abs(intent[j])]
<1>1. held \in Ledgers /\ sent \in Ledgers
  BY SignFacts DEF Amounts, Ledgers
<1>2. Pending(i) \in SUBSET Instruments /\ Cluster(i) \in SUBSET Instruments
      /\ Pending(i) \cap Cluster(i) \in SUBSET Instruments
  BY DEF Pending, Cluster
<1>3. Existing(i) = Total(Instruments, held) + Total(Pending(i), sent)
  BY DEF Existing
<1>4. Existing(i) \in Int
  <2> HIDE DEF held, sent
  <2>1. Total(Instruments, held) \in Int /\ Total(Pending(i), sent) \in Int
    BY <1>1, <1>2, TotalStep
  <2> QED
    BY <1>3, <2>1
<1>5. NetExisting(i) \in Int
  <2>1. Total(Cluster(i), pos) \in Int /\ Total(Pending(i) \cap Cluster(i), intent) \in Int
    BY <1>2, TotalStep DEF Amounts
  <2> QED
    BY <2>1 DEF NetExisting
<1>6. /\ LeverageCap - Existing(i) \in Int /\ FloorCap - Existing(i) \in Int
      /\ GrossCap - Existing(i) \in Int /\ ClusterCap - sign * NetExisting(i) \in Int
      /\ Notional \in Int
  BY <1>4, <1>5 DEF ExposureTypeOK, LeverageCap, FloorCap, GrossCap, ClusterCap, Signs
<1> QED
  BY <1>4, <1>5, <1>6, LeastOfFive DEF Room

\* What an entry changes: its own instrument, by the room there was or not at all.
LEMMA EnterAdds ==
    ASSUME ExposureInv, Amounts, NEW i \in Instruments, NEW sign \in Signs, Enter(i, sign)
    PROVE  /\ Room(i, sign) \in Nat \ {0}
           /\ pos' = pos /\ flight[i] = 0
           /\ \A j \in Instruments \ {i} : flight'[j] = flight[j] /\ stray'[j] = stray[j]
           /\ \/ flight'[i] = sign * Room(i, sign) /\ stray'[i] = stray[i]
              \/ flight' = flight /\ stray' = stray
              \/ /\ flight'[i] = 0
                 /\ \A x \in Signs : stray'[i][x] = stray[i][x] + (IF x = sign THEN Room(i, sign) ELSE 0)
           /\ intent' \in Ledgers /\ flight' \in Ledgers /\ stray' \in [Instruments -> [Signs -> Nat]]
<1> DEFINE r == Room(i, sign)
<1>1. r \in Nat \ {0}
  BY RoomFacts DEF Enter, ExposureInv
<1>2. Sign(sign * r) = sign /\ Abs(sign * r) = r /\ sign * r \in Int
  BY <1>1, SignFacts
<1>3. pos' = pos /\ st[i] = "FLAT"
  BY DEF Enter
<1>4. flight[i] = 0
  BY <1>3 DEF ExposureInv, FlightCounted, Counted
<1>5. Accepted(i, sign * r) \/ Refused \/ Lost(i, sign * r)
  BY DEF Enter
<1> HIDE DEF r
<1>6. CASE Accepted(i, sign * r)
  <2>1. /\ flight' = [flight EXCEPT ![i] = sign * r] /\ intent' = [intent EXCEPT ![i] = sign * r]
        /\ stray' = stray
    BY <1>6 DEF Accepted
  <2>2. intent' \in Ledgers /\ flight' \in Ledgers /\ stray' \in [Instruments -> [Signs -> Nat]]
    BY <1>2, <2>1 DEF Amounts, Ledgers
  <2>3. flight'[i] = sign * r /\ \A j \in Instruments \ {i} : flight'[j] = flight[j]
    BY <2>1 DEF Amounts, Ledgers
  <2> QED
    BY <1>1, <1>3, <1>4, <2>1, <2>2, <2>3 DEF r
<1>7. CASE Refused
  BY <1>1, <1>3, <1>4, <1>7 DEF r, Refused, Amounts
<1>8. CASE Lost(i, sign * r)
  <2>1. /\ flight' = flight /\ intent' = intent
        /\ stray' = stray \/ stray' = [stray EXCEPT ![i][sign] = @ + r]
    BY <1>2, <1>8 DEF Lost
  <2>2. CASE stray' = stray
    BY <1>1, <1>3, <1>4, <2>1, <2>2 DEF r, Amounts
  <2>3. CASE stray' = [stray EXCEPT ![i][sign] = @ + r]
    <3>1. stray' \in [Instruments -> [Signs -> Nat]]
      BY <1>1, <2>3 DEF Amounts
    <3>2. /\ \A x \in Signs : stray'[i][x] = stray[i][x] + (IF x = sign THEN r ELSE 0)
          /\ \A j \in Instruments \ {i} : stray'[j] = stray[j]
      BY <1>1, <2>3 DEF Amounts
    <3> QED
      BY <1>1, <1>3, <1>4, <2>1, <3>1, <3>2 DEF r, Amounts
  <2> QED
    BY <2>1, <2>2, <2>3
<1> QED
  BY <1>5, <1>6, <1>7, <1>8

LEMMA AstrayTyped ==
    ASSUME Amounts, NEW i \in Instruments
    PROVE  Astray(i) \in [Instruments -> [Signs -> Nat]]
<1>1. flight[i] \in Int /\ Sign(flight[i]) \in Signs /\ Abs(flight[i]) \in Nat
  BY SignFacts DEF Amounts, Ledgers
<1> QED
  BY <1>1 DEF Astray, Amounts

LEMMA PartsTyped == ASSUME NEW x \in Nat, NEW part \in Parts(x) PROVE part \in Nat
BY DEF Parts

LEMMA AmountsKept == ExposureInv /\ Amounts /\ [Next]_vars => Amounts'
<1> SUFFICES ASSUME ExposureInv, Amounts, [Next]_vars PROVE Amounts'
  OBVIOUS
<1> DEFINE Strays == [Instruments -> [Signs -> Nat]]
<1>1. pos \in Ledgers /\ intent \in Ledgers /\ flight \in Ledgers /\ stray \in Strays
  BY DEF Amounts
<1>0. entries' \in Nat
  <2>1. entries' = entries \/ entries' = entries + 1
    BY DEF Next, RouterOf, Enter, Exit, HandleEvent, CheckPending, Venue, Execute, ExecuteStray, Close, Judge,
       BarDone, ShutDown, SweepExit, SweepHalt, Recover, Revalue, vars
  <2> QED
    BY <2>1 DEF Amounts
<1>2. \A i \in Instruments : /\ [intent EXCEPT ![i] = 0] \in Ledgers /\ [flight EXCEPT ![i] = 0] \in Ledgers
                             /\ [pos EXCEPT ![i] = 0] \in Ledgers
  BY <1>1 DEF Ledgers
<1>3. [i \in Instruments |-> 0] \in Ledgers
  BY DEF Ledgers
<1>4. \A i \in Instruments : Astray(i) \in Strays /\ Astray(i)[i] \in [Signs -> Nat]
  BY AstrayTyped
<1>5. ASSUME NEW i \in Instruments, NEW sign \in Signs, Enter(i, sign) PROVE Amounts'
  <2>1. pos' = pos /\ intent' \in Ledgers /\ flight' \in Ledgers /\ stray' \in Strays
    BY <1>5, EnterAdds
  <2> QED
    BY <1>0, <1>1, <2>1 DEF Amounts
<1>6. ASSUME NEW i \in Instruments, Settle(i), pos' = pos PROVE Amounts'
  BY <1>0, <1>1, <1>2, <1>4, <1>6 DEF Settle, Amounts
<1>7. ASSUME NEW i \in Instruments, Execute(i) PROVE Amounts'
  <2>1. PICK part \in Parts(Abs(flight[i])) : pos' = [pos EXCEPT ![i] = @ + Sign(flight[i]) * part]
    BY <1>7 DEF Execute
  <2>2. flight[i] \in Int /\ pos[i] \in Int
    BY <1>1 DEF Ledgers
  <2>3. part \in Nat /\ Sign(flight[i]) \in Signs
    BY <2>2, SignFacts, PartsTyped
  <2>4. pos[i] + Sign(flight[i]) * part \in Int
    BY <2>2, <2>3 DEF Signs
  <2>5. pos' \in Ledgers
    BY <1>1, <2>1, <2>4 DEF Ledgers
  <2> QED
    BY <1>0, <1>1, <1>2, <1>7, <2>5 DEF Execute, Amounts
<1>8. ASSUME NEW i \in Instruments, NEW sign \in Signs, ExecuteStray(i, sign) PROVE Amounts'
  <2>1. PICK part \in Parts(stray[i][sign]) : pos' = [pos EXCEPT ![i] = @ + sign * part]
    BY <1>8 DEF ExecuteStray
  <2>2. stray[i][sign] \in Nat /\ pos[i] \in Int
    BY <1>1 DEF Ledgers
  <2>3. part \in Nat
    BY <2>2, PartsTyped
  <2>4. pos[i] + sign * part \in Int
    BY <2>2, <2>3 DEF Signs
  <2>5. pos' \in Ledgers
    BY <1>1, <2>1, <2>4 DEF Ledgers
  <2>6. stray' \in Strays
    BY <1>1, <1>8 DEF ExecuteStray
  <2> QED
    BY <1>0, <1>1, <1>8, <2>5, <2>6 DEF ExecuteStray, Amounts
<1>9. ASSUME NEW i \in Instruments, Close(i) PROVE Amounts'
  BY <1>0, <1>1, <1>2, <1>9 DEF Close, Amounts
<1>10. ASSUME NEW i \in Instruments, SweepHalt(i) PROVE Amounts'
  BY <1>0, <1>1, <1>2, <1>4, <1>10 DEF SweepHalt, Amounts
<1>11. CASE Recover
  BY <1>0, <1>1, <1>3, <1>4, <1>11 DEF Recover, Amounts
<1>12. CASE UNCHANGED <<pos, intent, flight, stray>>
  BY <1>0, <1>1, <1>12 DEF Amounts
<1>13. ASSUME NEW i \in Instruments, RouterOf(i) PROVE Amounts'
  <2>1. CASE Exit(i)
    BY <1>12, <2>1 DEF Exit
  <2>2. CASE HandleEvent(i)
    BY <1>6, <2>2 DEF HandleEvent
  <2>3. CASE CheckPending(i)
    BY <1>6, <2>3 DEF CheckPending
  <2> QED
    BY <1>5, <1>13, <2>1, <2>2, <2>3 DEF RouterOf
<1>14. ASSUME NEW i \in Instruments, Venue(i) PROVE Amounts'
  BY <1>7, <1>8, <1>9, <1>14 DEF Venue
<1>15. ASSUME NEW i \in Instruments, Judge(i) PROVE Amounts'
  BY <1>12, <1>15 DEF Judge
<1>16. CASE BarDone \/ ShutDown \/ Revalue \/ UNCHANGED vars
  BY <1>12, <1>16 DEF BarDone, ShutDown, Revalue, vars
<1>17. ASSUME NEW i \in Instruments, SweepExit(i) PROVE Amounts'
  BY <1>12, <1>17 DEF SweepExit
<1> QED
  BY <1>10, <1>11, <1>13, <1>14, <1>15, <1>16, <1>17 DEF Next

\* Nothing but an entry counts as one, and it is that of its own instrument.
LEMMA OnlyEntersSend ==
    ASSUME ExposureInv, Amounts, [Next]_vars, NEW k \in Instruments, Sent(k)
    PROVE  \E sign \in Signs : Enter(k, sign)
<1>1. entries' # entries
  BY DEF Sent, Amounts
<1>2. \E i \in Instruments, sign \in Signs : Enter(i, sign)
  BY <1>1 DEF Next, RouterOf, Exit, HandleEvent, CheckPending, Venue, Execute, ExecuteStray, Close, Judge,
     BarDone, ShutDown, SweepExit, SweepHalt, Recover, Revalue, vars
<1>3. PICK i \in Instruments, sign \in Signs : Enter(i, sign)
  BY <1>2
<1>4. k = i
  BY <1>3, EnterAdds DEF Sent
<1> QED
  BY <1>3, <1>4

LEMMA StrayTyped ==
    ASSUME Amounts
    PROVE  /\ \A j \in Instruments : /\ pos[j] \in Int /\ intent[j] \in Int /\ flight[j] \in Int
                                     /\ stray[j][1] \in Nat /\ stray[j][-1] \in Nat /\ StrayOf(j) \in Nat
           /\ [j \in Instruments |-> StrayOf(j)] \in Ledgers
<1>1. \A j \in Instruments : stray[j][1] \in Nat /\ stray[j][-1] \in Nat
  BY SignFacts DEF Amounts
<1>2. \A j \in Instruments : pos[j] \in Int /\ intent[j] \in Int /\ flight[j] \in Int
  BY DEF Amounts, Ledgers
<1>3. \A j \in Instruments : StrayOf(j) \in Nat
  BY <1>1 DEF StrayOf
<1> QED
  BY <1>1, <1>2, <1>3 DEF Ledgers

\* What is in flight on another instrument is what its pending intent says.
LEMMA OthersCounted ==
    ASSUME ExposureInv, NEW i \in Instruments, NEW j \in Instruments, j # i, flight[j] # 0
    PROVE  j \in Pending(i) /\ flight[j] = intent[j]
BY DEF ExposureInv, FlightCounted, Pending

LEMMA EntryKeepsGross ==
    ASSUME ExposureInv, Amounts, Amounts', NEW i \in Instruments, NEW sign \in Signs, Enter(i, sign)
    PROVE  Gross' <= GrossCap + Unseen
<1> DEFINE r == Room(i, sign)
           held == [j \in Instruments |-> Abs(pos[j])]
           sent == [j \in Instruments |-> Abs(intent[j])]
           counted == [j \in Instruments |-> IF j \in Pending(i) THEN Abs(intent[j]) ELSE 0]
           own == [j \in Instruments |-> IF j = i THEN r ELSE 0]
           strays == [j \in Instruments |-> StrayOf(j)]
           after == [j \in Instruments |-> Abs(pos'[j]) + Abs(flight'[j]) + StrayOf(j)']
<1>1. r \in Nat \ {0} /\ r <= GrossCap - Existing(i) /\ Existing(i) \in Int /\ GrossCap \in Int
  BY EnterAdds, RoomFacts DEF ExposureInv, GrossCap, ExposureTypeOK
<1>2. Existing(i) = Total(Instruments, held) + Total(Pending(i), sent)
  BY DEF Existing
<1>3. Unseen = Total(Instruments, strays) /\ Gross' = Total(Instruments, after)
  BY DEF Unseen, Gross
<1>4. \A j \in Instruments : /\ Abs(pos[j]) \in Nat /\ Abs(intent[j]) \in Nat /\ Abs(flight[j]) \in Nat
                             /\ Abs(pos'[j]) \in Nat /\ Abs(flight'[j]) \in Nat /\ StrayOf(j)' \in Nat
  <2>1. \A j \in Instruments : /\ pos[j] \in Int /\ intent[j] \in Int /\ flight[j] \in Int
                               /\ pos'[j] \in Int /\ flight'[j] \in Int
    BY DEF Amounts, Ledgers
  <2>2. \A j \in Instruments : stray'[j][1] \in Nat /\ stray'[j][-1] \in Nat
    BY SignFacts DEF Amounts
  <2> QED
    BY <2>1, <2>2, SignFacts DEF StrayOf
<1>5. /\ held \in Ledgers /\ sent \in Ledgers /\ counted \in Ledgers /\ own \in Ledgers /\ strays \in Ledgers
      /\ after \in Ledgers
  BY <1>1, <1>4, StrayTyped DEF Ledgers
<1>6. ASSUME NEW j \in Instruments PROVE after[j] <= held[j] + counted[j] + own[j] + strays[j]
  <2>1. /\ Abs(pos[j]) \in Nat /\ Abs(intent[j]) \in Nat /\ StrayOf(j) \in Nat
        /\ stray[j][1] \in Nat /\ stray[j][-1] \in Nat
    BY <1>4, StrayTyped
  <2>2. pos'[j] = pos[j]
    BY EnterAdds
  <2>3. Abs(0) = 0
    BY DEF Abs
  <2>4. CASE j # i
    <3>1. flight'[j] = flight[j] /\ StrayOf(j)' = StrayOf(j)
      BY <2>4, EnterAdds DEF StrayOf
    <3>2. Abs(flight[j]) <= counted[j]
      BY <1>4, <2>3, <2>4, OthersCounted
    <3>3. after[j] = Abs(pos[j]) + Abs(flight[j]) + StrayOf(j) /\ own[j] = 0
      BY <2>2, <2>4, <3>1
    <3>4. held[j] = Abs(pos[j]) /\ strays[j] = StrayOf(j) /\ counted[j] \in Int /\ Abs(flight[j]) \in Int
      BY <1>4, <1>5 DEF Ledgers
    <3> HIDE DEF held, counted, own, strays, after
    <3> QED
      BY <2>1, <3>2, <3>3, <3>4
  <2>5. CASE j = i
    <3>1. Abs(flight'[j]) + StrayOf(j)' <= r + StrayOf(j)
      <4>1. CASE flight'[i] = sign * r /\ stray'[i] = stray[i]
        <5>1. Abs(flight'[j]) = r /\ StrayOf(j)' = StrayOf(j)
          BY <1>1, <2>5, <4>1, SignFacts DEF StrayOf
        <5> QED
          BY <1>1, <2>1, <5>1
      <4>2. CASE flight' = flight /\ stray' = stray
        <5>1. Abs(flight'[j]) = 0 /\ StrayOf(j)' = StrayOf(j)
          BY <2>3, <2>5, <4>2, EnterAdds DEF StrayOf
        <5> QED
          BY <1>1, <2>1, <5>1
      <4>3. CASE /\ flight'[i] = 0
                 /\ \A x \in Signs : stray'[i][x] = stray[i][x] + (IF x = sign THEN r ELSE 0)
        <5>1. Abs(flight'[j]) = 0
          BY <2>3, <2>5, <4>3
        <5>2. /\ stray'[j][1] = stray[j][1] + (IF 1 = sign THEN r ELSE 0)
              /\ stray'[j][-1] = stray[j][-1] + (IF -1 = sign THEN r ELSE 0)
          BY <2>5, <4>3, SignFacts
        <5>3. StrayOf(j)' = StrayOf(j) + r
          BY <1>1, <2>1, <5>2 DEF StrayOf, Signs
        <5> QED
          BY <1>1, <2>1, <5>1, <5>3
      <4> QED
        BY <4>1, <4>2, <4>3, EnterAdds
    <3>2. after[j] = Abs(pos[j]) + Abs(flight'[j]) + StrayOf(j)' /\ own[j] = r
      BY <2>2, <2>5
    <3>3. held[j] = Abs(pos[j]) /\ strays[j] = StrayOf(j) /\ counted[j] \in Nat
      BY <1>4
    <3>4. Abs(flight'[j]) \in Nat /\ StrayOf(j)' \in Nat
      BY <1>4
    <3> HIDE DEF held, counted, own, strays, after, r
    <3> QED
      BY <1>1, <2>1, <3>1, <3>2, <3>3, <3>4
  <2> QED
    BY <2>4, <2>5
<1>7. Pending(i) \in SUBSET Instruments /\ Total(Instruments, counted) = Total(Pending(i), sent)
  <2>1. /\ Pending(i) \in SUBSET Instruments
        /\ \A j \in Pending(i) : counted[j] = sent[j]
        /\ \A j \in Instruments \ Pending(i) : counted[j] = 0
    BY DEF Pending
  <2> HIDE DEF counted, sent
  <2> QED
    BY <1>5, <2>1, TotalPart
<1>8. \A j \in Instruments : own[j] = IF j = i THEN r ELSE 0
  OBVIOUS
<1> HIDE DEF held, sent, counted, own, strays, after, r
<1>9. Total(Instruments, own) = r
  BY <1>1, <1>5, <1>8, TotalPoint
<1>10. Total(Instruments, after) <= Total(Instruments, held) + Total(Instruments, counted)
                                    + Total(Instruments, own) + Total(Instruments, strays)
  BY <1>5, <1>6, TotalBound
<1>11. /\ Total(Instruments, held) \in Int /\ Total(Pending(i), sent) \in Int /\ Total(Instruments, strays) \in Int
       /\ Total(Instruments, after) \in Int
  BY <1>5, <1>7, TotalStep
<1> QED
  BY <1>1, <1>2, <1>3, <1>7, <1>9, <1>10, <1>11

LEMMA TotalMore ==
    ASSUME NEW f \in Ledgers, NEW S \in SUBSET Instruments, \A j \in Instruments : f[j] >= 0
    PROVE  Total(S, f) <= Total(Instruments, f)
<1> DEFINE g == [j \in Instruments |-> IF j \in S THEN f[j] ELSE 0]
<1>1. g \in Ledgers /\ (\A j \in Instruments : g[j] <= f[j])
      /\ (\A j \in S : g[j] = f[j]) /\ (\A j \in Instruments \ S : g[j] = 0)
  BY DEF Ledgers
<1> HIDE DEF g
<1>2. Total(Instruments, g) = Total(S, f)
  BY <1>1, TotalPart
<1>3. Total(Instruments, g) <= Total(Instruments, f)
  BY <1>1, TotalOrdered
<1> QED
  BY <1>2, <1>3

\* What an entry adds to its own instrument is the room there was, on its side.
LEMMA EntryAddsOwn ==
    ASSUME ExposureInv, Amounts, Amounts', NEW i \in Instruments, NEW sign \in Signs, Enter(i, sign)
    PROVE  LET own == flight'[i] + stray'[i][1] - stray'[i][-1]
               was == flight[i] + stray[i][1] - stray[i][-1]
           IN  own = was + sign * Room(i, sign) \/ own = was
<1> DEFINE r == Room(i, sign)
<1>1. r \in Nat \ {0} /\ flight[i] = 0
  BY EnterAdds
<1>2. stray[i][1] \in Nat /\ stray[i][-1] \in Nat
  BY StrayTyped
<1> HIDE DEF r
<1>3. CASE flight'[i] = sign * r /\ stray'[i] = stray[i]
  BY <1>1, <1>2, <1>3 DEF r, Signs
<1>4. CASE flight' = flight /\ stray' = stray
  BY <1>4
<1>5. CASE /\ flight'[i] = 0
           /\ \A x \in Signs : stray'[i][x] = stray[i][x] + (IF x = sign THEN r ELSE 0)
  <2>1. /\ stray'[i][1] = stray[i][1] + (IF 1 = sign THEN r ELSE 0)
        /\ stray'[i][-1] = stray[i][-1] + (IF -1 = sign THEN r ELSE 0)
    BY <1>5, SignFacts
  <2>2. CASE sign = 1
    BY <1>1, <1>2, <1>5, <2>1, <2>2 DEF r
  <2>3. CASE sign = -1
    BY <1>1, <1>2, <1>5, <2>1, <2>3 DEF r
  <2> QED
    BY <2>2, <2>3 DEF Signs
<1> QED
  BY <1>3, <1>4, <1>5, EnterAdds DEF r

LEMMA EntryKeepsCluster ==
    ASSUME ExposureInv, Amounts, Amounts', NEW i \in Instruments, NEW side \in Signs, Enter(i, side),
           NEW sign \in Signs, sign * (NetOf({i})' - NetOf({i})) > 0,
           \A j \in Cluster(i) : Counted(j) => sign * intent[j] > 0
    PROVE  sign * NetOf(Cluster(i))' <= ClusterCap + Unseen
<1> DEFINE r == Room(i, sign)
           C == Cluster(i)
           P == Pending(i) \cap Cluster(i)
           before == [j \in Instruments |-> pos[j] + flight[j] + stray[j][1] - stray[j][-1]]
           after == [j \in Instruments |-> pos'[j] + flight'[j] + stray'[j][1] - stray'[j][-1]]
           lean == [j \in Instruments |-> sign * after[j]]
           held == [j \in Instruments |-> sign * pos[j]]
           counted == [j \in Instruments |-> IF j \in P THEN intent[j] ELSE 0]
           sent == [j \in Instruments |-> sign * counted[j]]
           own == [j \in Instruments |-> IF j = i THEN r ELSE 0]
           strays == [j \in Instruments |-> StrayOf(j)]
<1>1. \A j \in Instruments : /\ pos[j] \in Int /\ intent[j] \in Int /\ flight[j] \in Int
                             /\ stray[j][1] \in Nat /\ stray[j][-1] \in Nat /\ StrayOf(j) \in Nat
  BY StrayTyped
<1>2. \A j \in Instruments : /\ pos'[j] \in Int /\ flight'[j] \in Int
                             /\ stray'[j][1] \in Nat /\ stray'[j][-1] \in Nat
  BY SignFacts DEF Amounts, Ledgers
<1>3. C \in SUBSET Instruments /\ i \in C /\ P \in SUBSET C /\ P \in SUBSET Instruments
  BY DEF Cluster
<1>4. before \in Ledgers /\ after \in Ledgers /\ counted \in Ledgers
  BY <1>1, <1>2 DEF Ledgers
<1>5. NetOf({i}) = before[i] /\ NetOf({i})' = after[i]
  <2>1. NetOf({i}) = Total({i}, before) /\ NetOf({i})' = Total({i}, after)
    BY DEF NetOf
  <2> HIDE DEF before, after
  <2>2. \A f \in Ledgers : Total({i}, f) = f[i]
    <3> SUFFICES ASSUME NEW f \in Ledgers PROVE Total({i}, f) = f[i]
      OBVIOUS
    <3>1. Total({i}, f) = f[i] + Total({i} \ {i}, f)
      BY TotalWithout
    <3>2. Total({i} \ {i}, f) = Total({}, f)
      <4>1. {i} \ {i} = {}
        OBVIOUS
      <4> QED
        BY <4>1
    <3>3. Total({}, f) = 0 /\ f[i] \in Int
      BY TotalStep DEF Ledgers
    <3> QED
      BY <3>1, <3>2, <3>3
  <2> QED
    BY <1>4, <2>1, <2>2
<1>6. pos' = pos /\ flight[i] = 0 /\ Room(i, side) \in Nat \ {0}
      /\ \A j \in Instruments \ {i} : flight'[j] = flight[j] /\ stray'[j] = stray[j]
  BY EnterAdds
<1>7. after[i] = before[i] + side * Room(i, side) \/ after[i] = before[i]
  <2> DEFINE x == flight'[i] + stray'[i][1] - stray'[i][-1]
             y == flight[i] + stray[i][1] - stray[i][-1]
  <2>1. x = y + side * Room(i, side) \/ x = y
    BY EntryAddsOwn
  <2>2. after[i] = pos[i] + x /\ before[i] = pos[i] + y /\ x \in Int /\ y \in Int /\ pos[i] \in Int
    BY <1>1, <1>2, <1>6
  <2>3. side * Room(i, side) \in Int
    BY <1>6, SignFacts
  <2> HIDE DEF x, y
  <2> QED
    BY <2>1, <2>2, <2>3
<1>8. side = sign
  <2>1. before[i] \in Int /\ after[i] \in Int
    BY <1>4 DEF Ledgers
  <2>2. sign * (after[i] - before[i]) > 0
    BY <1>5
  <2> HIDE DEF before, after
  <2>3. CASE side = 1 /\ sign = -1
    BY <1>6, <1>7, <2>1, <2>2, <2>3
  <2>4. CASE side = -1 /\ sign = 1
    BY <1>6, <1>7, <2>1, <2>2, <2>4
  <2> QED
    BY <2>3, <2>4 DEF Signs
<1>9. r \in Nat \ {0} /\ r <= ClusterCap - sign * NetExisting(i) /\ NetExisting(i) \in Int
  BY <1>6, <1>8, RoomFacts DEF ExposureInv
<1>10. ClusterCap \in Int
  BY DEF ExposureInv, ExposureTypeOK, ClusterCap
<1>11. /\ lean \in Ledgers /\ held \in Ledgers /\ sent \in Ledgers /\ own \in Ledgers /\ strays \in Ledgers
       /\ pos \in Ledgers /\ intent \in Ledgers
  <2>1. \A j \in Instruments : after[j] \in Int /\ counted[j] \in Int
    BY <1>4 DEF Ledgers
  <2> HIDE DEF after, counted, r, P
  <2>2. \A j \in Instruments : sign * after[j] \in Int /\ sign * pos[j] \in Int /\ sign * counted[j] \in Int
    BY <1>1, <2>1 DEF Signs
  <2> QED
    BY <1>1, <1>9, <2>2 DEF Ledgers, Amounts
<1>12. ASSUME NEW j \in C PROVE lean[j] <= held[j] + sent[j] + own[j] + strays[j]
  <2>1. j \in Instruments /\ pos[j] \in Int /\ flight[j] \in Int /\ intent[j] \in Int
        /\ stray[j][1] \in Nat /\ stray[j][-1] \in Nat /\ StrayOf(j) = stray[j][1] + stray[j][-1]
    BY <1>1, <1>3 DEF StrayOf
  <2>2. lean[j] = sign * after[j] /\ held[j] = sign * pos[j] /\ strays[j] = StrayOf(j)
    BY <2>1
  <2>3. before[j] = pos[j] + flight[j] + stray[j][1] - stray[j][-1]
    BY <2>1
  <2>4. sign * counted[j] >= sign * flight[j] /\ sign * counted[j] >= 0
    <3>1. CASE flight[j] # 0
      <4>1. j # i /\ j \in Pending(i) /\ flight[j] = intent[j]
        BY <1>6, <2>1, <3>1, OthersCounted
      <4>2. counted[j] = intent[j] /\ Counted(j)
        BY <2>1, <4>1 DEF Pending
      <4>3. sign * intent[j] > 0
        BY <4>2
      <4> QED
        BY <2>1, <4>1, <4>2, <4>3 DEF Signs
    <3>2. CASE flight[j] = 0
      <4>1. CASE j \in P
        <5>1. counted[j] = intent[j] /\ Counted(j)
          BY <2>1, <4>1 DEF Pending
        <5>2. sign * intent[j] > 0
          BY <5>1
        <5> QED
          BY <2>1, <3>2, <5>1, <5>2 DEF Signs
      <4>2. CASE j \notin P
        <5>1. counted[j] = 0
          BY <2>1, <4>2
        <5> QED
          BY <3>2, <5>1 DEF Signs
      <4> QED
        BY <4>1, <4>2
    <3> QED
      BY <3>1, <3>2
  <2>5. sent[j] = sign * counted[j] /\ counted[j] \in Int
    BY <1>4, <2>1 DEF Ledgers
  <2>6. own[j] = IF j = i THEN r ELSE 0
    BY <2>1
  <2>7. after[j] = before[j] \/ (j = i /\ after[j] = before[j] + sign * r)
    BY <1>6, <1>7, <1>8, <2>1
  <2> HIDE DEF before, after, lean, held, counted, sent, own, strays, r, C, P
  <2>8. CASE sign = 1
    BY <1>9, <2>1, <2>2, <2>3, <2>4, <2>5, <2>6, <2>7, <2>8
  <2>9. CASE sign = -1
    BY <1>9, <2>1, <2>2, <2>3, <2>4, <2>5, <2>6, <2>7, <2>9
  <2> QED
    BY <2>8, <2>9 DEF Signs
<1>13. NetOf(C)' = Total(C', after) /\ C' = C
  BY DEF NetOf, Cluster
<1>14. /\ \A j \in Instruments : lean[j] = sign * after[j]
       /\ \A j \in Instruments : held[j] = sign * pos[j]
       /\ \A j \in Instruments : sent[j] = sign * counted[j]
       /\ \A j \in Instruments : own[j] = IF j = i THEN r ELSE 0
       /\ \A j \in Instruments : strays[j] >= 0
  BY <1>1
<1>15. (\A j \in P : counted[j] = intent[j]) /\ (\A j \in C \ P : counted[j] = 0)
  BY <1>3
<1>16. Unseen = Total(Instruments, strays) /\ NetExisting(i) = Total(C, pos) + Total(P, intent)
  BY DEF Unseen, NetExisting
<1> HIDE DEF before, after, lean, held, counted, sent, own, strays, r, C, P
<1>17. Total(C, lean) = sign * Total(C, after) /\ Total(C, held) = sign * Total(C, pos)
       /\ Total(C, sent) = sign * Total(C, counted)
  BY <1>3, <1>4, <1>11, <1>14, TotalSigned
<1>18. Total(C, counted) = Total(P, intent)
  BY <1>3, <1>4, <1>11, <1>15, TotalPart
<1>19. Total(C, own) = r
  BY <1>3, <1>9, <1>11, <1>14, TotalPoint
<1>20. Total(C, strays) <= Unseen
  BY <1>3, <1>11, <1>14, <1>16, TotalMore
<1>21. Total(C, lean) <= Total(C, held) + Total(C, sent) + Total(C, own) + Total(C, strays)
  BY <1>3, <1>11, <1>12, TotalBound
<1>22. /\ Total(C, after) \in Int /\ Total(C, pos) \in Int /\ Total(P, intent) \in Int
       /\ Total(C, strays) \in Int /\ Unseen \in Int
  BY <1>3, <1>4, <1>11, <1>16, TotalStep
<1>23. sign * Total(C, after) <= ClusterCap + Unseen
  <2>1. CASE sign = 1
    BY <1>9, <1>10, <1>16, <1>17, <1>18, <1>19, <1>20, <1>21, <1>22, <2>1
  <2>2. CASE sign = -1
    BY <1>9, <1>10, <1>16, <1>17, <1>18, <1>19, <1>20, <1>21, <1>22, <2>2
  <2> QED
    BY <2>1, <2>2 DEF Signs
<1> QED
  BY <1>13, <1>23 DEF C

LEMMA AmountsStart == Init => Amounts
BY DEF Init, Amounts, Ledgers

LEMMA AmountsHold == Spec => [](ExposureInv /\ Amounts)
<1>1. Init => ExposureInv /\ Amounts
  BY ExposureStart, AmountsStart
<1>2. ExposureInv /\ Amounts /\ [Next]_vars => ExposureInv' /\ Amounts'
  BY ExposureStep, AmountsKept
<1> QED
  BY <1>1, <1>2, PTL DEF Spec

(* Whatever is filled, in flight or half reported on the other instruments, an entry    *)
(* never takes the account past its gross cap, but for the orders no guard can see, for *)
(* any number of instruments and any equities (vet_exposure, portfolio_exposure.py).    *)
THEOREM EntriesWithinGross == Spec => EntryWithinGross
<1>1. ExposureInv /\ Amounts /\ Amounts' /\ [Next]_vars
        => [(\E i \in Instruments : Sent(i)) => Gross' <= GrossCap + Unseen]_vars
  <2> SUFFICES ASSUME ExposureInv, Amounts, Amounts', [Next]_vars, NEW i \in Instruments, Sent(i)
               PROVE  Gross' <= GrossCap + Unseen
    OBVIOUS
  <2> QED
    BY OnlyEntersSend, EntryKeepsGross
<1> QED
  BY <1>1, AmountsHold, PTL DEF Spec, EntryWithinGross

(* An entry in a cluster where nothing pending leans the other way leaves the cluster   *)
(* within its net cap, long or short (vet_exposure, portfolio_exposure.py).             *)
THEOREM EntriesWithinCluster == Spec => EntryWithinCluster
<1>1. ExposureInv /\ Amounts /\ Amounts' /\ [Next]_vars
        => [\A i \in Instruments, sign \in Signs :
              (/\ Sent(i)
               /\ sign * (NetOf({i})' - NetOf({i})) > 0
               /\ \A j \in Cluster(i) : Counted(j) => sign * intent[j] > 0)
              => sign * NetOf(Cluster(i))' <= ClusterCap + Unseen]_vars
  <2> SUFFICES ASSUME ExposureInv, Amounts, Amounts', [Next]_vars,
                      NEW i \in Instruments, NEW sign \in Signs, Sent(i),
                      sign * (NetOf({i})' - NetOf({i})) > 0,
                      \A j \in Cluster(i) : Counted(j) => sign * intent[j] > 0
               PROVE  sign * NetOf(Cluster(i))' <= ClusterCap + Unseen
    OBVIOUS
  <2>1. PICK side \in Signs : Enter(i, side)
    BY OnlyEntersSend
  <2> QED
    BY <2>1, EntryKeepsCluster
<1> QED
  BY <1>1, AmountsHold, PTL DEF Spec, EntryWithinCluster
=============================================================================
