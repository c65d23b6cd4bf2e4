------------------------------- MODULE Gates -------------------------------
(***************************************************************************)
(* The way from a backtest to a live order: scripts/run_backtest.py writes *)
(* a record of every run (signal/validation_log.py), an operator approves  *)
(* one in validated.json, signal/base.py derives SIGNAL_VALIDATED when a   *)
(* process imports it, and gates.py refuses orders without it.             *)
(*                                                                         *)
(* Backtests take long and run concurrently with deployments, with each    *)
(* other and with a live trader.  Of a run's figures only the verdicts     *)
(* matter: the funding and span stored meet the bar, the holdout clears    *)
(* it, clears it under the robust fills too, had no fill at an hourly      *)
(* open, and spans enough days.  Time is counted in runs started; a run's  *)
(* start identifies it (run_id).  Malformed files, which close the gate,   *)
(* are left out.  MODES is a constant of the code, empty at this commit:   *)
(* InAuto says whether the instrument traded is in it.                     *)
(***************************************************************************)
EXTENDS Integers, FiniteSets

CONSTANTS Pairs,       \* hypothesis and instrument, case-folded
          InAuto,      \* the instrument's mode is AUTO
          MaxRuns,     \* bound: backtests started
          MaxVersion,  \* bound: the newest HARNESS_VERSION
          MaxEdits,    \* bound: hand edits of the log
          MaxOrders    \* bound: orders

ASSUME GatesAssumption ==
  /\ InAuto \in BOOLEAN
  /\ {MaxRuns, MaxVersion, MaxEdits, MaxOrders} \subseteq Nat

VARIABLES clock,     \* runs started
          version,   \* HARNESS_VERSION of the code installed
          jobs,      \* backtests under way
          log,       \* validation_log.jsonl
          approval,  \* the run validated.json names, 0 without
          env,       \* POLYMARKET_LIVE_TRADING is "true" in the unit's environment
          proc,      \* the live trader
          orders, edits

gatesVars == <<clock, version, jobs, log, approval, env, proc, orders, edits>>

Times    == 0..MaxRuns
Versions == 1..MaxVersion
Verdicts == [met : BOOLEAN, clears : BOOLEAN, robust : BOOLEAN, fills : BOOLEAN, long : BOOLEAN]
\* At most one verdict against: each criterion decides alone.
OneShort == {v \in Verdicts : Cardinality({c \in DOMAIN v : ~v[c]}) <= 1}
Down     == [up |-> FALSE, ver |-> 1, env |-> FALSE, validated |-> FALSE, basis |-> 0]

-----------------------------------------------------------------------------
(* run_backtest.main: the clock and the code are read at the start, the     *)
(* record is appended at the end.                                           *)

WindowEnd(wanted) == IF wanted < clock + 1 THEN wanted ELSE clock + 1

RunStarts(pair, native, wanted) ==
  /\ clock < MaxRuns
  /\ clock' = clock + 1
  /\ jobs' = jobs \cup {[run |-> clock + 1, pair |-> pair, native |-> native, ver |-> version,
                         end |-> WindowEnd(wanted)]}
  /\ UNCHANGED <<version, log, approval, env, proc, orders, edits>>

\* Only native data can meet the bar (dataset_meets_bar).
Possible(j, v) == v.met => j.native

\* evaluate_run.
Passed(j, v) == v.clears /\ j.native /\ v.met /\ v.fills /\ v.long /\ v.robust

RunEnds(j, v) ==
  /\ j \in jobs /\ Possible(j, v)
  /\ jobs' = jobs \ {j}
  /\ log' = log \cup {[job |-> j, verdict |-> v, passed |-> Passed(j, v), edited |-> FALSE]}
  /\ UNCHANGED <<clock, version, approval, env, proc, orders, edits>>

RunDies(j) ==
  /\ j \in jobs /\ jobs' = jobs \ {j}
  /\ UNCHANGED <<clock, version, log, approval, env, proc, orders, edits>>

-----------------------------------------------------------------------------
(* load_validated, by a process whose HARNESS_VERSION is ver.               *)

\* Bug: a result of other trading rules passes too.
BugAnyVersion(r, ver) ==
  r.passed /\ r.job.native /\ r.verdict.met /\ r.verdict.robust /\ r.verdict.fills

\* Bug: the robustness verdict is not looked at again.
BugTrustsFlag(r, ver) ==
  r.passed /\ r.job.ver = ver /\ r.job.native /\ r.verdict.met /\ r.verdict.fills

\* _record_passes: the flag, and what can be derived again from the record.
RecordPasses(r, ver) ==
  /\ r.passed
  /\ r.job.ver = ver
  /\ r.job.native /\ r.verdict.met /\ r.verdict.robust
  /\ r.job.end <= r.job.run
  /\ r.verdict.fills

\* Bug: a failure revokes only when it covers the day of the approved run.
BugRevokesNewer(later, approved, ver) ==
  /\ later.job.pair = approved.job.pair /\ later.job.ver = ver /\ later.job.native
  /\ ~later.passed /\ later.job.end > approved.job.run + 1

\* _revokes: a failure on a later window, of the same pair, under this code.
Revokes(later, approved, ver) ==
  /\ later.job.pair = approved.job.pair /\ later.job.ver = ver /\ later.job.native
  /\ ~later.passed
  /\ later.job.end > approved.job.end

Validated(records, named, ver) ==
  \E a \in records : /\ a.job.run = named /\ RecordPasses(a, ver)
                     /\ \A r \in records : ~Revokes(r, a, ver)

-----------------------------------------------------------------------------
(* The live trader: main() and the executor's constructor ask the gate;     *)
(* os.environ and SIGNAL_VALIDATED are as they were when it started.        *)
Allowed(p) == InAuto /\ p.env /\ p.validated

Started == [up |-> TRUE, ver |-> version, env |-> env, basis |-> approval,
            validated |-> Validated(log, approval, version)]

TraderStarts ==
  /\ ~proc.up /\ Allowed(Started)
  /\ proc' = Started
  /\ UNCHANGED <<clock, version, jobs, log, approval, env, orders, edits>>

TraderEnds ==
  /\ proc.up /\ proc' = Down
  /\ UNCHANGED <<clock, version, jobs, log, approval, env, orders, edits>>

\* LiveExecutor.submit.
Order ==
  /\ proc.up /\ Allowed(proc) /\ orders < MaxOrders
  /\ orders' = orders + 1
  /\ UNCHANGED <<clock, version, jobs, log, approval, env, proc, edits>>

-----------------------------------------------------------------------------
(* The operator.                                                            *)
Approve(run) ==
  /\ approval' = run
  /\ UNCHANGED <<clock, version, jobs, log, env, proc, orders, edits>>

SetEnv ==
  /\ env' = ~env
  /\ UNCHANGED <<clock, version, jobs, log, approval, proc, orders, edits>>

Deploy(v) ==
  /\ version' = v
  /\ UNCHANGED <<clock, jobs, log, approval, env, proc, orders, edits>>

EditFlag(r) ==
  /\ edits < MaxEdits /\ r \in log /\ ~r.passed
  /\ edits' = edits + 1
  /\ log' = (log \ {r}) \cup {[r EXCEPT !.passed = TRUE, !.edited = TRUE]}
  /\ UNCHANGED <<clock, version, jobs, approval, env, proc, orders>>

GatesNext ==
  \/ \E pair \in Pairs, native \in BOOLEAN, wanted \in Times : RunStarts(pair, native, wanted)
  \/ \E j \in jobs : RunDies(j) \/ \E v \in OneShort : RunEnds(j, v)
  \/ TraderStarts \/ TraderEnds \/ Order
  \/ \E run \in Times \ {approval} : Approve(run)
  \/ SetEnv
  \/ \E v \in Versions \ {version} : Deploy(v)
  \/ \E r \in log : EditFlag(r)

GatesInit ==
  /\ clock = 0 /\ version = 1 /\ jobs = {} /\ log = {} /\ approval = 0 /\ env = FALSE
  /\ proc = Down /\ orders = 0 /\ edits = 0

GatesSpec == GatesInit /\ [][GatesNext]_gatesVars

-----------------------------------------------------------------------------
Basis == {r \in log : r.job.run = proc.basis}

(* The rules that trade are the rules that were tested: whatever was        *)
(* deployed during and after the backtest, a live trader runs the harness   *)
(* version of the record it was approved on (base.py _record_passes).       *)
CodeThatTradesWasTested ==
  proc.up => \E r \in Basis : r.job.ver = proc.ver

(* A live trader stands on native data that met the bar, with no fill at an *)
(* hourly open and a robust result, even when a flag was edited by hand;    *)
(* when it was not, on everything evaluate_run asks for.                    *)
EvidenceRederived ==
  proc.up => \E r \in Basis :
    /\ r.job.native /\ r.verdict.met /\ r.verdict.fills /\ r.verdict.robust
    /\ ~r.edited => r.verdict.clears /\ r.verdict.long

(* The monthly re-check works: a native run on all the data there is, made  *)
(* after the approved run, under the code installed, closes the gate to the *)
(* next trader when it fails (spec 8.4; base.py _revokes).                  *)
RecheckCloses ==
  [][~proc.up /\ proc'.up =>
       ~\E a, f \in log : /\ a.job.run = approval /\ f.job.pair = a.job.pair
                          /\ f.job.native /\ f.job.ver = version /\ ~f.passed
                          /\ f.job.run > a.job.run /\ f.job.end = f.job.run]_gatesVars

(* "a lock that closed mid-run (env flipped, approval revoked) stops the    *)
(* next order here" (live_executor.py submit): of the approval.             *)
RevokedApprovalStopsOrders ==
  [][orders' # orders => Validated(log, approval, proc.ver)]_gatesVars
=============================================================================
