------------------------------ MODULE Backfill ------------------------------
(***************************************************************************)
(* The history pulls of one instrument: scripts/backfill.py (the venue's   *)
(* funding and hour candles) and scripts/backfill_hyperliquid.py           *)
(* (Hyperliquid's funding, hour and minute candles), the gap check that    *)
(* ends a native run and the dashboard's count of the same gaps.           *)
(*                                                                         *)
(* Time is counted in slots: a funding rate is stamped t, a candle opens   *)
(* at t and closes at t + 1, whatever its series.  The two scripts write   *)
(* different keys, so runs that overlap change nothing and one runs at a   *)
(* time.  Time may pass between any two requests: that is the pacing       *)
(* (TokenBucket.tla), the 60 s or Retry-After sleeps and slow answers.     *)
(***************************************************************************)
EXTENDS Integers, Sequences, FiniteSets, FiniteSetsExt

CONSTANTS
    Days,         \* slots a run goes back: --days
    Window,       \* slots of one request: 24 hours
    MaxAttempts,  \* _MAX_ATTEMPTS
    MaxGap,       \* max_gap of the gap check
    EndInside,    \* sources that count the end of a window as inside
    Holes,        \* slots the sources have nothing for (a closed market)
    MaxClock,     \* bound: the last slot
    MaxErrors,    \* bound: requests that fail
    MaxDeaths     \* bound: runs that die

ASSUME BackfillAssumption ==
    /\ {Days, Window, MaxAttempts, MaxGap, MaxClock, MaxErrors, MaxDeaths} \subseteq Nat
    /\ Window > 0 /\ MaxAttempts > 0 /\ Days <= MaxClock
    /\ Holes \subseteq 0 .. MaxClock /\ EndInside \subseteq {"native", "proxy"}

VARIABLES
    clock,
    rows,    \* funding_rates and candles
    job,     \* the run in progress
    report,  \* how the last run of each script ended
    page,    \* the dashboard's count of gaps, between its two SELECTs
    errors, deaths

vars == <<clock, rows, job, report, page, errors, deaths>>

Slots == 0 .. MaxClock
Sources == {"native", "proxy"}

(* What a script pulls of a window, in order. *)
Series(source) == IF source = "native" THEN <<"funding", "hour">>
                  ELSE <<"funding", "hour", "minute">>

Idle == [at |-> "idle", source |-> "native", start |-> 0, end |-> 0, from |-> 0, nth |-> 1,
         attempt |-> 1, rest |-> {}, got |-> {}, failed |-> {}]
NoReport == [ok |-> FALSE, start |-> 0, end |-> 0, failed |-> {}]
None == -1
NoPage == [on |-> FALSE, end |-> 0, first |-> None, last |-> None]

---------------------------------------------------------------------------
(* find_gaps over the stamps S of a table: the hole before the first row, the
   holes between rows and the one after the last; one when there is no row. *)
Inner(S, gap) == {p \in S \X S : p[2] - p[1] > gap /\ \A t \in S : t <= p[1] \/ t >= p[2]}

(* BUG: the hole after the last row is not looked at. *)
BugNoTrailing(S, start, end) ==
    IF S = {} THEN {<<start, end>>}
    ELSE {p \in {<<start, Min(S)>>} : p[2] - p[1] > MaxGap} \cup Inner(S, MaxGap)

FindGaps(S, start, end) ==
    IF S = {} THEN {<<start, end>>}
    ELSE {p \in {<<start, Min(S)>>, <<Max(S), end>>} : p[2] - p[1] > MaxGap} \cup Inner(S, MaxGap)

(* Rows of a series in a range, of whichever source: neither query names one. *)
Stamps(series, start, end) ==
    {r.t : r \in {x \in rows : x.series = series /\ start <= x.t /\ x.t <= end}}

---------------------------------------------------------------------------
WindowEnd(j) == IF j.from + Window < j.end THEN j.from + Window ELSE j.end

(* The first request for a series of the job's window. *)
Pull(j) ==
    LET inside == {t \in j.from .. WindowEnd(j) : t < WindowEnd(j) \/ j.source \in EndInside}
    IN  [j EXCEPT !.at = "fetch", !.got = {}, !.rest = inside \ Holes]

Begin(source) ==
    /\ job.at = "idle"
    /\ job' = Pull([Idle EXCEPT !.source = source, !.start = clock - Days, !.end = clock,
                                !.from = clock - Days])
    /\ UNCHANGED <<clock, rows, report, page, errors, deaths>>

(* backfill.py first asks for the instruments, and any error of that request
   ends the run. *)
NoInstruments ==
    /\ job.at = "idle" /\ errors < MaxErrors
    /\ errors' = errors + 1
    /\ report' = [report EXCEPT !["native"] = NoReport]
    /\ UNCHANGED <<clock, rows, job, page, deaths>>

(* BUG: the candle of the running interval is stored as well. *)
BugOpenToo(items, end) == items

(* closed(): the candles that had closed when the run began. *)
Closed(items, end) == {i \in items : i.t + 1 <= end}

Now(j) == Series(j.source)[j.nth]

(* A row of the series being pulled: a candle that is still open is delivered
   as far as it is built. *)
Item(t) == [t |-> t, whole |-> Now(job) = "funding" \/ t + 1 <= clock]

Received(part) ==
    LET items == job.got \cup {Item(t) : t \in part}
        last == job.rest \ part = {}
    IN  [job EXCEPT !.rest = @ \ part,
                    !.at = IF last THEN "store" ELSE "fetch",
                    !.got = IF last /\ Now(job) # "funding" THEN Closed(items, job.end) ELSE items]

(* A native history comes page by page, and an empty one in an empty page. *)
FetchPage ==
    /\ job.at = "fetch" /\ job.source = "native"
    /\ \/ job.rest = {} /\ job' = Received({})
       \/ \E t \in job.rest : (\A k \in job.rest : t <= k) /\ job' = Received({t})
    /\ UNCHANGED <<clock, rows, report, page, errors, deaths>>

(* The proxy's comes in one answer. *)
Info ==
    /\ job.at = "fetch" /\ job.source = "proxy"
    /\ job' = Received(job.rest)
    /\ UNCHANGED <<clock, rows, report, page, errors, deaths>>

(* Where a run goes on: the next series of the window, the next window, or its
   end.  A native window counts its attempts as a whole, the proxy per request. *)
NextWindow(j) ==
    IF WindowEnd(j) < j.end
    THEN Pull([j EXCEPT !.from = WindowEnd(j), !.nth = 1, !.attempt = 1])
    ELSE [j EXCEPT !.at = "end", !.rest = {}, !.got = {}]

NextSeries(j) ==
    IF j.nth < Len(Series(j.source))
    THEN Pull([j EXCEPT !.nth = @ + 1, !.attempt = IF j.source = "native" THEN @ ELSE 1])
    ELSE NextWindow(j)

Known(row) == \E r \in rows : r.source = row.source /\ r.series = row.series /\ r.t = row.t

(* The rows of an answer are inserted in the order of their stamps. *)
First(item) == \A k \in job.got : item.t <= k.t

Row(item) == [source |-> job.source, series |-> Now(job), t |-> item.t, whole |-> item.whole]

(* BUG: a plain INSERT, which raises on a row that is already there. *)
BugPlainInsert(item) ==
    /\ rows' = IF Known(Row(item)) THEN rows ELSE rows \cup {Row(item)}
    /\ job' = IF Known(Row(item)) THEN Idle ELSE [job EXCEPT !.got = @ \ {item}]
    /\ report' = IF Known(Row(item)) THEN [report EXCEPT ![job.source] = NoReport] ELSE report

(* INSERT OR IGNORE, one commit per row. *)
Insert(item) ==
    /\ rows' = IF Known(Row(item)) THEN rows ELSE rows \cup {Row(item)}
    /\ job' = [job EXCEPT !.got = @ \ {item}]
    /\ UNCHANGED report

Store ==
    /\ job.at = "store"
    /\ \E item \in job.got : First(item) /\ Insert(item)
    /\ UNCHANGED <<clock, page, errors, deaths>>

Stored ==
    /\ job.at = "store" /\ job.got = {}
    /\ job' = NextSeries(job)
    /\ UNCHANGED <<clock, rows, report, page, errors, deaths>>

(* BUG: a window that is given up on is not put on the list. *)
BugForgetsWindow(j) == NextWindow(j)

GiveUp(j) == NextWindow([j EXCEPT !.failed = @ \cup {j.from}])

(* How a request fails.  A server error is worth another try to the proxy's
   client only. *)
Failures == {"rate_limit", "transport", "server", "refused"}

TransientErrors(source) ==
    {"rate_limit", "transport"} \cup (IF source = "proxy" THEN {"server"} ELSE {})

(* _fetch_window tries its whole window again. *)
RetryWindow(j) == Pull([j EXCEPT !.attempt = @ + 1, !.nth = 1])

(* with_retries tries the one request again. *)
WithRetries(j) == Pull([j EXCEPT !.attempt = @ + 1])

Transient(failure) ==
    /\ job.at = "fetch" /\ errors < MaxErrors
    /\ failure \in TransientErrors(job.source)
    /\ errors' = errors + 1
    /\ job' = CASE job.attempt = MaxAttempts -> GiveUp(job)
                [] job.attempt < MaxAttempts /\ job.source = "native" -> RetryWindow(job)
                [] OTHER -> WithRetries(job)
    /\ UNCHANGED <<clock, rows, report, page, deaths>>

(* Any other error ends the run with a failure: the rest of the range is left. *)
Abort(failure) ==
    /\ job.at = "fetch" /\ errors < MaxErrors
    /\ failure \in Failures \ TransientErrors(job.source)
    /\ errors' = errors + 1
    /\ report' = [report EXCEPT ![job.source] = NoReport]
    /\ job' = Idle
    /\ UNCHANGED <<clock, rows, page, deaths>>

Die ==
    /\ job.at # "idle" /\ deaths < MaxDeaths
    /\ deaths' = deaths + 1
    /\ report' = [report EXCEPT ![job.source] = NoReport]
    /\ job' = Idle
    /\ UNCHANGED <<clock, rows, page, errors>>

Ended(succeeded) ==
    /\ report' = [report EXCEPT ![job.source] =
          [ok |-> succeeded, start |-> job.start, end |-> job.end, failed |-> job.failed]]
    /\ job' = Idle
    /\ UNCHANGED <<clock, rows, page, errors, deaths>>

(* backfill.py prints its gaps and fails if a window failed. *)
FinishNative == job.at = "end" /\ job.source = "native" /\ Ended(job.failed = {})

(* backfill_hyperliquid.py prints its failed windows and succeeds. *)
FinishProxy == job.at = "end" /\ job.source = "proxy" /\ Ended(TRUE)

---------------------------------------------------------------------------
(* feed_health: count_gaps reads the range's first and last row in one SELECT
   and its inner holes in a second, and rows may be stored in between. *)
OpenPage ==
    LET S == Stamps("funding", clock - Days, clock)
    IN  /\ ~page.on
        /\ page' = [on |-> TRUE, end |-> clock, first |-> IF S = {} THEN None ELSE Min(S),
                    last |-> IF S = {} THEN None ELSE Max(S)]
        /\ UNCHANGED <<clock, rows, job, report, errors, deaths>>

ClosePage ==
    /\ page.on
    /\ page' = NoPage
    /\ UNCHANGED <<clock, rows, job, report, errors, deaths>>

PageStamps == Stamps("funding", page.end - Days, page.end)

(* BUG: an empty table has no gap. *)
BugEmptyIsFine ==
    Cardinality(Inner(PageStamps, MaxGap))
    + (IF page.first # None /\ page.first - (page.end - Days) > MaxGap THEN 1 ELSE 0)
    + (IF page.first # None /\ page.end - page.last > MaxGap THEN 1 ELSE 0)

(* What the page shows if the second SELECT runs now. *)
CountGaps ==
    IF page.first = None THEN 1
    ELSE Cardinality(Inner(PageStamps, MaxGap))
         + (IF page.first - (page.end - Days) > MaxGap THEN 1 ELSE 0)
         + (IF page.end - page.last > MaxGap THEN 1 ELSE 0)

---------------------------------------------------------------------------
Pass ==
    /\ clock < MaxClock
    /\ clock' = clock + 1
    /\ UNCHANGED <<rows, job, report, page, errors, deaths>>

Init ==
    /\ clock = Days
    /\ rows = {}
    /\ job = Idle
    /\ report = [s \in Sources |-> NoReport]
    /\ page = NoPage
    /\ errors = 0
    /\ deaths = 0

Working == FetchPage \/ Info \/ Store \/ Stored \/ FinishNative \/ FinishProxy

Next ==
    \/ \E s \in Sources : Begin(s)
    \/ NoInstruments
    \/ Working
    \/ \E failure \in Failures : Transient(failure) \/ Abort(failure)
    \/ Die
    \/ OpenPage
    \/ ClosePage
    \/ Pass

Spec == Init /\ [][Next]_vars

(* polyperps-backfill.timer and polyperps-hl-backfill.timer start both scripts
   again and again, and a run whose requests are answered goes on. *)
FairSpec ==
    /\ Spec
    /\ WF_vars(Working)
    /\ \A s \in Sources : SF_vars(Begin(s))

---------------------------------------------------------------------------
Has(source, series, t) ==
    \E r \in rows : r.source = source /\ r.series = series /\ r.t = t /\ r.whole

(* What a source had of a range for good when the range's end was now. *)
Final(start, end) == (start .. end - 1) \ Holes

(* intervals.py:36: however runs are retried, killed and repeated, no candle is
   ever stored half-built, where INSERT OR IGNORE would keep it for ever. *)
StoredWhole == \A r \in rows : r.whole

(* A run that succeeds has every series of every slot of its range but for the
   windows it lists; a native run that lists one fails (backfill.py:12-17). *)
RunAccounted ==
    \A s \in Sources :
        LET listed == {t \in Slots : \E f \in report[s].failed : f <= t /\ t < f + Window}
        IN  report[s].ok =>
              /\ s = "native" => report[s].failed = {}
              /\ \A t \in Final(report[s].start, report[s].end) \ listed, n \in DOMAIN Series(s) :
                    Has(s, Series(s)[n], t)

(* The gap check that ends a run is exact: every stretch longer than MaxGap
   without a row lies in a gap it prints, and each gap it prints is one
   (gaps.py:20). *)
GapsTrue ==
    job.at = "end" /\ job.source = "native" =>
        LET S == Stamps("hour", job.start, job.end)
            gaps == FindGaps(S, job.start, job.end)
            silent == {x \in job.start .. job.end - MaxGap - 1 : S \cap (x + 1 .. x + MaxGap) = {}}
        IN  /\ \A x \in silent : \E g \in gaps : g[1] <= x /\ x + MaxGap + 1 <= g[2]
            /\ \A g \in gaps : S \cap (g[1] + 1 .. g[2] - 1) = {} /\ (g[1] \in silent \/ S = {})

(* A page that counts no gap was right when it was shown, whatever was stored
   between its two SELECTs (state.py:234). *)
PageTrue ==
    page.on /\ CountGaps = 0 => FindGaps(PageStamps, page.end - Days, page.end) = {}

(* "--days 3 overlaps, so one missed day loses nothing"
   (polyperps-hl-backfill.timer:2): once requests are answered again, what
   failed and killed runs left out of the last Days slots is filled in. *)
Heals ==
    <>[](\A s \in Sources : \A t \in Final(clock - Days, clock), n \in DOMAIN Series(s) :
            Has(s, Series(s)[n], t))
=============================================================================
