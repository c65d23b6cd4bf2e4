--------------------------- MODULE BackfillProofs ---------------------------
(***************************************************************************)
(* The history pulls for any range, window, number of attempts, errors and *)
(* deaths: nothing half-built is stored, a run that succeeds has its range *)
(* but for the windows it lists, and the gaps it prints are exactly those  *)
(* there are.                                                              *)
(*                                                                         *)
(* The second is about what happened long before the run ends, so the      *)
(* invariant follows a run: behind its window every slot is stored or      *)
(* listed (Ready), in its window the series before the present one are     *)
(* stored (Ready) and the present one is stored, in hand or still to be    *)
(* asked for (InHand).  That an insert which is ignored loses nothing      *)
(* rests on the first result: the row in its way is whole.                 *)
(*                                                                         *)
(* The gap check is a statement about any set of stamps (SilenceIsReported *)
(* and GapIsSilent); the page's count needs one fact more about the steps, *)
(* that no row is ever deleted (PageInv).                                  *)
(***************************************************************************)
EXTENDS Backfill, FiniteSetTheorems, WellFoundedInduction, TLAPS

Ats   == {"idle", "fetch", "store", "end"}
Items == [t : Int, whole : BOOLEAN]
Jobs  == [at : Ats, source : Sources, start : Int, end : Int, from : Int, nth : Int,
          attempt : Int, rest : SUBSET Int, got : SUBSET Items, failed : SUBSET Int]
Reports == [ok : BOOLEAN, start : Int, end : Int, failed : SUBSET Int]

Listed(failed, t) == \E f \in failed : f <= t /\ t < f + Window
HasAll(s, t)      == \A n \in DOMAIN Series(s) : Has(s, Series(s)[n], t)
Settled(j, t)     == HasAll(j.source, t) \/ Listed(j.failed, t)
InWindow(j, t)    == j.from <= t /\ t < WindowEnd(j)

\* The run is within the time there has been.
InTime(j) == 0 <= j.start /\ j.end <= clock /\ 1 <= j.nth /\ j.nth <= Len(Series(j.source))

\* What lies behind the request for the present series of the present window.
Ready(j) ==
    /\ InTime(j)
    /\ \A t \in Final(j.start, j.end) :
          /\ t < j.from => Settled(j, t)
          /\ InWindow(j, t) => \A n \in 1 .. j.nth - 1 : Has(j.source, Series(j.source)[n], t)

\* A row in hand is whole, or an open candle that closed() will drop.
Honest(j) ==
    /\ j.at = "fetch" => \A i \in j.got : i.whole \/ (Now(j) # "funding" /\ i.t + 1 > j.end)
    /\ j.at = "store" => \A i \in j.got : i.whole

InHand(j) ==
    \A t \in Final(j.start, j.end) : InWindow(j, t) =>
        /\ j.at = "fetch" => t \in j.rest \/ \E i \in j.got : i.t = t
        /\ j.at = "store" => (\E i \in j.got : i.t = t) \/ Has(j.source, Now(j), t)

Through(j) == InTime(j) /\ \A t \in Final(j.start, j.end) : Settled(j, t)

JobOK(j) ==
    /\ j \in Jobs
    /\ j.at \in {"fetch", "store"} => Ready(j) /\ Honest(j) /\ InHand(j)
    /\ j.at = "end" => Through(j)

ReportOK(s, p) ==
    p.ok => /\ 0 <= p.start /\ p.end <= MaxClock
            /\ s = "native" => p.failed = {}
            /\ \A t \in Final(p.start, p.end) : HasAll(s, t) \/ Listed(p.failed, t)

BackfillInv ==
    /\ clock \in Nat /\ Days <= clock /\ clock <= MaxClock
    /\ StoredWhole
    /\ JobOK(job)
    /\ report \in [Sources -> Reports] /\ \A s \in Sources : ReportOK(s, report[s])

USE BackfillAssumption

---------------------------------------------------------------------------
LEMMA SeriesFacts ==
    ASSUME NEW s \in Sources
    PROVE  /\ Len(Series(s)) \in {2, 3}
           /\ DOMAIN Series(s) = 1 .. Len(Series(s))
           /\ 1 <= Len(Series(s))
<1>1. CASE s = "native"
  <2>1. Series(s) = <<"funding", "hour">>
    BY <1>1 DEF Series
  <2> QED
    BY <2>1
<1>2. CASE s = "proxy"
  <2>1. Series(s) = <<"funding", "hour", "minute">>
    BY <1>2 DEF Series
  <2> QED
    BY <2>1
<1> QED
  BY <1>1, <1>2 DEF Sources

LEMMA FinalFacts ==
    ASSUME NEW a \in Int, NEW b \in Int, NEW t \in Final(a, b)
    PROVE  t \in Int /\ a <= t /\ t < b /\ t \notin Holes
BY DEF Final

LEMMA WindowEndFacts ==
    ASSUME NEW j \in Jobs
    PROVE  /\ WindowEnd(j) \in Int
           /\ WindowEnd(j) <= j.end /\ WindowEnd(j) <= j.from + Window
BY DEF WindowEnd, Jobs

LEMMA PullFacts ==
    ASSUME NEW j \in Jobs
    PROVE  /\ Pull(j) \in Jobs
           /\ Pull(j).at = "fetch" /\ Pull(j).got = {}
           /\ Pull(j).source = j.source /\ Pull(j).start = j.start /\ Pull(j).end = j.end
           /\ Pull(j).from = j.from /\ Pull(j).nth = j.nth /\ Pull(j).failed = j.failed
           /\ \A t \in Int : j.from <= t /\ t < WindowEnd(j) /\ t \notin Holes => t \in Pull(j).rest
<1> DEFINE rest == {t \in j.from .. WindowEnd(j) : t < WindowEnd(j) \/ j.source \in EndInside} \ Holes
           k == [j EXCEPT !.at = "fetch", !.got = {}, !.rest = rest]
<1>1. WindowEnd(j) \in Int /\ j.from \in Int
  BY WindowEndFacts DEF Jobs
<1>2. rest \subseteq Int
  BY <1>1
<1>3. \A t \in Int : j.from <= t /\ t < WindowEnd(j) /\ t \notin Holes => t \in rest
  BY <1>1
<1>4. Pull(j) = k
  BY DEF Pull
<1> HIDE DEF rest
<1>5. k \in Jobs /\ k.at = "fetch" /\ k.got = {} /\ k.rest = rest
  BY <1>2 DEF Jobs, Ats
<1>6. /\ k.source = j.source /\ k.start = j.start /\ k.end = j.end
      /\ k.from = j.from /\ k.nth = j.nth /\ k.failed = j.failed
  BY DEF Jobs
<1> HIDE DEF k
<1> QED
  BY <1>3, <1>4, <1>5, <1>6

\* Asking for a series from its beginning leaves nothing out.
LEMMA PullOK == ASSUME NEW j \in Jobs, Ready(j) PROVE JobOK(Pull(j))
<1> DEFINE k == Pull(j)
<1>1. /\ k \in Jobs /\ k.at = "fetch" /\ k.got = {}
      /\ k.source = j.source /\ k.start = j.start /\ k.end = j.end
      /\ k.from = j.from /\ k.nth = j.nth /\ k.failed = j.failed
      /\ \A t \in Int : j.from <= t /\ t < WindowEnd(j) /\ t \notin Holes => t \in k.rest
  BY PullFacts
<1> HIDE DEF k
<1>2. WindowEnd(k) = WindowEnd(j)
  BY <1>1 DEF WindowEnd
<1>3. Ready(k)
  BY <1>1, <1>2 DEF Ready, InTime, Settled, InWindow
<1>4. Honest(k)
  BY <1>1 DEF Honest
<1>5. InHand(k)
  <2> SUFFICES ASSUME NEW t \in Final(k.start, k.end), InWindow(k, t) PROVE t \in k.rest
    BY <1>1 DEF InHand
  <2>1. k.start \in Int /\ k.end \in Int
    BY <1>1 DEF Jobs
  <2> QED
    BY <1>1, <1>2, <2>1, FinalFacts DEF InWindow
<1> QED
  BY <1>1, <1>3, <1>4, <1>5 DEF JobOK, k

LEMMA NextWindowOK ==
    ASSUME NEW j \in Jobs, InTime(j),
           \A t \in Final(j.start, j.end) : t < WindowEnd(j) => Settled(j, t)
    PROVE  JobOK(NextWindow(j))
<1>1. CASE WindowEnd(j) < j.end
  <2> DEFINE k == [j EXCEPT !.from = WindowEnd(j), !.nth = 1, !.attempt = 1]
             w == WindowEnd(j)
             j1 == [j EXCEPT !.from = w]
             j2 == [j1 EXCEPT !.nth = 1]
             j3 == [j2 EXCEPT !.attempt = 1]
  <2>a. w \in Int
    BY WindowEndFacts
  <2>b. NextWindow(j) = Pull([j EXCEPT !.from = w, !.nth = 1, !.attempt = 1])
    BY <1>1 DEF NextWindow
  <2> HIDE DEF w
  <2>c. /\ j1 \in Jobs /\ j1.from = w /\ j1.nth = j.nth
        /\ j1.source = j.source /\ j1.start = j.start /\ j1.end = j.end /\ j1.failed = j.failed
    BY <2>a DEF Jobs
  <2>d. k = j3
    BY DEF Jobs, w
  <2> HIDE DEF j1
  <2>e. /\ j2 \in Jobs /\ j2.from = w /\ j2.nth = 1
        /\ j2.source = j.source /\ j2.start = j.start /\ j2.end = j.end /\ j2.failed = j.failed
    BY <2>c DEF Jobs
  <2> HIDE DEF j2
  <2>f. /\ j3 \in Jobs /\ j3.from = w /\ j3.nth = 1
        /\ j3.source = j.source /\ j3.start = j.start /\ j3.end = j.end /\ j3.failed = j.failed
    BY <2>e DEF Jobs
  <2> HIDE DEF j3, k
  <2>1. /\ k \in Jobs /\ k.from = WindowEnd(j) /\ k.nth = 1
        /\ k.source = j.source /\ k.start = j.start /\ k.end = j.end /\ k.failed = j.failed
    BY <2>d, <2>f DEF w
  <2>2. NextWindow(j) = Pull(k)
    BY <2>b DEF k, w
  <2>g. j.source \in Sources
    BY DEF Jobs
  <2>h. InTime(k)
    <3>1. 1 <= Len(Series(j.source))
      BY <2>g, SeriesFacts
    <3>2. 0 <= j.start /\ j.end <= clock
      BY DEF InTime
    <3> QED
      BY <2>1, <3>1, <3>2 DEF InTime
  <2>3. Ready(k)
    <3>1. \A n \in 1 .. k.nth - 1 : FALSE
      BY <2>1
    <3>2. \A t \in Final(k.start, k.end) : t < k.from => Settled(k, t)
      BY <2>1 DEF Settled
    <3> QED
      BY <2>h, <3>1, <3>2 DEF Ready
  <2> QED
    BY <2>1, <2>2, <2>3, PullOK
<1>2. CASE ~(WindowEnd(j) < j.end)
  <2> DEFINE k == [j EXCEPT !.at = "end", !.rest = {}, !.got = {}]
  <2>1. /\ k \in Jobs /\ k.at = "end" /\ k.nth = j.nth
        /\ k.source = j.source /\ k.start = j.start /\ k.end = j.end /\ k.failed = j.failed
    BY DEF Jobs, Ats
  <2>2. NextWindow(j) = k
    BY <1>2 DEF NextWindow
  <2> HIDE DEF k
  <2>3. j.start \in Int /\ j.end \in Int /\ WindowEnd(j) = j.end
    BY <1>2, WindowEndFacts DEF Jobs
  <2>4. Through(k)
    BY <2>1, <2>3, FinalFacts DEF Through, InTime, Settled
  <2> QED
    BY <2>1, <2>2, <2>4 DEF JobOK
<1> QED
  BY <1>1, <1>2

\* A window that is given up on is listed.
LEMMA GiveUpOK == ASSUME NEW j \in Jobs, Ready(j) PROVE JobOK(GiveUp(j))
<1> DEFINE k == [j EXCEPT !.failed = @ \cup {j.from}]
<1>1. /\ k \in Jobs /\ k.failed = j.failed \cup {j.from} /\ k.from = j.from /\ k.nth = j.nth
      /\ k.source = j.source /\ k.start = j.start /\ k.end = j.end
  BY DEF Jobs
<1>2. GiveUp(j) = NextWindow(k)
  BY DEF GiveUp
<1> HIDE DEF k
<1>3. WindowEnd(k) = WindowEnd(j) /\ InTime(k)
  BY <1>1 DEF WindowEnd, InTime, Ready
<1>4. ASSUME NEW t \in Final(k.start, k.end), t < WindowEnd(k) PROVE Settled(k, t)
  <2>1. j.start \in Int /\ j.end \in Int /\ j.from \in Int
    BY DEF Jobs
  <2>2. t \in Int
    BY <1>1, <2>1, FinalFacts
  <2>3. CASE t < j.from
    BY <1>1, <1>4, <2>3 DEF Ready, Settled, Listed
  <2>4. CASE ~(t < j.from)
    <3>1. j.from <= t /\ t < j.from + Window
      BY <1>3, <1>4, <2>1, <2>2, <2>4, WindowEndFacts
    <3> QED
      BY <1>1, <3>1 DEF Settled, Listed
  <2> QED
    BY <2>3, <2>4
<1> QED
  BY <1>1, <1>2, <1>3, <1>4, NextWindowOK

LEMMA NextSeriesOK ==
    ASSUME NEW j \in Jobs, JobOK(j), j.at = "store", j.got = {}
    PROVE  JobOK(NextSeries(j))
<1>1. Ready(j) /\ InHand(j)
  BY DEF JobOK
<1>2. \A t \in Final(j.start, j.end) : InWindow(j, t) => Has(j.source, Now(j), t)
  BY <1>1 DEF InHand
<1>3. j.nth \in Int /\ 1 <= j.nth /\ j.nth <= Len(Series(j.source)) /\ j.source \in Sources
  BY <1>1 DEF Ready, InTime, Jobs
<1>4. \A t \in Final(j.start, j.end) :
         InWindow(j, t) => \A n \in 1 .. j.nth : Has(j.source, Series(j.source)[n], t)
  <2> SUFFICES ASSUME NEW t \in Final(j.start, j.end), InWindow(j, t), NEW n \in 1 .. j.nth
               PROVE  Has(j.source, Series(j.source)[n], t)
    OBVIOUS
  <2>1. CASE n = j.nth
    BY <1>2, <2>1 DEF Now
  <2>2. CASE n # j.nth
    <3>1. n \in 1 .. j.nth - 1
      BY <1>3, <2>2
    <3> QED
      BY <1>1, <3>1 DEF Ready
  <2> QED
    BY <2>1, <2>2
<1>5. CASE j.nth < Len(Series(j.source))
  <2> DEFINE a == IF j.source = "native" THEN j.attempt ELSE 1
             k == [j EXCEPT !.nth = @ + 1, !.attempt = a]
             j1 == [j EXCEPT !.nth = @ + 1]
             j2 == [j1 EXCEPT !.attempt = a]
  <2>0. a \in Int
    BY DEF Jobs
  <2>1. NextSeries(j) = Pull(k)
    BY <1>5 DEF NextSeries
  <2> HIDE DEF a
  <2>a. /\ j1 \in Jobs /\ j1.nth = j.nth + 1 /\ j1.from = j.from
        /\ j1.source = j.source /\ j1.start = j.start /\ j1.end = j.end /\ j1.failed = j.failed
    BY DEF Jobs
  <2>b. k = j2
    BY DEF Jobs
  <2> HIDE DEF j1
  <2>c. /\ j2 \in Jobs /\ j2.nth = j.nth + 1 /\ j2.from = j.from
        /\ j2.source = j.source /\ j2.start = j.start /\ j2.end = j.end /\ j2.failed = j.failed
    BY <2>0, <2>a DEF Jobs
  <2> HIDE DEF j2, k
  <2>2. /\ k \in Jobs /\ k.nth = j.nth + 1 /\ k.from = j.from
        /\ k.source = j.source /\ k.start = j.start /\ k.end = j.end /\ k.failed = j.failed
    BY <2>b, <2>c
  <2>3. WindowEnd(k) = WindowEnd(j)
    BY <2>2 DEF WindowEnd
  <2>4. InTime(k)
    BY <1>1, <1>3, <1>5, <2>2, SeriesFacts DEF Ready, InTime
  <2>5. k.nth - 1 = j.nth
    BY <1>3, <2>2
  <2>6. Ready(k)
    BY <1>1, <1>4, <2>2, <2>3, <2>4, <2>5 DEF Ready, Settled, InWindow
  <2> QED
    BY <2>1, <2>2, <2>6, PullOK
<1>6. CASE ~(j.nth < Len(Series(j.source)))
  <2>1. DOMAIN Series(j.source) = 1 .. j.nth
    BY <1>3, <1>6, SeriesFacts
  <2>2. ASSUME NEW t \in Final(j.start, j.end), t < WindowEnd(j) PROVE Settled(j, t)
    <3>1. t \in Int /\ j.from \in Int
      BY FinalFacts DEF Jobs
    <3>2. CASE t < j.from
      BY <1>1, <3>2 DEF Ready
    <3>3. CASE ~(t < j.from)
      <4>1. InWindow(j, t)
        BY <2>2, <3>1, <3>3 DEF InWindow
      <4> QED
        BY <1>4, <2>1, <4>1 DEF Settled, HasAll
    <3> QED
      BY <3>2, <3>3
  <2>3. NextSeries(j) = NextWindow(j) /\ InTime(j)
    BY <1>1, <1>6 DEF NextSeries, Ready
  <2> QED
    BY <2>2, <2>3, NextWindowOK
<1> QED
  BY <1>5, <1>6

---------------------------------------------------------------------------
LEMMA AgainOK ==
    ASSUME NEW j \in Jobs, Ready(j)
    PROVE  JobOK(RetryWindow(j)) /\ JobOK(WithRetries(j))
<1> DEFINE a == [j EXCEPT !.attempt = @ + 1]
           b == [a EXCEPT !.nth = 1]
<1>1. /\ a \in Jobs /\ a.nth = j.nth /\ a.from = j.from
      /\ a.source = j.source /\ a.start = j.start /\ a.end = j.end /\ a.failed = j.failed
  BY DEF Jobs
<1>2. WithRetries(j) = Pull(a) /\ RetryWindow(j) = Pull(b)
  BY DEF WithRetries, RetryWindow, Jobs
<1> HIDE DEF a
<1>3. /\ b \in Jobs /\ b.nth = 1 /\ b.from = j.from
      /\ b.source = j.source /\ b.start = j.start /\ b.end = j.end /\ b.failed = j.failed
  BY <1>1 DEF Jobs
<1> HIDE DEF b
<1>4. WindowEnd(a) = WindowEnd(j) /\ WindowEnd(b) = WindowEnd(j)
  BY <1>1, <1>3 DEF WindowEnd
<1>5. Ready(a)
  BY <1>1, <1>4 DEF Ready, InTime, Settled, InWindow
<1>6. Ready(b)
  <2>1. j.nth \in Int /\ 1 <= j.nth /\ j.nth <= Len(Series(j.source)) /\ j.source \in Sources
    BY DEF Ready, InTime, Jobs
  <2>3. 1 <= Len(Series(j.source))
    BY <2>1, SeriesFacts
  <2>4. InTime(b)
    BY <1>3, <2>3 DEF Ready, InTime
  <2>5. \A n \in 1 .. b.nth - 1 : FALSE
    BY <1>3
  <2>6. \A t \in Final(b.start, b.end) : t < b.from => Settled(b, t)
    BY <1>3 DEF Ready, Settled
  <2> QED
    BY <2>4, <2>5, <2>6 DEF Ready
<1> QED
  BY <1>1, <1>2, <1>3, <1>5, <1>6, PullOK

\* A page or an answer: what was asked for is in hand or still to come, and
\* what closed() drops had not closed when the run began.
LEMMA ReceivedOK ==
    ASSUME clock \in Nat, JobOK(job), job.at = "fetch", NEW part \in SUBSET job.rest
    PROVE  JobOK(Received(part))
<1> DEFINE items == job.got \cup {Item(t) : t \in part}
           last == job.rest \ part = {}
           at == IF last THEN "store" ELSE "fetch"
           got == IF last /\ Now(job) # "funding" THEN Closed(items, job.end) ELSE items
           rest == job.rest \ part
           a == [job EXCEPT !.rest = rest]
           b == [a EXCEPT !.at = at]
           k == [b EXCEPT !.got = got]
<1>1. job \in Jobs /\ Ready(job) /\ Honest(job) /\ InHand(job)
  BY DEF JobOK
<1>2. Received(part) = k
  BY <1>1 DEF Received, Jobs
<1>3. job.got \subseteq Items /\ job.rest \subseteq Int /\ job.end \in Int /\ job.start \in Int
  BY <1>1 DEF Jobs
<1>4. \A t \in part : Item(t) \in Items /\ Item(t).t = t
  BY <1>3 DEF Item, Items
<1>5. items \subseteq Items
  BY <1>3, <1>4
<1>6. got \subseteq items
  BY DEF Closed
<1>7. rest \subseteq Int
  BY <1>3
<1>8. \A i \in items : i.whole \/ (Now(job) # "funding" /\ i.t + 1 > job.end)
  <2> SUFFICES ASSUME NEW i \in items PROVE i.whole \/ (Now(job) # "funding" /\ i.t + 1 > job.end)
    OBVIOUS
  <2>1. CASE i \in job.got
    BY <1>1, <2>1 DEF Honest
  <2>2. CASE i \notin job.got
    <3>1. PICK t \in part : i = Item(t)
      BY <2>2
    <3>2. i.t = t /\ i.whole = (Now(job) = "funding" \/ t + 1 <= clock) /\ t \in Int
      BY <1>3, <3>1 DEF Item
    <3>3. job.end <= clock
      BY <1>1 DEF Ready, InTime
    <3>4. CASE Now(job) = "funding" \/ t + 1 <= clock
      BY <3>2, <3>4
    <3>5. CASE ~(Now(job) = "funding" \/ t + 1 <= clock)
      <4>1. t + 1 > job.end
        BY <1>3, <3>2, <3>3, <3>5
      <4> QED
        BY <3>2, <3>5, <4>1
    <3> QED
      BY <3>4, <3>5
  <2> QED
    BY <2>1, <2>2
<1>9. ASSUME NEW t \in Final(job.start, job.end), InWindow(job, t)
      PROVE  t \in rest \/ \E i \in items : i.t = t
  <2>1. t \in job.rest \/ \E i \in job.got : i.t = t
    BY <1>1, <1>9 DEF InHand
  <2> QED
    BY <1>4, <2>1
<1>10. ASSUME last PROVE \A i \in got : i.whole
  <2>1. CASE Now(job) = "funding"
    BY <1>8, <2>1
  <2>2. CASE Now(job) # "funding"
    <3>1. got = {i \in items : i.t + 1 <= job.end}
      BY <1>10, <2>2 DEF Closed
    <3>2. \A i \in items : i.t \in Int
      BY <1>5 DEF Items
    <3> QED
      BY <1>3, <1>8, <3>1, <3>2
  <2> QED
    BY <2>1, <2>2
<1>11. ASSUME last, NEW t \in Final(job.start, job.end), InWindow(job, t)
       PROVE  \E i \in got : i.t = t
  <2>1. PICK i \in items : i.t = t
    BY <1>9, <1>11
  <2>2. t \in Int /\ t < job.end
    BY <1>3, FinalFacts
  <2>3. i.t + 1 <= job.end
    BY <1>3, <2>1, <2>2
  <2>4. i \in got
    BY <1>11, <2>1, <2>3 DEF Closed
  <2> QED
    BY <2>1, <2>4
<1>12. at \in Ats /\ (at = "store" <=> last) /\ (at = "fetch" <=> ~last) /\ at # "end"
  BY DEF Ats
<1>13. ~last => got = items
  OBVIOUS
<1>14. got \subseteq Items
  BY <1>5, <1>6
<1> HIDE DEF items, last, at, got, rest
<1>15. /\ a \in Jobs /\ a.rest = rest /\ a.nth = job.nth /\ a.from = job.from
       /\ a.source = job.source /\ a.start = job.start /\ a.end = job.end /\ a.failed = job.failed
  BY <1>1, <1>7 DEF Jobs
<1> HIDE DEF a
<1>16. /\ b \in Jobs /\ b.at = at /\ b.rest = rest /\ b.nth = job.nth /\ b.from = job.from
       /\ b.source = job.source /\ b.start = job.start /\ b.end = job.end /\ b.failed = job.failed
  BY <1>12, <1>15 DEF Jobs
<1> HIDE DEF b
<1>17. /\ k \in Jobs /\ k.got = got /\ k.at = at /\ k.rest = rest /\ k.nth = job.nth
       /\ k.from = job.from /\ k.source = job.source /\ k.start = job.start /\ k.end = job.end
       /\ k.failed = job.failed
  BY <1>14, <1>16 DEF Jobs
<1> HIDE DEF k
<1>18. WindowEnd(k) = WindowEnd(job) /\ Now(k) = Now(job)
  BY <1>17 DEF WindowEnd, Now
<1>19. Ready(k)
  BY <1>1, <1>17, <1>18 DEF Ready, InTime, Settled, InWindow
<1>20. Honest(k)
  <2>1. k.at = "fetch" => \A i \in k.got : i.whole \/ (Now(k) # "funding" /\ i.t + 1 > k.end)
    BY <1>8, <1>12, <1>13, <1>17, <1>18
  <2>2. k.at = "store" => \A i \in k.got : i.whole
    BY <1>10, <1>12, <1>17
  <2> QED
    BY <2>1, <2>2 DEF Honest
<1>21. InHand(k)
  <2> SUFFICES ASSUME NEW t \in Final(job.start, job.end), InWindow(job, t)
               PROVE  /\ k.at = "fetch" => t \in k.rest \/ \E i \in k.got : i.t = t
                      /\ k.at = "store" => \E i \in k.got : i.t = t
    BY <1>17, <1>18 DEF InHand, InWindow
  <2>1. k.at = "fetch" => t \in k.rest \/ \E i \in k.got : i.t = t
    BY <1>9, <1>12, <1>13, <1>17
  <2>2. k.at = "store" => \E i \in k.got : i.t = t
    BY <1>11, <1>12, <1>17
  <2> QED
    BY <2>1, <2>2
<1> QED
  BY <1>2, <1>12, <1>17, <1>19, <1>20, <1>21 DEF JobOK

---------------------------------------------------------------------------
\* A run stays accounted for while rows are added and time passes.
LEMMA PartsCarried ==
    ASSUME NEW d \in Jobs, clock \in Nat, clock' \in Nat, clock <= clock',
           rows \subseteq rows', job' = d
    PROVE  /\ Ready(d) => Ready(job)'
           /\ Honest(d) => Honest(job)'
           /\ InHand(d) => InHand(job)'
           /\ Through(d) => Through(job)'
<1>1. ASSUME NEW s, NEW r, NEW t, Has(s, r, t) PROVE Has(s, r, t)'
  BY <1>1 DEF Has
<1>2. ASSUME NEW s, NEW t, HasAll(s, t) PROVE HasAll(s, t)'
  BY <1>1, <1>2 DEF HasAll, Series
<1>3. ASSUME NEW t, Settled(d, t) PROVE Settled(job, t)'
  BY <1>2, <1>3 DEF Settled, Listed
<1>4. InTime(d) => InTime(job)'
  <2>1. d.end \in Int
    BY DEF Jobs
  <2> QED
    BY <2>1 DEF InTime, Series
<1>5. ASSUME NEW t PROVE InWindow(job, t)' <=> InWindow(d, t)
  BY DEF InWindow, WindowEnd
<1>6. Ready(d) => Ready(job)'
  BY <1>1, <1>3, <1>4, <1>5 DEF Ready, Final, Series
<1>7. Honest(d) => Honest(job)'
  BY DEF Honest, Now, Series
<1>8. InHand(d) => InHand(job)'
  BY <1>1, <1>5 DEF InHand, Now, Final, Series
<1>9. Through(d) => Through(job)'
  BY <1>3, <1>4 DEF Through, Final
<1> QED
  BY <1>6, <1>7, <1>8, <1>9

LEMMA Carried ==
    ASSUME NEW d \in Jobs, JobOK(d), clock \in Nat, clock' \in Nat, clock <= clock',
           rows \subseteq rows', job' = d
    PROVE  JobOK(job)'
BY PartsCarried DEF JobOK, Jobs, Items, Ats, Sources

LEMMA ReportsCarried ==
    ASSUME rows \subseteq rows', NEW s \in Sources, ReportOK(s, report[s]), report'[s] = report[s]
    PROVE  ReportOK(s, report[s])'
<1>1. ASSUME NEW r, NEW t, Has(s, r, t) PROVE Has(s, r, t)'
  BY <1>1 DEF Has
<1>2. ASSUME NEW t, HasAll(s, t) PROVE HasAll(s, t)'
  BY <1>1, <1>2 DEF HasAll, Series
<1> QED
  BY <1>2 DEF ReportOK, Final, Listed

LEMMA NoReportOK == ASSUME NEW s \in Sources PROVE NoReport \in Reports /\ ReportOK(s, NoReport)
BY DEF NoReport, Reports, ReportOK

LEMMA IdleOK == Idle \in Jobs /\ JobOK(Idle)
BY DEF Idle, Jobs, Ats, Sources, JobOK

\* Steps that leave the rows, the reports and the clock alone.
LEMMA JobStep ==
    ASSUME BackfillInv, NEW d \in Jobs, JobOK(d), job' = d, UNCHANGED <<clock, rows, report>>
    PROVE  BackfillInv'
<1>1. JobOK(job)'
  <2>1. clock \in Nat /\ clock' = clock /\ rows' = rows
    BY DEF BackfillInv
  <2>2. clock' \in Nat /\ clock <= clock' /\ rows \subseteq rows'
    BY <2>1
  <2> QED
    BY <2>1, <2>2, Carried
<1>2. \A s \in Sources : ReportOK(s, report[s])'
  BY ReportsCarried DEF BackfillInv
<1>3. StoredWhole'
  BY DEF BackfillInv, StoredWhole
<1> QED
  BY <1>1, <1>2, <1>3 DEF BackfillInv

\* A row that is ignored is in the table already, and whole.
LEMMA InsertKeeps ==
    ASSUME BackfillInv, job.at = "store", UNCHANGED clock, NEW item \in job.got, Insert(item)
    PROVE  BackfillInv'
<1> DEFINE got == job.got \ {item}
           k == [job EXCEPT !.got = got]
<1>1. /\ clock \in Nat /\ StoredWhole /\ JobOK(job) /\ job \in Jobs
      /\ Ready(job) /\ Honest(job) /\ InHand(job)
  BY DEF BackfillInv, JobOK
<1>2. item \in Items /\ item.whole = TRUE
  BY <1>1 DEF Honest, Jobs, Items
<1>3. rows \subseteq rows' /\ job' = k /\ UNCHANGED report
  BY <1>1 DEF Insert, Jobs
<1>4. StoredWhole'
  BY <1>1, <1>2 DEF Insert, Row, StoredWhole
<1>5. Has(job.source, Now(job), item.t)'
  <2> DEFINE row == Row(item)
  <2>1. /\ row.source = job.source /\ row.series = Now(job) /\ row.t = item.t
        /\ row.whole = item.whole
    BY DEF Row
  <2>2. rows' = IF Known(row) THEN rows ELSE rows \cup {row}
    BY DEF Insert
  <2> HIDE DEF row
  <2>3. PICK s, n : s = job.source /\ n = Now(job)
    OBVIOUS
  <2>4. \E r \in rows' : r.source = s /\ r.series = n /\ r.t = item.t /\ r.whole
    <3>1. CASE Known(row)
      BY <1>1, <2>1, <2>2, <2>3, <3>1 DEF Known, StoredWhole
    <3>2. CASE ~Known(row)
      BY <1>2, <2>1, <2>2, <2>3, <3>2
    <3> QED
      BY <3>1, <3>2
  <2>5. job'.source = s /\ job'.nth = job.nth
    BY <1>1, <1>3, <2>3 DEF Jobs
  <2>6. Now(job)' = n
    BY <2>3, <2>5 DEF Now, Series
  <2> QED
    BY <2>4, <2>5, <2>6 DEF Has
<1> HIDE DEF got
<1>6. /\ k.at = "store" /\ k.got = got /\ k.rest = job.rest /\ k.nth = job.nth
      /\ k.from = job.from /\ k.source = job.source /\ k.start = job.start /\ k.end = job.end
      /\ k.failed = job.failed
  BY <1>1 DEF Jobs
<1>7. k \in Jobs
  BY <1>1 DEF Jobs, got
<1> HIDE DEF k
<1>8. WindowEnd(k) = WindowEnd(job) /\ Now(k) = Now(job)
  BY <1>6 DEF WindowEnd, Now
<1>9. Ready(job)' /\ Honest(job)'
  <2>1. Ready(k)
    BY <1>1, <1>6, <1>8 DEF Ready, InTime, Settled, InWindow
  <2>2. Honest(k)
    BY <1>1, <1>6 DEF Honest, got
  <2>3. clock' \in Nat /\ clock <= clock'
    BY <1>1
  <2> QED
    BY <1>1, <1>3, <1>7, <2>1, <2>2, <2>3, PartsCarried
<1>10. InHand(job)'
  <2>1. /\ job'.at = "store" /\ job'.got = got /\ Now(job)' = Now(job)
        /\ job'.source = job.source /\ job'.start = job.start /\ job'.end = job.end
    BY <1>3, <1>6, <1>8 DEF Now, Series
  <2>2. \A t : InWindow(job, t)' <=> InWindow(job, t)
    BY <1>3, <1>6, <1>8 DEF InWindow, WindowEnd
  <2>3. ASSUME NEW t \in Final(job.start, job.end), InWindow(job, t)
        PROVE  (\E i \in got : i.t = t) \/ Has(job.source, Now(job), t)'
    <3>1. CASE \E i \in job.got : i.t = t
      BY <1>5, <3>1 DEF got
    <3>2. CASE Has(job.source, Now(job), t)
      BY <1>3, <2>1, <3>2 DEF Has
    <3> QED
      BY <1>1, <2>3, <3>1, <3>2 DEF InHand
  <2> QED
    BY <2>1, <2>2, <2>3 DEF InHand, Final
<1>11. JobOK(job)'
  BY <1>3, <1>6, <1>7, <1>9, <1>10 DEF JobOK, Jobs, Items, Ats, Sources
<1>12. \A s \in Sources : ReportOK(s, report[s])'
  BY <1>3, ReportsCarried DEF BackfillInv
<1> QED
  BY <1>1, <1>3, <1>4, <1>11, <1>12 DEF BackfillInv

\* Steps after which no run is in progress: one report is another.
LEMMA RunOver ==
    ASSUME BackfillInv, NEW s \in Sources, NEW p \in Reports, ReportOK(s, p),
           job' \in {job, Idle}, report' = [report EXCEPT ![s] = p], UNCHANGED <<clock, rows>>
    PROVE  BackfillInv'
<1>1. /\ clock \in Nat /\ clock' = clock /\ clock' \in Nat /\ clock <= clock' /\ rows \subseteq rows'
      /\ job \in Jobs /\ JobOK(job) /\ report \in [Sources -> Reports]
  BY DEF BackfillInv, JobOK
<1>2. JobOK(job)'
  BY <1>1, IdleOK, Carried
<1>3. report' \in [Sources -> Reports]
  BY <1>1
<1>4. ASSUME NEW r \in Sources PROVE ReportOK(r, report[r])'
  <2>1. CASE r = s
    <3>1. report'[r] = p
      BY <1>1, <2>1
    <3> QED
      BY <2>1, <3>1 DEF ReportOK, Final, Listed, HasAll, Has, Series
  <2>2. CASE r # s
    <3>1. report'[r] = report[r]
      BY <1>1, <2>2
    <3> QED
      BY <1>1, <3>1, ReportsCarried DEF BackfillInv
  <2> QED
    BY <2>1, <2>2
<1> QED
  BY <1>1, <1>2, <1>3, <1>4 DEF BackfillInv, StoredWhole

---------------------------------------------------------------------------
LEMMA BeginKeeps == ASSUME BackfillInv, NEW source \in Sources, Begin(source) PROVE BackfillInv'
<1> DEFINE a == [Idle EXCEPT !.source = source]
           b == [a EXCEPT !.start = clock - Days]
           c == [b EXCEPT !.end = clock]
           k == [c EXCEPT !.from = clock - Days]
<1>1. clock \in Int /\ clock - Days \in Int /\ 0 <= clock - Days
  BY DEF BackfillInv
<1>2. job' = Pull(k) /\ UNCHANGED <<clock, rows, report>>
  BY DEF Begin, Idle
<1>3. /\ a \in Jobs /\ a.source = source /\ a.nth = 1 /\ a.failed = {}
  BY DEF Idle, Jobs, Ats, Sources
<1> HIDE DEF a
<1>4. b \in Jobs /\ b.source = source /\ b.nth = 1 /\ b.failed = {} /\ b.start = clock - Days
  BY <1>1, <1>3 DEF Jobs
<1> HIDE DEF b
<1>5. /\ c \in Jobs /\ c.source = source /\ c.nth = 1 /\ c.failed = {} /\ c.start = clock - Days
      /\ c.end = clock
  BY <1>1, <1>4 DEF Jobs
<1> HIDE DEF c
<1>6. /\ k \in Jobs /\ k.source = source /\ k.nth = 1 /\ k.failed = {} /\ k.start = clock - Days
      /\ k.end = clock /\ k.from = clock - Days
  BY <1>1, <1>5 DEF Jobs
<1> HIDE DEF k
<1>7. InTime(k)
  BY <1>1, <1>6, SeriesFacts DEF InTime
<1>8. Ready(k)
  <2>1. \A n \in 1 .. k.nth - 1 : FALSE
    BY <1>6
  <2>2. \A t \in Final(k.start, k.end) : ~(t < k.from)
    BY <1>1, <1>6, FinalFacts
  <2> QED
    BY <1>7, <2>1, <2>2 DEF Ready
<1>9. JobOK(Pull(k)) /\ Pull(k) \in Jobs
  BY <1>6, <1>8, PullOK DEF JobOK
<1> QED
  BY <1>2, <1>9, JobStep

LEMMA FetchKeeps == ASSUME BackfillInv, FetchPage \/ Info PROVE BackfillInv'
<1>1. JobOK(job) /\ clock \in Nat /\ job.at = "fetch" /\ UNCHANGED <<clock, rows, report>>
  BY DEF BackfillInv, FetchPage, Info
<1>2. \E part \in SUBSET job.rest : job' = Received(part)
  BY DEF FetchPage, Info
<1>3. PICK part \in SUBSET job.rest : job' = Received(part)
  BY <1>2
<1>4. JobOK(Received(part)) /\ Received(part) \in Jobs
  BY <1>1, ReceivedOK DEF JobOK
<1> QED
  BY <1>1, <1>3, <1>4, JobStep

LEMMA StoredKeeps == ASSUME BackfillInv, Stored PROVE BackfillInv'
<1>1. /\ JobOK(job) /\ job \in Jobs /\ job.at = "store" /\ job.got = {}
      /\ job' = NextSeries(job) /\ UNCHANGED <<clock, rows, report>>
  BY DEF BackfillInv, Stored, JobOK
<1>2. JobOK(NextSeries(job)) /\ NextSeries(job) \in Jobs
  BY <1>1, NextSeriesOK DEF JobOK
<1> QED
  BY <1>1, <1>2, JobStep

LEMMA TransientKeeps == ASSUME BackfillInv, NEW failure, Transient(failure) PROVE BackfillInv'
<1>1. /\ job \in Jobs /\ Ready(job) /\ UNCHANGED <<clock, rows, report>>
      /\ job' \in {GiveUp(job), RetryWindow(job), WithRetries(job)}
  BY DEF BackfillInv, Transient, JobOK
<1>2. \A d \in {GiveUp(job), RetryWindow(job), WithRetries(job)} : JobOK(d) /\ d \in Jobs
  BY <1>1, GiveUpOK, AgainOK DEF JobOK
<1> QED
  BY <1>1, <1>2, JobStep

LEMMA EndedKeeps ==
    ASSUME BackfillInv, job.at = "end", NEW succeeded \in BOOLEAN, Ended(succeeded),
           succeeded /\ job.source = "native" => job.failed = {}
    PROVE  BackfillInv'
<1> DEFINE p == [ok |-> succeeded, start |-> job.start, end |-> job.end, failed |-> job.failed]
<1>1. job \in Jobs /\ Through(job) /\ clock \in Nat /\ clock <= MaxClock
  BY DEF BackfillInv, JobOK
<1>2. p \in Reports /\ job.source \in Sources
  BY <1>1 DEF Jobs, Reports
<1>3. job.end <= MaxClock /\ 0 <= job.start
  BY <1>1 DEF Through, InTime, Jobs
<1>4. ReportOK(job.source, p)
  BY <1>1, <1>3 DEF ReportOK, Through, Settled
<1>5. report' = [report EXCEPT ![job.source] = p] /\ job' = Idle /\ UNCHANGED <<clock, rows>>
  BY DEF Ended
<1> HIDE DEF p
<1> QED
  BY <1>2, <1>4, <1>5, RunOver

LEMMA NextKeeps == ASSUME BackfillInv, [Next]_vars PROVE BackfillInv'
<1>1. ASSUME NEW s \in Sources, Begin(s) PROVE BackfillInv'
  BY <1>1, BeginKeeps
<1>2. CASE NoInstruments
  <2>1. "native" \in Sources
    BY DEF Sources
  <2> QED
    BY <1>2, <2>1, NoReportOK, RunOver DEF NoInstruments
<1>3. CASE FetchPage \/ Info
  BY <1>3, FetchKeeps
<1>4. CASE Store
  BY <1>4, InsertKeeps DEF Store
<1>5. CASE Stored
  BY <1>5, StoredKeeps
<1>6. CASE FinishNative
  BY <1>6, EndedKeeps DEF FinishNative
<1>7. CASE FinishProxy
  BY <1>7, EndedKeeps DEF FinishProxy
<1>8. ASSUME NEW failure \in Failures, Transient(failure) PROVE BackfillInv'
  BY <1>8, TransientKeeps
<1>9. ASSUME NEW failure \in Failures, Abort(failure) PROVE BackfillInv'
  <2>1. job.source \in Sources
    BY DEF BackfillInv, JobOK, Jobs
  <2> QED
    BY <1>9, <2>1, NoReportOK, RunOver DEF Abort
<1>10. CASE Die
  <2>1. job.source \in Sources
    BY DEF BackfillInv, JobOK, Jobs
  <2> QED
    BY <1>10, <2>1, NoReportOK, RunOver DEF Die
<1>11. CASE OpenPage \/ ClosePage \/ UNCHANGED vars
  <2>1. UNCHANGED <<clock, rows, job, report>>
    BY <1>11 DEF OpenPage, ClosePage, vars
  <2>2. job \in Jobs /\ JobOK(job)
    BY DEF BackfillInv, JobOK
  <2> QED
    BY <2>1, <2>2, JobStep
<1>12. CASE Pass
  <2>1. /\ clock \in Nat /\ clock' = clock + 1 /\ clock < MaxClock /\ Days <= clock
        /\ UNCHANGED <<rows, job, report>>
    BY <1>12 DEF BackfillInv, Pass
  <2>2. clock' \in Nat /\ clock <= clock' /\ clock' <= MaxClock /\ Days <= clock'
    BY <2>1
  <2>3. job \in Jobs /\ JobOK(job)
    BY DEF BackfillInv, JobOK
  <2>4. JobOK(job)'
    BY <2>1, <2>2, <2>3, Carried
  <2>5. \A s \in Sources : ReportOK(s, report[s])'
    BY <2>1, ReportsCarried DEF BackfillInv
  <2> QED
    BY <2>1, <2>2, <2>4, <2>5 DEF BackfillInv, StoredWhole
<1> QED
  BY <1>1, <1>2, <1>3, <1>4, <1>5, <1>6, <1>7, <1>8, <1>9, <1>10, <1>11, <1>12 DEF Next, Working

LEMMA InitHolds == Init => BackfillInv
<1> SUFFICES ASSUME Init PROVE BackfillInv
  OBVIOUS
<1>1. JobOK(job)
  BY IdleOK DEF Init
<1>2. report \in [Sources -> Reports] /\ \A s \in Sources : ReportOK(s, report[s])
  BY NoReportOK DEF Init
<1> QED
  BY <1>1, <1>2 DEF Init, BackfillInv, StoredWhole

LEMMA Accounted == BackfillInv => RunAccounted
<1> SUFFICES ASSUME BackfillInv, NEW s \in Sources, report[s].ok
             PROVE  /\ s = "native" => report[s].failed = {}
                    /\ \A t \in Final(report[s].start, report[s].end) :
                          \/ t \in Slots /\ \E f \in report[s].failed : f <= t /\ t < f + Window
                          \/ \A n \in DOMAIN Series(s) : Has(s, Series(s)[n], t)
  BY DEF RunAccounted
<1>1. ReportOK(s, report[s]) /\ report[s] \in Reports
  BY DEF BackfillInv
<1>2. ASSUME NEW t \in Final(report[s].start, report[s].end) PROVE t \in Slots
  <2>1. report[s].start \in Int /\ report[s].end \in Int
    BY <1>1 DEF Reports
  <2>2. t \in Int /\ report[s].start <= t /\ t < report[s].end
    BY <2>1, FinalFacts
  <2>3. 0 <= report[s].start /\ report[s].end <= MaxClock
    BY <1>1 DEF ReportOK
  <2> QED
    BY <2>1, <2>2, <2>3 DEF Slots
<1> QED
  BY <1>1, <1>2 DEF ReportOK, HasAll, Listed

(* The inductive invariant of the history pulls holds in every behaviour. *)
THEOREM BackfillInvariant == Spec => []BackfillInv
<1>1. BackfillInv /\ [Next]_vars => BackfillInv'
  BY NextKeeps
<1> QED
  BY InitHolds, <1>1, PTL DEF Spec

(* However runs overlap with time, fail and die, no candle is stored before it
   closed (closed(), intervals.py:36). *)
THEOREM NothingHalfBuilt == Spec => []StoredWhole
<1>1. BackfillInv => StoredWhole
  BY DEF BackfillInv
<1> QED
  BY <1>1, BackfillInvariant, PTL

(* For any range, window and number of attempts, what a successful run does not
   list among its failed windows is in the database (backfill.py:53-66). *)
THEOREM SuccessMeansStored == Spec => []RunAccounted
  BY Accounted, BackfillInvariant, PTL
---------------------------------------------------------------------------
(* Gaps.  Min and Max are choices: they mean something because a set of stamps
   is a bounded set of naturals, which has a least and a greatest member. *)

LEMMA Least ==
    ASSUME NEW S \in SUBSET Nat, S # {} PROVE \E m \in S : \A t \in S : m <= t
<1> DEFINE R == OpToRel(<, Nat)
<1>1. IsWellFoundedOn(R, Nat)
  BY NatLessThanWellFounded
<1>2. \A x, y \in Nat : <<y, x>> \notin R => x <= y
  BY DEF OpToRel
<1> HIDE DEF R
<1>3. \E x \in S : \A y \in S : <<y, x>> \notin R
  BY <1>1, WFMin
<1> QED
  BY <1>2, <1>3

LEMMA Greatest ==
    ASSUME NEW b \in Nat, NEW S \in SUBSET (0 .. b), S # {} PROVE \E m \in S : \A t \in S : m >= t
<1> DEFINE D == {b - t : t \in S}
<1>1. D \in SUBSET Nat
  OBVIOUS
<1>2. D # {}
  <2>1. PICK t \in S : TRUE
    OBVIOUS
  <2>2. b - t \in D
    OBVIOUS
  <2> QED
    BY <2>2
<1>3. PICK d \in D : \A e \in D : d <= e
  <2> HIDE DEF D
  <2> QED
    BY <1>1, <1>2, Least
<1>4. PICK m \in S : d = b - m
  OBVIOUS
<1>5. \A t \in S : b - m <= b - t
  BY <1>3, <1>4
<1> QED
  BY <1>5

LEMMA MinFacts ==
    ASSUME NEW S \in SUBSET Nat, S # {} PROVE Min(S) \in S /\ \A t \in S : Min(S) <= t
BY Least DEF Min

LEMMA MaxFacts ==
    ASSUME NEW b \in Nat, NEW S \in SUBSET (0 .. b), S # {}
    PROVE  Max(S) \in S /\ \A t \in S : Max(S) >= t
BY Greatest DEF Max

\* A stretch in which there is no row lies in one of the gaps.
LEMMA SilenceIsReported ==
    ASSUME NEW a \in Nat, NEW b \in Nat, NEW S \in SUBSET (a .. b), NEW x \in Int,
           a <= x, x + MaxGap + 1 <= b, \A t \in S : t <= x \/ t >= x + MaxGap + 1
    PROVE  \E g \in FindGaps(S, a, b) : g[1] <= x /\ x + MaxGap + 1 <= g[2]
<1> DEFINE L == {t \in S : t <= x}
           R == {t \in S : t >= x + MaxGap + 1}
<1>0. MaxGap \in Nat /\ S \in SUBSET (0 .. b) /\ S \in SUBSET Nat
  OBVIOUS
<1>1. CASE S = {}
  <2>1. FindGaps(S, a, b) = {<<a, b>>}
    BY <1>1 DEF FindGaps
  <2> QED
    BY <2>1, <1>0
<1>2. CASE S # {} /\ L = {}
  <2> DEFINE g == <<a, Min(S)>>
  <2>1. Min(S) \in S
    BY <1>0, <1>2, MinFacts
  <2>2. Min(S) >= x + MaxGap + 1 /\ Min(S) \in Nat
    BY <1>0, <1>2, <2>1
  <2>3. g[1] = a /\ g[2] = Min(S) /\ g[2] - g[1] > MaxGap
    BY <1>0, <2>2
  <2>4. g \in FindGaps(S, a, b)
    BY <1>2, <2>3 DEF FindGaps
  <2> QED
    BY <2>2, <2>3, <2>4
<1>3. CASE S # {} /\ R = {}
  <2> DEFINE g == <<Max(S), b>>
  <2>1. Max(S) \in S
    BY <1>0, <1>3, MaxFacts
  <2>2. Max(S) <= x /\ Max(S) \in Nat
    BY <1>0, <1>3, <2>1
  <2>3. g[1] = Max(S) /\ g[2] = b /\ g[2] - g[1] > MaxGap
    BY <1>0, <2>2
  <2>4. g \in FindGaps(S, a, b)
    BY <1>3, <2>3 DEF FindGaps
  <2> QED
    BY <2>2, <2>3, <2>4
<1>4. CASE L # {} /\ R # {}
  <2>1. PICK m \in L : \A t \in L : m >= t
    <3>1. L \in SUBSET (0 .. b)
      BY <1>0
    <3> HIDE DEF L
    <3> QED
      BY <1>4, <3>1, Greatest
  <2>2. PICK n \in R : \A t \in R : n <= t
    <3>1. R \in SUBSET Nat
      BY <1>0
    <3> HIDE DEF R
    <3> QED
      BY <1>4, <3>1, Least
  <2> DEFINE g == <<m, n>>
  <2>3. /\ m \in S /\ m <= x /\ n \in S /\ n >= x + MaxGap + 1 /\ m \in Nat /\ n \in Nat
        /\ \A t \in S : t <= m \/ t >= n
    BY <1>0, <2>1, <2>2
  <2>4. g \in S \X S /\ g[1] = m /\ g[2] = n /\ n - m > MaxGap
    BY <1>0, <2>3
  <2>5. g \in Inner(S, MaxGap)
    BY <2>3, <2>4 DEF Inner
  <2>6. S # {}
    BY <2>3
  <2>7. g \in FindGaps(S, a, b)
    BY <2>5, <2>6 DEF FindGaps
  <2> QED
    BY <2>3, <2>4, <2>7
<1> QED
  BY <1>1, <1>2, <1>3, <1>4

\* A gap is between two ends with no row inside, and longer than MaxGap.
LEMMA GapIsSilent ==
    ASSUME NEW a \in Nat, NEW b \in Nat, NEW S \in SUBSET (a .. b), S # {},
           NEW g \in FindGaps(S, a, b)
    PROVE  /\ g[1] \in Int /\ g[2] \in Int /\ a <= g[1] /\ g[2] <= b
           /\ \A t \in S : t <= g[1] \/ t >= g[2]
           /\ g[2] - g[1] > MaxGap
<1> DEFINE from == g[1]
           to == g[2]
<1>1. S \in SUBSET (0 .. b) /\ S \in SUBSET Nat /\ \A t \in S : t \in Nat /\ a <= t /\ t <= b
  OBVIOUS
<1>2. Min(S) \in S /\ \A t \in S : Min(S) <= t
  BY <1>1, MinFacts
<1>3. Max(S) \in S /\ \A t \in S : Max(S) >= t
  BY <1>1, MaxFacts
<1>4. \/ g \in {<<a, Min(S)>>, <<Max(S), b>>} /\ to - from > MaxGap
      \/ g \in Inner(S, MaxGap)
  BY DEF FindGaps
<1>5. CASE g = <<a, Min(S)>> /\ to - from > MaxGap
  <2>1. from = a /\ to = Min(S) /\ to - from > MaxGap
    BY <1>5
  <2> HIDE DEF from, to
  <2>2. /\ from \in Int /\ to \in Int /\ a <= from /\ to <= b /\ to - from > MaxGap
        /\ \A t \in S : t <= from \/ t >= to
    <3> DEFINE m == Min(S)
    <3>1. m \in Nat /\ a <= m /\ m <= b /\ (\A t \in S : m <= t) /\ from = a /\ to = m
      BY <1>1, <1>2, <2>1
    <3> HIDE DEF m
    <3>2. from \in Int /\ to \in Int /\ a <= from /\ to <= b
      BY <3>1
    <3>3. \A t \in S : t >= to
      BY <1>1, <3>1
    <3> QED
      BY <2>1, <3>2, <3>3
  <2> QED
    BY <2>2 DEF from, to
<1>6. CASE g = <<Max(S), b>> /\ to - from > MaxGap
  <2>1. from = Max(S) /\ to = b /\ to - from > MaxGap
    BY <1>6
  <2> HIDE DEF from, to
  <2>2. /\ from \in Int /\ to \in Int /\ a <= from /\ to <= b /\ to - from > MaxGap
        /\ \A t \in S : t <= from \/ t >= to
    <3> DEFINE m == Max(S)
    <3>1. m \in Nat /\ a <= m /\ m <= b /\ (\A t \in S : m >= t) /\ from = m /\ to = b
      BY <1>1, <1>3, <2>1
    <3> HIDE DEF m
    <3>2. from \in Int /\ to \in Int /\ a <= from /\ to <= b
      BY <3>1
    <3>3. \A t \in S : t <= from
      BY <1>1, <3>1
    <3> QED
      BY <2>1, <3>2, <3>3
  <2> QED
    BY <2>2 DEF from, to
<1>7. CASE g \in Inner(S, MaxGap)
  <2>1. /\ from \in S /\ to \in S /\ to - from > MaxGap
        /\ \A t \in S : t <= from \/ t >= to
    BY <1>7 DEF Inner
  <2> HIDE DEF from, to
  <2>2. from \in Int /\ to \in Int /\ a <= from /\ to <= b
    BY <1>1, <2>1
  <2> QED
    BY <2>1, <2>2 DEF from, to
<1> QED
  BY <1>4, <1>5, <1>6, <1>7

\* A row has a stamp, and a page between its two SELECTs still finds the first and
\* the last row it read in the first: rows are never deleted.
PageInv ==
    /\ \A r \in rows : r.t \in Int
    /\ page.on => /\ page.end \in Int /\ Days <= page.end /\ page.end <= MaxClock
                  /\ page.first # None => page.first \in PageStamps /\ page.last \in PageStamps

LEMMA StampsFacts ==
    ASSUME \A r \in rows : r.t \in Int, NEW series, NEW a \in Int, NEW b \in Int
    PROVE  Stamps(series, a, b) \in SUBSET (a .. b)
BY DEF Stamps

LEMMA GapsFound == BackfillInv /\ PageInv => GapsTrue
<1> SUFFICES ASSUME BackfillInv, PageInv, job.at = "end"
             PROVE  GapsTrue
  BY DEF GapsTrue
<1> DEFINE a == job.start
           b == job.end
           S == Stamps("hour", a, b)
           gaps == FindGaps(S, a, b)
           silent == {x \in a .. b - MaxGap - 1 : S \cap (x + 1 .. x + MaxGap) = {}}
<1>1. a \in Nat /\ b \in Int
  BY DEF BackfillInv, JobOK, Jobs, Through, InTime
<1>2. S \in SUBSET (a .. b)
  BY <1>1, StampsFacts DEF PageInv
<1>3. MaxGap \in Nat
  OBVIOUS
<1> HIDE DEF S, a, b
<1>4. ASSUME NEW x \in silent PROVE \E g \in gaps : g[1] <= x /\ x + MaxGap + 1 <= g[2]
  <2>1. x \in Int /\ a <= x /\ x + MaxGap + 1 <= b /\ S \cap (x + 1 .. x + MaxGap) = {}
    BY <1>1, <1>3, <1>4
  <2>2. b \in Nat
    BY <1>1, <1>3, <2>1
  <2>3. \A t \in S : t <= x \/ t >= x + MaxGap + 1
    BY <1>1, <1>2, <1>3, <2>1
  <2> QED
    BY <1>1, <1>2, <2>1, <2>2, <2>3, SilenceIsReported
<1>5. ASSUME NEW g \in gaps
      PROVE  S \cap (g[1] + 1 .. g[2] - 1) = {} /\ (g[1] \in silent \/ S = {})
  <2>1. CASE S = {}
    BY <2>1
  <2>2. CASE S # {}
    <3>1. b \in Nat
      <4>1. PICK t \in S : TRUE
        BY <2>2
      <4>2. t \in Int /\ a <= t /\ t <= b
        BY <1>2
      <4> QED
        BY <1>1, <4>2
    <3>2. /\ g[1] \in Int /\ g[2] \in Int /\ a <= g[1] /\ g[2] <= b
          /\ \A t \in S : t <= g[1] \/ t >= g[2]
          /\ g[2] - g[1] > MaxGap
      BY <1>1, <1>2, <1>5, <2>2, <3>1, GapIsSilent
    <3>3. S \cap (g[1] + 1 .. g[2] - 1) = {}
      BY <1>1, <1>2, <3>2
    <3>4. g[1] \in a .. b - MaxGap - 1 /\ S \cap (g[1] + 1 .. g[1] + MaxGap) = {}
      BY <1>1, <1>2, <1>3, <3>1, <3>2
    <3> QED
      BY <3>3, <3>4
  <2> QED
    BY <2>1, <2>2
<1> QED
  BY <1>4, <1>5 DEF GapsTrue, S, a, b

LEMMA PageFound == BackfillInv /\ PageInv => PageTrue
<1> SUFFICES ASSUME BackfillInv, PageInv, page.on, CountGaps = 0
             PROVE  FindGaps(PageStamps, page.end - Days, page.end) = {}
  BY DEF PageTrue
<1> DEFINE a == page.end - Days
           b == page.end
           S == PageStamps
           I == Inner(S, MaxGap)
<1>1. a \in Nat /\ b \in Nat /\ MaxGap \in Nat
  BY DEF PageInv
<1>2. S \in SUBSET (a .. b)
  BY <1>1, StampsFacts DEF PageInv, PageStamps
<1>3. IsFiniteSet(I) /\ Cardinality(I) \in Nat
  <2>1. IsFiniteSet(S)
    <3>1. a \in Int /\ b \in Int
      BY <1>1
    <3> HIDE DEF a, b, S
    <3>2. IsFiniteSet(a .. b)
      BY <3>1, FS_Interval
    <3> QED
      BY <1>2, <3>2, FS_Subset
  <2>2. IsFiniteSet(S \X S)
    BY <2>1, FS_Product
  <2>3. I \in SUBSET (S \X S)
    BY DEF Inner
  <2> QED
    BY <2>2, <2>3, FS_Subset, FS_CardinalityType
<1>4. page.first # None
  BY DEF CountGaps
<1>5. page.first \in S /\ page.last \in S
  BY <1>4 DEF PageInv
<1>6. CountGaps = Cardinality(I) + (IF page.first - a > MaxGap THEN 1 ELSE 0)
                    + (IF b - page.last > MaxGap THEN 1 ELSE 0)
  BY <1>4 DEF CountGaps
<1> HIDE DEF a, b, S, I
<1>5a. \A t \in S : t \in Int
  BY <1>1, <1>2
<1>5b. page.first \in Int /\ page.last \in Int
  BY <1>5, <1>5a
<1>7. Cardinality(I) = 0 /\ page.first - a <= MaxGap /\ b - page.last <= MaxGap
  <2> DEFINE c == Cardinality(I)
             x == IF page.first - a > MaxGap THEN 1 ELSE 0
             y == IF b - page.last > MaxGap THEN 1 ELSE 0
  <2>1. c \in Nat /\ x \in {0, 1} /\ y \in {0, 1} /\ c + x + y = 0
    BY <1>3, <1>6
  <2>2. c = 0 /\ x = 0 /\ y = 0
    <3> HIDE DEF c, x, y
    <3> QED
      BY <2>1
  <2> QED
    BY <1>1, <1>5b, <2>2
<1>8. I = {}
  BY <1>3, <1>7, FS_EmptySet
<1>9. S # {} /\ S \in SUBSET Nat /\ S \in SUBSET (0 .. b)
  BY <1>1, <1>2, <1>5
<1>10. Min(S) - a <= MaxGap
  <2>1. Min(S) \in S /\ Min(S) <= page.first
    BY <1>5, <1>9, MinFacts
  <2> QED
    BY <1>1, <1>5a, <1>5b, <1>7, <2>1
<1>11. b - Max(S) <= MaxGap
  <2>1. Max(S) \in S /\ Max(S) >= page.last
    BY <1>1, <1>5, <1>9, MaxFacts
  <2> QED
    BY <1>1, <1>5a, <1>5b, <1>7, <2>1
<1>12. Min(S) \in Nat /\ Max(S) \in Nat
  BY <1>1, <1>9, MinFacts, MaxFacts
<1>13. ASSUME NEW p \in {<<a, Min(S)>>, <<Max(S), b>>} PROVE ~(p[2] - p[1] > MaxGap)
  <2>1. p[2] - p[1] = Min(S) - a \/ p[2] - p[1] = b - Max(S)
    BY <1>13
  <2> QED
    BY <1>1, <1>10, <1>11, <1>12, <2>1
<1>14. FindGaps(S, a, b) = {p \in {<<a, Min(S)>>, <<Max(S), b>>} : p[2] - p[1] > MaxGap} \cup I
  BY <1>9 DEF FindGaps, I
<1>15. FindGaps(S, a, b) = {}
  BY <1>8, <1>13, <1>14
<1> QED
  BY <1>15 DEF S, a, b

\* Rows are only added.
LEMMA PageCarried ==
    ASSUME PageInv, rows \subseteq rows', page' = page, \A r \in rows' : r.t \in Int
    PROVE  PageInv'
<1>1. page.on /\ page.first # None => page.first \in PageStamps' /\ page.last \in PageStamps'
  BY DEF PageInv, PageStamps, Stamps
<1> QED
  BY <1>1 DEF PageInv

LEMMA PageStep == ASSUME BackfillInv, PageInv, [Next]_vars PROVE PageInv'
<1>1. CASE UNCHANGED <<rows, page>>
  BY <1>1 DEF PageInv, PageStamps, Stamps
<1>2. CASE Store
  <2>1. PICK item \in job.got : Insert(item)
    BY <1>2 DEF Store
  <2>2. item.t \in Int
    BY DEF BackfillInv, JobOK, Jobs, Items
  <2>3. rows' \in {rows, rows \cup {Row(item)}} /\ page' = page
    BY <1>2, <2>1 DEF Store, Insert
  <2>4. Row(item).t = item.t
    BY DEF Row
  <2>5. \A r \in rows' : r.t \in Int
    BY <2>2, <2>3, <2>4 DEF PageInv
  <2> QED
    BY <2>3, <2>5, PageCarried
<1>3. CASE OpenPage
  <2> DEFINE S == Stamps("funding", clock - Days, clock)
  <2>1. clock \in Nat /\ Days <= clock /\ clock <= MaxClock
    BY DEF BackfillInv
  <2>2. S \in SUBSET ((clock - Days) .. clock)
    BY <2>1, StampsFacts DEF PageInv
  <2>3. rows' = rows /\ page'.end = clock
        /\ page'.first = (IF S = {} THEN None ELSE Min(S))
        /\ page'.last = (IF S = {} THEN None ELSE Max(S))
    BY <1>3 DEF OpenPage
  <2>4. PageStamps' = S
    BY <2>3 DEF PageStamps, Stamps
  <2> HIDE DEF S
  <2>5. S # {} => Min(S) \in S /\ Max(S) \in S
    <3>1. S \in SUBSET Nat /\ S \in SUBSET (0 .. clock)
      BY <2>1, <2>2
    <3> QED
      BY <2>1, <3>1, MinFacts, MaxFacts
  <2> QED
    BY <2>1, <2>3, <2>4, <2>5 DEF PageInv
<1>4. CASE ClosePage
  <2>1. rows' = rows /\ page'.on = FALSE
    BY <1>4 DEF ClosePage, NoPage
  <2> QED
    BY <2>1 DEF PageInv
<1>5. ASSUME \/ \E s \in Sources : Begin(s)
             \/ NoInstruments \/ FetchPage \/ Info \/ Stored \/ FinishNative \/ FinishProxy
             \/ \E failure \in Failures : Transient(failure) \/ Abort(failure)
             \/ Die \/ Pass \/ UNCHANGED vars
      PROVE  UNCHANGED <<rows, page>>
  BY <1>5 DEF Begin, NoInstruments, FetchPage, Info, Stored, FinishNative, FinishProxy, Ended,
     Transient, Abort, Die, Pass, vars
<1> QED
  BY <1>1, <1>2, <1>3, <1>4, <1>5 DEF Next, Working

LEMMA PageInvariant == Spec => [](BackfillInv /\ PageInv)
<1>1. Init => PageInv
  BY DEF Init, PageInv, NoPage
<1>2. BackfillInv /\ PageInv /\ [Next]_vars => PageInv'
  BY PageStep
<1> QED
  BY <1>1, <1>2, BackfillInvariant, PTL DEF Spec

(* For any table, range and max_gap, the gap check that ends a run prints every
   stretch longer than max_gap without a row, and nothing else (gaps.py:20). *)
THEOREM GapsExact == Spec => []GapsTrue
  BY GapsFound, PageInvariant, PTL

(* A page that counts no gap was right, whatever was stored between its two
   SELECTs: rows that arrive in between can only close gaps (state.py:234). *)
THEOREM CleanPageIsRight == Spec => []PageTrue
  BY PageFound, PageInvariant, PTL
=============================================================================
