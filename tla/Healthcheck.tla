---------------------------- MODULE Healthcheck ----------------------------
(***************************************************************************)
(* scripts/healthcheck.py: a process every five minutes that compares what *)
(* it reads with the memory of the last run, hands alerts one by one to    *)
(* the sinks of monitor/alerts.py and then overwrites that memory.         *)
(* Problems come and go between the runs, systemd restarts units and a     *)
(* deploy resets its counter; the database cannot be opened, a sink fails, *)
(* the write of the memory fails when the disk is full, and the process    *)
(* can be killed between any two of its steps.                             *)
(***************************************************************************)
EXTENDS Integers, Sequences, FiniteSets, SequencesExt

CONSTANTS
    Keys,         \* the problems evaluate() can name
    MaxRestarts,  \* bound on a unit's NRestarts
    MaxDeaths     \* bound on kills of the health check

ASSUME HealthAssumption == IsFiniteSet(Keys) /\ MaxRestarts \in Nat /\ MaxDeaths \in Nat

VARIABLES
    bad,      \* the problems there are
    full,     \* no byte can be written to the disk
    n,        \* NRestarts of a unit
    readable, \* the database opens and systemctl answers
    file,     \* health-state.json
    step,     \* "idle", "emit" or "save"
    due,      \* the alerts still to raise
    sink,     \* the sink the first of them goes to next
    next,     \* the state evaluate() returned
    said,     \* the last word the journal has on each problem
    ever,     \* the problems the journal ever raised
    handed,   \* the problems each other sink was given, whether it took them or failed
    erring,   \* the last run that was not killed ended in healthcheck_error
    covered,  \* values of NRestarts alerted or taken as a baseline
    repeated, \* a problem was raised twice without having cleared
    unsaved,  \* a run ended without its memory being saved
    deaths    \* kills so far

world == <<bad, full, n, readable>>
run == <<file, step, due, sink, next>>
journal == <<said, ever, covered, repeated>>
healthVars == <<world, run, journal, handed, erring, unsaved, deaths>>

(* default_sinks: Telegram is there when both its secrets load. *)
Sinks == <<"journal", "table", "telegram">>
Others == {"table", "telegram"}

(* load_state: a missing file and a write cut short both read as empty. *)
Unknown == -1
Empty == [open |-> {}, seen |-> Unknown]

Raise(k) == [kind |-> "problem", key |-> k]
Recovered(k) == [kind |-> "recovered", key |-> k]
Restarted == [kind |-> "restarted", key |-> "unit"]

---------------------------------------------------------------------------
(* evaluate: alerts to send and the next state. *)
NewRestarts == file.seen # Unknown /\ n > file.seen

(* BUG: evaluate reports what is wrong without asking what it said before. *)
BugForgets == [i \in DOMAIN SetToSeq(bad) |-> Raise(SetToSeq(bad)[i])]

(* BUG: while a problem is open no other one is raised. *)
BugQuietWhileOpen ==
    LET appeared == IF file.open = {} THEN SetToSeq(bad) ELSE <<>>
        cleared == SetToSeq(file.open \ bad)
    IN  (IF NewRestarts THEN <<Restarted>> ELSE <<>>)
        \o [i \in DOMAIN appeared |-> Raise(appeared[i])]
        \o [i \in DOMAIN cleared |-> Recovered(cleared[i])]

Alerts ==
    LET appeared == SetToSeq(bad \ file.open)
        cleared == SetToSeq(file.open \ bad)
    IN  (IF NewRestarts THEN <<Restarted>> ELSE <<>>)
        \o [i \in DOMAIN appeared |-> Raise(appeared[i])]
        \o [i \in DOMAIN cleared |-> Recovered(cleared[i])]

(* BUG: the memory is saved before the alerts are raised. *)
BugSavesFirst ==
    /\ step = "idle" /\ readable
    /\ due' = Alerts /\ sink' = 1
    /\ next' = [open |-> bad, seen |-> n]
    /\ file' = IF full THEN Empty ELSE next'
    /\ covered' = IF file.seen = Unknown \/ n < file.seen THEN covered \cup {n} ELSE covered
    /\ step' = "emit"
    /\ UNCHANGED <<world, said, ever, repeated, handed, erring, unsaved, deaths>>

(* First sight of a unit, and a counter a deploy has reset, are baselines. *)
Check ==
    /\ step = "idle" /\ readable
    /\ due' = Alerts /\ sink' = 1
    /\ next' = [open |-> bad, seen |-> n]
    /\ covered' = IF file.seen = Unknown \/ n < file.seen THEN covered \cup {n} ELSE covered
    /\ step' = "emit"
    /\ UNCHANGED <<world, file, said, ever, repeated, handed, erring, unsaved, deaths>>

(* BUG: a run that cannot read ends without a word. *)
BugQuietFailure ==
    /\ step = "idle" /\ ~readable
    /\ erring' = FALSE
    /\ UNCHANGED <<world, run, journal, handed, unsaved, deaths>>

(* A reading raises: healthcheck_error goes out and nothing else happens. *)
CheckFails ==
    /\ step = "idle" /\ ~readable
    /\ erring' = TRUE
    /\ UNCHANGED <<world, run, journal, handed, unsaved, deaths>>

---------------------------------------------------------------------------
(* Alerter.emit: every sink in turn. *)
Writes(a) ==
    /\ said' = IF a = Restarted THEN said ELSE [said EXCEPT ![a.key] = a.kind]
    /\ ever' = IF a.kind = "problem" THEN ever \cup {a.key} ELSE ever
    /\ repeated' = (repeated \/ (a.kind = "problem" /\ said[a.key] = "problem"))
    /\ covered' = IF a = Restarted THEN covered \cup {next.seen} ELSE covered

(* LogSink never fails. *)
ToJournal(a, ok) == ok /\ Writes(a) /\ UNCHANGED handed

Given(s, a) ==
    /\ handed' = IF a.kind = "problem" THEN [handed EXCEPT ![s] = @ \cup {a.key}] ELSE handed
    /\ UNCHANGED journal

(* SqliteSink: one insert and its commit, which fail on a full disk. *)
ToTable(a, ok) == ok = ~full /\ Given("table", a)

(* TelegramSink: CRITICAL only; the post can fail at any time. *)
ToTelegram(a, ok) ==
    \/ a.kind # "recovered" /\ Given("telegram", a)
    \/ a.kind = "recovered" /\ ok /\ UNCHANGED <<journal, handed>>

Done == due' = Tail(due) /\ sink' = 1

(* BUG: the exception of a sink ends the loop over the sinks. *)
BugFailureEnds(ok) ==
    IF sink = Len(Sinks) \/ ~ok THEN Done ELSE sink' = sink + 1 /\ due' = due

(* A sink that raises is logged, and the next one has its turn. *)
NextSink(ok) == IF sink = Len(Sinks) THEN Done ELSE sink' = sink + 1 /\ due' = due

Emit ==
    /\ step = "emit" /\ due # <<>>
    /\ \E ok \in BOOLEAN :
        /\ \/ Sinks[sink] = "journal" /\ ToJournal(Head(due), ok)
           \/ Sinks[sink] = "table" /\ ToTable(Head(due), ok)
           \/ Sinks[sink] = "telegram" /\ ToTelegram(Head(due), ok)
        /\ NextSink(ok)
    /\ UNCHANGED <<world, file, step, next, erring, unsaved, deaths>>

Emitted ==
    /\ step = "emit" /\ due = <<>>
    /\ step' = "save"
    /\ UNCHANGED <<world, file, due, sink, next, journal, handed, erring, unsaved, deaths>>

(* write_text truncates and then writes: on a full disk the write raises,
   healthcheck_error goes out, and the file stays empty. *)
Save ==
    /\ step = "save"
    /\ file' = IF full THEN Empty ELSE next
    /\ unsaved' = (unsaved \/ full)
    /\ erring' = full
    /\ step' = "idle"
    /\ UNCHANGED <<world, due, sink, next, journal, handed, deaths>>

(* A kill: before the write nothing of the file has changed, in the middle of
   it the file is cut short. *)
Die ==
    /\ step # "idle" /\ deaths < MaxDeaths
    /\ file' \in IF step = "save" THEN {file, Empty} ELSE {file}
    /\ step' = "idle" /\ due' = <<>> /\ sink' = 1
    /\ unsaved' = TRUE
    /\ deaths' = deaths + 1
    /\ UNCHANGED <<world, next, journal, handed, erring>>

---------------------------------------------------------------------------
(* The machine: what unit_props, disk_used_pct and last_tick will read. *)
idle == <<run, journal, handed, erring, unsaved, deaths>>

Appear(k) ==
    /\ k \notin bad
    /\ bad' = bad \cup {k}
    /\ UNCHANGED <<full, n, readable, idle>>

Clear(k) ==
    /\ k \in bad
    /\ k = "disk_full" => ~full
    /\ bad' = bad \ {k}
    /\ UNCHANGED <<full, n, readable, idle>>

(* disk_full is reported at 95 %: the last bytes go later, if at all. *)
Fill ==
    /\ "disk_full" \in bad
    /\ full' = ~full
    /\ UNCHANGED <<bad, n, readable, idle>>

Restart ==
    /\ n < MaxRestarts
    /\ n' = n + 1
    /\ UNCHANGED <<bad, full, readable, idle>>

Redeploy ==
    /\ n > 0
    /\ n' = 0
    /\ UNCHANGED <<bad, full, readable, idle>>

(* Only read when a run begins. *)
Lock ==
    /\ step = "idle"
    /\ readable' = ~readable
    /\ UNCHANGED <<bad, full, n, idle>>

HealthInit ==
    /\ bad = {} /\ full = FALSE /\ n = 0 /\ readable = TRUE
    /\ file = Empty /\ step = "idle" /\ due = <<>> /\ sink = 1 /\ next = Empty
    /\ said = [k \in Keys |-> "nothing"] /\ ever = {} /\ covered = {} /\ repeated = FALSE
    /\ handed = [s \in Others |-> {}]
    /\ erring = FALSE /\ unsaved = FALSE /\ deaths = 0

HealthStep == Check \/ CheckFails \/ Emit \/ Emitted \/ Save

HealthNext ==
    \/ HealthStep
    \/ Die
    \/ \E k \in Keys : Appear(k) \/ Clear(k)
    \/ Fill
    \/ Restart
    \/ Redeploy
    \/ Lock

HealthSpec == HealthInit /\ [][HealthNext]_healthVars

(* polyperps-health.timer starts the check again after every run, and a run
   that is not killed goes on. *)
FairSpec == HealthSpec /\ WF_healthVars(HealthStep)

---------------------------------------------------------------------------
(* As long as every run saved its memory, no problem is raised twice without
   having been reported as recovered in between, however it flaps
   (healthcheck.py:9). *)
OnceUnlessLost == ~unsaved => ~repeated

(* The memory never claims more than was said: a kill at any point, between two
   alerts or between two sinks of one, repeats an alert and loses none, and a
   sink that fails costs the others nothing (alerts.py Alerter.emit). *)
MemoryTold ==
    /\ file.open \subseteq ever
    /\ file.seen # Unknown => file.seen \in covered
    /\ \A s \in Others : file.open \subseteq handed[s]

(* A problem that lasts is raised, on a full disk too, and a machine that
   cannot be read is reported itself (healthcheck.py:3 and main).  A run
   killed after "recovered" and before the save leaves the problem open in the
   memory: when it comes back, the operator has only the earlier alert. *)
LastingProblemTold ==
    /\ \A k \in Keys :
        (k \in bad /\ readable) ~>
            (k \notin bad \/ ~readable \/ said[k] = "problem" \/ (deaths > 0 /\ k \in ever))
    /\ ~readable ~> (readable \/ erring)
=============================================================================
