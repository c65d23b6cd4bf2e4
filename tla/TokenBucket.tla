---------------------------- MODULE TokenBucket ----------------------------
(***************************************************************************)
(* The REST pacing of polyperps/exchange/rate_limiter.py, which every      *)
(* request of client.py goes through: one token per call, one per page.    *)
(*                                                                         *)
(* The unit of time is what the bucket needs to accrue one unit of credit, *)
(* so rate_per_sec is 1; a token costs Token units.  Whoever waits may be  *)
(* next (asyncio's lock is first come, first served, which the bound does  *)
(* not need); asyncio.sleep may end up to Early units early (the event     *)
(* loop's clock resolution) and any time late.                             *)
(***************************************************************************)
EXTENDS Integers

CONSTANTS Callers,    \* tasks that send requests
          Token,      \* credit a token costs: 1 / rate_per_sec in units of time
          Burst,      \* tokens the bucket holds
          Early,      \* how early a sleep may end
          MaxElapsed, \* bound: longest time without a refill
          MaxWindow   \* bound: longest window watched

ASSUME BucketAssumption ==
  /\ Token \in Nat \ {0} /\ Burst \in Nat \ {0}
  /\ Early \in Nat /\ MaxElapsed \in Nat /\ MaxWindow \in Nat

VARIABLES tokens,   \* _tokens, in units of credit
          elapsed,  \* clock() - _last
          waiting,  \* who is inside acquire()
          left,     \* for each caller: asleep, holding _lock, and how long it has left
          window,   \* the age of the window being watched
          taken     \* credit handed out in it

bucketVars == <<tokens, elapsed, waiting, left, window, taken>>

Capacity == Token * Burst
Lesser(a, b) == IF a < b THEN a ELSE b
Awake == [sleeping |-> FALSE, rest |-> 0]

\* Bug: an idle bucket fills past the burst.
BugNoCap == tokens + elapsed

\* _refill().
Refilled == Lesser(Capacity, tokens + elapsed)

\* Bug: the lock is not held while sleeping, so several callers sleep at once.
BugNoLock(c) == c \in waiting

\* c can get _lock: nobody awaits anything inside it but a sleeper.
Turn(c) == c \in waiting /\ \A d \in Callers : ~left[d].sleeping

-----------------------------------------------------------------------------
\* acquire() is called.
Call(c) ==
  /\ c \notin waiting
  /\ waiting' = waiting \cup {c}
  /\ UNCHANGED <<tokens, elapsed, left, window, taken>>

\* A token is there: take it and release the lock.  The request goes out.
Take(c) ==
  /\ Turn(c) /\ ~left[c].sleeping /\ Refilled >= Token
  /\ tokens' = Refilled - Token /\ elapsed' = 0 /\ taken' = taken + Token
  /\ waiting' = waiting \ {c}
  /\ UNCHANGED <<left, window>>

\* None is there: sleep for the missing part, keeping the lock.
Sleep(c) ==
  /\ Turn(c) /\ ~left[c].sleeping /\ Refilled < Token
  /\ tokens' = Refilled /\ elapsed' = 0
  /\ left' = [left EXCEPT ![c] = [sleeping |-> TRUE, rest |-> Token - Refilled]]
  /\ UNCHANGED <<waiting, window, taken>>

\* The sleep is over: refill and take a token without looking again.
Wake(c) ==
  /\ left[c].sleeping /\ left[c].rest <= Early
  /\ tokens' = Refilled - Token /\ elapsed' = 0 /\ taken' = taken + Token
  /\ left' = [left EXCEPT ![c] = Awake]
  /\ waiting' = waiting \ {c}
  /\ UNCHANGED window

\* The task is cancelled while it waits (the trader is ending).
Abandon(c) ==
  /\ c \in waiting
  /\ waiting' = waiting \ {c}
  /\ left' = [left EXCEPT ![c] = Awake]
  /\ UNCHANGED <<tokens, elapsed, window, taken>>

Tick ==
  /\ elapsed < MaxElapsed /\ window < MaxWindow
  /\ elapsed' = elapsed + 1 /\ window' = window + 1
  /\ left' = [c \in Callers |-> IF left[c].sleeping THEN [left[c] EXCEPT !.rest = @ - 1] ELSE left[c]]
  /\ UNCHANGED <<tokens, waiting, taken>>

\* Watching starts: any moment may be the start of a window.
Watch == window' = 0 /\ taken' = 0 /\ UNCHANGED <<tokens, elapsed, waiting, left>>

BucketNext ==
  \/ \E c \in Callers : Call(c) \/ Take(c) \/ Sleep(c) \/ Wake(c) \/ Abandon(c)
  \/ Tick \/ Watch

BucketInit ==
  /\ tokens = Capacity /\ elapsed = 0 /\ waiting = {}
  /\ left = [c \in Callers |-> Awake]
  /\ window = 0 /\ taken = 0

BucketSpec == BucketInit /\ [][BucketNext]_bucketVars

-----------------------------------------------------------------------------
\* The bucket never holds more than its burst and never owes more than a sleep
\* that ended early; one caller at most sleeps (_refill, acquire).
TypeOK ==
  /\ tokens \in Int /\ -Early <= tokens /\ tokens <= Capacity
  /\ elapsed \in Nat /\ window \in Nat /\ taken \in Nat
  /\ waiting \in SUBSET Callers
  /\ left \in [Callers -> [sleeping: BOOLEAN, rest: Int]]

\* "sustained polling never trips the server": in any window of any length, all
\* callers together send at most the burst and what accrued meanwhile (and the
\* little that a sleep may end early), however they wait, sleep and are
\* cancelled.
RateBound == taken <= Capacity + window + Early

\* One caller at most sleeps, and what is left of its sleep is what the bucket
\* still lacks.
SleepCovers ==
  \A c \in Callers : left[c].sleeping =>
    /\ c \in waiting /\ tokens < Token /\ tokens + elapsed + left[c].rest = Token
    /\ \A d \in Callers : left[d].sleeping => d = c

\* What was handed out, and what could be handed out now, stays within the window.
CreditBound == taken + Refilled <= Capacity + window

IInv == TypeOK /\ SleepCovers /\ CreditBound
=============================================================================
