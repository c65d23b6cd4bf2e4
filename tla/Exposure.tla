------------------------------ MODULE Exposure ------------------------------
(***************************************************************************)
(* The portfolio's limits across several instruments: vet_entry and        *)
(* vet_exposure as Portfolio.on_bar calls them and the loss limit that the *)
(* runner's bar loop evaluates first, one router per instrument, over a    *)
(* venue that executes orders and reports them in its own time.            *)
(*                                                                         *)
(* A router is reduced to what the limits see of it; Router.tla models it  *)
(* in full.  Amounts are signed notionals, valued at entry.  The bar loop  *)
(* takes its verdict from a snapshot of its own and then waits for the     *)
(* portfolio's lock.  Under the lock a bar reads the account and sends its *)
(* order in one step: every router is still in between, and what the venue *)
(* executes meanwhile is still counted as pending.  A shutdown keeps the   *)
(* lock over every order it sends, one router after the other, and the     *)
(* process may die anywhere in it.  The mode is paper or shadow: without   *)
(* divergence thresholds a live run is always at "pause".  LIQUIDATED,     *)
(* which nothing but --clear-halt leaves, is left out, and so is that.     *)
(***************************************************************************)
EXTENDS Integers, FiniteSets, FiniteSetsExt, Functions

CONSTANTS
    Instruments,
    Crypto,      \* the instruments of one cluster; the others form a second
    Notional,    \* notional_usd
    StartEquity, \* the equity the run began with
    Equities,    \* values the account's equity takes
    MaxEntries,  \* bound on entries sent
    MaxLost,     \* bound on entries the routers give up on
    MaxCrash     \* bound on restarts

ASSUME ExposureAssumption ==
    /\ IsFiniteSet(Instruments)
    /\ Crypto \subseteq Instruments
    /\ Notional \in Nat \ {0}
    /\ StartEquity \in Nat \ {0}
    /\ Equities \subseteq Int
    /\ MaxEntries \in Nat
    /\ MaxLost \in Nat
    /\ MaxCrash \in Nat

VARIABLES
    st,       \* each router's state
    intent,   \* pending_intent of an entry, 0 where the guards ignore it
    flight,   \* the entry at the venue that the router waits for
    stray,    \* entries at the venue no guard counts: given up on, or adopted
    pos,      \* the venue's position
    news,     \* the venue has an event the router has not handled
    equity,   \* the account's equity
    bar,      \* the closed bar in the bar loop's hands, and its verdict
    sweep,    \* the shutdown under way
    alerts,   \* loss_limit alerts raised
    cut,      \* shutdowns that a death or an exception cut short
    late,     \* entries sent since the equity is at or below the pause limit
    entries,  \* entries sent
    lost,     \* entries given up on
    crashes   \* restarts

limit == <<bar, sweep, alerts, cut, late>>
vars == <<st, intent, flight, stray, pos, news, equity, limit, entries, lost, crashes>>

States == {"FLAT", "ENTRY_PENDING", "OPEN", "EXIT_PENDING", "HALTED"}
Signs == {-1, 1}
Abs(x) == IF x < 0 THEN -x ELSE x
Sign(x) == IF x < 0 THEN -1 ELSE 1
Total(S, f) == SumFunctionOnSet(f, S)

Cluster(i) == IF i \in Crypto THEN Crypto ELSE Instruments \ Crypto

NoBar == [of |-> "nobody", kill |-> "none"]
Bar(i, kill) == [of |-> IF kill = "run" THEN i ELSE "nobody", kill |-> kill]

(* A shutdown: the router whose exit it has sent and awaits, the routers it has
   not reached, and those of them whose position it has to close. *)
NoSweep == [at |-> {}, left |-> {}, exits |-> {}]

(* The portfolio's lock is free: every other action is one hold of it. *)
Unlocked == sweep = NoSweep

(* 5 % below the start, or lower. *)
AtLimit(e) == 20 * e <= 19 * StartEquity

(* BUG: at exactly the limit nothing happens yet. *)
BugStrictly(e) ==
    CASE 10 * e < 9 * StartEquity -> "shutdown"
      [] 10 * e >= 9 * StartEquity /\ 20 * e < 19 * StartEquity -> "pause"
      [] OTHER -> "run"

(* loss_limit: 5 % below the start the entries pause, 10 % below it the account
   is shut down; evaluate() adds the divergence, "run" without thresholds. *)
LossLimit(e) ==
    CASE 10 * e <= 9 * StartEquity -> "shutdown"
      [] 10 * e > 9 * StartEquity /\ 20 * e <= 19 * StartEquity -> "pause"
      [] OTHER -> "run"

---------------------------------------------------------------------------
(* The limits, in multiples of the equity: 3x leverage, the leverage at which
   the liquidation distance is 25 %, 1.0 gross and 0.6 net per cluster. *)
LeverageCap == 3 * equity
FloorCap == (100 * equity) \div 27
GrossCap == equity
ClusterCap == (6 * equity) \div 10

(* Entries of the other routers that are sent and not yet filled. *)
Counted(j) == st[j] = "ENTRY_PENDING" /\ intent[j] # 0

(* BUG: the guards see the account only. *)
BugIgnoresPending(i) == {}

Pending(i) == {j \in Instruments \ {i} : Counted(j)}

Existing(i) ==
    LET held == [j \in Instruments |-> Abs(pos[j])]
        sent == [j \in Instruments |-> Abs(intent[j])]
    IN  Total(Instruments, held) + Total(Pending(i), sent)

NetExisting(i) ==
    Total(Cluster(i), pos) + Total(Pending(i) \cap Cluster(i), intent)

(* BUG: the room for a short is what is left for a long. *)
BugUnsignedRoom(i, sign) ==
    Min({Notional, LeverageCap - Existing(i), FloorCap - Existing(i),
         GrossCap - Existing(i), ClusterCap - NetExisting(i)})

(* What the guards leave of an entry; an order is sent if it is positive. *)
Room(i, sign) ==
    Min({Notional, LeverageCap - Existing(i), FloorCap - Existing(i),
         GrossCap - Existing(i), ClusterCap - sign * NetExisting(i)})

---------------------------------------------------------------------------
Astray(i) == [stray EXCEPT ![i][Sign(flight[i])] = @ + Abs(flight[i])]

(* bar_loop: a bar has closed, and the account as it is now gives the verdict. *)
Judge(i) ==
    /\ bar = NoBar
    /\ bar' = Bar(i, LossLimit(equity))
    /\ UNCHANGED <<st, intent, flight, stray, pos, news, equity, sweep, alerts, cut, late, entries, lost, crashes>>

(* A bar that sends no entry: the strategy holds, the router is pending or
   frozen, the verdict is "pause" or a guard leaves nothing. *)
BarDone ==
    /\ bar # NoBar /\ bar.kill # "shutdown"
    /\ bar' = NoBar
    /\ UNCHANGED <<st, intent, flight, stray, pos, news, equity, sweep, alerts, cut, late, entries, lost, crashes>>

(* shutdown of one router: a position in the snapshot is closed by a
   reduce-only order, whatever the router knows of it and even if it is
   halted, unless an order of its own is pending. *)
Exits == {i \in Instruments : pos[i] # 0 /\ st[i] \in {"FLAT", "OPEN", "HALTED"}}

(* BUG: the shutdown stops only the routers that hold a position. *)
BugHeldOnly == Exits

(* A router that is halted and holds nothing is passed over. *)
ShutDownRouters == Exits \cup {i \in Instruments : st[i] # "HALTED"}

(* The sweep goes on with what is left of it, and hands the bar back at its end. *)
Sweep(at, left, exits) ==
    LET done == at = {} /\ left = {}
    IN  /\ sweep' = IF done THEN NoSweep ELSE [at |-> at, left |-> left, exits |-> exits \cap left]
        /\ bar' = IF done THEN NoBar ELSE bar

(* on_bar at "shutdown": the account is read and the alert goes out, unless
   every router is frozen; then _shutdown turns to the routers, the states of
   which only it changes while it has the lock. *)
ShutDown ==
    /\ bar.kill = "shutdown" /\ Unlocked
    /\ alerts' = IF \E i \in Instruments : st[i] # "HALTED" THEN alerts + 1 ELSE alerts
    /\ Sweep({}, ShutDownRouters, Exits)
    /\ UNCHANGED <<st, intent, flight, stray, pos, news, equity, cut, late, entries, lost, crashes>>

SweepExit(i) ==
    /\ sweep.at = {} /\ i \in sweep.exits
    /\ st' = [st EXCEPT ![i] = "EXIT_PENDING"]
    /\ Sweep({i}, sweep.left \ {i}, sweep.exits)
    /\ UNCHANGED <<intent, flight, stray, pos, news, equity, alerts, cut, late, entries, lost, crashes>>

(* The exit was answered, refused or given up on, or there was none: the
   router halts, and an entry in flight is then one nobody waits for. *)
SweepHalt(i) ==
    /\ sweep.at = {i} \/ (sweep.at = {} /\ i \in sweep.left \ sweep.exits)
    /\ st' = [st EXCEPT ![i] = "HALTED"]
    /\ intent' = [intent EXCEPT ![i] = 0]
    /\ flight' = [flight EXCEPT ![i] = 0]
    /\ stray' = Astray(i)
    /\ Sweep({}, sweep.left \ {i}, sweep.exits)
    /\ UNCHANGED <<pos, news, equity, alerts, cut, late, entries, lost, crashes>>

(* on_bar of a flat router whose strategy wants a side.  The submission is
   accepted, or refused, or its answer never comes: then the router halts and
   the order may be at the venue or not. *)
Accepted(i, amount) ==
    /\ st' = [st EXCEPT ![i] = "ENTRY_PENDING"]
    /\ intent' = [intent EXCEPT ![i] = amount]
    /\ flight' = [flight EXCEPT ![i] = amount]
    /\ UNCHANGED <<stray, lost>>

Refused == UNCHANGED <<st, intent, flight, stray, lost>>

Lost(i, amount) ==
    /\ lost < MaxLost
    /\ lost' = lost + 1
    /\ st' = [st EXCEPT ![i] = "HALTED"]
    /\ stray' \in {stray, [stray EXCEPT ![i][Sign(amount)] = @ + Abs(amount)]}
    /\ UNCHANGED <<intent, flight>>

Enter(i, sign) ==
    LET amount == sign * Room(i, sign)
    IN  /\ bar = Bar(i, "run")
        /\ st[i] = "FLAT"
        /\ entries < MaxEntries
        /\ equity > 0
        /\ Room(i, sign) > 0
        /\ entries' = entries + 1
        /\ Accepted(i, amount) \/ Refused \/ Lost(i, amount)
        /\ bar' = NoBar
        /\ late' = IF AtLimit(equity) THEN late + 1 ELSE 0
        /\ UNCHANGED <<pos, news, equity, sweep, alerts, cut, crashes>>

(* _exit sends a reduce-only order for the whole position. *)
Exit(i) ==
    /\ Unlocked /\ st[i] = "OPEN"
    /\ st' = [st EXCEPT ![i] = "EXIT_PENDING"]
    /\ UNCHANGED <<intent, flight, stray, pos, news, equity, limit, entries, lost, crashes>>

(* The router follows the venue's size and waits for nothing any more: an
   entry still at the venue is one no guard will count. *)
Settled(i) == IF pos[i] = 0 THEN "FLAT" ELSE "OPEN"

Settle(i) ==
    /\ st' = IF st[i] = "HALTED" THEN st ELSE [st EXCEPT ![i] = Settled(i)]
    /\ intent' = [intent EXCEPT ![i] = 0]
    /\ flight' = [flight EXCEPT ![i] = 0]
    /\ stray' = Astray(i)

(* handle_event. *)
HandleEvent(i) ==
    /\ Unlocked /\ news[i]
    /\ news' = [news EXCEPT ![i] = FALSE]
    /\ Settle(i)
    /\ UNCHANGED <<pos, equity, limit, entries, lost, crashes>>

(* check_pending: no answer in time. *)
CheckPending(i) ==
    /\ Unlocked /\ st[i] \in {"ENTRY_PENDING", "EXIT_PENDING"}
    /\ flight[i] # 0 => lost < MaxLost
    /\ lost' = IF flight[i] # 0 THEN lost + 1 ELSE lost
    /\ Settle(i)
    /\ UNCHANGED <<pos, news, equity, limit, entries, crashes>>

(* BUG: the row of a halted router is read like any other. *)
BugForgetsHalt(i, exits) ==
    CASE st[i] = "ENTRY_PENDING" /\ flight[i] # 0 -> "ENTRY_PENDING"
      [] i \in exits -> "EXIT_PENDING"
      [] OTHER -> Settled(i)

(* recover: a router with an order still resting keeps waiting for
   it; the others take the venue's size; HALTED stays. *)
RecoveredState(i, exits) ==
    CASE st[i] = "HALTED" -> "HALTED"
      [] st[i] = "ENTRY_PENDING" /\ flight[i] # 0 -> "ENTRY_PENDING"
      [] st[i] = "EXIT_PENDING" /\ i \in exits -> "EXIT_PENDING"
      [] OTHER -> Settled(i)

(* The process ended, wherever it was, and starts again: the intents are gone,
   and of the exits some rest at the venue. *)
Recover ==
    /\ crashes < MaxCrash
    /\ crashes' = crashes + 1
    /\ \E exits \in SUBSET {i \in Instruments : st[i] = "EXIT_PENDING"} :
          st' = [i \in Instruments |-> RecoveredState(i, exits)]
    /\ intent' = [i \in Instruments |-> 0]
    /\ flight' = [i \in Instruments |-> 0]
    /\ stray' = [i \in Instruments |-> Astray(i)[i]]
    /\ news' = [i \in Instruments |-> FALSE]
    /\ bar' = NoBar
    /\ sweep' = NoSweep
    /\ cut' = IF Unlocked THEN cut ELSE cut + 1
    /\ UNCHANGED <<pos, equity, alerts, late, entries, lost>>

---------------------------------------------------------------------------
(* The venue.  An order executes in full, in part with the rest cancelled, or
   not at all. *)
Parts(x) == {0, x \div 2, x}

Execute(i) ==
    /\ flight[i] # 0
    /\ \E part \in Parts(Abs(flight[i])) :
          pos' = [pos EXCEPT ![i] = @ + Sign(flight[i]) * part]
    /\ flight' = [flight EXCEPT ![i] = 0]
    /\ news' = [news EXCEPT ![i] = TRUE]
    /\ UNCHANGED <<st, intent, stray, equity, limit, entries, lost, crashes>>

(* The report of a stray that did not fill is about no pending order; that of
   an adopted one is. *)
ExecuteStray(i, sign) ==
    /\ stray[i][sign] # 0
    /\ \E part \in Parts(stray[i][sign]) :
          /\ pos' = [pos EXCEPT ![i] = @ + sign * part]
          /\ news' = [news EXCEPT ![i] = @ \/ part # 0 \/ (st[i] = "ENTRY_PENDING" /\ flight[i] = 0)]
    /\ stray' = [stray EXCEPT ![i][sign] = 0]
    /\ UNCHANGED <<st, intent, flight, equity, limit, entries, lost, crashes>>

(* An exit order or the stop closes the position. *)
Close(i) ==
    /\ pos[i] # 0
    /\ pos' = [pos EXCEPT ![i] = 0]
    /\ news' = [news EXCEPT ![i] = TRUE]
    /\ UNCHANGED <<st, intent, flight, stray, equity, limit, entries, lost, crashes>>

Revalue ==
    /\ equity' \in Equities \ {equity}
    /\ late' = IF AtLimit(equity') THEN late ELSE 0
    /\ UNCHANGED <<st, intent, flight, stray, pos, news, bar, sweep, alerts, cut, entries, lost, crashes>>

Init ==
    /\ st = [i \in Instruments |-> "FLAT"]
    /\ intent = [i \in Instruments |-> 0]
    /\ flight = [i \in Instruments |-> 0]
    /\ stray = [i \in Instruments |-> [sign \in Signs |-> 0]]
    /\ pos = [i \in Instruments |-> 0]
    /\ news = [i \in Instruments |-> FALSE]
    /\ equity = StartEquity
    /\ bar = NoBar
    /\ sweep = NoSweep
    /\ alerts = 0
    /\ cut = 0
    /\ late = 0
    /\ entries = 0
    /\ lost = 0
    /\ crashes = 0

RouterOf(i) ==
    \/ \E sign \in Signs : Enter(i, sign)
    \/ Exit(i)
    \/ HandleEvent(i)
    \/ CheckPending(i)

Venue(i) ==
    \/ Execute(i)
    \/ \E sign \in Signs : ExecuteStray(i, sign)
    \/ Close(i)

Next ==
    \/ \E i \in Instruments : RouterOf(i) \/ Venue(i)
    \/ \E i \in Instruments : Judge(i)
    \/ BarDone
    \/ ShutDown
    \/ \E i \in Instruments : SweepExit(i) \/ SweepHalt(i)
    \/ Recover
    \/ Revalue

Spec == Init /\ [][Next]_vars

---------------------------------------------------------------------------
StrayOf(i) == stray[i][1] + stray[i][-1]
Unseen == Total(Instruments, [i \in Instruments |-> StrayOf(i)])

Gross == Total(Instruments, [i \in Instruments |-> Abs(pos[i]) + Abs(flight[i]) + StrayOf(i)])

NetOf(S) ==
    Total(S, [i \in Instruments |-> pos[i] + flight[i] + stray[i][1] - stray[i][-1]])

Sent(i) == entries' > entries /\ (flight'[i] # flight[i] \/ stray'[i] # stray[i])

(* kill_switch.py:8, "A persisting breach alerts once" (order_router.py:567):
   however often the equity crosses its limits, whatever fills, and wherever
   the process dies, a shutdown is raised again only for one that was cut
   short between two of its routers. *)
ShutdownOnce == alerts <= 1 + cut

(* "halt EVERY router" (order_router.py:566): from the alert on no instrument
   sends an entry, not when the equity is back and not after a restart, unless
   the restart cut a shutdown short (or an operator cleared a halt). *)
NoEntryAfterShutdown == [][alerts > cut => entries' = entries]_vars

(* kill_switch.py:7: at or below the pause limit no entry is sent but the one
   whose verdict was already taken. *)
LimitBites == late <= 1

(* portfolio_exposure.py:18: whatever is filled, in flight or half reported on
   the other instruments, an entry never takes the account past its gross cap,
   but for the orders no guard can see (order_router.py:540). *)
EntryWithinGross ==
    [][(\E i \in Instruments : Sent(i)) => Gross' <= GrossCap + Unseen]_vars

(* portfolio_exposure.py:19: an entry in a cluster where nothing pending leans
   the other way leaves the cluster within its net cap, long or short, whatever
   it holds. *)
EntryWithinCluster ==
    [][\A i \in Instruments, sign \in Signs :
        (/\ Sent(i)
         /\ sign * (NetOf({i})' - NetOf({i})) > 0
         /\ \A j \in Cluster(i) : Counted(j) => sign * intent[j] > 0)
        => sign * NetOf(Cluster(i))' <= ClusterCap + Unseen]_vars
=============================================================================
