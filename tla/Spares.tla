------------------------------- MODULE Spares -------------------------------
(***************************************************************************)
(* internal/runtime/spare.go and the launch path of supervisor.go: the     *)
(* pre-booted agent processes, who owns each process, and Close.           *)
(*                                                                         *)
(* A call of Launch creates at most one process of its own and at most one *)
(* spare, so the call names both.  A section under Supervisor.mu is one    *)
(* step; what runs between two sections is a step of its own.  What a      *)
(* process was started as is its launch key and whether it was given the   *)
(* caller's environment.  A call that fails before it touches state        *)
(* (prepareAgent) is left out; a process that cannot be started is not.    *)
(***************************************************************************)
EXTENDS Naturals

CONSTANTS
    Agents,      \* agent ids of the catalog
    Keys,        \* spareKey: command, working directory and arguments
    Calls,       \* calls of Launch, each made once
    None         \* no spare, no process

Procs == {"own", "spare"} \X Calls

ASSUME SpareConstants ==
    None \notin Calls /\ None \notin Procs /\ None \notin {"running", "ended"}

LaunchedAs == [key : Keys, env : BOOLEAN]
NotLaunched == [key |-> None, env |-> FALSE]

VARIABLES
    pc,        \* call -> where Launch is
    agent,     \* call -> its agent
    want,      \* call -> what it launches: the prepared agent and the overrides
    took,      \* call -> the spare claimSpare took from the map, or None
    got,       \* call -> the process it returns, or None
    slot,      \* s.spares: agent -> the spare, named by its call, or None
    refill,    \* spare -> where the goroutine of refillSpare is
    timer,     \* spare -> its idle timer
    wg,        \* s.sparesWG
    closed,    \* s.closed
    closing,   \* where Close is
    toStop,    \* the spares Close has yet to stop
    as,        \* process -> what it was started as
    alive,     \* the processes that have not exited
    draining,  \* those whose stderr is still captured
    ring,      \* the keys of s.logs
    discards,  \* the calls of Discard under way
    outlasted, \* the processes that outlasted the bounded waits of a Discard
    record     \* s.runtimes: process -> its status, or None

vars == <<pc, agent, want, took, got, slot, refill, timer, wg, closed,
          closing, toStop, as, alive, draining, ring, outlasted, discards, record>>

callVars == <<pc, agent, want, took, got>>
spareVars == <<slot, refill, timer>>
closeVars == <<closed, closing, toStop>>
procVars == <<as, alive, draining, ring, outlasted>>

SpareOf(sp) == <<"spare", sp>>

\* sp.proc, set by the goroutine of refillSpare once and for all.
ProcOf(sp) == IF refill[sp] = "ready" THEN SpareOf(sp) ELSE None

\* The daemon calls EnableSpares before anything can launch.
Init ==
    /\ pc = [c \in Calls |-> "new"]
    /\ agent \in [Calls -> Agents]
    /\ want = [c \in Calls |-> NotLaunched]
    /\ took = [c \in Calls |-> None] /\ got = [c \in Calls |-> None]
    /\ slot = [a \in Agents |-> None]
    /\ refill = [c \in Calls |-> "none"] /\ timer = [c \in Calls |-> "off"]
    /\ wg = 0 /\ closed = FALSE /\ closing = "no" /\ toStop = {}
    /\ as = [p \in Procs |-> NotLaunched]
    /\ alive = {} /\ draining = {} /\ ring = {} /\ outlasted = {} /\ discards = {}
    /\ record = [p \in Procs |-> None]

\* spawn: the process runs and its stderr is captured.
Spawned(p, how) ==
    /\ as' = [as EXCEPT ![p] = how]
    /\ alive' = alive \cup {p}
    /\ draining' = draining \cup {p}
    /\ UNCHANGED <<ring, outlasted>>

-----------------------------------------------------------------------------
(* Launch.                                                                 *)

\* A spare runs on the daemon environment, so env overrides launch cold.
FirstStop(env) == IF env THEN "cold" ELSE "claim"

\* Launch up to claimSpare, with the agent as the catalog describes it now: any
\* refresh of the registry may have come before.
Launch(c, key, env) ==
    /\ pc[c] = "new"
    /\ want' = [want EXCEPT ![c] = [key |-> key, env |-> env]]
    /\ pc' = [pc EXCEPT ![c] = FirstStop(env)]
    /\ UNCHANGED <<agent, took, got, spareVars, wg, closeVars, procVars, discards, record>>

\* A claim counted only when it turns into a discard.
ClaimUncounted == 0

\* "under mu, so Close's Wait covers the discard below".
ClaimCounted == 1

\* claimSpare, the section under mu.
ClaimSpare(c) ==
    LET sp == slot[agent[c]] IN
    /\ pc[c] = "claim"
    /\ IF sp = None \/ refill[sp] # "ready"
       THEN /\ pc' = [pc EXCEPT ![c] = "cold"]
            /\ UNCHANGED <<took, slot, wg>>
       ELSE /\ slot' = [slot EXCEPT ![agent[c]] = None]
            /\ took' = [took EXCEPT ![c] = sp]
            /\ wg' = wg + ClaimCounted
            /\ pc' = [pc EXCEPT ![c] = "claimed"]
    /\ UNCHANGED <<agent, want, got, refill, timer, closeVars, procVars, discards, record>>

\* A hand-over without its Done.
KeptOnHandover == 0

\* The Done of a spare that is handed over.
ReleasedOnHandover == ClaimCounted

\* A claim that trusts the agent id.
MatchesAgent(p, c) == TRUE

\* The launch key comparison of claimSpare.
Matches(p, c) == as[p].key = want[c].key

\* claimSpare after the section: stop the timer, then hand the process over
\* or, when it died or no longer matches, discard it in the background.
TakeSpare(c) ==
    LET sp == took[c]
        p == SpareOf(sp)
    IN
    /\ pc[c] = "claimed"
    /\ took' = [took EXCEPT ![c] = None]
    /\ timer' = [timer EXCEPT ![sp] = IF @ = "armed" THEN "off" ELSE @]
    /\ IF p \in alive /\ Matches(p, c)
       THEN /\ got' = [got EXCEPT ![c] = p]
            /\ pc' = [pc EXCEPT ![c] = "register"]
            /\ wg' = wg - ReleasedOnHandover
            /\ UNCHANGED discards
       ELSE /\ pc' = [pc EXCEPT ![c] = "cold"]
            /\ discards' = discards \cup {[proc |-> p, by |-> "claim", at |-> "stop"]}
            /\ wg' = wg + 1 - ClaimCounted
            /\ UNCHANGED got
    /\ UNCHANGED <<agent, want, slot, refill, closeVars, procVars, record>>

\* launchProcess: a process of its own, or the error Launch returns.
LaunchProcess(c) ==
    /\ pc[c] = "cold"
    /\ \/ /\ Spawned(<<"own", c>>, want[c])
          /\ got' = [got EXCEPT ![c] = <<"own", c>>]
          /\ pc' = [pc EXCEPT ![c] = "register"]
       \/ /\ pc' = [pc EXCEPT ![c] = "failed"]
          /\ UNCHANGED <<got, procVars>>
    /\ UNCHANGED <<agent, want, took, spareVars, wg, closeVars, discards, record>>

\* register: nobody looks at the record between its two sections under mu.
Register(c) ==
    /\ pc[c] = "register"
    /\ record' = [record EXCEPT ![got[c]] = "running"]
    /\ pc' = [pc EXCEPT ![c] = IF want[c].env THEN "returned" ELSE "refill"]
    /\ UNCHANGED <<agent, want, took, got, spareVars, wg, closeVars, procVars, discards>>

\* The early return of refillSpare: Close also takes the map away.
MayRefill(a) == ~closed /\ slot[a] = None

\* refillSpare up to the goroutine it starts; Launch returns.
RefillSpare(c) ==
    /\ pc[c] = "refill"
    /\ pc' = [pc EXCEPT ![c] = "returned"]
    /\ IF MayRefill(agent[c])
       THEN /\ slot' = [slot EXCEPT ![agent[c]] = c]
            /\ refill' = [refill EXCEPT ![c] = "spawning"]
            /\ wg' = wg + 1
       ELSE UNCHANGED <<slot, refill, wg>>
    /\ UNCHANGED <<agent, want, took, got, timer, closeVars, procVars, discards, record>>

-----------------------------------------------------------------------------
(* The goroutine of refillSpare and the idle timer.                        *)

\* spawn(agent, nil): the spare never sees the overrides of its launch.
RefillSpawn(sp) ==
    /\ refill[sp] = "spawning"
    /\ \/ /\ Spawned(SpareOf(sp), [want[sp] EXCEPT !.env = FALSE])
          /\ refill' = [refill EXCEPT ![sp] = "spawned"]
       \/ /\ refill' = [refill EXCEPT ![sp] = "failed"]
          /\ UNCHANGED procVars
    /\ UNCHANGED <<callVars, slot, timer, wg, closeVars, discards, record>>

\* The check after spawn: the spare was not closed or replaced meanwhile.
Publishes(sp) == refill[sp] = "spawned" /\ ~closed /\ slot[agent[sp]] = sp

\* The section after spawn: publish the process and arm its timer, or give the
\* slot back and discard the process, which the goroutine then waits for.
RefillPublish(sp) ==
    LET a == agent[sp] IN
    /\ refill[sp] \in {"spawned", "failed"}
    /\ IF Publishes(sp)
       THEN /\ refill' = [refill EXCEPT ![sp] = "ready"]
            /\ timer' = [timer EXCEPT ![sp] = "armed"]
            /\ wg' = wg - 1
            /\ UNCHANGED <<slot, discards>>
       ELSE /\ refill' = [refill EXCEPT ![sp] = "gone"]
            /\ slot' = IF slot[a] = sp THEN [slot EXCEPT ![a] = None] ELSE slot
            /\ IF refill[sp] = "spawned"
               THEN /\ discards' = discards \cup {[proc |-> SpareOf(sp), by |-> "refill", at |-> "stop"]}
                    /\ UNCHANGED wg
               ELSE wg' = wg - 1 /\ UNCHANGED discards
            /\ UNCHANGED timer
    /\ UNCHANGED <<callVars, closeVars, procVars, record>>

\* spareIdleTTL is over: the callback runs on a goroutine of its own.
TimerFires(sp) ==
    /\ timer[sp] = "armed"
    /\ timer' = [timer EXCEPT ![sp] = "fired"]
    /\ UNCHANGED <<callVars, slot, refill, wg, closeVars, procVars, discards, record>>

\* A callback that does not ask whether the spare was claimed.
StillIdleAssumed(sp) == TRUE

\* The callback's check under mu.
StillIdle(sp) == slot[agent[sp]] = sp

\* The callback of the timer.
TimerExpires(sp) ==
    /\ timer[sp] = "fired"
    /\ timer' = [timer EXCEPT ![sp] = "off"]
    /\ IF StillIdle(sp)
       THEN /\ slot' = [slot EXCEPT ![agent[sp]] = None]
            /\ wg' = wg + 1
            /\ discards' = discards \cup {[proc |-> SpareOf(sp), by |-> "timer", at |-> "stop"]}
       ELSE UNCHANGED <<slot, wg, discards>>
    /\ UNCHANGED <<callVars, refill, closeVars, procVars, record>>

-----------------------------------------------------------------------------
(* Discard and Close.                                                      *)

\* Process.Stop: interrupt, wait, kill, wait; the last wait is bounded.
DiscardStops(d) ==
    /\ d \in discards /\ d.at = "stop"
    /\ \/ alive' = alive \ {d.proc} /\ UNCHANGED outlasted
       \/ d.proc \in alive /\ outlasted' = outlasted \cup {d.proc} /\ UNCHANGED alive
    /\ discards' = (discards \ {d}) \cup {[d EXCEPT !.at = "drain"]}
    /\ UNCHANGED <<callVars, spareVars, wg, closeVars, as, draining, ring, record>>

\* A discard that does not wait for stderr.
NotDrained(p) == {}

\* The wait for logsDone is bounded by a second: whom it gives up on.
UndrainedBy(p) == draining \cap {p}

\* Discard drops the log ring; a goroutine that called it is done.
DiscardDrops(d) ==
    /\ d \in discards /\ d.at = "drain"
    /\ outlasted' = outlasted \cup UndrainedBy(d.proc)
    /\ ring' = ring \ {d.proc}
    /\ discards' = discards \ {d}
    /\ wg' = IF d.by = "close" THEN wg ELSE wg - 1
    /\ UNCHANGED <<callVars, spareVars, closeVars, as, alive, draining, record>>

\* Close, the section under mu: no spare is left to claim, none may follow.
Close ==
    /\ closing = "no"
    /\ closing' = "stopping" /\ closed' = TRUE
    /\ toStop' = {sp \in Calls : slot[agent[sp]] = sp /\ ProcOf(sp) # None}
    /\ slot' = [a \in Agents |-> None]
    /\ UNCHANGED <<callVars, refill, timer, wg, procVars, discards, record>>

\* One round of Close's loop; the map is ranged over in any order.
CloseStops(sp) ==
    /\ closing = "stopping" /\ sp \in toStop
    /\ \A d \in discards : d.by # "close"
    /\ toStop' = toStop \ {sp}
    /\ timer' = [timer EXCEPT ![sp] = IF @ = "armed" THEN "off" ELSE @]
    /\ discards' = discards \cup {[proc |-> SpareOf(sp), by |-> "close", at |-> "stop"]}
    /\ UNCHANGED <<callVars, slot, refill, wg, closed, closing, procVars, record>>

\* A Close that returns without waiting.
NoWait == TRUE

\* sparesWG.Wait.
Waited == wg = 0

\* Close returns.
CloseReturns ==
    /\ closing = "stopping" /\ toStop = {} /\ \A d \in discards : d.by # "close"
    /\ Waited
    /\ closing' = "returned"
    /\ UNCHANGED <<callVars, spareVars, wg, closed, toStop, procVars, discards, record>>

-----------------------------------------------------------------------------
(* The processes, and the session that owns one.                           *)

\* The process of a launch that has returned is the session's: SessionEnds.
Returned(p) == \E c \in Calls : pc[c] = "returned" /\ got[c] = p

\* cmd.Wait returns: the process exited by itself or was stopped.
Exits(p) ==
    /\ p \in alive /\ ~Returned(p)
    /\ alive' = alive \ {p}
    /\ UNCHANGED <<callVars, spareVars, wg, closeVars, as, draining, ring, outlasted, discards, record>>

\* captureLogs appends the last of stderr and ends: Wait closes the pipe once
\* the process has exited.
Drained(p) ==
    /\ p \in draining \ alive /\ ~Returned(p)
    /\ ring' = ring \cup {p}
    /\ draining' = draining \ {p}
    /\ UNCHANGED <<callVars, spareVars, wg, closeVars, as, alive, outlasted, discards, record>>

\* The session's process exits, its stderr is captured to the end and the
\* session calls RecordExit, which may append a line of its own.
SessionEnds(c) ==
    /\ pc[c] = "returned" /\ record[got[c]] = "running"
    /\ alive' = alive \ {got[c]} /\ draining' = draining \ {got[c]}
    /\ ring' = ring \cup {got[c]}
    /\ record' = [record EXCEPT ![got[c]] = "ended"]
    /\ UNCHANGED <<callVars, spareVars, wg, closeVars, as, outlasted, discards>>

\* pruneStoppedRuntimesLocked, ten minutes after the exit.
Prune(p) ==
    /\ record[p] = "ended"
    /\ record' = [record EXCEPT ![p] = None]
    /\ ring' = ring \ {p}
    /\ UNCHANGED <<callVars, spareVars, wg, closeVars, as, alive, draining, outlasted, discards>>

LaunchStep(c) ==
    \/ ClaimSpare(c) \/ TakeSpare(c) \/ LaunchProcess(c)
    \/ Register(c) \/ RefillSpare(c)

SpareStep(sp) == RefillSpawn(sp) \/ RefillPublish(sp) \/ TimerFires(sp) \/ TimerExpires(sp)

DiscardStep(p) == \E d \in discards : d.proc = p /\ (DiscardStops(d) \/ DiscardDrops(d))

CloseStep == CloseReturns \/ \E sp \in Calls : CloseStops(sp)

Next ==
    \/ \E c \in Calls, key \in Keys, env \in BOOLEAN : Launch(c, key, env)
    \/ \E c \in Calls : LaunchStep(c) \/ SpareStep(c) \/ SessionEnds(c)
    \/ \E p \in Procs : DiscardStep(p) \/ Exits(p) \/ Drained(p) \/ Prune(p)
    \/ Close \/ CloseStep

Spec == Init /\ [][Next]_vars

\* Goroutines run, timers fire, a killed process dies and its pipe closes.
Fairness ==
    /\ \A c \in Calls : WF_vars(LaunchStep(c)) /\ WF_vars(SpareStep(c))
    /\ \A p \in Procs : WF_vars(DiscardStep(p)) /\ WF_vars(Drained(p))
    /\ WF_vars(CloseStep)

FairSpec == Spec /\ Fairness

-----------------------------------------------------------------------------
(* Properties.                                                             *)

TypeOK ==
    /\ agent \in [Calls -> Agents]
    /\ pc \in [Calls -> {"new", "claim", "claimed", "cold", "register", "refill",
                        "returned", "failed"}]
    /\ want \in [Calls -> LaunchedAs \cup {NotLaunched}]
    /\ as \in [Procs -> LaunchedAs \cup {NotLaunched}]
    /\ took \in [Calls -> Calls \cup {None}] /\ got \in [Calls -> Procs \cup {None}]
    /\ slot \in [Agents -> Calls \cup {None}]
    /\ refill \in [Calls -> {"none", "spawning", "spawned", "failed", "ready", "gone"}]
    /\ timer \in [Calls -> {"off", "armed", "fired"}]
    /\ wg \in Nat /\ closed \in BOOLEAN /\ closing \in {"no", "stopping", "returned"}
    /\ toStop \subseteq Calls
    /\ alive \cup draining \cup ring \cup outlasted \subseteq Procs
    /\ discards \subseteq [proc : Procs, by : {"claim", "refill", "timer", "close"},
                           at : {"stop", "drain"}]
    /\ record \in [Procs -> {None, "running", "ended"}]

\* Who is responsible for a process: the caller of Launch, a claim between its
\* two sections, a refill that holds it, the map, Close, a Discard.
Owners(p) ==
    {<<"caller", c>> : c \in {x \in Calls : got[x] = p}}
    \cup {<<"claim", c>> : c \in {x \in Calls : pc[x] = "claimed" /\ SpareOf(took[x]) = p}}
    \cup {<<"refill", sp>> : sp \in {x \in Calls : refill[x] = "spawned" /\ SpareOf(x) = p}}
    \cup {<<"slot", sp>> : sp \in {x \in Calls : ProcOf(x) = p /\ slot[agent[x]] = x}}
    \cup {<<"close", sp>> : sp \in {x \in toStop : SpareOf(x) = p}}
    \cup {<<"discard", d.by>> : d \in {x \in discards : x.proc = p}}

\* A claim, the idle timer, a refill that lost its slot and Close all act on the
\* same spare between sections of the mutex: a process is never in two hands,
\* so one that a session was given is never stopped as a spare or given twice,
\* and a process nobody is responsible for has exited (or outlasted the kill).
OneOwner ==
    \A p \in Procs :
        /\ \A o, q \in Owners(p) : o = q
        /\ p \in alive \ outlasted => Owners(p) # {}

\* "a catalog change (a new registry version, edited custom agent args) never
\* hands out a stale one" (spareKey) and "A spare runs on the daemon
\* environment, so env overrides launch cold" (Launch): the process returned
\* was started as the call asked, however long ago it was booted.
LaunchedAsAsked == \A c \in Calls : got[c] # None => as[got[c]] = want[c]

\* "Close stops every spare and keeps new ones from starting": when it returns,
\* what still runs belongs to a caller of Launch, whatever refill, claim or
\* timer it overtook.
CloseLeavesNoSpare ==
    closing = "returned" =>
        \A p \in alive \cup ring :
            p \in outlasted \cup draining \/ \E c \in Calls : got[c] = p

\* "under mu, so Close's Wait covers the discard below" (claimSpare): once the
\* supervisor is closed the wait group only goes down, so no Add can race Wait.
CountedBeforeWait == [][closed => wg' <= wg]_vars

\* "drops its log ring once stderr has drained, so it leaves nothing behind"
\* (Discard) and "each eviction also drops its log ring" (prune): a ring is
\* kept only for a process that is tracked, owned or still being captured.
RingsAccountedFor ==
    \A p \in ring :
        \/ p \in draining \cup outlasted
        \/ record[p] # None
        \/ \E o \in Owners(p) : o[1] # "caller" \/ pc[o[2]] # "returned"

\* However claims, refills, idle timers, Discards and Close overlap, every
\* process is in one pair of hands, is what its caller asked for, and leaves
\* neither a spare nor a log ring behind.
SparesAccountedFor ==
    OneOwner /\ LaunchedAsAsked /\ CloseLeavesNoSpare /\ RingsAccountedFor

\* Close returns: every claim, refill and timer it waits for lets go of the
\* wait group, whatever failed on the way.
CloseEnds == closing = "stopping" ~> closing = "returned"
=============================================================================
