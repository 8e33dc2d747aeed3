------------------------------ MODULE Projects ------------------------------
(***************************************************************************)
(* internal/projects: the listing of each agent's chats (lister.go,        *)
(* queue.go, resources.go).  Requesters of one agent share a call; calls   *)
(* compete for slots; a call lists on the agent's warm process or on a     *)
(* fresh one, and parks it again; warm processes leave by a timer, by      *)
(* memory pressure or by Close.  Everything under l.mu is one step.        *)
(*                                                                         *)
(* Where a chat is placed in the file system, and the contents of lines,   *)
(* are left out.                                                           *)
(***************************************************************************)
EXTENDS Naturals, Sequences, FiniteSets, FiniteSetsExt, Functions

CONSTANTS
    ListedAgents, \* agent ids
    Requesters,   \* requests that ask for one agent's line
    Slots,        \* maxConcurrentAgents
    MaxCalls      \* bound: listing calls

VARIABLES
    asker,      \* requester -> stage, call and line
    calls,      \* every listingCall: agent, waiters, started, cancelled, stage, proc, line
    pending,    \* l.pending: agent -> call or 0
    cached,     \* agents with a line younger than cacheTTL
    warm,       \* l.warm: agent -> process or 0
    lastUsed,   \* agent -> when its process was parked last
    procs,      \* every process: agent, alive, use, timer
    lister      \* "open", "closing" or "closed"

listVars == <<asker, calls, pending, cached, warm, lastUsed, procs, lister>>
parked == <<warm, lastUsed>>

CallIds == 1 .. Len(calls)
ListProcs == 1 .. Len(procs)
Nothing == 0
Waiting(q) == asker[q].at = "waiting"

ListInit ==
    /\ asker = [q \in Requesters |-> [at |-> "idle", call |-> Nothing, line |-> "none"]]
    /\ calls = <<>> /\ procs = <<>>
    /\ pending = [a \in ListedAgents |-> Nothing]
    /\ warm = [a \in ListedAgents |-> Nothing] /\ lastUsed = [a \in ListedAgents |-> 0]
    /\ cached = {}
    /\ lister = "open"
-----------------------------------------------------------------------------
(* Requesters: queue.go agentLine and releaseRequester.                    *)

Answered(q, line) == asker' = [asker EXCEPT ![q] = [@ EXCEPT !.at = "done", !.line = line]]
Joins(q, c) == asker' = [asker EXCEPT ![q] = [@ EXCEPT !.at = "waiting", !.call = c]]

AnsweredAtOnce(q, a) ==
    /\ asker[q].at = "idle"
    /\ lister # "open" \/ a \in cached
    /\ Answered(q, IF lister # "open" THEN "closed" ELSE "listed")
    /\ UNCHANGED <<calls, pending, cached, parked, procs, lister>>

JoinsCall(q, a) ==
    /\ asker[q].at = "idle" /\ lister = "open" /\ a \notin cached
    /\ pending[a] # Nothing
    /\ Joins(q, pending[a])
    /\ calls' = [calls EXCEPT ![pending[a]].waiters = @ + 1]
    /\ UNCHANGED <<pending, cached, parked, procs, lister>>

StartsCall(q, a) ==
    /\ asker[q].at = "idle" /\ lister = "open" /\ a \notin cached
    /\ pending[a] = Nothing /\ Len(calls) < MaxCalls
    /\ calls' = Append(calls, [agent |-> a, waiters |-> 1, started |-> FALSE,
                               cancelled |-> FALSE, stage |-> "queued",
                               proc |-> Nothing, line |-> "none"])
    /\ pending' = [pending EXCEPT ![a] = Len(calls) + 1]
    /\ Joins(q, Len(calls) + 1)
    /\ UNCHANGED <<cached, parked, procs, lister>>

(* Whether the last requester to leave takes the call with it.             *)
Abandoned(c) == calls[c].waiters = 1 /\ ~calls[c].started

StillPending(a, c) == pending
Off(a, c) == IF pending[a] = c THEN [pending EXCEPT ![a] = Nothing] ELSE pending

releaseRequester(c) ==
    /\ calls' = [calls EXCEPT ![c].waiters = @ - 1, ![c].cancelled = @ \/ Abandoned(c)]
    /\ pending' = IF Abandoned(c) THEN Off(calls[c].agent, c) ELSE pending

ReceivesLine(q) ==
    LET c == asker[q].call
    IN  /\ Waiting(q) /\ calls[c].stage = "done"
        /\ Answered(q, calls[c].line)
        /\ releaseRequester(c)
        /\ UNCHANGED <<cached, parked, procs, lister>>

(* The device leaves: its request's context ends.                          *)
Leaves(q) ==
    /\ Waiting(q)
    /\ Answered(q, "left")
    /\ releaseRequester(asker[q].call)
    /\ UNCHANGED <<cached, parked, procs, lister>>
-----------------------------------------------------------------------------
(* Listing goroutines: queue.go runListing and admitListing, lister.go     *)
(* listAgent.                                                              *)

HasSlot == {"checking", "starting", "listing", "leaving"}
InUse == Cardinality({c \in CallIds : calls[c].stage \in HasSlot})
Moves(c, stage) == calls' = [calls EXCEPT ![c].stage = stage]

TakesSlot(c) ==
    /\ calls[c].stage = "queued" /\ InUse < Slots
    /\ Moves(c, "checking")
    /\ UNCHANGED <<asker, pending, cached, parked, procs, lister>>

(* The context ends before a slot is free.                                 *)
GivesUp(c) ==
    /\ calls[c].stage = "queued" /\ calls[c].cancelled
    /\ calls' = [calls EXCEPT ![c].stage = "ending", ![c].line = "cancelled"]
    /\ UNCHANGED <<asker, pending, cached, parked, procs, lister>>

Admitted(c) == ~calls[c].cancelled /\ lister = "open" /\ calls[c].waiters > 0

admitListing(c) ==
    /\ calls[c].stage = "checking"
    /\ calls' = IF Admitted(c)
                THEN [calls EXCEPT ![c].stage = "starting", ![c].started = TRUE]
                ELSE [calls EXCEPT ![c].stage = "ending", ![c].line = "cancelled"]
    /\ UNCHANGED <<asker, pending, cached, parked, procs, lister>>

(* connect: the warm process if it still runs, else a fresh one; a fresh   *)
(* process that cannot start, initialize or list ends the call's work.     *)
Runs(p) == procs[p].alive
Unarmed(p) == IF procs[p].timer = "armed" THEN "none" ELSE procs[p].timer
Becomes(p, use, timer) == procs' = [procs EXCEPT ![p] = [@ EXCEPT !.use = use, !.timer = timer]]
Unparks(a) == warm' = [warm EXCEPT ![a] = Nothing] /\ UNCHANGED lastUsed

TakesWarm(c) ==
    LET a == calls[c].agent
    IN  /\ calls[c].stage = "starting" /\ warm[a] # Nothing /\ Runs(warm[a])
        /\ Unparks(a)
        /\ Becomes(warm[a], "listing", Unarmed(warm[a]))
        /\ calls' = [calls EXCEPT ![c].stage = "listing", ![c].proc = warm[a]]
        /\ UNCHANGED <<asker, pending, cached, lister>>

DropsDead(c) ==
    LET a == calls[c].agent
    IN  /\ calls[c].stage = "starting" /\ warm[a] # Nothing /\ ~Runs(warm[a])
        /\ Unparks(a)
        /\ Becomes(warm[a], "stopping", Unarmed(warm[a]))
        /\ UNCHANGED <<asker, calls, pending, cached, lister>>

Spawns(c) ==
    LET a == calls[c].agent
    IN  /\ calls[c].stage = "starting" /\ warm[a] = Nothing
        /\ procs' = Append(procs, [agent |-> a, alive |-> TRUE, use |-> "listing",
                                   timer |-> "none"])
        /\ calls' = [calls EXCEPT ![c].stage = "listing", ![c].proc = Len(procs) + 1]
        /\ UNCHANGED <<asker, pending, cached, parked, lister>>

SpawnFails(c) ==
    /\ calls[c].stage = "starting" /\ warm[calls[c].agent] = Nothing
    /\ calls' = [calls EXCEPT ![c].stage = "leaving", ![c].line = "failed"]
    /\ UNCHANGED <<asker, pending, cached, parked, procs, lister>>

(* keepWarm after a full listing, under a clock that ticks when a process  *)
(* is parked.                                                              *)
Now == 1 + Max(Range(lastUsed))

Lists(c) ==
    LET p == calls[c].proc
        a == calls[c].agent
    IN  /\ calls[c].stage = "listing" /\ Runs(p)
        /\ calls' = [calls EXCEPT ![c].stage = "leaving", ![c].proc = Nothing,
                                  ![c].line = "listed"]
        /\ IF lister # "open"
           THEN Becomes(p, "stopping", procs[p].timer) /\ UNCHANGED parked
           ELSE /\ Becomes(p, "warm", IF procs[p].timer = "fired" THEN "fired" ELSE "armed")
                /\ warm' = [warm EXCEPT ![a] = p]
                /\ lastUsed' = [lastUsed EXCEPT ![a] = Now]
        /\ UNCHANGED <<asker, pending, cached, lister>>

(* The agent refuses, dies or times out, or the lister closes.             *)
ListFails(c) ==
    /\ calls[c].stage = "listing"
    /\ calls' = [calls EXCEPT ![c].stage = "leaving", ![c].proc = Nothing,
                              ![c].line = IF calls[c].cancelled THEN "cancelled" ELSE "failed"]
    /\ Becomes(calls[c].proc, "stopping", procs[calls[c].proc].timer)
    /\ UNCHANGED <<asker, pending, cached, parked, lister>>

FreesSlot(c) ==
    /\ calls[c].stage = "leaving"
    /\ Moves(c, "ending")
    /\ UNCHANGED <<asker, pending, cached, parked, procs, lister>>

runListingEnds(c) ==
    LET a == calls[c].agent
    IN  /\ calls[c].stage = "ending"
        /\ Moves(c, "done")
        /\ pending' = Off(a, c)
        /\ cached' = IF pending[a] = c /\ lister = "open" /\ ~calls[c].cancelled
                     THEN cached \cup {a} ELSE cached
        /\ UNCHANGED <<asker, parked, procs, lister>>
-----------------------------------------------------------------------------
(* Warm processes.                                                         *)

Stops(P) ==
    procs' = [p \in ListProcs |->
                IF p \in P THEN [procs[p] EXCEPT !.use = "stopping", !.timer = Unarmed(p)] ELSE procs[p]]

WarmTimerFires(p) ==
    /\ procs[p].timer = "armed"
    /\ Becomes(p, procs[p].use, "fired")
    /\ UNCHANGED <<asker, calls, pending, cached, parked, lister>>

StillOwned(p) == procs[p].use \in {"warm", "listing"}

(* The callback under l.mu: l.warm[id] == agent.                           *)
StillParked(p) == warm[procs[p].agent] = p

WarmTimerRuns(p) ==
    /\ procs[p].timer = "fired"
    /\ IF StillParked(p) THEN Unparks(procs[p].agent) ELSE UNCHANGED parked
    /\ Becomes(p, IF StillParked(p) THEN "stopping" ELSE procs[p].use, "none")
    /\ UNCHANGED <<asker, calls, pending, cached, lister>>

(* maintain: expired lines go, and under pressure the process idle the     *)
(* longest.                                                                *)
CacheExpires(a) ==
    /\ a \in cached
    /\ cached' = cached \ {a}
    /\ UNCHANGED <<asker, calls, pending, parked, procs, lister>>

IdleLongest(a) ==
    /\ warm[a] # Nothing
    /\ \A b \in ListedAgents : warm[b] # Nothing => lastUsed[a] <= lastUsed[b]

Pressure ==
    /\ lister = "open"
    /\ \E a \in ListedAgents : IdleLongest(a) /\ Stops({warm[a]}) /\ Unparks(a)
    /\ UNCHANGED <<asker, calls, pending, cached, lister>>

(* The goroutine of discardLocked ends; an agent may also die by itself.   *)
DiscardEnds(p) ==
    /\ procs[p].use = "stopping"
    /\ procs' = [procs EXCEPT ![p] = [@ EXCEPT !.use = "gone", !.alive = FALSE]]
    /\ UNCHANGED <<asker, calls, pending, cached, parked, lister>>

AgentDies(p) ==
    /\ procs[p].alive /\ procs[p].use # "stopping"
    /\ procs' = [procs EXCEPT ![p].alive = FALSE]
    /\ UNCHANGED <<asker, calls, pending, cached, parked, lister>>

ListerCloses ==
    /\ lister = "open"
    /\ lister' = "closing"
    /\ calls' = [c \in CallIds |->
                    IF c \in Range(pending)
                    THEN [calls[c] EXCEPT !.cancelled = TRUE] ELSE calls[c]]
    /\ Stops(Range(warm))
    /\ warm' = [a \in ListedAgents |-> Nothing]
    /\ UNCHANGED <<asker, pending, cached, lastUsed>>

ListerClosed ==
    /\ lister = "closing"
    /\ \A c \in CallIds : calls[c].stage = "done"
    /\ \A p \in ListProcs : procs[p].use # "stopping"
    /\ lister' = "closed"
    /\ UNCHANGED <<asker, calls, pending, cached, parked, procs>>

CallStep(c) ==
    \/ TakesSlot(c) \/ GivesUp(c) \/ admitListing(c) \/ TakesWarm(c) \/ DropsDead(c)
    \/ Spawns(c) \/ SpawnFails(c) \/ Lists(c) \/ ListFails(c) \/ FreesSlot(c)
    \/ runListingEnds(c)

ListNext ==
    \/ \E q \in Requesters :
        \/ ReceivesLine(q) \/ Leaves(q)
        \/ \E a \in ListedAgents : AnsweredAtOnce(q, a) \/ JoinsCall(q, a) \/ StartsCall(q, a)
    \/ \E c \in CallIds : CallStep(c)
    \/ \E p \in ListProcs : WarmTimerFires(p) \/ WarmTimerRuns(p) \/ DiscardEnds(p) \/ AgentDies(p)
    \/ \E a \in ListedAgents : CacheExpires(a)
    \/ Pressure \/ ListerCloses \/ ListerClosed

ListSpec == ListInit /\ [][ListNext]_listVars
-----------------------------------------------------------------------------
Listing(p) == {c \in CallIds : calls[c].stage = "listing" /\ calls[c].proc = p}

(* "the agent's one-flight-at-a-time listing means no other process of it  *)
(* is parked": every process the lister started and did not give up is     *)
(* parked or in the hands of exactly one call, so none runs on unnoticed,  *)
(* and none is left when Close returns.                                    *)
WarmNotLost ==
    /\ \A p \in ListProcs :
        /\ procs[p].use = "warm" => p \in Range(warm)
        /\ procs[p].use = "listing" => Cardinality(Listing(p)) = 1
        /\ Listing(p) # {} => procs[p].use = "listing"
    /\ \A a \in ListedAgents : warm[a] # Nothing => procs[warm[a]].agent = a /\ procs[warm[a]].use = "warm"
    /\ lister = "closed" => \A p \in ListProcs : procs[p].use = "gone"

(* A device that still waits, on a lister that is open, is never told that *)
(* the listing was cancelled because some other device left.               *)
NoBorrowedCancel ==
    [][\A q \in Requesters :
        (asker[q].at = "waiting" /\ asker'[q].line = "cancelled") => lister # "open"]_listVars
=============================================================================
