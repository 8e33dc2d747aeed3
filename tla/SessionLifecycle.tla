------------------------- MODULE SessionLifecycle -------------------------
(***************************************************************************)
(* The session registry of internal/session/lifecycle.go: Create, Restart, *)
(* Close, the reaper, Shutdown, the exit watcher of every agent process,   *)
(* and the WebSocket handlers of internal/api/session_handlers.go that     *)
(* attach to a session and detach from it, together with the session rows  *)
(* kept in SQLite and their reconciliation when the daemon starts.         *)
(*                                                                         *)
(* Each goroutine is cut where it releases a lock or does I/O; a critical  *)
(* section of rs.mu or of sess.mu is one step.  The reaper holds rs.mu     *)
(* from the moment it reads a session to the moment it re-checks it, so    *)
(* the actions that take rs.mu carry the guard RegistryUnlocked.  Between  *)
(* two sessions of one scan the model lets go of rs.mu, and it starts the  *)
(* teardown of an expired session before the scan is over: the code does   *)
(* neither, so the model has more interleavings than the code, never less. *)
(***************************************************************************)
EXTENDS Naturals, FiniteSets

CONSTANTS
    Sessions,       \* session ids generateID can return, each used once
    Devices,        \* paired devices
    MaxPerDevice,   \* Config.MaxPerDevice (a positive limit)
    Handlers,       \* WebSocket handler goroutines
    MaxGen,         \* bound: attaches per session
    MaxBoots,       \* bound: daemon restarts
    StoreMayFail,   \* whether SaveSession and DeleteSession can return an error
    None

ASSUME ConstantsAssumption ==
    /\ MaxPerDevice \in Nat \ {0}
    /\ MaxGen \in Nat
    /\ MaxBoots \in Nat
    /\ StoreMayFail \in BOOLEAN
    /\ None \notin Sessions \cup Devices
    /\ IsFiniteSet(Sessions)

VARIABLES
    closed,      \* rs.closed
    registry,    \* the keys of rs.sessions
    launching,   \* rs.launching: Creates between quota check and registration
    owner,       \* Session.DeviceID, None before Create
    replaces,    \* the session a Restart's create replaces, or None
    cpc,         \* progress of create
    status,      \* Session.Status, "none" before registration
    discAt,      \* identity of *Session.DisconnectedAt: 0 nil, g+1 set when
                 \* generation g ended (1: born disconnected)
    stopping,    \* Session.stopping
    proc,        \* the agent process: how it ended, if it did
    pumpCancelled, \* cancelPump was called
    pumpClosed,  \* StdioPump.closed: the drain loop has exited
    connGen,     \* StdioPump.connGen
    client,      \* generation of the bound StdioPump.client, 0 when nil
    wpc,         \* progress of watchProcess
    intentional, \* the value watchProcess loaded from Session.stopping
    exitRec,     \* what RecordExit was told
    pushed,      \* the crash push was sent
    closeReq,    \* sessions some caller is about to pass to closeSession
    tpc,         \* progress of the closeSession that won the CAS
    shutReq,     \* sessions Shutdown still has to stop
    reaperAt,    \* the session reapExpired is measuring (it holds rs.mu)
    measured,    \* the DisconnectedAt it measured
    record,      \* gateway_sessions.status, "none" when there is no row
    unsaved,     \* history: sessions of which SaveSession or DeleteSession failed
    hpc, hsess, hgen,   \* the handlers: progress, session, generation
    boots        \* daemon restarts so far

sessionVars == <<registry, owner, replaces, status, discAt, stopping>>
pumpVars    == <<pumpCancelled, pumpClosed, connGen, client>>
procVars    == <<proc, wpc, intentional, exitRec, pushed>>
closeVars   == <<closeReq, tpc, shutReq, closed>>
reaperVars  == <<reaperAt, measured>>
createVars  == <<launching, cpc>>
rowVars     == <<record, unsaved>>
handlerVars == <<hpc, hsess, hgen>>
vars == <<sessionVars, pumpVars, procVars, closeVars, reaperVars, createVars,
          handlerVars, rowVars, boots>>

Live == {"active", "disconnected"}

RegistryUnlocked == reaperAt = None

Init ==
    /\ closed = FALSE
    /\ registry = {}
    /\ launching = [d \in Devices |-> 0]
    /\ owner = [s \in Sessions |-> None]
    /\ replaces = [s \in Sessions |-> None]
    /\ cpc = [s \in Sessions |-> "none"]
    /\ status = [s \in Sessions |-> "none"]
    /\ discAt = [s \in Sessions |-> 0]
    /\ stopping = [s \in Sessions |-> FALSE]
    /\ proc = [s \in Sessions |-> "none"]
    /\ pumpCancelled = [s \in Sessions |-> FALSE]
    /\ pumpClosed = [s \in Sessions |-> FALSE]
    /\ connGen = [s \in Sessions |-> 0]
    /\ client = [s \in Sessions |-> 0]
    /\ wpc = [s \in Sessions |-> "none"]
    /\ intentional = [s \in Sessions |-> FALSE]
    /\ exitRec = [s \in Sessions |-> "none"]
    /\ pushed = [s \in Sessions |-> FALSE]
    /\ closeReq = {}
    /\ tpc = [s \in Sessions |-> "none"]
    /\ shutReq = {}
    /\ reaperAt = None
    /\ measured = 0
    /\ record = [s \in Sessions |-> "none"]
    /\ unsaved = {}
    /\ hpc = [h \in Handlers |-> "idle"]
    /\ hsess = [h \in Handlers |-> None]
    /\ hgen = [h \in Handlers |-> 0]
    /\ boots = 0

-----------------------------------------------------------------------------
(* Create and Restart.                                                     *)

\* liveSessionsLocked: registered live sessions plus launches in flight.  The
\* first variant forgets the launches.
LiveOf(d, old) ==
    {s \in registry : owner[s] = d /\ s # old /\ status[s] \in Live}

LiveRegisteredOnly(d, old) == Cardinality(LiveOf(d, old))

LiveSessionsLocked(d, old) == launching[d] + Cardinality(LiveOf(d, old))

\* The first critical section of create.  A Restart found the session it
\* replaces, old, in an earlier critical section; it may be gone by now.  A
\* request that finds the service closed or the quota used up changes nothing.
CreateReserve(s, d, old) ==
    /\ cpc[s] = "none" /\ RegistryUnlocked /\ ~closed
    /\ old # None => cpc[old] = "registered" /\ owner[old] = d
    /\ LiveSessionsLocked(d, old) < MaxPerDevice
    /\ launching' = [launching EXCEPT ![d] = @ + 1]
    /\ owner' = [owner EXCEPT ![s] = d]
    /\ replaces' = [replaces EXCEPT ![s] = old]
    /\ cpc' = [cpc EXCEPT ![s] = "reserved"]
    /\ UNCHANGED <<registry, status, discAt, stopping, pumpVars, procVars,
                   closeVars, reaperVars, handlerVars, rowVars, boots>>

ReleaseLaunchSlot(s) ==
    launching' = [launching EXCEPT ![owner[s]] = IF @ <= 1 THEN 0 ELSE @ - 1]

\* runtimeSvc.Launch succeeds.
CreateLaunch(s) ==
    /\ cpc[s] = "reserved"
    /\ proc' = [proc EXCEPT ![s] = "running"]
    /\ cpc' = [cpc EXCEPT ![s] = "launched"]
    /\ UNCHANGED <<sessionVars, pumpVars, wpc, intentional, exitRec, pushed, closeVars,
                   reaperVars, launching, handlerVars, rowVars, boots>>

\* runtimeSvc.Launch fails: the slot is released and the caller gets the error.
CreateLaunchFails(s) ==
    /\ cpc[s] = "reserved" /\ RegistryUnlocked
    /\ ReleaseLaunchSlot(s)
    /\ cpc' = [cpc EXCEPT ![s] = "refused"]
    /\ UNCHANGED <<sessionVars, pumpVars, procVars, closeVars, reaperVars,
                   handlerVars, rowVars, boots>>

\* SaveSession and DeleteSession, done and failed.
RowIs(s, r) == record' = [record EXCEPT ![s] = r] /\ UNCHANGED unsaved

RowKept(s) == StoreMayFail /\ unsaved' = unsaved \cup {s} /\ UNCHANGED record

\* The row is saved before the session is registered, as disconnected.
CreateSave(s) ==
    /\ cpc[s] = "launched"
    /\ RowIs(s, "disconnected")
    /\ cpc' = [cpc EXCEPT ![s] = "saved"]
    /\ UNCHANGED <<sessionVars, pumpVars, procVars, closeVars, reaperVars,
                   launching, handlerVars, boots>>

\* How a process looks once proc.Stop returned: Stop of a dead one is a no-op.
\* The first variant never reaches the process.
StopLost(p) == p

Stopped(p) == IF p = "running" THEN "stopped" ELSE p

\* An abandon that records the exit and leaves the process alone.
AbandonUnstopped(s) ==
    /\ exitRec' = [exitRec EXCEPT ![s] = "intentional"]
    /\ UNCHANGED <<proc, wpc, intentional, pushed>>

\* abandon: stop a process that never got a session and record its exit here.
Abandon(s) ==
    /\ proc' = [proc EXCEPT ![s] = Stopped(@)]
    /\ exitRec' = [exitRec EXCEPT ![s] = "intentional"]
    /\ UNCHANGED <<wpc, intentional, pushed>>

CreateSaveFails(s) ==
    /\ cpc[s] = "launched" /\ RegistryUnlocked
    /\ RowKept(s)
    /\ Abandon(s)
    /\ ReleaseLaunchSlot(s)
    /\ cpc' = [cpc EXCEPT ![s] = "refused"]
    /\ UNCHANGED <<sessionVars, pumpVars, closeVars, reaperVars, handlerVars, boots>>

\* The second critical section of create: the session joins the registry, born
\* disconnected, its exit watcher starts, and a Restart goes on to close the
\* session it replaced.
CreateRegister(s) ==
    /\ cpc[s] = "saved" /\ RegistryUnlocked /\ ~closed
    /\ ReleaseLaunchSlot(s)
    /\ registry' = registry \cup {s}
    /\ status' = [status EXCEPT ![s] = "disconnected"]
    /\ discAt' = [discAt EXCEPT ![s] = 1]
    /\ wpc' = [wpc EXCEPT ![s] = "waiting"]
    /\ closeReq' = closeReq \cup ({replaces[s]} \ {None})
    /\ cpc' = [cpc EXCEPT ![s] = "registered"]
    /\ UNCHANGED <<owner, replaces, stopping, pumpVars, proc, intentional, exitRec,
                   pushed, tpc, shutReq, closed, reaperVars, handlerVars, rowVars, boots>>

\* Shutdown got there first: the process is abandoned and the row deleted.
CreateRefused(s) ==
    /\ cpc[s] = "saved" /\ RegistryUnlocked /\ closed
    /\ ReleaseLaunchSlot(s)
    /\ pumpCancelled' = [pumpCancelled EXCEPT ![s] = TRUE]
    /\ Abandon(s)
    /\ RowIs(s, "none") \/ RowKept(s)
    /\ cpc' = [cpc EXCEPT ![s] = "refused"]
    /\ UNCHANGED <<sessionVars, pumpClosed, connGen, client, closeVars, reaperVars,
                   handlerVars, boots>>

-----------------------------------------------------------------------------
(* The agent process and its exit watcher.                                 *)

\* The agent dies on its own.  [External: the process.]
ProcCrash(s) ==
    /\ proc[s] = "running"
    /\ proc' = [proc EXCEPT ![s] = "crashed"]
    /\ UNCHANGED <<sessionVars, pumpVars, wpc, intentional, exitRec, pushed, closeVars,
                   reaperVars, createVars, handlerVars, rowVars, boots>>

\* Whether the watcher takes the exit for intended; the first never does.
ExitNeverIntended(s) == FALSE

ExitIntended(s) == stopping[s]

\* watchProcess: proc.Done, load stopping, RecordExit.
WatchLoad(s) ==
    /\ wpc[s] = "waiting" /\ proc[s] \in {"crashed", "stopped"}
    /\ intentional' = [intentional EXCEPT ![s] = ExitIntended(s)]
    /\ exitRec' = [exitRec EXCEPT ![s] = IF ExitIntended(s) THEN "intentional" ELSE "crash"]
    /\ wpc' = [wpc EXCEPT ![s] = "loaded"]
    /\ UNCHANGED <<sessionVars, pumpVars, proc, pushed, closeVars, reaperVars,
                   createVars, handlerVars, rowVars, boots>>

\* Whether handleProcessExit reclaims the session; the first variant waits for
\* a client to be gone.
ReclaimableDetached(s) == s \in registry /\ status[s] = "disconnected"

Reclaimable(s) == s \in registry /\ status[s] # "closing"

\* handleProcessExit, then close(sess.exited): a session still registered and
\* not closing died on its own and is reclaimed, row included.
WatchReclaim(s) ==
    /\ wpc[s] = "loaded" /\ RegistryUnlocked
    /\ wpc' = [wpc EXCEPT ![s] = "done"]
    /\ IF Reclaimable(s)
       THEN /\ status' = [status EXCEPT ![s] = "failed"]
            /\ pumpCancelled' = [pumpCancelled EXCEPT ![s] = TRUE]
            /\ registry' = registry \ {s}
            /\ pushed' = IF intentional[s] THEN pushed ELSE [pushed EXCEPT ![s] = TRUE]
            /\ RowIs(s, "none") \/ RowKept(s)
       ELSE UNCHANGED <<status, pumpCancelled, registry, pushed, rowVars>>
    /\ UNCHANGED <<owner, replaces, discAt, stopping, pumpClosed, connGen, client,
                   proc, intentional, exitRec, closeVars, reaperVars, createVars,
                   handlerVars, boots>>

\* StdoutDrainLoop ends: cancelled, or the agent's stdout closed.  It closes the
\* bound connection but leaves the client pointer.
PumpEnd(s) ==
    /\ cpc[s] \in {"saved", "registered", "refused"} /\ ~pumpClosed[s]
    /\ pumpCancelled[s] \/ proc[s] \in {"crashed", "stopped"}
    /\ pumpClosed' = [pumpClosed EXCEPT ![s] = TRUE]
    /\ UNCHANGED <<sessionVars, procVars, pumpCancelled, connGen, client, closeVars,
                   reaperVars, createVars, handlerVars, rowVars, boots>>

-----------------------------------------------------------------------------
(* closeSession and its callers; the reaper; Shutdown.                     *)

\* Close and StopByAgent look the session up, then call closeSession.
CloseLookup(s) ==
    /\ s \in registry /\ RegistryUnlocked
    /\ closeReq' = closeReq \cup {s}
    /\ UNCHANGED <<sessionVars, pumpVars, procVars, tpc, shutReq, closed, reaperVars,
                   createVars, handlerVars, rowVars, boots>>

\* CompareAndSwap: the first close owns the teardown, another one only waits.
CloseCAS(s) ==
    /\ s \in closeReq
    /\ closeReq' = closeReq \ {s}
    /\ stopping' = [stopping EXCEPT ![s] = TRUE]
    /\ tpc' = [tpc EXCEPT ![s] = IF stopping[s] THEN @ ELSE "cas"]
    /\ UNCHANGED <<registry, owner, replaces, status, discAt, pumpVars, procVars, shutReq,
                   closed, reaperVars, createVars, handlerVars, rowVars, boots>>

CloseMark(s) ==
    /\ tpc[s] = "cas"
    /\ status' = [status EXCEPT ![s] = "closing"]
    /\ tpc' = [tpc EXCEPT ![s] = "marked"]
    /\ UNCHANGED <<registry, owner, replaces, discAt, stopping, pumpVars, procVars,
                   closeReq, shutReq, closed, reaperVars, createVars, handlerVars,
                   rowVars, boots>>

\* A failed save is logged and the teardown goes on.
CloseSave(s) ==
    /\ tpc[s] = "marked"
    /\ RowIs(s, "closing") \/ RowKept(s)
    /\ tpc' = [tpc EXCEPT ![s] = "saved"]
    /\ UNCHANGED <<sessionVars, pumpVars, procVars, closeReq, shutReq, closed,
                   reaperVars, createVars, handlerVars, boots>>

\* cancelPump, then the session leaves the registry before any agent I/O.
CloseRemove(s) ==
    /\ tpc[s] = "saved" /\ RegistryUnlocked
    /\ pumpCancelled' = [pumpCancelled EXCEPT ![s] = TRUE]
    /\ registry' = registry \ {s}
    /\ tpc' = [tpc EXCEPT ![s] = "removed"]
    /\ UNCHANGED <<owner, replaces, status, discAt, stopping, procVars, pumpClosed,
                   connGen, client, closeReq, shutReq, closed, reaperVars, createVars,
                   handlerVars, rowVars, boots>>

\* session/close with its write timeout, then proc.Stop.
CloseStop(s) ==
    /\ tpc[s] = "removed"
    /\ proc' = [proc EXCEPT ![s] = Stopped(@)]
    /\ tpc' = [tpc EXCEPT ![s] = "stopped"]
    /\ UNCHANGED <<sessionVars, pumpVars, wpc, intentional, exitRec, pushed, closeReq,
                   shutReq, closed, reaperVars, createVars, handlerVars, rowVars, boots>>

\* awaitExit is bounded, so the row may be deleted before the watcher is done.
CloseDelete(s) ==
    /\ tpc[s] = "stopped"
    /\ RowIs(s, "none") \/ RowKept(s)
    /\ tpc' = [tpc EXCEPT ![s] = "done"]
    /\ UNCHANGED <<sessionVars, pumpVars, procVars, closeReq, shutReq, closed,
                   reaperVars, createVars, handlerVars, boots>>

\* reapExpired reads a session that has been idle longer than its grace.  How
\* long that is (LastStdoutAt, AwaitingClient) is left to chance.
ReaperMeasure(s) ==
    /\ RegistryUnlocked /\ ~closed
    /\ s \in registry /\ status[s] = "disconnected" /\ discAt[s] # 0
    /\ reaperAt' = s
    /\ measured' = discAt[s]
    /\ UNCHANGED <<sessionVars, pumpVars, procVars, closeVars, createVars, handlerVars,
                   rowVars, boots>>

\* The reaper's re-check.  The first variant does not look again, the second has
\* the comparison the wrong way round.
NotLookedAgain(s) == TRUE

StillOther(s) == status[s] = "disconnected" /\ discAt[s] # measured

StillExpired(s) == status[s] = "disconnected" /\ discAt[s] = measured

\* The re-check under sess.mu: only the disconnect it measured is reaped.
ReaperMark ==
    /\ reaperAt # None
    /\ reaperAt' = None
    /\ measured' = 0
    /\ IF StillExpired(reaperAt)
       THEN /\ status' = [status EXCEPT ![reaperAt] = "closing"]
            /\ closeReq' = closeReq \cup {reaperAt}
       ELSE UNCHANGED <<status, closeReq>>
    /\ UNCHANGED <<registry, owner, replaces, discAt, stopping, pumpVars, procVars, tpc,
                   shutReq, closed, createVars, handlerVars, rowVars, boots>>

\* Shutdown empties the registry and refuses later creates.
ShutdownBegin ==
    /\ ~closed /\ RegistryUnlocked
    /\ closed' = TRUE
    /\ shutReq' = registry
    /\ registry' = {}
    /\ UNCHANGED <<owner, replaces, status, discAt, stopping, pumpVars, procVars,
                   closeReq, tpc, reaperVars, createVars, handlerVars, rowVars, boots>>

\* One goroutine per session: it stops the process unless a Close owns that.
\* The row stays, for the next start to reconcile.
ShutdownStop(s) ==
    /\ s \in shutReq
    /\ shutReq' = shutReq \ {s}
    /\ IF stopping[s]
       THEN UNCHANGED <<stopping, pumpCancelled, proc>>
       ELSE /\ stopping' = [stopping EXCEPT ![s] = TRUE]
            /\ pumpCancelled' = [pumpCancelled EXCEPT ![s] = TRUE]
            /\ proc' = [proc EXCEPT ![s] = Stopped(@)]
    /\ UNCHANGED <<registry, owner, replaces, status, discAt, pumpClosed, connGen, client,
                   wpc, intentional, exitRec, pushed, closeReq, tpc, closed, reaperVars,
                   createVars, handlerVars, rowVars, boots>>

-----------------------------------------------------------------------------
(* handleSessionWebSocket: AttachClient, BindConn, DetachClient.           *)

Idle(h) == hpc' = [hpc EXCEPT ![h] = "idle"]

\* The attach token is good (see AttachTokens) and the session is found.
HValidate(h, s) ==
    /\ hpc[h] = "idle" /\ RegistryUnlocked /\ s \in registry
    /\ hpc' = [hpc EXCEPT ![h] = "found"]
    /\ hsess' = [hsess EXCEPT ![h] = s]
    /\ UNCHANGED <<sessionVars, pumpVars, procVars, closeVars, reaperVars, createVars,
                   hgen, rowVars, boots>>

\* Under sess.mu: evict the bound client, open a new generation, become active.
HClaim(h) ==
    LET s == hsess[h] IN
    /\ hpc[h] = "found"
    /\ status[s] \notin {"failed", "closing"}
    /\ connGen[s] < MaxGen
    /\ connGen' = [connGen EXCEPT ![s] = @ + 1]
    /\ client' = [client EXCEPT ![s] = 0]
    /\ status' = [status EXCEPT ![s] = "active"]
    /\ discAt' = [discAt EXCEPT ![s] = 0]
    /\ hgen' = [hgen EXCEPT ![h] = connGen[s] + 1]
    /\ hpc' = [hpc EXCEPT ![h] = "claimed"]
    /\ UNCHANGED <<registry, owner, replaces, stopping, procVars, pumpCancelled,
                   pumpClosed, closeVars, reaperVars, createVars, hsess, rowVars, boots>>

HRefused(h) ==
    /\ hpc[h] = "found"
    /\ status[hsess[h]] \in {"failed", "closing"} \/ connGen[hsess[h]] = MaxGen
    /\ Idle(h)
    /\ UNCHANGED <<sessionVars, pumpVars, procVars, closeVars, reaperVars, createVars,
                   hsess, hgen, rowVars, boots>>

\* SaveSession after sess.mu is released: nothing re-checks the registry.
HSave(h) ==
    /\ hpc[h] = "claimed"
    /\ RowIs(hsess[h], "active")
    /\ hpc' = [hpc EXCEPT ![h] = "attached"]
    /\ UNCHANGED <<sessionVars, pumpVars, procVars, closeVars, reaperVars, createVars,
                   hsess, hgen, boots>>

\* The save fails (r.Context() may be cancelled): the handler returns without
\* undoing its claim.
HSaveFails(h) ==
    /\ hpc[h] = "claimed"
    /\ RowKept(hsess[h])
    /\ Idle(h)
    /\ UNCHANGED <<sessionVars, pumpVars, procVars, closeVars, reaperVars, createVars,
                   hsess, hgen, boots>>

\* The pump's generation fence, a pump without one, and one that compares with
\* the wrong operator.
Unfenced(h) == TRUE

FenceBelow(h) == connGen[hsess[h]] < hgen[h]

Current(h) == connGen[hsess[h]] = hgen[h]

\* BindConn: the registry lookup and the pump's fence.  A handler that may not
\* bind leaves.
HBind(h) ==
    LET s == hsess[h] IN
    /\ hpc[h] = "attached" /\ RegistryUnlocked
    /\ IF s \in registry /\ ~pumpClosed[s] /\ Current(h)
       THEN /\ client' = [client EXCEPT ![s] = hgen[h]]
            /\ hpc' = [hpc EXCEPT ![h] = "proxying"]
       ELSE /\ client' = client
            /\ hpc' = [hpc EXCEPT ![h] = "leaving"]
    /\ UNCHANGED <<sessionVars, procVars, pumpCancelled, pumpClosed, connGen, closeVars,
                   reaperVars, createVars, hsess, hgen, rowVars, boots>>

\* The connection ends: the runtime id does not match, the upgrade fails, the
\* peer closes, or the gateway closed the socket.
HLeave(h) ==
    /\ hpc[h] \in {"attached", "proxying"}
    /\ hpc' = [hpc EXCEPT ![h] = "leaving"]
    /\ UNCHANGED <<sessionVars, pumpVars, procVars, closeVars, reaperVars, createVars,
                   hsess, hgen, rowVars, boots>>

\* A drain loop that ends without closing the bound socket.
SocketOrphaned(h) == hpc[h] = "proxying" /\ client[hsess[h]] # hgen[h]

\* The gateway closed the handler's socket: taken over, overflowed, or the
\* drain loop ended.
SocketClosed(h) ==
    hpc[h] = "proxying" /\ (pumpClosed[hsess[h]] \/ client[hsess[h]] # hgen[h])

\* queueLocked: a backlog over its cap clears the client and closes the socket.
ClientOverflow(s) ==
    /\ client[s] # 0 /\ ~pumpClosed[s]
    /\ client' = [client EXCEPT ![s] = 0]
    /\ UNCHANGED <<sessionVars, procVars, pumpCancelled, pumpClosed, connGen, closeVars,
                   reaperVars, createVars, handlerVars, rowVars, boots>>

\* DetachClient, first critical section.
HDetachLookup(h) ==
    /\ hpc[h] = "leaving" /\ RegistryUnlocked
    /\ hpc' = [hpc EXCEPT ![h] = IF hsess[h] \in registry THEN "detaching" ELSE "idle"]
    /\ UNCHANGED <<sessionVars, pumpVars, procVars, closeVars, reaperVars, createVars,
                   hsess, hgen, rowVars, boots>>

\* Under sess.mu: the pump's fence, then the status, whatever it was.
HDetachMark(h) ==
    LET s == hsess[h] IN
    /\ hpc[h] = "detaching"
    /\ IF Current(h)
       THEN /\ client' = [client EXCEPT ![s] = 0]
            /\ status' = [status EXCEPT ![s] = "disconnected"]
            /\ discAt' = [discAt EXCEPT ![s] = hgen[h] + 1]
            /\ hpc' = [hpc EXCEPT ![h] = "persist"]
       ELSE /\ Idle(h)
            /\ UNCHANGED <<client, status, discAt>>
    /\ UNCHANGED <<registry, owner, replaces, stopping, procVars, pumpCancelled,
                   pumpClosed, connGen, closeVars, reaperVars, createVars, hsess, hgen,
                   rowVars, boots>>

\* The membership check of DetachClient, and its absence.
AssumeRegistered(h) == TRUE

StillRegistered(h) == hsess[h] \in registry

\* DetachClient, last critical section: save under rs.mu, if still registered.
HDetachSave(h) ==
    /\ hpc[h] = "persist" /\ RegistryUnlocked
    /\ \/ StillRegistered(h) /\ (RowIs(hsess[h], "disconnected") \/ RowKept(hsess[h]))
       \/ ~StillRegistered(h) /\ UNCHANGED rowVars
    /\ Idle(h)
    /\ UNCHANGED <<sessionVars, pumpVars, procVars, closeVars, reaperVars, createVars,
                   hsess, hgen, boots>>

-----------------------------------------------------------------------------
(* The daemon dies and is started again.                                   *)

\* A reconciliation that skips rows no client was attached to.
ReconciledActiveOnly(r) == IF r = "active" THEN "failed" ELSE r

\* A reconciliation to a status the session service does not know.
ReconciledUnknown(r) == IF r \in {"active", "disconnected"} THEN "orphaned" ELSE r

\* ReconcileSessionsOnStartup: what a row becomes.
Reconciled(r) == IF r \in {"active", "disconnected"} THEN "failed" ELSE r

\* Memory and agent processes are gone, the rows are reconciled.  Session ids
\* used before the restart are never used again.
DaemonRestart ==
    /\ boots < MaxBoots
    /\ boots' = boots + 1
    /\ closed' = FALSE
    /\ registry' = {} /\ closeReq' = {} /\ shutReq' = {}
    /\ launching' = [d \in Devices |-> 0]
    /\ cpc' = [s \in Sessions |-> IF cpc[s] = "none" THEN "none" ELSE "past"]
    /\ owner' = [s \in Sessions |-> None]
    /\ replaces' = [s \in Sessions |-> None]
    /\ status' = [s \in Sessions |-> "none"]
    /\ discAt' = [s \in Sessions |-> 0]
    /\ stopping' = [s \in Sessions |-> FALSE]
    /\ proc' = [s \in Sessions |-> "none"]
    /\ pumpCancelled' = [s \in Sessions |-> FALSE]
    /\ pumpClosed' = [s \in Sessions |-> FALSE]
    /\ connGen' = [s \in Sessions |-> 0]
    /\ client' = [s \in Sessions |-> 0]
    /\ wpc' = [s \in Sessions |-> "none"]
    /\ intentional' = [s \in Sessions |-> FALSE]
    /\ exitRec' = [s \in Sessions |-> "none"]
    /\ pushed' = [s \in Sessions |-> FALSE]
    /\ tpc' = [s \in Sessions |-> "none"]
    /\ reaperAt' = None /\ measured' = 0
    /\ record' = [s \in Sessions |-> Reconciled(record[s])]
    /\ unsaved' = {}
    /\ hpc' = [h \in Handlers |-> "idle"]
    /\ hsess' = [h \in Handlers |-> None]
    /\ hgen' = [h \in Handlers |-> 0]

-----------------------------------------------------------------------------
CreateStep(s) ==
    \/ CreateLaunch(s) \/ CreateLaunchFails(s) \/ CreateSave(s) \/ CreateSaveFails(s)
    \/ CreateRegister(s) \/ CreateRefused(s)

WatchStep(s) == WatchLoad(s) \/ WatchReclaim(s)

TeardownStep(s) ==
    \/ CloseMark(s) \/ CloseSave(s) \/ CloseRemove(s) \/ CloseStop(s) \/ CloseDelete(s)

AttachStep(h) == HClaim(h) \/ HRefused(h) \/ HSave(h) \/ HSaveFails(h) \/ HBind(h)

DetachStep(h) == HDetachLookup(h) \/ HDetachMark(h) \/ HDetachSave(h)

Next ==
    \/ \E s \in Sessions, d \in Devices, old \in Sessions \cup {None} :
           CreateReserve(s, d, old)
    \/ \E s \in Sessions :
           \/ CreateStep(s)
           \/ ProcCrash(s) \/ WatchStep(s) \/ PumpEnd(s)
           \/ CloseLookup(s) \/ CloseCAS(s) \/ TeardownStep(s)
           \/ ReaperMeasure(s) \/ ShutdownStop(s) \/ ClientOverflow(s)
    \/ ReaperMark
    \/ ShutdownBegin
    \/ \E h \in Handlers :
           \/ \E s \in Sessions : HValidate(h, s)
           \/ AttachStep(h) \/ HLeave(h) \/ DetachStep(h)
    \/ DaemonRestart

Spec == Init /\ [][Next]_vars

\* What the Go scheduler and the runtime guarantee: a goroutine that can go on
\* does, a mutex is granted to who waits for it, the reaper's ticker keeps
\* firing and finds a session nobody attaches to past its grace, the end of a
\* socket reaches its read loop, and a dead agent's stdout ends.  That a session
\* gets past its grace is more than scheduling: reapExpired counts from the
\* agent's last output and waits a day for a client that owes an answer, so
\* WF of ReaperMeasure also says that the agent of a session nobody attaches to
\* falls silent in the end.  Nothing else is asked of clients, agents, the store's
\* failures and the end of the daemon.
Fairness ==
    /\ \A s \in Sessions :
           /\ SF_vars(WatchStep(s)) /\ WF_vars(PumpEnd(s))
           /\ WF_vars(CloseCAS(s)) /\ SF_vars(TeardownStep(s))
           /\ WF_vars(ShutdownStop(s))
           /\ WF_vars(ReaperMeasure(s))
    /\ WF_vars(ReaperMark)
    /\ \A h \in Handlers :
           /\ SF_vars(AttachStep(h)) /\ SF_vars(DetachStep(h))
           /\ WF_vars(SocketClosed(h) /\ HLeave(h))

FairSpec == Spec /\ Fairness

-----------------------------------------------------------------------------
(* Properties.                                                             *)

Statuses == {"none", "active", "disconnected", "closing", "failed"}
Generations == 0 .. MaxGen

\* Every variable keeps its type.
TypeOK ==
    /\ closed \in BOOLEAN
    /\ registry \subseteq Sessions
    /\ launching \in [Devices -> Nat]
    /\ owner \in [Sessions -> Devices \cup {None}]
    /\ replaces \in [Sessions -> Sessions \cup {None}]
    /\ cpc \in [Sessions -> {"none", "reserved", "launched", "saved", "registered",
                             "refused", "past"}]
    /\ status \in [Sessions -> Statuses]
    /\ discAt \in [Sessions -> 0 .. MaxGen + 1]
    /\ stopping \in [Sessions -> BOOLEAN]
    /\ proc \in [Sessions -> {"none", "running", "crashed", "stopped"}]
    /\ pumpCancelled \in [Sessions -> BOOLEAN]
    /\ pumpClosed \in [Sessions -> BOOLEAN]
    /\ connGen \in [Sessions -> Generations]
    /\ client \in [Sessions -> Generations]
    /\ wpc \in [Sessions -> {"none", "waiting", "loaded", "done"}]
    /\ intentional \in [Sessions -> BOOLEAN]
    /\ exitRec \in [Sessions -> {"none", "intentional", "crash"}]
    /\ pushed \in [Sessions -> BOOLEAN]
    /\ closeReq \subseteq Sessions
    /\ tpc \in [Sessions -> {"none", "cas", "marked", "saved", "removed", "stopped",
                             "done"}]
    /\ shutReq \subseteq Sessions
    /\ reaperAt \in Sessions \cup {None}
    /\ measured \in 0 .. MaxGen + 1
    /\ record \in [Sessions -> Statuses]
    /\ unsaved \subseteq Sessions
    /\ hpc \in [Handlers -> {"idle", "found", "claimed", "attached", "proxying",
                             "leaving", "detaching", "persist"}]
    /\ hsess \in [Handlers -> Sessions \cup {None}]
    /\ hgen \in [Handlers -> Generations]
    /\ boots \in 0 .. MaxBoots

Creating(s) == cpc[s] \in {"reserved", "launched", "saved"}

TearingDown(s) == tpc[s] \in {"cas", "marked", "saved", "removed"}

\* No agent process is ever forgotten: while one runs, a create still holds it,
\* a registered session owns it, or a teardown or Shutdown is about to stop it
\* (create's abandon, closeSession's steps 1-5, Shutdown's goroutines).
NoLeakedProcess ==
    \A s \in Sessions : proc[s] = "running" =>
        \/ Creating(s) \/ s \in registry \/ TearingDown(s) \/ s \in shutReq

\* The process of a session torn down by closeSession is stopped only after the
\* session left the registry, so neither RecordExit nor the crash push ever
\* reports a crash for a process the gateway stopped itself.
CrashReportsAreTrue ==
    \A s \in Sessions : exitRec[s] = "crash" \/ pushed[s] => proc[s] = "crashed"

\* The session a Restart replaces does not count while the replacement is under
\* way or in place.
Replaced(s) ==
    \E n \in Sessions : replaces[n] = s /\ (Creating(n) \/ cpc[n] = "registered")

Counted(d) ==
    {s \in registry : /\ owner[s] = d /\ status[s] \in Live
                      /\ ~stopping[s] /\ ~Replaced(s)}

\* Launches in flight and live sessions of a device never exceed MaxPerDevice,
\* however many connects and restarts run at once (the slot of create).
QuotaHeld ==
    \A d \in Devices : launching[d] + Cardinality(Counted(d)) <= MaxPerDevice

\* The generation fence: a bound client is the newest attach, and a session
\* with a bound client is never marked disconnected by the handler of an older
\* connection (Attach, Bind, Detach).
FenceHolds ==
    \A s \in Sessions : client[s] # 0 =>
        client[s] = connGen[s] /\ status[s] # "disconnected"

Holds(h, s) ==
    /\ hsess[h] = s /\ hgen[h] = connGen[s]
    /\ hpc[h] \in {"claimed", "attached", "proxying", "leaving", "detaching"}

\* A registered active session has a handler that will detach it: otherwise
\* nothing would ever make it disconnected again and the reaper never reclaims
\* it.  (Not so once AttachClient failed to save the row: it keeps its claim.)
ActiveHasHandler ==
    \A s \in registry \ unsaved :
        status[s] = "active" => \E h \in Handlers : Holds(h, s)

\* Nobody will touch the session's row again in this life of the daemon.
Settled(s) ==
    /\ cpc[s] \in {"registered", "refused"} /\ s \notin registry
    /\ tpc[s] \in {"none", "done"} /\ s \notin closeReq /\ ~closed
    /\ \A h \in Handlers : hsess[h] = s => hpc[h] # "claimed"

\* A session that was closed, reaped or reclaimed never leaves a "disconnected"
\* row behind, as long as the store took its writes: DetachClient saves under
\* rs.mu after a membership check.
NoStaleDisconnectedRow ==
    \A s \in Sessions \ unsaved : Settled(s) => record[s] # "disconnected"

\* What the reaper measures is idle time, and what it closes is idle, although it
\* looks, lets attaches and detaches land, and then marks: while DisconnectedAt is
\* set, and from the reaper's mark until the teardown, no handler holds the
\* session and no client is bound (reapExpired against AttachClient, BindConn and
\* DetachClient).
ReapedIsIdle ==
    \A s \in Sessions :
        discAt[s] # 0 \/ (status[s] = "closing" /\ ~stopping[s]) =>
            client[s] = 0 /\ ~\E h \in Handlers : Holds(h, s)

\* Nobody keeps a dead agent's session: once its exit watcher is done, the
\* session is out of the registry or a close that was already under way will
\* remove it (handleProcessExit against Close and the reaper).
ExitLeavesNoSession ==
    \A s \in registry : wpc[s] = "done" => stopping[s] \/ s \in closeReq

\* A close that was accepted ends with the session out of the registry and its
\* process dead.
CloseCompletes ==
    \A s \in Sessions :
        s \in closeReq ~> (s \notin registry /\ proc[s] # "running")

\* A disconnected session is eventually attached again or reclaimed.
IdleIsReaped ==
    \A s \in Sessions :
        (s \in registry /\ status[s] = "disconnected") ~>
            (s \notin registry \/ status[s] = "active")

\* A handler does not outlive the pump it serves: a dead agent or a teardown
\* closes the socket and the handler goes away.
HandlersLeave ==
    \A h \in Handlers, s \in Sessions :
        (hsess[h] = s /\ hpc[h] = "proxying" /\ (stopping[s] \/ proc[s] = "crashed"))
            ~> hpc[h] # "proxying"

\* Nothing about a session hangs: what is closed ends, what is idle is reaped,
\* and who serves a dead agent leaves.
SessionsProgress == CloseCompletes /\ IdleIsReaped /\ HandlersLeave

\* After a restart no row of an earlier life claims to be reconnectable, though
\* the daemon may have died between any two steps of a create, an attach, a
\* detach or a close (ReconcileSessionsOnStartup).
OpenRowsReconciled ==
    \A s \in Sessions : cpc[s] = "past" => record[s] \notin Live

\* The rows tell the truth about what is over: no closed session leaves a
\* "disconnected" row, and no row of an earlier life of the daemon claims to be
\* reconnectable.
RowsAreTrue == NoStaleDisconnectedRow /\ OpenRowsReconciled

-----------------------------------------------------------------------------
(* The inductive invariant behind the safety properties.                   *)

\* Nothing but create touches a session that is not registered yet.
UnregisteredUntouched ==
    \A s \in Sessions : cpc[s] # "registered" =>
        /\ s \notin registry /\ s \notin closeReq /\ s \notin shutReq
        /\ ~stopping[s] /\ tpc[s] = "none" /\ wpc[s] = "none" /\ client[s] = 0

\* A Restart replaces a session that has been registered.
ReplacedWasRegistered ==
    \A n \in Sessions : replaces[n] # None => cpc[replaces[n]] = "registered"

\* How far create got says what became of the process.
ProcessMatchesCreate ==
    \A s \in Sessions :
        /\ cpc[s] \in {"none", "reserved"} => proc[s] = "none"
        /\ proc[s] = "stopped" => cpc[s] = "refused" \/ stopping[s]

\* The teardown belongs to who set stopping, and ends only with a dead process.
StoppingIsOwned ==
    \A s \in Sessions :
        /\ tpc[s] # "none" => stopping[s]
        /\ stopping[s] /\ proc[s] = "running" => TearingDown(s)

\* A session marked closing has somebody to close it.
ClosingIsClosed ==
    \A s \in registry : status[s] = "closing" => stopping[s] \/ s \in closeReq

\* The reaper holds rs.mu, so the session it looks at stays registered.
ReaperHoldsLock == reaperAt # None => reaperAt \in registry

\* Shutdown works on what it found in the registry when it closed the service.
ShutdownCloses == shutReq # {} => closed

\* What the exit watcher knows about the process it watched.
WatcherKnows ==
    \A s \in Sessions :
        /\ wpc[s] \in {"loaded", "done"} => proc[s] \in {"crashed", "stopped"}
        /\ wpc[s] = "loaded" /\ ~intentional[s] => proc[s] = "crashed"

\* A handler past its lookup serves a registered session; the generation it was
\* given is its own, and while it is current the session is not disconnected.
HandlerSound(h) ==
    hpc[h] # "idle" =>
        /\ hsess[h] \in Sessions /\ cpc[hsess[h]] = "registered"
        /\ hpc[h] \notin {"found", "persist"} =>
              /\ hgen[h] \in 1 .. connGen[hsess[h]]
              /\ hgen[h] = connGen[hsess[h]] => status[hsess[h]] # "disconnected"

GenerationsAreUnique ==
    \A h, k \in Handlers :
        (\E s \in Sessions : Holds(h, s) /\ Holds(k, s)) => h = k

IndInv ==
    /\ UnregisteredUntouched /\ ReplacedWasRegistered /\ ProcessMatchesCreate
    /\ StoppingIsOwned /\ ClosingIsClosed /\ ReaperHoldsLock /\ ShutdownCloses
    /\ WatcherKnows
    /\ \A h \in Handlers : HandlerSound(h)
    /\ GenerationsAreUnique
    /\ NoLeakedProcess /\ CrashReportsAreTrue /\ ExitLeavesNoSession /\ FenceHolds

\* What the rows rest on: create writes the row late, nobody but create touches
\* the row of a session that never got registered, and whoever takes a session
\* out of the registry deletes its row or is about to.
RowInv ==
    /\ \A s \in Sessions :
           /\ cpc[s] \in {"none", "reserved", "launched"} => record[s] = "none"
           /\ cpc[s] = "refused" /\ ~closed => record[s] = "none"
           /\ cpc[s] = "registered" /\ s \notin registry \cup unsaved /\ ~closed
                /\ tpc[s] \notin {"removed", "stopped"} => record[s] # "disconnected"
    /\ OpenRowsReconciled

Creators(d) == {s \in Sessions : Creating(s) /\ owner[s] = d}

\* A device's slots are its creates in flight.
SlotsCounted == \A d \in Devices : launching[d] = Cardinality(Creators(d))

\* A Restart replaces a session of its own device, and no handler can bring a
\* session back that the reaper has marked.
QuotaSide ==
    /\ \A s \in Sessions :
           /\ Creating(s) => owner[s] \in Devices
           /\ replaces[s] # None => owner[replaces[s]] = owner[s]
    /\ \A s \in registry :
           /\ status[s] \in Live \cup {"closing"}
           /\ status[s] = "closing" /\ ~stopping[s] => ~\E h \in Handlers : Holds(h, s)

-----------------------------------------------------------------------------
(* What the comments promise and the code does not keep.                   *)

\* "Reclaim it fully so it cannot linger": the row of a session that was closed
\* or reclaimed is gone.
ReclaimedRowIsGone ==
    \A s \in Sessions : Settled(s) => record[s] = "none"

\* Every row left by an earlier life of the daemon has become "failed".
OrphansReconciled ==
    \A s \in Sessions : cpc[s] = "past" => record[s] \in {"none", "failed"}
=============================================================================
