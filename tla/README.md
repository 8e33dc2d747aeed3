# Formal model of the ferngeist ACP gateway

The gateway is a daemon that runs coding agents (ACP over stdio) on a developer's
machine and lets paired phones and browsers attach to them over WebSockets. An
agent keeps running while nobody is attached; clients come back, catch up with
what they missed, and resend what they are not sure arrived. Most of what can go
wrong is therefore in what happens *between* two steps of two goroutines: an
attach racing a crash, a reply racing a teardown, a refresh whose answer is lost,
two launches that install one agent.

This directory holds TLA+ modules that model those parts, TLC configurations that
check them on small instances, and TLAPS proofs of what holds for every instance.
`PROJECT.json` maps each definition to the lines it models and lists runs,
mutants, hazards and theorems. Paths below are relative to `src/`.

    tlc -workers 2 -config Session.cfg MCSession     # one run
    tlapm SessionLifecycleProofs.tla                 # one proof module

## 1. Inventory

| Component | State | Operations | What makes it correct |
|---|---|---|---|
| Session registry (`internal/session/lifecycle.go`, `session.go`, `attach.go`, `api/session_handlers.go`, `storage/sessions.go`) | the map of sessions, launch slots, each session's status, disconnect time, stopping flag; pump, process, the row in SQLite | Create, Restart, AttachClient, BindConn, DetachClient, Close, the reaper, Shutdown, the exit watcher, reconciliation at boot | quota per device; no process outlives its session unowned; a replaced connection can do nothing any more; an exit takes the session along; rows tell the truth after a restart |
| Attach tokens (`session/token.go`) | token -> claim, last sweep | Mint, Validate, sweep, eviction at the cap | a token opens one attach, lives until its expiry unless the cap evicts it, the map is bounded |
| Prompts, replies, outcomes (`session/pump.go`, `pipeline.go`, `request_ids.go`, `prompt_ids.go`, `turn_result.go`, `turns/store.go`) | id translation table, prompt claims, turn results, the outcome of each chat | WriteToAgent, the drain pipeline, finishPendingTurns | a resent prompt never runs twice; "already delivered" is true; no turn looks running that is not; every turn ends |
| Agent requests and elicitations (`session/request_ids.go`, `acpstate.go`) | open requests of the agent, the initialize response, working directory of each chat | track, redeliver, answer, replay | a request is asked once on each connection and nobody waits for one no client can see; a chat has the directory of its own session/new |
| Catch-up and load recovery (`session/catch_up.go`, `load_recovery.go`) | numbered bounded history, eviction mark, rejected ranges | OnFrame, session/resume with a cursor, session/load answered from the buffer | a client that reattaches has every update and no rejected prompt |
| Client queue, inbound writer, frame log (`session/pump.go`, `inbound.go`, `frame_log.go`) | three bounded queues | enqueue, drain, overflow, flush, close | what a connection received has no hole; what is queued is written or the socket closes |
| Push notifications (`session/notify.go`, `push/`) | throttle of each chat, push tokens | notify, the throttle timer, dispatch, evict | progress is about a turn that runs; only reported tokens are evicted |
| Turn feed (`turns/feed.go`, `api/turns.go`) | last snapshot, subscriptions, their queues, per-device order | poke, sample, Subscribe, Ready, Close, backstop | snapshot plus changes is what the feed last sampled; streams converge; slots come back |
| Pairing service (`pairing/service.go`, `storage/pairing.go`, `api/auth.go`) | challenges, approval window, credentials, token index, retired tokens, rows | Arm, Start, Cancel, Complete, Validate, Refresh, Revoke, prune, load | one device per approval; a lost refresh answer never locks a device out; a revoked device stays out |
| Pairing endpoints (`api/pairing_*.go`, `proof.go`) | token buckets, attempts and lockouts, replay window | admit, sweep, record, consume | sweeps give nobody tokens, guesses are bounded, a proof opens one request |
| Agent processes and spares (`runtime/supervisor.go`, `spare.go`) | runtimes, spare per agent with its timer, log rings, WaitGroup | Launch, claim, refill, Discard, RecordExit, Close | one owner per process; a claimed spare is what was asked for; Close leaves nothing running |
| Projects listing (`projects/`) | shared calls, slots, warm agents, cache | List, join, leave, park, pressure, Close | a call is cancelled by its own requesters only; no warm process is lost |
| Agent acquisition (`acquire/`, `storage/binaries.go`) | binaries, bundles and npm directories on disk, their records | Ensure, EnsureNpm, pruning | what is launched is whole |
| Catalog, registry, custom agents (`catalog/`, `registry/`, `customagents/`) | cached catalog, last good registry document, rows | List, Get, rebuild, refresh, create, update, delete, rollback | a catalog is what its sources said; an invalid agent never sticks |
| Workspace and worktrees (`workspace/`, `api/workspace.go`) | branches, folders, rows, a folder claim, the finish lock | create, delete, rebase, merge, squash | no work, committed or not, is lost |
| Remote access (`remote/`, the access part of `daemon/`) | attempt, node, result, endpoint, CLI lock, state directories | Start, the retry loop, Close | Close leaves no node; gateways on one host keep apart; what the operator fixes is picked up |
| Service managers and commands (`service/`, `update/`, `cmd/ferngeist/`) | unit, binaries, the running process | install, uninstall, start, stop, restart, update, the watch on the binary | no failed command leaves the service worse off; what runs is what is installed |
| Quota cache (`quota/`), update notifier (`update/`), keep-awake (`caffeine/`) | an entry per agent; the version announced; a hold | Get; check; follow busy | not modelled, section 8 |
| HTTP views, storage, daemon wiring | none of their own that others race on | sequential I/O | not modelled, section 8 |

How they interact. A client attaches with a token (AttachTokens) through the
session handler to a session of the registry; the registry launches and stops
processes through the supervisor (Spares), which takes the program from the
installer (Install) as the catalog (Catalog) says, and cancels the pump. The pump's
drain loop runs each frame of the agent through a pipeline that numbers it (CatchUp),
translates its id and records turn outcomes (PumpTurns), keeps requests of the agent
(AgentRequests), queues it for the bound client (ClientQueue), pushes to the device
when nobody looks (Push, PushTokens) and pokes the turn feed (TurnFeed). Teardown of a session runs concurrently
with all of them. Every request was admitted by a credential of the pairing service
(Pairing), behind the limits of the endpoints (RateLimiter, PairAttempts, ProofNonces).
The listing of chats (Projects) starts agents of its own; chats work in folders that
worktree requests make and remove (Worktrees). The daemon is reached over the tailnet
(Remote) and kept running by the platform's service manager (Service).

Where it is hard: goroutines meet only through short critical sections
(`rs.mu`, `sess.mu`, `promptWriteMu`, `Supervisor.mu`) and act between them on
what they read inside; saves to SQLite happen after the lock is dropped; the
daemon may die between any two steps; connections drop with answers in flight;
every queue, cache and map has a limit; and disk, git, npm, tailscaled, the service
manager and the user at the PC move on their own. `PROJECT.json` lists these hazards
line by line, each with the properties that watch it.

## 2. Modules and how they correspond to the code

A critical section is one action; a goroutine is cut wherever it lets go of a lock
or does I/O. Each VARIABLE is commented with the field it stands for. Variables
that no field stands for record history (`spent`, `heard`, `revoked`, `unsaved`, `undeleted`, `lost`...) or the
client's side of the protocol, and no guard of gateway code reads them. Where two components are checked
together and would share a name, the names of one are its own (`LimInit`, `AttSpec`, `SvcInit`, `AskNext`, `PushSpec`,
`ListInit`, `ReplayNext`, `ClientBind`, `ListerCloses`...): the MC module extends them all, as the module with their proofs does.

**SessionLifecycle.** `cpc`, `wpc`, `tpc` are the program counters of `create`,
`watchProcess` and `closeSession`, one each per session; `hpc` that of a WebSocket
handler, which resolves, attaches, binds, and detaches. `discAt` keeps the *identity* of
`DisconnectedAt`, which is what the reaper compares, not the time. A timestamp is
abstracted to "expired or not", decided freely at each measurement. `record` is the session's
row; `DaemonRestart` loses memory and reconciles the rows as
`ReconcileSessionsOnStartup` does. The reaper releases `rs.mu` between sessions in the model
and not in the code, which only adds interleavings.

**AttachTokens, OneTimeTokens.** Mint and Validate under the one mutex; the eviction
candidate is any of the soonest to expire, as Go's map order leaves it. OneTimeTokens is what
a client may rely on: a token is given out once, good for one use, and never good again.
AttachTokens implements it, with `Status` as the refinement mapping.

**PumpTurns.** One chat on one process. The reader of each connection claims a
prompt, registers an agent-side id, writes it and withdraws both if the write fails;
the drain loop takes replies through observe, record, forward; teardown takes the
pending prompts at any point between these. PromptLedger is what a client may rely on when it sends a prompt
again: runs start one at a time, a prompt that runs is not run again unless it is opened again, and what opens it
is a run that did not start, a rejection that was read (each once), or `Cap` prompts, itself among them, run since.
Of claims, ids, connections and the pipeline it knows nothing. `Ledger`, with `StateOf`, is the refinement mapping.

**AgentRequests.** A reader per connection and the drain loop, over what `acpstate.go` and
`request_ids.go` keep: the origin of each request, the agent's own open requests, the cached
initialize response, the directory a chat is bound to. A chat takes any number of prompts at once, as `outbound`
does; each request of the agent belongs to one of them. A request of the agent is observed and
forwarded in two steps, since a new connection may be bound between. What the reply to one prompt forgets
of another is remembered as `overtaken`.

**CatchUp.** One ACP session and one client. Items are numbered on arrival, evicted
at the limit, and removed when their prompt is rejected. The client stages a replay
and moves its cursor when the replay's reply arrives. What a Go slice is after entries were taken out of it is
`Without` of the module **Lists**, which CatchUp and TurnFeed use: it places the entries that stay by counting, where
`SelectSeq` recurses, so that it can be reasoned about. TLC finds the two equal.

**ClientQueue.** The drain loop, one writer per connection, and whoever takes the client away:
Attach, Detach, overflow, a failed write, the end of the drain loop. A frame has size one, so
the cap in bytes is a number of frames. Closing a socket is a step after the critical section.

**Push, PushTokens.** Push handles one frame per step, as `notify.go` does on the drain loop;
the callback of a throttle timer is an action of its own that may run late, after a Stop that
came too late. A frame whose failure was swallowed skips the end of progress, as the code does.
PushTokens is one `Notify` goroutine per push against the row of the device's token.

**TurnFeed.** The owner goroutine (its select is one action per case) and a handler per stream.
Mutation sites change the world and then poke, or forget to: the backstop exists for that.

**Pairing.** Every operation under `s.mu`, its store call included. Tokens are
consecutive numbers; a device has the number of the token it was paired with.
Clients keep every token they had and retry with the newest.

**RateLimiter, PairAttempts, ProofNonces.** The three guards of the endpoints, each with its
clock. A bucket counts in units of one tick, so that the code's fractions stay whole; `ideal` is a
limiter that never forgets. A request checks the lockout, is judged and is recorded in three steps;
a proof is looked up before the body is read and consumed after.

**Spares.** A call of Launch names the process it starts and the spare its refill
starts. Idle timers, the refill goroutine, the waits of Discard and Close are processes of their own.

**Projects.** Everything under `l.mu` is one step. A call waits for a slot, checks the warm
process, starts one or lists on it, and parks it; requesters join and leave at any stage.

**Install.** A launcher reads the record, looks at the disk, writes, renames and saves, for the
three kinds of program; `Spawn` starts the process in a step of its own, from what is on the disk by then. A file on
disk is a version, whole or not, or mixed from two. An npm directory has a marker or not; with it, it is `complete`, or
`torn` once somebody has removed part of it or written to it. A crash keeps the disk and the rows, and the npm processes
it leaves behind (`orphans`) go on writing or not; pruning runs at start and may get stuck halfway.

**Catalog.** A reader that finds the cache old rebuilds it in two steps, the second of which publishes
it; a write saves a row, drops the cache, reads the row back and rolls it back when it is rejected.
`LaunchPlan` is how `buildLaunchPlan` chooses among what a registry agent is published as and what the host has.

**Worktrees.** A request is its sequence of git commands and row writes. A branch is the set of
commits it holds, and a commit keeps its identity when rebased or squashed. All branches
have one folder name, which is where requests collide. `Edit`, `CommitInFolder`, `UserMakesBranch`,
`UserDeletesFolder` and `ChatTurns` are the chat and the user at the PC.

**Remote.** The retry loop of `Access`, provisioning through the CLI or an embedded node, the
host-wide lock and HTTPS endpoint, and the state directories, for several gateways on one host. The
operator signs in and allows Funnel between any two steps.

**Service.** A command is the sequence of steps its Go function takes on the platform
(`InstallSteps`, `UninstallSteps`, `RestartSteps`, `UpdateSteps`); each may fail where the code has an
error return, and the command may be killed between two. The service manager respawns, the daemon's
watch exits it when its file changes.

Where components share state in the code, one module holds both sides: the registry's contains the pump's
binding and the process, the pump's the outcome store, Service the command and the manager.
Components that only call one another share no variable. An MC module that groups several of those
has a variable `focus`, chosen in the initial state, that says which of them moves; its state
space is the union of theirs, its fairness that of the focused one, and each keeps its own bounds. They EXTEND
the modules they group, so that what they check is the very definition the theorems are about; what a run looks at a
second time with other bounds or beside another component (PumpTurns and CatchUp in
MCProgress, the quota in MCSession, rotation in MCCredentials) are instances.

## 3. Runs

| Run | Instance | What it checks and shows |
|---|---|---|
| `session` | *attach*: 1 session, 2 handlers, 3 attaches, 1 daemon restart, a store that works. *quota*: 2 sessions of a device with quota 1, no handler, a store that fails, no shutdown | `FenceHolds`: a replaced handler changes nothing. `ActiveHasHandler`: an active session has a handler that will detach it. `ExitLeavesNoSession`: once the watcher is done the session is gone. `NoLeakedProcess`: a process that runs has a session or somebody who stops it. `RowsAreTrue`: no row contradicts the registry, also after a boot. `QuotaHeld`: sessions and launches under way stay within the quota. `ReapedIsIdle`: what the reaper measures is idle time, and what it takes is idle: as long as `DisconnectedAt` is set, and from the reaper's mark to the teardown, no handler holds the session and no client is bound |
| `progress` | 1 session and handler; 1 prompt on 2 connections; history 2, 3 items, 1 drop | under fairness: `SessionsProgress` (a close completes, an idle session is reaped, the handler of a dead agent leaves), `PromptsSettle`, `ReattachCompletes` |
| `turn_feed` | 3 streams, 2 devices, 2 mutations | `BacklogAddsUpToLast`, `SlotsGivenBack`, and under fairness `StreamsComeToRest`: a stream shows the turns, or it ended and its handler is gone |
| `processes` | *spares*: 1 agent, 2 launch keys, 2 launches. *listing*: 3 requesters, 1 slot, 2 calls. *replay*: history 3, 4 items, 2 drops | `SparesAccountedFor`: one owner per process, launched as asked, no spare after Close, no log ring left. `WarmNotLost`, `NoBorrowedCancel` of the shared listing. `ReplayIsFaithful`: after a replay the client misses nothing and holds nothing that was taken back |
| `edge` | *queue*: cap 1 (a burst of 2), 2 connections, 3 frames. *remote*: 2 gateways in three configurations. *service*: 3 platforms, packaged or not, 3 versions | `WholeStream`, `QueuedIsWritten` of the client queue. `NoLeakedNode`, `GatewaysKeepApart`, `FixIsPickedUp` of remote access. `CommandsKeepService`, `RunsWhatIsInstalled` of the service |
| `credentials` | *devices*: 3 challenges, 3 tokens, two of three clients racing. *rotation*: 1 challenge, 4 tokens, a store that fails. *limiter*: 2 addresses, room for 1 bucket. *tracker*: 2 requests, 2 addresses, lockout after 2. *proof*: 2 nonces, 2 requests, cap 1 | `ApprovalPerDevice`, `RevokedStaysOut`; `RotationIsSafe`: the client can recover, the overlap is not stretched, the token index is exact; `SweepIsNeutral`; `GuessesBounded`; `NoReplayInWindow` |
| `agents` | *prompts*: 2 prompts, 2 connections, 2 requests, claim cap 1. *requests*: 2 connections, 3 client requests in one directory, the last of them a prompt, 2 agent requests of which one is kept. *opens*: 2 connections, 2 client requests of any kind, 2 chats, 2 directories. *catalog*: 2 writers, 2 writes, 2 ids | `ExecutesOnce`: PumpTurns implements PromptLedger; `TurnReportsAreTrue`; `AskedExactlyOnce`: nobody is asked twice, and nobody waits for what the attached client was not sent; `CwdIsItsOwn`; `CustomAgentsHold` |
| `host` | *tokens*: 3 tokens, cap 2, clock past expiry. *trees*: 2 requests, 2 branches of one folder, 2 commits, 2 rows. *install*: 2 launchers, 2 versions, 2 boots, 3 kinds. *push*: 2 chats, 2 turns | `KeptUntilExpiry`, and `IsOneTime`: AttachTokens implements OneTimeTokens. `NoWorkLost`. `WholeUnlessShared`: what is started is whole, unless two launches shared the temporary file or the npm install of that version was touched after it was marked. `ProgressIsLive`: a progress push is about a turn that runs |
| `session_row_resurrected`, `push_evicts_new_token`, `push_empty_progress`, `install_torn_binary` | the smallest instance that shows it | **violations**: section 7 |

Deadlock is not checked: every instance is bounded and comes to rest when its bounds
are used up; what must not come to rest is stated as liveness.

Why the bounds are enough. The races are between a goroutine and the one that
replaced it, so two handlers and three generations (old, current, one more after a
reap or a bind that failed) show every order of attach, bind and detach; two connections
do for readers, writers and redelivery. A quota of
one with two sessions reaches the limit from Create and from Restart. Limits
(`MaxTokens`, `MaxDelivered`, `MaxOpen`, `MaxHistory`, `MaxQueue`, `MaxBuckets`, `MaxNonces`, `Slots`) are set so low that the
instance passes them. `MaxHistory` 3 with 4 items evicts; two drops let a
client lose a replay and then the one that repairs it. Clocks run past expiry, grace, lockout,
replay window and overlap by at least one instant. Two launches suffice for a claim of a
predecessor's spare while a successor refills, since the map holds one spare per agent.
Of three client requests one opens a chat and two are prompts in it, so that the reply to one of them meets a request the
other raised; or the third is a prompt in a chat that a later connection has loaded. Two launches of which one ends,
starts again and finds the install marked show what the removal of the other does to a launch that has its command.
Two requests on one folder show each pair of worktree operations, and two writers each pair of
edits of the custom agents; a third version of the service lets an update follow one that failed.
The registry goes offline and comes back, while its document and PATH keep one value: no property depends on which
launch plan is chosen.

Bounds are CONSTANTS named `Max...` and commented "bound" where the code has no such
limit; the others are limits of the code. Symmetry is used where the members of a set are
interchangeable and no liveness property is about one of them.

Mutants. Each property has one in `PROJECT.json`: an operator beside the one it replaces, such as `Unfenced` for
`Current`, that changes it as a slip in the code would; the run then fails on that property.

## 4. Fairness

Weak fairness is claimed for a goroutine that is running and not blocked: Go
schedules it. In SessionLifecycle strong fairness is claimed for `WatchStep`,
`TeardownStep`, `AttachStep` and `DetachStep`, whose mutex other goroutines take and
release for ever: Go's mutex hands itself to a waiter after a millisecond. The reaper
measures again because a ticker wakes it. A handler leaves only when its socket is
closed; no fairness is claimed for a client that stays. `IdleIsReaped` rests on more than scheduling: output of the
agent and requests a client has still to answer extend the grace of a disconnected session (`lifecycle.go:876`), so
weak fairness of the reaper's measurement assumes that the agent of such a session falls silent in the end and that its
requests are answered or the day the code allows for them passes. In TurnFeed the owner serves
pokes, windows and the backstop; mutations are not fair. In PumpTurns the agent is assumed to
answer what it holds, or its process to end. In CatchUp the client reattaches and reads.
In ClientQueue the writer goes on and a socket that was told to close closes (a write has a deadline);
no fairness for the agent's frames. In Remote the retry loop goes on, by its backoff timer; the operator
need not do anything. `FixIsPickedUp` is asked of the embedded node with a state directory of its own only; with the CLI, what
the operator fixes is picked up by the same loop, but no run says so. In Service a command takes its steps, the manager respawns what it keeps alive and
the watch ticks; no command is ever run by fairness.

## 5. Proofs

Each proof module extends its components. The theorems hold for all values of the
constants allowed by the named ASSUME of the component's module: bounds and durations are natural numbers (above
zero where the code's constant is and the proof needs it), the model values that mean "nothing" are not members of the
sets they complete, platforms and modes are those the code knows. TLC evaluates each ASSUME in a run.

**SessionLifecycleProofs**: `TypeCorrect`, `ProcessesAccountedFor` (`NoLeakedProcess`),
`CrashReportsSound` (`CrashReportsAreTrue`), `NoSessionOutlivesItsAgent`
(`ExitLeavesNoSession`), `FenceSound` (`FenceHolds`), `QuotaIsKept` (`QuotaHeld`), `ActiveIsServed`
(`ActiveHasHandler`), `RowsTellTheTruth` (`RowsAreTrue`), `ReaperSound` (`ReapedIsIdle`). None is inductive
alone. `IndInv` adds that an unregistered session is untouched, that a
process exists exactly as far as its `create` got, that `stopping` is set only by one who
will stop it, that a closing session is closed by someone, that the reaper holds the lock it
relies on, that the watcher's view of the intention is older than the exit, and that
generations are unique and a handler's is never above the pump's. The fence follows from the last:
a handler that acts while its generation is not current finds the comparison false. The quota counts a launch
slot until its session is in the map, so the sum does not move when `create` publishes; the rows need every
save and delete still to come, read off the program counters, and `unsaved`, the saves that failed. `ReapedIsIdle` is kept because a claim takes `DisconnectedAt` back and is refused once the session is closing, because
the one handler that holds a session (generations are unique) lets go at the step that sets `DisconnectedAt`, and because the
reaper compares what it measured before it marks.

**HostProofs**: `SingleUse` (`SpentOnce`), `NotLostEarly` (`KeptUntilExpiry`), `MapStaysBounded`
(`MapBounded`), and `TokensAreOneTime`: the specification implements OneTimeTokens. The invariant
ties `live`, `drawn`, `spent` and `evicted` together and says that a dead token is at most
one sweep interval old. For the refinement the initial state maps to the abstract one; Mint maps
to issuing a token and voiding those it evicts or sweeps, an accepted Validate to a use, a rejected one and the clock to
a stutter or to a token going void. The step cases rest on the same invariant: without it a token that was
evicted could still look good.
`WorkIsKept` (`NoWorkLost`) is about worktrees. `TreeInv` says of each request under way what it may still do harm with:
one create at most is past the claim of the folder; what a create may discard, or a squash merge may drop, is in the base
branch, landed, or was committed after the last look (`Covered`); before an unforced removal no edits are there
that the request did not see (`EditsSeen`); a row a request read keeps its branch, since ids are not used again
(`RowStands`). The step of one request leaves the others' part alone by `Benign`: history only grows, and a commit on
a branch that a request may drop is late. `OthersKeep` proves that once, and every step is shown benign.

**AgentProofs**: five components around an agent. *Prompts*: `NoPromptRunsTwice` (`RunsOnce`), `DeliveryReportsSound`,
`NoGhostTurn`, `ClaimsFollowRuns`, `ReportsSound` (`TurnReportsAreTrue`). The key conjuncts are that a standing claim
belongs to a request that was sent or is being written, and that a sent request's reply is somewhere: with the
agent, on stdout, in the pipeline, or taken by teardown. `PromptsAreLedgered` (`ExecutesOnce`) is the refinement: claiming
a prompt starts a run, the write lands or fails it, a duplicate that is dropped is a prompt told, a rejection on the drain
loop is learned, and everything else the ledger does not see. It needs that a claim is for the last request there was
for its prompt (`ClaimIsLatest`): so the claims name as many prompts as there are claims, all run since the
oldest, which is why what the cap pushes out may be forgotten. *Requests of the agent*: `AskedExactly` (`AskedExactlyOnce`).
`AskInv` says where a request the agent waits on is (in the pipeline, or among the open ones under the key it came
with), that one record keeps each key, that a record marked for a connection was sent on it once and no unmarked one
was; that the requests of a prompt name its chat (`PromptsNameChats`); and that nothing of a prompt follows its answer
(`AnswersAreLast`), which ends what that prompt waits for and nothing else. A chat may have any number of prompts. What
the reply to one forgets of another is in `overtaken`, and that is the one thing about them the invariant lets go. *Directories*: `CwdsStayApart` (`CwdIsItsOwn`) rests on
`AnswersTrue`: an answer on its way to a session/new names a chat that was opened in the directory that request named,
which is the one kept under its id, since no id is given out twice. *Progress*: `ProgressSound` (`ProgressIsLive`), by the
invariant that a throttle state a chat has is its own (`ProgressOwns`) and of the turn that is on (`TurnIsOn`), with the
check the timer's callback makes. *Installs*: `InstallsAreWhole` (`WholeUnlessShared`): until two launches copy at once
(`overlapped`), one launch at most has the temporary file, what it renames is whole, and so is what is started; after that
`InstInv` claims nothing, which is what the run `install_torn_binary` shows to be necessary. For npm, `NpmSettled` says that a
marked directory nobody has `disturbed` is whole and has no writer, and that an undisturbed one has one writer at most;
`WellPlaced` carries that through the time between the look at the marker and the start of the process. *Custom agents*:
`CustomAgentsSound` (`CustomAgentsHold`): `CatInv` says when the catalog, or the one being built, must equal the table
(nobody is between its write and the invalidation, and the table could be read), and that an invalid agent is in
the table only while the edit that put it there has still to read it back or to undo it.

**PairingProofs**: `ChallengesOneAtATime`, `OneDevicePerApproval` (`ApprovalPerDevice`) count an open approval
and an open challenge as a device to come, so the sum never exceeds the approvals.
`RotationHolds` (`RotationIsSafe`) joins `TokensOpenTheirDevice` (`IndexExact`), `OverlapIsBounded` (`WindowNotStretched`) and
`NobodyLockedOut` (`ClientCanRecover`, which is about every device of which no two refreshes overlap: those that are
not in `Racing`). They rest on `CredentialInv`: each token, current or retired, belongs to one device, and
a retired token's deadline was set when it was rotated away. `RecoverInv` adds the client: the token it holds is the
one its device has, or the one before, which memory and the row then both know under the deadline its rotation gave it; at
most one answer is under way to it. `RevocationHolds` (`RevokedStaysOut`) needs that a revoked device is neither in
memory nor in the rows, save those in `undeleted`.

**GuardsProofs**: `SweepsAreNeutral` (`SweepIsNeutral`) compares the limiter with `ideal`, which never forgets: a bucket
that was swept is full there. `MapsStayBounded` bounds the map of buckets. `GuessesAreCutOff` (`GuessesBounded`) counts: while
a key is free its wrong codes are those recorded and those about to be; once it is locked, only the requests admitted
before can add to them. `ProofsUsedOnce`
(`NoReplayInWindow`) says that a nonce inside the window is in the map or was thrown out by the hard cap.

**SparesProofs**: `SparesAreSafe` (`SparesAccountedFor`) and `WaitCountsDown` (`CountedBeforeWait`). `SpareInv` says of
each process, from the stages of the goroutines that know it, who holds it (`Holds`): a caller, a refill, the slot, a timer,
Close or a Discard; no two do (`OneHand`), one that nobody holds is over, and the WaitGroup's counter is the number of those
that have still to call Done.
`NobodyElsesCancel` (`NoBorrowedCancel`) is about the listing of chats. `ListInv` says that the counter of a call is the
number of devices that wait on it, that a call which nobody waits on before it starts is cancelled, and, while the lister is
open, that a call which is awaited, or which a new device would join, is not. `WarmAccountedFor` (`WarmNotLost`) adds
`WarmInv`: an agent's warm process and the processes that say they are warm are the same (`ParkedIsWarm`), an agent
has one call that may start or list at a time (`OneFlight`), a process that lists belongs to exactly one such call, and
a lister that is not open keeps none warm. Each step moves one process from one of those hands to another (`HandedOn`).

**TurnFeedProofs**: `BacklogIsKept` (`BacklogAddsUpToLast`) and `SlotsAreGivenBack` (`SlotsGivenBack`). `FeedInv` says that what
a stream was sent, with what is queued for it, adds up (`AddUp`) to the last
sample, from its snapshot on. `AddUp` names the snapshot after each queued change, so no induction over sequences is needed.
`ListsInv` says that the list of a device holds its active streams, each once (`Listed`); `WithoutKeeps` is what removal does to
such a list, and `LengthOfList` that it is as long as its streams are many, so that the limit on the one is a limit on the other.
`ReplaysAreFaithful` (`ReplayIsFaithful`) is about the replay buffer and its client. `ReplayInv` says, for each item the
client should have and has not, that the buffer can still tell it of the item (`Told`: by a frame past its
cursor, or by having evicted past it), and follows what is on its way to the client: the queue continues a client from
its cursor towards what is due (`Continues`), and a reply that is under way completes a replay with what was staged before it
(`Completes`). A rejected prompt survives at no client whose cursor the buffer would accept (`NoneSurvives`, `Barred`). The
steps of the buffer are shown once to take nothing from what it can tell, whether an item is numbered, evicted or
rejected, and each step of the client is then about the queue alone. `BufferKeepsItsBounds` (`ReplayTypeOK`) bounds the buffer.

**EdgeProofs**: four components at the gateway's edge. `StreamIsWhole` (`WholeStream`) rests on `QueueInv`: what a connection
was written, what its writer holds and what is queued are consecutive frames, up to the last one made while it is
bound, until its socket closes. `NodesAreClosed` (`NoLeakedNode`) and `HostIsShared` (`GatewaysKeepApart`) rest on `RemoteInv`: who
sets the host's endpoint holds its lock and found the endpoint free or its own, and the old shared state directory
belongs to a database that can be found. `ServiceIsKept` (`CommandsKeepService`) needs `ServiceInv`: the
steps a command has still before it are well paired (a file moved aside is replaced by the very next step) and, for an
update of an installed service, end in a start; a binary that was there is there or aside; the service is up until stopped.

Some theorems (`CrashReportsSound`, `SingleUse`, `MapStaysBounded`, `ChallengesOneAtATime`, `ClaimsFollowRuns`,
`MapsStayBounded`, `WaitCountsDown`...) state invariants that no run names any more: what is proved for every instance
needs no run of its own.

## 6. What is only model-checked

Three things are out of TLAPS's reach here: liveness under fairness and ENABLED, induction
over data (what a recursive definition computes for every input), and RECURSIVE operators,
which no module uses. Every invariant and every action property that a passing run checks, and both refinements, are
stated by a theorem of section 5. What stays with TLC is liveness: `SessionsProgress`, `StreamsComeToRest`, `PromptsSettle`,
`ReattachCompletes`, `QueuedIsWritten`, `FixIsPickedUp` and `RunsWhatIsInstalled`.

`Spares!CloseEnds` (Close returns) is stated with its fairness and is checked with a configuration of Spares
alone, not in a run of `PROJECT.json`.

## 7. Where code and documents disagree

Four runs show a violation, each with its finding in `PROJECT.json`.

`session_row_resurrected`: AttachClient claims the session under `sess.mu` and saves its
row after letting go; a crash or close in between deletes the row first, and the late save
brings it back. The row of a session that is gone stays until the next boot.

`push_evicts_new_token`: a push that learns that its token is dead deletes the device's row by device id; a new
token registered during the send goes with it.

`push_empty_progress`: a throttle timer that was due while another call was pushed at once is not cancelled
and sends the text that is pending by then, which is empty.

`install_torn_binary`: two launches of an agent that is not installed copy its binary through the same `.download`
file, and one can start a program that is not whole.

Others were met while modelling. The properties in this table are defined in the modules; a run
of the module with the constants given here shows each.

| Property | Where | What happens |
|---|---|---|
| `OrphansReconciled`, `MaxBoots = 1` | `storage/sessions.go:118` | a row left "closing" is not reconciled at boot |
| `CatchUpIsTheSample`, 2 streams of one device, `MaxPerDevice = 2`, `MaxMutations = 3` | `turns/feed.go:331`, `402`, `428` | Subscribe's sample ends the last other stream as lagging, which clears `f.last` under the snapshot just taken; Ready then diffs against nothing and its catch-up removes every turn, until the next sample puts them back |
| `OutcomeRecordedOnce` | `request_ids.go:326` | a reply already recorded is still pending until it is forwarded; a teardown in between takes and records it again |
| `MissedTurnIsKept` | `pipeline.go:201`, `docs/api.md:1363` | a prompt of a superseded connection that finishes before the next one is bound is neither sent nor kept: it is not of the current generation |
| `RepliesStayHome` | `request_ids.go:432`, `docs/api.md:1415` | once teardown has taken a pending prompt, its reply in the pipeline is not found in the table and goes as it is to whatever connection is bound |
| `InitializedOnce` | `acpstate.go` ("never forwards the duplicate") | two connections whose initialize requests are both under way before the first is answered both reach the agent |
| `ElicitationsAreResent` | `acpstate.go`, `docs/api.md:1385` | a request that names its chat only by the id of the prompt it belongs to is not sent again when the chat is restored |
| `WaitersAreResent` | `request_ids.go:425`, and the comments there and on `redeliver` | the reply to one prompt, an error too, forgets what another prompt of the chat waits on; the agent then waits for ever if the client was away |
| `SentInOrder` | `catch_up.go:56` | an update that arrives between the bind and the catch-up request is sent live and again by the catch-up |
| `LoadCursorIsUsable` | `load_recovery.go:246`, `docs/api.md:1361` | with an unnumbered update as the last one, the load returns a cursor below that update's gap boundary, so the next catch-up is a gap again |
| `RejectedPromptsRepaired` | `load_recovery.go:438`, `docs/api.md:1391` | a client that holds a rejected prompt and whose cursor a live update carries past the rejected range is never told to drop it |
| `ClientCanRecover` for the devices in `Racing` too | `pairing/service.go:509` | the second of two refreshes under way persists the token both were made with; after a restart the answer of the first is worth nothing, inside its overlap |
| `RestartKeepsDevices`, `StoreMayFail = TRUE` | `pairing/service.go:332`, `741` | a device paired while the store failed is gone after a restart |

Behaviours a property has to step around, each named in the comment of that property or of the action:

- SessionLifecycle, `unsaved`: a failed save makes AttachClient return an error with the session left active
  (`lifecycle.go:451`, `session_handlers.go:228`); the handler does not detach, and the reaper skips active sessions.
- Pairing, `undeleted`: a revocation whose delete failed is undone by a restart (`pairing/service.go:687`;
  `docs/pairing.md:49` promises otherwise).
- Push: `turnActive` and `turnHadContent` are kept per process, so the end of one chat's turn affects another's;
  a frame whose failure is swallowed skips `endProgress`. `docs/api.md:1343` says progress is pushed when a tool call
  completes or fails; `maybeNotifyProgress` never pushes for a finished call.
- PairAttempts: requests already past the check when the last failure is counted are judged too.
- RateLimiter: an address the full map has no room for is not tracked. ProofNonces: the hard cap throws out
  nonces inside the window.
- Catalog: two overlapping creates can get one id, and the roll-back of the loser deletes the winner's row; two
  overlapping edits can leave a rejected one; Update is an upsert and brings back a row deleted meanwhile; a delete
  looks for a running agent before it deletes; a failed read of the rows serves no custom agents for 30 seconds.
- Install, `disturbed`: a launch that saw no marker starts an install, which begins with a `RemoveAll` (`npm.go:198`), after
  another launch's install has been completed; a third, which has its command from the completed one (`npm.go:73`) and has yet
  to start it (`supervisor.go:412`), starts what is left. So `LaunchedIsWhole` fails for npm as it does for a raw binary
  (`Kinds = {"npm"}`, two launchers). The same comes of a prune that gets stuck halfway and of an npm process that
  outlives a daemon killed during the install.
- AgentRequests, `overtaken`: when the agent answers one prompt of a chat, also with an error, `reply` forgets the open
  requests of all its prompts (`request_ids.go:425`), so a client that restores the chat later is not sent what another prompt
  still waits on; a client that was attached and sent it can still answer it.
- Worktrees: commits made on a branch after a squash merge with delete took its content go with the branch.
- Service: a packaged install removes the copy the old unit still runs before it writes the new unit; the first
  install on Windows registers the task before the binary is there; an update killed on Windows between its two
  renames leaves no binary, and the next cleanup removes the only one; an update of a stopped service starts it.

## 8. Not modelled, and why

Quota cache, update notifier and keep-awake: small loops around requests to providers, a version check and
operating-system calls, on which nothing else depends. Inbound writer and frame log: queues that drop diagnostics by
policy. `session/cancel`, the admission of turn streams, and StopByAgent: left for later (section 9).

HTTP routing and views: decoding and JSON of state other components own; the handlers that act on state are
part of the component they act on. Storage: SQL; the rows that matter are variables of the modules that write them.
Daemon wiring, configuration, logging, mDNS, the admin client and terminal output: sequential I/O. Reading files,
diffs and history of a workspace, placing chats in checkouts, JSON surgery on frames, archive formats, signatures,
encryption and push transport, and the wording of every message are left out of the modules.

Within the modelled parts: in Worktrees the push to origin, worktrees the gateway did not make, and a leftover
folder without `.git`, a detached HEAD, and an agent that switches branch in its folder; `FolderHeld` leaves the folder as it is, where git may have deregistered it. In Service
`--purge`, the contents of units and of the environment file; a Windows task that waits for its restart after a
failure counts as running, a daemon started by hand is taken to exit on an update, and commands are not
run from the service's own bin directory. In Remote a tailscale child that outlives its daemon and sets
the endpoint after the host-wide lock was released with the daemon: `ProcessExit` ends it with its parent, so `GatewaysKeepApart` does
not speak of that case; and the shared directory of older versions is judged by the owner's database, which is taken to stay
where it is. In AgentRequests a client loads a chat in the directory it was opened in, on which `CwdIsItsOwn` rests for
session/load: a client that names another directory gets that one. In Catalog the built-in manifests and the npm bin names that Get resolves. In
CatchUp the cap in bytes beside the cap in frames.

## 9. Plan

Done: SessionLifecycle, AttachTokens with OneTimeTokens, PumpTurns with PromptLedger, AgentRequests, CatchUp, ClientQueue, Push,
PushTokens, TurnFeed, Pairing, RateLimiter, PairAttempts, ProofNonces, Spares, Projects, Install, Catalog, Worktrees,
Remote, Service.

To come: `session/cancel` and its retargeting in PumpTurns; the admission of turn streams; push and discovery in
Worktrees; inbound writer and frame log beside ClientQueue; a `Background` module for quota cache, update notifier and
keep-awake.

Abstract specifications worth stating next, each with its refinement proved: a transcript register that CatchUp
implements for a client; an ownership ledger for Spares.
