----------------------------- MODULE PumpTurns -----------------------------
(***************************************************************************)
(* The prompts of one chat on one agent process: internal/session          *)
(* prompt_ids.go (a repeated prompt is not run twice), request_ids.go (the *)
(* agent-side ids and whose reply goes where), pipeline.go (the stages a   *)
(* reply runs through), turn_result.go and turns/store.go.                 *)
(*                                                                         *)
(* Three kinds of goroutine meet here: one reader per client connection    *)
(* (WriteToAgent), the stdout drain loop, and the teardown of a close or a *)
(* crash (finishPendingTurns).  An agent-side id is the number of the      *)
(* request; a claim is known by the id of the request it was made for, so  *)
(* the oldest claim is the one with the least id.                          *)
(***************************************************************************)
EXTENDS Naturals, FiniteSets

CONSTANTS
    Prompts,        \* clientIds of the prompts a client wants to run
    MaxDelivered,   \* maxDeliveredPrompts
    MaxGen,         \* bound: connections
    MaxRequests,    \* bound: prompts forwarded to the agent
    NoPrompt        \* what an id not yet given out stands for

ASSUME PumpConstants ==
    /\ MaxDelivered \in Nat \ {0} /\ MaxGen \in Nat \ {0} /\ MaxRequests \in Nat
    /\ NoPrompt \notin Prompts

Ids == 1..MaxRequests
Gens == 1..MaxGen
NoId == 0

VARIABLES
    connGen,    \* p.connGen
    conn,       \* the current generation's connection: upgrading, bound, gone
    wire,       \* prompts sent and not yet handled, with their connection
    sentOn,     \* client: the connection it last sent a prompt on, 0 if to send
    next,       \* r.next
    pending,    \* r.pending: agent-side ids awaiting their reply
    gen,        \* origin.gen of each id
    prompt,     \* origin.promptClientID of each id
    claims,     \* p.prompts, oldest is the least
    forgotten,  \* prompts whose claim the cap pushed out
    writer,     \* the id whose write holds promptWriteMu, or NoId
    written,    \* ids whose frame reached the agent
    answer,     \* the agent's reply: none, ok, empty (a swallowed failure), error
    stdout,     \* replies the agent wrote and the drain loop has not read
    frame,      \* the reply in the pipeline, or NoId
    isReply,    \* f.isReply
    stage,      \* observe, record, forward: what comes next for the frame
    torn,       \* finishPendingTurns has taken the prompts
    unfinished, \* prompts it has still to record
    outcome,    \* the chat's outcome in turns.Store
    recorded,   \* how often each id's outcome was recorded
    result,     \* turnResults of the chat: an id or NoId
    heard,      \* ids whose end some connection was sent
    strayed,    \* ids whose reply went to a connection that did not ask
    delivered   \* prompts a connection was told were already delivered

connVars   == <<connGen, conn>>
clientVars == <<wire, sentOn>>
idVars     == <<next, pending, gen, prompt>>
claimVars  == <<claims, forgotten>>
agentVars  == <<written, answer, stdout>>
drainVars  == <<frame, isReply, stage>>
storeVars  == <<outcome, recorded>>
endVars    == <<result, heard, strayed>>
vars == <<connVars, clientVars, idVars, claimVars, writer, agentVars, drainVars,
          torn, unfinished, storeVars, endVars, delivered>>

Bound == conn = "bound"

\* The empty outcome started before every prompt.
NoOutcome == [started |-> NoId, state |-> "none"]

Init ==
    /\ connGen = 0 /\ conn = "gone"
    /\ wire = {} /\ sentOn = [p \in Prompts |-> 0]
    /\ next = 0 /\ pending = {}
    /\ gen = [i \in Ids |-> 0] /\ prompt = [i \in Ids |-> NoPrompt]
    /\ claims = {} /\ forgotten = {}
    /\ writer = NoId
    /\ written = {} /\ answer = [i \in Ids |-> "none"] /\ stdout = {}
    /\ frame = NoId /\ isReply = FALSE /\ stage = "observe"
    /\ torn = FALSE /\ unfinished = {}
    /\ outcome = NoOutcome /\ recorded = [i \in Ids |-> 0]
    /\ result = NoId /\ heard = {} /\ strayed = {} /\ delivered = {}

-----------------------------------------------------------------------------
(* Connections and the client behind them.                                 *)

\* Attach: a new generation, no client until its Bind.  A session that is being
\* torn down is closing or failed and takes no attach.
Attach ==
    /\ ~torn /\ connGen < MaxGen
    /\ connGen' = connGen + 1 /\ conn' = "upgrading"
    /\ UNCHANGED <<clientVars, idVars, claimVars, writer, agentVars, drainVars, torn,
                   unfinished, storeVars, endVars, delivered>>

Bind ==
    /\ conn = "upgrading"
    /\ conn' = "bound"
    /\ UNCHANGED <<connGen, clientVars, idVars, claimVars, writer, agentVars, drainVars,
                   torn, unfinished, storeVars, endVars, delivered>>

\* Detach of the current generation, an overflow or a failed client write.
Detach ==
    /\ conn \in {"upgrading", "bound"}
    /\ conn' = "gone"
    /\ UNCHANGED <<connGen, clientVars, idVars, claimVars, writer, agentVars, drainVars,
                   torn, unfinished, storeVars, endVars, delivered>>

\* The client sends a prompt, or sends it again on a newer connection because it
\* has not heard that it arrived.  [External: the client.]
ClientSend(p) ==
    /\ Bound /\ sentOn[p] < connGen /\ p \notin delivered
    /\ wire' = wire \cup {<<connGen, p>>}
    /\ sentOn' = [sentOn EXCEPT ![p] = connGen]
    /\ UNCHANGED <<connVars, idVars, claimVars, writer, agentVars, drainVars, torn,
                   unfinished, storeVars, endVars, delivered>>

\* A socket that is gone takes what was not read from it along.
WireLost(g, p) ==
    /\ <<g, p>> \in wire /\ (g < connGen \/ ~Bound)
    /\ wire' = wire \ {<<g, p>>}
    /\ UNCHANGED <<connVars, sentOn, idVars, claimVars, writer, agentVars, drainVars,
                   torn, unfinished, storeVars, endVars, delivered>>

-----------------------------------------------------------------------------
(* WriteToAgent of a session/prompt, under promptWriteMu.                  *)

\* A check that does not wait for the write of the claim it finds.
NoWriteLock == TRUE

PromptWriteMuFree == writer = NoId

ClaimsOf(p) == {i \in claims : prompt[i] = p}

\* claim without the contains check.
NeverClaimed(p) == FALSE

AlreadyClaimed(p) == ClaimsOf(p) # {}

\* dropDuplicatePrompt: only the connection that asks is answered.
DropDuplicate(g, p) ==
    /\ PromptWriteMuFree /\ <<g, p>> \in wire /\ AlreadyClaimed(p)
    /\ wire' = wire \ {<<g, p>>}
    /\ delivered' = IF g = connGen /\ Bound THEN delivered \cup {p} ELSE delivered
    /\ UNCHANGED <<connVars, sentOn, idVars, claimVars, writer, agentVars, drainVars,
                   torn, unfinished, storeVars, endVars>>

\* The claims the cap pushes out when one more is made.
PushedOut ==
    IF Cardinality(claims) >= MaxDelivered
    THEN {i \in claims : \A j \in claims : i <= j} ELSE {}

\* claim, outbound, clearTurnResult.
Forward(g, p) ==
    LET i == next + 1 IN
    /\ PromptWriteMuFree /\ <<g, p>> \in wire /\ ~AlreadyClaimed(p) /\ next < MaxRequests
    /\ wire' = wire \ {<<g, p>>}
    /\ next' = i
    /\ pending' = pending \cup {i}
    /\ gen' = [gen EXCEPT ![i] = g]
    /\ prompt' = [prompt EXCEPT ![i] = p]
    /\ claims' = (claims \ PushedOut) \cup {i}
    /\ forgotten' = forgotten \cup ({prompt[j] : j \in PushedOut} \ {p})
    /\ writer' = i
    /\ result' = NoId
    /\ UNCHANGED <<connVars, sentOn, agentVars, drainVars, torn, unfinished, storeVars,
                   heard, strayed, delivered>>

\* The frame reaches the agent; the writer still holds the lock.
WriteLands ==
    /\ writer # NoId /\ writer \notin written
    /\ written' = written \cup {writer}
    /\ UNCHANGED <<connVars, clientVars, idVars, claimVars, writer, answer, stdout,
                   drainVars, torn, unfinished, storeVars, endVars, delivered>>

WriteReturns ==
    /\ writer # NoId /\ writer \in written
    /\ writer' = NoId
    /\ UNCHANGED <<connVars, clientVars, idVars, claimVars, agentVars, drainVars, torn,
                   unfinished, storeVars, endVars, delivered>>

\* A failed write that leaves the request pending.
NotDiscarded(i) == pending

\* discard: a failed write leaves no prompt looking like it runs.
Discarded(i) == pending \ {i}

\* The write fails: discard the request and release the claim.
WriteFails ==
    /\ writer # NoId /\ writer \notin written
    /\ writer' = NoId
    /\ pending' = Discarded(writer)
    /\ claims' = claims \ ClaimsOf(prompt[writer])
    /\ UNCHANGED <<connVars, clientVars, next, gen, prompt, forgotten, agentVars,
                   drainVars, torn, unfinished, storeVars, endVars, delivered>>

-----------------------------------------------------------------------------
(* The agent and the drain loop.                                           *)

\* The agent ends a turn or rejects the prompt.  [External: the agent.]
AgentReplies(i, a) ==
    /\ i \in written /\ answer[i] = "none"
    /\ answer' = [answer EXCEPT ![i] = a]
    /\ stdout' = stdout \cup {i}
    /\ UNCHANGED <<connVars, clientVars, idVars, claimVars, writer, written, drainVars,
                   torn, unfinished, storeVars, endVars, delivered>>

\* Only an explicit rejection gives the clientId back.
Releases(i) == answer[i] = "error"

\* peek, then the ACP-state stage.
DrainObserve(i) ==
    /\ frame = NoId /\ i \in stdout
    /\ stdout' = stdout \ {i}
    /\ frame' = i /\ isReply' = (i \in pending) /\ stage' = "record"
    /\ claims' = IF i \in pending /\ Releases(i)
                 THEN claims \ ClaimsOf(prompt[i]) ELSE claims
    /\ UNCHANGED <<connVars, clientVars, idVars, forgotten, writer, written, answer,
                   torn, unfinished, storeVars, endVars, delivered>>

\* Outcome.
OutcomeOf(i) == IF answer[i] = "ok" THEN "succeeded" ELSE "failed"

\* Store.Record: a late reply to an older prompt is not kept.
Keeps(i) == outcome.started <= i

Record(i, state) ==
    /\ outcome' = IF Keeps(i) THEN [started |-> i, state |-> state] ELSE outcome
    /\ recorded' = [recorded EXCEPT ![i] = @ + 1]

DrainRecord ==
    /\ frame # NoId /\ stage = "record"
    /\ stage' = "forward"
    /\ IF isReply THEN Record(frame, OutcomeOf(frame)) ELSE UNCHANGED storeVars
    /\ UNCHANGED <<connVars, clientVars, idVars, claimVars, writer, agentVars, frame,
                   isReply, torn, unfinished, endVars, delivered>>

\* Keeping a result whoever asked and whether or not somebody is there.
KeepAlways(i) == answer[i] = "ok"

\* forward keeps the outcome nobody is there to hear, if this generation asked.
KeepResult(i) == ~Bound /\ isReply /\ gen[i] = connGen /\ answer[i] = "ok"

\* forward, under clientMu: the reply is consumed and routed; a reply whose
\* request teardown took passes unchanged.
DrainForward ==
    /\ frame # NoId /\ stage = "forward"
    /\ frame' = NoId /\ stage' = "observe"
    /\ pending' = pending \ {frame}
    /\ heard' = IF Bound /\ frame \in pending THEN heard \cup {frame} ELSE heard
    /\ strayed' = IF Bound /\ frame \notin pending /\ gen[frame] # connGen
                  THEN strayed \cup {frame} ELSE strayed
    /\ result' = IF KeepResult(frame) THEN frame ELSE result
    \* A rejected prompt may be sent again on the connection that hears of it.
    /\ sentOn' = IF Bound /\ frame \in pending /\ gen[frame] = connGen
                    /\ answer[frame] = "error"
                 THEN [sentOn EXCEPT ![prompt[frame]] = 0] ELSE sentOn
    /\ UNCHANGED <<connVars, wire, next, gen, prompt, claimVars, writer, agentVars,
                   isReply, torn, unfinished, storeVars, delivered>>

\* restoreLocked: a load or a catch-up flushes the kept result.
Restore ==
    /\ Bound /\ result # NoId
    /\ heard' = heard \cup {result}
    /\ result' = NoId
    /\ UNCHANGED <<connVars, clientVars, idVars, claimVars, writer, agentVars, drainVars,
                   torn, unfinished, storeVars, strayed, delivered>>

-----------------------------------------------------------------------------
(* Teardown: closeSession or handleProcessExit.                            *)

\* takePrompts.
Teardown ==
    /\ ~torn
    /\ torn' = TRUE
    /\ unfinished' = pending
    /\ pending' = {}
    /\ UNCHANGED <<connVars, clientVars, next, gen, prompt, claimVars, writer, agentVars,
                   drainVars, storeVars, endVars, delivered>>

TeardownRecord(i) ==
    /\ i \in unfinished
    /\ unfinished' = unfinished \ {i}
    /\ Record(i, "cancelled")
    /\ UNCHANGED <<connVars, clientVars, idVars, claimVars, writer, agentVars, drainVars,
                   torn, endVars, delivered>>

Next ==
    \/ Attach \/ Bind \/ Detach \/ Restore
    \/ \E p \in Prompts : ClientSend(p)
    \/ \E g \in Gens, p \in Prompts : WireLost(g, p) \/ DropDuplicate(g, p) \/ Forward(g, p)
    \/ WriteLands \/ WriteReturns \/ WriteFails
    \/ \E i \in Ids, a \in {"ok", "empty", "error"} : AgentReplies(i, a)
    \/ \E i \in Ids : DrainObserve(i) \/ TeardownRecord(i)
    \/ DrainRecord \/ DrainForward
    \/ Teardown

Spec == Init /\ [][Next]_vars

\* Goroutines go on; the agent answers every prompt it holds.
Fairness ==
    /\ WF_vars(WriteLands \/ WriteFails) /\ WF_vars(WriteReturns)
    /\ WF_vars(DrainRecord) /\ WF_vars(DrainForward)
    /\ \A i \in Ids :
           /\ SF_vars(DrainObserve(i)) /\ WF_vars(TeardownRecord(i))
           /\ WF_vars(\E a \in {"ok", "empty", "error"} : AgentReplies(i, a))

FairSpec == Spec /\ Fairness

-----------------------------------------------------------------------------
(* Properties.                                                             *)

TypeOK ==
    /\ connGen \in 0..MaxGen /\ conn \in {"upgrading", "bound", "gone"}
    /\ wire \subseteq Gens \X Prompts /\ sentOn \in [Prompts -> 0..MaxGen]
    /\ next \in 0..MaxRequests /\ pending \subseteq 1..next
    /\ gen \in [Ids -> 0..MaxGen] /\ prompt \in [Ids -> Prompts \cup {NoPrompt}]
    /\ claims \subseteq 1..next /\ Cardinality(claims) <= MaxDelivered
    /\ forgotten \subseteq Prompts
    /\ writer \in 0..next /\ written \subseteq 1..next
    /\ answer \in [Ids -> {"none", "ok", "empty", "error"}]
    /\ stdout \subseteq written
    /\ frame \in written \cup {NoId} /\ isReply \in BOOLEAN
    /\ stage \in {"observe", "record", "forward"}
    /\ torn \in BOOLEAN /\ unfinished \subseteq 1..next
    /\ outcome.started \in 0..next /\ outcome.state \in {"none", "succeeded", "failed", "cancelled"}
    /\ recorded \in [Ids -> Nat] /\ result \in 0..next
    /\ heard \subseteq Ids /\ strayed \subseteq Ids /\ delivered \subseteq Prompts

\* "a repeat is never run twice" (pump.go, prompts): whichever connection it
\* came from and however late, a prompt reaches the agent again only after the
\* agent rejected it, or after more than maxDeliveredPrompts others.
RunsOnce ==
    \A i, j \in written :
        /\ prompt[i] = prompt[j] /\ i < j
        /\ prompt[i] \notin forgotten
        => answer[i] = "error"

\* "promptWriteMu keeps an in-flight claim from being acknowledged as delivery"
\* (pump.go): what a client is told was delivered did reach the agent.
DeliveredIsTrue == \A p \in delivered : \E i \in written : prompt[i] = p

\* No ghost turn: what GET /v1/turns shows as running is being written, is with
\* the agent, or its reply is on the way (requestIDs.discard, reply).
RunningIsReal ==
    \A i \in pending :
        \/ i = writer
        \/ i \in written /\ answer[i] = "none"
        \/ i \in stdout \/ i = frame

\* A rejected prompt, and only a rejected one, can be sent again: its claim is
\* there exactly while its last run is not known to be rejected (forgetPrompt).
ClaimMatchesRun ==
    \A i \in written :
        /\ prompt[i] \notin forgotten
        /\ answer[i] # "error"
        => ClaimsOf(prompt[i]) # {}

\* A kept result is one that nobody has heard: the flush consumes it
\* (takeTurnResult) and a routed reply never leaves one behind.
ResultToldOnce == result # NoId => result \notin heard /\ answer[result] = "ok"

\* What clients are told of a prompt is true: it was delivered when they are told
\* so, runs when it is listed as running, and its result is told once.
TurnReportsAreTrue == DeliveredIsTrue /\ RunningIsReal /\ ResultToldOnce

\* Every prompt that looks like it runs stops looking so: it fails to be
\* written, or its outcome is recorded by its reply or by teardown.
PromptsSettle ==
    \A i \in Ids :
        (i \in pending /\ ~torn) ~> (i \notin pending /\ (recorded[i] > 0 \/ i \notin written))

\* "so a session being torn down records each one's outcome exactly once"
\* (request_ids.go, takePrompts).
OutcomeRecordedOnce == \A i \in Ids : recorded[i] <= 1

\* "When a prompt finishes while no client is attached [...] the gateway keeps
\* the turn's outcome and replays it to the next connection" (docs/api.md): a
\* finished turn was told to somebody or is kept, unless a newer prompt made it
\* stale.
MissedTurnIsKept ==
    \A i \in written :
        /\ answer[i] = "ok" /\ i \notin stdout /\ i # frame /\ i = next /\ ~torn
        => i \in heard \/ result = i

\* "The reply to a request from a connection that has since been superseded is
\* withheld" (docs/api.md).
RepliesStayHome == strayed = {}

-----------------------------------------------------------------------------
(* What a client may rely on when it sends a prompt again.                 *)

StateOf(i) ==
    CASE i > next -> "none"
      [] i <= next /\ i \notin written -> IF i = writer THEN "starting" ELSE "void"
      [] i \in written /\ answer[i] = "none" -> "running"
      [] i \in stdout /\ answer[i] = "error" -> "rejected"
      [] OTHER -> "over"

Ledger == INSTANCE PromptLedger WITH
    Runs <- Ids, Cap <- MaxDelivered, of <- prompt, state <- [i \in Ids |-> StateOf(i)],
    open <- Prompts \ {prompt[c] : c \in claims}, told <- delivered

\* Whatever connections send it, whichever writes fail and however late answers
\* are read, a prompt is run again only for a run that failed, was rejected or was
\* pushed out by maxDeliveredPrompts, each of which counts once (claim, release and
\* forgetPrompt in prompt_ids.go).
ExecutesOnce == Ledger!Spec
=============================================================================
