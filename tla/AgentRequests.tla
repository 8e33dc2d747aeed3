--------------------------- MODULE AgentRequests ---------------------------
(***************************************************************************)
(* What a pump remembers of the ACP conversation on one agent process:     *)
(* request_ids.go (whose request a reply answers, and the agent's own      *)
(* requests that no client has answered yet), acpstate.go (the initialize  *)
(* response, the sessions the agent holds and their working directories),  *)
(* and the stages of pipeline.go and catch_up.go that use them.            *)
(*                                                                         *)
(* One reader goroutine per connection sends the client's frames to the    *)
(* agent, the drain loop handles the agent's frames one by one.  A client  *)
(* is known by its connection generation, a client's request by its        *)
(* agent-side id, a request of the agent by its number.  Frames of the     *)
(* conversation itself are in CatchUp, the life of a prompt in PumpTurns.  *)
(***************************************************************************)
EXTENDS Naturals, Sequences, FiniteSets

CONSTANTS
    Chats,         \* ACP sessions
    Cwds,          \* working directories
    MaxOpen,       \* maxPendingAgentRequests
    MaxClients,    \* bound: connections
    MaxIds,        \* bound: requests of clients
    MaxAsks,       \* bound: requests of the agent
    Nowhere        \* no chat, no working directory

ASSUME AskConstants ==
    /\ Nowhere \notin Cwds /\ Nowhere \notin Chats
    /\ MaxClients \in Nat /\ MaxAsks \in Nat

VARIABLES
    current,     \* p.connGen
    attached,    \* p.client is set
    joined,      \* the last connection that was bound
    readers,     \* connections whose reader still runs
    origin,      \* r.pending: agent-side id -> gen, method, chat, cwd
    issued,      \* r.next
    writing,     \* ids registered and not yet written to the agent
    atAgent,     \* ids the agent has and has not answered
    initCached,  \* acp.initResponse is set
    held,        \* acp.held
    cwdOf,       \* acp.cwdBySession
    pendingCwd,  \* acp.pendingCwd: id -> cwd
    open,        \* r.agentReqs: key, chat, attention, deliveredGen; the least key is the oldest
    agentOut,    \* frames of the agent not yet handled
    inHand,      \* the frame between the ACP-state stage and forward
    asks,        \* the agent's requests so far: prompt, chat and whether by request id
    waits,       \* requests the agent waits on
    pushedOut,   \* requests the cap pushed out
    overtaken,   \* requests that were open when another prompt of their chat was answered
    sends,       \* how often each request was queued to each connection
    restored,    \* pairs of connection and chat it restored
    openedIn,    \* chat -> the cwd its session/new asked for
    inits        \* initialize requests the agent was sent

linkVars == <<current, attached, joined, readers>>
requestVars == <<origin, issued, writing>>
acpVars == <<initCached, held, cwdOf, pendingCwd>>
sideVars == <<atAgent, asks, waits, inits>>
seenVars == <<sends, restored>>
pipe == <<agentOut, inHand>>
pastVars == <<pushedOut, overtaken, openedIn>>
askVars == <<linkVars, requestVars, acpVars, sideVars, seenVars, open, pipe, pastVars>>

Connections == 1 .. MaxClients
Asks == 1 .. MaxAsks
NoFrame == <<>>
Nobody == 0
Pending(i) == i \in DOMAIN origin
Without(f, i) == [x \in DOMAIN f \ {i} |-> f[x]]
With(f, i, v) == [x \in DOMAIN f \cup {i} |-> IF x = i THEN v ELSE f[x]]

AskInit ==
    /\ current = 0 /\ attached = FALSE /\ joined = 0 /\ readers = {}
    /\ origin = <<>> /\ issued = 0 /\ writing = {}
    /\ initCached = FALSE /\ held = {} /\ pendingCwd = <<>>
    /\ cwdOf = [c \in Chats |-> Nowhere]
    /\ atAgent = {} /\ asks = <<>> /\ waits = {} /\ inits = 0
    /\ open = {} /\ agentOut = <<>> /\ inHand = NoFrame /\ pushedOut = {} /\ overtaken = {}
    /\ sends = [g \in Connections |-> [k \in Asks |-> 0]]
    /\ restored = {}
    /\ openedIn = [c \in Chats |-> Nowhere]
-----------------------------------------------------------------------------
(* Connections.                                                            *)

ClientAttach ==
    /\ current < MaxClients
    /\ current' = current + 1 /\ attached' = FALSE
    /\ UNCHANGED <<joined, readers, requestVars, acpVars, sideVars, seenVars, open, pipe, pastVars>>

ClientBind ==
    /\ joined < current
    /\ attached' = TRUE /\ joined' = current /\ readers' = readers \cup {current}
    /\ UNCHANGED <<current, requestVars, acpVars, sideVars, seenVars, open, pipe, pastVars>>

\* A reader ends; Detach counts only for the newest connection.
HangUp(g) ==
    /\ g \in readers
    /\ readers' = readers \ {g}
    /\ attached' = (attached /\ g # current)
    /\ UNCHANGED <<current, joined, requestVars, acpVars, sideVars, seenVars, open, pipe, pastVars>>
-----------------------------------------------------------------------------
(* Client to agent: WriteToAgent.                                          *)

\* A cwd filed under the id the client gave its request: each connection counts
\* from one, so the first of both connections collide.
KeyedByClientID(i) == 1

\* The id a pending session/new is filed under.
CwdKey(i) == i

\* outbound and observeInbound: the request gets its agent-side id, and the
\* directory it names is remembered.
Register(g, method, chat, cwd) ==
    LET i == issued + 1 IN
    /\ g \in readers /\ issued < MaxIds
    /\ \A j \in writing : origin[j].gen # g
    /\ issued' = i
    /\ origin' = With(origin, i, [gen |-> g, method |-> method, chat |-> chat, cwd |-> cwd])
    /\ writing' = writing \cup {i}
    /\ pendingCwd' = IF method = "new" THEN With(pendingCwd, CwdKey(i), cwd) ELSE pendingCwd
    /\ cwdOf' = IF method = "load" THEN [cwdOf EXCEPT ![chat] = cwd] ELSE cwdOf
    /\ UNCHANGED <<linkVars, initCached, held, sideVars, seenVars, open, pipe, pastVars>>

\* replayInitialize answers a later initialize from the cache; the first goes to
\* the agent.
Initialize(g) == ~initCached /\ Register(g, "initialize", Nowhere, Nowhere)

SessionNew(g, cwd) == Register(g, "new", Nowhere, cwd)

\* A client loads a chat in the directory it was opened in.
SessionLoad(g, chat) ==
    openedIn[chat] # Nowhere /\ Register(g, "load", chat, openedIn[chat])

\* A chat takes any number of prompts; whether a second one waits, is refused or
\* joins the first is up to the agent.
Prompt(g, chat) == chat \in held /\ Register(g, "prompt", chat, Nowhere)

\* The write reaches the agent.
RequestLands(i) ==
    /\ i \in writing
    /\ writing' = writing \ {i} /\ atAgent' = atAgent \cup {i}
    /\ inits' = IF Pending(i) /\ origin[i].method = "initialize" THEN inits + 1 ELSE inits
    /\ UNCHANGED <<linkVars, origin, issued, acpVars, asks, waits, seenVars, open, pipe, pastVars>>

\* The write fails: discard.
RequestFails(i) ==
    /\ i \in writing
    /\ writing' = writing \ {i} /\ origin' = Without(origin, i)
    /\ UNCHANGED <<linkVars, issued, acpVars, sideVars, seenVars, open, pipe, pastVars>>

\* dropAgentRequestLocked.
Dropped(reqs, k) == {r \in reqs : r.key # k}

\* A client answers a request it was sent: answerAgentRequest, and the answer
\* reaches the agent.
Answer(g, k) ==
    /\ g \in readers /\ k \in waits /\ sends[g][k] > 0
    /\ open' = Dropped(open, k)
    /\ waits' = waits \ {k}
    /\ UNCHANGED <<linkVars, requestVars, acpVars, atAgent, asks, inits, seenVars, pipe, pastVars>>
-----------------------------------------------------------------------------
(* The agent.                                                              *)

\* While it works on prompt i it asks the client, naming the chat, or the
\* prompt's id (an elicitation).
Ask(i, byRequest) ==
    /\ i \in atAgent /\ Pending(i) /\ origin[i].method = "prompt" /\ Len(asks) < MaxAsks
    /\ asks' = Append(asks, [turn |-> i, chat |-> origin[i].chat, byRequest |-> byRequest])
    /\ waits' = waits \cup {Len(asks) + 1}
    /\ agentOut' = Append(agentOut, [kind |-> "ask", key |-> Len(asks) + 1])
    /\ UNCHANGED <<linkVars, requestVars, acpVars, atAgent, inits, seenVars, open, inHand, pastVars>>

\* It answers a request.  A load it rejects as already loaded is recovered; a
\* prompt that is over waits on nobody, whatever runs beside it in the chat.
AgentAnswers(i, result, chat) ==
    /\ i \in atAgent
    /\ LET o == origin[i] IN
       /\ o.method # "load" => result \in {"ok", "error"}
       /\ IF o.method = "new" /\ result = "ok"
          THEN chat \in Chats /\ openedIn[chat] = Nowhere ELSE chat = Nowhere
       /\ openedIn' = IF o.method = "new" /\ result = "ok" THEN [openedIn EXCEPT ![chat] = o.cwd] ELSE openedIn
       /\ waits' = {k \in waits : asks[k].turn # i}
       /\ agentOut' = Append(agentOut, [kind |-> "reply", id |-> i, result |-> result, chat |-> chat])
    /\ atAgent' = atAgent \ {i}
    /\ UNCHANGED <<linkVars, requestVars, acpVars, asks, inits, seenVars, open, inHand, pushedOut, overtaken>>
-----------------------------------------------------------------------------
(* Agent to client: handleStdoutLine.                                      *)

\* observeInitialize: the first answer is kept.
InitializeSeen(f) ==
    initCached' = (initCached \/ (origin[f.id].method = "initialize" /\ f.result = "ok"))

\* observeSessionID, bindPendingCwd and acceptSession, for a reply.
ObserveReply(f) ==
    LET o == origin[f.id] IN
    /\ InitializeSeen(f)
    /\ pendingCwd' = Without(pendingCwd, CwdKey(f.id))
    /\ cwdOf' = IF CwdKey(f.id) \in DOMAIN pendingCwd /\ o.method = "new" /\ f.result = "ok"
                THEN [cwdOf EXCEPT ![f.chat] = pendingCwd[CwdKey(f.id)]] ELSE cwdOf
    /\ held' = IF f.result = "error" THEN held
               ELSE CASE o.method = "new" -> held \cup {f.chat}
                      [] o.method = "load" -> held \cup {o.chat}
                      [] OTHER -> held

\* The stages up to forward.
ObserveFrame ==
    /\ inHand = NoFrame /\ agentOut # <<>>
    /\ inHand' = Head(agentOut) /\ agentOut' = Tail(agentOut)
    /\ IF Head(agentOut).kind = "reply" /\ Pending(Head(agentOut).id)
       THEN ObserveReply(Head(agentOut)) ELSE UNCHANGED acpVars
    /\ UNCHANGED <<linkVars, requestVars, sideVars, seenVars, open, pastVars>>

\* setAttentionLocked: the chat a request's attention belongs to.
AttentionChat(k) ==
    IF ~asks[k].byRequest THEN asks[k].chat
    ELSE IF Pending(asks[k].turn) THEN asks[k].chat ELSE Nowhere

\* A request remembered as delivered although nobody was attached.
DeliveredToCurrent == current

\* What trackAgentRequest is told of the delivery.
DeliveredGen == IF attached THEN current ELSE Nobody

\* trackAgentRequest appends, and at the cap the oldest goes.  The agent's
\* requests are handled in the order it made them, so the oldest has the least key.
Oldest(reqs) == {r \in reqs : \A q \in reqs : r.key <= q.key}
Tracked(k) ==
    LET kept == Dropped(open, k) IN
    (IF Cardinality(kept) >= MaxOpen THEN kept \ Oldest(kept) ELSE kept)
    \cup {[key |-> k, chat |-> IF asks[k].byRequest THEN Nowhere ELSE asks[k].chat,
           attention |-> AttentionChat(k), gen |-> DeliveredGen]}

Keys(reqs) == {r.key : r \in reqs}

\* forward of a request: tracked, and queued for whoever is attached.
ForwardAsk ==
    /\ inHand # NoFrame /\ inHand.kind = "ask"
    /\ open' = Tracked(inHand.key)
    /\ pushedOut' = pushedOut \cup (Keys(open) \ Keys(open'))
    /\ sends' = IF attached THEN [sends EXCEPT ![current][inHand.key] = @ + 1] ELSE sends
    /\ inHand' = NoFrame
    /\ UNCHANGED <<linkVars, requestVars, acpVars, sideVars, restored, agentOut, overtaken, openedIn>>

\* A redelivery that does not look at what the connection was sent.
DueAgain(r, g, chat) == r.chat = chat

\* redeliver: which requests connection g is sent with the restored chat.
Due(r, g, chat) == r.chat = chat /\ r.gen # g

\* redeliver and restoreLocked, for the current connection.
RestoreChat(chat, reqs) ==
    LET due == {r \in reqs : Due(r, current, chat)} IN
    /\ open' = (reqs \ due) \cup {[r EXCEPT !.gen = current] : r \in due}
    /\ sends' = [sends EXCEPT ![current] =
                   [k \in Asks |-> IF k \in Keys(due) THEN sends[current][k] + 1 ELSE sends[current][k]]]
    /\ restored' = restored \cup {<<current, chat>>}

\* dropSessionAgentRequestsLocked, when a prompt is answered: every request of
\* the chat goes, whichever of its prompts raised it.
TurnOver(chat) == {r \in open : r.chat # chat /\ r.attention # chat}

\* What another prompt of the chat than i raised and is still open.
RaisedBeside(i, chat) == {k \in Keys(open) : asks[k].chat = chat /\ asks[k].turn # i}

\* forward of a reply: reply consumes the pending entry; a load of the current
\* connection restores its chat.
ForwardReply ==
    /\ inHand # NoFrame /\ inHand.kind = "reply"
    /\ inHand' = NoFrame
    /\ IF ~Pending(inHand.id) THEN UNCHANGED <<origin, open, seenVars, overtaken>>
       ELSE LET o == origin[inHand.id] IN
            /\ origin' = Without(origin, inHand.id)
            /\ IF o.method = "load" /\ o.gen = current /\ attached /\ inHand.result # "error"
               THEN RestoreChat(o.chat, open) /\ UNCHANGED overtaken
               ELSE /\ UNCHANGED seenVars
                    /\ IF o.method = "prompt"
                       THEN /\ open' = TurnOver(o.chat)
                            /\ overtaken' = overtaken \cup RaisedBeside(inHand.id, o.chat)
                       ELSE UNCHANGED <<open, overtaken>>
    /\ UNCHANGED <<linkVars, issued, writing, acpVars, sideVars, agentOut, pushedOut, openedIn>>

\* answerCatchUp without a gap: a session/resume of a chat the agent holds is
\* answered and restored by the gateway, for the current connection only.
CatchUp(g, chat) ==
    /\ g \in readers /\ chat \in held /\ g = current /\ attached
    /\ <<g, chat>> \notin restored
    /\ RestoreChat(chat, open)
    /\ UNCHANGED <<linkVars, requestVars, acpVars, sideVars, pipe, pastVars>>

AskNext ==
    \/ ClientAttach \/ ClientBind \/ ObserveFrame \/ ForwardAsk \/ ForwardReply
    \/ \E g \in Connections :
          \/ HangUp(g) \/ Initialize(g)
          \/ \E cwd \in Cwds : SessionNew(g, cwd)
          \/ \E c \in Chats : SessionLoad(g, c) \/ Prompt(g, c) \/ CatchUp(g, c)
          \/ \E k \in Asks : Answer(g, k)
    \/ \E i \in 1 .. MaxIds :
          \/ RequestLands(i) \/ RequestFails(i)
          \/ \E res \in {"ok", "error", "already"}, c \in Chats \cup {Nowhere} : AgentAnswers(i, res, c)
          \/ \E b \in BOOLEAN : Ask(i, b)

AskSpec == AskInit /\ [][AskNext]_askVars
-----------------------------------------------------------------------------
(* Properties.                                                             *)

\* "that connection gen has not been sent yet" (redeliver): no connection is
\* sent the same request of the agent twice, by the stream and by a restore or by
\* two restores, so nobody is asked twice.
AskedOncePerConnection == \A g \in Connections, k \in Asks : sends[g][k] <= 1

\* The request k is on its way through the pipe.
OnItsWay(k) ==
    \/ \E n \in DOMAIN agentOut : agentOut[n].kind = "ask" /\ agentOut[n].key = k
    \/ inHand # NoFrame /\ inHand.kind = "ask" /\ inHand.key = k

\* The attached client restored the chat of request k, and was not sent it.
Unsent(k) == attached /\ <<current, asks[k].chat>> \in restored /\ sends[current][k] = 0

\* "a client that was away (or dropped before answering) would otherwise leave
\* the agent waiting forever" (redeliver): what the agent waits on in a chat was
\* sent to the attached client that restored the chat.  Three kinds of request are
\* out: one the cap pushed out, one that names only a request id, and one that was
\* open while another prompt of its chat was answered (reply forgets the requests
\* of every prompt of the chat, see WaitersAreResent).
NobodyWaitsUnseen ==
    \A k \in waits :
        Unsent(k) => k \in pushedOut \cup overtaken \/ asks[k].byRequest \/ OnItsWay(k)

\* The attached client is asked exactly once, across reconnects, restores and
\* answers that cross them.
AskedExactlyOnce == AskedOncePerConnection /\ NobodyWaitsUnseen

\* bindPendingCwd and the ids "written to the agent (after rewriting)": the
\* directory of a chat is the one it was opened in, whichever connections' opens
\* crossed on the way.
CwdIsItsOwn == \A c \in Chats : cwdOf[c] # Nowhere => cwdOf[c] = openedIn[c]

\* "never forwards the duplicate" (initResponse).
InitializedOnce == inits <= 1

\* "then the agent's unanswered requests" (docs/api.md, of a restored chat): also
\* those that name the chat by the id of its prompt.
ElicitationsAreResent ==
    \A k \in waits : Unsent(k) => k \in pushedOut \cup overtaken \/ OnItsWay(k)

\* "requests it raised can no longer be answered usefully" (reply): only what the
\* answered prompt raised is forgotten, not what another one waits on.
WaitersAreResent ==
    \A k \in waits : Unsent(k) => k \in pushedOut \/ asks[k].byRequest \/ OnItsWay(k)
=============================================================================
