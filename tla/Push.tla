-------------------------------- MODULE Push --------------------------------
(***************************************************************************)
(* Push notifications.  session/notify.go turns the agent's frames into    *)
(* pushes: the end of a turn, a request for the user, a failed prompt, and *)
(* the throttled progress of a chat, whose timer callback runs on its own  *)
(* goroutine.  The drain loop handles one frame per step; the callbacks    *)
(* and the clients' prompts interleave between frames.  What becomes of a  *)
(* push is in PushTokens.                                                  *)
(***************************************************************************)
EXTENDS Naturals, Sequences, FiniteSetsExt, Functions

CONSTANTS
    Sessions,     \* ACP sessions on one agent process
    ToolKinds,    \* tool kinds, each with its verb
    MaxTurns      \* bound: prompts

ASSUME PushConstants == MaxTurns \in Nat

VARIABLES
    listed,       \* the session is in rs.sessions
    turn,         \* chat -> the number of its last prompt
    running,      \* chats with a prompt the agent has not answered
    turnActive,   \* acp.turnActive
    hadContent,   \* acp.turnHadContent
    toolKind,     \* acp.toolKinds of the tool call of a chat
    states,       \* every progressState ever made
    progress,     \* p.progress: chat -> index of its state, 0 when none
    said,         \* the push this step handed to the session layer
    unjudged      \* chats whose last turn ended in a replaced frame

pushVars == <<listed, turn, running, turnActive, hadContent, toolKind, states,
          progress, said, unjudged>>

NoVerb  == "none"
Generic == "generic"      \* "Using a tool": the kind is unknown
Quiet   == [category |-> "none"]

PushInit ==
    /\ listed = TRUE /\ turn = [c \in Sessions |-> 0] /\ running = {}
    /\ turnActive = FALSE /\ hadContent = FALSE
    /\ toolKind = [c \in Sessions |-> Generic]
    /\ states = <<>> /\ progress = [c \in Sessions |-> 0]
    /\ said = Quiet /\ unjudged = {}
-----------------------------------------------------------------------------
(* A push leaves the pump; a session no longer listed drops it.            *)

onPushNotification(push) == said' = IF listed THEN push ELSE Quiet
NoPush == said' = Quiet

PromptsSent == Max(Range(turn))

(* The client's prompt: observeInbound and the request's registration.     *)
PromptSent(c) ==
    /\ c \notin running /\ listed
    /\ PromptsSent < MaxTurns
    /\ turn' = [turn EXCEPT ![c] = PromptsSent + 1]
    /\ running' = running \cup {c}
    /\ turnActive' = TRUE /\ hadContent' = FALSE
    /\ UNCHANGED <<listed, toolKind, states, progress, unjudged>>
    /\ NoPush

(* The judgement of a prompt's result: a clean end without usage and       *)
(* without content seen since the last prompt of any chat.                 *)
Swallowed(usage) == turnActive /\ ~usage /\ ~hadContent

NewState(c) == [chat |-> c, within |-> FALSE, summary |-> NoVerb,
                pending |-> NoVerb, of |-> 0, timer |-> "none"]
Garbage == NewState("none")

(* Stop prevents a callback that has not started.  A state off the map     *)
(* without one is garbage.                                                 *)
Stopped(i) ==
    IF i # 0 /\ states[i].timer # "fired"
    THEN [states EXCEPT ![i] = Garbage] ELSE states

endProgress(c) ==
    /\ states' = Stopped(progress[c])
    /\ progress' = [progress EXCEPT ![c] = 0]

notifySwallowedFailure(c) == onPushNotification([category |-> "agent_error", chat |-> c])

(* The result of a prompt.  A swallowed failure is replaced by an error    *)
(* frame, for which the notification stage does nothing more.              *)
TurnEnds(c, usage, cancelled) ==
    /\ c \in running
    /\ running' = running \ {c}
    /\ turnActive' = FALSE
    /\ IF Swallowed(usage) /\ ~cancelled
       THEN /\ notifySwallowedFailure(c)
            /\ unjudged' = unjudged \cup {c}
            /\ UNCHANGED <<states, progress>>
       ELSE /\ endProgress(c)
            /\ unjudged' = unjudged \ {c}
            /\ IF cancelled THEN NoPush
               ELSE onPushNotification([category |-> "turn_complete", chat |-> c])
    /\ UNCHANGED <<listed, turn, hadContent, toolKind>>

PromptFails(c) ==
    /\ c \in running
    /\ running' = running \ {c}
    /\ endProgress(c)
    /\ unjudged' = unjudged \ {c}
    /\ onPushNotification([category |-> "agent_error", chat |-> c])
    /\ UNCHANGED <<listed, turn, turnActive, hadContent, toolKind>>

(* session/request_permission, or an elicitation.                          *)
AsksUser(c) ==
    /\ c \in running
    /\ onPushNotification([category |-> "permission_request", chat |-> c])
    /\ UNCHANGED <<listed, turn, running, turnActive, hadContent, toolKind,
                   states, progress, unjudged>>

(* Text of the agent, and a tool call that is announced or finished.       *)
Content(c) ==
    /\ c \in running
    /\ hadContent' = TRUE
    /\ UNCHANGED <<listed, turn, running, turnActive, toolKind, states,
                   progress, unjudged>>
    /\ NoPush

ToolAnnounced(c, kind) ==
    /\ c \in running
    /\ hadContent' = TRUE
    /\ toolKind' = [toolKind EXCEPT ![c] = kind]
    /\ UNCHANGED <<listed, turn, running, turnActive, states, progress,
                   unjudged>>
    /\ NoPush

ToolFinished(c) ==
    /\ c \in running
    /\ hadContent' = TRUE
    /\ toolKind' = [toolKind EXCEPT ![c] = Generic]
    /\ UNCHANGED <<listed, turn, running, turnActive, states, progress,
                   unjudged>>
    /\ NoPush
-----------------------------------------------------------------------------
(* Throttled progress.  "within" is time.Since(st.at) < ProgressInterval.  *)

(* sendProgressLocked on state i of ss.                                    *)
Cleared(ss, i) == [ss EXCEPT ![i].pending = NoVerb]
Sent(ss, i, verb) ==
    [Cleared(ss, i) EXCEPT ![i].within = TRUE, ![i].summary = verb]

sendProgressLocked(ss, i, verb, of) ==
    IF verb = ss[i].summary
    THEN states' = Cleared(ss, i) /\ NoPush
    ELSE /\ states' = Sent(ss, i, verb)
         /\ onPushNotification([category |-> "progress", chat |-> ss[i].chat,
                                verb |-> verb, of |-> of])

(* maybeNotifyProgress: the tool call of chat c starts to run.             *)
ToolRuns(c) ==
    LET made == progress[c] = 0
        i    == IF made THEN Len(states) + 1 ELSE progress[c]
        ss   == IF made THEN Append(states, NewState(c)) ELSE states
    IN  /\ c \in running
        /\ hadContent' = TRUE
        /\ progress' = [progress EXCEPT ![c] = i]
        /\ IF ss[i].within
           THEN /\ states' = [ss EXCEPT ![i].pending = toolKind[c],
                                        ![i].of = turn[c],
                                        ![i].timer = IF @ = "none" THEN "armed" ELSE @]
                /\ NoPush
           ELSE sendProgressLocked(ss, i, toolKind[c], turn[c])
        /\ UNCHANGED <<listed, turn, running, turnActive, toolKind, unjudged>>

(* The throttle interval of a state passes; a timer armed in it is due,    *)
(* and stays due when the next call's push begins a new interval first.    *)
WindowEnds(i) ==
    /\ states[i].within
    /\ states' = [states EXCEPT ![i].within = FALSE,
                                ![i].timer = IF @ = "armed" THEN "due" ELSE @]
    /\ UNCHANGED <<listed, turn, running, turnActive, hadContent, toolKind,
                   progress, unjudged>>
    /\ NoPush

(* The runtime starts the callback; Stop no longer prevents it.            *)
TimerFires(i) ==
    /\ states[i].timer = "due"
    /\ states' = [states EXCEPT ![i].timer = "fired"]
    /\ UNCHANGED <<listed, turn, running, turnActive, hadContent, toolKind,
                   progress, unjudged>>
    /\ NoPush

TurnAssumedOn(i)  == FALSE

(* The callback's first look under progressMu.                             *)
TurnEndedFirst(i) == progress[states[i].chat] # i

TimerCallback(i) ==
    LET ss == [states EXCEPT ![i].timer = "none"]
    IN  /\ states[i].timer = "fired"
        /\ IF TurnEndedFirst(i)
           THEN states' = [states EXCEPT ![i] = Garbage] /\ NoPush
           ELSE sendProgressLocked(ss, i, states[i].pending, states[i].of)
        /\ UNCHANGED <<listed, turn, running, turnActive, hadContent, toolKind,
                       progress, unjudged>>

(* The agent exits: handleProcessExit takes the session off the registry.  *)
AgentExits ==
    /\ listed
    /\ said' = [category |-> "agent_crash"]
    /\ listed' = FALSE /\ running' = {}
    /\ UNCHANGED <<turn, turnActive, hadContent, toolKind, states, progress,
                   unjudged>>
PushNext ==
    \/ \E c \in Sessions :
        \/ PromptSent(c) \/ PromptFails(c) \/ AsksUser(c) \/ Content(c)
        \/ ToolFinished(c) \/ ToolRuns(c)
        \/ \E usage, cancelled \in BOOLEAN : TurnEnds(c, usage, cancelled)
        \/ \E k \in ToolKinds : ToolAnnounced(c, k)
    \/ \E i \in 1 .. Len(states) : WindowEnds(i) \/ TimerFires(i) \/ TimerCallback(i)
    \/ AgentExits

PushSpec == PushInit /\ [][PushNext]_pushVars
-----------------------------------------------------------------------------
(* A progress push is about a turn in progress: the chat's prompt is       *)
(* unanswered when it leaves the pump, and the throttled verb was recorded *)
(* in this very turn, not left behind by an earlier one whose timer could  *)
(* no longer be stopped.  Chats whose turn ended in a replaced frame are   *)
(* excepted: notifyFrame skips that frame, and with it endProgress.        *)
ProgressIsLive ==
    [][said'.category = "progress" =>
            LET c == said'.chat
            IN  c \in unjudged \/ (c \in running /\ said'.of = turn[c])]_pushVars

(* What maybeNotifyProgress says it pushes: the verb of a tool call that   *)
(* starts running.  A push that names no call breaks it.                   *)
ProgressNamesACall == said.category = "progress" => said.verb # NoVerb
=============================================================================
