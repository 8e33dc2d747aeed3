------------------------------ MODULE CatchUp ------------------------------
(***************************************************************************)
(* internal/session/load_recovery.go and catch_up.go: the numbered replay  *)
(* buffer of one ACP session and the client that reattaches to it, by a    *)
(* catch-up from its cursor or, on a gap, by a load that the agent rejects *)
(* as already loaded and the gateway answers from the buffer.              *)
(*                                                                         *)
(* An item is one update of the conversation, numbered by its arrival at   *)
(* the buffer.  Every frame has size one and a prompt has one block.  The  *)
(* client stages what it is sent on a connection until the reply that ends *)
(* the replay, and only then moves its cursor; from then on it applies     *)
(* live updates as they come.                                              *)
(***************************************************************************)
EXTENDS Naturals, Sequences, FiniteSets, FiniteSetsExt, SequencesExt, Lists

CONSTANTS
    MaxHistory,    \* maxLoadHistoryBytes, in frames
    MaxItems,      \* bound: updates and prompts
    MaxDrops,      \* bound: times the connection drops
    Unnumbered     \* whether the agent sends updates that cannot be numbered

ASSUME ReplayConstants ==
    MaxHistory \in Nat /\ MaxItems \in Nat /\ MaxDrops \in Nat /\ Unnumbered \in BOOLEAN

VARIABLES
    history,   \* r.history: frames, oldest first
    seq,       \* r.seq
    evicted,   \* r.evicted
    rejected,  \* r.rejected: pairs from, through
    items,     \* items made so far
    running,   \* items of prompts the agent has not answered
    gone,      \* prompts taken out of the buffer
    bound,     \* a client is bound
    outq,      \* what is queued for it
    replay,    \* the load reply between OnFrame and forward, or NoReplay
    drops,     \* how often a connection dropped
    synced,    \* client: the replay of this connection is complete
    asked,     \* client: waiting for: none, catchup, load
    cursor,    \* client: the seq it has everything up to
    held,      \* client: items of its transcript that the gateway sent it
    staged,    \* client: items of the replay under way
    expected,  \* agent items its transcript should have
    missed,    \* items a completed replay left out
    stale,     \* removed prompts a completed replay left in
    overtaken, \* removed prompts it held when a live update moved its cursor
    cursorOf   \* what last set its cursor: live, catchup, load

bufVars    == <<history, seq, evicted, rejected>>
convVars   == <<items, running, gone, expected>>
clientVars == <<synced, asked, cursor, held, staged, missed, stale, overtaken, cursorOf>>
replayVars == <<bufVars, convVars, bound, outq, replay, drops, clientVars>>

NoReplay == <<>>
NotAPrompt == 0

ItemsOf(frames) == {frames[k].item : k \in DOMAIN frames}

ReplayInit ==
    /\ history = <<>> /\ seq = 0 /\ evicted = 0 /\ rejected = {}
    /\ items = 0 /\ running = {} /\ gone = {} /\ expected = {}
    /\ bound = TRUE /\ outq = <<>> /\ replay = NoReplay /\ drops = 0
    /\ synced = TRUE /\ asked = "none" /\ cursor = 0
    /\ held = {} /\ staged = {} /\ missed = {} /\ stale = {}
    /\ overtaken = {} /\ cursorOf = "live"

-----------------------------------------------------------------------------
(* The buffer.                                                             *)

\* After an eviction the buffer opens with a user message, if it has one.
FirstKept(frames) ==
    LET users == {k \in DOMAIN frames : frames[k].user}
    IN  IF users = {} THEN 1 ELSE Min(users)

Boundary(f) == IF f.seq = 0 THEN f.gapBoundary ELSE f.seq

\* appendHistoryLocked and dropOldestLocked.
AppendHistory(f) ==
    LET all  == Append(history, f)
        over == Len(all) > MaxHistory
        rest == IF over THEN Tail(all) ELSE all
        kept == IF over THEN SubSeq(rest, FirstKept(rest), Len(rest)) ELSE rest
        lost == SubSeq(all, 1, Len(all) - Len(kept))
    IN  /\ history' = kept
        /\ evicted' = Max({evicted} \cup {Boundary(lost[k]) : k \in DOMAIN lost})

\* record: number, buffer and forward an agent update, under clientMu.
AgentUpdate(numbered) ==
    LET i == items + 1
        n == IF numbered THEN seq + 1 ELSE 0
    IN
    /\ replay = NoReplay /\ items < MaxItems /\ (numbered \/ Unnumbered)
    /\ items' = i
    /\ seq' = IF numbered THEN n ELSE seq
    /\ AppendHistory([item |-> i, seq |-> n, user |-> FALSE, promptID |-> NotAPrompt,
                      gapBoundary |-> seq' + 1])
    /\ expected' = expected \cup {i}
    /\ outq' = IF bound THEN Append(outq, [kind |-> "update", item |-> i, seq |-> n])
               ELSE outq
    /\ UNCHANGED <<rejected, running, gone, bound, replay, drops, clientVars>>

\* bufferPrompt: the client's prompt as a user message, not sent live.
Prompt ==
    LET i == items + 1 IN
    /\ bound /\ synced /\ items < MaxItems
    /\ items' = i
    /\ seq' = seq + 1
    /\ AppendHistory([item |-> i, seq |-> seq', user |-> TRUE, promptID |-> i,
                      gapBoundary |-> seq' + 1])
    /\ running' = running \cup {i}
    /\ UNCHANGED <<rejected, gone, expected, bound, outq, replay, drops, clientVars>>

\* forgetPrompt looks at what came after the prompt's frame: agent output keeps
\* the user message as the turn's boundary.
Forgettable(p) ==
    \E k \in DOMAIN history :
        /\ history[k].promptID = p
        /\ \A j \in k..Len(history) : history[j].promptID # NotAPrompt

\* A removal that does not remember who may hold the message.
Untracked(n) == rejected

\* invalidatePromptLocked: the cursors that may contain the removed message;
\* ranges that touch become one, ranges below the evicted end go.
Invalidated(n) ==
    LET current == {r \in rejected : r[2] >= evicted}
        touched == {r \in current : r[2] + 1 >= n}
    IN  (current \ touched) \cup {<<Min({n} \cup {r[1] : r \in touched}), seq>>}

\* A cursor past the rejected range for a repaired transcript.
ReservedHead == seq + 1

\* The agent rejects a prompt, or its write fails: forgetPrompt.
Reject(p) ==
    /\ p \in running
    /\ running' = running \ {p}
    /\ IF Forgettable(p)
       THEN LET f == CHOOSE f \in Range(history) : f.promptID = p IN
            /\ history' = Without(history, {x \in Range(history) : x.promptID = p})
            /\ rejected' = Invalidated(f.seq)
            /\ seq' = ReservedHead
            /\ gone' = gone \cup {p}
       ELSE UNCHANGED <<history, rejected, seq, gone>>
    /\ UNCHANGED <<evicted, items, expected, bound, outq, replay, drops, clientVars>>

\* The turn ends with a result: the prompt stays.
Finish(p) ==
    /\ p \in running
    /\ running' = running \ {p}
    /\ UNCHANGED <<bufVars, items, gone, expected, bound, outq, replay, drops,
                   clientVars>>

-----------------------------------------------------------------------------
(* Reattaching.                                                            *)

\* The connection drops with what is queued for it; the client forgets what it
\* only staged.
Drop ==
    /\ bound /\ drops < MaxDrops
    /\ bound' = FALSE /\ drops' = drops + 1 /\ outq' = <<>>
    /\ synced' = FALSE /\ asked' = "none" /\ staged' = {}
    /\ UNCHANGED <<bufVars, convVars, replay, cursor, held, missed, stale, overtaken, cursorOf>>

\* Attach and Bind of the next connection.
Reattach ==
    /\ ~bound
    /\ bound' = TRUE
    /\ UNCHANGED <<bufVars, convVars, outq, replay, drops, clientVars>>

\* A buffer that replays across what it evicted.
GapIgnoresEviction(after) ==
    \/ after > seq
    \/ \E r \in rejected : r[1] <= after /\ after <= r[2]
    \/ \E k \in DOMAIN history : history[k].seq = 0 /\ history[k].gapBoundary > after

\* catchUp: the buffer cannot fill the client's gap.
Gap(after) ==
    \/ after < evicted \/ after > seq
    \/ \E r \in rejected : r[1] <= after /\ after <= r[2]
    \/ \E k \in DOMAIN history : history[k].seq = 0 /\ history[k].gapBoundary > after

Updates(frames) ==
    [k \in DOMAIN frames |-> [kind |-> "update", item |-> frames[k].item, seq |-> frames[k].seq]]

\* A reply, with what was true when it was made: the agent items the client is
\* to have after it and the prompts it is not to have.
Reply(kind, due) ==
    [kind |-> kind, head |-> seq, due |-> due, lost |-> expected \ due, gone |-> gone]

After(after) == Without(history, {f \in Range(history) : f.seq <= after})

\* answerCatchUp: built and queued under clientMu.
AskCatchUp ==
    /\ bound /\ ~synced /\ asked = "none"
    /\ asked' = "catchup"
    /\ outq' = outq \o (IF Gap(cursor) THEN <<Reply("gap", expected)>>
                        ELSE Append(Updates(After(cursor)), Reply("caughtup", expected)))
    /\ UNCHANGED <<bufVars, convVars, bound, replay, drops, synced, cursor, held, staged,
                   missed, stale, overtaken, cursorOf>>

\* OnFrame: the agent rejects the load as already loaded; the buffer as it is
\* now will be the answer.  The drain loop does nothing else until it is queued.
LoadSnapshot ==
    /\ bound /\ asked = "load" /\ replay = NoReplay
    /\ replay' = Append(Updates(history), Reply("loaded", expected \cap ItemsOf(history)))
    /\ asked' = "loading"
    /\ UNCHANGED <<bufVars, convVars, bound, outq, drops, synced,
                   cursor, held, staged, missed, stale, overtaken, cursorOf>>

\* An answer that is built and never queued.
LoadLost ==
    /\ replay # NoReplay
    /\ replay' = NoReplay
    /\ UNCHANGED <<bufVars, convVars, bound, outq, drops, clientVars>>

\* forward: the answer is queued if the connection that asked is still there.
LoadForward ==
    /\ replay # NoReplay
    /\ outq' = IF bound /\ asked = "loading" THEN outq \o replay ELSE outq
    /\ replay' = NoReplay
    /\ UNCHANGED <<bufVars, convVars, bound, drops, clientVars>>

\* The client gives the commit of a replay its new transcript.
Commit(m, transcript) ==
    /\ held' = transcript
    /\ cursorOf' = m.kind /\ UNCHANGED overtaken
    /\ cursor' = m.head
    /\ synced' = TRUE /\ asked' = "none" /\ staged' = {}
    \* What the buffer no longer had, a loaded transcript need not have.
    /\ expected' = expected \ m.lost
    /\ missed' = missed \cup (m.due \ transcript)
    /\ stale' = stale \cup (transcript \cap m.gone)

\* The client reads one message.  [External: the client.]
Receive ==
    LET m == Head(outq) IN
    /\ bound /\ outq # <<>>
    /\ outq' = Tail(outq)
    /\ \/ /\ m.kind = "update" /\ synced
          /\ held' = held \cup {m.item}
          /\ cursor' = IF m.seq = 0 THEN cursor ELSE m.seq
          /\ cursorOf' = "live"
          /\ overtaken' = overtaken \cup (held \cap gone)
          /\ UNCHANGED <<synced, asked, staged, missed, stale, expected>>
       \/ /\ m.kind = "update" /\ ~synced
          /\ staged' = staged \cup {m.item}
          /\ UNCHANGED <<synced, asked, cursor, held, missed, stale, overtaken, cursorOf,
                         expected>>
       \/ /\ m.kind = "caughtup" /\ Commit(m, held \cup staged)
       \/ /\ m.kind = "gap"
          /\ asked' = "load" /\ staged' = {}
          /\ UNCHANGED <<synced, cursor, held, missed, stale, overtaken, cursorOf, expected>>
       \/ /\ m.kind = "loaded" /\ Commit(m, staged)
    /\ UNCHANGED <<bufVars, items, running, gone, bound, replay, drops>>

ReplayNext ==
    \/ \E numbered \in BOOLEAN : AgentUpdate(numbered)
    \/ Prompt \/ \E p \in 1..MaxItems : Reject(p) \/ Finish(p)
    \/ Drop \/ Reattach \/ AskCatchUp \/ LoadSnapshot \/ LoadForward \/ Receive

ReplaySpec == ReplayInit /\ [][ReplayNext]_replayVars

\* The client asks and reads, the drain loop goes on.
ReplayFairness ==
    /\ WF_replayVars(Reattach) /\ WF_replayVars(AskCatchUp) /\ WF_replayVars(Receive)
    /\ WF_replayVars(LoadSnapshot) /\ WF_replayVars(LoadForward)

ReplayFairSpec == ReplaySpec /\ ReplayFairness

-----------------------------------------------------------------------------
(* Properties.                                                             *)

\* The state has its type, and the buffer its cap (appendHistoryLocked).
ReplayTypeOK ==
    /\ \A k \in DOMAIN history :
           /\ history[k].item \in 1..MaxItems /\ history[k].seq \in 0..seq
           /\ history[k].promptID \in {NotAPrompt, history[k].item}
    /\ Len(history) <= MaxHistory
    /\ seq \in 0..2 * MaxItems /\ evicted \in 0..seq + 1
    /\ \A r \in rejected : r[1] \in 1..r[2] /\ r[2] \in 1..seq
    /\ cursor \in 0..seq /\ held \cup staged \subseteq 1..items
    /\ asked \in {"none", "catchup", "load", "loading"}
    /\ cursorOf \in {"live", "caughtup", "loaded"}

\* A client whose catch-up or load completed has every update of the
\* conversation it was promised, whatever was lost with the connections before
\* (catchUp: the gap rule).
NothingMissed == missed = {}

\* A client whose replay completed does not keep a prompt that the buffer took
\* back, unless a live update carried its cursor past the rejected range while
\* it held the prompt (invalidatePromptLocked: "Earlier cursors never saw it;
\* later ones can follow a load that repaired the transcript").
NothingStale == stale \subseteq overtaken

\* A completed replay leaves the client with the conversation as the buffer has
\* it: nothing missing, nothing that was taken back.
ReplayIsFaithful == NothingMissed /\ NothingStale

\* A client that stays connected gets its transcript, by catch-up or by load.
ReattachCompletes == bound ~> (synced \/ ~bound)

\* "no update is sent twice or out of order across the replay" (answerCatchUp):
\* the numbers queued for one connection only grow.
SentInOrder ==
    \A j, k \in DOMAIN outq :
        /\ j < k /\ outq[j].kind = "update" /\ outq[k].kind = "update"
        /\ outq[j].seq > 0 /\ outq[k].seq > 0
        => outq[j].seq < outq[k].seq

\* "the client can use that cursor for its next catch-up, even when no updates
\* were replayed" (docs/api.md, of the cursor of a recovered load).
LoadCursorIsUsable ==
    synced /\ cursorOf = "loaded" /\ expected \subseteq held /\ held \cap gone = {} /\ cursor = seq
        => ~Gap(cursor)

\* "a cursor that may contain a rejected prompt removed from replay" is a gap
\* (docs/api.md): a completed replay leaves no rejected prompt behind.
RejectedPromptsRepaired == stale = {}
=============================================================================
