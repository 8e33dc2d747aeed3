----------------------------- MODULE MCProgress -----------------------------
(***************************************************************************)
(* What a session, its prompts and a returning client eventually reach:    *)
(* SessionLifecycle, PumpTurns and CatchUp for TLC.  They share no         *)
(* variable here; the initial state picks the one that moves (focus).      *)
(***************************************************************************)
EXTENDS SessionLifecycle

CONSTANTS NoPrompt, Prompts

VARIABLES
    focus,
    \* of PumpTurns
    turnGen, conn, wire, sentOn, next, pending, gen, prompt, claims, forgotten, writer,
    written, answer, stdout, frame, isReply, stage, torn, unfinished, outcome, recorded,
    result, heard, strayed, delivered,
    \* of CatchUp
    history, seq, evicted, rejected, items, running, gone, bound, outq, replay, drops,
    synced, asked, cursor, held, staged, expected, missed, stale, overtaken, cursorOf

turnVars == <<turnGen, conn, wire, sentOn, next, pending, gen, prompt, claims, forgotten,
              writer, written, answer, stdout, frame, isReply, stage, torn, unfinished,
              outcome, recorded, result, heard, strayed, delivered>>
replayVars == <<history, seq, evicted, rejected, items, running, gone, bound, outq, replay,
                drops, synced, asked, cursor, held, staged, expected, missed, stale,
                overtaken, cursorOf>>
mcVars == <<vars, focus, turnVars, replayVars>>

Turns == INSTANCE PumpTurns WITH
    connGen <- turnGen, MaxDelivered <- 1, MaxGen <- 2, MaxRequests <- 2
Replay == INSTANCE CatchUp WITH
    MaxHistory <- 2, MaxItems <- 3, MaxDrops <- 1, Unnumbered <- TRUE

MCInit == /\ focus \in {"session", "turns", "replay"}
          /\ Init /\ Turns!Init /\ Replay!ReplayInit

InSession(A) == focus = "session" /\ A /\ UNCHANGED <<focus, turnVars, replayVars>>
InTurns(A) == focus = "turns" /\ A /\ UNCHANGED <<focus, vars, replayVars>>
InReplay(A) == focus = "replay" /\ A /\ UNCHANGED <<focus, vars, turnVars>>

MCNext ==
    \/ InSession(Next)
    \/ InTurns(Turns!Next)
    \/ InReplay(Replay!ReplayNext)

\* The fairness of each module, for the one that moves.
MCFairness ==
    /\ \A s \in Sessions :
           /\ SF_mcVars(InSession(WatchStep(s))) /\ WF_mcVars(InSession(PumpEnd(s)))
           /\ WF_mcVars(InSession(CloseCAS(s))) /\ SF_mcVars(InSession(TeardownStep(s)))
           /\ WF_mcVars(InSession(ShutdownStop(s))) /\ WF_mcVars(InSession(ReaperMeasure(s)))
    /\ WF_mcVars(InSession(ReaperMark))
    /\ \A h \in Handlers :
           /\ SF_mcVars(InSession(AttachStep(h))) /\ SF_mcVars(InSession(DetachStep(h)))
           /\ WF_mcVars(InSession(SocketClosed(h) /\ HLeave(h)))
    /\ WF_mcVars(InTurns(Turns!WriteLands \/ Turns!WriteFails))
    /\ WF_mcVars(InTurns(Turns!WriteReturns))
    /\ WF_mcVars(InTurns(Turns!DrainRecord)) /\ WF_mcVars(InTurns(Turns!DrainForward))
    /\ \A i \in Turns!Ids :
           /\ SF_mcVars(InTurns(Turns!DrainObserve(i)))
           /\ WF_mcVars(InTurns(Turns!TeardownRecord(i)))
           /\ WF_mcVars(InTurns(\E a \in {"ok", "empty", "error"} : Turns!AgentReplies(i, a)))
    /\ WF_mcVars(InReplay(Replay!Reattach)) /\ WF_mcVars(InReplay(Replay!AskCatchUp))
    /\ WF_mcVars(InReplay(Replay!Receive)) /\ WF_mcVars(InReplay(Replay!LoadSnapshot))
    /\ WF_mcVars(InReplay(Replay!LoadForward))

MCSpec == MCInit /\ [][MCNext]_mcVars /\ MCFairness

-----------------------------------------------------------------------------
(* A prompt that looks like it runs stops looking so                       *)
(* (PumpTurns.PromptsSettle).                                              *)
PromptsSettle == Turns!PromptsSettle

(* A client that stays connected gets its transcript                       *)
(* (CatchUp.ReattachCompletes).                                            *)
ReattachCompletes == Replay!ReattachCompletes
=============================================================================
