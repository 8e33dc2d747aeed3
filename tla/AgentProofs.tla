----------------------------- MODULE AgentProofs -----------------------------
(***************************************************************************)
(* An agent, for every set of prompts, launches and edits and whatever the *)
(* bounds: a prompt runs as often as the ledger allows, what a client is   *)
(* told of it is true, the client is asked once by each request the agent  *)
(* waits on, what is launched is a whole program, the catalog and the      *)
(* table of custom agents say the same, a chat is answered in the          *)
(* directory of its own session, and a push of progress is about a turn    *)
(* that is on.                                                             *)
(***************************************************************************)
EXTENDS PumpTurns, AgentRequests, Push, Install, Catalog, FiniteSetTheorems, TLAPS,
        WellFoundedInduction

-----------------------------------------------------------------------------
(* Prompts and replies.                                                    *)

Types ==
    /\ next \in Nat
    /\ pending \subseteq 1..next /\ claims \subseteq 1..next /\ written \subseteq 1..next
    /\ stdout \subseteq written
    /\ writer \in 0..next
    /\ prompt \in [Ids -> Prompts \cup {NoPrompt}]
    /\ answer \in [Ids -> {"none", "ok", "empty", "error"}]
    /\ next <= MaxRequests
    /\ \A i \in Ids \ written : answer[i] = "none"
    /\ \A i \in stdout : answer[i] # "none"

\* promptWriteMu: the request being written is the latest one.
WriterIsLast == writer # NoId => writer = next

\* Everything that reached the agent or is about to.
SentIds == written \cup ({writer} \ {NoId})

\* The claim of a request stands until a rejection of it has been drained.
Standing(i) == answer[i] # "error" \/ i \in stdout \cap pending

\* An earlier request for the same prompt no longer stands.
SentOnce ==
    \A i, j \in SentIds :
        (prompt[i] = prompt[j] /\ i < j /\ prompt[i] \notin forgotten) => ~Standing(i)

\* A standing request has its prompt claimed.
StandingIsClaimed ==
    \A i \in SentIds : (Standing(i) /\ prompt[i] \notin forgotten) => AlreadyClaimed(prompt[i])

\* A claim is for something that was sent.
ClaimsAreSent == claims \subseteq SentIds

\* Where the reply to a pending request is.
ReplyIsSomewhere ==
    \A i \in pending :
        /\ i \notin written => i = writer
        /\ i \in written => answer[i] = "none" \/ i \in stdout \/ i = frame

IndInv ==
    /\ Types /\ WriterIsLast /\ SentOnce /\ StandingIsClaimed /\ ClaimsAreSent
    /\ DeliveredIsTrue /\ ReplyIsSomewhere

USE PumpConstants DEF Ids, Gens, NoId

LEMMA InitInd == Init => IndInv
BY DEF Init, IndInv, Types, WriterIsLast, SentIds, SentOnce, StandingIsClaimed, ClaimsAreSent,
       DeliveredIsTrue, ReplyIsSomewhere

\* What IndInv depends on: a step that leaves these alone keeps it.
indVars == <<next, pending, prompt, claims, forgotten, writer, written, answer, stdout, frame,
             delivered>>

LEMMA Untouched == ASSUME IndInv, UNCHANGED indVars PROVE IndInv'
BY DEF indVars, IndInv, Types, WriterIsLast, SentIds, Standing, SentOnce, StandingIsClaimed,
       ClaimsAreSent, AlreadyClaimed, ClaimsOf, DeliveredIsTrue, ReplyIsSomewhere

LEMMA Step == ASSUME IndInv, [Next]_vars PROVE IndInv'
<1> USE DEF connVars, clientVars, idVars, claimVars, agentVars, drainVars, storeVars, endVars
<1>1. CASE Attach
  BY <1>1, Untouched DEF Attach, indVars
<1>2. CASE Bind
  BY <1>2, Untouched DEF Bind, indVars
<1>3. CASE Detach
  BY <1>3, Untouched DEF Detach, indVars
<1>4. CASE Restore
  BY <1>4, Untouched DEF Restore, indVars
<1>5. ASSUME NEW p \in Prompts, ClientSend(p) PROVE IndInv'
  BY <1>5, Untouched DEF ClientSend, indVars
<1>6. ASSUME NEW g \in Gens, NEW p \in Prompts, WireLost(g, p) PROVE IndInv'
  BY <1>6, Untouched DEF WireLost, indVars
<1>7. ASSUME NEW g \in Gens, NEW p \in Prompts, DropDuplicate(g, p) PROVE IndInv'
  <2> USE DEF IndInv, Types, WriterIsLast, SentIds, Standing, AlreadyClaimed, ClaimsOf
  <2>1. Types'
    BY <1>7 DEF DropDuplicate
  <2>2. WriterIsLast'
    BY <1>7 DEF DropDuplicate
  <2>3. SentOnce'
    BY <1>7 DEF DropDuplicate, SentOnce
  <2>4. StandingIsClaimed'
    BY <1>7 DEF DropDuplicate, StandingIsClaimed
  <2>5. ClaimsAreSent'
    BY <1>7 DEF DropDuplicate, ClaimsAreSent
  <2>6. DeliveredIsTrue'
    <3>1. PICK c \in claims : prompt[c] = p
      BY <1>7 DEF DropDuplicate
    <3>2. c \in written
      BY <1>7 DEF DropDuplicate, PromptWriteMuFree, ClaimsAreSent
    <3>3. delivered' \subseteq delivered \cup {p} /\ UNCHANGED <<written, prompt>>
      BY <1>7 DEF DropDuplicate
    <3> QED BY <3>1, <3>2, <3>3 DEF DeliveredIsTrue
  <2>7. ReplyIsSomewhere'
    BY <1>7 DEF DropDuplicate, ReplyIsSomewhere
  <2> QED BY <2>1, <2>2, <2>3, <2>4, <2>5, <2>6, <2>7 DEF IndInv
<1>8. ASSUME NEW g \in Gens, NEW p \in Prompts, Forward(g, p) PROVE IndInv'
  <2> USE DEF IndInv, Types, WriterIsLast, SentIds, Standing, AlreadyClaimed, ClaimsOf
  <2>1. Types'
    BY <1>8 DEF Forward
  <2>2. WriterIsLast'
    BY <1>8 DEF Forward
  <2>3. SentOnce'
    BY <1>8 DEF Forward, SentOnce, PromptWriteMuFree, StandingIsClaimed
  <2>4. StandingIsClaimed'
    <3>0. PICK n : n = next + 1
      OBVIOUS
    <3>1. /\ prompt' = [prompt EXCEPT ![n] = p] /\ claims' = (claims \ PushedOut) \cup {n}
          /\ forgotten' = forgotten \cup ({prompt[j] : j \in PushedOut} \ {p})
          /\ n \in Ids /\ prompt'[n] = p /\ n \notin claims
      BY <1>8, <3>0 DEF Forward
    <3>2. \A k \in 1..next : prompt'[k] = prompt[k] /\ answer'[k] = answer[k]
                               /\ (Standing(k)' => Standing(k))
      BY <1>8 DEF Forward
    <3>3. SentIds' = written \cup {n} /\ SentIds = written
      BY <1>8, <3>0 DEF Forward, PromptWriteMuFree
    <3>4. ASSUME NEW k \in written, Standing(k)', prompt'[k] \notin forgotten'
          PROVE  AlreadyClaimed(prompt[k])'
      <4>1. k \in 1..next /\ prompt'[k] = prompt[k] /\ Standing(k) /\ prompt[k] \notin forgotten
        BY <3>1, <3>2, <3>4
      <4>2. PICK c \in claims : prompt[c] = prompt[k]
        BY <4>1, <3>3, ZenonT(30) DEF StandingIsClaimed
      <4>3. prompt[c] # p
        BY <1>8 DEF Forward
      <4>4. c \notin PushedOut
        BY <4>1, <4>2, <4>3, <3>1, <3>4
      <4>5. c \in claims' /\ prompt'[c] = prompt'[k]
        BY <4>1, <4>2, <4>4, <3>1, <3>2
      <4> QED BY <4>1, <4>5
    <3>5. AlreadyClaimed(prompt[n])'
      BY <3>1
    <3> QED BY <3>3, <3>4, <3>5 DEF StandingIsClaimed
  <2>5. ClaimsAreSent'
    BY <1>8 DEF Forward, ClaimsAreSent, PromptWriteMuFree
  <2>6. DeliveredIsTrue'
    BY <1>8 DEF Forward, DeliveredIsTrue
  <2>7. ReplyIsSomewhere'
    BY <1>8 DEF Forward, ReplyIsSomewhere, PromptWriteMuFree
  <2> QED BY <2>1, <2>2, <2>3, <2>4, <2>5, <2>6, <2>7 DEF IndInv
<1>9. CASE WriteLands
  <2> USE DEF IndInv, Types, WriterIsLast, SentIds, Standing, AlreadyClaimed, ClaimsOf
  <2>1. Types'
    BY <1>9 DEF WriteLands
  <2>2. WriterIsLast'
    BY <1>9 DEF WriteLands
  <2>3. SentOnce'
    BY <1>9 DEF WriteLands, SentOnce
  <2>4. StandingIsClaimed'
    BY <1>9 DEF WriteLands, StandingIsClaimed
  <2>5. ClaimsAreSent'
    BY <1>9 DEF WriteLands, ClaimsAreSent
  <2>6. DeliveredIsTrue'
    BY <1>9 DEF WriteLands, DeliveredIsTrue
  <2>7. ReplyIsSomewhere'
    BY <1>9 DEF WriteLands, ReplyIsSomewhere
  <2> QED BY <2>1, <2>2, <2>3, <2>4, <2>5, <2>6, <2>7 DEF IndInv
<1>10. CASE WriteReturns
  <2> USE DEF IndInv, Types, WriterIsLast, SentIds, Standing, AlreadyClaimed, ClaimsOf
  <2>1. Types'
    BY <1>10 DEF WriteReturns
  <2>2. WriterIsLast'
    BY <1>10 DEF WriteReturns
  <2>3. SentOnce'
    BY <1>10 DEF WriteReturns, SentOnce
  <2>4. StandingIsClaimed'
    BY <1>10 DEF WriteReturns, StandingIsClaimed
  <2>5. ClaimsAreSent'
    BY <1>10 DEF WriteReturns, ClaimsAreSent
  <2>6. DeliveredIsTrue'
    BY <1>10 DEF WriteReturns, DeliveredIsTrue
  <2>7. ReplyIsSomewhere'
    BY <1>10 DEF WriteReturns, ReplyIsSomewhere
  <2> QED BY <2>1, <2>2, <2>3, <2>4, <2>5, <2>6, <2>7 DEF IndInv
<1>11. CASE WriteFails
  <2> USE DEF IndInv, Types, WriterIsLast, SentIds, Standing, AlreadyClaimed, ClaimsOf
  <2>1. Types'
    <3>1. UNCHANGED <<next, prompt, written, answer, stdout>> /\ writer' = 0
      BY <1>11 DEF WriteFails
    <3>2. pending' \subseteq pending /\ claims' \subseteq claims
      BY <1>11 DEF WriteFails, Discarded
    <3> HIDE DEF ClaimsOf, AlreadyClaimed, Standing, SentIds, WriterIsLast
    <3> QED BY <3>1, <3>2
  <2>2. WriterIsLast'
    BY <1>11 DEF WriteFails
  <2>3. SentOnce'
    BY <1>11 DEF WriteFails, SentOnce, Discarded
  <2>4. StandingIsClaimed'
    BY <1>11 DEF WriteFails, StandingIsClaimed, Discarded, SentOnce
  <2>5. ClaimsAreSent'
    BY <1>11 DEF WriteFails, ClaimsAreSent
  <2>6. DeliveredIsTrue'
    BY <1>11 DEF WriteFails, DeliveredIsTrue
  <2>7. ReplyIsSomewhere'
    BY <1>11 DEF WriteFails, ReplyIsSomewhere, Discarded
  <2> QED BY <2>1, <2>2, <2>3, <2>4, <2>5, <2>6, <2>7 DEF IndInv
<1>12. ASSUME NEW i \in Ids, NEW a \in {"ok", "empty", "error"}, AgentReplies(i, a) PROVE IndInv'
  <2> USE DEF IndInv, Types, WriterIsLast, SentIds, Standing, AlreadyClaimed, ClaimsOf
  <2>1. Types'
    BY <1>12 DEF AgentReplies
  <2>2. WriterIsLast'
    BY <1>12 DEF AgentReplies
  <2>3. SentOnce'
    BY <1>12 DEF AgentReplies, SentOnce
  <2>4. StandingIsClaimed'
    BY <1>12 DEF AgentReplies, StandingIsClaimed
  <2>5. ClaimsAreSent'
    BY <1>12 DEF AgentReplies, ClaimsAreSent
  <2>6. DeliveredIsTrue'
    BY <1>12 DEF AgentReplies, DeliveredIsTrue
  <2>7. ReplyIsSomewhere'
    BY <1>12 DEF AgentReplies, ReplyIsSomewhere
  <2> QED BY <2>1, <2>2, <2>3, <2>4, <2>5, <2>6, <2>7 DEF IndInv
<1>13. ASSUME NEW i \in Ids, DrainObserve(i) PROVE IndInv'
  <2> USE DEF IndInv, Types, WriterIsLast, SentIds, Standing, AlreadyClaimed, ClaimsOf
  <2>1. Types'
    BY <1>13 DEF DrainObserve
  <2>2. WriterIsLast'
    BY <1>13 DEF DrainObserve
  <2>3. SentOnce'
    BY <1>13 DEF DrainObserve, SentOnce
  <2>4. StandingIsClaimed'
    BY <1>13 DEF DrainObserve, StandingIsClaimed, Releases, SentOnce
  <2>5. ClaimsAreSent'
    BY <1>13 DEF DrainObserve, ClaimsAreSent
  <2>6. DeliveredIsTrue'
    BY <1>13 DEF DrainObserve, DeliveredIsTrue
  <2>7. ReplyIsSomewhere'
    BY <1>13 DEF DrainObserve, ReplyIsSomewhere
  <2> QED BY <2>1, <2>2, <2>3, <2>4, <2>5, <2>6, <2>7 DEF IndInv
<1>14. ASSUME NEW i \in Ids, TeardownRecord(i) PROVE IndInv'
  BY <1>14, Untouched DEF TeardownRecord, indVars
<1>15. CASE DrainRecord
  BY <1>15, Untouched DEF DrainRecord, indVars
<1>16. CASE DrainForward
  <2> USE DEF IndInv, Types, WriterIsLast, SentIds, Standing, AlreadyClaimed, ClaimsOf
  <2>1. Types'
    BY <1>16 DEF DrainForward
  <2>2. WriterIsLast'
    BY <1>16 DEF DrainForward
  <2>3. SentOnce'
    BY <1>16 DEF DrainForward, SentOnce
  <2>4. StandingIsClaimed'
    BY <1>16 DEF DrainForward, StandingIsClaimed
  <2>5. ClaimsAreSent'
    BY <1>16 DEF DrainForward, ClaimsAreSent
  <2>6. DeliveredIsTrue'
    BY <1>16 DEF DrainForward, DeliveredIsTrue
  <2>7. ReplyIsSomewhere'
    BY <1>16 DEF DrainForward, ReplyIsSomewhere
  <2> QED BY <2>1, <2>2, <2>3, <2>4, <2>5, <2>6, <2>7 DEF IndInv
<1>17. CASE Teardown
  <2> USE DEF IndInv, Types, WriterIsLast, SentIds, Standing, AlreadyClaimed, ClaimsOf
  <2>1. Types'
    BY <1>17 DEF Teardown
  <2>2. WriterIsLast'
    BY <1>17 DEF Teardown
  <2>3. SentOnce'
    BY <1>17 DEF Teardown, SentOnce
  <2>4. StandingIsClaimed'
    BY <1>17 DEF Teardown, StandingIsClaimed
  <2>5. ClaimsAreSent'
    BY <1>17 DEF Teardown, ClaimsAreSent
  <2>6. DeliveredIsTrue'
    BY <1>17 DEF Teardown, DeliveredIsTrue
  <2>7. ReplyIsSomewhere'
    BY <1>17 DEF Teardown, ReplyIsSomewhere
  <2> QED BY <2>1, <2>2, <2>3, <2>4, <2>5, <2>6, <2>7 DEF IndInv
<1>18. CASE UNCHANGED vars
  BY <1>18, Untouched DEF vars, indVars
<1> QED BY <1>1, <1>2, <1>3, <1>4, <1>5, <1>6, <1>7, <1>8, <1>9, <1>10, <1>11, <1>12, <1>13, <1>14, <1>15, <1>16, <1>17, <1>18 DEF Next

LEMMA Inductive == Spec => []IndInv
<1>1. IndInv /\ [Next]_vars => IndInv'
  BY Step
<1> QED BY InitInd, <1>1, PTL DEF Spec

\* However often and over however many connections a prompt is sent, the agent
\* gets it again only after rejecting it (prompt_ids.go, claim and release).
THEOREM NoPromptRunsTwice == Spec => []RunsOnce
<1>1. IndInv => RunsOnce
  BY DEF IndInv, Types, SentIds, SentOnce, Standing, RunsOnce
<1> QED BY Inductive, <1>1, PTL

\* A client told that its prompt was delivered can rely on it (pump.go,
\* promptWriteMu).
THEOREM DeliveryReportsSound == Spec => []DeliveredIsTrue
<1>1. IndInv => DeliveredIsTrue
  BY DEF IndInv
<1> QED BY Inductive, <1>1, PTL

\* No turn is shown as running that nothing runs (request_ids.go, discard and
\* reply).
THEOREM NoGhostTurn == Spec => []RunningIsReal
<1>1. IndInv => RunningIsReal
  BY DEF IndInv, ReplyIsSomewhere, RunningIsReal
<1> QED BY Inductive, <1>1, PTL

\* A run the agent has not rejected keeps its clientId claimed (prompt_ids.go).
THEOREM ClaimsFollowRuns == Spec => []ClaimMatchesRun
<1>1. IndInv => ClaimMatchesRun
  BY DEF IndInv, SentIds, Standing, StandingIsClaimed, AlreadyClaimed, ClaimMatchesRun
<1> QED BY Inductive, <1>1, PTL

-----------------------------------------------------------------------------
(* A result is told once.                                                  *)

\* A reply is in one place at a time: with the drain loop, told, or kept.
RepliesApart ==
    /\ \A i \in (heard \cup {frame, result}) \ {NoId} :
           i \in written /\ i \notin stdout /\ answer[i] # "none"
    /\ frame # NoId => frame \notin heard /\ frame # result
    /\ NoId \notin heard
    /\ ResultToldOnce

LEMMA RepliesStep == ASSUME IndInv, RepliesApart, [Next]_vars PROVE RepliesApart'
<1> USE DEF RepliesApart, ResultToldOnce, IndInv, Types, connVars, clientVars, idVars,
            claimVars, agentVars, drainVars, storeVars, endVars
\* Steps that move no reply.
<1>1. CASE UNCHANGED <<written, answer, stdout, frame, heard, result>>
  BY <1>1
<1>2. CASE Attach \/ Bind \/ Detach \/ WriteReturns \/ WriteFails \/ DrainRecord \/ Teardown
  BY <1>1, <1>2 DEF Attach, Bind, Detach, WriteReturns, WriteFails, DrainRecord, Teardown
<1>3. ASSUME NEW p \in Prompts,
             \/ ClientSend(p) \/ \E g \in Gens : WireLost(g, p) \/ DropDuplicate(g, p)
      PROVE  RepliesApart'
  BY <1>1, <1>3 DEF ClientSend, WireLost, DropDuplicate
<1>4. ASSUME NEW i \in Ids, TeardownRecord(i) PROVE RepliesApart'
  BY <1>1, <1>4 DEF TeardownRecord
<1>5. CASE UNCHANGED vars
  BY <1>1, <1>5 DEF vars
\* Steps that move one.
<1>6. CASE Restore
  BY <1>6 DEF Restore
<1>7. ASSUME NEW g \in Gens, NEW p \in Prompts, Forward(g, p) PROVE RepliesApart'
  BY <1>7 DEF Forward
<1>8. CASE WriteLands
  BY <1>8 DEF WriteLands
<1>9. ASSUME NEW i \in Ids, NEW a \in {"ok", "empty", "error"}, AgentReplies(i, a)
      PROVE  RepliesApart'
  BY <1>9 DEF AgentReplies
<1>10. ASSUME NEW i \in Ids, DrainObserve(i) PROVE RepliesApart'
  <2>1. i \in written /\ answer[i] # "none"
    BY <1>10 DEF DrainObserve
  <2> QED
    BY <1>10, <2>1 DEF DrainObserve
<1>11. CASE DrainForward
  BY <1>11 DEF DrainForward, KeepResult
<1> HIDE DEF RepliesApart
<1> QED
  BY <1>2, <1>3, <1>4, <1>5, <1>6, <1>7, <1>8, <1>9, <1>10, <1>11 DEF Next

\* What a client is told of its prompts is true, and a result that was kept for
\* it is told once (pump.go, request_ids.go and turn_result.go).
THEOREM ReportsSound == Spec => []TurnReportsAreTrue
<1>1. Init => RepliesApart
  BY DEF Init, RepliesApart, ResultToldOnce
<1>2. IndInv /\ RepliesApart /\ [Next]_vars => RepliesApart'
  BY RepliesStep
<1>3. IndInv /\ RepliesApart => TurnReportsAreTrue
  BY DEF IndInv, RepliesApart, ReplyIsSomewhere, RunningIsReal, TurnReportsAreTrue
<1> QED BY Inductive, <1>1, <1>2, <1>3, PTL DEF Spec

-----------------------------------------------------------------------------
(* What a client may rely on when it sends a prompt again.                 *)

\* A claim is for the last request there was for its prompt.
ClaimIsLatest == \A c \in claims : \A k \in 1..next : prompt[k] = prompt[c] => k <= c

LedgerInv == (\A k \in 1..next : prompt[k] \in Prompts) /\ ClaimIsLatest

LEMMA LedgerStep == ASSUME IndInv, LedgerInv, [Next]_vars PROVE LedgerInv'
<1> USE DEF connVars, clientVars, idVars, claimVars, agentVars, drainVars, storeVars, endVars
<1>1. CASE claims' \subseteq claims /\ UNCHANGED <<next, prompt>>
  BY <1>1 DEF LedgerInv, ClaimIsLatest
<1>2. CASE \/ Attach \/ Bind \/ Detach \/ Restore \/ WriteLands \/ WriteReturns \/ WriteFails
           \/ DrainRecord \/ DrainForward \/ Teardown
  BY <1>1, <1>2 DEF Attach, Bind, Detach, Restore, WriteLands, WriteReturns, WriteFails,
                    DrainRecord, DrainForward, Teardown
<1>3. ASSUME NEW p \in Prompts,
             \/ ClientSend(p) \/ \E g \in Gens : WireLost(g, p) \/ DropDuplicate(g, p)
      PROVE  LedgerInv'
  BY <1>1, <1>3 DEF ClientSend, WireLost, DropDuplicate
<1>4. ASSUME NEW i \in Ids, \/ DrainObserve(i) \/ TeardownRecord(i)
                            \/ \E a \in {"ok", "empty", "error"} : AgentReplies(i, a)
      PROVE  LedgerInv'
  BY <1>1, <1>4 DEF DrainObserve, TeardownRecord, AgentReplies
<1>5. ASSUME NEW g \in Gens, NEW p \in Prompts, Forward(g, p) PROVE LedgerInv'
  <2>1. PICK n : n = next + 1
    OBVIOUS
  <2>2. /\ next' = n /\ n \in Ids /\ claims' \subseteq claims \cup {n}
        /\ prompt' = [prompt EXCEPT ![n] = p]
        /\ \A c \in claims : prompt[c] # p
    BY <1>5, <2>1 DEF Forward, AlreadyClaimed, ClaimsOf, IndInv, Types
  <2>3. /\ next \in Nat /\ claims \subseteq 1..next /\ 1..next \subseteq Ids
        /\ 1..n = 1..next \cup {n} /\ n \notin 1..next
    BY <2>1 DEF IndInv, Types
  <2>4. prompt'[n] = p /\ \A k \in 1..next : prompt'[k] = prompt[k]
    BY <2>2, <2>3 DEF IndInv, Types
  <2>5. ASSUME NEW c \in claims', NEW k \in 1..n, prompt'[k] = prompt'[c] PROVE k <= c
    <3>1. CASE c = n
      BY <2>1, <2>3, <3>1
    <3>2. CASE c # n
      <4>1. c \in claims /\ k # n
        BY <2>2, <2>3, <2>4, <2>5, <3>2
      <4> QED BY <2>3, <2>4, <2>5, <4>1 DEF LedgerInv, ClaimIsLatest
    <3> QED BY <3>1, <3>2
  <2>6. \A k \in 1..n : prompt'[k] \in Prompts
    BY <2>3, <2>4 DEF LedgerInv
  <2> QED BY <2>2, <2>5, <2>6 DEF LedgerInv, ClaimIsLatest
<1>6. CASE UNCHANGED vars
  BY <1>1, <1>6 DEF vars
<1> QED BY <1>2, <1>3, <1>4, <1>5, <1>6 DEF Next

\* What the ledger knows of a run.
LEMMA StatesMean ==
    ASSUME IndInv, NEW i \in Ids
    PROVE  /\ StateOf(i) = "none" <=> i > next
           /\ StateOf(i) = "starting" <=> i = writer /\ i \notin written
           /\ StateOf(i) = "running" <=> i \in written /\ answer[i] = "none"
           /\ StateOf(i) = "rejected" <=> i \in stdout /\ answer[i] = "error"
           /\ Ledger!Ran(i) <=> i \in written
BY DEF StateOf, Ledger!Ran, IndInv, Types

\* One run moves on.
LEMMA OneMoves ==
    ASSUME NEW i \in Ids, NEW s, StateOf(i)' = s,
           \A k \in Ids : k # i => StateOf(k)' = StateOf(k)
    PROVE  [k \in Ids |-> StateOf(k)]' = [[k \in Ids |-> StateOf(k)] EXCEPT ![i] = s]
OBVIOUS

\* A claim that the cap pushes out is of a prompt that maxDeliveredPrompts others,
\* itself among them, were run since.
LEMMA PushedOutIsOld ==
    ASSUME IndInv, LedgerInv, PromptWriteMuFree, NEW c \in PushedOut
    PROVE  prompt[c] \in Ledger!Forgettable
<1>1. /\ c \in claims /\ Cardinality(claims) >= MaxDelivered /\ \A d \in claims : c <= d
  BY DEF PushedOut
<1>2. claims \subseteq written /\ written \subseteq 1..next /\ 1..next \subseteq Ids
  BY DEF IndInv, Types, ClaimsAreSent, SentIds, PromptWriteMuFree
<1>a. PICK S : S = Ledger!Since(prompt[c])
  OBVIOUS
<1>b. PICK R : R = {s \in Ids : Ledger!Ran(s)
                       /\ \A t \in Ids : Ledger!Ran(t) /\ prompt[t] = prompt[c] => t <= s}
  OBVIOUS
<1>3. S = {prompt[r] : r \in R}
  BY <1>a, <1>b DEF Ledger!Since
<1>4. claims \subseteq R
  <2> SUFFICES ASSUME NEW d \in claims PROVE d \in R
    OBVIOUS
  <2>1. d \in Ids /\ Ledger!Ran(d)
    BY <1>2, StatesMean
  <2>2. ASSUME NEW t \in Ids, Ledger!Ran(t), prompt[t] = prompt[c] PROVE t <= d
    <3>1. t \in 1..next /\ t <= c
      BY <1>1, <1>2, <2>2, StatesMean DEF LedgerInv, ClaimIsLatest
    <3> QED BY <1>1, <1>2, <3>1
  <2> QED BY <1>b, <2>1, <2>2
<1>5. IsFiniteSet(S)
  <2>1. IsFiniteSet(Ids)
    BY FS_Interval
  <2>2. IsFiniteSet(R)
    BY <1>b, <2>1, FS_Subset
  <2>3. [r \in R |-> prompt[r]] \in Surjection(R, S)
    BY <1>3 DEF Surjection
  <2> QED BY <2>2, <2>3, FS_Surjection
<1>6. [d \in claims |-> prompt[d]] \in Injection(claims, S)
  <2>1. ASSUME NEW d \in claims, NEW e \in claims, prompt[d] = prompt[e] PROVE d = e
    <3>1. d <= e /\ e <= d /\ d \in Nat /\ e \in Nat
      BY <1>2, <2>1 DEF LedgerInv, ClaimIsLatest
    <3> QED BY <3>1
  <2> QED BY <1>3, <1>4, <2>1 DEF Injection, IsInjective
<1>7. Cardinality(S) >= MaxDelivered
  <2>1. IsFiniteSet(claims) /\ Cardinality(claims) <= Cardinality(S)
    BY <1>5, <1>6, FS_Injection
  <2>2. Cardinality(claims) \in Nat /\ Cardinality(S) \in Nat
    BY <1>5, <2>1, FS_CardinalityType
  <2> QED BY <1>1, <2>1, <2>2
<1>8. prompt[c] \in Prompts /\ prompt[c] \in {prompt[d] : d \in claims}
  BY <1>1, <1>2 DEF LedgerInv
<1>p. PICK p : p = prompt[c]
  OBVIOUS
<1>9. Ledger!Cardinality(Ledger!Since(p)) >= MaxDelivered
  <2>1. Ledger!Cardinality(S) = Cardinality(S)
    BY Zenon DEF Ledger!Cardinality, Cardinality
  <2> QED BY <1>a, <1>p, <1>7, <2>1
<1>10. p \in Prompts \ (Prompts \ {prompt[d] : d \in claims})
  BY <1>p, <1>8
<1>11. p \in Ledger!Forgettable
  BY <1>9, <1>10, Zenon DEF Ledger!Forgettable
<1> QED BY <1>p, <1>11

\* Claiming a prompt starts a run of it (prompt_ids.go, claim).
LEMMA ForwardStarts ==
    ASSUME IndInv, LedgerInv, NEW g \in Gens, NEW p \in Prompts, Forward(g, p)
    PROVE  \E i \in Ids : Ledger!Start(i, p)
<1>1. PICK i : i = next + 1
  OBVIOUS
<1>2. /\ PromptWriteMuFree /\ ~AlreadyClaimed(p) /\ i \in Ids
      /\ next' = i /\ prompt' = [prompt EXCEPT ![i] = p]
      /\ claims' = (claims \ PushedOut) \cup {i} /\ writer' = i
      /\ UNCHANGED <<written, answer, stdout, delivered>>
  BY <1>1 DEF Forward, agentVars, IndInv, Types
<1>3. /\ next \in Nat /\ claims \subseteq 1..next /\ written \subseteq 1..next /\ stdout \subseteq written
      /\ i \notin 1..next /\ 1..next \subseteq Ids /\ writer = NoId
      /\ prompt \in [Ids -> Prompts \cup {NoPrompt}]
  BY <1>1, <1>2 DEF IndInv, Types, PromptWriteMuFree
<1>4. StateOf(i)' = "starting" /\ \A k \in Ids : k # i => StateOf(k)' = StateOf(k)
  BY <1>1, <1>2, <1>3 DEF StateOf
<1>5. ~Ledger!Starting
  BY <1>3, StatesMean DEF Ledger!Starting
<1>6. \A k \in Ids : StateOf(k) # "none" <=> k < i
  BY <1>1, <1>3, StatesMean
<1>o. PICK o : o = Prompts \ {prompt[c] : c \in claims}
  OBVIOUS
<1>7. \A c \in claims : prompt[c] # p /\ prompt'[c] = prompt[c] /\ prompt[c] \in Prompts
  BY <1>2, <1>3 DEF AlreadyClaimed, ClaimsOf, LedgerInv
<1>8. p \in o
  BY <1>7, <1>o
<1>9. \E lost \in {{}} \cup {{q} : q \in Ledger!Forgettable} :
          (Prompts \ {prompt[c] : c \in claims})' = (o \cup lost) \ {p}
  <2>1. prompt'[i] = p
    BY <1>2, <1>3
  <2>2. CASE PushedOut = {}
    <3>1. claims' = claims \cup {i}
      BY <1>2, <2>2
    <3>2. (Prompts \ {prompt[c] : c \in claims})' = (o \cup {}) \ {p}
      BY <1>7, <1>o, <2>1, <3>1
    <3> QED BY <3>2
  <2>3. CASE PushedOut # {}
    <3>1. PICK c : c \in PushedOut
      BY <2>3
    <3>2. PushedOut = {c} /\ c \in claims
      <4>1. \A d \in PushedOut : d \in claims /\ \A k \in claims : d <= k
        BY DEF PushedOut
      <4>2. ASSUME NEW d \in PushedOut PROVE d = c
        <5>1. d \in claims /\ c \in claims
          BY <3>1, <4>1, <4>2
        <5>2. d <= c /\ c <= d
          BY <3>1, <4>1, <4>2, <5>1
        <5>3. d \in Nat /\ c \in Nat
          BY <1>3, <5>1
        <5> QED BY <5>2, <5>3
      <4> QED BY <3>1, <4>1, <4>2
    <3>3. claims' = (claims \ {c}) \cup {i}
      BY <1>2, <3>2
    <3>4. \A d \in claims : prompt[d] = prompt[c] => d = c
      <4>1. ASSUME NEW d \in claims, prompt[d] = prompt[c] PROVE d = c
        <5>1. d <= c /\ c <= d /\ c \in Nat /\ d \in Nat
          BY <1>3, <3>2, <4>1 DEF LedgerInv, ClaimIsLatest
        <5> QED BY <5>1
      <4> QED BY <4>1
    <3>5. (Prompts \ {prompt[d] : d \in claims})' = (o \cup {prompt[c]}) \ {p}
      BY <1>3, <1>7, <1>o, <2>1, <3>2, <3>3, <3>4
    <3>6. prompt[c] \in Ledger!Forgettable
      BY <1>2, <3>1, PushedOutIsOld
    <3> QED BY <3>5, <3>6
  <2> QED BY <2>2, <2>3
<1>10. Ledger!Start(i, p)
  BY <1>2, <1>4, <1>5, <1>6, <1>8, <1>9, <1>o, OneMoves DEF Ledger!Start
<1> QED BY <1>2, <1>10

\* A prompt that is reported as delivered was run (pump.go, promptWriteMu).
LEMMA DuplicateIsTold ==
    ASSUME IndInv, LedgerInv, NEW g \in Gens, NEW p \in Prompts, DropDuplicate(g, p)
    PROVE  \/ Ledger!Tell(p)
           \/ UNCHANGED <<prompt, [i \in Ids |-> StateOf(i)],
                          Prompts \ {prompt[c] : c \in claims}, delivered>>
<1>1. /\ UNCHANGED <<next, prompt, claims, writer, written, answer, stdout>>
      /\ PromptWriteMuFree /\ AlreadyClaimed(p) /\ delivered' \in {delivered, delivered \cup {p}}
  BY DEF DropDuplicate, idVars, claimVars, agentVars
<1>2. [i \in Ids |-> StateOf(i)]' = [i \in Ids |-> StateOf(i)]
  BY <1>1 DEF StateOf
<1>3. PICK c \in claims : prompt[c] = p
  BY <1>1 DEF AlreadyClaimed, ClaimsOf
<1>4. c \in written /\ c \in Ids /\ writer = NoId
  BY <1>1 DEF IndInv, Types, ClaimsAreSent, SentIds, PromptWriteMuFree
<1>5. Ledger!Ran(c) /\ ~Ledger!Starting
  BY <1>4, StatesMean DEF Ledger!Starting
<1>6. p \notin Prompts \ {prompt[d] : d \in claims} /\ \E r \in Ids : Ledger!Ran(r) /\ prompt[r] = p
  BY <1>3, <1>4, <1>5
<1>7. (Prompts \ {prompt[d] : d \in claims})' = Prompts \ {prompt[d] : d \in claims}
  BY <1>1
<1> QED BY <1>1, <1>2, <1>5, <1>6, <1>7 DEF Ledger!Tell

\* The write and what becomes of it.
LEMMA WriteIsLanding ==
    ASSUME IndInv, LedgerInv, WriteLands \/ WriteFails
    PROVE  \E i \in Ids : Ledger!Land(i) \/ Ledger!Fail(i)
<1>1. writer \in Ids /\ writer # NoId /\ writer \notin written /\ writer <= next
  BY DEF WriteLands, WriteFails, IndInv, Types
<1>2. StateOf(writer) = "starting"
  BY <1>1, StatesMean
<1>3. CASE WriteLands
  <2>1. /\ written' = written \cup {writer}
        /\ UNCHANGED <<next, prompt, claims, writer, answer, stdout, delivered>>
    BY <1>3 DEF WriteLands, idVars, claimVars
  <2>2. answer[writer] = "none"
    BY <1>1 DEF IndInv, Types
  <2>3. StateOf(writer)' = "running" /\ \A k \in Ids : k # writer => StateOf(k)' = StateOf(k)
    BY <1>1, <2>1, <2>2 DEF StateOf
  <2>4. (Prompts \ {prompt[d] : d \in claims})' = Prompts \ {prompt[d] : d \in claims}
    BY <2>1
  <2> QED BY <1>1, <1>2, <2>1, <2>3, <2>4, OneMoves DEF Ledger!Land
<1>4. CASE WriteFails
  <2>0. PICK w : w = writer
    OBVIOUS
  <2>1. /\ writer' = NoId /\ claims' = claims \ ClaimsOf(prompt[w])
        /\ UNCHANGED <<next, prompt, written, answer, stdout, delivered>>
    BY <1>4, <2>0 DEF WriteFails, agentVars
  <2>2. w \in Ids /\ w \notin written /\ w <= next /\ StateOf(w) = "starting"
    BY <1>1, <1>2, <2>0
  <2>3. StateOf(w)' = "void"
    BY <2>1, <2>2 DEF StateOf, IndInv, Types
  <2>4. ASSUME NEW k \in Ids, k # w PROVE StateOf(k)' = StateOf(k)
    BY <2>0, <2>1, <2>4 DEF StateOf
  <2>5. prompt[w] \in Prompts
    BY <1>1, <2>0 DEF LedgerInv
  <2>6. (Prompts \ {prompt[d] : d \in claims})'
           = (Prompts \ {prompt[d] : d \in claims}) \cup {prompt[w]}
    BY <2>1, <2>5 DEF ClaimsOf
  <2>7. [k \in Ids |-> StateOf(k)]' = [[k \in Ids |-> StateOf(k)] EXCEPT ![w] = "void"]
    BY <2>2, <2>3, <2>4, OneMoves
  <2>8. Ledger!Fail(w)
    BY <2>1, <2>2, <2>6, <2>7 DEF Ledger!Fail
  <2> QED BY <2>2, <2>8
<1> QED BY <1>3, <1>4

\* A rejection that is read reopens its prompt, unless teardown took the request.
LEMMA ReplyIsAnswer ==
    ASSUME IndInv, LedgerInv, NEW i \in Ids,
           DrainObserve(i) \/ \E a \in {"ok", "empty", "error"} : AgentReplies(i, a)
    PROVE  \/ Ledger!Answer(i) \/ Ledger!Learn(i)
           \/ UNCHANGED <<prompt, [k \in Ids |-> StateOf(k)],
                          Prompts \ {prompt[c] : c \in claims}, delivered>>
<1>1. CASE \E a \in {"ok", "empty", "error"} : AgentReplies(i, a)
  <2>1. PICK a \in {"ok", "empty", "error"} : AgentReplies(i, a)
    BY <1>1
  <2>2. /\ i \in written /\ answer[i] = "none" /\ answer' = [answer EXCEPT ![i] = a]
        /\ stdout' = stdout \cup {i}
        /\ UNCHANGED <<next, prompt, claims, writer, written, delivered>>
    BY <2>1 DEF AgentReplies, idVars, claimVars
  <2>3. StateOf(i) = "running"
    BY <2>2, StatesMean
  <2>4. PICK s \in {"over", "rejected"} :
            StateOf(i)' = s /\ \A k \in Ids : k # i => StateOf(k)' = StateOf(k)
    BY <2>2 DEF StateOf, IndInv, Types
  <2>5. (Prompts \ {prompt[d] : d \in claims})' = Prompts \ {prompt[d] : d \in claims}
    BY <2>2
  <2> QED BY <2>2, <2>3, <2>4, <2>5, OneMoves DEF Ledger!Answer
<1>2. CASE DrainObserve(i)
  <2>1. /\ i \in stdout /\ stdout' = stdout \ {i}
        /\ claims' = IF i \in pending /\ answer[i] = "error"
                     THEN claims \ ClaimsOf(prompt[i]) ELSE claims
        /\ UNCHANGED <<next, prompt, writer, written, answer, delivered>>
    BY <1>2 DEF DrainObserve, Releases, idVars
  <2>2. i \in written /\ i \in 1..next /\ answer[i] # "none"
    BY <2>1 DEF IndInv, Types
  <2>3. StateOf(i)' = "over" /\ \A k \in Ids : k # i => StateOf(k)' = StateOf(k)
    BY <2>1, <2>2 DEF StateOf, IndInv, Types
  <2>4. CASE answer[i] = "error"
    <3>1. StateOf(i) = "rejected"
      BY <2>1, <2>4, StatesMean
    <3>2. prompt[i] \in Prompts
      BY <2>2 DEF LedgerInv
    <3>3. (Prompts \ {prompt[d] : d \in claims})' \in
              {Prompts \ {prompt[d] : d \in claims},
               (Prompts \ {prompt[d] : d \in claims}) \cup {prompt[i]}}
      BY <2>1, <3>2 DEF ClaimsOf
    <3> QED BY <2>1, <2>3, <3>1, <3>3, OneMoves DEF Ledger!Learn
  <2>5. CASE answer[i] # "error"
    <3>1. StateOf(i) = "over"
      BY <2>1, <2>2, <2>5 DEF StateOf, IndInv, Types
    <3>2. [k \in Ids |-> StateOf(k)]' = [k \in Ids |-> StateOf(k)]
      BY <2>3, <3>1
    <3>3. (Prompts \ {prompt[d] : d \in claims})' = Prompts \ {prompt[d] : d \in claims}
      BY <2>1, <2>5
    <3> QED BY <2>1, <3>2, <3>3
  <2> QED BY <2>4, <2>5
<1> QED BY <1>1, <1>2

\* The steps the ledger does not see.
LEMMA OthersStutter ==
    ASSUME IndInv, UNCHANGED <<next, prompt, claims, written, answer, stdout, delivered>>,
           writer' = writer \/ (writer \in written /\ writer' = NoId)
    PROVE  UNCHANGED <<prompt, [i \in Ids |-> StateOf(i)],
                       Prompts \ {prompt[c] : c \in claims}, delivered>>
<1>1. \A i \in Ids : StateOf(i)' = StateOf(i)
  BY DEF StateOf
<1> QED BY <1>1

\* A prompt runs once, and once more only for a run that failed, was rejected or
\* was forgotten, each of which counts once: the pump implements the ledger, for
\* every number of connections, prompts and claims (prompt_ids.go and pump.go).
THEOREM PromptsAreLedgered == Spec => ExecutesOnce
<1>1. Init => LedgerInv /\ Ledger!Init
  <2> SUFFICES ASSUME Init PROVE LedgerInv /\ Ledger!Init
    OBVIOUS
  <2>1. LedgerInv
    BY DEF Init, LedgerInv, ClaimIsLatest
  <2>2. \A i \in Ids : StateOf(i) = "none"
    BY DEF Init, StateOf
  <2> QED BY <2>1, <2>2 DEF Init, Ledger!Init
<1>2. IndInv /\ LedgerInv /\ [Next]_vars => LedgerInv' /\ [Ledger!Next]_(Ledger!ledgerVars)
  <2> SUFFICES ASSUME IndInv, LedgerInv, [Next]_vars
               PROVE  Ledger!Next \/ UNCHANGED Ledger!ledgerVars
    BY LedgerStep
  <2> USE DEF connVars, clientVars, idVars, claimVars, agentVars, drainVars, storeVars, endVars
  <2>0. ASSUME UNCHANGED <<next, prompt, claims, written, answer, stdout, delivered>>,
               writer' = writer \/ (writer \in written /\ writer' = NoId)
        PROVE  UNCHANGED Ledger!ledgerVars
    BY <2>0, OthersStutter DEF Ledger!ledgerVars
  <2>1. CASE Attach \/ Bind \/ Detach \/ Restore \/ WriteReturns \/ DrainRecord \/ DrainForward \/ Teardown
    BY <2>0, <2>1 DEF Attach, Bind, Detach, Restore, WriteReturns, DrainRecord, DrainForward, Teardown
  <2>2. ASSUME NEW p \in Prompts, ClientSend(p) \/ \E g \in Gens : WireLost(g, p)
        PROVE  UNCHANGED Ledger!ledgerVars
    BY <2>0, <2>2 DEF ClientSend, WireLost
  <2>3. ASSUME NEW i \in Ids, TeardownRecord(i) PROVE UNCHANGED Ledger!ledgerVars
    BY <2>0, <2>3 DEF TeardownRecord
  <2>4. ASSUME NEW g \in Gens, NEW p \in Prompts, DropDuplicate(g, p)
        PROVE  Ledger!Next \/ UNCHANGED Ledger!ledgerVars
    BY <2>4, DuplicateIsTold DEF Ledger!Next, Ledger!ledgerVars
  <2>5. ASSUME NEW g \in Gens, NEW p \in Prompts, Forward(g, p) PROVE Ledger!Next
    BY <2>5, ForwardStarts DEF Ledger!Next
  <2>6. CASE WriteLands \/ WriteFails
    BY <2>6, WriteIsLanding DEF Ledger!Next
  <2>7. ASSUME NEW i \in Ids,
               DrainObserve(i) \/ \E a \in {"ok", "empty", "error"} : AgentReplies(i, a)
        PROVE  Ledger!Next \/ UNCHANGED Ledger!ledgerVars
    BY <2>7, ReplyIsAnswer DEF Ledger!Next, Ledger!ledgerVars
  <2>8. CASE UNCHANGED vars
    BY <2>0, <2>8 DEF vars
  <2> QED BY <2>1, <2>2, <2>3, <2>4, <2>5, <2>6, <2>7, <2>8 DEF Next
<1> QED BY <1>1, <1>2, Inductive, PTL DEF Spec, ExecutesOnce, Ledger!Spec

-----------------------------------------------------------------------------
(* Installation.                                                           *)

InstSteps == {"idle", "download", "copy", "unpack", "write", "rename", "done", "undo", "record",
              "npm", "spawn", "running", "refused"}
Files == [version : Nat, whole : BOOLEAN, mixed : BOOLEAN]

InstTypes ==
    /\ kind \in Kinds /\ published \in Versions /\ acquired \in Versions \cup {0}
    /\ step \in [Launchers -> InstSteps] /\ chosen \in [Launchers -> Versions \cup {0}]
    /\ writes \in [Launchers -> {"none", "tmp"}]
    /\ tmp \in Files /\ target \in Files
    /\ npmDir \in [Versions -> NpmStates]
    /\ launched \in [Launchers -> BOOLEAN]

\* One launch at most has the shared temporary file, which nobody else writes,
\* and a file at the target is whole.
CopiesAlone ==
    /\ \A l, m \in Launchers : Copying(l) /\ Copying(m) => l = m
    /\ \A l \in Launchers :
          /\ writes[l] = "tmp" <=> step[l] = "write"
          /\ step[l] = "write" => ~tmp.mixed
          /\ step[l] = "rename" => tmp.whole
    /\ target = NoFile \/ target.whole

\* What a launch has installed, or has been told is installed, is still there
\* when it looks again: in the npm case unless the version was disturbed.
WellPlaced(l) ==
    /\ step[l] \in {"copy", "write", "rename", "done", "undo"} => kind = "raw"
    /\ step[l] = "unpack" => kind = "archive"
    /\ step[l] = "download" => kind # "npm"
    /\ step[l] = "done" => target # NoFile
    /\ step[l] = "record" => kind # "npm"
    /\ step[l] = "npm" => kind = "npm" /\ chosen[l] \in Versions
    /\ step[l] \in {"record", "spawn"} =>
          \/ kind = "raw" /\ target # NoFile
          \/ kind = "archive" /\ chosen[l] \in bundles
          \/ /\ kind = "npm" /\ chosen[l] \in Versions
             /\ npmDir[chosen[l]] = "complete" \/ chosen[l] \in disturbed
    /\ step[l] # "running" => launched[l]
    /\ launched[l] \/ (kind = "npm" /\ chosen[l] \in disturbed)

\* A marked npm directory that nothing disturbed is whole and being written by
\* nobody, and an undisturbed one is written by one process at most.
NpmSettled ==
    \A v \in Versions \ disturbed :
        /\ npmDir[v] # "torn"
        /\ npmDir[v] = "complete" => v \notin npmInstalling \cup orphans
        /\ v \notin npmInstalling \cap orphans

Undisturbed == InstTypes /\ CopiesAlone /\ (\A l \in Launchers : WellPlaced(l)) /\ NpmSettled

\* Once two launches have copied at once, nothing is said any more.
InstInv == overlapped \/ Undisturbed

\* A launch that moves without touching the temporary file, the target or npm's
\* directories.
LEMMA SteadyKeeps ==
    ASSUME Undisturbed, NEW l \in Launchers, NEW s \in InstSteps, Goto(l, s),
           s \notin {"write", "rename"}, step[l] # "write", Copying(l)' => Copying(l),
           UNCHANGED <<kind, tmp, writes, target, npmVars>>, bundles \subseteq bundles',
           published' = published, acquired' \in Versions \cup {0},
           chosen' \in [Launchers -> Versions \cup {0}],
           \A m \in Launchers \ {l} : chosen'[m] = chosen[m],
           launched' \in [Launchers -> BOOLEAN],
           \A m \in Launchers \ {l} : launched'[m] = launched[m],
           WellPlaced(l)'
    PROVE  Undisturbed'
<1>1. InstTypes /\ CopiesAlone /\ (\A m \in Launchers : WellPlaced(m)) /\ NpmSettled
  BY DEF Undisturbed
<1>2. /\ step'[l] = s /\ step' \in [Launchers -> InstSteps]
      /\ \A m \in Launchers \ {l} : step'[m] = step[m]
  BY <1>1 DEF Goto, InstTypes
<1>3. InstTypes'
  BY <1>1, <1>2 DEF InstTypes, npmVars
<1>4. CopiesAlone'
  <2>1. \A m \in Launchers : Copying(m)' => Copying(m)
    BY <1>2 DEF Copying
  <2> QED BY <1>1, <1>2, <2>1 DEF CopiesAlone
<1>5. ASSUME NEW m \in Launchers PROVE WellPlaced(m)'
  <2>1. CASE m # l
    <3>1. WellPlaced(m) /\ step'[m] = step[m] /\ chosen'[m] = chosen[m] /\ launched'[m] = launched[m]
      BY <1>1, <1>2, <2>1
    <3> QED BY <3>1 DEF WellPlaced, npmVars
  <2> QED BY <2>1
<1>6. NpmSettled'
  BY <1>1 DEF NpmSettled, npmVars
<1> QED BY <1>3, <1>4, <1>5, <1>6 DEF Undisturbed

\* The installed version that Fallback settles on is there.
LEMMA FallbackIsThere ==
    ASSUME Undisturbed, NEW l \in Launchers, Fallback(l), kind # "npm", step[l] # "running",
           UNCHANGED <<kind, target, bundles, npmVars, launched>>
    PROVE  /\ \E s \in {"spawn", "refused"} : Goto(l, s)
           /\ chosen' \in [Launchers -> Versions \cup {0}]
           /\ \A m \in Launchers \ {l} : chosen'[m] = chosen[m]
           /\ WellPlaced(l)'
<1>1. InstTypes /\ WellPlaced(l)
  BY DEF Undisturbed
<1>2. kind \in {"raw", "archive"} /\ launched[l]
  BY <1>1, InstallConstants DEF InstTypes, WellPlaced
<1>3. CASE HasInstalled
  <2>1. Goto(l, "spawn") /\ chosen' = [chosen EXCEPT ![l] = acquired] /\ Held(acquired)
    BY <1>3 DEF Fallback, HasInstalled
  <2>2. step'[l] = "spawn" /\ chosen'[l] = acquired
    BY <1>1, <2>1 DEF Goto, InstTypes
  <2>3. WellPlaced(l)'
    BY <1>2, <2>1, <2>2 DEF WellPlaced, Held
  <2> QED BY <1>1, <2>1, <2>3 DEF InstTypes
<1>4. CASE ~HasInstalled
  <2>1. Goto(l, "refused") /\ chosen' = chosen
    BY <1>4 DEF Fallback
  <2>2. step'[l] = "refused"
    BY <1>1, <2>1 DEF Goto, InstTypes
  <2>3. WellPlaced(l)'
    BY <1>2, <2>2 DEF WellPlaced
  <2> QED BY <1>1, <2>1, <2>3 DEF InstTypes
<1> QED BY <1>3, <1>4

\* What a launch starts is whole, or npm's directory was disturbed under it.
LEMMA SpawnKeeps ==
    ASSUME Undisturbed, NEW l \in Launchers, Spawn(l)
    PROVE  Undisturbed'
<1>1. InstTypes /\ CopiesAlone /\ WellPlaced(l) /\ step[l] = "spawn"
  BY DEF Undisturbed, Spawn
<1>2. UNCHANGED <<kind, published, chosen, tmp, writes, target, bundles, npmVars, acquired>>
  BY DEF Spawn
<1>3. kind \in {"raw", "archive", "npm"} /\ launched[l]
  BY <1>1, InstallConstants DEF InstTypes, WellPlaced
<1>4. CASE Goto(l, "refused") /\ launched' = launched
  <2>1. step'[l] = "refused" /\ ~Copying(l)'
    BY <1>1, <1>4 DEF Goto, InstTypes, Copying
  <2>2. WellPlaced(l)'
    BY <1>2, <1>3, <1>4, <2>1 DEF WellPlaced
  <2> QED BY <1>1, <1>2, <1>4, <2>1, <2>2, SteadyKeeps DEF InstSteps, InstTypes
<1>5. CASE Goto(l, "running") /\ launched' = [launched EXCEPT ![l] = Whole(chosen[l])]
  <2>1. Whole(chosen[l]) \/ (kind = "npm" /\ chosen[l] \in disturbed)
    BY <1>1, <1>3 DEF WellPlaced, Whole, CopiesAlone
  <2>2. Whole(chosen[l]) \in BOOLEAN
    BY DEF Whole
  <2>3. /\ launched' \in [Launchers -> BOOLEAN]
        /\ \A m \in Launchers \ {l} : launched'[m] = launched[m]
        /\ launched'[l] = Whole(chosen[l])
    BY <1>1, <1>5, <2>2, Zenon DEF InstTypes
  <2>4. step'[l] = "running" /\ ~Copying(l)'
    BY <1>1, <1>5 DEF Goto, InstTypes, Copying
  <2>5. launched'[l] \/ (kind = "npm" /\ chosen[l] \in disturbed)
    BY <2>1, <2>3, Zenon
  <2>6. WellPlaced(l)'
    BY <1>2, <2>4, <2>5 DEF WellPlaced, npmVars
  <2> QED BY <1>1, <1>2, <1>5, <2>3, <2>4, <2>6, SteadyKeeps DEF InstSteps, InstTypes
<1> QED BY <1>4, <1>5 DEF Spawn

\* What each step of a launch leaves that copies nothing (Ensure,
\* installDownloadedArtifact, prepareAgent, EnsureNpm).
LEMMA QuietLaunchKeeps ==
    ASSUME Undisturbed, NEW l \in Launchers,
           \/ EnsureBinary(l) \/ DownloadArtifact(l) \/ UnpackArchive(l) \/ SaveAcquiredBinary(l)
           \/ EnsureNpm(l) \/ AgentEnds(l)
    PROVE  Undisturbed'
<1>1. InstTypes /\ CopiesAlone /\ WellPlaced(l) /\ NpmSettled
  BY DEF Undisturbed
<1>2. kind \in {"raw", "archive", "npm"}
  BY <1>1, InstallConstants DEF InstTypes
<1>3. /\ step \in [Launchers -> InstSteps] /\ chosen \in [Launchers -> Versions \cup {0}]
      /\ published \in Versions /\ acquired \in Versions \cup {0}
      /\ launched \in [Launchers -> BOOLEAN]
  BY <1>1 DEF InstTypes
<1>4. ASSUME NEW s \in InstSteps, Goto(l, s), s \notin {"write", "rename", "done", "undo"}
      PROVE  ~Copying(l)' /\ step'[l] = s
  BY <1>3, <1>4 DEF Goto, Copying
<1>5. CASE EnsureBinary(l)
  <2>1. step[l] = "idle" /\ kind # "npm" /\ chosen' = [chosen EXCEPT ![l] = published]
        /\ UNCHANGED <<kind, published, tmp, writes, target, bundles, acquired, npmVars, launched>>
    BY <1>5 DEF EnsureBinary
  <2>2. /\ chosen' \in [Launchers -> Versions \cup {0}] /\ chosen'[l] = published
        /\ \A m \in Launchers \ {l} : chosen'[m] = chosen[m]
    BY <1>3, <2>1
  <2>3. PICK s \in {"spawn", "download"} : Goto(l, s) /\ s = IF Cached(published) THEN "spawn" ELSE "download"
    BY <1>5 DEF EnsureBinary
  <2>4. step'[l] = s /\ ~Copying(l)' /\ (s = "spawn" => Held(published))
    BY <1>4, <2>3 DEF InstSteps, Cached
  <2>5. WellPlaced(l)'
    BY <1>1, <1>2, <2>1, <2>2, <2>3, <2>4 DEF WellPlaced, Held, Cached
  <2> QED BY <1>3, <1>4, <2>1, <2>2, <2>3, <2>5, SteadyKeeps DEF InstSteps
<1>6. CASE DownloadArtifact(l)
  <2>1. step[l] = "download" /\ kind # "npm" /\ launched[l]
        /\ UNCHANGED <<kind, published, tmp, writes, target, bundles, acquired, npmVars, launched>>
    BY <1>1, <1>6 DEF DownloadArtifact, WellPlaced
  <2>2. CASE Goto(l, IF kind = "raw" THEN "copy" ELSE "unpack") /\ UNCHANGED chosen
    <3>1. PICK s \in {"copy", "unpack"} : Goto(l, s) /\ s = IF kind = "raw" THEN "copy" ELSE "unpack"
      BY <2>2
    <3>2. step'[l] = s /\ ~Copying(l)'
      BY <1>4, <3>1 DEF InstSteps
    <3>3. WellPlaced(l)'
      BY <1>2, <2>1, <2>2, <3>1, <3>2 DEF WellPlaced
    <3> QED BY <1>3, <2>1, <2>2, <3>1, <3>2, <3>3, SteadyKeeps DEF InstSteps
  <2>3. CASE Fallback(l)
    <3>1. PICK s \in {"spawn", "refused"} : Goto(l, s)
      BY <2>1, <2>3, FallbackIsThere
    <3> QED BY <1>3, <1>4, <2>1, <2>3, <3>1, FallbackIsThere, SteadyKeeps DEF InstSteps
  <2> QED BY <1>6, <2>2, <2>3 DEF DownloadArtifact
<1>7. CASE UnpackArchive(l)
  <2>1. step[l] = "unpack" /\ kind = "archive" /\ launched[l]
        /\ UNCHANGED <<kind, published, tmp, writes, target, acquired, npmVars, launched>>
    BY <1>1, <1>7 DEF UnpackArchive, WellPlaced
  <2>2. CASE bundles' = bundles \cup {chosen[l]} /\ Goto(l, "record") /\ UNCHANGED chosen
    <3>1. step'[l] = "record" /\ ~Copying(l)'
      BY <1>4, <2>2 DEF InstSteps
    <3>2. WellPlaced(l)'
      BY <2>1, <2>2, <3>1 DEF WellPlaced
    <3> QED BY <1>3, <2>1, <2>2, <3>1, <3>2, SteadyKeeps DEF InstSteps
  <2>3. CASE Fallback(l) /\ UNCHANGED bundles
    <3>1. PICK s \in {"spawn", "refused"} : Goto(l, s)
      BY <2>1, <2>3, FallbackIsThere
    <3> QED BY <1>3, <1>4, <2>1, <2>3, <3>1, FallbackIsThere, SteadyKeeps DEF InstSteps
  <2> QED BY <1>7, <2>2, <2>3 DEF UnpackArchive
<1>8. CASE SaveAcquiredBinary(l)
  <2>1. step[l] = "record" /\ acquired' \in {acquired, chosen[l]} /\ Goto(l, "spawn")
        /\ UNCHANGED <<kind, published, chosen, tmp, writes, target, bundles, npmVars, launched>>
    BY <1>8 DEF SaveAcquiredBinary
  <2>2. step'[l] = "spawn" /\ ~Copying(l)'
    BY <1>4, <2>1 DEF InstSteps
  <2>3. WellPlaced(l)'
    BY <1>1, <2>1, <2>2 DEF WellPlaced
  <2>4. acquired' \in Versions \cup {0}
    BY <1>3, <2>1
  <2> QED BY <1>3, <2>1, <2>2, <2>3, <2>4, SteadyKeeps DEF InstSteps
<1>9. CASE EnsureNpm(l)
  <2>1. step[l] = "idle" /\ kind = "npm" /\ chosen' = [chosen EXCEPT ![l] = published]
        /\ UNCHANGED <<kind, published, tmp, writes, target, bundles, acquired, npmVars, launched>>
    BY <1>9 DEF EnsureNpm
  <2>2. /\ chosen' \in [Launchers -> Versions \cup {0}] /\ chosen'[l] = published
        /\ \A m \in Launchers \ {l} : chosen'[m] = chosen[m]
    BY <1>3, <2>1
  <2>3. PICK s \in {"spawn", "npm"} : Goto(l, s) /\ (s = "spawn" => Marked(published))
    BY <1>9 DEF EnsureNpm
  <2>4. s = "spawn" => npmDir[published] = "complete" \/ published \in disturbed
    BY <1>1, <1>3, <2>3 DEF NpmSettled, Marked
  <2>5. step'[l] = s /\ ~Copying(l)'
    BY <1>4, <2>3 DEF InstSteps
  <2>6. WellPlaced(l)'
    BY <1>1, <1>3, <2>1, <2>2, <2>3, <2>4, <2>5 DEF WellPlaced, npmVars
  <2> QED BY <1>3, <2>1, <2>2, <2>3, <2>5, <2>6, SteadyKeeps DEF InstSteps
<1>10. CASE AgentEnds(l)
  <2>1. /\ step[l] \in {"running", "refused"} /\ Goto(l, "idle")
        /\ launched' = [launched EXCEPT ![l] = TRUE]
        /\ UNCHANGED <<kind, published, chosen, tmp, writes, target, bundles, acquired, npmVars>>
    BY <1>10 DEF AgentEnds
  <2>2. step'[l] = "idle" /\ ~Copying(l)'
    BY <1>4, <2>1 DEF InstSteps
  <2>3. /\ launched' \in [Launchers -> BOOLEAN] /\ launched'[l]
        /\ \A m \in Launchers \ {l} : launched'[m] = launched[m]
    BY <1>3, <2>1
  <2>4. WellPlaced(l)'
    BY <2>2, <2>3 DEF WellPlaced
  <2> QED BY <1>3, <2>1, <2>2, <2>3, <2>4, SteadyKeeps DEF InstSteps
<1> QED BY <1>5, <1>6, <1>7, <1>8, <1>9, <1>10

\* npm's processes, this daemon's and an earlier one's.
LEMMA NpmKeeps ==
    ASSUME Undisturbed,
           UNCHANGED <<kind, published, chosen, tmp, writes, target, bundles, acquired, launched>>,
           \/ \E l \in Launchers : InstallNpmInBackground(l)
           \/ \E v \in Versions : InstallNpmPackage(v) \/ OrphanWrites(v)
    PROVE  Undisturbed'
<1>1. InstTypes /\ CopiesAlone /\ (\A l \in Launchers : WellPlaced(l)) /\ NpmSettled
  BY DEF Undisturbed
<1>2. step \in [Launchers -> InstSteps] /\ npmDir \in [Versions -> NpmStates]
  BY <1>1 DEF InstTypes
<1> DEFINE Follows ==
      /\ disturbed \subseteq disturbed' /\ npmDir' \in [Versions -> NpmStates] /\ NpmSettled'
      /\ \A v \in Versions : npmDir[v] = "complete" => npmDir'[v] = "complete" \/ v \in disturbed'
<1>3. Follows
  <2>1. ASSUME NEW l \in Launchers, InstallNpmInBackground(l) PROVE Follows
    <3>1. step[l] = "npm" /\ chosen[l] \in Versions
      BY <1>1, <2>1 DEF InstallNpmInBackground, WellPlaced
    <3>2. CASE UNCHANGED npmVars
      BY <1>1, <1>2, <3>2 DEF npmVars, NpmSettled
    <3>3. CASE /\ npmInstalling' = npmInstalling \cup {chosen[l]} /\ orphans' = orphans
               /\ npmDir' = [npmDir EXCEPT ![chosen[l]] = IF Marked(chosen[l]) THEN "torn" ELSE "partial"]
               /\ disturbed' = IF Marked(chosen[l]) \/ chosen[l] \in orphans
                               THEN disturbed \cup {chosen[l]} ELSE disturbed
      BY <1>1, <1>2, <3>1, <3>3 DEF NpmSettled, NpmStates, Marked
    <3> QED BY <2>1, <3>2, <3>3 DEF InstallNpmInBackground
  <2>2. ASSUME NEW v \in Versions, InstallNpmPackage(v) PROVE Follows
    <3>1. /\ v \in npmInstalling /\ npmInstalling' = npmInstalling \ {v}
          /\ orphans' = orphans /\ disturbed' = disturbed
      BY <2>2 DEF InstallNpmPackage
    <3>2. PICK after \in {npmDir[v], "partial", "complete", "torn"} :
            npmDir' = [npmDir EXCEPT ![v] = after] /\ (after = "torn" => npmDir[v] = "torn" \/ v \in orphans)
      BY <2>2 DEF InstallNpmPackage
    <3> QED BY <1>1, <1>2, <3>1, <3>2 DEF NpmSettled, NpmStates
  <2>3. ASSUME NEW v \in Versions, OrphanWrites(v) PROVE Follows
    <3>1. /\ v \in orphans /\ orphans' \subseteq orphans
          /\ npmInstalling' = npmInstalling /\ disturbed' = disturbed
          /\ npmDir' = [npmDir EXCEPT ![v] = IF Marked(v) THEN "torn" ELSE "partial"]
      BY <2>3 DEF OrphanWrites
    <3> QED BY <1>1, <1>2, <3>1 DEF NpmSettled, NpmStates, Marked
  <2> QED BY <2>1, <2>2, <2>3
<1>4. /\ step' \in [Launchers -> InstSteps]
      /\ \A l \in Launchers : step'[l] = step[l] \/ (step[l] = "npm" /\ step'[l] = "running")
  BY <1>2 DEF InstallNpmInBackground, InstallNpmPackage, OrphanWrites, Goto, InstSteps
<1>5. InstTypes'
  BY <1>1, <1>3, <1>4 DEF InstTypes
<1>6. CopiesAlone'
  BY <1>1, <1>4 DEF CopiesAlone, Copying
<1>7. ASSUME NEW l \in Launchers PROVE WellPlaced(l)'
  BY <1>1, <1>3, <1>4 DEF WellPlaced
<1> QED BY <1>3, <1>5, <1>6, <1>7 DEF Undisturbed

\* The launch that copies does so alone, so the file it renames is whole.
LEMMA CopyKeeps ==
    ASSUME Undisturbed, NEW l \in Launchers, ~overlapped', ~overlapped,
           OpenDownload(l) \/ FinishCopy(l) \/ CopyFails(l) \/ RenameDownload(l) \/ RemoveDownload(l)
    PROVE  Undisturbed'
<1>1. InstTypes /\ CopiesAlone /\ (\A m \in Launchers : WellPlaced(m)) /\ NpmSettled
  BY DEF Undisturbed
<1>2. /\ step \in [Launchers -> InstSteps] /\ writes \in [Launchers -> {"none", "tmp"}]
      /\ tmp \in Files /\ chosen \in [Launchers -> Versions \cup {0}] /\ chosen[l] \in Nat
  BY <1>1 DEF InstTypes, Versions
<1>3. UNCHANGED <<kind, published, bundles, acquired, npmVars, launched>>
  BY DEF OpenDownload, FinishCopy, CopyFails, RenameDownload, RemoveDownload
<1>4. NpmSettled'
  BY <1>1, <1>3 DEF NpmSettled, npmVars
<1>5. kind = "raw" /\ launched[l] /\ step[l] \in {"copy", "write", "rename", "done", "undo"}
  BY <1>1 DEF WellPlaced, OpenDownload, FinishCopy, CopyFails, RenameDownload, RemoveDownload
<1>6. CASE OpenDownload(l)
  <2>1. /\ step[l] = "copy" /\ Goto(l, "write") /\ UNCHANGED <<target, chosen>>
        /\ writes' = [writes EXCEPT ![l] = "tmp"]
        /\ \A m \in Launchers \ {l} : ~Copying(m)
    BY <1>6 DEF OpenDownload
  <2>2. \A m \in Launchers : writes[m] = "none"
    BY <1>1, <1>2, <2>1 DEF CopiesAlone, Copying
  <2>3. tmp' = [version |-> chosen[l], whole |-> FALSE, mixed |-> FALSE]
    BY <1>6, <2>2 DEF OpenDownload
  <2>4. /\ step' \in [Launchers -> InstSteps] /\ step'[l] = "write"
        /\ \A m \in Launchers \ {l} : step'[m] = step[m] /\ writes'[m] = writes[m]
        /\ writes' \in [Launchers -> {"none", "tmp"}] /\ writes'[l] = "tmp"
    BY <1>2, <2>1 DEF Goto, InstSteps
  <2>5. tmp' \in Files /\ ~tmp'.mixed
    BY <1>2, <2>3 DEF Files
  <2>6. InstTypes'
    BY <1>1, <1>3, <2>1, <2>4, <2>5 DEF InstTypes, npmVars
  <2>7. CopiesAlone'
    <3>1. \A m \in Launchers \ {l} : ~Copying(m)' /\ step'[m] \notin {"write", "rename"}
      BY <2>1, <2>4 DEF Copying
    <3> QED BY <1>1, <2>1, <2>2, <2>4, <2>5, <3>1 DEF CopiesAlone
  <2>8. ASSUME NEW m \in Launchers PROVE WellPlaced(m)'
    BY <1>1, <1>3, <1>5, <2>1, <2>4 DEF WellPlaced, npmVars
  <2> QED BY <1>4, <2>6, <2>7, <2>8 DEF Undisturbed
<1>7. ASSUME Copying(l), NEW s \in InstSteps, Goto(l, s),
             writes' \in [Launchers -> {"none", "tmp"}], \A m \in Launchers : writes'[m] = "none",
             s \in {"rename", "done", "undo", "spawn", "refused", "record"},
             s = "rename" => tmp'.whole, tmp' \in Files,
             target' = target \/ (target' \in Files /\ target' # NoFile /\ target'.whole),
             chosen' \in [Launchers -> Versions \cup {0}],
             \A m \in Launchers \ {l} : chosen'[m] = chosen[m],
             WellPlaced(l)'
      PROVE  Undisturbed'
  <2>1. /\ step'[l] = s /\ step' \in [Launchers -> InstSteps]
        /\ \A m \in Launchers \ {l} : step'[m] = step[m]
    BY <1>2, <1>7 DEF Goto
  <2>2. InstTypes'
    BY <1>1, <1>3, <1>7, <2>1 DEF InstTypes, npmVars
  <2>3. \A m \in Launchers \ {l} : ~Copying(m) /\ step[m] \notin {"write", "rename", "done", "undo"}
    BY <1>1, <1>7 DEF CopiesAlone, Copying
  <2>4. CopiesAlone'
    BY <1>1, <1>7, <2>1, <2>3 DEF CopiesAlone, Copying
  <2>5. ASSUME NEW m \in Launchers PROVE WellPlaced(m)'
    <3>1. CASE m # l
      <4>1. WellPlaced(m) /\ step'[m] = step[m] /\ chosen'[m] = chosen[m]
        BY <1>1, <1>7, <2>1, <3>1
      <4> QED BY <1>3, <1>7, <4>1 DEF WellPlaced, npmVars
    <3> QED BY <1>7, <3>1
  <2> QED BY <1>4, <2>2, <2>4, <2>5 DEF Undisturbed
<1>8. ASSUME NEW s \in {"rename", "done", "undo", "record"}, Goto(l, s),
             s \in {"done", "record"} => target' # NoFile
      PROVE  WellPlaced(l)'
  <2>1. step'[l] = s
    BY <1>2, <1>8 DEF Goto
  <2> QED BY <1>3, <1>5, <1>8, <2>1 DEF WellPlaced
<1>9. ASSUME Copying(l) PROVE \A m \in Launchers \ {l} : writes[m] = "none"
  BY <1>1, <1>2, <1>9 DEF CopiesAlone, Copying
<1>10. CASE FinishCopy(l)
  <2>1. step[l] = "write" /\ writes[l] = "tmp" /\ ~tmp.mixed /\ Copying(l) /\ Goto(l, "rename")
        /\ writes' = [writes EXCEPT ![l] = "none"] /\ UNCHANGED <<target, chosen>>
        /\ tmp' \in Copied(l, tmp)
    BY <1>1, <1>10 DEF FinishCopy, CopiesAlone, Copying
  <2>2. tmp' = [tmp EXCEPT !.version = chosen[l], !.whole = TRUE]
    BY <1>9, <2>1 DEF Copied
  <2>3. tmp' \in Files /\ tmp'.whole
    BY <1>2, <2>2 DEF Files
  <2>4. writes' \in [Launchers -> {"none", "tmp"}] /\ \A m \in Launchers : writes'[m] = "none"
    BY <1>2, <1>9, <2>1
  <2> QED BY <1>2, <1>7, <1>8, <2>1, <2>3, <2>4 DEF InstSteps
<1>11. CASE CopyFails(l)
  <2>1. Copying(l) /\ Goto(l, "undo") /\ writes' = [writes EXCEPT ![l] = "none"]
        /\ UNCHANGED <<target, tmp, chosen>>
    BY <1>11 DEF CopyFails, Copying
  <2>2. writes' \in [Launchers -> {"none", "tmp"}] /\ \A m \in Launchers : writes'[m] = "none"
    BY <1>2, <1>9, <2>1
  <2> QED BY <1>2, <1>7, <1>8, <2>1, <2>2 DEF InstSteps
<1>12. ASSUME Copying(l), step[l] # "write" PROVE \A m \in Launchers : writes[m] = "none"
  BY <1>1, <1>2, <1>9, <1>12 DEF CopiesAlone
<1>13. NoFile \in Files
  BY DEF NoFile, Files
<1>14. CASE RenameDownload(l)
  <2>1. Copying(l) /\ step[l] = "rename" /\ tmp.whole /\ UNCHANGED chosen
    BY <1>1, <1>14 DEF RenameDownload, Copying, CopiesAlone
  <2>2. \A m \in Launchers : writes[m] = "none"
    BY <1>12, <2>1
  <2>3. tmp # NoFile
    BY <2>1 DEF NoFile
  <2>4. target' = tmp /\ tmp' = NoFile /\ Moved("tmp", "target") /\ Goto(l, "done")
    BY <1>14, <2>3 DEF RenameDownload
  <2>5. writes' \in [Launchers -> {"none", "tmp"}] /\ \A m \in Launchers : writes'[m] = "none"
    BY <2>2, <2>4 DEF Moved
  <2> QED BY <1>2, <1>7, <1>8, <1>13, <2>1, <2>3, <2>4, <2>5 DEF InstSteps
<1>15. CASE RemoveDownload(l)
  <2>1. Copying(l) /\ step[l] \in {"done", "undo"} /\ tmp' = NoFile /\ Moved("tmp", "none") /\ target' = target
    BY <1>15 DEF RemoveDownload, Copying
  <2>2. \A m \in Launchers : writes[m] = "none"
    BY <1>12, <2>1
  <2>3. writes' \in [Launchers -> {"none", "tmp"}] /\ \A m \in Launchers : writes'[m] = "none"
    BY <2>2, <2>1 DEF Moved
  <2>4. CASE step[l] = "done" /\ Goto(l, "record") /\ UNCHANGED chosen
    <3>1. target' # NoFile
      BY <1>1, <2>1, <2>4 DEF WellPlaced
    <3> QED BY <1>2, <1>7, <1>8, <1>13, <2>1, <2>3, <2>4, <3>1 DEF InstSteps
  <2>5. CASE Fallback(l)
    <3>1. PICK s \in {"spawn", "refused"} : Goto(l, s)
      BY <1>3, <1>5, <2>1, <2>5, FallbackIsThere
    <3>2. /\ chosen' \in [Launchers -> Versions \cup {0}]
          /\ \A m \in Launchers \ {l} : chosen'[m] = chosen[m]
          /\ WellPlaced(l)'
      BY <1>3, <1>5, <2>1, <2>5, FallbackIsThere
    <3> QED BY <1>7, <1>13, <2>1, <2>3, <3>1, <3>2 DEF InstSteps
  <2> QED BY <1>15, <2>4, <2>5 DEF RemoveDownload
<1> QED BY <1>6, <1>10, <1>11, <1>14, <1>15

\* A restart forgets the launches, and keeps the marked install whole.
LEMMA RestartInstKeeps ==
    ASSUME Undisturbed, Restart
    PROVE  Undisturbed'
<1>1. InstTypes /\ CopiesAlone /\ NpmSettled
  BY DEF Undisturbed
<1>2. /\ \A l \in Launchers : step'[l] = "idle" /\ writes'[l] = "none" /\ launched'[l]
      /\ step' \in [Launchers -> InstSteps] /\ chosen' \in [Launchers -> Versions \cup {0}]
      /\ writes' \in [Launchers -> {"none", "tmp"}] /\ launched' \in [Launchers -> BOOLEAN]
      /\ UNCHANGED <<kind, published, tmp, target, bundles, acquired>>
  BY DEF Restart, InstSteps
<1>3. PICK keep \in LastMarked : npmDir' \in PrunedNpm(keep)
  BY DEF Restart
<1>4. /\ npmDir' \in [Versions -> NpmStates]
      /\ \A v \in Versions : npmDir'[v] \in CASE v = keep -> {npmDir[v]}
                                              [] v # keep /\ Marked(v) -> {"none", "torn"}
                                              [] OTHER -> {"none", npmDir[v]}
  BY <1>3, Zenon DEF PrunedNpm
<1>5. /\ npmInstalling' = {} /\ orphans' \subseteq orphans \cup npmInstalling
      /\ disturbed' = disturbed \cup {v \in Versions : npmDir'[v] = "torn"}
  BY DEF Restart
<1>6. ASSUME NEW v \in Versions, v \notin disturbed'
      PROVE  npmDir'[v] # "torn" /\ (npmDir'[v] = "complete" => v \notin orphans')
  <2>1. v \notin disturbed /\ npmDir'[v] # "torn"
    BY <1>5, <1>6
  <2>2. npmDir'[v] = "complete" => npmDir[v] = "complete"
    BY <1>4 DEF Marked
  <2> QED BY <1>1, <1>5, <2>1, <2>2 DEF NpmSettled
<1>7. NpmSettled'
  BY <1>5, <1>6 DEF NpmSettled
<1>8. InstTypes'
  BY <1>1, <1>2, <1>4 DEF InstTypes
<1>9. CopiesAlone'
  BY <1>1, <1>2 DEF CopiesAlone, Copying
<1>10. \A l \in Launchers : WellPlaced(l)'
  BY <1>2 DEF WellPlaced
<1> QED BY <1>7, <1>8, <1>9, <1>10 DEF Undisturbed

LEMMA InstallStep ==
    ASSUME InstInv, [InstNext]_instVars
    PROVE  InstInv'
<1> SUFFICES ASSUME ~overlapped' PROVE Undisturbed'
  BY DEF InstInv
<1>1. ~overlapped
  BY DEF InstNext, instVars, EnsureBinary, DownloadArtifact, UnpackArchive, OpenDownload, FinishCopy,
         CopyFails, RenameDownload, RemoveDownload, SaveAcquiredBinary, Spawn, EnsureNpm,
         InstallNpmInBackground, AgentEnds, InstallNpmPackage, OrphanWrites, RegistryMoves, Restart
<1>2. Undisturbed /\ InstTypes
  BY <1>1 DEF InstInv, Undisturbed
<1>3. ASSUME NEW l \in Launchers,
             \/ EnsureBinary(l) \/ DownloadArtifact(l) \/ UnpackArchive(l) \/ SaveAcquiredBinary(l)
             \/ EnsureNpm(l) \/ AgentEnds(l)
      PROVE  Undisturbed'
  BY <1>2, <1>3, QuietLaunchKeeps
<1>4. ASSUME NEW l \in Launchers,
             OpenDownload(l) \/ FinishCopy(l) \/ CopyFails(l) \/ RenameDownload(l) \/ RemoveDownload(l)
      PROVE  Undisturbed'
  BY <1>1, <1>2, <1>4, CopyKeeps
<1>5. ASSUME NEW l \in Launchers, InstallNpmInBackground(l) PROVE Undisturbed'
  BY <1>2, <1>5, NpmKeeps DEF InstallNpmInBackground
<1>6. ASSUME NEW v \in Versions, InstallNpmPackage(v) \/ OrphanWrites(v) PROVE Undisturbed'
  BY <1>2, <1>6, NpmKeeps DEF InstallNpmPackage, OrphanWrites
<1>7. ASSUME UNCHANGED <<kind, step, chosen, tmp, writes, target, bundles, npmVars, acquired, launched>>,
             published' \in Versions
      PROVE  Undisturbed'
  BY <1>2, <1>7
  DEF Undisturbed, InstTypes, CopiesAlone, Copying, WellPlaced, NpmSettled, npmVars
<1>8. CASE RegistryMoves \/ UNCHANGED instVars
  <2>1. published' \in Versions
    BY <1>2, <1>8, InstallConstants DEF RegistryMoves, instVars, InstTypes, Versions
  <2> QED BY <1>7, <1>8, <2>1 DEF RegistryMoves, instVars, npmVars
<1>9. ASSUME NEW l \in Launchers, Spawn(l) PROVE Undisturbed'
  BY <1>2, <1>9, SpawnKeeps
<1>10. CASE Restart
  BY <1>2, <1>10, RestartInstKeeps
<1> QED BY <1>3, <1>4, <1>5, <1>6, <1>8, <1>9, <1>10 DEF InstNext

\* What a launch starts is a whole program, whatever fails, whenever the daemon
\* dies and whichever launches cross, while no two launches copy a raw binary at
\* once (installer.go) and nothing removed or wrote to the npm install it starts
\* from once that was marked (npm.go): a bundle and a bare executable that is
\* copied alone are whole, and so is an npm install from its marker on.
THEOREM InstallsAreWhole == InstSpec => []WholeUnlessShared
<1>1. ASSUME InstInit
      PROVE  InstInv
  <2>1. InstTypes
    BY <1>1, InstallConstants DEF InstInit, InstTypes, InstSteps, NoFile, Files, Versions, NpmStates
  <2>2. CopiesAlone /\ (\A l \in Launchers : WellPlaced(l)) /\ NpmSettled
    BY <1>1 DEF InstInit, CopiesAlone, Copying, WellPlaced, NpmSettled
  <2> QED BY <2>1, <2>2 DEF InstInv, Undisturbed
<1>2. InstInv => WholeUnlessShared
  BY DEF InstInv, Undisturbed, WellPlaced, WholeUnlessShared
<1> QED BY <1>1, <1>2, InstallStep, PTL DEF InstSpec

-----------------------------------------------------------------------------
(* The catalog and its custom agents.                                      *)

Stages == {"idle", "save", "delete", "invalidate", "readback", "rollback", "undone"}
Stored == Commands \cup {None}
Edits == [at : Stages, op : {"none", "create", "update", "delete"}, id : AgentIds \cup {None},
          command : Stored, existing : Stored]

EditTypes == rows \in [AgentIds -> Stored] /\ edit \in [Writers -> Edits]

\* A write is between its save and its Invalidate.
Unseen(w) == edit[w].at \in {"invalidate", "undone"}

\* What readers have, or will have when the rebuild ends, is the table, unless
\* the rows could not be read.
CacheFollows ==
    /\ (~partial /\ \A w \in Writers : ~Unseen(w)) =>
          (fresh => agents.custom = rows) /\ (building # None => building.custom = rows)
    /\ partial =>
          /\ fresh => \A id \in AgentIds : agents.custom[id] = None
          /\ building # None => \A id \in AgentIds : building.custom[id] = None

\* The write that put a command in the table has not read it back yet, or is
\* about to undo it.
Unproven(w) == edit[w].at \in {"invalidate", "readback", "rollback"} /\ edit[w].op # "delete"

OneEditor == \A v, w \in Writers : edit[v].at # "idle" /\ edit[w].at # "idle" => v = w
EarlierIsValid == \A w \in Writers : edit[w].existing \notin Invalid
InvalidIsUnproven ==
    \A id \in AgentIds : rows[id] \in Invalid => \E w \in Writers : Unproven(w) /\ edit[w].id = id
EditsInOrder == contended \/ unrolled \/ (OneEditor /\ EarlierIsValid /\ InvalidIsUnproven)

\* What a write is about to do is what was asked.
OpsMatch ==
    \A w \in Writers : (edit[w].at = "save" => edit[w].op \in {"create", "update"})
                       /\ (edit[w].at = "delete" => edit[w].op = "delete")

CatInv == EditTypes /\ CacheFollows /\ OpsMatch /\ EditsInOrder

\* The id a new agent gets is one of the slugs.
LEMMA FirstFreeIsFree == FreeIds # {} => FirstFree \in FreeIds
<1> SUFFICES ASSUME FreeIds # {} PROVE FirstFree \in FreeIds
  OBVIOUS
<1>1. FreeIds \subseteq Nat
  BY CatalogConstants DEF FreeIds
<1>2. PICK i \in FreeIds : \A j \in FreeIds : ~ (<<j, i>> \in OpToRel(<, Nat))
  BY <1>1, NatLessThanWellFounded, WFMin, Zenon
<1>3. ASSUME NEW j \in FreeIds PROVE i <= j
  <2>1. <<j, i>> \in OpToRel(<, Nat) <=> j < i
    BY <1>1 DEF OpToRel
  <2>2. i \in Nat /\ j \in Nat /\ ~(j < i)
    BY <1>1, <1>2, <2>1
  <2> QED BY <2>2
<1> QED BY <1>3 DEF FirstFree

\* A write moves on, or ends.
LEMMA EditMoves ==
    ASSUME EditTypes, NEW w \in Writers, NEW place \in Stages, Goes(w, place)
    PROVE  /\ edit' \in [Writers -> Edits] /\ edit'[w].at = place /\ edit'[w].op = edit[w].op
           /\ edit'[w].id = edit[w].id /\ edit'[w].existing = edit[w].existing
           /\ \A v \in Writers \ {w} : edit'[v] = edit[v]
BY DEF EditTypes, Goes, Edits

LEMMA EditEnds ==
    ASSUME EditTypes, NEW w \in Writers, Ends(w)
    PROVE  /\ edit' \in [Writers -> Edits] /\ edit'[w] = Idle
           /\ \A v \in Writers \ {w} : edit'[v] = edit[v]
BY DEF EditTypes, Ends, Edits, Idle, Stages, Stored

\* A step that leaves the writes and the table alone, and the cache true.
LEMMA CatalogStays ==
    ASSUME CatInv, UNCHANGED <<rows, edit, contended, unrolled>>, CacheFollows'
    PROVE  CatInv'
BY DEF CatInv, EditTypes, OpsMatch, EditsInOrder, OneEditor, EarlierIsValid, InvalidIsUnproven, Unproven

LEMMA ReadersKeep ==
    ASSUME CatInv, \/ FetchEnds \/ RegistryExpires \/ RefreshBegin \/ RefreshEnd \/ CacheExpires
                   \/ WorldChanges \/ (\E id \in AgentIds : Launch(id) \/ RuntimeEnds(id))
                   \/ UNCHANGED catVars
    PROVE  CatInv'
<1>1. CacheFollows
  BY DEF CatInv
<1>2. CASE \/ FetchEnds \/ RegistryExpires \/ WorldChanges \/ UNCHANGED catVars
           \/ (\E id \in AgentIds : Launch(id) \/ RuntimeEnds(id))
  <2>1. UNCHANGED <<rows, edit, contended, unrolled, agents, fresh, building, partial>>
    BY <1>2 DEF FetchEnds, RegistryExpires, WorldChanges, Launch, RuntimeEnds, catVars, cache, history
  <2>2. CacheFollows'
    BY <1>1, <2>1 DEF CacheFollows, Unseen
  <2> QED BY <2>1, <2>2, CatalogStays
<1>3. CASE RefreshBegin
  <2>1. UNCHANGED <<rows, edit, contended, unrolled, agents, fresh>> /\ ~fresh
    BY <1>3 DEF RefreshBegin, history
  <2>2. \/ building' = [custom |-> rows, offer |-> Offer] /\ partial' = FALSE
        \/ building' = [custom |-> [i \in AgentIds |-> None], offer |-> Offer] /\ partial' = TRUE
    BY <1>3 DEF RefreshBegin
  <2>3. CacheFollows'
    BY <2>1, <2>2 DEF CacheFollows, Unseen
  <2> QED BY <2>1, <2>3, CatalogStays
<1>4. CASE RefreshEnd
  <2>1. /\ UNCHANGED <<rows, edit, contended, unrolled, partial>>
        /\ building # None /\ agents' = building /\ fresh' = TRUE /\ building' = None
    BY <1>4 DEF RefreshEnd, history
  <2>2. CacheFollows'
    BY <1>1, <2>1 DEF CacheFollows, Unseen
  <2> QED BY <2>1, <2>2, CatalogStays
<1>5. CASE CacheExpires
  <2>1. UNCHANGED <<rows, edit, contended, unrolled, agents, building, partial>> /\ fresh' = FALSE
    BY <1>5 DEF CacheExpires, history
  <2>2. CacheFollows'
    BY <1>1, <2>1 DEF CacheFollows, Unseen
  <2> QED BY <2>1, <2>2, CatalogStays
<1> QED BY <1>2, <1>3, <1>4, <1>5

\* A request comes in: it is the only one, or they are contended.
LEMMA ArrivalKeeps ==
    ASSUME CatInv, NEW w \in Writers, Arrive(w), NEW r \in Edits, edit' = [edit EXCEPT ![w] = r],
           UNCHANGED <<rows, agents, fresh, building, partial>>,
           r.existing = None \/ \E id \in AgentIds : r.existing = rows[id],
           \/ r.at = "save" /\ r.op \in {"create", "update"}
           \/ r.at = "delete" /\ r.op = "delete"
    PROVE  CatInv'
<1>1. EditTypes /\ CacheFollows /\ OpsMatch /\ EditsInOrder
  BY DEF CatInv
<1>2. /\ edit' \in [Writers -> Edits] /\ edit'[w] = r /\ \A v \in Writers \ {w} : edit'[v] = edit[v]
      /\ edit[w].at = "idle" /\ unrolled' = unrolled
  BY <1>1 DEF EditTypes, Arrive
<1>3. EditTypes'
  BY <1>1, <1>2 DEF EditTypes
<1>4. \A v \in Writers : Unseen(v)' <=> Unseen(v)
  BY <1>2 DEF Unseen
<1>5. CacheFollows'
  BY <1>1, <1>4 DEF CacheFollows
<1>6. OpsMatch'
  BY <1>1, <1>2 DEF OpsMatch
<1>7. ASSUME ~contended', ~unrolled' PROVE OneEditor' /\ EarlierIsValid' /\ InvalidIsUnproven'
  <2>1. ~contended /\ \A v \in Writers : edit[v].at = "idle"
    BY <1>7 DEF Arrive
  <2>2. EarlierIsValid /\ InvalidIsUnproven
    BY <1>1, <1>2, <1>7, <2>1 DEF EditsInOrder
  <2>3. \A id \in AgentIds : rows[id] \notin Invalid
    BY <2>1, <2>2 DEF InvalidIsUnproven, Unproven
  <2>4. OneEditor'
    BY <1>2, <2>1 DEF OneEditor
  <2>5. EarlierIsValid'
    BY <1>2, <2>2, <2>3, CatalogConstants DEF EarlierIsValid
  <2> QED BY <2>3, <2>4, <2>5 DEF InvalidIsUnproven
<1> QED BY <1>3, <1>5, <1>6, <1>7 DEF CatInv, EditsInOrder

LEMMA RequestsKeep ==
    ASSUME CatInv, NEW w \in Writers,
           \/ \E c \in Commands : Create(w, c) \/ \E id \in AgentIds : Update(w, id, c)
           \/ \E id \in AgentIds : Delete(w, id)
    PROVE  CatInv'
<1>1. EditTypes /\ CacheFollows /\ OpsMatch /\ EditsInOrder
  BY DEF CatInv
<1>2. ASSUME NEW c \in Commands, Create(w, c)
      PROVE  CatInv'
  <2>1. Arrive(w) /\ UNCHANGED <<rows, agents, fresh, building, partial, unrolled>>
    BY <1>2 DEF Create, cache
  <2>2. CASE UNCHANGED edit
    <3>1. contended => contended'
      BY <2>1 DEF Arrive
    <3> QED BY <1>1, <2>1, <2>2, <3>1
        DEF CatInv, EditTypes, CacheFollows, Unseen, OpsMatch, EditsInOrder, OneEditor,
            EarlierIsValid, InvalidIsUnproven, Unproven
  <2>3. CASE ~UNCHANGED edit
    <3>1. FreeIds # {} /\ edit' = [edit EXCEPT ![w] = [at |-> "save", op |-> "create",
              id |-> Slugs[FirstFree], command |-> c, existing |-> None]]
      BY <1>2, <2>3 DEF Create
    <3>2. Slugs[FirstFree] \in AgentIds
      BY <3>1, FirstFreeIsFree DEF FreeIds, AgentIds
    <3>3. [at |-> "save", op |-> "create", id |-> Slugs[FirstFree], command |-> c, existing |-> None]
             \in Edits
      BY <3>2 DEF Edits, Stages, Stored
    <3> QED BY <2>1, <3>1, <3>3, ArrivalKeeps
  <2> QED BY <2>2, <2>3
<1>3. ASSUME NEW c \in Commands, NEW id \in AgentIds, Update(w, id, c)
      PROVE  CatInv'
  <2>1. Arrive(w) /\ UNCHANGED <<rows, agents, fresh, building, partial>>
        /\ edit' = [edit EXCEPT ![w] = [at |-> "save", op |-> "update", id |-> id, command |-> c,
                                        existing |-> rows[id]]]
    BY <1>3 DEF Update, cache
  <2>2. [at |-> "save", op |-> "update", id |-> id, command |-> c, existing |-> rows[id]] \in Edits
    BY <1>1 DEF EditTypes, Edits, Stages, Stored
  <2> QED BY <2>1, <2>2, ArrivalKeeps
<1>4. ASSUME NEW id \in AgentIds, Delete(w, id)
      PROVE  CatInv'
  <2>1. Arrive(w) /\ UNCHANGED <<rows, agents, fresh, building, partial>>
        /\ edit' = [edit EXCEPT ![w] = [at |-> "delete", op |-> "delete", id |-> id, command |-> None,
                                        existing |-> rows[id]]]
    BY <1>4 DEF Delete, cache
  <2>2. [at |-> "delete", op |-> "delete", id |-> id, command |-> None, existing |-> rows[id]] \in Edits
    BY <1>1 DEF EditTypes, Edits, Stages, Stored
  <2> QED BY <2>1, <2>2, ArrivalKeeps
<1> QED BY <1>2, <1>3, <1>4

\* A write that changes one row of the table is unseen until its Invalidate.
LEMMA RowChangeKeeps ==
    ASSUME CatInv, NEW w \in Writers, NEW place \in {"invalidate", "undone"}, Goes(w, place),
           UNCHANGED <<agents, fresh, building, partial, contended, unrolled>>, edit[w].at # "idle",
           NEW c \in Stored, rows' = [rows EXCEPT ![edit[w].id] = c],
           \/ c \notin Invalid \/ contended \/ unrolled
           \/ place = "invalidate" /\ edit[w].op # "delete"
    PROVE  CatInv'
<1>1. EditTypes /\ CacheFollows /\ OpsMatch /\ EditsInOrder
  BY DEF CatInv
<1>2. /\ edit' \in [Writers -> Edits] /\ edit'[w].at = place /\ edit'[w].op = edit[w].op
      /\ edit'[w].id = edit[w].id /\ edit'[w].existing = edit[w].existing
      /\ \A v \in Writers \ {w} : edit'[v] = edit[v]
  BY <1>1, EditMoves DEF Stages
<1>3. rows' \in [AgentIds -> Stored]
      /\ \A id \in AgentIds : rows'[id] = IF id = edit[w].id THEN c ELSE rows[id]
  BY <1>1 DEF EditTypes
<1>4. EditTypes'
  BY <1>2, <1>3 DEF EditTypes
<1>5. CacheFollows'
  BY <1>1, <1>2 DEF CacheFollows, Unseen
<1>6. OpsMatch'
  BY <1>1, <1>2 DEF OpsMatch
<1>7. ASSUME ~contended, ~unrolled, OneEditor, EarlierIsValid, InvalidIsUnproven
      PROVE  OneEditor' /\ EarlierIsValid' /\ InvalidIsUnproven'
  <2>1. OneEditor' /\ EarlierIsValid'
    BY <1>2, <1>7 DEF OneEditor, EarlierIsValid
  <2>2. ASSUME NEW id \in AgentIds, rows'[id] \in Invalid
        PROVE  \E v \in Writers : Unproven(v)' /\ edit'[v].id = id
    <3>1. CASE id = edit[w].id
      BY <1>2, <1>3, <1>7, <2>2, <3>1 DEF Unproven
    <3>2. CASE id # edit[w].id
      <4>1. PICK v \in Writers : Unproven(v) /\ edit[v].id = id
        BY <1>3, <1>7, <2>2, <3>2 DEF InvalidIsUnproven
      <4>2. v # w /\ edit[v].at # "idle"
        BY <3>2, <4>1 DEF Unproven
      <4> QED BY <1>7, <4>2 DEF OneEditor
    <3> QED BY <3>1, <3>2
  <2> QED BY <2>1, <2>2 DEF InvalidIsUnproven
<1> QED BY <1>1, <1>4, <1>5, <1>6, <1>7 DEF CatInv, EditsInOrder

\* A write that leaves the table alone, or gives up: what it tried is not there.
LEMMA EndKeeps ==
    ASSUME CatInv, NEW w \in Writers, Ends(w), CacheFollows', UNCHANGED <<rows, contended>>,
           unrolled => unrolled',
           unrolled' \/ ~Unproven(w) \/ contended
             \/ \A id \in AgentIds : edit[w].id = id => rows[id] \notin Invalid
    PROVE  CatInv'
<1>1. EditTypes /\ OpsMatch /\ EditsInOrder
  BY DEF CatInv
<1>2. /\ edit' \in [Writers -> Edits] /\ edit'[w] = Idle /\ \A v \in Writers \ {w} : edit'[v] = edit[v]
  BY <1>1, EditEnds
<1>3. EditTypes'
  BY <1>1, <1>2 DEF EditTypes
<1>4. OpsMatch'
  BY <1>1, <1>2 DEF OpsMatch, Idle
<1>5. ASSUME ~contended', ~unrolled' PROVE OneEditor' /\ EarlierIsValid' /\ InvalidIsUnproven'
  <2>1. OneEditor /\ EarlierIsValid /\ InvalidIsUnproven
    BY <1>1, <1>5 DEF EditsInOrder
  <2>2. OneEditor' /\ EarlierIsValid'
    BY <1>2, <2>1, CatalogConstants DEF OneEditor, EarlierIsValid, Idle
  <2>3. ASSUME NEW id \in AgentIds, rows'[id] \in Invalid
        PROVE  \E v \in Writers : Unproven(v)' /\ edit'[v].id = id
    <3>1. PICK v \in Writers : Unproven(v) /\ edit[v].id = id
      BY <2>1, <2>3 DEF InvalidIsUnproven
    <3>2. v # w
      BY <1>5, <2>3, <3>1
    <3> QED BY <1>2, <3>1, <3>2 DEF Unproven
  <2> QED BY <2>2, <2>3 DEF InvalidIsUnproven
<1> QED BY <1>3, <1>4, <1>5 DEF CatInv, EditsInOrder

\* A write that goes on without touching the table.
LEMMA MoveKeeps ==
    ASSUME CatInv, NEW w \in Writers, NEW place \in {"readback", "rollback"}, Goes(w, place),
           CacheFollows', UNCHANGED <<rows, contended, unrolled>>, edit[w].at # "idle"
    PROVE  CatInv'
<1>1. EditTypes /\ OpsMatch /\ EditsInOrder
  BY DEF CatInv
<1>2. /\ edit' \in [Writers -> Edits] /\ edit'[w].at = place /\ edit'[w].op = edit[w].op
      /\ edit'[w].id = edit[w].id /\ edit'[w].existing = edit[w].existing
      /\ \A v \in Writers \ {w} : edit'[v] = edit[v]
  BY <1>1, EditMoves DEF Stages
<1>3. EditTypes' /\ OpsMatch'
  BY <1>1, <1>2 DEF EditTypes, OpsMatch
<1>4. ASSUME OneEditor, EarlierIsValid, InvalidIsUnproven
      PROVE  OneEditor' /\ EarlierIsValid' /\ InvalidIsUnproven'
  <2>1. OneEditor' /\ EarlierIsValid'
    BY <1>2, <1>4 DEF OneEditor, EarlierIsValid
  <2>2. \A v \in Writers : Unproven(v) => Unproven(v)' /\ edit'[v].id = edit[v].id
    BY <1>2 DEF Unproven
  <2> QED BY <1>4, <2>1, <2>2 DEF InvalidIsUnproven
<1> QED BY <1>1, <1>3, <1>4 DEF CatInv, EditsInOrder

LEMMA WritersKeep ==
    ASSUME CatInv, NEW w \in Writers, WriterStep(w)
    PROVE  CatInv'
<1>1. EditTypes /\ CacheFollows /\ OpsMatch /\ EditsInOrder
  BY DEF CatInv
<1>2. edit[w] \in Edits
  BY <1>1 DEF EditTypes
<1>3. ASSUME ~Unseen(w), Ends(w), UNCHANGED <<rows, agents, fresh, building, partial>>
      PROVE  CacheFollows'
  <2>1. \A v \in Writers : Unseen(v)' <=> Unseen(v)
    BY <1>1, <1>3, EditEnds DEF Unseen, Idle
  <2> QED BY <1>1, <1>3, <2>1 DEF CacheFollows
<1>4. CASE Save(w)
  <2>1. /\ edit[w].at = "save" /\ edit[w].op # "delete"
        /\ UNCHANGED <<agents, fresh, building, partial, contended, unrolled>>
    BY <1>1, <1>4 DEF Save, cache, history, OpsMatch
  <2>2. CASE rows' = [rows EXCEPT ![edit[w].id] = edit[w].command] /\ Goes(w, "invalidate")
    BY <1>2, <2>1, <2>2, RowChangeKeeps DEF Edits
  <2>3. CASE Ends(w) /\ UNCHANGED rows
    BY <1>3, <2>1, <2>3, EndKeeps DEF Unseen, Unproven
  <2> QED BY <1>4, <2>2, <2>3 DEF Save
<1>5. CASE DeleteRow(w)
  <2>1. edit[w].at = "delete" /\ UNCHANGED <<agents, fresh, building, partial, contended, unrolled>>
    BY <1>5 DEF DeleteRow, cache, history
  <2>2. CASE rows' = [rows EXCEPT ![edit[w].id] = None] /\ Goes(w, "invalidate")
    BY <2>1, <2>2, RowChangeKeeps, CatalogConstants DEF Stored
  <2>3. CASE Ends(w) /\ UNCHANGED rows
    BY <1>3, <2>1, <2>3, EndKeeps DEF Unseen, Unproven
  <2> QED BY <1>5, <2>2, <2>3 DEF DeleteRow
<1>6. CASE Invalidate(w)
  <2>1. /\ edit[w].at \in {"invalidate", "undone"} /\ building = None /\ fresh' = FALSE
        /\ UNCHANGED <<rows, agents, building, partial, contended, unrolled>>
    BY <1>6 DEF Invalidate, DropsCache, history
  <2>2. CacheFollows'
    BY <2>1 DEF CacheFollows
  <2>3. CASE (edit[w].at = "undone" \/ edit[w].op = "delete") /\ Ends(w)
    BY <2>1, <2>2, <2>3, EndKeeps DEF Unproven
  <2>4. CASE Goes(w, "readback")
    BY <2>1, <2>2, <2>4, MoveKeeps
  <2> QED BY <1>6, <2>3, <2>4 DEF Invalidate
<1>7. CASE ReadBack(w)
  <2>1. /\ edit[w].at = "readback" /\ fresh
        /\ UNCHANGED <<rows, agents, fresh, building, partial, contended, unrolled>>
    BY <1>7 DEF ReadBack, Readable, cache, history
  <2>2. CASE Accepted(edit[w].id) /\ Ends(w)
    <3>1. ASSUME NEW id \in AgentIds, edit[w].id = id, ~contended, ~unrolled
          PROVE  rows[id] \notin Invalid
      <4>1. \A v \in Writers : ~Unseen(v)
        BY <1>1, <2>1, <3>1 DEF EditsInOrder, OneEditor, Unseen
      <4>2. agents.custom[id] \notin Invalid /\ agents.custom[id] # None
        BY <2>2, <3>1 DEF Accepted
      <4> QED BY <1>1, <2>1, <3>1, <4>1, <4>2 DEF CacheFollows
    <3> QED BY <1>3, <2>1, <2>2, <3>1, EndKeeps DEF Unseen
  <2>3. CASE Goes(w, "rollback")
    <3>1. \A v \in Writers : Unseen(v)' <=> Unseen(v)
      BY <1>1, <2>1, <2>3, EditMoves DEF Unseen, Stages
    <3>2. CacheFollows'
      BY <1>1, <2>1, <3>1 DEF CacheFollows
    <3> QED BY <2>1, <2>3, <3>2, MoveKeeps
  <2> QED BY <1>7, <2>2, <2>3 DEF ReadBack
<1>8. CASE RollBack(w)
  <2>1. edit[w].at = "rollback" /\ UNCHANGED <<agents, fresh, building, partial, contended>>
    BY <1>8 DEF RollBack, cache
  <2>2. CASE /\ rows' = [rows EXCEPT ![edit[w].id] = edit[w].existing] /\ Goes(w, "undone")
             /\ UNCHANGED unrolled
    <3>1. contended \/ unrolled \/ edit[w].existing \notin Invalid
      BY <1>1 DEF EditsInOrder, EarlierIsValid
    <3> QED BY <1>2, <2>1, <2>2, <3>1, RowChangeKeeps DEF Edits
  <2>3. CASE Ends(w) /\ unrolled' = TRUE /\ UNCHANGED rows
    BY <1>3, <2>1, <2>3, EndKeeps DEF Unseen
  <2> QED BY <1>8, <2>2, <2>3 DEF RollBack
<1> QED BY <1>4, <1>5, <1>6, <1>7, <1>8 DEF WriterStep

LEMMA CatalogStep ==
    ASSUME CatInv, [CatNext]_catVars
    PROVE  CatInv'
BY ReadersKeep, RequestsKeep, WritersKeep DEF CatNext

\* The catalog readers get is the table of custom agents once the writes to it
\* are through, and a command the catalog rejects is rolled back, however many
\* clients write and whatever else happens (customagents.Service, catalog.go).
THEOREM CustomAgentsSound == CatSpec => []CustomAgentsHold
<1>1. ASSUME CatInit
      PROVE  CatInv
  <2>1. rows \in [AgentIds -> Stored] /\ edit \in [Writers -> Edits]
    BY <1>1 DEF CatInit, Idle, Edits, Stages, Stored
  <2>2. \A w \in Writers : edit[w] = Idle
    BY <1>1 DEF CatInit
  <2> QED BY <1>1, <2>1, <2>2, CatalogConstants
      DEF CatInit, CatInv, EditTypes, CacheFollows, OpsMatch, EditsInOrder, OneEditor, EarlierIsValid,
          InvalidIsUnproven, Idle
<1>2. CatInv => CustomAgentsHold
  <2> SUFFICES ASSUME CatInv PROVE CatalogIsTrue /\ InvalidNeverSticks
    BY DEF CustomAgentsHold
  <2>1. CatalogIsTrue
    BY DEF CatInv, CacheFollows, CatalogIsTrue, Unseen
  <2>2. InvalidNeverSticks
    BY DEF CatInv, EditsInOrder, InvalidIsUnproven, Unproven, InvalidNeverSticks
  <2> QED BY <2>1, <2>2
<1> QED BY <1>1, <1>2, CatalogStep, PTL DEF CatSpec

-----------------------------------------------------------------------------
(* Working directories of chats.                                           *)

Frames ==
    [kind : {"ask"}, key : Nat]
    \cup [kind : {"reply"}, id : Nat, result : {"ok", "error", "already"}, chat : Chats \cup {Nowhere}]

Asked == [turn : Nat, chat : Chats \cup {Nowhere}, byRequest : BOOLEAN]

CwdTypes ==
    /\ issued \in Nat /\ asks \in Seq(Asked) /\ agentOut \in Seq(Frames)
    /\ DOMAIN cwdOf = Chats /\ DOMAIN openedIn = Chats
    /\ writing \subseteq 1..issued /\ atAgent \subseteq 1..issued /\ DOMAIN origin \subseteq 1..issued
    /\ \A i \in DOMAIN origin : origin[i].chat \in Chats \cup {Nowhere}

\* A request to open a chat names a directory, which is the one kept for it.
OpensNameCwd == \A i \in DOMAIN origin : origin[i].method = "new" => origin[i].cwd \in Cwds
KeptForItsRequest ==
    \A i \in DOMAIN origin : origin[i].method = "new" /\ i \in DOMAIN pendingCwd =>
        pendingCwd[i] = origin[i].cwd

\* The answer to it names the chat that was opened there.
AnswersTrue ==
    \A n \in 1..Len(agentOut) : agentOut[n].kind = "reply" =>
        /\ agentOut[n].id \in 1..issued
        /\ (agentOut[n].id \in DOMAIN origin /\ origin[agentOut[n].id].method = "new"
              /\ agentOut[n].result = "ok") =>
                 /\ agentOut[n].chat \in Chats
                 /\ openedIn[agentOut[n].chat] = origin[agentOut[n].id].cwd

CwdInv ==
    /\ CwdTypes /\ OpensNameCwd /\ KeptForItsRequest /\ AnswersTrue /\ CwdIsItsOwn

\* A step that gives out no id, and adds nothing to the pipe.
LEMMA CwdStays ==
    ASSUME CwdInv, UNCHANGED <<issued, cwdOf, openedIn, pendingCwd, agentOut, asks>>,
           writing' \subseteq 1..issued, atAgent' \subseteq 1..issued,
           DOMAIN origin' \subseteq DOMAIN origin, \A i \in DOMAIN origin' : origin'[i] = origin[i]
    PROVE  CwdInv'
<1>1. CwdTypes /\ OpensNameCwd /\ KeptForItsRequest /\ AnswersTrue /\ CwdIsItsOwn
  BY DEF CwdInv
<1>2. CwdTypes' /\ CwdIsItsOwn'
  BY <1>1 DEF CwdTypes, CwdIsItsOwn
<1>3. OpensNameCwd' /\ KeptForItsRequest' /\ AnswersTrue'
  BY <1>1 DEF OpensNameCwd, KeptForItsRequest, AnswersTrue
<1> QED BY <1>2, <1>3 DEF CwdInv

\* A request gets an id that nothing in the pipe answers.
LEMMA RegisterKeeps ==
    ASSUME CwdInv, NEW g, NEW method, NEW chat, NEW cwd, Register(g, method, chat, cwd),
           method = "new" => cwd \in Cwds,
           method = "load" => openedIn[chat] # Nowhere /\ cwd = openedIn[chat],
           chat \in Chats \cup {Nowhere}
    PROVE  CwdInv'
<1>1. CwdTypes /\ OpensNameCwd /\ KeptForItsRequest /\ AnswersTrue /\ CwdIsItsOwn
  BY DEF CwdInv
<1> DEFINE i == issued + 1
<1>2. /\ issued' = i /\ writing' = writing \cup {i}
      /\ origin' = With(origin, i, [gen |-> g, method |-> method, chat |-> chat, cwd |-> cwd])
      /\ pendingCwd' = IF method = "new" THEN With(pendingCwd, i, cwd) ELSE pendingCwd
      /\ cwdOf' = IF method = "load" THEN [cwdOf EXCEPT ![chat] = cwd] ELSE cwdOf
      /\ UNCHANGED <<atAgent, asks, agentOut, openedIn>>
  BY DEF Register, CwdKey, sideVars, pipe, pastVars
<1>3. issued \in Nat /\ i \in Nat /\ i \notin 1..issued /\ 1..issued \subseteq 1..i /\ i \in 1..i
  BY <1>1 DEF CwdTypes
<1>4. /\ DOMAIN origin' = DOMAIN origin \cup {i} /\ i \notin DOMAIN origin
      /\ origin'[i].method = method /\ origin'[i].cwd = cwd /\ origin'[i].chat = chat
      /\ \A j \in DOMAIN origin : origin'[j] = origin[j]
  BY <1>1, <1>2, <1>3 DEF With, CwdTypes
<1>5. method = "new" => pendingCwd'[i] = cwd /\ \A j \in DOMAIN origin : j \in DOMAIN pendingCwd' =>
                                                    j \in DOMAIN pendingCwd /\ pendingCwd'[j] = pendingCwd[j]
  BY <1>1, <1>2, <1>3 DEF With, CwdTypes
<1> HIDE DEF i
<1>6. CwdTypes'
  BY <1>1, <1>2, <1>3, <1>4 DEF CwdTypes
<1>7. OpensNameCwd'
  BY <1>1, <1>4 DEF OpensNameCwd
<1>8. KeptForItsRequest'
  BY <1>1, <1>2, <1>4, <1>5 DEF KeptForItsRequest
<1>9. AnswersTrue'
  <2> SUFFICES ASSUME NEW n \in 1..Len(agentOut), agentOut[n].kind = "reply"
               PROVE  /\ agentOut[n].id \in 1..issued'
                      /\ (agentOut[n].id \in DOMAIN origin' /\ origin'[agentOut[n].id].method = "new"
                            /\ agentOut[n].result = "ok") =>
                               /\ agentOut[n].chat \in Chats
                               /\ openedIn[agentOut[n].chat] = origin'[agentOut[n].id].cwd
    BY <1>2 DEF AnswersTrue
  <2>1. agentOut[n].id \in 1..issued /\ agentOut[n].id # i /\ agentOut[n].id \in 1..issued'
    BY <1>1, <1>2, <1>3 DEF AnswersTrue
  <2>2. agentOut[n].id \in DOMAIN origin' =>
            agentOut[n].id \in DOMAIN origin /\ origin'[agentOut[n].id] = origin[agentOut[n].id]
    BY <1>4, <2>1
  <2> QED BY <1>1, <2>1, <2>2 DEF AnswersTrue
<1>10. CwdIsItsOwn'
  BY <1>1, <1>2 DEF CwdIsItsOwn, CwdTypes
<1> QED BY <1>6, <1>7, <1>8, <1>9, <1>10 DEF CwdInv

\* The agent puts a frame in the pipe.
LEMMA AnswerKeeps ==
    ASSUME CwdInv, NEW r, NEW chat \in Chats \cup {Nowhere}, NEW n,
           r \in {"ok", "error", "already"}, AgentAnswers(n, r, chat)
    PROVE  CwdInv'
<1>1. CwdTypes /\ OpensNameCwd /\ KeptForItsRequest /\ AnswersTrue /\ CwdIsItsOwn
  BY DEF CwdInv
<1> DEFINE f == [kind |-> "reply", id |-> n, result |-> r, chat |-> chat]
           opens == origin[n].method = "new" /\ r = "ok"
<1>2. /\ n \in atAgent /\ agentOut' = Append(agentOut, f) /\ atAgent' = atAgent \ {n}
      /\ openedIn' = IF opens THEN [openedIn EXCEPT ![chat] = origin[n].cwd] ELSE openedIn
      /\ opens => chat \in Chats /\ openedIn[chat] = Nowhere
      /\ UNCHANGED <<issued, cwdOf, pendingCwd, asks, origin, writing>>
  BY DEF AgentAnswers, requestVars, acpVars, pastVars
<1>3. n \in 1..issued /\ f \in Frames
  <2>1. n \in 1..issued /\ issued \in Nat
    BY <1>1, <1>2 DEF CwdTypes
  <2>2. n \in Nat
    BY <2>1
  <2> QED BY <2>1, <2>2 DEF Frames
<1>4. /\ Len(agentOut') = Len(agentOut) + 1 /\ Len(agentOut) \in Nat /\ agentOut'[Len(agentOut')] = f
      /\ \A m \in 1..Len(agentOut) : agentOut'[m] = agentOut[m]
      /\ agentOut' \in Seq(Frames)
  BY <1>1, <1>2, <1>3 DEF CwdTypes
<1>5. DOMAIN openedIn' = Chats /\ \A c \in Chats : openedIn[c] # Nowhere => openedIn'[c] = openedIn[c]
  BY <1>1, <1>2 DEF CwdTypes
<1>6. CwdTypes'
  BY <1>1, <1>2, <1>4, <1>5 DEF CwdTypes
<1>7. OpensNameCwd' /\ KeptForItsRequest'
  BY <1>1, <1>2 DEF OpensNameCwd, KeptForItsRequest
<1>8. CwdIsItsOwn'
  BY <1>1, <1>2, <1>5 DEF CwdIsItsOwn
<1>9. ASSUME NEW m \in 1..Len(agentOut'), agentOut'[m].kind = "reply"
      PROVE  /\ agentOut'[m].id \in 1..issued
             /\ (agentOut'[m].id \in DOMAIN origin /\ origin[agentOut'[m].id].method = "new"
                   /\ agentOut'[m].result = "ok") =>
                      /\ agentOut'[m].chat \in Chats
                      /\ openedIn'[agentOut'[m].chat] = origin[agentOut'[m].id].cwd
  <2>1. CASE m = Len(agentOut')
    <3>1. agentOut'[m] = f
      BY <1>4, <2>1
    <3>2. opens => openedIn'[chat] = origin[n].cwd
      BY <1>1, <1>2 DEF CwdTypes
    <3> QED BY <1>2, <1>3, <3>1, <3>2
  <2>2. CASE m # Len(agentOut')
    <3>1. m \in 1..Len(agentOut) /\ agentOut'[m] = agentOut[m]
      BY <1>4, <2>2
    <3>2. ASSUME agentOut[m].id \in DOMAIN origin, origin[agentOut[m].id].method = "new",
                 agentOut[m].result = "ok"
          PROVE  /\ agentOut[m].chat \in Chats
                 /\ openedIn'[agentOut[m].chat] = origin[agentOut[m].id].cwd
      <4>1. /\ agentOut[m].chat \in Chats
            /\ openedIn[agentOut[m].chat] = origin[agentOut[m].id].cwd
        BY <1>1, <1>9, <3>1, <3>2 DEF AnswersTrue
      <4>2. openedIn[agentOut[m].chat] # Nowhere
        BY <1>1, <3>2, <4>1, AskConstants DEF OpensNameCwd
      <4> QED BY <1>5, <4>1, <4>2
    <3> QED BY <1>1, <1>9, <3>1, <3>2 DEF AnswersTrue
  <2> QED BY <2>1, <2>2
<1>10. AnswersTrue'
  BY <1>2, <1>9 DEF AnswersTrue
<1> QED BY <1>6, <1>7, <1>8, <1>10 DEF CwdInv

LEMMA AskKeeps ==
    ASSUME CwdInv, NEW i, NEW b \in BOOLEAN, Ask(i, b)
    PROVE  CwdInv'
<1>1. CwdTypes /\ OpensNameCwd /\ KeptForItsRequest /\ AnswersTrue /\ CwdIsItsOwn
  BY DEF CwdInv
<1> DEFINE f == [kind |-> "ask", key |-> Len(asks) + 1]
           q == [turn |-> i, chat |-> origin[i].chat, byRequest |-> b]
<1>2. /\ agentOut' = Append(agentOut, f) /\ asks' = Append(asks, q)
      /\ i \in atAgent /\ i \in DOMAIN origin
      /\ UNCHANGED <<issued, cwdOf, openedIn, pendingCwd, origin, writing, atAgent>>
  BY DEF Ask, Pending, requestVars, acpVars, pastVars
<1>3. f \in Frames /\ f.kind = "ask" /\ asks' \in Seq(Asked)
  <2>1. i \in Nat /\ origin[i].chat \in Chats \cup {Nowhere} /\ asks \in Seq(Asked)
    BY <1>1, <1>2 DEF CwdTypes
  <2>2. q \in Asked
    BY <2>1 DEF Asked
  <2> QED BY <1>2, <2>1, <2>2 DEF Frames
<1>4. /\ Len(agentOut') = Len(agentOut) + 1 /\ Len(agentOut) \in Nat /\ agentOut'[Len(agentOut')] = f
      /\ \A m \in 1..Len(agentOut) : agentOut'[m] = agentOut[m]
      /\ agentOut' \in Seq(Frames)
  BY <1>1, <1>2, <1>3 DEF CwdTypes
<1>5. CwdTypes'
  BY <1>1, <1>2, <1>3, <1>4 DEF CwdTypes
<1>6. OpensNameCwd' /\ KeptForItsRequest' /\ CwdIsItsOwn'
  BY <1>1, <1>2 DEF OpensNameCwd, KeptForItsRequest, CwdIsItsOwn
<1>7. \A m \in 1..Len(agentOut') : agentOut'[m].kind = "reply" =>
          m \in 1..Len(agentOut) /\ agentOut'[m] = agentOut[m]
  BY <1>3, <1>4
<1>8. AnswersTrue'
  <2> SUFFICES ASSUME NEW n \in 1..Len(agentOut'), agentOut'[n].kind = "reply"
               PROVE  /\ agentOut'[n].id \in 1..issued
                      /\ (agentOut'[n].id \in DOMAIN origin /\ origin[agentOut'[n].id].method = "new"
                            /\ agentOut'[n].result = "ok") =>
                               /\ agentOut'[n].chat \in Chats
                               /\ openedIn[agentOut'[n].chat] = origin[agentOut'[n].id].cwd
    BY <1>2 DEF AnswersTrue
  <2> QED BY <1>1, <1>7 DEF AnswersTrue
<1> QED BY <1>5, <1>6, <1>8 DEF CwdInv

LEMMA ObserveKeeps ==
    ASSUME CwdInv, ObserveFrame
    PROVE  CwdInv'
<1>1. CwdTypes /\ OpensNameCwd /\ KeptForItsRequest /\ AnswersTrue /\ CwdIsItsOwn
  BY DEF CwdInv
<1> DEFINE f == agentOut[1]
<1>2. /\ agentOut # <<>> /\ Head(agentOut) = f /\ agentOut' = Tail(agentOut)
      /\ UNCHANGED <<issued, origin, writing, atAgent, asks, openedIn>>
  BY <1>1 DEF ObserveFrame, requestVars, sideVars, CwdTypes, pastVars
<1>3. /\ 1 \in 1..Len(agentOut) /\ Len(agentOut) \in Nat /\ Len(agentOut') = Len(agentOut) - 1
      /\ \A m \in 1..Len(agentOut') : m + 1 \in 1..Len(agentOut) /\ agentOut'[m] = agentOut[m + 1]
      /\ agentOut' \in Seq(Frames)
  BY <1>1, <1>2 DEF CwdTypes
<1>4. AnswersTrue'
  BY <1>1, <1>2, <1>3 DEF AnswersTrue
<1>5. OpensNameCwd'
  BY <1>1, <1>2 DEF OpensNameCwd
<1>6. CASE f.kind = "reply" /\ Pending(f.id) /\ ObserveReply(f)
  <2>1. /\ f.id \in DOMAIN origin /\ pendingCwd' = Without(pendingCwd, f.id)
        /\ cwdOf' = IF f.id \in DOMAIN pendingCwd /\ origin[f.id].method = "new" /\ f.result = "ok"
                    THEN [cwdOf EXCEPT ![f.chat] = pendingCwd[f.id]] ELSE cwdOf
    BY <1>6 DEF ObserveReply, Pending, CwdKey
  <2>2. KeptForItsRequest'
    BY <1>1, <1>2, <2>1 DEF KeptForItsRequest, Without
  <2>3. DOMAIN cwdOf' = Chats
    BY <1>1, <2>1 DEF CwdTypes
  <2>4. CwdIsItsOwn'
    <3>1. CASE f.id \in DOMAIN pendingCwd /\ origin[f.id].method = "new" /\ f.result = "ok"
      <4>1. /\ f.chat \in Chats /\ openedIn[f.chat] = origin[f.id].cwd
            /\ pendingCwd[f.id] = origin[f.id].cwd
        BY <1>1, <1>3, <1>6, <2>1, <3>1 DEF AnswersTrue, KeptForItsRequest
      <4>2. cwdOf' = [cwdOf EXCEPT ![f.chat] = openedIn[f.chat]]
        BY <2>1, <3>1, <4>1
      <4> QED BY <1>1, <1>2, <4>2 DEF CwdIsItsOwn, CwdTypes
    <3>2. CASE cwdOf' = cwdOf
      BY <1>1, <1>2, <3>2 DEF CwdIsItsOwn
    <3> QED BY <2>1, <3>1, <3>2
  <2>5. CwdTypes'
    BY <1>1, <1>2, <1>3, <2>3 DEF CwdTypes
  <2> QED BY <1>4, <1>5, <2>2, <2>4, <2>5 DEF CwdInv
<1>7. CASE UNCHANGED acpVars
  BY <1>1, <1>2, <1>3, <1>4, <1>5, <1>7 DEF CwdInv, CwdTypes, KeptForItsRequest, CwdIsItsOwn, acpVars
<1> QED BY <1>2, <1>6, <1>7 DEF ObserveFrame

LEMMA CwdStep ==
    ASSUME CwdInv, [AskNext]_askVars
    PROVE  CwdInv'
<1>1. /\ CwdTypes /\ writing \subseteq 1..issued /\ atAgent \subseteq 1..issued
      /\ DOMAIN origin \subseteq 1..issued
  BY DEF CwdInv, CwdTypes
<1>2. ASSUME NEW g \in Connections, NEW cwd \in Cwds, SessionNew(g, cwd)
      PROVE  CwdInv'
  BY <1>2, RegisterKeeps DEF SessionNew
<1>3. ASSUME NEW g \in Connections, NEW c \in Chats, SessionLoad(g, c) \/ Prompt(g, c)
      PROVE  CwdInv'
  BY <1>3, RegisterKeeps DEF SessionLoad, Prompt
<1>4. ASSUME NEW g \in Connections, Initialize(g)
      PROVE  CwdInv'
  BY <1>4, RegisterKeeps DEF Initialize
<1>5. ASSUME NEW n \in 1 .. MaxIds, NEW r \in {"ok", "error", "already"}, NEW c \in Chats \cup {Nowhere},
             AgentAnswers(n, r, c)
      PROVE  CwdInv'
  BY <1>5, AnswerKeeps
<1>6. ASSUME NEW n \in 1 .. MaxIds, NEW b \in BOOLEAN, Ask(n, b)
      PROVE  CwdInv'
  BY <1>6, AskKeeps
<1>7. ASSUME ObserveFrame PROVE CwdInv'
  BY <1>7, ObserveKeeps
<1>8. ASSUME NEW n \in 1 .. MaxIds, RequestLands(n) \/ RequestFails(n)
      PROVE  CwdInv'
  <2>1. /\ UNCHANGED <<issued, cwdOf, openedIn, pendingCwd, agentOut, asks>>
        /\ writing' \subseteq 1..issued /\ atAgent' \subseteq 1..issued
        /\ origin' = origin \/ origin' = Without(origin, n)
    BY <1>1, <1>8 DEF RequestLands, RequestFails, acpVars, sideVars, pipe, pastVars
  <2>2. DOMAIN origin' \subseteq DOMAIN origin /\ \A j \in DOMAIN origin' : origin'[j] = origin[j]
    BY <2>1 DEF Without
  <2> QED BY <2>1, <2>2, CwdStays
<1>9. ASSUME ForwardReply PROVE CwdInv'
  <2>1. /\ UNCHANGED <<issued, cwdOf, openedIn, pendingCwd, agentOut, asks, writing, atAgent>>
        /\ origin' = origin \/ origin' = Without(origin, inHand.id)
    BY <1>9 DEF ForwardReply, acpVars, sideVars, pastVars
  <2>2. DOMAIN origin' \subseteq DOMAIN origin /\ \A j \in DOMAIN origin' : origin'[j] = origin[j]
    BY <2>1 DEF Without
  <2> QED BY <1>1, <2>1, <2>2, CwdStays
<1>10. ASSUME \/ ClientAttach \/ ClientBind \/ ForwardAsk \/ UNCHANGED askVars
              \/ \E g \in Connections : \/ HangUp(g) \/ (\E c \in Chats : CatchUp(g, c))
                                        \/ \E k \in Asks : Answer(g, k)
       PROVE  CwdInv'
  <2>1. UNCHANGED <<issued, cwdOf, openedIn, pendingCwd, agentOut, asks, writing, atAgent, origin>>
    BY <1>10 DEF ClientAttach, ClientBind, ForwardAsk, HangUp, CatchUp, Answer, askVars, requestVars,
                 acpVars, sideVars, pipe, pastVars
  <2> QED BY <1>1, <2>1, CwdStays
<1> QED BY <1>2, <1>3, <1>4, <1>5, <1>6, <1>7, <1>8, <1>9, <1>10 DEF AskNext

LEMMA CwdAlways == AskSpec => []CwdInv
<1>1. ASSUME AskInit
      PROVE  CwdInv
  BY <1>1 DEF AskInit, CwdInv, CwdTypes, OpensNameCwd, KeptForItsRequest, AnswersTrue, CwdIsItsOwn
<1> QED BY <1>1, CwdStep, PTL DEF AskSpec

\* The directory of a chat is the one it was opened in, however many clients
\* open chats at once and however their answers cross (bindPendingCwd).
THEOREM CwdsStayApart == AskSpec => []CwdIsItsOwn
<1>1. CwdInv => CwdIsItsOwn
  BY DEF CwdInv
<1> QED BY <1>1, CwdAlways, PTL

-----------------------------------------------------------------------------
(* Requests of the agent.                                                  *)

\* A request of the agent is on its way to the client, and the answer to a
\* client's request is.
Asking(f, k) == f # NoFrame /\ f.kind = "ask" /\ f.key = k
Replying(f, i) == f # NoFrame /\ f.kind = "reply" /\ f.id = i
InPipe(k) == Asking(inHand, k) \/ \E n \in 1..Len(agentOut) : Asking(agentOut[n], k)
Answered(i) == Replying(inHand, i) \/ \E n \in 1..Len(agentOut) : Replying(agentOut[n], i)

AskTypes ==
    /\ current \in 0..MaxClients /\ joined \in 0..current
    /\ attached => joined = current /\ current \in Connections
    /\ Len(asks) <= MaxAsks /\ waits \subseteq 1..Len(asks)
    /\ inHand = NoFrame \/ inHand \in Frames
    /\ sends \in [Connections -> [Asks -> Nat]]
    /\ \A k : InPipe(k) => k \in 1..Len(asks)

\* What is remembered of a request.
RecordsAreTrue ==
    \A r \in open :
        /\ r = [key |-> r.key, chat |-> r.chat, attention |-> r.attention, gen |-> r.gen]
        /\ r.key \in 1..Len(asks) /\ r.gen \in 0..current
        /\ r.attention \in {asks[r.key].chat, Nowhere}
        /\ r.chat = IF asks[r.key].byRequest THEN Nowhere ELSE asks[r.key].chat

\* The pipe holds a request once, before anything else is known of it.
PipeIsFirst ==
    /\ \A k : \A m, n \in 1..Len(agentOut) : Asking(agentOut[m], k) /\ Asking(agentOut[n], k) => m = n
    /\ \A k : \A n \in 1..Len(agentOut) : ~(Asking(inHand, k) /\ Asking(agentOut[n], k))
    /\ \A k : InPipe(k) => \A r \in open : r.key # k
    /\ \A k \in Asks : InPipe(k) \/ k > Len(asks) => \A g \in Connections : sends[g][k] = 0

\* What was queued to a connection is marked with it.
SendsAreMarked ==
    /\ \A q, r \in open : q.key = r.key => q = r
    /\ \A r \in open : r.gen # Nobody => sends[r.gen][r.key] = 1
    /\ \A r \in open : current \in Connections /\ sends[current][r.key] # 0 => r.gen = current
    /\ \A g \in Connections, k \in Asks : g > current => sends[g][k] = 0

RestoredAreSent ==
    /\ \A g, c : <<g, c>> \in restored => g \in 0..joined
    /\ attached => \A r \in open : <<current, r.chat>> \in restored => r.gen = current

PromptsNameChats == \A i \in DOMAIN origin : origin[i].method = "prompt" => origin[i].chat \in Chats

\* An answer is given once, and nobody waits for a prompt that was answered.
AnswersAreLast ==
    /\ atAgent \cap writing = {}
    /\ \A i : Answered(i) => i \in 1..issued /\ i \notin atAgent /\ i \notin writing
    /\ \A i : Answered(i) => \A k \in waits : asks[k].turn # i

WaitersAreKnown ==
    \A k \in waits :
        asks[k].byRequest \/ InPipe(k) \/ k \in pushedOut \cup overtaken \/ \E r \in open : r.key = k

AskInv ==
    /\ AskTypes /\ RecordsAreTrue /\ AskedOncePerConnection /\ PipeIsFirst /\ SendsAreMarked
    /\ RestoredAreSent /\ PromptsNameChats /\ AnswersAreLast /\ WaitersAreKnown

LEMMA FramesAreFrames ==
    ASSUME NEW f \in Frames
    PROVE  /\ f # NoFrame
           /\ f.kind = "ask" => f.key \in Nat
           /\ f.kind = "reply" => f.id \in Nat
           /\ f.kind \in {"ask", "reply"}
<1>1. CASE f \in [kind : {"ask"}, key : Nat]
  <2>1. PICK k \in Nat : f = [kind |-> "ask", key |-> k]
    BY <1>1
  <2> QED BY <2>1 DEF NoFrame
<1>2. CASE f \in [kind : {"reply"}, id : Nat, result : {"ok", "error", "already"}, chat : Chats \cup {Nowhere}]
  <2>1. PICK i \in Nat, r \in {"ok", "error", "already"}, c \in Chats \cup {Nowhere} :
           f = [kind |-> "reply", id |-> i, result |-> r, chat |-> c]
    BY <1>2
  <2> QED BY <2>1 DEF NoFrame
<1> QED BY <1>1, <1>2 DEF Frames

\* A connection comes or goes.
LEMMA LinkKeeps ==
    ASSUME CwdInv, AskInv, ClientAttach \/ ClientBind \/ (\E g \in Connections : HangUp(g))
    PROVE  AskInv'
<1>1. /\ UNCHANGED <<asks, waits, inHand, agentOut, sends, open, restored, origin, atAgent, writing, issued,
                     pushedOut, overtaken>>
      /\ \A k : InPipe(k)' <=> InPipe(k)
      /\ \A i : Answered(i)' <=> Answered(i)
  <2>1. UNCHANGED <<asks, waits, inHand, agentOut, sends, open, restored, origin, atAgent, writing, issued,
                    pushedOut, overtaken>>
    BY DEF ClientAttach, ClientBind, HangUp, requestVars, sideVars, seenVars, pipe, pastVars
  <2> QED BY <2>1 DEF InPipe, Answered
<1>2. /\ AskTypes /\ RecordsAreTrue /\ AskedOncePerConnection /\ PipeIsFirst /\ SendsAreMarked
      /\ RestoredAreSent /\ PromptsNameChats /\ AnswersAreLast /\ WaitersAreKnown
  BY DEF AskInv
<1>3. AskedOncePerConnection' /\ PipeIsFirst' /\ PromptsNameChats' /\ AnswersAreLast' /\ WaitersAreKnown'
  BY <1>1, <1>2 DEF AskedOncePerConnection, PipeIsFirst, PromptsNameChats, AnswersAreLast, WaitersAreKnown
<1>4. /\ current' \in 0..MaxClients /\ joined' \in 0..current' /\ current <= current' /\ joined <= joined'
      /\ attached' => joined' = current' /\ current' \in Connections
  <2>1. CASE ClientAttach
    BY <1>2, <2>1, AskConstants DEF AskTypes, ClientAttach, Connections
  <2>2. CASE ClientBind
    BY <1>2, <2>2, AskConstants DEF AskTypes, ClientBind, Connections
  <2>3. ASSUME NEW g \in Connections, HangUp(g)
        PROVE  UNCHANGED <<current, joined>> /\ (attached' => attached)
    BY <2>3 DEF HangUp
  <2> QED BY <1>2, <2>1, <2>2, <2>3, AskConstants DEF AskTypes
<1>5. AskTypes' /\ RecordsAreTrue'
  BY <1>1, <1>2, <1>4, AskConstants DEF AskTypes, RecordsAreTrue
<1>6. SendsAreMarked'
  <2>1. CASE current' = current
    BY <1>1, <1>2, <2>1 DEF SendsAreMarked
  <2>2. CASE current' = current + 1
    <3>1. \A r \in open : current' \in Connections => sends[current'][r.key] = 0
      BY <1>2, <2>2, AskConstants DEF SendsAreMarked, RecordsAreTrue, AskTypes, Asks, Connections
    <3>2. \A g \in Connections : g > current' => g > current
      BY <1>2, <2>2 DEF AskTypes, Connections
    <3> QED BY <1>1, <1>2, <3>1, <3>2 DEF SendsAreMarked
  <2> QED BY <2>1, <2>2 DEF ClientAttach, ClientBind, HangUp
<1>7. RestoredAreSent'
  <2>1. \A g, c : <<g, c>> \in restored => g \in 0..joined'
    BY <1>1, <1>2, <1>4 DEF RestoredAreSent, ClientAttach, ClientBind, HangUp, AskTypes
  <2>2. attached' => (attached /\ UNCHANGED <<current, joined>>) \/ (joined < current /\ current' = current)
    BY DEF ClientAttach, ClientBind, HangUp
  <2> QED BY <1>1, <1>2, <2>1, <2>2 DEF RestoredAreSent, AskTypes
<1> QED BY <1>3, <1>5, <1>6, <1>7 DEF AskInv

\* A request of a client is registered, reaches the agent, or fails to.
LEMMA RequestMovesKeep ==
    ASSUME CwdInv, AskInv,
           UNCHANGED <<linkVars, asks, waits, seenVars, open, pipe, pushedOut, overtaken>>,
           AnswersAreLast', PromptsNameChats'
    PROVE  AskInv'
<1>1. /\ UNCHANGED <<current, attached, joined, asks, waits, inHand, agentOut, sends, open, restored, pushedOut, overtaken>>
      /\ \A k : InPipe(k)' <=> InPipe(k)
  BY DEF linkVars, seenVars, pipe, InPipe
<1>2. /\ AskTypes /\ RecordsAreTrue /\ AskedOncePerConnection /\ PipeIsFirst /\ SendsAreMarked
      /\ RestoredAreSent /\ WaitersAreKnown
  BY DEF AskInv
<1>3. AskTypes' /\ RecordsAreTrue' /\ AskedOncePerConnection'
  BY <1>1, <1>2 DEF AskTypes, RecordsAreTrue, AskedOncePerConnection
<1>4. PipeIsFirst' /\ SendsAreMarked'
  BY <1>1, <1>2 DEF PipeIsFirst, SendsAreMarked
<1>5. RestoredAreSent' /\ WaitersAreKnown'
  BY <1>1, <1>2 DEF RestoredAreSent, WaitersAreKnown
<1> QED BY <1>3, <1>4, <1>5 DEF AskInv

LEMMA RegisteredKeeps ==
    ASSUME CwdInv, AskInv, NEW g, NEW method, NEW chat, NEW cwd, Register(g, method, chat, cwd),
           method = "prompt" => chat \in Chats
    PROVE  AskInv'
<1> DEFINE i == issued + 1
           o == [gen |-> g, method |-> method, chat |-> chat, cwd |-> cwd]
<1>1. /\ issued' = i /\ writing' = writing \cup {i} /\ origin' = With(origin, i, o)
      /\ UNCHANGED <<linkVars, asks, waits, seenVars, open, pipe, pushedOut, overtaken, atAgent>>
  BY DEF Register, sideVars, pastVars
<1>2. /\ issued \in Nat /\ i \in Nat /\ i \notin 1..issued /\ 1..issued \subseteq 1..i /\ i \in 1..i
      /\ writing \subseteq 1..issued /\ atAgent \subseteq 1..issued /\ DOMAIN origin \subseteq 1..issued
  BY DEF CwdInv, CwdTypes
<1>3. PromptsNameChats /\ AnswersAreLast
  BY DEF AskInv
<1>4. /\ DOMAIN origin' = DOMAIN origin \cup {i} /\ i \notin DOMAIN origin
      /\ origin'[i] = o /\ \A j \in DOMAIN origin : origin'[j] = origin[j]
  BY <1>1, <1>2 DEF With
<1>5. \A j : Answered(j)' <=> Answered(j)
  BY <1>1 DEF pipe, Answered
<1>6. UNCHANGED asks /\ UNCHANGED waits /\ UNCHANGED atAgent
  BY <1>1
<1>7. o.method = method /\ o.chat = chat
  OBVIOUS
<1> HIDE DEF i, o
<1>8. PromptsNameChats'
  BY <1>3, <1>4, <1>7 DEF PromptsNameChats
<1>9. AnswersAreLast'
  <2>1. \A j : Answered(j) => j \in 1..issued /\ j # i /\ j \notin atAgent /\ j \notin writing
    BY <1>2, <1>3 DEF AnswersAreLast
  <2>2. (atAgent \cap writing)' = {}
    BY <1>1, <1>2, <1>3, <1>6 DEF AnswersAreLast
  <2>3. \A j : Answered(j)' => j \in 1..issued' /\ j \notin atAgent' /\ j \notin writing'
    BY <1>1, <1>2, <1>5, <1>6, <2>1
  <2>4. \A j : Answered(j)' => \A k \in waits' : asks'[k].turn # j
    BY <1>3, <1>5, <1>6 DEF AnswersAreLast
  <2> QED BY <2>2, <2>3, <2>4 DEF AnswersAreLast
<1> QED BY <1>1, <1>8, <1>9, RequestMovesKeep

LEMMA LandingKeeps ==
    ASSUME CwdInv, AskInv, NEW i, RequestLands(i) \/ RequestFails(i)
    PROVE  AskInv'
<1>1. /\ UNCHANGED <<linkVars, asks, waits, seenVars, open, pipe, pushedOut, overtaken, issued>>
      /\ i \in writing /\ writing' = writing \ {i}
      /\ atAgent' = atAgent \/ atAgent' = atAgent \cup {i}
      /\ origin' = origin \/ origin' = Without(origin, i)
  BY DEF RequestLands, RequestFails, sideVars, pastVars
<1>2. PromptsNameChats /\ AnswersAreLast
  BY DEF AskInv
<1>3. DOMAIN origin' \subseteq DOMAIN origin /\ \A j \in DOMAIN origin' : origin'[j] = origin[j]
  BY <1>1 DEF Without
<1>4. \A j : Answered(j)' <=> Answered(j)
  BY <1>1 DEF pipe, Answered
<1>5. UNCHANGED asks /\ UNCHANGED waits /\ UNCHANGED issued
  BY <1>1
<1>6. PromptsNameChats'
  BY <1>2, <1>3 DEF PromptsNameChats
<1>7. AnswersAreLast'
  BY <1>1, <1>2, <1>3, <1>4, <1>5 DEF AnswersAreLast
<1> QED BY <1>1, <1>6, <1>7, RequestMovesKeep

\* The agent asks.
LEMMA AskedKeeps ==
    ASSUME CwdInv, AskInv, NEW raiser, NEW b \in BOOLEAN, Ask(raiser, b)
    PROVE  AskInv'
<1> DEFINE k == Len(asks) + 1
           f == [kind |-> "ask", key |-> k]
           a == [turn |-> raiser, chat |-> origin[raiser].chat, byRequest |-> b]
<1>1. /\ raiser \in atAgent /\ raiser \in DOMAIN origin /\ Len(asks) < MaxAsks
      /\ asks' = Append(asks, a)
      /\ waits' = waits \cup {k} /\ agentOut' = Append(agentOut, f)
      /\ UNCHANGED <<current, attached, joined, inHand, sends, restored, open, pushedOut, overtaken, origin, writing,
                     issued, atAgent>>
  BY DEF Ask, Pending, linkVars, requestVars, seenVars, pastVars
<1>2. /\ AskTypes /\ RecordsAreTrue /\ AskedOncePerConnection /\ PipeIsFirst /\ SendsAreMarked
      /\ RestoredAreSent /\ PromptsNameChats /\ AnswersAreLast /\ WaitersAreKnown
  BY DEF AskInv
<1>3. /\ asks \in Seq(Asked) /\ agentOut \in Seq(Frames)
      /\ Len(asks) \in Nat /\ k \in Nat
  BY DEF CwdInv, CwdTypes
<1>4. Len(asks') = k /\ k \in 1..k /\ k \notin 1..Len(asks) /\ 1..Len(asks) \subseteq 1..k
      /\ k <= MaxAsks /\ k \in Asks /\ asks'[k].turn = raiser
      /\ \A j \in 1..Len(asks) : asks'[j] = asks[j]
  <2>1. a \in Asked
    BY <1>1 DEF CwdInv, CwdTypes, Asked
  <2>2. a.turn = raiser
    OBVIOUS
  <2> HIDE DEF a
  <2> QED BY <1>1, <1>3, <2>1, <2>2, AskConstants DEF Asks
<1>5. f \in Frames /\ f.kind = "ask" /\ f.key = k /\ f # NoFrame
  <2>1. f \in Frames
    BY <1>3 DEF Frames
  <2> QED BY <2>1, FramesAreFrames
<1> HIDE DEF f
<1>6. /\ Len(agentOut') = Len(agentOut) + 1 /\ Len(agentOut) \in Nat /\ agentOut'[Len(agentOut')] = f
      /\ \A m \in 1..Len(agentOut) : agentOut'[m] = agentOut[m]
  BY <1>1, <1>3, <1>5
<1>7. \A j : InPipe(j)' <=> InPipe(j) \/ j = k
  BY <1>1, <1>5, <1>6 DEF InPipe, Asking
<1>8. \A i : Answered(i)' <=> Answered(i)
  BY <1>1, <1>5, <1>6 DEF Answered, Replying
<1>9. ~InPipe(k) /\ \A r \in open : r.key # k
  BY <1>2, <1>4 DEF AskTypes, RecordsAreTrue
<1> HIDE DEF k
<1>10. AskTypes'
  <2>1. Len(asks') <= MaxAsks /\ waits' \subseteq 1..Len(asks')
    BY <1>1, <1>2, <1>4 DEF AskTypes
  <2>2. \A j : InPipe(j)' => j \in 1..Len(asks')
    BY <1>2, <1>4, <1>7 DEF AskTypes
  <2> QED BY <1>1, <1>2, <2>1, <2>2 DEF AskTypes
<1>11. RecordsAreTrue'
  BY <1>1, <1>2, <1>4 DEF RecordsAreTrue
<1>12. PipeIsFirst'
  <2>1. \A m, n \in 1..Len(agentOut') : \A j : Asking(agentOut'[m], j) /\ Asking(agentOut'[n], j) => m = n
    <3> SUFFICES ASSUME NEW m \in 1..Len(agentOut'), NEW n \in 1..Len(agentOut'), NEW j,
                        Asking(agentOut'[m], j), Asking(agentOut'[n], j), m # n
                 PROVE  FALSE
      OBVIOUS
    <3>1. CASE j = k
      <4>1. \A x \in 1..Len(agentOut) : ~Asking(agentOut[x], k)
        BY <1>9 DEF InPipe
      <4> QED BY <1>6, <3>1, <4>1
    <3>2. CASE j # k
      <4>1. m \in 1..Len(agentOut) /\ n \in 1..Len(agentOut)
        BY <1>5, <1>6, <3>2 DEF Asking
      <4> QED BY <1>2, <1>6, <4>1 DEF PipeIsFirst
    <3> QED BY <3>1, <3>2
  <2>2. \A j : \A n \in 1..Len(agentOut') : ~(Asking(inHand, j) /\ Asking(agentOut'[n], j))
    <3> SUFFICES ASSUME NEW j, NEW n \in 1..Len(agentOut'), Asking(inHand, j), Asking(agentOut'[n], j)
                 PROVE  FALSE
      OBVIOUS
    <3>1. j # k
      BY <1>9 DEF InPipe
    <3>2. n \in 1..Len(agentOut)
      BY <1>5, <1>6, <3>1 DEF Asking
    <3> QED BY <1>2, <1>6, <3>2 DEF PipeIsFirst
  <2>3. \A j : InPipe(j)' => \A r \in open : r.key # j
    BY <1>2, <1>7, <1>9 DEF PipeIsFirst
  <2>4. \A j \in Asks : InPipe(j)' \/ j > Len(asks') => \A g \in Connections : sends[g][j] = 0
    BY <1>2, <1>3, <1>4, <1>7 DEF PipeIsFirst, Asks, k
  <2> QED BY <1>1, <2>1, <2>2, <2>3, <2>4 DEF PipeIsFirst
<1>13. AskedOncePerConnection' /\ SendsAreMarked' /\ RestoredAreSent' /\ PromptsNameChats'
  BY <1>1, <1>2 DEF AskedOncePerConnection, SendsAreMarked, RestoredAreSent, PromptsNameChats
<1>14. AnswersAreLast'
  <2>1. ASSUME NEW i, Answered(i)
        PROVE  \A j \in waits' : asks'[j].turn # i
    <3>1. \A j \in waits : asks'[j].turn # i
      BY <1>2, <1>4, <2>1 DEF AnswersAreLast, AskTypes
    <3>2. raiser # i
      BY <1>1, <1>2, <2>1 DEF AnswersAreLast
    <3> QED BY <1>1, <1>4, <3>1, <3>2
  <2> QED BY <1>1, <1>2, <1>8, <2>1 DEF AnswersAreLast
<1>15. WaitersAreKnown'
  BY <1>1, <1>2, <1>4, <1>7 DEF WaitersAreKnown, AskTypes
<1> QED BY <1>10, <1>11, <1>12, <1>13, <1>14, <1>15 DEF AskInv

\* The agent answers: once, and whoever waited for the prompt does so no more.
LEMMA AnsweredKeeps ==
    ASSUME CwdInv, AskInv, NEW res \in {"ok", "error", "already"}, NEW chat \in Chats \cup {Nowhere}, NEW i,
           AgentAnswers(i, res, chat)
    PROVE  AskInv'
<1> DEFINE f == [kind |-> "reply", id |-> i, result |-> res, chat |-> chat]
<1>1. /\ i \in atAgent /\ atAgent' = atAgent \ {i} /\ agentOut' = Append(agentOut, f)
      /\ waits' = {k \in waits : asks[k].turn # i}
      /\ UNCHANGED <<current, attached, joined, inHand, sends, restored, open, pushedOut, overtaken, origin, writing,
                     issued, asks>>
  BY DEF AgentAnswers, linkVars, requestVars, seenVars, pastVars
<1>2. /\ AskTypes /\ RecordsAreTrue /\ AskedOncePerConnection /\ PipeIsFirst /\ SendsAreMarked
      /\ RestoredAreSent /\ PromptsNameChats /\ AnswersAreLast /\ WaitersAreKnown
  BY DEF AskInv
<1>3. agentOut \in Seq(Frames) /\ i \in Nat /\ i \in 1..issued
  <2>1. atAgent \subseteq 1..issued /\ issued \in Nat /\ agentOut \in Seq(Frames)
    BY DEF CwdInv, CwdTypes
  <2> QED BY <1>1, <2>1
<1>4. f \in Frames /\ f.kind = "reply" /\ f.id = i /\ f # NoFrame
  <2>1. f \in Frames
    BY <1>3 DEF Frames
  <2> QED BY <2>1, FramesAreFrames
<1> HIDE DEF f
<1>5. /\ Len(agentOut') = Len(agentOut) + 1 /\ Len(agentOut) \in Nat /\ agentOut'[Len(agentOut')] = f
      /\ \A m \in 1..Len(agentOut) : agentOut'[m] = agentOut[m]
  BY <1>1, <1>3, <1>4
<1>6. \A k : InPipe(k)' <=> InPipe(k)
  BY <1>1, <1>4, <1>5 DEF InPipe, Asking
<1>7. \A j : Answered(j)' <=> Answered(j) \/ j = i
  BY <1>1, <1>4, <1>5 DEF Answered, Replying
<1>8. waits' \subseteq waits
  BY <1>1
<1>9. AskTypes' /\ RecordsAreTrue' /\ WaitersAreKnown'
  BY <1>1, <1>2, <1>6, <1>8 DEF AskTypes, RecordsAreTrue, WaitersAreKnown
<1>10. PipeIsFirst'
  <2>1. \A n \in 1..Len(agentOut') : \A k : Asking(agentOut'[n], k) =>
            n \in 1..Len(agentOut) /\ Asking(agentOut[n], k)
    BY <1>4, <1>5 DEF Asking
  <2>2. \A m, n \in 1..Len(agentOut') : \A k : Asking(agentOut'[m], k) /\ Asking(agentOut'[n], k) => m = n
    BY <1>2, <2>1 DEF PipeIsFirst
  <2>3. \A k : \A n \in 1..Len(agentOut') : ~(Asking(inHand, k) /\ Asking(agentOut'[n], k))
    BY <1>2, <2>1 DEF PipeIsFirst
  <2> QED BY <1>1, <1>2, <1>6, <2>2, <2>3 DEF PipeIsFirst
<1>11. AskedOncePerConnection' /\ SendsAreMarked' /\ RestoredAreSent' /\ PromptsNameChats'
  BY <1>1, <1>2 DEF AskedOncePerConnection, SendsAreMarked, RestoredAreSent, PromptsNameChats
<1>12. AnswersAreLast'
  <2>1. (atAgent \cap writing)' = {} /\ \A j : Answered(j)' => j \in 1..issued /\ j \notin atAgent' /\ j \notin writing
    BY <1>1, <1>2, <1>3, <1>7 DEF AnswersAreLast
  <2>2. ASSUME NEW j, Answered(j)'
        PROVE  \A k \in waits' : asks[k].turn # j
    <3>1. CASE j = i
      BY <1>1, <2>2, <3>1
    <3>2. CASE j # i
      BY <1>2, <1>7, <1>8, <2>2, <3>2 DEF AnswersAreLast
    <3> QED BY <3>1, <3>2
  <2> QED BY <1>1, <2>1, <2>2 DEF AnswersAreLast
<1> QED BY <1>9, <1>10, <1>11, <1>12 DEF AskInv

\* The frame at hand was the head of the pipe.
LEMMA ObservedKeeps ==
    ASSUME CwdInv, AskInv, ObserveFrame
    PROVE  AskInv'
<1> DEFINE f == agentOut[1]
<1>1. agentOut \in Seq(Frames)
  BY DEF CwdInv, CwdTypes
<1>2. /\ agentOut # <<>> /\ inHand = NoFrame /\ inHand' = f /\ agentOut' = Tail(agentOut)
      /\ UNCHANGED <<current, attached, joined, sends, restored, open, pushedOut, overtaken, origin, writing,
                     issued, asks, waits, atAgent>>
  BY <1>1 DEF ObserveFrame, linkVars, requestVars, sideVars, seenVars, pastVars
<1>3. /\ 1 \in 1..Len(agentOut) /\ Len(agentOut) \in Nat /\ Len(agentOut') = Len(agentOut) - 1
      /\ \A m \in 1..Len(agentOut') : m + 1 \in 1..Len(agentOut) /\ agentOut'[m] = agentOut[m + 1]
      /\ \A m \in 1..Len(agentOut) : m # 1 => m - 1 \in 1..Len(agentOut') /\ agentOut'[m - 1] = agentOut[m]
      /\ f \in Frames
  BY <1>1, <1>2
<1> HIDE DEF f
<1>4. /\ AskTypes /\ RecordsAreTrue /\ AskedOncePerConnection /\ PipeIsFirst /\ SendsAreMarked
      /\ RestoredAreSent /\ PromptsNameChats /\ AnswersAreLast /\ WaitersAreKnown
  BY DEF AskInv
<1>5. \A k : InPipe(k)' <=> InPipe(k)
  <2>1. ASSUME NEW k, InPipe(k) PROVE InPipe(k)'
    <3>1. PICK n \in 1..Len(agentOut) : Asking(agentOut[n], k)
      BY <1>2, <2>1 DEF InPipe, Asking
    <3>2. CASE n = 1
      BY <1>2, <3>1, <3>2 DEF InPipe, f
    <3>3. CASE n # 1
      BY <1>3, <3>1, <3>3 DEF InPipe
    <3> QED BY <3>2, <3>3
  <2>2. ASSUME NEW k, InPipe(k)' PROVE InPipe(k)
    <3>1. CASE Asking(inHand', k)
      BY <1>2, <1>3, <3>1 DEF InPipe, f
    <3>2. CASE \E n \in 1..Len(agentOut') : Asking(agentOut'[n], k)
      BY <1>3, <3>2 DEF InPipe
    <3> QED BY <2>2, <3>1, <3>2 DEF InPipe
  <2> QED BY <2>1, <2>2
<1>6. \A i : Answered(i)' => Answered(i)
  <2> SUFFICES ASSUME NEW i, Answered(i)' PROVE Answered(i)
    OBVIOUS
  <2>1. CASE Replying(inHand', i)
    BY <1>2, <1>3, <2>1 DEF Answered, f
  <2>2. CASE \E n \in 1..Len(agentOut') : Replying(agentOut'[n], i)
    BY <1>3, <2>2 DEF Answered
  <2> QED BY <2>1, <2>2 DEF Answered
<1>7. AskTypes' /\ RecordsAreTrue' /\ WaitersAreKnown'
  BY <1>2, <1>3, <1>4, <1>5 DEF AskTypes, RecordsAreTrue, WaitersAreKnown
<1>8. AskedOncePerConnection' /\ SendsAreMarked' /\ RestoredAreSent' /\ PromptsNameChats'
  BY <1>2, <1>4 DEF AskedOncePerConnection, SendsAreMarked, RestoredAreSent, PromptsNameChats
<1>9. AnswersAreLast'
  BY <1>2, <1>4, <1>6 DEF AnswersAreLast
<1>10. PipeIsFirst'
  <2>1. \A m, n \in 1..Len(agentOut') : \A k : Asking(agentOut'[m], k) /\ Asking(agentOut'[n], k) => m = n
    <3> SUFFICES ASSUME NEW m \in 1..Len(agentOut'), NEW n \in 1..Len(agentOut'), NEW k,
                        Asking(agentOut'[m], k), Asking(agentOut'[n], k)
                 PROVE  m = n
      OBVIOUS
    <3>1. m + 1 = n + 1
      BY <1>3, <1>4 DEF PipeIsFirst
    <3> QED BY <3>1
  <2>2. \A k : \A n \in 1..Len(agentOut') : ~(Asking(inHand', k) /\ Asking(agentOut'[n], k))
    <3> SUFFICES ASSUME NEW k, NEW n \in 1..Len(agentOut'), Asking(inHand', k), Asking(agentOut'[n], k)
                 PROVE  FALSE
      OBVIOUS
    <3>1. Asking(agentOut[1], k) /\ Asking(agentOut[n + 1], k) /\ n + 1 \in 1..Len(agentOut)
      BY <1>2, <1>3 DEF f
    <3>2. n + 1 = 1
      BY <1>3, <1>4, <3>1 DEF PipeIsFirst
    <3> QED BY <3>2
  <2> QED BY <1>2, <1>4, <1>5, <2>1, <2>2 DEF PipeIsFirst
<1> QED BY <1>7, <1>8, <1>9, <1>10 DEF AskInv

\* The request at hand leaves the pipe: it is remembered, and what the cap pushes
\* out is known to be.
LEMMA ForwardedKeeps ==
    ASSUME CwdInv, AskInv, ForwardAsk
    PROVE  AskInv'
<1> DEFINE k == inHand.key
           r0 == [key |-> k, chat |-> IF asks[k].byRequest THEN Nowhere ELSE asks[k].chat,
                  attention |-> AttentionChat(k), gen |-> DeliveredGen]
<1>1. /\ inHand # NoFrame /\ inHand.kind = "ask" /\ inHand' = NoFrame
      /\ open' \subseteq open \cup {r0} /\ r0 \in open'
      /\ pushedOut' = pushedOut \cup (Keys(open) \ Keys(open'))
      /\ sends' = IF attached THEN [sends EXCEPT ![current][k] = @ + 1] ELSE sends
      /\ UNCHANGED <<current, attached, joined, restored, agentOut, origin, writing, issued, asks, waits,
                     atAgent, overtaken>>
  BY DEF ForwardAsk, Tracked, Dropped, linkVars, requestVars, sideVars, pastVars
<1>2. /\ AskTypes /\ RecordsAreTrue /\ AskedOncePerConnection /\ PipeIsFirst /\ SendsAreMarked
      /\ RestoredAreSent /\ PromptsNameChats /\ AnswersAreLast /\ WaitersAreKnown
  BY DEF AskInv
<1>3. InPipe(k) /\ k \in 1..Len(asks) /\ k \in Asks
  <2>1. InPipe(k)
    BY <1>1 DEF InPipe, Asking
  <2>2. k \in 1..Len(asks) /\ asks \in Seq(Asked)
    BY <1>2, <2>1 DEF AskTypes, CwdInv, CwdTypes
  <2> QED BY <1>2, <2>1, <2>2, AskConstants DEF AskTypes, Asks
<1>4. \A r \in open : r.key # k
  BY <1>2, <1>3 DEF PipeIsFirst
<1>5. \A g \in Connections : sends[g][k] = 0
  BY <1>2, <1>3 DEF PipeIsFirst
<1>6. \A j : InPipe(j)' <=> InPipe(j) /\ j # k
  <2>1. \A j : InPipe(j)' <=> \E n \in 1..Len(agentOut) : Asking(agentOut[n], j)
    BY <1>1 DEF InPipe, Asking
  <2>2. \A n \in 1..Len(agentOut) : ~Asking(agentOut[n], k)
    BY <1>1, <1>2 DEF PipeIsFirst, Asking
  <2>3. \A j : Asking(inHand, j) <=> j = k
    BY <1>1 DEF Asking
  <2> QED BY <2>1, <2>2, <2>3 DEF InPipe
<1>7. \A i : Answered(i)' => Answered(i)
  BY <1>1 DEF Answered, Replying
<1>8. /\ r0.key = k /\ r0.chat = (IF asks[k].byRequest THEN Nowhere ELSE asks[k].chat)
      /\ r0.attention \in {asks[k].chat, Nowhere} /\ r0.gen = (IF attached THEN current ELSE 0)
      /\ r0 = [key |-> r0.key, chat |-> r0.chat, attention |-> r0.attention, gen |-> r0.gen]
  BY DEF AttentionChat, DeliveredGen, Nobody
<1> HIDE DEF r0, k
<1>9. sends' \in [Connections -> [Asks -> Nat]] /\ \A g \in Connections, j \in Asks :
          sends'[g][j] = IF attached /\ g = current /\ j = k THEN 1 ELSE sends[g][j]
  <2>1. sends \in [Connections -> [Asks -> Nat]]
    BY <1>2 DEF AskTypes
  <2>2. CASE attached
    <3>1. current \in Connections /\ sends' = [sends EXCEPT ![current][k] = sends[current][k] + 1]
      BY <1>1, <1>2, <2>2 DEF AskTypes
    <3> QED BY <1>3, <1>5, <2>1, <2>2, <3>1
  <2> QED BY <1>1, <2>1, <2>2
<1>10. AskTypes'
  BY <1>1, <1>2, <1>6, <1>9 DEF AskTypes
<1>11. RecordsAreTrue'
  <2>1. r0.gen \in 0..current
    BY <1>2, <1>8 DEF AskTypes
  <2> QED BY <1>1, <1>2, <1>3, <1>8, <2>1 DEF RecordsAreTrue
<1>12. AskedOncePerConnection'
  BY <1>2, <1>9 DEF AskedOncePerConnection
<1>13. PipeIsFirst'
  <2>1. \A j : InPipe(j)' => \A r \in open' : r.key # j
    BY <1>1, <1>2, <1>6, <1>8 DEF PipeIsFirst
  <2>2. \A j \in Asks : InPipe(j)' \/ j > Len(asks) => \A g \in Connections : sends'[g][j] = 0
    <3> SUFFICES ASSUME NEW j \in Asks, InPipe(j)' \/ j > Len(asks), NEW g \in Connections
                 PROVE  sends'[g][j] = 0
      OBVIOUS
    <3>1. j # k
      <4>1. Len(asks) \in Nat
        BY DEF CwdInv, CwdTypes
      <4> QED BY <1>3, <1>6, <4>1 DEF Asks
    <3> QED BY <1>2, <1>6, <1>9, <3>1 DEF PipeIsFirst
  <2>3. \A j : \A n \in 1..Len(agentOut) : ~(Asking(inHand', j) /\ Asking(agentOut[n], j))
    BY <1>1 DEF Asking
  <2> QED BY <1>1, <1>2, <2>1, <2>2, <2>3 DEF PipeIsFirst
<1>14. SendsAreMarked'
  <2>1. \A r \in open' : r = r0 \/ (r \in open /\ r.key # k /\ r.key \in Asks /\ r.gen \in 0..current)
    <3>1. \A r \in open : r.key \in 1..Len(asks) /\ r.gen \in 0..current
      BY <1>2 DEF RecordsAreTrue
    <3>2. Len(asks) \in Nat /\ Len(asks) <= MaxAsks
      BY <1>2 DEF AskTypes, CwdInv, CwdTypes
    <3> QED BY <1>1, <1>4, <3>1, <3>2, AskConstants DEF Asks
  <2>2. \A q, r \in open' : q.key = r.key => q = r
    BY <1>2, <1>8, <2>1 DEF SendsAreMarked
  <2>3. current \in 0..MaxClients /\ (attached => current \in Connections)
    BY <1>2 DEF AskTypes
  <2>4. \A r \in open' : r.gen # Nobody => sends'[r.gen][r.key] = 1
    <3> SUFFICES ASSUME NEW r \in open', r.gen # Nobody PROVE sends'[r.gen][r.key] = 1
      OBVIOUS
    <3>1. CASE r = r0
      BY <1>3, <1>8, <1>9, <2>3, <3>1 DEF Nobody
    <3>2. CASE r # r0
      <4>1. r.gen \in Connections
        BY <2>1, <2>3, <3>2, AskConstants DEF Nobody, Connections
      <4> QED BY <1>2, <1>9, <2>1, <3>2, <4>1 DEF SendsAreMarked
    <3> QED BY <3>1, <3>2
  <2>5. \A r \in open' : current \in Connections /\ sends'[current][r.key] # 0 => r.gen = current
    <3> SUFFICES ASSUME NEW r \in open', current \in Connections, sends'[current][r.key] # 0
                 PROVE  r.gen = current
      OBVIOUS
    <3>1. CASE r = r0
      BY <1>3, <1>5, <1>8, <1>9, <3>1
    <3>2. CASE r # r0
      BY <1>2, <1>9, <2>1, <3>2 DEF SendsAreMarked
    <3> QED BY <3>1, <3>2
  <2>6. \A g \in Connections, j \in Asks : g > current => sends'[g][j] = 0
    BY <1>2, <1>9, <2>3 DEF SendsAreMarked, Connections
  <2> QED BY <1>1, <2>2, <2>4, <2>5, <2>6 DEF SendsAreMarked
<1>15. RestoredAreSent'
  BY <1>1, <1>2, <1>8 DEF RestoredAreSent
<1>16. PromptsNameChats' /\ AnswersAreLast'
  BY <1>1, <1>2, <1>7 DEF PromptsNameChats, AnswersAreLast
<1>17. WaitersAreKnown'
  <2> SUFFICES ASSUME NEW j \in waits
               PROVE  \/ asks[j].byRequest \/ InPipe(j)' \/ j \in pushedOut' \cup overtaken'
                      \/ \E r \in open' : r.key = j
    BY <1>1 DEF WaitersAreKnown
  <2>1. CASE j = k
    BY <1>1, <1>8, <2>1
  <2>2. CASE j # k /\ ~\E r \in open : r.key = j
    BY <1>1, <1>2, <1>6, <2>2 DEF WaitersAreKnown
  <2>3. CASE \E r \in open : r.key = j
    BY <1>1, <2>3 DEF Keys
  <2> QED BY <2>1, <2>2, <2>3
<1> QED BY <1>10, <1>11, <1>12, <1>13, <1>14, <1>15, <1>16, <1>17 DEF AskInv

\* Some requests are forgotten, which nobody waits on or an answer has overtaken.
LEMMA ForgettingKeeps ==
    ASSUME CwdInv, AskInv, UNCHANGED <<linkVars, asks, seenVars, agentOut, pushedOut>>,
           overtaken \subseteq overtaken',
           inHand' = inHand \/ (inHand' = NoFrame /\ inHand.kind = "reply"),
           open' \subseteq open, waits' \subseteq waits,
           \A r \in open : r \in open' \/ r.key \notin waits' \/ r.key \in overtaken',
           AnswersAreLast', PromptsNameChats'
    PROVE  AskInv'
<1>1. /\ UNCHANGED <<current, attached, joined, asks, agentOut, sends, restored, pushedOut>>
      /\ \A k : InPipe(k)' <=> InPipe(k)
      /\ \A k : Asking(inHand', k) <=> Asking(inHand, k)
  BY DEF linkVars, seenVars, InPipe, Asking
<1>2. /\ AskTypes /\ RecordsAreTrue /\ AskedOncePerConnection /\ PipeIsFirst /\ SendsAreMarked
      /\ RestoredAreSent /\ WaitersAreKnown
  BY DEF AskInv
<1>3. AskTypes' /\ RecordsAreTrue' /\ AskedOncePerConnection'
  BY <1>1, <1>2 DEF AskTypes, RecordsAreTrue, AskedOncePerConnection
<1>4. PipeIsFirst' /\ SendsAreMarked'
  BY <1>1, <1>2 DEF PipeIsFirst, SendsAreMarked
<1>5. RestoredAreSent' /\ WaitersAreKnown'
  BY <1>1, <1>2 DEF RestoredAreSent, WaitersAreKnown
<1> QED BY <1>3, <1>4, <1>5 DEF AskInv

\* The open requests of a chat are sent to the connection that has it restored.
LEMMA RestoringKeeps ==
    ASSUME CwdInv, AskInv, UNCHANGED <<linkVars, asks, agentOut, pushedOut, overtaken, waits>>, attached,
           inHand' = inHand \/ (inHand' = NoFrame /\ inHand.kind = "reply"),
           NEW chat, RestoreChat(chat, open), AnswersAreLast', PromptsNameChats'
    PROVE  AskInv'
<1> DEFINE due == {r \in open : Due(r, current, chat)}
           sent(r) == [r EXCEPT !.gen = current]
<1>1. /\ UNCHANGED <<current, attached, joined, asks, agentOut, pushedOut, overtaken, waits>>
      /\ open' = (open \ due) \cup {sent(r) : r \in due}
      /\ sends' = [sends EXCEPT ![current] =
                     [k \in Asks |-> IF k \in Keys(due) THEN sends[current][k] + 1 ELSE sends[current][k]]]
      /\ restored' = restored \cup {<<current, chat>>}
  BY DEF linkVars, RestoreChat
<1>2. /\ AskTypes /\ RecordsAreTrue /\ AskedOncePerConnection /\ PipeIsFirst /\ SendsAreMarked
      /\ RestoredAreSent /\ WaitersAreKnown
  BY DEF AskInv
<1>3. /\ \A k : InPipe(k)' <=> InPipe(k)
      /\ \A k : Asking(inHand', k) <=> Asking(inHand, k)
  BY <1>1 DEF InPipe, Asking
<1>4. current \in Connections /\ current \in 0..MaxClients /\ Len(asks) \in Nat /\ Len(asks) <= MaxAsks
      /\ joined = current
  BY <1>2 DEF AskTypes, CwdInv, CwdTypes
<1>5. ASSUME NEW r \in open
      PROVE  /\ sent(r) = [key |-> r.key, chat |-> r.chat, attention |-> r.attention, gen |-> current]
             /\ sent(r).key = r.key /\ sent(r).chat = r.chat /\ sent(r).attention = r.attention
             /\ sent(r).gen = current /\ r.key \in Asks
  <2>1. r = [key |-> r.key, chat |-> r.chat, attention |-> r.attention, gen |-> r.gen] /\ r.key \in 1..Len(asks)
    BY <1>2 DEF RecordsAreTrue
  <2>2. PICK k, c, a, g : r = [key |-> k, chat |-> c, attention |-> a, gen |-> g]
    BY <2>1
  <2>3. r.key = k /\ r.chat = c /\ r.attention = a
    BY <2>2
  <2>4. sent(r) = [key |-> k, chat |-> c, attention |-> a, gen |-> current]
    BY <2>2
  <2>5. r.key \in Asks
    BY <2>1, <1>4, AskConstants DEF Asks
  <2> QED BY <2>3, <2>4, <2>5
<1>6. \A r \in due : r \in open /\ r.chat = chat /\ r.gen # current
  BY DEF Due
<1>7. \A r \in open : r \in due <=> r.chat = chat /\ r.gen # current
  BY DEF Due
<1> HIDE DEF sent, due
\* Every new record stands for an old one.
<1>8. ASSUME NEW q \in open'
      PROVE  \E r \in open : /\ q.key = r.key /\ q.chat = r.chat /\ q.attention = r.attention
                             /\ (r \in due /\ q.gen = current /\ q = sent(r)) \/ (r \notin due /\ q = r)
  BY <1>1, <1>5, <1>6
<1>9. sends' \in [Connections -> [Asks -> Nat]] /\ \A g \in Connections, k \in Asks :
          sends'[g][k] = IF g = current /\ k \in Keys(due) THEN sends[g][k] + 1 ELSE sends[g][k]
  <2>1. sends \in [Connections -> [Asks -> Nat]]
    BY <1>2 DEF AskTypes
  <2> QED BY <1>1, <1>4, <2>1
<1>10. \A k \in Asks : k \in Keys(due) => sends[current][k] = 0
  <2> SUFFICES ASSUME NEW k \in Asks, NEW r \in due, r.key = k PROVE sends[current][k] = 0
    BY DEF Keys
  <2> QED BY <1>2, <1>4, <1>6 DEF SendsAreMarked
<1>11. AskTypes'
  BY <1>1, <1>2, <1>3, <1>9 DEF AskTypes
<1>12. RecordsAreTrue'
  <2> SUFFICES ASSUME NEW q \in open'
               PROVE  /\ q = [key |-> q.key, chat |-> q.chat, attention |-> q.attention, gen |-> q.gen]
                      /\ q.key \in 1..Len(asks) /\ q.gen \in 0..current
                      /\ q.attention \in {asks[q.key].chat, Nowhere}
                      /\ q.chat = IF asks[q.key].byRequest THEN Nowhere ELSE asks[q.key].chat
    BY <1>1 DEF RecordsAreTrue
  <2>1. PICK r \in open : /\ q.key = r.key /\ q.chat = r.chat /\ q.attention = r.attention
                          /\ (r \in due /\ q.gen = current /\ q = sent(r)) \/ (r \notin due /\ q = r)
    BY <1>8
  <2>2. current \in 0..current
    BY <1>4
  <2> QED BY <1>2, <1>5, <2>1, <2>2 DEF RecordsAreTrue
<1>13. AskedOncePerConnection'
  BY <1>2, <1>9, <1>10 DEF AskedOncePerConnection
<1>14. PipeIsFirst'
  <2>1. \A k : InPipe(k)' => \A q \in open' : q.key # k
    BY <1>2, <1>3, <1>8 DEF PipeIsFirst
  <2>2. \A k \in Asks : InPipe(k)' \/ k > Len(asks) => \A g \in Connections : sends'[g][k] = 0
    <3> SUFFICES ASSUME NEW k \in Asks, InPipe(k) \/ k > Len(asks), NEW g \in Connections
                 PROVE  sends'[g][k] = 0
      BY <1>3
    <3>1. k \notin Keys(due)
      <4>1. \A r \in open : r.key # k
        BY <1>2, <1>4 DEF PipeIsFirst, RecordsAreTrue, Asks
      <4> QED BY <1>6, <4>1 DEF Keys
    <3> QED BY <1>2, <1>9, <3>1 DEF PipeIsFirst
  <2> QED BY <1>1, <1>2, <1>3, <2>1, <2>2 DEF PipeIsFirst
<1>15. SendsAreMarked'
  <2>1. \A p, q \in open' : p.key = q.key => p = q
    <3> SUFFICES ASSUME NEW p \in open', NEW q \in open', p.key = q.key PROVE p = q
      OBVIOUS
    <3>1. PICK r \in open : p.key = r.key /\ ((r \in due /\ p = sent(r)) \/ (r \notin due /\ p = r))
      BY <1>8
    <3>2. PICK s \in open : q.key = s.key /\ ((s \in due /\ q = sent(s)) \/ (s \notin due /\ q = s))
      BY <1>8
    <3>3. r.key = s.key
      BY <3>1, <3>2, <1>5
    <3>4. r = s
      BY <1>2, <3>3 DEF SendsAreMarked
    <3> QED BY <3>1, <3>2, <3>4
  <2>2. ASSUME NEW q \in open'
        PROVE  /\ q.gen # Nobody => sends'[q.gen][q.key] = 1
               /\ sends'[current][q.key] # 0 => q.gen = current
    <3>1. PICK r \in open : /\ q.key = r.key
                            /\ (r \in due /\ q.gen = current /\ q = sent(r)) \/ (r \notin due /\ q = r)
      BY <1>8
    <3>2. q.key \in Asks
      BY <1>5, <3>1
    <3>3. CASE r \in due
      <4>1. q.key \in Keys(due) /\ q.gen = current
        BY <3>1, <3>3 DEF Keys
      <4> QED BY <1>4, <1>9, <1>10, <3>2, <4>1
    <3>4. CASE r \notin due
      <4>1. q = r /\ q \in open
        BY <3>1, <3>4
      <4>2. q.key \notin Keys(due)
        <5> SUFFICES ASSUME NEW s \in due, s.key = q.key PROVE FALSE
          BY DEF Keys
        <5>1. s = r
          BY <1>2, <1>6, <4>1 DEF SendsAreMarked
        <5> QED BY <3>4, <5>1
      <4>3. \A g \in Connections : sends'[g][q.key] = sends[g][q.key]
        BY <1>9, <3>2, <4>2
      <4>4. q.gen # Nobody => q.gen \in Connections
        <5>1. q.gen \in 0..current
          BY <1>2, <4>1 DEF RecordsAreTrue
        <5> QED BY <1>4, <5>1, AskConstants DEF Connections, Nobody
      <4> QED BY <1>2, <1>4, <4>1, <4>3, <4>4 DEF SendsAreMarked
    <3> QED BY <3>3, <3>4
  <2>3. \A g \in Connections, k \in Asks : g > current => sends'[g][k] = 0
    BY <1>2, <1>4, <1>9 DEF SendsAreMarked, Connections
  <2> QED BY <1>1, <2>1, <2>2, <2>3 DEF SendsAreMarked
<1>16. RestoredAreSent'
  <2>1. \A g, c : <<g, c>> \in restored' => g \in 0..joined
    BY <1>1, <1>2, <1>4 DEF RestoredAreSent
  <2>2. ASSUME NEW q \in open', <<current, q.chat>> \in restored' PROVE q.gen = current
    <3>1. PICK r \in open : /\ q.chat = r.chat
                            /\ (r \in due /\ q.gen = current) \/ (r \notin due /\ q = r)
      BY <1>8
    <3>2. CASE r.chat = chat
      BY <1>7, <3>1, <3>2
    <3>3. CASE r.chat # chat
      <4>1. <<current, r.chat>> \in restored
        BY <1>1, <2>2, <3>1, <3>3
      <4> QED BY <1>2, <3>1, <4>1 DEF RestoredAreSent
    <3> QED BY <3>2, <3>3
  <2> QED BY <1>1, <2>1, <2>2 DEF RestoredAreSent
<1>17. WaitersAreKnown'
  <2>1. \A r \in open : \E q \in open' : q.key = r.key
    BY <1>1, <1>5
  <2> QED BY <1>1, <1>2, <1>3, <2>1 DEF WaitersAreKnown
<1> QED BY <1>11, <1>12, <1>13, <1>14, <1>15, <1>16, <1>17 DEF AskInv

\* A client answers.
LEMMA AnsweringKeeps ==
    ASSUME CwdInv, AskInv, NEW g \in Connections, NEW k \in Asks, Answer(g, k)
    PROVE  AskInv'
<1>1. /\ UNCHANGED <<linkVars, asks, seenVars, agentOut, pushedOut, overtaken, inHand>>
      /\ UNCHANGED <<origin, writing, issued, atAgent, asks>>
      /\ open' = {r \in open : r.key # k} /\ waits' = waits \ {k}
  BY DEF Answer, Dropped, requestVars, pipe, pastVars
<1>2. PromptsNameChats /\ AnswersAreLast
  BY DEF AskInv
<1>3. \A i : Answered(i)' <=> Answered(i)
  BY <1>1 DEF Answered
<1>4. PromptsNameChats'
  BY <1>1, <1>2 DEF PromptsNameChats
<1>5. AnswersAreLast'
  BY <1>1, <1>2, <1>3 DEF AnswersAreLast
<1>6. \A r \in open : r \in open' \/ r.key \notin waits'
  BY <1>1
<1> QED BY <1>1, <1>4, <1>5, <1>6, ForgettingKeeps

\* A reply leaves the pipe.
LEMMA RepliedKeeps ==
    ASSUME CwdInv, AskInv, ForwardReply
    PROVE  AskInv'
<1> DEFINE i == inHand.id
<1>1. /\ inHand # NoFrame /\ inHand.kind = "reply" /\ inHand' = NoFrame
      /\ UNCHANGED linkVars /\ UNCHANGED <<writing, issued, asks, waits, atAgent, agentOut, pushedOut>>
  BY DEF ForwardReply, sideVars
<1>2. PromptsNameChats /\ AnswersAreLast
  BY DEF AskInv
<1>3. \A j : Answered(j)' => Answered(j)
  BY <1>1 DEF Answered, Replying
<1>4. Answered(i)
  BY <1>1 DEF Answered, Replying
<1>5. DOMAIN origin' \subseteq DOMAIN origin /\ \A j \in DOMAIN origin' : origin'[j] = origin[j]
  BY DEF ForwardReply, Without
<1>6. PromptsNameChats'
  BY <1>2, <1>5 DEF PromptsNameChats
<1>7. AnswersAreLast'
  BY <1>1, <1>2, <1>3, <1>5 DEF AnswersAreLast
<1>8. CASE open' = open /\ UNCHANGED <<seenVars, overtaken>>
  BY <1>1, <1>6, <1>7, <1>8, ForgettingKeeps
<1>9. CASE /\ i \in DOMAIN origin /\ origin[i].method = "prompt" /\ open' = TurnOver(origin[i].chat)
           /\ overtaken' = overtaken \cup RaisedBeside(i, origin[i].chat) /\ UNCHANGED seenVars
  <2>1. origin[i].chat \in Chats /\ \A k \in waits : asks[k].turn # i
    BY <1>2, <1>4, <1>9 DEF PromptsNameChats, AnswersAreLast
  <2>2. \A r \in open : r.attention \in {asks[r.key].chat, Nowhere} /\ r.chat \in {asks[r.key].chat, Nowhere}
    BY DEF AskInv, RecordsAreTrue
  <2>3. \A r \in open : r \in open' \/ asks[r.key].chat = origin[i].chat
    BY <1>9, <2>1, <2>2, AskConstants DEF TurnOver
  <2>4. \A r \in open : r \in open' \/ r.key \notin waits' \/ r.key \in overtaken'
    BY <1>1, <1>9, <2>1, <2>3 DEF RaisedBeside, Keys
  <2>5. open' \subseteq open
    BY <1>9 DEF TurnOver
  <2> QED BY <1>1, <1>6, <1>7, <1>9, <2>4, <2>5, ForgettingKeeps
<1>10. CASE attached /\ RestoreChat(origin[i].chat, open) /\ UNCHANGED overtaken
  BY <1>1, <1>6, <1>7, <1>10, RestoringKeeps
<1> QED BY <1>8, <1>9, <1>10 DEF ForwardReply, Pending

LEMMA AskStep ==
    ASSUME CwdInv, AskInv, [AskNext]_askVars
    PROVE  AskInv'
<1>1. ASSUME NEW g \in Connections, NEW cwd \in Cwds, SessionNew(g, cwd)
      PROVE  AskInv'
  BY <1>1, RegisteredKeeps DEF SessionNew
<1>2. ASSUME NEW g \in Connections, NEW c \in Chats, SessionLoad(g, c)
      PROVE  AskInv'
  BY <1>2, RegisteredKeeps DEF SessionLoad
<1>3. ASSUME NEW g \in Connections, NEW c \in Chats, Prompt(g, c)
      PROVE  AskInv'
  BY <1>3, RegisteredKeeps DEF Prompt
<1>4. ASSUME NEW g \in Connections, Initialize(g)
      PROVE  AskInv'
  BY <1>4, RegisteredKeeps DEF Initialize
<1>5. ASSUME NEW n \in 1 .. MaxIds, NEW r \in {"ok", "error", "already"}, NEW c \in Chats \cup {Nowhere},
             AgentAnswers(n, r, c)
      PROVE  AskInv'
  BY <1>5, AnsweredKeeps
<1>6. ASSUME NEW n \in 1 .. MaxIds, NEW b \in BOOLEAN, Ask(n, b)
      PROVE  AskInv'
  BY <1>6, AskedKeeps
<1>7. CASE ObserveFrame
  BY <1>7, ObservedKeeps
<1>8. ASSUME NEW n \in 1 .. MaxIds, RequestLands(n) \/ RequestFails(n)
      PROVE  AskInv'
  BY <1>8, LandingKeeps
<1>9. CASE ForwardReply
  BY <1>9, RepliedKeeps
<1>10. CASE ForwardAsk
  BY <1>10, ForwardedKeeps
<1>11. CASE ClientAttach \/ ClientBind \/ \E g \in Connections : HangUp(g)
  BY <1>11, LinkKeeps
<1>12. ASSUME NEW g \in Connections, NEW k \in Asks, Answer(g, k)
       PROVE  AskInv'
  BY <1>12, AnsweringKeeps
<1>13. ASSUME PromptsNameChats, AnswersAreLast,
              UNCHANGED <<origin, writing, issued, asks, waits, atAgent, inHand, agentOut>>
       PROVE  PromptsNameChats' /\ AnswersAreLast'
  <2>1. \A j : Answered(j)' <=> Answered(j)
    BY <1>13 DEF Answered
  <2> QED BY <1>13, <2>1 DEF PromptsNameChats, AnswersAreLast
<1>14. ASSUME NEW g \in Connections, NEW c \in Chats, CatchUp(g, c)
       PROVE  AskInv'
  <2>1. attached /\ RestoreChat(c, open) /\ UNCHANGED <<linkVars, asks, agentOut, pushedOut, overtaken, waits, inHand>>
        /\ UNCHANGED <<origin, writing, issued, atAgent>>
    BY <1>14 DEF CatchUp, sideVars, pipe, requestVars, pastVars
  <2>2. PromptsNameChats' /\ AnswersAreLast'
    BY <1>13, <2>1 DEF AskInv
  <2> QED BY <2>1, <2>2, RestoringKeeps
<1>15. CASE UNCHANGED askVars
  <2>1. /\ UNCHANGED <<linkVars, asks, seenVars, agentOut, pushedOut, overtaken, inHand, open, waits>>
        /\ UNCHANGED <<origin, writing, issued, atAgent>>
    BY <1>15 DEF askVars, sideVars, pipe, requestVars, pastVars
  <2>2. PromptsNameChats' /\ AnswersAreLast'
    BY <1>13, <2>1 DEF AskInv
  <2> QED BY <2>1, <2>2, ForgettingKeeps
<1> QED BY <1>1, <1>2, <1>3, <1>4, <1>5, <1>6, <1>7, <1>8, <1>9, <1>10, <1>11, <1>12, <1>14, <1>15 DEF AskNext

LEMMA AskStart == AskInit => AskInv
<1> SUFFICES ASSUME AskInit PROVE AskInv
  OBVIOUS
<1>1. /\ current = 0 /\ attached = FALSE /\ joined = 0 /\ origin = <<>> /\ issued = 0 /\ writing = {}
      /\ atAgent = {} /\ asks = <<>> /\ waits = {} /\ open = {} /\ agentOut = <<>> /\ inHand = NoFrame
      /\ pushedOut = {} /\ overtaken = {} /\ sends = [g \in Connections |-> [k \in Asks |-> 0]] /\ restored = {}
  BY DEF AskInit
<1>2. (\A k : ~InPipe(k)) /\ (\A i : ~Answered(i)) /\ DOMAIN origin = {} /\ Len(asks) = 0 /\ Len(agentOut) = 0
  BY <1>1 DEF InPipe, Answered, Asking, Replying
<1>3. AskTypes
  BY <1>1, <1>2, AskConstants DEF AskTypes
<1>4. RecordsAreTrue /\ AskedOncePerConnection /\ SendsAreMarked /\ RestoredAreSent
  BY <1>1 DEF RecordsAreTrue, AskedOncePerConnection, SendsAreMarked, RestoredAreSent
<1>5. PipeIsFirst /\ PromptsNameChats /\ AnswersAreLast /\ WaitersAreKnown
  BY <1>1, <1>2 DEF PipeIsFirst, PromptsNameChats, AnswersAreLast, WaitersAreKnown
<1> QED BY <1>3, <1>4, <1>5 DEF AskInv

\* The attached client is asked exactly once by every request the agent waits on
\* in a chat it restored: never twice, across reconnects and restores, and not
\* never (trackAgentRequest, redeliver, answerAgentRequest), with any number of
\* prompts running in a chat.  Not of the second half: a request the cap pushed
\* out, one that names only the id of its prompt, and one that was open while
\* another prompt of its chat was answered, which reply forgets.
THEOREM AskedExactly == AskSpec => []AskedExactlyOnce
<1>1. AskInv /\ CwdInv => AskedExactlyOnce
  <2> SUFFICES ASSUME AskInv, CwdInv PROVE AskedOncePerConnection /\ NobodyWaitsUnseen
    BY DEF AskedExactlyOnce
  <2>1. AskedOncePerConnection
    BY DEF AskInv
  <2>2. ASSUME NEW k \in waits, k \notin pushedOut \cup overtaken, ~asks[k].byRequest, ~InPipe(k),
               attached, <<current, asks[k].chat>> \in restored
        PROVE  sends[current][k] = 1
    <3>1. PICK r \in open : r.key = k
      BY <2>2 DEF AskInv, WaitersAreKnown
    <3>2. r.chat = asks[k].chat
      BY <2>2, <3>1 DEF AskInv, RecordsAreTrue
    <3>3. r.gen = current
      BY <2>2, <3>1, <3>2 DEF AskInv, RestoredAreSent
    <3>4. current # Nobody
      BY <2>2, AskConstants DEF AskInv, AskTypes, Connections, Nobody
    <3> QED BY <3>1, <3>3, <3>4 DEF AskInv, SendsAreMarked
  <2>3. \A k \in waits : InPipe(k) => OnItsWay(k)
    <3>1. DOMAIN agentOut = 1..Len(agentOut)
      BY DEF CwdInv, CwdTypes
    <3> QED BY <3>1 DEF InPipe, Asking, OnItsWay
  <2> QED BY <2>1, <2>2, <2>3 DEF NobodyWaitsUnseen, Unsent
<1> QED BY <1>1, AskStart, AskStep, CwdAlways, PTL DEF AskSpec

-----------------------------------------------------------------------------
(* Pushes of progress.                                                     *)

Verbs == ToolKinds \cup {NoVerb, Generic}
States == [chat : Sessions \cup {"none"}, within : BOOLEAN, summary : Verbs, pending : Verbs,
           of : Nat, timer : {"none", "armed", "due", "fired"}]

PushTypes ==
    /\ turn \in [Sessions -> 0..MaxTurns] /\ progress \in [Sessions -> Nat] /\ states \in Seq(States)
    /\ toolKind \in [Sessions -> Verbs] /\ running \subseteq Sessions

\* The state a chat has is its own.
ProgressOwns ==
    \A c \in Sessions : progress[c] # 0 => progress[c] \in 1..Len(states) /\ states[progress[c]].chat = c
TimersAreOurs == \A i \in 1..Len(states) : states[i].timer # "none" => states[i].chat \in Sessions

\* A chat with a state runs a turn, and its timer was set in that turn.
TurnIsOn(c) == progress[c] # 0 /\ c \notin unjudged =>
    c \in running /\ (states[progress[c]].timer # "none" => states[progress[c]].of = turn[c])
TurnsAreOn == listed => \A c \in Sessions : TurnIsOn(c)

PushInv == PushTypes /\ ProgressOwns /\ TimersAreOurs /\ TurnsAreOn

\* The number of prompts sent is the number of the last one.
LEMMA PromptsCount == ASSUME PushTypes, NEW c \in Sessions PROVE PromptsSent \in Nat
<1> DEFINE U == {k \in Nat : \A d \in Sessions : turn[d] <= k}
<1>1. turn \in [Sessions -> 0..MaxTurns] /\ \A d \in Sessions : turn[d] \in Nat /\ turn[d] <= MaxTurns
  BY PushConstants DEF PushTypes
<1>2. MaxTurns \in U
  BY <1>1, PushConstants
<1>3. PICK m \in U : \A k \in U : ~ (<<k, m>> \in OpToRel(<, Nat))
  <2>1. U \subseteq Nat /\ U # {}
    BY <1>2
  <2> HIDE DEF U
  <2> QED BY <2>1, NatLessThanWellFounded, WFMin, Zenon
<1>4. \A k \in U : ~(k < m)
  BY <1>3 DEF OpToRel
<1>5. PICK d \in Sessions : turn[d] = m
  <2> SUFFICES ASSUME \A d \in Sessions : turn[d] # m PROVE FALSE
    OBVIOUS
  <2>1. m \in Nat /\ \A d \in Sessions : turn[d] <= m - 1
    BY <1>1
  <2>2. m - 1 \in Nat
    BY <1>1, <2>1
  <2> QED BY <1>4, <2>1, <2>2
<1>6. m \in Range(turn) /\ \A x \in Range(turn) : x <= m
  BY <1>1, <1>5 DEF Range
<1>7. Max(Range(turn)) \in Range(turn)
  BY <1>6 DEF Max
<1> QED BY <1>1, <1>7 DEF PromptsSent, Range

\* A step that leaves the states alone.
LEMMA PushStays ==
    ASSUME PushInv, UNCHANGED <<turn, states, progress>>, running' \subseteq Sessions,
           toolKind' \in [Sessions -> Verbs], listed' => listed /\ running \subseteq running',
           unjudged \subseteq unjudged'
    PROVE  PushInv'
<1>1. PushTypes' /\ ProgressOwns' /\ TimersAreOurs'
  BY DEF PushInv, PushTypes, ProgressOwns, TimersAreOurs
<1>2. TurnsAreOn'
  BY DEF PushInv, TurnsAreOn, TurnIsOn
<1> QED BY <1>1, <1>2 DEF PushInv

LEMMA PromptKeeps ==
    ASSUME PushInv, NEW c \in Sessions, PromptSent(c)
    PROVE  PushInv'
<1>1. PushTypes /\ ProgressOwns /\ TimersAreOurs /\ TurnsAreOn
  BY DEF PushInv
<1>2. /\ listed /\ c \notin running /\ turn' = [turn EXCEPT ![c] = PromptsSent + 1]
      /\ running' = running \cup {c} /\ UNCHANGED <<listed, toolKind, states, progress, unjudged>>
      /\ PromptsSent < MaxTurns
  BY DEF PromptSent
<1>3. PromptsSent + 1 \in 0..MaxTurns
  BY <1>1, <1>2, PromptsCount, PushConstants
<1>4. turn' \in [Sessions -> 0..MaxTurns] /\ \A d \in Sessions \ {c} : turn'[d] = turn[d]
  BY <1>1, <1>2, <1>3 DEF PushTypes
<1>5. PushTypes' /\ ProgressOwns' /\ TimersAreOurs'
  BY <1>1, <1>2, <1>4 DEF PushTypes, ProgressOwns, TimersAreOurs
<1>6. ASSUME NEW d \in Sessions PROVE TurnIsOn(d)'
  BY <1>1, <1>2, <1>4 DEF TurnsAreOn, TurnIsOn
<1> QED BY <1>2, <1>5, <1>6 DEF PushInv, TurnsAreOn

\* A state that is replaced by one of the same chat, or by garbage that no chat has.
LEMMA StateSet ==
    ASSUME PushInv, NEW i \in 1..Len(states), NEW s \in States, states' = [states EXCEPT ![i] = s]
    PROVE  /\ states' \in Seq(States) /\ Len(states') = Len(states) /\ states'[i] = s
           /\ \A j \in 1..Len(states) \ {i} : states'[j] = states[j]
BY DEF PushInv, PushTypes

LEMMA EndKeepsPushes ==
    ASSUME PushInv, NEW c \in Sessions, endProgress(c), running' = running \ {c},
           unjudged' = unjudged \ {c}, UNCHANGED <<listed, turn, toolKind>>
    PROVE  PushInv'
<1>1. PushTypes /\ ProgressOwns /\ TimersAreOurs /\ TurnsAreOn
  BY DEF PushInv
<1>2. progress' = [progress EXCEPT ![c] = 0] /\ states' = Stopped(progress[c])
  BY DEF endProgress
<1>3. /\ progress' \in [Sessions -> Nat] /\ progress'[c] = 0
      /\ \A d \in Sessions \ {c} : progress'[d] = progress[d]
  BY <1>1, <1>2 DEF PushTypes
<1>4. /\ states' \in Seq(States) /\ Len(states') = Len(states)
      /\ \A j \in 1..Len(states) : states'[j] = states[j] \/ (j = progress[c] /\ progress[c] # 0
                                                               /\ states'[j].timer = "none")
  <2>1. CASE states' = states
    BY <1>1, <2>1 DEF PushTypes
  <2>2. CASE progress[c] # 0 /\ states' = [states EXCEPT ![progress[c]] = Garbage]
    <3>1. progress[c] \in 1..Len(states) /\ Garbage \in States /\ Garbage.timer = "none"
      BY <1>1, <2>2 DEF ProgressOwns, Garbage, NewState, States, Verbs
    <3> QED BY <2>2, <3>1, StateSet
  <2> QED BY <1>2, <2>1, <2>2 DEF Stopped
<1>5. \A d \in Sessions \ {c} : progress[d] # 0 => progress[d] # progress[c]
  BY <1>1 DEF ProgressOwns
<1>6. PushTypes'
  BY <1>1, <1>3, <1>4 DEF PushTypes
<1>7. \A d \in Sessions \ {c} : progress[d] # 0 =>
          progress[d] \in 1..Len(states) /\ states'[progress[d]] = states[progress[d]]
  BY <1>1, <1>4, <1>5 DEF ProgressOwns
<1>8. ProgressOwns' /\ TimersAreOurs'
  BY <1>1, <1>3, <1>4, <1>7 DEF ProgressOwns, TimersAreOurs
<1>9. ASSUME listed, NEW d \in Sessions PROVE TurnIsOn(d)'
  BY <1>1, <1>3, <1>7, <1>9 DEF TurnsAreOn, TurnIsOn
<1> QED BY <1>6, <1>8, <1>9 DEF PushInv, TurnsAreOn

\* Sending clears what is pending, and moves nothing else of a state.
LEMMA SendSets ==
    ASSUME NEW ss \in Seq(States), NEW i \in 1..Len(ss), NEW verb \in Verbs, NEW of,
           sendProgressLocked(ss, i, verb, of)
    PROVE  /\ states' \in Seq(States) /\ Len(states') = Len(ss)
           /\ \A j \in 1..Len(ss) : j # i => states'[j] = ss[j]
           /\ states'[i].chat = ss[i].chat /\ states'[i].timer = ss[i].timer /\ states'[i].of = ss[i].of
<1>1. ss[i] \in States
  OBVIOUS
<1>2. CASE states' = Cleared(ss, i)
  <2>1. states' = [ss EXCEPT ![i] = [ss[i] EXCEPT !.pending = NoVerb]]
    BY <1>2 DEF Cleared
  <2>2. [ss[i] EXCEPT !.pending = NoVerb] \in States
    BY <1>1 DEF States, Verbs
  <2> QED BY <1>1, <2>1, <2>2 DEF States
<1>3. CASE states' = Sent(ss, i, verb)
  <2> DEFINE s == [ss[i] EXCEPT !.pending = NoVerb, !.within = TRUE, !.summary = verb]
  <2>1. s \in States /\ s.chat = ss[i].chat /\ s.timer = ss[i].timer /\ s.of = ss[i].of
    BY <1>1 DEF States, Verbs
  <2>2. states' = [ss EXCEPT ![i] = s]
    BY <1>1, <1>3 DEF Sent, Cleared, States
  <2> QED BY <2>1, <2>2
<1> QED BY <1>2, <1>3 DEF sendProgressLocked

\* What a chat's running tool call, or its timer, does to its own state.
LEMMA OwnStateKeeps ==
    ASSUME PushInv, NEW c \in Sessions, NEW i \in Nat \ {0},
           states' \in Seq(States), progress' = [progress EXCEPT ![c] = i],
           UNCHANGED <<listed, turn, running, toolKind, unjudged>>,
           \/ i = progress[c] /\ Len(states') = Len(states)
           \/ i = Len(states) + 1 /\ Len(states') = i /\ c \in running,
           \A j \in 1..Len(states) : j # i => states'[j] = states[j],
           states'[i].chat = c,
           states'[i].timer # "none" => states'[i].of = turn[c] \/ c \in unjudged \/ ~listed
    PROVE  PushInv'
<1>1. PushTypes /\ ProgressOwns /\ TimersAreOurs /\ TurnsAreOn
  BY DEF PushInv
<1>2. /\ progress' \in [Sessions -> Nat] /\ progress'[c] = i /\ Len(states) \in Nat
      /\ \A d \in Sessions \ {c} : progress'[d] = progress[d]
  BY <1>1 DEF PushTypes
<1>3. PushTypes'
  BY <1>1, <1>2 DEF PushTypes
<1>4. i \in 1..Len(states') /\ 1..Len(states) \subseteq 1..Len(states')
      /\ \A j \in 1..Len(states') : j # i => j \in 1..Len(states)
  BY <1>1, <1>2 DEF ProgressOwns
<1>5. \A d \in Sessions \ {c} : progress[d] # 0 =>
          /\ progress[d] \in 1..Len(states) /\ progress[d] # i /\ states'[progress[d]] = states[progress[d]]
  BY <1>1, <1>2 DEF ProgressOwns
<1>6. ProgressOwns'
  BY <1>1, <1>2, <1>4, <1>5 DEF ProgressOwns
<1>7. TimersAreOurs'
  BY <1>1, <1>4 DEF TimersAreOurs
<1>8. ASSUME listed, NEW d \in Sessions PROVE TurnIsOn(d)'
  <2>1. CASE d = c
    BY <1>1, <1>2, <1>8, <2>1 DEF TurnsAreOn, TurnIsOn
  <2>2. CASE d # c
    BY <1>1, <1>2, <1>5, <1>8, <2>2 DEF TurnsAreOn, TurnIsOn
  <2> QED BY <2>1, <2>2
<1> QED BY <1>3, <1>6, <1>7, <1>8 DEF PushInv, TurnsAreOn

\* A push of progress that leaves now is about a turn that runs.
Live == said'.category = "progress" =>
    \/ said'.chat \in unjudged
    \/ said'.chat \in running /\ said'.of = turn[said'.chat]

LEMMA ToolRunsKeeps ==
    ASSUME PushInv, NEW c \in Sessions, ToolRuns(c)
    PROVE  PushInv' /\ Live
<1>1. PushTypes /\ ProgressOwns /\ TimersAreOurs /\ TurnsAreOn
  BY DEF PushInv
<1> DEFINE made == progress[c] = 0
           i == IF made THEN Len(states) + 1 ELSE progress[c]
           ss == IF made THEN Append(states, NewState(c)) ELSE states
<1>2. /\ c \in running /\ progress' = [progress EXCEPT ![c] = i]
      /\ UNCHANGED <<listed, turn, running, toolKind, unjudged>>
      /\ IF ss[i].within
         THEN /\ states' = [ss EXCEPT ![i].pending = toolKind[c], ![i].of = turn[c],
                                      ![i].timer = IF @ = "none" THEN "armed" ELSE @]
              /\ NoPush
         ELSE sendProgressLocked(ss, i, toolKind[c], turn[c])
  BY DEF ToolRuns
<1>3. toolKind[c] \in Verbs /\ turn[c] \in Nat
  BY <1>1, PushConstants DEF PushTypes
<1>4. /\ i \in Nat \ {0} /\ ss \in Seq(States) /\ i \in 1..Len(ss) /\ ss[i].chat = c
      /\ \A j \in 1..Len(states) : j # i => j \in 1..Len(ss) /\ ss[j] = states[j]
      /\ \/ ~made /\ i = progress[c] /\ Len(ss) = Len(states) /\ ss[i] = states[i]
         \/ made /\ i = Len(states) + 1 /\ Len(ss) = i /\ ~ss[i].within /\ ss[i].timer = "none"
  <2>1. CASE made
    <3>1. NewState(c) \in States /\ NewState(c).chat = c /\ ~NewState(c).within
          /\ NewState(c).timer = "none"
      BY DEF NewState, States, Verbs
    <3>2. states \in Seq(States) /\ Len(states) \in Nat
      BY <1>1 DEF PushTypes
    <3> HIDE DEF States
    <3> QED BY <2>1, <3>1, <3>2
  <2>2. CASE ~made
    BY <1>1, <2>2 DEF PushTypes, ProgressOwns
  <2> QED BY <2>1, <2>2
<1>5. listed /\ c \notin unjudged /\ ss[i].timer # "none" => ss[i].of = turn[c]
  BY <1>1, <1>4 DEF TurnsAreOn, TurnIsOn
<1> HIDE DEF made, i, ss
<1>6. CASE ss[i].within
  <2>1. ss[i] \in States
    BY <1>4
  <2> DEFINE s == [ss[i] EXCEPT !.pending = toolKind[c], !.of = turn[c],
                                !.timer = IF ss[i].timer = "none" THEN "armed" ELSE ss[i].timer]
  <2>2. s \in States /\ s.chat = c /\ s.of = turn[c]
    BY <1>3, <1>4, <2>1 DEF States
  <2>3. states' = [ss EXCEPT ![i] = s] /\ NoPush
    BY <1>2, <1>6, <2>1 DEF States
  <2> HIDE DEF s
  <2>4. /\ states' \in Seq(States) /\ Len(states') = Len(ss) /\ states'[i] = s
        /\ \A j \in 1..Len(ss) : j # i => states'[j] = ss[j]
    BY <1>4, <2>2, <2>3
  <2>5. PushInv'
    BY <1>2, <1>4, <2>2, <2>4, OwnStateKeeps
  <2> QED BY <2>3, <2>5 DEF Live, NoPush, Quiet
<1>7. CASE ~ss[i].within
  <2>1. sendProgressLocked(ss, i, toolKind[c], turn[c])
    BY <1>2, <1>7
  <2>2. /\ states' \in Seq(States) /\ Len(states') = Len(ss)
        /\ \A j \in 1..Len(ss) : j # i => states'[j] = ss[j]
        /\ states'[i].chat = c /\ states'[i].timer = ss[i].timer /\ states'[i].of = ss[i].of
    BY <1>3, <1>4, <2>1, SendSets
  <2>3. PushInv'
    BY <1>2, <1>4, <1>5, <2>2, OwnStateKeeps
  <2>4. said'.category = "progress" => said'.chat = c /\ said'.of = turn[c]
    BY <1>4, <2>1 DEF sendProgressLocked, onPushNotification, NoPush, Quiet
  <2> QED BY <1>2, <2>3, <2>4 DEF Live
<1> QED BY <1>6, <1>7

LEMMA TimerKeeps ==
    ASSUME PushInv, NEW i \in 1..Len(states), WindowEnds(i) \/ TimerFires(i) \/ TimerCallback(i)
    PROVE  PushInv' /\ Live
<1>1. PushTypes /\ ProgressOwns /\ TimersAreOurs /\ TurnsAreOn
  BY DEF PushInv
<1>2. /\ states \in Seq(States) /\ states[i] \in States /\ i \in Nat \ {0} /\ Len(states) \in Nat
      /\ progress \in [Sessions -> Nat]
      /\ UNCHANGED <<listed, turn, running, toolKind, progress, unjudged>>
  BY <1>1 DEF PushTypes, WindowEnds, TimerFires, TimerCallback
<1>3. ASSUME NEW s \in States, states' = [states EXCEPT ![i] = s],
             \/ s.chat = states[i].chat /\ s.of = states[i].of
                /\ (s.timer # "none" => states[i].timer # "none")
             \/ s.timer = "none" /\ \A d \in Sessions : progress[d] # i
      PROVE  PushInv'
  <2>1. /\ states' \in Seq(States) /\ Len(states') = Len(states) /\ states'[i] = s
        /\ \A j \in 1..Len(states) \ {i} : states'[j] = states[j]
    BY <1>3, StateSet
  <2>2. PushTypes'
    BY <1>1, <1>2, <2>1 DEF PushTypes
  <2>3. ProgressOwns' /\ TimersAreOurs'
    BY <1>1, <1>2, <1>3, <2>1 DEF ProgressOwns, TimersAreOurs
  <2>4. ASSUME listed, NEW d \in Sessions PROVE TurnIsOn(d)'
    <3>1. TurnIsOn(d)
      BY <1>1, <2>4 DEF TurnsAreOn
    <3>2. progress[d] # 0 => progress[d] \in 1..Len(states)
      BY <1>1 DEF ProgressOwns
    <3> QED BY <1>2, <1>3, <2>1, <3>1, <3>2 DEF TurnIsOn
  <2> QED BY <1>2, <2>2, <2>3, <2>4 DEF PushInv, TurnsAreOn
<1>4. CASE WindowEnds(i)
  <2> DEFINE s == [states[i] EXCEPT !.within = FALSE,
                                    !.timer = IF states[i].timer = "armed" THEN "due" ELSE states[i].timer]
  <2>1. s \in States /\ s.chat = states[i].chat /\ s.of = states[i].of
        /\ (s.timer # "none" => states[i].timer # "none")
    BY <1>2 DEF States
  <2>2. states' = [states EXCEPT ![i] = s] /\ NoPush
    BY <1>2, <1>4 DEF WindowEnds, States
  <2> QED BY <1>3, <2>1, <2>2 DEF Live, NoPush, Quiet
<1>5. CASE TimerFires(i)
  <2> DEFINE s == [states[i] EXCEPT !.timer = "fired"]
  <2>1. s \in States /\ s.chat = states[i].chat /\ s.of = states[i].of /\ states[i].timer # "none"
    BY <1>2, <1>5 DEF States, TimerFires
  <2>2. states' = [states EXCEPT ![i] = s] /\ NoPush
    BY <1>2, <1>5 DEF TimerFires, States
  <2> QED BY <1>3, <2>1, <2>2 DEF Live, NoPush, Quiet
<1>6. CASE TimerCallback(i)
  <2>1. states[i].timer = "fired" /\ states[i].chat \in Sessions
    BY <1>1, <1>6 DEF TimerCallback, TimersAreOurs
  <2>2. CASE TurnEndedFirst(i)
    <3>1. states' = [states EXCEPT ![i] = Garbage] /\ NoPush
      BY <1>6, <2>2 DEF TimerCallback
    <3>2. Garbage \in States /\ Garbage.timer = "none"
      BY DEF Garbage, NewState, States, Verbs
    <3>3. \A d \in Sessions : progress[d] # i
      BY <1>1, <1>2, <2>2 DEF TurnEndedFirst, ProgressOwns
    <3> QED BY <1>3, <3>1, <3>2, <3>3 DEF Live, NoPush, Quiet
  <2>3. CASE ~TurnEndedFirst(i)
    <3> DEFINE s == [states[i] EXCEPT !.timer = "none"]
               ss == [states EXCEPT ![i] = s]
               c == states[i].chat
    <3>1. s \in States /\ s.chat = c /\ s.of = states[i].of /\ s.timer = "none"
      BY <1>2 DEF States
    <3>2. ss \in Seq(States) /\ Len(ss) = Len(states) /\ ss[i] = s
          /\ \A j \in 1..Len(states) : j # i => ss[j] = states[j]
      BY <1>2, <3>1
    <3>3. sendProgressLocked(ss, i, states[i].pending, states[i].of)
      BY <1>2, <1>6, <2>3 DEF TimerCallback, States
    <3>4. progress[c] = i /\ c \in Sessions /\ states[i].pending \in Verbs
      BY <1>2, <2>1, <2>3 DEF TurnEndedFirst, States
    <3> HIDE DEF s, ss, c
    <3>5. /\ states' \in Seq(States) /\ Len(states') = Len(ss) /\ states'[i].chat = c
          /\ states'[i].timer = "none" /\ \A j \in 1..Len(ss) : j # i => states'[j] = ss[j]
      BY <3>1, <3>2, <3>3, <3>4, SendSets
    <3>6. progress' = [progress EXCEPT ![c] = i]
      BY <1>2, <3>4
    <3>7. PushInv'
      <4>1. /\ Len(states') = Len(states) /\ \A j \in 1..Len(states) : j # i => states'[j] = states[j]
            /\ states'[i].timer # "none" => states'[i].of = turn[c]
        BY <3>2, <3>5
      <4>2. UNCHANGED <<listed, turn, running, toolKind, unjudged>>
        BY <1>2
      <4> QED BY <1>2, <3>4, <3>5, <3>6, <4>1, <4>2, OwnStateKeeps
    <3>8. said'.category = "progress" => listed /\ said'.chat = c /\ said'.of = states[i].of
      BY <3>1, <3>2, <3>3 DEF sendProgressLocked, onPushNotification, NoPush, Quiet
    <3>9. listed => TurnIsOn(c)
      BY <1>1, <3>4 DEF TurnsAreOn
    <3> QED BY <1>2, <2>1, <3>4, <3>7, <3>8, <3>9 DEF Live, TurnIsOn
  <2> QED BY <2>2, <2>3
<1> QED BY <1>4, <1>5, <1>6

LEMMA PushStep ==
    ASSUME PushInv, PushNext
    PROVE  PushInv' /\ Live
<1>1. PushTypes /\ ProgressOwns /\ TimersAreOurs /\ TurnsAreOn
  BY DEF PushInv
<1>2. ASSUME NEW c \in Sessions, PromptSent(c)
      PROVE  PushInv' /\ Live
  BY <1>2, PromptKeeps DEF PromptSent, NoPush, Quiet, Live
<1>3. ASSUME NEW c \in Sessions, PromptFails(c)
      PROVE  PushInv' /\ Live
  BY <1>3, EndKeepsPushes DEF PromptFails, onPushNotification, Quiet, Live
<1>4. ASSUME NEW c \in Sessions, NEW usage \in BOOLEAN, NEW cancelled \in BOOLEAN,
             TurnEnds(c, usage, cancelled)
      PROVE  PushInv' /\ Live
  <2>1. Live
    BY <1>4 DEF TurnEnds, notifySwallowedFailure, onPushNotification, NoPush, Quiet, Live
  <2>2. CASE endProgress(c) /\ unjudged' = unjudged \ {c}
    BY <1>4, <2>1, <2>2, EndKeepsPushes DEF TurnEnds
  <2>3. CASE unjudged' = unjudged \cup {c} /\ UNCHANGED <<states, progress>>
    <3>1. running' = running \ {c} /\ UNCHANGED <<listed, turn, toolKind>>
      BY <1>4 DEF TurnEnds
    <3>2. PushTypes' /\ ProgressOwns' /\ TimersAreOurs'
      BY <1>1, <2>3, <3>1 DEF PushTypes, ProgressOwns, TimersAreOurs
    <3>3. TurnsAreOn'
      BY <1>1, <2>3, <3>1 DEF TurnsAreOn, TurnIsOn
    <3> QED BY <2>1, <3>2, <3>3 DEF PushInv
  <2> QED BY <1>4, <2>2, <2>3 DEF TurnEnds
<1>5. ASSUME NEW c \in Sessions, AsksUser(c) \/ Content(c) \/ ToolFinished(c)
      PROVE  PushInv' /\ Live
  <2>1. /\ UNCHANGED <<turn, states, progress, listed, running, unjudged>>
        /\ toolKind' = toolKind \/ toolKind' = [toolKind EXCEPT ![c] = Generic]
    BY <1>5 DEF AsksUser, Content, ToolFinished
  <2>2. toolKind' \in [Sessions -> Verbs] /\ running' \subseteq Sessions
    BY <1>1, <2>1 DEF PushTypes, Verbs
  <2>3. Live
    BY <1>5 DEF AsksUser, Content, ToolFinished, onPushNotification, NoPush, Quiet, Live
  <2> QED BY <2>1, <2>2, <2>3, PushStays
<1>6. ASSUME NEW c \in Sessions, NEW k \in ToolKinds, ToolAnnounced(c, k)
      PROVE  PushInv' /\ Live
  <2>1. UNCHANGED <<turn, states, progress, listed, running, unjudged>> /\ NoPush
        /\ toolKind' = [toolKind EXCEPT ![c] = k]
    BY <1>6 DEF ToolAnnounced
  <2>2. toolKind' \in [Sessions -> Verbs] /\ running' \subseteq Sessions
    BY <1>1, <2>1 DEF PushTypes, Verbs
  <2> QED BY <2>1, <2>2, PushStays DEF NoPush, Quiet, Live
<1>7. ASSUME AgentExits
      PROVE  PushInv' /\ Live
  <2>1. /\ UNCHANGED <<turn, states, progress, toolKind, unjudged>> /\ ~listed' /\ running' = {}
        /\ said' = [category |-> "agent_crash"]
    BY <1>7 DEF AgentExits
  <2>2. toolKind' \in [Sessions -> Verbs] /\ running' \subseteq Sessions
    BY <1>1, <2>1 DEF PushTypes
  <2> QED BY <2>1, <2>2, PushStays DEF Live
<1>8. ASSUME NEW i \in 1..Len(states), WindowEnds(i) \/ TimerFires(i) \/ TimerCallback(i)
      PROVE  PushInv' /\ Live
  BY <1>8, TimerKeeps
<1>9. ASSUME NEW c \in Sessions, ToolRuns(c)
      PROVE  PushInv' /\ Live
  BY <1>9, ToolRunsKeeps
<1> QED BY <1>2, <1>3, <1>4, <1>5, <1>6, <1>7, <1>8, <1>9 DEF PushNext

\* Progress is only pushed for a turn that runs, with the verb of that turn,
\* however late a throttle timer's callback runs (notify.go).
THEOREM ProgressSound == PushSpec => ProgressIsLive
<1>1. ASSUME PushInit
      PROVE  PushInv
  BY <1>1, PushConstants
     DEF PushInit, PushInv, PushTypes, ProgressOwns, TimersAreOurs, TurnsAreOn, TurnIsOn, Verbs
<1>2. ASSUME PushInv, [PushNext]_pushVars
      PROVE  PushInv'
  <2>1. CASE UNCHANGED pushVars
    BY <1>2, <2>1, PushStays DEF pushVars, PushInv, PushTypes
  <2> QED BY <1>2, <2>1, PushStep
<1>3. ASSUME PushInv, [PushNext]_pushVars
      PROVE  [said'.category = "progress" =>
                LET c == said'.chat
                IN  c \in unjudged \/ (c \in running /\ said'.of = turn[c])]_pushVars
  BY <1>3, PushStep DEF Live
<1> QED BY <1>1, <1>2, <1>3, PTL DEF PushSpec, ProgressIsLive
=============================================================================
