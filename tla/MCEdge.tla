------------------------------- MODULE MCEdge -------------------------------
(***************************************************************************)
(* The queue of a client, remote access and the service commands, for TLC: *)
(* what must come to pass at the gateway's edges.  They share no variable; *)
(* the initial state picks the one that moves (focus).                     *)
(***************************************************************************)
EXTENDS ClientQueue, Remote, Service, TLC

CONSTANTS g1, g2

VARIABLE focus   \* the component that moves

mcVars == <<focus, vars, remVars, svcVars>>

\* How the two gateways of a host are configured: both choose by themselves, both
\* embed a node and log in by hand, or one has an auth key beside one on the CLI.
Setup(m1, m2, key) == [mode |-> (g1 :> m1 @@ g2 :> m2), authKey |-> (g1 :> key @@ g2 :> FALSE)]
HostSetups == {Setup("auto", "auto", FALSE), Setup("tsnet", "tsnet", FALSE),
               Setup("tsnet", "cli", TRUE)}

\* A component that does not move has one of its initial states only.
AtRest ==
    /\ focus # "remote" => /\ [mode |-> mode, authKey |-> authKey] = Setup("auto", "auto", FALSE)
                           /\ legacy = NoGateway
    /\ focus # "service" => os = "linux" /\ ~packaged

MCInit == /\ focus \in {"queue", "remote", "service"}
          /\ Init /\ RemInit /\ SvcInit
          /\ AtRest

InQueue(A) == focus = "queue" /\ A /\ UNCHANGED <<focus, remVars, svcVars>>
InRemote(A) == focus = "remote" /\ A /\ UNCHANGED <<focus, vars, svcVars>>
InService(A) == focus = "service" /\ A /\ UNCHANGED <<focus, vars, remVars>>

MCNext == InQueue(Next) \/ InRemote(RemNext) \/ InService(SvcNext)

\* The fairness of each module, for the one that moves.
MCFairness ==
    /\ WF_mcVars(InQueue(DrainFlushed))
    /\ \A g \in Conns : WF_mcVars(InQueue(WriterStep(g))) /\ WF_mcVars(InQueue(CloseNow(g)))
    /\ \A g \in Gateways : WF_mcVars(InRemote(Attempt(g)))
    /\ WF_mcVars(InService(Steps)) /\ WF_mcVars(InService(Respawn))
    /\ WF_mcVars(InService(WatchTick))

MCSpec == MCInit /\ [][MCNext]_mcVars /\ MCFairness
=============================================================================
