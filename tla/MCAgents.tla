------------------------------ MODULE MCAgents ------------------------------
(***************************************************************************)
(* An agent and its clients, for TLC: the prompts and replies of one       *)
(* session, the requests its agent makes of the clients, and the catalog   *)
(* it is chosen from.  The models share no variable; the initial state     *)
(* picks the one that moves (focus).                                       *)
(***************************************************************************)
EXTENDS PumpTurns, AgentRequests, Catalog, TLC

CONSTANTS i1, i2

VARIABLE focus

mcVars == <<vars, askVars, catVars, focus>>

TwoIds == <<i1, i2>>

Symmetry == Permutations(Prompts) \cup Permutations(Chats)

MCInit ==
    /\ focus \in {"prompts", "requests", "opens", "catalog"}
    /\ Init /\ AskInit /\ CatInit
    /\ focus # "catalog" => online

\* Up to three requests of clients about chats of one directory, the last of
\* them a prompt, so that two prompts can run in one chat, or one in either of
\* two; or two requests of any kind.
OneCwd == CHOOSE d \in Cwds : TRUE
RequestsNext ==
    /\ AskNext
    /\ \A i \in DOMAIN origin' :
          /\ origin'[i].method # "initialize" /\ origin'[i].cwd \in {Nowhere, OneCwd}
          /\ i = MaxIds => origin'[i].method = "prompt"
OpensNext == AskNext /\ issued' <= 2

Rest(rest) == UNCHANGED <<focus, rest>>

MCNext ==
    \/ focus = "prompts" /\ Next /\ Rest(<<askVars, catVars>>)
    \/ focus = "requests" /\ RequestsNext /\ Rest(<<vars, catVars>>)
    \/ focus = "opens" /\ OpensNext /\ Rest(<<vars, catVars>>)
    \/ focus = "catalog" /\ CatNext /\ Rest(<<vars, askVars>>)

MCSpec == MCInit /\ [][MCNext]_mcVars
=============================================================================
