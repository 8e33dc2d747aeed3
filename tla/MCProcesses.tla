---------------------------- MODULE MCProcesses ----------------------------
(***************************************************************************)
(* Spares, the listing of projects and the replay buffer, for TLC.  They   *)
(* share no variable; the initial state picks the one that moves (focus).  *)
(***************************************************************************)
EXTENDS Spares, Projects, CatchUp, TLC

VARIABLE focus

mcVars == <<vars, focus, listVars, replayVars>>

Symmetry == Permutations(Requesters) \cup Permutations(Calls) \cup Permutations(Keys)

MCInit == /\ focus \in {"spares", "listing", "replay"}
          /\ Init /\ ListInit /\ ReplayInit

MCNext ==
    \/ focus = "spares" /\ Next /\ UNCHANGED <<focus, listVars, replayVars>>
    \/ focus = "listing" /\ ListNext /\ UNCHANGED <<focus, vars, replayVars>>
    \/ focus = "replay" /\ ReplayNext /\ UNCHANGED <<focus, vars, listVars>>

MCSpec == MCInit /\ [][MCNext]_mcVars
=============================================================================
