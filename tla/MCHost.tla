------------------------------- MODULE MCHost -------------------------------
(***************************************************************************)
(* What the gateway does for its sessions on the host, for TLC: the attach *)
(* tokens it issues, the worktrees of chats, the programs of agents it     *)
(* installs and the pushes about turns.  The models share no variable; the *)
(* initial state picks the one that moves (focus).                         *)
(***************************************************************************)
EXTENDS AttachTokens, Worktrees, Install, Push, TLC

VARIABLE focus   \* the component that moves

mcVars == <<vars, treeVars, instVars, pushVars, focus>>

Symmetry == Permutations(Branches) \cup Permutations(Ops) \cup Permutations(Sessions)

MCInit ==
    /\ focus \in {"tokens", "trees", "install", "push"}
    /\ Init /\ TreeInit /\ InstInit /\ PushInit
    /\ focus # "install" => kind = "raw"

Rest(rest) == UNCHANGED <<focus, rest>>

MCNext ==
    \/ focus = "tokens" /\ Next /\ Rest(<<treeVars, instVars, pushVars>>)
    \/ focus = "trees" /\ TreeNext /\ Rest(<<vars, instVars, pushVars>>)
    \/ focus = "install" /\ InstNext /\ Rest(<<vars, treeVars, pushVars>>)
    \/ focus = "push" /\ PushNext /\ Rest(<<vars, treeVars, instVars>>)

MCSpec == MCInit /\ [][MCNext]_mcVars
=============================================================================
