----------------------------- MODULE MCSession -----------------------------
(***************************************************************************)
(* SessionLifecycle for TLC, in two settings the initial state chooses     *)
(* from (focus): "attach" has one session and WebSocket handlers that race *)
(* each other, a store that works and a daemon that restarts; "quota" has  *)
(* two sessions to connect and restart, no client that attaches, a store   *)
(* that may fail, and a gateway that is not shut down.                     *)
(***************************************************************************)
EXTENDS SessionLifecycle, TLC

VARIABLE focus

Quota == INSTANCE SessionLifecycle WITH MaxGen <- 0, MaxBoots <- 0, StoreMayFail <- TRUE

Symmetry == Permutations(Sessions) \cup Permutations(Handlers)

mcVars == <<vars, focus>>

OneSession == \E s \in Sessions : \A t \in Sessions \ {s} : cpc[t] = "none"

NobodyAttaches == \A h \in Handlers : hpc[h] = "idle"

MCInit == focus \in {"attach", "quota"} /\ Init

MCNext ==
    /\ UNCHANGED focus
    /\ \/ focus = "attach" /\ Next /\ OneSession'
       \/ focus = "quota" /\ Quota!Next /\ NobodyAttaches' /\ ~closed'

MCSpec == MCInit /\ [][MCNext]_mcVars
=============================================================================
