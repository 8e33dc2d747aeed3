--------------------------- MODULE MCCredentials ---------------------------
(***************************************************************************)
(* Who gets in, for TLC: the pairing service, the limits in front of it and *)
(* the freshness of proofs.  They share no state, so one run explores them *)
(* side by side: the initial state picks the component that moves (focus)  *)
(* and the others rest where they start.                                   *)
(***************************************************************************)
EXTENDS Pairing, RateLimiter, PairAttempts, ProofNonces

VARIABLE focus   \* the component that moves

mcVars == <<vars, focus, limVars, attVars, proofVars>>

\* A longer run of the clock on one device whose store may fail.
Rotation == INSTANCE Pairing WITH
    TokenTTL <- 2, GracePeriod <- 1, StoreMayFail <- TRUE, Racing <- {},
    MaxChallenges <- 1, MaxTokens <- 4, MaxNow <- 6

MCInit ==
    /\ focus \in {"devices", "rotation", "limiter", "tracker", "proof"}
    /\ IF focus = "rotation" THEN Rotation!Init ELSE Init
    /\ LimInit /\ AttInit /\ ProofInit
    /\ focus # "proof" => stamp = [n \in Nonces |-> 0]

Rest(rest) == UNCHANGED <<focus, rest>>

MCNext ==
    \/ focus = "devices" /\ Next /\ Rest(<<limVars, attVars, proofVars>>)
    \/ focus = "rotation" /\ Rotation!Next /\ Rest(<<limVars, attVars, proofVars>>)
    \/ focus = "limiter" /\ LimNext /\ Rest(<<vars, attVars, proofVars>>)
    \/ focus = "tracker" /\ AttNext /\ Rest(<<vars, limVars, proofVars>>)
    \/ focus = "proof" /\ ProofNext /\ Rest(<<vars, limVars, attVars>>)

MCSpec == MCInit /\ [][MCNext]_mcVars
=============================================================================
