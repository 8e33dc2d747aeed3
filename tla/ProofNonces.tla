---------------------------- MODULE ProofNonces ----------------------------
(***************************************************************************)
(* The freshness of a proof of possession (api/proof.go).  A request takes *)
(* the time, checks its timestamp against it and looks for its nonce; once *)
(* its body is read and the signature verified it consumes the nonce.      *)
(* The tracker forgets expired nonces in a sweep and caps their number.    *)
(* Two requests may carry one proof: a client's retry, or a copy.          *)
(***************************************************************************)
EXTENDS Integers, FiniteSets, Functions, FiniteSetsExt

CONSTANTS
    Nonces,        \* proofs, each with its nonce
    ProofRequests, \* requests under way at once
    Skew,          \* proofSkewWindow
    ReplayWindow,  \* proofReplayWindow
    MaxNonces,     \* maxProofNonces
    ProofMaxNow    \* bound: the clock

ASSUME ProofConstants == {Skew, ReplayWindow, MaxNonces, ProofMaxNow} \subseteq Nat

VARIABLES
    proofNow,
    nonces,       \* t.nonces: nonce -> expiry
    sweptAt,      \* t.lastSweep
    stamp,        \* nonce -> the timestamp the client signed
    proofs,       \* request -> stage, nonce and the time it took
    acceptedAt,   \* nonce -> when it was last accepted
    tooSoon,      \* nonces accepted again within the replay window
    forced        \* nonces the cap evicted

proofVars == <<proofNow, nonces, sweptAt, stamp, proofs, acceptedAt, tooSoon, forced>>

Never == 0 - 1
NoProof == [at |-> "idle"]
Untaken == [x \in {} |-> x]

ProofInit ==
    /\ proofNow = 0 /\ sweptAt = 0
    /\ nonces = Untaken
    /\ stamp \in [Nonces -> 0 .. ProofMaxNow]
    /\ proofs = [r \in ProofRequests |-> NoProof]
    /\ acceptedAt = [n \in Nonces |-> Never]
    /\ tooSoon = {} /\ forced = {}

NonceExpired(n, t) == nonces[n] <= t
seen(n, t) == n \in DOMAIN nonces /\ ~NonceExpired(n, t)
InSkew(n) == proofNow - Skew <= stamp[n] /\ stamp[n] <= proofNow + Skew

(* verifyCredentialProof up to the reading of the body.                    *)
Arrives(r, n) ==
    /\ proofs[r] = NoProof
    /\ InSkew(n) /\ ~seen(n, proofNow)
    /\ proofs' = [proofs EXCEPT ![r] = [at |-> "verify", nonce |-> n, took |-> proofNow]]
    /\ UNCHANGED <<proofNow, nonces, sweptAt, stamp, acceptedAt, tooSoon, forced>>

(* A body too large, or a signature that does not verify.                  *)
Refused(r) ==
    /\ proofs[r] # NoProof
    /\ proofs' = [proofs EXCEPT ![r] = NoProof]
    /\ UNCHANGED <<proofNow, nonces, sweptAt, stamp, acceptedAt, tooSoon, forced>>

(* use: the sweep with its cap, then the nonce is taken.                   *)
SweepIsDue(t) == t - sweptAt >= 1
Kept(t) == IF SweepIsDue(t) THEN {n \in DOMAIN nonces : ~NonceExpired(n, t)} ELSE DOMAIN nonces
CapsTo(t) == IF SweepIsDue(t) /\ Cardinality(Kept(t)) > MaxNonces
             THEN kSubset(MaxNonces, Kept(t)) ELSE {Kept(t)}

SeenWasEnough(n, K, t) == TRUE
Unconsumed(n, K, t) == n \notin K \/ NonceExpired(n, t)

use(r) ==
    LET n == proofs[r].nonce
        t == proofs[r].took
    IN  /\ proofs[r] # NoProof
        /\ \E K \in CapsTo(t) :
            /\ forced' = forced \cup (Kept(t) \ K)
            /\ nonces' = IF Unconsumed(n, K, t)
                         THEN [x \in K \cup {n} |-> IF x = n THEN t + ReplayWindow
                                                    ELSE nonces[x]]
                         ELSE Restrict(nonces, K)
            /\ acceptedAt' = IF Unconsumed(n, K, t)
                             THEN [acceptedAt EXCEPT ![n] = t] ELSE acceptedAt
            /\ tooSoon' = IF Unconsumed(n, K, t) /\ acceptedAt[n] # Never
                             /\ proofNow < acceptedAt[n] + ReplayWindow
                          THEN tooSoon \cup {n} ELSE tooSoon
        /\ sweptAt' = IF SweepIsDue(t) THEN t ELSE sweptAt
        /\ proofs' = [proofs EXCEPT ![r] = NoProof]
        /\ UNCHANGED <<proofNow, stamp>>

ProofTick ==
    /\ proofNow < ProofMaxNow
    /\ proofNow' = proofNow + 1
    /\ UNCHANGED <<nonces, sweptAt, stamp, proofs, acceptedAt, tooSoon, forced>>

ProofNext ==
    \/ ProofTick
    \/ \E r \in ProofRequests : Refused(r) \/ use(r) \/ \E n \in Nonces : Arrives(r, n)

ProofSpec == ProofInit /\ [][ProofNext]_proofVars
-----------------------------------------------------------------------------
(* "rejecting any nonce that has been seen within the replay window": two  *)
(* requests with one proof are not both let through within it, in whatever *)
(* order they check and consume the nonce and whoever sweeps between, save *)
(* for nonces the hard cap threw out.                                      *)
NoReplayInWindow == tooSoon \subseteq forced
=============================================================================
