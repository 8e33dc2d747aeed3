---------------------------- MODULE PairAttempts ----------------------------
(***************************************************************************)
(* The lockout of POST /pair/complete (api/pairing_attempt.go and the      *)
(* handler in api/pairing_handlers.go).  A request looks at the lockout,   *)
(* lets the pairing service judge its code, and records the outcome, each  *)
(* under a lock of its own; requests of several addresses overlap.         *)
(***************************************************************************)
EXTENDS Naturals, FiniteSets, Functions

CONSTANTS
    Sources,     \* source addresses
    ChallengeKeys,    \* attempt keys: a challenge id, or "active" when none is named
    Requests,      \* requests under way at once
    MaxAttempts,   \* maxAttempts
    Lockout,       \* lockoutWindow, in ticks
    AttMaxNow      \* bound: the clock

ASSUME AttemptConstants ==
    /\ IsFiniteSet(Requests)
    /\ MaxAttempts \in Nat \ {0} /\ Lockout \in Nat \ {0} /\ AttMaxNow \in Nat

VARIABLES
    attNow,
    attempts,     \* ipAttempts and challengeAttempts: key -> failures, until
    requests,     \* request -> stage, address, challenge, code
    streak        \* key -> wrong codes judged since its last success or lockout

attVars == <<attNow, attempts, requests, streak>>

Keys == Sources \cup ChallengeKeys
Unlocked == 0
NoState == [failures |-> 0, until |-> Unlocked]
Idle == [at |-> "idle"]

AttInit ==
    /\ attNow = 0
    /\ attempts = <<>>
    /\ requests = [r \in Requests |-> Idle]
    /\ streak = [k \in Keys |-> 0]

State(k) == IF k \in DOMAIN attempts THEN attempts[k] ELSE NoState
KeysOf(r) == {requests[r].address, requests[r].challenge}

(* attemptLocked: an expired lockout is dropped when it is looked at.      *)
LockOver(k) == State(k).until # Unlocked /\ attNow > State(k).until
attemptLocked(k) == State(k).until # Unlocked /\ attNow <= State(k).until
WithoutExpired(D) == Restrict(attempts, DOMAIN attempts \ {k \in D : LockOver(k)})

(* isLocked looks at the challenge only when the address is free.          *)
Looked(a, c) == IF attemptLocked(a) THEN {a} ELSE {a, c}

Complete(r, a, c, right) ==
    /\ requests[r].at = "idle"
    /\ attempts' = WithoutExpired(Looked(a, c))
    /\ streak' = [k \in Keys |-> IF k \in Looked(a, c) /\ LockOver(k) THEN 0 ELSE streak[k]]
    /\ requests' = IF attemptLocked(a) \/ attemptLocked(c) THEN requests
                   ELSE [requests EXCEPT ![r] = [at |-> "admitted", address |-> a,
                                                 challenge |-> c, right |-> right]]
    /\ UNCHANGED attNow

(* CompletePairingWithProofKey compares the code; a bad device name, a     *)
(* missing or an expired challenge leave the counters alone.               *)
Judged(r) ==
    /\ requests[r].at = "admitted"
    /\ requests' = [requests EXCEPT ![r].at = "judged"]
    /\ streak' = IF requests[r].right THEN streak
                 ELSE [k \in Keys |-> streak[k] + (IF k \in KeysOf(r) THEN 1 ELSE 0)]
    /\ UNCHANGED <<attNow, attempts>>

NotJudged(r) ==
    /\ requests[r].at = "admitted"
    /\ requests' = [requests EXCEPT ![r] = Idle]
    /\ UNCHANGED <<attNow, attempts, streak>>

LockedAfter(s, n) ==
    IF s.failures + 1 >= n THEN [failures |-> 0, until |-> attNow + Lockout]
                           ELSE [s EXCEPT !.failures = @ + 1]
OneTooLate(s) == LockedAfter(s, MaxAttempts + 1)
nextAttemptState(s) == LockedAfter(s, MaxAttempts)

recordFailure(r) ==
    /\ requests[r].at = "judged" /\ ~requests[r].right
    /\ attempts' = [k \in DOMAIN attempts \cup KeysOf(r) |->
                        IF k \in KeysOf(r) THEN nextAttemptState(State(k)) ELSE attempts[k]]
    /\ requests' = [requests EXCEPT ![r] = Idle]
    /\ UNCHANGED <<attNow, streak>>

reset(r) ==
    /\ requests[r].at = "judged" /\ requests[r].right
    /\ attempts' = Restrict(attempts, DOMAIN attempts \ KeysOf(r))
    /\ streak' = [k \in Keys |-> IF k \in KeysOf(r) THEN 0 ELSE streak[k]]
    /\ requests' = [requests EXCEPT ![r] = Idle]
    /\ UNCHANGED attNow

AttTick ==
    /\ attNow < AttMaxNow
    /\ attNow' = attNow + 1
    /\ UNCHANGED <<attempts, requests, streak>>

AttNext ==
    \/ AttTick
    \/ \E r \in Requests :
        \/ \E a \in Sources, c \in ChallengeKeys, right \in BOOLEAN : Complete(r, a, c, right)
        \/ Judged(r) \/ NotJudged(r) \/ recordFailure(r) \/ reset(r)

AttSpec == AttInit /\ [][AttNext]_attVars
-----------------------------------------------------------------------------
(* "After maxAttempts failures, the tracker enters a lockout state": no    *)
(* address and no challenge has more wrong codes judged in a row than      *)
(* maxAttempts and the requests that were already past the check when the  *)
(* last of them was counted.                                               *)
GuessesBounded ==
    \A k \in Keys : streak[k] <= MaxAttempts - 1 + Cardinality(Requests)
=============================================================================
