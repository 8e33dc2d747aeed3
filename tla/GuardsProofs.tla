---------------------------- MODULE GuardsProofs ----------------------------
(***************************************************************************)
(* The guards of the pairing endpoints, for every limit and every number   *)
(* of requests at once: sweeping idle buckets is neutral, wrong codes are  *)
(* cut off, and a proof is not accepted twice within its window.           *)
(***************************************************************************)
EXTENDS RateLimiter, PairAttempts, ProofNonces, FiniteSetTheorems, TLAPS

-----------------------------------------------------------------------------
(* Proof nonces.                                                           *)

\* A nonce that was accepted and not thrown out by the cap is remembered until
\* the window is over.
NonceInv ==
    /\ proofNow \in Nat
    /\ proofs \in [ProofRequests -> {NoProof} \cup
                      [at : {"verify"}, nonce : Nonces, took : 0..proofNow]]
    /\ DOMAIN nonces \subseteq Nonces /\ \A n \in DOMAIN nonces : nonces[n] \in Nat
    /\ acceptedAt \in [Nonces -> Nat \cup {Never}]
    /\ tooSoon \subseteq forced
    /\ \A n \in Nonces \ forced :
          acceptedAt[n] # Never /\ proofNow < acceptedAt[n] + ReplayWindow =>
              n \in DOMAIN nonces /\ nonces[n] = acceptedAt[n] + ReplayWindow

\* use: whoever sweeps, and with whatever time it took on arrival, the nonces
\* still in their window stay or are counted as forced out.
LEMMA UseKeeps ==
    ASSUME NonceInv, NEW r \in ProofRequests, use(r)
    PROVE  NonceInv'
<1>1. PICK n, t : n = proofs[r].nonce /\ t = proofs[r].took
  OBVIOUS
<1>2. /\ n \in Nonces /\ t \in Nat /\ t <= proofNow
      /\ proofNow \in Nat /\ ReplayWindow \in Nat
  BY <1>1, ProofConstants DEF use, NonceInv
<1>3. PICK K \in CapsTo(t) :
        /\ forced' = forced \cup (Kept(t) \ K)
        /\ nonces' = IF Unconsumed(n, K, t)
                     THEN [x \in K \cup {n} |-> IF x = n THEN t + ReplayWindow ELSE nonces[x]]
                     ELSE Restrict(nonces, K)
        /\ acceptedAt' = IF Unconsumed(n, K, t)
                         THEN [acceptedAt EXCEPT ![n] = t] ELSE acceptedAt
        /\ tooSoon' = IF /\ Unconsumed(n, K, t) /\ acceptedAt[n] # Never
                         /\ proofNow < acceptedAt[n] + ReplayWindow
                      THEN tooSoon \cup {n} ELSE tooSoon
  BY <1>1 DEF use
<1>4. K \subseteq Kept(t) /\ Kept(t) \subseteq DOMAIN nonces
      /\ \A x \in DOMAIN nonces : x \notin Kept(t) => nonces[x] <= t
  BY DEF CapsTo, Kept, kSubset, NonceExpired
<1>5. /\ proofs' = [proofs EXCEPT ![r] = NoProof] /\ proofNow' = proofNow
  BY DEF use
<1>6. proofs' \in [ProofRequests -> {NoProof} \cup
                      [at : {"verify"}, nonce : Nonces, took : 0..proofNow']]
  BY <1>5 DEF NonceInv
<1>7. /\ DOMAIN nonces' \subseteq K \cup {n}
      /\ K \subseteq DOMAIN nonces'
      /\ \A x \in K : x # n => nonces'[x] = nonces[x]
      /\ Unconsumed(n, K, t) => n \in DOMAIN nonces' /\ nonces'[n] = t + ReplayWindow
      /\ ~Unconsumed(n, K, t) => DOMAIN nonces' = K /\ \A x \in K : nonces'[x] = nonces[x]
  BY <1>3, <1>4 DEF Restrict, Unconsumed
<1>8. DOMAIN nonces' \subseteq Nonces /\ \A x \in DOMAIN nonces' : nonces'[x] \in Nat
  BY <1>2, <1>4, <1>7 DEF NonceInv
<1>9. /\ acceptedAt' \in [Nonces -> Nat \cup {Never}]
      /\ \A x \in Nonces : x # n => acceptedAt'[x] = acceptedAt[x]
      /\ acceptedAt'[n] = IF Unconsumed(n, K, t) THEN t ELSE acceptedAt[n]
  BY <1>2, <1>3 DEF NonceInv
\* What is in its window and not forced out is among the nonces kept.
<1>10. ASSUME NEW x \in Nonces \ forced', acceptedAt[x] # Never,
              proofNow < acceptedAt[x] + ReplayWindow
       PROVE  x \in K /\ nonces[x] = acceptedAt[x] + ReplayWindow /\ nonces[x] > t
  <2>1. x \in DOMAIN nonces /\ nonces[x] = acceptedAt[x] + ReplayWindow
    BY <1>3, <1>10 DEF NonceInv
  <2>2. acceptedAt[x] \in Nat
    BY <1>10 DEF NonceInv
  <2>3. nonces[x] > t
    BY <1>2, <1>10, <2>1, <2>2
  <2>4. x \in Kept(t)
    BY <1>2, <1>4, <2>1, <2>2, <2>3
  <2> QED BY <1>3, <1>10, <2>1, <2>3, <2>4
<1>11. tooSoon' \subseteq forced'
  <2>1. ASSUME Unconsumed(n, K, t), acceptedAt[n] # Never,
               proofNow < acceptedAt[n] + ReplayWindow, n \notin forced'
        PROVE  FALSE
    <3>1. n \in K /\ nonces[n] = acceptedAt[n] + ReplayWindow /\ nonces[n] > t
      BY <1>2, <1>10, <2>1
    <3>2. nonces[n] \in Nat
      BY <1>4, <3>1 DEF NonceInv
    <3> QED BY <1>2, <2>1, <3>1, <3>2 DEF Unconsumed, NonceExpired
  <2> QED BY <1>3, <2>1 DEF NonceInv
<1>12. ASSUME NEW x \in Nonces \ forced', acceptedAt'[x] # Never,
              proofNow' < acceptedAt'[x] + ReplayWindow
       PROVE  x \in DOMAIN nonces' /\ nonces'[x] = acceptedAt'[x] + ReplayWindow
  <2>1. CASE x = n /\ Unconsumed(n, K, t)
    BY <2>1, <1>7, <1>9
  <2>2. CASE ~(x = n /\ Unconsumed(n, K, t))
    <3>1. acceptedAt'[x] = acceptedAt[x]
      BY <2>2, <1>9
    <3>2. x \in K /\ nonces[x] = acceptedAt[x] + ReplayWindow
      BY <3>1, <1>5, <1>10, <1>12
    <3> QED BY <2>2, <3>1, <3>2, <1>7
  <2> QED BY <2>1, <2>2
<1> QED BY <1>2, <1>5, <1>6, <1>8, <1>9, <1>11, <1>12 DEF NonceInv

LEMMA NonceStep == NonceInv /\ [ProofNext]_proofVars => NonceInv'
<1> SUFFICES ASSUME NonceInv, [ProofNext]_proofVars PROVE NonceInv'
  OBVIOUS
<1>1. ASSUME NEW r \in ProofRequests, NEW n \in Nonces, Arrives(r, n) PROVE NonceInv'
  <2>1. proofs' = [proofs EXCEPT ![r] = [at |-> "verify", nonce |-> n, took |-> proofNow]]
    BY <1>1 DEF Arrives
  <2>2. proofs' \in [ProofRequests -> {NoProof} \cup
                      [at : {"verify"}, nonce : Nonces, took : 0..proofNow]]
    BY <2>1 DEF NonceInv
  <2> QED BY <1>1, <2>2 DEF NonceInv, Arrives
<1>2. ASSUME NEW r \in ProofRequests, Refused(r) PROVE NonceInv'
  <2>1. proofs' \in [ProofRequests -> {NoProof} \cup
                      [at : {"verify"}, nonce : Nonces, took : 0..proofNow]]
    BY <1>2 DEF NonceInv, Refused
  <2> QED BY <1>2, <2>1 DEF NonceInv, Refused
<1>3. CASE ProofTick
  <2>1. /\ proofNow' = proofNow + 1 /\ proofNow \in Nat
        /\ UNCHANGED <<nonces, proofs, acceptedAt, tooSoon, forced>>
    BY <1>3 DEF ProofTick, NonceInv
  <2>2. 0..proofNow \subseteq 0..proofNow'
    BY <2>1
  <2>3. proofs' \in [ProofRequests -> {NoProof} \cup
                      [at : {"verify"}, nonce : Nonces, took : 0..proofNow']]
    BY <2>1, <2>2 DEF NonceInv
  <2>4. ASSUME NEW n \in Nonces \ forced, acceptedAt[n] # Never,
               proofNow' < acceptedAt[n] + ReplayWindow
        PROVE  n \in DOMAIN nonces /\ nonces[n] = acceptedAt[n] + ReplayWindow
    <3>1. acceptedAt[n] \in Nat /\ ReplayWindow \in Nat
      BY <2>4, ProofConstants DEF NonceInv
    <3> QED BY <2>1, <2>4, <3>1 DEF NonceInv
  <2> QED BY <2>1, <2>3, <2>4 DEF NonceInv
<1>4. CASE UNCHANGED proofVars
  BY <1>4 DEF NonceInv, proofVars
<1> QED BY <1>1, <1>2, <1>3, <1>4, UseKeeps DEF ProofNext

\* One proof is not let through twice within the replay window, however the
\* requests that carry it overlap and whoever sweeps between (seen, use), save
\* for nonces the hard cap threw out.
THEOREM ProofsUsedOnce == ProofSpec => []NoReplayInWindow
<1>1. ProofInit => NonceInv
  BY ProofConstants DEF ProofInit, NonceInv, Untaken, Never
<1>2. NonceInv => NoReplayInWindow
  BY DEF NonceInv, NoReplayInWindow
<1> QED BY <1>1, <1>2, NonceStep, PTL DEF ProofSpec
-----------------------------------------------------------------------------
(* Attempts.                                                               *)

\* The requests past the check that concern key k: still to be judged, and
\* judged wrong but not yet counted.
Admitted(k) == {r \in Requests : requests[r].at = "admitted" /\ k \in KeysOf(r)}
Uncounted(k) ==
    {r \in Requests : requests[r].at = "judged" /\ ~requests[r].right /\ k \in KeysOf(r)}

\* No lockout, not even an expired one, is recorded for k.
Free(k) == State(k).until = Unlocked

RequestType ==
    {Idle} \cup [at : {"admitted", "judged"}, address : Sources, challenge : ChallengeKeys,
                 right : BOOLEAN]

\* While a key k is free its wrong codes are those counted and those about to be;
\* once it is locked nobody is admitted for it, and those admitted before are
\* all that can still add to the streak.
KeyHolds(k) ==
    IF Free(k)
    THEN streak[k] <= State(k).failures + Cardinality(Uncounted(k))
    ELSE streak[k] + Cardinality(Admitted(k)) <= MaxAttempts - 1 + Cardinality(Requests)

AttemptInv ==
    /\ attNow \in Nat
    /\ requests \in [Requests -> RequestType]
    /\ DOMAIN attempts \subseteq Keys
    /\ \A k \in DOMAIN attempts : attempts[k] \in [failures : 0..(MaxAttempts - 1), until : Nat]
    /\ streak \in [Keys -> Nat]
    /\ \A k \in Keys : KeyHolds(k)

LEMMA StateTypes ==
    ASSUME AttemptInv, NEW k
    PROVE  /\ State(k).failures \in Nat /\ State(k).failures <= MaxAttempts - 1
           /\ State(k).until \in Nat
           /\ State(k) = [failures |-> State(k).failures, until |-> State(k).until]
  BY AttemptConstants DEF AttemptInv, State, NoState, Unlocked

\* Two disjoint sets of requests are no more than the requests.
LEMMA Disjoint ==
    ASSUME NEW S, S \subseteq Requests, NEW T, T \subseteq Requests, S \cap T = {}
    PROVE  /\ Cardinality(S) \in Nat /\ Cardinality(T) \in Nat /\ Cardinality(Requests) \in Nat
           /\ Cardinality(S) + Cardinality(T) <= Cardinality(Requests)
<1>1. IsFiniteSet(S) /\ IsFiniteSet(T) /\ IsFiniteSet(S \cup T)
  BY AttemptConstants, FS_Subset
<1>2. Cardinality(S \cup T) <= Cardinality(Requests)
  BY AttemptConstants, FS_Subset
<1>3. Cardinality(S \cup T) = Cardinality(S) + Cardinality(T) - Cardinality(S \cap T)
  BY <1>1, FS_Union
<1>4. Cardinality(S \cap T) = 0
  BY FS_EmptySet
<1>5. /\ Cardinality(S) \in Nat /\ Cardinality(T) \in Nat /\ Cardinality(Requests) \in Nat
      /\ Cardinality(S \cup T) \in Nat
  BY <1>1, AttemptConstants, FS_CardinalityType
<1> QED BY <1>2, <1>3, <1>4, <1>5

LEMMA Counted ==
    ASSUME NEW k
    PROVE  /\ Cardinality(Uncounted(k)) \in Nat /\ Cardinality(Admitted(k)) \in Nat
           /\ Cardinality(Requests) \in Nat
           /\ Cardinality(Uncounted(k)) + Cardinality(Admitted(k)) <= Cardinality(Requests)
  BY Disjoint, SMTT(20) DEF Uncounted, Admitted

LEMMA Added ==
    ASSUME NEW S, S \subseteq Requests, NEW r \in Requests
    PROVE  /\ Cardinality(S) \in Nat
           /\ r \notin S => Cardinality(S \cup {r}) = Cardinality(S) + 1
           /\ r \in S => Cardinality(S \ {r}) = Cardinality(S) - 1
<1>1. IsFiniteSet(S)
  BY AttemptConstants, FS_Subset
<1> QED BY <1>1, FS_CardinalityType, FS_AddElement, FS_RemoveElement

\* A key that a step leaves alone.
LEMMA KeyFrame ==
    ASSUME AttemptInv, NEW k \in Keys,
           State(k)' = State(k), streak'[k] = streak[k],
           Free(k) => Uncounted(k)' = Uncounted(k),
           ~Free(k) => Admitted(k)' \subseteq Admitted(k)
    PROVE  KeyHolds(k)'
<1>1. Free(k)' <=> Free(k)
  BY DEF Free
<1>2. CASE Free(k)
  BY <1>1, <1>2 DEF AttemptInv, KeyHolds
<1>3. CASE ~Free(k)
  <2>1. IsFiniteSet(Admitted(k)) /\ Cardinality(Admitted(k)') <= Cardinality(Admitted(k))
    <3>1. IsFiniteSet(Admitted(k))
      BY AttemptConstants, FS_Subset DEF Admitted
    <3> QED BY <1>3, <3>1, FS_Subset
  <2>2. Cardinality(Admitted(k)') \in Nat
    BY <2>1, <1>3, FS_Subset, FS_CardinalityType
  <2>3. streak[k] \in Nat /\ Cardinality(Admitted(k)) \in Nat /\ Cardinality(Requests) \in Nat
    BY Counted DEF AttemptInv
  <2>4. streak[k] + Cardinality(Admitted(k)) <= MaxAttempts - 1 + Cardinality(Requests)
    BY <1>3 DEF AttemptInv, KeyHolds
  <2> QED BY <1>1, <1>3, <2>1, <2>2, <2>3, <2>4, AttemptConstants DEF KeyHolds
<1> QED BY <1>2, <1>3
\* A request other than r is where it was.
LEMMA OthersStay ==
    ASSUME NEW r \in Requests, NEW v, AttemptInv, requests' = [requests EXCEPT ![r] = v], NEW k
    PROVE  /\ requests'[r] = v
           /\ Admitted(k)' \ {r} = Admitted(k) \ {r}
           /\ Uncounted(k)' \ {r} = Uncounted(k) \ {r}
<1>1. requests'[r] = v /\ \A q \in Requests : q # r => requests'[q] = requests[q]
  BY DEF AttemptInv
<1>2. \A q \in Requests : q # r => KeysOf(q)' = KeysOf(q)
  BY <1>1 DEF KeysOf
<1> QED BY <1>1, <1>2 DEF Admitted, Uncounted

\* isLocked: it admits a request only when neither key has a lockout left.
LEMMA CompleteKeepsKeys ==
    ASSUME AttemptInv, NEW r \in Requests, NEW a \in Sources, NEW c \in ChallengeKeys,
           NEW right \in BOOLEAN, Complete(r, a, c, right)
    PROVE  AttemptInv'
<1> DEFINE L == Looked(a, c)
<1>1. /\ requests[r].at = "idle" /\ attempts' = WithoutExpired(L) /\ attNow' = attNow
      /\ streak' = [k \in Keys |-> IF k \in L /\ LockOver(k) THEN 0 ELSE streak[k]]
      /\ requests' = IF attemptLocked(a) \/ attemptLocked(c) THEN requests
                     ELSE [requests EXCEPT ![r] = [at |-> "admitted", address |-> a,
                                                   challenge |-> c, right |-> right]]
  BY DEF Complete
<1>2. /\ requests' \in [Requests -> RequestType]
      /\ streak' \in [Keys -> Nat]
  <2>1. [at |-> "admitted", address |-> a, challenge |-> c, right |-> right] \in RequestType
    BY DEF RequestType
  <2>2. requests' \in [Requests -> RequestType]
    BY <1>1, <2>1 DEF AttemptInv
  <2> QED BY <1>1, <2>2 DEF AttemptInv
<1>3. /\ DOMAIN attempts' = DOMAIN attempts \ {k \in L : LockOver(k)}
      /\ \A k \in DOMAIN attempts' : attempts'[k] = attempts[k]
  BY <1>1 DEF WithoutExpired, Restrict
<1>4. /\ DOMAIN attempts' \subseteq Keys
      /\ \A k \in DOMAIN attempts' : attempts'[k] \in [failures : 0..(MaxAttempts - 1), until : Nat]
  BY <1>3 DEF AttemptInv
<1>5. ASSUME NEW k \in Keys PROVE KeyHolds(k)'
  <2>1. CASE k \in L /\ LockOver(k)
    <3>1. k \notin DOMAIN attempts' /\ streak'[k] = 0
      BY <1>1, <1>3, <2>1
    <3>2. State(k)' = NoState
      BY <3>1 DEF State
    <3>3. Cardinality(Uncounted(k)') \in Nat
      <4>1. Uncounted(k)' \subseteq Requests
        BY DEF Uncounted
      <4> QED BY <4>1, AttemptConstants, FS_Subset, FS_CardinalityType
    <3> QED BY <3>1, <3>2, <3>3 DEF KeyHolds, Free, NoState
  <2>2. CASE ~(k \in L /\ LockOver(k))
    <3>1. State(k)' = State(k) /\ streak'[k] = streak[k]
      BY <1>1, <1>3, <2>2 DEF State
    <3>2. Uncounted(k)' = Uncounted(k)
      <4>1. CASE attemptLocked(a) \/ attemptLocked(c)
        BY <4>1, <1>1 DEF Uncounted, KeysOf
      <4>2. CASE ~(attemptLocked(a) \/ attemptLocked(c))
        <5>1. requests'[r].at = "admitted" /\ Uncounted(k)' \ {r} = Uncounted(k) \ {r}
          <6>1. PICK v : v = [at |-> "admitted", address |-> a, challenge |-> c, right |-> right]
            OBVIOUS
          <6>2. requests' = [requests EXCEPT ![r] = v] /\ v.at = "admitted"
            BY <4>2, <6>1, <1>1
          <6> QED BY <6>2, OthersStay
        <5>2. r \notin Uncounted(k) /\ r \notin Uncounted(k)'
          BY <5>1, <1>1 DEF Uncounted
        <5> QED BY <5>1, <5>2
      <4> QED BY <4>1, <4>2
    <3>3. ~Free(k) => Admitted(k)' \subseteq Admitted(k)
      <4>1. CASE attemptLocked(a) \/ attemptLocked(c)
        BY <4>1, <1>1 DEF Admitted, KeysOf
      <4>2. CASE ~(attemptLocked(a) \/ attemptLocked(c)) /\ k \in {a, c}
        <5>1. k \in L
          BY <4>2 DEF Looked
        <5>2. ~LockOver(k) /\ ~attemptLocked(k)
          BY <5>1, <4>2, <2>2
        <5>3. State(k).until \in Nat /\ attNow \in Nat
          BY StateTypes DEF AttemptInv
        <5> QED BY <5>2, <5>3 DEF LockOver, attemptLocked, Free
      <4>3. CASE ~(attemptLocked(a) \/ attemptLocked(c)) /\ k \notin {a, c}
        <5>1. /\ requests'[r] = [at |-> "admitted", address |-> a, challenge |-> c, right |-> right]
              /\ Admitted(k)' \ {r} = Admitted(k) \ {r}
          BY <4>3, <1>1, OthersStay
        <5>2. r \notin Admitted(k)'
          BY <4>3, <5>1 DEF Admitted, KeysOf
        <5> QED BY <5>1, <5>2
      <4> QED BY <4>1, <4>2, <4>3
    <3> QED BY <3>1, <3>2, <3>3, KeyFrame
  <2> QED BY <2>1, <2>2
<1> QED BY <1>1, <1>2, <1>4, <1>5 DEF AttemptInv

\* A wrong code adds to the streak of its keys, and is then about to be counted.
LEMMA JudgedKeepsKeys ==
    ASSUME AttemptInv, NEW r \in Requests, Judged(r)
    PROVE  AttemptInv'
<1>1. /\ requests[r].at = "admitted" /\ attNow' = attNow /\ attempts' = attempts
      /\ requests' = [requests EXCEPT ![r].at = "judged"]
      /\ streak' = IF requests[r].right THEN streak
                   ELSE [k \in Keys |-> streak[k] + (IF k \in KeysOf(r) THEN 1 ELSE 0)]
  BY DEF Judged
<1>2. PICK v : v = [requests[r] EXCEPT !.at = "judged"]
  OBVIOUS
<1>3. /\ requests' = [requests EXCEPT ![r] = v] /\ v \in RequestType
      /\ v.at = "judged" /\ v.right = requests[r].right
      /\ v.address = requests[r].address /\ v.challenge = requests[r].challenge
  BY <1>1, <1>2 DEF AttemptInv, RequestType, Idle
<1>4. requests' \in [Requests -> RequestType] /\ streak' \in [Keys -> Nat]
  BY <1>1, <1>3 DEF AttemptInv
<1>5. KeysOf(r)' = KeysOf(r) /\ requests'[r] = v
  BY <1>3 DEF KeysOf, AttemptInv
<1>6. ASSUME NEW k \in Keys PROVE KeyHolds(k)'
  <2>1. State(k)' = State(k)
    BY <1>1 DEF State
  <2>2. Admitted(k)' \ {r} = Admitted(k) \ {r} /\ Uncounted(k)' \ {r} = Uncounted(k) \ {r}
    BY <1>3, OthersStay
  <2>3. r \notin Admitted(k)' /\ r \notin Uncounted(k)
    BY <1>1, <1>3, <1>5 DEF Admitted, Uncounted
  <2>4. CASE requests[r].right \/ k \notin KeysOf(r)
    <3>1. r \notin Uncounted(k)'
      BY <1>3, <1>5, <2>4 DEF Uncounted
    <3>2. streak'[k] = streak[k]
      <4>1. streak[k] + 0 = streak[k]
        BY DEF AttemptInv
      <4> QED BY <1>1, <2>4, <4>1
    <3> QED BY <2>1, <2>2, <2>3, <3>1, <3>2, KeyFrame
  <2>5. CASE ~requests[r].right /\ k \in KeysOf(r)
    <3>1. r \in Uncounted(k)' /\ r \in Admitted(k) /\ streak'[k] = streak[k] + 1
      BY <1>1, <1>3, <1>5, <2>5 DEF Uncounted, Admitted
    <3>2. Uncounted(k)' = Uncounted(k) \cup {r} /\ Admitted(k)' = Admitted(k) \ {r}
      BY <2>2, <2>3, <3>1
    <3>3. Uncounted(k) \subseteq Requests /\ Admitted(k) \subseteq Requests
      BY DEF Uncounted, Admitted
    <3>4. /\ Cardinality(Uncounted(k)') = Cardinality(Uncounted(k)) + 1
          /\ Cardinality(Admitted(k)') = Cardinality(Admitted(k)) - 1
          /\ Cardinality(Uncounted(k)) \in Nat /\ Cardinality(Admitted(k)) \in Nat
      BY <2>3, <3>1, <3>2, <3>3, Added
    <3>5. streak[k] \in Nat /\ State(k).failures \in Nat /\ Cardinality(Requests) \in Nat
      BY StateTypes, Counted DEF AttemptInv
    <3>6. Free(k)' <=> Free(k)
      BY <2>1 DEF Free
    <3>7. CASE Free(k)
      <4>1. streak[k] <= State(k).failures + Cardinality(Uncounted(k))
        BY <3>7 DEF AttemptInv, KeyHolds
      <4> QED BY <2>1, <3>1, <3>4, <3>5, <3>6, <3>7, <4>1 DEF KeyHolds
    <3>8. CASE ~Free(k)
      <4>1. streak[k] + Cardinality(Admitted(k)) <= MaxAttempts - 1 + Cardinality(Requests)
        BY <3>8 DEF AttemptInv, KeyHolds
      <4> QED BY <3>1, <3>4, <3>5, <3>6, <3>8, <4>1, AttemptConstants DEF KeyHolds
    <3> QED BY <3>7, <3>8
  <2> QED BY <2>4, <2>5
<1> QED BY <1>1, <1>4, <1>6 DEF AttemptInv

\* recordFailure counts the code, and locks the key when it is the last one.
LEMMA FailureKeepsKeys ==
    ASSUME AttemptInv, NEW r \in Requests, recordFailure(r)
    PROVE  AttemptInv'
<1>1. /\ requests[r].at = "judged" /\ ~requests[r].right /\ attNow' = attNow /\ streak' = streak
      /\ attempts' = [k \in DOMAIN attempts \cup KeysOf(r) |->
                        IF k \in KeysOf(r) THEN nextAttemptState(State(k)) ELSE attempts[k]]
      /\ requests' = [requests EXCEPT ![r] = Idle]
  BY DEF recordFailure
<1>2. requests' \in [Requests -> RequestType]
  BY <1>1 DEF AttemptInv, RequestType
<1>3. KeysOf(r) \subseteq Keys
  BY <1>1 DEF KeysOf, Keys, AttemptInv, RequestType, Idle
<1>4. attNow \in Nat /\ Lockout \in Nat \ {0} /\ MaxAttempts \in Nat \ {0}
  BY AttemptConstants DEF AttemptInv
<1>5. ASSUME NEW k
      PROVE  LET s == nextAttemptState(State(k)) IN
             /\ s \in [failures : 0..(MaxAttempts - 1), until : Nat]
             /\ State(k).failures + 1 >= MaxAttempts => s.until # Unlocked
             /\ State(k).failures + 1 < MaxAttempts =>
                  s.failures = State(k).failures + 1 /\ s.until = State(k).until
             /\ s.until = Unlocked => State(k).until = Unlocked
  <2>1. PICK s, f, u : s = nextAttemptState(State(k)) /\ f = State(k).failures /\ u = State(k).until
    OBVIOUS
  <2>2. f \in Nat /\ f <= MaxAttempts - 1 /\ u \in Nat /\ State(k) = [failures |-> f, until |-> u]
    BY <2>1, StateTypes
  <2>3. s = IF f + 1 >= MaxAttempts THEN [failures |-> 0, until |-> attNow + Lockout]
                                    ELSE [failures |-> f + 1, until |-> u]
    BY <2>1, <2>2 DEF nextAttemptState, LockedAfter
  <2>4. attNow + Lockout \in Nat /\ attNow + Lockout # 0
    BY <1>4
  <2>5. CASE f + 1 >= MaxAttempts
    <3>1. s = [failures |-> 0, until |-> attNow + Lockout] /\ 0 \in 0..(MaxAttempts - 1)
      BY <2>3, <2>5, <1>4
    <3> QED BY <2>1, <2>2, <2>4, <2>5, <3>1, <1>4 DEF Unlocked
  <2>6. CASE ~(f + 1 >= MaxAttempts)
    <3>1. s = [failures |-> f + 1, until |-> u] /\ f + 1 \in 0..(MaxAttempts - 1)
      BY <2>2, <2>3, <2>6, <1>4
    <3> QED BY <2>1, <2>2, <2>6, <3>1, <1>4 DEF Unlocked
  <2> QED BY <2>5, <2>6
<1>6. /\ DOMAIN attempts' \subseteq Keys
      /\ \A k \in DOMAIN attempts' : attempts'[k] \in [failures : 0..(MaxAttempts - 1), until : Nat]
  BY <1>1, <1>3, <1>5 DEF AttemptInv
<1>7. ASSUME NEW k \in Keys PROVE KeyHolds(k)'
  <2>1. Admitted(k)' \ {r} = Admitted(k) \ {r} /\ Uncounted(k)' \ {r} = Uncounted(k) \ {r}
        /\ requests'[r] = Idle
    BY <1>1, OthersStay
  <2>2. r \notin Admitted(k)' /\ r \notin Uncounted(k)' /\ r \notin Admitted(k)
    BY <1>1, <2>1 DEF Admitted, Uncounted, Idle
  <2>3. CASE k \notin KeysOf(r)
    <3>1. State(k)' = State(k)
      BY <1>1, <2>3 DEF State
    <3>2. r \notin Uncounted(k)
      BY <2>3 DEF Uncounted
    <3>3. Uncounted(k)' = Uncounted(k) /\ Admitted(k)' \subseteq Admitted(k)
      BY <2>1, <2>2, <3>2
    <3> QED BY <1>1, <3>1, <3>3, KeyFrame
  <2>4. CASE k \in KeysOf(r)
    <3> DEFINE s == nextAttemptState(State(k))
    <3>1. State(k)' = s
      BY <1>1, <2>4 DEF State
    <3>2. r \in Uncounted(k)
      BY <1>1, <2>4 DEF Uncounted
    <3>3. Uncounted(k)' = Uncounted(k) \ {r} /\ Admitted(k)' = Admitted(k)
      BY <2>1, <2>2, <3>2
    <3>4. /\ Cardinality(Uncounted(k)') = Cardinality(Uncounted(k)) - 1
          /\ Cardinality(Uncounted(k)) \in Nat /\ Cardinality(Admitted(k)) \in Nat
          /\ Cardinality(Requests) \in Nat
          /\ Cardinality(Uncounted(k)) + Cardinality(Admitted(k)) <= Cardinality(Requests)
      <4>1. Uncounted(k) \subseteq Requests
        BY DEF Uncounted
      <4> QED BY <3>2, <3>3, <4>1, Added, Counted
    <3>5. /\ State(k).failures + 1 >= MaxAttempts => s.until # Unlocked
          /\ State(k).failures + 1 < MaxAttempts =>
               s.failures = State(k).failures + 1 /\ s.until = State(k).until
          /\ s.until = Unlocked => State(k).until = Unlocked
      BY <1>5
    <3>6. streak[k] \in Nat /\ State(k).failures \in Nat /\ State(k).failures <= MaxAttempts - 1
      BY StateTypes DEF AttemptInv
    <3> HIDE DEF s
    <3>7. CASE s.until = Unlocked
      <4>1. Free(k) /\ Free(k)' /\ s.failures = State(k).failures + 1
        BY <3>1, <3>5, <3>6, <3>7, <1>4 DEF Free
      <4>2. streak[k] <= State(k).failures + Cardinality(Uncounted(k))
        BY <4>1 DEF AttemptInv, KeyHolds
      <4> QED BY <1>1, <3>1, <3>4, <3>6, <4>1, <4>2 DEF KeyHolds
    <3>8. CASE s.until # Unlocked
      <4>1. ~Free(k)'
        BY <3>1, <3>8 DEF Free
      <4>2. streak[k] + Cardinality(Admitted(k)) <= MaxAttempts - 1 + Cardinality(Requests)
        <5>1. CASE Free(k)
          <6>1. streak[k] <= State(k).failures + Cardinality(Uncounted(k))
            BY <5>1 DEF AttemptInv, KeyHolds
          <6> QED BY <3>4, <3>6, <6>1, <1>4
        <5>2. CASE ~Free(k)
          BY <5>2 DEF AttemptInv, KeyHolds
        <5> QED BY <5>1, <5>2
      <4> QED BY <1>1, <3>3, <4>1, <4>2 DEF KeyHolds
    <3> QED BY <3>7, <3>8
  <2> QED BY <2>3, <2>4
<1> QED BY <1>1, <1>2, <1>6, <1>7 DEF AttemptInv
\* reset, after the right code: the keys start afresh.
LEMMA ResetKeepsKeys ==
    ASSUME AttemptInv, NEW r \in Requests, reset(r)
    PROVE  AttemptInv'
<1>1. /\ requests[r].at = "judged" /\ requests[r].right /\ attNow' = attNow
      /\ attempts' = Restrict(attempts, DOMAIN attempts \ KeysOf(r))
      /\ streak' = [k \in Keys |-> IF k \in KeysOf(r) THEN 0 ELSE streak[k]]
      /\ requests' = [requests EXCEPT ![r] = Idle]
  BY DEF reset
<1>2. requests' \in [Requests -> RequestType] /\ streak' \in [Keys -> Nat]
  BY <1>1 DEF AttemptInv, RequestType
<1>3. /\ DOMAIN attempts' = DOMAIN attempts \ KeysOf(r)
      /\ \A k \in DOMAIN attempts' : attempts'[k] = attempts[k]
  BY <1>1 DEF Restrict
<1>4. /\ DOMAIN attempts' \subseteq Keys
      /\ \A k \in DOMAIN attempts' : attempts'[k] \in [failures : 0..(MaxAttempts - 1), until : Nat]
  BY <1>3 DEF AttemptInv
<1>5. ASSUME NEW k \in Keys PROVE KeyHolds(k)'
  <2>1. CASE k \in KeysOf(r)
    <3>1. State(k)' = NoState /\ streak'[k] = 0
      BY <1>1, <1>3, <2>1 DEF State
    <3>2. Cardinality(Uncounted(k)') \in Nat
      <4>1. Uncounted(k)' \subseteq Requests
        BY DEF Uncounted
      <4> QED BY <4>1, AttemptConstants, FS_Subset, FS_CardinalityType
    <3> QED BY <3>1, <3>2 DEF KeyHolds, Free, NoState
  <2>2. CASE k \notin KeysOf(r)
    <3>1. State(k)' = State(k) /\ streak'[k] = streak[k]
      BY <1>1, <1>3, <2>2 DEF State
    <3>2. Admitted(k)' \ {r} = Admitted(k) \ {r} /\ Uncounted(k)' \ {r} = Uncounted(k) \ {r}
          /\ requests'[r] = Idle
      BY <1>1, OthersStay
    <3>3. r \notin Admitted(k)' /\ r \notin Uncounted(k)' /\ r \notin Uncounted(k)
      BY <2>2, <3>2 DEF Admitted, Uncounted, Idle
    <3>4. Uncounted(k)' = Uncounted(k) /\ Admitted(k)' \subseteq Admitted(k)
      BY <3>2, <3>3
    <3> QED BY <3>1, <3>4, KeyFrame
  <2> QED BY <2>1, <2>2
<1> QED BY <1>1, <1>2, <1>4, <1>5 DEF AttemptInv

\* A request refused before its code is judged leaves the counters alone.
LEMMA NotJudgedKeepsKeys ==
    ASSUME AttemptInv, NEW r \in Requests, NotJudged(r)
    PROVE  AttemptInv'
<1>1. /\ requests[r].at = "admitted" /\ UNCHANGED <<attNow, attempts, streak>>
      /\ requests' = [requests EXCEPT ![r] = Idle]
  BY DEF NotJudged
<1>2. requests' \in [Requests -> RequestType]
  BY <1>1 DEF AttemptInv, RequestType
<1>3. ASSUME NEW k \in Keys PROVE KeyHolds(k)'
  <2>1. State(k)' = State(k) /\ streak'[k] = streak[k]
    BY <1>1 DEF State
  <2>2. Admitted(k)' \ {r} = Admitted(k) \ {r} /\ Uncounted(k)' \ {r} = Uncounted(k) \ {r}
        /\ requests'[r] = Idle
    BY <1>1, OthersStay
  <2>3. r \notin Admitted(k)' /\ r \notin Uncounted(k)' /\ r \notin Uncounted(k)
    BY <1>1, <2>2 DEF Admitted, Uncounted, Idle
  <2>4. Uncounted(k)' = Uncounted(k) /\ Admitted(k)' \subseteq Admitted(k)
    BY <2>2, <2>3
  <2> QED BY <2>1, <2>4, KeyFrame
<1> QED BY <1>1, <1>2, <1>3 DEF AttemptInv

LEMMA AttemptStep == AttemptInv /\ [AttNext]_attVars => AttemptInv'
<1> SUFFICES ASSUME AttemptInv, [AttNext]_attVars PROVE AttemptInv'
  OBVIOUS
<1>1. ASSUME UNCHANGED <<attempts, requests, streak>>, attNow' \in Nat PROVE AttemptInv'
  <2>1. ASSUME NEW k \in Keys PROVE KeyHolds(k)'
    <3>1. State(k)' = State(k) /\ Uncounted(k)' = Uncounted(k) /\ Admitted(k)' = Admitted(k)
      BY <1>1 DEF State, Uncounted, Admitted, KeysOf
    <3> QED BY <1>1, <3>1, KeyFrame
  <2> QED BY <1>1, <2>1 DEF AttemptInv
<1>2. CASE AttTick
  BY <1>1, <1>2 DEF AttTick, AttemptInv
<1>3. CASE UNCHANGED attVars
  BY <1>1, <1>3 DEF attVars, AttemptInv
<1> QED BY <1>2, <1>3, CompleteKeepsKeys, JudgedKeepsKeys, NotJudgedKeepsKeys, FailureKeepsKeys,
           ResetKeepsKeys DEF AttNext

\* The tracker cuts a burst of wrong codes off: a key collects maxAttempts of
\* them and those of the requests that were past the check by then (isLocked,
\* recordFailure), for any number of requests at once.
THEOREM GuessesAreCutOff == AttSpec => []GuessesBounded
<1>1. AttInit => AttemptInv
  <2> SUFFICES ASSUME AttInit PROVE AttemptInv
    OBVIOUS
  <2>1. DOMAIN attempts = {} /\ requests \in [Requests -> RequestType] /\ streak \in [Keys -> Nat]
    BY DEF AttInit, RequestType
  <2>2. ASSUME NEW k \in Keys PROVE KeyHolds(k)
    <3>1. State(k) = NoState /\ streak[k] = 0
      BY <2>1 DEF State, AttInit
    <3> QED BY <3>1, Counted DEF KeyHolds, Free, NoState
  <2> QED BY <2>1, <2>2 DEF AttInit, AttemptInv
<1>2. AttemptInv => GuessesBounded
  <2> SUFFICES ASSUME AttemptInv, NEW k \in Keys
               PROVE  streak[k] <= MaxAttempts - 1 + Cardinality(Requests)
    BY DEF GuessesBounded
  <2>1. /\ Cardinality(Uncounted(k)) \in Nat /\ Cardinality(Admitted(k)) \in Nat
        /\ Cardinality(Requests) \in Nat
        /\ Cardinality(Uncounted(k)) + Cardinality(Admitted(k)) <= Cardinality(Requests)
    BY Counted
  <2>2. /\ State(k).failures \in Nat /\ State(k).failures <= MaxAttempts - 1
        /\ streak[k] \in Nat
    BY StateTypes DEF AttemptInv
  <2>3. \/ streak[k] <= State(k).failures + Cardinality(Uncounted(k))
        \/ streak[k] + Cardinality(Admitted(k)) <= MaxAttempts - 1 + Cardinality(Requests)
    BY DEF AttemptInv, KeyHolds
  <2> QED BY <2>1, <2>2, <2>3, AttemptConstants
<1> QED BY <1>1, <1>2, AttemptStep, PTL DEF AttSpec
-----------------------------------------------------------------------------
(* Buckets.                                                                *)

Bucket == [units : Nat, last : 0..limNow]

LimInv ==
    /\ limNow \in Nat
    /\ DOMAIN buckets = Endpoints
    /\ \A e \in Endpoints :
          /\ IsFiniteSet(DOMAIN buckets[e]) /\ Cardinality(DOMAIN buckets[e]) <= MaxBuckets
          /\ \A a \in DOMAIN buckets[e] : buckets[e][a] \in Bucket
    /\ ideal \in [Endpoints -> [Addresses -> Bucket]]
    /\ SweepIsNeutral

\* The bucket a refill leaves, in whole units.
Topped(full, units, elapsed) == IF full <= units + elapsed THEN full ELSE units + elapsed

LEMMA MinOfTwo ==
    ASSUME NEW x \in Nat, NEW y \in Nat
    PROVE  Min({x, y}) = IF x <= y THEN x ELSE y
<1>1. CASE x <= y
  <2>1. \A z \in {x, y} : (\A w \in {x, y} : z =< w) <=> z = x
    BY <1>1
  <2> QED BY <1>1, <2>1 DEF Min
<1>2. CASE ~(x <= y)
  <2>1. \A z \in {x, y} : (\A w \in {x, y} : z =< w) <=> z = y
    BY <1>2
  <2> QED BY <1>2, <2>1 DEF Min
<1> QED BY <1>1, <1>2

LEMMA Capacity ==
    ASSUME NEW e
    PROVE  /\ Refill(e) \in Nat /\ Full(e, BurstPerIP) \in Nat
           /\ IdleTTL(e) \in Nat /\ IdleTTL(e) >= Full(e, BurstPerIP)
<1>1. Refill(e) \in Nat /\ BurstPerIP \in Nat
  BY LimiterConstants DEF Refill
<1>2. \A b, r \in Nat : b * r \in Nat /\ 2 * b * r \in Nat /\ 2 * b * r >= b * r
  OBVIOUS
<1> QED BY <1>1, <1>2 DEF Full, IdleTTL

\* takeToken on a bucket: the level it refills to, and what a token leaves.
LEMMA RefillsTo ==
    ASSUME limNow \in Nat, NEW e, NEW b \in Bucket
    PROVE  /\ Refilled(e, b, BurstPerIP).units =
                  Topped(Full(e, BurstPerIP), b.units, limNow - b.last)
           /\ Refilled(e, b, BurstPerIP) =
                  [units |-> Refilled(e, b, BurstPerIP).units, last |-> limNow]
           /\ Refilled(e, b, BurstPerIP).units \in 0..Full(e, BurstPerIP)
<1>1. b.units + (limNow - b.last) \in Nat /\ Full(e, BurstPerIP) \in Nat
  BY Capacity DEF Bucket
<1>2. Min({Full(e, BurstPerIP), b.units + (limNow - b.last)}) =
          Topped(Full(e, BurstPerIP), b.units, limNow - b.last)
  BY <1>1, MinOfTwo DEF Topped
<1>3. Topped(Full(e, BurstPerIP), b.units, limNow - b.last) \in 0..Full(e, BurstPerIP)
  BY <1>1 DEF Topped
<1> QED BY <1>2, <1>3 DEF Refilled

LEMMA TakenIs ==
    ASSUME limNow \in Nat, NEW e, NEW b \in Bucket,
           NEW x, x = Refilled(e, b, BurstPerIP).units
    PROVE  /\ Taken(e, b, BurstPerIP) =
                  [units |-> IF x >= Refill(e) THEN x - Refill(e) ELSE x, last |-> limNow]
           /\ Taken(e, b, BurstPerIP) \in Bucket
           /\ Refilled(e, Taken(e, b, BurstPerIP), BurstPerIP).units =
                  IF x >= Refill(e) THEN x - Refill(e) ELSE x
<1>1. /\ x \in 0..Full(e, BurstPerIP) /\ Refill(e) \in Nat /\ Full(e, BurstPerIP) \in Nat
      /\ Refilled(e, b, BurstPerIP) = [units |-> x, last |-> limNow]
  BY Capacity, RefillsTo
<1>2. PICK y : y = IF x >= Refill(e) THEN x - Refill(e) ELSE x
  OBVIOUS
<1>3. y \in 0..Full(e, BurstPerIP)
  BY <1>1, <1>2
<1>4. Taken(e, b, BurstPerIP) = [units |-> y, last |-> limNow]
  BY <1>1, <1>2 DEF Taken, HasToken
<1>5. Taken(e, b, BurstPerIP) \in Bucket
  BY <1>3, <1>4 DEF Bucket
<1>6. Refilled(e, Taken(e, b, BurstPerIP), BurstPerIP).units =
          Topped(Full(e, BurstPerIP), y, limNow - limNow)
  BY <1>4, <1>5, RefillsTo
<1>7. Topped(Full(e, BurstPerIP), y, limNow - limNow) = y
  BY <1>1, <1>3 DEF Topped
<1> QED BY <1>2, <1>4, <1>5, <1>6, <1>7

\* What an address may take from the buckets bs.
LevelIn(bs, e, a) ==
    IF a \in DOMAIN bs[e] THEN Refilled(e, bs[e][a], BurstPerIP).units ELSE Full(e, BurstPerIP)

\* sweepBuckets: a bucket that goes was full again.
LEMMA SweepsOnlyFull ==
    ASSUME LimInv, NEW e \in Endpoints
    PROVE  /\ DOMAIN Swept = Endpoints
           /\ DOMAIN Swept[e] \subseteq DOMAIN buckets[e]
           /\ \A a \in DOMAIN Swept[e] : Swept[e][a] = buckets[e][a]
           /\ \A a : LevelIn(Swept, e, a) = LevelIn(buckets, e, a)
<1>1. /\ DOMAIN Swept = Endpoints
      /\ DOMAIN Swept[e] = {a \in DOMAIN buckets[e] : limNow - buckets[e][a].last < IdleTTL(e)}
      /\ \A a \in DOMAIN Swept[e] : Swept[e][a] = buckets[e][a]
  BY DEF Swept, RestrictValues, Restrict
<1>2. ASSUME NEW a \in DOMAIN buckets[e], a \notin DOMAIN Swept[e]
      PROVE  Refilled(e, buckets[e][a], BurstPerIP).units = Full(e, BurstPerIP)
  <2>1. buckets[e][a] \in Bucket /\ limNow \in Nat
    BY <1>2 DEF LimInv
  <2>2. ~(limNow - buckets[e][a].last < IdleTTL(e))
    BY <1>1, <1>2
  <2>3. Full(e, BurstPerIP) \in Nat /\ IdleTTL(e) \in Nat /\ IdleTTL(e) >= Full(e, BurstPerIP)
    BY Capacity
  <2>4. Full(e, BurstPerIP) <= buckets[e][a].units + (limNow - buckets[e][a].last)
    BY <2>1, <2>2, <2>3 DEF Bucket
  <2> QED BY <2>1, <2>4, RefillsTo DEF Topped
<1> QED BY <1>1, <1>2 DEF LevelIn

\* The buckets allow works on: after a sweep or not, the levels are the same.
LEMMA LoadedLevels ==
    ASSUME LimInv, NEW e, NEW a, NEW f \in Endpoints
    PROVE  LET bs == Loaded(e, a) IN
           /\ DOMAIN bs = Endpoints
           /\ IsFiniteSet(DOMAIN bs[f]) /\ Cardinality(DOMAIN bs[f]) <= MaxBuckets
           /\ \A x \in DOMAIN bs[f] : bs[f][x] \in Bucket
           /\ \A x : LevelIn(bs, f, x) = Level(f, x)
<1>1. PICK bs : bs = Loaded(e, a)
  OBVIOUS
<1>2. bs = buckets \/ bs = Swept
  BY <1>1 DEF Loaded, AfterSweep
<1>3. /\ DOMAIN bs = Endpoints /\ DOMAIN bs[f] \subseteq DOMAIN buckets[f]
      /\ \A x \in DOMAIN bs[f] : bs[f][x] = buckets[f][x]
      /\ \A x : LevelIn(bs, f, x) = LevelIn(buckets, f, x)
  <2>1. CASE bs = buckets
    BY <2>1 DEF LimInv
  <2>2. CASE bs = Swept
    BY <2>2, SweepsOnlyFull
  <2> QED BY <1>2, <2>1, <2>2
<1>4. \A x : LevelIn(bs, f, x) = Level(f, x)
  <2>1. \A x : LevelIn(buckets, f, x) = Level(f, x)
    BY DEF LevelIn, Level
  <2> QED BY <1>3, <2>1
<1>5. IsFiniteSet(DOMAIN bs[f]) /\ Cardinality(DOMAIN bs[f]) <= MaxBuckets
  <2>1. IsFiniteSet(DOMAIN buckets[f]) /\ Cardinality(DOMAIN buckets[f]) <= MaxBuckets
    BY DEF LimInv
  <2>2. IsFiniteSet(DOMAIN bs[f]) /\ Cardinality(DOMAIN bs[f]) <= Cardinality(DOMAIN buckets[f])
    BY <1>3, <2>1, FS_Subset
  <2>3. Cardinality(DOMAIN bs[f]) \in Nat /\ Cardinality(DOMAIN buckets[f]) \in Nat
    BY <2>1, <2>2, FS_CardinalityType
  <2> QED BY <2>1, <2>2, <2>3, LimiterConstants
<1> QED BY <1>1, <1>3, <1>4, <1>5 DEF LimInv
\* What allow leaves alone: every bucket but the one asked for.
LEMMA OtherLevels ==
    ASSUME LimInv, NEW bs, NEW e, NEW a, limNow' = limNow,
           a \in DOMAIN bs[e] <=> a \in DOMAIN buckets'[e],
           a \in DOMAIN bs[e] => buckets'[e][a] = bs[e][a]
    PROVE  Level(e, a)' = LevelIn(bs, e, a)
BY DEF Level, LevelIn, Refilled, Full, Refill

\* allow: both limiters take from the same level, and whoever asked without
\* room for a bucket is counted as untracked.
LEMMA AllowKeeps ==
    ASSUME LimInv, NEW e \in Endpoints, NEW a \in Addresses, allow(e, a)
    PROVE  LimInv'
<1>1. PICK bs : bs = Loaded(e, a)
  OBVIOUS
<1>2. PICK b : b = IF a \in DOMAIN bs[e] THEN bs[e][a] ELSE Fresh(e)
  OBVIOUS
<1>3. PICK t : t = Taken(e, b, BurstPerIP)
  OBVIOUS
<1>4. /\ limNow' = limNow /\ limNow \in Nat
      /\ ideal' = [ideal EXCEPT ![e][a] = Taken(e, @, BurstPerIP)]
      /\ Crowded(bs, e, a) => buckets' = bs /\ untracked' = untracked \cup {<<e, a>>}
      /\ ~Crowded(bs, e, a) => /\ buckets' = [bs EXCEPT ![e] = Put(@, a, t)]
                               /\ untracked' = untracked
  BY <1>1, <1>2, <1>3 DEF allow, LimInv
<1>5. ASSUME NEW f \in Endpoints
      PROVE  /\ IsFiniteSet(DOMAIN bs[f]) /\ Cardinality(DOMAIN bs[f]) <= MaxBuckets
             /\ \A x \in DOMAIN bs[f] : bs[f][x] \in Bucket
             /\ \A x : LevelIn(bs, f, x) = Level(f, x)
  BY <1>1, <1>5, LoadedLevels
<1>6. DOMAIN bs = Endpoints
  BY <1>1, LoadedLevels
<1>7. PICK x : x = Level(e, a)
  OBVIOUS
<1>8. b \in Bucket /\ Refilled(e, b, BurstPerIP).units = x
  <2>1. CASE a \in DOMAIN bs[e]
    <3>1. b = bs[e][a] /\ LevelIn(bs, e, a) = x
      BY <1>2, <1>5, <1>7, <2>1
    <3> QED BY <1>5, <2>1, <3>1 DEF LevelIn
  <2>2. CASE a \notin DOMAIN bs[e]
    <3>1. LevelIn(bs, e, a) = x
      BY <1>5, <1>7
    <3>2. x = Full(e, BurstPerIP) /\ Full(e, BurstPerIP) \in Nat
      BY <2>2, <3>1, Capacity DEF LevelIn
    <3>3. b = [units |-> x, last |-> limNow] /\ b \in Bucket
      BY <1>2, <1>4, <2>2, <3>2 DEF Fresh, Bucket
    <3>4. Refilled(e, b, BurstPerIP).units = Topped(Full(e, BurstPerIP), b.units, limNow - b.last)
      BY <1>4, <3>3, RefillsTo
    <3>5. Topped(Full(e, BurstPerIP), b.units, limNow - b.last) = x
      BY <1>4, <3>2, <3>3 DEF Topped
    <3> QED BY <3>3, <3>4, <3>5
  <2> QED BY <2>1, <2>2
<1>9. t \in Bucket
      /\ Refilled(e, t, BurstPerIP).units = IF x >= Refill(e) THEN x - Refill(e) ELSE x
  BY <1>3, <1>4, <1>8, TakenIs
<1>10. \A y : Bucket' = Bucket /\ Refilled(e, y, BurstPerIP)' = Refilled(e, y, BurstPerIP)
  BY <1>4 DEF Bucket, Refilled, Full, Refill
<1>11. DOMAIN buckets' = Endpoints
  BY <1>4, <1>6
<1>12. ASSUME NEW f \in Endpoints
       PROVE  /\ IsFiniteSet(DOMAIN buckets'[f]) /\ Cardinality(DOMAIN buckets'[f]) <= MaxBuckets
              /\ \A y \in DOMAIN buckets'[f] : buckets'[f][y] \in Bucket
              /\ \A y : f # e \/ y # a =>
                     /\ y \in DOMAIN bs[f] <=> y \in DOMAIN buckets'[f]
                     /\ y \in DOMAIN bs[f] => buckets'[f][y] = bs[f][y]
  <2>1. CASE Crowded(bs, e, a) \/ f # e
    <3>1. buckets'[f] = bs[f]
      BY <1>4, <1>6, <2>1
    <3> QED BY <1>5, <3>1
  <2>2. CASE ~Crowded(bs, e, a) /\ f = e
    <3>1. buckets'[f] = Put(bs[e], a, t)
      BY <1>4, <1>6, <2>2
    <3>2. /\ DOMAIN buckets'[f] = DOMAIN bs[e] \cup {a} /\ buckets'[f][a] = t
          /\ \A y \in DOMAIN bs[e] \ {a} : buckets'[f][y] = bs[e][y]
      BY <3>1 DEF Put
    <3>3. IsFiniteSet(DOMAIN bs[e]) /\ Cardinality(DOMAIN bs[e]) <= MaxBuckets
          /\ Cardinality(DOMAIN bs[e]) \in Nat
      BY <1>5, FS_CardinalityType
    <3>4. IsFiniteSet(DOMAIN bs[e] \cup {a})
          /\ Cardinality(DOMAIN bs[e] \cup {a}) <= MaxBuckets
      <4>1. CASE a \in DOMAIN bs[e]
        <5>1. DOMAIN bs[e] \cup {a} = DOMAIN bs[e]
          BY <4>1
        <5> QED BY <3>3, <5>1
      <4>2. CASE a \notin DOMAIN bs[e]
        <5>1. ~(Cardinality(DOMAIN bs[e]) >= MaxBuckets)
          BY <2>2, <4>2 DEF Crowded
        <5>2. IsFiniteSet(DOMAIN bs[e] \cup {a})
              /\ Cardinality(DOMAIN bs[e] \cup {a}) = Cardinality(DOMAIN bs[e]) + 1
          BY <3>3, <4>2, FS_AddElement
        <5> QED BY <3>3, <5>1, <5>2, LimiterConstants
      <4> QED BY <4>1, <4>2
    <3>5. \A y \in DOMAIN bs[e] : bs[e][y] \in Bucket
      BY <1>5
    <3> QED BY <1>9, <2>2, <3>2, <3>4, <3>5
  <2> QED BY <2>1, <2>2
<1>13. ASSUME NEW f \in Endpoints, NEW y \in Addresses, f # e \/ y # a
       PROVE  Level(f, y)' = Level(f, y) /\ ideal'[f][y] = ideal[f][y]
  <2>1. Level(f, y)' = LevelIn(bs, f, y)
    BY <1>4, <1>12, <1>13, OtherLevels
  <2>2. ideal'[f][y] = ideal[f][y]
    BY <1>4, <1>13 DEF LimInv
  <2> QED BY <1>5, <2>1, <2>2
<1>14. PICK i : i = Taken(e, ideal[e][a], BurstPerIP)
  OBVIOUS
<1>15. ideal[e][a] \in Bucket
  BY DEF LimInv
<1>16. PICK z : z = Refilled(e, ideal[e][a], BurstPerIP).units
  OBVIOUS
<1>17. i \in Bucket
       /\ Refilled(e, i, BurstPerIP).units = IF z >= Refill(e) THEN z - Refill(e) ELSE z
  BY <1>4, <1>14, <1>15, <1>16, TakenIs
<1>18. ideal'[e][a] = i /\ ideal' \in [Endpoints -> [Addresses -> Bucket]]
  BY <1>4, <1>14, <1>17 DEF LimInv
<1>19. ASSUME NEW f \in Endpoints, NEW y \in Addresses, <<f, y>> \notin untracked'
       PROVE  Level(f, y)' = Refilled(f, ideal[f][y], BurstPerIP).units'
  <2>1. <<f, y>> \notin untracked
    BY <1>4, <1>19
  <2>2. Level(f, y) = Refilled(f, ideal[f][y], BurstPerIP).units
    BY <2>1 DEF LimInv, SweepIsNeutral
  <2>3. CASE f # e \/ y # a
    <3>1. ideal'[f][y] = ideal[f][y]
      BY <1>13, <2>3
    <3>2. Refilled(f, ideal[f][y], BurstPerIP)' = Refilled(f, ideal[f][y], BurstPerIP)
      BY <1>4, <3>1 DEF Refilled, Full, Refill
    <3>3. Level(f, y)' = Level(f, y)
      BY <1>13, <2>3
    <3> QED BY <2>2, <3>2, <3>3
  <2>4. CASE f = e /\ y = a
    <3>1. ~Crowded(bs, e, a)
      BY <1>4, <1>19, <2>4
    <3>2. buckets'[e] = Put(bs[e], a, t)
      BY <1>4, <1>6, <3>1
    <3>3. a \in DOMAIN buckets'[e] /\ buckets'[e][a] = t
      BY <3>2 DEF Put
    <3>4. Level(e, a)' = Refilled(e, t, BurstPerIP).units
      BY <1>4, <3>3 DEF Level, Refilled, Full, Refill
    <3>5. Refilled(e, ideal[e][a], BurstPerIP).units' = Refilled(e, i, BurstPerIP).units
      BY <1>4, <1>18 DEF Refilled, Full, Refill
    <3>6. x = z
      BY <1>7, <1>16, <2>2, <2>4
    <3> QED BY <1>9, <1>17, <2>4, <3>4, <3>5, <3>6
  <2> QED BY <2>3, <2>4
<1>20. SweepIsNeutral'
  BY <1>19 DEF SweepIsNeutral
<1>21. limNow' \in Nat /\ ideal' \in [Endpoints -> [Addresses -> Bucket']]
  BY <1>4, <1>10, <1>18
<1>22. \A f \in Endpoints :
          /\ IsFiniteSet(DOMAIN buckets'[f]) /\ Cardinality(DOMAIN buckets'[f]) <= MaxBuckets
          /\ \A y \in DOMAIN buckets'[f] : buckets'[f][y] \in Bucket'
  BY <1>10, <1>12
<1> QED BY <1>11, <1>20, <1>21, <1>22 DEF LimInv

\* A tick refills both limiters alike.
LEMMA RefillsAlike ==
    ASSUME limNow \in Nat, limNow' = limNow + 1, NEW e, NEW b \in Bucket
    PROVE  /\ b \in Bucket'
           /\ Refilled(e, b, BurstPerIP)'.units =
                  Topped(Full(e, BurstPerIP), Refilled(e, b, BurstPerIP).units, 1)
<1>1. b \in Bucket' /\ limNow' \in Nat
  BY DEF Bucket
<1>2. Full(e, BurstPerIP) \in Nat
  BY Capacity
<1>3. /\ Refilled(e, b, BurstPerIP).units =
             Topped(Full(e, BurstPerIP), b.units, limNow - b.last)
      /\ Refilled(e, b, BurstPerIP).units \in 0..Full(e, BurstPerIP)
  BY RefillsTo
<1>4. b.units \in Nat /\ b.last \in 0..limNow
  BY DEF Bucket
<1>5. b.units + (limNow' - b.last) \in Nat
  BY <1>4
<1>6. Refilled(e, b, BurstPerIP)'.units = Min({Full(e, BurstPerIP), b.units + (limNow' - b.last)})
  BY DEF Refilled, Full, Refill
<1>7. Min({Full(e, BurstPerIP), b.units + (limNow' - b.last)}) =
          Topped(Full(e, BurstPerIP), b.units, limNow' - b.last)
  BY <1>2, <1>5, MinOfTwo DEF Topped
<1>8. Topped(Full(e, BurstPerIP), b.units, limNow' - b.last) =
          Topped(Full(e, BurstPerIP), Topped(Full(e, BurstPerIP), b.units, limNow - b.last), 1)
  BY <1>2, <1>4 DEF Topped
<1> QED BY <1>1, <1>3, <1>6, <1>7, <1>8

LEMMA LimTickKeeps ==
    ASSUME LimInv, LimTick
    PROVE  LimInv'
<1>1. /\ limNow \in Nat /\ limNow' = limNow + 1 /\ limNow' \in Nat
      /\ buckets' = buckets /\ ideal' = ideal /\ untracked' = untracked
  BY DEF LimTick, LimInv
<1>2. \A b \in Bucket : b \in Bucket'
  BY <1>1, RefillsAlike
<1>3. ASSUME NEW e \in Endpoints, NEW a \in Addresses, <<e, a>> \notin untracked
      PROVE  Level(e, a)' = Refilled(e, ideal[e][a], BurstPerIP).units'
  <2>1. PICK i : i = ideal[e][a]
    OBVIOUS
  <2>2. i \in Bucket /\ Level(e, a) = Refilled(e, i, BurstPerIP).units
    BY <1>3, <2>1 DEF LimInv, SweepIsNeutral
  <2>3. Refilled(e, ideal[e][a], BurstPerIP).units' = Topped(Full(e, BurstPerIP), Level(e, a), 1)
    <3>1. Refilled(e, ideal[e][a], BurstPerIP).units' = Refilled(e, i, BurstPerIP)'.units
      BY <1>1, <2>1 DEF Refilled, Full, Refill
    <3> QED BY <1>1, <2>2, <3>1, RefillsAlike
  <2>4. Level(e, a)' = Topped(Full(e, BurstPerIP), Level(e, a), 1)
    <3>1. CASE a \in DOMAIN buckets[e]
      <4>1. PICK b : b = buckets[e][a]
        OBVIOUS
      <4>2. b \in Bucket /\ Level(e, a) = Refilled(e, b, BurstPerIP).units
        BY <3>1, <4>1 DEF LimInv, Level
      <4>3. Level(e, a)' = Refilled(e, b, BurstPerIP)'.units
        BY <1>1, <3>1, <4>1 DEF Level, Refilled, Full, Refill
      <4> QED BY <1>1, <4>2, <4>3, RefillsAlike
    <3>2. CASE a \notin DOMAIN buckets[e]
      <4>1. Level(e, a) = Full(e, BurstPerIP) /\ Level(e, a)' = Full(e, BurstPerIP)
        BY <1>1, <3>2 DEF Level, Full, Refill
      <4> QED BY <4>1, Capacity DEF Topped
    <3> QED BY <3>1, <3>2
  <2> QED BY <2>3, <2>4
<1>4. SweepIsNeutral'
  BY <1>1, <1>3 DEF SweepIsNeutral
<1>5. ideal \in [Endpoints -> [Addresses -> Bucket']]
  BY <1>2 DEF LimInv
<1>6. \A e \in Endpoints : \A a \in DOMAIN buckets[e] : buckets[e][a] \in Bucket'
  BY <1>2 DEF LimInv
<1> QED BY <1>1, <1>4, <1>5, <1>6 DEF LimInv

LEMMA LimStart == LimInit => LimInv
<1> SUFFICES ASSUME LimInit PROVE LimInv
  OBVIOUS
<1>1. /\ limNow = 0 /\ untracked = {}
      /\ buckets = [e \in Endpoints |-> <<>>]
      /\ ideal = [e \in Endpoints |->
                    [a \in Addresses |-> [units |-> Full(e, BurstPerIP), last |-> 0]]]
  BY DEF LimInit
<1>2. \A e \in Endpoints : DOMAIN buckets[e] = {}
  BY <1>1
<1>3. IsFiniteSet({}) /\ Cardinality({}) = 0
  BY FS_EmptySet
<1>4. \A e \in Endpoints : [units |-> Full(e, BurstPerIP), last |-> 0] \in Bucket
  BY <1>1, Capacity DEF Bucket
<1>5. ideal \in [Endpoints -> [Addresses -> Bucket]]
  BY <1>1, <1>4
<1>6. ASSUME NEW e \in Endpoints, NEW a \in Addresses
      PROVE  Level(e, a) = Refilled(e, ideal[e][a], BurstPerIP).units
  <2>1. PICK i : i = [units |-> Full(e, BurstPerIP), last |-> 0]
    OBVIOUS
  <2>2. i \in Bucket /\ ideal[e][a] = i /\ Full(e, BurstPerIP) \in Nat
    BY <1>1, <1>4, <2>1, Capacity
  <2>3. Refilled(e, i, BurstPerIP).units = Topped(Full(e, BurstPerIP), i.units, limNow - i.last)
    BY <1>1, <2>2, RefillsTo
  <2>4. Topped(Full(e, BurstPerIP), i.units, limNow - i.last) = Full(e, BurstPerIP)
    BY <1>1, <2>1, <2>2 DEF Topped
  <2> QED BY <1>2, <2>2, <2>3, <2>4 DEF Level
<1>7. SweepIsNeutral
  BY <1>6 DEF SweepIsNeutral
<1>8. \A e \in Endpoints :
          /\ IsFiniteSet(DOMAIN buckets[e]) /\ Cardinality(DOMAIN buckets[e]) <= MaxBuckets
          /\ \A a \in DOMAIN buckets[e] : buckets[e][a] \in Bucket
  BY <1>2, <1>3, LimiterConstants
<1> QED BY <1>1, <1>5, <1>7, <1>8 DEF LimInv

LEMMA LimStep == LimInv /\ [LimNext]_limVars => LimInv'
<1> SUFFICES ASSUME LimInv, [LimNext]_limVars PROVE LimInv'
  OBVIOUS
<1>1. CASE LimTick
  BY <1>1, LimTickKeeps
<1>2. CASE \E e \in Endpoints, a \in Addresses : allow(e, a)
  BY <1>2, AllowKeeps
<1>3. CASE UNCHANGED limVars
  <2>1. limNow' = limNow /\ buckets' = buckets /\ ideal' = ideal /\ untracked' = untracked
    BY <1>3 DEF limVars
  <2> QED BY <2>1, ZenonT(30) DEF LimInv, SweepIsNeutral, Bucket, Level, Refilled, Full, Refill
<1> QED BY <1>1, <1>2, <1>3 DEF LimNext

\* Sweeping idle buckets changes no verdict: for every address there was room
\* for, allow decides what a limiter with no memory bound would decide
\* (sweepBuckets, loadBucket).
THEOREM SweepsAreNeutral == LimSpec => []SweepIsNeutral
<1>1. LimInv => SweepIsNeutral
  BY DEF LimInv
<1> QED BY <1>1, LimStart, LimStep, PTL DEF LimSpec

\* No endpoint's bucket map outgrows pairingMaxIPBuckets, whatever addresses
\* the traffic comes from (loadBucket).
THEOREM MapsStayBounded == LimSpec => []MapsBounded
<1>1. LimInv => MapsBounded
  BY DEF LimInv, MapsBounded
<1> QED BY <1>1, LimStart, LimStep, PTL DEF LimSpec
=============================================================================
