--------------------------- MODULE PairingProofs ---------------------------
(***************************************************************************)
(* For every choice of lifetimes and bounds: one challenge is open at a    *)
(* time, a local approval lets in one device at most, a token opens its    *)
(* own device's credential, a rotated token is never live again nor        *)
(* exchangeable beyond its overlap, a revoked device stays out, and a      *)
(* client that lost an answer still gets in.                               *)
(***************************************************************************)
EXTENDS Pairing, FiniteSetTheorems, TLAPS

-----------------------------------------------------------------------------
(* Challenges.                                                             *)

ChallengeType ==
    [expires : Nat, state : {"active", "completed", "cancelled", "expired"}, changed : Nat]

\* Something that can still become a device: an approval or an open challenge.
Open ==
    armedUntil # NoTime \/ \E id \in DOMAIN challenges : challenges[id].state = "active"

\* ApprovalPerDevice is inductive once what is still open counts as a device.
ChallengeInv ==
    /\ now \in Nat /\ armedUntil \in Nat /\ issued \in Nat /\ approvals \in Nat
    /\ activeID \in Nat
    /\ DOMAIN challenges \subseteq 1..issued
    /\ challenges = [id \in DOMAIN challenges |-> challenges[id]]
    /\ \A id \in DOMAIN challenges : challenges[id] \in ChallengeType
    /\ OneOpenChallenge
    /\ IsFiniteSet(paired) /\ Cardinality(paired) \in Nat
    /\ Cardinality(paired) <= approvals
    /\ Open => Cardinality(paired) + 1 <= approvals

\* The challenges after a prune: the old ones, open only if they were.
LEMMA PruneCloses ==
    ASSUME ChallengeInv
    PROVE  /\ DOMAIN PrunedChallenges \subseteq DOMAIN challenges
           /\ \A id \in DOMAIN PrunedChallenges :
                /\ PrunedChallenges[id] \in ChallengeType
                /\ PrunedChallenges[id].state = "active" => challenges[id].state = "active"
           /\ PrunedChallenges = [id \in DOMAIN PrunedChallenges |-> PrunedChallenges[id]]
  BY DEF PrunedChallenges, ChallengeInv, ChallengeType, Expired, Over

\* What follows when the challenges only close and nothing is armed.
LEMMA Closing ==
    ASSUME ChallengeInv,
           now' \in Nat, armedUntil' \in {armedUntil, NoTime}, activeID' \in Nat,
           UNCHANGED <<issued, approvals, paired>>,
           challenges' = [id \in DOMAIN challenges' |-> challenges'[id]],
           DOMAIN challenges' \subseteq DOMAIN challenges,
           \A id \in DOMAIN challenges' :
              /\ challenges'[id] \in ChallengeType
              /\ challenges'[id].state = "active" =>
                    challenges[id].state = "active" /\ id = activeID'
    PROVE  ChallengeInv'
<1>1. OneOpenChallenge'
  BY DEF OneOpenChallenge
<1>2. Open' => Open
  BY DEF Open, NoTime
<1> QED BY <1>1, <1>2 DEF ChallengeInv, NoTime

\* StartPairing makes a challenge only under an approval, and CompletePairing
\* ends both.
LEMMA ChallengeStep == ChallengeInv /\ [Next]_vars => ChallengeInv'
<1> SUFFICES ASSUME ChallengeInv, [Next]_vars PROVE ChallengeInv'
  OBVIOUS
<1> USE PairingConstants
<1>a. now \in Nat /\ armedUntil \in Nat /\ activeID \in Nat /\ NoTime \in Nat /\ NoID \in Nat
  BY DEF ChallengeInv, NoTime, NoID
<1>1. CASE Approve
  <2>1. /\ now' = now /\ armedUntil' = now + ArmTTL /\ approvals' = approvals + 1
        /\ UNCHANGED <<activeID, challenges, issued, paired>>
    BY <1>1 DEF Approve, ArmedFromNow, ghostVars
  <2>2. OneOpenChallenge'
    BY <2>1 DEF OneOpenChallenge, ChallengeInv
  <2>3. armedUntil' \in Nat
    BY <2>1, <1>a
  <2> QED BY <2>1, <2>2, <2>3 DEF ChallengeInv
<1>2. CASE StartPairing
  <2> DEFINE cs == PrunedChallenges
  <2> DEFINE active == ActiveIn(cs)
  <2> DEFINE armed == armedUntil # NoTime /\ now <= armedUntil
  <2>0. UNCHANGED <<now, approvals, paired>>
    BY <1>2 DEF StartPairing, ghostVars
  <2>1. \A id \in DOMAIN cs : cs[id].state = "active" => id = activeID /\ id = active
    BY PruneCloses DEF ActiveIn, ChallengeInv, OneOpenChallenge
  <2>2. CASE active = NoID /\ armed
    <3> DEFINE id == issued + 1
    <3> DEFINE new == [expires |-> now + ChallengeTTL, state |-> "active", changed |-> now]
    <3>1. /\ issued' = issued + 1 /\ activeID' = issued + 1 /\ armedUntil' = armedUntil
          /\ challenges' = With(cs, id, new)
      BY <1>2, <2>2 DEF StartPairing
    <3>2. DOMAIN cs \subseteq 1..issued
      BY PruneCloses DEF ChallengeInv
    <3>3. /\ DOMAIN challenges' = DOMAIN cs \cup {issued + 1}
          /\ challenges'[issued + 1] = new
          /\ \A i \in DOMAIN cs : challenges'[i] = cs[i]
          /\ challenges' = [i \in DOMAIN challenges' |-> challenges'[i]]
      <4>1. issued + 1 \notin DOMAIN cs
        BY <3>2 DEF ChallengeInv
      <4> HIDE DEF cs, new, id
      <4>2. /\ DOMAIN With(cs, id, new) = DOMAIN cs \cup {id}
            /\ With(cs, id, new)[id] = new
            /\ \A x \in DOMAIN cs : x # id => With(cs, id, new)[x] = cs[x]
            /\ With(cs, id, new) = [x \in DOMAIN With(cs, id, new) |-> With(cs, id, new)[x]]
        BY DEF With
      <4>3. id = issued + 1
        BY DEF id
      <4> QED BY <3>1, <4>1, <4>2, <4>3
    <3>4. new \in ChallengeType
      BY <1>a DEF ChallengeType
    <3>5. \A i \in DOMAIN cs : cs[i].state # "active"
      BY <2>1, <2>2, <3>2 DEF NoID, ChallengeInv
    <3>6. OneOpenChallenge'
      BY <3>1, <3>3, <3>5 DEF OneOpenChallenge
    <3>7. Open
      BY <2>2 DEF Open
    <3>8. \A i \in DOMAIN challenges' : challenges'[i] \in ChallengeType
      BY <3>3, <3>4, PruneCloses
    <3>9. issued' \in Nat /\ DOMAIN challenges' \subseteq 1..issued'
      BY <3>1, <3>2, <3>3 DEF ChallengeInv
    <3> HIDE DEF cs, active, armed, id, new
    <3> QED BY <2>0, <3>1, <3>3, <3>6, <3>7, <3>8, <3>9 DEF ChallengeInv
  <2>3. CASE ~(active = NoID /\ armed)
    <3>1. /\ challenges' = cs /\ activeID' = active /\ issued' = issued
          /\ armedUntil' \in {armedUntil, NoTime}
      BY <1>2, <2>3 DEF StartPairing
    <3>2. active \in Nat
      BY <1>a DEF ActiveIn
    <3> QED BY <2>0, <2>1, <3>1, <3>2, <1>a, PruneCloses, Closing
  <2> QED BY <2>2, <2>3
<1>3. CASE ReadChallenges
  <2> DEFINE cs == PrunedChallenges
  <2>1. /\ challenges' = cs /\ activeID' = ActiveIn(cs)
        /\ UNCHANGED <<now, armedUntil, approvals, issued, paired>>
    BY <1>3 DEF ReadChallenges, ghostVars
  <2>2. \A id \in DOMAIN cs : cs[id].state = "active" => id = ActiveIn(cs)
    BY PruneCloses DEF ActiveIn, ChallengeInv, OneOpenChallenge
  <2>3. ActiveIn(cs) \in Nat
    BY <1>a DEF ActiveIn
  <2> QED BY <2>1, <2>2, <2>3, <1>a, PruneCloses, Closing
<1>4. ASSUME NEW id \in DOMAIN PrunedChallenges, CancelChallenge(id) PROVE ChallengeInv'
  <2> DEFINE cs == PrunedChallenges
  <2>1. /\ challenges' = IF cs[id].state = "active"
                         THEN [cs EXCEPT ![id] = Over(cs[id], "cancelled", now)]
                         ELSE cs
        /\ activeID' = IF ActiveIn(cs) = id THEN NoID ELSE ActiveIn(cs)
        /\ UNCHANGED <<now, armedUntil, approvals, issued, paired>>
    BY <1>4 DEF CancelChallenge, ghostVars
  <2>2. \A i \in DOMAIN cs : cs[i].state = "active" => i = ActiveIn(cs)
    BY PruneCloses DEF ActiveIn, ChallengeInv, OneOpenChallenge
  <2>3. activeID' \in Nat
    BY <2>1, <1>a DEF ActiveIn
  <2>4. /\ DOMAIN cs \subseteq DOMAIN challenges
        /\ \A i \in DOMAIN cs :
             cs[i] \in ChallengeType /\ (cs[i].state = "active" => challenges[i].state = "active")
        /\ cs = [i \in DOMAIN cs |-> cs[i]]
    BY PruneCloses
  <2> HIDE DEF cs
  <2>5. /\ DOMAIN challenges' = DOMAIN cs
        /\ challenges' = [i \in DOMAIN challenges' |-> challenges'[i]]
        /\ \A i \in DOMAIN cs : i # id => challenges'[i] = cs[i]
        /\ challenges'[id] \in ChallengeType /\ challenges'[id].state # "active"
    BY <2>1, <2>4, <1>a, <1>4 DEF ChallengeType, Over, cs
  <2>6. \A i \in DOMAIN challenges' : challenges'[i].state = "active" =>
            challenges[i].state = "active" /\ i = activeID'
    BY <2>1, <2>2, <2>4, <2>5
  <2>7. \A i \in DOMAIN challenges' : challenges'[i] \in ChallengeType
    BY <2>4, <2>5
  <2> QED BY <2>1, <2>3, <2>4, <2>5, <2>6, <2>7, <1>a, Closing
<1>5. ASSUME NEW id \in DOMAIN challenges, CompleteFails(id) PROVE ChallengeInv'
  <2>1. UNCHANGED <<now, armedUntil, approvals, issued, paired>>
    BY <1>5 DEF CompleteFails, ghostVars
  <2>2. CASE Expired(challenges[id])
    <3>1. /\ challenges' = [challenges EXCEPT ![id] =
                              Over(challenges[id], "expired", challenges[id].expires)]
          /\ activeID' = IF activeID = id THEN NoID ELSE activeID
      BY <1>5, <2>2 DEF CompleteFails
    <3>2. \A i \in DOMAIN challenges : challenges[i] \in ChallengeType
      BY DEF ChallengeInv
    <3>3. /\ DOMAIN challenges' = DOMAIN challenges
          /\ challenges' = [i \in DOMAIN challenges' |-> challenges'[i]]
          /\ \A i \in DOMAIN challenges : i # id => challenges'[i] = challenges[i]
          /\ challenges'[id] \in ChallengeType /\ challenges'[id].state # "active"
      BY <3>1, <3>2, <1>5 DEF ChallengeType, Over
    <3>4. \A i \in DOMAIN challenges' : challenges'[i].state = "active" =>
              challenges[i].state = "active" /\ i = activeID'
      BY <3>1, <3>3, <1>a DEF ChallengeInv, OneOpenChallenge
    <3>5. \A i \in DOMAIN challenges' : challenges'[i] \in ChallengeType
      BY <3>2, <3>3
    <3> QED BY <2>1, <3>1, <3>3, <3>4, <3>5, <1>a, Closing
  <2>3. CASE ~Expired(challenges[id])
    <3>1. UNCHANGED <<challenges, activeID>>
      BY <1>5, <2>3 DEF CompleteFails
    <3>2. /\ \A i \in DOMAIN challenges' : challenges'[i] \in ChallengeType
          /\ challenges' = [i \in DOMAIN challenges' |-> challenges'[i]]
          /\ \A i \in DOMAIN challenges' : challenges'[i].state = "active" =>
               challenges[i].state = "active" /\ i = activeID'
      BY <3>1 DEF ChallengeInv, OneOpenChallenge
    <3> QED BY <2>1, <3>1, <3>2, <1>a, Closing
  <2> QED BY <2>2, <2>3
<1>6. ASSUME NEW id \in DOMAIN challenges, NEW saved \in BOOLEAN, CompletePairing(id, saved)
      PROVE  ChallengeInv'
  <2>1. /\ challenges[id].state = "active"
        /\ paired' = paired \cup {drawn + 1}
        /\ challenges' = [challenges EXCEPT ![id] = Over(challenges[id], "completed", now)]
        /\ activeID' = IF activeID = id THEN NoID ELSE activeID
        /\ armedUntil' = NoTime
        /\ UNCHANGED <<now, approvals, issued>>
    BY <1>6 DEF CompletePairing, Used, Disarmed
  <2>2. Open
    BY <2>1 DEF Open
  <2>3. /\ IsFiniteSet(paired') /\ Cardinality(paired') \in Nat
        /\ Cardinality(paired') <= Cardinality(paired) + 1
    <3>1. IsFiniteSet(paired') /\ Cardinality(paired') \in {Cardinality(paired), Cardinality(paired) + 1}
      BY <2>1, FS_AddElement DEF ChallengeInv
    <3> QED BY <3>1 DEF ChallengeInv
  <2>4. \A i \in DOMAIN challenges : challenges[i] \in ChallengeType
    BY DEF ChallengeInv
  <2>5. /\ DOMAIN challenges' = DOMAIN challenges
        /\ challenges' = [i \in DOMAIN challenges' |-> challenges'[i]]
        /\ \A i \in DOMAIN challenges : i # id => challenges'[i] = challenges[i]
        /\ challenges'[id] \in ChallengeType /\ challenges'[id].state # "active"
    BY <2>1, <2>4, <1>a, <1>6 DEF ChallengeType, Over
  <2>6. \A i \in DOMAIN challenges' : challenges'[i].state # "active"
    BY <2>1, <2>5 DEF ChallengeInv, OneOpenChallenge
  <2>7. OneOpenChallenge' /\ ~Open'
    BY <2>1, <2>6 DEF OneOpenChallenge, Open
  <2>8. \A i \in DOMAIN challenges' : challenges'[i] \in ChallengeType
    BY <2>4, <2>5
  <2>9. Cardinality(paired') <= approvals'
    BY <2>1, <2>2, <2>3 DEF ChallengeInv
  <2>10. activeID' \in Nat /\ armedUntil' \in Nat
    BY <2>1, <1>a
  <2> QED BY <2>1, <2>3, <2>5, <2>7, <2>8, <2>9, <2>10 DEF ChallengeInv
<1>7. CASE Restart
  <2>1. /\ armedUntil' = NoTime /\ activeID' = NoID /\ challenges' = Empty
        /\ UNCHANGED <<now, approvals, issued, paired>>
    BY <1>7 DEF Restart, ghostVars
  <2>2. DOMAIN challenges' = {} /\ challenges' = [i \in DOMAIN challenges' |-> challenges'[i]]
    BY <2>1 DEF Empty
  <2> QED BY <2>1, <2>2, <1>a, Closing
<1>8. ASSUME UNCHANGED <<armedUntil, activeID, challenges, approvals, issued, paired>>, now' \in Nat
      PROVE  ChallengeInv'
  <2>1. OneOpenChallenge' /\ (Open' <=> Open)
    BY <1>8 DEF OneOpenChallenge, Open, ChallengeInv
  <2> QED BY <1>8, <2>1 DEF ChallengeInv
<1>9. CASE ListDevices
  BY <1>9, <1>8, <1>a DEF ListDevices, challengeVars, ghostVars
<1>10. ASSUME NEW t \in 1..drawn, ValidateCredential(t) PROVE ChallengeInv'
  BY <1>10, <1>8, <1>a DEF ValidateCredential, challengeVars, ghostVars
<1>11. ASSUME NEW d \in DOMAIN holds, NEW t \in 1..drawn, RefreshCredential(d, t)
       PROVE  ChallengeInv'
  <2>1. UNCHANGED <<now, armedUntil, activeID, challenges, approvals, issued>>
    BY <1>11 DEF RefreshCredential, challengeVars
  <2>2. paired' = paired
    BY <1>11 DEF RefreshCredential, RefreshAgain, RefreshTooLate, RefreshNotSaved, Rotate, ghostVars
  <2> QED BY <2>1, <2>2, <1>8, <1>a
<1>12. ASSUME NEW d \in paired, RevokeDevice(d) PROVE ChallengeInv'
  BY <1>12, <1>8, <1>a DEF RevokeDevice, challengeVars, ghostVars
<1>13. ASSUME NEW r \in replies, ReceiveReply(r) \/ LoseReply(r) PROVE ChallengeInv'
  BY <1>13, <1>8, <1>a DEF ReceiveReply, LoseReply, challengeVars, ghostVars
<1>14. CASE Tick
  BY <1>14, <1>8, <1>a DEF Tick, challengeVars, ghostVars
<1>15. CASE UNCHANGED vars
  BY <1>15, <1>8, <1>a DEF vars, challengeVars, ghostVars
<1> QED BY <1>1, <1>2, <1>3, <1>4, <1>5, <1>6, <1>7, <1>9, <1>10, <1>11, <1>12, <1>13, <1>14,
           <1>15 DEF Next

LEMMA ChallengeStart == Init => ChallengeInv
<1> SUFFICES ASSUME Init PROVE ChallengeInv
  OBVIOUS
<1>1. /\ now = 1 /\ armedUntil = 0 /\ activeID = 0 /\ approvals = 0 /\ issued = 0
      /\ DOMAIN challenges = {} /\ challenges = [id \in DOMAIN challenges |-> challenges[id]]
  BY DEF Init, NoTime, NoID, Empty
<1>2. IsFiniteSet(paired) /\ Cardinality(paired) = 0
  BY FS_EmptySet DEF Init
<1>3. OneOpenChallenge /\ ~Open
  BY <1>1 DEF OneOpenChallenge, Open, NoTime
<1> QED BY <1>1, <1>2, <1>3 DEF ChallengeInv

\* At most one challenge is open, the one activeID names (StartPairing,
\* CancelChallenge, CompletePairing, pruneExpiredLocked).
THEOREM ChallengesOneAtATime == Spec => []OneOpenChallenge
<1>1. ChallengeInv => OneOpenChallenge
  BY DEF ChallengeInv
<1> QED BY <1>1, ChallengeStart, ChallengeStep, PTL DEF Spec

\* Every paired device took a local approval of its own (CompletePairing
\* disarms, StartPairing needs an approval).
THEOREM OneDevicePerApproval == Spec => []ApprovalPerDevice
<1>1. ChallengeInv => ApprovalPerDevice
  BY DEF ChallengeInv, ApprovalPerDevice
<1> QED BY <1>1, ChallengeStart, ChallengeStep, PTL DEF Spec

-----------------------------------------------------------------------------
(* Credentials.                                                            *)

CredentialType == [token : 1..drawn, known : BOOLEAN, expires : Nat]
RowType == [token : 1..drawn, expires : Nat, retired : 0..drawn, until : Nat]
RetiredType == [device : Nat, until : Nat]

KeyTypes ==
    /\ now \in Nat \ {0} /\ drawn \in Nat /\ drawn <= MaxTokens
    /\ DOMAIN credentials \subseteq 1..drawn /\ DOMAIN rows \subseteq 1..drawn
    /\ DOMAIN byTokenHash \subseteq 1..drawn /\ DOMAIN retired \subseteq 1..drawn
    /\ \A d \in DOMAIN credentials : credentials[d] \in CredentialType
    /\ \A d \in DOMAIN rows : rows[d] \in RowType
    /\ \A t \in DOMAIN retired : retired[t] \in RetiredType
    /\ rotatedAt \in [1..MaxTokens -> Nat]

\* A token that some credential or row has as its current one was never
\* rotated away, and belongs to one device only.
OwnToken ==
    /\ \A d \in DOMAIN credentials : rotatedAt[credentials[d].token] = NoTime
    /\ \A d \in DOMAIN rows : rotatedAt[rows[d].token] = NoTime
    /\ \A t \in 1..MaxTokens : t > drawn => rotatedAt[t] = NoTime
    /\ \A d, e \in DOMAIN rows : rows[d].token = rows[e].token => d = e
    /\ \A d \in DOMAIN credentials, e \in DOMAIN rows :
           credentials[d].token = rows[e].token <=> d = e

\* IndexExact and WindowNotStretched hold across a restart because the rows'
\* tokens are as distinct and as unrotated as those in memory.
CredentialInv == KeyTypes /\ OwnToken /\ IndexExact /\ WindowNotStretched

\* g is f with some keys left out.
Part(g, f) == DOMAIN g \subseteq DOMAIN f /\ \A x \in DOMAIN g : g[x] = f[x]

\* deleteCredentialLocked and the prunes only take entries out, and the index
\* loses exactly the tokens of what goes.
LEMMA Shrinking ==
    ASSUME NEW D
    PROVE  /\ Part(CredentialsWithout(D), credentials)
           /\ DOMAIN CredentialsWithout(D) = DOMAIN credentials \ D
           /\ Part(IndexWithout(D), byTokenHash)
           /\ \A t \in DOMAIN byTokenHash :
                t \in DOMAIN IndexWithout(D) <=>
                    ~ \E d \in D : credentials[d].token = t /\ byTokenHash[t] = d
           /\ Part(RetiredWithout(D), retired)
           /\ Part(InWindow(RetiredWithout(D)), retired)
           /\ \A stuck \in Stuck(D) :
                /\ Part(RowsWithout(D, stuck), rows)
                /\ DOMAIN rows \ D \subseteq DOMAIN RowsWithout(D, stuck)
                /\ D \cap DOMAIN RowsWithout(D, stuck) \subseteq stuck
  BY DEF CredentialsWithout, IndexWithout, RetiredWithout, InWindow, RowsWithout, Stuck, Part,
         Restrict, RestrictDomain, RestrictValues

\* The rows deleted are gone, but for those the store refused to delete.
LEMMA RowsShrink ==
    ASSUME NEW D, DeleteRows(D)
    PROVE  /\ Part(rows', rows) /\ DOMAIN rows \ D \subseteq DOMAIN rows'
           /\ D \cap DOMAIN rows' \subseteq undeleted' /\ undeleted \subseteq undeleted'
<1>1. PICK stuck \in Stuck(D) :
        rows' = RowsWithout(D, stuck) /\ undeleted' = undeleted \cup stuck
  BY DEF DeleteRows
<1>2. /\ Part(RowsWithout(D, stuck), rows)
      /\ DOMAIN rows \ D \subseteq DOMAIN RowsWithout(D, stuck)
      /\ D \cap DOMAIN RowsWithout(D, stuck) \subseteq stuck
  BY Shrinking
<1>3. Part(rows', rows)
  BY <1>1, <1>2
<1> QED BY <1>1, <1>2, <1>3

LEMMA DeleteKeeps ==
    ASSUME CredentialInv, NEW D, D \subseteq DOMAIN credentials,
           credentials' = CredentialsWithout(D), byTokenHash' = IndexWithout(D),
           Part(retired', retired), Part(rows', rows),
           UNCHANGED <<now, drawn, rotatedAt>>
    PROVE  CredentialInv'
<1>1. /\ Part(credentials', credentials) /\ DOMAIN credentials' = DOMAIN credentials \ D
      /\ Part(byTokenHash', byTokenHash)
      /\ \A t \in DOMAIN byTokenHash :
            t \in DOMAIN byTokenHash' <=>
                ~ \E d \in D : credentials[d].token = t /\ byTokenHash[t] = d
  BY Shrinking
<1>2. KeyTypes'
  BY <1>1 DEF CredentialInv, KeyTypes, Part, CredentialType, RowType, RetiredType
<1>3. OwnToken'
  BY <1>1 DEF CredentialInv, OwnToken, Part
<1>4. IndexExact'
  BY <1>1 DEF CredentialInv, IndexExact, Part
<1>5. WindowNotStretched'
  BY <1>1 DEF CredentialInv, WindowNotStretched, Part
<1> QED BY <1>2, <1>3, <1>4, <1>5 DEF CredentialInv

\* CompletePairing draws a token and a device nobody has.
LEMMA CompleteKeeps ==
    ASSUME CredentialInv, NEW id, NEW saved \in BOOLEAN, CompletePairing(id, saved)
    PROVE  CredentialInv'
<1> DEFINE D == Reaped
<1> DEFINE cs == CredentialsWithout(D)
<1> DEFINE ix == IndexWithout(D)
<1> DEFINE rt == InWindow(RetiredWithout(D))
<1>0. PICK n : n = drawn + 1
  OBVIOUS
<1>1. PICK c, r :
        /\ c = [token |-> n, known |-> TRUE, expires |-> now + TokenTTL]
        /\ r = [token |-> n, expires |-> now + TokenTTL, retired |-> NoToken, until |-> NoTime]
  OBVIOUS
<1>2. PICK stuck \in Stuck(D) :
        rows' = IF saved THEN With(RowsWithout(D, stuck), n, r) ELSE RowsWithout(D, stuck)
  BY <1>0, <1>1 DEF CompletePairing
<1> DEFINE left == RowsWithout(D, stuck)
<1>3. /\ n <= MaxTokens /\ drawn' = n
      /\ credentials' = With(cs, n, c)
      /\ byTokenHash' = With(ix, n, n)
      /\ retired' = rt
      /\ UNCHANGED <<now, rotatedAt>>
  BY <1>0, <1>1 DEF CompletePairing
<1>4. D \subseteq DOMAIN credentials
  BY DEF Reaped
<1>5. /\ Part(cs, credentials) /\ DOMAIN cs = DOMAIN credentials \ D
      /\ Part(ix, byTokenHash)
      /\ \A t \in DOMAIN byTokenHash :
            t \in DOMAIN ix <=> ~ \E d \in D : credentials[d].token = t /\ byTokenHash[t] = d
      /\ Part(rt, retired) /\ Part(left, rows)
  BY <1>2, Shrinking
<1> HIDE DEF D, cs, ix, rt, left
<1>6. /\ DOMAIN credentials' = DOMAIN cs \cup {n} /\ credentials'[n] = c
      /\ \A d \in DOMAIN cs : d # n => credentials'[d] = cs[d]
      /\ DOMAIN byTokenHash' = DOMAIN ix \cup {n} /\ byTokenHash'[n] = n
      /\ \A t \in DOMAIN ix : t # n => byTokenHash'[t] = ix[t]
  BY <1>3 DEF With
<1>7. /\ DOMAIN rows' \subseteq DOMAIN left \cup {n}
      /\ n \in DOMAIN rows' => rows'[n] = r \/ n \in DOMAIN left
      /\ \A d \in DOMAIN rows' : d # n => d \in DOMAIN left /\ rows'[d] = left[d]
  BY <1>2 DEF With, left
<1>8. n \in Nat /\ n > drawn /\ 1..drawn \subseteq 1..n /\ n \in 1..n /\ n \notin 1..drawn
  BY <1>0 DEF CredentialInv, KeyTypes
<1>9. /\ \A d \in DOMAIN cs : d \in 1..drawn /\ d # n /\ cs[d].token \in 1..drawn
      /\ \A d \in DOMAIN left : d \in 1..drawn /\ d # n /\ left[d].token \in 1..drawn
      /\ \A t \in DOMAIN ix : t \in 1..drawn /\ t # n
      /\ \A t \in DOMAIN rt : t \in 1..drawn /\ t # n
  BY <1>5, <1>8 DEF Part, CredentialInv, KeyTypes, CredentialType, RowType
<1>10. rotatedAt[n] = NoTime
  BY <1>3, <1>8 DEF CredentialInv, OwnToken, KeyTypes
<1>11. KeyTypes'
  <2>1. c \in CredentialType' /\ r \in RowType'
    BY <1>1, <1>3, <1>8, PairingConstants
       DEF CredentialType, RowType, NoTime, NoToken, CredentialInv, KeyTypes
  <2>2. \A d \in DOMAIN cs : cs[d] \in CredentialType'
    BY <1>3, <1>5, <1>8 DEF Part, CredentialInv, KeyTypes, CredentialType
  <2>3. \A d \in DOMAIN left : left[d] \in RowType'
    BY <1>3, <1>5, <1>8 DEF Part, CredentialInv, KeyTypes, RowType
  <2>4. \A t \in DOMAIN rt : rt[t] \in RetiredType
    BY <1>5 DEF Part, CredentialInv, KeyTypes
  <2>5. \A d \in DOMAIN credentials' : credentials'[d] \in CredentialType' /\ d \in 1..n
    BY <1>6, <1>8, <1>9, <2>1, <2>2
  <2>6. \A d \in DOMAIN rows' : rows'[d] \in RowType' /\ d \in 1..n
    BY <1>7, <1>8, <1>9, <2>1, <2>3
  <2>7. DOMAIN byTokenHash' \subseteq 1..n /\ DOMAIN retired' \subseteq 1..n
    BY <1>3, <1>6, <1>8, <1>9
  <2>8. \A t \in DOMAIN retired' : retired'[t] \in RetiredType'
    BY <1>3, <2>4 DEF RetiredType
  <2> QED BY <1>3, <1>8, <2>5, <2>6, <2>7, <2>8 DEF CredentialInv, KeyTypes
<1>12. OwnToken'
  <2>1. /\ c.token = n /\ r.token = n
    BY <1>1
  <2>2. \A d \in DOMAIN rows' : (d = n /\ rows'[d].token = n)
                                 \/ (d \in DOMAIN left /\ d # n /\ rows'[d] = left[d])
    BY <1>7, <1>9, <2>1
  <2>3. \A d \in DOMAIN credentials' : (d = n /\ credentials'[d].token = n)
                                        \/ (d \in DOMAIN cs /\ d # n /\ credentials'[d] = cs[d])
    BY <1>6, <2>1
  <2>4. \A d \in DOMAIN credentials' : rotatedAt[credentials'[d].token] = NoTime
    BY <2>3, <1>5, <1>10 DEF Part, CredentialInv, OwnToken
  <2>5. \A d \in DOMAIN rows' : rotatedAt[rows'[d].token] = NoTime
    BY <2>2, <1>5, <1>10 DEF Part, CredentialInv, OwnToken
  <2>6. \A t \in 1..MaxTokens : t > drawn' => rotatedAt'[t] = NoTime
    BY <1>3, <1>8 DEF CredentialInv, OwnToken, KeyTypes
  <2>a. /\ \A d \in DOMAIN left : left[d].token # n
        /\ \A d \in DOMAIN cs : cs[d].token # n
    BY <1>8, <1>9
  <2>b. /\ \A d, e \in DOMAIN left : left[d].token = left[e].token => d = e
        /\ \A d \in DOMAIN cs, e \in DOMAIN left : cs[d].token = left[e].token <=> d = e
    BY <1>5 DEF Part, CredentialInv, OwnToken
  <2>7. \A d, e \in DOMAIN rows' : rows'[d].token = rows'[e].token => d = e
    BY <2>2, <2>a, <2>b
  <2>8. \A d \in DOMAIN credentials', e \in DOMAIN rows' :
            credentials'[d].token = rows'[e].token <=> d = e
    BY <2>2, <2>3, <2>a, <2>b
  <2> QED BY <1>3, <2>4, <2>5, <2>6, <2>7, <2>8 DEF OwnToken
<1>13. IndexExact'
  <2>1. c.token = n
    BY <1>1
  <2>2. /\ \A d \in DOMAIN cs : cs[d].token \in DOMAIN ix /\ ix[cs[d].token] = d
        /\ \A t \in DOMAIN ix : ix[t] \in DOMAIN cs /\ cs[ix[t]].token = t
    BY <1>4, <1>5 DEF Part, CredentialInv, IndexExact
  <2> QED BY <2>1, <2>2, <1>6, <1>9 DEF IndexExact
<1>14. WindowNotStretched'
  <2>1. \A t \in DOMAIN rt :
            /\ rotatedAt[t] # NoTime /\ rt[t].until <= rotatedAt[t] + Overlap
            /\ t \notin DOMAIN ix \cup {n}
    BY <1>5, <1>9 DEF Part, CredentialInv, WindowNotStretched
  <2>2. r.retired = NoToken
    BY <1>1
  <2>3. \A d \in DOMAIN rows' : rows'[d].retired # NoToken =>
            /\ rotatedAt[rows'[d].retired] # NoTime
            /\ rows'[d].until <= rotatedAt[rows'[d].retired] + Overlap
    BY <1>5, <1>7, <1>9, <2>2 DEF Part, CredentialInv, WindowNotStretched
  <2> QED BY <1>3, <1>6, <2>1, <2>3 DEF WindowNotStretched
<1> QED BY <1>11, <1>12, <1>13, <1>14 DEF CredentialInv

\* RefreshCredential: the row keeps a token that is rotated away, with the
\* deadline its rotation gave it.
LEMMA RotateKeeps ==
    ASSUME CredentialInv, NEW t, Exchangeable(t), Rotate(t), now' = now
    PROVE  CredentialInv'
<1>0. PICK n : n = drawn + 1
  OBVIOUS
<1>1. PICK d : d = DeviceOf(t)
  OBVIOUS
<1>2. PICK old : old = credentials[d].token
  OBVIOUS
<1>3. PICK kept : kept = RetireInStore(t, d)
  OBVIOUS
<1>4. PICK c, r :
        /\ c = [token |-> n, known |-> TRUE, expires |-> now + TokenTTL]
        /\ r = [token |-> n, expires |-> now + TokenTTL, retired |-> kept.token,
                until |-> kept.until]
  OBVIOUS
<1>5. PICK e : e = [device |-> d, until |-> now + Overlap]
  OBVIOUS
<1>6. /\ n <= MaxTokens /\ drawn' = n
      /\ rows' = With(rows, d, r)
      /\ credentials' = [credentials EXCEPT ![d] = c]
      /\ retired' = InWindow(With(retired, old, e))
      /\ byTokenHash' = With(Restrict(byTokenHash, DOMAIN byTokenHash \ {old}), n, d)
      /\ rotatedAt' = [rotatedAt EXCEPT ![old] = now]
  BY <1>0, <1>1, <1>2, <1>3, <1>4, <1>5 DEF Rotate
<1>7. d \in DOMAIN credentials
  BY <1>1 DEF Exchangeable, DeviceOf, RetiredInWindow, CredentialInv, IndexExact
<1>8. /\ n \in Nat /\ 1..drawn \subseteq 1..n /\ n \in 1..n /\ n \notin 1..drawn
      /\ 1..n \subseteq 1..MaxTokens
  BY <1>0, <1>6, PairingConstants DEF CredentialInv, KeyTypes
<1>9. /\ old \in 1..drawn /\ d \in 1..drawn /\ old # n
      /\ old \in DOMAIN byTokenHash /\ byTokenHash[old] = d
      /\ rotatedAt[old] = NoTime
  BY <1>2, <1>7, <1>8 DEF CredentialInv, KeyTypes, CredentialType, IndexExact, OwnToken
<1>10. /\ rotatedAt' \in [1..MaxTokens -> Nat]
       /\ rotatedAt'[old] = now
       /\ \A x \in 1..MaxTokens : x # old => rotatedAt'[x] = rotatedAt[x]
  BY <1>6, <1>8, <1>9 DEF CredentialInv, KeyTypes
<1>11. now \in Nat /\ now # NoTime
  BY DEF CredentialInv, KeyTypes, NoTime
\* What the row keeps is rotated away by now.
<1>12. /\ kept.token \in 1..drawn /\ kept.until \in Nat
       /\ rotatedAt'[kept.token] # NoTime
       /\ kept.until <= rotatedAt'[kept.token] + Overlap
  <2>1. CASE t \in DOMAIN byTokenHash
    <3>1. kept = [token |-> old, until |-> now + Overlap]
      BY <1>2, <1>3, <2>1 DEF RetireInStore
    <3> QED BY <3>1, <1>9, <1>10, <1>11, PairingConstants
  <2>2. CASE t \notin DOMAIN byTokenHash
    <3>1. kept = [token |-> t, until |-> retired[t].until]
      BY <1>3, <2>2 DEF RetireInStore
    <3>2. t \in DOMAIN retired /\ t # old
      BY <2>2, <1>9 DEF Exchangeable, RetiredInWindow
    <3>3. t \in 1..drawn /\ retired[t].until \in Nat
      BY <3>2 DEF CredentialInv, KeyTypes, RetiredType
    <3>4. rotatedAt[t] # NoTime /\ retired[t].until <= rotatedAt[t] + Overlap
      BY <3>2 DEF CredentialInv, WindowNotStretched
    <3>5. rotatedAt'[t] = rotatedAt[t]
      BY <3>2, <3>3, <1>8, <1>10
    <3> QED BY <3>1, <3>3, <3>4, <3>5
  <2> QED BY <2>1, <2>2
<1>13. /\ DOMAIN credentials' = DOMAIN credentials /\ credentials'[d] = c
       /\ \A x \in DOMAIN credentials : x # d => credentials'[x] = credentials[x]
  BY <1>6, <1>7
<1>14. /\ DOMAIN rows' = DOMAIN rows \cup {d} /\ rows'[d] = r
       /\ \A x \in DOMAIN rows : x # d => rows'[x] = rows[x]
  BY <1>6 DEF With
<1>15. /\ DOMAIN byTokenHash' = (DOMAIN byTokenHash \ {old}) \cup {n} /\ byTokenHash'[n] = d
       /\ \A x \in DOMAIN byTokenHash : x # old /\ x # n => byTokenHash'[x] = byTokenHash[x]
  BY <1>6 DEF With, Restrict
<1>16. /\ DOMAIN retired' \subseteq DOMAIN retired \cup {old}
       /\ \A x \in DOMAIN retired' : retired'[x] = IF x = old THEN e ELSE retired[x]
  BY <1>6 DEF InWindow, With, Restrict, RestrictDomain, RestrictValues
<1>17. c.token = n /\ r.token = n /\ r.retired = kept.token /\ r.until = kept.until
  BY <1>4
<1>18. KeyTypes'
  <2>1. c \in CredentialType' /\ r \in RowType' /\ e \in RetiredType
    BY <1>4, <1>5, <1>6, <1>8, <1>9, <1>11, <1>12, PairingConstants
       DEF CredentialType, RowType, RetiredType
  <2>2. \A x \in DOMAIN credentials : credentials[x] \in CredentialType'
    BY <1>6, <1>8 DEF CredentialInv, KeyTypes, CredentialType
  <2>3. \A x \in DOMAIN rows : rows[x] \in RowType'
    BY <1>6, <1>8 DEF CredentialInv, KeyTypes, RowType
  <2>4. \A x \in DOMAIN credentials' : credentials'[x] \in CredentialType' /\ x \in 1..n
    BY <1>8, <1>13, <2>1, <2>2 DEF CredentialInv, KeyTypes
  <2>5. \A x \in DOMAIN rows' : rows'[x] \in RowType' /\ x \in 1..n
    BY <1>8, <1>9, <1>14, <2>1, <2>3 DEF CredentialInv, KeyTypes
  <2>6. DOMAIN byTokenHash' \subseteq 1..n /\ DOMAIN retired' \subseteq 1..n
    BY <1>8, <1>9, <1>15, <1>16 DEF CredentialInv, KeyTypes
  <2>7. \A x \in DOMAIN retired' : retired'[x] \in RetiredType'
    BY <1>16, <2>1 DEF CredentialInv, KeyTypes, RetiredType
  <2> QED BY <1>6, <1>8, <1>10, <2>4, <2>5, <2>6, <2>7 DEF CredentialInv, KeyTypes
<1>19. OwnToken'
  <2>1. /\ \A x \in DOMAIN credentials :
              /\ credentials[x].token \in 1..drawn /\ credentials[x].token # n
              /\ x # d => credentials[x].token # old
    <3>1. \A x \in DOMAIN credentials : credentials[x].token \in 1..drawn
      BY DEF CredentialInv, KeyTypes, CredentialType
    <3>2. \A x \in DOMAIN credentials : byTokenHash[credentials[x].token] = x
      BY DEF CredentialInv, IndexExact
    <3> QED BY <3>1, <3>2, <1>8, <1>9
  <2>2. \A x \in DOMAIN rows :
              /\ rows[x].token \in 1..drawn /\ rows[x].token # n
              /\ x # d => rows[x].token # old
    <3>1. \A x \in DOMAIN rows : rows[x].token \in 1..drawn
      BY DEF CredentialInv, KeyTypes, RowType
    <3>2. \A x \in DOMAIN rows : rows[x].token = credentials[d].token => x = d
      BY <1>7 DEF CredentialInv, OwnToken
    <3> QED BY <3>1, <3>2, <1>2, <1>8
  <2>3. n \in 1..MaxTokens /\ rotatedAt[n] = NoTime
    BY <1>0, <1>8 DEF CredentialInv, OwnToken, KeyTypes
  <2>4. rotatedAt'[n] = NoTime
    BY <2>3, <1>9, <1>10
  <2>5. \A x \in DOMAIN credentials' : rotatedAt'[credentials'[x].token] = NoTime
    BY <2>1, <2>4, <1>8, <1>10, <1>13, <1>17 DEF CredentialInv, OwnToken
  <2>6. \A x \in DOMAIN rows' : rotatedAt'[rows'[x].token] = NoTime
    BY <2>2, <2>4, <1>8, <1>10, <1>14, <1>17 DEF CredentialInv, OwnToken
  <2>7. \A x \in 1..MaxTokens : x > drawn' => rotatedAt'[x] = NoTime
    BY <1>0, <1>6, <1>9, <1>10 DEF CredentialInv, OwnToken, KeyTypes
  <2>8. \A x, y \in DOMAIN rows' : rows'[x].token = rows'[y].token => x = y
    BY <2>2, <1>14, <1>17 DEF CredentialInv, OwnToken
  <2>9. \A x \in DOMAIN credentials', y \in DOMAIN rows' :
            credentials'[x].token = rows'[y].token <=> x = y
    BY <2>1, <2>2, <1>13, <1>14, <1>17 DEF CredentialInv, OwnToken
  <2> QED BY <2>5, <2>6, <2>7, <2>8, <2>9 DEF OwnToken
<1>20. IndexExact'
  <2>1. \A x \in DOMAIN byTokenHash : x # n
    BY <1>8 DEF CredentialInv, KeyTypes
  <2> QED BY <2>1, <1>2, <1>7, <1>9, <1>13, <1>15, <1>17 DEF CredentialInv, IndexExact
<1>21. WindowNotStretched'
  <2>1. \A x \in DOMAIN retired' :
            /\ rotatedAt'[x] # NoTime /\ retired'[x].until <= rotatedAt'[x] + Overlap
            /\ x \notin DOMAIN byTokenHash'
    <3> SUFFICES ASSUME NEW x \in DOMAIN retired'
                 PROVE  /\ rotatedAt'[x] # NoTime
                        /\ retired'[x].until <= rotatedAt'[x] + Overlap
                        /\ x \notin DOMAIN byTokenHash'
      OBVIOUS
    <3>1. CASE x = old
      BY <3>1, <1>5, <1>9, <1>10, <1>11, <1>15, <1>16, PairingConstants
    <3>2. CASE x # old
      <4>1. x \in DOMAIN retired /\ retired'[x] = retired[x] /\ x \in 1..drawn
        BY <3>2, <1>16 DEF CredentialInv, KeyTypes
      <4>2. rotatedAt'[x] = rotatedAt[x]
        BY <3>2, <4>1, <1>8, <1>10
      <4> QED BY <4>1, <4>2, <1>8, <1>15 DEF CredentialInv, WindowNotStretched
    <3> QED BY <3>1, <3>2
  <2>2. \A x \in DOMAIN rows' : rows'[x].retired # NoToken =>
            /\ rotatedAt'[rows'[x].retired] # NoTime
            /\ rows'[x].until <= rotatedAt'[rows'[x].retired] + Overlap
    <3> SUFFICES ASSUME NEW x \in DOMAIN rows', rows'[x].retired # NoToken
                 PROVE  /\ rotatedAt'[rows'[x].retired] # NoTime
                        /\ rows'[x].until <= rotatedAt'[rows'[x].retired] + Overlap
      OBVIOUS
    <3>1. CASE x = d
      BY <3>1, <1>12, <1>14, <1>17
    <3>2. CASE x # d
      <4>1. x \in DOMAIN rows /\ rows'[x] = rows[x]
        BY <3>2, <1>14
      <4>2. rows[x].retired \in 1..drawn
        BY <4>1 DEF CredentialInv, KeyTypes, RowType, NoToken
      <4>3. /\ rotatedAt[rows[x].retired] # NoTime
            /\ rows[x].until <= rotatedAt[rows[x].retired] + Overlap
        BY <4>1 DEF CredentialInv, WindowNotStretched
      <4>4. rotatedAt'[rows[x].retired] = rotatedAt[rows[x].retired]
        BY <4>2, <4>3, <1>8, <1>9, <1>10
      <4> QED BY <4>1, <4>3, <4>4
    <3> QED BY <3>1, <3>2
  <2> QED BY <2>1, <2>2 DEF WindowNotStretched
<1> QED BY <1>18, <1>19, <1>20, <1>21 DEF CredentialInv

\* loadPersistedCredentials: the rows are a state of the maps.
LEMMA RestartKeeps ==
    ASSUME CredentialInv, Restart
    PROVE  CredentialInv'
<1> DEFINE gone == {d \in DOMAIN rows : ShouldReap(rows[d].expires)}
<1> DEFINE back == DOMAIN rows \ gone
<1> DEFINE kept == {d \in back : rows[d].retired # NoToken /\ now < rows[d].until}
<1>1. /\ credentials' = [d \in back |-> [token |-> rows[d].token, known |-> FALSE,
                                         expires |-> rows[d].expires]]
      /\ byTokenHash' = [t \in {rows[d].token : d \in back} |->
                            CHOOSE d \in back : rows[d].token = t]
      /\ retired' = [t \in {rows[d].retired : d \in kept} |->
                        [device |-> CHOOSE d \in kept : rows[d].retired = t,
                         until  |-> rows[CHOOSE d \in kept : rows[d].retired = t].until]]
      /\ UNCHANGED <<now, drawn, rotatedAt>>
  BY DEF Restart, ghostVars
<1>2. Part(rows', rows)
  <2>1. DeleteRows(gone)
    BY DEF Restart
  <2> QED BY <2>1, RowsShrink
<1>3. kept \subseteq back /\ back \subseteq DOMAIN rows
      /\ \A d \in kept : rows[d].retired # NoToken
  OBVIOUS
<1> HIDE DEF gone, back, kept
<1>4. /\ DOMAIN credentials' = back
      /\ \A d \in back : credentials'[d] = [token |-> rows[d].token, known |-> FALSE,
                                             expires |-> rows[d].expires]
  BY <1>1
<1>5. /\ DOMAIN byTokenHash' = {rows[d].token : d \in back}
      /\ \A t \in DOMAIN byTokenHash' :
            byTokenHash'[t] \in back /\ rows[byTokenHash'[t]].token = t
  BY <1>1
<1>6. /\ DOMAIN retired' = {rows[d].retired : d \in kept}
      /\ \A t \in DOMAIN retired' : \E d \in kept :
            rows[d].retired = t /\ retired'[t] = [device |-> d, until |-> rows[d].until]
  <2>1. DOMAIN retired' = {rows[d].retired : d \in kept}
    BY <1>1
  <2>2. ASSUME NEW t \in DOMAIN retired'
        PROVE  \E d \in kept :
                  rows[d].retired = t /\ retired'[t] = [device |-> d, until |-> rows[d].until]
    <3>1. PICK d : d = CHOOSE e \in kept : rows[e].retired = t
      OBVIOUS
    <3>2. d \in kept /\ rows[d].retired = t
      BY <2>1, <3>1
    <3>3. retired'[t] = [device |-> d, until |-> rows[d].until]
      BY <1>1, <2>1, <3>1
    <3> QED BY <3>2, <3>3
  <2> QED BY <2>1, <2>2
<1>7. \A d \in DOMAIN rows : d \in 1..drawn /\ rows[d] \in RowType
  BY DEF CredentialInv, KeyTypes
<1>8. KeyTypes'
  <2>1. \A d \in back : credentials'[d] \in CredentialType
    <3> SUFFICES ASSUME NEW d \in back PROVE credentials'[d] \in CredentialType
      OBVIOUS
    <3>1. rows[d].token \in 1..drawn /\ rows[d].expires \in Nat
      BY <1>3, <1>7 DEF RowType
    <3>2. FALSE \in BOOLEAN
      OBVIOUS
    <3>3. credentials'[d] = [token |-> rows[d].token, known |-> FALSE, expires |-> rows[d].expires]
      BY <1>4
    <3> QED BY <3>1, <3>2, <3>3 DEF CredentialType
  <2>2. \A t \in DOMAIN retired' : retired'[t] \in RetiredType /\ t \in 1..drawn
    <3> SUFFICES ASSUME NEW t \in DOMAIN retired'
                 PROVE  retired'[t] \in RetiredType /\ t \in 1..drawn
      OBVIOUS
    <3>1. PICK d \in kept :
             rows[d].retired = t /\ retired'[t] = [device |-> d, until |-> rows[d].until]
      BY <1>6
    <3>2. d \in 1..drawn /\ rows[d] \in RowType /\ rows[d].retired # NoToken
      BY <1>3, <1>7
    <3>3. drawn \in Nat
      BY DEF CredentialInv, KeyTypes
    <3>4. rows[d].retired \in 1..drawn /\ rows[d].until \in Nat /\ d \in Nat
      BY <3>2, <3>3 DEF RowType, NoToken
    <3> QED BY <3>1, <3>4 DEF RetiredType
  <2>3. DOMAIN byTokenHash' \subseteq 1..drawn
    BY <1>3, <1>5, <1>7 DEF RowType
  <2>4. /\ DOMAIN credentials' \subseteq 1..drawn /\ DOMAIN rows' \subseteq 1..drawn
        /\ \A d \in DOMAIN rows' : rows'[d] \in RowType
    BY <1>2, <1>3, <1>4, <1>7 DEF Part
  <2>5. CredentialType' = CredentialType /\ RowType' = RowType /\ RetiredType' = RetiredType
    BY <1>1 DEF CredentialType, RowType, RetiredType
  <2> QED BY <1>1, <1>4, <2>1, <2>2, <2>3, <2>4, <2>5 DEF CredentialInv, KeyTypes
<1>9. \A d \in back : credentials'[d].token = rows[d].token
  BY <1>4
<1>10. OwnToken'
  BY <1>1, <1>2, <1>3, <1>4, <1>9 DEF CredentialInv, OwnToken, Part
<1>11. IndexExact'
  <2>1. \A d, e \in back : rows[d].token = rows[e].token => d = e
    BY <1>3 DEF CredentialInv, OwnToken
  <2> QED BY <1>4, <1>5, <1>9, <2>1 DEF IndexExact
<1>12. WindowNotStretched'
  <2>1. \A t \in DOMAIN retired' :
            rotatedAt[t] # NoTime /\ retired'[t].until <= rotatedAt[t] + Overlap
    <3> SUFFICES ASSUME NEW t \in DOMAIN retired'
                 PROVE  rotatedAt[t] # NoTime /\ retired'[t].until <= rotatedAt[t] + Overlap
      OBVIOUS
    <3>1. PICK d \in kept :
             rows[d].retired = t /\ retired'[t] = [device |-> d, until |-> rows[d].until]
      BY <1>6
    <3>2. /\ rotatedAt[rows[d].retired] # NoTime
          /\ rows[d].until <= rotatedAt[rows[d].retired] + Overlap
      BY <1>3 DEF CredentialInv, WindowNotStretched
    <3> QED BY <3>1, <3>2
  <2>2. \A t \in DOMAIN byTokenHash' : rotatedAt[t] = NoTime
    BY <1>3, <1>5 DEF CredentialInv, OwnToken
  <2>3. \A d \in DOMAIN rows' : rows'[d].retired # NoToken =>
            /\ rotatedAt[rows'[d].retired] # NoTime
            /\ rows'[d].until <= rotatedAt[rows'[d].retired] + Overlap
    BY <1>2 DEF Part, CredentialInv, WindowNotStretched
  <2> QED BY <1>1, <2>1, <2>2, <2>3 DEF WindowNotStretched
<1> QED BY <1>8, <1>10, <1>11, <1>12 DEF CredentialInv

\* Each operation of the service keeps the four maps consistent.
LEMMA CredentialStep == CredentialInv /\ [Next]_vars => CredentialInv'
<1> SUFFICES ASSUME CredentialInv, [Next]_vars PROVE CredentialInv'
  OBVIOUS
<1>0. now \in Nat \ {0}
  BY DEF CredentialInv, KeyTypes
<1>1. ASSUME UNCHANGED <<credentials, byTokenHash, retired, rows, drawn, rotatedAt>>,
             now' \in Nat \ {0}
      PROVE  CredentialInv'
  <2>1. KeyTypes'
    BY <1>1 DEF CredentialInv, KeyTypes, CredentialType, RowType, RetiredType
  <2>2. OwnToken'
    BY <1>1 DEF CredentialInv, OwnToken
  <2>3. IndexExact'
    BY <1>1 DEF CredentialInv, IndexExact
  <2>4. WindowNotStretched'
    BY <1>1 DEF CredentialInv, WindowNotStretched
  <2> QED BY <2>1, <2>2, <2>3, <2>4 DEF CredentialInv
<1>2. ASSUME PruneCredentials, UNCHANGED <<now, drawn, rotatedAt>> PROVE CredentialInv'
  <2>1. Reaped \subseteq DOMAIN credentials
    BY DEF Reaped
  <2>2. Part(retired', retired) /\ Part(rows', rows)
    BY <1>2, Shrinking, RowsShrink DEF PruneCredentials
  <2> QED BY <1>2, <2>1, <2>2, DeleteKeeps DEF PruneCredentials
<1>3. ASSUME NEW D, D \subseteq DOMAIN credentials, Delete(D), UNCHANGED <<now, drawn, rotatedAt>>
      PROVE  CredentialInv'
  <2>1. Part(retired', retired) /\ Part(rows', rows)
    BY <1>3, Shrinking, RowsShrink DEF Delete
  <2> QED BY <1>3, <2>1, DeleteKeeps DEF Delete
<1>4. CASE Approve
  BY <1>4, <1>1, <1>0 DEF Approve, serviceVars, ghostVars
<1>5. CASE StartPairing
  BY <1>5, <1>2 DEF StartPairing, ghostVars
<1>6. CASE ReadChallenges
  BY <1>6, <1>2 DEF ReadChallenges, ghostVars
<1>7. CASE ListDevices
  BY <1>7, <1>2 DEF ListDevices, ghostVars
<1>8. ASSUME NEW id, CancelChallenge(id) PROVE CredentialInv'
  BY <1>8, <1>2 DEF CancelChallenge, ghostVars
<1>9. ASSUME NEW id, CompleteFails(id) PROVE CredentialInv'
  BY <1>9, <1>2 DEF CompleteFails, ghostVars
<1>10. ASSUME NEW id, NEW saved \in BOOLEAN, CompletePairing(id, saved) PROVE CredentialInv'
  BY <1>10, CompleteKeeps
<1>11. ASSUME NEW t, ValidateCredential(t) PROVE CredentialInv'
  <2>1. UNCHANGED <<now, drawn, rotatedAt>>
    BY <1>11 DEF ValidateCredential, ghostVars
  <2>2. CASE t \in DOMAIN byTokenHash
    <3>1. Delete({byTokenHash[t]}) /\ {byTokenHash[t]} \subseteq DOMAIN credentials
      BY <1>11, <2>2 DEF ValidateCredential, CredentialInv, IndexExact
    <3> QED BY <3>1, <2>1, <1>3
  <2>3. CASE t \notin DOMAIN byTokenHash
    BY <1>11, <2>1, <2>3, <1>2 DEF ValidateCredential
  <2> QED BY <2>2, <2>3
<1>12. ASSUME NEW d, NEW t, RefreshCredential(d, t) PROVE CredentialInv'
  <2>1. now' = now /\ Exchangeable(t)
    BY <1>12 DEF RefreshCredential
  <2>2. CASE RefreshAgain(t)
    BY <2>1, <2>2, <1>0, <1>1 DEF RefreshAgain, serviceVars, ghostVars
  <2>3. CASE RefreshTooLate(t)
    <3>1. {DeviceOf(t)} \subseteq DOMAIN credentials
      BY <2>1 DEF Exchangeable, DeviceOf, RetiredInWindow, CredentialInv, IndexExact
    <3>2. Delete({DeviceOf(t)}) /\ UNCHANGED <<drawn, rotatedAt>>
      BY <2>3 DEF RefreshTooLate, ghostVars
    <3> QED BY <3>1, <3>2, <2>1, <1>3
  <2>4. CASE RefreshNotSaved(t)
    BY <2>1, <2>4, <1>0, <1>1 DEF RefreshNotSaved, serviceVars, ghostVars
  <2>5. CASE Rotate(t)
    BY <2>1, <2>5, RotateKeeps
  <2> QED BY <1>12, <2>2, <2>3, <2>4, <2>5 DEF RefreshCredential
<1>13. ASSUME NEW d, RevokeDevice(d) PROVE CredentialInv'
  BY <1>13, <1>3 DEF RevokeDevice, ghostVars
<1>14. CASE Restart
  BY <1>14, RestartKeeps
<1>15. ASSUME NEW r, ReceiveReply(r) \/ LoseReply(r) PROVE CredentialInv'
  BY <1>15, <1>1, <1>0 DEF ReceiveReply, LoseReply, serviceVars, ghostVars
<1>16. CASE Tick
  BY <1>16, <1>1, <1>0 DEF Tick, serviceVars, ghostVars
<1>17. CASE UNCHANGED vars
  BY <1>17, <1>1, <1>0 DEF vars, serviceVars, ghostVars
<1> QED BY <1>4, <1>5, <1>6, <1>7, <1>8, <1>9, <1>10, <1>11, <1>12, <1>13, <1>14, <1>15, <1>16,
           <1>17 DEF Next

LEMMA CredentialStart == Init => CredentialInv
<1> SUFFICES ASSUME Init PROVE CredentialInv
  OBVIOUS
<1>1. /\ now = 1 /\ drawn = 0
      /\ DOMAIN credentials = {} /\ DOMAIN byTokenHash = {} /\ DOMAIN retired = {}
      /\ DOMAIN rows = {}
      /\ rotatedAt = [t \in 1..MaxTokens |-> 0]
  BY DEF Init, Empty, NoTime
<1>2. KeyTypes
  BY <1>1, PairingConstants DEF KeyTypes
<1>3. OwnToken /\ IndexExact /\ WindowNotStretched
  BY <1>1 DEF OwnToken, IndexExact, WindowNotStretched, NoTime
<1> QED BY <1>2, <1>3 DEF CredentialInv

\* byTokenHash and credentials never disagree, through refreshes, prunes,
\* revocations, failing stores and restarts.
THEOREM TokensOpenTheirDevice == Spec => []IndexExact
<1>1. CredentialInv => IndexExact
  BY DEF CredentialInv
<1> QED BY <1>1, CredentialStart, CredentialStep, PTL DEF Spec

\* A rotated token is exchangeable for the overlap at most, however often it is
\* presented and whatever the restarts, and never live again.
THEOREM OverlapIsBounded == Spec => []WindowNotStretched
<1>1. CredentialInv => WindowNotStretched
  BY DEF CredentialInv
<1> QED BY <1>1, CredentialStart, CredentialStep, PTL DEF Spec
-----------------------------------------------------------------------------
(* Revocation.                                                             *)

\* A revoked device is neither in memory nor in the rows a restart would load.
RevokedInv ==
    /\ revoked \subseteq 1..drawn
    /\ \A d \in revoked \ undeleted : d \notin DOMAIN credentials /\ d \notin DOMAIN rows

\* Devices enter memory from the rows, the rows from memory, and both by the
\* pairing of a new device.
LEMMA NobodyReturns ==
    ASSUME CredentialInv, RevokedInv,
           DOMAIN credentials' \subseteq DOMAIN credentials \cup DOMAIN rows \cup {drawn + 1},
           DOMAIN rows' \subseteq DOMAIN credentials \cup DOMAIN rows \cup {drawn + 1},
           undeleted \subseteq undeleted', revoked' = revoked, drawn' \in {drawn, drawn + 1}
    PROVE  RevokedInv'
<1>1. drawn \in Nat /\ drawn + 1 \notin revoked /\ 1..drawn \subseteq 1..drawn'
  BY DEF CredentialInv, KeyTypes, RevokedInv
<1> QED BY <1>1 DEF RevokedInv

LEMMA RevokedStep == CredentialInv /\ RevokedInv /\ [Next]_vars => RevokedInv'
<1> SUFFICES ASSUME CredentialInv, RevokedInv, [Next]_vars PROVE RevokedInv'
  OBVIOUS
<1>1. ASSUME UNCHANGED <<credentials, rows, undeleted, revoked, drawn>> PROVE RevokedInv'
  BY <1>1, NobodyReturns
<1>2. ASSUME NEW D, credentials' = CredentialsWithout(D), DeleteRows(D),
             UNCHANGED <<revoked, drawn>>
      PROVE  RevokedInv'
  <2>1. DOMAIN credentials' \subseteq DOMAIN credentials
    BY <1>2, Shrinking DEF Part
  <2>2. DOMAIN rows' \subseteq DOMAIN rows /\ undeleted \subseteq undeleted'
    BY <1>2, RowsShrink DEF Part
  <2> QED BY <1>2, <2>1, <2>2, NobodyReturns
<1>3. ASSUME PruneCredentials, UNCHANGED <<revoked, drawn>> PROVE RevokedInv'
  BY <1>2, <1>3 DEF PruneCredentials
<1>4. CASE Approve
  BY <1>4, <1>1 DEF Approve, serviceVars, ghostVars
<1>5. CASE StartPairing
  BY <1>5, <1>3 DEF StartPairing, ghostVars
<1>6. CASE ReadChallenges
  BY <1>6, <1>3 DEF ReadChallenges, ghostVars
<1>7. CASE ListDevices
  BY <1>7, <1>3 DEF ListDevices, ghostVars
<1>8. ASSUME NEW id, CancelChallenge(id) PROVE RevokedInv'
  BY <1>8, <1>3 DEF CancelChallenge, ghostVars
<1>9. ASSUME NEW id, CompleteFails(id) PROVE RevokedInv'
  BY <1>9, <1>3 DEF CompleteFails, ghostVars
<1>10. ASSUME NEW id, NEW saved \in BOOLEAN, CompletePairing(id, saved) PROVE RevokedInv'
  <2>1. PICK c, r : credentials' = With(CredentialsWithout(Reaped), drawn + 1, c)
          /\ \E stuck \in Stuck(Reaped) :
                /\ rows' = IF saved THEN With(RowsWithout(Reaped, stuck), drawn + 1, r)
                                     ELSE RowsWithout(Reaped, stuck)
                /\ undeleted' = undeleted \cup stuck
    BY <1>10 DEF CompletePairing
  <2>2. PICK stuck \in Stuck(Reaped) :
                /\ rows' = IF saved THEN With(RowsWithout(Reaped, stuck), drawn + 1, r)
                                     ELSE RowsWithout(Reaped, stuck)
                /\ undeleted' = undeleted \cup stuck
    BY <2>1
  <2>3. /\ DOMAIN credentials' \subseteq DOMAIN CredentialsWithout(Reaped) \cup {drawn + 1}
        /\ DOMAIN rows' \subseteq DOMAIN RowsWithout(Reaped, stuck) \cup {drawn + 1}
    BY <2>1, <2>2 DEF With
  <2>4. /\ DOMAIN CredentialsWithout(Reaped) \subseteq DOMAIN credentials
        /\ DOMAIN RowsWithout(Reaped, stuck) \subseteq DOMAIN rows
    BY Shrinking DEF Part
  <2>5. revoked' = revoked /\ drawn' = drawn + 1
    BY <1>10 DEF CompletePairing
  <2> QED BY <2>2, <2>3, <2>4, <2>5, NobodyReturns
<1>11. ASSUME NEW t, ValidateCredential(t) PROVE RevokedInv'
  BY <1>11, <1>2, <1>3 DEF ValidateCredential, Delete, ghostVars
<1>12. ASSUME NEW d, NEW t, RefreshCredential(d, t) PROVE RevokedInv'
  <2>1. revoked' = revoked /\ Exchangeable(t)
    BY <1>12 DEF RefreshCredential
  <2>2. CASE RefreshAgain(t) \/ RefreshNotSaved(t)
    BY <2>1, <2>2, <1>1 DEF RefreshAgain, RefreshNotSaved, serviceVars, ghostVars
  <2>3. CASE RefreshTooLate(t)
    BY <2>1, <2>3, <1>2 DEF RefreshTooLate, Delete, ghostVars
  <2>4. CASE Rotate(t)
    <3>1. DeviceOf(t) \in DOMAIN credentials
      BY <2>1 DEF Exchangeable, DeviceOf, RetiredInWindow, CredentialInv, IndexExact
    <3>2. /\ DOMAIN credentials' = DOMAIN credentials
          /\ DOMAIN rows' = DOMAIN rows \cup {DeviceOf(t)}
          /\ undeleted' = undeleted /\ drawn' = drawn + 1
      BY <2>4 DEF Rotate, With
    <3> QED BY <3>1, <3>2, <2>1, NobodyReturns
  <2> QED BY <1>12, <2>2, <2>3, <2>4 DEF RefreshCredential
<1>13. ASSUME NEW d, RevokeDevice(d) PROVE RevokedInv'
  <2>1. /\ d \in DOMAIN credentials /\ revoked' = revoked \cup {d} /\ drawn' = drawn
        /\ credentials' = CredentialsWithout({d}) /\ DeleteRows({d})
    BY <1>13 DEF RevokeDevice, Delete, ghostVars
  <2>2. DOMAIN credentials' = DOMAIN credentials \ {d}
    BY <2>1, Shrinking
  <2>3. /\ DOMAIN rows' \subseteq DOMAIN rows /\ {d} \cap DOMAIN rows' \subseteq undeleted'
        /\ undeleted \subseteq undeleted'
    BY <2>1, RowsShrink DEF Part
  <2>4. d \in 1..drawn
    BY <2>1 DEF CredentialInv, KeyTypes
  <2> QED BY <2>1, <2>2, <2>3, <2>4 DEF RevokedInv
<1>14. CASE Restart
  <2> DEFINE gone == {d \in DOMAIN rows : ShouldReap(rows[d].expires)}
  <2>1. DOMAIN credentials' \subseteq DOMAIN rows /\ UNCHANGED <<revoked, drawn>>
    BY <1>14 DEF Restart, ghostVars
  <2>2. DeleteRows(gone)
    BY <1>14 DEF Restart
  <2>3. DOMAIN rows' \subseteq DOMAIN rows /\ undeleted \subseteq undeleted'
    BY <2>2, RowsShrink DEF Part
  <2> QED BY <2>1, <2>3, NobodyReturns
<1>15. ASSUME NEW r, ReceiveReply(r) \/ LoseReply(r) PROVE RevokedInv'
  BY <1>15, <1>1 DEF ReceiveReply, LoseReply, serviceVars, ghostVars
<1>16. CASE Tick
  BY <1>16, <1>1 DEF Tick, serviceVars, ghostVars
<1>17. CASE UNCHANGED vars
  BY <1>17, <1>1 DEF vars, serviceVars, ghostVars
<1> QED BY <1>4, <1>5, <1>6, <1>7, <1>8, <1>9, <1>10, <1>11, <1>12, <1>13, <1>14, <1>15, <1>16,
           <1>17 DEF Next

\* A revoked device is out for good, whatever its tokens, its client's retries
\* and the restarts, unless the store refused to delete its row
\* (deleteCredentialLocked, retiredDeviceLocked, loadPersistedCredentials).
THEOREM RevocationHolds == Spec => []RevokedStaysOut
<1>1. CredentialInv /\ RevokedInv => RevokedStaysOut
  <2> SUFFICES ASSUME CredentialInv, RevokedInv, NEW t, Exchangeable(t)
               PROVE  DeviceOf(t) \in DOMAIN credentials
    BY DEF RevokedStaysOut, RevokedInv
  <2> QED BY DEF Exchangeable, DeviceOf, RetiredInWindow, CredentialInv, IndexExact
<1>2. Init => RevokedInv
  BY DEF Init, RevokedInv
<1> QED BY <1>1, <1>2, CredentialStart, CredentialStep, RevokedStep, PTL DEF Spec
-----------------------------------------------------------------------------
(* Recovery: what a client that refreshes one at a time holds.             *)

\* Token t is one of device d's, in a map, in a row, or with its client now or
\* earlier.
Has(d, t) ==
    \/ d \in DOMAIN credentials /\ credentials[d].token = t
    \/ d \in DOMAIN rows /\ t \in {rows[d].token, rows[d].retired}
    \/ t \in DOMAIN retired /\ retired[t].device = d
    \/ d \in DOMAIN held /\ t \in held[d]
    \/ <<d, t>> \in replies

OneOwner ==
    \A t \in 1..drawn, d, e \in 1..drawn : Has(d, t) /\ Has(e, t) => d = e

\* The client of d came away with token t at its last refresh but one: memory
\* and the row know it, under the deadline its rotation gave it.
InOverlap(d, t) ==
    /\ t \in DOMAIN retired /\ retired[t] = [device |-> d, until |-> rotatedAt[t] + Overlap]
    /\ d \in DOMAIN rows
    /\ rows[d].retired = t /\ rows[d].until = rotatedAt[t] + Overlap

ClientTypes ==
    /\ paired \subseteq 1..drawn /\ DOMAIN rows \subseteq paired
    /\ DOMAIN credentials \subseteq paired /\ unsaved \subseteq paired
    /\ validUntil \in [1..MaxTokens -> Nat]
    /\ DOMAIN holds \subseteq paired
    /\ DOMAIN held = DOMAIN holds
    /\ \A d \in DOMAIN holds : /\ holds[d] \in 1..drawn /\ holds[d] \in held[d]
                               /\ held[d] \subseteq 1..drawn
    /\ \A t \in DOMAIN retired : retired[t].device \in paired
    /\ \A r \in replies : r = <<r[1], r[2]>> /\ r[1] \in paired /\ r[2] \in 1..drawn

\* A device in memory is as its client and its row know it.
InMemory(d) ==
    /\ credentials[d].expires = validUntil[d]
    /\ d \notin unsaved => d \in DOMAIN rows
    /\ d \notin Racing =>
          /\ \A t \in 1..drawn : <<d, t>> \in replies => t = credentials[d].token
          /\ d \in DOMAIN holds /\ StillGood(holds[d]) =>
                holds[d] = credentials[d].token \/ InOverlap(d, holds[d])

\* A device in the store: what a restart makes of it.
InStore(d) == rows[d].expires = validUntil[d] /\ d \notin unsaved

RecoverInv ==
    /\ ClientTypes /\ OneOwner
    /\ \A d \in paired \ revoked :
          /\ d \in DOMAIN credentials => InMemory(d)
          /\ d \in DOMAIN rows => InStore(d)
          /\ d \notin unsaved /\ ~ShouldReap(validUntil[d]) => d \in DOMAIN credentials
\* Whoever has a token or is had by one is known.
LEMMA HasKnown ==
    ASSUME CredentialInv, ClientTypes, NEW d, NEW t, Has(d, t)
    PROVE  d \in 1..drawn /\ t \in 0..drawn
<1>1. drawn \in Nat
  BY DEF CredentialInv, KeyTypes
<1>2. CASE d \in DOMAIN credentials /\ credentials[d].token = t
  BY <1>1, <1>2 DEF CredentialInv, KeyTypes, CredentialType
<1>3. CASE d \in DOMAIN rows /\ t \in {rows[d].token, rows[d].retired}
  <2>1. rows[d] \in RowType /\ d \in 1..drawn
    BY <1>3 DEF CredentialInv, KeyTypes
  <2> QED BY <1>1, <1>3, <2>1 DEF RowType
<1>4. CASE t \in DOMAIN retired /\ retired[t].device = d
  BY <1>1, <1>4 DEF CredentialInv, KeyTypes, ClientTypes
<1>5. CASE d \in DOMAIN held /\ t \in held[d]
  BY <1>1, <1>5 DEF ClientTypes
<1>6. CASE <<d, t>> \in replies
  BY <1>1, <1>6 DEF ClientTypes
<1> QED BY <1>2, <1>3, <1>4, <1>5, <1>6 DEF Has

\* Tokens change hands nowhere: a step gives a device at most the token it draws.
LEMMA OwnersKept ==
    ASSUME CredentialInv, ClientTypes, OneOwner, NEW dev,
           drawn' \in {drawn, drawn + 1},
           \A d, t : Has(d, t)' => \/ Has(d, t) \/ t = 0
                                   \/ d = dev /\ t = drawn + 1 /\ drawn' = drawn + 1
    PROVE  OneOwner'
<1>1. drawn \in Nat
  BY DEF CredentialInv, KeyTypes
<1> SUFFICES ASSUME NEW t \in 1..drawn', NEW d \in 1..drawn', NEW e \in 1..drawn',
                    Has(d, t)', Has(e, t)'
             PROVE  d = e
  BY DEF OneOwner
<1>2. CASE t = drawn + 1
  <2>1. ~Has(d, t) /\ ~Has(e, t)
    BY <1>1, <1>2, HasKnown
  <2> QED BY <2>1
<1>3. CASE t # drawn + 1
  <2>1. Has(d, t) /\ Has(e, t) /\ t \in 1..drawn
    BY <1>1, <1>3
  <2>2. d \in 1..drawn /\ e \in 1..drawn
    BY <2>1, HasKnown
  <2> QED BY <2>1, <2>2 DEF OneOwner
<1> QED BY <1>2, <1>3

\* A device a step leaves alone is still as its client knows it.
LEMMA Frame ==
    ASSUME CredentialInv, ClientTypes,
           NEW d \in DOMAIN credentials, InMemory(d),
           now' \in Nat, now' >= now, drawn' \in Nat,
           credentials'[d] = credentials[d],
           d \in DOMAIN rows => d \in DOMAIN rows' /\ rows'[d] = rows[d],
           validUntil'[d] = validUntil[d],
           d \in unsaved => d \in unsaved',
           \A t : <<d, t>> \in replies' => <<d, t>> \in replies,
           d \in DOMAIN holds' => d \in DOMAIN holds /\ holds'[d] = holds[d],
           d \in DOMAIN holds =>
              /\ rotatedAt'[holds[d]] = rotatedAt[holds[d]]
              /\ InOverlap(d, holds[d]) /\ StillGood(holds[d]) =>
                    holds[d] \in DOMAIN retired' /\ retired'[holds[d]] = retired[holds[d]]
    PROVE  InMemory(d)'
<1>1. /\ now \in Nat /\ rotatedAt \in [1..MaxTokens -> Nat] /\ drawn \in Nat
      /\ drawn <= MaxTokens /\ Overlap \in Nat /\ MaxTokens \in Nat
  BY PairingConstants DEF CredentialInv, KeyTypes
<1>2. ASSUME d \notin Racing, d \in DOMAIN holds', StillGood(holds[d])'
      PROVE  holds'[d] = credentials'[d].token \/ InOverlap(d, holds[d])'
  <2>1. d \in DOMAIN holds /\ holds'[d] = holds[d] /\ holds[d] \in 1..drawn
    BY <1>2 DEF ClientTypes
  <2>2. rotatedAt[holds[d]] \in Nat /\ rotatedAt'[holds[d]] = rotatedAt[holds[d]]
    BY <1>1, <2>1
  <2>3. StillGood(holds[d])
    <3>1. rotatedAt[holds[d]] = NoTime \/ now' < rotatedAt[holds[d]] + Overlap
      BY <1>2, <2>2 DEF StillGood
    <3> QED BY <1>1, <2>2, <3>1 DEF StillGood
  <2> QED BY <1>2, <2>1, <2>2, <2>3 DEF InMemory, InOverlap
<1>3. d \notin Racing => \A t \in 1..drawn' : <<d, t>> \in replies' => t = credentials'[d].token
  BY DEF InMemory, ClientTypes
<1> QED BY <1>2, <1>3 DEF InMemory

\* The devices that matter: still known, and as their clients know them.
Devices(d) ==
    /\ d \in DOMAIN credentials => InMemory(d)
    /\ d \in DOMAIN rows => InStore(d)
    /\ d \notin unsaved /\ ~ShouldReap(validUntil[d]) => d \in DOMAIN credentials

\* A step that only moves the clock.
LEMMA ClockRecovers ==
    ASSUME CredentialInv, RecoverInv, now' \in Nat, now' >= now,
           UNCHANGED <<credentials, retired, rows, drawn, rotatedAt, validUntil, paired,
                       unsaved, revoked, holds, held, replies>>
    PROVE  RecoverInv'
<1>1. ClientTypes'
  BY DEF RecoverInv, ClientTypes
<1>2. \A d, t : Has(d, t)' => Has(d, t)
  BY DEF Has
<1>3. OneOwner'
  BY <1>2, OwnersKept DEF RecoverInv
<1>4. now \in Nat /\ drawn \in Nat /\ drawn <= MaxTokens
  BY DEF CredentialInv, KeyTypes
<1>5. ASSUME NEW d \in paired \ revoked
      PROVE  Devices(d)'
  <2>1. ASSUME d \in DOMAIN credentials PROVE InMemory(d)'
    <3>1. InMemory(d) /\ ClientTypes
      BY <1>5, <2>1 DEF RecoverInv
    <3>2. d \in DOMAIN holds =>
            /\ rotatedAt'[holds[d]] = rotatedAt[holds[d]]
            /\ InOverlap(d, holds[d]) => holds[d] \in DOMAIN retired'
            /\ retired'[holds[d]] = retired[holds[d]]
      BY DEF InOverlap
    <3>3. drawn' \in Nat /\ (\A t : <<d, t>> \in replies' => <<d, t>> \in replies)
      BY <1>4
    <3> QED BY <2>1, <3>1, <3>2, <3>3, Frame
  <2>2. d \in DOMAIN rows => InStore(d)'
    BY DEF RecoverInv, InStore
  <2>3. validUntil[d] \in Nat /\ GracePeriod \in Nat
    BY <1>4, PairingConstants DEF RecoverInv, ClientTypes
  <2>4. ShouldReap(validUntil[d]) => ShouldReap(validUntil[d])'
    BY <1>4, <2>3 DEF ShouldReap
  <2> QED BY <2>1, <2>2, <2>4 DEF RecoverInv, Devices
<1> QED BY <1>1, <1>3, <1>5 DEF RecoverInv, Devices

\* The overlap entries of other devices stay, while they are in their window.
LEMMA RetiredStays ==
    ASSUME NEW D, NEW t \in DOMAIN retired, retired[t].device \notin D, now <= retired[t].until
    PROVE  /\ t \in DOMAIN RetiredWithout(D) /\ RetiredWithout(D)[t] = retired[t]
           /\ t \in DOMAIN InWindow(RetiredWithout(D))
           /\ InWindow(RetiredWithout(D))[t] = retired[t]
  BY DEF RetiredWithout, InWindow, Restrict, RestrictDomain, RestrictValues

\* An overlap that still counts is one a prune leaves.
LEMMA OverlapCounts ==
    ASSUME CredentialInv, ClientTypes, NEW d \in DOMAIN holds,
           InOverlap(d, holds[d]), StillGood(holds[d])
    PROVE  /\ holds[d] \in DOMAIN retired /\ retired[holds[d]].device = d
           /\ now <= retired[holds[d]].until
<1>1. /\ holds[d] \in DOMAIN retired /\ retired[holds[d]].device = d
      /\ retired[holds[d]].until = rotatedAt[holds[d]] + Overlap
      /\ rotatedAt[holds[d]] # NoTime
  BY DEF InOverlap, CredentialInv, WindowNotStretched
<1>2. holds[d] \in 1..drawn
  BY DEF ClientTypes
<1>3. rotatedAt[holds[d]] \in Nat /\ Overlap \in Nat /\ now \in Nat
  BY <1>2, PairingConstants DEF CredentialInv, KeyTypes
<1>4. now <= retired[holds[d]].until
  BY <1>1, <1>3 DEF StillGood
<1> QED BY <1>1, <1>4

\* Only revoked devices are deleted, and those beyond their grace period.
LEMMA DeleteRecovers ==
    ASSUME CredentialInv, RecoverInv, NEW D,
           credentials' = CredentialsWithout(D), DeleteRows(D),
           retired' \in {RetiredWithout(D), InWindow(RetiredWithout(D))},
           revoked \subseteq revoked',
           \A d \in (D \cap DOMAIN credentials) \ revoked' : ShouldReap(validUntil[d]),
           UNCHANGED <<now, drawn, rotatedAt, validUntil, paired, unsaved, holds, held, replies>>
    PROVE  RecoverInv'
<1>1. /\ Part(credentials', credentials) /\ DOMAIN credentials' = DOMAIN credentials \ D
      /\ Part(retired', retired)
  <2>1. /\ Part(CredentialsWithout(D), credentials)
        /\ DOMAIN CredentialsWithout(D) = DOMAIN credentials \ D
        /\ Part(RetiredWithout(D), retired) /\ Part(InWindow(RetiredWithout(D)), retired)
    BY Shrinking
  <2>2. retired' = RetiredWithout(D) \/ retired' = InWindow(RetiredWithout(D))
    OBVIOUS
  <2>3. Part(retired', retired)
    BY <2>1, <2>2
  <2> QED BY <2>1, <2>3
<1>2. Part(rows', rows) /\ DOMAIN rows \ D \subseteq DOMAIN rows'
  BY RowsShrink
<1>3. ClientTypes'
  BY <1>1, <1>2 DEF RecoverInv, ClientTypes, Part
<1>4. \A d, t : Has(d, t)' => Has(d, t)
  BY <1>1, <1>2 DEF Has, Part
<1>5. OneOwner'
  BY <1>4, OwnersKept DEF RecoverInv
<1>6. now \in Nat /\ drawn \in Nat /\ rotatedAt \in [1..MaxTokens -> Nat] /\ drawn <= MaxTokens
  BY DEF CredentialInv, KeyTypes
<1>7. ASSUME NEW d \in paired \ revoked'
      PROVE  Devices(d)'
  <2>0. Devices(d)
    BY <1>7 DEF RecoverInv, Devices
  <2>1. ASSUME d \in DOMAIN credentials' PROVE InMemory(d)'
    <3>1. d \in DOMAIN credentials /\ d \notin D /\ credentials'[d] = credentials[d]
      BY <1>1, <2>1 DEF Part
    <3>2. InMemory(d)
      BY <2>0, <3>1 DEF Devices
    <3>3. d \in DOMAIN rows => d \in DOMAIN rows' /\ rows'[d] = rows[d]
      BY <1>2, <3>1 DEF Part
    <3>4. ASSUME d \in DOMAIN holds, InOverlap(d, holds[d]), StillGood(holds[d])
          PROVE  holds[d] \in DOMAIN retired' /\ retired'[holds[d]] = retired[holds[d]]
      <4>1. /\ holds[d] \in DOMAIN retired /\ retired[holds[d]].device = d
            /\ now <= retired[holds[d]].until
        BY <3>4, OverlapCounts DEF RecoverInv
      <4> QED BY <4>1, <3>1, RetiredStays
    <3> QED BY <1>6, <3>1, <3>2, <3>3, <3>4, Frame DEF RecoverInv
  <2>2. d \in DOMAIN rows' => InStore(d)'
    BY <1>2, <2>0 DEF Devices, InStore, Part
  <2>3. ShouldReap(validUntil[d])' <=> ShouldReap(validUntil[d])
    BY DEF ShouldReap
  <2>4. d \notin unsaved /\ ~ShouldReap(validUntil[d]) => d \in DOMAIN credentials'
    BY <1>1, <1>7, <2>0 DEF Devices
  <2> QED BY <2>1, <2>2, <2>3, <2>4 DEF Devices
<1> QED BY <1>3, <1>5, <1>7 DEF RecoverInv, Devices
\* CompletePairing: the new device has nothing to recover, the others keep
\* what they have.
LEMMA CompleteRecovers ==
    ASSUME CredentialInv, RecoverInv, NEW id, NEW saved \in BOOLEAN, CompletePairing(id, saved)
    PROVE  RecoverInv'
<1> DEFINE D == Reaped
<1>0. PICK n : n = drawn + 1
  OBVIOUS
<1>1. PICK c, r :
        /\ c = [token |-> n, known |-> TRUE, expires |-> now + TokenTTL]
        /\ r = [token |-> n, expires |-> now + TokenTTL, retired |-> NoToken, until |-> NoTime]
  OBVIOUS
<1>2. PICK stuck \in Stuck(D) :
        rows' = IF saved THEN With(RowsWithout(D, stuck), n, r) ELSE RowsWithout(D, stuck)
  BY <1>0, <1>1 DEF CompletePairing
<1> DEFINE left == RowsWithout(D, stuck)
<1> DEFINE cs == CredentialsWithout(D)
<1>3. /\ n <= MaxTokens /\ drawn' = n /\ paired' = paired \cup {n}
      /\ credentials' = With(cs, n, c)
      /\ retired' = InWindow(RetiredWithout(D))
      /\ unsaved' = IF saved THEN unsaved ELSE unsaved \cup {n}
      /\ validUntil' = [validUntil EXCEPT ![n] = now + TokenTTL]
      /\ replies' = replies \cup {<<n, n>>}
      /\ UNCHANGED <<now, rotatedAt, revoked, holds, held>>
  BY <1>0, <1>1 DEF CompletePairing
<1>4. /\ Part(cs, credentials) /\ DOMAIN cs = DOMAIN credentials \ D
      /\ Part(retired', retired)
      /\ Part(left, rows) /\ DOMAIN rows \ D \subseteq DOMAIN left
  BY <1>2, <1>3, Shrinking
<1>5. \A d \in D : d \in DOMAIN credentials /\ ShouldReap(credentials[d].expires)
  BY DEF Reaped
<1>6. ASSUME NEW d \in DOMAIN holds, d \notin D, InOverlap(d, holds[d]), StillGood(holds[d])
      PROVE  holds[d] \in DOMAIN retired' /\ retired'[holds[d]] = retired[holds[d]]
  <2>1. /\ holds[d] \in DOMAIN retired /\ retired[holds[d]].device \notin D
        /\ now <= retired[holds[d]].until
    BY <1>6, OverlapCounts DEF RecoverInv
  <2> QED BY <1>3, <2>1, RetiredStays
<1> HIDE DEF D, cs, left
<1>7. /\ n \in Nat /\ drawn \in Nat /\ 1..drawn \subseteq 1..n /\ n \in 1..n /\ n \notin 1..drawn
      /\ now \in Nat /\ TokenTTL \in Nat /\ MaxTokens \in Nat /\ n \in 1..MaxTokens
  BY <1>0, <1>3, PairingConstants DEF CredentialInv, KeyTypes
<1>8. /\ n \notin paired /\ n \notin DOMAIN rows /\ n \notin DOMAIN credentials
      /\ n \notin DOMAIN holds /\ n \notin unsaved
      /\ \A t : <<n, t>> \notin replies
  BY <1>7 DEF RecoverInv, ClientTypes
<1>9. /\ DOMAIN credentials' = DOMAIN cs \cup {n} /\ credentials'[n] = c
      /\ \A d \in DOMAIN cs : credentials'[d] = credentials[d] /\ d # n
  BY <1>3, <1>4, <1>8 DEF With, Part
<1>10. /\ DOMAIN rows' = IF saved THEN DOMAIN left \cup {n} ELSE DOMAIN left
       /\ saved => rows'[n] = r
       /\ \A d \in DOMAIN left : rows'[d] = rows[d] /\ d # n /\ d \in DOMAIN rows
  BY <1>2, <1>4, <1>8 DEF With, Part, left
<1>11. validUntil' \in [1..MaxTokens -> Nat] /\ validUntil'[n] = now + TokenTTL
       /\ \A d \in 1..MaxTokens : d # n => validUntil'[d] = validUntil[d]
  BY <1>3, <1>7 DEF RecoverInv, ClientTypes
<1>12. ClientTypes'
  <2>1. paired' \subseteq 1..n /\ DOMAIN holds' \subseteq paired' /\ unsaved' \subseteq paired'
    BY <1>3, <1>7 DEF RecoverInv, ClientTypes
  <2>2. DOMAIN rows' \subseteq paired' /\ DOMAIN credentials' \subseteq paired'
    BY <1>3, <1>4, <1>9, <1>10 DEF RecoverInv, ClientTypes
  <2>3. \A t \in DOMAIN retired' : retired'[t].device \in paired'
    BY <1>3, <1>4 DEF RecoverInv, ClientTypes, Part
  <2>4. /\ DOMAIN held' = DOMAIN holds'
        /\ \A d \in DOMAIN holds' : holds'[d] \in 1..n /\ holds'[d] \in held'[d] /\ held'[d] \subseteq 1..n
    BY <1>3, <1>7 DEF RecoverInv, ClientTypes
  <2>5. \A q \in replies' : q = <<q[1], q[2]>> /\ q[1] \in paired' /\ q[2] \in 1..n
    BY <1>3, <1>7 DEF RecoverInv, ClientTypes
  <2> QED BY <1>3, <1>11, <2>1, <2>2, <2>3, <2>4, <2>5 DEF ClientTypes
<1>14. \A d, t : Has(d, t)' => Has(d, t) \/ (d = n /\ t = n) \/ t = 0
  <2> SUFFICES ASSUME NEW d, NEW t, Has(d, t)', t # 0
               PROVE  Has(d, t) \/ (d = n /\ t = n)
    OBVIOUS
  <2>1. c.token = n /\ r.token = n /\ r.retired = 0
    BY <1>1 DEF NoToken
  <2>2. CASE d \in DOMAIN credentials' /\ credentials'[d].token = t
    BY <2>1, <2>2, <1>4, <1>9 DEF Has
  <2>3. CASE d \in DOMAIN rows' /\ t \in {rows'[d].token, rows'[d].retired}
    BY <2>1, <2>3, <1>10 DEF Has
  <2>4. CASE t \in DOMAIN retired' /\ retired'[t].device = d
    BY <2>4, <1>4 DEF Has, Part
  <2>5. CASE d \in DOMAIN held' /\ t \in held'[d]
    BY <2>5, <1>3 DEF Has
  <2>6. CASE <<d, t>> \in replies'
    BY <2>6, <1>3 DEF Has
  <2> QED BY <2>2, <2>3, <2>4, <2>5, <2>6 DEF Has
<1>15. OneOwner'
  BY <1>0, <1>3, <1>14, OwnersKept DEF RecoverInv
<1>16. ASSUME NEW d \in paired' \ revoked
       PROVE  Devices(d)'
  <2>1. CASE d = n
    <3>1. credentials'[n].expires = validUntil'[n] /\ credentials'[n].token = n
      BY <1>1, <1>9, <1>11
    <3>2. \A t \in 1..drawn' : <<n, t>> \in replies' => t = n
      BY <1>3, <1>8
    <3>3. n \notin unsaved' => n \in DOMAIN rows'
      BY <1>3, <1>10
    <3>4. InMemory(n)'
      BY <1>3, <1>8, <3>1, <3>2, <3>3 DEF InMemory
    <3>5. n \in DOMAIN rows' => rows'[n].expires = validUntil'[n] /\ n \notin unsaved'
      BY <1>1, <1>3, <1>4, <1>8, <1>10, <1>11 DEF Part
    <3> QED BY <2>1, <3>4, <3>5, <1>9 DEF Devices, InStore
  <2>2. CASE d # n
    <3>1. d \in paired \ revoked /\ d \in 1..MaxTokens /\ validUntil'[d] = validUntil[d]
      <4>1. d \in paired \ revoked
        BY <1>3, <1>16, <2>2
      <4>2. d \in 1..MaxTokens
        BY <4>1, <1>7, <1>3 DEF RecoverInv, ClientTypes
      <4> QED BY <4>1, <4>2, <2>2, <1>11
    <3>2. Devices(d)
      BY <3>1 DEF RecoverInv, Devices
    <3>3. ASSUME d \in DOMAIN credentials' PROVE InMemory(d)'
      <4>1. d \in DOMAIN credentials /\ d \notin D /\ credentials'[d] = credentials[d]
        BY <1>4, <1>9, <2>2, <3>3
      <4>2. d \in DOMAIN rows => d \in DOMAIN rows' /\ rows'[d] = rows[d]
        BY <1>4, <1>10, <4>1
      <4>3. InMemory(d)
        BY <3>2, <4>1 DEF Devices
      <4>4. \A t : <<d, t>> \in replies' => <<d, t>> \in replies
        BY <1>3, <2>2
      <4> QED BY <1>3, <1>6, <1>7, <3>1, <4>1, <4>2, <4>3, <4>4, Frame DEF RecoverInv
    <3>4. d \in DOMAIN rows' => InStore(d)'
      BY <1>3, <1>10, <2>2, <3>1, <3>2 DEF Devices, InStore
    <3>5. d \in DOMAIN credentials \ D => d \in DOMAIN credentials'
      BY <1>4, <1>9
    <3>6. d \in D => ShouldReap(validUntil[d])
      BY <1>5, <3>2 DEF Devices, InMemory
    <3>7. ShouldReap(validUntil[d])' <=> ShouldReap(validUntil[d])
      BY <1>3, <3>1 DEF ShouldReap
    <3>8. d \notin unsaved' => d \notin unsaved
      BY <1>3
    <3> QED BY <3>2, <3>3, <3>4, <3>5, <3>6, <3>7, <3>8 DEF Devices
  <2> QED BY <2>1, <2>2
<1> QED BY <1>3, <1>12, <1>15, <1>16 DEF RecoverInv, Devices
\* The tokens a client has had open its own device or none.
LEMMA OwnDevice ==
    ASSUME CredentialInv, RecoverInv, NEW d \in DOMAIN holds, NEW t \in held[d], Exchangeable(t)
    PROVE  DeviceOf(t) = d /\ d \in DOMAIN credentials
<1> DEFINE e == DeviceOf(t)
<1>1. Has(d, t) /\ t \in 1..drawn
  BY DEF Has, RecoverInv, ClientTypes
<1>2. Has(e, t) /\ e \in DOMAIN credentials
  <2>1. CASE t \in DOMAIN byTokenHash
    BY <2>1 DEF DeviceOf, Has, CredentialInv, IndexExact
  <2>2. CASE t \notin DOMAIN byTokenHash
    BY <2>2 DEF Exchangeable, RetiredInWindow, DeviceOf, Has
  <2> QED BY <2>1, <2>2
<1> HIDE DEF e
<1>3. d \in 1..drawn /\ e \in 1..drawn
  BY <1>1, <1>2, HasKnown DEF RecoverInv
<1>4. d = e
  BY <1>1, <1>2, <1>3 DEF RecoverInv, OneOwner
<1> QED BY <1>2, <1>4 DEF e

\* A rotation: the token the client came with stays exchangeable, in memory and
\* in the row, until the overlap after its own rotation.
LEMMA RotateRecovers ==
    ASSUME CredentialInv, RecoverInv, NEW d \in DOMAIN holds, NEW t \in held[d], Exchangeable(t),
           Rotate(t), d \notin Racing => t = holds[d] /\ \A q \in replies : q[1] # d,
           UNCHANGED <<now, revoked, holds, held>>
    PROVE  RecoverInv'
<1>0. PICK n : n = drawn + 1
  OBVIOUS
<1>1. DeviceOf(t) = d /\ d \in DOMAIN credentials
  BY OwnDevice
<1>2. PICK old : old = credentials[d].token
  OBVIOUS
<1>3. PICK kept : kept = RetireInStore(t, d)
  OBVIOUS
<1>4. PICK c, r, e :
        /\ c = [token |-> n, known |-> TRUE, expires |-> now + TokenTTL]
        /\ r = [token |-> n, expires |-> now + TokenTTL, retired |-> kept.token,
                until |-> kept.until]
        /\ e = [device |-> d, until |-> now + Overlap]
  OBVIOUS
<1>5. /\ n <= MaxTokens /\ drawn' = n /\ UNCHANGED paired
      /\ rows' = With(rows, d, r)
      /\ credentials' = [credentials EXCEPT ![d] = c]
      /\ retired' = InWindow(With(retired, old, e))
      /\ unsaved' = unsaved \ {d}
      /\ rotatedAt' = [rotatedAt EXCEPT ![old] = now]
      /\ validUntil' = [validUntil EXCEPT ![d] = now + TokenTTL]
      /\ replies' = replies \cup {<<d, n>>}
  BY <1>0, <1>1, <1>2, <1>3, <1>4 DEF Rotate
<1>6. /\ n \in Nat /\ drawn \in Nat /\ 1..drawn \subseteq 1..n /\ n \in 1..n /\ n \notin 1..drawn
      /\ now \in Nat /\ now # 0 /\ TokenTTL \in Nat /\ Overlap \in Nat
      /\ MaxTokens \in Nat /\ 1..n \subseteq 1..MaxTokens
  BY <1>0, <1>5, PairingConstants DEF CredentialInv, KeyTypes
<1>7. /\ old \in 1..drawn /\ d \in 1..drawn /\ d \in paired /\ t \in 1..drawn
      /\ old \in DOMAIN byTokenHash /\ rotatedAt[old] = NoTime
  BY <1>0, <1>1, <1>2 DEF CredentialInv, KeyTypes, CredentialType, IndexExact, OwnToken,
     RecoverInv, ClientTypes
<1>8. /\ DOMAIN credentials' = DOMAIN credentials /\ credentials'[d] = c
      /\ \A x \in DOMAIN credentials : x # d => credentials'[x] = credentials[x]
  BY <1>5, <1>1
<1>9. /\ DOMAIN rows' = DOMAIN rows \cup {d} /\ rows'[d] = r
      /\ \A x \in DOMAIN rows : x # d => rows'[x] = rows[x]
  BY <1>5 DEF With
<1>10. /\ DOMAIN retired' \subseteq DOMAIN retired \cup {old}
       /\ \A x \in DOMAIN retired' : retired'[x] = IF x = old THEN e ELSE retired[x]
       /\ \A x \in DOMAIN retired : x # old /\ now <= retired[x].until => x \in DOMAIN retired'
       /\ now <= e.until => old \in DOMAIN retired'
  BY <1>5 DEF InWindow, With, Restrict, RestrictDomain, RestrictValues
<1>11. /\ rotatedAt' \in [1..MaxTokens -> Nat] /\ rotatedAt'[old] = now
       /\ \A x \in 1..drawn : x # old => rotatedAt'[x] = rotatedAt[x]
       /\ validUntil' \in [1..MaxTokens -> Nat] /\ validUntil'[d] = now + TokenTTL
       /\ \A x \in 1..drawn : x # d => validUntil'[x] = validUntil[x]
  <2>1. rotatedAt \in [1..MaxTokens -> Nat] /\ validUntil \in [1..MaxTokens -> Nat]
    BY DEF CredentialInv, KeyTypes, RecoverInv, ClientTypes
  <2>2. 1..drawn \subseteq 1..MaxTokens /\ now + TokenTTL \in Nat
    BY <1>6
  <2>3. old \in 1..MaxTokens /\ d \in 1..MaxTokens
    BY <2>2, <1>7
  <2> QED BY <2>1, <2>2, <2>3, <1>5, <1>6
<1>12. c.token = n /\ r.token = n /\ r.retired = kept.token /\ r.until = kept.until
       /\ c.expires = now + TokenTTL /\ r.expires = now + TokenTTL
       /\ e.device = d /\ e.until = now + Overlap
  BY <1>4
\* The row keeps the token the client came with.
<1>13. kept.token = t /\ (t = old => kept.until = now + Overlap)
       /\ (t # old => kept.until = retired[t].until)
  <2>1. CASE t \in DOMAIN byTokenHash
    <3>1. t = old
      BY <1>1, <1>2, <2>1 DEF DeviceOf, CredentialInv, IndexExact
    <3> QED BY <3>1, <2>1, <1>2, <1>3 DEF RetireInStore
  <2>2. CASE t \notin DOMAIN byTokenHash
    BY <2>2, <1>3, <1>7 DEF RetireInStore
  <2> QED BY <2>1, <2>2
<1>14. ClientTypes'
  <2>1. /\ paired' \subseteq 1..n /\ DOMAIN holds' \subseteq paired' /\ unsaved' \subseteq paired'
        /\ DOMAIN rows' \subseteq paired' /\ DOMAIN credentials' \subseteq paired'
    BY <1>5, <1>6, <1>7, <1>8, <1>9 DEF RecoverInv, ClientTypes
  <2>2. \A x \in DOMAIN retired' : retired'[x].device \in paired'
    BY <1>5, <1>7, <1>10, <1>12 DEF RecoverInv, ClientTypes
  <2>3. /\ DOMAIN held' = DOMAIN holds'
        /\ \A x \in DOMAIN holds' : holds'[x] \in 1..n /\ holds'[x] \in held'[x] /\ held'[x] \subseteq 1..n
    BY <1>6 DEF RecoverInv, ClientTypes
  <2>4. ASSUME NEW q \in replies' PROVE q = <<q[1], q[2]>> /\ q[1] \in paired' /\ q[2] \in 1..n
    <3>1. CASE q \in replies
      <4>1. q = <<q[1], q[2]>> /\ q[1] \in paired /\ q[2] \in 1..drawn
        BY <3>1 DEF RecoverInv, ClientTypes
      <4> QED BY <1>5, <1>6, <4>1
    <3>2. CASE q = <<d, n>>
      BY <1>5, <1>6, <1>7, <3>2
    <3> QED BY <1>5, <2>4, <3>1, <3>2
  <2> QED BY <1>5, <1>11, <2>1, <2>2, <2>3, <2>4 DEF ClientTypes
<1>16. \A x, y : Has(x, y)' => Has(x, y) \/ (x = d /\ y = n)
  <2> SUFFICES ASSUME NEW x, NEW y, Has(x, y)' PROVE Has(x, y) \/ (x = d /\ y = n)
    OBVIOUS
  <2>1. Has(d, t) /\ Has(d, old)
    BY <1>0, <1>1, <1>2 DEF Has, RecoverInv, ClientTypes
  <2>2. CASE x \in DOMAIN credentials' /\ credentials'[x].token = y
    BY <2>2, <1>8, <1>12 DEF Has
  <2>3. CASE x \in DOMAIN rows' /\ y \in {rows'[x].token, rows'[x].retired}
    <3>1. CASE x = d
      BY <2>1, <2>3, <3>1, <1>9, <1>12, <1>13
    <3>2. CASE x # d
      BY <2>3, <3>2, <1>9 DEF Has
    <3> QED BY <3>1, <3>2
  <2>4. CASE y \in DOMAIN retired' /\ retired'[y].device = x
    <3>1. CASE y = old
      BY <2>1, <2>4, <3>1, <1>10, <1>12
    <3>2. CASE y # old
      BY <2>4, <3>2, <1>10 DEF Has
    <3> QED BY <3>1, <3>2
  <2>5. CASE x \in DOMAIN held' /\ y \in held'[x]
    BY <2>5 DEF Has
  <2>6. CASE <<x, y>> \in replies'
    BY <2>6, <1>5 DEF Has
  <2> QED BY <2>2, <2>3, <2>4, <2>5, <2>6 DEF Has
<1>17. OneOwner'
  BY <1>0, <1>5, <1>16, OwnersKept DEF RecoverInv
<1>18. d \notin revoked => Devices(d)'
  <2> SUFFICES ASSUME d \notin revoked PROVE Devices(d)'
    OBVIOUS
  <2>1. InMemory(d)
    BY <1>1, <1>7 DEF RecoverInv
  <2>2. d \notin Racing => \A y \in 1..drawn' : <<d, y>> \in replies' => y = n
    BY <1>5
  <2>3. ASSUME d \notin Racing, StillGood(t)' PROVE InOverlap(d, t)'
    <3>1. CASE t = old
      <4>1. now <= e.until
        BY <1>6, <1>12
      <4>2. old \in DOMAIN retired' /\ retired'[old] = e /\ rotatedAt'[old] = now
        BY <4>1, <1>10, <1>11
      <4> QED BY <3>1, <4>2, <1>4, <1>9, <1>12, <1>13 DEF InOverlap
    <3>2. CASE t # old
      <4>1. rotatedAt'[t] = rotatedAt[t] /\ StillGood(t)
        BY <2>3, <3>2, <1>7, <1>11 DEF StillGood
      <4>2. InOverlap(d, t)
        BY <4>1, <2>1, <2>3, <3>2, <1>2 DEF InMemory
      <4>3. now <= retired[t].until /\ t \in DOMAIN retired
        BY <2>3, <4>1, <4>2, OverlapCounts DEF RecoverInv
      <4>4. t \in DOMAIN retired' /\ retired'[t] = retired[t]
        BY <4>3, <3>2, <1>10
      <4> QED BY <3>2, <4>1, <4>2, <4>4, <1>9, <1>12, <1>13 DEF InOverlap
    <3> QED BY <3>1, <3>2
  <2>4. InMemory(d)'
    BY <2>2, <2>3, <1>0, <1>8, <1>9, <1>11, <1>12 DEF InMemory
  <2>5. InStore(d)'
    BY <1>5, <1>9, <1>11, <1>12 DEF InStore
  <2> QED BY <2>4, <2>5, <1>1, <1>8 DEF Devices
<1>19. ASSUME NEW x \in paired \ revoked, x # d PROVE Devices(x)'
  <2>1. Devices(x) /\ x \in 1..drawn
    BY <1>19 DEF RecoverInv, Devices, ClientTypes
  <2>2. ASSUME x \in DOMAIN credentials PROVE InMemory(x)'
    <3>1. ASSUME x \in DOMAIN holds
          PROVE  /\ rotatedAt'[holds[x]] = rotatedAt[holds[x]]
                 /\ InOverlap(x, holds[x]) /\ StillGood(holds[x]) =>
                       holds[x] \in DOMAIN retired' /\ retired'[holds[x]] = retired[holds[x]]
      <4>1. Has(x, holds[x]) /\ Has(d, old) /\ holds[x] \in 1..drawn
        BY <3>1, <1>1, <1>2 DEF Has, RecoverInv, ClientTypes
      <4>2. holds[x] # old
        BY <4>1, <1>7, <1>19, <2>1 DEF RecoverInv, OneOwner
      <4>3. InOverlap(x, holds[x]) /\ StillGood(holds[x]) =>
              now <= retired[holds[x]].until /\ holds[x] \in DOMAIN retired
        BY <3>1, OverlapCounts DEF RecoverInv
      <4> QED BY <4>1, <4>2, <4>3, <1>10, <1>11
    <3>2. /\ credentials'[x] = credentials[x] /\ validUntil'[x] = validUntil[x]
          /\ x \in DOMAIN rows => x \in DOMAIN rows' /\ rows'[x] = rows[x]
          /\ \A y : <<x, y>> \in replies' => <<x, y>> \in replies
          /\ x \in unsaved => x \in unsaved'
      BY <1>5, <1>8, <1>9, <1>11, <1>19, <2>1, <2>2
    <3>3. now' \in Nat /\ now' >= now /\ drawn' \in Nat /\ InMemory(x) /\ ClientTypes
      BY <1>5, <1>6, <2>1, <2>2 DEF Devices, RecoverInv
    <3> QED BY <2>2, <3>1, <3>2, <3>3, Frame
  <2>3. x \in DOMAIN rows' => InStore(x)'
    BY <1>5, <1>9, <1>11, <1>19, <2>1 DEF Devices, InStore
  <2>4. ShouldReap(validUntil[x])' <=> ShouldReap(validUntil[x])
    BY <1>11, <1>19, <2>1 DEF ShouldReap
  <2>5. x \notin unsaved' => x \notin unsaved
    BY <1>5, <1>19
  <2> QED BY <2>1, <2>2, <2>3, <2>4, <2>5, <1>8 DEF Devices
<1> QED BY <1>5, <1>14, <1>17, <1>18, <1>19 DEF RecoverInv, Devices
\* RefreshCredential hands out the live credential again: the answer is the
\* device's only one.
LEMMA AgainRecovers ==
    ASSUME CredentialInv, RecoverInv, NEW d \in DOMAIN holds, NEW t \in held[d], Exchangeable(t),
           RefreshAgain(t),
           UNCHANGED <<now, revoked, holds, held>>
    PROVE  RecoverInv'
<1>1. DeviceOf(t) = d /\ d \in DOMAIN credentials
  BY OwnDevice
<1>2. PICK u : u = credentials[d].token
  OBVIOUS
<1>3. /\ replies' = replies \cup {<<d, u>>}
      /\ UNCHANGED <<credentials, retired, rows, drawn, paired, unsaved, rotatedAt, validUntil>>
  BY <1>1, <1>2 DEF RefreshAgain, serviceVars, ghostVars
<1>4. u \in 1..drawn /\ d \in paired /\ Has(d, u) /\ now \in Nat /\ drawn \in Nat
  BY <1>1, <1>2 DEF CredentialInv, KeyTypes, CredentialType, RecoverInv, ClientTypes, Has
<1>5. ClientTypes'
  BY <1>3, <1>4 DEF RecoverInv, ClientTypes
<1>7. \A x, y : Has(x, y)' => Has(x, y)
  BY <1>3, <1>4 DEF Has
<1>8. OneOwner'
  BY <1>3, <1>7, OwnersKept DEF RecoverInv
<1>9. ASSUME NEW x \in paired \ revoked PROVE Devices(x)'
  <2>1. Devices(x)
    BY <1>9 DEF RecoverInv, Devices
  <2>2. ASSUME x \in DOMAIN credentials PROVE InMemory(x)'
    <3>1. InMemory(x)
      BY <2>1, <2>2 DEF Devices
    <3>2. x \notin Racing => \A y \in 1..drawn : <<x, y>> \in replies' => y = credentials[x].token
      BY <1>2, <1>3, <3>1 DEF InMemory
    <3>3. x \in DOMAIN holds => /\ StillGood(holds[x])' <=> StillGood(holds[x])
                                /\ InOverlap(x, holds[x])' <=> InOverlap(x, holds[x])
      BY <1>3 DEF StillGood, InOverlap
    <3> QED BY <1>3, <3>1, <3>2, <3>3 DEF InMemory
  <2>3. x \in DOMAIN rows => InStore(x)'
    BY <1>3, <2>1 DEF Devices, InStore
  <2>4. ShouldReap(validUntil[x])' <=> ShouldReap(validUntil[x])
    BY <1>3 DEF ShouldReap
  <2> QED BY <1>3, <2>1, <2>2, <2>3, <2>4 DEF Devices
<1> QED BY <1>3, <1>5, <1>8, <1>9 DEF RecoverInv, Devices

\* The client takes an answer, or the answer is lost.
LEMMA ReplyRecovers ==
    ASSUME CredentialInv, RecoverInv, NEW r \in replies, ReceiveReply(r) \/ LoseReply(r)
    PROVE  RecoverInv'
<1>1. PICK d, t : r = <<d, t>> /\ d \in paired /\ t \in 1..drawn
  BY DEF RecoverInv, ClientTypes
<1>2. /\ replies' = replies \ {r}
      /\ UNCHANGED <<now, credentials, retired, rows, drawn, paired, unsaved, rotatedAt,
                     validUntil, revoked>>
  BY DEF ReceiveReply, LoseReply, serviceVars, ghostVars
<1>3. /\ DOMAIN holds' \subseteq DOMAIN holds \cup {d}
      /\ \A x \in DOMAIN holds' : (holds'[x] = holds[x] /\ x \in DOMAIN holds) \/ (x = d /\ holds'[x] = t)
  <2>1. holds' = With(holds, d, t) \/ holds' = holds
    BY <1>1 DEF ReceiveReply, LoseReply
  <2> QED BY <2>1 DEF With
<1>h. /\ DOMAIN held' = DOMAIN holds'
      /\ \A x \in DOMAIN held' : /\ holds'[x] \in held'[x]
                                 /\ \A y \in held'[x] : (x = d /\ y = t) \/ (x \in DOMAIN held /\ y \in held[x])
  <2>1. CASE ReceiveReply(r)
    <3>1. /\ holds' = With(holds, d, t)
          /\ held' = With(held, d, {t} \cup IF d \in DOMAIN held THEN held[d] ELSE {})
      BY <1>1, <2>1 DEF ReceiveReply
    <3> QED BY <3>1 DEF With, RecoverInv, ClientTypes
  <2>2. CASE LoseReply(r)
    BY <2>2 DEF LoseReply, RecoverInv, ClientTypes
  <2> QED BY <2>1, <2>2
<1>4. now \in Nat /\ drawn \in Nat /\ Has(d, t)
  BY <1>1 DEF CredentialInv, KeyTypes, Has
<1>5. ClientTypes'
  BY <1>1, <1>2, <1>3, <1>h DEF RecoverInv, ClientTypes
<1>7. \A x, y : Has(x, y)' => Has(x, y)
  BY <1>2, <1>h, <1>4 DEF Has
<1>8. OneOwner'
  BY <1>2, <1>7, OwnersKept DEF RecoverInv
<1>9. ASSUME NEW x \in paired \ revoked PROVE Devices(x)'
  <2>1. Devices(x)
    BY <1>9 DEF RecoverInv, Devices
  <2>2. ASSUME x \in DOMAIN credentials PROVE InMemory(x)'
    <3>1. InMemory(x)
      BY <2>1, <2>2 DEF Devices
    <3>2. x \notin Racing => \A y \in 1..drawn : <<x, y>> \in replies' => y = credentials[x].token
      BY <1>2, <3>1 DEF InMemory
    <3>3. x = d /\ x \notin Racing => t = credentials[x].token
      BY <1>1, <3>1 DEF InMemory
    <3>4. ASSUME x \notin Racing, x \in DOMAIN holds', StillGood(holds[x])'
          PROVE  holds'[x] = credentials[x].token \/ InOverlap(x, holds[x])'
      <4>1. CASE holds'[x] = holds[x] /\ x \in DOMAIN holds
        BY <3>1, <3>4, <4>1, <1>2 DEF InMemory, StillGood, InOverlap
      <4>2. CASE x = d /\ holds'[x] = t
        BY <3>3, <3>4, <4>2
      <4> QED BY <1>3, <3>4, <4>1, <4>2
    <3> QED BY <1>2, <3>1, <3>2, <3>4 DEF InMemory
  <2>3. x \in DOMAIN rows => InStore(x)'
    BY <1>2, <2>1 DEF Devices, InStore
  <2>4. ShouldReap(validUntil[x])' <=> ShouldReap(validUntil[x])
    BY <1>2 DEF ShouldReap
  <2> QED BY <1>2, <2>1, <2>2, <2>3, <2>4 DEF Devices
<1> QED BY <1>2, <1>5, <1>8, <1>9 DEF RecoverInv, Devices

\* A restart: the rows hold all that the client needs.
LEMMA RestartRecovers ==
    ASSUME CredentialInv, RecoverInv, Restart
    PROVE  RecoverInv'
<1> DEFINE gone == {d \in DOMAIN rows : ShouldReap(rows[d].expires)}
<1> DEFINE back == DOMAIN rows \ gone
<1> DEFINE kept == {d \in back : rows[d].retired # NoToken /\ now < rows[d].until}
<1>1. /\ credentials' = [d \in back |-> [token |-> rows[d].token, known |-> FALSE,
                                         expires |-> rows[d].expires]]
      /\ retired' = [t \in {rows[d].retired : d \in kept} |->
                        [device |-> CHOOSE d \in kept : rows[d].retired = t,
                         until  |-> rows[CHOOSE d \in kept : rows[d].retired = t].until]]
      /\ UNCHANGED <<now, drawn, rotatedAt, paired, unsaved, validUntil, revoked, holds, held, replies>>
  BY DEF Restart, ghostVars, clientVars
<1>2. Part(rows', rows) /\ back \subseteq DOMAIN rows'
  <2>1. DeleteRows(gone)
    BY DEF Restart
  <2> HIDE DEF gone
  <2> QED BY <2>1, RowsShrink DEF back
<1>3. /\ \A d \in kept : d \in back /\ rows[d].retired # NoToken
      /\ \A d \in back : d \in DOMAIN rows /\ ~ShouldReap(rows[d].expires)
      /\ \A d \in DOMAIN rows : ~ShouldReap(rows[d].expires) => d \in back
      /\ \A d \in back : rows[d].retired # NoToken /\ now < rows[d].until => d \in kept
  OBVIOUS
<1> HIDE DEF gone, back, kept
<1>4. /\ DOMAIN credentials' = back
      /\ \A d \in back : /\ credentials'[d].token = rows[d].token
                         /\ credentials'[d].expires = rows[d].expires
  BY <1>1
<1>5. now \in Nat /\ drawn \in Nat /\ rotatedAt \in [1..MaxTokens -> Nat] /\ drawn <= MaxTokens
      /\ Overlap \in Nat /\ MaxTokens \in Nat
  BY PairingConstants DEF CredentialInv, KeyTypes
<1>6. \A t \in DOMAIN retired' : \E d \in kept :
         rows[d].retired = t /\ retired'[t] = [device |-> d, until |-> rows[d].until]
  <2> SUFFICES ASSUME NEW t \in DOMAIN retired'
               PROVE  \E d \in kept : /\ rows[d].retired = t
                                      /\ retired'[t] = [device |-> d, until |-> rows[d].until]
    OBVIOUS
  <2>1. PICK d : d = CHOOSE e \in kept : rows[e].retired = t
    OBVIOUS
  <2>2. d \in kept /\ rows[d].retired = t
    BY <2>1, <1>1
  <2>3. retired'[t] = [device |-> d, until |-> rows[d].until]
    BY <1>1, <2>1
  <2> QED BY <2>2, <2>3
<1>7. DOMAIN retired' = {rows[d].retired : d \in kept}
  BY <1>1
<1>8. ClientTypes'
  <2>1. \A t \in DOMAIN retired' : retired'[t].device \in paired'
    BY <1>1, <1>3, <1>6 DEF RecoverInv, ClientTypes
  <2>2. DOMAIN rows' \subseteq paired' /\ DOMAIN credentials' \subseteq paired'
    BY <1>1, <1>2, <1>3, <1>4 DEF RecoverInv, ClientTypes, Part
  <2> QED BY <1>1, <2>1, <2>2 DEF RecoverInv, ClientTypes
<1>10. \A x, y : Has(x, y)' => Has(x, y)
  <2> SUFFICES ASSUME NEW x, NEW y, Has(x, y)' PROVE Has(x, y)
    OBVIOUS
  <2>1. CASE x \in DOMAIN credentials' /\ credentials'[x].token = y
    BY <2>1, <1>3, <1>4 DEF Has
  <2>2. CASE x \in DOMAIN rows' /\ y \in {rows'[x].token, rows'[x].retired}
    BY <2>2, <1>2 DEF Has, Part
  <2>3. CASE y \in DOMAIN retired' /\ retired'[y].device = x
    BY <2>3, <1>3, <1>6 DEF Has
  <2>4. CASE x \in DOMAIN held' /\ y \in held'[x]
    BY <2>4, <1>1 DEF Has
  <2>5. CASE <<x, y>> \in replies'
    BY <2>5, <1>1 DEF Has
  <2> QED BY <2>1, <2>2, <2>3, <2>4, <2>5 DEF Has
<1>11. OneOwner'
  BY <1>1, <1>10, OwnersKept DEF RecoverInv
<1>12. ASSUME NEW d \in paired \ revoked PROVE Devices(d)'
  <2>1. Devices(d)
    BY <1>12 DEF RecoverInv, Devices
  <2>2. ASSUME d \in back PROVE InMemory(d)'
    <3>1. /\ d \in DOMAIN rows /\ d \in DOMAIN rows' /\ rows'[d] = rows[d]
          /\ rows[d].expires = validUntil[d] /\ d \notin unsaved
      BY <1>2, <1>3, <2>1, <2>2 DEF Devices, InStore, Part
    <3>2. d \in DOMAIN credentials
      <4>1. ~ShouldReap(validUntil[d])
        BY <1>3, <2>2, <3>1
      <4> QED BY <2>1, <3>1, <4>1 DEF Devices
    <3>3. InMemory(d) /\ credentials[d].token = rows[d].token
      BY <2>1, <3>1, <3>2 DEF Devices, CredentialInv, OwnToken
    <3>4. d \notin Racing => \A t \in 1..drawn' : <<d, t>> \in replies' => t = credentials'[d].token
      BY <1>1, <1>4, <2>2, <3>3 DEF InMemory
    <3>5. ASSUME d \notin Racing, d \in DOMAIN holds, StillGood(holds[d])
          PROVE  holds[d] = rows[d].token \/ InOverlap(d, holds[d])'
      <4> SUFFICES ASSUME holds[d] # rows[d].token PROVE InOverlap(d, holds[d])'
        OBVIOUS
      <4>1. InOverlap(d, holds[d])
        BY <3>3, <3>5 DEF InMemory
      <4>2. holds[d] \in 1..drawn /\ rotatedAt[holds[d]] # NoTime
        BY <3>5, <4>1 DEF RecoverInv, ClientTypes, InOverlap, CredentialInv, WindowNotStretched
      <4>3. now < rotatedAt[holds[d]] + Overlap
        BY <3>5, <4>2 DEF StillGood
      <4>4. rows[d].retired = holds[d] /\ rows[d].until = rotatedAt[holds[d]] + Overlap
        BY <4>1 DEF InOverlap
      <4>5. holds[d] # NoToken
        BY <4>2, <1>5 DEF NoToken
      <4>6. d \in kept
        BY <1>3, <2>2, <4>3, <4>4, <4>5
      <4>7. holds[d] \in DOMAIN retired'
        BY <1>7, <4>4, <4>6
      <4>8. PICK e \in kept : /\ rows[e].retired = holds[d]
                              /\ retired'[holds[d]] = [device |-> e, until |-> rows[e].until]
        BY <1>6, <4>7
      <4>9. Has(e, holds[d]) /\ Has(d, holds[d])
        BY <1>3, <4>6, <4>8, <4>4 DEF Has
      <4>10. e = d
        <5>1. e \in 1..drawn /\ d \in 1..drawn
          BY <4>9, HasKnown DEF RecoverInv
        <5> QED BY <4>2, <4>9, <5>1 DEF RecoverInv, OneOwner
      <4> QED BY <1>1, <3>1, <4>4, <4>7, <4>8, <4>10 DEF InOverlap
    <3>6. d \in DOMAIN holds => (StillGood(holds[d])' <=> StillGood(holds[d]))
      BY <1>1 DEF StillGood
    <3> QED BY <1>1, <1>4, <2>2, <3>1, <3>4, <3>5, <3>6 DEF InMemory
  <2>3. d \in DOMAIN rows' => InStore(d)'
    BY <1>1, <1>2, <2>1 DEF Devices, InStore, Part
  <2>4. ASSUME d \notin unsaved, ~ShouldReap(validUntil[d]) PROVE d \in back
    <3>1. d \in DOMAIN credentials /\ d \in DOMAIN rows /\ rows[d].expires = validUntil[d]
      BY <2>1, <2>4 DEF Devices, InMemory, InStore
    <3> QED BY <2>4, <3>1, <1>3
  <2>5. ShouldReap(validUntil[d])' <=> ShouldReap(validUntil[d])
    BY <1>1 DEF ShouldReap
  <2> QED BY <1>1, <1>4, <2>2, <2>3, <2>4, <2>5 DEF Devices
<1> QED BY <1>1, <1>8, <1>11, <1>12 DEF RecoverInv, Devices
\* Every operation of the service leaves the clients that refresh one at a time
\* a way back.
LEMMA RecoverStep == CredentialInv /\ RecoverInv /\ [Next]_vars => RecoverInv'
<1> SUFFICES ASSUME CredentialInv, RecoverInv, [Next]_vars PROVE RecoverInv'
  OBVIOUS
<1>0. now \in Nat
  BY DEF CredentialInv, KeyTypes
<1>1. ASSUME UNCHANGED <<credentials, retired, rows, drawn, rotatedAt, validUntil, paired,
                         unsaved, revoked, holds, held, replies>>,
             now' \in Nat, now' >= now
      PROVE  RecoverInv'
  BY <1>1, ClockRecovers
<1>2. ASSUME PruneCredentials, UNCHANGED <<now, ghostVars, revoked, clientVars>>
      PROVE  RecoverInv'
  <2>1. /\ credentials' = CredentialsWithout(Reaped) /\ DeleteRows(Reaped)
        /\ retired' = InWindow(RetiredWithout(Reaped))
        /\ UNCHANGED <<now, drawn, rotatedAt, validUntil, paired, unsaved, holds, held, replies, revoked>>
    BY <1>2 DEF PruneCredentials, ghostVars, clientVars
  <2>2. \A d \in (Reaped \cap DOMAIN credentials) \ revoked' : ShouldReap(validUntil[d])
    BY <2>1 DEF Reaped, RecoverInv, InMemory, ClientTypes
  <2> QED BY <2>1, <2>2, DeleteRecovers
<1>3. ASSUME NEW d \in DOMAIN credentials, Delete({d}), revoked \subseteq revoked',
             d \notin revoked' => ShouldReap(credentials[d].expires),
             UNCHANGED <<now, drawn, rotatedAt, validUntil, paired, unsaved, holds, held, replies>>
      PROVE  RecoverInv'
  <2>1. /\ credentials' = CredentialsWithout({d}) /\ DeleteRows({d})
        /\ retired' = RetiredWithout({d})
    BY <1>3 DEF Delete
  <2>2. \A x \in ({d} \cap DOMAIN credentials) \ revoked' : ShouldReap(validUntil[x])
    BY <1>3 DEF RecoverInv, InMemory, ClientTypes
  <2> QED BY <1>3, <2>1, <2>2, DeleteRecovers
<1>4. CASE Approve
  BY <1>4, <1>1, <1>0 DEF Approve, serviceVars, ghostVars, clientVars
<1>5. CASE StartPairing
  BY <1>5, <1>2 DEF StartPairing
<1>6. CASE ReadChallenges
  BY <1>6, <1>2 DEF ReadChallenges
<1>7. CASE ListDevices
  BY <1>7, <1>2 DEF ListDevices
<1>8. ASSUME NEW id, CancelChallenge(id) PROVE RecoverInv'
  BY <1>8, <1>2 DEF CancelChallenge
<1>9. ASSUME NEW id, CompleteFails(id) PROVE RecoverInv'
  BY <1>9, <1>2 DEF CompleteFails
<1>10. ASSUME NEW id, NEW saved \in BOOLEAN, CompletePairing(id, saved) PROVE RecoverInv'
  BY <1>10, CompleteRecovers
<1>11. ASSUME NEW t, ValidateCredential(t) PROVE RecoverInv'
  <2>1. UNCHANGED <<now, ghostVars, revoked, clientVars>>
    BY <1>11 DEF ValidateCredential
  <2>2. CASE t \in DOMAIN byTokenHash
    <3>1. PICK d : d = byTokenHash[t]
      OBVIOUS
    <3>2. /\ d \in DOMAIN credentials /\ Delete({d})
          /\ GracePeriod = 0 /\ now > credentials[d].expires
      BY <1>11, <2>2, <3>1 DEF ValidateCredential, CredentialInv, IndexExact
    <3>3. credentials[d].expires \in Nat
      BY <3>2 DEF CredentialInv, KeyTypes, CredentialType
    <3>4. ShouldReap(credentials[d].expires)
      BY <3>2, <3>3 DEF ShouldReap
    <3> QED BY <3>2, <3>4, <2>1, <1>3 DEF ghostVars, clientVars
  <2>3. CASE t \notin DOMAIN byTokenHash
    BY <1>11, <2>1, <2>3, <1>2 DEF ValidateCredential
  <2> QED BY <2>2, <2>3
<1>12. ASSUME NEW d \in DOMAIN holds, NEW t, RefreshCredential(d, t) PROVE RecoverInv'
  <2>1. /\ t \in held[d] /\ Exchangeable(t)
        /\ d \notin Racing => t = holds[d] /\ \A q \in replies : q[1] # d
        /\ UNCHANGED <<now, revoked, holds, held>>
    BY <1>12 DEF RefreshCredential, RecoverInv, ClientTypes
  <2>2. CASE RefreshAgain(t)
    BY <2>1, <2>2, AgainRecovers
  <2>3. CASE RefreshTooLate(t)
    <3>1. DeviceOf(t) = d /\ d \in DOMAIN credentials
      BY <2>1, OwnDevice
    <3>2. Delete({d}) /\ ShouldReap(credentials[d].expires) /\ UNCHANGED <<ghostVars, replies>>
      BY <2>3, <3>1 DEF RefreshTooLate
    <3> QED BY <2>1, <3>1, <3>2, <1>3 DEF ghostVars
  <2>4. CASE RefreshNotSaved(t)
    BY <2>1, <2>4, <1>0, <1>1 DEF RefreshNotSaved, serviceVars, ghostVars
  <2>5. CASE Rotate(t)
    BY <2>1, <2>5, RotateRecovers
  <2> QED BY <1>12, <2>2, <2>3, <2>4, <2>5 DEF RefreshCredential
<1>13. ASSUME NEW d, RevokeDevice(d) PROVE RecoverInv'
  BY <1>13, <1>3 DEF RevokeDevice, ghostVars, clientVars
<1>14. CASE Restart
  BY <1>14, RestartRecovers
<1>15. ASSUME NEW r \in replies, ReceiveReply(r) \/ LoseReply(r) PROVE RecoverInv'
  BY <1>15, ReplyRecovers
<1>16. CASE Tick
  BY <1>16, <1>1, <1>0 DEF Tick, serviceVars, ghostVars, clientVars
<1>17. CASE UNCHANGED vars
  BY <1>17, <1>1, <1>0 DEF vars, serviceVars, ghostVars, clientVars
<1> QED BY <1>4, <1>5, <1>6, <1>7, <1>8, <1>9, <1>10, <1>11, <1>12, <1>13, <1>14, <1>15, <1>16,
           <1>17 DEF Next

LEMMA RecoverStart == Init => RecoverInv
<1> SUFFICES ASSUME Init PROVE RecoverInv
  OBVIOUS
<1>1. /\ drawn = 0 /\ paired = {} /\ unsaved = {} /\ replies = {}
      /\ DOMAIN credentials = {} /\ DOMAIN rows = {} /\ DOMAIN retired = {} /\ DOMAIN holds = {}
      /\ DOMAIN held = {}
      /\ validUntil = [d \in 1..MaxTokens |-> 0]
  BY DEF Init, Empty, NoTime
<1> QED BY <1>1 DEF RecoverInv, ClientTypes, OneOwner

\* A client that refreshes one at a time and is neither revoked nor past its
\* grace period gets in with the last token it received, whichever answers were
\* lost and whenever the daemon restarted, until the overlap after that token's
\* rotation is over (RefreshCredential, retiredDeviceLocked).
THEOREM NobodyLockedOut == Spec => []ClientCanRecover
<1>1. CredentialInv /\ RecoverInv => ClientCanRecover
  <2> SUFFICES ASSUME CredentialInv, RecoverInv, NEW d \in DOMAIN holds \ Racing,
                      Standing(d), StillGood(holds[d])
               PROVE  /\ Exchangeable(holds[d]) /\ DeviceOf(holds[d]) = d
                      /\ d \in DOMAIN rows
                      /\ \/ holds[d] = rows[d].token
                         \/ holds[d] = rows[d].retired /\ now < rows[d].until
    BY DEF ClientCanRecover
  <2>1. d \in paired \ revoked /\ d \in DOMAIN credentials /\ InMemory(d) /\ d \in DOMAIN rows
    BY DEF Standing, RecoverInv, ClientTypes, InMemory
  <2>2. CASE holds[d] = credentials[d].token
    BY <2>1, <2>2 DEF Exchangeable, DeviceOf, CredentialInv, IndexExact, OwnToken
  <2>3. CASE InOverlap(d, holds[d])
    <3>1. /\ holds[d] \in DOMAIN retired /\ retired[holds[d]].device = d
          /\ now <= retired[holds[d]].until /\ holds[d] \notin DOMAIN byTokenHash
      BY <2>3, OverlapCounts DEF RecoverInv, CredentialInv, WindowNotStretched
    <3>2. now < rows[d].until /\ holds[d] = rows[d].retired
      BY <2>3 DEF StillGood, InOverlap, CredentialInv, WindowNotStretched
    <3> QED BY <2>1, <3>1, <3>2 DEF Exchangeable, DeviceOf, RetiredInWindow
  <2> QED BY <2>1, <2>2, <2>3 DEF InMemory
<1>2. Init => CredentialInv /\ RecoverInv
  BY CredentialStart, RecoverStart
<1>3. CredentialInv /\ RecoverInv /\ [Next]_vars => (CredentialInv /\ RecoverInv)'
  BY CredentialStep, RecoverStep
<1> QED BY <1>1, <1>2, <1>3, PTL DEF Spec

\* Whatever answers are lost, whoever races and whenever the daemon restarts, a
\* rotation loses no device, lets none in elsewhere and stretches no overlap.
THEOREM RotationHolds == Spec => []RotationIsSafe
BY NobodyLockedOut, OverlapIsBounded, TokensOpenTheirDevice, PTL DEF RotationIsSafe
=============================================================================
