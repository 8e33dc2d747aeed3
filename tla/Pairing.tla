------------------------------ MODULE Pairing ------------------------------
(***************************************************************************)
(* internal/pairing/service.go: pairing challenges, the device credentials *)
(* they are exchanged for, the rotation of a credential on every refresh,  *)
(* and the rows of paired_devices that survive a restart of the daemon.    *)
(*                                                                         *)
(* Every operation runs under s.mu, its store call included, so each is    *)
(* one step.  Ids and tokens are fresh random values: the next number.     *)
(* The hash of a token stands for the token, which the gateway knows only  *)
(* if it drew it since it started (known).  Scopes, proof keys, names and  *)
(* the informational ExpiredAt are left out.                               *)
(***************************************************************************)
EXTENDS Naturals, FiniteSets, Functions

CONSTANTS
    ArmTTL, ChallengeTTL, HistoryTTL,  \* s.armTTL, defaultChallengeTTL, challengeHistoryTTL
    TokenTTL, GracePeriod, Overlap,    \* s.tokenTTL, s.gracePeriod, defaultRotationOverlap
    StoreMayFail,                      \* whether SavePairing and DeletePairing can fail
    Racing,                            \* devices whose client has several refreshes under way
    MaxChallenges, MaxTokens, MaxNow   \* bounds

ASSUME PairingConstants ==
    /\ {ArmTTL, ChallengeTTL, HistoryTTL, TokenTTL, GracePeriod, Overlap} \subseteq Nat
    /\ StoreMayFail \in BOOLEAN
    /\ {MaxChallenges, MaxTokens, MaxNow} \subseteq Nat

VARIABLES
    now,         \* s.now()
    armedUntil,  \* s.armedUntil, NoTime when disarmed
    activeID,    \* s.activeID or NoID
    challenges,  \* s.challenges: id -> expires, state, changed
    credentials, \* s.credentials: device -> token, known, expires
    byTokenHash, \* s.byTokenHash: token -> device
    retired,     \* s.retired: token -> device, until
    rows,        \* paired_devices: device -> token, expires, retired, until
    drawn,       \* tokens drawn so far
    approvals,   \* local approvals since the start
    paired,      \* devices ever paired; a device has its pairing token's number
    issued,      \* challenge ids used so far
    revoked,     \* devices RevokeDevice returned for
    unsaved,     \* devices whose credential the store never took
    undeleted,   \* devices of which the store refused to delete the row
    rotatedAt,   \* when each token was rotated away, NoTime before
    validUntil,  \* the last expiry given to each device
    holds,       \* clients: device -> its token
    held,        \* clients: device -> every token it has had
    replies      \* refresh responses under way: pairs of device and token

challengeVars == <<armedUntil, activeID, challenges, approvals, issued>>
serviceVars   == <<credentials, byTokenHash, retired, rows, undeleted>>
ghostVars     == <<drawn, paired, unsaved, rotatedAt, validUntil>>
clientVars    == <<holds, held, replies>>
vars == <<now, challengeVars, serviceVars, ghostVars, revoked, clientVars>>

NoTime == 0
NoID   == 0
NoToken == 0
Empty  == [x \in {} |-> x]

\* A map with k set to v.
With(f, k, v) == [x \in DOMAIN f \cup {k} |-> IF x = k THEN v ELSE f[x]]

Init ==
    /\ now = 1 /\ armedUntil = NoTime /\ activeID = NoID /\ approvals = 0 /\ issued = 0
    /\ challenges = Empty /\ credentials = Empty /\ byTokenHash = Empty
    /\ retired = Empty /\ rows = Empty
    /\ drawn = 0 /\ paired = {} /\ revoked = {} /\ unsaved = {} /\ undeleted = {}
    /\ rotatedAt = [t \in 1..MaxTokens |-> NoTime]
    /\ validUntil = [d \in 1..MaxTokens |-> NoTime]
    /\ holds = Empty /\ held = Empty /\ replies = {}

-----------------------------------------------------------------------------
(* Deleting credentials.                                                   *)

\* shouldReapCredential and shouldReapPersistedCredential.
ShouldReap(expires) == now > expires + GracePeriod

Reaped == {d \in DOMAIN credentials : ShouldReap(credentials[d].expires)}

\* deleteCredentialLocked: what is left of the three maps, and of the rows,
\* whose delete may fail.
CredentialsWithout(D) == Restrict(credentials, DOMAIN credentials \ D)

\* An index that keeps the tokens of deleted credentials.
IndexKept(D) == byTokenHash

IndexWithout(D) ==
    RestrictDomain(byTokenHash,
        LAMBDA t : ~ \E d \in D : credentials[d].token = t /\ byTokenHash[t] = d)

RetiredWithout(D) == RestrictValues(retired, LAMBDA r : r.device \notin D)

\* pruneRetiredLocked.
InWindow(entries) == RestrictValues(entries, LAMBDA r : now <= r.until)

\* The rows of D that the store may refuse to delete, which is only logged.
Stuck(D) == IF StoreMayFail THEN SUBSET (D \cap DOMAIN rows) ELSE {{}}

\* A delete that forgets the store.
RowsKept(D, stuck) == rows

RowsWithout(D, stuck) == Restrict(rows, (DOMAIN rows \ D) \cup stuck)

DeleteRows(D) ==
    \E stuck \in Stuck(D) :
        rows' = RowsWithout(D, stuck) /\ undeleted' = undeleted \cup stuck

\* deleteCredentialLocked of each of D.
Delete(D) ==
    /\ credentials' = CredentialsWithout(D)
    /\ byTokenHash' = IndexWithout(D)
    /\ retired' = RetiredWithout(D)
    /\ DeleteRows(D)

\* pruneExpiredCredentialsLocked.
PruneCredentials ==
    /\ credentials' = CredentialsWithout(Reaped)
    /\ byTokenHash' = IndexWithout(Reaped)
    /\ retired' = InWindow(RetiredWithout(Reaped))
    /\ DeleteRows(Reaped)

-----------------------------------------------------------------------------
(* Challenges.                                                             *)

Expired(c) == c.state = "active" /\ now > c.expires

\* A challenge marked as over at an instant.
Over(c, state, at) == [expires |-> c.expires, state |-> state, changed |-> at]

\* pruneExpiredLocked: an expired challenge changed when it expired; one that
\* changed long ago goes.
PrunedChallenges ==
    LET old(id) == challenges[id].state # "active" /\ now > challenges[id].changed + HistoryTTL
    IN  [id \in {i \in DOMAIN challenges : ~old(i)} |->
            IF Expired(challenges[id])
            THEN Over(challenges[id], "expired", challenges[id].expires)
            ELSE challenges[id]]

\* A lookup that never finds the active challenge.
NoActive(cs) == NoID

\* The active challenge among cs: activeChallengeLocked.
ActiveIn(cs) == IF activeID \in DOMAIN cs /\ cs[activeID].state = "active" THEN activeID ELSE NoID

-----------------------------------------------------------------------------
(* Pairing.                                                                *)

ArmedFromNow == now + ArmTTL

\* StartPairingWithLocalApproval: its first critical section.
Approve ==
    /\ approvals < MaxChallenges
    /\ armedUntil' = ArmedFromNow
    /\ approvals' = approvals + 1
    /\ UNCHANGED <<now, activeID, challenges, issued, serviceVars, ghostVars, revoked, clientVars>>

\* StartPairing, also the second half of a local approval: the active challenge
\* is returned, or a new one is made while armed; a lapsed approval is cleared.
StartPairing ==
    LET cs     == PrunedChallenges
        active == ActiveIn(cs)
        armed  == armedUntil # NoTime /\ now <= armedUntil
        id     == issued + 1
    IN
    /\ PruneCredentials
    /\ IF active = NoID /\ armed
       THEN /\ issued < MaxChallenges
            /\ issued' = id /\ activeID' = id
            /\ challenges' = With(cs, id, [expires |-> now + ChallengeTTL, state |-> "active",
                                           changed |-> now])
            /\ UNCHANGED armedUntil
       ELSE /\ challenges' = cs /\ activeID' = active /\ UNCHANGED issued
            /\ armedUntil' = IF active = NoID THEN NoTime ELSE armedUntil
    /\ UNCHANGED <<now, approvals, ghostVars, revoked, clientVars>>

\* ActiveChallenge and GetChallengeStatus.
ReadChallenges ==
    /\ PruneCredentials
    /\ challenges' = PrunedChallenges /\ activeID' = ActiveIn(PrunedChallenges)
    /\ UNCHANGED <<now, armedUntil, approvals, issued, ghostVars, revoked, clientVars>>

\* ListDevices and ActiveDeviceCount.
ListDevices ==
    /\ PruneCredentials
    /\ UNCHANGED <<now, challengeVars, ghostVars, revoked, clientVars>>

\* CancelChallenge, of an id or of the active one.
CancelChallenge(id) ==
    LET cs == PrunedChallenges IN
    /\ PruneCredentials
    /\ challenges' = IF cs[id].state = "active"
                     THEN [cs EXCEPT ![id] = Over(cs[id], "cancelled", now)]
                     ELSE cs
    /\ activeID' = IF ActiveIn(cs) = id THEN NoID ELSE ActiveIn(cs)
    /\ UNCHANGED <<now, armedUntil, approvals, issued, ghostVars, revoked, clientVars>>

\* CompletePairing that ends in an error: the code is wrong, or the challenge is
\* unknown, over, or expired, which it is marked now.
CompleteFails(id) ==
    /\ PruneCredentials
    /\ IF Expired(challenges[id])
       THEN /\ challenges' = [challenges EXCEPT ![id] =
                                Over(challenges[id], "expired", challenges[id].expires)]
            /\ activeID' = IF activeID = id THEN NoID ELSE activeID
       ELSE UNCHANGED <<challenges, activeID>>
    /\ UNCHANGED <<now, armedUntil, approvals, issued, ghostVars, revoked, clientVars>>

\* A completed challenge is over.
Used(id) == [challenges EXCEPT ![id] = Over(challenges[id], "completed", now)]

\* A completion that leaves the approval in force.
StillArmed == armedUntil

\* A completion uses the approval up.
Disarmed == NoTime

\* CompletePairing: a credential for a new device.  A failed save is only
\* logged.
CompletePairing(id, saved) ==
    LET t == drawn + 1
        d == t
        c == [token |-> t, known |-> TRUE, expires |-> now + TokenTTL]
        r == [token |-> t, expires |-> now + TokenTTL, retired |-> NoToken, until |-> NoTime]
    IN
    /\ challenges[id].state = "active" /\ now <= challenges[id].expires
    /\ t <= MaxTokens /\ (saved \/ StoreMayFail)
    /\ drawn' = t /\ paired' = paired \cup {d}
    /\ credentials' = With(CredentialsWithout(Reaped), d, c)
    /\ byTokenHash' = With(IndexWithout(Reaped), t, d)
    /\ retired' = InWindow(RetiredWithout(Reaped))
    /\ \E stuck \in Stuck(Reaped) :
           /\ rows' = IF saved THEN With(RowsWithout(Reaped, stuck), d, r)
                                ELSE RowsWithout(Reaped, stuck)
           /\ undeleted' = undeleted \cup stuck
    /\ unsaved' = IF saved THEN unsaved ELSE unsaved \cup {d}
    /\ validUntil' = [validUntil EXCEPT ![d] = now + TokenTTL]
    /\ challenges' = Used(id)
    /\ activeID' = IF activeID = id THEN NoID ELSE activeID
    /\ armedUntil' = Disarmed
    /\ replies' = replies \cup {<<d, t>>}
    /\ UNCHANGED <<now, approvals, issued, rotatedAt, revoked, holds, held>>

-----------------------------------------------------------------------------
(* Credentials.                                                            *)

\* ValidateCredential: an expired credential goes at once when there is no
\* grace, an unknown token prunes, the rest changes nothing.
ValidateCredential(t) ==
    /\ IF t \in DOMAIN byTokenHash
       THEN LET d == byTokenHash[t] IN
            /\ GracePeriod = 0 /\ now > credentials[d].expires
            /\ Delete({d})
       ELSE PruneCredentials
    /\ UNCHANGED <<now, challengeVars, ghostVars, revoked, clientVars>>

\* retiredDeviceLocked.
RetiredInWindow(t) ==
    /\ t \in DOMAIN retired /\ now <= retired[t].until
    /\ retired[t].device \in DOMAIN credentials

\* LookupCredentialByToken finds it: live, or rotated away within the overlap.
Exchangeable(t) == t \in DOMAIN byTokenHash \/ RetiredInWindow(t)

DeviceOf(t) == IF t \in DOMAIN byTokenHash THEN byTokenHash[t] ELSE retired[t].device

\* A rotation that stores the live token it replaces, whoever asked.
RetireLive(t, d) == [token |-> credentials[d].token, until |-> now + Overlap]

\* A rotation that starts the window of the presented token again.
RetireAnew(t, d) == [token |-> t, until |-> now + Overlap]

\* What the row keeps of a rotation: the live token or, when the client came
\* with a retired one, that one under its first deadline.
RetireInStore(t, d) ==
    IF t \in DOMAIN byTokenHash
    THEN [token |-> credentials[d].token, until |-> now + Overlap]
    ELSE [token |-> t, until |-> retired[t].until]

\* RefreshCredential hands back the live credential whose answer was lost.
RefreshAgain(t) ==
    LET c == credentials[DeviceOf(t)] IN
    /\ t \notin DOMAIN byTokenHash /\ c.known /\ now < c.expires
    /\ replies' = replies \cup {<<DeviceOf(t), c.token>>}
    /\ UNCHANGED <<serviceVars, ghostVars>>

\* It is beyond the grace period: the device goes.
RefreshTooLate(t) ==
    /\ ShouldReap(credentials[DeviceOf(t)].expires)
    /\ Delete({DeviceOf(t)})
    /\ UNCHANGED <<ghostVars, replies>>

\* The store refuses: the old credential stays.
RefreshNotSaved(t) ==
    /\ StoreMayFail
    /\ UNCHANGED <<serviceVars, ghostVars, replies>>

\* The rotation: stored first, then visible.
Rotate(t) ==
    LET d    == DeviceOf(t)
        old  == credentials[d].token
        new  == drawn + 1
        kept == RetireInStore(t, d)
    IN
    /\ ~ShouldReap(credentials[d].expires)
    /\ new <= MaxTokens
    /\ drawn' = new
    /\ rows' = With(rows, d, [token |-> new, expires |-> now + TokenTTL,
                              retired |-> kept.token, until |-> kept.until])
    /\ credentials' = [credentials EXCEPT ![d] =
                          [token |-> new, known |-> TRUE, expires |-> now + TokenTTL]]
    /\ retired' = InWindow(With(retired, old, [device |-> d, until |-> now + Overlap]))
    /\ byTokenHash' = With(Restrict(byTokenHash, DOMAIN byTokenHash \ {old}), new, d)
    /\ unsaved' = unsaved \ {d}
    /\ rotatedAt' = [rotatedAt EXCEPT ![old] = now]
    /\ validUntil' = [validUntil EXCEPT ![d] = now + TokenTTL]
    /\ replies' = replies \cup {<<d, new>>}
    /\ UNCHANGED <<paired, undeleted>>

\* handleAuthRefresh for a token of client d.  A client that is not racing has
\* one refresh under way.
RefreshCredential(d, t) ==
    /\ t \in IF d \in Racing THEN held[d] ELSE {holds[d]}
    /\ d \in Racing \/ \A r \in replies : r[1] # d
    /\ Exchangeable(t)
    /\ IF /\ t \notin DOMAIN byTokenHash
          /\ credentials[DeviceOf(t)].known /\ now < credentials[DeviceOf(t)].expires
       THEN RefreshAgain(t)
       ELSE RefreshTooLate(t) \/ RefreshNotSaved(t) \/ Rotate(t)
    /\ UNCHANGED <<now, challengeVars, revoked, holds, held>>

RevokeDevice(d) ==
    /\ d \in DOMAIN credentials
    /\ Delete({d})
    /\ revoked' = revoked \cup {d}
    /\ UNCHANGED <<now, challengeVars, ghostVars, clientVars>>

\* The daemon stops and starts: loadPersistedCredentials.
Restart ==
    LET gone == {d \in DOMAIN rows : ShouldReap(rows[d].expires)}
        back == DOMAIN rows \ gone
    IN
    /\ armedUntil' = NoTime /\ activeID' = NoID /\ challenges' = Empty
    /\ credentials' = [d \in back |-> [token |-> rows[d].token, known |-> FALSE,
                                       expires |-> rows[d].expires]]
    /\ byTokenHash' = [t \in {rows[d].token : d \in back} |->
                          CHOOSE d \in back : rows[d].token = t]
    /\ LET kept == {d \in back : rows[d].retired # NoToken /\ now < rows[d].until} IN
       retired' = [t \in {rows[d].retired : d \in kept} |->
                      LET d == CHOOSE d \in kept : rows[d].retired = t
                      IN  [device |-> d, until |-> rows[d].until]]
    /\ DeleteRows(gone)
    /\ UNCHANGED <<now, approvals, issued, ghostVars, revoked, clientVars>>

-----------------------------------------------------------------------------
(* The client and the clock.  [External.]                                  *)

ReceiveReply(r) ==
    /\ r \in replies
    /\ replies' = replies \ {r}
    /\ holds' = With(holds, r[1], r[2])
    /\ held' = With(held, r[1], {r[2]} \cup IF r[1] \in DOMAIN held THEN held[r[1]] ELSE {})
    /\ UNCHANGED <<now, challengeVars, serviceVars, ghostVars, revoked>>

LoseReply(r) ==
    /\ r \in replies
    /\ replies' = replies \ {r}
    /\ UNCHANGED <<now, challengeVars, serviceVars, ghostVars, revoked, holds, held>>

Tick ==
    /\ now < MaxNow
    /\ now' = now + 1
    /\ UNCHANGED <<challengeVars, serviceVars, ghostVars, revoked, clientVars>>

Next ==
    \/ Approve \/ StartPairing \/ ReadChallenges \/ ListDevices
    \/ \E id \in DOMAIN PrunedChallenges : CancelChallenge(id)
    \/ \E id \in DOMAIN challenges :
           CompleteFails(id) \/ \E saved \in BOOLEAN : CompletePairing(id, saved)
    \/ \E t \in 1..drawn : ValidateCredential(t)
    \/ \E d \in DOMAIN holds, t \in 1..drawn : RefreshCredential(d, t)
    \/ \E d \in paired : RevokeDevice(d)
    \/ Restart
    \/ \E r \in replies : ReceiveReply(r) \/ LoseReply(r)
    \/ Tick

Spec == Init /\ [][Next]_vars

-----------------------------------------------------------------------------
(* Properties.                                                             *)

\* The state has its type, and an approval is in force for ArmTTL at most.
TypeOK ==
    /\ now \in 1..MaxNow /\ armedUntil \in 0..(now + ArmTTL)
    /\ activeID \in 0..issued /\ DOMAIN challenges \subseteq 1..issued
    /\ \A id \in DOMAIN challenges :
           challenges[id].state \in {"active", "completed", "cancelled", "expired"}
    /\ DOMAIN credentials \subseteq paired /\ DOMAIN rows \subseteq paired
    /\ DOMAIN byTokenHash \subseteq 1..drawn /\ DOMAIN retired \subseteq 1..drawn
    /\ paired \subseteq 1..drawn /\ drawn \in 0..MaxTokens
    /\ DOMAIN holds \subseteq paired /\ replies \subseteq paired \X (1..drawn)

\* Two challenges are never open at once, and the open one is the one StartPairing
\* hands out (activeID).
OneOpenChallenge ==
    \A id \in DOMAIN challenges : challenges[id].state = "active" => id = activeID

\* A local approval lets in one device at most, whatever is started, cancelled
\* or completed under it (CompletePairing disarms).
ApprovalPerDevice == Cardinality(paired) <= approvals

\* The token index is the inverse of the credentials: a token opens its own
\* device's credential or none ("refreshing one device never affects another
\* device's credential", docs/pairing.md).
IndexExact ==
    /\ \A d \in DOMAIN credentials :
           credentials[d].token \in DOMAIN byTokenHash /\ byTokenHash[credentials[d].token] = d
    /\ \A t \in DOMAIN byTokenHash :
           byTokenHash[t] \in DOMAIN credentials /\ credentials[byTokenHash[t]].token = t

\* A rotated token stays exchangeable for the overlap after its rotation and no
\* longer, in memory and in the row, "so repeated retries cannot stretch the
\* window" (RefreshCredential); and it is never a live one.
WindowNotStretched ==
    /\ \A t \in DOMAIN retired :
           /\ rotatedAt[t] # NoTime /\ retired[t].until <= rotatedAt[t] + Overlap
           /\ t \notin DOMAIN byTokenHash
    /\ \A d \in DOMAIN rows : rows[d].retired # NoToken =>
           /\ rotatedAt[rows[d].retired] # NoTime
           /\ rows[d].until <= rotatedAt[rows[d].retired] + Overlap

\* The devices a client can still expect to be known.
Standing(d) ==
    d \notin revoked /\ d \notin unsaved /\ ~ShouldReap(validUntil[d])

\* A token not rotated away, or rotated away less than the overlap ago.
StillGood(t) == rotatedAt[t] = NoTime \/ now < rotatedAt[t] + Overlap

\* The token that a client with one refresh at a time last received can be
\* exchanged for a credential until the overlap after its rotation is over, now
\* and after a restart at any moment, whatever the others do: a lost response
\* never leaves the client with a token the gateway only answers with
\* "credential invalid" (defaultRotationOverlap).
ClientCanRecover ==
    \A d \in DOMAIN holds \ Racing :
        LET t == holds[d] IN
        Standing(d) /\ StillGood(t) =>
            /\ Exchangeable(t) /\ DeviceOf(t) = d
            /\ d \in DOMAIN rows
            /\ t = rows[d].token \/ (t = rows[d].retired /\ now < rows[d].until)

\* A rotation loses nobody and lets nobody else in: the client can recover, its
\* old token is not good for longer than the overlap, and every token opens the
\* device it was given to (RefreshCredential).
RotationIsSafe == ClientCanRecover /\ WindowNotStretched /\ IndexExact

\* "Revoking a device invalidates its credential" (docs/pairing.md): no token,
\* live or rotated away, opens a revoked device again, nor does its row bring it
\* back at a restart, unless the store refused to delete that row.
RevokedStaysOut ==
    \A d \in revoked \ undeleted :
        /\ d \notin DOMAIN rows
        /\ \A t \in 1..drawn : Exchangeable(t) => DeviceOf(t) # d

\* "restores still-valid gateway credentials so paired devices are not forced to
\* re-pair after every daemon restart" (loadPersistedCredentials).
RestartKeepsDevices ==
    \A d \in DOMAIN holds :
        d \notin revoked /\ ~ShouldReap(validUntil[d]) => d \in DOMAIN credentials
=============================================================================
