---------------------------- MODULE AttachTokens ----------------------------
(***************************************************************************)
(* internal/session/token.go: the single-use tokens a client attaches to a *)
(* session with.  Mint and Validate run under one mutex, so each is one    *)
(* step.  The token of a Mint is a fresh random value: a token never drawn *)
(* before.  A claim's session and device, which AttachClient compares, are *)
(* left out, and so is ClearAll, which has no caller in the gateway.      *)
(***************************************************************************)
EXTENDS Naturals, FiniteSets

CONSTANTS
    Tokens,       \* the values the random source draws
    MaxTokens,    \* maxAttachTokens
    TTL,          \* the five minutes of every caller of Mint
    SweepEvery,   \* attachTokenSweepEvery
    MaxNow        \* bound: the last instant of the clock

ASSUME TokenConstants ==
    /\ MaxTokens \in Nat \ {0} /\ TTL \in Nat /\ SweepEvery \in Nat \ {0} /\ MaxNow \in Nat

VARIABLES
    now,        \* s.now()
    live,       \* the keys of s.attachTokens
    expires,    \* ExpiresAt of each claim, kept after the claim is gone
    lastSweep,  \* s.lastSweep
    drawn,      \* every token minted so far
    spent,      \* tokens a Validate accepted
    spentAt,    \* when it did
    evicted     \* tokens pushed out by the cap

vars == <<now, live, expires, lastSweep, drawn, spent, spentAt, evicted>>

\* The zero time of lastSweep is more than a sweep interval ago.
Init ==
    /\ now = SweepEvery /\ lastSweep = 0
    /\ live = {} /\ drawn = {} /\ spent = {} /\ evicted = {}
    /\ expires = [t \in Tokens |-> 0]
    /\ spentAt = [t \in Tokens |-> 0]

\* A sweep that drops the tokens that expire next, too.
SweptEarly(at) == {t \in live : at < expires[t]}

\* sweepLocked: what a sweep at an instant leaves.
Swept(at) == {t \in live : at <= expires[t]}

\* maybeSweepLocked.
SweepDue == now - lastSweep >= SweepEvery
AfterSweep == IF SweepDue THEN Swept(now) ELSE live

SweptAt == IF SweepDue THEN now ELSE lastSweep

\* evictOldestLocked: the candidates, of which map order picks one.
SoonestOf(S) == {t \in S : \A u \in S : expires[t] <= expires[u]}

\* A cap that refuses only above the limit.
FullAbove(S) == Cardinality(S) > MaxTokens

Full(S) == Cardinality(S) >= MaxTokens

\* Mint: the amortized sweep, at the cap a sweep that is not amortized and an
\* eviction, then the claim.
Mint(t) ==
    LET swept == IF Full(AfterSweep) THEN Swept(now) ELSE AfterSweep
    IN
    /\ t \notin drawn
    /\ \E out \in IF Full(swept) THEN {{x} : x \in SoonestOf(swept)} ELSE {{}} :
           /\ live' = (swept \ out) \cup {t}
           /\ evicted' = evicted \cup out
    /\ drawn' = drawn \cup {t}
    /\ expires' = [expires EXCEPT ![t] = now + TTL]
    /\ lastSweep' = SweptAt
    /\ UNCHANGED <<now, spent, spentAt>>

\* A Validate that keeps the token it accepts.
KeptAfterUse(t) == AfterSweep

\* The claim is gone after its use, accepted or expired.
LeftAfterUse(t) == AfterSweep \ {t}

\* Validate's expiry check.
InTime(t) == now <= expires[t]

\* Validate of a token some Mint drew.
Validate(t) ==
    /\ t \in drawn
    /\ live' = LeftAfterUse(t)
    /\ lastSweep' = SweptAt
    /\ IF t \in AfterSweep /\ InTime(t)
       THEN /\ spent' = spent \cup {t}
            /\ spentAt' = [spentAt EXCEPT ![t] = now]
       ELSE UNCHANGED <<spent, spentAt>>
    /\ UNCHANGED <<now, expires, drawn, evicted>>

Tick ==
    /\ now < MaxNow
    /\ now' = now + 1
    /\ UNCHANGED <<live, expires, lastSweep, drawn, spent, spentAt, evicted>>

Next ==
    \/ \E t \in Tokens : Mint(t) \/ Validate(t)
    \/ Tick

Spec == Init /\ [][Next]_vars

-----------------------------------------------------------------------------
(* Properties.                                                             *)

TypeOK ==
    /\ now \in Nat /\ lastSweep \in Nat /\ lastSweep <= now
    /\ live \subseteq Tokens /\ drawn \subseteq Tokens
    /\ spent \subseteq Tokens /\ evicted \subseteq Tokens
    /\ expires \in [Tokens -> Nat]
    /\ spentAt \in [Tokens -> Nat]

\* "Single-use": an accepted token is not kept, so no later Validate finds it
\* (token.go, Validate), and it was accepted in its lifetime.
SpentOnce ==
    \A t \in spent : t \notin live /\ t \in drawn /\ spentAt[t] <= expires[t]

\* A client that was handed a token and comes in time gets in: a token is lost
\* before its expiry only by its use or by the cap.
KeptUntilExpiry ==
    \A t \in drawn \ (spent \cup evicted) : now <= expires[t] => t \in live

\* "memory is bounded to live tokens plus one sweep interval of dead ones"
\* (maybeSweepLocked), and by the cap.
MapBounded ==
    /\ \A t \in live : lastSweep <= expires[t]
    /\ Cardinality(live) <= MaxTokens

-----------------------------------------------------------------------------
(* The map, its clock and its sweeps implement one-time tokens.            *)

Status(t) == IF t \notin drawn THEN "none"
             ELSE IF t \in spent THEN "used"
             ELSE IF t \in live /\ InTime(t) THEN "good"
             ELSE "void"

OneTime == INSTANCE OneTimeTokens WITH
    status <- [t \in Tokens |-> Status(t)], usedAt <- spentAt

\* No sweep, cap, late Validate or turn of the clock makes a token good again, and
\* none lets somebody in twice (token.go, Mint and Validate).
IsOneTime == OneTime!Spec
=============================================================================
