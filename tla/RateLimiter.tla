---------------------------- MODULE RateLimiter ----------------------------
(***************************************************************************)
(* api/pairing_ratelimit.go: token buckets per source address and one      *)
(* global bucket, for each of the two public pairing endpoints.  Idle      *)
(* buckets are swept, and a full map leaves a new address untracked.       *)
(*                                                                         *)
(* A token is Refill[e] units and one unit comes back per tick, so that    *)
(* the fractions of the code stay whole numbers.  "ideal" is the limiter   *)
(* that never forgets a bucket.                                            *)
(***************************************************************************)
EXTENDS Naturals, FiniteSets, FiniteSetsExt, Functions

CONSTANTS
    Addresses,      \* source addresses
    Endpoints,      \* /pair/start and /pair/complete
    StartRefill,    \* startRefill, in ticks
    OtherRefill,    \* completeRefill
    BurstPerIP,     \* burstPerIP
    GlobalBurst,    \* globalBurst
    SweepEvery,     \* pairingBucketSweepEvery
    MaxBuckets,     \* pairingMaxIPBuckets
    LimMaxNow       \* bound: the clock

ASSUME LimiterConstants ==
    /\ {StartRefill, OtherRefill, BurstPerIP, GlobalBurst, SweepEvery} \subseteq Nat
    /\ MaxBuckets \in Nat /\ LimMaxNow \in Nat

VARIABLES
    limNow,
    buckets,      \* endpoint -> address -> units and last, for tracked addresses
    global,       \* endpoint -> units and last
    lastSweep,
    ideal,        \* endpoint -> address -> the bucket that is never dropped
    untracked     \* pairs a full map ever left untracked

limVars == <<limNow, buckets, global, lastSweep, ideal, untracked>>

Refill(e) == IF e = "start" THEN StartRefill ELSE OtherRefill
Full(e, burst) == burst * Refill(e)

LimInit ==
    /\ limNow = 0 /\ lastSweep = 0
    /\ buckets = [e \in Endpoints |-> <<>>]
    /\ global = [e \in Endpoints |-> [units |-> Full(e, GlobalBurst), last |-> 0]]
    /\ ideal = [e \in Endpoints |->
                    [a \in Addresses |-> [units |-> Full(e, BurstPerIP), last |-> 0]]]
    /\ untracked = {}

(* takeToken: refill for the time gone by, then take one.                  *)
Refilled(e, b, burst) ==
    [units |-> Min({Full(e, burst), b.units + (limNow - b.last)}), last |-> limNow]
HasToken(e, b, burst) == Refilled(e, b, burst).units >= Refill(e)
Taken(e, b, burst) ==
    IF HasToken(e, b, burst)
    THEN [Refilled(e, b, burst) EXCEPT !.units = @ - Refill(e)]
    ELSE Refilled(e, b, burst)

(* bucketIdleTTL, and a mutation that drops a bucket once idle at all.     *)
TTLOneToken(e) == Refill(e)
IdleTTL(e) == 2 * BurstPerIP * Refill(e)

Swept == [e \in Endpoints |->
            RestrictValues(buckets[e], LAMBDA b : limNow - b.last < IdleTTL(e))]
BucketSweepDue == limNow - lastSweep >= SweepEvery
AfterSweep == IF BucketSweepDue THEN Swept ELSE buckets

(* loadBucket: a tracked address, a new one for which there is room, maybe *)
(* after a sweep, or one that stays untracked.                             *)
Crowded(bs, e, a) ==
    a \notin DOMAIN bs[e] /\ Cardinality(DOMAIN bs[e]) >= MaxBuckets
Loaded(e, a) == IF Crowded(AfterSweep, e, a) THEN Swept ELSE AfterSweep
Fresh(e) == [units |-> Full(e, BurstPerIP), last |-> limNow]

Put(f, a, b) == [x \in DOMAIN f \cup {a} |-> IF x = a THEN b ELSE f[x]]

allow(e, a) ==
    LET bs     == Loaded(e, a)
        bucket == IF a \in DOMAIN bs[e] THEN bs[e][a] ELSE Fresh(e)
        store  == ~Crowded(bs, e, a)
    IN  /\ lastSweep' = IF BucketSweepDue THEN limNow ELSE lastSweep
        /\ buckets' = IF store
                      THEN [bs EXCEPT ![e] = Put(@, a, Taken(e, bucket, BurstPerIP))]
                      ELSE bs
        /\ untracked' = IF store THEN untracked ELSE untracked \cup {<<e, a>>}
        /\ global' = IF HasToken(e, bucket, BurstPerIP)
                     THEN [global EXCEPT ![e] = Taken(e, @, GlobalBurst)]
                     ELSE global
        /\ ideal' = [ideal EXCEPT ![e][a] = Taken(e, @, BurstPerIP)]
        /\ UNCHANGED limNow

LimTick ==
    /\ limNow < LimMaxNow
    /\ limNow' = limNow + 1
    /\ UNCHANGED <<buckets, global, lastSweep, ideal, untracked>>

LimNext == LimTick \/ \E e \in Endpoints, a \in Addresses : allow(e, a)
LimSpec == LimInit /\ [][LimNext]_limVars
-----------------------------------------------------------------------------
(* What an address may still take.                                         *)
Level(e, a) == IF a \in DOMAIN buckets[e]
               THEN Refilled(e, buckets[e][a], BurstPerIP).units
               ELSE Full(e, BurstPerIP)

(* "eviction is rate-limit neutral": for every address the maps have had   *)
(* room for, the limiter that sweeps allows exactly what one that never    *)
(* forgets a bucket would allow, whichever endpoint's traffic triggers the *)
(* sweep.                                                                  *)
SweepIsNeutral ==
    \A e \in Endpoints, a \in Addresses :
        <<e, a>> \notin untracked =>
            Level(e, a) = Refilled(e, ideal[e][a], BurstPerIP).units

(* The maps never grow past their cap (pairingMaxIPBuckets).               *)
MapsBounded == \A e \in Endpoints : Cardinality(DOMAIN buckets[e]) <= MaxBuckets
=============================================================================
