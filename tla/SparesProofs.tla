---------------------------- MODULE SparesProofs ----------------------------
(***************************************************************************)
(* Launch, the spares and Close, for any number of calls, agents and       *)
(* launch keys: every process is in one pair of hands, runs what its       *)
(* caller asked for, and leaves neither a spare nor a log ring behind.     *)
(* And the listing of chats, for any number of devices and slots: nobody   *)
(* who stays is told of a cancellation because somebody else left, and     *)
(* every process the lister started is listing, kept warm, being stopped   *)
(* or gone.                                                                *)
(***************************************************************************)
EXTENDS Spares, Projects, FiniteSetTheorems, TLAPS

\* Who holds a process, and as what (Owners tells Discards by their caller).
Holds(p, k, x) ==
    \/ k = "caller" /\ x \in Calls /\ got[x] = p /\ p # None
    \/ k = "claim" /\ x \in Calls /\ pc[x] = "claimed" /\ SpareOf(took[x]) = p
    \/ k = "refill" /\ x \in Calls /\ refill[x] = "spawned" /\ SpareOf(x) = p
    \/ k = "slot" /\ x \in Calls /\ refill[x] = "ready" /\ slot[agent[x]] = x /\ SpareOf(x) = p
    \/ k = "close" /\ x \in toStop /\ SpareOf(x) = p
    \/ k = "discard" /\ x \in discards /\ x.proc = p

OneHand == \A p, k, x, l, y : Holds(p, k, x) /\ Holds(p, l, y) => k = l /\ x = y

\* Somebody has still to do something about the process.
Cared(p) == \E k, x : Holds(p, k, x) /\ (k = "caller" => pc[x] # "returned")

\* What the wait group counts.
Waits(k, x) ==
    \/ k = "claim" /\ x \in Calls /\ pc[x] = "claimed"
    \/ k = "refill" /\ x \in Calls /\ refill[x] \in {"spawning", "spawned", "failed"}
    \/ k = "discard" /\ x \in discards /\ x.by # "close"

Pending ==
    {<<"claim", c>> : c \in {x \in Calls : pc[x] = "claimed"}}
    \cup {<<"refill", c>> : c \in {x \in Calls : refill[x] \in {"spawning", "spawned", "failed"}}}
    \cup {<<"discard", d>> : d \in {x \in discards : x.by # "close"}}

CountOK == IsFiniteSet(Pending) /\ wg = Cardinality(Pending)

CallOK(c) ==
    /\ pc[c] \in {"new", "claim", "claimed", "cold", "failed"} => got[c] = None
    /\ pc[c] \in {"register", "refill", "returned"} =>
          /\ got[c] \in Procs /\ as[got[c]] = want[c]
          /\ \/ got[c] = <<"own", c>>
             \/ \E sp \in Calls : got[c] = SpareOf(sp) /\ refill[sp] = "ready"
    /\ pc[c] = "claimed" => took[c] \in Calls /\ refill[took[c]] = "ready"
    /\ pc[c] \in {"claim", "claimed", "refill"} => ~want[c].env
    /\ pc[c] = "refill" => record[got[c]] = "running"
    /\ refill[c] # "none" => pc[c] = "returned" /\ ~want[c].env

SpareOK(sp) ==
    /\ slot[agent[sp]] = sp => refill[sp] \in {"spawning", "spawned", "failed", "ready"}
    /\ refill[sp] \in {"spawned", "ready"} => ~as[SpareOf(sp)].env
    /\ timer[sp] # "off" => refill[sp] = "ready"
    /\ sp \in toStop => refill[sp] = "ready"

SlotOK(a) == slot[a] # None => agent[slot[a]] = a

DiscardOK(d) ==
    /\ \E sp \in Calls : d.proc = SpareOf(sp) /\ refill[sp] \in {"ready", "gone"}
    /\ d.at = "drain" => d.proc \notin alive \ outlasted

\* Nobody cares for a process only when its caller does, or when it is over.
ProcOK(p) ==
    /\ p \in alive \ outlasted => Cared(p) \/ \E c \in Calls : got[c] = p
    /\ p \in (draining \cup ring) \ outlasted => Cared(p) \/ record[p] # None
    /\ record[p] # None => \E c \in Calls : got[c] = p /\ pc[c] \in {"refill", "returned"}
    /\ record[p] = "ended" => p \notin alive \cup draining

CloseOK ==
    /\ closed <=> closing # "no"
    /\ closed => \A a \in Agents : slot[a] = None
    /\ closing = "no" => toStop = {}
    /\ closing = "returned" => wg = 0 /\ toStop = {} /\ \A d \in discards : d.by # "close"

SpareInv ==
    /\ TypeOK
    /\ OneHand
    /\ CountOK
    /\ CloseOK
    /\ \A c \in Calls : CallOK(c)
    /\ \A sp \in Calls : SpareOK(sp)
    /\ \A a \in Agents : SlotOK(a)
    /\ \A d \in discards : DiscardOK(d)
    /\ \A p \in Procs : ProcOK(p)
-----------------------------------------------------------------------------
(* Hands.                                                                  *)

\* A process goes from one hand to another, or stays where it is.
Passes(p0, k0, x0, k1, x1) ==
    \A p, k, x : Holds(p, k, x)' <=> \/ Holds(p, k, x) /\ ~(p = p0 /\ k = k0 /\ x = x0)
                                     \/ p = p0 /\ k = k1 /\ x = x1

Drops(p0, k0, x0) ==
    \A p, k, x : Holds(p, k, x)' <=> Holds(p, k, x) /\ ~(p = p0 /\ k = k0 /\ x = x0)

Takes(p0, k1, x1) ==
    \A p, k, x : Holds(p, k, x)' <=> Holds(p, k, x) \/ (p = p0 /\ k = k1 /\ x = x1)

StaysPut == \A p, k, x : Holds(p, k, x)' <=> Holds(p, k, x)

LEMMA HandsMove ==
    ASSUME OneHand, NEW p0, NEW k0, NEW x0, NEW k1, NEW x1,
           Holds(p0, k0, x0), Passes(p0, k0, x0, k1, x1)
    PROVE  OneHand' /\ Holds(p0, k1, x1)'
BY DEF OneHand, Passes

LEMMA HandsTake ==
    ASSUME OneHand, NEW p0, NEW k1, NEW x1, \A k, x : ~Holds(p0, k, x), Takes(p0, k1, x1)
    PROVE  OneHand'
BY DEF OneHand, Takes

LEMMA HandsDrop ==
    ASSUME OneHand, NEW p0, NEW k0, NEW x0, Drops(p0, k0, x0)
    PROVE  OneHand'
BY DEF OneHand, Drops

LEMMA HandsStay ==
    ASSUME StaysPut, pc' = pc
    PROVE  /\ OneHand => OneHand'
           /\ \A p : Cared(p)' <=> Cared(p)
BY DEF OneHand, StaysPut, Cared

(* The wait group.                                                         *)

LEMMA PendingIs ==
    /\ \A k, x : <<k, x>> \in Pending <=> Waits(k, x)
    /\ \A h \in Pending : \E k, x : h = <<k, x>>
BY DEF Pending, Waits

LEMMA PendingIsNext ==
    /\ \A k, x : <<k, x>> \in Pending' <=> Waits(k, x)'
    /\ \A h \in Pending' : \E k, x : h = <<k, x>>
BY DEF Pending, Waits

LEMMA CountStays ==
    ASSUME CountOK, wg' = wg, \A k, x : Waits(k, x)' <=> Waits(k, x)
    PROVE  CountOK'
<1>1. Pending' = Pending
  BY PendingIs, PendingIsNext
<1> QED BY <1>1 DEF CountOK

LEMMA CountUp ==
    ASSUME CountOK, wg' = wg + 1, NEW k1, NEW x1, ~Waits(k1, x1),
           \A k, x : Waits(k, x)' <=> Waits(k, x) \/ (k = k1 /\ x = x1)
    PROVE  CountOK'
<1>1. Pending' = Pending \cup {<<k1, x1>>} /\ <<k1, x1>> \notin Pending
  BY PendingIs, PendingIsNext
<1>2. IsFiniteSet(Pending') /\ Cardinality(Pending') = Cardinality(Pending) + 1
  BY <1>1, FS_AddElement DEF CountOK
<1> QED BY <1>2 DEF CountOK

LEMMA CountDown ==
    ASSUME CountOK, wg' = wg - 1, NEW k0, NEW x0, Waits(k0, x0),
           \A k, x : Waits(k, x)' <=> Waits(k, x) /\ ~(k = k0 /\ x = x0)
    PROVE  CountOK'
<1>1. Pending' = Pending \ {<<k0, x0>>} /\ <<k0, x0>> \in Pending
  BY PendingIs, PendingIsNext
<1>2. IsFiniteSet(Pending') /\ Cardinality(Pending') = Cardinality(Pending) - 1
  BY <1>1, FS_RemoveElement DEF CountOK
<1> QED BY <1>2 DEF CountOK

LEMMA CountSwap ==
    ASSUME CountOK, wg' = wg, NEW k0, NEW x0, NEW k1, NEW x1,
           Waits(k0, x0), ~Waits(k1, x1),
           \A k, x : Waits(k, x)' <=> (Waits(k, x) /\ ~(k = k0 /\ x = x0)) \/ (k = k1 /\ x = x1)
    PROVE  CountOK'
<1>1. /\ Pending' = (Pending \ {<<k0, x0>>}) \cup {<<k1, x1>>}
      /\ <<k0, x0>> \in Pending /\ <<k1, x1>> \notin Pending \ {<<k0, x0>>}
  BY PendingIs, PendingIsNext
<1>2. IsFiniteSet(Pending \ {<<k0, x0>>})
      /\ Cardinality(Pending \ {<<k0, x0>>}) = Cardinality(Pending) - 1
  BY <1>1, FS_RemoveElement DEF CountOK
<1>3. IsFiniteSet(Pending')
      /\ Cardinality(Pending') = Cardinality(Pending \ {<<k0, x0>>}) + 1
  BY <1>1, <1>2, FS_AddElement
<1>4. Cardinality(Pending) \in Nat
  BY FS_CardinalityType DEF CountOK
<1> QED BY <1>2, <1>3, <1>4 DEF CountOK

LEMMA WgIsNat == ASSUME CountOK' PROVE wg' \in Nat
BY FS_CardinalityType DEF CountOK
LEMMA CaredStays ==
    ASSUME StaysPut, \A x \in Calls : pc'[x] = "returned" => pc[x] = "returned"
    PROVE  \A p : Cared(p) => Cared(p)'
<1> SUFFICES ASSUME NEW p, Cared(p) PROVE Cared(p)'
  OBVIOUS
<1>1. PICK k, x : Holds(p, k, x) /\ (k = "caller" => pc[x] # "returned")
  BY DEF Cared
<1>2. Holds(p, k, x)'
  BY <1>1 DEF StaysPut
<1>3. k = "caller" => pc'[x] # "returned"
  BY <1>1 DEF Holds
<1> QED BY <1>2, <1>3 DEF Cared

LEMMA CaredMoves ==
    ASSUME NEW p0, NEW k0, NEW x0, NEW k1, NEW x1, Passes(p0, k0, x0, k1, x1),
           k1 = "caller" => pc'[x1] # "returned",
           \A x \in Calls : pc'[x] = "returned" => pc[x] = "returned"
    PROVE  Cared(p0)' /\ \A p : Cared(p) => Cared(p)'
<1>1. Holds(p0, k1, x1)'
  BY DEF Passes
<1>2. Cared(p0)'
  BY <1>1 DEF Cared
<1>3. ASSUME NEW p, Cared(p), p # p0 PROVE Cared(p)'
  <2>1. PICK k, x : Holds(p, k, x) /\ (k = "caller" => pc[x] # "returned")
    BY <1>3 DEF Cared
  <2>2. Holds(p, k, x)'
    BY <1>3, <2>1 DEF Passes
  <2>3. k = "caller" => pc'[x] # "returned"
    BY <2>1 DEF Holds
  <2> QED BY <2>2, <2>3 DEF Cared
<1> QED BY <1>2, <1>3

LEMMA CaredDrops ==
    ASSUME NEW p0, NEW k0, NEW x0, Drops(p0, k0, x0),
           \A x \in Calls : pc'[x] = "returned" => pc[x] = "returned"
    PROVE  \A p : p # p0 /\ Cared(p) => Cared(p)'
<1>1. ASSUME NEW p, Cared(p), p # p0 PROVE Cared(p)'
  <2>1. PICK k, x : Holds(p, k, x) /\ (k = "caller" => pc[x] # "returned")
    BY <1>1 DEF Cared
  <2>2. Holds(p, k, x)'
    BY <1>1, <2>1 DEF Drops
  <2>3. k = "caller" => pc'[x] # "returned"
    BY <2>1 DEF Holds
  <2> QED BY <2>2, <2>3 DEF Cared
<1> QED BY <1>1

LEMMA CaredTakes ==
    ASSUME NEW p0, NEW k1, NEW x1, Takes(p0, k1, x1),
           k1 = "caller" => pc'[x1] # "returned",
           \A x \in Calls : pc'[x] = "returned" => pc[x] = "returned"
    PROVE  Cared(p0)' /\ \A p : Cared(p) => Cared(p)'
<1>1. Holds(p0, k1, x1)'
  BY DEF Takes
<1>2. Cared(p0)'
  BY <1>1 DEF Cared
<1>3. ASSUME NEW p, Cared(p) PROVE Cared(p)'
  <2>1. PICK k, x : Holds(p, k, x) /\ (k = "caller" => pc[x] # "returned")
    BY <1>3 DEF Cared
  <2>2. Holds(p, k, x)'
    BY <2>1 DEF Takes
  <2>3. k = "caller" => pc'[x] # "returned"
    BY <2>1 DEF Holds
  <2> QED BY <2>2, <2>3 DEF Cared
<1> QED BY <1>2, <1>3

\* When the launch of c returns, only its own process loses a hand.
LEMMA CaredButFor ==
    ASSUME StaysPut, NEW c \in Calls,
           \A x \in Calls \ {c} : pc'[x] = "returned" => pc[x] = "returned"
    PROVE  \A p : p # got[c] /\ Cared(p) => Cared(p)'
<1> SUFFICES ASSUME NEW p, p # got[c], Cared(p) PROVE Cared(p)'
  OBVIOUS
<1>1. PICK k, x : Holds(p, k, x) /\ (k = "caller" => pc[x] # "returned")
  BY DEF Cared
<1>2. Holds(p, k, x)'
  BY <1>1 DEF StaysPut
<1>3. k = "caller" => pc'[x] # "returned"
  BY <1>1 DEF Holds
<1> QED BY <1>2, <1>3 DEF Cared

(* What a step leaves alone.                                               *)

LEMMA CallFrame ==
    ASSUME NEW c \in Calls, CallOK(c), pc'[c] = pc[c], got'[c] = got[c],
           took'[c] = took[c], want'[c] = want[c], refill'[c] = refill[c],
           got[c] \in Procs => as'[got[c]] = as[got[c]],
           pc[c] = "refill" => record'[got[c]] = record[got[c]],
           \A sp \in Calls : refill[sp] = "ready" => refill'[sp] = "ready"
    PROVE  CallOK(c)'
BY DEF CallOK

LEMMA ProcFrame ==
    ASSUME NEW p \in Procs, ProcOK(p),
           p \in alive' => p \in alive, p \in draining' => p \in draining,
           p \in ring' => p \in draining \cup ring, p \in outlasted => p \in outlasted',
           record'[p] = record[p], Cared(p) => Cared(p)',
           \A c \in Calls : got[c] = p =>
               got'[c] = p /\ (pc[c] \in {"refill", "returned"} => pc'[c] \in {"refill", "returned"})
    PROVE  ProcOK(p)'
<1>1. (\E c \in Calls : got[c] = p) => \E c \in Calls : got'[c] = p
  OBVIOUS
<1>2. (\E c \in Calls : got[c] = p /\ pc[c] \in {"refill", "returned"}) =>
          \E c \in Calls : got'[c] = p /\ pc'[c] \in {"refill", "returned"}
  OBVIOUS
<1> QED BY <1>1, <1>2 DEF ProcOK

-----------------------------------------------------------------------------
(* Launch.                                                                 *)

\* Nobody's hands move.
LEMMA SameHands ==
    ASSUME got' = got, took' = took, slot' = slot, agent' = agent,
           toStop' = toStop, discards' = discards,
           \A x \in Calls : pc'[x] = "claimed" <=> pc[x] = "claimed",
           \A x \in Calls : refill'[x] = "spawned" <=> refill[x] = "spawned",
           \A x \in Calls : refill'[x] = "ready" <=> refill[x] = "ready"
    PROVE  StaysPut
<1> SUFFICES ASSUME NEW p, NEW k, NEW x PROVE Holds(p, k, x)' <=> Holds(p, k, x)
  BY DEF StaysPut
<1> QED BY DEF Holds

LEMMA LaunchKeeps ==
    ASSUME SpareInv, NEW c \in Calls, NEW key \in Keys, NEW env \in BOOLEAN,
           Launch(c, key, env)
    PROVE  SpareInv'
<1>1. /\ TypeOK /\ OneHand /\ CountOK /\ CloseOK
      /\ \A x \in Calls : CallOK(x) /\ SpareOK(x)
      /\ \A a \in Agents : SlotOK(a)
      /\ \A d \in discards : DiscardOK(d)
      /\ \A p \in Procs : ProcOK(p)
  BY DEF SpareInv
<1>2. /\ pc[c] = "new" /\ pc'[c] \in {"cold", "claim"}
      /\ pc' = [pc EXCEPT ![c] = FirstStop(env)] 
      /\ pc'[c] = "claim" => ~want'[c].env
      /\ want' = [want EXCEPT ![c] = [key |-> key, env |-> env]]
      /\ \A x \in Calls \ {c} : pc'[x] = pc[x] /\ want'[x] = want[x]
      /\ agent' = agent /\ took' = took /\ got' = got /\ wg' = wg /\ discards' = discards
      /\ slot' = slot /\ refill' = refill /\ timer' = timer /\ record' = record
      /\ closed' = closed /\ closing' = closing /\ toStop' = toStop
      /\ as' = as /\ alive' = alive /\ draining' = draining /\ ring' = ring
      /\ outlasted' = outlasted
  BY <1>1 DEF Launch, TypeOK, FirstStop, spareVars, closeVars, procVars
<1>3. StaysPut
  BY <1>1, <1>2, SameHands
<1>4. OneHand'
  BY <1>1, <1>3 DEF OneHand, StaysPut
<1>5. CountOK'
  <2>1. \A k, x : Waits(k, x)' <=> Waits(k, x)
    BY <1>1, <1>2 DEF Waits
  <2> QED BY <1>1, <1>2, <2>1, CountStays
<1>6. TypeOK'
  <2>1. pc' \in [Calls -> {"new", "claim", "claimed", "cold", "register", "refill",
                          "returned", "failed"}]
    BY <1>1, <1>2 DEF TypeOK, FirstStop
  <2>2. want' \in [Calls -> LaunchedAs \cup {NotLaunched}]
    BY <1>1, <1>2 DEF TypeOK, LaunchedAs
  <2> QED BY <1>1, <1>2, <2>1, <2>2 DEF TypeOK
<1>7. CloseOK'
  BY <1>1, <1>2 DEF CloseOK
<1>8. ASSUME NEW x \in Calls PROVE CallOK(x)'
  <2>1. CASE x = c
    <3>1. refill[c] = "none" /\ got[c] = None
      BY <1>1, <1>2 DEF CallOK
    <3> QED BY <1>2, <2>1, <3>1 DEF CallOK
  <2>2. CASE x # c
    BY <1>1, <1>2, <2>2, CallFrame
  <2> QED BY <2>1, <2>2
<1>9. \A x \in Calls : SpareOK(x)'
  BY <1>1, <1>2 DEF SpareOK
<1>10. (\A a \in Agents : SlotOK(a)') /\ \A d \in discards' : DiscardOK(d)'
  BY <1>1, <1>2 DEF SlotOK, DiscardOK
<1>11. ASSUME NEW p \in Procs PROVE ProcOK(p)'
  <2>1. Cared(p) => Cared(p)'
    BY <1>1, <1>2, <1>3, CaredStays DEF TypeOK
  <2> QED BY <1>1, <1>2, <2>1, ProcFrame
<1> QED BY <1>4, <1>5, <1>6, <1>7, <1>8, <1>9, <1>10, <1>11 DEF SpareInv
LEMMA SpareNames == \A x, y : SpareOf(x) = SpareOf(y) <=> x = y
BY DEF SpareOf

LEMMA LaunchKinds ==
    ASSUME NEW h \in LaunchedAs \cup {NotLaunched}
    PROVE  h.env \in BOOLEAN /\ h = [key |-> h.key, env |-> h.env]
<1>1. CASE h \in LaunchedAs
  BY <1>1 DEF LaunchedAs
<1>2. CASE h = NotLaunched
  BY <1>2 DEF NotLaunched
<1> QED BY <1>1, <1>2

LEMMA DaemonEnv ==
    ASSUME NEW h \in LaunchedAs \cup {NotLaunched}, NEW g, g = [h EXCEPT !.env = FALSE]
    PROVE  g \in LaunchedAs \cup {NotLaunched} /\ g.env = FALSE
<1>1. h = [key |-> h.key, env |-> h.env]
  BY LaunchKinds
<1>2. g = [key |-> h.key, env |-> FALSE]
  BY <1>1
<1>3. CASE h \in LaunchedAs
  BY <1>2, <1>3 DEF LaunchedAs
<1>4. CASE h = NotLaunched
  <2>1. h.key = None
    BY <1>4 DEF NotLaunched
  <2> QED BY <1>2, <2>1 DEF NotLaunched
<1> QED BY <1>2, <1>3, <1>4

\* claimSpare under mu: the spare goes from the map to the claim.
LEMMA ClaimTakesSlot ==
    ASSUME SpareInv, NEW c \in Calls, ClaimSpare(c),
           slot[agent[c]] # None, refill[slot[agent[c]]] = "ready"
    PROVE  SpareInv'
<1>1. /\ TypeOK /\ OneHand /\ CountOK /\ CloseOK
      /\ \A x \in Calls : CallOK(x) /\ SpareOK(x)
      /\ \A a \in Agents : SlotOK(a)
      /\ \A d \in discards : DiscardOK(d)
      /\ \A p \in Procs : ProcOK(p)
  BY DEF SpareInv
<1>2. PICK sp : sp = slot[agent[c]]
  OBVIOUS
<1>3. sp \in Calls /\ agent[sp] = agent[c] /\ agent[c] \in Agents /\ refill[sp] = "ready"
  BY <1>1, <1>2, SpareConstants DEF TypeOK, SlotOK
<1>4. /\ pc[c] = "claim" /\ pc' = [pc EXCEPT ![c] = "claimed"]
      /\ slot' = [slot EXCEPT ![agent[c]] = None] /\ took' = [took EXCEPT ![c] = sp]
      /\ wg' = wg + 1
      /\ agent' = agent /\ want' = want /\ got' = got /\ discards' = discards
      /\ refill' = refill /\ timer' = timer /\ record' = record
      /\ closed' = closed /\ closing' = closing /\ toStop' = toStop
      /\ as' = as /\ alive' = alive /\ draining' = draining /\ ring' = ring
      /\ outlasted' = outlasted
  BY <1>2, <1>3, SpareConstants DEF ClaimSpare, ClaimCounted, closeVars, procVars
<1>5. /\ pc'[c] = "claimed" /\ took'[c] = sp
      /\ \A x \in Calls \ {c} : pc'[x] = pc[x] /\ took'[x] = took[x]
      /\ \A x \in Calls : slot'[agent[x]] = x <=> slot[agent[x]] = x /\ x # sp
  BY <1>1, <1>2, <1>3, <1>4, SpareConstants DEF TypeOK
<1>6. Holds(SpareOf(sp), "slot", sp)
  BY <1>2, <1>3 DEF Holds
<1>7. Passes(SpareOf(sp), "slot", sp, "claim", c)
  <2> SUFFICES ASSUME NEW p, NEW k, NEW x
               PROVE  Holds(p, k, x)' <=>
                          \/ Holds(p, k, x) /\ ~(p = SpareOf(sp) /\ k = "slot" /\ x = sp)
                          \/ p = SpareOf(sp) /\ k = "claim" /\ x = c
    BY DEF Passes
  <2> QED BY <1>3, <1>4, <1>5 DEF Holds
<1>8. OneHand'
  BY <1>1, <1>6, <1>7, HandsMove
<1>9. CountOK'
  <2>1. \A k, x : Waits(k, x)' <=> Waits(k, x) \/ (k = "claim" /\ x = c)
    BY <1>4, <1>5 DEF Waits
  <2>2. ~Waits("claim", c)
    BY <1>4 DEF Waits
  <2> QED BY <1>1, <1>4, <2>1, <2>2, CountUp
<1>10. TypeOK'
  <2>1. wg' \in Nat
    BY <1>9, WgIsNat
  <2> QED BY <1>1, <1>3, <1>4, <2>1 DEF TypeOK
<1>11. CloseOK'
  <2>1. ~closed
    BY <1>1, <1>2, <1>3, SpareConstants DEF CloseOK
  <2> QED BY <1>1, <1>4, <2>1 DEF CloseOK
<1>12. ASSUME NEW x \in Calls PROVE CallOK(x)'
  <2>1. CASE x = c
    <3>1. refill[c] = "none" /\ got[c] = None /\ ~want[c].env
      BY <1>1, <1>4 DEF CallOK, TypeOK
    <3> QED BY <1>3, <1>4, <1>5, <2>1, <3>1, ZenonT(30) DEF CallOK
  <2>2. CASE x # c
    BY <1>1, <1>4, <1>5, <2>2, CallFrame
  <2> QED BY <2>1, <2>2
<1>13. \A x \in Calls : SpareOK(x)'
  BY <1>1, <1>4, <1>5 DEF SpareOK
<1>14. /\ \A a \in Agents : SlotOK(a)'
       /\ \A d \in discards' : DiscardOK(d)'
  BY <1>1, <1>3, <1>4 DEF SlotOK, DiscardOK, TypeOK
<1>15. ASSUME NEW p \in Procs PROVE ProcOK(p)'
  <2>1. Cared(p) => Cared(p)'
    BY <1>4, <1>5, <1>7, CaredMoves
  <2> QED BY <1>1, <1>4, <1>5, <2>1, ProcFrame
<1> QED BY <1>8, <1>9, <1>10, <1>11, <1>12, <1>13, <1>14, <1>15 DEF SpareInv

LEMMA ClaimMisses ==
    ASSUME SpareInv, NEW c \in Calls, ClaimSpare(c),
           ~(slot[agent[c]] # None /\ refill[slot[agent[c]]] = "ready")
    PROVE  SpareInv'
<1>1. /\ TypeOK /\ OneHand /\ CountOK /\ CloseOK
      /\ \A x \in Calls : CallOK(x) /\ SpareOK(x)
      /\ \A a \in Agents : SlotOK(a)
      /\ \A d \in discards : DiscardOK(d)
      /\ \A p \in Procs : ProcOK(p)
  BY DEF SpareInv
<1>2. /\ pc[c] = "claim" /\ pc' = [pc EXCEPT ![c] = "cold"]
      /\ agent' = agent /\ took' = took /\ want' = want /\ got' = got /\ wg' = wg
      /\ slot' = slot /\ refill' = refill /\ timer' = timer /\ record' = record
      /\ discards' = discards /\ closed' = closed /\ closing' = closing /\ toStop' = toStop
      /\ as' = as /\ alive' = alive /\ draining' = draining /\ ring' = ring
      /\ outlasted' = outlasted
  BY DEF ClaimSpare, closeVars, procVars
<1>3. pc'[c] = "cold" /\ \A x \in Calls \ {c} : pc'[x] = pc[x]
  BY <1>1, <1>2 DEF TypeOK
<1>4. StaysPut
  BY <1>2, <1>3, SameHands
<1>5. OneHand'
  BY <1>1, <1>4 DEF OneHand, StaysPut
<1>6. CountOK'
  <2>1. \A k, x : Waits(k, x)' <=> Waits(k, x)
    BY <1>2, <1>3 DEF Waits
  <2> QED BY <1>1, <1>2, <2>1, CountStays
<1>7. TypeOK'
  BY <1>1, <1>2 DEF TypeOK
<1>8. CloseOK'
  BY <1>1, <1>2 DEF CloseOK
<1>9. ASSUME NEW x \in Calls PROVE CallOK(x)'
  <2>1. CASE x = c
    BY <1>1, <1>2, <1>3, <2>1 DEF CallOK
  <2>2. CASE x # c
    BY <1>1, <1>2, <1>3, <2>2, CallFrame
  <2> QED BY <2>1, <2>2
<1>10. \A x \in Calls : SpareOK(x)'
  BY <1>1, <1>2 DEF SpareOK
<1>11. /\ \A a \in Agents : SlotOK(a)'
       /\ \A d \in discards' : DiscardOK(d)'
  BY <1>1, <1>2 DEF SlotOK, DiscardOK
<1>12. ASSUME NEW p \in Procs PROVE ProcOK(p)'
  <2>1. Cared(p) => Cared(p)'
    BY <1>2, <1>3, <1>4, CaredStays
  <2> QED BY <1>1, <1>2, <1>3, <2>1, ProcFrame
<1> QED BY <1>5, <1>6, <1>7, <1>8, <1>9, <1>10, <1>11, <1>12 DEF SpareInv
\* claimSpare after the section, when the spare is handed over.
LEMMA HandOver ==
    ASSUME SpareInv, NEW c \in Calls, TakeSpare(c),
           SpareOf(took[c]) \in alive, Matches(SpareOf(took[c]), c)
    PROVE  SpareInv'
<1>1. /\ TypeOK /\ OneHand /\ CountOK /\ CloseOK
      /\ \A x \in Calls : CallOK(x) /\ SpareOK(x)
      /\ \A a \in Agents : SlotOK(a)
      /\ \A d \in discards : DiscardOK(d)
      /\ \A p \in Procs : ProcOK(p)
  BY DEF SpareInv
<1>2. PICK sp : sp = took[c]
  OBVIOUS
<1>3. pc[c] = "claimed" /\ sp \in Calls /\ refill[sp] = "ready"
      /\ SpareOf(sp) \in Procs /\ got[c] = None /\ refill[c] = "none" /\ ~want[c].env
  BY <1>1, <1>2 DEF TakeSpare, CallOK, Procs, SpareOf, TypeOK
<1>4. /\ pc' = [pc EXCEPT ![c] = "register"] /\ got' = [got EXCEPT ![c] = SpareOf(sp)]
      /\ took' = [took EXCEPT ![c] = None] /\ wg' = wg - 1
      /\ timer' = [timer EXCEPT ![sp] = IF @ = "armed" THEN "off" ELSE @]
      /\ agent' = agent /\ want' = want /\ discards' = discards
      /\ slot' = slot /\ refill' = refill /\ record' = record
      /\ closed' = closed /\ closing' = closing /\ toStop' = toStop
      /\ as' = as /\ alive' = alive /\ draining' = draining /\ ring' = ring
      /\ outlasted' = outlasted
  BY <1>2 DEF TakeSpare, ReleasedOnHandover, ClaimCounted, closeVars, procVars
<1>5. /\ pc'[c] = "register" /\ got'[c] = SpareOf(sp)
      /\ \A x \in Calls \ {c} : pc'[x] = pc[x] /\ got'[x] = got[x] /\ took'[x] = took[x]
  BY <1>1, <1>4 DEF TypeOK
<1>6. Holds(SpareOf(sp), "claim", c)
  BY <1>2, <1>3 DEF Holds
<1>7. Passes(SpareOf(sp), "claim", c, "caller", c)
  <2> SUFFICES ASSUME NEW p, NEW k, NEW x
               PROVE  Holds(p, k, x)' <=>
                          \/ Holds(p, k, x) /\ ~(p = SpareOf(sp) /\ k = "claim" /\ x = c)
                          \/ p = SpareOf(sp) /\ k = "caller" /\ x = c
    BY DEF Passes
  <2>1. SpareOf(sp) # None
    BY <1>3, SpareConstants
  <2> QED BY <1>2, <1>3, <1>4, <1>5, <2>1 DEF Holds
<1>8. OneHand'
  BY <1>1, <1>6, <1>7, HandsMove
<1>9. CountOK'
  <2>1. \A k, x : Waits(k, x)' <=> Waits(k, x) /\ ~(k = "claim" /\ x = c)
    BY <1>3, <1>4, <1>5 DEF Waits
  <2>2. Waits("claim", c)
    BY <1>3 DEF Waits
  <2> QED BY <1>1, <1>4, <2>1, <2>2, CountDown
<1>10. TypeOK'
  <2>1. wg' \in Nat
    BY <1>9, WgIsNat
  <2> QED BY <1>1, <1>3, <1>4, <2>1 DEF TypeOK
<1>11. CloseOK'
  <2>1. wg \in Nat /\ wg' \in Nat
    BY <1>1, <1>10 DEF TypeOK
  <2> QED BY <1>1, <1>4, <2>1 DEF CloseOK
<1>12. ASSUME NEW x \in Calls PROVE CallOK(x)'
  <2>1. CASE x = c
    <3>1. as[SpareOf(sp)] = want[c]
      <4>1. as[SpareOf(sp)].key = want[c].key
        BY <1>2 DEF Matches
      <4>2. as[SpareOf(sp)] \in LaunchedAs \cup {NotLaunched}
            /\ want[c] \in LaunchedAs \cup {NotLaunched}
        BY <1>1, <1>3 DEF TypeOK
      <4>3. ~as[SpareOf(sp)].env /\ ~want[c].env
        BY <1>1, <1>3 DEF SpareOK
      <4>4. as[SpareOf(sp)].env = want[c].env
        BY <4>2, <4>3, LaunchKinds
      <4> QED BY <4>1, <4>2, <4>4, LaunchKinds
    <3> QED BY <1>3, <1>4, <1>5, <2>1, <3>1 DEF CallOK
  <2>2. CASE x # c
    BY <1>1, <1>4, <1>5, <2>2, CallFrame
  <2> QED BY <2>1, <2>2
<1>13. \A x \in Calls : SpareOK(x)'
  BY <1>1, <1>3, <1>4 DEF SpareOK, TypeOK
<1>14. /\ \A a \in Agents : SlotOK(a)'
       /\ \A d \in discards' : DiscardOK(d)'
  BY <1>1, <1>4 DEF SlotOK, DiscardOK
<1>15. ASSUME NEW p \in Procs PROVE ProcOK(p)'
  <2>1. Cared(p) => Cared(p)'
    BY <1>4, <1>5, <1>7, CaredMoves
  <2>2. p # None
    BY SpareConstants
  <2> QED BY <1>1, <1>3, <1>4, <1>5, <2>1, <2>2, ProcFrame
<1> QED BY <1>8, <1>9, <1>10, <1>11, <1>12, <1>13, <1>14, <1>15 DEF SpareInv

\* claimSpare after the section, when the spare died or no longer matches.
LEMMA ClaimDiscards ==
    ASSUME SpareInv, NEW c \in Calls, TakeSpare(c),
           ~(SpareOf(took[c]) \in alive /\ Matches(SpareOf(took[c]), c))
    PROVE  SpareInv'
<1>1. /\ TypeOK /\ OneHand /\ CountOK /\ CloseOK
      /\ \A x \in Calls : CallOK(x) /\ SpareOK(x)
      /\ \A a \in Agents : SlotOK(a)
      /\ \A d \in discards : DiscardOK(d)
      /\ \A p \in Procs : ProcOK(p)
  BY DEF SpareInv
<1>2. PICK sp : sp = took[c]
  OBVIOUS
<1>3. pc[c] = "claimed" /\ sp \in Calls /\ refill[sp] = "ready" /\ wg \in Nat
      /\ SpareOf(sp) \in Procs /\ got[c] = None /\ refill[c] = "none" /\ ~want[c].env
  BY <1>1, <1>2 DEF TakeSpare, CallOK, Procs, SpareOf, TypeOK
<1>4. PICK d : d = [proc |-> SpareOf(sp), by |-> "claim", at |-> "stop"]
  OBVIOUS
<1>5. /\ pc' = [pc EXCEPT ![c] = "cold"] /\ got' = got /\ wg' = wg
      /\ took' = [took EXCEPT ![c] = None] /\ discards' = discards \cup {d}
      /\ timer' = [timer EXCEPT ![sp] = IF @ = "armed" THEN "off" ELSE @]
      /\ agent' = agent /\ want' = want
      /\ slot' = slot /\ refill' = refill /\ record' = record
      /\ closed' = closed /\ closing' = closing /\ toStop' = toStop
      /\ as' = as /\ alive' = alive /\ draining' = draining /\ ring' = ring
      /\ outlasted' = outlasted
  BY <1>2, <1>3, <1>4 DEF TakeSpare, ClaimCounted, closeVars, procVars
<1>6. /\ pc'[c] = "cold" /\ d.proc = SpareOf(sp) /\ d.by = "claim" /\ d.at = "stop"
      /\ \A x \in Calls \ {c} : pc'[x] = pc[x] /\ took'[x] = took[x]
  BY <1>1, <1>4, <1>5 DEF TypeOK
<1>7. Holds(SpareOf(sp), "claim", c)
  BY <1>2, <1>3 DEF Holds
<1>8. Passes(SpareOf(sp), "claim", c, "discard", d)
  <2> SUFFICES ASSUME NEW p, NEW k, NEW x
               PROVE  Holds(p, k, x)' <=>
                          \/ Holds(p, k, x) /\ ~(p = SpareOf(sp) /\ k = "claim" /\ x = c)
                          \/ p = SpareOf(sp) /\ k = "discard" /\ x = d
    BY DEF Passes
  <2> QED BY <1>2, <1>3, <1>5, <1>6 DEF Holds
<1>9. OneHand'
  BY <1>1, <1>7, <1>8, HandsMove
<1>10. CountOK'
  <2>1. \A k, x : Waits(k, x)' <=>
            (Waits(k, x) /\ ~(k = "claim" /\ x = c)) \/ (k = "discard" /\ x = d)
    BY <1>3, <1>5, <1>6 DEF Waits
  <2>2. Waits("claim", c)
    BY <1>3 DEF Waits
  <2>3. d \notin discards
    BY <1>1, <1>6, <1>7 DEF OneHand, Holds
  <2>4. ~Waits("discard", d)
    BY <2>3 DEF Waits
  <2> QED BY <1>1, <1>5, <2>1, <2>2, <2>4, CountSwap
<1>11. TypeOK'
  <2>1. d \in [proc : Procs, by : {"claim", "refill", "timer", "close"},
              at : {"stop", "drain"}]
    BY <1>3, <1>4
  <2> QED BY <1>1, <1>3, <1>5, <2>1 DEF TypeOK
<1>12. CloseOK'
  BY <1>1, <1>5, <1>6 DEF CloseOK
<1>13. ASSUME NEW x \in Calls PROVE CallOK(x)'
  <2>1. CASE x = c
    BY <1>3, <1>5, <1>6, <2>1 DEF CallOK
  <2>2. CASE x # c
    BY <1>1, <1>5, <1>6, <2>2, CallFrame
  <2> QED BY <2>1, <2>2
<1>14. \A x \in Calls : SpareOK(x)'
  BY <1>1, <1>3, <1>5 DEF SpareOK, TypeOK
<1>15. \A a \in Agents : SlotOK(a)'
  BY <1>1, <1>5 DEF SlotOK
<1>16. \A e \in discards' : DiscardOK(e)'
  BY <1>1, <1>3, <1>5, <1>6 DEF DiscardOK
<1>17. ASSUME NEW p \in Procs PROVE ProcOK(p)'
  <2>1. Cared(p) => Cared(p)'
    BY <1>5, <1>6, <1>8, CaredMoves
  <2>2. p # None
    BY SpareConstants
  <2> QED BY <1>1, <1>3, <1>5, <1>6, <2>1, <2>2, ProcFrame
<1> QED BY <1>9, <1>10, <1>11, <1>12, <1>13, <1>14, <1>15, <1>16, <1>17 DEF SpareInv
\* Nobody holds a process that has yet to be created.
LEMMA NobodyYet ==
    ASSUME SpareInv, NEW c \in Calls, NEW p,
           \/ pc[c] = "cold" /\ p = <<"own", c>>
           \/ refill[c] = "spawning" /\ p = SpareOf(c)
    PROVE  /\ \A k, x : ~Holds(p, k, x)
           /\ \A x \in Calls : got[x] # p
           /\ p \in Procs /\ record[p] = None
<1>1. /\ TypeOK /\ OneHand /\ CountOK /\ CloseOK
      /\ \A x \in Calls : CallOK(x) /\ SpareOK(x)
      /\ \A a \in Agents : SlotOK(a)
      /\ \A d \in discards : DiscardOK(d)
      /\ \A pr \in Procs : ProcOK(pr)
  BY DEF SpareInv
<1>2. \A x \in Calls : SpareOf(x) # <<"own", c>> /\ (SpareOf(x) = SpareOf(c) => x = c)
  BY DEF SpareOf
<1>3. p \in Procs
  BY DEF Procs, SpareOf
<1>4. ASSUME NEW x \in Calls PROVE got[x] # p
  <2>1. p # None
    BY <1>3, SpareConstants
  <2>2. CASE got[x] # None
    <3>1. \/ got[x] = <<"own", x>>
          \/ \E sp \in Calls : got[x] = SpareOf(sp) /\ refill[sp] = "ready"
      <4>1. pc[x] \in {"new", "claim", "claimed", "cold", "register", "refill",
                       "returned", "failed"}
        BY <1>1 DEF TypeOK
      <4>2. CallOK(x)
        BY <1>1
      <4>3. pc[x] \in {"register", "refill", "returned"}
        BY <2>2, <4>1, <4>2 DEF CallOK
      <4> QED BY <4>2, <4>3 DEF CallOK
    <3>2. CASE pc[c] = "cold" /\ p = <<"own", c>>
      <4>1. got[c] = None
        BY <1>1, <3>2 DEF CallOK
      <4> QED BY <1>2, <2>2, <3>1, <3>2, <4>1
    <3>3. CASE refill[c] = "spawning" /\ p = SpareOf(c)
      BY <1>2, <3>1, <3>3 DEF SpareOf
    <3> QED BY <3>2, <3>3
  <2> QED BY <2>1, <2>2
<1>5. ASSUME NEW k, NEW x, Holds(p, k, x) PROVE FALSE
  <2>1. PICK sp \in Calls : p = SpareOf(sp) /\ refill[sp] \in {"ready", "gone", "spawned"}
    <3>1. CASE k = "caller"
      BY <1>4, <1>5, <3>1 DEF Holds
    <3>2. CASE k = "claim"
      BY <1>1, <1>5, <3>2 DEF Holds, CallOK
    <3>3. CASE k = "refill" \/ k = "slot"
      BY <1>5, <3>3 DEF Holds
    <3>4. CASE k = "close"
      BY <1>1, <1>5, <3>4 DEF Holds, SpareOK, TypeOK
    <3>5. CASE k = "discard"
      BY <1>1, <1>5, <3>5 DEF Holds, DiscardOK
    <3> QED BY <1>5, <3>1, <3>2, <3>3, <3>4, <3>5 DEF Holds
  <2> QED BY <1>2, <2>1
<1>6. record[p] = None
  BY <1>1, <1>3, <1>4 DEF ProcOK
<1> QED BY <1>3, <1>4, <1>5, <1>6

\* launchProcess, when the process starts.
LEMMA StartsOwn ==
    ASSUME SpareInv, NEW c \in Calls, LaunchProcess(c), pc'[c] = "register"
    PROVE  SpareInv'
<1>1. /\ TypeOK /\ OneHand /\ CountOK /\ CloseOK
      /\ \A x \in Calls : CallOK(x) /\ SpareOK(x)
      /\ \A a \in Agents : SlotOK(a)
      /\ \A d \in discards : DiscardOK(d)
      /\ \A p \in Procs : ProcOK(p)
  BY DEF SpareInv
<1>2. PICK q : q = <<"own", c>>
  OBVIOUS
<1>3. /\ pc[c] = "cold" /\ pc' = [pc EXCEPT ![c] = "register"]
      /\ got' = [got EXCEPT ![c] = q]
      /\ as' = [as EXCEPT ![q] = want[c]]
      /\ alive' = alive \cup {q} /\ draining' = draining \cup {q}
      /\ agent' = agent /\ want' = want /\ took' = took /\ wg' = wg
      /\ slot' = slot /\ refill' = refill /\ timer' = timer /\ record' = record
      /\ discards' = discards /\ closed' = closed /\ closing' = closing /\ toStop' = toStop
      /\ ring' = ring /\ outlasted' = outlasted
  BY <1>1, <1>2 DEF LaunchProcess, Spawned, TypeOK, spareVars, closeVars, procVars
<1>4. /\ \A k, x : ~Holds(q, k, x)
      /\ \A x \in Calls : got[x] # q
      /\ q \in Procs /\ record[q] = None
  BY <1>2, <1>3, NobodyYet
<1>5. /\ got[c] = None /\ refill[c] = "none" /\ q # None
      /\ \A sp \in Calls : SpareOf(sp) # q
  <2>1. CallOK(c)
    BY <1>1
  <2>2. got[c] = None /\ refill[c] = "none"
    BY <1>3, <2>1 DEF CallOK
  <2>3. q # None
    BY <1>4, SpareConstants
  <2> QED BY <1>2, <2>2, <2>3 DEF SpareOf
<1>6. /\ pc'[c] = "register" /\ got'[c] = q /\ as'[q] = want[c]
      /\ \A x \in Calls \ {c} : pc'[x] = pc[x] /\ got'[x] = got[x]
      /\ \A p \in Procs \ {q} : as'[p] = as[p]
      /\ \A sp \in Calls : as'[SpareOf(sp)] = as[SpareOf(sp)]
  <2>1. \A sp \in Calls : SpareOf(sp) \in Procs
    BY DEF SpareOf, Procs
  <2> QED BY <1>1, <1>3, <1>4, <1>5, <2>1 DEF TypeOK
<1>7. Takes(q, "caller", c)
  <2> SUFFICES ASSUME NEW p, NEW k, NEW x
               PROVE  Holds(p, k, x)' <=>
                          Holds(p, k, x) \/ (p = q /\ k = "caller" /\ x = c)
    BY DEF Takes
  <2> QED BY <1>3, <1>5, <1>6 DEF Holds
<1>8. OneHand'
  BY <1>1, <1>4, <1>7, HandsTake
<1>9. CountOK'
  <2>1. \A k, x : Waits(k, x)' <=> Waits(k, x)
    BY <1>3, <1>6 DEF Waits
  <2> QED BY <1>1, <1>3, <2>1, CountStays
<1>10. TypeOK'
  <2>1. as' \in [Procs -> LaunchedAs \cup {NotLaunched}]
    BY <1>1, <1>3, <1>4 DEF TypeOK
  <2> QED BY <1>1, <1>3, <1>4, <2>1 DEF TypeOK
<1>11. CloseOK'
  BY <1>1, <1>3 DEF CloseOK
<1>12. ASSUME NEW x \in Calls PROVE CallOK(x)'
  <2>1. CASE x = c
    BY <1>2, <1>3, <1>4, <1>5, <1>6, <2>1 DEF CallOK
  <2>2. CASE x # c
    BY <1>1, <1>3, <1>4, <1>6, <2>2, CallFrame
  <2> QED BY <2>1, <2>2
<1>13. \A x \in Calls : SpareOK(x)'
  BY <1>1, <1>3, <1>6 DEF SpareOK
<1>14. \A a \in Agents : SlotOK(a)'
  BY <1>1, <1>3 DEF SlotOK
<1>15. ASSUME NEW d \in discards' PROVE DiscardOK(d)'
  <2>1. DiscardOK(d) /\ d.proc # q
    BY <1>1, <1>3, <1>4, <1>15 DEF Holds
  <2> QED BY <1>3, <2>1 DEF DiscardOK
<1>16. ASSUME NEW p \in Procs PROVE ProcOK(p)'
  <2>1. Cared(q)' /\ (Cared(p) => Cared(p)')
    BY <1>3, <1>6, <1>7, CaredTakes
  <2>2. CASE p = q
    BY <1>3, <1>4, <2>1, <2>2, SpareConstants DEF ProcOK
  <2>3. CASE p # q
    <3>1. p # None
      BY SpareConstants
    <3> QED BY <1>1, <1>3, <1>5, <1>6, <2>1, <2>3, <3>1, ProcFrame
  <2> QED BY <2>2, <2>3
<1> QED BY <1>8, <1>9, <1>10, <1>11, <1>12, <1>13, <1>14, <1>15, <1>16 DEF SpareInv

LEMMA StartFails ==
    ASSUME SpareInv, NEW c \in Calls, LaunchProcess(c), pc'[c] # "register"
    PROVE  SpareInv'
<1>1. /\ TypeOK /\ OneHand /\ CountOK /\ CloseOK
      /\ \A x \in Calls : CallOK(x) /\ SpareOK(x)
      /\ \A a \in Agents : SlotOK(a)
      /\ \A d \in discards : DiscardOK(d)
      /\ \A p \in Procs : ProcOK(p)
  BY DEF SpareInv
<1>2. /\ pc[c] = "cold" /\ pc' = [pc EXCEPT ![c] = "failed"]
      /\ agent' = agent /\ took' = took /\ want' = want /\ got' = got /\ wg' = wg
      /\ slot' = slot /\ refill' = refill /\ timer' = timer /\ record' = record
      /\ discards' = discards /\ closed' = closed /\ closing' = closing /\ toStop' = toStop
      /\ as' = as /\ alive' = alive /\ draining' = draining /\ ring' = ring
      /\ outlasted' = outlasted
  BY <1>1 DEF LaunchProcess, TypeOK, spareVars, closeVars, procVars
<1>3. pc'[c] = "failed" /\ \A x \in Calls \ {c} : pc'[x] = pc[x]
  BY <1>1, <1>2 DEF TypeOK
<1>4. StaysPut
  BY <1>2, <1>3, SameHands
<1>5. OneHand'
  BY <1>1, <1>4 DEF OneHand, StaysPut
<1>6. CountOK'
  <2>1. \A k, x : Waits(k, x)' <=> Waits(k, x)
    BY <1>2, <1>3 DEF Waits
  <2> QED BY <1>1, <1>2, <2>1, CountStays
<1>7. TypeOK'
  BY <1>1, <1>2 DEF TypeOK
<1>8. CloseOK'
  BY <1>1, <1>2 DEF CloseOK
<1>9. ASSUME NEW x \in Calls PROVE CallOK(x)'
  <2>1. CASE x = c
    BY <1>1, <1>2, <1>3, <2>1 DEF CallOK
  <2>2. CASE x # c
    BY <1>1, <1>2, <1>3, <2>2, CallFrame
  <2> QED BY <2>1, <2>2
<1>10. \A x \in Calls : SpareOK(x)'
  BY <1>1, <1>2 DEF SpareOK
<1>11. /\ \A a \in Agents : SlotOK(a)'
       /\ \A d \in discards' : DiscardOK(d)'
  BY <1>1, <1>2 DEF SlotOK, DiscardOK
<1>12. ASSUME NEW p \in Procs PROVE ProcOK(p)'
  <2>1. Cared(p) => Cared(p)'
    BY <1>2, <1>3, <1>4, CaredStays
  <2> QED BY <1>1, <1>2, <1>3, <2>1, ProcFrame
<1> QED BY <1>5, <1>6, <1>7, <1>8, <1>9, <1>10, <1>11, <1>12 DEF SpareInv

\* register: the record is what keeps the process accounted for.
LEMMA RegisterKeeps ==
    ASSUME SpareInv, NEW c \in Calls, Register(c)
    PROVE  SpareInv'
<1>1. /\ TypeOK /\ OneHand /\ CountOK /\ CloseOK
      /\ \A x \in Calls : CallOK(x) /\ SpareOK(x)
      /\ \A a \in Agents : SlotOK(a)
      /\ \A d \in discards : DiscardOK(d)
      /\ \A p \in Procs : ProcOK(p)
  BY DEF SpareInv
<1>2. PICK q : q = got[c]
  OBVIOUS
<1>3. /\ pc[c] = "register" /\ pc'[c] = (IF want[c].env THEN "returned" ELSE "refill")
      /\ pc' = [pc EXCEPT ![c] = pc'[c]]
      /\ record' = [record EXCEPT ![q] = "running"]
      /\ agent' = agent /\ took' = took /\ want' = want /\ got' = got /\ wg' = wg
      /\ slot' = slot /\ refill' = refill /\ timer' = timer
      /\ discards' = discards /\ closed' = closed /\ closing' = closing /\ toStop' = toStop
      /\ as' = as /\ alive' = alive /\ draining' = draining /\ ring' = ring
      /\ outlasted' = outlasted
  BY <1>1, <1>2 DEF Register, TypeOK, spareVars, closeVars, procVars
<1>4. q \in Procs /\ q # None /\ refill[c] = "none"
  <2>1. CallOK(c)
    BY <1>1
  <2>2. q \in Procs /\ refill[c] = "none"
    BY <1>2, <1>3, <2>1 DEF CallOK
  <2> QED BY <2>2, SpareConstants
<1>5. /\ \A x \in Calls \ {c} : pc'[x] = pc[x]
      /\ record'[q] = "running" /\ \A p \in Procs \ {q} : record'[p] = record[p]
      /\ pc'[c] \in {"returned", "refill"}
  BY <1>1, <1>3, <1>4 DEF TypeOK
<1>6. StaysPut
  BY <1>3, <1>5, SameHands
<1>7. OneHand'
  BY <1>1, <1>6 DEF OneHand, StaysPut
<1>8. \A x \in Calls \ {c} : got[x] # q
  BY <1>1, <1>2, <1>4 DEF OneHand, Holds
<1>9. CountOK'
  <2>1. \A k, x : Waits(k, x)' <=> Waits(k, x)
    BY <1>3, <1>5 DEF Waits
  <2> QED BY <1>1, <1>3, <2>1, CountStays
<1>10. TypeOK'
  <2>1. pc' \in [Calls -> {"new", "claim", "claimed", "cold", "register", "refill",
                          "returned", "failed"}]
    BY <1>1, <1>3, <1>5 DEF TypeOK
  <2> QED BY <1>1, <1>3, <1>4, <2>1 DEF TypeOK
<1>11. CloseOK'
  BY <1>1, <1>3 DEF CloseOK
<1>12. ASSUME NEW x \in Calls PROVE CallOK(x)'
  <2>1. CASE x = c
    <3>1. /\ got[c] \in Procs /\ as[got[c]] = want[c]
          /\ \/ got[c] = <<"own", c>>
             \/ \E sp \in Calls : got[c] = SpareOf(sp) /\ refill[sp] = "ready"
      BY <1>1, <1>3 DEF CallOK
    <3> QED BY <1>2, <1>3, <1>4, <1>5, <2>1, <3>1 DEF CallOK
  <2>2. CASE x # c
    <3>1. pc[x] = "refill" => got[x] \in Procs
      BY <1>1 DEF CallOK
    <3> QED BY <1>1, <1>3, <1>5, <1>8, <2>2, <3>1, CallFrame
  <2> QED BY <2>1, <2>2
<1>13. \A x \in Calls : SpareOK(x)'
  BY <1>1, <1>3 DEF SpareOK
<1>14. /\ \A a \in Agents : SlotOK(a)'
       /\ \A d \in discards' : DiscardOK(d)'
  BY <1>1, <1>3 DEF SlotOK, DiscardOK
<1>15. ASSUME NEW p \in Procs PROVE ProcOK(p)'
  <2>1. CASE p = q
    BY <1>2, <1>3, <1>4, <1>5, <2>1, SpareConstants DEF ProcOK
  <2>2. CASE p # q
    <3>1. Cared(p) => Cared(p)'
      BY <1>2, <1>5, <1>6, <2>2, CaredButFor
    <3> QED BY <1>1, <1>2, <1>3, <1>5, <2>2, <3>1, ProcFrame
  <2> QED BY <2>1, <2>2
<1> QED BY <1>7, <1>9, <1>10, <1>11, <1>12, <1>13, <1>14, <1>15 DEF SpareInv
-----------------------------------------------------------------------------
(* The refill and the idle timer.                                          *)

\* refillSpare: the slot is taken before there is a process to put into it.
LEMMA RefillStarts ==
    ASSUME SpareInv, NEW c \in Calls, RefillSpare(c), MayRefill(agent[c])
    PROVE  SpareInv'
<1>1. /\ TypeOK /\ OneHand /\ CountOK /\ CloseOK
      /\ \A x \in Calls : CallOK(x) /\ SpareOK(x)
      /\ \A a \in Agents : SlotOK(a)
      /\ \A d \in discards : DiscardOK(d)
      /\ \A p \in Procs : ProcOK(p)
  BY DEF SpareInv
<1>2. PICK a : a = agent[c]
  OBVIOUS
<1>3. a \in Agents /\ slot[a] = None /\ ~closed
  BY <1>1, <1>2 DEF TypeOK, MayRefill
<1>4. /\ pc[c] = "refill" /\ pc' = [pc EXCEPT ![c] = "returned"]
      /\ slot' = [slot EXCEPT ![a] = c] /\ refill' = [refill EXCEPT ![c] = "spawning"]
      /\ wg' = wg + 1
      /\ agent' = agent /\ took' = took /\ want' = want /\ got' = got
      /\ timer' = timer /\ record' = record
      /\ discards' = discards /\ closed' = closed /\ closing' = closing /\ toStop' = toStop
      /\ as' = as /\ alive' = alive /\ draining' = draining /\ ring' = ring
      /\ outlasted' = outlasted
  BY <1>2 DEF RefillSpare, closeVars, procVars
<1>5. refill[c] = "none" /\ c # None /\ ~want[c].env
      /\ got[c] \in Procs /\ record[got[c]] = "running"
  <2>1. CallOK(c)
    BY <1>1
  <2>2. refill[c] = "none" /\ ~want[c].env
        /\ got[c] \in Procs /\ record[got[c]] = "running"
    BY <1>4, <2>1 DEF CallOK
  <2> QED BY <2>2, SpareConstants
<1>6. /\ pc'[c] = "returned" /\ refill'[c] = "spawning"
      /\ \A x \in Calls \ {c} : pc'[x] = pc[x] /\ refill'[x] = refill[x]
      /\ slot'[a] = c /\ \A b \in Agents \ {a} : slot'[b] = slot[b]
  BY <1>1, <1>3, <1>4 DEF TypeOK
<1>7. \A x \in Calls \ {c} : slot'[agent[x]] = x <=> slot[agent[x]] = x
  BY <1>1, <1>3, <1>6, SpareConstants DEF TypeOK
<1>8. StaysPut
  <2> SUFFICES ASSUME NEW p, NEW k, NEW x PROVE Holds(p, k, x)' <=> Holds(p, k, x)
    BY DEF StaysPut
  <2>1. CASE x = c
    BY <1>4, <1>5, <1>6, <2>1 DEF Holds
  <2>2. CASE x # c
    BY <1>4, <1>6, <1>7, <2>2 DEF Holds
  <2> QED BY <2>1, <2>2
<1>9. OneHand'
  BY <1>1, <1>8 DEF OneHand, StaysPut
<1>10. CountOK'
  <2>1. \A k, x : Waits(k, x)' <=> Waits(k, x) \/ (k = "refill" /\ x = c)
    BY <1>4, <1>6 DEF Waits
  <2>2. ~Waits("refill", c)
    BY <1>5 DEF Waits
  <2> QED BY <1>1, <1>4, <2>1, <2>2, CountUp
<1>11. TypeOK'
  <2>1. wg' \in Nat
    BY <1>10, WgIsNat
  <2> QED BY <1>1, <1>3, <1>4, <2>1 DEF TypeOK
<1>12. CloseOK'
  BY <1>1, <1>3, <1>4 DEF CloseOK
<1>13. ASSUME NEW x \in Calls PROVE CallOK(x)'
  <2>1. CASE x = c
    <3>1. /\ got[c] \in Procs /\ as[got[c]] = want[c]
          /\ \/ got[c] = <<"own", c>>
             \/ \E sp \in Calls : got[c] = SpareOf(sp) /\ refill[sp] = "ready"
      BY <1>1, <1>4 DEF CallOK
    <3>2. \A sp \in Calls : refill[sp] = "ready" => refill'[sp] = "ready"
      BY <1>5, <1>6
    <3> QED BY <1>4, <1>5, <1>6, <2>1, <3>1, <3>2 DEF CallOK
  <2>2. CASE x # c
    <3>1. \A sp \in Calls : refill[sp] = "ready" => refill'[sp] = "ready"
      BY <1>5, <1>6
    <3> QED BY <1>1, <1>4, <1>6, <2>2, <3>1, CallFrame
  <2> QED BY <2>1, <2>2
<1>14. ASSUME NEW x \in Calls PROVE SpareOK(x)'
  <2>1. SpareOK(x) /\ agent[x] \in Agents
    BY <1>1 DEF TypeOK
  <2>2. CASE x = c
    BY <1>4, <1>5, <1>6, <2>1, <2>2 DEF SpareOK
  <2>3. CASE x # c
    <3>1. /\ refill'[x] = refill[x] /\ timer'[x] = timer[x] /\ (x \in toStop' <=> x \in toStop)
          /\ as'[SpareOf(x)] = as[SpareOf(x)] /\ agent'[x] = agent[x]
          /\ slot'[agent[x]] = x <=> slot[agent[x]] = x
      BY <1>4, <1>6, <1>7, <2>3
    <3> QED BY <2>1, <3>1 DEF SpareOK
  <2> QED BY <2>2, <2>3
<1>15. \A b \in Agents : SlotOK(b)'
  BY <1>1, <1>2, <1>4, <1>6 DEF SlotOK
<1>16. ASSUME NEW d \in discards' PROVE DiscardOK(d)'
  BY <1>1, <1>4, <1>5, <1>6, <1>16 DEF DiscardOK
<1>17. ASSUME NEW p \in Procs PROVE ProcOK(p)'
  <2>1. \A x \in Calls : pc[x] \in {"refill", "returned"} => pc'[x] \in {"refill", "returned"}
    BY <1>6
  <2>2. CASE p = got[c]
    BY <1>1, <1>4, <1>5, <1>6, <2>1, <2>2, SpareConstants DEF ProcOK
  <2>3. CASE p # got[c]
    <3>1. Cared(p) => Cared(p)'
      BY <1>6, <1>8, <2>3, CaredButFor
    <3> QED BY <1>1, <1>4, <2>1, <2>3, <3>1, ProcFrame
  <2> QED BY <2>2, <2>3
<1> QED BY <1>9, <1>10, <1>11, <1>12, <1>13, <1>14, <1>15, <1>16, <1>17 DEF SpareInv

LEMMA RefillSkips ==
    ASSUME SpareInv, NEW c \in Calls, RefillSpare(c), ~MayRefill(agent[c])
    PROVE  SpareInv'
<1>1. /\ TypeOK /\ OneHand /\ CountOK /\ CloseOK
      /\ \A x \in Calls : CallOK(x) /\ SpareOK(x)
      /\ \A a \in Agents : SlotOK(a)
      /\ \A d \in discards : DiscardOK(d)
      /\ \A p \in Procs : ProcOK(p)
  BY DEF SpareInv
<1>2. /\ pc[c] = "refill" /\ pc' = [pc EXCEPT ![c] = "returned"] /\ wg' = wg
      /\ slot' = slot /\ refill' = refill
      /\ agent' = agent /\ took' = took /\ want' = want /\ got' = got
      /\ timer' = timer /\ record' = record
      /\ discards' = discards /\ closed' = closed /\ closing' = closing /\ toStop' = toStop
      /\ as' = as /\ alive' = alive /\ draining' = draining /\ ring' = ring
      /\ outlasted' = outlasted
  BY DEF RefillSpare, closeVars, procVars
<1>3. refill[c] = "none" /\ got[c] \in Procs /\ record[got[c]] = "running"
  <2>1. CallOK(c)
    BY <1>1
  <2> QED BY <1>2, <2>1 DEF CallOK
<1>4. pc'[c] = "returned" /\ \A x \in Calls \ {c} : pc'[x] = pc[x]
  BY <1>1, <1>2 DEF TypeOK
<1>5. StaysPut
  BY <1>2, <1>4, SameHands
<1>6. OneHand'
  BY <1>1, <1>5 DEF OneHand, StaysPut
<1>7. CountOK'
  <2>1. \A k, x : Waits(k, x)' <=> Waits(k, x)
    BY <1>2, <1>4 DEF Waits
  <2> QED BY <1>1, <1>2, <2>1, CountStays
<1>8. TypeOK'
  BY <1>1, <1>2 DEF TypeOK
<1>9. CloseOK'
  BY <1>1, <1>2 DEF CloseOK
<1>10. ASSUME NEW x \in Calls PROVE CallOK(x)'
  <2>1. CASE x = c
    <3>1. /\ got[c] \in Procs /\ as[got[c]] = want[c]
          /\ \/ got[c] = <<"own", c>>
             \/ \E sp \in Calls : got[c] = SpareOf(sp) /\ refill[sp] = "ready"
      BY <1>1, <1>2 DEF CallOK
    <3> QED BY <1>2, <1>3, <1>4, <2>1, <3>1 DEF CallOK
  <2>2. CASE x # c
    BY <1>1, <1>2, <1>4, <2>2, CallFrame
  <2> QED BY <2>1, <2>2
<1>11. \A x \in Calls : SpareOK(x)'
  BY <1>1, <1>2 DEF SpareOK
<1>12. /\ \A a \in Agents : SlotOK(a)'
       /\ \A d \in discards' : DiscardOK(d)'
  BY <1>1, <1>2 DEF SlotOK, DiscardOK
<1>13. ASSUME NEW p \in Procs PROVE ProcOK(p)'
  <2>1. \A x \in Calls : pc[x] \in {"refill", "returned"} => pc'[x] \in {"refill", "returned"}
    BY <1>4
  <2>2. CASE p = got[c]
    BY <1>1, <1>2, <1>3, <2>1, <2>2, SpareConstants DEF ProcOK
  <2>3. CASE p # got[c]
    <3>1. Cared(p) => Cared(p)'
      BY <1>4, <1>5, <2>3, CaredButFor
    <3> QED BY <1>1, <1>2, <2>1, <2>3, <3>1, ProcFrame
  <2> QED BY <2>2, <2>3
<1> QED BY <1>6, <1>7, <1>8, <1>9, <1>10, <1>11, <1>12, <1>13 DEF SpareInv

\* The goroutine of refillSpare, when the process starts.
LEMMA RefillSpawns ==
    ASSUME SpareInv, NEW sp \in Calls, RefillSpawn(sp), refill'[sp] = "spawned"
    PROVE  SpareInv'
<1>1. /\ TypeOK /\ OneHand /\ CountOK /\ CloseOK
      /\ \A x \in Calls : CallOK(x) /\ SpareOK(x)
      /\ \A a \in Agents : SlotOK(a)
      /\ \A d \in discards : DiscardOK(d)
      /\ \A p \in Procs : ProcOK(p)
  BY DEF SpareInv
<1>2. PICK q : q = SpareOf(sp)
  OBVIOUS
<1>3. PICK how : how = [want[sp] EXCEPT !.env = FALSE]
  OBVIOUS
<1>4. /\ refill[sp] = "spawning" /\ refill' = [refill EXCEPT ![sp] = "spawned"]
      /\ as' = [as EXCEPT ![q] = how]
      /\ alive' = alive \cup {q} /\ draining' = draining \cup {q}
      /\ pc' = pc /\ got' = got
      /\ agent' = agent /\ want' = want /\ took' = took /\ wg' = wg
      /\ slot' = slot /\ timer' = timer /\ record' = record
      /\ discards' = discards /\ closed' = closed /\ closing' = closing /\ toStop' = toStop
      /\ ring' = ring /\ outlasted' = outlasted
  BY <1>1, <1>2, <1>3 DEF RefillSpawn, Spawned, TypeOK, callVars, closeVars, procVars
<1>5. /\ \A k, x : ~Holds(q, k, x)
      /\ \A x \in Calls : got[x] # q
      /\ q \in Procs /\ record[q] = None
  BY <1>2, <1>4, NobodyYet
<1>6. how \in LaunchedAs \cup {NotLaunched} /\ how.env = FALSE
  <2>1. want[sp] \in LaunchedAs \cup {NotLaunched}
    BY <1>1 DEF TypeOK
  <2> QED BY <1>3, <2>1, DaemonEnv
<1>7. /\ refill'[sp] = "spawned" /\ as'[q] = how
      /\ \A x \in Calls \ {sp} : refill'[x] = refill[x]
      /\ \A p \in Procs \ {q} : as'[p] = as[p]
      /\ \A x \in Calls \ {sp} : as'[SpareOf(x)] = as[SpareOf(x)]
  <2>1. \A x \in Calls \ {sp} : SpareOf(x) \in Procs /\ SpareOf(x) # q
    BY <1>2, SpareNames DEF Procs, SpareOf
  <2> QED BY <1>1, <1>4, <1>5, <2>1 DEF TypeOK
<1>8. Takes(q, "refill", sp)
  <2> SUFFICES ASSUME NEW p, NEW k, NEW x
               PROVE  Holds(p, k, x)' <=>
                          Holds(p, k, x) \/ (p = q /\ k = "refill" /\ x = sp)
    BY DEF Takes
  <2> QED BY <1>2, <1>4, <1>7 DEF Holds
<1>9. OneHand'
  BY <1>1, <1>5, <1>8, HandsTake
<1>10. CountOK'
  <2>1. \A k, x : Waits(k, x)' <=> Waits(k, x)
    BY <1>4, <1>7 DEF Waits
  <2> QED BY <1>1, <1>4, <2>1, CountStays
<1>11. TypeOK'
  <2>1. as' \in [Procs -> LaunchedAs \cup {NotLaunched}]
    BY <1>1, <1>4, <1>5, <1>6 DEF TypeOK
  <2> QED BY <1>1, <1>4, <1>5, <2>1 DEF TypeOK
<1>12. CloseOK'
  BY <1>1, <1>4 DEF CloseOK
<1>13. \A x \in Calls : refill[x] = "ready" => refill'[x] = "ready"
  BY <1>4, <1>7
<1>14. ASSUME NEW x \in Calls PROVE CallOK(x)'
  <2>1. CallOK(x) /\ got[x] # q
    BY <1>1, <1>5
  <2>2. CASE x = sp
    <3>1. pc[sp] = "returned" /\ ~want[sp].env
      BY <1>4, <2>1, <2>2 DEF CallOK
    <3>2. /\ got[sp] \in Procs /\ as[got[sp]] = want[sp]
          /\ \/ got[sp] = <<"own", sp>>
             \/ \E y \in Calls : got[sp] = SpareOf(y) /\ refill[y] = "ready"
      BY <2>1, <2>2, <3>1 DEF CallOK
    <3>3. as'[got[sp]] = want[sp]
      BY <1>7, <2>1, <2>2, <3>2
    <3>4. \/ got[sp] = <<"own", sp>>
          \/ \E y \in Calls : got[sp] = SpareOf(y) /\ refill'[y] = "ready"
      BY <1>13, <3>2
    <3> QED BY <1>4, <2>2, <3>1, <3>2, <3>3, <3>4 DEF CallOK
  <2>3. CASE x # sp
    BY <1>4, <1>7, <1>13, <2>1, <2>3, CallFrame
  <2> QED BY <2>2, <2>3
<1>15. ASSUME NEW x \in Calls PROVE SpareOK(x)'
  <2>1. SpareOK(x)
    BY <1>1
  <2>2. CASE x = sp
    BY <1>2, <1>4, <1>6, <1>7, <2>1, <2>2 DEF SpareOK
  <2>3. CASE x # sp
    BY <1>4, <1>7, <2>1, <2>3 DEF SpareOK
  <2> QED BY <2>2, <2>3
<1>16. \A a \in Agents : SlotOK(a)'
  BY <1>1, <1>4 DEF SlotOK
<1>17. ASSUME NEW d \in discards' PROVE DiscardOK(d)'
  <2>1. DiscardOK(d) /\ d.proc # q
    BY <1>1, <1>4, <1>5, <1>17 DEF Holds
  <2> QED BY <1>4, <1>7, <2>1 DEF DiscardOK
<1>18. ASSUME NEW p \in Procs PROVE ProcOK(p)'
  <2>1. Cared(q)' /\ (Cared(p) => Cared(p)')
    BY <1>4, <1>8, CaredTakes
  <2>2. CASE p = q
    BY <1>4, <1>5, <2>1, <2>2, SpareConstants DEF ProcOK
  <2>3. CASE p # q
    BY <1>1, <1>4, <2>1, <2>3, ProcFrame
  <2> QED BY <2>2, <2>3
<1> QED BY <1>9, <1>10, <1>11, <1>12, <1>14, <1>15, <1>16, <1>17, <1>18 DEF SpareInv

LEMMA RefillSpawnFails ==
    ASSUME SpareInv, NEW sp \in Calls, RefillSpawn(sp), refill'[sp] # "spawned"
    PROVE  SpareInv'
<1>1. /\ TypeOK /\ OneHand /\ CountOK /\ CloseOK
      /\ \A x \in Calls : CallOK(x) /\ SpareOK(x)
      /\ \A a \in Agents : SlotOK(a)
      /\ \A d \in discards : DiscardOK(d)
      /\ \A p \in Procs : ProcOK(p)
  BY DEF SpareInv
<1>2. /\ refill[sp] = "spawning" /\ refill' = [refill EXCEPT ![sp] = "failed"]
      /\ pc' = pc /\ got' = got
      /\ agent' = agent /\ want' = want /\ took' = took /\ wg' = wg
      /\ slot' = slot /\ timer' = timer /\ record' = record
      /\ discards' = discards /\ closed' = closed /\ closing' = closing /\ toStop' = toStop
      /\ as' = as /\ alive' = alive /\ draining' = draining /\ ring' = ring
      /\ outlasted' = outlasted
  BY <1>1 DEF RefillSpawn, TypeOK, callVars, closeVars, procVars
<1>3. refill'[sp] = "failed" /\ \A x \in Calls \ {sp} : refill'[x] = refill[x]
  BY <1>1, <1>2 DEF TypeOK
<1>4. StaysPut
  BY <1>2, <1>3, SameHands
<1>5. OneHand'
  BY <1>1, <1>4 DEF OneHand, StaysPut
<1>6. CountOK'
  <2>1. \A k, x : Waits(k, x)' <=> Waits(k, x)
    BY <1>2, <1>3 DEF Waits
  <2> QED BY <1>1, <1>2, <2>1, CountStays
<1>7. TypeOK'
  BY <1>1, <1>2 DEF TypeOK
<1>8. CloseOK'
  BY <1>1, <1>2 DEF CloseOK
<1>9. \A x \in Calls : refill[x] = "ready" => refill'[x] = "ready"
  BY <1>2, <1>3
<1>10. ASSUME NEW x \in Calls PROVE CallOK(x)'
  <2>1. CASE x = sp
    <3>1. pc[sp] = "returned" /\ ~want[sp].env
      BY <1>1, <1>2 DEF CallOK
    <3>2. /\ got[sp] \in Procs /\ as[got[sp]] = want[sp]
          /\ \/ got[sp] = <<"own", sp>>
             \/ \E y \in Calls : got[sp] = SpareOf(y) /\ refill[y] = "ready"
      BY <1>1, <3>1 DEF CallOK
    <3> QED BY <1>2, <1>3, <1>9, <2>1, <3>1, <3>2 DEF CallOK
  <2>2. CASE x # sp
    BY <1>1, <1>2, <1>3, <1>9, <2>2, CallFrame
  <2> QED BY <2>1, <2>2
<1>11. \A x \in Calls : SpareOK(x)'
  BY <1>1, <1>2, <1>3 DEF SpareOK
<1>12. /\ \A a \in Agents : SlotOK(a)'
       /\ \A d \in discards' : DiscardOK(d)'
  BY <1>1, <1>2, <1>3 DEF SlotOK, DiscardOK
<1>13. ASSUME NEW p \in Procs PROVE ProcOK(p)'
  <2>1. Cared(p) => Cared(p)'
    BY <1>2, <1>4, CaredStays
  <2> QED BY <1>1, <1>2, <2>1, ProcFrame
<1> QED BY <1>5, <1>6, <1>7, <1>8, <1>10, <1>11, <1>12, <1>13 DEF SpareInv
\* The section after spawn: the process goes into the slot it was booted for.
LEMMA RefillPublishes ==
    ASSUME SpareInv, NEW sp \in Calls, RefillPublish(sp), Publishes(sp)
    PROVE  SpareInv'
<1>1. /\ TypeOK /\ OneHand /\ CountOK /\ CloseOK
      /\ \A x \in Calls : CallOK(x) /\ SpareOK(x)
      /\ \A a \in Agents : SlotOK(a)
      /\ \A d \in discards : DiscardOK(d)
      /\ \A p \in Procs : ProcOK(p)
  BY DEF SpareInv
<1>2. /\ refill[sp] = "spawned" /\ refill' = [refill EXCEPT ![sp] = "ready"]
      /\ timer' = [timer EXCEPT ![sp] = "armed"] /\ wg' = wg - 1
      /\ slot[agent[sp]] = sp
      /\ pc' = pc /\ got' = got /\ slot' = slot
      /\ agent' = agent /\ want' = want /\ took' = took /\ record' = record
      /\ discards' = discards /\ closed' = closed /\ closing' = closing /\ toStop' = toStop
      /\ as' = as /\ alive' = alive /\ draining' = draining /\ ring' = ring
      /\ outlasted' = outlasted
  BY DEF RefillPublish, Publishes, callVars, closeVars, procVars
<1>3. /\ refill'[sp] = "ready" /\ \A x \in Calls \ {sp} : refill'[x] = refill[x]
      /\ \A x \in Calls \ {sp} : timer'[x] = timer[x]
  BY <1>1, <1>2 DEF TypeOK
<1>4. Holds(SpareOf(sp), "refill", sp)
  BY <1>2 DEF Holds
<1>5. Passes(SpareOf(sp), "refill", sp, "slot", sp)
  <2> SUFFICES ASSUME NEW p, NEW k, NEW x
               PROVE  Holds(p, k, x)' <=>
                          \/ Holds(p, k, x) /\ ~(p = SpareOf(sp) /\ k = "refill" /\ x = sp)
                          \/ p = SpareOf(sp) /\ k = "slot" /\ x = sp
    BY DEF Passes
  <2>1. CASE x = sp
    BY <1>2, <1>3, <2>1 DEF Holds
  <2>2. CASE x # sp
    BY <1>2, <1>3, <2>2 DEF Holds
  <2> QED BY <2>1, <2>2
<1>6. OneHand'
  BY <1>1, <1>4, <1>5, HandsMove
<1>7. CountOK'
  <2>1. \A k, x : Waits(k, x)' <=> Waits(k, x) /\ ~(k = "refill" /\ x = sp)
    BY <1>2, <1>3 DEF Waits
  <2>2. Waits("refill", sp)
    BY <1>2 DEF Waits
  <2> QED BY <1>1, <1>2, <2>1, <2>2, CountDown
<1>8. TypeOK'
  <2>1. wg' \in Nat
    BY <1>7, WgIsNat
  <2> QED BY <1>1, <1>2, <2>1 DEF TypeOK
<1>9. CloseOK'
  <2>1. wg \in Nat /\ wg' \in Nat
    BY <1>1, <1>8 DEF TypeOK
  <2> QED BY <1>1, <1>2, <2>1 DEF CloseOK
<1>10. \A x \in Calls : refill[x] = "ready" => refill'[x] = "ready"
  BY <1>2, <1>3
<1>11. ASSUME NEW x \in Calls PROVE CallOK(x)'
  <2>1. CASE x = sp
    <3>1. pc[sp] = "returned" /\ ~want[sp].env
      BY <1>1, <1>2 DEF CallOK
    <3>2. /\ got[sp] \in Procs /\ as[got[sp]] = want[sp]
          /\ \/ got[sp] = <<"own", sp>>
             \/ \E y \in Calls : got[sp] = SpareOf(y) /\ refill[y] = "ready"
      BY <1>1, <3>1 DEF CallOK
    <3> QED BY <1>2, <1>10, <2>1, <3>1, <3>2 DEF CallOK
  <2>2. CASE x # sp
    BY <1>1, <1>2, <1>3, <1>10, <2>2, CallFrame
  <2> QED BY <2>1, <2>2
<1>12. ASSUME NEW x \in Calls PROVE SpareOK(x)'
  <2>1. SpareOK(x)
    BY <1>1
  <2>2. CASE x = sp
    BY <1>2, <1>3, <2>1, <2>2 DEF SpareOK
  <2>3. CASE x # sp
    BY <1>2, <1>3, <2>1, <2>3 DEF SpareOK
  <2> QED BY <2>2, <2>3
<1>13. /\ \A a \in Agents : SlotOK(a)'
       /\ \A d \in discards' : DiscardOK(d)'
  BY <1>1, <1>2, <1>3 DEF SlotOK, DiscardOK
<1>14. ASSUME NEW p \in Procs PROVE ProcOK(p)'
  <2>1. Cared(p) => Cared(p)'
    BY <1>2, <1>5, CaredMoves
  <2> QED BY <1>1, <1>2, <2>1, ProcFrame
<1> QED BY <1>6, <1>7, <1>8, <1>9, <1>11, <1>12, <1>13, <1>14 DEF SpareInv

\* The slot a refill gives back, when it is still its own.
LEMMA SlotGivenUp ==
    ASSUME TypeOK, NEW sp \in Calls,
           slot' = IF slot[agent[sp]] = sp THEN [slot EXCEPT ![agent[sp]] = None] ELSE slot
    PROVE  /\ slot' \in [Agents -> Calls \cup {None}]
           /\ \A a \in Agents : slot'[a] = slot[a] \/ slot'[a] = None
           /\ \A x \in Calls : slot'[agent[x]] = x <=> slot[agent[x]] = x /\ x # sp
<1>1. agent[sp] \in Agents /\ slot \in [Agents -> Calls \cup {None}]
  BY DEF TypeOK
<1>2. CASE slot[agent[sp]] = sp
  BY <1>1, <1>2, SpareConstants DEF TypeOK
<1>3. CASE slot[agent[sp]] # sp
  BY <1>1, <1>3
<1> QED BY <1>2, <1>3

\* The section after spawn, when the spare was closed or replaced meanwhile.
LEMMA RefillDiscards ==
    ASSUME SpareInv, NEW sp \in Calls, RefillPublish(sp),
           refill[sp] = "spawned", ~Publishes(sp)
    PROVE  SpareInv'
<1>1. /\ TypeOK /\ OneHand /\ CountOK /\ CloseOK
      /\ \A x \in Calls : CallOK(x) /\ SpareOK(x)
      /\ \A a \in Agents : SlotOK(a)
      /\ \A d \in discards : DiscardOK(d)
      /\ \A p \in Procs : ProcOK(p)
  BY DEF SpareInv
<1>2. PICK d : d = [proc |-> SpareOf(sp), by |-> "refill", at |-> "stop"]
  OBVIOUS
<1>3. /\ refill' = [refill EXCEPT ![sp] = "gone"] /\ discards' = discards \cup {d}
      /\ slot' = IF slot[agent[sp]] = sp THEN [slot EXCEPT ![agent[sp]] = None] ELSE slot
      /\ wg' = wg /\ timer' = timer
      /\ pc' = pc /\ got' = got
      /\ agent' = agent /\ want' = want /\ took' = took /\ record' = record
      /\ closed' = closed /\ closing' = closing /\ toStop' = toStop
      /\ as' = as /\ alive' = alive /\ draining' = draining /\ ring' = ring
      /\ outlasted' = outlasted
  BY <1>2 DEF RefillPublish, callVars, closeVars, procVars
<1>4. /\ slot' \in [Agents -> Calls \cup {None}]
      /\ \A a \in Agents : slot'[a] = slot[a] \/ slot'[a] = None
      /\ \A x \in Calls : slot'[agent[x]] = x <=> slot[agent[x]] = x /\ x # sp
  BY <1>1, <1>3, SlotGivenUp
<1>5. /\ refill'[sp] = "gone" /\ \A x \in Calls \ {sp} : refill'[x] = refill[x]
      /\ d.proc = SpareOf(sp) /\ d.by = "refill" /\ d.at = "stop"
      /\ SpareOf(sp) \in Procs
  BY <1>1, <1>2, <1>3 DEF TypeOK, Procs, SpareOf
<1>6. Holds(SpareOf(sp), "refill", sp)
  BY DEF Holds
<1>7. Passes(SpareOf(sp), "refill", sp, "discard", d)
  <2> SUFFICES ASSUME NEW p, NEW k, NEW x
               PROVE  Holds(p, k, x)' <=>
                          \/ Holds(p, k, x) /\ ~(p = SpareOf(sp) /\ k = "refill" /\ x = sp)
                          \/ p = SpareOf(sp) /\ k = "discard" /\ x = d
    BY DEF Passes
  <2>1. CASE x = sp
    BY <1>3, <1>4, <1>5, <2>1 DEF Holds
  <2>2. CASE x # sp
    BY <1>3, <1>4, <1>5, <2>2 DEF Holds
  <2> QED BY <2>1, <2>2
<1>8. OneHand'
  BY <1>1, <1>6, <1>7, HandsMove
<1>9. CountOK'
  <2>1. \A k, x : Waits(k, x)' <=>
            (Waits(k, x) /\ ~(k = "refill" /\ x = sp)) \/ (k = "discard" /\ x = d)
    BY <1>3, <1>5 DEF Waits
  <2>2. Waits("refill", sp)
    BY DEF Waits
  <2>3. d \notin discards
    BY <1>1, <1>5, <1>6 DEF OneHand, Holds
  <2>4. ~Waits("discard", d)
    BY <2>3 DEF Waits
  <2> QED BY <1>1, <1>3, <2>1, <2>2, <2>4, CountSwap
<1>10. TypeOK'
  <2>1. d \in [proc : Procs, by : {"claim", "refill", "timer", "close"},
              at : {"stop", "drain"}]
    BY <1>2, <1>5
  <2> QED BY <1>1, <1>3, <1>4, <2>1, ZenonT(30) DEF TypeOK
<1>11. CloseOK'
  BY <1>1, <1>3, <1>4, <1>5 DEF CloseOK
<1>12. \A x \in Calls : refill[x] = "ready" => refill'[x] = "ready"
  BY <1>3, <1>5
<1>13. ASSUME NEW x \in Calls PROVE CallOK(x)'
  <2>1. CASE x = sp
    <3>1. pc[sp] = "returned" /\ ~want[sp].env
      BY <1>1 DEF CallOK
    <3>2. /\ got[sp] \in Procs /\ as[got[sp]] = want[sp]
          /\ \/ got[sp] = <<"own", sp>>
             \/ \E y \in Calls : got[sp] = SpareOf(y) /\ refill[y] = "ready"
      BY <1>1, <3>1 DEF CallOK
    <3> QED BY <1>3, <1>12, <2>1, <3>1, <3>2 DEF CallOK
  <2>2. CASE x # sp
    BY <1>1, <1>3, <1>5, <1>12, <2>2, CallFrame
  <2> QED BY <2>1, <2>2
<1>14. ASSUME NEW x \in Calls PROVE SpareOK(x)'
  <2>1. SpareOK(x)
    BY <1>1
  <2>2. CASE x = sp
    BY <1>3, <1>4, <1>5, <2>1, <2>2 DEF SpareOK
  <2>3. CASE x # sp
    BY <1>3, <1>4, <1>5, <2>1, <2>3 DEF SpareOK
  <2> QED BY <2>2, <2>3
<1>15. \A a \in Agents : SlotOK(a)'
  BY <1>1, <1>3, <1>4 DEF SlotOK
<1>16. ASSUME NEW e \in discards' PROVE DiscardOK(e)'
  <2>1. CASE e = d
    BY <1>5, <2>1 DEF DiscardOK
  <2>2. CASE e \in discards
    <3>1. DiscardOK(e)
      BY <1>1, <2>2
    <3> QED BY <1>3, <1>5, <1>12, <3>1 DEF DiscardOK
  <2> QED BY <1>3, <1>16, <2>1, <2>2
<1>17. ASSUME NEW p \in Procs PROVE ProcOK(p)'
  <2>1. Cared(p) => Cared(p)'
    BY <1>3, <1>7, CaredMoves
  <2> QED BY <1>1, <1>3, <2>1, ProcFrame
<1> QED BY <1>8, <1>9, <1>10, <1>11, <1>13, <1>14, <1>15, <1>16, <1>17 DEF SpareInv

\* The section after a spawn that failed.
LEMMA RefillGivesUp ==
    ASSUME SpareInv, NEW sp \in Calls, RefillPublish(sp), refill[sp] = "failed"
    PROVE  SpareInv'
<1>1. /\ TypeOK /\ OneHand /\ CountOK /\ CloseOK
      /\ \A x \in Calls : CallOK(x) /\ SpareOK(x)
      /\ \A a \in Agents : SlotOK(a)
      /\ \A d \in discards : DiscardOK(d)
      /\ \A p \in Procs : ProcOK(p)
  BY DEF SpareInv
<1>2. /\ refill' = [refill EXCEPT ![sp] = "gone"] /\ discards' = discards
      /\ slot' = IF slot[agent[sp]] = sp THEN [slot EXCEPT ![agent[sp]] = None] ELSE slot
      /\ wg' = wg - 1 /\ timer' = timer
      /\ pc' = pc /\ got' = got
      /\ agent' = agent /\ want' = want /\ took' = took /\ record' = record
      /\ closed' = closed /\ closing' = closing /\ toStop' = toStop
      /\ as' = as /\ alive' = alive /\ draining' = draining /\ ring' = ring
      /\ outlasted' = outlasted
  BY DEF RefillPublish, Publishes, callVars, closeVars, procVars
<1>3. /\ slot' \in [Agents -> Calls \cup {None}]
      /\ \A a \in Agents : slot'[a] = slot[a] \/ slot'[a] = None
      /\ \A x \in Calls : slot'[agent[x]] = x <=> slot[agent[x]] = x /\ x # sp
  BY <1>1, <1>2, SlotGivenUp
<1>4. refill'[sp] = "gone" /\ \A x \in Calls \ {sp} : refill'[x] = refill[x]
  BY <1>1, <1>2 DEF TypeOK
<1>5. StaysPut
  <2> SUFFICES ASSUME NEW p, NEW k, NEW x PROVE Holds(p, k, x)' <=> Holds(p, k, x)
    BY DEF StaysPut
  <2>1. CASE x = sp
    BY <1>2, <1>3, <1>4, <2>1 DEF Holds
  <2>2. CASE x # sp
    BY <1>2, <1>3, <1>4, <2>2 DEF Holds
  <2> QED BY <2>1, <2>2
<1>6. OneHand'
  BY <1>1, <1>5 DEF OneHand, StaysPut
<1>7. CountOK'
  <2>1. \A k, x : Waits(k, x)' <=> Waits(k, x) /\ ~(k = "refill" /\ x = sp)
    BY <1>2, <1>4 DEF Waits
  <2>2. Waits("refill", sp)
    BY DEF Waits
  <2> QED BY <1>1, <1>2, <2>1, <2>2, CountDown
<1>8. TypeOK'
  <2>1. wg' \in Nat
    BY <1>7, WgIsNat
  <2> QED BY <1>1, <1>2, <1>3, <2>1 DEF TypeOK
<1>9. CloseOK'
  <2>1. wg \in Nat /\ wg' \in Nat
    BY <1>1, <1>8 DEF TypeOK
  <2> QED BY <1>1, <1>2, <1>3, <2>1 DEF CloseOK
<1>10. \A x \in Calls : refill[x] = "ready" => refill'[x] = "ready"
  BY <1>4
<1>11. ASSUME NEW x \in Calls PROVE CallOK(x)'
  <2>1. CASE x = sp
    <3>1. pc[sp] = "returned" /\ ~want[sp].env
      BY <1>1 DEF CallOK
    <3>2. /\ got[sp] \in Procs /\ as[got[sp]] = want[sp]
          /\ \/ got[sp] = <<"own", sp>>
             \/ \E y \in Calls : got[sp] = SpareOf(y) /\ refill[y] = "ready"
      BY <1>1, <3>1 DEF CallOK
    <3> QED BY <1>2, <1>10, <2>1, <3>1, <3>2 DEF CallOK
  <2>2. CASE x # sp
    BY <1>1, <1>2, <1>4, <1>10, <2>2, CallFrame
  <2> QED BY <2>1, <2>2
<1>12. ASSUME NEW x \in Calls PROVE SpareOK(x)'
  <2>1. SpareOK(x)
    BY <1>1
  <2>2. CASE x = sp
    BY <1>2, <1>3, <1>4, <2>1, <2>2 DEF SpareOK
  <2>3. CASE x # sp
    BY <1>2, <1>3, <1>4, <2>1, <2>3 DEF SpareOK
  <2> QED BY <2>2, <2>3
<1>13. /\ \A a \in Agents : SlotOK(a)'
       /\ \A d \in discards' : DiscardOK(d)'
  BY <1>1, <1>2, <1>3, <1>10, <1>4 DEF SlotOK, DiscardOK
<1>14. ASSUME NEW p \in Procs PROVE ProcOK(p)'
  <2>1. Cared(p) => Cared(p)'
    BY <1>2, <1>5, CaredStays
  <2> QED BY <1>1, <1>2, <2>1, ProcFrame
<1> QED BY <1>6, <1>7, <1>8, <1>9, <1>11, <1>12, <1>13, <1>14 DEF SpareInv

\* What moves nobody's hands, no count, no call and no process.
LEMMA TimerQuiet ==
    ASSUME SpareInv, NEW sp \in Calls, timer[sp] # "off",
           timer' \in [Calls -> {"off", "armed", "fired"}],
           \A x \in Calls : timer'[x] # "off" => timer[x] # "off",
           UNCHANGED <<callVars, slot, refill, wg, closeVars, procVars, discards, record>>
    PROVE  SpareInv'
<1>1. /\ TypeOK /\ OneHand /\ CountOK /\ CloseOK
      /\ \A x \in Calls : CallOK(x) /\ SpareOK(x)
      /\ \A a \in Agents : SlotOK(a)
      /\ \A d \in discards : DiscardOK(d)
      /\ \A p \in Procs : ProcOK(p)
  BY DEF SpareInv
<1>2. /\ pc' = pc /\ got' = got /\ wg' = wg /\ slot' = slot /\ refill' = refill
      /\ agent' = agent /\ want' = want /\ took' = took /\ record' = record
      /\ discards' = discards /\ closed' = closed /\ closing' = closing /\ toStop' = toStop
      /\ as' = as /\ alive' = alive /\ draining' = draining /\ ring' = ring
      /\ outlasted' = outlasted
  BY DEF callVars, closeVars, procVars
<1>3. StaysPut
  BY <1>2, SameHands
<1>4. OneHand'
  BY <1>1, <1>3 DEF OneHand, StaysPut
<1>5. CountOK'
  <2>1. \A k, x : Waits(k, x)' <=> Waits(k, x)
    BY <1>2 DEF Waits
  <2> QED BY <1>1, <1>2, <2>1, CountStays
<1>6. TypeOK'
  BY <1>1, <1>2 DEF TypeOK
<1>7. CloseOK'
  BY <1>1, <1>2 DEF CloseOK
<1>8. \A x \in Calls : CallOK(x)'
  BY <1>1, <1>2, CallFrame
<1>9. \A x \in Calls : SpareOK(x)'
  BY <1>1, <1>2 DEF SpareOK
<1>10. /\ \A a \in Agents : SlotOK(a)'
      /\ \A d \in discards' : DiscardOK(d)'
  BY <1>1, <1>2 DEF SlotOK, DiscardOK
<1>11. ASSUME NEW p \in Procs PROVE ProcOK(p)'
  <2>1. Cared(p) => Cared(p)'
    BY <1>2, <1>3, CaredStays
  <2> QED BY <1>1, <1>2, <2>1, ProcFrame
<1> QED BY <1>4, <1>5, <1>6, <1>7, <1>8, <1>9, <1>10, <1>11 DEF SpareInv

LEMMA TimerFiresKeeps ==
    ASSUME SpareInv, NEW sp \in Calls, TimerFires(sp)
    PROVE  SpareInv'
<1>1. TypeOK
  BY DEF SpareInv
<1>2. timer' = [timer EXCEPT ![sp] = "fired"] /\ timer[sp] # "off"
  BY DEF TimerFires
<1>3. /\ timer' \in [Calls -> {"off", "armed", "fired"}]
      /\ \A x \in Calls : timer'[x] # "off" => timer[x] # "off"
  BY <1>1, <1>2 DEF TypeOK
<1> QED BY <1>2, <1>3, TimerQuiet DEF TimerFires

LEMMA ExpiresTooLate ==
    ASSUME SpareInv, NEW sp \in Calls, TimerExpires(sp), ~StillIdle(sp)
    PROVE  SpareInv'
<1>1. TypeOK
  BY DEF SpareInv
<1>2. timer' = [timer EXCEPT ![sp] = "off"] /\ timer[sp] # "off"
  BY DEF TimerExpires
<1>3. /\ timer' \in [Calls -> {"off", "armed", "fired"}]
      /\ \A x \in Calls : timer'[x] # "off" => timer[x] # "off"
  BY <1>1, <1>2 DEF TypeOK
<1> QED BY <1>2, <1>3, TimerQuiet DEF TimerExpires

\* The callback of the idle timer, when the spare is still in its slot.
LEMMA IdleDiscards ==
    ASSUME SpareInv, NEW sp \in Calls, TimerExpires(sp), StillIdle(sp)
    PROVE  SpareInv'
<1>1. /\ TypeOK /\ OneHand /\ CountOK /\ CloseOK
      /\ \A x \in Calls : CallOK(x) /\ SpareOK(x)
      /\ \A a \in Agents : SlotOK(a)
      /\ \A d \in discards : DiscardOK(d)
      /\ \A p \in Procs : ProcOK(p)
  BY DEF SpareInv
<1>2. PICK d : d = [proc |-> SpareOf(sp), by |-> "timer", at |-> "stop"]
  OBVIOUS
<1>3. /\ slot' = [slot EXCEPT ![agent[sp]] = None] /\ slot[agent[sp]] = sp
      /\ timer[sp] # "off" /\ timer' = [timer EXCEPT ![sp] = "off"]
      /\ wg' = wg + 1 /\ discards' = discards \cup {d}
      /\ pc' = pc /\ got' = got /\ refill' = refill
      /\ agent' = agent /\ want' = want /\ took' = took /\ record' = record
      /\ closed' = closed /\ closing' = closing /\ toStop' = toStop
      /\ as' = as /\ alive' = alive /\ draining' = draining /\ ring' = ring
      /\ outlasted' = outlasted
  BY <1>2 DEF TimerExpires, StillIdle, callVars, closeVars, procVars
<1>4. /\ slot' \in [Agents -> Calls \cup {None}]
      /\ \A a \in Agents : slot'[a] = slot[a] \/ slot'[a] = None
      /\ \A x \in Calls : slot'[agent[x]] = x <=> slot[agent[x]] = x /\ x # sp
  BY <1>1, <1>3, SlotGivenUp
<1>5. /\ refill[sp] = "ready" /\ SpareOf(sp) \in Procs
      /\ d.proc = SpareOf(sp) /\ d.by = "timer" /\ d.at = "stop"
      /\ \A x \in Calls : timer'[x] # "off" => timer[x] # "off"
  <2>1. refill[sp] = "ready"
    BY <1>1, <1>3 DEF SpareOK
  <2> QED BY <1>1, <1>2, <1>3, <2>1 DEF TypeOK, Procs, SpareOf
<1>6. Holds(SpareOf(sp), "slot", sp)
  BY <1>3, <1>5 DEF Holds
<1>7. Passes(SpareOf(sp), "slot", sp, "discard", d)
  <2> SUFFICES ASSUME NEW p, NEW k, NEW x
               PROVE  Holds(p, k, x)' <=>
                          \/ Holds(p, k, x) /\ ~(p = SpareOf(sp) /\ k = "slot" /\ x = sp)
                          \/ p = SpareOf(sp) /\ k = "discard" /\ x = d
    BY DEF Passes
  <2>1. CASE x = sp
    BY <1>3, <1>4, <1>5, <2>1 DEF Holds
  <2>2. CASE x # sp
    BY <1>3, <1>4, <1>5, <2>2 DEF Holds
  <2> QED BY <2>1, <2>2
<1>8. OneHand'
  BY <1>1, <1>6, <1>7, HandsMove
<1>9. CountOK'
  <2>1. \A k, x : Waits(k, x)' <=> Waits(k, x) \/ (k = "discard" /\ x = d)
    BY <1>3, <1>5 DEF Waits
  <2>2. d \notin discards
    BY <1>1, <1>5, <1>6 DEF OneHand, Holds
  <2>3. ~Waits("discard", d)
    BY <2>2 DEF Waits
  <2> QED BY <1>1, <1>3, <2>1, <2>3, CountUp
<1>10. TypeOK'
  <2>1. d \in [proc : Procs, by : {"claim", "refill", "timer", "close"},
              at : {"stop", "drain"}]
    BY <1>2, <1>5
  <2>2. wg' \in Nat
    BY <1>9, WgIsNat
  <2>3. timer' \in [Calls -> {"off", "armed", "fired"}]
    BY <1>1, <1>3 DEF TypeOK
  <2>4. discards' \subseteq [proc : Procs, by : {"claim", "refill", "timer", "close"},
                            at : {"stop", "drain"}]
    BY <1>1, <1>3, <2>1 DEF TypeOK
  <2> QED BY <1>1, <1>3, <1>4, <2>2, <2>3, <2>4 DEF TypeOK
<1>11. CloseOK'
  <2>1. agent[sp] \in Agents /\ slot[agent[sp]] # None
    BY <1>1, <1>3, SpareConstants DEF TypeOK
  <2>2. ~closed
    BY <1>1, <2>1 DEF CloseOK
  <2>3. closing = "no" /\ toStop = {}
    BY <1>1, <2>2 DEF CloseOK
  <2>4. /\ ~closed' /\ closing' = "no" /\ toStop' = {}
    BY <1>3, <2>2, <2>3
  <2> QED BY <2>4 DEF CloseOK
<1>12. \A x \in Calls : CallOK(x)'
  BY <1>1, <1>3, CallFrame
<1>13. \A x \in Calls : SpareOK(x)'
  BY <1>1, <1>3, <1>4, <1>5 DEF SpareOK
<1>14. \A a \in Agents : SlotOK(a)'
  BY <1>1, <1>3, <1>4 DEF SlotOK
<1>15. ASSUME NEW e \in discards' PROVE DiscardOK(e)'
  <2>1. CASE e = d
    BY <1>3, <1>5, <2>1 DEF DiscardOK
  <2>2. CASE e \in discards
    <3>1. DiscardOK(e)
      BY <1>1, <2>2
    <3> QED BY <1>3, <3>1 DEF DiscardOK
  <2> QED BY <1>3, <1>15, <2>1, <2>2
<1>16. ASSUME NEW p \in Procs PROVE ProcOK(p)'
  <2>1. Cared(p) => Cared(p)'
    BY <1>3, <1>7, CaredMoves
  <2> QED BY <1>1, <1>3, <2>1, ProcFrame
<1> QED BY <1>8, <1>9, <1>10, <1>11, <1>12, <1>13, <1>14, <1>15, <1>16 DEF SpareInv
-----------------------------------------------------------------------------
(* Discard and Close.                                                      *)

\* Process.Stop: the process is gone, or it outlasted the bounded waits.
LEMMA DiscardStopsKeeps ==
    ASSUME SpareInv, NEW d, DiscardStops(d)
    PROVE  SpareInv'
<1>1. /\ TypeOK /\ OneHand /\ CountOK /\ CloseOK
      /\ \A x \in Calls : CallOK(x) /\ SpareOK(x)
      /\ \A a \in Agents : SlotOK(a)
      /\ \A ds \in discards : DiscardOK(ds)
      /\ \A p \in Procs : ProcOK(p)
  BY DEF SpareInv
<1>2. PICK e : e = [d EXCEPT !.at = "drain"]
  OBVIOUS
<1>3. /\ d \in discards /\ d.at = "stop" /\ discards' = (discards \ {d}) \cup {e}
      /\ alive' \subseteq alive /\ outlasted \subseteq outlasted'
      /\ d.proc \notin alive' \ outlasted' /\ outlasted' \subseteq outlasted \cup {d.proc}
      /\ pc' = pc /\ got' = got /\ slot' = slot /\ refill' = refill /\ timer' = timer
      /\ agent' = agent /\ want' = want /\ took' = took /\ record' = record /\ wg' = wg
      /\ closed' = closed /\ closing' = closing /\ toStop' = toStop
      /\ as' = as /\ draining' = draining /\ ring' = ring
  BY <1>2 DEF DiscardStops, callVars, spareVars, closeVars
<1>4. /\ d.proc \in Procs /\ d.by \in {"claim", "refill", "timer", "close"}
      /\ d = [proc |-> d.proc, by |-> d.by, at |-> d.at]
  BY <1>1, <1>3 DEF TypeOK
<1>5. /\ e.proc = d.proc /\ e.by = d.by /\ e.at = "drain" /\ e # d
      /\ e \in [proc : Procs, by : {"claim", "refill", "timer", "close"}, at : {"stop", "drain"}]
  <2>1. e = [proc |-> d.proc, by |-> d.by, at |-> "drain"]
    BY <1>2, <1>4
  <2> QED BY <1>3, <1>4, <2>1
<1>6. Holds(d.proc, "discard", d)
  BY <1>3 DEF Holds
<1>7. e \notin discards
  BY <1>1, <1>5, <1>6 DEF OneHand, Holds
<1>8. Passes(d.proc, "discard", d, "discard", e)
  <2> SUFFICES ASSUME NEW p, NEW k, NEW x
               PROVE  Holds(p, k, x)' <=>
                          \/ Holds(p, k, x) /\ ~(p = d.proc /\ k = "discard" /\ x = d)
                          \/ p = d.proc /\ k = "discard" /\ x = e
    BY DEF Passes
  <2> QED BY <1>3, <1>5 DEF Holds
<1>9. OneHand'
  BY <1>1, <1>6, <1>8, HandsMove
<1>10. CountOK'
  <2>1. CASE d.by = "close"
    <3>1. \A k, x : Waits(k, x)' <=> Waits(k, x)
      BY <1>3, <1>5, <1>7, <2>1 DEF Waits
    <3> QED BY <1>1, <1>3, <3>1, CountStays
  <2>2. CASE d.by # "close"
    <3>1. \A k, x : Waits(k, x)' <=>
              (Waits(k, x) /\ ~(k = "discard" /\ x = d)) \/ (k = "discard" /\ x = e)
      BY <1>3, <1>5, <1>7, <2>2 DEF Waits
    <3>2. Waits("discard", d) /\ ~Waits("discard", e)
      BY <1>3, <1>7, <2>2 DEF Waits
    <3> QED BY <1>1, <1>3, <3>1, <3>2, CountSwap
  <2> QED BY <2>1, <2>2
<1>11. TypeOK'
  <2>1. discards' \subseteq [proc : Procs, by : {"claim", "refill", "timer", "close"},
                            at : {"stop", "drain"}]
    BY <1>1, <1>3, <1>5 DEF TypeOK
  <2>2. alive' \cup draining' \cup ring' \cup outlasted' \subseteq Procs
    BY <1>1, <1>3, <1>4 DEF TypeOK
  <2> QED BY <1>1, <1>3, <2>1, <2>2 DEF TypeOK
<1>12. CloseOK'
  BY <1>1, <1>3, <1>5 DEF CloseOK
<1>13. \A x \in Calls : CallOK(x)'
  BY <1>1, <1>3, CallFrame
<1>14. \A x \in Calls : SpareOK(x)'
  BY <1>1, <1>3 DEF SpareOK
<1>15. \A a \in Agents : SlotOK(a)'
  BY <1>1, <1>3 DEF SlotOK
<1>16. ASSUME NEW f \in discards' PROVE DiscardOK(f)'
  <2>1. CASE f = e
    <3>1. DiscardOK(d)
      BY <1>1, <1>3
    <3>2. \E sp \in Calls : e.proc = SpareOf(sp) /\ refill'[sp] \in {"ready", "gone"}
      BY <1>3, <1>5, <3>1 DEF DiscardOK
    <3> QED BY <1>3, <1>5, <2>1, <3>2 DEF DiscardOK
  <2>2. CASE f \in discards
    <3>1. DiscardOK(f)
      BY <1>1, <2>2
    <3> QED BY <1>3, <3>1 DEF DiscardOK
  <2> QED BY <1>3, <1>16, <2>1, <2>2
<1>17. ASSUME NEW p \in Procs PROVE ProcOK(p)'
  <2>1. Cared(p) => Cared(p)'
    BY <1>3, <1>8, CaredMoves
  <2> QED BY <1>1, <1>3, <2>1, ProcFrame
<1> QED BY <1>9, <1>10, <1>11, <1>12, <1>13, <1>14, <1>15, <1>16, <1>17 DEF SpareInv

\* The end of Discard: whatever is left of the process is known to be left.
LEMMA DiscardDropsKeeps ==
    ASSUME SpareInv, NEW d, DiscardDrops(d)
    PROVE  SpareInv'
<1>1. /\ TypeOK /\ OneHand /\ CountOK /\ CloseOK
      /\ \A x \in Calls : CallOK(x) /\ SpareOK(x)
      /\ \A a \in Agents : SlotOK(a)
      /\ \A ds \in discards : DiscardOK(ds)
      /\ \A p \in Procs : ProcOK(p)
  BY DEF SpareInv
<1>2. /\ d \in discards /\ d.at = "drain" /\ discards' = discards \ {d}
      /\ outlasted' = outlasted \cup (draining \cap {d.proc})
      /\ ring' = ring \ {d.proc}
      /\ wg' = IF d.by = "close" THEN wg ELSE wg - 1
      /\ pc' = pc /\ got' = got /\ slot' = slot /\ refill' = refill /\ timer' = timer
      /\ agent' = agent /\ want' = want /\ took' = took /\ record' = record
      /\ closed' = closed /\ closing' = closing /\ toStop' = toStop
      /\ as' = as /\ draining' = draining /\ alive' = alive
  BY DEF DiscardDrops, UndrainedBy, callVars, spareVars, closeVars
<1>3. Drops(d.proc, "discard", d)
  <2> SUFFICES ASSUME NEW p, NEW k, NEW x
               PROVE  Holds(p, k, x)' <=>
                          Holds(p, k, x) /\ ~(p = d.proc /\ k = "discard" /\ x = d)
    BY DEF Drops
  <2> QED BY <1>2 DEF Holds
<1>4. OneHand'
  BY <1>1, <1>3, HandsDrop
<1>5. CountOK'
  <2>1. CASE d.by = "close"
    <3>1. \A k, x : Waits(k, x)' <=> Waits(k, x)
      BY <1>2, <2>1 DEF Waits
    <3> QED BY <1>1, <1>2, <2>1, <3>1, CountStays
  <2>2. CASE d.by # "close"
    <3>1. \A k, x : Waits(k, x)' <=> Waits(k, x) /\ ~(k = "discard" /\ x = d)
      BY <1>2, <2>2 DEF Waits
    <3>2. Waits("discard", d)
      BY <1>2, <2>2 DEF Waits
    <3> QED BY <1>1, <1>2, <2>2, <3>1, <3>2, CountDown
  <2> QED BY <2>1, <2>2
<1>6. TypeOK'
  <2>1. wg' \in Nat
    BY <1>5, WgIsNat
  <2> QED BY <1>1, <1>2, <2>1 DEF TypeOK
<1>7. CloseOK'
  <2>1. wg \in Nat /\ wg' \in Nat
    BY <1>1, <1>6 DEF TypeOK
  <2> QED BY <1>1, <1>2, <2>1 DEF CloseOK
<1>8. \A x \in Calls : CallOK(x)'
  BY <1>1, <1>2, CallFrame
<1>9. \A x \in Calls : SpareOK(x)'
  BY <1>1, <1>2 DEF SpareOK
<1>10. \A a \in Agents : SlotOK(a)'
  BY <1>1, <1>2 DEF SlotOK
<1>11. \A e \in discards' : DiscardOK(e)'
  BY <1>1, <1>2 DEF DiscardOK
<1>12. ASSUME NEW p \in Procs PROVE ProcOK(p)'
  <2>1. CASE p = d.proc
    <3>1. p \notin alive \ outlasted
      BY <1>1, <1>2, <2>1 DEF DiscardOK
    <3>2. p \notin alive' \ outlasted' /\ p \notin (draining' \cup ring') \ outlasted'
      BY <1>2, <2>1, <3>1
    <3>3. ProcOK(p)
      BY <1>1
    <3> QED BY <1>2, <3>2, <3>3 DEF ProcOK
  <2>2. CASE p # d.proc
    <3>1. Cared(p) => Cared(p)'
      BY <1>2, <1>3, <2>2, CaredDrops
    <3> QED BY <1>1, <1>2, <3>1, ProcFrame
  <2> QED BY <2>1, <2>2
<1> QED BY <1>4, <1>5, <1>6, <1>7, <1>8, <1>9, <1>10, <1>11, <1>12 DEF SpareInv

\* Close, the section under mu: every spare goes from the map to Close.
LEMMA CloseKeeps ==
    ASSUME SpareInv, Close
    PROVE  SpareInv'
<1>1. /\ TypeOK /\ OneHand /\ CountOK /\ CloseOK
      /\ \A x \in Calls : CallOK(x) /\ SpareOK(x)
      /\ \A a \in Agents : SlotOK(a)
      /\ \A d \in discards : DiscardOK(d)
      /\ \A p \in Procs : ProcOK(p)
  BY DEF SpareInv
<1>2. /\ closing = "no" /\ closing' = "stopping" /\ closed' = TRUE
      /\ toStop' = {sp \in Calls : slot[agent[sp]] = sp /\ refill[sp] = "ready"}
      /\ slot' = [a \in Agents |-> None] /\ toStop = {}
      /\ pc' = pc /\ got' = got /\ refill' = refill /\ timer' = timer
      /\ agent' = agent /\ want' = want /\ took' = took /\ record' = record /\ wg' = wg
      /\ discards' = discards /\ outlasted' = outlasted
      /\ as' = as /\ draining' = draining /\ alive' = alive /\ ring' = ring
  <2>1. closing = "no" /\ toStop = {}
    BY <1>1 DEF Close, CloseOK
  <2>2. \A sp \in Calls : SpareOf(sp) # None
    BY SpareConstants DEF SpareOf, Procs
  <2>3. \A sp \in Calls : ProcOf(sp) # None <=> refill[sp] = "ready"
    BY <2>2 DEF ProcOf
  <2> QED BY <2>1, <2>3 DEF Close, callVars, procVars
<1>3. \A x \in Calls : slot'[agent[x]] # x
  BY <1>1, <1>2, SpareConstants DEF TypeOK
<1>4. \A p, k, x : Holds(p, k, x)' <=> \/ Holds(p, k, x) /\ k # "slot"
                                       \/ k = "close" /\ Holds(p, "slot", x)
  <2> SUFFICES ASSUME NEW p, NEW k, NEW x
               PROVE  Holds(p, k, x)' <=> \/ Holds(p, k, x) /\ k # "slot"
                                          \/ k = "close" /\ Holds(p, "slot", x)
    OBVIOUS
  <2> QED BY <1>2, <1>3 DEF Holds
<1>5. \A p, x : ~Holds(p, "close", x)
  BY <1>2 DEF Holds
<1>6. OneHand'
  <2> SUFFICES ASSUME NEW p, NEW k, NEW x, NEW l, NEW y, Holds(p, k, x)', Holds(p, l, y)'
               PROVE  k = l /\ x = y
    BY DEF OneHand
  <2>1. \/ Holds(p, k, x) /\ k # "slot"
        \/ k = "close" /\ Holds(p, "slot", x)
    BY <1>4
  <2>2. \/ Holds(p, l, y) /\ l # "slot"
        \/ l = "close" /\ Holds(p, "slot", y)
    BY <1>4
  <2> QED BY <1>1, <2>1, <2>2 DEF OneHand
<1>7. CountOK'
  <2>1. \A k, x : Waits(k, x)' <=> Waits(k, x)
    BY <1>2 DEF Waits
  <2> QED BY <1>1, <1>2, <2>1, CountStays
<1>8. TypeOK'
  BY <1>1, <1>2 DEF TypeOK
<1>9. CloseOK'
  BY <1>2 DEF CloseOK
<1>10. \A x \in Calls : CallOK(x)'
  BY <1>1, <1>2, CallFrame
<1>11. \A x \in Calls : SpareOK(x)'
  BY <1>1, <1>2, <1>3 DEF SpareOK
<1>12. /\ \A a \in Agents : SlotOK(a)'
       /\ \A d \in discards' : DiscardOK(d)'
  BY <1>1, <1>2 DEF SlotOK, DiscardOK
<1>13. ASSUME NEW p \in Procs PROVE ProcOK(p)'
  <2>1. ASSUME Cared(p) PROVE Cared(p)'
    <3>1. PICK k, x : Holds(p, k, x) /\ (k = "caller" => pc[x] # "returned")
      BY <2>1 DEF Cared
    <3>2. CASE k = "slot"
      <4>1. Holds(p, "close", x)'
        BY <1>4, <3>1, <3>2
      <4> QED BY <4>1 DEF Cared
    <3>3. CASE k # "slot"
      <4>1. Holds(p, k, x)' /\ (k = "caller" => pc'[x] # "returned")
        BY <1>2, <1>4, <3>1, <3>3
      <4> QED BY <4>1 DEF Cared
    <3> QED BY <3>2, <3>3
  <2> QED BY <1>1, <1>2, <2>1, ProcFrame
<1> QED BY <1>6, <1>7, <1>8, <1>9, <1>10, <1>11, <1>12, <1>13 DEF SpareInv

\* One round of Close's loop.
LEMMA CloseStopsKeeps ==
    ASSUME SpareInv, NEW sp \in Calls, CloseStops(sp)
    PROVE  SpareInv'
<1>1. /\ TypeOK /\ OneHand /\ CountOK /\ CloseOK
      /\ \A x \in Calls : CallOK(x) /\ SpareOK(x)
      /\ \A a \in Agents : SlotOK(a)
      /\ \A d \in discards : DiscardOK(d)
      /\ \A p \in Procs : ProcOK(p)
  BY DEF SpareInv
<1>2. PICK d : d = [proc |-> SpareOf(sp), by |-> "close", at |-> "stop"]
  OBVIOUS
<1>3. /\ closing = "stopping" /\ sp \in toStop /\ toStop' = toStop \ {sp}
      /\ timer' = [timer EXCEPT ![sp] = IF @ = "armed" THEN "off" ELSE @]
      /\ discards' = discards \cup {d}
      /\ pc' = pc /\ got' = got /\ slot' = slot /\ refill' = refill
      /\ agent' = agent /\ want' = want /\ took' = took /\ record' = record /\ wg' = wg
      /\ closed' = closed /\ closing' = closing
      /\ as' = as /\ draining' = draining /\ alive' = alive /\ ring' = ring
      /\ outlasted' = outlasted
  BY <1>2 DEF CloseStops, callVars, procVars
<1>4. /\ d.proc = SpareOf(sp) /\ d.by = "close" /\ d.at = "stop"
      /\ SpareOf(sp) \in Procs /\ refill[sp] = "ready"
      /\ d \in [proc : Procs, by : {"claim", "refill", "timer", "close"}, at : {"stop", "drain"}]
  <2>1. SpareOf(sp) \in Procs
    BY DEF SpareOf, Procs
  <2>2. refill[sp] = "ready"
    BY <1>1, <1>3 DEF SpareOK
  <2> QED BY <1>2, <2>1, <2>2
<1>5. /\ timer' \in [Calls -> {"off", "armed", "fired"}]
      /\ \A x \in Calls : timer'[x] # "off" => timer[x] # "off"
  BY <1>1, <1>3 DEF TypeOK
<1>6. Holds(SpareOf(sp), "close", sp)
  BY <1>3 DEF Holds
<1>7. Passes(SpareOf(sp), "close", sp, "discard", d)
  <2> SUFFICES ASSUME NEW p, NEW k, NEW x
               PROVE  Holds(p, k, x)' <=>
                          \/ Holds(p, k, x) /\ ~(p = SpareOf(sp) /\ k = "close" /\ x = sp)
                          \/ p = SpareOf(sp) /\ k = "discard" /\ x = d
    BY DEF Passes
  <2> QED BY <1>3, <1>4 DEF Holds
<1>8. OneHand'
  BY <1>1, <1>6, <1>7, HandsMove
<1>9. CountOK'
  <2>1. \A k, x : Waits(k, x)' <=> Waits(k, x)
    BY <1>3, <1>4 DEF Waits
  <2> QED BY <1>1, <1>3, <2>1, CountStays
<1>10. TypeOK'
  <2>1. discards' \subseteq [proc : Procs, by : {"claim", "refill", "timer", "close"},
                            at : {"stop", "drain"}]
    BY <1>1, <1>3, <1>4 DEF TypeOK
  <2> QED BY <1>1, <1>3, <1>5, <2>1 DEF TypeOK
<1>11. CloseOK'
  BY <1>1, <1>3 DEF CloseOK
<1>12. \A x \in Calls : CallOK(x)'
  BY <1>1, <1>3, CallFrame
<1>13. \A x \in Calls : SpareOK(x)'
  BY <1>1, <1>3, <1>5 DEF SpareOK
<1>14. \A a \in Agents : SlotOK(a)'
  BY <1>1, <1>3 DEF SlotOK
<1>15. ASSUME NEW e \in discards' PROVE DiscardOK(e)'
  <2>1. CASE e = d
    BY <1>3, <1>4, <2>1 DEF DiscardOK
  <2>2. CASE e \in discards
    <3>1. DiscardOK(e)
      BY <1>1, <2>2
    <3> QED BY <1>3, <3>1 DEF DiscardOK
  <2> QED BY <1>3, <1>15, <2>1, <2>2
<1>16. ASSUME NEW p \in Procs PROVE ProcOK(p)'
  <2>1. Cared(p) => Cared(p)'
    BY <1>3, <1>7, CaredMoves
  <2> QED BY <1>1, <1>3, <2>1, ProcFrame
<1> QED BY <1>8, <1>9, <1>10, <1>11, <1>12, <1>13, <1>14, <1>15, <1>16 DEF SpareInv

-----------------------------------------------------------------------------
(* The processes, and the end of Close.                                    *)

\* A step of which only the processes, their rings and records tell.
LEMMA ProcessStep ==
    ASSUME SpareInv, UNCHANGED <<callVars, spareVars, wg, closed, toStop, as, outlasted, discards>>,
           alive' \subseteq alive, draining' \subseteq draining,
           ring' \subseteq ring \cup Procs,
           record' \in [Procs -> {None, "running", "ended"}],
           \A c \in Calls : pc[c] = "refill" => record'[got[c]] = record[got[c]],
           CloseOK',
           \A p \in Procs : /\ p \in (draining' \cup ring') \ outlasted => Cared(p) \/ record'[p] # None
                            /\ record'[p] # None => record[p] # None
                            /\ record'[p] = "ended" => p \notin alive' \cup draining',
           closing' \in {"no", "stopping", "returned"}
    PROVE  SpareInv'
<1>1. /\ TypeOK /\ OneHand /\ CountOK /\ CloseOK
      /\ \A x \in Calls : CallOK(x) /\ SpareOK(x)
      /\ \A a \in Agents : SlotOK(a)
      /\ \A d \in discards : DiscardOK(d)
      /\ \A p \in Procs : ProcOK(p)
  BY DEF SpareInv
<1>2. /\ pc' = pc /\ got' = got /\ slot' = slot /\ refill' = refill /\ timer' = timer
      /\ agent' = agent /\ want' = want /\ took' = took /\ wg' = wg
      /\ closed' = closed /\ toStop' = toStop /\ as' = as /\ outlasted' = outlasted
      /\ discards' = discards
  BY DEF callVars, spareVars
<1>3. StaysPut
  BY <1>2, SameHands
<1>4. OneHand'
  BY <1>1, <1>3 DEF OneHand, StaysPut
<1>5. CountOK'
  <2>1. \A k, x : Waits(k, x)' <=> Waits(k, x)
    BY <1>2 DEF Waits
  <2> QED BY <1>1, <1>2, <2>1, CountStays
<1>6. TypeOK'
  <2>1. alive' \cup draining' \cup ring' \cup outlasted' \subseteq Procs
    BY <1>1, <1>2 DEF TypeOK
  <2> QED BY <1>1, <1>2, <2>1 DEF TypeOK
<1>7. \A x \in Calls : CallOK(x)'
  BY <1>1, <1>2, CallFrame
<1>8. \A x \in Calls : SpareOK(x)'
  BY <1>1, <1>2 DEF SpareOK
<1>9. /\ \A a \in Agents : SlotOK(a)'
      /\ \A d \in discards' : DiscardOK(d)'
  BY <1>1, <1>2 DEF SlotOK, DiscardOK
<1>10. ASSUME NEW p \in Procs PROVE ProcOK(p)'
  <2>1. Cared(p) => Cared(p)'
    BY <1>2, <1>3, CaredStays
  <2>2. ProcOK(p)
    BY <1>1
  <2> QED BY <1>2, <2>1, <2>2 DEF ProcOK
<1> QED BY <1>4, <1>5, <1>6, <1>7, <1>8, <1>9, <1>10 DEF SpareInv
LEMMA CloseReturnsKeeps ==
    ASSUME SpareInv, CloseReturns
    PROVE  SpareInv'
<1>1. /\ TypeOK /\ OneHand /\ CountOK /\ CloseOK
      /\ \A x \in Calls : CallOK(x) /\ SpareOK(x)
      /\ \A a \in Agents : SlotOK(a)
      /\ \A d \in discards : DiscardOK(d)
      /\ \A p \in Procs : ProcOK(p)
  BY DEF SpareInv
<1>2. /\ closing = "stopping" /\ closing' = "returned" /\ wg = 0 /\ toStop = {}
      /\ \A d \in discards : d.by # "close"
      /\ UNCHANGED <<callVars, spareVars, wg, closed, toStop, procVars, discards, record>>
  BY DEF CloseReturns, Waited
<1>3. slot' = slot /\ as' = as /\ outlasted' = outlasted
      /\ alive' = alive /\ draining' = draining /\ ring' = ring
  BY <1>2 DEF spareVars, procVars
<1>4. CloseOK'
  BY <1>1, <1>2, <1>3 DEF CloseOK
<1>5. \A p \in Procs : /\ p \in (draining \cup ring) \ outlasted => Cared(p) \/ record[p] # None
                       /\ record[p] = "ended" => p \notin alive \cup draining
  BY <1>1 DEF ProcOK
<1>6. record \in [Procs -> {None, "running", "ended"}]
  BY <1>1 DEF TypeOK
<1> QED BY <1>2, <1>3, <1>4, <1>5, <1>6, ProcessStep

LEMMA ExitsKeeps ==
    ASSUME SpareInv, NEW p \in Procs, Exits(p)
    PROVE  SpareInv'
<1>1. /\ TypeOK /\ OneHand /\ CountOK /\ CloseOK
      /\ \A x \in Calls : CallOK(x) /\ SpareOK(x)
      /\ \A a \in Agents : SlotOK(a)
      /\ \A d \in discards : DiscardOK(d)
      /\ \A pr \in Procs : ProcOK(pr)
  BY DEF SpareInv
<1>2. /\ alive' = alive \ {p}
      /\ UNCHANGED <<callVars, spareVars, wg, closeVars, as, draining, ring, outlasted,
                     discards, record>>
  BY DEF Exits
<1>3. slot' = slot /\ closed' = closed /\ closing' = closing /\ toStop' = toStop
  BY <1>2 DEF spareVars, closeVars
<1>4. CloseOK'
  BY <1>1, <1>2, <1>3 DEF CloseOK
<1>5. \A q \in Procs : /\ q \in (draining \cup ring) \ outlasted => Cared(q) \/ record[q] # None
                       /\ record[q] = "ended" => q \notin alive \cup draining
  BY <1>1 DEF ProcOK
<1>6. record \in [Procs -> {None, "running", "ended"}] /\ closing \in {"no", "stopping", "returned"}
  BY <1>1 DEF TypeOK
<1> QED BY <1>2, <1>3, <1>4, <1>5, <1>6, ProcessStep

\* captureLogs ends: the ring it fills belongs to whoever cares for the process.
LEMMA DrainedKeeps ==
    ASSUME SpareInv, NEW p \in Procs, Drained(p)
    PROVE  SpareInv'
<1>1. /\ TypeOK /\ OneHand /\ CountOK /\ CloseOK
      /\ \A x \in Calls : CallOK(x) /\ SpareOK(x)
      /\ \A a \in Agents : SlotOK(a)
      /\ \A d \in discards : DiscardOK(d)
      /\ \A pr \in Procs : ProcOK(pr)
  BY DEF SpareInv
<1>2. /\ p \in draining /\ ring' = ring \cup {p} /\ draining' = draining \ {p}
      /\ UNCHANGED <<callVars, spareVars, wg, closeVars, as, alive, outlasted,
                     discards, record>>
  BY DEF Drained
<1>3. slot' = slot /\ closed' = closed /\ closing' = closing /\ toStop' = toStop
  BY <1>2 DEF spareVars, closeVars
<1>4. CloseOK'
  BY <1>1, <1>2, <1>3 DEF CloseOK
<1>5. \A q \in Procs : /\ q \in (draining \cup ring) \ outlasted => Cared(q) \/ record[q] # None
                       /\ record[q] = "ended" => q \notin alive \cup draining
  BY <1>1 DEF ProcOK
<1>6. record \in [Procs -> {None, "running", "ended"}] /\ closing \in {"no", "stopping", "returned"}
  BY <1>1 DEF TypeOK
<1> QED BY <1>2, <1>3, <1>4, <1>5, <1>6, ProcessStep

\* RecordExit: the record outlives the process and keeps its ring.
LEMMA SessionEndsKeeps ==
    ASSUME SpareInv, NEW c \in Calls, SessionEnds(c)
    PROVE  SpareInv'
<1>1. /\ TypeOK /\ OneHand /\ CountOK /\ CloseOK
      /\ \A x \in Calls : CallOK(x) /\ SpareOK(x)
      /\ \A a \in Agents : SlotOK(a)
      /\ \A d \in discards : DiscardOK(d)
      /\ \A p \in Procs : ProcOK(p)
  BY DEF SpareInv
<1>2. PICK q : q = got[c]
  OBVIOUS
<1>3. /\ pc[c] = "returned" /\ record[q] = "running"
      /\ alive' = alive \ {q} /\ draining' = draining \ {q} /\ ring' = ring \cup {q}
      /\ record' = [record EXCEPT ![q] = "ended"]
      /\ UNCHANGED <<callVars, spareVars, wg, closeVars, as, outlasted, discards>>
  BY <1>2 DEF SessionEnds
<1>4. slot' = slot /\ closed' = closed /\ closing' = closing /\ toStop' = toStop
  BY <1>3 DEF spareVars, closeVars
<1>5. CloseOK'
  BY <1>1, <1>3, <1>4 DEF CloseOK
<1>6. q \in Procs /\ q # None /\ None # "ended" /\ None # "running"
  <2>1. CallOK(c)
    BY <1>1
  <2>2. q \in Procs
    BY <1>2, <1>3, <2>1 DEF CallOK
  <2> QED BY <2>2, SpareConstants
<1>7. /\ record' \in [Procs -> {None, "running", "ended"}] /\ record'[q] = "ended"
      /\ \A p \in Procs \ {q} : record'[p] = record[p]
      /\ closing \in {"no", "stopping", "returned"}
  BY <1>1, <1>3, <1>6 DEF TypeOK
<1>8. ASSUME NEW x \in Calls, pc[x] = "refill" PROVE record'[got[x]] = record[got[x]]
  <2>1. x # c /\ CallOK(x)
    BY <1>1, <1>3, <1>8
  <2>2. got[x] # q
    BY <1>1, <1>2, <1>6, <2>1 DEF OneHand, Holds
  <2>3. got[x] \in Procs
    BY <1>8, <2>1 DEF CallOK
  <2> QED BY <1>7, <2>2, <2>3
<1>9. ASSUME NEW p \in Procs
      PROVE  /\ p \in (draining' \cup ring') \ outlasted => Cared(p) \/ record'[p] # None
             /\ record'[p] # None => record[p] # None
             /\ record'[p] = "ended" => p \notin alive' \cup draining'
  <2>1. CASE p = q
    BY <1>3, <1>6, <1>7, <2>1
  <2>2. CASE p # q
    <3>1. ProcOK(p)
      BY <1>1
    <3> QED BY <1>3, <1>7, <2>2, <3>1 DEF ProcOK
  <2> QED BY <2>1, <2>2
<1>10. ring' \subseteq ring \cup Procs /\ alive' \subseteq alive /\ draining' \subseteq draining
  BY <1>3, <1>6
<1>11. UNCHANGED <<callVars, spareVars, wg, closed, toStop, as, outlasted, discards>>
  BY <1>3, <1>4
<1> QED BY <1>4, <1>5, <1>7, <1>8, <1>9, <1>10, <1>11, ProcessStep

LEMMA PruneKeeps ==
    ASSUME SpareInv, NEW p \in Procs, Prune(p)
    PROVE  SpareInv'
<1>1. /\ TypeOK /\ OneHand /\ CountOK /\ CloseOK
      /\ \A x \in Calls : CallOK(x) /\ SpareOK(x)
      /\ \A a \in Agents : SlotOK(a)
      /\ \A d \in discards : DiscardOK(d)
      /\ \A pr \in Procs : ProcOK(pr)
  BY DEF SpareInv
<1>2. /\ record[p] = "ended" /\ record' = [record EXCEPT ![p] = None] /\ ring' = ring \ {p}
      /\ UNCHANGED <<callVars, spareVars, wg, closeVars, as, alive, draining, outlasted, discards>>
  BY DEF Prune
<1>3. slot' = slot /\ closed' = closed /\ closing' = closing /\ toStop' = toStop
  BY <1>2 DEF spareVars, closeVars
<1>4. CloseOK'
  BY <1>1, <1>2, <1>3 DEF CloseOK
<1>5. /\ record' \in [Procs -> {None, "running", "ended"}] /\ record'[p] = None
      /\ \A q \in Procs \ {p} : record'[q] = record[q]
      /\ closing \in {"no", "stopping", "returned"}
  BY <1>1, <1>2 DEF TypeOK
<1>6. ASSUME NEW x \in Calls, pc[x] = "refill" PROVE record'[got[x]] = record[got[x]]
  <2>1. CallOK(x)
    BY <1>1
  <2>2. got[x] \in Procs /\ record[got[x]] = "running"
    BY <1>6, <2>1 DEF CallOK
  <2> QED BY <1>2, <1>5, <2>2
<1>7. None # "ended"
  BY SpareConstants
<1>8. ASSUME NEW q \in Procs
      PROVE  /\ q \in (draining' \cup ring') \ outlasted => Cared(q) \/ record'[q] # None
             /\ record'[q] # None => record[q] # None
             /\ record'[q] = "ended" => q \notin alive' \cup draining'
  <2>1. ProcOK(q)
    BY <1>1
  <2>2. CASE q = p
    <3>1. q \notin draining' \cup ring'
      BY <1>2, <2>1, <2>2 DEF ProcOK
    <3> QED BY <1>5, <1>7, <2>2, <3>1
  <2>3. CASE q # p
    BY <1>2, <1>5, <2>1, <2>3 DEF ProcOK
  <2> QED BY <2>2, <2>3
<1>9. /\ ring' \subseteq ring \cup Procs /\ alive' \subseteq alive /\ draining' \subseteq draining
      /\ UNCHANGED <<callVars, spareVars, wg, closed, toStop, as, outlasted, discards>>
  BY <1>2, <1>3
<1> QED BY <1>3, <1>4, <1>5, <1>6, <1>8, <1>9, ProcessStep
-----------------------------------------------------------------------------
LEMMA SpareStart == Init => SpareInv
<1> SUFFICES ASSUME Init PROVE SpareInv
  OBVIOUS
<1>1. TypeOK
  BY DEF Init, TypeOK
<1>2. \A p, k, x : ~Holds(p, k, x)
  BY DEF Init, Holds
<1>3. OneHand
  BY <1>2 DEF OneHand
<1>4. CountOK
  <2>1. Pending = {}
    BY DEF Init, Pending
  <2> QED BY <2>1, FS_EmptySet DEF CountOK, Init
<1>5. CloseOK
  BY DEF Init, CloseOK
<1>6. \A c \in Calls : CallOK(c)
  BY DEF Init, CallOK
<1>7. \A sp \in Calls : SpareOK(sp)
  BY <1>1, SpareConstants DEF Init, SpareOK, TypeOK
<1>8. /\ \A a \in Agents : SlotOK(a)
      /\ \A d \in discards : DiscardOK(d)
  BY DEF Init, SlotOK
<1>9. \A p \in Procs : ProcOK(p)
  BY SpareConstants DEF Init, ProcOK
<1> QED BY <1>1, <1>3, <1>4, <1>5, <1>6, <1>7, <1>8, <1>9 DEF SpareInv

LEMMA CallsKeep ==
    ASSUME SpareInv, NEW c \in Calls, LaunchStep(c) \/ SpareStep(c) \/ SessionEnds(c)
    PROVE  SpareInv'
<1>1. CASE ClaimSpare(c)
  BY <1>1, ClaimTakesSlot, ClaimMisses
<1>2. CASE TakeSpare(c)
  BY <1>2, HandOver, ClaimDiscards
<1>3. CASE LaunchProcess(c)
  BY <1>3, StartsOwn, StartFails
<1>4. CASE Register(c)
  BY <1>4, RegisterKeeps
<1>5. CASE RefillSpare(c)
  BY <1>5, RefillStarts, RefillSkips
<1>6. CASE RefillSpawn(c)
  BY <1>6, RefillSpawns, RefillSpawnFails
<1>7. CASE RefillPublish(c)
  <2>1. refill[c] \in {"spawned", "failed"}
    BY <1>7 DEF RefillPublish
  <2> QED BY <1>7, <2>1, RefillPublishes, RefillDiscards, RefillGivesUp
<1>8. CASE TimerFires(c) \/ TimerExpires(c)
  BY <1>8, TimerFiresKeeps, ExpiresTooLate, IdleDiscards
<1>9. CASE SessionEnds(c)
  BY <1>9, SessionEndsKeeps
<1> QED BY <1>1, <1>2, <1>3, <1>4, <1>5, <1>6, <1>7, <1>8, <1>9 DEF LaunchStep, SpareStep

LEMMA SpareNext == SpareInv /\ [Next]_vars => SpareInv'
<1> SUFFICES ASSUME SpareInv, [Next]_vars PROVE SpareInv'
  OBVIOUS
<1>1. CASE \E c \in Calls, key \in Keys, env \in BOOLEAN : Launch(c, key, env)
  BY <1>1, LaunchKeeps
<1>2. CASE \E c \in Calls : LaunchStep(c) \/ SpareStep(c) \/ SessionEnds(c)
  BY <1>2, CallsKeep
<1>3. CASE \E p \in Procs : DiscardStep(p) \/ Exits(p) \/ Drained(p) \/ Prune(p)
  BY <1>3, DiscardStopsKeeps, DiscardDropsKeeps, ExitsKeeps, DrainedKeeps, PruneKeeps
     DEF DiscardStep
<1>4. CASE Close \/ CloseStep
  BY <1>4, CloseKeeps, CloseStopsKeeps, CloseReturnsKeeps DEF CloseStep
<1>5. CASE UNCHANGED vars
  <2>1. UNCHANGED <<callVars, spareVars, wg, closed, toStop, as, outlasted, discards>>
        /\ alive' = alive /\ draining' = draining /\ ring' = ring /\ record' = record
        /\ closing' = closing /\ slot' = slot
    BY <1>5 DEF vars, callVars, spareVars
  <2>2. CloseOK'
    BY <2>1 DEF CloseOK, SpareInv
  <2>3. \A p \in Procs :
          /\ p \in (draining \cup ring) \ outlasted => Cared(p) \/ record[p] # None
          /\ record[p] = "ended" => p \notin alive \cup draining
    BY DEF SpareInv, ProcOK
  <2>4. record \in [Procs -> {None, "running", "ended"}]
        /\ closing \in {"no", "stopping", "returned"}
    BY DEF SpareInv, TypeOK
  <2> QED BY <2>1, <2>2, <2>3, <2>4, ProcessStep
<1> QED BY <1>1, <1>2, <1>3, <1>4, <1>5 DEF Next

\* What the hands say about Owners.
LEMMA HandsAreOwners ==
    ASSUME SpareInv, NEW p \in Procs
    PROVE  /\ \A o \in Owners(p) : \E k, x : Holds(p, k, x)
                  /\ o = IF k = "discard" THEN <<k, x.by>> ELSE <<k, x>>
           /\ \A k, x : Holds(p, k, x) =>
                  (IF k = "discard" THEN <<k, x.by>> ELSE <<k, x>>) \in Owners(p)
<1>1. p # None
  BY SpareConstants
<1>2. \A x \in Calls : ProcOf(x) = p <=> refill[x] = "ready" /\ SpareOf(x) = p
  BY <1>1 DEF ProcOf
<1>3. ASSUME NEW o \in Owners(p)
      PROVE  \E k, x : Holds(p, k, x)
                 /\ o = IF k = "discard" THEN <<k, x.by>> ELSE <<k, x>>
  <2>1. CASE \E c \in Calls : got[c] = p /\ o = <<"caller", c>>
    BY <1>1, <2>1 DEF Holds
  <2>2. CASE \E c \in Calls : pc[c] = "claimed" /\ SpareOf(took[c]) = p /\ o = <<"claim", c>>
    BY <2>2 DEF Holds
  <2>3. CASE \E c \in Calls : refill[c] = "spawned" /\ SpareOf(c) = p /\ o = <<"refill", c>>
    BY <2>3 DEF Holds
  <2>4. CASE \E c \in Calls : ProcOf(c) = p /\ slot[agent[c]] = c /\ o = <<"slot", c>>
    BY <1>2, <2>4 DEF Holds
  <2>5. CASE \E c \in toStop : SpareOf(c) = p /\ o = <<"close", c>>
    BY <2>5 DEF Holds
  <2>6. CASE \E d \in discards : d.proc = p /\ o = <<"discard", d.by>>
    BY <2>6 DEF Holds
  <2> QED BY <1>3, <2>1, <2>2, <2>3, <2>4, <2>5, <2>6 DEF Owners
<1>4. ASSUME NEW k, NEW x, Holds(p, k, x)
      PROVE  (IF k = "discard" THEN <<k, x.by>> ELSE <<k, x>>) \in Owners(p)
  BY <1>2, <1>4 DEF Holds, Owners
<1> QED BY <1>3, <1>4

\* Claims, refills, idle timers, Discards and Close never share a process or
\* lose one, a caller runs what it asked for, and what is over leaves no spare
\* and no log ring (claimSpare, refillSpare, Discard, Close, prune).
THEOREM SparesAreSafe == Spec => []SparesAccountedFor
<1>1. SpareInv => SparesAccountedFor
  <2> SUFFICES ASSUME SpareInv PROVE SparesAccountedFor
    OBVIOUS
  <2>1. /\ OneHand /\ CountOK /\ CloseOK /\ TypeOK
        /\ \A c \in Calls : CallOK(c)
        /\ \A p \in Procs : ProcOK(p)
    BY DEF SpareInv
  <2>2. ASSUME NEW p \in Procs
        PROVE  /\ \A o, q \in Owners(p) : o = q
               /\ p \in alive \ outlasted => Owners(p) # {}
    <3>1. ASSUME NEW o \in Owners(p), NEW q \in Owners(p) PROVE o = q
      <4>1. PICK k, x : Holds(p, k, x) /\ o = IF k = "discard" THEN <<k, x.by>> ELSE <<k, x>>
        BY <3>1, HandsAreOwners
      <4>2. PICK l, y : Holds(p, l, y) /\ q = IF l = "discard" THEN <<l, y.by>> ELSE <<l, y>>
        BY <3>1, HandsAreOwners
      <4>3. k = l /\ x = y
        BY <2>1, <4>1, <4>2 DEF OneHand
      <4> QED BY <4>1, <4>2, <4>3
    <3>2. ASSUME p \in alive \ outlasted PROVE \E k, x : Holds(p, k, x)
      <4>1. Cared(p) \/ \E c \in Calls : got[c] = p
        BY <2>1, <3>2 DEF ProcOK
      <4>2. p # None
        BY SpareConstants
      <4> QED BY <4>1, <4>2 DEF Cared, Holds
    <3> QED BY <3>1, <3>2, HandsAreOwners
  <2>3. OneOwner
    BY <2>2 DEF OneOwner
  <2>4. LaunchedAsAsked
    <3> SUFFICES ASSUME NEW c \in Calls, got[c] # None PROVE as[got[c]] = want[c]
      BY DEF LaunchedAsAsked
    <3>1. CallOK(c) /\ pc[c] \in {"new", "claim", "claimed", "cold", "register", "refill",
                                  "returned", "failed"}
      BY <2>1 DEF TypeOK
    <3> QED BY <3>1 DEF CallOK
  <2>5. ASSUME NEW p \in ring, p \notin draining \cup outlasted, record[p] = None
        PROVE  \E o \in Owners(p) : o[1] # "caller" \/ pc[o[2]] # "returned"
    <3>1. p \in Procs /\ Cared(p)
      BY <2>1, <2>5 DEF ProcOK, TypeOK
    <3>2. PICK k, x : Holds(p, k, x) /\ (k = "caller" => pc[x] # "returned")
      BY <3>1 DEF Cared
    <3>3. PICK o : o = IF k = "discard" THEN <<k, x.by>> ELSE <<k, x>>
      OBVIOUS
    <3>4. o \in Owners(p)
      BY <3>1, <3>2, <3>3, HandsAreOwners
    <3>5. o[1] # "caller" \/ pc[o[2]] # "returned"
      BY <3>2, <3>3
    <3> QED BY <3>4, <3>5
  <2>6. RingsAccountedFor
    BY <2>5 DEF RingsAccountedFor
  <2>7. CloseLeavesNoSpare
    <3> SUFFICES ASSUME closing = "returned", NEW p \in alive \cup ring,
                        p \notin outlasted \cup draining
                 PROVE  \E c \in Calls : got[c] = p
      BY DEF CloseLeavesNoSpare
    <3>1. p \in Procs /\ ProcOK(p)
      BY <2>1 DEF TypeOK
    <3>2. /\ closed /\ wg = 0 /\ toStop = {} /\ \A d \in discards : d.by # "close"
          /\ \A a \in Agents : slot[a] = None
      BY <2>1 DEF CloseOK
    <3>3. \A k, x : ~Waits(k, x)
      <4>1. Pending = {}
        BY <2>1, <3>2, FS_EmptySet DEF CountOK
      <4> QED BY <4>1, PendingIs
    <3>4. ASSUME NEW k, NEW x, Holds(p, k, x) PROVE k = "caller" /\ x \in Calls /\ got[x] = p
      <4>1. k # "claim" /\ k # "refill" /\ k # "discard"
        BY <3>2, <3>3, <3>4 DEF Holds, Waits
      <4>2. k # "slot" /\ k # "close"
        BY <2>1, <3>2, <3>4, SpareConstants DEF Holds, TypeOK
      <4> QED BY <3>4, <4>1, <4>2 DEF Holds
    <3>5. Cared(p) \/ (\E c \in Calls : got[c] = p)
      BY <3>1 DEF ProcOK
    <3> QED BY <3>4, <3>5 DEF Cared
  <2> QED BY <2>3, <2>4, <2>6, <2>7 DEF SparesAccountedFor
<1> QED BY <1>1, SpareStart, SpareNext, PTL DEF Spec

\* No Add to the wait group can race Close's Wait: once the supervisor is
\* closed the count only goes down (claimSpare's "under mu" comment).
THEOREM WaitCountsDown == Spec => CountedBeforeWait
<1>1. SpareInv /\ [Next]_vars => (closed => wg' <= wg)
  <2> SUFFICES ASSUME SpareInv, [Next]_vars, closed PROVE wg' <= wg
    OBVIOUS
  <2>1. /\ wg \in Nat /\ CloseOK
        /\ \A a \in Agents : slot[a] = None
        /\ \A c \in Calls : agent[c] \in Agents /\ c # None
    BY SpareConstants DEF SpareInv, CloseOK, TypeOK
  <2>2. CASE wg' = wg
    BY <2>1, <2>2
  <2>3. ASSUME NEW c \in Calls, ClaimSpare(c) PROVE wg' = wg
    BY <2>1, <2>3 DEF ClaimSpare
  <2>4. ASSUME NEW c \in Calls, TakeSpare(c) PROVE wg' <= wg
    BY <2>1, <2>4 DEF TakeSpare, ReleasedOnHandover, ClaimCounted
  <2>5. ASSUME NEW c \in Calls, RefillSpare(c) PROVE wg' = wg
    BY <2>1, <2>5 DEF RefillSpare, MayRefill
  <2>6. ASSUME NEW c \in Calls, RefillPublish(c) PROVE wg' <= wg
    BY <2>1, <2>6 DEF RefillPublish
  <2>7. ASSUME NEW c \in Calls, TimerExpires(c) PROVE wg' = wg
    BY <2>1, <2>7 DEF TimerExpires, StillIdle
  <2>8. ASSUME NEW d, DiscardDrops(d) PROVE wg' <= wg
    BY <2>1, <2>8 DEF DiscardDrops
  <2> QED BY <2>2, <2>3, <2>4, <2>5, <2>6, <2>7, <2>8, <2>1
          DEF Next, vars, LaunchStep, SpareStep, DiscardStep, CloseStep, Launch, LaunchProcess,
              Register, RefillSpawn, TimerFires, DiscardStops, Close, CloseStops, CloseReturns,
              Exits, Drained, SessionEnds, Prune
<1>2. SpareInv /\ [Next]_vars => [closed => wg' <= wg]_vars
  BY <1>1
<1> QED BY <1>2, SpareStart, SpareNext, PTL DEF Spec, CountedBeforeWait

-----------------------------------------------------------------------------
(* The listing of chats.                                                   *)

ListStages == {"queued", "checking", "starting", "listing", "leaving", "ending", "done"}
Lines == {"none", "listed", "failed", "cancelled", "closed", "left"}
CallRecords(P) ==
    [agent : ListedAgents, waiters : Nat, started : BOOLEAN, cancelled : BOOLEAN,
     stage : ListStages, proc : P, line : Lines]

ListTypes ==
    /\ \E P : calls \in Seq(CallRecords(P))
    /\ pending \in [ListedAgents -> Nat]
    /\ asker \in [Requesters -> [at : {"idle", "waiting", "done"}, call : Nat, line : Lines]]

WaitersOf(c) == {q \in Requesters : asker[q].at = "waiting" /\ asker[q].call = c}

\* The counter of a call is the number of requests that wait on it.
WaitersCounted ==
    \A c \in CallIds : IsFiniteSet(WaitersOf(c)) /\ calls[c].waiters = Cardinality(WaitersOf(c))

WaitingIsEmptyHanded ==
    \A q \in Requesters : /\ asker[q].at # "done" => asker[q].line = "none"
                          /\ asker[q].at = "waiting" => asker[q].call \in CallIds

\* A call that nobody waits on before it starts is cancelled.
UnwantedIsCancelled ==
    \A c \in CallIds : /\ ~calls[c].started /\ calls[c].waiters = 0 => calls[c].cancelled
                       /\ calls[c].stage \in {"queued", "checking"} => ~calls[c].started

Sound(c) == ~calls[c].cancelled /\ calls[c].line # "cancelled"

PendingIsSound ==
    \A a \in ListedAgents : pending[a] # Nothing =>
        pending[a] \in CallIds /\ calls[pending[a]].agent = a /\ Sound(pending[a])

AwaitedIsSound == \A q \in Requesters : asker[q].at = "waiting" => Sound(asker[q].call)

ListInv ==
    /\ ListTypes /\ WaitersCounted /\ WaitingIsEmptyHanded /\ UnwantedIsCancelled
    /\ lister = "open" => PendingIsSound /\ AwaitedIsSound

LEMMA ListStart == ListInit => ListInv
<1> SUFFICES ASSUME ListInit PROVE ListInv
  OBVIOUS
<1>1. calls \in Seq(CallRecords({})) /\ CallIds = {}
  BY DEF ListInit, CallIds
<1>2. ListTypes
  BY <1>1 DEF ListTypes, ListInit, Nothing, Lines
<1> QED BY <1>1, <1>2 DEF ListInv, WaitersCounted, WaitingIsEmptyHanded, UnwantedIsCancelled,
                          PendingIsSound, AwaitedIsSound, ListInit, Nothing

\* A step that touches neither calls nor requests.
LEMMA ListStays ==
    ASSUME ListInv, UNCHANGED <<asker, calls, pending>>, lister' = "open" => lister = "open"
    PROVE  ListInv'
<1>1. ListTypes' /\ WaitersCounted' /\ WaitingIsEmptyHanded' /\ UnwantedIsCancelled'
  <2>1. \A c : WaitersOf(c)' = WaitersOf(c)
    BY DEF WaitersOf
  <2>2. ListTypes'
    BY DEF ListInv, ListTypes
  <2> QED BY <2>1, <2>2 DEF ListInv, WaitersCounted, WaitingIsEmptyHanded,
                            UnwantedIsCancelled, CallIds
<1>2. lister' = "open" => PendingIsSound' /\ AwaitedIsSound'
  BY DEF ListInv, PendingIsSound, AwaitedIsSound, Sound, CallIds
<1> QED BY <1>1, <1>2 DEF ListInv

\* A call goes on with its work: its requesters notice nothing.
LEMMA CallMoves ==
    ASSUME ListInv, NEW c \in CallIds, NEW P, calls \in Seq(CallRecords(P)),
           NEW r \in CallRecords(P), calls' = [calls EXCEPT ![c] = r],
           r.agent = calls[c].agent, r.waiters = calls[c].waiters,
           r.cancelled = calls[c].cancelled, calls[c].started => r.started,
           r.stage \in {"queued", "checking"} => ~r.started,
           r.line = "cancelled" => calls[c].line = "cancelled" \/ calls[c].cancelled
                                      \/ lister # "open",
           pending' \in [ListedAgents -> Nat],
           \A a \in ListedAgents : pending'[a] \in {pending[a], Nothing},
           UNCHANGED <<asker, lister>>
    PROVE  ListInv'
<1>1. /\ Len(calls') = Len(calls) /\ Len(calls) \in Nat /\ calls' \in Seq(CallRecords(P))
      /\ CallIds' = CallIds /\ calls'[c] = r
      /\ \A d \in CallIds : d # c => calls'[d] = calls[d]
  BY DEF CallIds
<1>2. \A d : WaitersOf(d)' = WaitersOf(d)
  BY DEF WaitersOf
<1>3. \A d \in CallIds : /\ calls'[d].agent = calls[d].agent /\ calls'[d].waiters = calls[d].waiters
                         /\ calls'[d].cancelled = calls[d].cancelled
                         /\ calls[d].started => calls'[d].started
  BY <1>1
<1>4. ListTypes'
  BY <1>1 DEF ListInv, ListTypes
<1>5. WaitersCounted' /\ WaitingIsEmptyHanded'
  BY <1>1, <1>2, <1>3 DEF ListInv, WaitersCounted, WaitingIsEmptyHanded
<1>6. UnwantedIsCancelled'
  BY <1>1, <1>3 DEF ListInv, UnwantedIsCancelled
<1>7. ASSUME lister = "open", NEW d \in CallIds, Sound(d)
      PROVE  Sound(d)'
  BY <1>1, <1>7 DEF Sound
<1>8. lister' = "open" => PendingIsSound' /\ AwaitedIsSound'
  BY <1>1, <1>3, <1>7 DEF ListInv, PendingIsSound, AwaitedIsSound, WaitingIsEmptyHanded
<1> QED BY <1>4, <1>5, <1>6, <1>8 DEF ListInv

LEMMA MoreProcs ==
    ASSUME NEW P, NEW x, calls \in Seq(CallRecords(P))
    PROVE  calls \in Seq(CallRecords(P \cup {x}))
<1>1. CallRecords(P) \subseteq CallRecords(P \cup {x})
  BY DEF CallRecords
<1>2. /\ Len(calls) \in Nat /\ calls = [i \in 1..Len(calls) |-> calls[i]]
      /\ \A i \in 1..Len(calls) : calls[i] \in CallRecords(P)
  OBVIOUS
<1> DEFINE R == CallRecords(P \cup {x})
<1>3. \A i \in 1..Len(calls) : calls[i] \in R
  BY <1>1, <1>2
<1> HIDE DEF R
<1>4. [i \in 1..Len(calls) |-> calls[i]] \in Seq(R)
  BY <1>2, <1>3
<1> QED BY <1>2, <1>4 DEF R

LEMMA CallStepKeeps ==
    ASSUME ListInv, NEW c \in CallIds, CallStep(c)
    PROVE  ListInv'
<1>1. PICK P0 : calls \in Seq(CallRecords(P0))
  BY DEF ListInv, ListTypes
<1> DEFINE x == calls'[c].proc
           P == P0 \cup {x}
           r == calls'[c]
<1>a. calls \in Seq(CallRecords(P)) /\ x \in P
  BY <1>1, MoreProcs
<1> HIDE DEF P, x, r
<1>2. calls \in Seq(CallRecords(P)) /\ x \in P /\ calls[c] \in CallRecords(P)
      /\ Len(calls) \in Nat /\ c \in 1..Len(calls) /\ DOMAIN calls = 1..Len(calls)
  BY <1>a DEF CallIds
<1>3. pending \in [ListedAgents -> Nat] /\ calls[c].agent \in ListedAgents
  BY <1>2 DEF ListInv, ListTypes, CallRecords
<1>4. calls[c].stage \in {"queued", "checking"} => ~calls[c].started
  BY DEF ListInv, UnwantedIsCancelled
<1>5. ~calls[c].started /\ calls[c].waiters = 0 => calls[c].cancelled
  BY DEF ListInv, UnwantedIsCancelled
<1>6. ASSUME UNCHANGED <<asker, lister>>, calls' = [calls EXCEPT ![c] = r], r \in CallRecords(P),
             r.agent = calls[c].agent, r.waiters = calls[c].waiters,
             r.cancelled = calls[c].cancelled, calls[c].started => r.started,
             r.stage \in {"queued", "checking"} => ~r.started,
             r.line = "cancelled" => calls[c].line = "cancelled" \/ calls[c].cancelled
                                      \/ lister # "open",
             UNCHANGED pending \/ pending' = Off(calls[c].agent, c)
      PROVE  ListInv'
  <2>1. pending' \in [ListedAgents -> Nat]
        /\ \A a \in ListedAgents : pending'[a] \in {pending[a], Nothing}
    BY <1>3, <1>6 DEF Off, Nothing
  <2> QED BY <1>2, <1>6, <2>1, CallMoves
<1> DEFINE Became(s, y, l, b) == [calls[c] EXCEPT !.stage = s, !.proc = y, !.line = l, !.started = b]
<1>7. ASSUME NEW s \in ListStages, s \notin {"queued", "checking"} \/ (s = "checking" /\ calls[c].stage = "queued"),
             NEW y, NEW l \in Lines, NEW b \in BOOLEAN,
             calls' = [calls EXCEPT ![c] = Became(s, y, l, b)],
             calls[c].started => b, s = "checking" => ~b,
             l = "cancelled" => calls[c].line = "cancelled" \/ calls[c].cancelled \/ lister # "open",
             UNCHANGED <<asker, lister>>, UNCHANGED pending \/ pending' = Off(calls[c].agent, c)
      PROVE  ListInv'
  <2>1. r = [calls[c] EXCEPT !.stage = s, !.proc = y, !.line = l, !.started = b]
    BY <1>2, <1>7 DEF r
  <2>2. r.proc = y /\ x = y
    BY <1>2, <2>1 DEF CallRecords, r, x
  <2>3. r \in CallRecords(P)
    BY <1>2, <1>7, <2>1, <2>2 DEF CallRecords
  <2> QED BY <1>2, <1>4, <1>6, <1>7, <2>1, <2>3 DEF CallRecords
<1> HIDE DEF Became
<1> DEFINE o == calls[c]
<1>t. /\ o.line \in Lines /\ o.started \in BOOLEAN
      /\ {"checking", "starting", "listing", "leaving", "ending", "done"} \subseteq ListStages
      /\ {"cancelled", "failed", "listed"} \subseteq Lines
  BY <1>2 DEF CallRecords, ListStages, Lines
<1>8. CASE TakesSlot(c)
  <2>1. calls' = [calls EXCEPT ![c] = Became("checking", o.proc, o.line, o.started)]
    BY <1>2, <1>8 DEF TakesSlot, Moves, CallRecords, Became
  <2> QED BY <1>4, <1>7, <1>t, <1>8, <2>1 DEF TakesSlot
<1>9. CASE GivesUp(c)
  <2>1. calls' = [calls EXCEPT ![c] = Became("ending", o.proc, "cancelled", o.started)]
    BY <1>2, <1>9 DEF GivesUp, CallRecords, Became
  <2>2. UNCHANGED <<asker, lister, pending>> /\ calls[c].cancelled
    BY <1>9 DEF GivesUp
  <2> QED BY <1>7, <1>t, <2>1, <2>2
<1>10. CASE admitListing(c) /\ Admitted(c)
  <2>1. calls' = [calls EXCEPT ![c] = Became("starting", o.proc, o.line, TRUE)]
    BY <1>2, <1>10 DEF admitListing, CallRecords, Became
  <2>2. UNCHANGED <<asker, lister, pending>>
    BY <1>10 DEF admitListing
  <2> QED BY <1>7, <1>t, <2>1, <2>2
<1>11. CASE admitListing(c) /\ ~Admitted(c)
  <2>1. calls' = [calls EXCEPT ![c] = Became("ending", o.proc, "cancelled", o.started)]
    BY <1>2, <1>11 DEF admitListing, CallRecords, Became
  <2>2. calls[c].cancelled \/ lister # "open"
    BY <1>2, <1>4, <1>5, <1>11 DEF admitListing, Admitted, CallRecords
  <2>3. UNCHANGED <<asker, lister, pending>>
    BY <1>11 DEF admitListing
  <2> QED BY <1>7, <1>t, <2>1, <2>2, <2>3
<1>12. CASE TakesWarm(c)
  <2>1. calls' = [calls EXCEPT ![c] = Became("listing", warm[o.agent], o.line, o.started)]
    BY <1>2, <1>12 DEF TakesWarm, CallRecords, Became
  <2>2. UNCHANGED <<asker, lister, pending>>
    BY <1>12 DEF TakesWarm
  <2> QED BY <1>7, <1>t, <2>1, <2>2
<1>13. CASE DropsDead(c)
  BY <1>13, ListStays DEF DropsDead
<1>14. CASE Spawns(c)
  <2>1. calls' = [calls EXCEPT ![c] = Became("listing", Len(procs) + 1, o.line, o.started)]
    BY <1>2, <1>14 DEF Spawns, CallRecords, Became
  <2>2. UNCHANGED <<asker, lister, pending>>
    BY <1>14 DEF Spawns
  <2> QED BY <1>7, <1>t, <2>1, <2>2
<1>15. CASE SpawnFails(c)
  <2>1. calls' = [calls EXCEPT ![c] = Became("leaving", o.proc, "failed", o.started)]
    BY <1>2, <1>15 DEF SpawnFails, CallRecords, Became
  <2>2. UNCHANGED <<asker, lister, pending>>
    BY <1>15 DEF SpawnFails
  <2> QED BY <1>7, <1>t, <2>1, <2>2
<1>16. CASE Lists(c)
  <2>1. calls' = [calls EXCEPT ![c] = Became("leaving", Nothing, "listed", o.started)]
    BY <1>2, <1>16 DEF Lists, CallRecords, Became
  <2>2. UNCHANGED <<asker, lister, pending>>
    BY <1>16 DEF Lists
  <2> QED BY <1>7, <1>t, <2>1, <2>2
<1>17. CASE ListFails(c)
  <2> DEFINE l == IF o.cancelled THEN "cancelled" ELSE "failed"
  <2>1. calls' = [calls EXCEPT ![c] = Became("leaving", Nothing, l, o.started)]
    BY <1>2, <1>17 DEF ListFails, CallRecords, Became
  <2>2. l \in Lines /\ (l = "cancelled" => o.cancelled)
    BY DEF Lines
  <2> HIDE DEF l
  <2>3. UNCHANGED <<asker, lister, pending>>
    BY <1>17 DEF ListFails
  <2> QED BY <1>7, <1>t, <2>1, <2>2, <2>3
<1>18. CASE FreesSlot(c)
  <2>1. calls' = [calls EXCEPT ![c] = Became("ending", o.proc, o.line, o.started)]
    BY <1>2, <1>18 DEF FreesSlot, Moves, CallRecords, Became
  <2>2. UNCHANGED <<asker, lister, pending>>
    BY <1>18 DEF FreesSlot
  <2> QED BY <1>7, <1>t, <2>1, <2>2
<1>19. CASE runListingEnds(c)
  <2>1. calls' = [calls EXCEPT ![c] = Became("done", o.proc, o.line, o.started)]
    BY <1>2, <1>19 DEF runListingEnds, Moves, CallRecords, Became
  <2>2. UNCHANGED <<asker, lister>> /\ pending' = Off(calls[c].agent, c)
    BY <1>19 DEF runListingEnds
  <2> QED BY <1>7, <1>t, <2>1, <2>2
<1> QED BY <1>8, <1>9, <1>10, <1>11, <1>12, <1>13, <1>14, <1>15, <1>16, <1>17, <1>18, <1>19
        DEF CallStep

\* Whoever stops waiting takes one off the counter of its call.
LEMMA LeaverKeeps ==
    ASSUME ListInv, NEW q \in Requesters, Waiting(q), NEW line \in Lines,
           Answered(q, line), releaseRequester(asker[q].call), UNCHANGED lister
    PROVE  ListInv'
<1>c. PICK c : c = asker[q].call
  OBVIOUS
<1>b. PICK b \in BOOLEAN : b <=> (calls[c].cancelled \/ Abandoned(c))
  OBVIOUS
<1>r. PICK r : r = [calls[c] EXCEPT !.waiters = @ - 1, !.cancelled = b]
  OBVIOUS
<1>1. PICK P : calls \in Seq(CallRecords(P))
  BY DEF ListInv, ListTypes
<1>2. c \in CallIds /\ c \in 1..Len(calls) /\ Len(calls) \in Nat /\ DOMAIN calls = 1..Len(calls)
      /\ calls[c] \in CallRecords(P)
  BY <1>c, <1>1 DEF ListInv, WaitingIsEmptyHanded, Waiting, CallIds
<1>3. /\ asker \in [Requesters -> [at : {"idle", "waiting", "done"}, call : Nat, line : Lines]]
      /\ pending \in [ListedAgents -> Nat]
  BY DEF ListInv, ListTypes
<1>4. /\ asker'[q].at = "done" /\ \A p \in Requesters : p # q => asker'[p] = asker[p]
      /\ asker' \in [Requesters -> [at : {"idle", "waiting", "done"}, call : Nat, line : Lines]]
  BY <1>3 DEF Answered
<1>5. /\ WaitersOf(c)' = WaitersOf(c) \ {q} /\ q \in WaitersOf(c)
      /\ \A d : d # c => WaitersOf(d)' = WaitersOf(d)
  BY <1>c, <1>4 DEF WaitersOf, Waiting
<1>6. IsFiniteSet(WaitersOf(c)) /\ calls[c].waiters = Cardinality(WaitersOf(c))
  BY <1>2 DEF ListInv, WaitersCounted
<1>7. IsFiniteSet(WaitersOf(c)') /\ Cardinality(WaitersOf(c)') = calls[c].waiters - 1
      /\ calls[c].waiters \in Nat /\ calls[c].waiters # 0
  BY <1>5, <1>6, FS_RemoveElement, FS_EmptySet, FS_CardinalityType
<1>8. r \in CallRecords(P) /\ r.waiters = calls[c].waiters - 1 /\ r.agent = calls[c].agent
      /\ r.cancelled = b /\ r.started = calls[c].started
      /\ r.stage = calls[c].stage /\ r.line = calls[c].line
  <2>1. calls[c].waiters \in Nat /\ calls[c].waiters # 0 /\ calls[c].waiters - 1 \in Nat
    BY <1>7
  <2> QED BY <1>b, <1>r, <1>2, <2>1 DEF CallRecords
<1>9. calls' = [calls EXCEPT ![c] = r]
  <2>1. calls[c].cancelled \in BOOLEAN /\ (calls[c].cancelled \/ Abandoned(c)) \in BOOLEAN
    BY <1>2 DEF CallRecords, Abandoned
  <2>2. (calls[c].cancelled \/ Abandoned(c)) = b
    BY <1>b, <2>1
  <2>3. calls' = [calls EXCEPT ![c] = [calls[c] EXCEPT !.waiters = @ - 1,
                                          !.cancelled = calls[c].cancelled \/ Abandoned(c)]]
    BY <1>c, <1>2 DEF releaseRequester, CallRecords
  <2> QED BY <1>r, <2>2, <2>3
<1>10. /\ Len(calls') = Len(calls) /\ calls' \in Seq(CallRecords(P)) /\ CallIds' = CallIds
       /\ calls'[c] = r /\ \A d \in CallIds : d # c => calls'[d] = calls[d]
  BY <1>1, <1>2, <1>8, <1>9 DEF CallIds
<1>11. pending' = IF Abandoned(c) THEN Off(calls[c].agent, c) ELSE pending
  BY <1>c DEF releaseRequester
<1>12. ListTypes'
  <2>1. pending' \in [ListedAgents -> Nat]
    BY <1>3, <1>11 DEF Off, Nothing
  <2> QED BY <1>4, <1>10, <2>1 DEF ListTypes
<1>13. WaitersCounted'
  BY <1>5, <1>7, <1>8, <1>10 DEF ListInv, WaitersCounted
<1>14. WaitingIsEmptyHanded'
  BY <1>4, <1>10 DEF ListInv, WaitingIsEmptyHanded
<1>15. UnwantedIsCancelled'
  <2>1. ~r.started /\ r.waiters = 0 => r.cancelled
    BY <1>b, <1>2, <1>7, <1>8 DEF Abandoned, CallRecords
  <2>2. calls[c].stage \in {"queued", "checking"} => ~calls[c].started
    BY <1>2 DEF ListInv, UnwantedIsCancelled
  <2> QED BY <1>8, <1>10, <2>1, <2>2 DEF ListInv, UnwantedIsCancelled
<1>16. ASSUME lister = "open" PROVE PendingIsSound' /\ AwaitedIsSound'
  <2>1. PendingIsSound /\ AwaitedIsSound
    BY <1>16 DEF ListInv
  <2>2. Abandoned(c) => \A p \in Requesters : asker'[p].at = "waiting" => asker[p].call # c
    <3> SUFFICES ASSUME Abandoned(c) PROVE WaitersOf(c)' = {}
      BY <1>4 DEF WaitersOf
    <3> QED BY <1>7, FS_EmptySet DEF Abandoned
  <2>3. \A d \in CallIds : Sound(d) /\ (d = c => ~Abandoned(c)) => Sound(d)'
    BY <1>b, <1>8, <1>10 DEF Sound
  <2>4. AwaitedIsSound'
    BY <1>4, <2>1, <2>2, <2>3 DEF AwaitedIsSound, ListInv, WaitingIsEmptyHanded
  <2>5. ASSUME NEW a \in ListedAgents, pending'[a] # Nothing
        PROVE  pending'[a] = pending[a] /\ (pending[a] = c => ~Abandoned(c))
    BY <1>3, <1>11, <2>1, <2>5 DEF PendingIsSound, Off
  <2>6. \A d \in CallIds : calls'[d].agent = calls[d].agent
    BY <1>8, <1>10
  <2>7. PendingIsSound'
    BY <1>10, <2>1, <2>3, <2>5, <2>6 DEF PendingIsSound
  <2> QED BY <2>4, <2>7
<1> QED BY <1>12, <1>13, <1>14, <1>15, <1>16 DEF ListInv

\* A requester that waits on c adds one to its counter.
LEMMA AskersKeep ==
    ASSUME ListInv, NEW q \in Requesters, NEW a \in ListedAgents,
           AnsweredAtOnce(q, a) \/ JoinsCall(q, a) \/ StartsCall(q, a)
    PROVE  ListInv'
<1>1. PICK P0 : calls \in Seq(CallRecords(P0))
  BY DEF ListInv, ListTypes
<1> DEFINE P == P0 \cup {Nothing}
<1>a. calls \in Seq(CallRecords(P)) /\ Nothing \in P
  BY <1>1, MoreProcs
<1> HIDE DEF P
<1>2. Len(calls) \in Nat /\ DOMAIN calls = 1..Len(calls) /\ \A d \in CallIds : calls[d] \in CallRecords(P)
  BY <1>a DEF CallIds
<1>3. /\ asker \in [Requesters -> [at : {"idle", "waiting", "done"}, call : Nat, line : Lines]]
      /\ pending \in [ListedAgents -> Nat] /\ asker[q].at = "idle"
  BY DEF ListInv, ListTypes, AnsweredAtOnce, JoinsCall, StartsCall
<1>4. CASE AnsweredAtOnce(q, a)
  <2>1. /\ asker'[q].at = "done" /\ \A p \in Requesters : p # q => asker'[p] = asker[p]
        /\ asker' \in [Requesters -> [at : {"idle", "waiting", "done"}, call : Nat, line : Lines]]
        /\ UNCHANGED <<calls, pending, lister>>
    BY <1>3, <1>4 DEF AnsweredAtOnce, Answered, Lines
  <2>2. \A d : WaitersOf(d)' = WaitersOf(d)
    BY <1>3, <2>1 DEF WaitersOf
  <2>3. ListTypes' /\ WaitersCounted' /\ WaitingIsEmptyHanded' /\ UnwantedIsCancelled'
    BY <2>1, <2>2 DEF ListInv, ListTypes, WaitersCounted, WaitingIsEmptyHanded,
                      UnwantedIsCancelled, CallIds
  <2>4. lister' = "open" => PendingIsSound' /\ AwaitedIsSound'
    BY <2>1 DEF ListInv, PendingIsSound, AwaitedIsSound, Sound, CallIds
  <2> QED BY <2>3, <2>4 DEF ListInv
<1>5. CASE JoinsCall(q, a)
  <2>c. PICK c : c = pending[a]
    OBVIOUS
  <2>r. PICK r : r = [calls[c] EXCEPT !.waiters = @ + 1]
    OBVIOUS
  <2>1. c \in CallIds /\ Sound(c) /\ lister = "open" /\ lister' = lister /\ pending' = pending
        /\ c \in Nat /\ calls' = [calls EXCEPT ![c] = r] /\ Joins(q, c)
    BY <1>3, <1>5, <2>c, <2>r DEF JoinsCall, ListInv, PendingIsSound
  <2>2. r \in CallRecords(P) /\ r.waiters = calls[c].waiters + 1 /\ calls[c].waiters \in Nat
        /\ r.agent = calls[c].agent
        /\ r.cancelled = calls[c].cancelled /\ r.started = calls[c].started
        /\ r.stage = calls[c].stage /\ r.line = calls[c].line
    BY <1>2, <2>1, <2>r DEF CallRecords
  <2>3. /\ Len(calls') = Len(calls) /\ calls' \in Seq(CallRecords(P)) /\ CallIds' = CallIds
        /\ calls'[c] = r /\ \A d \in CallIds : d # c => calls'[d] = calls[d]
    BY <1>a, <1>2, <2>1, <2>2 DEF CallIds
  <2>4. /\ asker'[q].at = "waiting" /\ asker'[q].call = c /\ asker'[q].line = asker[q].line
        /\ \A p \in Requesters : p # q => asker'[p] = asker[p]
        /\ asker' \in [Requesters -> [at : {"idle", "waiting", "done"}, call : Nat, line : Lines]]
    BY <1>3, <2>1 DEF Joins
  <2>5. /\ WaitersOf(c)' = WaitersOf(c) \cup {q} /\ q \notin WaitersOf(c)
        /\ \A d : d # c => WaitersOf(d)' = WaitersOf(d)
    BY <1>3, <2>4 DEF WaitersOf
  <2>6. IsFiniteSet(WaitersOf(c)') /\ r.waiters = Cardinality(WaitersOf(c)')
    BY <2>1, <2>2, <2>5, FS_AddElement DEF ListInv, WaitersCounted
  <2>7. ListTypes'
    BY <1>3, <2>1, <2>3, <2>4 DEF ListTypes
  <2>8. WaitersCounted'
    BY <2>3, <2>5, <2>6 DEF ListInv, WaitersCounted
  <2>9. WaitingIsEmptyHanded'
    BY <1>3, <2>1, <2>3, <2>4 DEF ListInv, WaitingIsEmptyHanded
  <2>10. UnwantedIsCancelled'
    BY <2>1, <2>2, <2>3 DEF ListInv, UnwantedIsCancelled
  <2>11. \A d \in CallIds : Sound(d) => Sound(d)'
    BY <2>2, <2>3 DEF Sound
  <2>12. AwaitedIsSound'
    BY <2>1, <2>4, <2>11 DEF ListInv, AwaitedIsSound, WaitingIsEmptyHanded
  <2>14. \A d \in CallIds : calls'[d].agent = calls[d].agent
    BY <2>2, <2>3
  <2>13. PendingIsSound'
    BY <2>1, <2>3, <2>11, <2>14 DEF ListInv, PendingIsSound
  <2> QED BY <2>7, <2>8, <2>9, <2>10, <2>12, <2>13 DEF ListInv
<1>6. CASE StartsCall(q, a)
  <2>c. PICK c : c = Len(calls) + 1
    OBVIOUS
  <2>r. PICK r : r = [agent |-> a, waiters |-> 1, started |-> FALSE, cancelled |-> FALSE,
                      stage |-> "queued", proc |-> Nothing, line |-> "none"]
    OBVIOUS
  <2>1. /\ lister = "open" /\ lister' = lister /\ pending' = [pending EXCEPT ![a] = c]
        /\ calls' = Append(calls, r) /\ Joins(q, c)
    BY <1>6, <2>c, <2>r DEF StartsCall
  <2>2. r \in CallRecords(P) /\ r.waiters = 1 /\ r.agent = a /\ ~r.cancelled /\ ~r.started
        /\ r.line = "none"
    BY <1>a, <2>r DEF CallRecords, ListStages, Lines
  <2>b. c \in Nat /\ c \notin CallIds /\ CallIds \cup {c} = 1..c
    BY <1>2, <2>c DEF CallIds
  <2>3. /\ calls' \in Seq(CallRecords(P)) /\ CallIds' = CallIds \cup {c}
        /\ calls'[c] = r /\ \A d \in CallIds : calls'[d] = calls[d]
    BY <1>a, <1>2, <2>c, <2>1, <2>2, <2>b DEF CallIds
  <2>4. /\ asker'[q].at = "waiting" /\ asker'[q].call = c /\ asker'[q].line = asker[q].line
        /\ \A p \in Requesters : p # q => asker'[p] = asker[p]
        /\ asker' \in [Requesters -> [at : {"idle", "waiting", "done"}, call : Nat, line : Lines]]
    BY <1>3, <2>1, <2>b DEF Joins
  <2>5. /\ WaitersOf(c)' = {q} /\ \A d \in CallIds : WaitersOf(d)' = WaitersOf(d)
    BY <1>3, <2>4, <2>b DEF WaitersOf, ListInv, WaitingIsEmptyHanded
  <2>6. IsFiniteSet(WaitersOf(c)') /\ Cardinality(WaitersOf(c)') = 1
    BY <2>5, FS_Singleton
  <2>7. ListTypes'
    BY <1>3, <2>1, <2>3, <2>4, <2>b DEF ListTypes
  <2>8. WaitersCounted'
    BY <2>2, <2>3, <2>5, <2>6 DEF ListInv, WaitersCounted
  <2>9. WaitingIsEmptyHanded'
    BY <1>3, <2>1, <2>3, <2>4 DEF ListInv, WaitingIsEmptyHanded
  <2>10. UnwantedIsCancelled'
    BY <2>2, <2>3 DEF ListInv, UnwantedIsCancelled
  <2>11. Sound(c)' /\ \A d \in CallIds : Sound(d) => Sound(d)'
    BY <2>2, <2>3 DEF Sound
  <2>12. AwaitedIsSound'
    BY <2>1, <2>4, <2>11 DEF ListInv, AwaitedIsSound, WaitingIsEmptyHanded
  <2>13. PendingIsSound'
    BY <1>3, <2>1, <2>2, <2>3, <2>11 DEF ListInv, PendingIsSound
  <2> QED BY <2>7, <2>8, <2>9, <2>10, <2>12, <2>13 DEF ListInv
<1> QED BY <1>4, <1>5, <1>6

LEMMA CloserKeeps ==
    ASSUME ListInv, ListerCloses
    PROVE  ListInv'
<1>1. PICK P : calls \in Seq(CallRecords(P))
  BY DEF ListInv, ListTypes
<1>2. /\ Len(calls) \in Nat /\ DOMAIN calls = 1..Len(calls)
      /\ \A d \in CallIds : calls[d] \in CallRecords(P)
      /\ UNCHANGED <<asker, pending>> /\ lister' # "open"
  BY <1>1 DEF CallIds, ListerCloses
<1> DEFINE V(d) == IF d \in Range(pending) THEN [calls[d] EXCEPT !.cancelled = TRUE] ELSE calls[d]
<1>3. calls' = [d \in 1..Len(calls) |-> V(d)]
  BY DEF ListerCloses, CallIds
<1>4. \A d \in CallIds : /\ V(d) \in CallRecords(P) /\ V(d).waiters = calls[d].waiters
                         /\ V(d).started = calls[d].started /\ V(d).stage = calls[d].stage
                         /\ calls[d].cancelled => V(d).cancelled
  BY <1>2 DEF CallRecords
<1> HIDE DEF V
<1>5. /\ calls' \in Seq(CallRecords(P)) /\ CallIds' = CallIds
      /\ \A d \in CallIds : calls'[d] = V(d)
  BY <1>2, <1>3, <1>4 DEF CallIds
<1>6. \A d : WaitersOf(d)' = WaitersOf(d)
  BY <1>2 DEF WaitersOf
<1>7. ListTypes' /\ WaitingIsEmptyHanded'
  BY <1>2, <1>5 DEF ListInv, ListTypes, WaitingIsEmptyHanded
<1>8. WaitersCounted' /\ UnwantedIsCancelled'
  BY <1>4, <1>5, <1>6 DEF ListInv, WaitersCounted, UnwantedIsCancelled
<1> QED BY <1>2, <1>7, <1>8 DEF ListInv

LEMMA ListStep == ListInv /\ [ListNext]_listVars => ListInv'
<1> SUFFICES ASSUME ListInv, [ListNext]_listVars PROVE ListInv'
  OBVIOUS
<1>1. CASE \E q \in Requesters : ReceivesLine(q) \/ Leaves(q)
  <2>1. PICK q \in Requesters : ReceivesLine(q) \/ Leaves(q)
    BY <1>1
  <2>2. CASE ReceivesLine(q)
    <3>1. PICK P : calls \in Seq(CallRecords(P))
      BY DEF ListInv, ListTypes
    <3>2. asker[q].call \in 1..Len(calls)
      BY <2>2 DEF ListInv, WaitingIsEmptyHanded, ReceivesLine, Waiting, CallIds
    <3>3. calls[asker[q].call] \in CallRecords(P)
      BY <3>1, <3>2
    <3>4. calls[asker[q].call].line \in Lines
      BY <3>3 DEF CallRecords
    <3> QED BY <2>2, <3>4, LeaverKeeps DEF ReceivesLine
  <2>3. CASE Leaves(q)
    BY <2>3, LeaverKeeps DEF Leaves, Lines
  <2> QED BY <2>1, <2>2, <2>3
<1>2. CASE \E q \in Requesters, a \in ListedAgents :
               AnsweredAtOnce(q, a) \/ JoinsCall(q, a) \/ StartsCall(q, a)
  BY <1>2, AskersKeep
<1>3. CASE \E c \in CallIds : CallStep(c)
  BY <1>3, CallStepKeeps
<1>4. CASE \E p \in ListProcs : WarmTimerFires(p) \/ WarmTimerRuns(p) \/ DiscardEnds(p) \/ AgentDies(p)
  BY <1>4, ListStays DEF WarmTimerFires, WarmTimerRuns, DiscardEnds, AgentDies
<1>5. CASE (\E a \in ListedAgents : CacheExpires(a)) \/ Pressure \/ ListerClosed
  <2>1. UNCHANGED <<asker, calls, pending>> /\ (lister' = "open" => lister = "open")
    BY <1>5 DEF CacheExpires, Pressure, ListerClosed
  <2> QED BY <2>1, ListStays
<1>6. CASE ListerCloses
  BY <1>6, CloserKeeps
<1>7. CASE UNCHANGED listVars
  BY <1>7, ListStays DEF listVars
<1> QED BY <1>1, <1>2, <1>3, <1>4, <1>5, <1>6, <1>7 DEF ListNext

\* A device that still waits on an open lister is never told that the listing
\* was cancelled (agentLine, releaseRequester).
THEOREM NobodyElsesCancel == ListSpec => NoBorrowedCancel
<1>1. ListInit => ListInv
  BY ListStart
<1>2. ASSUME ListInv, [ListNext]_listVars
      PROVE  [\A q \in Requesters :
                 (asker[q].at = "waiting" /\ asker'[q].line = "cancelled") => lister # "open"]_listVars
  <2> SUFFICES ASSUME NEW q \in Requesters, asker[q].at = "waiting", asker'[q].line = "cancelled",
                      lister = "open"
               PROVE  FALSE
    BY <1>2
  <2>1. asker[q].line = "none" /\ Sound(asker[q].call)
        /\ asker \in [Requesters -> [at : {"idle", "waiting", "done"}, call : Nat, line : Lines]]
    BY <1>2 DEF ListInv, ListTypes, WaitingIsEmptyHanded, AwaitedIsSound
  <2>2. \A c \in CallIds : CallStep(c) => UNCHANGED asker
    BY DEF CallStep, TakesSlot, GivesUp, admitListing, TakesWarm, DropsDead, Spawns, SpawnFails,
           Lists, ListFails, FreesSlot, runListingEnds
  <2>3. asker' # asker
    BY <2>1
  <2>4. PICK p \in Requesters : \/ ReceivesLine(p) \/ Leaves(p)
                                \/ \E a \in ListedAgents : AnsweredAtOnce(p, a) \/ JoinsCall(p, a)
                                                           \/ StartsCall(p, a)
    BY <1>2, <2>2, <2>3 DEF ListNext, listVars, WarmTimerFires, WarmTimerRuns, DiscardEnds, AgentDies,
                      CacheExpires, Pressure, ListerCloses, ListerClosed
  <2>5. CASE p = q
    <3>1. \A a : ~AnsweredAtOnce(q, a) /\ ~JoinsCall(q, a) /\ ~StartsCall(q, a)
      BY DEF AnsweredAtOnce, JoinsCall, StartsCall
    <3>2. asker'[q].line = calls[asker[q].call].line \/ asker'[q].line = "left"
      <4>1. ReceivesLine(q) \/ Leaves(q)
        BY <2>4, <2>5, <3>1
      <4>2. Answered(q, calls[asker[q].call].line) \/ Answered(q, "left")
        BY <4>1 DEF ReceivesLine, Leaves
      <4> QED BY <2>1, <4>2 DEF Answered
    <3> QED BY <2>1, <3>2 DEF Sound
  <2>6. CASE p # q
    <3>1. asker'[q] = asker[q]
      BY <2>1, <2>4, <2>6 DEF ReceivesLine, Leaves, AnsweredAtOnce, JoinsCall, StartsCall, Answered, Joins
    <3> QED BY <2>1, <3>1
  <2> QED BY <2>5, <2>6
<1> QED BY <1>1, <1>2, ListStep, PTL DEF ListSpec, NoBorrowedCancel

-----------------------------------------------------------------------------
(* Warm processes.                                                         *)

Uses == {"listing", "warm", "stopping", "gone"}
ProcRecords == [agent : ListedAgents, alive : BOOLEAN, use : Uses, timer : {"none", "armed", "fired"}]
ProcTypes == procs \in Seq(ProcRecords) /\ warm \in [ListedAgents -> Nat]

\* The map of warm processes holds those that are warm, each under its agent.
ParkedIsWarm ==
    /\ \A a \in ListedAgents : warm[a] # Nothing =>
           warm[a] \in ListProcs /\ procs[warm[a]].agent = a /\ procs[warm[a]].use = "warm"
    /\ \A p \in ListProcs : procs[p].use = "warm" => warm[procs[p].agent] = p

\* "one-flight-at-a-time": a call that may yet list is the one its agent's
\* requesters share.
OneFlight ==
    \A c \in CallIds :
        /\ \/ calls[c].stage \in {"starting", "listing"}
           \/ calls[c].stage \in {"queued", "checking"} /\ ~calls[c].cancelled
           => pending[calls[c].agent] = c
        /\ calls[c].stage \in {"starting", "listing"} => calls[c].started

\* A call that lists has a process of its agent to itself, and none is parked.
ListingHasProc ==
    /\ \A c \in CallIds : calls[c].stage = "listing" =>
           /\ calls[c].proc \in ListProcs /\ procs[calls[c].proc].use = "listing"
           /\ procs[calls[c].proc].agent = calls[c].agent /\ warm[calls[c].agent] = Nothing
    /\ \A p \in ListProcs : procs[p].use = "listing" =>
           \E c \in CallIds : calls[c].stage = "listing" /\ calls[c].proc = p

ClosedIsEmpty ==
    /\ lister # "open" => \A a \in ListedAgents : warm[a] = Nothing
    /\ lister = "closed" => /\ \A c \in CallIds : calls[c].stage = "done"
                            /\ \A p \in ListProcs : procs[p].use = "gone"

WarmInv == ProcTypes /\ ParkedIsWarm /\ OneFlight /\ ListingHasProc /\ ClosedIsEmpty

LEMMA CallsTyped ==
    ASSUME ListInv
    PROVE  /\ Len(calls) \in Nat /\ CallIds = 1..Len(calls) /\ DOMAIN calls = CallIds
           /\ \A c \in CallIds : c # Nothing /\ \E P : calls[c] \in CallRecords(P)
           /\ \A c \in CallIds : calls[c].agent \in ListedAgents
           /\ pending \in [ListedAgents -> Nat]
<1>1. PICK P : calls \in Seq(CallRecords(P))
  BY DEF ListInv, ListTypes
<1>2. /\ Len(calls) \in Nat /\ CallIds = 1..Len(calls) /\ DOMAIN calls = CallIds
      /\ \A c \in CallIds : c # Nothing /\ calls[c] \in CallRecords(P)
  BY <1>1 DEF CallIds, Nothing
<1>3. \A c \in CallIds : calls[c].agent \in ListedAgents
  BY <1>2 DEF CallRecords
<1> QED BY <1>2, <1>3 DEF ListInv, ListTypes

LEMMA BecomesMeans ==
    ASSUME procs \in Seq(ProcRecords), NEW p \in ListProcs, NEW use \in Uses,
           NEW tm \in {"none", "armed", "fired"}, Becomes(p, use, tm)
    PROVE  /\ procs' \in Seq(ProcRecords) /\ ListProcs' = ListProcs
           /\ procs'[p].use = use /\ procs'[p].agent = procs[p].agent
           /\ \A q \in ListProcs : q # p => procs'[q] = procs[q]
<1>1. p \in 1..Len(procs) /\ Len(procs) \in Nat /\ procs[p] \in ProcRecords
  BY DEF ListProcs
<1>2. PICK r : r = [procs[p] EXCEPT !.use = use, !.timer = tm]
  OBVIOUS
<1>3. r \in ProcRecords /\ r.use = use /\ r.agent = procs[p].agent
  BY <1>1, <1>2 DEF ProcRecords
<1>4. procs' = [procs EXCEPT ![p] = r]
  BY <1>1, <1>2 DEF Becomes
<1> QED BY <1>1, <1>3, <1>4 DEF ListProcs

LEMMA UnarmedIsTimer ==
    ASSUME procs \in Seq(ProcRecords), NEW p \in ListProcs
    PROVE  procs[p].timer \in {"none", "armed", "fired"} /\ Unarmed(p) \in {"none", "armed", "fired"}
           /\ procs[p].use \in Uses /\ procs[p].agent \in ListedAgents
<1>1. procs[p] \in ProcRecords
  BY DEF ListProcs
<1> QED BY <1>1 DEF ProcRecords, Unarmed

\* Requests come and go; they leave processes alone.
LEMMA RequestersKeepWarm ==
    ASSUME ListInv, WarmInv, ListInv', UNCHANGED <<procs, warm, lister>>,
           CallIds \subseteq CallIds',
           \A c \in CallIds : /\ calls'[c].agent = calls[c].agent /\ calls'[c].stage = calls[c].stage
                              /\ calls'[c].proc = calls[c].proc /\ calls'[c].started = calls[c].started
                              /\ calls[c].cancelled => calls'[c].cancelled,
           \A c \in CallIds : pending[calls[c].agent] = c /\ (calls[c].started \/ ~calls'[c].cancelled) =>
                                  pending'[calls[c].agent] = c,
           \A c \in CallIds' : c \notin CallIds =>
               /\ lister = "open" /\ calls'[c].stage = "queued" /\ pending'[calls'[c].agent] = c
    PROVE  WarmInv'
<1>1. ProcTypes /\ ParkedIsWarm /\ OneFlight /\ ListingHasProc /\ ClosedIsEmpty
  BY DEF WarmInv
<1>2. ListProcs' = ListProcs
  BY DEF ListProcs
<1>3. ProcTypes' /\ ParkedIsWarm'
  BY <1>1, <1>2 DEF ProcTypes, ParkedIsWarm
<1>4. OneFlight'
  BY <1>1 DEF OneFlight
<1>5. ListingHasProc' /\ ClosedIsEmpty'
  BY <1>1, <1>2 DEF ListingHasProc, ClosedIsEmpty
<1> QED BY <1>3, <1>4, <1>5 DEF WarmInv

LEMMA ReleaseKeepsWarm ==
    ASSUME ListInv, WarmInv, ListInv', NEW c \in CallIds, releaseRequester(c), UNCHANGED <<procs, warm, lister>>
    PROVE  WarmInv'
<1>1. PICK P : calls[c] \in CallRecords(P)
  BY CallsTyped
<1>2. /\ Len(calls) \in Nat /\ CallIds = 1..Len(calls) /\ DOMAIN calls = CallIds
      /\ pending \in [ListedAgents -> Nat] /\ calls[c].agent \in ListedAgents
  BY CallsTyped
<1>3. /\ CallIds' = CallIds /\ \A d \in CallIds : d # c => calls'[d] = calls[d]
      /\ calls'[c].agent = calls[c].agent /\ calls'[c].stage = calls[c].stage
      /\ calls'[c].proc = calls[c].proc /\ calls'[c].started = calls[c].started
      /\ calls'[c].cancelled <=> calls[c].cancelled \/ Abandoned(c)
  BY <1>1, <1>2 DEF releaseRequester, CallRecords, CallIds
<1>4. \A d \in CallIds : pending[calls[d].agent] = d /\ (calls[d].started \/ ~calls'[d].cancelled) =>
                             pending'[calls[d].agent] = d
  <2> SUFFICES ASSUME NEW d \in CallIds, pending[calls[d].agent] = d,
                      calls[d].started \/ ~calls'[d].cancelled
               PROVE  pending'[calls[d].agent] = d
    OBVIOUS
  <2>1. d = c => ~Abandoned(c)
    BY <1>3 DEF Abandoned
  <2>2. calls[d].agent \in ListedAgents
    BY CallsTyped
  <2> QED BY <1>2, <2>1, <2>2 DEF releaseRequester, Off
<1> QED BY <1>3, <1>4, RequestersKeepWarm

LEMMA AskersKeepWarm ==
    ASSUME ListInv, WarmInv, ListInv', NEW q \in Requesters, NEW a \in ListedAgents,
           AnsweredAtOnce(q, a) \/ JoinsCall(q, a) \/ StartsCall(q, a)
    PROVE  WarmInv'
<1>1. UNCHANGED <<procs, warm, lister>>
  BY DEF AnsweredAtOnce, JoinsCall, StartsCall, parked
<1>2. /\ Len(calls) \in Nat /\ CallIds = 1..Len(calls) /\ DOMAIN calls = CallIds
      /\ pending \in [ListedAgents -> Nat] /\ \A c \in CallIds : calls[c].agent \in ListedAgents
  BY CallsTyped
<1>3. CASE AnsweredAtOnce(q, a)
  <2>1. UNCHANGED <<calls, pending>> /\ CallIds' = CallIds
    BY <1>3 DEF AnsweredAtOnce, CallIds
  <2> QED BY <1>1, <2>1, RequestersKeepWarm
<1>4. CASE JoinsCall(q, a)
  <2>1. PICK c : c = pending[a]
    OBVIOUS
  <2>2. c \in CallIds
    BY <1>4, <2>1 DEF JoinsCall, ListInv, PendingIsSound
  <2>3. PICK P : calls[c] \in CallRecords(P)
    BY <2>2, CallsTyped
  <2>4. calls' = [calls EXCEPT ![c].waiters = calls[c].waiters + 1] /\ UNCHANGED pending
    BY <1>2, <1>4, <2>1, <2>2 DEF JoinsCall
  <2>5. /\ CallIds' = CallIds /\ \A d \in CallIds : d # c => calls'[d] = calls[d]
        /\ calls'[c].agent = calls[c].agent /\ calls'[c].stage = calls[c].stage
        /\ calls'[c].proc = calls[c].proc /\ calls'[c].started = calls[c].started
        /\ calls'[c].cancelled = calls[c].cancelled
    BY <1>2, <2>2, <2>3, <2>4 DEF CallRecords, CallIds
  <2> QED BY <1>1, <2>4, <2>5, RequestersKeepWarm
<1>5. CASE StartsCall(q, a)
  <2>c. PICK c : c = Len(calls) + 1
    OBVIOUS
  <2>r. PICK r : r = [agent |-> a, waiters |-> 1, started |-> FALSE, cancelled |-> FALSE,
                      stage |-> "queued", proc |-> Nothing, line |-> "none"]
    OBVIOUS
  <2>1. /\ lister = "open" /\ pending[a] = Nothing /\ pending' = [pending EXCEPT ![a] = c]
        /\ calls' = Append(calls, r)
    BY <1>5, <2>c, <2>r DEF StartsCall
  <2>2. PICK P : calls \in Seq(CallRecords(P))
    BY DEF ListInv, ListTypes
  <2>3. r.agent = a /\ r.stage = "queued"
    BY <2>r
  <2>4. CallIds' = CallIds \cup {c} /\ calls'[c] = r /\ \A d \in CallIds : calls'[d] = calls[d]
    BY <1>2, <2>c, <2>1, <2>2 DEF CallIds
  <2>5. \A d \in CallIds : pending[calls[d].agent] = d => pending'[calls[d].agent] = d
    BY <1>2, <2>1 DEF Nothing
  <2>6. pending'[a] = c
    BY <1>2, <2>1
  <2> QED BY <1>1, <2>1, <2>3, <2>4, <2>5, <2>6, RequestersKeepWarm
<1> QED BY <1>3, <1>4, <1>5

\* A call goes on without touching a process.
LEMMA CallsKeepWarm ==
    ASSUME ListInv, WarmInv, NEW c \in CallIds, UNCHANGED <<procs, warm, lister>>, CallIds' = CallIds,
           \A d \in CallIds : d # c => calls'[d] = calls[d],
           calls'[c].agent = calls[c].agent, calls'[c].cancelled = calls[c].cancelled,
           calls[c].stage \notin {"listing", "done"}, calls'[c].stage # "listing",
           calls'[c].stage \in {"queued", "checking"} => calls[c].stage \in {"queued", "checking"},
           calls'[c].stage = "starting" => /\ calls[c].stage = "checking" /\ ~calls[c].cancelled
                                           /\ calls'[c].started,
           \/ UNCHANGED pending
           \/ pending' = Off(calls[c].agent, c) /\ calls'[c].stage = "done"
    PROVE  WarmInv'
<1>1. ProcTypes /\ ParkedIsWarm /\ OneFlight /\ ListingHasProc /\ ClosedIsEmpty
  BY DEF WarmInv
<1>2. ListProcs' = ListProcs
  BY DEF ListProcs
<1>3. /\ \A d \in CallIds : d # Nothing /\ calls[d].agent \in ListedAgents
      /\ pending \in [ListedAgents -> Nat]
  BY CallsTyped
<1>4. \A d \in CallIds : d # c /\ pending[calls[d].agent] = d => pending'[calls[d].agent] = d
  BY <1>3 DEF Off
<1>5. ProcTypes' /\ ParkedIsWarm'
  BY <1>1, <1>2 DEF ProcTypes, ParkedIsWarm
<1>6. OneFlight'
  <2> SUFFICES ASSUME NEW d \in CallIds
               PROVE  /\ \/ calls'[d].stage \in {"starting", "listing"}
                         \/ calls'[d].stage \in {"queued", "checking"} /\ ~calls'[d].cancelled
                         => pending'[calls'[d].agent] = d
                      /\ calls'[d].stage \in {"starting", "listing"} => calls'[d].started
    BY DEF OneFlight
  <2>1. CASE d = c
    BY <1>1, <1>3, <2>1 DEF OneFlight
  <2>2. CASE d # c
    BY <1>1, <1>4, <2>2 DEF OneFlight
  <2> QED BY <2>1, <2>2
<1>7. ListingHasProc' /\ ClosedIsEmpty'
  BY <1>1, <1>2 DEF ListingHasProc, ClosedIsEmpty
<1> QED BY <1>5, <1>6, <1>7 DEF WarmInv

\* What the calls see of a process that goes from one hand to another.
CallsSee(p, a, use, y) ==
    /\ CallIds' = CallIds
    /\ \A c \in CallIds : calls'[c].agent = calls[c].agent
    /\ \A c \in CallIds : calls'[c].stage = "listing" =>
           \/ calls[c].stage = "listing" /\ calls'[c].proc = calls[c].proc /\ calls[c].proc # p
              /\ (calls[c].agent = a => y = Nothing)
           \/ calls[c].agent = a /\ calls'[c].proc = p /\ use = "listing" /\ y = Nothing
    /\ \A c \in CallIds : calls[c].stage = "listing" =>
           (calls'[c].stage = "listing" /\ calls'[c].proc = calls[c].proc) \/ calls[c].proc = p
    /\ use = "listing" => \E c \in CallIds : calls'[c].stage = "listing" /\ calls'[c].proc = p

\* What a process becomes when it goes from one hand to another.
LEMMA HandedOn ==
    ASSUME ListInv, WarmInv, NEW p \in ListProcs, NEW use \in Uses,
           NEW tm \in {"none", "armed", "fired"}, Becomes(p, use, tm), UNCHANGED lister,
           NEW a \in ListedAgents, NEW y \in {warm[a], Nothing, p}, procs[p].agent = a,
           warm' = [warm EXCEPT ![a] = y],
           lister = "closed" => use = "gone" /\ UNCHANGED calls,
           use = "warm" <=> y = p, lister # "open" => y = Nothing, y # warm[a] => warm[a] \in {p, Nothing},
           CallsSee(p, a, use, y),
           OneFlight'
    PROVE  WarmInv'
<1>1. ProcTypes /\ ParkedIsWarm /\ OneFlight /\ ListingHasProc /\ ClosedIsEmpty
  BY DEF WarmInv
<1>2. /\ procs' \in Seq(ProcRecords) /\ ListProcs' = ListProcs
      /\ procs'[p].use = use /\ procs'[p].agent = a
      /\ \A q \in ListProcs : q # p => procs'[q] = procs[q]
  BY <1>1, BecomesMeans DEF ProcTypes
<1>3. /\ ListProcs \subseteq Nat \ {0} /\ \A q \in ListProcs : procs[q].agent \in ListedAgents
      /\ warm \in [ListedAgents -> Nat] /\ p \in Nat /\ p # Nothing /\ Nothing = 0
  BY <1>1, UnarmedIsTimer DEF ListProcs, ProcTypes, Nothing
<1>4. warm'[a] = y /\ \A b \in ListedAgents : b # a => warm'[b] = warm[b]
  BY <1>3
<1>5. ProcTypes'
  BY <1>2, <1>3 DEF ProcTypes
<1>6. ParkedIsWarm'
  <2>1. ASSUME NEW b \in ListedAgents, warm'[b] # Nothing
        PROVE  warm'[b] \in ListProcs /\ procs'[warm'[b]].agent = b /\ procs'[warm'[b]].use = "warm"
    <3>1. CASE b = a /\ y = p
      BY <1>2, <1>4, <3>1
    <3>2. CASE ~(b = a /\ y = p)
      <4>1. warm'[b] = warm[b]
        BY <1>4, <2>1, <3>2
      <4>2. warm[b] \in ListProcs /\ procs[warm[b]].agent = b /\ procs[warm[b]].use = "warm"
        BY <1>1, <2>1, <4>1 DEF ParkedIsWarm
      <4>3. warm[b] # p
        BY <1>4, <3>2, <4>1, <4>2
      <4> QED BY <1>2, <4>1, <4>2, <4>3
    <3> QED BY <3>1, <3>2
  <2>2. ASSUME NEW q \in ListProcs, procs'[q].use = "warm"
        PROVE  warm'[procs'[q].agent] = q
    <3>1. CASE q = p
      BY <1>2, <1>4, <2>2, <3>1
    <3>2. CASE q # p
      <4>1. procs'[q] = procs[q] /\ warm[procs[q].agent] = q /\ procs[q].agent \in ListedAgents
        BY <1>1, <1>2, <1>3, <2>2, <3>2 DEF ParkedIsWarm
      <4>2. procs[q].agent = a => y = warm[a]
        BY <1>3, <3>2, <4>1
      <4> QED BY <1>4, <4>1, <4>2
    <3> QED BY <3>1, <3>2
  <2> QED BY <1>2, <2>1, <2>2 DEF ParkedIsWarm
<1>7. ListingHasProc'
  <2>1. ASSUME NEW c \in CallIds, calls'[c].stage = "listing"
        PROVE  /\ calls'[c].proc \in ListProcs /\ procs'[calls'[c].proc].use = "listing"
               /\ procs'[calls'[c].proc].agent = calls'[c].agent /\ warm'[calls'[c].agent] = Nothing
    <3>1. CASE calls[c].stage = "listing" /\ calls'[c].proc = calls[c].proc /\ calls[c].proc # p
               /\ (calls[c].agent = a => y = Nothing)
      <4>1. /\ calls[c].proc \in ListProcs /\ procs[calls[c].proc].use = "listing"
            /\ procs[calls[c].proc].agent = calls[c].agent /\ warm[calls[c].agent] = Nothing
        BY <1>1, <3>1 DEF ListingHasProc
      <4> QED BY <1>2, <1>3, <1>4, <3>1, <4>1 DEF CallsSee
    <3>2. CASE calls[c].agent = a /\ calls'[c].proc = p /\ use = "listing" /\ y = Nothing
      BY <1>2, <1>4, <2>1, <3>2 DEF CallsSee
    <3> QED BY <2>1, <3>1, <3>2 DEF CallsSee
  <2>2. ASSUME NEW q \in ListProcs, procs'[q].use = "listing"
        PROVE  \E c \in CallIds : calls'[c].stage = "listing" /\ calls'[c].proc = q
    <3>1. CASE q = p
      BY <1>2, <2>2, <3>1 DEF CallsSee
    <3>2. CASE q # p
      <4>1. PICK c \in CallIds : calls[c].stage = "listing" /\ calls[c].proc = q
        BY <1>1, <1>2, <2>2, <3>2 DEF ListingHasProc
      <4> QED BY <3>2, <4>1 DEF CallsSee
    <3> QED BY <3>1, <3>2
  <2> QED BY <1>2, <2>1, <2>2 DEF ListingHasProc, CallsSee
<1>8. ClosedIsEmpty'
  BY <1>1, <1>2, <1>4 DEF ClosedIsEmpty, CallsSee
<1> QED BY <1>5, <1>6, <1>7, <1>8 DEF WarmInv

\* A call of its own stage and process: what the others see.
LEMMA OneListsAnAgent ==
    ASSUME ListInv, WarmInv, NEW c \in CallIds, calls[c].stage = "listing"
    PROVE  /\ calls[c].proc \in ListProcs /\ procs[calls[c].proc].use = "listing"
           /\ procs[calls[c].proc].agent = calls[c].agent /\ warm[calls[c].agent] = Nothing
           /\ \A d \in CallIds : calls[d].stage = "listing" /\ d # c =>
                  calls[d].agent # calls[c].agent /\ calls[d].proc # calls[c].proc
<1>1. /\ calls[c].proc \in ListProcs /\ procs[calls[c].proc].use = "listing"
      /\ procs[calls[c].proc].agent = calls[c].agent /\ warm[calls[c].agent] = Nothing
  BY DEF WarmInv, ListingHasProc
<1>2. ASSUME NEW d \in CallIds, calls[d].stage = "listing", d # c
      PROVE  calls[d].agent # calls[c].agent /\ calls[d].proc # calls[c].proc
  <2>1. pending[calls[c].agent] = c /\ pending[calls[d].agent] = d
    BY <1>2 DEF WarmInv, OneFlight
  <2>2. procs[calls[d].proc].agent = calls[d].agent
    BY <1>2 DEF WarmInv, ListingHasProc
  <2> QED BY <1>1, <1>2, <2>1, <2>2
<1> QED BY <1>1, <1>2

LEMMA WarmIsHeld ==
    ASSUME ListInv, WarmInv, NEW a \in ListedAgents, warm[a] # Nothing
    PROVE  /\ warm[a] \in ListProcs /\ procs[warm[a]].agent = a /\ procs[warm[a]].use = "warm"
           /\ lister = "open" /\ warm \in [ListedAgents -> Nat]
           /\ \A d \in CallIds : calls[d].stage = "listing" =>
                  calls[d].agent # a /\ calls[d].proc # warm[a]
<1>1. warm[a] \in ListProcs /\ procs[warm[a]].agent = a /\ procs[warm[a]].use = "warm"
  BY DEF WarmInv, ParkedIsWarm
<1>2. lister = "open" /\ warm \in [ListedAgents -> Nat]
  BY DEF WarmInv, ClosedIsEmpty, ProcTypes
<1>3. \A d \in CallIds : calls[d].stage = "listing" =>
                  calls[d].agent # a /\ calls[d].proc # warm[a]
  BY <1>1 DEF WarmInv, ListingHasProc
<1> QED BY <1>1, <1>2, <1>3

LEMMA TakesWarmKeeps ==
    ASSUME ListInv, WarmInv, NEW c \in CallIds, TakesWarm(c)
    PROVE  WarmInv'
<1>a. PICK a : a = calls[c].agent
  OBVIOUS
<1>p. PICK p : p = warm[a]
  OBVIOUS
<1>1. /\ calls[c].stage = "starting" /\ p # Nothing /\ warm' = [warm EXCEPT ![a] = Nothing]
      /\ Becomes(p, "listing", Unarmed(p)) /\ UNCHANGED <<pending, lister>>
      /\ calls' = [calls EXCEPT ![c].stage = "listing", ![c].proc = p]
  BY <1>a, <1>p DEF TakesWarm, Unparks
<1>2. PICK P : calls[c] \in CallRecords(P)
  BY CallsTyped
<1>3. /\ Len(calls) \in Nat /\ CallIds = 1..Len(calls) /\ DOMAIN calls = CallIds
      /\ a \in ListedAgents
  BY <1>a, CallsTyped
<1>4. /\ CallIds' = CallIds /\ \A d \in CallIds : d # c => calls'[d] = calls[d]
      /\ calls'[c].agent = a /\ calls'[c].stage = "listing" /\ calls'[c].proc = p
      /\ calls'[c].started = calls[c].started
  BY <1>a, <1>1, <1>2, <1>3 DEF CallRecords, CallIds
<1>5. /\ p \in ListProcs /\ procs[p].agent = a /\ lister = "open" /\ procs \in Seq(ProcRecords)
      /\ \A d \in CallIds : calls[d].stage = "listing" => calls[d].agent # a /\ calls[d].proc # p
  BY <1>p, <1>1, <1>3, WarmIsHeld DEF WarmInv, ProcTypes
<1>6. OneFlight'
  <2>1. OneFlight /\ pending[a] = c /\ calls[c].started
    BY <1>a, <1>1 DEF WarmInv, OneFlight
  <2>2. pending' = pending
    BY <1>1
  <2> QED BY <1>4, <2>1, <2>2 DEF OneFlight
<1>7. Unarmed(p) \in {"none", "armed", "fired"} /\ "listing" \in Uses
  BY <1>5, UnarmedIsTimer DEF Uses
<1>8. \A d \in CallIds : calls'[d].agent = calls[d].agent
  BY <1>a, <1>4
<1>9. \A d \in CallIds : calls'[d].stage = "listing" =>
               \/ calls[d].stage = "listing" /\ calls'[d].proc = calls[d].proc /\ calls[d].proc # p
                  /\ calls[d].agent # a
               \/ calls[d].agent = a /\ calls'[d].proc = p
  BY <1>a, <1>4, <1>5
<1>10. \A d \in CallIds : calls[d].stage = "listing" =>
               calls'[d].stage = "listing" /\ calls'[d].proc = calls[d].proc
  BY <1>1, <1>4
<1>11. CallsSee(p, a, "listing", Nothing)
  BY <1>4, <1>8, <1>9, <1>10 DEF CallsSee
<1>12. Nothing # p /\ lister # "closed" /\ p = warm[a]
  BY <1>p, <1>1, <1>5
<1> QED BY <1>1, <1>3, <1>5, <1>6, <1>7, <1>11, <1>12, HandedOn

LEMMA ListedKeeps ==
    ASSUME ListInv, WarmInv, NEW c \in CallIds, Lists(c) \/ ListFails(c)
    PROVE  WarmInv'
<1>a. PICK a : a = calls[c].agent
  OBVIOUS
<1>p. PICK p : p = calls[c].proc
  OBVIOUS
<1>1. calls[c].stage = "listing" /\ UNCHANGED <<pending, lister>>
  BY DEF Lists, ListFails
<1>2. PICK P : calls[c] \in CallRecords(P)
  BY CallsTyped
<1>3. /\ Len(calls) \in Nat /\ CallIds = 1..Len(calls) /\ DOMAIN calls = CallIds
      /\ a \in ListedAgents
  BY <1>a, CallsTyped
<1>c. PICK l : calls' = [calls EXCEPT ![c].stage = "leaving", ![c].proc = Nothing, ![c].line = l]
  <2>1. CASE Lists(c)
    BY <2>1 DEF Lists
  <2>2. CASE ListFails(c)
    <3>1. PICK l : l = IF calls[c].cancelled THEN "cancelled" ELSE "failed"
      OBVIOUS
    <3>2. calls' = [calls EXCEPT ![c].stage = "leaving", ![c].proc = Nothing, ![c].line = l]
      BY <1>2, <2>2, <3>1 DEF ListFails, CallRecords
    <3> QED BY <3>2
  <2> QED BY <2>1, <2>2
<1>4. /\ CallIds' = CallIds /\ \A d \in CallIds : d # c => calls'[d] = calls[d]
      /\ calls'[c].agent = a /\ calls'[c].stage = "leaving"
  BY <1>a, <1>c, <1>2, <1>3 DEF CallRecords, CallIds
<1>5. /\ p \in ListProcs /\ procs[p].use = "listing" /\ procs[p].agent = a
      /\ warm[a] = Nothing /\ procs \in Seq(ProcRecords) /\ warm \in [ListedAgents -> Nat]
      /\ p # Nothing
      /\ \A d \in CallIds : calls[d].stage = "listing" /\ d # c => calls[d].agent # a /\ calls[d].proc # p
  <2>1. procs \in Seq(ProcRecords) /\ warm \in [ListedAgents -> Nat]
    BY DEF WarmInv, ProcTypes
  <2>2. \A q \in ListProcs : q # Nothing
    BY <2>1 DEF ListProcs, Nothing
  <2> QED BY <1>a, <1>p, <1>1, <2>1, <2>2, OneListsAnAgent
<1>6. OneFlight'
  BY <1>a, <1>1, <1>4 DEF WarmInv, OneFlight
<1>7. /\ procs[p].timer \in {"none", "armed", "fired"} /\ {"warm", "stopping"} \subseteq Uses
      /\ lister # "closed"
  BY <1>1, <1>5, UnarmedIsTimer DEF Uses, WarmInv, ClosedIsEmpty
<1>8. \A d \in CallIds : calls'[d].agent = calls[d].agent
  BY <1>a, <1>4
<1>9. \A d \in CallIds : calls'[d].stage = "listing" =>
               calls[d].stage = "listing" /\ calls'[d].proc = calls[d].proc /\ calls[d].proc # p
               /\ calls[d].agent # a
  BY <1>a, <1>4, <1>5
<1>10. \A d \in CallIds : calls[d].stage = "listing" =>
               (calls'[d].stage = "listing" /\ calls'[d].proc = calls[d].proc) \/ calls[d].proc = p
  BY <1>p, <1>1, <1>4
<1>11. CASE Becomes(p, "stopping", procs[p].timer) /\ UNCHANGED warm
  <2>1. warm' = [warm EXCEPT ![a] = Nothing]
    BY <1>5, <1>11
  <2>2. "stopping" \in Uses /\ "stopping" # "listing"
    BY <1>7
  <2>3. "stopping" = "warm" <=> Nothing = p
    BY <1>5
  <2>4. CallsSee(p, a, "stopping", Nothing)
    BY <1>4, <1>8, <1>9, <1>10, <2>2 DEF CallsSee
  <2> QED BY <1>1, <1>3, <1>5, <1>6, <1>7, <1>11, <2>1, <2>2, <2>3, <2>4, HandedOn
<1>12. CASE Lists(c) /\ lister = "open"
  <2>t. PICK t : t = IF procs[p].timer = "fired" THEN "fired" ELSE "armed"
    OBVIOUS
  <2>1. warm' = [warm EXCEPT ![a] = p] /\ Becomes(p, "warm", t) /\ t \in {"none", "armed", "fired"}
    BY <1>a, <1>p, <1>12, <2>t DEF Lists
  <2>2. "warm" \in Uses /\ "warm" # "listing"
    BY <1>7
  <2>3. CallsSee(p, a, "warm", p)
    BY <1>4, <1>8, <1>9, <1>10, <2>2 DEF CallsSee
  <2> QED BY <1>1, <1>3, <1>5, <1>6, <1>7, <1>12, <2>1, <2>2, <2>3, HandedOn
<1>13. Lists(c) /\ lister # "open" => Becomes(p, "stopping", procs[p].timer) /\ UNCHANGED warm
  BY <1>p DEF Lists, parked
<1>14. ListFails(c) => Becomes(p, "stopping", procs[p].timer) /\ UNCHANGED warm
  BY <1>p DEF ListFails, parked
<1> QED BY <1>11, <1>12, <1>13, <1>14

LEMMA DropsDeadKeeps ==
    ASSUME ListInv, WarmInv, NEW c \in CallIds, DropsDead(c)
    PROVE  WarmInv'
<1>a. PICK a : a = calls[c].agent
  OBVIOUS
<1>p. PICK p : p = warm[a]
  OBVIOUS
<1>1. /\ p # Nothing /\ warm' = [warm EXCEPT ![a] = Nothing]
      /\ Becomes(p, "stopping", Unarmed(p)) /\ UNCHANGED <<calls, pending, lister>>
  BY <1>a, <1>p DEF DropsDead, Unparks
<1>2. a \in ListedAgents
  BY <1>a, CallsTyped
<1>3. /\ p \in ListProcs /\ procs[p].agent = a /\ lister = "open" /\ procs \in Seq(ProcRecords)
      /\ \A d \in CallIds : calls[d].stage = "listing" => calls[d].agent # a /\ calls[d].proc # p
  BY <1>p, <1>1, <1>2, WarmIsHeld DEF WarmInv, ProcTypes
<1>4. OneFlight'
  BY <1>1 DEF WarmInv, OneFlight, CallIds
<1>5. Unarmed(p) \in {"none", "armed", "fired"} /\ "stopping" \in Uses
  BY <1>3, UnarmedIsTimer DEF Uses
<1>6. CallsSee(p, a, "stopping", Nothing)
  BY <1>1, <1>3 DEF CallsSee, CallIds
<1> QED BY <1>p, <1>1, <1>2, <1>3, <1>4, <1>5, <1>6, HandedOn

LEMMA SpawnKeeps ==
    ASSUME ListInv, WarmInv, NEW c \in CallIds, Spawns(c)
    PROVE  WarmInv'
<1>a. PICK a : a = calls[c].agent
  OBVIOUS
<1>p. PICK p : p = Len(procs) + 1
  OBVIOUS
<1>r. PICK r : r = [agent |-> a, alive |-> TRUE, use |-> "listing", timer |-> "none"]
  OBVIOUS
<1>1. /\ calls[c].stage = "starting" /\ warm[a] = Nothing /\ procs' = Append(procs, r)
      /\ UNCHANGED <<pending, lister>> /\ warm' = warm
      /\ calls' = [calls EXCEPT ![c].stage = "listing", ![c].proc = p]
  BY <1>a, <1>p, <1>r DEF Spawns, parked
<1>2. PICK P : calls[c] \in CallRecords(P)
  BY CallsTyped
<1>3. /\ Len(calls) \in Nat /\ CallIds = 1..Len(calls) /\ DOMAIN calls = CallIds
      /\ a \in ListedAgents
  BY <1>a, CallsTyped
<1>4. /\ CallIds' = CallIds /\ \A d \in CallIds : d # c => calls'[d] = calls[d]
      /\ calls'[c].agent = a /\ calls'[c].stage = "listing" /\ calls'[c].proc = p
      /\ calls'[c].started = calls[c].started
  BY <1>a, <1>1, <1>2, <1>3 DEF CallRecords, CallIds
<1>5. ProcTypes /\ ParkedIsWarm /\ OneFlight /\ ListingHasProc /\ ClosedIsEmpty
  BY DEF WarmInv
<1>6. r \in ProcRecords /\ r.agent = a /\ r.use = "listing"
  BY <1>3, <1>r DEF ProcRecords, Uses
<1>7. /\ procs' \in Seq(ProcRecords) /\ ListProcs' = ListProcs \cup {p} /\ p \notin ListProcs
      /\ procs'[p] = r /\ \A q \in ListProcs : procs'[q] = procs[q]
  BY <1>p, <1>1, <1>5, <1>6 DEF ProcTypes, ListProcs
<1>8. OneFlight'
  <2>1. OneFlight /\ pending[a] = c /\ calls[c].started
    BY <1>a, <1>1 DEF WarmInv, OneFlight
  <2>2. pending' = pending
    BY <1>1
  <2> QED BY <1>4, <2>1, <2>2 DEF OneFlight
<1>9. ProcTypes' /\ ParkedIsWarm'
  <2>1. ProcTypes'
    BY <1>1, <1>5, <1>7 DEF ProcTypes
  <2>2. ASSUME NEW b \in ListedAgents, warm[b] # Nothing
        PROVE  warm[b] \in ListProcs' /\ procs'[warm[b]].agent = b /\ procs'[warm[b]].use = "warm"
    BY <1>5, <1>7, <2>2 DEF ParkedIsWarm
  <2>3. ASSUME NEW q \in ListProcs', procs'[q].use = "warm" PROVE warm[procs'[q].agent] = q
    <3>1. q \in ListProcs /\ procs'[q] = procs[q]
      BY <1>6, <1>7, <2>3
    <3> QED BY <1>5, <2>3, <3>1 DEF ParkedIsWarm
  <2> QED BY <1>1, <2>1, <2>2, <2>3 DEF ParkedIsWarm
<1>w. warm' = warm /\ warm[a] = Nothing
  BY <1>1
<1>10. ListingHasProc'
  <2>1. ASSUME NEW d \in CallIds, calls'[d].stage = "listing"
        PROVE  /\ calls'[d].proc \in ListProcs' /\ procs'[calls'[d].proc].use = "listing"
               /\ procs'[calls'[d].proc].agent = calls'[d].agent /\ warm'[calls'[d].agent] = Nothing
    <3>1. CASE d = c
      BY <1>w, <1>4, <1>6, <1>7, <3>1
    <3>2. CASE d # c
      <4>1. calls'[d] = calls[d]
        BY <1>4, <3>2
      <4>2. /\ calls[d].proc \in ListProcs /\ procs[calls[d].proc].use = "listing"
            /\ procs[calls[d].proc].agent = calls[d].agent /\ warm[calls[d].agent] = Nothing
        BY <1>5, <2>1, <4>1 DEF ListingHasProc
      <4> QED BY <1>w, <1>7, <4>1, <4>2
    <3> QED BY <3>1, <3>2
  <2>2. ASSUME NEW q \in ListProcs', procs'[q].use = "listing"
        PROVE  \E d \in CallIds : calls'[d].stage = "listing" /\ calls'[d].proc = q
    <3>1. CASE q = p
      BY <1>4, <3>1
    <3>2. CASE q # p
      <4>1. PICK d \in CallIds : calls[d].stage = "listing" /\ calls[d].proc = q
        BY <1>5, <1>7, <2>2, <3>2 DEF ListingHasProc
      <4> QED BY <1>1, <1>4, <4>1
    <3> QED BY <3>1, <3>2
  <2> QED BY <1>4, <2>1, <2>2 DEF ListingHasProc
<1>11. ClosedIsEmpty'
  BY <1>1, <1>5 DEF ClosedIsEmpty
<1> QED BY <1>8, <1>9, <1>10, <1>11 DEF WarmInv

LEMMA CallStepKeepsWarm ==
    ASSUME ListInv, WarmInv, NEW c \in CallIds, CallStep(c)
    PROVE  WarmInv'
<1>1. CASE TakesWarm(c) \/ DropsDead(c) \/ Spawns(c) \/ Lists(c) \/ ListFails(c)
  BY <1>1, TakesWarmKeeps, DropsDeadKeeps, SpawnKeeps, ListedKeeps
<1>2. /\ Len(calls) \in Nat /\ CallIds = 1..Len(calls) /\ DOMAIN calls = CallIds
  BY CallsTyped
<1>3. PICK P : calls[c] \in CallRecords(P)
  BY CallsTyped
<1>4. CASE TakesSlot(c) \/ FreesSlot(c) \/ runListingEnds(c)
  <2>1. PICK s : /\ calls' = [calls EXCEPT ![c].stage = s]
                 /\ \/ calls[c].stage = "queued" /\ s = "checking" /\ UNCHANGED pending
                    \/ calls[c].stage = "leaving" /\ s = "ending" /\ UNCHANGED pending
                    \/ calls[c].stage = "ending" /\ s = "done" /\ pending' = Off(calls[c].agent, c)
    BY <1>4 DEF TakesSlot, FreesSlot, runListingEnds, Moves
  <2>2. UNCHANGED procs /\ UNCHANGED warm /\ UNCHANGED lister
    BY <1>4 DEF TakesSlot, FreesSlot, runListingEnds, parked
  <2>3. /\ CallIds' = CallIds /\ \A d \in CallIds : d # c => calls'[d] = calls[d]
        /\ calls'[c].agent = calls[c].agent /\ calls'[c].stage = s
        /\ calls'[c].cancelled = calls[c].cancelled
    BY <1>2, <1>3, <2>1 DEF CallRecords, CallIds
  <2> QED BY <2>1, <2>2, <2>3, CallsKeepWarm
<1>5. CASE GivesUp(c) \/ SpawnFails(c) \/ (admitListing(c) /\ ~Admitted(c))
  <2>1. PICK s, l : /\ calls' = [calls EXCEPT ![c].stage = s, ![c].line = l] /\ s \in {"ending", "leaving"}
                    /\ calls[c].stage \in {"queued", "starting", "checking"} /\ UNCHANGED pending
    BY <1>5 DEF GivesUp, SpawnFails, admitListing
  <2>2. UNCHANGED procs /\ UNCHANGED warm /\ UNCHANGED lister
    BY <1>5 DEF GivesUp, SpawnFails, admitListing, parked
  <2>3. /\ CallIds' = CallIds /\ \A d \in CallIds : d # c => calls'[d] = calls[d]
        /\ calls'[c].agent = calls[c].agent /\ calls'[c].stage = s
        /\ calls'[c].cancelled = calls[c].cancelled
    BY <1>2, <1>3, <2>1 DEF CallRecords, CallIds
  <2> QED BY <2>1, <2>2, <2>3, CallsKeepWarm
<1>6. CASE admitListing(c) /\ Admitted(c)
  <2>1. /\ calls' = [calls EXCEPT ![c].stage = "starting", ![c].started = TRUE]
        /\ calls[c].stage = "checking" /\ ~calls[c].cancelled /\ UNCHANGED pending
    BY <1>6 DEF admitListing, Admitted
  <2>2. UNCHANGED procs /\ UNCHANGED warm /\ UNCHANGED lister
    BY <1>6 DEF admitListing, parked
  <2>3. /\ CallIds' = CallIds /\ \A d \in CallIds : d # c => calls'[d] = calls[d]
        /\ calls'[c].agent = calls[c].agent /\ calls'[c].stage = "starting" /\ calls'[c].started
        /\ calls'[c].cancelled = calls[c].cancelled
    BY <1>2, <1>3, <2>1 DEF CallRecords, CallIds
  <2> QED BY <2>1, <2>2, <2>3, CallsKeepWarm
<1> QED BY <1>1, <1>4, <1>5, <1>6 DEF CallStep

\* Timers, exits and evictions.
LEMMA WarmProcsKeep ==
    ASSUME ListInv, WarmInv, NEW p \in ListProcs, WarmTimerFires(p) \/ WarmTimerRuns(p) \/ DiscardEnds(p)
    PROVE  WarmInv'
<1>a. PICK a : a = procs[p].agent
  OBVIOUS
<1>1. UNCHANGED calls /\ UNCHANGED pending /\ UNCHANGED lister
  BY DEF WarmTimerFires, WarmTimerRuns, DiscardEnds
<1>2. OneFlight' /\ OneFlight /\ ListingHasProc /\ ParkedIsWarm /\ ProcTypes /\ ClosedIsEmpty
  BY <1>1 DEF WarmInv, OneFlight, CallIds
<1>3. /\ procs \in Seq(ProcRecords) /\ warm \in [ListedAgents -> Nat] /\ p # Nothing
      /\ procs[p] \in ProcRecords /\ a \in ListedAgents
      /\ procs[p].use \in Uses /\ procs[p].timer \in {"none", "armed", "fired"}
  BY <1>a, <1>2, UnarmedIsTimer DEF ProcTypes, ListProcs, Nothing
<1>4. /\ procs[p].use = "warm" <=> warm[a] = p
      /\ lister # "open" => warm[a] = Nothing
      /\ lister = "closed" => procs[p].use = "gone"
  BY <1>a, <1>2, <1>3 DEF ParkedIsWarm, ClosedIsEmpty
<1>5. CASE WarmTimerFires(p) \/ (WarmTimerRuns(p) /\ ~StillParked(p))
  <2>1. PICK t : Becomes(p, procs[p].use, t) /\ t \in {"none", "armed", "fired"} /\ warm' = warm
    BY <1>5 DEF WarmTimerFires, WarmTimerRuns, parked
  <2>2. PICK u : u = procs[p].use
    OBVIOUS
  <2>3. PICK y : y = warm[a]
    OBVIOUS
  <2>4. warm' = [warm EXCEPT ![a] = y]
    BY <1>3, <2>1, <2>3
  <2>5. CallsSee(p, a, u, y)
    <3>1. ASSUME NEW c \in CallIds, calls[c].stage = "listing"
          PROVE  \/ calls[c].proc # p /\ (calls[c].agent = a => y = Nothing)
                 \/ calls[c].agent = a /\ calls[c].proc = p /\ u = "listing" /\ y = Nothing
      BY <1>2, <1>a, <2>2, <2>3, <3>1 DEF ListingHasProc
    <3>2. u = "listing" => \E c \in CallIds : calls[c].stage = "listing" /\ calls[c].proc = p
      BY <1>2, <2>2 DEF ListingHasProc
    <3> QED BY <1>1, <3>1, <3>2 DEF CallsSee, CallIds
  <2>6. u \in Uses /\ (u = "warm" <=> y = p) /\ (lister # "open" => y = Nothing)
        /\ (lister = "closed" => u = "gone") /\ Becomes(p, u, t)
    BY <1>3, <1>4, <2>1, <2>2, <2>3
  <2>7. y \in {warm[a], Nothing, p} /\ (y # warm[a] => warm[a] \in {p, Nothing})
    BY <2>3
  <2>8. (lister = "closed" => u = "gone" /\ UNCHANGED calls) /\ t \in {"none", "armed", "fired"}
    BY <1>1, <2>1, <2>6
  <2>9. OneFlight' /\ procs[p].agent = a /\ a \in ListedAgents /\ u \in Uses
    BY <1>a, <1>2, <1>3, <2>6
  <2>10. (u = "warm" <=> y = p) /\ (lister # "open" => y = Nothing) /\ Becomes(p, u, t)
    BY <2>6
  <2>11. UNCHANGED lister
    BY <1>1
  <2> QED BY <2>4, <2>5, <2>7, <2>8, <2>9, <2>10, <2>11, HandedOn, ZenonT(60)
<1>6. CASE WarmTimerRuns(p) /\ StillParked(p)
  <2>1. warm[a] = p /\ warm' = [warm EXCEPT ![a] = Nothing] /\ Becomes(p, "stopping", "none")
    BY <1>a, <1>6 DEF WarmTimerRuns, StillParked, Unparks
  <2>2. lister = "open" /\ CallsSee(p, a, "stopping", Nothing) /\ "stopping" \in Uses
    BY <1>1, <1>3, <2>1, WarmIsHeld DEF CallsSee, CallIds, Uses
  <2> QED BY <1>a, <1>1, <1>2, <1>3, <2>1, <2>2, HandedOn
<1>7. CASE DiscardEnds(p)
  <2>r. PICK r : r = [procs[p] EXCEPT !.use = "gone", !.alive = FALSE]
    OBVIOUS
  <2>1. procs' = [procs EXCEPT ![p] = r] /\ procs[p].use = "stopping" /\ warm' = warm
    BY <1>7, <2>r DEF DiscardEnds, parked
  <2>2. r \in ProcRecords /\ r.use = "gone" /\ r.agent = procs[p].agent
    BY <1>3, <2>r DEF ProcRecords, Uses
  <2>3. /\ procs' \in Seq(ProcRecords) /\ ListProcs' = ListProcs /\ procs'[p] = r
        /\ \A q \in ListProcs : q # p => procs'[q] = procs[q]
    BY <1>3, <2>1, <2>2 DEF ListProcs
  <2>4. ProcTypes' /\ ParkedIsWarm'
    BY <1>2, <2>1, <2>2, <2>3 DEF ProcTypes, ParkedIsWarm
  <2>5. CallIds' = CallIds
    BY <1>1 DEF CallIds
  <2>6. ListingHasProc' /\ ClosedIsEmpty'
    BY <1>1, <1>2, <2>1, <2>2, <2>3, <2>5 DEF ListingHasProc, ClosedIsEmpty
  <2> QED BY <1>2, <2>4, <2>6 DEF WarmInv
<1> QED BY <1>5, <1>6, <1>7

LEMMA DeathKeepsWarm ==
    ASSUME ListInv, WarmInv, NEW p \in ListProcs, AgentDies(p)
    PROVE  WarmInv'
<1>r. PICK r : r = [procs[p] EXCEPT !.alive = FALSE]
  OBVIOUS
<1>1. procs' = [procs EXCEPT ![p] = r] /\ warm' = warm
  BY <1>r DEF AgentDies, parked
<1>2. /\ UNCHANGED calls /\ UNCHANGED pending /\ UNCHANGED lister
      /\ CallIds' = CallIds
  BY DEF AgentDies, CallIds
<1>3. OneFlight' /\ ListingHasProc /\ ParkedIsWarm /\ ProcTypes /\ ClosedIsEmpty
  BY <1>2 DEF WarmInv, OneFlight
<1>4. procs[p] \in ProcRecords
  BY <1>3 DEF ProcTypes, ListProcs
<1>5. r \in ProcRecords /\ r.use = procs[p].use /\ r.agent = procs[p].agent
  BY <1>r, <1>4 DEF ProcRecords
<1>6. /\ procs' \in Seq(ProcRecords) /\ ListProcs' = ListProcs
      /\ \A q \in ListProcs : procs'[q].use = procs[q].use /\ procs'[q].agent = procs[q].agent
  BY <1>1, <1>3, <1>5 DEF ProcTypes, ListProcs
<1>7. ProcTypes' /\ ParkedIsWarm'
  BY <1>1, <1>3, <1>6 DEF ProcTypes, ParkedIsWarm
<1>8. ListingHasProc' /\ ClosedIsEmpty'
  BY <1>1, <1>2, <1>3, <1>6 DEF ListingHasProc, ClosedIsEmpty
<1> QED BY <1>3, <1>7, <1>8 DEF WarmInv

LEMMA StopsMeans ==
    ASSUME procs \in Seq(ProcRecords), NEW P, Stops(P)
    PROVE  /\ procs' \in Seq(ProcRecords) /\ ListProcs' = ListProcs
           /\ \A p \in ListProcs : procs'[p].agent = procs[p].agent
           /\ \A p \in ListProcs \cap P : procs'[p].use = "stopping"
           /\ \A p \in ListProcs \ P : procs'[p] = procs[p]
<1> DEFINE V(p) == IF p \in P THEN [procs[p] EXCEPT !.use = "stopping", !.timer = Unarmed(p)] ELSE procs[p]
<1>1. procs' = [p \in ListProcs |-> V(p)]
  BY DEF Stops
<1>2. ASSUME NEW p \in ListProcs
      PROVE  V(p) \in ProcRecords /\ V(p).agent = procs[p].agent /\ (p \in P => V(p).use = "stopping")
             /\ (p \notin P => V(p) = procs[p])
  <2>1. procs[p] \in ProcRecords /\ Unarmed(p) \in {"none", "armed", "fired"}
    BY UnarmedIsTimer DEF ListProcs
  <2>2. PICK t : t = Unarmed(p)
    OBVIOUS
  <2>3. PICK r : r = [procs[p] EXCEPT !.use = "stopping", !.timer = t]
    OBVIOUS
  <2>4. r \in ProcRecords /\ r.agent = procs[p].agent /\ r.use = "stopping"
    BY <2>1, <2>2, <2>3 DEF ProcRecords, Uses
  <2>5. V(p) = IF p \in P THEN r ELSE procs[p]
    BY <2>2, <2>3
  <2> QED BY <2>1, <2>4, <2>5
<1> HIDE DEF V
<1>3. /\ \A p \in 1..Len(procs) : V(p) \in ProcRecords
      /\ ListProcs = 1..Len(procs)
  BY <1>2 DEF ListProcs
<1>l. Len(procs) \in Nat
  OBVIOUS
<1>4. procs' \in [1..Len(procs) -> ProcRecords] /\ \A p \in 1..Len(procs) : procs'[p] = V(p)
  BY <1>1, <1>3
<1>5. procs' \in Seq(ProcRecords) /\ Len(procs') = Len(procs)
  BY <1>l, <1>4
<1>6. ListProcs' = ListProcs
  BY <1>5 DEF ListProcs
<1> QED BY <1>2, <1>3, <1>4, <1>5, <1>6

LEMMA PressureKeeps ==
    ASSUME ListInv, WarmInv, Pressure
    PROVE  WarmInv'
<1>1. PICK a \in ListedAgents : warm[a] # Nothing /\ Stops({warm[a]}) /\ Unparks(a)
  BY DEF Pressure, IdleLongest
<1>p. PICK p : p = warm[a]
  OBVIOUS
<1>2. UNCHANGED calls /\ UNCHANGED pending /\ UNCHANGED lister /\ warm' = [warm EXCEPT ![a] = Nothing]
  BY <1>1 DEF Pressure, Unparks
<1>3. OneFlight' /\ ListingHasProc /\ ParkedIsWarm /\ ProcTypes /\ ClosedIsEmpty
  BY <1>2 DEF WarmInv, OneFlight, CallIds
<1>4. /\ p \in ListProcs /\ procs[p].agent = a /\ procs[p].use = "warm" /\ lister = "open"
      /\ \A d \in CallIds : calls[d].stage = "listing" => calls[d].agent # a /\ calls[d].proc # p
  BY <1>1, <1>p, WarmIsHeld
<1>5. /\ procs' \in Seq(ProcRecords) /\ ListProcs' = ListProcs
      /\ \A q \in ListProcs : procs'[q].agent = procs[q].agent
      /\ procs'[p].use = "stopping" /\ \A q \in ListProcs : q # p => procs'[q] = procs[q]
  <2>1. Stops({p}) /\ procs \in Seq(ProcRecords)
    BY <1>1, <1>p, <1>3 DEF ProcTypes
  <2> QED BY <1>4, <2>1, StopsMeans
<1>6. /\ warm'[a] = Nothing /\ \A b \in ListedAgents : b # a => warm'[b] = warm[b]
      /\ \A q \in ListProcs : procs[q].agent \in ListedAgents
  <2>1. warm \in [ListedAgents -> Nat] /\ Nothing \in Nat
    BY <1>3 DEF ProcTypes, Nothing
  <2>2. \A q \in ListProcs : procs[q].agent \in ListedAgents
    BY <1>3, UnarmedIsTimer DEF ProcTypes
  <2> QED BY <1>2, <2>1, <2>2
<1>7. ProcTypes'
  <2>1. warm' \in [ListedAgents -> Nat]
    BY <1>2, <1>3 DEF ProcTypes, Nothing
  <2> QED BY <1>5, <2>1 DEF ProcTypes
<1>8. ParkedIsWarm'
  <2>1. ASSUME NEW b \in ListedAgents, warm'[b] # Nothing
        PROVE  warm'[b] \in ListProcs /\ procs'[warm'[b]].agent = b /\ procs'[warm'[b]].use = "warm"
    <3>1. b # a /\ warm'[b] = warm[b] /\ warm[b] \in ListProcs /\ procs[warm[b]].agent = b
          /\ procs[warm[b]].use = "warm"
      BY <1>3, <1>6, <2>1 DEF ParkedIsWarm
    <3>2. warm[b] # p
      BY <1>4, <3>1
    <3> QED BY <1>5, <3>1, <3>2
  <2>2. ASSUME NEW q \in ListProcs, procs'[q].use = "warm"
        PROVE  warm'[procs'[q].agent] = q
    <3>1. q # p /\ procs'[q] = procs[q]
      BY <1>5, <2>2
    <3>2. warm[procs[q].agent] = q
      BY <1>3, <2>2, <3>1 DEF ParkedIsWarm
    <3>3. procs[q].agent # a
      BY <1>p, <3>1, <3>2
    <3>4. warm'[procs[q].agent] = q
      BY <1>6, <3>2, <3>3
    <3> QED BY <3>1, <3>4
  <2> QED BY <1>5, <2>1, <2>2 DEF ParkedIsWarm
<1>9. CallIds' = CallIds
  BY <1>2 DEF CallIds
<1>10. ListingHasProc'
  <2>1. ASSUME NEW d \in CallIds, calls[d].stage = "listing"
        PROVE  /\ calls[d].proc \in ListProcs /\ procs'[calls[d].proc].use = "listing"
               /\ procs'[calls[d].proc].agent = calls[d].agent /\ warm'[calls[d].agent] = Nothing
    <3>1. /\ calls[d].proc \in ListProcs /\ procs[calls[d].proc].use = "listing"
          /\ procs[calls[d].proc].agent = calls[d].agent /\ warm[calls[d].agent] = Nothing
      BY <1>3, <2>1 DEF ListingHasProc
    <3>2. calls[d].proc # p /\ calls[d].agent # a /\ calls[d].agent \in ListedAgents
      BY <1>4, <2>1, CallsTyped
    <3> QED BY <1>5, <1>6, <3>1, <3>2
  <2>2. ASSUME NEW q \in ListProcs, procs'[q].use = "listing"
        PROVE  \E d \in CallIds : calls[d].stage = "listing" /\ calls[d].proc = q
    <3>1. procs[q].use = "listing"
      BY <1>5, <2>2
    <3> QED BY <1>3, <3>1 DEF ListingHasProc
  <2>3. calls' = calls
    BY <1>2
  <2> QED BY <1>5, <1>9, <2>1, <2>2, <2>3 DEF ListingHasProc
<1>11. ClosedIsEmpty'
  BY <1>2, <1>4 DEF ClosedIsEmpty
<1> QED BY <1>3, <1>7, <1>8, <1>10, <1>11 DEF WarmInv

\* Close stops all that is parked; the calls that list keep what they hold.
LEMMA CloserKeepsWarm ==
    ASSUME ListInv, WarmInv, ListerCloses
    PROVE  WarmInv'
<1>1. /\ UNCHANGED pending /\ lister = "open" /\ lister' = "closing" /\ Stops(Range(warm))
      /\ warm' = [a \in ListedAgents |-> Nothing]
  BY DEF ListerCloses
<1>2. OneFlight /\ ListingHasProc /\ ParkedIsWarm /\ ProcTypes
  BY DEF WarmInv
<1>3. /\ Len(calls) \in Nat /\ CallIds = 1..Len(calls) /\ DOMAIN calls = CallIds
      /\ \A c \in CallIds : calls[c].agent \in ListedAgents
  BY CallsTyped
<1>4. /\ CallIds' = CallIds
      /\ \A c \in CallIds : /\ calls'[c].agent = calls[c].agent /\ calls'[c].stage = calls[c].stage
                            /\ calls'[c].proc = calls[c].proc /\ calls'[c].started = calls[c].started
                            /\ calls[c].cancelled => calls'[c].cancelled
  <2> DEFINE V(c) == IF c \in Range(pending) THEN [calls[c] EXCEPT !.cancelled = TRUE] ELSE calls[c]
  <2>1. calls' = [c \in 1..Len(calls) |-> V(c)]
    BY <1>3 DEF ListerCloses
  <2>2. ASSUME NEW c \in CallIds
        PROVE  /\ V(c).agent = calls[c].agent /\ V(c).stage = calls[c].stage
               /\ V(c).proc = calls[c].proc /\ V(c).started = calls[c].started
               /\ calls[c].cancelled => V(c).cancelled
    <3>1. PICK P : calls[c] \in CallRecords(P)
      BY CallsTyped
    <3> QED BY <3>1 DEF CallRecords
  <2> HIDE DEF V
  <2>3. Len(calls') = Len(calls) /\ \A c \in CallIds : calls'[c] = V(c)
    BY <1>3, <2>1
  <2> QED BY <2>2, <2>3 DEF CallIds
<1>5. /\ procs' \in Seq(ProcRecords) /\ ListProcs' = ListProcs
      /\ \A q \in ListProcs : procs'[q].agent = procs[q].agent
      /\ \A q \in ListProcs \cap Range(warm) : procs'[q].use = "stopping"
      /\ \A q \in ListProcs \ Range(warm) : procs'[q] = procs[q]
  BY <1>1, <1>2, StopsMeans DEF ProcTypes
<1>6. /\ \A a \in ListedAgents : warm'[a] = Nothing
      /\ warm \in [ListedAgents -> Nat] /\ \A q \in ListProcs : procs[q].agent \in ListedAgents
  BY <1>1, <1>2, UnarmedIsTimer DEF ProcTypes
<1>7. \A q \in ListProcs : q \in Range(warm) => procs[q].use = "warm"
  <2>1. ASSUME NEW q \in ListProcs, q \in Range(warm) PROVE procs[q].use = "warm"
    <3>1. PICK a \in ListedAgents : warm[a] = q
      BY <1>6, <2>1 DEF Range
    <3>2. q # Nothing
      BY <1>2 DEF ProcTypes, ListProcs, Nothing
    <3> QED BY <1>2, <3>1, <3>2 DEF ParkedIsWarm
  <2> QED BY <2>1
<1>8. \A q \in ListProcs : procs[q].use = "warm" => q \in Range(warm)
  BY <1>2, <1>6 DEF ParkedIsWarm, Range
<1>9. \A q \in ListProcs : /\ procs'[q].use # "warm"
                           /\ procs'[q].use = "listing" <=> procs[q].use = "listing"
  BY <1>5, <1>7, <1>8
<1>10. ProcTypes' /\ ParkedIsWarm'
  <2>1. ProcTypes'
    BY <1>1, <1>5 DEF ProcTypes, Nothing
  <2> QED BY <1>5, <1>6, <1>9, <2>1 DEF ParkedIsWarm
<1>11. OneFlight'
  BY <1>1, <1>2, <1>4 DEF OneFlight
<1>12. ListingHasProc'
  <2>1. ASSUME NEW d \in CallIds, calls'[d].stage = "listing"
        PROVE  /\ calls'[d].proc \in ListProcs /\ procs'[calls'[d].proc].use = "listing"
               /\ procs'[calls'[d].proc].agent = calls'[d].agent /\ warm'[calls'[d].agent] = Nothing
    <3>1. /\ calls[d].proc \in ListProcs /\ procs[calls[d].proc].use = "listing"
          /\ procs[calls[d].proc].agent = calls[d].agent
      BY <1>2, <1>4, <2>1 DEF ListingHasProc
    <3> QED BY <1>3, <1>4, <1>5, <1>6, <1>9, <3>1
  <2>2. ASSUME NEW q \in ListProcs, procs'[q].use = "listing"
        PROVE  \E d \in CallIds : calls'[d].stage = "listing" /\ calls'[d].proc = q
    <3>1. PICK d \in CallIds : calls[d].stage = "listing" /\ calls[d].proc = q
      BY <1>2, <1>9, <2>2 DEF ListingHasProc
    <3> QED BY <1>4, <3>1
  <2> QED BY <1>4, <1>5, <2>1, <2>2 DEF ListingHasProc
<1>13. ClosedIsEmpty'
  BY <1>1, <1>6 DEF ClosedIsEmpty
<1> QED BY <1>10, <1>11, <1>12, <1>13 DEF WarmInv

LEMMA ClosedKeepsWarm ==
    ASSUME ListInv, WarmInv, ListerClosed
    PROVE  WarmInv'
<1>1. /\ UNCHANGED calls /\ UNCHANGED pending /\ UNCHANGED warm /\ UNCHANGED procs
      /\ lister = "closing" /\ lister' = "closed"
      /\ \A c \in CallIds : calls[c].stage = "done" /\ \A p \in ListProcs : procs[p].use # "stopping"
  BY DEF ListerClosed, parked
<1>2. ProcTypes /\ ParkedIsWarm /\ OneFlight /\ ListingHasProc /\ ClosedIsEmpty
  BY DEF WarmInv
<1>3. CallIds' = CallIds /\ ListProcs' = ListProcs
  BY <1>1 DEF CallIds, ListProcs
<1>4. ProcTypes' /\ ParkedIsWarm' /\ OneFlight' /\ ListingHasProc'
  BY <1>1, <1>2, <1>3 DEF ProcTypes, ParkedIsWarm, OneFlight, ListingHasProc
<1>5. \A p \in ListProcs : procs[p].use = "gone"
  <2> SUFFICES ASSUME NEW p \in ListProcs PROVE procs[p].use = "gone"
    OBVIOUS
  <2>1. procs[p].use \in Uses /\ procs[p].agent \in ListedAgents
    BY <1>2, UnarmedIsTimer DEF ProcTypes
  <2>2. procs[p].use # "listing"
    BY <1>1, <1>2 DEF ListingHasProc
  <2>3. procs[p].use # "warm"
    <3>1. p # Nothing
      BY <1>2 DEF ProcTypes, ListProcs, Nothing
    <3>2. warm[procs[p].agent] = Nothing
      BY <1>1, <1>2, <2>1 DEF ClosedIsEmpty
    <3> QED BY <1>2, <3>1, <3>2 DEF ParkedIsWarm
  <2>4. procs[p].use # "stopping"
    <3>1. \A q \in ListProcs : procs[q].use # "stopping"
      BY DEF ListerClosed
    <3> QED BY <3>1
  <2> QED BY <2>1, <2>2, <2>3, <2>4 DEF Uses
<1>6. ClosedIsEmpty'
  <2>1. \A c \in CallIds : calls[c].stage = "done"
    BY DEF ListerClosed
  <2> QED BY <1>1, <1>2, <1>3, <1>5, <2>1 DEF ClosedIsEmpty
<1> QED BY <1>4, <1>6 DEF WarmInv

LEMMA WarmStart == ListInit => WarmInv
<1> SUFFICES ASSUME ListInit PROVE WarmInv
  OBVIOUS
<1>1. procs = <<>> /\ calls = <<>> /\ ListProcs = {} /\ CallIds = {} /\ lister = "open"
  BY DEF ListInit, ListProcs, CallIds
<1>2. warm = [a \in ListedAgents |-> Nothing] /\ Nothing = 0
  BY DEF ListInit, Nothing
<1>3. ProcTypes
  BY <1>1, <1>2 DEF ProcTypes
<1> QED BY <1>1, <1>2, <1>3 DEF WarmInv, ParkedIsWarm, OneFlight, ListingHasProc, ClosedIsEmpty

LEMMA WarmStep == ListInv /\ WarmInv /\ [ListNext]_listVars => WarmInv'
<1> SUFFICES ASSUME ListInv, WarmInv, [ListNext]_listVars PROVE WarmInv'
  OBVIOUS
<1>1. ListInv'
  BY ListStep
<1>2. CASE \E q \in Requesters : ReceivesLine(q) \/ Leaves(q)
  <2>1. PICK q \in Requesters : ReceivesLine(q) \/ Leaves(q)
    BY <1>2
  <2>2. PICK c : c = asker[q].call
    OBVIOUS
  <2>3. c \in CallIds /\ releaseRequester(c)
    BY <2>1, <2>2 DEF ReceivesLine, Leaves, Waiting, ListInv, WaitingIsEmptyHanded
  <2>4. UNCHANGED procs /\ UNCHANGED warm /\ UNCHANGED lister
    BY <2>1 DEF ReceivesLine, Leaves, parked
  <2> QED BY <1>1, <2>3, <2>4, ReleaseKeepsWarm
<1>3. CASE \E q \in Requesters, a \in ListedAgents :
               AnsweredAtOnce(q, a) \/ JoinsCall(q, a) \/ StartsCall(q, a)
  BY <1>1, <1>3, AskersKeepWarm
<1>4. CASE \E c \in CallIds : CallStep(c)
  BY <1>4, CallStepKeepsWarm
<1>5. CASE \E p \in ListProcs : WarmTimerFires(p) \/ WarmTimerRuns(p) \/ DiscardEnds(p)
  BY <1>5, WarmProcsKeep
<1>6. CASE \E p \in ListProcs : AgentDies(p)
  BY <1>6, DeathKeepsWarm
<1>7. CASE (\E a \in ListedAgents : CacheExpires(a)) \/ UNCHANGED listVars
  <2>1. /\ UNCHANGED calls /\ UNCHANGED pending /\ UNCHANGED warm /\ UNCHANGED procs
        /\ UNCHANGED lister
    BY <1>7 DEF CacheExpires, listVars, parked
  <2>2. ListProcs' = ListProcs /\ CallIds' = CallIds
    BY <2>1 DEF ListProcs, CallIds
  <2> QED BY <2>1, <2>2 DEF WarmInv, ProcTypes, ParkedIsWarm, OneFlight, ListingHasProc, ClosedIsEmpty
<1>8. CASE Pressure \/ ListerCloses \/ ListerClosed
  BY <1>8, PressureKeeps, CloserKeepsWarm, ClosedKeepsWarm
<1> QED BY <1>2, <1>3, <1>4, <1>5, <1>6, <1>7, <1>8 DEF ListNext

\* The comment of Lister.connect about one flight at a time, for any agents
\* and slots: every process is parked, or with one call, or on its way out.
THEOREM WarmAccountedFor == ListSpec => []WarmNotLost
<1>1. ListInv /\ WarmInv => WarmNotLost
  <2> SUFFICES ASSUME ListInv, WarmInv PROVE WarmNotLost
    OBVIOUS
  <2>1. ProcTypes /\ ParkedIsWarm /\ OneFlight /\ ListingHasProc /\ ClosedIsEmpty
    BY DEF WarmInv
  <2>2. ASSUME NEW p \in ListProcs, procs[p].use = "warm" PROVE p \in Range(warm)
    <3>1. procs[p].agent \in ListedAgents
      BY <2>1, UnarmedIsTimer DEF ProcTypes
    <3>2. warm[procs[p].agent] = p /\ DOMAIN warm = ListedAgents
      BY <2>1, <2>2 DEF ParkedIsWarm, ProcTypes
    <3> QED BY <3>1, <3>2 DEF Range
  <2>3. ASSUME NEW p \in ListProcs, procs[p].use = "listing" PROVE Cardinality(Listing(p)) = 1
    <3>1. PICK c \in CallIds : calls[c].stage = "listing" /\ calls[c].proc = p
      BY <2>1, <2>3 DEF ListingHasProc
    <3>2. \A d \in CallIds : calls[d].stage = "listing" /\ d # c => calls[d].proc # p
      BY <3>1, OneListsAnAgent
    <3>3. Listing(p) = {c}
      BY <3>1, <3>2 DEF Listing
    <3> QED BY <3>3, FS_Singleton
  <2>4. ASSUME NEW p \in ListProcs, Listing(p) # {} PROVE procs[p].use = "listing"
    BY <2>1, <2>4 DEF Listing, ListingHasProc
  <2>5. \A a \in ListedAgents : warm[a] # Nothing =>
            procs[warm[a]].agent = a /\ procs[warm[a]].use = "warm"
    BY <2>1 DEF ParkedIsWarm
  <2>6. lister = "closed" => \A p \in ListProcs : procs[p].use = "gone"
    BY <2>1 DEF ClosedIsEmpty
  <2> QED BY <2>2, <2>3, <2>4, <2>5, <2>6 DEF WarmNotLost
<1> QED BY <1>1, ListStart, ListStep, WarmStart, WarmStep, PTL DEF ListSpec
=============================================================================
