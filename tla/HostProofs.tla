----------------------------- MODULE HostProofs -----------------------------
(***************************************************************************)
(* Attach tokens, for every set of tokens, lifetime, sweep interval and    *)
(* cap: a token is used once and in time, is not lost before its expiry,   *)
(* and the map holds nothing that was dead at the last sweep.              *)
(* Worktrees, for every number of requests, branches, commits and rows: no *)
(* race of creates, deletes, rebases and merges loses a chat's work.       *)
(***************************************************************************)
EXTENDS AttachTokens, Worktrees, FiniteSetTheorems, TLAPS

\* The clock is never behind the last sweep (in TypeOK), and an undrawn token
\* has left no trace.
Bookkeeping ==
    /\ TypeOK
    /\ live \subseteq drawn /\ spent \subseteq drawn /\ evicted \subseteq drawn

DeadAtMostOneSweep == \A t \in live : lastSweep <= expires[t]

\* SpentOnce, KeptUntilExpiry and the sweep half of MapBounded are inductive
\* together with the bookkeeping.
IndInv == Bookkeeping /\ SpentOnce /\ KeptUntilExpiry /\ DeadAtMostOneSweep

USE DEF SweepDue, SweptAt, AfterSweep, Swept, LeftAfterUse, InTime

\* token.go: Mint and Validate keep what the map is assumed to hold.
LEMMA Inductive == Spec => []IndInv
<1>1. Init => IndInv
  BY TokenConstants DEF Init, IndInv, Bookkeeping, TypeOK, SpentOnce, KeptUntilExpiry,
                        DeadAtMostOneSweep
<1>2. IndInv /\ [Next]_vars => IndInv'
  <2> SUFFICES ASSUME IndInv, [Next]_vars PROVE IndInv'
    OBVIOUS
  <2> USE TokenConstants DEF IndInv, Bookkeeping, TypeOK, SpentOnce, KeptUntilExpiry,
                             DeadAtMostOneSweep
  <2>1. ASSUME NEW t \in Tokens, Mint(t) PROVE IndInv'
    <3> DEFINE swept == IF Full(AfterSweep) THEN Swept(now) ELSE AfterSweep
    <3>1. PICK out \in SUBSET swept :
            /\ live' = (swept \ out) \cup {t}
            /\ evicted' = evicted \cup out
      BY <2>1 DEF Mint, SoonestOf
    <3>2. swept \subseteq live /\ (\A u \in live : now <= expires[u] => u \in swept)
      OBVIOUS
    <3>3. lastSweep' = lastSweep \/ (lastSweep' = now /\ \A u \in swept : now <= expires[u])
      BY <2>1 DEF Mint
    <3>4. /\ t \notin drawn /\ drawn' = drawn \cup {t} /\ now' = now
          /\ expires' = [expires EXCEPT ![t] = now + TTL]
          /\ UNCHANGED <<spent, spentAt>>
      BY <2>1 DEF Mint
    <3> HIDE DEF swept
    <3>5. Bookkeeping'
      BY <3>1, <3>2, <3>3, <3>4
    <3>6. SpentOnce'
      BY <3>1, <3>2, <3>4
    <3>7. KeptUntilExpiry'
      BY <3>1, <3>2, <3>4
    <3>8. DeadAtMostOneSweep'
      BY <3>1, <3>2, <3>3, <3>4
    <3> QED BY <3>5, <3>6, <3>7, <3>8
  <2>2. ASSUME NEW t \in Tokens, Validate(t) PROVE IndInv'
    BY <2>2 DEF Validate
  <2>3. CASE Tick
    BY <2>3 DEF Tick
  <2>4. CASE UNCHANGED vars
    BY <2>4 DEF vars
  <2> QED BY <2>1, <2>2, <2>3, <2>4 DEF Next
<1> QED BY <1>1, <1>2, PTL DEF Spec

\* No interleaving of Mint and Validate lets a token in twice or late
\* (token.go, Validate).
THEOREM SingleUse == Spec => []SpentOnce
<1>1. IndInv => SpentOnce
  BY DEF IndInv
<1> QED BY Inductive, <1>1, PTL

\* A client in time gets in unless the cap pushed its token out (token.go,
\* sweepLocked and evictOldestLocked).
THEOREM NotLostEarly == Spec => []KeptUntilExpiry
<1>1. IndInv => KeptUntilExpiry
  BY DEF IndInv
<1> QED BY Inductive, <1>1, PTL

\* The map is finite and never above maxAttachTokens.
CapHeld == IsFiniteSet(live) /\ Cardinality(live) <= MaxTokens

\* Removing what the cap requires before adding one keeps the cap.
LEMMA RoomForOne ==
    ASSUME NEW S, IsFiniteSet(S), Cardinality(S) <= MaxTokens,
           NEW out, out = {} \/ \E x \in S : out = {x},
           Full(S) => out # {}, NEW t
    PROVE  IsFiniteSet((S \ out) \cup {t}) /\ Cardinality((S \ out) \cup {t}) <= MaxTokens
<1> DEFINE R == S \ out
<1>1. IsFiniteSet(R) /\ Cardinality(S) \in Nat /\ Cardinality(R) \in Nat
  BY FS_Subset, FS_CardinalityType
<1>2. Cardinality(R) < MaxTokens
  <2>1. CASE out = {}
    <3>1. R = S
      BY <2>1
    <3> QED BY <3>1, <2>1, <1>1, TokenConstants DEF Full
  <2>2. CASE \E x \in S : out = {x}
    <3>1. PICK x \in S : out = {x}
      BY <2>2
    <3>2. Cardinality(S \ {x}) = Cardinality(S) - 1
      BY FS_RemoveElement
    <3> QED BY <3>1, <3>2, <1>1, TokenConstants
  <2> QED BY <2>1, <2>2
<1>3. IsFiniteSet(R \cup {t}) /\ (t \notin R => Cardinality(R \cup {t}) = Cardinality(R) + 1)
      /\ (t \in R => Cardinality(R \cup {t}) = Cardinality(R))
  BY <1>1, FS_AddElement
<1> QED BY <1>1, <1>2, <1>3, TokenConstants

\* A flood of Mints cannot grow the map past its cap, and nothing in it was
\* dead at the last sweep (token.go, Mint and maybeSweepLocked).
THEOREM MapStaysBounded == Spec => []MapBounded
<1>1. Init => CapHeld
  BY FS_EmptySet, TokenConstants DEF Init, CapHeld
<1>2. CapHeld /\ [Next]_vars => CapHeld'
  <2> SUFFICES ASSUME CapHeld, [Next]_vars PROVE CapHeld'
    OBVIOUS
  <2> USE DEF CapHeld
  <2>0. ASSUME NEW S \in SUBSET live
        PROVE  IsFiniteSet(S) /\ Cardinality(S) <= MaxTokens /\ Cardinality(S) \in Nat
    BY FS_Subset, FS_CardinalityType, TokenConstants
  <2>1. ASSUME NEW t \in Tokens, Mint(t) PROVE CapHeld'
    <3> DEFINE swept == IF Full(AfterSweep) THEN Swept(now) ELSE AfterSweep
    <3>1. PICK out : /\ live' = (swept \ out) \cup {t}
                     /\ out = {} \/ \E x \in swept : out = {x}
                     /\ Full(swept) => out # {}
      BY <2>1 DEF Mint, SoonestOf
    <3>2. swept \in SUBSET live
      OBVIOUS
    <3> HIDE DEF swept
    <3>3. IsFiniteSet(swept) /\ Cardinality(swept) <= MaxTokens
      BY <2>0, <3>2
    <3> QED BY <3>1, <3>3, RoomForOne
  <2>2. ASSUME NEW t \in Tokens, Validate(t) PROVE CapHeld'
    <3>1. live' \in SUBSET live
      BY <2>2 DEF Validate
    <3> QED BY <3>1, <2>0
  <2>3. CASE Tick \/ UNCHANGED vars
    BY <2>3 DEF Tick, vars
  <2> QED BY <2>1, <2>2, <2>3 DEF Next
<1>3. IndInv /\ CapHeld => MapBounded
  BY DEF IndInv, CapHeld, MapBounded, DeadAtMostOneSweep
<1> QED BY <1>1, <1>2, <1>3, Inductive, PTL DEF Spec

-----------------------------------------------------------------------------
(* The refinement.                                                         *)

\* Minting a token changes its status and that of the one the cap pushes out:
\* what a sweep drops was void before (token.go, Mint).
LEMMA MintGives ==
    ASSUME IndInv, NEW t \in Tokens, Mint(t)
    PROVE  \E voided \in SUBSET OneTime!Good : OneTime!Give(t, voided)
<1> USE TokenConstants DEF IndInv, Bookkeeping, TypeOK, SpentOnce, KeptUntilExpiry
<1> DEFINE swept == IF Full(AfterSweep) THEN Swept(now) ELSE AfterSweep
<1>1. PICK out \in SUBSET swept :
        /\ live' = (swept \ out) \cup {t}
        /\ evicted' = evicted \cup out
  BY DEF Mint, SoonestOf
<1>2. swept \subseteq live /\ (\A u \in live : now <= expires[u] => u \in swept)
  OBVIOUS
<1>3. /\ t \notin drawn /\ drawn' = drawn \cup {t} /\ now' = now
      /\ expires' = [expires EXCEPT ![t] = now + TTL]
      /\ UNCHANGED <<spent, spentAt>>
  BY DEF Mint
<1> HIDE DEF swept
<1> DEFINE voided == {u \in out : now <= expires[u]}
<1>4. voided \in SUBSET OneTime!Good
  BY <1>1, <1>2 DEF OneTime!Good, Status
<1>5. Status(t) = "none" /\ Status(t)' = "good"
  BY <1>1, <1>2, <1>3 DEF Status
<1>6. ASSUME NEW u \in Tokens, u # t
      PROVE  Status(u)' = IF u \in voided THEN "void" ELSE Status(u)
  <2>1. expires'[u] = expires[u] /\ (u \in drawn' <=> u \in drawn) /\ (u \in spent' <=> u \in spent)
    BY <1>3, <1>6
  <2>2. u \in live' <=> u \in swept /\ u \notin out
    BY <1>1, <1>6
  <2> QED BY <2>1, <2>2, <1>1, <1>2, <1>3 DEF Status
<1>7. OneTime!Give(t, voided)
  BY <1>3, <1>4, <1>5, <1>6 DEF OneTime!Give
<1> QED BY <1>4, <1>7

\* A Validate uses a good token or changes no status (token.go, Validate).
LEMMA ValidateUses ==
    ASSUME IndInv, NEW t \in Tokens, Validate(t)
    PROVE  OneTime!Use(t) \/ UNCHANGED <<[u \in Tokens |-> Status(u)], spentAt>>
<1> USE TokenConstants DEF IndInv, Bookkeeping, TypeOK, SpentOnce, KeptUntilExpiry
<1>1. ASSUME NEW u \in Tokens, u # t PROVE Status(u)' = Status(u)
  BY <1>1 DEF Validate, Status
<1>2. CASE t \in AfterSweep /\ InTime(t)
  <2>1. Status(t) = "good" /\ Status(t)' = "used"
    BY <1>2 DEF Validate, Status
  <2>2. spentAt' = [spentAt EXCEPT ![t] = spentAt'[t]]
    BY <1>2 DEF Validate
  <2> QED BY <2>1, <2>2, <1>1 DEF OneTime!Use, OneTime!Good
<1>3. CASE ~(t \in AfterSweep /\ InTime(t))
  <2>1. Status(t)' = Status(t) /\ spentAt' = spentAt
    BY <1>3 DEF Validate, Status
  <2> QED BY <2>1, <1>1
<1> QED BY <1>2, <1>3

\* Time only makes good tokens void.
LEMMA TickRunsOut ==
    ASSUME IndInv, Tick
    PROVE  \E voided \in SUBSET OneTime!Good : OneTime!RunOut(voided)
<1> USE TokenConstants DEF IndInv, Bookkeeping, TypeOK, SpentOnce
<1> DEFINE voided == {u \in OneTime!Good : ~(now' <= expires[u])}
<1>1. ASSUME NEW u \in Tokens
      PROVE  Status(u)' = IF u \in voided THEN "void" ELSE Status(u)
  BY <1>1 DEF Tick, Status, OneTime!Good
<1>2. OneTime!RunOut(voided)
  BY <1>1 DEF OneTime!RunOut, Tick
<1> QED BY <1>2

\* token.go implements one-time tokens, for every cap, lifetime and sweep interval.
THEOREM TokensAreOneTime == Spec => IsOneTime
<1>1. Init => OneTime!Init
  BY DEF Init, OneTime!Init, Status
<1>2. IndInv /\ [Next]_vars => [OneTime!Next]_<<[t \in Tokens |-> Status(t)], spentAt>>
  <2> SUFFICES ASSUME IndInv, [Next]_vars
               PROVE  OneTime!Next \/ UNCHANGED <<[t \in Tokens |-> Status(t)], spentAt>>
    OBVIOUS
  <2>1. ASSUME NEW t \in Tokens, Mint(t) PROVE OneTime!Next
    BY <2>1, MintGives DEF OneTime!Next
  <2>2. ASSUME NEW t \in Tokens, Validate(t)
        PROVE  OneTime!Next \/ UNCHANGED <<[u \in Tokens |-> Status(u)], spentAt>>
    BY <2>2, ValidateUses DEF OneTime!Next
  <2>3. CASE Tick
    BY <2>3, TickRunsOut DEF OneTime!Next
  <2>4. CASE UNCHANGED vars
    BY <2>4 DEF vars, Status
  <2> QED BY <2>1, <2>2, <2>3, <2>4 DEF Next
<1> QED BY <1>1, <1>2, Inductive, PTL DEF Spec, IsOneTime, OneTime!Spec
-----------------------------------------------------------------------------
(* Worktrees.                                                              *)

Creates == [kind : {"create"}, stage : {"claim", "check", "add", "save"}, branch : Branches,
            base : SUBSET Nat]
Deletes == [kind : {"delete"}, stage : {"inUse", "status", "remove", "branch", "row", "drop"},
            id : Nat, branch : Branches, force : BOOLEAN, then : {"end", "drop"}, hold : BOOLEAN]
Finishes == [kind : {"rebase", "merge", "squash"}, stage : {"run"}, id : Nat, branch : Branches,
             delete : BOOLEAN, hold : BOOLEAN]
Requests == {Idle} \cup Creates \cup Deletes \cup Finishes

TreeTypes ==
    /\ ops \in [Ops -> Requests] /\ commits \in Nat /\ nextId \in Nat
    /\ trunk \in SUBSET Nat /\ landed \in SUBSET Nat
    /\ \A b \in DOMAIN branches : branches[b] \in SUBSET Nat
    /\ \A i \in DOMAIN records : i \in 1..nextId /\ records[i] \in Branches
    /\ folder \in [on : Branches \cup {NoBranch}, edits : {"none", "settled", "raced"}]
    /\ Gone => folder.edits = "none"
    /\ claimed \in BOOLEAN /\ finishing \in BOOLEAN

\* A create that holds the claim on the folder, and one that may still discard.
Claiming(o) == ops[o].kind = "create" /\ ops[o].stage # "claim"
MayDiscard(o) == ops[o].kind = "create" /\ ops[o].stage \in {"add", "save"}
DropsLater(o) == ops[o].kind = "delete" /\ ops[o].then = "drop"

OneClaim ==
    /\ \A o \in Ops : Claiming(o) => claimed
    /\ \A o, p \in Ops : Claiming(o) /\ Claiming(p) => o = p

\* A row keeps the branch a request read from it: ids are not used again.
RowStands(o) ==
    ops[o].kind \in {"delete", "rebase", "merge", "squash"} =>
        /\ ops[o].id \in 1..nextId
        /\ ops[o].id \in DOMAIN records => records[ops[o].id] = ops[o].branch

\* What a request may still drop is in the base branch, landed, or came late.
Covered(o) ==
    /\ ops[o].kind = "create" => ops[o].base \subseteq trunk
    /\ ops[o].kind = "delete" /\ ops[o].stage = "drop" => DropsLater(o)
    /\ MayDiscard(o) /\ Exists(ops[o].branch) => branches[ops[o].branch] \subseteq trunk \cup late
    /\ DropsLater(o) /\ Exists(ops[o].branch) =>
           branches[ops[o].branch] \subseteq trunk \cup landed \cup late

\* Before a request that is about to remove the folder unforced there were no
\* edits it did not see.
EditsSeen(o) ==
    MayDiscard(o) \/ (ops[o].kind = "delete" /\ ops[o].stage = "remove" /\ ~ops[o].force)
        => folder.edits # "settled"

RequestOK(o) == RowStands(o) /\ Covered(o) /\ EditsSeen(o)

TreeInv == TreeTypes /\ OneClaim /\ (\A o \in Ops : RequestOK(o)) /\ NoWorkLost

\* What a step may do to the state other requests rely on.
Held(b) == IF Exists(b) THEN branches[b] ELSE {}
Benign ==
    /\ trunk \subseteq trunk' /\ landed \subseteq landed' /\ late \subseteq late'
    /\ \A b \in Branches :
          Doomed(b) /\ Exists(b)' => branches'[b] \subseteq Held(b) \cup trunk' \cup late'
    /\ nextId' \in Nat /\ nextId <= nextId'
    /\ \A i \in DOMAIN records' :
          i \in 1..nextId => i \in DOMAIN records /\ records'[i] = records[i]
    /\ folder'.edits = "settled" => folder.edits = "settled" \/ ~Unwatched

LEMMA OthersKeep ==
    ASSUME TreeInv, Benign, NEW p \in Ops, ops'[p] = ops[p]
    PROVE  RequestOK(p)'
<1>1. TreeTypes /\ RequestOK(p)
  BY DEF TreeInv
<1>2. ops[p] \in Requests /\ nextId \in Nat
  BY <1>1 DEF TreeTypes
<1>3. RowStands(p)'
  <2> SUFFICES ASSUME ops[p].kind \in {"delete", "rebase", "merge", "squash"}
               PROVE  /\ ops[p].id \in 1..nextId'
                      /\ ops[p].id \in DOMAIN records' => records'[ops[p].id] = ops[p].branch
    BY DEF RowStands
  <2>1. /\ ops[p].id \in 1..nextId
        /\ ops[p].id \in DOMAIN records => records[ops[p].id] = ops[p].branch
    BY <1>1 DEF RequestOK, RowStands
  <2> QED BY <1>2, <2>1 DEF Benign
<1>4. Covered(p)'
  <2>1. ops[p].kind = "create" => ops[p].base \subseteq trunk'
    BY <1>1 DEF RequestOK, Covered, Benign
  <2>2. ASSUME MayDiscard(p) \/ DropsLater(p)
        PROVE  ops[p].branch \in Branches /\ Doomed(ops[p].branch)
    BY <1>2, <2>2 DEF MayDiscard, DropsLater, Doomed, Requests, Creates, Deletes, Finishes, Idle
  <2>3. (MayDiscard(p)' <=> MayDiscard(p)) /\ (DropsLater(p)' <=> DropsLater(p))
    BY DEF MayDiscard, DropsLater
  <2>4. MayDiscard(p) /\ ops[p].branch \in DOMAIN branches' =>
            branches'[ops[p].branch] \subseteq trunk' \cup late'
    BY <1>1, <2>2 DEF RequestOK, Covered, Benign, Held, Exists
  <2>5. DropsLater(p) /\ ops[p].branch \in DOMAIN branches' =>
            branches'[ops[p].branch] \subseteq trunk' \cup landed' \cup late'
    BY <1>1, <2>2 DEF RequestOK, Covered, Benign, Held, Exists
  <2>6. ops[p].kind = "delete" /\ ops[p].stage = "drop" => DropsLater(p)
    BY <1>1 DEF RequestOK, Covered
  <2> QED BY <2>1, <2>3, <2>4, <2>5, <2>6 DEF Covered, Exists
<1>5. EditsSeen(p)'
  <2>1. ASSUME MayDiscard(p) \/ (ops[p].kind = "delete" /\ ops[p].stage = "remove" /\ ~ops[p].force)
        PROVE  Unwatched /\ folder.edits # "settled"
    BY <1>1, <2>1 DEF MayDiscard, Unwatched, RequestOK, EditsSeen
  <2> QED BY <2>1 DEF EditsSeen, MayDiscard, Benign
<1> QED BY <1>3, <1>4, <1>5 DEF RequestOK

\* A request's step: it moves, the others stand, at most one claims the folder.
Moves(o, r) ==
    /\ ops' = [ops EXCEPT ![o] = r] /\ r \in Requests
    /\ \/ claimed' = claimed /\ (Claiming(o)' => Claiming(o))
       \/ Claiming(o) /\ ~claimed' /\ ~Claiming(o)'
       \/ ~claimed /\ claimed'

LEMMA RequestMoves ==
    ASSUME TreeInv, NEW o \in Ops, NEW r, Moves(o, r), Benign, TreeTypes', RequestOK(o)', NoWorkLost'
    PROVE  TreeInv'
<1>1. TreeTypes /\ OneClaim
  BY DEF TreeInv
<1>2. \A p \in Ops \ {o} : ops'[p] = ops[p]
  BY <1>1 DEF TreeTypes, Moves
<1>3. \A p \in Ops : RequestOK(p)'
  BY <1>2, OthersKeep
<1>4. \A p \in Ops \ {o} : Claiming(p)' <=> Claiming(p)
  BY <1>2 DEF Claiming
<1>5. OneClaim'
  <2>1. CASE claimed' = claimed /\ (Claiming(o)' => Claiming(o))
    BY <1>1, <1>4, <2>1 DEF OneClaim
  <2>2. CASE Claiming(o) /\ ~claimed' /\ ~Claiming(o)'
    BY <1>1, <1>4, <2>2 DEF OneClaim
  <2>3. CASE ~claimed /\ claimed'
    BY <1>1, <1>4, <2>3 DEF OneClaim
  <2> QED BY <2>1, <2>2, <2>3 DEF Moves
<1> QED BY <1>3, <1>5 DEF TreeInv

\* The request that moves, field by field.
LEMMA RequestKinds ==
    ASSUME TreeTypes, NEW o \in Ops
    PROVE  /\ ops[o].kind = "none" => ops[o] = Idle
           /\ ops[o].kind = "create" => ops[o] \in Creates
           /\ ops[o].kind = "delete" => ops[o] \in Deletes
           /\ ops[o].kind \in {"rebase", "merge", "squash"} => ops[o] \in Finishes
  BY DEF TreeTypes, Requests, Creates, Deletes, Finishes, Idle

LEMMA RequestEnds ==
    ASSUME TreeTypes, NEW o \in Ops, Ends(o)
    PROVE  /\ ops' = [ops EXCEPT ![o] = Idle] /\ Idle \in Requests
           /\ RequestOK(o)' /\ ~Claiming(o)'
<1>1. ops'[o] = Idle /\ Idle.kind = "none"
  BY DEF TreeTypes, Ends, Idle
<1> QED BY <1>1 DEF Ends, Requests, RequestOK, RowStands, Covered, EditsSeen, MayDiscard, DropsLater, Claiming

LEMMA CreateGoes ==
    ASSUME TreeTypes, NEW o \in Ops, ops[o].kind = "create",
           NEW st \in {"claim", "check", "add", "save"}, Goes(o, st)
    PROVE  \E r \in Creates : /\ ops' = [ops EXCEPT ![o] = r] /\ ops'[o] = r
                              /\ r.stage = st /\ r.kind = "create"
                              /\ r.branch = ops[o].branch /\ r.base = ops[o].base
<1>1. PICK q \in Creates : q = ops[o]
  BY RequestKinds
<1>2. PICK r : r = [q EXCEPT !.stage = st]
  OBVIOUS
<1>3. /\ r \in Creates /\ r.stage = st /\ r.kind = "create" /\ r.branch = q.branch /\ r.base = q.base
  BY <1>2 DEF Creates
<1>4. ops' = [ops EXCEPT ![o] = r] /\ ops'[o] = r
  BY <1>1, <1>2 DEF Goes, TreeTypes
<1> QED BY <1>1, <1>3, <1>4

LEMMA DeleteGoes ==
    ASSUME TreeTypes, NEW o \in Ops, ops[o].kind = "delete",
           NEW st \in {"inUse", "status", "remove", "branch", "row", "drop"}, Goes(o, st)
    PROVE  \E r \in Deletes : /\ ops' = [ops EXCEPT ![o] = r] /\ ops'[o] = r
                              /\ r.stage = st /\ r.kind = "delete"
                              /\ r.branch = ops[o].branch /\ r.id = ops[o].id
                              /\ r.force = ops[o].force /\ r.then = ops[o].then
<1>1. PICK q \in Deletes : q = ops[o]
  BY RequestKinds
<1>2. PICK r : r = [q EXCEPT !.stage = st]
  OBVIOUS
<1>3. /\ r \in Deletes /\ r.stage = st /\ r.kind = "delete" /\ r.branch = q.branch /\ r.id = q.id
      /\ r.force = q.force /\ r.then = q.then
  BY <1>2 DEF Deletes
<1>4. ops' = [ops EXCEPT ![o] = r] /\ ops'[o] = r
  BY <1>1, <1>2 DEF Goes, TreeTypes
<1> QED BY <1>1, <1>3, <1>4

\* A step that makes no commit, moves no branch and adds no row.
Calm ==
    /\ UNCHANGED <<trunk, landed, late, nextId, commits>>
    /\ \A b \in DOMAIN branches' : b \in DOMAIN branches /\ branches'[b] = branches[b]
    /\ \A i \in DOMAIN records' : i \in DOMAIN records /\ records'[i] = records[i]
    /\ folder' \in {folder, NoFolder}

LEMMA CalmIsBenign ==
    ASSUME TreeTypes, Calm
    PROVE  /\ Benign
           /\ ops' \in [Ops -> Requests] /\ claimed' \in BOOLEAN /\ finishing' \in BOOLEAN
                  => TreeTypes'
<1>1. Benign
  BY DEF TreeTypes, Calm, Benign, NoFolder, Exists, Held
<1>2. folder' \in [on : Branches \cup {NoBranch}, edits : {"none", "settled", "raced"}]
      /\ (Gone' => folder'.edits = "none")
  BY DEF TreeTypes, Calm, NoFolder, Gone
<1>3. \A b \in DOMAIN branches' : branches'[b] \in SUBSET Nat
  BY DEF TreeTypes, Calm
<1>4. \A i \in DOMAIN records' : i \in 1..nextId' /\ records'[i] \in Branches
  BY DEF TreeTypes, Calm
<1> QED BY <1>1, <1>2, <1>3, <1>4 DEF TreeTypes, Calm

LEMMA CalmMove ==
    ASSUME TreeInv, Calm, NEW o \in Ops, NEW r, Moves(o, r), finishing' \in BOOLEAN,
           claimed' \in BOOLEAN, RequestOK(o)', NoWorkLost'
    PROVE  TreeInv'
<1>1. TreeTypes
  BY DEF TreeInv
<1>2. ops' \in [Ops -> Requests]
  BY <1>1 DEF TreeTypes, Moves
<1> QED BY <1>1, <1>2, CalmIsBenign, RequestMoves

\* A request that ends, letting go of the claim or not.
LEMMA CalmEnd ==
    ASSUME TreeInv, Calm, NEW o \in Ops, Ends(o), finishing' \in BOOLEAN,
           claimed' = claimed \/ (Claiming(o) /\ claimed' = FALSE), NoWorkLost'
    PROVE  TreeInv'
<1>1. TreeTypes
  BY DEF TreeInv
<1>2. /\ ops' = [ops EXCEPT ![o] = Idle] /\ Idle \in Requests /\ RequestOK(o)' /\ ~Claiming(o)'
  BY <1>1, RequestEnds
<1>3. claimed' \in BOOLEAN
  BY <1>1 DEF TreeTypes
<1>4. Moves(o, Idle)
  BY <1>2 DEF Moves
<1> QED BY <1>2, <1>3, <1>4, CalmMove

\* What a dropped branch takes with it, when its commits are covered.
LEMMA DropLoses ==
    ASSUME NoWorkLost, NEW b, DropBranch(b), late' = late,
           Exists(b) => branches[b] \subseteq trunk \cup landed \cup late
    PROVE  /\ lost' \subseteq late'
           /\ \A x \in DOMAIN branches' : x \in DOMAIN branches /\ branches'[x] = branches[x]
<1>1. LosesWith(b) \subseteq late
  BY DEF LosesWith, Exists
<1> QED BY <1>1 DEF DropBranch, NoWorkLost, CommittedWorkSurvives, Without

\* Create.
LEMMA CreateBeginsKeeps ==
    ASSUME TreeInv, NEW o \in Ops, NEW b \in Branches, CreateBegins(o, b)
    PROVE  TreeInv'
<1>1. TreeTypes /\ NoWorkLost
  BY DEF TreeInv
<1>2. PICK r : r = [kind |-> "create", stage |-> "claim", branch |-> b, base |-> trunk]
  OBVIOUS
<1>3. /\ ops' = [ops EXCEPT ![o] = r] /\ r \in Creates /\ r.kind = "create" /\ r.stage = "claim"
      /\ r.base = trunk /\ trunk' = trunk /\ claimed' = claimed /\ finishing' = finishing
  BY <1>1, <1>2 DEF CreateBegins, resolveBaseCommitAndRef, Creates, TreeTypes, repoVars, lockVars
<1>4. ops'[o] = r
  BY <1>1, <1>3 DEF TreeTypes
<1>5. RequestOK(o)' /\ ~Claiming(o)'
  BY <1>3, <1>4 DEF RequestOK, RowStands, Covered, EditsSeen, MayDiscard, DropsLater, Claiming
<1>6. Calm
  BY DEF CreateBegins, Calm, Pruned, repoVars, histVars
<1>7. Moves(o, r) /\ finishing' \in BOOLEAN /\ claimed' \in BOOLEAN
  BY <1>1, <1>3, <1>5 DEF Moves, Requests, TreeTypes
<1>8. NoWorkLost'
  BY <1>1 DEF CreateBegins, histVars, NoWorkLost, CommittedWorkSurvives, UncommittedWorkKept
<1> QED BY <1>5, <1>6, <1>7, <1>8, CalmMove

LEMMA ClaimKeeps ==
    ASSUME TreeInv, NEW o \in Ops, claimFolder(o) \/ CreateChecks(o)
    PROVE  TreeInv'
<1>1. TreeTypes /\ NoWorkLost /\ RequestOK(o) /\ ops[o].kind = "create"
  BY DEF TreeInv, claimFolder, CreateChecks, At
<1>2. Calm /\ finishing' = finishing /\ folder' = folder /\ branches' = branches /\ trunk' = trunk
  BY DEF claimFolder, CreateChecks, Calm, repoVars, histVars
<1>3. NoWorkLost' /\ finishing' \in BOOLEAN
  BY <1>1, <1>2
  DEF claimFolder, CreateChecks, histVars, NoWorkLost, CommittedWorkSurvives, UncommittedWorkKept, TreeTypes
<1>4. CASE /\ Ends(o)
           /\ claimed' = claimed \/ (CreateChecks(o) /\ claimed' = FALSE)
  <2>1. claimed' = claimed \/ (Claiming(o) /\ claimed' = FALSE)
    BY <1>4 DEF CreateChecks, Claiming, At
  <2> QED BY <1>2, <1>3, <1>4, <2>1, CalmEnd
<1>5. CASE claimFolder(o) /\ ~claimed /\ claimed' = TRUE /\ Goes(o, "check")
  <2>1. PICK r \in Creates : /\ ops' = [ops EXCEPT ![o] = r] /\ ops'[o] = r
                             /\ r.stage = "check" /\ r.kind = "create" /\ r.base = ops[o].base
    BY <1>1, <1>5, CreateGoes
  <2>2. RequestOK(o)'
    BY <1>1, <1>2, <2>1 DEF RequestOK, RowStands, Covered, EditsSeen, MayDiscard, DropsLater
  <2>3. Moves(o, r)
    BY <1>5, <2>1 DEF Moves, Requests
  <2> QED BY <1>2, <1>3, <1>5, <2>2, <2>3, CalmMove
<1>6. CASE CreateChecks(o) /\ ~Exists(ops[o].branch) /\ Gone /\ claimed' = claimed /\ Goes(o, "add")
  <2>1. PICK r \in Creates : /\ ops' = [ops EXCEPT ![o] = r] /\ ops'[o] = r
                             /\ r.stage = "add" /\ r.kind = "create" /\ r.base = ops[o].base
                             /\ r.branch = ops[o].branch
    BY <1>1, <1>6, CreateGoes
  <2>2. folder'.edits # "settled" /\ ops'[o].branch \notin DOMAIN branches'
    BY <1>1, <1>2, <1>6, <2>1 DEF TreeTypes, Exists
  <2>3. RequestOK(o)'
    BY <1>1, <1>2, <2>1, <2>2 DEF RequestOK, RowStands, Covered, EditsSeen, MayDiscard, DropsLater, Exists
  <2>4. Claiming(o)
    BY <1>6 DEF Claiming, CreateChecks, At
  <2>5. Moves(o, r) /\ claimed' \in BOOLEAN
    BY <1>1, <1>6, <2>1, <2>4 DEF Moves, Requests, TreeTypes
  <2> QED BY <1>2, <1>3, <2>3, <2>5, CalmMove
<1> QED BY <1>4, <1>5, <1>6 DEF claimFolder, CreateChecks

\* A failed create discards what is there: nothing that was not there before.
LEMMA DiscardKeeps ==
    ASSUME TreeInv, NEW o \in Ops, WorktreeAddFails(o) \/ WorktreeNotSaved(o)
    PROVE  TreeInv'
<1>1. TreeTypes /\ NoWorkLost /\ RequestOK(o) /\ MayDiscard(o) /\ Claiming(o)
  BY DEF TreeInv, WorktreeAddFails, WorktreeNotSaved, At, MayDiscard, Claiming
<1>2. /\ DropBranch(ops[o].branch) /\ FolderDies(FALSE) /\ Ends(o) /\ claimed' = FALSE
      /\ UNCHANGED <<trunk, landed, records, nextId, finishing, commits, late>>
  BY DEF WorktreeAddFails, WorktreeNotSaved, discardWorktree
<1>3. /\ Exists(ops[o].branch) => branches[ops[o].branch] \subseteq trunk \cup landed \cup late
      /\ folder.edits # "settled"
  BY <1>1 DEF RequestOK, Covered, EditsSeen
<1>4. /\ lost' \subseteq late'
      /\ \A x \in DOMAIN branches' : x \in DOMAIN branches /\ branches'[x] = branches[x]
  BY <1>1, <1>2, <1>3, DropLoses
<1>5. NoWorkLost'
  BY <1>1, <1>2, <1>3, <1>4 DEF FolderDies, NoWorkLost, CommittedWorkSurvives, UncommittedWorkKept
<1>6. Calm /\ finishing' \in BOOLEAN
  BY <1>1, <1>2, <1>4 DEF Calm, FolderDies, TreeTypes
<1> QED BY <1>1, <1>2, <1>5, <1>6, CalmEnd

LEMMA AddKeeps ==
    ASSUME TreeInv, NEW o \in Ops, WorktreeAdds(o)
    PROVE  TreeInv'
<1> DEFINE b == ops[o].branch
<1>1. TreeTypes /\ OneClaim /\ NoWorkLost /\ RequestOK(o) /\ ops[o].kind = "create" /\ MayDiscard(o)
      /\ Claiming(o)
  BY DEF TreeInv, WorktreeAdds, At, MayDiscard, Claiming
<1>2. /\ b \in Branches /\ ops[o].base \subseteq trunk /\ ops[o].base \in SUBSET Nat
  BY <1>1, RequestKinds DEF Creates, RequestOK, Covered
<1>3. /\ branches' = [x \in DOMAIN branches \cup {b} |-> IF x = b THEN ops[o].base ELSE branches[x]]
      /\ folder' = [on |-> b, edits |-> "none"] /\ Goes(o, "save")
      /\ UNCHANGED <<trunk, landed, records, nextId, claimed, finishing, commits, late, lost, ruined>>
  BY DEF WorktreeAdds, lockVars, histVars
<1>4. PICK r \in Creates : /\ ops' = [ops EXCEPT ![o] = r] /\ ops'[o] = r
                            /\ r.stage = "save" /\ r.kind = "create" /\ r.base = ops[o].base
                            /\ r.branch = b
  BY <1>1, <1>3, CreateGoes
<1>5. branches'[b] \subseteq trunk' /\ b \in DOMAIN branches'
      /\ \A x \in DOMAIN branches' : x # b => x \in DOMAIN branches /\ branches'[x] = branches[x]
  BY <1>2, <1>3
<1>6. Benign
  <2>1. \A x \in Branches : x \in DOMAIN branches' =>
            branches'[x] \subseteq Held(x) \cup trunk' \cup late'
    BY <1>5 DEF Held, Exists
  <2>2. folder'.edits = "none" /\ nextId' \in Nat /\ nextId <= nextId'
    BY <1>1, <1>3 DEF TreeTypes
  <2>3. UNCHANGED <<trunk, landed, records, late>>
    BY <1>3
  <2> HIDE DEF b
  <2> QED BY <2>1, <2>2, <2>3 DEF Benign, Exists
<1>7. RequestOK(o)'
  BY <1>3, <1>4, <1>5, <1>2 DEF RequestOK, RowStands, Covered, EditsSeen, MayDiscard, DropsLater, Exists
<1>8. TreeTypes'
  <2>1. ops' \in [Ops -> Requests]
    BY <1>1, <1>4 DEF TreeTypes, Requests
  <2>2. \A x \in DOMAIN branches' : branches'[x] \in SUBSET Nat
    BY <1>1, <1>2, <1>3 DEF TreeTypes
  <2>3. folder' \in [on : Branches \cup {NoBranch}, edits : {"none", "settled", "raced"}]
        /\ folder'.edits = "none"
    BY <1>2, <1>3
  <2> HIDE DEF b
  <2> QED BY <1>1, <1>3, <2>1, <2>2, <2>3 DEF TreeTypes
<1>9. Moves(o, r)
  BY <1>1, <1>3, <1>4 DEF Moves, Requests
<1>10. NoWorkLost'
  BY <1>1, <1>3 DEF NoWorkLost, CommittedWorkSurvives, UncommittedWorkKept
<1> QED BY <1>6, <1>7, <1>8, <1>9, <1>10, RequestMoves

LEMMA SaveKeeps ==
    ASSUME TreeInv, NEW o \in Ops, WorktreeSaved(o)
    PROVE  TreeInv'
<1>1. TreeTypes /\ NoWorkLost /\ Claiming(o) /\ ops[o].branch \in Branches
  BY RequestKinds DEF TreeInv, WorktreeSaved, At, Claiming, Creates
<1>2. /\ records' = [i \in {nextId + 1} |-> ops[o].branch] /\ nextId' = nextId + 1
      /\ claimed' = FALSE /\ Ends(o)
      /\ UNCHANGED <<branches, trunk, landed, folder, finishing, commits, late, lost, ruined>>
  BY DEF WorktreeSaved, repoVars, histVars
<1>3. /\ ops' = [ops EXCEPT ![o] = Idle] /\ Idle \in Requests /\ RequestOK(o)' /\ ~Claiming(o)'
  BY <1>1, <1>2, RequestEnds
<1>4. Benign
  <2>1. nextId \in Nat /\ nextId' \in Nat /\ nextId <= nextId' /\ nextId + 1 \notin 1..nextId
    BY <1>1, <1>2 DEF TreeTypes
  <2>2. DOMAIN records' = {nextId + 1}
    BY <1>2
  <2> QED BY <1>2, <2>1, <2>2 DEF Benign, Held, Exists
<1>5. TreeTypes'
  <2>1. \A i \in DOMAIN records' : i \in 1..nextId' /\ records'[i] \in Branches
    <3>1. nextId + 1 \in 1..nextId'
      BY <1>1, <1>2 DEF TreeTypes
    <3>2. DOMAIN records' = {nextId + 1} /\ \A i \in DOMAIN records' : records'[i] = ops[o].branch
      BY <1>2
    <3>3. ops[o].branch \in Branches
      BY <1>1
    <3>4. \A i \in DOMAIN records' : i = nextId + 1
      BY <3>2
    <3> QED BY <3>1, <3>2, <3>3, <3>4
  <2>2. ops' \in [Ops -> Requests]
    BY <1>1, <1>3 DEF TreeTypes
  <2>3. nextId' \in Nat /\ claimed' \in BOOLEAN
    <3>1. nextId \in Nat
      BY <1>1 DEF TreeTypes
    <3>2. nextId' = nextId + 1 /\ claimed' = FALSE
      BY <1>2
    <3>3. claimed' \in BOOLEAN
      BY <3>2
    <3> QED BY <3>1, <3>2, <3>3
  <2>4. UNCHANGED <<branches, trunk, landed, folder, finishing, commits>>
    BY <1>2
  <2>5. TreeTypes
    BY <1>1
  <2> QED BY <2>1, <2>2, <2>3, <2>4, <2>5 DEF TreeTypes, Gone
<1>6. Moves(o, Idle) /\ NoWorkLost'
  BY <1>1, <1>2, <1>3 DEF Moves, NoWorkLost, CommittedWorkSurvives, UncommittedWorkKept
<1> QED BY <1>3, <1>4, <1>5, <1>6, RequestMoves

\* Delete.
LEMMA DeleteBeginsKeeps ==
    ASSUME TreeInv, NEW o \in Ops, NEW i \in DOMAIN records, NEW force \in BOOLEAN,
           DeleteBegins(o, i, force)
    PROVE  TreeInv'
<1>1. TreeTypes /\ NoWorkLost /\ ops[o].kind = "none"
  BY DEF TreeInv, DeleteBegins, Free
<1>2. PICK r : r = Deletion(i, force, "end", FALSE)
  OBVIOUS
<1>3. /\ ops' = [ops EXCEPT ![o] = r]
      /\ UNCHANGED <<branches, trunk, landed, folder, records, nextId, claimed, finishing,
                     commits, late, lost, ruined>>
  BY <1>2 DEF DeleteBegins, repoVars, lockVars, histVars
<1>4. i \in 1..nextId /\ records[i] \in Branches /\ nextId \in Nat
  BY <1>1 DEF TreeTypes
<1>5. /\ r \in Deletes /\ r.kind = "delete" /\ r.stage = "inUse" /\ r.then = "end" /\ r.id = i
      /\ r.branch = records[i]
  BY <1>2, <1>4 DEF Deletion, Deletes
<1>6. ops'[o] = r
  BY <1>1, <1>3 DEF TreeTypes
<1>7. RequestOK(o)' /\ ~Claiming(o)'
  BY <1>3, <1>4, <1>5, <1>6 DEF RequestOK, RowStands, Covered, EditsSeen, MayDiscard, DropsLater, Claiming
<1>8. Calm
  BY <1>3 DEF Calm
<1>9. Moves(o, r) /\ finishing' \in BOOLEAN /\ claimed' \in BOOLEAN
  BY <1>1, <1>3, <1>5, <1>7 DEF Moves, Requests, TreeTypes
<1>10. NoWorkLost'
  BY <1>1, <1>3 DEF NoWorkLost, CommittedWorkSurvives, UncommittedWorkKept
<1> QED BY <1>7, <1>8, <1>9, <1>10, CalmMove

\* A delete that goes on, without a drop of its own.
LEMMA DeleteMoves ==
    ASSUME TreeInv, NEW o \in Ops, ops[o].kind = "delete", Calm,
           NEW st \in {"inUse", "status", "remove", "branch", "row", "drop"}, Goes(o, st),
           st = "remove" /\ ~ops[o].force => folder.edits # "settled",
           st = "drop" => ops[o].then = "drop",
           finishing' = finishing, claimed' = claimed, NoWorkLost'
    PROVE  TreeInv'
<1>1. TreeTypes /\ RequestOK(o)
  BY DEF TreeInv
<1>2. PICK r \in Deletes : /\ ops' = [ops EXCEPT ![o] = r] /\ ops'[o] = r
                           /\ r.stage = st /\ r.kind = "delete"
                           /\ r.branch = ops[o].branch /\ r.id = ops[o].id
                           /\ r.force = ops[o].force /\ r.then = ops[o].then
  BY <1>1, DeleteGoes
<1>3. folder.edits # "settled" => folder'.edits # "settled"
  BY DEF Calm, NoFolder
<1>4. RowStands(o)'
  BY <1>1, <1>2 DEF RequestOK, RowStands, Calm
<1>5. Covered(o)'
  BY <1>1, <1>2 DEF RequestOK, Covered, Calm, MayDiscard, DropsLater, Exists
<1>6. EditsSeen(o)'
  BY <1>2, <1>3 DEF EditsSeen, MayDiscard
<1>7. Moves(o, r) /\ finishing' \in BOOLEAN /\ claimed' \in BOOLEAN
  BY <1>1, <1>2 DEF Moves, Requests, Claiming, TreeTypes
<1> QED BY <1>4, <1>5, <1>6, <1>7, CalmMove DEF RequestOK

LEMMA LooksKeep ==
    ASSUME TreeInv, NEW o \in Ops,
           inUse(o) \/ FolderHeld(o) \/ FinishRefused(o) \/ \E known \in BOOLEAN : DeleteChecks(o, known)
    PROVE  TreeInv'
<1>1. TreeTypes /\ NoWorkLost
  BY DEF TreeInv
<1>2. UNCHANGED <<branches, trunk, landed, folder, records, nextId, claimed, commits, late, lost, ruined>>
  BY DEF inUse, FolderHeld, FinishRefused, DeleteChecks, repoVars, histVars
<1>3. Calm /\ NoWorkLost'
  BY <1>1, <1>2 DEF Calm, NoWorkLost, CommittedWorkSurvives, UncommittedWorkKept
<1>4. CASE Ends(o) /\ Released(o)
  BY <1>1, <1>2, <1>3, <1>4, CalmEnd DEF Released, TreeTypes
<1>5. CASE inUse(o) /\ Goes(o, "status") /\ finishing' = finishing
  BY <1>2, <1>3, <1>5, DeleteMoves DEF inUse, At
<1>6. CASE /\ \E known \in BOOLEAN : DeleteChecks(o, known)
           /\ Goes(o, "branch") /\ finishing' = finishing
  BY <1>2, <1>3, <1>6, DeleteMoves DEF DeleteChecks, At
<1>7. CASE \E known \in BOOLEAN : /\ DeleteChecks(o, known) /\ ~Refuses(o, known)
                                   /\ Goes(o, "remove") /\ finishing' = finishing
  <2>1. ~ops[o].force => folder.edits # "settled"
    BY <1>7 DEF Refuses, Dirty
  <2> QED BY <1>2, <1>3, <1>7, <2>1, DeleteMoves DEF DeleteChecks, At
<1> QED BY <1>4, <1>5, <1>6, <1>7 DEF inUse, FolderHeld, FinishRefused, DeleteChecks

LEMMA RemoveKeeps ==
    ASSUME TreeInv, NEW o \in Ops, RemovesFolder(o)
    PROVE  TreeInv'
<1>1. TreeTypes /\ NoWorkLost /\ RequestOK(o) /\ At(o, "delete", "remove") /\ Goes(o, "branch")
      /\ FolderDies(ops[o].force)
  BY DEF TreeInv, RemovesFolder
<1>2. UNCHANGED <<branches, trunk, landed, records, nextId, claimed, finishing, commits, late, lost>>
  BY DEF RemovesFolder, repoVars, lockVars
<1>3. ~ops[o].force => folder.edits # "settled"
  BY <1>1 DEF RequestOK, EditsSeen, At
<1>4. NoWorkLost'
  BY <1>1, <1>2, <1>3 DEF FolderDies, NoWorkLost, CommittedWorkSurvives, UncommittedWorkKept
<1>5. Calm
  BY <1>1, <1>2 DEF Calm, FolderDies
<1> QED BY <1>1, <1>2, <1>4, <1>5, DeleteMoves DEF At

LEMMA DeleteBranchKeeps ==
    ASSUME TreeInv, NEW o \in Ops, DeletesBranch(o)
    PROVE  TreeInv'
<1>1. TreeTypes /\ NoWorkLost /\ At(o, "delete", "branch") /\ Goes(o, "row")
  BY DEF TreeInv, DeletesBranch
<1>2. UNCHANGED <<trunk, landed, folder, records, nextId, claimed, finishing, commits, late, ruined>>
  BY DEF DeletesBranch, lockVars
<1>3. /\ lost' \subseteq late'
      /\ \A x \in DOMAIN branches' : x \in DOMAIN branches /\ branches'[x] = branches[x]
  <2>1. CASE BranchGoes(ops[o].branch) /\ DropBranch(ops[o].branch)
    BY <1>1, <1>2, <2>1, DropLoses DEF BranchGoes
  <2>2. CASE UNCHANGED <<branches, lost>>
    BY <1>1, <1>2, <2>2 DEF NoWorkLost, CommittedWorkSurvives
  <2> QED BY <2>1, <2>2 DEF DeletesBranch
<1>4. NoWorkLost'
  BY <1>1, <1>2, <1>3 DEF NoWorkLost, CommittedWorkSurvives, UncommittedWorkKept
<1>5. Calm
  BY <1>2, <1>3 DEF Calm
<1> QED BY <1>1, <1>2, <1>4, <1>5, DeleteMoves DEF At

LEMMA DeleteRowKeeps ==
    ASSUME TreeInv, NEW o \in Ops, NEW deleted \in BOOLEAN, DeletesRow(o, deleted)
    PROVE  TreeInv'
<1>1. TreeTypes /\ NoWorkLost /\ At(o, "delete", "row")
  BY DEF TreeInv, DeletesRow
<1>2. UNCHANGED <<branches, trunk, landed, folder, nextId, claimed, commits, late, lost, ruined>>
  BY DEF DeletesRow, repoVars, histVars
<1>3. \A i \in DOMAIN records' : i \in DOMAIN records /\ records'[i] = records[i]
  BY DEF DeletesRow, Without
<1>4. Calm /\ NoWorkLost'
  BY <1>1, <1>2, <1>3 DEF Calm, NoWorkLost, CommittedWorkSurvives, UncommittedWorkKept
<1>5. CASE ops[o].then = "drop" /\ Goes(o, "drop") /\ finishing' = finishing
  BY <1>1, <1>2, <1>4, <1>5, DeleteMoves DEF At
<1>6. CASE Ends(o) /\ Released(o)
  BY <1>1, <1>2, <1>4, <1>6, CalmEnd DEF Released, TreeTypes
<1> QED BY <1>5, <1>6 DEF DeletesRow

LEMMA DropSquashedKeeps ==
    ASSUME TreeInv, NEW o \in Ops, DropsSquashed(o)
    PROVE  TreeInv'
<1>1. /\ TreeTypes /\ NoWorkLost /\ RequestOK(o)
      /\ ops[o].kind = "delete" /\ ops[o].stage = "drop" /\ Ends(o) /\ Released(o)
  BY DEF TreeInv, DropsSquashed, At
<1>2. UNCHANGED <<trunk, landed, folder, records, nextId, claimed, commits, late, ruined>>
  BY DEF DropsSquashed
<1>3. /\ lost' \subseteq late'
      /\ \A x \in DOMAIN branches' : x \in DOMAIN branches /\ branches'[x] = branches[x]
  <2>1. CASE DropBranch(ops[o].branch)
    <3>1. DropsLater(o)
      BY <1>1 DEF RequestOK, Covered
    <3> QED BY <1>1, <1>2, <2>1, <3>1, DropLoses DEF RequestOK, Covered
  <2>2. CASE UNCHANGED <<branches, lost>>
    BY <1>1, <1>2, <2>2 DEF NoWorkLost, CommittedWorkSurvives
  <2> QED BY <2>1, <2>2 DEF DropsSquashed
<1>4. NoWorkLost'
  BY <1>1, <1>2, <1>3 DEF NoWorkLost, CommittedWorkSurvives, UncommittedWorkKept
<1>5. Calm /\ finishing' \in BOOLEAN
  BY <1>1, <1>2, <1>3 DEF Calm, Released, TreeTypes
<1> QED BY <1>1, <1>2, <1>4, <1>5, CalmEnd

\* Rebase and merge.
LEMMA FinishBeginsKeeps ==
    ASSUME TreeInv, NEW o \in Ops, NEW i \in DOMAIN records,
           NEW k \in {"rebase", "merge", "squash"}, NEW delete \in BOOLEAN, FinishBegins(o, i, k, delete)
    PROVE  TreeInv'
<1>1. TreeTypes /\ NoWorkLost
  BY DEF TreeInv
<1>2. PICK r : r = [kind |-> k, stage |-> "run", id |-> i, branch |-> records[i],
                    delete |-> delete, hold |-> TRUE]
  OBVIOUS
<1>3. /\ ops' = [ops EXCEPT ![o] = r]
      /\ finishing' = TRUE
      /\ UNCHANGED <<branches, trunk, landed, folder, records, nextId, claimed,
                     commits, late, lost, ruined>>
  BY <1>2 DEF FinishBegins, repoVars, histVars
<1>4. i \in 1..nextId /\ records[i] \in Branches /\ nextId \in Nat
  BY <1>1 DEF TreeTypes
<1>5. r \in Finishes /\ r.kind = k /\ r.id = i /\ r.branch = records[i] /\ r.stage = "run"
  BY <1>2, <1>4 DEF Finishes
<1>6. ops'[o] = r
  BY <1>1, <1>3 DEF TreeTypes
<1>7. RequestOK(o)' /\ ~Claiming(o)'
  BY <1>3, <1>4, <1>5, <1>6 DEF RequestOK, RowStands, Covered, EditsSeen, MayDiscard, DropsLater, Claiming
<1>8. Calm
  BY <1>3 DEF Calm
<1>9. Moves(o, r) /\ finishing' \in BOOLEAN /\ claimed' \in BOOLEAN
  BY <1>1, <1>3, <1>5, <1>7 DEF Moves, Requests, TreeTypes
<1>10. NoWorkLost'
  BY <1>1, <1>3 DEF NoWorkLost, CommittedWorkSurvives, UncommittedWorkKept
<1> QED BY <1>7, <1>8, <1>9, <1>10, CalmMove

LEMMA RebaseKeeps ==
    ASSUME TreeInv, NEW o \in Ops, Rebases(o)
    PROVE  TreeInv'
<1> DEFINE b == ops[o].branch
<1>1. TreeTypes /\ NoWorkLost /\ b \in DOMAIN branches /\ Ends(o) /\ ops[o].kind = "rebase"
  BY DEF TreeInv, Rebases, Exists, At
<1>2. /\ branches' = [branches EXCEPT ![b] = branches[b] \cup trunk]
      /\ finishing' = (finishing /\ ~ops[o].hold)
      /\ UNCHANGED <<trunk, landed, folder, records, nextId, claimed, commits, late, lost, ruined>>
  BY DEF Rebases, Released, histVars
<1>3. /\ ops' = [ops EXCEPT ![o] = Idle] /\ Idle \in Requests /\ RequestOK(o)' /\ ~Claiming(o)'
  BY <1>1, RequestEnds
<1>4. /\ DOMAIN branches' = DOMAIN branches
      /\ \A x \in DOMAIN branches : branches'[x] \subseteq branches[x] \cup trunk
  BY <1>2
<1> HIDE DEF b
<1>5. Benign
  <2>1. \A x \in Branches : x \in DOMAIN branches' =>
            branches'[x] \subseteq Held(x) \cup trunk' \cup late'
    BY <1>2, <1>4 DEF Held, Exists
  <2>2. nextId' \in Nat /\ nextId <= nextId'
    BY <1>1, <1>2 DEF TreeTypes
  <2>3. UNCHANGED <<trunk, landed, folder, records, late>>
    BY <1>2
  <2> QED BY <2>1, <2>2, <2>3 DEF Benign, Exists
<1>6. TreeTypes'
  <2>1. \A x \in DOMAIN branches' : branches'[x] \in SUBSET Nat
    BY <1>1, <1>4 DEF TreeTypes
  <2>2. ops' \in [Ops -> Requests] /\ finishing' \in BOOLEAN
    BY <1>1, <1>2, <1>3 DEF TreeTypes
  <2>3. TreeTypes /\ UNCHANGED <<trunk, landed, folder, records, nextId, claimed, commits>>
    BY <1>1, <1>2
  <2> QED BY <2>1, <2>2, <2>3 DEF TreeTypes, Gone
<1>7. Moves(o, Idle) /\ NoWorkLost'
  BY <1>1, <1>2, <1>3 DEF Moves, NoWorkLost, CommittedWorkSurvives, UncommittedWorkKept
<1> QED BY <1>3, <1>5, <1>6, <1>7, RequestMoves

\* After a merge the branch is in the base branch, or landed: it may go.
LEMMA MergeKeeps ==
    ASSUME TreeInv, NEW o \in Ops, FastForwards(o) \/ Squashes(o)
    PROVE  TreeInv'
<1> DEFINE b == ops[o].branch
<1>1. /\ TreeTypes /\ NoWorkLost /\ RequestOK(o) /\ b \in DOMAIN branches
      /\ ops[o].kind \in {"rebase", "merge", "squash"}
  BY DEF TreeInv, FastForwards, Squashes, Exists, At
<1>2. /\ landed' = landed \cup branches[b] /\ trunk \subseteq trunk' /\ trunk' \in SUBSET Nat
      /\ branches[b] \in SUBSET Nat
      /\ UNCHANGED <<branches, folder, records, nextId, claimed, commits, late, lost, ruined>>
  BY <1>1 DEF FastForwards, Squashes, histVars, TreeTypes
<1>3. PICK then \in {"end", "drop"} : AfterMerge(o, then)
  BY DEF FastForwards, Squashes
<1>4. Benign
  <2>1. nextId' \in Nat /\ nextId <= nextId'
    BY <1>1, <1>2 DEF TreeTypes
  <2>2. landed \subseteq landed' /\ UNCHANGED <<branches, folder, records, late>>
    BY <1>2
  <2> HIDE DEF b
  <2> QED BY <1>2, <2>1, <2>2 DEF Benign, Held, Exists
<1>5. NoWorkLost'
  BY <1>1, <1>2 DEF NoWorkLost, CommittedWorkSurvives, UncommittedWorkKept
<1>6. ASSUME NEW r \in Requests, ops' = [ops EXCEPT ![o] = r], RequestOK(o)', ~Claiming(o)',
             finishing' \in BOOLEAN
      PROVE  TreeInv'
  <2>1. ops' \in [Ops -> Requests] /\ landed' \in SUBSET Nat
    BY <1>1, <1>2, <1>6 DEF TreeTypes
  <2>2. TreeTypes'
    <3>1. TreeTypes /\ UNCHANGED <<branches, folder, records, nextId, claimed, commits>>
      BY <1>1, <1>2
    <3> QED BY <1>2, <1>6, <2>1, <3>1 DEF TreeTypes, Gone
  <2>3. Moves(o, r)
    BY <1>2, <1>6 DEF Moves
  <2> QED BY <1>4, <1>5, <1>6, <2>2, <2>3, RequestMoves
<1>7. CASE Ends(o) /\ Released(o)
  <2>1. /\ ops' = [ops EXCEPT ![o] = Idle] /\ Idle \in Requests /\ RequestOK(o)' /\ ~Claiming(o)'
    BY <1>1, <1>7, RequestEnds
  <2>2. finishing' \in BOOLEAN
    BY <1>1, <1>7 DEF Released, TreeTypes
  <2> QED BY <1>6, <2>1, <2>2
<1>8. CASE /\ ops[o].id \in DOMAIN records /\ finishing' = finishing
           /\ ops' = [ops EXCEPT ![o] = Deletion(ops[o].id, FALSE, then, TRUE)]
  <2>1. PICK r : r = Deletion(ops[o].id, FALSE, then, TRUE)
    OBVIOUS
  <2>2. ops[o].id \in 1..nextId /\ records[ops[o].id] = b /\ b \in Branches /\ nextId \in Nat
    BY <1>1, <1>8 DEF RequestOK, RowStands, TreeTypes
  <2>3. /\ r \in Deletes /\ r.kind = "delete" /\ r.stage = "inUse" /\ r.id = ops[o].id
        /\ r.branch = b
    BY <2>1, <2>2 DEF Deletion, Deletes
  <2>4. ops'[o] = r
    BY <1>1, <1>8, <2>1 DEF TreeTypes
  <2>5. branches'[b] \subseteq landed' /\ records'[ops[o].id] = b /\ nextId' = nextId
    BY <1>2, <2>2
  <2>6. RequestOK(o)' /\ ~Claiming(o)'
    <3> HIDE DEF b
    <3> QED BY <2>2, <2>3, <2>4, <2>5
        DEF RequestOK, RowStands, Covered, EditsSeen, MayDiscard, DropsLater, Claiming
  <2>7. r \in Requests /\ finishing' \in BOOLEAN
    BY <1>1, <1>8, <2>3 DEF Requests, TreeTypes
  <2> QED BY <1>6, <1>8, <2>1, <2>6, <2>7
<1> QED BY <1>3, <1>7, <1>8 DEF AfterMerge

\* A chat, and a user at the PC.
LEMMA EditsKeep ==
    ASSUME TreeInv, Edit \/ UserDeletesFolder \/ ChatTurns
    PROVE  TreeInv'
<1>1. TreeTypes /\ OneClaim /\ NoWorkLost
  BY DEF TreeInv
<1>2. UNCHANGED <<branches, trunk, landed, records, nextId, claimed, finishing, ops,
                  commits, late, lost, ruined>>
  BY DEF Edit, UserDeletesFolder, ChatTurns, repoVars, lockVars, histVars
<1>3. /\ folder' \in [on : Branches \cup {NoBranch}, edits : {"none", "settled", "raced"}]
      /\ folder'.on = NoBranch => folder'.edits = "none"
      /\ folder'.edits = "settled" => folder.edits = "settled" \/ ~Unwatched
  <2>1. CASE Edit
    <3>1. PICK e \in {"settled", "raced"} : folder' = [folder EXCEPT !.edits = e]
                                             /\ (e = "settled" => ~Unwatched)
      BY <2>1 DEF Edit
    <3>2. folder.on # NoBranch
      BY <2>1 DEF Edit, Gone
    <3> QED BY <1>1, <3>1, <3>2 DEF TreeTypes
  <2>2. CASE folder' = NoFolder
    BY <1>1, <2>2 DEF NoFolder
  <2>3. CASE folder' = folder
    BY <1>1, <2>3 DEF TreeTypes, Gone
  <2> QED BY <2>1, <2>2, <2>3 DEF UserDeletesFolder, ChatTurns, histVars
<1>4. Benign
  BY <1>1, <1>2, <1>3 DEF Benign, Held, Exists, TreeTypes
<1>5. TreeTypes'
  BY <1>1, <1>2, <1>3 DEF TreeTypes, Gone
<1>6. \A p \in Ops : RequestOK(p)'
  BY <1>2, <1>4, OthersKeep
<1>7. OneClaim' /\ NoWorkLost'
  BY <1>1, <1>2 DEF OneClaim, Claiming, NoWorkLost, CommittedWorkSurvives, UncommittedWorkKept
<1> QED BY <1>5, <1>6, <1>7 DEF TreeInv

\* A commit on a doomed branch comes late.
LEMMA CommitsKeep ==
    ASSUME TreeInv, CommitInFolder \/ \E b \in Branches : UserMakesBranch(b)
    PROVE  TreeInv'
<1>1. TreeTypes /\ OneClaim /\ NoWorkLost
  BY DEF TreeInv
<1>2. PICK b \in Branches : Commits(b)
  BY <1>1 DEF CommitInFolder, UserMakesBranch, TreeTypes, Gone
<1>3. /\ UNCHANGED <<trunk, landed, records, nextId, claimed, finishing, ops, lost, ruined>>
      /\ folder' = folder \/ folder' = [folder EXCEPT !.edits = "none"]
  BY DEF CommitInFolder, UserMakesBranch, lockVars
<1>4. /\ commits \in Nat /\ commits' = commits + 1 /\ late \subseteq late'
      /\ Doomed(b) => commits + 1 \in late'
  BY <1>1, <1>2 DEF Commits, TreeTypes
<1>5. /\ DOMAIN branches' = DOMAIN branches \cup {b}
      /\ branches'[b] \subseteq Held(b) \cup trunk \cup {commits + 1}
      /\ branches'[b] \in SUBSET Nat
      /\ \A x \in DOMAIN branches \ {b} : branches'[x] = branches[x]
  <2>1. /\ DOMAIN branches' = DOMAIN branches \cup {b}
        /\ branches'[b] = (IF Exists(b) THEN branches[b] ELSE trunk) \cup {commits + 1}
        /\ \A x \in DOMAIN branches \ {b} : branches'[x] = branches[x]
    BY <1>2 DEF Commits
  <2>2. trunk \in SUBSET Nat /\ (Exists(b) => branches[b] \in SUBSET Nat) /\ commits + 1 \in Nat
    BY <1>1 DEF TreeTypes, Exists
  <2> QED BY <2>1, <2>2 DEF Held
<1>6. /\ folder' \in [on : Branches \cup {NoBranch}, edits : {"none", "settled", "raced"}]
      /\ folder'.on = NoBranch => folder'.edits = "none"
      /\ folder'.edits = "settled" => folder.edits = "settled"
  BY <1>1, <1>3 DEF TreeTypes, Gone
<1>7. Benign
  <2>1. ASSUME NEW x \in Branches, Doomed(x), x \in DOMAIN branches'
        PROVE  branches'[x] \subseteq Held(x) \cup trunk' \cup late'
    <3>1. CASE x = b
      BY <1>3, <1>4, <1>5, <2>1, <3>1
    <3>2. CASE x # b
      BY <1>5, <2>1, <3>2 DEF Held, Exists
    <3> QED BY <3>1, <3>2
  <2>2. nextId' \in Nat /\ nextId <= nextId'
    BY <1>1, <1>3 DEF TreeTypes
  <2> QED BY <1>3, <1>4, <1>6, <2>1, <2>2 DEF Benign, Exists
<1>8. TreeTypes'
  <2>1. \A x \in DOMAIN branches' : branches'[x] \in SUBSET Nat
    BY <1>1, <1>5 DEF TreeTypes
  <2>2. commits' \in Nat
    BY <1>4
  <2> QED BY <1>1, <1>3, <1>6, <2>1, <2>2 DEF TreeTypes, Gone
<1>9. \A p \in Ops : RequestOK(p)'
  BY <1>3, <1>7, OthersKeep
<1>10. OneClaim' /\ NoWorkLost'
  BY <1>1, <1>3, <1>4 DEF OneClaim, Claiming, NoWorkLost, CommittedWorkSurvives, UncommittedWorkKept
<1> QED BY <1>8, <1>9, <1>10 DEF TreeInv

LEMMA TreeStep ==
    ASSUME TreeInv, [TreeNext]_treeVars
    PROVE  TreeInv'
<1>1. CASE TreeNext
  <2>1. ASSUME NEW o \in Ops, Arrives(o)
        PROVE  TreeInv'
    <3>1. CASE \E b \in Branches : CreateBegins(o, b)
      BY <3>1, CreateBeginsKeeps
    <3>2. CASE \E i \in DOMAIN records : \E force \in BOOLEAN : DeleteBegins(o, i, force)
      BY <3>2, DeleteBeginsKeeps
    <3>3. CASE \E i \in DOMAIN records : FinishBegins(o, i, "rebase", FALSE)
      BY <3>3, FinishBeginsKeeps
    <3>4. CASE \E i \in DOMAIN records : \E k \in {"merge", "squash"}, delete \in BOOLEAN :
                 FinishBegins(o, i, k, delete)
      BY <3>4, FinishBeginsKeeps
    <3> QED BY <2>1, <3>1, <3>2, <3>3, <3>4 DEF Arrives
  <2>2. ASSUME NEW o \in Ops, Request(o)
        PROVE  TreeInv'
    <3>1. CASE claimFolder(o) \/ CreateChecks(o) \/ WorktreeAdds(o) \/ WorktreeAddFails(o)
               \/ WorktreeSaved(o) \/ WorktreeNotSaved(o)
      BY <3>1, ClaimKeeps, AddKeeps, DiscardKeeps, SaveKeeps
    <3>2. CASE inUse(o) \/ FolderHeld(o) \/ FinishRefused(o) \/ \E known \in BOOLEAN : DeleteChecks(o, known)
      BY <3>2, LooksKeep
    <3>3. CASE RemovesFolder(o) \/ DeletesBranch(o) \/ DropsSquashed(o)
               \/ \E deleted \in BOOLEAN : DeletesRow(o, deleted)
      BY <3>3, RemoveKeeps, DeleteBranchKeeps, DropSquashedKeeps, DeleteRowKeeps
    <3>4. CASE Rebases(o) \/ FastForwards(o) \/ Squashes(o)
      BY <3>4, RebaseKeeps, MergeKeeps
    <3> QED BY <2>2, <3>1, <3>2, <3>3, <3>4 DEF Request
  <2> QED BY <1>1, <2>1, <2>2, EditsKeep, CommitsKeep DEF TreeNext
<1>2. CASE UNCHANGED treeVars
  <2>1. UNCHANGED <<branches, trunk, landed, folder, chat, records, nextId, claimed, finishing, ops,
                   commits, late, lost, ruined>>
    BY <1>2 DEF treeVars, repoVars, lockVars, histVars
  <2> QED BY <2>1
      DEF TreeInv, TreeTypes, Gone, OneClaim, Claiming, RequestOK, RowStands, Covered, EditsSeen,
          MayDiscard, DropsLater, Exists, NoWorkLost, CommittedWorkSurvives, UncommittedWorkKept
<1> QED BY <1>1, <1>2

\* No request, and no race of requests, loses committed work or, unforced,
\* edits that were there when it looked (Create, Delete, Rebase, Merge).
THEOREM WorkIsKept == TreeSpec => []NoWorkLost
<1>1. ASSUME TreeInit
      PROVE  TreeInv
  <2>1. DOMAIN branches = {} /\ DOMAIN records = {} /\ \A o \in Ops : ops[o] = Idle
    BY <1>1 DEF TreeInit
  <2>2. TreeTypes
    BY <1>1, <2>1 DEF TreeInit, TreeTypes, Requests, NoFolder
  <2>3. \A o \in Ops : ops[o].kind = "none"
    BY <2>1 DEF Idle
  <2> QED BY <1>1, <2>2, <2>3
      DEF TreeInit, TreeInv, OneClaim, Claiming, RequestOK, RowStands, Covered, EditsSeen,
          MayDiscard, DropsLater, NoWorkLost, CommittedWorkSurvives, UncommittedWorkKept
<1>2. TreeInv => NoWorkLost
  BY DEF TreeInv
<1> QED BY <1>1, <1>2, TreeStep, PTL DEF TreeSpec
=============================================================================
