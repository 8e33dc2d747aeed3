--------------------------- MODULE TurnFeedProofs ---------------------------
(***************************************************************************)
(* The turn feed, for any number of streams, devices and turns and any     *)
(* limits: what a client knows and what is queued for it always add up to  *)
(* what was published, a subscription is never left without a handler, and *)
(* a device's list holds exactly its active streams.                       *)
(*                                                                         *)
(* And the replay buffer with its client, for any size of the buffer and   *)
(* any number of updates, prompts and drops: what is queued for the client *)
(* and what the buffer can still tell it always make up the conversation.  *)
(***************************************************************************)
EXTENDS TurnFeed, CatchUp, FiniteSetTheorems, SequenceTheorems, TLAPS, WellFoundedInduction

Changes == [Keys -> Statuses \cup {Absent, Keep}]

\* A stream's part: it is promised what was published, or nothing is queued.
StreamOK(s) ==
    /\ s \in active => pc[s] \in {"streaming", "leaving"} /\ AddUp(view[s], queue[s], last)
    /\ s \notin active => queue[s] = <<>>
    /\ s \in subs => pc[s] \in {"writing", "ready", "streaming", "leaving"}
    /\ s \in subs \ active /\ pc[s] = "ready" => view[s] = base[s]

FeedTypes ==
    /\ world \in Snapshots /\ last \in Snapshots
    /\ base \in [Streams -> Snapshots] /\ view \in [Streams -> Snapshots]
    /\ queue \in [Streams -> Seq(Changes)]
    /\ pc \in [Streams -> {"idle", "writing", "ready", "streaming", "leaving", "done"}]
    /\ active \subseteq subs /\ subs \subseteq Streams
    /\ stopped => subs = {}

FeedInv ==
    /\ FeedTypes
    /\ IsFiniteSet(subs) /\ Cardinality(subs) <= MaxSubs
    /\ \A s \in Streams : StreamOK(s)
-----------------------------------------------------------------------------
(* Changes.                                                                *)

\* diffTurns is what turns one snapshot into the other.
LEMMA DiffApplies ==
    ASSUME NEW a \in Snapshots, NEW b \in Snapshots
    PROVE  /\ DiffTurns(a, b) \in Changes
           /\ Apply(a, DiffTurns(a, b)) = b
           /\ DiffTurns(a, b) = Nothing => a = b
<1>1. \A k \in Keys : b[k] # Keep
  BY FeedConstants DEF Snapshots
<1>2. DiffTurns(a, b) \in Changes
  BY DEF DiffTurns, Changes, Snapshots
<1>3. Apply(a, DiffTurns(a, b)) = b
  BY <1>1 DEF Apply, DiffTurns, Snapshots
<1>4. ASSUME DiffTurns(a, b) = Nothing PROVE a = b
  <2>1. \A k \in Keys : (IF a[k] = b[k] THEN Keep ELSE b[k]) = Keep
    BY <1>4 DEF DiffTurns, Nothing
  <2> QED BY <1>1, <2>1 DEF Snapshots
<1> QED BY <1>2, <1>3, <1>4

LEMMA AddUpNothing == ASSUME NEW v \in Snapshots PROVE AddUp(v, <<>>, v)
<1>1. PICK known : known = [i \in 1..1 |-> v]
  OBVIOUS
<1>2. known \in [1..Len(<<>>) + 1 -> Snapshots] /\ Len(<<>>) = 0 /\ known[1] = v
  BY <1>1
<1> QED BY <1>2 DEF AddUp

LEMMA AddUpOne ==
    ASSUME NEW v \in Snapshots, NEW c \in Changes, NEW l \in Snapshots, Apply(v, c) = l
    PROVE  AddUp(v, <<c>>, l)
<1>1. PICK known : known = [i \in 1..2 |-> IF i = 1 THEN v ELSE l]
  OBVIOUS
<1>2. Len(<<c>>) = 1 /\ <<c>>[1] = c
  OBVIOUS
<1>3. known \in [1..2 -> Snapshots] /\ known[1] = v /\ known[2] = l
  BY <1>1
<1>4. \A i \in 1..Len(<<c>>) : known[i + 1] = Apply(known[i], <<c>>[i])
  BY <1>2, <1>3
<1> QED BY <1>2, <1>3, <1>4 DEF AddUp

LEMMA AddUpAppend ==
    ASSUME NEW v \in Snapshots, NEW q \in Seq(Changes), NEW l \in Snapshots, AddUp(v, q, l),
           NEW c \in Changes, NEW m \in Snapshots, Apply(l, c) = m
    PROVE  AddUp(v, Append(q, c), m)
<1>1. PICK known \in [1..Len(q) + 1 -> Snapshots] :
          /\ known[1] = v /\ known[Len(q) + 1] = l
          /\ \A i \in 1..Len(q) : known[i + 1] = Apply(known[i], q[i])
  BY DEF AddUp
<1>2. PICK next : next = [i \in 1..Len(q) + 2 |-> IF i = Len(q) + 2 THEN m ELSE known[i]]
  OBVIOUS
<1>3. /\ Len(q) \in Nat /\ Len(Append(q, c)) = Len(q) + 1
      /\ \A i \in 1..Len(q) : Append(q, c)[i] = q[i]
      /\ Append(q, c)[Len(q) + 1] = c
  OBVIOUS
<1>4. /\ next \in [1..Len(q) + 2 -> Snapshots]
      /\ next[Len(q) + 2] = m /\ \A i \in 1..Len(q) + 1 : next[i] = known[i]
  BY <1>2, <1>3
<1>5. \A i \in 1..Len(q) + 1 : next[i + 1] = Apply(next[i], Append(q, c)[i])
  <2> SUFFICES ASSUME NEW i \in 1..Len(q) + 1
               PROVE  next[i + 1] = Apply(next[i], Append(q, c)[i])
    OBVIOUS
  <2>1. CASE i = Len(q) + 1
    <3>1. next[i + 1] = m /\ next[i] = l /\ Append(q, c)[i] = c
      BY <1>1, <1>3, <1>4, <2>1
    <3> QED BY <3>1
  <2>2. CASE i \in 1..Len(q)
    <3>1. i + 1 \in 1..Len(q) + 1
      BY <1>3, <2>2
    <3>2. next[i + 1] = known[i + 1] /\ next[i] = known[i] /\ Append(q, c)[i] = q[i]
      BY <1>3, <1>4, <2>2, <3>1
    <3> QED BY <1>1, <2>2, <3>2
  <2> QED BY <1>3, <2>1, <2>2
<1>6. next[1] = v
  BY <1>1, <1>3, <1>4
<1>7. Len(Append(q, c)) + 1 = Len(q) + 2
  BY <1>3
<1> QED BY <1>3, <1>4, <1>5, <1>6, <1>7 DEF AddUp

LEMMA AddUpHead ==
    ASSUME NEW v \in Snapshots, NEW q \in Seq(Changes), NEW l \in Snapshots, AddUp(v, q, l),
           q # <<>>
    PROVE  AddUp(Apply(v, Head(q)), Tail(q), l) /\ Apply(v, Head(q)) \in Snapshots
<1>1. PICK known \in [1..Len(q) + 1 -> Snapshots] :
          /\ known[1] = v /\ known[Len(q) + 1] = l
          /\ \A i \in 1..Len(q) : known[i + 1] = Apply(known[i], q[i])
  BY DEF AddUp
<1>2. /\ Len(q) \in Nat \ {0} /\ Len(Tail(q)) = Len(q) - 1 /\ Head(q) = q[1]
      /\ \A i \in 1..Len(q) - 1 : Tail(q)[i] = q[i + 1]
  OBVIOUS
<1>3. PICK next : next = [i \in 1..Len(q) |-> known[i + 1]]
  OBVIOUS
<1>4. \A i \in 1..Len(q) : i + 1 \in 1..Len(q) + 1
  BY <1>2
<1>5. /\ next \in [1..Len(q) -> Snapshots] /\ \A i \in 1..Len(q) : next[i] = known[i + 1]
  BY <1>3, <1>4
<1>6. next[1] = Apply(v, Head(q)) /\ next[Len(q)] = l /\ next[1] \in Snapshots
  BY <1>1, <1>2, <1>5
<1>7. \A i \in 1..Len(q) - 1 : next[i + 1] = Apply(next[i], Tail(q)[i])
  <2> SUFFICES ASSUME NEW i \in 1..Len(q) - 1
               PROVE  next[i + 1] = Apply(next[i], Tail(q)[i])
    OBVIOUS
  <2>1. i \in 1..Len(q) /\ i + 1 \in 1..Len(q)
    BY <1>2
  <2>2. next[i + 1] = known[i + 1 + 1] /\ next[i] = known[i + 1] /\ Tail(q)[i] = q[i + 1]
    BY <1>2, <1>5, <2>1
  <2> QED BY <1>1, <2>1, <2>2
<1>8. Len(Tail(q)) + 1 = Len(q)
  BY <1>2
<1> QED BY <1>2, <1>5, <1>6, <1>7, <1>8 DEF AddUp
-----------------------------------------------------------------------------
(* A sample.                                                               *)

\* Whatever a sample does to the promise, it does to the readied streams alone,
\* and a stream it ends has nothing left to read.
LEMMA SampleKeeps ==
    ASSUME FeedInv, NEW J \in SUBSET Streams, Sample(J)
    PROVE  /\ last' \in Snapshots
           /\ queue' \in [Streams -> Seq(Changes)]
           /\ active' \subseteq active /\ active' \subseteq subs'
           /\ subs' \subseteq subs \cup J
           /\ \A s \in Streams : s \in active' => AddUp(view[s], queue'[s], last')
           /\ \A s \in Streams : s \notin active' => queue'[s] = <<>>
<1> DEFINE c == DiffTurns(last, world)
           S == Slow(c)
<1>1. /\ last \in Snapshots /\ world \in Snapshots /\ view \in [Streams -> Snapshots]
      /\ queue \in [Streams -> Seq(Changes)]
      /\ active \subseteq subs /\ subs \subseteq Streams
  BY DEF FeedInv, FeedTypes
<1>2. c \in Changes /\ Apply(last, c) = world /\ (c = Nothing => last = world)
  BY <1>1, DiffApplies
<1>3. S = {s \in active : c # Nothing /\ Len(queue[s]) = MaxQueue}
  BY DEF Slow
<1>4. /\ active' = active \ S
      /\ subs' = (subs \ S) \cup J
      /\ last' = IF S # {} /\ subs \ S = {} THEN Empty ELSE world
      /\ queue' = [s \in Streams |->
             IF s \in S THEN <<>>
             ELSE IF s \in active THEN Queued(queue[s], c, Len(queue[s]) = MaxQueue)
             ELSE queue[s]]
  BY DEF Sample
<1>5. \A s \in Streams :
          /\ s \in active => AddUp(view[s], queue[s], last)
          /\ s \notin active => queue[s] = <<>>
  BY DEF FeedInv, StreamOK
<1> HIDE DEF c, S
<1>6. Empty \in Snapshots
  BY DEF Empty, Snapshots
<1>7. last' \in Snapshots
  BY <1>1, <1>4, <1>6
<1>8. \A s \in Streams : Queued(queue[s], c, Len(queue[s]) = MaxQueue) \in Seq(Changes)
  BY <1>1, <1>2 DEF Queued
<1>9. queue' \in [Streams -> Seq(Changes)]
  <2>1. <<>> \in Seq(Changes)
    OBVIOUS
  <2> QED BY <1>1, <1>4, <1>8, <2>1
<1>10. active' \subseteq active /\ active' \subseteq subs' /\ subs' \subseteq subs \cup J
  BY <1>1, <1>4
<1>11. ASSUME NEW s \in Streams, s \in active' PROVE AddUp(view[s], queue'[s], last')
  <2>1. s \in active /\ s \notin S /\ s \in subs \ S
    BY <1>1, <1>4, <1>11
  <2>2. last' = world
    BY <1>4, <2>1
  <2>3. queue'[s] = Queued(queue[s], c, Len(queue[s]) = MaxQueue)
    BY <1>4, <2>1
  <2>4. CASE c = Nothing
    <3>1. queue'[s] = queue[s] /\ last = world
      BY <1>2, <2>3, <2>4 DEF Queued
    <3> QED BY <1>5, <2>1, <2>2, <3>1
  <2>5. CASE c # Nothing
    <3>1. Len(queue[s]) # MaxQueue
      BY <1>3, <2>1, <2>5
    <3>2. queue'[s] = Append(queue[s], c)
      BY <2>3, <2>5, <3>1 DEF Queued
    <3>3. view[s] \in Snapshots /\ queue[s] \in Seq(Changes)
      BY <1>1
    <3>4. AddUp(view[s], queue[s], last)
      BY <1>5, <2>1
    <3> QED BY <1>1, <1>2, <2>2, <3>2, <3>3, <3>4, AddUpAppend
  <2> QED BY <2>4, <2>5
<1>12. ASSUME NEW s \in Streams, s \notin active' PROVE queue'[s] = <<>>
  <2>1. CASE s \in S
    BY <1>4, <2>1
  <2>2. CASE s \notin S
    <3>1. s \notin active
      BY <1>4, <1>12, <2>2
    <3> QED BY <1>4, <1>5, <2>2, <3>1
  <2> QED BY <2>1, <2>2
<1> QED BY <1>7, <1>9, <1>10, <1>11, <1>12

\* The samples nobody asked for: the window's and the backstop's.
LEMMA PlainSample ==
    ASSUME FeedInv, ~stopped, Sample({}),
           UNCHANGED <<world, base, view, pc, stopped>>
    PROVE  FeedInv'
<1>1. /\ last' \in Snapshots
      /\ queue' \in [Streams -> Seq(Changes)]
      /\ active' \subseteq active /\ active' \subseteq subs'
      /\ subs' \subseteq subs \cup {}
      /\ \A s \in Streams : s \in active' => AddUp(view[s], queue'[s], last')
      /\ \A s \in Streams : s \notin active' => queue'[s] = <<>>
  BY SampleKeeps
<1>2. FeedTypes /\ IsFiniteSet(subs) /\ Cardinality(subs) <= MaxSubs
  BY DEF FeedInv
<1>3. FeedTypes'
  BY <1>1, <1>2 DEF FeedTypes
<1>4. IsFiniteSet(subs') /\ Cardinality(subs') <= MaxSubs
  <2>1. subs' \subseteq subs
    BY <1>1
  <2>2. IsFiniteSet(subs') /\ Cardinality(subs') <= Cardinality(subs)
    BY <1>2, <2>1, FS_Subset
  <2>3. Cardinality(subs) \in Nat /\ Cardinality(subs') \in Nat /\ MaxSubs \in Nat
    BY <1>2, <2>2, FS_CardinalityType, FeedConstants
  <2> QED BY <1>2, <2>2, <2>3
<1>5. ASSUME NEW s \in Streams PROVE StreamOK(s)'
  <2>1. /\ s \in active => pc[s] \in {"streaming", "leaving"}
        /\ s \in subs => pc[s] \in {"writing", "ready", "streaming", "leaving"}
        /\ s \in subs \ active /\ pc[s] = "ready" => view[s] = base[s]
    BY DEF FeedInv, StreamOK
  <2>2. view' = view /\ base' = base /\ pc' = pc
    OBVIOUS
  <2>3. s \in active' => s \in active /\ AddUp(view'[s], queue'[s], last')
    BY <1>1, <2>2
  <2>4. s \in subs' \ active' /\ pc[s] = "ready" => s \in subs \ active
    BY <1>1, <2>1
  <2> QED BY <1>1, <2>1, <2>2, <2>3, <2>4 DEF StreamOK
<1> QED BY <1>3, <1>4, <1>5 DEF FeedInv
-----------------------------------------------------------------------------
(* The steps.                                                              *)

LEMMA FeedInit == Init => FeedInv
<1> SUFFICES ASSUME Init PROVE FeedInv
  OBVIOUS
<1>1. Empty \in Snapshots /\ <<>> \in Seq(Changes)
  BY DEF Empty, Snapshots
<1>2. FeedTypes
  BY <1>1 DEF Init, FeedTypes
<1>3. IsFiniteSet(subs) /\ Cardinality(subs) <= MaxSubs
  BY FS_EmptySet, FeedConstants DEF Init
<1>4. \A s \in Streams : StreamOK(s)
  BY DEF Init, StreamOK
<1> QED BY <1>2, <1>3, <1>4 DEF FeedInv

\* A step that leaves the subscriptions, their queues, the clients and what was
\* published alone may still move a handler that holds no promise.
LEMMA HandlerMoves ==
    ASSUME FeedInv, NEW s \in Streams, NEW p \in {"ready", "streaming", "leaving", "done"},
           pc' = [pc EXCEPT ![s] = p],
           UNCHANGED <<world, last, subs, active, base, queue, view, stopped>>,
           s \in active => p \in {"streaming", "leaving"},
           s \in subs => p # "done",
           s \in subs \ active => p # "ready"
    PROVE  FeedInv'
<1>1. FeedTypes /\ IsFiniteSet(subs) /\ Cardinality(subs) <= MaxSubs
  BY DEF FeedInv
<1>2. FeedTypes'
  BY <1>1 DEF FeedTypes
<1>3. ASSUME NEW q \in Streams PROVE StreamOK(q)'
  <2>1. StreamOK(q)
    BY DEF FeedInv
  <2>2. pc'[q] = IF q = s THEN p ELSE pc[q]
    BY <1>1 DEF FeedTypes
  <2> QED BY <2>1, <2>2 DEF StreamOK
<1> QED BY <1>1, <1>2, <1>3 DEF FeedInv

\* A step that touches neither a stream nor what was published.
LEMMA FeedFrame ==
    ASSUME FeedInv, world' \in Snapshots,
           UNCHANGED <<last, subs, active, base, queue, pc, view, stopped>>
    PROVE  FeedInv'
<1>1. FeedTypes /\ IsFiniteSet(subs) /\ Cardinality(subs) <= MaxSubs
  BY DEF FeedInv
<1>2. FeedTypes'
  BY <1>1 DEF FeedTypes
<1>3. ASSUME NEW q \in Streams PROVE StreamOK(q)'
  <2>1. StreamOK(q)
    BY DEF FeedInv
  <2> QED BY <2>1 DEF StreamOK
<1> QED BY <1>1, <1>2, <1>3 DEF FeedInv

LEMMA TakePokeKeeps == ASSUME FeedInv, TakePoke PROVE FeedInv'
<1>1. CASE subs # {}
  <2>1. world' \in Snapshots
    BY DEF FeedInv, FeedTypes, TakePoke, worldVars
  <2> QED BY <1>1, <2>1, FeedFrame DEF TakePoke
<1>2. CASE subs = {}
  <2>1. UNCHANGED <<world, subs, active, base, queue, pc, view, stopped>> /\ last' = Empty
    BY <1>2 DEF TakePoke, worldVars
  <2>2. FeedTypes /\ IsFiniteSet(subs) /\ Cardinality(subs) <= MaxSubs
    BY DEF FeedInv
  <2>3. FeedTypes'
    BY <2>1, <2>2 DEF FeedTypes, Empty, Snapshots
  <2>4. ASSUME NEW q \in Streams PROVE StreamOK(q)'
    <3>1. StreamOK(q) /\ q \notin active
      BY <1>2, <2>2 DEF FeedInv, FeedTypes
    <3> QED BY <2>1, <3>1 DEF StreamOK
  <2> QED BY <2>1, <2>2, <2>3, <2>4 DEF FeedInv
<1> QED BY <1>1, <1>2

LEMMA MutateKeeps ==
    ASSUME FeedInv, NEW k \in Keys, NEW v \in Statuses \cup {Absent}, Mutate(k, v)
    PROVE  FeedInv'
<1>1. world' \in Snapshots
  BY DEF FeedInv, FeedTypes, Mutate, Snapshots
<1> QED BY <1>1, FeedFrame DEF Mutate, runVars, feedVars

\* Subscribe adds the one stream that holds no subscription yet.
LEMMA ServeSubscribeKeeps ==
    ASSUME FeedInv, NEW s \in Streams, ServeSubscribe(s)
    PROVE  FeedInv'
<1>1. FeedTypes /\ IsFiniteSet(subs) /\ Cardinality(subs) <= MaxSubs
  BY DEF FeedInv
<1>2. pc[s] = "idle" /\ ~stopped
  BY DEF ServeSubscribe
<1>3. s \notin subs /\ s \notin active
  BY <1>1, <1>2 DEF FeedInv, FeedTypes, StreamOK
<1>4. CASE Cardinality(subs) >= MaxSubs
  <2>1. /\ pc' = [pc EXCEPT ![s] = "done"]
        /\ UNCHANGED <<world, last, subs, active, base, queue, view, stopped>>
    BY <1>4 DEF ServeSubscribe, feedVars, worldVars, runVars
  <2> QED BY <1>3, <2>1, HandlerMoves
<1>5. CASE ~(Cardinality(subs) >= MaxSubs)
  <2>1. /\ Sample({s})
        /\ base' = [base EXCEPT ![s] = world]
        /\ pc' = [pc EXCEPT ![s] = "writing"]
        /\ UNCHANGED <<world, view, stopped>>
    BY <1>5 DEF ServeSubscribe, worldVars, runVars
  <2>2. /\ last' \in Snapshots
        /\ queue' \in [Streams -> Seq(Changes)]
        /\ active' \subseteq active /\ active' \subseteq subs'
        /\ subs' \subseteq subs \cup {s}
        /\ \A q \in Streams : q \in active' => AddUp(view[q], queue'[q], last')
        /\ \A q \in Streams : q \notin active' => queue'[q] = <<>>
    BY <2>1, SampleKeeps
  <2>3. FeedTypes'
    BY <1>1, <1>2, <2>1, <2>2 DEF FeedTypes
  <2>4. IsFiniteSet(subs') /\ Cardinality(subs') <= MaxSubs
    <3>1. /\ IsFiniteSet(subs \cup {s})
          /\ Cardinality(subs \cup {s}) = Cardinality(subs) + 1
      BY <1>1, <1>3, FS_AddElement
    <3>2. IsFiniteSet(subs') /\ Cardinality(subs') <= Cardinality(subs \cup {s})
      BY <2>2, <3>1, FS_Subset
    <3>3. Cardinality(subs) \in Nat /\ Cardinality(subs') \in Nat /\ MaxSubs \in Nat
      BY <1>1, <3>2, FS_CardinalityType, FeedConstants
    <3> QED BY <1>5, <3>1, <3>2, <3>3
  <2>5. ASSUME NEW q \in Streams PROVE StreamOK(q)'
    <3>1. /\ pc'[q] = IF q = s THEN "writing" ELSE pc[q]
          /\ base'[q] = IF q = s THEN world ELSE base[q]
      BY <1>1, <2>1 DEF FeedTypes
    <3>2. StreamOK(q) /\ view' = view
      BY <2>1 DEF FeedInv
    <3>3. CASE q = s
      <4>1. q \notin active' /\ queue'[q] = <<>>
        BY <1>3, <2>2, <3>3
      <4> QED BY <3>1, <3>3, <4>1 DEF StreamOK
    <3>4. CASE q # s
      <4>1. q \in subs' => q \in subs
        BY <2>2, <3>4
      <4>2. q \in subs' \ active' /\ pc[q] = "ready" => q \in subs \ active
        BY <3>2, <4>1 DEF StreamOK
      <4>3. q \in active' => q \in active /\ AddUp(view'[q], queue'[q], last')
        BY <2>2, <3>2
      <4> QED BY <2>2, <3>1, <3>2, <3>4, <4>1, <4>2, <4>3 DEF StreamOK
    <3> QED BY <3>3, <3>4
  <2> QED BY <2>3, <2>4, <2>5 DEF FeedInv
<1> QED BY <1>4, <1>5

\* A subset of the subscriptions still fits the feed.
LEMMA FewerSubs ==
    ASSUME IsFiniteSet(subs), Cardinality(subs) <= MaxSubs, NEW T \in SUBSET subs
    PROVE  IsFiniteSet(T) /\ Cardinality(T) <= MaxSubs
<1>1. IsFiniteSet(T) /\ Cardinality(T) <= Cardinality(subs)
  BY FS_Subset
<1>2. Cardinality(subs) \in Nat /\ Cardinality(T) \in Nat /\ MaxSubs \in Nat
  BY <1>1, FS_CardinalityType, FeedConstants
<1> QED BY <1>1, <1>2

\* Ready promises the catch-up from the snapshot the client was handed; the
\* device limit ends whom it likes.
LEMMA ServeReadyKeeps ==
    ASSUME FeedInv, NEW s \in Streams, ServeReady(s)
    PROVE  FeedInv'
<1> DEFINE S == OverLimit(Append(order[Device[s]], s))
           c == DiffTurns(base[s], last)
<1>1. FeedTypes /\ IsFiniteSet(subs) /\ Cardinality(subs) <= MaxSubs
  BY DEF FeedInv
<1>2. pc[s] = "ready" /\ ~stopped /\ s \notin active
  BY DEF ServeReady, FeedInv, StreamOK
<1>3. CASE s \notin subs \ active
  <2>1. /\ pc' = [pc EXCEPT ![s] = "streaming"]
        /\ UNCHANGED <<world, last, subs, active, base, queue, view, stopped>>
    BY <1>3 DEF ServeReady, worldVars, runVars
  <2> QED BY <1>2, <2>1, HandlerMoves
<1>4. CASE s \in subs \ active
  <2>1. /\ pc' = [pc EXCEPT ![s] = "streaming"]
        /\ active' = (active \cup {s}) \ S
        /\ subs' = subs \ S
        /\ base' = [base EXCEPT ![s] = Empty]
        /\ queue' = [q \in Streams |->
               IF q \in S THEN <<>>
               ELSE IF q = s /\ c # Nothing THEN <<c>> ELSE queue[q]]
        /\ UNCHANGED <<world, last, view, stopped>>
    BY <1>4 DEF ServeReady, worldVars, runVars
  <2>2. /\ base[s] \in Snapshots /\ last \in Snapshots /\ view[s] = base[s]
        /\ queue[s] = <<>>
    BY <1>1, <1>2, <1>4 DEF FeedInv, FeedTypes, StreamOK
  <2>3. c \in Changes /\ Apply(base[s], c) = last /\ (c = Nothing => base[s] = last)
    BY <2>2, DiffApplies
  <2> HIDE DEF S, c
  <2>4. <<c>> \in Seq(Changes) /\ Empty \in Snapshots
    BY <2>3 DEF Empty, Snapshots
  <2>5. FeedTypes'
    <3>1. queue' \in [Streams -> Seq(Changes)]
      BY <1>1, <2>1, <2>4 DEF FeedTypes
    <3>2. active' \subseteq subs' /\ subs' \subseteq Streams
      BY <1>1, <1>4, <2>1 DEF FeedTypes
    <3> QED BY <1>1, <1>2, <2>1, <2>4, <3>1, <3>2 DEF FeedTypes
  <2>6. IsFiniteSet(subs') /\ Cardinality(subs') <= MaxSubs
    BY <1>1, <2>1, FewerSubs
  <2>7. ASSUME NEW q \in Streams PROVE StreamOK(q)'
    <3>1. /\ pc'[q] = IF q = s THEN "streaming" ELSE pc[q]
          /\ base'[q] = IF q = s THEN Empty ELSE base[q]
          /\ queue'[q] = IF q \in S THEN <<>>
                         ELSE IF q = s /\ c # Nothing THEN <<c>> ELSE queue[q]
      BY <1>1, <2>1 DEF FeedTypes
    <3>2. StreamOK(q) /\ view' = view /\ last' = last
      BY <2>1 DEF FeedInv
    <3>3. CASE q \in S
      <4>1. q \notin active' /\ q \notin subs' /\ queue'[q] = <<>>
        BY <2>1, <3>1, <3>3
      <4> QED BY <4>1 DEF StreamOK
    <3>4. CASE q \notin S /\ q = s
      <4>1. AddUp(view[s], queue'[s], last)
        <5>1. CASE c = Nothing
          BY <2>2, <2>3, <3>1, <3>4, <5>1, AddUpNothing
        <5>2. CASE c # Nothing
          BY <2>2, <2>3, <3>1, <3>4, <5>2, AddUpOne
        <5> QED BY <5>1, <5>2
      <4>2. q \in active' /\ pc'[q] = "streaming"
        BY <2>1, <3>1, <3>4
      <4> QED BY <3>2, <3>4, <4>1, <4>2 DEF StreamOK
    <3>5. CASE q \notin S /\ q # s
      <4>1. /\ pc'[q] = pc[q] /\ base'[q] = base[q] /\ queue'[q] = queue[q]
            /\ q \in active' <=> q \in active
            /\ q \in subs' <=> q \in subs
        BY <2>1, <3>1, <3>5
      <4> QED BY <3>2, <4>1 DEF StreamOK
    <3> QED BY <3>3, <3>4, <3>5
  <2> QED BY <2>5, <2>6, <2>7 DEF FeedInv
<1> QED BY <1>3, <1>4

\* Close gives the subscription back, and the last one takes the samples along.
LEMMA ServeCloseKeeps ==
    ASSUME FeedInv, NEW s \in Streams, ServeClose(s)
    PROVE  FeedInv'
<1>1. FeedTypes /\ IsFiniteSet(subs) /\ Cardinality(subs) <= MaxSubs
  BY DEF FeedInv
<1>2. pc' = [pc EXCEPT ![s] = "done"] /\ UNCHANGED <<world, base, view, stopped>>
  BY DEF ServeClose, worldVars, runVars
<1>3. CASE s \notin subs
  <2>1. UNCHANGED <<last, subs, active, queue>> /\ s \notin active
    BY <1>1, <1>3 DEF ServeClose, FeedTypes
  <2> QED BY <1>2, <1>3, <2>1, HandlerMoves
<1>4. CASE s \in subs
  <2>1. /\ subs' = subs \ {s} /\ active' = active \ {s}
        /\ queue' = [queue EXCEPT ![s] = <<>>]
        /\ last' = IF subs \ {s} = {} THEN Empty ELSE last
    BY <1>4 DEF ServeClose, End
  <2>2. FeedTypes'
    <3>1. queue' \in [Streams -> Seq(Changes)]
      BY <1>1, <2>1 DEF FeedTypes
    <3>2. last' \in Snapshots
      BY <1>1, <2>1 DEF FeedTypes, Empty, Snapshots
    <3> QED BY <1>1, <1>2, <2>1, <3>1, <3>2 DEF FeedTypes
  <2>3. IsFiniteSet(subs') /\ Cardinality(subs') <= MaxSubs
    BY <1>1, <2>1, FewerSubs
  <2>4. ASSUME NEW q \in Streams PROVE StreamOK(q)'
    <3>1. /\ pc'[q] = IF q = s THEN "done" ELSE pc[q]
          /\ queue'[q] = IF q = s THEN <<>> ELSE queue[q]
          /\ q \in active => q \in subs
      BY <1>1, <1>2, <2>1 DEF FeedTypes
    <3>2. StreamOK(q)
      BY DEF FeedInv
    <3>3. CASE q = s
      <4>1. q \notin active' /\ q \notin subs' /\ queue'[q] = <<>>
        BY <2>1, <3>1, <3>3
      <4> QED BY <4>1 DEF StreamOK
    <3>4. CASE q # s
      <4>1. q \in active => last' = last
        BY <2>1, <3>1, <3>4
      <4> QED BY <1>2, <2>1, <3>1, <3>2, <3>4, <4>1 DEF StreamOK
    <3> QED BY <3>3, <3>4
  <2> QED BY <2>2, <2>3, <2>4 DEF FeedInv
<1> QED BY <1>3, <1>4

LEMMA StopKeeps == ASSUME FeedInv, Stop PROVE FeedInv'
<1>1. FeedTypes /\ IsFiniteSet(subs) /\ Cardinality(subs) <= MaxSubs
  BY DEF FeedInv
<1>2. /\ subs' = {} /\ active' = {}
      /\ queue' = [s \in Streams |-> IF s \in subs THEN <<>> ELSE queue[s]]
      /\ last' = IF subs = {} THEN last ELSE Empty
      /\ UNCHANGED <<world, base, view, pc>>
  BY DEF Stop, worldVars
<1>3. FeedTypes'
  <2>1. queue' \in [Streams -> Seq(Changes)] /\ last' \in Snapshots
    BY <1>1, <1>2 DEF FeedTypes, Empty, Snapshots
  <2> QED BY <1>1, <1>2, <2>1 DEF FeedTypes
<1>4. IsFiniteSet(subs') /\ Cardinality(subs') <= MaxSubs
  BY <1>2, FS_EmptySet, FeedConstants
<1>5. ASSUME NEW q \in Streams PROVE StreamOK(q)'
  <2>1. StreamOK(q) /\ (q \in active => q \in subs)
    BY <1>1 DEF FeedInv, FeedTypes
  <2>2. queue'[q] = <<>>
    BY <1>2, <2>1 DEF StreamOK
  <2> QED BY <1>2, <2>2 DEF StreamOK
<1> QED BY <1>3, <1>4, <1>5 DEF FeedInv

\* The snapshot a client holds is the one its catch-up starts from.
LEMMA WriteSnapshotKeeps ==
    ASSUME FeedInv, NEW s \in Streams, WriteSnapshot(s)
    PROVE  FeedInv'
<1>1. FeedTypes /\ IsFiniteSet(subs) /\ Cardinality(subs) <= MaxSubs
  BY DEF FeedInv
<1>2. /\ pc[s] = "writing"
      /\ view' = [view EXCEPT ![s] = base[s]]
      /\ pc' = [pc EXCEPT ![s] = "ready"]
      /\ UNCHANGED <<world, last, subs, active, base, queue, stopped>>
  BY DEF WriteSnapshot, worldVars, runVars, feedVars
<1>3. FeedTypes'
  BY <1>1, <1>2 DEF FeedTypes
<1>4. ASSUME NEW q \in Streams PROVE StreamOK(q)'
  <2>1. /\ pc'[q] = IF q = s THEN "ready" ELSE pc[q]
        /\ view'[q] = IF q = s THEN base[s] ELSE view[q]
    BY <1>1, <1>2 DEF FeedTypes
  <2>2. StreamOK(q)
    BY DEF FeedInv
  <2> QED BY <1>2, <2>1, <2>2 DEF StreamOK
<1> QED BY <1>1, <1>2, <1>3, <1>4 DEF FeedInv

\* What is taken off the queue is what the client adds to what it knows.
LEMMA ConsumeKeeps ==
    ASSUME FeedInv, NEW s \in Streams, Consume(s)
    PROVE  FeedInv'
<1>1. FeedTypes /\ IsFiniteSet(subs) /\ Cardinality(subs) <= MaxSubs
  BY DEF FeedInv
<1>2. /\ pc[s] = "streaming" /\ queue[s] # <<>>
      /\ view' = [view EXCEPT ![s] = Apply(@, Head(queue[s]))]
      /\ queue' = [queue EXCEPT ![s] = Tail(@)]
      /\ UNCHANGED <<world, last, subs, active, base, pc, stopped>>
  BY DEF Consume, worldVars, runVars
<1>3. s \in active /\ AddUp(view[s], queue[s], last)
  BY <1>2 DEF FeedInv, StreamOK
<1>4. view[s] \in Snapshots /\ queue[s] \in Seq(Changes) /\ last \in Snapshots
  BY <1>1 DEF FeedTypes
<1>5. /\ AddUp(Apply(view[s], Head(queue[s])), Tail(queue[s]), last)
      /\ Apply(view[s], Head(queue[s])) \in Snapshots
  BY <1>2, <1>3, <1>4, AddUpHead
<1>6. Tail(queue[s]) \in Seq(Changes)
  BY <1>2, <1>4
<1>7. FeedTypes'
  BY <1>1, <1>2, <1>5, <1>6 DEF FeedTypes
<1>8. ASSUME NEW q \in Streams PROVE StreamOK(q)'
  <2>1. /\ view'[q] = IF q = s THEN Apply(view[s], Head(queue[s])) ELSE view[q]
        /\ queue'[q] = IF q = s THEN Tail(queue[s]) ELSE queue[q]
    BY <1>1, <1>2 DEF FeedTypes
  <2>2. StreamOK(q)
    BY DEF FeedInv
  <2>3. q = s => AddUp(view'[q], queue'[q], last)
    BY <1>5, <2>1
  <2>4. q # s => view'[q] = view[q] /\ queue'[q] = queue[q]
    BY <2>1
  <2>5. q = s => pc[q] = "streaming" /\ q \in active
    BY <1>2, <1>3
  <2> QED BY <1>2, <2>2, <2>3, <2>4, <2>5 DEF StreamOK
<1> QED BY <1>1, <1>2, <1>7, <1>8 DEF FeedInv

LEMMA LeaveKeeps ==
    ASSUME FeedInv, NEW s \in Streams, Leave(s)
    PROVE  FeedInv'
<1>1. /\ pc' = [pc EXCEPT ![s] = "leaving"]
      /\ UNCHANGED <<world, last, subs, active, base, queue, view, stopped>>
  BY DEF Leave, worldVars, runVars, feedVars
<1> QED BY <1>1, HandlerMoves

LEMMA SubscribeCancelledKeeps ==
    ASSUME FeedInv, NEW s \in Streams, SubscribeCancelled(s)
    PROVE  FeedInv'
<1>1. /\ pc' = [pc EXCEPT ![s] = "done"]
      /\ UNCHANGED <<world, last, subs, active, base, queue, view, stopped>>
  BY DEF SubscribeCancelled, worldVars, runVars, feedVars
<1>2. s \notin subs /\ s \notin active
  BY DEF SubscribeCancelled, FeedInv, FeedTypes, StreamOK
<1> QED BY <1>1, <1>2, HandlerMoves

\* After Run has returned there is no subscription left to lose.
LEMMA AfterStopKeeps ==
    ASSUME FeedInv, NEW s \in Streams, AfterStop(s)
    PROVE  FeedInv'
<1>1. s \notin subs /\ s \notin active
  BY DEF AfterStop, FeedInv, FeedTypes
<1>2. PICK p \in {"streaming", "done"} : pc' = [pc EXCEPT ![s] = p]
  BY DEF AfterStop
<1>3. UNCHANGED <<world, last, subs, active, base, queue, view, stopped>>
  BY DEF AfterStop, worldVars, runVars, feedVars
<1> QED BY <1>1, <1>2, <1>3, HandlerMoves

LEMMA FeedStep == FeedInv /\ [Next]_vars => FeedInv'
<1> SUFFICES ASSUME FeedInv, [Next]_vars PROVE FeedInv'
  OBVIOUS
<1>0. world \in Snapshots
  BY DEF FeedInv, FeedTypes
<1>1. CASE UNCHANGED vars
  BY <1>0, <1>1, FeedFrame DEF vars, worldVars, runVars, feedVars
<1>2. ASSUME NEW k \in Keys, NEW v \in Statuses \cup {Absent}, Mutate(k, v) PROVE FeedInv'
  BY <1>2, MutateKeeps
<1>3. CASE Changed
  BY <1>0, <1>3, FeedFrame DEF Changed, feedVars
<1>4. CASE TakePoke
  BY <1>4, TakePokeKeeps
<1>5. CASE WindowFires
  BY <1>5, PlainSample DEF WindowFires, worldVars
<1>6. CASE BackstopFires
  BY <1>6, PlainSample DEF BackstopFires, worldVars, runVars
<1>7. CASE Stop
  BY <1>7, StopKeeps
<1>8. ASSUME NEW s \in Streams, Serve(s) PROVE FeedInv'
  BY <1>8, ServeSubscribeKeeps, ServeReadyKeeps, ServeCloseKeeps DEF Serve
<1>9. ASSUME NEW s \in Streams, SubscribeCancelled(s) PROVE FeedInv'
  BY <1>9, SubscribeCancelledKeeps
<1>10. ASSUME NEW s \in Streams, WriteSnapshot(s) PROVE FeedInv'
  BY <1>10, WriteSnapshotKeeps
<1>11. ASSUME NEW s \in Streams, Consume(s) PROVE FeedInv'
  BY <1>11, ConsumeKeeps
<1>12. ASSUME NEW s \in Streams, Leave(s) PROVE FeedInv'
  BY <1>12, LeaveKeeps
<1>13. ASSUME NEW s \in Streams, AfterStop(s) PROVE FeedInv'
  BY <1>13, AfterStopKeeps
<1> QED
  BY <1>1, <1>2, <1>3, <1>4, <1>5, <1>6, <1>7, <1>8, <1>9, <1>10, <1>11, <1>12, <1>13 DEF Next

LEMMA FeedAlways == Spec => []FeedInv
BY FeedInit, FeedStep, PTL DEF Spec
-----------------------------------------------------------------------------
(* A device's list.                                                        *)

\* A sequence that holds nothing twice.
NoTwice(q) == \A i, j \in 1..Len(q) : q[i] = q[j] => i = j

LEMMA KeptIsFinite ==
    ASSUME NEW T, NEW q \in Seq(T), NEW S
    PROVE  /\ IsFiniteSet(Kept(q, S)) /\ Cardinality(Kept(q, S)) \in Nat
           /\ Cardinality(Kept(q, S)) <= Len(q)
<1>1. Len(q) \in Nat /\ Kept(q, S) \in SUBSET (1..Len(q))
  BY DEF Kept
<1>2. IsFiniteSet(1..Len(q)) /\ Cardinality(1..Len(q)) = Len(q)
  <2>1. Len(q) \in Int /\ 1 \in Int
    BY <1>1
  <2>2. /\ IsFiniteSet(1..Len(q))
        /\ Cardinality(1..Len(q)) = IF 1 > Len(q) THEN 0 ELSE Len(q) - 1 + 1
    BY <2>1, FS_Interval
  <2> QED BY <1>1, <2>2
<1>3. IsFiniteSet(Kept(q, S)) /\ Cardinality(Kept(q, S)) <= Cardinality(1..Len(q))
  BY <1>1, <1>2, FS_Subset
<1> QED BY <1>2, <1>3, FS_CardinalityType

\* The places of what is kept are distinct and run from one to their number.
LEMMA PlacesAreCounted ==
    ASSUME NEW n \in Nat, NEW K \in SUBSET (1..n)
    PROVE  /\ \A i \in K : Place(K, i) \in 1..Cardinality(K)
           /\ \A i, j \in K : i < j => Place(K, i) < Place(K, j)
           /\ \A m \in 1..Cardinality(K) : \E i \in K : Place(K, i) = m
<1>1. IsFiniteSet(K) /\ Cardinality(K) \in Nat
  <2>1. n \in Int /\ 1 \in Int
    OBVIOUS
  <2>2. IsFiniteSet(1..n)
    BY <2>1, FS_Interval
  <2> QED BY <2>2, FS_Subset, FS_CardinalityType
<1>2. \A i \in K : i \in Int
  OBVIOUS
<1>3. ASSUME NEW i \in K
      PROVE  /\ IsFiniteSet({k \in K : k <= i})
             /\ Place(K, i) \in 1..Cardinality(K)
  <2>1. {k \in K : k <= i} \in SUBSET K /\ {i} \in SUBSET {k \in K : k <= i}
    BY <1>2
  <2>2. IsFiniteSet({k \in K : k <= i}) /\ Place(K, i) <= Cardinality(K)
    BY <1>1, <2>1, FS_Subset DEF Place
  <2>3. Cardinality({i}) <= Place(K, i) /\ Cardinality({i}) = 1
    BY <2>1, <2>2, FS_Subset, FS_Singleton DEF Place
  <2>4. Place(K, i) \in Nat
    BY <2>2, FS_CardinalityType DEF Place
  <2> QED BY <1>1, <2>2, <2>3, <2>4
<1>4. ASSUME NEW i \in K, NEW j \in K, i < j PROVE Place(K, i) < Place(K, j)
  <2>1. {k \in K : k <= i} \in SUBSET {k \in K : k <= j}
    <3>1. ASSUME NEW k \in K, k <= i PROVE k <= j
      <4>1. k \in Int /\ i \in Int /\ j \in Int
        BY <1>2
      <4> QED BY <1>4, <3>1, <4>1
    <3> QED BY <3>1
  <2>2. j \in {k \in K : k <= j} /\ j \notin {k \in K : k <= i}
    BY <1>2, <1>4
  <2>3. Place(K, i) <= Place(K, j) /\ Place(K, i) # Place(K, j)
    BY <1>3, <2>1, <2>2, FS_Subset DEF Place
  <2>4. Place(K, i) \in 1..Cardinality(K) /\ Place(K, j) \in 1..Cardinality(K)
    BY <1>3
  <2> QED BY <2>3, <2>4
<1>5. \A m \in 1..Cardinality(K) : \E i \in K : Place(K, i) = m
  <2>1. PICK f : f = [i \in K |-> Place(K, i)]
    OBVIOUS
  <2>2. f \in [K -> 1..Cardinality(K)] /\ \A i \in K : f[i] = Place(K, i)
    BY <1>3, <2>1
  <2>3. ASSUME NEW i \in K, NEW j \in K, f[i] = f[j] PROVE i = j
    <3>1. Place(K, i) \in Int /\ Place(K, j) \in Int /\ Place(K, i) = Place(K, j)
      BY <1>1, <1>3, <2>2, <2>3
    <3>2. ~(i < j) /\ ~(j < i)
      BY <1>4, <3>1
    <3> QED BY <1>2, <3>2
  <2>4. f \in Injection(K, 1..Cardinality(K))
    BY <2>2, <2>3 DEF Injection, IsInjective
  <2>5. IsFiniteSet(1..Cardinality(K)) /\ Cardinality(1..Cardinality(K)) = Cardinality(K)
    <3>1. Cardinality(K) \in Int /\ 1 \in Int
      BY <1>1
    <3>2. /\ IsFiniteSet(1..Cardinality(K))
          /\ Cardinality(1..Cardinality(K))
               = IF 1 > Cardinality(K) THEN 0 ELSE Cardinality(K) - 1 + 1
      BY <3>1, FS_Interval
    <3> QED BY <1>1, <3>2
  <2>6. f \in Surjection(K, 1..Cardinality(K))
    BY <2>4, <2>5, FS_Injection
  <2> QED BY <2>2, <2>6 DEF Surjection
<1> QED BY <1>3, <1>4, <1>5

\* What slices.DeleteFunc leaves of a list: each kept entry, in its order.
LEMMA WithoutKeeps ==
    ASSUME NEW T, NEW q \in Seq(T), NEW S
    PROVE  /\ Without(q, S) \in Seq(T)
           /\ Len(Without(q, S)) = Cardinality(Kept(q, S))
           /\ \A s : (\E j \in 1..Len(Without(q, S)) : Without(q, S)[j] = s)
                       <=> s \notin S /\ \E i \in 1..Len(q) : q[i] = s
           /\ NoTwice(q) => NoTwice(Without(q, S))
<1>1. PICK K : K = Kept(q, S)
  OBVIOUS
<1>2. PICK n : n = Cardinality(K)
  OBVIOUS
<1>3. n \in Nat /\ Len(q) \in Nat /\ K \in SUBSET (1..Len(q))
  <2>1. Cardinality(Kept(q, S)) \in Nat
    BY KeptIsFinite
  <2> QED BY <1>1, <1>2, <2>1 DEF Kept
<1>4. PICK e : e = [j \in 1..n |-> CHOOSE i \in K : Place(K, i) = j]
  OBVIOUS
<1>5. \A j \in 1..n : e[j] \in K /\ Place(K, e[j]) = j
  BY <1>2, <1>3, <1>4, PlacesAreCounted
<1>6. \A i \in K : Place(K, i) \in 1..n /\ e[Place(K, i)] = i
  <2> SUFFICES ASSUME NEW i \in K PROVE Place(K, i) \in 1..n /\ e[Place(K, i)] = i
    OBVIOUS
  <2>1. Place(K, i) \in 1..n
    BY <1>2, <1>3, PlacesAreCounted
  <2>2. PICK k \in K : k = e[Place(K, i)] /\ Place(K, k) = Place(K, i)
    BY <1>5, <2>1
  <2>3. i \in Int /\ k \in Int /\ Place(K, i) \in Int
    BY <1>3, <2>1
  <2>4. ~(i < k) /\ ~(k < i)
    <3>1. \A a, b \in K : a < b => Place(K, a) < Place(K, b)
      BY <1>3, PlacesAreCounted
    <3> QED BY <2>2, <2>3, <3>1
  <2> QED BY <2>1, <2>2, <2>3, <2>4
<1>7. \A i \in K : i \in 1..Len(q) /\ q[i] \notin S /\ q[i] \in T
  BY <1>1 DEF Kept
<1>8. \A i \in 1..Len(q) : q[i] \notin S => i \in K
  BY <1>1 DEF Kept
<1>9. PICK w : w = Without(q, S)
  OBVIOUS
<1>10. w = [j \in 1..n |-> q[e[j]]]
  BY <1>1, <1>2, <1>4, <1>9 DEF Without
<1>11. w \in Seq(T) /\ Len(w) = n /\ \A j \in 1..n : w[j] = q[e[j]]
  <2>1. w \in [1..n -> T]
    BY <1>5, <1>7, <1>10
  <2> QED BY <1>3, <1>10, <2>1
<1>12. ASSUME NEW s PROVE (\E j \in 1..n : w[j] = s)
                            <=> s \notin S /\ \E i \in 1..Len(q) : q[i] = s
  <2>1. ASSUME NEW j \in 1..n, w[j] = s PROVE s \notin S /\ \E i \in 1..Len(q) : q[i] = s
    BY <1>5, <1>7, <1>11, <2>1
  <2>2. ASSUME NEW i \in 1..Len(q), q[i] = s, s \notin S PROVE \E j \in 1..n : w[j] = s
    <3>1. i \in K
      BY <1>8, <2>2
    <3>2. Place(K, i) \in 1..n /\ w[Place(K, i)] = q[i]
      BY <1>6, <1>11, <3>1
    <3> QED BY <2>2, <3>2
  <2> QED BY <2>1, <2>2
<1>13. ASSUME NoTwice(q), NEW j \in 1..n, NEW k \in 1..n, w[j] = w[k] PROVE j = k
  <2>1. e[j] \in K /\ e[k] \in K /\ q[e[j]] = q[e[k]]
    BY <1>5, <1>11, <1>13
  <2>2. e[j] = e[k]
    BY <1>7, <1>13, <2>1 DEF NoTwice
  <2> QED BY <1>5, <2>2
<1>14. NoTwice(q) => NoTwice(w)
  BY <1>11, <1>13 DEF NoTwice
<1> QED BY <1>1, <1>2, <1>9, <1>11, <1>12, <1>14

\* The lists hold the streams A, each once and in its device's list.
Listed(ord, A) ==
    /\ ord \in [Devices -> Seq(Streams)]
    /\ \A d \in Devices :
           /\ NoTwice(ord[d])
           /\ \A s : (\E i \in 1..Len(ord[d]) : ord[d][i] = s) <=> s \in A /\ Device[s] = d

ListsInv ==
    /\ Listed(order, active)
    /\ \A d \in Devices : Len(order[d]) <= MaxPerDevice

LEMMA OthersStayListed ==
    ASSUME NEW ord, NEW A, Listed(ord, A), NEW S
    PROVE  /\ Listed(OrderWithout(ord, S), A \ S)
           /\ \A d \in Devices :
                  /\ Len(OrderWithout(ord, S)[d]) = Cardinality(Kept(ord[d], S))
                  /\ Len(OrderWithout(ord, S)[d]) <= Len(ord[d])
<1>1. PICK rest : rest = OrderWithout(ord, S)
  OBVIOUS
<1>2. rest = [d \in Devices |-> Without(ord[d], S)]
  BY <1>1 DEF OrderWithout
<1>3. ASSUME NEW d \in Devices
      PROVE  /\ rest[d] \in Seq(Streams)
             /\ Len(rest[d]) = Cardinality(Kept(ord[d], S)) /\ Len(rest[d]) <= Len(ord[d])
             /\ NoTwice(rest[d])
             /\ \A s : (\E i \in 1..Len(rest[d]) : rest[d][i] = s)
                         <=> s \in A \ S /\ Device[s] = d
  <2>1. PICK q \in Seq(Streams) : q = ord[d]
    BY DEF Listed
  <2>2. NoTwice(q) /\ \A s : (\E i \in 1..Len(q) : q[i] = s) <=> s \in A /\ Device[s] = d
    BY <2>1 DEF Listed
  <2>3. rest[d] = Without(q, S)
    BY <1>2, <2>1
  <2>4. /\ Without(q, S) \in Seq(Streams) /\ NoTwice(Without(q, S))
        /\ Len(Without(q, S)) = Cardinality(Kept(q, S))
        /\ \A s : (\E j \in 1..Len(Without(q, S)) : Without(q, S)[j] = s)
                    <=> s \notin S /\ \E i \in 1..Len(q) : q[i] = s
    BY <2>2, WithoutKeeps
  <2>5. Cardinality(Kept(q, S)) <= Len(q)
    BY KeptIsFinite
  <2>6. \A s : (\E j \in 1..Len(Without(q, S)) : Without(q, S)[j] = s)
                 <=> s \in A \ S /\ Device[s] = d
    BY <2>2, <2>4
  <2> QED BY <2>1, <2>3, <2>4, <2>5, <2>6
<1>4. rest \in [Devices -> Seq(Streams)]
  BY <1>2, <1>3
<1> QED BY <1>1, <1>3, <1>4 DEF Listed

LEMMA OneMoreListed ==
    ASSUME NEW ord, NEW A, Listed(ord, A), NEW s \in Streams, s \notin A
    PROVE  Listed([ord EXCEPT ![Device[s]] = Append(@, s)], A \cup {s})
<1>1. PICK more : more = [ord EXCEPT ![Device[s]] = Append(@, s)]
  OBVIOUS
<1>2. Device[s] \in Devices /\ ord \in [Devices -> Seq(Streams)]
  BY DEF Devices, Listed
<1>3. PICK q \in Seq(Streams) : q = ord[Device[s]]
  BY <1>2
<1>4. PICK p : p = Append(q, s)
  OBVIOUS
<1>5. /\ p \in Seq(Streams) /\ Len(q) \in Nat /\ Len(p) = Len(q) + 1 /\ p[Len(p)] = s
      /\ \A i \in 1..Len(q) : p[i] = q[i]
  BY <1>4
<1>6. more \in [Devices -> Seq(Streams)] /\ more[Device[s]] = p
  BY <1>1, <1>2, <1>3, <1>4, <1>5
<1>7. \A d \in Devices : d # Device[s] => more[d] = ord[d]
  BY <1>1, <1>2
<1>8. NoTwice(q) /\ \A t : (\E i \in 1..Len(q) : q[i] = t) <=> t \in A /\ Device[t] = Device[s]
  BY <1>2, <1>3 DEF Listed
<1>9. \A i \in 1..Len(p) : i \in 1..Len(q) \/ i = Len(p)
  BY <1>5
<1>10. \A i \in 1..Len(q) : q[i] # s /\ i \in 1..Len(p)
  BY <1>5, <1>8
<1>11. NoTwice(p)
  <2> SUFFICES ASSUME NEW i \in 1..Len(p), NEW j \in 1..Len(p), p[i] = p[j] PROVE i = j
    BY DEF NoTwice
  <2>1. CASE i \in 1..Len(q) /\ j \in 1..Len(q)
    BY <1>5, <1>8, <2>1 DEF NoTwice
  <2>2. CASE i = Len(p) \/ j = Len(p)
    BY <1>5, <1>9, <1>10, <2>2
  <2> QED BY <1>9, <2>1, <2>2
<1>12. ASSUME NEW t
       PROVE  (\E i \in 1..Len(p) : p[i] = t) <=> t \in A \cup {s} /\ Device[t] = Device[s]
  <2>1. CASE t = s
    <3>1. Len(p) \in 1..Len(p)
      BY <1>5
    <3> QED BY <1>5, <2>1, <3>1
  <2>2. CASE t # s
    <3>1. (\E i \in 1..Len(p) : p[i] = t) <=> \E i \in 1..Len(q) : q[i] = t
      BY <1>5, <1>9, <1>10, <2>2
    <3> QED BY <1>8, <2>2, <3>1
  <2> QED BY <2>1, <2>2
<1>13. ASSUME NEW d \in Devices
       PROVE  /\ NoTwice(more[d])
              /\ \A t : (\E i \in 1..Len(more[d]) : more[d][i] = t)
                          <=> t \in A \cup {s} /\ Device[t] = d
  <2>1. CASE d = Device[s]
    BY <1>6, <1>11, <1>12, <2>1
  <2>2. CASE d # Device[s]
    <3>1. /\ NoTwice(ord[d])
          /\ \A t : (\E i \in 1..Len(ord[d]) : ord[d][i] = t) <=> t \in A /\ Device[t] = d
      BY DEF Listed
    <3>2. \A t : t \in A \cup {s} /\ Device[t] = d <=> t \in A /\ Device[t] = d
      BY <2>2
    <3> QED BY <1>7, <2>2, <3>1, <3>2
  <2> QED BY <2>1, <2>2
<1>14. Listed(more, A \cup {s})
  BY <1>6, <1>13 DEF Listed
<1> QED BY <1>1, <1>14

\* Whoever is ended leaves the lists as it leaves the active streams.
LEMMA EndsKeepLists ==
    ASSUME ListsInv, NEW S, order' = OrderWithout(order, S), active' = active \ S
    PROVE  ListsInv'
<1>1. Listed(order', active') /\ \A d \in Devices : Len(order'[d]) <= Len(order[d])
  BY OthersStayListed DEF ListsInv
<1>2. \A d \in Devices : Len(order[d]) \in Nat /\ Len(order'[d]) \in Nat
  <2>1. order \in [Devices -> Seq(Streams)] /\ order' \in [Devices -> Seq(Streams)]
    BY <1>1 DEF ListsInv, Listed
  <2> QED BY <2>1
<1>3. MaxPerDevice \in Nat
  BY FeedConstants
<1>4. ASSUME NEW d \in Devices PROVE Len(order'[d]) <= MaxPerDevice
  BY <1>1, <1>2, <1>3 DEF ListsInv
<1>5. Listed(order, active)'
  BY <1>1 DEF Listed
<1> QED BY <1>4, <1>5 DEF ListsInv

\* The limit ends the device's oldest stream when one more has readied.
LEMMA ServeReadyKeepsLists ==
    ASSUME ListsInv, NEW s \in Streams, s \notin active, ServeReady(s)
    PROVE  ListsInv'
<1>1. CASE s \notin subs \ active
  <2>1. UNCHANGED <<order, active>>
    BY <1>1 DEF ServeReady
  <2> QED BY <2>1 DEF ListsInv, Listed
<1>2. CASE s \in subs \ active
  <2>1. PICK d \in Devices : d = Device[s]
    BY DEF Devices
  <2>2. PICK p : p = Append(order[d], s)
    OBVIOUS
  <2>3. PICK S : S = OverLimit(p)
    OBVIOUS
  <2>4. PICK more : more = [order EXCEPT ![d] = p]
    OBVIOUS
  <2>5. active' = (active \cup {s}) \ S /\ order' = OrderWithout(more, S)
    BY <1>2, <2>1, <2>2, <2>3, <2>4 DEF ServeReady
  <2>6. more = [order EXCEPT ![Device[s]] = Append(@, s)]
    BY <2>1, <2>2, <2>4
  <2>7. Listed(order, active) /\ order \in [Devices -> Seq(Streams)]
    BY DEF ListsInv, Listed
  <2>8. Listed(more, active \cup {s})
    BY <2>6, <2>7, OneMoreListed
  <2>9. /\ Listed(order', active')
        /\ \A c \in Devices :
               /\ Len(order'[c]) = Cardinality(Kept(more[c], S))
               /\ Len(order'[c]) <= Len(more[c])
    BY <2>5, <2>8, OthersStayListed
  <2>10. order' \in [Devices -> Seq(Streams)]
    BY <2>9 DEF Listed
  <2>11. /\ \A c \in Devices : c # d => more[c] = order[c]
         /\ more[d] = p
    BY <2>4, <2>7
  <2>12. MaxPerDevice \in Nat \ {0}
    BY FeedConstants
  <2>13. /\ p \in Seq(Streams) /\ Len(p) \in Nat \ {0} /\ Len(p) <= MaxPerDevice + 1
    <3>1. order[d] \in Seq(Streams) /\ Len(order[d]) <= MaxPerDevice
      BY <2>7 DEF ListsInv
    <3>2. Len(order[d]) \in Nat /\ Len(p) = Len(order[d]) + 1 /\ p \in Seq(Streams)
      BY <2>2, <3>1
    <3> QED BY <2>12, <3>1, <3>2
  <2>14. Len(order'[d]) <= MaxPerDevice
    <3>1. Len(order'[d]) \in Nat
      BY <2>10
    <3>2. CASE Len(p) <= MaxPerDevice
      BY <2>9, <2>11, <2>12, <2>13, <3>1, <3>2
    <3>3. CASE Len(p) > MaxPerDevice
      <4>1. p[1] \in S
        BY <2>3, <3>3 DEF OverLimit
      <4>2. Kept(p, S) \in SUBSET (2..Len(p))
        BY <2>13, <4>1 DEF Kept
      <4>3. IsFiniteSet(2..Len(p)) /\ Cardinality(2..Len(p)) = Len(p) - 1
        <5>1. Len(p) \in Int /\ 2 \in Int
          BY <2>13
        <5>2. /\ IsFiniteSet(2..Len(p))
              /\ Cardinality(2..Len(p)) = IF 2 > Len(p) THEN 0 ELSE Len(p) - 2 + 1
          BY <5>1, FS_Interval
        <5> QED BY <2>13, <5>2
      <4>4. Cardinality(Kept(p, S)) <= Len(p) - 1
        BY <4>2, <4>3, FS_Subset
      <4>5. Len(order'[d]) <= Len(p) - 1
        BY <2>9, <2>11, <4>4
      <4> QED BY <2>12, <2>13, <3>1, <4>5
    <3> QED BY <2>12, <2>13, <3>2, <3>3
  <2>15. ASSUME NEW c \in Devices, c # d PROVE Len(order'[c]) <= MaxPerDevice
    <3>1. /\ Len(order'[c]) <= Len(order[c]) /\ Len(order[c]) <= MaxPerDevice
      BY <2>9, <2>11, <2>15 DEF ListsInv
    <3>2. Len(order'[c]) \in Nat /\ Len(order[c]) \in Nat
      BY <2>7, <2>10
    <3> QED BY <2>12, <3>1, <3>2
  <2>16. Listed(order, active)'
    BY <2>9 DEF Listed
  <2> QED BY <2>14, <2>15, <2>16 DEF ListsInv
<1> QED BY <1>1, <1>2

LEMMA ListsInit == Init => ListsInv
<1> SUFFICES ASSUME Init PROVE ListsInv
  OBVIOUS
<1>1. order = [d \in Devices |-> <<>>] /\ active = {} /\ MaxPerDevice \in Nat
  BY FeedConstants DEF Init
<1>2. <<>> \in Seq(Streams) /\ Len(<<>>) = 0
  OBVIOUS
<1> QED BY <1>1, <1>2 DEF ListsInv, Listed, NoTwice

LEMMA ListsStep == FeedInv /\ ListsInv /\ [Next]_vars => ListsInv'
<1> SUFFICES ASSUME FeedInv, ListsInv, [Next]_vars PROVE ListsInv'
  OBVIOUS
<1>1. ASSUME UNCHANGED <<order, active>> PROVE ListsInv'
  BY <1>1 DEF ListsInv, Listed
<1>2. CASE UNCHANGED vars
  BY <1>1, <1>2 DEF vars, feedVars
<1>3. ASSUME NEW k \in Keys, NEW v \in Statuses \cup {Absent}, Mutate(k, v) PROVE ListsInv'
  BY <1>1, <1>3 DEF Mutate, feedVars
<1>4. CASE Changed \/ TakePoke
  BY <1>1, <1>4 DEF Changed, TakePoke, feedVars
<1>5. ASSUME NEW J, Sample(J) PROVE ListsInv'
  <2>1. PICK S : order' = OrderWithout(order, S) /\ active' = active \ S
    BY <1>5 DEF Sample
  <2> QED BY <2>1, EndsKeepLists
<1>6. CASE WindowFires \/ BackstopFires
  BY <1>5, <1>6 DEF WindowFires, BackstopFires
<1>7. CASE Stop
  <2>1. order' = [d \in Devices |-> <<>>] /\ active' = {} /\ MaxPerDevice \in Nat
    BY <1>7, FeedConstants DEF Stop
  <2>2. <<>> \in Seq(Streams) /\ Len(<<>>) = 0
    OBVIOUS
  <2> QED BY <2>1, <2>2 DEF ListsInv, Listed, NoTwice
<1>8. ASSUME NEW s \in Streams, ServeSubscribe(s) PROVE ListsInv'
  BY <1>1, <1>5, <1>8 DEF ServeSubscribe, feedVars
<1>9. ASSUME NEW s \in Streams, ServeReady(s) PROVE ListsInv'
  <2>1. s \notin active
    BY <1>9 DEF ServeReady, FeedInv, StreamOK
  <2> QED BY <1>9, <2>1, ServeReadyKeepsLists
<1>10. ASSUME NEW s \in Streams, ServeClose(s) PROVE ListsInv'
  BY <1>1, <1>10, EndsKeepLists DEF ServeClose, End
<1>11. ASSUME NEW s \in Streams,
              SubscribeCancelled(s) \/ WriteSnapshot(s) \/ Consume(s) \/ Leave(s) \/ AfterStop(s)
       PROVE  ListsInv'
  BY <1>1, <1>11 DEF SubscribeCancelled, WriteSnapshot, Consume, Leave, AfterStop, feedVars
<1> QED
  BY <1>2, <1>3, <1>4, <1>6, <1>7, <1>8, <1>9, <1>10, <1>11 DEF Next, Serve

LEMMA ListsAlways == Spec => []ListsInv
BY FeedAlways, ListsInit, ListsStep, PTL DEF Spec

\* A list that holds nothing twice is as long as the set of its streams.
LEMMA LengthOfList ==
    ASSUME NEW q \in Seq(Streams), NoTwice(q)
    PROVE  Len(q) = Cardinality(ToSet(q))
<1>1. Len(q) \in Nat /\ q \in [1..Len(q) -> Streams] /\ DOMAIN q = 1..Len(q)
  OBVIOUS
<1>2. q \in [1..Len(q) -> ToSet(q)]
  BY <1>1 DEF ToSet
<1>3. q \in Injection(1..Len(q), ToSet(q)) /\ q \in Surjection(1..Len(q), ToSet(q))
  BY <1>1, <1>2 DEF Injection, Surjection, IsInjective, NoTwice, ToSet
<1>4. IsFiniteSet(1..Len(q)) /\ Cardinality(1..Len(q)) = Len(q)
  <2>1. Len(q) \in Int /\ 1 \in Int
    BY <1>1
  <2>2. /\ IsFiniteSet(1..Len(q))
        /\ Cardinality(1..Len(q)) = IF 1 > Len(q) THEN 0 ELSE Len(q) - 1 + 1
    BY <2>1, FS_Interval
  <2> QED BY <1>1, <2>2
<1> QED BY <1>3, <1>4, FS_Surjection
-----------------------------------------------------------------------------

\* No change is lost, doubled or put out of order between a sample and a client:
\* what the client knows and what is queued for it always add up to what the
\* feed says it published (feed.go, sample and readyRequest.serve).
THEOREM BacklogIsKept == Spec => []BacklogAddsUpToLast
<1>1. FeedInv => BacklogAddsUpToLast
  BY DEF FeedInv, FeedTypes, StreamOK, BacklogAddsUpToLast
<1> QED BY <1>1, FeedAlways, PTL

\* A subscription is never left without a handler that has still to close it,
\* and there are never more than the feed takes (feed.go, subscribeRequest.serve
\* and end; turns.go, the deferred close of the stream handler).
THEOREM SubsAreHeld == Spec => []SubsHeld
<1>1. FeedInv => SubsHeld
  BY DEF FeedInv, FeedTypes, StreamOK, SubsHeld
<1> QED BY <1>1, FeedAlways, PTL

\* Every slot is given back: to the feed, and to the device, whose list holds
\* exactly its active streams, each once and no more than the limit (end,
\* readyRequest.serve).
THEOREM SlotsAreGivenBack == Spec => []SlotsGivenBack
<1>1. ASSUME FeedInv, ListsInv PROVE SlotsGivenBack
  <2>1. SubsHeld
    BY <1>1 DEF FeedInv, FeedTypes, StreamOK, SubsHeld
  <2>2. ASSUME NEW d \in Devices
        PROVE  /\ ToSet(order[d]) = {s \in active : Device[s] = d}
               /\ Len(order[d]) = Cardinality(ToSet(order[d]))
               /\ Len(order[d]) <= MaxPerDevice
    <3>1. PICK q \in Seq(Streams) : q = order[d]
      BY <1>1 DEF ListsInv, Listed
    <3>2. /\ NoTwice(q) /\ Len(q) <= MaxPerDevice
          /\ \A s : (\E i \in 1..Len(q) : q[i] = s) <=> s \in active /\ Device[s] = d
      BY <1>1, <3>1 DEF ListsInv, Listed
    <3>3. DOMAIN q = 1..Len(q)
      OBVIOUS
    <3>4. ToSet(q) = {s \in active : Device[s] = d}
      BY <3>2, <3>3 DEF ToSet
    <3> QED BY <3>1, <3>2, <3>4, LengthOfList
  <2> QED BY <2>1, <2>2 DEF SlotsGivenBack
<1> QED BY <1>1, FeedAlways, ListsAlways, PTL

-----------------------------------------------------------------------------
(* The replay buffer and its client.                                       *)

Frames == [item : Nat, seq : Nat, user : BOOLEAN, promptID : Nat, gapBoundary : Nat]
UpdateMsgs == [kind : {"update"}, item : Nat, seq : Nat]
ReplyMsgs == [kind : {"gap", "caughtup", "loaded"}, head : Nat, due : SUBSET Nat,
              lost : SUBSET Nat, gone : SUBSET Nat]
Messages == UpdateMsgs \cup ReplyMsgs

ReplayTypes ==
    /\ history \in Seq(Frames) /\ outq \in Seq(Messages) /\ replay \in Seq(Messages)
    /\ items \in Nat /\ seq \in Nat /\ evicted \in Nat /\ cursor \in Nat /\ cursor <= seq
    /\ bound \in BOOLEAN /\ synced \in BOOLEAN
    /\ asked \in {"none", "catchup", "load", "loading"}
    /\ rejected \subseteq Nat \X Nat /\ \A r \in rejected : r[2] <= seq
    /\ held \subseteq 1..items /\ staged \subseteq 1..items /\ expected \subseteq 1..items
    /\ running \subseteq 1..items /\ gone \subseteq 1..items
    /\ evicted <= seq + 1

\* A frame is an agent update, never a prompt, or a prompt that was not taken back.
FrameOK(f) ==
    /\ f.item \in 1..items /\ f.seq <= seq /\ f.gapBoundary <= seq + 1
    /\ f.promptID \in {NotAPrompt, f.item} /\ f.item \notin gone
    /\ f.promptID = NotAPrompt => f.item \notin running

\* The buffer still tells a client at the cursor c of the agent's item i: by a
\* frame past the cursor, or by having evicted past it.
Told(i, c) ==
    \/ evicted > c
    \/ \E f \in Range(history) :
           f.item = i /\ f.promptID = NotAPrompt /\ Boundary(f) > c

\* The cursor c is one the buffer refuses to continue.
Barred(c) == c < evicted \/ \E r \in rejected : r[1] <= c /\ c <= r[2]

\* A client with the items known and the cursor c learns of a prompt it should
\* no longer have.
NoneSurvives(known, c) ==
    \A p \in known :
        /\ p \in gone => p \in overtaken \/ Barred(c)
        /\ p \in running => \A f \in Range(history) : f.promptID = p => f.seq <= c

\* What is on its way to the client, the load answer included.
Coming == IF asked = "loading" THEN outq \o replay ELSE outq

IsLive(m) == /\ m.kind = "update" /\ m.item \in 1..items /\ m.seq <= seq
             /\ m.item \notin running \cup gone

\* From position b on, the queue continues a client with the items known and
\* the cursor c towards the items due.
Continues(q, b, known, c, due) ==
    /\ c <= seq
    /\ \A k \in b+1..Len(q) : IsLive(q[k]) /\ (q[k].seq = 0 \/ c <= q[k].seq)
    /\ \A j, k \in b+1..Len(q) : j < k /\ q[k].seq # 0 => q[j].seq <= q[k].seq
    /\ \A i \in due \ known :
           /\ Told(i, c)
           /\ \E k \in b+1..Len(q) : q[k].item = i
           /\ \A k \in b+1..Len(q) :
                  q[k].seq # 0 => Told(i, q[k].seq) \/ \E j \in b+1..k : q[j].item = i

Before(q, b) == {q[j].item : j \in 1..b-1}

\* The reply at position b completes a replay.
Completes(q, b, have) ==
    LET m == q[b]
        transcript == have \cup staged \cup Before(q, b)
    IN  /\ b \in 1..Len(q) /\ m.kind \in {"caughtup", "loaded"}
        /\ \A j \in 1..b-1 : q[j].kind = "update" /\ q[j].item \in 1..items
        /\ m.due \subseteq transcript
        /\ transcript \cap m.gone \subseteq overtaken
        /\ NoneSurvives(transcript, m.head)
        /\ Continues(q, b, m.due, m.head, expected \ m.lost)

StagedIsLive == staged \cap (running \cup gone) = {}

GapAt(q, b) ==
    /\ b \in 1..Len(q) /\ q[b].kind = "gap"
    /\ \A k \in 1..Len(q) : k # b => IsLive(q[k])
    /\ StagedIsLive

\* What the client has and what is on its way agree with the buffer.
ClientInv ==
    /\ NoneSurvives(held, cursor)
    /\ \A i \in expected \ held : Told(i, cursor)
    /\ synced => Continues(Coming, 0, held, cursor, expected)
    /\ ~synced /\ asked \in {"none", "load"}
         => StagedIsLive /\ \A k \in 1..Len(outq) : IsLive(outq[k])
    /\ asked = "catchup" => \E b \in 1..Len(Coming) :
           \/ GapAt(Coming, b)
           \/ Coming[b].kind = "caughtup" /\ Completes(Coming, b, held)
    /\ asked = "loading" => \E b \in 1..Len(Coming) :
           Coming[b].kind = "loaded" /\ Completes(Coming, b, {})

\* Nothing is on its way to a client that is not there.
Phases ==
    /\ synced => bound /\ asked = "none"
    /\ asked # "none" => bound
    /\ ~bound => outq = <<>>
    /\ asked = "loading" /\ replay # <<>> => \A k \in 1..Len(outq) : outq[k].kind = "update"

ReplayInv ==
    /\ ReplayTypes /\ Phases /\ ClientInv
    /\ \A f \in Range(history) : FrameOK(f)
    /\ missed = {} /\ stale \subseteq overtaken

-----------------------------------------------------------------------------
(* What the buffer keeps.                                                 *)

LEMMA LeastOfNaturals ==
    ASSUME NEW S \in SUBSET Nat, S # {}
    PROVE  Min(S) \in S /\ \A x \in S : Min(S) <= x
<1>1. PICK m \in S : \A x \in S : ~ (<<x, m>> \in OpToRel(<, Nat))
  BY NatLessThanWellFounded, WFMin, Zenon
<1>2. ASSUME NEW x \in S PROVE m <= x
  <2>1. <<x, m>> \in OpToRel(<, Nat) <=> x < m
    BY DEF OpToRel
  <2>2. x \in Nat /\ m \in Nat /\ ~(x < m)
    BY <1>1, <2>1
  <2> QED BY <2>2
<1>3. m \in S /\ \A x \in S : m =< x
  BY <1>2
<1> QED BY <1>3, Zenon DEF Min

LEMMA GreatestOfNaturals ==
    ASSUME NEW S \in SUBSET Nat, S # {}, NEW n \in Nat, \A x \in S : x <= n
    PROVE  Max(S) \in S /\ \A x \in S : x <= Max(S)
<1>1. PICK T : T = {k \in Nat : \E x \in S : k = n - x}
  OBVIOUS
<1>2. T \in SUBSET Nat /\ T # {}
  <2>1. PICK x \in S : x \in Nat /\ x <= n
    OBVIOUS
  <2>2. n - x \in Nat
    BY <2>1
  <2> QED BY <1>1, <2>1, <2>2
<1>3. PICK k \in T : k = Min(T) /\ \A j \in T : k <= j
  BY <1>2, LeastOfNaturals
<1>4. PICK m \in S : k = n - m
  BY <1>1, <1>3
<1>5. ASSUME NEW x \in S PROVE m >= x
  <2>1. x \in Nat /\ x <= n /\ n - x \in T
    BY <1>1
  <2>2. n - m <= n - x
    BY <1>3, <1>4, <2>1
  <2> QED BY <2>1, <2>2
<1>6. Max(S) \in S /\ \A x \in S : Max(S) >= x
  BY <1>5, Zenon DEF Max
<1>7. \A x \in S : x \in Nat
  OBVIOUS
<1> QED BY <1>6, <1>7

\* After an eviction the buffer opens where FirstKept says, past the oldest frame.
LEMMA TailOfTail ==
    ASSUME NEW all \in Seq(Frames), Len(all) > 0
    PROVE  LET kept == SubSeq(Tail(all), FirstKept(Tail(all)), Len(Tail(all)))
           IN  \E a \in 0..Len(all) :
                   kept = SubSeq(all, a + 1, Len(all)) /\ Len(all) - Len(kept) = a
<1> PICK t : t = Tail(all)
  OBVIOUS
<1> PICK kept : kept = SubSeq(t, FirstKept(t), Len(t))
  OBVIOUS
<1>0. SUFFICES \E a \in 0..Len(all) :
                   kept = SubSeq(all, a + 1, Len(all)) /\ Len(all) - Len(kept) = a
  OBVIOUS
<1>1. /\ t \in Seq(Frames) /\ Len(t) = Len(all) - 1 /\ DOMAIN t = 1..Len(t)
      /\ Len(all) \in Nat /\ Len(t) \in Nat
      /\ \A k \in 1..Len(t) : t[k] = all[k + 1]
  OBVIOUS
<1>2. PICK a : a = FirstKept(t)
  OBVIOUS
<1>3. a \in Nat \ {0} /\ a <= Len(t) + 1
  <2>1. PICK users : users = {k \in DOMAIN t : t[k].user}
    OBVIOUS
  <2>2. users \in SUBSET Nat /\ users \subseteq 1..Len(t)
    BY <1>1, <2>1
  <2>3. a = IF users = {} THEN 1 ELSE Min(users)
    BY <1>2, <2>1 DEF FirstKept
  <2>4. CASE users = {}
    <3>1. a = 1
      BY <2>3, <2>4
    <3> QED BY <1>1, <3>1
  <2>5. CASE users # {}
    <3>1. Min(users) \in users
      BY <2>2, <2>5, LeastOfNaturals
    <3>2. a \in 1..Len(t)
      BY <2>2, <2>3, <2>5, <3>1
    <3> QED BY <1>1, <3>2
  <2> QED BY <2>4, <2>5
<1>4. PICK l : l = Len(t)
  OBVIOUS
<1>13. l \in Nat /\ a <= l + 1 /\ Len(all) = l + 1
  BY <1>1, <1>3, <1>4
<1>5. ASSUME NEW q \in Seq(Frames), NEW m \in Nat \ {0}, NEW n \in Nat, m <= n + 1, n <= Len(q)
      PROVE  /\ SubSeq(q, m, n) \in Seq(Frames) /\ Len(SubSeq(q, m, n)) = n - m + 1
             /\ \A i \in 1..n - m + 1 : SubSeq(q, m, n)[i] = q[m + i - 1]
  <2>1. \A i \in m..n : q[i] \in Frames
    BY <1>5
  <2>2. m \in Int /\ n \in Int /\ (IF m <= n THEN n - m + 1 ELSE 0) = n - m + 1
    BY <1>5
  <2> QED BY <2>1, <2>2, SubSeqProperties
<1>6. /\ kept \in Seq(Frames) /\ Len(kept) = l - a + 1
      /\ \A k \in 1..l - a + 1 : kept[k] = t[a + k - 1]
  BY <1>1, <1>2, <1>3, <1>4, <1>5, <1>13
<1>7. PICK u : u = SubSeq(all, a + 1, Len(all))
  OBVIOUS
<1>8. /\ u \in Seq(Frames) /\ Len(u) = l - a + 1
      /\ \A k \in 1..l - a + 1 : u[k] = all[a + 1 + k - 1]
  <2>1. a + 1 \in Nat \ {0} /\ a + 1 <= Len(all) + 1 /\ Len(all) \in Nat
    BY <1>3, <1>13
  <2>2. Len(all) - (a + 1) + 1 = l - a + 1
    BY <1>3, <1>13
  <2> QED BY <1>5, <1>7, <2>1, <2>2
<1>10. ASSUME NEW k \in 1..l - a + 1 PROVE kept[k] = u[k]
  <2>1. /\ a + k - 1 \in 1..Len(t) /\ a + k - 1 + 1 = a + 1 + k - 1
    BY <1>3, <1>13
  <2>2. kept[k] = t[a + k - 1] /\ t[a + k - 1] = all[a + k - 1 + 1] /\ u[k] = all[a + 1 + k - 1]
    BY <1>1, <1>6, <1>8, <2>1
  <2> QED BY <2>1, <2>2
<1>11. kept = u
  BY <1>6, <1>8, <1>10, SeqEqual
<1>12. Len(all) - Len(kept) = a /\ a \in 0..Len(all)
  BY <1>3, <1>6, <1>13
<1> QED BY <1>7, <1>11, <1>12

\* What the buffer keeps is a tail; what it lost lies below the evicted end.
LEMMA AppendHistoryKeeps ==
    ASSUME ReplayTypes, \A g \in Range(history) : FrameOK(g),
           NEW f \in Frames, NEW s \in Nat, seq <= s, f.gapBoundary <= s + 1, f.seq <= s,
           AppendHistory(f)
    PROVE  /\ history' \in Seq(Frames) /\ evicted' \in Nat
           /\ evicted <= evicted' /\ evicted' <= s + 1
           /\ Range(history') \subseteq Range(history) \cup {f}
           /\ \A g \in Range(history) \cup {f} :
                  g \in Range(history') \/ Boundary(g) <= evicted'
<1>1. PICK all : all = Append(history, f)
  OBVIOUS
<1>2. /\ all \in Seq(Frames) /\ Len(all) = Len(history) + 1 /\ Len(history) \in Nat
      /\ all[Len(all)] = f
      /\ \A k \in 1..Len(history) : all[k] = history[k]
  BY <1>1 DEF ReplayTypes
<1>3. DOMAIN all = 1..Len(all) /\ DOMAIN history = 1..Len(history)
  BY <1>2 DEF ReplayTypes
<1>4. Range(all) = Range(history) \cup {f}
  <2>1. ASSUME NEW k \in 1..Len(all) PROVE all[k] \in Range(history) \cup {f}
    <3>1. k \in 1..Len(history) \/ k = Len(all)
      BY <1>2
    <3> QED BY <1>2, <1>3, <3>1 DEF Range
  <2>2. ASSUME NEW k \in 1..Len(history) PROVE history[k] \in Range(all)
    <3>1. k \in 1..Len(all) /\ all[k] = history[k]
      BY <1>2
    <3> QED BY <1>3, <3>1 DEF Range
  <2>3. f \in Range(all)
    <3>1. Len(all) \in 1..Len(all)
      BY <1>2
    <3> QED BY <1>2, <1>3, <3>1 DEF Range
  <2> QED BY <1>3, <2>1, <2>2, <2>3 DEF Range
<1>5. \A g \in Range(all) : Boundary(g) \in Nat /\ Boundary(g) <= s + 1
  <2> SUFFICES ASSUME NEW g \in Range(all) PROVE Boundary(g) \in Nat /\ Boundary(g) <= s + 1
    OBVIOUS
  <2>1. g \in Frames /\ g.seq <= s /\ g.gapBoundary <= s + 1
    <3>1. CASE g = f
      BY <3>1
    <3>2. CASE g \in Range(history)
      <4>1. g \in Frames
        BY <1>3, <3>2 DEF Range, ReplayTypes
      <4>2. g.seq <= seq /\ g.gapBoundary <= seq + 1 /\ seq \in Nat
        BY <3>2 DEF FrameOK, ReplayTypes
      <4>3. g.seq \in Nat /\ g.gapBoundary \in Nat
        BY <4>1 DEF Frames
      <4> QED BY <4>1, <4>2, <4>3
    <3> QED BY <1>4, <3>1, <3>2
  <2>2. g.seq \in Nat /\ g.gapBoundary \in Nat
    BY <2>1 DEF Frames
  <2> QED BY <2>1, <2>2 DEF Boundary
<1>6. PICK kept, lost :
          /\ kept = IF Len(all) > MaxHistory
                    THEN SubSeq(Tail(all), FirstKept(Tail(all)), Len(Tail(all)))
                    ELSE all
          /\ lost = SubSeq(all, 1, Len(all) - Len(kept))
          /\ history' = kept
          /\ evicted' = Max({evicted} \cup {Boundary(lost[k]) : k \in DOMAIN lost})
  BY <1>1 DEF AppendHistory
<1>7. PICK d \in 0..Len(all) : kept = SubSeq(all, d + 1, Len(all)) /\ Len(all) - Len(kept) = d
  <2>1. CASE Len(all) > MaxHistory
    <3>2. kept = SubSeq(Tail(all), FirstKept(Tail(all)), Len(Tail(all)))
      BY <1>6, <2>1, Zenon
    <3>3. Len(all) > 0
      BY <1>2
    <3>4. \E a \in 0..Len(all) :
              kept = SubSeq(all, a + 1, Len(all)) /\ Len(all) - Len(kept) = a
      BY <1>2, <3>2, <3>3, TailOfTail, Zenon
    <3> QED BY <3>4
  <2>2. CASE ~(Len(all) > MaxHistory)
    <3>1. kept = all
      BY <1>6, <2>2
    <3>2. SubSeq(all, 1, Len(all)) = all
      BY <1>2
    <3>3. Len(all) - Len(all) = 0 /\ 0 \in 0..Len(all) /\ 0 + 1 = 1
      BY <1>2
    <3> QED BY <3>1, <3>2, <3>3
  <2> QED BY <2>1, <2>2
<1>8. /\ kept \in Seq(Frames) /\ Len(kept) = Len(all) - d /\ DOMAIN kept = 1..Len(kept)
      /\ \A k \in 1..Len(kept) : kept[k] = all[d + k]
  BY <1>2, <1>7
<1>9. lost \in Seq(Frames) /\ DOMAIN lost = 1..d /\ \A k \in 1..d : lost[k] = all[k]
  <2>1. lost = SubSeq(all, 1, d) /\ d \in 0..Len(all) /\ Len(all) \in Nat
    <3>1. lost = SubSeq(all, 1, Len(all) - Len(kept))
      BY <1>6, Zenon
    <3>2. Len(all) - Len(kept) = d /\ d \in 0..Len(all)
      BY <1>7, Zenon
    <3> QED BY <1>2, <3>1, <3>2
  <2>2. d \in Nat /\ d <= Len(all) /\ d - 1 + 1 = d
    BY <2>1
  <2>3. 1 \in Int /\ d \in Int /\ \A k \in 1..d : all[k] \in Frames
    BY <1>2, <2>1, <2>2
  <2>4. /\ lost \in Seq(Frames) /\ Len(lost) = IF 1 <= d THEN d - 1 + 1 ELSE 0
        /\ \A k \in 1..d - 1 + 1 : lost[k] = all[1 + k - 1]
    BY <2>1, <2>3, SubSeqProperties
  <2>5. Len(lost) = d
    BY <2>2, <2>4
  <2>6. \A k \in 1..d : 1 + k - 1 = k
    BY <2>2
  <2> QED BY <2>2, <2>4, <2>5, <2>6
<1>10. PICK gap : gap = {evicted} \cup {Boundary(lost[k]) : k \in DOMAIN lost}
  OBVIOUS
<1>11. \A k \in 1..Len(all) : all[k] \in Range(all)
  BY <1>3 DEF Range
<1>12. gap \in SUBSET Nat /\ gap # {} /\ \A x \in gap : x <= s + 1
  <2>1. evicted \in Nat /\ evicted <= s + 1
    <3>1. evicted \in Nat /\ evicted <= seq + 1 /\ seq \in Nat
      BY DEF ReplayTypes
    <3> QED BY <3>1
  <2>2. ASSUME NEW k \in 1..d PROVE Boundary(lost[k]) \in Nat /\ Boundary(lost[k]) <= s + 1
    <3>1. k \in 1..Len(all) /\ lost[k] = all[k]
      BY <1>2, <1>9
    <3> QED BY <1>5, <1>11, <3>1
  <2> QED BY <1>9, <1>10, <2>1, <2>2
<1>13. evicted' \in gap /\ \A x \in gap : x <= evicted'
  <2>1. s + 1 \in Nat
    OBVIOUS
  <2> QED BY <1>6, <1>10, <1>12, <2>1, GreatestOfNaturals
<1>14. evicted' \in Nat /\ evicted <= evicted' /\ evicted' <= s + 1
  BY <1>10, <1>12, <1>13
<1>15. DOMAIN history' = 1..Len(kept) /\ history' \in Seq(Frames)
  BY <1>6, <1>8
<1>16. ASSUME NEW g \in Range(history') PROVE g \in Range(all)
  <2>1. PICK k \in 1..Len(kept) : g = kept[k]
    BY <1>6, <1>8 DEF Range
  <2>2. d + k \in 1..Len(all) /\ g = all[d + k]
    BY <1>2, <1>8, <2>1
  <2> QED BY <1>11, <2>2
<1>17. ASSUME NEW g \in Range(all) PROVE g \in Range(history') \/ Boundary(g) <= evicted'
  <2>1. PICK k \in 1..Len(all) : g = all[k]
    BY <1>3 DEF Range
  <2>2. CASE k <= d
    <3>1. k \in 1..d /\ lost[k] = g
      BY <1>9, <2>1, <2>2
    <3>2. Boundary(g) \in gap
      BY <1>9, <1>10, <3>1
    <3> QED BY <1>13, <3>2
  <2>3. CASE ~(k <= d)
    <3>1. k - d \in 1..Len(kept) /\ d + (k - d) = k
      BY <1>2, <1>8, <2>1, <2>3
    <3>2. g = kept[k - d]
      BY <1>8, <2>1, <3>1
    <3> QED BY <1>6, <1>15, <3>1, <3>2 DEF Range
  <2> QED BY <2>2, <2>3
<1> QED BY <1>4, <1>14, <1>15, <1>16, <1>17

-----------------------------------------------------------------------------
(* What a step of the buffer leaves a client.                              *)

\* A step of the buffer as a client sees it: what it was told of it still is,
\* a barred cursor stays barred, what is live stays live, and a prompt is taken
\* back only with the cursors barred that may have it.
BufferMoves ==
    /\ seq' \in Nat /\ seq <= seq' /\ items' \in Nat /\ items <= items'
    /\ \A i \in 1..items, c \in Nat : Told(i, c) => Told(i, c)'
    /\ \A c \in Nat : Barred(c) => Barred(c)'
    /\ \A p \in 1..items : p \in running' \cup gone' => p \in running \cup gone
    /\ \A p \in 1..items : p \in running' =>
           p \in running /\ \A f \in Range(history') : f.promptID = p => f \in Range(history)
    /\ \A p \in 1..items, c \in 0..seq : p \in gone' \ gone =>
           /\ p \in running
           /\ (\A f \in Range(history) : f.promptID = p => f.seq <= c) => Barred(c)'

LEMMA SurvivesMoves ==
    ASSUME BufferMoves, overtaken \subseteq overtaken',
           NEW known \in SUBSET (1..items), NEW c \in 0..seq, seq \in Nat,
           NoneSurvives(known, c)
    PROVE  NoneSurvives(known, c)'
<1> SUFFICES ASSUME NEW p \in known
             PROVE  /\ p \in gone' => p \in overtaken' \/ Barred(c)'
                    /\ p \in running' => \A f \in Range(history') : f.promptID = p => f.seq <= c
  BY DEF NoneSurvives
<1>1. /\ p \in gone => p \in overtaken \/ Barred(c)
      /\ p \in running => \A f \in Range(history) : f.promptID = p => f.seq <= c
  BY DEF NoneSurvives
<1>2. p \in 1..items /\ c \in Nat
  OBVIOUS
<1>3. Barred(c) => Barred(c)'
  BY <1>2 DEF BufferMoves
<1>4. p \in gone' \ gone => p \in running
        /\ ((\A f \in Range(history) : f.promptID = p => f.seq <= c) => Barred(c)')
  BY <1>2 DEF BufferMoves
<1>5. p \in running' =>
        p \in running /\ \A f \in Range(history') : f.promptID = p => f \in Range(history)
  BY <1>2 DEF BufferMoves
<1>6. p \in gone' => p \in overtaken' \/ Barred(c)'
  BY <1>1, <1>3, <1>4
<1>7. p \in running' => \A f \in Range(history') : f.promptID = p => f.seq <= c
  BY <1>1, <1>5
<1> QED BY <1>6, <1>7

LEMMA LiveMoves ==
    ASSUME BufferMoves, seq \in Nat, items \in Nat, NEW m \in Messages, IsLive(m)
    PROVE  IsLive(m)'
<1>1. m.kind = "update" /\ m.item \in 1..items /\ m.seq <= seq /\ m.item \notin running \cup gone
  BY DEF IsLive
<1>2. m.seq \in Nat
  BY <1>1 DEF Messages, UpdateMsgs, ReplyMsgs
<1>3. m.item \in 1..items' /\ m.seq <= seq' /\ m.item \notin running' \cup gone'
  BY <1>1, <1>2 DEF BufferMoves
<1> QED BY <1>1, <1>3 DEF IsLive

\* The queue a client is given, with d, which is new to the buffer, to come.
LEMMA ContinuesMoves ==
    ASSUME BufferMoves, seq \in Nat, items \in Nat,
           NEW q \in Seq(Messages), NEW b \in Nat, NEW known, NEW c \in Nat,
           NEW due \in SUBSET (1..items), Continues(q, b, known, c, due)
    PROVE  Continues(q, b, known, c, due)'
<1>1. /\ c <= seq
      /\ \A k \in b+1..Len(q) : IsLive(q[k]) /\ (q[k].seq = 0 \/ c <= q[k].seq)
      /\ \A j, k \in b+1..Len(q) : j < k /\ q[k].seq # 0 => q[j].seq <= q[k].seq
      /\ \A i \in due \ known :
             /\ Told(i, c)
             /\ \E k \in b+1..Len(q) : q[k].item = i
             /\ \A k \in b+1..Len(q) :
                    q[k].seq # 0 => Told(i, q[k].seq) \/ \E j \in b+1..k : q[j].item = i
  BY DEF Continues
<1>2. \A k \in b+1..Len(q) : q[k] \in Messages
  OBVIOUS
<1>3. c <= seq'
  BY <1>1 DEF BufferMoves
<1>4. \A k \in b+1..Len(q) : IsLive(q[k])' /\ q[k].seq \in Nat
  <2> SUFFICES ASSUME NEW k \in b+1..Len(q) PROVE IsLive(q[k])' /\ q[k].seq \in Nat
    OBVIOUS
  <2>1. PICK m \in Messages : m = q[k]
    BY <1>2
  <2>2. IsLive(m)
    BY <1>1, <2>1
  <2>3. IsLive(m)'
    BY <2>2, LiveMoves
  <2>4. m.seq \in Nat
    BY <2>2 DEF IsLive, Messages, UpdateMsgs, ReplyMsgs
  <2> QED BY <2>1, <2>3, <2>4
<1>5. \A i \in 1..items, e \in Nat : Told(i, e) => Told(i, e)'
  BY DEF BufferMoves
<1>6. ASSUME NEW i \in due \ known
      PROVE  /\ Told(i, c)'
             /\ \E k \in b+1..Len(q) : q[k].item = i
             /\ \A k \in b+1..Len(q) :
                    q[k].seq # 0 => Told(i, q[k].seq)' \/ \E j \in b+1..k : q[j].item = i
  <2>1. Told(i, c)'
    BY <1>1, <1>5
  <2>2. ASSUME NEW k \in b+1..Len(q), q[k].seq # 0
        PROVE  Told(i, q[k].seq)' \/ \E j \in b+1..k : q[j].item = i
    <3>1. CASE \E j \in b+1..k : q[j].item = i
      BY <3>1
    <3>2. CASE Told(i, q[k].seq)
      <4>1. PICK e \in Nat : e = q[k].seq
        BY <1>4
      <4>2. Told(i, e)'
        BY <1>5, <3>2, <4>1
      <4> QED BY <4>1, <4>2
    <3> QED BY <1>1, <2>2, <3>1, <3>2
  <2> QED BY <1>1, <2>1, <2>2
<1> QED BY <1>1, <1>3, <1>4, <1>6 DEF Continues

\* A reply that completes a replay still does.
LEMMA CompletesMoves ==
    ASSUME BufferMoves, ReplayTypes, staged' = staged, overtaken' = overtaken,
           NEW due, expected' = due, due = expected,
           NEW q \in Seq(Messages), NEW b, NEW have \in SUBSET (1..items),
           Completes(q, b, have)
    PROVE  Completes(q, b, have)'
<1>1. PICK m : m = q[b]
  OBVIOUS
<1>2. PICK known : known = have \cup staged \cup Before(q, b)
  OBVIOUS
<1>3. /\ b \in 1..Len(q) /\ m.kind \in {"caughtup", "loaded"}
      /\ \A j \in 1..b-1 : q[j].kind = "update" /\ q[j].item \in 1..items
      /\ m.due \subseteq known
      /\ known \cap m.gone \subseteq overtaken
      /\ NoneSurvives(known, m.head)
      /\ Continues(q, b, m.due, m.head, expected \ m.lost)
  BY <1>1, <1>2 DEF Completes
<1>4. m \in Messages /\ b \in Nat
  BY <1>1, <1>3
<1>5. m.head \in Nat
  BY <1>3, <1>4 DEF Messages, UpdateMsgs, ReplyMsgs
<1>6. known \in SUBSET (1..items)
  BY <1>2, <1>3 DEF ReplayTypes, Before
<1>7. items \in Nat /\ seq \in Nat /\ expected \subseteq 1..items
  BY DEF ReplayTypes
<1>8. PICK h, d : h = m.head /\ d = due \ m.lost
  OBVIOUS
<1>9. m.head <= seq
  BY <1>3 DEF Continues
<1>10. NoneSurvives(known, h)'
  <2>1. h \in 0..seq
    BY <1>5, <1>7, <1>8, <1>9
  <2>2. NoneSurvives(known, h)
    BY <1>3, <1>8
  <2> QED BY <1>6, <1>7, <2>1, <2>2, SurvivesMoves
<1>11. Continues(q, b, m.due, h, d)'
  <2>1. PICK md : md = m.due
    OBVIOUS
  <2>2. h \in Nat /\ d \in SUBSET (1..items) /\ Continues(q, b, md, h, d)
    BY <1>3, <1>5, <1>7, <1>8, <2>1
  <2>3. Continues(q, b, md, h, d)'
    BY <1>4, <1>7, <2>2, ContinuesMoves
  <2> QED BY <2>1, <2>3
<1>12. \A j \in 1..b-1 : q[j].kind = "update" /\ q[j].item \in 1..items'
  BY <1>3, <1>7 DEF BufferMoves
<1>13. known = have \cup staged' \cup Before(q, b)
  BY <1>2
<1>14. NoneSurvives(known, m.head)' /\ Continues(q, b, m.due, m.head, expected \ m.lost)'
  BY <1>8, <1>10, <1>11
<1> QED BY <1>1, <1>3, <1>12, <1>13, <1>14 DEF Completes, Before

LEMMA ComingTyped == ReplayTypes => Coming \in Seq(Messages)
<1> SUFFICES ASSUME ReplayTypes PROVE Coming \in Seq(Messages)
  OBVIOUS
<1>1. outq \in Seq(Messages) /\ replay \in Seq(Messages)
  BY DEF ReplayTypes
<1>2. outq \o replay \in Seq(Messages)
  BY <1>1
<1> QED BY <1>1, <1>2 DEF Coming

\* What is live and staged stays live.
LEMMA StagedMoves ==
    ASSUME BufferMoves, staged \subseteq 1..items, staged' = staged, StagedIsLive
    PROVE  StagedIsLive'
<1>1. \A p \in staged : p \notin running' \cup gone'
  BY DEF BufferMoves, StagedIsLive
<1> QED BY <1>1 DEF StagedIsLive

\* A step of the buffer that sends nothing.
LEMMA ClientWaits ==
    ASSUME ReplayTypes, ClientInv, BufferMoves,
           UNCHANGED <<asked, synced, held, staged, cursor, Coming, overtaken, expected>>
    PROVE  ClientInv'
<1>1. /\ items \in Nat /\ seq \in Nat /\ cursor \in 0..seq /\ cursor \in Nat
      /\ held \in SUBSET (1..items) /\ expected \in SUBSET (1..items)
      /\ staged \in SUBSET (1..items)
  BY DEF ReplayTypes
<1>2. PICK q \in Seq(Messages) : q = Coming
  BY ComingTyped
<1>3. Coming' = q
  BY <1>2
<1>4. PICK h, c, e : h = held /\ c = cursor /\ e = expected
  OBVIOUS
<1>5. held' = h /\ cursor' = c /\ expected' = e
  BY <1>4
<1>6. NoneSurvives(held, cursor)'
  <2>1. h \in SUBSET (1..items) /\ c \in 0..seq
    BY <1>1, <1>4
  <2>2. NoneSurvives(h, c)
    BY <1>4 DEF ClientInv
  <2>3. NoneSurvives(h, c)'
    BY <1>1, <2>1, <2>2, SurvivesMoves
  <2> QED BY <1>5, <2>3
<1>7. \A i \in expected' \ held' : Told(i, cursor)'
  <2> SUFFICES ASSUME NEW i \in e \ h PROVE Told(i, c)'
    BY <1>5
  <2>1. i \in 1..items /\ c \in Nat /\ Told(i, c)
    BY <1>1, <1>4 DEF ClientInv
  <2> QED BY <2>1 DEF BufferMoves
<1>8. synced' => Continues(Coming, 0, held, cursor, expected)'
  <2> SUFFICES ASSUME synced PROVE Continues(Coming, 0, held, cursor, expected)'
    OBVIOUS
  <2>1. Continues(q, 0, h, c, e)
    BY <1>2, <1>4 DEF ClientInv
  <2>2. e \in SUBSET (1..items) /\ c \in Nat
    BY <1>1, <1>4
  <2>3. Continues(q, 0, h, c, e)'
    BY <1>1, <2>1, <2>2, ContinuesMoves
  <2> QED BY <1>3, <1>5, <2>3
<1>9. ~synced' /\ asked' \in {"none", "load"}
        => StagedIsLive' /\ \A k \in 1..Len(outq') : IsLive(outq[k])'
  <2> SUFFICES ASSUME ~synced, asked \in {"none", "load"}
               PROVE  StagedIsLive' /\ \A k \in 1..Len(outq') : IsLive(outq[k])'
    OBVIOUS
  <2>0. outq' = outq
    BY DEF Coming
  <2>1. StagedIsLive /\ \A k \in 1..Len(outq) : IsLive(outq[k])
    BY DEF ClientInv
  <2>2. ASSUME NEW k \in 1..Len(outq) PROVE IsLive(outq[k])'
    <3>1. PICK m \in Messages : m = outq[k]
      BY DEF ReplayTypes
    <3>2. IsLive(m)
      BY <2>1, <3>1
    <3>3. IsLive(m)' /\ m = outq'[k]
      BY <1>1, <2>0, <3>1, <3>2, LiveMoves
    <3> QED BY <3>3
  <2> QED BY <1>1, <2>0, <2>1, <2>2, StagedMoves
<1>10. ASSUME NEW b \in 1..Len(q), GapAt(q, b) PROVE GapAt(q, b)'
  <2>1. /\ b \in 1..Len(q) /\ q[b].kind = "gap" /\ StagedIsLive
        /\ \A k \in 1..Len(q) : k # b => IsLive(q[k])
    BY <1>10 DEF GapAt
  <2>2. ASSUME NEW k \in 1..Len(q), k # b PROVE IsLive(q[k])'
    <3>1. PICK m \in Messages : m = q[k]
      OBVIOUS
    <3>2. IsLive(m)
      BY <2>1, <2>2, <3>1
    <3>3. IsLive(m)'
      BY <1>1, <3>2, LiveMoves
    <3> QED BY <3>1, <3>3
  <2>3. StagedIsLive'
    BY <1>1, <2>1, StagedMoves
  <2> QED BY <2>1, <2>2, <2>3 DEF GapAt
<1>11. ASSUME NEW b, NEW have \in SUBSET (1..items), Completes(q, b, have)
       PROVE  Completes(q, b, have)'
  BY <1>4, <1>11, CompletesMoves
<1>12. asked' = "catchup" => \E b \in 1..Len(Coming') :
           \/ GapAt(Coming, b)'
           \/ Coming'[b].kind = "caughtup" /\ Completes(Coming, b, held)'
  <2> SUFFICES ASSUME asked = "catchup"
               PROVE  \E b \in 1..Len(q) : \/ GapAt(q, b)'
                                           \/ q[b].kind = "caughtup" /\ Completes(q, b, h)'
    BY <1>3, <1>5
  <2>1. PICK b \in 1..Len(q) : \/ GapAt(q, b)
                               \/ q[b].kind = "caughtup" /\ Completes(q, b, h)
    BY <1>2, <1>4 DEF ClientInv
  <2> QED BY <1>1, <1>4, <1>10, <1>11, <2>1
<1>13. asked' = "loading" => \E b \in 1..Len(Coming') :
           Coming'[b].kind = "loaded" /\ Completes(Coming, b, {})'
  <2> SUFFICES ASSUME asked = "loading"
               PROVE  \E b \in 1..Len(q) : q[b].kind = "loaded" /\ Completes(q, b, {})'
    BY <1>3
  <2>1. PICK b \in 1..Len(q) : q[b].kind = "loaded" /\ Completes(q, b, {})
    BY <1>2 DEF ClientInv
  <2> QED BY <1>11, <2>1
<1> QED BY <1>6, <1>7, <1>8, <1>9, <1>12, <1>13 DEF ClientInv

\* What a client that does not move at all is told in the meantime.
LEMMA QuietMoves ==
    ASSUME ReplayTypes,
           UNCHANGED <<history, seq, evicted, rejected, items, running, gone>>
    PROVE  BufferMoves
<1>1. \A i \in 1..items, c \in Nat : Told(i, c) => Told(i, c)'
  BY DEF Told
<1>2. \A c \in Nat : Barred(c) => Barred(c)'
  BY DEF Barred
<1>3. seq' \in Nat /\ seq <= seq' /\ items' \in Nat /\ items <= items'
  BY DEF ReplayTypes
<1> QED BY <1>1, <1>2, <1>3 DEF BufferMoves

\* A new frame leaves what the client was told of the buffer as it is.
LEMMA AppendMoves ==
    ASSUME ReplayTypes, \A g \in Range(history) : FrameOK(g),
           NEW f \in Frames, f.item = items + 1, f.promptID \in {NotAPrompt, f.item},
           f.gapBoundary <= seq' + 1, f.seq <= seq', seq' \in Nat, seq <= seq',
           AppendHistory(f), items' = items + 1, rejected' = rejected, gone' = gone,
           running' = IF f.promptID = NotAPrompt THEN running ELSE running \cup {items + 1}
    PROVE  /\ BufferMoves
           /\ history' \in Seq(Frames) /\ evicted' \in Nat /\ evicted' <= seq' + 1
           /\ \A g \in Range(history') : FrameOK(g)'
           /\ \A c \in Nat : c < Boundary(f) =>
                  evicted' > c \/ f \in Range(history')
           /\ running' \subseteq 1..items' /\ gone' \subseteq 1..items'
<1>1. /\ history' \in Seq(Frames) /\ evicted' \in Nat
      /\ evicted <= evicted' /\ evicted' <= seq' + 1
      /\ Range(history') \subseteq Range(history) \cup {f}
      /\ \A g \in Range(history) \cup {f} :
             g \in Range(history') \/ Boundary(g) <= evicted'
  <2>1. PICK s \in Nat : s = seq'
    OBVIOUS
  <2> QED BY <2>1, AppendHistoryKeeps
<1>2. /\ items \in Nat /\ seq \in Nat /\ evicted \in Nat
      /\ running \subseteq 1..items /\ gone \subseteq 1..items
  BY DEF ReplayTypes
<1>3. \A g \in Range(history) : g \in Frames
  BY DEF Range, ReplayTypes
<1>4. \A g \in Frames : Boundary(g) \in Nat
  BY DEF Frames, Boundary
<1>5. ASSUME NEW i \in 1..items, NEW c \in Nat, Told(i, c) PROVE Told(i, c)'
  <2>1. CASE evicted > c
    <3>1. evicted' > c
      BY <1>1, <1>2, <2>1
    <3> QED BY <3>1 DEF Told
  <2>2. CASE ~(evicted > c)
    <3>1. PICK g \in Range(history) :
              g.item = i /\ g.promptID = NotAPrompt /\ Boundary(g) > c
      BY <1>5, <2>2 DEF Told
    <3>2. CASE g \in Range(history')
      BY <3>1, <3>2 DEF Told, Boundary
    <3>3. CASE Boundary(g) <= evicted'
      <4>1. Boundary(g) \in Nat
        BY <1>3, <1>4
      <4>2. evicted' > c
        BY <1>1, <3>1, <3>3, <4>1
      <4> QED BY <4>2 DEF Told
    <3> QED BY <1>1, <3>2, <3>3
  <2> QED BY <2>1, <2>2
<1>6. ASSUME NEW c \in Nat, Barred(c) PROVE Barred(c)'
  <2>1. CASE c < evicted
    <3>1. c < evicted'
      BY <1>1, <1>2, <2>1
    <3> QED BY <3>1 DEF Barred
  <2>2. CASE \E r \in rejected : r[1] <= c /\ c <= r[2]
    BY <2>2 DEF Barred
  <2> QED BY <1>6, <2>1, <2>2 DEF Barred
<1>7. ASSUME NEW p \in 1..items, p \in running'
      PROVE  p \in running /\ \A g \in Range(history') : g.promptID = p => g \in Range(history)
  <2>1. p # items + 1 /\ p # NotAPrompt
    BY <1>2 DEF NotAPrompt
  <2>2. p \in running
    BY <1>7, <2>1
  <2>3. f.promptID # p
    BY <2>1
  <2> QED BY <1>1, <2>2, <2>3
<1>8. BufferMoves
  <2>1. /\ \A p \in 1..items : p \in running' \cup gone' => p \in running \cup gone
        /\ \A p \in 1..items, c \in 0..seq : p \in gone' \ gone =>
             /\ p \in running
             /\ (\A g \in Range(history) : g.promptID = p => g.seq <= c) => Barred(c)'
    BY <1>7
  <2>2. items' \in Nat /\ items <= items'
    BY <1>2
  <2> QED BY <1>5, <1>6, <1>7, <2>1, <2>2 DEF BufferMoves
<1>9. ASSUME NEW g \in Range(history') PROVE FrameOK(g)'
  <2>1. CASE g = f
    <3>1. f.item \in 1..items' /\ f.item \notin gone'
      BY <1>2
    <3>2. f.promptID = NotAPrompt => f.item \notin running'
      BY <1>2
    <3> QED BY <2>1, <3>1, <3>2 DEF FrameOK
  <2>2. CASE g \in Range(history)
    <3>1. FrameOK(g) /\ g \in Frames
      BY <1>3, <2>2
    <3>2. /\ g.item \in 1..items /\ g.seq <= seq /\ g.gapBoundary <= seq + 1
          /\ g.promptID \in {NotAPrompt, g.item} /\ g.item \notin gone
          /\ g.promptID = NotAPrompt => g.item \notin running
          /\ g.seq \in Nat /\ g.gapBoundary \in Nat
      BY <3>1 DEF FrameOK, Frames
    <3>3. g.item \in 1..items' /\ g.seq <= seq' /\ g.gapBoundary <= seq' + 1 /\ g.item # items + 1
      BY <1>2, <3>2
    <3> QED BY <3>2, <3>3 DEF FrameOK
  <2> QED BY <1>1, <2>1, <2>2
<1>10. ASSUME NEW c \in Nat, c < Boundary(f) PROVE evicted' > c \/ f \in Range(history')
  <2>1. Boundary(f) \in Nat
    BY <1>4
  <2> QED BY <1>1, <1>10, <2>1
<1>11. running' \subseteq 1..items' /\ gone' \subseteq 1..items'
  BY <1>2
<1> QED BY <1>1, <1>8, <1>9, <1>10, <1>11

LEMMA PromptKeeps == ASSUME ReplayInv, Prompt PROVE ReplayInv'
<1>1. /\ ReplayTypes /\ Phases /\ ClientInv /\ missed = {} /\ stale \subseteq overtaken
      /\ \A g \in Range(history) : FrameOK(g)
  BY DEF ReplayInv
<1>2. items \in Nat /\ seq \in Nat
  BY <1>1 DEF ReplayTypes
<1>3. PICK f : f = [item |-> items + 1, seq |-> seq + 1, user |-> TRUE, promptID |-> items + 1,
                    gapBoundary |-> seq + 1 + 1]
  OBVIOUS
<1>4. /\ f \in Frames /\ f.item = items + 1 /\ f.promptID = items + 1 /\ f.seq = seq + 1
      /\ f.gapBoundary = seq + 1 + 1
  BY <1>2, <1>3 DEF Frames
<1>5. /\ items' = items + 1 /\ seq' = seq + 1 /\ running' = running \cup {items + 1}
      /\ UNCHANGED <<rejected, gone, expected, bound, outq, replay, drops, clientVars>>
  BY DEF Prompt
<1>6. AppendHistory(f)
  BY <1>3, <1>5 DEF Prompt
<1>7. f.promptID # NotAPrompt
  BY <1>2, <1>4 DEF NotAPrompt
<1>8. UNCHANGED <<asked, synced, held, staged, cursor, missed, stale, overtaken>>
  BY <1>5 DEF clientVars
<1>9. /\ BufferMoves
      /\ history' \in Seq(Frames) /\ evicted' \in Nat /\ evicted' <= seq' + 1
      /\ \A g \in Range(history') : FrameOK(g)'
      /\ running' \subseteq 1..items' /\ gone' \subseteq 1..items'
  <2>1. /\ seq' \in Nat /\ seq <= seq' /\ f.seq <= seq' /\ f.gapBoundary <= seq' + 1
    BY <1>2, <1>4, <1>5
  <2>2. running' = IF f.promptID = NotAPrompt THEN running ELSE running \cup {items + 1}
    BY <1>5, <1>7
  <2> QED BY <1>1, <1>4, <1>5, <1>6, <2>1, <2>2, AppendMoves
<1>10. ReplayTypes'
  <2>1. \A r \in rejected : r[2] \in Nat /\ r[2] <= seq
    BY <1>1 DEF ReplayTypes
  <2>2. \A r \in rejected' : r[2] <= seq'
    BY <1>2, <1>5, <2>1
  <2>3. held' \subseteq 1..items' /\ staged' \subseteq 1..items' /\ expected' \subseteq 1..items'
    BY <1>1, <1>2, <1>5, <1>8 DEF ReplayTypes
  <2>4. seq' \in Nat /\ items' \in Nat /\ cursor' <= seq'
    BY <1>1, <1>2, <1>5, <1>8 DEF ReplayTypes
  <2> QED BY <1>1, <1>5, <1>8, <1>9, <2>2, <2>3, <2>4 DEF ReplayTypes
<1>11. Phases'
  BY <1>1, <1>5, <1>8 DEF Phases
<1>12. ClientInv'
  <2>1. Coming' = Coming
    BY <1>5, <1>8 DEF Coming
  <2> QED BY <1>1, <1>5, <1>8, <1>9, <2>1, ClientWaits
<1> QED BY <1>1, <1>8, <1>9, <1>10, <1>11, <1>12 DEF ReplayInv

\* A new update is told the client behind everything that is on its way.
LEMMA ContinuesGrows ==
    ASSUME BufferMoves, seq \in Nat, items \in Nat,
           NEW q \in Seq(Messages), NEW b \in 0..Len(q), NEW known, NEW c \in Nat,
           NEW due \in SUBSET (1..items), Continues(q, b, known, c, due),
           NEW m \in Messages, IsLive(m)', m.seq = 0 \/ m.seq > seq,
           \A e \in 0..seq : Told(m.item, e)',
           NEW wanted \in SUBSET (due \cup {m.item})
    PROVE  Continues(Append(q, m), b, known, c, wanted)'
<1>1. Continues(q, b, known, c, due)'
  BY ContinuesMoves
<1>2. PICK p : p = Append(q, m)
  OBVIOUS
<1>3. PICK n \in Nat : n = Len(q)
  OBVIOUS
<1>4. /\ p \in Seq(Messages) /\ Len(p) = n + 1 /\ p[n + 1] = m
      /\ \A k \in 1..n : p[k] = q[k]
  BY <1>2, <1>3
<1>5. b \in Nat /\ b <= n /\ n + 1 \in b+1..n + 1
  BY <1>3
<1>6. \A k \in b+1..n + 1 : (k \in b+1..n /\ p[k] = q[k]) \/ (k = n + 1 /\ p[k] = m)
  BY <1>4, <1>5
<1>7. m.kind = "update" /\ m.seq \in Nat
  BY DEF IsLive, Messages, UpdateMsgs, ReplyMsgs
<1>8. /\ c <= seq
      /\ \A k \in b+1..n : IsLive(q[k]) /\ q[k].seq \in Nat
  <2>1. \A k \in b+1..n : IsLive(q[k]) /\ q[k] \in Messages
    BY <1>3, <1>5 DEF Continues
  <2> QED BY <2>1 DEF IsLive, Messages, UpdateMsgs, ReplyMsgs, Continues
<1>9. \A k \in b+1..n : q[k].seq <= seq
  BY <1>8 DEF IsLive
<1>10. c <= seq'
  BY <1>1 DEF Continues
<1>11. \A k \in b+1..n : IsLive(q[k])' /\ (q[k].seq = 0 \/ c <= q[k].seq)
  BY <1>1, <1>3 DEF Continues
<1>12. \A k \in b+1..n + 1 : IsLive(p[k])' /\ (p[k].seq = 0 \/ c <= p[k].seq)
  <2> SUFFICES ASSUME NEW k \in b+1..n + 1
               PROVE  IsLive(p[k])' /\ (p[k].seq = 0 \/ c <= p[k].seq)
    OBVIOUS
  <2>1. CASE k \in b+1..n /\ p[k] = q[k]
    BY <1>11, <2>1
  <2>2. CASE p[k] = m
    <3>1. m.seq = 0 \/ c <= m.seq
      BY <1>7, <1>8
    <3> QED BY <2>2, <3>1
  <2> QED BY <1>6, <2>1, <2>2
<1>13. ASSUME NEW j \in b+1..n + 1, NEW k \in b+1..n + 1, j < k, p[k].seq # 0
       PROVE  p[j].seq <= p[k].seq
  <2>1. j \in b+1..n /\ p[j] = q[j]
    BY <1>5, <1>6, <1>13
  <2>2. CASE k \in b+1..n /\ p[k] = q[k]
    <3>1. \A x, y \in b+1..n : x < y /\ q[y].seq # 0 => q[x].seq <= q[y].seq
      BY <1>3 DEF Continues
    <3> QED BY <1>13, <2>1, <2>2, <3>1
  <2>3. CASE p[k] = m
    <3>1. p[j].seq \in Nat /\ p[j].seq <= seq /\ m.seq > seq
      BY <1>8, <1>9, <1>13, <2>1, <2>3
    <3> QED BY <1>7, <2>3, <3>1
  <2> QED BY <1>6, <2>2, <2>3
<1>14. \A i \in due \ known :
           /\ Told(i, c)'
           /\ \E k \in b+1..n : q[k].item = i
           /\ \A k \in b+1..n :
                  q[k].seq # 0 => Told(i, q[k].seq)' \/ \E j \in b+1..k : q[j].item = i
  BY <1>1, <1>3 DEF Continues
<1>15. ASSUME NEW i \in wanted \ known
       PROVE  /\ Told(i, c)'
              /\ \E k \in b+1..n + 1 : p[k].item = i
              /\ \A k \in b+1..n + 1 :
                     p[k].seq # 0 => Told(i, p[k].seq)' \/ \E j \in b+1..k : p[j].item = i
  <2>1. CASE i = m.item
    <3>1. Told(i, c)'
      BY <1>8, <2>1
    <3>2. p[n + 1].item = i
      BY <1>4, <2>1
    <3>3. ASSUME NEW k \in b+1..n + 1, p[k].seq # 0
          PROVE  Told(i, p[k].seq)' \/ \E j \in b+1..k : p[j].item = i
      <4>1. CASE k \in b+1..n /\ p[k] = q[k]
        <5>1. PICK e \in 0..seq : e = q[k].seq
          BY <1>8, <1>9, <4>1
        <5>2. Told(i, e)'
          BY <2>1
        <5> QED BY <4>1, <5>1, <5>2
      <4>2. CASE k = n + 1
        <5>1. k \in b+1..k
          BY <1>5, <4>2
        <5> QED BY <3>2, <4>2, <5>1
      <4> QED BY <1>6, <4>1, <4>2
    <3> QED BY <1>5, <3>1, <3>2, <3>3
  <2>2. CASE i # m.item
    <3>1. i \in due \ known
      BY <2>2
    <3>2. PICK l \in b+1..n : q[l].item = i
      BY <1>14, <3>1
    <3>3. l \in b+1..n + 1 /\ p[l].item = i
      <4>1. l \in b+1..n + 1 /\ l \in 1..n
        BY <1>5
      <4> QED BY <1>4, <3>2, <4>1
    <3>4. ASSUME NEW k \in b+1..n + 1, p[k].seq # 0
          PROVE  Told(i, p[k].seq)' \/ \E j \in b+1..k : p[j].item = i
      <4>1. CASE k \in b+1..n /\ p[k] = q[k]
        <5>1. CASE Told(i, q[k].seq)'
          BY <4>1, <5>1
        <5>2. CASE \E j \in b+1..k : q[j].item = i
          <6>1. PICK j \in b+1..k : q[j].item = i
            BY <5>2
          <6>2. j \in 1..n
            BY <1>5, <4>1
          <6> QED BY <1>4, <6>1, <6>2
        <5> QED BY <1>14, <3>1, <3>4, <4>1, <5>1, <5>2
      <4>2. CASE k = n + 1
        <5>1. l \in b+1..k
          BY <1>5, <4>2
        <5> QED BY <3>3, <5>1
      <4> QED BY <1>6, <4>1, <4>2
    <3> QED BY <1>14, <3>1, <3>3, <3>4
  <2> QED BY <2>1, <2>2
<1>16. Continues(p, b, known, c, wanted)'
  BY <1>4, <1>10, <1>12, <1>13, <1>15 DEF Continues
<1> QED BY <1>2, <1>16

\* And so a reply that completes a replay still does.
LEMMA CompletesGrows ==
    ASSUME BufferMoves, ReplayTypes, staged' = staged, overtaken' = overtaken,
           NEW q \in Seq(Messages), NEW b, NEW have \in SUBSET (1..items),
           Completes(q, b, have),
           NEW m \in Messages, IsLive(m)', m.seq = 0 \/ m.seq > seq,
           \A e \in 0..seq : Told(m.item, e)',
           expected' = expected \cup {m.item}
    PROVE  Completes(Append(q, m), b, have)'
<1>1. PICK r : r = q[b]
  OBVIOUS
<1>2. PICK known : known = have \cup staged \cup Before(q, b)
  OBVIOUS
<1>3. /\ b \in 1..Len(q) /\ r.kind \in {"caughtup", "loaded"}
      /\ \A j \in 1..b-1 : q[j].kind = "update" /\ q[j].item \in 1..items
      /\ r.due \subseteq known
      /\ known \cap r.gone \subseteq overtaken
      /\ NoneSurvives(known, r.head)
      /\ Continues(q, b, r.due, r.head, expected \ r.lost)
  BY <1>1, <1>2 DEF Completes
<1>4. r \in Messages /\ b \in Nat
  BY <1>1, <1>3
<1>5. r.head \in Nat
  BY <1>3, <1>4 DEF Messages, UpdateMsgs, ReplyMsgs
<1>6. known \in SUBSET (1..items)
  BY <1>2, <1>3 DEF ReplayTypes, Before
<1>7. items \in Nat /\ seq \in Nat /\ expected \subseteq 1..items
  BY DEF ReplayTypes
<1>8. PICK h, d, rd, w : /\ h = r.head /\ d = expected \ r.lost
                            /\ rd = r.due /\ w = (expected \cup {m.item}) \ r.lost
  OBVIOUS
<1>9. h \in Nat /\ h <= seq
  BY <1>3, <1>5, <1>8 DEF Continues
<1>10. NoneSurvives(known, h)'
  <2>1. h \in 0..seq
    BY <1>7, <1>9
  <2>2. NoneSurvives(known, h)
    BY <1>3, <1>8
  <2> QED BY <1>6, <1>7, <2>1, <2>2, SurvivesMoves
<1>11. PICK p : p = Append(q, m)
  OBVIOUS
<1>12. /\ p \in Seq(Messages) /\ Len(p) = Len(q) + 1 /\ Len(q) \in Nat
       /\ \A j \in 1..Len(q) : p[j] = q[j]
  BY <1>11
<1>13. Continues(p, b, rd, h, w)'
  <2>1. Continues(q, b, rd, h, d)
    BY <1>3, <1>8
  <2>2. d \in SUBSET (1..items) /\ w \in SUBSET (d \cup {m.item})
    BY <1>7, <1>8
  <2>3. b \in 0..Len(q)
    BY <1>3, <1>12
  <2> QED BY <1>7, <1>9, <1>11, <2>1, <2>2, <2>3, ContinuesGrows
<1>14. b \in 1..Len(p) /\ p[b] = r /\ \A j \in 1..b-1 : j \in 1..Len(q) /\ p[j] = q[j]
  BY <1>1, <1>3, <1>12
<1>15. Before(p, b) = Before(q, b)
  BY <1>14 DEF Before
<1>16. \A j \in 1..b-1 : p[j].kind = "update" /\ p[j].item \in 1..items'
  <2>1. \A x \in 1..items : x \in 1..items'
    BY <1>7 DEF BufferMoves
  <2> QED BY <1>3, <1>14, <2>1
<1>17. /\ NoneSurvives(known, r.head)'
       /\ Continues(p, b, r.due, r.head, expected \ r.lost)'
  BY <1>8, <1>10, <1>13
<1>18. known = have \cup staged' \cup Before(p, b)
  BY <1>2, <1>15
<1>19. Completes(p, b, have)'
  BY <1>3, <1>14, <1>16, <1>17, <1>18 DEF Completes, Before
<1> QED BY <1>11, <1>19

-----------------------------------------------------------------------------
(* Each step of the buffer.                                                *)

LEMMA AgentUpdateKeeps ==
    ASSUME ReplayInv, NEW numbered \in BOOLEAN, AgentUpdate(numbered) PROVE ReplayInv'
<1>1. /\ ReplayTypes /\ Phases /\ ClientInv /\ missed = {} /\ stale \subseteq overtaken
      /\ \A g \in Range(history) : FrameOK(g)
  BY DEF ReplayInv
<1>2. items \in Nat /\ seq \in Nat
  BY <1>1 DEF ReplayTypes
<1>3. PICK n, s : n = (IF numbered THEN seq + 1 ELSE 0) /\ s = seq'
  OBVIOUS
<1>4. PICK f, m : /\ f = [item |-> items + 1, seq |-> n, user |-> FALSE,
                          promptID |-> NotAPrompt, gapBoundary |-> s + 1]
                  /\ m = [kind |-> "update", item |-> items + 1, seq |-> n]
  OBVIOUS
<1>5. /\ replay = NoReplay /\ items' = items + 1
      /\ seq' = IF numbered THEN n ELSE seq
      /\ AppendHistory(f)
      /\ expected' = expected \cup {items + 1}
      /\ outq' = IF bound THEN Append(outq, m) ELSE outq
      /\ UNCHANGED <<rejected, running, gone, bound, replay, drops, clientVars>>
  BY <1>3, <1>4 DEF AgentUpdate
<1>6. UNCHANGED <<asked, synced, held, staged, cursor, missed, stale, overtaken>>
  BY <1>5 DEF clientVars
<1>7. /\ n \in Nat /\ s = seq' /\ s \in Nat /\ seq' \in Nat /\ seq <= seq' /\ n <= s /\ s <= seq + 1
      /\ n = 0 \/ n > seq
      /\ (IF n = 0 THEN s + 1 ELSE n) = seq + 1
  BY <1>2, <1>3, <1>5
<1>8. /\ f \in Frames /\ f.item = items + 1 /\ f.promptID = NotAPrompt /\ f.seq = n
      /\ f.gapBoundary = s + 1 /\ Boundary(f) = seq + 1
      /\ m \in Messages /\ m.kind = "update" /\ m.item = items + 1 /\ m.seq = n
  <2>0. s \in Nat /\ n \in Nat
    BY <1>7, Zenon
  <2>1. items + 1 \in Nat /\ n \in Nat /\ s + 1 \in Nat /\ NotAPrompt \in Nat
    BY <1>2, <2>0 DEF NotAPrompt
  <2>2. f \in Frames
    BY <1>4, <2>1 DEF Frames
  <2>3. /\ f.item = items + 1 /\ f.promptID = NotAPrompt /\ f.seq = n
        /\ f.gapBoundary = s + 1
    BY <1>4
  <2>4. Boundary(f) = IF n = 0 THEN s + 1 ELSE n
    BY <2>3, Zenon DEF Boundary
  <2>5. m \in UpdateMsgs /\ m.kind = "update" /\ m.item = items + 1 /\ m.seq = n
    BY <1>4, <2>1 DEF UpdateMsgs
  <2>6. m \in Messages
    BY <2>5 DEF Messages
  <2> QED BY <1>7, <2>2, <2>3, <2>4, <2>5, <2>6
<1>9. /\ BufferMoves
      /\ history' \in Seq(Frames) /\ evicted' \in Nat /\ evicted' <= seq' + 1
      /\ \A g \in Range(history') : FrameOK(g)'
      /\ \A c \in Nat : c < Boundary(f) => evicted' > c \/ f \in Range(history')
      /\ running' \subseteq 1..items' /\ gone' \subseteq 1..items'
  <2>1. f.seq <= seq' /\ f.gapBoundary <= seq' + 1
    <3>1. f.seq = n /\ n <= s /\ f.gapBoundary = s + 1 /\ s = seq'
      BY <1>7, <1>8, Zenon
    <3>2. s \in Nat
      BY <1>7, Zenon
    <3>3. s + 1 <= s + 1
      BY <3>2
    <3> QED BY <3>1, <3>3, Zenon
  <2>2. running' = IF f.promptID = NotAPrompt THEN running ELSE running \cup {items + 1}
    BY <1>5, <1>8
  <2> QED BY <1>1, <1>5, <1>7, <1>8, <2>1, <2>2, AppendMoves
<1>10. \A e \in 0..seq : Told(m.item, e)'
  <2> PICK i : i = m.item
    OBVIOUS
  <2>0. f.item = i /\ f.promptID = NotAPrompt
    BY <1>8
  <2> SUFFICES ASSUME NEW e \in 0..seq PROVE Told(i, e)'
    OBVIOUS
  <2>1. e \in Nat /\ e < seq + 1 /\ Boundary(f) = seq + 1
    BY <1>2, <1>8
  <2>2. CASE evicted' > e
    BY <2>2 DEF Told
  <2>3. CASE f \in Range(history')
    <3>1. Boundary(f) > e
      BY <1>2, <2>1
    <3> QED BY <2>0, <2>3, <3>1 DEF Told, Boundary
  <2>4. e < Boundary(f)
    BY <2>1
  <2> QED BY <1>9, <2>1, <2>2, <2>3, <2>4
<1>11. m.seq = 0 \/ m.seq > seq
  BY <1>7, <1>8
<1>11a. IsLive(m)'
  <2>1. items + 1 \notin running \cup gone /\ items + 1 \in 1..items'
    BY <1>1, <1>2, <1>5 DEF ReplayTypes
  <2>2. running' = running /\ gone' = gone
    BY <1>5
  <2> QED BY <1>7, <1>8, <2>1, <2>2 DEF IsLive
<1>12. PICK q \in Seq(Messages) : q = Coming
  BY <1>1, ComingTyped
<1>13. outq = q
  <2>1. outq \in Seq(Messages) /\ replay = <<>>
    BY <1>1, <1>5 DEF ReplayTypes, NoReplay
  <2>2. outq \o <<>> = outq
    BY <2>1
  <2> QED BY <1>12, <2>1, <2>2 DEF Coming
<1>14. PICK p : p = Append(q, m)
  OBVIOUS
<1>15. p \in Seq(Messages) /\ Len(p) = Len(q) + 1 /\ p[Len(q) + 1] = m /\ Len(q) \in Nat
       /\ \A k \in 1..Len(q) : p[k] = q[k]
  BY <1>8, <1>14
<1>16. outq' = (IF bound THEN p ELSE q) /\ Coming' = outq'
  <2>1. outq' = IF bound THEN p ELSE q
    BY <1>5, <1>13, <1>14
  <2>2. outq' \in Seq(Messages) /\ replay' = <<>>
    BY <1>5, <1>15, <2>1 DEF NoReplay
  <2>3. outq' \o <<>> = outq'
    BY <2>2
  <2> QED BY <2>1, <2>2, <2>3 DEF Coming
<1>17. ReplayTypes'
  <2>1. \A r \in rejected : r[2] \in Nat /\ r[2] <= seq
    BY <1>1 DEF ReplayTypes
  <2>2. \A r \in rejected' : r[2] <= seq'
    BY <1>2, <1>5, <1>7, <2>1
  <2>3. held' \subseteq 1..items' /\ staged' \subseteq 1..items' /\ expected' \subseteq 1..items'
    BY <1>1, <1>2, <1>5, <1>6 DEF ReplayTypes
  <2>4. items' \in Nat /\ cursor' <= seq'
    BY <1>1, <1>2, <1>5, <1>6, <1>7 DEF ReplayTypes
  <2>5. outq' \in Seq(Messages)
    BY <1>15, <1>16
  <2> QED BY <1>1, <1>5, <1>6, <1>7, <1>9, <2>2, <2>3, <2>4, <2>5 DEF ReplayTypes
<1>18. Phases'
  <2>1. replay' = <<>>
    BY <1>5 DEF NoReplay
  <2>2. ~bound => outq' = outq
    BY <1>5
  <2> QED BY <1>1, <1>5, <1>6, <2>1, <2>2 DEF Phases
<1>19. /\ cursor \in 0..seq /\ cursor \in Nat
       /\ held \in SUBSET (1..items) /\ expected \in SUBSET (1..items)
       /\ staged \in SUBSET (1..items)
  BY <1>1 DEF ReplayTypes
<1>20. PICK h, c, e, w : h = held /\ c = cursor /\ e = expected /\ w = expected'
  OBVIOUS
<1>21. held' = h /\ cursor' = c /\ expected' = w /\ w = e \cup {m.item}
  BY <1>5, <1>6, <1>8, <1>20
<1>22. NoneSurvives(held, cursor)'
  <2>1. h \in SUBSET (1..items) /\ c \in 0..seq
    BY <1>19, <1>20
  <2>2. NoneSurvives(h, c)
    BY <1>1, <1>20 DEF ClientInv
  <2>3. NoneSurvives(h, c)'
    BY <1>2, <1>6, <1>9, <2>1, <2>2, SurvivesMoves
  <2> QED BY <1>21, <2>3
<1>23. \A i \in expected' \ held' : Told(i, cursor)'
  <2> SUFFICES ASSUME NEW i \in w \ h PROVE Told(i, c)'
    BY <1>21
  <2>1. CASE i = items + 1
    <3>1. c \in 0..seq
      BY <1>19, <1>20
    <3>2. Told(m.item, c)' /\ i = m.item
      BY <1>8, <1>10, <2>1, <3>1
    <3> QED BY <3>2
  <2>2. CASE i \in e
    <3>1. i \in 1..items /\ c \in Nat /\ Told(i, c)
      BY <1>1, <1>19, <1>20, <2>2 DEF ClientInv
    <3> QED BY <1>9, <3>1 DEF BufferMoves
  <2> QED BY <1>8, <1>21, <2>1, <2>2
<1>24. ASSUME synced PROVE Continues(Coming, 0, held, cursor, expected)'
  <2>1. Continues(q, 0, h, c, e)
    BY <1>1, <1>12, <1>20, <1>24 DEF ClientInv
  <2>2. e \in SUBSET (1..items) /\ c \in Nat /\ w \in SUBSET (e \cup {m.item}) /\ 0 \in 0..Len(q)
    BY <1>15, <1>19, <1>20, <1>21
  <2>3. Continues(p, 0, h, c, w)'
    <3>1. m \in Messages /\ BufferMoves
      BY <1>8, <1>9
    <3>2. Continues(Append(q, m), 0, h, c, w)'
      BY <1>2, <1>10, <1>11, <1>11a, <2>1, <2>2, <3>1, ContinuesGrows
    <3> QED BY <1>14, <3>2
  <2>4. Coming' = p
    BY <1>1, <1>16, <1>24 DEF Phases
  <2> QED BY <1>21, <2>3, <2>4
<1>25. ASSUME NEW k \in 1..Len(q), IsLive(q[k]) PROVE IsLive(q[k])'
  <2>1. PICK x \in Messages : x = q[k]
    OBVIOUS
  <2>2. IsLive(x)'
    BY <1>2, <1>9, <1>25, <2>1, LiveMoves
  <2> QED BY <2>1, <2>2
<1>26. \A k \in 1..Len(q) + 1 : k \in 1..Len(q) \/ k = Len(q) + 1
  BY <1>15
<1>27. ASSUME ~synced, asked \in {"none", "load"}
       PROVE  StagedIsLive' /\ \A k \in 1..Len(outq') : IsLive(outq[k])'
  <2>1. StagedIsLive /\ \A k \in 1..Len(q) : IsLive(q[k])
    BY <1>1, <1>13, <1>27 DEF ClientInv
  <2>2. StagedIsLive'
    BY <1>6, <1>9, <1>19, <2>1, StagedMoves
  <2>3. CASE ~bound
    BY <1>16, <1>25, <2>1, <2>2, <2>3
  <2>4. CASE bound
    <3>1. outq' = p
      BY <1>16, <2>4
    <3>2. ASSUME NEW k \in 1..Len(q) + 1 PROVE IsLive(p[k])'
      <4>1. CASE k \in 1..Len(q)
        BY <1>15, <1>25, <2>1, <4>1
      <4>2. CASE k = Len(q) + 1
        BY <1>11a, <1>15, <4>2
      <4> QED BY <1>26, <4>1, <4>2
    <3> QED BY <1>15, <2>2, <3>1, <3>2
  <2> QED BY <2>3, <2>4
<1>28. ASSUME NEW b \in 1..Len(q), GapAt(q, b) PROVE b \in 1..Len(p) /\ GapAt(p, b)'
  <2>1. /\ q[b].kind = "gap" /\ StagedIsLive
        /\ \A k \in 1..Len(q) : k # b => IsLive(q[k])
    BY <1>28 DEF GapAt
  <2>2. b \in 1..Len(p) /\ p[b] = q[b]
    BY <1>15
  <2>3. ASSUME NEW k \in 1..Len(p), k # b PROVE IsLive(p[k])'
    <3>1. CASE k \in 1..Len(q)
      BY <1>15, <1>25, <2>1, <2>3, <3>1
    <3>2. CASE k = Len(q) + 1
      BY <1>11a, <1>15, <3>2
    <3> QED BY <1>15, <1>26, <3>1, <3>2
  <2>4. StagedIsLive'
    BY <1>6, <1>9, <1>19, <2>1, StagedMoves
  <2> QED BY <2>1, <2>2, <2>3, <2>4 DEF GapAt
<1>29. ASSUME NEW b, NEW have \in SUBSET (1..items), Completes(q, b, have)
       PROVE  b \in 1..Len(p) /\ p[b] = q[b] /\ Completes(p, b, have)'
  <2>1. b \in 1..Len(q)
    BY <1>29 DEF Completes
  <2>2. Completes(p, b, have)'
    <3>1. /\ m \in Messages /\ BufferMoves /\ ReplayTypes
          /\ staged' = staged /\ overtaken' = overtaken
      BY <1>1, <1>6, <1>8, <1>9
    <3>2. expected' = expected \cup {m.item}
      BY <1>5, <1>8
    <3>3. Completes(Append(q, m), b, have)'
      BY <1>10, <1>11, <1>11a, <1>29, <3>1, <3>2, CompletesGrows
    <3> QED BY <1>14, <3>3
  <2> QED BY <1>15, <2>1, <2>2
<1>30. ASSUME asked = "catchup"
       PROVE  \E b \in 1..Len(Coming') :
                 \/ GapAt(Coming, b)'
                 \/ Coming'[b].kind = "caughtup" /\ Completes(Coming, b, held)'
  <2>1. PICK b \in 1..Len(q) : \/ GapAt(q, b)
                               \/ q[b].kind = "caughtup" /\ Completes(q, b, h)
    BY <1>1, <1>12, <1>20, <1>30 DEF ClientInv
  <2>2. Coming' = p
    BY <1>1, <1>16, <1>30 DEF Phases
  <2>3. /\ b \in 1..Len(p)
        /\ \/ GapAt(p, b)'
           \/ p[b].kind = "caughtup" /\ Completes(p, b, h)'
    <3>1. h \in SUBSET (1..items)
      BY <1>19, <1>20
    <3>2. CASE GapAt(q, b)
      <4>1. b \in 1..Len(p) /\ GapAt(p, b)'
        BY <1>28, <3>2
      <4> QED BY <4>1
    <3>3. CASE q[b].kind = "caughtup" /\ Completes(q, b, h)
      <4>1. b \in 1..Len(p) /\ p[b] = q[b] /\ Completes(p, b, h)'
        BY <1>29, <3>1, <3>3
      <4> QED BY <3>3, <4>1
    <3> QED BY <2>1, <3>2, <3>3
  <2> QED BY <1>21, <2>2, <2>3
<1>31. ASSUME asked = "loading"
       PROVE  \E b \in 1..Len(Coming') :
                 Coming'[b].kind = "loaded" /\ Completes(Coming, b, {})'
  <2>1. PICK b \in 1..Len(q) : q[b].kind = "loaded" /\ Completes(q, b, {})
    BY <1>1, <1>12, <1>31 DEF ClientInv
  <2>2. Coming' = p
    BY <1>1, <1>16, <1>31 DEF Phases
  <2>3. b \in 1..Len(p) /\ p[b].kind = "loaded" /\ Completes(p, b, {})'
    BY <1>29, <2>1
  <2> QED BY <2>2, <2>3
<1>32. ClientInv'
  BY <1>6, <1>22, <1>23, <1>24, <1>27, <1>30, <1>31 DEF ClientInv
<1> QED BY <1>1, <1>6, <1>9, <1>17, <1>18, <1>32 DEF ReplayInv

\* A step of the buffer alone.
LEMMA BufferKeeps ==
    ASSUME ReplayInv, BufferMoves, history' \in Seq(Frames),
           \A g \in Range(history') : FrameOK(g)',
           rejected' \subseteq Nat \X Nat, \A r \in rejected' : r[2] <= seq',
           running' \subseteq 1..items, gone' \subseteq 1..items,
           UNCHANGED <<evicted, items, expected, bound, outq, replay, clientVars>>
    PROVE  ReplayInv'
<1>1. /\ ReplayTypes /\ Phases /\ ClientInv /\ missed = {} /\ stale \subseteq overtaken
  BY DEF ReplayInv
<1>2. UNCHANGED <<asked, synced, held, staged, cursor, missed, stale, overtaken>>
  BY DEF clientVars
<1>3. seq \in Nat /\ seq' \in Nat /\ seq <= seq'
  BY <1>1 DEF ReplayTypes, BufferMoves
<1>4. cursor' <= seq' /\ evicted' <= seq' + 1
  <2>1. PICK s \in Nat : s = seq'
    BY <1>3
  <2>2. cursor \in Nat /\ cursor <= seq /\ evicted \in Nat /\ evicted <= seq + 1
    BY <1>1 DEF ReplayTypes
  <2>3. cursor <= s /\ evicted <= s + 1
    <3>1. seq <= s
      BY <1>3, <2>1
    <3> QED BY <1>3, <2>2, <3>1
  <2> QED BY <1>2, <2>1, <2>3
<1>5. ReplayTypes'
  BY <1>1, <1>2, <1>3, <1>4 DEF ReplayTypes
<1>6. Phases'
  BY <1>1, <1>2 DEF Phases
<1>7. ClientInv'
  <2>1. Coming' = Coming
    BY <1>2 DEF Coming
  <2> QED BY <1>1, <1>2, <2>1, ClientWaits
<1> QED BY <1>1, <1>2, <1>5, <1>6, <1>7 DEF ReplayInv

\* The prompt ends and its message stays.
LEMMA PromptEnds ==
    ASSUME ReplayInv, NEW p, running' = running \ {p},
           UNCHANGED <<bufVars, items, gone, expected, bound, outq, replay, clientVars>>
    PROVE  ReplayInv'
<1>1. ReplayTypes /\ \A g \in Range(history) : FrameOK(g)
  BY DEF ReplayInv
<1>2. UNCHANGED <<history, seq, evicted, rejected>>
  BY DEF bufVars
<1>3. BufferMoves
  <2>1. \A i \in 1..items, c \in Nat : Told(i, c) => Told(i, c)'
    BY <1>2 DEF Told
  <2>2. \A c \in Nat : Barred(c) => Barred(c)'
    BY <1>2 DEF Barred
  <2>3. seq' \in Nat /\ seq <= seq' /\ items' \in Nat /\ items <= items'
    BY <1>1, <1>2 DEF ReplayTypes
  <2> QED BY <1>2, <2>1, <2>2, <2>3 DEF BufferMoves
<1>4. \A g \in Range(history') : FrameOK(g)'
  BY <1>1, <1>2 DEF FrameOK
<1>5. /\ history' \in Seq(Frames) /\ rejected' \subseteq Nat \X Nat /\ \A r \in rejected' : r[2] <= seq'
      /\ running' \subseteq 1..items /\ gone' \subseteq 1..items
  BY <1>1, <1>2 DEF ReplayTypes
<1>6. evicted' = evicted
  BY <1>2
<1> QED BY <1>3, <1>4, <1>5, <1>6, BufferKeeps

LEMMA FinishKeeps == ASSUME ReplayInv, NEW p, Finish(p) PROVE ReplayInv'
  BY PromptEnds DEF Finish

\* The cursors the buffer refuses after it took back the message numbered n.
LEMMA InvalidatedBars ==
    ASSUME ReplayTypes, NEW n \in Nat
    PROVE  /\ Invalidated(n) \subseteq Nat \X Nat
           /\ \A r \in Invalidated(n) : r[2] <= seq
           /\ \A c \in Nat : Barred(c) \/ (n <= c /\ c <= seq) =>
                  c < evicted \/ \E r \in Invalidated(n) : r[1] <= c /\ c <= r[2]
<1>1. /\ rejected \subseteq Nat \X Nat /\ \A r \in rejected : r[2] <= seq
      /\ seq \in Nat /\ evicted \in Nat
  BY DEF ReplayTypes
<1>2. PICK current, touched :
          /\ current = {r \in rejected : r[2] >= evicted}
          /\ touched = {r \in current : r[2] + 1 >= n}
  OBVIOUS
<1>3. PICK lows : lows = {n} \cup {r[1] : r \in touched}
  OBVIOUS
<1>4. PICK low : low = Min(lows)
  OBVIOUS
<1>5. Invalidated(n) = (current \ touched) \cup {<<low, seq>>}
  BY <1>2, <1>3, <1>4, Zenon DEF Invalidated
<1>6. low \in Nat /\ \A x \in lows : low <= x
  <2>1. lows \in SUBSET Nat /\ lows # {}
    BY <1>1, <1>2, <1>3
  <2> QED BY <1>4, <2>1, LeastOfNaturals
<1>7. Invalidated(n) \subseteq Nat \X Nat /\ \A r \in Invalidated(n) : r[2] <= seq
  BY <1>1, <1>2, <1>5, <1>6
<1>8. ASSUME NEW c \in Nat, low <= c, c <= seq
      PROVE  \E r \in Invalidated(n) : r[1] <= c /\ c <= r[2]
  <2>1. PICK r : r = <<low, seq>>
    OBVIOUS
  <2>2. r[1] = low /\ r[2] = seq /\ r \in Invalidated(n)
    BY <1>5, <2>1
  <2> QED BY <1>8, <2>2
<1>9. ASSUME NEW c \in Nat, Barred(c) \/ (n <= c /\ c <= seq)
      PROVE  c < evicted \/ \E r \in Invalidated(n) : r[1] <= c /\ c <= r[2]
  <2>1. CASE c < evicted
    BY <2>1
  <2>2. CASE n <= c /\ c <= seq
    <3>1. low <= c
      BY <1>3, <1>6, <2>2
    <3> QED BY <1>8, <2>2, <3>1
  <2>3. ASSUME NEW r \in rejected, r[1] <= c, c <= r[2], ~(c < evicted)
        PROVE  \E x \in Invalidated(n) : x[1] <= c /\ c <= x[2]
    <3>1. r[1] \in Nat /\ r[2] \in Nat /\ r[2] <= seq
      BY <1>1
    <3>2. r \in current
      BY <1>1, <1>2, <2>3, <3>1
    <3>3. CASE r \in touched
      <4>1. r[1] \in lows
        BY <1>3, <3>3
      <4>2. low <= r[1]
        BY <1>6, <4>1
      <4>3. low <= c /\ c <= seq
        BY <1>1, <1>6, <2>3, <3>1, <4>2
      <4> QED BY <1>8, <4>3
    <3>4. CASE r \notin touched
      BY <1>5, <2>3, <3>2, <3>4
    <3> QED BY <3>3, <3>4
  <2> QED BY <1>9, <2>1, <2>2, <2>3 DEF Barred
<1> QED BY <1>7, <1>9

LEMMA RejectKeeps == ASSUME ReplayInv, NEW p, Reject(p) PROVE ReplayInv'
<1>1. ReplayTypes /\ \A g \in Range(history) : FrameOK(g)
  BY DEF ReplayInv
<1>2. /\ p \in running /\ running' = running \ {p}
      /\ UNCHANGED <<evicted, items, expected, bound, outq, replay, drops, clientVars>>
  BY DEF Reject
<1>3. CASE ~Forgettable(p)
  <2>1. UNCHANGED <<history, rejected, seq, gone>>
    BY <1>3 DEF Reject
  <2> QED BY <1>2, <2>1, PromptEnds DEF bufVars
<1>4. CASE Forgettable(p)
  <2>1. PICK f, gap : /\ f = CHOOSE x \in Range(history) : x.promptID = p
                      /\ gap = {x \in Range(history) : x.promptID = p}
    OBVIOUS
  <2>2. /\ history' = Without(history, gap)
        /\ rejected' = Invalidated(f.seq)
        /\ seq' = seq + 1
        /\ gone' = gone \cup {p}
    BY <1>4, <2>1 DEF Reject, ReservedHead
  <2>3. /\ history \in Seq(Frames) /\ items \in Nat /\ seq \in Nat /\ evicted \in Nat
        /\ running \subseteq 1..items /\ gone \subseteq 1..items
    BY <1>1 DEF ReplayTypes
  <2>4. f \in Range(history) /\ f.promptID = p
    <3>1. \E x \in Range(history) : x.promptID = p
      BY <1>4 DEF Forgettable, Range
    <3> QED BY <2>1, <3>1
  <2>5. DOMAIN history = 1..Len(history) /\ \A g \in Range(history) : g \in Frames
    BY <2>3 DEF Range
  <2>6. f.seq \in Nat
    BY <2>4, <2>5 DEF Frames
  <2>7. /\ history' \in Seq(Frames)
        /\ \A g : g \in Range(history') <=> g \in Range(history) /\ g.promptID # p
    <3>1. PICK h : h = Without(history, gap)
      OBVIOUS
    <3>2. /\ h \in Seq(Frames)
          /\ \A g : (\E j \in 1..Len(h) : h[j] = g)
                       <=> g \notin gap /\ \E i \in 1..Len(history) : history[i] = g
      BY <2>3, <3>1, WithoutKeeps
    <3>3. \A g : g \in Range(h) <=> \E j \in 1..Len(h) : h[j] = g
      BY <3>2 DEF Range
    <3>4. \A g : g \in Range(history) <=> \E j \in 1..Len(history) : history[j] = g
      BY <2>5 DEF Range
    <3>5. \A g : g \in Range(h) <=> g \in Range(history) /\ g.promptID # p
      BY <2>1, <3>2, <3>3, <3>4
    <3> QED BY <2>2, <3>1, <3>2, <3>5
  <2>8. p \in 1..items /\ p # NotAPrompt
    <3>1. p \in 1..items
      BY <1>2, <2>3
    <3> QED BY <2>3, <3>1 DEF NotAPrompt
  <2>9. /\ rejected' \subseteq Nat \X Nat
        /\ \A r \in rejected' : r[2] \in Nat /\ r[2] <= seq
        /\ \A c \in Nat : Barred(c) \/ (f.seq <= c /\ c <= seq) =>
               c < evicted \/ \E r \in rejected' : r[1] <= c /\ c <= r[2]
    <3>1. PICK bars : bars = Invalidated(f.seq)
      OBVIOUS
    <3>2. /\ bars \subseteq Nat \X Nat
          /\ \A r \in bars : r[2] <= seq
          /\ \A c \in Nat : Barred(c) \/ (f.seq <= c /\ c <= seq) =>
                 c < evicted \/ \E r \in bars : r[1] <= c /\ c <= r[2]
      BY <1>1, <2>6, <3>1, InvalidatedBars
    <3>3. rejected' = bars /\ \A r \in bars : r[2] \in Nat
      BY <2>2, <3>1, <3>2
    <3> QED BY <3>2, <3>3
  <2>10. evicted' = evicted /\ items' = items
    BY <1>2
  <2>11. \A c \in Nat : Barred(c) \/ (f.seq <= c /\ c <= seq) => Barred(c)'
    BY <2>9, <2>10 DEF Barred
  <2>12. ASSUME NEW i \in 1..items, NEW c \in Nat, Told(i, c) PROVE Told(i, c)'
    <3>1. CASE evicted > c
      BY <2>10, <3>1 DEF Told
    <3>2. CASE ~(evicted > c)
      <4>1. PICK g \in Range(history) :
                g.item = i /\ g.promptID = NotAPrompt /\ Boundary(g) > c
        BY <2>12, <3>2 DEF Told
      <4>2. g \in Range(history')
        BY <2>7, <2>8, <4>1
      <4> QED BY <4>1, <4>2 DEF Told, Boundary
    <3> QED BY <3>1, <3>2
  <2>13. BufferMoves
    <3>1. seq' \in Nat /\ seq <= seq' /\ items' \in Nat /\ items <= items'
      BY <2>2, <2>3, <2>10
    <3>2. \A x \in 1..items : x \in running' \cup gone' => x \in running \cup gone
      BY <1>2, <2>2
    <3>3. \A x \in 1..items : x \in running' =>
              x \in running /\ \A g \in Range(history') : g.promptID = x => g \in Range(history)
      BY <1>2, <2>7
    <3>4. ASSUME NEW x \in 1..items, NEW c \in 0..seq, x \in gone' \ gone
          PROVE  /\ x \in running
                 /\ (\A g \in Range(history) : g.promptID = x => g.seq <= c) => Barred(c)'
      <4>1. x = p
        BY <2>2, <3>4
      <4>2. c \in Nat /\ c <= seq
        BY <2>3
      <4> QED BY <1>2, <2>4, <2>11, <4>1, <4>2
    <3> QED BY <2>11, <2>12, <3>1, <3>2, <3>3, <3>4 DEF BufferMoves
  <2>14. ASSUME NEW g \in Range(history') PROVE FrameOK(g)'
    <3>1. g \in Range(history) /\ g.promptID # p
      BY <2>7
    <3>2. /\ g.item \in 1..items /\ g.seq <= seq /\ g.gapBoundary <= seq + 1
          /\ g.promptID \in {NotAPrompt, g.item} /\ g.item \notin gone
          /\ g.promptID = NotAPrompt => g.item \notin running
          /\ g.seq \in Nat /\ g.gapBoundary \in Nat
      BY <1>1, <2>5, <3>1 DEF FrameOK, Frames
    <3>3. g.item # p
      BY <1>2, <3>1, <3>2
    <3>4. g.seq <= seq' /\ g.gapBoundary <= seq' + 1
      BY <2>2, <2>3, <3>2
    <3> QED BY <1>2, <2>2, <2>10, <3>2, <3>3, <3>4 DEF FrameOK
  <2>15. \A r \in rejected' : r[2] <= seq'
    BY <2>2, <2>3, <2>9
  <2>16. running' \subseteq 1..items /\ gone' \subseteq 1..items
    BY <1>2, <2>2, <2>3, <2>8
  <2> QED BY <1>2, <2>7, <2>9, <2>13, <2>14, <2>15, <2>16, BufferKeeps
<1> QED BY <1>3, <1>4

-----------------------------------------------------------------------------
(* Each step of the client.                                                *)

\* A step that neither moves the client's cursor nor the buffer.
LEMMA CursorWaits ==
    ASSUME ReplayTypes, ClientInv,
           UNCHANGED <<history, seq, evicted, rejected, items, running, gone>>,
           UNCHANGED <<held, cursor, overtaken, expected>>
    PROVE  /\ BufferMoves
           /\ NoneSurvives(held, cursor)'
           /\ \A i \in expected' \ held' : Told(i, cursor)'
<1>1. BufferMoves
  BY QuietMoves
<1>2. NoneSurvives(held, cursor)' <=> NoneSurvives(held, cursor)
  BY DEF NoneSurvives, Barred
<1>3. \A i : Told(i, cursor)' <=> Told(i, cursor)
  BY DEF Told
<1> QED BY <1>1, <1>2, <1>3 DEF ClientInv

LEMMA ReattachKeeps == ASSUME ReplayInv, Reattach PROVE ReplayInv'
<1>1. /\ ReplayTypes /\ Phases /\ ClientInv /\ missed = {} /\ stale \subseteq overtaken
      /\ \A g \in Range(history) : FrameOK(g)
  BY DEF ReplayInv
<1>2. /\ bound' = TRUE
      /\ UNCHANGED <<history, seq, evicted, rejected, items, running, gone>>
      /\ UNCHANGED <<asked, synced, held, staged, cursor, overtaken, expected>>
      /\ UNCHANGED <<outq, replay, missed, stale>>
  BY DEF Reattach, bufVars, convVars, clientVars
<1>3. ReplayTypes'
  BY <1>1, <1>2 DEF ReplayTypes
<1>4. Phases'
  BY <1>1, <1>2 DEF Phases
<1>5. BufferMoves /\ Coming' = Coming
  BY <1>1, <1>2, QuietMoves DEF Coming
<1>6. ClientInv'
  BY <1>1, <1>2, <1>5, ClientWaits
<1>7. \A g \in Range(history') : FrameOK(g)'
  BY <1>1, <1>2 DEF FrameOK
<1> QED BY <1>1, <1>2, <1>3, <1>4, <1>6, <1>7 DEF ReplayInv

LEMMA DropKeeps == ASSUME ReplayInv, Drop PROVE ReplayInv'
<1>1. /\ ReplayTypes /\ Phases /\ ClientInv /\ missed = {} /\ stale \subseteq overtaken
      /\ \A g \in Range(history) : FrameOK(g)
  BY DEF ReplayInv
<1>2. /\ bound' = FALSE /\ outq' = <<>> /\ synced' = FALSE /\ asked' = "none" /\ staged' = {}
      /\ UNCHANGED <<history, seq, evicted, rejected, items, running, gone>>
      /\ UNCHANGED <<held, cursor, overtaken, expected>>
      /\ UNCHANGED <<replay, missed, stale>>
  BY DEF Drop, bufVars, convVars
<1>3. ReplayTypes'
  <2>1. <<>> \in Seq(Messages)
    OBVIOUS
  <2> QED BY <1>1, <1>2, <2>1 DEF ReplayTypes
<1>4. Phases'
  BY <1>2 DEF Phases
<1>5. ClientInv'
  <2>1. /\ NoneSurvives(held, cursor)'
        /\ \A i \in expected' \ held' : Told(i, cursor)'
    BY <1>1, <1>2, CursorWaits
  <2>2. StagedIsLive' /\ \A k \in 1..Len(outq') : IsLive(outq[k])'
    BY <1>2 DEF StagedIsLive
  <2>3. asked' # "catchup" /\ asked' # "loading" /\ ~synced'
    BY <1>2
  <2> QED BY <2>1, <2>2, <2>3 DEF ClientInv
<1>6. \A g \in Range(history') : FrameOK(g)'
  BY <1>1, <1>2 DEF FrameOK
<1> QED BY <1>1, <1>2, <1>3, <1>4, <1>5, <1>6 DEF ReplayInv

LEMMA LoadForwardKeeps == ASSUME ReplayInv, LoadForward PROVE ReplayInv'
<1>1. /\ ReplayTypes /\ Phases /\ ClientInv /\ missed = {} /\ stale \subseteq overtaken
      /\ \A g \in Range(history) : FrameOK(g)
  BY DEF ReplayInv
<1>2. /\ replay # <<>> /\ replay' = <<>>
      /\ outq' = IF bound /\ asked = "loading" THEN outq \o replay ELSE outq
      /\ UNCHANGED <<history, seq, evicted, rejected, items, running, gone>>
      /\ UNCHANGED <<asked, synced, held, staged, cursor, overtaken, expected>>
      /\ UNCHANGED <<bound, missed, stale>>
  BY DEF LoadForward, bufVars, convVars, clientVars, NoReplay
<1>3. outq \in Seq(Messages) /\ replay \in Seq(Messages) /\ <<>> \in Seq(Messages)
  BY <1>1 DEF ReplayTypes
<1>4. outq' \in Seq(Messages)
  BY <1>2, <1>3
<1>5. ReplayTypes'
  BY <1>1, <1>2, <1>3, <1>4 DEF ReplayTypes
<1>6. Phases'
  BY <1>1, <1>2 DEF Phases
<1>7. Coming' = Coming
  <2>1. outq' \o <<>> = outq'
    BY <1>4
  <2>2. asked = "loading" => bound
    BY <1>1 DEF Phases
  <2> QED BY <1>2, <2>1, <2>2 DEF Coming
<1>8. ClientInv'
  <2>1. BufferMoves
    BY <1>1, <1>2, QuietMoves
  <2> QED BY <1>1, <1>2, <1>7, <2>1, ClientWaits
<1>9. \A g \in Range(history') : FrameOK(g)'
  BY <1>1, <1>2 DEF FrameOK
<1> QED BY <1>1, <1>2, <1>5, <1>6, <1>8, <1>9 DEF ReplayInv

\* A replay of frames behind what is queued, and its reply.
LEMMA ReplyCompletes ==
    ASSUME ReplayTypes, \A g \in Range(history) : FrameOK(g), StagedIsLive,
           \A k \in 1..Len(outq) : IsLive(outq[k]),
           NEW frames \in Seq(Frames), Range(frames) \subseteq Range(history),
           NEW kind \in {"caughtup", "loaded"}, NEW have \in SUBSET (1..items),
           have \cap gone \subseteq overtaken,
           NEW due \in SUBSET expected, due \subseteq have \cup ItemsOf(frames)
    PROVE  LET r == Append(Updates(frames), Reply(kind, due))
               q == outq \o r
           IN  /\ r \in Seq(Messages) /\ r # <<>> /\ q \in Seq(Messages)
               /\ Len(q) \in 1..Len(q) /\ q[Len(q)].kind = kind
               /\ Completes(q, Len(q), have)
<1>1. /\ outq \in Seq(Messages) /\ items \in Nat /\ seq \in Nat
      /\ staged \subseteq 1..items /\ expected \subseteq 1..items /\ gone \subseteq 1..items
      /\ history \in Seq(Frames)
  BY DEF ReplayTypes
<1>2. PICK u, m : u = Updates(frames) /\ m = Reply(kind, due)
  OBVIOUS
<1>3. PICK r, q : r = Append(u, m) /\ q = outq \o r
  OBVIOUS
<1>4. PICK n, l : n = Len(frames) /\ l = Len(outq)
  OBVIOUS
<1>5. n \in Nat /\ l \in Nat /\ DOMAIN frames = 1..n
  BY <1>1, <1>4
<1>6. \A k \in 1..n : frames[k] \in Range(history) /\ frames[k] \in Frames
  <2>1. \A k \in 1..n : frames[k] \in Range(frames)
    BY <1>5 DEF Range
  <2>2. \A k \in 1..Len(frames) : frames[k] \in Frames
    OBVIOUS
  <2> QED BY <1>4, <2>1, <2>2
<1>7. ASSUME NEW k \in 1..n
      PROVE  /\ u[k].kind = "update" /\ u[k].item = frames[k].item /\ u[k] \in Messages
             /\ u[k].item \in 1..items /\ u[k].item \notin gone
  <2>1. FrameOK(frames[k]) /\ frames[k] \in Frames
    BY <1>6
  <2>2. /\ frames[k].item \in 1..items /\ frames[k].item \notin gone
        /\ frames[k].item \in Nat /\ frames[k].seq \in Nat
    BY <2>1 DEF FrameOK, Frames
  <2>3. u[k] = [kind |-> "update", item |-> frames[k].item, seq |-> frames[k].seq]
    BY <1>2, <1>5 DEF Updates
  <2>4. u[k] \in UpdateMsgs
    BY <2>2, <2>3 DEF UpdateMsgs
  <2> QED BY <2>2, <2>3, <2>4 DEF Messages
<1>8. u \in Seq(Messages) /\ Len(u) = n
  <2>1. u = [k \in 1..n |-> u[k]]
    BY <1>2, <1>5 DEF Updates
  <2>2. \A k \in 1..n : u[k] \in Messages
    BY <1>7
  <2> QED BY <1>5, <2>1, <2>2
<1>9. /\ m.kind = kind /\ m.head = seq /\ m.due = due /\ m.lost = expected \ due /\ m.gone = gone
      /\ m \in Messages
  <2>1. m = [kind |-> kind, head |-> seq, due |-> due, lost |-> expected \ due, gone |-> gone]
    BY <1>2 DEF Reply
  <2>2. \A x \in 1..items : x \in Nat
    OBVIOUS
  <2>3. due \subseteq Nat /\ expected \ due \subseteq Nat /\ gone \subseteq Nat
    BY <1>1, <2>2
  <2>4. m \in ReplyMsgs
    BY <1>1, <2>1, <2>3 DEF ReplyMsgs
  <2> QED BY <2>1, <2>4 DEF Messages
<1>10. /\ r \in Seq(Messages) /\ Len(r) = n + 1 /\ r[n + 1] = m
       /\ \A k \in 1..n : r[k] = u[k]
  BY <1>3, <1>8, <1>9
<1>11. r # <<>>
  BY <1>5, <1>10
<1>12. /\ q \in Seq(Messages) /\ Len(q) = l + n + 1
       /\ \A k \in 1..l : q[k] = outq[k]
       /\ \A k \in 1..n + 1 : q[l + k] = r[k]
  <2>1. /\ q \in Seq(Messages) /\ Len(q) = Len(outq) + Len(r)
        /\ \A i \in 1..Len(outq) + Len(r) :
               q[i] = IF i <= Len(outq) THEN outq[i] ELSE r[i - Len(outq)]
    BY <1>1, <1>3, <1>10, ConcatProperties
  <2>2. Len(q) = l + n + 1
    BY <1>4, <1>5, <1>10, <2>1
  <2>3. ASSUME NEW k \in 1..l PROVE q[k] = outq[k]
    <3>1. k \in 1..Len(outq) + Len(r) /\ k <= Len(outq)
      BY <1>4, <1>5, <1>10
    <3> QED BY <2>1, <3>1
  <2>4. ASSUME NEW k \in 1..n + 1 PROVE q[l + k] = r[k]
    <3>1. PICK i : i = l + k
      OBVIOUS
    <3>2. i \in 1..Len(outq) + Len(r) /\ ~(i <= Len(outq)) /\ i - Len(outq) = k
      BY <1>4, <1>5, <1>10, <3>1
    <3>3. q[i] = r[i - Len(outq)]
      BY <2>1, <3>2
    <3>4. q[i] = r[k]
      BY <3>2, <3>3, Zenon
    <3> QED BY <3>1, <3>4, Zenon
  <2> QED BY <2>1, <2>2, <2>3, <2>4
<1>13. PICK b : b = Len(q)
  OBVIOUS
<1>14. b \in 1..Len(q) /\ b = l + n + 1 /\ b \in Nat /\ q[b] = m
  <2>1. n + 1 \in 1..n + 1 /\ l + (n + 1) = l + n + 1
    BY <1>5
  <2> QED BY <1>5, <1>10, <1>12, <1>13, <2>1
<1>15. ASSUME NEW j \in 1..b-1
       PROVE  q[j].kind = "update" /\ q[j].item \in 1..items /\ q[j].item \notin gone
  <2>1. CASE j <= l
    <3>1. j \in 1..l /\ q[j] = outq[j]
      BY <1>5, <1>12, <1>14, <2>1
    <3>2. IsLive(outq[j])
      BY <1>4, <3>1
    <3> QED BY <3>1, <3>2 DEF IsLive
  <2>2. CASE ~(j <= l)
    <3>1. PICK k : k = j - l
      OBVIOUS
    <3>2. k \in 1..n /\ k \in 1..n + 1 /\ j = l + k
      BY <1>5, <1>14, <2>2, <3>1
    <3>3. q[j] = u[k]
      BY <1>10, <1>12, <3>2
    <3> QED BY <1>7, <3>2, <3>3
  <2> QED BY <2>1, <2>2
<1>16. PICK known : known = have \cup staged \cup Before(q, b)
  OBVIOUS
<1>17. Before(q, b) \subseteq 1..items /\ Before(q, b) \cap gone = {}
  BY <1>15 DEF Before
<1>18. due \subseteq known
  <2> SUFFICES ASSUME NEW i \in ItemsOf(frames) PROVE i \in Before(q, b)
    BY <1>16
  <2>1. PICK k \in 1..n : i = frames[k].item
    BY <1>5 DEF ItemsOf
  <2>2. u[k].item = i
    BY <1>7, <2>1
  <2>3. k \in 1..n + 1 /\ l + k \in 1..b-1
    BY <1>5, <1>14
  <2>4. q[l + k].item = i
    BY <1>10, <1>12, <2>2, <2>3
  <2> QED BY <2>3, <2>4 DEF Before
<1>19. known \cap gone \subseteq overtaken
  BY <1>16, <1>17 DEF StagedIsLive
<1>20. NoneSurvives(known, seq)
  BY <1>19 DEF NoneSurvives, FrameOK
<1>21. Continues(q, b, due, seq, expected \ (expected \ due))
  <2>1. ASSUME NEW k \in b+1..Len(q) PROVE FALSE
    BY <1>13, <1>14
  <2>2. (expected \ (expected \ due)) \ due = {}
    OBVIOUS
  <2>3. seq <= seq
    BY <1>1
  <2> QED BY <2>1, <2>2, <2>3 DEF Continues
<1>22. Completes(q, b, have)
  BY <1>9, <1>14, <1>15, <1>16, <1>18, <1>19, <1>20, <1>21 DEF Completes
<1>23. q[b].kind = kind
  BY <1>9, <1>14
<1> QED BY <1>2, <1>3, <1>10, <1>11, <1>12, <1>13, <1>14, <1>22, <1>23

\* The frames past the cursor fill the gap of a client, if the buffer says so.
LEMMA CatchUpFills ==
    ASSUME ReplayTypes, ClientInv, ~Gap(cursor)
    PROVE  /\ After(cursor) \in Seq(Frames) /\ Range(After(cursor)) \subseteq Range(history)
           /\ expected \subseteq held \cup ItemsOf(After(cursor))
           /\ held \cap gone \subseteq overtaken
<1>1. history \in Seq(Frames) /\ cursor \in Nat /\ evicted \in Nat /\ expected \subseteq 1..items
  BY DEF ReplayTypes
<1>2. DOMAIN history = 1..Len(history) /\ \A g \in Range(history) : g \in Frames
  BY <1>1 DEF Range
<1>3. PICK old, rest : /\ old = {f \in Range(history) : f.seq <= cursor}
                       /\ rest = Without(history, old)
  OBVIOUS
<1>4. rest = After(cursor)
  BY <1>3 DEF After
<1>5. /\ rest \in Seq(Frames)
      /\ \A g : g \in Range(rest) <=> g \in Range(history) /\ ~(g.seq <= cursor)
  <2>1. /\ rest \in Seq(Frames)
        /\ \A g : (\E j \in 1..Len(rest) : rest[j] = g)
                     <=> g \notin old /\ \E i \in 1..Len(history) : history[i] = g
    <3>1. history \in Seq(Frames) /\ rest = Without(history, old)
      BY <1>1, <1>3, Zenon
    <3> QED BY <3>1, WithoutKeeps
  <2>2. \A g : g \in Range(rest) <=> \E j \in 1..Len(rest) : rest[j] = g
    BY <2>1 DEF Range
  <2>3. \A g : g \in Range(history) <=> \E j \in 1..Len(history) : history[j] = g
    BY <1>2 DEF Range
  <2> QED BY <1>3, <2>1, <2>2, <2>3
<1>6. /\ ~(cursor < evicted) /\ ~Barred(cursor)
      /\ \A g \in Range(history) : g.seq = 0 => ~(g.gapBoundary > cursor)
  <2>1. \A g \in Range(history) : \E k \in DOMAIN history : g = history[k]
    BY DEF Range
  <2> QED BY <2>1 DEF Gap, Barred
<1>7. ASSUME NEW i \in expected \ held PROVE i \in ItemsOf(rest)
  <2>1. Told(i, cursor)
    BY DEF ClientInv
  <2>2. PICK g \in Range(history) :
            g.item = i /\ g.promptID = NotAPrompt /\ Boundary(g) > cursor
    BY <1>1, <1>6, <2>1 DEF Told
  <2>3. g.seq \in Nat /\ g.gapBoundary \in Nat
    BY <1>2 DEF Frames
  <2>4. ~(g.seq <= cursor)
    BY <1>1, <1>6, <2>2, <2>3 DEF Boundary
  <2>5. g \in Range(rest)
    BY <1>5, <2>4
  <2> QED BY <2>2, <2>5 DEF Range, ItemsOf
<1>8. held \cap gone \subseteq overtaken
  BY <1>6 DEF ClientInv, NoneSurvives
<1> QED BY <1>4, <1>5, <1>7, <1>8

LEMMA AskCatchUpKeeps == ASSUME ReplayInv, AskCatchUp PROVE ReplayInv'
<1>1. /\ ReplayTypes /\ Phases /\ ClientInv /\ missed = {} /\ stale \subseteq overtaken
      /\ \A g \in Range(history) : FrameOK(g)
  BY DEF ReplayInv
<1>2. /\ bound /\ ~synced /\ asked = "none" /\ asked' = "catchup"
      /\ outq' = outq \o (IF Gap(cursor) THEN <<Reply("gap", expected)>>
                          ELSE Append(Updates(After(cursor)), Reply("caughtup", expected)))
      /\ UNCHANGED <<history, seq, evicted, rejected, items, running, gone>>
      /\ UNCHANGED <<held, cursor, overtaken, expected>>
      /\ UNCHANGED <<bound, synced, staged, replay, missed, stale>>
  BY DEF AskCatchUp, bufVars, convVars
<1>3. StagedIsLive /\ \A k \in 1..Len(outq) : IsLive(outq[k])
  BY <1>1, <1>2 DEF ClientInv
<1>4. outq \in Seq(Messages) /\ items \in Nat /\ held \in SUBSET (1..items)
  BY <1>1 DEF ReplayTypes
<1>5. PICK h, e, q : h = held /\ e = expected /\ q = outq'
  OBVIOUS
<1>6. Coming' = q
  BY <1>2, <1>5 DEF Coming
<1>7. BufferMoves
  BY <1>1, <1>2, QuietMoves
<1>8. /\ q \in Seq(Messages)
      /\ \E b \in 1..Len(q) : \/ GapAt(q, b)'
                              \/ q[b].kind = "caughtup" /\ Completes(q, b, h)'
  <2>1. CASE Gap(cursor)
    <3>1. PICK m : m = Reply("gap", expected)
      OBVIOUS
    <3>2. q = outq \o <<m>>
      BY <1>2, <1>5, <2>1, <3>1
    <3>3. m.kind = "gap" /\ m \in Messages
      <4>1. m = [kind |-> "gap", head |-> seq, due |-> expected,
                 lost |-> expected \ expected, gone |-> gone]
        BY <3>1 DEF Reply
      <4>2. \A x \in 1..items : x \in Nat
        BY <1>4
      <4>3. seq \in Nat /\ expected \subseteq Nat /\ expected \ expected \subseteq Nat /\ gone \subseteq Nat
        BY <1>1, <4>2 DEF ReplayTypes
      <4>4. m \in ReplyMsgs
        BY <4>1, <4>3 DEF ReplyMsgs
      <4> QED BY <4>1, <4>4 DEF Messages
    <3>4. PICK l : l = Len(outq)
      OBVIOUS
    <3>5. /\ l \in Nat /\ q \in Seq(Messages) /\ Len(q) = l + 1 /\ q[l + 1] = m
          /\ \A k \in 1..l : q[k] = outq[k]
      BY <1>4, <3>2, <3>3, <3>4
    <3>6. l + 1 \in 1..Len(q)
      BY <3>5
    <3>7. ASSUME NEW k \in 1..Len(q), k # l + 1 PROVE IsLive(q[k])'
      <4>1. k \in 1..l
        BY <3>5, <3>7
      <4>2. PICK x : x = q[k]
        OBVIOUS
      <4>3. IsLive(x)
        BY <1>3, <3>4, <3>5, <4>1, <4>2
      <4>4. IsLive(x)'
        BY <1>2, <4>3 DEF IsLive
      <4> QED BY <4>2, <4>4
    <3>8. StagedIsLive'
      BY <1>2, <1>3 DEF StagedIsLive
    <3>9. GapAt(q, l + 1)'
      <4>1. PICK b : b = l + 1
        OBVIOUS
      <4>2. GapAt(q, b)'
        BY <3>3, <3>5, <3>6, <3>7, <3>8, <4>1 DEF GapAt
      <4> QED BY <4>1, <4>2
    <3> QED BY <3>5, <3>6, <3>9
  <2>2. CASE ~Gap(cursor)
    <3>1. PICK frames : frames = After(cursor)
      OBVIOUS
    <3>2. PICK r : r = Append(Updates(frames), Reply("caughtup", expected))
      OBVIOUS
    <3>3. q = outq \o r
      BY <1>2, <1>5, <2>2, <3>1, <3>2
    <3>4. /\ frames \in Seq(Frames) /\ Range(frames) \subseteq Range(history)
          /\ expected \subseteq held \cup ItemsOf(frames)
          /\ held \cap gone \subseteq overtaken
      BY <1>1, <2>2, <3>1, CatchUpFills
    <3>5. PICK b : b = Len(q)
      OBVIOUS
    <3>6. /\ q \in Seq(Messages) /\ b \in 1..Len(q) /\ q[b].kind = "caughtup"
          /\ Completes(q, b, h)
      <4>1. "caughtup" \in {"caughtup", "loaded"} /\ expected \in SUBSET expected
        OBVIOUS
      <4>2. /\ outq \o r \in Seq(Messages) /\ Len(outq \o r) \in 1..Len(outq \o r)
            /\ (outq \o r)[Len(outq \o r)].kind = "caughtup"
            /\ Completes(outq \o r, Len(outq \o r), held)
        BY <1>1, <1>3, <1>4, <3>2, <3>4, <4>1, ReplyCompletes
      <4> QED BY <1>5, <3>3, <3>5, <4>2
    <3>7. Completes(q, b, h)'
      BY <1>1, <1>2, <1>4, <1>5, <1>7, <3>6, CompletesMoves
    <3> QED BY <3>6, <3>7
  <2> QED BY <2>1, <2>2
<1>9. ReplayTypes'
  BY <1>1, <1>2, <1>5, <1>8 DEF ReplayTypes
<1>10. Phases'
  BY <1>1, <1>2 DEF Phases
<1>11. ClientInv'
  <2>1. /\ NoneSurvives(held, cursor)'
        /\ \A i \in expected' \ held' : Told(i, cursor)'
    BY <1>1, <1>2, CursorWaits
  <2>2. \E b \in 1..Len(Coming') :
            \/ GapAt(Coming, b)'
            \/ Coming'[b].kind = "caughtup" /\ Completes(Coming, b, held)'
    BY <1>2, <1>5, <1>6, <1>8
  <2>3. asked' \notin {"none", "load", "loading"} /\ ~synced'
    BY <1>2
  <2> QED BY <2>1, <2>2, <2>3 DEF ClientInv
<1>12. \A g \in Range(history') : FrameOK(g)'
  BY <1>1, <1>2 DEF FrameOK
<1> QED BY <1>1, <1>2, <1>9, <1>10, <1>11, <1>12 DEF ReplayInv

LEMMA LoadSnapshotKeeps == ASSUME ReplayInv, LoadSnapshot PROVE ReplayInv'
<1>1. /\ ReplayTypes /\ Phases /\ ClientInv /\ missed = {} /\ stale \subseteq overtaken
      /\ \A g \in Range(history) : FrameOK(g)
  BY DEF ReplayInv
<1>2. PICK due, r : /\ due = expected \cap ItemsOf(history)
                    /\ r = Append(Updates(history), Reply("loaded", due))
  OBVIOUS
<1>3. /\ bound /\ asked = "load" /\ asked' = "loading" /\ replay' = r
      /\ UNCHANGED <<history, seq, evicted, rejected, items, running, gone>>
      /\ UNCHANGED <<held, cursor, overtaken, expected>>
      /\ UNCHANGED <<bound, synced, staged, outq, missed, stale>>
  BY <1>2 DEF LoadSnapshot, bufVars, convVars
<1>4. ~synced
  BY <1>1, <1>3 DEF Phases
<1>5. StagedIsLive /\ \A k \in 1..Len(outq) : IsLive(outq[k])
  BY <1>1, <1>3, <1>4 DEF ClientInv
<1>6. PICK q, b : q = outq \o r /\ b = Len(q)
  OBVIOUS
<1>7. /\ r \in Seq(Messages) /\ q \in Seq(Messages) /\ b \in 1..Len(q) /\ q[b].kind = "loaded"
      /\ Completes(q, b, {})
  <2>1. /\ "loaded" \in {"caughtup", "loaded"} /\ {} \in SUBSET (1..items)
        /\ {} \cap gone \subseteq overtaken /\ due \in SUBSET expected
        /\ due \subseteq {} \cup ItemsOf(history)
    BY <1>2
  <2>2. history \in Seq(Frames)
    BY <1>1 DEF ReplayTypes
  <2> QED BY <1>1, <1>2, <1>5, <1>6, <2>1, <2>2, ReplyCompletes
<1>8. Coming' = q
  BY <1>3, <1>6 DEF Coming
<1>9. Completes(q, b, {})'
  <2>1. BufferMoves
    BY <1>1, <1>3, QuietMoves
  <2>2. PICK e : e = expected
    OBVIOUS
  <2> QED BY <1>1, <1>3, <1>7, <2>1, <2>2, CompletesMoves
<1>10. ReplayTypes'
  BY <1>1, <1>3, <1>7 DEF ReplayTypes
<1>11. Phases'
  <2>1. \A k \in 1..Len(outq) : outq[k].kind = "update"
    BY <1>5 DEF IsLive
  <2> QED BY <1>3, <1>4, <2>1 DEF Phases
<1>12. ClientInv'
  <2>1. /\ NoneSurvives(held, cursor)'
        /\ \A i \in expected' \ held' : Told(i, cursor)'
    BY <1>1, <1>3, CursorWaits
  <2>2. \E x \in 1..Len(Coming') : Coming'[x].kind = "loaded" /\ Completes(Coming, x, {})'
    BY <1>7, <1>8, <1>9
  <2>3. asked' \notin {"none", "load", "catchup"} /\ ~synced'
    BY <1>3, <1>4
  <2> QED BY <2>1, <2>2, <2>3 DEF ClientInv
<1>13. \A g \in Range(history') : FrameOK(g)'
  BY <1>1, <1>3 DEF FrameOK
<1> QED BY <1>1, <1>3, <1>10, <1>11, <1>12, <1>13 DEF ReplayInv

\* The client reads the head of what is on its way.
LEMMA ReadsHead ==
    ASSUME NEW q \in Seq(Messages), q # <<>>
    PROVE  /\ Len(q) \in Nat \ {0} /\ Head(q) = q[1] /\ q[1] \in Messages
           /\ Tail(q) \in Seq(Messages) /\ Len(Tail(q)) = Len(q) - 1
           /\ \A k \in 1..Len(q) - 1 : Tail(q)[k] = q[k + 1]
<1>1. Len(q) \in Nat /\ Len(q) # 0
  BY EmptySeq
<1>2. Head(q) = q[1] /\ Tail(q) \in Seq(Messages) /\ Len(Tail(q)) = Len(q) - 1
  BY <1>1
<1>3. \A k \in 1..Len(q) - 1 : Tail(q)[k] = q[k + 1]
  BY <1>1
<1>4. q[1] \in Messages
  BY <1>1
<1> QED BY <1>1, <1>2, <1>3, <1>4

\* Behind the head everything moves up.
LEMMA ContinuesTail ==
    ASSUME UNCHANGED <<history, seq, evicted, items, running, gone>>,
           NEW q \in Seq(Messages), q # <<>>, NEW b \in Nat \ {0},
           NEW known, NEW more, known \subseteq more, NEW c, NEW due,
           Continues(q, b, known, c, due)
    PROVE  Continues(Tail(q), b - 1, more, c, due)'
<1>1. PICK t, n, a : t = Tail(q) /\ n = Len(q) /\ a = b - 1
  OBVIOUS
<1>2. /\ n \in Nat /\ Len(t) = n - 1 /\ a \in Nat
      /\ \A k \in 1..n - 1 : t[k] = q[k + 1]
  BY <1>1, ReadsHead
<1>3. /\ c <= seq
      /\ \A k \in b+1..n : IsLive(q[k]) /\ (q[k].seq = 0 \/ c <= q[k].seq)
      /\ \A j, k \in b+1..n : j < k /\ q[k].seq # 0 => q[j].seq <= q[k].seq
      /\ \A i \in due \ known :
             /\ Told(i, c)
             /\ \E k \in b+1..n : q[k].item = i
             /\ \A k \in b+1..n :
                    q[k].seq # 0 => Told(i, q[k].seq) \/ \E j \in b+1..k : q[j].item = i
  BY <1>1 DEF Continues
<1>4. ASSUME NEW k \in a+1..n - 1 PROVE k + 1 \in b+1..n /\ t[k] = q[k + 1]
  BY <1>1, <1>2
<1>5. ASSUME NEW k \in b+1..n PROVE k - 1 \in a+1..n - 1 /\ t[k - 1] = q[k]
  <2>1. PICK j : j = k - 1
    OBVIOUS
  <2>2. j \in a+1..n - 1 /\ j + 1 = k
    BY <1>1, <1>2, <2>1
  <2> QED BY <1>4, <2>1, <2>2
<1>6. \A i, e : Told(i, e)' <=> Told(i, e)
  BY DEF Told
<1>7. \A m : IsLive(m)' <=> IsLive(m)
  BY DEF IsLive
<1>8. \A k \in a+1..n - 1 : IsLive(t[k])' /\ (t[k].seq = 0 \/ c <= t[k].seq)
  <2> SUFFICES ASSUME NEW k \in a+1..n - 1
               PROVE  IsLive(t[k])' /\ (t[k].seq = 0 \/ c <= t[k].seq)
    OBVIOUS
  <2>1. PICK m : m = t[k]
    OBVIOUS
  <2>2. m = q[k + 1] /\ k + 1 \in b+1..n
    BY <1>4, <2>1
  <2>3. IsLive(m) /\ (m.seq = 0 \/ c <= m.seq)
    BY <1>3, <2>2
  <2> QED BY <1>7, <2>1, <2>3
<1>9. ASSUME NEW j \in a+1..n - 1, NEW k \in a+1..n - 1, j < k, t[k].seq # 0
      PROVE  t[j].seq <= t[k].seq
  <2>1. j + 1 \in b+1..n /\ k + 1 \in b+1..n /\ t[j] = q[j + 1] /\ t[k] = q[k + 1]
    BY <1>4
  <2>2. j + 1 < k + 1
    BY <1>2, <1>9
  <2> QED BY <1>3, <1>9, <2>1, <2>2
<1>10. ASSUME NEW i \in due \ more
       PROVE  /\ Told(i, c)'
              /\ \E k \in a+1..n - 1 : t[k].item = i
              /\ \A k \in a+1..n - 1 :
                     t[k].seq # 0 => Told(i, t[k].seq)' \/ \E j \in a+1..k : t[j].item = i
  <2>1. i \in due \ known
    BY <1>10
  <2>2. Told(i, c)'
    BY <1>3, <1>6, <2>1
  <2>3. \E k \in a+1..n - 1 : t[k].item = i
    <3>1. PICK k \in b+1..n : q[k].item = i
      BY <1>3, <2>1
    <3> QED BY <1>5, <3>1
  <2>4. ASSUME NEW k \in a+1..n - 1, t[k].seq # 0
        PROVE  Told(i, t[k].seq)' \/ \E j \in a+1..k : t[j].item = i
    <3>1. PICK m, y : m = t[k] /\ y = k + 1
      OBVIOUS
    <3>2. y \in b+1..n /\ m = q[y]
      BY <1>4, <3>1
    <3>3. Told(i, m.seq) \/ \E j \in b+1..y : q[j].item = i
      BY <1>3, <2>1, <2>4, <3>1, <3>2
    <3>4. CASE Told(i, m.seq)
      <4>1. Told(i, m.seq)'
        BY <1>6, <3>4
      <4> QED BY <3>1, <4>1
    <3>5. ASSUME NEW j \in b+1..y, q[j].item = i PROVE \E x \in a+1..k : t[x].item = i
      <4>1. j \in b+1..n
        BY <1>2, <3>2
      <4>2. t[j - 1] = q[j]
        BY <1>5, <4>1
      <4>3. j - 1 \in a+1..k
        BY <1>1, <1>2, <3>1
      <4> QED BY <3>5, <4>2, <4>3
    <3> QED BY <3>3, <3>4, <3>5
  <2> QED BY <2>2, <2>3, <2>4
<1>11. c <= seq'
  BY <1>3
<1>12. Len(t) = n - 1
  BY <1>2
<1>13. Continues(t, a, more, c, due)'
  BY <1>8, <1>9, <1>10, <1>11, <1>12 DEF Continues
<1> QED BY <1>1, <1>13

\* A reply further behind still completes the replay, with the head staged.
LEMMA CompletesTail ==
    ASSUME UNCHANGED <<history, seq, evicted, rejected, items, running, gone>>,
           UNCHANGED <<overtaken, expected>>,
           NEW q \in Seq(Messages), q # <<>>, NEW b, b # 1, NEW have,
           Completes(q, b, have), staged' = staged \cup {q[1].item}
    PROVE  b - 1 \in 1..Len(Tail(q)) /\ Tail(q)[b - 1] = q[b] /\ Completes(Tail(q), b - 1, have)'
<1>1. PICK t, n, a, m : t = Tail(q) /\ n = Len(q) /\ a = b - 1 /\ m = q[b]
  OBVIOUS
<1>2. /\ n \in Nat /\ Len(t) = n - 1
      /\ \A k \in 1..n - 1 : t[k] = q[k + 1]
  BY <1>1, ReadsHead
<1>3. PICK known : known = have \cup staged \cup Before(q, b)
  OBVIOUS
<1>4. /\ b \in 1..n /\ m.kind \in {"caughtup", "loaded"}
      /\ \A j \in 1..b-1 : q[j].kind = "update" /\ q[j].item \in 1..items
      /\ m.due \subseteq known
      /\ known \cap m.gone \subseteq overtaken
      /\ NoneSurvives(known, m.head)
      /\ Continues(q, b, m.due, m.head, expected \ m.lost)
  BY <1>1, <1>3 DEF Completes
<1>5. /\ a \in 1..n - 1 /\ a \in Nat /\ t[a] = m /\ b \in Nat \ {0}
      /\ \A j \in 1..a-1 : j + 1 \in 1..b-1 /\ t[j] = q[j + 1]
      /\ \A j \in 1..b-1 : j = 1 \/ (j - 1 \in 1..a-1 /\ t[j - 1] = q[j])
      /\ 1 \in 1..b-1
  <2>1. a \in 1..n - 1 /\ a \in Nat /\ b \in Nat \ {0} /\ a + 1 = b /\ 1 \in 1..b-1
    BY <1>1, <1>2, <1>4
  <2>2. t[a] = m
    BY <1>1, <1>2, <2>1
  <2>3. ASSUME NEW j \in 1..a-1 PROVE j + 1 \in 1..b-1 /\ t[j] = q[j + 1]
    <3>1. j \in 1..n - 1 /\ j + 1 \in 1..b-1
      BY <1>2, <2>1
    <3> QED BY <1>2, <3>1
  <2>4. ASSUME NEW j \in 1..b-1, j # 1 PROVE j - 1 \in 1..a-1 /\ t[j - 1] = q[j]
    <3>1. PICK k : k = j - 1
      OBVIOUS
    <3>2. k \in 1..a-1 /\ k + 1 = j
      BY <2>1, <2>4, <3>1
    <3> QED BY <2>3, <3>1, <3>2
  <2> QED BY <2>1, <2>2, <2>3, <2>4
<1>6. Before(q, b) = Before(t, a) \cup {q[1].item}
  <2>1. PICK old, new, first : old = Before(q, b) /\ new = Before(t, a) /\ first = q[1].item
    OBVIOUS
  <2>2. \A x : x \in old <=> \E j \in 1..b-1 : x = q[j].item
    BY <2>1 DEF Before
  <2>3. \A x : x \in new <=> \E j \in 1..a-1 : x = t[j].item
    BY <2>1 DEF Before
  <2>4. ASSUME NEW x \in old, x # first PROVE x \in new
    <3>1. PICK j \in 1..b-1 : x = q[j].item
      BY <2>2
    <3>2. j # 1
      BY <2>1, <2>4, <3>1
    <3>3. j - 1 \in 1..a-1 /\ t[j - 1] = q[j]
      BY <1>5, <3>2
    <3> QED BY <2>3, <3>1, <3>3
  <2>5. ASSUME NEW x \in new PROVE x \in old
    <3>1. PICK j \in 1..a-1 : x = t[j].item
      BY <2>3
    <3>2. j + 1 \in 1..b-1 /\ t[j] = q[j + 1]
      BY <1>5
    <3> QED BY <2>2, <3>1, <3>2
  <2>6. first \in old
    BY <1>5, <2>1, <2>2
  <2>7. old = new \cup {first}
    BY <2>4, <2>5, <2>6
  <2> QED BY <2>1, <2>7
<1>7. known = have \cup staged' \cup Before(t, a)
  BY <1>3, <1>6
<1>8. ASSUME NEW j \in 1..a-1 PROVE t[j].kind = "update" /\ t[j].item \in 1..items'
  <2>1. j + 1 \in 1..b-1 /\ t[j] = q[j + 1]
    BY <1>5
  <2>2. q[j + 1].kind = "update" /\ q[j + 1].item \in 1..items
    BY <1>4, <2>1
  <2>3. items' = items
    OBVIOUS
  <2> QED BY <2>1, <2>2, <2>3
<1>9. NoneSurvives(known, m.head)'
  BY <1>4 DEF NoneSurvives, Barred
<1>10. Continues(t, a, m.due, m.head, expected \ m.lost)'
  <2>1. PICK d, h, w : d = m.due /\ h = m.head /\ w = expected \ m.lost
    OBVIOUS
  <2>2. Continues(q, b, d, h, w)
    BY <1>4, <2>1
  <2>3. Continues(Tail(q), b - 1, d, h, w)'
    BY <1>5, <2>2, ContinuesTail
  <2> QED BY <1>1, <2>1, <2>3
<1>11. a \in 1..Len(t)
  BY <1>2, <1>5
<1>12. Completes(t, a, have)'
  BY <1>4, <1>5, <1>7, <1>8, <1>9, <1>10, <1>11 DEF Completes, Before
<1> QED BY <1>1, <1>5, <1>11, <1>12

\* The client applies a live update.
LEMMA UpdateKeeps ==
    ASSUME ReplayInv, synced, Receive, Head(outq).kind = "update" PROVE ReplayInv'
<1>1. /\ ReplayTypes /\ Phases /\ ClientInv /\ missed = {} /\ stale \subseteq overtaken
      /\ \A g \in Range(history) : FrameOK(g)
  BY DEF ReplayInv
<1>2. outq # <<>>
  BY DEF Receive
<1>3. PICK q : q = outq
  OBVIOUS
<1>4. q \in Seq(Messages) /\ q # <<>> /\ Coming = q
  BY <1>1, <1>2, <1>3 DEF ReplayTypes, Coming, Phases
<1>5. PICK m : m = Head(q)
  OBVIOUS
<1>6. /\ Len(q) \in Nat \ {0} /\ m = q[1] /\ m \in Messages
      /\ Tail(q) \in Seq(Messages) /\ Len(Tail(q)) = Len(q) - 1
      /\ \A k \in 1..Len(q) - 1 : Tail(q)[k] = q[k + 1]
  BY <1>4, <1>5, ReadsHead
<1>7. /\ outq' = Tail(q)
      /\ held' = held \cup {m.item}
      /\ cursor' = IF m.seq = 0 THEN cursor ELSE m.seq
      /\ overtaken' = overtaken \cup (held \cap gone)
      /\ UNCHANGED <<synced, asked, staged, missed, stale, expected>>
      /\ UNCHANGED <<history, seq, evicted, rejected, items, running, gone>>
      /\ UNCHANGED <<bound, replay>>
  BY <1>3, <1>5 DEF Receive, Commit, bufVars
<1>8. /\ items \in Nat /\ seq \in Nat /\ cursor \in Nat /\ cursor <= seq
      /\ held \subseteq 1..items /\ expected \subseteq 1..items
  BY <1>1 DEF ReplayTypes
<1>9. PICK c, e, d, h : /\ c = cursor /\ e = expected /\ h = held \cup {m.item}
                        /\ d = IF m.seq = 0 THEN cursor ELSE m.seq
  OBVIOUS
<1>10. Continues(q, 0, held, c, e)
  BY <1>1, <1>4, <1>9 DEF ClientInv
<1>11. PICK n : n = Len(q)
  OBVIOUS
<1>12. n \in Nat \ {0} /\ 1 \in 0+1..n
  BY <1>6, <1>11
<1>13. /\ \A k \in 0+1..n : IsLive(q[k]) /\ (q[k].seq = 0 \/ c <= q[k].seq)
       /\ \A j, k \in 0+1..n : j < k /\ q[k].seq # 0 => q[j].seq <= q[k].seq
       /\ \A i \in e \ held :
              /\ Told(i, c)
              /\ \E k \in 0+1..n : q[k].item = i
              /\ \A k \in 0+1..n :
                     q[k].seq # 0 => Told(i, q[k].seq) \/ \E j \in 0+1..k : q[j].item = i
  BY <1>10, <1>11 DEF Continues
<1>14. /\ IsLive(m) /\ m.seq \in Nat /\ m.seq <= seq /\ m.item \in 1..items
       /\ m.item \notin running \cup gone /\ (m.seq = 0 \/ c <= m.seq)
  <2>1. IsLive(m) /\ (m.seq = 0 \/ c <= m.seq)
    BY <1>6, <1>12, <1>13
  <2> QED BY <1>6, <2>1 DEF IsLive, Messages, UpdateMsgs, ReplyMsgs
<1>15. c \in Nat /\ d \in Nat /\ c <= d /\ d <= seq
  BY <1>8, <1>9, <1>14
<1>16. ASSUME NEW i \in e \ h PROVE Told(i, d)
  <2>1. i \in e \ held /\ q[1].item # i
    BY <1>6, <1>9
  <2>2. CASE m.seq = 0
    BY <1>9, <1>13, <2>1, <2>2
  <2>3. CASE m.seq # 0
    <3>1. Told(i, q[1].seq) \/ \E j \in 0+1..1 : q[j].item = i
      BY <1>6, <1>12, <1>13, <2>1, <2>3
    <3>2. \A j \in 0+1..1 : j = 1
      OBVIOUS
    <3> QED BY <1>6, <1>9, <2>1, <2>3, <3>1, <3>2
  <2> QED BY <2>2, <2>3
<1>17. Continues(q, 1, h, d, e)
  <2>1. \A k \in 1+1..n : k \in 0+1..n
    OBVIOUS
  <2>2. ASSUME NEW k \in 1+1..n PROVE q[k].seq = 0 \/ d <= q[k].seq
    <3>1. k \in 0+1..n /\ 1 < k
      BY <1>12
    <3>2. q[k].seq # 0 => q[1].seq <= q[k].seq
      BY <1>12, <1>13, <3>1
    <3>3. q[k].seq = 0 \/ c <= q[k].seq
      BY <1>13, <3>1
    <3> QED BY <1>6, <1>9, <3>2, <3>3
  <2>3. ASSUME NEW i \in e \ h
        PROVE  /\ \E k \in 1+1..n : q[k].item = i
               /\ \A k \in 1+1..n :
                     q[k].seq # 0 => Told(i, q[k].seq) \/ \E j \in 1+1..k : q[j].item = i
    <3>1. i \in e \ held /\ q[1].item # i
      BY <1>6, <1>9
    <3>2. \A j \in Nat : j \in 0+1..n => j = 1 \/ j \in 1+1..n
      BY <1>12
    <3>3. \E k \in 1+1..n : q[k].item = i
      <4>1. PICK k \in 0+1..n : q[k].item = i
        BY <1>13, <3>1
      <4>2. k # 1 /\ k \in Nat
        BY <3>1, <4>1
      <4> QED BY <3>2, <4>1, <4>2
    <3>4. ASSUME NEW k \in 1+1..n, q[k].seq # 0
          PROVE  Told(i, q[k].seq) \/ \E j \in 1+1..k : q[j].item = i
      <4>1. Told(i, q[k].seq) \/ \E j \in 0+1..k : q[j].item = i
        BY <1>13, <2>1, <3>1, <3>4
      <4>2. ASSUME NEW j \in 0+1..k, q[j].item = i PROVE j \in 1+1..k
        <5>1. j # 1
          BY <3>1, <4>2
        <5> QED BY <5>1
      <4> QED BY <4>1, <4>2
    <3> QED BY <3>3, <3>4
  <2>4. \A k \in 1+1..n : IsLive(q[k])
    BY <1>13, <2>1
  <2>5. \A j, k \in 1+1..n : j < k /\ q[k].seq # 0 => q[j].seq <= q[k].seq
    BY <1>13, <2>1
  <2> QED BY <1>11, <1>15, <1>16, <2>2, <2>3, <2>4, <2>5 DEF Continues
<1>18. Continues(Coming, 0, held, cursor, expected)'
  <2>1. Continues(Tail(q), 1 - 1, h, d, e)'
    <3>1. 1 \in Nat \ {0}
      OBVIOUS
    <3> QED BY <1>4, <1>7, <1>17, <3>1, ContinuesTail
  <2>2. 1 - 1 = 0
    OBVIOUS
  <2>3. Coming' = Tail(q)
    <3>1. synced => asked = "none"
      BY <1>1 DEF Phases
    <3> QED BY <1>7, <3>1 DEF Coming
  <2>4. held' = h /\ cursor' = d /\ expected' = e
    BY <1>7, <1>9
  <2> QED BY <2>1, <2>2, <2>3, <2>4
<1>19. NoneSurvives(held, cursor)'
  <2>1. \A g \in Range(history) : g.seq \in Nat
    <3>1. history \in Seq(Frames)
      BY <1>1 DEF ReplayTypes
    <3>2. \A g \in Range(history) : g \in Frames
      BY <3>1 DEF Range
    <3> QED BY <3>2 DEF Frames
  <2>2. ASSUME NEW p \in h
        PROVE  /\ p \in gone => p \in overtaken'
               /\ p \in running => \A f \in Range(history) : f.promptID = p => f.seq <= d
    <3>1. p \in gone \cup running => p \in held
      BY <1>9, <1>14
    <3>2. p \in gone => p \in overtaken'
      BY <1>7, <3>1
    <3>3. ASSUME p \in running, NEW f \in Range(history), f.promptID = p PROVE f.seq <= d
      <4>1. f.seq <= c
        BY <1>1, <1>9, <3>1, <3>3 DEF ClientInv, NoneSurvives
      <4> QED BY <1>15, <2>1, <4>1
    <3> QED BY <3>2, <3>3
  <2>3. held' = h /\ cursor' = d
    BY <1>7, <1>9
  <2> QED BY <1>7, <2>2, <2>3 DEF NoneSurvives
<1>20. \A i \in expected' \ held' : Told(i, cursor)'
  <2>1. held' = h /\ cursor' = d /\ expected' = e
    BY <1>7, <1>9
  <2>2. \A i : Told(i, d)' <=> Told(i, d)
    BY <1>7 DEF Told
  <2>3. \A i \in e \ h : Told(i, d)'
    BY <1>16, <2>2
  <2> QED BY <2>1, <2>3
<1>21. ClientInv'
  <2>1. synced' /\ asked' = "none"
    BY <1>1, <1>7 DEF Phases
  <2> QED BY <1>18, <1>19, <1>20, <2>1 DEF ClientInv
<1>22. ReplayTypes'
  <2>1. held' \subseteq 1..items'
    BY <1>7, <1>8, <1>14
  <2>2. cursor' \in Nat /\ cursor' <= seq'
    BY <1>7, <1>9, <1>15
  <2> QED BY <1>1, <1>6, <1>7, <2>1, <2>2 DEF ReplayTypes
<1>23. Phases'
  <2>1. bound /\ asked = "none"
    BY <1>1 DEF Phases
  <2> QED BY <1>7, <2>1 DEF Phases
<1>24. \A g \in Range(history') : FrameOK(g)'
  BY <1>1, <1>7 DEF FrameOK
<1> QED BY <1>1, <1>7, <1>21, <1>22, <1>23, <1>24 DEF ReplayInv

\* Where a reply can be read.
LEMMA HeadOfReplay ==
    ASSUME ReplayInv, bound, outq # <<>>, ~synced
    PROVE  LET m == Head(outq) IN
           /\ m.kind = "update" => m.item \in 1..items
           /\ m.kind = "caughtup" => asked = "catchup" /\ Completes(outq, 1, held)
           /\ m.kind = "gap" => asked = "catchup" /\ GapAt(outq, 1)
           /\ m.kind = "loaded" => asked = "loading" /\ replay = <<>> /\ Completes(outq, 1, {})
<1>1. ReplayTypes /\ Phases /\ ClientInv
  BY DEF ReplayInv
<1>2. PICK q, m, n : q = outq /\ m = Head(outq) /\ n = Len(outq)
  OBVIOUS
<1>3. q \in Seq(Messages) /\ n \in Nat \ {0} /\ m = q[1] /\ 1 \in 1..n
  BY <1>1, <1>2, ReadsHead DEF ReplayTypes
<1>4. asked \in {"none", "catchup", "load", "loading"}
  BY <1>1 DEF ReplayTypes
<1>5. CASE asked \in {"none", "load"}
  <2>1. IsLive(m)
    BY <1>1, <1>2, <1>3, <1>5 DEF ClientInv
  <2> QED BY <1>2, <2>1 DEF IsLive
<1>6. CASE asked = "catchup"
  <2>1. PICK b \in 1..n : \/ GapAt(q, b)
                          \/ q[b].kind = "caughtup" /\ Completes(q, b, held)
    BY <1>1, <1>2, <1>6 DEF ClientInv, Coming
  <2>2. CASE b = 1
    <3>1. CASE GapAt(q, b)
      <4>1. m.kind = "gap" /\ GapAt(outq, 1)
        BY <1>2, <1>3, <2>2, <3>1 DEF GapAt
      <4> QED BY <1>2, <1>6, <4>1
    <3>2. CASE q[b].kind = "caughtup" /\ Completes(q, b, held)
      BY <1>2, <1>3, <1>6, <2>2, <3>2
    <3> QED BY <2>1, <3>1, <3>2
  <2>3. CASE b # 1
    <3>1. m.kind = "update" /\ m.item \in 1..items
      <4>1. CASE GapAt(q, b)
        <5>1. IsLive(m)
          BY <1>2, <1>3, <2>3, <4>1 DEF GapAt
        <5> QED BY <5>1 DEF IsLive
      <4>2. CASE Completes(q, b, held)
        <5>1. 1 \in 1..b-1
          BY <1>3, <2>3
        <5> QED BY <1>3, <4>2, <5>1 DEF Completes
      <4> QED BY <2>1, <4>1, <4>2
    <3> QED BY <1>2, <3>1
  <2> QED BY <2>2, <2>3
<1>7. CASE asked = "loading"
  <2>1. PICK p : p = q \o replay
    OBVIOUS
  <2>2. replay \in Seq(Messages)
    BY <1>1 DEF ReplayTypes
  <2>3. p \in Seq(Messages) /\ p[1] = m
    BY <1>2, <1>3, <2>1, <2>2
  <2>4. PICK b \in 1..Len(p) : p[b].kind = "loaded" /\ Completes(p, b, {})
    BY <1>1, <1>2, <1>7, <2>1 DEF ClientInv, Coming
  <2>5. CASE b = 1
    <3>1. m.kind = "loaded"
      BY <2>3, <2>4, <2>5
    <3>2. replay = <<>>
      BY <1>1, <1>2, <1>3, <1>7, <3>1 DEF Phases
    <3>3. p = q
      BY <1>3, <2>1, <3>2
    <3> QED BY <1>2, <1>7, <2>4, <2>5, <3>1, <3>2, <3>3
  <2>6. CASE b # 1
    <3>1. 1 \in 1..b-1
      <4>1. b \in Nat /\ b >= 1
        OBVIOUS
      <4> QED BY <2>6, <4>1
    <3>2. m.kind = "update" /\ m.item \in 1..items
      BY <2>3, <2>4, <3>1 DEF Completes
    <3> QED BY <1>2, <3>2
  <2> QED BY <2>5, <2>6
<1> QED BY <1>4, <1>5, <1>6, <1>7

\* The client stages an update of a replay.
LEMMA StageKeeps ==
    ASSUME ReplayInv, ~synced, Receive, Head(outq).kind = "update" PROVE ReplayInv'
<1>1. /\ ReplayTypes /\ Phases /\ ClientInv /\ missed = {} /\ stale \subseteq overtaken
      /\ \A g \in Range(history) : FrameOK(g)
  BY DEF ReplayInv
<1>2. outq # <<>> /\ bound
  BY DEF Receive
<1>3. PICK q : q = outq
  OBVIOUS
<1>4. q \in Seq(Messages) /\ q # <<>> /\ replay \in Seq(Messages)
  BY <1>1, <1>2, <1>3 DEF ReplayTypes
<1>5. PICK m, t : m = Head(q) /\ t = Tail(q)
  OBVIOUS
<1>6. /\ Len(q) \in Nat \ {0} /\ m = q[1] /\ m \in Messages
      /\ t \in Seq(Messages) /\ Len(t) = Len(q) - 1
      /\ \A k \in 1..Len(q) - 1 : t[k] = q[k + 1]
  BY <1>4, <1>5, ReadsHead
<1>7. /\ outq' = t
      /\ staged' = staged \cup {m.item}
      /\ UNCHANGED <<synced, asked, cursor, held, missed, stale, overtaken, expected>>
      /\ UNCHANGED <<history, seq, evicted, rejected, items, running, gone>>
      /\ UNCHANGED <<bound, replay>>
  BY <1>3, <1>5 DEF Receive, Commit, bufVars
<1>8. m.item \in 1..items /\ m.kind = "update"
  BY <1>2, <1>3, <1>5, HeadOfReplay
<1>9. \A x : IsLive(x)' <=> IsLive(x)
  BY <1>7 DEF IsLive
<1>10. /\ NoneSurvives(held, cursor)'
       /\ \A i \in expected' \ held' : Told(i, cursor)'
  BY <1>1, <1>7, CursorWaits
<1>11. ReplayTypes'
  <2>1. staged' \subseteq 1..items'
    BY <1>1, <1>7, <1>8 DEF ReplayTypes
  <2> QED BY <1>1, <1>6, <1>7, <2>1 DEF ReplayTypes
<1>12. Phases'
  <2>1. asked = "loading" /\ replay # <<>> => \A k \in 1..Len(t) : t[k].kind = "update"
    <3>1. \A k \in 1..Len(t) : k + 1 \in 1..Len(q) /\ t[k] = q[k + 1]
      BY <1>6
    <3> QED BY <1>1, <1>3, <3>1 DEF Phases
  <2> QED BY <1>1, <1>2, <1>7, <2>1 DEF Phases
<1>13. ASSUME asked \in {"none", "load"}
       PROVE  StagedIsLive' /\ \A k \in 1..Len(outq') : IsLive(outq[k])'
  <2>1. StagedIsLive /\ \A k \in 1..Len(q) : IsLive(q[k])
    BY <1>1, <1>3, <1>13 DEF ClientInv
  <2>2. ASSUME NEW k \in 1..Len(t) PROVE IsLive(t[k])'
    <3>1. PICK x : x = t[k]
      OBVIOUS
    <3>2. k + 1 \in 1..Len(q) /\ x = q[k + 1]
      BY <1>6, <3>1
    <3>3. IsLive(x)'
      BY <1>9, <2>1, <3>2
    <3> QED BY <3>1, <3>3
  <2>3. IsLive(m)
    <3>1. 1 \in 1..Len(q)
      BY <1>6
    <3> QED BY <1>6, <2>1, <3>1
  <2>4. m.item \notin running \cup gone
    BY <2>3 DEF IsLive
  <2>5. StagedIsLive'
    BY <1>7, <2>1, <2>4 DEF StagedIsLive
  <2> QED BY <1>7, <2>2, <2>5
<1>14. ASSUME NEW b \in 1..Len(q), GapAt(q, b)
       PROVE  b - 1 \in 1..Len(t) /\ GapAt(t, b - 1)'
  <2>1. /\ q[b].kind = "gap" /\ StagedIsLive
        /\ \A k \in 1..Len(q) : k # b => IsLive(q[k])
    BY <1>14 DEF GapAt
  <2>2. b # 1
    BY <1>6, <1>8, <2>1
  <2>3. PICK a : a = b - 1
    OBVIOUS
  <2>4. a \in 1..Len(t) /\ a + 1 = b /\ t[a] = q[b]
    <3>1. a \in 1..Len(q) - 1 /\ a + 1 = b
      BY <1>6, <2>2, <2>3
    <3> QED BY <1>6, <3>1
  <2>5. ASSUME NEW k \in 1..Len(t), k # a PROVE IsLive(t[k])'
    <3>1. PICK x : x = t[k]
      OBVIOUS
    <3>2. k + 1 \in 1..Len(q) /\ k + 1 # b /\ x = q[k + 1]
      BY <1>6, <2>3, <2>5, <3>1
    <3>3. IsLive(x)'
      BY <1>9, <2>1, <3>2
    <3> QED BY <3>1, <3>3
  <2>6. StagedIsLive'
    <3>1. 1 \in 1..Len(q)
      BY <1>6
    <3>2. IsLive(m)
      BY <1>6, <2>1, <2>2, <3>1
    <3>3. m.item \notin running \cup gone
      BY <3>2 DEF IsLive
    <3> QED BY <1>7, <2>1, <3>3 DEF StagedIsLive
  <2>7. GapAt(t, a)'
    BY <2>1, <2>4, <2>5, <2>6 DEF GapAt
  <2> QED BY <2>3, <2>4, <2>7
<1>15. PICK h : h = held
  OBVIOUS
<1>16. ASSUME asked = "catchup"
       PROVE  \E b \in 1..Len(Coming') :
                 \/ GapAt(Coming, b)'
                 \/ Coming'[b].kind = "caughtup" /\ Completes(Coming, b, held)'
  <2>1. PICK b \in 1..Len(q) : \/ GapAt(q, b)
                               \/ q[b].kind = "caughtup" /\ Completes(q, b, h)
    BY <1>1, <1>3, <1>15, <1>16 DEF ClientInv, Coming
  <2>2. Coming' = t
    BY <1>7, <1>16 DEF Coming
  <2>3. PICK a : a = b - 1
    OBVIOUS
  <2>4. /\ a \in 1..Len(t)
        /\ \/ GapAt(t, a)'
           \/ t[a].kind = "caughtup" /\ Completes(t, a, h)'
    <3>1. CASE GapAt(q, b)
      BY <1>14, <2>3, <3>1
    <3>2. CASE q[b].kind = "caughtup" /\ Completes(q, b, h)
      <4>1. b # 1
        BY <1>6, <1>8, <3>2
      <4>2. staged' = staged \cup {q[1].item}
        BY <1>6, <1>7
      <4>3. /\ b - 1 \in 1..Len(Tail(q)) /\ Tail(q)[b - 1] = q[b]
            /\ Completes(Tail(q), b - 1, h)'
        BY <1>4, <1>7, <3>2, <4>1, <4>2, CompletesTail
      <4> QED BY <1>5, <2>3, <3>2, <4>3
    <3> QED BY <2>1, <3>1, <3>2
  <2>5. held' = h
    BY <1>7, <1>15
  <2> QED BY <2>2, <2>4, <2>5
<1>17. ASSUME asked = "loading"
       PROVE  \E b \in 1..Len(Coming') :
                 Coming'[b].kind = "loaded" /\ Completes(Coming, b, {})'
  <2>1. PICK p : p = q \o replay
    OBVIOUS
  <2>2. p \in Seq(Messages) /\ p # <<>> /\ p[1] = m /\ Tail(p) = t \o replay
    <3>1. /\ p \in Seq(Messages) /\ Len(p) = Len(q) + Len(replay) /\ Len(replay) \in Nat
          /\ p[1] = q[1] /\ \A k \in 1..Len(p) : p[k] = IF k <= Len(q) THEN q[k]
                                                       ELSE replay[k - Len(q)]
      BY <1>4, <1>6, <2>1
    <3>2. p # <<>>
      BY <1>6, <3>1
    <3>3. PICK x, y : x = Tail(p) /\ y = t \o replay
      OBVIOUS
    <3>4. /\ x \in Seq(Messages) /\ Len(x) = Len(p) - 1
          /\ \A k \in 1..Len(p) - 1 : x[k] = p[k + 1]
      BY <3>1, <3>2, <3>3, ReadsHead
    <3>5. /\ y \in Seq(Messages) /\ Len(y) = Len(t) + Len(replay)
          /\ \A k \in 1..Len(t) + Len(replay) :
                 y[k] = IF k <= Len(t) THEN t[k] ELSE replay[k - Len(t)]
      BY <1>4, <1>6, <3>3, ConcatProperties
    <3>6. PICK l, r : l = Len(t) /\ r = Len(replay)
      OBVIOUS
    <3>7. l \in Nat /\ r \in Nat /\ Len(q) = l + 1 /\ Len(p) = l + 1 + r /\ Len(y) = l + r
      BY <1>6, <3>1, <3>5, <3>6
    <3>8. ASSUME NEW k \in 1..l + r PROVE x[k] = y[k]
      <4>1. k \in 1..Len(p) - 1 /\ k + 1 \in 1..Len(p) /\ x[k] = p[k + 1]
        BY <3>4, <3>7
      <4>2. CASE k <= l
        <5>1. p[k + 1] = q[k + 1] /\ y[k] = t[k] /\ t[k] = q[k + 1]
          BY <1>6, <3>1, <3>5, <3>6, <3>7, <4>1, <4>2
        <5> QED BY <4>1, <5>1
      <4>3. CASE ~(k <= l)
        <5>1. PICK j : j = k - l
          OBVIOUS
        <5>2. k + 1 - Len(q) = j /\ ~(k + 1 <= Len(q)) /\ k - Len(t) = j /\ ~(k <= Len(t))
          BY <3>6, <3>7, <4>3, <5>1
        <5>3. p[k + 1] = replay[k + 1 - Len(q)]
          BY <3>1, <4>1, <5>2
        <5>4. y[k] = replay[k - Len(t)]
          BY <3>5, <3>6, <5>2
        <5> QED BY <4>1, <5>2, <5>3, <5>4, Zenon
      <4> QED BY <3>7, <4>2, <4>3
    <3>9. x = y
      BY <3>4, <3>5, <3>7, <3>8, SeqEqual
    <3> QED BY <1>6, <3>1, <3>2, <3>3, <3>9
  <2>3. PICK b \in 1..Len(p) : p[b].kind = "loaded" /\ Completes(p, b, {})
    BY <1>1, <1>3, <1>17, <2>1 DEF ClientInv, Coming
  <2>4. PICK u, a : u = Tail(p) /\ a = b - 1
    OBVIOUS
  <2>5. Coming' = u
    BY <1>7, <1>17, <2>2, <2>4 DEF Coming
  <2>6. b # 1
    BY <1>8, <2>2, <2>3
  <2>7. staged' = staged \cup {p[1].item}
    BY <1>7, <2>2
  <2>8. /\ b - 1 \in 1..Len(Tail(p)) /\ Tail(p)[b - 1] = p[b]
        /\ Completes(Tail(p), b - 1, {})'
    BY <1>7, <2>2, <2>3, <2>6, <2>7, CompletesTail
  <2>9. a \in 1..Len(u) /\ u[a].kind = "loaded" /\ Completes(u, a, {})'
    BY <2>3, <2>4, <2>8
  <2> QED BY <2>5, <2>9
<1>18. ClientInv'
  BY <1>7, <1>10, <1>13, <1>16, <1>17 DEF ClientInv
<1>19. \A g \in Range(history') : FrameOK(g)'
  BY <1>1, <1>7 DEF FrameOK
<1> QED BY <1>1, <1>7, <1>11, <1>12, <1>18, <1>19 DEF ReplayInv

\* The reply of a replay gives the client its transcript.
LEMMA CommitKeeps ==
    ASSUME ReplayInv, outq # <<>>, bound, NEW have \in SUBSET (1..items),
           Completes(outq, 1, have), Commit(Head(outq), have \cup staged),
           asked = "loading" => replay = <<>>, outq' = Tail(outq),
           UNCHANGED <<bufVars, items, running, gone, bound, replay, drops>>
    PROVE  ReplayInv'
<1>1. /\ ReplayTypes /\ Phases /\ ClientInv /\ missed = {} /\ stale \subseteq overtaken
      /\ \A g \in Range(history) : FrameOK(g)
  BY DEF ReplayInv
<1>2. PICK q, m, known : q = outq /\ m = Head(outq) /\ known = have \cup staged
  OBVIOUS
<1>3. q \in Seq(Messages) /\ q # <<>>
  BY <1>1, <1>2 DEF ReplayTypes
<1>4. m = q[1] /\ m \in Messages /\ Tail(q) \in Seq(Messages)
  BY <1>2, <1>3, ReadsHead
<1>5. /\ held' = known /\ cursor' = m.head /\ synced' = TRUE /\ asked' = "none" /\ staged' = {}
      /\ expected' = expected \ m.lost
      /\ missed' = missed \cup (m.due \ known)
      /\ stale' = stale \cup (known \cap m.gone)
      /\ outq' = Tail(q)
      /\ UNCHANGED <<history, seq, evicted, rejected, items, running, gone>>
      /\ UNCHANGED <<overtaken, bound, replay>>
  BY <1>2 DEF Commit, bufVars
<1>6. Before(q, 1) = {}
  BY DEF Before
<1>7. /\ m.kind \in {"caughtup", "loaded"} /\ m.due \subseteq known
      /\ known \cap m.gone \subseteq overtaken
      /\ NoneSurvives(known, m.head)
      /\ Continues(q, 1, m.due, m.head, expected \ m.lost)
  BY <1>2, <1>4, <1>6 DEF Completes
<1>8. known \subseteq 1..items /\ seq \in Nat
  BY <1>1, <1>2 DEF ReplayTypes
<1>9. m.head \in Nat /\ m.head <= seq
  BY <1>4, <1>7 DEF Messages, UpdateMsgs, ReplyMsgs, Continues
<1>10. PICK d, h, w : d = m.due /\ h = m.head /\ w = expected \ m.lost
  OBVIOUS
<1>11. held' = known /\ cursor' = h /\ expected' = w
  BY <1>5, <1>10
<1>12. Continues(Coming, 0, held, cursor, expected)'
  <2>1. 1 \in Nat \ {0} /\ d \subseteq known /\ Continues(q, 1, d, h, w)
    BY <1>7, <1>10
  <2>2. Continues(Tail(q), 1 - 1, known, h, w)'
    BY <1>3, <1>5, <2>1, ContinuesTail
  <2>3. Coming' = Tail(q) /\ 1 - 1 = 0
    BY <1>5 DEF Coming
  <2> QED BY <1>11, <2>2, <2>3
<1>13. NoneSurvives(held, cursor)'
  <2>1. NoneSurvives(known, h)
    BY <1>7, <1>10
  <2>2. NoneSurvives(known, h)'
    BY <1>5, <2>1 DEF NoneSurvives, Barred
  <2> QED BY <1>11, <2>2
<1>14. \A i \in expected' \ held' : Told(i, cursor)'
  <2>1. \A i \in w \ d : Told(i, h)
    BY <1>7, <1>10 DEF Continues
  <2>2. \A i : Told(i, h)' <=> Told(i, h)
    BY <1>5 DEF Told
  <2>3. \A i \in w \ known : Told(i, h)'
    BY <1>7, <1>10, <2>1, <2>2
  <2> QED BY <1>11, <2>3
<1>15. ReplayTypes'
  <2>1. held' \subseteq 1..items' /\ cursor' \in Nat /\ cursor' <= seq'
    BY <1>5, <1>8, <1>9
  <2>2. expected' \subseteq 1..items'
    BY <1>1, <1>5 DEF ReplayTypes
  <2> QED BY <1>1, <1>4, <1>5, <2>1, <2>2 DEF ReplayTypes
<1>16. Phases'
  BY <1>5 DEF Phases
<1>17. ClientInv'
  BY <1>5, <1>12, <1>13, <1>14 DEF ClientInv
<1>18. \A g \in Range(history') : FrameOK(g)'
  BY <1>1, <1>5 DEF FrameOK
<1>19. missed' = {} /\ stale' \subseteq overtaken'
  BY <1>1, <1>5, <1>7
<1> QED BY <1>15, <1>16, <1>17, <1>18, <1>19 DEF ReplayInv

\* A gap sends the client to a load; what came before it, it forgets.
LEMMA GapKeeps ==
    ASSUME ReplayInv, ~synced, Receive, Head(outq).kind = "gap" PROVE ReplayInv'
<1>1. /\ ReplayTypes /\ Phases /\ ClientInv /\ missed = {} /\ stale \subseteq overtaken
      /\ \A g \in Range(history) : FrameOK(g)
  BY DEF ReplayInv
<1>2. outq # <<>> /\ bound
  BY DEF Receive
<1>3. asked = "catchup" /\ GapAt(outq, 1)
  BY <1>2, HeadOfReplay
<1>4. PICK q, t : q = outq /\ t = Tail(q)
  OBVIOUS
<1>5. q \in Seq(Messages) /\ q # <<>>
  BY <1>1, <1>2, <1>4 DEF ReplayTypes
<1>6. /\ Len(q) \in Nat \ {0}
      /\ t \in Seq(Messages) /\ Len(t) = Len(q) - 1
      /\ \A k \in 1..Len(q) - 1 : t[k] = q[k + 1]
  BY <1>4, <1>5, ReadsHead
<1>7. /\ outq' = t /\ asked' = "load" /\ staged' = {}
      /\ UNCHANGED <<synced, cursor, held, missed, stale, overtaken, expected>>
      /\ UNCHANGED <<history, seq, evicted, rejected, items, running, gone>>
      /\ UNCHANGED <<bound, replay>>
  BY <1>4 DEF Receive, Commit, bufVars
<1>8. ReplayTypes'
  BY <1>1, <1>6, <1>7 DEF ReplayTypes
<1>9. Phases'
  BY <1>1, <1>2, <1>7 DEF Phases
<1>10. StagedIsLive' /\ \A k \in 1..Len(outq') : IsLive(outq[k])'
  <2>1. ASSUME NEW k \in 1..Len(t) PROVE IsLive(t[k])'
    <3>1. PICK x : x = t[k]
      OBVIOUS
    <3>2. k + 1 \in 1..Len(q) /\ k + 1 # 1 /\ x = q[k + 1]
      BY <1>6, <3>1
    <3>3. IsLive(x)
      BY <1>3, <1>4, <3>2 DEF GapAt
    <3>4. IsLive(x)'
      BY <1>7, <3>3 DEF IsLive
    <3> QED BY <3>1, <3>4
  <2> QED BY <1>7, <2>1 DEF StagedIsLive
<1>11. ClientInv'
  <2>1. /\ NoneSurvives(held, cursor)'
        /\ \A i \in expected' \ held' : Told(i, cursor)'
    BY <1>1, <1>7, CursorWaits
  <2>2. ~synced' /\ asked' # "catchup" /\ asked' # "loading"
    BY <1>7
  <2> QED BY <1>10, <2>1, <2>2 DEF ClientInv
<1>12. \A g \in Range(history') : FrameOK(g)'
  BY <1>1, <1>7 DEF FrameOK
<1> QED BY <1>1, <1>7, <1>8, <1>9, <1>11, <1>12 DEF ReplayInv

LEMMA ReceiveKeeps == ASSUME ReplayInv, Receive PROVE ReplayInv'
<1>1. ReplayTypes /\ Phases /\ ClientInv
  BY DEF ReplayInv
<1>2. outq # <<>> /\ bound /\ outq' = Tail(outq)
      /\ UNCHANGED <<bufVars, items, running, gone, bound, replay, drops>>
  BY DEF Receive
<1>3. CASE synced
  <2>1. PICK m : m = Head(outq)
    OBVIOUS
  <2>2. m.kind = "update"
    <3>1. outq \in Seq(Messages) /\ asked = "none"
      BY <1>1, <1>3 DEF ReplayTypes, Phases
    <3>2. m = outq[1] /\ Len(outq) \in Nat \ {0}
      BY <1>2, <2>1, <3>1, ReadsHead
    <3>3. 1 \in 0+1..Len(outq)
      BY <3>2
    <3>4. IsLive(outq[1])
      BY <1>1, <1>3, <3>1, <3>3 DEF ClientInv, Continues, Coming
    <3> QED BY <3>2, <3>4 DEF IsLive
  <2> QED BY <1>3, <2>1, <2>2, UpdateKeeps
<1>4. CASE ~synced
  <2>1. CASE Head(outq).kind = "update"
    BY <1>4, <2>1, StageKeeps
  <2>2. CASE Head(outq).kind = "gap"
    BY <1>4, <2>2, GapKeeps
  <2>3. CASE Head(outq).kind = "caughtup"
    <3>1. Commit(Head(outq), held \cup staged)
      BY <2>3 DEF Receive
    <3>2. asked = "catchup" /\ Completes(outq, 1, held)
      BY <1>2, <1>4, <2>3, HeadOfReplay
    <3>3. held \in SUBSET (1..items) /\ (asked = "loading" => replay = <<>>)
      BY <1>1, <3>2 DEF ReplayTypes
    <3> QED BY <1>2, <3>1, <3>2, <3>3, CommitKeeps
  <2>4. CASE Head(outq).kind = "loaded"
    <3>1. Commit(Head(outq), {} \cup staged)
      <4>1. {} \cup staged = staged
        OBVIOUS
      <4> QED BY <2>4, <4>1 DEF Receive
    <3>2. replay = <<>> /\ Completes(outq, 1, {})
      BY <1>2, <1>4, <2>4, HeadOfReplay
    <3>3. {} \in SUBSET (1..items)
      OBVIOUS
    <3> QED BY <1>2, <3>1, <3>2, <3>3, CommitKeeps
  <2>5. Head(outq).kind \in {"update", "gap", "caughtup", "loaded"}
    BY DEF Receive
  <2> QED BY <2>1, <2>2, <2>3, <2>4, <2>5
<1> QED BY <1>3, <1>4

LEMMA ReplayStarts == ReplayInit => ReplayInv
<1> SUFFICES ASSUME ReplayInit PROVE ReplayInv
  OBVIOUS
<1>1. /\ history = <<>> /\ seq = 0 /\ evicted = 0 /\ rejected = {}
      /\ items = 0 /\ running = {} /\ gone = {} /\ expected = {}
      /\ bound = TRUE /\ outq = <<>> /\ replay = <<>>
      /\ synced = TRUE /\ asked = "none" /\ cursor = 0
      /\ held = {} /\ staged = {} /\ missed = {} /\ stale = {}
      /\ overtaken = {}
  BY DEF ReplayInit, NoReplay
<1>2. history \in Seq(Frames) /\ outq \in Seq(Messages) /\ replay \in Seq(Messages)
  BY <1>1
<1>3. ReplayTypes
  BY <1>1, <1>2 DEF ReplayTypes
<1>4. Phases
  BY <1>1 DEF Phases
<1>5. Continues(Coming, 0, held, cursor, expected)
  <2>1. Coming = <<>> /\ Len(<<>>) = 0
    BY <1>1 DEF Coming
  <2>2. \A k \in 0+1..0 : FALSE
    OBVIOUS
  <2> QED BY <1>1, <2>1, <2>2 DEF Continues
<1>6. ClientInv
  BY <1>1, <1>5 DEF ClientInv, NoneSurvives
<1>7. Range(history) = {}
  BY <1>1 DEF Range
<1> QED BY <1>1, <1>3, <1>4, <1>6, <1>7 DEF ReplayInv

LEMMA ReplayStutters == ASSUME ReplayInv, UNCHANGED replayVars PROVE ReplayInv'
<1>1. /\ ReplayTypes /\ Phases /\ ClientInv /\ missed = {} /\ stale \subseteq overtaken
      /\ \A g \in Range(history) : FrameOK(g)
  BY DEF ReplayInv
<1>2. /\ UNCHANGED <<history, seq, evicted, rejected, items, running, gone>>
      /\ UNCHANGED <<asked, synced, held, staged, cursor, overtaken, expected>>
      /\ UNCHANGED <<bound, outq, replay, missed, stale>>
  BY DEF replayVars, bufVars, convVars, clientVars
<1>3. BufferMoves /\ Coming' = Coming
  BY <1>1, <1>2, QuietMoves DEF Coming
<1>4. ClientInv'
  BY <1>1, <1>2, <1>3, ClientWaits
<1>5. ReplayTypes'
  BY <1>1, <1>2 DEF ReplayTypes
<1>6. Phases'
  BY <1>1, <1>2 DEF Phases
<1>7. \A g \in Range(history') : FrameOK(g)'
  BY <1>1, <1>2 DEF FrameOK
<1> QED BY <1>1, <1>2, <1>4, <1>5, <1>6, <1>7 DEF ReplayInv

LEMMA ReplayStep == ReplayInv /\ [ReplayNext]_replayVars => ReplayInv'
<1> SUFFICES ASSUME ReplayInv, [ReplayNext]_replayVars PROVE ReplayInv'
  OBVIOUS
<1>1. ASSUME NEW numbered \in BOOLEAN, AgentUpdate(numbered) PROVE ReplayInv'
  BY <1>1, AgentUpdateKeeps
<1>2. CASE Prompt
  BY <1>2, PromptKeeps
<1>3. ASSUME NEW p \in 1..MaxItems, Reject(p) PROVE ReplayInv'
  BY <1>3, RejectKeeps
<1>4. ASSUME NEW p \in 1..MaxItems, Finish(p) PROVE ReplayInv'
  BY <1>4, FinishKeeps
<1>5. CASE Drop
  BY <1>5, DropKeeps
<1>6. CASE Reattach
  BY <1>6, ReattachKeeps
<1>7. CASE AskCatchUp
  BY <1>7, AskCatchUpKeeps
<1>8. CASE LoadSnapshot
  BY <1>8, LoadSnapshotKeeps
<1>9. CASE LoadForward
  BY <1>9, LoadForwardKeeps
<1>10. CASE Receive
  BY <1>10, ReceiveKeeps
<1>11. CASE UNCHANGED replayVars
  BY <1>11, ReplayStutters
<1> QED BY <1>1, <1>2, <1>3, <1>4, <1>5, <1>6, <1>7, <1>8, <1>9, <1>10, <1>11 DEF ReplayNext

\* A client whose catch-up or load completed has every update of the
\* conversation it was promised, and no prompt that the buffer took back
\* before, except one it held when a live update carried its cursor past the
\* rejected range (catchUp, recoverLoad, invalidatePromptLocked).
THEOREM ReplaysAreFaithful == ReplaySpec => []ReplayIsFaithful
<1>1. ReplayInv => ReplayIsFaithful
  BY DEF ReplayInv, ReplayIsFaithful, NothingMissed, NothingStale
<1> QED BY <1>1, ReplayStarts, ReplayStep, PTL DEF ReplaySpec

-----------------------------------------------------------------------------
(* The bounds of the replay buffer.                                        *)

\* Numbers are drawn for updates, for prompts and for prompts taken back, and a
\* cursor is refused only for a message that had a number.
BoundsInv ==
    /\ items <= MaxItems /\ Len(history) <= MaxHistory
    /\ running \cap gone = {} /\ IsFiniteSet(gone) /\ seq <= items + Cardinality(gone)
    /\ \A f \in Range(history) : f.promptID # NotAPrompt => f.seq # 0
    /\ \A r \in rejected : 1 <= r[1] /\ r[1] <= r[2]
    /\ cursorOf \in {"live", "caughtup", "loaded"}

LEMMA AppendHistoryFits ==
    ASSUME history \in Seq(Frames), Len(history) <= MaxHistory, NEW f \in Frames, AppendHistory(f)
    PROVE  Len(history') <= MaxHistory
<1>1. PICK all, t : all = Append(history, f) /\ t = Tail(all)
  OBVIOUS
<1>2. /\ all \in Seq(Frames) /\ Len(all) = Len(history) + 1 /\ Len(history) \in Nat
      /\ MaxHistory \in Nat
  BY <1>1, ReplayConstants
<1>3. PICK kept : /\ kept = IF Len(all) > MaxHistory THEN SubSeq(t, FirstKept(t), Len(t)) ELSE all
                  /\ history' = kept
  BY <1>1 DEF AppendHistory
<1>4. CASE Len(all) > MaxHistory
  <2>1. t \in Seq(Frames) /\ Len(t) = Len(history)
    BY <1>1, <1>2
  <2>2. Len(kept) \in Nat /\ Len(kept) <= Len(t)
    <3>1. FirstKept(t) \in Nat \ {0}
      <4>1. PICK users : users = {k \in DOMAIN t : t[k].user}
        OBVIOUS
      <4>2. users \in SUBSET Nat /\ \A k \in users : k # 0
        BY <2>1, <4>1
      <4>3. FirstKept(t) = IF users = {} THEN 1 ELSE Min(users)
        BY <4>1 DEF FirstKept
      <4>4. users # {} => Min(users) \in users
        BY <4>2, LeastOfNaturals
      <4>5. CASE users = {}
        BY <4>3, <4>5
      <4>6. CASE users # {}
        <5>1. Min(users) \in users /\ FirstKept(t) = Min(users)
          BY <4>3, <4>4, <4>6
        <5> QED BY <4>2, <5>1, Zenon
      <4> QED BY <4>5, <4>6
    <3>2. PICK a, l : a = FirstKept(t) /\ l = Len(t)
      OBVIOUS
    <3>3. a \in Nat \ {0} /\ l \in Nat /\ \A i \in a..l : t[i] \in Frames
      BY <1>2, <2>1, <3>1, <3>2
    <3>4. Len(SubSeq(t, a, l)) = IF a <= l THEN l - a + 1 ELSE 0
      BY <3>3, SubSeqProperties
    <3>5. kept = SubSeq(t, a, l)
      <4>1. kept = SubSeq(t, FirstKept(t), Len(t))
        BY <1>3, <1>4, Zenon
      <4> QED BY <3>2, <4>1, Zenon
    <3>6. PICK n : n = Len(SubSeq(t, a, l))
      OBVIOUS
    <3>7. n \in Nat /\ n <= l
      BY <3>3, <3>4, <3>6
    <3>8. Len(kept) = n
      BY <3>5, <3>6, Zenon
    <3>9. l = Len(t)
      BY <3>2, Zenon
    <3> QED BY <3>7, <3>8, <3>9
  <2>3. Len(kept) <= MaxHistory
    BY <1>2, <2>1, <2>2
  <2> QED BY <1>3, <2>3, Zenon
<1>5. CASE ~(Len(all) > MaxHistory)
  <2>1. history' = all
    BY <1>3, <1>5, Zenon
  <2> QED BY <1>2, <1>5, <2>1
<1> QED BY <1>4, <1>5

\* A new item, numbered or not.
LEMMA AppendBounds ==
    ASSUME ReplayInv, BoundsInv, items < MaxItems, items' = items + 1,
           seq' = seq \/ seq' = seq + 1,
           NEW f \in Frames, AppendHistory(f), f.promptID # NotAPrompt => f.seq # 0,
           f.gapBoundary <= seq' + 1, f.seq <= seq',
           running' \subseteq running \cup {items + 1}, UNCHANGED <<gone, rejected, cursorOf>>
    PROVE  BoundsInv'
<1>1. /\ history \in Seq(Frames) /\ items \in Nat /\ seq \in Nat /\ gone \subseteq 1..items
      /\ ReplayTypes /\ \A g \in Range(history) : FrameOK(g)
  BY DEF ReplayInv, ReplayTypes
<1>2. Len(history') <= MaxHistory
  BY <1>1, AppendHistoryFits DEF BoundsInv
<1>3. items' <= MaxItems
  BY <1>1, ReplayConstants
<1>4. running' \cap gone' = {}
  BY <1>1 DEF BoundsInv
<1>5. seq' <= items' + Cardinality(gone') /\ IsFiniteSet(gone')
  <2>1. Cardinality(gone) \in Nat /\ IsFiniteSet(gone) /\ seq <= items + Cardinality(gone)
    BY FS_CardinalityType DEF BoundsInv
  <2>2. PICK n \in Nat : n = Cardinality(gone)
    BY <2>1
  <2>3. seq <= items + 1 + n /\ seq + 1 <= items + 1 + n
    BY <1>1, <2>1, <2>2
  <2> QED BY <2>1, <2>2, <2>3
<1>6. Range(history') \subseteq Range(history) \cup {f}
  <2>1. PICK s : s = seq'
    OBVIOUS
  <2>2. s \in Nat /\ seq <= s
    BY <1>1, <2>1
  <2> QED BY <1>1, <2>1, <2>2, AppendHistoryKeeps
<1>7. \A g \in Range(history') : g.promptID # NotAPrompt => g.seq # 0
  BY <1>6 DEF BoundsInv
<1> QED BY <1>2, <1>3, <1>4, <1>5, <1>7 DEF BoundsInv

\* The ends of a prompt.
LEMMA PromptEndsBounds ==
    ASSUME ReplayInv, BoundsInv, NEW p, running' \subseteq running,
           UNCHANGED <<history, seq, rejected, items, gone, cursorOf>>
    PROVE  BoundsInv'
  BY DEF BoundsInv

LEMMA RejectBounds == ASSUME ReplayInv, BoundsInv, NEW p, Reject(p) PROVE BoundsInv'
<1>1. /\ ReplayTypes /\ history \in Seq(Frames) /\ items \in Nat /\ seq \in Nat
      /\ \A g \in Range(history) : FrameOK(g) /\ g \in Frames
  BY DEF ReplayInv, ReplayTypes, Range
<1>2. /\ p \in running /\ running' = running \ {p} /\ items' = items /\ cursorOf' = cursorOf
  BY DEF Reject, clientVars
<1>3. CASE ~Forgettable(p)
  <2>1. UNCHANGED <<history, rejected, seq, gone>>
    BY <1>3 DEF Reject
  <2> QED BY <1>2, <2>1 DEF BoundsInv
<1>4. CASE Forgettable(p)
  <2>1. PICK f, gap : /\ f = CHOOSE x \in Range(history) : x.promptID = p
                      /\ gap = {x \in Range(history) : x.promptID = p}
    OBVIOUS
  <2>2. /\ history' = Without(history, gap)
        /\ rejected' = Invalidated(f.seq)
        /\ seq' = seq + 1
        /\ gone' = gone \cup {p}
    BY <1>4, <2>1 DEF Reject, ReservedHead
  <2>3. f \in Range(history) /\ f.promptID = p /\ p # NotAPrompt
    <3>1. \E x \in Range(history) : x.promptID = p
      BY <1>4 DEF Forgettable, Range
    <3>2. p \in 1..items
      BY <1>1, <1>2 DEF ReplayTypes
    <3> QED BY <1>1, <2>1, <3>1, <3>2 DEF NotAPrompt
  <2>4. f.seq \in Nat /\ 1 <= f.seq /\ f.seq <= seq
    <3>1. f.seq \in Nat /\ f.seq <= seq /\ f.seq # 0
      BY <1>1, <2>3 DEF FrameOK, Frames, BoundsInv
    <3> QED BY <3>1
  <2>5. Len(history') <= MaxHistory /\ Range(history') \subseteq Range(history)
    <3>1. PICK h : h = Without(history, gap)
      OBVIOUS
    <3>2. /\ h \in Seq(Frames) /\ Len(h) = Cardinality(Kept(history, gap))
          /\ \A g : (\E j \in 1..Len(h) : h[j] = g)
                       <=> g \notin gap /\ \E i \in 1..Len(history) : history[i] = g
      BY <1>1, <3>1, WithoutKeeps
    <3>3. Cardinality(Kept(history, gap)) \in Nat /\ Cardinality(Kept(history, gap)) <= Len(history)
      BY <1>1, KeptIsFinite
    <3>4. Len(history) \in Nat /\ Len(history) <= MaxHistory /\ MaxHistory \in Nat
      BY <1>1, ReplayConstants DEF BoundsInv
    <3>5. Len(h) <= MaxHistory
      BY <3>2, <3>3, <3>4
    <3>6. Range(h) \subseteq Range(history)
      BY <1>1, <3>2 DEF Range
    <3> QED BY <2>2, <3>1, <3>5, <3>6
  <2>6. \A r \in rejected' : 1 <= r[1] /\ r[1] <= r[2]
    <3>1. PICK current, touched :
              /\ current = {r \in rejected : r[2] >= evicted}
              /\ touched = {r \in current : r[2] + 1 >= f.seq}
      OBVIOUS
    <3>2. PICK lows, low : lows = {f.seq} \cup {r[1] : r \in touched} /\ low = Min(lows)
      OBVIOUS
    <3>3. Invalidated(f.seq) = (current \ touched) \cup {<<low, seq>>}
      BY <3>1, <3>2, Zenon DEF Invalidated
    <3>4. \A r \in rejected : r \in Nat \X Nat /\ 1 <= r[1] /\ r[1] <= r[2]
      BY <1>1 DEF ReplayTypes, BoundsInv
    <3>5. lows \in SUBSET Nat /\ lows # {} /\ \A x \in lows : 1 <= x
      BY <2>4, <3>1, <3>2, <3>4
    <3>6. low \in lows /\ \A x \in lows : low <= x
      BY <3>2, <3>5, LeastOfNaturals
    <3>7. low \in Nat /\ 1 <= low /\ low <= seq
      BY <1>1, <2>4, <3>2, <3>5, <3>6
    <3>8. PICK r : r = <<low, seq>>
      OBVIOUS
    <3>9. r[1] = low /\ r[2] = seq
      BY <3>8
    <3>10. \A x \in current \ touched : 1 <= x[1] /\ x[1] <= x[2]
      BY <3>1, <3>4
    <3>11. \A x \in rejected' : x \in current \ touched \/ x = r
      BY <2>2, <3>3, <3>8
    <3> QED BY <3>7, <3>9, <3>10, <3>11
  <2>7. IsFiniteSet(gone') /\ seq' <= items' + Cardinality(gone')
    <3>1. IsFiniteSet(gone) /\ p \notin gone /\ seq <= items + Cardinality(gone)
      BY <1>2 DEF BoundsInv
    <3>2. IsFiniteSet(gone \cup {p}) /\ Cardinality(gone \cup {p}) = Cardinality(gone) + 1
      BY <3>1, FS_AddElement
    <3>3. Cardinality(gone) \in Nat
      BY <3>1, FS_CardinalityType
    <3>4. PICK n \in Nat : n = Cardinality(gone)
      BY <3>3
    <3>5. seq + 1 <= items + (n + 1)
      BY <1>1, <3>1, <3>4
    <3> QED BY <1>2, <2>2, <3>2, <3>4, <3>5
  <2>8. running' \cap gone' = {}
    BY <1>2, <2>2 DEF BoundsInv
  <2>9. \A g \in Range(history') : g.promptID # NotAPrompt => g.seq # 0
    BY <2>5 DEF BoundsInv
  <2>10. items' <= MaxItems /\ cursorOf' \in {"live", "caughtup", "loaded"}
    BY <1>2 DEF BoundsInv
  <2> QED BY <2>5, <2>6, <2>7, <2>8, <2>9, <2>10 DEF BoundsInv
<1> QED BY <1>3, <1>4

\* A step of the client leaves the buffer.
LEMMA ClientBounds ==
    ASSUME BoundsInv, UNCHANGED <<history, seq, rejected, items, running, gone>>,
           cursorOf' \in {"live", "caughtup", "loaded"}
    PROVE  BoundsInv'
  BY DEF BoundsInv

LEMMA BoundsStep == ReplayInv /\ BoundsInv /\ [ReplayNext]_replayVars => BoundsInv'
<1> SUFFICES ASSUME ReplayInv, BoundsInv, [ReplayNext]_replayVars PROVE BoundsInv'
  OBVIOUS
<1>0. items \in Nat /\ seq \in Nat /\ cursorOf \in {"live", "caughtup", "loaded"}
  BY DEF ReplayInv, ReplayTypes, BoundsInv
<1>1. ASSUME NEW numbered \in BOOLEAN, AgentUpdate(numbered) PROVE BoundsInv'
  <2>1. PICK n, s, f :
            /\ n = IF numbered THEN seq + 1 ELSE 0
            /\ s = IF numbered THEN seq + 1 ELSE seq
            /\ f = [item |-> items + 1, seq |-> n, user |-> FALSE, promptID |-> NotAPrompt,
                    gapBoundary |-> s + 1]
    OBVIOUS
  <2>2. s \in Nat /\ n \in Nat /\ n <= s /\ (s = seq \/ s = seq + 1)
    BY <1>0, <2>1
  <2>3. seq' = s
    BY <1>1, <2>1 DEF AgentUpdate
  <2>4. /\ items < MaxItems /\ items' = items + 1 /\ AppendHistory(f)
        /\ UNCHANGED <<rejected, running, gone, clientVars>>
    BY <1>1, <2>1, <2>3 DEF AgentUpdate
  <2>5. f \in Frames /\ f.promptID = NotAPrompt /\ f.seq = n /\ f.gapBoundary = s + 1
    <3>1. items + 1 \in Nat /\ s + 1 \in Nat /\ NotAPrompt \in Nat
      BY <1>0, <2>2 DEF NotAPrompt
    <3> QED BY <2>1, <2>2, <3>1 DEF Frames
  <2>6. f.seq <= s /\ f.gapBoundary <= s + 1
    BY <2>2, <2>5
  <2>7. f.seq <= seq' /\ f.gapBoundary <= seq' + 1 /\ (seq' = seq \/ seq' = seq + 1)
    BY <2>2, <2>3, <2>6
  <2> QED BY <2>4, <2>5, <2>7, AppendBounds DEF clientVars
<1>2. CASE Prompt
  <2>1. PICK f : f = [item |-> items + 1, seq |-> seq + 1, user |-> TRUE, promptID |-> items + 1,
                      gapBoundary |-> seq + 1 + 1]
    OBVIOUS
  <2>2. /\ items < MaxItems /\ items' = items + 1 /\ seq' = seq + 1
        /\ running' = running \cup {items + 1}
        /\ UNCHANGED <<rejected, gone, clientVars>>
    BY <1>2 DEF Prompt
  <2>3. AppendHistory(f)
    BY <1>2, <2>1, <2>2 DEF Prompt
  <2>4. f \in Frames /\ f.seq = seq + 1 /\ f.gapBoundary = seq + 1 + 1
    BY <1>0, <2>1 DEF Frames
  <2>5. f.seq # 0 /\ f.seq <= seq' /\ f.gapBoundary <= seq' + 1
    BY <1>0, <2>2, <2>4
  <2> QED BY <2>2, <2>3, <2>4, <2>5, AppendBounds DEF clientVars
<1>3. ASSUME NEW p \in 1..MaxItems, Reject(p) PROVE BoundsInv'
  BY <1>3, RejectBounds
<1>4. ASSUME NEW p \in 1..MaxItems, Finish(p) PROVE BoundsInv'
  BY <1>4, PromptEndsBounds DEF Finish, bufVars, clientVars
<1>5. CASE Drop
  BY <1>0, <1>5, ClientBounds DEF Drop, bufVars, convVars
<1>6. CASE Reattach
  BY <1>0, <1>6, ClientBounds DEF Reattach, bufVars, convVars, clientVars
<1>7. CASE AskCatchUp
  BY <1>0, <1>7, ClientBounds DEF AskCatchUp, bufVars, convVars
<1>8. CASE LoadSnapshot
  BY <1>0, <1>8, ClientBounds DEF LoadSnapshot, bufVars, convVars
<1>9. CASE LoadForward
  BY <1>0, <1>9, ClientBounds DEF LoadForward, bufVars, convVars, clientVars
<1>10. CASE Receive
  <2>1. UNCHANGED <<history, seq, rejected, items, running, gone>>
    BY <1>10 DEF Receive, bufVars
  <2>2. cursorOf' \in {"live", "caughtup", "loaded"}
    BY <1>0, <1>10 DEF Receive, Commit
  <2> QED BY <2>1, <2>2, ClientBounds
<1>11. CASE UNCHANGED replayVars
  BY <1>0, <1>11, ClientBounds DEF replayVars, bufVars, convVars, clientVars
<1> QED BY <1>1, <1>2, <1>3, <1>4, <1>5, <1>6, <1>7, <1>8, <1>9, <1>10, <1>11 DEF ReplayNext

LEMMA BoundsStart == ReplayInit => BoundsInv
<1> SUFFICES ASSUME ReplayInit PROVE BoundsInv
  OBVIOUS
<1>1. /\ items = 0 /\ seq = 0 /\ gone = {} /\ running = {} /\ rejected = {}
      /\ history = <<>> /\ cursorOf = "live"
  BY DEF ReplayInit
<1>2. Len(history) = 0 /\ Range(history) = {}
  BY <1>1 DEF Range
<1>3. Cardinality(gone) = 0 /\ IsFiniteSet(gone)
  BY <1>1, FS_EmptySet
<1>4. 0 <= MaxItems /\ 0 <= MaxHistory /\ 0 <= 0 + 0
  BY ReplayConstants
<1> QED BY <1>1, <1>2, <1>3, <1>4 DEF BoundsInv

\* The replay buffer never holds more than its cap, whatever arrives; its marks
\* stay below the numbers it drew, and a rejected range is one (appendHistoryLocked,
\* invalidatePromptLocked).
THEOREM BufferKeepsItsBounds == ReplaySpec => []ReplayTypeOK
<1>1. ASSUME ReplayInv, BoundsInv PROVE ReplayTypeOK
  <2>1. /\ ReplayTypes /\ \A f \in Range(history) : FrameOK(f)
        /\ items \in Nat /\ seq \in Nat /\ evicted \in Nat /\ evicted <= seq + 1
        /\ history \in Seq(Frames) /\ gone \subseteq 1..items /\ items <= MaxItems
        /\ MaxItems \in Nat
    BY <1>1, ReplayConstants DEF ReplayInv, ReplayTypes, BoundsInv
  <2>2. ASSUME NEW k \in DOMAIN history
        PROVE  /\ history[k].item \in 1..MaxItems /\ history[k].seq \in 0..seq
               /\ history[k].promptID \in {NotAPrompt, history[k].item}
    <3>1. PICK f : f = history[k]
      OBVIOUS
    <3>2. f \in Frames /\ FrameOK(f)
      <4>1. f \in Range(history)
        BY <3>1 DEF Range
      <4> QED BY <2>1, <3>1, <4>1
    <3>3. f.item \in 1..items /\ f.seq <= seq /\ f.seq \in Nat /\ f.promptID \in {NotAPrompt, f.item}
      BY <3>2 DEF FrameOK, Frames
    <3>4. f.item \in 1..MaxItems /\ f.seq \in 0..seq
      BY <2>1, <3>3
    <3> QED BY <3>1, <3>3, <3>4
  <2>3. seq \in 0..2 * MaxItems
    <3>1. IsFiniteSet(1..items) /\ Cardinality(1..items) = items
      <4>1. 1 \in Int /\ items \in Int
        BY <2>1
      <4>2. /\ IsFiniteSet(1..items)
            /\ Cardinality(1..items) = IF 1 > items THEN 0 ELSE items - 1 + 1
        BY <4>1, FS_Interval
      <4> QED BY <2>1, <4>2
    <3>2. Cardinality(gone) <= items /\ Cardinality(gone) \in Nat
      BY <2>1, <3>1, FS_Subset, FS_CardinalityType
    <3>3. seq <= items + Cardinality(gone)
      BY <1>1 DEF BoundsInv
    <3> QED BY <2>1, <3>2, <3>3
  <2>4. evicted \in 0..seq + 1
    BY <2>1
  <2>5. \A r \in rejected : r[1] \in 1..r[2] /\ r[2] \in 1..seq
    <3> SUFFICES ASSUME NEW r \in rejected PROVE r[1] \in 1..r[2] /\ r[2] \in 1..seq
      OBVIOUS
    <3>1. r[1] \in Nat /\ r[2] \in Nat /\ r[2] <= seq /\ 1 <= r[1] /\ r[1] <= r[2]
      BY <1>1, <2>1 DEF ReplayTypes, BoundsInv
    <3> QED BY <2>1, <3>1
  <2>6. cursor \in 0..seq /\ held \cup staged \subseteq 1..items
    BY <2>1 DEF ReplayTypes
  <2>7. asked \in {"none", "catchup", "load", "loading"}
    BY <2>1 DEF ReplayTypes
  <2>8. Len(history) <= MaxHistory /\ cursorOf \in {"live", "caughtup", "loaded"}
    BY <1>1 DEF BoundsInv
  <2> QED BY <2>2, <2>3, <2>4, <2>5, <2>6, <2>7, <2>8 DEF ReplayTypeOK
<1> QED BY <1>1, ReplayStarts, ReplayStep, BoundsStart, BoundsStep, PTL DEF ReplaySpec
=============================================================================
