----------------------------- MODULE TurnFeed -----------------------------
(***************************************************************************)
(* internal/turns/feed.go and the stream handlers of internal/api/turns.go *)
(* that consume it.  Run is one goroutine: every request it serves, every  *)
(* poke, window and backstop tick is one step.  Mutation sites change the  *)
(* turns first and poke afterwards, or forget to.                          *)
(*                                                                         *)
(* A snapshot is a function from turn keys to statuses, Absent for a turn  *)
(* that is not there; the nil f.last is the snapshot with no turn.  A      *)
(* change gives a key its new status (Absent: removed) or Keep.            *)
(***************************************************************************)
EXTENDS Naturals, Sequences, FiniteSets, SequencesExt, Lists

CONSTANTS
    Keys,            \* turn keys
    Statuses,        \* what a turn can be
    Streams,         \* stream handlers, each opens one subscription
    Device,          \* the device of each stream
    MaxSubs,         \* maxSubscriptions
    MaxPerDevice,    \* maxStreamsPerDevice
    MaxQueue,        \* maxQueuedChanges
    MaxMutations,    \* bound: changes of the turns
    Absent, Keep

ASSUME FeedConstants ==
    /\ MaxSubs \in Nat \ {0} /\ MaxPerDevice \in Nat \ {0} /\ MaxQueue \in Nat \ {0}
    /\ MaxMutations \in Nat
    /\ Absent \notin Statuses /\ Keep \notin Statuses /\ Absent # Keep

VARIABLES
    world,     \* what TurnSnapshot would return
    mutations, \* how often it changed
    owed,      \* a mutation site is between its change and its poke
    changed,   \* the poke channel, capacity one
    window,    \* a sample is scheduled
    last,      \* f.last
    sampled,   \* the sample taken last, which f.last should be while read
    subs,      \* f.subs
    active,    \* the readied ones
    order,     \* byDevice: each device's active streams, oldest first
    base,      \* Subscription.base, the snapshot Subscribe handed out
    queue,     \* Subscription.changes
    err,       \* Subscription.err, "open" before the end
    pc,        \* stream handler: idle, writing, ready, streaming, leaving, done
    view,      \* what the stream's client knows
    stopped    \* Run has returned

worldVars == <<world, mutations, owed>>
runVars   == <<changed, window, stopped>>
feedVars  == <<last, sampled, subs, active, order, base, queue, err>>
vars == <<worldVars, runVars, feedVars, pc, view>>

Devices == {Device[s] : s \in Streams}
Snapshots == [Keys -> Statuses \cup {Absent}]
Empty == [k \in Keys |-> Absent]
Nothing == [k \in Keys |-> Keep]

\* diffTurns: upserts for what is new or differs, removals for what is gone.
DiffUpsertsOnly(a, b) ==
    [k \in Keys |-> IF a[k] = b[k] \/ b[k] = Absent THEN Keep ELSE b[k]]

DiffTurns(a, b) == [k \in Keys |-> IF a[k] = b[k] THEN Keep ELSE b[k]]

\* What a client does with a change.  [External: the client.]
Apply(v, c) == [k \in Keys |-> IF c[k] = Keep THEN v[k] ELSE c[k]]

Init ==
    /\ world \in {Empty} /\ mutations = 0 /\ owed = FALSE
    /\ changed = FALSE /\ window = FALSE /\ stopped = FALSE
    /\ last = Empty /\ sampled = Empty
    /\ subs = {} /\ active = {}
    /\ order = [d \in Devices |-> <<>>]
    /\ base = [s \in Streams |-> Empty]
    /\ queue = [s \in Streams |-> <<>>]
    /\ err = [s \in Streams |-> "open"]
    /\ pc = [s \in Streams |-> "idle"]
    /\ view = [s \in Streams |-> Empty]

-----------------------------------------------------------------------------
(* Mutation sites.                                                         *)

\* A turn starts, changes or goes; its site will poke, or forgets to.
Mutate(k, v) ==
    /\ mutations < MaxMutations /\ world[k] # v
    /\ world' = [world EXCEPT ![k] = v]
    /\ mutations' = mutations + 1
    /\ owed' \in {owed, TRUE}
    /\ UNCHANGED <<runVars, feedVars, pc, view>>

\* Changed: never blocks, a full channel swallows the poke.
Changed ==
    /\ owed
    /\ owed' = FALSE
    /\ changed' = TRUE
    /\ UNCHANGED <<world, mutations, window, stopped, feedVars, pc, view>>

-----------------------------------------------------------------------------
(* Run.                                                                    *)

\* An end that keeps the device's entry of the ended stream.
OrderKept(ord, S) == ord

\* slices.DeleteFunc, for each device.
OrderWithout(ord, S) == [d \in Devices |-> Without(ord[d], S)]

\* The subscriptions a change cannot be queued for.  The first variant drops
\* the change instead of ending the stream.
NeverSlow(c) == {}

Slow(c) == {s \in active : c # Nothing /\ Len(queue[s]) = MaxQueue}

\* A queue after a sample: one message more, if there is something to say.
Queued(q, c, full) == IF c = Nothing \/ full THEN q ELSE Append(q, c)

\* sample: publish the difference from what was published last, and end whoever
\* cannot take it.  joining is the stream whose Subscribe asked for the sample.
Sample(joining) ==
    LET c == DiffTurns(last, world)
        S == Slow(c)
    IN  /\ sampled' = world
        /\ active' = active \ S
        /\ subs' = (subs \ S) \cup joining
        /\ last' = IF S # {} /\ subs \ S = {} THEN Empty ELSE world
        /\ order' = OrderWithout(order, S)
        /\ queue' = [s \in Streams |->
               IF s \in S THEN <<>>
               ELSE IF s \in active THEN Queued(queue[s], c, Len(queue[s]) = MaxQueue)
               ELSE queue[s]]
        /\ err' = [s \in Streams |-> IF s \in S THEN "slow" ELSE err[s]]

\* end of one subscription outside a sample.
End(s, why) ==
    /\ subs' = subs \ {s}
    /\ active' = active \ {s}
    /\ order' = OrderWithout(order, {s})
    /\ queue' = [queue EXCEPT ![s] = <<>>]
    /\ err' = [err EXCEPT ![s] = why]
    /\ last' = IF subs \ {s} = {} THEN Empty ELSE last

\* The poke is taken: schedule a sample, or forget when nobody reads.
TakePoke ==
    /\ ~stopped /\ changed
    /\ changed' = FALSE
    /\ window' = (window \/ subs # {})
    /\ last' = IF subs = {} THEN Empty ELSE last
    /\ UNCHANGED <<worldVars, stopped, sampled, subs, active, order, base, queue, err,
                   pc, view>>

WindowFires ==
    /\ ~stopped /\ window
    /\ window' = FALSE
    /\ Sample({})
    /\ UNCHANGED <<worldVars, changed, stopped, base, pc, view>>

BackstopFires ==
    /\ ~stopped /\ subs # {}
    /\ Sample({})
    /\ UNCHANGED <<worldVars, runVars, base, pc, view>>

\* subscribeRequest.serve: a full feed refuses; otherwise the sample is both the
\* caller's snapshot and the difference the others must not miss.
ServeSubscribe(s) ==
    /\ ~stopped /\ pc[s] = "idle"
    /\ IF Cardinality(subs) >= MaxSubs
       THEN /\ pc' = [pc EXCEPT ![s] = "done"]
            /\ UNCHANGED <<feedVars, view>>
       ELSE /\ Sample({s})
            /\ base' = [base EXCEPT ![s] = world]
            /\ pc' = [pc EXCEPT ![s] = "writing"]
            /\ UNCHANGED view
    /\ UNCHANGED <<worldVars, runVars>>

\* A limit that counts one stream too many.
OverLimitByOne(streams) == IF Len(streams) > MaxPerDevice + 1 THEN {streams[1]} ELSE {}

\* The device's streams over its limit: the oldest goes.
OverLimit(streams) == IF Len(streams) > MaxPerDevice THEN {streams[1]} ELSE {}

\* Subscribe gives up before Run takes the request: the client went away.
SubscribeCancelled(s) ==
    /\ pc[s] = "idle"
    /\ pc' = [pc EXCEPT ![s] = "done"]
    /\ UNCHANGED <<worldVars, runVars, feedVars, view>>

\* readyRequest.serve: the catch-up from the snapshot handed out, then the
\* device limit.
ServeReady(s) ==
    LET d == Device[s]
        streams == Append(order[d], s)
        S == OverLimit(streams)
        c == DiffTurns(base[s], last)
    IN
    /\ ~stopped /\ pc[s] = "ready"
    /\ pc' = [pc EXCEPT ![s] = "streaming"]
    /\ IF s \in subs \ active
       THEN /\ active' = (active \cup {s}) \ S
            /\ subs' = subs \ S
            /\ order' = OrderWithout([order EXCEPT ![d] = streams], S)
            /\ base' = [base EXCEPT ![s] = Empty]
            /\ queue' = [q \in Streams |->
                   IF q \in S THEN <<>>
                   ELSE IF q = s /\ c # Nothing THEN <<c>> ELSE queue[q]]
            /\ err' = [q \in Streams |-> IF q \in S THEN "superseded" ELSE err[q]]
       ELSE UNCHANGED <<subs, active, order, base, queue, err>>
    /\ UNCHANGED <<worldVars, runVars, last, sampled, view>>

\* A handler that leaves without closing its subscription.
ServeCloseNothing(s) ==
    /\ ~stopped /\ pc[s] = "leaving"
    /\ pc' = [pc EXCEPT ![s] = "done"]
    /\ UNCHANGED <<worldVars, runVars, feedVars, view>>

\* closeRequest.serve; end is a no-op for a subscription already ended.
ServeClose(s) ==
    /\ ~stopped /\ pc[s] = "leaving"
    /\ pc' = [pc EXCEPT ![s] = "done"]
    /\ IF s \in subs THEN End(s, "closed")
       ELSE UNCHANGED <<last, subs, active, order, queue, err>>
    /\ UNCHANGED <<worldVars, runVars, sampled, base, view>>

\* The context of Run is cancelled: every subscription ends, then done closes.
Stop ==
    /\ ~stopped
    /\ stopped' = TRUE
    /\ subs' = {} /\ active' = {}
    /\ order' = [d \in Devices |-> <<>>]
    /\ queue' = [s \in Streams |-> IF s \in subs THEN <<>> ELSE queue[s]]
    /\ err' = [s \in Streams |-> IF s \in subs THEN "stopped" ELSE err[s]]
    /\ last' = IF subs = {} THEN last ELSE Empty
    /\ UNCHANGED <<worldVars, changed, window, sampled, base, pc, view>>

-----------------------------------------------------------------------------
(* The stream handler.                                                     *)

\* run: the snapshot is written to the client before Ready.
WriteSnapshot(s) ==
    /\ pc[s] = "writing"
    /\ view' = [view EXCEPT ![s] = base[s]]
    /\ pc' = [pc EXCEPT ![s] = "ready"]
    /\ UNCHANGED <<worldVars, runVars, feedVars>>

\* One change is taken off the channel, written and applied.
Consume(s) ==
    /\ pc[s] = "streaming" /\ queue[s] # <<>>
    /\ view' = [view EXCEPT ![s] = Apply(@, Head(queue[s]))]
    /\ queue' = [queue EXCEPT ![s] = Tail(@)]
    /\ UNCHANGED <<worldVars, runVars, last, sampled, subs, active, order, base, err, pc>>

\* The channel is closed, the client left, or a write failed or the request was
\* cancelled while the subscription was being made.
Leave(s) ==
    /\ pc[s] \in {"writing", "streaming"}
    /\ pc' = [pc EXCEPT ![s] = "leaving"]
    /\ UNCHANGED <<worldVars, runVars, feedVars, view>>

\* A Ready or a Close that waits for its ack alone.
AckOnly(s) ==
    /\ stopped /\ pc[s] = "idle"
    /\ pc' = [pc EXCEPT ![s] = "done"]
    /\ UNCHANGED <<worldVars, runVars, feedVars, view>>

\* After Run has returned every request returns at once.
AfterStop(s) ==
    /\ stopped /\ pc[s] \in {"idle", "ready", "leaving"}
    /\ pc' = [pc EXCEPT ![s] = IF @ = "ready" THEN "streaming" ELSE "done"]
    /\ UNCHANGED <<worldVars, runVars, feedVars, view>>

ChannelClosed(s) == pc[s] = "streaming" /\ s \notin subs

Serve(s) == ServeSubscribe(s) \/ ServeReady(s) \/ ServeClose(s)

Next ==
    \/ \E k \in Keys, v \in Statuses \cup {Absent} : Mutate(k, v)
    \/ Changed \/ TakePoke \/ WindowFires \/ BackstopFires \/ Stop
    \/ \E s \in Streams :
           Serve(s) \/ SubscribeCancelled(s) \/ WriteSnapshot(s) \/ Consume(s)
             \/ Leave(s) \/ AfterStop(s)

Spec == Init /\ [][Next]_vars

\* Run keeps running and its timers fire, mutation sites that poke do so, and a
\* handler goes on with what it can do; clients are free to stay or to leave.
Fairness ==
    /\ WF_vars(Changed) /\ WF_vars(TakePoke) /\ WF_vars(WindowFires)
    /\ WF_vars(BackstopFires)
    /\ \A s \in Streams :
           /\ WF_vars(ServeReady(s)) /\ WF_vars(ServeClose(s)) /\ WF_vars(AfterStop(s))
           /\ WF_vars(WriteSnapshot(s)) /\ WF_vars(Consume(s))
           /\ WF_vars(ChannelClosed(s) /\ Leave(s))

FairSpec == Spec /\ Fairness
-----------------------------------------------------------------------------
(* Properties.                                                             *)

TypeOK ==
    /\ world \in Snapshots /\ last \in Snapshots /\ sampled \in Snapshots
    /\ mutations \in 0..MaxMutations
    /\ {owed, changed, window, stopped} \subseteq BOOLEAN
    /\ subs \subseteq Streams /\ active \subseteq subs
    /\ \A d \in Devices : order[d] \in Seq(Streams)
    /\ base \in [Streams -> Snapshots] /\ view \in [Streams -> Snapshots]
    /\ \A s \in Streams : Len(queue[s]) <= MaxQueue
    /\ err \in [Streams -> {"open", "slow", "superseded", "closed", "stopped"}]
    /\ pc \in [Streams -> {"idle", "writing", "ready", "streaming", "leaving", "done"}]

\* What the changes q make of the snapshot v, one after the other.
AddUp(v, q, l) ==
    \E known \in [1..Len(q) + 1 -> Snapshots] :
        /\ known[1] = v /\ known[Len(q) + 1] = l
        /\ \A i \in 1..Len(q) : known[i + 1] = Apply(known[i], q[i])

\* No change is lost, doubled or put out of order between a sample and a
\* client: the snapshot a client was handed, its catch-up and its backlog
\* always add up to what the feed says it published (feed.go, f.last).
BacklogAddsUpToLast == \A s \in active : AddUp(view[s], queue[s], last)

\* A subscription is held only by a handler that has still to close it, and
\* there are no more of them than the feed takes.
SubsHeld ==
    /\ \A s \in subs : pc[s] \in {"writing", "ready", "streaming", "leaving"}
    /\ Cardinality(subs) <= MaxSubs

\* Every slot is given back: to the feed, and to the device, whose list holds
\* exactly its active streams, each once and no more than the limit (end,
\* readyRequest.serve).
SlotsGivenBack ==
    /\ SubsHeld
    /\ \A d \in Devices :
           /\ ToSet(order[d]) = {s \in active : Device[s] = d}
           /\ Len(order[d]) = Cardinality(ToSet(order[d]))
           /\ Len(order[d]) <= MaxPerDevice

\* Once the turns stop changing, every stream that stays open ends up showing
\* them, also when the mutation site forgot its poke (the backstop) or a
\* consumer left everybody's samples at nil.
StreamsConverge ==
    \A s \in Streams : <>[](pc[s] = "streaming" /\ s \in subs => view[s] = world)

\* A handler whose subscription was ended finds out and gives its goroutine
\* back, also when Run has returned.
EndedStreamsLeave ==
    \A s \in Streams : err[s] # "open" ~> pc[s] = "done"

\* Every stream comes to rest: it shows the turns, or it has ended and its
\* handler is gone.
StreamsComeToRest == StreamsConverge /\ EndedStreamsLeave

\* "One goroutine does both, so no change can fall between a subscriber's
\* snapshot and its first message" (feed.go, subscribeRequest.serve): a
\* subscriber is promised the turns of the latest sample.
CatchUpIsTheSample == \A s \in active : AddUp(view[s], queue[s], sampled)
=============================================================================
