---------------------------- MODULE ClientQueue ----------------------------
(***************************************************************************)
(* The outbound half of internal/session/pump.go: the drain loop forwards  *)
(* the agent's frames to the queue of the bound client, a writer goroutine *)
(* per client writes them to its WebSocket, and Attach, Detach, an         *)
(* overflowing backlog, a failed write or the end of the drain loop take   *)
(* the client away.                                                        *)
(*                                                                         *)
(* A client is named by its connection generation.  Frames are numbered in *)
(* the order the drain loop handles them and all have size one, so the     *)
(* queue's cap in bytes is a number of frames.  A critical section of      *)
(* clientMu is one step; closing a socket happens after it.                *)
(***************************************************************************)
EXTENDS Naturals, Sequences, FiniteSets

CONSTANTS
    MaxQueue,     \* maxClientQueueBytes, in frames
    MaxBurst,     \* the frames of one forward: a replay has several
    MaxConns,     \* bound: connections
    MaxFrames     \* bound: frames of the agent

ASSUME QueueConstants ==
    MaxQueue \in Nat /\ MaxBurst \in Nat /\ MaxConns \in Nat /\ MaxFrames \in Nat

VARIABLES
    boundTo,    \* p.client: the generation of the bound client, 0 when nil
    lastGen,    \* p.connGen
    frames,     \* generation -> clientQueue.frames
    ready,      \* generation -> clientQueue.ready holds a wake-up
    cancelled,  \* generations whose writerCtx is cancelled
    writer,     \* generation -> none, waiting, woken, writing, flushing, done
    batch,      \* generation -> what the writer took and has not written
    socket,     \* generation -> none, open, closed
    toClose,    \* sockets CloseNow is about to be called on
    received,   \* generation -> the frames its client got
    made,       \* frames the agent has written so far
    drain,      \* the drain loop: running, flushing, done, gaveUp
    lastClient  \* the client it found when it ended

queueVars == <<frames, ready>>
writerVars == <<writer, batch, socket, received>>
drainVars == <<drain, lastClient>>
vars == <<boundTo, lastGen, queueVars, cancelled, writerVars, toClose, made, drainVars>>

Conns == 1 .. MaxConns
NoClient == 0

Init ==
    /\ boundTo = NoClient /\ lastGen = 0
    /\ frames = [g \in Conns |-> <<>>]
    /\ ready = [g \in Conns |-> FALSE]
    /\ cancelled = {} /\ toClose = {}
    /\ writer = [g \in Conns |-> "none"]
    /\ batch = [g \in Conns |-> <<>>]
    /\ socket = [g \in Conns |-> "none"]
    /\ received = [g \in Conns |-> <<>>]
    /\ made = 0 /\ drain = "running" /\ lastClient = NoClient

\* Taking the client away under clientMu: p.client = nil and stopWriterLocked.
Unbind ==
    /\ boundTo' = NoClient
    /\ cancelled' = IF boundTo = NoClient THEN cancelled ELSE cancelled \cup {boundTo}

\* Attach: the client of the generation before is evicted and then closed.
Attach ==
    /\ lastGen < MaxConns
    /\ Unbind
    /\ lastGen' = lastGen + 1
    /\ toClose' = toClose \cup ({boundTo} \ {NoClient})
    /\ UNCHANGED <<queueVars, writerVars, made, drainVars>>

\* Bind and startWriterLocked: only for the newest generation of a live pump.
Bind(g) ==
    /\ g = lastGen /\ socket[g] = "none" /\ drain = "running"
    /\ boundTo' = g
    /\ socket' = [socket EXCEPT ![g] = "open"]
    /\ writer' = [writer EXCEPT ![g] = "waiting"]
    /\ UNCHANGED <<lastGen, queueVars, cancelled, batch, toClose, received, made, drainVars>>

\* Detach, from the handler of a connection whose socket has closed.
Detach(g) ==
    /\ socket[g] = "closed" /\ g = lastGen /\ boundTo = g
    /\ Unbind
    /\ UNCHANGED <<lastGen, queueVars, writerVars, toClose, made, drainVars>>

\* A client's socket fails or its client goes away.
SocketDies(g) ==
    /\ socket[g] = "open"
    /\ socket' = [socket EXCEPT ![g] = "closed"]
    /\ UNCHANGED <<boundTo, lastGen, queueVars, cancelled, writer, batch, toClose, received, made, drainVars>>

\* CloseNow, after clientMu was released.
CloseNow(g) ==
    /\ g \in toClose
    /\ toClose' = toClose \ {g}
    /\ socket' = [socket EXCEPT ![g] = "closed"]
    /\ UNCHANGED <<boundTo, lastGen, queueVars, cancelled, writer, batch, received, made, drainVars>>
-----------------------------------------------------------------------------
(* The drain loop.                                                         *)

\* push: how many of n frames a queue of length k takes before one is refused.
\* An empty queue takes a frame of any size.
Taken(k, n) == CHOOSE m \in 0 .. n :
    /\ \A i \in 1 .. m : k + i <= MaxQueue \/ k + i = 1
    /\ m < n => ~(k + m + 1 <= MaxQueue \/ k + m + 1 = 1)

Burst(n) == [i \in 1 .. n |-> made + i]

\* An overflow that drops the frames and keeps the client.
DropsOnOverflow(g, n) == FALSE

\* queueLocked: whether the burst overflows the queue of g.
Overflows(g, n) == Taken(Len(frames[g]), n) < n

\* A channel without a buffer: a writer that is not waiting misses the wake-up.
WakesOnlyWaiter(g) == [ready EXCEPT ![g] = @ \/ writer[g] = "waiting"]

\* The send on q.ready, which never blocks.
Wake(g) == [ready EXCEPT ![g] = TRUE]

\* forward: a burst for the bound client is queued, one for nobody is discarded.
Forward(n) ==
    /\ drain = "running" /\ made + n <= MaxFrames
    /\ made' = made + n
    /\ IF boundTo = NoClient
       THEN UNCHANGED <<boundTo, queueVars, cancelled, toClose>>
       ELSE LET g == boundTo
                m == Taken(Len(frames[g]), n) IN
            /\ frames' = [frames EXCEPT ![g] = @ \o SubSeq(Burst(n), 1, m)]
            /\ ready' = IF m > 0 THEN Wake(g) ELSE ready
            /\ IF Overflows(g, n)
               THEN Unbind /\ toClose' = toClose \cup {g}
               ELSE UNCHANGED <<boundTo, cancelled, toClose>>
    /\ UNCHANGED <<lastGen, writerVars, drainVars>>

\* Agent stdout closes or the session is torn down: p.closed, the writer is
\* stopped, p.client stays.
DrainStops ==
    /\ drain = "running"
    /\ drain' = "flushing" /\ lastClient' = boundTo
    /\ cancelled' = IF boundTo = NoClient THEN cancelled ELSE cancelled \cup {boundTo}
    /\ UNCHANGED <<boundTo, lastGen, queueVars, writerVars, toClose, made>>

\* The loop closes the client without waiting for its writer.
ClosesAtOnce == TRUE

\* <-writerDone, when there is a writer.
FlushAwaited == lastClient # NoClient => writer[lastClient] = "done"

\* The wait is over, or took too long; the client is closed.
DrainEnds(how) ==
    /\ drain = "flushing"
    /\ drain' = how
    /\ toClose' = toClose \cup ({lastClient} \ {NoClient})
    /\ UNCHANGED <<boundTo, lastGen, queueVars, cancelled, writerVars, made, lastClient>>

DrainFlushed == FlushAwaited /\ DrainEnds("done")
DrainGivesUp == ~FlushAwaited /\ DrainEnds("gaveUp")
-----------------------------------------------------------------------------
(* clientWriterLoop.                                                       *)

\* The select: a wake-up or a cancelled context, whichever it picks.
WriterWakes(g) ==
    /\ writer[g] = "waiting" /\ ready[g]
    /\ writer' = [writer EXCEPT ![g] = "woken"]
    /\ ready' = [ready EXCEPT ![g] = FALSE]
    /\ UNCHANGED <<boundTo, lastGen, frames, cancelled, batch, socket, received, toClose, made, drainVars>>

\* take, after a wake-up or to flush the tail.
WriterTakes(g) ==
    /\ \/ writer[g] = "woken" /\ writer' = [writer EXCEPT ![g] = "writing"]
       \/ /\ writer[g] = "waiting" /\ g \in cancelled
          /\ writer' = [writer EXCEPT ![g] = "flushing"]
    /\ batch' = [batch EXCEPT ![g] = frames[g]]
    /\ frames' = [frames EXCEPT ![g] = <<>>]
    /\ UNCHANGED <<boundTo, lastGen, ready, cancelled, socket, received, toClose, made, drainVars>>

\* A write that reaches the client.
WriteFrame(g) ==
    /\ writer[g] \in {"writing", "flushing"} /\ batch[g] # <<>> /\ socket[g] = "open"
    /\ received' = [received EXCEPT ![g] = Append(@, Head(batch[g]))]
    /\ batch' = [batch EXCEPT ![g] = Tail(@)]
    /\ UNCHANGED <<boundTo, lastGen, queueVars, cancelled, writer, socket, toClose, made, drainVars>>

\* A write that fails: the library closes a socket whose write failed.  The
\* writer clears the client if it is still its own and goes; a flush ignores it.
WriteFails(g) ==
    /\ writer[g] \in {"writing", "flushing"} /\ batch[g] # <<>> /\ socket[g] = "closed"
    /\ batch' = [batch EXCEPT ![g] = Tail(@)]
    /\ IF writer[g] = "flushing"
       THEN UNCHANGED <<writer, boundTo, cancelled, toClose>>
       ELSE /\ writer' = [writer EXCEPT ![g] = "done"]
            /\ toClose' = toClose \cup {g}
            /\ IF boundTo = g THEN Unbind ELSE UNCHANGED <<boundTo, cancelled>>
    /\ UNCHANGED <<lastGen, queueVars, socket, received, made, drainVars>>

\* The batch is written: back to the select, or the flush is over.
BatchDone(g) ==
    /\ writer[g] \in {"writing", "flushing"} /\ batch[g] = <<>>
    /\ writer' = [writer EXCEPT ![g] = IF writer[g] = "writing" THEN "waiting" ELSE "done"]
    /\ UNCHANGED <<boundTo, lastGen, queueVars, cancelled, batch, socket, received, toClose, made, drainVars>>

WriterStep(g) ==
    WriterWakes(g) \/ WriterTakes(g) \/ WriteFrame(g) \/ WriteFails(g) \/ BatchDone(g)

Next ==
    \/ Attach \/ DrainStops \/ DrainFlushed \/ DrainGivesUp
    \/ \E n \in 1 .. MaxBurst : Forward(n)
    \/ \E g \in Conns :
          Bind(g) \/ Detach(g) \/ SocketDies(g) \/ CloseNow(g) \/ WriterStep(g)

Spec == Init /\ [][Next]_vars

\* Goroutines go on and a healthy socket takes its writes.
Fairness ==
    /\ WF_vars(DrainFlushed)
    /\ \A g \in Conns : WF_vars(WriterStep(g)) /\ WF_vars(CloseNow(g))

FairSpec == Spec /\ Fairness
-----------------------------------------------------------------------------
(* Properties.                                                             *)

\* "a JSON-RPC stream missing frames is worse than a reconnect" (queueLocked) and
\* "flush whatever is still queued so the client receives the tail before the
\* conn closes" (clientWriterLoop): whatever overflows, is taken over or fails, what
\* a connection received has no hole and no repeat, and a client whose connection
\* stayed good to the end of the agent has its last frame before the pump closes.
WholeStream ==
    /\ \A g \in Conns : \A i \in 1 .. Len(received[g]) - 1 :
           received[g][i + 1] = received[g][i] + 1
    /\ (drain = "done" /\ lastClient # NoClient /\ socket[lastClient] = "open")
           => frames[lastClient] = <<>> /\ batch[lastClient] = <<>>

\* A frame queued for a client is written or its socket closes: no wake-up is
\* lost between push and the writer's select, and no writer stays behind.
QueuedIsWritten ==
    \A g \in Conns : frames[g] # <<>> ~> (frames[g] = <<>> \/ socket[g] = "closed")
=============================================================================
