----------------------------- MODULE EdgeProofs -----------------------------
(***************************************************************************)
(* What holds at the gateway's edges for any number of gateways on a host, *)
(* connections, frames, limits and released versions: remote access, the   *)
(* service commands, and the queue of the bound client.                    *)
(***************************************************************************)
EXTENDS ClientQueue, Remote, Service, SequenceTheorems, TLAPS
-----------------------------------------------------------------------------
(* Remote access.                                                          *)

AttemptTypes ==
    /\ at \in [Gateways -> {"down", "detect", "lock", "set", "url", "state", "login", "listen",
                            "handoff", "announce", "ready", "retry", "failed", "stopped"}]
    /\ closing \in [Gateways -> {"no", "waiting", "closed"}]
    /\ node \in [Gateways -> BOOLEAN] /\ result \in [Gateways -> BOOLEAN]
    /\ nodeState \in [Gateways -> Gateways \cup {NoGateway}]

\* Who sets the endpoint holds the host's lock and found the endpoint free or its
\* own, and the old shared directory belongs to a database that can be found.
HostInv ==
    /\ \A g \in Gateways : at[g] = "set" => cliLock = g /\ endpoint \in {NoGateway, g}
    /\ legacy # NoGateway => legacy \in databases
    /\ \A g \in Gateways : nodeState[g] \in {g, NoGateway}

RemoteInv == AttemptTypes /\ NoLeakedNode /\ HostInv

\* Every step of a gateway moves its own attempt and no other's.
OnlyMoves(g) ==
    /\ \A h \in Gateways \ {g} : /\ at'[h] = at[h] /\ closing'[h] = closing[h]
                                 /\ node'[h] = node[h] /\ result'[h] = result[h]
                                 /\ nodeState'[h] = nodeState[h]
    /\ AttemptTypes'

GatewayStep(g) ==
    \/ Boot(g) \/ Attempt(g) \/ LoopEnds(g)
    \/ CloseBegins(g) \/ CloseTakesResult(g) \/ ProcessExit(g) \/ FinishLogin(g)

LEMMA GatewaysMoveAlone ==
    ASSUME RemoteInv, NEW g \in Gateways, GatewayStep(g)
    PROVE  OnlyMoves(g)
<1>1. AttemptTypes
  BY DEF RemoteInv
<1>2. CASE Boot(g)
  BY <1>1, <1>2 DEF Boot, Goes, OnlyMoves, AttemptTypes
<1>3. CASE LoopEnds(g) \/ CloseBegins(g)
  BY <1>1, <1>3 DEF LoopEnds, CloseBegins, Goes, OnlyMoves, AttemptTypes, dirs
<1>4. CASE CloseTakesResult(g)
  <2>1. (node[g] /\ ~result[g]) \in BOOLEAN
    OBVIOUS
  <2> QED BY <1>1, <1>4, <2>1 DEF CloseTakesResult, OnlyMoves, AttemptTypes, dirs
<1>5. CASE ProcessExit(g)
  BY <1>1, <1>5 DEF ProcessExit, Goes, OnlyMoves, AttemptTypes, dirs
<1>6. CASE FinishLogin(g)
  BY <1>1, <1>6 DEF FinishLogin, OnlyMoves, AttemptTypes, dirs
<1>7. CASE Retry(g) \/ Announce(g)
  BY <1>1, <1>7 DEF Retry, Announce, Goes, OnlyMoves, AttemptTypes, dirs
<1>8. CASE Detect(g)
  BY <1>1, <1>8 DEF Detect, Fails, Retries, Goes, OnlyMoves, AttemptTypes, dirs
<1>9. CASE ReadServeConfig(g) \/ EnableRemote(g)
  BY <1>1, <1>9 DEF ReadServeConfig, EnableRemote, Fails, Retries, Goes, OnlyMoves, AttemptTypes, dirs
<1>10. CASE WaitForURL(g) \/ OpenListener(g)
  BY <1>1, <1>10 DEF WaitForURL, OpenListener, Fails, Retries, Goes, OnlyMoves, AttemptTypes, dirs
<1>11. CASE OpenState(g)
  <2>1. legacy # NoGateway /\ SoleOwner(g) => legacy = g
    BY DEF RemoteInv, HostInv, SoleOwner
  <2>2. \E p \in {"login", "retry", "failed"}, t \in BOOLEAN :
            at' = [at EXCEPT ![g] = p] /\ node' = [node EXCEPT ![g] = t]
    BY <1>11 DEF OpenState, Fails, Retries, Goes
  <2>3. nodeState' = nodeState \/ nodeState' = [nodeState EXCEPT ![g] = g]
    <3>1. CASE legacy = g
      BY <1>1, <1>11, <3>1 DEF OpenState, AttemptTypes
    <3>2. CASE ~SoleOwner(g) \/ legacy = NoGateway
      BY <1>1, <1>11, <3>2 DEF OpenState, AttemptTypes
    <3> QED BY <2>1, <3>1, <3>2
  <2>4. closing' = closing /\ result' = result
    BY <1>11 DEF OpenState
  <2> QED BY <1>1, <2>2, <2>3, <2>4 DEF OnlyMoves, AttemptTypes
<1>12. CASE WaitForLogin(g)
  BY <1>1, <1>12 DEF WaitForLogin, PendingLogin, Fails, Retries, Goes, OnlyMoves, AttemptTypes, dirs
<1>13. CASE HandOff(g)
  BY <1>1, <1>13 DEF HandOff, Goes, OnlyMoves, AttemptTypes, dirs
<1> QED
  BY <1>2, <1>3, <1>4, <1>5, <1>6, <1>7, <1>8, <1>9, <1>10, <1>11, <1>12, <1>13
  DEF GatewayStep, Attempt

\* The node of the gateway that moves is still somebody's.
LEMMA NodeStaysOwned ==
    ASSUME RemoteInv, NEW g \in Gateways, GatewayStep(g)
    PROVE  node'[g] => \/ at'[g] \in {"login", "listen", "handoff"}
                       \/ result'[g] /\ closing'[g] # "closed"
<1>1. AttemptTypes
  BY DEF RemoteInv
<1>2. node[g] => at[g] \in {"login", "listen", "handoff"} \/ (result[g] /\ closing[g] # "closed")
  BY DEF RemoteInv, NoLeakedNode
<1>3. CASE Boot(g) \/ LoopEnds(g) \/ CloseBegins(g) \/ FinishLogin(g)
  BY <1>1, <1>2, <1>3 DEF Boot, LoopEnds, CloseBegins, FinishLogin, Goes, AttemptTypes
<1>4. CASE CloseTakesResult(g) \/ ProcessExit(g)
  BY <1>1, <1>2, <1>4 DEF CloseTakesResult, ProcessExit, Goes, AttemptTypes
<1>5. CASE Retry(g) \/ Announce(g) \/ HandOff(g)
  BY <1>1, <1>2, <1>5 DEF Retry, Announce, HandOff, TooLate, Goes, AttemptTypes
<1>6. CASE Detect(g)
  BY <1>1, <1>2, <1>6 DEF Detect, Fails, Retries, Goes, AttemptTypes
<1>7. CASE ReadServeConfig(g) \/ EnableRemote(g)
  BY <1>1, <1>2, <1>7 DEF ReadServeConfig, EnableRemote, Fails, Retries, Goes, AttemptTypes
<1>8. CASE WaitForURL(g) \/ OpenListener(g)
  BY <1>1, <1>2, <1>8 DEF WaitForURL, OpenListener, Fails, Retries, Goes, AttemptTypes
<1>9. CASE OpenState(g)
  BY <1>1, <1>2, <1>9 DEF OpenState, Fails, Retries, Goes, AttemptTypes
<1>10. CASE WaitForLogin(g)
  BY <1>1, <1>2, <1>10 DEF WaitForLogin, PendingLogin, Fails, Retries, Goes, AttemptTypes
<1> QED
  BY <1>3, <1>4, <1>5, <1>6, <1>7, <1>8, <1>9, <1>10 DEF GatewayStep, Attempt
\* The lock keeps a second gateway from configuring the endpoint in between,
\* and the old shared directory goes to nobody but its owner.
LEMMA HostStays ==
    ASSUME RemoteInv, NEW g \in Gateways, GatewayStep(g)
    PROVE  /\ HostInv'
           /\ endpoint # NoGateway => endpoint' = endpoint
<1>1. AttemptTypes /\ HostInv
  BY DEF RemoteInv
<1>2. OnlyMoves(g)
  BY GatewaysMoveAlone
<1>3. \A h \in Gateways \ {g} : at'[h] = at[h] /\ nodeState'[h] = nodeState[h]
  BY <1>2 DEF OnlyMoves
<1>4. g # NoGateway
  BY RemoteConstants
<1>5. CASE ReadServeConfig(g)
  <2>1. /\ at'[g] = "set" => cliLock = NoGateway /\ cliLock' = g /\ endpoint \in {NoGateway, g}
        /\ cliLock' = cliLock \/ (cliLock = NoGateway /\ cliLock' = g)
        /\ UNCHANGED <<endpoint, nodeState, legacy, databases>>
    BY <1>1, <1>5 DEF ReadServeConfig, LockFree, Fails, Retries, Goes, AttemptTypes, dirs
  <2>2. \A h \in Gateways : h # NoGateway
    BY RemoteConstants
  <2>3. \A h \in Gateways \ {g} : at'[h] = "set" => cliLock = h
    BY <1>1, <1>3 DEF HostInv
  <2> QED BY <1>1, <1>3, <2>1, <2>2, <2>3 DEF HostInv
<1>6. CASE EnableRemote(g)
  <2>1. /\ cliLock = g /\ endpoint \in {NoGateway, g} /\ at'[g] # "set"
        /\ endpoint' \in {endpoint, g}
        /\ UNCHANGED <<nodeState, legacy, databases>>
    BY <1>1, <1>6 DEF EnableRemote, Fails, Retries, Goes, AttemptTypes, HostInv, dirs
  <2>2. \A h \in Gateways \ {g} : at'[h] # "set"
    BY <1>1, <1>3, <2>1 DEF HostInv
  <2> QED BY <1>1, <1>3, <2>1, <2>2 DEF HostInv
<1>7. CASE ProcessExit(g)
  <2>1. /\ at'[g] # "set" /\ cliLock' = IF cliLock = g THEN NoGateway ELSE cliLock
        /\ UNCHANGED <<endpoint, nodeState, legacy, databases>>
    BY <1>1, <1>7 DEF ProcessExit, Goes, AttemptTypes, dirs
  <2> QED BY <1>1, <1>3, <2>1 DEF HostInv
<1>8. CASE OpenState(g)
  <2>1. at'[g] # "set" /\ UNCHANGED <<endpoint, cliLock, databases>>
    BY <1>1, <1>8 DEF OpenState, Fails, Retries, Goes, AttemptTypes
  <2>2. legacy # NoGateway /\ SoleOwner(g) => legacy = g
    BY <1>1 DEF HostInv, SoleOwner
  <2>3. nodeState'[g] \in {g, NoGateway}
    BY <1>1, <1>8, <2>2 DEF OpenState, HostInv, AttemptTypes
  <2>4. legacy' \in {legacy, NoGateway}
    BY <1>8 DEF OpenState
  <2> QED BY <1>1, <1>3, <2>1, <2>3, <2>4 DEF HostInv
<1>9. CASE Boot(g)
  <2>1. at'[g] # "set" /\ UNCHANGED <<endpoint, cliLock, nodeState, legacy>>
        /\ databases \subseteq databases'
    BY <1>1, <1>9 DEF Boot, Goes, AttemptTypes
  <2> QED BY <1>1, <1>3, <2>1 DEF HostInv
<1>10. CASE LoopEnds(g) \/ CloseBegins(g) \/ CloseTakesResult(g) \/ FinishLogin(g)
  <2>1. at'[g] # "set" \/ at'[g] = at[g]
    BY <1>1, <1>10 DEF LoopEnds, CloseBegins, CloseTakesResult, FinishLogin, Goes, AttemptTypes
  <2>2. UNCHANGED <<endpoint, cliLock, nodeState, legacy, databases>>
    BY <1>10 DEF LoopEnds, CloseBegins, CloseTakesResult, FinishLogin, dirs
  <2> QED BY <1>1, <1>3, <2>1, <2>2 DEF HostInv
<1>11. CASE Retry(g) \/ Announce(g) \/ HandOff(g) \/ Detect(g)
  <2>1. at'[g] # "set"
    BY <1>1, <1>11 DEF Retry, Announce, HandOff, Detect, Fails, Retries, Goes, AttemptTypes
  <2>2. UNCHANGED <<endpoint, cliLock, nodeState, legacy, databases>>
    BY <1>11 DEF Retry, Announce, HandOff, Detect, dirs
  <2> QED BY <1>1, <1>3, <2>1, <2>2 DEF HostInv
<1>12. CASE WaitForURL(g) \/ WaitForLogin(g) \/ OpenListener(g)
  <2>1. at'[g] # "set"
    BY <1>1, <1>12
    DEF WaitForURL, WaitForLogin, PendingLogin, OpenListener, Fails, Retries, Goes, AttemptTypes
  <2>2. UNCHANGED <<endpoint, cliLock, nodeState, legacy, databases>>
    BY <1>12 DEF WaitForURL, WaitForLogin, OpenListener, dirs
  <2> QED BY <1>1, <1>3, <2>1, <2>2 DEF HostInv
<1> QED
  BY <1>5, <1>6, <1>7, <1>8, <1>9, <1>10, <1>11, <1>12 DEF GatewayStep, Attempt

LEMMA RemoteStart == RemInit => RemoteInv
<1> SUFFICES ASSUME RemInit PROVE RemoteInv
  OBVIOUS
<1>1. AttemptTypes /\ NoLeakedNode
  BY DEF RemInit, AttemptTypes, NoLeakedNode
<1>2. HostInv
  BY DEF RemInit, HostInv
<1> QED BY <1>1, <1>2 DEF RemoteInv

\* A step of the operator, or none, leaves gateways and host as they are.
LEMMA RemoteFrame ==
    ASSUME RemoteInv,
           UNCHANGED <<at, closing, node, result, endpoint, cliLock, nodeState, legacy, databases>>
    PROVE  RemoteInv'
BY DEF RemoteInv, AttemptTypes, NoLeakedNode, HostInv

LEMMA RemoteStep ==
    RemoteInv /\ [RemNext]_remVars =>
        RemoteInv' /\ (endpoint # NoGateway => endpoint' = endpoint)
<1> SUFFICES ASSUME RemoteInv, [RemNext]_remVars
             PROVE  RemoteInv' /\ (endpoint # NoGateway => endpoint' = endpoint)
  OBVIOUS
<1>1. ASSUME NEW g \in Gateways, GatewayStep(g)
      PROVE  RemoteInv' /\ (endpoint # NoGateway => endpoint' = endpoint)
  <2>1. OnlyMoves(g)
    BY <1>1, GatewaysMoveAlone
  <2>2. NoLeakedNode'
    <3> SUFFICES ASSUME NEW h \in Gateways
                 PROVE  node'[h] => \/ at'[h] \in {"login", "listen", "handoff"}
                                    \/ result'[h] /\ closing'[h] # "closed"
      BY DEF NoLeakedNode
    <3>1. CASE h = g
      BY <1>1, <3>1, NodeStaysOwned
    <3>2. CASE h # g
      BY <2>1, <3>2 DEF OnlyMoves, RemoteInv, NoLeakedNode
    <3> QED BY <3>1, <3>2
  <2> QED BY <1>1, <2>1, <2>2, HostStays DEF RemoteInv, OnlyMoves
<1>2. CASE SignIn \/ AllowFunnel
  BY <1>2, RemoteFrame DEF SignIn, AllowFunnel, dirs
<1>3. CASE UNCHANGED remVars
  BY <1>3, RemoteFrame DEF remVars
<1> QED BY <1>1, <1>2, <1>3 DEF RemNext, GatewayStep

\* An embedded node that is alive has somebody who will close it, for any number
\* of gateways, however their attempts outlive the grace of Close
\* (Access.Provision, Access.Close).
THEOREM NodesAreClosed == RemSpec => []NoLeakedNode
<1>1. RemoteInv => NoLeakedNode
  BY DEF RemoteInv
<1> QED BY <1>1, RemoteStart, RemoteStep, PTL DEF RemSpec

\* No gateway takes the host's endpoint from another, or the node identity of
\* another's database (EnableRemote, embeddedStateDir).
THEOREM HostIsShared == RemSpec => GatewaysKeepApart
<1> DEFINE Apart == /\ endpoint # NoGateway => endpoint' = endpoint
                    /\ \A g \in Gateways : nodeState'[g] \in {g, NoGateway}
<1>1. RemoteInv /\ [RemNext]_remVars => [Apart]_remVars
  BY RemoteStep DEF RemoteInv, HostInv
<1>2. RemSpec => [][Apart]_remVars
  BY <1>1, RemoteStart, RemoteStep, PTL DEF RemSpec
<1> QED BY <1>2 DEF GatewaysKeepApart

-----------------------------------------------------------------------------
(* The queue of a client.                                                  *)

\* The frames of q are the b + 1st, the b + 2nd, and so on.
RunOf(q, b) == \A i \in 1..Len(q) : q[i] = b + i

QueueTypes ==
    /\ frames \in [Conns -> Seq(Nat)] /\ batch \in [Conns -> Seq(Nat)]
    /\ received \in [Conns -> Seq(Nat)] /\ made \in Nat
    /\ boundTo \in 0..MaxConns /\ lastGen \in 0..MaxConns /\ lastClient \in 0..MaxConns
    /\ writer \in [Conns -> {"none", "waiting", "woken", "writing", "flushing", "done"}]
    /\ socket \in [Conns -> {"none", "open", "closed"}]
    /\ drain \in {"running", "flushing", "done", "gaveUp"}

\* While its socket is good, what a client got, what its writer holds and what is
\* queued for it follow one another, up to the latest frame if it is bound.
StreamFrom(g, b) ==
    /\ RunOf(received[g], b)
    /\ socket[g] # "closed" =>
           /\ RunOf(batch[g], b + Len(received[g]))
           /\ RunOf(frames[g], b + Len(received[g]) + Len(batch[g]))
           /\ boundTo = g /\ drain = "running" =>
                  b + Len(received[g]) + Len(batch[g]) + Len(frames[g]) = made

\* A writer flushes once, when nothing is queued any more.
WriterOK(g) ==
    /\ writer[g] \in {"none", "waiting", "woken"} => batch[g] = <<>>
    /\ socket[g] = "none" =>
           /\ received[g] = <<>> /\ frames[g] = <<>> /\ writer[g] = "none"
           /\ boundTo # g /\ g \notin cancelled
    /\ writer[g] = "flushing" => g \in cancelled
    /\ writer[g] \in {"flushing", "done"} /\ socket[g] # "closed" => frames[g] = <<>>
    /\ writer[g] = "done" /\ socket[g] # "closed" => batch[g] = <<>> /\ g \in cancelled
    /\ g \in cancelled /\ boundTo = g => drain # "running"

ConnOK(g) == WriterOK(g) /\ \E b \in Nat : StreamFrom(g, b)

QueueInv ==
    /\ QueueTypes
    /\ \A g \in Conns : ConnOK(g)
    /\ drain = "done" /\ lastClient # NoClient => writer[lastClient] = "done"

LEMMA RunHead ==
    ASSUME NEW q \in Seq(Nat), NEW b \in Nat, RunOf(q, b), q # <<>>
    PROVE  Head(q) = b + 1 /\ RunOf(Tail(q), b + 1) /\ Len(Tail(q)) = Len(q) - 1
<1>1. /\ Len(q) \in Nat \ {0} /\ Len(Tail(q)) = Len(q) - 1 /\ Head(q) = q[1]
      /\ \A i \in 1..Len(q) - 1 : Tail(q)[i] = q[i + 1]
  OBVIOUS
<1>2. \A i \in 1..Len(q) - 1 : q[i + 1] = b + (i + 1)
  BY <1>1 DEF RunOf
<1> QED BY <1>1, <1>2 DEF RunOf

LEMMA RunAppend ==
    ASSUME NEW q \in Seq(Nat), NEW b \in Nat, RunOf(q, b)
    PROVE  RunOf(Append(q, b + Len(q) + 1), b)
<1> DEFINE r == Append(q, b + Len(q) + 1)
<1>1. /\ Len(q) \in Nat /\ Len(r) = Len(q) + 1 /\ r[Len(q) + 1] = b + Len(q) + 1
      /\ \A i \in 1..Len(q) : r[i] = q[i]
  OBVIOUS
<1> QED BY <1>1 DEF RunOf

LEMMA RunBurst ==
    ASSUME QueueTypes, NEW q \in Seq(Nat), NEW b \in Nat, RunOf(q, b), b + Len(q) = made,
           NEW n \in Nat, NEW m \in 0..n
    PROVE  /\ q \o SubSeq(Burst(n), 1, m) \in Seq(Nat)
           /\ Len(q \o SubSeq(Burst(n), 1, m)) = Len(q) + m
           /\ RunOf(q \o SubSeq(Burst(n), 1, m), b)
<1>1. made \in Nat
  BY DEF QueueTypes
<1>2. PICK s : s = SubSeq(Burst(n), 1, m)
  OBVIOUS
<1>3. Burst(n) \in Seq(Nat) /\ Len(Burst(n)) = n /\ \A i \in 1..n : Burst(n)[i] = made + i
  BY <1>1 DEF Burst
<1>4. s \in Seq(Nat) /\ Len(s) = m /\ \A i \in 1..m : s[i] = made + i
  BY <1>2, <1>3
<1>5. PICK t : t = q \o s
  OBVIOUS
<1>6. /\ t \in Seq(Nat) /\ Len(t) = Len(q) + m
      /\ \A i \in 1..Len(q) : t[i] = q[i]
      /\ \A i \in Len(q) + 1..Len(q) + m : t[i] = s[i - Len(q)]
  <2>1. /\ t \in Seq(Nat) /\ Len(t) = Len(q) + Len(s)
        /\ \A i \in 1..Len(q) + Len(s) : t[i] = IF i <= Len(q) THEN q[i] ELSE s[i - Len(q)]
    BY <1>4, <1>5, ConcatProperties, Zenon
  <2>2. Len(q) \in Nat /\ m \in Nat /\ Len(s) = m
    BY <1>4
  <2>3. \A i \in 1..Len(q) : i \in 1..Len(q) + m /\ i <= Len(q)
    BY <2>2
  <2>4. \A i \in Len(q) + 1..Len(q) + m : i \in 1..Len(q) + m /\ ~(i <= Len(q))
    BY <2>2
  <2>5. Len(t) = Len(q) + m
    BY <2>1, <2>2
  <2>6. \A i \in 1..Len(q) + m : t[i] = IF i <= Len(q) THEN q[i] ELSE s[i - Len(q)]
    BY <2>1, <2>2
  <2> QED BY <2>1, <2>3, <2>4, <2>5, <2>6, Zenon
<1>7. ASSUME NEW i \in 1..Len(t) PROVE t[i] = b + i
  <2>1. Len(q) \in Nat /\ i \in 1..Len(q) + m
    BY <1>6
  <2>2. CASE i \in 1..Len(q)
    BY <1>6, <2>2 DEF RunOf
  <2>3. CASE i \in Len(q) + 1..Len(q) + m
    <3>1. i - Len(q) \in 1..m
      BY <2>1, <2>3
    <3>2. t[i] = made + (i - Len(q))
      BY <1>4, <1>6, <2>3, <3>1
    <3> QED BY <1>1, <2>1, <3>2
  <2> QED BY <2>1, <2>2, <2>3
<1> QED BY <1>2, <1>5, <1>6, <1>7 DEF RunOf

\* push takes a first part of a burst, possibly nothing.
LEMMA TakenIsPart == ASSUME NEW k \in Nat, NEW n \in Nat PROVE Taken(k, n) \in 0..n
<1> DEFINE Part(m) == /\ \A i \in 1..m : k + i <= MaxQueue \/ k + i = 1
                      /\ m < n => ~(k + m + 1 <= MaxQueue \/ k + m + 1 = 1)
           room == IF k = 0 THEN (IF MaxQueue = 0 THEN 1 ELSE MaxQueue)
                   ELSE IF k <= MaxQueue THEN MaxQueue - k ELSE 0
           most == IF room <= n THEN room ELSE n
<1>1. most \in 0..n /\ Part(most)
  BY QueueConstants
<1>2. \E m \in 0..n : Part(m)
  BY <1>1
<1>3. Taken(k, n) = CHOOSE m \in 0..n : Part(m)
  BY DEF Taken
<1> HIDE DEF Part
<1> QED BY <1>2, <1>3, Zenon
\* A step that does not touch a connection's queue, writer and socket leaves it
\* in order, unless it queues frames for somebody else while this one is bound.
LEMMA ConnFrame ==
    ASSUME NEW g \in Conns, ConnOK(g),
           frames'[g] = frames[g], batch'[g] = batch[g], received'[g] = received[g],
           writer'[g] = writer[g], socket'[g] = socket[g],
           boundTo' = g => boundTo = g,
           g \in cancelled => g \in cancelled',
           g \in cancelled' => g \in cancelled \/ boundTo = g,
           boundTo' = g /\ drain' = "running" =>
               drain = "running" /\ made' = made /\ (g \in cancelled' => g \in cancelled)
    PROVE  ConnOK(g)'
<1>1. PICK b \in Nat : StreamFrom(g, b)
  BY DEF ConnOK
<1>2. StreamFrom(g, b)'
  BY <1>1 DEF StreamFrom, RunOf
<1>3. WriterOK(g)'
  BY DEF ConnOK, WriterOK
<1> QED BY <1>2, <1>3 DEF ConnOK

LEMMA QueueStart == Init => QueueInv
<1> SUFFICES ASSUME Init PROVE QueueInv
  OBVIOUS
<1>1. \A b \in Nat : RunOf(<<>>, b)
  BY DEF RunOf
<1>2. QueueTypes
  BY QueueConstants DEF Init, QueueTypes, NoClient
<1>3. ASSUME NEW g \in Conns PROVE ConnOK(g)
  <2>1. g # NoClient
    BY QueueConstants DEF Conns, NoClient
  <2>2. /\ frames[g] = <<>> /\ batch[g] = <<>> /\ received[g] = <<>>
        /\ writer[g] = "none" /\ socket[g] = "none"
    BY DEF Init
  <2>3. StreamFrom(g, 0)
    BY <1>1, <2>1, <2>2 DEF StreamFrom, Init
  <2>4. WriterOK(g)
    BY <2>1, <2>2 DEF WriterOK, Init
  <2> QED BY <2>3, <2>4 DEF ConnOK
<1> QED BY <1>2, <1>3 DEF QueueInv, Init

\* Steps that take the client away or end the drain loop.
LEMMA ClientGoes ==
    ASSUME QueueInv,
           \/ Attach \/ DrainStops \/ DrainFlushed \/ DrainGivesUp
           \/ \E g \in Conns : Detach(g)
    PROVE  QueueInv'
<1>1. QueueTypes
  BY DEF QueueInv
<1>2. UNCHANGED <<frames, batch, received, writer, socket, made>>
  BY DEF Attach, DrainStops, DrainFlushed, DrainGivesUp, DrainEnds, Detach, queueVars, writerVars
<1>3. \/ Unbind /\ UNCHANGED drainVars
      \/ /\ drain' = "flushing" /\ lastClient' = boundTo /\ UNCHANGED boundTo
         /\ cancelled' = IF boundTo = NoClient THEN cancelled ELSE cancelled \cup {boundTo}
      \/ drain' = "done" /\ FlushAwaited /\ UNCHANGED <<boundTo, cancelled, lastClient>>
      \/ drain' = "gaveUp" /\ UNCHANGED <<boundTo, cancelled, lastClient>>
  BY DEF Attach, DrainStops, DrainFlushed, DrainGivesUp, DrainEnds, Detach
<1>4. lastGen' \in 0..MaxConns
  BY <1>1, QueueConstants
  DEF QueueTypes, Attach, DrainStops, DrainFlushed, DrainGivesUp, DrainEnds, Detach
<1>5. QueueTypes'
  BY <1>1, <1>2, <1>3, <1>4, QueueConstants DEF QueueTypes, Unbind, NoClient, drainVars
<1>6. ASSUME NEW g \in Conns PROVE ConnOK(g)'
  <2>1. ConnOK(g) /\ g # NoClient
    BY QueueConstants DEF QueueInv, Conns, NoClient
  <2>2. /\ boundTo' = g => boundTo = g
        /\ g \in cancelled => g \in cancelled'
        /\ g \in cancelled' => g \in cancelled \/ boundTo = g
        /\ boundTo' = g => drain' # "running"
    BY <1>3, <2>1 DEF Unbind
  <2> QED BY <1>2, <2>1, <2>2, ConnFrame
<1>7. drain' = "done" /\ lastClient' # NoClient => writer'[lastClient'] = "done"
  BY <1>2, <1>3 DEF QueueInv, FlushAwaited, drainVars
<1> QED BY <1>5, <1>6, <1>7 DEF QueueInv

\* A socket that closes takes its client's stream as far as it got.
LEMMA SocketCloses ==
    ASSUME QueueInv, NEW g \in Conns, SocketDies(g) \/ CloseNow(g)
    PROVE  QueueInv'
<1>1. QueueTypes
  BY DEF QueueInv
<1>2. /\ socket' = [socket EXCEPT ![g] = "closed"]
      /\ UNCHANGED <<boundTo, lastGen, frames, batch, received, writer, made, cancelled, drain, lastClient>>
  BY DEF SocketDies, CloseNow, queueVars, drainVars
<1>3. QueueTypes'
  BY <1>1, <1>2 DEF QueueTypes
<1>4. ASSUME NEW h \in Conns PROVE ConnOK(h)'
  <2>1. ConnOK(h) /\ socket'[h] = IF h = g THEN "closed" ELSE socket[h]
    BY <1>1, <1>2 DEF QueueInv, QueueTypes
  <2>2. CASE h # g
    BY <1>2, <2>1, <2>2, ConnFrame
  <2>3. CASE h = g
    <3>1. WriterOK(h)'
      BY <1>2, <2>1, <2>3 DEF ConnOK, WriterOK
    <3>2. PICK b \in Nat : StreamFrom(h, b)
      BY <2>1 DEF ConnOK
    <3>3. StreamFrom(h, b)'
      BY <1>2, <2>1, <2>3, <3>2 DEF StreamFrom, RunOf
    <3> QED BY <3>1, <3>3 DEF ConnOK
  <2> QED BY <2>2, <2>3
<1> QED BY <1>2, <1>3, <1>4 DEF QueueInv

\* A client starts with the next frame.
LEMMA BindKeeps ==
    ASSUME QueueInv, NEW g \in Conns, Bind(g)
    PROVE  QueueInv'
<1>1. QueueTypes
  BY DEF QueueInv
<1>2. /\ socket[g] = "none" /\ drain = "running" /\ boundTo' = g
      /\ socket' = [socket EXCEPT ![g] = "open"]
      /\ writer' = [writer EXCEPT ![g] = "waiting"]
      /\ UNCHANGED <<lastGen, frames, batch, received, made, cancelled, drain, lastClient>>
  BY DEF Bind, queueVars, drainVars
<1>3. QueueTypes'
  BY <1>1, <1>2, QueueConstants DEF QueueTypes, Conns
<1>4. ASSUME NEW h \in Conns PROVE ConnOK(h)'
  <2>1. /\ socket'[h] = IF h = g THEN "open" ELSE socket[h]
        /\ writer'[h] = IF h = g THEN "waiting" ELSE writer[h]
        /\ ConnOK(h)
    BY <1>1, <1>2 DEF QueueInv, QueueTypes
  <2>2. CASE h # g
    BY <1>2, <2>1, <2>2, ConnFrame
  <2>3. CASE h = g
    <3>1. frames[g] = <<>> /\ batch[g] = <<>> /\ received[g] = <<>> /\ g \notin cancelled
      BY <1>2, <2>1, <2>3 DEF ConnOK, WriterOK
    <3>2. WriterOK(h)'
      BY <1>2, <2>1, <2>3, <3>1 DEF WriterOK
    <3>3. made \in Nat /\ Len(<<>>) = 0 /\ \A b \in Nat : RunOf(<<>>, b)
      BY <1>1 DEF QueueTypes, RunOf
    <3>4. /\ frames'[h] = <<>> /\ batch'[h] = <<>> /\ received'[h] = <<>> /\ made' = made
          /\ made + 0 = made /\ made + 0 + 0 = made /\ made + 0 + 0 + 0 = made
      BY <1>2, <2>3, <3>1, <3>3
    <3>5. StreamFrom(h, made)'
      BY <3>3, <3>4 DEF StreamFrom, RunOf
    <3> QED BY <3>2, <3>3, <3>4, <3>5 DEF ConnOK
  <2> QED BY <2>2, <2>3
<1>5. drain' # "done"
  BY <1>2
<1> QED BY <1>3, <1>4, <1>5 DEF QueueInv
\* A burst for the bound client goes on where its stream is; one that overflows
\* is the last it is sent.
LEMMA ForwardKeeps ==
    ASSUME QueueInv, NEW n \in Nat, Forward(n)
    PROVE  QueueInv'
<1>1. QueueTypes
  BY DEF QueueInv
<1>2. /\ drain = "running" /\ made' = made + n
      /\ UNCHANGED <<lastGen, batch, received, writer, socket, drain, lastClient>>
  BY DEF Forward, writerVars, drainVars
<1>3. CASE boundTo = NoClient
  <2>1. UNCHANGED <<boundTo, frames, cancelled>>
    BY <1>3 DEF Forward, queueVars
  <2>2. QueueTypes'
    BY <1>1, <1>2, <2>1 DEF QueueTypes
  <2>3. ASSUME NEW h \in Conns PROVE ConnOK(h)'
    <3>1. ConnOK(h) /\ h # boundTo
      BY <1>3, QueueConstants DEF QueueInv, Conns, NoClient
    <3> QED BY <1>2, <2>1, <3>1, ConnFrame
  <2> QED BY <1>2, <2>2, <2>3 DEF QueueInv
<1>4. CASE boundTo # NoClient
  <2>1. PICK g \in Conns : g = boundTo
    BY <1>1, <1>4, QueueConstants DEF QueueTypes, Conns, NoClient
  <2>2. PICK m : m = Taken(Len(frames[g]), n)
    OBVIOUS
  <2>3. m \in 0..n
    BY <1>1, <2>1, <2>2, TakenIsPart DEF QueueTypes
  <2>4. /\ frames' = [frames EXCEPT ![g] = @ \o SubSeq(Burst(n), 1, m)]
        /\ IF m < n THEN Unbind ELSE UNCHANGED <<boundTo, cancelled>>
    BY <1>4, <2>1, <2>2 DEF Forward, Overflows
  <2>5. PICK b \in Nat : StreamFrom(g, b)
    BY <2>1 DEF QueueInv, ConnOK
  <2>6. PICK q : q = frames[g] \o SubSeq(Burst(n), 1, m)
    OBVIOUS
  <2>7. PICK c \in Nat : c = b + Len(received[g]) + Len(batch[g])
    BY <1>1 DEF QueueTypes
  <2>8. socket[g] # "closed" =>
            Len(q) = Len(frames[g]) + m /\ RunOf(q, c)
    <3> SUFFICES ASSUME socket[g] # "closed" PROVE Len(q) = Len(frames[g]) + m /\ RunOf(q, c)
      OBVIOUS
    <3>1. frames[g] \in Seq(Nat) /\ RunOf(frames[g], c) /\ c + Len(frames[g]) = made
      BY <1>1, <1>2, <2>1, <2>5, <2>7 DEF QueueTypes, StreamFrom
    <3> QED BY <1>1, <2>3, <2>6, <3>1, RunBurst
  <2>9. q \in Seq(Nat)
    <3>1. SubSeq(Burst(n), 1, m) \in Seq(Nat)
      <4>1. Burst(n) \in Seq(Nat) /\ Len(Burst(n)) = n
        BY <1>1 DEF Burst, QueueTypes
      <4> QED BY <2>3, <4>1
    <3> QED BY <1>1, <2>6, <3>1, ConcatProperties DEF QueueTypes
  <2>10. frames' = [frames EXCEPT ![g] = q]
    BY <2>4, <2>6
  <2>11. QueueTypes'
    <3>1. made' \in Nat
      BY <1>1, <1>2 DEF QueueTypes
    <3>2. frames' \in [Conns -> Seq(Nat)]
      BY <1>1, <2>9, <2>10 DEF QueueTypes
    <3>3. boundTo' \in 0..MaxConns
      BY <1>1, <2>4, QueueConstants DEF QueueTypes, Unbind, NoClient
    <3> QED BY <1>1, <1>2, <3>1, <3>2, <3>3 DEF QueueTypes
  <2>12. \A h \in Conns : frames'[h] = IF h = g THEN q ELSE frames[h]
    BY <1>1, <2>10 DEF QueueTypes
  <2>13. ASSUME NEW h \in Conns PROVE ConnOK(h)'
    <3>1. ConnOK(h) /\ h # NoClient
      BY QueueConstants DEF QueueInv, Conns, NoClient
    <3>2. CASE h # g
      <4>1. boundTo' # h /\ (h \in cancelled' <=> h \in cancelled)
        BY <2>1, <2>4, <3>1, <3>2 DEF Unbind
      <4> QED BY <1>2, <2>12, <3>1, <3>2, <4>1, ConnFrame
    <3>3. CASE h = g
      <4>1. /\ socket[g] # "none" /\ g \notin cancelled
            /\ writer[g] \in {"flushing", "done"} => socket[g] = "closed"
        BY <1>2, <2>1, <3>1, <3>3 DEF ConnOK, WriterOK
      <4>2. boundTo' = g => m = n /\ cancelled' = cancelled
        BY <2>3, <2>4, <3>1, <3>3 DEF Unbind
      <4>3. WriterOK(h)'
        BY <1>2, <2>12, <3>1, <3>3, <4>1, <4>2 DEF ConnOK, WriterOK
      <4>4. StreamFrom(h, b)'
        <5>1. socket[g] # "closed" /\ boundTo' = g => c + Len(q) = made'
          <6> SUFFICES ASSUME socket[g] # "closed", boundTo' = g PROVE c + Len(q) = made'
            OBVIOUS
          <6>1. c + Len(frames[g]) = made
            BY <1>2, <2>1, <2>5, <2>7 DEF StreamFrom
          <6>2. Len(q) = Len(frames[g]) + n /\ Len(frames[g]) \in Nat
            BY <1>1, <2>8, <4>2 DEF QueueTypes
          <6> QED BY <1>2, <6>1, <6>2
        <5>2. frames'[h] = q /\ batch'[h] = batch[g] /\ received'[h] = received[g]
              /\ socket'[h] = socket[g]
          BY <1>2, <2>12, <3>3
        <5> QED BY <2>5, <2>7, <2>8, <3>3, <5>1, <5>2 DEF StreamFrom, RunOf
      <4> QED BY <4>3, <4>4 DEF ConnOK
    <3> QED BY <3>2, <3>3
  <2> QED BY <1>2, <2>11, <2>13 DEF QueueInv
<1> QED BY <1>3, <1>4

\* What a step of one writer leaves alone.
WriterMoves(g, f, t, r, w) ==
    /\ frames' = [frames EXCEPT ![g] = f] /\ batch' = [batch EXCEPT ![g] = t]
    /\ received' = [received EXCEPT ![g] = r] /\ writer' = [writer EXCEPT ![g] = w]
    /\ f \in Seq(Nat) /\ t \in Seq(Nat) /\ r \in Seq(Nat)
    /\ w \in {"waiting", "woken", "writing", "flushing", "done"}
    /\ UNCHANGED <<lastGen, socket, made, drain, lastClient>>

LEMMA WriterFrame ==
    ASSUME QueueInv, NEW g \in Conns, NEW f, NEW t, NEW r, NEW w, WriterMoves(g, f, t, r, w),
           \/ UNCHANGED <<boundTo, cancelled>>
           \/ boundTo = g /\ Unbind,
           writer[g] # "done",
           (WriterOK(g) /\ \E b \in Nat : StreamFrom(g, b))'
    PROVE  QueueInv'
<1>1. QueueTypes
  BY DEF QueueInv
<1>2. QueueTypes'
  <2>1. /\ frames' \in [Conns -> Seq(Nat)] /\ batch' \in [Conns -> Seq(Nat)]
        /\ received' \in [Conns -> Seq(Nat)]
        /\ writer' \in [Conns -> {"none", "waiting", "woken", "writing", "flushing", "done"}]
    BY <1>1 DEF QueueTypes, WriterMoves
  <2>2. boundTo' \in 0..MaxConns
    BY <1>1, QueueConstants DEF QueueTypes, Unbind, NoClient
  <2> QED BY <1>1, <2>1, <2>2 DEF QueueTypes, WriterMoves
<1>3. ASSUME NEW h \in Conns PROVE ConnOK(h)'
  <2>1. CASE h = g
    BY <2>1 DEF ConnOK
  <2>2. CASE h # g
    <3>1. /\ frames'[h] = frames[h] /\ batch'[h] = batch[h] /\ received'[h] = received[h]
          /\ writer'[h] = writer[h] /\ socket'[h] = socket[h] /\ made' = made /\ drain' = drain
      BY <1>1, <2>2 DEF QueueTypes, WriterMoves
    <3>2. ConnOK(h) /\ h # NoClient
      BY QueueConstants DEF QueueInv, Conns, NoClient
    <3>3. /\ boundTo' = h => boundTo = h
          /\ h \in cancelled <=> h \in cancelled'
      BY <2>2, <3>2 DEF Unbind
    <3> QED BY <3>1, <3>2, <3>3, ConnFrame
  <2> QED BY <2>1, <2>2
<1>4. drain' = "done" /\ lastClient' # NoClient => writer'[lastClient'] = "done"
  <2> SUFFICES ASSUME drain = "done", lastClient # NoClient PROVE writer'[lastClient] = "done"
    BY DEF WriterMoves
  <2>1. lastClient \in Conns /\ writer[lastClient] = "done"
    BY <1>1, QueueConstants DEF QueueInv, QueueTypes, Conns, NoClient
  <2> QED BY <1>1, <2>1 DEF QueueTypes, WriterMoves
<1> QED BY <1>2, <1>3, <1>4 DEF QueueInv
LEMMA WriterWakesKeeps ==
    ASSUME QueueInv, NEW g \in Conns, WriterWakes(g)
    PROVE  QueueInv'
<1>1. QueueTypes /\ WriterOK(g) /\ UNCHANGED <<boundTo, cancelled>>
  BY DEF QueueInv, ConnOK, WriterWakes
<1>2. WriterMoves(g, frames[g], batch[g], received[g], "woken") /\ writer[g] = "waiting"
  BY <1>1 DEF WriterWakes, WriterMoves, QueueTypes, drainVars
<1>3. PICK b \in Nat : StreamFrom(g, b)
  BY DEF QueueInv, ConnOK
<1>4. /\ frames'[g] = frames[g] /\ batch'[g] = batch[g] /\ received'[g] = received[g]
      /\ writer'[g] = "woken"
  BY <1>1, <1>2 DEF WriterMoves, QueueTypes
<1>5. StreamFrom(g, b)'
  BY <1>1, <1>2, <1>3, <1>4 DEF StreamFrom, RunOf, WriterMoves
<1>6. WriterOK(g)'
  BY <1>1, <1>2, <1>4 DEF WriterOK, WriterMoves
<1> QED BY <1>1, <1>2, <1>5, <1>6, WriterFrame

\* take moves all that is queued into the batch.
LEMMA WriterTakesKeeps ==
    ASSUME QueueInv, NEW g \in Conns, WriterTakes(g)
    PROVE  QueueInv'
<1>1. QueueTypes /\ WriterOK(g) /\ UNCHANGED <<boundTo, cancelled>>
  BY DEF QueueInv, ConnOK, WriterTakes
<1>2. PICK w \in {"writing", "flushing"} :
          /\ writer' = [writer EXCEPT ![g] = w]
          /\ w = "flushing" => g \in cancelled
  BY DEF WriterTakes
<1>3. WriterMoves(g, <<>>, frames[g], received[g], w) /\ writer[g] \in {"woken", "waiting"}
  <2>1. frames' = [frames EXCEPT ![g] = <<>>] /\ batch' = [batch EXCEPT ![g] = frames[g]]
        /\ UNCHANGED <<lastGen, socket, received, made, drain, lastClient>>
        /\ writer[g] \in {"woken", "waiting"}
    BY DEF WriterTakes, drainVars
  <2>2. received' = [received EXCEPT ![g] = received[g]]
    BY <1>1, <2>1 DEF QueueTypes
  <2>3. frames[g] \in Seq(Nat) /\ received[g] \in Seq(Nat) /\ <<>> \in Seq(Nat)
    BY <1>1 DEF QueueTypes
  <2>4. w \in {"waiting", "woken", "writing", "flushing", "done"}
    BY <1>2
  <2> QED BY <1>2, <2>1, <2>2, <2>3, <2>4 DEF WriterMoves
<1>4. PICK b \in Nat : StreamFrom(g, b)
  BY DEF QueueInv, ConnOK
<1>5. /\ frames'[g] = <<>> /\ batch'[g] = frames[g] /\ received'[g] = received[g]
      /\ writer'[g] = w /\ batch[g] = <<>>
  BY <1>1, <1>3 DEF WriterMoves, QueueTypes, WriterOK
<1>6. StreamFrom(g, b)'
  <2>1. Len(batch[g]) = 0 /\ Len(frames'[g]) = 0 /\ Len(frames[g]) \in Nat
        /\ Len(received[g]) \in Nat
    BY <1>1, <1>5 DEF QueueTypes
  <2>2. RunOf(frames'[g], b + Len(received[g]) + Len(frames[g]))
    BY <2>1 DEF RunOf
  <2>3. b + Len(received[g]) + Len(batch[g]) = b + Len(received[g])
    BY <2>1
  <2>4. b + Len(received[g]) + Len(frames[g]) + Len(frames'[g]) = b + Len(received[g]) + Len(frames[g])
    BY <2>1
  <2>5. /\ boundTo' = boundTo /\ drain' = drain /\ made' = made /\ socket'[g] = socket[g]
    BY <1>1, <1>3 DEF WriterMoves
  <2>6. RunOf(received[g], b)'
    BY <1>4, <1>5 DEF StreamFrom, RunOf
  <2>7. socket[g] # "closed" =>
            /\ RunOf(frames[g], b + Len(received[g]))
            /\ boundTo = g /\ drain = "running" => b + Len(received[g]) + Len(frames[g]) = made
    BY <1>4, <2>3 DEF StreamFrom
  <2>8. socket[g] # "closed" => RunOf(batch[g], b + Len(received[g]))'
    BY <1>5, <2>7 DEF RunOf
  <2>9. RunOf(frames[g], b + Len(received[g]) + Len(batch[g]))'
    BY <1>5, <2>2 DEF RunOf
  <2> QED BY <1>5, <2>4, <2>5, <2>6, <2>7, <2>8, <2>9 DEF StreamFrom
<1>7. WriterOK(g)'
  BY <1>1, <1>2, <1>3, <1>5 DEF WriterOK, WriterMoves
<1> QED BY <1>1, <1>3, <1>6, <1>7, WriterFrame

\* A written frame is the next one of its client.
LEMMA WriteFrameKeeps ==
    ASSUME QueueInv, NEW g \in Conns, WriteFrame(g)
    PROVE  QueueInv'
<1> DEFINE r == Append(received[g], Head(batch[g]))
           t == Tail(batch[g])
<1>1. QueueTypes /\ WriterOK(g) /\ UNCHANGED <<boundTo, cancelled>>
  BY DEF QueueInv, ConnOK, WriteFrame
<1>2. /\ writer[g] \in {"writing", "flushing"} /\ batch[g] # <<>> /\ socket[g] = "open"
      /\ batch[g] \in Seq(Nat) /\ received[g] \in Seq(Nat) /\ frames[g] \in Seq(Nat)
  BY <1>1 DEF WriteFrame, QueueTypes
<1>3. r \in Seq(Nat) /\ t \in Seq(Nat) /\ Len(r) = Len(received[g]) + 1
  BY <1>2
<1>4. WriterMoves(g, frames[g], t, r, writer[g])
  <2>1. frames' = [frames EXCEPT ![g] = frames[g]] /\ writer' = [writer EXCEPT ![g] = writer[g]]
    BY <1>1 DEF WriteFrame, QueueTypes, queueVars
  <2>2. batch' = [batch EXCEPT ![g] = t] /\ received' = [received EXCEPT ![g] = r]
        /\ UNCHANGED <<lastGen, socket, made, drain, lastClient>>
    BY DEF WriteFrame, drainVars
  <2> QED BY <1>2, <1>3, <2>1, <2>2 DEF WriterMoves
<1>5. PICK b \in Nat : StreamFrom(g, b)
  BY DEF QueueInv, ConnOK
<1>6. /\ RunOf(received[g], b) /\ RunOf(batch[g], b + Len(received[g]))
      /\ RunOf(frames[g], b + Len(received[g]) + Len(batch[g]))
      /\ boundTo = g /\ drain = "running" =>
             b + Len(received[g]) + Len(batch[g]) + Len(frames[g]) = made
  BY <1>2, <1>5 DEF StreamFrom
<1>7. /\ Head(batch[g]) = b + Len(received[g]) + 1
      /\ RunOf(t, b + Len(received[g]) + 1) /\ Len(t) = Len(batch[g]) - 1
  <2>1. b + Len(received[g]) \in Nat
    BY <1>2
  <2> QED BY <1>2, <1>6, <2>1, RunHead
<1>8. RunOf(r, b)
  BY <1>2, <1>6, <1>7, RunAppend
<1>9. /\ frames'[g] = frames[g] /\ batch'[g] = t /\ received'[g] = r
      /\ writer'[g] = writer[g] /\ socket'[g] = socket[g]
      /\ boundTo' = boundTo /\ drain' = drain /\ made' = made
  BY <1>1, <1>4 DEF WriterMoves, QueueTypes
<1> HIDE DEF r, t
<1>10. /\ b + Len(r) = b + Len(received[g]) + 1
       /\ b + Len(r) + Len(t) = b + Len(received[g]) + Len(batch[g])
  <2>1. /\ Len(batch[g]) \in Nat /\ Len(received[g]) \in Nat /\ Len(r) = Len(received[g]) + 1
        /\ Len(t) = Len(batch[g]) - 1
    BY <1>2, <1>3, <1>7
  <2>2. PICK x \in Nat, y \in Int : x = Len(received[g]) /\ y = Len(batch[g])
    BY <2>1
  <2>3. Len(r) = x + 1 /\ Len(t) = y - 1
    BY <2>1, <2>2
  <2>4. b + (x + 1) = b + x + 1 /\ b + (x + 1) + (y - 1) = b + x + y
    OBVIOUS
  <2> QED BY <2>2, <2>3, <2>4
<1>11. StreamFrom(g, b)'
  <2>1. RunOf(received[g], b)'
    BY <1>8, <1>9 DEF RunOf
  <2>2. RunOf(batch[g], b + Len(received[g]))'
    BY <1>7, <1>9, <1>10 DEF RunOf
  <2>3. RunOf(frames[g], b + Len(received[g]) + Len(batch[g]))'
    BY <1>6, <1>9, <1>10 DEF RunOf
  <2> QED BY <1>6, <1>9, <1>10, <2>1, <2>2, <2>3 DEF StreamFrom
<1>12. WriterOK(g)'
  BY <1>1, <1>2, <1>9 DEF WriterOK
<1> QED BY <1>1, <1>2, <1>4, <1>11, <1>12, WriterFrame

\* After a failed write nothing reaches the client any more.
LEMMA WriteFailsKeeps ==
    ASSUME QueueInv, NEW g \in Conns, WriteFails(g)
    PROVE  QueueInv'
<1>1. QueueTypes /\ WriterOK(g)
  BY DEF QueueInv, ConnOK
<1>2. PICK w \in {"flushing", "done"} :
          /\ writer' = [writer EXCEPT ![g] = w]
          /\ w = "flushing" => writer[g] = "flushing" /\ UNCHANGED <<boundTo, cancelled>>
  <2>1. writer[g] = "flushing" => writer' = [writer EXCEPT ![g] = "flushing"]
    BY <1>1 DEF WriteFails, QueueTypes
  <2> QED BY <2>1 DEF WriteFails
<1>3. /\ socket[g] = "closed" /\ writer[g] \in {"writing", "flushing"} /\ batch[g] # <<>>
      /\ \/ UNCHANGED <<boundTo, cancelled>>
         \/ boundTo = g /\ Unbind
  BY DEF WriteFails
<1>4. WriterMoves(g, frames[g], Tail(batch[g]), received[g], w)
  <2>1. frames' = [frames EXCEPT ![g] = frames[g]] /\ received' = [received EXCEPT ![g] = received[g]]
    BY <1>1 DEF WriteFails, QueueTypes, queueVars
  <2>2. batch' = [batch EXCEPT ![g] = Tail(batch[g])]
        /\ UNCHANGED <<lastGen, socket, made, drain, lastClient>>
    BY DEF WriteFails, drainVars
  <2> QED BY <1>1, <1>2, <1>3, <2>1, <2>2 DEF WriterMoves, QueueTypes
<1>5. PICK b \in Nat : StreamFrom(g, b)
  BY DEF QueueInv, ConnOK
<1>6. received'[g] = received[g] /\ writer'[g] = w /\ socket'[g] = "closed" /\ drain' = drain
  BY <1>1, <1>3, <1>4 DEF WriterMoves, QueueTypes
<1>7. StreamFrom(g, b)'
  BY <1>5, <1>6 DEF StreamFrom, RunOf
<1>8. g # NoClient
  BY QueueConstants DEF Conns, NoClient
<1>9. WriterOK(g)'
  BY <1>1, <1>2, <1>3, <1>6, <1>8 DEF WriterOK, Unbind
<1> QED BY <1>3, <1>4, <1>7, <1>9, WriterFrame

\* A flush ends with nothing queued and nothing held.
LEMMA BatchDoneKeeps ==
    ASSUME QueueInv, NEW g \in Conns, BatchDone(g)
    PROVE  QueueInv'
<1>1. QueueTypes /\ WriterOK(g) /\ UNCHANGED <<boundTo, cancelled>>
  BY DEF QueueInv, ConnOK, BatchDone
<1>2. PICK w \in {"waiting", "done"} :
          /\ writer' = [writer EXCEPT ![g] = w]
          /\ w = "done" => writer[g] = "flushing"
  BY DEF BatchDone
<1>3. writer[g] \in {"writing", "flushing"} /\ batch[g] = <<>>
  BY DEF BatchDone
<1>4. WriterMoves(g, frames[g], batch[g], received[g], w)
  BY <1>1, <1>2 DEF BatchDone, WriterMoves, QueueTypes, queueVars, drainVars
<1>5. PICK b \in Nat : StreamFrom(g, b)
  BY DEF QueueInv, ConnOK
<1>6. /\ frames'[g] = frames[g] /\ batch'[g] = batch[g] /\ received'[g] = received[g]
      /\ writer'[g] = w /\ socket'[g] = socket[g] /\ drain' = drain /\ made' = made
  BY <1>1, <1>4 DEF WriterMoves, QueueTypes
<1>7. StreamFrom(g, b)'
  BY <1>1, <1>5, <1>6 DEF StreamFrom, RunOf
<1>8. WriterOK(g)'
  BY <1>1, <1>2, <1>3, <1>6 DEF WriterOK
<1> QED BY <1>1, <1>3, <1>4, <1>7, <1>8, WriterFrame

LEMMA QueueStep == QueueInv /\ [Next]_vars => QueueInv'
<1> SUFFICES ASSUME QueueInv, [Next]_vars PROVE QueueInv'
  OBVIOUS
<1>1. CASE Attach \/ DrainStops \/ DrainFlushed \/ DrainGivesUp
  BY <1>1, ClientGoes
<1>2. ASSUME NEW n \in 1..MaxBurst, Forward(n) PROVE QueueInv'
  BY <1>2, ForwardKeeps, QueueConstants
<1>3. ASSUME NEW g \in Conns, Bind(g) PROVE QueueInv'
  BY <1>3, BindKeeps
<1>4. ASSUME NEW g \in Conns, Detach(g) PROVE QueueInv'
  BY <1>4, ClientGoes
<1>5. ASSUME NEW g \in Conns, SocketDies(g) \/ CloseNow(g) PROVE QueueInv'
  BY <1>5, SocketCloses
<1>6. ASSUME NEW g \in Conns, WriterStep(g) PROVE QueueInv'
  BY <1>6, WriterWakesKeeps, WriterTakesKeeps, WriteFrameKeeps, WriteFailsKeeps, BatchDoneKeeps
  DEF WriterStep
<1>7. CASE UNCHANGED vars
  <2>1. UNCHANGED <<boundTo, lastGen, frames, batch, received, writer, socket, made, cancelled,
                    drain, lastClient>>
    BY <1>7 DEF vars, queueVars, writerVars, drainVars
  <2>2. QueueTypes'
    BY <2>1 DEF QueueInv, QueueTypes
  <2>3. ASSUME NEW g \in Conns PROVE ConnOK(g)'
    BY <2>1, ConnFrame DEF QueueInv
  <2> QED BY <2>1, <2>2, <2>3 DEF QueueInv
<1> QED BY <1>1, <1>2, <1>3, <1>4, <1>5, <1>6, <1>7 DEF Next

\* What a connection received has no hole and no repeat, whatever overflows, is
\* taken over or fails, and a client whose connection stayed good to the end has
\* the agent's last frame before the pump closes it (queueLocked,
\* clientWriterLoop, StdoutDrainLoop).
THEOREM StreamIsWhole == Spec => []WholeStream
<1>1. QueueInv => WholeStream
  <2> SUFFICES ASSUME QueueInv PROVE WholeStream
    OBVIOUS
  <2>1. ASSUME NEW g \in Conns, NEW i \in 1..Len(received[g]) - 1
        PROVE  received[g][i + 1] = received[g][i] + 1
    <3>1. PICK b \in Nat : RunOf(received[g], b)
      BY DEF QueueInv, ConnOK, StreamFrom
    <3>2. Len(received[g]) \in Nat
      BY DEF QueueInv, QueueTypes
    <3>3. i \in 1..Len(received[g]) /\ i + 1 \in 1..Len(received[g])
      BY <3>2
    <3>4. received[g][i] = b + i /\ received[g][i + 1] = b + (i + 1)
      BY <3>1, <3>3 DEF RunOf
    <3> QED BY <3>3, <3>4
  <2>2. ASSUME drain = "done", lastClient # NoClient, socket[lastClient] = "open"
        PROVE  frames[lastClient] = <<>> /\ batch[lastClient] = <<>>
    <3>1. lastClient \in Conns /\ writer[lastClient] = "done"
      BY <2>2, QueueConstants DEF QueueInv, QueueTypes, Conns, NoClient
    <3> QED BY <2>2, <3>1 DEF QueueInv, ConnOK, WriterOK
  <2> QED BY <2>1, <2>2 DEF WholeStream
<1> QED BY <1>1, QueueStart, QueueStep, PTL DEF Spec

-----------------------------------------------------------------------------
(* The service commands keep the service.                                  *)

SwapNames == {"asideCopy", "asideExe", "placeCopy", "placeExe"}
StopNames == {"stop", "endTask", "kill"}
StepNames == StopNames \cup SwapNames
                 \cup {"binary", "env", "save", "unit", "start", "remove", "stage"}

\* Windows alone moves a file aside; the very next step puts the new one in place.
Paired(p) ==
    \A i \in 1..Len(p), f \in Files :
        p[i] = AsideStep[f] => os = "windows" /\ i < Len(p) /\ p[i + 1] = PlaceStep[f]

StageFirst(p) == \A i \in 1..Len(p) : p[i] = "stage" => i = 1

\* The steps an update may still have before it.
UpdatePlan(p, installed) ==
    /\ StageFirst(p)
    /\ installed => p[Len(p)] = "start" /\ p \in Seq(StopNames \cup SwapNames \cup {"stage", "start"})
    /\ ~installed => p \in Seq(SwapNames \cup {"stage"})

\* The steps a command of this name may still have before it.
GoodPlan(p, name, version, installed) ==
    /\ p \in Seq(StepNames) /\ p # <<>> /\ Paired(p)
    /\ IF name = "update" THEN version # 0 /\ UpdatePlan(p, installed)
                          ELSE p \in Seq(StepNames \ SwapNames)

CommandNames ==
    {"none", "install", "uninstall", "start", "stop", "restart", "update"}

CommandRecords ==
    [name : CommandNames, plan : Seq(StepNames), version : 0..MaxVersion, ok : BOOLEAN,
     was : {"up", "down"}, had : BOOLEAN, broke : BOOLEAN]

CommandTypes ==
    /\ cmd \in CommandRecords
    /\ cmd.name # "none" => GoodPlan(cmd.plan, cmd.name, cmd.version, Installed)

\* A file that had a binary has one, or its old one is aside and the step that
\* puts the new one in place is next.
Kept(f) ==
    \/ disk[f] # 0
    \/ /\ cmd.name = "update" /\ Head(cmd.plan) = PlaceStep[f]
       /\ aside[f] # 0 /\ os = "windows"

BinariesKept ==
    ~mishap /\ ~packaged =>
        /\ Kept("exe")
        /\ cmd.name # "none" /\ cmd.had => Kept("copy")

\* An update leaves the service up until it has a start to come back with.
UpUntilStopped ==
    cmd.name = "update" /\ cmd.was = "up" /\ (~Installed \/ Head(cmd.plan) = "stage")
        => job = "up"

ServiceInv ==
    /\ ServiceTypeOK /\ CommandTypes
    /\ ~packaged => unit # "exe"
    /\ BinariesKept /\ UpUntilStopped

\* The plans, piece by piece.
LEMMA JoinedPlans ==
    ASSUME NEW p \in Seq(StepNames), NEW q \in Seq(StepNames), p # <<>>, q # <<>>,
           Paired(p), Paired(q)
    PROVE  /\ p \o q \in Seq(StepNames) /\ p \o q # <<>> /\ Paired(p \o q)
           /\ (p \o q)[Len(p \o q)] = q[Len(q)] /\ Head(p \o q) = Head(p)
           /\ StageFirst(p) /\ (\A i \in 1..Len(q) : q[i] # "stage") => StageFirst(p \o q)
<1>1. PICK r : r = p \o q
  OBVIOUS
<1>2. /\ r \in Seq(StepNames) /\ Len(r) = Len(p) + Len(q)
      /\ \A i \in 1..Len(p) + Len(q) : r[i] = IF i <= Len(p) THEN p[i] ELSE q[i - Len(p)]
  BY <1>1, ConcatProperties, Zenon
<1>3. Len(p) \in Nat \ {0} /\ Len(q) \in Nat \ {0}
  OBVIOUS
<1>4. r # <<>> /\ r[Len(r)] = q[Len(q)] /\ Head(r) = Head(p)
  <2>1. PICK m \in Nat \ {0}, n \in Nat \ {0} : m = Len(p) /\ n = Len(q)
    BY <1>3
  <2>2. m + n \in 1..m + n /\ ~(m + n <= m) /\ m + n - m = n
    OBVIOUS
  <2>3. r # <<>> /\ r[Len(r)] = q[Len(q)]
    BY <1>2, <2>1, <2>2
  <2>4. Head(r) = r[1] /\ Head(p) = p[1] /\ r[1] = p[1]
    BY <1>2, <1>3, <2>3
  <2> QED BY <2>3, <2>4
<1>5. Paired(r)
  <2> SUFFICES ASSUME NEW i \in 1..Len(r), NEW f \in Files, r[i] = AsideStep[f]
               PROVE  os = "windows" /\ i < Len(r) /\ r[i + 1] = PlaceStep[f]
    BY DEF Paired
  <2>1. CASE i <= Len(p)
    <3>1. i \in 1..Len(p) /\ p[i] = AsideStep[f]
      BY <1>2, <1>3, <2>1
    <3>2. os = "windows" /\ i < Len(p) /\ p[i + 1] = PlaceStep[f]
      BY <3>1 DEF Paired
    <3> QED BY <1>2, <1>3, <2>1, <3>2
  <2>2. CASE ~(i <= Len(p))
    <3>1. i - Len(p) \in 1..Len(q) /\ q[i - Len(p)] = AsideStep[f]
      BY <1>2, <1>3, <2>2
    <3>2. os = "windows" /\ i - Len(p) < Len(q) /\ q[i - Len(p) + 1] = PlaceStep[f]
      BY <3>1 DEF Paired
    <3>3. i + 1 \in 1..Len(p) + Len(q) /\ ~(i + 1 <= Len(p)) /\ i + 1 - Len(p) = i - Len(p) + 1
      BY <1>2, <1>3, <2>2, <3>2
    <3> QED BY <1>2, <1>3, <3>2, <3>3
  <2> QED BY <2>1, <2>2
<1>6. ASSUME StageFirst(p), \A i \in 1..Len(q) : q[i] # "stage" PROVE StageFirst(r)
  <2> SUFFICES ASSUME NEW i \in 1..Len(r), r[i] = "stage" PROVE i = 1
    BY DEF StageFirst
  <2>1. i <= Len(p)
    BY <1>2, <1>3, <1>6
  <2> QED BY <1>2, <1>3, <1>6, <2>1 DEF StageFirst
<1> QED BY <1>1, <1>2, <1>4, <1>5, <1>6

LEMMA PlainPlan ==
    ASSUME NEW p \in Seq(StepNames \ SwapNames)
    PROVE  p \in Seq(StepNames) /\ Paired(p)
<1>1. p \in Seq(StepNames)
  OBVIOUS
<1>2. \A i \in 1..Len(p) : p[i] \in StepNames \ SwapNames
  OBVIOUS
<1>3. \A f \in Files : AsideStep[f] \in SwapNames
  BY DEF Files, AsideStep, SwapNames
<1> QED BY <1>1, <1>2, <1>3 DEF Paired

LEMMA PlansTail ==
    ASSUME NEW p, NEW name, NEW version, NEW installed \in BOOLEAN,
           GoodPlan(p, name, version, installed), Len(p) > 1
    PROVE  /\ GoodPlan(Tail(p), name, version, installed)
           /\ name = "update" => Head(Tail(p)) # "stage"
           /\ \A f \in Files : Head(p) = AsideStep[f] => Head(Tail(p)) = PlaceStep[f]
<1>1. /\ p \in Seq(StepNames) /\ Paired(p) /\ Len(p) \in Nat
  BY DEF GoodPlan
<1>2. PICK t : t = Tail(p)
  OBVIOUS
<1>3. /\ t \in Seq(StepNames) /\ Len(t) = Len(p) - 1 /\ t # <<>>
      /\ \A i \in 1..Len(p) - 1 : t[i] = p[i + 1]
      /\ Head(p) = p[1] /\ Head(t) = p[2] /\ t[Len(t)] = p[Len(p)]
  <2>1. /\ t \in Seq(StepNames) /\ Len(t) = Len(p) - 1 /\ t # <<>>
        /\ \A i \in 1..Len(p) - 1 : t[i] = p[i + 1]
    <3>1. p # <<>>
      BY <1>1
    <3>2. t \in Seq(StepNames) /\ Len(t) = Len(p) - 1
      BY <1>1, <1>2, <3>1
    <3>3. \A i \in 1..Len(p) - 1 : t[i] = p[i + 1]
      BY <1>1, <1>2, <3>1
    <3> QED BY <1>1, <3>2, <3>3
  <2>2. Head(p) = p[1] /\ Head(t) = t[1]
    BY <1>1, <2>1
  <2>3. t[1] = p[2] /\ t[Len(t)] = p[Len(p)]
    BY <1>1, <2>1
  <2> QED BY <2>1, <2>2, <2>3
<1>4. Paired(t)
  <2> SUFFICES ASSUME NEW i \in 1..Len(t), NEW f \in Files, t[i] = AsideStep[f]
               PROVE  os = "windows" /\ i < Len(t) /\ t[i + 1] = PlaceStep[f]
    BY DEF Paired
  <2>1. i + 1 \in 1..Len(p) /\ p[i + 1] = AsideStep[f]
    BY <1>1, <1>3
  <2>2. os = "windows" /\ i + 1 < Len(p) /\ p[i + 1 + 1] = PlaceStep[f]
    BY <1>1, <2>1 DEF Paired
  <2> QED BY <1>1, <1>3, <2>2
<1>5. CASE name = "update"
  <2>1. StageFirst(t) /\ Head(t) # "stage"
    <3>1. StageFirst(p)
      BY <1>5 DEF GoodPlan, UpdatePlan
    <3>2. ASSUME NEW i \in 1..Len(t), t[i] = "stage" PROVE FALSE
      <4>1. i + 1 \in 1..Len(p) /\ p[i + 1] = "stage" /\ i + 1 # 1
        BY <1>1, <1>3, <3>2
      <4> QED BY <3>1, <4>1 DEF StageFirst
    <3>3. Head(t) = t[1] /\ 1 \in 1..Len(t)
      BY <1>1, <1>3
    <3> QED BY <3>2, <3>3 DEF StageFirst
  <2>2. UpdatePlan(t, installed)
    BY <1>2, <1>3, <1>5, <2>1 DEF GoodPlan, UpdatePlan
  <2> QED BY <1>1, <1>2, <1>3, <1>4, <1>5, <2>1, <2>2 DEF GoodPlan, Paired
<1>6. CASE name # "update"
  <2>1. t \in Seq(StepNames \ SwapNames)
    BY <1>2, <1>3, <1>6 DEF GoodPlan
  <2> QED BY <1>1, <1>2, <1>3, <1>4, <1>6, <2>1 DEF GoodPlan, Paired
<1> QED BY <1>5, <1>6

LEMMA SwapStepNames ==
    \A f \in Files : /\ AsideStep[f] \in {"asideCopy", "asideExe"}
                     /\ PlaceStep[f] \in {"placeCopy", "placeExe"}
  BY DEF Files, AsideStep, PlaceStep

LEMMA TwoSteps ==
    ASSUME NEW S, NEW a \in S, NEW b \in S, b \notin {"asideCopy", "asideExe"},
           \A f \in Files : a = AsideStep[f] => os = "windows" /\ b = PlaceStep[f]
    PROVE  /\ <<a, b>> \in Seq(S) /\ <<a, b>> # <<>> /\ Len(<<a, b>>) = 2 /\ Paired(<<a, b>>)
           /\ \A i \in 1..2 : <<a, b>>[i] \in {a, b}
<1>1. /\ <<a, b>> \in Seq(S) /\ <<a, b>> # <<>> /\ Len(<<a, b>>) = 2
      /\ <<a, b>>[1] = a /\ <<a, b>>[2] = b
  OBVIOUS
<1>2. \A i \in 1..2 : i = 1 \/ i = 2
  OBVIOUS
<1>3. PICK p : p = <<a, b>>
  OBVIOUS
<1>4. ASSUME NEW i \in 1..Len(p), NEW f \in Files, p[i] = AsideStep[f]
      PROVE  os = "windows" /\ i < Len(p) /\ p[i + 1] = PlaceStep[f]
  <2>1. i = 1
    BY <1>1, <1>2, <1>3, <1>4, SwapStepNames
  <2> QED BY <1>1, <1>3, <1>4, <2>1
<1>5. Paired(p)
  BY <1>4 DEF Paired
<1> QED BY <1>1, <1>2, <1>3, <1>5

LEMMA OneStep ==
    ASSUME NEW S, NEW a \in S, a \notin {"asideCopy", "asideExe"}
    PROVE  /\ <<a>> \in Seq(S) /\ <<a>> # <<>> /\ Len(<<a>>) = 1 /\ <<a>>[1] = a
           /\ Paired(<<a>>) /\ StageFirst(<<a>>) /\ Head(<<a>>) = a
<1>1. <<a>> \in Seq(S) /\ <<a>> # <<>> /\ Len(<<a>>) = 1 /\ <<a>>[1] = a /\ Head(<<a>>) = a
  OBVIOUS
<1>2. \A i \in 1..1 : i = 1
  OBVIOUS
<1>3. PICK p : p = <<a>>
  OBVIOUS
<1>4. Paired(p) /\ StageFirst(p)
  BY <1>1, <1>2, <1>3, SwapStepNames DEF Paired, StageFirst
<1> QED BY <1>1, <1>3, <1>4

\* Steps of an update after the first.
LaterStep == StopNames \cup SwapNames \cup {"start"}

LEMMA LaterIsNoStage ==
    ASSUME NEW q \in Seq(LaterStep) PROVE \A i \in 1..Len(q) : q[i] # "stage"
<1>1. \A i \in 1..Len(q) : q[i] \in LaterStep
  OBVIOUS
<1> QED BY <1>1 DEF LaterStep, StopNames, SwapNames

LEMMA StopPlan ==
    StopSteps \in Seq(StopNames) /\ StopSteps # <<>> /\ Paired(StopSteps)
<1>1. CASE os = "windows"
  <2>1. \A f \in Files : "endTask" # AsideStep[f]
    BY SwapStepNames
  <2>2. "endTask" \in StopNames /\ "kill" \in StopNames /\ "kill" \notin {"asideCopy", "asideExe"}
    BY DEF StopNames
  <2>3. <<"endTask", "kill">> \in Seq(StopNames) /\ <<"endTask", "kill">> # <<>>
        /\ Paired(<<"endTask", "kill">>)
    BY <2>1, <2>2, TwoSteps
  <2> QED BY <1>1, <2>3 DEF StopSteps
<1>2. CASE os # "windows"
  BY <1>2, OneStep DEF StopSteps, StopNames
<1> QED BY <1>1, <1>2

LEMMA SwapPlan ==
    ASSUME NEW f \in Files
    PROVE  SwapSteps(f) \in Seq(SwapNames) /\ SwapSteps(f) # <<>> /\ Paired(SwapSteps(f))
<1>1. AsideStep[f] \in SwapNames /\ PlaceStep[f] \in SwapNames
      /\ PlaceStep[f] \notin {"asideCopy", "asideExe"}
  BY SwapStepNames DEF SwapNames
<1>2. CASE os = "windows"
  <2>1. \A g \in Files : AsideStep[f] = AsideStep[g] => PlaceStep[f] = PlaceStep[g]
    BY DEF Files, AsideStep, PlaceStep
  <2> QED BY <1>1, <1>2, <2>1, TwoSteps DEF SwapSteps
<1>3. CASE os # "windows"
  BY <1>1, <1>3, OneStep DEF SwapSteps
<1> QED BY <1>2, <1>3

LEMMA RestartPlan ==
    /\ RestartSteps \in Seq(StopNames \cup {"start"}) /\ RestartSteps # <<>> /\ Paired(RestartSteps)
    /\ RestartSteps[Len(RestartSteps)] = "start"
<1>1. StopSteps \in Seq(StepNames) /\ StopSteps \in Seq(StopNames \cup {"start"})
      /\ StopSteps # <<>> /\ Paired(StopSteps)
  BY StopPlan DEF StepNames
<1>2. /\ <<"start">> \in Seq(StepNames) /\ <<"start">> \in Seq(StopNames \cup {"start"})
      /\ <<"start">> # <<>> /\ Paired(<<"start">>) /\ <<"start">>[Len(<<"start">>)] = "start"
  BY OneStep DEF StepNames
<1>3. RestartSteps \in Seq(StopNames \cup {"start"})
  BY <1>1, <1>2, ConcatProperties, Zenon DEF RestartSteps
<1> QED BY <1>1, <1>2, <1>3, JoinedPlans DEF RestartSteps

\* Every command starts with a good plan.
LEMMA UpdatePlans ==
    ASSUME NEW version, version # 0
    PROVE  GoodPlan(UpdateSteps, "update", version, Installed) /\ Head(UpdateSteps) = "stage"
<1> DEFINE st == <<"stage">>
           a == st \o SwapSteps("exe")
           b == st \o StopSteps
           c == b \o SwapSteps("copy")
           d == c \o SwapSteps("exe")
           e == d \o RestartSteps
           V == StopNames \cup SwapNames \cup {"stage", "start"}
           Start(p) == p \in Seq(StepNames) /\ p \in Seq(V) /\ p # <<>> /\ Paired(p)
                       /\ StageFirst(p) /\ Head(p) = "stage"
           Later(q) == q \in Seq(StepNames) /\ q \in Seq(LaterStep) /\ q \in Seq(V)
                       /\ q # <<>> /\ Paired(q)
<1>1. "exe" \in Files /\ "copy" \in Files
  BY DEF Files
<1>2. Start(st) /\ st \in Seq(SwapNames \cup {"stage"})
  BY OneStep DEF StepNames
<1>3. \A f \in Files : SwapSteps(f) \in Seq(SwapNames) /\ Later(SwapSteps(f))
  BY SwapPlan DEF LaterStep, StepNames
<1>4. Later(StopSteps) /\ Later(RestartSteps)
  BY StopPlan, RestartPlan DEF LaterStep, StepNames
<1>5. ASSUME NEW p, NEW q, Start(p), Later(q)
      PROVE  Start(p \o q) /\ (p \o q)[Len(p \o q)] = q[Len(q)]
  <2>1. p \o q \in Seq(V)
    BY <1>5, ConcatProperties, Zenon
  <2> QED BY <1>5, <2>1, LaterIsNoStage, JoinedPlans
<1>6. Start(a) /\ a \in Seq(SwapNames \cup {"stage"})
  <2>1. Start(a)
    BY <1>1, <1>2, <1>3, <1>5
  <2>2. SwapSteps("exe") \in Seq(SwapNames \cup {"stage"})
    BY <1>1, <1>3
  <2> QED BY <1>2, <2>1, <2>2, ConcatProperties, Zenon
<1>7. Start(b)
  BY <1>2, <1>4, <1>5
<1>8. Start(c)
  BY <1>1, <1>3, <1>5, <1>7
<1>9. Start(d)
  BY <1>1, <1>3, <1>5, <1>8
<1>10. Start(e) /\ e[Len(e)] = "start"
  BY <1>4, <1>5, <1>9, RestartPlan
<1>11. UpdateSteps = IF Installed THEN e ELSE a
  BY DEF UpdateSteps
<1> HIDE DEF a, e
<1>12. CASE Installed
  BY <1>10, <1>11, <1>12 DEF GoodPlan, UpdatePlan
<1>13. CASE ~Installed
  BY <1>6, <1>11, <1>13 DEF GoodPlan, UpdatePlan
<1> QED BY <1>12, <1>13

\* The steps of every other command, none of which swaps a binary.
LEMMA OtherPlans ==
    ASSUME os \in {"linux", "darwin", "windows"}
    PROVE  \A p \in {InstallSteps, UninstallSteps, <<"start">>, StopSteps, RestartSteps} :
               p \in Seq(StepNames \ SwapNames) /\ p # <<>>
<1> DEFINE T == StepNames \ SwapNames
<1>1. StopSteps \in Seq(T) /\ RestartSteps \in Seq(T) /\ <<"start">> \in Seq(T)
  BY StopPlan, RestartPlan DEF StepNames, StopNames, SwapNames
<1>2. "binary" \in T /\ "env" \in T /\ "save" \in T /\ "unit" \in T /\ "start" \in T
      /\ "remove" \in T
  BY DEF StepNames, SwapNames
<1>3. StopSteps # <<>> /\ RestartSteps # <<>> /\ <<"start">> # <<>>
  BY StopPlan, RestartPlan
<1> HIDE DEF T
<1>4. <<"binary", "env", "save", "unit", "start">> \in Seq(T)
  BY <1>2
<1>5. <<"binary", "env", "unit", "save", "start">> \in Seq(T)
  BY <1>2
<1>6. <<"env", "save", "unit">> \in Seq(T) /\ <<"binary", "start">> \in Seq(T)
      /\ <<"remove">> \in Seq(T)
  BY <1>2
<1>7. ASSUME NEW p \in Seq(T), NEW q \in Seq(T), p # <<>> PROVE p \o q \in Seq(T) /\ p \o q # <<>>
  <2>1. p \o q \in Seq(T) /\ Len(p \o q) = Len(p) + Len(q)
    BY <1>7, ConcatProperties, Zenon
  <2>2. Len(p) \in Nat \ {0} /\ Len(q) \in Nat
    BY <1>7
  <2> QED BY <2>1, <2>2
<1>8. InstallSteps \in Seq(T) /\ InstallSteps # <<>>
  <2>1. CASE os = "linux"
    BY <1>1, <1>3, <1>4, <1>7, <2>1 DEF InstallSteps, LinuxInstall
  <2>2. CASE os = "darwin"
    BY <1>1, <1>3, <1>5, <1>7, <2>2 DEF InstallSteps, DarwinInstall
  <2>3. CASE os = "windows"
    <3>1. <<"env", "save", "unit">> # <<>>
      OBVIOUS
    <3>2. <<"env", "save", "unit">> \o StopSteps \in Seq(T)
          /\ <<"env", "save", "unit">> \o StopSteps # <<>>
      BY <1>1, <1>6, <1>7, <3>1
    <3>3. WindowsInstall \in Seq(T) /\ WindowsInstall # <<>>
      BY <1>6, <1>7, <3>2 DEF WindowsInstall
    <3> QED BY <2>3, <3>3 DEF InstallSteps
  <2> QED BY <2>1, <2>2, <2>3
<1>9. UninstallSteps \in Seq(T) /\ UninstallSteps # <<>>
  <2>1. StopSteps \o <<"remove">> \in Seq(T) /\ StopSteps \o <<"remove">> # <<>>
    BY <1>1, <1>3, <1>6, <1>7
  <2> QED BY <2>1 DEF UninstallSteps, LinuxUninstall, DarwinUninstall, WindowsUninstall
<1> QED BY <1>1, <1>3, <1>8, <1>9 DEF T

\* What the step in progress can be.
LEMMA StepInProgress ==
    ASSUME CommandTypes, cmd.name # "none"
    PROVE  /\ Len(cmd.plan) \in Nat \ {0} /\ Head(cmd.plan) \in StepNames
           /\ Head(cmd.plan) \in SwapNames => cmd.name = "update" /\ cmd.version # 0
           /\ cmd.name = "update" =>
                  /\ Head(cmd.plan) \in StopNames \cup SwapNames \cup {"stage", "start"}
                  /\ ~Installed => Head(cmd.plan) \in SwapNames \cup {"stage"}
                  /\ Installed /\ ~(Len(cmd.plan) > 1) => Head(cmd.plan) = "start"
           /\ \A f \in Files : Head(cmd.plan) = AsideStep[f] => os = "windows" /\ Len(cmd.plan) > 1
<1>1. PICK p : p = cmd.plan
  OBVIOUS
<1>2. GoodPlan(p, cmd.name, cmd.version, Installed)
  BY <1>1 DEF CommandTypes
<1>3. p \in Seq(StepNames) /\ p # <<>> /\ Paired(p)
  BY <1>2 DEF GoodPlan
<1>4. Len(p) \in Nat \ {0} /\ Head(p) = p[1] /\ p[1] \in StepNames /\ 1 \in 1..Len(p)
  BY <1>3
<1>5. \A f \in Files : p[1] = AsideStep[f] => os = "windows" /\ Len(p) > 1
  BY <1>3, <1>4 DEF Paired
<1>6. CASE cmd.name = "update"
  <2>1. cmd.version # 0 /\ UpdatePlan(p, Installed)
    BY <1>2, <1>6 DEF GoodPlan
  <2>2. Installed => p[1] \in StopNames \cup SwapNames \cup {"stage", "start"}
    BY <1>4, <2>1 DEF UpdatePlan
  <2>3. ~Installed => p[1] \in SwapNames \cup {"stage"}
    BY <1>4, <2>1 DEF UpdatePlan
  <2>4. Installed /\ ~(Len(p) > 1) => p[1] = "start"
    BY <1>4, <2>1 DEF UpdatePlan
  <2> QED BY <1>1, <1>4, <1>5, <1>6, <2>1, <2>2, <2>3, <2>4
<1>7. CASE cmd.name # "update"
  <2>1. p[1] \notin SwapNames
    BY <1>2, <1>4, <1>7 DEF GoodPlan
  <2> QED BY <1>1, <1>4, <1>5, <1>7, <2>1
<1> QED BY <1>6, <1>7

\* How a command goes on, or ends.
GoesOn ==
    /\ cmd' = [cmd EXCEPT !.plan = Tail(@)]
    /\ cmd'.name = cmd.name /\ cmd'.was = cmd.was /\ cmd'.had = cmd.had
    /\ cmd'.version = cmd.version /\ cmd'.plan = Tail(cmd.plan)
    /\ Len(cmd.plan) > 1
    /\ cmd.name = "update" => Head(cmd'.plan) # "stage"
    /\ \A f \in Files : Head(cmd.plan) = AsideStep[f] => Head(cmd'.plan) = PlaceStep[f]
Ends == cmd' = Idle /\ ~(Len(cmd.plan) > 1)

LEMMA IdleRecord == Idle \in CommandRecords
<1>1. <<>> \in Seq(StepNames)
  OBVIOUS
<1>2. 0 \in 0..MaxVersion /\ "none" \in CommandNames /\ "down" \in {"up", "down"}
  BY ServiceConstants DEF CommandNames
<1> HIDE DEF StepNames
<1> QED BY <1>1, <1>2 DEF CommandRecords, Idle

LEMMA IdleTypes ==
    ASSUME cmd' = Idle PROVE CommandTypes' /\ cmd'.name = "none"
  BY IdleRecord DEF CommandTypes, Idle

LEMMA NextPlan ==
    ASSUME NEW p, GoodPlan(p, cmd'.name, cmd'.version, Installed'), cmd'.plan = p, os' = os
    PROVE  GoodPlan(cmd.plan, cmd.name, cmd.version, Installed)'
<1>1. p \in Seq(StepNames) /\ p # <<>> /\ Paired(p)
  BY DEF GoodPlan
<1>2. Paired(cmd.plan)'
  BY <1>1 DEF Paired
<1>3. CASE cmd'.name = "update"
  <2>1. cmd'.version # 0 /\ UpdatePlan(p, Installed')
    BY <1>3 DEF GoodPlan
  <2>2. UpdatePlan(cmd.plan, Installed)'
    BY <2>1 DEF UpdatePlan, StageFirst
  <2> QED BY <1>1, <1>2, <1>3, <2>1, <2>2 DEF GoodPlan
<1>4. CASE cmd'.name # "update"
  <2>1. p \in Seq(StepNames \ SwapNames)
    BY <1>4 DEF GoodPlan
  <2> QED BY <1>1, <1>2, <1>4, <2>1 DEF GoodPlan
<1> QED BY <1>3, <1>4

LEMMA AdvanceGoes ==
    ASSUME ServiceTypeOK, CommandTypes, cmd.name # "none", Advance,
           cmd.name = "update" => Installed' = Installed, os' = os
    PROVE  /\ CommandTypes' /\ wanted' \in {"up", "down", "unknown"}
           /\ GoesOn \/ Ends
<1>1. PICK p : p = cmd.plan
  OBVIOUS
<1>2. GoodPlan(p, cmd.name, cmd.version, Installed)
  BY <1>1 DEF CommandTypes
<1>3. CASE Len(p) > 1
  <2>1. cmd' = [cmd EXCEPT !.plan = Tail(p)] /\ wanted' = wanted
    BY <1>1, <1>3 DEF Advance
  <2>2. /\ cmd'.name = cmd.name /\ cmd'.was = cmd.was /\ cmd'.had = cmd.had
        /\ cmd'.version = cmd.version /\ cmd'.plan = Tail(p)
    BY <2>1 DEF CommandTypes
  <2>3. Installed \in BOOLEAN
    BY DEF Installed
  <2>4. /\ GoodPlan(Tail(p), cmd.name, cmd.version, Installed)
        /\ cmd.name = "update" => Head(Tail(p)) # "stage"
        /\ \A f \in Files : Head(p) = AsideStep[f] => Head(Tail(p)) = PlaceStep[f]
    BY <1>2, <1>3, <2>3, PlansTail
  <2>5. Tail(p) \in Seq(StepNames)
    BY <2>4 DEF GoodPlan
  <2>6. GoodPlan(Tail(p), cmd.name, cmd.version, Installed')
    BY <2>4 DEF GoodPlan
  <2>7. cmd' \in CommandRecords
    BY <2>1, <2>5 DEF CommandRecords, CommandTypes
  <2>8. CommandTypes'
    BY <2>2, <2>6, <2>7, NextPlan DEF CommandTypes
  <2> QED BY <1>1, <1>3, <2>1, <2>2, <2>4, <2>8 DEF GoesOn, ServiceTypeOK
<1>4. CASE ~(Len(p) > 1)
  <2>1. cmd' = Idle /\ wanted' = IF cmd.ok THEN Asks ELSE "unknown"
    BY <1>1, <1>4 DEF Advance
  <2>2. CommandTypes'
    BY <2>1, IdleTypes
  <2>3. wanted' \in {"up", "down", "unknown"}
    BY <2>1 DEF Asks, ServiceTypeOK
  <2> QED BY <1>1, <1>4, <2>1, <2>2, <2>3 DEF Ends
<1> QED BY <1>3, <1>4

\* What CommandsKeepService says of one step.
KeepsService ==
    cmd.name # "none" /\ cmd'.name = "none" /\ ~mishap' =>
        /\ ~packaged /\ cmd.had /\ unit' # "none" => Current' # 0
        /\ cmd.name = "update" /\ cmd.was = "up" /\ ~cmd.broke /\ ~ManagerFails => job' = "up"

\* A step that touches neither a binary nor the unit.
LEMMA QuietStep ==
    ASSUME ServiceInv, cmd.name # "none", Advance, Head(cmd.plan) \notin SwapNames,
           UNCHANGED <<os, packaged, disk, aside, unit, mishap>>,
           job' \in {"up", "down"}, proc' \in 0..MaxVersion,
           Head(cmd.plan) = "stage" => job' = job,
           Head(cmd.plan) = "start" /\ Installed => job' = "up"
    PROVE  ServiceInv' /\ KeepsService
<1>1. ServiceTypeOK /\ CommandTypes /\ BinariesKept /\ UpUntilStopped /\ (~packaged => unit # "exe")
  BY DEF ServiceInv
<1>2. Installed' = Installed
  BY DEF Installed
<1>3. CommandTypes' /\ wanted' \in {"up", "down", "unknown"} /\ (GoesOn \/ Ends)
  BY <1>1, <1>2, AdvanceGoes
<1>4. ServiceTypeOK'
  BY <1>1, <1>3 DEF ServiceTypeOK
<1>5. \A f \in Files : Head(cmd.plan) # PlaceStep[f]
  BY SwapStepNames DEF SwapNames
<1>6. ~mishap /\ ~packaged =>
          /\ disk["exe"] # 0
          /\ cmd.had => disk["copy"] # 0
  BY <1>1, <1>5 DEF BinariesKept, Kept, Files
<1>7. cmd.name = "update" /\ cmd.was = "up" /\ (~Installed \/ Head(cmd.plan) = "stage") => job' = "up"
  <2> SUFFICES ASSUME cmd.name = "update", cmd.was = "up", ~Installed \/ Head(cmd.plan) = "stage"
               PROVE  job' = "up"
    OBVIOUS
  <2>1. job = "up"
    BY <1>1 DEF UpUntilStopped
  <2>2. Head(cmd.plan) = "stage"
    BY <1>1, StepInProgress
  <2> QED BY <2>1, <2>2
<1>8. CASE GoesOn
  <2>1. BinariesKept'
    BY <1>6, <1>8 DEF BinariesKept, Kept, GoesOn
  <2>2. UpUntilStopped'
    BY <1>2, <1>7, <1>8 DEF UpUntilStopped, GoesOn
  <2> QED BY <1>1, <1>3, <1>4, <1>8, <2>1, <2>2 DEF ServiceInv, KeepsService, GoesOn
<1>9. CASE Ends
  <2>1. cmd'.name = "none"
    BY <1>9 DEF Ends, Idle
  <2>2. BinariesKept' /\ UpUntilStopped'
    BY <1>6, <2>1 DEF BinariesKept, Kept, UpUntilStopped
  <2>3. ~mishap' /\ ~packaged /\ cmd.had /\ unit' # "none" => Current' # 0
    BY <1>1, <1>6 DEF Current, ServiceTypeOK, Files
  <2>4. cmd.name = "update" /\ cmd.was = "up" => job' = "up"
    <3>1. cmd.name = "update" /\ Installed => Head(cmd.plan) = "start"
      BY <1>1, <1>9, StepInProgress DEF Ends
    <3> QED BY <1>7, <3>1
  <2>5. KeepsService
    BY <2>3, <2>4 DEF KeepsService
  <2> QED BY <1>1, <1>3, <1>4, <2>2, <2>5 DEF ServiceInv
<1> QED BY <1>3, <1>8, <1>9

LEMMA QuietSteps ==
    ASSUME ServiceInv,
           \/ StopService \/ StopScheduledTask \/ KillFerngeistProcess
           \/ WriteEnvFile \/ SaveInstallOptions \/ StartService \/ StageUpdate
    PROVE  ServiceInv' /\ KeepsService
<1>1. /\ job \in {"up", "down"} /\ proc \in 0..MaxVersion /\ 0 \in 0..MaxVersion
  BY ServiceConstants DEF ServiceInv, ServiceTypeOK
<1>2. CASE StopService
  BY <1>1, <1>2, QuietStep DEF StopService, Now, SwapNames
<1>3. CASE StopScheduledTask
  BY <1>1, <1>3, QuietStep DEF StopScheduledTask, Now, SwapNames
<1>4. CASE KillFerngeistProcess
  BY <1>1, <1>4, QuietStep DEF KillFerngeistProcess, Now, SwapNames
<1>5. CASE WriteEnvFile
  BY <1>1, <1>5, QuietStep DEF WriteEnvFile, Now, SwapNames
<1>6. CASE SaveInstallOptions
  BY <1>1, <1>6, QuietStep DEF SaveInstallOptions, Now, SwapNames
<1>7. CASE StartService
  BY <1>1, <1>7, QuietStep DEF StartService, Now, SwapNames, Installed
<1>8. CASE StageUpdate
  BY <1>1, <1>8, QuietStep DEF StageUpdate, Now, SwapNames
<1> QED BY <1>2, <1>3, <1>4, <1>5, <1>6, <1>7, <1>8

\* Install and uninstall: the copy is made before a unit runs it.
LEMMA UnitSteps ==
    ASSUME ServiceInv, ServiceExecutable \/ WriteUnit \/ RemoveUnit
    PROVE  ServiceInv' /\ KeepsService
<1>1. ServiceTypeOK /\ CommandTypes /\ BinariesKept /\ UpUntilStopped /\ (~packaged => unit # "exe")
  BY DEF ServiceInv
<1>2. cmd.name # "none" /\ Advance /\ Head(cmd.plan) \in {"binary", "unit", "remove"}
  BY DEF ServiceExecutable, WriteUnit, RemoveUnit, Now
<1>3. cmd.name # "update" /\ Head(cmd.plan) \notin SwapNames
  BY <1>1, <1>2, StepInProgress DEF SwapNames, StopNames
<1>4. UNCHANGED <<os, packaged, aside, job, proc, mishap>>
  BY DEF ServiceExecutable, WriteUnit, RemoveUnit
<1>5. CommandTypes' /\ wanted' \in {"up", "down", "unknown"} /\ (GoesOn \/ Ends)
  BY <1>1, <1>2, <1>3, <1>4, AdvanceGoes
<1>6. ~mishap /\ ~packaged =>
          /\ disk["exe"] # 0
          /\ cmd.had => disk["copy"] # 0
  BY <1>1, <1>2, <1>3, SwapStepNames DEF BinariesKept, Kept, SwapNames, Files
<1>7. /\ disk' \in [Files -> 0..MaxVersion] /\ disk'["exe"] = disk["exe"]
      /\ unit' \in Files \cup {"none"} /\ (~packaged => unit' # "exe")
      /\ ~mishap /\ ~packaged /\ cmd.had => disk'["copy"] # 0
  <2>1. CASE ServiceExecutable
    <3>1. disk' = [disk EXCEPT !["copy"] = IF packaged THEN 0 ELSE disk["exe"]] /\ unit' = unit
      BY <2>1 DEF ServiceExecutable
    <3> QED BY <1>1, <1>6, <3>1, ServiceConstants DEF ServiceTypeOK, Files
  <2>2. CASE RemoveUnit
    BY <1>1, <1>6, <2>2 DEF RemoveUnit, ServiceTypeOK, Files
  <2>3. CASE WriteUnit
    BY <1>1, <1>6, <2>3 DEF WriteUnit, ServiceTypeOK, Files
  <2> QED BY <2>1, <2>2, <2>3
<1>8. ServiceTypeOK'
  BY <1>1, <1>4, <1>5, <1>7 DEF ServiceTypeOK
<1>9. cmd'.name # "update"
  BY <1>3, <1>5 DEF GoesOn, Ends, Idle
<1>10. cmd'.name # "none" => cmd'.had = cmd.had
  BY <1>5 DEF GoesOn, Ends, Idle
<1>11. BinariesKept' /\ UpUntilStopped'
  BY <1>4, <1>6, <1>7, <1>9, <1>10 DEF BinariesKept, Kept, UpUntilStopped
<1>12. KeepsService
  BY <1>3, <1>4, <1>7 DEF KeepsService, Current, Files
<1> QED BY <1>4, <1>5, <1>7, <1>8, <1>11, <1>12 DEF ServiceInv

\* An update moves the old binary aside, on Windows, and places the new one.
LEMMA SwapStep ==
    ASSUME ServiceInv, NEW f \in Files, MoveAside(f) \/ PlaceBinary(f)
    PROVE  ServiceInv' /\ KeepsService
<1>1. ServiceTypeOK /\ CommandTypes /\ BinariesKept /\ UpUntilStopped /\ (~packaged => unit # "exe")
  BY DEF ServiceInv
<1>2. /\ cmd.name # "none" /\ Advance /\ Head(cmd.plan) \in {AsideStep[f], PlaceStep[f]}
      /\ UNCHANGED <<os, packaged, unit, job, proc, mishap>>
  BY DEF MoveAside, PlaceBinary, Now
<1>3. Head(cmd.plan) \in SwapNames /\ Head(cmd.plan) \notin {"stage", "start"}
  BY <1>2, SwapStepNames DEF SwapNames
<1>4. cmd.name = "update" /\ cmd.version # 0 /\ cmd.version \in 0..MaxVersion /\ Installed' = Installed
  BY <1>1, <1>2, <1>3, StepInProgress DEF CommandRecords, CommandTypes, Installed
<1>5. CommandTypes' /\ wanted' \in {"up", "down", "unknown"} /\ (GoesOn \/ Ends)
  BY <1>1, <1>2, <1>4, AdvanceGoes
<1>6. /\ disk' \in [Files -> 0..MaxVersion] /\ aside' \in [Files -> 0..MaxVersion]
      /\ \A g \in Files : g # f => disk'[g] = disk[g] /\ aside'[g] = aside[g]
  BY <1>1, <1>4, ServiceConstants DEF MoveAside, PlaceBinary, ServiceTypeOK
<1>7. ServiceTypeOK'
  BY <1>1, <1>2, <1>5, <1>6 DEF ServiceTypeOK
<1>8. \A g \in Files : g # f /\ Kept(g) => disk'[g] # 0
  <2> SUFFICES ASSUME NEW g \in Files, g # f, Kept(g) PROVE disk[g] # 0
    BY <1>6
  <2>1. PlaceStep[g] # Head(cmd.plan)
    BY <1>2 DEF Files, AsideStep, PlaceStep
  <2> QED BY <2>1 DEF Kept
<1>9. Kept(f) => \/ disk'[f] # 0
                 \/ GoesOn /\ Head(cmd'.plan) = PlaceStep[f] /\ aside'[f] # 0 /\ os = "windows"
  <2>1. CASE MoveAside(f)
    <3>1. Head(cmd.plan) = AsideStep[f] /\ aside'[f] = disk[f]
      BY <1>1, <2>1 DEF MoveAside, Now, ServiceTypeOK
    <3>2. os = "windows" /\ Len(cmd.plan) > 1
      BY <1>1, <1>2, <3>1, StepInProgress
    <3>3. GoesOn /\ Head(cmd'.plan) = PlaceStep[f]
      BY <1>5, <3>1, <3>2 DEF GoesOn, Ends
    <3>4. Head(cmd.plan) # PlaceStep[f]
      BY <3>1 DEF Files, AsideStep, PlaceStep
    <3> QED BY <3>1, <3>2, <3>3, <3>4 DEF Kept
  <2>2. CASE PlaceBinary(f)
    <3>1. disk' = [disk EXCEPT ![f] = cmd.version] /\ disk \in [Files -> 0..MaxVersion]
      BY <1>1, <2>2 DEF PlaceBinary, ServiceTypeOK
    <3>2. disk'[f] = cmd.version
      BY <3>1
    <3>3. disk'[f] # 0
      BY <1>4, <3>2, Zenon
    <3> QED BY <3>3
  <2> QED BY <2>1, <2>2
<1>10. cmd.was = "up" /\ ~Installed => job = "up"
  BY <1>1, <1>4 DEF UpUntilStopped
<1>11. CASE GoesOn
  <2>1. \A g \in Files : Kept(g) => Kept(g)'
    BY <1>2, <1>4, <1>8, <1>9, <1>11 DEF Kept, GoesOn
  <2>2. BinariesKept'
    BY <1>1, <1>2, <1>4, <1>11, <2>1 DEF BinariesKept, GoesOn, Files
  <2>3. UpUntilStopped'
    BY <1>2, <1>4, <1>10, <1>11 DEF UpUntilStopped, GoesOn
  <2> QED BY <1>1, <1>2, <1>4, <1>5, <1>7, <1>11, <2>2, <2>3 DEF ServiceInv, KeepsService, GoesOn
<1>12. CASE Ends
  <2>1. cmd'.name = "none" /\ ~GoesOn
    BY <1>12 DEF Ends, Idle, GoesOn
  <2>2. \A g \in Files : Kept(g) => disk'[g] # 0
    BY <1>8, <1>9, <2>1
  <2>3. BinariesKept' /\ UpUntilStopped'
    BY <1>1, <1>2, <2>1, <2>2 DEF BinariesKept, Kept, UpUntilStopped, Files
  <2>4. ~mishap' /\ ~packaged /\ cmd.had /\ unit' # "none" => Current' # 0
    BY <1>1, <1>2, <2>2 DEF BinariesKept, Current, ServiceTypeOK, Files
  <2>5. ~Installed
    BY <1>1, <1>2, <1>3, <1>4, <1>12, StepInProgress DEF Ends
  <2>6. KeepsService
    BY <1>2, <1>10, <2>4, <2>5 DEF KeepsService
  <2> QED BY <1>1, <1>2, <1>5, <1>7, <2>3, <2>6 DEF ServiceInv
<1> QED BY <1>5, <1>11, <1>12

\* The steps left after an error are ones an update with a service may have.
LEMMA LeftoverPlan ==
    ASSUME CommandTypes, cmd.name # "none", NEW step, StepsAfter(step) # <<>>
    PROVE  /\ GoodPlan(StepsAfter(step), cmd.name, cmd.version, Installed)
           /\ cmd.name = "update" => Installed /\ Head(StepsAfter(step)) # "stage"
<1>1. PICK q : q = StepsAfter(step)
  OBVIOUS
<1>2. /\ cmd.name # "update" => q = <<"start">>
      /\ cmd.name = "update" => Installed /\ q = RestartSteps
  BY <1>1 DEF StepsAfter
<1>3. CASE cmd.name # "update"
  <2>1. /\ <<"start">> \in Seq(StepNames \ SwapNames) /\ <<"start">> \in Seq(StepNames)
        /\ <<"start">> # <<>> /\ Paired(<<"start">>)
    BY OneStep DEF StepNames, SwapNames, StopNames
  <2> QED BY <1>1, <1>2, <1>3, <2>1 DEF GoodPlan
<1>4. CASE cmd.name = "update"
  <2>1. cmd.version # 0
    BY <1>4 DEF CommandTypes, GoodPlan
  <2>2. /\ RestartSteps \in Seq(StepNames) /\ RestartSteps \in Seq(LaterStep)
        /\ RestartSteps \in Seq(StopNames \cup SwapNames \cup {"stage", "start"})
        /\ RestartSteps # <<>> /\ Paired(RestartSteps) /\ RestartSteps[Len(RestartSteps)] = "start"
    BY RestartPlan DEF StepNames, LaterStep
  <2>3. \A i \in 1..Len(RestartSteps) : RestartSteps[i] # "stage"
    BY <2>2, LaterIsNoStage
  <2>4. StageFirst(RestartSteps)
    BY <2>3 DEF StageFirst
  <2>5. Head(RestartSteps) # "stage"
    <3>1. Head(RestartSteps) = RestartSteps[1] /\ 1 \in 1..Len(RestartSteps)
      BY <2>2
    <3> QED BY <2>3, <3>1
  <2> QED BY <1>1, <1>2, <1>4, <2>1, <2>2, <2>4, <2>5 DEF GoodPlan, UpdatePlan
<1> QED BY <1>3, <1>4

\* Whatever step fails, the binaries are restored unless that is a mishap.
LEMMA FailureKeeps ==
    ASSUME ServiceInv, StepFails
    PROVE  ServiceInv' /\ KeepsService
<1> DEFINE step == Head(cmd.plan)
           left == StepsAfter(step)
<1>1. ServiceTypeOK /\ CommandTypes /\ BinariesKept /\ UpUntilStopped /\ (~packaged => unit # "exe")
  BY DEF ServiceInv
<1>2. cmd.name # "none" /\ UNCHANGED <<os, packaged, unit, job, proc>> /\ Installed' = Installed
  BY DEF StepFails, Installed
<1>3. \/ /\ disk' = [f \in Files |-> IF Restores(f) THEN aside[f] ELSE disk[f]]
         /\ aside' = [f \in Files |-> IF Restores(f) THEN 0 ELSE aside[f]]
         /\ mishap' = mishap
      \/ mishap' = TRUE /\ UNCHANGED <<disk, aside>>
  BY DEF StepFails
<1>4. /\ disk' \in [Files -> 0..MaxVersion] /\ aside' \in [Files -> 0..MaxVersion]
      /\ mishap' \in BOOLEAN
      /\ ~mishap' => ~mishap /\ \A f \in Files : Kept(f) => disk'[f] # 0
  <2>1. ASSUME NEW f \in Files, Kept(f) PROVE disk[f] # 0 \/ Restores(f)
    BY <1>2, <2>1 DEF Kept, Restores, Now
  <2>2. ASSUME NEW f \in Files, Restores(f) PROVE aside[f] # 0
    BY <2>2 DEF Restores
  <2>3. CASE mishap' = TRUE /\ UNCHANGED <<disk, aside>>
    BY <1>1, <2>3 DEF ServiceTypeOK
  <2>4. CASE /\ disk' = [f \in Files |-> IF Restores(f) THEN aside[f] ELSE disk[f]]
             /\ aside' = [f \in Files |-> IF Restores(f) THEN 0 ELSE aside[f]]
             /\ mishap' = mishap
    <3>1. disk' \in [Files -> 0..MaxVersion] /\ aside' \in [Files -> 0..MaxVersion]
      BY <1>1, <2>4, ServiceConstants DEF ServiceTypeOK
    <3>2. ASSUME NEW f \in Files, Kept(f) PROVE disk'[f] # 0
      <4>1. disk'[f] = IF Restores(f) THEN aside[f] ELSE disk[f]
        BY <2>4
      <4> QED BY <2>1, <2>2, <3>2, <4>1
    <3> QED BY <1>1, <2>4, <3>1, <3>2 DEF ServiceTypeOK
  <2> QED BY <1>3, <2>3, <2>4
<1>5. \/ cmd' = Idle /\ left = <<>> /\ wanted' \in {wanted, "unknown"}
      \/ /\ left # <<>> /\ wanted' = wanted
         /\ \E broke \in BOOLEAN : cmd' = [cmd EXCEPT !.plan = left, !.ok = FALSE, !.broke = broke]
  BY <1>1 DEF StepFails, CommandTypes
<1>6. ServiceTypeOK'
  BY <1>1, <1>2, <1>4, <1>5 DEF ServiceTypeOK
<1>7. ~mishap' /\ ~packaged => disk'["exe"] # 0 /\ (cmd.had => disk'["copy"] # 0)
  BY <1>1, <1>2, <1>4 DEF BinariesKept, Files
<1> HIDE DEF left
<1>8. CASE cmd' = Idle /\ left = <<>>
  <2>1. CommandTypes' /\ cmd'.name = "none"
    BY <1>8, IdleTypes
  <2>2. BinariesKept' /\ UpUntilStopped'
    BY <1>2, <1>7, <2>1 DEF BinariesKept, Kept, UpUntilStopped
  <2>3. ~mishap' /\ ~packaged /\ cmd.had /\ unit' # "none" => Current' # 0
    BY <1>1, <1>2, <1>7 DEF Current, ServiceTypeOK, Files
  <2>4. cmd.name = "update" /\ cmd.was = "up" /\ ~ManagerFails => job' = "up"
    <3> SUFFICES ASSUME cmd.name = "update", cmd.was = "up", ~ManagerFails PROVE job = "up"
      BY <1>2
    <3>1. step \in SwapNames \cup {"stage"}
      BY <1>1, <1>2, StepInProgress DEF ManagerFails, StopNames
    <3>2. step \in SwapNames => ~Installed
      <4>1. step \in SwapNames => \E f \in Files : step \in {AsideStep[f], PlaceStep[f]}
        BY DEF SwapNames, Files, AsideStep, PlaceStep
      <4>2. RestartSteps # <<>>
        BY RestartPlan
      <4> QED BY <1>8, <4>1, <4>2 DEF left, StepsAfter
    <3> QED BY <1>1, <3>1, <3>2 DEF UpUntilStopped
  <2>5. KeepsService
    BY <2>3, <2>4 DEF KeepsService
  <2> QED BY <1>1, <1>2, <1>6, <2>1, <2>2, <2>5 DEF ServiceInv
<1>9. ASSUME NEW broke \in BOOLEAN, left # <<>>,
             cmd' = [cmd EXCEPT !.plan = left, !.ok = FALSE, !.broke = broke]
      PROVE  ServiceInv' /\ KeepsService
  <2>1. /\ GoodPlan(left, cmd.name, cmd.version, Installed)
        /\ cmd.name = "update" => Installed /\ Head(left) # "stage"
    BY <1>1, <1>2, <1>9, LeftoverPlan DEF left
  <2>2. left \in Seq(StepNames)
    BY <2>1 DEF GoodPlan
  <2>3. /\ cmd' \in CommandRecords
        /\ cmd'.name = cmd.name /\ cmd'.version = cmd.version /\ cmd'.plan = left
        /\ cmd'.had = cmd.had
    BY <1>1, <1>9, <2>2 DEF CommandRecords, CommandTypes
  <2>4. CommandTypes'
    BY <1>2, <2>1, <2>3, NextPlan DEF CommandTypes
  <2>5. BinariesKept'
    BY <1>2, <1>7, <2>3 DEF BinariesKept, Kept
  <2>6. UpUntilStopped'
    BY <1>2, <2>1, <2>3 DEF UpUntilStopped
  <2>7. KeepsService
    BY <1>2, <2>3 DEF KeepsService
  <2> QED BY <1>1, <1>2, <1>6, <2>4, <2>5, <2>6, <2>7 DEF ServiceInv
<1> QED BY <1>5, <1>8, <1>9

\* A new command finds both binaries in place.
LEMMA CommandBegins ==
    ASSUME ServiceInv, cmd.name = "none",
           NEW name \in CommandNames \ {"none"}, NEW plan, NEW version \in 0..MaxVersion,
           cmd' = Command(name, plan, version),
           UNCHANGED <<os, packaged, disk, unit, job, proc, wanted, mishap>>,
           aside' \in [Files -> 0..MaxVersion],
           GoodPlan(plan, name, version, Installed),
           name = "update" => Head(plan) = "stage"
    PROVE  ServiceInv' /\ KeepsService
<1>1. ServiceTypeOK /\ CommandTypes /\ BinariesKept /\ (~packaged => unit # "exe")
  BY DEF ServiceInv
<1>2. /\ cmd'.name = name /\ cmd'.plan = plan /\ cmd'.version = version
      /\ cmd'.was = job /\ cmd'.had = (Current # 0) /\ Installed' = Installed
  BY DEF Command, Installed
<1>3. plan \in Seq(StepNames)
  BY DEF GoodPlan
<1>4. CommandTypes'
  <2>1. cmd' \in CommandRecords
    BY <1>1, <1>3 DEF CommandRecords, Command, ServiceTypeOK
  <2> QED BY <1>2, <2>1, NextPlan DEF CommandTypes
<1>5. ~mishap /\ ~packaged => disk["exe"] # 0 /\ (Current # 0 => disk["copy"] # 0)
  BY <1>1 DEF BinariesKept, Kept, Current, ServiceTypeOK, Files
<1>6. BinariesKept' /\ UpUntilStopped'
  BY <1>2, <1>5 DEF BinariesKept, Kept, UpUntilStopped
<1> QED BY <1>1, <1>4, <1>6 DEF ServiceInv, ServiceTypeOK, KeepsService

LEMMA CommandsBegin ==
    ASSUME ServiceInv,
           \/ RunDaemonInstall \/ RunDaemonUninstall \/ RunDaemonStart
           \/ RunDaemonStop \/ RunDaemonRestart \/ RunUpdate
    PROVE  ServiceInv' /\ KeepsService
<1>1. ServiceTypeOK /\ os \in {"linux", "darwin", "windows"} /\ 0 \in 0..MaxVersion
      /\ aside \in [Files -> 0..MaxVersion]
  BY ServiceConstants DEF ServiceInv, ServiceTypeOK
<1>2. ASSUME NEW name \in CommandNames \ {"none", "update"},
             NEW plan \in {InstallSteps, UninstallSteps, <<"start">>, StopSteps, RestartSteps},
             Begin(name, plan, 0),
             UNCHANGED <<os, packaged, disk, aside, unit, job, proc, wanted, mishap>>
      PROVE  ServiceInv' /\ KeepsService
  <2>1. plan \in Seq(StepNames \ SwapNames) /\ plan # <<>>
    BY <1>1, OtherPlans
  <2>2. GoodPlan(plan, name, 0, Installed)
    BY <2>1, PlainPlan DEF GoodPlan
  <2> QED BY <1>1, <1>2, <2>2, CommandBegins DEF Begin
<1>3. CASE RunDaemonInstall
  BY <1>2, <1>3 DEF RunDaemonInstall, CommandNames
<1>4. CASE RunDaemonUninstall
  BY <1>2, <1>4 DEF RunDaemonUninstall, CommandNames
<1>5. CASE RunDaemonStart
  BY <1>2, <1>5 DEF RunDaemonStart, CommandNames
<1>6. CASE RunDaemonStop
  BY <1>2, <1>6 DEF RunDaemonStop, CommandNames
<1>7. CASE RunDaemonRestart
  BY <1>2, <1>7 DEF RunDaemonRestart, CommandNames
<1>8. CASE RunUpdate
  <2>1. PICK latest \in 1..MaxVersion : Begin("update", UpdateSteps, latest)
    BY <1>8 DEF RunUpdate
  <2>2. latest \in 0..MaxVersion /\ latest # 0
    BY ServiceConstants
  <2>3. GoodPlan(UpdateSteps, "update", latest, Installed) /\ Head(UpdateSteps) = "stage"
    BY <2>2, UpdatePlans
  <2>4. aside' \in [Files -> 0..MaxVersion]
    BY <1>1, <1>8 DEF RunUpdate
  <2> QED BY <1>8, <2>1, <2>2, <2>3, <2>4, CommandBegins DEF RunUpdate, Begin, CommandNames
<1> QED BY <1>3, <1>4, <1>5, <1>6, <1>7, <1>8

\* The manager, the daemon, the package manager and the operator's login.
LEMMA OutsideKeeps ==
    ASSUME ServiceInv, Respawn \/ DaemonCrash \/ WatchTick \/ PackageUpgrade \/ Login
    PROVE  ServiceInv' /\ KeepsService
<1>1. ServiceTypeOK /\ CommandTypes /\ BinariesKept /\ UpUntilStopped /\ (~packaged => unit # "exe")
  BY DEF ServiceInv
<1>2. /\ cmd' = cmd /\ UNCHANGED <<os, packaged, aside, unit, mishap>> /\ Installed' = Installed
      /\ disk' \in [Files -> 0..MaxVersion] /\ job' \in {"up", "down"} /\ proc' \in 0..MaxVersion
      /\ wanted' \in {"up", "down", "unknown"}
      /\ \A f \in Files : disk[f] # 0 => disk'[f] # 0
      /\ cmd.name # "none" => job' = job
  <2>1. CASE Respawn
    BY <1>1, <2>1 DEF Respawn, Current, ServiceTypeOK, Installed
  <2>2. CASE DaemonCrash \/ WatchTick
    BY <1>1, <2>2, ServiceConstants DEF DaemonCrash, WatchTick, Exit, exitBinaryReplaced, ServiceTypeOK, Installed
  <2>3. CASE PackageUpgrade
    <3>1. disk' = [disk EXCEPT !["exe"] = @ + 1] /\ disk["exe"] < MaxVersion
      BY <2>3 DEF PackageUpgrade
    <3>2. disk["exe"] + 1 \in 0..MaxVersion /\ disk["exe"] + 1 # 0
      BY <1>1, <3>1, ServiceConstants DEF ServiceTypeOK, Files
    <3> QED BY <1>1, <2>3, <3>1, <3>2 DEF PackageUpgrade, ServiceTypeOK, Installed, Files
  <2>4. CASE Login
    BY <1>1, <2>4 DEF Login, ServiceTypeOK, Installed
  <2> QED BY <2>1, <2>2, <2>3, <2>4
<1>3. ServiceTypeOK'
  BY <1>1, <1>2 DEF ServiceTypeOK
<1>4. CommandTypes'
  <2>1. cmd.name # "none" => GoodPlan(cmd.plan, cmd'.name, cmd'.version, Installed')
    BY <1>1, <1>2 DEF CommandTypes
  <2> QED BY <1>1, <1>2, <2>1, NextPlan DEF CommandTypes
<1>5. BinariesKept' /\ UpUntilStopped'
  BY <1>1, <1>2 DEF BinariesKept, Kept, UpUntilStopped, Files
<1> QED BY <1>1, <1>2, <1>3, <1>4, <1>5 DEF ServiceInv, KeepsService

LEMMA KillKeeps ==
    ASSUME ServiceInv, CommandKilled
    PROVE  ServiceInv' /\ KeepsService
<1>1. ServiceTypeOK /\ (~packaged => unit # "exe")
  BY DEF ServiceInv
<1>2. /\ cmd' = Idle /\ wanted' = "unknown" /\ mishap' = TRUE
      /\ UNCHANGED <<os, packaged, disk, aside, unit, job, proc>>
  BY DEF CommandKilled
<1>3. CommandTypes' /\ cmd'.name = "none"
  BY <1>2, IdleTypes
<1> QED BY <1>1, <1>2, <1>3 DEF ServiceInv, ServiceTypeOK, BinariesKept, UpUntilStopped, KeepsService

LEMMA ServiceStep ==
    ASSUME ServiceInv, [SvcNext]_svcVars
    PROVE  ServiceInv' /\ (KeepsService \/ UNCHANGED svcVars)
<1>1. CASE UNCHANGED svcVars
  <2>1. CommandTypes'
    <3>1. cmd' = cmd /\ os' = os /\ Installed' = Installed /\ CommandTypes
      BY <1>1 DEF svcVars, Installed, ServiceInv
    <3>2. cmd.name # "none" => GoodPlan(cmd.plan, cmd'.name, cmd'.version, Installed')
      BY <3>1 DEF CommandTypes
    <3> QED BY <3>1, <3>2, NextPlan DEF CommandTypes
  <2> QED BY <1>1, <2>1 DEF svcVars, ServiceInv, ServiceTypeOK, BinariesKept, Kept, UpUntilStopped, Installed
<1>2. CASE SvcNext
  BY <1>2, CommandsBegin, QuietSteps, UnitSteps, SwapStep, FailureKeeps, KillKeeps, OutsideKeeps
     DEF SvcNext, Steps
<1> QED BY <1>1, <1>2

\* Whichever of its steps fails, a service command leaves a service that had a
\* binary with one, and an update leaves a service that was up running
\* (swapBinary, runUpdate).
THEOREM ServiceIsKept == SvcSpec => CommandsKeepService
<1>1. SvcInit => ServiceInv
  <2> SUFFICES ASSUME SvcInit PROVE ServiceInv
    OBVIOUS
  <2>1. cmd = Idle /\ cmd.name = "none" /\ unit = "none" /\ disk["exe"] # 0
    BY DEF SvcInit, Idle, Files
  <2>2. CommandTypes
    BY <2>1, IdleRecord DEF CommandTypes
  <2>3. ServiceTypeOK
    <3>1. packaged \in BOOLEAN /\ mishap \in BOOLEAN
      BY DEF SvcInit
    <3>2. disk \in [Files -> 0..MaxVersion] /\ aside \in [Files -> 0..MaxVersion] /\ proc \in 0..MaxVersion
      BY ServiceConstants DEF SvcInit
    <3> QED BY <3>1, <3>2 DEF SvcInit, ServiceTypeOK
  <2> QED BY <2>1, <2>2, <2>3 DEF ServiceInv, BinariesKept, Kept, UpUntilStopped
<1>2. ServiceInv /\ [SvcNext]_svcVars => ServiceInv'
  BY ServiceStep
<1>3. ServiceInv /\ [SvcNext]_svcVars => [KeepsService]_svcVars
  BY ServiceStep
<1> QED BY <1>1, <1>2, <1>3, PTL DEF SvcSpec, CommandsKeepService, KeepsService
=============================================================================
