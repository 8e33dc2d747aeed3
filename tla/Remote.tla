------------------------------- MODULE Remote -------------------------------
(***************************************************************************)
(* Remote access over Tailscale (internal/remote, daemon.newRemoteAccess   *)
(* and the access part of daemon.serve): the retry loop of Access, the two *)
(* ways Provisioner sets it up, the host's shared HTTPS endpoint, and the  *)
(* state directory of the embedded node.                                   *)
(*                                                                         *)
(* Several gateways run on one host, each with its own database.  The      *)
(* Tailscale daemon, the tailnet's settings and the operator who signs in  *)
(* are external: they move between any two steps of a gateway.             *)
(***************************************************************************)
EXTENDS Naturals

CONSTANTS
    Gateways,   \* the gateways on this host, their databases in one directory
    Setups,     \* configurations: the TailscaleMode of each gateway ("auto", "cli"
                \* or "tsnet"; "off" starts nothing) and whether it has an auth key
    NoGateway

ASSUME RemoteConstants ==
    /\ NoGateway \notin Gateways
    /\ Setups \subseteq [mode : [Gateways -> {"auto", "cli", "tsnet", "off"}],
                         authKey : [Gateways -> BOOLEAN]]

VARIABLES
    mode, authKey,   \* the configuration of each gateway
    at,              \* where the provisioning of each gateway is
    closing,         \* Access.Close: "no", "waiting" for the loop, "closed"
    node,            \* an embedded node is alive in the process
    result,          \* Access.result holds the provisioned access
    snapshot,        \* what the status API reports: "nil", "auth" or "error"
    endpoint,        \* who the host's HTTPS endpoint proxies to
    cliLock,         \* the holder of the host-wide provisioning lock
    signedIn,        \* the installed tailscale app is signed in
    tailnetOK,       \* HTTPS and Funnel are allowed on the tailnet
    login,           \* the operator finished the embedded node's login
    nodeState,       \* whose node identity each database's directory holds
    legacy,          \* the owner of the old shared tsnet directory, if it exists
    databases        \* the databases FindGatewayDatabases finds

remVars == <<mode, authKey, at, closing, node, result, snapshot, endpoint, cliLock,
             signedIn, tailnetOK, login, nodeState, legacy, databases>>

config == <<mode, authKey>>
tailnet == <<signedIn, tailnetOK, login>>
dirs == <<nodeState, legacy, databases>>

RemoteTypeOK ==
    /\ at \in [Gateways -> {"down", "detect", "lock", "set", "url", "state", "login", "listen",
                            "handoff", "announce", "ready", "retry", "failed", "stopped"}]
    /\ closing \in [Gateways -> {"no", "waiting", "closed"}]
    /\ node \in [Gateways -> BOOLEAN] /\ result \in [Gateways -> BOOLEAN]
    /\ snapshot \in [Gateways -> {"nil", "auth", "error"}]
    /\ {endpoint, cliLock, legacy} \subseteq Gateways \cup {NoGateway}
    /\ nodeState \in [Gateways -> Gateways \cup {NoGateway}]

\* A first boot of some gateways beside an installed one whose node state is
\* still in the old shared directory.
RemInit ==
    /\ \E setup \in Setups : mode = setup.mode /\ authKey = setup.authKey
    /\ at = [g \in Gateways |-> "down"] /\ closing = [g \in Gateways |-> "no"]
    /\ node = [g \in Gateways |-> FALSE] /\ result = [g \in Gateways |-> FALSE]
    /\ snapshot = [g \in Gateways |-> "nil"]
    /\ endpoint = NoGateway /\ cliLock = NoGateway
    /\ signedIn = FALSE /\ tailnetOK = FALSE /\ login = [g \in Gateways |-> FALSE]
    /\ nodeState = [g \in Gateways |-> NoGateway]
    /\ legacy \in Gateways \cup {NoGateway}
    /\ databases = {legacy} \ {NoGateway}

-----------------------------------------------------------------------------
(* Access: one provisioning attempt, its failure, and the retry loop.      *)

Cancelled(g) == closing[g] # "no"
Goes(g, place) == at' = [at EXCEPT ![g] = place]

\* A failed attempt closes its node and reports the error; the loop tries
\* again later, an attempt with an auth key is the only one.
GivesUp(g) == Goes(g, "failed")
Retries(g) == Goes(g, IF authKey[g] THEN "failed" ELSE "retry")
Fails(g) ==
    /\ Retries(g)
    /\ node' = [node EXCEPT ![g] = FALSE]
    /\ snapshot' = [snapshot EXCEPT ![g] = "error"]

\* The daemon opens its database, then provisions (newRemoteAccess or Start).
Boot(g) ==
    /\ at[g] = "down"
    /\ Goes(g, "detect")
    /\ databases' = databases \cup {g}
    /\ UNCHANGED <<config, closing, node, result, snapshot, endpoint, cliLock, tailnet, nodeState, legacy>>

\* Close waits on the loop, but the timer may still win the select.
Retry(g) ==
    /\ at[g] = "retry"
    /\ Goes(g, "detect")
    /\ UNCHANGED <<config, closing, node, result, snapshot, endpoint, cliLock, tailnet, dirs>>

LoopEnds(g) ==
    /\ at[g] = "retry" /\ Cancelled(g)
    /\ Goes(g, "stopped")
    /\ UNCHANGED <<config, closing, node, result, snapshot, endpoint, cliLock, tailnet, dirs>>

\* A result that Close will not see any more is closed by its own attempt.
NeverLate(g) == FALSE
TooLate(g) == closing[g] = "closed"

HandOff(g) ==
    /\ at[g] = "handoff"
    /\ IF TooLate(g)
       THEN /\ node' = [node EXCEPT ![g] = FALSE]
            /\ Goes(g, "stopped")
            /\ UNCHANGED result
       ELSE /\ result' = [result EXCEPT ![g] = TRUE]
            /\ Goes(g, "announce")
            /\ UNCHANGED node
    /\ UNCHANGED <<config, closing, snapshot, endpoint, cliLock, tailnet, dirs>>

\* The URL is saved and pushed to the paired devices, then any blocker cleared.
Announce(g) ==
    /\ at[g] = "announce"
    /\ Goes(g, "ready")
    /\ snapshot' = [snapshot EXCEPT ![g] = "nil"]
    /\ UNCHANGED <<config, closing, node, result, endpoint, cliLock, tailnet, dirs>>

\* Shutdown: Close cancels the loop and gives it a short grace to hand over.
\* With an auth key there is no loop, and serve starts after the attempt.
CloseBegins(g) ==
    /\ at[g] # "down" /\ closing[g] = "no"
    /\ authKey[g] => at[g] \in {"ready", "failed"}
    /\ closing' = [closing EXCEPT ![g] = "waiting"]
    /\ UNCHANGED <<config, at, node, result, snapshot, endpoint, cliLock, tailnet, dirs>>

CloseTakesResult(g) ==
    /\ closing[g] = "waiting"
    /\ closing' = [closing EXCEPT ![g] = "closed"]
    /\ result' = [result EXCEPT ![g] = FALSE]
    /\ node' = [node EXCEPT ![g] = @ /\ ~result[g]]
    /\ UNCHANGED <<config, at, snapshot, endpoint, cliLock, tailnet, dirs>>

\* The process ends, after Close or by a crash: its node and its lock go, the
\* endpoint that `tailscale funnel --bg` set up stays.
ProcessExit(g) ==
    /\ at[g] # "down"
    /\ Goes(g, "down")
    /\ closing' = [closing EXCEPT ![g] = "no"]
    /\ node' = [node EXCEPT ![g] = FALSE] /\ result' = [result EXCEPT ![g] = FALSE]
    /\ snapshot' = [snapshot EXCEPT ![g] = "nil"]
    /\ cliLock' = IF cliLock = g THEN NoGateway ELSE cliLock
    /\ UNCHANGED <<config, endpoint, tailnet, dirs>>

-----------------------------------------------------------------------------
(* Provisioner.Provision: the installed app, or an embedded node.          *)

Detect(g) ==
    /\ at[g] = "detect"
    /\ \/ /\ mode[g] \in {"auto", "cli"} /\ signedIn
          /\ Goes(g, "lock")
          /\ UNCHANGED <<node, snapshot>>
       \/ /\ mode[g] = "cli" /\ ~signedIn
          /\ Fails(g)
       \/ /\ mode[g] = "tsnet" \/ (mode[g] = "auto" /\ ~signedIn)
          /\ Goes(g, "state")
          /\ UNCHANGED <<node, snapshot>>
    /\ UNCHANGED <<config, closing, result, endpoint, cliLock, tailnet, dirs>>

\* EnableRemote: the lock, then the serve configuration, which may show
\* another service behind the endpoint (conflictingEndpoint).
AlwaysFree(g) == TRUE
LockFree(g) == cliLock = NoGateway

ReadServeConfig(g) ==
    /\ at[g] = "lock"
    /\ IF LockFree(g) /\ endpoint \in {NoGateway, g}
       THEN /\ cliLock' = g
            /\ Goes(g, "set")
            /\ UNCHANGED <<node, snapshot>>
       ELSE Fails(g) /\ UNCHANGED cliLock
    /\ UNCHANGED <<config, closing, result, endpoint, tailnet, dirs>>

\* `tailscale funnel --bg`, which needs the tailnet's consent; the lock is
\* released on every way out.
EnableRemote(g) ==
    /\ at[g] = "set"
    /\ IF tailnetOK
       THEN /\ endpoint' = g
            /\ Goes(g, "url")
            /\ UNCHANGED <<node, snapshot>>
       ELSE Fails(g) /\ UNCHANGED endpoint
    /\ cliLock' = IF cliLock = g THEN NoGateway ELSE cliLock
    /\ UNCHANGED <<config, closing, result, tailnet, dirs>>

\* waitForURL: the app knows its address, or the wait times out or is cancelled.
WaitForURL(g) ==
    /\ at[g] = "url"
    /\ \/ Goes(g, "handoff") /\ UNCHANGED <<node, snapshot>>
       \/ Fails(g)
    /\ UNCHANGED <<config, closing, result, endpoint, cliLock, tailnet, dirs>>

\* embeddedStateDir: the database's own directory; the old shared one moves
\* there only when this is the one database that can own it.
SoleOwner(g) == databases = {g}

OpenState(g) ==
    /\ at[g] = "state"
    /\ \/ /\ nodeState[g] # NoGateway \/ legacy = NoGateway
          /\ nodeState' = [nodeState EXCEPT ![g] = IF @ = NoGateway THEN g ELSE @]
          /\ node' = [node EXCEPT ![g] = TRUE]
          /\ Goes(g, "login")
          /\ UNCHANGED <<snapshot, legacy>>
       \/ /\ nodeState[g] = NoGateway /\ legacy # NoGateway /\ SoleOwner(g)
          /\ nodeState' = [nodeState EXCEPT ![g] = legacy]
          /\ legacy' = NoGateway
          /\ node' = [node EXCEPT ![g] = TRUE]
          /\ Goes(g, "login")
          /\ UNCHANGED snapshot
       \/ /\ nodeState[g] = NoGateway /\ legacy # NoGateway /\ ~SoleOwner(g)
          /\ Fails(g)
          /\ UNCHANGED <<nodeState, legacy>>
    /\ UNCHANGED <<config, closing, result, endpoint, cliLock, tailnet, databases>>

\* waitForLogin: a pending login is reported and waited out with the node
\* alive, since the link is only good as long as the node that issued it.
PendingLogin(g) == UNCHANGED <<at, node>>

WaitForLogin(g) ==
    /\ at[g] = "login"
    /\ \/ /\ login[g]
          /\ Goes(g, "listen")
          /\ UNCHANGED <<node, snapshot>>
       \/ /\ ~login[g] /\ ~authKey[g]
          /\ snapshot' = [snapshot EXCEPT ![g] = "auth"]
          /\ PendingLogin(g)
       \/ /\ ~login[g]         \* cancelled, a refused key, or a backend error
          /\ Fails(g)
    /\ UNCHANGED <<config, closing, result, endpoint, cliLock, tailnet, dirs>>

\* openListener and proxyEmbedded: Funnel must be allowed on the tailnet.
OpenListener(g) ==
    /\ at[g] = "listen"
    /\ \/ tailnetOK /\ Goes(g, "handoff") /\ UNCHANGED <<node, snapshot>>
       \/ ~tailnetOK /\ Fails(g)
    /\ UNCHANGED <<config, closing, result, endpoint, cliLock, tailnet, dirs>>

-----------------------------------------------------------------------------
(* The operator, who signs in and changes the tailnet's settings.          *)

SignIn ==
    /\ ~signedIn /\ signedIn' = TRUE
    /\ UNCHANGED <<config, at, closing, node, result, snapshot, endpoint, cliLock, tailnetOK, login, dirs>>

AllowFunnel ==
    /\ ~tailnetOK /\ tailnetOK' = TRUE
    /\ UNCHANGED <<config, at, closing, node, result, snapshot, endpoint, cliLock, signedIn, login, dirs>>

\* The login goes to the node that is alive to receive it.
FinishLogin(g) ==
    /\ node[g] /\ ~login[g]
    /\ login' = [login EXCEPT ![g] = TRUE]
    /\ UNCHANGED <<config, at, closing, node, result, snapshot, endpoint, cliLock, signedIn, tailnetOK, dirs>>

Attempt(g) ==
    \/ Retry(g) \/ Detect(g) \/ ReadServeConfig(g) \/ EnableRemote(g) \/ WaitForURL(g)
    \/ OpenState(g) \/ WaitForLogin(g) \/ OpenListener(g) \/ HandOff(g) \/ Announce(g)

RemNext ==
    \/ \E g \in Gateways : \/ Boot(g) \/ Attempt(g) \/ LoopEnds(g)
                           \/ CloseBegins(g) \/ CloseTakesResult(g) \/ ProcessExit(g)
                           \/ FinishLogin(g)
    \/ SignIn \/ AllowFunnel

RemFairness == \A g \in Gateways : WF_remVars(Attempt(g))

RemSpec == RemInit /\ [][RemNext]_remVars
RemFairSpec == RemSpec /\ RemFairness

-----------------------------------------------------------------------------
(* A node that is alive has somebody who will close it: the attempt that   *)
(* started it, or a Close that has yet to take Access.result.  A           *)
(* provisioning that outlives Close's grace leaves none behind             *)
(* (Access.Provision, Access.Close).                                       *)
NoLeakedNode ==
    \A g \in Gateways :
        node[g] => \/ at[g] \in {"login", "listen", "handoff"}
                   \/ result[g] /\ closing[g] # "closed"

(* Gateways of one host keep apart, however their steps interleave or      *)
(* crash: none takes the HTTPS endpoint from another (EnableRemote under   *)
(* the host-wide lock, conflictingEndpoint), and the node identity in the  *)
(* shared directory of older versions goes to its owner or to nobody       *)
(* (embeddedStateDir).                                                     *)
GatewaysKeepApart ==
    [][ /\ endpoint # NoGateway => endpoint' = endpoint
        /\ \A g \in Gateways : nodeState'[g] \in {g, NoGateway} ]_remVars

(* Changing the tailnet's settings in the browser is enough: the loop of a *)
(* running gateway picks them up without a restart (Access.Start).         *)
FixIsPickedUp ==
    \A g \in Gateways :
        (mode[g] = "tsnet" /\ ~authKey[g] /\ at[g] # "down" /\ legacy = NoGateway /\ login[g] /\ tailnetOK)
            ~> (at[g] \in {"ready", "stopped", "down"} \/ closing[g] # "no")
=============================================================================
