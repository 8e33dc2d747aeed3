----------------------------- MODULE PushTokens -----------------------------
(***************************************************************************)
(* Delivery of pushes to one device.  Each push is a Notify goroutine of   *)
(* session/lifecycle.go: push/dispatcher.go reads the device's row of      *)
(* device_push_tokens, push/webpush.go sends, and a token the push service *)
(* reports dead is evicted.  The device registers tokens meanwhile.        *)
(***************************************************************************)
EXTENDS Naturals, Sequences

CONSTANTS
    Tokens,       \* push tokens the device can be issued
    MaxPushes     \* bound: Notify goroutines

VARIABLES
    stored,       \* the device's row in device_push_tokens
    tokensOut,    \* tokens the device was issued, newest last
    deadTokens,   \* tokens the push service no longer delivers to
    jobs,         \* Notify goroutines: stage and the registration read
    reported,     \* tokens a provider reported unregistered
    evicted       \* tokens removed from the row

vars == <<stored, tokensOut, deadTokens, jobs, reported, evicted>>

NoRow == [token |-> "none", platform |-> "none"]
Jobs  == 1 .. MaxPushes
Issued == {tokensOut[k] : k \in 1 .. Len(tokensOut)}
Newest == tokensOut[Len(tokensOut)]

Init ==
    /\ stored = NoRow /\ tokensOut = <<>> /\ deadTokens = {}
    /\ reported = {} /\ evicted = {}
    /\ jobs = [j \in Jobs |-> [at |-> "lookup", row |-> NoRow]]

(* External: the push service issues a new token and retires the old ones. *)
Rotates(t) ==
    /\ t \notin Issued
    /\ tokensOut' = Append(tokensOut, t)
    /\ deadTokens' = deadTokens \cup Issued
    /\ UNCHANGED <<stored, reported, evicted, jobs>>

(* Register, through POST /v1/push/token: a Web Push subscription with an  *)
(* https endpoint and both keys, or an opaque token, of "android" unless   *)
(* it names a platform.  Anything else is refused and changes nothing.     *)
Accepted == {"webpush", "android", "ios"}

Register(platform) ==
    /\ tokensOut # <<>>
    /\ stored' = [token |-> Newest, platform |-> platform]
    /\ UNCHANGED <<tokensOut, deadTokens, reported, evicted, jobs>>

Goes(j, at) == jobs' = [jobs EXCEPT ![j].at = at]

(* Notify reads the row; no token, or no provider for its platform, ends   *)
(* it, and so does a failed read.                                          *)
Routed(row) == row.platform = "webpush"

Lookup(j) ==
    /\ jobs[j].at = "lookup"
    /\ IF Routed(stored)
       THEN jobs' = [jobs EXCEPT ![j] = [at |-> "send", row |-> stored]]
       ELSE Goes(j, "done")
    /\ UNCHANGED <<stored, tokensOut, deadTokens, reported, evicted>>

(* Send: a 2xx answer, and every failure but 404 and 410, leave the token  *)
(* alone.                                                                  *)
SendReturns(j) ==
    /\ jobs[j].at = "send"
    /\ Goes(j, "done")
    /\ UNCHANGED <<stored, tokensOut, deadTokens, reported, evicted>>

Unregistered(j) ==
    /\ jobs[j].at = "send" /\ jobs[j].row.token \in deadTokens
    /\ Goes(j, "evict")
    /\ reported' = reported \cup {jobs[j].row.token}
    /\ UNCHANGED <<stored, tokensOut, deadTokens, evicted>>

(* DeleteDevicePushToken names the device, not the token.                  *)
Evict(j) ==
    /\ jobs[j].at = "evict"
    /\ Goes(j, "done")
    /\ stored' = NoRow
    /\ evicted' = IF stored = NoRow THEN evicted ELSE evicted \cup {stored.token}
    /\ UNCHANGED <<tokensOut, deadTokens, reported>>

Next ==
    \/ \E t \in Tokens : Rotates(t)
    \/ \E p \in Accepted : Register(p)
    \/ \E j \in Jobs : Lookup(j) \/ SendReturns(j) \/ Unregistered(j) \/ Evict(j)

Spec == Init /\ [][Next]_vars
-----------------------------------------------------------------------------
(* "evicts tokens providers report as unregistered": no other token is     *)
(* removed from the row.                                                   *)
EvictsOnlyReported == evicted \subseteq reported
=============================================================================
