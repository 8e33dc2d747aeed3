--------------------------- MODULE OneTimeTokens ---------------------------
(***************************************************************************)
(* What the attach tokens promise, whatever map, clock, sweep and cap they *)
(* are kept with (internal/session/token.go): a token is given out once,   *)
(* is good for one use, and once used or void is never good again.         *)
(***************************************************************************)
EXTENDS Naturals

CONSTANT Tokens

VARIABLES
    status,    \* of each token: "none", "good", "used" or "void"
    usedAt     \* when it let somebody in, 0 before

Good == {t \in Tokens : status[t] = "good"}

Init == status = [t \in Tokens |-> "none"] /\ usedAt = [t \in Tokens |-> 0]

\* A token is given out; room may have to be made for it.
Give(t, lost) ==
    /\ status[t] = "none" /\ lost \subseteq Good
    /\ status' = [u \in Tokens |-> IF u = t THEN "good" ELSE IF u \in lost THEN "void" ELSE status[u]]
    /\ UNCHANGED usedAt

\* Somebody is let in with it.
Use(t) ==
    /\ t \in Good
    /\ status' = [status EXCEPT ![t] = "used"]
    /\ usedAt' = [usedAt EXCEPT ![t] = usedAt'[t]]

\* Some run out.
RunOut(lost) ==
    /\ lost \subseteq Good
    /\ status' = [u \in Tokens |-> IF u \in lost THEN "void" ELSE status[u]]
    /\ UNCHANGED usedAt

Next ==
    \/ \E t \in Tokens : Use(t) \/ \E lost \in SUBSET Good : Give(t, lost)
    \/ \E lost \in SUBSET Good : RunOut(lost)

Spec == Init /\ [][Next]_<<status, usedAt>>
=============================================================================
