---------------------------- MODULE PromptLedger ----------------------------
(***************************************************************************)
(* What a client may rely on when it sends a prompt again, whatever        *)
(* connections, pipelines and tables are in between (internal/session      *)
(* prompt_ids.go): the prompt is run once, and once more only for a run    *)
(* that did not start, for one the agent rejected, or when Cap prompts,    *)
(* itself among them, have run since it last did.                          *)
(***************************************************************************)
EXTENDS Naturals, FiniteSets

CONSTANTS
    Prompts,
    Runs,       \* the numbers of the runs
    Cap,        \* how many prompts are remembered at least
    NoPrompt

VARIABLES
    of,         \* run -> its prompt
    state,      \* run -> none, starting, void, running, rejected, over
    open,       \* prompts that will be run when they are sent
    told        \* prompts somebody was told need not be sent again

ledgerVars == <<of, state, open, told>>

Init ==
    /\ of = [r \in Runs |-> NoPrompt] /\ state = [r \in Runs |-> "none"]
    /\ open = Prompts /\ told = {}

Ran(r) == state[r] \in {"running", "rejected", "over"}

Starting == \E r \in Runs : state[r] = "starting"

\* The prompts run since q last was, q included.
Since(q) == {of[r] : r \in {s \in Runs : Ran(s) /\ \A t \in Runs : Ran(t) /\ of[t] = q => t <= s}}

Forgettable == {q \in Prompts \ open : Cardinality(Since(q)) >= Cap}

\* Runs start one at a time, and a start may make one old prompt forgotten.
Start(r, p) ==
    /\ p \in open /\ ~Starting
    /\ \A s \in Runs : state[s] # "none" <=> s < r
    /\ of' = [of EXCEPT ![r] = p]
    /\ state' = [state EXCEPT ![r] = "starting"]
    /\ \E lost \in {{}} \cup {{q} : q \in Forgettable} : open' = (open \cup lost) \ {p}
    /\ UNCHANGED told

Land(r) ==
    /\ state[r] = "starting" /\ state' = [state EXCEPT ![r] = "running"]
    /\ UNCHANGED <<of, open, told>>

Fail(r) ==
    /\ state[r] = "starting" /\ state' = [state EXCEPT ![r] = "void"]
    /\ open' = open \cup {of[r]}
    /\ UNCHANGED <<of, told>>

Answer(r) ==
    /\ state[r] = "running"
    /\ \E s \in {"over", "rejected"} : state' = [state EXCEPT ![r] = s]
    /\ UNCHANGED <<of, open, told>>

\* The rejection is read, in time to count or not.
Learn(r) ==
    /\ state[r] = "rejected" /\ state' = [state EXCEPT ![r] = "over"]
    /\ open' \in {open, open \cup {of[r]}}
    /\ UNCHANGED <<of, told>>

\* "Already delivered": the prompt was run, and nothing reopened it.
Tell(p) ==
    /\ p \notin open /\ ~Starting /\ \E r \in Runs : Ran(r) /\ of[r] = p
    /\ told' = told \cup {p}
    /\ UNCHANGED <<of, state, open>>

Next ==
    \/ \E r \in Runs : Land(r) \/ Fail(r) \/ Answer(r) \/ Learn(r)
    \/ \E p \in Prompts : Tell(p) \/ \E r \in Runs : Start(r, p)

Spec == Init /\ [][Next]_ledgerVars
=============================================================================
