----------------------------- MODULE Worktrees -----------------------------
(***************************************************************************)
(* internal/workspace: creating, deleting, rebasing and merging managed    *)
(* git worktrees (worktree.go, finish.go) and their rows (storage).        *)
(* Requests run concurrently with one another, with chats and with a user  *)
(* at the PC; only rebase and merge are serialized, by finishMu, and two   *)
(* creates of one folder, by claimFolder.                                  *)
(*                                                                         *)
(* A branch is the set of commits it holds; a commit keeps its identity    *)
(* when it is rebased or squashed.  "trunk" is the base branch, checked    *)
(* out in the main checkout, "landed" the commits whose changes it holds.  *)
(* Every branch of Branches has the same folder name, as feat/x and feat-x *)
(* do, so there is one folder.  Pushing to origin is left out.             *)
(***************************************************************************)
EXTENDS Naturals, FiniteSets, Sequences

CONSTANTS
    Branches,     \* branch names that share a folder name
    Ops,          \* requests under way at once
    MaxCommits,   \* bound: commits
    MaxRows,      \* bound: worktree records
    NoBranch

ASSUME TreeConstants ==
    NoBranch \notin Branches /\ MaxCommits \in Nat /\ MaxRows \in Nat

VARIABLES
    branches,   \* branch -> its commits, for branches that exist
    trunk,      \* commits on the base branch
    landed,     \* commits whose changes the base branch holds
    folder,     \* the worktree folder: branch checked out and uncommitted edits
    chat,       \* a running chat has the folder as its cwd
    records,    \* worktrees table: id -> branch
    nextId,     \* records made so far
    claimed,    \* s.creating holds the folder
    finishing,  \* finishMu is held
    ops,        \* request -> kind, stage and what it read
    commits,    \* commits made so far
    late,       \* commits made while a request was past its last look at them
    lost,       \* commits on no branch and not landed
    ruined      \* uncommitted edits an unforced request destroyed

repoVars == <<branches, trunk, landed>>
lockVars == <<claimed, finishing>>
histVars == <<commits, late, lost, ruined>>
treeVars == <<repoVars, folder, chat, records, nextId, lockVars, ops, histVars>>

NoFolder == [on |-> NoBranch, edits |-> "none"]
Gone == folder.on = NoBranch
Dirty == folder.edits # "none"
Exists(b) == b \in DOMAIN branches
Free(o) == ops[o].kind = "none"
Idle == [kind |-> "none"]
At(o, kind, stage) == ops[o].kind = kind /\ ops[o].stage = stage
Goes(o, stage) == ops' = [ops EXCEPT ![o].stage = stage]
Ends(o) == ops' = [ops EXCEPT ![o] = Idle]

TreeInit ==
    /\ branches = [b \in {} |-> {}] /\ trunk = {} /\ landed = {}
    /\ folder = NoFolder /\ chat = FALSE
    /\ records = <<>> /\ nextId = 0
    /\ claimed = FALSE /\ finishing = FALSE
    /\ ops = [o \in Ops |-> Idle]
    /\ commits = 0 /\ late = {} /\ lost = {} /\ ruined = FALSE

(* Removing a branch, and removing the folder.                             *)
Without(f, x) == [y \in DOMAIN f \ {x} |-> f[y]]
LosesWith(b) ==
    IF Exists(b)
    THEN branches[b] \ (landed \cup trunk \cup
                        UNION {branches[c] : c \in DOMAIN branches \ {b}})
    ELSE {}
DropBranch(b) ==
    /\ branches' = Without(branches, b)
    /\ lost' = lost \cup LosesWith(b)
FolderDies(forced) ==
    /\ folder' = NoFolder
    /\ ruined' = (ruined \/ (folder.edits = "settled" /\ ~forced))

(* discardWorktree: folder, registration and branch of a failed create.    *)
discardWorktree(b) ==
    /\ DropBranch(b)
    /\ FolderDies(FALSE)
-----------------------------------------------------------------------------
(* Create.                                                                 *)

Pruned == IF Gone THEN [i \in {} |-> NoBranch] ELSE records

(* The base commit the branch will start from: the base branch as it is.   *)
resolveBaseCommitAndRef == trunk

(* Prune, and the base commit, before any claim.                           *)
CreateBegins(o, b) ==
    /\ Free(o) /\ nextId < MaxRows
    /\ records' = Pruned
    /\ ops' = [ops EXCEPT ![o] = [kind |-> "create", stage |-> "claim", branch |-> b,
                                  base |-> resolveBaseCommitAndRef]]
    /\ UNCHANGED <<repoVars, folder, chat, nextId, lockVars, histVars>>

claimFolder(o) ==
    /\ At(o, "create", "claim")
    /\ IF ~claimed THEN claimed' = TRUE /\ Goes(o, "check")
                    ELSE claimed' = claimed /\ Ends(o)
    /\ UNCHANGED <<repoVars, folder, chat, records, nextId, finishing, histVars>>

CreateChecks(o) ==
    /\ At(o, "create", "check")
    /\ IF Exists(ops[o].branch) \/ ~Gone
       THEN claimed' = FALSE /\ Ends(o)
       ELSE claimed' = claimed /\ Goes(o, "add")
    /\ UNCHANGED <<repoVars, folder, chat, records, nextId, finishing, histVars>>

WorktreeAdds(o) ==
    LET b == ops[o].branch
    IN  /\ At(o, "create", "add")
        /\ ~Exists(b) /\ Gone
        /\ branches' = [x \in DOMAIN branches \cup {b} |->
                            IF x = b THEN ops[o].base ELSE branches[x]]
        /\ folder' = [on |-> b, edits |-> "none"]
        /\ Goes(o, "save")
        /\ UNCHANGED <<trunk, landed, chat, records, nextId, lockVars, histVars>>

(* git refuses, or is killed by the timeout: what is there goes.           *)
WorktreeAddFails(o) ==
    /\ At(o, "create", "add")
    /\ discardWorktree(ops[o].branch)
    /\ claimed' = FALSE /\ Ends(o)
    /\ UNCHANGED <<trunk, landed, chat, records, nextId, finishing, commits, late>>

(* SaveWorktree refuses a folder that already has a row.                   *)
PathTaken == DOMAIN records # {}

WorktreeSaved(o) ==
    /\ At(o, "create", "save") /\ ~PathTaken
    /\ records' = [i \in {nextId + 1} |-> ops[o].branch]
    /\ nextId' = nextId + 1
    /\ claimed' = FALSE /\ Ends(o)
    /\ UNCHANGED <<repoVars, folder, chat, finishing, histVars>>

WorktreeNotSaved(o) ==
    /\ At(o, "create", "save")
    /\ discardWorktree(ops[o].branch)
    /\ claimed' = FALSE /\ Ends(o)
    /\ UNCHANGED <<trunk, landed, chat, records, nextId, finishing, commits, late>>
-----------------------------------------------------------------------------
(* Delete, alone or as the end of a merge; "then" is what follows.         *)

Deletion(i, force, then, hold) ==
    [kind |-> "delete", stage |-> "inUse", id |-> i, branch |-> records[i],
     force |-> force, then |-> then, hold |-> hold]

DeleteBegins(o, i, force) ==
    /\ Free(o) /\ i \in DOMAIN records
    /\ ops' = [ops EXCEPT ![o] = Deletion(i, force, "end", FALSE)]
    /\ UNCHANGED <<repoVars, folder, chat, records, nextId, lockVars, histVars>>

(* The end of a request, with finishMu if it holds it.                     *)
Released(o) == finishing' = (finishing /\ ~ops[o].hold)

inUse(o) ==
    /\ At(o, "delete", "inUse")
    /\ IF chat THEN Ends(o) /\ Released(o) ELSE Goes(o, "status") /\ finishing' = finishing
    /\ UNCHANGED <<repoVars, folder, chat, records, nextId, claimed, histVars>>

FallsThrough(o, known) == ~ops[o].force /\ known /\ Dirty

(* An unknown state must not fall through to the forced remove.            *)
Refuses(o, known) == ~ops[o].force /\ (~known \/ Dirty)

DeleteChecks(o, known) ==
    /\ At(o, "delete", "status")
    /\ IF Gone THEN Goes(o, "branch") /\ finishing' = finishing
       ELSE IF Refuses(o, known) THEN Ends(o) /\ Released(o)
       ELSE Goes(o, "remove") /\ finishing' = finishing
    /\ UNCHANGED <<repoVars, folder, chat, records, nextId, claimed, histVars>>

RemovesFolder(o) ==
    /\ At(o, "delete", "remove")
    /\ FolderDies(ops[o].force)
    /\ Goes(o, "branch")
    /\ UNCHANGED <<repoVars, chat, records, nextId, lockVars, commits, late, lost>>

(* removeAllRetrying gives up: another process holds the folder.           *)
FolderHeld(o) ==
    /\ At(o, "delete", "remove")
    /\ Ends(o) /\ Released(o)
    /\ UNCHANGED <<repoVars, folder, chat, records, nextId, claimed, histVars>>

BranchForced(b) == Exists(b) /\ folder.on # b

(* git branch -d: only a merged branch goes.                               *)
BranchGoes(b) == Exists(b) /\ folder.on # b /\ branches[b] \subseteq trunk

DeletesBranch(o) ==
    /\ At(o, "delete", "branch")
    /\ IF BranchGoes(ops[o].branch) THEN DropBranch(ops[o].branch)
       ELSE UNCHANGED <<branches, lost>>
    /\ Goes(o, "row")
    /\ UNCHANGED <<trunk, landed, folder, chat, records, nextId, lockVars, commits, late, ruined>>

(* A failed delete of the row is logged; the next Prune forgets it.        *)
DeletesRow(o, deleted) ==
    /\ At(o, "delete", "row")
    /\ records' = IF deleted THEN Without(records, ops[o].id) ELSE records
    /\ IF ops[o].then = "drop" /\ Exists(ops[o].branch)
       THEN Goes(o, "drop") /\ finishing' = finishing
       ELSE Ends(o) /\ Released(o)
    /\ UNCHANGED <<repoVars, folder, chat, nextId, claimed, histVars>>

(* A squashed branch is dropped by force: its content is merged.           *)
DropsSquashed(o) ==
    LET b == ops[o].branch
    IN  /\ At(o, "delete", "drop")
        /\ IF Exists(b) /\ folder.on # b THEN DropBranch(b) ELSE UNCHANGED <<branches, lost>>
        /\ Ends(o) /\ Released(o)
        /\ UNCHANGED <<trunk, landed, folder, chat, records, nextId, claimed, commits, late, ruined>>
-----------------------------------------------------------------------------
(* Rebase and merge, under finishMu.                                       *)

FinishBegins(o, i, kind, delete) ==
    /\ Free(o) /\ i \in DOMAIN records
    /\ ~finishing /\ ~Gone /\ ~Dirty          \* cleanWorktree
    /\ delete => ~chat
    /\ finishing' = TRUE
    /\ ops' = [ops EXCEPT ![o] = [kind |-> kind, stage |-> "run", id |-> i,
                                  branch |-> records[i], delete |-> delete, hold |-> TRUE]]
    /\ UNCHANGED <<repoVars, folder, chat, records, nextId, claimed, histVars>>

(* A conflict, or edits made since, aborts and changes nothing.            *)
FinishRefused(o) ==
    /\ ops[o].kind \in {"rebase", "merge", "squash"} /\ ops[o].stage = "run"
    /\ Ends(o) /\ Released(o)
    /\ UNCHANGED <<repoVars, folder, chat, records, nextId, claimed, histVars>>

Rebases(o) ==
    LET b == ops[o].branch
    IN  /\ At(o, "rebase", "run")
        /\ Exists(b) /\ folder.on = b /\ ~Dirty
        /\ branches' = [branches EXCEPT ![b] = @ \cup trunk]
        /\ Ends(o) /\ Released(o)
        /\ UNCHANGED <<trunk, landed, folder, chat, records, nextId, claimed, histVars>>

(* After the merge: the end, or Delete without force.                      *)
AfterMerge(o, then) ==
    IF ops[o].delete /\ ops[o].id \in DOMAIN records
    THEN /\ ops' = [ops EXCEPT ![o] = Deletion(ops[o].id, FALSE, then, TRUE)]
         /\ finishing' = finishing
    ELSE Ends(o) /\ Released(o)

FastForwards(o) ==
    LET b == ops[o].branch
    IN  /\ At(o, "merge", "run")
        /\ Exists(b) /\ trunk \subseteq branches[b] /\ branches[b] # trunk
        /\ trunk' = branches[b]
        /\ landed' = landed \cup branches[b]
        /\ AfterMerge(o, "end")
        /\ UNCHANGED <<branches, folder, chat, records, nextId, claimed, histVars>>

Squashes(o) ==
    LET b == ops[o].branch
    IN  /\ At(o, "squash", "run")
        /\ Exists(b) /\ ~(branches[b] \subseteq trunk)
        /\ landed' = landed \cup branches[b]
        /\ AfterMerge(o, "drop")
        /\ UNCHANGED <<branches, trunk, folder, chat, records, nextId, claimed, histVars>>
-----------------------------------------------------------------------------
(* External: chats, and the user at the PC.                                *)

(* Requests that no longer look: a delete past its check of the folder, a  *)
(* create that may still discard, a squash merge about to drop a branch.   *)
Unwatched == \E o \in Ops :
    \/ ops[o].kind = "delete" /\ ops[o].stage \in {"remove", "branch", "row", "drop"}
    \/ ops[o].kind = "create" /\ ops[o].stage \in {"add", "save"}
Doomed(b) == \E o \in Ops :
    /\ ops[o].kind # "none" /\ ops[o].branch = b
    /\ \/ ops[o].kind = "delete" /\ ops[o].then = "drop"
       \/ ops[o].kind = "create" /\ ops[o].stage \in {"add", "save"}

Edit ==
    /\ ~Gone /\ ~Dirty
    /\ folder' = [folder EXCEPT !.edits = IF Unwatched THEN "raced" ELSE "settled"]
    /\ UNCHANGED <<repoVars, chat, records, nextId, lockVars, ops, histVars>>

Commits(b) ==
    /\ commits < MaxCommits
    /\ commits' = commits + 1
    /\ late' = IF Doomed(b) THEN late \cup {commits + 1} ELSE late
    /\ branches' = [x \in DOMAIN branches \cup {b} |->
                      IF x = b THEN (IF Exists(b) THEN branches[b] ELSE trunk) \cup {commits + 1}
                      ELSE branches[x]]

CommitInFolder ==
    /\ ~Gone
    /\ Commits(folder.on)
    /\ folder' = [folder EXCEPT !.edits = "none"]
    /\ UNCHANGED <<trunk, landed, chat, records, nextId, lockVars, ops, lost, ruined>>

UserMakesBranch(b) ==
    /\ ~Exists(b)
    /\ Commits(b)
    /\ UNCHANGED <<trunk, landed, folder, chat, records, nextId, lockVars, ops, lost, ruined>>

UserDeletesFolder ==
    /\ ~Gone
    /\ folder' = NoFolder
    /\ UNCHANGED <<repoVars, chat, records, nextId, lockVars, ops, histVars>>

ChatTurns ==
    /\ chat' = ~chat
    /\ ~Gone \/ chat
    /\ UNCHANGED <<repoVars, folder, records, nextId, lockVars, ops, histVars>>

Request(o) ==
    \/ claimFolder(o) \/ CreateChecks(o) \/ WorktreeAdds(o) \/ WorktreeAddFails(o)
    \/ WorktreeSaved(o) \/ WorktreeNotSaved(o)
    \/ inUse(o) \/ RemovesFolder(o) \/ FolderHeld(o) \/ DeletesBranch(o) \/ DropsSquashed(o)
    \/ FinishRefused(o) \/ Rebases(o) \/ FastForwards(o) \/ Squashes(o)
    \/ \E known \in BOOLEAN : DeleteChecks(o, known)
    \/ \E deleted \in BOOLEAN : DeletesRow(o, deleted)

Arrives(o) ==
    \/ \E b \in Branches : CreateBegins(o, b)
    \/ \E i \in DOMAIN records :
        \/ \E force \in BOOLEAN : DeleteBegins(o, i, force)
        \/ FinishBegins(o, i, "rebase", FALSE)
        \/ \E k \in {"merge", "squash"}, delete \in BOOLEAN : FinishBegins(o, i, k, delete)

TreeNext ==
    \/ \E o \in Ops : Arrives(o) \/ Request(o)
    \/ Edit \/ CommitInFolder \/ UserDeletesFolder \/ ChatTurns
    \/ \E b \in Branches : UserMakesBranch(b)

TreeSpec == TreeInit /\ [][TreeNext]_treeVars
-----------------------------------------------------------------------------
(* "kept so committed work survives": no interleaving of creates, deletes, *)
(* rebases and merges drops a commit that no other branch and no landed    *)
(* change holds, save one made on the very branch after a squash merge     *)
(* with delete took its content, or while a create of that branch was past *)
(* its check for it.                                                       *)
CommittedWorkSurvives == lost \subseteq late

(* Without force a request destroys no uncommitted edits, save those made  *)
(* after it looked.                                                        *)
UncommittedWorkKept == ~ruined

(* No work of a chat is lost by what the gateway does with its worktree.   *)
NoWorkLost == CommittedWorkSurvives /\ UncommittedWorkKept
=============================================================================
