------------------------------ MODULE Install ------------------------------
(***************************************************************************)
(* Getting an agent's program onto the host before it is launched          *)
(* (internal/acquire, Supervisor.prepareAgent, storage/binaries.go).  An   *)
(* agent is published in one of three kinds: "raw", a bare executable;     *)
(* "archive", a bundle that is unpacked; "npm", a package that is          *)
(* installed in the background while npm exec serves the first launches.   *)
(*                                                                         *)
(* Nothing serializes two launches of one agent: their downloads and npm   *)
(* installs interleave, and a launch starts its process some time after    *)
(* the disk was looked at.  A version on disk is whole or not; a crash of  *)
(* the daemon can come at any point and leaves the disk and the database   *)
(* as they are, and maybe the npm processes it had started.                *)
(***************************************************************************)
EXTENDS Naturals, FiniteSets

CONSTANTS
    Launchers,    \* requests that launch the agent, at most once each per boot
    Kinds,        \* the kinds of distribution to model
    MaxVersion,   \* how far the registry moves
    MaxBoots      \* how often the daemon starts

ASSUME InstallConstants == Kinds \subseteq {"raw", "archive", "npm"} /\ MaxVersion \in Nat \ {0}

VARIABLES
    kind,         \* how the agent is distributed
    published,    \* Registry.Version, the version the catalog offers
    step,         \* where each launch is
    chosen,       \* the version it saw in the catalog
    tmp,          \* targetPath + ".download": version, still being written, or none
    writes,       \* the file each launch has open: "tmp", "target" or "none"
    target,       \* the file at targetPath
    bundles,      \* whole versioned bundle directories
    npmDir,       \* per version: "none", "partial", or marked as complete: "complete", "torn"
    npmInstalling,\* versions a background install of this daemon is running for
    orphans,      \* versions an npm of an earlier daemon may still write
    acquired,     \* the acquired_binaries row: a version, 0 for none
    launched,     \* what each launch started is whole
    boots,
    overlapped,   \* two launches were copying a raw binary at once
    disturbed     \* versions whose npm install was removed or written to once marked

instVars == <<kind, published, step, chosen, tmp, writes, target, bundles, npmDir,
              npmInstalling, orphans, acquired, launched, boots, overlapped, disturbed>>
npmVars == <<npmDir, npmInstalling, orphans, disturbed>>

Versions == 1..MaxVersion
NoFile == [version |-> 0, whole |-> FALSE, mixed |-> FALSE]
NpmStates == {"none", "partial", "complete", "torn"}

InstInit ==
    /\ kind \in Kinds /\ published = 1 /\ boots = 1 /\ overlapped = FALSE
    /\ step = [l \in Launchers |-> "idle"] /\ chosen = [l \in Launchers |-> 0]
    /\ tmp = NoFile /\ writes = [l \in Launchers |-> "none"] /\ target = NoFile /\ bundles = {}
    /\ npmDir = [v \in Versions |-> "none"] /\ npmInstalling = {}
    /\ orphans = {} /\ disturbed = {}
    /\ acquired = 0 /\ launched = [l \in Launchers |-> TRUE]

Goto(l, place) == step' = [step EXCEPT ![l] = place]

\* What a command of version v names is there in one piece.
Whole(v) ==
    \/ kind = "raw" /\ target.whole
    \/ kind = "archive" /\ v \in bundles
    \/ kind = "npm" /\ npmDir[v] = "complete"

\* spawn: prepareAgent has settled on a command, and the process is started from
\* what is on the disk by now.  The host does not run a file that is open for
\* writing (ETXTBSY).
Spawn(l) ==
    /\ step[l] = "spawn"
    /\ IF kind = "raw" /\ \E m \in Launchers : writes[m] = "target"
       THEN Goto(l, "refused") /\ UNCHANGED launched
       ELSE Goto(l, "running") /\ launched' = [launched EXCEPT ![l] = Whole(chosen[l])]
    /\ UNCHANGED <<kind, published, chosen, tmp, writes, target, bundles, npmVars, acquired, boots, overlapped>>

-----------------------------------------------------------------------------
(* Ensure: a binary, raw or in an archive.                                 *)

\* cachedBinary: the recorded version is the published one and still there, or
\* there is no record and the file is; `installed` is the fallback.
Held(v) == IF kind = "raw" THEN target # NoFile ELSE v \in bundles
Cached(v) == IF acquired # 0 /\ Held(acquired) THEN acquired = v ELSE Held(v)
HasInstalled == acquired # 0 /\ Held(acquired)

EnsureBinary(l) ==
    /\ kind # "npm" /\ step[l] = "idle"
    /\ chosen' = [chosen EXCEPT ![l] = published]
    /\ Goto(l, IF Cached(published) THEN "spawn" ELSE "download")
    /\ UNCHANGED <<kind, published, tmp, writes, target, bundles, npmVars, acquired, launched, boots, overlapped>>

\* Whatever fails, the version that is installed is used; without one the
\* launch fails.
Fallback(l) ==
    IF HasInstalled THEN Goto(l, "spawn") /\ chosen' = [chosen EXCEPT ![l] = acquired]
                    ELSE Goto(l, "refused") /\ UNCHANGED chosen

\* The artifact arrives in a temporary file of its own.
DownloadArtifact(l) ==
    /\ step[l] = "download"
    /\ \/ Goto(l, IF kind = "raw" THEN "copy" ELSE "unpack") /\ UNCHANGED chosen
       \/ Fallback(l)
    /\ UNCHANGED <<kind, published, tmp, writes, target, bundles, npmVars, acquired, launched, boots, overlapped>>

\* installDownloadedArtifact for an archive: unpacked in a stage directory of
\* its own, which one rename turns into the versioned bundle.  A bundle that
\* is already there will do.
UnpackArchive(l) ==
    /\ step[l] = "unpack"
    /\ \/ bundles' = bundles \cup {chosen[l]} /\ Goto(l, "record") /\ UNCHANGED chosen
       \/ Fallback(l) /\ UNCHANGED bundles
    /\ UNCHANGED <<kind, published, tmp, writes, target, npmVars, acquired, launched, boots, overlapped>>

Copying(m) == step[m] \in {"write", "rename", "done", "undo"}

\* writeReaderToFile: open and truncate the .download file, which is the same
\* file for every launch of the agent.
OpenDownload(l) ==
    /\ step[l] = "copy"
    /\ tmp' = [version |-> chosen[l], whole |-> FALSE,
               mixed |-> \E m \in Launchers : writes[m] = "tmp" /\ chosen[m] # chosen[l]]
    /\ writes' = [writes EXCEPT ![l] = "tmp"]
    /\ overlapped' = (overlapped \/ \E m \in Launchers \ {l} : Copying(m))
    /\ Goto(l, "write")
    /\ UNCHANGED <<kind, published, chosen, target, bundles, npmVars, acquired, launched, boots>>

\* The copy ends, with the file whole if nobody else is writing it and only one
\* version was written to it; otherwise that depends on how the writes fell.
\* The file may be the target by now, or have no name any more.
Copied(l, file) ==
    {[file EXCEPT !.version = chosen[l], !.whole = w] :
        w \in IF file.mixed \/ \E m \in Launchers \ {l} : writes[m] = writes[l]
              THEN BOOLEAN ELSE {TRUE}}
FinishCopy(l) ==
    /\ step[l] = "write"
    /\ IF writes[l] = "tmp" THEN tmp' \in Copied(l, tmp) ELSE UNCHANGED tmp
    /\ IF writes[l] = "target" THEN target' \in Copied(l, target) ELSE UNCHANGED target
    /\ writes' = [writes EXCEPT ![l] = "none"]
    /\ Goto(l, "rename")
    /\ UNCHANGED <<kind, published, chosen, bundles, npmVars, acquired, launched, boots, overlapped>>

\* A copy whose error nobody looks at.
CopyFailsUnnoticed(l) ==
    /\ step[l] = "write"
    /\ writes' = [writes EXCEPT ![l] = "none"] /\ Goto(l, "rename")
    /\ UNCHANGED <<kind, published, chosen, tmp, target, bundles, npmVars, acquired, launched, boots, overlapped>>

\* The disk is full: the file stays as far as it got, under the name it has.
CopyFails(l) ==
    /\ step[l] = "write"
    /\ writes' = [writes EXCEPT ![l] = "none"] /\ Goto(l, "undo")
    /\ UNCHANGED <<kind, published, chosen, tmp, target, bundles, npmVars, acquired, launched, boots, overlapped>>

\* Whoever still writes the file goes on writing it under its new name.
Moved(from, to) ==
    writes' = [m \in Launchers |-> CASE writes[m] = from -> to
                                     [] writes[m] = to -> "none"
                                     [] OTHER -> writes[m]]
RenameDownload(l) ==
    /\ step[l] = "rename"
    /\ IF tmp # NoFile
       THEN target' = tmp /\ tmp' = NoFile /\ Moved("tmp", "target") /\ Goto(l, "done")
       ELSE Goto(l, "undo") /\ UNCHANGED <<tmp, writes, target>>
    /\ UNCHANGED <<kind, published, chosen, bundles, npmVars, acquired, launched, boots, overlapped>>

\* The deferred removal takes whatever has the name by now.
RemoveDownload(l) ==
    /\ step[l] \in {"done", "undo"}
    /\ tmp' = NoFile /\ Moved("tmp", "none")
    /\ IF step[l] = "done" THEN Goto(l, "record") /\ UNCHANGED chosen ELSE Fallback(l)
    /\ UNCHANGED <<kind, published, target, bundles, npmVars, acquired, launched, boots, overlapped>>

\* SaveAcquiredBinary, whose failure is only logged.
SaveAcquiredBinary(l) ==
    /\ step[l] = "record" /\ Goto(l, "spawn")
    /\ acquired' \in {acquired, chosen[l]}
    /\ UNCHANGED <<kind, published, chosen, tmp, writes, target, bundles, npmVars, launched, boots, overlapped>>

-----------------------------------------------------------------------------
(* EnsureNpm: launch from a finished install, or start one meanwhile, on a *)
(* host with a JavaScript runtime.                                         *)

\* npmBinScript: a directory with the marker is launched from, unless it turns
\* out to be torn.
Marked(v) == npmDir[v] \in {"complete", "torn"}

EnsureNpm(l) ==
    /\ kind = "npm" /\ step[l] = "idle"
    /\ chosen' = [chosen EXCEPT ![l] = published]
    /\ \/ Marked(published) /\ Goto(l, "spawn")
       \/ npmDir[published] # "complete" /\ Goto(l, "npm")
    /\ UNCHANGED <<kind, published, tmp, writes, target, bundles, npmVars, acquired, launched, boots, overlapped>>

\* One install per directory at a time; this launch goes through npm exec, which
\* fetches what it starts.  The install starts by removing the directory, which
\* another launch may have completed since this one looked: the marker may go
\* last.
InstallNpmInBackground(l) ==
    /\ step[l] = "npm" /\ Goto(l, "running")
    /\ LET v == chosen[l] IN
       IF v \in npmInstalling THEN UNCHANGED npmVars
       ELSE /\ npmInstalling' = npmInstalling \cup {v}
            /\ npmDir' = [npmDir EXCEPT ![v] = IF Marked(v) THEN "torn" ELSE "partial"]
            /\ disturbed' = IF Marked(v) \/ v \in orphans THEN disturbed \cup {v} ELSE disturbed
            /\ UNCHANGED orphans
    /\ UNCHANGED <<kind, published, chosen, tmp, writes, target, bundles, acquired, launched, boots, overlapped>>

\* npm install ends: the marker is written only when it succeeded, whatever an
\* orphan has written beside it.  "torn" stays if the removal failed.
InstallNpmPackage(v) ==
    /\ v \in npmInstalling
    /\ npmInstalling' = npmInstalling \ {v}
    /\ \E after \in {npmDir[v], "partial", "complete"} \cup (IF v \in orphans THEN {"torn"} ELSE {}) :
          npmDir' = [npmDir EXCEPT ![v] = after]
    /\ UNCHANGED <<kind, published, step, chosen, tmp, writes, target, bundles,
                   orphans, disturbed, acquired, launched, boots, overlapped>>

\* An npm process that outlived its daemon writes into the directory, and ends.
OrphanWrites(v) ==
    /\ v \in orphans
    /\ orphans' \in {orphans, orphans \ {v}}
    /\ npmDir' = [npmDir EXCEPT ![v] = IF Marked(v) THEN "torn" ELSE "partial"]
    /\ UNCHANGED <<kind, published, step, chosen, tmp, writes, target, bundles,
                   npmInstalling, disturbed, acquired, launched, boots, overlapped>>

-----------------------------------------------------------------------------
(* The registry, the agents' ends and the daemon's.                        *)

RegistryMoves ==
    /\ published < MaxVersion /\ published' = published + 1
    /\ UNCHANGED <<kind, step, chosen, tmp, writes, target, bundles, npmVars, acquired, launched, boots, overlapped>>

AgentEnds(l) ==
    /\ step[l] \in {"running", "refused"} /\ Goto(l, "idle")
    /\ launched' = [launched EXCEPT ![l] = TRUE]
    /\ UNCHANGED <<kind, published, chosen, tmp, writes, target, bundles, npmVars, acquired, boots, overlapped>>

\* PruneNpm keeps the install that was marked last, and removes the others; a
\* removal may get stuck halfway.
LastMarked == IF \E v \in Versions : Marked(v) THEN {v \in Versions : Marked(v)} ELSE {0}
PrunedNpm(keep) ==
    {d \in [Versions -> NpmStates] : \A v \in Versions :
        d[v] \in CASE v = keep -> {npmDir[v]}
                   [] v # keep /\ Marked(v) -> {"none", "torn"}
                   [] OTHER -> {"none", npmDir[v]}}

\* The daemon dies and comes back.  Its npm processes end with it or do not.
Restart ==
    /\ boots < MaxBoots /\ boots' = boots + 1
    /\ step' = [l \in Launchers |-> "idle"] /\ chosen' = [l \in Launchers |-> 0]
    /\ launched' = [l \in Launchers |-> TRUE]
    /\ writes' = [l \in Launchers |-> "none"] /\ npmInstalling' = {}
    /\ orphans' \in SUBSET (orphans \cup npmInstalling)
    /\ \E keep \in LastMarked : npmDir' \in PrunedNpm(keep)
    /\ disturbed' = disturbed \cup {v \in Versions : npmDir'[v] = "torn"}
    /\ UNCHANGED <<kind, published, tmp, target, bundles, acquired, overlapped>>

InstNext ==
    \/ \E l \in Launchers : \/ EnsureBinary(l) \/ DownloadArtifact(l) \/ UnpackArchive(l)
                            \/ OpenDownload(l) \/ FinishCopy(l) \/ CopyFails(l)
                            \/ RenameDownload(l) \/ RemoveDownload(l)
                            \/ SaveAcquiredBinary(l) \/ Spawn(l)
                            \/ EnsureNpm(l) \/ InstallNpmInBackground(l) \/ AgentEnds(l)
    \/ \E v \in Versions : InstallNpmPackage(v) \/ OrphanWrites(v)
    \/ RegistryMoves \/ Restart

InstSpec == InstInit /\ [][InstNext]_instVars

-----------------------------------------------------------------------------
(* The program a launch starts is whole: not a download, an unpacking or   *)
(* an npm install that another launch, or an earlier life of the daemon,   *)
(* has not finished.  Does not hold for a raw binary, whose temporary file *)
(* launches share (installer.go:387), nor for npm, where a launch that saw *)
(* no marker removes the install another one has just completed, while a   *)
(* third has its command but has not started it (npm.go:73, npm.go:198).   *)
LaunchedIsWhole == \A l \in Launchers : launched[l]

(* What is started is whole, whichever download, copy, rename, record or   *)
(* install fails and whenever the daemon dies, unless two launches copied  *)
(* the raw binary at once (overlapped), or the npm install of that very    *)
(* version was removed or written to after it had been marked: by a launch *)
(* that saw it before, by PruneNpm stopped halfway, or by an npm process a *)
(* dead daemon left behind (disturbed).                                    *)
WholeUnlessShared ==
    overlapped \/ \A l \in Launchers : launched[l] \/ (kind = "npm" /\ chosen[l] \in disturbed)
=============================================================================
