------------------------------ MODULE Catalog ------------------------------
(***************************************************************************)
(* The agents a gateway offers (internal/catalog), the registry client they *)
(* come from (internal/registry) and the custom agents clients register    *)
(* (internal/customagents, storage/custom_agents.go).                      *)
(*                                                                         *)
(* The catalog is a cache: a reader that finds it older than its interval  *)
(* rebuilds it under the catalog's lock from the registry's last good      *)
(* document, the host's PATH and the custom_agents rows.  A write saves a  *)
(* row, drops the cache and reads the row back through the catalog, which  *)
(* is the only validator it has; a row that is rejected is rolled back.    *)
(* One agent of the registry and one display name of custom agents stand   *)
(* for all of them.                                                        *)
(***************************************************************************)
EXTENDS Naturals, Sequences, FiniteSets

CONSTANTS
    Writers,     \* concurrent create, update and delete requests
    Slugs,       \* the ids a display name may get, in the order they are tried
    Commands,    \* command lines a client may register
    Invalid,     \* those that validateAgent rejects
    MaxAgents,   \* the cap on custom agents
    MaxWrites,   \* how many write requests are made
    Documents,   \* the registry's entries for the agent: sets of distributions
    Hosts,       \* what is on PATH: subsets of {"bin", "id", "npm", "uvx"}
    None

ASSUME CatalogConstants == None \notin Invalid /\ Len(Slugs) \in Nat

VARIABLES
    rows,        \* the custom_agents table: a command per id, or None
    agents,      \* the cached catalog: [custom: as rows, offer: the registry agent's launch]
    fresh,       \* the cache is younger than catalogRefreshInterval
    building,    \* the catalog a reader builds under the lock, or None
    partial,     \* the cache was built while the rows could not be read
    registry,    \* the client: [cached: a document or None, stale, refreshing]
    online,      \* the registry can be reached
    document,    \* what it publishes
    path,        \* the commands on PATH
    edit,        \* each write request
    runtimes,    \* custom agents with a live runtime
    edits,       \* requests made so far
    contended,   \* two of them were under way at once
    unrolled     \* a roll-back failed

catVars == <<rows, agents, fresh, building, partial, registry, online, document, path,
             edit, runtimes, edits, contended, unrolled>>

AgentIds == {Slugs[i] : i \in 1..Len(Slugs)}
cache == <<agents, fresh, building, partial>>
outside == <<online, document, path>>
history == <<contended, unrolled>>

Idle == [at |-> "idle", op |-> "none", id |-> None, command |-> None, existing |-> None]

CatalogTypeOK ==
    /\ rows \in [AgentIds -> Commands \cup {None}]
    /\ agents.custom \in [AgentIds -> Commands \cup {None}]
    /\ fresh \in BOOLEAN /\ partial \in BOOLEAN /\ runtimes \subseteq AgentIds
    /\ registry.cached \in Documents \cup {None}
    /\ path \in Hosts

\* buildRegistryLaunchPlan: what the entry runs as on this host.  A declared
\* binary that is not on PATH is still the plan when nothing else is: the
\* installer can fetch it.
LaunchPlan(entry, host) ==
    CASE "binary" \in entry /\ "bin" \in host -> "bin"
      [] "id" \in host -> "id"
      [] "npx" \in entry /\ "npm" \in host -> "npm"
      [] "uvx" \in entry /\ "uvx" \in host -> "uvx"
      [] "binary" \in entry -> "download"
      [] OTHER -> "none"

\* Registry entries are listed while there is a good document; with none the
\* catalog goes without them.
Offer == IF registry.cached = None THEN None ELSE LaunchPlan(registry.cached, path)

CatInit ==
    /\ rows = [i \in AgentIds |-> None]
    /\ document \in Documents /\ path \in Hosts
    /\ online \in BOOLEAN
    /\ registry = [cached |-> IF online THEN document ELSE None, stale |-> FALSE, refreshing |-> FALSE]
    /\ agents = [custom |-> rows, offer |-> Offer]
    /\ fresh = FALSE /\ building = None /\ partial = FALSE
    /\ edit = [w \in Writers |-> Idle] /\ runtimes = {}
    /\ edits = 0 /\ contended = FALSE /\ unrolled = FALSE

-----------------------------------------------------------------------------
(* The registry client.                                                    *)

\* Client.Snapshot answers at once and starts a fetch in the background when
\* what it has is stale or nothing.
Fetching == registry.refreshing \/ registry.stale \/ registry.cached = None

FetchFailed == [registry EXCEPT !.refreshing = FALSE]

\* Client.refresh ends, at the latest with the client's timeout: the document
\* replaces the last good one, an error leaves it.
FetchEnds ==
    /\ registry.refreshing
    /\ registry' = IF online THEN [cached |-> document, stale |-> FALSE, refreshing |-> FALSE]
                   ELSE FetchFailed
    /\ UNCHANGED <<rows, cache, outside, edit, runtimes, edits, history>>

RegistryExpires ==
    /\ registry.cached # None /\ ~registry.stale /\ registry' = [registry EXCEPT !.stale = TRUE]
    /\ UNCHANGED <<rows, cache, outside, edit, runtimes, edits, history>>

-----------------------------------------------------------------------------
(* The catalog's cache.                                                    *)

\* List and Get of an old cache: refreshLocked collects everything.  Rows that
\* cannot be read count as no custom agents.
RefreshBegin ==
    /\ ~fresh /\ building = None
    /\ registry' = [registry EXCEPT !.refreshing = Fetching]
    /\ \/ building' = [custom |-> rows, offer |-> Offer] /\ partial' = FALSE
       \/ building' = [custom |-> [i \in AgentIds |-> None], offer |-> Offer] /\ partial' = TRUE
    /\ UNCHANGED <<rows, agents, fresh, outside, edit, runtimes, edits, history>>

RefreshEnd ==
    /\ building # None
    /\ agents' = building /\ fresh' = TRUE /\ building' = None
    /\ UNCHANGED <<rows, partial, registry, outside, edit, runtimes, edits, history>>

CacheExpires ==
    /\ fresh /\ building = None /\ fresh' = FALSE
    /\ UNCHANGED <<rows, agents, building, partial, registry, outside, edit, runtimes, edits, history>>

\* Get answers from a fresh cache, between two rebuilds.
Readable == fresh /\ building = None

-----------------------------------------------------------------------------
(* Writes.                                                                 *)

Goes(w, place) == edit' = [edit EXCEPT ![w].at = place]
Ends(w) == edit' = [edit EXCEPT ![w] = Idle]

Arrive(w) ==
    /\ edit[w].at = "idle" /\ edits < MaxWrites /\ edits' = edits + 1
    /\ contended' = (contended \/ \E v \in Writers : edit[v].at # "idle")
    /\ UNCHANGED unrolled

\* Create up to the save: the cap, then the first id that neither the table
\* nor the catalog has.
Free(i) == rows[Slugs[i]] = None /\ agents.custom[Slugs[i]] = None
FreeIds == {i \in 1..Len(Slugs) : Free(i)}
FirstFree == CHOOSE i \in FreeIds : \A j \in FreeIds : i <= j
Create(w, command) ==
    /\ Readable /\ Arrive(w)
    /\ IF Cardinality({i \in AgentIds : rows[i] # None}) >= MaxAgents \/ FreeIds = {}
       THEN UNCHANGED edit
       ELSE edit' = [edit EXCEPT ![w] = [at |-> "save", op |-> "create", id |-> Slugs[FirstFree],
                                         command |-> command, existing |-> None]]
    /\ UNCHANGED <<rows, cache, registry, outside, runtimes, unrolled>>

Update(w, id, command) ==
    /\ rows[id] # None /\ Arrive(w)
    /\ edit' = [edit EXCEPT ![w] = [at |-> "save", op |-> "update", id |-> id,
                                      command |-> command, existing |-> rows[id]]]
    /\ UNCHANGED <<rows, cache, registry, outside, runtimes, unrolled>>

\* Delete: refused for an agent that runs.
Delete(w, id) ==
    /\ building = None /\ rows[id] # None /\ id \notin runtimes /\ Arrive(w)
    /\ edit' = [edit EXCEPT ![w] = [at |-> "delete", op |-> "delete", id |-> id,
                                      command |-> None, existing |-> rows[id]]]
    /\ UNCHANGED <<rows, cache, registry, outside, runtimes, unrolled>>

Save(w) ==
    /\ edit[w].at = "save"
    /\ \/ rows' = [rows EXCEPT ![edit[w].id] = edit[w].command] /\ Goes(w, "invalidate")
       \/ Ends(w) /\ UNCHANGED rows
    /\ UNCHANGED <<cache, registry, outside, runtimes, edits, history>>

DeleteRow(w) ==
    /\ edit[w].at = "delete"
    /\ \/ /\ rows[edit[w].id] # None
          /\ rows' = [rows EXCEPT ![edit[w].id] = None] /\ Goes(w, "invalidate")
       \/ Ends(w) /\ UNCHANGED rows
    /\ UNCHANGED <<cache, registry, outside, runtimes, edits, history>>

KeepsCache == UNCHANGED fresh

\* Invalidate waits for a rebuild that is under way.
DropsCache == fresh' = FALSE
Invalidate(w) ==
    /\ edit[w].at \in {"invalidate", "undone"} /\ building = None
    /\ DropsCache
    /\ IF edit[w].at = "undone" \/ edit[w].op = "delete" THEN Ends(w) ELSE Goes(w, "readback")
    /\ UNCHANGED <<rows, agents, building, partial, registry, outside, runtimes, edits, history>>

AnyFound(id) == agents.custom[id] # None

\* customAgentFromCatalog: missing or invalid is rejected.
Accepted(id) == agents.custom[id] \notin Invalid \cup {None}
ReadBack(w) ==
    /\ edit[w].at = "readback" /\ Readable
    /\ IF Accepted(edit[w].id) THEN Ends(w) ELSE Goes(w, "rollback")
    /\ UNCHANGED <<rows, cache, registry, outside, runtimes, edits, history>>

\* Create drops the row again, Update puts the earlier one back; when the table
\* refuses, the catalog is left as it is.
RollBack(w) ==
    /\ edit[w].at = "rollback"
    /\ \/ /\ rows' = [rows EXCEPT ![edit[w].id] = edit[w].existing]
          /\ Goes(w, "undone") /\ UNCHANGED unrolled
       \/ Ends(w) /\ unrolled' = TRUE /\ UNCHANGED rows
    /\ UNCHANGED <<cache, registry, outside, runtimes, edits, contended>>

-----------------------------------------------------------------------------
(* Launches, and the world outside.                                        *)

\* A custom agent is launched as the catalog has it, unless it is invalid.
Launch(id) ==
    /\ Readable /\ Accepted(id) /\ id \notin runtimes /\ runtimes' = runtimes \cup {id}
    /\ UNCHANGED <<rows, cache, registry, outside, edit, edits, history>>

RuntimeEnds(id) ==
    /\ id \in runtimes /\ runtimes' = runtimes \ {id}
    /\ UNCHANGED <<rows, cache, registry, outside, edit, edits, history>>

WorldChanges ==
    /\ \/ online' = ~online /\ UNCHANGED <<document, path>>
       \/ document' \in Documents \ {document} /\ UNCHANGED <<online, path>>
       \/ path' \in Hosts \ {path} /\ UNCHANGED <<online, document>>
    /\ UNCHANGED <<rows, cache, registry, edit, runtimes, edits, history>>

WriterStep(w) == Save(w) \/ DeleteRow(w) \/ Invalidate(w) \/ ReadBack(w) \/ RollBack(w)

CatNext ==
    \/ FetchEnds \/ RegistryExpires \/ RefreshBegin \/ RefreshEnd \/ CacheExpires \/ WorldChanges
    \/ \E w \in Writers : \/ WriterStep(w)
                          \/ \E c \in Commands : Create(w, c) \/ \E id \in AgentIds : Update(w, id, c)
                          \/ \E id \in AgentIds : Delete(w, id)
    \/ \E id \in AgentIds : Launch(id) \/ RuntimeEnds(id)

CatSpec == CatInit /\ [][CatNext]_catVars

-----------------------------------------------------------------------------
(* The catalog shows the custom agents as they are stored whenever no write *)
(* is between its save and its Invalidate: no reader can put an older table *)
(* back into the cache for the next 30 seconds.                            *)
CatalogIsTrue ==
    (fresh /\ ~partial /\ \A w \in Writers : edit[w].at \notin {"invalidate", "undone"})
        => agents.custom = rows

(* Once the writes are over, a command the catalog rejects is not in the   *)
(* table: "an invalid edit never sticks".  Two writes that overlap can     *)
(* defeat this, and so can a table that refuses the roll-back.             *)
InvalidNeverSticks ==
    ((\A w \in Writers : edit[w].at = "idle") /\ ~contended /\ ~unrolled)
        => \A id \in AgentIds : rows[id] \notin Invalid

(* Custom agents end up in the table and the catalog as their owner's last *)
(* accepted edit left them.                                                *)
CustomAgentsHold == CatalogIsTrue /\ InvalidNeverSticks
=============================================================================
