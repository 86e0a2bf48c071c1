------------------------------ MODULE Semantic ------------------------------
(***************************************************************************)
(* Semantic search (daemon/src/semantic, store/src/embeddings.rs): the     *)
(* indexer that keeps a vector per task in step with the cache, the model  *)
(* both it and a search may be the first to load, and the searches.        *)
(*                                                                         *)
(* A change to the cache and the event that tells of it are two steps, and *)
(* a pass is one step for its prune, one for reading its jobs and one for  *)
(* each batch it saves: changes, deletes and searches come between them.   *)
(* A text is its version; a vector is the text and the model it was made   *)
(* from.                                                                   *)
(***************************************************************************)
EXTENDS Naturals, FiniteSets

CONSTANTS
    Texts,        \* tasks of the cache
    Searches,     \* searches that wait for the model (the CLI's)
    BatchSize,    \* BATCH: tasks embedded and saved together
    MaxTexts,     \* bound: texts a task may have
    MaxModels,    \* bound: models the builds of the daemon pin
    MaxHitches    \* bound: loads, downloads, reads and saves that fail, and restarts

Indexer == "indexer"
Free == "free"

ASSUME SemanticAssumption ==
    /\ Indexer \notin Searches /\ Free \notin Searches
    /\ BatchSize \in Nat \ {0}
    /\ {MaxTexts, MaxModels} \subseteq Nat \ {0} /\ MaxHitches \in Nat

NoVector == [model |-> 0, text |-> 0]
NoJobs == [t \in {} |-> 0]

VARIABLES
    cached,     \* tasks: "none", "live" or "dead" (deleted_at set), and the text
    vector,     \* task_embeddings
    modelId,    \* MODEL_ID of the build that runs
    onDisk,     \* the pinned files: "missing", "damaged" or "whole"
    loaded,     \* Semantic.model holds the embedder
    holder,     \* who has Semantic.model locked
    works,      \* the indexer and each search: where it is, and its pass's jobs
    untold,     \* changes written whose event is not sent yet
    unread,     \* the indexer's receiver holds a change it has not taken
    failedPass, \* the indexer's last pass ended in an error
    hitches     \* what the bound still allows

semVars == <<cached, vector, modelId, onDisk, loaded, holder, works, untold, unread, failedPass, hitches>>

Users == {Indexer} \cup Searches
VectorOf(t) == [model |-> modelId, text |-> cached[t].text]
Live(t) == cached[t].is = "live"

\* What the index should hold of t: its text's vector, and nothing of a
\* task that is gone.
Indexed(t) == vector[t] = IF Live(t) THEN VectorOf(t) ELSE NoVector

SemanticInit ==
    /\ cached \in [Texts -> [is : {"none", "live"}, text : {1}]]
    /\ vector = [t \in Texts |-> NoVector]
    /\ modelId = 1
    /\ onDisk = "missing"
    /\ loaded = FALSE
    /\ holder = Free
    /\ works = [u \in Users |-> [at |-> IF u = Indexer THEN "start" ELSE "idle", jobs |-> NoJobs]]
    /\ untold = {}
    /\ unread = FALSE
    /\ failedPass = FALSE
    /\ hitches = 0

-----------------------------------------------------------------------------
(* The cache changes. *)

Write(t, is, text) ==
    /\ cached' = [cached EXCEPT ![t] = [is |-> is, text |-> text]]
    /\ untold' = untold \cup {t}
    /\ UNCHANGED <<modelId, onDisk, loaded, holder, works, unread, failedPass, hitches>>

\* write_task: a row is made, its title or body changes (back to what they
\* were once, perhaps), or a tombstone is cleared.
WriteTask(t) ==
    /\ \E text \in 1 .. MaxTexts : /\ ~Live(t) \/ text # cached[t].text
                                  /\ Write(t, "live", text)
    /\ UNCHANGED vector

\* A tombstone keeps the row, so the vector stays until it is pruned.
Tombstone(t) ==
    /\ Live(t)
    /\ Write(t, "dead", cached[t].text)
    /\ UNCHANGED vector

\* A row deleted for good takes its vector along (ON DELETE CASCADE).
HardDelete(t) ==
    /\ cached[t].is # "none"
    /\ Write(t, "none", cached[t].text)
    /\ vector' = [vector EXCEPT ![t] = NoVector]

\* Whoever wrote sends EntityChanged or ResyncNeeded once it has committed.
TellChange(t) ==
    /\ t \in untold
    /\ untold' = untold \ {t}
    /\ unread' = TRUE
    /\ UNCHANGED <<cached, vector, modelId, onDisk, loaded, holder, works, failedPass, hitches>>

-----------------------------------------------------------------------------
(* The model, and who loads it. *)

GoTo(u, at) == works' = [works EXCEPT ![u] = [at |-> at, jobs |-> NoJobs]]

\* embedder: takes the lock, and has the model already or begins to load it.
AskModel(u) ==
    /\ works[u].at = "start" /\ holder = Free
    /\ IF loaded THEN GoTo(u, IF u = Indexer THEN "prune" ELSE "rank") /\ UNCHANGED holder
                 ELSE GoTo(u, "load") /\ holder' = u
    /\ UNCHANGED <<cached, vector, modelId, onDisk, loaded, untold, unread, failedPass, hitches>>

\* A file that is missing or not what was pinned is fetched, and checked
\* before it is kept: a download that is not the pinned file leaves
\* the directory as it was.
EnsureFile(u) ==
    /\ works[u].at = "load" /\ onDisk # "whole"
    /\ onDisk' = "whole"
    /\ UNCHANGED <<cached, vector, modelId, loaded, holder, works, untold, unread, failedPass, hitches>>

LoadWorks(u) ==
    /\ works[u].at = "load" /\ onDisk = "whole"
    /\ GoTo(u, "prune")
    /\ UNCHANGED <<cached, vector, modelId, onDisk, loaded, holder, untold, unread, failedPass, hitches>>

\* The download, its checksum or the model's parse fails: the indexer tries
\* again after RETRY_AFTER, a search answers with the error.
LoadFails(u) ==
    /\ works[u].at = "load" /\ hitches < MaxHitches
    /\ hitches' = hitches + 1
    /\ GoTo(u, IF u = Indexer THEN "doze" ELSE "idle")
    /\ holder' = Free
    /\ UNCHANGED <<cached, vector, modelId, onDisk, loaded, untold, unread, failedPass>>

-----------------------------------------------------------------------------
(* A pass (catch_up): prune, read the jobs, embed and save them batch by   *)
(* batch.                                                                  *)

\* A pass ends.  The one a load runs hands over the model, whether or not
\* it went well; the indexer's own one is followed by its wait.
NextPlace(u) == IF u # Indexer THEN "rank" ELSE IF holder = u THEN "prune" ELSE "wait"

\* The receiver drained once the pass is over, and not before it.
EndDrained(u, failed) ==
    /\ GoTo(u, NextPlace(u))
    /\ loaded' = TRUE /\ unread' = FALSE
    /\ holder' = IF holder = u THEN Free ELSE holder
    /\ failedPass' = IF u = Indexer THEN failed ELSE failedPass
    /\ UNCHANGED <<cached, modelId, onDisk, untold>>

EndPass(u, failed) ==
    /\ GoTo(u, NextPlace(u))
    /\ loaded' = TRUE
    /\ holder' = IF holder = u THEN Free ELSE holder
    /\ failedPass' = IF u = Indexer THEN failed ELSE failedPass
    /\ UNCHANGED <<cached, modelId, onDisk, untold, unread>>

\* prune_embeddings: another model's vectors, and those of tombstones.
PruneIndex(u) ==
    /\ works[u].at = "prune"
    /\ vector' = [t \in Texts |-> IF cached[t].is = "dead" \/ vector[t].model # modelId
                                    THEN NoVector ELSE vector[t]]
    /\ GoTo(u, "read")
    /\ UNCHANGED <<cached, modelId, onDisk, loaded, holder, untold, unread, failedPass, hitches>>

\* embedding_jobs: the live tasks whose vector is not of their text now.
StaleTasks == {t \in Texts : Live(t) /\ vector[t] # VectorOf(t)}

ReadJobs(u) ==
    /\ works[u].at = "read"
    /\ works' = [works EXCEPT ![u] = [at |-> "save", jobs |-> [t \in StaleTasks |-> cached[t].text]]]
    /\ UNCHANGED <<cached, vector, modelId, onDisk, loaded, holder, untold, unread, failedPass, hitches>>

\* save_embeddings: each vector goes in with the text it was made from,
\* unless its task has gone meanwhile.
SaveBatch(u) ==
    \E batch \in SUBSET DOMAIN works[u].jobs :
      LET jobs == works[u].jobs
          rest == DOMAIN jobs \ batch
      IN  /\ works[u].at = "save"
          /\ batch # {} /\ Cardinality(batch) <= BatchSize
          /\ vector' = [t \in Texts |-> IF t \in batch /\ Live(t)
                                          THEN [model |-> modelId, text |-> jobs[t]] ELSE vector[t]]
          /\ works' = [works EXCEPT ![u] = [at |-> "save", jobs |-> [t \in rest |-> jobs[t]]]]
          /\ UNCHANGED <<cached, modelId, onDisk, loaded, holder, untold, unread, failedPass, hitches>>

PassDone(u) ==
    /\ works[u].at = "save" /\ DOMAIN works[u].jobs = {}
    /\ EndPass(u, FALSE)
    /\ UNCHANGED <<vector, hitches>>

PassFails(u) ==
    /\ works[u].at \in {"prune", "read", "save"} /\ hitches < MaxHitches
    /\ hitches' = hitches + 1
    /\ EndPass(u, TRUE)
    /\ UNCHANGED vector

-----------------------------------------------------------------------------
(* The indexer between passes, and the searches. *)

\* next_change returns, or after a failed load the time to retry has come.
Wakes ==
    /\ \/ works[Indexer].at = "wait" /\ unread
       \/ works[Indexer].at = "doze"
    /\ GoTo(Indexer, "settle")
    /\ UNCHANGED <<cached, vector, modelId, onDisk, loaded, holder, untold, unread, failedPass, hitches>>

\* After SETTLE, what came meanwhile is taken too: it is in the pass that
\* follows.
Drain ==
    /\ works[Indexer].at = "settle"
    /\ unread' = FALSE
    /\ GoTo(Indexer, "start")
    /\ UNCHANGED <<cached, vector, modelId, onDisk, loaded, holder, untold, failedPass, hitches>>

AskSearch(s) ==
    /\ works[s].at = "idle"
    /\ GoTo(s, "start")
    /\ UNCHANGED <<cached, vector, modelId, onDisk, loaded, holder, untold, unread, failedPass, hitches>>

\* search: ranks what there is, and counts what is pending.
Rank(s) ==
    /\ works[s].at = "rank"
    /\ GoTo(s, "idle")
    /\ UNCHANGED <<cached, vector, modelId, onDisk, loaded, holder, untold, unread, failedPass, hitches>>

\* The daemon stops, and starts again, perhaps as a build that pins another
\* model; a file of the model may have been damaged meanwhile.  What is in
\* memory goes, events still to be sent included.
RestartDaemon ==
    \E id \in modelId .. MaxModels, disk \in {onDisk, "damaged"} :
        /\ hitches < MaxHitches
        /\ hitches' = hitches + 1
        /\ modelId' = id
        /\ onDisk' = IF id = modelId THEN disk ELSE "missing"
        /\ loaded' = FALSE
        /\ holder' = Free
        /\ works' = [u \in Users |-> [at |-> IF u = Indexer THEN "start" ELSE "idle", jobs |-> NoJobs]]
        /\ untold' = {}
        /\ unread' = FALSE
        /\ failedPass' = FALSE
        /\ UNCHANGED <<cached, vector>>

-----------------------------------------------------------------------------
Change(t) == WriteTask(t) \/ Tombstone(t) \/ HardDelete(t) \/ TellChange(t)
UseModel(u) == AskModel(u) \/ EnsureFile(u) \/ LoadWorks(u) \/ LoadFails(u)
MakePass(u) == PruneIndex(u) \/ ReadJobs(u) \/ SaveBatch(u) \/ PassDone(u) \/ PassFails(u)

SemanticNext ==
    \/ \E t \in Texts : Change(t)
    \/ \E u \in Users : UseModel(u) \/ MakePass(u)
    \/ \E s \in Searches : AskSearch(s) \/ Rank(s)
    \/ Wakes \/ Drain \/ RestartDaemon

SemanticSpec == SemanticInit /\ [][SemanticNext]_semVars

-----------------------------------------------------------------------------
UserTypes == [at : {"idle", "start", "load", "prune", "read", "save", "rank", "wait", "settle", "doze"},
              jobs : UNION {[T -> 1 .. MaxTexts] : T \in SUBSET Texts}]

SemanticTypeOK ==
    /\ cached \in [Texts -> [is : {"none", "live", "dead"}, text : 1 .. MaxTexts]]
    /\ vector \in [Texts -> [model : 0 .. MaxModels, text : 0 .. MaxTexts]]
    /\ modelId \in 1 .. MaxModels
    /\ onDisk \in {"missing", "damaged", "whole"}
    /\ loaded \in BOOLEAN
    /\ holder \in Users \cup {Free}
    /\ works \in [Users -> UserTypes]
    /\ untold \subseteq Texts
    /\ unread \in BOOLEAN /\ failedPass \in BOOLEAN
    /\ hitches \in 0 .. MaxHitches

\* While the indexer waits for a change, none is on its way to it and its
\* last pass went well, the index is the cache's: every live task has the
\* vector of the text it has now, by the model that runs, and no task that
\* is gone has one.  (semantic/mod.rs: the events are drained before a pass
\* reads its jobs; a save takes the text its vector was made from.)
IndexAtRest == works[Indexer].at = "wait" /\ ~unread /\ untold = {} /\ ~failedPass
IndexedAtRest == IndexAtRest => \A t \in Texts : Indexed(t)

\* A pass runs for one user at a time: a search only runs one while it
\* loads the model, and the indexer only once the model is there, so two of
\* them never save over each other.
OnePass ==
    \A u, v \in Users :
      (/\ works[u].at \in {"load", "prune", "read", "save"}
       /\ works[v].at \in {"load", "prune", "read", "save"}) => u = v

=============================================================================
