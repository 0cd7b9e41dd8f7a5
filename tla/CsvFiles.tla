------------------------------ MODULE CsvFiles ------------------------------
(* One uploaded CSV: staged once, one task per work type spawned from it,   *)
(* each streaming its own rows while it is planned, and the retention that  *)
(* deletes the file when the tasks of it that it may delete are gone.       *)
EXTENDS Naturals, FiniteSets

CONSTANTS WorkTypes,    \* values of the type column
          Retention,    \* ENRICHMENT_RETENTION_DAYS, in ticks
          MaxRetries    \* bound on the retries of one work type

ASSUME CsvAssumption ==
    /\ WorkTypes # {} /\ Retention \in Nat \ {0} /\ MaxRetries \in Nat

VARIABLES upload,     \* "new" | "spawning" | "spawned" | "refused"
          csvFile,    \* the staged file: "none" | "staged" | "dropped"
          csvTasks,   \* the tasks: [type, try, status, age]
          pruning     \* a prune under way: the file's live tasks were read

csvVars == <<upload, csvFile, csvTasks, pruning>>

CsvLive == {"open", "planned", "in_progress"}
CsvTypeOK ==
    /\ upload \in {"new", "spawning", "spawned", "refused"} /\ csvFile \in {"none", "staged", "dropped"}
    /\ csvTasks \subseteq [type : WorkTypes, try : 0..MaxRetries,
                           status : CsvLive \cup {"done", "failed", "unresolved", "cancelled"}, age : 0..Retention]
    /\ pruning \in {"no", "listed", "drop"}

CsvInit == upload = "new" /\ csvFile = "none" /\ csvTasks = {} /\ pruning = "no"

-----------------------------------------------------------------------------
\* every row is checked before the file is staged
ValidateAndStage(valid) ==
    /\ upload = "new" /\ upload' = IF valid THEN "spawning" ELSE "refused"
    /\ csvFile' = IF valid THEN "staged" ELSE csvFile
    /\ UNCHANGED <<csvTasks, pruning>>
CsvTask(w, try) ==
    [type |-> w, try |-> try, status |-> "open", age |-> 0]
\* the work types in sorted order, one spawn each
SpawnType(w) ==
    /\ upload = "spawning" /\ w \notin {k.type : k \in csvTasks}
    /\ csvTasks' = csvTasks \cup {CsvTask(w, 0)}
    /\ upload' = IF {k.type : k \in csvTasks'} = WorkTypes THEN "spawned" ELSE upload
    /\ UNCHANGED <<csvFile, pruning>>
\* the params do not fit the worker of one type: what was spawned before stays
SpawnRefused ==
    /\ upload = "spawning" /\ upload' = "refused" /\ UNCHANGED <<csvFile, csvTasks, pruning>>

-----------------------------------------------------------------------------
Put(k, l) == csvTasks' = (csvTasks \ {k}) \cup {l}
\* the rows of its type are streamed while it is planned; a run that cannot be
\* resolved, for want of the file or else, fails and names no subject
PlanCsv(k, resolves) ==
    /\ k.status = "open" /\ (resolves => csvFile = "staged")
    /\ Put(k, [k EXCEPT !.status = IF resolves THEN "planned" ELSE "unresolved"])
    /\ UNCHANGED <<upload, csvFile, pruning>>
WorkCsv(k) ==
    /\ k.status = "planned" /\ Put(k, [k EXCEPT !.status = "in_progress"])
    /\ UNCHANGED <<upload, csvFile, pruning>>
EndCsv(k, status) ==
    /\ \/ k.status = "in_progress" /\ status \in {"done", "failed", "cancelled"}
       \/ k.status \in {"open", "planned"} /\ status = "cancelled"
    /\ Put(k, [k EXCEPT !.status = status, !.age = 0])
    /\ UNCHANGED <<upload, csvFile, pruning>>
\* a failed run that names no subject is retried with its original scope
RetryCsv(k) ==
    /\ k.status = "unresolved" /\ k.try < MaxRetries
    /\ ~\E l \in csvTasks : l.type = k.type /\ l.try > k.try
    /\ csvTasks' = csvTasks \cup {CsvTask(k.type, k.try + 1)}
    /\ UNCHANGED <<upload, csvFile, pruning>>
\* an import is answered long before a task of it is old
CsvAges ==
    /\ upload # "spawning" /\ \E k \in csvTasks : k.status = "done" /\ k.age < Retention
    /\ csvTasks' = {IF k.status = "done" /\ k.age < Retention THEN [k EXCEPT !.age = @ + 1] ELSE k : k \in csvTasks}
    /\ UNCHANGED <<upload, csvFile, pruning>>

(* prune: the aged tasks are deleted, the live ones read, the file dropped  *)
AgedDone == {k \in csvTasks : k.status = "done" /\ k.age = Retention}
PruneTasks ==
    /\ pruning = "no" /\ AgedDone # {} /\ csvTasks' = csvTasks \ AgedDone
    /\ pruning' = "listed" /\ UNCHANGED <<upload, csvFile>>
\* Deviation: only an open task keeps the file
StillReadByOpen == \E k \in csvTasks : k.status \in {"open", "planned"}
StillRead == \E k \in csvTasks : k.status \in CsvLive
ReadLive ==
    /\ pruning = "listed" /\ pruning' = IF StillRead THEN "no" ELSE "drop"
    /\ UNCHANGED <<upload, csvFile, csvTasks>>
DropFile ==
    /\ pruning = "drop" /\ csvFile' = "dropped" /\ pruning' = "no" /\ UNCHANGED <<upload, csvTasks>>

CsvNext ==
    \/ SpawnRefused \/ CsvAges \/ PruneTasks \/ ReadLive \/ DropFile
    \/ \E valid \in BOOLEAN : ValidateAndStage(valid)
    \/ \E w \in WorkTypes : SpawnType(w)
    \/ \E k \in csvTasks : WorkCsv(k) \/ RetryCsv(k)
    \/ \E k \in csvTasks, resolves \in BOOLEAN : PlanCsv(k, resolves)
    \/ \E k \in csvTasks, s \in {"done", "failed", "cancelled"} : EndCsv(k, s)

CsvSpec == CsvInit /\ [][CsvNext]_csvVars

-----------------------------------------------------------------------------
\* The file stays while a task of the import may still read it, whichever of
\* the tasks that share it is pruned first; only a retry can come too late.
FileOutlivesTasks == \A k \in csvTasks : k.status \in CsvLive /\ k.try = 0 => csvFile = "staged"

\* Nothing of an import is pruned while its tasks are still being created, and
\* what a prune decided on stays true until it drops the file.
PruneComesLate ==
    /\ upload = "new" => csvTasks = {} /\ pruning = "no"
    /\ upload = "spawning" => csvFile = "staged" /\ pruning = "no" /\ \A k \in csvTasks : k.age = 0
    /\ pruning = "drop" => \A k \in csvTasks : k.status \in CsvLive => k.try > 0

\* An import's file serves its tasks: they have what they were spawned from
\* until they have read it (_drop_unreferenced_csv_files).
FileServes == CsvTypeOK /\ FileOutlivesTasks /\ PruneComesLate
=============================================================================
