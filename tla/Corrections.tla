---------------------------- MODULE Corrections ----------------------------
(* The quality of a text while it waits for review: revisions by operators  *)
(* and by paid corrections, the checks whose warnings stand next to the     *)
(* value, and the batch that corrects every text of a task under one lock.  *)
(* A list of warnings is what it was computed on.                           *)
EXTENDS Naturals, FiniteSets

CONSTANTS Texts,         \* the text proposals of one task
          Wordings,      \* values a text may have
          Correctors,    \* requests and check tasks under way
          BatchMax,      \* ENRICHMENT_REVISE_BATCH_MAX
          MaxCorrectionRuns,   \* bound on the batches queued in all
          MaxNumber      \* bound on the revisions of a text

ASSUME CorrectionsAssumption == BatchMax \in Nat /\ MaxCorrectionRuns \in Nat /\ MaxNumber \in Nat \ {0}

VARIABLES text,        \* Texts -> the proposal and the warnings of its latest revision
          facts,       \* the profile's rules and facts: 1 or, edited, 2
          corrector,   \* Correctors -> the request's stale copy
          batches,     \* correction batches queued or running
          batchLock,   \* the cache entry of the task's batch
          queued,      \* batches queued so far
          ranOut       \* a lock ran out before its batch ended (ghost)

corrVars == <<text, facts, corrector, batches, batchLock, queued, ranOut>>

Warned == [value : Wordings, facts : {1, 2}, checklist : BOOLEAN]
TextRow == [status : {"absent", "pending", "drifted", "closed"}, value : Wordings, number : 1..MaxNumber,
            warnings : Warned, latest : Warned, checked : BOOLEAN]
Free == [does |-> "nothing"]
\* what a correction read before it called the model
Item == [of : Texts, base : Wordings]
Request == [does : {"revise", "check_standard", "recheck"}, of : Texts, base : Wordings]
Batch == [id : 1..queued, at : {"queued", "running"}, todo : SUBSET Item]
CorrTypeOK ==
    /\ text \in [Texts -> TextRow] /\ corrector \in [Correctors -> {Free} \cup Request]
    /\ facts \in {1, 2} /\ batchLock \in BOOLEAN /\ ranOut \in BOOLEAN /\ queued \in 0..MaxCorrectionRuns
    /\ batches \subseteq Batch

\* the warnings of the deterministic checks, or with the checklist's on top
Checks(v) == [value |-> v, facts |-> facts, checklist |-> FALSE]
NewText(v) == [status |-> "absent", value |-> v, number |-> 1, warnings |-> Checks(v), latest |-> Checks(v), checked |-> FALSE]
CorrInit ==
    /\ facts = 1 /\ \E v \in Wordings : text = [p \in Texts |-> NewText(v)]
    /\ corrector = [c \in Correctors |-> Free] /\ batches = {} /\ batchLock = FALSE
    /\ queued = 0 /\ ranOut = FALSE

-----------------------------------------------------------------------------
Revisable(p) == text[p].status \in {"pending", "drifted"}
\* revision 1 with its warnings
Ingest(p) ==
    /\ text[p].status = "absent"
    /\ text' = [text EXCEPT ![p].status = "pending", ![p].warnings = Checks(text[p].value), ![p].latest = Checks(text[p].value)]
    /\ UNCHANGED <<facts, corrector, batches, batchLock, queued, ranOut>>
AddRevision(p, v) ==
    [text[p] EXCEPT !.value = v, !.number = @ + 1, !.warnings = Checks(v), !.latest = Checks(v), !.checked = FALSE]
OperatorEdit(p, v) ==
    /\ Revisable(p) /\ text[p].number < MaxNumber /\ text' = [text EXCEPT ![p] = AddRevision(p, v)]
    /\ UNCHANGED <<facts, corrector, batches, batchLock, queued, ranOut>>
CloseText(p) ==
    /\ Revisable(p) /\ text' = [text EXCEPT ![p].status = "closed"]
    /\ UNCHANGED <<facts, corrector, batches, batchLock, queued, ranOut>>
DriftText(p) ==
    /\ text[p].status = "pending" /\ text' = [text EXCEPT ![p].status = "drifted"]
    /\ UNCHANGED <<facts, corrector, batches, batchLock, queued, ranOut>>
EditFacts ==
    /\ facts = 1 /\ facts' = 2 /\ UNCHANGED <<text, corrector, batches, batchLock, queued, ranOut>>

\* Deviation: the status alone is looked at again
SameStatus(p, base) == Revisable(p)
\* read again under the row lock, after the completion
StillSame(p, base) == Revisable(p) /\ text[p].value = base
StoreWarnings(p, warnings, checked) ==
    [text[p] EXCEPT !.warnings = warnings, !.latest = warnings, !.checked = checked]

\* an operator's request, or the check that follows a new text by itself
Load(c, p, does) ==
    /\ corrector[c] = Free /\ Revisable(p)
    /\ corrector' = [corrector EXCEPT ![c] = [does |-> does, of |-> p, base |-> text[p].value]]
    /\ UNCHANGED <<text, facts, batches, batchLock, queued, ranOut>>
Ends(c) == corrector' = [corrector EXCEPT ![c] = Free] /\ UNCHANGED <<facts, batches, batchLock, queued, ranOut>>
\* a correction is saved unless the text moved on while the model wrote
Corrected(p, base, v) ==
    IF StillSame(p, base) /\ text[p].number < MaxNumber THEN [text EXCEPT ![p] = AddRevision(p, v)] ELSE text
Revise(c, v) ==
    /\ corrector[c].does = "revise" /\ Ends(c) /\ text' = Corrected(corrector[c].of, corrector[c].base, v)
\* the toolbox fails, or its answer does not fit the text
CallFails(c) == corrector[c].does \in {"revise", "check_standard"} /\ Ends(c) /\ UNCHANGED text
\* the checklist check, on demand or automatic, and the deterministic recheck
StoreCheck(c) ==
    /\ corrector[c].does \in {"check_standard", "recheck"} /\ Ends(c)
    /\ LET p == corrector[c].of
           listed == corrector[c].does = "check_standard"
       IN text' = IF StillSame(p, corrector[c].base)
                  THEN [text EXCEPT ![p] = StoreWarnings(p, [Checks(corrector[c].base) EXCEPT !.checklist = listed], listed)]
                  ELSE text

-----------------------------------------------------------------------------
(* one correction for all pending texts of the task                         *)
PendingTexts == {p \in Texts : text[p].status = "pending"}
LockFree == ~batchLock
QueueBatch(dispatched) ==
    /\ PendingTexts # {} /\ Cardinality(PendingTexts) <= BatchMax /\ LockFree /\ queued < MaxCorrectionRuns
    /\ batchLock' = dispatched /\ queued' = queued + 1
    /\ batches' = IF dispatched THEN batches \cup {[id |-> queued + 1, at |-> "queued", todo |-> {}]} ELSE batches
    /\ UNCHANGED <<text, facts, corrector, ranOut>>
\* the texts pending now, as they are now
StartBatch(b) ==
    /\ b.at = "queued"
    /\ batches' = (batches \ {b}) \cup {[b EXCEPT !.at = "running",
                       !.todo = {[of |-> p, base |-> text[p].value] : p \in PendingTexts}]}
    /\ UNCHANGED <<text, facts, corrector, batchLock, queued, ranOut>>
ReviseNext(b, item, v) ==
    /\ b.at = "running" /\ item \in b.todo
    /\ batches' = (batches \ {b}) \cup {[b EXCEPT !.todo = @ \ {item}]}
    /\ text' = Corrected(item.of, item.base, v)
    /\ UNCHANGED <<facts, corrector, batchLock, queued, ranOut>>
\* one failure is recorded and the batch goes on
ReviseFails(b, item) ==
    /\ b.at = "running" /\ item \in b.todo
    /\ batches' = (batches \ {b}) \cup {[b EXCEPT !.todo = @ \ {item}]}
    /\ UNCHANGED <<text, facts, corrector, batchLock, queued, ranOut>>
EndBatch(b) ==
    /\ b.at = "running" /\ b.todo = {} /\ batches' = batches \ {b} /\ batchLock' = FALSE
    /\ UNCHANGED <<text, facts, corrector, queued, ranOut>>
\* the worker dies: nobody takes the lock back before it runs out
BatchDies(b) ==
    /\ b.at = "running" /\ batches' = batches \ {b}
    /\ UNCHANGED <<text, facts, corrector, batchLock, queued, ranOut>>
LockRunsOut ==
    /\ batchLock /\ batchLock' = FALSE /\ ranOut' = (ranOut \/ batches # {})
    /\ UNCHANGED <<text, facts, corrector, batches, queued>>

CorrNext ==
    \/ \E p \in Texts : Ingest(p) \/ CloseText(p) \/ DriftText(p) \/ \E v \in Wordings : OperatorEdit(p, v)
    \/ EditFacts \/ LockRunsOut
    \/ \E c \in Correctors, p \in Texts, does \in {"revise", "check_standard", "recheck"} : Load(c, p, does)
    \/ \E c \in Correctors : StoreCheck(c) \/ CallFails(c) \/ \E v \in Wordings : Revise(c, v)
    \/ \E dispatched \in BOOLEAN : QueueBatch(dispatched)
    \/ \E b \in batches : StartBatch(b) \/ EndBatch(b) \/ BatchDies(b)
    \/ \E b \in batches : \E item \in b.todo : ReviseFails(b, item) \/ \E v \in Wordings : ReviseNext(b, item, v)

CorrSpec == CorrInit /\ [][CorrNext]_corrVars

-----------------------------------------------------------------------------
\* The warnings next to a text are about that text, and the check time stands
\* exactly while they hold the checklist's: a slow check never marks a value
\* it did not read.
WarningsOfValue ==
    \A p \in Texts :
        /\ text[p].warnings.value = text[p].value /\ (text[p].checked <=> text[p].warnings.checklist)
        /\ text[p].status = "absent" => ~text[p].checked
\* The proposal and its latest revision show the same warnings.
WarningsAgree == \A p \in Texts : text[p].warnings = text[p].latest
\* One batch of a task at a time, under its lock, unless a lock ran out under a
\* running one.
OneBatch == ranOut = TRUE \/ (Cardinality(batches) <= 1 /\ (batches # {} => batchLock))

\* What the operator reads next to a text is true of it, whatever edits, checks,
\* corrections and batches overlap (add_revision, store, revise_pending).
WarningsTrue == CorrTypeOK /\ WarningsOfValue /\ WarningsAgree /\ OneBatch
=============================================================================
