-------------------------- MODULE CorrectionsProofs --------------------------
(***************************************************************************)
(* The warnings next to a text, for any texts, wordings, requests and       *)
(* batches: what a step may write to a text is one of three rows, and each  *)
(* of them carries the warnings of its own value. And Answers, input by     *)
(* input: what is accepted, and how it is read.                             *)
(***************************************************************************)
EXTENDS Corrections, Answers, FiniteInduction, FiniteSetTheorems, SequenceTheorems, TLAPS

\* a row whose warnings are its own
OwnWarnings(row) ==
    /\ row.warnings.value = row.value /\ row.warnings = row.latest /\ (row.checked <=> row.warnings.checklist)
    /\ row.status = "absent" => ~row.checked
TextsTrue(t) == t \in [Texts -> TextRow] /\ \A p \in Texts : OwnWarnings(t[p])

OneByLock ==
    ranOut = TRUE \/ ((\A b, d \in batches : b = d) /\ (batches # {} => batchLock))

\* WarningsTrue, with the texts row by row and the batches counted by hand
CorrInv == CorrTypeOK /\ TextsTrue(text) /\ IsFiniteSet(batches) /\ OneByLock

-----------------------------------------------------------------------------
LEMMA FreshChecks ==
    ASSUME facts \in {1, 2}, NEW v \in Wordings
    PROVE  Checks(v) \in Warned /\ Checks(v).value = v /\ Checks(v).checklist = FALSE
  BY DEF Checks, Warned

\* One row is replaced by a true one.
LEMMA RowReplaced ==
    ASSUME NEW t, TextsTrue(t), NEW p \in Texts, NEW row \in TextRow, OwnWarnings(row)
    PROVE  TextsTrue([t EXCEPT ![p] = row])
  BY DEF TextsTrue

LEMMA RevisedRow ==
    ASSUME TextsTrue(text), facts \in {1, 2}, NEW p \in Texts, NEW v \in Wordings, text[p].number < MaxNumber
    PROVE  AddRevision(p, v) \in TextRow /\ OwnWarnings(AddRevision(p, v))
  <1> DEFINE r == text[p]
             w == Checks(v)
  <1>1. r \in TextRow BY DEF TextsTrue
  <1>2. w \in Warned /\ w.value = v /\ w.checklist = FALSE BY FreshChecks
  <1>3. AddRevision(p, v) = [r EXCEPT !.value = v, !.number = @ + 1, !.warnings = w, !.latest = w, !.checked = FALSE]
    BY DEF AddRevision
  <1>4. r.number + 1 \in 1..MaxNumber BY <1>1, CorrectionsAssumption DEF TextRow
  <1> HIDE DEF r, w
  <1> QED BY <1>1, <1>2, <1>3, <1>4 DEF TextRow, OwnWarnings

LEMMA StoredRow ==
    ASSUME TextsTrue(text), NEW p \in Texts, NEW w \in Warned, w.value = text[p].value, Revisable(p)
    PROVE  /\ StoreWarnings(p, w, w.checklist) \in TextRow
           /\ OwnWarnings(StoreWarnings(p, w, w.checklist))
  <1> DEFINE r == text[p]
  <1>1. r \in TextRow BY DEF TextsTrue
  <1>2. StoreWarnings(p, w, w.checklist) = [r EXCEPT !.warnings = w, !.latest = w, !.checked = w.checklist]
    BY DEF StoreWarnings
  <1>3. w.checklist \in BOOLEAN BY DEF Warned
  <1> HIDE DEF r
  <1>4. r.value = w.value /\ r.status # "absent" BY DEF r, Revisable
  <1> QED BY <1>1, <1>2, <1>3, <1>4 DEF TextRow, OwnWarnings

\* A status moves and the warnings stay.
LEMMA StatusMoved ==
    ASSUME TextsTrue(text), NEW p \in Texts, NEW s \in {"pending", "drifted", "closed"}
    PROVE  TextsTrue([text EXCEPT ![p].status = s])
  <1> DEFINE r == text[p]
             n == [r EXCEPT !.status = s]
  <1>1. r \in TextRow /\ OwnWarnings(r) BY DEF TextsTrue
  <1>2. n \in TextRow /\ OwnWarnings(n) BY <1>1 DEF TextRow, OwnWarnings
  <1>3. [text EXCEPT ![p].status = s] = [text EXCEPT ![p] = n] OBVIOUS
  <1> QED BY <1>2, <1>3, RowReplaced

\* A correction saves its value with the warnings of that value, or nothing.
LEMMA CorrectionsTrue ==
    ASSUME TextsTrue(text), facts \in {1, 2}, NEW item \in Item, NEW v \in Wordings
    PROVE  TextsTrue(Corrected(item.of, item.base, v))
  <1>1. item.of \in Texts BY DEF Item
  <1>2. CASE StillSame(item.of, item.base) /\ text[item.of].number < MaxNumber
    BY <1>1, <1>2, RevisedRow, RowReplaced DEF Corrected
  <1>3. CASE ~(StillSame(item.of, item.base) /\ text[item.of].number < MaxNumber)
    BY <1>3 DEF Corrected
  <1> QED BY <1>2, <1>3

-----------------------------------------------------------------------------
LEMMA InitSound == CorrInit => CorrInv
  <1> SUFFICES ASSUME CorrInit PROVE CorrInv
    OBVIOUS
  <1>1. facts = 1 /\ batches = {} /\ batchLock = FALSE /\ queued = 0 /\ ranOut = FALSE
    BY DEF CorrInit
  <1>2. PICK v \in Wordings : text = [p \in Texts |-> NewText(v)] BY DEF CorrInit
  <1>3. NewText(v) \in TextRow /\ OwnWarnings(NewText(v))
    <2> DEFINE w == Checks(v)
    <2>1. w \in Warned /\ w.value = v /\ w.checklist = FALSE BY <1>1, FreshChecks
    <2>2. NewText(v) = [status |-> "absent", value |-> v, number |-> 1, warnings |-> w, latest |-> w, checked |-> FALSE]
      BY DEF NewText
    <2> HIDE DEF w
    <2> QED BY <2>1, <2>2, CorrectionsAssumption DEF TextRow, OwnWarnings
  <1>4. TextsTrue(text) BY <1>2, <1>3 DEF TextsTrue
  <1>5. CorrTypeOK
    <2>1. corrector \in [Correctors -> {Free} \cup Request] BY DEF CorrInit
    <2>2. queued \in 0..MaxCorrectionRuns /\ batches \subseteq Batch BY <1>1, CorrectionsAssumption
    <2>3. text \in [Texts -> TextRow] BY <1>4 DEF TextsTrue
    <2> QED BY <1>1, <2>1, <2>2, <2>3 DEF CorrTypeOK
  <1>6. IsFiniteSet(batches) /\ OneByLock BY <1>1, FS_EmptySet DEF OneByLock
  <1> QED BY <1>4, <1>5, <1>6 DEF CorrInv

\* A step of the texts and the requests: the batches stay as they are.
TextStep ==
    /\ TextsTrue(text') /\ corrector' \in [Correctors -> {Free} \cup Request] /\ facts' \in {1, 2}
    /\ UNCHANGED <<batches, batchLock, queued, ranOut>>

LEMMA TextStepSound ==
    ASSUME CorrInv, TextStep PROVE CorrInv'
  <1>1. CorrTypeOK' BY DEF CorrInv, CorrTypeOK, TextStep, TextsTrue, Batch
  <1>2. (IsFiniteSet(batches) /\ OneByLock)' BY DEF CorrInv, TextStep, OneByLock
  <1> QED BY <1>1, <1>2 DEF CorrInv, TextStep

LEMMA TextActions ==
    ASSUME CorrInv, NEW p \in Texts,
           Ingest(p) \/ CloseText(p) \/ DriftText(p) \/ \E v \in Wordings : OperatorEdit(p, v)
    PROVE  TextStep
  <1>0. TextsTrue(text) /\ facts \in {1, 2} /\ corrector \in [Correctors -> {Free} \cup Request]
    BY DEF CorrInv, CorrTypeOK
  <1>1. CASE Ingest(p)
    <2> DEFINE w == Checks(text[p].value)
               r == text[p]
               n == [r EXCEPT !.status = "pending", !.warnings = w, !.latest = w]
    <2>1. r \in TextRow /\ OwnWarnings(r) /\ r.status = "absent" BY <1>0, <1>1 DEF TextsTrue, Ingest
    <2>2. w \in Warned /\ w.value = r.value /\ w.checklist = FALSE BY <1>0, <2>1, FreshChecks DEF TextRow
    <2>3. text' = [text EXCEPT ![p] = n] BY <1>1 DEF Ingest
    <2>4. n \in TextRow /\ OwnWarnings(n)
      <3> HIDE DEF r, w
      <3> QED BY <2>1, <2>2 DEF TextRow, OwnWarnings
    <2> HIDE DEF n
    <2>5. TextsTrue([text EXCEPT ![p] = n]) BY <1>0, <2>4, RowReplaced
    <2>6. facts' \in {1, 2} /\ corrector' = corrector /\ UNCHANGED <<batches, batchLock, queued, ranOut>>
      BY <1>0, <1>1 DEF Ingest
    <2> QED BY <1>0, <2>3, <2>5, <2>6 DEF TextStep
  <1>2. CASE CloseText(p)
    BY <1>0, <1>2, StatusMoved DEF TextStep, CloseText
  <1>3. CASE DriftText(p)
    BY <1>0, <1>3, StatusMoved DEF TextStep, DriftText
  <1>4. ASSUME NEW v \in Wordings, OperatorEdit(p, v) PROVE TextStep
    BY <1>0, <1>4, RevisedRow, RowReplaced DEF TextStep, OperatorEdit
  <1> QED BY <1>1, <1>2, <1>3, <1>4

LEMMA RequestActions ==
    ASSUME CorrInv, NEW c \in Correctors,
           \/ \E p \in Texts, does \in {"revise", "check_standard", "recheck"} : Load(c, p, does)
           \/ StoreCheck(c) \/ CallFails(c) \/ \E v \in Wordings : Revise(c, v)
    PROVE  TextStep
  <1>0. TextsTrue(text) /\ facts \in {1, 2} /\ corrector \in [Correctors -> {Free} \cup Request]
    BY DEF CorrInv, CorrTypeOK
  <1>1. ASSUME corrector[c].does # "nothing" PROVE corrector[c] \in Request /\ corrector[c].of \in Texts
    <2>1. corrector[c] \in {Free} \cup Request BY <1>0
    <2> QED BY <1>1, <2>1 DEF Free, Request
  <1>2. ASSUME Ends(c)
        PROVE  corrector' \in [Correctors -> {Free} \cup Request] /\ UNCHANGED <<facts, batches, batchLock, queued, ranOut>>
    BY <1>0, <1>2 DEF Ends
  <1>3. ASSUME NEW p \in Texts, NEW does \in {"revise", "check_standard", "recheck"}, Load(c, p, does)
        PROVE  TextStep
    <2>1. text[p].value \in Wordings BY <1>0 DEF TextsTrue, TextRow
    <2>2. [does |-> does, of |-> p, base |-> text[p].value] \in Request BY <2>1 DEF Request
    <2>3. corrector' \in [Correctors -> {Free} \cup Request] BY <1>0, <1>3, <2>2 DEF Load
    <2> QED BY <1>0, <1>3, <2>3 DEF TextStep, Load
  <1>4. CASE StoreCheck(c)
    <2> DEFINE k == corrector[c]
               p == k.of
               listed == k.does = "check_standard"
               w == [Checks(k.base) EXCEPT !.checklist = listed]
    <2>1. k \in Request /\ p \in Texts /\ k.base \in Wordings BY <1>1, <1>4 DEF StoreCheck, Request
    <2>2. Ends(c) BY <1>4 DEF StoreCheck
    <2>3. text' = IF StillSame(p, k.base) THEN [text EXCEPT ![p] = StoreWarnings(p, w, listed)] ELSE text
      BY <1>4 DEF StoreCheck
    <2>4. w \in Warned /\ w.value = k.base /\ w.checklist = listed BY <1>0, <2>1, FreshChecks DEF Warned
    <2>5. TextsTrue(text')
      <3>1. CASE StillSame(p, k.base)
        <4>1. Revisable(p) /\ w.value = text[p].value BY <2>4, <3>1 DEF StillSame
        <4> HIDE DEF p, listed, w
        <4>2. StoreWarnings(p, w, listed) \in TextRow /\ OwnWarnings(StoreWarnings(p, w, listed))
          BY <1>0, <2>1, <2>4, <4>1, StoredRow
        <4> QED BY <1>0, <2>1, <2>3, <3>1, <4>2, RowReplaced
      <3>2. CASE ~StillSame(p, k.base) BY <1>0, <2>3, <3>2
      <3> QED BY <3>1, <3>2
    <2> QED BY <1>0, <1>2, <2>2, <2>5 DEF TextStep
  <1>5. CASE CallFails(c) BY <1>0, <1>2, <1>5 DEF CallFails, TextStep
  <1>6. ASSUME NEW v \in Wordings, Revise(c, v) PROVE TextStep
    <2> DEFINE item == [of |-> corrector[c].of, base |-> corrector[c].base]
    <2>1. item \in Item BY <1>1, <1>6 DEF Revise, Request, Item
    <2>2. TextsTrue(Corrected(item.of, item.base, v)) BY <1>0, <2>1, CorrectionsTrue
    <2>3. Ends(c) /\ text' = Corrected(item.of, item.base, v) BY <1>6 DEF Revise
    <2> QED BY <1>0, <1>2, <2>2, <2>3 DEF TextStep
  <1> QED BY <1>3, <1>4, <1>5, <1>6

\* One batch is replaced by what it became; the lock stays.
LEMMA BatchMoves ==
    ASSUME CorrInv, NEW b \in batches, NEW d \in Batch,
           batches' = (batches \ {b}) \cup {d}, TextsTrue(text'), UNCHANGED <<facts, corrector, batchLock, queued, ranOut>>
    PROVE  CorrInv'
  <1>1. batches' \subseteq Batch /\ IsFiniteSet(batches')
    BY FS_AddElement, FS_RemoveElement DEF CorrInv, CorrTypeOK
  <1>2. CorrTypeOK' BY <1>1 DEF CorrInv, CorrTypeOK, TextsTrue, Batch
  <1>3. OneByLock' BY DEF CorrInv, OneByLock
  <1> QED BY <1>1, <1>2, <1>3 DEF CorrInv

\* One batch is gone.
LEMMA BatchEnds ==
    ASSUME CorrInv, NEW b \in batches, batches' = batches \ {b}, batchLock' \in {FALSE, batchLock},
           UNCHANGED <<text, facts, corrector, queued, ranOut>>
    PROVE  CorrInv'
  <1>1. batches' \subseteq Batch /\ IsFiniteSet(batches') BY FS_RemoveElement DEF CorrInv, CorrTypeOK
  <1>2. CorrTypeOK' BY <1>1 DEF CorrInv, CorrTypeOK, Batch
  <1>3. OneByLock' BY DEF CorrInv, OneByLock
  <1> QED BY <1>1, <1>2, <1>3 DEF CorrInv

LEMMA BatchActions ==
    ASSUME CorrInv, NEW b \in batches,
           \/ StartBatch(b) \/ EndBatch(b) \/ BatchDies(b)
           \/ \E item \in b.todo : ReviseFails(b, item) \/ \E v \in Wordings : ReviseNext(b, item, v)
    PROVE  CorrInv'
  <1>0. /\ TextsTrue(text) /\ facts \in {1, 2} /\ b \in Batch /\ b.todo \subseteq Item
        /\ \A todo \in SUBSET Item : [b EXCEPT !.todo = todo] \in Batch /\ [b EXCEPT !.at = "running", !.todo = todo] \in Batch
    BY DEF CorrInv, CorrTypeOK, Batch
  <1>1. CASE StartBatch(b)
    <2> DEFINE todo == {[of |-> p, base |-> text[p].value] : p \in PendingTexts}
    <2>1. todo \in SUBSET Item
      <3>1. \A p \in Texts : [of |-> p, base |-> text[p].value] \in Item BY <1>0 DEF TextsTrue, TextRow, Item
      <3> QED BY <3>1 DEF PendingTexts
    <2>2. batches' = (batches \ {b}) \cup {[b EXCEPT !.at = "running", !.todo = todo]} BY <1>1 DEF StartBatch
    <2>3. UNCHANGED <<text, facts, corrector, batchLock, queued, ranOut>> BY <1>1 DEF StartBatch
    <2> HIDE DEF todo
    <2>4. TextsTrue(text') BY <1>0, <2>3
    <2> QED BY <1>0, <2>1, <2>2, <2>3, <2>4, BatchMoves
  <1>2. CASE EndBatch(b) BY <1>2, BatchEnds DEF EndBatch
  <1>3. CASE BatchDies(b) BY <1>3, BatchEnds DEF BatchDies
  <1>4. ASSUME NEW item \in b.todo, ReviseFails(b, item) PROVE CorrInv'
    <2>1. b.todo \ {item} \in SUBSET Item BY <1>0
    <2>2. TextsTrue(text') BY <1>0, <1>4 DEF ReviseFails
    <2> QED BY <1>0, <1>4, <2>1, <2>2, BatchMoves DEF ReviseFails
  <1>5. ASSUME NEW item \in b.todo, NEW v \in Wordings, ReviseNext(b, item, v) PROVE CorrInv'
    <2>1. b.todo \ {item} \in SUBSET Item /\ item \in Item BY <1>0
    <2>2. TextsTrue(text') BY <1>0, <1>5, <2>1, CorrectionsTrue DEF ReviseNext
    <2> QED BY <1>0, <1>5, <2>1, <2>2, BatchMoves DEF ReviseNext
  <1> QED BY <1>1, <1>2, <1>3, <1>4, <1>5

\* A batch is queued under a free lock: no batch is there, or a lock ran out.
LEMMA QueueSound ==
    ASSUME CorrInv, NEW dispatched \in BOOLEAN, QueueBatch(dispatched) PROVE CorrInv'
  <1> DEFINE new == [id |-> queued + 1, at |-> "queued", todo |-> {}]
  <1>0. /\ TextsTrue(text) /\ queued \in 0..MaxCorrectionRuns /\ queued < MaxCorrectionRuns /\ ~batchLock
        /\ batchLock' = dispatched /\ queued' = queued + 1 /\ UNCHANGED <<text, facts, corrector, ranOut>>
        /\ batches' = IF dispatched THEN batches \cup {new} ELSE batches
    BY DEF CorrInv, CorrTypeOK, QueueBatch, LockFree
  <1>1. queued' \in 0..MaxCorrectionRuns /\ 1..queued \subseteq 1..queued' /\ queued' \in 1..queued'
    BY <1>0, CorrectionsAssumption
  <1>2. new \in Batch' BY <1>0, <1>1 DEF Batch
  <1>3. Batch \subseteq Batch'
    <2> SUFFICES ASSUME NEW d \in Batch PROVE d \in Batch'
      OBVIOUS
    <2>1. d.id \in 1..queued' /\ d = [id |-> d.id, at |-> d.at, todo |-> d.todo] BY <1>1 DEF Batch
    <2> QED BY <2>1 DEF Batch
  <1>4. batches \subseteq Batch BY DEF CorrInv, CorrTypeOK
  <1>5. batches' \subseteq Batch' BY <1>0, <1>2, <1>3, <1>4
  <1>6. CorrTypeOK' BY <1>0, <1>1, <1>5 DEF CorrInv, CorrTypeOK
  <1>7. IsFiniteSet(batches')
    <2> HIDE DEF new
    <2> QED BY <1>0, FS_AddElement DEF CorrInv
  <1>8. OneByLock'
    <2> HIDE DEF new
    <2> QED BY <1>0 DEF CorrInv, OneByLock
  <1> QED BY <1>0, <1>6, <1>7, <1>8 DEF CorrInv

LEMMA StepSound == CorrInv /\ [CorrNext]_corrVars => CorrInv'
  <1> SUFFICES ASSUME CorrInv, [CorrNext]_corrVars PROVE CorrInv'
    OBVIOUS
  <1>0. TextsTrue(text) /\ facts \in {1, 2} /\ corrector \in [Correctors -> {Free} \cup Request]
    BY DEF CorrInv, CorrTypeOK
  <1>1. ASSUME NEW p \in Texts, Ingest(p) \/ CloseText(p) \/ DriftText(p) \/ \E v \in Wordings : OperatorEdit(p, v)
        PROVE CorrInv'
    BY <1>1, TextActions, TextStepSound
  <1>2. CASE EditFacts BY <1>0, <1>2, TextStepSound DEF TextStep, EditFacts
  <1>3. CASE LockRunsOut
    <2>1. CorrTypeOK' BY <1>3 DEF CorrInv, CorrTypeOK, LockRunsOut, Batch
    <2>2. OneByLock' BY <1>3 DEF CorrInv, CorrTypeOK, LockRunsOut, OneByLock
    <2> QED BY <1>3, <2>1, <2>2 DEF CorrInv, LockRunsOut
  <1>4. ASSUME NEW c \in Correctors, NEW p \in Texts, NEW does \in {"revise", "check_standard", "recheck"}, Load(c, p, does)
        PROVE CorrInv'
    BY <1>4, RequestActions, TextStepSound
  <1>5. ASSUME NEW c \in Correctors, StoreCheck(c) \/ CallFails(c) \/ \E v \in Wordings : Revise(c, v)
        PROVE CorrInv'
    BY <1>5, RequestActions, TextStepSound
  <1>6. ASSUME NEW dispatched \in BOOLEAN, QueueBatch(dispatched) PROVE CorrInv'
    BY <1>6, QueueSound
  <1>7. ASSUME NEW b \in batches,
               \/ StartBatch(b) \/ EndBatch(b) \/ BatchDies(b)
               \/ \E item \in b.todo : ReviseFails(b, item) \/ \E v \in Wordings : ReviseNext(b, item, v)
        PROVE CorrInv'
    BY <1>7, BatchActions
  <1>8. CASE UNCHANGED corrVars
    BY <1>8 DEF corrVars, CorrInv, CorrTypeOK, OneByLock, Batch
  <1> QED BY <1>1, <1>2, <1>3, <1>4, <1>5, <1>6, <1>7, <1>8 DEF CorrNext

-----------------------------------------------------------------------------
\* The invariant says what the operator is promised.
LEMMA InvTellsTheTruth == CorrInv => WarningsTrue
  <1> SUFFICES ASSUME CorrInv PROVE WarningsTrue
    OBVIOUS
  <1>1. WarningsOfValue /\ WarningsAgree
    BY DEF CorrInv, TextsTrue, OwnWarnings, WarningsOfValue, WarningsAgree
  <1>2. ASSUME \A b, d \in batches : b = d PROVE Cardinality(batches) <= 1
    <2>1. CASE batches = {} BY <2>1, FS_EmptySet
    <2>2. CASE batches # {}
      <3>1. PICK b \in batches : batches = {b} BY <1>2, <2>2
      <3>2. Cardinality({b}) = 1 BY FS_Singleton
      <3> QED BY <3>1, <3>2
    <2> QED BY <2>1, <2>2
  <1>3. OneBatch BY <1>2 DEF CorrInv, OneByLock, OneBatch
  <1> QED BY <1>1, <1>3 DEF CorrInv, WarningsTrue

\* Whatever edits, corrections, checks and batches overlap, the warnings shown
\* next to a text are those of its value and of its latest revision, the check
\* time stands exactly with the checklist's warnings, and a task has one batch
\* at a time while no lock runs out (revision_service.add_revision,
\* qa_service.store, revise_batch_service).
THEOREM WarningsAreTrue == CorrSpec => []WarningsTrue
  <1>1. CorrSpec => []CorrInv BY InitSound, StepSound, PTL DEF CorrSpec
  <1> QED BY <1>1, InvTellsTheTruth, PTL

-----------------------------------------------------------------------------
(* Answers: how what is given is read, input by input. field_limits first    *)

\* A length draws a warning exactly when it is out of the range.
LEMMA LengthsAgree == CheckLength => LimitsAgree'
<1> SUFFICES ASSUME NEW least \in 0..3, NEW most \in 1..4, NEW length \in 0..5, NEW new \in 0..5, NEW correctable \in {2, 4},
                    NEW limit, limit = [min |-> least, max |-> most],
                    NEW after, after = Rewritten(limit, correctable, length, new),
                    submitted' = [of |-> "length", limit |-> limit, was |-> length, length |-> after,
                                  warnings |-> LengthWarnings(after, JsonSchema(limit))]
             PROVE  LimitsAgree'
  BY DEF CheckLength, Submits
<1> DEFINE schema == JsonSchema(limit)
           warnings == LengthWarnings(after, schema)
<1>1. least \in Nat /\ most \in Nat /\ length \in Nat /\ new \in Nat /\ limit.min = least /\ limit.max = most  OBVIOUS
<1>2. after \in Nat /\ (Covers(limit, length) => after = length)  BY <1>1 DEF Rewritten
<1>3. schema.maxLength = most /\ schema.minLength = IF least = 0 THEN {} ELSE {least}  BY <1>1 DEF JsonSchema
<1> HIDE DEF schema
<1>4. warnings = {} <=> after <= most /\ \A m \in schema.minLength : ~(after < m)
  BY <1>1, <1>2, <1>3 DEF LengthWarnings
<1>5. (\A m \in schema.minLength : ~(after < m)) <=> least <= after  BY <1>1, <1>2, <1>3
<1>6. warnings = {} <=> Covers(limit, after)  BY <1>1, <1>4, <1>5 DEF Covers
<1>7. /\ submitted'.limit = limit /\ submitted'.was = length /\ submitted'.length = after /\ submitted'.warnings = warnings
  BY DEF schema
<1> HIDE DEF warnings
<1> QED  BY <1>2, <1>6, <1>7 DEF LimitsAgree

-----------------------------------------------------------------------------
(* cover                                                                     *)

\* The picture picked is the one of the scene shown at that place.
LEMMA PickIsRead == PickCover => PickHasPicture'
<1> SUFFICES ASSUME NEW brief \in SeqsUpto([prompt : BOOLEAN, made : BOOLEAN], 3), NEW chosen \in 0..3,
                    NEW titled, titled = [i \in DOMAIN brief |-> [prompt |-> brief[i].prompt, made |-> brief[i].made, title |-> NumberedId[i]]],
                    NEW scenes, scenes = Scenes(titled),
                    submitted' = [of |-> "cover", variants |-> Variants(scenes), chosen |-> chosen, pictures |-> Pictures(scenes),
                                  ok |-> ValidatePick(chosen, Len(Variants(scenes)))]
             PROVE  PickHasPicture'
  BY DEF PickCover, Submits
<1> DEFINE T == {titled[i] : i \in DOMAIN titled}
           variants == Variants(scenes)
           pictures == Pictures(scenes)
<1>1. titled \in Seq(T)
  <2>1. PICK k \in 0..3 : DOMAIN brief = 1..k  BY DEF SeqsUpto
  <2>2. DOMAIN titled = 1..k /\ k \in Nat  BY <2>1
  <2>3. titled = [i \in 1..k |-> titled[i]]  BY <2>2
  <2> QED  BY <2>2, <2>3
<1>2. scenes \in Seq(T)
  <2>1. Those(titled, {s \in ToSet(titled) : s.prompt}) \in Seq(T)  BY <1>1, ThoseHas
  <2>2. MaxVariants \in Nat  BY AnswersAssumption
  <2> DEFINE kept == Those(titled, {s \in ToSet(titled) : s.prompt})
             n == IF Len(kept) < MaxVariants THEN Len(kept) ELSE MaxVariants
  <2>3. scenes = SubSeq(kept, 1, n)  BY DEF Scenes, AtMost
  <2> HIDE DEF kept
  <2>4. kept \in Seq(T) /\ Len(kept) \in Nat  BY <2>1 DEF kept
  <2>5. n \in 0..Len(kept)  BY <2>2, <2>4
  <2> HIDE DEF n, T
  <2> QED  BY <2>3, <2>4, <2>5
<1>3. variants \in Seq(T)  BY <1>2, ThoseHas DEF Variants
<1>4. pictures = [i \in DOMAIN variants |-> variants[i].title]  BY DEF Pictures, Variants
<1>5. submitted'.variants = variants /\ submitted'.chosen = chosen /\ submitted'.pictures = pictures
      /\ submitted'.ok = (chosen < Len(variants))
  BY DEF ValidatePick
<1> HIDE DEF T, variants, pictures
<1>6. ASSUME chosen < Len(variants) PROVE ReadVariant(pictures, chosen) = variants[chosen + 1].title
  <2>1. DOMAIN variants = 1..Len(variants) /\ Len(variants) \in Nat  BY <1>3
  <2>2. chosen + 1 \in DOMAIN pictures  BY <1>4, <1>6, <2>1
  <2> QED  BY <1>4, <2>2 DEF ReadVariant
<1> QED  BY <1>5, <1>6 DEF PickHasPicture

-----------------------------------------------------------------------------
(* step_errors                                                               *)

\* A definition without errors runs to its end.
LEMMA DefinitionHolds == SaveDefinition => DefinitionRuns'
<1> DEFINE steps == submitted'.steps
<1>0. ASSUME SaveDefinition
      PROVE  /\ steps \in StepsOf(SUBSET {"a", "b"}, {"artifact", "questions", "document"})
             /\ submitted'.ok = TRUE => StepErrors(steps) = {}
  <2>1. PICK s \in StepsOf(SUBSET {"a", "b"}, {"artifact", "questions", "document"}) :
           submitted' = [of |-> "definition", steps |-> s, ok |-> StepErrors(s) = {}]
    BY <1>0 DEF SaveDefinition, Submits
  <2>2. steps = s /\ submitted'.ok = (StepErrors(s) = {})  BY <2>1
  <2> QED  BY <2>2
<1> SUFFICES ASSUME steps \in StepsOf(SUBSET {"a", "b"}, {"artifact", "questions", "document"}), StepErrors(steps) = {}
             PROVE  DefinitionRuns'
  BY <1>0 DEF DefinitionRuns
<1> HIDE DEF steps
<1> DEFINE keys == {steps[i].key : i \in DOMAIN steps}
           ready(done) == done \cup {steps[i].key : i \in {i \in DOMAIN steps : steps[i].needs \subseteq done}}
<1>1. steps # <<>> /\ GraphErrors(steps) = {}  BY DEF StepErrors
<1>2. PICK n \in 1..3 : DOMAIN steps = 1..n /\ Len(steps) = n
  BY <1>1 DEF StepsOf
<1>3. ASSUME NEW i \in 1..n
      PROVE  /\ \A j \in 1..(i - 1) : steps[j].key # steps[i].key
             /\ steps[i].needs \subseteq {steps[j].key : j \in 1..(i - 1)}
             /\ steps[i].output \in {"questions", "image"} => steps[i].gate = "review"
  BY <1>1, <1>2 DEF GraphErrors, NeedsEarlier
<1>4. ready(ready(ready({}))) = keys
  <2> DEFINE r1 == ready({})
             r2 == ready(r1)
             r3 == ready(r2)
  <2>1. r3 \subseteq keys /\ r1 \subseteq r2 /\ r2 \subseteq r3  OBVIOUS
  <2>2. steps[1].key \in r1
    <3>1. 1 \in DOMAIN steps /\ steps[1].needs \subseteq {}  BY <1>2, <1>3
    <3> QED  BY <3>1
  <2>3. n >= 2 => steps[2].key \in r2
    <3> SUFFICES ASSUME n >= 2 PROVE steps[2].key \in r2  OBVIOUS
    <3>1. 2 \in 1..n /\ 2 - 1 = 1 /\ \A j \in 1..1 : j = 1  OBVIOUS
    <3>2. 2 \in DOMAIN steps /\ steps[2].needs \subseteq {steps[1].key}  BY <1>2, <1>3, <3>1
    <3> HIDE DEF r1
    <3> QED  BY <2>2, <3>2
  <2>4. n >= 3 => steps[3].key \in r3
    <3> SUFFICES ASSUME n >= 3 PROVE steps[3].key \in r3  OBVIOUS
    <3>1. 3 \in 1..n /\ 2 \in 1..n /\ 3 - 1 = 2 /\ \A j \in 1..2 : j = 1 \/ j = 2  OBVIOUS
    <3>2. 3 \in DOMAIN steps /\ steps[3].needs \subseteq {steps[1].key, steps[2].key}  BY <1>2, <1>3, <3>1
    <3> HIDE DEF r1, r2
    <3> QED  BY <2>1, <2>2, <2>3, <3>2
  <2>5. \A i \in 1..n : i = 1 \/ (i = 2 /\ n >= 2) \/ (i = 3 /\ n >= 3)  OBVIOUS
  <2> HIDE DEF r1, r2, r3
  <2>6. \A i \in 1..n : steps[i].key \in r3  BY <2>1, <2>2, <2>3, <2>4, <2>5
  <2>7. r3 = keys  BY <1>2, <2>1, <2>6
  <2> QED  BY <2>7 DEF r1, r2, r3
<1>5. Cardinality(keys) = Len(steps)
  <2> DEFINE key == [i \in 1..n |-> steps[i].key]
  <2>1. \A i, j \in 1..n : key[i] = key[j] => i = j
    <3> SUFFICES ASSUME NEW i \in 1..n, NEW j \in 1..n, i < j PROVE key[i] # key[j]  OBVIOUS
    <3>1. i \in 1..(j - 1)  OBVIOUS
    <3> QED  BY <1>3, <3>1
  <2>2. key \in Bijection(1..n, keys)  BY <1>2, <2>1 DEF Bijection, Injection, Surjection, IsInjective
  <2>3. IsFiniteSet(1..n) /\ Cardinality(1..n) = n
    <3>1. 1 \in Int /\ n \in Int /\ (IF 1 > n THEN 0 ELSE n - 1 + 1) = n  OBVIOUS
    <3> QED  BY <3>1, FS_Interval
  <2>4. ExistsBijection(1..n, keys)  BY <2>2 DEF ExistsBijection
  <2> QED  BY <1>2, <2>3, <2>4, FS_Bijection
<1>6. \A i \in DOMAIN steps : steps[i].gate = "auto" => steps[i].output \notin {"questions", "image"}  BY <1>2, <1>3
<1>7. keys = Keys(steps, DOMAIN steps)  BY DEF Keys
<1>8. \A done : ready(done) = DoneWith(steps, done)  BY DEF Keys, DoneWith
<1> HIDE DEF ready, keys
<1>9. DoneWith(steps, DoneWith(steps, DoneWith(steps, {}))) = Keys(steps, DOMAIN steps)  BY <1>4, <1>7, <1>8
<1>10. Cardinality(Keys(steps, DOMAIN steps)) = Len(steps)  BY <1>5, <1>7
<1> QED  BY <1>1, <1>6, <1>9, <1>10 DEF DefinitionRuns, steps

-----------------------------------------------------------------------------
(* apply_answer                                                              *)

\* A suffix is no longer and has the same members, counted from the end.
LEMMA SuffixIs ==
  ASSUME NEW S, NEW s \in Seq(S), NEW t \in Seq(S), IsSuffix(s, t)
  PROVE  Len(s) <= Len(t) /\ \A i \in 1..Len(s) : s[i] = t[Len(t) - Len(s) + i]
<1>1. Len(s) \in Nat /\ Len(t) \in Nat  OBVIOUS
<1>2. ASSUME NEW u \in Seq(S)
      PROVE  Reverse(u) \in Seq(S) /\ Len(Reverse(u)) = Len(u) /\ \A i \in 1..Len(u) : Reverse(u)[i] = u[Len(u) - i + 1]
  <2>1. Len(u) \in Nat  OBVIOUS
  <2>2. \A i \in 1..Len(u) : Len(u) - i + 1 \in 1..Len(u)  BY <2>1
  <2>3. \A i \in 1..Len(u) : u[Len(u) - i + 1] \in S  BY <2>2
  <2>4. Reverse(u) = [i \in 1..Len(u) |-> u[Len(u) - i + 1]]  BY DEF Reverse
  <2> QED  BY <2>1, <2>3, <2>4
<1>3. IsPrefix(Reverse(s), Reverse(t))  BY DEF IsSuffix
<1>4. Len(s) <= Len(t) /\ \A i \in 1..Len(s) : Reverse(s)[i] = Reverse(t)[i]
  <2>1. Reverse(s) \in Seq(S) /\ Reverse(t) \in Seq(S) /\ Len(Reverse(s)) = Len(s) /\ Len(Reverse(t)) = Len(t)  BY <1>2
  <2> QED  BY <1>3, <2>1, PrefixIs
<1>5. ASSUME NEW i \in 1..Len(s) PROVE s[i] = t[Len(t) - Len(s) + i]
  <2> DEFINE k == Len(s) - i + 1
  <2>1. k \in 1..Len(s) /\ k \in 1..Len(t) /\ Len(s) - k + 1 = i /\ Len(t) - k + 1 = Len(t) - Len(s) + i  BY <1>1, <1>4
  <2> HIDE DEF k
  <2>2. Reverse(s)[k] = s[Len(s) - k + 1] /\ Reverse(t)[k] = t[Len(t) - k + 1]  BY <1>2, <2>1
  <2> QED  BY <1>4, <2>1, <2>2
<1> QED  BY <1>4, <1>5

\* A text with two ends that share nothing is what they and what is between them make.
LEMMA BetweenEnds ==
  ASSUME NEW S, NEW t \in Seq(S), NEW s \in Seq(S), NEW e \in Seq(S),
         IsPrefix(s, t), IsSuffix(e, t), Len(t) >= Len(s) + Len(e)
  PROVE  t = s \o SubSeq(t, Len(s) + 1, Len(t) - Len(e)) \o e
<1> DEFINE m == SubSeq(t, Len(s) + 1, Len(t) - Len(e))
           all == (s \o m) \o e
<1>1. Len(s) \in Nat /\ Len(t) \in Nat /\ Len(e) \in Nat  OBVIOUS
<1>2. \A i \in 1..Len(s) : s[i] = t[i]  BY PrefixIs
<1>3. \A i \in 1..Len(e) : e[i] = t[Len(t) - Len(e) + i]  BY SuffixIs
<1>4. m \in Seq(S) /\ Len(m) = Len(t) - Len(e) - Len(s) /\ \A i \in 1..Len(m) : m[i] = t[Len(s) + i]
  <2>1. \A i \in (Len(s) + 1)..(Len(t) - Len(e)) : t[i] \in S
    <3>1. \A i \in (Len(s) + 1)..(Len(t) - Len(e)) : i \in 1..Len(t)  BY <1>1
    <3> QED  BY <3>1
  <2>2. Len(s) + 1 \in Int /\ Len(t) - Len(e) \in Int  BY <1>1
  <2>3. /\ m \in Seq(S) /\ Len(m) = IF Len(s) + 1 <= Len(t) - Len(e) THEN (Len(t) - Len(e)) - (Len(s) + 1) + 1 ELSE 0
        /\ \A i \in 1..((Len(t) - Len(e)) - (Len(s) + 1) + 1) : m[i] = t[(Len(s) + 1) + i - 1]
    <3> HIDE DEF m
    <3> QED  BY <2>1, <2>2, SubSeqProperties DEF m
  <2> HIDE DEF m
  <2>4. Len(m) = Len(t) - Len(e) - Len(s)  BY <1>1, <2>3
  <2>5. \A i \in 1..Len(m) : i \in 1..((Len(t) - Len(e)) - (Len(s) + 1) + 1) /\ (Len(s) + 1) + i - 1 = Len(s) + i
    BY <1>1, <2>4
  <2> QED  BY <2>3, <2>4, <2>5
<1> HIDE DEF m
<1>5. /\ s \o m \in Seq(S) /\ Len(s \o m) = Len(t) - Len(e) /\ (\A i \in 1..Len(s) : (s \o m)[i] = s[i])
      /\ \A i \in 1..Len(m) : (s \o m)[Len(s) + i] = m[i]
  BY <1>1, <1>4
<1>6. \A i \in 1..(Len(t) - Len(e)) : (s \o m)[i] = t[i]
  <2> SUFFICES ASSUME NEW i \in 1..(Len(t) - Len(e)) PROVE (s \o m)[i] = t[i]  OBVIOUS
  <2>1. CASE i <= Len(s)
    <3>1. i \in 1..Len(s)  BY <1>1, <2>1
    <3> QED  BY <1>2, <1>5, <3>1
  <2>2. CASE i > Len(s)
    <3>1. i - Len(s) \in 1..Len(m) /\ Len(s) + (i - Len(s)) = i  BY <1>1, <1>4, <2>2
    <3>2. (s \o m)[Len(s) + (i - Len(s))] = m[i - Len(s)] /\ m[i - Len(s)] = t[Len(s) + (i - Len(s))]  BY <1>4, <1>5, <3>1
    <3> QED  BY <3>1, <3>2
  <2>3. i <= Len(s) \/ i > Len(s)  BY <1>1
  <2> QED  BY <2>1, <2>2, <2>3
<1>7. /\ all \in Seq(S) /\ Len(all) = Len(t) /\ (\A i \in 1..(Len(t) - Len(e)) : all[i] = (s \o m)[i])
      /\ \A i \in 1..Len(e) : all[Len(t) - Len(e) + i] = e[i]
  <2> DEFINE f == s \o m
  <2>1. f \in Seq(S) /\ Len(f) = Len(t) - Len(e)  BY <1>5
  <2> HIDE DEF f
  <2>2. f \o e \in Seq(S) /\ Len(f \o e) = Len(f) + Len(e) /\ (\A i \in 1..Len(f) : (f \o e)[i] = f[i])
        /\ \A i \in 1..Len(e) : (f \o e)[Len(f) + i] = e[i]
    BY <1>1, <2>1
  <2>3. Len(f) + Len(e) = Len(t)  BY <1>1, <2>1
  <2> QED  BY <2>1, <2>2, <2>3 DEF f
<1> HIDE DEF all
<1>8. \A i \in 1..Len(t) : all[i] = t[i]
  <2> SUFFICES ASSUME NEW i \in 1..Len(t) PROVE all[i] = t[i]  OBVIOUS
  <2>1. CASE i <= Len(t) - Len(e)
    <3>1. i \in 1..(Len(t) - Len(e))  BY <1>1, <2>1
    <3> QED  BY <1>6, <1>7, <3>1
  <2>2. CASE i > Len(t) - Len(e)
    <3> DEFINE k == i - (Len(t) - Len(e))
    <3>1. k \in 1..Len(e) /\ Len(t) - Len(e) + k = i  BY <1>1, <2>2
    <3> HIDE DEF k
    <3>2. all[Len(t) - Len(e) + k] = e[k] /\ e[k] = t[Len(t) - Len(e) + k]  BY <1>3, <1>7, <3>1
    <3> QED  BY <3>1, <3>2
  <2> QED  BY <1>1, <2>1, <2>2
<1>9. t = all  BY <1>7, <1>8, SeqEqual
<1> QED  BY <1>9 DEF all, m

\* What stands before and after a part of a text.
LEMMA AroundIs ==
  ASSUME NEW S, NEW t \in Seq(S), NEW part \in Seq(S), OccursOnce(t, part)
  PROVE  Before(t, part) \in Seq(S) /\ After(t, part) \in Seq(S)
<1> DEFINE p == First(t, part)
<1>1. At(t, part) \in SUBSET Nat /\ At(t, part) # {}
  <2>1. At(t, part) \in SUBSET (1..Len(t))  BY DEF At
  <2>2. At(t, part) # {}  BY DEF OccursOnce
  <2> QED  BY <2>1, <2>2
<1>2. p \in At(t, part)
  <2>1. PICK m \in At(t, part) : \A q \in At(t, part) : m <= q  BY <1>1, LeastNumber
  <2> QED  BY <2>1 DEF First
<1>3. p \in 1..Len(t) /\ p + Len(part) - 1 <= Len(t)  BY <1>2 DEF At
<1>4. Before(t, part) = SubSeq(t, 1, p - 1) /\ After(t, part) = SubSeq(t, p + Len(part), Len(t))  BY DEF Before, After
<1> HIDE DEF p
<1>5. Len(t) \in Nat /\ Len(part) \in Nat /\ p \in Nat  BY <1>3
<1>6. \A i \in 1..(p - 1) : t[i] \in S  BY <1>3, <1>5
<1>7. \A i \in (p + Len(part))..Len(t) : t[i] \in S
  <2>1. \A i \in (p + Len(part))..Len(t) : i \in 1..Len(t)  BY <1>3, <1>5
  <2> QED  BY <2>1
<1>8. p - 1 \in Int /\ 1 \in Int /\ p + Len(part) \in Int /\ Len(t) \in Int  BY <1>5
<1> QED  BY <1>4, <1>6, <1>7, <1>8, SubSeqProperties

\* Edits give a text, or nothing.
Results(S) == [ok : BOOLEAN, text : Seq(S)]
\* What the edits leave is a text.
LEMMA EditsGive ==
  ASSUME NEW S, NEW t \in Seq(S), NEW edits, NEW n \in Nat, DOMAIN edits = 1..n,
         \A i \in 1..n : edits[i].old \in Seq(S) /\ edits[i].new \in Seq(S)
  PROVE  FoldLeft(ApplyEdit, Taken(t), edits) \in Results(S)
<1> DEFINE base == Taken(t)
           Folds(c) == c = [s \in SUBSET (1..n) |-> IF s = {} THEN base ELSE ApplyEdit(c[s \ {Max(s)}], edits[Max(s)])]
           step == [vi \in Results(S) \X (1..n) |-> ApplyEdit(vi[1], edits[vi[2]])]
           result == FoldLeft(ApplyEdit, base, edits)
<1>1. n \in Nat /\ DOMAIN edits = 1..n /\ \A i \in 1..n : edits[i].old \in Seq(S) /\ edits[i].new \in Seq(S)  OBVIOUS
<1>2. result = (CHOOSE c : Folds(c))[1..n]
  BY <1>1 DEF FoldLeft, MapThenFoldSet
<1>3. ASSUME NEW r \in Results(S), NEW i \in 1..n PROVE ApplyEdit(r, edits[i]) \in Results(S)
  <2> DEFINE old == edits[i].old
             new == edits[i].new
  <2>1. Refused \in Results(S)  BY DEF Refused, Results
  <2>2. old \in Seq(S) /\ new \in Seq(S) /\ r.text \in Seq(S)  BY <1>1 DEF Results
  <2> HIDE DEF old, new
  <2>3. ASSUME OccursOnce(r.text, old)
        PROVE  Before(r.text, old) \o new \o After(r.text, old) \in Seq(S)
    <3>1. Before(r.text, old) \in Seq(S) /\ After(r.text, old) \in Seq(S)  BY <2>2, <2>3, AroundIs
    <3> QED  BY <2>2, <3>1
  <2> QED  BY <2>1, <2>3 DEF ApplyEdit, Taken, Results, old, new
<1>4. base \in Results(S)  BY DEF Taken, Results
<1>5. step \in [Results(S) \X (1..n) -> Results(S)]  BY <1>3
<1>6. ASSUME NEW v \in Results(S), NEW i \in 1..n PROVE step[<<v, i>>] = ApplyEdit(v, edits[i])  OBVIOUS
<1> HIDE DEF step, base, result
<1>7. PICK g \in [SUBSET (1..n) -> Results(S)] : FoldsBy(g, base, step, n)  BY <1>1, <1>4, <1>5, FoldExists
<1>8. Folds(g)
  <2>1. ASSUME NEW s \in SUBSET (1..n), s # {} PROVE step[<<g[s \ {Max(s)}], Max(s)>>] = ApplyEdit(g[s \ {Max(s)}], edits[Max(s)])
    <3>1. Max(s) \in 1..n  BY <1>1, <2>1, MaxOfPlaces
    <3>2. g[s \ {Max(s)}] \in Results(S)  BY <1>7
    <3> QED  BY <1>6, <3>1, <3>2
  <2> QED  BY <1>7, <2>1 DEF FoldsBy
<1>9. PICK c : Folds(c) /\ result = c[1..n]  BY <1>2, <1>8
<1>10. ASSUME NEW s \in SUBSET (1..n), s # {}, c[s \ {Max(s)}] \in Results(S)
       PROVE  c[s] = step[<<c[s \ {Max(s)}], Max(s)>>]
  <2>1. Max(s) \in 1..n  BY <1>1, <1>10, MaxOfPlaces
  <2>2. c[s] = ApplyEdit(c[s \ {Max(s)}], edits[Max(s)])  BY <1>9, <1>10
  <2> QED  BY <1>6, <1>10, <2>1, <2>2
<1>11. Follows(c, base, step, Results(S), n)  BY <1>1, <1>4, <1>5, <1>9, <1>10 DEF Follows
<1>12. PICK h \in [0..n -> Results(S)] : h[n] = c[1..n]
  <2>1. GoesAlong(c, base, step, Results(S), n)  BY ONLY <1>11, FoldsAlong, Zenon
  <2> QED  BY <2>1 DEF GoesAlong
<1>13. n \in 0..n  BY <1>1
<1>14. result \in Results(S)  BY <1>9, <1>12, <1>13
<1> QED  BY <1>14 DEF result, base

\* An accepted answer keeps what is before and after the selection, and is
\* saved as it is but for the sanitiser.
LEMMA CorrectKeeps == Correct => OutsideKept'
<1> SUFFICES ASSUME NEW t \in SeqsUpto(Chars, MaxText) \ {<<>>}, NEW html \in BOOLEAN,
                    NEW selection \in Selections(t), NEW answer \in ModelAnswers(t, html),
                    NEW raw, raw = ApplyEdits(t, answer).text, NEW new, new = ApplyAnswer(t, html, answer, selection),
                    submitted' = [of |-> "correction", text |-> t, html |-> html, selection |-> selection, raw |-> raw, new |-> new]
             PROVE  OutsideKept'
  BY DEF Correct, Submits
<1>1. ASSUME NEW S, NEW k \in Nat, NEW s \in SeqsUpto(S, k) PROVE s \in Seq(S)
  <2>1. PICK j \in 0..k : s \in [1..j -> S]  BY DEF SeqsUpto
  <2>2. j \in Nat  OBVIOUS
  <2> QED  BY <2>1, <2>2
<1> DEFINE S == Chars \cup {Escaped}
<1>2. t \in Seq(S) /\ MaxText \in Nat
  <2>1. MaxText \in Nat  BY AnswersAssumption
  <2>2. t \in Seq(Chars)  BY <1>1, <2>1
  <2> QED  BY <2>1, <2>2
<1>3. ASSUME NEW k \in Nat, NEW s \in SeqsUpto(Chars, k) PROVE s \in Seq(S)
  <2>1. s \in Seq(Chars)  BY <1>1
  <2> QED  BY <2>1
<1>4. answer.rewrite \in Seq(S)
  <2>1. answer.rewrite \in SeqsUpto(Chars, MaxText) \/ answer.rewrite = <<>>  BY DEF ModelAnswers
  <2>2. <<>> \in Seq(S)  OBVIOUS
  <2>3. CASE answer.rewrite \in SeqsUpto(Chars, MaxText)  BY <1>2, <1>3, <2>3
  <2>4. CASE answer.rewrite = <<>>  BY <2>2, <2>4
  <2> QED  BY <2>1, <2>3, <2>4
<1>5. \A edit \in Edits : edit.old \in Seq(S) /\ edit.new \in Seq(S)
  <2> SUFFICES ASSUME NEW edit \in Edits PROVE edit.old \in Seq(S) /\ edit.new \in Seq(S)  OBVIOUS
  <2>1. edit.old \in SeqsUpto(Chars, 2) /\ (edit.new = <<>> \/ edit.new = <<Escaped>>)  BY DEF Edits
  <2>2. <<>> \in Seq(S) /\ <<Escaped>> \in Seq(S)  OBVIOUS
  <2> HIDE DEF S
  <2> QED  BY <1>3, <2>1, <2>2
<1>6. \E n \in 0..2 : DOMAIN answer.edits = 1..n /\ \A i \in 1..n : answer.edits[i] \in Edits
  <2>1. \/ answer.edits = <<>> \/ \E one \in Edits : answer.edits = <<one>>
        \/ \E one \in Edits, two \in Edits : answer.edits = <<one, two>>
    BY DEF ModelAnswers
  <2>2. CASE answer.edits = <<>>
    <3>1. DOMAIN answer.edits = 1..0  BY <2>2
    <3> QED  BY <3>1
  <2>3. CASE \E one \in Edits : answer.edits = <<one>>
    <3>1. DOMAIN answer.edits = 1..1 /\ \A i \in 1..1 : answer.edits[i] \in Edits  BY <2>3
    <3> QED  BY <3>1
  <2>4. CASE \E one \in Edits, two \in Edits : answer.edits = <<one, two>>
    <3>1. DOMAIN answer.edits = 1..2 /\ \A i \in 1..2 : answer.edits[i] \in Edits  BY <2>4
    <3> QED  BY <3>1
  <2> QED  BY <2>1, <2>2, <2>3, <2>4
<1> HIDE DEF S
<1>7. ApplyEdits(t, answer) \in Results(S)
  <2>1. PICK n \in 0..2 : DOMAIN answer.edits = 1..n /\ \A i \in 1..n : answer.edits[i] \in Edits  BY <1>6
  <2>2. n \in Nat  OBVIOUS
  <2>3. FoldLeft(ApplyEdit, Taken(t), answer.edits) \in Results(S)  BY <1>2, <1>5, <2>1, <2>2, EditsGive
  <2>4. Taken(answer.rewrite) \in Results(S) /\ Refused \in Results(S)  BY <1>4 DEF Taken, Refused, Results
  <2> QED  BY <2>3, <2>4 DEF ApplyEdits
<1>8. ASSUME new.ok = TRUE PROVE raw \in Seq(S) /\ WithinSelection(t, raw, selection) /\ new.text = Clean(raw, t, html)
  <2>1. WithinSelection(t, raw, selection) /\ new = Taken(Clean(raw, t, html))  BY <1>8 DEF ApplyAnswer, Refused
  <2> QED  BY <1>7, <2>1 DEF Results, Taken
<1>9. ASSUME selection # <<>> PROVE selection \in Seq(S) /\ OccursOnce(t, selection)
  <2>1. selection \in SeqsUpto(Chars, 2) /\ OccursOnce(t, selection)  BY <1>9 DEF Selections
  <2> QED  BY <1>3, <2>1
<1>10. ASSUME new.ok = TRUE, selection # <<>>
       PROVE  raw = Before(t, selection)
                    \o SubSeq(raw, Len(Before(t, selection)) + 1, Len(raw) - Len(After(t, selection)))
                    \o After(t, selection)
  <2> DEFINE s == Before(t, selection)
             e == After(t, selection)
  <2>1. s \in Seq(S) /\ e \in Seq(S)  BY <1>2, <1>9, <1>10, AroundIs
  <2>2. raw \in Seq(S) /\ Len(raw) >= Len(s) + Len(e) /\ IsPrefix(s, raw) /\ IsSuffix(e, raw)
    BY <1>8, <1>10 DEF WithinSelection
  <2> HIDE DEF s, e
  <2>3. raw = s \o SubSeq(raw, Len(s) + 1, Len(raw) - Len(e)) \o e  BY <2>1, <2>2, BetweenEnds
  <2> QED  BY <2>3 DEF s, e
<1>11. new.ok = TRUE => new.text = raw \/ IsHtml(t, html) \/ IsHtml(raw, html)
  <2> SUFFICES ASSUME new.ok = TRUE PROVE new.text = raw \/ IsHtml(t, html) \/ IsHtml(raw, html)  OBVIOUS
  <2>1. new.text = Clean(raw, t, html)  BY <1>8
  <2> QED  BY <2>1 DEF Clean
<1>12. /\ submitted'.text = t /\ submitted'.html = html /\ submitted'.selection = selection
       /\ submitted'.raw = raw /\ submitted'.new = new
  OBVIOUS
<1> HIDE DEF S
<1> QED  BY <1>10, <1>11, <1>12 DEF OutsideKept

-----------------------------------------------------------------------------
(* questions                                                                 *)

\* Ids one after the other; the numbered ones are their own.
AnyIds == {"none", "a", "b"} \cup {NumberedId[k] : k \in Nat}
TakesIds(h, given) ==
    /\ h \in [0..Len(given) -> Seq(AnyIds)] /\ h[0] = <<>> /\ h[Len(given)] = Normalize(given)
    /\ \A k \in 0..(Len(given) - 1) : h[k + 1] = Append(h[k], NormalId(h[k], given[k + 1]))
\* Normalize takes the ids one after the other.
LEMMA NormalizeSteps ==
  ASSUME NEW given \in Seq({"none", "a", "b"})
  PROVE  \E h : TakesIds(h, given)
<1> DEFINE n == Len(given)
           V == Seq(AnyIds)
           More(ids, id) == Append(ids, NormalId(ids, id))
           Folds(c) == c = [s \in SUBSET (1..n) |-> IF s = {} THEN <<>> ELSE More(c[s \ {Max(s)}], given[Max(s)])]
           step == [vi \in V \X (1..n) |-> More(vi[1], given[vi[2]])]
<1>1. n \in Nat /\ DOMAIN given = 1..n /\ \A i \in 1..n : given[i] \in {"none", "a", "b"}  OBVIOUS
<1>2. Normalize(given) = (CHOOSE c : Folds(c))[1..n]  BY <1>1 DEF Normalize, FoldLeft, MapThenFoldSet
<1>3. ASSUME NEW ids \in V, NEW id \in {"none", "a", "b"} PROVE More(ids, id) \in V
  <2>1. Len(ids) + 1 \in Nat  OBVIOUS
  <2>2. NormalId(ids, id) \in AnyIds  BY <2>1 DEF NormalId, AnyIds
  <2> QED  BY <2>2
<1>4. step \in [V \X (1..n) -> V]  BY <1>1, <1>3
<1>5. ASSUME NEW v \in V, NEW i \in 1..n PROVE step[<<v, i>>] = More(v, given[i])  OBVIOUS
<1>6. <<>> \in V  OBVIOUS
<1> HIDE DEF step, n, V, More
<1>7. PICK g \in [SUBSET (1..n) -> V] : FoldsBy(g, <<>>, step, n)  BY <1>1, <1>4, <1>6, FoldExists
<1>8. Folds(g)
  <2>1. ASSUME NEW s \in SUBSET (1..n), s # {} PROVE step[<<g[s \ {Max(s)}], Max(s)>>] = More(g[s \ {Max(s)}], given[Max(s)])
    <3>1. Max(s) \in 1..n  BY <1>1, <2>1, MaxOfPlaces
    <3>2. g[s \ {Max(s)}] \in V  BY <1>7
    <3> QED  BY <1>5, <3>1, <3>2
  <2> QED  BY <1>7, <2>1 DEF FoldsBy
<1>9. PICK c : Folds(c) /\ Normalize(given) = c[1..n]  BY <1>2, <1>8
<1>10. ASSUME NEW s \in SUBSET (1..n), s # {}, c[s \ {Max(s)}] \in V
       PROVE  c[s] = step[<<c[s \ {Max(s)}], Max(s)>>]
  <2>1. Max(s) \in 1..n  BY <1>1, <1>10, MaxOfPlaces
  <2>2. c[s] = More(c[s \ {Max(s)}], given[Max(s)])  BY <1>9, <1>10
  <2> QED  BY <1>5, <1>10, <2>1, <2>2
<1>11. Follows(c, <<>>, step, V, n)  BY <1>1, <1>4, <1>6, <1>9, <1>10 DEF Follows
<1>12. PICK h \in [0..n -> V] :
          h[0] = <<>> /\ h[n] = c[1..n] /\ \A k \in 0..(n - 1) : h[k + 1] = step[<<h[k], k + 1>>]
  <2>1. GoesAlong(c, <<>>, step, V, n)  BY ONLY <1>11, FoldsAlong, Zenon
  <2> QED  BY <2>1 DEF GoesAlong
<1>13. ASSUME NEW k \in 0..(n - 1) PROVE h[k + 1] = More(h[k], given[k + 1])
  <2>1. k \in 0..n /\ k + 1 \in 1..n  BY <1>1
  <2>2. h[k] \in V  BY <2>1
  <2> QED  BY <1>5, <1>12, <2>1, <2>2
<1>14. TakesIds(h, given)  BY <1>9, <1>12, <1>13 DEF n, V, More, TakesIds
<1> QED  BY <1>14

\* The ids so far: as many as questions, each one's own, none twice.
OwnIds(ids, k) ==
    /\ ids \in Seq(AnyIds) /\ Len(ids) = k
    /\ \A i \in 1..k : ids[i] \in {"a", "b"} \/ ids[i] = NumberedId[i]
    /\ \A i, j \in 1..k : ids[i] = ids[j] => i = j
\* No two questions get the same id.
LEMMA IdsAreOwn ==
  ASSUME NEW given \in Seq({"none", "a", "b"}), Len(given) <= 3
  PROVE  OwnIds(Normalize(given), Len(given))
<1> DEFINE n == Len(given)
<1>1. n \in Nat /\ n <= 3  OBVIOUS
<1>2. PICK h : TakesIds(h, given)  BY NormalizeSteps
<1>3. /\ h \in [0..n -> Seq(AnyIds)] /\ h[0] = <<>> /\ h[n] = Normalize(given)
      /\ \A k \in 0..(n - 1) : h[k + 1] = Append(h[k], NormalId(h[k], given[k + 1]))
  BY <1>2 DEF TakesIds
<1>4. OwnIds(h[0], 0)
  <2>1. <<>> \in Seq(AnyIds) /\ Len(<<>>) = 0  OBVIOUS
  <2> QED  BY <1>3, <2>1 DEF OwnIds
<1>5. ASSUME NEW k \in 0..(n - 1), OwnIds(h[k], k) PROVE OwnIds(h[k + 1], k + 1)
  <2> DEFINE ids == h[k]
             id == NormalId(ids, given[k + 1])
             more == Append(ids, id)
  <2>1. k \in 0..2 /\ k + 1 \in 1..n /\ k + 1 \in 1..3 /\ k + 1 \in 0..n  BY <1>1
  <2>2. /\ ids \in Seq(AnyIds) /\ Len(ids) = k /\ (\A i \in 1..k : ids[i] \in {"a", "b"} \/ ids[i] = NumberedId[i])
        /\ \A i, j \in 1..k : ids[i] = ids[j] => i = j
    BY <1>5 DEF OwnIds
  <2>3. id \in {"a", "b"} \/ id = NumberedId[k + 1]
    <3>1. given[k + 1] \in {"none", "a", "b"}  BY <2>1
    <3> QED  BY <2>2, <3>1 DEF NormalId
  <2>4. \A i \in 1..k : ids[i] # id
    <3> SUFFICES ASSUME NEW i \in 1..k PROVE ids[i] # id  OBVIOUS
    <3>1. CASE given[k + 1] # "none" /\ ~Contains(ids, given[k + 1])
      <4>1. id = given[k + 1] /\ \A j \in 1..k : ids[j] # given[k + 1]  BY <2>2, <3>1 DEF NormalId, Contains
      <4> QED  BY <4>1
    <3>2. CASE ~(given[k + 1] # "none" /\ ~Contains(ids, given[k + 1]))
      <4>1. id = NumberedId[k + 1]  BY <2>2, <3>2 DEF NormalId
      <4>2. i \in 1..3 /\ i # k + 1  BY <2>1
      <4>3. NumberedId[k + 1] \notin {"a", "b"} /\ NumberedId[i] # NumberedId[k + 1]
        <5>1. NumberedId[1] = "q1" /\ NumberedId[2] = "q2" /\ NumberedId[3] = "q3"  BY DEF NumberedId
        <5>2. (k + 1 = 1 \/ k + 1 = 2 \/ k + 1 = 3) /\ (i = 1 \/ i = 2 \/ i = 3)  BY <2>1, <4>2
        <5> QED  BY <4>2, <5>1, <5>2
      <4> QED  BY <2>2, <4>1, <4>3
    <3> QED  BY <3>1, <3>2
  <2>5. more \in Seq(AnyIds) /\ h[k + 1] = more  BY <1>3, <2>1
  <2> HIDE DEF ids, id
  <2>6. Len(more) = k + 1 /\ more[k + 1] = id /\ \A i \in 1..k : more[i] = ids[i]
    <3>1. id \in AnyIds  BY <2>1, <2>3 DEF AnyIds
    <3> QED  BY <2>1, <2>2, <3>1
  <2> HIDE DEF more
  <2>7. \A i \in 1..(k + 1) : i = k + 1 \/ i \in 1..k  BY <2>1
  <2>8. \A i \in 1..(k + 1) : more[i] \in {"a", "b"} \/ more[i] = NumberedId[i]  BY <2>2, <2>3, <2>6, <2>7
  <2>9. \A i, j \in 1..(k + 1) : more[i] = more[j] => i = j  BY <2>2, <2>4, <2>6, <2>7
  <2> QED  BY <2>5, <2>6, <2>8, <2>9 DEF OwnIds
<1>6. n = 0 \/ n = 1 \/ n = 2 \/ n = 3
  <2> HIDE DEF n
  <2> QED  BY <1>1
<1>7. CASE n = 0  BY <1>3, <1>4, <1>7
<1>8. CASE n = 1
  <2>1. n \in Int /\ n = 1  BY <1>1, <1>8
  <2>3. n - 1 = 0  BY <2>1
  <2>2. 0 \in 0..0 /\ 0 + 1 = 1  OBVIOUS
  <2> QED  BY <1>3, <1>4, <1>5, <1>8, <2>3, <2>2
<1>9. CASE n = 2
  <2>1. 0 \in 0..(n - 1) /\ 0 + 1 = 1 /\ 1 \in 0..(n - 1) /\ 1 + 1 = 2  BY <1>9
  <2>2. OwnIds(h[1], 1)  BY <1>4, <1>5, <2>1
  <2> QED  BY <1>3, <1>5, <1>9, <2>1, <2>2
<1>10. CASE n = 3
  <2>1. 0 \in 0..(n - 1) /\ 0 + 1 = 1 /\ 1 \in 0..(n - 1) /\ 1 + 1 = 2 /\ 2 \in 0..(n - 1) /\ 2 + 1 = 3  BY <1>10
  <2>2. OwnIds(h[1], 1)  BY <1>4, <1>5, <2>1
  <2>3. OwnIds(h[2], 2)  BY <1>5, <2>1, <2>2
  <2> QED  BY <1>3, <1>5, <1>10, <2>1, <2>3
<1> QED  BY <1>6, <1>7, <1>8, <1>9, <1>10

\* As many answers as asked for, or all of them; nothing missing is enough.
LEMMA EnoughAnswers ==
  ASSUME NEW n \in Nat, NEW m \in Nat, NEW a \in Nat, a = n - m, NEW minimum \in Nat
  PROVE  /\ minimum = 0 \/ n - m >= (IF minimum < n THEN minimum ELSE n) => minimum <= a \/ a = n
         /\ m = 0 => n - m >= (IF minimum < n THEN minimum ELSE n)
  OBVIOUS

\* The questions that are answered.
Answered(questions, answers) == {i \in DOMAIN questions : answers[questions[i].id] # "none"}
\* Stripping blanks leaves an answer where there was one.
LEMMA StrippedIs ==
  ASSUME NEW given
  PROVE  (Stripped(given) = "none" <=> given = "none") /\ (given # "padded" => Stripped(given) = given)
BY DEF Stripped

\* An answered question is not missing, and leaves one entry.
LEMMA AnswersCounted ==
  ASSUME NEW T, NEW questions \in Seq(T), NEW answers
  PROVE  LET missing == Unanswered(questions, answers)
             answered == Answered(questions, answers)
             n == Len(questions)
         IN /\ Len(RecordAnswers(questions, answers)) = Cardinality(answered)
            /\ n \in Nat /\ Cardinality(missing) \in Nat /\ Cardinality(answered) = n - Cardinality(missing)
            /\ Cardinality(answered) \in Nat /\ (Cardinality(answered) = n => answered = DOMAIN questions)
<1> DEFINE n == Len(questions)
           D == DOMAIN questions
           missing == Unanswered(questions, answers)
           answered == Answered(questions, answers)
           kept == {q \in ToSet(questions) : Stripped(answers[q.id]) # "none"}
<1>1. n \in Nat /\ D = 1..n  OBVIOUS
<1>2. IsFiniteSet(D) /\ Cardinality(D) = n  BY <1>1, CountUpto
<1>3. missing \in SUBSET D /\ answered \in SUBSET D /\ D \ missing = answered /\ D \cap missing = missing
  BY StrippedIs DEF Unanswered, Answered
<1>4. RecordAnswers(questions, answers) = Those(questions, kept)  BY DEF RecordAnswers
<1>5. {i \in 1..Len(questions) : questions[i] \in kept} = answered  BY <1>1, StrippedIs DEF ToSet, Answered
<1> HIDE DEF missing, answered, kept, D, n
<1>6. Len(Those(questions, kept)) = Cardinality({i \in 1..Len(questions) : questions[i] \in kept})  BY ThoseCount
<1>7. IsFiniteSet(missing) /\ IsFiniteSet(answered)  BY <1>2, <1>3, FS_Subset
<1>8. Cardinality(D \ missing) = Cardinality(D) - Cardinality(D \cap missing)  BY <1>2, FS_Difference
<1>9. Cardinality(answered) = Cardinality(D) => answered = D  BY <1>2, <1>3, FS_Subset
<1>10. Cardinality(missing) \in Nat /\ Cardinality(answered) \in Nat  BY <1>7, FS_CardinalityType
<1> QED  BY <1>1, <1>2, <1>3, <1>4, <1>5, <1>6, <1>8, <1>9, <1>10 DEF missing, answered, n, D

\* What a question shows, or any answer where it shows nothing.
AsShown(question, answer) ==
    answer # "none" /\ (question.choices = {} \/ answer \in question.choices \ {"padded"})
\* Accepted answers are as many as asked for, or all; what is shown is accepted.
LEMMA EnoughIsAsked ==
  ASSUME NEW T, NEW questions \in Seq(T), NEW answers, NEW minimum \in Nat
  PROVE  /\ ValidAnswers(questions, answers, minimum) =>
              minimum <= Cardinality(Answered(questions, answers)) \/ Answered(questions, answers) = DOMAIN questions
         /\ (\A i \in DOMAIN questions : AsShown(questions[i], answers[questions[i].id])) => ValidAnswers(questions, answers, minimum)
<1> DEFINE n == Len(questions)
           missing == Unanswered(questions, answers)
           m == Cardinality(missing)
           a == Cardinality(Answered(questions, answers))
           least == IF minimum < n THEN minimum ELSE n
<1>1. n \in Nat /\ m \in Nat /\ a = n - m /\ a \in Nat /\ (a = n => Answered(questions, answers) = DOMAIN questions)
  BY AnswersCounted
<1>2. Minimum(questions, minimum) = least  BY DEF Minimum
<1>3. ValidAnswers(questions, answers, minimum) <=>
        /\ IF minimum > 0 THEN n - m >= least ELSE \A i \in missing : questions[i].optional
        /\ \A i \in DOMAIN questions \ missing :
              questions[i].choices = {} \/ Stripped(answers[questions[i].id]) \in questions[i].choices
  BY <1>2 DEF ValidAnswers
<1>4. /\ minimum = 0 \/ n - m >= least => minimum <= a \/ a = n
      /\ m = 0 => n - m >= least
  <2> HIDE DEF n, m, a
  <2> QED  BY <1>1, EnoughAnswers
<1>5. minimum = 0 \/ minimum > 0  OBVIOUS
<1>6. ASSUME \A i \in DOMAIN questions : AsShown(questions[i], answers[questions[i].id]) PROVE m = 0 /\ missing = {}
  <2>1. missing = {}  BY <1>6, StrippedIs DEF Unanswered, AsShown
  <2> QED  BY <2>1, FS_EmptySet
<1> HIDE DEF n, m, a, least, missing
<1>7. ASSUME ValidAnswers(questions, answers, minimum) PROVE minimum <= a \/ Answered(questions, answers) = DOMAIN questions
  <2>1. minimum > 0 => n - m >= least  BY <1>3, <1>7
  <2> QED  BY <1>1, <1>4, <1>5, <2>1
<1>8. ASSUME \A i \in DOMAIN questions : AsShown(questions[i], answers[questions[i].id]) PROVE ValidAnswers(questions, answers, minimum)
  <2>1. n - m >= least /\ missing = {}  BY <1>4, <1>6, <1>8
  <2>2. \A i \in DOMAIN questions : questions[i].choices = {} \/ Stripped(answers[questions[i].id]) \in questions[i].choices
    BY <1>8, StrippedIs DEF AsShown
  <2> QED  BY <1>3, <2>1, <2>2
<1> QED  BY <1>7, <1>8 DEF a

\* The questions of a step have the ids it was given, each its own.
Asks(given, choices, optional) ==
    [i \in DOMAIN given |->
        [id |-> Normalize(given)[i], choices |-> IF i = 1 THEN choices ELSE {}, optional |-> optional]]
\* Every question has one of the ids made for the step, and no two have the same.
LEMMA QuestionsHaveIds ==
  ASSUME NEW given \in SeqsUpto({"none", "a", "b"}, 3), NEW choices, NEW optional,
         NEW questions, questions = Asks(given, choices, optional)
  PROVE  /\ \E T : questions \in Seq(T)
         /\ \A i \in DOMAIN questions : questions[i].id \in ToSet(Normalize(given))
         /\ \A i, j \in DOMAIN questions : questions[i].id = questions[j].id => i = j
<1> DEFINE ids == Normalize(given)
           n == Len(given)
<1>1. given \in Seq({"none", "a", "b"}) /\ n \in Nat /\ n <= 3 /\ DOMAIN given = 1..n
  <2>1. PICK k \in 0..3 : given \in [1..k -> {"none", "a", "b"}]  BY DEF SeqsUpto
  <2>2. k \in Nat  OBVIOUS
  <2> QED  BY <2>1, <2>2
<1>2. /\ ids \in Seq(AnyIds) /\ DOMAIN ids = 1..n /\ \A i, j \in 1..n : ids[i] = ids[j] => i = j
  BY <1>1, IdsAreOwn DEF OwnIds
<1>3. \A i \in 1..n : ids[i] \in ToSet(ids)  BY <1>2 DEF ToSet
<1>4. DOMAIN questions = 1..n /\ \A i \in 1..n : questions[i].id = ids[i]  BY <1>1 DEF Asks
<1>5. questions \in Seq({questions[i] : i \in 1..n})
  <2>1. questions = [i \in 1..n |-> questions[i]]  BY <1>1 DEF Asks
  <2> QED  BY <1>1, <2>1
<1> HIDE DEF ids
<1>6. \E T : questions \in Seq(T)  BY <1>5
<1>7. \A i, j \in DOMAIN questions : questions[i].id = questions[j].id => i = j  BY <1>2, <1>4
<1>8. \A i \in DOMAIN questions : questions[i].id \in ToSet(ids)  BY <1>3, <1>4
<1> QED  BY <1>6, <1>7, <1>8 DEF ids

\* A minimum is a number.
LEMMA MinimumIs ==
  ASSUME NEW minimum \in {0, 2}
  PROVE  minimum \in Nat
  OBVIOUS

\* Accepted answers are heard, and answering everything is accepted.
LEMMA QuestionsAnswered == AnswerQuestions => AnswersHeard'
<1> DEFINE Case(questions, answers, minimum) ==
               [of |-> "questions", questions |-> questions, answers |-> answers, minimum |-> minimum,
                ok |-> ValidAnswers(questions, answers, minimum), entries |-> RecordAnswers(questions, answers)]
<1> SUFFICES ASSUME AnswerQuestions PROVE AnswersHeard'  OBVIOUS
<1>1. PICK given \in SeqsUpto({"none", "a", "b"}, 3), minimum \in {0, 2}, optional \in BOOLEAN,
           choices \in SUBSET {"choice", "padded"} :
          \E answers \in [ToSet(Normalize(given)) -> {"none", "choice", "padded", "own"}] :
             submitted' = Case(Asks(given, choices, optional), answers, minimum)
  BY Zenon DEF AnswerQuestions, Submits, Asks
<1>2. PICK answers \in [ToSet(Normalize(given)) -> {"none", "choice", "padded", "own"}] :
          submitted' = Case(Asks(given, choices, optional), answers, minimum)
  BY <1>1
<1>0. PICK questions : questions = Asks(given, choices, optional)  OBVIOUS
<1>3. /\ \E T : questions \in Seq(T)
      /\ \A i \in DOMAIN questions : questions[i].id \in ToSet(Normalize(given))
      /\ \A i, j \in DOMAIN questions : questions[i].id = questions[j].id => i = j
  <2>1. given \in SeqsUpto({"none", "a", "b"}, 3)  OBVIOUS
  <2> QED  BY ONLY <1>0, <2>1, QuestionsHaveIds, SMT
<1>4. minimum \in Nat
  <2>1. minimum \in {0, 2}  OBVIOUS
  <2> QED  BY ONLY <2>1, MinimumIs, Zenon
<1>5. DOMAIN answers = ToSet(Normalize(given))  OBVIOUS
<1>6. submitted' = Case(questions, answers, minimum)  BY <1>0, <1>2
<1>7. /\ submitted'.of = "questions" /\ submitted'.questions = questions /\ submitted'.answers = answers /\ submitted'.minimum = minimum
      /\ submitted'.ok = ValidAnswers(questions, answers, minimum)
      /\ submitted'.entries = RecordAnswers(questions, answers)
  BY ONLY <1>6
<1>8. PICK T : questions \in Seq(T)  BY <1>3
<1> DEFINE answered == Answered(questions, answers)
           ok == ValidAnswers(questions, answers, minimum)
           entries == RecordAnswers(questions, answers)
<1>9. Len(entries) = Cardinality(answered)  BY ONLY <1>8, AnswersCounted, Zenon
<1>10. /\ ok => minimum <= Cardinality(answered) \/ answered = DOMAIN questions
       /\ (\A i \in DOMAIN questions : AsShown(questions[i], answers[questions[i].id])) => ok
  BY ONLY <1>4, <1>8, EnoughIsAsked, Zenon
<1>11. (\A i \in DOMAIN questions : LET answer == answers[questions[i].id]
                                   IN answer # "none" /\ (questions[i].choices = {} \/ answer \in questions[i].choices \ {"padded"})) => ok
  BY ONLY <1>10, Zenon DEF AsShown
<1>12. ok \in BOOLEAN  BY Zenon DEF ValidAnswers
<1> HIDE DEF ok, entries
<1>13. /\ submitted'.ok = ok /\ submitted'.entries = entries  BY ONLY <1>7 DEF ok, entries
<1> QED  BY ONLY <1>3, <1>7, <1>9, <1>10, <1>11, <1>12, <1>13, Zenon DEF AnswersHeard, answered, Answered

-----------------------------------------------------------------------------
(* the pages of an import                                                    *)

\* The members of a list after the first off of them, p at most.
Upto(s, off, p) == IF Len(s) < off + p THEN Len(s) ELSE off + p
Window(s, off, p) == SubSeq(s, off + 1, Upto(s, off, p))
\* A page is as long as what is left of the list, at most p, and starts after the first off.
LEMMA WindowIs ==
  ASSUME NEW s \in Seq(Nat), NEW off \in Nat, NEW p \in Nat
  PROVE  /\ Window(s, off, p) \in Seq(Nat)
         /\ Len(Window(s, off, p)) = IF Len(s) <= off THEN 0 ELSE IF Len(s) < off + p THEN Len(s) - off ELSE p
         /\ \A i \in 1..Len(Window(s, off, p)) : Window(s, off, p)[i] = s[off + i]
<1> DEFINE m == Upto(s, off, p)
           w == Window(s, off, p)
<1>1. Len(s) \in Nat /\ m \in Nat /\ m <= Len(s) /\ off + 1 \in 1..(off + 1) /\ w = SubSeq(s, off + 1, m)
  BY DEF Upto, Window
<1>2. m = IF Len(s) < off + p THEN Len(s) ELSE off + p  BY DEF Upto
<1> HIDE DEF m, w
<1>3. w \in Seq(Nat) /\ Len(w) = (IF off + 1 <= m THEN m - (off + 1) + 1 ELSE 0) /\ \A i \in 1..Len(w) : w[i] = s[(off + 1) + i - 1]
  <2>1. \A i \in (off + 1)..m : s[i] \in Nat  BY <1>1
  <2> QED  BY <1>1, <2>1
<1>4. Len(w) = IF Len(s) <= off THEN 0 ELSE IF Len(s) < off + p THEN Len(s) - off ELSE p
  BY <1>1, <1>2, <1>3
<1>5. \A i \in Nat : (off + 1) + i - 1 = off + i  OBVIOUS
<1>6. \A i \in 1..Len(w) : i \in Nat  BY <1>3
<1> QED  BY <1>3, <1>4, <1>5, <1>6 DEF w

\* How long a window is before and after one more member.
LEMMA WindowLengths ==
  ASSUME NEW n \in Nat, NEW off \in Nat, NEW p \in Nat \ {0},
         NEW lo, lo = (IF n <= off THEN 0 ELSE IF n < off + p THEN n - off ELSE p),
         NEW ln, ln = (IF n + 1 <= off THEN 0 ELSE IF n + 1 < off + p THEN n + 1 - off ELSE p)
  PROVE  /\ lo \in Nat /\ ln \in Nat /\ (lo >= p <=> n >= off + p)
         /\ n >= off + p => ln = p /\ lo = p
         /\ n < off + p /\ n >= off => lo = n - off /\ ln = lo + 1 /\ off + (lo + 1) = n + 1
         /\ n < off => ln = 0 /\ lo = 0
  OBVIOUS

\* One more member: it is in the window, before it or after it.
LEMMA WindowMore ==
  ASSUME NEW s \in Seq(Nat), NEW x \in Nat, NEW off \in Nat, NEW p \in Nat \ {0}
  PROVE  LET more == Append(s, x)
         IN /\ Len(Window(s, off, p)) >= p <=> Len(s) >= off + p
            /\ Len(s) >= off + p => Window(more, off, p) = Window(s, off, p) /\ Upto(more, off, p) = Upto(s, off, p)
            /\ Len(s) < off + p =>
                 /\ Upto(s, off, p) = Len(s) /\ Upto(more, off, p) = Len(s) + 1
                 /\ Window(more, off, p) = IF Len(s) >= off THEN Append(Window(s, off, p), x) ELSE Window(s, off, p)
<1> DEFINE more == Append(s, x)
           old == Window(s, off, p)
           new == Window(more, off, p)
<1>1. more \in Seq(Nat) /\ Len(more) = Len(s) + 1 /\ (\A i \in 1..Len(s) : more[i] = s[i]) /\ more[Len(s) + 1] = x /\ Len(s) \in Nat
  OBVIOUS
<1>2. /\ old \in Seq(Nat) /\ (\A i \in 1..Len(old) : old[i] = s[off + i])
      /\ Len(old) = IF Len(s) <= off THEN 0 ELSE IF Len(s) < off + p THEN Len(s) - off ELSE p
  BY WindowIs
<1> HIDE DEF more, old
<1>3. /\ new \in Seq(Nat) /\ (\A i \in 1..Len(new) : new[i] = more[off + i])
      /\ Len(new) = IF Len(more) <= off THEN 0 ELSE IF Len(more) < off + p THEN Len(more) - off ELSE p
  BY <1>1, WindowIs
<1> HIDE DEF new
<1>0. /\ Len(old) \in Nat /\ Len(new) \in Nat /\ (Len(old) >= p <=> Len(s) >= off + p)
      /\ Len(s) >= off + p => Len(new) = p /\ Len(old) = p
      /\ Len(s) < off + p /\ Len(s) >= off =>
            Len(old) = Len(s) - off /\ Len(new) = Len(old) + 1 /\ off + (Len(old) + 1) = Len(s) + 1
      /\ Len(s) < off => Len(new) = 0 /\ Len(old) = 0
  <2> DEFINE n == Len(s)
             lo == Len(old)
             ln == Len(new)
  <2>1. n \in Nat /\ lo = (IF n <= off THEN 0 ELSE IF n < off + p THEN n - off ELSE p)  BY <1>1, <1>2
  <2>2. ln = (IF n + 1 <= off THEN 0 ELSE IF n + 1 < off + p THEN n + 1 - off ELSE p)  BY <1>1, <1>3
  <2> HIDE DEF n, lo, ln
  <2>3. /\ lo \in Nat /\ ln \in Nat /\ (lo >= p <=> n >= off + p)
        /\ n >= off + p => ln = p /\ lo = p
        /\ n < off + p /\ n >= off => lo = n - off /\ ln = lo + 1 /\ off + (lo + 1) = n + 1
        /\ n < off => ln = 0 /\ lo = 0
    BY <2>1, <2>2, WindowLengths
  <2> QED  BY <2>3 DEF n, lo, ln
<1>4. Len(old) >= p <=> Len(s) >= off + p  BY <1>0
<1>5. ASSUME Len(s) >= off + p PROVE new = old /\ Upto(more, off, p) = Upto(s, off, p)
  <2>1. Len(new) = p /\ Len(old) = p  BY <1>0, <1>5
  <2>2. \A i \in 1..p : off + i \in 1..Len(s)  BY <1>1, <1>5
  <2>3. \A i \in 1..p : new[i] = old[i]  BY <1>1, <1>2, <1>3, <2>1, <2>2
  <2>4. new = old  BY <1>2, <1>3, <2>1, <2>3, SeqEqual
  <2>5. Upto(more, off, p) = Upto(s, off, p)  BY <1>1, <1>5 DEF Upto
  <2> QED  BY <2>4, <2>5
<1>6. ASSUME Len(s) < off + p PROVE Upto(s, off, p) = Len(s) /\ Upto(more, off, p) = Len(s) + 1
  BY <1>1, <1>6 DEF Upto
<1>7. ASSUME Len(s) < off + p, Len(s) >= off PROVE new = Append(old, x)
  <2>1. Len(old) = Len(s) - off /\ Len(new) = Len(old) + 1 /\ off + (Len(old) + 1) = Len(s) + 1 /\ Len(old) \in Nat
    BY <1>0, <1>7
  <2>2. \A i \in 1..Len(old) : off + i \in 1..Len(s)  BY <1>1, <2>1
  <2>9. \A i \in 1..Len(old) : i \in 1..Len(new)  BY <2>1
  <2>3. \A i \in 1..Len(old) : new[i] = old[i]
    <3> SUFFICES ASSUME NEW i \in 1..Len(old) PROVE new[i] = old[i]  OBVIOUS
    <3>1. new[i] = more[off + i]  BY <1>3, <2>9
    <3>2. more[off + i] = s[off + i]  BY <1>1, <2>2
    <3>3. old[i] = s[off + i]  BY <1>2
    <3> QED  BY <3>1, <3>2, <3>3
  <2>4. new[Len(old) + 1] = x
    <3>1. Len(old) + 1 \in 1..Len(new)  BY <2>1
    <3> QED  BY <1>1, <1>3, <2>1, <3>1
  <2> DEFINE then == Append(old, x)
  <2>5. then \in Seq(Nat) /\ Len(then) = Len(old) + 1 /\ (\A i \in 1..Len(old) : then[i] = old[i]) /\ then[Len(old) + 1] = x
    BY <1>2
  <2> HIDE DEF then
  <2>6. \A i \in 1..(Len(old) + 1) : i \in 1..Len(old) \/ i = Len(old) + 1  BY <2>1
  <2>7. \A i \in 1..Len(new) : new[i] = then[i]  BY <2>1, <2>3, <2>4, <2>5, <2>6
  <2>8. new = then  BY <1>3, <2>1, <2>5, <2>7, SeqEqual
  <2> QED  BY <2>8 DEF then
<1>8. ASSUME Len(s) < off + p, Len(s) < off PROVE new = old
  <2>1. Len(new) = 0 /\ Len(old) = 0  BY <1>0, <1>8
  <2> QED  BY <1>2, <1>3, <2>1
<1>9. Len(s) >= off \/ Len(s) < off  BY <1>1
<1>10. ASSUME Len(s) < off PROVE ~(Len(s) >= off)  BY <1>1, <1>10
<1> QED  BY <1>4, <1>5, <1>6, <1>7, <1>8, <1>9, <1>10 DEF more, old, new

\* One row of a page after the other.
PageSoFar == [line : Nat, matched : Nat, targets : Seq(Nat)]
NextRow(acc, row, type, page) ==
    IF row # type \/ Len(acc.targets) >= PageSize THEN [acc EXCEPT !.line = @ + 1]
    ELSE [line |-> acc.line + 1, matched |-> acc.matched + 1,
          targets |-> IF acc.matched >= Offset(page) THEN Append(acc.targets, acc.line) ELSE acc.targets]
NoRows == [line |-> 1, matched |-> 0, targets |-> <<>>]
TakesRows(h, rows, type, page) ==
    /\ h \in [0..Len(rows) -> PageSoFar] /\ h[0] = NoRows /\ h[Len(rows)].targets = StreamTargets(rows, type, page)
    /\ \A k \in 0..(Len(rows) - 1) : h[k + 1] = NextRow(h[k], rows[k + 1], type, page)
\* stream_targets takes the rows one after the other.
LEMMA PageSteps ==
  ASSUME NEW T, NEW rows \in Seq(T), NEW type, NEW page
  PROVE  \E h : TakesRows(h, rows, type, page)
<1> DEFINE n == Len(rows)
           V == PageSoFar
           More(acc, row) == NextRow(acc, row, type, page)
           Folds(c) == c = [s \in SUBSET (1..n) |-> IF s = {} THEN NoRows ELSE More(c[s \ {Max(s)}], rows[Max(s)])]
           step == [vi \in V \X (1..n) |-> More(vi[1], rows[vi[2]])]
<1>1. n \in Nat /\ DOMAIN rows = 1..n /\ \A i \in 1..n : rows[i] \in T  OBVIOUS
<1>2. StreamTargets(rows, type, page) = (CHOOSE c : Folds(c))[1..n].targets
  BY <1>1 DEF StreamTargets, FoldLeft, MapThenFoldSet, NextRow, NoRows
<1>3. ASSUME NEW acc \in V, NEW row PROVE More(acc, row) \in V
  <2>1. acc.line + 1 \in Nat /\ acc.matched + 1 \in Nat /\ Append(acc.targets, acc.line) \in Seq(Nat)  BY DEF PageSoFar
  <2>2. [acc EXCEPT !.line = @ + 1] \in PageSoFar  BY <2>1 DEF PageSoFar
  <2>3. \A targets \in {acc.targets, Append(acc.targets, acc.line)} :
            [line |-> acc.line + 1, matched |-> acc.matched + 1, targets |-> targets] \in PageSoFar
    BY <2>1 DEF PageSoFar
  <2> QED  BY <2>2, <2>3 DEF NextRow
<1>4. step \in [V \X (1..n) -> V]  BY <1>1, <1>3
<1>5. ASSUME NEW v \in V, NEW i \in 1..n PROVE step[<<v, i>>] = More(v, rows[i])  OBVIOUS
<1>6. NoRows \in V
  <2>1. <<>> \in Seq(Nat)  OBVIOUS
  <2> QED  BY <2>1 DEF NoRows, PageSoFar
<1> HIDE DEF step, n, V, More
<1>7. PICK g \in [SUBSET (1..n) -> V] : FoldsBy(g, NoRows, step, n)  BY <1>1, <1>4, <1>6, FoldExists
<1>8. Folds(g)
  <2>1. ASSUME NEW s \in SUBSET (1..n), s # {} PROVE step[<<g[s \ {Max(s)}], Max(s)>>] = More(g[s \ {Max(s)}], rows[Max(s)])
    <3>1. Max(s) \in 1..n  BY <1>1, <2>1, MaxOfPlaces
    <3>2. g[s \ {Max(s)}] \in V  BY <1>7
    <3> QED  BY <1>5, <3>1, <3>2
  <2> QED  BY <1>7, <2>1 DEF FoldsBy
<1>9. PICK c : Folds(c) /\ StreamTargets(rows, type, page) = c[1..n].targets  BY <1>2, <1>8
<1>10. ASSUME NEW s \in SUBSET (1..n), s # {}, c[s \ {Max(s)}] \in V
       PROVE  c[s] = step[<<c[s \ {Max(s)}], Max(s)>>]
  <2>1. Max(s) \in 1..n  BY <1>1, <1>10, MaxOfPlaces
  <2>2. c[s] = More(c[s \ {Max(s)}], rows[Max(s)])  BY <1>9, <1>10
  <2> QED  BY <1>5, <1>10, <2>1, <2>2
<1>11. Follows(c, NoRows, step, V, n)  BY <1>1, <1>4, <1>6, <1>9, <1>10 DEF Follows
<1>12. PICK h \in [0..n -> V] :
          h[0] = NoRows /\ h[n] = c[1..n] /\ \A k \in 0..(n - 1) : h[k + 1] = step[<<h[k], k + 1>>]
  <2>1. GoesAlong(c, NoRows, step, V, n)  BY ONLY <1>11, FoldsAlong, Zenon
  <2> QED  BY <2>1 DEF GoesAlong
<1>13. ASSUME NEW k \in 0..(n - 1) PROVE h[k + 1] = More(h[k], rows[k + 1])
  <2>1. k \in 0..n /\ k + 1 \in 1..n  BY <1>1
  <2>2. h[k] \in V  BY <2>1
  <2> QED  BY <1>5, <1>12, <2>1, <2>2
<1>14. TakesRows(h, rows, type, page)  BY <1>9, <1>12, <1>13 DEF n, V, More, TakesRows
<1> QED  BY <1>14

\* The places of the rows of a type, in order.
Places(rows) == [i \in DOMAIN rows |-> i]
OfType(rows, type) == {i \in DOMAIN rows : rows[i] = type}

\* A page so far: what a window on the places so far has.
PageSoFarIs(acc, kept, k, off) ==
    acc = [line |-> k + 1, matched |-> Upto(kept, off, PageSize), targets |-> Window(kept, off, PageSize)]

\* One more row keeps a page a window on the places so far.
LEMMA NextRowIs ==
  ASSUME NEW row, NEW type, NEW page, NEW k \in Nat, NEW kept \in Seq(Nat), Offset(page) \in Nat,
         NEW acc, PageSoFarIs(acc, kept, k, Offset(page)),
         NEW more, more = IF row = type THEN Append(kept, k + 1) ELSE kept
  PROVE  PageSoFarIs(NextRow(acc, row, type, page), more, k + 1, Offset(page))
<1> DEFINE off == Offset(page)
           w == Window(kept, off, PageSize)
           m == Upto(kept, off, PageSize)
           x == k + 1
<1>1. /\ PageSize \in Nat \ {0} /\ off \in Nat /\ x \in Nat /\ x + 1 \in Nat  BY AnswersAssumption
<1>2. /\ Len(w) >= PageSize <=> Len(kept) >= off + PageSize
      /\ Len(kept) >= off + PageSize =>
           Window(Append(kept, x), off, PageSize) = w /\ Upto(Append(kept, x), off, PageSize) = m
      /\ Len(kept) < off + PageSize =>
           /\ m = Len(kept) /\ Upto(Append(kept, x), off, PageSize) = Len(kept) + 1
           /\ Window(Append(kept, x), off, PageSize) = IF Len(kept) >= off THEN Append(w, x) ELSE w
  <2>1. kept \in Seq(Nat)  OBVIOUS
  <2> HIDE DEF off, x
  <2> QED  BY ONLY <1>1, <2>1, WindowMore DEF w, m
<1>3. acc = [line |-> x, matched |-> m, targets |-> w]  BY DEF PageSoFarIs
<1>4. Len(kept) \in Nat  OBVIOUS
<1>5. Len(kept) >= off + PageSize \/ Len(kept) < off + PageSize  BY <1>1, <1>4
<1>6. Len(kept) < off + PageSize => ~(Len(kept) >= off + PageSize)  BY <1>1, <1>4
<1>7. acc.line = x /\ acc.matched = m /\ acc.targets = w /\ [acc EXCEPT !.line = @ + 1] = [line |-> x + 1, matched |-> m, targets |-> w]
  BY <1>3
<1> HIDE DEF off, w, m, x
<1>8. CASE row # type
  <2>1. NextRow(acc, row, type, page) = [line |-> x + 1, matched |-> m, targets |-> w] /\ more = kept  BY <1>7, <1>8 DEF NextRow
  <2> QED  BY <2>1 DEF PageSoFarIs, off, w, m, x
<1>9. CASE row = type /\ Len(kept) >= off + PageSize
  <2>1. NextRow(acc, row, type, page) = [line |-> x + 1, matched |-> m, targets |-> w]  BY <1>2, <1>7, <1>9 DEF NextRow
  <2>2. more = Append(kept, x)  BY <1>9 DEF x
  <2>3. Window(more, off, PageSize) = w /\ Upto(more, off, PageSize) = m  BY <1>2, <1>9, <2>2
  <2> QED  BY <2>1, <2>3 DEF PageSoFarIs, off, x
<1>10. CASE row = type /\ Len(kept) < off + PageSize
  <2>1. ~(Len(w) >= PageSize)  BY <1>2, <1>6, <1>10
  <2>2. NextRow(acc, row, type, page) =
          [line |-> x + 1, matched |-> m + 1, targets |-> IF m >= off THEN Append(w, x) ELSE w]
    BY <1>7, <1>10, <2>1 DEF NextRow, off
  <2>3. more = Append(kept, x)  BY <1>10 DEF x
  <2>4. m = Len(kept) /\ Upto(more, off, PageSize) = m + 1
        /\ Window(more, off, PageSize) = IF m >= off THEN Append(w, x) ELSE w
    BY <1>2, <1>10, <2>3
  <2> QED  BY <2>2, <2>4 DEF PageSoFarIs, off, x
<1> QED  BY <1>5, <1>8, <1>9, <1>10

\* A page has the places from its offset on, PageSize of them if there are as many.
LEMMA PageIs ==
  ASSUME NEW T, NEW rows \in Seq(T), NEW type, NEW page, Offset(page) \in Nat
  PROVE  StreamTargets(rows, type, page) = Window(Those(Places(rows), OfType(rows, type)), Offset(page), PageSize)
<1> DEFINE n == Len(rows)
           P == Places(rows)
           S == OfType(rows, type)
           off == Offset(page)
<1>1. n \in Nat /\ DOMAIN rows = 1..n  OBVIOUS
<1>2. P \in Seq(Nat) /\ Len(P) = n /\ (\A i \in 1..n : P[i] = i) /\ \A i \in 1..n : i \in S <=> rows[i] = type
  <2>1. P = [i \in 1..n |-> i]  BY <1>1 DEF Places
  <2> QED  BY <1>1, <2>1 DEF OfType
<1>3. PICK h : TakesRows(h, rows, type, page)  BY PageSteps
<1>4. /\ h[0] = NoRows /\ h[n].targets = StreamTargets(rows, type, page)
      /\ \A k \in 0..(n - 1) : h[k + 1] = NextRow(h[k], rows[k + 1], type, page)
  BY <1>3 DEF TakesRows
<1> HIDE DEF P, S
<1>5. PICK t : TakesThose(t, P, S, Nat)  BY <1>2, ThoseSteps
<1> HIDE DEF n
<1>6. /\ t \in [0..n -> Seq(Nat)] /\ t[0] = <<>> /\ t[n] = Those(P, S)
      /\ \A k \in 0..(n - 1) : t[k + 1] = IF P[k + 1] \in S THEN Append(t[k], P[k + 1]) ELSE t[k]
  BY <1>2, <1>5 DEF TakesThose
<1> DEFINE G == {k \in Nat : k <= n => PageSoFarIs(h[k], t[k], k, off)}
<1>7. off \in Nat /\ PageSize \in Nat \ {0}  BY AnswersAssumption
<1>8. 0 \in G
  <2>1. <<>> \in Seq(Nat) /\ Len(<<>>) = 0  OBVIOUS
  <2> HIDE DEF off
  <2>2. Upto(<<>>, off, PageSize) = 0
    <3>1. 0 < off + PageSize  BY <1>7
    <3> QED  BY <2>1, <3>1 DEF Upto
  <2>3. Window(<<>>, off, PageSize) \in Seq(Nat) /\ Len(Window(<<>>, off, PageSize)) = 0
    <3>1. 0 <= off  BY <1>7
    <3> QED  BY <1>7, <2>1, <3>1, WindowIs
  <2>4. Window(<<>>, off, PageSize) = <<>>  BY <2>3
  <2>5. 0 + 1 = 1  OBVIOUS
  <2>6. PageSoFarIs(h[0], t[0], 0, off)  BY <1>4, <1>6, <2>2, <2>4, <2>5 DEF PageSoFarIs, NoRows
  <2> QED  BY <2>6
<1>9. ASSUME NEW k \in G PROVE k + 1 \in G
  <2>1. SUFFICES ASSUME k + 1 <= n PROVE PageSoFarIs(h[k + 1], t[k + 1], k + 1, off)  OBVIOUS
  <2>2. k \in 0..(n - 1) /\ k \in 0..n /\ k + 1 \in 1..n /\ k \in Nat  BY <1>1, <2>1
  <2>3. PageSoFarIs(h[k], t[k], k, off)  BY <1>1, <2>1
  <2>4. t[k] \in Seq(Nat)  BY <1>6, <2>2
  <2>5. t[k + 1] = IF rows[k + 1] = type THEN Append(t[k], k + 1) ELSE t[k]  BY <1>2, <1>6, <2>2
  <2>6. h[k + 1] = NextRow(h[k], rows[k + 1], type, page)  BY <1>4, <2>2
  <2> QED  BY <2>2, <2>3, <2>4, <2>5, <2>6, NextRowIs
<1>10. \A k \in Nat : k \in G
  <2> HIDE DEF G
  <2> QED  BY <1>8, <1>9, Induction
<1>11. PageSoFarIs(h[n], t[n], n, off)
  <2>1. n \in G  BY <1>1, <1>10
  <2>2. n <= n  BY <1>1
  <2> HIDE DEF off
  <2> QED  BY <2>1, <2>2
<1>12. h[n].targets = Window(t[n], off, PageSize)
  <2> HIDE DEF off
  <2> QED  BY <1>11 DEF PageSoFarIs
<1> QED  BY <1>4, <1>6, <1>12 DEF P, S

\* Windows of p members one after the other are the list.
LEMMA WindowsJoin ==
  ASSUME NEW all \in Seq(Nat), NEW p \in Nat, NEW m \in Nat
  PROVE  /\ Window(all, 0, m) \o Window(all, m, p) = Window(all, 0, m + p)
         /\ Len(all) <= m => Window(all, 0, m) = all
<1> DEFINE a == Window(all, 0, m)
           b == Window(all, m, p)
           c == Window(all, 0, m + p)
           n == Len(all)
<1>1. n \in Nat /\ m + p \in Nat /\ 0 \in Nat  OBVIOUS
<1>2. /\ a \in Seq(Nat) /\ (\A i \in 1..Len(a) : a[i] = all[0 + i])
      /\ Len(a) = IF n <= 0 THEN 0 ELSE IF n < 0 + m THEN n - 0 ELSE m
  BY WindowIs
<1>3. /\ b \in Seq(Nat) /\ (\A i \in 1..Len(b) : b[i] = all[m + i])
      /\ Len(b) = IF n <= m THEN 0 ELSE IF n < m + p THEN n - m ELSE p
  BY WindowIs
<1>4. /\ c \in Seq(Nat) /\ (\A i \in 1..Len(c) : c[i] = all[0 + i])
      /\ Len(c) = IF n <= 0 THEN 0 ELSE IF n < 0 + (m + p) THEN n - 0 ELSE m + p
  BY <1>1, WindowIs
<1> HIDE DEF a, b, c
<1> DEFINE j == a \o b
           la == Len(a)
           lb == Len(b)
           lc == Len(c)
<1>5. j \in Seq(Nat) /\ Len(j) = la + lb /\ (\A i \in 1..la : j[i] = a[i]) /\ (\A i \in (la + 1)..(la + lb) : j[i] = b[i - la])
  <2>1. a \in Seq(Nat) /\ b \in Seq(Nat)  BY <1>2, <1>3
  <2>2. j \in Seq(Nat) /\ Len(j) = la + lb /\ \A i \in 1..(la + lb) : j[i] = IF i <= la THEN a[i] ELSE b[i - la]
    BY ONLY <2>1, ConcatProperties
  <2>3. la \in Nat /\ lb \in Nat  BY <2>1
  <2> HIDE DEF j, la, lb
  <2>4. \A i \in 1..la : i \in 1..(la + lb) /\ i <= la  BY <2>3
  <2>5. \A i \in (la + 1)..(la + lb) : i \in 1..(la + lb) /\ ~(i <= la)  BY <2>3
  <2> QED  BY <2>2, <2>4, <2>5
<1>6. la \in Nat /\ lb \in Nat /\ lc = la + lb /\ (lb = 0 \/ la = m) /\ (n <= m => la = n)
  <2> HIDE DEF la, lb, lc, n
  <2> QED  BY <1>1, <1>2, <1>3, <1>4 DEF la, lb, lc
<1> HIDE DEF j
<1>7. ASSUME NEW i \in 1..(la + lb) PROVE j[i] = c[i]
  <2>1. c[i] = all[i] /\ 0 + i = i
    <3>1. i \in 1..Len(c) /\ 0 + i = i  BY <1>6
    <3> QED  BY <1>4, <3>1
  <2>2. CASE i \in 1..la
    <3>1. j[i] = a[i] /\ a[i] = all[0 + i]  BY <1>2, <1>5, <2>2
    <3> QED  BY <2>1, <3>1
  <2>3. CASE i \notin 1..la
    <3>1. i \in (la + 1)..(la + lb) /\ i - la \in 1..lb /\ lb # 0
      <4> HIDE DEF la, lb
      <4> QED  BY <1>6, <2>3
    <3>2. j[i] = b[i - la] /\ b[i - la] = all[m + (i - la)]  BY <1>3, <1>5, <3>1
    <3>3. m + (i - la) = i
      <4> HIDE DEF la, lb
      <4> QED  BY <1>6, <3>1
    <3> QED  BY <2>1, <3>2, <3>3
  <2> QED  BY <2>2, <2>3
<1>8. j = c  BY <1>4, <1>5, <1>6, <1>7, SeqEqual
<1>9. ASSUME n <= m PROVE a = all
  <2>1. Len(a) = Len(all)  BY <1>6, <1>9
  <2>2. \A i \in 1..Len(a) : 0 + i = i  BY <1>2
  <2>3. \A i \in 1..Len(a) : a[i] = all[i]  BY <1>2, <2>2
  <2> QED  BY <1>2, <2>1, <2>3, SeqEqual
<1> QED  BY <1>8, <1>9 DEF a, b, c, j

\* Page after page.
LEMMA NextOffset ==
  ASSUME NEW k \in Nat, NEW p \in Nat \ {0}
  PROVE  /\ k * p \in Nat /\ ((k + 1) - 1) * p = k * p /\ (k + 1) * p = k * p + p
         /\ 0 * p = 0 /\ 1 * p = p /\ k <= k * p
<1>1. k * p \in Nat /\ ((k + 1) - 1) * p = k * p /\ (k + 1) * p = k * p + p /\ 0 * p = 0 /\ 1 * p = p  OBVIOUS
<1>2. k * (p - 1) \in Nat /\ k * p = k * (p - 1) + k
  <2>1. p - 1 \in Nat  OBVIOUS
  <2>2. k * (p - 1) \in Nat  BY <2>1
  <2>3. k * p = k * (p - 1) + k  OBVIOUS
  <2> QED  BY <2>2, <2>3
<1>3. k <= k * p
  <2> DEFINE a == k * (p - 1)
             b == k * p
  <2>1. a \in Nat /\ b = a + k  BY <1>2
  <2> HIDE DEF a, b
  <2>2. k <= b  BY <2>1
  <2> QED  BY <2>2 DEF b
<1> QED  BY <1>1, <1>3

\* All pages of a list, as many as it could have members, are the list.
LEMMA PagesJoin ==
  ASSUME NEW all \in Seq(Nat), NEW n \in Nat, Len(all) <= n, NEW p \in Nat \ {0},
         NEW pages, pages = [page \in 1..n |-> Window(all, (page - 1) * p, p)]
  PROVE  FlattenSeq(pages) = all
<1>1. CASE n = 0
  <2>1. Len(all) = 0  BY <1>1
  <2>2. all = <<>>  BY <2>1
  <2>3. pages = <<>>  BY <1>1
  <2>4. FlattenSeq(pages) = <<>>
    <3>1. Len(<<>>) = 0  OBVIOUS
    <3> QED  BY <2>3, <3>1 DEF FlattenSeq
  <2> QED  BY <2>2, <2>4
<1>2. CASE n # 0
  <2>1. n \in Nat /\ n > 0  BY <1>2
  <2>2. ASSUME NEW k \in Nat PROVE k * p \in Nat /\ Window(all, k * p, p) \in Seq(Nat)
    <3>1. k * p \in Nat  BY NextOffset
    <3> DEFINE off == k * p
    <3>2. off \in Nat /\ p \in Nat  BY <3>1
    <3> HIDE DEF off
    <3>3. Window(all, off, p) \in Seq(Nat)  BY <3>2, WindowIs
    <3> QED  BY <3>1, <3>3 DEF off
  <2>3. ASSUME NEW k \in 1..n PROVE k - 1 \in Nat /\ pages[k] = Window(all, (k - 1) * p, p) /\ pages[k] \in Seq(Nat)
    <3>1. k - 1 \in Nat /\ pages[k] = Window(all, (k - 1) * p, p)  BY <2>1
    <3> QED  BY <2>2, <3>1
  <2>4. pages \in Seq(Seq(Nat)) /\ Len(pages) = n
    <3>1. pages = [k \in 1..n |-> pages[k]]  OBVIOUS
    <3>2. \A k \in 1..n : pages[k] \in Seq(Nat)  BY <2>3
    <3> DEFINE U == Seq(Nat)
    <3>3. \A k \in 1..n : pages[k] \in U  BY <3>2
    <3> HIDE DEF U
    <3>4. pages \in [1..n -> U]  BY ONLY <3>1, <3>3
    <3>5. pages \in Seq(U) /\ Len(pages) = n  BY ONLY <2>1, <3>4
    <3> QED  BY <3>5 DEF U
  <2>5. PICK h : TakesFlat(h, pages, Nat)
    <3>1. Len(pages) > 0  BY <2>1, <2>4
    <3> QED  BY <2>4, <3>1, FlattenSteps
  <2>6. h[1] = pages[1] /\ h[n] = FlattenSeq(pages) /\ \A k \in 1..(n - 1) : h[k + 1] = h[k] \o pages[k + 1]
    BY <2>4, <2>5 DEF TakesFlat
  <2> DEFINE G == {k \in Nat : k < n => h[k + 1] = Window(all, 0, (k + 1) * p)}
  <2>7. 0 \in G
    <3>1. 1 \in 1..n /\ (1 - 1) * p = 0 /\ 1 * p = p /\ 0 + 1 = 1  BY <2>1, NextOffset
    <3>2. h[1] = Window(all, (1 - 1) * p, p)  BY <2>3, <2>6, <3>1
    <3>3. h[0 + 1] = Window(all, 0, (0 + 1) * p)  BY <3>1, <3>2
    <3> QED  BY <3>3
  <2>8. ASSUME NEW j \in G PROVE j + 1 \in G
    <3> DEFINE k == j + 1
               m == k * p
    <3>1. SUFFICES ASSUME k < n PROVE h[k + 1] = Window(all, 0, (k + 1) * p)  OBVIOUS
    <3>2. k \in Nat /\ k \in 1..(n - 1) /\ k + 1 \in 1..n /\ j < n  BY <2>1, <3>1
    <3>3. h[k] = Window(all, 0, m)  BY <3>2
    <3>4. h[k + 1] = h[k] \o pages[k + 1]  BY <2>6, <3>2
    <3>5. pages[k + 1] = Window(all, ((k + 1) - 1) * p, p)  BY <2>3, <3>2
    <3>6. m \in Nat /\ ((k + 1) - 1) * p = m /\ (k + 1) * p = m + p
      <4> HIDE DEF k
      <4> QED  BY <3>2, NextOffset
    <3>7. pages[k + 1] = Window(all, m, p)  BY <3>5, <3>6
    <3> HIDE DEF m
    <3>8. p \in Nat  OBVIOUS
    <3>9. Window(all, 0, m) \o Window(all, m, p) = Window(all, 0, m + p)  BY <3>6, <3>8, WindowsJoin
    <3>10. h[k + 1] = Window(all, 0, m) \o Window(all, m, p)  BY <3>3, <3>4, <3>7
    <3> HIDE DEF k
    <3>11. h[k + 1] = Window(all, 0, (k + 1) * p)  BY <3>6, <3>9, <3>10
    <3> QED  BY <3>11
  <2>9. \A k \in Nat : k \in G
    <3> HIDE DEF G
    <3> QED  BY <2>7, <2>8, Induction
  <2>10. h[n] = Window(all, 0, n * p)
    <3>1. n - 1 \in Nat /\ n - 1 < n /\ (n - 1) + 1 = n  BY <2>1
    <3>2. h[(n - 1) + 1] = Window(all, 0, ((n - 1) + 1) * p)  BY <2>9, <3>1
    <3> QED  BY <3>1, <3>2
  <2> DEFINE m == n * p
  <2>11. m \in Nat /\ n <= m  BY NextOffset
  <2> HIDE DEF m
  <2>12. Len(all) <= m
    <3> DEFINE l == Len(all)
    <3>1. l \in Nat /\ l <= n  OBVIOUS
    <3> HIDE DEF l
    <3>2. l <= m  BY <2>11, <3>1
    <3> QED  BY <3>2 DEF l
  <2>13. Window(all, 0, m) = all
    <3>1. p \in Nat  OBVIOUS
    <3> QED  BY <2>11, <2>12, <3>1, WindowsJoin
  <2> QED  BY <2>6, <2>10, <2>13 DEF m
<1> QED  BY <1>1, <1>2

\* The pages of an import are the places of its rows.
LEMMA PagesAreAll ==
  ASSUME NEW T, NEW rows \in Seq(T), Len(rows) <= MaxRows, NEW type
  PROVE  FlattenSeq([page \in 1..MaxRows |-> StreamTargets(rows, type, page)]) = Those(Places(rows), OfType(rows, type))
<1> DEFINE all == Those(Places(rows), OfType(rows, type))
           pages == [page \in 1..MaxRows |-> StreamTargets(rows, type, page)]
<1>1. MaxRows \in Nat /\ PageSize \in Nat \ {0}  BY AnswersAssumption
<1>2. all \in Seq(Nat) /\ Len(all) <= MaxRows
  <2>1. Places(rows) = [i \in 1..Len(rows) |-> i] /\ Len(rows) \in Nat  BY DEF Places
  <2>2. Places(rows) \in Seq(Nat) /\ Len(Places(rows)) = Len(rows)  BY <2>1
  <2>3. all \in Seq(Nat) /\ Len(all) <= Len(Places(rows))  BY <2>2, ThoseHas
  <2> DEFINE a == Len(all)
             b == Len(rows)
  <2>4. a \in Nat /\ b \in Nat /\ a <= b /\ b <= MaxRows  BY <2>2, <2>3
  <2> HIDE DEF a, b
  <2>5. a <= MaxRows  BY <1>1, <2>4
  <2> QED  BY <2>3, <2>5 DEF a
<1> HIDE DEF all
<1>3. ASSUME NEW page \in 1..MaxRows
      PROVE  StreamTargets(rows, type, page) = Window(all, (page - 1) * PageSize, PageSize)
  <2>1. page - 1 \in Nat  BY <1>1
  <2>2. Offset(page) \in Nat  BY <1>1, <2>1, NextOffset DEF Offset
  <2>3. StreamTargets(rows, type, page) = Window(all, Offset(page), PageSize)  BY <2>2, PageIs DEF all
  <2> QED  BY <2>3 DEF Offset
<1>4. pages = [page \in 1..MaxRows |-> Window(all, (page - 1) * PageSize, PageSize)]  BY <1>3
<1>5. FlattenSeq(pages) = all
  <2> HIDE DEF pages
  <2> QED  BY ONLY <1>1, <1>2, <1>4, PagesJoin
<1> QED  BY <1>5 DEF all

\* So the pages that are pulled cover the rows.
LEMMA PullCovers == Pull => PagesCover'
<1> SUFFICES ASSUME Pull PROVE PagesCover'  OBVIOUS
<1>1. PICK rows \in SeqsUpto({"fix", "write"}, MaxRows) :
        submitted' = [of |-> "pages", rows |-> rows,
                      pages |-> FlattenSeq([page \in 1..MaxRows |-> StreamTargets(rows, "fix", page)])]
  BY Zenon DEF Pull, Submits
<1>2. rows \in Seq({"fix", "write"}) /\ Len(rows) <= MaxRows
  <2>1. PICK k \in 0..MaxRows : rows \in [1..k -> {"fix", "write"}]  BY DEF SeqsUpto
  <2>2. k \in Nat /\ k <= MaxRows  BY AnswersAssumption
  <2> QED  BY <2>1, <2>2
<1>3. FlattenSeq([page \in 1..MaxRows |-> StreamTargets(rows, "fix", page)]) = Those(Places(rows), OfType(rows, "fix"))
  BY ONLY <1>2, PagesAreAll, Zenon
<1>4. submitted'.rows = rows /\ submitted'.pages = Those(Places(rows), OfType(rows, "fix"))
  BY ONLY <1>1, <1>3
<1> QED  BY ONLY <1>4, Zenon DEF PagesCover, Places, OfType

-----------------------------------------------------------------------------
(* numbers                                                                   *)

\* What the groups are worth, from left to right: h has what the first ones are.
TakesJoined(h, groups) ==
    /\ h \in [0..Len(groups) -> Nat] /\ h[0] = 0 /\ h[Len(groups)] = Joined(groups)
    /\ \A k \in 0..(Len(groups) - 1) : h[k + 1] = h[k] * groups[k + 1].unit + groups[k + 1].n
\* Joined takes the groups one after the other.
LEMMA JoinedSteps ==
  ASSUME NEW groups \in Seq(DigitGroups)
  PROVE  \E h : TakesJoined(h, groups)
<1> DEFINE n == Len(groups)
           More(a, d) == a * d.unit + d.n
           Folds(c) == c = [s \in SUBSET (1..n) |-> IF s = {} THEN 0 ELSE More(c[s \ {Max(s)}], groups[Max(s)])]
           step == [vi \in Nat \X (1..n) |-> More(vi[1], groups[vi[2]])]
<1>1. n \in Nat /\ DOMAIN groups = 1..n /\ \A i \in 1..n : groups[i] \in DigitGroups  OBVIOUS
<1>2. Joined(groups) = (CHOOSE c : Folds(c))[1..n]  BY <1>1 DEF Joined, FoldLeft, MapThenFoldSet
<1>3. ASSUME NEW a \in Nat, NEW d \in DigitGroups PROVE More(a, d) \in Nat
  <2>1. d.unit \in Nat /\ d.n \in Nat  BY DEF DigitGroups
  <2> QED  BY <2>1
<1>4. step \in [Nat \X (1..n) -> Nat]  BY <1>1, <1>3
<1>5. ASSUME NEW v \in Nat, NEW i \in 1..n PROVE step[<<v, i>>] = More(v, groups[i])  OBVIOUS
<1> HIDE DEF step, n, More
<1>7. PICK g \in [SUBSET (1..n) -> Nat] : FoldsBy(g, 0, step, n)  BY <1>1, <1>4, FoldExists
<1>8. Folds(g)
  <2>1. ASSUME NEW s \in SUBSET (1..n), s # {} PROVE step[<<g[s \ {Max(s)}], Max(s)>>] = More(g[s \ {Max(s)}], groups[Max(s)])
    <3>1. Max(s) \in 1..n  BY <1>1, <2>1, MaxOfPlaces
    <3>2. g[s \ {Max(s)}] \in Nat  BY <1>7
    <3> QED  BY <1>5, <3>1, <3>2
  <2> QED  BY <1>7, <2>1 DEF FoldsBy
<1>9. PICK c : Folds(c) /\ Joined(groups) = c[1..n]  BY <1>2, <1>8
<1>10. ASSUME NEW s \in SUBSET (1..n), s # {}, c[s \ {Max(s)}] \in Nat
       PROVE  c[s] = step[<<c[s \ {Max(s)}], Max(s)>>]
  <2>1. Max(s) \in 1..n  BY <1>1, <1>10, MaxOfPlaces
  <2>2. c[s] = More(c[s \ {Max(s)}], groups[Max(s)])  BY <1>9, <1>10
  <2> QED  BY <1>5, <1>10, <2>1, <2>2
<1>11. Follows(c, 0, step, Nat, n)  BY <1>1, <1>4, <1>9, <1>10 DEF Follows
<1>12. PICK h \in [0..n -> Nat] :
          h[0] = 0 /\ h[n] = c[1..n] /\ \A k \in 0..(n - 1) : h[k + 1] = step[<<h[k], k + 1>>]
  <2>1. GoesAlong(c, 0, step, Nat, n)  BY ONLY <1>11, FoldsAlong, Zenon
  <2> QED  BY <2>1 DEF GoesAlong
<1>13. ASSUME NEW k \in 0..(n - 1) PROVE h[k + 1] = More(h[k], groups[k + 1])
  <2>1. k \in 0..n /\ k + 1 \in 1..n  BY <1>1
  <2>2. h[k] \in Nat  BY <2>1
  <2> QED  BY <1>5, <1>12, <2>1, <2>2
<1>14. TakesJoined(h, groups)  BY <1>9, <1>12, <1>13 DEF n, More, TakesJoined
<1> QED  BY <1>14

\* The parts of a token glued, one after the other.
GroupLists == Seq(DigitGroups) \ {<<>>}
Whole(token) == FoldLeft(Glued, Head(token), Tail(token))
TakesGlued(h, token) ==
    /\ h \in [0..(Len(token) - 1) -> GroupLists] /\ h[0] = token[1] /\ h[Len(token) - 1] = Whole(token)
    /\ \A k \in 0..(Len(token) - 2) : h[k + 1] = Glued(h[k], token[k + 2])

\* Two parts glued are a part.
LEMMA GluedIs ==
  ASSUME NEW one \in GroupLists, NEW two \in GroupLists
  PROVE  Glued(one, two) \in GroupLists
<1> DEFINE u == [n |-> Last(one).n * Head(two).unit + Head(two).n, unit |-> Last(one).unit * Head(two).unit]
<1>1. one \in Seq(DigitGroups) /\ Len(one) \in Nat /\ Len(one) > 0 /\ two \in Seq(DigitGroups) /\ two # <<>>  BY DEF GroupLists
<1>2. Last(one) \in DigitGroups /\ Head(two) \in DigitGroups /\ Tail(two) \in Seq(DigitGroups)
  <2>1. Last(one) = one[Len(one)] /\ Len(one) \in 1..Len(one)  BY <1>1 DEF Last
  <2> QED  BY <1>1, <2>1, HeadTailProperties
<1>3. Front(one) \in Seq(DigitGroups)  BY <1>1 DEF Front
<1>4. ASSUME NEW d \in DigitGroups, NEW e \in DigitGroups
      PROVE  [n |-> d.n * e.unit + e.n, unit |-> d.unit * e.unit] \in DigitGroups
  <2>1. d.n \in Nat /\ e.n \in Nat /\ d.unit \in Nat /\ e.unit \in Nat  BY DEF DigitGroups
  <2>2. d.n * e.unit + e.n \in Nat /\ d.unit * e.unit \in Nat  BY <2>1
  <2> QED  BY <2>2 DEF DigitGroups
<1>5. u \in DigitGroups  BY <1>2, <1>4
<1> DEFINE f == Front(one)
           t == Tail(two)
<1>6. f \in Seq(DigitGroups) /\ t \in Seq(DigitGroups)  BY <1>2, <1>3
<1>7. Glued(one, two) = (f \o <<u>>) \o t  BY DEF Glued
<1> HIDE DEF u, f, t
<1>8. (f \o <<u>>) \o t \in Seq(DigitGroups) /\ Len((f \o <<u>>) \o t) = Len(f) + 1 + Len(t) /\ Len(f) \in Nat /\ Len(t) \in Nat
  <2>1. f \o <<u>> \in Seq(DigitGroups) /\ Len(f \o <<u>>) = Len(f) + 1  BY <1>5, <1>6
  <2> QED  BY <1>6, <2>1
<1>9. (f \o <<u>>) \o t # <<>>
  <2>1. Len((f \o <<u>>) \o t) # 0  BY <1>8
  <2> QED  BY <2>1
<1> QED  BY <1>7, <1>8, <1>9 DEF GroupLists

\* The parts of a token are glued one after the other.
LEMMA GluedSteps ==
  ASSUME NEW token \in Seq(GroupLists), token # <<>>
  PROVE  \E h : TakesGlued(h, token)
<1> DEFINE rest == Tail(token)
           n == Len(rest)
           V == GroupLists
           base == Head(token)
           Folds(c) == c = [s \in SUBSET (1..n) |-> IF s = {} THEN base ELSE Glued(c[s \ {Max(s)}], rest[Max(s)])]
           step == [vi \in V \X (1..n) |-> Glued(vi[1], rest[vi[2]])]
<1>0. /\ rest \in Seq(V) /\ base \in V /\ base = token[1] /\ n = Len(token) - 1
      /\ \A i \in 1..n : rest[i] = token[i + 1]
  <2>1. Len(token) \in Nat /\ Len(token) > 0  OBVIOUS
  <2> QED  BY <2>1, HeadTailProperties
<1>1. n \in Nat /\ DOMAIN rest = 1..n /\ \A i \in 1..n : rest[i] \in V
  <2> HIDE DEF rest, V
  <2> QED  BY <1>0
<1>2. Whole(token) = (CHOOSE c : Folds(c))[1..n]
  <2>1. DOMAIN rest = 1..n  BY <1>1
  <2>2. Whole(token) = FoldLeft(Glued, base, rest)  BY DEF Whole
  <2> HIDE DEF rest, base, n
  <2> QED  BY <2>1, <2>2 DEF FoldLeft, MapThenFoldSet
<1> HIDE DEF rest, n, base
<1>3. ASSUME NEW a \in V, NEW d \in V PROVE Glued(a, d) \in V  BY GluedIs
<1> HIDE DEF V
<1>4. step \in [V \X (1..n) -> V]  BY <1>1, <1>3
<1>5. ASSUME NEW v \in V, NEW i \in 1..n PROVE step[<<v, i>>] = Glued(v, rest[i])  OBVIOUS
<1> HIDE DEF step
<1>6. base \in V  BY <1>0
<1>7. PICK g \in [SUBSET (1..n) -> V] : FoldsBy(g, base, step, n)  BY <1>1, <1>4, <1>6, FoldExists
<1>8. Folds(g)
  <2>1. ASSUME NEW s \in SUBSET (1..n), s # {} PROVE step[<<g[s \ {Max(s)}], Max(s)>>] = Glued(g[s \ {Max(s)}], rest[Max(s)])
    <3>1. Max(s) \in 1..n  BY <1>1, <2>1, MaxOfPlaces
    <3>2. g[s \ {Max(s)}] \in V  BY <1>7
    <3> QED  BY <1>5, <3>1, <3>2
  <2> QED  BY <1>7, <2>1 DEF FoldsBy
<1>9. PICK c : Folds(c) /\ Whole(token) = c[1..n]  BY <1>2, <1>8
<1>10. ASSUME NEW s \in SUBSET (1..n), s # {}, c[s \ {Max(s)}] \in V
       PROVE  c[s] = step[<<c[s \ {Max(s)}], Max(s)>>]
  <2>1. Max(s) \in 1..n  BY <1>1, <1>10, MaxOfPlaces
  <2>2. c[s] = Glued(c[s \ {Max(s)}], rest[Max(s)])  BY <1>9, <1>10
  <2> QED  BY <1>5, <1>10, <2>1, <2>2
<1>11. Follows(c, base, step, V, n)  BY <1>1, <1>4, <1>6, <1>9, <1>10 DEF Follows
<1>12. PICK h \in [0..n -> V] :
          h[0] = base /\ h[n] = c[1..n] /\ \A k \in 0..(n - 1) : h[k + 1] = step[<<h[k], k + 1>>]
  <2>1. GoesAlong(c, base, step, V, n)  BY ONLY <1>11, FoldsAlong, Zenon
  <2> QED  BY <2>1 DEF GoesAlong
<1>13. ASSUME NEW k \in 0..(n - 1) PROVE h[k + 1] = Glued(h[k], token[k + 2])
  <2>1. k \in 0..n /\ k + 1 \in 1..n /\ (k + 1) + 1 = k + 2  BY <1>1
  <2>2. h[k] \in V  BY <2>1
  <2>3. rest[k + 1] = token[k + 2]  BY <1>0, <2>1
  <2> QED  BY <1>5, <1>12, <2>1, <2>2, <2>3
<1>14. TakesGlued(h, token)
  <2>1. Len(token) - 1 = n /\ Len(token) - 2 = n - 1  BY <1>0
  <2> QED  BY <1>0, <1>9, <1>12, <1>13, <2>1 DEF V, TakesGlued
<1> QED  BY <1>14

\* What a number is worth: its whole part and its thousandths.
Worth(whole, fraction) ==
    <<Joined(whole), IF fraction = <<>> THEN 0 ELSE fraction[1].n * (1000 \div fraction[1].unit)>>
FractionLists == {fraction \in Seq(DigitGroups) : Len(fraction) <= 1}
\* A fraction is nothing or one group.
LEMMA FractionIs ==
  ASSUME NEW fraction \in FractionLists
  PROVE  fraction = <<>> \/ (fraction[1] \in DigitGroups /\ fraction = <<fraction[1]>>)
<1> DEFINE n == Len(fraction)
<1>1. fraction \in Seq(DigitGroups) /\ n \in Nat /\ n <= 1  BY DEF FractionLists
<1>2. n = 0 \/ n = 1
  <2> HIDE DEF n
  <2> QED  BY <1>1
<1>3. CASE n = 0  BY <1>1, <1>3
<1>4. CASE n = 1
  <2>1. 1 \in 1..n  BY <1>4
  <2>2. fraction[1] \in DigitGroups  BY <1>1, <2>1
  <2>3. <<fraction[1]>> \in Seq(DigitGroups) /\ Len(<<fraction[1]>>) = 1 /\ <<fraction[1]>>[1] = fraction[1]  BY <2>2
  <2>4. \A i \in 1..1 : i = 1  OBVIOUS
  <2>5. fraction = <<fraction[1]>>  BY <1>1, <1>4, <2>3, <2>4, SeqEqual
  <2> QED  BY <2>2, <2>5
<1> QED  BY <1>2, <1>3, <1>4

\* A whole number with its fraction is among the values of its groups.
LEMMA ValuesHave ==
  ASSUME NEW whole \in GroupLists, ThreeDigits(Tail(whole)), NEW fraction \in FractionLists
  PROVE  Worth(whole, fraction) \in ValuesOf(whole \o fraction)
<1>1. whole \in Seq(DigitGroups) /\ whole # <<>> /\ Len(whole) \in Nat /\ Len(whole) > 0  BY DEF GroupLists
<1>2. CASE fraction = <<>>
  <2>1. whole \o fraction = whole  BY <1>1, <1>2
  <2>2. Worth(whole, fraction) = <<Joined(whole), 0>>  BY <1>2 DEF Worth
  <2>3. Grouped(whole) = {<<Joined(whole), 0>>}  BY DEF Grouped
  <2> QED  BY <2>1, <2>2, <2>3 DEF ValuesOf
<1>3. CASE fraction # <<>> /\ fraction[1] \in DigitGroups /\ fraction = <<fraction[1]>>
  <2> DEFINE d == fraction[1]
             all == whole \o <<d>>
  <2>1. d \in DigitGroups /\ whole \o fraction = all  BY <1>3
  <2>2. Worth(whole, fraction) = <<Joined(whole), d.n * (1000 \div d.unit)>>  BY <1>3 DEF Worth
  <2> HIDE DEF d
  <2>3. all \in Seq(DigitGroups) /\ Len(all) = Len(whole) + 1 /\ (\A i \in 1..Len(whole) : all[i] = whole[i]) /\ all[Len(whole) + 1] = d
    BY <1>1, <2>1
  <2> HIDE DEF all
  <2>4. Len(all) # 1 /\ Len(all) - 1 = Len(whole)  BY <1>1, <2>3
  <2>5. Last(all) = d  BY <2>3 DEF Last
  <2>6. Front(all) = whole
    <3>1. Front(all) = SubSeq(all, 1, Len(whole))  BY <2>4 DEF Front
    <3> DEFINE f == SubSeq(all, 1, Len(whole))
    <3>2. f \in Seq(DigitGroups) /\ Len(f) = Len(whole) /\ \A i \in 1..Len(whole) : f[i] = all[i]
      BY <1>1, <2>3
    <3> HIDE DEF f
    <3>3. f = whole  BY <1>1, <2>3, <3>2, SeqEqual
    <3> QED  BY <3>1, <3>3 DEF f
  <2>7. DecimalOf(all) = {<<Joined(whole), d.n * (1000 \div d.unit)>>}  BY <2>5, <2>6 DEF DecimalOf
  <2>8. ValuesOf(all) = DecimalOf(all) \cup Grouped(all)  BY <2>4 DEF ValuesOf
  <2> QED  BY <2>1, <2>2, <2>7, <2>8
<1> QED  BY <1>2, <1>3, FractionIs

\* One group with the same value is worth the same, whatever its digits count up to.
LEMMA OneGroup ==
  ASSUME NEW a \in Nat, NEW unit \in Nat
  PROVE  LET one == <<[n |-> a, unit |-> unit]>>
         IN one \in GroupLists /\ ThreeDigits(Tail(one)) /\ Joined(one) = a
<1> DEFINE d == [n |-> a, unit |-> unit]
           one == <<d>>
<1>1. d \in DigitGroups /\ d.n = a /\ d.unit = unit  BY DEF DigitGroups
<1> HIDE DEF d
<1>2. one \in Seq(DigitGroups) /\ Len(one) = 1 /\ one[1] = d /\ one # <<>>  BY <1>1
<1>3. Tail(one) = <<>>
  <2>1. Tail(one) \in Seq(DigitGroups) /\ Len(Tail(one)) = 1 - 1  BY <1>2, HeadTailProperties
  <2> QED  BY <2>1
<1>4. ThreeDigits(Tail(one))  BY <1>3 DEF ThreeDigits
<1> HIDE DEF one
<1>5. PICK h : TakesJoined(h, one)  BY <1>2, JoinedSteps
<1>6. /\ h[0] = 0 /\ h[1] = Joined(one)
      /\ \A k \in 0..(1 - 1) : h[k + 1] = h[k] * one[k + 1].unit + one[k + 1].n
  BY <1>2, <1>5 DEF TakesJoined
<1>7. 0 \in 0..(1 - 1) /\ 0 + 1 = 1  OBVIOUS
<1>8. h[1] = 0 * one[1].unit + one[1].n  BY <1>6, <1>7
<1>9. h[1] = a  BY <1>1, <1>2, <1>8
<1> QED  BY <1>2, <1>4, <1>6, <1>9 DEF one, d, GroupLists

\* One more group after one group, and what follows it.
LEMMA GluedTo ==
  ASSUME NEW a \in Nat, NEW unit \in Nat, NEW d \in DigitGroups, NEW rest \in Seq(DigitGroups)
  PROVE  Glued(<<[n |-> a, unit |-> unit]>>, <<d>> \o rest) = <<[n |-> a * d.unit + d.n, unit |-> unit * d.unit]>> \o rest
<1> DEFINE c == [n |-> a, unit |-> unit]
           one == <<c>>
           two == <<d>> \o rest
           u == [n |-> a * d.unit + d.n, unit |-> unit * d.unit]
<1>1. c \in DigitGroups /\ c.n = a /\ c.unit = unit  BY DEF DigitGroups
<1>9. u \in DigitGroups
  <2>1. d.n \in Nat /\ d.unit \in Nat  BY DEF DigitGroups
  <2>2. a * d.unit + d.n \in Nat /\ unit * d.unit \in Nat  BY <2>1
  <2> QED  BY <2>2 DEF DigitGroups
<1> HIDE DEF c
<1>2. one \in Seq(DigitGroups) /\ Len(one) = 1 /\ one[1] = c  BY <1>1
<1> HIDE DEF one
<1>3. Last(one) = c  BY <1>2 DEF Last
<1>4. Front(one) = <<>>
  <2>1. Front(one) = SubSeq(one, 1, 0)
    <3>1. 1 - 1 = 0  OBVIOUS
    <3> QED  BY <1>2, <3>1 DEF Front
  <2>2. SubSeq(one, 1, 0) \in Seq(DigitGroups) /\ Len(SubSeq(one, 1, 0)) = 0  BY <1>2
  <2> QED  BY <2>1, <2>2
<1>5. /\ two \in Seq(DigitGroups) /\ Len(two) = 1 + Len(rest) /\ two[1] = d /\ two # <<>>
      /\ \A i \in 1..Len(rest) : two[i + 1] = rest[i]
  <2>1. <<d>> \in Seq(DigitGroups) /\ Len(<<d>>) = 1 /\ <<d>>[1] = d /\ Len(rest) \in Nat  OBVIOUS
  <2> DEFINE x == <<d>>
  <2>2. x \in Seq(DigitGroups) /\ Len(x) = 1 /\ x[1] = d  BY <2>1
  <2> HIDE DEF x
  <2>3. x \o rest \in Seq(DigitGroups) /\ Len(x \o rest) = 1 + Len(rest)
        /\ \A i \in 1..(1 + Len(rest)) : (x \o rest)[i] = IF i <= 1 THEN x[i] ELSE rest[i - 1]
    <3>1. x \in Seq(DigitGroups) /\ rest \in Seq(DigitGroups)  BY <2>2
    <3>2. x \o rest \in Seq(DigitGroups) /\ Len(x \o rest) = Len(x) + Len(rest)
          /\ \A i \in 1..(Len(x) + Len(rest)) : (x \o rest)[i] = IF i <= Len(x) THEN x[i] ELSE rest[i - Len(x)]
      BY ONLY <3>1, ConcatProperties
    <3> QED  BY <2>2, <3>2
  <2>4. \A i \in 1..Len(rest) : i + 1 \in 1..(1 + Len(rest)) /\ ~(i + 1 <= 1) /\ (i + 1) - 1 = i  BY <2>1
  <2>5. 1 \in 1..(1 + Len(rest)) /\ 1 <= 1 /\ 1 + Len(rest) # 0  BY <2>1
  <2>6. x \o rest # <<>>  BY <2>1, <2>3, <2>5
  <2> QED  BY <2>2, <2>3, <2>4, <2>5, <2>6 DEF x
<1> HIDE DEF two
<1>6. Head(two) = d  BY <1>5
<1>7. Tail(two) = rest
  <2>1. Tail(two) \in Seq(DigitGroups) /\ Len(Tail(two)) = Len(two) - 1 /\ \A i \in 1..Len(Tail(two)) : Tail(two)[i] = two[i + 1]
    BY <1>5, HeadTailProperties
  <2>2. Len(rest) \in Nat /\ Len(Tail(two)) = Len(rest)  BY <1>5, <2>1
  <2>3. \A i \in 1..Len(rest) : Tail(two)[i] = rest[i]  BY <1>5, <2>1, <2>2
  <2> QED  BY <2>1, <2>2, <2>3, SeqEqual
<1>8. [n |-> Last(one).n * Head(two).unit + Head(two).n, unit |-> Last(one).unit * Head(two).unit] = u
  BY <1>1, <1>3, <1>6
<1> HIDE DEF u
<1>10. Glued(one, two) = (<<>> \o <<u>>) \o rest  BY <1>4, <1>7, <1>8 DEF Glued
<1>11. <<>> \o <<u>> = <<u>>  BY <1>9
<1> QED  BY <1>10, <1>11 DEF one, two, c, u

\* A token of one part is read as it stands.
LEMMA OnePart ==
  ASSUME NEW groups \in GroupLists
  PROVE  Candidates(<<groups>>) = ValuesOf(groups)
<1> DEFINE token == <<groups>>
<1>1. token \in Seq(GroupLists) /\ Len(token) = 1 /\ token[1] = groups /\ token # <<>>  OBVIOUS
<1> HIDE DEF token
<1>2. PICK h : TakesGlued(h, token)  BY <1>1, GluedSteps
<1>3. 1 - 1 = 0  OBVIOUS
<1>4. Whole(token) = groups  BY <1>1, <1>2, <1>3 DEF TakesGlued
<1>5. Candidates(token) = ValuesOf(Whole(token)) \cup {}  BY <1>1 DEF Candidates, Whole
<1> QED  BY <1>4, <1>5 DEF token

\* A part that begins with a group.
LEMMA FirstGroup ==
  ASSUME NEW d \in DigitGroups, NEW fraction \in Seq(DigitGroups)
  PROVE  <<d>> \in GroupLists /\ <<d>> \o fraction \in GroupLists /\ <<d>> \o <<>> = <<d>>
<1>1. <<d>> \in Seq(DigitGroups) /\ <<d>> # <<>> /\ <<d>> \o <<>> = <<d>>  OBVIOUS
<1>2. <<d>> \o fraction \in Seq(DigitGroups) \ {<<>>}  BY <1>1, NotEmptyJoined
<1> QED  BY <1>1, <1>2 DEF GroupLists

\* Its parts: each is one group, and the last has the fraction.
LEMMA SpacedIs ==
  ASSUME NEW whole \in GroupLists, NEW fraction \in FractionLists
  PROVE  /\ Spaced(whole, fraction) \in Seq(GroupLists) /\ Len(Spaced(whole, fraction)) = Len(whole)
         /\ Len(whole) \in Nat /\ Len(whole) > 0
         /\ \A i \in 1..Len(whole) : Spaced(whole, fraction)[i] = <<whole[i]>> \o (IF i = Len(whole) THEN fraction ELSE <<>>)
<1> DEFINE n == Len(whole)
           s == Spaced(whole, fraction)
           G == GroupLists
<1>1. n \in Nat /\ n > 0 /\ DOMAIN whole = 1..n /\ \A i \in 1..n : whole[i] \in DigitGroups  BY DEF GroupLists
<1>2. fraction \in Seq(DigitGroups)  BY DEF FractionLists
<1>3. ASSUME NEW d \in DigitGroups PROVE <<d>> \in G /\ <<d>> \o fraction \in G /\ <<d>> \o <<>> = <<d>>
  BY ONLY <1>2, <1>3, FirstGroup
<1>4. s = [i \in 1..n |-> IF i = n THEN <<whole[i]>> \o fraction ELSE <<whole[i]>>]  BY <1>1 DEF Spaced
<1> HIDE DEF G, n, s
<1>5. \A i \in 1..n : s[i] \in G  BY <1>1, <1>3, <1>4
<1>6. \A i \in 1..n : s[i] = <<whole[i]>> \o (IF i = n THEN fraction ELSE <<>>)
  <2> SUFFICES ASSUME NEW i \in 1..n PROVE s[i] = <<whole[i]>> \o (IF i = n THEN fraction ELSE <<>>)  OBVIOUS
  <2>1. whole[i] \in DigitGroups  BY <1>1
  <2>2. <<whole[i]>> \o <<>> = <<whole[i]>>  BY <1>3, <2>1
  <2> QED  BY <1>4, <2>2
<1>7. s \in [1..n -> G]  BY <1>4, <1>5
<1>8. s \in Seq(G) /\ Len(s) = n  BY ONLY <1>1, <1>7
<1> QED  BY <1>1, <1>6, <1>8 DEF s, n, G

\* Glued, they are one group with the same value, and the fraction.
LEMMA SpacedGlued ==
  ASSUME NEW whole \in GroupLists, NEW fraction \in FractionLists
  PROVE  \E unit \in Nat : Whole(Spaced(whole, fraction)) = <<[n |-> Joined(whole), unit |-> unit]>> \o fraction
<1> DEFINE n == Len(whole)
           token == Spaced(whole, fraction)
           Ending(k) == IF k + 1 = n THEN fraction ELSE <<>>
           One(a, unit) == <<[n |-> a, unit |-> unit]>>
<1>1. /\ token \in Seq(GroupLists) /\ Len(token) = n /\ n \in Nat /\ n > 0
      /\ \A i \in 1..n : token[i] = <<whole[i]>> \o (IF i = n THEN fraction ELSE <<>>)
  BY SpacedIs
<1>2. whole \in Seq(DigitGroups) /\ \A i \in 1..n : whole[i] \in DigitGroups  BY DEF GroupLists
<1>3. fraction \in Seq(DigitGroups) /\ \A k : Ending(k) \in Seq(DigitGroups)  BY DEF FractionLists
<1> HIDE DEF token
<1>4. PICK g : TakesGlued(g, token)
  <2>1. token # <<>>  BY <1>1
  <2> QED  BY <1>1, <2>1, GluedSteps
<1>5. PICK h : TakesJoined(h, whole)  BY <1>2, JoinedSteps
<1>6. /\ g[0] = token[1] /\ g[n - 1] = Whole(token) /\ \A k \in 0..(n - 2) : g[k + 1] = Glued(g[k], token[k + 2])
  BY <1>1, <1>4 DEF TakesGlued
<1>7. /\ h \in [0..n -> Nat] /\ h[0] = 0 /\ h[n] = Joined(whole)
      /\ \A k \in 0..(n - 1) : h[k + 1] = h[k] * whole[k + 1].unit + whole[k + 1].n
  BY <1>5 DEF TakesJoined
<1> HIDE DEF n, Ending, One
<1> DEFINE G == {k \in Nat : k < n => \E unit \in Nat : g[k] = One(h[k + 1], unit) \o Ending(k)}
<1>8. \A d \in DigitGroups : d.n \in Nat /\ d.unit \in Nat /\ <<d>> = One(d.n, d.unit)  BY DEF DigitGroups, One
<1>9. 0 \in G
  <2>1. 1 \in 1..n /\ 0 \in 0..(n - 1) /\ 0 + 1 = 1  BY <1>1
  <2> DEFINE d == whole[1]
  <2>2. d \in DigitGroups  BY <1>2, <2>1
  <2>3. h[1] = 0 * d.unit + d.n
    <3>1. h[0 + 1] = h[0] * whole[0 + 1].unit + whole[0 + 1].n  BY <1>7, <2>1
    <3> QED  BY <1>7, <2>1, <3>1
  <2>4. g[0] = <<d>> \o Ending(0)  BY <1>1, <1>6, <2>1 DEF Ending
  <2> HIDE DEF d
  <2>5. d.n \in Nat /\ d.unit \in Nat /\ <<d>> = One(d.n, d.unit)  BY <1>8, <2>2
  <2>6. h[1] = d.n  BY <2>3, <2>5
  <2>7. g[0] = One(h[0 + 1], d.unit) \o Ending(0)  BY <2>1, <2>4, <2>5, <2>6
  <2> QED  BY <2>5, <2>7
<1>10. ASSUME NEW k \in G PROVE k + 1 \in G
  <2>1. SUFFICES ASSUME k + 1 < n PROVE \E unit \in Nat : g[k + 1] = One(h[(k + 1) + 1], unit) \o Ending(k + 1)  OBVIOUS
  <2>2. k \in Nat /\ k < n /\ k \in 0..(n - 2) /\ k + 1 \in 0..n /\ k + 1 \in 0..(n - 1) /\ k + 2 \in 1..n /\ (k + 1) + 1 = k + 2 /\ k + 1 # n
    BY <1>1, <2>1
  <2>3. PICK unit \in Nat : g[k] = One(h[k + 1], unit) \o Ending(k)  BY <2>2
  <2> DEFINE d == whole[k + 2]
             a == h[k + 1]
  <2>4. d \in DigitGroups /\ a \in Nat  BY <1>2, <1>7, <2>2
  <2>5. h[k + 2] = a * d.unit + d.n  BY <1>7, <2>2
  <2>6. token[k + 2] = <<d>> \o Ending(k + 1)  BY <1>1, <2>2 DEF Ending
  <2>7. g[k] = One(a, unit)
    <3>1. Ending(k) = <<>>  BY <2>2 DEF Ending
    <3>2. One(a, unit) \in Seq(DigitGroups)  BY <2>4 DEF One, DigitGroups
    <3>3. One(a, unit) \o <<>> = One(a, unit)  BY <3>2
    <3> QED  BY <2>3, <3>1, <3>3
  <2>8. g[k + 1] = Glued(g[k], token[k + 2])  BY <1>6, <2>2
  <2> HIDE DEF d, a
  <2>9. Glued(One(a, unit), <<d>> \o Ending(k + 1)) = One(a * d.unit + d.n, unit * d.unit) \o Ending(k + 1)
    <3> DEFINE rest == Ending(k + 1)
    <3>1. rest \in Seq(DigitGroups) /\ unit \in Nat  BY <1>3
    <3> HIDE DEF rest
    <3>2. Glued(One(a, unit), <<d>> \o rest) = One(a * d.unit + d.n, unit * d.unit) \o rest
      BY ONLY <2>4, <3>1, GluedTo DEF One
    <3> QED  BY <3>2 DEF rest
  <2>10. unit * d.unit \in Nat
    <3>1. d.unit \in Nat  BY <1>8, <2>4
    <3> QED  BY <3>1
  <2>11. g[k + 1] = One(h[(k + 1) + 1], unit * d.unit) \o Ending(k + 1)  BY <2>2, <2>5, <2>6, <2>7, <2>8, <2>9
  <2> QED  BY <2>10, <2>11
<1>11. \A k \in Nat : k \in G
  <2> HIDE DEF G
  <2> QED  BY <1>9, <1>10, Induction
<1>12. n - 1 \in Nat /\ n - 1 < n /\ (n - 1) + 1 = n  BY <1>1
<1>13. PICK unit \in Nat : g[n - 1] = One(h[(n - 1) + 1], unit) \o Ending(n - 1)  BY <1>11, <1>12
<1>14. Whole(token) = One(Joined(whole), unit) \o fraction  BY <1>6, <1>7, <1>12, <1>13 DEF Ending
<1> QED  BY <1>14 DEF token, One

\* Each way to write a number is read as what the number is worth, among others.
LEMMA WritingRead ==
  ASSUME NEW whole \in GroupLists, ThreeDigits(Tail(whole)), NEW fraction \in FractionLists,
         NEW token \in Writings(whole, fraction)
  PROVE  Worth(whole, fraction) \in Candidates(token)
<1> DEFINE a == Joined(whole)
           One(unit) == <<[n |-> a, unit |-> unit]>>
<1>1. whole \in Seq(DigitGroups) /\ fraction \in Seq(DigitGroups)  BY DEF GroupLists, FractionLists
<1>2. a \in Nat
  <2>1. PICK h : TakesJoined(h, whole)  BY <1>1, JoinedSteps
  <2>2. Len(whole) \in 0..Len(whole)  BY <1>1
  <2> QED  BY <2>1, <2>2 DEF TakesJoined
<1>3. ASSUME NEW unit \in Nat PROVE Worth(whole, fraction) \in ValuesOf(One(unit) \o fraction) /\ One(unit) \in GroupLists
  <2> DEFINE one == One(unit)
  <2>1. one \in GroupLists /\ ThreeDigits(Tail(one)) /\ Joined(one) = a
    <3> HIDE DEF a
    <3> QED  BY <1>2, OneGroup
  <2> HIDE DEF one
  <2>2. Worth(one, fraction) \in ValuesOf(one \o fraction)  BY <2>1, ValuesHave
  <2>3. Worth(one, fraction) = Worth(whole, fraction)  BY <2>1 DEF Worth
  <2> QED  BY <2>1, <2>2, <2>3 DEF one
<1>4. ASSUME NEW groups \in GroupLists PROVE groups \o fraction \in GroupLists
  <2>1. groups \in Seq(DigitGroups) /\ Len(groups) \in Nat /\ Len(groups) > 0  BY DEF GroupLists
  <2>2. groups \o fraction \in Seq(DigitGroups) /\ Len(groups \o fraction) = Len(groups) + Len(fraction) /\ Len(fraction) \in Nat
    BY <1>1, <2>1
  <2>3. Len(groups \o fraction) # 0  BY <2>1, <2>2
  <2>4. groups \o fraction # <<>>  BY <2>3
  <2> QED  BY <2>2, <2>4 DEF GroupLists
<1>5. CASE token = << One(10) \o fraction >>
  <2>1. 10 \in Nat  OBVIOUS
  <2> HIDE DEF One
  <2>2. One(10) \o fraction \in GroupLists /\ Worth(whole, fraction) \in ValuesOf(One(10) \o fraction)  BY <1>3, <1>4, <2>1
  <2> QED  BY <1>5, <2>2, OnePart
<1>6. CASE token = << whole \o fraction >>
  <2>1. whole \o fraction \in GroupLists  BY <1>4
  <2>2. Worth(whole, fraction) \in ValuesOf(whole \o fraction)  BY ValuesHave
  <2> QED  BY <1>6, <2>1, <2>2, OnePart
<1>7. CASE token = Spaced(whole, fraction)
  <2>1. PICK unit \in Nat : Whole(token) = One(unit) \o fraction  BY <1>7, SpacedGlued
  <2>2. Worth(whole, fraction) \in ValuesOf(Whole(token))  BY <1>3, <2>1
  <2>3. ValuesOf(Whole(token)) \subseteq Candidates(token)  BY DEF Candidates, Whole
  <2> QED  BY <2>2, <2>3
<1> QED  BY <1>5, <1>6, <1>7 DEF Writings, Spaced

\* Two writings of a number share its worth.
LEMMA NumberChecked == CheckNumber => NumbersMatch'
<1> SUFFICES ASSUME CheckNumber PROVE NumbersMatch'  OBVIOUS
<1>1. PICK whole \in Wholes, fraction \in Fractions : \E one, two \in Writings(whole, fraction) :
        submitted' = [of |-> "number", token |-> one, fact |-> two, warned |-> NumberWarning(one, {two})]
  BY DEF CheckNumber, Submits
<1>2. PICK one \in Writings(whole, fraction), two \in Writings(whole, fraction) :
        submitted' = [of |-> "number", token |-> one, fact |-> two, warned |-> NumberWarning(one, {two})]
  BY <1>1
<1>3. whole \in GroupLists /\ ThreeDigits(Tail(whole)) /\ fraction \in FractionLists
  BY AnswersAssumption DEF GroupLists, FractionLists
<1>4. Worth(whole, fraction) \in Candidates(one) /\ Worth(whole, fraction) \in Candidates(two)
  BY ONLY <1>3, WritingRead, Zenon
<1>5. NumberWarning(one, {two}) = FALSE  BY ONLY <1>4 DEF NumberWarning
<1>6. submitted'.warned = FALSE  BY ONLY <1>2, <1>5
<1> QED  BY <1>6 DEF NumbersMatch

-----------------------------------------------------------------------------
\* What a step submits.
LEMMA StepSubmits ==
  /\ Correct => submitted'.of = "correction"
  /\ AnswerQuestions => submitted'.of = "questions"
  /\ PickCover => submitted'.of = "cover"
  /\ SaveDefinition => submitted'.of = "definition"
  /\ Pull => submitted'.of = "pages"
  /\ CheckNumber => submitted'.of = "number"
  /\ CheckLength => submitted'.of = "length"
<1>1. Correct => submitted'.of = "correction"  BY DEF Correct, Submits
<1>2. AnswerQuestions => submitted'.of = "questions"  BY DEF AnswerQuestions, Submits
<1>3. PickCover => submitted'.of = "cover"  BY DEF PickCover, Submits
<1>4. SaveDefinition => submitted'.of = "definition"  BY DEF SaveDefinition, Submits
<1>5. Pull => submitted'.of = "pages"  BY DEF Pull, Submits
<1>6. CheckNumber => submitted'.of = "number"  BY DEF CheckNumber, Submits
<1>7. CheckLength => submitted'.of = "length"  BY DEF CheckLength, Submits
<1> QED  BY <1>1, <1>2, <1>3, <1>4, <1>5, <1>6, <1>7

\* An answer is read as it was given, whatever it says: what the model changes
\* stays within its selection and only the sanitiser changes more, in html;
\* questions have ids of their own, and whoever answers them as shown is refused
\* only for a choice with blanks around it; the pick is the picture shown, a
\* saved definition runs, the pages of an import are its rows, a number is known
\* in its other forms, and the limits agree (apply_answer, _clean, normalize,
\* validate_answers, _render, step_errors, stream_targets, candidates, FieldLimit).
THEOREM AnswersAreRead == AnswersSpec => []AnswersRead
<1>1. AnswersInit => AnswersRead
  BY DEF AnswersInit, NotSubmitted, AnswersRead, OutsideKept, AnswersHeard, PickHasPicture, DefinitionRuns, PagesCover, NumbersMatch, LimitsAgree
<1>2. AnswersRead /\ [AnswersNext]_submitted => AnswersRead'
  <2> SUFFICES ASSUME AnswersRead, [AnswersNext]_submitted PROVE AnswersRead'  OBVIOUS
  <2>1. CASE Correct
    BY <2>1, StepSubmits, CorrectKeeps DEF AnswersRead, AnswersHeard, PickHasPicture, DefinitionRuns, PagesCover, NumbersMatch, LimitsAgree
  <2>2. CASE AnswerQuestions
    BY <2>2, StepSubmits, QuestionsAnswered DEF AnswersRead, OutsideKept, PickHasPicture, DefinitionRuns, PagesCover, NumbersMatch, LimitsAgree
  <2>3. CASE PickCover
    BY <2>3, StepSubmits, PickIsRead DEF AnswersRead, OutsideKept, AnswersHeard, DefinitionRuns, PagesCover, NumbersMatch, LimitsAgree
  <2>4. CASE SaveDefinition
    BY <2>4, StepSubmits, DefinitionHolds DEF AnswersRead, OutsideKept, AnswersHeard, PickHasPicture, PagesCover, NumbersMatch, LimitsAgree
  <2>5. CASE Pull
    BY <2>5, StepSubmits, PullCovers DEF AnswersRead, OutsideKept, AnswersHeard, PickHasPicture, DefinitionRuns, NumbersMatch, LimitsAgree
  <2>6. CASE CheckNumber
    BY <2>6, StepSubmits, NumberChecked DEF AnswersRead, OutsideKept, AnswersHeard, PickHasPicture, DefinitionRuns, PagesCover, LimitsAgree
  <2>7. CASE CheckLength
    BY <2>7, StepSubmits, LengthsAgree DEF AnswersRead, OutsideKept, AnswersHeard, PickHasPicture, DefinitionRuns, PagesCover, NumbersMatch
  <2>8. CASE UNCHANGED submitted
    <3>1. OutsideKept'  BY <2>8 DEF AnswersRead, OutsideKept
    <3>2. AnswersHeard'  BY <2>8 DEF AnswersRead, AnswersHeard
    <3>3. PickHasPicture'  BY <2>8 DEF AnswersRead, PickHasPicture
    <3>4. DefinitionRuns'  BY <2>8 DEF AnswersRead, DefinitionRuns
    <3>5. PagesCover'  BY <2>8 DEF AnswersRead, PagesCover
    <3>6. NumbersMatch'  BY <2>8 DEF AnswersRead, NumbersMatch
    <3>7. LimitsAgree'  BY <2>8 DEF AnswersRead, LimitsAgree
    <3> QED  BY <3>1, <3>2, <3>3, <3>4, <3>5, <3>6, <3>7 DEF AnswersRead
  <2> QED  BY <2>1, <2>2, <2>3, <2>4, <2>5, <2>6, <2>7, <2>8 DEF AnswersNext
<1> QED  BY <1>1, <1>2, PTL DEF AnswersSpec

=============================================================================
