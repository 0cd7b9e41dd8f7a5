------------------------------ MODULE Proposals ------------------------------
(***************************************************************************)
(* The review of proposals: intake supersedes and creates, operators edit, *)
(* correct, accept, reject and undo, one by one or in bulk, and retention   *)
(* prunes, while the catalogue is edited from outside as well.              *)
(*                                                                          *)
(* A request reads a proposal once and acts on that copy in several         *)
(* statements and transactions; one action is one of them, and pc names     *)
(* the next.  Row locks make a transaction atomic, except intake, whose     *)
(* supersede and create are two actions with the superseded rows locked in  *)
(* between: the row it creates is not visible before it commits.            *)
(***************************************************************************)
EXTENDS Integers

CONSTANTS
    Proposal, Target, Value,
    TargetOf,          \* [Proposal -> Target]: module, subject, kind and locator of a proposal
    Ref, RefOf,        \* [Proposal -> Ref]: the external_ref it is posted with
    Staged,            \* proposals with a staged file
    Artifact,          \* target_kind "artifact": no value outside the proposal, not undoable
    Request,           \* concurrent requests, bulk chunks and beats
    None,              \* no value, no proposal
    Ops,               \* what happens in an instance of the model
    MaxRevision        \* bound on the revisions of a proposal

ASSUME ReviewAssumption ==
    /\ TargetOf \in [Proposal -> Target] /\ RefOf \in [Proposal -> Ref]
    /\ Staged \subseteq Proposal /\ Artifact \subseteq Proposal
    /\ None \notin Value \cup Proposal
    /\ Ops \subseteq {"intake", "keep", "accept", "reject", "bulk_reject", "undo", "edit", "revise", "prune", "outside", "crash"}
    /\ MaxRevision \in Nat

VARIABLES
    prop,      \* [Proposal -> the ContentProposal row]
    live,      \* [Target -> its value in the catalogue]
    files,     \* proposals whose staged file is in the staging store
    req,       \* [Request -> what it is in the middle of]
    writes,    \* history: [Proposal -> how often its apply wrote]
    writer     \* history: [Target -> the proposal whose apply or undo wrote it last]

vars == <<prop, live, files, req, writes, writer>>
catalogue == <<live, writes, writer>>

Reviewable == {"pending", "drifted"}   \* what may be applied, rejected and revised
Final == {"rejected", "superseded", "reverted"}
Missing == {"absent", "deleted"}

\* PROPOSAL_STATUS_TRANSITIONS
Transitions == [pending |-> {"applied", "rejected", "superseded", "drifted"}, drifted |-> {"applied", "rejected"},
                applied |-> {"reverted"}, rejected |-> {}, superseded |-> {}, reverted |-> {}]

\* revision is the number of the latest revision; aged rows are older than the retention.
AbsentRow == [status |-> "absent", value |-> None, revision |-> 0, snapshot |-> None, applied |-> None, aged |-> FALSE]

NewRow(v, s) == [status |-> "pending", value |-> v, revision |-> 1, snapshot |-> s, applied |-> None, aged |-> FALSE]

\* What a request works with of the row it read.
Copy(p) == [status |-> prop[p].status, value |-> prop[p].value, snapshot |-> prop[p].snapshot,
            applied |-> prop[p].applied]
NoCopy == [status |-> "absent", value |-> None, snapshot |-> None, applied |-> None]

Idle == [pc |-> "idle", prop |-> None, copy |-> NoCopy, seen |-> None, todo |-> {}, keep |-> FALSE]

Init ==
    /\ prop = [p \in Proposal |-> AbsentRow]
    /\ live \in [Target -> Value]
    /\ files = {}
    /\ req = [r \in Request |-> Idle]
    /\ writes = [p \in Proposal |-> 0]
    /\ writer = [t \in Target |-> None]

-----------------------------------------------------------------------------
(* Helpers *)

\* adapter.read_current: an artifact has no live value.
ReadCurrent(p) == IF p \in Artifact THEN None ELSE live[TargetOf[p]]

\* The row is not locked by an intake that supersedes it.
Free(p) == \A r \in Request : ~(req[r].pc = "create" /\ p \in req[r].todo)

Becomes(r, row) == req' = [req EXCEPT ![r] = row]
Goto(r, pc) == Becomes(r, [req[r] EXCEPT !.pc = pc])
Done(r) == Becomes(r, Idle)

\* Every save refreshes modified_at; an applied row ages by applied_at.
Saved(p, row) == prop' = [prop EXCEPT ![p] = [row EXCEPT !.aged = IF row.status = "applied" /\ prop[p].status = "applied" THEN @ ELSE FALSE]]
SetStatus(p, s) == Saved(p, [prop[p] EXCEPT !.status = s])

\* Request r starts work on its copy of p.
Starts(r, op, p, pc) ==
    /\ op \in Ops /\ req[r].pc = "idle"
    /\ Becomes(r, [Idle EXCEPT !.pc = pc, !.prop = p, !.copy = Copy(p)])
    /\ UNCHANGED <<prop, files, catalogue>>

\* Deviation: the stored status is not compared.
UnchangedUnlocked(r, s) == s \in Transitions[req[r].copy.status]

\* transition_status and _lock_unchanged: the transition is legal for the copy, and under the row lock
\* the stored status is still the one that was read.
Unchanged(r, s) ==
    LET p == req[r].prop
    IN  s \in Transitions[req[r].copy.status] /\ prop[p].status = req[r].copy.status

Refused(r) == Done(r) /\ UNCHANGED <<prop, files, catalogue>>

-----------------------------------------------------------------------------
(* Intake *)

\* intake, before its transaction: the binary is staged, a known external_ref returns the existing
\* proposal (nothing is left of this call), the live value is read.
StartIntake(r, p) ==
    /\ "intake" \in Ops /\ req[r].pc = "idle"
    /\ prop[p].status = "absent" /\ \A q \in Request : req[q].prop # p
    /\ \A q \in Proposal : RefOf[q] = RefOf[p] => prop[q].status \in Missing
    /\ \E keep \in BOOLEAN :
          /\ keep => "keep" \in Ops
          /\ Becomes(r, [Idle EXCEPT !.pc = "supersede", !.prop = p, !.seen = ReadCurrent(p), !.keep = keep])
    /\ files' = files \cup ({p} \cap Staged)
    /\ UNCHANGED <<prop, catalogue>>

Pending(t) == {q \in Proposal : TargetOf[q] = t /\ prop[q].status = "pending"}

\* Deviation: the first edit does not count.
EditedTwice(S) == {q \in S : prop[q].revision > 2}

\* Rows the operator worked on.
Edited(S) == {q \in S : prop[q].revision > 1}

\* _supersede_pending: locks the pending rows of the target; with keep_edited an edited one refuses the
\* intake and its staged file is dropped.
Supersede(r) ==
    /\ req[r].pc = "supersede"
    /\ LET pending == Pending(TargetOf[req[r].prop])
       IN  /\ \A q \in pending : Free(q)
           /\ \/ /\ req[r].keep /\ Edited(pending) # {}
                 /\ files' = files \ {req[r].prop}
                 /\ Done(r)
              \/ /\ ~req[r].keep \/ Edited(pending) = {}
                 /\ Becomes(r, [req[r] EXCEPT !.pc = "create", !.todo = pending])
                 /\ UNCHANGED files
    /\ UNCHANGED <<prop, catalogue>>

\* Without keep_edited it is one UPDATE: it waits for locked rows, sees no row created meanwhile, and takes
\* of the rows it saw those that are still pending.
WaitForRows(r) ==
    /\ req[r].pc = "supersede" /\ ~req[r].keep
    /\ LET pending == Pending(TargetOf[req[r].prop])
       IN  /\ \E q \in pending : ~Free(q)
           /\ Becomes(r, [req[r] EXCEPT !.pc = "wait", !.todo = pending])
    /\ UNCHANGED <<prop, files, catalogue>>

\* Deviation: the update commits on its own.
SupersedeRestCommitted(r) ==
    /\ req[r].pc = "wait" /\ \A q \in req[r].todo : Free(q)
    /\ Becomes(r, [req[r] EXCEPT !.pc = "create"])
    /\ prop' = [q \in Proposal |-> IF q \in req[r].todo THEN [prop[q] EXCEPT !.status = "superseded"] ELSE prop[q]]
    /\ UNCHANGED <<files, catalogue>>

SupersedeRest(r) ==
    /\ req[r].pc = "wait" /\ \A q \in req[r].todo : Free(q)
    /\ Becomes(r, [req[r] EXCEPT !.pc = "create", !.todo = {q \in @ : prop[q].status = "pending"}])
    /\ UNCHANGED <<prop, files, catalogue>>

\* The rest of the transaction: the new row with revision 1, and the superseded ones.
Create(r) ==
    /\ req[r].pc = "create"
    /\ \E v \in Value :
          prop' = [q \in Proposal |->
                     IF q = req[r].prop THEN NewRow(v, req[r].seen)
                     ELSE IF q \in req[r].todo THEN [prop[q] EXCEPT !.status = "superseded"] ELSE prop[q]]
    /\ Done(r)
    /\ UNCHANGED <<files, catalogue>>

-----------------------------------------------------------------------------
(* Accept: apply_service.apply *)

\* apply refuses a copy that is neither pending nor drifted.
StartAccept(r, p) == prop[p].status \in Reviewable /\ Starts(r, "accept", p, "read")

\* read_current; a pending proposal whose live value is the one it was made for is written right away.
ReadLive(r) ==
    /\ req[r].pc = "read"
    /\ LET seen == ReadCurrent(req[r].prop)
           same == req[r].copy.status = "pending" /\ seen = req[r].copy.snapshot
       IN  Becomes(r, [req[r] EXCEPT !.seen = seen, !.pc = IF same THEN "write" ELSE "save"])
    /\ UNCHANGED <<prop, files, catalogue>>

\* The live value becomes the snapshot, by a save without a lock or a look at the stored status.
SaveSnapshot(r) ==
    /\ req[r].pc = "save"
    /\ LET p == req[r].prop
       IN  \/ /\ prop[p].status # "deleted" /\ Free(p)
              /\ Saved(p, [prop[p] EXCEPT !.snapshot = req[r].seen])
              /\ Goto(r, IF req[r].copy.status = "pending" THEN "drift" ELSE "write")
           \/ /\ prop[p].status = "deleted"
              /\ Done(r) /\ UNCHANGED prop
    /\ UNCHANGED <<files, catalogue>>

MarkDrifted(r) ==
    /\ req[r].pc = "drift" /\ Free(req[r].prop)
    /\ \/ /\ Unchanged(r, "drifted")
          /\ SetStatus(req[r].prop, "drifted")
          /\ Done(r) /\ UNCHANGED <<files, catalogue>>
       \/ ~Unchanged(r, "drifted") /\ Refused(r)

\* One transaction: the adapter writes the copy's value, the value read back is the undo anchor, the
\* proposal becomes applied.  A refused transition or a missing staged file rolls it back.
HasFile(p) == p \in Staged \ Artifact => p \in files
Write(r) ==
    /\ req[r].pc = "write" /\ Free(req[r].prop)
    /\ LET p == req[r].prop
           t == TargetOf[p]
           target == p \notin Artifact
       IN  \/ /\ Unchanged(r, "applied") /\ HasFile(p)
              /\ live' = IF target THEN [live EXCEPT ![t] = req[r].copy.value] ELSE live
              /\ writer' = IF target THEN [writer EXCEPT ![t] = p] ELSE writer
              /\ writes' = [writes EXCEPT ![p] = @ + 1]
              /\ Saved(p, [prop[p] EXCEPT !.status = "applied", !.applied = IF target THEN req[r].copy.value ELSE None])
              /\ IF p \in Staged \ Artifact THEN Goto(r, "drop") ELSE Done(r)
              /\ UNCHANGED files
           \/ ~(Unchanged(r, "applied") /\ HasFile(p)) /\ Refused(r)

\* The staged copy goes after the commit; an artifact's bundle stays.
DropStaged(r) ==
    /\ req[r].pc = "drop"
    /\ files' = files \ {req[r].prop}
    /\ Done(r)
    /\ UNCHANGED <<prop, catalogue>>

-----------------------------------------------------------------------------
(* Reject, one proposal or all that match a filter *)

\* reject looks at the status only after it deleted the staged file.
StartReject(r, p) == prop[p].status \notin Missing /\ Starts(r, "reject", p, "unstage")

Unstage(r) ==
    /\ req[r].pc = "unstage"
    /\ files' = files \ {req[r].prop}
    /\ Goto(r, "reject")
    /\ UNCHANGED <<prop, catalogue>>

Reject(r) ==
    /\ req[r].pc = "reject" /\ Free(req[r].prop)
    /\ \/ /\ Unchanged(r, "rejected")
          /\ SetStatus(req[r].prop, "rejected")
          /\ Done(r) /\ UNCHANGED <<files, catalogue>>
       \/ ~Unchanged(r, "rejected") /\ Refused(r)

\* bulk_reject reads the pending proposals of a filter once ...
StartBulkReject(r) ==
    /\ "bulk_reject" \in Ops /\ req[r].pc = "idle"
    /\ \E S \in SUBSET {p \in Proposal : prop[p].status = "pending"} \ {{}} :
          Becomes(r, [Idle EXCEPT !.pc = "bulk", !.todo = S])
    /\ UNCHANGED <<prop, files, catalogue>>

\* ... updates these rows whatever their status is now, and deletes their staged files.
BulkReject(r) ==
    /\ req[r].pc = "bulk"
    /\ \A p \in req[r].todo : Free(p)
    /\ prop' = [p \in Proposal |-> IF p \in req[r].todo /\ prop[p].status # "deleted"
                                   THEN [prop[p] EXCEPT !.status = "rejected", !.aged = FALSE] ELSE prop[p]]
    /\ Goto(r, "unstage_all")
    /\ UNCHANGED <<files, catalogue>>

UnstageAll(r) ==
    /\ req[r].pc = "unstage_all"
    /\ \/ \E p \in req[r].todo : /\ files' = files \ {p}
                                 /\ Becomes(r, [req[r] EXCEPT !.todo = @ \ {p}])
       \/ req[r].todo = {} /\ Done(r) /\ UNCHANGED files
    /\ UNCHANGED <<prop, catalogue>>

-----------------------------------------------------------------------------
(* Undo: undo_service.revert *)

StartUndo(r, p) == prop[p].status = "applied" /\ Starts(r, "undo", p, "check")

\* The live value must still be the one the apply left.
CheckLive(r) ==
    /\ req[r].pc = "check"
    /\ IF ReadCurrent(req[r].prop) = req[r].copy.applied THEN Goto(r, "revert") ELSE Done(r)
    /\ UNCHANGED <<prop, files, catalogue>>

\* One transaction: the adapter restores the copy's snapshot, the proposal becomes reverted.  An
\* artifact's adapter refuses.
Revert(r) ==
    /\ req[r].pc = "revert"
    /\ LET p == req[r].prop
       IN  \/ /\ p \notin Artifact /\ Unchanged(r, "reverted")
              /\ live' = [live EXCEPT ![TargetOf[p]] = req[r].copy.snapshot]
              /\ writer' = [writer EXCEPT ![TargetOf[p]] = p]
              /\ SetStatus(p, "reverted")
              /\ Done(r) /\ UNCHANGED <<files, writes>>
           \/ ~(p \notin Artifact /\ Unchanged(r, "reverted")) /\ Refused(r)

-----------------------------------------------------------------------------
(* Revisions: revision_service.add_revision *)

\* Deviation: a restore stores the number instead of the value.
RevisedByNumber(p, v) == Saved(p, [prop[p] EXCEPT !.value = prop[p].revision, !.revision = @ + 1])

Revised(p, v) == Saved(p, [prop[p] EXCEPT !.value = v, !.revision = @ + 1])

\* An edit by the operator, or a restore of an older value: one transaction under the row lock.
Edit(p) ==
    /\ "edit" \in Ops
    /\ prop[p].status \in Reviewable /\ Free(p) /\ prop[p].revision < MaxRevision
    /\ \E v \in Value : Revised(p, v)
    /\ UNCHANGED <<files, req, catalogue>>

\* A correction: the AI answers for the value that was read ...
StartRevise(r, p) ==
    /\ prop[p].status \in Reviewable /\ p \notin Staged /\ prop[p].revision < MaxRevision
    /\ Starts(r, "revise", p, "revise")

\* Deviation: only the value is compared.
StillOpenByValue(r) == prop[req[r].prop].value = req[r].copy.value

StillOpen(r) == LET row == prop[req[r].prop] IN row.status \in Reviewable /\ row.value = req[r].copy.value

\* ... and the answer is saved if the proposal is still open with that value.
SaveRevision(r) ==
    /\ req[r].pc = "revise" /\ Free(req[r].prop)
    /\ \/ /\ StillOpen(r)
          /\ \E v \in Value : Revised(req[r].prop, v)
          /\ Done(r) /\ UNCHANGED <<files, catalogue>>
       \/ ~StillOpen(r) /\ Refused(r)

-----------------------------------------------------------------------------
(* Retention: cleanup_service.prune; the catalogue; crashes *)

\* The aged rows are read, their staged files deleted one by one, then what is still aged is deleted.
Aged == {p \in Proposal : prop[p].aged}

StartPrune(r) ==
    /\ "prune" \in Ops /\ req[r].pc = "idle" /\ Aged # {}
    /\ Becomes(r, [Idle EXCEPT !.pc = "prune", !.todo = Aged])
    /\ UNCHANGED <<prop, files, catalogue>>

PruneFile(r) ==
    /\ req[r].pc = "prune"
    /\ \E p \in req[r].todo : /\ files' = files \ {p}
                              /\ Becomes(r, [req[r] EXCEPT !.todo = @ \ {p}])
    /\ UNCHANGED <<prop, catalogue>>

\* Deviation: the rows go before their files.
PruneRowsAtOnce(r) ==
    /\ req[r].pc = "prune"
    /\ prop' = [p \in Proposal |-> IF prop[p].aged THEN [AbsentRow EXCEPT !.status = "deleted"] ELSE prop[p]]
    /\ Done(r)
    /\ UNCHANGED <<files, catalogue>>

PruneRows(r) ==
    /\ req[r].pc = "prune" /\ req[r].todo = {}
    /\ prop' = [p \in Proposal |-> IF prop[p].aged THEN [AbsentRow EXCEPT !.status = "deleted"] ELSE prop[p]]
    /\ Done(r)
    /\ UNCHANGED <<files, catalogue>>

\* Rows that are not pending get older than the retention; a prune pass is short in comparison.
Age(p) ==
    /\ "prune" \in Ops
    /\ prop[p].status \notin Missing \cup {"pending"} /\ ~prop[p].aged
    /\ \A r \in Request : req[r].pc # "prune"
    /\ prop' = [prop EXCEPT ![p].aged = TRUE]
    /\ UNCHANGED <<files, req, catalogue>>

\* Somebody edits the catalogue without a proposal.
Outside(t) ==
    /\ "outside" \in Ops
    /\ \E v \in Value \ {live[t]} : live' = [live EXCEPT ![t] = v]
    /\ writer' = [writer EXCEPT ![t] = None]
    /\ UNCHANGED <<prop, files, req, writes>>

\* The process of a request dies, or the adapter it calls raises: an open transaction is rolled back.
Crash(r) ==
    /\ "crash" \in Ops
    /\ req[r].pc # "idle"
    /\ Refused(r)

-----------------------------------------------------------------------------

IntakeStep(r) == Supersede(r) \/ WaitForRows(r) \/ SupersedeRest(r) \/ Create(r)
AcceptStep(r) == ReadLive(r) \/ SaveSnapshot(r) \/ MarkDrifted(r) \/ Write(r) \/ DropStaged(r)
RejectStep(r) == Unstage(r) \/ Reject(r) \/ BulkReject(r) \/ UnstageAll(r)
UndoStep(r) == CheckLive(r) \/ Revert(r)
PruneStep(r) == PruneFile(r) \/ PruneRows(r)

Next ==
    \/ \E r \in Request, p \in Proposal :
          StartIntake(r, p) \/ StartAccept(r, p) \/ StartReject(r, p) \/ StartUndo(r, p) \/ StartRevise(r, p)
    \/ \E r \in Request : \/ StartBulkReject(r) \/ StartPrune(r) \/ Crash(r)
                          \/ IntakeStep(r) \/ AcceptStep(r) \/ RejectStep(r) \/ UndoStep(r)
                          \/ SaveRevision(r) \/ PruneStep(r)
    \/ \E p \in Proposal : Edit(p) \/ Age(p)
    \/ \E t \in Target : Outside(t)

Spec == Init /\ [][Next]_vars

-----------------------------------------------------------------------------
(* Properties *)

Status == {"absent", "deleted", "applied"} \cup Reviewable \cup Final
RequestPc == {"idle", "supersede", "wait", "create", "read", "save", "drift", "write", "drop", "unstage", "reject",
              "bulk", "unstage_all", "check", "revert", "revise", "prune"}
AnyValue == Value \cup {None}

ProposalRow == [status : Status, value : AnyValue, revision : Nat, snapshot : AnyValue, applied : AnyValue, aged : BOOLEAN]
RequestRow == [pc : RequestPc, prop : Proposal \cup {None},
               copy : [status : Status, value : AnyValue, snapshot : AnyValue, applied : AnyValue],
               seen : AnyValue, todo : SUBSET Proposal, keep : BOOLEAN]

\* The type of every variable.
TypeOK ==
    /\ prop \in [Proposal -> ProposalRow]
    /\ live \in [Target -> AnyValue]
    /\ files \subseteq Staged
    /\ req \in [Request -> RequestRow]
    /\ writes \in [Proposal -> Nat]
    /\ writer \in [Target -> Proposal \cup {None}]

\* The catalogue is written for a proposal at most once, and exactly when the proposal was applied:
\* stale accepts, double accepts and re-run chunks never write again or beside the decision.
DecidedOnce ==
    \A p \in Proposal :
        /\ prop[p].status \in {"applied", "reverted"} => writes[p] = 1
        /\ prop[p].status \notin {"applied", "reverted", "deleted"} => writes[p] = 0
        /\ writes[p] <= 1

\* A target last written by the bus shows what its proposal's row says: the applied value, or
\* the proposal is reverted.
CatalogueMatches ==
    \A t \in Target :
        LET p == writer[t]
        IN  p # None => \/ prop[p].status = "applied" /\ prop[p].applied = live[t]
                        \/ prop[p].status \in {"reverted", "deleted"}

\* A proposal is superseded only by one that took its place: however intakes for one target overlap or
\* die, the target does not lose its last open proposal to them.
SupersededReplaced ==
    \A p \in Proposal : prop[p].status = "superseded"
        => \E q \in Proposal : TargetOf[q] = TargetOf[p] /\ prop[q].status \notin {"absent", "superseded"}

\* A decided proposal keeps the value it was decided with: no edit and no late AI answer gets in.
DecidedValueStays ==
    [][\A p \in Proposal : (prop[p].status \notin Reviewable \cup Missing /\ prop'[p].status # "deleted")
           => prop'[p].value = prop[p].value]_vars

\* A pending proposal the operator edited gives way only to an intake that does not keep edits.
EditsKept ==
    [][\A p \in Proposal : (prop[p].status = "pending" /\ prop'[p].status = "superseded" /\ prop[p].revision > 1)
           => \E r \in Request : req[r].pc = "create" /\ req'[r].pc = "idle" /\ ~req[r].keep]_vars

\* A staged file belongs to a proposal or to an intake in flight (without crashes).
NoOrphanFile ==
    \A p \in files : prop[p].status \notin Missing \/ \E r \in Request : req[r].prop = p /\ req[r].pc \in {"supersede", "wait", "create"}

\* The abstract promise.
Review == INSTANCE Review WITH status <- [p \in Proposal |-> prop[p].status]
ReviewSpec == Review!Spec

\* What a single and a bulk decision both owe: a rejected proposal was never written.
RejectedNeverWritten == \A p \in Proposal : prop[p].status = "rejected" => writes[p] = 0

=============================================================================
