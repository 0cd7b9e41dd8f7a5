--------------------------- MODULE ProposalsProofs ---------------------------
(***************************************************************************)
(* Theorems about Proposals for every value of its constants.              *)
(***************************************************************************)
EXTENDS Proposals, TLAPS

-----------------------------------------------------------------------------
(* What a request may rely on between two of its steps *)

IntakePc == {"supersede", "wait", "create"}
DecisionPc == {"read", "save", "drift", "write", "drop", "unstage", "reject", "check", "revert", "revise"}

\* An intake owns the row it is going to create and locks the rows it supersedes; a decision goes on with the
\* status it read.
RowInv(row) ==
    /\ row.pc \in IntakePc => row.prop \in Proposal /\ prop[row.prop].status = "absent"
    /\ row.pc \in {"wait", "create"} => \A p \in row.todo : TargetOf[p] = TargetOf[row.prop]
    /\ row.pc \in {"wait", "bulk"} => \A p \in row.todo : prop[p].status # "absent"
    /\ row.pc = "wait" => ~row.keep
    /\ row.pc = "bulk" => "bulk_reject" \in Ops
    /\ row.pc = "create" => \A p \in row.todo : /\ prop[p].status = "pending"
                                                /\ row.keep => prop[p].revision <= 1
    /\ row.pc \in DecisionPc => row.prop \in Proposal /\ prop[row.prop].status # "absent"
    /\ row.pc \in {"read", "save", "write", "revise"} => row.copy.status \in Reviewable
    /\ row.pc = "drift" => row.copy.status = "pending"
    /\ row.pc \in {"check", "revert"} => row.copy.status = "applied"
    /\ row.pc \in {"unstage", "reject"} => row.copy.status \notin Missing

\* Two intakes create different rows and lock different rows.
Apart ==
    \A r, q \in Request : r # q =>
        /\ (req[r].pc \in IntakePc /\ req[q].pc \in IntakePc) => req[r].prop # req[q].prop
        /\ (req[r].pc = "create" /\ req[q].pc = "create") => req[r].todo \cap req[q].todo = {}

\* What is pruned was decided, or drifted.
AgedDecided == \A p \in Proposal : prop[p].aged => prop[p].status \notin {"absent", "pending"}

ReviewInv == TypeOK /\ (\A r \in Request : RowInv(req[r])) /\ Apart /\ AgedDecided

-----------------------------------------------------------------------------
(* Rows *)

LEMMA Values == None \in AnyValue /\ Value \subseteq AnyValue  BY DEF AnyValue

LEMMA IdleType == Idle \in RequestRow /\ Idle.pc = "idle" /\ AbsentRow \in ProposalRow
  BY DEF Idle, RequestRow, RequestPc, NoCopy, AnyValue, Status, AbsentRow, ProposalRow

\* A saved row: what it says, and that nobody else's row changed.
LEMMA SavedRow ==
  ASSUME prop \in [Proposal -> ProposalRow], NEW p \in Proposal, NEW row \in ProposalRow, Saved(p, row)
  PROVE  /\ prop' \in [Proposal -> ProposalRow]
         /\ prop'[p].status = row.status /\ prop'[p].value = row.value /\ prop'[p].revision = row.revision
         /\ prop'[p].snapshot = row.snapshot /\ prop'[p].applied = row.applied
         /\ prop'[p].aged => row.aged /\ row.status = "applied"
         /\ \A q \in Proposal : q # p => prop'[q] = prop[q]
<1> DEFINE aged == IF row.status = "applied" /\ prop[p].status = "applied" THEN row.aged ELSE FALSE
           new == [row EXCEPT !.aged = aged]
<1>1. prop' = [prop EXCEPT ![p] = new]  BY DEF Saved
<1>2. aged \in BOOLEAN /\ (aged => row.aged /\ row.status = "applied")  BY DEF ProposalRow
<1> HIDE DEF aged
<1>3. new = [status |-> row.status, value |-> row.value, revision |-> row.revision,
             snapshot |-> row.snapshot, applied |-> row.applied, aged |-> aged]
  BY DEF ProposalRow
<1>4. new \in ProposalRow /\ new.status = row.status /\ new.value = row.value /\ new.revision = row.revision
      /\ new.snapshot = row.snapshot /\ new.applied = row.applied /\ new.aged = aged
  BY <1>2, <1>3 DEF ProposalRow
<1> HIDE DEF new
<1>5. prop'[p] = new /\ \A q \in Proposal : q # p => prop'[q] = prop[q]  BY <1>1
<1> QED  BY <1>1, <1>2, <1>4, <1>5

\* A request row with its fields replaced.
LEMMA RequestFields ==
  ASSUME NEW row \in RequestRow, NEW pc \in RequestPc, NEW todo \in SUBSET Proposal
  PROVE  /\ [row EXCEPT !.pc = pc] \in RequestRow
         /\ [row EXCEPT !.pc = pc, !.todo = todo] \in RequestRow
         /\ [row EXCEPT !.todo = todo] \in RequestRow
         /\ \A seen \in AnyValue : [row EXCEPT !.seen = seen, !.pc = pc] \in RequestRow
  BY DEF RequestRow

LEMMA CopyType ==
  ASSUME prop \in [Proposal -> ProposalRow], NEW p \in Proposal, NEW pc \in RequestPc
  PROVE  /\ [Idle EXCEPT !.pc = pc, !.prop = p, !.copy = Copy(p)] \in RequestRow
         /\ [Idle EXCEPT !.pc = pc, !.prop = p, !.copy = Copy(p)].copy.status = prop[p].status
  BY DEF ProposalRow, RequestRow, Copy, Idle, AnyValue, NoCopy, RequestPc, Status

-----------------------------------------------------------------------------
(* One request moves, the others stand still *)

\* What the requests other than r see of a step on the rows: a row appears only where r owns it, none
\* disappears, and a row locked by another intake is left alone.
RowsFine(r) ==
    \A p \in Proposal :
        /\ prop[p].status = "absent" => \/ prop'[p].status = "absent"
                                        \/ (req[r].pc \in IntakePc /\ req[r].prop = p)
        /\ prop[p].status # "absent" => prop'[p].status # "absent"
        /\ \/ prop'[p].status = prop[p].status /\ prop'[p].revision = prop[p].revision
           \/ prop[p].status # "pending"
           \/ \A q \in Request \ {r} : req[q].pc = "create" => p \notin req[q].todo

LEMMA OthersFine ==
  ASSUME TypeOK, NEW r \in Request, NEW q \in Request, q # r, RowInv(req[q]), RowsFine(r), Apart, req'[q] = req[q]
  PROVE  RowInv(req[q])'
<1>1. req[q] \in RequestRow  BY DEF TypeOK
<1>2. req[q].todo \subseteq Proposal  BY <1>1 DEF RequestRow
<1>3. req[q].pc \in IntakePc => prop'[req[q].prop].status = "absent"
  BY DEF RowInv, RowsFine, Apart
<1>4. req[q].pc \in {"wait", "bulk"} => \A p \in req[q].todo : prop'[p].status # "absent"
  BY <1>2 DEF RowInv, RowsFine
<1>5. req[q].pc = "create" => \A p \in req[q].todo : /\ prop'[p].status = "pending"
                                                     /\ req[q].keep => prop'[p].revision <= 1
  BY <1>2 DEF RowInv, RowsFine
<1>6. req[q].pc \in DecisionPc => prop'[req[q].prop].status # "absent"
  BY DEF RowInv, RowsFine
<1> QED  BY <1>3, <1>4, <1>5, <1>6 DEF RowInv

LEMMA OneMoves ==
  ASSUME ReviewInv, NEW r \in Request, NEW row \in RequestRow, Becomes(r, row), RowsFine(r), RowInv(row)',
         row.pc \in IntakePc => \A q \in Request \ {r} : req[q].pc \in IntakePc => req[q].prop # row.prop,
         row.pc = "create" => \A q \in Request \ {r} : req[q].pc = "create" => row.todo \cap req[q].todo = {}
  PROVE  req' \in [Request -> RequestRow] /\ (\A q \in Request : RowInv(req[q])') /\ Apart'
<1>1. req \in [Request -> RequestRow] /\ req' = [req EXCEPT ![r] = row]  BY DEF ReviewInv, TypeOK, Becomes
<1>2. req' \in [Request -> RequestRow] /\ req'[r] = row /\ \A q \in Request : q # r => req'[q] = req[q]
  BY <1>1
<1>3. ASSUME NEW q \in Request  PROVE RowInv(req[q])'
  <2>1. CASE q = r  BY <1>2, <2>1 DEF RowInv
  <2>2. CASE q # r  BY <1>2, <2>2, OthersFine DEF ReviewInv
  <2> QED  BY <2>1, <2>2
<1>4. Apart'  BY <1>2 DEF ReviewInv, Apart
<1> QED  BY <1>2, <1>3, <1>4

LEMMA NobodyMoves ==
  ASSUME ReviewInv, UNCHANGED req, \A r \in Request : RowsFine(r),
         \A p \in Proposal : prop[p].status = "absent" => prop'[p].status = "absent",
         \A p \in Proposal : \/ prop'[p].status = prop[p].status /\ prop'[p].revision = prop[p].revision
                             \/ prop[p].status # "pending"
                             \/ Free(p)
  PROVE  req' \in [Request -> RequestRow] /\ (\A q \in Request : RowInv(req[q])') /\ Apart'
<1>1. ASSUME NEW q \in Request  PROVE RowInv(req[q])'
  <2>1. req'[q] = req[q] /\ RowInv(req[q]) /\ RowsFine(q)  BY DEF ReviewInv
  <2>2. req[q].todo \subseteq Proposal  BY DEF ReviewInv, TypeOK, RequestRow
  <2>3. req[q].pc = "create" => \A p \in req[q].todo : /\ prop'[p].status = "pending"
                                                       /\ req[q].keep => prop'[p].revision <= 1
    BY <2>1, <2>2 DEF RowInv, Free
  <2>4. req[q].pc \in {"wait", "bulk"} => \A p \in req[q].todo : prop'[p].status # "absent"
    BY <2>1, <2>2 DEF RowInv, RowsFine
  <2> QED  BY <2>1, <2>3, <2>4 DEF RowInv, RowsFine
<1>2. Apart'  BY DEF ReviewInv, Apart
<1> QED  BY <1>1, <1>2 DEF ReviewInv, TypeOK

\* A step of r that touches no row and is not an intake's.
LEMMA LocalStep ==
  ASSUME ReviewInv, NEW r \in Request, NEW row \in RequestRow, Becomes(r, row),
         UNCHANGED <<prop, catalogue>>, files' \subseteq Staged, RowInv(row), row.pc \notin IntakePc
  PROVE  ReviewInv'
<1>0. prop' = prop  OBVIOUS
<1>1. RowsFine(r)  BY <1>0 DEF RowsFine
<1>2. RowInv(row)'  BY <1>0 DEF RowInv
<1>3. req' \in [Request -> RequestRow] /\ (\A q \in Request : RowInv(req[q])') /\ Apart'
  BY <1>1, <1>2, OneMoves DEF IntakePc
<1> QED  BY <1>0, <1>3 DEF ReviewInv, TypeOK, AgedDecided, catalogue

LEMMA IdleFine == RowInv(Idle)
  BY IdleType DEF RowInv, IntakePc, DecisionPc

\* A request that ends, whatever it was doing.
LEMMA Ends ==
  ASSUME ReviewInv, NEW r \in Request, Done(r), UNCHANGED <<prop, catalogue>>, files' \subseteq Staged
  PROVE  ReviewInv'
  BY IdleType, IdleFine, LocalStep DEF Done, IntakePc

-----------------------------------------------------------------------------
(* Every step keeps the invariant *)

LEMMA InitReview == Init => ReviewInv
<1> SUFFICES ASSUME Init PROVE ReviewInv  OBVIOUS
<1>1. \A r \in Request : req[r] = Idle  BY DEF Init
<1>2. TypeOK
  <2>1. prop \in [Proposal -> ProposalRow] /\ req \in [Request -> RequestRow]  BY IdleType DEF Init
  <2>2. live \in [Target -> AnyValue]  BY Values DEF Init
  <2> QED  BY <2>1, <2>2 DEF Init, TypeOK
<1>3. Apart  BY <1>1, IdleType DEF Apart, IntakePc
<1>4. AgedDecided  BY DEF Init, AbsentRow, AgedDecided
<1> QED  BY <1>1, <1>2, <1>3, <1>4, IdleFine DEF ReviewInv

LEMMA StartInv ==
  ASSUME ReviewInv, NEW r \in Request, NEW p \in Proposal,
         StartAccept(r, p) \/ StartReject(r, p) \/ StartUndo(r, p) \/ StartRevise(r, p)
  PROVE  ReviewInv'
<1>1. PICK op \in {"accept", "reject", "undo", "revise"}, pc \in {"read", "unstage", "check", "revise"} :
         /\ Starts(r, op, p, pc) /\ prop[p].status \notin Missing
         /\ pc \in {"read", "revise"} => prop[p].status \in Reviewable
         /\ pc = "check" => prop[p].status = "applied"
  BY DEF StartAccept, StartReject, StartUndo, StartRevise, Reviewable, Missing
<1> DEFINE row == [Idle EXCEPT !.pc = pc, !.prop = p, !.copy = Copy(p)]
<1>2. prop \in [Proposal -> ProposalRow] /\ files \subseteq Staged  BY DEF ReviewInv, TypeOK
<1>3. pc \in RequestPc  BY DEF RequestPc
<1>4. row \in RequestRow /\ row.copy.status = prop[p].status  BY <1>2, <1>3, CopyType
<1>5. row.pc = pc /\ row.prop = p  BY DEF Idle
<1>6. Becomes(r, row) /\ UNCHANGED <<prop, files, catalogue>>  BY <1>1 DEF Starts
<1> HIDE DEF row
<1>7. RowInv(row)  BY <1>1, <1>4, <1>5 DEF RowInv, IntakePc, DecisionPc, Missing
<1> QED  BY <1>2, <1>4, <1>5, <1>6, <1>7, LocalStep DEF IntakePc

LEMMA StartIntakeInv == ASSUME ReviewInv, NEW r \in Request, NEW p \in Proposal, StartIntake(r, p)  PROVE ReviewInv'
<1> PICK keep \in BOOLEAN :
      Becomes(r, [Idle EXCEPT !.pc = "supersede", !.prop = p, !.seen = ReadCurrent(p), !.keep = keep])
  BY DEF StartIntake
<1>1. PICK row : row = [Idle EXCEPT !.pc = "supersede", !.prop = p, !.seen = ReadCurrent(p), !.keep = keep]
  OBVIOUS
<1>2. ReadCurrent(p) \in AnyValue
  BY ReviewAssumption, Values DEF ReviewAssumption, ReviewInv, TypeOK, ReadCurrent
<1>3. row.pc = "supersede" /\ row.prop = p  BY <1>1 DEF Idle
<1>4. row \in RequestRow  BY <1>1, <1>2 DEF Idle, RequestRow, RequestPc, NoCopy, AnyValue, Status
<1>5. prop' = prop /\ prop[p].status = "absent"  BY DEF StartIntake
<1>6. RowsFine(r)  BY <1>5 DEF RowsFine
<1>7. RowInv(row)'  BY <1>3, <1>5 DEF RowInv, DecisionPc
<1>8. \A q \in Request \ {r} : req[q].prop # row.prop  BY <1>3 DEF StartIntake
<1>9. req' \in [Request -> RequestRow] /\ (\A q \in Request : RowInv(req[q])') /\ Apart'
  BY <1>1, <1>3, <1>4, <1>6, <1>7, <1>8, OneMoves
<1> QED  BY <1>5, <1>9, ReviewAssumption DEF ReviewAssumption, ReviewInv, TypeOK, AgedDecided, StartIntake, catalogue

\* An intake that goes on with the same row to create and without touching any row.
LEMMA IntakeGoesOn ==
  ASSUME ReviewInv, NEW r \in Request, req[r].pc \in IntakePc, NEW pc \in {"wait", "create"},
         NEW todo \in SUBSET Proposal, Becomes(r, [req[r] EXCEPT !.pc = pc, !.todo = todo]),
         \A p \in todo : TargetOf[p] = TargetOf[req[r].prop] /\ prop[p].status # "absent",
         pc = "wait" => ~req[r].keep,
         pc = "create" => \A p \in todo : /\ Free(p) /\ prop[p].status = "pending"
                                          /\ req[r].keep => prop[p].revision <= 1,
         UNCHANGED <<prop, files, catalogue>>
  PROVE  ReviewInv'
<1>1. req[r] \in RequestRow /\ RowInv(req[r])  BY DEF ReviewInv, TypeOK
<1> PICK row : row = [req[r] EXCEPT !.pc = pc, !.todo = todo]  OBVIOUS
<1>2. row \in RequestRow  BY <1>1, RequestFields DEF RequestPc
<1>3. row.pc = pc /\ row.prop = req[r].prop /\ row.todo = todo /\ row.keep = req[r].keep
  BY <1>1 DEF RequestRow
<1>4. prop' = prop  OBVIOUS
<1>5. RowInv(row)'  BY <1>1, <1>3, <1>4 DEF RowInv, IntakePc, DecisionPc
<1>6. RowsFine(r)  BY <1>4 DEF RowsFine
<1>7. \A q \in Request \ {r} : req[q].pc \in IntakePc => req[q].prop # row.prop
  BY <1>3 DEF ReviewInv, Apart
<1>8. row.pc = "create" => \A q \in Request \ {r} : req[q].pc = "create" => row.todo \cap req[q].todo = {}
  BY <1>3 DEF Free
<1>9. req' \in [Request -> RequestRow] /\ (\A q \in Request : RowInv(req[q])') /\ Apart'
  BY <1>2, <1>5, <1>6, <1>7, <1>8, OneMoves
<1> QED  BY <1>4, <1>9 DEF ReviewInv, TypeOK, AgedDecided, catalogue

LEMMA SupersedeInv ==
  ASSUME ReviewInv, NEW r \in Request, Supersede(r) \/ WaitForRows(r) \/ SupersedeRest(r)
  PROVE  ReviewInv'
<1>1. req[r] \in RequestRow /\ RowInv(req[r]) /\ files \subseteq Staged  BY DEF ReviewInv, TypeOK
<1> DEFINE pending == Pending(TargetOf[req[r].prop])
<1>2. \A p \in pending : p \in Proposal /\ TargetOf[p] = TargetOf[req[r].prop] /\ prop[p].status = "pending"
  BY DEF Pending
<1>3. CASE Supersede(r)
  <2>1. CASE Done(r) /\ files' = files \ {req[r].prop}
    BY <1>1, <1>3, <2>1, Ends DEF Supersede
  <2>2. CASE /\ ~req[r].keep \/ Edited(pending) = {}
             /\ Becomes(r, [req[r] EXCEPT !.pc = "create", !.todo = pending])
             /\ UNCHANGED files
    <3>1. req[r].keep => \A p \in pending : prop[p].revision <= 1
      <4>1. ASSUME req[r].keep, NEW p \in pending  PROVE prop[p].revision <= 1
        <5>1. prop[p].revision \in Nat  BY <1>2 DEF ReviewInv, TypeOK, ProposalRow
        <5>2. ~(prop[p].revision > 1)  BY <2>2, <4>1 DEF Edited
        <5> QED  BY <5>1, <5>2
      <4> QED  BY <4>1
    <3>2. \A p \in pending : Free(p)  BY <1>3 DEF Supersede
    <3>3. UNCHANGED <<prop, catalogue>> /\ req[r].pc = "supersede"  BY <1>3 DEF Supersede
    <3> HIDE DEF pending
    <3> QED  BY <1>1, <1>2, <2>2, <3>1, <3>2, <3>3, IntakeGoesOn DEF IntakePc
  <2> QED  BY <1>3, <2>1, <2>2 DEF Supersede
<1>4. CASE WaitForRows(r)
  <2>1. Becomes(r, [req[r] EXCEPT !.pc = "wait", !.todo = pending])  BY <1>4 DEF WaitForRows
  <2>2. req[r].pc = "supersede" /\ ~req[r].keep /\ UNCHANGED <<prop, files, catalogue>>  BY <1>4 DEF WaitForRows
  <2> HIDE DEF pending
  <2> QED  BY <1>1, <1>2, <2>1, <2>2, IntakeGoesOn DEF IntakePc
<1>5. CASE SupersedeRest(r)
  <2> DEFINE rest == {q \in req[r].todo : prop[q].status = "pending"}
  <2>1. Becomes(r, [req[r] EXCEPT !.pc = "create", !.todo = rest])
    BY <1>1, <1>5 DEF SupersedeRest, RequestRow
  <2>2. /\ req[r].pc = "wait" /\ \A q \in rest : Free(q)
        /\ UNCHANGED <<prop, files, catalogue>>
    BY <1>5 DEF SupersedeRest
  <2>3. rest \in SUBSET Proposal  BY <1>1 DEF RequestRow
  <2>4. \A q \in rest : TargetOf[q] = TargetOf[req[r].prop] /\ prop[q].status = "pending"
    BY <1>1, <2>2 DEF RowInv
  <2>5. ~req[r].keep  BY <1>1, <2>2 DEF RowInv
  <2> HIDE DEF rest
  <2> QED  BY <1>1, <2>1, <2>2, <2>3, <2>4, <2>5, IntakeGoesOn DEF IntakePc
<1> QED  BY <1>3, <1>4, <1>5

LEMMA CreatedRows ==
  ASSUME ReviewInv, NEW r \in Request, Create(r)
  PROVE  /\ prop' \in [Proposal -> ProposalRow]
         /\ req[r].prop \in Proposal /\ prop[req[r].prop].status = "absent"
         /\ prop'[req[r].prop].status = "pending" /\ prop'[req[r].prop].aged = FALSE
         /\ \A p \in req[r].todo :
                /\ p \in Proposal /\ prop[p].status = "pending" /\ prop'[p].status = "superseded"
                /\ TargetOf[p] = TargetOf[req[r].prop]
                /\ req[r].keep => prop[p].revision <= 1
         /\ \A p \in Proposal : p \notin req[r].todo \cup {req[r].prop} => prop'[p] = prop[p]
         /\ \A p \in Proposal : p # req[r].prop => /\ prop'[p].value = prop[p].value
                                                   /\ prop'[p].revision = prop[p].revision
                                                   /\ prop'[p].snapshot = prop[p].snapshot
                                                   /\ prop'[p].applied = prop[p].applied
                                                   /\ prop'[p].aged = prop[p].aged
<1>1. req[r] \in RequestRow /\ RowInv(req[r]) /\ prop \in [Proposal -> ProposalRow]  BY DEF ReviewInv, TypeOK
<1>2. req[r].pc = "create"  BY DEF Create
<1>3. /\ req[r].prop \in Proposal /\ prop[req[r].prop].status = "absent"
      /\ \A p \in req[r].todo : /\ p \in Proposal /\ prop[p].status = "pending"
                                /\ TargetOf[p] = TargetOf[req[r].prop]
                                /\ req[r].keep => prop[p].revision <= 1
  BY <1>1, <1>2 DEF RowInv, IntakePc, RequestRow
<1>0. PICK v \in Value :
      prop' = [q \in Proposal |->
                 IF q = req[r].prop THEN NewRow(v, req[r].seen)
                 ELSE IF q \in req[r].todo THEN [prop[q] EXCEPT !.status = "superseded"] ELSE prop[q]]
  BY DEF Create
<1>4. NewRow(v, req[r].seen) \in ProposalRow
  <2>1. v \in AnyValue /\ None \in AnyValue /\ req[r].seen \in AnyValue  BY <1>1, Values DEF RequestRow
  <2> QED  BY <2>1 DEF NewRow, ProposalRow, Status, Reviewable
<1>5. prop'[req[r].prop] = NewRow(v, req[r].seen)  BY <1>0, <1>3
<1>6. ASSUME NEW p \in req[r].todo
      PROVE  /\ prop'[p] \in ProposalRow /\ prop'[p].status = "superseded"
             /\ prop'[p].value = prop[p].value /\ prop'[p].revision = prop[p].revision
             /\ prop'[p].snapshot = prop[p].snapshot /\ prop'[p].applied = prop[p].applied
             /\ prop'[p].aged = prop[p].aged
  <2>1. p \in Proposal /\ p # req[r].prop /\ prop[p] \in ProposalRow  BY <1>1, <1>3
  <2>2. prop'[p] = [prop[p] EXCEPT !.status = "superseded"]  BY <1>0, <2>1
  <2>3. "superseded" \in Status  BY DEF Status, Final
  <2> QED  BY <2>1, <2>2, <2>3 DEF ProposalRow
<1>7. \A p \in Proposal : p \notin req[r].todo \cup {req[r].prop} => prop'[p] = prop[p]  BY <1>0
<1>8. ASSUME NEW p \in Proposal  PROVE prop'[p] \in ProposalRow
  <2>1. CASE p = req[r].prop  BY <1>4, <1>5, <2>1
  <2>2. CASE p \in req[r].todo  BY <1>6, <2>2
  <2>3. CASE p \notin req[r].todo \cup {req[r].prop}  BY <1>1, <1>7, <2>3
  <2> QED  BY <2>1, <2>2, <2>3
<1>9. prop' \in [Proposal -> ProposalRow]  BY <1>0, <1>8
<1>10. prop'[req[r].prop].status = "pending" /\ prop'[req[r].prop].aged = FALSE  BY <1>5 DEF NewRow
<1>11. \A p \in req[r].todo : prop'[p].status = "superseded"  BY <1>6
<1>12. ASSUME NEW p \in Proposal, p # req[r].prop
       PROVE  /\ prop'[p].value = prop[p].value /\ prop'[p].revision = prop[p].revision
              /\ prop'[p].snapshot = prop[p].snapshot /\ prop'[p].applied = prop[p].applied
              /\ prop'[p].aged = prop[p].aged
  BY <1>6, <1>7, <1>12
<1> QED  BY <1>3, <1>7, <1>9, <1>10, <1>11, <1>12

LEMMA CreateInv == ASSUME ReviewInv, NEW r \in Request, Create(r)  PROVE ReviewInv'
<1>1. req[r].pc = "create" /\ Done(r) /\ UNCHANGED <<files, catalogue>>  BY DEF Create
<1>2. RowsFine(r)
  <2>1. \A p \in req[r].todo : \A q \in Request \ {r} : req[q].pc = "create" => p \notin req[q].todo
    BY <1>1 DEF ReviewInv, Apart
  <2>2. req[r].pc \in IntakePc  BY <1>1 DEF IntakePc
  <2>3. ASSUME NEW p \in Proposal, p \notin req[r].todo \cup {req[r].prop}  PROVE prop'[p] = prop[p]
    BY <2>3, CreatedRows
  <2>4. prop[req[r].prop].status = "absent" /\ prop'[req[r].prop].status # "absent"  BY CreatedRows
  <2>5. \A p \in req[r].todo : prop[p].status = "pending" /\ prop'[p].status = "superseded"  BY CreatedRows
  <2> QED  BY <2>1, <2>2, <2>3, <2>4, <2>5 DEF RowsFine
<1>3. req' \in [Request -> RequestRow] /\ (\A q \in Request : RowInv(req[q])') /\ Apart'
  <2>1. RowInv(Idle)'  BY IdleType DEF RowInv, IntakePc, DecisionPc
  <2> QED  BY <1>1, <1>2, <2>1, IdleType, OneMoves DEF Done, IntakePc
<1>4. AgedDecided'
  <2>1. ASSUME NEW p \in Proposal, prop'[p].aged  PROVE prop'[p].status \notin {"absent", "pending"}
    <3>1. p # req[r].prop  BY <2>1, CreatedRows
    <3>2. CASE p \in req[r].todo  BY <3>2, CreatedRows
    <3>3. CASE p \notin req[r].todo
      <4>1. prop'[p] = prop[p]  BY <3>1, <3>3, CreatedRows
      <4> QED  BY <2>1, <4>1 DEF ReviewInv, AgedDecided
    <3> QED  BY <3>2, <3>3
  <2> QED  BY <2>1 DEF AgedDecided
<1>5. prop' \in [Proposal -> ProposalRow]  BY CreatedRows
<1> QED  BY <1>1, <1>3, <1>4, <1>5 DEF ReviewInv, TypeOK, catalogue

\* One row that exists is saved.
LEMMA RowSaved ==
  ASSUME ReviewInv, NEW p \in Proposal, NEW row \in ProposalRow, Saved(p, row),
         prop[p].status # "absent", row.status # "absent", Free(p) \/ prop[p].status # "pending"
  PROVE  /\ \A r \in Request : RowsFine(r)
         /\ AgedDecided'
         /\ \A q \in Proposal : prop[q].status = "absent" => prop'[q].status = "absent"
         /\ \A q \in Proposal : \/ prop'[q].status = prop[q].status /\ prop'[q].revision = prop[q].revision
                                \/ prop[q].status # "pending"
                                \/ Free(q)
<1>1. /\ prop'[p].status = row.status /\ (prop'[p].aged => row.status = "applied")
      /\ \A q \in Proposal : q # p => prop'[q] = prop[q]
  BY SavedRow DEF ReviewInv, TypeOK
<1>2. Free(p) => \A q \in Request : req[q].pc = "create" => p \notin req[q].todo  BY DEF Free
<1>3. ASSUME NEW r \in Request  PROVE RowsFine(r)
  BY <1>1, <1>2 DEF RowsFine
<1>4. AgedDecided'  BY <1>1 DEF ReviewInv, AgedDecided
<1> QED  BY <1>1, <1>3, <1>4

\* Request r saves a row and ends.
LEMMA SavesAndEnds ==
  ASSUME ReviewInv, NEW r \in Request, NEW p \in Proposal, NEW row \in ProposalRow, Saved(p, row),
         prop[p].status # "absent", row.status # "absent", Free(p) \/ prop[p].status # "pending",
         Done(r), UNCHANGED files,
         live' \in [Target -> AnyValue], writes' \in [Proposal -> Nat], writer' \in [Target -> Proposal \cup {None}]
  PROVE  ReviewInv'
<1>1. prop' \in [Proposal -> ProposalRow]  BY SavedRow DEF ReviewInv, TypeOK
<1>2. RowInv(Idle)'  BY IdleType DEF RowInv, IntakePc, DecisionPc
<1>3. RowsFine(r) /\ AgedDecided'  BY RowSaved
<1>4. req' \in [Request -> RequestRow] /\ (\A q \in Request : RowInv(req[q])') /\ Apart'
  BY <1>2, <1>3, IdleType, OneMoves DEF Done, IntakePc
<1> QED  BY <1>1, <1>3, <1>4 DEF ReviewInv, TypeOK

\* Request r saves the row it works on and goes on.
LEMMA SavesAndGoesOn ==
  ASSUME ReviewInv, NEW r \in Request, NEW p \in Proposal, NEW row \in ProposalRow, Saved(p, row),
         prop[p].status # "absent", row.status # "absent", Free(p) \/ prop[p].status # "pending",
         p = req[r].prop, NEW pc \in {"drift", "write", "drop"}, Goto(r, pc), UNCHANGED files,
         pc = "drift" => req[r].copy.status = "pending", pc = "write" => req[r].copy.status \in Reviewable,
         live' \in [Target -> AnyValue], writes' \in [Proposal -> Nat], writer' \in [Target -> Proposal \cup {None}]
  PROVE  ReviewInv'
<1>1. prop' \in [Proposal -> ProposalRow] /\ prop'[p].status = row.status  BY SavedRow DEF ReviewInv, TypeOK
<1>2. req[r] \in RequestRow  BY DEF ReviewInv, TypeOK
<1> PICK next : next = [req[r] EXCEPT !.pc = pc]  OBVIOUS
<1>3. next \in RequestRow  BY <1>2, RequestFields DEF RequestPc
<1>4. next.pc = pc /\ next.prop = p /\ next.copy = req[r].copy  BY <1>2 DEF RequestRow
<1>5. RowInv(next)'  BY <1>1, <1>4 DEF RowInv, IntakePc, DecisionPc
<1>6. RowsFine(r) /\ AgedDecided'  BY RowSaved
<1>7. req' \in [Request -> RequestRow] /\ (\A q \in Request : RowInv(req[q])') /\ Apart'
  BY <1>3, <1>4, <1>5, <1>6, OneMoves DEF Goto, IntakePc
<1> QED  BY <1>1, <1>6, <1>7 DEF ReviewInv, TypeOK

\* A row with another status, snapshot, value or applied value.
LEMMA StatusField ==
  ASSUME NEW row \in ProposalRow, NEW s \in Status
  PROVE  [row EXCEPT !.status = s] \in ProposalRow /\ [row EXCEPT !.status = s].status = s
  BY DEF ProposalRow

LEMMA SnapshotField ==
  ASSUME NEW row \in ProposalRow, NEW v \in AnyValue
  PROVE  [row EXCEPT !.snapshot = v] \in ProposalRow /\ [row EXCEPT !.snapshot = v].status = row.status
  BY DEF ProposalRow

LEMMA ValueField ==
  ASSUME NEW row \in ProposalRow, NEW v \in AnyValue
  PROVE  /\ [row EXCEPT !.value = v, !.revision = @ + 1] \in ProposalRow
         /\ [row EXCEPT !.value = v, !.revision = @ + 1].status = row.status
<1>1. PICK n \in Nat : n = row.revision + 1  BY DEF ProposalRow
<1>2. [row EXCEPT !.value = v, !.revision = n] \in ProposalRow
      /\ [row EXCEPT !.value = v, !.revision = n].status = row.status
  BY DEF ProposalRow
<1> QED  BY <1>1, <1>2

LEMMA AppliedFields ==
  ASSUME NEW row \in ProposalRow, NEW v \in AnyValue
  PROVE  /\ [row EXCEPT !.status = "applied", !.applied = v] \in ProposalRow
         /\ [row EXCEPT !.status = "applied", !.applied = v].status = "applied"
         /\ [row EXCEPT !.status = "applied", !.applied = v].applied = v
<1>1. "applied" \in Status  BY DEF Status
<1> QED  BY <1>1 DEF ProposalRow

LEMMA ReadLiveInv == ASSUME ReviewInv, NEW r \in Request, ReadLive(r)  PROVE ReviewInv'
<1>1. req[r] \in RequestRow /\ RowInv(req[r]) /\ files \subseteq Staged  BY DEF ReviewInv, TypeOK
<1>2. req[r].pc = "read" /\ req[r].prop \in Proposal /\ prop[req[r].prop].status # "absent"
      /\ req[r].copy.status \in Reviewable
  BY <1>1 DEF ReadLive, RowInv, DecisionPc
<1>3. PICK pc \in {"write", "save"} :
        Becomes(r, [req[r] EXCEPT !.seen = ReadCurrent(req[r].prop), !.pc = pc])
  BY DEF ReadLive
<1> DEFINE row == [req[r] EXCEPT !.seen = ReadCurrent(req[r].prop), !.pc = pc]
<1>4. ReadCurrent(req[r].prop) \in AnyValue
  BY <1>2, ReviewAssumption, Values DEF ReviewAssumption, ReviewInv, TypeOK, ReadCurrent
<1>5. row \in RequestRow  BY <1>1, <1>4, RequestFields DEF RequestPc
<1>6. row.pc = pc /\ row.prop = req[r].prop /\ row.copy = req[r].copy  BY <1>1 DEF RequestRow
<1>7. Becomes(r, row) /\ UNCHANGED <<prop, files, catalogue>>  BY <1>3 DEF ReadLive
<1> HIDE DEF row
<1>8. RowInv(row)  BY <1>2, <1>6 DEF RowInv, IntakePc, DecisionPc
<1> QED  BY <1>1, <1>5, <1>6, <1>7, <1>8, LocalStep DEF IntakePc

LEMMA SaveSnapshotInv == ASSUME ReviewInv, NEW r \in Request, SaveSnapshot(r)  PROVE ReviewInv'
<1>1. req[r] \in RequestRow /\ RowInv(req[r]) /\ files \subseteq Staged /\ prop \in [Proposal -> ProposalRow]
  BY DEF ReviewInv, TypeOK
<1>2. /\ req[r].pc = "save" /\ req[r].prop \in Proposal /\ prop[req[r].prop].status # "absent"
      /\ req[r].copy.status \in Reviewable
  BY <1>1 DEF SaveSnapshot, RowInv, DecisionPc
<1> DEFINE p == req[r].prop
           row == [prop[p] EXCEPT !.snapshot = req[r].seen]
<1>3. CASE /\ Free(p) /\ Saved(p, row)
           /\ Goto(r, IF req[r].copy.status = "pending" THEN "drift" ELSE "write")
  <2>1. row \in ProposalRow /\ row.status = prop[p].status  BY <1>1, <1>2, SnapshotField DEF RequestRow
  <2>2. PICK pc \in {"drift", "write"} : Goto(r, pc) /\ (pc = "drift" => req[r].copy.status = "pending")
    BY <1>3
  <2>3. UNCHANGED <<files, catalogue>>  BY DEF SaveSnapshot
  <2> HIDE DEF row
  <2> QED  BY <1>2, <1>3, <2>1, <2>2, <2>3, SavesAndGoesOn DEF ReviewInv, TypeOK, catalogue
<1>4. CASE Done(r) /\ UNCHANGED prop
  BY <1>1, <1>4, Ends DEF SaveSnapshot
<1> QED  BY <1>3, <1>4 DEF SaveSnapshot

\* The steps that change the status of the row they work on, or are refused.
LEMMA DecideInv ==
  ASSUME ReviewInv, NEW r \in Request, MarkDrifted(r) \/ Reject(r) \/ Revert(r)
  PROVE  ReviewInv'
<1>1. req[r] \in RequestRow /\ RowInv(req[r]) /\ files \subseteq Staged /\ prop \in [Proposal -> ProposalRow]
  BY DEF ReviewInv, TypeOK
<1> DEFINE p == req[r].prop
<1>2. p \in Proposal /\ prop[p].status # "absent"
  BY <1>1 DEF MarkDrifted, Reject, Revert, RowInv, DecisionPc
<1>3. CASE Refused(r)  BY <1>1, <1>3, Ends DEF Refused
<1>4. ASSUME NEW s \in Status \ {"absent"}, SetStatus(p, s), Done(r), UNCHANGED files,
             Free(p) \/ prop[p].status # "pending",
             live' \in [Target -> AnyValue], writes' \in [Proposal -> Nat],
             writer' \in [Target -> Proposal \cup {None}]
      PROVE  ReviewInv'
  <2>1. [prop[p] EXCEPT !.status = s] \in ProposalRow /\ [prop[p] EXCEPT !.status = s].status = s
    BY <1>1, <1>2, StatusField
  <2>2. Saved(p, [prop[p] EXCEPT !.status = s])  BY <1>4 DEF SetStatus
  <2> QED  BY <1>2, <1>4, <2>1, <2>2, SavesAndEnds
<1>5. CASE MarkDrifted(r) /\ ~Refused(r)
  BY <1>4, <1>5 DEF MarkDrifted, Status, Reviewable, catalogue, ReviewInv, TypeOK
<1>6. CASE Reject(r) /\ ~Refused(r)
  BY <1>4, <1>6 DEF Reject, Status, Final, catalogue, ReviewInv, TypeOK
<1>7. CASE Revert(r) /\ ~Refused(r)
  <2>1. prop[p].status = "applied"  BY <1>1, <1>7 DEF Revert, RowInv, Unchanged
  <2>2. req[r].copy.snapshot \in AnyValue  BY <1>1 DEF RequestRow
  <2>3. live' \in [Target -> AnyValue] /\ writer' \in [Target -> Proposal \cup {None}]
    BY <1>2, <1>7, <2>2 DEF Revert, ReviewInv, TypeOK
  <2> QED  BY <1>4, <1>7, <2>1, <2>3 DEF Revert, Status, Final, ReviewInv, TypeOK
<1> QED  BY <1>3, <1>5, <1>6, <1>7

LEMMA WriteInv == ASSUME ReviewInv, NEW r \in Request, Write(r)  PROVE ReviewInv'
<1>1. req[r] \in RequestRow /\ RowInv(req[r]) /\ files \subseteq Staged /\ prop \in [Proposal -> ProposalRow]
  BY DEF ReviewInv, TypeOK
<1> DEFINE p == req[r].prop
           value == IF p \notin Artifact THEN req[r].copy.value ELSE None
           row == [prop[p] EXCEPT !.status = "applied", !.applied = value]
<1>2. p \in Proposal /\ prop[p].status # "absent" /\ Free(p)  BY <1>1 DEF Write, RowInv, DecisionPc
<1>3. CASE Refused(r)  BY <1>1, <1>3, Ends DEF Refused
<1>4. CASE ~Refused(r)
  <2>1. req[r].copy.value \in AnyValue /\ value \in AnyValue  BY <1>1, Values DEF RequestRow
  <2>2. row \in ProposalRow /\ row.status = "applied"  BY <1>1, <1>2, <2>1, AppliedFields
  <2>3. Saved(p, row)  BY <1>4 DEF Write
  <2>4. live' \in [Target -> AnyValue]  BY <1>4, <2>1 DEF Write, ReviewInv, TypeOK
  <2>5. writer' \in [Target -> Proposal \cup {None}]  BY <1>2, <1>4 DEF Write, ReviewInv, TypeOK
  <2>6. writes' \in [Proposal -> Nat]  BY <1>2, <1>4 DEF Write, ReviewInv, TypeOK
  <2>7. UNCHANGED files /\ (Goto(r, "drop") \/ Done(r))  BY <1>4 DEF Write
  <2> HIDE DEF row, value
  <2>8. CASE Done(r)  BY <1>2, <2>2, <2>3, <2>4, <2>5, <2>6, <2>7, <2>8, SavesAndEnds
  <2>9. CASE Goto(r, "drop")  BY <1>2, <2>2, <2>3, <2>4, <2>5, <2>6, <2>7, <2>9, SavesAndGoesOn
  <2> QED  BY <2>7, <2>8, <2>9
<1> QED  BY <1>3, <1>4

\* Steps of r that touch no row.
LEMMA FileInv ==
  ASSUME ReviewInv, NEW r \in Request, DropStaged(r) \/ Unstage(r) \/ UnstageAll(r) \/ PruneFile(r)
  PROVE  ReviewInv'
<1>1. req[r] \in RequestRow /\ RowInv(req[r]) /\ files \subseteq Staged  BY DEF ReviewInv, TypeOK
<1>2. /\ UNCHANGED <<prop, catalogue>> /\ files' \subseteq Staged
      /\ req[r].pc \in {"drop", "unstage", "unstage_all", "prune"}
  BY <1>1 DEF DropStaged, Unstage, UnstageAll, PruneFile
<1>3. CASE Done(r)  BY <1>2, <1>3, Ends
<1>4. CASE Unstage(r)
  <2> DEFINE row == [req[r] EXCEPT !.pc = "reject"]
  <2>1. row \in RequestRow  BY <1>1, RequestFields DEF RequestPc
  <2>2. row.pc = "reject" /\ row.prop = req[r].prop /\ row.copy = req[r].copy /\ req[r].pc = "unstage"
    BY <1>1, <1>4 DEF RequestRow, Unstage
  <2>3. Becomes(r, row)  BY <1>4 DEF Unstage, Goto
  <2> HIDE DEF row
  <2>4. RowInv(row)  BY <1>1, <2>2 DEF RowInv, IntakePc, DecisionPc
  <2> QED  BY <1>2, <2>1, <2>2, <2>3, <2>4, LocalStep DEF IntakePc
<1>5. CASE (UnstageAll(r) \/ PruneFile(r)) /\ ~Done(r)
  <2>1. PICK p \in req[r].todo : Becomes(r, [req[r] EXCEPT !.todo = @ \ {p}])
    BY <1>5 DEF UnstageAll, PruneFile
  <2> DEFINE row == [req[r] EXCEPT !.todo = req[r].todo \ {p}]
  <2>2. row \in RequestRow  BY <1>1, RequestFields DEF RequestRow
  <2>3. row.pc \in {"unstage_all", "prune"}  BY <1>1, <1>5 DEF RequestRow, UnstageAll, PruneFile
  <2>4. Becomes(r, row)  BY <2>1
  <2> HIDE DEF row
  <2>5. RowInv(row)  BY <2>3 DEF RowInv, IntakePc, DecisionPc
  <2> QED  BY <1>2, <2>2, <2>3, <2>4, <2>5, LocalStep DEF IntakePc
<1> QED  BY <1>3, <1>4, <1>5 DEF DropStaged, Unstage, UnstageAll, PruneFile

LEMMA StartManyInv ==
  ASSUME ReviewInv, NEW r \in Request, StartBulkReject(r) \/ StartPrune(r)
  PROVE  ReviewInv'
<1>1. PICK todo \in SUBSET Proposal, pc \in {"bulk", "prune"} :
         /\ Becomes(r, [Idle EXCEPT !.pc = pc, !.todo = todo])
         /\ pc = "bulk" => "bulk_reject" \in Ops /\ \A p \in todo : prop[p].status # "absent"
         /\ UNCHANGED <<prop, files, catalogue>>
  <2>1. CASE StartBulkReject(r)
    <3>1. PICK todo \in SUBSET {p \in Proposal : prop[p].status = "pending"} :
             Becomes(r, [Idle EXCEPT !.pc = "bulk", !.todo = todo])
      BY <2>1 DEF StartBulkReject
    <3>2. UNCHANGED <<prop, files, catalogue>> /\ "bulk_reject" \in Ops  BY <2>1 DEF StartBulkReject
    <3> QED  BY <3>1, <3>2
  <2>2. CASE StartPrune(r)  BY <2>2 DEF StartPrune, Aged
  <2> QED  BY <2>1, <2>2
<1> DEFINE row == [Idle EXCEPT !.pc = pc, !.todo = todo]
<1>2. row \in RequestRow  BY IdleType, RequestFields DEF RequestPc
<1>3. row.pc = pc /\ row.todo = todo  BY DEF Idle
<1>4. Becomes(r, row)  BY <1>1
<1> HIDE DEF row
<1>5. RowInv(row)  BY <1>1, <1>3 DEF RowInv, IntakePc, DecisionPc
<1> QED  BY <1>1, <1>2, <1>3, <1>4, <1>5, LocalStep DEF IntakePc, ReviewInv, TypeOK

LEMMA CheckLiveInv == ASSUME ReviewInv, NEW r \in Request, CheckLive(r)  PROVE ReviewInv'
<1>1. req[r] \in RequestRow /\ RowInv(req[r]) /\ files \subseteq Staged  BY DEF ReviewInv, TypeOK
<1>2. UNCHANGED <<prop, files, catalogue>> /\ req[r].pc = "check"  BY DEF CheckLive
<1>3. CASE Done(r)  BY <1>1, <1>2, <1>3, Ends
<1>4. CASE Goto(r, "revert")
  <2> DEFINE row == [req[r] EXCEPT !.pc = "revert"]
  <2>1. row \in RequestRow  BY <1>1, RequestFields DEF RequestPc
  <2>2. row.pc = "revert" /\ row.prop = req[r].prop /\ row.copy = req[r].copy  BY <1>1 DEF RequestRow
  <2>3. Becomes(r, row)  BY <1>4 DEF Goto
  <2> HIDE DEF row
  <2>4. RowInv(row)  BY <1>1, <1>2, <2>2 DEF RowInv, IntakePc, DecisionPc
  <2> QED  BY <1>1, <1>2, <2>1, <2>2, <2>3, <2>4, LocalStep DEF IntakePc
<1> QED  BY <1>3, <1>4 DEF CheckLive

LEMMA BulkRejectInv == ASSUME ReviewInv, NEW r \in Request, BulkReject(r)  PROVE ReviewInv'
<1>1. req[r] \in RequestRow /\ RowInv(req[r]) /\ prop \in [Proposal -> ProposalRow]  BY DEF ReviewInv, TypeOK
<1>2. req[r].pc = "bulk" /\ (\A p \in req[r].todo : Free(p)) /\ UNCHANGED <<files, catalogue>>  BY DEF BulkReject
<1>3. \A p \in req[r].todo : prop[p].status # "absent"  BY <1>1, <1>2 DEF RowInv
<1>4. prop' = [p \in Proposal |-> IF p \in req[r].todo /\ prop[p].status # "deleted"
                                  THEN [prop[p] EXCEPT !.status = "rejected", !.aged = FALSE] ELSE prop[p]]
  BY DEF BulkReject
<1>5. ASSUME NEW p \in Proposal
      PROVE  /\ prop'[p] \in ProposalRow
             /\ \/ prop'[p] = prop[p]
                \/ (p \in req[r].todo /\ prop'[p].status = "rejected")
  <2>1. "rejected" \in Status  BY DEF Status, Final
  <2>2. CASE p \in req[r].todo /\ prop[p].status # "deleted"
    <3>1. prop'[p] = [prop[p] EXCEPT !.status = "rejected", !.aged = FALSE]  BY <1>4, <2>2
    <3>2. prop[p] \in ProposalRow  BY <1>1
    <3> QED  BY <2>1, <2>2, <3>1, <3>2 DEF ProposalRow
  <2>3. CASE ~(p \in req[r].todo /\ prop[p].status # "deleted")  BY <1>1, <1>4, <2>3
  <2> QED  BY <2>2, <2>3
<1>6. prop' \in [Proposal -> ProposalRow]  BY <1>4, <1>5
<1>7. RowsFine(r)  BY <1>2, <1>3, <1>5 DEF RowsFine, Free
<1> PICK row : row = [req[r] EXCEPT !.pc = "unstage_all"]  OBVIOUS
<1>8. row \in RequestRow /\ row.pc = "unstage_all"
  <2>1. row \in RequestRow  BY <1>1, RequestFields DEF RequestPc
  <2>2. row.pc = "unstage_all"  BY <1>1 DEF RequestRow
  <2> QED  BY <2>1, <2>2
<1>9. Becomes(r, row)  BY DEF BulkReject, Goto
<1>10. RowInv(row)'  BY <1>8 DEF RowInv, IntakePc, DecisionPc
<1>11. req' \in [Request -> RequestRow] /\ (\A q \in Request : RowInv(req[q])') /\ Apart'
  BY <1>7, <1>8, <1>9, <1>10, OneMoves DEF IntakePc
<1>12. AgedDecided'  BY <1>5 DEF ReviewInv, AgedDecided
<1> QED  BY <1>2, <1>6, <1>11, <1>12 DEF ReviewInv, TypeOK, catalogue

LEMMA PruneRowsInv == ASSUME ReviewInv, NEW r \in Request, PruneRows(r)  PROVE ReviewInv'
<1>1. prop \in [Proposal -> ProposalRow]  BY DEF ReviewInv, TypeOK
<1>2. prop' = [p \in Proposal |-> IF prop[p].aged THEN [AbsentRow EXCEPT !.status = "deleted"] ELSE prop[p]]
  BY DEF PruneRows
<1>3. [AbsentRow EXCEPT !.status = "deleted"] \in ProposalRow /\ [AbsentRow EXCEPT !.status = "deleted"].status = "deleted"
  BY IdleType, StatusField DEF Status
<1>4. prop' \in [Proposal -> ProposalRow]  BY <1>1, <1>2, <1>3
<1>5. \A p \in Proposal : prop'[p] = prop[p] \/ (prop[p].aged /\ prop'[p].status = "deleted")  BY <1>2, <1>3
<1>6. RowsFine(r)  BY <1>5 DEF RowsFine, AgedDecided, ReviewInv
<1>7. RowInv(Idle)'  BY IdleType DEF RowInv, IntakePc, DecisionPc
<1>8. req' \in [Request -> RequestRow] /\ (\A q \in Request : RowInv(req[q])') /\ Apart'
  BY <1>6, <1>7, IdleType, OneMoves DEF Done, PruneRows, IntakePc
<1>9. AgedDecided'  BY <1>5 DEF ReviewInv, AgedDecided
<1> QED  BY <1>4, <1>8, <1>9 DEF ReviewInv, TypeOK, PruneRows, catalogue

LEMMA ReviseInv ==
  ASSUME ReviewInv, NEW r \in Request, SaveRevision(r)
  PROVE  ReviewInv'
<1>1. req[r] \in RequestRow /\ RowInv(req[r]) /\ files \subseteq Staged /\ prop \in [Proposal -> ProposalRow]
  BY DEF ReviewInv, TypeOK
<1> DEFINE p == req[r].prop
<1>2. p \in Proposal /\ prop[p].status # "absent" /\ Free(p)  BY <1>1 DEF SaveRevision, RowInv, DecisionPc
<1>3. CASE Refused(r)  BY <1>1, <1>3, Ends DEF Refused
<1>4. CASE ~Refused(r)
  <2>1. PICK v \in Value : Revised(p, v)  BY <1>4 DEF SaveRevision
  <2> DEFINE row == [prop[p] EXCEPT !.value = v, !.revision = @ + 1]
  <2>2. row \in ProposalRow /\ row.status = prop[p].status  BY <1>1, <1>2, Values, ValueField
  <2>3. Saved(p, row)  BY <2>1 DEF Revised
  <2>4. Done(r) /\ UNCHANGED <<files, catalogue>>  BY <1>4 DEF SaveRevision
  <2> HIDE DEF row
  <2> QED  BY <1>2, <2>2, <2>3, <2>4, SavesAndEnds DEF ReviewInv, TypeOK, catalogue
<1> QED  BY <1>3, <1>4

LEMMA EditInv == ASSUME ReviewInv, NEW p \in Proposal, Edit(p)  PROVE ReviewInv'
<1>1. prop \in [Proposal -> ProposalRow]  BY DEF ReviewInv, TypeOK
<1> PICK v \in Value : Revised(p, v)  BY DEF Edit
<1> DEFINE row == [prop[p] EXCEPT !.value = v, !.revision = @ + 1]
<1>2. row \in ProposalRow /\ row.status = prop[p].status  BY <1>1, Values, ValueField
<1>3. Saved(p, row)  BY DEF Revised
<1>4. prop[p].status # "absent" /\ Free(p) /\ UNCHANGED <<files, req, catalogue>>  BY DEF Edit, Reviewable
<1> HIDE DEF row
<1>5. prop' \in [Proposal -> ProposalRow]  BY <1>1, <1>2, <1>3, SavedRow
<1>6. /\ \A r \in Request : RowsFine(r)
      /\ AgedDecided'
      /\ \A q \in Proposal : prop[q].status = "absent" => prop'[q].status = "absent"
      /\ \A q \in Proposal : \/ prop'[q].status = prop[q].status /\ prop'[q].revision = prop[q].revision
                             \/ prop[q].status # "pending"
                             \/ Free(q)
  BY <1>2, <1>3, <1>4, RowSaved
<1>7. req' \in [Request -> RequestRow] /\ (\A q \in Request : RowInv(req[q])') /\ Apart'
  BY <1>4, <1>6, NobodyMoves
<1> QED  BY <1>4, <1>5, <1>6, <1>7 DEF ReviewInv, TypeOK, catalogue

LEMMA AgeInv == ASSUME ReviewInv, NEW p \in Proposal, Age(p)  PROVE ReviewInv'
<1>1. prop \in [Proposal -> ProposalRow] /\ prop[p] \in ProposalRow  BY DEF ReviewInv, TypeOK
<1>2. prop' = [prop EXCEPT ![p].aged = TRUE] /\ UNCHANGED <<files, req, catalogue>>
      /\ prop[p].status \notin Missing \cup {"pending"}
  BY DEF Age
<1>3. /\ [prop[p] EXCEPT !.aged = TRUE] \in ProposalRow
      /\ [prop[p] EXCEPT !.aged = TRUE].status = prop[p].status
      /\ [prop[p] EXCEPT !.aged = TRUE].revision = prop[p].revision
  BY <1>1 DEF ProposalRow
<1>4. prop' \in [Proposal -> ProposalRow] /\ prop'[p] = [prop[p] EXCEPT !.aged = TRUE]
      /\ \A q \in Proposal : q # p => prop'[q] = prop[q]
  BY <1>1, <1>2, <1>3
<1>5. \A q \in Proposal : prop'[q].status = prop[q].status /\ prop'[q].revision = prop[q].revision
  BY <1>3, <1>4
<1>6. \A r \in Request : RowsFine(r)  BY <1>5 DEF RowsFine
<1>7. AgedDecided'  BY <1>2, <1>4, <1>5 DEF ReviewInv, AgedDecided, Missing
<1>8. req' \in [Request -> RequestRow] /\ (\A q \in Request : RowInv(req[q])') /\ Apart'
  BY <1>2, <1>5, <1>6, NobodyMoves
<1> QED  BY <1>2, <1>4, <1>7, <1>8 DEF ReviewInv, TypeOK, catalogue

\* Steps that change no row and no request: somebody edits the catalogue, or nothing happens.
LEMMA OutsideInv ==
  ASSUME ReviewInv, UNCHANGED <<prop, req, files>>, live' \in [Target -> AnyValue], writes' = writes,
         writer' \in [Target -> Proposal \cup {None}]
  PROVE  ReviewInv'
  BY DEF ReviewInv, TypeOK, RowInv, Apart, AgedDecided

-----------------------------------------------------------------------------

LEMMA ReviewStep == ReviewInv /\ [Next]_vars => ReviewInv'
<1> SUFFICES ASSUME ReviewInv, [Next]_vars  PROVE ReviewInv'  OBVIOUS
<1>1. ASSUME NEW r \in Request, NEW p \in Proposal,
             \/ StartIntake(r, p) \/ StartAccept(r, p) \/ StartReject(r, p)
             \/ StartUndo(r, p) \/ StartRevise(r, p)
      PROVE  ReviewInv'
  BY <1>1, StartIntakeInv, StartInv
<1>2. ASSUME NEW r \in Request, IntakeStep(r)  PROVE ReviewInv'
  BY <1>2, SupersedeInv, CreateInv DEF IntakeStep
<1>3. ASSUME NEW r \in Request, AcceptStep(r)  PROVE ReviewInv'
  BY <1>3, ReadLiveInv, SaveSnapshotInv, DecideInv, WriteInv, FileInv DEF AcceptStep
<1>4. ASSUME NEW r \in Request, RejectStep(r)  PROVE ReviewInv'
  BY <1>4, DecideInv, FileInv, BulkRejectInv DEF RejectStep
<1>5. ASSUME NEW r \in Request, UndoStep(r)  PROVE ReviewInv'
  BY <1>5, CheckLiveInv, DecideInv DEF UndoStep
<1>6. ASSUME NEW r \in Request, PruneStep(r)  PROVE ReviewInv'
  BY <1>6, FileInv, PruneRowsInv DEF PruneStep
<1>7. ASSUME NEW r \in Request, StartBulkReject(r) \/ StartPrune(r) \/ SaveRevision(r)  PROVE ReviewInv'
  BY <1>7, StartManyInv, ReviseInv
<1>8. ASSUME NEW r \in Request, Crash(r)  PROVE ReviewInv'
  BY <1>8, Ends DEF Crash, Refused, ReviewInv, TypeOK
<1>9. ASSUME NEW p \in Proposal, Edit(p) \/ Age(p)  PROVE ReviewInv'
  BY <1>9, EditInv, AgeInv
<1>10. ASSUME NEW t \in Target, Outside(t)  PROVE ReviewInv'
  <2>1. live' \in [Target -> AnyValue]  BY <1>10, Values DEF Outside, ReviewInv, TypeOK
  <2>2. writer' \in [Target -> Proposal \cup {None}]  BY <1>10 DEF Outside, ReviewInv, TypeOK
  <2> QED  BY <1>10, <2>1, <2>2, OutsideInv DEF Outside
<1>11. CASE UNCHANGED vars
  BY <1>11, OutsideInv DEF vars, catalogue, ReviewInv, TypeOK
<1> QED  BY <1>1, <1>2, <1>3, <1>4, <1>5, <1>6, <1>7, <1>8, <1>9, <1>10, <1>11 DEF Next

\* Whatever requests overlap and die, an intake keeps the row it is going to create and the rows it
\* supersedes to itself, a decision goes on with the status it read, and what ages was decided.
THEOREM RequestsAreSound == Spec => []ReviewInv
<1> QED  BY InitReview, ReviewStep, PTL DEF Spec

\* Every variable keeps its type.
THEOREM TypesAreKept == Spec => []TypeOK
<1>1. ReviewInv => TypeOK  BY DEF ReviewInv
<1> QED  BY <1>1, RequestsAreSound, PTL

-----------------------------------------------------------------------------
(* What a step may do to the proposals and the catalogue *)

\* The rows outside S keep status and applied value, and their value unless they are open.
Others(S) ==
    \A p \in Proposal \ S : /\ prop'[p].status = prop[p].status /\ prop'[p].applied = prop[p].applied
                            /\ (prop'[p].value = prop[p].value \/ prop[p].status \in Reviewable)

SameDecisions == Others({}) /\ UNCHANGED catalogue

Offered(r) ==
    LET p == req[r].prop
        S == req[r].todo
    IN  /\ req[r].pc = "create" /\ req'[r].pc = "idle"
        /\ p \in Proposal /\ prop[p].status = "absent" /\ prop'[p].status = "pending"
        /\ S \in SUBSET Proposal
        /\ \A q \in S : /\ prop[q].status = "pending" /\ prop'[q].status = "superseded"
                        /\ TargetOf[q] = TargetOf[p] /\ (req[r].keep => prop[q].revision <= 1)
        /\ Others(S \cup {p}) /\ UNCHANGED catalogue

Moved(p) ==
    /\ \/ (prop[p].status = "pending" /\ prop'[p].status = "drifted")
       \/ (prop[p].status \in Reviewable /\ prop'[p].status = "rejected")
    /\ Others({p}) /\ UNCHANGED catalogue

Applied(p) ==
    /\ prop[p].status \in Reviewable /\ prop'[p].status = "applied"
    /\ writes' = [writes EXCEPT ![p] = @ + 1]
    /\ \/ (p \in Artifact /\ UNCHANGED <<live, writer>>)
       \/ /\ writer' = [writer EXCEPT ![TargetOf[p]] = p]
          /\ live' = [live EXCEPT ![TargetOf[p]] = prop'[p].applied]
    /\ Others({p})

Undone(p) ==
    /\ prop[p].status = "applied" /\ prop'[p].status = "reverted" /\ prop'[p].value = prop[p].value
    /\ writer' = [writer EXCEPT ![TargetOf[p]] = p]
    /\ \A t \in Target : t # TargetOf[p] => live'[t] = live[t]
    /\ Others({p}) /\ UNCHANGED writes

RejectedAll(S) ==
    /\ "bulk_reject" \in Ops
    /\ \A p \in S : prop[p].status # "absent" /\ prop'[p].status = "rejected" /\ prop'[p].value = prop[p].value
    /\ Others(S) /\ UNCHANGED catalogue

Forgotten(S) ==
    /\ \A p \in S : prop[p].status \notin {"absent", "pending"} /\ prop'[p].status = "deleted"
    /\ Others(S) /\ UNCHANGED catalogue

Effect ==
    \/ SameDecisions
    \/ \E r \in Request : Offered(r)
    \/ \E p \in Proposal : Moved(p) \/ Applied(p) \/ Undone(p)
    \/ \E S \in SUBSET Proposal : RejectedAll(S) \/ Forgotten(S)
    \/ \E t \in Target : Outside(t)

LEMMA NoRowEffect == ASSUME UNCHANGED <<prop, catalogue>>  PROVE Effect
<1>1. prop' = prop /\ UNCHANGED catalogue  OBVIOUS
<1> QED  BY <1>1 DEF Effect, SameDecisions, Others

LEMMA OfferedEffect == ASSUME ReviewInv, NEW r \in Request, Create(r)  PROVE Effect
<1>1. req[r].pc = "create" /\ UNCHANGED catalogue /\ Done(r)  BY DEF Create
<1>2. req'[r].pc = "idle"  BY <1>1, IdleType DEF Done, Becomes, ReviewInv, TypeOK
<1>3. req[r].todo \in SUBSET Proposal  BY DEF ReviewInv, TypeOK, RequestRow
<1>4. Others(req[r].todo \cup {req[r].prop})
  <2>1. ASSUME NEW p \in Proposal, p \notin req[r].todo \cup {req[r].prop}  PROVE prop'[p] = prop[p]
    BY <2>1, CreatedRows
  <2> QED  BY <2>1 DEF Others
<1>5. /\ req[r].prop \in Proposal /\ prop[req[r].prop].status = "absent" /\ prop'[req[r].prop].status = "pending"
      /\ \A q \in req[r].todo : /\ prop[q].status = "pending" /\ prop'[q].status = "superseded"
                                /\ TargetOf[q] = TargetOf[req[r].prop] /\ (req[r].keep => prop[q].revision <= 1)
  BY CreatedRows
<1>6. Offered(r)  BY <1>1, <1>2, <1>3, <1>4, <1>5 DEF Offered
<1> QED  BY <1>6 DEF Effect

\* A save that leaves the status, and the value of a row that is not open.
LEMMA SavedEffect ==
  ASSUME ReviewInv, NEW p \in Proposal, NEW row \in ProposalRow, Saved(p, row), UNCHANGED catalogue,
         row.status = prop[p].status, row.applied = prop[p].applied,
         row.value = prop[p].value \/ prop[p].status \in Reviewable
  PROVE  Effect
<1>1. /\ prop'[p].status = row.status /\ prop'[p].applied = row.applied /\ prop'[p].value = row.value
      /\ \A q \in Proposal : q # p => prop'[q] = prop[q]
  BY SavedRow DEF ReviewInv, TypeOK
<1> QED  BY <1>1 DEF Effect, SameDecisions, Others

\* Only the row p is written.
LEMMA SavedOthers ==
  ASSUME ReviewInv, NEW p \in Proposal, NEW row \in ProposalRow, Saved(p, row)
  PROVE  /\ prop'[p].status = row.status /\ prop'[p].applied = row.applied /\ prop'[p].value = row.value
         /\ Others({p})
<1>1. /\ prop'[p].status = row.status /\ prop'[p].applied = row.applied /\ prop'[p].value = row.value
      /\ \A q \in Proposal : q # p => prop'[q] = prop[q]
  BY SavedRow DEF ReviewInv, TypeOK
<1> QED  BY <1>1 DEF Others

LEMMA SnapshotEffect == ASSUME ReviewInv, NEW r \in Request, SaveSnapshot(r)  PROVE Effect
<1>1. req[r] \in RequestRow /\ RowInv(req[r]) /\ prop \in [Proposal -> ProposalRow]  BY DEF ReviewInv, TypeOK
<1> DEFINE p == req[r].prop
           row == [prop[p] EXCEPT !.snapshot = req[r].seen]
<1>2. p \in Proposal  BY <1>1 DEF SaveSnapshot, RowInv, DecisionPc
<1>3. CASE UNCHANGED prop  BY <1>3, NoRowEffect DEF SaveSnapshot
<1>4. CASE Saved(p, row)
  <2>1. prop[p] \in ProposalRow /\ req[r].seen \in AnyValue  BY <1>1, <1>2 DEF RequestRow
  <2>2. row \in ProposalRow /\ row.status = prop[p].status  BY <2>1, SnapshotField
  <2>3. row.applied = prop[p].applied /\ row.value = prop[p].value  BY <2>1 DEF ProposalRow
  <2>4. UNCHANGED catalogue  BY DEF SaveSnapshot
  <2> HIDE DEF row
  <2> QED  BY <1>2, <1>4, <2>2, <2>3, <2>4, SavedEffect
<1> QED  BY <1>3, <1>4 DEF SaveSnapshot

LEMMA RevisedEffect ==
  ASSUME ReviewInv, NEW p \in Proposal, NEW v \in Value, Revised(p, v), prop[p].status \in Reviewable, UNCHANGED catalogue
  PROVE  Effect
<1> DEFINE row == [prop[p] EXCEPT !.value = v, !.revision = @ + 1]
<1>1. prop[p] \in ProposalRow  BY DEF ReviewInv, TypeOK
<1>2. row \in ProposalRow /\ row.status = prop[p].status  BY <1>1, Values, ValueField
<1>3. row.applied = prop[p].applied  BY <1>1 DEF ProposalRow
<1>4. Saved(p, row)  BY DEF Revised
<1> HIDE DEF row
<1> QED  BY <1>2, <1>3, <1>4, SavedEffect

LEMMA DecideEffect ==
  ASSUME ReviewInv, NEW r \in Request, MarkDrifted(r) \/ Reject(r) \/ Revert(r)
  PROVE  Effect
<1>1. req[r] \in RequestRow /\ RowInv(req[r]) /\ prop \in [Proposal -> ProposalRow]  BY DEF ReviewInv, TypeOK
<1> DEFINE p == req[r].prop
<1>2. p \in Proposal  BY <1>1 DEF MarkDrifted, Reject, Revert, RowInv, DecisionPc
<1>3. CASE Refused(r)  BY <1>3, NoRowEffect DEF Refused
<1>4. ASSUME NEW s \in Status, SetStatus(p, s)
      PROVE  prop'[p].status = s /\ prop'[p].value = prop[p].value /\ Others({p})
  <2> DEFINE row == [prop[p] EXCEPT !.status = s]
  <2>1. prop[p] \in ProposalRow  BY <1>1, <1>2
  <2>2. row \in ProposalRow /\ row.status = s  BY <2>1, StatusField
  <2>3. row.value = prop[p].value  BY <2>1 DEF ProposalRow
  <2>4. Saved(p, row)  BY <1>4 DEF SetStatus
  <2> HIDE DEF row
  <2> QED  BY <1>2, <2>2, <2>3, <2>4, SavedOthers
<1>5. CASE MarkDrifted(r) /\ ~Refused(r)
  <2>1. SetStatus(p, "drifted") /\ UNCHANGED catalogue /\ prop[p].status = "pending"
    BY <1>1, <1>5 DEF MarkDrifted, RowInv, Unchanged
  <2>2. Moved(p)  BY <1>4, <2>1 DEF Moved, Status, Reviewable
  <2> QED  BY <1>2, <2>2 DEF Effect
<1>6. CASE Reject(r) /\ ~Refused(r)
  <2>1. SetStatus(p, "rejected") /\ UNCHANGED catalogue /\ Unchanged(r, "rejected")  BY <1>6 DEF Reject
  <2>2. req[r].copy.status \in Status \ Missing  BY <1>1, <1>6 DEF RowInv, Reject, RequestRow
  <2>3. prop[p].status \in Reviewable
    BY <2>1, <2>2 DEF Unchanged, Transitions, Reviewable, Status, Final, Missing
  <2>4. Moved(p)  BY <1>4, <2>1, <2>3 DEF Moved, Status, Final
  <2> QED  BY <1>2, <2>4 DEF Effect
<1>7. CASE Revert(r) /\ ~Refused(r)
  <2>1. prop[p].status = "applied" /\ SetStatus(p, "reverted") /\ UNCHANGED writes
        /\ writer' = [writer EXCEPT ![TargetOf[p]] = p]
    BY <1>1, <1>7 DEF Revert, RowInv, Unchanged
  <2>2. \A t \in Target : t # TargetOf[p] => live'[t] = live[t]  BY <1>7 DEF Revert, ReviewInv, TypeOK
  <2>3. Undone(p)  BY <1>4, <2>1, <2>2 DEF Undone, Status, Final
  <2> QED  BY <1>2, <2>3 DEF Effect
<1> QED  BY <1>3, <1>5, <1>6, <1>7

LEMMA WriteEffect == ASSUME ReviewInv, NEW r \in Request, Write(r)  PROVE Effect
<1>1. req[r] \in RequestRow /\ RowInv(req[r]) /\ prop \in [Proposal -> ProposalRow]  BY DEF ReviewInv, TypeOK
<1> DEFINE p == req[r].prop
           value == IF p \notin Artifact THEN req[r].copy.value ELSE None
           row == [prop[p] EXCEPT !.status = "applied", !.applied = value]
<1>2. p \in Proposal /\ req[r].copy.status \in Reviewable  BY <1>1 DEF Write, RowInv, DecisionPc
<1>3. CASE Refused(r)  BY <1>3, NoRowEffect DEF Refused
<1>4. CASE ~Refused(r)
  <2>1. value \in AnyValue  BY <1>1, Values DEF RequestRow
  <2>2. row \in ProposalRow /\ row.status = "applied" /\ row.applied = value  BY <1>1, <1>2, <2>1, AppliedFields
  <2>3. Saved(p, row) /\ writes' = [writes EXCEPT ![p] = @ + 1]  BY <1>4 DEF Write
  <2>4. prop[p].status \in Reviewable  BY <1>2, <1>4 DEF Write, Unchanged
  <2>5. \/ (p \in Artifact /\ UNCHANGED <<live, writer>>)
        \/ (live' = [live EXCEPT ![TargetOf[p]] = value] /\ writer' = [writer EXCEPT ![TargetOf[p]] = p])
    BY <1>4 DEF Write
  <2> HIDE DEF row, value
  <2>6. prop'[p].status = "applied" /\ prop'[p].applied = value /\ Others({p})  BY <1>2, <2>2, <2>3, SavedOthers
  <2>7. Applied(p)  BY <2>3, <2>4, <2>5, <2>6 DEF Applied
  <2> QED  BY <1>2, <2>7 DEF Effect
<1> QED  BY <1>3, <1>4

LEMMA BulkEffect == ASSUME ReviewInv, NEW r \in Request, BulkReject(r)  PROVE Effect
<1>1. req[r] \in RequestRow /\ RowInv(req[r]) /\ prop \in [Proposal -> ProposalRow]  BY DEF ReviewInv, TypeOK
<1> DEFINE S == {p \in req[r].todo : prop[p].status # "deleted"}
<1>2. S \in SUBSET Proposal /\ "bulk_reject" \in Ops /\ UNCHANGED catalogue
      /\ \A p \in S : prop[p].status # "absent"
  BY <1>1 DEF BulkReject, RowInv, RequestRow
<1>3. prop' = [p \in Proposal |-> IF p \in req[r].todo /\ prop[p].status # "deleted"
                                  THEN [prop[p] EXCEPT !.status = "rejected", !.aged = FALSE] ELSE prop[p]]
  BY DEF BulkReject
<1>4. ASSUME NEW p \in S  PROVE prop'[p].status = "rejected" /\ prop'[p].value = prop[p].value
  <2>1. prop'[p] = [prop[p] EXCEPT !.status = "rejected", !.aged = FALSE]  BY <1>2, <1>3
  <2>2. prop[p] \in ProposalRow  BY <1>1, <1>2
  <2> QED  BY <2>1, <2>2 DEF ProposalRow
<1>5. Others(S)
  <2>1. \A p \in Proposal \ S : prop'[p] = prop[p]  BY <1>3
  <2> QED  BY <2>1 DEF Others
<1> HIDE DEF S
<1>6. RejectedAll(S)  BY <1>2, <1>4, <1>5 DEF RejectedAll
<1> QED  BY <1>2, <1>6 DEF Effect

LEMMA PruneEffect == ASSUME ReviewInv, NEW r \in Request, PruneRows(r)  PROVE Effect
<1> DEFINE S == {p \in Proposal : prop[p].aged}
<1>1. prop' = [p \in Proposal |-> IF prop[p].aged THEN [AbsentRow EXCEPT !.status = "deleted"] ELSE prop[p]]
  BY DEF PruneRows
<1>2. \A p \in S : prop[p].status \notin {"absent", "pending"}  BY DEF ReviewInv, AgedDecided
<1>3. [AbsentRow EXCEPT !.status = "deleted"].status = "deleted"  BY IdleType, StatusField DEF Status
<1>4. \A p \in S : prop'[p].status = "deleted"  BY <1>1, <1>3
<1>5. Others(S)
  <2>1. \A p \in Proposal \ S : prop'[p] = prop[p]  BY <1>1
  <2> QED  BY <2>1 DEF Others
<1>6. UNCHANGED catalogue /\ S \in SUBSET Proposal  BY DEF PruneRows
<1> HIDE DEF S
<1>7. Forgotten(S)  BY <1>2, <1>4, <1>5, <1>6 DEF Forgotten
<1> QED  BY <1>6, <1>7 DEF Effect

LEMMA AgeEffect == ASSUME ReviewInv, NEW p \in Proposal, Age(p)  PROVE Effect
<1>1. prop[p] \in ProposalRow /\ prop' = [prop EXCEPT ![p].aged = TRUE] /\ UNCHANGED catalogue
  BY DEF Age, ReviewInv, TypeOK
<1>2. prop'[p] = [prop[p] EXCEPT !.aged = TRUE] /\ \A q \in Proposal : q # p => prop'[q] = prop[q]
  BY <1>1 DEF ReviewInv, TypeOK
<1>3. /\ prop'[p].status = prop[p].status /\ prop'[p].applied = prop[p].applied
      /\ prop'[p].value = prop[p].value
  BY <1>1, <1>2 DEF ProposalRow
<1> QED  BY <1>1, <1>2, <1>3 DEF Effect, SameDecisions, Others

\* Every step has one of the effects.
LEMMA Effects == ReviewInv /\ [Next]_vars => Effect
<1> SUFFICES ASSUME ReviewInv, [Next]_vars  PROVE Effect  OBVIOUS
<1>1. ASSUME NEW r \in Request, NEW p \in Proposal,
             \/ StartIntake(r, p) \/ StartAccept(r, p) \/ StartReject(r, p)
             \/ StartUndo(r, p) \/ StartRevise(r, p)
      PROVE  Effect
  <2>1. UNCHANGED <<prop, catalogue>>
    BY <1>1 DEF StartIntake, StartAccept, StartReject, StartUndo, StartRevise, Starts
  <2> QED  BY <2>1, NoRowEffect
<1>2. ASSUME NEW r \in Request, IntakeStep(r)  PROVE Effect
  <2>1. CASE Create(r)  BY <2>1, OfferedEffect
  <2>2. CASE ~Create(r)  BY <1>2, <2>2, NoRowEffect DEF IntakeStep, Supersede, WaitForRows, SupersedeRest
  <2> QED  BY <2>1, <2>2
<1>3. ASSUME NEW r \in Request, AcceptStep(r)  PROVE Effect
  <2>1. CASE ReadLive(r) \/ DropStaged(r)  BY <2>1, NoRowEffect DEF ReadLive, DropStaged
  <2> QED  BY <1>3, <2>1, SnapshotEffect, DecideEffect, WriteEffect DEF AcceptStep
<1>4. ASSUME NEW r \in Request, RejectStep(r)  PROVE Effect
  <2>1. CASE Unstage(r) \/ UnstageAll(r)  BY <2>1, NoRowEffect DEF Unstage, UnstageAll
  <2> QED  BY <1>4, <2>1, DecideEffect, BulkEffect DEF RejectStep
<1>5. ASSUME NEW r \in Request, UndoStep(r)  PROVE Effect
  <2>1. CASE CheckLive(r)  BY <2>1, NoRowEffect DEF CheckLive
  <2> QED  BY <1>5, <2>1, DecideEffect DEF UndoStep
<1>6. ASSUME NEW r \in Request, PruneStep(r)  PROVE Effect
  <2>1. CASE PruneFile(r)  BY <2>1, NoRowEffect DEF PruneFile
  <2> QED  BY <1>6, <2>1, PruneEffect DEF PruneStep
<1>7. ASSUME NEW r \in Request, StartBulkReject(r) \/ StartPrune(r) \/ Crash(r)  PROVE Effect
  BY <1>7, NoRowEffect DEF StartBulkReject, StartPrune, Crash, Refused
<1>8. ASSUME NEW r \in Request, SaveRevision(r)  PROVE Effect
  <2>1. CASE Refused(r)  BY <2>1, NoRowEffect DEF Refused
  <2>2. CASE ~Refused(r)
    <3>1. req[r].prop \in Proposal  BY <1>8 DEF SaveRevision, ReviewInv, RowInv, DecisionPc
    <3>2. prop[req[r].prop].status \in Reviewable /\ UNCHANGED catalogue
          /\ \E v \in Value : Revised(req[r].prop, v)
      BY <1>8, <2>2 DEF SaveRevision, StillOpen
    <3> QED  BY <3>1, <3>2, RevisedEffect
  <2> QED  BY <2>1, <2>2
<1>9. ASSUME NEW p \in Proposal, Edit(p) \/ Age(p)  PROVE Effect
  <2>1. CASE Edit(p)  BY <2>1, RevisedEffect DEF Edit
  <2> QED  BY <1>9, <2>1, AgeEffect
<1>10. ASSUME NEW t \in Target, Outside(t)  PROVE Effect
  BY <1>10 DEF Effect
<1>11. CASE UNCHANGED vars
  BY <1>11, NoRowEffect DEF vars, catalogue
<1> QED  BY <1>1, <1>2, <1>3, <1>4, <1>5, <1>6, <1>7, <1>8, <1>9, <1>10, <1>11 DEF Next

-----------------------------------------------------------------------------
(* Decisions are final *)

\* Edits reach a proposal only while it is open, late AI answers too, even when many are rejected at once.
THEOREM DecidedValuesStay == Spec => DecidedValueStays
<1>1. ASSUME ReviewInv, [Next]_vars, NEW p \in Proposal,
             prop[p].status \notin Reviewable \cup Missing, prop'[p].status # "deleted"
      PROVE  prop'[p].value = prop[p].value
  <2>1. Effect  BY <1>1, Effects
  <2>2. CASE SameDecisions  BY <1>1, <2>2 DEF SameDecisions, Others
  <2>3. ASSUME NEW r \in Request, Offered(r)  PROVE prop'[p].value = prop[p].value
    BY <1>1, <2>3 DEF Offered, Others, Missing, Reviewable
  <2>4. ASSUME NEW q \in Proposal, Moved(q) \/ Applied(q) \/ Undone(q)  PROVE prop'[p].value = prop[p].value
    BY <1>1, <2>4 DEF Moved, Applied, Undone, Others, Reviewable
  <2>5. ASSUME NEW S \in SUBSET Proposal, RejectedAll(S) \/ Forgotten(S)  PROVE prop'[p].value = prop[p].value
    BY <1>1, <2>5 DEF RejectedAll, Forgotten, Others
  <2>6. ASSUME NEW t \in Target, Outside(t)  PROVE prop'[p].value = prop[p].value
    BY <2>6 DEF Outside
  <2> QED  BY <2>1, <2>2, <2>3, <2>4, <2>5, <2>6 DEF Effect
<1>2. ReviewInv /\ [Next]_vars =>
        [\A p \in Proposal : (prop[p].status \notin Reviewable \cup Missing /\ prop'[p].status # "deleted")
            => prop'[p].value = prop[p].value]_vars
  BY <1>1
<1> QED  BY <1>2, RequestsAreSound, PTL DEF Spec, DecidedValueStays

\* A pending proposal the operator edited is superseded only by an intake that does not keep edits: no
\* edit gets in between that intake's look at the revisions and its commit.
THEOREM EditsAreKept == Spec => EditsKept
<1>1. ASSUME ReviewInv, [Next]_vars, NEW p \in Proposal, prop[p].status = "pending",
             prop'[p].status = "superseded", prop[p].revision > 1
      PROVE  \E r \in Request : req[r].pc = "create" /\ req'[r].pc = "idle" /\ ~req[r].keep
  <2>1. Effect  BY <1>1, Effects
  <2>2. ~SameDecisions  BY <1>1 DEF SameDecisions, Others
  <2>3. ASSUME NEW r \in Request, Offered(r)
        PROVE  req[r].pc = "create" /\ req'[r].pc = "idle" /\ ~req[r].keep
    <3>1. p \in req[r].todo  BY <1>1, <2>3 DEF Offered, Others
    <3>2. req[r].keep => prop[p].revision <= 1  BY <2>3, <3>1 DEF Offered
    <3>3. prop[p].revision \in Nat  BY <1>1 DEF ReviewInv, TypeOK, ProposalRow
    <3> QED  BY <1>1, <2>3, <3>2, <3>3 DEF Offered
  <2>4. ASSUME NEW q \in Proposal  PROVE ~(Moved(q) \/ Applied(q) \/ Undone(q))
    BY <1>1 DEF Moved, Applied, Undone, Others
  <2>5. ASSUME NEW S \in SUBSET Proposal  PROVE ~(RejectedAll(S) \/ Forgotten(S))
    BY <1>1 DEF RejectedAll, Forgotten, Others
  <2>6. ASSUME NEW t \in Target  PROVE ~Outside(t)
    BY <1>1 DEF Outside
  <2> QED  BY <2>1, <2>2, <2>3, <2>4, <2>5, <2>6 DEF Effect
<1>2. ReviewInv /\ [Next]_vars =>
        [\A p \in Proposal : (prop[p].status = "pending" /\ prop'[p].status = "superseded" /\ prop[p].revision > 1)
            => \E r \in Request : req[r].pc = "create" /\ req'[r].pc = "idle" /\ ~req[r].keep]_vars
  BY <1>1
<1> QED  BY <1>2, RequestsAreSound, PTL DEF Spec, EditsKept

\* Overlapping and dying intakes never supersede each other into nothing.
THEOREM SupersededAreReplaced == Spec => []SupersededReplaced
<1>1. Init => SupersededReplaced  BY DEF Init, SupersededReplaced, AbsentRow
<1>2. ASSUME ReviewInv, SupersededReplaced, [Next]_vars  PROVE SupersededReplaced'
  <2>1. Effect  BY <1>2, Effects
  <2>2. CASE SameDecisions  BY <1>2, <2>2 DEF SameDecisions, Others, SupersededReplaced
  <2>3. ASSUME NEW r \in Request, Offered(r)  PROVE SupersededReplaced'
    <3> DEFINE p == req[r].prop
               S == req[r].todo
    <3>1. ASSUME NEW x \in Proposal, prop'[x].status = "superseded"
          PROVE  \E y \in Proposal : TargetOf[y] = TargetOf[x] /\ prop'[y].status \notin {"absent", "superseded"}
      <4>1. CASE x \in S  BY <2>3, <4>1 DEF Offered
      <4>2. CASE x \notin S
        <5>1. prop[x].status = "superseded"  BY <2>3, <3>1, <4>2 DEF Offered, Others
        <5>2. PICK y \in Proposal : TargetOf[y] = TargetOf[x] /\ prop[y].status \notin {"absent", "superseded"}
          BY <1>2, <5>1 DEF SupersededReplaced
        <5>3. CASE y \in S  BY <2>3, <5>2, <5>3 DEF Offered
        <5>4. CASE y \notin S  BY <2>3, <5>2, <5>4 DEF Offered, Others
        <5> QED  BY <5>3, <5>4
      <4> QED  BY <4>1, <4>2
    <3> QED  BY <3>1 DEF SupersededReplaced
  <2>4. ASSUME NEW q \in Proposal, Moved(q) \/ Applied(q) \/ Undone(q)  PROVE SupersededReplaced'
    <3>1. /\ prop'[q].status \notin {"absent", "superseded"}
          /\ \A p \in Proposal : p # q => prop'[p].status = prop[p].status
      BY <2>4 DEF Moved, Applied, Undone, Others
    <3> QED  BY <1>2, <3>1 DEF SupersededReplaced
  <2>5. ASSUME NEW S \in SUBSET Proposal, RejectedAll(S) \/ Forgotten(S)  PROVE SupersededReplaced'
    <3>1. /\ \A p \in S : prop'[p].status \notin {"absent", "superseded"}
          /\ \A p \in Proposal \ S : prop'[p].status = prop[p].status
      BY <2>5 DEF RejectedAll, Forgotten, Others
    <3> QED  BY <1>2, <3>1 DEF SupersededReplaced
  <2>6. ASSUME NEW t \in Target, Outside(t)  PROVE SupersededReplaced'
    BY <1>2, <2>6 DEF Outside, SupersededReplaced
  <2> QED  BY <2>1, <2>2, <2>3, <2>4, <2>5, <2>6 DEF Effect
<1> QED  BY <1>1, <1>2, RequestsAreSound, PTL DEF Spec

-----------------------------------------------------------------------------
(* Without bulk_reject a proposal is decided once *)

\* Only the target's own proposals write it, and writes and decisions agree.
DecisionInv == DecidedOnce /\ CatalogueMatches /\ \A t \in Target : writer[t] # None => TargetOf[writer[t]] = t

LEMMA AppliedOnce ==
  ASSUME TypeOK, DecisionInv, NEW p \in Proposal, Applied(p)
  PROVE  DecisionInv'
<1>1. /\ prop[p].status \in Reviewable /\ prop'[p].status = "applied" /\ writes[p] = 0
      /\ writes' = [writes EXCEPT ![p] = 1]
      /\ \A q \in Proposal : q # p => prop'[q].status = prop[q].status /\ prop'[q].applied = prop[q].applied
  <2>1. prop[p].status \in Reviewable /\ prop'[p].status = "applied" /\ writes' = [writes EXCEPT ![p] = @ + 1]
    BY DEF Applied
  <2>2. writes[p] = 0  BY <2>1 DEF DecisionInv, DecidedOnce, Reviewable
  <2>3. \A q \in Proposal : q # p => prop'[q].status = prop[q].status /\ prop'[q].applied = prop[q].applied
    BY DEF Applied, Others
  <2> QED  BY <2>1, <2>2, <2>3
<1>2. DecidedOnce'  BY <1>1 DEF DecisionInv, DecidedOnce, TypeOK
<1>3. \A t \in Target : writer[t] # p
  BY <1>1, ReviewAssumption DEF ReviewAssumption, DecisionInv, CatalogueMatches, Reviewable
<1>4. \A t \in Target : writer[t] \in Proposal \cup {None}  BY DEF TypeOK
<1>5. CASE UNCHANGED <<live, writer>>
  BY <1>1, <1>2, <1>3, <1>4, <1>5 DEF DecisionInv, CatalogueMatches
<1>6. CASE writer' = [writer EXCEPT ![TargetOf[p]] = p] /\ live' = [live EXCEPT ![TargetOf[p]] = prop'[p].applied]
  <2>1. TargetOf[p] \in Target  BY ReviewAssumption DEF ReviewAssumption
  <2>2. ASSUME NEW t \in Target, writer'[t] # None
        PROVE  /\ TargetOf[writer'[t]] = t
               /\ \/ (prop'[writer'[t]].status = "applied" /\ prop'[writer'[t]].applied = live'[t])
                  \/ prop'[writer'[t]].status \in {"reverted", "deleted"}
    <3>1. CASE t = TargetOf[p]
      <4>1. writer'[t] = p /\ live'[t] = prop'[p].applied  BY <1>6, <2>1, <3>1 DEF TypeOK
      <4> QED  BY <1>1, <3>1, <4>1
    <3>2. CASE t # TargetOf[p]
      <4>1. writer'[t] = writer[t] /\ live'[t] = live[t]  BY <1>6, <3>2 DEF TypeOK
      <4>2. writer[t] \in Proposal /\ writer[t] # p  BY <1>3, <1>4, <2>2, <4>1
      <4> QED  BY <1>1, <2>2, <4>1, <4>2 DEF DecisionInv, CatalogueMatches
    <3> QED  BY <3>1, <3>2
  <2> QED  BY <1>2, <2>2 DEF DecisionInv, CatalogueMatches
<1> QED  BY <1>5, <1>6 DEF Applied

LEMMA UndoneOnce ==
  ASSUME TypeOK, DecisionInv, NEW p \in Proposal, Undone(p)
  PROVE  DecisionInv'
<1>1. /\ prop[p].status = "applied" /\ prop'[p].status = "reverted" /\ writes' = writes
      /\ \A q \in Proposal : q # p => prop'[q].status = prop[q].status /\ prop'[q].applied = prop[q].applied
  BY DEF Undone, Others
<1>2. DecidedOnce'  BY <1>1 DEF DecisionInv, DecidedOnce
<1>3. \A t \in Target : writer[t] \in Proposal \cup {None}  BY DEF TypeOK
<1>4. ASSUME NEW t \in Target, writer'[t] # None
      PROVE  /\ TargetOf[writer'[t]] = t
             /\ \/ (prop'[writer'[t]].status = "applied" /\ prop'[writer'[t]].applied = live'[t])
                \/ prop'[writer'[t]].status \in {"reverted", "deleted"}
  <2>1. CASE t = TargetOf[p]
    <3>1. writer'[t] = p  BY <2>1 DEF Undone, TypeOK
    <3> QED  BY <1>1, <2>1, <3>1
  <2>2. CASE t # TargetOf[p]
    <3>1. writer'[t] = writer[t] /\ live'[t] = live[t]  BY <2>2 DEF Undone, TypeOK
    <3>2. writer[t] \in Proposal  BY <1>3, <1>4, <3>1
    <3>3. TargetOf[writer[t]] = t /\ writer[t] # p  BY <1>4, <2>2, <3>1 DEF DecisionInv
    <3> QED  BY <1>1, <1>4, <3>1, <3>2, <3>3 DEF DecisionInv, CatalogueMatches
  <2> QED  BY <2>1, <2>2
<1> QED  BY <1>2, <1>4 DEF DecisionInv, CatalogueMatches

\* A step that leaves the catalogue alone, and the rows that were applied: these may only be forgotten.
LEMMA NotWritten ==
  ASSUME TypeOK, DecisionInv, UNCHANGED catalogue,
         \A p \in Proposal :
            \/ (prop'[p].status = prop[p].status /\ prop'[p].applied = prop[p].applied)
            \/ prop'[p].status = "deleted"
            \/ (prop[p].status \in Reviewable \cup {"absent"} /\ prop'[p].status \in Reviewable \cup {"rejected", "superseded"})
  PROVE  DecisionInv'
<1>1. live' = live /\ writes' = writes /\ writer' = writer  BY DEF catalogue
<1>2. DecidedOnce'  BY <1>1 DEF DecisionInv, DecidedOnce, Reviewable, Final
<1>3. \A t \in Target : writer[t] \in Proposal \cup {None}  BY DEF TypeOK
<1>4. CatalogueMatches'  BY <1>1, <1>3 DEF DecisionInv, CatalogueMatches, Reviewable
<1> QED  BY <1>1, <1>2, <1>4 DEF DecisionInv

LEMMA DecisionStep ==
  ASSUME "bulk_reject" \notin Ops, ReviewInv, DecisionInv, [Next]_vars
  PROVE  DecisionInv'
<1>1. Effect /\ TypeOK  BY Effects DEF ReviewInv
<1>2. CASE SameDecisions  BY <1>1, <1>2, NotWritten DEF SameDecisions, Others
<1>3. ASSUME NEW r \in Request, Offered(r)  PROVE DecisionInv'
  <2>1. UNCHANGED catalogue  BY <1>3 DEF Offered
  <2>2. ASSUME NEW p \in Proposal
        PROVE  \/ (prop'[p].status = prop[p].status /\ prop'[p].applied = prop[p].applied)
               \/ (prop[p].status \in Reviewable \cup {"absent"} /\ prop'[p].status \in Reviewable \cup {"rejected", "superseded"})
    BY <1>3 DEF Offered, Others, Reviewable, Final
  <2> QED  BY <1>1, <2>1, <2>2, NotWritten
<1>4. ASSUME NEW q \in Proposal, Moved(q)  PROVE DecisionInv'
  <2>1. UNCHANGED catalogue  BY <1>4 DEF Moved
  <2>2. ASSUME NEW p \in Proposal
        PROVE  \/ (prop'[p].status = prop[p].status /\ prop'[p].applied = prop[p].applied)
               \/ (prop[p].status \in Reviewable \cup {"absent"} /\ prop'[p].status \in Reviewable \cup {"rejected", "superseded"})
    BY <1>4 DEF Moved, Others, Reviewable, Final
  <2> QED  BY <1>1, <2>1, <2>2, NotWritten
<1>5. ASSUME NEW S \in SUBSET Proposal, Forgotten(S)  PROVE DecisionInv'
  <2>1. UNCHANGED catalogue  BY <1>5 DEF Forgotten
  <2>2. ASSUME NEW p \in Proposal
        PROVE  \/ (prop'[p].status = prop[p].status /\ prop'[p].applied = prop[p].applied)
               \/ prop'[p].status = "deleted"
    BY <1>5 DEF Forgotten, Others
  <2> QED  BY <1>1, <2>1, <2>2, NotWritten
<1>6. ASSUME NEW t \in Target, Outside(t)  PROVE DecisionInv'
  <2>1. /\ prop' = prop /\ writes' = writes /\ writer' = [writer EXCEPT ![t] = None]
        /\ \A u \in Target : u # t => live'[u] = live[u]
    BY <1>1, <1>6 DEF Outside, TypeOK
  <2>2. \A u \in Target : writer'[u] # None => u # t /\ writer'[u] = writer[u]  BY <1>1, <2>1 DEF TypeOK
  <2> QED  BY <2>1, <2>2 DEF DecisionInv, DecidedOnce, CatalogueMatches
<1> QED  BY <1>1, <1>2, <1>3, <1>4, <1>5, <1>6, AppliedOnce, UndoneOnce DEF Effect, RejectedAll

LEMMA DecisionsHold == ASSUME "bulk_reject" \notin Ops  PROVE Spec => []DecisionInv
<1>1. Init => DecisionInv
  BY ReviewAssumption DEF ReviewAssumption, Init, AbsentRow, DecisionInv, DecidedOnce, CatalogueMatches
<1>2. ReviewInv /\ DecisionInv /\ [Next]_vars => DecisionInv'  BY DecisionStep
<1> QED  BY <1>1, <1>2, RequestsAreSound, PTL DEF Spec

\* One by one, the catalogue is written once for a proposal, together with its decision, whatever requests
\* overlap and die.
THEOREM DecisionsAreFinal == ASSUME "bulk_reject" \notin Ops  PROVE Spec => []DecidedOnce
<1>1. DecisionInv => DecidedOnce  BY DEF DecisionInv
<1> QED  BY <1>1, DecisionsHold, PTL

\* What the bus wrote last to a target is what its proposal says, until somebody else edits it.
THEOREM CatalogueAgrees == ASSUME "bulk_reject" \notin Ops  PROVE Spec => []CatalogueMatches
<1>1. DecisionInv => CatalogueMatches  BY DEF DecisionInv
<1> QED  BY <1>1, DecisionsHold, PTL

\* The code keeps the abstract promise, without bulk_reject.
THEOREM ImplementsReview == ASSUME "bulk_reject" \notin Ops  PROVE Spec => ReviewSpec
<1> DEFINE status == [p \in Proposal |-> prop[p].status]
<1>1. Init => Review!Init  BY DEF Init, Review!Init, AbsentRow
<1>2. ASSUME ReviewInv, [Next]_vars  PROVE [Review!Next]_(Review!vars)
  <2>1. Effect  BY <1>2, Effects
  <2>2. ASSUME NEW S \in SUBSET Proposal, NEW s, \A p \in S : prop'[p].status = s, Others(S)
        PROVE  status' = [p \in Proposal |-> IF p \in S THEN s ELSE status[p]]
    BY <2>2 DEF Others
  <2>3. ASSUME NEW p \in Proposal, NEW s, prop'[p].status = s, Others({p})
        PROVE  status' = [status EXCEPT ![p] = s]
    BY <2>3 DEF Others
  <2>4. CASE SameDecisions
    <3>1. status' = status  BY <2>4 DEF SameDecisions, Others
    <3> QED  BY <2>4, <3>1 DEF SameDecisions, catalogue, Review!vars
  <2>5. ASSUME NEW r \in Request, Offered(r)  PROVE Review!Next
    <3>1. PICK p \in Proposal, S \in SUBSET Proposal : p = req[r].prop /\ S = req[r].todo
      BY <2>5 DEF Offered
    <3>2. status' = [q \in Proposal |-> IF q = p THEN "pending" ELSE IF q \in S THEN "superseded" ELSE status[q]]
      BY <2>5, <3>1 DEF Offered, Others
    <3>3. Review!Offer(p, S)  BY <2>5, <3>1, <3>2 DEF Offered, Review!Offer, catalogue
    <3> QED  BY <3>3 DEF Review!Next
  <2>6. ASSUME NEW p \in Proposal, Moved(p)  PROVE Review!Next
    <3>1. Review!Drift(p) \/ Review!Reject(p)
      BY <2>3, <2>6 DEF Moved, Reviewable, Review!Drift, Review!Reject, Review!Becomes, catalogue
    <3> QED  BY <3>1 DEF Review!Next
  <2>7. ASSUME NEW p \in Proposal, Applied(p)  PROVE Review!Next
    <3>1. Review!Apply(p)
      BY <2>3, <2>7 DEF Applied, Reviewable, Review!Apply, Review!Becomes, Review!Writes
    <3> QED  BY <3>1 DEF Review!Next
  <2>8. ASSUME NEW p \in Proposal, Undone(p)  PROVE Review!Next
    <3>1. Review!Undo(p)
      BY <2>3, <2>8 DEF Undone, Review!Undo, Review!Becomes, Review!Writes
    <3> QED  BY <3>1 DEF Review!Next
  <2>9. ASSUME NEW S \in SUBSET Proposal, Forgotten(S)  PROVE Review!Next
    <3>1. Review!Forget(S)  BY <2>2, <2>9 DEF Forgotten, Review!Forget, catalogue
    <3> QED  BY <3>1 DEF Review!Next
  <2>10. ASSUME NEW t \in Target, Outside(t)  PROVE Review!Next
    <3>1. status' = status  BY <2>10 DEF Outside
    <3>2. Review!Outside(t)  BY <2>10, <3>1 DEF Outside, Review!Outside
    <3> QED  BY <3>2 DEF Review!Next
  <2> QED  BY <2>1, <2>4, <2>5, <2>6, <2>7, <2>8, <2>9, <2>10 DEF Effect, RejectedAll
<1>3. ReviewInv /\ [Next]_vars => [Review!Next]_(Review!vars)  BY <1>2
<1> QED  BY <1>1, <1>3, RequestsAreSound, PTL DEF Spec, ReviewSpec, Review!Spec


-----------------------------------------------------------------------------
(* Staged files *)

\* A prune has still to delete the files of the rows it will delete.
PrunesClean == \A r \in Request : req[r].pc = "prune" => \A p \in files : prop[p].aged => p \in req[r].todo

FilesInv == NoOrphanFile /\ PrunesClean

\* No row is deleted, none gets older than the retention.
RowsStay ==
    \A p \in Proposal :
        /\ prop[p].status \notin Missing => prop'[p].status \notin Missing
        /\ prop'[p].aged => prop[p].aged

LEMMA SavedStays ==
  ASSUME ReviewInv, NEW p \in Proposal, NEW row \in ProposalRow, Saved(p, row),
         row.status \notin Missing, row.aged = prop[p].aged
  PROVE  RowsStay
<1>1. /\ prop'[p].status = row.status /\ (prop'[p].aged => row.aged)
      /\ \A q \in Proposal : q # p => prop'[q] = prop[q]
  BY SavedRow DEF ReviewInv, TypeOK
<1> QED  BY <1>1 DEF RowsStay

LEMMA StatusStays ==
  ASSUME ReviewInv, NEW p \in Proposal, NEW s \in Status \ Missing, SetStatus(p, s)
  PROVE  RowsStay
<1> DEFINE row == [prop[p] EXCEPT !.status = s]
<1>1. prop[p] \in ProposalRow  BY DEF ReviewInv, TypeOK
<1>2. row \in ProposalRow /\ row.status = s  BY <1>1, StatusField
<1>3. row.aged = prop[p].aged  BY <1>1 DEF ProposalRow
<1>4. Saved(p, row)  BY DEF SetStatus
<1> HIDE DEF row
<1> QED  BY <1>2, <1>3, <1>4, SavedStays

LEMMA RevisedStays ==
  ASSUME ReviewInv, NEW p \in Proposal, NEW v \in Value, Revised(p, v), prop[p].status \in Reviewable
  PROVE  RowsStay
<1> DEFINE row == [prop[p] EXCEPT !.value = v, !.revision = @ + 1]
<1>1. prop[p] \in ProposalRow  BY DEF ReviewInv, TypeOK
<1>2. row \in ProposalRow /\ row.status = prop[p].status  BY <1>1, Values, ValueField
<1>3. row.aged = prop[p].aged  BY <1>1 DEF ProposalRow
<1>4. Saved(p, row)  BY DEF Revised
<1> HIDE DEF row
<1> QED  BY <1>2, <1>3, <1>4, SavedStays DEF Reviewable, Missing

LEMMA UnchangedStays == ASSUME UNCHANGED prop  PROVE RowsStay
  BY DEF RowsStay

\* Request r moves: it keeps the row it owns until that row or the end of its file is there, and a prune drops no
\* file from its list but a deleted one.
LEMMA FilesMove ==
  ASSUME ReviewInv, FilesInv, NEW r \in Request, NEW row, Becomes(r, row), files' \subseteq files,
         \A p \in files' : prop[p].status \notin Missing => prop'[p].status \notin Missing,
         \A p \in files' : prop'[p].aged => prop[p].aged,
         req[r].pc \in IntakePc => \/ row.pc \in IntakePc /\ row.prop = req[r].prop
                                   \/ req[r].prop \notin files'
                                   \/ prop'[req[r].prop].status \notin Missing,
         row.pc = "prune" => \A p \in files' : prop[p].aged => p \in row.todo
  PROVE  FilesInv'
<1>1. req' = [req EXCEPT ![r] = row] /\ req \in [Request -> RequestRow]  BY DEF Becomes, ReviewInv, TypeOK
<1>2. req'[r] = row /\ \A q \in Request : q # r => req'[q] = req[q]  BY <1>1
<1>3. NoOrphanFile'
  <2>1. ASSUME NEW p \in files', prop'[p].status \in Missing
        PROVE  \E q \in Request : req'[q].prop = p /\ req'[q].pc \in IntakePc
    <3>1. prop[p].status \in Missing  BY <2>1
    <3>2. PICK q \in Request : req[q].prop = p /\ req[q].pc \in IntakePc
      BY <2>1, <3>1 DEF FilesInv, NoOrphanFile, IntakePc
    <3>3. CASE q = r  BY <1>2, <2>1, <3>2, <3>3
    <3>4. CASE q # r  BY <1>2, <3>2, <3>4
    <3> QED  BY <3>3, <3>4
  <2> QED  BY <2>1 DEF NoOrphanFile, IntakePc
<1>4. PrunesClean'
  <2>1. ASSUME NEW q \in Request, req'[q].pc = "prune", NEW p \in files', prop'[p].aged  PROVE p \in req'[q].todo
    <3>1. prop[p].aged /\ p \in files  BY <2>1
    <3>2. CASE q = r  BY <1>2, <2>1, <3>1, <3>2
    <3>3. CASE q # r  BY <1>2, <2>1, <3>1, <3>3 DEF FilesInv, PrunesClean
    <3> QED  BY <3>2, <3>3
  <2> QED  BY <2>1 DEF PrunesClean
<1> QED  BY <1>3, <1>4 DEF FilesInv

\* The usual case: no intake, no prune, no file is added.
LEMMA FilesPlain ==
  ASSUME ReviewInv, FilesInv, NEW r \in Request, NEW row, Becomes(r, row), files' \subseteq files, RowsStay,
         req[r].pc \notin IntakePc, row.pc # "prune"
  PROVE  FilesInv'
<1>1. files \subseteq Proposal  BY ReviewAssumption DEF ReviewAssumption, ReviewInv, TypeOK
<1>2. ASSUME NEW p \in files'
      PROVE  (prop[p].status \notin Missing => prop'[p].status \notin Missing) /\ (prop'[p].aged => prop[p].aged)
  BY <1>1 DEF RowsStay
<1> QED  BY <1>2, FilesMove

LEMMA NobodyFiles == ASSUME FilesInv, UNCHANGED <<files, req>>, RowsStay, files \subseteq Proposal  PROVE FilesInv'
<1>1. files' = files /\ req' = req  OBVIOUS
<1>2. NoOrphanFile'
  <2>1. ASSUME NEW p \in files', prop'[p].status \in Missing
        PROVE  \E r \in Request : req[r].prop = p /\ req[r].pc \in {"supersede", "wait", "create"}
    <3>1. p \in files /\ prop[p].status \in Missing  BY <1>1, <2>1 DEF RowsStay
    <3> QED  BY <3>1 DEF FilesInv, NoOrphanFile
  <2> QED  BY <1>1, <2>1 DEF NoOrphanFile
<1>3. PrunesClean'  BY <1>1 DEF FilesInv, PrunesClean, RowsStay
<1> QED  BY <1>2, <1>3 DEF FilesInv


LEMMA InitFiles == Init => FilesInv
  BY IdleType DEF Init, FilesInv, NoOrphanFile, PrunesClean

LEMMA StartFiles ==
  ASSUME ReviewInv, FilesInv, NEW r \in Request, NEW p \in Proposal,
         StartAccept(r, p) \/ StartReject(r, p) \/ StartUndo(r, p) \/ StartRevise(r, p)
  PROVE  FilesInv'
<1>1. PICK row : Becomes(r, row) /\ row.pc # "prune" /\ UNCHANGED <<prop, files>> /\ req[r].pc = "idle"
  BY DEF StartAccept, StartReject, StartUndo, StartRevise, Starts, Idle
<1> QED  BY <1>1, FilesPlain, UnchangedStays DEF IntakePc

LEMMA StartManyFiles ==
  ASSUME ReviewInv, FilesInv, NEW r \in Request, StartBulkReject(r) \/ StartPrune(r)
  PROVE  FilesInv'
<1>1. UNCHANGED <<prop, files>> /\ req[r].pc = "idle" /\ req[r].pc \notin IntakePc
  BY DEF StartBulkReject, StartPrune, IntakePc
<1>2. CASE StartBulkReject(r)
  <2>1. PICK todo : Becomes(r, [Idle EXCEPT !.pc = "bulk", !.todo = todo])  BY <1>2 DEF StartBulkReject
  <2>2. [Idle EXCEPT !.pc = "bulk", !.todo = todo].pc = "bulk"  BY DEF Idle
  <2> QED  BY <1>1, <2>1, <2>2, FilesPlain, UnchangedStays
<1>3. CASE StartPrune(r)
  <2>1. Becomes(r, [Idle EXCEPT !.pc = "prune", !.todo = Aged])  BY <1>3 DEF StartPrune
  <2>2. [Idle EXCEPT !.pc = "prune", !.todo = Aged].todo = Aged  BY DEF Idle
  <2>3. \A q \in files' : prop[q].aged => q \in Aged
    BY <1>1, ReviewAssumption DEF ReviewAssumption, ReviewInv, TypeOK, Aged
  <2> HIDE DEF Idle
  <2> QED  BY <1>1, <2>1, <2>2, <2>3, FilesMove
<1> QED  BY <1>2, <1>3

\* The file is staged first; until the row is there, it is the intake's.
LEMMA StartIntakeFiles ==
  ASSUME ReviewInv, FilesInv, NEW r \in Request, NEW p \in Proposal, StartIntake(r, p)
  PROVE  FilesInv'
<1> PICK keep \in BOOLEAN :
      Becomes(r, [Idle EXCEPT !.pc = "supersede", !.prop = p, !.seen = ReadCurrent(p), !.keep = keep])
  BY DEF StartIntake
<1>0. PICK row : row = [Idle EXCEPT !.pc = "supersede", !.prop = p, !.seen = ReadCurrent(p), !.keep = keep]
  OBVIOUS
<1>1. Becomes(r, row) /\ row.pc = "supersede" /\ row.prop = p  BY <1>0 DEF Idle
<1>2. /\ prop' = prop /\ files' \subseteq files \cup {p} /\ prop[p].status = "absent" /\ req[r].pc = "idle"
  BY DEF StartIntake
<1>3. req'[r] = row /\ \A q \in Request : q # r => req'[q] = req[q]
  BY <1>1 DEF Becomes, ReviewInv, TypeOK
<1>4. NoOrphanFile'
  <2>1. ASSUME NEW x \in files', prop[x].status \in Missing
        PROVE  \E q \in Request : req'[q].prop = x /\ req'[q].pc \in {"supersede", "wait", "create"}
    <3>1. CASE x = p  BY <1>1, <1>3, <3>1
    <3>2. CASE x # p
      <4>1. PICK q \in Request : req[q].prop = x /\ req[q].pc \in {"supersede", "wait", "create"}
        BY <1>2, <2>1, <3>2 DEF FilesInv, NoOrphanFile
      <4>2. q # r  BY <1>2, <4>1
      <4> QED  BY <1>3, <4>1, <4>2
    <3> QED  BY <3>1, <3>2
  <2> QED  BY <1>2, <2>1 DEF NoOrphanFile
<1>5. ~prop[p].aged  BY <1>2 DEF ReviewInv, AgedDecided
<1>6. PrunesClean'
  <2>1. ASSUME NEW q \in Request, req'[q].pc = "prune", NEW x \in files', prop[x].aged
        PROVE  x \in req'[q].todo
    <3>1. x \in files  BY <1>2, <1>5, <2>1
    <3>2. q # r  BY <1>1, <1>3, <2>1
    <3> QED  BY <1>3, <2>1, <3>1, <3>2 DEF FilesInv, PrunesClean
  <2> QED  BY <1>2, <2>1 DEF PrunesClean
<1> QED  BY <1>4, <1>6 DEF FilesInv

LEMMA IntakeFiles == ASSUME ReviewInv, FilesInv, NEW r \in Request, IntakeStep(r)  PROVE FilesInv'
<1>1. req[r] \in RequestRow /\ files \subseteq Proposal
  BY ReviewAssumption DEF ReviewAssumption, ReviewInv, TypeOK
<1>2. CASE Create(r)
  <2>1. req[r].prop \in Proposal /\ prop'[req[r].prop].status \notin Missing  BY <1>2, CreatedRows DEF Missing
  <2>2. RowsStay
    <3>1. ASSUME NEW p \in Proposal
          PROVE  (prop[p].status \notin Missing => prop'[p].status \notin Missing) /\ (prop'[p].aged => prop[p].aged)
      <4>1. CASE p = req[r].prop  BY <1>2, <4>1, CreatedRows DEF Missing
      <4>2. CASE p # req[r].prop /\ p \in req[r].todo  BY <1>2, <4>2, CreatedRows DEF Missing
      <4>3. CASE p # req[r].prop /\ p \notin req[r].todo
        <5>1. prop'[p] = prop[p]  BY <1>2, <4>3, CreatedRows
        <5> QED  BY <5>1
      <4> QED  BY <4>1, <4>2, <4>3
    <3> QED  BY <3>1 DEF RowsStay
  <2>3. Becomes(r, Idle) /\ files' = files /\ Idle.pc # "prune"  BY <1>2, IdleType DEF Create, Done
  <2>4. \A p \in files' : (prop[p].status \notin Missing => prop'[p].status \notin Missing) /\ (prop'[p].aged => prop[p].aged)
    BY <1>1, <2>2, <2>3 DEF RowsStay
  <2> QED  BY <2>1, <2>3, <2>4, FilesMove
<1>3. CASE Supersede(r) /\ Done(r) /\ files' = files \ {req[r].prop}
  <2>1. Becomes(r, Idle) /\ UNCHANGED prop /\ Idle.pc # "prune" /\ files' \subseteq files /\ req[r].prop \notin files'
    BY <1>3, IdleType DEF Supersede, Done
  <2> QED  BY <2>1, FilesMove
<1>4. ASSUME NEW pc \in {"wait", "create"}, NEW todo, Becomes(r, [req[r] EXCEPT !.pc = pc, !.todo = todo]),
             UNCHANGED <<prop, files>>
      PROVE  FilesInv'
  <2>1. /\ [req[r] EXCEPT !.pc = pc, !.todo = todo].pc = pc
        /\ [req[r] EXCEPT !.pc = pc, !.todo = todo].prop = req[r].prop
    BY <1>1 DEF RequestRow
  <2> QED  BY <1>4, <2>1, FilesMove DEF IntakePc
<1>5. CASE WaitForRows(r)
  BY <1>4, <1>5 DEF WaitForRows
<1>6. CASE SupersedeRest(r)
  <2>1. Becomes(r, [req[r] EXCEPT !.pc = "create", !.todo = {q \in req[r].todo : prop[q].status = "pending"}])
    BY <1>1, <1>6 DEF SupersedeRest, RequestRow
  <2> QED  BY <1>4, <1>6, <2>1 DEF SupersedeRest
<1>7. CASE Supersede(r) /\ ~(Done(r) /\ files' = files \ {req[r].prop})
  BY <1>4, <1>7 DEF Supersede
<1> QED  BY <1>2, <1>3, <1>5, <1>6, <1>7 DEF IntakeStep


LEMMA AcceptFiles == ASSUME ReviewInv, FilesInv, NEW r \in Request, AcceptStep(r)  PROVE FilesInv'
<1>1. req[r] \in RequestRow /\ RowInv(req[r]) /\ prop \in [Proposal -> ProposalRow]  BY DEF ReviewInv, TypeOK
<1>2. req[r].pc \in {"read", "save", "drift", "write", "drop"} /\ files' \subseteq files
  BY DEF AcceptStep, ReadLive, SaveSnapshot, MarkDrifted, Write, DropStaged, Refused
<1>3. req[r].pc \notin IntakePc /\ req[r].prop \in Proposal /\ prop[req[r].prop].status # "absent"
  BY <1>1, <1>2 DEF IntakePc, DecisionPc, RowInv
<1>4. PICK row : Becomes(r, row) /\ row.pc # "prune"
  <2>1. ASSUME NEW pc \in RequestPc  PROVE [req[r] EXCEPT !.pc = pc].pc = pc  BY <1>1 DEF RequestRow
  <2>2. ASSUME NEW pc \in RequestPc \ {"prune"}, Goto(r, pc)  PROVE \E row : Becomes(r, row) /\ row.pc # "prune"
    BY <2>1, <2>2 DEF Goto
  <2>3. CASE Done(r)  BY <2>3, IdleType DEF Done
  <2>4. CASE ReadLive(r)
    <3>1. PICK pc \in {"write", "save"} : Becomes(r, [req[r] EXCEPT !.seen = ReadCurrent(req[r].prop), !.pc = pc])
      BY <2>4 DEF ReadLive
    <3>2. [req[r] EXCEPT !.seen = ReadCurrent(req[r].prop), !.pc = pc].pc = pc  BY <1>1 DEF RequestRow
    <3> QED  BY <3>1, <3>2
  <2>5. CASE SaveSnapshot(r)  BY <2>2, <2>3, <2>5 DEF SaveSnapshot, RequestPc
  <2>6. CASE MarkDrifted(r)  BY <2>3, <2>6 DEF MarkDrifted, Refused
  <2>7. CASE Write(r)  BY <2>2, <2>3, <2>7 DEF Write, Refused, RequestPc
  <2> QED  BY <2>3, <2>4, <2>5, <2>6, <2>7 DEF AcceptStep, DropStaged
<1>5. RowsStay
  <2> DEFINE p == req[r].prop
  <2>1. CASE UNCHANGED prop  BY <2>1, UnchangedStays
  <2>2. CASE SaveSnapshot(r) /\ ~UNCHANGED prop
    <3> DEFINE next == [prop[p] EXCEPT !.snapshot = req[r].seen]
    <3>1. Saved(p, next) /\ prop[p].status # "deleted"  BY <2>2 DEF SaveSnapshot
    <3>2. prop[p] \in ProposalRow /\ req[r].seen \in AnyValue  BY <1>1, <1>3 DEF RequestRow
    <3>3. next \in ProposalRow /\ next.status = prop[p].status  BY <3>2, SnapshotField
    <3>4. next.aged = prop[p].aged  BY <3>2 DEF ProposalRow
    <3> HIDE DEF next
    <3> QED  BY <1>3, <3>1, <3>3, <3>4, SavedStays DEF Missing
  <2>3. CASE MarkDrifted(r) /\ ~UNCHANGED prop
    BY <1>3, <2>3, StatusStays DEF MarkDrifted, Refused, Status, Reviewable, Missing
  <2>4. CASE Write(r) /\ ~UNCHANGED prop
    <3> DEFINE value == IF p \notin Artifact THEN req[r].copy.value ELSE None
               next == [prop[p] EXCEPT !.status = "applied", !.applied = value]
    <3>1. Saved(p, next)  BY <2>4 DEF Write, Refused
    <3>2. prop[p] \in ProposalRow /\ value \in AnyValue  BY <1>1, <1>3, Values DEF RequestRow
    <3> HIDE DEF value
    <3>3. next \in ProposalRow /\ next.status = "applied"  BY <3>2, AppliedFields
    <3>4. next.aged = prop[p].aged  BY <3>2 DEF ProposalRow
    <3> HIDE DEF next
    <3> QED  BY <1>3, <3>1, <3>3, <3>4, SavedStays DEF Missing
  <2> QED  BY <2>1, <2>2, <2>3, <2>4 DEF AcceptStep, ReadLive, DropStaged
<1> QED  BY <1>2, <1>3, <1>4, <1>5, FilesPlain

LEMMA DecideFiles ==
  ASSUME ReviewInv, FilesInv, NEW r \in Request, RejectStep(r) \/ UndoStep(r) \/ SaveRevision(r)
  PROVE  FilesInv'
<1>1. req[r] \in RequestRow /\ RowInv(req[r]) /\ prop \in [Proposal -> ProposalRow]  BY DEF ReviewInv, TypeOK
<1>2. /\ req[r].pc \in {"unstage", "reject", "bulk", "unstage_all", "check", "revert", "revise"}
      /\ files' \subseteq files
  BY DEF RejectStep, UndoStep, SaveRevision, Unstage, Reject, BulkReject, UnstageAll, CheckLive, Revert, Refused
<1>3. /\ req[r].pc \notin IntakePc
      /\ req[r].pc \notin {"bulk", "unstage_all"} => req[r].prop \in Proposal
  BY <1>1, <1>2 DEF IntakePc, DecisionPc, RowInv
<1>4. PICK row : Becomes(r, row) /\ row.pc # "prune"
  <2>1. ASSUME NEW pc \in RequestPc \ {"prune"}, Goto(r, pc)  PROVE \E row : Becomes(r, row) /\ row.pc # "prune"
    <3>1. [req[r] EXCEPT !.pc = pc].pc = pc  BY <1>1 DEF RequestRow
    <3> QED  BY <2>1, <3>1 DEF Goto
  <2>2. CASE Done(r)  BY <2>2, IdleType DEF Done
  <2>3. CASE UnstageAll(r) /\ ~Done(r)
    <3>1. PICK todo : Becomes(r, [req[r] EXCEPT !.todo = todo])
      <4>1. PICK p \in req[r].todo : Becomes(r, [req[r] EXCEPT !.todo = @ \ {p}])  BY <2>3 DEF UnstageAll
      <4>2. Becomes(r, [req[r] EXCEPT !.todo = req[r].todo \ {p}])  BY <4>1
      <4> QED  BY <4>2
    <3>2. [req[r] EXCEPT !.todo = todo].pc = "unstage_all"  BY <1>1, <2>3 DEF RequestRow, UnstageAll
    <3> QED  BY <3>1, <3>2
  <2>4. CASE Unstage(r) \/ BulkReject(r) \/ CheckLive(r)
    BY <2>1, <2>2, <2>4 DEF Unstage, BulkReject, CheckLive, RequestPc
  <2> QED  BY <2>2, <2>3, <2>4 DEF RejectStep, UndoStep, SaveRevision, Reject, Revert, Refused
<1>5. RowsStay
  <2>1. CASE UNCHANGED prop  BY <2>1, UnchangedStays
  <2>2. CASE Reject(r) /\ ~UNCHANGED prop
    BY <1>2, <1>3, <2>2, StatusStays DEF Reject, Refused, Status, Final, Missing
  <2>3. CASE Revert(r) /\ ~UNCHANGED prop
    BY <1>2, <1>3, <2>3, StatusStays DEF Revert, Refused, Status, Final, Missing
  <2>4. CASE SaveRevision(r) /\ ~UNCHANGED prop
    BY <1>2, <1>3, <2>4, RevisedStays DEF SaveRevision, Refused, StillOpen
  <2>5. CASE BulkReject(r)
    <3>1. ASSUME NEW p \in Proposal
          PROVE  (prop[p].status \notin Missing => prop'[p].status \notin Missing) /\ (prop'[p].aged => prop[p].aged)
      <4>1. CASE prop'[p] = prop[p]  BY <4>1
      <4>2. CASE prop'[p] # prop[p]
        <5>1. prop'[p] = [prop[p] EXCEPT !.status = "rejected", !.aged = FALSE]  BY <2>5, <4>2 DEF BulkReject
        <5>2. prop'[p].status = "rejected" /\ prop'[p].aged = FALSE  BY <1>1, <5>1 DEF ProposalRow
        <5> QED  BY <5>2 DEF Missing
      <4> QED  BY <4>1, <4>2
    <3> QED  BY <3>1 DEF RowsStay
  <2> QED  BY <2>1, <2>2, <2>3, <2>4, <2>5 DEF RejectStep, UndoStep, Unstage, UnstageAll, CheckLive
<1> QED  BY <1>2, <1>3, <1>4, <1>5, FilesPlain


\* A prune deletes the rows when their files are gone.
LEMMA PruneFiles == ASSUME ReviewInv, FilesInv, NEW r \in Request, PruneStep(r)  PROVE FilesInv'
<1>1. req[r] \in RequestRow /\ files \subseteq Proposal
  BY ReviewAssumption DEF ReviewAssumption, ReviewInv, TypeOK
<1>2. req[r].pc = "prune" /\ req[r].pc \notin IntakePc  BY DEF PruneStep, PruneFile, PruneRows, IntakePc
<1>3. \A p \in files : prop[p].aged => p \in req[r].todo  BY <1>2 DEF FilesInv, PrunesClean
<1>4. CASE PruneFile(r)
  <2>1. PICK p \in req[r].todo : files' = files \ {p} /\ Becomes(r, [req[r] EXCEPT !.todo = @ \ {p}])
    BY <1>4 DEF PruneFile
  <2>2. Becomes(r, [req[r] EXCEPT !.todo = req[r].todo \ {p}]) /\ UNCHANGED prop  BY <1>4, <2>1 DEF PruneFile
  <2>3. [req[r] EXCEPT !.todo = req[r].todo \ {p}].todo = req[r].todo \ {p}  BY <1>1 DEF RequestRow
  <2>4. \A q \in files' : prop[q].aged => q \in req[r].todo \ {p}  BY <1>3, <2>1
  <2> QED  BY <1>2, <2>1, <2>2, <2>3, <2>4, FilesMove
<1>5. CASE PruneRows(r)
  <2>1. req[r].todo = {} /\ Becomes(r, Idle) /\ UNCHANGED files
        /\ prop' = [p \in Proposal |-> IF prop[p].aged THEN [AbsentRow EXCEPT !.status = "deleted"] ELSE prop[p]]
    BY <1>5 DEF PruneRows, Done
  <2>2. \A p \in files' : prop'[p] = prop[p]  BY <1>1, <1>3, <2>1
  <2> QED  BY <1>2, <2>1, <2>2, IdleType, FilesMove
<1> QED  BY <1>4, <1>5 DEF PruneStep

\* Rows that get older than the retention do so while nobody prunes.
LEMMA RestFiles ==
  ASSUME ReviewInv, FilesInv, (\E p \in Proposal : Edit(p) \/ Age(p)) \/ (\E t \in Target : Outside(t)) \/ UNCHANGED vars
  PROVE  FilesInv'
<1>1. files \subseteq Proposal  BY ReviewAssumption DEF ReviewAssumption, ReviewInv, TypeOK
<1>2. UNCHANGED <<files, req>>  BY DEF Edit, Age, Outside, vars
<1>3. ASSUME NEW p \in Proposal, Edit(p)  PROVE FilesInv'
  BY <1>1, <1>2, <1>3, RevisedStays, NobodyFiles DEF Edit
<1>4. ASSUME NEW p \in Proposal, Age(p)  PROVE FilesInv'
  <2>1. prop' = [prop EXCEPT ![p].aged = TRUE] /\ \A r \in Request : req[r].pc # "prune"  BY <1>4 DEF Age
  <2>2. \A q \in Proposal : prop'[q].status = prop[q].status  BY <2>1 DEF ReviewInv, TypeOK, ProposalRow
  <2>3. NoOrphanFile'  BY <1>1, <1>2, <2>2 DEF FilesInv, NoOrphanFile
  <2>4. PrunesClean'  BY <1>2, <2>1 DEF PrunesClean
  <2> QED  BY <2>3, <2>4 DEF FilesInv
<1>5. CASE UNCHANGED prop  BY <1>1, <1>2, <1>5, UnchangedStays, NobodyFiles
<1> QED  BY <1>3, <1>4, <1>5 DEF Outside, vars

\* No staged file is left behind without a proposal, whatever intakes, decisions and prunes overlap: unless a
\* process dies, which the store does not notice.
THEOREM FilesAreOwned == ASSUME "crash" \notin Ops  PROVE Spec => []NoOrphanFile
<1>1. ReviewInv /\ FilesInv /\ [Next]_vars => FilesInv'
  <2> SUFFICES ASSUME ReviewInv, FilesInv, [Next]_vars  PROVE FilesInv'  OBVIOUS
  <2>1. \A r \in Request : ~Crash(r)  BY DEF Crash
  <2>2. ASSUME NEW r \in Request, NEW p \in Proposal,
               \/ StartIntake(r, p) \/ StartAccept(r, p) \/ StartReject(r, p)
               \/ StartUndo(r, p) \/ StartRevise(r, p)
        PROVE  FilesInv'
    BY <2>2, StartFiles, StartIntakeFiles
  <2>3. ASSUME NEW r \in Request, StartBulkReject(r) \/ StartPrune(r)  PROVE FilesInv'
    BY <2>3, StartManyFiles
  <2>4. ASSUME NEW r \in Request, IntakeStep(r) \/ AcceptStep(r) \/ PruneStep(r)  PROVE FilesInv'
    BY <2>4, IntakeFiles, AcceptFiles, PruneFiles
  <2>5. ASSUME NEW r \in Request, RejectStep(r) \/ UndoStep(r) \/ SaveRevision(r)  PROVE FilesInv'
    BY <2>5, DecideFiles
  <2> QED  BY <2>1, <2>2, <2>3, <2>4, <2>5, RestFiles DEF Next
<1>2. FilesInv => NoOrphanFile  BY DEF FilesInv
<1> QED  BY <1>1, <1>2, InitFiles, RequestsAreSound, PTL DEF Spec
=============================================================================
