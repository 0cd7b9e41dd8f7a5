------------------------------ MODULE RuleLayers -----------------------------
(* The rules a correction sees, in three layers: the proposal's own, those  *)
(* of its task's template and those of the worker that wrote it. Every      *)
(* request reads a row, changes its copy and saves the whole copy; nothing  *)
(* is locked. A worker's calibration carries a version that proposals are   *)
(* stamped with.                                                            *)
EXTENDS Naturals, Lists

CONSTANTS Sentences,    \* the rules an operator may write
          MaxRules,     \* MAX_RULES
          Writers,      \* requests under way
          MaxVersion    \* bound on the worker's version

ASSUME RuleLayersAssumption == MaxRules \in Nat \ {0} /\ MaxVersion \in Nat \ {0}

VARIABLES worker,       \* the worker's row, it stays active: [rules, model, version]
          template,     \* [kept, active, rules, params]; params: [operation, preset, rules]
          ownRules,     \* the proposal's rules
          task,         \* [spawned, params], and who gave the preset (ghost: from, brought)
          writer,       \* Writers -> the request's copy; stale, behind: the row was saved under it
          calibrations, \* [version, rules, model] the worker has had (ghost)
          promoted,     \* <<target, rule>> answered, not edited away or overwritten (ghost)
          raced         \* the worker was saved with a version of an older row (ghost)

layerVars == <<worker, template, ownRules, task, writer, calibrations, promoted, raced>>

Models == {"", "large"}
Presets == {"", "soft"}
Operations == {"enhance", "packshot"}
NotGiven == "not given"
RuleLists == UNION {[1..n -> Sentences] : n \in 0..MaxRules}
IdleWriter == [on |-> "nothing"]
NoParams == [operation |-> "", preset |-> "", rules |-> <<>>]
NoTask == [spawned |-> FALSE, params |-> NoParams, from |-> "", brought |-> FALSE]
\* what a template of a picture worker presets, and of a text worker
PictureParams == {[NoParams EXCEPT !.operation = operation, !.preset = preset] : operation \in Operations, preset \in Presets}
TextParams == {[NoParams EXCEPT !.rules = rules] : rules \in {<<>>} \cup {<<r>> : r \in Sentences}}
TemplateParams == PictureParams \cup TextParams
Calibration(row) == [version |-> row.version, rules |-> row.rules, model |-> row.model]

LayersTypeOK ==
    /\ worker.rules \in RuleLists /\ worker.version \in 1..MaxVersion /\ worker.model \in Models
    /\ template.rules \in RuleLists /\ template.kept \in BOOLEAN /\ template.active \in BOOLEAN
    /\ ownRules \in RuleLists /\ IsInjective(worker.rules) /\ IsInjective(template.rules)
    /\ \A w \in Writers : writer[w].on \in {"nothing", "worker", "template"}

LayersInit ==
    /\ worker = [rules |-> <<>>, model |-> "", version |-> 1]
    /\ template = [kept |-> FALSE, active |-> TRUE, rules |-> <<>>, params |-> NoParams]
    /\ ownRules = <<>> /\ task = NoTask
    /\ writer = [w \in Writers |-> IdleWriter]
    /\ calibrations = {Calibration(worker)} /\ promoted = {} /\ raced = FALSE

-----------------------------------------------------------------------------
(* rule_limits, and dict.fromkeys: the first of equal rules stays           *)
ValidRules(rules) == Len(rules) <= MaxRules
Distinct(rules) == OnceEach(rules)
RulesFor(own, temp, work) == Distinct(own \o temp \o work)
TemplateRules == IF template.kept THEN template.rules ELSE <<>>

SetRules(rules) ==
    /\ ValidRules(rules) /\ ownRules' = rules
    /\ UNCHANGED <<worker, template, task, writer, calibrations, promoted, raced>>

CopyOf(on, row, rule) == [on |-> on, row |-> row, rule |-> rule, bumped |-> FALSE, stale |-> FALSE, behind |-> FALSE]
Holds(w, copy) ==
    /\ writer[w] = IdleWriter /\ writer' = [writer EXCEPT ![w] = copy]
    /\ UNCHANGED <<worker, template, ownRules, task, calibrations, promoted, raced>>
Held(on) == \E v \in Writers : writer[v].on = on
\* the copies that other requests have of a row once it is saved
Outdated(on) ==
    [v \in Writers |-> IF writer[v].on = on THEN [writer[v] EXCEPT !.stale = TRUE, !.behind = TRUE] ELSE writer[v]]
\* an edit drops a promotion on purpose, an older copy overwrites it; a
\* promotion into the row as it stands drops none
StillPromoted(target, rules) == {p \in promoted : p[1] = target => Contains(rules, p[2])}
PromotedBy(target, copy) ==
    (IF copy.rule = {} \/ copy.stale THEN StillPromoted(target, copy.row.rules) ELSE promoted)
        \cup {<<target, rule>> : rule \in copy.rule}

-----------------------------------------------------------------------------
(* the worker: rules_service._promote_to_worker, the admin form,            *)
(* worker_service.save_worker                                               *)
\* Deviation: the rule takes the place of the others
PromoteReplaces(rules, rule) == <<rule>>
\* the limit is checked before a repeated rule is dropped
WithRule(rules, rule) == Distinct(Append(rules, rule))
PromoteToWorker(w, rule) ==
    /\ ValidRules(Append(worker.rules, rule))
    /\ Holds(w, CopyOf("worker", [worker EXCEPT !.rules = WithRule(@, rule)], {rule}))
EditWorker(w, row) == Holds(w, CopyOf("worker", row, {}))
Recalibrated(one, two) == one.model # two.model \/ one.rules # two.rules
\* one past the version in the row when the calibration differs from the
\* row's; the version of the copy otherwise
BumpVersion(w) ==
    /\ writer[w].on = "worker" /\ ~writer[w].bumped /\ worker.version < MaxVersion
    /\ writer' = [writer EXCEPT ![w].bumped = TRUE,
                                ![w].behind = @ /\ ~Recalibrated(worker, writer[w].row),
                                ![w].row.version = IF Recalibrated(worker, writer[w].row) THEN worker.version + 1 ELSE @]
    /\ UNCHANGED <<worker, template, ownRules, task, calibrations, promoted, raced>>
SaveWorker(w) ==
    /\ writer[w].on = "worker" /\ writer[w].bumped
    /\ worker' = writer[w].row /\ writer' = [Outdated("worker") EXCEPT ![w] = IdleWriter]
    /\ calibrations' = calibrations \cup {Calibration(writer[w].row)}
    /\ promoted' = PromotedBy("worker", writer[w]) /\ raced' = (raced \/ writer[w].behind)
    /\ UNCHANGED <<template, ownRules, task>>

-----------------------------------------------------------------------------
(* the template: template_service                                           *)
\* bound: not while a request holds a copy of the deleted row
CreateTemplate(params) ==
    /\ ~template.kept /\ ~Held("template")
    /\ template' = [kept |-> TRUE, active |-> TRUE, rules |-> <<>>, params |-> params]
    /\ UNCHANGED <<worker, ownRules, task, writer, calibrations, promoted, raced>>
UpdateTemplate(w, row) == template.kept /\ Holds(w, CopyOf("template", row, {}))
PromoteToTemplate(w, rule) ==
    /\ template.kept /\ ValidRules(WithRule(template.rules, rule))
    /\ Holds(w, CopyOf("template", [template EXCEPT !.rules = WithRule(@, rule)], {rule}))
\* the whole copy, and again the row if it was deleted meanwhile
SaveTemplate(w) ==
    /\ writer[w].on = "template"
    /\ template' = writer[w].row /\ writer' = [Outdated("template") EXCEPT ![w] = IdleWriter]
    /\ promoted' = PromotedBy("template", writer[w])
    /\ UNCHANGED <<worker, ownRules, task, calibrations, raced>>
DeleteTemplate ==
    /\ template.kept /\ template' = [template EXCEPT !.kept = FALSE]
    /\ promoted' = StillPromoted("template", <<>>) /\ writer' = Outdated("template")
    /\ UNCHANGED <<worker, ownRules, task, calibrations, raced>>

\* the request wins; the template's preset goes when the request gives another
\* operation than the template's
Merged(params, request) ==
    [operation |-> IF request.operation = NotGiven THEN params.operation ELSE request.operation,
     preset |-> IF request.preset # NotGiven THEN request.preset
                ELSE IF request.operation \in {NotGiven, params.operation} THEN params.preset ELSE "",
     rules |-> Distinct(template.rules \o params.rules \o request.rules)]
\* validate_params: a picture worker takes no rules, a text worker no operation
OfKind(params) ==
    IF template.params.operation = "" THEN [params EXCEPT !.operation = "", !.preset = ""] ELSE [params EXCEPT !.rules = <<>>]
Requests == [operation : {NotGiven} \cup Operations, preset : {NotGiven} \cup Presets, rules : {<<>>} \cup {<<r>> : r \in Sentences}]
MergeIntoTask(request) ==
    /\ ~task.spawned /\ template.kept /\ template.active
    /\ task' = [spawned |-> TRUE, params |-> OfKind(Merged(template.params, request)),
                from |-> template.params.operation, brought |-> request.preset # NotGiven]
    /\ UNCHANGED <<worker, template, ownRules, writer, calibrations, promoted, raced>>

LayersNext ==
    \/ \E rules \in RuleLists : SetRules(rules)
    \/ \E w \in Writers, rule \in Sentences : PromoteToWorker(w, rule) \/ PromoteToTemplate(w, rule)
    \/ \E w \in Writers, model \in Models : EditWorker(w, [worker EXCEPT !.model = model])
    \/ \E w \in Writers : EditWorker(w, [worker EXCEPT !.rules = <<>>])
    \/ \E w \in Writers : BumpVersion(w) \/ SaveWorker(w) \/ SaveTemplate(w)
    \/ \E w \in Writers : UpdateTemplate(w, [template EXCEPT !.active = ~@]) \/ UpdateTemplate(w, [template EXCEPT !.rules = <<>>])
    \/ \E params \in TemplateParams, w \in Writers : CreateTemplate(params) \/ UpdateTemplate(w, [template EXCEPT !.params = params])
    \/ DeleteTemplate
    \/ \E request \in Requests : MergeIntoTask(request)

LayersSpec == LayersInit /\ [][LayersNext]_layerVars

-----------------------------------------------------------------------------
\* A rule an operator was told is promoted reaches every later correction, in
\* the layer order and once, until it is edited away or a request that had
\* read the row before saves its own copy (promote, rules_for).
PromotedReach ==
    LET seen == RulesFor(ownRules, TemplateRules, worker.rules)
    IN IsInjective(seen) /\ \A p \in promoted : Contains(seen, p[2])

\* A version names one calibration, so that proposals of one source compare,
\* however requests overlap, as long as no row is saved with a version taken
\* from an older row (_bump_version).
VersionComparable ==
    raced = TRUE \/ \A one, two \in calibrations : one.version = two.version => one = two

\* A task takes a template's preset only with the template's operation, of
\* which the toolbox accepts it; a preset the request brings is the request's
\* (_preset_params).
PresetOfOperation == task.params.preset # "" /\ ~task.brought => task.params.operation = task.from

\* The layers hold together: promoted rules are seen, versions tell calibrations
\* apart, a template gives a task no preset of another operation.
LayersHold == LayersTypeOK /\ PromotedReach /\ VersionComparable /\ PresetOfOperation
=============================================================================
