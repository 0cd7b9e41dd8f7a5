----------------------------- MODULE MCServices -----------------------------
(* The components around the queue and the review, one instance of each in  *)
(* one run. A behaviour follows one component, its focus; the others keep   *)
(* the one initial state they are pinned to.                                *)
EXTENDS Generation, Knowledge, Spawning, GapRules, CsvFiles, Corrections, RuleLayers, Prompts, Answers, TLC

CONSTANTS s1, s2, s3, p1, p2

VARIABLE focus

MCScopeOf == [e \in Suggestions |-> IF e = "e1" THEN "" ELSE Channel]
MCItemOf == [e \in Suggestions |->
                IF e = "e1" THEN [kind |-> "rule", id |-> "", value |-> "ra"] ELSE [kind |-> "fact", id |-> "f1", value |-> "v1"]]
MCMaxVersions == [s \in {"", Channel} |-> IF s = "" THEN 1 ELSE 2]
MCCatalogue == <<"g1", "g2">>
Group(digits, power) == [n |-> digits, unit |-> power]
MCRoutes == {<<>>, <<"tone", "facts">>, <<"tone", "brand", "facts">>}
MCWholes == {<<Group(7, 10)>>, <<Group(1, 10), Group(299, 1000)>>, <<Group(1, 10), Group(0, 1000), Group(450, 1000)>>}
MCFractions == {<<>>, <<Group(5, 10)>>, <<Group(50, 100)>>, <<Group(99, 100)>>, <<Group(125, 1000)>>}
Same == Permutations(Refs) \cup Permutations(Callers)

Init ==
    /\ focus \in {"generation", "knowledge", "prompts", "runs", "batch", "gaps", "pages", "csv", "corrections",
                 "layers", "templates", "merges", "texts", "answers"}
    /\ GenInit /\ KnowInit /\ OrdersInit /\ GapInit /\ CsvInit /\ CorrInit /\ LayersInit /\ PromptsInit /\ AnswersInit
    /\ focus # "generation" => job = [kind |-> "image", augment |-> FALSE]
    /\ focus # "corrections" => text = [x \in Texts |-> NewText("w1")]

\* a written subject that is researched keeps its lease; one prompt that is researched need not
BriskWrite == job.kind = "write" /\ job.augment => quiet = 0
\* runs of two subjects at most are under way at a time
Subjects == UNION {orders[t].refs : t \in DOMAIN orders} \cup UNION {caller[c].refs : c \in {d \in Callers : caller[d] # Idle}}
Statuses(S) == \A p \in Products : answer[p].status \in S \cup {"none", "pending"}
\* gaps: several tasks of one rule, each unit with one proposal at most; the
\* catalogue and the answers given elsewhere stand still
OnePerUnit == \A t \in DOMAIN gapTasks : gapTasks[t].proposed = Cardinality(gapTasks[t].brought)
OwnAnswers == \A p \in Products : answer[p] # NoAnswer => answer[p].from # 0
\* pages: one task, everything around it moves
OneGapTask == Len(gapTasks) <= 1 /\ runner["beat"] = Resting /\ ~rule.auto /\ \A p \in Products : answer[p].age = 0
\* layers: requests on the worker; templates: requests on the template;
\* merges: one request at a time, what a template presets and tasks of it
NoOnWorker == \A w \in Writers : writer[w].on # "worker"
OneWriter == \E w \in Writers : writer[w] = IdleWriter

Generating == focus = "generation" /\ GenNext /\ BriskWrite' /\ UNCHANGED <<knowVars, spawnVars, gapVars, csvVars, corrVars, layerVars, asked, submitted>>
Knowing == focus = "knowledge" /\ UNCHANGED prompt /\ KnowNext /\ UNCHANGED <<genVars, spawnVars, gapVars, csvVars, corrVars, layerVars, asked, submitted>>
Prompting == focus = "prompts" /\ UNCHANGED entry /\ KnowNext /\ UNCHANGED <<genVars, spawnVars, gapVars, csvVars, corrVars, layerVars, asked, submitted>>
Ordering == focus = "runs" /\ RunsNext /\ Cardinality(Subjects') <= 2 /\ UNCHANGED <<genVars, knowVars, gapVars, csvVars, corrVars, layerVars, asked, submitted>>
Batching == focus = "batch" /\ BatchNext /\ UNCHANGED <<genVars, knowVars, gapVars, csvVars, corrVars, layerVars, asked, submitted>>
Filling ==
    /\ focus = "gaps" /\ UNCHANGED missing /\ GapNext /\ rule \in {NoRule, rule'} /\ rule'.auto /\ OnePerUnit' /\ OwnAnswers' /\ Statuses({"drifted", "rejected"})'
    /\ UNCHANGED <<genVars, knowVars, spawnVars, csvVars, corrVars, layerVars, asked, submitted>>
Paging == focus = "pages" /\ GapNext /\ OneGapTask' /\ (gapTasks = <<>> \/ rule \in {NoRule, rule'}) /\ Statuses({"applied"})' /\ UNCHANGED <<genVars, knowVars, spawnVars, csvVars, corrVars, layerVars, asked, submitted>>
Importing == focus = "csv" /\ CsvNext /\ UNCHANGED <<genVars, knowVars, spawnVars, gapVars, corrVars, layerVars, asked, submitted>>
Correcting == focus = "corrections" /\ CorrNext /\ UNCHANGED <<genVars, knowVars, spawnVars, gapVars, csvVars, layerVars, asked, submitted>>
Layering ==
    /\ focus = "layers" /\ UNCHANGED <<template, task>> /\ LayersNext
    /\ ownRules' \in {<<>>, <<"a">>} /\ Cardinality(calibrations') <= 3
    /\ UNCHANGED <<genVars, knowVars, spawnVars, gapVars, csvVars, corrVars, asked, submitted>>
Templating ==
    /\ focus = "templates" /\ NoOnWorker /\ UNCHANGED <<worker, ownRules, task>> /\ LayersNext /\ template'.params = NoParams
    /\ UNCHANGED <<genVars, knowVars, spawnVars, gapVars, csvVars, corrVars, asked, submitted>>
Merging ==
    /\ focus = "merges" /\ NoOnWorker /\ UNCHANGED <<worker, ownRules>> /\ LayersNext /\ OneWriter' /\ promoted' = {}
    /\ UNCHANGED <<genVars, knowVars, spawnVars, gapVars, csvVars, corrVars, asked, submitted>>
Fitting == focus = "texts" /\ PromptsNext /\ UNCHANGED <<genVars, knowVars, spawnVars, gapVars, csvVars, corrVars, layerVars, submitted>>
Submitting == focus = "answers" /\ AnswersNext /\ UNCHANGED <<genVars, knowVars, spawnVars, gapVars, csvVars, corrVars, layerVars, asked>>

Next ==
    /\ \/ Generating \/ Knowing \/ Prompting \/ Ordering \/ Batching \/ Filling \/ Paging \/ Importing \/ Correcting
       \/ Layering \/ Templating \/ Merging \/ Fitting \/ Submitting
    /\ UNCHANGED focus

Spec == Init /\ [][Next]_<<focus, genVars, knowVars, spawnVars, gapVars, csvVars, corrVars, layerVars, asked, submitted>>
=============================================================================
