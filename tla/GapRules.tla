------------------------------ MODULE GapRules ------------------------------
(* Spawn rules: the beat and the "Run now" button look for a running task   *)
(* of the rule, probe the gap check and spawn; the gap task is fed from     *)
(* page 1, read again and again under the lock of its row until it brings   *)
(* nothing new, while the catalogue and the answers of other tasks move on. *)
(* A unit holds one subject, which may bring several proposals.             *)
EXTENDS Naturals, Sequences, FiniteSets

CONSTANTS Catalogue,    \* the products, in the order find_gaps lists them
          GapPage,      \* targets on a page of find_gaps
          Limits,       \* values the operator gives rule.limit
          Cooldown,     \* rule.cooldown_days, in ticks
          MaxRuns,      \* bound on the tasks of the rule
          MaxBrings     \* bound on the proposals of one subject

Runners == {"beat", "now"}   \* gap_autospawn and the "Run now" button

Products == {Catalogue[i] : i \in DOMAIN Catalogue}

ASSUME GapAssumption ==
    Limits \subseteq Nat \ {0} /\ Cooldown \in Nat /\ MaxRuns \in Nat /\ Catalogue \in Seq(Products)
    /\ GapPage \in Nat /\ MaxBrings \in Nat

VARIABLES missing,   \* products that fail the check
          answer,    \* Products -> their newest proposal that is not superseded or reverted
          rule,      \* the rule: [auto, limit], or none
          gapTasks,  \* the rule's tasks in the order they were created
          runner     \* Runners -> run_rule between its steps

gapVars == <<missing, answer, rule, gapTasks, runner>>

NoRule == [auto |-> FALSE, limit |-> 0]
NoAnswer == [status |-> "none", age |-> 0, from |-> 0]
Resting == [at |-> "idle"]
\* from (ghost): the task of the rule that gave it, 0 for any other order
Answer == [status : {"none", "pending", "drifted", "rejected", "applied"}, age : 0..Cooldown, from : 0..MaxRuns]
GapStates == {"open", "in_progress", "done", "failed", "cancelled"}
\* planned, waiting: the targets that have a unit, and whose unit is not through
\* reading, pulled: pages are being read, what they brought is not committed yet
\* ghosts: beside, the tasks its lookup did not see; brought, the targets it got
\* proposals for; extra, what a page brought while earlier targets were still to
\* be worked; under, what was leased when a request or a failure closed the task
GapTask == [status : GapStates, limit : Limits, planned : SUBSET Products, waiting : SUBSET Products,
            reading : BOOLEAN, pulled : SUBSET Products, proposed : Nat,
            beside : SUBSET Nat, brought : SUBSET Products, extra : SUBSET Products, under : SUBSET Products]
NewTask(cap, beside) ==
    [status |-> "open", limit |-> cap, planned |-> {}, waiting |-> {}, reading |-> FALSE, pulled |-> {}, proposed |-> 0,
     beside |-> beside, brought |-> {}, extra |-> {}, under |-> {}]
ToWork(task) == task.waiting \cup task.pulled
\* run_rule after its lookup: the tasks it knows of and the limit it read
Lookup == [at : {"spawn"}, known : Nat, limit : Limits]
GapTypeOK ==
    /\ missing \subseteq Products /\ rule \in {NoRule} \cup [auto : BOOLEAN, limit : Limits]
    /\ answer \in [Products -> Answer] /\ runner \in [Runners -> {Resting} \cup Lookup]
    /\ gapTasks \in Seq(GapTask) /\ Len(gapTasks) <= MaxRuns
    /\ \A t \in DOMAIN gapTasks :
          /\ gapTasks[t].waiting \cup gapTasks[t].brought \cup gapTasks[t].under \subseteq gapTasks[t].planned
          /\ gapTasks[t].pulled \cap gapTasks[t].planned = {} /\ gapTasks[t].beside \subseteq 1..(t - 1)
          /\ gapTasks[t].reading => gapTasks[t].status \in {"open", "in_progress"}
          /\ gapTasks[t].pulled # {} => gapTasks[t].reading
          /\ gapTasks[t].status \notin {"open", "in_progress"} => gapTasks[t].waiting \subseteq gapTasks[t].under

GapInit ==
    /\ missing = Products /\ answer = [p \in Products |-> NoAnswer] /\ rule = NoRule
    /\ gapTasks = <<>> /\ runner = [u \in Runners |-> Resting]

-----------------------------------------------------------------------------
(* the queue of gaps                                                        *)
\* Deviation: a drifted answer does not hold its target back
BlocksUnlessDrifted(a) ==
    a.status = "pending" \/ (a.status \in {"rejected", "applied"} /\ a.age < Cooldown)
Blocks(a) ==
    \/ a.status \in {"pending", "drifted"}
    \/ a.status \in {"rejected", "applied"} /\ a.age < Cooldown
\* page 1 of find_gaps, and what no answer holds back of it
FirstOf(places, n) == {i \in places : Cardinality({j \in places : j < i}) < n}
Listed == FirstOf({i \in DOMAIN Catalogue : Catalogue[i] \in missing}, GapPage)
Gaps == {i \in Listed : ~Blocks(answer[Catalogue[i]])}
\* Deviation: every page is as long as the limit
PageOfLimit(cap, proposed) == {Catalogue[i] : i \in FirstOf(Gaps, cap)}
\* within what is left of the limit
Page(cap, proposed) ==
    IF proposed >= cap THEN {} ELSE {Catalogue[i] : i \in FirstOf(Gaps, cap - proposed)}
\* what the page brings that the task has not seen
Fresh(task) == Page(task.limit, task.proposed) \ (task.planned \cup task.pulled)

Running == {t \in DOMAIN gapTasks : gapTasks[t].status \in {"open", "in_progress"}}
OpenTasks == {t \in DOMAIN gapTasks : gapTasks[t].status = "open"}

\* the operator's rule; what a deleted one has running is found under its key again
CreateRule(auto, n) ==
    /\ rule = NoRule /\ rule' = [auto |-> auto, limit |-> n]
    /\ UNCHANGED <<missing, answer, gapTasks, runner>>
UpdateRule(auto, n) ==
    /\ rule # NoRule /\ rule' = [auto |-> auto, limit |-> n]
    /\ UNCHANGED <<missing, answer, gapTasks, runner>>
DeleteRule ==
    /\ rule # NoRule /\ rule' = NoRule /\ UNCHANGED <<missing, answer, gapTasks, runner>>

\* run_rule: no task of the rule runs, and the probe brings something
FindAndProbe(u) ==
    /\ runner[u] = Resting /\ Running = {} /\ Page(rule.limit, 0) # {} /\ Len(gapTasks) < MaxRuns
    /\ runner' = [runner EXCEPT ![u] = [at |-> "spawn", known |-> Len(gapTasks), limit |-> rule.limit]]
    /\ UNCHANGED <<missing, answer, rule, gapTasks>>
Autospawn == rule.auto /\ FindAndProbe("beat")
RunNow == rule # NoRule /\ FindAndProbe("now")
\* spawn coalesces into the open task of the batch key, never a claimed one
SpawnGap(u) ==
    /\ runner[u] # Resting /\ runner' = [runner EXCEPT ![u] = Resting]
    /\ IF OpenTasks # {} THEN UNCHANGED gapTasks
       ELSE /\ Len(gapTasks) < MaxRuns
            /\ gapTasks' = Append(gapTasks, NewTask(runner[u].limit, {t \in DOMAIN gapTasks : t > runner[u].known}))
    /\ UNCHANGED <<missing, answer, rule>>

-----------------------------------------------------------------------------
(* the tasks                                                                *)
\* The planner, on an open task (its message may come again), or the settlement
\* of the last unit lock the row; until they commit, nobody else writes it.
ReadPages(t) == gapTasks' = [gapTasks EXCEPT ![t].reading = TRUE] /\ UNCHANGED <<missing, answer, rule, runner>>
PlanGap(t) == gapTasks[t].status = "open" /\ ~gapTasks[t].reading /\ ReadPages(t)
SettleGap(t) ==
    /\ gapTasks[t].status = "in_progress" /\ ~gapTasks[t].reading
    /\ gapTasks[t].waiting = {} /\ gapTasks[t].planned # {} /\ ReadPages(t)
TakeIn(task, fresh) ==
    [task EXCEPT !.pulled = @ \cup fresh, !.extra = IF ToWork(task) = {} THEN @ ELSE @ \cup fresh]
NextPage(t) ==
    /\ gapTasks[t].reading /\ Fresh(gapTasks[t]) # {}
    /\ gapTasks' = [gapTasks EXCEPT ![t] = TakeIn(@, Fresh(@))]
    /\ UNCHANGED <<missing, answer, rule, runner>>
\* a page with nothing new: what was pulled becomes units, or the task ends
Feed(task) == [task EXCEPT !.reading = FALSE, !.pulled = {}, !.planned = @ \cup task.pulled, !.waiting = @ \cup task.pulled]
GapOutcome(task) == IF task.proposed > 0 \/ task.planned = {} THEN "done" ELSE "failed"
Commit(task) ==
    IF ToWork(task) # {} THEN Feed(task) ELSE [task EXCEPT !.reading = FALSE, !.status = GapOutcome(task)]
EndPages(t) ==
    /\ gapTasks[t].reading /\ Fresh(gapTasks[t]) = {}
    /\ gapTasks' = [gapTasks EXCEPT ![t] = Commit(@)]
    /\ UNCHANGED <<missing, answer, rule, runner>>
\* closed over its units: the queued ones are cancelled, the leased ones work on
Closed(task, status, leased) == [task EXCEPT !.status = status, !.waiting = leased, !.under = @ \cup leased]
\* the check raises: nothing was planned, and an open task fails
PagesFail(t) ==
    /\ gapTasks[t].reading /\ UNCHANGED <<missing, answer, rule, runner>>
    /\ LET rolledBack == [gapTasks[t] EXCEPT !.reading = FALSE, !.pulled = {}] IN
       IF gapTasks[t].status = "open"
       THEN \E leased \in SUBSET gapTasks[t].waiting : gapTasks' = [gapTasks EXCEPT ![t] = Closed(rolledBack, "failed", leased)]
       ELSE gapTasks' = [gapTasks EXCEPT ![t] = rolledBack]
\* a first unit is leased
StartGap(t) ==
    /\ gapTasks[t].status = "open" /\ ~gapTasks[t].reading /\ gapTasks[t].waiting # {}
    /\ gapTasks' = [gapTasks EXCEPT ![t].status = "in_progress"] /\ UNCHANGED <<missing, answer, rule, runner>>
\* the unit of p: proposals, which replace an older answer, or a failure
Worked(task, p, brings) ==
    [task EXCEPT !.waiting = @ \ {p}, !.proposed = @ + brings, !.brought = IF brings > 0 THEN @ \cup {p} ELSE @]
WorkGap(t, p, brings) ==
    /\ p \in gapTasks[t].waiting /\ gapTasks[t].status # "open" /\ ~gapTasks[t].reading
    /\ answer' = IF brings > 0 THEN [answer EXCEPT ![p] = [status |-> "pending", age |-> 0, from |-> t]] ELSE answer
    /\ gapTasks' = [gapTasks EXCEPT ![t] = Worked(@, p, brings)]
    /\ UNCHANGED <<missing, rule, runner>>
\* a request sets the status
ByHand(status) ==
    CASE status = "open" -> {"in_progress", "cancelled"}
      [] status = "in_progress" -> {"done", "failed", "cancelled"}
      [] OTHER -> {}
SetGapStatus(t, status) ==
    /\ ~gapTasks[t].reading /\ status \in ByHand(gapTasks[t].status) /\ UNCHANGED <<missing, answer, rule, runner>>
    /\ \/ status = "in_progress" /\ gapTasks' = [gapTasks EXCEPT ![t].status = status]
       \/ /\ status # "in_progress"
          /\ \E leased \in SUBSET gapTasks[t].waiting : gapTasks' = [gapTasks EXCEPT ![t] = Closed(@, status, leased)]

(* the operator, the catalogue and time                                     *)
ReviewAnswer(p, status) ==
    /\ \/ answer[p].status = "pending" /\ status \in {"applied", "rejected", "drifted", "superseded"}
       \/ answer[p].status = "drifted" /\ status \in {"applied", "rejected"}
       \/ answer[p].status = "applied" /\ status = "reverted"
    /\ answer' = [answer EXCEPT ![p] =
          IF status \in {"superseded", "reverted"} THEN NoAnswer ELSE [@ EXCEPT !.status = status, !.age = 0]]
    /\ UNCHANGED <<missing, rule, gapTasks, runner>>
\* another order of the same target
AnswerElsewhere(p) ==
    /\ answer' = [answer EXCEPT ![p] = [status |-> "pending", age |-> 0, from |-> 0]]
    /\ UNCHANGED <<missing, rule, gapTasks, runner>>
CatalogueChanges(p) ==
    /\ missing' = IF p \in missing THEN missing \ {p} ELSE missing \cup {p}
    /\ UNCHANGED <<answer, rule, gapTasks, runner>>
DayPasses ==
    /\ \E p \in Products : answer[p].status \in {"rejected", "applied"} /\ answer[p].age < Cooldown
    /\ answer' = [p \in Products |->
          IF answer[p].status \in {"rejected", "applied"} /\ answer[p].age < Cooldown
          THEN [answer[p] EXCEPT !.age = @ + 1] ELSE answer[p]]
    /\ UNCHANGED <<missing, rule, gapTasks, runner>>

GapNext ==
    \/ \E auto \in BOOLEAN, n \in Limits : CreateRule(auto, n) \/ UpdateRule(auto, n)
    \/ DeleteRule \/ Autospawn \/ RunNow
    \/ \E u \in Runners : SpawnGap(u)
    \/ \E t \in DOMAIN gapTasks : PlanGap(t) \/ SettleGap(t) \/ NextPage(t) \/ EndPages(t) \/ PagesFail(t) \/ StartGap(t)
    \/ \E t \in DOMAIN gapTasks, p \in Products, brings \in 0..MaxBrings : WorkGap(t, p, brings)
    \/ \E t \in DOMAIN gapTasks, s \in GapStates : SetGapStatus(t, s)
    \/ \E p \in Products : AnswerElsewhere(p) \/ CatalogueChanges(p)
    \/ \E p \in Products, s \in {"applied", "rejected", "drifted", "superseded", "reverted"} : ReviewAnswer(p, s)
    \/ DayPasses

GapSpec == GapInit /\ [][GapNext]_gapVars

-----------------------------------------------------------------------------
\* Two tasks of one rule run side by side only when the second was looked up
\* before the first existed: the beat never stacks a task behind a claimed one.
RuleTasksStack ==
    \A t, u \in DOMAIN gapTasks :
        u < t /\ {gapTasks[t].status, gapTasks[u].status} \subseteq {"open", "in_progress"} => u \in gapTasks[t].beside
\* What a lookup found to have ended stays ended until its task is spawned.
LookupsStand ==
    \A u \in Runners : runner[u] # Resting =>
        runner[u].known <= Len(gapTasks) /\ \A t \in Running : t > runner[u].known
\* The limit holds for every page by itself: what a task has brought or has
\* still to work exceeds it only by targets of pages that were read while
\* earlier ones were unworked, since only proposals count against the limit.
WithinLimit ==
    \A t \in DOMAIN gapTasks :
        /\ Cardinality((ToWork(gapTasks[t]) \cup gapTasks[t].brought) \ gapTasks[t].extra) <= gapTasks[t].limit
        /\ Cardinality(gapTasks[t].brought) <= gapTasks[t].proposed

\* A rule keeps to what the operator allowed: one task at a time, as far as it
\* can know, and each page within what is left of the limit (run_rule,
\* resolve_gap_page).
RuleBounded == GapTypeOK /\ RuleTasksStack /\ LookupsStand /\ WithinLimit

\* No target is worked while the rule's own answer for it waits for the operator
\* or cools down, though pages are read long before their units are worked: the
\* answer came after the page was read, from another task that was not seen by
\* the lookup or was closed with the unit leased (_filter_gap_candidates).
Overlap(t, u, p) ==
    u \in gapTasks[t].beside \/ t \in gapTasks[u].beside \/ p \in gapTasks[t].under \/ p \in gapTasks[u].under
AnswersAwaited ==
    \A t \in DOMAIN gapTasks : \A p \in ToWork(gapTasks[t]) :
        LET u == answer[p].from
        IN  Blocks(answer[p]) /\ u # 0 => u \in DOMAIN gapTasks /\ u # t /\ Overlap(t, u, p)
=============================================================================
