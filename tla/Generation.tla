----------------------------- MODULE Generation -----------------------------
(* A kind working one subject: the paid calls it makes, in order, what each *)
(* failure does to the subject, and what the task and the drafts are told   *)
(* they cost. The provider's bill is known to nobody inside: billed is what *)
(* really was paid, ledger what the task says.                              *)
EXTENDS Integers, Sequences

CONSTANTS Kinds,         \* the kinds to run, names as in the kind registry
          NLanguages,    \* languages a subject is written in
          NSections,     \* numbered headings of the outline
          NScenes,       \* scenes of the cover brief
          NSerps,        \* SERP_TOP
          Retries,       \* ENRICHMENT_TRANSIENT_RETRIES
          Every,         \* EVERY_S, in ticks
          LeaseTicks     \* ENRICHMENT_LEASE_S, in ticks

ASSUME GenerationAssumption ==
    /\ NLanguages \in Nat \ {0} /\ NSections \in Nat \ {0} /\ NScenes \in Nat \ {0} /\ NSerps \in Nat
    /\ Retries \in Nat /\ Every \in Nat \ {0} /\ LeaseTicks \in Nat /\ Every < LeaseTicks

VARIABLES job,      \* [kind, augment]: the kind and whether it researches seo_brief
          at,       \* the next call of the plan
          study,    \* the next call of the research, 0 outside of it
          polling,  \* a media job was submitted and is polled
          tries,    \* attempts left
          outcome,  \* "new" | "working" | "drafts" | "failed" | "kept" | "lost"
          ledger,   \* the task's [usd, complete]
          cost,     \* what each part's drafts will say they cost
          made,     \* scenes rendered
          briefs,   \* languages with a fresh seo_brief in memory
          studies,  \* completed researches per language (ghost)
          billed,   \* [all, unseen, part]: the provider's bill (ghost)
          sent,     \* flips with every paid request that leaves (ghost)
          quiet,    \* ticks since the last heartbeat
          taken     \* the lease ended and the unit was given to someone else

genVars == <<job, at, study, polling, tries, outcome, ledger, cost, made, briefs, studies, billed, sent, quiet, taken>>

Unknown == -1
\* Deviation: an unknown cost counts as nothing
TotalOfKnown(a, b) == IF b = Unknown THEN a ELSE IF a = Unknown THEN b ELSE a + b
Total(a, b) == IF Unknown \in {a, b} THEN Unknown ELSE a + b

-----------------------------------------------------------------------------
(* the calls each kind makes; the drafts of one part share their cost       *)
Step(part, use) == [part |-> part, use |-> use]
WritePlan == [i \in 1..(2 * NLanguages) |-> Step((i + 1) \div 2, IF i % 2 = 1 THEN "text" ELSE "rewrite")]
FieldPlan == [i \in 1..NLanguages |-> Step(i, "plain")]
TranslatePlan == [i \in 1..NLanguages |-> Step(i, "translation")]
PickPlan == <<Step(1, "text")>>
GeneratePlan == <<Step(1, "text")>>
QuestionsPlan == <<Step(1, "text")>>
SectionsPlan == [i \in 1..(NSections + 1) |-> Step(1, "text")]
CoverPlan == [i \in 1..NScenes |-> Step(1, "scene")]
ImagePlan == <<Step(1, "media")>>
VideoPlan == <<Step(1, "media")>>
ComposePlan == <<>>
Plan ==
    CASE job.kind = "write" -> WritePlan [] job.kind = "field" -> FieldPlan
      [] job.kind = "translate" -> TranslatePlan [] job.kind = "pick" -> PickPlan
      [] job.kind = "generate" -> GeneratePlan [] job.kind = "questions" -> QuestionsPlan
      [] job.kind = "sections" -> SectionsPlan [] job.kind = "cover" -> CoverPlan
      [] job.kind = "image" -> ImagePlan [] job.kind = "video" -> VideoPlan [] OTHER -> ComposePlan
ResearchPlan ==
    <<"seeds", "search-volume", "keyword-ideas">> \o [i \in 1..NSerps |-> "serp"] \o <<"evaluate">>
\* the kinds whose prompts carry augmentation blocks
Augmented == {"write", "pick", "generate", "questions", "sections"}

Use == IF study # 0 THEN ResearchPlan[study] ELSE Plan[at].use
Part == Plan[at].part
\* a workflow step is researched in its brief's language, write in each
Language == IF job.kind = "write" THEN Part ELSE 1
Media == {"scene", "media"}
\* what a failed rewrite, SERP or scene lets through without the call's result
Survived(use, error) ==
    \/ use = "rewrite"
    \/ use = "serp" /\ error \in {"toolbox", "gateway"}
    \/ use = "scene" /\ error = "subject"
\* the codes of a gateway page and of a poll that ran out are transient; the
\* research reports a toolbox failure under a code of its own
Transient(error) == error = "timeout" \/ (error = "gateway" /\ study = 0)
Errors == {"toolbox", "gateway", "internal", "timeout", "subject"}
Asked == {1, Unknown}

GenTypeOK ==
    /\ job \in [kind : Kinds, augment : BOOLEAN] /\ at \in 1..(Len(Plan) + 1) /\ study \in 0..Len(ResearchPlan)
    /\ outcome \in {"new", "working", "drafts", "failed", "kept", "lost"} /\ tries \in 0..Retries
    /\ ledger \in [usd : Nat, complete : BOOLEAN] /\ polling \in BOOLEAN /\ taken \in BOOLEAN /\ sent \in BOOLEAN
    /\ cost \in [1..NLanguages -> Nat \cup {Unknown}] /\ studies \in [1..NLanguages -> Nat] /\ briefs \subseteq 1..NLanguages
    /\ billed \in [all : Nat, unseen : Nat, part : [1..NLanguages -> Nat]]
    /\ quiet \in 0..LeaseTicks /\ made \in 0..NScenes

NoPart == [p \in 1..NLanguages |-> 0]
GenInit ==
    /\ job \in [kind : Kinds, augment : BOOLEAN] /\ (job.augment => job.kind \in Augmented) /\ at = 1 /\ study = 0 /\ polling = FALSE
    /\ tries = Retries /\ outcome = "new" /\ ledger = [usd |-> 0, complete |-> TRUE]
    /\ cost = NoPart /\ made = 0 /\ briefs = {} /\ studies = NoPart
    /\ billed = [all |-> 0, unseen |-> 0, part |-> NoPart] /\ sent = FALSE /\ quiet = 0 /\ taken = FALSE

-----------------------------------------------------------------------------
(* the ledger and the lease                                                 *)
Charge(c) ==
    ledger' = IF c = Unknown THEN [ledger EXCEPT !.complete = FALSE] ELSE [ledger EXCEPT !.usd = @ + c]
\* b is billed; a part's drafts owe what their own calls were billed
PartsWith(b, part) == IF part = 0 THEN billed.part ELSE [billed.part EXCEPT ![part] = @ + b]
Bill(b, part) == billed' = [billed EXCEPT !.all = @ + b, !.part = PartsWith(b, part)]
\* Deviation: nothing is due before the lease has run out
DueLate == quiet > LeaseTicks
Due == quiet >= Every
\* the heartbeat before a call, for every call but a translation
Beat ==
    IF Use = "translation" THEN UNCHANGED quiet
    ELSE /\ ~(Due /\ taken)
         /\ quiet' = IF Due THEN 0 ELSE quiet
LoseLease ==
    /\ outcome = "working" /\ at <= Len(Plan) /\ Use # "translation" /\ Due /\ taken
    /\ outcome' = "lost"
    \* out of a poll: the job may be billed
    /\ IF polling THEN Charge(Unknown) /\ \E b \in {0, 1} : Bill(b, 0) ELSE UNCHANGED <<ledger, billed>>
    /\ UNCHANGED <<job, at, study, polling, tries, cost, made, briefs, studies, sent, quiet, taken>>
Tick ==
    /\ outcome = "working" /\ quiet < LeaseTicks /\ quiet' = quiet + 1
    /\ UNCHANGED <<job, at, study, polling, tries, outcome, ledger, cost, made, briefs, studies, billed, sent, taken>>
\* the reaper and another consumer
TakeOver ==
    /\ outcome = "working" /\ quiet = LeaseTicks /\ ~taken /\ taken' = TRUE
    /\ UNCHANGED <<job, at, study, polling, tries, outcome, ledger, cost, made, briefs, studies, billed, sent, quiet>>

-----------------------------------------------------------------------------
(* the subject                                                              *)
\* run_subject: nothing is generated over an operator's edit
Begin ==
    /\ outcome = "new" /\ outcome' \in {"kept", "working"}
    /\ UNCHANGED <<job, at, study, polling, tries, ledger, cost, made, briefs, studies, billed, sent, quiet, taken>>

Researches == job.augment /\ Use = "text" /\ Language \notin briefs
\* run_all, before the prompt of a call that carries research
StartResearch ==
    /\ outcome = "working" /\ at <= Len(Plan) /\ study = 0 /\ Researches /\ study' = 1
    /\ UNCHANGED <<job, at, polling, tries, outcome, ledger, cost, made, briefs, studies, billed, sent, quiet, taken>>
CanCall == outcome = "working" /\ at <= Len(Plan) /\ ~polling /\ (study # 0 \/ ~Researches)

Remembers(language) == briefs \cup {language}
\* the call's result is taken with cost c
Advance(c) ==
    IF study # 0
    THEN /\ study' = IF study = Len(ResearchPlan) THEN 0 ELSE study + 1
         /\ IF study = Len(ResearchPlan)
            THEN briefs' = Remembers(Language) /\ studies' = [studies EXCEPT ![Language] = @ + 1]
            ELSE UNCHANGED <<briefs, studies>>
         /\ UNCHANGED <<at, cost, made>>
    ELSE /\ at' = at + 1 /\ cost' = [cost EXCEPT ![Part] = Total(@, c)]
         /\ made' = IF Use = "scene" THEN made + 1 ELSE made
         /\ UNCHANGED <<study, briefs, studies>>
MayRetry(error) == Transient(error) /\ tries > 0
\* the call raised: survived, tried once more from the start, or failed
Raise(error) ==
    /\ polling' = FALSE
    /\ IF Survived(Use, error)
       THEN /\ UNCHANGED <<outcome, tries, briefs, studies, made>>
            /\ IF study # 0 THEN study' = study + 1 /\ UNCHANGED <<at, cost>>
               ELSE /\ at' = at + 1 /\ UNCHANGED study
                    /\ cost' = IF Use = "rewrite" THEN [cost EXCEPT ![Part] = Total(@, Unknown)] ELSE cost
       ELSE /\ UNCHANGED <<briefs, studies>>
            /\ IF MayRetry(error)
               THEN tries' = tries - 1 /\ at' = 1 /\ study' = 0 /\ cost' = NoPart /\ made' = 0 /\ UNCHANGED outcome
               ELSE outcome' = "failed" /\ UNCHANGED <<tries, at, study, cost, made>>
\* a fresh attempt owes nothing for the parts of the one before
Restarted == at' = 1 /\ study' = 0 /\ tries' < tries
Owed(b) ==
    IF Restarted THEN billed' = [billed EXCEPT !.all = @ + b, !.part = NoPart]
    ELSE Bill(b, IF study = 0 /\ Use = "rewrite" THEN Part ELSE 0)

\* the short fields are within their limits: no second completion
NoRewrite ==
    /\ CanCall /\ Use = "rewrite" /\ at' = at + 1
    /\ UNCHANGED <<job, study, polling, tries, outcome, ledger, cost, made, briefs, studies, billed, sent, quiet, taken>>
\* it fails before the request left: params, pictures, no model, no toolbox
NeverLeaves(error) ==
    /\ CanCall /\ error \in {"internal", "toolbox", "subject"} /\ (error = "subject" => Use # "scene")
    /\ Raise(error) /\ Owed(0)
    /\ UNCHANGED <<job, ledger, sent, quiet, taken>>
\* answered: the cost is reported, or not (c is what it says, b what it is)
Answered(c, b) ==
    /\ CanCall /\ Use \notin Media /\ Beat /\ (c = b \/ c = Unknown)
    /\ sent' = ~sent /\ Charge(c) /\ Bill(b, IF study = 0 THEN Part ELSE 0) /\ Advance(c)
    /\ UNCHANGED <<job, polling, tries, outcome, taken>>
\* an answer that does not fit is paid for all the same
Unusable(c, b) ==
    /\ CanCall /\ Use \notin Media /\ Beat /\ (c = b \/ c = Unknown)
    /\ sent' = ~sent /\ Charge(c) /\ Raise("internal") /\ Owed(b)
    /\ UNCHANGED <<job, taken>>
\* an error once the request left: it may be billed
Breaks(error, b) ==
    /\ CanCall /\ Use \notin Media /\ Beat /\ error \in {"toolbox", "gateway"}
    /\ sent' = ~sent /\ Charge(Unknown) /\ Raise(error) /\ Owed(b)
    /\ UNCHANGED <<job, taken>>

-----------------------------------------------------------------------------
(* a media job: submitted, polled, downloaded                               *)
Submit ==
    /\ CanCall /\ Use \in Media /\ Beat /\ sent' = ~sent /\ polling' = TRUE
    /\ UNCHANGED <<job, at, study, tries, outcome, ledger, cost, made, briefs, studies, billed, taken>>
\* the submit is outside of the guard: its bill is never heard of
SubmitBreaks(error, b) ==
    /\ CanCall /\ Use \in Media /\ Beat /\ error \in {"toolbox", "gateway"} /\ sent' = ~sent
    /\ Raise(error)
    /\ billed' = [billed EXCEPT !.all = @ + b, !.unseen = @ + b, !.part = IF Restarted THEN NoPart ELSE @]
    /\ UNCHANGED <<job, ledger, taken>>
Polled == outcome = "working" /\ polling
PollAgain ==
    /\ Polled /\ Due /\ ~taken /\ quiet' = 0
    /\ UNCHANGED <<job, at, study, polling, tries, outcome, ledger, cost, made, briefs, studies, billed, sent, taken>>
PollBreaks(error, b) ==
    /\ Polled /\ error \in {"toolbox", "gateway", "timeout"} /\ Charge(Unknown) /\ Raise(error) /\ Owed(b)
    /\ UNCHANGED <<job, sent, quiet, taken>>
JobDone(c, b) ==
    /\ Polled /\ (c = b \/ c = Unknown) /\ Charge(c) /\ Bill(b, Part) /\ Advance(c) /\ polling' = FALSE
    /\ UNCHANGED <<job, tries, outcome, sent, quiet, taken>>
\* a failed job, a download that breaks, no outputs: the job is paid
JobFails(error, c, b) ==
    /\ Polled /\ error \in {"subject", "toolbox", "gateway", "internal"}
    /\ (c = b \/ c = Unknown) /\ Charge(c) /\ Raise(error) /\ Owed(b)
    /\ UNCHANGED <<job, sent, quiet, taken>>

\* every call was made; a cover needs one picture at least, a document the
\* body and the picked cover of the steps before it
InputMissing == job.kind = "compose"
Deliver ==
    /\ outcome = "working" /\ at > Len(Plan)
    /\ \/ outcome' = IF job.kind = "cover" /\ made = 0 THEN "failed" ELSE "drafts"
       \/ InputMissing /\ outcome' = "failed"
    /\ UNCHANGED <<job, at, study, polling, tries, ledger, cost, made, briefs, studies, billed, sent, quiet, taken>>

GenNext ==
    \/ Begin \/ Tick \/ TakeOver \/ LoseLease \/ StartResearch \/ NoRewrite \/ Submit \/ PollAgain \/ Deliver
    \/ \E error \in Errors : NeverLeaves(error)
    \/ \E c \in Asked \cup {0}, b \in {0, 1} : Answered(c, b) \/ Unusable(c, b) \/ JobDone(c, b)
    \/ \E error \in Errors, b \in {0, 1} : Breaks(error, b) \/ SubmitBreaks(error, b) \/ PollBreaks(error, b)
    \/ \E error \in Errors, c \in Asked \cup {0}, b \in {0, 1} : JobFails(error, c, b)

GenSpec == GenInit /\ [][GenNext]_genVars

-----------------------------------------------------------------------------
\* Only a picture or a film is polled, and only a writing call is researched,
\* in a language without a brief; a scene that was rendered was asked for; and
\* what someone else took over, the next heartbeat asks about.
CallsInOrder ==
    /\ polling => study = 0 /\ at <= Len(Plan) /\ Use \in Media
    /\ study # 0 => at <= Len(Plan) /\ Plan[at].use = "text" /\ Language \notin briefs
    /\ made < at /\ (made # 0 => job.kind = "cover")
    /\ taken => Due
\* A task whose cost is complete says exactly what was billed, whichever call
\* failed, was retried or cut off; only a submit that broke off escapes it
\* (cost_service.charge, _unknown_cost_on_error).
LedgerHonest ==
    /\ ledger.usd <= billed.all
    /\ ledger.complete => ledger.usd = billed.all - billed.unseen

\* What the drafts of a part say they cost, when they say it, covers every call
\* their text came from: the failed rewrite too (_total, _Spend.total). It is
\* so after each call, not only once the drafts are delivered.
DraftCostsHonest == \A p \in DOMAIN cost : cost[p] # Unknown => cost[p] = billed.part[p] /\ cost[p] <= billed.all

\* A language is researched once for all the prompts of a subject and for the
\* attempt after a transient failure: exactly the remembered ones have been
\* (memory_service.fresh before _research).
ResearchedOnce == \A l \in DOMAIN studies : studies[l] = IF l \in briefs THEN 1 ELSE 0

\* Nothing is paid for once the unit is someone else's, translations aside:
\* the heartbeat before the call ends the run first (lease_keepalive.beat).
PaidOnLease == [][sent' # sent /\ Use # "translation" => ~taken]_genVars

\* Whatever fails, is retried or taken over while a subject is worked, the books
\* are true: of the task, of its drafts, and nothing was researched twice.
BooksHonest == GenTypeOK /\ CallsInOrder /\ LedgerHonest /\ DraftCostsHonest /\ ResearchedOnce
=============================================================================
