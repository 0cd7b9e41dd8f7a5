------------------------------- MODULE Answers -------------------------------
(* What is accepted and how it is read: a correction's edits, the answers   *)
(* to a questions step, a cover's pick, the steps of a workflow definition, *)
(* the pages of an import, numbers and lengths in a text. Each is a         *)
(* function of its input; a step of this module submits one input.          *)
EXTENDS Naturals, Lists

CONSTANTS Chars,         \* characters and tags of a corrected text
          OpenTag,       \* a tag of the allowlist, its end, and the tag escaped
          CloseTag,
          Escaped,
          MaxText,       \* bound on its length
          MaxVariants,   \* most scenes a cover renders
          PageSize,      \* CSV_PAGE_SIZE
          MaxRows,       \* bound on the rows of an import
          Wholes,        \* whole numbers, as groups of three digits but the first
          Fractions      \* what may follow them: nothing, or one group of at most three digits

\* a group of digits, and the power of ten its digits count up to; that of the
\* first group of a number is never read
DigitGroups == [n : Nat, unit : Nat]
ThreeDigits(groups) == \A i \in DOMAIN groups : groups[i].unit = 1000
ASSUME AnswersAssumption ==
    /\ PageSize \in Nat \ {0} /\ {MaxText, MaxVariants, MaxRows} \subseteq Nat
    /\ \A whole \in Wholes : whole \in Seq(DigitGroups) \ {<<>>} /\ ThreeDigits(Tail(whole))
    /\ \A fraction \in Fractions : fraction \in Seq(DigitGroups) /\ Len(fraction) <= 1

VARIABLE submitted    \* the input and what became of it

SeqsUpto(S, n) == UNION {[1..k -> S] : k \in 0..n}
NotSubmitted == [of |-> "nothing"]
AnswersInit == submitted = NotSubmitted
Submits(case) == submitted' = case

-----------------------------------------------------------------------------
(* revise_values: a correction replaces fragments or the whole text; a      *)
(* field of html or a text with a tag is html, and that is sanitised        *)
IsHtml(text, html) == html \/ Contains(text, OpenTag)
\* an end without its tag goes, a tag without its end gets one; a tag outside
\* of the allowlist would go as well
Rebalanced(text) ==
    LET opens(c) == IF c = OpenTag THEN 1 ELSE 0
        read == FoldLeft(LAMBDA acc, c :
                             IF c # CloseTag THEN [text |-> Append(acc.text, c), open |-> acc.open + opens(c)]
                             ELSE IF acc.open = 0 THEN acc ELSE [text |-> Append(acc.text, c), open |-> acc.open - 1],
                         [text |-> <<>>, open |-> 0], text)
    IN read.text \o [i \in 1..read.open |-> CloseTag]
SanitizeHtml(text) == Rebalanced([i \in DOMAIN text |-> IF text[i] = Escaped THEN OpenTag ELSE text[i]])
Clean(new, old, html) == IF IsHtml(old, html) \/ IsHtml(new, html) THEN SanitizeHtml(new) ELSE new
At(text, part) == {p \in 1..Len(text) : p + Len(part) - 1 <= Len(text) /\ SubSeq(text, p, p + Len(part) - 1) = part}
First(text, part) == CHOOSE p \in At(text, part) : \A q \in At(text, part) : p <= q
\* counted as str.count does, without overlaps
OccursOnce(text, part) ==
    /\ part # <<>> /\ At(text, part) # {}
    /\ \A q \in At(text, part) : q = First(text, part) \/ q < First(text, part) + Len(part)
Before(text, part) == SubSeq(text, 1, First(text, part) - 1)
After(text, part) == SubSeq(text, First(text, part) + Len(part), Len(text))
Refused == [ok |-> FALSE, text |-> <<>>]
Taken(text) == [ok |-> TRUE, text |-> text]
ApplyEdit(result, edit) ==
    IF ~result.ok \/ ~OccursOnce(result.text, edit.old) THEN Refused
    ELSE Taken(Before(result.text, edit.old) \o edit.new \o After(result.text, edit.old))
\* a short text is answered as a whole; else a rewrite wins, and no edits are no answer
ApplyEdits(text, answer) ==
    IF answer.shape = "text" \/ answer.rewrite # <<>> THEN Taken(answer.rewrite)
    ELSE IF answer.edits = <<>> THEN Refused ELSE FoldLeft(ApplyEdit, Taken(text), answer.edits)
\* Deviation: the two ends may share characters
WithinEnds(text, new, selection) ==
    selection = <<>> \/ (IsPrefix(Before(text, selection), new) /\ IsSuffix(After(text, selection), new))
WithinSelection(text, new, selection) ==
    \/ selection = <<>>
    \/ /\ Len(new) >= Len(Before(text, selection)) + Len(After(text, selection))
       /\ IsPrefix(Before(text, selection), new) /\ IsSuffix(After(text, selection), new)
\* what the model answers is compared, what the sanitiser makes of it is saved
ApplyAnswer(text, html, answer, selection) ==
    LET new == ApplyEdits(text, answer)
    IN IF new.ok /\ WithinSelection(text, new.text, selection) THEN Taken(Clean(new.text, text, html)) ELSE Refused
\* revise_service._scope: everything, or what occurs once
Selections(text) == {<<>>} \cup {part \in SeqsUpto(Chars, 2) : OccursOnce(text, part)}
Edits == [old : SeqsUpto(Chars, 2) \ {<<>>}, new : {<<>>, <<Escaped>>}]
\* value_shape: html and long texts are answered with edits
Shapes(text, html) == IF IsHtml(text, html) THEN {"edits"} ELSE {"edits", "text"}
ModelAnswers(text, html) ==
    LET fitting == {edit \in Edits : OccursOnce(text, edit.old)}
    IN [shape : Shapes(text, html), rewrite : SeqsUpto(Chars, MaxText), edits : {<<>>}]
       \cup [shape : {"edits"}, rewrite : {<<>>},
             edits : {<<one>> : one \in Edits} \cup {<<one, two>> : one \in fitting, two \in Edits}]
Correct ==
    \E text \in SeqsUpto(Chars, MaxText) \ {<<>>}, html \in BOOLEAN :
       \E selection \in Selections(text), answer \in ModelAnswers(text, html) :
        Submits([of |-> "correction", text |-> text, html |-> html, selection |-> selection,
                 raw |-> ApplyEdits(text, answer).text, new |-> ApplyAnswer(text, html, answer, selection)])

-----------------------------------------------------------------------------
(* questions: the model's questions, the operator's answers by id           *)
NumberedId == <<"q1", "q2", "q3">>
NormalId(ids, id) == IF id # "none" /\ ~Contains(ids, id) THEN id ELSE NumberedId[Len(ids) + 1]
Normalize(given) == FoldLeft(LAMBDA ids, id : Append(ids, NormalId(ids, id)), <<>>, given)
\* answers: id -> "none", a choice, the choice as it is with blanks around it,
\* words of the operator's own. Answers are stripped, choices are not.
Stripped(text) == IF text = "padded" THEN "choice" ELSE text
Unanswered(questions, answers) == {i \in DOMAIN questions : Stripped(answers[questions[i].id]) = "none"}
Minimum(questions, minimum) == IF minimum < Len(questions) THEN minimum ELSE Len(questions)
ValidAnswers(questions, answers, minimum) ==
    LET missing == Unanswered(questions, answers)
    IN /\ IF minimum > 0 THEN Len(questions) - Cardinality(missing) >= Minimum(questions, minimum)
          ELSE \A i \in missing : questions[i].optional
       /\ \A i \in DOMAIN questions \ missing :
             questions[i].choices = {} \/ Stripped(answers[questions[i].id]) \in questions[i].choices
\* memory_service.record_answers: one entry per answered question
RecordAnswers(questions, answers) == Those(questions, {q \in ToSet(questions) : Stripped(answers[q.id]) # "none"})
AnswerQuestions ==
    \E given \in SeqsUpto({"none", "a", "b"}, 3), minimum \in {0, 2}, optional \in BOOLEAN,
       choices \in SUBSET {"choice", "padded"} :
       \E answers \in [ToSet(Normalize(given)) -> {"none", "choice", "padded", "own"}] :
        LET ids == Normalize(given)
            questions == [i \in DOMAIN given |->
                             [id |-> ids[i], choices |-> IF i = 1 THEN choices ELSE {}, optional |-> optional]]
        IN Submits([of |-> "questions", questions |-> questions, answers |-> answers, minimum |-> minimum,
                    ok |-> ValidAnswers(questions, answers, minimum), entries |-> RecordAnswers(questions, answers)])

-----------------------------------------------------------------------------
(* cover and image_bundle: scenes, their pictures, the operator's pick      *)
Scenes(brief) == AtMost(MaxVariants, Those(brief, {s \in ToSet(brief) : s.prompt}))
\* a failed scene is left out, of the value and of the bundle
Made(scenes) == {s \in ToSet(scenes) : s.made}
Variants(scenes) == Those(scenes, Made(scenes))
Pictures(scenes) == LET made == Those(scenes, Made(scenes)) IN [i \in DOMAIN made |-> made[i].title]
ValidatePick(chosen, count) == chosen < count
ReadVariant(pictures, index) == IF index + 1 \in DOMAIN pictures THEN pictures[index + 1] ELSE "none"
PickCover ==
    \E brief \in SeqsUpto([prompt : BOOLEAN, made : BOOLEAN], 3), chosen \in 0..3 :
        LET titled == [i \in DOMAIN brief |-> [prompt |-> brief[i].prompt, made |-> brief[i].made, title |-> NumberedId[i]]]
            scenes == Scenes(titled)
            variants == Variants(scenes)
        IN /\ Pictures(scenes) # <<>>
           /\ Submits([of |-> "cover", variants |-> variants, chosen |-> chosen, pictures |-> Pictures(scenes),
                       ok |-> ValidatePick(chosen, Len(variants))])

-----------------------------------------------------------------------------
(* workflow_spec: what a definition may ask for                             *)
\* a step's worker: [runs: active and internal, kind, to: where it delivers]
STEP_OUTPUT_KINDS ==
    [artifact |-> {"generate", "sections"}, questions |-> {"questions"}, document |-> {"compose"}, image |-> {"cover"}]
DeliversTo(output) == IF output = "document" THEN "target" ELSE "artifact"
NeedsEarlier(steps, i) == steps[i].needs \subseteq {steps[j].key : j \in 1..i - 1}
GraphErrors(steps) ==
    {i \in DOMAIN steps :
        \/ \E j \in 1..i - 1 : steps[j].key = steps[i].key
        \/ ~NeedsEarlier(steps, i)
        \/ steps[i].output \in {"questions", "image"} /\ steps[i].gate # "review"}
WorkerErrors(steps) ==
    {i \in DOMAIN steps : LET worker == steps[i].worker
                          IN \/ ~worker.runs \/ worker.kind \notin STEP_OUTPUT_KINDS[steps[i].output]
                             \/ worker.to # DeliversTo(steps[i].output)}
StepErrors(steps) == IF steps = <<>> THEN {0} ELSE GraphErrors(steps) \cup WorkerErrors(steps)
StepsOf(needs, outputs) ==
    {<<>>} \cup [1..1 -> [key : {"a"}, needs : needs, output : outputs, gate : {"review", "auto"},
                          worker : [runs : BOOLEAN, kind : {"sections", "questions", "compose"}, to : {"artifact", "target", "elsewhere"}]]]
    \cup UNION {[1..n -> [key : {"a", "b", "c"}, needs : needs, output : {"artifact"}, gate : {"auto"},
                          worker : {[runs |-> TRUE, kind |-> "generate", to |-> "artifact"]}]] : n \in 2..3}
SaveDefinition ==
    \E steps \in StepsOf(SUBSET {"a", "b"}, {"artifact", "questions", "document"}) :
        Submits([of |-> "definition", steps |-> steps, ok |-> StepErrors(steps) = {}])

-----------------------------------------------------------------------------
(* csv_import.stream_targets: one page of a type's rows, read from the top  *)
Offset(page) == (page - 1) * PageSize
StreamTargets(rows, type, page) ==
    FoldLeft(LAMBDA acc, row :
                 IF row # type \/ Len(acc.targets) >= PageSize THEN [acc EXCEPT !.line = @ + 1]
                 ELSE [line |-> acc.line + 1, matched |-> acc.matched + 1,
                       targets |-> IF acc.matched >= Offset(page) THEN Append(acc.targets, acc.line) ELSE acc.targets],
             [line |-> 1, matched |-> 0, targets |-> <<>>], rows).targets
Pull ==
    \E rows \in SeqsUpto({"fix", "write"}, MaxRows) :
        Submits([of |-> "pages", rows |-> rows,
                 pages |-> FlattenSeq([page \in 1..MaxRows |-> StreamTargets(rows, "fix", page)])])

-----------------------------------------------------------------------------
(* qa_numbers: a token is the parts between its spaces, a part the groups   *)
(* of digits between its dots and commas, a value <<whole, thousandths>>    *)
Joined(groups) == FoldLeft(LAMBDA n, g : n * g.unit + g.n, 0, groups)
\* every separator groups thousands
Grouped(groups) == IF ThreeDigits(Tail(groups)) THEN {<<Joined(groups), 0>>} ELSE {}
\* the last separator is the decimal point; fractions of at most three digits
DecimalOf(groups) ==
    IF ThreeDigits(Tail(Front(groups)))
    THEN {<<Joined(Front(groups)), Last(groups).n * (1000 \div Last(groups).unit)>>} ELSE {}
ValuesOf(groups) == IF Len(groups) = 1 THEN {<<Joined(groups), 0>>} ELSE DecimalOf(groups) \cup Grouped(groups)
Glued(one, two) ==
    Front(one) \o <<[n |-> Last(one).n * Head(two).unit + Head(two).n, unit |-> Last(one).unit * Head(two).unit]>> \o Tail(two)
Candidates(token) ==
    ValuesOf(FoldLeft(Glued, Head(token), Tail(token)))
    \cup (IF Len(token) = 1 THEN {} ELSE UNION {ValuesOf(token[i]) : i \in DOMAIN token})
\* one number of a text is looked for among the allowed ones
NumberWarning(token, allowed) == Candidates(token) \cap UNION {Candidates(known) : known \in allowed} = {}

\* plain, with marks between the thousands, with spaces
Writings(whole, fraction) ==
    {<< <<[n |-> Joined(whole), unit |-> 10]>> \o fraction >>, << whole \o fraction >>,
     [i \in DOMAIN whole |-> IF i = Len(whole) THEN <<whole[i]>> \o fraction ELSE <<whole[i]>>]}
CheckNumber ==
    \E whole \in Wholes, fraction \in Fractions : \E one, two \in Writings(whole, fraction) :
        Submits([of |-> "number", token |-> one, fact |-> two, warned |-> NumberWarning(one, {two})])

-----------------------------------------------------------------------------
(* field_limits and the length warnings of qa_service                       *)
Covers(limit, length) == limit.min <= length /\ length <= limit.max
\* a zero minimum is left out
JsonSchema(limit) == [maxLength |-> limit.max, minLength |-> IF limit.min = 0 THEN {} ELSE {limit.min}]
LengthWarnings(length, schema) ==
    (IF length > schema.maxLength THEN {"long"} ELSE {}) \cup {"short" : least \in {m \in schema.minLength : length < m}}
\* the one corrective answer counts only where a short field was out of range
Rewritten(limit, correctable, length, new) ==
    IF correctable >= limit.max /\ ~Covers(limit, length) /\ new > 0 THEN new ELSE length
CheckLength ==
    \E least \in 0..3, most \in 1..4, length, new \in 0..5, correctable \in {2, 4} :
        LET limit == [min |-> least, max |-> most]
            after == Rewritten(limit, correctable, length, new)
        IN least <= most /\ Submits([of |-> "length", limit |-> limit, was |-> length, length |-> after,
                                     warnings |-> LengthWarnings(after, JsonSchema(limit))])

AnswersNext ==
    /\ submitted = NotSubmitted
    /\ \/ Correct \/ AnswerQuestions \/ PickCover \/ SaveDefinition \/ Pull \/ CheckNumber \/ CheckLength
AnswersSpec == AnswersInit /\ [][AnswersNext]_submitted

-----------------------------------------------------------------------------
\* A correction of a selection leaves what stands before and after it as it
\* was, whatever the model answers: edits elsewhere, edits that overlap its
\* ends, a rewrite; and that is what is saved, unless the text or the answer is
\* html, where the sanitiser may still change anything (apply_answer,
\* _ensure_within_selection, _clean).
OutsideKept ==
    (submitted.of = "correction" /\ submitted.new.ok = TRUE /\ submitted.selection # <<>>) =>
        LET before == Before(submitted.text, submitted.selection)
            after == After(submitted.text, submitted.selection)
            inside == SubSeq(submitted.raw, Len(before) + 1, Len(submitted.raw) - Len(after))
        IN /\ submitted.raw = before \o inside \o after
           /\ \/ submitted.new.text = submitted.raw
              \/ IsHtml(submitted.text, submitted.html) \/ IsHtml(submitted.raw, submitted.html)

\* Questions have ids of their own, though the model repeats or omits them (as
\* long as it numbers none itself); accepted answers are remembered once per
\* question and are as many as asked for; and whoever answers every question,
\* with a choice it shows when it shows any, is refused only if that choice
\* has blanks around it (normalize, validate_answers, record_answers).
AnswersHeard ==
    submitted.of = "questions" =>
        LET questions == submitted.questions
            answered == {i \in DOMAIN questions : submitted.answers[questions[i].id] # "none"}
            asShown(i) ==
                LET answer == submitted.answers[questions[i].id]
                IN answer # "none" /\ (questions[i].choices = {} \/ answer \in questions[i].choices \ {"padded"})
        IN /\ \A i, j \in DOMAIN questions : questions[i].id = questions[j].id => i = j
           /\ submitted.ok = TRUE =>
                /\ Len(submitted.entries) = Cardinality(answered)
                /\ submitted.minimum <= Cardinality(answered) \/ answered = DOMAIN questions
           /\ (\A i \in DOMAIN questions : asShown(i)) => submitted.ok = TRUE

\* The cover an operator picks is the picture of the scene shown with it, and
\* it is in the bundle, whichever scenes failed (validate_pick, _render, read).
PickHasPicture ==
    (submitted.of = "cover" /\ submitted.ok = TRUE) =>
        ReadVariant(submitted.pictures, submitted.chosen) = submitted.variants[submitted.chosen + 1].title

Keys(steps, places) == {steps[i].key : i \in places}
\* what stands when everything that is ready is done
DoneWith(steps, done) == done \cup Keys(steps, {i \in DOMAIN steps : steps[i].needs \subseteq done})
\* Every step of a saved definition can be reached: doing what is ready, over
\* and over, does them all, each key once; and no step that waits for an
\* operator passes by itself (step_errors).
DefinitionRuns ==
    (submitted.of = "definition" /\ submitted.ok = TRUE) =>
        LET steps == submitted.steps
        IN /\ DoneWith(steps, DoneWith(steps, DoneWith(steps, {}))) = Keys(steps, DOMAIN steps) /\ steps # <<>>
           /\ Cardinality(Keys(steps, DOMAIN steps)) = Len(steps)
           /\ \A i \in DOMAIN steps : steps[i].gate = "auto" => steps[i].output \notin {"questions", "image"}

\* The pages of an import, one after the other, are the rows of its type in
\* order, none twice and none missed (stream_targets).
PagesCover ==
    submitted.of = "pages" =>
        submitted.pages = Those([i \in DOMAIN submitted.rows |-> i], {i \in DOMAIN submitted.rows : submitted.rows[i] = "fix"})

\* A number written as another of its usual forms is never warned of: plain,
\* grouped by spaces, dots or commas, with either decimal mark (candidates).
NumbersMatch == submitted.of = "number" => submitted.warned = FALSE

\* The range the prompt, the schema and the one rewrite go by is the range the
\* warnings go by, and a value inside it is not rewritten (FieldLimit, _rewrite).
LimitsAgree ==
    submitted.of = "length" =>
        /\ submitted.warnings = {} <=> Covers(submitted.limit, submitted.length)
        /\ Covers(submitted.limit, submitted.was) => submitted.length = submitted.was

\* An answer is read as it was given: nothing is changed that was not meant, and
\* nothing passes that a later step could not use.
AnswersRead ==
    OutsideKept /\ AnswersHeard /\ PickHasPicture /\ DefinitionRuns /\ PagesCover /\ NumbersMatch /\ LimitsAgree
=============================================================================
