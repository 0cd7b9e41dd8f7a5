------------------------------- MODULE Prompts -------------------------------
(* What a prompt has room for: the company profile under its cap, the       *)
(* memory within its budget, a cover's scene under the toolbox's limit, the *)
(* phrases a search may be paid for, the data blocks of a step. Each is a   *)
(* function of its inputs; a step of this module asks for one of them.      *)
(* Text is measured, not spelled: it is the sequence of the lengths of its  *)
(* lines, or words, with one character between two of them.                 *)
EXTENDS Integers, Lists

CONSTANTS Cap,            \* CAP_CHARS
          NoteReserve,    \* NOTE_RESERVE_CHARS
          NoteLength,     \* what the truncation note takes
          RecallLimit,    \* RECALL_LIMIT
          PromptMax,      \* PROMPT_MAX of an image prompt
          MustMax,        \* MUST_MAX, NEVER_MAX and STYLE_MAX: what an image prompt has for each
          NeverMax,
          StyleMax,
          LabelWidth,     \* what announces a part of an image prompt
          SeedMax,        \* SEED_MAX_CHARS
          SeedsMax,       \* SEEDS_MAX
          SerpTop,        \* SERP_TOP
          Lengths,        \* lengths of lines and words
          MaxList,        \* bound on the lines of a text, the words of a phrase, the phrases of an answer
          Heads,          \* what is never shortened: the rules a profile shows, a cover's lead, its text rule
          Budgets,        \* what a prompt has for its memory
          Routes          \* section lists a profile, template or kind may route

Gap == 2    \* between two parts of a prompt
Sections == {"facts", "brand", "tone"}
ASSUME PromptsAssumption ==
    /\ RecallLimit > 0 /\ {Cap, NoteReserve, NoteLength, RecallLimit, PromptMax, SeedMax, SeedsMax, SerpTop, MaxList} \subseteq Nat
    /\ {MustMax, NeverMax, StyleMax, LabelWidth} \subseteq Nat
    /\ Heads \subseteq Nat /\ Budgets \subseteq Nat /\ Lengths \subseteq Nat \ {0} /\ Routes \subseteq Seq(Sections)
    /\ NoteReserve >= 2 * Gap + NoteLength

VARIABLE asked    \* the question and its answer

Lines == UNION {[1..n -> Lengths] : n \in 0..MaxList}
NotAsked == [of |-> "nothing"]
PromptsInit == asked = NotAsked
Asks(case) == asked' = case

TextSum(lengths) == FoldLeft(LAMBDA sum, n : sum + n, 0, lengths)
Width(pieces) == IF pieces = <<>> THEN 0 ELSE TextSum(pieces) + Len(pieces) - 1
JoinWidth(one, two) == IF one = 0 THEN two ELSE IF two = 0 THEN one ELSE one + Gap + two
Upto(pieces, n) == SubSeq(pieces, 1, n)
When(condition, block) == IF condition THEN <<block>> ELSE <<>>
LastOf(S) == CHOOSE n \in S : \A k \in S : k <= n

-----------------------------------------------------------------------------
(* profile_context: sections have their lines, the facts registry its rows  *)
FirstGiven(one, two, three) == IF one # <<>> THEN one ELSE IF two # <<>> THEN two ELSE three
PriorityFirst(names) ==
    When(Contains(names, "facts"), "facts") \o When(Contains(names, "brand"), "brand") \o Those(names, Sections \ {"facts", "brand"})
\* the task type's routing, else the sections asked for, else the kind's
RoutedSections(byType, sections, byKind) == PriorityFirst(FirstGiven(byType, sections, byKind))

WholeLines(text, limit) ==
    IF Width(text) <= limit THEN text
    ELSE Upto(text, LastOf({0} \cup {n \in 1..Len(text) - 1 : Width(Upto(text, n)) <= limit}))
Room(head) == Cap - head - NoteReserve
TextRoom(head, rows) == Room(head) - Width(rows)
Capped(head, text, facts) ==
    LET total == JoinWidth(head, Width(text)) + Width(facts)
        rows == WholeLines(facts, Room(head))
        lines == WholeLines(text, TextRoom(head, rows))
    IN IF total <= Cap THEN [text |-> text, facts |-> facts, size |-> total]
       ELSE [text |-> lines, facts |-> rows,
             size |-> JoinWidth(JoinWidth(head, Width(lines)), NoteLength) + Width(rows)]
Render(head, names, data) ==
    LET text == FlattenSeq([i \in DOMAIN names |-> IF names[i] = "facts" THEN <<>> ELSE data[names[i]]])
    IN Capped(head, text, IF Contains(names, "facts") THEN data["facts"] ELSE <<>>)

Routings == {RoutedSections(byType, sections, byKind) : byType, sections, byKind \in Routes} \ {<<>>}
ContextFor ==
    \E names \in Routings, head \in Heads, data \in [Sections -> Lines] :
        Asks([of |-> "profile", head |-> head, data |-> data, names |-> names, shown |-> Render(head, names, data)])

-----------------------------------------------------------------------------
(* memory_service: entries newest first, the subject's before its category's *)
\* where the newest active entries are
Newest(entries) == AtMost(RecallLimit, Those([i \in DOMAIN entries |-> i], {i \in DOMAIN entries : entries[i].active}))
Left(budget, kept) == budget - TextSum(kept) - Len(kept)
\* whole lines while they fit; a first line longer than the budget is cut
Budgeted(lines, budget) ==
    FoldLeft(LAMBDA acc, line :
                 IF ~acc.open THEN acc
                 ELSE IF line <= Left(budget, acc.kept) THEN [acc EXCEPT !.kept = Append(@, line)]
                 ELSE [open |-> FALSE, kept |-> IF acc.kept = <<>> THEN <<budget>> ELSE acc.kept],
             [open |-> TRUE, kept |-> <<>>], lines).kept
\* the lines of the active entries, the newest RECALL_LIMIT of each
Remembered(subject, category) == AtMost(RecallLimit, subject) \o AtMost(RecallLimit, category)
Memories == UNION {[1..n -> Lengths] : n \in 0..RecallLimit + 1}
Recall ==
    \E subject, category \in Memories, budget \in Budgets :
        Asks([of |-> "recall", subject |-> subject, category |-> category, budget |-> budget,
              shown |-> Budgeted(Remembered(subject, category), budget)])

Entries == UNION {[1..k -> [language : {"", "en"}, active : BOOLEAN]] : k \in 0..RecallLimit + 1}
\* the first of the newest in the language, 0 without one
FirstIn(entries, language) ==
    LET newest == Newest(entries)
        at == SelectInSeq(newest, LAMBDA i : entries[i].language = language)
    IN IF at = 0 THEN 0 ELSE newest[at]
FreshEntry(subject, category, language) ==
    IF FirstIn(subject, language) # 0 THEN <<"subject", FirstIn(subject, language)>>
    ELSE IF FirstIn(category, language) # 0 THEN <<"category", FirstIn(category, language)>> ELSE <<"none", 0>>
FindFresh ==
    \E subject, category \in Entries, language \in {"", "en"} :
        Asks([of |-> "fresh", subject |-> subject, category |-> category, language |-> language,
              found |-> FreshEntry(subject, category, language)])

-----------------------------------------------------------------------------
(* cover: the scene gives way to what code says before and after it         *)
Atleast0(n) == IF n < 0 THEN 0 ELSE n
\* text[:limit-1] back to its last space, and an ellipsis
CutWidth(words, limit) ==
    IF Width(words) <= limit THEN Width(words)
    ELSE LET spaces == {Width(Upto(words, n)) : n \in 1..Len(words) - 1}
             within == {at \in spaces : at < Atleast0(limit - 1)}
         IN 1 + IF within = {} THEN Atleast0(limit - 1) ELSE LastOf(within)
\* Deviation: the spaces between the parts are not counted
SceneRoomTight(lead, tail) == PromptMax - lead - tail
SceneRoom(lead, tail) == PromptMax - lead - tail - 2
OneApart(one, two) == IF one = 0 THEN two ELSE IF two = 0 THEN one ELSE one + 1 + two
Labelled(n) == IF n = 0 THEN 0 ELSE LabelWidth + n
MustShow(must) == Labelled(CutWidth(must, MustMax))
Style(style, never) == OneApart(Labelled(CutWidth(style, StyleMax)), Labelled(CutWidth(never, NeverMax)))
\* what code says after the scene; the text rule, with the instruction, is last
TailOf(must, style, never, rule) == OneApart(MustShow(must), OneApart(Style(style, never), rule))
AtMostOf(n, k) == IF n < k THEN n ELSE k
FitPrompt(lead, scene, must, tail) ==
    LET long == lead + 1 + CutWidth(scene, SceneRoom(lead, tail)) + (IF tail = 0 THEN 0 ELSE 1 + tail)
        left == Atleast0(tail - Atleast0(long - PromptMax))
    IN [size |-> AtMostOf(long, PromptMax), tail |-> left, must |-> AtMostOf(must, left)]
RenderScene ==
    \E lead, rule \in Heads, scene \in Lines \ {<<>>}, must, style, never \in Lines :
        Asks([of |-> "cover", lead |-> lead, scene |-> scene, must |-> must, style |-> style, never |-> never, rule |-> rule,
              shown |-> FitPrompt(lead, scene, MustShow(must), TailOf(must, style, never, rule))])

-----------------------------------------------------------------------------
(* seo_brief: phrases are sequences of words                                *)
WordLength == [word |-> 2, brand |-> 2, monster |-> 9]
PhraseWidth(p) == Width([i \in DOMAIN p |-> WordLength[p[i]]])
Phrases == UNION {[1..n -> DOMAIN WordLength] : n \in 1..MaxList}
IsExcluded(p, terms) == \E i \in DOMAIN p : p[i] \in terms
\* cut at the last word break within the limit; blank when it has none
SeedCut(p) == Upto(p, LastOf({0} \cup {n \in 1..Len(p) - 1 : PhraseWidth(Upto(p, n)) <= SeedMax}))
Wanted(answer, terms) == Those(OnceEach(answer), {p \in ToSet(answer) : ~IsExcluded(p, terms)})
Seeds(answer, terms) ==
    LET phrases == Wanted(answer, terms)
        fitting == Those(phrases, {p \in ToSet(phrases) : PhraseWidth(p) <= SeedMax})
        cut == OnceEach(Those([i \in DOMAIN phrases |-> SeedCut(phrases[i])], {SeedCut(p) : p \in ToSet(phrases)} \ {<<>>}))
        seeds == IF fitting # <<>> THEN fitting ELSE cut
    IN AtMost(SeedsMax, seeds)
\* by volume, the largest first, ties in the order they came; 0 is unknown too
Ranked(list, volume) ==
    LET before(i) == {j \in DOMAIN list : volume[list[j]] > volume[list[i]] \/ (volume[list[j]] = volume[list[i]] /\ j < i)}
    IN [r \in DOMAIN list |-> list[CHOOSE i \in DOMAIN list : Cardinality(before(i)) = r - 1]]
Top(seeds, volume) == AtMost(SerpTop, Ranked(seeds, volume))
\* no seeds, no brief (SEO_BRIEF_NO_SEEDS)
Research ==
    \E answer \in UNION {[1..n -> Phrases] : n \in 1..MaxList}, terms \in {{}, {"brand"}}, high \in Phrases :
        LET seeds == Seeds(answer, terms)
            volume == [p \in Phrases |-> IF p = high THEN 1 ELSE 0]
        IN Asks([of |-> "seeds", answer |-> answer, terms |-> terms, seeds |-> seeds, volume |-> volume,
                 searched |-> Top(seeds, volume)])

-----------------------------------------------------------------------------
(* step: the blocks of a prompt, seams: what memory adds to them            *)
ContentMemoryKinds(augment) == {"seo_brief"} \ augment
\* a run has a subject and so a memory; what augments the task comes last
DataBlocks(p) ==
    <<"note", "brief">> \o When(p.inputs, "inputs") \o When(p.facts, "company_profile")
    \o When(p.run /\ p.remembered /\ ContentMemoryKinds(p.augment) # {}, "seo_brief")
    \o When("seo_brief" \in p.augment, "seo_brief") \o When("cover_product" \in p.augment, "cover_product")
BuildPrompt(p) ==
    <<"rules", "prompt">> \o DataBlocks(p) \o When(p.language, "language")
    \o When(p.previous \/ p.instruction, "previous_version") \o When(p.previous \/ p.instruction, "instruction")
AskStep ==
    \E p \in [inputs : BOOLEAN, facts : BOOLEAN, run : BOOLEAN, remembered : BOOLEAN, language : BOOLEAN,
              previous : BOOLEAN, instruction : BOOLEAN, augment : SUBSET {"seo_brief", "cover_product"}] :
        Asks([of |-> "step", params |-> p, blocks |-> BuildPrompt(p)])

PromptsNext ==
    /\ asked = NotAsked
    /\ \/ ContextFor \/ Recall \/ FindFresh \/ RenderScene \/ Research \/ AskStep
PromptsSpec == PromptsInit /\ [][PromptsNext]_asked

-----------------------------------------------------------------------------
\* The profile stays under its cap, as long as what is always shown does, and
\* what is cut goes in the order of its note: lines of the other sections
\* before the brand's, a fact row only when it would not fit alone (capped,
\* whole_lines, routed_sections).
ProfileFits ==
    asked.of = "profile" =>
        LET shown == asked.shown
            facts == IF Contains(asked.names, "facts") THEN asked.data["facts"] ELSE <<>>
            brand == IF Contains(asked.names, "brand") THEN asked.data["brand"] ELSE <<>>
        IN /\ asked.head + NoteReserve <= Cap => shown.size <= Cap
           /\ IsPrefix(shown.facts, facts)
           /\ shown.facts # facts => Width(Upto(facts, Len(shown.facts) + 1)) > Room(asked.head)
           /\ IsPrefix(shown.text, brand) \/ IsPrefix(brand, shown.text)

\* What is remembered fits its budget, line ends counted, and a category's line
\* is there only when every line of the subject that is still recalled, one of
\* its newest RECALL_LIMIT, is there (recall, _active, _budgeted).
RecallFits ==
    asked.of = "recall" =>
        LET recalled == AtMost(RecallLimit, asked.subject)
        IN /\ Width(asked.shown) <= asked.budget
           /\ \/ IsPrefix(asked.shown, recalled) \/ IsPrefix(recalled, asked.shown)
              \/ asked.shown = <<asked.budget>>

\* The brief used again is the newest active one of its language: the subject's
\* if it has one, else its category's. Only entries of other languages can hide
\* one, and only once there are more than RECALL_LIMIT active ones (fresh).
FreshIsNewest ==
    asked.of = "fresh" =>
        LET fits(e) == e.active /\ e.language = asked.language
            newest(list, i) == i \in DOMAIN list /\ fits(list[i]) /\ \A j \in DOMAIN list : j < i => ~fits(list[j])
            missing(list) == \/ \A i \in DOMAIN list : ~fits(list[i])
                             \/ Cardinality({i \in DOMAIN list : list[i].active}) > RecallLimit
        IN /\ asked.found[1] = "subject" => newest(asked.subject, asked.found[2])
           /\ asked.found[1] # "subject" => missing(asked.subject)
           /\ asked.found[1] = "category" => newest(asked.category, asked.found[2])
           /\ asked.found[1] = "none" => missing(asked.category)

\* A cover's prompt is within the toolbox's limit, and it is the scene that
\* gives way: what follows it is whole as long as it and the lead leave room
\* for one character of the scene, and what must be shown, when it is within
\* its own limit, goes last (fit_prompt, must_show).
TailIsKept ==
    asked.of = "cover" =>
        LET tail == TailOf(asked.must, asked.style, asked.never, asked.rule)
            must == Labelled(Width(asked.must))
        IN /\ asked.shown.size <= PromptMax
           /\ asked.lead + tail + 2 < PromptMax => asked.shown.tail = tail
           /\ Width(asked.must) <= MustMax /\ asked.lead + must + 3 <= PromptMax => asked.shown.must = must

\* No search is paid for a phrase the profile excludes or the toolbox refuses:
\* an overlong phrase is cut only when none fits, and never to an excluded or
\* repeated one (_seeds, _top).
SeedsUsable ==
    asked.of = "seeds" =>
        /\ \A i \in DOMAIN asked.seeds : PhraseWidth(asked.seeds[i]) <= SeedMax /\ ~IsExcluded(asked.seeds[i], asked.terms)
        /\ \A i \in DOMAIN asked.seeds : asked.seeds[i] # <<>>
        /\ IsInjective(asked.seeds) /\ \A i \in DOMAIN asked.searched : Contains(asked.seeds, asked.searched[i])
        /\ \A i \in DOMAIN asked.searched, p \in ToSet(asked.seeds) \ ToSet(asked.searched) :
              asked.volume[asked.searched[i]] >= asked.volume[p]

\* A brief is in a step's prompt once, from memory or from the augmentation
\* that just made it, and always under the note that it is data.
BriefOnce ==
    asked.of = "step" =>
        LET at(block) == {i \in DOMAIN asked.blocks : asked.blocks[i] = block}
        IN /\ Cardinality(at("seo_brief")) <= 1
           /\ \A i \in at("seo_brief") \cup at("company_profile"), n \in at("note") : n < i

\* A prompt has room for what it must say: every limit is kept, and what gives
\* way does so in the promised order.
PromptsFit == ProfileFits /\ RecallFits /\ FreshIsNewest /\ TailIsKept /\ SeedsUsable /\ BriefOnce
=============================================================================
