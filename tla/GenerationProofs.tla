-------------------------- MODULE GenerationProofs --------------------------
(***************************************************************************)
(* Theorems about a kind at work (Generation), for any number of languages, *)
(* headings, scenes and searches, any retries and any lease; and about what *)
(* its prompts have room for (Prompts), for any lengths, caps and budgets.  *)
(***************************************************************************)
EXTENDS Generation, Prompts, FiniteInduction, SequenceTheorems, TLAPS

-----------------------------------------------------------------------------
(* The plans                                                                *)

IsPlan(plan) ==
    /\ Len(plan) \in Nat
    /\ \A i \in 1..Len(plan) :
          plan[i].part \in 1..NLanguages /\ plan[i].use \in {"text", "rewrite", "plain", "translation", "scene", "media"}
IsSceneless(plan) == \A i \in 1..Len(plan) : plan[i].use # "scene"

LEMMA WritePlans == IsPlan(WritePlan) /\ IsSceneless(WritePlan)
  <1> DEFINE n == 2 * NLanguages
  <1>1. n \in Nat /\ NLanguages \in Nat BY GenerationAssumption
  <1>2. Len(WritePlan) = n BY <1>1 DEF WritePlan
  <1>3. ASSUME NEW i \in 1..n
        PROVE  /\ WritePlan[i].part \in 1..NLanguages /\ WritePlan[i].use \in {"text", "rewrite"}
    <2>1. (i + 1) \div 2 \in 1..NLanguages BY <1>1
    <2>2. WritePlan[i] = Step((i + 1) \div 2, IF i % 2 = 1 THEN "text" ELSE "rewrite") BY DEF WritePlan
    <2> QED BY <2>1, <2>2 DEF Step
  <1> HIDE DEF n
  <1> QED BY <1>1, <1>2, <1>3 DEF IsPlan, IsSceneless

LEMMA OtherPlans ==
    /\ IsPlan(FieldPlan) /\ IsSceneless(FieldPlan) /\ IsPlan(TranslatePlan) /\ IsSceneless(TranslatePlan)
    /\ IsPlan(PickPlan) /\ IsSceneless(PickPlan) /\ IsPlan(GeneratePlan) /\ IsSceneless(GeneratePlan)
    /\ IsPlan(QuestionsPlan) /\ IsSceneless(QuestionsPlan) /\ IsPlan(SectionsPlan) /\ IsSceneless(SectionsPlan)
    /\ IsPlan(ImagePlan) /\ IsSceneless(ImagePlan) /\ IsPlan(VideoPlan) /\ IsSceneless(VideoPlan)
    /\ IsPlan(ComposePlan) /\ IsSceneless(ComposePlan) /\ IsPlan(CoverPlan) /\ Len(CoverPlan) = NScenes
  <1>1. NLanguages \in Nat /\ NSections + 1 \in Nat /\ NScenes \in Nat /\ 1 \in 1..NLanguages BY GenerationAssumption
  <1>2. IsPlan(FieldPlan) /\ IsSceneless(FieldPlan) BY <1>1 DEF IsPlan, IsSceneless, FieldPlan, Step
  <1>3. IsPlan(TranslatePlan) /\ IsSceneless(TranslatePlan) BY <1>1 DEF IsPlan, IsSceneless, TranslatePlan, Step
  <1>4. IsPlan(PickPlan) /\ IsSceneless(PickPlan) BY <1>1 DEF IsPlan, IsSceneless, PickPlan, Step
  <1>5. IsPlan(GeneratePlan) /\ IsSceneless(GeneratePlan) BY <1>1 DEF IsPlan, IsSceneless, GeneratePlan, Step
  <1>6. IsPlan(QuestionsPlan) /\ IsSceneless(QuestionsPlan) BY <1>1 DEF IsPlan, IsSceneless, QuestionsPlan, Step
  <1>7. IsPlan(SectionsPlan) /\ IsSceneless(SectionsPlan) BY <1>1 DEF IsPlan, IsSceneless, SectionsPlan, Step
  <1>8. IsPlan(ImagePlan) /\ IsSceneless(ImagePlan) BY <1>1 DEF IsPlan, IsSceneless, ImagePlan, Step
  <1>9. IsPlan(VideoPlan) /\ IsSceneless(VideoPlan) BY <1>1 DEF IsPlan, IsSceneless, VideoPlan, Step
  <1>10. IsPlan(ComposePlan) /\ IsSceneless(ComposePlan) BY DEF IsPlan, IsSceneless, ComposePlan
  <1>11. IsPlan(CoverPlan) /\ Len(CoverPlan) = NScenes BY <1>1 DEF IsPlan, CoverPlan, Step
  <1> QED BY <1>2, <1>3, <1>4, <1>5, <1>6, <1>7, <1>8, <1>9, <1>10, <1>11

\* Every call belongs to a part, and only a cover renders scenes.
LEMMA PlanCalls ==
    /\ IsPlan(Plan)
    /\ job.kind = "cover" => Len(Plan) = NScenes
    /\ job.kind # "cover" => IsSceneless(Plan)
  <1>1. Plan \in {WritePlan, FieldPlan, TranslatePlan, PickPlan, GeneratePlan, QuestionsPlan, SectionsPlan, CoverPlan,
                  ImagePlan, VideoPlan, ComposePlan}
    BY DEF Plan
  <1>2. job.kind = "cover" => Plan = CoverPlan BY DEF Plan
  <1>3. job.kind # "cover" => Plan \in {WritePlan, FieldPlan, TranslatePlan, PickPlan, GeneratePlan, QuestionsPlan,
                                        SectionsPlan, ImagePlan, VideoPlan, ComposePlan}
    BY DEF Plan
  <1> QED BY <1>1, <1>2, <1>3, WritePlans, OtherPlans

LEMMA ResearchCalls ==
    /\ Len(ResearchPlan) = NSerps + 4 /\ NSerps \in Nat
    /\ \A i \in 1..Len(ResearchPlan) :
          /\ ResearchPlan[i] \in {"seeds", "search-volume", "keyword-ideas", "serp", "evaluate"}
          /\ ResearchPlan[i] = "serp" => i < Len(ResearchPlan)
  <1> DEFINE A == <<"seeds", "search-volume", "keyword-ideas">>
             B == [i \in 1..NSerps |-> "serp"]
             C == <<"evaluate">>
  <1>1. NSerps \in Nat BY GenerationAssumption
  <1>2. B \in Seq({"serp"}) /\ Len(B) = NSerps /\ \A i \in 1..NSerps : B[i] = "serp" BY <1>1
  <1>3. A \in Seq({"seeds", "search-volume", "keyword-ideas"}) /\ Len(A) = 3 OBVIOUS
  <1>4. C \in Seq({"evaluate"}) /\ Len(C) = 1 /\ C[1] = "evaluate" OBVIOUS
  <1>5. ResearchPlan = A \o B \o C BY DEF ResearchPlan
  <1> DEFINE U == {"seeds", "search-volume", "keyword-ideas", "serp", "evaluate"}
  <1>6. A \in Seq(U) /\ B \in Seq(U) /\ C \in Seq(U) BY <1>1
  <1> DEFINE D == A \o B
  <1> HIDE DEF A, B, C, U
  <1>7. D \in Seq(U) /\ Len(D) = NSerps + 3
    <2>1. D \in Seq(U) /\ Len(D) = Len(A) + Len(B) BY <1>6, ConcatProperties, Zenon
    <2> QED BY <1>1, <1>2, <1>3, <2>1
  <1> HIDE DEF D
  <1>8. D \o C \in Seq(U) /\ Len(D \o C) = NSerps + 4
    <2>1. D \o C \in Seq(U) /\ Len(D \o C) = Len(D) + Len(C) BY <1>6, <1>7, ConcatProperties, Zenon
    <2> QED BY <1>1, <1>4, <1>7, <2>1
  <1>9. (D \o C)[NSerps + 4] = C[1] BY <1>1, <1>4, <1>6, <1>7, <1>8, ConcatProperties
  <1>10. ResearchPlan = D \o C BY <1>5 DEF D
  <1>11. \A i \in 1..Len(ResearchPlan) : ResearchPlan[i] \in U BY <1>8, <1>10
  <1> QED BY <1>1, <1>4, <1>8, <1>9, <1>10, <1>11 DEF U


LEMMA PlanStays == ASSUME job' = job PROVE Plan' = Plan /\ ResearchPlan' = ResearchPlan
  <1>1. Plan' = Plan
    BY DEF Plan, WritePlan, FieldPlan, TranslatePlan, PickPlan, GeneratePlan, QuestionsPlan, SectionsPlan, CoverPlan,
           ImagePlan, VideoPlan, ComposePlan, Step
  <1>2. ResearchPlan' = ResearchPlan BY DEF ResearchPlan
  <1> QED BY <1>1, <1>2

LEMMA CallParts ==
    ASSUME BooksHonest, at <= Len(Plan)
    PROVE  /\ at \in 1..Len(Plan) /\ Len(Plan) \in Nat /\ Part \in 1..NLanguages /\ Language \in 1..NLanguages
           /\ study # 0 => /\ Use \notin {"rewrite", "translation", "text", "scene", "media"}
                           /\ Use = "serp" => study < Len(ResearchPlan)
           /\ study = 0 => Use = Plan[at].use /\ Use # "serp"
           /\ Use = "scene" => job.kind = "cover" /\ Len(Plan) = NScenes
  <1>1. at \in 1..Len(Plan) /\ Len(Plan) \in Nat BY PlanCalls DEF BooksHonest, GenTypeOK, IsPlan
  <1>2. Part \in 1..NLanguages BY <1>1, PlanCalls DEF IsPlan, Part
  <1>3. 1 \in 1..NLanguages BY GenerationAssumption
  <1>4. Language \in 1..NLanguages BY <1>2, <1>3 DEF Language
  <1>5. ASSUME study # 0 PROVE study \in 1..Len(ResearchPlan) /\ Use = ResearchPlan[study]
    BY <1>5, ResearchCalls DEF BooksHonest, GenTypeOK, Use
  <1>6. study = 0 => Use = Plan[at].use BY DEF Use
  <1>7. Plan[at].use \in {"text", "rewrite", "plain", "translation", "scene", "media"} BY <1>1, PlanCalls DEF IsPlan
  <1>8. Plan[at].use = "scene" => job.kind = "cover" BY <1>1, PlanCalls DEF IsSceneless
  <1>9. study # 0 => /\ Use \in {"seeds", "search-volume", "keyword-ideas", "serp", "evaluate"}
                     /\ Use = "serp" => study < Len(ResearchPlan)
    BY <1>5, ResearchCalls
  <1> QED BY <1>1, <1>2, <1>4, <1>6, <1>7, <1>8, <1>9, PlanCalls

-----------------------------------------------------------------------------
(* The books                                                                *)

\* b more is billed; the task is told what it is or that it is not known, or
\* nothing was paid, or nobody will hear of it.
Booked(b) ==
    /\ billed'.all = billed.all + b
    /\ \/ billed'.unseen = billed.unseen /\ ((b = 0 /\ UNCHANGED ledger) \/ \E c \in {b, Unknown} : Charge(c))
       \/ billed'.unseen = billed.unseen + b /\ UNCHANGED ledger

LEMMA BookedHonest ==
    ASSUME BooksHonest, NEW b \in {0, 1}, Booked(b)
    PROVE  ledger' \in [usd : Nat, complete : BOOLEAN] /\ LedgerHonest'
  <1>1. /\ ledger \in [usd : Nat, complete : BOOLEAN] /\ ledger.usd <= billed.all
        /\ (ledger.complete => ledger.usd = billed.all - billed.unseen)
        /\ billed.all \in Nat /\ billed.unseen \in Nat
    BY DEF BooksHonest, GenTypeOK, LedgerHonest
  <1>2. ledger.usd \in Nat BY <1>1
  <1>3. CASE UNCHANGED ledger BY <1>1, <1>2, <1>3 DEF Booked, LedgerHonest, Charge, Unknown
  <1>4. CASE billed'.unseen = billed.unseen /\ Charge(Unknown)
    <2>1. ledger' = [ledger EXCEPT !.complete = FALSE] BY <1>4 DEF Charge
    <2>2. ledger' \in [usd : Nat, complete : BOOLEAN] /\ ledger'.usd = ledger.usd /\ ~ledger'.complete BY <1>1, <2>1
    <2> QED BY <1>1, <1>2, <1>4, <2>2 DEF Booked, LedgerHonest
  <1>5. CASE billed'.unseen = billed.unseen /\ Charge(b)
    <2>1. b # Unknown BY DEF Unknown
    <2>2. ledger' = [ledger EXCEPT !.usd = @ + b] BY <1>5, <2>1 DEF Charge
    <2>3. ledger' \in [usd : Nat, complete : BOOLEAN] /\ ledger'.usd = ledger.usd + b /\ ledger'.complete = ledger.complete
      BY <1>1, <1>2, <2>2
    <2> QED BY <1>1, <1>2, <1>5, <2>3 DEF Booked, LedgerHonest
  <1> QED BY <1>3, <1>4, <1>5 DEF Booked

\* What is billed to a part is billed.
LEMMA PartsAreNat ==
    ASSUME BooksHonest, NEW b \in {0, 1}, NEW part \in 0..NLanguages
    PROVE  /\ PartsWith(b, part) \in [1..NLanguages -> Nat]
           /\ \A p \in 1..NLanguages : PartsWith(b, part)[p] = billed.part[p] + (IF p = part THEN b ELSE 0)
  <1>1. billed.part \in [1..NLanguages -> Nat] /\ NLanguages \in Nat
    BY GenerationAssumption DEF BooksHonest, GenTypeOK
  <1>2. CASE part = 0 BY <1>1, <1>2 DEF PartsWith
  <1>3. CASE part # 0
    <2>1. part \in 1..NLanguages BY <1>1, <1>3
    <2>2. PartsWith(b, part) = [billed.part EXCEPT ![part] = billed.part[part] + b] BY <1>3 DEF PartsWith
    <2> QED BY <1>1, <2>1, <2>2
  <1> QED BY <1>2, <1>3

\* The lease is asked about when it is due, whatever happens to the clock.
Kept ==
    /\ quiet' \in 0..LeaseTicks /\ taken' \in BOOLEAN
    /\ taken' => quiet' >= Every
\* a call ends: the state of the call is as the invariant wants it
CallEnds ==
    /\ at' \in 1..(Len(Plan) + 1) /\ study' \in 0..Len(ResearchPlan) /\ polling' = FALSE /\ job' = job
    /\ made' \in 0..NScenes /\ made' < at' /\ (made' # 0 => job.kind = "cover")
    /\ study' # 0 => at' = at /\ at <= Len(Plan) /\ Plan[at].use = "text" /\ Language \notin briefs'
    /\ outcome' \in {"new", "working", "drafts", "failed", "kept", "lost"} /\ tries' \in 0..Retries /\ sent' \in BOOLEAN
CostsEnd ==
    /\ cost' \in [1..NLanguages -> Nat \cup {Unknown}] /\ billed' \in [all : Nat, unseen : Nat, part : [1..NLanguages -> Nat]]
    /\ \A p \in 1..NLanguages : cost'[p] # Unknown => cost'[p] = billed'.part[p] /\ cost'[p] <= billed'.all
StudiesEnd ==
    /\ studies' \in [1..NLanguages -> Nat] /\ briefs' \subseteq 1..NLanguages
    /\ \A l \in 1..NLanguages : studies'[l] = IF l \in briefs' THEN 1 ELSE 0

LEMMA CallEndsWell ==
    ASSUME BooksHonest, NEW b \in {0, 1}, Booked(b), Kept, CallEnds, CostsEnd, StudiesEnd PROVE BooksHonest'
  <1>1. job' = job /\ Plan' = Plan /\ ResearchPlan' = ResearchPlan BY PlanStays DEF CallEnds
  <1>2. ledger' \in [usd : Nat, complete : BOOLEAN] /\ LedgerHonest' BY BookedHonest
  <1>3. GenTypeOK' BY <1>1, <1>2 DEF BooksHonest, GenTypeOK, Kept, CallEnds, CostsEnd, StudiesEnd
  <1>4. CallsInOrder'
    <2>1. study' # 0 => Language' = Language BY <1>1 DEF CallEnds, Language, Part
    <2> QED BY <1>1, <2>1 DEF CallsInOrder, CallEnds, Kept, Due
  <1>5. DraftCostsHonest' BY DEF DraftCostsHonest, CostsEnd
  <1>6. ResearchedOnce' BY DEF ResearchedOnce, StudiesEnd
  <1> QED BY <1>2, <1>3, <1>4, <1>5, <1>6 DEF BooksHonest

LEMMA BooksParts ==
    ASSUME BooksHonest
    PROVE  /\ NLanguages \in Nat /\ NScenes \in Nat /\ LeaseTicks \in Nat /\ Every \in Nat /\ Retries \in Nat
           /\ Every < LeaseTicks
           /\ cost \in [1..NLanguages -> Nat \cup {Unknown}] /\ billed \in [all : Nat, unseen : Nat, part : [1..NLanguages -> Nat]]
           /\ \A p \in 1..NLanguages : cost[p] # Unknown => cost[p] = billed.part[p] /\ cost[p] <= billed.all
           /\ studies \in [1..NLanguages -> Nat] /\ briefs \subseteq 1..NLanguages
           /\ \A l \in 1..NLanguages : studies[l] = IF l \in briefs THEN 1 ELSE 0
  BY GenerationAssumption DEF BooksHonest, GenTypeOK, DraftCostsHonest, ResearchedOnce

\* The result of a call is taken, with its cost.
LEMMA AdvanceHonest ==
    ASSUME BooksHonest, at <= Len(Plan), NEW b \in {0, 1}, NEW c \in {b, Unknown}, Advance(c), Charge(c),
           Bill(b, IF study = 0 THEN Part ELSE 0), job' = job, tries' = tries, outcome' = outcome, sent' \in BOOLEAN,
           polling' = FALSE, Kept
    PROVE  BooksHonest'
  <1> DEFINE part == IF study = 0 THEN Part ELSE 0
  <1>0. part \in 0..NLanguages /\ (part # 0 <=> study = 0) BY CallParts, BooksParts
  <1>1. billed' = [billed EXCEPT !.all = billed.all + b, !.part = PartsWith(b, part)] BY DEF Bill
  <1> HIDE DEF part
  <1>2. /\ billed' \in [all : Nat, unseen : Nat, part : [1..NLanguages -> Nat]]
        /\ billed'.all = billed.all + b /\ billed'.unseen = billed.unseen /\ billed.all \in Nat
        /\ \A p \in 1..NLanguages : billed'.part[p] = billed.part[p] + (IF p = part THEN b ELSE 0)
    <2> DEFINE parts == PartsWith(b, part)
    <2>1. parts \in [1..NLanguages -> Nat]
          /\ \A p \in 1..NLanguages : parts[p] = billed.part[p] + (IF p = part THEN b ELSE 0)
      BY <1>0, PartsAreNat
    <2> HIDE DEF parts
    <2>2. billed' = [billed EXCEPT !.all = billed.all + b, !.part = parts] BY <1>1 DEF parts
    <2>3. billed \in [all : Nat, unseen : Nat, part : [1..NLanguages -> Nat]] BY BooksParts
    <2>4. billed.all + b \in Nat BY <2>3
    <2> QED BY <2>1, <2>2, <2>3, <2>4
  <1>3. Booked(b) BY <1>2 DEF Booked
  <1>4. CASE study # 0
    <2>1. at' = at /\ cost' = cost /\ made' = made BY <1>4 DEF Advance
    <2>2. CostsEnd
      <3>1. \A p \in 1..NLanguages : billed'.part[p] = billed.part[p] /\ billed.part[p] \in Nat
        <4>1. \A p \in 1..NLanguages : billed.part[p] \in Nat /\ p # part BY <1>0, <1>4, BooksParts
        <4> QED BY <1>2, <4>1
      <3>2. \A p \in 1..NLanguages : cost[p] # Unknown => cost[p] = billed.part[p] /\ cost[p] <= billed.all
        BY BooksParts
      <3>3. ASSUME NEW p \in 1..NLanguages, cost'[p] # Unknown PROVE cost'[p] = billed'.part[p] /\ cost'[p] <= billed'.all
        BY <1>2, <2>1, <3>1, <3>2, <3>3
      <3>4. cost' \in [1..NLanguages -> Nat \cup {Unknown}] BY <2>1, BooksParts
      <3> QED BY <1>2, <3>3, <3>4 DEF CostsEnd
    <2>3. at <= Len(Plan) /\ Plan[at].use = "text" /\ Language \notin briefs BY <1>4 DEF BooksHonest, CallsInOrder
    <2>4. StudiesEnd /\ (study' # 0 => briefs' = briefs)
      <3>1. CASE study # Len(ResearchPlan) BY <1>4, <3>1, BooksParts DEF Advance, StudiesEnd
      <3>2. CASE study = Len(ResearchPlan)
        <4>1. study' = 0 /\ briefs' = briefs \cup {Language} /\ studies' = [studies EXCEPT ![Language] = studies[Language] + 1]
          BY <1>4, <3>2 DEF Advance, Remembers
        <4>2. Language \in 1..NLanguages /\ studies[Language] = 0 BY <2>3, CallParts, BooksParts
        <4> QED BY <4>1, <4>2, BooksParts DEF StudiesEnd
      <3> QED BY <3>1, <3>2
    <2>5. study' \in 0..Len(ResearchPlan)
      <3>1. study \in 1..Len(ResearchPlan) /\ Len(ResearchPlan) \in Nat BY <1>4, ResearchCalls DEF BooksHonest, GenTypeOK
      <3> QED BY <1>4, <3>1 DEF Advance
    <2>6. CallEnds BY <2>1, <2>3, <2>4, <2>5 DEF CallEnds, BooksHonest, GenTypeOK, CallsInOrder
    <2> QED BY <1>3, <2>2, <2>4, <2>6, CallEndsWell
  <1>5. CASE study = 0
    <2>1. /\ at' = at + 1 /\ cost' = [cost EXCEPT ![Part] = Total(cost[Part], c)]
          /\ made' = (IF Use = "scene" THEN made + 1 ELSE made) /\ study' = 0 /\ briefs' = briefs /\ studies' = studies
      BY <1>5 DEF Advance
    <2>2. StudiesEnd BY <2>1, BooksParts DEF StudiesEnd
    <2>3. Part \in 1..NLanguages /\ part = Part BY <1>5, CallParts DEF part
    <2>4. CostsEnd
      <3>1. /\ Total(cost[Part], c) \in Nat \cup {Unknown}
            /\ Total(cost[Part], c) # Unknown =>
                  Total(cost[Part], c) = billed.part[Part] + b /\ Total(cost[Part], c) <= billed.all + b
        <4>1. cost[Part] \in Nat \cup {Unknown} /\ billed.part[Part] \in Nat
              /\ (cost[Part] # Unknown => cost[Part] = billed.part[Part] /\ cost[Part] <= billed.all)
          BY <2>3, BooksParts
        <4>2. PICK all \in Nat : all = billed.all BY <1>2
        <4>3. PICK paid \in Nat : paid = billed.part[Part] BY <4>1
        <4>4. PICK k \in Nat \cup {Unknown} : k = cost[Part] BY <4>1
        <4>5. k # Unknown => k = paid /\ k <= all BY <4>1, <4>2, <4>3, <4>4
        <4>6. /\ Total(k, c) \in Nat \cup {Unknown}
              /\ Total(k, c) # Unknown => Total(k, c) = paid + b /\ Total(k, c) <= all + b
          BY <4>5 DEF Total, Unknown
        <4> QED BY <4>2, <4>3, <4>4, <4>6
      <3>2. cost' \in [1..NLanguages -> Nat \cup {Unknown}] BY <2>1, <2>3, <3>1, BooksParts
      <3>3. ASSUME NEW p \in 1..NLanguages, cost'[p] # Unknown
            PROVE  cost'[p] = billed'.part[p] /\ cost'[p] <= billed'.all
        <4>1. CASE p = Part
          <5>1. cost'[p] = Total(cost[Part], c) BY <2>1, <2>3, <4>1, BooksParts
          <5> QED BY <1>2, <2>3, <3>1, <3>3, <4>1, <5>1
        <4>2. CASE p # Part
          <5>1. cost'[p] = cost[p] BY <2>1, <4>2, BooksParts
          <5>2. cost[p] = billed.part[p] /\ cost[p] <= billed.all /\ cost[p] \in Nat BY <3>3, <5>1, BooksParts
          <5>3. billed'.part[p] = billed.part[p] BY <1>2, <2>3, <4>2, <5>2
          <5> QED BY <1>2, <5>1, <5>2, <5>3
        <4> QED BY <4>1, <4>2
      <3> QED BY <1>2, <3>2, <3>3 DEF CostsEnd
    <2>5. CallEnds
      <3>1. at \in 1..Len(Plan) /\ Len(Plan) \in Nat /\ (Use = "scene" => job.kind = "cover" /\ Len(Plan) = NScenes)
        BY CallParts
      <3>2. made \in 0..NScenes /\ made < at /\ (made # 0 => job.kind = "cover") BY DEF BooksHonest, GenTypeOK, CallsInOrder
      <3>3. made' \in 0..NScenes /\ made' < at' /\ (made' # 0 => job.kind = "cover") BY <2>1, <3>1, <3>2, BooksParts
      <3>4. 0 \in 0..Len(ResearchPlan) BY ResearchCalls
      <3> QED BY <2>1, <3>1, <3>3, <3>4 DEF CallEnds, BooksHonest, GenTypeOK
    <2> QED BY <1>3, <2>2, <2>4, <2>5, CallEndsWell
  <1> QED BY <1>4, <1>5


\* what the call that raised leaves in the bill of the parts
BilledParts(b) ==
    /\ billed' \in [all : Nat, unseen : Nat, part : [1..NLanguages -> Nat]]
    /\ Restarted => billed'.part = NoPart
    /\ ~Restarted => billed'.part = PartsWith(b, IF study = 0 /\ Use = "rewrite" THEN Part ELSE 0)

\* A call raised: whatever is survived, tried again or failed, the books hold.
LEMMA RaiseHonest ==
    ASSUME BooksHonest, at <= Len(Plan), NEW b \in {0, 1}, NEW error \in Errors, Raise(error), Booked(b), BilledParts(b),
           job' = job, sent' \in BOOLEAN, Kept
    PROVE  BooksHonest'
  <1> DEFINE part == IF study = 0 /\ Use = "rewrite" THEN Part ELSE 0
  <1>1. /\ at \in 1..Len(Plan) /\ Len(Plan) \in Nat /\ Part \in 1..NLanguages
        /\ study # 0 => Use \notin {"rewrite", "scene"} /\ (Use = "serp" => study < Len(ResearchPlan))
        /\ study = 0 => Use # "serp"
    BY CallParts
  <1>2. /\ at \in 1..(Len(Plan) + 1) /\ study \in 0..Len(ResearchPlan) /\ Len(ResearchPlan) \in Nat
        /\ made \in 0..NScenes /\ made < at /\ (made # 0 => job.kind = "cover") /\ tries \in 0..Retries
        /\ outcome \in {"new", "working", "drafts", "failed", "kept", "lost"}
        /\ (study # 0 => Plan[at].use = "text" /\ Language \notin briefs)
    BY ResearchCalls DEF BooksHonest, GenTypeOK, CallsInOrder
  <1>3. polling' = FALSE /\ briefs' = briefs /\ studies' = studies BY DEF Raise
  <1>4. StudiesEnd BY <1>3, BooksParts DEF StudiesEnd
  <1>5. billed.all \in Nat /\ billed'.all = billed.all + b /\ billed.part \in [1..NLanguages -> Nat]
    BY BooksParts DEF Booked
  <1>6. part \in 0..NLanguages
    <2>1. NLanguages \in Nat BY BooksParts
    <2> QED BY <1>1, <2>1
  <1>7. \A p \in 1..NLanguages : p # part /\ ~Restarted => billed'.part[p] = billed.part[p]
    <2>1. \A p \in 1..NLanguages : PartsWith(b, part)[p] = billed.part[p] + (IF p = part THEN b ELSE 0)
      BY <1>6, PartsAreNat
    <2>2. ~Restarted => billed'.part = PartsWith(b, part) BY DEF BilledParts
    <2> HIDE DEF part
    <2>3. \A p \in 1..NLanguages : billed.part[p] \in Nat BY <1>5
    <2> QED BY <2>1, <2>2, <2>3
  <1>8. ASSUME ~Restarted, cost' \in [1..NLanguages -> Nat \cup {Unknown}],
               \A p \in 1..NLanguages : cost'[p] # Unknown => cost'[p] = cost[p] /\ p # part
        PROVE  CostsEnd
    <2> HIDE DEF part
    <2>1. \A p \in 1..NLanguages : cost[p] # Unknown => cost[p] = billed.part[p] /\ cost[p] <= billed.all BY BooksParts
    <2>2. ASSUME NEW p \in 1..NLanguages, cost'[p] # Unknown PROVE cost'[p] = billed'.part[p] /\ cost'[p] <= billed'.all
      <3>1. cost'[p] = cost[p] /\ p # part /\ cost[p] # Unknown BY <1>8, <2>2
      <3>2. cost[p] = billed.part[p] /\ cost[p] <= billed.all /\ billed.part[p] \in Nat BY <1>5, <2>1, <3>1
      <3>3. billed'.part[p] = billed.part[p] BY <1>7, <1>8, <3>1
      <3> QED BY <1>5, <3>1, <3>2, <3>3
    <2> QED BY <1>8, <2>2 DEF CostsEnd, BilledParts
  <1>9. CASE Survived(Use, error)
    <2>1. outcome' = outcome /\ tries' = tries /\ made' = made BY <1>9 DEF Raise
    <2>2. ~Restarted BY <1>2, <2>1 DEF Restarted
    <2>3. CASE study # 0
      <3>1. Use = "serp" /\ part = 0 BY <1>1, <1>9, <2>3 DEF Survived
      <3>2. study' = study + 1 /\ at' = at /\ cost' = cost BY <1>9, <2>3 DEF Raise
      <3>3. study' \in 0..Len(ResearchPlan) BY <1>1, <1>2, <2>3, <3>1, <3>2
      <3>4. CallEnds BY <1>1, <1>2, <1>3, <2>1, <2>3, <3>2, <3>3 DEF CallEnds
      <3>5. CostsEnd BY <1>8, <2>2, <3>1, <3>2, BooksParts
      <3> QED BY <1>4, <3>4, <3>5, CallEndsWell
    <2>4. CASE study = 0
      <3>1. /\ at' = at + 1 /\ study' = 0
            /\ cost' = IF Use = "rewrite" THEN [cost EXCEPT ![Part] = Total(cost[Part], Unknown)] ELSE cost
        BY <1>9, <2>4 DEF Raise
      <3>2. CallEnds BY <1>1, <1>2, <1>3, <2>1, <3>1 DEF CallEnds
      <3>3. CASE Use = "rewrite"
        <4>1. part = Part /\ Total(cost[Part], Unknown) = Unknown BY <2>4, <3>3 DEF Total
        <4>2. cost' = [cost EXCEPT ![part] = Unknown] /\ part \in 1..NLanguages BY <1>1, <3>1, <3>3, <4>1
        <4> HIDE DEF part
        <4>3. cost' \in [1..NLanguages -> Nat \cup {Unknown}]
              /\ \A p \in 1..NLanguages : cost'[p] # Unknown => cost'[p] = cost[p] /\ p # part
          BY <4>2, BooksParts
        <4> QED BY <1>4, <1>8, <2>2, <3>2, <4>3, CallEndsWell
      <3>4. CASE Use # "rewrite"
        <4>1. part = 0 /\ cost' = cost BY <3>1, <3>4
        <4>2. CostsEnd BY <1>8, <2>2, <4>1, BooksParts
        <4> QED BY <1>4, <3>2, <4>2, CallEndsWell
      <3> QED BY <3>3, <3>4
    <2> QED BY <2>3, <2>4
  <1>10. CASE ~Survived(Use, error) /\ MayRetry(error)
    <2>1. tries' = tries - 1 /\ at' = 1 /\ study' = 0 /\ cost' = NoPart /\ made' = 0 /\ outcome' = outcome
      BY <1>10 DEF Raise
    <2>2. tries > 0 BY <1>10 DEF MayRetry
    <2>3. Restarted BY <1>2, <2>1, <2>2 DEF Restarted
    <2>4. CostsEnd
      <3>1. billed'.part = NoPart BY <2>3 DEF BilledParts
      <3> QED BY <1>5, <2>1, <3>1 DEF CostsEnd, BilledParts, NoPart
    <2>5. tries' \in 0..Retries /\ 0 \in 0..NScenes BY <1>2, <2>1, <2>2, BooksParts
    <2>6. CallEnds BY <1>1, <1>2, <1>3, <2>1, <2>5 DEF CallEnds
    <2> QED BY <1>4, <2>4, <2>6, CallEndsWell
  <1>11. CASE ~Survived(Use, error) /\ ~MayRetry(error)
    <2>1. tries' = tries /\ at' = at /\ study' = study /\ cost' = cost /\ made' = made /\ outcome' = "failed"
      BY <1>11 DEF Raise
    <2>2. ~Restarted BY <1>2, <2>1 DEF Restarted
    <2>3. part = 0 BY <1>11 DEF Survived
    <2>4. CostsEnd BY <1>8, <2>1, <2>2, <2>3, BooksParts
    <2>5. CallEnds BY <1>1, <1>2, <1>3, <2>1 DEF CallEnds
    <2> QED BY <1>4, <2>4, <2>5, CallEndsWell
  <1> QED BY <1>9, <1>10, <1>11


LEMMA OwedBooked ==
    ASSUME BooksHonest, at <= Len(Plan), NEW b \in {0, 1}, Owed(b)
    PROVE  BilledParts(b) /\ billed'.all = billed.all + b /\ billed'.unseen = billed.unseen
  <1> DEFINE part == IF study = 0 /\ Use = "rewrite" THEN Part ELSE 0
             parts == PartsWith(b, part)
  <1>1. billed \in [all : Nat, unseen : Nat, part : [1..NLanguages -> Nat]] /\ billed.all + b \in Nat /\ NLanguages \in Nat
    BY BooksParts
  <1>2. part \in 0..NLanguages BY <1>1, CallParts
  <1>3. parts \in [1..NLanguages -> Nat] BY <1>2, PartsAreNat
  <1>4. NoPart \in [1..NLanguages -> Nat] BY DEF NoPart
  <1>5. billed' = [billed EXCEPT !.all = billed.all + b, !.part = IF Restarted THEN NoPart ELSE parts] BY DEF Owed, Bill
  <1> HIDE DEF parts
  <1>6. CASE Restarted
    <2>1. billed' = [billed EXCEPT !.all = billed.all + b, !.part = NoPart] BY <1>5, <1>6
    <2> QED BY <1>1, <1>4, <1>6, <2>1 DEF BilledParts
  <1>7. CASE ~Restarted
    <2>1. billed' = [billed EXCEPT !.all = billed.all + b, !.part = parts] BY <1>5, <1>7
    <2>2. /\ billed' \in [all : Nat, unseen : Nat, part : [1..NLanguages -> Nat]] /\ billed'.part = parts
          /\ billed'.all = billed.all + b /\ billed'.unseen = billed.unseen
      BY <1>1, <1>3, <2>1
    <2> QED BY <1>7, <2>2 DEF BilledParts, parts
  <1> QED BY <1>6, <1>7

LEMMA BeatKeeps ==
    ASSUME BooksHonest, taken' = taken, Beat \/ UNCHANGED quiet PROVE Kept
  <1>1. /\ quiet \in 0..LeaseTicks /\ taken \in BOOLEAN /\ LeaseTicks \in Nat /\ Every \in Nat
        /\ taken => quiet >= Every
    BY BooksParts DEF BooksHonest, GenTypeOK, CallsInOrder, Due
  <1>2. CASE UNCHANGED quiet BY <1>1, <1>2 DEF Kept
  <1>3. CASE Use # "translation" /\ Beat
    <2>1. ~taken /\ quiet' \in {0, quiet} BY <1>1, <1>3 DEF Beat, Due
    <2> QED BY <1>1, <2>1 DEF Kept
  <1> QED BY <1>2, <1>3 DEF Beat

LEMMA ChargeBooked ==
    ASSUME NEW b \in {0, 1}, NEW c, c = b \/ c = Unknown, Charge(c), billed'.all = billed.all + b, billed'.unseen = billed.unseen
    PROVE  Booked(b)
  BY DEF Booked

\* Calls that are answered, or a job that is done.
LEMMA TakenResults ==
    ASSUME BooksHonest, NEW b \in {0, 1}, NEW c, Answered(c, b) \/ JobDone(c, b) PROVE BooksHonest'
  <1>1. sent \in BOOLEAN /\ polling \in BOOLEAN BY DEF BooksHonest, GenTypeOK
  <1>2. CASE Answered(c, b)
    <2>1. at <= Len(Plan) /\ polling' = FALSE /\ Kept BY <1>1, <1>2, BeatKeeps DEF Answered, CanCall
    <2>2. c \in {b, Unknown} /\ sent' \in BOOLEAN BY <1>1, <1>2 DEF Answered
    <2>3. /\ Advance(c) /\ Charge(c) /\ Bill(b, IF study = 0 THEN Part ELSE 0) /\ job' = job /\ tries' = tries
          /\ outcome' = outcome
      BY <1>2 DEF Answered
    <2> QED BY <2>1, <2>2, <2>3, AdvanceHonest
  <1>3. CASE JobDone(c, b)
    <2>1. at <= Len(Plan) /\ study = 0 BY <1>3 DEF JobDone, Polled, BooksHonest, CallsInOrder
    <2>2. c \in {b, Unknown} /\ sent' \in BOOLEAN /\ polling' = FALSE /\ Kept BY <1>1, <1>3, BeatKeeps DEF JobDone
    <2>3. /\ Advance(c) /\ Charge(c) /\ Bill(b, IF study = 0 THEN Part ELSE 0) /\ job' = job /\ tries' = tries
          /\ outcome' = outcome
      BY <1>3, <2>1 DEF JobDone
    <2> QED BY <2>1, <2>2, <2>3, AdvanceHonest
  <1> QED BY <1>2, <1>3

\* Calls that raise, before or after the request left.
LEMMA RaisedCalls ==
    ASSUME BooksHonest, NEW error \in Errors, NEW b \in {0, 1}, NEW c,
           \/ NeverLeaves(error) /\ b = 0
           \/ Unusable(c, b) \/ Breaks(error, b) \/ PollBreaks(error, b) \/ JobFails(error, c, b)
    PROVE  BooksHonest'
  <1>1. sent \in BOOLEAN BY DEF BooksHonest, GenTypeOK
  <1>2. at <= Len(Plan)
    BY DEF NeverLeaves, Unusable, Breaks, PollBreaks, JobFails, CanCall, Polled, BooksHonest, CallsInOrder
  <1>3. Owed(b) /\ job' = job /\ sent' \in BOOLEAN
    BY <1>1 DEF NeverLeaves, Unusable, Breaks, PollBreaks, JobFails
  <1>4. Kept BY BeatKeeps DEF NeverLeaves, Unusable, Breaks, PollBreaks, JobFails
  <1>5. \E e \in Errors : Raise(e) BY DEF NeverLeaves, Unusable, Breaks, PollBreaks, JobFails, Errors
  <1>6. BilledParts(b) /\ billed'.all = billed.all + b /\ billed'.unseen = billed.unseen BY <1>2, <1>3, OwedBooked
  <1>7. Booked(b)
    <2>1. CASE NeverLeaves(error) /\ b = 0 BY <1>6, <2>1 DEF NeverLeaves, Booked
    <2>2. CASE Unusable(c, b) \/ JobFails(error, c, b) BY <1>6, <2>2, ChargeBooked DEF Unusable, JobFails
    <2>3. CASE Breaks(error, b) \/ PollBreaks(error, b) BY <1>6, <2>3, ChargeBooked DEF Breaks, PollBreaks
    <2> QED BY <2>1, <2>2, <2>3
  <1> QED BY <1>2, <1>3, <1>4, <1>5, <1>6, <1>7, RaiseHonest

\* A submit that breaks off: its bill is heard of by nobody.
LEMMA SubmitBreaksHonest ==
    ASSUME BooksHonest, NEW error \in Errors, NEW b \in {0, 1}, SubmitBreaks(error, b) PROVE BooksHonest'
  <1>1. /\ billed \in [all : Nat, unseen : Nat, part : [1..NLanguages -> Nat]] /\ billed.all + b \in Nat
        /\ billed.unseen + b \in Nat
    BY BooksParts
  <1>2. NoPart \in [1..NLanguages -> Nat] BY DEF NoPart
  <1>3. billed' = [billed EXCEPT !.all = billed.all + b, !.unseen = billed.unseen + b,
                                 !.part = IF Restarted THEN NoPart ELSE billed.part]
    BY DEF SubmitBreaks
  <1>4. /\ billed' \in [all : Nat, unseen : Nat, part : [1..NLanguages -> Nat]]
        /\ billed'.all = billed.all + b /\ billed'.unseen = billed.unseen + b
        /\ billed'.part = IF Restarted THEN NoPart ELSE billed.part
    <2>1. CASE Restarted BY <1>1, <1>2, <1>3, <2>1
    <2>2. CASE ~Restarted BY <1>1, <1>2, <1>3, <2>2
    <2> QED BY <2>1, <2>2
  <1>5. BilledParts(b)
    <2>1. Use # "rewrite" BY DEF SubmitBreaks, Media
    <2>2. (IF study = 0 /\ Use = "rewrite" THEN Part ELSE 0) = 0 BY <2>1
    <2>3. PartsWith(b, 0) = billed.part BY DEF PartsWith
    <2> QED BY <1>4, <2>2, <2>3 DEF BilledParts
  <1>6. Booked(b) BY <1>4 DEF SubmitBreaks, Booked
  <1>7. at <= Len(Plan) /\ Raise(error) /\ job' = job BY DEF SubmitBreaks, CanCall
  <1>8. sent' \in BOOLEAN /\ Kept BY BeatKeeps DEF SubmitBreaks, BooksHonest, GenTypeOK
  <1> QED BY <1>5, <1>6, <1>7, <1>8, RaiseHonest


\* Between the calls nothing is paid.
LEMMA NothingPaid ==
    ASSUME BooksHonest, UNCHANGED <<job, tries, ledger, cost, made, briefs, studies, billed>>, polling' \in BOOLEAN,
           at' \in 1..(Len(Plan) + 1), study' \in 0..Len(ResearchPlan), sent' \in BOOLEAN, Kept, CallsInOrder',
           outcome' \in {"new", "working", "drafts", "failed", "kept", "lost"}
    PROVE  BooksHonest'
  <1>1. Plan' = Plan /\ ResearchPlan' = ResearchPlan BY PlanStays
  <1>2. GenTypeOK' BY <1>1 DEF BooksHonest, GenTypeOK, Kept
  <1>3. LedgerHonest' /\ DraftCostsHonest' /\ ResearchedOnce'
    BY DEF BooksHonest, LedgerHonest, DraftCostsHonest, ResearchedOnce
  <1> QED BY <1>2, <1>3 DEF BooksHonest

LEMMA CallStands ==
    ASSUME BooksHonest, UNCHANGED <<job, at, study, polling, briefs, made>>, Kept
    PROVE  CallsInOrder'
  <1>1. Plan' = Plan /\ ResearchPlan' = ResearchPlan BY PlanStays
  <1>2. Language' = Language /\ Use' = Use BY <1>1 DEF Language, Part, Use
  <1> QED BY <1>1, <1>2 DEF BooksHonest, CallsInOrder, Kept, Due

\* The clock, the queue, the start and the delivery of a subject, and the steps
\* between two calls.
LEMMA BetweenCalls ==
    ASSUME BooksHonest,
           Begin \/ Tick \/ TakeOver \/ LoseLease \/ StartResearch \/ NoRewrite \/ Submit \/ PollAgain \/ Deliver
    PROVE  BooksHonest'
  <1>1. /\ at \in 1..(Len(Plan) + 1) /\ study \in 0..Len(ResearchPlan) /\ sent \in BOOLEAN /\ polling \in BOOLEAN
        /\ outcome \in {"new", "working", "drafts", "failed", "kept", "lost"} /\ taken \in BOOLEAN
        /\ quiet \in 0..LeaseTicks /\ LeaseTicks \in Nat /\ Every \in Nat /\ Every < LeaseTicks /\ (taken => quiet >= Every)
    BY BooksParts DEF BooksHonest, GenTypeOK, CallsInOrder, Due
  <1>2. CASE Begin
    <2>1. Kept BY <1>1, <1>2, BeatKeeps DEF Begin
    <2> QED BY <1>1, <1>2, <2>1, CallStands, NothingPaid DEF Begin
  <1>3. CASE Tick
    <2>1. Kept BY <1>1, <1>3 DEF Tick, Kept
    <2> QED BY <1>1, <1>3, <2>1, CallStands, NothingPaid DEF Tick
  <1>4. CASE TakeOver
    <2>1. Kept BY <1>1, <1>4 DEF TakeOver, Kept
    <2> QED BY <1>1, <1>4, <2>1, CallStands, NothingPaid DEF TakeOver
  <1>5. CASE LoseLease
    <2>1. Kept BY <1>1, <1>5, BeatKeeps DEF LoseLease
    <2>2. CallsInOrder' BY <1>5, <2>1, CallStands DEF LoseLease
    <2>3. CASE ~polling BY <1>1, <1>5, <2>1, <2>2, <2>3, NothingPaid DEF LoseLease
    <2>4. CASE polling
      <3>1. PICK b \in {0, 1} : Bill(b, 0) /\ Charge(Unknown) BY <1>5, <2>4 DEF LoseLease
      <3>2. billed' = [billed EXCEPT !.all = billed.all + b, !.part = billed.part] BY <3>1 DEF Bill, PartsWith
      <3>3. billed \in [all : Nat, unseen : Nat, part : [1..NLanguages -> Nat]] /\ billed.all + b \in Nat BY BooksParts
      <3>4. /\ billed' \in [all : Nat, unseen : Nat, part : [1..NLanguages -> Nat]] /\ billed'.part = billed.part
            /\ billed'.all = billed.all + b /\ billed'.unseen = billed.unseen
        BY <3>2, <3>3
      <3>5. Booked(b) BY <3>1, <3>4, ChargeBooked
      <3>6. ledger' \in [usd : Nat, complete : BOOLEAN] /\ LedgerHonest' BY <3>5, BookedHonest
      <3>7. Plan' = Plan /\ ResearchPlan' = ResearchPlan BY <1>5, PlanStays DEF LoseLease
      <3>8. GenTypeOK' BY <1>5, <3>4, <3>6, <3>7 DEF LoseLease, BooksHonest, GenTypeOK
      <3>9. DraftCostsHonest'
        <4>1. cost' = cost /\ billed.all \in Nat BY <1>5, <3>3 DEF LoseLease
        <4>2. ASSUME NEW p \in 1..NLanguages, cost[p] # Unknown PROVE cost[p] = billed'.part[p] /\ cost[p] <= billed'.all
          <5>1. cost[p] = billed.part[p] /\ cost[p] <= billed.all /\ billed.part[p] \in Nat BY <3>3, <4>2, BooksParts
          <5> QED BY <3>4, <4>1, <5>1
        <4>3. DOMAIN cost = 1..NLanguages BY BooksParts
        <4> QED BY <4>1, <4>2, <4>3 DEF DraftCostsHonest
      <3>10. ResearchedOnce' BY <1>5 DEF LoseLease, BooksHonest, ResearchedOnce
      <3> QED BY <2>2, <3>6, <3>8, <3>9, <3>10 DEF BooksHonest
    <2> QED BY <2>3, <2>4
  <1>6. CASE StartResearch
    <2>1. Kept /\ study' = 1 /\ at' = at /\ polling' = polling /\ job' = job /\ briefs' = briefs /\ made' = made
      BY <1>1, <1>6, BeatKeeps DEF StartResearch
    <2>2. Plan' = Plan /\ ResearchPlan' = ResearchPlan BY <2>1, PlanStays
    <2>3. at <= Len(Plan) /\ Plan[at].use = "text" /\ Language \notin briefs /\ ~polling
      BY <1>6, CallParts DEF StartResearch, Researches, BooksHonest, CallsInOrder, Media
    <2>4. Language' = Language BY <2>1, <2>2 DEF Language, Part
    <2>5. CallsInOrder' BY <2>1, <2>2, <2>3, <2>4 DEF BooksHonest, CallsInOrder, Kept, Due
    <2>6. study' \in 0..Len(ResearchPlan) BY <2>1, ResearchCalls
    <2> QED BY <1>1, <1>6, <2>1, <2>5, <2>6, NothingPaid DEF StartResearch
  <1>7. CASE NoRewrite
    <2>1. Kept /\ at' = at + 1 /\ study' = study /\ polling' = FALSE /\ job' = job /\ briefs' = briefs /\ made' = made
      BY <1>1, <1>7, BeatKeeps DEF NoRewrite, CanCall
    <2>2. Plan' = Plan /\ ResearchPlan' = ResearchPlan BY <2>1, PlanStays
    <2>3. at \in 1..Len(Plan) /\ Len(Plan) \in Nat /\ study = 0 BY <1>7, CallParts DEF NoRewrite, CanCall
    <2>4. made < at /\ made \in 0..NScenes BY DEF BooksHonest, CallsInOrder, GenTypeOK
    <2>5. made < at + 1 BY <2>3, <2>4, BooksParts
    <2>6. CallsInOrder' BY <2>1, <2>2, <2>3, <2>5 DEF BooksHonest, CallsInOrder, Kept, Due
    <2> QED BY <1>1, <1>7, <2>1, <2>3, <2>6, NothingPaid DEF NoRewrite
  <1>8. CASE Submit
    <2>1. Kept BY <1>1, <1>8, BeatKeeps DEF Submit
    <2>2. /\ UNCHANGED <<job, at, study, tries, ledger, cost, made, briefs, studies, billed>> /\ outcome' = outcome
          /\ polling' = TRUE /\ sent' \in BOOLEAN
      BY <1>1, <1>8 DEF Submit
    <2>3. Plan' = Plan /\ ResearchPlan' = ResearchPlan BY <2>2, PlanStays
    <2>4. at <= Len(Plan) /\ Use \in Media /\ study = 0 BY <1>8, CallParts DEF Submit, CanCall, Media
    <2>5. Language' = Language /\ Use' = Use BY <2>2, <2>3 DEF Language, Part, Use
    <2>6. CallsInOrder' BY <2>1, <2>2, <2>3, <2>4, <2>5 DEF BooksHonest, CallsInOrder, Kept, Due, Media
    <2> QED BY <1>1, <2>1, <2>2, <2>6, NothingPaid
  <1>9. CASE PollAgain
    <2>1. Kept BY <1>1, <1>9 DEF PollAgain, Kept
    <2> QED BY <1>1, <1>9, <2>1, CallStands, NothingPaid DEF PollAgain
  <1>10. CASE Deliver
    <2>1. Kept BY <1>1, <1>10, BeatKeeps DEF Deliver
    <2> QED BY <1>1, <1>10, <2>1, CallStands, NothingPaid DEF Deliver
  <1> QED BY <1>2, <1>3, <1>4, <1>5, <1>6, <1>7, <1>8, <1>9, <1>10

-----------------------------------------------------------------------------
LEMMA BooksStep == BooksHonest /\ [GenNext]_genVars => BooksHonest'
  <1> SUFFICES ASSUME BooksHonest, [GenNext]_genVars PROVE BooksHonest'
    OBVIOUS
  <1>1. CASE Begin \/ Tick \/ TakeOver \/ LoseLease \/ StartResearch \/ NoRewrite \/ Submit \/ PollAgain \/ Deliver
    BY <1>1, BetweenCalls
  <1>2. ASSUME NEW error \in Errors, NeverLeaves(error) PROVE BooksHonest' BY <1>2, RaisedCalls
  <1>3. ASSUME NEW c, NEW b \in {0, 1}, Answered(c, b) \/ Unusable(c, b) \/ JobDone(c, b) PROVE BooksHonest'
    <2>1. "internal" \in Errors BY DEF Errors
    <2> QED BY <1>3, <2>1, TakenResults, RaisedCalls
  <1>4. ASSUME NEW error \in Errors, NEW b \in {0, 1}, Breaks(error, b) \/ SubmitBreaks(error, b) \/ PollBreaks(error, b)
        PROVE  BooksHonest'
    BY <1>4, RaisedCalls, SubmitBreaksHonest
  <1>5. ASSUME NEW error \in Errors, NEW c, NEW b \in {0, 1}, JobFails(error, c, b) PROVE BooksHonest'
    BY <1>5, RaisedCalls
  <1>6. CASE UNCHANGED genVars
    <2>1. /\ UNCHANGED <<job, at, study, polling, tries, ledger, cost, made, briefs, studies, billed, quiet, taken>>
          /\ outcome' = outcome /\ sent' = sent
      BY <1>6 DEF genVars
    <2>2. Kept BY <2>1, BeatKeeps
    <2>3. CallsInOrder' BY <2>1, <2>2, CallStands
    <2> QED BY <2>1, <2>2, <2>3, NothingPaid DEF BooksHonest, GenTypeOK
  <1> QED BY <1>1, <1>2, <1>3, <1>4, <1>5, <1>6 DEF GenNext

\* Whatever kind works a subject, and whichever call fails, is retried or cut
\* off: the task's cost is what was billed or known to be incomplete, a part's
\* drafts cover what their calls cost, and a language is researched once
\* (cost_service.charge, kinds.write._total, memory_service.fresh).
THEOREM BooksAreHonest == GenSpec => []BooksHonest
  <1>1. GenInit => BooksHonest
    <2> SUFFICES ASSUME GenInit PROVE BooksHonest
      OBVIOUS
    <2>1. Len(Plan) \in Nat /\ Len(ResearchPlan) \in Nat BY PlanCalls, ResearchCalls DEF IsPlan
    <2>2. NoPart \in [1..NLanguages -> Nat] /\ \A p \in 1..NLanguages : NoPart[p] = 0 BY DEF NoPart
    <2>3. Retries \in Nat /\ LeaseTicks \in Nat /\ NScenes \in Nat BY GenerationAssumption
    <2>4. GenTypeOK
      <3>1. at \in 1..(Len(Plan) + 1) /\ study \in 0..Len(ResearchPlan) BY <2>1 DEF GenInit
      <3>2. tries \in 0..Retries /\ quiet \in 0..LeaseTicks /\ made \in 0..NScenes BY <2>3 DEF GenInit
      <3>3. /\ cost \in [1..NLanguages -> Nat \cup {Unknown}] /\ studies \in [1..NLanguages -> Nat]
            /\ billed \in [all : Nat, unseen : Nat, part : [1..NLanguages -> Nat]]
        <4>1. cost = NoPart /\ studies = NoPart /\ billed = [all |-> 0, unseen |-> 0, part |-> NoPart] BY DEF GenInit
        <4> HIDE DEF NoPart
        <4> QED BY <2>2, <4>1
      <3> QED BY <3>1, <3>2, <3>3 DEF GenInit, GenTypeOK
    <2>5. CallsInOrder BY DEF GenInit, CallsInOrder
    <2>6. LedgerHonest /\ DraftCostsHonest /\ ResearchedOnce
      BY <2>2 DEF GenInit, LedgerHonest, DraftCostsHonest, ResearchedOnce
    <2> QED BY <2>4, <2>5, <2>6 DEF BooksHonest
  <1> QED BY <1>1, BooksStep, PTL DEF GenSpec

\* Once a unit is someone else's, its old consumer pays for nothing but a
\* translation already on its way (lease_keepalive.beat).
THEOREM CallsArePaidOnLease == GenSpec => PaidOnLease
  <1> DEFINE Pays == sent' # sent /\ Use # "translation" => ~taken
  <1>1. BooksHonest /\ [GenNext]_genVars => [Pays]_genVars
    <2> SUFFICES ASSUME BooksHonest, GenNext, sent' # sent, Use # "translation" PROVE ~taken
      OBVIOUS
    <2>1. taken => Due BY DEF BooksHonest, CallsInOrder
    <2>2. Beat
      BY DEF GenNext, Begin, Tick, TakeOver, LoseLease, StartResearch, NoRewrite, Submit, PollAgain, Deliver, NeverLeaves,
             Answered, Unusable, JobDone, Breaks, SubmitBreaks, PollBreaks, JobFails
    <2> QED BY <2>1, <2>2 DEF Beat
  <1>2. GenSpec => [][Pays]_genVars BY <1>1, BooksAreHonest, PTL DEF GenSpec
  <1> QED BY <1>2 DEF PaidOnLease

-----------------------------------------------------------------------------
(* Prompts: what a request to a model says and what it leaves out. Text and   *)
(* its width first                                                           *)

\* What a text takes goes from line to line: h has what the first ones take.
TakesSum(h, text) ==
    /\ h \in [0..Len(text) -> Nat] /\ h[0] = 0 /\ h[Len(text)] = TextSum(text)
    /\ \A k \in 0..(Len(text) - 1) : h[k + 1] = h[k] + text[k + 1]
\* There is such a history of TextSum.
LEMMA TextSumSteps ==
  ASSUME NEW text \in Seq(Nat)
  PROVE  \E h : TakesSum(h, text)
<1> DEFINE n == Len(text)
           Sums(c) == c = [s \in SUBSET (1..n) |-> IF s = {} THEN 0 ELSE c[s \ {Max(s)}] + text[Max(s)]]
           step == [vi \in Nat \X (1..n) |-> vi[1] + text[vi[2]]]
<1>1. n \in Nat /\ DOMAIN text = 1..n /\ \A i \in 1..n : text[i] \in Nat  OBVIOUS
<1>2. TextSum(text) = (CHOOSE c : Sums(c))[1..n]  BY <1>1 DEF TextSum, FoldLeft, MapThenFoldSet
<1>3. step \in [Nat \X (1..n) -> Nat]  BY <1>1
<1>4. ASSUME NEW v \in Nat, NEW i \in 1..n PROVE step[<<v, i>>] = v + text[i]  OBVIOUS
<1> HIDE DEF step, n
<1>5. PICK g \in [SUBSET (1..n) -> Nat] : FoldsBy(g, 0, step, n)  BY <1>1, <1>3, FoldExists
<1>6. Sums(g)
  <2>1. ASSUME NEW s \in SUBSET (1..n), s # {} PROVE step[<<g[s \ {Max(s)}], Max(s)>>] = g[s \ {Max(s)}] + text[Max(s)]
    <3>1. Max(s) \in 1..n  BY <1>1, <2>1, MaxOfPlaces
    <3>2. g[s \ {Max(s)}] \in Nat  BY <1>5
    <3> QED  BY <1>4, <3>1, <3>2
  <2> QED  BY <1>5, <2>1 DEF FoldsBy
<1>7. PICK c : Sums(c) /\ TextSum(text) = c[1..n]  BY <1>2, <1>6
<1>8. ASSUME NEW s \in SUBSET (1..n), s # {}, c[s \ {Max(s)}] \in Nat
      PROVE  c[s] = step[<<c[s \ {Max(s)}], Max(s)>>]
  <2>1. Max(s) \in 1..n  BY <1>1, <1>8, MaxOfPlaces
  <2>2. c[s] = c[s \ {Max(s)}] + text[Max(s)]  BY <1>7, <1>8
  <2> QED  BY <1>4, <1>8, <2>1, <2>2
<1>9. Follows(c, 0, step, Nat, n)  BY <1>1, <1>3, <1>7, <1>8 DEF Follows
<1>10. PICK h \in [0..n -> Nat] :
          h[0] = 0 /\ h[n] = c[1..n] /\ \A k \in 0..(n - 1) : h[k + 1] = step[<<h[k], k + 1>>]
  <2>1. GoesAlong(c, 0, step, Nat, n)  BY ONLY <1>9, FoldsAlong, Zenon
  <2> QED  BY <2>1 DEF GoesAlong
<1>11. ASSUME NEW k \in 0..(n - 1) PROVE h[k + 1] = h[k] + text[k + 1]
  <2>1. k \in 0..n /\ k + 1 \in 1..n  BY <1>1
  <2>2. h[k] \in Nat  BY <2>1
  <2> QED  BY <1>4, <1>10, <2>1, <2>2
<1>12. TakesSum(h, text)  BY <1>7, <1>10, <1>11 DEF n, TakesSum
<1> QED  BY <1>12

\* The sum of one more line.
LEMMA TextSumAppend ==
  ASSUME NEW text \in Seq(Nat), NEW line \in Nat
  PROVE  TextSum(text) \in Nat /\ TextSum(Append(text, line)) = TextSum(text) + line
<1> DEFINE n == Len(text)
           longer == Append(text, line)
<1>1. n \in Nat /\ longer \in Seq(Nat) /\ Len(longer) = n + 1 /\ longer[n + 1] = line /\ \A k \in 1..n : longer[k] = text[k]
  OBVIOUS
<1>2. PICK h : TakesSum(h, text)  BY TextSumSteps
<1> HIDE DEF longer, n
<1>3. PICK g : TakesSum(g, longer)  BY <1>1, TextSumSteps
<1>4. /\ h \in [0..n -> Nat] /\ h[0] = 0 /\ h[n] = TextSum(text) /\ \A k \in 0..(n - 1) : h[k + 1] = h[k] + text[k + 1]
  BY <1>2 DEF TakesSum, n
<1>5. /\ g[0] = 0 /\ g[n + 1] = TextSum(longer) /\ \A k \in 0..n : g[k + 1] = g[k] + longer[k + 1]
  BY <1>1, <1>3 DEF TakesSum
<1> DEFINE G == {k \in Nat : k <= n => g[k] = h[k]}
<1>6. 0 \in G  BY <1>4, <1>5
<1>7. ASSUME NEW k \in G PROVE k + 1 \in G
  <2>1. SUFFICES ASSUME k + 1 <= n PROVE g[k + 1] = h[k + 1]  OBVIOUS
  <2>2. k \in 0..(n - 1) /\ k \in 0..n /\ k + 1 \in 1..n /\ g[k] = h[k]  BY <1>1, <2>1
  <2> QED  BY <1>1, <1>4, <1>5, <2>2
<1>8. \A k \in Nat : k \in G
  <2> HIDE DEF G
  <2> QED  BY <1>6, <1>7, Induction
<1>9. g[n] = h[n]  BY <1>1, <1>8
<1>10. n \in 0..n  BY <1>1
<1> QED  BY <1>1, <1>4, <1>5, <1>9, <1>10 DEF longer

\* A text has a width; that of one more line; nothing takes nothing.
LEMMA WidthIs ==
  ASSUME NEW text \in Seq(Nat)
  PROVE  /\ TextSum(text) \in Nat /\ Width(text) \in Nat
         /\ text # <<>> => Width(text) = TextSum(text) + Len(text) - 1
         /\ Width(<<>>) = 0 /\ TextSum(<<>>) = 0
<1>1. TextSum(text) \in Nat  BY TextSumAppend
<1>2. text # <<>> => Len(text) \in Nat \ {0}  OBVIOUS
<1>3. TextSum(<<>>) = 0
  <2>1. <<>> \in Seq(Nat) /\ Len(<<>>) = 0  OBVIOUS
  <2>2. PICK h : TakesSum(h, <<>>)  BY <2>1, TextSumSteps
  <2> QED  BY <2>1, <2>2 DEF TakesSum
<1> QED  BY <1>1, <1>2, <1>3 DEF Width

\* The first lines of a text.
LEMMA UptoIs ==
  ASSUME NEW S, NEW text \in Seq(S), NEW n \in 0..Len(text)
  PROVE  Upto(text, n) \in Seq(S) /\ Len(Upto(text, n)) = n /\ \A i \in 1..n : Upto(text, n)[i] = text[i]
  BY DEF Upto

\* They are a prefix of it, and so is nothing.
LEMMA UptoPrefix ==
  ASSUME NEW S, NEW text \in Seq(S), NEW n \in 0..Len(text)
  PROVE  IsPrefix(Upto(text, n), text) /\ IsPrefix(<<>>, text)
<1>1. Upto(text, n) \in Seq(S) /\ Len(Upto(text, n)) = n /\ \A i \in 1..n : Upto(text, n)[i] = text[i]  BY UptoIs
<1>2. n \in Nat /\ Len(text) \in Nat /\ n <= Len(text)  OBVIOUS
<1>3. IsPrefix(Upto(text, n), text)
  <2>1. Len(Upto(text, n)) <= Len(text) /\ \A i \in 1..Len(Upto(text, n)) : Upto(text, n)[i] = text[i]  BY <1>1, <1>2
  <2> QED  BY <1>1, <2>1, PrefixIs
<1>4. IsPrefix(<<>>, text)
  <2>1. <<>> \in Seq(S) /\ Len(<<>>) <= Len(text) /\ \A i \in 1..Len(<<>>) : <<>>[i] = text[i]  BY <1>2
  <2> QED  BY <2>1, PrefixIs
<1> QED  BY <1>3, <1>4

\* The largest of some numbers up to n.
LEMMA LastOfIs ==
  ASSUME NEW n \in Nat, NEW S \in SUBSET (0..n), S # {}
  PROVE  LastOf(S) \in S /\ \A k \in S : k <= LastOf(S)
<1>1. PICK m \in S : \A k \in S : k <= m  BY LargestNumber
<1> QED  BY <1>1 DEF LastOf

\* The constants' part of the assumption, and the texts there are.
LEMMA LineIs ==
  ASSUME NEW text \in Lines
  PROVE  text \in Seq(Nat)
<1>1. MaxList \in Nat /\ Lengths \subseteq Nat  BY PromptsAssumption
<1>2. PICK n \in 0..MaxList : text \in [1..n -> Lengths]  BY DEF Lines
<1>3. n \in Nat  BY <1>1
<1>4. \A i \in 1..n : text[i] \in Nat  BY <1>1, <1>2
<1>5. text = [i \in 1..n |-> text[i]]  BY <1>2
<1> QED  BY <1>3, <1>4, <1>5

-----------------------------------------------------------------------------
(* fit_prompt                                                                *)

\* A cut text is within its limit, as soon as there is room for one character;
\* without room an ellipsis is left.
LEMMA CutFits ==
  ASSUME NEW words \in Seq(Nat), NEW limit \in Int
  PROVE  /\ CutWidth(words, limit) \in Nat
         /\ limit > 0 => CutWidth(words, limit) <= limit
         /\ ~(limit > 0) => CutWidth(words, limit) <= 1
<1> DEFINE spaces == {Width(Upto(words, n)) : n \in 1..Len(words) - 1}
           room == Atleast0(limit - 1)
           within == {w \in spaces : w < room}
<1>1. Width(words) \in Nat /\ Len(words) \in Nat  BY WidthIs
<1>2. room \in Nat /\ (limit > 0 => room = limit - 1) /\ (~(limit > 0) => room = 0)  BY DEF Atleast0
<1>3. spaces \subseteq Nat
  <2>1. ASSUME NEW n \in 1..Len(words) - 1 PROVE Width(Upto(words, n)) \in Nat
    <3>1. n \in 0..Len(words)  BY <1>1
    <3>2. Upto(words, n) \in Seq(Nat)  BY <3>1, UptoIs
    <3> QED  BY <3>2, WidthIs
  <2> QED  BY <2>1
<1>4. CutWidth(words, limit) = IF Width(words) <= limit THEN Width(words) ELSE 1 + (IF within = {} THEN room ELSE LastOf(within))
  BY DEF CutWidth
<1> HIDE DEF spaces, room
<1>5. ASSUME within # {} PROVE LastOf(within) \in Nat /\ LastOf(within) <= room
  <2>1. \A w \in within : w \in Nat /\ w < room  BY <1>3
  <2>2. \A w \in within : w \in 0..room  BY <1>2, <2>1
  <2> HIDE DEF within
  <2>3. LastOf(within) \in within
    <3>1. within \in SUBSET (0..room)  BY <2>2
    <3> QED  BY <1>2, <1>5, <3>1, LastOfIs
  <2> QED  BY <1>2, <2>1, <2>3
<1> HIDE DEF within
<1> QED  BY <1>1, <1>2, <1>4, <1>5

\* Two parts are as long as each of them, or longer.
LEMMA OneApartIs ==
  ASSUME NEW one \in Nat, NEW two \in Nat
  PROVE  OneApart(one, two) \in Nat /\ one <= OneApart(one, two)
  BY DEF OneApart

\* What follows a scene begins with what must be shown.
LEMMA TailIs ==
  ASSUME NEW must \in Seq(Nat), NEW style \in Seq(Nat), NEW never \in Seq(Nat), NEW rule \in Nat
  PROVE  /\ MustShow(must) \in Nat /\ TailOf(must, style, never, rule) \in Nat /\ MustShow(must) <= TailOf(must, style, never, rule)
         /\ Width(must) <= MustMax => MustShow(must) = Labelled(Width(must))
<1>1. MustMax \in Int /\ NeverMax \in Int /\ StyleMax \in Int /\ LabelWidth \in Nat  BY PromptsAssumption
<1>2. \A n \in Nat : Labelled(n) \in Nat  BY <1>1 DEF Labelled
<1>3. CutWidth(must, MustMax) \in Nat /\ CutWidth(style, StyleMax) \in Nat /\ CutWidth(never, NeverMax) \in Nat  BY <1>1, CutFits
<1>4. MustShow(must) \in Nat  BY <1>2, <1>3 DEF MustShow
<1>5. Style(style, never) \in Nat  BY <1>2, <1>3, OneApartIs DEF Style
<1>6. OneApart(Style(style, never), rule) \in Nat  BY <1>5, OneApartIs
<1>7. Width(must) <= MustMax => CutWidth(must, MustMax) = Width(must)  BY DEF CutWidth
<1> QED  BY <1>4, <1>6, <1>7, OneApartIs DEF TailOf, MustShow

\* A cover's prompt keeps its tail whole when there is room, and what must be
\* shown even without.
LEMMA CoverFits == RenderScene => TailIsKept'
<1> SUFFICES ASSUME NEW lead \in Heads, NEW rule \in Heads, NEW scene \in Lines, NEW must \in Lines, NEW style \in Lines, NEW never \in Lines,
                    asked' = [of |-> "cover", lead |-> lead, scene |-> scene, must |-> must, style |-> style, never |-> never, rule |-> rule,
                              shown |-> FitPrompt(lead, scene, MustShow(must), TailOf(must, style, never, rule))]
             PROVE  TailIsKept'
  BY DEF RenderScene, Asks
<1> DEFINE tail == TailOf(must, style, never, rule)
           first == MustShow(must)
           whole == Labelled(Width(must))
           cut == CutWidth(scene, SceneRoom(lead, tail))
           long == lead + 1 + cut + (IF tail = 0 THEN 0 ELSE 1 + tail)
           left == Atleast0(tail - Atleast0(long - PromptMax))
           shown == FitPrompt(lead, scene, first, tail)
<1>0. lead \in Nat /\ rule \in Nat /\ PromptMax \in Nat  BY PromptsAssumption
<1>1. must \in Seq(Nat) /\ style \in Seq(Nat) /\ never \in Seq(Nat) /\ scene \in Seq(Nat)  BY LineIs
<1>2. tail \in Nat /\ first \in Nat /\ first <= tail /\ (Width(must) <= MustMax => first = whole)  BY <1>0, <1>1, TailIs
<1>3. /\ asked'.lead = lead /\ asked'.must = must /\ asked'.style = style /\ asked'.never = never /\ asked'.rule = rule
      /\ asked'.shown = shown
  OBVIOUS
<1> HIDE DEF tail, first, whole
<1>4. SceneRoom(lead, tail) = PromptMax - lead - tail - 2 /\ SceneRoom(lead, tail) \in Int  BY <1>0, <1>2 DEF SceneRoom
<1>5. cut \in Nat /\ (SceneRoom(lead, tail) > 0 => cut <= SceneRoom(lead, tail)) /\ (~(SceneRoom(lead, tail) > 0) => cut <= 1)
  BY <1>1, <1>4, CutFits
<1>6. shown.size = AtMostOf(long, PromptMax) /\ shown.tail = left /\ shown.must = AtMostOf(first, left)  BY DEF FitPrompt
<1> HIDE DEF cut, shown
<1>7. long \in Nat /\ left \in Nat  BY <1>0, <1>2, <1>5 DEF Atleast0
<1>8. shown.size <= PromptMax  BY <1>0, <1>6, <1>7 DEF AtMostOf
<1>9. lead + tail + 2 < PromptMax => left = tail
  <2> SUFFICES ASSUME lead + tail + 2 < PromptMax PROVE left = tail  OBVIOUS
  <2>1. cut <= PromptMax - lead - tail - 2  BY <1>0, <1>2, <1>4, <1>5
  <2>2. long - PromptMax <= 0  BY <1>0, <1>2, <1>5, <2>1
  <2> QED  BY <1>0, <1>2, <1>7, <2>2 DEF Atleast0
<1>10. lead + first + 3 <= PromptMax => AtMostOf(first, left) = first
  <2> SUFFICES ASSUME lead + first + 3 <= PromptMax PROVE first <= left  BY <1>2, <1>7 DEF AtMostOf
  <2>1. CASE lead + tail + 2 < PromptMax  BY <1>2, <1>9, <2>1
  <2>2. CASE ~(lead + tail + 2 < PromptMax)
    <3>1. cut <= 1  BY <1>0, <1>2, <1>4, <1>5, <2>2
    <3>2. long - PromptMax <= lead + 3 + tail - PromptMax  BY <1>0, <1>2, <1>5, <3>1
    <3> HIDE DEF long
    <3>3. Atleast0(long - PromptMax) <= tail - first  BY <1>0, <1>2, <1>7, <3>2 DEF Atleast0
    <3>4. Atleast0(long - PromptMax) \in Nat  BY <1>0, <1>7 DEF Atleast0
    <3> QED  BY <1>2, <3>3, <3>4 DEF Atleast0
  <2> QED  BY <2>1, <2>2
<1> HIDE DEF long, left
<1>11. Width(must) <= MustMax /\ lead + whole + 3 <= PromptMax => shown.must = whole  BY <1>2, <1>6, <1>10
<1>12. shown.tail = left  BY <1>6
<1> QED  BY <1>3, <1>8, <1>9, <1>11, <1>12 DEF TailIsKept, tail, whole

-----------------------------------------------------------------------------
(* capped                                                                    *)

\* Whole lines: a prefix within the limit, and no more fits.
LEMMA WholeLinesFit ==
  ASSUME NEW text \in Seq(Nat), NEW limit \in Int
  PROVE  \E n \in 0..Len(text) :
            /\ WholeLines(text, limit) = Upto(text, n) /\ (limit >= 0 => Width(Upto(text, n)) <= limit)
            /\ n < Len(text) => Width(Upto(text, n + 1)) > limit
<1> DEFINE m == Len(text)
           fitting == {n \in 1..m - 1 : Width(Upto(text, n)) <= limit}
           last == LastOf({0} \cup fitting)
<1>1. m \in Nat /\ Width(text) \in Nat /\ Upto(text, m) = text
  <2>1. Width(text) \in Nat  BY WidthIs
  <2> QED  BY <2>1 DEF Upto
<1>2. WholeLines(text, limit) = IF Width(text) <= limit THEN text ELSE Upto(text, last)  BY DEF WholeLines
<1>3. CASE Width(text) <= limit
  <2>1. m \in 0..m /\ WholeLines(text, limit) = Upto(text, m) /\ Width(Upto(text, m)) <= limit /\ ~(m < m)  BY <1>1, <1>2, <1>3
  <2> QED  BY <2>1
<1>4. CASE ~(Width(text) <= limit)
  <2>1. last \in {0} \cup fitting /\ \A k \in {0} \cup fitting : k <= last
    <3>1. {0} \cup fitting \in SUBSET (0..m) /\ {0} \cup fitting # {}  BY <1>1
    <3> HIDE DEF fitting, m
    <3> QED  BY <1>1, <3>1, LastOfIs
  <2>2. last \in 0..m  BY <1>1, <2>1
  <2>3. limit >= 0 => Width(Upto(text, last)) <= limit
    <3>1. Upto(text, 0) = <<>> /\ Width(<<>>) = 0
      <4>1. Width(<<>>) = 0  BY DEF Width
      <4> QED  BY <4>1 DEF Upto
    <3> HIDE DEF last, m
    <3> QED  BY <2>1, <3>1
  <2>4. ASSUME last < m PROVE Width(Upto(text, last + 1)) > limit
    <3>1. last + 1 \in 0..m  BY <1>1, <2>2, <2>4
    <3>2. Width(Upto(text, last + 1)) \in Nat
      <4>1. Upto(text, last + 1) \in Seq(Nat)  BY <3>1, UptoIs
      <4> QED  BY <4>1, WidthIs
    <3>3. CASE last + 1 = m  BY <1>1, <1>4, <3>3
    <3>4. CASE last + 1 # m
      <4>1. last + 1 \in 1..m - 1  BY <1>1, <2>2, <2>4, <3>4
      <4>2. last + 1 \notin fitting
        <5>1. last \in Nat /\ ~(last + 1 <= last)  BY <2>2
        <5> HIDE DEF last, fitting
        <5> QED  BY <2>1, <5>1
      <4>3. ~(Width(Upto(text, last + 1)) <= limit)  BY <4>1, <4>2
      <4> HIDE DEF last
      <4> QED  BY <3>2, <4>3
    <3> QED  BY <3>3, <3>4
  <2> HIDE DEF last
  <2> QED  BY <1>2, <1>4, <2>2, <2>3, <2>4
<1> QED  BY <1>3, <1>4

\* The lines of the routed sections in their order, the facts left out.
Pieces(names, data) == [i \in DOMAIN names |-> IF names[i] = "facts" THEN <<>> ELSE data[names[i]]]
\* Only facts stand before the brand, when it is routed.
BrandLeads(names) ==
    Contains(names, "brand") => \E j \in 1..Len(names) : names[j] = "brand" /\ \A i \in 1..(j - 1) : names[i] = "facts"

\* The sections named first are sections, the facts and the brand before the others.
LEMMA RoutedIs ==
  ASSUME NEW first \in Seq(Sections)
  PROVE  PriorityFirst(first) \in Seq(Sections) /\ BrandLeads(PriorityFirst(first))
<1> DEFINE a == When(Contains(first, "facts"), "facts")
           b == When(Contains(first, "brand"), "brand")
           c == Those(first, Sections \ {"facts", "brand"})
           names == PriorityFirst(first)
<1>1. a \in Seq(Sections) /\ b \in Seq(Sections) /\ (a = <<>> \/ a = <<"facts">>) /\ (b = <<>> \/ b = <<"brand">>)
  <2>1. "facts" \in Sections /\ "brand" \in Sections  BY DEF Sections
  <2>2. <<"facts">> \in Seq(Sections) /\ <<"brand">> \in Seq(Sections) /\ <<>> \in Seq(Sections)  BY <2>1
  <2>3. (a = <<>> \/ a = <<"facts">>) /\ (b = <<>> \/ b = <<"brand">>)  BY DEF When
  <2> HIDE DEF a, b
  <2> QED  BY <2>2, <2>3
<1>2. c \in Seq(Sections) /\ \A i \in DOMAIN c : c[i] # "brand"
  <2>1. c \in Seq(Sections) /\ \A i \in DOMAIN c : c[i] \in Sections \ {"facts", "brand"}  BY ThoseHas
  <2> HIDE DEF c
  <2> QED  BY <2>1
<1>3. names = (a \o b) \o c  BY DEF PriorityFirst
<1> HIDE DEF a, b, c, names
<1>4. a \o b \in Seq(Sections) /\ names \in Seq(Sections)  BY <1>1, <1>2, <1>3
<1>5. ASSUME Contains(names, "brand")
      PROVE  \E j \in 1..Len(names) : names[j] = "brand" /\ \A i \in 1..(j - 1) : names[i] = "facts"
  <2>1. PICK k \in 1..Len(names) : names[k] = "brand"  BY <1>5 DEF Contains
  <2>2. CASE b = <<>>
    <3>1. a \o b = a /\ names = a \o c  BY <1>1, <1>3, <2>2
    <3>2. CASE a = <<>>
      <4>1. names = c  BY <1>2, <3>1, <3>2
      <4> QED  BY <1>2, <2>1, <4>1
    <3>3. CASE a = <<"facts">>
      <4>1. /\ Len(names) = 1 + Len(c) /\ names[1] = "facts" /\ Len(c) \in Nat
            /\ \A i \in 1..Len(c) : names[i + 1] = c[i]
        BY <1>1, <1>2, <3>1, <3>3
      <4>2. k # 1 /\ k - 1 \in 1..Len(c) /\ (k - 1) + 1 = k  BY <2>1, <4>1
      <4>3. c[k - 1] = "brand"  BY <2>1, <4>1, <4>2
      <4> QED  BY <1>2, <4>2, <4>3
    <3> QED  BY <1>1, <3>2, <3>3
  <2>3. CASE b = <<"brand">>
    <3>1. CASE a = <<>>
      <4>1. names = <<"brand">> \o c /\ Len(names) = 1 + Len(c) /\ names[1] = "brand" /\ Len(c) \in Nat
        BY <1>1, <1>2, <1>3, <2>3, <3>1
      <4>2. 1 \in 1..Len(names) /\ \A i \in 1..(1 - 1) : names[i] = "facts"  BY <4>1
      <4> QED  BY <4>1, <4>2
    <3>2. CASE a = <<"facts">>
      <4>1. a \o b = <<"facts", "brand">>
        <5>1. a \o b \in Seq(Sections) /\ Len(a \o b) = 2 /\ (a \o b)[1] = "facts" /\ (a \o b)[2] = "brand"  BY <1>1, <2>3, <3>2
        <5>2. <<"facts", "brand">> \in Seq(Sections)  BY DEF Sections
        <5>3. \A i \in 1..2 : (a \o b)[i] = <<"facts", "brand">>[i]  BY <5>1
        <5> QED  BY <5>1, <5>2, <5>3, SeqEqual
      <4>2. Len(names) = 2 + Len(c) /\ names[1] = "facts" /\ names[2] = "brand" /\ Len(c) \in Nat  BY <1>2, <1>3, <4>1
      <4>3. 2 \in 1..Len(names) /\ \A i \in 1..(2 - 1) : names[i] = "facts"  BY <4>2
      <4> QED  BY <4>2, <4>3
    <3> QED  BY <1>1, <3>1, <3>2
  <2> QED  BY <1>1, <2>2, <2>3
<1> QED  BY <1>4, <1>5 DEF names, BrandLeads

\* The text of the routed sections begins with the brand's, when it is routed.
LEMMA BrandFirst ==
  ASSUME NEW names \in Seq(Sections), names # <<>>, BrandLeads(names), NEW data \in [Sections -> Seq(Nat)]
  PROVE  /\ FlattenSeq(Pieces(names, data)) \in Seq(Nat)
         /\ Contains(names, "brand") => IsPrefix(data["brand"], FlattenSeq(Pieces(names, data)))
<1> DEFINE n == Len(names)
           p == Pieces(names, data)
           brand == data["brand"]
<1>1. n \in Nat /\ n > 0 /\ DOMAIN names = 1..n /\ \A i \in 1..n : names[i] \in Sections  OBVIOUS
<1>2. /\ p \in Seq(Seq(Nat)) /\ Len(p) = n /\ brand \in Seq(Nat)
      /\ \A i \in 1..n : p[i] \in Seq(Nat) /\ p[i] = IF names[i] = "facts" THEN <<>> ELSE data[names[i]]
  <2>1. \A i \in 1..n : (IF names[i] = "facts" THEN <<>> ELSE data[names[i]]) \in Seq(Nat)
    <3>1. <<>> \in Seq(Nat)  OBVIOUS
    <3>2. \A i \in 1..n : data[names[i]] \in Seq(Nat)  BY <1>1
    <3> QED  BY <3>1, <3>2
  <2>2. p = [i \in 1..n |-> IF names[i] = "facts" THEN <<>> ELSE data[names[i]]]  BY <1>1 DEF Pieces
  <2>3. brand \in Seq(Nat)  BY DEF Sections
  <2> HIDE DEF n, p, brand
  <2> QED  BY <1>1, <2>1, <2>2, <2>3
<1> HIDE DEF n, p, brand
<1>3. PICK h : TakesFlat(h, p, Nat)  BY <1>1, <1>2, FlattenSteps
<1>4. /\ h \in [1..n -> Seq(Nat)] /\ h[1] = p[1] /\ h[n] = FlattenSeq(p)
      /\ \A k \in 1..(n - 1) : h[k + 1] = h[k] \o p[k + 1]
  BY <1>2, <1>3 DEF TakesFlat
<1>5. FlattenSeq(p) \in Seq(Nat)
  <2>1. n \in 1..n  BY <1>1
  <2> QED  BY <1>4, <2>1
<1>6. ASSUME Contains(names, "brand") PROVE IsPrefix(brand, h[n])
  <2>1. PICK j \in 1..n : names[j] = "brand" /\ \A i \in 1..(j - 1) : names[i] = "facts"  BY <1>6 DEF BrandLeads, n
  <2>2. p[j] = brand /\ \A i \in 1..(j - 1) : p[i] = <<>>
    <3>1. \A i \in 1..(j - 1) : i \in 1..n  BY <1>1
    <3> QED  BY <1>2, <2>1, <3>1 DEF brand
  <2> DEFINE Good(k) == (k < j => h[k] = <<>>) /\ (k >= j => IsPrefix(brand, h[k]))
             G == {k \in Nat : k < n => Good(k + 1)}
  <2>3. IsPrefix(brand, brand)  BY <1>2, PrefixIs
  <2>4. 0 \in G
    <3>1. CASE j = 1  BY <1>4, <2>2, <2>3, <3>1
    <3>2. CASE j # 1
      <4>1. 1 \in 1..(j - 1) /\ 1 < j  BY <1>1, <3>2
      <4> QED  BY <1>4, <2>2, <4>1
    <3> QED  BY <3>1, <3>2
  <2>5. ASSUME NEW i \in G PROVE i + 1 \in G
    <3> DEFINE k == i + 1
    <3>1. SUFFICES ASSUME k < n PROVE Good(k + 1)  OBVIOUS
    <3>2. k \in 1..(n - 1) /\ k \in 1..n /\ k + 1 \in 1..n /\ Good(k)  BY <1>1, <3>1
    <3> HIDE DEF k
    <3>3. h[k + 1] = h[k] \o p[k + 1] /\ h[k] \in Seq(Nat) /\ p[k + 1] \in Seq(Nat)  BY <1>2, <1>4, <3>2
    <3>4. CASE k + 1 < j
      <4>1. k < j /\ k + 1 \in 1..(j - 1)  BY <3>2, <3>4
      <4>2. h[k] = <<>> /\ p[k + 1] = <<>>  BY <2>2, <3>2, <4>1
      <4>3. h[k + 1] = <<>>  BY <3>3, <4>2
      <4> QED  BY <3>2, <3>4, <4>3
    <3>5. CASE k + 1 = j
      <4>1. h[k] = <<>> /\ p[k + 1] = brand  BY <2>2, <3>2, <3>5
      <4>2. h[k + 1] = brand  BY <1>2, <3>3, <4>1
      <4> QED  BY <2>3, <3>2, <3>5, <4>2
    <3>6. CASE k + 1 > j
      <4>1. IsPrefix(brand, h[k])  BY <3>2, <3>6
      <4>2. IsPrefix(brand, h[k] \o p[k + 1])  BY <1>2, <3>3, <4>1, PrefixJoined
      <4> QED  BY <3>2, <3>3, <3>6, <4>2
    <3> QED  BY <3>2, <3>4, <3>5, <3>6
  <2>6. \A k \in Nat : k \in G
    <3> HIDE DEF G
    <3> QED  BY <2>4, <2>5, Induction
  <2>7. n - 1 \in G /\ n - 1 < n /\ (n - 1) + 1 = n
    <3> HIDE DEF G
    <3>1. n - 1 \in Nat /\ n - 1 < n /\ (n - 1) + 1 = n
      <4>1. n \in Nat /\ n > 0  BY <1>1
      <4> QED  BY ONLY <4>1
    <3>2. n - 1 \in G  BY <2>6, <3>1
    <3> QED  BY <3>1, <3>2
  <2>8. Good(n)
    <3> HIDE DEF Good
    <3> QED  BY <2>7
  <2> QED  BY <1>1, <2>8
<1> QED  BY <1>4, <1>5, <1>6 DEF p, brand

\* The profile's part of a prompt fits.
LEMMA ProfileHolds == ContextFor => ProfileFits'
<1> SUFFICES ASSUME NEW names \in Routings, NEW head \in Heads, NEW data \in [Sections -> Lines],
                    asked' = [of |-> "profile", head |-> head, data |-> data, names |-> names, shown |-> Render(head, names, data)]
             PROVE  ProfileFits'
  BY DEF ContextFor, Asks
<1> DEFINE text == FlattenSeq(Pieces(names, data))
           facts == IF Contains(names, "facts") THEN data["facts"] ELSE <<>>
           brand == IF Contains(names, "brand") THEN data["brand"] ELSE <<>>
           shown == Render(head, names, data)
           total == JoinWidth(head, Width(text)) + Width(facts)
           rows == WholeLines(facts, Room(head))
           lines == WholeLines(text, TextRoom(head, rows))
<1>1. head \in Nat /\ Cap \in Nat /\ NoteReserve \in Nat /\ NoteLength \in Nat /\ NoteReserve >= 4 + NoteLength
  BY PromptsAssumption DEF Gap
<1>2. names \in Seq(Sections) /\ names # <<>> /\ BrandLeads(names)
  <2>1. PICK byType \in Routes, sections \in Routes, byKind \in Routes :
           names = PriorityFirst(FirstGiven(byType, sections, byKind)) /\ names # <<>>
    BY DEF Routings, RoutedSections
  <2>2. FirstGiven(byType, sections, byKind) \in Seq(Sections)  BY PromptsAssumption DEF FirstGiven
  <2> QED  BY <2>1, <2>2, RoutedIs
<1>3. \A s \in Sections : data[s] \in Seq(Nat)
  <2>1. \A s \in Sections : data[s] \in Lines  OBVIOUS
  <2> QED  BY <2>1, LineIs
<1>4. data \in [Sections -> Seq(Nat)]
  <2>1. data = [s \in Sections |-> data[s]]  OBVIOUS
  <2> QED  BY <1>3, <2>1
<1>5. text \in Seq(Nat) /\ facts \in Seq(Nat) /\ brand \in Seq(Nat) /\ IsPrefix(brand, text)
  <2>1. <<>> \in Seq(Nat) /\ "facts" \in Sections /\ "brand" \in Sections  BY DEF Sections
  <2>2. facts \in Seq(Nat) /\ brand \in Seq(Nat)  BY <1>3, <2>1
  <2>3. text \in Seq(Nat) /\ (Contains(names, "brand") => IsPrefix(data["brand"], text))  BY <1>2, <1>4, BrandFirst
  <2>4. ~Contains(names, "brand") => IsPrefix(<<>>, text)
    <3>1. 0 \in 0..Len(text)  BY <2>3
    <3> HIDE DEF text
    <3> QED  BY <2>3, <3>1, UptoPrefix
  <2> QED  BY <2>2, <2>3, <2>4
<1>6. shown = IF total <= Cap THEN [text |-> text, facts |-> facts, size |-> total]
              ELSE [text |-> lines, facts |-> rows, size |-> JoinWidth(JoinWidth(head, Width(lines)), NoteLength) + Width(rows)]
  BY DEF Render, Capped, Pieces
<1> HIDE DEF text, facts, brand, shown, total
<1>7. Room(head) \in Int /\ Room(head) = Cap - head - NoteReserve  BY <1>1 DEF Room
<1>8. PICK r \in 0..Len(facts) :
         /\ rows = Upto(facts, r) /\ (Room(head) >= 0 => Width(Upto(facts, r)) <= Room(head))
         /\ r < Len(facts) => Width(Upto(facts, r + 1)) > Room(head)
  BY <1>5, <1>7, WholeLinesFit
<1> HIDE DEF rows
<1>9. rows \in Seq(Nat) /\ Len(rows) = r /\ (\A i \in 1..r : rows[i] = facts[i]) /\ Width(rows) \in Nat
  <2>1. rows \in Seq(Nat) /\ Len(rows) = r /\ \A i \in 1..r : rows[i] = facts[i]  BY <1>5, <1>8, UptoIs
  <2> QED  BY <2>1, WidthIs
<1>10. TextRoom(head, rows) \in Int /\ TextRoom(head, rows) = Room(head) - Width(rows)  BY <1>7, <1>9 DEF TextRoom
<1>11. PICK l \in 0..Len(text) :
          lines = Upto(text, l) /\ (TextRoom(head, rows) >= 0 => Width(Upto(text, l)) <= TextRoom(head, rows))
  BY <1>5, <1>10, WholeLinesFit
<1> HIDE DEF lines
<1>12. lines \in Seq(Nat) /\ Len(lines) = l /\ (\A i \in 1..l : lines[i] = text[i]) /\ Width(lines) \in Nat
  <2>1. lines \in Seq(Nat) /\ Len(lines) = l /\ \A i \in 1..l : lines[i] = text[i]  BY <1>5, <1>11, UptoIs
  <2> QED  BY <2>1, WidthIs
<1>13. IsPrefix(rows, facts) /\ IsPrefix(lines, text) /\ IsPrefix(facts, facts)
  <2>1. IsPrefix(rows, facts)  BY <1>5, <1>8, UptoPrefix
  <2>2. IsPrefix(lines, text)  BY <1>5, <1>11, UptoPrefix
  <2>3. IsPrefix(facts, facts)  BY <1>5, PrefixIs
  <2> QED  BY <2>1, <2>2, <2>3
<1>14. head + NoteReserve <= Cap => shown.size <= Cap
  <2> SUFFICES ASSUME head + NoteReserve <= Cap PROVE shown.size <= Cap  OBVIOUS
  <2>1. CASE total <= Cap  BY <1>6, <2>1
  <2>2. CASE ~(total <= Cap)
    <3> DEFINE w == Width(lines)
               v == Width(rows)
    <3>1. w \in Nat /\ v \in Nat /\ v <= Cap - head - NoteReserve  BY <1>1, <1>7, <1>8, <1>9, <1>12
    <3>2. w <= Cap - head - NoteReserve - v  BY <1>1, <1>7, <1>10, <1>11, <3>1
    <3>3. shown.size = JoinWidth(JoinWidth(head, w), NoteLength) + v  BY <1>6, <2>2
    <3> HIDE DEF w, v
    <3>4. JoinWidth(head, w) \in Nat /\ JoinWidth(head, w) <= head + 2 + w  BY <1>1, <3>1 DEF JoinWidth, Gap
    <3>5. JoinWidth(JoinWidth(head, w), NoteLength) \in Nat /\ JoinWidth(JoinWidth(head, w), NoteLength) <= (head + 2 + w) + 2 + NoteLength
      BY <1>1, <3>1, <3>4 DEF JoinWidth, Gap
    <3> QED  BY <1>1, <3>1, <3>2, <3>3, <3>5
  <2> QED  BY <2>1, <2>2
<1>15. IsPrefix(shown.facts, facts)  BY <1>6, <1>13
<1>16. shown.facts # facts => Width(Upto(facts, Len(shown.facts) + 1)) > Room(head)
  <2> SUFFICES ASSUME shown.facts # facts PROVE Width(Upto(facts, Len(shown.facts) + 1)) > Room(head)  OBVIOUS
  <2>1. shown.facts = rows  BY <1>6
  <2>2. r # Len(facts)
    <3>1. ASSUME r = Len(facts) PROVE rows = facts
      <4>1. Len(rows) = Len(facts) /\ \A i \in 1..Len(rows) : rows[i] = facts[i]  BY <1>9, <3>1
      <4> QED  BY <1>5, <1>9, <4>1, SeqEqual
    <3> QED  BY <2>1, <3>1
  <2>3. r < Len(facts)  BY <1>5, <2>2
  <2> QED  BY <1>8, <1>9, <2>1, <2>3
<1>17. IsPrefix(shown.text, brand) \/ IsPrefix(brand, shown.text)
  <2>1. CASE total <= Cap  BY <1>5, <1>6, <2>1
  <2>2. CASE ~(total <= Cap)
    <3>1. shown.text = lines  BY <1>6, <2>2
    <3> QED  BY <1>5, <1>12, <1>13, <3>1, PrefixesCompare
  <2> QED  BY <2>1, <2>2
<1>18. /\ asked'.names = names /\ asked'.data = data /\ asked'.head = head /\ asked'.shown = shown
  BY DEF shown
<1> QED  BY <1>14, <1>15, <1>16, <1>17, <1>18 DEF ProfileFits, facts, brand

-----------------------------------------------------------------------------
(* _budgeted                                                                 *)

\* One more line of the memory, and what the lines give one after the other.
KeptSoFar == [open : BOOLEAN, kept : Seq(Nat)]
Remember(acc, line, budget) ==
    IF ~acc.open THEN acc
    ELSE IF line <= Left(budget, acc.kept) THEN [acc EXCEPT !.kept = Append(@, line)]
    ELSE [open |-> FALSE, kept |-> IF acc.kept = <<>> THEN <<budget>> ELSE acc.kept]
TakesWithin(h, text, budget) ==
    /\ h \in [0..Len(text) -> KeptSoFar] /\ h[0] = [open |-> TRUE, kept |-> <<>>] /\ h[Len(text)].kept = Budgeted(text, budget)
    /\ \A k \in 0..(Len(text) - 1) : h[k + 1] = Remember(h[k], text[k + 1], budget)
\* There is such a history of Budgeted.
LEMMA BudgetedSteps ==
  ASSUME NEW text \in Seq(Nat), NEW budget \in Nat
  PROVE  \E h : TakesWithin(h, text, budget)
<1> DEFINE n == Len(text)
           base == [open |-> TRUE, kept |-> <<>>]
           Folds(c) == c = [s \in SUBSET (1..n) |-> IF s = {} THEN base ELSE Remember(c[s \ {Max(s)}], text[Max(s)], budget)]
           step == [vi \in KeptSoFar \X (1..n) |-> Remember(vi[1], text[vi[2]], budget)]
<1>1. n \in Nat /\ DOMAIN text = 1..n /\ \A i \in 1..n : text[i] \in Nat  OBVIOUS
<1>2. Budgeted(text, budget) = ((CHOOSE c : Folds(c))[1..n]).kept
  BY <1>1 DEF Budgeted, Remember, FoldLeft, MapThenFoldSet
<1>3. ASSUME NEW acc \in KeptSoFar, NEW line \in Nat PROVE Remember(acc, line, budget) \in KeptSoFar
  <2>1. Append(acc.kept, line) \in Seq(Nat) /\ <<budget>> \in Seq(Nat)  BY DEF KeptSoFar
  <2> QED  BY <2>1 DEF Remember, KeptSoFar
<1>4. base \in KeptSoFar  BY DEF KeptSoFar
<1>5. step \in [KeptSoFar \X (1..n) -> KeptSoFar]  BY <1>1, <1>3
<1>6. ASSUME NEW v \in KeptSoFar, NEW i \in 1..n PROVE step[<<v, i>>] = Remember(v, text[i], budget)  OBVIOUS
<1> HIDE DEF step, n, base
<1>7. PICK g \in [SUBSET (1..n) -> KeptSoFar] : FoldsBy(g, base, step, n)  BY <1>1, <1>4, <1>5, FoldExists
<1>8. Folds(g)
  <2>1. ASSUME NEW s \in SUBSET (1..n), s # {}
        PROVE  step[<<g[s \ {Max(s)}], Max(s)>>] = Remember(g[s \ {Max(s)}], text[Max(s)], budget)
    <3>1. Max(s) \in 1..n  BY <1>1, <2>1, MaxOfPlaces
    <3>2. g[s \ {Max(s)}] \in KeptSoFar  BY <1>7
    <3> QED  BY <1>6, <3>1, <3>2
  <2> QED  BY <1>7, <2>1 DEF FoldsBy
<1>9. PICK c : Folds(c) /\ Budgeted(text, budget) = c[1..n].kept  BY <1>2, <1>8
<1>10. ASSUME NEW s \in SUBSET (1..n), s # {}, c[s \ {Max(s)}] \in KeptSoFar
       PROVE  c[s] = step[<<c[s \ {Max(s)}], Max(s)>>]
  <2>1. Max(s) \in 1..n  BY <1>1, <1>10, MaxOfPlaces
  <2>2. c[s] = Remember(c[s \ {Max(s)}], text[Max(s)], budget)  BY <1>9, <1>10
  <2> QED  BY <1>6, <1>10, <2>1, <2>2
<1>11. Follows(c, base, step, KeptSoFar, n)  BY <1>1, <1>4, <1>5, <1>9, <1>10 DEF Follows
<1>12. PICK h \in [0..n -> KeptSoFar] :
          h[0] = base /\ h[n] = c[1..n] /\ \A k \in 0..(n - 1) : h[k + 1] = step[<<h[k], k + 1>>]
  <2>1. GoesAlong(c, base, step, KeptSoFar, n)  BY ONLY <1>11, FoldsAlong, Zenon
  <2> QED  BY <2>1 DEF GoesAlong
<1>13. ASSUME NEW k \in 0..(n - 1) PROVE h[k + 1] = Remember(h[k], text[k + 1], budget)
  <2>1. k \in 0..n /\ k + 1 \in 1..n  BY <1>1
  <2>2. h[k] \in KeptSoFar  BY <2>1
  <2> QED  BY <1>6, <1>12, <2>1, <2>2
<1>14. TakesWithin(h, text, budget)  BY <1>9, <1>12, <1>13 DEF n, base, TakesWithin
<1> QED  BY <1>14

\* One more line keeps within the budget, and to the first lines.
WithinBudget(acc, text, k, budget) ==
    /\ acc \in KeptSoFar /\ Width(acc.kept) <= budget
    /\ acc.kept = <<budget>> \/ \E j \in 0..Len(text) : acc.kept = Upto(text, j)
    /\ acc.open => acc.kept = Upto(text, k)
\* A text with one more line is not empty.
LEMMA OneLonger ==
  ASSUME NEW s \in Seq(Nat), NEW x \in Nat
  PROVE  Append(s, x) \in Seq(Nat) /\ Append(s, x) # <<>> /\ Len(Append(s, x)) = Len(s) + 1
<1>1. s \in Seq(Nat) /\ x \in Nat  OBVIOUS
<1>2. Append(s, x) \in Seq(Nat)  BY ONLY <1>1, AppendProperties
<1>3. Append(s, x) # <<>>  BY ONLY <1>1, AppendProperties
<1>4. Len(Append(s, x)) = Len(s) + 1  BY ONLY <1>1, AppendProperties
<1> QED  BY <1>2, <1>3, <1>4

\* A text of one line is the empty text with one more.
LEMMA OneLine ==
  ASSUME NEW x \in Nat
  PROVE  <<>> \in Seq(Nat) /\ <<x>> = Append(<<>>, x) /\ <<x>> \in Seq(Nat) /\ <<x>> # <<>> /\ Len(<<x>>) = 1
<1>1. x \in Nat /\ <<>> \in Seq(Nat) /\ <<x>> \in Seq(Nat) /\ Len(<<x>>) = 1  BY ONLY x \in Nat
<1>2. <<x>> = Append(<<>>, x)  BY ONLY <1>1
<1>3. <<x>> # <<>>  BY ONLY <1>1
<1> QED  BY <1>1, <1>2, <1>3

\* A line no longer than what is left after n lines of t characters fits.
LEMMA LineFits ==
  ASSUME NEW t \in Nat, NEW n \in Nat, NEW line \in Nat, NEW budget \in Nat, NEW w,
         w = (t + line) + (n + 1) - 1, line <= budget - t - n
  PROVE  w <= budget
BY ONLY t \in Nat, n \in Nat, line \in Nat, budget \in Nat, w = (t + line) + (n + 1) - 1, line <= budget - t - n

\* One more line keeps what is remembered within the budget.
LEMMA RememberKeeps ==
  ASSUME NEW text \in Seq(Nat), NEW budget \in Nat, NEW k \in 0..(Len(text) - 1), NEW acc,
         WithinBudget(acc, text, k, budget)
  PROVE  WithinBudget(Remember(acc, text[k + 1], budget), text, k + 1, budget)
<1> DEFINE line == text[k + 1]
           more == Remember(acc, line, budget)
<1>1. Len(text) \in Nat /\ k \in Nat /\ k + 1 \in 1..Len(text) /\ line \in Nat /\ k \in 0..Len(text) /\ k + 1 \in 0..Len(text)
  OBVIOUS
<1>2. /\ acc \in KeptSoFar /\ acc.kept \in Seq(Nat) /\ acc.open \in BOOLEAN /\ Width(acc.kept) <= budget
      /\ acc.kept = <<budget>> \/ \E j \in 0..Len(text) : acc.kept = Upto(text, j)
      /\ acc.open => acc.kept = Upto(text, k)
  BY DEF WithinBudget, KeptSoFar
<1> HIDE DEF line
<1>3. CASE ~acc.open
  <2>1. more = acc  BY <1>3 DEF Remember
  <2> QED  BY <1>2, <1>3, <2>1 DEF WithinBudget, line
<1>4. CASE acc.open /\ line <= Left(budget, acc.kept)
  <2> DEFINE longer == Append(acc.kept, line)
  <2>1. more = [acc EXCEPT !.kept = longer] /\ more \in KeptSoFar /\ more.kept = longer
    <3>1. longer \in Seq(Nat)  BY <1>1, <1>2
    <3>2. more = [acc EXCEPT !.kept = longer]  BY <1>4 DEF Remember
    <3> QED  BY <1>2, <3>1, <3>2 DEF KeptSoFar
  <2>2. longer \in Seq(Nat) /\ longer # <<>> /\ Len(longer) = Len(acc.kept) + 1 /\ Len(acc.kept) \in Nat
    <3>1. acc.kept \in Seq(Nat) /\ line \in Nat  BY <1>1, <1>2
    <3>2. Len(acc.kept) \in Nat  BY <3>1, LenProperties
    <3>3. longer \in Seq(Nat) /\ longer # <<>> /\ Len(longer) = Len(acc.kept) + 1  BY <3>1, OneLonger
    <3> QED  BY <3>2, <3>3
  <2>3. TextSum(acc.kept) \in Nat /\ TextSum(longer) = TextSum(acc.kept) + line  BY <1>1, <1>2, TextSumAppend
  <2>4. Width(longer) = TextSum(longer) + Len(longer) - 1  BY <2>2, WidthIs
  <2>5. line <= budget - TextSum(acc.kept) - Len(acc.kept)  BY <1>4 DEF Left
  <2>6. longer = Upto(text, k + 1)
    <3>1. Upto(text, k) \in Seq(Nat) /\ Len(Upto(text, k)) = k /\ \A i \in 1..k : Upto(text, k)[i] = text[i]
      BY <1>1, UptoIs
    <3>2. Upto(text, k + 1) \in Seq(Nat) /\ Len(Upto(text, k + 1)) = k + 1 /\ \A i \in 1..(k + 1) : Upto(text, k + 1)[i] = text[i]
      BY <1>1, UptoIs
    <3>3. acc.kept = Upto(text, k)  BY <1>2, <1>4
    <3>4. Len(longer) = k + 1 /\ longer[k + 1] = line /\ \A i \in 1..k : longer[i] = text[i]
      BY <1>1, <1>2, <3>1, <3>3
    <3>5. \A i \in 1..(k + 1) : longer[i] = text[i]  BY <1>1, <3>4 DEF line
    <3> HIDE DEF longer
    <3> QED  BY <1>1, <2>2, <3>2, <3>4, <3>5, SeqEqual
  <2> HIDE DEF longer, more
  <2>7. Width(longer) <= budget
    <3>1. line \in Nat /\ budget \in Nat  BY <1>1
    <3>2. Width(longer) = (TextSum(acc.kept) + line) + (Len(acc.kept) + 1) - 1  BY <2>2, <2>3, <2>4
    <3>3. Len(acc.kept) \in Nat /\ TextSum(acc.kept) \in Nat  BY <2>2, <2>3
    <3> QED  BY <2>5, <3>1, <3>2, <3>3, LineFits
  <2> QED  BY <1>1, <2>1, <2>6, <2>7 DEF WithinBudget, line, more
<1>5. CASE acc.open /\ ~(line <= Left(budget, acc.kept))
  <2>1. more = [open |-> FALSE, kept |-> IF acc.kept = <<>> THEN <<budget>> ELSE acc.kept]  BY <1>5 DEF Remember
  <2>2. <<budget>> \in Seq(Nat) /\ Width(<<budget>>) = budget
    <3>1. <<>> \in Seq(Nat) /\ <<budget>> = Append(<<>>, budget) /\ <<budget>> \in Seq(Nat) /\ <<budget>> # <<>> /\ Len(<<budget>>) = 1
      BY OneLine
    <3>2. TextSum(<<>>) = 0 /\ TextSum(<<budget>>) = TextSum(<<>>) + budget
      BY <3>1, TextSumAppend, WidthIs
    <3>3. Width(<<budget>>) = TextSum(<<budget>>) + Len(<<budget>>) - 1  BY <3>1, WidthIs
    <3> QED  BY <3>1, <3>2, <3>3
  <2>3. more \in KeptSoFar /\ more.open = FALSE /\ (more.kept = <<budget>> \/ more.kept = acc.kept)
    BY <1>2, <2>1, <2>2 DEF KeptSoFar
  <2> HIDE DEF more
  <2>4. Width(more.kept) <= budget /\ (more.kept = <<budget>> \/ \E j \in 0..Len(text) : more.kept = Upto(text, j))
    <3>1. budget <= budget  OBVIOUS
    <3>2. CASE more.kept = <<budget>>  BY <2>2, <3>1, <3>2
    <3>3. CASE more.kept = acc.kept  BY <1>2, <3>3
    <3> QED  BY <2>3, <3>2, <3>3
  <2> QED  BY <2>3, <2>4 DEF WithinBudget, line, more
<1> QED  BY <1>2, <1>3, <1>4, <1>5 DEF line

\* What is remembered fits: the first lines, or a first one that is cut.
LEMMA BudgetedFits ==
  ASSUME NEW text \in Seq(Nat), NEW budget \in Nat
  PROVE  /\ Budgeted(text, budget) \in Seq(Nat) /\ Width(Budgeted(text, budget)) <= budget
         /\ Budgeted(text, budget) = <<budget>> \/ IsPrefix(Budgeted(text, budget), text)
<1> DEFINE n == Len(text)
<1>1. n \in Nat  OBVIOUS
<1>2. PICK h : TakesWithin(h, text, budget)  BY BudgetedSteps
<1>3. /\ h[0] = [open |-> TRUE, kept |-> <<>>] /\ h[n].kept = Budgeted(text, budget)
      /\ \A k \in 0..(n - 1) : h[k + 1] = Remember(h[k], text[k + 1], budget)
  BY <1>2 DEF TakesWithin
<1> DEFINE G == {k \in Nat : k <= n => WithinBudget(h[k], text, k, budget)}
<1>4. 0 \in G
  <2>1. <<>> \in Seq(Nat) /\ Width(<<>>) = 0 /\ Upto(text, 0) = <<>> /\ 0 \in 0..n  BY <1>1 DEF Width, Upto
  <2>2. h[0] \in KeptSoFar /\ h[0].kept = <<>>  BY <1>3, <2>1 DEF KeptSoFar
  <2> HIDE DEF n
  <2> QED  BY <2>1, <2>2 DEF WithinBudget, n
<1>5. ASSUME NEW k \in G PROVE k + 1 \in G
  <2>1. SUFFICES ASSUME k + 1 <= n PROVE WithinBudget(h[k + 1], text, k + 1, budget)  OBVIOUS
  <2>2. k \in 0..(n - 1) /\ WithinBudget(h[k], text, k, budget)  BY <1>1, <2>1
  <2> QED  BY <1>3, <2>2, RememberKeeps
<1>6. \A k \in Nat : k \in G
  <2> HIDE DEF G
  <2> QED  BY <1>4, <1>5, Induction
<1>7. WithinBudget(h[n], text, n, budget)  BY <1>1, <1>6
<1>8. /\ Budgeted(text, budget) \in Seq(Nat) /\ Width(Budgeted(text, budget)) <= budget
      /\ Budgeted(text, budget) = <<budget>> \/ \E j \in 0..Len(text) : Budgeted(text, budget) = Upto(text, j)
  BY <1>3, <1>7 DEF WithinBudget, KeptSoFar
<1> QED  BY <1>8, UptoPrefix

\* Lines remembered are a text.
LEMMA MemoryIs ==
  ASSUME NEW text \in Memories
  PROVE  text \in Seq(Nat)
<1>1. RecallLimit + 1 \in Nat /\ Lengths \subseteq Nat
  <2>1. RecallLimit \in Nat /\ Lengths \subseteq Nat  BY PromptsAssumption
  <2> QED  BY <2>1
<1>2. PICK n \in 0..(RecallLimit + 1) : text \in [1..n -> Lengths]  BY DEF Memories
<1>3. n \in Nat  BY <1>1
<1>4. \A i \in 1..n : text[i] \in Nat  BY <1>1, <1>2
<1>5. text = [i \in 1..n |-> text[i]]  BY <1>2
<1> QED  BY <1>3, <1>4, <1>5

\* What is recalled fits.
LEMMA RecallHolds == Recall => RecallFits'
<1> SUFFICES ASSUME NEW subject \in Memories, NEW category \in Memories, NEW budget \in Budgets,
                    asked' = [of |-> "recall", subject |-> subject, category |-> category, budget |-> budget,
                              shown |-> Budgeted(Remembered(subject, category), budget)]
             PROVE  RecallFits'
  BY DEF Recall, Asks
<1> DEFINE one == AtMost(RecallLimit, subject)
           two == AtMost(RecallLimit, category)
           text == Remembered(subject, category)
           shown == Budgeted(text, budget)
<1>1. budget \in Nat /\ one \in Seq(Nat) /\ two \in Seq(Nat)
  <2>1. subject \in Seq(Nat) /\ category \in Seq(Nat)  BY MemoryIs
  <2>2. budget \in Nat /\ RecallLimit \in Nat  BY PromptsAssumption
  <2> QED  BY <2>1, <2>2, AtMostIs
<1>2. text = one \o two  BY DEF Remembered
<1>3. asked'.shown = shown /\ asked'.subject = subject /\ asked'.budget = budget  OBVIOUS
<1>4. one = AtMost(RecallLimit, asked'.subject)  BY <1>3
<1> HIDE DEF one, two, text, shown
<1>5. IsPrefix(one, one)  BY <1>1, PrefixIs
<1>6. IsPrefix(one, text) /\ text \in Seq(Nat)  BY <1>1, <1>2, <1>5, PrefixJoined
<1>7. shown \in Seq(Nat) /\ Width(shown) <= budget /\ (shown = <<budget>> \/ IsPrefix(shown, text))
  BY <1>1, <1>6, BudgetedFits DEF shown
<1>8. IsPrefix(shown, one) \/ IsPrefix(one, shown) \/ shown = <<budget>>
  BY <1>1, <1>6, <1>7, PrefixesCompare
<1> QED  BY <1>3, <1>4, <1>7, <1>8 DEF RecallFits

-----------------------------------------------------------------------------
(* fresh                                                                     *)

Entry == [language : {"", "en"}, active : BOOLEAN]
Fits(e, language) == e.active /\ e.language = language
IsNewest(list, language, i) ==
    i \in DOMAIN list /\ Fits(list[i], language) /\ \A j \in DOMAIN list : j < i => ~Fits(list[j], language)
IsMissing(list, language) ==
    (\A i \in DOMAIN list : ~Fits(list[i], language)) \/ Cardinality({i \in DOMAIN list : list[i].active}) > RecallLimit

\* The positions of the newest active entries: in order, and all of them unless
\* there are too many.
LEMMA NewestAre ==
  ASSUME NEW list \in Seq(Entry)
  PROVE  LET newest == Newest(list)
             active == {i \in DOMAIN list : list[i].active}
         IN /\ newest \in Seq(Nat)
            /\ \A k \in 1..Len(newest) : newest[k] \in active
            /\ \A k \in 1..Len(newest), i \in active : i < newest[k] => \E h \in 1..Len(newest) : h < k /\ newest[h] = i
            /\ Cardinality(active) > RecallLimit \/ \A i \in active : \E k \in 1..Len(newest) : newest[k] = i
<1> DEFINE active == {i \in DOMAIN list : list[i].active}
           places == [i \in DOMAIN list |-> i]
           kept == Those(places, active)
           newest == Newest(list)
           n == Len(list)
<1>1. n \in Nat /\ DOMAIN list = 1..n /\ RecallLimit \in Nat  BY PromptsAssumption
<1>2. places \in Seq(Nat) /\ Len(places) = n /\ \A i \in 1..n : places[i] = i  BY <1>1
<1>3. active \subseteq 1..n  BY <1>1
<1>4. newest = AtMost(RecallLimit, kept)  BY DEF Newest
<1> HIDE DEF places, newest, active
<1>5. PICK f : kept \in Seq(Nat) /\ Selects(kept, f, places, active, n)  BY <1>2, ThoseIs
<1>6. Len(kept) = Cardinality({i \in 1..n : places[i] \in active})  BY <1>2, ThoseCount
<1>7. Len(kept) = Cardinality(active)
  <2>1. {i \in 1..n : places[i] \in active} = active  BY <1>2, <1>3
  <2> QED  BY <1>6, <2>1
<1> HIDE DEF kept
<1> DEFINE m == Len(kept)
<1>8. /\ m \in Nat /\ \A j \in 1..m : kept[j] = f[j] /\ f[j] \in active
      /\ \A i, j \in 1..m : i < j => f[i] < f[j]
      /\ \A i \in active : \E j \in 1..m : f[j] = i
  <2>1. /\ f \in [1..m -> 1..n] /\ \A j \in 1..m : kept[j] = places[f[j]] /\ places[f[j]] \in active
        /\ \A i, j \in 1..m : i < j => f[i] < f[j]
        /\ \A i \in 1..n : places[i] \in active => \E j \in 1..m : f[j] = i
    BY <1>5 DEF Selects
  <2>2. m \in Nat  BY <1>5
  <2>3. \A j \in 1..m : f[j] \in 1..n  BY <2>1
  <2>4. \A j \in 1..m : places[f[j]] = f[j]  BY <1>2, <2>3
  <2>5. \A j \in 1..m : kept[j] = f[j] /\ f[j] \in active
    <3> TAKE j \in 1..m
    <3>1. kept[j] = places[f[j]] /\ places[f[j]] \in active  BY <2>1
    <3> QED  BY <2>4, <3>1
  <2>6. \A i \in active : \E j \in 1..m : f[j] = i
    <3> TAKE i \in active
    <3>1. i \in 1..n /\ places[i] \in active  BY <1>2, <1>3
    <3> QED  BY <2>1, <3>1
  <2> QED  BY <2>1, <2>2, <2>5, <2>6
<1>9. /\ newest \in Seq(Nat) /\ Len(newest) = (IF m < RecallLimit THEN m ELSE RecallLimit)
      /\ \A k \in 1..Len(newest) : k \in 1..m /\ newest[k] = kept[k]
  BY <1>1, <1>4, <1>5, AtMostIs
<1>10. \A k \in 1..Len(newest) : newest[k] = f[k] /\ newest[k] \in active  BY <1>8, <1>9
<1>11. ASSUME NEW k \in 1..Len(newest), NEW i \in active, i < newest[k]
       PROVE  \E h \in 1..Len(newest) : h < k /\ newest[h] = i
  <2>1. PICK j \in 1..m : f[j] = i  BY <1>8
  <2>2. k \in 1..m /\ newest[k] = f[k] /\ f[j] \in Nat /\ f[k] \in Nat
    <3>1. k \in 1..m /\ newest[k] = f[k]  BY <1>9, <1>10
    <3>2. \A place \in active : place \in Nat  BY <1>1, <1>3
    <3>3. f[j] \in active /\ f[k] \in active  BY <1>8, <3>1
    <3> QED  BY <3>1, <3>2, <3>3
  <2>3. ~(k < j) /\ k # j
    <3>1. f[j] < f[k]  BY <1>11, <2>1, <2>2
    <3>2. k < j => f[k] < f[j]  BY <1>8, <2>2
    <3> QED  BY <2>2, <3>1, <3>2
  <2>4. j < k /\ j \in 1..Len(newest)  BY <1>8, <1>9, <2>2, <2>3
  <2> QED  BY <1>10, <2>1, <2>4
<1>12. Cardinality(active) > RecallLimit \/ \A i \in active : \E k \in 1..Len(newest) : newest[k] = i
  <2> SUFFICES ASSUME ~(Cardinality(active) > RecallLimit), NEW i \in active PROVE \E k \in 1..Len(newest) : newest[k] = i  OBVIOUS
  <2>1. Len(newest) = m  BY <1>1, <1>7, <1>8, <1>9
  <2>2. PICK j \in 1..m : f[j] = i  BY <1>8
  <2> QED  BY <1>10, <2>1, <2>2
<1> QED  BY <1>9, <1>10, <1>11, <1>12 DEF newest, active

\* The entry that is found is the newest; without one there is none, or it is hidden.
LEMMA FirstIs ==
  ASSUME NEW list \in Seq(Entry), NEW language
  PROVE  /\ FirstIn(list, language) # 0 => IsNewest(list, language, FirstIn(list, language))
         /\ FirstIn(list, language) = 0 => IsMissing(list, language)
<1> DEFINE newest == Newest(list)
           active == {i \in DOMAIN list : list[i].active}
           I == {k \in 1..Len(newest) : list[newest[k]].language = language}
           first == FirstIn(list, language)
<1>1. first = IF (IF I # {} THEN Min(I) ELSE 0) = 0 THEN 0 ELSE newest[IF I # {} THEN Min(I) ELSE 0]  BY DEF FirstIn, SelectInSeq
<1>2. /\ newest \in Seq(Nat)
      /\ \A k \in 1..Len(newest) : newest[k] \in active
      /\ \A k \in 1..Len(newest), i \in active : i < newest[k] => \E h \in 1..Len(newest) : h < k /\ newest[h] = i
      /\ Cardinality(active) > RecallLimit \/ \A i \in active : \E k \in 1..Len(newest) : newest[k] = i
  BY NewestAre
<1>3. \A i \in DOMAIN list : i \in Nat \ {0}  OBVIOUS
<1>4. \A i \in DOMAIN list : Fits(list[i], language) <=> i \in active /\ list[i].language = language  BY DEF Fits
<1>5. active \subseteq DOMAIN list  OBVIOUS
<1> HIDE DEF first, newest, active
<1>6. CASE I = {}
  <2>1. first = 0  BY <1>1, <1>6
  <2>2. \A k \in 1..Len(newest) : list[newest[k]].language # language  BY <1>6
  <2>3. Cardinality(active) > RecallLimit \/ \A i \in DOMAIN list : ~Fits(list[i], language)  BY <1>2, <1>4, <2>2
  <2> QED  BY <2>1, <2>3 DEF IsMissing, active, first
<1>7. CASE I # {}
  <2>1. I \in SUBSET Nat /\ 0 \notin I  BY <1>2
  <2>2. PICK m \in I : \A k \in I : m <= k
    <3> HIDE DEF I
    <3> QED  BY <1>7, <2>1, LeastNumber
  <2>3. Min(I) \in I /\ \A k \in I : Min(I) <= k
    <3> HIDE DEF I
    <3> QED  BY <2>2 DEF Min
  <2>4. PICK k : k = Min(I)  OBVIOUS
  <2>5. k \in 1..Len(newest) /\ list[newest[k]].language = language /\ \A h \in I : k <= h  BY <2>3, <2>4
  <2>6. first = newest[k]
    <3> HIDE DEF I
    <3> QED  BY <1>1, <1>7, <2>1, <2>3, <2>4
  <2>7. first \in active /\ first \in DOMAIN list /\ first # 0 /\ Fits(list[first], language)  BY <1>2, <1>3, <1>4, <1>5, <2>5, <2>6
  <2>8. ASSUME NEW j \in DOMAIN list, j < first, Fits(list[j], language) PROVE FALSE
    <3>1. j \in active /\ list[j].language = language  BY <1>4, <2>8
    <3>2. PICK h \in 1..Len(newest) : h < k /\ newest[h] = j  BY <1>2, <2>5, <2>6, <2>8, <3>1
    <3>3. h \in I  BY <3>1, <3>2
    <3>4. Len(newest) \in Nat  BY <1>2
    <3> QED  BY <2>5, <3>2, <3>3, <3>4
  <2> QED  BY <2>7, <2>8 DEF IsNewest, first
<1> QED  BY <1>6, <1>7

\* The entries of a history are a sequence.
LEMMA EntriesAre ==
  ASSUME NEW list \in Entries
  PROVE  list \in Seq(Entry)
<1>1. RecallLimit + 1 \in Nat
  <2>1. RecallLimit \in Nat  BY PromptsAssumption
  <2> QED  BY <2>1
<1>2. PICK n \in 0..(RecallLimit + 1) : list \in [1..n -> Entry]  BY DEF Entries, Entry
<1>3. n \in Nat  BY <1>1
<1> HIDE DEF Entry
<1> QED  BY <1>2, <1>3

\* So fresh finds the newest entry, the subject's before the category's.
LEMMA FreshHolds == FindFresh => FreshIsNewest'
<1> SUFFICES ASSUME NEW subject \in Entries, NEW category \in Entries, NEW language \in {"", "en"},
                    asked' = [of |-> "fresh", subject |-> subject, category |-> category, language |-> language,
                              found |-> FreshEntry(subject, category, language)]
             PROVE  FreshIsNewest'
  BY DEF FindFresh, Asks
<1> DEFINE found == FreshEntry(subject, category, language)
<1>1. subject \in Seq(Entry) /\ category \in Seq(Entry)  BY EntriesAre
<1>2. /\ FirstIn(subject, language) # 0 => IsNewest(subject, language, FirstIn(subject, language))
      /\ FirstIn(subject, language) = 0 => IsMissing(subject, language)
      /\ FirstIn(category, language) # 0 => IsNewest(category, language, FirstIn(category, language))
      /\ FirstIn(category, language) = 0 => IsMissing(category, language)
  BY <1>1, FirstIs
<1>3. /\ found[1] = "subject" => IsNewest(subject, language, found[2])
      /\ found[1] # "subject" => IsMissing(subject, language)
      /\ found[1] = "category" => IsNewest(category, language, found[2])
      /\ found[1] = "none" => IsMissing(category, language)
  BY <1>2 DEF FreshEntry
<1>4. /\ asked'.subject = subject /\ asked'.category = category /\ asked'.language = language /\ asked'.found = found
  OBVIOUS
<1> HIDE DEF found
<1> QED  BY <1>3, <1>4 DEF FreshIsNewest, IsNewest, IsMissing, Fits

-----------------------------------------------------------------------------
(* _top                                                                      *)

\* The places that come before i, and how many they are.
Before(list, volume, i) ==
    {j \in DOMAIN list : volume[list[j]] > volume[list[i]] \/ (volume[list[j]] = volume[list[i]] /\ j < i)}
Rank(list, volume) == [i \in DOMAIN list |-> Cardinality(Before(list, volume, i))]
\* Every phrase has a rank of its own, and none before it is searched for less.
LEMMA RankIs ==
  ASSUME NEW T, NEW list \in Seq(T), NEW volume \in [T -> Int], NEW n, n = Len(list)
  PROVE  /\ Rank(list, volume) \in [1..n -> 0..(n - 1)]
         /\ \A i, j \in 1..n : /\ i # j => Rank(list, volume)[i] # Rank(list, volume)[j]
                               /\ Rank(list, volume)[i] < Rank(list, volume)[j] => volume[list[i]] >= volume[list[j]]
<1> DEFINE before(i) == Before(list, volume, i)
           rank == Rank(list, volume)
<1>1. n \in Nat /\ DOMAIN list = 1..n /\ \A i \in 1..n : volume[list[i]] \in Int /\ i \in Int
  OBVIOUS
<1>2. IsFiniteSet(1..n) /\ Cardinality(1..n) = n
  <2>1. 1 \in Int /\ n \in Int /\ (IF 1 > n THEN 0 ELSE n - 1 + 1) = n  BY <1>1
  <2> QED  BY <2>1, FS_Interval
<1>3. \A i \in 1..n : before(i) \in SUBSET (1..n) /\ i \notin before(i)
  BY <1>1 DEF Before
<1>4. ASSUME NEW i \in 1..n, NEW j \in 1..n, i # j PROVE j \in before(i) \/ i \in before(j)
  BY <1>1, <1>4 DEF Before
<1>5. ASSUME NEW i \in 1..n, NEW j \in before(i) PROVE before(j) \subseteq before(i)
  BY <1>1 DEF Before
<1>6. ASSUME NEW i \in 1..n, NEW j \in 1..n, j \notin before(i) PROVE volume[list[i]] >= volume[list[j]]
  BY <1>1, <1>6 DEF Before
<1>7. \A i \in 1..n : rank[i] = Cardinality(before(i))  BY <1>1 DEF Rank
<1>8. rank = [i \in 1..n |-> rank[i]]  BY <1>1 DEF Rank
<1> HIDE DEF before, rank
<1>9. ASSUME NEW i \in 1..n PROVE IsFiniteSet(before(i)) /\ rank[i] \in Nat  BY <1>2, <1>3, <1>7, FS_Subset, FS_CardinalityType
<1>10. ASSUME NEW i \in 1..n PROVE rank[i] \in 0..(n - 1)
  <2>1. before(i) # 1..n /\ Cardinality(before(i)) <= Cardinality(1..n)  BY <1>2, <1>3, FS_Subset
  <2>2. Cardinality(before(i)) # Cardinality(1..n)  BY <1>2, <1>3, <2>1, FS_Subset
  <2> QED  BY <1>1, <1>2, <1>7, <1>9, <2>1, <2>2
<1>11. ASSUME NEW i \in 1..n, NEW j \in before(i) PROVE rank[j] < rank[i]
  <2>1. j \in 1..n /\ j \notin before(j) /\ before(j) \in SUBSET before(i) /\ before(j) # before(i)  BY <1>3, <1>5
  <2>2. Cardinality(before(j)) <= Cardinality(before(i)) /\ Cardinality(before(j)) # Cardinality(before(i))
    BY <1>9, <2>1, FS_Subset
  <2>3. rank[i] \in Nat /\ rank[j] \in Nat  BY <1>9, <2>1
  <2> QED  BY <1>7, <2>1, <2>2, <2>3
<1>12. ASSUME NEW i \in 1..n, NEW j \in 1..n, i # j PROVE rank[i] # rank[j]
  <2>1. rank[i] \in Nat /\ rank[j] \in Nat  BY <1>9
  <2>2. rank[j] < rank[i] \/ rank[i] < rank[j]  BY <1>4, <1>11, <1>12
  <2> QED  BY <2>1, <2>2
<1>13. ASSUME NEW i \in 1..n, NEW j \in 1..n, rank[i] < rank[j] PROVE volume[list[i]] >= volume[list[j]]
  <2>1. rank[i] \in Nat /\ rank[j] \in Nat /\ ~(rank[j] < rank[i])  BY <1>9, <1>13
  <2>2. j \notin before(i)  BY <1>11, <2>1
  <2> QED  BY <1>6, <2>2
<1>14. rank \in [1..n -> 0..(n - 1)]  BY <1>8, <1>10
<1> QED  BY <1>12, <1>13, <1>14 DEF rank

\* The largest: no other is larger.
LEMMA TopIs ==
  ASSUME NEW T, NEW list \in Seq(T), NEW volume \in [T -> Int]
  PROVE  /\ \A i \in DOMAIN Top(list, volume) : Contains(list, Top(list, volume)[i])
         /\ \A i \in DOMAIN Top(list, volume), p \in ToSet(list) \ ToSet(Top(list, volume)) :
               volume[Top(list, volume)[i]] >= volume[p]
<1> DEFINE n == Len(list)
           rank == Rank(list, volume)
           place(r) == CHOOSE i \in DOMAIN list : Cardinality(Before(list, volume, i)) = r - 1
           ranked == Ranked(list, volume)
           top == Top(list, volume)
<1>1. n \in Nat /\ DOMAIN list = 1..n /\ SerpTop \in Nat  BY PromptsAssumption
<1>2. /\ rank \in [1..n -> 0..(n - 1)]
      /\ \A i, j \in 1..n : (i # j => rank[i] # rank[j]) /\ (rank[i] < rank[j] => volume[list[i]] >= volume[list[j]])
  BY RankIs
<1>3. \A i \in 1..n : rank[i] = Cardinality(Before(list, volume, i))  BY <1>1 DEF Rank
<1>4. ranked = [r \in DOMAIN list |-> list[place(r)]]  BY DEF Ranked, Before
<1>5. \A r \in 1..n : \E i \in 1..n : rank[i] = r - 1
  <2>1. rank \in Injection(1..n, 0..(n - 1))  BY <1>2 DEF Injection, IsInjective
  <2>2. /\ IsFiniteSet(1..n) /\ Cardinality(1..n) = n
        /\ IsFiniteSet(0..(n - 1)) /\ Cardinality(0..(n - 1)) = n
    <3>1. 1 \in Int /\ n \in Int /\ 0 \in Int /\ n - 1 \in Int  BY <1>1
    <3>2. (IF 1 > n THEN 0 ELSE n - 1 + 1) = n /\ (IF 0 > n - 1 THEN 0 ELSE (n - 1) - 0 + 1) = n  BY <1>1
    <3> QED  BY <3>1, <3>2, FS_Interval
  <2>3. rank \in Surjection(1..n, 0..(n - 1))  BY <2>1, <2>2, FS_Injection
  <2>4. \A r \in 1..n : r - 1 \in 0..(n - 1)  BY <1>1
  <2> QED  BY <2>3, <2>4 DEF Surjection
<1>6. ASSUME NEW r \in 1..n PROVE place(r) \in 1..n /\ rank[place(r)] = r - 1
  <2>1. \E i \in DOMAIN list : Cardinality(Before(list, volume, i)) = r - 1  BY <1>1, <1>3, <1>5
  <2>2. place(r) \in DOMAIN list /\ Cardinality(Before(list, volume, place(r))) = r - 1  BY <2>1
  <2> QED  BY <1>1, <1>3, <2>2
<1>7. top = AtMost(SerpTop, ranked)  BY DEF Top
<1> HIDE DEF n, rank, place, ranked, top
<1>8. ranked \in Seq(T) /\ Len(ranked) = n /\ \A r \in 1..n : ranked[r] = list[place(r)]
  <2>1. \A r \in 1..n : list[place(r)] \in T  BY <1>1, <1>6 DEF n
  <2>2. ranked = [r \in 1..n |-> list[place(r)]]  BY <1>1, <1>4
  <2> QED  BY <1>1, <2>1, <2>2
<1>9. /\ top \in Seq(T) /\ Len(top) = (IF n < SerpTop THEN n ELSE SerpTop)
      /\ \A r \in 1..Len(top) : r \in 1..n /\ top[r] = ranked[r]
  BY <1>1, <1>7, <1>8, AtMostIs
<1>10. DOMAIN top = 1..Len(top) /\ Len(top) \in Nat  BY <1>9
<1>11. ASSUME NEW r \in 1..Len(top) PROVE r \in 1..n /\ top[r] = list[place(r)] /\ place(r) \in 1..n /\ rank[place(r)] = r - 1
  BY <1>6, <1>8, <1>9
<1>12. \A i \in DOMAIN top : Contains(list, top[i])  BY <1>10, <1>11 DEF Contains, n
<1>13. ASSUME NEW r \in 1..Len(top), NEW p \in ToSet(list) \ ToSet(top) PROVE volume[top[r]] >= volume[p]
  <2>1. PICK j \in 1..n : p = list[j]  BY <1>1 DEF ToSet
  <2>2. rank[j] \in 0..(n - 1) /\ rank[j] + 1 \in 1..n /\ (rank[j] + 1) - 1 = rank[j]  BY <1>1, <1>2
  <2>3. place(rank[j] + 1) = j  BY <1>2, <1>6, <2>2
  <2>4. ~(rank[j] + 1 \in 1..Len(top))
    <3>1. ASSUME rank[j] + 1 \in 1..Len(top) PROVE top[rank[j] + 1] = p  BY <1>11, <2>1, <2>3, <3>1
    <3> QED  BY <1>10, <3>1 DEF ToSet
  <2>5. r - 1 < rank[j]  BY <1>1, <1>10, <2>2, <2>4
  <2>6. volume[list[place(r)]] >= volume[list[j]]  BY <1>2, <1>11, <2>5
  <2> QED  BY <1>11, <2>1, <2>6
<1> QED  BY <1>10, <1>12, <1>13 DEF top

-----------------------------------------------------------------------------
(* _seeds                                                                    *)

Words == DOMAIN WordLength
\* A phrase is a sequence of words.
LEMMA PhraseIs ==
  /\ \A p \in Phrases : p \in Seq(Words) /\ p # <<>> /\ Len(p) \in 1..MaxList
  /\ \A p \in Seq(Words) : Len(p) \in 1..MaxList => p \in Phrases
<1>1. MaxList \in Nat  BY PromptsAssumption
<1>2. ASSUME NEW p \in Phrases PROVE p \in Seq(Words) /\ p # <<>> /\ Len(p) \in 1..MaxList
  <2>1. PICK n \in 1..MaxList : p \in [1..n -> Words]  BY DEF Phrases, Words
  <2>2. n \in Nat /\ n > 0  BY <1>1
  <2> HIDE DEF Words
  <2>3. p \in Seq(Words) /\ Len(p) = n  BY <2>1, <2>2
  <2> QED  BY <2>2, <2>3
<1>3. ASSUME NEW p \in Seq(Words), Len(p) \in 1..MaxList PROVE p \in Phrases
  <2>1. p \in [1..Len(p) -> Words]  OBVIOUS
  <2> QED  BY <1>3, <2>1 DEF Phrases, Words
<1> QED  BY <1>2, <1>3

\* A cut phrase is blank, or a phrase within the limit of words that the whole had.
LEMMA SeedCutIs ==
  ASSUME NEW p \in Phrases
  PROVE  \/ SeedCut(p) = <<>>
         \/ /\ SeedCut(p) \in Phrases /\ PhraseWidth(SeedCut(p)) <= SeedMax
            /\ \A terms : ~IsExcluded(p, terms) => ~IsExcluded(SeedCut(p), terms)
<1> DEFINE fitting == {n \in 1..Len(p) - 1 : PhraseWidth(Upto(p, n)) <= SeedMax}
           last == LastOf({0} \cup fitting)
<1>1. p \in Seq(Words) /\ Len(p) \in 1..MaxList /\ MaxList \in Nat  BY PhraseIs, PromptsAssumption
<1>2. last \in {0} \cup fitting
  <2>1. {0} \cup fitting \in SUBSET (0..Len(p)) /\ {0} \cup fitting # {} /\ Len(p) \in Nat  BY <1>1
  <2> HIDE DEF fitting
  <2> QED  BY <2>1, LastOfIs
<1>3. SeedCut(p) = Upto(p, last)  BY DEF SeedCut
<1> HIDE DEF last
<1>4. CASE last = 0
  <2>1. Upto(p, 0) = <<>>  BY DEF Upto
  <2> QED  BY <1>3, <1>4, <2>1
<1>5. CASE last \in fitting
  <2>1. last \in 1..Len(p) - 1 /\ PhraseWidth(Upto(p, last)) <= SeedMax  BY <1>5
  <2>2. last \in 0..Len(p) /\ last \in 1..MaxList  BY <1>1, <2>1
  <2>3. Upto(p, last) \in Seq(Words) /\ Len(Upto(p, last)) = last /\ \A i \in 1..last : Upto(p, last)[i] = p[i]
    BY <1>1, <2>2, UptoIs
  <2>4. Upto(p, last) \in Phrases  BY <2>2, <2>3, PhraseIs
  <2>5. DOMAIN Upto(p, last) = 1..last /\ DOMAIN p = 1..Len(p) /\ \A i \in 1..last : i \in 1..Len(p)  BY <1>1, <2>2, <2>3
  <2>6. \A terms : ~IsExcluded(p, terms) => ~IsExcluded(Upto(p, last), terms)  BY <2>3, <2>5 DEF IsExcluded
  <2> QED  BY <1>3, <2>1, <2>4, <2>6
<1> QED  BY <1>2, <1>4, <1>5

\* Phrases one may search for.
Usable(list, terms) ==
    /\ list \in Seq(Phrases) /\ IsInjective(list)
    /\ \A i \in DOMAIN list : PhraseWidth(list[i]) <= SeedMax /\ ~IsExcluded(list[i], terms)
\* The seeds are usable phrases, each once.
LEMMA SeedsAre ==
  ASSUME NEW answer \in Seq(Phrases), NEW terms
  PROVE  Usable(Seeds(answer, terms), terms)
<1> DEFINE wanted == {p \in ToSet(answer) : ~IsExcluded(p, terms)}
           phrases == Wanted(answer, terms)
           short == {p \in ToSet(phrases) : PhraseWidth(p) <= SeedMax}
           fitting == Those(phrases, short)
           cuts == [i \in DOMAIN phrases |-> SeedCut(phrases[i])]
           whole == {SeedCut(p) : p \in ToSet(phrases)} \ {<<>>}
           cut == OnceEach(Those(cuts, whole))
           seeds == IF fitting # <<>> THEN fitting ELSE cut
<1>1. OnceEach(answer) \in Seq(Phrases) /\ IsInjective(OnceEach(answer))  BY OnceEachIs
<1>2. /\ phrases \in Seq(Phrases) /\ IsInjective(phrases)
      /\ \A j \in DOMAIN phrases : ~IsExcluded(phrases[j], terms)
  <2>1. phrases = Those(OnceEach(answer), wanted)  BY DEF Wanted
  <2> HIDE DEF wanted
  <2>2. phrases \in Seq(Phrases) /\ IsInjective(phrases) /\ \A j \in DOMAIN phrases : phrases[j] \in wanted
    BY <1>1, <2>1, ThoseHas
  <2> QED  BY <2>2 DEF wanted
<1>3. ASSUME NEW p \in ToSet(phrases) PROVE p \in Phrases /\ ~IsExcluded(p, terms)
  BY <1>2 DEF ToSet
<1> HIDE DEF phrases
<1>4. Usable(fitting, terms)
  <2> HIDE DEF short
  <2>1. fitting \in Seq(Phrases) /\ IsInjective(fitting) /\ \A j \in DOMAIN fitting : fitting[j] \in short
    BY <1>2, ThoseHas
  <2>2. \A j \in DOMAIN fitting : fitting[j] \in ToSet(phrases) /\ PhraseWidth(fitting[j]) <= SeedMax
    BY <2>1 DEF short
  <2> QED  BY <1>3, <2>1, <2>2 DEF Usable
<1>5. ASSUME NEW x \in whole PROVE x \in Phrases /\ PhraseWidth(x) <= SeedMax /\ ~IsExcluded(x, terms)
  <2>1. PICK p \in ToSet(phrases) : x = SeedCut(p) /\ x # <<>>  BY <1>5
  <2> QED  BY <1>3, <2>1, SeedCutIs
<1>6. Usable(cut, terms)
  <2> DEFINE T == {SeedCut(p) : p \in ToSet(phrases)}
             some == Those(cuts, whole)
  <2>1. cuts \in Seq(T)
    <3>1. DOMAIN phrases = 1..Len(phrases) /\ Len(phrases) \in Nat  BY <1>2
    <3>2. \A i \in 1..Len(phrases) : SeedCut(phrases[i]) \in T  BY <3>1 DEF ToSet
    <3>3. cuts = [i \in 1..Len(phrases) |-> SeedCut(phrases[i])]  BY <3>1
    <3> HIDE DEF T, cuts
    <3> QED  BY <3>1, <3>2, <3>3
  <2> HIDE DEF cuts, whole, T
  <2>2. some \in Seq(T) /\ \A j \in DOMAIN some : some[j] \in whole  BY <2>1, ThoseHas
  <2> HIDE DEF some
  <2>3. cut \in Seq(T) /\ IsInjective(cut) /\ \A x : Contains(cut, x) <=> Contains(some, x)
    BY <2>2, OnceEachIs DEF some
  <2> HIDE DEF cut
  <2>4. ASSUME NEW i \in DOMAIN cut PROVE cut[i] \in whole
    <3>1. i \in 1..Len(cut) /\ DOMAIN some = 1..Len(some)  BY <2>2, <2>3
    <3>2. Contains(cut, cut[i])  BY <3>1 DEF Contains
    <3>3. Contains(some, cut[i])  BY <2>3, <3>2
    <3> QED  BY <2>2, <3>1, <3>3 DEF Contains
  <2>5. \A i \in DOMAIN cut : cut[i] \in Phrases /\ PhraseWidth(cut[i]) <= SeedMax /\ ~IsExcluded(cut[i], terms)
    BY <1>5, <2>4
  <2>6. cut \in Seq(Phrases)
    <3>1. Len(cut) \in Nat /\ DOMAIN cut = 1..Len(cut) /\ cut = [i \in 1..Len(cut) |-> cut[i]]  BY <2>3
    <3> QED  BY <2>5, <3>1
  <2> QED  BY <2>3, <2>5, <2>6 DEF Usable
<1>7. Seeds(answer, terms) = AtMost(SeedsMax, seeds)  BY DEF Seeds, phrases
<1> HIDE DEF fitting, cut
<1>8. Usable(seeds, terms)  BY <1>4, <1>6
<1> HIDE DEF seeds
<1>9. /\ AtMost(SeedsMax, seeds) \in Seq(Phrases) /\ IsInjective(AtMost(SeedsMax, seeds))
      /\ \A i \in 1..Len(AtMost(SeedsMax, seeds)) : i \in 1..Len(seeds) /\ AtMost(SeedsMax, seeds)[i] = seeds[i]
  <2>1. SeedsMax \in Nat  BY PromptsAssumption
  <2> QED  BY <1>8, <2>1, AtMostIs DEF Usable
<1>10. DOMAIN seeds = 1..Len(seeds) /\ DOMAIN AtMost(SeedsMax, seeds) = 1..Len(AtMost(SeedsMax, seeds))
  BY <1>8, <1>9 DEF Usable
<1> QED  BY <1>7, <1>8, <1>9, <1>10 DEF Usable

\* So a research goes out with usable seeds.
LEMMA SeedsHold == Research => SeedsUsable'
<1> SUFFICES ASSUME NEW answer \in UNION {[1..n -> Phrases] : n \in 1..MaxList}, NEW terms \in {{}, {"brand"}}, NEW high \in Phrases,
                    NEW seeds, seeds = Seeds(answer, terms),
                    NEW volume, volume = [p \in Phrases |-> IF p = high THEN 1 ELSE 0],
                    asked' = [of |-> "seeds", answer |-> answer, terms |-> terms, seeds |-> seeds, volume |-> volume,
                              searched |-> Top(seeds, volume)]
             PROVE  SeedsUsable'
  BY DEF Research, Asks
<1> DEFINE top == Top(seeds, volume)
<1>1. answer \in Seq(Phrases)
  <2>1. MaxList \in Nat  BY PromptsAssumption
  <2>2. PICK n \in 1..MaxList : answer \in [1..n -> Phrases]  OBVIOUS
  <2> QED  BY <2>1, <2>2
<1>2. Usable(seeds, terms)  BY <1>1, SeedsAre
<1>3. volume \in [Phrases -> Int]  OBVIOUS
<1>4. /\ \A i \in DOMAIN top : Contains(seeds, top[i])
      /\ \A i \in DOMAIN top, p \in ToSet(seeds) \ ToSet(top) : volume[top[i]] >= volume[p]
  BY <1>2, <1>3, TopIs DEF Usable
<1>5. \A i \in DOMAIN seeds : seeds[i] # <<>>  BY <1>2, PhraseIs DEF Usable
<1>6. asked'.seeds = seeds /\ asked'.terms = terms /\ asked'.volume = volume /\ asked'.searched = top  OBVIOUS
<1> HIDE DEF top
<1> QED  BY <1>2, <1>4, <1>5, <1>6 DEF SeedsUsable, Usable

-----------------------------------------------------------------------------
(* step                                                                      *)

\* The brief is there once, and it and the profile come after the note.
Blocks == {"rules", "prompt", "note", "brief", "inputs", "company_profile", "seo_brief", "cover_product", "language",
           "previous_version", "instruction"}
IsBriefed(blocks) == \E i \in 1..Len(blocks) : blocks[i] = "seo_brief"
BriefedOnce(blocks) ==
    /\ blocks \in Seq(Blocks)
    /\ \A i, j \in 1..Len(blocks) : blocks[i] = "seo_brief" /\ blocks[j] = "seo_brief" => i = j
    /\ \A i, n \in 1..Len(blocks) : blocks[i] \in {"seo_brief", "company_profile"} /\ blocks[n] = "note" => n < i
\* A block added behind keeps that, unless it is a second brief or the note.
LEMMA BlockAdded ==
  ASSUME NEW blocks, BriefedOnce(blocks), NEW block \in Blocks, block # "note", NEW tail,
         tail = <<>> \/ (tail = <<block>> /\ (block = "seo_brief" => ~IsBriefed(blocks)))
  PROVE  /\ BriefedOnce(blocks \o tail)
         /\ IsBriefed(blocks \o tail) => IsBriefed(blocks) \/ (tail = <<block>> /\ block = "seo_brief")
<1> DEFINE more == blocks \o tail
           m == Len(blocks)
<1>1. /\ blocks \in Seq(Blocks) /\ m \in Nat
      /\ \A i, j \in 1..m : blocks[i] = "seo_brief" /\ blocks[j] = "seo_brief" => i = j
      /\ \A i, n \in 1..m : blocks[i] \in {"seo_brief", "company_profile"} /\ blocks[n] = "note" => n < i
  BY DEF BriefedOnce
<1>2. CASE tail = <<>>
  <2>1. more = blocks  BY <1>1, <1>2
  <2> QED  BY <2>1
<1>3. CASE tail = <<block>> /\ (block = "seo_brief" => ~IsBriefed(blocks))
  <2>1. <<block>> \in Seq(Blocks) /\ Len(<<block>>) = 1 /\ <<block>>[1] = block  OBVIOUS
  <2>2. more \in Seq(Blocks) /\ Len(more) = m + 1 /\ more[m + 1] = block /\ \A i \in 1..m : more[i] = blocks[i]
    BY <1>1, <1>3, <2>1
  <2> HIDE DEF more, m
  <2>3. \A i \in 1..(m + 1) : i = m + 1 \/ i \in 1..m  BY <1>1
  <2>4. \A i \in 1..m : i < m + 1 /\ i # m + 1  BY <1>1
  <2>5. block = "seo_brief" => \A i \in 1..m : blocks[i] # "seo_brief"  BY <1>3 DEF IsBriefed, m
  <2>6. \A i, j \in 1..(m + 1) : more[i] = "seo_brief" /\ more[j] = "seo_brief" => i = j
    BY <1>1, <2>2, <2>3, <2>5
  <2>7. \A i, n \in 1..(m + 1) : more[i] \in {"seo_brief", "company_profile"} /\ more[n] = "note" => n < i
    <3> SUFFICES ASSUME NEW i \in 1..(m + 1), NEW n \in 1..(m + 1), more[i] \in {"seo_brief", "company_profile"}, more[n] = "note"
                 PROVE  n < i
      OBVIOUS
    <3>1. n \in 1..m  BY <2>2, <2>3
    <3> QED  BY <1>1, <2>2, <2>3, <2>4, <3>1
  <2>8. BriefedOnce(more)  BY <2>2, <2>6, <2>7 DEF BriefedOnce
  <2>9. IsBriefed(more) => IsBriefed(blocks) \/ block = "seo_brief"  BY <2>2, <2>3 DEF IsBriefed, m
  <2> QED  BY <1>3, <2>8, <2>9 DEF more
<1> QED  BY <1>2, <1>3

\* The rules and the prompt in front of the blocks.
LEMMA BlocksInFront ==
  ASSUME NEW blocks, BriefedOnce(blocks)
  PROVE  BriefedOnce(<<"rules", "prompt">> \o blocks)
<1> DEFINE more == <<"rules", "prompt">> \o blocks
           m == Len(blocks)
<1>1. /\ blocks \in Seq(Blocks) /\ m \in Nat
      /\ \A i, j \in 1..m : blocks[i] = "seo_brief" /\ blocks[j] = "seo_brief" => i = j
      /\ \A i, n \in 1..m : blocks[i] \in {"seo_brief", "company_profile"} /\ blocks[n] = "note" => n < i
  BY DEF BriefedOnce
<1>2. <<"rules", "prompt">> \in Seq(Blocks) /\ Len(<<"rules", "prompt">>) = 2  BY DEF Blocks
<1>3. /\ more \in Seq(Blocks) /\ Len(more) = m + 2
      /\ more[1] = "rules" /\ more[2] = "prompt" /\ \A i \in 1..m : more[i + 2] = blocks[i]
  BY <1>1, <1>2
<1> HIDE DEF more, m
<1>4. ASSUME NEW i \in 1..(m + 2), more[i] \in {"seo_brief", "company_profile", "note"}
      PROVE  i - 2 \in 1..m /\ blocks[i - 2] = more[i] /\ i \in Int
  <2>1. i # 1 /\ i # 2  BY <1>3, <1>4
  <2>2. i - 2 \in 1..m /\ (i - 2) + 2 = i  BY <1>1, <2>1
  <2> QED  BY <1>3, <2>2
<1>5. \A i, j \in 1..(m + 2) : more[i] = "seo_brief" /\ more[j] = "seo_brief" => i = j
  <2> SUFFICES ASSUME NEW i \in 1..(m + 2), NEW j \in 1..(m + 2), more[i] = "seo_brief", more[j] = "seo_brief" PROVE i = j
    OBVIOUS
  <2>1. i - 2 = j - 2  BY <1>1, <1>4
  <2> QED  BY <1>1, <2>1
<1>6. \A i, n \in 1..(m + 2) : more[i] \in {"seo_brief", "company_profile"} /\ more[n] = "note" => n < i
  <2> SUFFICES ASSUME NEW i \in 1..(m + 2), NEW n \in 1..(m + 2), more[i] \in {"seo_brief", "company_profile"}, more[n] = "note"
               PROVE  n < i
    OBVIOUS
  <2>1. n - 2 < i - 2  BY <1>1, <1>4
  <2> QED  BY <1>1, <2>1
<1> QED  BY <1>3, <1>5, <1>6 DEF BriefedOnce, more

\* Which blocks a prompt of a step has.
LEMMA BuildPromptIs ==
  ASSUME NEW p
  PROVE  BriefedOnce(BuildPrompt(p))
<1> DEFINE both == p.previous \/ p.instruction
           remembered == p.run /\ p.remembered /\ ContentMemoryKinds(p.augment) # {}
           s1 == <<"note", "brief">>
           s2 == s1 \o When(p.inputs, "inputs")
           s3 == s2 \o When(p.facts, "company_profile")
           s4 == s3 \o When(remembered, "seo_brief")
           s5 == s4 \o When("seo_brief" \in p.augment, "seo_brief")
           s6 == s5 \o When("cover_product" \in p.augment, "cover_product")
           s7 == <<"rules", "prompt">> \o s6
           s8 == s7 \o When(p.language, "language")
           s9 == s8 \o When(both, "previous_version")
           s10 == s9 \o When(both, "instruction")
<1>1. BuildPrompt(p) = s10  BY DEF BuildPrompt, DataBlocks
<1>2. BriefedOnce(s1) /\ ~IsBriefed(s1)
  <2>1. s1 \in Seq(Blocks) /\ Len(s1) = 2 /\ s1[1] = "note" /\ s1[2] = "brief"  BY DEF Blocks
  <2> HIDE DEF s1
  <2>2. \A i \in 1..2 : i = 1 \/ i = 2  OBVIOUS
  <2>3. \A i \in 1..2 : s1[i] \notin {"seo_brief", "company_profile"}  BY <2>1, <2>2
  <2> QED  BY <2>1, <2>3 DEF BriefedOnce, IsBriefed
<1>3. remembered => ~("seo_brief" \in p.augment)  BY DEF ContentMemoryKinds
<1>4. /\ When(p.inputs, "inputs") \in {<<>>, <<"inputs">>} /\ When(p.facts, "company_profile") \in {<<>>, <<"company_profile">>}
      /\ When(remembered, "seo_brief") = (IF remembered THEN <<"seo_brief">> ELSE <<>>)
      /\ When("seo_brief" \in p.augment, "seo_brief") = (IF "seo_brief" \in p.augment THEN <<"seo_brief">> ELSE <<>>)
      /\ When("cover_product" \in p.augment, "cover_product") \in {<<>>, <<"cover_product">>}
      /\ When(p.language, "language") \in {<<>>, <<"language">>} /\ When(both, "previous_version") \in {<<>>, <<"previous_version">>}
      /\ When(both, "instruction") \in {<<>>, <<"instruction">>}
  BY DEF When
<1>5. {"inputs", "company_profile", "seo_brief", "cover_product", "language", "previous_version", "instruction"} \subseteq Blocks
  BY DEF Blocks
<1> HIDE DEF both, remembered, s1, s2, s3, s4, s5, s6, s7, s8, s9, s10
<1>6. BriefedOnce(s2) /\ ~IsBriefed(s2)  BY <1>2, <1>4, <1>5, BlockAdded DEF s2
<1>7. BriefedOnce(s3) /\ ~IsBriefed(s3)  BY <1>6, <1>4, <1>5, BlockAdded DEF s3
<1>8. BriefedOnce(s4) /\ (IsBriefed(s4) => remembered)
  <2>1. BriefedOnce(s4)  BY <1>4, <1>5, <1>7, BlockAdded DEF s4
  <2>2. ~remembered => s4 = s3  BY <1>4, <1>7 DEF s4, BriefedOnce
  <2> QED  BY <1>7, <2>1, <2>2
<1>9. BriefedOnce(s5)
  <2>1. "seo_brief" \in p.augment => ~IsBriefed(s4)  BY <1>3, <1>8
  <2> QED  BY <1>4, <1>5, <1>8, <2>1, BlockAdded DEF s5
<1>10. BriefedOnce(s6)  BY <1>4, <1>5, <1>9, BlockAdded DEF s6
<1>11. BriefedOnce(s7)  BY <1>10, BlocksInFront DEF s7
<1>12. BriefedOnce(s8)  BY <1>4, <1>5, <1>11, BlockAdded DEF s8
<1>13. BriefedOnce(s9)  BY <1>4, <1>5, <1>12, BlockAdded DEF s9
<1>14. BriefedOnce(s10)  BY <1>4, <1>5, <1>13, BlockAdded DEF s10
<1> QED  BY <1>1, <1>14

\* So a step's prompt is briefed once.
LEMMA StepHolds == AskStep => BriefOnce'
<1> SUFFICES ASSUME NEW p, NEW blocks, blocks = BuildPrompt(p), asked' = [of |-> "step", params |-> p, blocks |-> blocks]
             PROVE  BriefOnce'
  BY DEF AskStep, Asks
<1> DEFINE place(block) == {i \in DOMAIN blocks : blocks[i] = block}
<1>1. BriefedOnce(blocks)  BY BuildPromptIs
<1>2. DOMAIN blocks = 1..Len(blocks)  BY <1>1 DEF BriefedOnce
<1>3. Cardinality(place("seo_brief")) <= 1
  <2>1. CASE place("seo_brief") = {}  BY <2>1, FS_EmptySet
  <2>2. CASE place("seo_brief") # {}
    <3>1. PICK i \in place("seo_brief") : TRUE  BY <2>2
    <3>2. place("seo_brief") = {i}  BY <1>1, <1>2, <3>1 DEF BriefedOnce
    <3> QED  BY <3>2, FS_Singleton
  <2> QED  BY <2>1, <2>2
<1>4. \A i \in place("seo_brief") \cup place("company_profile"), n \in place("note") : n < i  BY <1>1, <1>2 DEF BriefedOnce
<1>5. asked'.blocks = blocks  OBVIOUS
<1> HIDE DEF place
<1> QED  BY <1>3, <1>4, <1>5 DEF BriefOnce, place

-----------------------------------------------------------------------------
\* A prompt has room for what it must say: each limit is kept, and what gives
\* way does so in the promised order, whatever the profile, the memory, the
\* scene, the phrases and the step; a brief used again is the newest of its
\* language, and a cover shows what it must as far as that is within its own
\* limit (capped, _budgeted, fresh, fit_prompt,
\* _seeds, _top, _build_prompt).
THEOREM PromptsAreFit == PromptsSpec => []PromptsFit
<1>1. PromptsInit => PromptsFit
  BY DEF PromptsInit, NotAsked, PromptsFit, ProfileFits, RecallFits, FreshIsNewest, TailIsKept, SeedsUsable, BriefOnce
<1>2. PromptsFit /\ [PromptsNext]_asked => PromptsFit'
  <2> SUFFICES ASSUME PromptsFit, [PromptsNext]_asked PROVE PromptsFit'  OBVIOUS
  <2>1. CASE ContextFor
    <3>1. asked'.of = "profile"  BY <2>1 DEF ContextFor, Asks
    <3> QED  BY <2>1, <3>1, ProfileHolds DEF PromptsFit, RecallFits, FreshIsNewest, TailIsKept, SeedsUsable, BriefOnce
  <2>2. CASE Recall
    <3>1. asked'.of = "recall"  BY <2>2 DEF Recall, Asks
    <3> QED  BY <2>2, <3>1, RecallHolds DEF PromptsFit, ProfileFits, FreshIsNewest, TailIsKept, SeedsUsable, BriefOnce
  <2>3. CASE FindFresh
    <3>1. asked'.of = "fresh"
      <4>1. PICK subject, category, language :
               asked' = [of |-> "fresh", subject |-> subject, category |-> category, language |-> language,
                         found |-> FreshEntry(subject, category, language)]
        BY <2>3 DEF FindFresh, Asks
      <4> QED  BY <4>1
    <3> QED  BY <2>3, <3>1, FreshHolds DEF PromptsFit, ProfileFits, RecallFits, TailIsKept, SeedsUsable, BriefOnce
  <2>4. CASE RenderScene
    <3>1. asked'.of = "cover"  BY <2>4 DEF RenderScene, Asks
    <3> QED  BY <2>4, <3>1, CoverFits DEF PromptsFit, ProfileFits, RecallFits, FreshIsNewest, SeedsUsable, BriefOnce
  <2>5. CASE Research
    <3>1. asked'.of = "seeds"  BY <2>5 DEF Research, Asks
    <3> QED  BY <2>5, <3>1, SeedsHold DEF PromptsFit, ProfileFits, RecallFits, FreshIsNewest, TailIsKept, BriefOnce
  <2>6. CASE AskStep
    <3>1. asked'.of = "step"  BY <2>6 DEF AskStep, Asks
    <3> QED  BY <2>6, <3>1, StepHolds DEF PromptsFit, ProfileFits, RecallFits, FreshIsNewest, TailIsKept, SeedsUsable
  <2>7. CASE UNCHANGED asked
    BY <2>7 DEF PromptsFit, ProfileFits, RecallFits, FreshIsNewest, TailIsKept, SeedsUsable, BriefOnce
  <2> QED  BY <2>1, <2>2, <2>3, <2>4, <2>5, <2>6, <2>7 DEF PromptsNext
<1> QED  BY <1>1, <1>2, PTL DEF PromptsSpec

=============================================================================
