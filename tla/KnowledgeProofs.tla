--------------------------- MODULE KnowledgeProofs ---------------------------
(***************************************************************************)
(* The history of the profile and what a prompt read of it, for any scopes' *)
(* bounds, suggestions and requests: a save takes a number above all that   *)
(* its scope ever used, and nothing else touches the snapshots. And the     *)
(* layers of rules: while no requests overlap, what was promoted is seen.   *)
(***************************************************************************)
EXTENDS Knowledge, RuleLayers, FiniteInduction, TLAPS

KnowInv == HistoryKept /\ PromptTraceable

\* The part of the type invariant about rows and snapshots
RowsTyped ==
    /\ DOMAIN profile = Scopes /\ DOMAIN snapshots = Scopes
    /\ \A s \in Scopes : profile[s] \in ProfileRow(s) /\ snapshots[s] \subseteq Snapshot(s)

\* The scopes of S are saved over the prompt that has read them.
Overtakes(S) ==
    /\ prompt' = [prompt EXCEPT !.overtaken = prompt.overtaken \cup S]
    /\ \A s \in S : profile[s].version < profile'[s].version
    /\ \A s \in ReadScopes \ S : profile[s].version = profile'[s].version
\* What every step but the prompt's does to the rows and the snapshots: snapshots
\* stay, and no row the prompt has read and not stamped changes unnoticed.
HistoryMoves ==
    /\ RowsTyped' /\ VersionsStand' /\ RowsAreSaved'
    /\ \A s \in Scopes : snapshots[s] \subseteq snapshots'[s]
    /\ \E S \in SUBSET ReadScopes : Overtakes(S)

-----------------------------------------------------------------------------
\* A set of numbers up to n that is not empty has a largest one.
LEMMA MaxOfBounded ==
    ASSUME NEW n \in Nat, NEW S \in SUBSET (0..n), S # {}
    PROVE  MaxOf(S) \in S /\ \A k \in S : k <= MaxOf(S)
  BY LargestNumber DEF MaxOf

LEMMA VersionsAreNumbers ==
    ASSUME RowsTyped, NEW s \in Scopes
    PROVE  MaxVersions[s] \in Nat /\ profile[s].version \in 0..MaxVersions[s] /\ profile[s].version \in Nat
  <1>1. MaxVersions[s] \in Nat BY KnowledgeAssumption DEF Scopes
  <1>2. profile[s].version \in 0..MaxVersions[s] BY DEF RowsTyped, ProfileRow
  <1> QED BY <1>1, <1>2

LEMMA NextVersionAbove ==
    ASSUME RowsTyped, NEW s \in Scopes
    PROVE  /\ NextVersion(s) \in Nat \ {0} /\ NextVersion(s) > profile[s].version
           /\ \A shot \in snapshots[s] : shot.version < NextVersion(s)
  <1> DEFINE S == Versions(s) \cup {profile[s].version}
             n == MaxVersions[s]
  <1>1. n \in Nat BY KnowledgeAssumption DEF Scopes
  <1>2. profile[s].version \in 0..n BY DEF RowsTyped, ProfileRow
  <1>3. Versions(s) \subseteq 0..n BY <1>1 DEF RowsTyped, Versions, Snapshot
  <1>4. S \in SUBSET (0..n) /\ S # {} BY <1>2, <1>3
  <1> HIDE DEF S, n
  <1>5. MaxOf(S) \in S /\ \A k \in S : k <= MaxOf(S) BY <1>1, <1>4, MaxOfBounded
  <1>6. MaxOf(S) \in Nat
    <2> DEFINE m == MaxOf(S)
    <2>1. m \in S BY <1>5
    <2> HIDE DEF m
    <2>2. m \in Nat BY <1>1, <1>4, <2>1
    <2> QED BY <2>2 DEF m
  <1>7. NextVersion(s) = MaxOf(S) + 1 BY DEF NextVersion, S
  <1>8. \A k \in S : k \in Nat /\ k < NextVersion(s) BY <1>1, <1>4, <1>5, <1>6, <1>7
  <1>9. profile[s].version \in S /\ \A shot \in snapshots[s] : shot.version \in S BY DEF S, Versions
  <1> QED BY <1>6, <1>7, <1>8, <1>9

LEMMA SaveMovesHistory ==
    ASSUME RowsTyped, VersionsStand, RowsAreSaved, NEW s \in Scopes, NEW data \in ProfileData, UpdateProfile(s, data),
           prompt \in PromptRow
    PROVE  HistoryMoves /\ \E shot \in snapshots'[s] : shot.data = data
  <1> DEFINE v == NextVersion(s)
             shot == [version |-> v, data |-> data]
             row == [data |-> data, version |-> v]
  <1>1. v \in Nat \ {0} /\ v > profile[s].version /\ \A k \in snapshots[s] : k.version < v BY NextVersionAbove
  <1>2. v <= MaxVersions[s] /\ profile' = [profile EXCEPT ![s] = row] /\ snapshots' = [snapshots EXCEPT ![s] = @ \cup {shot}]
    BY DEF UpdateProfile
  <1> HIDE DEF v
  <1>3. MaxVersions[s] \in Nat /\ v \in 1..MaxVersions[s] /\ v \in 0..MaxVersions[s]
    BY <1>1, <1>2, VersionsAreNumbers
  <1>4. shot \in Snapshot(s) /\ row \in ProfileRow(s) BY <1>3 DEF Snapshot, ProfileRow
  <1>5. /\ DOMAIN profile' = Scopes /\ DOMAIN snapshots' = Scopes
        /\ profile'[s] = row /\ snapshots'[s] = snapshots[s] \cup {shot}
        /\ \A x \in Scopes : x # s => profile'[x] = profile[x] /\ snapshots'[x] = snapshots[x]
    BY <1>2 DEF RowsTyped
  <1>6. RowsTyped' BY <1>4, <1>5 DEF RowsTyped, Snapshot, ProfileRow
  <1>7. VersionsStand'
    <2> SUFFICES ASSUME NEW x \in Scopes, NEW one \in snapshots'[x], NEW two \in snapshots'[x], one.version = two.version
                 PROVE  one = two
      BY DEF VersionsStand
    <2>1. CASE x # s BY <1>5, <2>1 DEF VersionsStand
    <2>2. CASE x = s
      <3>1. \A k \in snapshots[s] : k.version # shot.version
        <4> SUFFICES ASSUME NEW k \in snapshots[s] PROVE k.version # v
          OBVIOUS
        <4>1. k.version \in Nat BY <1>3 DEF RowsTyped, Snapshot
        <4> QED BY <1>1, <4>1
      <3> QED BY <1>5, <2>2, <3>1 DEF VersionsStand
    <2> QED BY <2>1, <2>2
  <1>8. RowsAreSaved' BY <1>5 DEF RowsAreSaved, Saved
  <1>9. \A x \in Scopes : snapshots[x] \subseteq snapshots'[x] BY <1>5
  <1>10. \E S \in SUBSET ReadScopes : Overtakes(S)
    <2> DEFINE S == {s} \cap ReadScopes
    <2>1. prompt' = [prompt EXCEPT !.overtaken = prompt.overtaken \cup S] BY DEF UpdateProfile, PromptRow
    <2>2. profile[s].version < profile'[s].version
      <3>1. profile[s].version \in Nat BY VersionsAreNumbers
      <3> QED BY <1>1, <1>5, <3>1
    <2>3. \A x \in ReadScopes \ S : profile[x].version = profile'[x].version
      <3>1. ReadScopes \subseteq Scopes BY DEF ReadScopes, Scopes
      <3> QED BY <1>5, <3>1
    <2>4. S \in SUBSET ReadScopes OBVIOUS
    <2>5. Overtakes(S) BY <2>1, <2>2, <2>3 DEF Overtakes
    <2> QED BY <2>4, <2>5
  <1> QED BY <1>5, <1>6, <1>7, <1>8, <1>9, <1>10 DEF HistoryMoves

\* Nothing the prompt waits for moves.
LEMMA PromptRests ==
    ASSUME UNCHANGED prompt, prompt \in PromptRow, \A s \in ReadScopes : profile[s].version = profile'[s].version
    PROVE  \E S \in SUBSET ReadScopes : Overtakes(S)
  <1>1. prompt = [prompt EXCEPT !.overtaken = prompt.overtaken \cup {}] BY DEF PromptRow
  <1>2. Overtakes({}) BY <1>1 DEF Overtakes
  <1> QED BY <1>2

LEMMA HistoryRests ==
    ASSUME RowsTyped, VersionsStand, RowsAreSaved, UNCHANGED <<profile, snapshots, prompt>>, prompt \in PromptRow
    PROVE  HistoryMoves
  <1>1. \E S \in SUBSET ReadScopes : Overtakes(S) BY PromptRests
  <1> QED BY <1>1 DEF HistoryMoves, RowsTyped, VersionsStand, RowsAreSaved, Saved

-----------------------------------------------------------------------------
(* Who moves what                                                           *)

\* A step that moves the history, the memory or a request, and not what the prompt
\* read, keeps all that is promised when every suggestion it promotes is written.
LEMMA HistoryStep ==
    ASSUME KnowInv, HistoryMoves,
           entry' \in [Suggestions -> MemoryStatus], editor' \in [Editors -> EditorRow],
           \A e \in Suggestions : entry'[e] = "promoted" =>
              entry[e] = "promoted" \/ \E shot \in snapshots'[ScopeOf[e]] : Added(shot.data, ItemOf[e]) = shot.data
    PROVE  KnowInv'
  <1>0. /\ KnowTypeOK /\ PromotedIsWritten /\ PromptReadsSaved /\ StampIsExact
        /\ \A e \in Suggestions : ScopeOf[e] \in Scopes
        /\ "" \in Scopes /\ Channel \in Scopes /\ prompt \in PromptRow /\ ReadScopes \subseteq Scopes
    BY KnowledgeAssumption DEF KnowInv, HistoryKept, PromptTraceable, KnowTypeOK, Scopes, ReadScopes
  <1>1. PICK S \in SUBSET ReadScopes : Overtakes(S) BY DEF HistoryMoves
  <1>2. /\ prompt' \in PromptRow /\ prompt'.at = prompt.at /\ prompt'.data = prompt.data /\ prompt'.used = prompt.used
        /\ prompt'.stamp = prompt.stamp /\ prompt'.overtaken = prompt.overtaken \cup S
    BY <1>0, <1>1 DEF Overtakes, PromptRow
  <1>3. KnowTypeOK' BY <1>0, <1>2 DEF KnowTypeOK, HistoryMoves, RowsTyped
  <1>4. PromotedIsWritten' BY <1>0 DEF PromotedIsWritten, HistoryMoves
  <1>5. \A s \in Scopes : Saved(s) \subseteq Saved(s)' BY DEF HistoryMoves, Saved
  <1>6. PromptReadsSaved'
    <2> DEFINE Reads(base, overlay) ==
                  /\ base.version = prompt.used[""] /\ overlay.version = prompt.used[Channel]
                  /\ \A i \in FactIds : prompt.data.facts[i] =
                        IF overlay.data.facts[i] = NoFact THEN base.data.facts[i] ELSE overlay.data.facts[i]
    <2>1. prompt.at = "instance" => [version |-> prompt.used[""], data |-> prompt.data] \in Saved("")'
      BY <1>0, <1>5 DEF PromptReadsSaved
    <2>2. ASSUME prompt.at = "read" PROVE \E base \in Saved("")', overlay \in Saved(Channel)' : Reads(base, overlay)
      <3>1. \E base \in Saved(""), overlay \in Saved(Channel) : Reads(base, overlay) BY <1>0, <2>2 DEF PromptReadsSaved
      <3> HIDE DEF Reads
      <3> QED BY <1>0, <1>5, <3>1
    <2> DEFINE at == prompt.at
               used == prompt.used
               data == prompt.data
    <2>3. prompt'.at = at /\ prompt'.used = used /\ prompt'.data = data BY <1>2
    <2>4. at = "instance" => [version |-> used[""], data |-> data] \in Saved("")' BY <2>1
    <2>5. at = "read" => \E base \in Saved("")', overlay \in Saved(Channel)' :
                  /\ base.version = used[""] /\ overlay.version = used[Channel]
                  /\ \A i \in FactIds : data.facts[i] =
                        IF overlay.data.facts[i] = NoFact THEN base.data.facts[i] ELSE overlay.data.facts[i]
      BY <2>2
    <2> HIDE DEF at, used, data
    <2> QED BY <2>3, <2>4, <2>5, Zenon DEF PromptReadsSaved
  <1>7. StampIsExact'
    <2>1. ReadScopes' = ReadScopes BY <1>2 DEF ReadScopes
    <2>2. prompt'.at \in {"start", "instance"} => prompt'.overtaken \subseteq ReadScopes
      BY <1>0, <1>2 DEF StampIsExact
    <2>3. ASSUME NEW s \in ReadScopes PROVE Names(s, profile[s].version)'
      <3>1. prompt.used[s] \in Nat /\ profile[s].version \in Nat /\ profile'[s].version \in Nat /\ s \in Scopes
        <4>1. s \in Scopes /\ prompt.used[s] \in Nat BY <1>0 DEF PromptRow
        <4>2. profile[s].version \in Nat BY <1>0, <4>1, VersionsAreNumbers DEF KnowTypeOK, RowsTyped
        <4>3. profile'[s].version \in 0..MaxVersions[s] /\ MaxVersions[s] \in Nat
          BY <4>1, KnowledgeAssumption DEF HistoryMoves, RowsTyped, ProfileRow, Scopes
        <4> QED BY <4>1, <4>2, <4>3
      <3>2. Names(s, profile[s].version) BY <1>0 DEF StampIsExact
      <3>3. CASE s \in S
        <4>1. prompt.used[s] <= profile[s].version BY <3>1, <3>2 DEF Names
        <4>2. profile[s].version < profile'[s].version BY <1>1, <3>3 DEF Overtakes
        <4>3. prompt.used[s] < profile'[s].version BY <3>1, <4>1, <4>2
        <4> QED BY <1>2, <3>3, <4>3 DEF Names
      <3>4. CASE s \notin S
        <4>1. profile'[s].version = profile[s].version BY <1>1, <3>4 DEF Overtakes
        <4> QED BY <1>2, <3>2, <3>4, <4>1 DEF Names
      <3> QED BY <3>3, <3>4
    <2>4. ASSUME NEW s \in Scopes
          PROVE  (IF prompt.at = "done" THEN Names(s, prompt.stamp[s]) ELSE prompt.stamp[s] = 0)'
      <3>1. IF prompt.at = "done" THEN Names(s, prompt.stamp[s]) ELSE prompt.stamp[s] = 0 BY <1>0 DEF StampIsExact
      <3>2. CASE prompt.at = "done"
        <4>1. S = {} BY <1>1, <3>2 DEF ReadScopes
        <4> QED BY <1>2, <3>1, <3>2, <4>1 DEF Names
      <3>3. CASE prompt.at # "done" BY <1>2, <3>1, <3>3
      <3> QED BY <3>2, <3>3
    <2> QED BY <1>2, <2>1, <2>2, <2>3, <2>4 DEF StampIsExact
  <1> QED BY <1>3, <1>4, <1>6, <1>7 DEF KnowInv, HistoryKept, PromptTraceable, HistoryMoves

LEMMA AddedIsData ==
    ASSUME NEW e \in Suggestions, NEW data \in ProfileData
    PROVE  Added(data, ItemOf[e]) \in ProfileData /\ Added(Added(data, ItemOf[e]), ItemOf[e]) = Added(data, ItemOf[e])
  <1> DEFINE item == ItemOf[e]
  <1>1. item \in [kind : {"rule"}, id : {""}, value : Rules] \cup [kind : {"fact"}, id : FactIds, value : FactValues]
    BY KnowledgeAssumption
  <1> HIDE DEF item
  <1>2. CASE item.kind = "rule"
    <2>1. item.value \in Rules BY <1>1, <1>2
    <2>2. Added(data, item) = [rules |-> data.rules \cup {item.value}, facts |-> data.facts]
      BY <1>2 DEF Added, ProfileData
    <2>3. Added(data, item) \in ProfileData BY <2>1, <2>2 DEF ProfileData
    <2>4. Added(Added(data, item), item) = [Added(data, item) EXCEPT !.rules = @ \cup {item.value}] BY <1>2 DEF Added
    <2>5. Added(data, item).rules \cup {item.value} = Added(data, item).rules BY <2>2
    <2> QED BY <2>3, <2>4, <2>5 DEF item, ProfileData
  <1>3. CASE item.kind # "rule"
    <2>1. item.id \in FactIds /\ item.value \in FactValues BY <1>1, <1>3
    <2> DEFINE f == [data.facts EXCEPT ![item.id] = item.value]
    <2>2. Added(data, item) = [rules |-> data.rules, facts |-> f] BY <1>3 DEF Added, ProfileData
    <2>3. f \in [FactIds -> FactValues \cup {NoFact}] BY <2>1 DEF ProfileData
    <2>4. [f EXCEPT ![item.id] = item.value] = f BY <2>1 DEF ProfileData
    <2> HIDE DEF f
    <2>5. Added(data, item) \in ProfileData BY <2>2, <2>3 DEF ProfileData
    <2>6. Added(Added(data, item), item) = [rules |-> data.rules, facts |-> [f EXCEPT ![item.id] = item.value]]
      BY <1>3, <2>2 DEF Added
    <2> QED BY <2>2, <2>4, <2>5, <2>6 DEF item
  <1> QED BY <1>2, <1>3

LEMMA ChangedIsData == ASSUME NEW data \in ProfileData PROVE Changed(data) \subseteq ProfileData
  <1> SUFFICES ASSUME NEW d \in Changed(data) PROVE d \in ProfileData
    OBVIOUS
  <1>1. CASE d = [data EXCEPT !.rules = {}] BY <1>1 DEF ProfileData
  <1>2. ASSUME NEW i \in FactIds, NEW v \in FactValues \cup {NoFact}, d = [data EXCEPT !.facts[i] = v]
        PROVE  d \in ProfileData
    BY <1>2 DEF ProfileData
  <1> QED BY <1>1, <1>2 DEF Changed

LEMMA InvParts ==
    ASSUME KnowInv
    PROVE  /\ RowsTyped /\ VersionsStand /\ RowsAreSaved
           /\ entry \in [Suggestions -> MemoryStatus] /\ editor \in [Editors -> EditorRow] /\ prompt \in PromptRow
           /\ \A s \in Scopes : profile[s].data \in ProfileData /\ \A shot \in snapshots[s] : shot.data \in ProfileData
           /\ \A e \in Suggestions : ScopeOf[e] \in Scopes
  BY KnowledgeAssumption DEF KnowInv, HistoryKept, KnowTypeOK, RowsTyped, ProfileRow, Snapshot, Scopes

\* A request writes back what it read, changed in one place.
LEMMA OperatorActions ==
    ASSUME KnowInv, NEW r \in Editors,
           \/ \E s \in Scopes : Retrieve(r, s)
           \/ \E e \in Suggestions : LoadEntry(r, e)
           \/ Update(r) \/ SetStatus(r)
    PROVE  KnowInv'
  <1>0. \A row \in EditorRow : [editor EXCEPT ![r] = row] \in [Editors -> EditorRow] BY InvParts
  <1>1. NoRequest \in EditorRow BY DEF EditorRow
  <1>2. ASSUME NEW s \in Scopes, Retrieve(r, s) PROVE KnowInv'
    <2>1. HistoryMoves BY <1>2, InvParts, HistoryRests DEF Retrieve
    <2>2. [on |-> "profile", scope |-> s, data |-> profile[s].data] \in EditorRow BY InvParts DEF EditorRow
    <2>3. editor' \in [Editors -> EditorRow] BY <1>0, <1>2, <2>2 DEF Retrieve
    <2> QED BY <1>2, <2>1, <2>3, InvParts, HistoryStep DEF Retrieve
  <1>3. ASSUME NEW e \in Suggestions, LoadEntry(r, e) PROVE KnowInv'
    <2>1. HistoryMoves BY <1>3, InvParts, HistoryRests DEF LoadEntry
    <2>2. [on |-> "entry", entry |-> e, status |-> entry[e]] \in EditorRow BY InvParts DEF EditorRow
    <2>3. editor' \in [Editors -> EditorRow] BY <1>0, <1>3, <2>2 DEF LoadEntry
    <2> QED BY <1>3, <2>1, <2>3, InvParts, HistoryStep DEF LoadEntry
  <1>4. CASE Update(r)
    <2>1. editor[r].on = "profile" /\ editor[r] \in EditorRow BY <1>4, InvParts DEF Update
    <2>2. editor[r].scope \in Scopes /\ editor[r].data \in ProfileData BY <2>1 DEF EditorRow, NoRequest
    <2>3. PICK data \in Changed(editor[r].data) : UpdateProfile(editor[r].scope, data) BY <1>4 DEF Update
    <2>4. data \in ProfileData BY <2>2, ChangedIsData
    <2>5. HistoryMoves BY <2>2, <2>3, <2>4, InvParts, SaveMovesHistory
    <2>6. editor' \in [Editors -> EditorRow] BY <1>0, <1>1, <1>4 DEF Update
    <2>7. entry' = entry BY <1>4 DEF Update
    <2> QED BY <2>5, <2>6, <2>7, InvParts, HistoryStep
  <1>5. CASE SetStatus(r)
    <2>1. HistoryMoves BY <1>5, InvParts, HistoryRests DEF SetStatus
    <2>2. editor' \in [Editors -> EditorRow] BY <1>0, <1>1, <1>5 DEF SetStatus
    <2>3. editor[r].on = "entry" /\ editor[r] \in EditorRow /\ SaveStatus(r) BY <1>5, InvParts DEF SetStatus
    <2>4. editor[r].entry \in Suggestions BY <2>3 DEF EditorRow, NoRequest
    <2>5. entry' = entry \/ \E status \in {"active", "dismissed"} : entry' = [entry EXCEPT ![editor[r].entry] = status]
      BY <2>3 DEF SaveStatus
    <2>6. entry' \in [Suggestions -> MemoryStatus] /\ \A e \in Suggestions : entry'[e] = "promoted" => entry[e] = "promoted"
      BY <2>4, <2>5, InvParts DEF MemoryStatus
    <2> QED BY <2>1, <2>2, <2>6, HistoryStep
  <1> QED BY <1>2, <1>3, <1>4, <1>5

\* The history of a scope: an older snapshot saved anew, or loaded over the row.
LEMMA ScopeActions ==
    ASSUME KnowInv, NEW s \in Scopes, Restore(s) \/ Reload(s) PROVE KnowInv'
  <1>1. CASE Restore(s)
    <2>1. PICK shot \in snapshots[s] : UpdateProfile(s, shot.data) BY <1>1 DEF Restore, RestoreVersion
    <2>2. shot.data \in ProfileData BY InvParts
    <2>3. HistoryMoves BY <2>1, <2>2, InvParts, SaveMovesHistory
    <2> QED BY <1>1, <2>3, InvParts, HistoryStep DEF Restore
  <1>2. CASE Reload(s)
    <2>1. PICK shot \in snapshots[s] : profile' = [profile EXCEPT ![s] = [data |-> shot.data, version |-> shot.version]]
      BY <1>2 DEF Reload
    <2>2. UNCHANGED <<snapshots, entry, editor, prompt>> /\ ReadScopes = {} BY <1>2 DEF Reload
    <2>3. shot \in Snapshot(s) /\ shot = [version |-> shot.version, data |-> shot.data]
      BY InvParts DEF RowsTyped, Snapshot
    <2>4. [data |-> shot.data, version |-> shot.version] \in ProfileRow(s)
      BY <2>3, VersionsAreNumbers, InvParts DEF Snapshot, ProfileRow
    <2>5. /\ DOMAIN profile' = Scopes
          /\ profile'[s] = [data |-> shot.data, version |-> shot.version]
          /\ \A x \in Scopes : x # s => profile'[x] = profile[x]
      BY <2>1, InvParts DEF RowsTyped
    <2>6. RowsTyped' BY <2>2, <2>4, <2>5, InvParts DEF RowsTyped, ProfileRow, Snapshot
    <2>7. VersionsStand' BY <2>2, InvParts DEF VersionsStand
    <2>8. RowsAreSaved' BY <2>2, <2>3, <2>5, InvParts DEF RowsAreSaved, Saved
    <2>9. \E S \in SUBSET ReadScopes : Overtakes(S) BY <2>2, InvParts, PromptRests
    <2>10. HistoryMoves BY <2>2, <2>6, <2>7, <2>8, <2>9 DEF HistoryMoves
    <2> QED BY <2>2, <2>10, InvParts, HistoryStep
  <1> QED BY <1>1, <1>2

\* The memory: what is promoted is in the snapshot that the promotion saves.
LEMMA MemoryActions ==
    ASSUME KnowInv, NEW e \in Suggestions, Suggest(e) \/ Promote(e) \/ DeleteEntry(e) PROVE KnowInv'
  <1>1. CASE Suggest(e)
    <2>1. HistoryMoves BY <1>1, InvParts, HistoryRests DEF Suggest
    <2>2. entry' \in [Suggestions -> MemoryStatus] /\ \A d \in Suggestions : entry'[d] = "promoted" => entry[d] = "promoted"
      BY <1>1, InvParts DEF Suggest, MemoryStatus
    <2> QED BY <1>1, <2>1, <2>2, InvParts, HistoryStep DEF Suggest
  <1>2. CASE DeleteEntry(e)
    <2>1. HistoryMoves BY <1>2, InvParts, HistoryRests DEF DeleteEntry
    <2>2. entry' \in [Suggestions -> MemoryStatus] /\ \A d \in Suggestions : entry'[d] = "promoted" => entry[d] = "promoted"
      BY <1>2, InvParts DEF DeleteEntry, MemoryStatus
    <2> QED BY <1>2, <2>1, <2>2, InvParts, HistoryStep DEF DeleteEntry
  <1>3. CASE Promote(e)
    <2> DEFINE s == ScopeOf[e]
               data == Added(profile[s].data, ItemOf[e])
    <2>1. s \in Scopes /\ profile[s].data \in ProfileData BY InvParts
    <2>2. data \in ProfileData /\ Added(data, ItemOf[e]) = data BY <2>1, AddedIsData
    <2>3. /\ UpdateProfile(s, data) /\ entry' = [entry EXCEPT ![e] = "promoted"] /\ editor' = editor
      BY <1>3 DEF Promote, PromoteEntry, TargetScope
    <2> HIDE DEF data, s
    <2>4. HistoryMoves /\ \E shot \in snapshots'[s] : shot.data = data BY <2>1, <2>2, <2>3, InvParts, SaveMovesHistory
    <2>5. \E shot \in snapshots'[s] : Added(shot.data, ItemOf[e]) = shot.data BY <2>2, <2>4
    <2>6. entry' \in [Suggestions -> MemoryStatus]
          /\ \A d \in Suggestions : entry'[d] = "promoted" => entry[d] = "promoted" \/ d = e
      BY <2>3, InvParts DEF MemoryStatus
    <2> QED BY <2>3, <2>4, <2>5, <2>6, InvParts, HistoryStep DEF s
  <1> QED BY <1>1, <1>2, <1>3

\* A read of the prompt: the history, the memory and the requests rest.
LEMMA PromptStep ==
    ASSUME KnowInv, UNCHANGED <<profile, snapshots, entry, editor>>, prompt' \in PromptRow,
           PromptReadsSaved', StampIsExact'
    PROVE  KnowInv'
  BY DEF KnowInv, HistoryKept, KnowTypeOK, VersionsStand, RowsAreSaved, Saved, PromotedIsWritten, PromptTraceable

LEMMA MergedIsData ==
    ASSUME NEW base \in ProfileData, NEW overlay \in ProfileData
    PROVE  /\ MergedSections(base, overlay) \in ProfileData
           /\ \A i \in FactIds : MergedSections(base, overlay).facts[i] =
                IF overlay.facts[i] = NoFact THEN base.facts[i] ELSE overlay.facts[i]
  BY DEF MergedSections, ProfileData

LEMMA PromptActions ==
    ASSUME KnowInv, ReadInstance \/ ReadOverlay \/ RecordUse \/ ProfileBlank PROVE KnowInv'
  <1> DEFINE p == prompt
             q == prompt'
  <1>0. /\ p \in PromptRow /\ "" \in Scopes /\ Channel \in Scopes /\ Channel # "" /\ Scopes = {"", Channel}
        /\ PromptReadsSaved /\ StampIsExact /\ RowsAreSaved
        /\ \A s \in Scopes : profile[s].version \in Nat
    BY InvParts, VersionsAreNumbers, KnowledgeAssumption DEF KnowInv, HistoryKept, PromptTraceable, Scopes
  <1>1. CASE ReadInstance
    <2>1. /\ q = [p EXCEPT !.at = "instance", !.data = profile[""].data, !.used[""] = profile[""].version]
          /\ p.at = "start" /\ UNCHANGED <<profile, snapshots, entry, editor>>
      BY <1>1 DEF ReadInstance
    <2>2. q \in PromptRow BY <1>0, <2>1, InvParts DEF PromptRow
    <2>3. /\ q.at = "instance" /\ q.data = profile[""].data /\ q.used[""] = profile[""].version
          /\ q.overtaken = p.overtaken /\ q.stamp = p.stamp
      BY <1>0, <2>1 DEF PromptRow
    <2>4. p.overtaken = {} /\ \A s \in Scopes : p.stamp[s] = 0 BY <1>0, <2>1 DEF StampIsExact, ReadScopes
    <2>5. PromptReadsSaved' BY <1>0, <2>1, <2>3 DEF PromptReadsSaved, RowsAreSaved, Saved
    <2>6. StampIsExact'
      <3>1. ReadScopes' = {""} BY <2>3 DEF ReadScopes
      <3>2. Names("", profile[""].version)' BY <2>1, <2>3, <2>4 DEF Names
      <3> QED BY <2>3, <2>4, <3>1, <3>2 DEF StampIsExact
    <2> QED BY <2>1, <2>2, <2>5, <2>6, PromptStep
  <1>2. CASE ReadOverlay
    <2> DEFINE o == profile[Channel]
               d == MergedSections(p.data, o.data)
    <2>1. /\ q = [p EXCEPT !.at = "read", !.used[Channel] = o.version, !.data = d]
          /\ p.at = "instance" /\ UNCHANGED <<profile, snapshots, entry, editor>>
      BY <1>2 DEF ReadOverlay
    <2>2. p.data \in ProfileData /\ o.data \in ProfileData /\ o.version \in Nat BY <1>0, InvParts DEF PromptRow
    <2>3. d \in ProfileData
          /\ \A i \in FactIds : d.facts[i] = IF o.data.facts[i] = NoFact THEN p.data.facts[i] ELSE o.data.facts[i]
      BY <2>2, MergedIsData
    <2>4. [version |-> o.version, data |-> o.data] \in Saved(Channel) /\ [version |-> p.used[""], data |-> p.data] \in Saved("")
      BY <1>0, <2>1 DEF RowsAreSaved, PromptReadsSaved
    <2> HIDE DEF d, o
    <2>5. q \in PromptRow BY <1>0, <2>1, <2>2, <2>3 DEF PromptRow
    <2>6. /\ q.at = "read" /\ q.data = d /\ q.used[Channel] = o.version /\ q.used[""] = p.used[""]
          /\ q.overtaken = p.overtaken /\ q.stamp = p.stamp
      BY <1>0, <2>1 DEF PromptRow
    <2>7. PromptReadsSaved'
      <3> DEFINE base == [version |-> p.used[""], data |-> p.data]
                 over == [version |-> o.version, data |-> o.data]
      <3>1. base.version = q.used[""] /\ over.version = q.used[Channel] BY <2>6
      <3>2. \A i \in FactIds : q.data.facts[i] = IF over.data.facts[i] = NoFact THEN base.data.facts[i] ELSE over.data.facts[i]
        BY <2>3, <2>6
      <3>3. Saved("")' = Saved("") /\ Saved(Channel)' = Saved(Channel) BY <2>1 DEF Saved
      <3> HIDE DEF base, over
      <3>4. base \in Saved("") /\ over \in Saved(Channel) BY <2>4 DEF base, over
      <3>9. base \in Saved("")' /\ over \in Saved(Channel)' BY <3>3, <3>4
      <3>5. \E b \in Saved("")', c \in Saved(Channel)' :
              /\ b.version = q.used[""] /\ c.version = q.used[Channel]
              /\ \A i \in FactIds : q.data.facts[i] = IF c.data.facts[i] = NoFact THEN b.data.facts[i] ELSE c.data.facts[i]
        BY <3>1, <3>2, <3>9, Zenon
      <3> HIDE DEF p, q
      <3> QED BY <2>6, <3>5 DEF PromptReadsSaved, q
    <2>8. StampIsExact'
      <3>1. ReadScopes' = Scopes /\ ReadScopes = {""} BY <2>1, <2>6 DEF ReadScopes
      <3>2. Names("", profile[""].version) /\ Channel \notin p.overtaken /\ \A s \in Scopes : p.stamp[s] = 0
        BY <1>0, <2>1, <3>1 DEF StampIsExact
      <3>3. Names("", profile[""].version)' BY <2>1, <2>6, <3>2 DEF Names
      <3>4. Names(Channel, profile[Channel].version)' BY <2>1, <2>6, <3>2 DEF Names, o
      <3>5. \A s \in Scopes : Names(s, profile[s].version)' BY <1>0, <3>3, <3>4
      <3> QED BY <2>6, <3>1, <3>2, <3>5 DEF StampIsExact
    <2> QED BY <2>1, <2>5, <2>7, <2>8, PromptStep
  <1>3. CASE RecordUse
    <2> DEFINE stamps == [s \in Scopes |-> profile[s].version]
    <2>1. /\ q = [p EXCEPT !.at = "done", !.data = EmptyData, !.stamp = stamps]
          /\ p.at = "read" /\ UNCHANGED <<profile, snapshots, entry, editor>>
      BY <1>3 DEF RecordUse, Stamp
    <2>2. stamps \in [Scopes -> Nat] /\ EmptyData \in ProfileData BY <1>0 DEF EmptyData, ProfileData
    <2>3. \A s \in Scopes : stamps[s] = profile[s].version /\ Names(s, profile[s].version)
      BY <1>0, <2>1 DEF StampIsExact, ReadScopes
    <2> HIDE DEF stamps
    <2>4. q \in PromptRow /\ q.at = "done" /\ q.stamp = stamps /\ q.used = p.used /\ q.overtaken = p.overtaken
      BY <1>0, <2>1, <2>2 DEF PromptRow
    <2>5. PromptReadsSaved' BY <2>4 DEF PromptReadsSaved
    <2>6. StampIsExact' BY <2>3, <2>4 DEF StampIsExact, Names, ReadScopes
    <2> QED BY <2>1, <2>4, <2>5, <2>6, PromptStep
  <1>4. CASE ProfileBlank
    <2>1. /\ q = [p EXCEPT !.at = "blank", !.data = EmptyData]
          /\ p.at = "read" /\ UNCHANGED <<profile, snapshots, entry, editor>>
      BY <1>4 DEF ProfileBlank
    <2>2. EmptyData \in ProfileData BY <1>0 DEF EmptyData, ProfileData
    <2>3. q \in PromptRow /\ q.at = "blank" /\ q.stamp = p.stamp BY <1>0, <2>1, <2>2 DEF PromptRow
    <2>4. PromptReadsSaved' BY <2>3 DEF PromptReadsSaved
    <2>5. \A s \in Scopes : p.stamp[s] = 0 BY <1>0, <2>1 DEF StampIsExact
    <2>6. StampIsExact' BY <2>3, <2>5 DEF StampIsExact, ReadScopes
    <2> QED BY <2>1, <2>3, <2>4, <2>6, PromptStep
  <1> QED BY <1>1, <1>2, <1>3, <1>4

-----------------------------------------------------------------------------
LEMMA InitSound == KnowInit => KnowInv
  <1> SUFFICES ASSUME KnowInit PROVE KnowInv
    OBVIOUS
  <1>1. EmptyData \in ProfileData BY DEF EmptyData, ProfileData
  <1>2. \A s \in Scopes : profile[s] = [data |-> EmptyData, version |-> 0] /\ snapshots[s] = {} BY DEF KnowInit
  <1>3. \A s \in Scopes : MaxVersions[s] \in Nat BY KnowledgeAssumption DEF Scopes
  <1>4. prompt = NoPrompt /\ prompt \in PromptRow BY <1>1 DEF KnowInit, NoPrompt, PromptRow
  <1>5. KnowTypeOK
    <2>1. entry \in [Suggestions -> MemoryStatus] BY DEF KnowInit, MemoryStatus
    <2>2. editor \in [Editors -> EditorRow] BY DEF KnowInit, EditorRow
    <2>3. \A s \in Scopes : profile[s] \in ProfileRow(s) /\ snapshots[s] \subseteq Snapshot(s)
      BY <1>1, <1>2, <1>3 DEF ProfileRow
    <2> QED BY <1>4, <2>1, <2>2, <2>3 DEF KnowTypeOK, KnowInit
  <1>6. VersionsStand /\ RowsAreSaved BY <1>2 DEF VersionsStand, RowsAreSaved, Saved
  <1>7. PromotedIsWritten BY DEF PromotedIsWritten, KnowInit
  <1>8. PromptReadsSaved BY <1>4 DEF PromptReadsSaved, NoPrompt
  <1>9. StampIsExact BY <1>4 DEF StampIsExact, NoPrompt, ReadScopes
  <1> QED BY <1>5, <1>6, <1>7, <1>8, <1>9 DEF KnowInv, HistoryKept, PromptTraceable

LEMMA StepSound == KnowInv /\ [KnowNext]_knowVars => KnowInv'
  <1> SUFFICES ASSUME KnowInv, [KnowNext]_knowVars PROVE KnowInv'
    OBVIOUS
  <1>1. CASE KnowNext
    <2>1. ASSUME NEW r \in Editors, NEW s \in Scopes, Retrieve(r, s) PROVE KnowInv' BY <2>1, OperatorActions
    <2>2. ASSUME NEW r \in Editors, Update(r) \/ SetStatus(r) PROVE KnowInv' BY <2>2, OperatorActions
    <2>3. ASSUME NEW s \in Scopes, Restore(s) \/ Reload(s) PROVE KnowInv' BY <2>3, ScopeActions
    <2>4. ASSUME NEW e \in Suggestions, Suggest(e) \/ Promote(e) \/ DeleteEntry(e) PROVE KnowInv' BY <2>4, MemoryActions
    <2>5. ASSUME NEW r \in Editors, NEW e \in Suggestions, LoadEntry(r, e) PROVE KnowInv' BY <2>5, OperatorActions
    <2>6. CASE ReadInstance \/ ReadOverlay \/ RecordUse \/ ProfileBlank BY <2>6, PromptActions
    <2> QED BY <1>1, <2>1, <2>2, <2>3, <2>4, <2>5, <2>6 DEF KnowNext
  <1>2. CASE UNCHANGED knowVars
    <2>1. HistoryMoves BY <1>2, InvParts, HistoryRests DEF knowVars
    <2> QED BY <1>2, <2>1, InvParts, HistoryStep DEF knowVars
  <1> QED BY <1>1, <1>2

\* The history of the profile is never rewritten: a number stands for one
\* content, what a scope shows is saved under its number, and what was promoted
\* is in a snapshot, however saves, restores, reloads and promotions overlap
\* (profile_service.save_profile, memory_promotion.promote).
THEOREM HistoryIsKept == KnowSpec => []HistoryKept
  <1>1. KnowSpec => []KnowInv BY InitSound, StepSound, PTL DEF KnowSpec
  <1>2. KnowInv => HistoryKept BY DEF KnowInv
  <1> QED BY <1>1, <1>2, PTL

\* What a prompt was told is made of saved versions, and its stamp names those
\* versions, save for a scope that was saved between its read and the stamp: for
\* that one it names a later version (profile_service.merged, record_use).
THEOREM PromptsAreTraceable == KnowSpec => []PromptTraceable
  <1>1. KnowSpec => []KnowInv BY InitSound, StepSound, PTL DEF KnowSpec
  <1>2. KnowInv => PromptTraceable BY DEF KnowInv
  <1> QED BY <1>1, <1>2, PTL

-----------------------------------------------------------------------------
(* Distinct and the lists of rules                                           *)

\* Distinct keeps the members and drops the repetitions.
LEMMA DistinctIs ==
    ASSUME NEW S, NEW rules \in Seq(S)
    PROVE  /\ Distinct(rules) \in Seq(S) /\ Len(Distinct(rules)) <= Len(rules)
           /\ IsInjective(Distinct(rules))
           /\ \A x : Contains(Distinct(rules), x) <=> Contains(rules, x)
  <1>1. /\ OnceEach(rules) \in Seq(S) /\ Len(OnceEach(rules)) <= Len(rules)
        /\ IsInjective(OnceEach(rules))
        /\ \A x : Contains(OnceEach(rules), x) <=> Contains(rules, x)
    BY ONLY rules \in Seq(S), OnceEachIs, Zenon
  <1> QED BY <1>1, Zenon DEF Distinct

\* Lists of at most MaxRules rules are what the limit lets through.
LEMMA RuleListIs ==
    ASSUME NEW rules
    PROVE  rules \in RuleLists <=> rules \in Seq(Sentences) /\ Len(rules) <= MaxRules
  <1>1. MaxRules \in Nat BY RuleLayersAssumption
  <1>2. ASSUME rules \in Seq(Sentences), Len(rules) <= MaxRules PROVE rules \in RuleLists
    <2>1. rules \in [1..Len(rules) -> Sentences] /\ Len(rules) \in 0..MaxRules BY <1>1, <1>2
    <2> QED BY <2>1 DEF RuleLists
  <1>3. ASSUME rules \in RuleLists PROVE rules \in Seq(Sentences) /\ Len(rules) <= MaxRules
    <2>1. PICK n \in 0..MaxRules : rules \in [1..n -> Sentences] BY <1>3 DEF RuleLists
    <2> QED BY <1>1, <2>1
  <1> QED BY <1>2, <1>3

\* A list with one more rule: the others, and that one.
LEMMA WithRuleIs ==
    ASSUME NEW rules \in RuleLists, NEW rule \in Sentences
    PROVE  /\ WithRule(rules, rule) \in Seq(Sentences) /\ Len(WithRule(rules, rule)) <= Len(Append(rules, rule))
           /\ IsInjective(WithRule(rules, rule))
           /\ \A x : Contains(WithRule(rules, rule), x) <=> (Contains(rules, x) \/ x = rule)
  <1>1. rules \in Seq(Sentences) BY RuleListIs
  <1>2. Append(rules, rule) \in Seq(Sentences) BY <1>1
  <1>3. \A x : Contains(Append(rules, rule), x) <=> (Contains(rules, x) \/ x = rule) BY <1>1 DEF Contains
  <1> DEFINE longer == Append(rules, rule)
  <1>4. /\ Distinct(longer) \in Seq(Sentences) /\ Len(Distinct(longer)) <= Len(longer)
        /\ IsInjective(Distinct(longer))
        /\ \A x : Contains(Distinct(longer), x) <=> Contains(longer, x)
    <2>1. longer \in Seq(Sentences) BY <1>2
    <2> HIDE DEF longer
    <2> QED BY ONLY <2>1, DistinctIs, Zenon
  <1> QED BY <1>3, <1>4, Zenon DEF WithRule

-----------------------------------------------------------------------------
(* The inductive invariant                                                   *)

WorkerRow == {r \in [rules : RuleLists, model : Models, version : 1..MaxVersion] : IsInjective(r.rules)}
TemplateRow == {r \in [kept : BOOLEAN, active : BOOLEAN, rules : RuleLists, params : TemplateParams] : IsInjective(r.rules)}
Copy(name, rows) == [on : {name}, row : rows, rule : SUBSET Sentences, bumped : BOOLEAN, stale : BOOLEAN, behind : BOOLEAN]
WorkerCopy == Copy("worker", WorkerRow)
TemplateCopy == Copy("template", TemplateRow)
LayersTyped ==
    /\ worker \in WorkerRow /\ template \in TemplateRow /\ ownRules \in RuleLists
    /\ writer \in [Writers -> {IdleWriter} \cup WorkerCopy \cup TemplateCopy]
    /\ \A c \in calibrations : c.version \in 1..MaxVersion
    /\ promoted \in SUBSET ({"worker", "template"} \X Sentences)

\* A copy that promotes a rule keeps all that the row has.
Covers(rules, old, rule) == rule # {} => \A x \in Sentences : Contains(old, x) => Contains(rules, x)
\* The version a copy will be saved with, once its version was settled.
CopyVersion(copy) == IF copy.bumped /\ Recalibrated(worker, copy.row) THEN worker.version + 1 ELSE worker.version
\* A copy has the rule it promotes; it is of the row as it stands unless the
\* row was saved under it, and so is its version.
Current(copy) ==
    /\ copy.on = "worker" => /\ \A x \in copy.rule : Contains(copy.row.rules, x)
                             /\ ~copy.stale => Covers(copy.row.rules, worker.rules, copy.rule)
                             /\ ~copy.behind => copy.row.version = CopyVersion(copy)
    /\ copy.on = "template" => /\ copy.row.kept /\ \A x \in copy.rule : Contains(copy.row.rules, x)
                               /\ ~copy.stale => Covers(copy.row.rules, template.rules, copy.rule)
Copies == \A w \in Writers : Current(writer[w])
PromotionsStand ==
    \A p \in promoted : (p[1] = "worker" => Contains(worker.rules, p[2])) /\ (p[1] = "template" => template.kept /\ Contains(template.rules, p[2]))
Calibrated == Calibration(worker) \in calibrations /\ \A c \in calibrations : c.version <= worker.version
Numbered == Calibrated /\ VersionComparable
LayersInv == LayersTyped /\ PresetOfOperation /\ Copies /\ PromotionsStand /\ (raced = TRUE \/ Numbered)

LEMMA NoRulesAreRules == <<>> \in RuleLists /\ IsInjective(<<>>)
  <1>1. <<>> \in Seq(Sentences) /\ Len(<<>>) = 0 /\ 0 <= MaxRules BY RuleLayersAssumption
  <1>2. Len(<<>>) <= MaxRules BY <1>1
  <1>3. IsInjective(<<>>) BY DEF IsInjective
  <1> QED BY <1>1, <1>2, <1>3, RuleListIs

\* What one of three lists has is in the three joined.
LEMMA JoinedContains ==
    ASSUME NEW S, NEW one \in Seq(S), NEW two \in Seq(S), NEW three \in Seq(S)
    PROVE  \A x : Contains(two, x) \/ Contains(three, x) => Contains(one \o two \o three, x)
  <1>1. ASSUME NEW a \in Seq(S), NEW b \in Seq(S) PROVE \A x : (Contains(a, x) => Contains(a \o b, x)) /\ (Contains(b, x) => Contains(a \o b, x))
    <2>1. ASSUME NEW x, Contains(a, x) PROVE Contains(a \o b, x)
      <3>1. PICK i \in 1..Len(a) : a[i] = x BY <2>1 DEF Contains
      <3>2. i \in 1..Len(a \o b) /\ (a \o b)[i] = a[i] OBVIOUS
      <3> QED BY <3>1, <3>2 DEF Contains
    <2>2. ASSUME NEW x, Contains(b, x) PROVE Contains(a \o b, x)
      <3>1. PICK i \in 1..Len(b) : b[i] = x BY <2>2 DEF Contains
      <3>2. Len(a) + i \in 1..Len(a \o b) /\ (a \o b)[Len(a) + i] = b[i] OBVIOUS
      <3> QED BY <3>1, <3>2 DEF Contains
    <2> QED BY <2>1, <2>2
  <1>2. one \o two \in Seq(S) OBVIOUS
  <1> QED BY <1>1, <1>2

LEMMA NoParamsAreParams == NoParams \in TemplateParams
  <1>1. PICK empty : empty = "" OBVIOUS
  <1>2. NoParams = [operation |-> empty, preset |-> empty, rules |-> <<>>] BY <1>1, Zenon DEF NoParams
  <1> HIDE <1>1
  <1>3. [NoParams EXCEPT !.rules = <<>>] = NoParams BY <1>2
  <1>4. [NoParams EXCEPT !.rules = <<>>] \in TextParams BY DEF TextParams
  <1> QED BY <1>3, <1>4 DEF TemplateParams

LEMMA LayersInvInit == LayersInit => LayersInv
  <1> SUFFICES ASSUME LayersInit PROVE LayersInv OBVIOUS
  <1>1. <<>> \in RuleLists /\ IsInjective(<<>>) BY NoRulesAreRules
  <1>2. "" \in Models BY DEF Models
  <1>3. 1 \in 1..MaxVersion BY RuleLayersAssumption
  <1>4. PICK empty : empty = "" OBVIOUS
  <1>5. /\ worker = [rules |-> <<>>, model |-> empty, version |-> 1]
        /\ template = [kept |-> FALSE, active |-> TRUE, rules |-> <<>>, params |-> NoParams]
        /\ ownRules = <<>> /\ writer = [w \in Writers |-> IdleWriter]
        /\ calibrations = {Calibration(worker)} /\ promoted = {}
    BY <1>4, Zenon DEF LayersInit
  <1>6. worker \in WorkerRow /\ template \in TemplateRow
    <2>1. empty \in Models BY <1>2, <1>4, Zenon
    <2> HIDE <1>2, <1>4
    <2>2. worker \in WorkerRow BY <1>1, <1>3, <1>5, <2>1 DEF WorkerRow
    <2>3. template \in TemplateRow BY <1>1, <1>5, NoParamsAreParams DEF TemplateRow
    <2> QED BY <2>2, <2>3
  <1>7. LayersTyped BY <1>1, <1>3, <1>5, <1>6 DEF LayersTyped, Calibration
  <1>8. PresetOfOperation BY Zenon DEF LayersInit, NoTask, NoParams, PresetOfOperation
  <1>9. Copies BY <1>5 DEF Copies, Current, IdleWriter
  <1>10. PromotionsStand BY <1>5 DEF PromotionsStand
  <1>11. Numbered BY <1>5 DEF Numbered, Calibrated, Calibration, VersionComparable
  <1> QED BY <1>7, <1>8, <1>9, <1>10, <1>11 DEF LayersInv

\* What neither the task nor the row of the worker nor its calibrations change.
LEMMA RestKeeps ==
    ASSUME LayersInv, UNCHANGED <<worker, task, calibrations, raced>>
    PROVE  PresetOfOperation' /\ (raced = TRUE \/ Numbered)'
  <1>1. PresetOfOperation' BY Zenon DEF LayersInv, PresetOfOperation
  <1>2. ASSUME Numbered PROVE Numbered' BY <1>2 DEF Numbered, Calibrated, Calibration, VersionComparable
  <1> QED BY <1>1, <1>2 DEF LayersInv

\* A request that takes a copy of the row as it stands.
LEMMA HoldsKeeps ==
    ASSUME LayersInv, NEW w \in Writers, NEW copy \in WorkerCopy \cup TemplateCopy, Holds(w, copy), Current(copy)
    PROVE  LayersInv'
  <1>1. /\ writer' = [writer EXCEPT ![w] = copy]
        /\ UNCHANGED <<worker, template, ownRules, task, calibrations, promoted, raced>>
    BY DEF Holds
  <1>2. LayersTyped' BY <1>1 DEF LayersInv, LayersTyped
  <1>3. Copies'
    <2>1. SUFFICES ASSUME NEW v \in Writers PROVE Current(writer[v])' BY DEF Copies
    <2>2. writer'[v] = writer[v] \/ writer'[v] = copy BY <1>1 DEF LayersInv, LayersTyped
    <2>3. Current(writer[v]) BY DEF LayersInv, Copies
    <2> QED BY <1>1, <2>2, <2>3 DEF Current, Covers, CopyVersion, Recalibrated
  <1>4. PromotionsStand' BY <1>1 DEF LayersInv, PromotionsStand
  <1> QED BY <1>1, <1>2, <1>3, <1>4, RestKeeps DEF LayersInv

LEMMA PromoteToWorkerKeeps ==
    ASSUME LayersInv, NEW w \in Writers, NEW rule \in Sentences, PromoteToWorker(w, rule)
    PROVE  LayersInv'
  <1> DEFINE new == WithRule(worker.rules, rule)
             row == [worker EXCEPT !.rules = new]
             copy == CopyOf("worker", row, {rule})
  <1>1. worker \in WorkerRow /\ worker.rules \in RuleLists BY DEF LayersInv, LayersTyped, WorkerRow
  <1>2. Len(Append(worker.rules, rule)) <= MaxRules /\ Holds(w, copy) BY DEF PromoteToWorker, ValidRules
  <1>3. /\ new \in Seq(Sentences) /\ Len(new) <= Len(Append(worker.rules, rule)) /\ IsInjective(new)
        /\ \A x : Contains(new, x) <=> (Contains(worker.rules, x) \/ x = rule)
    BY <1>1, WithRuleIs, Zenon
  <1> HIDE DEF new
  <1>4. new \in RuleLists
    <2>1. Len(new) \in Nat /\ Len(Append(worker.rules, rule)) \in Nat /\ MaxRules \in Nat
      <3>1. worker.rules \in Seq(Sentences) BY <1>1, RuleListIs
      <3> QED BY <1>3, <3>1, RuleLayersAssumption
    <2>2. Len(new) <= MaxRules BY <1>2, <1>3, <2>1
    <2> QED BY <1>3, <2>2, RuleListIs
  <1>5. row \in WorkerRow /\ row.rules = new /\ row.version = worker.version BY <1>1, <1>3, <1>4 DEF WorkerRow
  <1> HIDE DEF row
  <1>6. copy \in WorkerCopy /\ copy.on = "worker" /\ copy.row = row /\ copy.bumped = FALSE /\ copy.rule = {rule}
    BY <1>5 DEF copy, CopyOf, WorkerCopy, Copy
  <1> HIDE DEF copy
  <1>7. Current(copy)
    <2>1. Covers(new, worker.rules, {rule}) /\ Contains(new, rule) BY <1>3 DEF Covers
    <2> QED BY <1>5, <1>6, <2>1 DEF Current, CopyVersion
  <1> QED BY <1>2, <1>6, <1>7, HoldsKeeps

LEMMA EditWorkerKeeps ==
    ASSUME LayersInv, NEW w \in Writers, NEW row \in WorkerRow, row.version = worker.version, EditWorker(w, row)
    PROVE  LayersInv'
  <1> DEFINE copy == CopyOf("worker", row, {})
  <1>1. Holds(w, copy) BY DEF EditWorker
  <1>2. copy \in WorkerCopy /\ copy.on = "worker" /\ copy.row = row /\ copy.bumped = FALSE /\ copy.rule = {}
    BY DEF copy, CopyOf, WorkerCopy, Copy
  <1> HIDE DEF copy
  <1>3. Current(copy) BY <1>2 DEF Current, CopyVersion, Covers
  <1> QED BY <1>1, <1>2, <1>3, HoldsKeeps

LEMMA PromoteToTemplateKeeps ==
    ASSUME LayersInv, NEW w \in Writers, NEW rule \in Sentences, PromoteToTemplate(w, rule)
    PROVE  LayersInv'
  <1> DEFINE new == WithRule(template.rules, rule)
             row == [template EXCEPT !.rules = new]
             copy == CopyOf("template", row, {rule})
  <1>1. template \in TemplateRow /\ template.rules \in RuleLists BY DEF LayersInv, LayersTyped, TemplateRow
  <1>2. Len(new) <= MaxRules /\ Holds(w, copy) /\ template.kept BY DEF PromoteToTemplate, ValidRules
  <1>3. /\ new \in Seq(Sentences) /\ IsInjective(new)
        /\ \A x : Contains(new, x) <=> (Contains(template.rules, x) \/ x = rule)
    BY <1>1, WithRuleIs, Zenon
  <1> HIDE DEF new
  <1>4. new \in RuleLists BY <1>2, <1>3, RuleListIs
  <1>5. row \in TemplateRow /\ row.rules = new /\ row.kept = template.kept BY <1>1, <1>3, <1>4 DEF TemplateRow
  <1> HIDE DEF row
  <1>6. copy \in TemplateCopy /\ copy.on = "template" /\ copy.row = row /\ copy.rule = {rule}
    BY <1>5 DEF copy, CopyOf, TemplateCopy, Copy
  <1> HIDE DEF copy
  <1>7. Current(copy)
    <2>1. Covers(new, template.rules, {rule}) /\ Contains(new, rule) BY <1>3 DEF Covers
    <2> QED BY <1>2, <1>5, <1>6, <2>1 DEF Current
  <1> QED BY <1>2, <1>6, <1>7, HoldsKeeps

LEMMA UpdateTemplateKeeps ==
    ASSUME LayersInv, NEW w \in Writers, NEW row \in TemplateRow, row.kept = template.kept, UpdateTemplate(w, row)
    PROVE  LayersInv'
  <1> DEFINE copy == CopyOf("template", row, {})
  <1>1. Holds(w, copy) /\ template.kept BY DEF UpdateTemplate
  <1>2. copy \in TemplateCopy /\ copy.on = "template" /\ copy.row = row /\ copy.rule = {}
    BY DEF copy, CopyOf, TemplateCopy, Copy
  <1> HIDE DEF copy
  <1>3. Current(copy) BY <1>1, <1>2 DEF Current, Covers
  <1> QED BY <1>1, <1>2, <1>3, HoldsKeeps

\* The version is one past the row's when the calibration differs from the row's.
LEMMA BumpVersionKeeps ==
    ASSUME LayersInv, NEW w \in Writers, BumpVersion(w)
    PROVE  LayersInv'
  <1> DEFINE old == writer[w]
             version == IF Recalibrated(worker, old.row) THEN worker.version + 1 ELSE old.row.version
             behind == old.behind /\ ~Recalibrated(worker, old.row)
             new == [old EXCEPT !.bumped = TRUE, !.behind = behind, !.row.version = version]
  <1>1. old.on = "worker" /\ old \in WorkerCopy /\ worker \in WorkerRow /\ ~old.bumped
    BY DEF BumpVersion, LayersInv, LayersTyped, IdleWriter, WorkerCopy, TemplateCopy, Copy
  <1>2. UNCHANGED <<worker, template, ownRules, task, calibrations, promoted, raced>> /\ worker.version < MaxVersion BY DEF BumpVersion
  <1>3. writer' = [writer EXCEPT ![w] = new] BY <1>1 DEF BumpVersion, WorkerCopy, Copy, WorkerRow
  <1>4. version \in 1..MaxVersion
    <2>1. worker.version \in 1..MaxVersion /\ old.row.version \in 1..MaxVersion BY <1>1 DEF WorkerRow, WorkerCopy, Copy
    <2>2. MaxVersion \in Nat BY RuleLayersAssumption
    <2> QED BY <1>2, <2>1, <2>2
  <1>5. /\ new.on = "worker" /\ new.bumped = TRUE /\ new.rule = old.rule /\ new.stale = old.stale /\ new.behind = behind
        /\ new.row.version = version /\ new.row.rules = old.row.rules /\ new.row.model = old.row.model
    BY <1>1 DEF WorkerCopy, Copy, WorkerRow
  <1>6. new \in WorkerCopy
    <2> HIDE DEF version
    <2>0. old.row \in WorkerRow BY <1>1 DEF WorkerCopy, Copy
    <2>1. new.row \in WorkerRow BY <1>1, <1>4, <2>0 DEF WorkerCopy, Copy, WorkerRow
    <2>2. behind \in BOOLEAN BY <1>1 DEF WorkerCopy, Copy
    <2> HIDE DEF behind
    <2> QED BY <1>1, <2>1, <2>2 DEF WorkerCopy, Copy
  <1>7. Current(new)
    <2>0. Current(old) BY DEF LayersInv, Copies
    <2>1. ~old.behind => old.row.version = worker.version BY <1>1, <2>0 DEF Current, CopyVersion
    <2>2. Recalibrated(worker, new.row) <=> Recalibrated(worker, old.row) BY <1>5 DEF Recalibrated
    <2>3. ~behind => new.row.version = CopyVersion(new) BY <1>5, <2>1, <2>2 DEF CopyVersion
    <2> HIDE DEF new
    <2> QED BY <1>1, <1>5, <2>0, <2>3 DEF Current
  <1>8. writer[w] = old OBVIOUS
  <1> HIDE DEF new, old
  <1>9. LayersTyped' BY <1>2, <1>3, <1>6 DEF LayersInv, LayersTyped
  <1>10. Copies'
    <2>1. SUFFICES ASSUME NEW v \in Writers PROVE Current(writer[v])' BY DEF Copies
    <2>2. writer'[v] = writer[v] \/ writer'[v] = new BY <1>3 DEF LayersInv, LayersTyped
    <2>3. Current(writer[v]) BY DEF LayersInv, Copies
    <2> QED BY <1>2, <1>7, <2>2, <2>3 DEF Current, Covers, CopyVersion, Recalibrated
  <1>11. PromotionsStand' BY <1>2 DEF LayersInv, PromotionsStand
  <1> QED BY <1>2, <1>9, <1>10, <1>11, RestKeeps DEF LayersInv

\* A save leaves the other copies of the row outdated and nothing else of them.
LEMMA OutdatedIs ==
    ASSUME LayersTyped, NEW on \in {"worker", "template"}, NEW v \in Writers
    PROVE  /\ Outdated(on)[v] \in {IdleWriter} \cup WorkerCopy \cup TemplateCopy
           /\ writer[v].on # on => Outdated(on)[v] = writer[v]
           /\ writer[v].on = on => /\ Outdated(on)[v].stale = TRUE /\ Outdated(on)[v].behind = TRUE
                                   /\ Outdated(on)[v].on = on
                                   /\ Outdated(on)[v].row = writer[v].row /\ Outdated(on)[v].rule = writer[v].rule
  <1>1. PICK c : c = writer[v] OBVIOUS
  <1>2. c \in {IdleWriter} \cup WorkerCopy \cup TemplateCopy BY <1>1 DEF LayersTyped
  <1>3. Outdated(on)[v] = IF c.on = on THEN [c EXCEPT !.stale = TRUE, !.behind = TRUE] ELSE c BY <1>1 DEF Outdated
  <1>4. CASE c.on = on
    <2>1. c \in WorkerCopy \/ c \in TemplateCopy BY <1>2, <1>4 DEF IdleWriter
    <2>2. PICK u : u = [c EXCEPT !.stale = TRUE, !.behind = TRUE] OBVIOUS
    <2>3. ASSUME NEW name, NEW rows, c \in Copy(name, rows)
          PROVE  u \in Copy(name, rows) /\ u.stale = TRUE /\ u.behind = TRUE /\ u.on = c.on /\ u.row = c.row /\ u.rule = c.rule
      BY <2>2, <2>3 DEF Copy
    <2>4. (u \in WorkerCopy \/ u \in TemplateCopy) /\ u.stale = TRUE /\ u.behind = TRUE /\ u.on = c.on /\ u.row = c.row /\ u.rule = c.rule
      BY <2>1, <2>3, Zenon DEF WorkerCopy, TemplateCopy
    <2> QED BY <1>1, <1>3, <1>4, <2>2, <2>4
  <1>5. CASE c.on # on BY <1>1, <1>2, <1>3, <1>5
  <1> QED BY <1>4, <1>5

\* Copies of a row that was saved or deleted are current as outdated ones.
LEMMA OutdatedStays ==
    ASSUME LayersInv, NEW on \in {"worker", "template"}, NEW v \in Writers, writer[v].on = on, NEW u, u = Outdated(on)[v]
    PROVE  /\ u.stale = TRUE /\ u.behind = TRUE /\ u.on = on
           /\ \A x \in u.rule : Contains(u.row.rules, x)
           /\ on = "template" => u.row.kept
  <1>1. /\ u.stale = TRUE /\ u.behind = TRUE /\ u.on = on
        /\ u.row = writer[v].row /\ u.rule = writer[v].rule
    <2>1. LayersTyped BY DEF LayersInv
    <2>2. /\ Outdated(on)[v].stale = TRUE /\ Outdated(on)[v].behind = TRUE /\ Outdated(on)[v].on = on
          /\ Outdated(on)[v].row = writer[v].row /\ Outdated(on)[v].rule = writer[v].rule
      <3>1. PICK c : c = writer[v] OBVIOUS
      <3>2. (c \in WorkerCopy \/ c \in TemplateCopy) /\ c.on = on BY <2>1, <3>1 DEF LayersTyped, IdleWriter
      <3>3. Outdated(on)[v] = [c EXCEPT !.stale = TRUE, !.behind = TRUE] BY <3>1, <3>2 DEF Outdated
      <3> QED BY <3>1, <3>2, <3>3 DEF WorkerCopy, TemplateCopy, Copy
    <2> QED BY <2>2
  <1>2. Current(writer[v]) BY DEF LayersInv, Copies
  <1> QED BY <1>1, <1>2 DEF Current

\* The template changes and its copies are outdated: every copy is current.
LEMMA OutdatedCurrent ==
    ASSUME LayersInv, NEW v \in Writers, writer'[v] = Outdated("template")[v], worker' = worker
    PROVE  Current(writer[v])'
  <1>1. PICK u : u = Outdated("template")[v] OBVIOUS
  <1>2. CASE writer[v].on = "template"
    <2>1. u.stale = TRUE /\ u.behind = TRUE /\ u.on = "template" /\ u.row.kept /\ \A x \in u.rule : Contains(u.row.rules, x)
      BY <1>1, <1>2, OutdatedStays
    <2> QED BY <1>1, <2>1 DEF Current
  <1>3. CASE writer[v].on # "template"
    <2>1. u = writer[v] BY <1>1, <1>3, OutdatedIs DEF LayersInv
    <2>2. Current(writer[v]) BY DEF LayersInv, Copies
    <2> QED BY <1>1, <1>3, <2>1, <2>2 DEF Current, Covers, CopyVersion, Recalibrated
  <1> QED BY <1>2, <1>3

\* What stands in a row once a copy of it is saved.
LEMMA PromotedByIs ==
    ASSUME NEW target, NEW copy, NEW old, NEW p \in PromotedBy(target, copy),
           promoted \subseteq {"worker", "template"} \X Sentences, copy.rule \subseteq Sentences, copy.stale \in BOOLEAN,
           \A x \in copy.rule : Contains(copy.row.rules, x),
           ~copy.stale => Covers(copy.row.rules, old, copy.rule),
           \A q \in promoted : q[1] = target => Contains(old, q[2])
    PROVE  /\ p[1] = target => Contains(copy.row.rules, p[2])
           /\ p[1] # target => p \in promoted
           /\ p \in promoted \/ \E rule \in copy.rule : p = <<target, rule>>
  <1>1. CASE p \in promoted
    <2>1. p[2] \in Sentences BY <1>1
    <2>2. CASE p[1] = target
      <3>1. CASE p \in StillPromoted(target, copy.row.rules) BY <2>2, <3>1, <1>1 DEF StillPromoted
      <3>2. CASE \E rule \in copy.rule : p = <<target, rule>> BY <3>2, <1>1
      <3>3. CASE ~(copy.rule = {} \/ copy.stale)
        <4>1. Contains(old, p[2]) BY <1>1, <2>2
        <4> QED BY <1>1, <2>1, <3>3, <4>1 DEF Covers
      <3> QED BY <1>1, <3>1, <3>2, <3>3 DEF PromotedBy
    <2> QED BY <1>1, <2>2
  <1>2. CASE p \notin promoted
    <2>1. PICK rule \in copy.rule : p = <<target, rule>> BY <1>2 DEF PromotedBy, StillPromoted
    <2>2. p[1] = target /\ p[2] = rule BY <2>1
    <2> QED BY <2>1, <2>2
  <1> QED BY <1>1, <1>2

\* The whole copy takes the place of the row.
LEMMA SaveWorkerKeeps ==
    ASSUME LayersInv, NEW w \in Writers, SaveWorker(w)
    PROVE  LayersInv'
  <1>1. PICK copy : copy = writer[w] OBVIOUS
  <1>2. copy.on = "worker" /\ copy \in WorkerCopy /\ worker \in WorkerRow /\ copy.bumped
    BY <1>1 DEF SaveWorker, LayersInv, LayersTyped, IdleWriter, WorkerCopy, TemplateCopy, Copy
  <1>3. /\ worker' = copy.row /\ writer' = [Outdated("worker") EXCEPT ![w] = IdleWriter]
        /\ calibrations' = calibrations \cup {Calibration(copy.row)}
        /\ promoted' = PromotedBy("worker", copy)
        /\ raced' = (raced \/ copy.behind)
        /\ UNCHANGED <<template, ownRules, task>>
    BY <1>1 DEF SaveWorker
  <1>4. copy.row \in WorkerRow /\ copy.rule \subseteq Sentences /\ copy.stale \in BOOLEAN /\ copy.behind \in BOOLEAN
        /\ copy.row.version \in 1..MaxVersion /\ worker.version \in 1..MaxVersion
    BY <1>2 DEF WorkerCopy, Copy, WorkerRow
  <1>5. Current(copy) BY <1>1 DEF LayersInv, Copies
  <1>6. ASSUME NEW p \in promoted'
        PROVE  /\ p[1] = "worker" => Contains(copy.row.rules, p[2])
               /\ p[1] # "worker" => p \in promoted
               /\ p \in promoted \/ \E rule \in copy.rule : p = <<"worker", rule>>
    <2>1. \A q \in promoted : q[1] = "worker" => Contains(worker.rules, q[2]) BY DEF LayersInv, PromotionsStand
    <2>2. promoted \subseteq {"worker", "template"} \X Sentences BY DEF LayersInv, LayersTyped
    <2>3. (\A x \in copy.rule : Contains(copy.row.rules, x)) /\ (~copy.stale => Covers(copy.row.rules, worker.rules, copy.rule)) BY <1>2, <1>5 DEF Current
    <2>4. p \in PromotedBy("worker", copy) BY <1>3
    <2> QED BY <1>4, <2>1, <2>2, <2>3, <2>4, PromotedByIs
  <1>7. writer' \in [Writers -> {IdleWriter} \cup WorkerCopy \cup TemplateCopy]
    <2>1. \A v \in Writers : Outdated("worker")[v] \in {IdleWriter} \cup WorkerCopy \cup TemplateCopy BY OutdatedIs DEF LayersInv
    <2> QED BY <1>3, <2>1 DEF Outdated
  <1>8. LayersTyped'
    <2>1. promoted' \in SUBSET ({"worker", "template"} \X Sentences) BY <1>4, <1>6 DEF LayersInv, LayersTyped
    <2>2. \A c \in calibrations' : c.version \in 1..MaxVersion BY <1>3, <1>4 DEF LayersInv, LayersTyped, Calibration
    <2> QED BY <1>3, <1>4, <1>7, <2>1, <2>2 DEF LayersInv, LayersTyped
  <1>9. PresetOfOperation' BY <1>3, Zenon DEF LayersInv, PresetOfOperation
  <1>10. Copies'
    <2>1. SUFFICES ASSUME NEW v \in Writers PROVE Current(writer[v])' BY DEF Copies
    <2>2. CASE v = w
      <3>1. writer'[v] = IdleWriter BY <1>3, <2>2 DEF Outdated
      <3> QED BY <3>1 DEF Current, IdleWriter
    <2>3. PICK u : u = Outdated("worker")[v] OBVIOUS
    <2>4. CASE v # w /\ writer[v].on = "worker"
      <3>1. writer'[v] = u BY <1>3, <2>3, <2>4 DEF Outdated
      <3>2. u.stale = TRUE /\ u.behind = TRUE /\ u.on = "worker" /\ \A x \in u.rule : Contains(u.row.rules, x) BY <2>3, <2>4, OutdatedStays
      <3> QED BY <3>1, <3>2 DEF Current
    <2>5. CASE v # w /\ writer[v].on # "worker"
      <3>1. writer'[v] = writer[v]
        <4>1. u = writer[v] BY <2>3, <2>5, OutdatedIs DEF LayersInv
        <4> QED BY <1>3, <2>3, <2>5, <4>1 DEF Outdated
      <3>2. Current(writer[v]) BY DEF LayersInv, Copies
      <3> QED BY <1>3, <2>5, <3>1, <3>2 DEF Current, Covers
    <2> QED BY <2>2, <2>4, <2>5
  <1>11. PromotionsStand'
    <2>1. SUFFICES ASSUME NEW p \in promoted'
                   PROVE (p[1] = "worker" => Contains(copy.row.rules, p[2])) /\ (p[1] = "template" => template.kept /\ Contains(template.rules, p[2]))
      BY <1>3 DEF PromotionsStand
    <2>2. p[1] = "template" => p \in promoted BY <1>6
    <2> QED BY <1>6, <2>2 DEF LayersInv, PromotionsStand
  <1>12. ASSUME Numbered, ~copy.behind PROVE Numbered'
    <2>1. copy.row.version = IF Recalibrated(worker, copy.row) THEN worker.version + 1 ELSE worker.version
      BY <1>2, <1>5, <1>12 DEF Current, CopyVersion
    <2>2. \A c \in calibrations : c.version \in Nat /\ c.version <= worker.version
      <3>1. \A c \in calibrations : c.version \in 1..MaxVersion BY DEF LayersInv, LayersTyped
      <3>2. MaxVersion \in Nat BY RuleLayersAssumption
      <3> QED BY <1>12, <3>1, <3>2 DEF Numbered, Calibrated
    <2>3. Calibration(copy.row).version = copy.row.version BY DEF Calibration
    <2>4. worker.version \in Nat /\ copy.row.version \in Nat /\ worker.version <= copy.row.version
      <3>1. MaxVersion \in Nat BY RuleLayersAssumption
      <3>2. worker.version \in Nat /\ copy.row.version \in Nat BY <1>4, <3>1
      <3> QED BY <2>1, <3>2
    <2>5. Calibrated'
      <3>1. \A c \in calibrations' : c.version <= copy.row.version
        <4>1. ASSUME NEW c \in calibrations PROVE c.version <= copy.row.version BY <2>2, <2>4
        <4> QED BY <1>3, <2>3, <2>4, <4>1
      <3> QED BY <1>3, <3>1 DEF Calibrated, Calibration
    <2>6. VersionComparable'
      <3>1. CASE Recalibrated(worker, copy.row)
        <4>1. \A c \in calibrations : c.version # Calibration(copy.row).version BY <2>1, <2>2, <2>3, <2>4, <3>1
        <4>2. \A one, two \in calibrations : one.version = two.version => one = two \/ raced = TRUE BY <1>12 DEF Numbered, VersionComparable
        <4>3. raced = TRUE => raced' = TRUE BY <1>3
        <4> QED BY <1>3, <4>1, <4>2, <4>3 DEF VersionComparable
      <3>2. CASE ~Recalibrated(worker, copy.row)
        <4>1. Calibration(copy.row) = Calibration(worker) BY <2>1, <3>2 DEF Recalibrated, Calibration
        <4>2. calibrations' = calibrations BY <1>3, <1>12, <4>1 DEF Numbered, Calibrated
        <4>3. raced = TRUE => raced' = TRUE BY <1>3
        <4> QED BY <1>12, <4>2, <4>3 DEF Numbered, VersionComparable
      <3> QED BY <3>1, <3>2
    <2> QED BY <2>5, <2>6 DEF Numbered
  <1>13. raced' = TRUE \/ (raced # TRUE /\ ~copy.behind) BY <1>3
  <1> QED BY <1>8, <1>9, <1>10, <1>11, <1>12, <1>13 DEF LayersInv

LEMMA SaveTemplateKeeps ==
    ASSUME LayersInv, NEW w \in Writers, SaveTemplate(w)
    PROVE  LayersInv'
  <1>1. PICK copy : copy = writer[w] OBVIOUS
  <1>2. copy.on = "template" /\ copy \in TemplateCopy
    BY <1>1 DEF SaveTemplate, LayersInv, LayersTyped, IdleWriter, WorkerCopy, TemplateCopy, Copy
  <1>3. /\ template' = copy.row /\ writer' = [Outdated("template") EXCEPT ![w] = IdleWriter]
        /\ promoted' = PromotedBy("template", copy)
        /\ UNCHANGED <<worker, ownRules, task, calibrations, raced>>
    BY <1>1 DEF SaveTemplate
  <1>4. copy.row \in TemplateRow /\ copy.rule \subseteq Sentences /\ copy.stale \in BOOLEAN BY <1>2 DEF TemplateCopy, Copy
  <1>5. Current(copy) BY <1>1 DEF LayersInv, Copies
  <1>6. ASSUME NEW p \in promoted'
        PROVE  /\ p[1] = "template" => Contains(copy.row.rules, p[2])
               /\ p[1] # "template" => p \in promoted
               /\ p \in promoted \/ \E rule \in copy.rule : p = <<"template", rule>>
    <2>1. \A q \in promoted : q[1] = "template" => Contains(template.rules, q[2]) BY DEF LayersInv, PromotionsStand
    <2>2. promoted \subseteq {"worker", "template"} \X Sentences BY DEF LayersInv, LayersTyped
    <2>3. (\A x \in copy.rule : Contains(copy.row.rules, x)) /\ (~copy.stale => Covers(copy.row.rules, template.rules, copy.rule)) BY <1>2, <1>5 DEF Current
    <2>4. p \in PromotedBy("template", copy) BY <1>3
    <2> QED BY <1>4, <2>1, <2>2, <2>3, <2>4, PromotedByIs
  <1>7. writer' \in [Writers -> {IdleWriter} \cup WorkerCopy \cup TemplateCopy]
    <2>1. \A v \in Writers : Outdated("template")[v] \in {IdleWriter} \cup WorkerCopy \cup TemplateCopy BY OutdatedIs DEF LayersInv
    <2> QED BY <1>3, <2>1 DEF Outdated
  <1>8. LayersTyped'
    <2>1. promoted' \in SUBSET ({"worker", "template"} \X Sentences) BY <1>4, <1>6 DEF LayersInv, LayersTyped
    <2> QED BY <1>3, <1>4, <1>7, <2>1 DEF LayersInv, LayersTyped
  <1>9. Copies'
    <2>1. SUFFICES ASSUME NEW v \in Writers PROVE Current(writer[v])' BY DEF Copies
    <2>2. CASE v = w
      <3>1. writer'[v] = IdleWriter BY <1>3, <2>2 DEF Outdated
      <3> QED BY <3>1 DEF Current, IdleWriter
    <2>3. CASE v # w
      <3>1. writer'[v] = Outdated("template")[v] BY <1>3, <2>3 DEF Outdated
      <3> QED BY <1>3, <3>1, OutdatedCurrent
    <2> QED BY <2>2, <2>3
  <1>10. PromotionsStand'
    <2>1. copy.row.kept BY <1>2, <1>5 DEF Current
    <2>2. SUFFICES ASSUME NEW p \in promoted'
                   PROVE (p[1] = "worker" => Contains(worker.rules, p[2])) /\ (p[1] = "template" => Contains(copy.row.rules, p[2]))
      BY <1>3, <2>1 DEF PromotionsStand
    <2>3. p[1] = "worker" => p \in promoted BY <1>6
    <2> QED BY <1>6, <2>3 DEF LayersInv, PromotionsStand
  <1> QED BY <1>3, <1>8, <1>9, <1>10, RestKeeps DEF LayersInv

LEMMA CreateTemplateKeeps ==
    ASSUME LayersInv, NEW params \in TemplateParams, CreateTemplate(params)
    PROVE  LayersInv'
  <1>1. /\ template' = [kept |-> TRUE, active |-> TRUE, rules |-> <<>>, params |-> params]
        /\ UNCHANGED <<worker, ownRules, task, writer, calibrations, promoted, raced>>
        /\ ~template.kept /\ \A w \in Writers : writer[w].on # "template"
    BY DEF CreateTemplate, Held
  <1>2. template' \in TemplateRow BY <1>1, NoRulesAreRules DEF TemplateRow
  <1>3. LayersTyped' BY <1>1, <1>2 DEF LayersInv, LayersTyped
  <1>4. Copies'
    <2>1. SUFFICES ASSUME NEW v \in Writers PROVE Current(writer[v])' BY DEF Copies
    <2>2. Current(writer[v]) BY DEF LayersInv, Copies
    <2> QED BY <1>1, <2>2 DEF Current, Covers, CopyVersion, Recalibrated
  <1>5. PromotionsStand' BY <1>1 DEF LayersInv, PromotionsStand
  <1> QED BY <1>1, <1>3, <1>4, <1>5, RestKeeps DEF LayersInv

LEMMA DeleteTemplateKeeps ==
    ASSUME LayersInv, DeleteTemplate
    PROVE  LayersInv'
  <1>1. /\ template' = [template EXCEPT !.kept = FALSE] /\ promoted' = StillPromoted("template", <<>>)
        /\ writer' = Outdated("template")
        /\ UNCHANGED <<worker, ownRules, task, calibrations, raced>>
    BY DEF DeleteTemplate
  <1>2. template' \in TemplateRow BY <1>1 DEF LayersInv, LayersTyped, TemplateRow
  <1>3. promoted' \subseteq promoted /\ \A p \in promoted' : p[1] # "template"
    <2>1. \A x : ~Contains(<<>>, x) BY DEF Contains
    <2> QED BY <1>1, <2>1 DEF StillPromoted
  <1>4. LayersTyped'
    <2>1. \A v \in Writers : Outdated("template")[v] \in {IdleWriter} \cup WorkerCopy \cup TemplateCopy BY OutdatedIs DEF LayersInv
    <2>2. writer' \in [Writers -> {IdleWriter} \cup WorkerCopy \cup TemplateCopy] BY <1>1, <2>1 DEF Outdated
    <2> QED BY <1>1, <1>2, <1>3, <2>2 DEF LayersInv, LayersTyped
  <1>5. Copies'
    <2>1. SUFFICES ASSUME NEW v \in Writers PROVE Current(writer[v])' BY DEF Copies
    <2>2. writer'[v] = Outdated("template")[v] BY <1>1
    <2> QED BY <1>1, <2>2, OutdatedCurrent
  <1>6. PromotionsStand' BY <1>1, <1>3 DEF LayersInv, PromotionsStand
  <1> QED BY <1>1, <1>4, <1>5, <1>6, RestKeeps DEF LayersInv

\* Steps that touch neither the rows nor the copies.
LEMMA RowsStandKeeps ==
    ASSUME LayersInv, ownRules' \in RuleLists, PresetOfOperation',
           UNCHANGED <<worker, template, writer, calibrations, promoted, raced>>
    PROVE  LayersInv'
  <1>1. LayersTyped' BY DEF LayersInv, LayersTyped
  <1>2. Copies'
    <2>1. SUFFICES ASSUME NEW v \in Writers PROVE Current(writer[v])' BY DEF Copies
    <2>2. Current(writer[v]) BY DEF LayersInv, Copies
    <2> QED BY <2>2 DEF Current, Covers, CopyVersion, Recalibrated
  <1>3. PromotionsStand' BY DEF LayersInv, PromotionsStand
  <1>4. ASSUME Numbered PROVE Numbered' BY <1>4 DEF Numbered, Calibrated, Calibration, VersionComparable
  <1> QED BY <1>1, <1>2, <1>3, <1>4 DEF LayersInv

\* A request that brings no preset gets the template's only with the template's
\* operation.
LEMMA MergeKeepsPreset ==
    ASSUME NEW request, MergeIntoTask(request)
    PROVE  PresetOfOperation'
  <1> DEFINE merged == Merged(template.params, request)
  <1>1. task' = [spawned |-> TRUE, params |-> OfKind(merged), from |-> template.params.operation, brought |-> request.preset # NotGiven]
    BY DEF MergeIntoTask
  <1>2. task'.params = OfKind(merged) /\ task'.from = template.params.operation /\ task'.brought = (request.preset # NotGiven)
    BY <1>1, Zenon
  <1>3. PICK empty : empty = "" OBVIOUS
  <1>4. request.preset = NotGiven => merged.preset = IF request.operation \in {NotGiven, template.params.operation} THEN template.params.preset ELSE empty
    BY <1>3 DEF Merged
  <1>5. merged.operation = IF request.operation = NotGiven THEN template.params.operation ELSE request.operation BY DEF Merged
  <1>6. PICK o, p, l : merged = [operation |-> o, preset |-> p, rules |-> l] BY DEF Merged
  <1> HIDE DEF merged
  <1>7. CASE template.params.operation = empty
    <2>1. OfKind(merged).preset = empty BY <1>3, <1>6, <1>7 DEF OfKind
    <2> QED BY <1>2, <1>3, <2>1, Zenon DEF PresetOfOperation
  <1>8. CASE template.params.operation # empty
    <2>1. OfKind(merged).preset = merged.preset /\ OfKind(merged).operation = merged.operation BY <1>3, <1>6, <1>8 DEF OfKind
    <2>2. merged.preset # empty /\ request.preset = NotGiven => merged.operation = template.params.operation BY <1>4, <1>5
    <2> QED BY <1>2, <1>3, <2>1, <2>2, Zenon DEF PresetOfOperation
  <1> QED BY <1>7, <1>8

LEMMA LayersNextKeeps ==
    ASSUME LayersInv, LayersNext
    PROVE  LayersInv'
  <1>0. worker \in WorkerRow /\ template \in TemplateRow /\ ownRules \in RuleLists BY DEF LayersInv, LayersTyped
  <1>1. ASSUME NEW rules \in RuleLists, SetRules(rules) PROVE LayersInv'
    <2>1. ownRules' \in RuleLists /\ UNCHANGED <<worker, template, task, writer, calibrations, promoted, raced>> BY <1>1 DEF SetRules
    <2>2. PresetOfOperation' BY <2>1, Zenon DEF LayersInv, PresetOfOperation
    <2> QED BY <2>1, <2>2, RowsStandKeeps
  <1>2. ASSUME NEW w \in Writers, NEW model \in Models, EditWorker(w, [worker EXCEPT !.model = model]) PROVE LayersInv'
    <2>1. [worker EXCEPT !.model = model] \in WorkerRow /\ [worker EXCEPT !.model = model].version = worker.version BY <1>0 DEF WorkerRow
    <2> QED BY <1>2, <2>1, EditWorkerKeeps
  <1>3. ASSUME NEW w \in Writers, EditWorker(w, [worker EXCEPT !.rules = <<>>]) PROVE LayersInv'
    <2>1. [worker EXCEPT !.rules = <<>>] \in WorkerRow /\ [worker EXCEPT !.rules = <<>>].version = worker.version
      BY <1>0, NoRulesAreRules DEF WorkerRow
    <2> QED BY <1>3, <2>1, EditWorkerKeeps
  <1>4. ASSUME NEW w \in Writers, UpdateTemplate(w, [template EXCEPT !.active = ~@]) PROVE LayersInv'
    <2>1. [template EXCEPT !.active = ~@] \in TemplateRow /\ [template EXCEPT !.active = ~@].kept = template.kept BY <1>0 DEF TemplateRow
    <2> QED BY <1>4, <2>1, UpdateTemplateKeeps
  <1>5. ASSUME NEW w \in Writers, UpdateTemplate(w, [template EXCEPT !.rules = <<>>]) PROVE LayersInv'
    <2>1. [template EXCEPT !.rules = <<>>] \in TemplateRow /\ [template EXCEPT !.rules = <<>>].kept = template.kept
      BY <1>0, NoRulesAreRules DEF TemplateRow
    <2> QED BY <1>5, <2>1, UpdateTemplateKeeps
  <1>6. ASSUME NEW w \in Writers, NEW params \in TemplateParams, UpdateTemplate(w, [template EXCEPT !.params = params]) PROVE LayersInv'
    <2>1. [template EXCEPT !.params = params] \in TemplateRow /\ [template EXCEPT !.params = params].kept = template.kept BY <1>0 DEF TemplateRow
    <2> QED BY <1>6, <2>1, UpdateTemplateKeeps
  <1>8. ASSUME NEW request, MergeIntoTask(request) PROVE LayersInv'
    <2>1. UNCHANGED <<worker, template, ownRules, writer, calibrations, promoted, raced>> BY <1>8 DEF MergeIntoTask
    <2>2. PresetOfOperation' BY <1>8, MergeKeepsPreset
    <2> QED BY <1>0, <2>1, <2>2, RowsStandKeeps
  <1>7. \/ \E rules \in RuleLists : SetRules(rules)
        \/ \E w \in Writers, rule \in Sentences : PromoteToWorker(w, rule) \/ PromoteToTemplate(w, rule)
        \/ \E w \in Writers, model \in Models : EditWorker(w, [worker EXCEPT !.model = model])
        \/ \E w \in Writers : EditWorker(w, [worker EXCEPT !.rules = <<>>])
        \/ \E w \in Writers : BumpVersion(w) \/ SaveWorker(w) \/ SaveTemplate(w)
        \/ \E w \in Writers : UpdateTemplate(w, [template EXCEPT !.active = ~@]) \/ UpdateTemplate(w, [template EXCEPT !.rules = <<>>])
        \/ \E params \in TemplateParams, w \in Writers : CreateTemplate(params) \/ UpdateTemplate(w, [template EXCEPT !.params = params])
        \/ DeleteTemplate
        \/ \E request : MergeIntoTask(request)
    BY DEF LayersNext
  <1> QED BY <1>1, <1>2, <1>3, <1>4, <1>5, <1>6, <1>7, <1>8, PromoteToWorkerKeeps, PromoteToTemplateKeeps, BumpVersionKeeps,
             SaveWorkerKeeps, SaveTemplateKeeps, CreateTemplateKeeps, DeleteTemplateKeeps, Zenon

\* The seen rules are the layers' members, each once.
LEMMA LayersInvHolds == LayersInv => LayersHold
  <1> SUFFICES ASSUME LayersInv PROVE LayersHold OBVIOUS
  <1>1. LayersTypeOK
    <2>1. worker \in WorkerRow /\ template \in TemplateRow /\ ownRules \in RuleLists BY DEF LayersInv, LayersTyped
    <2>2. \A w \in Writers : writer[w].on \in {"nothing", "worker", "template"}
      BY DEF LayersInv, LayersTyped, IdleWriter, WorkerCopy, TemplateCopy, Copy
    <2> QED BY <2>1, <2>2 DEF LayersTypeOK, WorkerRow, TemplateRow
  <1>2. PromotedReach
    <2> DEFINE all == ownRules \o TemplateRules \o worker.rules
    <2>1. SUFFICES ASSUME PromotionsStand
                   PROVE IsInjective(Distinct(all)) /\ \A p \in promoted : Contains(Distinct(all), p[2])
      BY DEF LayersInv, PromotedReach, RulesFor
    <2>2. ownRules \in Seq(Sentences) /\ worker.rules \in Seq(Sentences) /\ template.rules \in Seq(Sentences)
      BY RuleListIs DEF LayersInv, LayersTyped, WorkerRow, TemplateRow
    <2>3. TemplateRules \in Seq(Sentences) BY <2>2 DEF TemplateRules
    <2>4. all \in Seq(Sentences) BY <2>2, <2>3
    <2>5. \A x : Contains(TemplateRules, x) \/ Contains(worker.rules, x) => Contains(all, x)
      <3> DEFINE t == TemplateRules
                 r == worker.rules
      <3>1. t \in Seq(Sentences) /\ r \in Seq(Sentences) BY <2>2, <2>3
      <3> HIDE DEF t, r
      <3>2. \A x : Contains(t, x) \/ Contains(r, x) => Contains(ownRules \o t \o r, x) BY <2>2, <3>1, JoinedContains
      <3> QED BY <3>2 DEF t, r
    <2> HIDE DEF all
    <2>6. /\ Distinct(all) \in Seq(Sentences) /\ Len(Distinct(all)) <= Len(all)
          /\ IsInjective(Distinct(all))
          /\ \A x : Contains(Distinct(all), x) <=> Contains(all, x)
      BY ONLY <2>4, DistinctIs, Zenon
    <2>7. ASSUME NEW p \in promoted PROVE Contains(TemplateRules, p[2]) \/ Contains(worker.rules, p[2])
      <3>1. p[1] = "worker" \/ p[1] = "template" BY DEF LayersInv, LayersTyped
      <3> QED BY <2>1, <3>1 DEF PromotionsStand, TemplateRules
    <2> QED BY <2>5, <2>6, <2>7
  <1>3. VersionComparable BY DEF LayersInv, Numbered, VersionComparable
  <1>4. PresetOfOperation BY DEF LayersInv
  <1> QED BY <1>1, <1>2, <1>3, <1>4 DEF LayersHold

\* The layers hold together for any limit, sentences and requests: promoted rules are
\* seen until edited away or overwritten by an older copy, versions tell calibrations
\* apart until one is taken from an older row, and a template's preset comes with its
\* operation only.
THEOREM LayersAreSound == LayersSpec => []LayersHold
  <1>1. LayersInv /\ [LayersNext]_layerVars => LayersInv'
    <2>1. ASSUME LayersInv, UNCHANGED layerVars PROVE LayersInv'
      <3>1. UNCHANGED <<worker, template, ownRules, task, writer, calibrations, promoted, raced>> BY <2>1 DEF layerVars
      <3>2. PresetOfOperation' BY <2>1, <3>1, Zenon DEF LayersInv, PresetOfOperation
      <3>3. ownRules' \in RuleLists BY <2>1, <3>1 DEF LayersInv, LayersTyped
      <3> QED BY <2>1, <3>1, <3>2, <3>3, RowsStandKeeps
    <2> QED BY <2>1, LayersNextKeeps
  <1> QED BY <1>1, LayersInvInit, LayersInvHolds, PTL DEF LayersSpec
=============================================================================
