----------------------------- MODULE Knowledge ------------------------------
(* What the studio knows between tasks: the company profile (an instance    *)
(* row and channel overlays, every save a numbered snapshot), the memory of *)
(* suggestions that promotion writes into it, and the profile a prompt      *)
(* reads and stamps on its task.                                            *)
EXTENDS Naturals, FiniteSets

CONSTANTS Channel,       \* the channel with an overlay; "" is the instance
          Rules,         \* always rules
          FactIds, FactValues,
          Suggestions,   \* memory entries that may be promoted
          ScopeOf,       \* Suggestions -> the entry's channel
          ItemOf,        \* Suggestions -> [kind, id, value] they stand for
          Editors,       \* operator requests under way
          MaxVersions    \* Scopes -> bound on the snapshots

ASSUME KnowledgeAssumption ==
    /\ Channel # "" /\ MaxVersions \in [{"", Channel} -> Nat]
    /\ ScopeOf \in [Suggestions -> {"", Channel}]
    /\ ItemOf \in [Suggestions -> [kind : {"rule"}, id : {""}, value : Rules] \cup [kind : {"fact"}, id : FactIds, value : FactValues]]

Scopes == {"", Channel}
NoFact == "none"
\* of facts with one id the last stands, as where an overlay is merged
ProfileData == [rules : SUBSET Rules, facts : [FactIds -> FactValues \cup {NoFact}]]
EmptyData == [rules |-> {}, facts |-> [i \in FactIds |-> NoFact]]
MemoryStatus == {"absent", "active", "dismissed", "promoted", "deleted"}

VARIABLES profile,     \* Scopes -> [data, version]
          snapshots,   \* Scopes -> the set of [version, data] saved
          entry,       \* Suggestions -> status
          editor,      \* Editors -> the request's stale copy of what it edits
          prompt       \* the profile one task's prompt reads, and what is stamped on the task

knowVars == <<profile, snapshots, entry, editor, prompt>>

NoRequest == [on |-> "nothing"]
\* overtaken (ghost): the scopes saved between their read and the stamp
NoPrompt == [at |-> "start", data |-> EmptyData, used |-> [s \in Scopes |-> 0], stamp |-> [s \in Scopes |-> 0],
             overtaken |-> {}]
ProfileRow(s) == [data : ProfileData, version : 0..MaxVersions[s]]
Snapshot(s) == [version : 1..MaxVersions[s], data : ProfileData]
EditorRow == {NoRequest} \cup [on : {"profile"}, scope : Scopes, data : ProfileData]
                         \cup [on : {"entry"}, entry : Suggestions, status : MemoryStatus]
PromptRow == [at : {"start", "instance", "read", "done", "blank"}, data : ProfileData,
              used : [Scopes -> Nat], stamp : [Scopes -> Nat], overtaken : SUBSET Scopes]
KnowTypeOK ==
    /\ DOMAIN profile = Scopes /\ DOMAIN snapshots = Scopes
    /\ \A s \in Scopes : profile[s] \in ProfileRow(s) /\ snapshots[s] \subseteq Snapshot(s)
    /\ entry \in [Suggestions -> MemoryStatus] /\ editor \in [Editors -> EditorRow] /\ prompt \in PromptRow

KnowInit ==
    /\ profile = [s \in Scopes |-> [data |-> EmptyData, version |-> 0]]
    /\ snapshots = [s \in Scopes |-> {}]
    /\ entry = [e \in Suggestions |-> "absent"]
    /\ editor = [r \in Editors |-> NoRequest]
    /\ prompt = NoPrompt

-----------------------------------------------------------------------------
(* profile_service                                                          *)
Versions(s) == {shot.version : shot \in snapshots[s]}
MaxOf(S) == CHOOSE n \in S : \A k \in S : k <= n
\* Deviation: the next version counts from the row alone
NextVersionOfRow(s) == profile[s].version + 1
NextVersion(s) == MaxOf(Versions(s) \cup {profile[s].version}) + 1
\* the scopes the prompt has read and not stamped yet
ReadScopes == CASE prompt.at = "instance" -> {""} [] prompt.at = "read" -> Scopes [] OTHER -> {}
\* data validated, the row locked: the next version and its snapshot
UpdateProfile(s, data) ==
    /\ NextVersion(s) <= MaxVersions[s]
    /\ profile' = [profile EXCEPT ![s] = [data |-> data, version |-> NextVersion(s)]]
    /\ snapshots' = [snapshots EXCEPT ![s] = @ \cup {[version |-> NextVersion(s), data |-> data]}]
    /\ prompt' = [prompt EXCEPT !.overtaken = @ \cup ({s} \cap ReadScopes)]

\* Deviation: the instance wins over the overlay
InstanceWins(base, overlay) ==
    [rules |-> base.rules \cup overlay.rules,
     facts |-> [i \in FactIds |-> IF base.facts[i] # NoFact THEN base.facts[i] ELSE overlay.facts[i]]]
\* lines add up; on the same id the overlay wins
MergedSections(base, overlay) ==
    [rules |-> base.rules \cup overlay.rules,
     facts |-> [i \in FactIds |-> IF overlay.facts[i] # NoFact THEN overlay.facts[i] ELSE base.facts[i]]]

(* The operator reads a scope, sets a fact or drops the rules, and puts the *)
(* whole back.                                                              *)
Changed(data) ==
    {[data EXCEPT !.rules = {}]} \cup {[data EXCEPT !.facts[i] = v] : i \in FactIds, v \in FactValues \cup {NoFact}}
Retrieve(r, s) ==
    /\ editor[r] = NoRequest
    /\ editor' = [editor EXCEPT ![r] = [on |-> "profile", scope |-> s, data |-> profile[s].data]]
    /\ UNCHANGED <<profile, snapshots, entry, prompt>>
Update(r) ==
    /\ editor[r].on = "profile" /\ editor' = [editor EXCEPT ![r] = NoRequest]
    /\ \E data \in Changed(editor[r].data) : UpdateProfile(editor[r].scope, data)
    /\ UNCHANGED entry
RestoreVersion(s, shot) == shot \in snapshots[s] /\ UpdateProfile(s, shot.data)
Restore(s) ==
    /\ \E shot \in snapshots[s] : RestoreVersion(s, shot)
    /\ UNCHANGED <<entry, editor>>
\* a fixture is loaded over the row, its snapshots stay
Reload(s) ==
    /\ ReadScopes = {}
    /\ \E shot \in snapshots[s] : profile' = [profile EXCEPT ![s] = [data |-> shot.data, version |-> shot.version]]
    /\ UNCHANGED <<snapshots, entry, editor, prompt>>

-----------------------------------------------------------------------------
(* memory_service, memory_promotion                                         *)
TargetScope(e) == ScopeOf[e]
Added(data, item) ==
    IF item.kind = "rule" THEN [data EXCEPT !.rules = @ \cup {item.value}]
    ELSE [data EXCEPT !.facts[item.id] = item.value]
\* a rule the operator gave for good, or a number the checks flagged
Suggest(e) ==
    /\ entry[e] = "absent" /\ entry' = [entry EXCEPT ![e] = "active"]
    /\ UNCHANGED <<profile, snapshots, editor, prompt>>
\* the entry's row is locked and read again
PromoteEntry(e) ==
    /\ entry[e] = "active"
    /\ UpdateProfile(TargetScope(e), Added(profile[TargetScope(e)].data, ItemOf[e]))
    /\ entry' = [entry EXCEPT ![e] = "promoted"]
Promote(e) == PromoteEntry(e) /\ UNCHANGED editor
\* set_status writes over whatever became of the entry since it was read
LoadEntry(r, e) ==
    /\ editor[r] = NoRequest /\ entry[e] \notin {"absent", "deleted"}
    /\ editor' = [editor EXCEPT ![r] = [on |-> "entry", entry |-> e, status |-> entry[e]]]
    /\ UNCHANGED <<profile, snapshots, entry, prompt>>
SaveStatus(r) ==
    IF editor[r].status # "promoted" /\ entry[editor[r].entry] # "deleted"
    THEN \E status \in {"active", "dismissed"} : entry' = [entry EXCEPT ![editor[r].entry] = status]
    ELSE UNCHANGED entry
SetStatus(r) ==
    /\ editor[r].on = "entry" /\ SaveStatus(r) /\ editor' = [editor EXCEPT ![r] = NoRequest]
    /\ UNCHANGED <<profile, snapshots, prompt>>
DeleteEntry(e) ==
    /\ entry[e] \notin {"absent", "deleted"} /\ entry' = [entry EXCEPT ![e] = "deleted"]
    /\ UNCHANGED <<profile, snapshots, editor, prompt>>

-----------------------------------------------------------------------------
(* a prompt: the instance row, the overlay, then the stamp, three reads     *)
ReadInstance ==
    /\ prompt.at = "start"
    /\ prompt' = [prompt EXCEPT !.at = "instance", !.data = profile[""].data, !.used[""] = profile[""].version]
    /\ UNCHANGED <<profile, snapshots, entry, editor>>
ReadOverlay ==
    /\ prompt.at = "instance"
    /\ prompt' = [prompt EXCEPT !.at = "read", !.used[Channel] = profile[Channel].version,
                                !.data = MergedSections(@, profile[Channel].data)]
    /\ UNCHANGED <<profile, snapshots, entry, editor>>
Stamp(s) == profile[s].version
\* something of the profile reached the prompt
RecordUse ==
    /\ prompt.at = "read" /\ prompt.data # EmptyData
    /\ prompt' = [prompt EXCEPT !.at = "done", !.data = EmptyData, !.stamp = [s \in Scopes |-> Stamp(s)]]
    /\ UNCHANGED <<profile, snapshots, entry, editor>>
\* the sections of this kind are empty: the task keeps the stamp it has
ProfileBlank ==
    /\ prompt.at = "read" /\ prompt' = [prompt EXCEPT !.at = "blank", !.data = EmptyData]
    /\ UNCHANGED <<profile, snapshots, entry, editor>>

KnowNext ==
    \/ \E r \in Editors, s \in Scopes : Retrieve(r, s)
    \/ \E r \in Editors : Update(r) \/ SetStatus(r)
    \/ \E s \in Scopes : Restore(s) \/ Reload(s)
    \/ \E e \in Suggestions : Suggest(e) \/ Promote(e) \/ DeleteEntry(e)
    \/ \E r \in Editors, e \in Suggestions : LoadEntry(r, e)
    \/ ReadInstance \/ ReadOverlay \/ RecordUse \/ ProfileBlank

KnowSpec == KnowInit /\ [][KnowNext]_knowVars

-----------------------------------------------------------------------------
\* A version number stands for one content for good: no save, restore, reload
\* of an older row or promotion in between ever reuses one (_next_version).
VersionsStand ==
    \A s \in Scopes : \A one, two \in snapshots[s] : one.version = two.version => one = two

\* What a scope shows can be looked up under its number.
Saved(s) == snapshots[s] \cup {[version |-> 0, data |-> EmptyData]}
RowsAreSaved == \A s \in Scopes : [version |-> profile[s].version, data |-> profile[s].data] \in Saved(s)

\* What was promoted is in a snapshot of its own channel, so that a save from a
\* stale form, which drops it from the profile, can be taken back (promote).
PromotedIsWritten ==
    \A e \in Suggestions : entry[e] = "promoted" =>
        \E shot \in snapshots[ScopeOf[e]] : Added(shot.data, ItemOf[e]) = shot.data

\* A prompt reads each fact as some saved overlay has it or, where that is
\* silent, as some saved instance row: never a mix within one fact (merged).
PromptReadsSaved ==
    /\ prompt.at = "instance" => [version |-> prompt.used[""], data |-> prompt.data] \in Saved("")
    /\ prompt.at = "read" =>
          \E base \in Saved(""), overlay \in Saved(Channel) :
              /\ base.version = prompt.used[""] /\ overlay.version = prompt.used[Channel]
              /\ \A i \in FactIds : prompt.data.facts[i] =
                    IF overlay.data.facts[i] = NoFact THEN base.data.facts[i] ELSE overlay.data.facts[i]

\* The stamp of a task names the very versions its prompt read, save for a scope
\* that was saved between its read and the stamp, whose rows are read again: for
\* that one it names a later version, which the prompt never saw (record_use).
Names(s, version) == IF s \in prompt.overtaken THEN prompt.used[s] < version ELSE prompt.used[s] = version
StampIsExact ==
    /\ prompt.at \in {"start", "instance"} => prompt.overtaken \subseteq ReadScopes
    /\ \A s \in ReadScopes : Names(s, profile[s].version)
    /\ \A s \in Scopes : IF prompt.at = "done" THEN Names(s, prompt.stamp[s]) ELSE prompt.stamp[s] = 0

\* The history of the profile is never rewritten, and it has all that was
\* promoted, however saves, restores, reloads and promotions overlap.
HistoryKept == KnowTypeOK /\ VersionsStand /\ RowsAreSaved /\ PromotedIsWritten

\* What a task was told are saved versions, and its stamp names them, or tells a
\* later one for a scope that was saved meanwhile (context_for, version_ids).
PromptTraceable == PromptReadsSaved /\ StampIsExact
=============================================================================
