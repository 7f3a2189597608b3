----------------------------- MODULE Artifacts -----------------------------
(***************************************************************************)
(* Artifacts and their versions: server/services/artifact.py, the requests *)
(* of server/api/artifacts.py that make one, and the editor and version    *)
(* panel of the web client (ArtifactEditor.tsx, VersionHistoryPanel.tsx).  *)
(*                                                                         *)
(* An artifact is its number in the order of created_at.  A content is     *)
(* plain or has escaped line ends, which create_artifact puts right (in    *)
(* HTML, the only kind here).  A request is a few steps, the awaits between*)
(* them; each Requester has one at a time, the editor's are its own.       *)
(* Nothing calls delete_artifact, which is left out.                       *)
(***************************************************************************)
EXTENDS Naturals, Sequences, FiniteSets, SequencesExt

CONSTANTS
  Requesters,     (* clients that apply diffs                              *)
  MaxArtifacts,   (* bound: artifacts                                      *)
  MaxViews        (* bound: contents the editor asks for                   *)

ASSUME ArtifactsAssumption == {MaxArtifacts, MaxViews} \subseteq Nat

VARIABLES
  artifact_rows,  (* the artifacts: parent (0: none), content, version     *)
  applying,       (* requester -> its apply-diff, or NoDiff             *)
  diffs,          (* the diff messages posted                              *)
  artifact_prop,  (* the artifact the editor was opened with, 0: closed    *)
  edited,         (* currentArtifact                                       *)
  typed_text,     (* content                                               *)
  original,       (* originalContent                                       *)
  loading,        (* number of the request the effect waits for, 0: none   *)
  views,          (* the editor's requests: load, compare and save         *)
  view_count,     (* how many there have been                              *)
  reverted        (* history: the oldest version was shown in its place    *)

artVars == <<artifact_rows, applying, diffs, artifact_prop, edited, typed_text, original, loading,
             views, view_count, reverted>>
storeVars == <<artifact_rows, applying, diffs>>
editorVars == <<artifact_prop, edited, typed_text, original, loading, views, view_count, reverted>>

Texts == {"plain", "escaped"}
Unescaped(text) == IF text = "escaped" THEN "plain" ELSE text
NoDiff == [at |-> "none"]
ArtifactIds == DOMAIN artifact_rows
Children(a) == {c \in ArtifactIds : artifact_rows[c].parent = a}

ArtInit ==
  /\ artifact_rows = <<>> /\ applying = [r \in Requesters |-> NoDiff] /\ diffs = {}
  /\ artifact_prop = 0 /\ edited = 0 /\ typed_text = "none" /\ original = "none"
  /\ loading = 0 /\ views = {} /\ view_count = 0 /\ reverted = FALSE

-----------------------------------------------------------------------------
(* The store *)

\* Mutant: a new version starts to count again
VersionOne(parent) == 1

\* The version of a new artifact
VersionAfter(parent) == IF parent = 0 THEN 1 ELSE artifact_rows[parent].version + 1

\* create_artifact, and the message the request posts: a diff when there is a parent
Create(parent, text, before) ==
  /\ Len(artifact_rows) < MaxArtifacts
  /\ artifact_rows' = Append(artifact_rows,
                             [parent |-> parent, content |-> Unescaped(text), version |-> VersionAfter(parent)])
  /\ diffs' = IF parent = 0 THEN diffs
              ELSE diffs \cup {[base |-> parent, applied |-> Len(artifact_rows'),
                                before |-> before, after |-> text]}

\* An agent's, an upload, or POST /api/artifacts without a parent
CreateArtifact(text) ==
  /\ Create(0, text, "none")
  /\ UNCHANGED <<applying, editorVars>>

\* apply-diff: the base must have no child yet, and the content the diff was made for
ApplyDiff(r, base, before, after) ==
  /\ applying[r] = NoDiff /\ base \in ArtifactIds
  /\ Children(base) = {}
  /\ applying' = [applying EXCEPT ![r] = [at |-> "checked", base |-> base, before |-> before, after |-> after]]
  /\ UNCHANGED <<artifact_rows, diffs, editorVars>>

DiffApplied(r) ==
  /\ applying[r].at = "checked"
  /\ applying[r].before = artifact_rows[applying[r].base].content
  /\ Create(applying[r].base, applying[r].after, applying[r].before)
  /\ applying' = [applying EXCEPT ![r] = NoDiff]
  /\ UNCHANGED editorVars

DiffConflicts(r) ==
  /\ applying[r].at = "checked"
  /\ applying[r].before # artifact_rows[applying[r].base].content
  /\ applying' = [applying EXCEPT ![r] = NoDiff]
  /\ UNCHANGED <<artifact_rows, diffs, editorVars>>

\* list_artifact_history: from parent to parent up to the root, and from there to the
\* first child each time
First(S) == CHOOSE c \in S : \A d \in S : c <= d
Above(a) == IF artifact_rows[a].parent = 0 THEN a ELSE artifact_rows[a].parent
Root(a) ==
  LET Up[n \in 0..Len(artifact_rows)] == IF n = 0 THEN a ELSE Above(Up[n - 1]) IN Up[Len(artifact_rows)]

Extended(chain) ==
  LET children == Children(Last(chain)) IN IF children = {} THEN chain ELSE Append(chain, First(children))
History(a) ==
  LET Down[n \in 0..Len(artifact_rows)] == IF n = 0 THEN <<Root(a)>> ELSE Extended(Down[n - 1])
  IN Down[Len(artifact_rows)]

\* VersionHistoryPanel: the latest version first, those of one version as they came;
\* each is compared with the next.
UpTo(h, i) ==
  {j \in DOMAIN h : \/ artifact_rows[h[j]].version > artifact_rows[h[i]].version
                    \/ artifact_rows[h[j]].version = artifact_rows[h[i]].version /\ j <= i}
Panel(a) ==
  LET h == History(a) IN [k \in DOMAIN h |-> h[CHOOSE i \in DOMAIN h : Cardinality(UpTo(h, i)) = k]]
ComparedWith(a, i) == IF i < Len(Panel(a)) THEN Panel(a)[i + 1] ELSE 0

-----------------------------------------------------------------------------
(* The editor *)

EditorRequest(what, a, text) == [id |-> view_count + 1, kind |-> what, a |-> a, text |-> text]

\* The effect: another current artifact loads its content, and no older load counts
Show(a, more) ==
  /\ edited' = a
  /\ view_count < MaxViews
  /\ view_count' = view_count + 1
  /\ loading' = view_count + 1
  /\ views' = more \cup {EditorRequest("load", a, "none")}

OpenEditor(a) ==
  /\ a \in ArtifactIds /\ a # artifact_prop
  /\ artifact_prop' = a
  /\ IF a = edited THEN UNCHANGED <<edited, view_count, loading, views>> ELSE Show(a, views)
  /\ UNCHANGED <<storeVars, typed_text, original, reverted>>

Type(text) ==
  /\ typed_text # "none"
  /\ typed_text' = text
  /\ UNCHANGED <<storeVars, artifact_prop, edited, original, loading, views, view_count, reverted>>

\* Mutant: an answer counts although the editor shows another artifact by now
AnyLoad(v) == TRUE

\* cancelled, which the effect's cleanup sets
Current(v) == v.id = loading

ContentLoaded(v) ==
  /\ v \in views /\ v.kind = "load"
  /\ views' = views \ {v}
  /\ IF Current(v)
     THEN /\ typed_text' = artifact_rows[v.a].content /\ original' = typed_text'
          /\ loading' = 0 /\ reverted' = FALSE
     ELSE UNCHANGED <<typed_text, original, loading, reverted>>
  /\ UNCHANGED <<storeVars, artifact_prop, edited, view_count>>

\* It fails: what was there before is kept under the message
LoadFails(v) ==
  /\ v \in views /\ v.kind = "load"
  /\ views' = views \ {v}
  /\ loading' = IF Current(v) THEN 0 ELSE loading
  /\ reverted' = (reverted \/ Current(v))
  /\ UNCHANGED <<storeVars, artifact_prop, edited, typed_text, original, view_count>>

\* handleCompareVersion of the oldest version: it has none before it, and its content
\* takes the editor's place while the current artifact stays.
CompareOldest(i) ==
  /\ edited # 0 /\ view_count < MaxViews
  /\ i \in DOMAIN Panel(edited) /\ ComparedWith(edited, i) = 0
  /\ view_count' = view_count + 1
  /\ views' = views \cup {EditorRequest("compare", Panel(edited)[i], "none")}
  /\ UNCHANGED <<storeVars, artifact_prop, edited, typed_text, original, loading, reverted>>

OldestLoaded(v) ==
  /\ v \in views /\ v.kind = "compare"
  /\ views' = views \ {v}
  /\ typed_text' = artifact_rows[v.a].content /\ original' = typed_text'
  /\ reverted' = TRUE
  /\ UNCHANGED <<storeVars, artifact_prop, edited, loading, view_count>>

\* handleSave
Save ==
  /\ typed_text # "none" /\ view_count < MaxViews
  /\ view_count' = view_count + 1
  /\ views' = views \cup {EditorRequest("save", edited, typed_text)}
  /\ UNCHANGED <<storeVars, artifact_prop, edited, typed_text, original, loading, reverted>>

\* POST /api/artifacts with a parent, which is not asked for children.  The new version
\* becomes the current one, and the effect loads it.
VersionSaved(v) ==
  /\ v \in views /\ v.kind = "save"
  /\ Create(v.a, v.text, artifact_rows[v.a].content)
  /\ Show(Len(artifact_rows'), views \ {v})
  /\ original' = v.text
  /\ UNCHANGED <<applying, artifact_prop, typed_text, reverted>>

SaveFails(v) ==
  /\ v \in views /\ v.kind = "save"
  /\ views' = views \ {v}
  /\ UNCHANGED <<storeVars, artifact_prop, edited, typed_text, original, loading, view_count, reverted>>

ArtNext ==
  \/ \E text \in Texts : CreateArtifact(text) \/ Type(text)
  \/ \E r \in Requesters :
       \/ \E base \in ArtifactIds, before, after \in Texts : ApplyDiff(r, base, before, after)
       \/ DiffApplied(r) \/ DiffConflicts(r)
  \/ \E a \in ArtifactIds : OpenEditor(a)
  \/ \E i \in 1..MaxArtifacts : CompareOldest(i)
  \/ Save
  \/ \E v \in views : ContentLoaded(v) \/ LoadFails(v) \/ OldestLoaded(v) \/ VersionSaved(v) \/ SaveFails(v)

ArtSpec == ArtInit /\ [][ArtNext]_artVars

-----------------------------------------------------------------------------
(* Properties *)

\* What a user sees of the versions is right whichever requests ran side by side: a
\* diff message shows the change from its base to its artifact; the panel compares
\* every version with the one it was made from; and the editor compares what is typed
\* with the content of the artifact a save will name as the parent, whatever order
\* the answers come in, unless the oldest version was put in its place.
VersionsSound ==
  /\ \A d \in diffs :
       /\ d.base = artifact_rows[d.applied].parent
       /\ d.before = artifact_rows[d.base].content /\ Unescaped(d.after) = artifact_rows[d.applied].content
  /\ \A a \in ArtifactIds : \A i \in DOMAIN Panel(a) :
       ComparedWith(a, i) = artifact_rows[Panel(a)[i]].parent
  /\ edited # 0 /\ loading = 0 /\ ~reverted => original = artifact_rows[edited].content
=============================================================================
