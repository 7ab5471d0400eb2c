----------------------------- MODULE SetupProofs -----------------------------
(***************************************************************************)
(* How a workspace is set up: the onboarding session whose launch makes    *)
(* roles, scenarios and jobs of presets, and the builders that edit roles  *)
(* and scenarios afterwards.  They meet in no variable.                    *)
(*                                                                         *)
(* Onboarding: what the launch log says, what a launched session stands    *)
(* for, when two launches make objects of one session and when an          *)
(* assignment is lost, for every catalog, every set of templates and any   *)
(* number of edits and launches.  A launch is a straight line with exits,  *)
(* so the argument follows its stages: what each stage has made and logged *)
(* (LaunchInv), what it has shown and loaded and whether the selections    *)
(* still are what was shown (PreviewInv), and what a launch found that     *)
(* began when another was over (EarlierInv).  An edit that is about to     *)
(* write the assignment holds the draft as it is, unless it is marked      *)
(* stale (EditorInv).                                                      *)
(*                                                                         *)
(* Builders: the mirror of what the bindings say, and the rule that        *)
(* confines overrides, for any number of requests, scenarios, roles and    *)
(* codes.  MirrorIsExact speaks of the moments when nobody works on a      *)
(* code; the invariant says what holds in between.  A request for a        *)
(* scenario either is clean, alone on its scenario and right about its     *)
(* code, or tainted, with every code it may write given up (CleanInv).     *)
(* Between two of its transactions a clean request leaves its code without *)
(* keys (Disturbs); every other key is as the bindings say (KeyInv), and   *)
(* what a transaction has deleted and not committed is all there is of its *)
(* code (RowsInv).  A patch is confined when what it was checked with      *)
(* still is what the role has (Confines).                                  *)
(***************************************************************************)
EXTENDS Builders, Onboarding, TLAPS

-----------------------------------------------------------------------------
(* Onboarding: the invariant.                                               *)

\* Stages before the log row is inserted, and those of a launch that has made everything.
Unlogged == {"idle", "row", "presets", "assignment", "log", "refused"}
Made == {"mark", "launched", "unmarked"}

\* What a launch has made and logged when it is at a stage.
LaunchInv ==
    \A l \in Launches :
        /\ launch[l].at \in Unlogged =>
             /\ launch[l].made = {} /\ launch[l].loaded = {} /\ launch[l].half = {}
             /\ log[l].status = "none"
        /\ launch[l].at = "load" => launch[l].made = {} /\ launch[l].loaded = {} /\ launch[l].half = {}
        /\ launch[l].at \in {"load", "make", "fail"} => log[l].status = "running"
        /\ launch[l].at = "make" => launch[l].half = {}
        /\ launch[l].at \in {"fail", "failed"} => launch[l].made # launch[l].loaded
        /\ launch[l].at \in Made => launch[l].made = launch[l].loaded /\ launch[l].half = {}

\* A log row without an outcome lists nothing; one with an outcome agrees with its launch, which
\* makes nothing any more.
OutcomeInv ==
    \A l \in Launches :
        /\ log[l].status \in {"none", "running"} => log[l].created = {}
        /\ log[l].status = "none" => launch[l].at \in Unlogged
        /\ log[l].status = "succeeded" =>
             /\ launch[l].at \in Made \cup {"stopped"}
             /\ launch[l].half = {}
             /\ launch[l].made = launch[l].loaded /\ log[l].created = launch[l].made
        /\ log[l].status = "failed" =>
             /\ launch[l].at = "failed"
             /\ log[l].created = launch[l].made

\* What the preview accepted is what there is to make, unless the selections were replaced.
PreviewInv ==
    \A l \in Launches :
        /\ launch[l].at \in {"assignment", "log", "load"} => launch[l].edited \/ launch[l].shown = selected
        /\ launch[l].at = "assignment" => launch[l].issue \/ launch[l].shown # {}
        /\ launch[l].at \in {"log", "load", "make", "mark", "launched"} => launch[l].shown # {}
        /\ launch[l].at \in {"make", "mark", "launched"} => launch[l].edited \/ launch[l].shown = launch[l].loaded

\* The session is marked by a launch that ends as launched, and by no other.
MarkInv == status = "launched" <=> \E l \in Launches : launch[l].at = "launched"

\* Of two launches that did not overlap the first is over, and the second has found the mark.
EarlierInv ==
    \A l, k \in Launches : <<l, k>> \in earlier =>
        /\ launch[l].at \in Over /\ launch[k].at # "idle"
        /\ launch[l].at = "launched" => launch[k].at = "refused"

\* An edit that is about to write the assignment, and is not stale, has read what there is.
EditorInv == \A e \in Editors : editor[e].at = "write" /\ ~editor[e].stale => editor[e].read = assignment

OnboardingInv == TypeOK /\ LaunchInv /\ OutcomeInv /\ PreviewInv /\ MarkInv /\ EarlierInv /\ EditorInv

-----------------------------------------------------------------------------
(* Onboarding: steps.                                                       *)

\* What a launch step does: one launch moves on, the session but its status and the editors stay.
LEMMA LaunchStep ==
    ASSUME TypeOK, NEW l \in Launches, LaunchSession(l)
    PROVE  /\ selected' = selected /\ assignment' = assignment /\ templated' = templated
           /\ editor' = editor /\ edits' = edits
           /\ \A k \in Launches : k # l => launch'[k] = launch[k] /\ log'[k] = log[k]
  BY DEF TypeOK, LaunchSession, Launch, PreviewRow, PreviewPresets, PreviewAssignment, InsertLaunchLog,
         LoadSessionView, Instantiate, InstantiateFails, LaunchFails, FinishLaunchLog, Outcome,
         MarkSessionLaunched, LaunchRefused, LaunchStops, Step, Stay, session, Launching, LogRows

\* What an edit does to the launches: it may tell them that the selections were replaced.
LEMMA EditStep ==
    ASSUME TypeOK, NEW e \in Editors, EditSession(e)
    PROVE  /\ log' = log /\ earlier' = earlier /\ status' = status
           /\ launch' \in [Launches -> Launching]
           /\ \A l \in Launches :
                /\ launch'[l].at = launch[l].at /\ launch'[l].issue = launch[l].issue
                /\ launch'[l].shown = launch[l].shown /\ launch'[l].loaded = launch[l].loaded
                /\ launch'[l].made = launch[l].made /\ launch'[l].half = launch[l].half
                /\ launch[l].edited => launch'[l].edited
                /\ launch[l].at \in {"assignment", "log", "load"} => launch'[l].edited \/ selected' = selected
  <1>1. CASE PutSelections(e)
    <2>1. /\ log' = log /\ earlier' = earlier /\ status' = status
          /\ launch' = [l \in Launches |->
                [launch[l] EXCEPT !.edited = launch[l].edited \/ launch[l].at \in {"assignment", "log", "load"}]]
      BY <1>1, Zenon DEF PutSelections
    <2>2. launch \in [Launches -> Launching]
      BY DEF TypeOK
    <2> QED
      <3>1. ASSUME NEW l \in Launches
            PROVE  \E b \in BOOLEAN :
                     /\ b <=> launch[l].edited \/ launch[l].at \in {"assignment", "log", "load"}
                     /\ launch'[l] = [launch[l] EXCEPT !.edited = b]
        <4>1. launch'[l] =
                [launch[l] EXCEPT !.edited = launch[l].edited \/ launch[l].at \in {"assignment", "log", "load"}]
          BY <2>1
        <4>2. (launch[l].edited \/ launch[l].at \in {"assignment", "log", "load"}) \in BOOLEAN
          OBVIOUS
        <4> QED BY <4>1, <4>2, Zenon
      <3>2. ASSUME NEW l \in Launches
            PROVE  /\ launch'[l] \in Launching
                   /\ launch'[l].at = launch[l].at /\ launch'[l].issue = launch[l].issue
                   /\ launch'[l].shown = launch[l].shown /\ launch'[l].loaded = launch[l].loaded
                   /\ launch'[l].made = launch[l].made /\ launch'[l].half = launch[l].half
                   /\ launch'[l].edited <=> launch[l].edited \/ launch[l].at \in {"assignment", "log", "load"}
        <4>1. PICK b \in BOOLEAN : /\ b <=> launch[l].edited \/ launch[l].at \in {"assignment", "log", "load"}
                                  /\ launch'[l] = [launch[l] EXCEPT !.edited = b]
          BY <3>1
        <4>2. launch[l] \in Launching
          BY <2>2
        <4>3. /\ launch'[l] \in Launching
              /\ launch'[l].at = launch[l].at /\ launch'[l].issue = launch[l].issue
              /\ launch'[l].shown = launch[l].shown /\ launch'[l].loaded = launch[l].loaded
              /\ launch'[l].made = launch[l].made /\ launch'[l].half = launch[l].half
              /\ launch'[l].edited = b
          BY <4>1, <4>2 DEF Launching
        <4> QED BY <4>1, <4>3, Zenon
      <3>3. launch' \in [Launches -> Launching]
        BY <2>1, <3>2, Zenon
      <3> QED BY <2>1, <3>2, <3>3, Zenon
  <1>2. CASE ~PutSelections(e)
    <2>1. launch' = launch /\ log' = log /\ earlier' = earlier /\ status' = status /\ selected' = selected
      BY <1>2 DEF EditSession, PatchSession, SelectTemplate, StartEdit, SetTemplateCode, TakeSelections,
                  ReadAssignment, ReplaceAssignment, EditFails, UNTOUCHED, session
    <2>2. QED BY <2>1 DEF TypeOK
  <1>3. QED BY <1>1, <1>2

\* The mark leaves what was made as it is; when it is lost, so is what the preview had shown.
LEMMA MarkStep ==
    ASSUME TypeOK, NEW l \in Launches, MarkSessionLaunched(l)
    PROVE  /\ launch[l].at = "mark" /\ log' = log /\ earlier' = earlier
           /\ launch'[l].made = launch[l].made /\ launch'[l].loaded = launch[l].loaded
           /\ launch'[l].half = launch[l].half
           /\ \/ /\ launch'[l].at = "launched" /\ status' = "launched"
                 /\ launch'[l].shown = launch[l].shown /\ launch'[l].edited = launch[l].edited
              \/ launch'[l].at = "unmarked" /\ status' = status
  <1>0. launch \in [Launches -> Launching] /\ launch[l] \in Launching
    BY DEF TypeOK
  <1>1. launch[l].at = "mark" /\ log' = log /\ earlier' = earlier
    BY DEF MarkSessionLaunched, Step
  <1>2. CASE launch' = [launch EXCEPT ![l] = [launch[l] EXCEPT !.at = "launched"]] /\ status' = "launched"
    BY <1>0, <1>1, <1>2 DEF Launching
  <1>3. CASE launch' = [launch EXCEPT ![l] = Left(l, "unmarked")] /\ status' = status
    <2>1. launch'[l] = Left(l, "unmarked")
      BY <1>0, <1>3
    <2>2. /\ Left(l, "unmarked").at = "unmarked" /\ Left(l, "unmarked").made = launch[l].made
          /\ Left(l, "unmarked").loaded = launch[l].loaded /\ Left(l, "unmarked").half = launch[l].half
      BY <1>0 DEF Left, Launching
    <2> QED BY <1>1, <1>3, <2>1, <2>2
  <1> QED BY <1>2, <1>3 DEF MarkSessionLaunched, Step

\* A launch that is over stays as it is, and none becomes idle again.
LEMMA LaunchMovesOn ==
    ASSUME TypeOK, NEW l \in Launches, LaunchSession(l), ~Launch(l)
    PROVE  launch[l].at \notin Over \cup {"idle"} /\ launch'[l].at # "idle" /\ earlier' = earlier
  <1>0. launch \in [Launches -> Launching] /\ launch[l] \in Launching
    BY DEF TypeOK
  <1>1. CASE PreviewRow(l) \/ PreviewAssignment(l) \/ InsertLaunchLog(l) \/ LoadSessionView(l) \/ LaunchRefused(l)
    <2>1. CASE PreviewRow(l)
      BY <1>0, <2>1 DEF PreviewRow, Step, Launching, Over
    <2>2. CASE PreviewAssignment(l)
      BY <1>0, <2>2 DEF PreviewAssignment, Step, Refused, NotLaunching, Launching, Over
    <2>3. CASE InsertLaunchLog(l) \/ LoadSessionView(l)
      BY <1>0, <2>3 DEF InsertLaunchLog, LoadSessionView, Step, Launching, Over
    <2>4. CASE LaunchRefused(l)
      BY <1>0, <2>4 DEF LaunchRefused, Refused, NotLaunching, Over
    <2> QED BY <1>1, <2>1, <2>2, <2>3, <2>4
  <1>2. CASE PreviewPresets(l)
    <2>1. PICK b : launch' = [launch EXCEPT ![l] = [launch[l] EXCEPT !.at = "assignment", !.shown = selected, !.issue = b]]
      BY <1>2, Zenon DEF PreviewPresets, Step
    <2> QED BY <1>0, <1>2, <2>1 DEF PreviewPresets, Step, Launching, Over
  <1>3. CASE Instantiate(l) \/ LaunchFails(l) \/ FinishLaunchLog(l)
    BY <1>0, <1>3 DEF Instantiate, LaunchFails, FinishLaunchLog, Step, Launching, Over
  <1>4. CASE InstantiateFails(l)
    <2>1. PICK p \in launch[l].loaded \ launch[l].made : \E half \in {{}, {p} \cap Jobs} :
            Step(l, "make", [Left(l, "fail") EXCEPT !.half = half])
      BY <1>4 DEF InstantiateFails
    <2>2. PICK half \in {{}, {p} \cap Jobs} : Step(l, "make", [Left(l, "fail") EXCEPT !.half = half])
      BY <2>1
    <2>3. launch'[l].at = "fail" /\ launch[l].at = "make"
      BY <1>0, <2>2 DEF Step, Left, Launching
    <2> QED BY <1>4, <2>3 DEF InstantiateFails, Over
  <1>5. CASE MarkSessionLaunched(l)
    BY <1>5, MarkStep DEF Over
  <1>6. CASE LaunchStops(l)
    BY <1>0, <1>6 DEF LaunchStops, Left, Launching, Over
  <1> QED BY <1>1, <1>2, <1>3, <1>4, <1>5, <1>6 DEF LaunchSession

\* The editors keep their types, and so does what they write.
LEMMA EditTypes ==
    ASSUME TypeOK, NEW e \in Editors, EditSession(e)
    PROVE  TypeOK'
  <1>1. /\ log' = log /\ earlier' = earlier /\ status' = status
        /\ launch' \in [Launches -> Launching]
        /\ \A l \in Launches : launch'[l].made = launch[l].made /\ launch'[l].loaded = launch[l].loaded
    BY EditStep
  <1>2. /\ templated' \in BOOLEAN /\ selected' \subseteq Presets /\ assignment' \subseteq Users
        /\ editor' \in [Editors -> Editing] /\ edits' \in 0..MaxEdits
    <2>0. /\ templated \in BOOLEAN /\ selected \subseteq Presets /\ assignment \subseteq Users
          /\ editor \in [Editors -> Editing] /\ edits \in 0..MaxEdits /\ MaxEdits \in Nat
      BY EditsAssumption DEF TypeOK
    <2>1. CASE PatchSession(e)
      <3>1. PICK p \in Patches :
              StartEdit(e, [NotEditing EXCEPT !.at = IF "presets" \in p.gives THEN "take" ELSE "read",
                                              !.gives = p.gives, !.presets = p.presets, !.users = p.users])
        BY <2>1 DEF PatchSession
      <3>2. p.gives \in SUBSET {"presets", "assignment"} /\ p.presets \in SUBSET Presets /\ p.users \in SUBSET Users
        BY PatchesAssumption DEF Users
      <3>3. [NotEditing EXCEPT !.at = IF "presets" \in p.gives THEN "take" ELSE "read",
                               !.gives = p.gives, !.presets = p.presets, !.users = p.users] \in Editing
        BY <3>2 DEF NotEditing, Editing
      <3> QED BY <2>0, <3>1, <3>3 DEF StartEdit, session
    <2>2. CASE SelectTemplate(e)
      <3>1. PICK t \in DOMAIN Templates :
              StartEdit(e, [NotEditing EXCEPT !.at = "template", !.presets = Templates[t]])
        BY <2>2 DEF SelectTemplate
      <3>2. [NotEditing EXCEPT !.at = "template", !.presets = Templates[t]] \in Editing
        BY TemplatesAssumption DEF NotEditing, Editing
      <3> QED BY <2>0, <3>1, <3>2 DEF StartEdit, session
    <2>3. CASE SetTemplateCode(e)
      BY <2>0, <2>3 DEF SetTemplateCode, Editing, NotEditing
    <2>4. CASE TakeSelections(e)
      <3>1. editor' = [editor EXCEPT ![e] = [editor[e] EXCEPT !.at = "put", !.taken = selected]]
        BY <2>0, <2>4 DEF TakeSelections
      <3>2. [editor[e] EXCEPT !.at = "put", !.taken = selected] \in Editing
        BY <2>0 DEF Editing
      <3> QED BY <2>0, <2>4, <3>1, <3>2 DEF TakeSelections, session
    <2>5. CASE PutSelections(e)
      <3>1. selected' = (selected \ editor[e].taken) \cup editor[e].presets
        BY <2>5 DEF PutSelections
      <3>2. editor' = [f \in Editors |-> IF f = e THEN NextPart(editor[e])
                                         ELSE [editor[f] EXCEPT !.taken = editor[f].taken \ editor[e].taken]]
        BY <2>5, Zenon DEF PutSelections
      <3>3. NextPart(editor[e]) \in Editing
        BY <2>0 DEF NextPart, Editing, NotEditing
      <3>4. \A f \in Editors : [editor[f] EXCEPT !.taken = editor[f].taken \ editor[e].taken] \in Editing
        BY <2>0 DEF Editing
      <3>5. editor' \in [Editors -> Editing]
        BY <3>2, <3>3, <3>4
      <3>6. templated' = templated /\ assignment' = assignment /\ edits' = edits
        BY <2>5 DEF PutSelections
      <3> QED BY <2>0, <3>1, <3>5, <3>6 DEF Editing
    <2>6. CASE ReadAssignment(e)
      BY <2>0, <2>6 DEF ReadAssignment, session, Editing
    <2>7. CASE ReplaceAssignment(e)
      <3>1. editor' = [f \in Editors |->
                         IF f = e THEN NotEditing
                         ELSE [editor[f] EXCEPT !.stale = editor[f].stale \/ editor[f].at = "write"]]
        BY <2>7, Zenon DEF ReplaceAssignment
      <3>2. NotEditing \in Editing
        BY DEF NotEditing, Editing
      <3>3. ASSUME NEW f \in Editors
            PROVE  [editor[f] EXCEPT !.stale = editor[f].stale \/ editor[f].at = "write"] \in Editing
        <4>1. PICK b \in BOOLEAN : b = (editor[f].stale \/ editor[f].at = "write")
          BY Zenon
        <4>2. [editor[f] EXCEPT !.stale = b] \in Editing
          BY <2>0 DEF Editing
        <4> QED BY <4>1, <4>2, Zenon
      <3>4. editor' \in [Editors -> Editing]
        BY <3>1, <3>2, <3>3, Zenon
      <3>5. assignment' = editor[e].read \cup editor[e].users
        BY <2>7 DEF ReplaceAssignment
      <3>6. templated' = templated /\ selected' = selected /\ edits' = edits
        BY <2>7 DEF ReplaceAssignment
      <3> QED BY <2>0, <3>4, <3>5, <3>6 DEF Editing
    <2>8. CASE EditFails(e)
      BY <2>0, <2>8 DEF EditFails, session, Editing, NotEditing
    <2> QED BY <2>1, <2>2, <2>3, <2>4, <2>5, <2>6, <2>7, <2>8 DEF EditSession
  <1> QED BY <1>1, <1>2 DEF TypeOK

\* The launches keep their types, whatever is loaded and made.
LEMMA LaunchTypes ==
    ASSUME TypeOK, LaunchInv, NEW l \in Launches, LaunchSession(l)
    PROVE  TypeOK'
  <1>0. /\ launch \in [Launches -> Launching] /\ log \in [Launches -> LogRows]
        /\ status \in {"draft", "launched"} /\ selected \subseteq Presets
        /\ earlier \subseteq Launches \X Launches
        /\ launch[l] \in Launching /\ launch[l].made \subseteq launch[l].loaded
    BY DEF TypeOK
  <1>1. /\ selected' = selected /\ assignment' = assignment /\ templated' = templated
        /\ editor' = editor /\ edits' = edits
        /\ \A k \in Launches : k # l => launch'[k] = launch[k] /\ log'[k] = log[k]
    BY LaunchStep
  <1>2. NotLaunching \in Launching /\ Refused \in Launching
    BY DEF NotLaunching, Refused, Launching, Over
  <1>3. \A stage \in {"fail", "unmarked", "stopped"} :
           /\ Left(l, stage) \in Launching
           /\ Left(l, stage).made = launch[l].made /\ Left(l, stage).loaded = launch[l].loaded
    BY <1>0 DEF Left, Launching, Over
  <1>4. /\ launch' \in [Launches -> Launching] /\ launch'[l].made \subseteq launch'[l].loaded
        /\ log' \in [Launches -> LogRows] /\ status' \in {"draft", "launched"}
        /\ earlier' \subseteq Launches \X Launches
    <2>1. CASE Launch(l)
      BY <1>0, <1>2, <2>1 DEF Launch, Step, Stay, session, NotLaunching, Refused, Launching
    <2>2. CASE PreviewRow(l)
      BY <1>0, <2>2 DEF PreviewRow, Step, Stay, session, Launching
    <2>3. CASE PreviewPresets(l)
      <3>1. PICK b \in BOOLEAN : b = (launch[l].issue \/ selected = {})
        BY Zenon
      <3>2. launch' = [launch EXCEPT ![l] = [launch[l] EXCEPT !.at = "assignment", !.shown = selected, !.issue = b]]
        BY <2>3, <3>1, Zenon DEF PreviewPresets, Step
      <3>3. log' = log /\ earlier' = earlier /\ status' = status
        BY <2>3 DEF PreviewPresets, Stay, session
      <3> QED BY <1>0, <3>2, <3>3 DEF Launching
    <2>4. CASE PreviewAssignment(l)
      BY <1>0, <1>2, <2>4 DEF PreviewAssignment, Step, Stay, session, NotLaunching, Refused, Launching
    <2>5. CASE InsertLaunchLog(l)
      <3>1. /\ launch' = [launch EXCEPT ![l] = [launch[l] EXCEPT !.at = "load"]]
            /\ log' = [log EXCEPT ![l].status = "running"] /\ earlier' = earlier /\ status' = status
        BY <2>5 DEF InsertLaunchLog, Step, Stay, session
      <3>2. log' \in [Launches -> LogRows]
        BY <1>0, <3>1 DEF LogRows
      <3> QED BY <1>0, <3>1, <3>2 DEF Launching
    <2>6. CASE LoadSessionView(l)
      <3>1. launch' = [launch EXCEPT ![l] = [launch[l] EXCEPT !.at = "make", !.loaded = selected]]
        BY <2>6 DEF LoadSessionView, Step
      <3>2. launch[l].at = "load" /\ log' = log /\ earlier' = earlier /\ status' = status
        BY <2>6 DEF LoadSessionView, Step, Stay, session
      <3>3. /\ [launch[l] EXCEPT !.at = "make", !.loaded = selected] \in Launching
            /\ [launch[l] EXCEPT !.at = "make", !.loaded = selected].made = launch[l].made
            /\ [launch[l] EXCEPT !.at = "make", !.loaded = selected].loaded = selected
        BY <1>0 DEF Launching
      <3>4. launch[l].made = {}
        BY <3>2 DEF LaunchInv
      <3> QED BY <1>0, <3>1, <3>2, <3>3, <3>4
    <2>7. CASE Instantiate(l)
      BY <1>0, <2>7 DEF Instantiate, Step, Stay, session, Launching
    <2>8. CASE InstantiateFails(l)
      <3>0. PICK p \in launch[l].loaded \ launch[l].made : \E half \in {{}, {p} \cap Jobs} :
              Step(l, "make", [Left(l, "fail") EXCEPT !.half = half])
        BY <2>8 DEF InstantiateFails
      <3>1. PICK half \in {{}, {p} \cap Jobs} : Step(l, "make", [Left(l, "fail") EXCEPT !.half = half])
        BY <3>0
      <3>2. [Left(l, "fail") EXCEPT !.half = half] \in Launching
        BY <1>0, <3>1 DEF Left, Launching
      <3>3. [Left(l, "fail") EXCEPT !.half = half].made = launch[l].made
              /\ [Left(l, "fail") EXCEPT !.half = half].loaded = launch[l].loaded
        BY <1>0 DEF Left, Launching
      <3>4. log' = log /\ earlier' = earlier /\ status' = status
        BY <2>8 DEF InstantiateFails, Stay, session
      <3> QED BY <1>0, <3>1, <3>2, <3>3, <3>4 DEF Step
    <2>9. CASE LaunchFails(l)
      <3>1. launch' = [launch EXCEPT ![l] = [launch[l] EXCEPT !.at = "failed"]] /\ earlier' = earlier /\ status' = status
        BY <2>9 DEF LaunchFails, Step, Stay, session
      <3>2. log' = [log EXCEPT ![l] = [status |-> "failed", created |-> launch[l].made]] \/ log' = log
        BY <2>9 DEF LaunchFails, Outcome
      <3>3. log' \in [Launches -> LogRows]
        BY <1>0, <3>2 DEF LogRows, Launching
      <3> QED BY <1>0, <3>1, <3>3 DEF Launching, Over
    <2>10. CASE FinishLaunchLog(l)
      <3>1. launch' = [launch EXCEPT ![l] = [launch[l] EXCEPT !.at = "mark"]] /\ earlier' = earlier /\ status' = status
        BY <2>10 DEF FinishLaunchLog, Step, Stay, session
      <3>2. log' = [log EXCEPT ![l] = [status |-> "succeeded", created |-> launch[l].made]] \/ log' = log
        BY <2>10 DEF FinishLaunchLog, Outcome
      <3>3. log' \in [Launches -> LogRows]
        BY <1>0, <3>2 DEF LogRows, Launching
      <3> QED BY <1>0, <3>1, <3>3 DEF Launching
    <2>11. CASE MarkSessionLaunched(l)
      <3>1. log' = log /\ earlier' = earlier /\ status' \in {"draft", "launched"}
        BY <1>0, <2>11 DEF MarkSessionLaunched
      <3>2. \/ launch' = [launch EXCEPT ![l] = [launch[l] EXCEPT !.at = "launched"]]
            \/ launch' = [launch EXCEPT ![l] = Left(l, "unmarked")]
        BY <2>11 DEF MarkSessionLaunched, Step
      <3>3. /\ [launch[l] EXCEPT !.at = "launched"] \in Launching
            /\ [launch[l] EXCEPT !.at = "launched"].made = launch[l].made
            /\ [launch[l] EXCEPT !.at = "launched"].loaded = launch[l].loaded
        BY <1>0 DEF Launching, Over
      <3> QED BY <1>0, <1>3, <3>1, <3>2, <3>3
    <2>12. CASE LaunchRefused(l)
      BY <1>0, <1>2, <2>12 DEF LaunchRefused, Stay, session, Refused, NotLaunching
    <2>13. CASE LaunchStops(l)
      <3>1. launch' = [launch EXCEPT ![l] = Left(l, "stopped")] /\ log' = log /\ earlier' = earlier /\ status' = status
        BY <2>13 DEF LaunchStops, Stay, session
      <3> QED BY <1>0, <1>3, <3>1
    <2> QED BY <2>1, <2>2, <2>3, <2>4, <2>5, <2>6, <2>7, <2>8, <2>9, <2>10, <2>11, <2>12, <2>13 DEF LaunchSession
  <1>5. \A k \in Launches : launch'[k].made \subseteq launch'[k].loaded
    BY <1>1, <1>4 DEF TypeOK
  <1> QED BY <1>1, <1>4, <1>5 DEF TypeOK

-----------------------------------------------------------------------------
(* Onboarding: preservation.                                                 *)

\* An edit writes no log and makes nothing: at most it tells the launches that the selections moved.
LEMMA EditKeeps ==
    ASSUME OnboardingInv, NEW e \in Editors, EditSession(e)
    PROVE  LaunchInv' /\ OutcomeInv' /\ PreviewInv' /\ MarkInv' /\ EarlierInv'
  <1>0. TypeOK /\ LaunchInv /\ OutcomeInv /\ PreviewInv /\ MarkInv /\ EarlierInv
    BY DEF OnboardingInv
  <1>1. /\ log' = log /\ earlier' = earlier /\ status' = status
        /\ \A l \in Launches :
             /\ launch'[l].at = launch[l].at /\ launch'[l].issue = launch[l].issue
             /\ launch'[l].shown = launch[l].shown /\ launch'[l].loaded = launch[l].loaded
             /\ launch'[l].made = launch[l].made /\ launch'[l].half = launch[l].half
             /\ launch[l].edited => launch'[l].edited
             /\ launch[l].at \in {"assignment", "log", "load"} => launch'[l].edited \/ selected' = selected
    BY <1>0, EditStep
  <1>2. LaunchInv'
    BY <1>0, <1>1 DEF LaunchInv
  <1>3. OutcomeInv'
    BY <1>0, <1>1 DEF OutcomeInv
  <1>4. PreviewInv'
    BY <1>0, <1>1 DEF PreviewInv
  <1>5. MarkInv'
    BY <1>0, <1>1 DEF MarkInv
  <1>6. EarlierInv'
    BY <1>0, <1>1 DEF EarlierInv
  <1> QED BY <1>2, <1>3, <1>4, <1>5, <1>6

\* Only the write of an assignment changes it, and every other edit that has read it becomes stale.
LEMMA EditorKeeps ==
    ASSUME OnboardingInv, NEW e \in Editors, EditSession(e)
    PROVE  EditorInv'
  <1>0. TypeOK /\ EditorInv /\ editor \in [Editors -> Editing]
    BY DEF OnboardingInv, TypeOK
  <1>1. CASE PatchSession(e)
    <2>1. PICK p \in Patches :
            StartEdit(e, [NotEditing EXCEPT !.at = IF "presets" \in p.gives THEN "take" ELSE "read",
                                            !.gives = p.gives, !.presets = p.presets, !.users = p.users])
      BY <1>1 DEF PatchSession
    <2> QED BY <1>0, <2>1 DEF StartEdit, EditorInv, NotEditing, session
  <1>2. CASE SelectTemplate(e)
    BY <1>0, <1>2 DEF SelectTemplate, StartEdit, EditorInv, NotEditing, session
  <1>3. CASE SetTemplateCode(e)
    BY <1>0, <1>3 DEF SetTemplateCode, EditorInv, NotEditing, Editing
  <1>4. CASE TakeSelections(e)
    BY <1>0, <1>4 DEF TakeSelections, EditorInv, Editing, session
  <1>5. CASE PutSelections(e)
    <2>1. editor' = [f \in Editors |-> IF f = e THEN NextPart(editor[e])
                                       ELSE [editor[f] EXCEPT !.taken = editor[f].taken \ editor[e].taken]]
      BY <1>5, Zenon DEF PutSelections
    <2>2. NextPart(editor[e]).at # "write"
      BY <1>0 DEF NextPart, NotEditing, Editing
    <2>3. assignment' = assignment
      BY <1>5 DEF PutSelections
    <2>4. \A f \in Editors : f # e => /\ editor'[f].at = editor[f].at /\ editor'[f].stale = editor[f].stale
                                      /\ editor'[f].read = editor[f].read
      BY <1>0, <2>1 DEF Editing
    <2>5. editor'[e] = NextPart(editor[e])
      BY <2>1
    <2> QED BY <1>0, <2>2, <2>3, <2>4, <2>5 DEF EditorInv
  <1>6. CASE ReadAssignment(e)
    BY <1>0, <1>6 DEF ReadAssignment, EditorInv, Editing, session
  <1>7. CASE ReplaceAssignment(e)
    <2>1. editor' = [f \in Editors |->
                       IF f = e THEN NotEditing
                       ELSE [editor[f] EXCEPT !.stale = editor[f].stale \/ editor[f].at = "write"]]
      BY <1>7, Zenon DEF ReplaceAssignment
    <2>2. editor'[e].at = "idle"
      BY <2>1 DEF NotEditing
    <2>3. ASSUME NEW f \in Editors, f # e PROVE editor'[f].at = "write" => editor'[f].stale
      <3>1. PICK b \in BOOLEAN : b = (editor[f].stale \/ editor[f].at = "write")
        BY Zenon
      <3>2. editor'[f] = [editor[f] EXCEPT !.stale = b]
        BY <2>1, <2>3, <3>1, Zenon
      <3>3. editor'[f].at = editor[f].at /\ editor'[f].stale = b
        BY <1>0, <3>2 DEF Editing
      <3> QED BY <3>1, <3>3, Zenon
    <2> QED BY <2>2, <2>3 DEF EditorInv
  <1>8. CASE EditFails(e)
    BY <1>0, <1>8 DEF EditFails, EditorInv, NotEditing, session
  <1> QED BY <1>1, <1>2, <1>3, <1>4, <1>5, <1>6, <1>7, <1>8 DEF EditSession

\* Of a launch that moves on: what it has made and logged.
LEMMA LaunchKeeps ==
    ASSUME OnboardingInv, NEW l \in Launches, LaunchSession(l)
    PROVE  LaunchInv' /\ OutcomeInv'
  <1>0. /\ LaunchInv /\ OutcomeInv
        /\ launch \in [Launches -> Launching] /\ log \in [Launches -> LogRows]
        /\ launch[l] \in Launching /\ log[l] \in LogRows
    BY DEF OnboardingInv, TypeOK
  <1>1. \A k \in Launches : k # l => launch'[k] = launch[k] /\ log'[k] = log[k]
    BY LaunchStep DEF OnboardingInv
  <1> DEFINE Kept(w, g) ==
        /\ w.at \in Unlogged => w.made = {} /\ w.loaded = {} /\ w.half = {} /\ g.status = "none"
        /\ w.at = "load" => w.made = {} /\ w.loaded = {} /\ w.half = {}
        /\ w.at \in {"load", "make", "fail"} => g.status = "running"
        /\ w.at = "make" => w.half = {}
        /\ w.at \in {"fail", "failed"} => w.made # w.loaded
        /\ w.at \in Made => w.made = w.loaded /\ w.half = {}
        /\ g.status \in {"none", "running"} => g.created = {}
        /\ g.status = "none" => w.at \in Unlogged
        /\ g.status = "succeeded" =>
             /\ w.at \in Made \cup {"stopped"} /\ w.half = {}
             /\ w.made = w.loaded /\ g.created = w.made
        /\ g.status = "failed" => w.at = "failed" /\ g.created = w.made
  <1>2. \A k \in Launches : Kept(launch[k], log[k])
    BY <1>0 DEF LaunchInv, OutcomeInv
  <1>3. Kept(launch'[l], log'[l])
    <2>0. Kept(launch[l], log[l])
      BY <1>2
    <2> USE DEF Unlogged, Made
    <2>1. CASE Launch(l)
      BY <1>0, <2>0, <2>1 DEF Launch, Step, NotLaunching, Refused
    <2>2. CASE PreviewRow(l)
      BY <1>0, <2>0, <2>2 DEF PreviewRow, Step, Launching
    <2>3. CASE PreviewPresets(l)
      <3>1. PICK b \in BOOLEAN : b = (launch[l].issue \/ selected = {})
        BY Zenon
      <3>2. launch' = [launch EXCEPT ![l] = [launch[l] EXCEPT !.at = "assignment", !.shown = selected, !.issue = b]]
        BY <2>3, <3>1, Zenon DEF PreviewPresets, Step
      <3>3. launch[l].at = "presets" /\ log' = log
        BY <2>3 DEF PreviewPresets, Step
      <3> QED BY <1>0, <2>0, <3>2, <3>3 DEF Launching
    <2>4. CASE PreviewAssignment(l)
      BY <1>0, <2>0, <2>4 DEF PreviewAssignment, Step, NotLaunching, Refused, Launching
    <2>5. CASE InsertLaunchLog(l)
      BY <1>0, <2>0, <2>5 DEF InsertLaunchLog, Step, Launching, LogRows
    <2>6. CASE LoadSessionView(l)
      BY <1>0, <2>0, <2>6 DEF LoadSessionView, Step, Launching
    <2>7. CASE Instantiate(l)
      BY <1>0, <2>0, <2>7 DEF Instantiate, Step, Launching
    <2>8. CASE InstantiateFails(l)
      <3>1. PICK p \in launch[l].loaded \ launch[l].made : \E half \in {{}, {p} \cap Jobs} :
              Step(l, "make", [Left(l, "fail") EXCEPT !.half = half])
        BY <2>8 DEF InstantiateFails
      <3>2. PICK half \in {{}, {p} \cap Jobs} : Step(l, "make", [Left(l, "fail") EXCEPT !.half = half])
        BY <3>1
      <3>3. launch'[l].at = "fail" /\ launch'[l].made = launch[l].made /\ launch'[l].loaded = launch[l].loaded
        BY <1>0, <3>2 DEF Step, Left, Launching
      <3>4. launch[l].at = "make" /\ log' = log
        BY <2>8 DEF InstantiateFails, Step
      <3> QED BY <2>0, <3>1, <3>3, <3>4
    <2>9. CASE LaunchFails(l)
      BY <1>0, <2>0, <2>9 DEF LaunchFails, Step, Outcome, Launching, LogRows
    <2>10. CASE FinishLaunchLog(l)
      BY <1>0, <2>0, <2>10 DEF FinishLaunchLog, Step, Outcome, Launching, LogRows
    <2>11. CASE MarkSessionLaunched(l)
      BY <2>0, <2>11, MarkStep DEF OnboardingInv
    <2>12. CASE LaunchRefused(l)
      BY <1>0, <2>0, <2>12 DEF LaunchRefused, Refused, NotLaunching
    <2>13. CASE LaunchStops(l)
      BY <1>0, <2>0, <2>13 DEF LaunchStops, Left, Launching
    <2> QED BY <2>1, <2>2, <2>3, <2>4, <2>5, <2>6, <2>7, <2>8, <2>9, <2>10, <2>11, <2>12, <2>13 DEF LaunchSession
  <1>4. \A k \in Launches : Kept(launch'[k], log'[k])
    BY <1>1, <1>2, <1>3
  <1> QED BY <1>4 DEF LaunchInv, OutcomeInv

\* Of a launch that moves on: what its preview has accepted, and the mark it leaves.
LEMMA PreviewKeeps ==
    ASSUME OnboardingInv, NEW l \in Launches, LaunchSession(l)
    PROVE  PreviewInv' /\ MarkInv'
  <1>0. /\ LaunchInv /\ PreviewInv /\ MarkInv /\ TypeOK
        /\ launch \in [Launches -> Launching] /\ launch[l] \in Launching
    BY DEF OnboardingInv, TypeOK
  <1>1. selected' = selected /\ \A k \in Launches : k # l => launch'[k] = launch[k]
    BY <1>0, LaunchStep
  <1> DEFINE Kept(w, chosen) ==
        /\ w.at \in {"assignment", "log", "load"} => w.edited \/ w.shown = chosen
        /\ w.at = "assignment" => w.issue \/ w.shown # {}
        /\ w.at \in {"log", "load", "make", "mark", "launched"} => w.shown # {}
        /\ w.at \in {"make", "mark", "launched"} => w.edited \/ w.shown = w.loaded
  <1>2. \A k \in Launches : Kept(launch[k], selected)
    BY <1>0 DEF PreviewInv
  <1>3. /\ Kept(launch'[l], selected)
        /\ launch[l].at # "launched"
        /\ launch'[l].at = "launched" => status' = "launched"
        /\ launch'[l].at # "launched" => status' = status
    <2>0. Kept(launch[l], selected)
      BY <1>2
    <2>1. CASE Launch(l)
      BY <1>0, <2>0, <2>1 DEF Launch, Step, NotLaunching, Refused, Stay, session
    <2>2. CASE PreviewRow(l)
      BY <1>0, <2>0, <2>2 DEF PreviewRow, Step, Launching, Stay, session
    <2>3. CASE PreviewPresets(l)
      <3>1. PICK b \in BOOLEAN : b <=> (launch[l].issue \/ selected = {})
        BY Zenon
      <3>2. launch' = [launch EXCEPT ![l] = [launch[l] EXCEPT !.at = "assignment", !.shown = selected,
                                                              !.issue = launch[l].issue \/ selected = {}]]
        BY <2>3, Zenon DEF PreviewPresets, Step
      <3>3. (launch[l].issue \/ selected = {}) = b
        BY <1>0, <3>1 DEF Launching
      <3>4. launch' = [launch EXCEPT ![l] = [launch[l] EXCEPT !.at = "assignment", !.shown = selected, !.issue = b]]
        BY <3>2, <3>3, Zenon
      <3>5. launch[l].at = "presets" /\ status' = status
        BY <2>3 DEF PreviewPresets, Step, Stay, session
      <3>6. /\ launch'[l].at = "assignment" /\ launch'[l].shown = selected /\ launch'[l].issue = b
        BY <1>0, <3>4 DEF Launching
      <3> QED BY <3>1, <3>5, <3>6
    <2>4. CASE PreviewAssignment(l)
      BY <1>0, <2>0, <2>4 DEF PreviewAssignment, Step, NotLaunching, Refused, Launching, Stay, session
    <2>5. CASE InsertLaunchLog(l)
      BY <1>0, <2>0, <2>5 DEF InsertLaunchLog, Step, Launching, Stay, session
    <2>6. CASE LoadSessionView(l)
      BY <1>0, <2>0, <2>6 DEF LoadSessionView, Step, Launching, Stay, session
    <2>7. CASE Instantiate(l)
      BY <1>0, <2>0, <2>7 DEF Instantiate, Step, Launching, Stay, session
    <2>8. CASE InstantiateFails(l)
      <3>1. PICK p \in launch[l].loaded \ launch[l].made : \E half \in {{}, {p} \cap Jobs} :
              Step(l, "make", [Left(l, "fail") EXCEPT !.half = half])
        BY <2>8 DEF InstantiateFails
      <3>2. PICK half \in {{}, {p} \cap Jobs} : Step(l, "make", [Left(l, "fail") EXCEPT !.half = half])
        BY <3>1
      <3>3. launch'[l].at = "fail" /\ launch[l].at = "make"
        BY <1>0, <3>2 DEF Step, Left, Launching
      <3> QED BY <2>8, <3>3 DEF InstantiateFails, Stay, session
    <2>9. CASE LaunchFails(l)
      BY <1>0, <2>0, <2>9 DEF LaunchFails, Step, Launching, Stay, session
    <2>10. CASE FinishLaunchLog(l)
      BY <1>0, <2>0, <2>10 DEF FinishLaunchLog, Step, Launching, Stay, session
    <2>11. CASE MarkSessionLaunched(l)
      BY <1>0, <2>0, <2>11, MarkStep
    <2>12. CASE LaunchRefused(l)
      BY <1>0, <2>0, <2>12 DEF LaunchRefused, Refused, NotLaunching, Stay, session
    <2>13. CASE LaunchStops(l)
      BY <1>0, <2>0, <2>13 DEF LaunchStops, Left, Launching, Stay, session
    <2> QED BY <2>1, <2>2, <2>3, <2>4, <2>5, <2>6, <2>7, <2>8, <2>9, <2>10, <2>11, <2>12, <2>13 DEF LaunchSession
  <1>4. \A k \in Launches : Kept(launch'[k], selected')
    BY <1>1, <1>2, <1>3
  <1>5. PreviewInv'
    BY <1>4 DEF PreviewInv
  <1>6. MarkInv'
    BY <1>0, <1>1, <1>3 DEF MarkInv
  <1> QED BY <1>5, <1>6

\* A launch that begins after another was over finds what that one left; one that is over stays so.
LEMMA EarlierKeeps ==
    ASSUME OnboardingInv, NEW l \in Launches, LaunchSession(l)
    PROVE  EarlierInv'
  <1>0. /\ TypeOK /\ MarkInv /\ EarlierInv
        /\ launch \in [Launches -> Launching] /\ launch[l] \in Launching
    BY DEF OnboardingInv, TypeOK
  <1>1. \A k \in Launches : k # l => launch'[k] = launch[k]
    BY <1>0, LaunchStep
  <1>2. CASE Launch(l)
    <2>1. /\ launch[l].at = "idle"
          /\ earlier' = earlier \cup ({k \in Launches : launch[k].at \in Over} \X {l})
          /\ launch'[l].at = IF status = "launched" THEN "refused" ELSE "row"
      BY <1>0, <1>2 DEF Launch, Step, Refused, NotLaunching
    <2>2. \A k \in Launches : <<l, k>> \notin earlier'
      BY <1>0, <2>1 DEF EarlierInv, Over
    <2>3. \A k \in Launches : <<k, l>> \in earlier' =>
             /\ k # l /\ launch[k].at \in Over
             /\ launch[k].at = "launched" => launch'[l].at = "refused"
      BY <1>0, <2>1, <2>2 DEF EarlierInv, MarkInv
    <2>4. launch'[l].at # "idle"
      BY <2>1
    <2> QED BY <1>0, <1>1, <2>1, <2>2, <2>3, <2>4 DEF EarlierInv
  <1>3. CASE ~Launch(l)
    <2>1. earlier' = earlier /\ launch[l].at \notin Over \cup {"idle"} /\ launch'[l].at # "idle"
      BY <1>0, <1>3, LaunchMovesOn
    <2>2. \A k \in Launches : <<l, k>> \notin earlier
      BY <1>0, <2>1 DEF EarlierInv
    <2>3. \A k \in Launches : <<k, l>> \in earlier => launch[k].at # "launched"
      BY <1>0, <2>1 DEF EarlierInv, Over
    <2> QED BY <1>0, <1>1, <2>1, <2>2, <2>3 DEF EarlierInv
  <1> QED BY <1>2, <1>3

-----------------------------------------------------------------------------
(* Onboarding: the invariant and what follows from it.                      *)

LEMMA OnboardingInit == Init => OnboardingInv
<1> SUFFICES ASSUME Init PROVE OnboardingInv
  OBVIOUS
<1>1. TypeOK
  <2>1. NotEditing \in Editing /\ NotLaunching \in Launching
    BY DEF NotEditing, Editing, NotLaunching, Launching, Over
  <2>2. [status |-> "none", created |-> {}] \in LogRows
    BY DEF LogRows
  <2>3. NotLaunching.made \subseteq NotLaunching.loaded
    BY DEF NotLaunching
  <2> QED BY <2>1, <2>2, <2>3, EditsAssumption DEF Init, TypeOK
<1>2. LaunchInv
  BY DEF Init, LaunchInv, NotLaunching, Made
<1>3. OutcomeInv
  BY DEF Init, OutcomeInv, NotLaunching, Unlogged
<1>4. PreviewInv
  BY DEF Init, PreviewInv, NotLaunching
<1>5. MarkInv /\ EarlierInv
  BY DEF Init, MarkInv, EarlierInv, NotLaunching
<1>6. EditorInv
  BY DEF Init, EditorInv, NotEditing
<1> QED BY <1>1, <1>2, <1>3, <1>4, <1>5, <1>6 DEF OnboardingInv

LEMMA OnboardingStep == OnboardingInv /\ [Next]_vars => OnboardingInv'
<1> SUFFICES ASSUME OnboardingInv, [Next]_vars PROVE OnboardingInv'
  OBVIOUS
<1>0. TypeOK /\ LaunchInv /\ EditorInv
  BY DEF OnboardingInv
<1>1. ASSUME NEW e \in Editors, EditSession(e) PROVE OnboardingInv'
  BY <1>0, <1>1, EditTypes, EditKeeps, EditorKeeps DEF OnboardingInv
<1>2. ASSUME NEW l \in Launches, LaunchSession(l) PROVE OnboardingInv'
  <2>1. EditorInv'
    BY <1>0, <1>2, LaunchStep DEF EditorInv
  <2> QED BY <1>0, <1>2, <2>1, LaunchTypes, LaunchKeeps, PreviewKeeps, EarlierKeeps DEF OnboardingInv
<1>3. CASE UNCHANGED vars
  BY <1>3 DEF OnboardingInv, vars, TypeOK, LaunchInv, OutcomeInv, PreviewInv, MarkInv, EarlierInv, EditorInv
<1> QED BY <1>1, <1>2, <1>3 DEF Next

LEMMA OnboardingInvariant == Spec => []OnboardingInv
<1> QED BY OnboardingInit, OnboardingStep, PTL DEF Spec

\* Types of the session, its edits, its launches and their log rows.
THEOREM OnboardingTypes == Spec => []TypeOK
<1>1. OnboardingInv => TypeOK
  BY DEF OnboardingInv
<1> QED BY <1>1, OnboardingInvariant, PTL

\* Whatever fails on the way, a log row with an outcome agrees with what its launch has made
\* (Launch and FinishLaunchLog).
THEOREM LogIsTrue == Spec => []LogTellsTheTruth
<1>1. OnboardingInv => LogTellsTheTruth
  <2> SUFFICES ASSUME OnboardingInv, NEW l \in Launches
               PROVE  /\ launch[l].made \cup launch[l].half # {} => log[l].status # "none"
                      /\ log[l].status = "succeeded" => log[l].created = launch[l].loaded /\ launch[l].half = {}
                      /\ log[l].status = "failed" => log[l].created = launch[l].made /\ launch[l].made # launch[l].loaded
                      /\ log[l].created \subseteq launch[l].made
    BY DEF LogTellsTheTruth
  <2>1. LaunchInv /\ OutcomeInv /\ log[l].status \in {"none", "running", "succeeded", "failed"}
    BY DEF OnboardingInv, TypeOK, LogRows
  <2> QED BY <2>1 DEF LaunchInv, OutcomeInv
<1> QED BY <1>1, OnboardingInvariant, PTL

\* A session marked as launched has a launch that made what its preview had accepted, however
\* edits fell between its two reads of the session, unless they replaced the selections.
THEOREM LaunchedIsPreviewed == Spec => []LaunchedAsPreviewed
<1>1. OnboardingInv => LaunchedAsPreviewed
  <2> SUFFICES ASSUME OnboardingInv, status = "launched"
               PROVE  \E l \in Launches :
                        /\ launch[l].at = "launched"
                        /\ launch[l].made = launch[l].loaded
                        /\ launch[l].edited \/ (launch[l].made = launch[l].shown /\ launch[l].shown # {})
    BY DEF LaunchedAsPreviewed
  <2>1. PICK l \in Launches : launch[l].at = "launched"
    BY DEF OnboardingInv, MarkInv
  <2>2. launch[l].made = launch[l].loaded
    BY <2>1 DEF OnboardingInv, LaunchInv, Made
  <2>3. launch[l].shown # {} /\ (launch[l].edited \/ launch[l].shown = launch[l].loaded)
    BY <2>1 DEF OnboardingInv, PreviewInv
  <2> QED BY <2>1, <2>2, <2>3
<1> QED BY <1>1, OnboardingInvariant, PTL

\* A second set of objects comes from launches that overlapped, or after one that failed on the
\* way, stopped or lost its mark.
THEOREM RepeatsAreExplained == Spec => []RepeatsHaveACause
<1>1. OnboardingInv => RepeatsHaveACause
  <2> SUFFICES ASSUME OnboardingInv, NEW l \in Launches, NEW k \in Launches, <<l, k>> \in earlier,
                      launch[l].made # {}, launch[k].made # {}
               PROVE  launch[l].at \in {"failed", "stopped", "unmarked"}
    BY DEF RepeatsHaveACause
  <2>1. launch[l].at \in Over /\ (launch[l].at = "launched" => launch[k].at = "refused")
    BY DEF OnboardingInv, EarlierInv
  <2>2. launch[l].at # "refused" /\ launch[k].at # "refused"
    BY DEF OnboardingInv, LaunchInv, Unlogged
  <2> QED BY <2>1, <2>2 DEF Over
<1> QED BY <1>1, OnboardingInvariant, PTL

\* No step drops a user of the assignment draft but the write of an edit that had not read it, or
\* had read it before another edit wrote it.
THEOREM AssignmentKept == Spec => AssignmentIsKept
<1>1. ASSUME OnboardingInv, [Next]_vars,
             NEW u \in assignment \ assignment'
      PROVE  \E e \in Editors : editor[e].at = "write" /\ editor'[e].at = "idle" /\ editor[e].stale
  <2>0. TypeOK /\ EditorInv /\ editor \in [Editors -> Editing]
    BY <1>1 DEF OnboardingInv, TypeOK
  <2>1. PICK e \in Editors : EditSession(e)
    <3>1. ~ UNCHANGED vars
      BY <1>1 DEF vars
    <3>2. ASSUME NEW l \in Launches, LaunchSession(l) PROVE FALSE
      BY <1>1, <2>0, <3>2, LaunchStep
    <3> QED BY <1>1, <3>1, <3>2 DEF Next
  <2>2. ReplaceAssignment(e)
    BY <1>1, <2>1 DEF EditSession, PatchSession, SelectTemplate, StartEdit, SetTemplateCode, TakeSelections,
                      PutSelections, ReadAssignment, EditFails, session
  <2>3. editor[e].at = "write" /\ u \notin editor[e].read
    BY <1>1, <2>2 DEF ReplaceAssignment
  <2>4. editor[e].stale
    BY <1>1, <2>0, <2>3 DEF EditorInv
  <2>5. editor'[e] = NotEditing
    <3>1. editor' = [f \in Editors |->
                       IF f = e THEN NotEditing
                       ELSE [editor[f] EXCEPT !.stale = editor[f].stale \/ editor[f].at = "write"]]
      BY <2>2, Zenon DEF ReplaceAssignment
    <3> QED BY <3>1, Zenon
  <2> QED BY <2>3, <2>4, <2>5 DEF NotEditing
<1>2. OnboardingInv /\ [Next]_vars =>
        [\A u \in assignment \ assignment' :
           \E e \in Editors : editor[e].at = "write" /\ editor'[e].at = "idle" /\ editor[e].stale]_vars
  BY <1>1
<1> QED BY <1>2, OnboardingInvariant, PTL DEF Spec, AssignmentIsKept

-----------------------------------------------------------------------------
(* Builders: the invariant.                                                 *)

\* Steps at which a clean request knows the code of its scenario as the old one.
MirrorSteps == {"unmirror", "copy", "write", "drop", "delete", "mirror", "commit"}
Renaming(q) == req[q].new \notin {None, req[q].old}

\* What a request holds follows from its step.
Bound(q) ==
    /\ req[q].at \notin ScenarioSteps => req[q].old = None /\ req[q].new = None /\ req[q].cur = None
    /\ req[q].at \in ScenarioSteps => req[q].of \in Scenarios /\ req[q].old # None
    /\ req[q].at \in RoleSteps => req[q].of \in Roles
    /\ req[q].at \in {"editcopy", "editwrite"} /\ req[q].edit.bind => req[q].edit.override # None
    /\ At(q, "unmirror") => req[q].new # req[q].old
    /\ req[q].at \in {"drop", "delete", "mirror", "commit"} => req[q].new = None
    /\ At(q, "resynced") => req[q].new # None /\ req[q].rows \subseteq Roles \X {req[q].new}
    /\ At(q, "commit") => req[q].rows \subseteq Roles \X {req[q].old}
BoundInv == \A q \in Requests : Bound(q)

UniqueInv == \A s, t \in Scenarios : scenario[s].code = scenario[t].code /\ Exists(s) => s = t

\* Nobody else works on the scenario of q, and it has the code q knows.
Clean(q) ==
    LET s == req[q].of
    IN /\ \A p \in Requests \ {q} : req[p].at \in ScenarioSteps => req[p].of # s
       /\ req[q].at \in MirrorSteps => scenario[s].code = req[q].old
       /\ req[q].at \in {"resync", "resynced"} => scenario[s].code = req[q].new /\ Renaming(q)
       /\ At(q, "write") => req[q].cur = req[q].old
       /\ req[q].cur \in {None, req[q].old}
       /\ req[q].at \in {"mirror", "commit"} => scenario[s].seen \subseteq req[q].taken

\* Nothing q may write or finds is a code of which anything is promised.
Tainted(q) == CodesOf(q) \cup ({req[q].cur, scenario[req[q].of].code} \ {None}) \subseteq foul

CleanInv == \A q \in Requests : req[q].at \in ScenarioSteps => Clean(q) \/ Tainted(q)

\* Between two transactions of q the roles that see the scenario of code c have no key.
Disturbs(q, c) ==
    \/ req[q].old = c /\ (At(q, "drop") \/ (req[q].at \in {"copy", "write"} /\ Renaming(q)))
    \/ req[q].new = c /\ req[q].at \in {"resync", "resynced"}

\* The key of code c for role r is as the bindings say.
Key(c, r) ==
    <<r, c>> \in mirror <=>
        /\ \E s \in Scenarios : scenario[s].code = c /\ r \in scenario[s].seen
        /\ \A q \in Requests : ~Disturbs(q, c)
KeyInv == \A c \in Codes \ foul : \A r \in Roles : Key(c, r)

\* What q will delete when it commits: all keys of its code.
Rows(q) ==
    /\ At(q, "resynced") /\ req[q].new \notin foul => req[q].rows = {}
    /\ At(q, "commit") /\ req[q].old \notin foul => Keyed(req[q].old) \subseteq req[q].rows
RowsInv == \A q \in Requests : Rows(q)

\* Roles that see a scenario, or are about to, exist.
SeenInv ==
    /\ \A s \in Scenarios : \A r \in scenario[s].seen : role[r] # None
    /\ \A q \in Requests : At(q, "commit") => \A r \in req[q].seen : role[r] # None

PatchSteps == {"govern", "editcopy", "editwrite", "clonegovern", "clone"}

\* A patch or clone of a role no request is loose with works on it alone, and what it was checked
\* with still is what the role has; a clone is checked already.
Confines(q) ==
    LET r == req[q].of
        e == req[q].edit
    IN req[q].at \in PatchSteps /\ r \notin loose =>
        /\ \A p \in Requests \ {q} : req[p].at \in PatchSteps => req[p].of # r
        /\ At(q, "clone") => Allowed(req[q].copy.override, req[q].copy.scope)
        /\ ~e.bind => e.scope = None
        /\ role[r] # None =>
             /\ At(q, "govern") => req[q].copy.scope = Given(e.scope, role[r].scope)
             /\ req[q].at \in {"editcopy", "editwrite"} /\ e.bind =>
                   e.override # None /\ Allowed(e.override, Given(e.scope, role[r].scope))
             /\ req[q].at \in {"editwrite", "clonegovern"} => req[q].copy = role[r]
RoleInv == OverrideIsConfined /\ \A q \in Requests : Confines(q)

MirrorInv == BoundInv /\ UniqueInv /\ CleanInv /\ KeyInv /\ RowsInv
BuildersInv == BuildersTypeOK /\ MirrorInv /\ SeenInv /\ RoleInv

-----------------------------------------------------------------------------
(* Builders: what a step does to the requests.                              *)

\* What a step of q leaves of the other requests: all but rows and bindings it has taken.
Others(q) ==
    \A p \in Requests \ {q} :
        /\ req'[p].at = req[p].at /\ req'[p].of = req[p].of
        /\ req'[p].old = req[p].old /\ req'[p].new = req[p].new /\ req'[p].cur = req[p].cur
        /\ req'[p].seen = req[p].seen /\ req'[p].edit = req[p].edit /\ req'[p].copy = req[p].copy
        /\ req'[p].rows \subseteq req[p].rows
        /\ (req[p].of # req[q].of \/ req[q].at # "commit") => req'[p].taken = req[p].taken

\* Where q is, and of the codes it works with, after a step.
Becomes(q, step, of, old, new, cur) ==
    /\ req'[q].at = step /\ req'[q].of = of
    /\ req'[q].old = old /\ req'[q].new = new /\ req'[q].cur = cur

LEMMA NotMadeTyped ==
    /\ NotMade \in Requested
    /\ [NotMade EXCEPT !.at = "crashed"] \in Requested
    /\ NotMade.at = "idle" /\ NotMade.of = None /\ NotMade.old = None /\ NotMade.new = None /\ NotMade.cur = None
    /\ NotMade.rows = {} /\ NotMade.seen = {} /\ NotMade.taken = {} /\ NotMade.edit = NoEdit
    /\ NotMade.copy \in RoleRows
BY ScopesAssumption, OverridesAssumption DEF NotMade, Requested, RoleRows, EditRows, NoEdit

\* A step that writes only the state of its own request.
LEMMA OwnStep ==
    ASSUME BuildersTypeOK, NEW q \in Requests, NEW x \in Requested, req' = [req EXCEPT ![q] = x]
    PROVE  /\ req' \in [Requests -> Requested]
           /\ Others(q) /\ req'[q] = x
           /\ \A p \in Requests \ {q} : req'[p] = req[p]
BY DEF BuildersTypeOK, Others

\* An answer.
LEMMA AnswerStep ==
    ASSUME BuildersTypeOK, NEW q \in Requests, Answer(q)
    PROVE  /\ req' \in [Requests -> Requested]
           /\ Others(q) /\ req'[q] = NotMade
           /\ \A p \in Requests \ {q} : req'[p] = req[p]
BY OwnStep, NotMadeTyped DEF Answer

\* A commit that takes rows from the DELETEs of others.
LEMMA AdvanceStep ==
    ASSUME BuildersTypeOK, NEW q \in Requests, NEW x \in Requested, NEW R, Advance(q, x, R)
    PROVE  /\ req' \in [Requests -> Requested]
           /\ Others(q) /\ req'[q] = x
           /\ \A p \in Requests \ {q} : req'[p].rows = req[p].rows \ R
<1>1. ASSUME NEW p \in Requests \ {q}
      PROVE  req'[p] \in Requested /\ req'[p] = [req[p] EXCEPT !.rows = @ \ R] /\ req'[p].rows = req[p].rows \ R
  <2>1. PICK a \in Requested : a = req[p]
    BY DEF BuildersTypeOK
  <2>2. PICK rest \in SUBSET (Roles \X Codes) : rest = a.rows \ R
    BY DEF Requested
  <2>3. req'[p] = [a EXCEPT !.rows = rest]
    BY <2>1, <2>2 DEF Advance
  <2>4. [a EXCEPT !.rows = rest] \in Requested
    BY DEF Requested
  <2> QED
    BY <2>1, <2>2, <2>3, <2>4 DEF Requested
<1>4. req'[q] = x
  BY DEF Advance
<1>5. req' \in [Requests -> Requested]
  BY <1>1, <1>4 DEF Advance
<1>6. Others(q)
  <2> SUFFICES ASSUME NEW p \in Requests \ {q}
               PROVE  /\ req'[p].at = req[p].at /\ req'[p].of = req[p].of
                      /\ req'[p].old = req[p].old /\ req'[p].new = req[p].new /\ req'[p].cur = req[p].cur
                      /\ req'[p].seen = req[p].seen /\ req'[p].edit = req[p].edit /\ req'[p].copy = req[p].copy
                      /\ req'[p].rows \subseteq req[p].rows
                      /\ req'[p].taken = req[p].taken
    BY DEF Others
  <2>1. PICK a \in Requested : a = req[p]
    BY DEF BuildersTypeOK
  <2>2. req'[p] = [a EXCEPT !.rows = a.rows \ R]
    BY <1>1, <2>1
  <2> QED
    BY <2>1, <2>2 DEF Requested
<1> QED
  BY <1>1, <1>4, <1>5, <1>6

\* GetCode: the codes and the roles a request of Scenario Builder starts with.
LEMMA ReadCodeStep ==
    ASSUME BuildersTypeOK, BoundInv, NEW q \in Requests, NEW s \in Scenarios, NEW new \in Codes \cup {None},
           NEW seen \in SUBSET Roles, NEW step \in ScenarioSteps, ReadCode(q, s, new, seen, step)
    PROVE  /\ req' \in [Requests -> Requested]
           /\ Others(q) /\ Becomes(q, step, s, scenario[s].code, new, None)
<1> DEFINE x == [req[q] EXCEPT !.at = step, !.of = s, !.old = scenario[s].code, !.new = new, !.seen = seen]
<1>1. req[q].at = "idle" /\ req[q].cur = None
  BY DEF ReadCode, At, BoundInv, Bound, ScenarioSteps
<1>2. PICK a \in Requested : a = req[q]
  BY DEF BuildersTypeOK
<1>3. PICK old \in Codes \cup {None} : old = scenario[s].code
  BY DEF BuildersTypeOK
<1>4. x = [a EXCEPT !.at = step, !.of = s, !.old = old, !.new = new, !.seen = seen]
  BY <1>2, <1>3
<1>5. x \in Requested
  BY <1>4 DEF Requested
<1>6. x.at = step /\ x.of = s /\ x.old = scenario[s].code /\ x.new = new /\ x.cur = None
  BY <1>1, <1>2, <1>3, <1>4 DEF Requested
<1>7. req' = [req EXCEPT ![q] = x]
  BY DEF ReadCode, BuildersTypeOK
<1> HIDE DEF x
<1> QED
  BY <1>5, <1>6, <1>7, OwnStep DEF Becomes

\* A step that only moves on.
LEMMA GoStep ==
    ASSUME BuildersTypeOK, NEW q \in Requests, NEW step \in ScenarioSteps \cup RoleSteps, Go(q, step)
    PROVE  /\ req' \in [Requests -> Requested]
           /\ Others(q) /\ Becomes(q, step, req[q].of, req[q].old, req[q].new, req[q].cur)
           /\ \A p \in Requests \ {q} : req'[p] = req[p]
<1> DEFINE x == [req[q] EXCEPT !.at = step]
<1>1. x \in Requested /\ req' = [req EXCEPT ![q] = x]
  BY DEF Go, BuildersTypeOK, Requested
<1>2. x.at = step /\ x.of = req[q].of /\ x.old = req[q].old /\ x.new = req[q].new /\ x.cur = req[q].cur
  BY DEF BuildersTypeOK, Requested
<1> HIDE DEF x
<1> QED
  BY <1>1, <1>2, OwnStep DEF Becomes

\* The transaction of the bindings takes rows, and bindings of its scenario, from others.
LEMMA CommitStep ==
    ASSUME BuildersTypeOK, NEW q \in Requests, ReplaceCommit(q)
    PROVE  /\ req' \in [Requests -> Requested]
           /\ Others(q) /\ req'[q] = NotMade
           /\ \A p \in Requests \ {q} : req'[p].rows = req[p].rows \ req[q].rows
<1> DEFINE s == req[q].of
           T(p) == IF req[p].of = s THEN req[p].taken \ req[q].taken ELSE req[p].taken
<1>0. At(q, "commit")
  BY DEF ReplaceCommit
<1>1. ASSUME NEW p \in Requests \ {q}
      PROVE  /\ req'[p] \in Requested
             /\ req'[p].at = req[p].at /\ req'[p].of = req[p].of
             /\ req'[p].old = req[p].old /\ req'[p].new = req[p].new /\ req'[p].cur = req[p].cur
             /\ req'[p].seen = req[p].seen /\ req'[p].edit = req[p].edit /\ req'[p].copy = req[p].copy
             /\ req'[p].rows = req[p].rows \ req[q].rows
             /\ req[p].of # s => req'[p].taken = req[p].taken
  <2>1. PICK a \in Requested : a = req[p]
    BY DEF BuildersTypeOK
  <2>2. PICK rest \in SUBSET (Roles \X Codes) : rest = a.rows \ req[q].rows
    BY DEF Requested
  <2>3. PICK left \in SUBSET Roles : left = T(p)
    <3>1. T(p) \in SUBSET Roles
      BY <2>1 DEF Requested
    <3> QED
      BY <3>1
  <2>4. req'[p] = [a EXCEPT !.rows = rest, !.taken = left]
    BY <2>1, <2>2, <2>3 DEF ReplaceCommit
  <2>5. [a EXCEPT !.rows = rest, !.taken = left] \in Requested
    BY DEF Requested
  <2>6. req[p].of # s => left = a.taken
    BY <2>1, <2>3
  <2> HIDE DEF T
  <2> QED
    BY <2>1, <2>2, <2>4, <2>5, <2>6 DEF Requested
<1>2. req'[q] = NotMade
  BY DEF ReplaceCommit
<1>3. req' \in [Requests -> Requested]
  BY <1>1, <1>2, NotMadeTyped DEF ReplaceCommit
<1>4. Others(q)
  BY <1>0, <1>1 DEF Others, At
<1> QED
  BY <1>1, <1>2, <1>3, <1>4
-----------------------------------------------------------------------------
(* Builders: what others keep.                                              *)

LEMMA OthersBound ==
    ASSUME BoundInv, NEW q \in Requests, Others(q), Bound(q)'
    PROVE  BoundInv'
BY DEF BoundInv, Bound, Others, At

\* Nobody else writes the scenario of a clean request.
LEMMA OthersClean ==
    ASSUME BoundInv, CleanInv, NEW q \in Requests, Others(q), foul \subseteq foul',
           req'[q].at \in ScenarioSteps => req[q].at \in ScenarioSteps /\ req'[q].of = req[q].of,
           \A s \in Scenarios :
                  \/ scenario'[s].code = scenario[s].code /\ scenario'[s].seen \subseteq scenario[s].seen
                  \/ \A p \in Requests \ {q} : req[p].at \in ScenarioSteps => req[p].of # s
                  \/ /\ req[q].at \in ScenarioSteps /\ req[q].of = s
                     /\ Tainted(q) => scenario'[s].code \in foul \cup {None},
           NEW p \in Requests \ {q}, req[p].at \in ScenarioSteps
    PROVE  Clean(p)' \/ Tainted(p)'
<1>1. req'[p].at = req[p].at /\ req'[p].of = req[p].of /\ req'[p].old = req[p].old
      /\ req'[p].new = req[p].new /\ req'[p].cur = req[p].cur
      /\ (req[p].of # req[q].of \/ req[q].at # "commit" => req'[p].taken = req[p].taken)
  BY DEF Others
<1> DEFINE s == req[p].of
<1>0. s \in Scenarios
  BY DEF BoundInv, Bound
<1>2. CASE Clean(p)
  <2>1. req[q].at \in ScenarioSteps => req[q].of # s
    BY <1>2 DEF Clean
  <2>2. scenario'[s].code = scenario[s].code /\ scenario'[s].seen \subseteq scenario[s].seen
    BY <1>0, <2>1
  <2>3. req'[p].taken = req[p].taken
    BY <1>1, <2>1 DEF ScenarioSteps
  <2>4. \A o \in Requests \ {p} : req'[o].at \in ScenarioSteps => req'[o].of # s
    BY <1>2, <2>1 DEF Others, Clean
  <2>5. Clean(p)'
    BY <1>1, <1>2, <2>2, <2>3, <2>4 DEF Clean, At, Renaming
  <2> QED
    BY <2>5
<1>3. CASE ~Clean(p) /\ Tainted(p)
  <2>1. req[q].at \in ScenarioSteps /\ req[q].of = s => Tainted(q)
    <3>1. SUFFICES ASSUME req[q].at \in ScenarioSteps, req[q].of = s PROVE Tainted(q)
      OBVIOUS
    <3>2. ~Clean(q)
      BY <3>1 DEF Clean
    <3> QED
      BY <3>1, <3>2 DEF CleanInv
  <2>2. scenario'[s].code \in foul' \cup {None}
    BY <1>0, <1>3, <2>1 DEF Tainted
  <2>3. Tainted(p)'
    BY <1>1, <1>3, <2>2 DEF Tainted, CodesOf
  <2> QED
    BY <2>3
<1> QED
  BY <1>2, <1>3 DEF CleanInv

\* A request that disturbs a code is clean, and its scenario has the code.
LEMMA DisturberOwns ==
    ASSUME CleanInv, NEW c \in Codes \ foul, NEW q \in Requests, Disturbs(q, c), None \notin Codes
    PROVE  /\ req[q].at \in ScenarioSteps /\ Clean(q)
           /\ scenario[req[q].of].code = c
<1>1. req[q].at \in ScenarioSteps
  BY DEF Disturbs, At, ScenarioSteps
<1>2. ~Tainted(q)
  BY DEF Tainted, Disturbs, CodesOf
<1>3. Clean(q)
  BY <1>1, <1>2 DEF CleanInv
<1> QED
  BY <1>1, <1>3 DEF Clean, Disturbs, MirrorSteps, At

\* A key that the step does not concern.
LEMMA KeyKept ==
    ASSUME KeyInv, NEW q \in Requests, Others(q), foul \subseteq foul', NEW c \in Codes \ foul', NEW r \in Roles,
           <<r, c>> \in mirror' <=> <<r, c>> \in mirror,
           \A s \in Scenarios : (scenario'[s].code = c /\ r \in scenario'[s].seen)
                                    <=> (scenario[s].code = c /\ r \in scenario[s].seen),
           Disturbs(q, c)' <=> Disturbs(q, c)
    PROVE  Key(c, r)'
<1>1. Key(c, r)
  BY DEF KeyInv
<1>2. \A p \in Requests : Disturbs(p, c)' <=> Disturbs(p, c)
  BY DEF Disturbs, Others, At, Renaming
<1> QED
  BY <1>1, <1>2 DEF Key

\* A step of Scenario Builder that commits nothing.
LEMMA LocalKept ==
    ASSUME MirrorInv, NEW q \in Requests, Others(q), \A p \in Requests \ {q} : req'[p] = req[p],
           UNCHANGED <<scenario, mirror>>, foul \subseteq foul', Bound(q)', Rows(q)',
           req'[q].at \in ScenarioSteps =>
              req[q].at \in ScenarioSteps /\ req'[q].of = req[q].of /\ (Clean(q)' \/ Tainted(q)'),
           \A c \in Codes \ foul' : Disturbs(q, c)' <=> Disturbs(q, c)
    PROVE  MirrorInv'
<1>1. BoundInv'
  BY OthersBound DEF MirrorInv
<1>2. UniqueInv'
  BY DEF MirrorInv, UniqueInv, Exists
<1>3. CleanInv'
  <2>1. ASSUME NEW p \in Requests \ {q}, req'[p].at \in ScenarioSteps PROVE Clean(p)' \/ Tainted(p)'
    BY <2>1, OthersClean DEF MirrorInv
  <2> QED
    BY <2>1 DEF CleanInv
<1>4. KeyInv'
  <2>1. ASSUME NEW c \in Codes \ foul', NEW r \in Roles PROVE Key(c, r)'
    BY KeyKept DEF MirrorInv
  <2> QED
    BY <2>1 DEF KeyInv
<1>5. RowsInv'
  <2>1. ASSUME NEW p \in Requests \ {q} PROVE Rows(p)'
    BY DEF MirrorInv, RowsInv, Rows, At, Keyed
  <2> QED
    BY <2>1 DEF RowsInv
<1> QED
  BY <1>1, <1>2, <1>3, <1>4, <1>5 DEF MirrorInv

\* Keys written into the mirror, or taken from it, that are none of a clean request.
LEMMA RowsKept ==
    ASSUME RowsInv, NEW q \in Requests, Others(q), foul \subseteq foul', NEW R, NEW A,
           mirror' \subseteq (mirror \ R) \cup A,
           \A p \in Requests \ {q} : req'[p].rows = req[p].rows \ R,
           NEW p \in Requests \ {q},
           At(p, "commit") /\ req[p].old \notin foul' => A \cap (Roles \X {req[p].old}) = {}
    PROVE  Rows(p)'
<1>1. req'[p].at = req[p].at /\ req'[p].old = req[p].old /\ req'[p].new = req[p].new
  BY DEF Others
<1>2. Rows(p)
  BY DEF RowsInv
<1>3. At(p, "resynced")' /\ req'[p].new \notin foul' => req'[p].rows = {}
  BY <1>1, <1>2 DEF Rows, At
<1>4. ASSUME At(p, "commit")', req'[p].old \notin foul' PROVE Keyed(req[p].old)' \subseteq req'[p].rows
  BY <1>1, <1>2, <1>4 DEF Rows, At, Keyed
<1> QED
  BY <1>1, <1>3, <1>4 DEF Rows

\* A step of Role Builder that writes no scenario: keys it writes are foul.
LEMMA RoleSideKept ==
    ASSUME MirrorInv, NEW q \in Requests, Others(q), NEW R, NEW A,
           req[q].at \notin ScenarioSteps, req'[q].at \notin ScenarioSteps,
           Bound(q)', UNCHANGED scenario, foul \subseteq foul',
           mirror' = (mirror \ R) \cup A, A \cup (R \cap mirror) \subseteq Roles \X foul',
           \A p \in Requests \ {q} : req'[p].rows = req[p].rows \ R
    PROVE  MirrorInv'
<1>1. BoundInv'
  BY OthersBound DEF MirrorInv
<1>2. UniqueInv'
  BY DEF MirrorInv, UniqueInv, Exists
<1>3. CleanInv'
  <2>1. ASSUME NEW p \in Requests \ {q}, req'[p].at \in ScenarioSteps PROVE Clean(p)' \/ Tainted(p)'
    <3>1. req[p].at \in ScenarioSteps
      BY <2>1 DEF Others
    <3> QED
      BY <3>1, OthersClean DEF MirrorInv
  <2> QED
    BY <2>1 DEF CleanInv
<1>4. KeyInv'
  <2>1. ASSUME NEW c \in Codes \ foul', NEW r \in Roles PROVE Key(c, r)'
    <3>1. <<r, c>> \in mirror' <=> <<r, c>> \in mirror
      OBVIOUS
    <3>2. ~Disturbs(q, c) /\ ~Disturbs(q, c)'
      BY DEF Disturbs, At, ScenarioSteps
    <3> QED
      BY <3>1, <3>2, KeyKept DEF MirrorInv
  <2> QED
    BY <2>1 DEF KeyInv
<1>5. RowsInv'
  <2>1. ASSUME NEW p \in Requests \ {q} PROVE Rows(p)'
    <3>1. req[p].old \notin foul' => A \cap (Roles \X {req[p].old}) = {}
      OBVIOUS
    <3> QED
      BY <3>1, RowsKept DEF MirrorInv
  <2>2. Rows(q)'
    BY DEF Rows, At, ScenarioSteps
  <2> QED
    BY <2>1, <2>2 DEF RowsInv
<1> QED
  BY <1>1, <1>2, <1>3, <1>4, <1>5 DEF MirrorInv
-----------------------------------------------------------------------------
(* Builders: the steps of Scenario Builder.                                 *)

\* A request that starts beside another one for its scenario marks the codes of both.
LEMMA ReadCodeKept ==
    ASSUME BuildersTypeOK, MirrorInv, NEW q \in Requests, NEW s \in Scenarios, NEW new \in Codes \cup {None},
           NEW seen \in SUBSET Roles, NEW step \in {"unmirror", "copy", "delete"},
           ReadCode(q, s, new, seen, step),
           step = "unmirror" => new # scenario[s].code,
           step = "copy" => new \in {None, scenario[s].code},
           step = "delete" => new = None
    PROVE  MirrorInv' /\ req' \in [Requests -> Requested] /\ Others(q) /\ req'[q].at \in ScenarioSteps
<1> DEFINE codes == {scenario[s].code, new}
<1>1. /\ req' \in [Requests -> Requested] /\ Others(q)
      /\ Becomes(q, step, s, scenario[s].code, new, None)
  BY ReadCodeStep DEF MirrorInv, ScenarioSteps
<1>2. /\ At(q, "idle") /\ scenario[s].code # None /\ foul' = foul \cup Meet(s, codes)
      /\ UNCHANGED <<scenario, mirror>>
  BY DEF ReadCode, Exists
<1>3. scenario[s].code \in Codes
  BY <1>2 DEF BuildersTypeOK
<1>4. ASSUME NEW p \in Requests \ {q}, req[p].at \in ScenarioSteps, req[p].of = s
      PROVE  codes \ {None} \subseteq foul' /\ CodesOf(p) \subseteq foul'
  <2>1. p \in {o \in Requests : InProgress(o) /\ req[o].of = s}
    BY <1>4 DEF InProgress
  <2>2. (codes \cup CodesOf(p)) \ {None} \subseteq Meet(s, codes)
    BY <2>1 DEF Meet
  <2>3. None \notin CodesOf(p)
    BY DEF CodesOf
  <2> QED
    BY <1>2, <2>2, <2>3
<1>5. BoundInv'
  <2>1. Bound(q)'
    BY <1>1, <1>2 DEF Bound, At, Becomes, ScenarioSteps, RoleSteps
  <2> QED
    BY <1>1, <2>1, OthersBound DEF MirrorInv
<1>6. UniqueInv'
  BY <1>2 DEF MirrorInv, UniqueInv, Exists
<1>7. CleanInv'
  <2>1. Clean(q)' \/ Tainted(q)'
    <3>1. CASE \E p \in Requests \ {q} : req[p].at \in ScenarioSteps /\ req[p].of = s
      <4>1. codes \ {None} \subseteq foul'
        BY <1>4, <3>1
      <4>2. Tainted(q)'
        BY <1>1, <1>2, <4>1 DEF Tainted, CodesOf, Becomes
      <4> QED
        BY <4>2
    <3>2. CASE \A p \in Requests \ {q} : req[p].at \in ScenarioSteps => req[p].of # s
      <4>1. \A p \in Requests \ {q} : req'[p].at \in ScenarioSteps => req'[p].of # s
        BY <1>1, <3>2 DEF Others
      <4>2. Clean(q)'
        BY <1>1, <1>2, <4>1 DEF Clean, Becomes, At, MirrorSteps
      <4> QED
        BY <4>2
    <3> QED
      BY <3>1, <3>2
  <2>2. ASSUME NEW p \in Requests \ {q}, req'[p].at \in ScenarioSteps PROVE Clean(p)' \/ Tainted(p)'
    <3>1. /\ req[p].at \in ScenarioSteps /\ req'[p].at = req[p].at /\ req'[p].of = req[p].of
          /\ req'[p].old = req[p].old /\ req'[p].new = req[p].new /\ req'[p].cur = req[p].cur
          /\ req'[p].taken = req[p].taken
      BY <1>1, <1>2, <2>2 DEF Others, At
    <3>2. Clean(p) \/ Tainted(p)
      BY <3>1 DEF MirrorInv, CleanInv
    <3>3. CASE req[p].of = s
      <4>1. codes \ {None} \subseteq foul' /\ CodesOf(p) \subseteq foul'
        BY <1>4, <3>1, <3>3
      <4>2. req[p].cur \in foul' \cup {None}
        <5>1. CASE Clean(p)
          BY <4>1, <5>1 DEF Clean, CodesOf
        <5>2. CASE Tainted(p)
          BY <1>2, <5>2 DEF Tainted
        <5> QED
          BY <3>2, <5>1, <5>2
      <4>3. Tainted(p)'
        BY <1>2, <3>1, <3>3, <4>1, <4>2 DEF Tainted, CodesOf
      <4> QED
        BY <4>3
    <3>4. CASE req[p].of # s /\ Clean(p)
      <4>1. \A o \in Requests \ {p} : req'[o].at \in ScenarioSteps => req'[o].of # req[p].of
        BY <1>1, <3>4 DEF Others, Clean, Becomes
      <4>2. Clean(p)'
        BY <1>2, <3>1, <3>4, <4>1 DEF Clean, At, Renaming
      <4> QED
        BY <4>2
    <3>5. CASE Tainted(p)
      <4>1. Tainted(p)'
        BY <1>2, <3>1, <3>5 DEF Tainted, CodesOf
      <4> QED
        BY <4>1
    <3> QED
      BY <3>2, <3>3, <3>4, <3>5
  <2> QED
    BY <2>1, <2>2 DEF CleanInv
<1>8. KeyInv'
  <2>1. ASSUME NEW c \in Codes \ foul', NEW r \in Roles PROVE Key(c, r)'
    <3>1. ~Disturbs(q, c)
      BY <1>2 DEF Disturbs, At
    <3>2. ~Disturbs(q, c)'
      BY <1>1 DEF Disturbs, At, Becomes, Renaming
    <3> QED
      BY <1>1, <1>2, <3>1, <3>2, KeyKept DEF MirrorInv
  <2> QED
    BY <2>1 DEF KeyInv
<1>9. RowsInv'
  <2>1. ASSUME NEW p \in Requests PROVE Rows(p)'
    <3>1. CASE p = q
      BY <1>1, <3>1 DEF Rows, At, Becomes
    <3>2. CASE p # q
      <4>1. req'[p] = req[p]
        BY <3>2 DEF ReadCode, BuildersTypeOK
      <4> QED
        BY <1>2, <4>1 DEF MirrorInv, RowsInv, Rows, At, Keyed
    <3> QED
      BY <3>1, <3>2
  <2> QED
    BY <2>1 DEF RowsInv
<1> QED
  BY <1>1, <1>5, <1>6, <1>7, <1>8, <1>9 DEF MirrorInv, Becomes, ScenarioSteps

\* PATCH, DELETE and the replacement of the bindings begin like this.
LEMMA ScenarioStartKept ==
    ASSUME BuildersTypeOK, MirrorInv, NEW q \in Requests, NEW s \in Scenarios,
           \/ \E new \in Codes \cup {None} : PatchScenario(q, s, new)
           \/ \E seen \in SUBSET Roles : ReplaceRoleBindings(q, s, seen)
           \/ DeleteScenario(q, s)
    PROVE  /\ MirrorInv' /\ req' \in [Requests -> Requested] /\ Others(q) /\ req'[q].at \in ScenarioSteps
           /\ UNCHANGED <<scenario, role, mirror, loose>>
<1>1. CASE \E new \in Codes \cup {None} : PatchScenario(q, s, new)
  <2>1. PICK new \in Codes \cup {None} : PatchScenario(q, s, new)
    BY <1>1
  <2>2. CASE new \in {None, scenario[s].code}
    BY <2>1, <2>2, ReadCodeKept, {} \in SUBSET Roles DEF PatchScenario, ReadCode
  <2>3. CASE new \notin {None, scenario[s].code}
    BY <2>1, <2>3, ReadCodeKept, {} \in SUBSET Roles DEF PatchScenario, ReadCode
  <2> QED
    BY <2>2, <2>3
<1>2. CASE \E seen \in SUBSET Roles : ReplaceRoleBindings(q, s, seen)
  BY <1>2, ReadCodeKept DEF ReplaceRoleBindings, ReadCode
<1>3. CASE DeleteScenario(q, s)
  BY <1>3, ReadCodeKept, {} \in SUBSET Roles DEF DeleteScenario, ReadCode, Exists
<1> QED
  BY <1>1, <1>2, <1>3

\* A new scenario has no keys and shows none.
LEMMA CreateScenarioKept ==
    ASSUME BuildersTypeOK, MirrorInv, NEW q \in Requests, NEW s \in Scenarios, NEW c \in Codes, CreateScenario(q, s, c)
    PROVE  MirrorInv' /\ req' \in [Requests -> Requested] /\ Others(q) /\ req'[q] = NotMade
<1>1. /\ req' \in [Requests -> Requested] /\ Others(q) /\ req'[q] = NotMade
      /\ \A p \in Requests \ {q} : req'[p] = req[p]
  BY AnswerStep DEF CreateScenario
<1>2. /\ At(q, "idle") /\ \A p \in Requests : req[p].of # s
      /\ \A t \in Scenarios : scenario[t].code # c
      /\ scenario[s].code = None
      /\ UNCHANGED <<mirror, foul>>
  BY DEF CreateScenario, Fresh, Exists
<1>3. /\ scenario'[s].code = c /\ scenario'[s].seen = {}
      /\ \A t \in Scenarios \ {s} : scenario'[t] = scenario[t]
      /\ c # None
  BY NoneAssumption DEF CreateScenario, BuildersTypeOK
<1>4. BoundInv'
  <2>1. Bound(q)'
    BY <1>1, NotMadeTyped DEF Bound, At, ScenarioSteps, RoleSteps
  <2> QED
    BY <1>1, <2>1, OthersBound DEF MirrorInv
<1>5. UniqueInv'
  BY <1>2, <1>3 DEF MirrorInv, UniqueInv, Exists
<1>6. CleanInv'
  <2>1. ASSUME NEW p \in Requests, req'[p].at \in ScenarioSteps PROVE Clean(p)' \/ Tainted(p)'
    <3>1. p # q
      BY <1>1, <2>1, NotMadeTyped DEF ScenarioSteps
    <3>2. req'[p] = req[p] /\ req[p].of \in Scenarios \ {s}
      BY <1>1, <1>2, <2>1, <3>1 DEF MirrorInv, BoundInv, Bound
    <3>3. scenario'[req[p].of] = scenario[req[p].of]
      BY <1>3, <3>2
    <3>4. req'[q].at \notin ScenarioSteps
      BY <1>1, NotMadeTyped DEF ScenarioSteps
    <3>5. Clean(p) => Clean(p)'
      BY <1>1, <3>2, <3>3, <3>4 DEF Clean, At, Renaming
    <3>6. Tainted(p) => Tainted(p)'
      BY <1>2, <3>2, <3>3 DEF Tainted, CodesOf
    <3> QED
      BY <2>1, <3>2, <3>5, <3>6 DEF MirrorInv, CleanInv
  <2> QED
    BY <2>1 DEF CleanInv
<1>7. KeyInv'
  <2>1. ASSUME NEW k \in Codes \ foul', NEW r \in Roles PROVE Key(k, r)'
    <3>1. ~Disturbs(q, k) /\ ~Disturbs(q, k)'
      BY <1>1, <1>2, NotMadeTyped DEF Disturbs, At
    <3>2. CASE k # c
      <4>1. k # None
        BY NoneAssumption
      <4>2. \A t \in Scenarios : (scenario'[t].code = k /\ r \in scenario'[t].seen)
                                     <=> (scenario[t].code = k /\ r \in scenario[t].seen)
        BY <1>2, <1>3, <3>2, <4>1
      <4> QED
        BY <1>1, <1>2, <3>1, <4>2, KeyKept DEF MirrorInv
    <3>3. CASE k = c
      <4>1. <<r, k>> \notin mirror
        BY <1>2, <3>3 DEF MirrorInv, KeyInv, Key
      <4>2. \A t \in Scenarios : ~(scenario'[t].code = k /\ r \in scenario'[t].seen)
        BY <1>2, <1>3, <3>3
      <4> QED
        BY <1>2, <4>1, <4>2 DEF Key
    <3> QED
      BY <3>2, <3>3
  <2> QED
    BY <2>1 DEF KeyInv
<1>8. RowsInv'
  <2>1. ASSUME NEW p \in Requests PROVE Rows(p)'
    <3>1. CASE p = q
      BY <1>1, <3>1, NotMadeTyped DEF Rows, At
    <3>2. CASE p # q
      BY <1>1, <1>2, <3>2 DEF MirrorInv, RowsInv, Rows, At, Keyed
    <3> QED
      BY <3>1, <3>2
  <2> QED
    BY <2>1 DEF RowsInv
<1> QED
  BY <1>1, <1>4, <1>5, <1>6, <1>7, <1>8 DEF MirrorInv
\* What the lemmas about steps of Scenario Builder say.
ScenarioKept(q) == MirrorInv' /\ req' \in [Requests -> Requested] /\ Others(q) /\ req'[q].at \notin RoleSteps

\* The end of a request that commits nothing and disturbs nothing but what it marks.
LEMMA EndKept ==
    ASSUME BuildersTypeOK, MirrorInv, NEW q \in Requests,
           Answer(q) \/ req' = [req EXCEPT ![q] = [NotMade EXCEPT !.at = "crashed"]],
           UNCHANGED <<scenario, mirror>>, foul \subseteq foul',
           \A c \in Codes \ foul' : ~Disturbs(q, c)
    PROVE  ScenarioKept(q)
<1>1. PICK x \in Requested : /\ req' = [req EXCEPT ![q] = x]
                             /\ x.at \in {"idle", "crashed"} /\ x.old = None /\ x.new = None /\ x.cur = None
  BY NotMadeTyped DEF Answer, NotMade
<1>2. req' \in [Requests -> Requested] /\ Others(q) /\ req'[q] = x /\ \A p \in Requests \ {q} : req'[p] = req[p]
  BY <1>1, OwnStep
<1>3. Bound(q)' /\ Rows(q)' /\ req'[q].at \notin ScenarioSteps /\ req'[q].at \notin RoleSteps
  BY <1>1, <1>2 DEF Bound, Rows, At, ScenarioSteps, RoleSteps
<1>4. \A c : ~Disturbs(q, c)'
  BY <1>1, <1>2 DEF Disturbs, At
<1>5. MirrorInv'
  BY <1>2, <1>3, <1>4, LocalKept
<1> QED
  BY <1>2, <1>3, <1>5 DEF ScenarioKept

\* A request of Scenario Builder that goes on is as clean, or as tainted, as it was.
LEMMA GoesOn ==
    ASSUME MirrorInv, NEW q \in Requests, Others(q), req[q].at \in ScenarioSteps,
           req'[q].of = req[q].of, foul \subseteq foul',
           Clean(q) =>
             LET s == req[q].of
             IN /\ req'[q].at \in MirrorSteps => scenario'[s].code = req'[q].old
                /\ req'[q].at \in {"resync", "resynced"} => scenario'[s].code = req'[q].new /\ Renaming(q)'
                /\ req'[q].at = "write" => req'[q].cur = req'[q].old
                /\ req'[q].cur \in {None, req'[q].old}
                /\ req'[q].at \in {"mirror", "commit"} => scenario'[s].seen \subseteq req'[q].taken,
           Tainted(q) =>
             {req'[q].old, req'[q].new, req'[q].cur, scenario'[req[q].of].code} \subseteq foul' \cup {None}
    PROVE  Clean(q)' \/ Tainted(q)'
<1>1. Clean(q) => Clean(q)'
  <2>1. SUFFICES ASSUME Clean(q) PROVE Clean(q)'
    OBVIOUS
  <2>2. \A p \in Requests \ {q} : req'[p].at \in ScenarioSteps => req'[p].of # req[q].of
    BY <2>1 DEF Clean, Others
  <2> QED
    BY <2>1, <2>2 DEF Clean, At
<1>2. Tainted(q) => Tainted(q)'
  BY DEF Tainted, CodesOf
<1> QED
  BY <1>1, <1>2 DEF MirrorInv, CleanInv

LEMMA TaintedCodes ==
    ASSUME NEW q \in Requests, Tainted(q)
    PROVE  {req[q].old, req[q].new, req[q].cur, scenario[req[q].of].code} \subseteq foul \cup {None}
BY DEF Tainted, CodesOf

LEMMA RefusePatchKept ==
    ASSUME BuildersTypeOK, MirrorInv, NEW q \in Requests, RefusePatch(q)
    PROVE  ScenarioKept(q)
<1>1. \A c \in Codes \ foul' : ~Disturbs(q, c)
  BY NoneAssumption DEF RefusePatch, Disturbs, At, Renaming, Unmirrored
<1> QED
  BY <1>1, EndKept DEF RefusePatch

\* A crash marks the codes that the request has left without keys.
LEMMA CrashKept ==
    ASSUME BuildersTypeOK, MirrorInv, NEW q \in Requests, Crash(q)
    PROVE  ScenarioKept(q)
<1>1. ASSUME NEW c \in Codes \ foul', Disturbs(q, c) PROVE FALSE
  <2>1. c \in Codes \ foul /\ c # None
    BY NoneAssumption DEF Crash
  <2>2. Clean(q)
    BY <1>1, <2>1, DisturberOwns, NoneAssumption DEF MirrorInv
  <2>3. Unmirrored(q) /\ c \in CodesOf(q)
    BY <1>1, <2>1, <2>2 DEF Disturbs, Clean, Unmirrored, CodesOf, At, Renaming
  <2> QED
    BY <2>3 DEF Crash
<1> QED
  BY <1>1, EndKept DEF Crash

LEMMA CopyScenarioKept ==
    ASSUME BuildersTypeOK, MirrorInv, NEW q \in Requests, CopyScenario(q)
    PROVE  ScenarioKept(q)
<1> DEFINE s == req[q].of
<1>1. s \in Scenarios /\ req[q].at = "copy"
  BY DEF CopyScenario, At, MirrorInv, BoundInv, Bound, ScenarioSteps
<1>2. PICK cur \in Codes \cup {None} : cur = scenario[s].code
  BY <1>1 DEF BuildersTypeOK
<1> DEFINE x == [req[q] EXCEPT !.at = "write", !.cur = cur]
<1>3. x \in Requested
  <2>1. PICK a \in Requested : a = req[q]
    BY DEF BuildersTypeOK
  <2>2. [a EXCEPT !.at = "write", !.cur = cur] \in Requested
    BY DEF Requested, ScenarioSteps
  <2> QED
    BY <2>1, <2>2
<1>4. req' = [req EXCEPT ![q] = x]
  BY <1>2 DEF CopyScenario, BuildersTypeOK
<1>5. x.at = "write" /\ x.of = s /\ x.old = req[q].old /\ x.new = req[q].new /\ x.cur = scenario[s].code
  BY <1>2 DEF BuildersTypeOK, Requested
<1> HIDE DEF x
<1>6. req' \in [Requests -> Requested] /\ Others(q) /\ req'[q] = x /\ \A p \in Requests \ {q} : req'[p] = req[p]
  BY <1>3, <1>4, OwnStep
<1>7. UNCHANGED <<scenario, mirror, foul>>
  BY DEF CopyScenario
<1>8. Bound(q)' /\ Rows(q)'
  BY <1>1, <1>5, <1>6 DEF Bound, Rows, At, ScenarioSteps, RoleSteps, MirrorInv, BoundInv
<1>9. Clean(q)' \/ Tainted(q)'
  <2>1. Tainted(q) => {req[q].old, req[q].new, scenario[s].code} \subseteq foul \cup {None}
    BY TaintedCodes
  <2>2. Clean(q) => scenario[s].code = req[q].old
    BY <1>1 DEF Clean, MirrorSteps
  <2> QED
    BY <1>1, <1>5, <1>6, <1>7, <2>1, <2>2, GoesOn DEF ScenarioSteps
<1>10. \A c \in Codes \ foul' : Disturbs(q, c)' <=> Disturbs(q, c)
  BY <1>1, <1>5, <1>6 DEF Disturbs, At, Renaming
<1>11. MirrorInv'
  BY <1>1, <1>5, <1>6, <1>7, <1>8, <1>9, <1>10, LocalKept DEF ScenarioSteps
<1> QED
  BY <1>5, <1>6, <1>11 DEF ScenarioKept, RoleSteps

LEMMA ResyncDeleteKept ==
    ASSUME BuildersTypeOK, MirrorInv, NEW q \in Requests, ResyncDelete(q)
    PROVE  ScenarioKept(q)
<1> DEFINE s == req[q].of
<1>1. s \in Scenarios /\ req[q].at = "resync" /\ UNCHANGED <<scenario, mirror, foul>>
  BY DEF ResyncDelete, At, MirrorInv, BoundInv, Bound, ScenarioSteps
<1>2. CASE scenario[s].code = None
  <2>1. \A c \in Codes \ foul' : ~Disturbs(q, c)
    BY <1>1, <1>2, DisturberOwns, NoneAssumption DEF MirrorInv
  <2> QED
    BY <1>1, <1>2, <2>1, EndKept DEF ResyncDelete
<1>3. CASE scenario[s].code # None
  <2>1. PICK c \in Codes : c = scenario[s].code
    BY <1>1, <1>3 DEF BuildersTypeOK
  <2>2. PICK rows \in SUBSET (Roles \X Codes) : rows = Keyed(c)
    BY DEF Keyed, BuildersTypeOK
  <2> DEFINE x == [req[q] EXCEPT !.at = "resynced", !.new = c, !.rows = rows]
  <2>3. x \in Requested
    <3>1. PICK a \in Requested : a = req[q]
      BY DEF BuildersTypeOK
    <3>2. [a EXCEPT !.at = "resynced", !.new = c, !.rows = rows] \in Requested
      BY DEF Requested, ScenarioSteps
    <3> QED
      BY <3>1, <3>2
  <2>4. req' = [req EXCEPT ![q] = x]
    BY <1>3, <2>1, <2>2 DEF ResyncDelete, BuildersTypeOK
  <2>5. x.at = "resynced" /\ x.of = s /\ x.old = req[q].old /\ x.new = c /\ x.cur = req[q].cur /\ x.rows = Keyed(c)
    BY <2>2 DEF BuildersTypeOK, Requested
  <2> HIDE DEF x
  <2>6. req' \in [Requests -> Requested] /\ Others(q) /\ req'[q] = x /\ \A p \in Requests \ {q} : req'[p] = req[p]
    BY <2>3, <2>4, OwnStep
  <2>7. Clean(q) => req[q].new = c /\ Renaming(q) /\ req[q].cur \in {None, req[q].old}
    BY <1>1, <2>1 DEF Clean
  <2>8. Tainted(q) => {req[q].old, req[q].cur, c} \subseteq foul \cup {None}
    BY <2>1, TaintedCodes
  <2>9. Clean(q) \/ Tainted(q)
    BY <1>1 DEF MirrorInv, CleanInv, ScenarioSteps
  <2>10. Clean(q)' \/ Tainted(q)'
    BY <1>1, <2>1, <2>5, <2>6, <2>7, <2>8, GoesOn DEF ScenarioSteps, MirrorSteps, Renaming
  <2>11. c \notin foul => Keyed(c) = {}
    <3>1. SUFFICES ASSUME c \notin foul PROVE Keyed(c) = {}
      OBVIOUS
    <3>2. Disturbs(q, c)
      BY <1>1, <2>7, <2>8, <2>9, <3>1, NoneAssumption DEF Disturbs, At
    <3>3. \A r \in Roles : <<r, c>> \notin mirror
      BY <3>1, <3>2 DEF MirrorInv, KeyInv, Key
    <3> QED
      BY <3>3 DEF Keyed
  <2>12. Bound(q)' /\ Rows(q)'
    <3>1. Keyed(c) \subseteq Roles \X {c}
      BY DEF Keyed
    <3> QED
      BY <1>1, <2>1, <2>5, <2>6, <2>11, <3>1, NoneAssumption DEF Bound, Rows, At, ScenarioSteps, RoleSteps, MirrorInv, BoundInv
  <2>13. \A k \in Codes \ foul' : Disturbs(q, k)' <=> Disturbs(q, k)
    <3>1. SUFFICES ASSUME NEW k \in Codes \ foul PROVE Disturbs(q, k)' <=> Disturbs(q, k)
      BY <1>1
    <3>2. Disturbs(q, k)' <=> k = c
      BY <2>5, <2>6 DEF Disturbs, At
    <3>3. Disturbs(q, k) <=> k = req[q].new
      BY <1>1 DEF Disturbs, At
    <3>4. CASE Clean(q)
      BY <2>7, <3>2, <3>3, <3>4
    <3>5. CASE Tainted(q)
      BY <2>8, <3>2, <3>3, <3>5, NoneAssumption, TaintedCodes
    <3> QED
      BY <2>9, <3>4, <3>5
  <2>14. MirrorInv'
    BY <1>1, <2>5, <2>6, <2>10, <2>12, <2>13, LocalKept DEF ScenarioSteps
  <2> QED
    BY <2>5, <2>6, <2>14 DEF ScenarioKept, RoleSteps
<1> QED
  BY <1>2, <1>3
\* Two requests for scenarios of one code are for one scenario, so neither is clean.
LEMMA OneOwner ==
    ASSUME MirrorInv, NEW q \in Requests, NEW p \in Requests \ {q},
           req[p].at \in ScenarioSteps, req[q].at \in ScenarioSteps,
           scenario[req[p].of].code = scenario[req[q].of].code, scenario[req[q].of].code # None
    PROVE  ~Clean(p) /\ ~Clean(q)
<1>1. req[p].of = req[q].of
  BY DEF MirrorInv, UniqueInv, Exists, BoundInv, Bound
<1> QED
  BY <1>1 DEF Clean

\* What a clean request knows: the code of its scenario is its own, and no other clean request
\* works with that code.
LEMMA OwnCode ==
    ASSUME MirrorInv, NEW q \in Requests, NEW c \in Codes \ foul, None \notin Codes,
           \/ req[q].at \in MirrorSteps /\ c = req[q].old
           \/ req[q].at \in {"resync", "resynced"} /\ c = req[q].new
    PROVE  /\ req[q].at \in ScenarioSteps /\ Clean(q) /\ scenario[req[q].of].code = c /\ req[q].of \in Scenarios
           /\ \A p \in Requests \ {q} : ~Disturbs(p, c)
           /\ \A p \in Requests \ {q} : At(p, "commit") => req[p].old # c
           /\ \A s \in Scenarios : scenario[s].code = c => s = req[q].of
<1>1. req[q].at \in ScenarioSteps
  BY DEF MirrorSteps, ScenarioSteps
<1>2. Clean(q)
  BY <1>1 DEF MirrorInv, CleanInv, Tainted, CodesOf
<1>3. scenario[req[q].of].code = c /\ c # None
  BY <1>2 DEF Clean
<1>4. ASSUME NEW p \in Requests \ {q} PROVE ~Disturbs(p, c)
  <2>1. SUFFICES ASSUME Disturbs(p, c) PROVE FALSE
    OBVIOUS
  <2>2. req[p].at \in ScenarioSteps /\ Clean(p) /\ scenario[req[p].of].code = c
    BY <2>1, DisturberOwns DEF MirrorInv
  <2> QED
    BY <1>1, <1>3, <2>2, OneOwner
<1>5. ASSUME NEW p \in Requests \ {q}, At(p, "commit") PROVE req[p].old # c
  <2>1. SUFFICES ASSUME req[p].old = c PROVE FALSE
    OBVIOUS
  <2>2. req[p].at \in ScenarioSteps /\ ~Tainted(p)
    BY <1>5, <2>1 DEF At, ScenarioSteps, Tainted, CodesOf
  <2>3. Clean(p)
    BY <2>2 DEF MirrorInv, CleanInv
  <2>4. scenario[req[p].of].code = c
    BY <1>5, <2>1, <2>3 DEF Clean, MirrorSteps, At
  <2> QED
    BY <1>1, <1>3, <2>2, <2>3, <2>4, OneOwner
<1>6. req[q].of \in Scenarios
  BY <1>1 DEF MirrorInv, BoundInv, Bound
<1> QED
  BY <1>1, <1>2, <1>3, <1>4, <1>5, <1>6 DEF MirrorInv, UniqueInv, Exists

LEMMA UnmirrorKept ==
    ASSUME BuildersTypeOK, MirrorInv, NEW q \in Requests, RemoveRoleScenarioMirrorForCode(q)
    PROVE  ScenarioKept(q)
<1> DEFINE s == req[q].of
           old == req[q].old
           x == [req[q] EXCEPT !.at = IF req[q].new = None THEN "drop" ELSE "copy"]
<1>1. s \in Scenarios /\ req[q].at = "unmirror" /\ UNCHANGED <<scenario, foul>> /\ req[q].new # old
      /\ mirror' = mirror \ Keyed(old)
  BY DEF RemoveRoleScenarioMirrorForCode, At, MirrorInv, BoundInv, Bound, ScenarioSteps
<1>2. x \in Requested /\ x.at \in {"drop", "copy"} /\ (x.at = "drop" <=> req[q].new = None)
      /\ x.of = s /\ x.old = old /\ x.new = req[q].new /\ x.cur = req[q].cur
  <2>1. PICK a \in Requested : a = req[q]
    BY DEF BuildersTypeOK
  <2>2. CASE req[q].new = None
    <3>1. x = [a EXCEPT !.at = "drop"]
      BY <2>1, <2>2
    <3> QED
      BY <2>1, <2>2, <3>1 DEF Requested, ScenarioSteps
  <2>3. CASE req[q].new # None
    <3>1. x = [a EXCEPT !.at = "copy"]
      BY <2>1, <2>3
    <3> QED
      BY <2>1, <2>3, <3>1 DEF Requested, ScenarioSteps
  <2> QED
    BY <2>2, <2>3
<1>3. Advance(q, x, Keyed(old))
  BY DEF RemoveRoleScenarioMirrorForCode
<1> HIDE DEF x
<1>4. req' \in [Requests -> Requested] /\ Others(q) /\ req'[q] = x
      /\ \A p \in Requests \ {q} : req'[p].rows = req[p].rows \ Keyed(old)
  BY <1>2, <1>3, AdvanceStep
<1>5. BoundInv'
  <2>1. Bound(q)'
    BY <1>1, <1>2, <1>4 DEF Bound, At, ScenarioSteps, RoleSteps, MirrorInv, BoundInv
  <2> QED
    BY <1>4, <2>1, OthersBound DEF MirrorInv
<1>6. UniqueInv'
  BY <1>1 DEF MirrorInv, UniqueInv, Exists
<1>7. CleanInv'
  <2>1. Clean(q)' \/ Tainted(q)'
    <3>1. Clean(q) => scenario[s].code = old
      BY <1>1 DEF Clean, MirrorSteps
    <3>2. Clean(q) => req[q].cur \in {None, old}
      BY DEF Clean
    <3> QED
      BY <1>1, <1>2, <1>4, <3>1, <3>2, GoesOn, TaintedCodes DEF ScenarioSteps
  <2>2. ASSUME NEW p \in Requests \ {q}, req'[p].at \in ScenarioSteps PROVE Clean(p)' \/ Tainted(p)'
    <3>1. req[p].at \in ScenarioSteps
      BY <1>4, <2>2 DEF Others
    <3> QED
      BY <1>1, <1>2, <1>4, <3>1, OthersClean DEF MirrorInv, ScenarioSteps
  <2> QED
    BY <2>1, <2>2 DEF CleanInv
<1>8. KeyInv'
  <2>1. ASSUME NEW c \in Codes \ foul', NEW r \in Roles PROVE Key(c, r)'
    <3>1. CASE c = old
      <4>1. Disturbs(q, c)'
        BY <1>1, <1>2, <1>4, <3>1 DEF Disturbs, At, Renaming
      <4>2. <<r, c>> \notin mirror'
        BY <1>1, <3>1 DEF Keyed
      <4> QED
        BY <4>1, <4>2 DEF Key
    <3>2. CASE c # old
      <4>1. ~Disturbs(q, c) /\ ~Disturbs(q, c)'
        BY <1>1, <1>2, <1>4, <3>2 DEF Disturbs, At
      <4>2. <<r, c>> \in mirror' <=> <<r, c>> \in mirror
        BY <1>1, <3>2 DEF Keyed
      <4> QED
        BY <1>1, <1>4, <4>1, <4>2, KeyKept DEF MirrorInv
    <3> QED
      BY <3>1, <3>2
  <2> QED
    BY <2>1 DEF KeyInv
<1>9. RowsInv'
  <2>1. ASSUME NEW p \in Requests \ {q} PROVE Rows(p)'
    <3> DEFINE R == Keyed(old)
               A == {}
    <3>1. mirror' \subseteq (mirror \ R) \cup A /\ A \cap (Roles \X {req[p].old}) = {} /\ foul \subseteq foul'
      BY <1>1
    <3> HIDE DEF R, A
    <3>2. \A o \in Requests \ {q} : req'[o].rows = req[o].rows \ R
      BY <1>4 DEF R
    <3> QED
      BY <1>4, <3>1, <3>2, RowsKept DEF MirrorInv
  <2>2. Rows(q)'
    BY <1>2, <1>4 DEF Rows, At
  <2> QED
    BY <2>1, <2>2 DEF RowsInv
<1>10. MirrorInv'
  BY <1>5, <1>6, <1>7, <1>8, <1>9 DEF MirrorInv
<1> QED
  BY <1>2, <1>4, <1>10 DEF ScenarioKept, RoleSteps

\* The mirror of a renamed scenario is empty under both codes until it is synced again.
LEMMA WriteScenarioKept ==
    ASSUME BuildersTypeOK, MirrorInv, NEW q \in Requests, WriteScenario(q)
    PROVE  ScenarioKept(q)
<1> DEFINE s == req[q].of
<1>1. s \in Scenarios /\ req[q].at = "write" /\ UNCHANGED <<mirror, foul>>
      /\ \A t \in Scenarios \ {s} : scenario[t].code # Written(q)
  BY DEF WriteScenario, At, MirrorInv, BoundInv, Bound, ScenarioSteps
<1>2. Clean(q) \/ Tainted(q)
  BY <1>1 DEF MirrorInv, CleanInv, ScenarioSteps
<1>3. Clean(q) => scenario[s].code = req[q].old /\ req[q].cur = req[q].old /\ Exists(s)
  BY <1>1 DEF Clean, MirrorSteps, At, Exists, MirrorInv, BoundInv, Bound, ScenarioSteps
<1>4. Tainted(q) => {req[q].old, req[q].new, req[q].cur, scenario[s].code, Written(q)} \subseteq foul \cup {None}
  BY TaintedCodes DEF Written
<1>5. ~Exists(s) => scenario' = scenario /\ Answer(q)
  BY DEF WriteScenario
<1>6. Exists(s) => /\ scenario'[s].code = Written(q) /\ scenario'[s].seen = scenario[s].seen
                   /\ \A t \in Scenarios \ {s} : scenario'[t] = scenario[t]
  BY <1>1 DEF WriteScenario, BuildersTypeOK
<1>7. Renaming(q) /\ Exists(s) => Go(q, "resync")
  BY DEF WriteScenario, Renaming
<1>8. ~Renaming(q) => Answer(q)
  BY DEF WriteScenario, Renaming
<1>9. Written(q) = IF req[q].new = None THEN req[q].cur ELSE req[q].new
  BY DEF Written
<1>10. CASE ~Exists(s)
  <2>1. \A c \in Codes \ foul' : ~Disturbs(q, c)
    BY <1>1, <1>10, DisturberOwns, NoneAssumption DEF MirrorInv, Exists
  <2> QED
    BY <1>1, <1>5, <1>10, <2>1, EndKept
<1>11. CASE Exists(s)
  <2>1. /\ req' \in [Requests -> Requested] /\ Others(q) /\ \A p \in Requests \ {q} : req'[p] = req[p]
        /\ Renaming(q) => Becomes(q, "resync", s, req[q].old, req[q].new, req[q].cur)
        /\ ~Renaming(q) => req'[q] = NotMade
    BY <1>7, <1>8, <1>11, GoStep, AnswerStep DEF ScenarioSteps
  <2>2. ~Renaming(q) => req'[q].at = "idle" /\ req'[q].old = None /\ req'[q].new = None /\ req'[q].cur = None
    BY <2>1, NotMadeTyped
  <2>3. BoundInv'
    <3>1. Bound(q)'
      BY <1>1, <2>1, <2>2 DEF Bound, At, Becomes, ScenarioSteps, RoleSteps, MirrorInv, BoundInv
    <3> QED
      BY <2>1, <3>1, OthersBound DEF MirrorInv
  <2>4. UniqueInv'
    <3>1. ASSUME NEW t \in Scenarios, NEW u \in Scenarios, scenario'[t].code = scenario'[u].code,
                 scenario'[t].code # None, t # u
          PROVE  FALSE
      <4>1. t # s /\ u # s => scenario[t].code = scenario[u].code /\ Exists(t)
        BY <1>6, <1>11, <3>1 DEF Exists
      <4>2. t # s /\ u # s
        BY <1>1, <1>6, <1>11, <3>1
      <4> QED
        BY <3>1, <4>1, <4>2 DEF MirrorInv, UniqueInv
    <3> QED
      BY <3>1 DEF UniqueInv, Exists
  <2>5. CleanInv'
    <3>1. ASSUME Renaming(q) PROVE Clean(q)' \/ Tainted(q)'
      <4>1. Written(q) = req[q].new
        BY <1>9, <3>1 DEF Renaming
      <4>2. Renaming(q)'
        BY <2>1, <3>1 DEF Becomes, Renaming
      <4> QED
        BY <1>1, <1>3, <1>4, <1>6, <1>11, <2>1, <3>1, <4>1, <4>2, GoesOn DEF Becomes, ScenarioSteps, MirrorSteps
    <3>2. ASSUME NEW p \in Requests \ {q}, req'[p].at \in ScenarioSteps PROVE Clean(p)' \/ Tainted(p)'
      <4>1. req[p].at \in ScenarioSteps /\ req[p].of \in Scenarios
        BY <2>1, <3>2 DEF MirrorInv, BoundInv, Bound
      <4>2. CASE req[p].of # s
        <5>1. scenario'[req[p].of] = scenario[req[p].of]
          BY <1>6, <1>11, <4>1, <4>2
        <5>2. req'[q].at \in ScenarioSteps => req'[q].of = s
          BY <2>1, <2>2 DEF Becomes, ScenarioSteps
        <5>3. Clean(p) => Clean(p)'
          BY <1>1, <2>1, <4>2, <5>1, <5>2 DEF Clean, At, Renaming, ScenarioSteps
        <5>4. Tainted(p) => Tainted(p)'
          BY <1>1, <2>1, <5>1 DEF Tainted, CodesOf
        <5> QED
          BY <4>1, <5>3, <5>4 DEF MirrorInv, CleanInv
      <4>3. CASE req[p].of = s
        <5>1. ~Clean(p) /\ ~Clean(q)
          BY <1>1, <4>1, <4>3 DEF Clean, ScenarioSteps
        <5>2. Tainted(p) /\ Tainted(q)
          BY <1>2, <4>1, <5>1 DEF MirrorInv, CleanInv
        <5>3. Tainted(p)'
          BY <1>1, <1>4, <1>6, <1>11, <2>1, <4>3, <5>2 DEF Tainted, CodesOf
        <5> QED
          BY <5>3
      <4> QED
        BY <4>2, <4>3
    <3> QED
      BY <2>2, <3>1, <3>2 DEF CleanInv, ScenarioSteps
  <2>6. KeyInv'
    <3> SUFFICES ASSUME NEW c \in Codes \ foul, NEW r \in Roles PROVE Key(c, r)'
      BY <1>1 DEF KeyInv
    <3>1. c # None
      BY NoneAssumption
    <3>2. Disturbs(q, c) <=> Renaming(q) /\ c = req[q].old
      BY <1>1 DEF Disturbs, At
    <3>3. Disturbs(q, c)' <=> Renaming(q) /\ c = req[q].new
      BY <2>1, <2>2 DEF Disturbs, At, Becomes, Renaming
    <3>4. CASE scenario[s].code = Written(q) \/ c \notin {scenario[s].code, Written(q)}
      <4>1. \A t \in Scenarios : (scenario'[t].code = c /\ r \in scenario'[t].seen)
                                    <=> (scenario[t].code = c /\ r \in scenario[t].seen)
        BY <1>6, <1>11, <3>4
      <4>2. Disturbs(q, c)' <=> Disturbs(q, c)
        <5>1. CASE Tainted(q)
          BY <1>4, <3>1, <3>2, <3>3, <5>1
        <5>2. CASE Clean(q)
          BY <1>3, <1>9, <3>2, <3>3, <3>4, <5>2 DEF Renaming
        <5> QED
          BY <1>2, <5>1, <5>2
      <4> QED
        BY <1>1, <2>1, <4>1, <4>2, KeyKept DEF MirrorInv
    <3>5. CASE scenario[s].code # Written(q) /\ c \in {scenario[s].code, Written(q)}
      <4>1. Clean(q) /\ scenario[s].code = req[q].old /\ Renaming(q) /\ Written(q) = req[q].new
        BY <1>2, <1>3, <1>4, <1>9, <3>1, <3>5 DEF Renaming
      <4>2. CASE c = req[q].old
        <5>1. <<r, c>> \notin mirror
          BY <3>2, <4>1, <4>2 DEF MirrorInv, KeyInv, Key
        <5>2. \A t \in Scenarios : scenario'[t].code # c
          <6>1. \A t \in Scenarios : scenario[t].code = c => t = s
            BY <1>1, <3>1, <4>1, <4>2 DEF MirrorInv, UniqueInv, Exists
          <6> QED
            BY <1>6, <1>11, <3>5, <4>1, <4>2, <6>1
        <5> QED
          BY <1>1, <5>1, <5>2 DEF Key
      <4>3. CASE c = req[q].new
        <5>1. \A t \in Scenarios : scenario[t].code # c
          BY <1>1, <3>5, <4>1, <4>3
        <5>2. <<r, c>> \notin mirror
          BY <5>1 DEF MirrorInv, KeyInv, Key
        <5>3. Disturbs(q, c)'
          BY <3>3, <4>1, <4>3
        <5> QED
          BY <1>1, <5>2, <5>3 DEF Key
      <4> QED
        BY <3>5, <4>1, <4>2, <4>3
    <3> QED
      BY <3>4, <3>5
  <2>7. RowsInv'
    <3>1. Rows(q)'
      BY <2>1, <2>2 DEF Rows, At, Becomes
    <3>2. ASSUME NEW p \in Requests \ {q} PROVE Rows(p)'
      BY <1>1, <2>1 DEF MirrorInv, RowsInv, Rows, At, Keyed
    <3> QED
      BY <3>1, <3>2 DEF RowsInv
  <2>8. MirrorInv'
    BY <2>3, <2>4, <2>5, <2>6, <2>7 DEF MirrorInv
  <2> QED
    BY <2>1, <2>2, <2>8 DEF ScenarioKept, Becomes, RoleSteps
<1> QED
  BY <1>10, <1>11
\* The keys of the code are those of the scenario again.
LEMMA ResyncCommitKept ==
    ASSUME BuildersTypeOK, MirrorInv, NEW q \in Requests, ResyncCommit(q)
    PROVE  ScenarioKept(q)
<1> DEFINE s == req[q].of
           code == req[q].new
           R == req[q].rows
           A == scenario[s].seen \X {code}
<1>1. req[q].at = "resynced" /\ UNCHANGED <<scenario, foul>> /\ mirror' = (mirror \ R) \cup A
      /\ R \subseteq Roles \X {code} /\ s \in Scenarios
  BY DEF ResyncCommit, At, MirrorInv, BoundInv, Bound, ScenarioSteps
<1>2. req' \in [Requests -> Requested] /\ Others(q) /\ req'[q] = NotMade
      /\ \A p \in Requests \ {q} : req'[p].rows = req[p].rows \ R
  BY AdvanceStep, NotMadeTyped DEF ResyncCommit
<1>3. scenario[s].seen \subseteq Roles
  BY <1>1 DEF BuildersTypeOK
<1>4. BoundInv'
  <2>1. Bound(q)'
    BY <1>2, NotMadeTyped DEF Bound, At, ScenarioSteps, RoleSteps
  <2> QED
    BY <1>2, <2>1, OthersBound DEF MirrorInv
<1>5. UniqueInv'
  BY <1>1 DEF MirrorInv, UniqueInv, Exists
<1>6. CleanInv'
  <2>1. ASSUME NEW p \in Requests \ {q}, req'[p].at \in ScenarioSteps PROVE Clean(p)' \/ Tainted(p)'
    <3>1. req[p].at \in ScenarioSteps
      BY <1>2, <2>1 DEF Others
    <3> QED
      BY <1>1, <1>2, <3>1, OthersClean, NotMadeTyped DEF MirrorInv, ScenarioSteps
  <2> QED
    BY <1>2, <2>1, NotMadeTyped DEF CleanInv, ScenarioSteps
<1>7. ASSUME code \in Codes \ foul
      PROVE  /\ scenario[s].code = code /\ R = {} /\ Disturbs(q, code)
             /\ \A p \in Requests \ {q} : ~Disturbs(p, code) /\ (At(p, "commit") => req[p].old # code)
             /\ \A t \in Scenarios : scenario[t].code = code => t = s
  <2>1. R = {} /\ Disturbs(q, code)
    BY <1>1, <1>7 DEF MirrorInv, RowsInv, Rows, Disturbs, At
  <2> QED
    BY <1>1, <1>7, <2>1, OwnCode, NoneAssumption
<1>8. KeyInv'
  <2>1. ASSUME NEW c \in Codes \ foul, NEW r \in Roles PROVE Key(c, r)'
    <3>1. \A p \in Requests \ {q} : Disturbs(p, c)' <=> Disturbs(p, c)
      BY <1>2 DEF Others, Disturbs, At, Renaming
    <3>2. ~Disturbs(q, c)'
      BY <1>2, NotMadeTyped DEF Disturbs, At
    <3>3. CASE c = code
      <4>1. <<r, c>> \notin mirror /\ R = {}
        BY <1>7, <2>1, <3>3 DEF MirrorInv, KeyInv, Key
      <4>2. <<r, c>> \in mirror' <=> r \in scenario[s].seen
        BY <1>1, <3>3, <4>1
      <4>3. \A p \in Requests : ~Disturbs(p, c)'
        BY <1>7, <2>1, <3>1, <3>2, <3>3
      <4> QED
        BY <1>1, <1>7, <2>1, <3>3, <4>2, <4>3 DEF Key
    <3>4. CASE c # code
      <4>1. <<r, c>> \in mirror' <=> <<r, c>> \in mirror
        BY <1>1, <3>4
      <4>2. ~Disturbs(q, c)
        BY <1>1, <3>4 DEF Disturbs, At
      <4> QED
        BY <1>1, <1>2, <2>1, <3>2, <4>1, <4>2, KeyKept DEF MirrorInv
    <3> QED
      BY <3>3, <3>4
  <2> QED
    BY <1>1, <2>1 DEF KeyInv
<1>9. RowsInv'
  <2>1. ASSUME NEW p \in Requests \ {q} PROVE Rows(p)'
    <3>1. At(p, "commit") /\ req[p].old \notin foul' => A \cap (Roles \X {req[p].old}) = {}
      <4>1. SUFFICES ASSUME At(p, "commit"), req[p].old \notin foul, req[p].old = code PROVE FALSE
        BY <1>1
      <4>2. code \in Codes \cup {None} /\ req[p].old # None
        BY <4>1 DEF BuildersTypeOK, Requested, MirrorInv, BoundInv, Bound, At, ScenarioSteps
      <4> QED
        BY <1>7, <4>1, <4>2
    <3>2. mirror' \subseteq (mirror \ R) \cup A /\ foul \subseteq foul'
      BY <1>1
    <3> HIDE DEF R, A
    <3> QED
      BY <1>2, <3>1, <3>2, RowsKept DEF MirrorInv
  <2>2. Rows(q)'
    BY <1>2, NotMadeTyped DEF Rows, At
  <2> QED
    BY <2>1, <2>2 DEF RowsInv
<1>10. MirrorInv'
  BY <1>4, <1>5, <1>6, <1>8, <1>9 DEF MirrorInv
<1> QED
  BY <1>2, <1>10, NotMadeTyped DEF ScenarioKept, RoleSteps

LEMMA ReplaceDeleteKept ==
    ASSUME BuildersTypeOK, MirrorInv, NEW q \in Requests, ReplaceDelete(q)
    PROVE  ScenarioKept(q)
<1> DEFINE s == req[q].of
<1>1. s \in Scenarios /\ req[q].at = "delete" /\ UNCHANGED <<scenario, mirror, foul>>
  BY DEF ReplaceDelete, At, MirrorInv, BoundInv, Bound, ScenarioSteps
<1>2. \A c \in Codes \ foul' : ~Disturbs(q, c)
  BY <1>1 DEF Disturbs, At
<1>3. CASE Answer(q)
  BY <1>1, <1>2, <1>3, EndKept
<1>4. CASE ~Answer(q)
  <2>1. PICK taken \in SUBSET Roles : taken = scenario[s].seen
    BY <1>1 DEF BuildersTypeOK
  <2> DEFINE x == [req[q] EXCEPT !.at = "mirror", !.taken = taken]
  <2>2. x \in Requested
    <3>1. PICK a \in Requested : a = req[q]
      BY DEF BuildersTypeOK
    <3>2. [a EXCEPT !.at = "mirror", !.taken = taken] \in Requested
      BY DEF Requested, ScenarioSteps
    <3> QED
      BY <3>1, <3>2
  <2>3. req' = [req EXCEPT ![q] = x]
    BY <1>4, <2>1 DEF ReplaceDelete, BuildersTypeOK
  <2>4. x.at = "mirror" /\ x.of = s /\ x.old = req[q].old /\ x.new = req[q].new /\ x.cur = req[q].cur
        /\ x.taken = scenario[s].seen
    BY <2>1 DEF BuildersTypeOK, Requested
  <2> HIDE DEF x
  <2>5. req' \in [Requests -> Requested] /\ Others(q) /\ req'[q] = x /\ \A p \in Requests \ {q} : req'[p] = req[p]
    BY <2>2, <2>3, OwnStep
  <2>6. Bound(q)' /\ Rows(q)'
    BY <1>1, <2>4, <2>5 DEF Bound, Rows, At, ScenarioSteps, RoleSteps, MirrorInv, BoundInv
  <2>7. Clean(q)' \/ Tainted(q)'
    <3>1. Clean(q) => scenario[s].code = req[q].old /\ req[q].cur \in {None, req[q].old}
      BY <1>1 DEF Clean, MirrorSteps
    <3> QED
      BY <1>1, <2>4, <2>5, <3>1, GoesOn, TaintedCodes DEF ScenarioSteps
  <2>8. \A c \in Codes \ foul' : ~Disturbs(q, c)'
    BY <2>4, <2>5 DEF Disturbs, At
  <2>9. MirrorInv'
    BY <1>1, <1>2, <2>4, <2>5, <2>6, <2>7, <2>8, LocalKept DEF ScenarioSteps
  <2> QED
    BY <2>4, <2>5, <2>9 DEF ScenarioKept, RoleSteps
<1> QED
  BY <1>3, <1>4

LEMMA ReplaceMirrorKept ==
    ASSUME BuildersTypeOK, MirrorInv, NEW q \in Requests, ReplaceMirror(q)
    PROVE  ScenarioKept(q)
<1> DEFINE s == req[q].of
           old == req[q].old
<1>1. s \in Scenarios /\ req[q].at = "mirror" /\ UNCHANGED <<scenario, mirror, foul>>
  BY DEF ReplaceMirror, At, MirrorInv, BoundInv, Bound, ScenarioSteps
<1>2. \A c \in Codes \ foul' : ~Disturbs(q, c)
  BY <1>1 DEF Disturbs, At
<1>3. CASE Answer(q)
  BY <1>1, <1>2, <1>3, EndKept
<1>4. CASE ~Answer(q)
  <2>1. PICK rows \in SUBSET (Roles \X Codes) : rows = Keyed(old)
    BY DEF Keyed, BuildersTypeOK
  <2> DEFINE x == [req[q] EXCEPT !.at = "commit", !.rows = rows]
  <2>2. x \in Requested
    <3>1. PICK a \in Requested : a = req[q]
      BY DEF BuildersTypeOK
    <3>2. [a EXCEPT !.at = "commit", !.rows = rows] \in Requested
      BY DEF Requested, ScenarioSteps
    <3> QED
      BY <3>1, <3>2
  <2>3. req' = [req EXCEPT ![q] = x]
    BY <1>4, <2>1 DEF ReplaceMirror, BuildersTypeOK
  <2>4. x.at = "commit" /\ x.of = s /\ x.old = old /\ x.new = req[q].new /\ x.cur = req[q].cur
        /\ x.taken = req[q].taken /\ x.rows = Keyed(old)
    BY <2>1 DEF BuildersTypeOK, Requested
  <2> HIDE DEF x
  <2>5. req' \in [Requests -> Requested] /\ Others(q) /\ req'[q] = x /\ \A p \in Requests \ {q} : req'[p] = req[p]
    BY <2>2, <2>3, OwnStep
  <2>6. Bound(q)' /\ Rows(q)'
    <3>1. Keyed(old) \subseteq Roles \X {old} /\ Keyed(old)' = Keyed(old)
      BY <1>1, <2>4, <2>5 DEF Keyed
    <3> QED
      BY <1>1, <2>4, <2>5, <3>1 DEF Bound, Rows, At, ScenarioSteps, RoleSteps, MirrorInv, BoundInv, Keyed
  <2>7. Clean(q)' \/ Tainted(q)'
    <3>1. Clean(q) => scenario[s].code = old /\ req[q].cur \in {None, old} /\ scenario[s].seen \subseteq req[q].taken
      BY <1>1 DEF Clean, MirrorSteps
    <3> QED
      BY <1>1, <2>4, <2>5, <3>1, GoesOn, TaintedCodes DEF ScenarioSteps
  <2>8. \A c \in Codes \ foul' : ~Disturbs(q, c)'
    BY <2>4, <2>5 DEF Disturbs, At
  <2>9. MirrorInv'
    BY <1>1, <1>2, <2>4, <2>5, <2>6, <2>7, <2>8, LocalKept DEF ScenarioSteps
  <2> QED
    BY <2>4, <2>5, <2>9 DEF ScenarioKept, RoleSteps
<1> QED
  BY <1>3, <1>4

\* The keys of the code are those of the roles that may see the scenario from now on.
LEMMA ReplaceCommitKept ==
    ASSUME BuildersTypeOK, MirrorInv, NEW q \in Requests, ReplaceCommit(q)
    PROVE  ScenarioKept(q)
<1> DEFINE s == req[q].of
           old == req[q].old
           R == req[q].rows
           A == req[q].seen \X {old}
<1>1. req[q].at = "commit" /\ UNCHANGED foul /\ mirror' = (mirror \ R) \cup A
      /\ R \subseteq Roles \X {old} /\ s \in Scenarios /\ old # None
  BY DEF ReplaceCommit, At, MirrorInv, BoundInv, Bound, ScenarioSteps
<1>2. req' \in [Requests -> Requested] /\ Others(q) /\ req'[q] = NotMade
      /\ \A p \in Requests \ {q} : req'[p].rows = req[p].rows \ R
  BY CommitStep
<1>3. req[q].seen \subseteq Roles /\ old \in Codes
  BY <1>1 DEF BuildersTypeOK, Requested
<1>4. /\ scenario'[s].code = scenario[s].code
      /\ scenario'[s].seen = (scenario[s].seen \ req[q].taken) \cup req[q].seen
      /\ \A t \in Scenarios \ {s} : scenario'[t] = scenario[t]
  BY <1>1 DEF ReplaceCommit, BuildersTypeOK
<1>5. BoundInv'
  <2>1. Bound(q)'
    BY <1>2, NotMadeTyped DEF Bound, At, ScenarioSteps, RoleSteps
  <2> QED
    BY <1>2, <2>1, OthersBound DEF MirrorInv
<1>6. UniqueInv'
  BY <1>4 DEF MirrorInv, UniqueInv, Exists
<1>7. CleanInv'
  <2>1. ASSUME NEW p \in Requests \ {q}, req'[p].at \in ScenarioSteps PROVE Clean(p)' \/ Tainted(p)'
    <3>1. req[p].at \in ScenarioSteps /\ req[q].at \in ScenarioSteps /\ req'[q].at \notin ScenarioSteps
      BY <1>1, <1>2, <2>1, NotMadeTyped DEF Others, ScenarioSteps
    <3>2. Tainted(q) => scenario'[s].code \in foul \cup {None}
      BY <1>4, TaintedCodes
    <3> QED
      BY <1>1, <1>2, <1>4, <3>1, <3>2, OthersClean DEF MirrorInv
  <2> QED
    BY <1>2, <2>1, NotMadeTyped DEF CleanInv, ScenarioSteps
<1>8. ASSUME old \in Codes \ foul
      PROVE  /\ scenario[s].code = old /\ Keyed(old) \subseteq R /\ scenario[s].seen \subseteq req[q].taken
             /\ \A p \in Requests \ {q} : ~Disturbs(p, old) /\ (At(p, "commit") => req[p].old # old)
             /\ \A t \in Scenarios : scenario[t].code = old => t = s
  <2>1. Keyed(old) \subseteq R
    BY <1>1, <1>8 DEF MirrorInv, RowsInv, Rows, At
  <2>2. /\ Clean(q) /\ scenario[s].code = old
        /\ \A p \in Requests \ {q} : ~Disturbs(p, old)
        /\ \A p \in Requests \ {q} : At(p, "commit") => req[p].old # old
        /\ \A t \in Scenarios : scenario[t].code = old => t = s
    BY <1>1, <1>8, OwnCode, NoneAssumption DEF MirrorSteps
  <2>3. scenario[s].seen \subseteq req[q].taken
    BY <1>1, <2>2 DEF Clean
  <2> QED
    BY <2>1, <2>2, <2>3
<1>9. KeyInv'
  <2>1. ASSUME NEW c \in Codes \ foul, NEW r \in Roles PROVE Key(c, r)'
    <3>1. \A p \in Requests \ {q} : Disturbs(p, c)' <=> Disturbs(p, c)
      BY <1>2 DEF Others, Disturbs, At, Renaming
    <3>2. ~Disturbs(q, c)' /\ ~Disturbs(q, c)
      BY <1>1, <1>2, NotMadeTyped DEF Disturbs, At
    <3>3. CASE c = old
      <4>1. <<r, c>> \in mirror' <=> r \in req[q].seen
        BY <1>1, <1>8, <2>1, <3>3 DEF Keyed
      <4>2. scenario'[s].seen = req[q].seen
        BY <1>4, <1>8, <2>1, <3>3
      <4>3. \A p \in Requests : ~Disturbs(p, c)'
        BY <1>8, <2>1, <3>1, <3>2, <3>3
      <4>4. \A t \in Scenarios : scenario'[t].code = c <=> t = s
        BY <1>4, <1>8, <2>1, <3>3
      <4> QED
        BY <1>1, <4>1, <4>2, <4>3, <4>4 DEF Key
    <3>4. CASE c # old
      <4>1. <<r, c>> \in mirror' <=> <<r, c>> \in mirror
        BY <1>1, <3>4
      <4>2. scenario[s].code # c
        <5>1. CASE Clean(q)
          BY <1>1, <3>4, <5>1 DEF Clean, MirrorSteps
        <5>2. CASE Tainted(q)
          BY <2>1, <5>2, TaintedCodes, NoneAssumption
        <5> QED
          BY <1>1, <5>1, <5>2 DEF MirrorInv, CleanInv, ScenarioSteps
      <4>3. \A t \in Scenarios : (scenario'[t].code = c /\ r \in scenario'[t].seen)
                                    <=> (scenario[t].code = c /\ r \in scenario[t].seen)
        BY <1>4, <4>2
      <4> QED
        BY <1>1, <1>2, <2>1, <3>2, <4>1, <4>3, KeyKept DEF MirrorInv
    <3> QED
      BY <3>3, <3>4
  <2> QED
    BY <1>1, <2>1 DEF KeyInv
<1>10. RowsInv'
  <2>1. ASSUME NEW p \in Requests \ {q} PROVE Rows(p)'
    <3>1. At(p, "commit") /\ req[p].old \notin foul' => A \cap (Roles \X {req[p].old}) = {}
      BY <1>1, <1>3, <1>8
    <3>2. mirror' \subseteq (mirror \ R) \cup A /\ foul \subseteq foul'
      BY <1>1
    <3> HIDE DEF R, A
    <3> QED
      BY <1>2, <3>1, <3>2, RowsKept DEF MirrorInv
  <2>2. Rows(q)'
    BY <1>2, NotMadeTyped DEF Rows, At
  <2> QED
    BY <2>1, <2>2 DEF RowsInv
<1>11. MirrorInv'
  BY <1>5, <1>6, <1>7, <1>9, <1>10 DEF MirrorInv
<1> QED
  BY <1>2, <1>11, NotMadeTyped DEF ScenarioKept, RoleSteps

\* A scenario is dropped after its keys.
LEMMA DropScenarioKept ==
    ASSUME BuildersTypeOK, MirrorInv, NEW q \in Requests, DropScenario(q)
    PROVE  ScenarioKept(q)
<1> DEFINE s == req[q].of
           old == req[q].old
<1>1. req[q].at = "drop" /\ UNCHANGED <<mirror, foul>> /\ s \in Scenarios
  BY DEF DropScenario, At, MirrorInv, BoundInv, Bound, ScenarioSteps
<1>2. req' \in [Requests -> Requested] /\ Others(q) /\ req'[q] = NotMade /\ \A p \in Requests \ {q} : req'[p] = req[p]
  BY AnswerStep DEF DropScenario
<1>3. /\ scenario'[s].code = None /\ scenario'[s].seen = {}
      /\ \A t \in Scenarios \ {s} : scenario'[t] = scenario[t]
  BY <1>1 DEF DropScenario, BuildersTypeOK
<1>4. BoundInv'
  <2>1. Bound(q)'
    BY <1>2, NotMadeTyped DEF Bound, At, ScenarioSteps, RoleSteps
  <2> QED
    BY <1>2, <2>1, OthersBound DEF MirrorInv
<1>5. UniqueInv'
  BY <1>3 DEF MirrorInv, UniqueInv, Exists
<1>6. CleanInv'
  <2>1. ASSUME NEW p \in Requests \ {q}, req'[p].at \in ScenarioSteps PROVE Clean(p)' \/ Tainted(p)'
    <3>1. req[p].at \in ScenarioSteps /\ req[q].at \in ScenarioSteps /\ req'[q].at \notin ScenarioSteps
      BY <1>1, <1>2, <2>1, NotMadeTyped DEF Others, ScenarioSteps
    <3>2. scenario'[s].code \in foul \cup {None}
      BY <1>3
    <3> QED
      BY <1>1, <1>2, <1>3, <3>1, <3>2, OthersClean DEF MirrorInv
  <2> QED
    BY <1>2, <2>1, NotMadeTyped DEF CleanInv, ScenarioSteps
<1>7. KeyInv'
  <2>1. ASSUME NEW c \in Codes \ foul, NEW r \in Roles PROVE Key(c, r)'
    <3>1. ~Disturbs(q, c)'
      BY <1>2, NotMadeTyped DEF Disturbs, At
    <3>2. CASE c = old
      <4>1. Disturbs(q, c)
        BY <1>1, <3>2 DEF Disturbs, At
      <4>2. <<r, c>> \notin mirror
        BY <2>1, <4>1 DEF MirrorInv, KeyInv, Key
      <4>3. \A t \in Scenarios : scenario[t].code = c => t = s
        BY <1>1, <2>1, <3>2, OwnCode, NoneAssumption DEF MirrorSteps
      <4>4. \A t \in Scenarios : scenario'[t].code # c
        BY <1>3, <4>3, NoneAssumption
      <4> QED
        BY <1>1, <4>2, <4>4 DEF Key
    <3>3. CASE c # old
      <4>1. ~Disturbs(q, c)
        BY <1>1, <3>3 DEF Disturbs, At
      <4>2. scenario[s].code # c
        <5>1. CASE Clean(q)
          BY <1>1, <3>3, <5>1 DEF Clean, MirrorSteps
        <5>2. CASE Tainted(q)
          BY <2>1, <5>2, TaintedCodes, NoneAssumption
        <5> QED
          BY <1>1, <5>1, <5>2 DEF MirrorInv, CleanInv, ScenarioSteps
      <4>3. \A t \in Scenarios : (scenario'[t].code = c /\ r \in scenario'[t].seen)
                                    <=> (scenario[t].code = c /\ r \in scenario[t].seen)
        BY <1>3, <4>2, NoneAssumption
      <4> QED
        BY <1>1, <1>2, <2>1, <3>1, <4>1, <4>3, KeyKept DEF MirrorInv
    <3> QED
      BY <3>2, <3>3
  <2> QED
    BY <1>1, <2>1 DEF KeyInv
<1>8. RowsInv'
  <2>1. ASSUME NEW p \in Requests PROVE Rows(p)'
    <3>1. CASE p = q
      BY <1>2, <3>1, NotMadeTyped DEF Rows, At
    <3>2. CASE p # q
      BY <1>1, <1>2, <3>2 DEF MirrorInv, RowsInv, Rows, At, Keyed
    <3> QED
      BY <3>1, <3>2
  <2> QED
    BY <2>1 DEF RowsInv
<1>9. MirrorInv'
  BY <1>4, <1>5, <1>6, <1>7, <1>8 DEF MirrorInv
<1> QED
  BY <1>2, <1>9, NotMadeTyped DEF ScenarioKept, RoleSteps
-----------------------------------------------------------------------------
(* Builders: the steps of Role Builder.                                     *)

\* A step of Role Builder that leaves the keys alone.
LEMMA KeysLeft ==
    ASSUME MirrorInv, NEW q \in Requests, Others(q), \A p \in Requests \ {q} : req'[p] = req[p],
           req[q].at \notin ScenarioSteps, req'[q].at \notin ScenarioSteps,
           Bound(q)', UNCHANGED <<scenario, mirror>>, foul \subseteq foul'
    PROVE  MirrorInv'
<1> DEFINE R == {}
           A == {}
<1>1. mirror' = (mirror \ R) \cup A /\ A \cup (R \cap mirror) \subseteq Roles \X foul' /\ UNCHANGED scenario
      /\ \A p \in Requests \ {q} : req'[p].rows = req[p].rows \ R
  OBVIOUS
<1> HIDE DEF R, A
<1> QED
  BY <1>1, RoleSideKept

\* Its last step, an answer, that adds keys at most.
LEMMA KeysAdded ==
    ASSUME BuildersTypeOK, MirrorInv, NEW q \in Requests, req[q].at \notin ScenarioSteps,
           NEW R, NEW A, Answer(q) \/ Advance(q, NotMade, R), Answer(q) => R = {},
           mirror' = (mirror \ R) \cup A, A \cup (R \cap mirror) \subseteq Roles \X foul',
           UNCHANGED scenario, foul \subseteq foul'
    PROVE  MirrorInv' /\ req' \in [Requests -> Requested] /\ Others(q) /\ req'[q] = NotMade
<1>1. req' \in [Requests -> Requested] /\ Others(q) /\ req'[q] = NotMade
      /\ \A p \in Requests \ {q} : req'[p].rows = req[p].rows \ R
  <2>1. CASE Answer(q)
    BY <2>1, AnswerStep
  <2>2. CASE Advance(q, NotMade, R)
    BY <2>2, AdvanceStep, NotMadeTyped
  <2> QED
    BY <2>1, <2>2
<1>2. Bound(q)' /\ req'[q].at \notin ScenarioSteps
  BY <1>1, NotMadeTyped DEF Bound, At, ScenarioSteps, RoleSteps
<1> QED
  BY <1>1, <1>2, RoleSideKept

\* A step to another one of the same request, or its start.
LEMMA RoleGoes ==
    ASSUME BuildersTypeOK, MirrorInv, NEW q \in Requests, req[q].at \notin ScenarioSteps,
           NEW x \in Requested, req' = [req EXCEPT ![q] = x], x.at \in RoleSteps, x.of \in Roles,
           x.old = req[q].old, x.new = req[q].new, x.cur = req[q].cur,
           x.at \in {"editcopy", "editwrite"} /\ x.edit.bind => x.edit.override # None,
           UNCHANGED <<scenario, mirror, foul>>
    PROVE  MirrorInv' /\ req' \in [Requests -> Requested] /\ Others(q) /\ req'[q] = x
<1>1. req' \in [Requests -> Requested] /\ Others(q) /\ req'[q] = x /\ \A p \in Requests \ {q} : req'[p] = req[p]
  BY OwnStep
<1>2. x.at \notin ScenarioSteps
  BY DEF ScenarioSteps, RoleSteps
<1>3. Bound(q)'
  BY <1>1, <1>2 DEF Bound, At, MirrorInv, BoundInv, ScenarioSteps
<1> QED
  BY <1>1, <1>2, <1>3, KeysLeft

\* A request of another caller keeps to its role, unless the step concerns the role.
LEMMA ConfinesKept ==
    ASSUME RoleInv, NEW q \in Requests, Others(q), loose \subseteq loose', NEW p \in Requests \ {q},
           req[p].at \in PatchSteps /\ req[p].of \notin loose' =>
              /\ role'[req[p].of] \in {role[req[p].of], None}
              /\ req'[q].at \in PatchSteps => req'[q].of # req[p].of
    PROVE  Confines(p)'
<1>1. req'[p].at = req[p].at /\ req'[p].of = req[p].of /\ req'[p].edit = req[p].edit /\ req'[p].copy = req[p].copy
  BY DEF Others
<1>2. SUFFICES ASSUME req[p].at \in PatchSteps, req[p].of \notin loose' PROVE Confines(p)'
  BY <1>1 DEF Confines
<1>3. Confines(p) /\ req[p].of \notin loose
  BY <1>2 DEF RoleInv
<1>4. \A o \in Requests \ {p} : req'[o].at \in PatchSteps => req'[o].of # req[p].of
  BY <1>2, <1>3 DEF Confines, Others
<1> QED
  BY <1>1, <1>2, <1>3, <1>4 DEF Confines, At

\* Scenario Builder, and requests that end, leave roles alone.
LEMMA RolesLeft ==
    ASSUME RoleInv, NEW q \in Requests, Others(q), UNCHANGED <<role, loose>>, req'[q].at \notin PatchSteps
    PROVE  RoleInv'
<1>1. OverrideIsConfined'
  BY DEF RoleInv, OverrideIsConfined
<1>2. ASSUME NEW p \in Requests PROVE Confines(p)'
  <2>1. CASE p = q
    BY <2>1 DEF Confines
  <2>2. CASE p # q
    BY <2>2, ConfinesKept
  <2> QED
    BY <2>1, <2>2
<1> QED
  BY <1>1, <1>2 DEF RoleInv

\* A request that goes on with a role it alone works on.
LEMMA RoleGoesOn ==
    ASSUME RoleInv, NEW q \in Requests, Others(q), UNCHANGED <<role, loose>>,
           req[q].at \in PatchSteps, req'[q].of = req[q].of,
           Confines(q) => Confines(q)'
    PROVE  RoleInv'
<1>1. OverrideIsConfined'
  BY DEF RoleInv, OverrideIsConfined
<1>2. ASSUME NEW p \in Requests \ {q} PROVE Confines(p)'
  <2>1. req[p].at \in PatchSteps /\ req[p].of \notin loose => req[q].of # req[p].of
    BY DEF RoleInv, Confines
  <2> QED
    BY <2>1, ConfinesKept
<1> QED
  BY <1>1, <1>2 DEF RoleInv

\* The role is read, and the scope of the patch checked with it unless the request is loose.
LEMMA ReadRoleKept ==
    ASSUME BuildersTypeOK, MirrorInv, RoleInv, NEW q \in Requests, NEW r \in Roles, NEW edit \in EditRows,
           NEW step \in {"govern", "clonegovern"}, ReadRole(q, r, edit, step),
           step = "clonegovern" => edit = NoEdit, edit.bind \/ edit.claims = None
    PROVE  MirrorInv' /\ req' \in [Requests -> Requested] /\ Others(q) /\ RoleInv' /\ req'[q].at \in RoleSteps
<1>1. /\ req[q].at = "idle" /\ role[r] # None /\ UNCHANGED <<scenario, role, mirror, foul>>
      /\ loose' = loose \cup {i \in {r} : EditorsOf(r) # {} \/ ~Checked(edit)}
  BY DEF ReadRole, At
<1>2. req[q].old = None /\ req[q].new = None /\ req[q].cur = None
  BY <1>1 DEF MirrorInv, BoundInv, Bound, ScenarioSteps
<1>3. PICK row \in RoleRows : row = role[r]
  BY <1>1 DEF BuildersTypeOK
<1>4. PICK scope \in Scopes : scope = Given(edit.scope, Given(edit.claims, row.scope))
  BY DEF Given, EditRows, RoleRows
<1> DEFINE e == [edit EXCEPT !.claims = None]
           copy == [row EXCEPT !.scope = scope]
<1>5. e \in EditRows /\ e.scope = edit.scope /\ e.bind = edit.bind
  BY DEF EditRows
<1>6. copy \in RoleRows /\ copy.scope = scope /\ copy.override = row.override
  BY DEF RoleRows
<1>7. PICK a \in Requested : a = req[q]
  BY DEF BuildersTypeOK
<1> DEFINE x == [a EXCEPT !.at = step, !.of = r, !.edit = e, !.copy = copy]
<1>8. req' = [req EXCEPT ![q] = x]
  BY <1>3, <1>4, <1>7 DEF ReadRole, BuildersTypeOK
<1> HIDE DEF e, copy
<1>9. x \in Requested /\ x.at = step /\ x.of = r /\ x.old = a.old /\ x.new = a.new /\ x.cur = a.cur
      /\ x.edit = e /\ x.copy = copy
  BY <1>5, <1>6 DEF Requested, RoleSteps
<1> HIDE DEF x
<1>10. MirrorInv' /\ req' \in [Requests -> Requested] /\ Others(q) /\ req'[q] = x
  BY <1>1, <1>7, <1>8, <1>9, RoleGoes DEF RoleSteps, ScenarioSteps
<1>11. OverrideIsConfined'
  BY <1>1 DEF RoleInv, OverrideIsConfined
<1>12. ASSUME r \notin loose' PROVE EditorsOf(r) = {} /\ Checked(edit)
  BY <1>1, <1>12
<1>13. ASSUME NEW p \in Requests \ {q}, req[p].at \in PatchSteps, req[p].of \notin loose' PROVE req[p].of # r
  <2>1. SUFFICES ASSUME req[p].of = r PROVE FALSE
    OBVIOUS
  <2>2. p \in EditorsOf(r)
    BY <1>13, <2>1 DEF EditorsOf, InProgress, PatchSteps, RoleSteps
  <2> QED
    BY <1>12, <1>13, <2>1, <2>2
<1>14. ASSUME NEW p \in Requests \ {q} PROVE Confines(p)'
  BY <1>1, <1>9, <1>10, <1>13, ConfinesKept
<1>15. Confines(q)'
  <2>1. SUFFICES ASSUME r \notin loose' PROVE Confines(q)'
    BY <1>9, <1>10 DEF Confines
  <2>2. \A p \in Requests \ {q} : req'[p].at \in PatchSteps => req'[p].of # r
    BY <1>10, <1>13, <2>1 DEF Others
  <2>3. Checked(edit)
    BY <1>12, <2>1
  <2>4. ~e.bind => e.scope = None
    BY <1>5, <2>3 DEF Checked
  <2>5. step = "govern" => scope = Given(e.scope, row.scope)
    <3>1. CASE edit.scope # None
      BY <1>4, <1>5, <3>1 DEF Given
    <3>2. CASE edit.scope = None /\ edit.bind
      BY <1>4, <1>5, <2>3, <3>2 DEF Given, Checked
    <3>3. CASE edit.scope = None /\ ~edit.bind
      BY <1>4, <1>5, <3>3 DEF Given
    <3> QED
      BY <3>1, <3>2, <3>3
  <2>6. step = "clonegovern" => copy = row
    <3>1. SUFFICES ASSUME step = "clonegovern" PROVE copy = row
      OBVIOUS
    <3>2. scope = row.scope
      BY <1>4, <3>1 DEF Given, NoEdit
    <3> QED
      BY <1>6, <3>2 DEF RoleRows
  <2> QED
    BY <1>1, <1>3, <1>6, <1>9, <1>10, <2>2, <2>4, <2>5, <2>6 DEF Confines, At
<1> QED
  BY <1>9, <1>10, <1>11, <1>14, <1>15 DEF RoleInv, RoleSteps
\* What the lemmas about steps of Role Builder say.
RoleKept(q) == MirrorInv' /\ RoleInv' /\ req' \in [Requests -> Requested] /\ Others(q) /\ ~At(q, "commit")'

\* An answer of a request of Role Builder that wrote nothing.
LEMMA RoleAnswerKept ==
    ASSUME BuildersTypeOK, MirrorInv, RoleInv, NEW q \in Requests, Answer(q), req[q].at \notin ScenarioSteps,
           UNCHANGED <<scenario, role, mirror, foul, loose>>
    PROVE  RoleKept(q)
<1> DEFINE R == {}
           A == {}
<1>1. mirror' = (mirror \ R) \cup A /\ A \cup (R \cap mirror) \subseteq Roles \X foul' /\ R = {}
      /\ UNCHANGED scenario /\ foul \subseteq foul'
  OBVIOUS
<1> HIDE DEF R, A
<1>2. MirrorInv' /\ req' \in [Requests -> Requested] /\ Others(q) /\ req'[q] = NotMade
  BY <1>1, KeysAdded
<1>3. req'[q].at = "idle"
  BY <1>2, NotMadeTyped
<1> QED
  BY <1>2, <1>3, RolesLeft DEF PatchSteps, RoleKept, At

\* The scope and the override are checked against each other before the role is stored.
LEMMA CreateRoleKept ==
    ASSUME BuildersTypeOK, MirrorInv, RoleInv, NEW q \in Requests, NEW r \in Roles, NEW edit \in Edits,
           CreateRole(q, r, edit)
    PROVE  RoleKept(q) /\ req'[q] = NotMade
<1> DEFINE R == {}
           A == {r} \X edit.keys
<1>1. /\ req[q].at = "idle" /\ Answer(q) /\ UNCHANGED <<scenario, loose>> /\ R = {}
      /\ mirror' = (mirror \ R) \cup A /\ foul \subseteq foul' /\ A \cup (R \cap mirror) \subseteq Roles \X foul'
      /\ role' = [role EXCEPT ![r] = [scope |-> edit.scope, override |-> edit.override]]
      /\ Allowed(edit.override, edit.scope) /\ \A p \in Requests : req[p].of # r
  BY DEF CreateRole, At, Fresh
<1>2. MirrorInv' /\ req' \in [Requests -> Requested] /\ Others(q) /\ req'[q] = NotMade
  <2> HIDE DEF R, A
  <2> QED
    BY <1>1, KeysAdded DEF ScenarioSteps
<1>3. \A i \in Roles \ {r} : role'[i] = role[i]
  BY <1>1 DEF BuildersTypeOK
<1>4. role'[r].scope = edit.scope /\ role'[r].override = edit.override
  BY <1>1 DEF BuildersTypeOK
<1>5. OverrideIsConfined'
  BY <1>1, <1>3, <1>4 DEF RoleInv, OverrideIsConfined, Allowed
<1>6. req'[q].at = "idle"
  BY <1>2, NotMadeTyped
<1>7. ASSUME NEW p \in Requests PROVE Confines(p)'
  <2>1. CASE p = q
    BY <1>6, <2>1 DEF Confines, PatchSteps
  <2>2. CASE p # q
    <3>1. req[p].at \in PatchSteps => req[p].of \in Roles
      BY DEF MirrorInv, BoundInv, Bound, PatchSteps, RoleSteps
    <3>2. req[p].at \in PatchSteps => role'[req[p].of] = role[req[p].of]
      BY <1>1, <1>3, <3>1
    <3> QED
      BY <1>1, <1>2, <1>6, <2>2, <3>2, ConfinesKept DEF PatchSteps
  <2> QED
    BY <2>1, <2>2
<1> QED
  BY <1>2, <1>5, <1>6, <1>7 DEF RoleKept, RoleInv, At

\* The governance is read and what will be stored checked, in one step.
LEMMA ReadGovernanceKept ==
    ASSUME BuildersTypeOK, MirrorInv, RoleInv, NEW q \in Requests, ReadGovernance(q)
    PROVE  RoleKept(q)
<1> DEFINE r == req[q].of
<1>1. req[q].at = "govern" /\ UNCHANGED <<scenario, role, mirror, foul, loose>> /\ r \in Roles
  BY DEF ReadGovernance, At, MirrorInv, BoundInv, Bound, RoleSteps
<1>2. CASE Answer(q)
  BY <1>1, <1>2, RoleAnswerKept DEF ScenarioSteps
<1>3. CASE ~Answer(q)
  <2>1. PICK a \in Requested : a = req[q]
    BY DEF BuildersTypeOK
  <2>2. role[r] # None
    BY <1>3 DEF ReadGovernance
  <2>3. PICK row \in RoleRows : row = role[r]
    BY <1>1, <2>2 DEF BuildersTypeOK
  <2>4. PICK e \in EditRows : /\ e.scope = a.edit.scope /\ e.bind = a.edit.bind
                              /\ req' = [req EXCEPT ![q] = [a EXCEPT !.at = "editcopy", !.edit = e, !.copy = NotMade.copy]]
                              /\ e.bind => e.override = Given(a.edit.override, row.override)
                                           /\ Allowed(e.override, a.copy.scope)
    <3>1. CASE a.edit.bind
      <4> DEFINE g == Given(a.edit.override, row.override)
                 e == [a.edit EXCEPT !.override = g]
      <4>1. a.edit \in EditRows
        BY DEF Requested
      <4>2. g \in Overrides \cup {None}
        BY <4>1 DEF Given, EditRows, RoleRows
      <4> HIDE DEF g
      <4>3. e \in EditRows /\ e.scope = a.edit.scope /\ e.bind = a.edit.bind /\ e.override = g
        BY <4>1, <4>2 DEF EditRows
      <4>4. req' = [req EXCEPT ![q].at = "editcopy", ![q].edit.override = g, ![q].copy = NotMade.copy]
        BY <1>3, <2>1, <2>2, <2>3, <3>1 DEF ReadGovernance, g
      <4>5. req' = [req EXCEPT ![q] = [a EXCEPT !.at = "editcopy", !.edit = e, !.copy = NotMade.copy]]
        BY <2>1, <4>4 DEF BuildersTypeOK
      <4>6. Allowed(g, a.copy.scope)
        BY <1>3, <2>1, <2>2, <2>3, <3>1 DEF ReadGovernance, g
      <4> HIDE DEF e
      <4> QED
        BY <4>3, <4>5, <4>6 DEF g
    <3>2. CASE ~a.edit.bind
      <4>1. a.edit \in EditRows
        BY DEF Requested
      <4>2. req' = [req EXCEPT ![q].at = "editcopy", ![q].copy = NotMade.copy]
        BY <1>3, <2>1, <2>2, <3>2 DEF ReadGovernance
      <4>3. req' = [req EXCEPT ![q] = [a EXCEPT !.at = "editcopy", !.edit = a.edit, !.copy = NotMade.copy]]
        BY <2>1, <4>2 DEF BuildersTypeOK, Requested
      <4> QED
        BY <3>2, <4>1, <4>3
    <3> QED
      BY <3>1, <3>2
  <2>5. PICK blank \in RoleRows : blank = NotMade.copy
    BY NotMadeTyped
  <2> DEFINE x == [a EXCEPT !.at = "editcopy", !.edit = e, !.copy = blank]
  <2>6. x \in Requested /\ x.at = "editcopy" /\ x.of = r /\ x.old = a.old /\ x.new = a.new /\ x.cur = a.cur
        /\ x.edit = e
    BY <2>1 DEF Requested, RoleSteps
  <2>7. req' = [req EXCEPT ![q] = x]
    BY <2>4, <2>5
  <2> HIDE DEF x
  <2>8. e.bind => e.override # None
    BY <2>4, NoneAssumption, OverridesAssumption DEF Given, RoleRows
  <2>9. MirrorInv' /\ req' \in [Requests -> Requested] /\ Others(q) /\ req'[q] = x
    BY <1>1, <2>1, <2>6, <2>7, <2>8, RoleGoes DEF RoleSteps, ScenarioSteps
  <2>10. Confines(q) => Confines(q)'
    <3>1. SUFFICES ASSUME Confines(q), r \notin loose PROVE Confines(q)'
      BY <1>1, <2>6, <2>9 DEF Confines
    <3>2. \A p \in Requests \ {q} : req'[p].at \in PatchSteps => req'[p].of # r
      BY <1>1, <2>9, <3>1 DEF Confines, Others, PatchSteps
    <3>3. a.copy.scope = Given(a.edit.scope, role[r].scope) /\ (~a.edit.bind => a.edit.scope = None)
      BY <1>1, <2>1, <2>2, <3>1 DEF Confines, PatchSteps, At
    <3>4. e.bind => Allowed(e.override, Given(e.scope, role[r].scope))
      BY <2>4, <3>3
    <3>5. ~e.bind => e.scope = None
      BY <2>4, <3>3
    <3>6. req'[q].of = r /\ req'[q].edit = e /\ req'[q].at = "editcopy" /\ UNCHANGED role
      BY <1>1, <2>6, <2>9
    <3> HIDE DEF x
    <3> QED
      BY <2>8, <3>2, <3>4, <3>5, <3>6 DEF Confines, At
  <2>11. RoleInv'
    BY <1>1, <2>6, <2>9, <2>10, RoleGoesOn DEF PatchSteps
  <2> QED
    BY <2>6, <2>9, <2>11 DEF RoleKept, At
<1> QED
  BY <1>2, <1>3

LEMMA CopyRoleKept ==
    ASSUME BuildersTypeOK, MirrorInv, RoleInv, NEW q \in Requests, CopyRole(q)
    PROVE  RoleKept(q)
<1> DEFINE r == req[q].of
<1>1. req[q].at = "editcopy" /\ UNCHANGED <<scenario, role, mirror, foul, loose>> /\ r \in Roles
  BY DEF CopyRole, At, MirrorInv, BoundInv, Bound, RoleSteps
<1>2. CASE role[r] = None
  BY <1>1, <1>2, RoleAnswerKept DEF CopyRole, ScenarioSteps
<1>3. CASE role[r] # None
  <2>1. PICK a \in Requested : a = req[q]
    BY DEF BuildersTypeOK
  <2>2. PICK row \in RoleRows : row = role[r]
    BY <1>1, <1>3 DEF BuildersTypeOK
  <2> DEFINE x == [a EXCEPT !.at = "editwrite", !.copy = row]
  <2>3. x \in Requested /\ x.at = "editwrite" /\ x.of = r /\ x.old = a.old /\ x.new = a.new /\ x.cur = a.cur
        /\ x.edit = a.edit /\ x.copy = role[r]
    BY <2>1, <2>2 DEF Requested, RoleSteps
  <2>4. req' = [req EXCEPT ![q] = x]
    BY <1>3, <2>1, <2>2 DEF CopyRole, BuildersTypeOK
  <2> HIDE DEF x
  <2>5. MirrorInv' /\ req' \in [Requests -> Requested] /\ Others(q) /\ req'[q] = x
    <3>1. a.edit.bind => a.edit.override # None
      BY <1>1, <2>1 DEF MirrorInv, BoundInv, Bound
    <3> QED
      BY <1>1, <2>1, <2>3, <2>4, <3>1, RoleGoes DEF RoleSteps, ScenarioSteps
  <2>6. Confines(q) => Confines(q)'
    <3>1. SUFFICES ASSUME Confines(q), r \notin loose PROVE Confines(q)'
      BY <1>1, <2>3, <2>5 DEF Confines
    <3>2. \A p \in Requests \ {q} : req'[p].at \in PatchSteps => req'[p].of # r
      BY <1>1, <2>5, <3>1 DEF Confines, Others, PatchSteps
    <3> QED
      BY <1>1, <1>3, <2>1, <2>3, <2>5, <3>1, <3>2 DEF Confines, At, PatchSteps
  <2>7. RoleInv'
    BY <1>1, <2>3, <2>5, <2>6, RoleGoesOn DEF PatchSteps
  <2> QED
    BY <2>3, <2>5, <2>7 DEF RoleKept, At
<1> QED
  BY <1>2, <1>3

\* What is stored was checked with what the role has.
LEMMA WriteRoleKept ==
    ASSUME BuildersTypeOK, MirrorInv, RoleInv, NEW q \in Requests, WriteRole(q)
    PROVE  RoleKept(q)
<1> DEFINE r == req[q].of
           e == req[q].edit
<1>1. req[q].at = "editwrite" /\ UNCHANGED <<scenario, loose>> /\ r \in Roles
  BY DEF WriteRole, At, MirrorInv, BoundInv, Bound, RoleSteps
<1>2. CASE role[r] = None
  BY <1>1, <1>2, RoleAnswerKept DEF WriteRole, ScenarioSteps
<1>3. CASE role[r] # None
  <2>1. /\ mirror' = (mirror \ (IF e.bind THEN KeysOf(r) ELSE {})) \cup (IF e.bind THEN {r} \X e.keys ELSE {})
        /\ Advance(q, NotMade, IF e.bind THEN KeysOf(r) ELSE {})
        /\ foul \subseteq foul'
        /\ e.bind => e.keys \cup {k[2] : k \in KeysOf(r)} \subseteq foul'
    <3>1. CASE e.bind
      BY <1>3, <3>1 DEF WriteRole
    <3>2. CASE ~e.bind
      BY <1>3, <3>2 DEF WriteRole
    <3> QED
      BY <3>1, <3>2
  <2> DEFINE R == IF e.bind THEN KeysOf(r) ELSE {}
             A == IF e.bind THEN {r} \X e.keys ELSE {}
  <2>2. A \cup (R \cap mirror) \subseteq Roles \X foul'
    <3>1. \A k \in KeysOf(r) : k = <<r, k[2]>>
      BY DEF KeysOf
    <3> QED
      BY <1>1, <2>1, <3>1
  <2> HIDE DEF R, A
  <2>3. mirror' = (mirror \ R) \cup A /\ Advance(q, NotMade, R)
    BY <2>1 DEF R, A
  <2>5. MirrorInv' /\ req' \in [Requests -> Requested] /\ Others(q) /\ req'[q] = NotMade
    <3>1. /\ req' \in [Requests -> Requested] /\ Others(q) /\ req'[q] = NotMade
          /\ \A p \in Requests \ {q} : req'[p].rows = req[p].rows \ R
      BY <2>3, AdvanceStep, NotMadeTyped
    <3>2. Bound(q)' /\ req'[q].at \notin ScenarioSteps
      BY <3>1, NotMadeTyped DEF Bound, At, ScenarioSteps, RoleSteps
    <3> QED
      BY <1>1, <2>1, <2>2, <2>3, <3>1, <3>2, RoleSideKept DEF ScenarioSteps
  <2>6. req'[q].at = "idle"
    BY <2>5, NotMadeTyped
  <2>7. \A i \in Roles \ {r} : role'[i] = role[i]
    BY <1>3 DEF WriteRole, BuildersTypeOK
  <2>8. PICK row \in RoleRows : row = role[r]
    BY <1>1, <1>3 DEF BuildersTypeOK
  <2>9. /\ role'[r].scope = Given(e.scope, req[q].copy.scope)
        /\ e.bind => role'[r].override = e.override
        /\ ~e.bind => role'[r].override = row.override
    BY <1>1, <1>3, <2>8 DEF WriteRole, BuildersTypeOK, RoleRows
  <2>10. ASSUME r \notin loose PROVE Allowed(role'[r].override, role'[r].scope)
    <3>1. Confines(q) /\ Allowed(row.override, row.scope)
      BY <1>1, <1>3, <2>8, <2>10 DEF RoleInv, OverrideIsConfined
    <3>2. req[q].copy = row /\ (~e.bind => e.scope = None)
          /\ (e.bind => Allowed(e.override, Given(e.scope, row.scope)))
      BY <1>1, <1>3, <2>8, <2>10, <3>1 DEF Confines, PatchSteps, At
    <3> QED
      BY <2>9, <3>1, <3>2 DEF Given
  <2>11. OverrideIsConfined'
    BY <1>1, <2>7, <2>10 DEF RoleInv, OverrideIsConfined
  <2>12. ASSUME NEW p \in Requests PROVE Confines(p)'
    <3>1. CASE p = q
      BY <2>6, <3>1 DEF Confines, PatchSteps
    <3>2. CASE p # q
      <4>1. req[p].at \in PatchSteps => req[p].of \in Roles
        BY DEF MirrorInv, BoundInv, Bound, PatchSteps, RoleSteps
      <4>2. req[p].at \in PatchSteps /\ req[p].of \notin loose => req[p].of # r
        BY <1>1, <3>2 DEF RoleInv, Confines, PatchSteps
      <4> QED
        BY <1>1, <2>5, <2>6, <2>7, <3>2, <4>1, <4>2, ConfinesKept DEF PatchSteps
    <3> QED
      BY <3>1, <3>2
  <2> QED
    BY <2>5, <2>6, <2>11, <2>12 DEF RoleKept, RoleInv, At
<1> QED
  BY <1>2, <1>3
LEMMA CloneGovernanceKept ==
    ASSUME BuildersTypeOK, MirrorInv, RoleInv, NEW q \in Requests, CloneGovernance(q)
    PROVE  RoleKept(q)
<1> DEFINE r == req[q].of
<1>1. req[q].at = "clonegovern" /\ UNCHANGED <<scenario, role, mirror, foul, loose>> /\ r \in Roles
  BY DEF CloneGovernance, At, MirrorInv, BoundInv, Bound, RoleSteps
<1>2. CASE role[r] = None
  BY <1>1, <1>2, RoleAnswerKept DEF CloneGovernance, ScenarioSteps
<1>3. CASE role[r] # None
  <2>1. PICK a \in Requested : a = req[q]
    BY DEF BuildersTypeOK
  <2>2. PICK row \in RoleRows : row = role[r]
    BY <1>1, <1>3 DEF BuildersTypeOK
  <2>3. PICK keys \in SUBSET Codes : keys = {k[2] : k \in KeysOf(r)}
    BY DEF KeysOf
  <2> DEFINE copy == [a.copy EXCEPT !.override = row.override]
             e == [a.edit EXCEPT !.keys = keys]
             x == [a EXCEPT !.at = "clone", !.edit = e, !.copy = copy]
  <2>4. copy \in RoleRows /\ copy.override = row.override /\ copy.scope = a.copy.scope
    BY DEF Requested, RoleRows
  <2>5. e \in EditRows /\ e.bind = a.edit.bind /\ e.scope = a.edit.scope
    BY DEF Requested, EditRows
  <2>6. req' = [req EXCEPT ![q] = x]
    <3>1. req' = [req EXCEPT ![q].at = "clone", ![q].copy.override = row.override, ![q].edit.keys = keys]
      BY <1>3, <2>2, <2>3 DEF CloneGovernance
    <3> QED
      BY <2>1, <3>1 DEF BuildersTypeOK
  <2> HIDE DEF copy, e
  <2>7. x \in Requested /\ x.at = "clone" /\ x.of = r /\ x.old = a.old /\ x.new = a.new /\ x.cur = a.cur
        /\ x.edit = e /\ x.copy = copy
    BY <2>1, <2>4, <2>5 DEF Requested, RoleSteps
  <2> HIDE DEF x
  <2>8. MirrorInv' /\ req' \in [Requests -> Requested] /\ Others(q) /\ req'[q] = x
    BY <1>1, <2>1, <2>6, <2>7, RoleGoes DEF RoleSteps, ScenarioSteps
  <2>9. Confines(q) => Confines(q)'
    <3>1. SUFFICES ASSUME Confines(q), r \notin loose PROVE Confines(q)'
      BY <1>1, <2>7, <2>8 DEF Confines
    <3>2. \A p \in Requests \ {q} : req'[p].at \in PatchSteps => req'[p].of # r
      BY <1>1, <2>8, <3>1 DEF Confines, Others, PatchSteps
    <3>3. a.copy = row /\ (~a.edit.bind => a.edit.scope = None)
      BY <1>1, <1>3, <2>1, <2>2, <3>1 DEF Confines, PatchSteps, At
    <3>4. Allowed(row.override, row.scope)
      BY <1>1, <1>3, <2>2, <3>1 DEF RoleInv, OverrideIsConfined
    <3>5. Allowed(copy.override, copy.scope)
      BY <2>4, <3>3, <3>4
    <3>6. req'[q].of = r /\ req'[q].edit = e /\ req'[q].copy = copy /\ req'[q].at = "clone"
      BY <2>7, <2>8
    <3> QED
      BY <2>5, <3>2, <3>3, <3>5, <3>6 DEF Confines, At
  <2>10. RoleInv'
    BY <1>1, <2>7, <2>8, <2>9, RoleGoesOn DEF PatchSteps
  <2> QED
    BY <2>7, <2>8, <2>10 DEF RoleKept, At
<1> QED
  BY <1>2, <1>3

\* A clone is as good as what was copied.
LEMMA WriteCloneKept ==
    ASSUME BuildersTypeOK, MirrorInv, RoleInv, NEW q \in Requests, NEW new \in Roles, WriteClone(q, new)
    PROVE  RoleKept(q)
<1> DEFINE R == {}
           A == {new} \X req[q].edit.keys
           copy == req[q].copy
<1>1. /\ req[q].at = "clone" /\ Answer(q) /\ UNCHANGED scenario /\ R = {} /\ req[q].of \in Roles
      /\ mirror' = (mirror \ R) \cup A /\ foul \subseteq foul' /\ A \cup (R \cap mirror) \subseteq Roles \X foul'
      /\ role' = [role EXCEPT ![new] = copy]
      /\ \A p \in Requests : req[p].of # new
      /\ loose' = loose \cup {i \in {new} : req[q].of \in loose}
  BY DEF WriteClone, At, Fresh, MirrorInv, BoundInv, Bound, RoleSteps
<1>2. MirrorInv' /\ req' \in [Requests -> Requested] /\ Others(q) /\ req'[q] = NotMade
  <2> HIDE DEF R, A
  <2> QED
    BY <1>1, KeysAdded DEF ScenarioSteps
<1>3. (\A i \in Roles \ {new} : role'[i] = role[i]) /\ role'[new] = copy
  BY <1>1 DEF BuildersTypeOK
<1>4. new \notin loose' => Allowed(copy.override, copy.scope)
  BY <1>1 DEF RoleInv, Confines, PatchSteps, At
<1>5. OverrideIsConfined'
  BY <1>1, <1>3, <1>4 DEF RoleInv, OverrideIsConfined
<1>6. req'[q].at = "idle"
  BY <1>2, NotMadeTyped
<1>7. ASSUME NEW p \in Requests PROVE Confines(p)'
  <2>1. CASE p = q
    BY <1>6, <2>1 DEF Confines, PatchSteps
  <2>2. CASE p # q
    <3>1. req[p].at \in PatchSteps => req[p].of \in Roles
      BY DEF MirrorInv, BoundInv, Bound, PatchSteps, RoleSteps
    <3>2. req[p].at \in PatchSteps => role'[req[p].of] = role[req[p].of]
      BY <1>1, <1>3, <3>1
    <3> QED
      BY <1>1, <1>2, <1>6, <2>2, <3>2, ConfinesKept DEF PatchSteps
  <2> QED
    BY <2>1, <2>2
<1> QED
  BY <1>2, <1>5, <1>6, <1>7 DEF RoleKept, RoleInv, At

LEMMA DeleteRoleKept ==
    ASSUME BuildersTypeOK, MirrorInv, RoleInv, NEW q \in Requests, NEW r \in Roles, DeleteRole(q, r)
    PROVE  RoleKept(q)
<1>1. req[q].at = "idle" /\ UNCHANGED <<scenario, role, mirror, foul, loose>>
  BY DEF DeleteRole, At
<1>2. PICK a \in Requested : a = req[q]
  BY DEF BuildersTypeOK
<1> DEFINE x == [a EXCEPT !.at = "drop role", !.of = r]
<1>3. x \in Requested /\ x.at = "drop role" /\ x.of = r /\ x.old = a.old /\ x.new = a.new /\ x.cur = a.cur
  BY <1>2 DEF Requested, RoleSteps
<1>4. req' = [req EXCEPT ![q] = x]
  BY <1>2 DEF DeleteRole, BuildersTypeOK
<1> HIDE DEF x
<1>5. MirrorInv' /\ req' \in [Requests -> Requested] /\ Others(q) /\ req'[q] = x
  BY <1>1, <1>2, <1>3, <1>4, RoleGoes DEF RoleSteps, ScenarioSteps
<1> QED
  BY <1>1, <1>3, <1>5, RolesLeft DEF RoleKept, PatchSteps, At

\* The role leaves keys and bindings at once, so what is exact stays so.
LEMMA DeleteHardKept ==
    ASSUME BuildersTypeOK, MirrorInv, RoleInv, NEW q \in Requests, DeleteHard(q)
    PROVE  RoleKept(q)
<1> DEFINE r == req[q].of
           R == KeysOf(r)
           A == {}
<1>1. /\ req[q].at = "drop role" /\ UNCHANGED <<foul, loose>> /\ r \in Roles
      /\ mirror' = mirror \ R /\ Advance(q, NotMade, R) /\ role' = [role EXCEPT ![r] = None]
      /\ scenario' = [s \in Scenarios |-> [scenario[s] EXCEPT !.seen = @ \ {r}]]
  BY DEF DeleteHard, At, MirrorInv, BoundInv, Bound, RoleSteps
<1>2. req' \in [Requests -> Requested] /\ Others(q) /\ req'[q] = NotMade
      /\ \A p \in Requests \ {q} : req'[p].rows = req[p].rows \ R
  BY <1>1, AdvanceStep, NotMadeTyped
<1>3. \A s \in Scenarios : scenario'[s].code = scenario[s].code /\ scenario'[s].seen = scenario[s].seen \ {r}
  BY <1>1 DEF BuildersTypeOK
<1>4. BoundInv'
  <2>1. Bound(q)'
    BY <1>2, NotMadeTyped DEF Bound, At, ScenarioSteps, RoleSteps
  <2> QED
    BY <1>2, <2>1, OthersBound DEF MirrorInv
<1>5. UniqueInv'
  BY <1>3 DEF MirrorInv, UniqueInv, Exists
<1>6. CleanInv'
  <2>1. ASSUME NEW p \in Requests \ {q}, req'[p].at \in ScenarioSteps PROVE Clean(p)' \/ Tainted(p)'
    <3>1. req[p].at \in ScenarioSteps /\ req'[q].at \notin ScenarioSteps
      BY <1>2, <2>1, NotMadeTyped DEF Others, ScenarioSteps
    <3> QED
      BY <1>1, <1>2, <1>3, <3>1, OthersClean DEF MirrorInv
  <2> QED
    BY <1>2, <2>1, NotMadeTyped DEF CleanInv, ScenarioSteps
<1>7. KeyInv'
  <2>1. ASSUME NEW c \in Codes \ foul', NEW i \in Roles PROVE Key(c, i)'
    <3>1. ~Disturbs(q, c) /\ ~Disturbs(q, c)'
      BY <1>1, <1>2, NotMadeTyped DEF Disturbs, At
    <3>2. CASE i = r
      <4>1. <<i, c>> \notin mirror' /\ \A s \in Scenarios : i \notin scenario'[s].seen
        BY <1>1, <1>3, <3>2 DEF KeysOf
      <4> QED
        BY <4>1 DEF Key
    <3>3. CASE i # r
      <4>1. <<i, c>> \in mirror' <=> <<i, c>> \in mirror
        BY <1>1, <3>3 DEF KeysOf
      <4>2. \A s \in Scenarios : (scenario'[s].code = c /\ i \in scenario'[s].seen)
                                     <=> (scenario[s].code = c /\ i \in scenario[s].seen)
        BY <1>3, <3>3
      <4> QED
        BY <1>1, <1>2, <3>1, <4>1, <4>2, KeyKept DEF MirrorInv
    <3> QED
      BY <3>2, <3>3
  <2> QED
    BY <2>1 DEF KeyInv
<1>8. RowsInv'
  <2>1. ASSUME NEW p \in Requests \ {q} PROVE Rows(p)'
    <3>1. mirror' \subseteq (mirror \ R) \cup A /\ A \cap (Roles \X {req[p].old}) = {} /\ foul \subseteq foul'
      BY <1>1
    <3> HIDE DEF R, A
    <3> QED
      BY <1>2, <3>1, RowsKept DEF MirrorInv
  <2>2. Rows(q)'
    BY <1>2, NotMadeTyped DEF Rows, At
  <2> QED
    BY <2>1, <2>2 DEF RowsInv
<1>9. MirrorInv'
  BY <1>4, <1>5, <1>6, <1>7, <1>8 DEF MirrorInv
<1>10. (\A i \in Roles \ {r} : role'[i] = role[i]) /\ role'[r] = None
  BY <1>1 DEF BuildersTypeOK
<1>11. OverrideIsConfined'
  BY <1>1, <1>10 DEF RoleInv, OverrideIsConfined
<1>12. req'[q].at = "idle"
  BY <1>2, NotMadeTyped
<1>13. ASSUME NEW p \in Requests PROVE Confines(p)'
  <2>1. CASE p = q
    BY <1>12, <2>1 DEF Confines, PatchSteps
  <2>2. CASE p # q
    <3>1. req[p].at \in PatchSteps => req[p].of \in Roles
      BY DEF MirrorInv, BoundInv, Bound, PatchSteps, RoleSteps
    <3>2. req[p].at \in PatchSteps => role'[req[p].of] \in {role[req[p].of], None}
      BY <1>10, <3>1
    <3> QED
      BY <1>1, <1>2, <1>12, <2>2, <3>2, ConfinesKept DEF PatchSteps
  <2> QED
    BY <2>1, <2>2
<1> QED
  BY <1>2, <1>9, <1>11, <1>12, <1>13 DEF RoleKept, RoleInv, At

-----------------------------------------------------------------------------
(* Builders: what is stored, and the roles that see a scenario.             *)

Stored ==
    /\ scenario \in [Scenarios -> [code : Codes \cup {None}, seen : SUBSET Roles]]
    /\ role \in [Roles -> RoleRows \cup {None}]
    /\ mirror \subseteq {r \in Roles : role[r] # None} \X Codes
    /\ foul \subseteq Codes
    /\ loose \subseteq Roles

\* The codes of a request for a scenario are codes.
LEMMA OwnCodes ==
    ASSUME BuildersTypeOK, BoundInv, NEW q \in Requests, req[q].at \in ScenarioSteps
    PROVE  /\ req[q].of \in Scenarios /\ req[q].old \in Codes /\ req[q].new \in Codes \cup {None}
           /\ req[q].cur \in Codes \cup {None} /\ req[q].seen \subseteq Roles
           /\ (At(q, "resynced") => req[q].new \in Codes)
BY DEF BoundInv, Bound, BuildersTypeOK, Requested, At

\* Roles stay, or leave every scenario at once.
LEMMA SeenKept ==
    ASSUME SeenInv, NEW q \in Requests, Others(q),
           \A s \in Scenarios : \A r \in scenario'[s].seen : role'[r] # None,
           \A p \in Requests \ {q} : At(p, "commit") => \A r \in req[p].seen : role'[r] # None,
           At(q, "commit")' => \A r \in req'[q].seen : role'[r] # None
    PROVE  SeenInv'
BY DEF SeenInv, Others, At

\* A step that writes no table.
LEMMA UnwrittenStored ==
    ASSUME BuildersTypeOK, SeenInv, NEW q \in Requests, Others(q), UNCHANGED <<scenario, role, mirror>>,
           foul' \subseteq Codes, loose' \subseteq Roles, ~At(q, "commit")'
    PROVE  Stored' /\ SeenInv'
<1>1. Stored'
  BY DEF BuildersTypeOK, Stored
<1>2. SeenInv'
  BY DEF SeenInv, Others, At
<1> QED
  BY <1>1, <1>2

\* What the steps of Scenario Builder that write a table leave in it.
LEMMA ScenarioStored ==
    ASSUME BuildersTypeOK, MirrorInv, SeenInv, NEW q \in Requests, ScenarioKept(q),
           \/ RemoveRoleScenarioMirrorForCode(q) \/ WriteScenario(q) \/ ResyncCommit(q)
           \/ ReplaceCommit(q) \/ DropScenario(q)
    PROVE  Stored' /\ SeenInv'
<1> DEFINE s == req[q].of
<1>1. UNCHANGED <<role, foul, loose>> /\ req[q].at \in ScenarioSteps
  BY DEF RemoveRoleScenarioMirrorForCode, WriteScenario, ResyncCommit, ReplaceCommit, DropScenario, At, ScenarioSteps
<1>2. s \in Scenarios /\ req[q].old \in Codes /\ req[q].new \in Codes \cup {None}
      /\ req[q].cur \in Codes \cup {None} /\ req[q].seen \subseteq Roles /\ (At(q, "resynced") => req[q].new \in Codes)
  BY <1>1, OwnCodes DEF MirrorInv
<1>3. /\ scenario' \in [Scenarios -> [code : Codes \cup {None}, seen : SUBSET Roles]]
      /\ \A t \in Scenarios : \A r \in scenario'[t].seen : role[r] # None
  <2>1. CASE UNCHANGED scenario
    BY <2>1 DEF BuildersTypeOK, SeenInv
  <2>2. CASE WriteScenario(q) /\ ~UNCHANGED scenario
    <3>1. Written(q) \in Codes \cup {None} /\ scenario' = [scenario EXCEPT ![s].code = Written(q)]
      BY <1>2, <2>2 DEF WriteScenario, Written
    <3> QED
      BY <1>2, <3>1 DEF BuildersTypeOK, SeenInv
  <2>3. CASE ReplaceCommit(q)
    <3>1. scenario' = [scenario EXCEPT ![s].seen = (@ \ req[q].taken) \cup req[q].seen] /\ At(q, "commit")
      BY <2>3 DEF ReplaceCommit
    <3>2. \A r \in req[q].seen : role[r] # None
      BY <3>1 DEF SeenInv
    <3> QED
      BY <1>2, <3>1, <3>2 DEF BuildersTypeOK, SeenInv
  <2>4. CASE DropScenario(q)
    <3>1. scenario' = [scenario EXCEPT ![s] = [code |-> None, seen |-> {}]]
      BY <2>4 DEF DropScenario
    <3> QED
      BY <1>2, <3>1 DEF BuildersTypeOK, SeenInv
  <2> QED
    BY <2>1, <2>2, <2>3, <2>4 DEF RemoveRoleScenarioMirrorForCode, ResyncCommit
<1>4. mirror' \subseteq {r \in Roles : role[r] # None} \X Codes
  <2>1. CASE mirror' \subseteq mirror
    BY <2>1 DEF BuildersTypeOK
  <2>2. CASE ResyncCommit(q)
    <3>1. mirror' \subseteq mirror \cup (scenario[s].seen \X {req[q].new}) /\ req[q].new \in Codes
      BY <1>2, <2>2 DEF ResyncCommit
    <3>2. scenario[s].seen \subseteq {r \in Roles : role[r] # None}
      BY <1>2 DEF SeenInv, BuildersTypeOK
    <3> QED
      BY <3>1, <3>2 DEF BuildersTypeOK
  <2>3. CASE ReplaceCommit(q)
    <3>1. mirror' \subseteq mirror \cup (req[q].seen \X {req[q].old}) /\ At(q, "commit")
      BY <2>3 DEF ReplaceCommit
    <3>2. req[q].seen \subseteq {r \in Roles : role[r] # None}
      BY <1>2, <3>1 DEF SeenInv
    <3> QED
      BY <1>2, <3>1, <3>2 DEF BuildersTypeOK
  <2> QED
    BY <2>1, <2>2, <2>3 DEF RemoveRoleScenarioMirrorForCode, WriteScenario, DropScenario
<1>5. Stored'
  BY <1>1, <1>3, <1>4 DEF Stored, BuildersTypeOK
<1>6. ~At(q, "commit")'
  <2>1. CASE RemoveRoleScenarioMirrorForCode(q)
    <3>1. req'[q] = [req[q] EXCEPT !.at = IF req[q].new = None THEN "drop" ELSE "copy"]
      BY <2>1 DEF RemoveRoleScenarioMirrorForCode, Advance
    <3> QED
      BY <3>1 DEF BuildersTypeOK, Requested, At
  <2>2. CASE WriteScenario(q)
    <3>1. Answer(q) \/ Go(q, "resync")
      BY <2>2 DEF WriteScenario
    <3> QED
      BY <3>1, AnswerStep, NotMadeTyped DEF Go, BuildersTypeOK, Requested, At
  <2>3. CASE ResyncCommit(q) \/ ReplaceCommit(q) \/ DropScenario(q)
    BY <2>3, AnswerStep, NotMadeTyped DEF ResyncCommit, ReplaceCommit, DropScenario, Advance, At
  <2> QED
    BY <2>1, <2>2, <2>3
<1>7. SeenInv'
  <2>1. \A p \in Requests \ {q} : At(p, "commit") => \A r \in req[p].seen : role'[r] # None
    BY <1>1 DEF SeenInv
  <2> QED
    BY <1>1, <1>3, <1>6, <2>1, SeenKept DEF ScenarioKept
<1> QED
  BY <1>5, <1>7

\* The other steps of Scenario Builder.
LEMMA ScenarioWorks ==
    ASSUME BuildersTypeOK, MirrorInv, SeenInv, NEW q \in Requests, ScenarioKept(q),
           RefusePatch(q) \/ CopyScenario(q) \/ ResyncDelete(q) \/ ReplaceDelete(q) \/ ReplaceMirror(q) \/ Crash(q)
    PROVE  Stored' /\ SeenInv'
<1>1. UNCHANGED <<scenario, role, mirror, loose>>
  BY DEF RefusePatch, CopyScenario, ResyncDelete, ReplaceDelete, ReplaceMirror, Crash
<1>2. foul' \subseteq Codes
  <2>1. CodesOf(q) \subseteq Codes
    BY DEF CodesOf, BuildersTypeOK, Requested
  <2>2. RefusePatch(q) => req[q].old \in Codes
    BY OwnCodes DEF RefusePatch, At, ScenarioSteps, MirrorInv
  <2> QED
    BY <2>1, <2>2 DEF RefusePatch, CopyScenario, ResyncDelete, ReplaceDelete, ReplaceMirror, Crash, BuildersTypeOK
<1>3. loose' \subseteq Roles
  BY <1>1 DEF BuildersTypeOK
<1>4. CASE ~At(q, "commit")'
  BY <1>1, <1>2, <1>3, <1>4, UnwrittenStored DEF ScenarioKept
<1>5. CASE At(q, "commit")'
  <2>1. Stored'
    BY <1>1, <1>2 DEF BuildersTypeOK, Stored
  <2>2. ReplaceMirror(q)
    <3>1. CASE RefusePatch(q) \/ Crash(q)
      BY <1>5, <3>1, AnswerStep, OwnStep, NotMadeTyped DEF RefusePatch, Crash, At, NotMade
    <3>2. CASE CopyScenario(q) \/ ResyncDelete(q) \/ ReplaceDelete(q)
      <4>1. Answer(q) \/ req'[q].at \in {"write", "resynced", "mirror"}
        BY <3>2 DEF CopyScenario, ResyncDelete, ReplaceDelete, BuildersTypeOK, Requested
      <4> QED
        BY <1>5, <4>1, AnswerStep, NotMadeTyped DEF At
    <3> QED
      BY <3>1, <3>2
  <2>3. /\ \A r \in req[q].seen : role[r] # None
        /\ req' = [req EXCEPT ![q].at = "commit", ![q].rows = Keyed(req[q].old)]
    BY <1>5, <2>2, AnswerStep, NotMadeTyped DEF ReplaceMirror, At
  <2>4. req'[q].seen = req[q].seen
    BY <2>3 DEF BuildersTypeOK, Requested
  <2>5. SeenInv'
    BY <1>1, <2>3, <2>4, SeenKept DEF ScenarioKept, SeenInv
  <2> QED
    BY <2>1, <2>5
<1> QED
  BY <1>4, <1>5

\* The requests to Scenario Builder that begin.
LEMMA ScenarioBegins ==
    ASSUME BuildersTypeOK, MirrorInv, SeenInv, RoleInv, NEW q \in Requests, NEW s \in Scenarios,
           \/ \E c \in Codes : CreateScenario(q, s, c)
           \/ \E new \in Codes \cup {None} : PatchScenario(q, s, new)
           \/ \E seen \in SUBSET Roles : ReplaceRoleBindings(q, s, seen)
           \/ DeleteScenario(q, s)
    PROVE  ScenarioKept(q) /\ Stored' /\ SeenInv'
<1>1. CASE \E c \in Codes : CreateScenario(q, s, c)
  <2>1. PICK c \in Codes : CreateScenario(q, s, c)
    BY <1>1
  <2>2. MirrorInv' /\ req' \in [Requests -> Requested] /\ Others(q) /\ req'[q].at = "idle"
    BY <2>1, CreateScenarioKept, NotMadeTyped
  <2>3. UNCHANGED <<role, mirror, foul, loose>> /\ scenario' = [scenario EXCEPT ![s] = [code |-> c, seen |-> {}]]
    BY <2>1 DEF CreateScenario
  <2>4. scenario' \in [Scenarios -> [code : Codes \cup {None}, seen : SUBSET Roles]]
    BY <2>3 DEF BuildersTypeOK
  <2>5. Stored'
    BY <2>3, <2>4 DEF Stored, BuildersTypeOK
  <2>6. \A t \in Scenarios : \A r \in scenario'[t].seen : role'[r] # None
    BY <2>3 DEF BuildersTypeOK, SeenInv
  <2>7. SeenInv'
    BY <2>2, <2>3, <2>6, SeenKept DEF SeenInv, At
  <2> QED
    BY <2>2, <2>5, <2>7 DEF ScenarioKept, RoleSteps
<1>2. CASE ~ \E c \in Codes : CreateScenario(q, s, c)
  <2>1. MirrorInv' /\ req' \in [Requests -> Requested] /\ Others(q) /\ req'[q].at \in ScenarioSteps
        /\ UNCHANGED <<scenario, role, mirror, loose>>
    BY <1>2, ScenarioStartKept
  <2>2. PICK new \in Codes \cup {None}, seen \in SUBSET Roles, step \in {"unmirror", "copy", "delete"} :
            ReadCode(q, s, new, seen, step)
    <3>1. ASSUME NEW new \in Codes \cup {None}, PatchScenario(q, s, new)
          PROVE  ReadCode(q, s, new, {}, "copy") \/ ReadCode(q, s, new, {}, "unmirror")
      BY <3>1 DEF PatchScenario
    <3>2. ASSUME NEW seen \in SUBSET Roles, ReplaceRoleBindings(q, s, seen)
          PROVE  ReadCode(q, s, None, seen, "delete")
      BY <3>2 DEF ReplaceRoleBindings
    <3>3. DeleteScenario(q, s) => ReadCode(q, s, None, {}, "unmirror")
      BY DEF DeleteScenario
    <3> QED
      BY <1>2, <3>1, <3>2, <3>3, {} \in SUBSET Roles, None \in Codes \cup {None}
  <2>3. foul' = foul \cup Meet(s, {scenario[s].code, new}) /\ req'[q].at = step
    BY <2>2 DEF ReadCode, BuildersTypeOK, Requested
  <2>4. \A p \in Requests : CodesOf(p) \subseteq Codes
    BY DEF CodesOf, BuildersTypeOK, Requested
  <2>5. {scenario[s].code, new} \subseteq Codes \cup {None}
    BY DEF BuildersTypeOK
  <2>6. foul' \subseteq Codes
    BY <2>3, <2>4, <2>5 DEF Meet, BuildersTypeOK
  <2>7. Stored' /\ SeenInv'
    BY <2>1, <2>3, <2>6, UnwrittenStored DEF At, BuildersTypeOK
  <2> QED
    BY <2>1, <2>3, <2>7 DEF ScenarioKept, RoleSteps
<1> QED
  BY <1>1, <1>2

\* A step that leaves Role Builder alone.
LEMMA RolesUntouched ==
    ASSUME RoleInv, NEW q \in Requests, ScenarioKept(q), UNCHANGED <<role, loose>>
    PROVE  RoleInv'
BY RolesLeft DEF ScenarioKept, PatchSteps, RoleSteps

\* What the steps of Role Builder that write a table leave in it.
LEMMA RolesStored ==
    ASSUME BuildersTypeOK, SeenInv, NEW q \in Requests, Others(q), ~At(q, "commit")',
           UNCHANGED scenario, role' \in [Roles -> RoleRows \cup {None}],
           \A r \in Roles : role[r] # None => role'[r] # None,
           NEW i \in Roles, role'[i] # None, NEW keys \in SUBSET Codes, mirror' \subseteq mirror \cup ({i} \X keys),
           foul' \subseteq Codes, loose' \subseteq Roles
    PROVE  Stored' /\ SeenInv'
<1>1. mirror' \subseteq {r \in Roles : role'[r] # None} \X Codes
  BY DEF BuildersTypeOK
<1>2. Stored'
  BY <1>1 DEF Stored, BuildersTypeOK
<1>3. \A s \in Scenarios : \A r \in scenario'[s].seen : role'[r] # None
  BY DEF BuildersTypeOK, SeenInv
<1>4. \A p \in Requests : At(p, "commit") => \A r \in req[p].seen : role'[r] # None
  BY DEF BuildersTypeOK, Requested, SeenInv
<1> QED
  BY <1>2, <1>3, <1>4, SeenKept

\* A new role, a patched one, a clone.
LEMMA CreateRoleStored ==
    ASSUME BuildersTypeOK, SeenInv, NEW q \in Requests, RoleKept(q), NEW r \in Roles, NEW edit \in Edits,
           CreateRole(q, r, edit)
    PROVE  Stored' /\ SeenInv'
<1>1. edit.keys \in SUBSET Codes /\ edit.scope \in Scopes /\ edit.override \in Overrides
  BY DEF CreateRole, Edits, EditRows
<1>2. PICK row \in RoleRows : row = [scope |-> edit.scope, override |-> edit.override]
  BY <1>1 DEF RoleRows
<1>3. role' = [role EXCEPT ![r] = row] /\ UNCHANGED <<scenario, loose>>
      /\ mirror' = mirror \cup ({r} \X edit.keys) /\ foul' = foul \cup edit.keys
  BY <1>2 DEF CreateRole
<1>4. role' \in [Roles -> RoleRows \cup {None}] /\ role'[r] # None /\ \A i \in Roles : role[i] # None => role'[i] # None
  BY <1>2, <1>3, NoneAssumption DEF BuildersTypeOK
<1>5. foul' \subseteq Codes /\ loose' \subseteq Roles
  BY <1>1, <1>3 DEF BuildersTypeOK
<1> QED
  BY <1>1, <1>3, <1>4, <1>5, RolesStored DEF RoleKept

LEMMA WriteRoleStored ==
    ASSUME BuildersTypeOK, MirrorInv, SeenInv, RoleInv, NEW q \in Requests, RoleKept(q), WriteRole(q)
    PROVE  Stored' /\ SeenInv'
<1> DEFINE r == req[q].of
           e == req[q].edit
<1>1. r \in Roles /\ req[q].at = "editwrite" /\ UNCHANGED <<scenario, loose>> /\ e \in EditRows /\ req[q].copy \in RoleRows
  BY DEF WriteRole, At, MirrorInv, BoundInv, Bound, RoleSteps, BuildersTypeOK, Requested
<1>2. CASE role[r] = None
  <2>1. UNCHANGED <<role, mirror, foul>>
    BY <1>2 DEF WriteRole
  <2> QED
    BY <1>1, <2>1, UnwrittenStored DEF RoleKept, BuildersTypeOK
<1>3. CASE role[r] # None
  <2>1. /\ role' = [role EXCEPT ![r].scope = Given(e.scope, req[q].copy.scope),
                                ![r].override = IF e.bind THEN e.override ELSE @]
        /\ mirror' \subseteq mirror \cup ({r} \X e.keys)
        /\ foul' \subseteq foul \cup e.keys \cup {row[2] : row \in KeysOf(r)}
    BY <1>3 DEF WriteRole
  <2>2. PICK row \in RoleRows : row = role[r]
    BY <1>1, <1>3 DEF BuildersTypeOK
  <2>3. PICK scope \in Scopes : scope = Given(e.scope, req[q].copy.scope)
    BY <1>1 DEF Given, EditRows, RoleRows
  <2>4. PICK override \in Overrides : override = IF e.bind THEN e.override ELSE row.override
    BY <1>1, <2>2 DEF MirrorInv, BoundInv, Bound, EditRows, RoleRows
  <2>5. role' = [role EXCEPT ![r] = [row EXCEPT !.scope = scope, !.override = override]]
    <3>1. CASE e.bind
      BY <1>1, <2>1, <2>2, <2>3, <2>4, <3>1 DEF BuildersTypeOK, RoleRows
    <3>2. CASE ~e.bind
      BY <1>1, <2>1, <2>2, <2>3, <2>4, <3>2 DEF BuildersTypeOK, RoleRows
    <3> QED
      BY <3>1, <3>2
  <2>6. [row EXCEPT !.scope = scope, !.override = override] \in RoleRows
    BY DEF RoleRows
  <2>7. role' \in [Roles -> RoleRows \cup {None}] /\ role'[r] # None /\ \A i \in Roles : role[i] # None => role'[i] # None
    BY <1>1, <2>5, <2>6, NoneAssumption DEF BuildersTypeOK
  <2>8. foul' \subseteq Codes /\ loose' \subseteq Roles /\ e.keys \in SUBSET Codes
    BY <1>1, <2>1 DEF BuildersTypeOK, KeysOf, EditRows
  <2> QED
    BY <1>1, <2>1, <2>7, <2>8, RolesStored DEF RoleKept
<1> QED
  BY <1>2, <1>3

LEMMA WriteCloneStored ==
    ASSUME BuildersTypeOK, SeenInv, NEW q \in Requests, RoleKept(q), NEW new \in Roles, WriteClone(q, new)
    PROVE  Stored' /\ SeenInv'
<1>1. PICK copy \in RoleRows : copy = req[q].copy
  BY DEF BuildersTypeOK, Requested
<1>2. PICK keys \in SUBSET Codes : keys = req[q].edit.keys
  BY DEF BuildersTypeOK, Requested, EditRows
<1>3. role' = [role EXCEPT ![new] = copy] /\ UNCHANGED scenario /\ mirror' = mirror \cup ({new} \X keys)
      /\ foul' = foul \cup keys /\ loose' \subseteq loose \cup {new}
  BY <1>1, <1>2 DEF WriteClone
<1>4. role' \in [Roles -> RoleRows \cup {None}] /\ role'[new] # None /\ \A i \in Roles : role[i] # None => role'[i] # None
  BY <1>3, NoneAssumption DEF BuildersTypeOK
<1>5. foul' \subseteq Codes /\ loose' \subseteq Roles
  BY <1>3 DEF BuildersTypeOK
<1> QED
  BY <1>3, <1>4, <1>5, RolesStored DEF RoleKept

\* A role that a transaction is binding to a scenario is not deleted.
LEMMA DeleteHardStored ==
    ASSUME BuildersTypeOK, MirrorInv, SeenInv, NEW q \in Requests, RoleKept(q), DeleteHard(q)
    PROVE  Stored' /\ SeenInv'
<1> DEFINE r == req[q].of
<1>1. /\ req[q].at = "drop role" /\ r \in Roles /\ UNCHANGED <<foul, loose>>
      /\ \A p \in Requests : r \notin Locked(p)
      /\ role' = [role EXCEPT ![r] = None] /\ mirror' = mirror \ KeysOf(r)
      /\ scenario' = [s \in Scenarios |-> [scenario[s] EXCEPT !.seen = @ \ {r}]]
  BY DEF DeleteHard, At, MirrorInv, BoundInv, Bound, RoleSteps
<1>2. role' \in [Roles -> RoleRows \cup {None}] /\ \A i \in Roles \ {r} : role'[i] = role[i]
  BY <1>1 DEF BuildersTypeOK
<1>3. mirror' \subseteq {i \in Roles : role'[i] # None} \X Codes
  <2>1. \A k \in mirror' : k \in {i \in Roles : role[i] # None} \X Codes /\ k \notin {r} \X Codes
    BY <1>1 DEF BuildersTypeOK, KeysOf
  <2> QED
    BY <1>2, <2>1
<1>4. ASSUME NEW s \in Scenarios
      PROVE  /\ scenario'[s] \in [code : Codes \cup {None}, seen : SUBSET Roles]
             /\ \A i \in scenario'[s].seen : role'[i] # None
  <2>1. PICK x \in [code : Codes \cup {None}, seen : SUBSET Roles] : x = scenario[s]
    BY DEF BuildersTypeOK
  <2>2. scenario'[s] = [x EXCEPT !.seen = x.seen \ {r}]
    BY <1>1, <2>1
  <2> QED
    BY <1>2, <2>1, <2>2 DEF SeenInv
<1>5. Stored'
  BY <1>1, <1>2, <1>3, <1>4 DEF Stored, BuildersTypeOK
<1>6. \A p \in Requests : At(p, "commit") => \A i \in req[p].seen : role'[i] # None
  <2>1. \A p \in Requests : At(p, "commit") => r \notin req[p].seen
    BY <1>1 DEF Locked
  <2> QED
    BY <1>2, <2>1 DEF SeenInv, BuildersTypeOK, Requested
<1> QED
  BY <1>4, <1>5, <1>6, SeenKept DEF RoleKept

\* The steps of Role Builder that write no table.
LEMMA RoleWorks ==
    ASSUME BuildersTypeOK, SeenInv, NEW q \in Requests, RoleKept(q),
           \/ ReadGovernance(q) \/ CopyRole(q) \/ CloneGovernance(q)
           \/ \E r \in Roles : DeleteRole(q, r)
           \/ \E r \in Roles, edit \in EditRows : ReadRole(q, r, edit, "govern") \/ ReadRole(q, r, edit, "clonegovern")
    PROVE  Stored' /\ SeenInv'
<1>1. UNCHANGED <<scenario, role, mirror, foul>> /\ loose' \subseteq Roles
  BY DEF ReadGovernance, CopyRole, CloneGovernance, DeleteRole, ReadRole, BuildersTypeOK
<1> QED
  BY <1>1, UnwrittenStored DEF RoleKept, BuildersTypeOK

-----------------------------------------------------------------------------
(* Builders: the invariant, and the properties it gives.                    *)

LEMMA BuildersStart == BuildersInit => BuildersInv
<1> SUFFICES ASSUME BuildersInit PROVE BuildersInv
  OBVIOUS
<1> USE DEF BuildersInit
<1>1. \A q \in Requests : req[q] = NotMade
  OBVIOUS
<1>2. BuildersTypeOK
  <2>1. role \in [Roles -> RoleRows \cup {None}]
    BY NotMadeTyped
  <2>2. mirror \subseteq {r \in Roles : role[r] # None} \X Codes
    <3>1. ASSUME NEW s \in Scenarios, NEW r \in scenario[s].seen
          PROVE  <<r, scenario[s].code>> \in {i \in Roles : role[i] # None} \X Codes
      <4>1. scenario[s].code # None
        BY <3>1
      <4> QED
        BY <3>1, <4>1
    <3> QED
      BY <3>1
  <2>3. req \in [Requests -> Requested]
    BY NotMadeTyped
  <2> QED
    BY <2>1, <2>2, <2>3 DEF BuildersTypeOK
<1>3. BoundInv
  BY <1>1, NotMadeTyped DEF BoundInv, Bound, At, ScenarioSteps, RoleSteps
<1>4. UniqueInv
  BY DEF UniqueInv, Exists
<1>5. CleanInv
  BY <1>1, NotMadeTyped DEF CleanInv, ScenarioSteps
<1>6. KeyInv
  <2>1. ASSUME NEW c \in Codes, NEW r \in Roles PROVE Key(c, r)
    <3>1. \A q \in Requests : ~Disturbs(q, c)
      BY <1>1, NotMadeTyped DEF Disturbs, At
    <3>2. <<r, c>> \in mirror <=> \E s \in Scenarios : scenario[s].code = c /\ r \in scenario[s].seen
      OBVIOUS
    <3> QED
      BY <3>1, <3>2 DEF Key
  <2> QED
    BY <2>1 DEF KeyInv
<1>7. RowsInv
  BY <1>1, NotMadeTyped DEF RowsInv, Rows, At
<1>8. SeenInv
  BY <1>1, NotMadeTyped DEF SeenInv, At
<1>9. RoleInv
  <2>1. NotMade.copy.override = FALSE
    BY DEF NotMade
  <2>2. OverrideIsConfined
    BY <2>1 DEF OverrideIsConfined, Allowed
  <2>3. \A q \in Requests : Confines(q)
    BY <1>1, NotMadeTyped DEF Confines, PatchSteps
  <2> QED
    BY <2>2, <2>3 DEF RoleInv
<1> QED
  BY <1>2, <1>3, <1>4, <1>5, <1>6, <1>7, <1>8, <1>9 DEF BuildersInv, MirrorInv

\* What a step of a request keeps, but for the plan, which never changes.
Maintained == Stored /\ req \in [Requests -> Requested] /\ MirrorInv /\ SeenInv /\ RoleInv

LEMMA ScenarioRoutesKeep ==
    ASSUME BuildersInv, NEW q \in Requests, ScenarioRoutes(q)
    PROVE  Maintained'
<1>1. plan.scenarios \subseteq Scenarios /\ plan.roles \subseteq Roles
  BY PlansAssumption DEF BuildersInv, BuildersTypeOK
<1>2. PICK s \in Scenarios :
        \/ \E c \in Codes : CreateScenario(q, s, c)
        \/ \E new \in Codes \cup {None} : PatchScenario(q, s, new)
        \/ \E seen \in SUBSET Roles : ReplaceRoleBindings(q, s, seen)
        \/ DeleteScenario(q, s)
  BY <1>1 DEF ScenarioRoutes, CreateFromPreset
<1>3. ScenarioKept(q) /\ Stored' /\ SeenInv'
  BY <1>2, ScenarioBegins DEF BuildersInv
<1>4. UNCHANGED <<role, loose>>
  BY <1>2 DEF CreateScenario, PatchScenario, ReplaceRoleBindings, DeleteScenario, ReadCode
<1> QED
  BY <1>3, <1>4, RolesUntouched DEF BuildersInv, ScenarioKept, Maintained

LEMMA RoleRoutesKeep ==
    ASSUME BuildersInv, NEW q \in Requests, RoleRoutes(q)
    PROVE  Maintained'
<1>1. plan.roles \subseteq Roles /\ plan.edits \subseteq Edits
  BY PlansAssumption DEF BuildersInv, BuildersTypeOK
<1>2. NoEdit \in EditRows /\ NoEdit.claims = None
  BY DEF NoEdit, EditRows
<1>3. \A edit \in Edits : edit \in EditRows /\ (edit.bind \/ edit.claims = None)
  <2>1. ASSUME NEW edit \in Edits PROVE edit \in EditRows /\ (edit.bind \/ edit.claims = None)
    <3>1. edit.bind \/ edit = [NoEdit EXCEPT !.scope = edit.scope]
      BY DEF Edits
    <3>2. [NoEdit EXCEPT !.scope = edit.scope].claims = None
      BY DEF NoEdit
    <3> QED
      BY <3>1, <3>2 DEF Edits
  <2> QED
    BY <2>1
<1>4. PICK r \in Roles :
        \/ \E edit \in Edits : CreateRole(q, r, edit) \/ PatchRole(q, r, edit)
        \/ CloneRole(q, r) \/ DeleteRole(q, r)
  BY <1>1 DEF RoleRoutes
<1>5. CASE \E edit \in Edits : CreateRole(q, r, edit)
  BY <1>5, CreateRoleKept, CreateRoleStored DEF BuildersInv, RoleKept, Maintained
<1>6. ASSUME NEW edit \in EditRows, NEW step \in {"govern", "clonegovern"}, ReadRole(q, r, edit, step),
             step = "clonegovern" => edit = NoEdit, edit.bind \/ edit.claims = None
      PROVE  Maintained'
  <2>1. MirrorInv' /\ req' \in [Requests -> Requested] /\ Others(q) /\ RoleInv' /\ req'[q].at \in RoleSteps
    BY <1>6, ReadRoleKept DEF BuildersInv
  <2>2. RoleKept(q)
    BY <2>1 DEF RoleKept, At, RoleSteps
  <2>3. Stored' /\ SeenInv'
    BY <1>6, <2>2, RoleWorks DEF BuildersInv
  <2> QED
    BY <2>1, <2>3 DEF Maintained
<1>7. CASE \E edit \in Edits : PatchRole(q, r, edit)
  BY <1>3, <1>6, <1>7 DEF PatchRole
<1>8. CASE CloneRole(q, r)
  BY <1>2, <1>6, <1>8 DEF CloneRole
<1>9. CASE DeleteRole(q, r)
  BY <1>9, DeleteRoleKept, RoleWorks DEF BuildersInv, RoleKept, Maintained
<1> QED
  BY <1>4, <1>5, <1>7, <1>8, <1>9

LEMMA RequestStepKeeps ==
    ASSUME BuildersInv, NEW q \in Requests, RequestStep(q) \/ Crash(q)
    PROVE  Maintained'
<1> USE DEF BuildersInv
<1>1. CASE \/ RemoveRoleScenarioMirrorForCode(q) \/ WriteScenario(q) \/ ResyncCommit(q)
           \/ ReplaceCommit(q) \/ DropScenario(q)
  <2>1. ScenarioKept(q)
    BY <1>1, UnmirrorKept, WriteScenarioKept, ResyncCommitKept, ReplaceCommitKept, DropScenarioKept
  <2>2. UNCHANGED <<role, loose>>
    BY <1>1 DEF RemoveRoleScenarioMirrorForCode, WriteScenario, ResyncCommit, ReplaceCommit, DropScenario
  <2> QED
    BY <1>1, <2>1, <2>2, ScenarioStored, RolesUntouched DEF ScenarioKept, Maintained
<1>2. CASE RefusePatch(q) \/ CopyScenario(q) \/ ResyncDelete(q) \/ ReplaceDelete(q) \/ ReplaceMirror(q) \/ Crash(q)
  <2>1. ScenarioKept(q)
    BY <1>2, RefusePatchKept, CopyScenarioKept, ResyncDeleteKept, ReplaceDeleteKept, ReplaceMirrorKept, CrashKept
  <2>2. UNCHANGED <<role, loose>>
    BY <1>2 DEF RefusePatch, CopyScenario, ResyncDelete, ReplaceDelete, ReplaceMirror, Crash
  <2> QED
    BY <1>2, <2>1, <2>2, ScenarioWorks, RolesUntouched DEF ScenarioKept, Maintained
<1>3. CASE ReadGovernance(q) \/ CopyRole(q) \/ CloneGovernance(q)
  <2>1. RoleKept(q)
    BY <1>3, ReadGovernanceKept, CopyRoleKept, CloneGovernanceKept
  <2> QED
    BY <1>3, <2>1, RoleWorks DEF RoleKept, Maintained
<1>4. CASE WriteRole(q)
  BY <1>4, WriteRoleKept, WriteRoleStored DEF RoleKept, Maintained
<1>5. CASE DeleteHard(q)
  BY <1>5, DeleteHardKept, DeleteHardStored DEF RoleKept, Maintained
<1>6. CASE \E new \in plan.roles : WriteClone(q, new)
  <2>1. PICK new \in Roles : WriteClone(q, new)
    BY <1>6, PlansAssumption DEF BuildersTypeOK
  <2> QED
    BY <2>1, WriteCloneKept, WriteCloneStored DEF RoleKept, Maintained
<1> QED
  BY <1>1, <1>2, <1>3, <1>4, <1>5, <1>6 DEF RequestStep

LEMMA BuildersStep == BuildersInv /\ [BuildersNext]_bvars => BuildersInv'
<1> SUFFICES ASSUME BuildersInv, [BuildersNext]_bvars PROVE BuildersInv'
  OBVIOUS
<1>1. CASE BuildersNext
  <2>1. PICK q \in Requests : ScenarioRoutes(q) \/ RoleRoutes(q) \/ RequestStep(q) \/ Crash(q)
    BY <1>1 DEF BuildersNext
  <2>2. Maintained'
    BY <2>1, ScenarioRoutesKeep, RoleRoutesKeep, RequestStepKeeps
  <2>3. plan' \in Plans
    BY <1>1 DEF BuildersNext, BuildersInv, BuildersTypeOK
  <2> QED
    BY <2>2, <2>3 DEF Maintained, Stored, BuildersInv, BuildersTypeOK
<1>2. CASE UNCHANGED bvars
  BY <1>2 DEF bvars, BuildersInv, BuildersTypeOK, MirrorInv, BoundInv, Bound, UniqueInv, Exists, CleanInv, Clean,
              Tainted, CodesOf, Renaming, KeyInv, Key, Disturbs, RowsInv, Rows, Keyed, SeenInv, RoleInv,
              OverrideIsConfined, Confines, At
<1> QED
  BY <1>1, <1>2

LEMMA BuildersInvariant == BuildersSpec => []BuildersInv
BY BuildersStart, BuildersStep, PTL DEF BuildersSpec

\* Every builder's request and every table it writes keeps its type: a key belongs to a role
\* that exists, at all times.
THEOREM BuildersTypes == BuildersSpec => []BuildersTypeOK
BY BuildersInvariant, PTL DEF BuildersInv

\* A key that nobody works on names exactly the roles that see the scenario of its code, however
\* many requests rename, delete, rebind and create scenarios meanwhile.
THEOREM MirrorHolds == BuildersSpec => []MirrorIsExact
<1>1. BuildersInv => MirrorIsExact
  <2> SUFFICES ASSUME BuildersInv, NEW c \in Codes \ foul,
                      \A q \in Requests : InProgress(q) => c \notin CodesOf(q)
               PROVE  Keyed(c) = Seeing(c) \X {c}
    BY DEF MirrorIsExact
  <2>1. \A q \in Requests : ~Disturbs(q, c)
    <3>1. ASSUME NEW q \in Requests, Disturbs(q, c) PROVE FALSE
      <4>1. InProgress(q) /\ c \in {req[q].old, req[q].new}
        BY <3>1 DEF Disturbs, InProgress, At, ScenarioSteps
      <4> QED
        BY <4>1, NoneAssumption DEF CodesOf
    <3> QED
      BY <3>1
  <2>2. \A r \in Roles : <<r, c>> \in mirror <=> r \in Seeing(c)
    <3>1. \A r \in Roles : Key(c, r)
      BY DEF BuildersInv, MirrorInv, KeyInv
    <3> QED
      BY <2>1, <3>1 DEF Key, Seeing
  <2>3. Seeing(c) \subseteq Roles
    BY DEF Seeing, BuildersInv, BuildersTypeOK
  <2> QED
    BY <2>2, <2>3 DEF Keyed
<1> QED
  BY <1>1, BuildersInvariant, PTL

\* A role that may override policies has scope "global", unless requests for it overlapped or a
\* patch was checked against a scope that it does not store.
THEOREM OverridesHold == BuildersSpec => []OverrideIsConfined
BY BuildersInvariant, PTL DEF BuildersInv, RoleInv
=============================================================================
