----------------------------- MODULE Onboarding -----------------------------
(***************************************************************************)
(* One onboarding session: PATCH and select-template fill in its template, *)
(* its selected presets and its assignment draft, and launch makes a role, *)
(* scenario or job of every selected preset.  No request is a transaction; *)
(* only the replacement of the selections is one, READ COMMITTED: its      *)
(* DELETE takes the rows committed when it starts, and a row put in        *)
(* meanwhile stays.                                                        *)
(*                                                                         *)
(* A statement may fail, and a request may stop at any step: the launch    *)
(* does when its second read of the session fails, for it uses the view    *)
(* without asking for the error.  The statuses ready and abandoned are     *)
(* never written.  Profile, steps, connectors and feed drafts, which no    *)
(* launch reads, are left out; so are slots, but for the failure of a      *)
(* replacement that meets a taken one.                                     *)
(***************************************************************************)
EXTENDS Naturals, FiniteSets

CONSTANTS
    Presets,    \* active entries of the preset catalog
    Jobs,       \* those of type job: a role or a scenario is one transaction, a job is not
    Templates,  \* presets of every template, by its code
    Editors,    \* PATCH and select-template requests, each connection one at a time
    Launches,   \* launch requests
    Patches,    \* bound: the bodies of PATCH requests: the presets and the users they give
    MaxEdits    \* bound: edits of the session beside or after the first launch

ASSUME JobsAssumption == Jobs \subseteq Presets
ASSUME TemplatesAssumption == \A t \in DOMAIN Templates : Templates[t] \subseteq Presets
ASSUME EditsAssumption == MaxEdits \in Nat
ASSUME PatchesAssumption ==
    Patches \subseteq [gives : SUBSET {"presets", "assignment"}, presets : SUBSET Presets,
                       users : SUBSET {"admin", "owner"}]

VARIABLES
    templated,  \* whether onboarding_sessions has a template_code
    status,     \* onboarding_sessions.status
    selected,   \* onboarding_selected_presets
    assignment, \* onboarding_assignment_drafts: the users it names
    editor,     \* editor[e]: an edit in progress
    launch,     \* launch[l]: a launch, with the objects it has made
    log,        \* log[l]: its row of onboarding_launch_logs
    edits,      \* edits so far
    earlier     \* history: pairs of launches, the first over when the second began

vars == <<templated, status, selected, assignment, editor, launch, log, edits, earlier>>
session == <<templated, status, selected, assignment>>

Users == {"admin", "owner"}     \* initial_admin_user_id, domain_owner_user_id
\* What is left of an edit: the presets it gives and has taken, the users it gives and has read,
\* and whether the draft was written since, or could not be read.
Editing == [at : {"idle", "template", "take", "put", "read", "write"}, gives : SUBSET {"presets", "assignment"},
            presets : SUBSET Presets, taken : SUBSET Presets, users : SUBSET Users,
            read : SUBSET Users, stale : BOOLEAN]
NotEditing == [at |-> "idle", gives |-> {}, presets |-> {}, taken |-> {}, users |-> {},
               read |-> {}, stale |-> FALSE]
Over == {"refused", "failed", "stopped", "unmarked", "launched"}
\* Of a launch: what the preview saw, what it has still to make, has made and has half made,
\* and whether the selections were replaced since the preview read them.
Launching == [at : {"idle", "row", "presets", "assignment", "log", "load", "make", "fail",
                    "finish", "mark"} \cup Over,
              issue : BOOLEAN, shown : SUBSET Presets, loaded : SUBSET Presets,
              made : SUBSET Presets, half : SUBSET Jobs, edited : BOOLEAN]
NotLaunching == [at |-> "idle", issue |-> FALSE, shown |-> {}, loaded |-> {}, made |-> {},
                 half |-> {}, edited |-> FALSE]
LogRows == [status : {"none", "running", "succeeded", "failed"}, created : SUBSET Presets]

TypeOK ==
    /\ templated \in BOOLEAN
    /\ status \in {"draft", "launched"}
    /\ selected \subseteq Presets
    /\ assignment \subseteq Users
    /\ editor \in [Editors -> Editing]
    /\ launch \in [Launches -> Launching]
    /\ \A l \in Launches : launch[l].made \subseteq launch[l].loaded
    /\ log \in [Launches -> LogRows]
    /\ edits \in 0..MaxEdits
    /\ earlier \subseteq Launches \X Launches

\* A draft as edits made before the first launch left it.
Init ==
    /\ templated \in BOOLEAN
    /\ status = "draft"
    /\ selected \in SUBSET Presets
    /\ assignment \in SUBSET Users
    /\ editor = [e \in Editors |-> NotEditing]
    /\ launch = [l \in Launches |-> NotLaunching]
    /\ log = [l \in Launches |-> [status |-> "none", created |-> {}]]
    /\ edits = 0
    /\ earlier = {}

-----------------------------------------------------------------------------
(* Edits.                                                                   *)

UNTOUCHED == UNCHANGED <<launch, log, earlier>>

StartEdit(e, edit) ==
    /\ editor[e].at = "idle" /\ edits < MaxEdits
    /\ editor' = [editor EXCEPT ![e] = edit]
    /\ edits' = edits + 1
    /\ UNCHANGED session /\ UNTOUCHED

\* PATCH: the selections when it gives any, then the assignment when it gives one.
PatchSession(e) ==
    \E p \in Patches :
        /\ p.gives # {}
        /\ StartEdit(e, [NotEditing EXCEPT !.at = IF "presets" \in p.gives THEN "take" ELSE "read",
                                           !.gives = p.gives, !.presets = p.presets, !.users = p.users])

\* The presets of the template are looked up; unknown codes are passed over.
SelectTemplate(e) ==
    \E t \in DOMAIN Templates :
        StartEdit(e, [NotEditing EXCEPT !.at = "template", !.presets = Templates[t]])

SetTemplateCode(e) ==
    /\ editor[e].at = "template"
    /\ templated' = TRUE
    /\ editor' = [editor EXCEPT ![e] = IF @.presets = {} THEN NotEditing ELSE [@ EXCEPT !.at = "take"]]
    /\ UNCHANGED <<status, selected, assignment, edits>> /\ UNTOUCHED

\* ReplaceSelectedPresets: the DELETE ...
TakeSelections(e) ==
    /\ editor[e].at = "take"
    /\ editor' = [editor EXCEPT ![e].at = "put", ![e].taken = selected]
    /\ UNCHANGED <<session, edits>> /\ UNTOUCHED

\* ... and the INSERTs with the COMMIT.  A preset selected twice breaks the unique index.
NextPart(edit) ==
    IF "assignment" \in edit.gives THEN [edit EXCEPT !.at = "read", !.taken = {}, !.presets = {}]
    ELSE NotEditing

PutSelections(e) ==
    /\ editor[e].at = "put"
    /\ (selected \ editor[e].taken) \cap editor[e].presets = {}
    /\ selected' = (selected \ editor[e].taken) \cup editor[e].presets
    /\ editor' = [f \in Editors |-> IF f = e THEN NextPart(editor[e])
                                    ELSE [editor[f] EXCEPT !.taken = @ \ editor[e].taken]]
    /\ launch' = [l \in Launches |->
                     [launch[l] EXCEPT !.edited = @ \/ launch[l].at \in {"assignment", "log", "load"}]]
    /\ UNCHANGED <<templated, status, assignment, edits, log, earlier>>

\* The draft is read.  The error of a failed read is dropped: it counts as no draft.
\* Mutant: the users the PATCH does not name are not kept.
ReadNothing(e) ==
    /\ editor[e].at = "read"
    /\ editor' = [editor EXCEPT ![e].at = "write", ![e].read = {}]
    /\ UNCHANGED <<session, edits>> /\ UNTOUCHED

ReadAssignment(e) ==
    /\ editor[e].at = "read"
    /\ \/ editor' = [editor EXCEPT ![e].at = "write", ![e].read = assignment]
       \/ editor' = [editor EXCEPT ![e].at = "write", ![e].stale = TRUE]
    /\ UNCHANGED <<session, edits>> /\ UNTOUCHED

\* mergeAssignment and the upsert of the whole row.
ReplaceAssignment(e) ==
    /\ editor[e].at = "write"
    /\ assignment' = editor[e].read \cup editor[e].users
    /\ editor' = [f \in Editors |-> IF f = e THEN NotEditing
                                    ELSE [editor[f] EXCEPT !.stale = @ \/ editor[f].at = "write"]]
    /\ UNCHANGED <<templated, status, selected, edits>> /\ UNTOUCHED

\* A statement fails, or the request stops: what it has committed stays.
EditFails(e) ==
    /\ editor[e].at # "idle"
    /\ editor' = [editor EXCEPT ![e] = NotEditing]
    /\ UNCHANGED <<session, edits>> /\ UNTOUCHED

-----------------------------------------------------------------------------
(* Launches.                                                                *)

Step(l, from, record) == launch[l].at = from /\ launch' = [launch EXCEPT ![l] = record]
Stay == UNCHANGED <<session, editor, edits>>
Refused == [NotLaunching EXCEPT !.at = "refused"]
Left(l, at) == [launch[l] EXCEPT !.at = at, !.shown = {}, !.edited = FALSE]

\* Mutant: the status is not asked for.
LaunchAlways(l) ==
    /\ Step(l, "idle", [NotLaunching EXCEPT !.at = "row"])
    /\ earlier' = earlier \cup {k \in Launches : launch[k].at \in Over} \X {l}
    /\ Stay /\ UNCHANGED log

Launch(l) ==
    /\ Step(l, "idle", IF status = "launched" THEN Refused ELSE [NotLaunching EXCEPT !.at = "row"])
    /\ earlier' = earlier \cup {k \in Launches : launch[k].at \in Over} \X {l}
    /\ Stay /\ UNCHANGED log

\* PreviewLaunch: LoadSessionView reads the row, the selections and the draft one by one.
PreviewRow(l) ==
    /\ Step(l, "row", [launch[l] EXCEPT !.at = "presets", !.issue = ~templated])
    /\ Stay /\ UNCHANGED <<log, earlier>>

PreviewPresets(l) ==
    /\ Step(l, "presets", [launch[l] EXCEPT !.at = "assignment", !.shown = selected,
                                            !.issue = @ \/ selected = {}])
    /\ Stay /\ UNCHANGED <<log, earlier>>

\* Mutant: a session without a preset, or without an administrator, is not refused.
PreviewNoIssues(l) ==
    /\ Step(l, "assignment", [launch[l] EXCEPT !.at = "log"])
    /\ Stay /\ UNCHANGED <<log, earlier>>

PreviewAssignment(l) ==
    /\ Step(l, "assignment", IF launch[l].issue \/ "admin" \notin assignment THEN Refused
                             ELSE [launch[l] EXCEPT !.at = "log"])
    /\ Stay /\ UNCHANGED <<log, earlier>>

InsertLaunchLog(l) ==
    /\ Step(l, "log", [launch[l] EXCEPT !.at = "load"])
    /\ log' = [log EXCEPT ![l].status = "running"]
    /\ Stay /\ UNCHANGED earlier

\* The session is read again, for the presets to make.
LoadSessionView(l) ==
    /\ Step(l, "load", [launch[l] EXCEPT !.at = "make", !.loaded = selected])
    /\ Stay /\ UNCHANGED <<log, earlier>>

\* A new object for a preset, with a code or name of its own.
Instantiate(l) ==
    /\ \E p \in launch[l].loaded \ launch[l].made :
           Step(l, "make", [launch[l] EXCEPT !.made = @ \cup {p}])
    /\ Stay /\ UNCHANGED <<log, earlier>>

\* A job's row may be in before its sources, or the read of the new job, fail.
InstantiateFails(l) ==
    /\ \E p \in launch[l].loaded \ launch[l].made :
           \E half \in {{}, {p} \cap Jobs} : Step(l, "make", [Left(l, "fail") EXCEPT !.half = half])
    /\ Stay /\ UNCHANGED <<log, earlier>>

\* FinishLaunchLog; when it fails the row stays at running, and nobody is told.
Outcome(l, outcome) ==
    \/ log' = [log EXCEPT ![l] = [status |-> outcome, created |-> launch[l].made]]
    \/ UNCHANGED log

LaunchFails(l) ==
    /\ Step(l, "fail", [launch[l] EXCEPT !.at = "failed"])
    /\ Outcome(l, "failed")
    /\ Stay /\ UNCHANGED earlier

\* Mutant: the log is finished before the last preset is made.
FinishEarly(l) ==
    /\ Cardinality(launch[l].loaded \ launch[l].made) <= 1
    /\ Step(l, "make", [launch[l] EXCEPT !.at = "mark"])
    /\ Outcome(l, "succeeded")
    /\ Stay /\ UNCHANGED earlier

FinishLaunchLog(l) ==
    /\ launch[l].made = launch[l].loaded
    /\ Step(l, "make", [launch[l] EXCEPT !.at = "mark"])
    /\ Outcome(l, "succeeded")
    /\ Stay /\ UNCHANGED earlier

\* The caller reads "launched" even when the session could not be marked.
MarkSessionLaunched(l) ==
    /\ \/ Step(l, "mark", [launch[l] EXCEPT !.at = "launched"]) /\ status' = "launched"
       \/ Step(l, "mark", Left(l, "unmarked")) /\ UNCHANGED status
    /\ UNCHANGED <<templated, selected, assignment, editor, edits, log, earlier>>

\* A read or the insert of the log row fails.
LaunchRefused(l) ==
    /\ launch[l].at \in {"row", "presets", "assignment", "log"}
    /\ launch' = [launch EXCEPT ![l] = Refused]
    /\ Stay /\ UNCHANGED <<log, earlier>>

\* The second read failed, or the process stops.
LaunchStops(l) ==
    /\ launch[l].at \in {"load", "make", "fail", "mark"}
    /\ launch' = [launch EXCEPT ![l] = Left(l, "stopped")]
    /\ Stay /\ UNCHANGED <<log, earlier>>

-----------------------------------------------------------------------------
EditSession(e) ==
    \/ PatchSession(e) \/ SelectTemplate(e) \/ SetTemplateCode(e)
    \/ TakeSelections(e) \/ PutSelections(e)
    \/ ReadAssignment(e) \/ ReplaceAssignment(e) \/ EditFails(e)

LaunchSession(l) ==
    \/ Launch(l) \/ PreviewRow(l) \/ PreviewPresets(l) \/ PreviewAssignment(l)
    \/ InsertLaunchLog(l) \/ LoadSessionView(l) \/ Instantiate(l) \/ InstantiateFails(l)
    \/ LaunchFails(l) \/ FinishLaunchLog(l) \/ MarkSessionLaunched(l)
    \/ LaunchRefused(l) \/ LaunchStops(l)

Next ==
    \/ \E e \in Editors : EditSession(e)
    \/ \E l \in Launches : LaunchSession(l)

Spec == Init /\ [][Next]_vars

-----------------------------------------------------------------------------
(* Properties.                                                              *)

\* The launch log tells the truth when it tells an outcome: a row says succeeded only when every
\* preset that was loaded has its object, failed only when one has not; nothing is made without
\* a row, and a row never lists what was not made.  (Launch, FinishLaunchLog.)
LogTellsTheTruth ==
    \A l \in Launches :
        /\ launch[l].made \cup launch[l].half # {} => log[l].status # "none"
        /\ log[l].status = "succeeded" => log[l].created = launch[l].loaded /\ launch[l].half = {}
        /\ log[l].status = "failed" => log[l].created = launch[l].made /\ launch[l].made # launch[l].loaded
        /\ log[l].created \subseteq launch[l].made

\* A session is launched only after some launch that made exactly what its preview had accepted,
\* unless the selections were replaced between the preview and the second read.
\* (PreviewLaunch and LoadSessionView in Launch.)
LaunchedAsPreviewed ==
    status = "launched" =>
        \E l \in Launches :
            /\ launch[l].at = "launched"
            /\ launch[l].made = launch[l].loaded
            /\ launch[l].edited \/ (launch[l].made = launch[l].shown /\ launch[l].shown # {})

\* Two launches make objects of one session only when they ran at the same time, or the first
\* left the session unmarked: it failed on the way, stopped, or lost its mark.
\* (The check of the status in Launch, the dropped error of MarkSessionLaunched.)
RepeatsHaveACause ==
    \A l, k \in Launches :
        <<l, k>> \in earlier /\ launch[l].made # {} /\ launch[k].made # {}
            => launch[l].at \in {"failed", "stopped", "unmarked"}

\* A user named in the assignment draft is lost only to an edit that could not read the draft,
\* or read it before another edit wrote it.  (loadAssignment and mergeAssignment in PatchSession.)
AssignmentIsKept ==
    [][\A u \in assignment \ assignment' :
           \E e \in Editors : editor[e].at = "write" /\ editor'[e].at = "idle" /\ editor[e].stale]_vars
=============================================================================
