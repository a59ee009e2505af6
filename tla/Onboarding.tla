----------------------------- MODULE Onboarding -----------------------------
(* drag setup: the wizard (setup_tui.rs over SetupState), the unattended     *)
(* setup from the environment beside it, the configuration file both save    *)
(* into, and the activity capture both may install afterwards.               *)
(*                                                                           *)
(* "ui" is the wizard of one terminal, "env" an unattended setup; each may    *)
(* be started again and again.  Jira and Tempo answer as they please.  Focus, *)
(* animations, drawing, resizing and messages are left out: the user can     *)
(* always move the focus, so every field and button of a screen is in reach. *)
EXTENDS SetupState, Naturals

CONSTANTS
    Empty,         \* a file that was created or truncated and not yet written
    Torn           \* a file that is neither of the texts written into it

Writers == {"ui", "env"}
Contents == Credentials \cup {None, Empty, Torn}

ASSUME ContentsAssumption ==
    /\ {None, Empty, Torn} \cap Credentials = {}
    /\ {None, Empty, Torn} \cap Drafts = {}
    /\ None # Empty /\ None # Torn /\ Empty # Torn

Statuses == {"NotConnected", "Pending", "Connected"}
Labels == {"idle", "wizard", "jira", "tempo", "load", "open", "write", "rename", "offer",
           "mkdir", "hook"}
SaveLabels == {"load", "open", "write", "rename"}

VARIABLES
    file,          \* the configuration file
    tmp,           \* the file beside it, under the one name every save uses
    handle,        \* what the file a save opened is by now: tmp, the file, or unlinked
    overlapped,    \* history: two saves have been between open and rename at once
    hooks,         \* Claude Code runs drag's capture command
    stateDir,      \* the directory the captures go to
    pc,
    attempt,       \* the credentials being verified, then those being saved
    vouched,       \* history: what Jira accepted last, and Tempo since then
    wf,            \* the wizard's OnboardingState
    ui,            \* the wizard's OnboardingModel
    opened,        \* history: how often this wizard opened each token page
    broken         \* history: a workflow operation answered InvalidState

storeVars == <<file, tmp, handle, overlapped>>
captureVars == <<hooks, stateDir>>
wizardVars == <<wf, ui, opened, broken>>
vars == <<file, tmp, handle, overlapped, hooks, stateDir, pc, attempt, vouched, wf, ui,
          opened, broken>>

JiraGrants == [details : Details, jira : JiraTokens, account : Accounts]
TempoGrants == [tempo : TempoTokens, account : Accounts]
NoGrants == [jira |-> None, tempo |-> None]

\* OnboardingModel: shown is its stage, the texts typed, and what it believes.
Models ==
    [shown : Screens, details : Details \cup {None},
     jira : JiraTokens \cup {None, Spaces}, tempo : TempoTokens \cup {None, Spaces},
     jiraStatus : Statuses, tempoStatus : Statuses,
     retainJira : BOOLEAN, retainTempo : BOOLEAN,
     jiraLoaded : BOOLEAN, tempoLoaded : BOOLEAN]

NewModel(w) ==
    [shown |-> "JiraDetails", details |-> w.details, jira |-> None, tempo |-> None,
     jiraStatus |-> "NotConnected", tempoStatus |-> "NotConnected",
     retainJira |-> w.jiraToken # None, retainTempo |-> w.tempoToken # None,
     jiraLoaded |-> FALSE, tempoLoaded |-> FALSE]

NoWorkflow == NewWorkflow(None, None, None)

Init ==
    /\ file \in Credentials \cup {None}
    /\ tmp = None
    /\ handle = [p \in Writers |-> "none"]
    /\ overlapped = FALSE
    /\ hooks = FALSE
    /\ stateDir = FALSE
    /\ pc = [p \in Writers |-> "idle"]
    /\ attempt = [p \in Writers |-> None]
    /\ vouched = [p \in Writers |-> NoGrants]
    /\ wf = NoWorkflow
    /\ ui = NewModel(NoWorkflow)
    /\ opened = [jira |-> 0, tempo |-> 0]
    /\ broken = FALSE

-----------------------------------------------------------------------------
(* The wizard. *)

Goto(p, label) == pc' = [pc EXCEPT ![p] = label]

\* A wizard that is over leaves nothing; neither does an unattended setup.
WizardOver ==
    /\ wf' = NoWorkflow
    /\ ui' = NewModel(NoWorkflow)
    /\ opened' = [jira |-> 0, tempo |-> 0]

\* The command ends, with a result or an error.
Over(p) ==
    /\ Goto(p, "idle")
    /\ attempt' = [attempt EXCEPT ![p] = None]
    /\ vouched' = [vouched EXCEPT ![p] = NoGrants]
    /\ handle' = [handle EXCEPT ![p] = "none"]
    /\ IF p = "ui" THEN WizardOver ELSE UNCHANGED <<wf, ui, opened>>
    /\ UNCHANGED broken

\* A file that does not parse is an error before anything is asked.
StartWizard ==
    /\ pc["ui"] = "idle"
    /\ file \in Credentials \cup {None}
    /\ wf' = IF file = None THEN NoWorkflow
             ELSE NewWorkflow(file.details, file.jira, file.tempo)
    /\ ui' = NewModel(wf')
    /\ Goto("ui", "wizard")
    /\ UNCHANGED <<storeVars, captureVars, attempt, vouched, opened, broken>>

\* Deviation: the page is asked for whenever its screen is shown.
JiraPageEachTime(w, u) == w.screen = "JiraToken" /\ u.shown # "JiraToken"

\* transition_to_workflow_screen and enter_stage: a token page is asked for once
\* per load, and the browser opens it once per wizard.
JiraPage(w, u) == w.screen = "JiraToken" /\ ~u.jiraLoaded
TempoPage(w, u) == w.screen = "Tempo" /\ ~u.tempoLoaded
PageRefused(w, u) ==
    \/ JiraPage(w, u) /\ ~MayPresentJiraPage(w)
    \/ TempoPage(w, u) /\ ~MayPresentTempoPage(w)

OpensJira(w, u) == JiraPage(w, u) /\ ~w.jiraPresented
OpensTempo(w, u) == TempoPage(w, u) /\ ~w.tempoPresented

\* The workflow moved to w, if it may; the model follows it.  An operation that
\* may not happen ends the wizard: that is only marked.
Follow(may, w, u) ==
    /\ wf' = [w EXCEPT !.jiraPresented = @ \/ JiraPage(w, u),
                       !.tempoPresented = @ \/ TempoPage(w, u)]
    /\ ui' = [u EXCEPT !.shown = w.screen, !.jiraLoaded = @ \/ JiraPage(w, u),
                       !.tempoLoaded = @ \/ TempoPage(w, u)]
    /\ opened' = [jira |-> IF OpensJira(w, u) THEN opened.jira + 1 ELSE opened.jira,
                  tempo |-> IF OpensTempo(w, u) THEN opened.tempo + 1 ELSE opened.tempo]
    /\ broken' = (broken \/ ~may \/ PageRefused(w, u))

Asking == pc["ui"] = "wizard"
Navigate(may, w, u) ==
    Follow(may, w, u) /\ UNCHANGED <<storeVars, captureVars, pc, attempt, vouched>>

\* input_changed: what was typed is no longer what was verified.
Edited(u) ==
    [u EXCEPT !.jiraStatus = IF u.shown = "Tempo" THEN @ ELSE "NotConnected",
              !.tempoStatus = "NotConnected"]

Type(u) ==
    /\ ui' = Edited(u)
    /\ UNCHANGED <<storeVars, captureVars, pc, attempt, vouched, wf, opened, broken>>

TypeDetails ==
    /\ Asking /\ ui.shown = "JiraDetails"
    /\ \E d \in (Details \cup {None}) \ {ui.details} : Type([ui EXCEPT !.details = d])

TypeJiraToken ==
    /\ Asking /\ ui.shown = "JiraToken"
    /\ \E t \in (JiraTokens \cup {None, Spaces}) \ {ui.jira} : Type([ui EXCEPT !.jira = t])

TypeTempoToken ==
    /\ Asking /\ ui.shown = "Tempo"
    /\ \E t \in (TempoTokens \cup {None, Spaces}) \ {ui.tempo} : Type([ui EXCEPT !.tempo = t])

\* Details that are missing or do not normalize keep the screen.
PressContinue ==
    /\ Asking /\ ui.shown = "JiraDetails" /\ ui.details # None
    /\ Navigate(MayContinueFromJiraDetails(wf), At(wf, "JiraToken"), ui)

\* Esc clears the token of the screen it leaves.
PressBack ==
    /\ Asking /\ ui.shown # "JiraDetails"
    /\ Navigate(TRUE, Back(wf),
                [ui EXCEPT !.jira = IF ui.shown = "JiraToken" THEN None ELSE @,
                           !.tempo = IF ui.shown = "Tempo" THEN None ELSE @])

PressEditJira ==
    /\ Asking /\ ui.shown = "Save"
    /\ Navigate(TRUE, At(wf, "JiraDetails"), ui)

PressEditTempo ==
    /\ Asking /\ ui.shown = "Save"
    /\ Navigate(MayEditTempo(wf), At(wf, "Tempo"), ui)

\* Esc on the first screen, Ctrl-C on any, also while a service is asked; so
\* ends the wizard, too, when its terminal fails or it is killed.
Cancel ==
    /\ pc["ui"] \in {"wizard", "jira", "tempo"}
    /\ Over("ui")
    /\ UNCHANGED <<file, tmp, overlapped, captureVars>>

-----------------------------------------------------------------------------
(* Connecting. *)

\* A token that is blank is asked for again, unless one can be retained.
Usable(input, retain) == input \notin {None, Spaces} \/ retain

JiraRejected(u) == [u EXCEPT !.jiraStatus = "NotConnected", !.jira = None]
TempoRejected(u) == [u EXCEPT !.tempoStatus = "NotConnected", !.tempo = None]

PassConnectedJira ==
    /\ Asking /\ ui.shown = "JiraToken" /\ ui.jiraStatus = "Connected"
    /\ Navigate(MayContinueWithVerifiedJira(wf), At(wf, "Tempo"), ui)

PassConnectedTempo ==
    /\ Asking /\ ui.shown = "Tempo" /\ ui.tempoStatus = "Connected"
    /\ Navigate(MayContinueWithVerifiedTempo(wf), At(wf, "Save"), ui)

\* The old verification is dropped before Jira is asked; a token that turns out
\* to be missing is shown like a rejection.
ConnectJira ==
    /\ Asking /\ ui.shown = "JiraToken" /\ ui.jiraStatus # "Connected"
    /\ Usable(ui.jira, ui.retainJira)
    /\ LET w == InvalidateJira(wf)
           token == Resolved(ui.jira, w.jiraToken)
           asked == [ui EXCEPT !.jiraStatus = "Pending", !.tempoStatus = "NotConnected"]
       IN  /\ wf' = PrepareJira(w, ui.details)
           /\ broken' = (broken \/ ~MayPrepareJira(w))
           /\ IF token = None
              THEN ui' = JiraRejected(asked) /\ UNCHANGED <<pc, attempt>>
              ELSE /\ ui' = asked
                   /\ attempt' = [attempt EXCEPT !["ui"] = JiraDraft(ui.details, token)]
                   /\ Goto("ui", "jira")
    /\ UNCHANGED <<storeVars, captureVars, vouched, opened>>

ConnectTempo ==
    /\ Asking /\ ui.shown = "Tempo" /\ ui.tempoStatus # "Connected"
    /\ Usable(ui.tempo, ui.retainTempo)
    /\ LET w == InvalidateTempo(wf)
           token == Resolved(ui.tempo, w.tempoToken)
           asked == [ui EXCEPT !.tempoStatus = "Pending"]
       IN  /\ broken' = (broken \/ ~MayInvalidateTempo(wf) \/ ~MayPrepareTempo(w))
           /\ IF token = None
              THEN wf' = w /\ ui' = TempoRejected(asked) /\ UNCHANGED <<pc, attempt>>
              ELSE /\ wf' = PrepareTempo(w, token)
                   /\ ui' = asked
                   /\ attempt' = [attempt EXCEPT !["ui"] = Finished(wf')]
                   /\ Goto("ui", "tempo")
    /\ UNCHANGED <<storeVars, captureVars, vouched, opened>>

\* While Tempo is asked Esc drops the answer and goes back.
AbandonTempo ==
    /\ pc["ui"] = "tempo"
    /\ Follow(TRUE, Back(wf), TempoRejected(ui))
    /\ attempt' = [attempt EXCEPT !["ui"] = None]
    /\ Goto("ui", "wizard")
    /\ UNCHANGED <<storeVars, captureVars, vouched>>

-----------------------------------------------------------------------------
(* The services, asked by the wizard or by an unattended setup. *)

JiraGrant(c, a) == [details |-> c.details, jira |-> c.jira, account |-> a]
TempoGrant(c) == [tempo |-> c.tempo, account |-> c.account]

JiraAccepts(p) ==
    /\ pc[p] = "jira"
    /\ \E a \in Accounts :
        /\ vouched' = [vouched EXCEPT ![p] = [jira |-> JiraGrant(attempt[p], a),
                                              tempo |-> None]]
        /\ IF p = "ui"
           THEN LET w == AcceptJira(wf, attempt[p], a)
                IN  /\ Follow(MayPrepareJira(wf), w,
                              [ui EXCEPT !.jiraStatus = "Connected", !.jira = None,
                                         !.retainJira = TRUE, !.details = w.details,
                                         !.tempoLoaded = FALSE])
                    /\ attempt' = [attempt EXCEPT ![p] = None]
                    /\ Goto(p, "wizard")
           ELSE /\ attempt' = [attempt EXCEPT ![p].account = a]
                /\ Goto(p, "tempo")
                /\ UNCHANGED wizardVars
    /\ UNCHANGED <<storeVars, captureVars>>

TempoAccepts(p) ==
    /\ pc[p] = "tempo"
    /\ vouched' = [vouched EXCEPT ![p].tempo = TempoGrant(attempt[p])]
    /\ IF p = "ui"
       THEN /\ Follow(MayAcceptTempo(wf), AcceptTempo(wf),
                      [ui EXCEPT !.tempoStatus = "Connected", !.tempo = None,
                                 !.retainTempo = TRUE])
            /\ attempt' = [attempt EXCEPT ![p] = None]
            /\ Goto(p, "wizard")
       ELSE Goto(p, "load") /\ UNCHANGED <<attempt, wizardVars>>
    /\ UNCHANGED <<storeVars, captureVars>>

\* A rejected login lets the wizard ask again.
Rejects ==
    /\ pc["ui"] \in {"jira", "tempo"}
    /\ ui' = IF pc["ui"] = "jira" THEN JiraRejected(ui) ELSE TempoRejected(ui)
    /\ attempt' = [attempt EXCEPT !["ui"] = None]
    /\ Goto("ui", "wizard")
    /\ UNCHANGED <<storeVars, captureVars, vouched, wf, opened, broken>>

\* Every other failure ends the command, and so does every one of an unattended
\* setup; a dry run ends here, too, once Tempo has accepted.
ServiceFails(p) ==
    /\ pc[p] \in {"jira", "tempo"}
    /\ Over(p)
    /\ UNCHANGED <<file, tmp, overlapped, captureVars>>

DryRunEnds ==
    /\ pc["env"] = "tempo"
    /\ Over("env")
    /\ UNCHANGED <<file, tmp, overlapped, captureVars>>

StartUnattended ==
    /\ pc["env"] = "idle"
    /\ file \in Credentials \cup {None}
    /\ \E c \in Drafts :
        /\ c.account = None /\ c.tempo # None
        /\ attempt' = [attempt EXCEPT !["env"] = c]
    /\ Goto("env", "jira")
    /\ UNCHANGED <<storeVars, captureVars, vouched, wizardVars>>

-----------------------------------------------------------------------------
(* save_setup_credentials and Config::save. *)

PressSave ==
    /\ Asking /\ ui.shown = "Save"
    /\ broken' = (broken \/ ~MayFinish(wf))
    /\ attempt' = [attempt EXCEPT !["ui"] = Finished(wf)]
    /\ Goto("ui", "load")
    /\ UNCHANGED <<storeVars, captureVars, vouched, wf, ui, opened>>

\* The file is read once more, only to fail if it does not parse: every field of
\* it is replaced.
LoadAgain(p) ==
    /\ pc[p] = "load"
    /\ file \in Credentials \cup {None}
    /\ Goto(p, "open")
    /\ UNCHANGED <<storeVars, captureVars, attempt, vouched, wizardVars>>

\* create, truncate: whatever is under that name, another save's file included.
OpenTmp(p) ==
    /\ pc[p] = "open"
    /\ tmp' = Empty
    /\ handle' = [handle EXCEPT ![p] = "tmp"]
    /\ overlapped' = (overlapped \/ \E q \in Writers : pc[q] \in {"write", "rename"})
    /\ Goto(p, "write")
    /\ UNCHANGED <<file, captureVars, attempt, vouched, wizardVars>>

\* A text written over another from the start may leave the end of the other.
WrittenOver(old, c) == IF old \in {Empty, c} THEN {c} ELSE {c, Torn}

\* Deviation: the configuration is written in place.
WriteInPlace(p, text) == file' \in text[file] /\ tmp' = tmp

\* The write goes to the file that was opened, wherever it is by now.
WriteTo(p, text) ==
    /\ tmp' \in IF handle[p] = "tmp" THEN text[tmp] ELSE {tmp}
    /\ file' \in IF handle[p] = "live" THEN text[file] ELSE {file}

WriteTmp(p) ==
    /\ pc[p] = "write"
    /\ WriteTo(p, [old \in Contents |-> WrittenOver(old, attempt[p])])
    /\ Goto(p, "rename")
    /\ UNCHANGED <<handle, overlapped, captureVars, attempt, vouched, wizardVars>>

\* The name is renamed, not the file that was opened.
Renamed(q) == CASE handle[q] = "tmp" -> "live"
                [] handle[q] = "live" -> "unlinked"
                [] OTHER -> handle[q]
Rename(p) ==
    /\ pc[p] = "rename"
    /\ tmp # None
    /\ file' = tmp
    /\ tmp' = None
    /\ handle' = [q \in Writers |-> IF q = p THEN "none" ELSE Renamed(q)]
    /\ Goto(p, "offer")
    /\ UNCHANGED <<overlapped, captureVars, attempt, vouched, wizardVars>>

\* Any step of a save may fail, and the process may be killed at any: what was
\* opened stays behind, perhaps half written.  A file that no other save holds
\* is as good as none: only OpenTmp can reach it, and empties it.
HeldByOther(p) == \E q \in Writers \ {p} : pc[q] \in {"write", "rename"}
SaveEnds(p) ==
    /\ pc[p] \in SaveLabels
    /\ file' \in IF pc[p] = "write" /\ handle[p] = "live" THEN {file, Torn} ELSE {file}
    /\ tmp' \in CASE ~HeldByOther(p) -> {None}
                  [] HeldByOther(p) /\ pc[p] = "write" /\ handle[p] = "tmp" -> {tmp, Torn}
                  [] OTHER -> {tmp}
    /\ Over(p)
    /\ UNCHANGED <<overlapped, captureVars>>

-----------------------------------------------------------------------------
(* The capture of Claude Code's sessions, once the credentials are saved. *)

\* The user agrees, or --claude-code asks; its settings are read and parse.
Configure(p) ==
    /\ pc[p] = "offer"
    /\ Goto(p, "mkdir")
    /\ UNCHANGED <<storeVars, captureVars, attempt, vouched, wizardVars>>

CreateStateDir(p) ==
    /\ pc[p] = "mkdir"
    /\ stateDir' = TRUE
    /\ Goto(p, "hook")
    /\ UNCHANGED <<storeVars, hooks, attempt, vouched, wizardVars>>

WriteHooks(p) ==
    /\ pc[p] = "hook"
    /\ hooks' = TRUE
    /\ Over(p)
    /\ UNCHANGED <<file, tmp, overlapped, stateDir>>

\* Declined, cancelled, failed or killed.
NoCapture(p) ==
    /\ pc[p] \in {"offer", "mkdir", "hook"}
    /\ Over(p)
    /\ UNCHANGED <<file, tmp, overlapped, captureVars>>

-----------------------------------------------------------------------------
Keys ==
    \/ TypeDetails \/ TypeJiraToken \/ TypeTempoToken
    \/ PressContinue \/ PressBack \/ PressEditJira \/ PressEditTempo \/ PressSave \/ Cancel
    \/ PassConnectedJira \/ PassConnectedTempo \/ ConnectJira \/ ConnectTempo \/ AbandonTempo

Setup(p) ==
    \/ JiraAccepts(p) \/ TempoAccepts(p) \/ ServiceFails(p)
    \/ LoadAgain(p) \/ OpenTmp(p) \/ WriteTmp(p) \/ Rename(p) \/ SaveEnds(p)
    \/ Configure(p) \/ CreateStateDir(p) \/ WriteHooks(p) \/ NoCapture(p)

Next ==
    \/ StartWizard \/ Keys \/ Rejects
    \/ StartUnattended \/ DryRunEnds
    \/ \E p \in Writers : Setup(p)

Spec == Init /\ [][Next]_vars

-----------------------------------------------------------------------------
(* What setup promises. *)

HandleStates == {"none", "tmp", "live", "unlinked"}

\* The values of the variables: no more than where each is kept.
TypeOK ==
    /\ file \in Contents
    /\ tmp \in Contents
    /\ handle \in [Writers -> HandleStates]
    /\ overlapped \in BOOLEAN /\ hooks \in BOOLEAN /\ stateDir \in BOOLEAN
    /\ pc \in [Writers -> Labels]
    /\ attempt \in [Writers -> Drafts \cup {None}]
    /\ vouched \in [Writers -> [jira : JiraGrants \cup {None}, tempo : TempoGrants \cup {None}]]
    /\ wf \in OnboardingStates
    /\ ui \in Models
    /\ opened \in [jira : Nat, tempo : Nat]
    /\ broken \in BOOLEAN

\* The credentials the services accepted for p, together.
AcceptedFor(p, c) ==
    /\ vouched[p].jira = JiraGrant(c, c.account)
    /\ vouched[p].tempo = TempoGrant(c)

\* The stage of a workflow says what the services granted, whatever was asked
\* since: at Complete its credentials are complete, and granted together.
Vouches(w, g) ==
    /\ w.stage # "Jira" => /\ w.creds \in Drafts /\ w.account \in Accounts
                           /\ g.jira = JiraGrant(w.creds, w.account)
    /\ w.stage = "Complete" => /\ Finished(w) \in Credentials
                               /\ g.tempo = TempoGrant(Finished(w))

\* What a model shows as connected is what its workflow will save: the review
\* lists exactly that.
Agrees(w, u) ==
    /\ u.retainJira = (w.jiraToken # None) /\ u.retainTempo = (w.tempoToken # None)
    /\ u.jiraStatus = "Connected" => /\ w.stage # "Jira"
                                     /\ u.details = w.creds.details /\ u.jira = None
    /\ u.tempoStatus = "Connected" => /\ u.jiraStatus = "Connected" /\ u.tempo = None
                                      /\ w.stage = "Complete"
    /\ w.screen \in {"Tempo", "Save"} => u.jiraStatus = "Connected"
    /\ w.screen = "Save" => u.tempoStatus = "Connected"

StageIsVouched == Vouches(wf, vouched["ui"])
ModelAgrees == ui.shown = wf.screen /\ Agrees(wf, ui)

\* Each token page opens once: the first time its screen is shown.
PagesOpenOnce ==
    /\ opened.jira = IF wf.jiraPresented THEN 1 ELSE 0
    /\ opened.tempo = IF wf.tempoPresented THEN 1 ELSE 0

\* "Hooks must never become active before their destination can be initialized."
HooksHaveDestination == hooks => stateDir

\* The wizard's model and workflow agree at every key and every answer, no page
\* opens twice, and captures have a place to go (setup_tui.rs, setup.rs,
\* claude_tracking.rs:39).
Inv == TypeOK /\ StageIsVouched /\ ModelAgrees /\ PagesOpenOnce /\ HooksHaveDestination

\* No sequence of keys, answers and edits asks the workflow for a step it does
\* not allow: the wizard never ends in "invalid onboarding workflow state".
WizardNeverStuck == ~broken

\* Nothing is saved until both connections succeed: unless two saves overlapped,
\* the file only ever changes to the complete credentials that Jira and then
\* Tempo, for that account, accepted last from the setup that saves them; a
\* setup that is cancelled, rejected or killed, even while it saves, changes
\* nothing.
OnlyVouchedIsStored ==
    [][file' # file /\ ~overlapped =>
         \E p \in Writers : /\ pc[p] = "rename"
                            /\ file' = attempt[p]
                            /\ AcceptedFor(p, file')]_vars
=============================================================================
