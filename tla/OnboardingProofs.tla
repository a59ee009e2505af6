-------------------------- MODULE OnboardingProofs --------------------------
(***************************************************************************)
(* For any sites, tokens and accounts, and any keys and answers: the       *)
(* wizard's two halves agree, it never asks its workflow for a step that   *)
(* is not allowed, and only credentials both services accepted are saved.  *)
(***************************************************************************)
EXTENDS Onboarding, TLAPS

SavedLabels == SaveLabels \cup {"offer", "mkdir", "hook"}

(* What a label says of the setup that is there.                           *)
WizardPhase ==
    /\ pc["ui"] = "idle" => opened = [jira |-> 0, tempo |-> 0]
    /\ pc["ui"] = "jira" =>
         /\ MayPrepareJira(wf)
         /\ attempt["ui"] \in Drafts /\ attempt["ui"].details = wf.details
         /\ attempt["ui"].account = None /\ attempt["ui"].tempo = None
    /\ pc["ui"] = "tempo" =>
         /\ MayPrepareTempo(wf)
         /\ attempt["ui"] = Finished(wf) /\ Finished(wf) \in Credentials

UnattendedPhase ==
    /\ pc["env"] # "wizard"
    /\ pc["env"] = "jira" => attempt["env"] \in Drafts /\ attempt["env"].tempo # None
    /\ pc["env"] = "tempo" =>
         /\ attempt["env"] \in Credentials
         /\ vouched["env"].jira = JiraGrant(attempt["env"], attempt["env"].account)

SavesAccepted ==
    \A p \in Writers : pc[p] \in SavedLabels =>
        attempt[p] \in Credentials /\ AcceptedFor(p, attempt[p])

(* A stage is reached through the screens that load its pages.             *)
PagesLoaded ==
    /\ wf.stage # "Jira" => ui.jiraLoaded /\ ui.tempoLoaded
    /\ wf.screen = "JiraToken" => ui.jiraLoaded

(* Beyond the first screen there are details.                              *)
DetailsGiven == wf.screen # "JiraDetails" => ui.details # None

(* As long as no two saves overlap, one that is under way has its file to  *)
(* itself.                                                                 *)
SavesApart ==
    ~overlapped =>
      /\ \A p \in Writers : pc[p] = "write" => handle[p] = "tmp" /\ tmp = Empty
      /\ \A p \in Writers : pc[p] = "rename" => handle[p] = "tmp" /\ tmp = attempt[p]
      /\ \A p, q \in Writers :
           pc[p] \in {"write", "rename"} /\ pc[q] \in {"write", "rename"} => p = q

HookPhase == \A p \in Writers : pc[p] = "hook" => stateDir

Wizard ==
    /\ StageIsVouched /\ ModelAgrees /\ PagesOpenOnce /\ PagesLoaded /\ WizardNeverStuck
    /\ WizardPhase /\ DetailsGiven
Others == UnattendedPhase /\ SavesAccepted /\ SavesApart /\ HookPhase /\ HooksHaveDestination

IInv == TypeOK /\ Wizard /\ Others

LEMMA Values ==
    /\ None \notin Details \cup JiraTokens \cup TempoTokens \cup Accounts
    /\ Spaces \notin JiraTokens \cup TempoTokens \cup {None}
    /\ None \notin Drafts /\ None \notin Credentials
  BY NoneAssumption, ContentsAssumption

LEMMA CredentialsAreDrafts == Credentials \subseteq Drafts
  BY DEF Credentials, Drafts

-----------------------------------------------------------------------------
(* The workflow's operations keep its type.                                *)

LEMMA NewTyped ==
    ASSUME NEW d \in Details \cup {None}, NEW j \in JiraTokens \cup {None},
           NEW t \in TempoTokens \cup {None}
    PROVE  NewWorkflow(d, j, t) \in OnboardingStates
  BY DEF NewWorkflow, OnboardingStates, Stages, Screens

LEMMA NewModelTyped ==
    ASSUME NEW w \in OnboardingStates
    PROVE  NewModel(w) \in Models
  BY DEF NewModel, Models, OnboardingStates, Screens, Statuses

LEMMA AtTyped ==
    ASSUME NEW w \in OnboardingStates, NEW s \in Screens
    PROVE  /\ At(w, s) \in OnboardingStates
           /\ At(w, s).screen = s
           /\ At(w, s).stage = w.stage /\ At(w, s).creds = w.creds
           /\ At(w, s).account = w.account /\ At(w, s).details = w.details
           /\ At(w, s).jiraToken = w.jiraToken /\ At(w, s).tempoToken = w.tempoToken
           /\ At(w, s).jiraPresented = w.jiraPresented
           /\ At(w, s).tempoPresented = w.tempoPresented
  BY DEF At, OnboardingStates

LEMMA FinishedTyped ==
    ASSUME NEW w \in OnboardingStates, w.creds \in Drafts
    PROVE  /\ Finished(w).details = w.creds.details /\ Finished(w).jira = w.creds.jira
           /\ Finished(w).tempo = w.creds.tempo /\ Finished(w).account = w.account
           /\ Finished(w) \in Drafts
           /\ (w.account \in Accounts /\ w.creds.tempo \in TempoTokens)
                => Finished(w) \in Credentials
  BY DEF Finished, Drafts, Credentials, OnboardingStates

(* Nothing else of a workflow matters to what it vouches for.              *)
LEMMA VouchesBy ==
    ASSUME NEW w \in OnboardingStates, NEW v \in OnboardingStates, NEW g, Vouches(w, g),
           v.stage = w.stage, v.creds = w.creds, v.account = w.account
    PROVE  Vouches(v, g)
  BY DEF Vouches, Finished

-----------------------------------------------------------------------------
(* The wizard follows its workflow.                                        *)

LEMMA FollowKeeps ==
    ASSUME IInv, NEW may, may = TRUE, NEW w \in OnboardingStates, NEW u \in Models,
           Follow(may, w, u),
           JiraPage(w, u) => MayPresentJiraPage(w),
           TempoPage(w, u) => MayPresentTempoPage(w),
           w.jiraPresented = wf.jiraPresented, w.tempoPresented = wf.tempoPresented,
           w.stage # "Jira" => u.jiraLoaded /\ (u.tempoLoaded \/ w.screen = "Tempo"),
           w.screen # "JiraDetails" => u.details # None,
           Vouches(w, vouched'["ui"]), Agrees(w, u)
    PROVE  /\ wf' \in OnboardingStates /\ ui' \in Models
           /\ opened' \in [jira : Nat, tempo : Nat] /\ broken' \in BOOLEAN
           /\ StageIsVouched' /\ ModelAgrees' /\ PagesOpenOnce' /\ PagesLoaded'
           /\ WizardNeverStuck' /\ DetailsGiven'
           /\ wf'.stage = w.stage /\ wf'.screen = w.screen /\ wf'.creds = w.creds
           /\ wf'.account = w.account /\ wf'.details = w.details
<1>1. /\ wf' \in OnboardingStates
      /\ wf'.stage = w.stage /\ wf'.screen = w.screen /\ wf'.creds = w.creds
      /\ wf'.account = w.account /\ wf'.details = w.details
      /\ wf'.jiraToken = w.jiraToken /\ wf'.tempoToken = w.tempoToken
      /\ wf'.jiraPresented = (w.jiraPresented \/ JiraPage(w, u))
      /\ wf'.tempoPresented = (w.tempoPresented \/ TempoPage(w, u))
  BY DEF Follow, OnboardingStates, JiraPage, TempoPage
<1>2. /\ ui' \in Models
      /\ ui'.shown = w.screen /\ ui'.details = u.details
      /\ ui'.jira = u.jira /\ ui'.tempo = u.tempo
      /\ ui'.jiraStatus = u.jiraStatus /\ ui'.tempoStatus = u.tempoStatus
      /\ ui'.retainJira = u.retainJira /\ ui'.retainTempo = u.retainTempo
      /\ ui'.jiraLoaded = (u.jiraLoaded \/ JiraPage(w, u))
      /\ ui'.tempoLoaded = (u.tempoLoaded \/ TempoPage(w, u))
  <2>1. JiraPage(w, u) \in BOOLEAN /\ TempoPage(w, u) \in BOOLEAN
    BY DEF JiraPage, TempoPage
  <2>2. ui' = [u EXCEPT !.shown = w.screen, !.jiraLoaded = @ \/ JiraPage(w, u),
                        !.tempoLoaded = @ \/ TempoPage(w, u)]
    BY DEF Follow
  <2>3. w.screen \in Screens
    BY DEF OnboardingStates
  <2>4. (u.jiraLoaded \/ JiraPage(w, u)) \in BOOLEAN
        /\ (u.tempoLoaded \/ TempoPage(w, u)) \in BOOLEAN
    BY <2>1
  <2> QED
    BY <2>2, <2>3, <2>4 DEF Models
<1>3. StageIsVouched'
  BY <1>1, VouchesBy DEF StageIsVouched
<1>4. ModelAgrees'
  BY <1>1, <1>2 DEF ModelAgrees, Agrees, OnboardingStates, Models
<1>5. PagesOpenOnce' /\ opened' \in [jira : Nat, tempo : Nat]
  <2>1. opened.jira = (IF wf.jiraPresented THEN 1 ELSE 0)
        /\ opened.tempo = (IF wf.tempoPresented THEN 1 ELSE 0)
    BY DEF IInv, Wizard, PagesOpenOnce
  <2>2. /\ opened'.jira = IF OpensJira(w, u) THEN opened.jira + 1 ELSE opened.jira
        /\ opened'.tempo = IF OpensTempo(w, u) THEN opened.tempo + 1 ELSE opened.tempo
    BY DEF Follow
  <2>3. PagesOpenOnce'
    <3>1. /\ JiraPage(w, u) \in BOOLEAN /\ TempoPage(w, u) \in BOOLEAN
          /\ w.jiraPresented \in BOOLEAN /\ w.tempoPresented \in BOOLEAN
      BY DEF JiraPage, TempoPage, OnboardingStates
    <3>2. opened'.jira = IF wf'.jiraPresented THEN 1 ELSE 0
      BY <1>1, <2>1, <2>2, <3>1 DEF OpensJira
    <3>3. opened'.tempo = IF wf'.tempoPresented THEN 1 ELSE 0
      BY <1>1, <2>1, <2>2, <3>1 DEF OpensTempo
    <3> QED
      BY <3>2, <3>3 DEF PagesOpenOnce
  <2>4. opened'.jira \in Nat /\ opened'.tempo \in Nat
    BY <2>1, <2>2
  <2>5. opened' = [jira |-> opened'.jira, tempo |-> opened'.tempo]
    BY DEF Follow
  <2> QED
    BY <2>3, <2>4, <2>5
<1>6. PagesLoaded'
  BY <1>1, <1>2 DEF PagesLoaded, JiraPage, TempoPage
<1>7. broken' = FALSE
  BY DEF Follow, PageRefused, IInv, Wizard, WizardNeverStuck
<1> QED
  BY <1>1, <1>2, <1>3, <1>4, <1>5, <1>6, <1>7 DEF WizardNeverStuck, DetailsGiven

(* The wizard's steps do not touch the files or the unattended setup.      *)
LEMMA OthersKept ==
    ASSUME IInv, UNCHANGED <<storeVars, captureVars>>,
           pc' \in [Writers -> Labels],
           pc["ui"] \in {"idle", "wizard", "jira", "tempo"},
           pc'["ui"] \in {"idle", "wizard", "jira", "tempo", "load"},
           pc'["ui"] = "load" =>
              attempt'["ui"] \in Credentials /\ AcceptedFor("ui", attempt["ui"])',
           pc'["env"] = pc["env"], attempt'["env"] = attempt["env"],
           vouched'["env"] = vouched["env"]
    PROVE  Others'
<1> USE DEF IInv, Others, Writers
<1>1. UnattendedPhase'
  BY DEF UnattendedPhase
<1>2. SavesAccepted'
  BY DEF SavesAccepted, SavedLabels, SaveLabels, AcceptedFor
<1>3. SavesApart'
  BY DEF SavesApart, storeVars
<1>4. HookPhase' /\ HooksHaveDestination'
  BY DEF HookPhase, HooksHaveDestination, captureVars
<1> QED
  BY <1>1, <1>2, <1>3, <1>4

(* The unattended setup and the saves do not touch the wizard.             *)
LEMMA WizardKept ==
    ASSUME IInv, UNCHANGED wizardVars, vouched'["ui"] = vouched["ui"],
           \/ pc'["ui"] = pc["ui"] /\ attempt'["ui"] = attempt["ui"]
           \/ pc'["ui"] \in SavedLabels
    PROVE  Wizard'
<1> USE DEF IInv, Wizard, wizardVars
<1>1. StageIsVouched' /\ ModelAgrees' /\ PagesOpenOnce' /\ PagesLoaded' /\ WizardNeverStuck'
  BY DEF StageIsVouched, ModelAgrees, PagesOpenOnce, PagesLoaded, WizardNeverStuck
<1>2. WizardPhase' /\ DetailsGiven'
  BY DEF WizardPhase, DetailsGiven, SavedLabels, SaveLabels
<1> QED
  BY <1>1, <1>2

(* A wizard that is not there agrees with itself.                          *)
LEMMA FreshWizard ==
    ASSUME NEW d \in Details \cup {None}, NEW j \in JiraTokens \cup {None},
           NEW t \in TempoTokens \cup {None}, NEW g
    PROVE  LET w == NewWorkflow(d, j, t)
               u == NewModel(w)
           IN  /\ w \in OnboardingStates /\ u \in Models
               /\ Vouches(w, g) /\ Agrees(w, u) /\ u.shown = w.screen
               /\ w.stage = "Jira" /\ w.screen = "JiraDetails"
               /\ w.jiraPresented = FALSE /\ w.tempoPresented = FALSE
<1>1. NewWorkflow(d, j, t) \in OnboardingStates
  BY NewTyped
<1>2. NewModel(NewWorkflow(d, j, t)) \in Models
  BY <1>1, NewModelTyped
<1> QED
  BY <1>1, <1>2 DEF NewWorkflow, NewModel, Vouches, Agrees

LEMMA NoWizard ==
    ASSUME NEW g
    PROVE  /\ NoWorkflow \in OnboardingStates /\ NewModel(NoWorkflow) \in Models
           /\ Vouches(NoWorkflow, g) /\ Agrees(NoWorkflow, NewModel(NoWorkflow))
           /\ NewModel(NoWorkflow).shown = NoWorkflow.screen
           /\ NoWorkflow.stage = "Jira" /\ NoWorkflow.screen = "JiraDetails"
           /\ NoWorkflow.jiraPresented = FALSE /\ NoWorkflow.tempoPresented = FALSE
<1>1. None \in Details \cup {None} /\ None \in JiraTokens \cup {None}
      /\ None \in TempoTokens \cup {None}
  OBVIOUS
<1> QED
  BY <1>1, FreshWizard DEF NoWorkflow

(* A command that ends leaves no trace but in the files.                   *)
LEMMA OverKeeps ==
    ASSUME IInv, NEW p \in Writers, Over(p),
           file' \in Contents, tmp' \in Contents, overlapped' = overlapped,
           hooks' \in BOOLEAN, stateDir' = stateDir, hooks' => stateDir,
           ~overlapped => \A q \in Writers \ {p} :
                              pc[q] \in {"write", "rename"} => tmp' = tmp
    PROVE  IInv'
<1>1. TypeOK'
  <2>1. /\ pc' \in [Writers -> Labels]
        /\ attempt' \in [Writers -> Drafts \cup {None}]
        /\ vouched' \in [Writers -> [jira : JiraGrants \cup {None},
                                     tempo : TempoGrants \cup {None}]]
        /\ handle' \in [Writers -> HandleStates]
    BY DEF IInv, TypeOK, Over, Goto, Labels, HandleStates, NoGrants
  <2>2. /\ wf' \in OnboardingStates /\ ui' \in Models
        /\ opened' \in [jira : Nat, tempo : Nat] /\ broken' \in BOOLEAN
    <3>1. CASE p = "ui"
      <4>1. NoWorkflow \in OnboardingStates /\ NewModel(NoWorkflow) \in Models
        BY NoWizard
      <4>2. wf' = NoWorkflow /\ ui' = NewModel(NoWorkflow)
            /\ opened' = [jira |-> 0, tempo |-> 0] /\ broken' = broken
        BY <3>1 DEF Over, WizardOver
      <4> QED
        BY <4>1, <4>2 DEF IInv, TypeOK
    <3>2. CASE p # "ui"
      BY <3>2 DEF IInv, TypeOK, Over
    <3> QED
      BY <3>1, <3>2
  <2> QED
    BY <2>1, <2>2 DEF IInv, TypeOK
<1>2. Wizard'
  <2>1. CASE p = "ui"
    <3>1. /\ pc'["ui"] = "idle" /\ vouched'["ui"] = NoGrants /\ broken' = FALSE
          /\ opened' = [jira |-> 0, tempo |-> 0]
          /\ wf' = NoWorkflow /\ ui' = NewModel(NoWorkflow)
      BY <2>1 DEF IInv, TypeOK, Wizard, WizardNeverStuck, Over, Goto, WizardOver
    <3>2. StageIsVouched' /\ ModelAgrees'
      BY <3>1, NoWizard DEF StageIsVouched, ModelAgrees
    <3>3. /\ PagesOpenOnce' /\ PagesLoaded' /\ WizardNeverStuck'
          /\ WizardPhase' /\ DetailsGiven'
      BY <3>1, NoWizard
         DEF PagesOpenOnce, PagesLoaded, WizardNeverStuck, WizardPhase, DetailsGiven
    <3> QED
      BY <3>2, <3>3 DEF Wizard
  <2>2. CASE p # "ui"
    BY <2>2, WizardKept DEF IInv, TypeOK, Over, Goto, Writers, wizardVars
  <2> QED
    BY <2>1, <2>2
<1>3. Others'
  <2>1. /\ pc'[p] = "idle"
        /\ \A q \in Writers \ {p} : /\ pc'[q] = pc[q] /\ attempt'[q] = attempt[q]
                                    /\ vouched'[q] = vouched[q] /\ handle'[q] = handle[q]
    BY DEF IInv, TypeOK, Over, Goto
  <2>2. UnattendedPhase' /\ SavesAccepted'
    BY <2>1 DEF IInv, Others, UnattendedPhase, SavesAccepted, AcceptedFor, SavedLabels,
                SaveLabels, Writers
  <2>3. SavesApart'
    BY <2>1 DEF IInv, Others, SavesApart
  <2>4. HookPhase' /\ HooksHaveDestination'
    BY <2>1 DEF IInv, Others, HookPhase, HooksHaveDestination
  <2> QED
    BY <2>2, <2>3, <2>4 DEF Others
<1> QED
  BY <1>1, <1>2, <1>3 DEF IInv

THEOREM InitIInv == Init => IInv
<1> SUFFICES ASSUME Init PROVE IInv
  OBVIOUS
<1>2. TypeOK
  BY NoWizard
     DEF Init, TypeOK, Contents, HandleStates, Labels, NoGrants
<1>3. Wizard
  BY NoWizard
     DEF Init, Wizard, StageIsVouched, ModelAgrees, PagesOpenOnce, PagesLoaded,
         WizardNeverStuck, WizardPhase, DetailsGiven, Writers
<1>4. Others
  BY DEF Init, Others, UnattendedPhase, SavesAccepted, SavedLabels, SaveLabels, SavesApart,
         HookPhase, HooksHaveDestination, Writers
<1> QED
  BY <1>2, <1>3, <1>4 DEF IInv

-----------------------------------------------------------------------------
(* The keys that only navigate.                                            *)

LEMMA NavigateKeeps ==
    ASSUME IInv, Asking, NEW may, may = TRUE, NEW w \in OnboardingStates, NEW u \in Models,
           Navigate(may, w, u),
           JiraPage(w, u) => MayPresentJiraPage(w),
           TempoPage(w, u) => MayPresentTempoPage(w),
           w.jiraPresented = wf.jiraPresented, w.tempoPresented = wf.tempoPresented,
           w.stage # "Jira" => u.jiraLoaded /\ (u.tempoLoaded \/ w.screen = "Tempo"),
           w.screen # "JiraDetails" => u.details # None,
           Vouches(w, vouched["ui"]), Agrees(w, u)
    PROVE  IInv'
<1>1. /\ Follow(may, w, u) /\ UNCHANGED <<storeVars, captureVars, pc, attempt, vouched>>
  BY DEF Navigate
<1>2. /\ wf' \in OnboardingStates /\ ui' \in Models
      /\ opened' \in [jira : Nat, tempo : Nat] /\ broken' \in BOOLEAN
      /\ StageIsVouched' /\ ModelAgrees' /\ PagesOpenOnce' /\ PagesLoaded'
      /\ WizardNeverStuck' /\ DetailsGiven'
  BY <1>1, FollowKeeps
<1>3. TypeOK'
  BY <1>1, <1>2 DEF IInv, TypeOK, storeVars, captureVars
<1>4. Wizard'
  BY <1>1, <1>2 DEF Wizard, WizardPhase, Asking
<1>5. Others'
  BY <1>1, OthersKept DEF Asking, IInv, TypeOK
<1> QED
  BY <1>3, <1>4, <1>5 DEF IInv

(* What the invariant says of the wizard's records while it takes keys.    *)
LEMMA AskingFacts ==
    ASSUME IInv
    PROVE  /\ wf \in OnboardingStates /\ ui \in Models /\ ui.shown = wf.screen
           /\ Vouches(wf, vouched["ui"]) /\ Agrees(wf, ui)
           /\ wf.stage # "Jira" => ui.jiraLoaded /\ ui.tempoLoaded
           /\ wf.screen = "JiraToken" => ui.jiraLoaded
           /\ wf.screen # "JiraDetails" => ui.details # None
           /\ broken = FALSE
  BY DEF IInv, TypeOK, Wizard, StageIsVouched, ModelAgrees, PagesLoaded, WizardNeverStuck,
         DetailsGiven

LEMMA ContinueKeeps == IInv /\ PressContinue => IInv'
<1> SUFFICES ASSUME IInv, PressContinue PROVE IInv'
  OBVIOUS
<1> DEFINE w == At(wf, "JiraToken")
<1>1. w \in OnboardingStates /\ w.screen = "JiraToken"
      /\ w.stage = wf.stage /\ w.creds = wf.creds /\ w.account = wf.account
      /\ w.jiraToken = wf.jiraToken /\ w.tempoToken = wf.tempoToken
      /\ w.jiraPresented = wf.jiraPresented /\ w.tempoPresented = wf.tempoPresented
  BY AskingFacts, AtTyped DEF Screens
<1>2. Vouches(w, vouched["ui"])
  BY <1>1, AskingFacts, VouchesBy
<1>3. Agrees(w, ui)
  BY <1>1, AskingFacts DEF Agrees
<1>4. MayContinueFromJiraDetails(wf) = TRUE
  BY AskingFacts DEF PressContinue, MayContinueFromJiraDetails
<1>5. JiraPage(w, ui) => MayPresentJiraPage(w)
  BY <1>1, AskingFacts DEF JiraPage, MayPresentJiraPage, OnboardingStates, Stages
<1>6. ~TempoPage(w, ui)
  BY <1>1 DEF TempoPage
<1> HIDE DEF w
<1>7. Navigate(MayContinueFromJiraDetails(wf), w, ui) /\ Asking /\ ui.details # None
  BY DEF PressContinue, w
<1> QED
  BY <1>1, <1>2, <1>3, <1>4, <1>5, <1>6, <1>7, AskingFacts, NavigateKeeps

LEMMA BackTyped ==
    ASSUME NEW w \in OnboardingStates
    PROVE  /\ Back(w) \in OnboardingStates /\ Back(w).screen = Previous(w.screen)
           /\ Back(w).stage = w.stage /\ Back(w).creds = w.creds
           /\ Back(w).account = w.account /\ Back(w).details = w.details
           /\ Back(w).jiraToken = w.jiraToken /\ Back(w).tempoToken = w.tempoToken
           /\ Back(w).jiraPresented = w.jiraPresented
           /\ Back(w).tempoPresented = w.tempoPresented
<1>1. Previous(w.screen) \in Screens
  BY DEF Previous, OnboardingStates, Screens
<1> QED
  BY <1>1, AtTyped DEF Back

(* Going back leaves the connections as they are; the pages it meets again *)
(* were loaded on the way there.                                           *)
LEMMA BackAgrees ==
    ASSUME IInv, wf.screen # "JiraDetails", NEW u \in Models, Agrees(wf, u),
           u.jiraLoaded = ui.jiraLoaded, u.tempoLoaded = ui.tempoLoaded
    PROVE  /\ Vouches(Back(wf), vouched["ui"]) /\ Agrees(Back(wf), u)
           /\ ~JiraPage(Back(wf), u) /\ ~TempoPage(Back(wf), u)
<1>1. Back(wf) \in OnboardingStates /\ Back(wf).screen = Previous(wf.screen)
      /\ Back(wf).stage = wf.stage /\ Back(wf).creds = wf.creds
      /\ Back(wf).account = wf.account
      /\ Back(wf).jiraToken = wf.jiraToken /\ Back(wf).tempoToken = wf.tempoToken
  BY AskingFacts, BackTyped
<1>2. Vouches(Back(wf), vouched["ui"])
  BY <1>1, AskingFacts, VouchesBy
<1>3. Agrees(Back(wf), u)
  BY <1>1 DEF Agrees, Previous
<1>4. wf.screen \in {"Tempo", "Save"} => wf.stage # "Jira"
  BY AskingFacts DEF Agrees
<1>5. ~JiraPage(Back(wf), u) /\ ~TempoPage(Back(wf), u)
  BY <1>1, <1>4, AskingFacts DEF JiraPage, TempoPage, Previous, OnboardingStates, Screens
<1> QED
  BY <1>2, <1>3, <1>5

LEMMA BackKeeps == IInv /\ PressBack => IInv'
<1> SUFFICES ASSUME IInv, PressBack PROVE IInv'
  OBVIOUS
<1> DEFINE u == [ui EXCEPT !.jira = IF ui.shown = "JiraToken" THEN None ELSE @,
                           !.tempo = IF ui.shown = "Tempo" THEN None ELSE @]
<1>1. /\ u \in Models
      /\ u.jiraLoaded = ui.jiraLoaded /\ u.tempoLoaded = ui.tempoLoaded
      /\ u.details = ui.details /\ u.jira \in {ui.jira, None} /\ u.tempo \in {ui.tempo, None}
      /\ u.jiraStatus = ui.jiraStatus /\ u.tempoStatus = ui.tempoStatus
      /\ u.retainJira = ui.retainJira /\ u.retainTempo = ui.retainTempo
  BY AskingFacts DEF Models
<1>2. Navigate(TRUE, Back(wf), u) /\ Asking /\ wf.screen # "JiraDetails"
  BY AskingFacts DEF PressBack
<1> HIDE DEF u
<1>3. Agrees(wf, u)
  BY <1>1, AskingFacts DEF Agrees
<1>4. /\ Vouches(Back(wf), vouched["ui"]) /\ Agrees(Back(wf), u)
      /\ ~JiraPage(Back(wf), u) /\ ~TempoPage(Back(wf), u)
  BY <1>1, <1>2, <1>3, BackAgrees
<1>5. Back(wf) \in OnboardingStates /\ Back(wf).stage = wf.stage
      /\ Back(wf).jiraPresented = wf.jiraPresented
      /\ Back(wf).tempoPresented = wf.tempoPresented
  BY AskingFacts, BackTyped
<1> QED
  BY <1>1, <1>2, <1>4, <1>5, AskingFacts, NavigateKeeps

(* On Save both services are connected, and every page was loaded.         *)
LEMMA SaveIsComplete ==
    ASSUME IInv, ui.shown = "Save"
    PROVE  wf.stage = "Complete" /\ ui.jiraStatus = "Connected" /\ wf.screen = "Save"
           /\ ui.jiraLoaded /\ ui.tempoLoaded
  BY AskingFacts DEF Agrees

LEMMA EditKeeps == IInv /\ (PressEditJira \/ PressEditTempo) => IInv'
<1> SUFFICES ASSUME IInv, PressEditJira \/ PressEditTempo PROVE IInv'
  OBVIOUS
<1>1. Asking /\ ui.shown = "Save"
  BY DEF PressEditJira, PressEditTempo
<1>2. wf.stage = "Complete" /\ ui.jiraStatus = "Connected"
      /\ ui.jiraLoaded /\ ui.tempoLoaded
  BY <1>1, SaveIsComplete
<1>3. PICK s \in {"JiraDetails", "Tempo"} : Navigate(TRUE, At(wf, s), ui)
  <2>1. CASE PressEditJira
    BY <2>1 DEF PressEditJira
  <2>2. CASE PressEditTempo
    <3>1. MayEditTempo(wf) = TRUE
      BY <1>2 DEF MayEditTempo
    <3> QED
      BY <2>2, <3>1 DEF PressEditTempo
  <2> QED
    BY <2>1, <2>2
<1> DEFINE w == At(wf, s)
<1>4. w \in OnboardingStates /\ w.screen = s
      /\ w.stage = wf.stage /\ w.creds = wf.creds /\ w.account = wf.account
      /\ w.jiraToken = wf.jiraToken /\ w.tempoToken = wf.tempoToken
      /\ w.jiraPresented = wf.jiraPresented /\ w.tempoPresented = wf.tempoPresented
  BY AskingFacts, AtTyped DEF Screens
<1> HIDE DEF w
<1>5. Vouches(w, vouched["ui"])
  BY <1>4, AskingFacts, VouchesBy
<1>6. Agrees(w, ui)
  BY <1>2, <1>4, AskingFacts DEF Agrees
<1>7. ~JiraPage(w, ui) /\ ~TempoPage(w, ui)
  BY <1>2 DEF JiraPage, TempoPage
<1>8. Navigate(TRUE, w, ui)
  BY <1>3 DEF w
<1> QED
  BY <1>1, <1>2, <1>3, <1>4, <1>5, <1>6, <1>7, <1>8, AskingFacts, NavigateKeeps

LEMMA PassKeeps == IInv /\ (PassConnectedJira \/ PassConnectedTempo) => IInv'
<1> SUFFICES ASSUME IInv, PassConnectedJira \/ PassConnectedTempo PROVE IInv'
  OBVIOUS
<1>1. PICK s \in {"Tempo", "Save"} :
        /\ Asking /\ Navigate(TRUE, At(wf, s), ui)
        /\ ui.jiraStatus = "Connected" /\ ui.shown # "JiraDetails"
        /\ s = "Save" => ui.tempoStatus = "Connected"
  <2>1. CASE PassConnectedJira
    <3>1. MayContinueWithVerifiedJira(wf) = TRUE
      BY <2>1, AskingFacts DEF PassConnectedJira, MayContinueWithVerifiedJira, Agrees
    <3> QED
      BY <2>1, <3>1 DEF PassConnectedJira
  <2>2. CASE PassConnectedTempo
    <3>1. MayContinueWithVerifiedTempo(wf) = TRUE /\ ui.jiraStatus = "Connected"
      BY <2>2, AskingFacts DEF PassConnectedTempo, MayContinueWithVerifiedTempo, Agrees
    <3> QED
      BY <2>2, <3>1 DEF PassConnectedTempo
  <2> QED
    BY <2>1, <2>2
<1>2. wf.stage # "Jira" /\ ui.jiraLoaded /\ ui.tempoLoaded
  BY <1>1, AskingFacts DEF Agrees
<1> DEFINE w == At(wf, s)
<1>3. w \in OnboardingStates /\ w.screen = s
      /\ w.stage = wf.stage /\ w.creds = wf.creds /\ w.account = wf.account
      /\ w.jiraToken = wf.jiraToken /\ w.tempoToken = wf.tempoToken
      /\ w.jiraPresented = wf.jiraPresented /\ w.tempoPresented = wf.tempoPresented
  BY AskingFacts, AtTyped DEF Screens
<1>4. Navigate(TRUE, w, ui)
  BY <1>1
<1> HIDE DEF w
<1>5. Vouches(w, vouched["ui"])
  BY <1>3, AskingFacts, VouchesBy
<1>6. Agrees(w, ui)
  BY <1>1, <1>3, AskingFacts DEF Agrees
<1>7. ~JiraPage(w, ui) /\ ~TempoPage(w, ui)
  BY <1>2 DEF JiraPage, TempoPage
<1> QED
  BY <1>1, <1>2, <1>3, <1>4, <1>5, <1>6, <1>7, AskingFacts, NavigateKeeps

-----------------------------------------------------------------------------
(* Typing, and the other keys that stay with the workflow's screen.        *)

LEMMA TypeKeeps ==
    ASSUME IInv, Asking, NEW u \in Models, Type(u),
           u.shown = ui.shown, u.shown \in {"JiraDetails", "JiraToken", "Tempo"},
           u.jiraStatus = ui.jiraStatus, u.retainJira = ui.retainJira,
           u.retainTempo = ui.retainTempo, u.jiraLoaded = ui.jiraLoaded,
           u.tempoLoaded = ui.tempoLoaded,
           u.shown # "JiraDetails" => u.details = ui.details,
           u.shown = "Tempo" => u.jira = ui.jira
    PROVE  IInv'
<1>1. ui' = Edited(u)
      /\ UNCHANGED <<storeVars, captureVars, pc, attempt, vouched, wf, opened, broken>>
  BY DEF Type
<1>2. /\ ui' \in Models
      /\ ui'.shown = u.shown /\ ui'.details = u.details /\ ui'.jira = u.jira
      /\ ui'.jiraStatus = (IF u.shown = "Tempo" THEN u.jiraStatus ELSE "NotConnected")
      /\ ui'.tempoStatus = "NotConnected"
      /\ ui'.retainJira = u.retainJira /\ ui'.retainTempo = u.retainTempo
      /\ ui'.jiraLoaded = u.jiraLoaded /\ ui'.tempoLoaded = u.tempoLoaded
  BY <1>1 DEF Edited, Models, Statuses
<1>3. TypeOK'
  BY <1>1, <1>2 DEF IInv, TypeOK, storeVars, captureVars
<1>4. ModelAgrees'
  BY <1>1, <1>2, AskingFacts DEF ModelAgrees, Agrees
<1>5. DetailsGiven'
  BY <1>1, <1>2, AskingFacts DEF DetailsGiven
<1>6. Wizard'
  BY <1>1, <1>2, <1>4, <1>5
     DEF IInv, Wizard, StageIsVouched, PagesOpenOnce, PagesLoaded, WizardNeverStuck,
         WizardPhase, Asking
<1>7. Others'
  BY <1>1, OthersKept DEF Asking, IInv, TypeOK
<1> QED
  BY <1>3, <1>6, <1>7 DEF IInv

LEMMA TypingKeeps == IInv /\ (TypeDetails \/ TypeJiraToken \/ TypeTempoToken) => IInv'
<1> SUFFICES ASSUME IInv, TypeDetails \/ TypeJiraToken \/ TypeTempoToken PROVE IInv'
  OBVIOUS
<1>1. CASE TypeDetails
  <2>1. PICK d \in Details \cup {None} : Type([ui EXCEPT !.details = d])
    BY <1>1 DEF TypeDetails
  <2> QED
    BY <1>1, <2>1, TypeKeeps, AskingFacts DEF TypeDetails, Models
<1>2. CASE TypeJiraToken
  <2>1. PICK t \in JiraTokens \cup {None, Spaces} : Type([ui EXCEPT !.jira = t])
    BY <1>2 DEF TypeJiraToken
  <2> QED
    BY <1>2, <2>1, TypeKeeps, AskingFacts DEF TypeJiraToken, Models
<1>3. CASE TypeTempoToken
  <2>1. PICK t \in TempoTokens \cup {None, Spaces} : Type([ui EXCEPT !.tempo = t])
    BY <1>3 DEF TypeTempoToken
  <2> QED
    BY <1>3, <2>1, TypeKeeps, AskingFacts DEF TypeTempoToken, Models
<1> QED
  BY <1>1, <1>2, <1>3

LEMMA SaveKeeps == IInv /\ PressSave => IInv'
<1> SUFFICES ASSUME IInv, PressSave PROVE IInv'
  OBVIOUS
<1>1. /\ pc["ui"] = "wizard" /\ pc' = [pc EXCEPT !["ui"] = "load"]
      /\ attempt' = [attempt EXCEPT !["ui"] = Finished(wf)]
      /\ broken' = (broken \/ ~MayFinish(wf))
      /\ UNCHANGED <<storeVars, captureVars, vouched, wf, ui, opened>>
  BY DEF PressSave, Asking, Goto
<1>2. /\ wf.stage = "Complete" /\ wf.screen = "Save"
      /\ wf.creds \in Drafts /\ wf.account \in Accounts
      /\ Finished(wf) \in Credentials
      /\ vouched["ui"].jira = JiraGrant(wf.creds, wf.account)
      /\ vouched["ui"].tempo = TempoGrant(Finished(wf))
  BY SaveIsComplete, AskingFacts DEF Vouches, PressSave
<1>3. MayFinish(wf) = TRUE
  BY <1>2, Values DEF MayFinish
<1>4. AcceptedFor("ui", Finished(wf))
  BY <1>2, FinishedTyped, AskingFacts DEF AcceptedFor, JiraGrant
<1>5. TypeOK'
  BY <1>1, <1>2, CredentialsAreDrafts DEF IInv, TypeOK, storeVars, captureVars, Writers, Labels
<1>6. pc' \in [Writers -> Labels] /\ attempt'["ui"] = Finished(wf) /\ pc'["ui"] = "load"
      /\ pc'["env"] = pc["env"] /\ attempt'["env"] = attempt["env"] /\ broken' = FALSE
  BY <1>1, <1>3, <1>5, AskingFacts DEF IInv, TypeOK, Writers
<1>7. Wizard'
  BY <1>1, <1>6
     DEF IInv, Wizard, StageIsVouched, ModelAgrees, PagesOpenOnce, PagesLoaded,
         WizardNeverStuck, WizardPhase, DetailsGiven
<1>8. AcceptedFor("ui", attempt["ui"])'
  BY <1>1, <1>4, <1>6 DEF AcceptedFor
<1>9. Others'
  BY <1>1, <1>2, <1>6, <1>8, OthersKept
<1> QED
  BY <1>5, <1>7, <1>9 DEF IInv

LEMMA StartWizardKeeps == IInv /\ StartWizard => IInv'
<1> SUFFICES ASSUME IInv, StartWizard PROVE IInv'
  OBVIOUS
<1>1. PICK d \in Details \cup {None}, j \in JiraTokens \cup {None},
           t \in TempoTokens \cup {None} :
        wf' = NewWorkflow(d, j, t)
  <2>1. CASE file = None
    BY <2>1 DEF StartWizard, NoWorkflow
  <2>2. CASE file # None
    BY <2>2 DEF StartWizard, Credentials
  <2> QED
    BY <2>1, <2>2
<1>2. /\ ui' = NewModel(wf') /\ pc["ui"] = "idle"
      /\ pc' = [pc EXCEPT !["ui"] = "wizard"]
      /\ UNCHANGED <<storeVars, captureVars, attempt, vouched, opened, broken>>
  BY DEF StartWizard, Goto
<1>3. /\ wf' \in OnboardingStates /\ ui' \in Models
      /\ Vouches(wf', vouched["ui"]) /\ Agrees(wf', ui') /\ ui'.shown = wf'.screen
      /\ wf'.stage = "Jira" /\ wf'.screen = "JiraDetails"
      /\ wf'.jiraPresented = FALSE /\ wf'.tempoPresented = FALSE
  BY <1>1, <1>2, FreshWizard
<1>4. opened = [jira |-> 0, tempo |-> 0]
  BY <1>2 DEF IInv, Wizard, WizardPhase
<1>5. TypeOK'
  BY <1>2, <1>3 DEF IInv, TypeOK, storeVars, captureVars, Writers, Labels
<1>6. pc'["ui"] = "wizard" /\ pc'["env"] = pc["env"] /\ pc' \in [Writers -> Labels]
  BY <1>2, <1>5 DEF IInv, TypeOK, Writers
<1>7. Wizard'
  BY <1>2, <1>3, <1>4, <1>6
     DEF IInv, Wizard, StageIsVouched, ModelAgrees, PagesOpenOnce, PagesLoaded,
         WizardNeverStuck, WizardPhase, DetailsGiven
<1>8. Others'
  BY <1>2, <1>6, OthersKept
<1> QED
  BY <1>5, <1>7, <1>8 DEF IInv

-----------------------------------------------------------------------------
(* Connecting.                                                             *)

LEMMA ResolvedTyped ==
    ASSUME NEW Tokens, NEW input \in Tokens \cup {None, Spaces},
           NEW retained \in Tokens \cup {None}
    PROVE  Resolved(input, retained) \in Tokens \cup {None}
  BY DEF Resolved

(* A verification, or its rejection, that leaves the workflow unverified.  *)
LEMMA ConnectJiraKeeps == IInv /\ ConnectJira => IInv'
<1> SUFFICES ASSUME IInv, ConnectJira PROVE IInv'
  OBVIOUS
<1> DEFINE w == InvalidateJira(wf)
           token == Resolved(ui.jira, w.jiraToken)
           asked == [ui EXCEPT !.jiraStatus = "Pending", !.tempoStatus = "NotConnected"]
<1>1. /\ pc["ui"] = "wizard" /\ ui.shown = "JiraToken" /\ wf.screen = "JiraToken"
      /\ UNCHANGED <<storeVars, captureVars, vouched, opened>>
  BY AskingFacts DEF ConnectJira, Asking
<1>2. /\ w \in OnboardingStates /\ w.stage = "Jira" /\ w.screen = "JiraToken"
      /\ w.jiraToken = wf.jiraToken /\ w.tempoToken = wf.tempoToken
      /\ w.jiraPresented = wf.jiraPresented /\ w.tempoPresented = wf.tempoPresented
  BY AskingFacts DEF InvalidateJira, OnboardingStates, Stages, Screens
<1>3. /\ asked \in Models /\ asked.shown = ui.shown
      /\ asked.jiraStatus = "Pending" /\ asked.tempoStatus = "NotConnected"
      /\ asked.retainJira = ui.retainJira /\ asked.retainTempo = ui.retainTempo
      /\ asked.jiraLoaded = ui.jiraLoaded /\ asked.details = ui.details
  BY AskingFacts DEF Models, Statuses
<1>4. ui.details \in Details \cup {None} /\ ui.jira \in JiraTokens \cup {None, Spaces}
  BY AskingFacts DEF Models
<1>5. token \in JiraTokens \cup {None}
  BY <1>2, <1>4, ResolvedTyped DEF OnboardingStates
<1>6. /\ wf' = PrepareJira(w, ui.details)
      /\ broken' = (broken \/ ~MayPrepareJira(w))
      /\ token = None => ui' = JiraRejected(asked) /\ UNCHANGED <<pc, attempt>>
      /\ token # None => /\ ui' = asked
                         /\ attempt' = [attempt EXCEPT !["ui"] = JiraDraft(ui.details, token)]
                         /\ pc' = [pc EXCEPT !["ui"] = "jira"]
  BY DEF ConnectJira, Goto
<1> HIDE DEF w, token, asked
<1>7. /\ wf' \in OnboardingStates /\ wf'.stage = "Jira" /\ wf'.screen = "JiraToken"
      /\ wf'.details = ui.details
      /\ wf'.jiraToken = wf.jiraToken /\ wf'.tempoToken = wf.tempoToken
      /\ wf'.jiraPresented = wf.jiraPresented /\ wf'.tempoPresented = wf.tempoPresented
  BY <1>2, <1>4, <1>6 DEF PrepareJira, OnboardingStates
<1>8. /\ ui' \in Models /\ ui'.shown = "JiraToken"
      /\ ui'.jiraStatus \in {"Pending", "NotConnected"} /\ ui'.tempoStatus = "NotConnected"
      /\ ui'.retainJira = ui.retainJira /\ ui'.retainTempo = ui.retainTempo
      /\ ui'.jiraLoaded = ui.jiraLoaded /\ ui'.details = ui.details
  BY <1>1, <1>3, <1>6 DEF JiraRejected, Models, Statuses
<1>9. broken' = FALSE
  BY <1>2, <1>6, AskingFacts DEF MayPrepareJira
<1>10. ui.details # None
  BY AskingFacts, <1>1 DEF IInv, Wizard, DetailsGiven
<1>11. token # None => JiraDraft(ui.details, token) \in Drafts
  BY <1>4, <1>5, <1>10 DEF JiraDraft, Drafts
<1>12. /\ pc' \in [Writers -> Labels] /\ attempt' \in [Writers -> Drafts \cup {None}]
       /\ pc'["env"] = pc["env"] /\ attempt'["env"] = attempt["env"]
       /\ \/ pc'["ui"] = "wizard"
          \/ /\ pc'["ui"] = "jira" /\ attempt'["ui"] = JiraDraft(ui.details, token)
             /\ attempt'["ui"] \in Drafts
  BY <1>1, <1>6, <1>11 DEF IInv, TypeOK, Writers, Labels
<1>13. TypeOK'
  BY <1>1, <1>7, <1>8, <1>9, <1>12 DEF IInv, TypeOK, storeVars, captureVars
<1>14. StageIsVouched' /\ ModelAgrees'
  BY <1>7, <1>8, AskingFacts DEF StageIsVouched, Vouches, ModelAgrees, Agrees
<1>15. PagesOpenOnce' /\ WizardNeverStuck' /\ DetailsGiven'
  BY <1>1, <1>7, <1>8, <1>9, <1>10
     DEF IInv, Wizard, PagesOpenOnce, WizardNeverStuck, DetailsGiven
<1>17. PagesLoaded'
  BY <1>1, <1>7, <1>8, AskingFacts DEF PagesLoaded
<1>16. WizardPhase'
  BY <1>7, <1>12 DEF WizardPhase, MayPrepareJira, JiraDraft
<1>18. Others'
  BY <1>1, <1>12, OthersKept
<1> QED
  BY <1>13, <1>14, <1>15, <1>16, <1>17, <1>18 DEF IInv, Wizard

LEMMA RejectedTyped ==
    ASSUME NEW u \in Models
    PROVE  /\ JiraRejected(u) \in Models /\ TempoRejected(u) \in Models
           /\ JiraRejected(u).shown = u.shown /\ TempoRejected(u).shown = u.shown
           /\ JiraRejected(u).details = u.details /\ TempoRejected(u).details = u.details
           /\ JiraRejected(u).jiraLoaded = u.jiraLoaded
           /\ JiraRejected(u).tempoLoaded = u.tempoLoaded
           /\ TempoRejected(u).jiraLoaded = u.jiraLoaded
           /\ TempoRejected(u).tempoLoaded = u.tempoLoaded
  BY DEF JiraRejected, TempoRejected, Models, Statuses

LEMMA RetokenedTyped ==
    ASSUME NEW c \in Drafts, NEW t \in TempoTokens \cup {None}
    PROVE  LET d == [c EXCEPT !.tempo = t]
           IN  /\ d \in Drafts /\ d.tempo = t
               /\ d.details = c.details /\ d.jira = c.jira /\ d.account = c.account
  BY DEF Drafts

(* Jira's acceptance outlives a new token for Tempo.                       *)
LEMMA ConnectTempoKeeps == IInv /\ ConnectTempo => IInv'
<1> SUFFICES ASSUME IInv, ConnectTempo PROVE IInv'
  OBVIOUS
<1> DEFINE w == InvalidateTempo(wf)
           token == Resolved(ui.tempo, w.tempoToken)
           asked == [ui EXCEPT !.tempoStatus = "Pending"]
<1>1. /\ pc["ui"] = "wizard" /\ ui.shown = "Tempo" /\ wf.screen = "Tempo"
      /\ UNCHANGED <<storeVars, captureVars, vouched, opened>>
  BY AskingFacts DEF ConnectTempo, Asking
<1>2. /\ wf.stage # "Jira" /\ wf.creds \in Drafts /\ wf.account \in Accounts
      /\ vouched["ui"].jira = JiraGrant(wf.creds, wf.account)
      /\ ui.jiraStatus = "Connected" /\ ui.details = wf.creds.details /\ ui.jira = None
      /\ ui.jiraLoaded /\ ui.tempoLoaded
  BY <1>1, AskingFacts DEF Agrees, Vouches
<1>3. None \in TempoTokens \cup {None}
  OBVIOUS
<1>4. wf.creds # None
  BY <1>2, Values
<1>5. /\ w = [wf EXCEPT !.stage = "Tempo", !.screen = "Tempo",
                        !.creds = [wf.creds EXCEPT !.tempo = None]]
  BY <1>4, AskingFacts DEF InvalidateTempo, OnboardingStates
<1>6. [wf.creds EXCEPT !.tempo = None] \in Drafts
      /\ [wf.creds EXCEPT !.tempo = None].details = wf.creds.details
      /\ [wf.creds EXCEPT !.tempo = None].jira = wf.creds.jira
  BY <1>2, <1>3, RetokenedTyped
<1>7. /\ w \in OnboardingStates /\ w.stage = "Tempo" /\ w.screen = "Tempo"
      /\ w.creds \in Drafts /\ w.creds.details = wf.creds.details
      /\ w.creds.jira = wf.creds.jira /\ w.account = wf.account
      /\ w.jiraToken = wf.jiraToken /\ w.tempoToken = wf.tempoToken
      /\ w.jiraPresented = wf.jiraPresented /\ w.tempoPresented = wf.tempoPresented
  BY <1>5, <1>6, AskingFacts DEF OnboardingStates, Stages, Screens
<1>8. token \in TempoTokens \cup {None}
  <2>1. ui.tempo \in TempoTokens \cup {None, Spaces} /\ w.tempoToken \in TempoTokens \cup {None}
    BY <1>7, AskingFacts DEF OnboardingStates, Models
  <2> QED
    BY <2>1, ResolvedTyped
<1>9. /\ asked \in Models /\ asked.shown = ui.shown /\ asked.tempoStatus = "Pending"
      /\ asked.jiraStatus = ui.jiraStatus /\ asked.jira = ui.jira
      /\ asked.retainJira = ui.retainJira /\ asked.retainTempo = ui.retainTempo
      /\ asked.jiraLoaded = ui.jiraLoaded /\ asked.tempoLoaded = ui.tempoLoaded
      /\ asked.details = ui.details
  BY AskingFacts DEF Models, Statuses
<1>10. /\ broken' = (broken \/ ~MayInvalidateTempo(wf) \/ ~MayPrepareTempo(w))
       /\ token = None => wf' = w /\ ui' = TempoRejected(asked) /\ UNCHANGED <<pc, attempt>>
       /\ token # None => /\ wf' = PrepareTempo(w, token) /\ ui' = asked
                          /\ attempt' = [attempt EXCEPT !["ui"] = Finished(wf')]
                          /\ pc' = [pc EXCEPT !["ui"] = "tempo"]
  BY DEF ConnectTempo, Goto
<1> HIDE DEF w, token, asked
<1>11. /\ wf' \in OnboardingStates /\ wf'.stage = "Tempo" /\ wf'.screen = "Tempo"
       /\ wf'.creds \in Drafts /\ wf'.creds.details = wf.creds.details
       /\ wf'.creds.jira = wf.creds.jira /\ wf'.account = wf.account
       /\ token # None => wf'.creds.tempo = token
       /\ wf'.jiraToken = wf.jiraToken /\ wf'.tempoToken = wf.tempoToken
       /\ wf'.jiraPresented = wf.jiraPresented /\ wf'.tempoPresented = wf.tempoPresented
  <2>1. CASE token = None
    BY <2>1, <1>7, <1>10
  <2>2. CASE token # None
    <3>1. /\ wf' = [w EXCEPT !.creds = [w.creds EXCEPT !.tempo = token]]
      BY <2>2, <1>7, <1>10 DEF PrepareTempo, OnboardingStates
    <3>2. /\ [w.creds EXCEPT !.tempo = token] \in Drafts
          /\ [w.creds EXCEPT !.tempo = token].tempo = token
          /\ [w.creds EXCEPT !.tempo = token].details = w.creds.details
          /\ [w.creds EXCEPT !.tempo = token].jira = w.creds.jira
      BY <1>7, <1>8, RetokenedTyped
    <3> QED
      BY <3>1, <3>2, <1>7 DEF OnboardingStates
  <2> QED
    BY <2>1, <2>2
<1>12. /\ ui' \in Models /\ ui'.shown = "Tempo" /\ ui'.jiraStatus = "Connected"
       /\ ui'.tempoStatus \in {"Pending", "NotConnected"} /\ ui'.jira = None
       /\ ui'.retainJira = ui.retainJira /\ ui'.retainTempo = ui.retainTempo
       /\ ui'.jiraLoaded /\ ui'.tempoLoaded /\ ui'.details = ui.details
  <2>1. CASE token = None
    <3>1. ui' = TempoRejected(asked)
      BY <2>1, <1>10
    <3>2. /\ TempoRejected(asked).jiraStatus = asked.jiraStatus
          /\ TempoRejected(asked).tempoStatus = "NotConnected"
          /\ TempoRejected(asked).jira = asked.jira
          /\ TempoRejected(asked).retainJira = asked.retainJira
          /\ TempoRejected(asked).retainTempo = asked.retainTempo
      BY <1>9 DEF TempoRejected, Models
    <3>3. /\ TempoRejected(asked) \in Models
          /\ TempoRejected(asked).shown = asked.shown
          /\ TempoRejected(asked).details = asked.details
          /\ TempoRejected(asked).jiraLoaded = asked.jiraLoaded
          /\ TempoRejected(asked).tempoLoaded = asked.tempoLoaded
      BY <1>9, RejectedTyped
    <3> QED
      BY <1>1, <1>2, <1>9, <3>1, <3>2, <3>3
  <2>2. CASE token # None
    BY <1>1, <1>2, <1>9, <1>10, <2>2
  <2> QED
    BY <2>1, <2>2
<1>13. broken' = FALSE
  BY <1>2, <1>7, <1>10, Values, AskingFacts DEF MayInvalidateTempo, MayPrepareTempo
<1>14. token # None => Finished(wf') \in Credentials
  BY <1>2, <1>8, <1>11, FinishedTyped
<1>15. /\ pc' \in [Writers -> Labels] /\ attempt' \in [Writers -> Drafts \cup {None}]
       /\ pc'["env"] = pc["env"] /\ attempt'["env"] = attempt["env"]
       /\ \/ pc'["ui"] = "wizard"
          \/ /\ token # None /\ pc'["ui"] = "tempo" /\ attempt'["ui"] = Finished(wf')
  BY <1>1, <1>10, <1>14, CredentialsAreDrafts DEF IInv, TypeOK, Writers, Labels
<1>16. TypeOK'
  BY <1>1, <1>11, <1>12, <1>13, <1>15 DEF IInv, TypeOK, storeVars, captureVars
<1>17. StageIsVouched'
  BY <1>1, <1>2, <1>11 DEF StageIsVouched, Vouches, JiraGrant
<1>18. ModelAgrees'
  BY <1>2, <1>11, <1>12, AskingFacts DEF ModelAgrees, Agrees
<1>19. /\ PagesOpenOnce' /\ WizardNeverStuck'
  BY <1>1, <1>11, <1>13 DEF IInv, Wizard, PagesOpenOnce, WizardNeverStuck
<1>20. PagesLoaded' /\ DetailsGiven'
  BY <1>1, <1>12, AskingFacts DEF PagesLoaded, DetailsGiven
<1>21. WizardPhase'
  BY <1>2, <1>11, <1>14, <1>15, Values DEF WizardPhase, MayPrepareTempo
<1>22. Others'
  BY <1>1, <1>15, OthersKept
<1> QED
  BY <1>16, <1>17, <1>18, <1>19, <1>20, <1>21, <1>22 DEF IInv, Wizard

(* While Tempo is asked, Jira is connected and Tempo is not.               *)
LEMMA TempoRejectedAgrees ==
    ASSUME IInv, wf.screen = "Tempo"
    PROVE  Agrees(wf, TempoRejected(ui))
  BY AskingFacts DEF Agrees, TempoRejected, Models

LEMMA JiraRejectedAgrees ==
    ASSUME IInv, wf.screen = "JiraToken", wf.stage = "Jira"
    PROVE  Agrees(wf, JiraRejected(ui))
  BY AskingFacts DEF Agrees, JiraRejected, Models

LEMMA AbandonKeeps == IInv /\ AbandonTempo => IInv'
<1> SUFFICES ASSUME IInv, AbandonTempo PROVE IInv'
  OBVIOUS
<1> DEFINE u == TempoRejected(ui)
<1>1. /\ pc["ui"] = "tempo" /\ pc' = [pc EXCEPT !["ui"] = "wizard"]
      /\ attempt' = [attempt EXCEPT !["ui"] = None]
      /\ Follow(TRUE, Back(wf), u) /\ UNCHANGED <<storeVars, captureVars, vouched>>
  BY DEF AbandonTempo, Goto
<1>2. wf.stage = "Tempo" /\ wf.screen = "Tempo"
  BY <1>1 DEF IInv, Wizard, WizardPhase, MayPrepareTempo
<1>3. u \in Models /\ u.details = ui.details
      /\ u.jiraLoaded = ui.jiraLoaded /\ u.tempoLoaded = ui.tempoLoaded
  BY AskingFacts, RejectedTyped
<1>4. Agrees(wf, u)
  BY <1>2, TempoRejectedAgrees
<1> HIDE DEF u
<1>5. /\ Vouches(Back(wf), vouched["ui"]) /\ Agrees(Back(wf), u)
      /\ ~JiraPage(Back(wf), u) /\ ~TempoPage(Back(wf), u)
  BY <1>2, <1>3, <1>4, BackAgrees
<1>6. Back(wf) \in OnboardingStates /\ Back(wf).stage = wf.stage
      /\ Back(wf).jiraPresented = wf.jiraPresented
      /\ Back(wf).tempoPresented = wf.tempoPresented
  BY AskingFacts, BackTyped
<1>7. /\ wf' \in OnboardingStates /\ ui' \in Models
      /\ opened' \in [jira : Nat, tempo : Nat] /\ broken' \in BOOLEAN
      /\ StageIsVouched' /\ ModelAgrees' /\ PagesOpenOnce' /\ PagesLoaded'
      /\ WizardNeverStuck' /\ DetailsGiven'
  <2>1. vouched' = vouched
    BY <1>1
  <2>2. Vouches(Back(wf), vouched'["ui"])
    BY <2>1, <1>5
  <2> QED
    BY <1>1, <1>2, <1>3, <1>5, <1>6, <2>2, AskingFacts, FollowKeeps
<1>8. /\ pc' \in [Writers -> Labels] /\ attempt' \in [Writers -> Drafts \cup {None}]
      /\ pc'["env"] = pc["env"] /\ attempt'["env"] = attempt["env"]
      /\ pc'["ui"] = "wizard"
  BY <1>1 DEF IInv, TypeOK, Writers, Labels
<1>9. TypeOK'
  BY <1>1, <1>7, <1>8 DEF IInv, TypeOK, storeVars, captureVars
<1>10. Wizard'
  BY <1>7, <1>8 DEF Wizard, WizardPhase
<1>11. Others'
  BY <1>1, <1>8, OthersKept
<1> QED
  BY <1>9, <1>10, <1>11 DEF IInv

LEMMA RejectsKeeps == IInv /\ Rejects => IInv'
<1> SUFFICES ASSUME IInv, Rejects PROVE IInv'
  OBVIOUS
<1>1. /\ pc["ui"] \in {"jira", "tempo"} /\ pc' = [pc EXCEPT !["ui"] = "wizard"]
      /\ attempt' = [attempt EXCEPT !["ui"] = None]
      /\ ui' = IF pc["ui"] = "jira" THEN JiraRejected(ui) ELSE TempoRejected(ui)
      /\ UNCHANGED <<storeVars, captureVars, vouched, wf, opened, broken>>
  BY DEF Rejects, Goto
<1>2. /\ ui' \in Models /\ ui'.shown = ui.shown /\ ui'.details = ui.details
      /\ ui'.jiraLoaded = ui.jiraLoaded /\ ui'.tempoLoaded = ui.tempoLoaded
  BY <1>1, AskingFacts, RejectedTyped
<1>3. Agrees(wf, ui')
  <2>1. CASE pc["ui"] = "jira"
    <3>1. wf.screen = "JiraToken" /\ wf.stage = "Jira"
      BY <2>1 DEF IInv, Wizard, WizardPhase, MayPrepareJira
    <3> QED
      BY <1>1, <2>1, <3>1, JiraRejectedAgrees
  <2>2. CASE pc["ui"] = "tempo"
    <3>1. wf.screen = "Tempo"
      BY <2>2 DEF IInv, Wizard, WizardPhase, MayPrepareTempo
    <3> QED
      BY <1>1, <2>2, <3>1, TempoRejectedAgrees
  <2> QED
    BY <1>1, <2>1, <2>2
<1>4. /\ pc' \in [Writers -> Labels] /\ attempt' \in [Writers -> Drafts \cup {None}]
      /\ pc'["env"] = pc["env"] /\ attempt'["env"] = attempt["env"]
      /\ pc'["ui"] = "wizard"
  BY <1>1 DEF IInv, TypeOK, Writers, Labels
<1>5. TypeOK'
  BY <1>1, <1>2, <1>4 DEF IInv, TypeOK, storeVars, captureVars
<1>6. ModelAgrees'
  BY <1>1, <1>2, <1>3, AskingFacts DEF ModelAgrees, Agrees
<1>7. StageIsVouched' /\ PagesOpenOnce' /\ WizardNeverStuck'
  BY <1>1 DEF IInv, Wizard, StageIsVouched, Vouches, Finished, PagesOpenOnce,
              WizardNeverStuck
<1>8. PagesLoaded' /\ DetailsGiven' /\ WizardPhase'
  BY <1>1, <1>2, <1>4, AskingFacts DEF PagesLoaded, DetailsGiven, WizardPhase
<1>9. Others'
  BY <1>1, <1>4, OthersKept
<1> QED
  BY <1>5, <1>6, <1>7, <1>8, <1>9 DEF IInv, Wizard

-----------------------------------------------------------------------------
(* The services' answers.                                                  *)

LEMMA JiraAcceptsWizard == IInv /\ JiraAccepts("ui") => IInv'
<1> SUFFICES ASSUME IInv, JiraAccepts("ui") PROVE IInv'
  OBVIOUS
<1> DEFINE draft == attempt["ui"]
<1>1. /\ pc["ui"] = "jira" /\ wf.stage = "Jira" /\ wf.screen = "JiraToken"
      /\ MayPrepareJira(wf) = TRUE
      /\ draft \in Drafts /\ draft.details = wf.details
  BY DEF JiraAccepts, IInv, Wizard, WizardPhase, MayPrepareJira
<1>2. PICK a \in Accounts :
        /\ vouched' = [vouched EXCEPT !["ui"] = [jira |-> JiraGrant(draft, a), tempo |-> None]]
        /\ Follow(MayPrepareJira(wf), AcceptJira(wf, draft, a),
                  [ui EXCEPT !.jiraStatus = "Connected", !.jira = None, !.retainJira = TRUE,
                             !.details = AcceptJira(wf, draft, a).details,
                             !.tempoLoaded = FALSE])
        /\ attempt' = [attempt EXCEPT !["ui"] = None]
        /\ pc' = [pc EXCEPT !["ui"] = "wizard"]
        /\ UNCHANGED <<storeVars, captureVars>>
  BY DEF JiraAccepts, Goto
<1> DEFINE w == AcceptJira(wf, draft, a)
           u == [ui EXCEPT !.jiraStatus = "Connected", !.jira = None, !.retainJira = TRUE,
                           !.details = w.details, !.tempoLoaded = FALSE]
<1>3. draft.jira \in JiraTokens /\ draft.details \in Details /\ draft # None
  BY <1>1, Values DEF Drafts
<1>4. /\ w \in OnboardingStates /\ w.stage = "Tempo" /\ w.screen = "Tempo"
      /\ w.creds = draft /\ w.account = a /\ w.jiraToken = draft.jira
      /\ w.tempoToken = wf.tempoToken /\ w.details = draft.details
      /\ w.jiraPresented = wf.jiraPresented /\ w.tempoPresented = wf.tempoPresented
  BY <1>1, <1>3, AskingFacts DEF AcceptJira, OnboardingStates, Stages, Screens
<1>5. /\ u \in Models /\ u.jiraStatus = "Connected" /\ u.jira = None
      /\ u.retainJira = TRUE /\ u.retainTempo = ui.retainTempo /\ u.details = w.details
      /\ u.tempoStatus = ui.tempoStatus /\ u.tempoLoaded = FALSE
      /\ u.jiraLoaded = ui.jiraLoaded
  BY <1>3, <1>4, AskingFacts DEF Models, Statuses
<1>6. Follow(MayPrepareJira(wf), w, u)
  BY <1>2
<1> HIDE DEF w, u
<1>7. JiraGrant(draft, a) \in JiraGrants
  BY <1>3 DEF JiraGrant, JiraGrants
<1>8. /\ vouched' \in [Writers -> [jira : JiraGrants \cup {None},
                                   tempo : TempoGrants \cup {None}]]
      /\ vouched'["ui"] = [jira |-> JiraGrant(draft, a), tempo |-> None]
      /\ vouched'["env"] = vouched["env"]
  BY <1>2, <1>7 DEF IInv, TypeOK, Writers
<1>9. Vouches(w, vouched'["ui"])
  BY <1>1, <1>4, <1>8 DEF Vouches
<1>10. Agrees(w, u)
  <2>1. ui.tempoStatus # "Connected"
    BY <1>1, AskingFacts DEF Agrees
  <2>2. u.retainTempo = (w.tempoToken # None) /\ u.retainJira = (w.jiraToken # None)
    BY <1>3, <1>4, <1>5, Values, AskingFacts DEF Agrees
  <2> QED
    BY <1>4, <1>5, <2>1, <2>2 DEF Agrees
<1>11. ~JiraPage(w, u) /\ (TempoPage(w, u) => MayPresentTempoPage(w))
  BY <1>3, <1>4 DEF JiraPage, MayPresentTempoPage
<1>12. u.jiraLoaded /\ u.details # None
  BY <1>1, <1>3, <1>4, <1>5, AskingFacts, Values
<1>13. /\ wf' \in OnboardingStates /\ ui' \in Models
       /\ opened' \in [jira : Nat, tempo : Nat] /\ broken' \in BOOLEAN
       /\ StageIsVouched' /\ ModelAgrees' /\ PagesOpenOnce' /\ PagesLoaded'
       /\ WizardNeverStuck' /\ DetailsGiven'
  BY <1>1, <1>4, <1>5, <1>6, <1>9, <1>10, <1>11, <1>12, FollowKeeps
<1>14. /\ pc' \in [Writers -> Labels] /\ attempt' \in [Writers -> Drafts \cup {None}]
       /\ pc'["env"] = pc["env"] /\ attempt'["env"] = attempt["env"]
       /\ pc'["ui"] = "wizard"
  BY <1>2 DEF IInv, TypeOK, Writers, Labels
<1>15. TypeOK'
  BY <1>2, <1>8, <1>13, <1>14 DEF IInv, TypeOK, storeVars, captureVars
<1>16. Wizard'
  BY <1>13, <1>14 DEF Wizard, WizardPhase
<1>17. Others'
  BY <1>1, <1>2, <1>8, <1>14, OthersKept
<1> QED
  BY <1>15, <1>16, <1>17 DEF IInv

LEMMA TempoAcceptsWizard == IInv /\ TempoAccepts("ui") => IInv'
<1> SUFFICES ASSUME IInv, TempoAccepts("ui") PROVE IInv'
  OBVIOUS
<1> DEFINE w == AcceptTempo(wf)
           u == [ui EXCEPT !.tempoStatus = "Connected", !.tempo = None, !.retainTempo = TRUE]
<1>1. /\ pc["ui"] = "tempo" /\ wf.stage = "Tempo" /\ wf.screen = "Tempo"
      /\ wf.creds # None /\ wf.account # None
      /\ attempt["ui"] = Finished(wf) /\ Finished(wf) \in Credentials
  BY DEF TempoAccepts, IInv, Wizard, WizardPhase, MayPrepareTempo
<1>2. /\ wf.creds \in Drafts /\ wf.account \in Accounts
      /\ vouched["ui"].jira = JiraGrant(wf.creds, wf.account)
      /\ ui.jiraStatus = "Connected" /\ ui.details = wf.creds.details /\ ui.jira = None
      /\ ui.jiraLoaded /\ ui.tempoLoaded /\ ui.details # None
  BY <1>1, AskingFacts DEF Agrees, Vouches
<1>3. wf.creds.tempo \in TempoTokens /\ wf.creds.tempo # None
  BY <1>1, <1>2, FinishedTyped, AskingFacts, Values DEF Credentials
<1>4. MayAcceptTempo(wf) = TRUE
  BY <1>1 DEF MayAcceptTempo
<1>5. /\ vouched' = [vouched EXCEPT !["ui"].tempo = TempoGrant(attempt["ui"])]
      /\ attempt' = [attempt EXCEPT !["ui"] = None]
      /\ pc' = [pc EXCEPT !["ui"] = "wizard"]
      /\ Follow(TRUE, w, u) /\ UNCHANGED <<storeVars, captureVars>>
  BY <1>4 DEF TempoAccepts, Goto
<1>6. /\ w \in OnboardingStates /\ w.stage = "Complete" /\ w.screen = "Save"
      /\ w.creds = wf.creds /\ w.account = wf.account
      /\ w.jiraToken = wf.jiraToken /\ w.tempoToken = wf.creds.tempo
      /\ w.jiraPresented = wf.jiraPresented /\ w.tempoPresented = wf.tempoPresented
  BY <1>1, <1>3, AskingFacts DEF AcceptTempo, OnboardingStates, Stages, Screens
<1>7. /\ u \in Models /\ u.tempoStatus = "Connected" /\ u.tempo = None
      /\ u.retainTempo = TRUE /\ u.retainJira = ui.retainJira /\ u.details = ui.details
      /\ u.jiraStatus = ui.jiraStatus /\ u.jira = ui.jira
      /\ u.jiraLoaded = ui.jiraLoaded /\ u.tempoLoaded = ui.tempoLoaded
  BY AskingFacts DEF Models, Statuses
<1> HIDE DEF w, u
<1>8. TempoGrant(attempt["ui"]) \in TempoGrants
  BY <1>1 DEF TempoGrant, TempoGrants, Credentials
<1>9. vouched["ui"] \in [jira : JiraGrants \cup {None}, tempo : TempoGrants \cup {None}]
  BY DEF IInv, TypeOK, Writers
<1>10. /\ vouched' \in [Writers -> [jira : JiraGrants \cup {None},
                                    tempo : TempoGrants \cup {None}]]
       /\ vouched'["ui"].jira = vouched["ui"].jira
       /\ vouched'["ui"].tempo = TempoGrant(Finished(wf))
       /\ vouched'["env"] = vouched["env"]
  BY <1>1, <1>5, <1>8, <1>9 DEF IInv, TypeOK, Writers
<1>11. Vouches(w, vouched'["ui"])
  BY <1>1, <1>2, <1>6, <1>10 DEF Vouches, Finished
<1>12. Agrees(w, u)
  BY <1>2, <1>3, <1>6, <1>7, AskingFacts DEF Agrees
<1>13. ~JiraPage(w, u) /\ ~TempoPage(w, u)
  BY <1>6 DEF JiraPage, TempoPage
<1>14. /\ wf' \in OnboardingStates /\ ui' \in Models
       /\ opened' \in [jira : Nat, tempo : Nat] /\ broken' \in BOOLEAN
       /\ StageIsVouched' /\ ModelAgrees' /\ PagesOpenOnce' /\ PagesLoaded'
       /\ WizardNeverStuck' /\ DetailsGiven'
  BY <1>2, <1>5, <1>6, <1>7, <1>11, <1>12, <1>13, FollowKeeps
<1>15. /\ pc' \in [Writers -> Labels] /\ attempt' \in [Writers -> Drafts \cup {None}]
       /\ pc'["env"] = pc["env"] /\ attempt'["env"] = attempt["env"]
       /\ pc'["ui"] = "wizard"
  BY <1>5 DEF IInv, TypeOK, Writers, Labels
<1>16. TypeOK'
  BY <1>5, <1>10, <1>14, <1>15 DEF IInv, TypeOK, storeVars, captureVars
<1>17. Wizard'
  BY <1>14, <1>15 DEF Wizard, WizardPhase
<1>18. Others'
  BY <1>1, <1>5, <1>10, <1>15, OthersKept
<1> QED
  BY <1>16, <1>17, <1>18 DEF IInv

(* The unattended setup, which the wizard does not notice.                 *)
LEMMA UnattendedKeeps ==
    ASSUME IInv, StartUnattended \/ JiraAccepts("env") \/ TempoAccepts("env")
    PROVE  IInv'
<1>1. /\ "env" \in Writers /\ "ui" \in Writers /\ "env" # "ui"
      /\ \A q \in Writers : q = "ui" \/ q = "env"
  BY DEF Writers
<1>2. /\ UNCHANGED <<storeVars, captureVars, wizardVars>>
      /\ pc["env"] \in {"idle", "jira", "tempo"}
      /\ \E l \in {"jira", "tempo", "load"} : pc' = [pc EXCEPT !["env"] = l]
  BY <1>1 DEF StartUnattended, JiraAccepts, TempoAccepts, Goto
<1>3. /\ attempt' \in [Writers -> Drafts \cup {None}] /\ attempt'["ui"] = attempt["ui"]
      /\ vouched' \in [Writers -> [jira : JiraGrants \cup {None},
                                   tempo : TempoGrants \cup {None}]]
      /\ vouched'["ui"] = vouched["ui"]
      /\ pc'["env"] = "jira" => attempt'["env"] \in Drafts /\ attempt'["env"].tempo # None
      /\ pc'["env"] \in {"tempo", "load"} =>
           /\ attempt'["env"] \in Credentials
           /\ vouched'["env"].jira = JiraGrant(attempt'["env"], attempt'["env"].account)
      /\ pc'["env"] = "load" => vouched'["env"].tempo = TempoGrant(attempt'["env"])
  <2>1. CASE StartUnattended
    <3>1. PICK c \in Drafts : /\ c.tempo # None
                              /\ attempt' = [attempt EXCEPT !["env"] = c]
                              /\ pc' = [pc EXCEPT !["env"] = "jira"] /\ vouched' = vouched
      BY <2>1 DEF StartUnattended, Goto
    <3> QED
      BY <1>1, <3>1 DEF IInv, TypeOK
  <2>2. CASE JiraAccepts("env")
    <3>1. PICK a \in Accounts :
            /\ vouched' = [vouched EXCEPT !["env"] = [jira |-> JiraGrant(attempt["env"], a),
                                                      tempo |-> None]]
            /\ attempt' = [attempt EXCEPT !["env"].account = a]
            /\ pc' = [pc EXCEPT !["env"] = "tempo"] /\ pc["env"] = "jira"
      BY <2>2, <1>1 DEF JiraAccepts, Goto
    <3>2. attempt["env"] \in Drafts /\ attempt["env"].tempo # None
      BY <3>1 DEF IInv, Others, UnattendedPhase
    <3>3. /\ [attempt["env"] EXCEPT !.account = a] \in Credentials
          /\ JiraGrant([attempt["env"] EXCEPT !.account = a], a) = JiraGrant(attempt["env"], a)
          /\ [attempt["env"] EXCEPT !.account = a].account = a
          /\ JiraGrant(attempt["env"], a) \in JiraGrants
      BY <3>2 DEF Drafts, Credentials, JiraGrant, JiraGrants
    <3>4. attempt'["env"] = [attempt["env"] EXCEPT !.account = a]
          /\ attempt'["ui"] = attempt["ui"] /\ attempt' \in [Writers -> Drafts \cup {None}]
      BY <1>1, <3>1, <3>3, CredentialsAreDrafts DEF IInv, TypeOK
    <3>5. /\ vouched'["env"] = [jira |-> JiraGrant(attempt["env"], a), tempo |-> None]
          /\ vouched'["ui"] = vouched["ui"]
          /\ vouched' \in [Writers -> [jira : JiraGrants \cup {None},
                                       tempo : TempoGrants \cup {None}]]
      BY <1>1, <3>1, <3>3 DEF IInv, TypeOK
    <3>6. pc'["env"] = "tempo"
      BY <1>1, <3>1 DEF IInv, TypeOK
    <3> QED
      BY <3>3, <3>4, <3>5, <3>6
  <2>3. CASE TempoAccepts("env")
    <3>1. /\ vouched' = [vouched EXCEPT !["env"].tempo = TempoGrant(attempt["env"])]
          /\ pc' = [pc EXCEPT !["env"] = "load"] /\ pc["env"] = "tempo" /\ attempt' = attempt
      BY <2>3, <1>1 DEF TempoAccepts, Goto
    <3>2. /\ attempt["env"] \in Credentials
          /\ vouched["env"].jira = JiraGrant(attempt["env"], attempt["env"].account)
      BY <3>1 DEF IInv, Others, UnattendedPhase
    <3>3. TempoGrant(attempt["env"]) \in TempoGrants
      BY <3>2 DEF TempoGrant, TempoGrants, Credentials
    <3>4. vouched["env"] \in [jira : JiraGrants \cup {None}, tempo : TempoGrants \cup {None}]
      BY <1>1 DEF IInv, TypeOK
    <3>5. /\ vouched'["env"].jira = vouched["env"].jira
          /\ vouched'["env"].tempo = TempoGrant(attempt["env"])
          /\ vouched'["ui"] = vouched["ui"]
          /\ vouched' \in [Writers -> [jira : JiraGrants \cup {None},
                                       tempo : TempoGrants \cup {None}]]
      BY <1>1, <3>1, <3>3, <3>4 DEF IInv, TypeOK
    <3>6. pc'["env"] = "load"
      BY <1>1, <3>1 DEF IInv, TypeOK
    <3> QED
      BY <1>1, <3>1, <3>2, <3>5, <3>6 DEF IInv, TypeOK
  <2> QED
    BY <2>1, <2>2, <2>3
<1>4. /\ pc' \in [Writers -> Labels] /\ pc'["ui"] = pc["ui"]
      /\ pc'["env"] \in {"jira", "tempo", "load"}
  BY <1>1, <1>2 DEF IInv, TypeOK, Labels
<1>5. TypeOK'
  BY <1>2, <1>3, <1>4 DEF IInv, TypeOK, storeVars, captureVars, wizardVars
<1>6. Wizard'
  BY <1>2, <1>3, <1>4, WizardKept
<1>7. UnattendedPhase'
  BY <1>3, <1>4 DEF UnattendedPhase
<1>8. SavesAccepted'
  <2>1. ASSUME pc'["ui"] \in SavedLabels
        PROVE  attempt'["ui"] \in Credentials /\ AcceptedFor("ui", attempt["ui"])'
    BY <1>1, <1>3, <1>4, <2>1 DEF IInv, Others, SavesAccepted, AcceptedFor
  <2>2. ASSUME pc'["env"] \in SavedLabels
        PROVE  attempt'["env"] \in Credentials /\ AcceptedFor("env", attempt["env"])'
    <3>1. pc'["env"] = "load"
      BY <1>4, <2>2 DEF SavedLabels, SaveLabels
    <3> QED
      BY <1>3, <3>1 DEF AcceptedFor
  <2> QED
    BY <1>1, <2>1, <2>2 DEF SavesAccepted, AcceptedFor
<1>9. SavesApart'
  BY <1>1, <1>2, <1>3, <1>4 DEF IInv, Others, SavesApart, storeVars
<1>10. HookPhase' /\ HooksHaveDestination'
  BY <1>1, <1>2, <1>4 DEF IInv, Others, HookPhase, HooksHaveDestination, captureVars
<1> QED
  BY <1>5, <1>6, <1>7, <1>8, <1>9, <1>10 DEF IInv, Others

-----------------------------------------------------------------------------
(* Saving and the capture.                                                 *)

(* A command that saves, or asks for the capture, moves on.                *)
LEMMA MovesOn ==
    ASSUME IInv, NEW p \in Writers, NEW l \in SavedLabels, Goto(p, l),
           pc[p] \in SavedLabels, UNCHANGED <<attempt, vouched, wizardVars>>
    PROVE  /\ Wizard' /\ UnattendedPhase' /\ SavesAccepted'
           /\ pc' \in [Writers -> Labels] /\ pc'[p] = l
           /\ \A q \in Writers \ {p} : pc'[q] = pc[q]
<1>1. /\ pc' \in [Writers -> Labels] /\ pc'[p] = l
      /\ \A q \in Writers \ {p} : pc'[q] = pc[q]
  BY DEF Goto, IInv, TypeOK, SavedLabels, SaveLabels, Labels
<1>2. Wizard'
  BY <1>1, WizardKept DEF Writers
<1>3. UnattendedPhase'
  BY <1>1 DEF IInv, Others, UnattendedPhase, Writers, SavedLabels, SaveLabels
<1>4. SavesAccepted'
  BY <1>1 DEF IInv, Others, SavesAccepted, AcceptedFor
<1> QED
  BY <1>1, <1>2, <1>3, <1>4

LEMMA LoadKeeps ==
    ASSUME IInv, NEW p \in Writers, LoadAgain(p)
    PROVE  IInv'
<1>1. /\ pc[p] = "load" /\ Goto(p, "open")
      /\ UNCHANGED <<storeVars, captureVars, attempt, vouched, wizardVars>>
  BY DEF LoadAgain
<1>2. /\ Wizard' /\ UnattendedPhase' /\ SavesAccepted' /\ pc' \in [Writers -> Labels]
      /\ pc'[p] = "open" /\ \A q \in Writers \ {p} : pc'[q] = pc[q]
  BY <1>1, MovesOn DEF SavedLabels, SaveLabels
<1>3. TypeOK'
  BY <1>1, <1>2 DEF IInv, TypeOK, storeVars, captureVars, wizardVars
<1>4. SavesApart' /\ HookPhase' /\ HooksHaveDestination'
  BY <1>1, <1>2 DEF IInv, Others, SavesApart, HookPhase, HooksHaveDestination, storeVars,
                    captureVars
<1> QED
  BY <1>2, <1>3, <1>4 DEF IInv, Others

LEMMA OpenKeeps ==
    ASSUME IInv, NEW p \in Writers, OpenTmp(p)
    PROVE  IInv'
<1>1. /\ pc[p] = "open" /\ Goto(p, "write") /\ tmp' = Empty
      /\ handle' = [handle EXCEPT ![p] = "tmp"]
      /\ overlapped' = (overlapped \/ \E q \in Writers : pc[q] \in {"write", "rename"})
      /\ UNCHANGED <<file, captureVars, attempt, vouched, wizardVars>>
  BY DEF OpenTmp
<1>2. /\ Wizard' /\ UnattendedPhase' /\ SavesAccepted' /\ pc' \in [Writers -> Labels]
      /\ pc'[p] = "write" /\ \A q \in Writers \ {p} : pc'[q] = pc[q]
  BY <1>1, MovesOn DEF SavedLabels, SaveLabels
<1>3. handle' \in [Writers -> HandleStates] /\ handle'[p] = "tmp"
  BY <1>1 DEF IInv, TypeOK, HandleStates
<1>4. TypeOK'
  BY <1>1, <1>2, <1>3 DEF IInv, TypeOK, Contents, captureVars, wizardVars
<1>5. SavesApart'
  BY <1>1, <1>2, <1>3 DEF SavesApart
<1>6. HookPhase' /\ HooksHaveDestination'
  BY <1>1, <1>2 DEF IInv, Others, HookPhase, HooksHaveDestination, captureVars
<1> QED
  BY <1>2, <1>4, <1>5, <1>6 DEF IInv, Others

(* A write that is not overlapped lands whole in its own file.             *)
LEMMA WriteKeeps ==
    ASSUME IInv, NEW p \in Writers, WriteTmp(p)
    PROVE  /\ IInv'
           /\ ~overlapped => file' = file
<1> DEFINE text == [old \in Contents |-> WrittenOver(old, attempt[p])]
<1>1. /\ pc[p] = "write" /\ Goto(p, "rename")
      /\ tmp' \in (IF handle[p] = "tmp" THEN text[tmp] ELSE {tmp})
      /\ file' \in (IF handle[p] = "live" THEN text[file] ELSE {file})
      /\ UNCHANGED <<handle, overlapped, captureVars, attempt, vouched, wizardVars>>
  BY DEF WriteTmp, WriteTo
<1>2. /\ Wizard' /\ UnattendedPhase' /\ SavesAccepted' /\ pc' \in [Writers -> Labels]
      /\ pc'[p] = "rename" /\ \A q \in Writers \ {p} : pc'[q] = pc[q]
  BY <1>1, MovesOn DEF SavedLabels, SaveLabels
<1>3. attempt[p] \in Credentials /\ tmp \in Contents /\ file \in Contents
  BY <1>1 DEF IInv, TypeOK, Others, SavesAccepted, SavedLabels, SaveLabels
<1>4. /\ text[tmp] = WrittenOver(tmp, attempt[p]) /\ text[file] = WrittenOver(file, attempt[p])
      /\ \A old \in Contents : WrittenOver(old, attempt[p]) \subseteq Contents
      /\ WrittenOver(Empty, attempt[p]) = {attempt[p]}
  BY <1>3 DEF WrittenOver, Contents
<1> HIDE DEF text
<1>5. TypeOK'
  <2>1. tmp' \in Contents /\ file' \in Contents
    BY <1>1, <1>3, <1>4
  <2> QED
    BY <1>1, <1>2, <2>1 DEF IInv, TypeOK, captureVars, wizardVars
<1>6. ~overlapped => tmp' = attempt[p] /\ file' = file /\ handle[p] = "tmp"
  BY <1>1, <1>4 DEF IInv, Others, SavesApart
<1>7. SavesApart'
  BY <1>1, <1>2, <1>6 DEF IInv, Others, SavesApart
<1>8. HookPhase' /\ HooksHaveDestination'
  BY <1>1, <1>2 DEF IInv, Others, HookPhase, HooksHaveDestination, captureVars
<1> QED
  BY <1>2, <1>5, <1>6, <1>7, <1>8 DEF IInv, Others

LEMMA RenameKeeps ==
    ASSUME IInv, NEW p \in Writers, Rename(p)
    PROVE  /\ IInv'
           /\ ~overlapped => file' = attempt[p] /\ AcceptedFor(p, attempt[p])
<1>1. /\ pc[p] = "rename" /\ Goto(p, "offer") /\ tmp # None /\ file' = tmp /\ tmp' = None
      /\ handle' = [q \in Writers |-> IF q = p THEN "none" ELSE Renamed(q)]
      /\ UNCHANGED <<overlapped, captureVars, attempt, vouched, wizardVars>>
  BY DEF Rename
<1>2. /\ Wizard' /\ UnattendedPhase' /\ SavesAccepted' /\ pc' \in [Writers -> Labels]
      /\ pc'[p] = "offer" /\ \A q \in Writers \ {p} : pc'[q] = pc[q]
  BY <1>1, MovesOn DEF SavedLabels, SaveLabels
<1>3. handle' \in [Writers -> HandleStates]
  BY <1>1 DEF IInv, TypeOK, HandleStates, Renamed
<1>4. TypeOK'
  BY <1>1, <1>2, <1>3 DEF IInv, TypeOK, Contents, captureVars, wizardVars
<1>5. SavesApart'
  BY <1>1, <1>2 DEF IInv, Others, SavesApart
<1>6. HookPhase' /\ HooksHaveDestination'
  BY <1>1, <1>2 DEF IInv, Others, HookPhase, HooksHaveDestination, captureVars
<1>7. ~overlapped => file' = attempt[p] /\ AcceptedFor(p, attempt[p])
  BY <1>1 DEF IInv, Others, SavesApart, SavesAccepted, SavedLabels, SaveLabels
<1> QED
  BY <1>2, <1>4, <1>5, <1>6, <1>7 DEF IInv, Others

LEMMA CaptureKeeps ==
    ASSUME IInv, NEW p \in Writers, Configure(p) \/ CreateStateDir(p)
    PROVE  IInv'
<1>1. PICK l \in {"mkdir", "hook"} :
        /\ pc[p] \in {"offer", "mkdir"} /\ Goto(p, l)
        /\ stateDir' = stateDir \/ stateDir' = TRUE
        /\ l = "hook" => stateDir' = TRUE
        /\ UNCHANGED <<storeVars, hooks, attempt, vouched, wizardVars>>
  BY DEF Configure, CreateStateDir, captureVars
<1>2. /\ Wizard' /\ UnattendedPhase' /\ SavesAccepted' /\ pc' \in [Writers -> Labels]
      /\ pc'[p] = l /\ \A q \in Writers \ {p} : pc'[q] = pc[q]
  BY <1>1, MovesOn DEF SavedLabels, SaveLabels
<1>3. TypeOK'
  BY <1>1, <1>2 DEF IInv, TypeOK, storeVars, wizardVars
<1>4. SavesApart'
  BY <1>1, <1>2 DEF IInv, Others, SavesApart, storeVars
<1>5. HookPhase' /\ HooksHaveDestination'
  BY <1>1, <1>2 DEF IInv, TypeOK, Others, HookPhase, HooksHaveDestination
<1> QED
  BY <1>2, <1>3, <1>4, <1>5 DEF IInv, Others

LEMMA SaveEndsKeeps ==
    ASSUME IInv, NEW p \in Writers, SaveEnds(p)
    PROVE  /\ IInv'
           /\ ~overlapped => file' = file
<1>1. /\ Over(p) /\ UNCHANGED <<overlapped, captureVars>>
      /\ pc[p] \in SaveLabels
      /\ file' \in (IF pc[p] = "write" /\ handle[p] = "live" THEN {file, Torn} ELSE {file})
      /\ tmp' \in {None, tmp, Torn}
      /\ HeldByOther(p) => tmp' = tmp \/ pc[p] = "write"
  BY DEF SaveEnds
<1>2. file \in Contents /\ tmp \in Contents /\ Torn \in Contents /\ None \in Contents
  BY DEF IInv, TypeOK, Contents
<1>3. ~overlapped => /\ file' = file
                     /\ \A q \in Writers \ {p} : pc[q] \in {"write", "rename"} => tmp' = tmp
  BY <1>1 DEF IInv, Others, SavesApart, HeldByOther
<1>4. hooks' \in BOOLEAN /\ stateDir' = stateDir /\ (hooks' => stateDir)
  BY <1>1 DEF IInv, TypeOK, Others, HooksHaveDestination, captureVars
<1>5. file' \in Contents /\ tmp' \in Contents
  BY <1>1, <1>2
<1> QED
  BY <1>1, <1>3, <1>4, <1>5, OverKeeps

(* Every other way a command ends.                                         *)
LEMMA EndsKeep ==
    ASSUME IInv,
           \/ Cancel \/ DryRunEnds
           \/ \E p \in Writers : ServiceFails(p) \/ NoCapture(p) \/ WriteHooks(p)
    PROVE  IInv' /\ file' = file
<1>1. PICK p \in Writers :
        /\ Over(p) /\ UNCHANGED <<file, tmp, overlapped, stateDir>>
        /\ hooks' = hooks \/ (hooks' = TRUE /\ pc[p] = "hook")
  BY DEF Cancel, DryRunEnds, ServiceFails, NoCapture, WriteHooks, Writers, captureVars
<1>2. file \in Contents /\ tmp \in Contents /\ hooks \in BOOLEAN
  BY DEF IInv, TypeOK
<1>3. hooks' \in BOOLEAN /\ (hooks' => stateDir)
  <2>1. CASE hooks' = hooks
    BY <1>2, <2>1 DEF IInv, Others, HooksHaveDestination
  <2>2. CASE hooks' = TRUE /\ pc[p] = "hook"
    BY <2>2 DEF IInv, Others, HookPhase
  <2> QED
    BY <1>1, <2>1, <2>2
<1> QED
  BY <1>1, <1>2, <1>3, OverKeeps

-----------------------------------------------------------------------------
LEMMA FileStays ==
    ASSUME IInv, \/ StartWizard \/ Keys \/ Rejects \/ StartUnattended
                 \/ \E p \in Writers : \/ JiraAccepts(p) \/ TempoAccepts(p) \/ LoadAgain(p)
                                       \/ OpenTmp(p) \/ Configure(p) \/ CreateStateDir(p)
    PROVE  file' = file
<1>1. CASE StartWizard \/ Rejects \/ StartUnattended
  BY <1>1 DEF StartWizard, Rejects, StartUnattended, storeVars
<1>2. CASE Keys
  <2>1. Cancel => file' = file
    BY EndsKeep
  <2>2. CASE TypeDetails \/ TypeJiraToken \/ TypeTempoToken
    BY <2>2 DEF TypeDetails, TypeJiraToken, TypeTempoToken, Type, storeVars
  <2>3. CASE \/ PressContinue \/ PressBack \/ PressEditJira \/ PressEditTempo
             \/ PassConnectedJira \/ PassConnectedTempo
    BY <2>3 DEF PressContinue, PressBack, PressEditJira, PressEditTempo, PassConnectedJira,
                PassConnectedTempo, Navigate, storeVars
  <2>4. CASE PressSave \/ ConnectJira \/ ConnectTempo \/ AbandonTempo
    BY <2>4 DEF PressSave, ConnectJira, ConnectTempo, AbandonTempo, storeVars
  <2> QED
    BY <1>2, <2>1, <2>2, <2>3, <2>4 DEF Keys
<1>3. ASSUME NEW p \in Writers, JiraAccepts(p) \/ TempoAccepts(p) \/ LoadAgain(p)
      PROVE  file' = file
  BY <1>3 DEF JiraAccepts, TempoAccepts, LoadAgain, storeVars
<1>4. ASSUME NEW p \in Writers, OpenTmp(p) \/ Configure(p) \/ CreateStateDir(p)
      PROVE  file' = file
  BY <1>4 DEF OpenTmp, Configure, CreateStateDir, storeVars
<1> QED
  BY <1>1, <1>2, <1>3, <1>4

(* Every step keeps the invariant, and the file changes only as the        *)
(* property says.                                                          *)
THEOREM NextKeeps ==
    IInv /\ [Next]_vars =>
      /\ IInv'
      /\ (file' # file /\ ~overlapped =>
            \E p \in Writers : pc[p] = "rename" /\ file' = attempt[p] /\ AcceptedFor(p, file'))
<1> SUFFICES ASSUME IInv, [Next]_vars
             PROVE  /\ IInv'
                    /\ (file' # file /\ ~overlapped =>
                          \E p \in Writers : /\ pc[p] = "rename" /\ file' = attempt[p]
                                             /\ AcceptedFor(p, file'))
  OBVIOUS
<1>1. CASE StartWizard \/ Rejects
  BY <1>1, StartWizardKeeps, RejectsKeeps, FileStays
<1>2. CASE Keys
  <2>1. IInv'
    BY <1>2, TypingKeeps, ContinueKeeps, BackKeeps, EditKeeps, SaveKeeps, EndsKeep, PassKeeps,
       ConnectJiraKeeps, ConnectTempoKeeps, AbandonKeeps DEF Keys
  <2> QED
    BY <1>2, <2>1, FileStays
<1>3. CASE StartUnattended \/ DryRunEnds
  BY <1>3, UnattendedKeeps, EndsKeep, FileStays
<1>4. ASSUME NEW p \in Writers, Setup(p)
      PROVE  /\ IInv'
             /\ (file' # file /\ ~overlapped =>
                    pc[p] = "rename" /\ file' = attempt[p] /\ AcceptedFor(p, file'))
  <2>1. CASE JiraAccepts(p) \/ TempoAccepts(p)
    <3>1. IInv'
      BY <2>1, UnattendedKeeps, JiraAcceptsWizard, TempoAcceptsWizard DEF Writers
    <3> QED
      BY <2>1, <3>1, FileStays
  <2>2. CASE ServiceFails(p) \/ NoCapture(p) \/ WriteHooks(p)
    BY <2>2, EndsKeep
  <2>3. CASE LoadAgain(p) \/ OpenTmp(p) \/ Configure(p) \/ CreateStateDir(p)
    <3>1. IInv'
      BY <2>3, LoadKeeps, OpenKeeps, CaptureKeeps
    <3> QED
      BY <2>3, <3>1, FileStays
  <2>4. CASE WriteTmp(p) \/ SaveEnds(p)
    BY <2>4, WriteKeeps, SaveEndsKeeps
  <2>5. CASE Rename(p)
    <3>1. pc[p] = "rename"
      BY <2>5 DEF Rename
    <3> QED
      BY <2>5, <3>1, RenameKeeps
  <2> QED
    BY <1>4, <2>1, <2>2, <2>3, <2>4, <2>5 DEF Setup
<1>5. CASE UNCHANGED vars
  <2>1. TypeOK'
    BY <1>5 DEF vars, IInv, TypeOK
  <2>2. Wizard'
    BY <1>5, WizardKept DEF vars, wizardVars
  <2>3. Others'
    BY <1>5 DEF vars, IInv, Others, UnattendedPhase, SavesAccepted, SavesApart, AcceptedFor,
                HookPhase, HooksHaveDestination
  <2> QED
    BY <1>5, <2>1, <2>2, <2>3 DEF vars, IInv
<1> QED
  BY <1>1, <1>2, <1>3, <1>4, <1>5 DEF Next

THEOREM Invariance == Spec => []IInv
<1>1. Init => IInv
  BY InitIInv
<1>2. IInv /\ [Next]_vars => IInv'
  BY NextKeeps
<1> QED
  BY <1>1, <1>2, PTL DEF Spec

(* The wizard's model and workflow agree, no page opens twice, and captures *)
(* have a place to go.                                                     *)
THEOREM InvHolds == Spec => []Inv
<1>1. IInv => Inv
  BY DEF IInv, Wizard, Others, Inv
<1> QED
  BY <1>1, Invariance, PTL

(* No keys, answers and edits lead to a step the workflow does not allow.  *)
THEOREM WizardNeverStuckHolds == Spec => []WizardNeverStuck
<1>1. IInv => WizardNeverStuck
  BY DEF IInv, Wizard
<1> QED
  BY <1>1, Invariance, PTL

(* Nothing is saved until both connections succeed.                        *)
THEOREM OnlyVouchedIsStoredHolds == Spec => OnlyVouchedIsStored
<1>1. IInv /\ [Next]_vars =>
        [file' # file /\ ~overlapped =>
           \E p \in Writers : /\ pc[p] = "rename"
                              /\ file' = attempt[p]
                              /\ AcceptedFor(p, file')]_vars
  BY NextKeeps
<1> QED
  BY <1>1, Invariance, PTL DEF Spec, OnlyVouchedIsStored
=============================================================================
