----------------------------- MODULE SetupState -----------------------------
(* drag::setup: the state machine of the setup wizard, without its I/O.     *)
(* Each operation is a function of the workflow; the condition under which   *)
(* the code does not answer OnboardingError::InvalidState is named May...    *)
(*                                                                           *)
(* A Jira site and an account's e-mail are typed and verified together and   *)
(* are one value here, a member of Details.  None stands for what is absent  *)
(* (an Option's None, an empty text), Spaces for a token that is blank but    *)
(* not empty: trimming makes it empty, and nothing else of trimming matters. *)
CONSTANTS
    Details,       \* Jira sites with the e-mail of an account
    JiraTokens,
    TempoTokens,
    Accounts,      \* the account ids Jira answers
    None,
    Spaces

ASSUME NoneAssumption ==
    /\ None \notin Details \cup JiraTokens \cup TempoTokens \cup Accounts
    /\ Spaces \notin JiraTokens \cup TempoTokens \cup {None}

Stages == {"Jira", "Tempo", "Complete"}
Screens == {"JiraDetails", "JiraToken", "Tempo", "Save"}

\* SetupCredentials, with the account once it is known.
Drafts == [details : Details, jira : JiraTokens, account : Accounts \cup {None},
           tempo : TempoTokens \cup {None}]

\* Credentials and CompletedSetup.
Credentials == [details : Details, jira : JiraTokens, account : Accounts, tempo : TempoTokens]

OnboardingStates ==
    [stage : Stages, screen : Screens, details : Details \cup {None},
     jiraToken : JiraTokens \cup {None}, tempoToken : TempoTokens \cup {None},
     jiraPresented : BOOLEAN, tempoPresented : BOOLEAN,
     creds : Drafts \cup {None}, account : Accounts \cup {None}]

\* A workflow starts from what the configuration holds.
NewWorkflow(d, j, t) ==
    [stage |-> "Jira", screen |-> "JiraDetails", details |-> d, jiraToken |-> j,
     tempoToken |-> t, jiraPresented |-> FALSE, tempoPresented |-> FALSE,
     creds |-> None, account |-> None]

-----------------------------------------------------------------------------
(* Navigation. *)

MayContinueFromJiraDetails(w) == w.screen = "JiraDetails"
MayContinueWithVerifiedJira(w) == w.stage # "Jira" /\ w.screen = "JiraToken"
MayContinueWithVerifiedTempo(w) == w.stage = "Complete" /\ w.screen = "Tempo"
MayEditTempo(w) == w.stage = "Complete"

At(w, s) == [w EXCEPT !.screen = s]

\* Back from JiraDetails leaves the wizard.
Previous(s) == CASE s = "JiraToken" -> "JiraDetails"
                 [] s = "Tempo" -> "JiraToken"
                 [] s = "Save" -> "Tempo"
                 [] OTHER -> s
Back(w) == At(w, Previous(w.screen))

\* The page of a token is presented on its own screen and stage only.
MayPresentJiraPage(w) == w.stage = "Jira" /\ w.screen = "JiraToken"
MayPresentTempoPage(w) == w.stage = "Tempo" /\ w.screen = "Tempo" /\ w.creds # None

-----------------------------------------------------------------------------
(* Verification. *)

\* SecretInput::Retain is None, Replace is the text: no token results from a
\* blank text, nor from retaining what is not there.
Resolved(input, retained) == IF input = Spaces THEN None
                             ELSE IF input = None THEN retained ELSE input

InvalidateJira(w) ==
    [w EXCEPT !.stage = "Jira", !.screen = "JiraToken", !.creds = None, !.account = None]

MayInvalidateTempo(w) == w.stage # "Jira"
InvalidateTempo(w) ==
    [w EXCEPT !.stage = "Tempo", !.screen = "Tempo",
              !.creds = IF @ = None THEN None ELSE [@ EXCEPT !.tempo = None]]

\* The details typed become the defaults even when no token results.
MayPrepareJira(w) == w.stage = "Jira" /\ w.screen = "JiraToken"
PrepareJira(w, d) == [w EXCEPT !.details = d]
JiraDraft(d, token) == [details |-> d, jira |-> token, account |-> None, tempo |-> None]

AcceptJira(w, draft, a) ==
    [w EXCEPT !.jiraToken = draft.jira, !.creds = draft, !.account = a,
              !.stage = "Tempo", !.screen = "Tempo"]

\* The token is written into the credentials before Tempo is asked about it.
MayPrepareTempo(w) ==
    w.stage = "Tempo" /\ w.screen = "Tempo" /\ w.creds # None /\ w.account # None
PrepareTempo(w, token) == [w EXCEPT !.creds = [@ EXCEPT !.tempo = token]]

MayAcceptTempo(w) == w.stage = "Tempo" /\ w.screen = "Tempo" /\ w.creds # None
AcceptTempo(w) ==
    [w EXCEPT !.tempoToken = w.creds.tempo, !.stage = "Complete", !.screen = "Save"]

MayFinish(w) ==
    w.stage = "Complete" /\ w.screen = "Save" /\ w.creds # None /\ w.account # None
Finished(w) == [w.creds EXCEPT !.account = w.account]
=============================================================================
