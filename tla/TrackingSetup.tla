---------------------------- MODULE TrackingSetup ----------------------------
(***************************************************************************)
(* What the user chooses for automatic tracking and what becomes of it:    *)
(* the questions of `drag tracking setup`                                  *)
(* (drag-cli/src/generalized_tracking_setup_tui.rs), the delegation to     *)
(* the companion (tracking.rs), and its commands setup, uninstall,         *)
(* `sources configure` and `schedule update` (public_tracking.rs), which   *)
(* hold the companion's state lock, one at a time. Sources come and go     *)
(* meanwhile, and a command may be broken off between any two writes.      *)
(***************************************************************************)
EXTENDS Naturals, Sequences, FiniteSets

CONSTANTS
    Repos,        \* Git repositories
    Calendars,    \* calendar files
    Plans,        \* what users mean to answer in a session
    Flags,        \* what they give to commands
    Times,        \* when a schedule runs: a time of the day and its zone
    NotATime,     \* what does not pass for one
    NotSet,
    MaxStarts,    \* bound: sessions and commands that are started
    MaxChanges    \* bound: sources that break or are repaired

VARIABLES
    session,      \* the questions and answers in a terminal
    companion,    \* whether drag-tracking is there and of the same contract
    config,       \* config.json
    command,      \* the companion's command under way
    timer,        \* the time in the unit files
    hook,         \* the companion's hooks in the settings of Claude Code
    healthy,      \* the sources that are there and complete
    starts, changes,
    chosen,       \* history: what the user said last of each choice
    apart         \* history: config and timer were set apart

effects == <<timer, hook>>
bounds == <<starts, changes>>
vars == <<session, companion, config, command, effects, healthy, bounds, chosen, apart>>

Idle == [at |-> "idle"]
Modes == {"draft", "review", "automatic"}

\* TrackingConfig::default, as load_tracking_config gives it without a file
Default ==
    [exists |-> FALSE, installed |-> FALSE, repos |-> {}, calendars |-> {}, claude |-> FALSE,
     at |-> CHOOSE t \in Times : TRUE, mode |-> "draft", authorized |-> FALSE,
     target |-> FALSE, hooks |-> FALSE]

\* Nothing is there, or a setup with every flag has been completed.
Init ==
    /\ session = NotSet
    /\ companion \in BOOLEAN
    /\ healthy = Repos \cup Calendars
    /\ \/ /\ config = Default
          /\ timer = NotSet /\ hook = FALSE
          /\ chosen = [repos |-> {}, calendars |-> {}, automatic |-> FALSE,
                       hooks |-> FALSE, scheduler |-> FALSE]
       \/ /\ config = [Default EXCEPT !.exists = TRUE, !.installed = TRUE, !.repos = Repos,
                           !.claude = TRUE, !.mode = "automatic", !.authorized = TRUE,
                           !.target = TRUE, !.hooks = TRUE]
          /\ timer = config.at /\ hook = TRUE
          /\ chosen = [repos |-> Repos, calendars |-> {}, automatic |-> TRUE,
                       hooks |-> TRUE, scheduler |-> TRUE]
    /\ command = Idle
    /\ starts = 0 /\ changes = 0
    /\ apart = FALSE

-----------------------------------------------------------------------------
(* Choices. A selection of sources is a list that replaces the one there   *)
(* is; an empty list replaces nothing, unless it was asked to clear. So    *)
(* parse_optional_paths reads paths, "none" and a lone comma.              *)

Elements(list) == {list[i] : i \in DOMAIN list}
Selection(list, clear) == [list |-> list, clear |-> clear]
Unselected == Selection(<<>>, FALSE)

\* Deviation: clearing is not looked at.
AddedOnly(selection, old) ==
    IF selection.list # <<>> THEN Elements(selection.list) ELSE old

\* update_repos and update_calendars, retain and extend
Updated(selection, old) ==
    IF selection.clear \/ selection.list # <<>> THEN Elements(selection.list) ELSE old

\* What the user wants of a kind, for `chosen`.
Said(selection, old) == IF selection = Unselected THEN old ELSE Elements(selection.list)

\* validate_source_configuration
Valid(selections, sources, claude) ==
    /\ \A s \in selections : Cardinality(Elements(s.list)) = Len(s.list)
    /\ sources \subseteq healthy
    /\ claude => hook

\* A command without a choice. A plan answers every question.
Unsaid ==
    [mode |-> NotSet, authorize |-> FALSE, scheduler |-> FALSE, hooks |-> FALSE,
     at |-> NotSet, repos |-> Unselected, calendars |-> Unselected]

Or(value, default) == IF value = NotSet THEN default ELSE value

-----------------------------------------------------------------------------
(* The companion's setup.                                                  *)

\* Automatic mode needs its own authorization, given now or with the mode before.
Agreed(args, mode) ==
    /\ args.authorize => mode = "automatic"
    /\ mode = "automatic" =>
          args.authorize \/ (config.mode = "automatic" /\ config.authorized)

\* The next of the steps that are asked for, after `at`.
After(at, args) ==
    IF at = "save" /\ args.scheduler THEN "scheduler"
    ELSE IF at \in {"save", "scheduler"} /\ args.hooks THEN "hooks"
    ELSE "finish"

\* setup_tracking up to its first save; everything is validated before it.
Setup(args) ==
    LET mode == Or(args.mode, config.mode)
        at == Or(args.at, config.at)
        repos == Updated(args.repos, config.repos)
        calendars == Updated(args.calendars, config.calendars)
    IN  IF at \in Times /\ Agreed(args, mode)
           /\ Valid({args.repos, args.calendars}, repos \cup calendars, config.claude)
        THEN /\ config' = [config EXCEPT
                    !.exists = TRUE, !.installed = FALSE,
                    !.repos = repos, !.calendars = calendars, !.at = at, !.mode = mode,
                    !.authorized = mode = "automatic" /\ (args.authorize \/ @),
                    !.target = @ \/ args.scheduler]
             /\ command' = [at |-> After("save", args), args |-> args]
             /\ chosen' = [repos |-> Said(args.repos, chosen.repos),
                           calendars |-> Said(args.calendars, chosen.calendars),
                           automatic |-> mode = "automatic"
                                            /\ (args.authorize \/ chosen.automatic),
                           hooks |-> args.hooks \/ chosen.hooks,
                           scheduler |-> args.scheduler \/ chosen.scheduler]
             /\ apart' = (apart \/ (~args.scheduler /\ at # config.at))
        ELSE UNCHANGED <<config, command, chosen, apart>>

\* tracking.rs, run: the contract is verified before anything is passed on, and
\* the companion refuses while another command holds its state lock.
Delegate(args) ==
    IF companion /\ command = Idle THEN Setup(args)
    ELSE UNCHANGED <<config, command, chosen, apart>>

InstallScheduler ==
    /\ command.at = "scheduler"
    /\ timer' = config.at
    /\ command' = [command EXCEPT !.at = After("scheduler", command.args)]
    /\ apart' = FALSE
    /\ UNCHANGED <<session, companion, config, hook, healthy, bounds, chosen>>

InstallHooks ==
    /\ command.at = "hooks"
    /\ hook' = TRUE
    /\ command' = [command EXCEPT !.at = "own"]
    /\ UNCHANGED <<session, companion, config, timer, healthy, bounds, chosen, apart>>

OwnHooks ==
    /\ command.at = "own"
    /\ config' = [config EXCEPT !.hooks = TRUE]
    /\ command' = [command EXCEPT !.at = "finish"]
    /\ UNCHANGED <<session, companion, effects, healthy, bounds, chosen, apart>>

\* The hooks become a source; everything is validated again.
FinishSetup ==
    /\ command.at = "finish"
    /\ config' = IF Valid({}, config.repos \cup config.calendars, config.hooks \/ config.claude)
                 THEN [config EXCEPT !.installed = TRUE, !.claude = @ \/ config.hooks]
                 ELSE config
    /\ command' = Idle
    /\ UNCHANGED <<session, companion, effects, healthy, bounds, chosen, apart>>

-----------------------------------------------------------------------------
(* The session in the terminal.                                            *)

Start == starts < MaxStarts /\ starts' = starts + 1

\* implicit_interactive_setup: no flag, in a terminal, and "yes" to the first question
StartSession ==
    /\ session = NotSet
    /\ Start
    /\ \E plan \in Plans : session' = [at |-> "repos", plan |-> plan]
    /\ UNCHANGED <<companion, config, command, effects, healthy, changes, chosen, apart>>

\* Declined or cancelled at any question, or the host has no place for a scheduler.
Leave ==
    /\ session # NotSet
    /\ session' = NotSet
    /\ UNCHANGED <<companion, config, command, effects, healthy, bounds, chosen, apart>>

Ask(question) == session # NotSet /\ session.at = question

GoOn(next) ==
    /\ session' = next
    /\ UNCHANGED <<companion, config, command, effects, healthy, bounds, chosen, apart>>

AnswerRepos == Ask("repos") /\ GoOn([session EXCEPT !.at = "calendars"])

\* test_local_sources: a source that is not there ends the session.
AnswerCalendars ==
    /\ Ask("calendars")
    /\ GoOn(IF Elements(session.plan.repos.list) \cup Elements(session.plan.calendars.list)
                  \subseteq healthy
            THEN [session EXCEPT !.at = "hooks"] ELSE NotSet)

\* Hooks, time and zone, scheduler and its directory: three choices of their own.
AnswerRest == Ask("hooks") /\ GoOn([session EXCEPT !.at = "mode"])

\* The plan is handed over, with the authorization if that was the last question.
Conclude ==
    /\ session' = NotSet
    /\ Delegate([session.plan EXCEPT !.authorize = session.at = "authorize"])
    /\ UNCHANGED <<companion, effects, healthy, bounds>>

AnswerMode ==
    /\ Ask("mode")
    /\ IF session.plan.mode = "automatic" THEN GoOn([session EXCEPT !.at = "authorize"])
       ELSE Conclude

\* Automatic mode has a question of its own; answered with no, another mode is
\* asked for.
AnswerAuthorize ==
    /\ Ask("authorize")
    /\ IF session.plan.authorize THEN Conclude
       ELSE \E mode \in Modes \ {"automatic"} :
               GoOn([at |-> "mode", plan |-> [session.plan EXCEPT !.mode = mode]])

-----------------------------------------------------------------------------
(* Commands given with flags, in another terminal or unattended.           *)

SetupCommand(args) ==
    /\ Start
    /\ Delegate(args)
    /\ UNCHANGED <<session, companion, effects, healthy, changes>>

\* require_config, for the commands that need an installed tracking
Ready == companion /\ command = Idle /\ config.installed

\* update_schedule: the unit files first, the configuration after them
UpdateSchedule(at) ==
    /\ Start /\ Ready /\ at \in Times
    /\ timer' = IF config.target THEN at ELSE timer
    /\ command' = [at |-> "update", when |-> at]
    /\ UNCHANGED <<session, companion, config, hook, healthy, changes, chosen, apart>>

SaveSchedule ==
    /\ command.at = "update"
    /\ config' = [config EXCEPT !.at = command.when]
    /\ command' = Idle
    /\ apart' = (apart /\ ~config.target)
    /\ UNCHANGED <<session, companion, effects, healthy, bounds, chosen>>

\* configure_sources: only what is selected now is validated.
ConfigureSources(repos, calendars, claude) ==
    /\ Start /\ Ready
    /\ <<repos, calendars, claude>> # <<Unselected, Unselected, NotSet>>
    /\ Valid({repos, calendars}, Elements(repos.list) \cup Elements(calendars.list),
             claude = TRUE)
    /\ config' = [config EXCEPT !.repos = Updated(repos, @),
                                !.calendars = Updated(calendars, @),
                                !.claude = Or(claude, @)]
    /\ chosen' = [chosen EXCEPT !.repos = Said(repos, @), !.calendars = Said(calendars, @)]
    /\ UNCHANGED <<session, companion, command, effects, healthy, changes, apart>>

Uninstall ==
    /\ Start /\ companion /\ command = Idle /\ config.exists
    /\ timer' = IF config.target THEN NotSet ELSE timer
    /\ command' = [at |-> "unhook"]
    /\ UNCHANGED <<session, companion, config, hook, healthy, changes, chosen, apart>>

RemoveHooks ==
    /\ command.at = "unhook"
    /\ hook' = (hook /\ ~config.hooks)
    /\ command' = [at |-> "drop"]
    /\ UNCHANGED <<session, companion, config, timer, healthy, bounds, chosen, apart>>

\* Deviation: the authorization outlives the uninstallation.
DroppedLightly(c) ==
    [c EXCEPT !.installed = FALSE, !.hooks = FALSE, !.target = FALSE]

\* What is kept: the sources and the schedule.
Dropped(c) ==
    [c EXCEPT !.installed = FALSE, !.hooks = FALSE, !.target = FALSE,
              !.mode = "draft", !.authorized = FALSE]

DropConfiguration ==
    /\ command.at = "drop"
    /\ config' = Dropped(config)
    /\ command' = Idle
    /\ chosen' = [chosen EXCEPT !.automatic = FALSE]
    /\ UNCHANGED <<session, companion, effects, healthy, bounds, apart>>

-----------------------------------------------------------------------------
\* A step fails, or the companion is killed.
BreakOff ==
    /\ command # Idle
    /\ command' = Idle
    /\ apart' = TRUE
    /\ UNCHANGED <<session, companion, config, effects, healthy, bounds, chosen>>

\* drag and drag-tracking are installed together again.
Reinstall ==
    /\ ~companion
    /\ companion' = TRUE
    /\ UNCHANGED <<session, config, command, effects, healthy, bounds, chosen, apart>>

\* A repository or a calendar goes away, or comes back.
Change(x) ==
    /\ changes < MaxChanges
    /\ changes' = changes + 1
    /\ healthy' = IF x \in healthy THEN healthy \ {x} ELSE healthy \cup {x}
    /\ UNCHANGED <<session, companion, config, command, effects, starts, chosen, apart>>

Next ==
    \/ StartSession \/ Leave
    \/ AnswerRepos \/ AnswerCalendars \/ AnswerRest \/ AnswerMode \/ AnswerAuthorize
    \/ \E args \in Flags : SetupCommand(args)
    \/ InstallScheduler \/ InstallHooks \/ OwnHooks \/ FinishSetup
    \/ \E at \in Times : UpdateSchedule(at)
    \/ SaveSchedule
    \/ \E args \in Flags, claude \in BOOLEAN \cup {NotSet} :
          ConfigureSources(args.repos, args.calendars, claude)
    \/ Uninstall \/ RemoveHooks \/ DropConfiguration
    \/ BreakOff \/ Reinstall
    \/ \E x \in Repos \cup Calendars : Change(x)

Spec == Init /\ [][Next]_vars

-----------------------------------------------------------------------------
(* What the user has said of sources, submission, hooks and schedule, in a *)
(* session or by flags, is what the configuration has and what is          *)
(* installed, whatever is refused, broken off or done meanwhile elsewhere: *)
(* the sources of a kind are the ones last selected, automatic submission  *)
(* was authorized since the mode was last another one, no hook or timer is *)
(* there that was not asked for, and the timer fires when the              *)
(* configuration says, unless a setup without a scheduler or a command     *)
(* that broke off has set them apart.                                      *)
ChoicesKept ==
    /\ config.repos = chosen.repos /\ config.calendars = chosen.calendars
    /\ config.mode = "automatic" => config.authorized /\ chosen.automatic
    /\ hook => chosen.hooks
    /\ timer # NotSet => chosen.scheduler
    /\ config.installed /\ timer # NotSet /\ ~apart /\ command = Idle => timer = config.at
=============================================================================
