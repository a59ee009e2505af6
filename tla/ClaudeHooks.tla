----------------------------- MODULE ClaudeHooks -----------------------------
(***************************************************************************)
(* The hooks that `drag` (drag-cli/src/claude_tracking.rs) and the         *)
(* companion (collectors.rs, public_tracking.rs) put into the settings of  *)
(* Claude Code, beside those of the user, and the session events that the  *)
(* hook of `drag` records.                                                 *)
(*                                                                         *)
(* Each program reads the settings and later renames a new file over them; *)
(* no lock is shared between the programs, nor with the user's editor.     *)
(* Lists of hooks are kept as they are: a sequence of entries, each a      *)
(* sequence of commands, in which one that was taken away leaves a gap.    *)
(***************************************************************************)
EXTENDS Naturals, Sequences, FiniteSets

CONSTANTS
    Events,       \* SessionStart and SessionEnd
    Initial,      \* the settings that are there before, and no file
    Pids,         \* process ids of capturing processes, used again and again
    Times,        \* when a session event is observed
    NotSet,
    MaxEdits,     \* bound: edits of the settings by the user
    MaxStarts     \* bound: commands and captures that are started

VARIABLES
    settings,     \* ~/.claude/settings.json
    quoted,       \* the path of the companion's data directory has a single quote
    config,       \* config.json: what concerns hooks
    command,      \* the command of each program that edits the settings
    capture,      \* the capturing process of each pid
    events,       \* events.json
    temporaries,  \* the temporary files of captures, named after their pid
    edits, starts,
    mine,         \* history: how many commands of the user each list has
    reported,     \* history: the event a capture has first reported as captured
    overlapped,   \* history: an edit has overwritten another
    byHand        \* history: an interruption, or `internal claude-hook`

bounds == <<edits, starts>>
store == <<capture, events, temporaries, reported>>
history == <<mine, overlapped, byHand>>
vars == <<settings, quoted, config, command, store, bounds, history>>

Idle == [at |-> "idle"]
NoHooks == [e \in Events |-> <<>>]

\* A missing file counts as one without hooks.
Read == IF settings = NotSet THEN NoHooks ELSE settings

\* Where in a list a command is, and how often.
Places(list, c) ==
    {p \in UNION {{i} \X DOMAIN list[i] : i \in DOMAIN list} : list[p[1]][p[2]] = c}
Count(list, c) == Cardinality(Places(list, c))

Init ==
    /\ settings \in Initial
    /\ quoted \in BOOLEAN
    /\ config = [exists |-> FALSE, installed |-> FALSE, hooks |-> FALSE, claude |-> FALSE]
    /\ command = [drag |-> Idle, companion |-> Idle]
    /\ capture = [p \in Pids |-> Idle]
    /\ events = [e \in Events |-> NotSet]
    /\ temporaries = {}
    /\ edits = 0 /\ starts = 0
    /\ mine = [e \in Events |-> Count(Read[e], "user")]
    /\ reported = [e \in Events |-> NotSet]
    /\ overlapped = FALSE /\ byHand = FALSE

-----------------------------------------------------------------------------
(* The lists of hooks.                                                     *)

\* is_managed_command, and is_our_command: a companion command is recognised by
\* quoting its directory again, which fails for one with a single quote.
Recognised(program) ==
    IF program = "drag" THEN {"drag"}
    ELSE IF quoted THEN {"legacy"} ELSE {"legacy", "companion"}

Has(list, program) ==
    \E i \in DOMAIN list : \E j \in DOMAIN list[i] : list[i][j] \in Recognised(program)

\* Deviation: the hook is added without looking for it.
Pushed(list, program) == Append(list, <<program>>)

Replaced(list, program, c) ==
    [i \in DOMAIN list |-> [j \in DOMAIN list[i] |->
        IF list[i][j] \in Recognised(program) THEN c ELSE list[i][j]]]

\* prepared_settings and install_claude_hooks: the program's own commands are
\* brought up to date where they are; without one, an entry is added.
Hooked(list, program) ==
    IF Has(list, program) THEN Replaced(list, program, program)
    ELSE Append(list, <<program>>)

\* Deviation: the entry goes with everything in it.
EntriesDropped(list) == SelectSeq(list, LAMBDA entry : ~Has(<<entry>>, "companion"))

\* remove_claude_hooks: only the companion's commands go. What is left of an entry
\* has none of them, so that also an empty one stays.
Unhooked(list) == Replaced(list, "companion", "gone")

\* is_our_hook_entry for both events, as inspect_source asks for it.
HooksPresent == settings # NotSet /\ \A e \in Events : Has(settings[e], "companion")

\* validate_source_configuration, as far as Claude Code is concerned
Valid(claude) == claude => HooksPresent

-----------------------------------------------------------------------------
(* Editing the settings.                                                   *)

Start(program, next) ==
    /\ command[program] = Idle
    /\ starts < MaxStarts
    /\ starts' = starts + 1
    /\ command' = [command EXCEPT ![program] = next]

Goto(program, next) == command' = [command EXCEPT ![program] = next]

\* The rename over the file that is there now.
Replace(program, text) ==
    /\ settings' = text
    /\ overlapped' = (overlapped \/ settings # command[program].seen)

\* The settings are read for `edit`, "hook" or "unhook"; `then` is what follows.
Reading(edit, then) == [at |-> edit, seen |-> settings, text |-> Read, then |-> then]

WriteHooks(program) ==
    /\ command[program].at \in {"hook", "unhook"}
    /\ LET text == command[program].text
       IN  Replace(program, [e \in Events |->
               IF command[program].at = "hook" THEN Hooked(text[e], program)
               ELSE Unhooked(text[e])])
    /\ Goto(program, IF command[program].then = "idle" THEN Idle
                     ELSE [at |-> command[program].then])
    /\ UNCHANGED <<quoted, config, store, bounds, mine, byHand>>

\* claude_tracking::install, when setup or `drag` enables the tracking of sessions
DragInstall ==
    /\ Start("drag", Reading("hook", "idle"))
    /\ UNCHANGED <<settings, quoted, config, store, edits, history>>

\* A command fails or is interrupted: what it was about to write is lost.
Interrupt(program) ==
    /\ command[program] # Idle
    /\ Goto(program, Idle)
    /\ byHand' = TRUE
    /\ UNCHANGED <<settings, quoted, config, store, bounds, mine, overlapped>>

-----------------------------------------------------------------------------
(* The companion. Its commands hold its state lock, one at a time.         *)

\* setup_tracking; with install = TRUE, `--install-hooks`. The sources that are
\* configured are validated before anything is changed.
Setup(install) ==
    /\ Valid(config.claude)
    /\ Start("companion", [at |-> IF install THEN "setup" ELSE "finish"])
    /\ config' = [config EXCEPT !.exists = TRUE, !.installed = FALSE]
    /\ UNCHANGED <<settings, quoted, store, edits, history>>

ReadSettings ==
    /\ command.companion.at \in {"setup", "uninstall"}
    /\ Goto("companion", IF command.companion.at = "setup" THEN Reading("hook", "own")
                         ELSE Reading("unhook", "drop"))
    /\ UNCHANGED <<settings, quoted, config, store, bounds, history>>

\* hooks_installed is saved after the hooks are.
OwnHooks ==
    /\ command.companion.at = "own"
    /\ config' = [config EXCEPT !.hooks = TRUE]
    /\ Goto("companion", [at |-> "finish"])
    /\ UNCHANGED <<settings, quoted, store, bounds, history>>

\* The hooks become a source; all sources are validated again.
FinishSetup ==
    /\ command.companion.at = "finish"
    /\ IF Valid(config.hooks \/ config.claude)
       THEN config' = [config EXCEPT !.installed = TRUE, !.claude = config.hooks \/ @]
       ELSE UNCHANGED config
    /\ Goto("companion", Idle)
    /\ UNCHANGED <<settings, quoted, store, bounds, history>>

\* uninstall_tracking
Uninstall ==
    /\ config.exists
    /\ Start("companion", [at |-> IF config.hooks THEN "uninstall" ELSE "drop"])
    /\ UNCHANGED <<settings, quoted, config, store, edits, history>>

\* The sources stay as they are.
DropHooks ==
    /\ command.companion.at = "drop"
    /\ config' = [config EXCEPT !.installed = FALSE, !.hooks = FALSE]
    /\ Goto("companion", Idle)
    /\ UNCHANGED <<settings, quoted, store, bounds, history>>

\* configure_sources with --claude-code or --no-claude-code, in one step
ConfigureSources(claude) ==
    /\ command.companion = Idle /\ config.installed
    /\ Valid(claude)
    /\ config' = [config EXCEPT !.claude = claude]
    /\ UNCHANGED <<settings, quoted, command, store, bounds, history>>

\* `internal claude-hook install` and `remove`
ClaudeHook(edit) ==
    /\ Start("companion", Reading(edit, "idle"))
    /\ byHand' = TRUE
    /\ UNCHANGED <<settings, quoted, config, store, edits, mine, overlapped>>

-----------------------------------------------------------------------------
(* The user's own hooks.                                                   *)

Edit(e, list, n) ==
    /\ edits < MaxEdits
    /\ edits' = edits + 1
    /\ settings' = [Read EXCEPT ![e] = list]
    /\ mine' = [mine EXCEPT ![e] = n]
    /\ UNCHANGED <<quoted, config, command, store, starts, overlapped, byHand>>

AddEntry(e) == Edit(e, Append(Read[e], <<"user">>), mine[e] + 1)

\* A command of the user's in an entry that is there, whoever made it.
AddBeside(e) ==
    \E i \in DOMAIN Read[e] :
        Edit(e, [Read[e] EXCEPT ![i] = Append(@, "user")], mine[e] + 1)

-----------------------------------------------------------------------------
(* capture: one process for each event of a session.                       *)

Capture(p, e, t) ==
    /\ capture[p] = Idle
    /\ Has(Read[e], "drag")
    /\ starts < MaxStarts
    /\ starts' = starts + 1
    /\ capture' = [capture EXCEPT ![p] = [at |-> "lock", event |-> e, time |-> t]]
    /\ UNCHANGED <<settings, quoted, config, command, events, temporaries, reported,
                   edits, history>>

\* Deviation: events.lock is not taken.
NotLocked(q) == TRUE

\* Whether process q leaves events.lock free.
Unlocked(q) == capture[q].at \in {"idle", "lock"}

Answer(p, e, event) ==
    /\ capture' = [capture EXCEPT ![p] = Idle]
    /\ reported' = [reported EXCEPT ![e] = IF @ = NotSet THEN event ELSE @]

\* The lock is waited for; an event that is known is a duplicate.
LockAndRead(p) ==
    /\ capture[p].at = "lock"
    /\ \A q \in Pids : Unlocked(q)
    /\ LET e == capture[p].event
       IN  IF events[e] # NotSet THEN Answer(p, e, events[e])
           ELSE /\ capture' = [capture EXCEPT ![p] = [at |-> "write", event |-> e,
                                   events |-> [events EXCEPT ![e] = capture[p].time]]]
                /\ UNCHANGED reported
    /\ UNCHANGED <<settings, quoted, config, command, events, temporaries, bounds, history>>

\* create_new fails when the file of an earlier process of that pid is left.
CreateTemporary(p) ==
    /\ capture[p].at = "write"
    /\ temporaries' = temporaries \cup {p}
    /\ capture' = [capture EXCEPT ![p] = IF p \in temporaries THEN Idle
                                         ELSE [@ EXCEPT !.at = "rename"]]
    /\ UNCHANGED <<settings, quoted, config, command, events, reported, bounds, history>>

RenameTemporary(p) ==
    /\ capture[p].at = "rename"
    /\ events' = capture[p].events
    /\ temporaries' = temporaries \ {p}
    /\ Answer(p, capture[p].event, events'[capture[p].event])
    /\ UNCHANGED <<settings, quoted, config, command, bounds, history>>

\* The process dies, and the lock with it.
Die(p) ==
    /\ capture[p] # Idle
    /\ capture' = [capture EXCEPT ![p] = Idle]
    /\ UNCHANGED <<settings, quoted, config, command, events, temporaries, reported,
                   bounds, history>>

-----------------------------------------------------------------------------
Next ==
    \/ DragInstall
    \/ \E program \in {"drag", "companion"} : WriteHooks(program) \/ Interrupt(program)
    \/ \E b \in BOOLEAN : Setup(b) \/ ConfigureSources(b)
    \/ ReadSettings \/ OwnHooks \/ FinishSetup
    \/ Uninstall \/ DropHooks
    \/ \E edit \in {"hook", "unhook"} : ClaudeHook(edit)
    \/ \E e \in Events : AddEntry(e) \/ AddBeside(e)
    \/ \E p \in Pids : \/ \E e \in Events, t \in Times : Capture(p, e, t)
                       \/ LockAndRead(p) \/ CreateTemporary(p) \/ RenameTemporary(p)
                       \/ Die(p)

Spec == Init /\ [][Next]_vars

-----------------------------------------------------------------------------
(* While no edit overwrites another, installing and removing hooks, in any *)
(* order and beside the edits of the user, keeps every command of the user *)
(* and leaves each program at most one command for an event.               *)
HooksKept ==
    ~overlapped => \A e \in Events :
        /\ Count(Read[e], "user") = mine[e]
        /\ Count(Read[e], "drag") <= 1
        /\ ~quoted => Count(Read[e], "companion") <= 1

(* An uninstall leaves no command of the companion that a setup installed. *)
NoneLeft ==
    ~overlapped /\ ~byHand /\ ~quoted /\ config.exists /\ ~config.hooks
        /\ command.companion = Idle =>
            \A e \in Events : Count(Read[e], "companion") = 0

(* What a capture has reported stays in the store as it was first          *)
(* observed, whatever processes capture at once and wherever they die.     *)
CapturedIsStored ==
    \A e \in Events : reported[e] # NotSet => events[e] = reported[e]

Inv == HooksKept /\ NoneLeft /\ CapturedIsStored

(* Setup is not refused where it is what is asked for: "automatic tracking *)
(* is uninstalled or setup is incomplete; run tracking setup first"        *)
(* (public_tracking.rs:798). Here without interruptions and `internal`     *)
(* commands, and for a directory whose hook is recognised.                 *)
RerunIsAccepted ==
    ~overlapped /\ ~byHand /\ ~quoted /\ config.exists /\ ~config.installed
        /\ command.companion = Idle => Valid(config.claude)
=============================================================================
