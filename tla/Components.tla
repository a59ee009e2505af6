----------------------------- MODULE Components -----------------------------
(***************************************************************************)
(* Components that share no state, Rollout and instances of the others:    *)
(* one is chosen at the start and only its variables move. What is true of *)
(* a component in every such behaviour is true of it in its own.           *)
(*                                                                         *)
(* The parameters of an instance are named after it where two instances    *)
(* have one of the same name.                                              *)
(***************************************************************************)
EXTENDS Sequences, FiniteSets, Rollout

CONSTANTS
  NotSet,
  \* WorkDay
  Minute, Hour, Day, Zones, Now, Requests, Responses, BundleEvidence, AttributeSettings,
  Required, MaxByHand, MaxResponses,
  \* LocalSources
  SourceDay, SourceZone, Dates, Today, SourceEvents, SourceEdits, SourceCommits, CommitLimit,
  MaxSourceEdits,
  \* ListProjection
  Typed, Listed, Keys,
  \* ReplayCorpus
  Files, Fixtures, RequiredTags, MinimumDays, Material,
  \* OperatorRetention
  LocalDates, PhaseNames, LastDay, NormalizedDays, ReportDays,
  \* ReviewedRuns
  Batches, Sound, Clashes, Outages,
  \* ClaudeHooks
  HookEvents, InitialHooks, Pids, CaptureTimes, MaxHookEdits, MaxHookStarts,
  \* TrackingSetup
  Repos, Calendars, Plans, Flags, Times, NotATime, MaxSetupStarts, MaxSetupChanges,
  \* DocumentCache
  Loaders, LastDocument, WellFormed, Tagged,
  \* TempoReference
  Documents, Schemas, Values, Singular, Arguments, MaxRefDepth

VARIABLES
  part,
  zone, tempo, asked, settings, proposals, resolved, decision, submitted,
  calendar, commits, accepted, journal, fresh, failed, edits,
  typed, day, mode, at, output, keys, calls,
  corpus, report, current,
  operation, held, run, phases, runFile, sentinel, today, command, flying, worklogs,
  submission, allowed, shown, proposed, complete, verdict, approval, logged, holders,
  running, ended,
  claudeSettings, quoted, config, editing, capture, events, temporaries, userEdits,
  starts, mine, reported, overwritten, byHand,
  session, companion, setupConfig, setupCommand, timer, hook, healthy, setupStarts,
  changes, chosen, apart,
  server, cache, etag, young, load, overlapped,
  document, prepared

-----------------------------------------------------------------------------
Work == INSTANCE WorkDay WITH
  Evidence <- BundleEvidence, Settings <- AttributeSettings

Src == INSTANCE LocalSources WITH
  Day <- SourceDay, Zone <- SourceZone, Events <- SourceEvents, Edits <- SourceEdits,
  Commits <- SourceCommits, MaxEdits <- MaxSourceEdits

Mask == INSTANCE ListProjection

Corpus == INSTANCE ReplayCorpus

Ret == INSTANCE OperatorRetention

Runs == INSTANCE ReviewedRuns WITH
  mode <- submission, live <- allowed, evidence <- shown, proposals <- proposed,
  resolved <- complete, decision <- verdict, tempo <- logged, lock <- holders,
  run <- running, last <- ended

Hooks == INSTANCE ClaudeHooks WITH
  Events <- HookEvents, Initial <- InitialHooks, Times <- CaptureTimes,
  MaxEdits <- MaxHookEdits, MaxStarts <- MaxHookStarts,
  settings <- claudeSettings, command <- editing, edits <- userEdits,
  overlapped <- overwritten

Setup == INSTANCE TrackingSetup WITH
  MaxStarts <- MaxSetupStarts, MaxChanges <- MaxSetupChanges,
  config <- setupConfig, command <- setupCommand, starts <- setupStarts

Docs == INSTANCE DocumentCache

Reference == INSTANCE TempoReference

\* TrackingSetup: a choice is a list of sources, perhaps asked to be cleared, a
\* mode, a time, or none of these; there is a time to run at.
Sourced(sources) == [list : Seq(sources), clear : BOOLEAN]
Answers ==
  [mode : Setup!Modes \cup {NotSet}, authorize : BOOLEAN, scheduler : BOOLEAN,
   hooks : BOOLEAN, at : Times \cup {NotATime, NotSet}, repos : Sourced(Repos),
   calendars : Sourced(Calendars)]
ASSUME AnswersAssumption == Plans \cup Flags \subseteq Answers /\ Times # {}

IsASequence(s) == s \in Seq({s[i] : i \in DOMAIN s})

\* WorkDay: clocks and durations are typed in hours and minutes, zones are offset by
\* whole minutes, and only a time of day that is now's has seconds.
Clocks == 0 .. Day - 1
Durations == [hours : Nat, minutes : Nat]
Intervals == [from : Clocks, to : Clocks]
Selections == [kind : {"offset"}, days : Int] \cup [kind : {"date"}, date : Int]
ASSUME WorkAssumption ==
  /\ {Minute, Hour, Day} \subseteq Nat \ {0} /\ Hour % Minute = 0 /\ Day % Minute = 0
  /\ \A z \in Zones : /\ {z.at, z.before, z.after} \subseteq Int
                      /\ z.before % Minute = 0 /\ z.after % Minute = 0
  /\ NotSet \notin Durations \cup Intervals \cup Selections \cup Clocks
  /\ Now.date \in Int /\ Now.clock \in Clocks
  /\ \A r \in Requests :
       /\ r.text \in Durations \cup Intervals \cup {NotSet}
       /\ r.text \in Intervals => r.text.from % Minute = 0 /\ r.text.to % Minute = 0
       /\ r.when \in Selections \cup {NotSet} /\ r.start \in Clocks \cup {NotSet}
  /\ \A r \in Responses :
       /\ IsASequence(r)
       /\ \A i \in DOMAIN r :
            r[i].kind = "worklog" => {r[i].from, r[i].to, r[i].offset} \subseteq Int

\* LocalSources: times are integers, a rule counts, and an edit leaves the event's
\* identity and its number, which its version raises.
EventFields ==
  {"uid", "sequence", "status", "zone", "allDay", "start", "end", "endZone", "rule", "exdates"}
EventRules ==
  [daily : BOOLEAN, interval : Nat, count : Nat \cup {NotSet}, until : Int \cup {NotSet}]
IsField(f, value) ==
  /\ f \in {"start", "end"} => value \in Int \cup {NotSet}
  /\ f = "rule" => value \in EventRules \cup {NotSet}
  /\ f = "exdates" => value \subseteq Int
ASSUME SourcesAssumption ==
  /\ SourceDay \in Nat \ {0} /\ CommitLimit \in Nat /\ NotSet \notin Int \cup EventRules
  /\ {SourceZone.at, SourceZone.before, SourceZone.after} \subseteq Int /\ Dates \subseteq Int
  /\ \A e \in SourceEvents : DOMAIN e = EventFields /\ e.sequence \in Nat
  /\ \A edit \in SourceEdits : DOMAIN edit \subseteq EventFields \ {"uid", "sequence"}
  /\ \A x \in SourceEvents \cup SourceEdits : \A f \in DOMAIN x : IsField(f, x[f])
  /\ \A commit \in SourceCommits : commit.committed \in Int

\* ReplayCorpus: a corpus has finitely many files, a model a list of proposals.
ASSUME CorpusAssumption ==
  /\ IsFiniteSet(Files) /\ MinimumDays \in Nat
  /\ \A f \in Fixtures : f.model = NotSet \/ IsASequence(f.model.proposals)

\* ListProjection: a day's worklogs are a list; nothing typed is no path.
ASSUME MaskAssumption ==
  /\ NotSet \notin Mask!ListField \cup {"report", "stream"}
  /\ \A d \in Listed : IsASequence(d)

\* ClaudeHooks: before the first installation there is no hook of the companion's
\* but one of an old version, and none or one of `drag`.
HookCommands == {"user", "drag", "companion", "legacy", "gone"}
HookLists == Seq(Seq(HookCommands))
ASSUME HooksAssumption ==
  /\ NotSet \notin [HookEvents -> HookLists]
  /\ \A hooks \in InitialHooks \ {NotSet} :
       /\ hooks \in [HookEvents -> HookLists]
       /\ \A e \in HookEvents :
            /\ Hooks!Count(hooks[e], "companion") = 0
            /\ Hooks!Count(hooks[e], "legacy") <= 1
            /\ Hooks!Count(hooks[e], "drag") <= 1

\* DocumentCache: documents are numbered; no number is no document.
ASSUME DocumentsAssumption ==
  LastDocument \in Nat \ {0} /\ WellFormed \subseteq 1..LastDocument /\ NotSet \notin Nat

\* TempoReference: a schema is a record of keywords, and those in it and the ones a body
\* is resolved to are schemas too; paths, parameters and arrays are lists.
ASSUME ReferenceAssumption ==
  /\ MaxRefDepth \in Nat
  /\ \A s \in Schemas : s = [k \in DOMAIN s |-> s[k]] /\ Reference!Children(s) \subseteq Schemas
  /\ \A v \in Values : v.json = "array" => IsASequence(v.of)
  /\ \A argument \in Arguments : \A n \in DOMAIN argument.params : argument.params[n] \in Values
  /\ \A doc \in Documents :
       /\ \A r \in DOMAIN doc.components : doc.components[r] \in Schemas
       /\ \A op \in doc.operations :
            /\ IsASequence(op.path) /\ IsASequence(op.pathParams) /\ IsASequence(op.params)
            /\ op.body # NotSet =>
                 LET once == Reference!BodySchema(op, doc)
                     twice == Reference!ResolveLocalRefs(once, doc)
                 IN  /\ op.body.schema \in Schemas
                     /\ once # NotSet => once \in Schemas /\ twice \in Schemas \cup {NotSet}

-----------------------------------------------------------------------------
WorklogsVars == <<zone, tempo, asked, settings, proposals, resolved, decision, submitted>>
SourcesVars == <<calendar, commits, accepted, journal, fresh, failed, edits>>
MasksVars == <<typed, day, mode, at, output, keys, calls>>
ReplaysVars == <<corpus, report, current>>
RetentionVars ==
  <<operation, held, run, phases, runFile, sentinel, today, command, flying, worklogs>>
RunsVars ==
  <<submission, allowed, shown, proposed, complete, verdict, approval, logged, holders,
    running, ended>>
HooksVars ==
  <<claudeSettings, quoted, config, editing, capture, events, temporaries, userEdits,
    starts, mine, reported, overwritten, byHand>>
ChoicesVars ==
  <<session, companion, setupConfig, setupCommand, timer, hook, healthy, setupStarts,
    changes, chosen, apart>>
DocumentsVars == <<server, cache, etag, young, load, overlapped>>
ReferenceVars == <<document, prepared>>

NoWorklogs ==
  /\ zone = NotSet /\ tempo = NotSet /\ asked = NotSet /\ settings = NotSet
  /\ proposals = NotSet /\ resolved = NotSet /\ decision = NotSet /\ submitted = NotSet

NoSources ==
  /\ calendar = NotSet /\ commits = NotSet /\ accepted = NotSet /\ journal = NotSet
  /\ fresh = NotSet /\ failed = NotSet /\ edits = NotSet

NoMasks ==
  /\ typed = NotSet /\ day = NotSet /\ mode = NotSet /\ at = NotSet
  /\ output = NotSet /\ keys = NotSet /\ calls = NotSet

NoReplays ==
  /\ corpus = NotSet /\ report = NotSet /\ current = NotSet

NoRetention ==
  /\ operation = NotSet /\ held = NotSet /\ run = NotSet /\ phases = NotSet
  /\ runFile = NotSet /\ sentinel = NotSet /\ today = NotSet /\ command = NotSet
  /\ flying = NotSet /\ worklogs = NotSet

NoRuns ==
  /\ submission = NotSet /\ allowed = NotSet /\ shown = NotSet /\ proposed = NotSet
  /\ complete = NotSet /\ verdict = NotSet /\ approval = NotSet /\ logged = NotSet
  /\ holders = NotSet /\ running = NotSet /\ ended = NotSet

NoHooks ==
  /\ claudeSettings = NotSet /\ quoted = NotSet /\ config = NotSet /\ editing = NotSet
  /\ capture = NotSet /\ events = NotSet /\ temporaries = NotSet /\ userEdits = NotSet
  /\ starts = NotSet /\ mine = NotSet /\ reported = NotSet /\ overwritten = NotSet
  /\ byHand = NotSet

NoChoices ==
  /\ session = NotSet /\ companion = NotSet /\ setupConfig = NotSet
  /\ setupCommand = NotSet /\ timer = NotSet /\ hook = NotSet /\ healthy = NotSet
  /\ setupStarts = NotSet /\ changes = NotSet /\ chosen = NotSet /\ apart = NotSet

NoDocuments ==
  /\ server = NotSet /\ cache = NotSet /\ etag = NotSet /\ young = NotSet
  /\ load = NotSet /\ overlapped = NotSet

NoReference == document = NotSet /\ prepared = NotSet

ComponentsInit ==
  /\ Init
  /\ part \in {"rollout", "worklogs", "sources", "masks", "replays", "retention", "runs",
              "hooks", "choices", "documents", "reference"}
  /\ IF part = "worklogs" THEN Work!Init ELSE NoWorklogs
  /\ IF part = "sources" THEN Src!Init ELSE NoSources
  /\ IF part = "masks" THEN Mask!Init ELSE NoMasks
  /\ IF part = "replays" THEN Corpus!Init ELSE NoReplays
  /\ IF part = "retention" THEN Ret!Init ELSE NoRetention
  /\ IF part = "runs" THEN Runs!Init ELSE NoRuns
  /\ IF part = "hooks" THEN Hooks!Init ELSE NoHooks
  /\ IF part = "choices" THEN Setup!Init ELSE NoChoices
  /\ IF part = "documents" THEN Docs!Init ELSE NoDocuments
  /\ IF part = "reference" THEN Reference!Init ELSE NoReference

ComponentsNext ==
  \/ /\ part = "rollout" /\ Next
     /\ UNCHANGED <<part, WorklogsVars, SourcesVars, MasksVars, ReplaysVars,
                     RetentionVars, RunsVars, HooksVars, ChoicesVars, DocumentsVars,
                     ReferenceVars>>
  \/ /\ part = "worklogs" /\ Work!Next
     /\ UNCHANGED <<part, vars, SourcesVars, MasksVars, ReplaysVars,
                     RetentionVars, RunsVars, HooksVars, ChoicesVars, DocumentsVars,
                     ReferenceVars>>
  \/ /\ part = "sources" /\ Src!Next
     /\ UNCHANGED <<part, vars, WorklogsVars, MasksVars, ReplaysVars,
                     RetentionVars, RunsVars, HooksVars, ChoicesVars, DocumentsVars,
                     ReferenceVars>>
  \/ /\ part = "masks" /\ Mask!Next
     /\ UNCHANGED <<part, vars, WorklogsVars, SourcesVars, ReplaysVars,
                     RetentionVars, RunsVars, HooksVars, ChoicesVars, DocumentsVars,
                     ReferenceVars>>
  \/ /\ part = "replays" /\ Corpus!Next
     /\ UNCHANGED <<part, vars, WorklogsVars, SourcesVars, MasksVars,
                     RetentionVars, RunsVars, HooksVars, ChoicesVars, DocumentsVars,
                     ReferenceVars>>
  \/ /\ part = "retention" /\ Ret!Next
     /\ UNCHANGED <<part, vars, WorklogsVars, SourcesVars, MasksVars,
                     ReplaysVars, RunsVars, HooksVars, ChoicesVars, DocumentsVars,
                     ReferenceVars>>
  \/ /\ part = "runs" /\ Runs!Next
     /\ UNCHANGED <<part, vars, WorklogsVars, SourcesVars, MasksVars,
                     ReplaysVars, RetentionVars, HooksVars, ChoicesVars, DocumentsVars,
                     ReferenceVars>>
  \/ /\ part = "hooks" /\ Hooks!Next
     /\ UNCHANGED <<part, vars, WorklogsVars, SourcesVars, MasksVars,
                     ReplaysVars, RetentionVars, RunsVars, ChoicesVars, DocumentsVars,
                     ReferenceVars>>
  \/ /\ part = "choices" /\ Setup!Next
     /\ UNCHANGED <<part, vars, WorklogsVars, SourcesVars, MasksVars,
                     ReplaysVars, RetentionVars, RunsVars, HooksVars, DocumentsVars,
                     ReferenceVars>>
  \/ /\ part = "documents" /\ Docs!Next
     /\ UNCHANGED <<part, vars, WorklogsVars, SourcesVars, MasksVars, ReplaysVars,
                     RetentionVars, RunsVars, HooksVars, ChoicesVars, ReferenceVars>>
  \/ /\ part = "reference" /\ Reference!Next
     /\ UNCHANGED <<part, vars, WorklogsVars, SourcesVars, MasksVars, ReplaysVars,
                     RetentionVars, RunsVars, HooksVars, ChoicesVars, DocumentsVars>>

componentsVars ==
  <<part, vars, WorklogsVars, SourcesVars, MasksVars, ReplaysVars,
    RetentionVars, RunsVars, HooksVars, ChoicesVars, DocumentsVars, ReferenceVars>>

ComponentsSpec == ComponentsInit /\ [][ComponentsNext]_componentsVars

-----------------------------------------------------------------------------
\* WorkDay: what is logged as `a-b` is listed as a-b (time.rs).
ListedAsLogged == part = "worklogs" => Work!ListedAsLogged

\* WorkDay: the companion recognises what it submitted (drag_gateway.rs).
OwnIsRecognised == part = "worklogs" => Work!OwnIsRecognised

\* WorkDay: what an audit approves is free on Tempo (drag_gateway.rs).
ApprovedIsFree == [][part = "worklogs" => Work!ApprovesWhatIsFree]_componentsVars

\* LocalSources: a collected date has its sources as they are (collectors.rs).
CollectedIsCurrent == part = "sources" => Src!CollectedIsCurrent

\* ListProjection: what is printed is the complete result cut down to the
\* mask (field_selection.rs, list.rs).
PrintedAsSelected == part = "masks" => Mask!PrintedAsSelected

\* ReplayCorpus: a corpus that passed is whole and clean (replay.rs).
PassedIsClean == part = "replays" => Corpus!PassedIsClean

\* OperatorRetention: what retention and purge forget is not submitted again
\* (operator_retention.rs, compact_store and purge_state).
OneWorklogPerOperation == part = "retention" => Ret!OneWorklogPerOperation

\* ReviewedRuns: a run submits what the user agreed to (public_tracking.rs).
SubmitsOnlyConsented == [][part = "runs" => Runs!ConsentedStep]_componentsVars

\* ClaudeHooks: hooks are kept and taken away as they should be, and captured
\* events stay in the store (claude_tracking.rs, collectors.rs).
HooksInv == part = "hooks" => Hooks!Inv

\* TrackingSetup: what is configured and installed is what the user chose
\* (generalized_tracking_setup_tui.rs, public_tracking.rs).
ChoicesKept == part = "choices" => Setup!ChoicesKept

\* DocumentCache: "not modified" means the current document (tempo_openapi.rs,
\* load_document).
DocumentsInv == part = "documents" => Docs!Inv

\* TempoReference: a request is what the document declares for the one operation
\* of that name (tempo_openapi.rs, prepare_request).
PreparedAsDeclared == part = "reference" => Reference!PreparedAsDeclared

=============================================================================
