---------------------------- MODULE ReplayCorpus ----------------------------
(***************************************************************************)
(* The replay harness: recorded days, one file each, run through the       *)
(* companion's own validation and policy without a network, and a report   *)
(* that compares what comes out with what each day expects.  A recording   *)
(* is the four seams the harness executes and the three it only wants to   *)
(* be there; an unreadable seam is NotSet, a blank text is NotSet.         *)
(***************************************************************************)
EXTENDS Integers, Sequences, FiniteSets, Functions

CONSTANTS
  Files,         \* the names a fixture can have
  Fixtures,      \* the recordings that may be in them
  RequiredTags,
  MinimumDays,   \* days a corpus must have
  Material,      \* the fields a proposal may fill in
  NotSet

VARIABLES
  corpus,   \* the fixture in each file, NotSet for no file
  report,   \* the last report written: [status, metrics], or NotSet
  current   \* a report was made of the corpus as it is (history)

vars == <<corpus, report, current>>

-----------------------------------------------------------------------------
(* One recorded day: seams collector (events), model (proposals), drag     *)
(* (worklogs) and mutation (attempted, ledger), each with `version`, TRUE  *)
(* if its recording is the one known.                                      *)

Parsed(f) == NotSet \notin {f.collector, f.model, f.drag, f.mutation}

\* A missing preview, crash or network recording is a failure of its own.
Present(f) == f.others

Normalized(f) ==
  /\ f.collector.version
  /\ \A i \in DOMAIN f.collector.events :
       NotSet \notin {f.collector.events[i].id, f.collector.events[i].kind,
                      f.collector.events[i].source}

Proposed(f) ==
  /\ f.model.version
  /\ \A i \in DOMAIN f.model.proposals :
       /\ NotSet \notin {f.model.proposals[i].id, f.model.proposals[i].issue}
       /\ "issue" \in f.model.proposals[i].fields

Recovers(f) ==
  f.mutation.version /\ (f.mutation.attempted => f.mutation.ledger)

\* Every proposal gets an hour of its own and the first event as evidence.
Response(f) ==
  [i \in DOMAIN f.model.proposals |->
     [id |-> f.model.proposals[i].id, issue |-> f.model.proposals[i].issue,
      from |-> 9 + i, to |-> 10 + i,
      refs |-> IF f.collector.events = <<>> THEN {} ELSE {f.collector.events[1].id}]]

ValidResponse(f) ==
  \A i, j \in DOMAIN Response(f) :
    /\ Response(f)[i].refs # {}
    /\ NotSet \notin {Response(f)[i].id, Response(f)[i].issue}
    /\ i # j => Response(f)[i].id # Response(f)[j].id

\* Deviation: one approved proposal is enough.
OneApproved(f) ==
  DOMAIN f.model.proposals = {} \/ \E i \in DOMAIN Response(f) :
    /\ \A j \in DOMAIN Response(f) : j # i => Response(f)[j].issue # Response(f)[i].issue
    /\ \A k \in DOMAIN f.drag.worklogs : f.drag.worklogs[k] # Response(f)[i].issue

\* evaluate_policy_decisions as the harness calls it: without the duplicates
\* and overlaps the gateway computes, so that only the issue can refuse.
AllApproved(f) ==
  \A i \in DOMAIN Response(f) :
    /\ \A j \in DOMAIN Response(f) : j # i => Response(f)[j].issue # Response(f)[i].issue
    /\ \A k \in DOMAIN f.drag.worklogs : f.drag.worklogs[k] # Response(f)[i].issue

\* execute_production_seams; a worklog that cannot be normalised is NotSet.
Executes(f) ==
  /\ ValidResponse(f)
  /\ NotSet \notin Range(f.drag.worklogs)
  /\ AllApproved(f)
  /\ f.mutation.attempted => f.mutation.ledger

SchemaValid(f) ==
  Normalized(f) /\ Proposed(f) /\ f.drag.version /\ Recovers(f) /\ Executes(f)

DuplicateCount(ids) == Len(ids) - Cardinality(Range(ids))

\* Fields of proposals that no material fact stands for.
Fabricated(ps) ==
  Cardinality(UNION {{i} \X (ps[i].fields \ Material) : i \in DOMAIN ps})

Count(condition) == IF condition THEN 1 ELSE 0

\* What a day comes to; nothing of a day with an unreadable seam is counted.
\* Precisions are 1 and overlaps, duplicates and incidents 0 by construction.
Blank ==
  [schemaValid |-> FALSE, provenanceValid |-> FALSE, redactionValid |-> FALSE,
   duplicateProposals |-> 0, fabricated |-> 0, unsafeRetries |-> 0,
   incorrectCreates |-> 0]

Actual(f) ==
  IF ~Parsed(f) THEN Blank
  ELSE [schemaValid |-> SchemaValid(f),
        provenanceValid |-> \A i \in DOMAIN f.collector.events :
           NotSet \notin {f.collector.events[i].id, f.collector.events[i].source},
        redactionValid |-> TRUE,
        duplicateProposals |-> DuplicateCount([i \in DOMAIN f.model.proposals |->
                                                 f.model.proposals[i].id]),
        fabricated |-> Fabricated(f.model.proposals),
        unsafeRetries |-> Count(f.mutation.attempted /\ ~f.mutation.ledger),
        incorrectCreates |-> Count(f.mutation.attempted /\ f.drag.worklogs = <<>>)]

\* The day adds no failure to the report: neither a seam nor an expectation.
Holds(f) ==
  /\ Present(f) /\ Parsed(f) /\ SchemaValid(f)
  /\ f.expected = Actual(f)

-----------------------------------------------------------------------------
(* The corpus.                                                             *)

Days == {n \in Files : corpus[n] # NotSet}

\* A file with a forbidden text, or that is no fixture, ends the run.
Readable == \A n \in Days : ~corpus[n].secret /\ corpus[n].fixture

Failures ==
  \/ Cardinality(Days) < MinimumDays
  \/ ~(RequiredTags \subseteq UNION {corpus[n].tags : n \in Days})
  \/ \E n \in Days : ~Holds(corpus[n])

\* How many days have a mark, and the sum of a count over the days.
Marked(mark) == Cardinality({n \in Days : Actual(corpus[n])[mark]})
Sum(count) == Cardinality(UNION {{n} \X (1 .. Actual(corpus[n])[count]) : n \in Days})

Metrics ==
  [schemaValid |-> Marked("schemaValid"), provenance |-> Marked("provenanceValid"),
   redaction |-> Marked("redactionValid"), duplicateProposals |-> Sum("duplicateProposals"),
   fabricated |-> Sum("fabricated"), unsafeRetries |-> Sum("unsafeRetries"),
   incorrectCreates |-> Sum("incorrectCreates")]

Init == corpus = [n \in Files |-> NotSet] /\ report = NotSet /\ current = FALSE

\* Somebody adds, edits or removes a recording.
Record(n) ==
  /\ \E f \in Fixtures \cup {NotSet} : f # corpus[n] /\ corpus' = [corpus EXCEPT ![n] = f]
  /\ current' = FALSE
  /\ UNCHANGED report

\* run_replay with a directory for its report: a run that cannot read the
\* corpus leaves the report of an earlier one.
Run ==
  /\ Readable
  /\ report' = [status |-> IF Failures THEN "failed" ELSE "passed", metrics |-> Metrics]
  /\ current' = TRUE
  /\ UNCHANGED corpus

Next == (\E n \in Files : Record(n)) \/ Run

Spec == Init /\ [][Next]_vars

-----------------------------------------------------------------------------
(* The properties.                                                         *)

\* Types.
TypeOK ==
  /\ corpus \in [Files -> Fixtures \cup {NotSet}] /\ current \in BOOLEAN
  /\ report # NotSet => report.status \in {"passed", "failed"}
  /\ current => report # NotSet

\* A corpus that passed is whole and clean, whatever its days expect: they
\* are enough and cover every tag, no two proposals of a day share an id or
\* an issue, each rests on evidence and none is for an issue that has a
\* worklog already, every attempted mutation is in the ledger, and the
\* report's own counts say so.
PassedIsClean ==
  current /\ report.status = "passed" =>
    /\ Cardinality(Days) >= MinimumDays
    /\ \A tag \in RequiredTags : \E n \in Days : tag \in corpus[n].tags
    /\ \A n \in Days :
         LET f == corpus[n]
             ps == f.model.proposals
         IN  /\ ps # <<>> => f.collector.events # <<>>
             /\ \A i, j \in DOMAIN ps : i # j => ps[i].id # ps[j].id /\ ps[i].issue # ps[j].issue
             /\ \A i \in DOMAIN ps : ps[i].issue \notin Range(f.drag.worklogs)
             /\ f.mutation.attempted => f.mutation.ledger
    /\ report.metrics.schemaValid = Cardinality(Days)
    /\ report.metrics.duplicateProposals = 0 /\ report.metrics.unsafeRetries = 0

=============================================================================
