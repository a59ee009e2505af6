---------------------------- MODULE MCComponents ----------------------------
(***************************************************************************)
(* Small instances of the components.                                      *)
(***************************************************************************)
EXTENDS Components

CONSTANTS a, b, c, u, p1, p2, Starts, Ends

-----------------------------------------------------------------------------
(* Rollout: two processes, thresholds that one or two records reach.       *)

MCNeedDays == [g \in Evidence |-> IF g = Fixture THEN 0 ELSE IF g = Restricted THEN 2 ELSE 1]
MCNeedVolume == [g \in Evidence |-> IF g \in {Shadow, Reviewed} THEN 1 ELSE 0]

-----------------------------------------------------------------------------
(* WorkDay: a day of four hours of two minutes of two seconds; a zone that *)
(* skips an hour of it and one that repeats one.                           *)

MCZones == {[at |-> 4, before |-> 0, after |-> 4], [at |-> 8, before |-> 4, after |-> 0]}
MCNow == [date |-> 0, clock |-> 7]
MCAttributeSettings == {[current |-> [k \in {a} |-> u], legacy |-> NotSet],
                [current |-> NotSet, legacy |-> [k \in {a} |-> b]]}
DayTexts == {[from |-> t[1], to |-> t[2]] : t \in {<<0, 4>>, <<6, 10>>, <<10, 4>>, <<10, 10>>}}
MCRequests ==
  {[issue |-> i, text |-> t, when |-> w, start |-> NotSet, estimate |-> NotSet,
    description |-> {"plain"}, attributes |-> [k \in {a} |-> u]] :
     i \in {"h"}, t \in DayTexts, w \in {[kind |-> "date", date |-> 0]}}
  \cup
  {[issue |-> "p", text |-> t, when |-> w, start |-> s, estimate |-> NotSet,
    description |-> {"plain"}, attributes |-> [k \in {a} |-> u]] :
     t \in {[hours |-> 0, minutes |-> 0], [hours |-> 1, minutes |-> 1], NotSet},
     w \in {NotSet}, s \in {NotSet, 8}}
  \cup
  {[issue |-> "p", text |-> [hours |-> 0, minutes |-> 1],
    when |-> [kind |-> "offset", days |-> -1], start |-> NotSet, estimate |-> NotSet,
    description |-> {"plain"}, attributes |-> [k \in {a} |-> u]]}
Proposed(id, issue, from, to, offset) ==
  [id |-> id, kind |-> "worklog", issue |-> issue, from |-> from, to |-> to,
   offset |-> offset, refs |-> <<"e1">>, facts |-> {"plain"}]
Gap(id, from, to) ==
  [id |-> id, kind |-> "unsupported", from |-> from, to |-> to, refs |-> <<"e1">>]
MCResponses ==
  {<<Proposed("x", "p", 4, 8, 0), Proposed("y", "q", 8, 12, 0)>>,
   <<Proposed("x", "p", 0, 8, 4), Gap("y", 8, 10)>>,
   <<Proposed("x", "r", 6, 22, 0)>>,
   <<Proposed("x", "p", 2, 6, 0), Gap("y", 5, 10)>>,
   <<[Proposed("x", "s", 12, 14, 0) EXCEPT !.facts = {"conflict"}], Proposed("y", "t", 14, 18, 4)>>}

-----------------------------------------------------------------------------
(* LocalSources: days of four; the zone skips one time of date 2.          *)

MCSourceZone == [at |-> 9, before |-> 0, after |-> 1]
Event(sequence, tz, start, end, rule) ==
  [uid |-> "m", sequence |-> sequence, status |-> "CONFIRMED", zone |-> tz, allDay |-> FALSE,
   start |-> start, end |-> end, endZone |-> tz, rule |-> rule, exdates |-> {}]
Rule(interval, count, until) ==
  [daily |-> TRUE, interval |-> interval, count |-> count, until |-> until]
MCSourceEvents ==
  {Event(0, "local", 5, 6, NotSet), Event(1, "local", 1, 2, Rule(1, 2, NotSet)),
   Event(1, "UTC", 2, 3, Rule(2, NotSet, 9))}
MCSourceEdits ==
  {[start |-> 0], [status |-> "CANCELLED"], [exdates |-> {1, 5, 9}], [endZone |-> "UTC"],
   [rule |-> Rule(0, NotSet, NotSet)], [zone |-> "floating"]}
MCSourceCommits == {[hash |-> "c", authored |-> 3, offset |-> 0, committed |-> 5],
              [hash |-> "d", authored |-> 4, offset |-> 0, committed |-> 5]}

-----------------------------------------------------------------------------
(* ListProjection: every mask of one path, and of two of a few.            *)

MaskPaths == {"date", "worklogs", "worklogs.interval", "worklogs.interval.startTime",
              "worklogs.link", "worklogs.attributes", "schedule", "pagination.next", "nope"}
MCTyped == {NotSet, <<>>, <<"worklogs.id">>, <<"worklogs.issueKey">>, <<"pagination">>,
              <<"worklogs.interval.endTime">>, <<"schedule.dayLoggedDuration">>}
             \cup {<<f>> : f \in MaskPaths} \cup (MaskPaths \X MaskPaths)
MaskRow(issue, attributes, clock) == [issue |-> issue, attributes |-> attributes, clock |-> clock]
MCListed ==
  {<<>>, <<MaskRow("k", TRUE, TRUE)>>,
   <<MaskRow("i", TRUE, TRUE), MaskRow("j", FALSE, FALSE), MaskRow("i", FALSE, TRUE)>>}
MCKeys == [issue \in {"i", "j"} |-> issue]

-----------------------------------------------------------------------------
(* ReplayCorpus: two files; each recording departs from a good one in one  *)
(* way or two.                                                             *)

ReplayEvent(id) == [id |-> id, kind |-> "k", source |-> "local"]
ReplayProposal(id, issue, fields) == [id |-> id, issue |-> issue, fields |-> fields]
ReplayBlank ==
  [schemaValid |-> FALSE, provenanceValid |-> FALSE, redactionValid |-> FALSE,
   duplicateProposals |-> 0, fabricated |-> 0, unsafeRetries |-> 0, incorrectCreates |-> 0]
ReplayExpected == [ReplayBlank EXCEPT !.schemaValid = TRUE, !.provenanceValid = TRUE,
                                      !.redactionValid = TRUE]
ReplayGood ==
  [fixture |-> TRUE, secret |-> FALSE, tags |-> {"dst"}, others |-> TRUE,
   collector |-> [version |-> TRUE, events |-> <<ReplayEvent("e")>>],
   model |-> [version |-> TRUE, proposals |-> <<ReplayProposal("p", "i", {"issue"}),
                                                ReplayProposal("q", "j", {"issue"})>>],
   drag |-> [version |-> TRUE, worklogs |-> <<>>],
   mutation |-> [version |-> TRUE, attempted |-> FALSE, ledger |-> FALSE],
   expected |-> ReplayExpected]
MCFixtures ==
  {ReplayGood,
   [ReplayGood EXCEPT !.tags = {"sparse", "dst"},
                  !.model.proposals = <<ReplayProposal("p", "i", {"issue", "invented"})>>,
                  !.expected.fabricated = 1],
   [ReplayGood EXCEPT !.secret = TRUE],
   [ReplayGood EXCEPT !.model = NotSet, !.expected = ReplayBlank],
   [ReplayGood EXCEPT !.drag.worklogs = <<"j">>],
   [ReplayGood EXCEPT !.mutation.attempted = TRUE, !.mutation.ledger = TRUE,
                  !.expected.incorrectCreates = 1],
   [ReplayGood EXCEPT !.mutation.attempted = TRUE, !.drag.worklogs = <<"k">>,
                  !.expected.unsafeRetries = 1, !.expected.schemaValid = FALSE],
   [ReplayGood EXCEPT !.model.proposals = <<ReplayProposal("p", "i", {"issue"}),
                                        ReplayProposal("p", "j", {"issue"})>>,
                  !.expected.duplicateProposals = 1, !.expected.schemaValid = FALSE],
   [ReplayGood EXCEPT !.collector.events = <<>>, !.others = FALSE]}

-----------------------------------------------------------------------------
(* OperatorRetention: one date, whose evidence expires on the next day and *)
(* its ledger on the day after.                                            *)

MCPhaseNames == <<"collecting", "submitting">>

-----------------------------------------------------------------------------
(* ReviewedRuns: two processes, one proposal from the first evidence and   *)
(* two that clash from the second.                                         *)

MCBatches == <<{a}, {b, c}>>
MCClashes == {{b, c}}

-----------------------------------------------------------------------------
(* ClaudeHooks: no settings, or a list the user shares with an old hook of *)
(* the companion; two processes that capture.                              *)

MCHookEvents == {Starts, Ends}
MCInitialHooks ==
  {NotSet, [e \in MCHookEvents |-> IF e = Starts THEN <<<<"user", "legacy">>>> ELSE <<>>]}

-----------------------------------------------------------------------------
(* TrackingSetup: two repositories and a calendar, two times.              *)

List(list) == [list |-> list, clear |-> FALSE]
Cleared == [list |-> <<>>, clear |-> TRUE]
NoChoice ==
  [mode |-> NotSet, authorize |-> FALSE, scheduler |-> FALSE, hooks |-> FALSE,
   at |-> NotSet, repos |-> List(<<>>), calendars |-> List(<<>>)]
MCFlags ==
  {[k \in DOMAIN NoChoice |-> IF k \in DOMAIN f THEN f[k] ELSE NoChoice[k]] :
     f \in {<<>>, [at |-> p2], [at |-> u], [scheduler |-> TRUE],
            [scheduler |-> TRUE, at |-> p2], [hooks |-> TRUE], [mode |-> "review"],
            [mode |-> "automatic"], [mode |-> "automatic", authorize |-> TRUE],
            [authorize |-> TRUE], [repos |-> Cleared], [repos |-> List(<<b>>)],
            [repos |-> List(<<b, b>>)], [calendars |-> List(<<c>>)],
            [calendars |-> Cleared]}}
MCPlans ==
  {[mode |-> m, authorize |-> s, scheduler |-> s, hooks |-> h, at |-> p2, repos |-> r,
    calendars |-> [list |-> <<>>, clear |-> h]] :
     m \in {"draft", "automatic"}, s \in BOOLEAN, h \in BOOLEAN,
     r \in {List(<<a, b>>), Cleared}}

-----------------------------------------------------------------------------
(* TempoReference: three documents, of which the last has two operations   *)
(* of one name.                                                            *)

MCSingular == [worklogs |-> "worklog"]

Text(w) == [json |-> "string", of |-> w]
Whole(w) == [json |-> "integer", of |-> w]
Null == [json |-> "null", of |-> ""]
Arr(vs) == [json |-> "array", of |-> vs]
Obj(f) == [json |-> "object", of |-> f]

Query(n, needed, schema) ==
  [name |-> n, in |-> "query", needed |-> needed, schema |-> schema]
InPath(n) ==
  [name |-> n, in |-> "path", needed |-> TRUE, schema |-> [type |-> "string"]]
V4(rest) == <<<<"literal", "4">>, <<"literal", "worklogs">>>> \o rest
Op(path, http, id) ==
  [path |-> path, http |-> http, tag |-> "worklogs", id |-> id, effect |-> NotSet,
   readLike |-> FALSE, pathParams |-> <<>>, params |-> <<>>, body |-> NotSet]

Body(schema) == [needed |-> TRUE, schema |-> schema]
WorklogBody == [type |-> "object", required |-> {"day"}, closed |-> TRUE,
                properties |-> [day |-> [type |-> "string", enum |-> {Text("mon")}],
                                again |-> [ref |-> "Day"], days |-> [ref |-> "Days"]]]
MCSchemaNames ==
  [Day |-> [type |-> "string", nullable |-> TRUE],
   Days |-> [type |-> "array", items |-> [ref |-> "Day"]],
   Worklog |-> WorklogBody,
   Tree |-> [type |-> "object", properties |-> [child |-> [ref |-> "Tree"]]],
   Either |-> [oneOf |-> {[ref |-> "Days"], [ref |-> "Worklog"]}],
   Both |-> [allOf |-> {[ref |-> "Worklog"], [type |-> "object", required |-> {"again"}]}],
   Limit |-> Query("limit", FALSE, [type |-> "integer"])]

GetAll == [Op(V4(<<>>), "get", <<"get", "worklogs">>) EXCEPT
             !.params = <<[ref |-> "Limit"], Query("kind", TRUE, [type |-> "array",
                          items |-> [type |-> "string"], enum |-> {Text("a")}])>>]
GetOne == [Op(V4(<<<<"parameter", "id">>>>), "get", <<"get", "worklog", "by", "id">>) EXCEPT
             !.pathParams = <<InPath("id"), [Query("day", FALSE, [type |-> "string"])
                                               EXCEPT !.in = "header"]>>,
             !.params = <<Query("limit", TRUE, [type |-> "number"])>>]
SearchPost(id, schema) ==
  [Op(V4(<<<<"literal", "search">>>>), "post", id) EXCEPT
     !.readLike = TRUE, !.body = Body(schema)]
CreatePost(schema) ==
  [Op(V4(<<>>), "post", <<"create", "worklog">>) EXCEPT !.body = Body(schema)]
Old == [Op(<<<<"literal", "3">>>>, "get", <<"list">>) EXCEPT !.effect = "read"]
Untagged == [Op(V4(<<>>), "delete", <<"delete", "worklog">>) EXCEPT !.tag = NotSet]

MCDocuments ==
  {[operations |-> {GetAll, GetOne, CreatePost([ref |-> "Worklog"]),
                     SearchPost(<<"search", "worklogs">>, [ref |-> "Either"]), Old, Untagged},
     components |-> MCSchemaNames],
    [operations |-> {GetAll, Op(V4(<<>>), "delete", <<"list">>), CreatePost([ref |-> "Both"]),
                     [Op(V4(<<>>), "put", <<"update", "worklogs">>) EXCEPT
                        !.effect = "ambiguous"],
                     SearchPost(<<"search">>, [ref |-> "Tree"])},
     components |-> MCSchemaNames],
    [operations |-> {GetOne, [GetOne EXCEPT !.params = <<>>],
                     CreatePost([ref |-> "Missing"])},
     components |-> MCSchemaNames]}

Argument(name, params, json) ==
  [resource |-> "worklogs", name |-> name, params |-> params, json |-> json]
MCArguments ==
  {Argument(n, [kind |-> Arr(<<Text("a")>>), limit |-> Whole("1")], NotSet) :
     n \in {<<"list">>, <<"get", "worklogs">>}}
  \cup
  {Argument(<<"list">>, p, NotSet) : p \in {[kind |-> Arr(<<>>)], <<>>, [kind |-> Text("a")]}}
  \cup
  {Argument(n, [limit |-> Whole("1"), id |-> Text("x"), day |-> Arr(<<Null>>)], NotSet) :
     n \in {<<"get">>, <<"update">>}}
  \cup
  {Argument(<<"create">>, <<>>, json) :
     json \in {Obj([day |-> Text("mon")]), Obj([day |-> Text("mon"), again |-> Null]),
               Obj([day |-> Text("tue")]), Obj([day |-> Text("mon"), other |-> Null])}}
  \cup
  {Argument(<<"search">>, <<>>, json) :
     json \in {Arr(<<Text("x"), Null>>), Obj([child |-> Obj([child |-> Whole("1")])])}}


\* The schemas of the documents, what their bodies are resolved to, and their parts.
DaysResolved == [type |-> "array", items |-> MCSchemaNames.Day]
WorklogResolved ==
  [WorklogBody EXCEPT !.properties.again = MCSchemaNames.Day, !.properties.days = DaysResolved]
Grandchild(schema) ==
  [type |-> "object",
   properties |-> [child |-> [type |-> "object", properties |-> [child |-> schema]]]]
WholeSchemas ==
  {[ref |-> name] : name \in {"Worklog", "Either", "Both", "Tree", "Missing"}}
  \cup Reference!Range(MCSchemaNames)
  \cup UNION {Reference!Range(op.pathParams \o op.params) : op \in {GetAll, GetOne}}
  \cup {[oneOf |-> {DaysResolved, WorklogResolved}],
        [allOf |-> {WorklogResolved, [type |-> "object", required |-> {"again"}]}],
        Grandchild([ref |-> "Tree"])}
MCSchemas ==
  LET AtDepth[n \in 0..3] ==
        IF n = 0 THEN WholeSchemas ELSE UNION {Reference!Children(s) : s \in AtDepth[n - 1]}
  IN  UNION {AtDepth[n] : n \in 0..3}

\* What arguments hold, and its parts.
Parts(v) == IF v.json \in {"array", "object"} THEN Reference!Range(v.of) ELSE {}
MCValues ==
  LET AtDepth[n \in 0..2] ==
        IF n = 0
        THEN (UNION {Reference!Range(argument.params) : argument \in MCArguments})
             \cup ({argument.json : argument \in MCArguments} \ {NotSet})
        ELSE UNION {Parts(v) : v \in AtDepth[n - 1]}
  IN  UNION {AtDepth[n] : n \in 0..2}

=============================================================================
