--------------------------- MODULE TempoCommands ---------------------------
(***************************************************************************)
(* The `drag` commands that talk to Tempo and Jira, one after another: a   *)
(* listing as a report or as an NDJSON stream (drag-cli/src/list.rs over   *)
(* drag/src/pagination.rs), an ordered deletion (delete.rs), `drag log`,   *)
(* `drag resolve` and a call of the OpenAPI reference, each through        *)
(* drag-cli/src/api.rs and its transport.rs.                               *)
(*                                                                         *)
(* Every attempt of a request may be answered, refused, lost or time out,  *)
(* also after it took effect; a page may break its promises; standard      *)
(* output may be closed. A listing that was bounded prints a continuation  *)
(* that a later one may resume.                                            *)
(***************************************************************************)
EXTENDS Integers, FiniteSets, SequencesExt

CONSTANTS
    Order,          \* the worklogs of the month as Tempo lists them
    Selected,       \* those of the user on the selected date
    IssueOf(_),     \* the issue of a worklog
    Limits,         \* what --limit and --page-limit may be
    PageLimits,
    DefaultLimit,   \* DEFAULT_RECORD_LIMIT, DEFAULT_PAGE_LIMIT, HARD_PAGE_LIMIT
    DefaultPages,
    HardPageLimit,
    MaxAttempts,    \* how often transport.rs tries a read
    PageCap,        \* how many worklogs Tempo returns on one page
    Batches         \* the batches of worklogs that are deleted

Ids == ToSet(Order)

ASSUME OrderAssumption == Order \in Seq(Nat) /\ IsInjective(Order) /\ Selected \subseteq Ids
ASSUME BoundsAssumption == {DefaultLimit, HardPageLimit, MaxAttempts, PageCap} \subseteq Nat \ {0}
ASSUME LimitsAssumption ==
    Limits \subseteq Nat \ {0} /\ PageLimits \cup {DefaultPages} \subseteq 1 .. HardPageLimit
ASSUME BatchesAssumption == Batches \subseteq Seq(Ids)

VARIABLES
    there,      \* Tempo: the worklogs of the month
    created,    \* Tempo: how many worklogs the command under way has created
    cmd,        \* the command: its kind and its arguments
    step,       \* where it is: the request it waits for, or "idle"
    tries,      \* how many attempts of that request have failed
    schedule,   \* the request of the schedule that a report makes meanwhile
    pages,      \* TraversalState
    fetched,    \* the worklogs of the pages read
    link,       \* the continuation to read next
    decided,    \* what consume_page decided
    queue,      \* stream: the worklogs of the page that are not yet written
    keys,       \* the issues whose key is known
    item,       \* delete: how many worklogs of the batch are dealt with
    out,        \* what the command printed and how it ended
    token,      \* the continuation the last listing printed
    sent,       \* history: mutating requests sent for the current item
    removed,    \* history: the worklogs this command has removed
    faulty,     \* history: Tempo broke a promise on a page of this command
    chain,      \* history: the worklogs of a listing and of those that resumed it
    intact      \* history: Tempo kept its promises and its worklogs meanwhile

listing == <<pages, fetched, link, decided, queue, keys>>
memory == <<token, chain, intact>>
vars == <<there, created, cmd, step, tries, schedule, listing, item, out, memory,
          sent, removed, faulty>>

Absent == 0
NoLink == [at |-> 0, limit |-> 0]
FirstLink(limit) == [at |-> 0, limit |-> limit]
NoToken == [link |-> NoLink, plan |-> [limit |-> 0, pages |-> 0]]
NoPlan == NoToken.plan
Fields == {"all", "ids", "none"}
NoCommand == [kind |-> "none", plan |-> NoPlan, resumed |-> FALSE, fields |-> "none",
              batch |-> <<>>, dry |-> FALSE, method |-> "GET"]
NothingPrinted == [status |-> "none", rows |-> <<>>, terminal |-> FALSE,
                   complete |-> FALSE, totals |-> FALSE]

-----------------------------------------------------------------------------
(* transport.rs and the classification of answers.                         *)

Answers == {"ok", "unavailable", "denied", "rejected", "timeout", "broken", "garbled"}
IsIdempotentRead(method) == method \in {"GET", "HEAD"}

\* Deviation: every request is retried.
RetriedAlways(method, answer, n) == answer \in {"unavailable", "timeout"} /\ n + 1 < MaxAttempts

(* 429, 502, 503, 504, a refused connection and a timeout.                 *)
Retried(method, answer, n) ==
    /\ IsIdempotentRead(method)
    /\ answer \in {"unavailable", "timeout"}
    /\ n + 1 < MaxAttempts

ErrorOf(answer) ==
    CASE answer = "denied" -> "authentication"
      [] answer \in {"rejected", "unavailable"} -> "rejected"
      [] answer = "garbled" -> "invalidResponse"
      [] OTHER -> "http"

(* A mutation may have happened unless Tempo refused it.                   *)
MayHaveHappened(method, answer) ==
    ~IsIdempotentRead(method) /\ answer \notin {"denied", "rejected"}

-----------------------------------------------------------------------------
(* Pagination.                                                             *)

AllPages == [limit |-> Absent, pages |-> HardPageLimit]
Arguments ==
    {a \in [limit : {Absent} \cup Limits, pages : {Absent} \cup PageLimits, all : BOOLEAN] :
        a.all => a.limit = Absent /\ a.pages = Absent}

OrElse(given, default) == IF given = Absent THEN default ELSE given

RequestedPlan(args, resumed) ==
    IF resumed THEN token.plan
    ELSE IF args.all THEN AllPages
    ELSE [limit |-> OrElse(args.limit, DefaultLimit), pages |-> OrElse(args.pages, DefaultPages)]

(* Options given along with a token must be those it was printed for.      *)
Compatible(args, plan) ==
    /\ args.all => plan = AllPages
    /\ plan = AllPages => args.limit = Absent /\ args.pages = Absent
    /\ args.limit \in {Absent, plan.limit} /\ args.pages \in {Absent, plan.pages}

Bounded(plan) == plan.limit # Absent
RequestLimit(plan, records) ==
    IF Bounded(plan) THEN (IF records < plan.limit THEN plan.limit - records ELSE 0)
    ELSE DefaultLimit

ShouldFollow(plan, n, records) ==
    n < plan.pages /\ (Bounded(plan) => records < plan.limit)

Decision(plan, n, records, hasNext) ==
    CASE ~hasNext -> "complete"
      [] hasNext /\ ShouldFollow(plan, n, records) -> "continue"
      [] hasNext /\ ~ShouldFollow(plan, n, records) ->
            IF ~Bounded(plan) /\ n >= HardPageLimit THEN "tooMany" ELSE "bounded"

(* parse_tempo_continuation: its limit must stay within the plan's.        *)
ValidContinuation(l, plan) == l.limit \in 1 .. OrElse(plan.limit, DefaultLimit)

(* The worklogs of a sequence that are in a set, in their order.           *)
Only(worklogs, set) ==
    LET among[n \in 0 .. Len(worklogs)] ==
          IF n = 0 THEN <<>>
          ELSE IF worklogs[n] \in set THEN Append(among[n - 1], worklogs[n]) ELSE among[n - 1]
    IN  among[Len(worklogs)]

(* Tempo's side: a page, and the link to the next.                         *)
Listing == Only(Order, there)
Page(l) ==
    LET last == Min({Len(Listing), l.at + l.limit, l.at + PageCap})
    IN  [results |-> SubSeq(Listing, l.at + 1, last),
         next |-> IF last < Len(Listing) THEN [l EXCEPT !.at = last] ELSE NoLink]
FaultyPages(l) ==
    {[results |-> SubSeq(Listing, l.at + 1, Len(Listing)), next |-> NoLink],
     [Page(l) EXCEPT !.next = l],
     [Page(l) EXCEPT !.next = [at |-> l.at, limit |-> l.limit + DefaultLimit + PageCap]]}

-----------------------------------------------------------------------------
Init ==
    /\ there = Ids
    /\ created = 0
    /\ cmd = NoCommand /\ step = "idle" /\ tries = 0
    /\ schedule = [pending |-> FALSE, tries |-> 0]
    /\ pages = 0 /\ fetched = <<>> /\ link = NoLink /\ decided = "continue"
    /\ queue = <<>> /\ keys = {}
    /\ item = 0
    /\ out = NothingPrinted
    /\ token = NoToken
    /\ sent = 0 /\ removed = {} /\ faulty = FALSE
    /\ chain = <<>> /\ intact = FALSE

(* A command starts with nothing read and nothing done, unless its         *)
(* arguments end it at once.                                               *)
Start(c, first, status) ==
    /\ step = "idle"
    /\ cmd' = c /\ step' = first /\ tries' = 0
    /\ schedule' = [pending |-> c.kind = "list" /\ first # "idle", tries |-> 0]
    /\ pages' = 0 /\ fetched' = <<>> /\ decided' = "continue"
    /\ link' = IF c.resumed THEN token.link ELSE FirstLink(RequestLimit(c.plan, 0))
    /\ queue' = <<>> /\ keys' = {} /\ item' = 0
    /\ out' = [NothingPrinted EXCEPT !.status = status]
    /\ created' = 0 /\ sent' = 0 /\ removed' = {} /\ faulty' = FALSE
    /\ UNCHANGED <<there, memory>>

Begin(c, first) == Start(c, first, "none")
Refuse(c) == Start(c, "idle", "invalidInput")
DryRun(c) == Start([c EXCEPT !.dry = TRUE], "idle", "ok")

Goes(to) == step' = to /\ tries' = 0

(* It ends: the requests still under way are dropped.                      *)
Ends(status) ==
    /\ Goes("idle")
    /\ schedule' = [pending |-> FALSE, tries |-> 0]
    /\ out' = [out EXCEPT !.status = status]

List(kind, args, resumed, fields) ==
    /\ resumed => token # NoToken
    /\ LET plan == RequestedPlan(args, resumed)
           c == [NoCommand EXCEPT !.kind = kind, !.plan = plan, !.resumed = resumed,
                                  !.fields = fields]
       IN  IF resumed /\ ~Compatible(args, plan)
           THEN Refuse(c)
           ELSE Begin(c, IF kind = "stream" THEN "schedule" ELSE "page")

Delete(batch, dry) ==
    LET c == [NoCommand EXCEPT !.kind = "delete", !.batch = batch, !.dry = dry]
    IN  IF batch = <<>> THEN Refuse(c) ELSE Begin(c, "worklog")

Log ==
    LET c == [NoCommand EXCEPT !.kind = "log"]
    IN  Refuse(c) \/ DryRun(c) \/ Begin(c, "issue")

Resolve ==
    LET c == [NoCommand EXCEPT !.kind = "resolve"]
    IN  Refuse(c) \/ Begin(c, "issue")

TempoCall(method) ==
    LET c == [NoCommand EXCEPT !.kind = "tempo", !.method = method]
    IN  Refuse(c) \/ DryRun(c) \/ Begin(c, "call")

-----------------------------------------------------------------------------
(* An attempt of the request the command waits for.                        *)

Requests == {"schedule", "page", "keys", "rowKey", "worklog", "worklogKey", "delete",
             "issue", "attributes", "post", "hint", "call"}
Method == CASE step = "delete" -> "DELETE"
            [] step = "post" -> "POST"
            [] step = "call" -> cmd.method
            [] OTHER -> "GET"

(* The worklogs a listing is about, and the issues whose key it lacks.     *)
Chosen(worklogs) == Only(worklogs, Selected)
Unknown(worklogs) == {IssueOf(w) : w \in ToSet(Chosen(worklogs))} \ keys

(* The report asks for a key once the worklogs and the schedule are there. *)
Waits ==
    /\ step \in Requests
    /\ step = "keys" => ~schedule.pending /\ Unknown(fetched) # {}

Sent == sent' = IF IsIdempotentRead(Method) THEN sent ELSE sent + 1

(* What a mutation does to Tempo, however it is answered.                  *)
Effect(happens) ==
    IF ~happens THEN UNCHANGED <<there, created, removed>>
    ELSE IF step = "delete"
    THEN /\ there' = there \ {cmd.batch[item + 1]}
         /\ removed' = removed \cup {cmd.batch[item + 1]}
         /\ UNCHANGED created
    ELSE created' = created + 1 /\ UNCHANGED <<there, removed>>

Undisturbed ==
    /\ intact' = (intact /\ there' = there)
    /\ chain' = IF intact' THEN chain ELSE <<>>

Retry ==
    /\ Waits
    /\ \E answer \in Answers \ {"ok"}, happens \in BOOLEAN :
          /\ Retried(Method, answer, tries)
          /\ happens => MayHaveHappened(Method, answer)
          /\ Effect(happens)
    /\ tries' = tries + 1
    /\ Sent /\ Undisturbed
    /\ UNCHANGED <<cmd, step, schedule, listing, item, out, token, faulty>>

(* A POST that is refused for an attribute is explained with one more      *)
(* read, whose failure does not matter; every other failure ends the       *)
(* command.                                                                *)
Fails(answer) ==
    \/ step = "post" /\ answer = "rejected" /\ Goes("hint") /\ UNCHANGED <<item, schedule, out>>
    \/ Ends(IF step = "hint" THEN "rejected" ELSE ErrorOf(answer)) /\ UNCHANGED item

RequestFails ==
    /\ Waits
    /\ \E answer \in Answers \ {"ok"}, happens \in BOOLEAN :
          /\ ~Retried(Method, answer, tries)
          /\ happens => MayHaveHappened(Method, answer)
          /\ Effect(happens)
          /\ Fails(answer)
    /\ Sent /\ Undisturbed
    /\ UNCHANGED <<cmd, listing, token, faulty>>

(* The schedule that a report reads at the same time.                      *)
ScheduleArrives ==
    /\ schedule.pending
    /\ schedule' = [pending |-> FALSE, tries |-> 0]
    /\ UNCHANGED <<there, created, cmd, step, tries, listing, item, out, memory, sent, removed,
                   faulty>>

ScheduleFails ==
    /\ schedule.pending
    /\ \E answer \in Answers \ {"ok"} :
          IF Retried("GET", answer, schedule.tries)
          THEN schedule' = [schedule EXCEPT !.tries = @ + 1] /\ UNCHANGED <<step, tries, out>>
          ELSE Ends(ErrorOf(answer))
    /\ UNCHANGED <<there, created, cmd, listing, item, memory, sent, removed, faulty>>

StreamSchedule ==
    /\ step = "schedule"
    /\ Goes("page")
    /\ UNCHANGED <<there, created, cmd, schedule, listing, item, out, memory, sent, removed,
                   faulty>>

-----------------------------------------------------------------------------
(* Reading pages.                                                          *)

\* Deviation: the pages are not counted.
ConsumedUncounted(page) ==
    /\ fetched' = fetched \o page.results
    /\ decided' = Decision(cmd.plan, pages, Len(fetched'), page.next # NoLink)
    /\ link' = page.next
    /\ UNCHANGED pages

(* consume_page.                                                           *)
Consumed(page) ==
    /\ fetched' = fetched \o page.results
    /\ pages' = pages + 1
    /\ decided' = Decision(cmd.plan, pages + 1, Len(fetched'), page.next # NoLink)
    /\ link' = page.next

PageFits(page) ==
    /\ Len(page.results) <= RequestLimit(cmd.plan, Len(fetched))
    /\ page.next # NoLink => ValidContinuation(page.next, cmd.plan)

AfterPage ==
    IF decided' = "continue" THEN "page" ELSE "keys"

PageArrives ==
    /\ step = "page"
    /\ \E page \in {Page(link)} \cup FaultyPages(link) :
          /\ faulty' = (faulty \/ page # Page(link))
          /\ IF ~PageFits(page)
             THEN Ends("invalidResponse") /\ UNCHANGED listing
             ELSE /\ Consumed(page)
                  /\ IF decided' = "tooMany"
                     THEN Ends("invalidResponse") /\ UNCHANGED <<queue, keys>>
                     ELSE IF cmd.kind = "stream"
                     THEN Goes("row") /\ queue' = page.results /\ UNCHANGED <<schedule, out, keys>>
                     ELSE Goes(AfterPage) /\ UNCHANGED <<schedule, out, queue, keys>>
    /\ UNCHANGED <<there, created, cmd, item, memory, sent, removed>>

(* What the chosen columns leave of them.                                  *)
Rows(worklogs) == IF cmd.fields = "none" THEN <<>> ELSE Chosen(worklogs)

(* pagination_metadata.                                                    *)
TotalsComplete == ~cmd.resumed /\ decided = "complete"

\* Deviation: the continuation of a bounded listing is where it began.
PrintsFirst == IF cmd.resumed THEN token ELSE [link |-> FirstLink(1), plan |-> cmd.plan]

PrintsToken ==
    IF decided = "complete" THEN NoToken ELSE [link |-> link, plan |-> cmd.plan]

(* The last line of a listing: where it ended and how to go on.            *)
Concludes(rows) ==
    /\ Goes("idle") /\ UNCHANGED schedule
    /\ out' = [status |-> "ok", rows |-> rows, terminal |-> TRUE,
               complete |-> decided = "complete", totals |-> TotalsComplete]
    /\ token' = PrintsToken
    /\ intact' = (~faulty /\ (cmd.resumed => intact))
    /\ chain' = CASE ~intact' -> <<>>
                 [] intact' /\ cmd.resumed -> chain \o fetched
                 [] intact' /\ ~cmd.resumed -> fetched

-----------------------------------------------------------------------------
(* The report: a key per issue of the chosen worklogs, then one output.    *)

ReportKey ==
    /\ step = "keys" /\ ~schedule.pending
    /\ Unknown(fetched) # {}
    /\ keys' = keys \cup {Min(Unknown(fetched))}
    /\ tries' = 0
    /\ UNCHANGED <<there, created, cmd, step, schedule, pages, fetched, link, decided, queue,
                   item, out, memory, sent, removed, faulty>>

Report ==
    /\ step = "keys" /\ ~schedule.pending
    /\ Unknown(fetched) = {}
    /\ \/ Concludes(Rows(fetched))
       \/ \E error \in {"invalidResponse", "io"} : Ends(error) /\ UNCHANGED memory
    /\ UNCHANGED <<there, created, cmd, listing, item, sent, removed, faulty>>

(* The stream: each row as its page arrives, each issue resolved once.     *)
NeedsKey(w) == cmd.fields = "all" /\ IssueOf(w) \notin keys

SkipRow ==
    /\ step = "row" /\ queue # <<>>
    /\ Head(queue) \notin Selected \/ cmd.fields = "none"
    /\ queue' = Tail(queue)
    /\ UNCHANGED <<there, created, cmd, step, tries, schedule, pages, fetched, link, decided,
                   keys, item, out, memory, sent, removed, faulty>>

AskKey ==
    /\ step = "row" /\ queue # <<>>
    /\ Head(queue) \in Selected /\ NeedsKey(Head(queue))
    /\ Goes("rowKey")
    /\ UNCHANGED <<there, created, cmd, schedule, listing, item, out, memory, sent, removed,
                   faulty>>

\* Deviation: the row whose key was asked for is passed over.
RowKeySkips ==
    /\ step = "rowKey"
    /\ Goes("row")
    /\ keys' = keys \cup {IssueOf(Head(queue))}
    /\ queue' = Tail(queue)
    /\ UNCHANGED <<there, created, cmd, schedule, pages, fetched, link, decided, item,
                   out, memory, sent, removed, faulty>>

RowKey ==
    /\ step = "rowKey"
    /\ Goes("row")
    /\ keys' = keys \cup {IssueOf(Head(queue))}
    /\ UNCHANGED <<there, created, cmd, schedule, pages, fetched, link, decided, queue, item,
                   out, memory, sent, removed, faulty>>

(* A closed pipe ends the command without an error.                        *)
PipeCloses == Ends("ok") /\ UNCHANGED <<listing, memory>>
WriteFails == \E error \in {"invalidResponse", "io"} : Ends(error) /\ UNCHANGED <<listing, memory>>

WriteRow ==
    /\ step = "row" /\ queue # <<>>
    /\ Head(queue) \in Selected /\ cmd.fields # "none" /\ ~NeedsKey(Head(queue))
    /\ \/ /\ out' = [out EXCEPT !.rows = Append(@, Head(queue))]
          /\ queue' = Tail(queue)
          /\ UNCHANGED <<step, tries, schedule, pages, fetched, link, decided, keys, memory>>
       \/ PipeCloses
       \/ WriteFails
    /\ UNCHANGED <<there, created, cmd, item, sent, removed, faulty>>

PageWritten ==
    /\ step = "row" /\ queue = <<>>
    /\ IF decided = "continue"
       THEN Goes("page") /\ UNCHANGED <<schedule, out, memory>>
       ELSE Concludes(out.rows)
    /\ UNCHANGED <<there, created, cmd, listing, item, sent, removed, faulty>>

(* The pipe closes at the summary or the pagination line.                  *)
SummaryLost ==
    /\ step = "row" /\ queue = <<>> /\ decided # "continue"
    /\ PipeCloses \/ WriteFails
    /\ UNCHANGED <<there, created, cmd, item, sent, removed, faulty>>

-----------------------------------------------------------------------------
(* Deletion: the worklog and its issue are read before it is deleted.      *)

Current == cmd.batch[item + 1]

WorklogFound ==
    /\ step = "worklog" /\ Current \in there
    /\ Goes("worklogKey")
    /\ UNCHANGED <<there, created, cmd, schedule, listing, item, out, memory, sent, removed,
                   faulty>>

NextItem ==
    /\ item' = item + 1 /\ sent' = 0
    /\ IF item + 1 < Len(cmd.batch)
       THEN Goes("worklog") /\ UNCHANGED <<schedule, out>>
       ELSE Ends("ok")

Described == IF cmd.dry THEN NextItem ELSE Goes("delete") /\ UNCHANGED <<item, sent, schedule, out>>

WorklogKey ==
    /\ step = "worklogKey"
    /\ \/ Described
       \/ Ends("invalidResponse") /\ UNCHANGED <<item, sent>>
    /\ UNCHANGED <<there, created, cmd, listing, memory, removed, faulty>>

Deleted ==
    /\ step = "delete" /\ Current \in there
    /\ Effect(TRUE) /\ Undisturbed
    /\ NextItem
    /\ UNCHANGED <<cmd, listing, token, faulty>>

-----------------------------------------------------------------------------
(* `drag log`, `drag resolve` and `drag tempo`.                            *)

IssueResolved ==
    /\ step = "issue"
    /\ Goes(IF cmd.kind = "log" THEN "post" ELSE "attributes")
    /\ UNCHANGED <<there, created, cmd, schedule, listing, item, out, memory, sent, removed,
                   faulty>>

Answered ==
    /\ step \in {"attributes", "post", "hint", "call"}
    /\ Effect(~IsIdempotentRead(Method))
    /\ Sent
    /\ \/ Ends(IF step = "hint" THEN "rejected" ELSE "ok")
       \/ step = "post" /\ Ends("invalidResponse")
    /\ UNCHANGED <<cmd, listing, item, memory, faulty>>

Starts ==
    \/ \E kind \in {"list", "stream"}, args \in Arguments, resumed \in BOOLEAN, fields \in Fields :
          List(kind, args, resumed, fields)
    \/ \E batch \in Batches, dry \in BOOLEAN : Delete(batch, dry)
    \/ Log
    \/ Resolve
    \/ \E method \in {"GET", "POST"} : TempoCall(method)

Steps ==
    \/ Retry \/ RequestFails
    \/ ScheduleArrives \/ ScheduleFails \/ StreamSchedule
    \/ PageArrives
    \/ ReportKey \/ Report
    \/ SkipRow \/ AskKey \/ RowKey \/ WriteRow \/ PageWritten \/ SummaryLost
    \/ WorklogFound \/ WorklogKey \/ Deleted
    \/ IssueResolved \/ Answered

Next == Starts \/ Steps

(* Every request is answered or times out; nobody has to start a command.  *)
Spec == Init /\ [][Next]_vars /\ WF_vars(Steps)

-----------------------------------------------------------------------------
(* Properties                                                              *)

Links == [at : Nat, limit : Nat]
Plans == [limit : Nat, pages : Nat]

TypeOK ==
    /\ there \subseteq Ids /\ removed \subseteq Ids
    /\ cmd.plan \in Plans /\ cmd.batch \in Seq(Ids) /\ cmd.fields \in Fields
    /\ step \in Requests \cup {"idle", "row"}
    /\ tries \in 0 .. MaxAttempts - 1
    /\ schedule \in [pending : BOOLEAN, tries : 0 .. MaxAttempts - 1]
    /\ pages \in 0 .. HardPageLimit /\ fetched \in Seq(Ids) /\ link \in Links
    /\ decided \in {"continue", "complete", "bounded", "tooMany"}
    /\ item \in 0 .. Len(cmd.batch)
    /\ token \in [link : Links, plan : Plans]
    /\ {created, sent} \subseteq Nat

(* Reads are tried again, but a request that changes Tempo leaves the      *)
(* client once, whatever becomes of its answer (transport.rs:21-47).       *)
MutatesOnce ==
    /\ sent <= 1 /\ created <= 1
    /\ step \in Requests /\ ~IsIdempotentRead(Method) => sent = 0

(* A deletion goes through its batch in order and stops at the first       *)
(* failure: what it removed is what it has dealt with and, once it has     *)
(* ended, at most the next one, whose answer it never got. A dry run       *)
(* removes nothing, and success means that all are gone.                   *)
DealtWith == {cmd.batch[i] : i \in 1 .. item}
DeletesPrefix ==
    /\ cmd.kind # "delete" \/ cmd.dry => removed = {}
    /\ cmd.kind = "delete" /\ ~cmd.dry =>
          /\ DealtWith \subseteq removed
          /\ removed \subseteq DealtWith \cup
                (IF step = "idle" /\ item < Len(cmd.batch) THEN {cmd.batch[item + 1]} ELSE {})
          /\ out.status = "ok" => item = Len(cmd.batch)

Inv == TypeOK /\ MutatesOnce /\ DeletesPrefix

(* A bounded listing and those that resume it from its token list every    *)
(* worklog up to where the last one stopped, once and in order, and one    *)
(* that claims the totals of the month has read all of the month.          *)
ListingsAddUp ==
    /\ intact => chain = SubSeq(Listing, 1, IF token = NoToken THEN Len(Listing)
                                            ELSE token.link.at)
    /\ out.totals /\ ~faulty => ToSet(fetched) = there

(* What the stream writes row by row is what the report would print: a     *)
(* consumer that sees the pagination line has seen every row, and one that *)
(* does not has seen the first of them.                                    *)
StreamAgrees ==
    /\ IsPrefix(out.rows, Rows(fetched))
    /\ out.terminal => out.rows = Rows(fetched)

(* Every command ends, also when each page links to itself.                *)
EveryCommandEnds == step # "idle" ~> step = "idle"
=============================================================================
