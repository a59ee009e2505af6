--------------------------- MODULE DocumentCache ---------------------------
(***************************************************************************)
(* Tempo's OpenAPI document as drag keeps it: the document in one file,    *)
(* its entity tag in another, read and written by any number of drag       *)
(* processes, which may die at any step.  The documents are numbered in    *)
(* the order in which Tempo publishes them; a tag is the number of its     *)
(* document.                                                               *)
(***************************************************************************)
EXTENDS Naturals, Sequences

CONSTANTS
  Loaders,      \* the processes
  LastDocument, \* a bound: how many documents Tempo publishes
  WellFormed,     \* the documents that are YAML
  Tagged,       \* the documents Tempo sends an entity tag with
  NotSet

VARIABLES
  server,       \* the document Tempo has
  cache, etag,  \* the two files, or NotSet
  young,        \* the cache file is younger than a day
  load,         \* for each process: [at, doc, sent, todo]
  overlapped    \* a load went to Tempo while another was under way (history)

vars == <<server, cache, etag, young, load, overlapped>>

-----------------------------------------------------------------------------
Idle == [at |-> "idle", doc |-> NotSet, sent |-> NotSet, todo |-> <<>>]

Init == /\ server = 1
        /\ cache = NotSet /\ etag = NotSet /\ young = FALSE
        /\ load = [l \in Loaders |-> Idle]
        /\ overlapped = FALSE

Publish == /\ server < LastDocument /\ server' = server + 1
           /\ UNCHANGED <<cache, etag, young, load, overlapped>>

Expire == /\ young' = FALSE
          /\ UNCHANGED <<server, cache, etag, load, overlapped>>

\* Deviation: the tag is on disk before what it is the tag of.
TagFirst == <<"tag", "cache">>

\* The two files are written one after the other, the document by a rename.
WriteOrder == <<"cache", "tag">>

UnderWay(l) == load[l].at \in {"asked", "writing"}

\* A fresh cache is used as it is.
UseFresh(l) ==
  /\ load[l].at = "idle" /\ cache # NotSet /\ young
  /\ load' = [load EXCEPT ![l] = [Idle EXCEPT !.at = "loaded", !.doc = cache]]
  /\ UNCHANGED <<server, cache, etag, young, overlapped>>

\* Otherwise Tempo is asked, with the tag of the other file if there is a cache.
Ask(l) ==
  /\ load[l].at = "idle" /\ ~(cache # NotSet /\ young)
  /\ load' = [load EXCEPT ![l] =
       [Idle EXCEPT !.at = "asked", !.sent = IF cache = NotSet THEN NotSet ELSE etag]]
  /\ overlapped' = (overlapped \/ \E other \in Loaders : UnderWay(other))
  /\ UNCHANGED <<server, cache, etag, young>>

\* Not modified: the cache is read and written again, to renew its age.
NotModified(l) ==
  /\ load[l].at = "asked" /\ load[l].sent = server
  /\ load' = [load EXCEPT ![l] =
       IF cache = NotSet THEN Idle
       ELSE [@ EXCEPT !.at = "writing", !.doc = cache, !.todo = <<"cache">>]]
  /\ UNCHANGED <<server, cache, etag, young, overlapped>>

\* A document that cannot be parsed is not written.
Fetched(l) ==
  /\ load[l].at = "asked" /\ load[l].sent # server
  /\ load' = [load EXCEPT ![l] =
       IF server \notin WellFormed THEN Idle
       ELSE [@ EXCEPT !.at = "writing", !.doc = server,
               !.todo = IF server \in Tagged THEN WriteOrder ELSE <<"cache">>]]
  /\ UNCHANGED <<server, cache, etag, young, overlapped>>

Writing(l, file) == load[l].at = "writing" /\ Head(load[l].todo) = file

Written(l) ==
  load' = [load EXCEPT ![l].todo = Tail(@),
                       ![l].at = IF Len(load[l].todo) = 1 THEN "loaded" ELSE @]

WriteCache(l) ==
  /\ Writing(l, "cache")
  /\ cache' = load[l].doc /\ young' = TRUE
  /\ Written(l)
  /\ UNCHANGED <<server, etag, overlapped>>

WriteTag(l) ==
  /\ Writing(l, "tag")
  /\ etag' = load[l].doc
  /\ Written(l)
  /\ UNCHANGED <<server, cache, young, overlapped>>

\* A process is killed, or Tempo or the disk fails it.  On Windows the old document
\* is removed before the rename, and the tag is truncated before it is written.
Die(l) ==
  /\ UnderWay(l)
  /\ \/ UNCHANGED <<cache, etag>>
     \/ Writing(l, "cache") /\ cache' = NotSet /\ UNCHANGED etag
     \/ Writing(l, "tag") /\ etag' = NotSet /\ UNCHANGED cache
  /\ load' = [load EXCEPT ![l] = Idle]
  /\ UNCHANGED <<server, young, overlapped>>

\* The command derives its operations from the document it was given.
Use(l) ==
  /\ load[l].at = "loaded"
  /\ load' = [load EXCEPT ![l] = Idle]
  /\ UNCHANGED <<server, cache, etag, young, overlapped>>

Step(l) == \/ UseFresh(l) \/ Ask(l) \/ NotModified(l) \/ Fetched(l)
           \/ WriteCache(l) \/ WriteTag(l) \/ Die(l) \/ Use(l)

Next == Publish \/ Expire \/ \E l \in Loaders : Step(l)

Spec == Init /\ [][Next]_vars

-----------------------------------------------------------------------------
(* The properties.                                                         *)

\* Types, and that only documents that could be parsed are kept or used.
TypeOK ==
  /\ server \in 1..LastDocument
  /\ cache \in WellFormed \cup {NotSet} /\ etag \in WellFormed \cup {NotSet}
  /\ young \in BOOLEAN /\ overlapped \in BOOLEAN
  /\ \A l \in Loaders : load[l].at \in {"writing", "loaded"} => load[l].doc \in WellFormed

\* The answer "not modified" never stands for a document Tempo no longer has:
\* if the tag on disk is the current one, so is the document on disk, even
\* after processes died between the two writes (load_document writes the
\* document before its tag).  Loads that overlap may break it.
RevalidatedIsCurrent ==
  ~overlapped /\ cache # NotSet /\ etag = server => cache = server

Inv == TypeOK /\ RevalidatedIsCurrent

=============================================================================
