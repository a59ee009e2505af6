--------------------------- MODULE TempoReference ---------------------------
(***************************************************************************)
(* The commands drag generates from Tempo's OpenAPI document: deriving a   *)
(* command from every operation in it, and turning arguments into a        *)
(* request.  How the document gets here is DocumentCache's.                *)
(*                                                                         *)
(* An operation is a record: path, http, tag, id, effect, readLike,        *)
(* pathParams, params and body; an id is the sequence of its words, a path *)
(* a sequence of <<"literal", word>> and <<"parameter", name>>; a required *)
(* parameter or body is "needed", as a schema requires properties.  A JSON *)
(* value is [json, of], a schema a record of the keywords it has.  A       *)
(* schema is resolved as many levels of schemas deep as the code allows    *)
(* levels of JSON; the limit on a document's size is left out.             *)
(***************************************************************************)
EXTENDS Naturals, Sequences, FiniteSets, Functions, FiniteSetsExt

CONSTANTS
  Documents,    \* what Tempo may have published
  Schemas,      \* their schemas, with their parts and what they resolve to
  Values,       \* JSON values, with their parts
  Singular,     \* a resource's name without its last s
  Arguments,    \* [resource, name, params, json]: what a user may pass
  MaxRefDepth,  \* how deep references are resolved
  NotSet

VARIABLES
  document,    \* the document the command was given
  prepared     \* the request prepared in the last step: [argument, request]

vars == <<document, prepared>>

-----------------------------------------------------------------------------
(* Schemas.                                                                *)

Has(s, keyword) == keyword \in DOMAIN s

Children(s) ==
  (IF Has(s, "properties") THEN Range(s.properties) ELSE {})
  \cup {s[k] : k \in DOMAIN s \cap {"items", "schema"}}
  \cup (IF Has(s, "oneOf") THEN s.oneOf ELSE {})
  \cup (IF Has(s, "allOf") THEN s.allOf ELSE {})

\* A schema, each schema in it by what it resolves to.
WithChildren(s, resolved) ==
  [k \in DOMAIN s |->
     CASE k = "properties" -> [n \in DOMAIN s.properties |-> resolved[s.properties[n]]]
       [] k \in {"items", "schema"} -> resolved[s[k]]
       [] k \in {"oneOf", "allOf"} -> {resolved[c] : c \in s[k]}
       [] OTHER -> s[k]]

\* Keywords beside a reference win over those of what it refers to.
Beside(s, target) ==
  [k \in (DOMAIN s \ {"ref"}) \cup DOMAIN target |->
     IF k \in DOMAIN s \ {"ref"} THEN s[k] ELSE target[k]]

\* One level of a schema resolved, given the next, or NotSet: a reference to nothing
\* and too many levels are errors, wherever they are.  A reference back to what is
\* being resolved stays.
Resolved(s, doc, stack, next) ==
  IF Has(s, "ref")
  THEN LET target == next[stack \cup {s.ref}][doc.components[s.ref]]
       IN  IF s.ref \in stack THEN s
           ELSE IF s.ref \notin DOMAIN doc.components \/ target = NotSet THEN NotSet
           ELSE Beside(s, target)
  ELSE IF \E c \in Children(s) : next[stack][c] = NotSet THEN NotSet
  ELSE WithChildren(s, next[stack])

Resolving(doc) ==
  LET Into[left \in 0..(MaxRefDepth + 1)] ==
        [stack \in SUBSET DOMAIN doc.components |-> [s \in Schemas |->
           IF left = 0 THEN NotSet ELSE Resolved(s, doc, stack, Into[left - 1])]]
  IN  Into

ResolveLocalRefs(s, doc) == Resolving(doc)[MaxRefDepth + 1][{}][s]

Allowed(value, enum) == \E a \in enum : a.json = value.json /\ a.of = value.of

HasType(value, type) ==
  \/ value.json = type
  \/ type = "number" /\ value.json = "integer"

\* The values a schema allows, given those of the schemas in it. oneOf and anyOf
\* are one thing, and settle the matter.
Allows(s, values) ==
  {value \in Values :
     \/ value.json = "null" /\ Has(s, "nullable")
     \/ /\ Has(s, "enum") => Allowed(value, s.enum)
        /\ IF Has(s, "oneOf") THEN \E c \in s.oneOf : value \in values[c]
           ELSE /\ Has(s, "allOf") => \A c \in s.allOf : value \in values[c]
                /\ Has(s, "type") =>
                     /\ HasType(value, s.type)
                     /\ s.type = "object" =>
                          /\ Has(s, "required") => s.required \subseteq DOMAIN value.of
                          /\ Has(s, "closed") =>
                               Has(s, "properties") /\ DOMAIN value.of \subseteq DOMAIN s.properties
                          /\ Has(s, "properties") =>
                               \A n \in DOMAIN s.properties \cap DOMAIN value.of :
                                 value.of[n] \in values[s.properties[n]]
                     /\ s.type = "array" /\ Has(s, "items") =>
                          \A i \in DOMAIN value.of : value.of[i] \in values[s.items]}

ValidateJsonSchema[s \in Schemas] == Allows(s, ValidateJsonSchema)

-----------------------------------------------------------------------------
(* Operations and their names.                                             *)

\* executable_operations: of the fourth version, with a tag and an id.
Executable(doc) ==
  {op \in doc.operations : /\ op.path # <<>> /\ op.path[1] = <<"literal", "4">>
                           /\ op.tag # NotSet /\ op.id # NotSet}

Duplicated(doc) ==
  \E a, b \in Executable(doc) : a # b /\ a.tag = b.tag /\ a.id = b.id

\* friendly_method_name.
IsItem(op) == op.path[Len(op.path)][1] = "parameter"

FriendlyMethodName(op) ==
  LET own == {op.tag, Singular[op.tag]}
      whole == Len(op.id) = 2 /\ op.id[2] \in own
  IN  CASE op.id[1] \in {"create", "update", "delete", "search"} /\ whole -> <<op.id[1]>>
        [] /\ op.id[1] = "get" /\ op.http = "get" /\ IsItem(op)
           /\ Len(op.id) > 1 /\ op.id[2] \in own -> <<"get">>
        [] op.id[1] = "get" /\ op.http = "get" /\ ~IsItem(op) /\ whole -> <<"list">>
        [] OTHER -> NotSet

\* Deviation: an alias may be the id of another operation.
AliasAmongAliases(op, doc) ==
  /\ FriendlyMethodName(op) # NotSet
  /\ \A other \in Executable(doc) \ {op} :
       other.tag = op.tag => FriendlyMethodName(other) # FriendlyMethodName(op)

\* An alias two operations of the resource have, or that is an id, is dropped.
AliasStands(op, doc) ==
  /\ FriendlyMethodName(op) # NotSet
  /\ \A other \in Executable(doc) \ {op} :
       other.tag = op.tag => FriendlyMethodName(other) # FriendlyMethodName(op)
  /\ \A other \in Executable(doc) :
       other.tag = op.tag => other.id # FriendlyMethodName(op)

Names(op, doc) ==
  {op.id} \cup (IF AliasStands(op, doc) THEN {FriendlyMethodName(op)} ELSE {})

\* find_executable_operation, and the commands of build_command.
Called(doc, resource, name) ==
  {op \in Executable(doc) : op.tag = resource /\ name \in Names(op, doc)}

Effect(op) ==
  CASE op.effect # NotSet -> op.effect
    [] op.effect = NotSet /\ op.http = "get" -> "read"
    [] op.effect = NotSet /\ op.http = "post" /\ op.readLike -> "ambiguous"
    [] op.effect = NotSet /\ op.http = "post" /\ ~op.readLike -> "mutation"
    [] op.effect = NotSet /\ op.http \in {"put", "patch", "delete"} -> "mutation"
    [] OTHER -> "ambiguous"

-----------------------------------------------------------------------------
(* From arguments to a request.                                            *)

\* A parameter of the operation replaces one of the path with its name.
ParameterDefinitions(op, doc) ==
  LET all == [i \in DOMAIN (op.pathParams \o op.params) |->
                ResolveLocalRefs((op.pathParams \o op.params)[i], doc)]
      names == {all[i].name : i \in DOMAIN all}
  IN  [n \in names |-> all[Max({i \in DOMAIN all : all[i].name = n})]]

ScalarTypes == {"string", "integer", "number", "boolean"}

ParameterValues(value) == IF value.json = "array" THEN value.of ELSE <<value>>

\* Only a string can be one of the allowed values.
ValidParameter(value, definition) ==
  LET s == definition.schema
      values == ParameterValues(value)
  IN  /\ IF Has(s, "type") THEN HasType(value, s.type) ELSE value.json \in ScalarTypes
      /\ \A i \in DOMAIN values :
           /\ values[i].json \in ScalarTypes
           /\ Has(s, "enum") => \E a \in s.enum : a.json = "string" /\ a.of = values[i].of

PathParameters(op) ==
  {segment[2] : segment \in {s \in Range(op.path) : s[1] = "parameter"}}

\* Parameters of the header are accepted and not looked at.
ValidParameters(op, params, definitions) ==
  /\ DOMAIN params \subseteq DOMAIN definitions
  /\ \A n \in DOMAIN definitions : definitions[n].needed => n \in DOMAIN params
  /\ \A n \in PathParameters(op) : /\ n \in DOMAIN params
                                   /\ ValidParameter(params[n], definitions[n])
                                   /\ ParameterValues(params[n]) # <<>>
  /\ \A n \in DOMAIN params :
       definitions[n].in = "query" => ValidParameter(params[n], definitions[n])

\* Of an array only the first value is put into the path.
PathOf(op, params) ==
  [i \in DOMAIN op.path |->
     IF op.path[i][1] = "parameter" THEN Head(ParameterValues(params[op.path[i][2]])).of
     ELSE op.path[i][2]]

QueryPairs(params, definitions) ==
  UNION {{<<n, v.of>> : v \in Range(ParameterValues(params[n]))} :
         n \in {m \in DOMAIN params : definitions[m].in = "query"}}

\* The body is resolved, and its schema once more to validate a value.
BodySchema(op, doc) == ResolveLocalRefs(op.body.schema, doc)

\* No body unless the operation has one; a missing one only if it may be.
ValidBody(op, json, doc) ==
  \/ op.body = NotSet /\ json = NotSet
  \/ op.body # NotSet /\ json = NotSet /\ ~op.body.needed
  \/ LET schema == ResolveLocalRefs(BodySchema(op, doc), doc)
     IN  /\ op.body # NotSet /\ json # NotSet
         /\ schema # NotSet /\ json \in ValidateJsonSchema[schema]

AllResolvable(op, doc) ==
  /\ \A i \in DOMAIN (op.pathParams \o op.params) :
       ResolveLocalRefs((op.pathParams \o op.params)[i], doc) # NotSet
  /\ op.body # NotSet => BodySchema(op, doc) # NotSet

\* prepare_request: at most one request.
Prepare(argument, doc) ==
  {[operation |-> op.id, method |-> op.http, effect |-> Effect(op),
    path |-> PathOf(op, argument.params),
    query |-> QueryPairs(argument.params, ParameterDefinitions(op, doc)),
    body |-> argument.json] :
     op \in {o \in Called(doc, argument.resource, argument.name) :
               /\ ~Duplicated(doc)
               /\ AllResolvable(o, doc)
               /\ ValidParameters(o, argument.params, ParameterDefinitions(o, doc))
               /\ ValidBody(o, argument.json, doc)}}

-----------------------------------------------------------------------------
(* A command.                                                              *)

Init == document \in Documents /\ prepared = NotSet

\* run_command: a request is prepared or the arguments are refused.
Run ==
  /\ \E argument \in Arguments :
       LET requests == Prepare(argument, document)
       IN  prepared' = IF requests = {} THEN NotSet
                       ELSE [argument |-> argument, request |-> CHOOSE r \in requests : TRUE]
  /\ UNCHANGED document

\* The next command may be given another document.
Load == document' \in Documents /\ prepared' = NotSet

Next == Run \/ Load

Spec == Init /\ [][Next]_vars

-----------------------------------------------------------------------------
(* The properties.                                                         *)

\* The values a schema stands for, given the values of the schemas in it.
Described(s, values) ==
  {value \in Values :
     \/ value.json = "null" /\ Has(s, "nullable")
     \/ /\ Has(s, "enum") => Allowed(value, s.enum)
        /\ Has(s, "oneOf") => \E c \in s.oneOf : value \in values[c]
        /\ Has(s, "allOf") => \A c \in s.allOf : value \in values[c]
        /\ Has(s, "type") =>
             /\ value.json = s.type \/ (s.type = "number" /\ value.json = "integer")
             /\ \A n \in IF s.type = "object" /\ Has(s, "required") THEN s.required
                         ELSE {} : n \in DOMAIN value.of
             /\ \A n \in IF s.type = "object" THEN DOMAIN value.of ELSE {} :
                  IF Has(s, "properties") /\ n \in DOMAIN s.properties
                  THEN value.of[n] \in values[s.properties[n]] ELSE ~Has(s, "closed")
             /\ \A i \in IF s.type = "array" THEN DOMAIN value.of ELSE {} :
                  Has(s, "items") => value.of[i] \in values[s.items]}

\* What OpenAPI says of a value and a schema, references followed as they are
\* met; a keyword beside oneOf counts here, one beside a reference does not.
Means(s, doc, values) ==
  IF ~Has(s, "ref") THEN Described(s, values)
  ELSE {value \in Values : s.ref \in DOMAIN doc.components
                           /\ value \in values[doc.components[s.ref]]}

Conforming(doc) == LET Meant[s \in Schemas] == Means(s, doc, Meant) IN Meant

\* A schema and those in it, and what they refer to, directly or not.
Within[s \in Schemas] == {t \in Schemas : t = s \/ \E c \in Children(s) : t \in Within[c]}
Refs(s) == {t.ref : t \in {r \in Within[s] : Has(r, "ref")}}
Reach(s, doc) ==
  LET names == DOMAIN doc.components
  IN  {r \in names : \A R \in SUBSET names :
         /\ Refs(s) \cap names \subseteq R
         /\ \A n \in R : Refs(doc.components[n]) \cap names \subseteq R
         => r \in R}

\* The code differs from that below a recursion, and beside oneOf and a reference.
Mixes(s) == \/ Has(s, "oneOf") /\ DOMAIN s \cap {"type", "allOf"} # {}
            \/ Has(s, "ref") /\ DOMAIN s # {"ref"}
Settled(s, doc) ==
  /\ \A t \in {s} \cup {doc.components[r] : r \in Reach(s, doc)} :
       \A x \in Within[t] : ~Mixes(x)
  /\ \A r \in Reach(s, doc) : r \notin Reach(doc.components[r], doc)

\* What a request should be, of the operations of the resource with the name: the one
\* of the fourth version, its path with every parameter filled in, a query with every
\* required parameter the user gave and nothing undeclared, and a body that conforms
\* to the schema.
Named(doc, argument) ==
  {op \in doc.operations :
     /\ op.tag = argument.resource
     /\ argument.name \in {op.id} \cup
          IF op.tag = NotSet \/ op.id = NotSet THEN {} ELSE Names(op, doc)}

Declared(doc, argument, request, op) ==
  /\ request.operation = op.id /\ Len(request.path) = Len(op.path)
  /\ \A i \in DOMAIN op.path :
       op.path[i][1] = "literal" => request.path[i] = op.path[i][2]
  /\ \A n \in {q[1] : q \in request.query} : ParameterDefinitions(op, doc)[n].in = "query"
  /\ \A n \in DOMAIN ParameterDefinitions(op, doc) :
       LET p == ParameterDefinitions(op, doc)[n]
       IN  p.needed /\ p.in = "query" /\ ParameterValues(argument.params[n]) # <<>>
             => n \in {q[1] : q \in request.query}
  /\ request.body # NotSet /\ Settled(op.body.schema, doc)
       => request.body \in Conforming(doc)[op.body.schema]

\* A request is what the document says of the operation the user named, and
\* the name is no other operation's.
PreparedAsDeclared ==
  prepared # NotSet =>
    LET named == Named(document, prepared.argument)
    IN  \E op \in named :
          /\ {o \in named : o.path # <<>> /\ o.path[1] = <<"literal", "4">>} = {op}
          /\ Declared(document, prepared.argument, prepared.request, op)

=============================================================================
