------------------------------- MODULE Queries -------------------------------
(***************************************************************************)
(* The way of an HTTP query to the objects it selects: the mapping of the  *)
(* exposition, the request contract and the query parser of the runtime,   *)
(* the translation for MongoDB.  Every number that a query carries as text *)
(* is that number; RSQL is a sequence of tokens.                           *)
(*                                                                         *)
(* A comparison is [selector, operator, values]; criteria as people mean   *)
(* them are alternatives of conjunctions, a sequence of sequences.         *)
(***************************************************************************)
EXTENDS Integers, SequencesExt, FiniteSetsExt

CONSTANTS Types,         \* the entity's properties -> "string" or "integer"
          Documents,     \* what the collection holds
          Declarations,  \* the `query` of a method, or None
          Calls,         \* HTTP requests: path variables, query, body
          Scopes,        \* of the observation: "object", "objects", "stream"
          None

VARIABLES stage, declared, call, scope,
          request,   \* what the mapping made of it
          query,     \* what the runtime made of that
          answer,    \* ids, in the order in which they are sent
          status     \* 0, 200, 400 or 500 (an exception)

vars == <<stage, declared, call, scope, request, query, answer, status>>

Init ==
    /\ stage = "fit" /\ declared \in Declarations /\ call \in Calls /\ scope \in Scopes
    /\ request = None /\ query = None /\ answer = <<>> /\ status = 0

Fail(code) == /\ stage' = "done" /\ status' = code
              /\ UNCHANGED <<declared, call, scope, request, query, answer>>

----------------------------------------------------------------------------
(* RSQL.  `;` binds tighter than `,`. *)

Token(kind) == <<[kind |-> kind]>>
Compare(c) == <<[kind |-> "comparison", comparison |-> c]>>

RECURSIVE Join(_, _)
Join(texts, separator) ==
    IF Len(texts) = 0 THEN <<>>
    ELSE IF Len(texts) = 1 THEN texts[1]
    ELSE texts[1] \o Token(separator) \o Join(Tail(texts), separator)

Text(alternatives) ==
    Join([i \in DOMAIN alternatives |->
            Join([j \in DOMAIN alternatives[i] |-> Compare(alternatives[i][j])], ";")], ",")

Opened(tokens, i) == Cardinality({j \in 1..(i - 1) : tokens[j].kind = "("})
                     - Cardinality({j \in 1..(i - 1) : tokens[j].kind = ")"})
Splits(tokens, kind) == {i \in DOMAIN tokens : tokens[i].kind = kind /\ Opened(tokens, i) = 0}

RECURSIVE Parse(_)
Parse(tokens) ==
    LET at(kind) == Max(Splits(tokens, kind))
        node(kind) == [type |-> "LOGIC", operator |-> kind,
                       left |-> Parse(SubSeq(tokens, 1, at(kind) - 1)),
                       right |-> Parse(SubSeq(tokens, at(kind) + 1, Len(tokens)))]
    IN  CASE Splits(tokens, ",") # {} -> node(",")
          [] Splits(tokens, ",") = {} /\ Splits(tokens, ";") # {} -> node(";")
          [] OTHER -> IF tokens[1].kind = "(" THEN Parse(SubSeq(tokens, 2, Len(tokens) - 1))
                      ELSE LET c == tokens[1].comparison IN
                           [type |-> "COMPARISON", selector |-> c.selector,
                            operator |-> c.operator,
                            right |-> [kind |-> "text", values |-> c.values,
                                       list |-> c.operator = "in"]]

----------------------------------------------------------------------------
(* The mapping (Query, Mapping) *)

(* A declaration: criteria with `open` and `prepend`, sort with `extensible` *)
(* (it ends with `;`), the ranges, and the `parameters` that go to the input. *)
Default(range, value, low, high) ==
    IF range = None THEN [value |-> value, low |-> low, high |-> high] ELSE range
Limit == Default(declared.limit, 10, 1, 100)
Omit == Default(declared.omit, 0, 0, 1000)
Queryable == declared # None /\ declared.queryable

Moved == IF declared = None THEN {} ELSE declared.parameters \cap DOMAIN call.extra
Path == IF Queryable THEN Restrict(call.path, DOMAIN call.path \ {"id"}) ELSE call.path

Within(range, n) == range.low <= n /\ n <= range.high

RECURSIVE GroupJoinBare(_)
GroupJoinBare(groups) ==   \* faulty: no parentheses
    IF Len(groups) = 1 THEN groups[1].criteria
    ELSE groups[1].criteria \o Token(groups[1].operator) \o GroupJoinBare(Tail(groups))

(* Each group in parentheses, and its operator before the next. *)
RECURSIVE GroupJoin(_)
GroupJoin(groups) ==
    LET group == Token("(") \o groups[1].criteria \o Token(")") IN
    IF Len(groups) = 1 THEN group
    ELSE group \o Token(groups[1].operator) \o GroupJoin(Tail(groups))

Group(criteria, operator) ==
    IF criteria = <<>> THEN <<>> ELSE <<[criteria |-> criteria, operator |-> operator]>>

PathCriteria ==
    Join([i \in 1..Cardinality(DOMAIN Path) |->
            LET name == SetToSeq(DOMAIN Path)[i] IN
            Compare([selector |-> name, operator |-> "==", values |-> <<Path[name]>>])], ";")

Groups == Group(PathCriteria, declared.prepend)
          \o Group(Text(declared.criteria), ";")
          \o Group(Text(call.query.criteria), ";")

(* The declared text followed by that of the request, split at `;`: without *)
(* a `;` between them the two statements at the seam are one, an open sort  *)
(* that is not extended ends with an empty one.                             *)
Malformed == [property |-> None, direction |-> None]
Sort ==
    CASE declared.sort = <<>> -> call.query.sort
      [] declared.sort # <<>> /\ declared.extensible ->
            declared.sort \o (IF call.query.sort = <<>> THEN <<Malformed>> ELSE call.query.sort)
      [] OTHER -> IF call.query.sort = <<>> THEN declared.sort
                  ELSE Front(declared.sort) \o <<Malformed>> \o Tail(call.query.sort)

(* Path variables over the body, query parameters over both. *)
Embed(given) == IF DOMAIN given = {} THEN call.body
                ELSE IF call.body = None THEN given ELSE given @@ call.body
Parameters == Restrict(call.extra, Moved)
Input == Embed(IF Queryable THEN Parameters ELSE Parameters @@ Path)

Fit ==
    /\ stage = "fit"
    /\ LET q == call.query
           left == DOMAIN call.extra \ Moved
       IN
       IF \/ left # {}
          \/ Queryable /\ q.criteria # <<>> /\ declared.criteria # <<>> /\ ~declared.open
          \/ Queryable /\ q.limit # None /\ ~Within(Limit, q.limit)
          \/ Queryable /\ q.omit # None /\ ~Within(Omit, q.omit)
          \/ ~Queryable /\ \/ <<q.criteria, q.sort>> # <<<<>>, <<>>>>
                           \/ {q.id, q.limit, q.omit} # {None}
       THEN Fail(400)
       ELSE /\ request' = [input |-> Input,
                query |-> IF ~Queryable THEN None ELSE
                    [id |-> IF "id" \in DOMAIN call.path THEN call.path["id"] ELSE q.id,
                     version |-> q.version,
                     criteria |-> IF Groups = <<>> THEN <<>> ELSE GroupJoin(Groups),
                     sort |-> Sort,
                     limit |-> IF q.limit = None THEN Limit.value ELSE q.limit,
                     omit |-> q.omit]]
            /\ stage' = "contract"
            /\ UNCHANGED <<declared, call, scope, query, answer, status>>

----------------------------------------------------------------------------
(* The request contract: `limit` is required of objects, what a scope has   *)
(* no use for is removed, sorting statements are well-formed and different. *)
Validate ==
    /\ stage = "contract"
    /\ IF \/ request.query = None
          \/ scope = "objects" /\ request.query.limit = None
          \/ Contains(request.query.sort, Malformed)
          \/ ~IsInjective(request.query.sort)
       THEN Fail(500)
       ELSE /\ request' = [request EXCEPT !.query.version = None,
                    !.query.omit = IF scope = "objects" THEN @ ELSE None,
                    !.query.limit = IF scope = "objects" THEN @ ELSE None]
            /\ stage' = "parse"
            /\ UNCHANGED <<declared, call, scope, query, answer, status>>

----------------------------------------------------------------------------
(* core query: criteria are parsed and values take the property's type *)

RECURSIVE Selectors(_)
Selectors(node) == IF node.type = "COMPARISON" THEN {node.selector}
                   ELSE Selectors(node.left) \cup Selectors(node.right)

(* Number.parseInt of a list reads its first value. *)
Coerce(type, right) ==
    IF type = "integer" THEN [kind |-> type, values |-> <<right.values[1]>>, list |-> FALSE]
    ELSE [right EXCEPT !.kind = type]

RECURSIVE Coerced(_)
Coerced(node) ==
    IF node.type = "COMPARISON" THEN [node EXCEPT !.right = Coerce(Types[node.selector], @)]
    ELSE [node EXCEPT !.left = Coerced(@), !.right = Coerced(@)]

Options(q) ==
    [sort |-> [i \in DOMAIN q.sort |->
                <<q.sort[i].property,
                  IF q.sort[i].direction = None THEN "asc" ELSE q.sort[i].direction>>],
     omit |-> q.omit, limit |-> q.limit]

ParseQuery ==
    /\ stage = "parse"
    /\ LET q == request.query
           ast == Parse(q.criteria)
           selectors == IF q.criteria = <<>> THEN {} ELSE Selectors(ast)
           sorted == {q.sort[i].property : i \in DOMAIN q.sort}
       IN  IF ~(selectors \cup sorted \subseteq DOMAIN Types) THEN Fail(500)
           ELSE /\ query' = [id |-> q.id, criteria |-> IF q.criteria = <<>> THEN None ELSE Coerced(ast),
                             options |-> Options(q)]
                /\ stage' = "find"
                /\ UNCHANGED <<declared, call, scope, request, answer, status>>

----------------------------------------------------------------------------
(* storages.mongodb: a filter is an object, here a set of keys with what    *)
(* each demands.                                                            *)

Rename(name) == IF name = "id" THEN "_id" ELSE name

RECURSIVE Filter(_)
Filter(node) ==
    {IF node.type = "COMPARISON"
     THEN [key |-> Rename(node.selector), operator |-> node.operator, right |-> node.right]
     ELSE [key |-> IF node.operator = ";" THEN "$and" ELSE "$or",
           of |-> <<Filter(node.left), Filter(node.right)>>]}

Put(filter, key, value) ==
    {e \in filter : e.key # key}
        \cup {[key |-> key, operator |-> "==",
               right |-> [kind |-> "string", values |-> <<value>>, list |-> FALSE]]}

Translate(q) ==
    LET criteria == IF q.criteria = None THEN {} ELSE Filter(q.criteria)
    IN  IF q.id = None THEN criteria ELSE Put(criteria, "_id", q.id)

(* MongoDB compares values of one type; `$in` needs a list. *)
TypeOf(key) == IF key = "_id" THEN "string" ELSE Types[key]
RECURSIVE Rejects(_), Selects(_, _)
Rejects(filter) == \E e \in filter :
    IF e.key \in {"$and", "$or"} THEN Rejects(e.of[1]) \/ Rejects(e.of[2])
    ELSE e.operator = "in" /\ ~e.right.list
Test(e, value) ==
    LET same == e.right.kind = TypeOf(e.key)
        first == e.right.values[1]
    IN  CASE e.operator = "==" -> same /\ value = first
          [] e.operator = "!=" -> ~(same /\ value = first)
          [] e.operator = ">" -> same /\ value > first
          [] e.operator = "<" -> same /\ value < first
          [] e.operator = "in" -> same /\ Contains(e.right.values, value)
Selects(filter, doc) == \A e \in filter :
    CASE e.key = "$and" -> Selects(e.of[1], doc) /\ Selects(e.of[2], doc)
      [] e.key = "$or" -> Selects(e.of[1], doc) \/ Selects(e.of[2], doc)
      [] OTHER -> Test(e, doc[e.key])

(* findOne for an object; find, without what is deleted, for objects;       *)
(* a stream has it all.  `limit: 0` and `omit: 0` are no options.           *)
Before(a, b, sort) ==
    \E i \in DOMAIN sort :
        LET key == Rename(sort[i][1]) IN
        /\ IF sort[i][2] = "asc" THEN a[key] < b[key] ELSE a[key] > b[key]
        /\ \A j \in 1..(i - 1) : a[Rename(sort[j][1])] = b[Rename(sort[j][1])]
Ordered(docs, sort) == \A i, j \in DOMAIN docs : Before(docs[i], docs[j], sort) => i < j

Slice(docs, options) ==
    LET from == IF options.omit = None THEN 0 ELSE options.omit
        rest == SubSeq(docs, from + 1, Len(docs))
    IN  IF options.limit \in {None, 0} THEN rest
        ELSE SubSeq(rest, 1, Min({options.limit, Len(rest)}))

Find ==
    /\ stage = "find"
    /\ LET filter == Translate(query)
           found == {d \in Documents : Selects(filter, d) /\ (scope = "objects" => ~d._deleted)}
       IN  IF Rejects(filter) THEN Fail(500)
           ELSE /\ \E docs \in SetToSeqs(found) :
                    /\ Ordered(docs, query.options.sort)
                    /\ answer' = LET sent == IF scope = "object" THEN SubSeq(docs, 1, Min({1, Len(docs)}))
                                             ELSE Slice(docs, query.options)
                                 IN  SelectSeq(sent, LAMBDA d : scope = "object" => ~d._deleted)
                /\ stage' = "done" /\ status' = 200
                /\ UNCHANGED <<declared, call, scope, request, query>>

Next == Fit \/ Validate \/ ParseQuery \/ Find
Spec == Init /\ [][Next]_vars

----------------------------------------------------------------------------
(* Properties *)

Answered == stage = "done" /\ status = 200

(* What the authors of the criteria mean, document by document. *)
Holds(c, d) ==
    LET value == d[Rename(c.selector)] IN
    CASE c.operator = "==" -> value = c.values[1]
      [] c.operator = "!=" -> value # c.values[1]
      [] c.operator = ">" -> value > c.values[1]
      [] c.operator = "<" -> value < c.values[1]
      [] c.operator = "in" -> Contains(c.values, value)
Meant(alternatives, d) ==
    alternatives # <<>> =>
        \E i \in DOMAIN alternatives : \A j \in DOMAIN alternatives[i] : Holds(alternatives[i][j], d)
OfPath(d) == \A name \in DOMAIN Path : d[name] = Path[name]
OfDeclaration(d) ==
    IF declared.prepend = "," /\ declared.criteria # <<>> /\ DOMAIN Path # {}
    THEN OfPath(d) \/ Meant(declared.criteria, d)
    ELSE OfPath(d) /\ Meant(declared.criteria, d)
Matches(d) == /\ OfDeclaration(d) /\ Meant(call.query.criteria, d)
              /\ query.id # None => d._id = query.id
              /\ scope # "stream" => ~d._deleted

Sent == {answer[i] : i \in DOMAIN answer}
Exact == /\ \A d \in Sent : Matches(d)
         /\ scope = "stream" => \A d \in Documents : Matches(d) => d \in Sent
         /\ scope = "objects" /\ query.options.omit \in {None, 0}
                /\ Len(answer) < query.options.limit =>
                    \A d \in Documents : Matches(d) => d \in Sent

Three == declared.prepend = "," /\ DOMAIN Path # {} /\ call.query.criteria # <<>>
Overwritten == /\ query.id # None /\ query.criteria # None
               /\ query.criteria.type = "COMPARISON" /\ query.criteria.selector = "id"

(* The objects that an HTTP query selects are those which the path, the     *)
(* declaration, the request's criteria and the id mean together, nothing is *)
(* let in by the way the texts are joined, parsed, coerced and translated.  *)
(* Excepted are `,` before a declaration that the request extends, see      *)
(* Grouped, and criteria that are a single comparison of the id, in place   *)
(* of which translate.js puts the id of the query.                          *)
Selected == Answered /\ ~Three /\ ~Overwritten => Exact

(* query.md:104-112: with `,state==hot;` declared, the path variables and    *)
(* the declaration are one group, to which the request's criteria are added. *)
Grouped == Answered /\ Three => Exact

(* Nobody gets more objects than the declared range allows, unless that     *)
(* range begins at 0: `limit: 0` is no limit for the storage.               *)
Bounded == Answered /\ scope = "objects" /\ Limit.low > 0 => Len(answer) <= Limit.high

(* Objects come in the declared order, then in that of the request, and     *)
(* what is left behind by `limit` comes after what is sent.                 *)
SortedFirst ==
    Answered /\ scope = "objects" =>
        LET sort == [i \in 1..(Len(declared.sort) + Len(call.query.sort)) |->
                IF i <= Len(declared.sort) THEN declared.sort[i]
                ELSE call.query.sort[i - Len(declared.sort)]]
            before(a, b) == Before(a, b, Options([request.query EXCEPT !.sort = sort]).sort)
        IN  /\ \A i, j \in DOMAIN answer : before(answer[i], answer[j]) => i < j
            /\ query.options.omit \in {None, 0} /\ ~Three /\ ~Overwritten =>
                    \A d \in Documents \ Sent, a \in Sent : Matches(d) => ~before(d, a)

(* What a declaration closes stays closed: neither its criteria nor its      *)
(* sorting are extended, and no undeclared parameter is let through.        *)
Closed == declared # None /\ Queryable /\ Answered =>
    /\ declared.criteria # <<>> /\ call.query.criteria # <<>> => declared.open
    /\ declared.sort # <<>> /\ call.query.sort # <<>> => declared.extensible
    /\ DOMAIN call.extra \subseteq declared.parameters

(* Without a query, path variables reach the operation in its input,        *)
(* whatever the body says ("path variables override input properties",      *)
(* query.md:149), unless a query parameter of that name is declared.        *)
Embedded ==
    request # None /\ ~Queryable =>
        \A name \in DOMAIN call.path \ Moved :
            name \in DOMAIN request.input /\ request.input[name] = call.path[name]

(* From its URL to what the storage finds, a query selects, bounds and      *)
(* orders what is meant, and extends nothing that is closed (Query.ts,      *)
(* query.js, translate.js).                                                 *)
QueriesFaithful == Selected /\ Bounded /\ SortedFirst /\ Closed /\ Embedded
=============================================================================
