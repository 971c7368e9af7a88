------------------------------- MODULE Schemas -------------------------------
(***************************************************************************)
(* Schemas: what a concise declaration is expanded to, what the validator  *)
(* (ajv) then accepts and how it completes it, and what entities, sets of  *)
(* changes and replies ask of it (libraries concise and schemas, core      *)
(* contract and entities).                                                 *)
(***************************************************************************)
EXTENDS Naturals, SequencesExt, FiniteSetsExt

(* A declaration is [is, of]: "null", a "type", a "constant", a "pattern" or *)
(* "format", a "length", a "range" [type, min, max], a "map" of a type, a    *)
(* "ref" <<id, path>>, an "array" of declarations; an "object" of keys, with *)
(* `additional` (`...`) and `nullable` (`_`); a "schema" that is written as  *)
(* JSON Schema, or `items` of one.  A key is [is, of, marks], a name, a      *)
(* "pattern" or "null", and the marks that follow it.  A bound is            *)
(* [at, open].  A value is [is, of]; an object's `of` is a function of names *)
(* and an array's a sequence.                                                *)
CONSTANTS Declarations, Namespace,
          Values, Numerals,   \* text -> the number that it reads as
          Matching,           \* pattern or format -> text and names
          Lengths,            \* text -> its length
          None

VARIABLES declaration, schema, failed, asked

vars == <<declaration, schema, failed, asked>>

Init == /\ declaration \in Declarations /\ schema = None
        /\ failed = FALSE /\ asked = None

----------------------------------------------------------------------------
(* expand *)

Anything == "^.*$"
Something == "^.+$"

(* Expressions *)
Regular(re) == "type" :> "string" @@ "pattern" :> re
Format(format) == "type" :> "string" @@ "format" :> format
StringOf(length) == "type" :> "string" @@ "maxLength" :> length
MapOf(type) == "type" :> "object" @@ "patternProperties" :> (Something :> ("type" :> type))
Bound(bound, inclusive, exclusive) ==
    IF bound = None THEN <<>> ELSE (IF bound.open THEN exclusive ELSE inclusive) :> bound.at
RangeOf(r) == "type" :> r.type @@ Bound(r.min, "minimum", "exclusiveMinimum")
                               @@ Bound(r.max, "maximum", "exclusiveMaximum")
(* The path of a reference leads through `properties`. *)
Reference(ref) ==
    "$ref" :> <<ref[1], FlattenSeq([i \in DOMAIN ref[2] |-> <<"properties", ref[2][i]>>])>>

Primitive(d) ==
    CASE d.is = "type" -> "type" :> d.of
      [] d.is = "constant" -> "type" :> d.of.is @@ "default" :> d.of
      [] d.is = "pattern" -> Regular(d.of)
      [] d.is = "format" -> Format(d.of)
      [] d.is = "length" -> StringOf(d.of)
      [] d.is = "map" -> MapOf(d.of)
      [] d.is = "range" -> RangeOf(d.of)
      [] d.is = "ref" -> Reference(d.of)

(* A key with a mark at its end, and without it. *)
Marked(k, mark) == k.marks # <<>> /\ Last(k.marks) = mark
Bare(k) == [k EXCEPT !.marks = Front(@)]
Name(name) == [is |-> "name", of |-> name, marks |-> <<>>]

(* One or many of what is marked with a plus. *)
OneOrMany(s) == "oneOf" :> <<s, "type" :> "array" @@ "items" :> s>>
                @@ IF "default" \in DOMAIN s THEN "default" :> s.default ELSE <<>>
Oom(props) ==
    LET plain(k) == IF Marked(k, "+") THEN Bare(k) ELSE k IN
    [b \in {plain(k) : k \in DOMAIN props} |->
        LET k == CHOOSE x \in DOMAIN props : plain(x) = b
        IN  IF Marked(k, "+") THEN OneOrMany(props[k]) ELSE props[k]]

IsPattern(k) == k.is \in {"pattern", "null"} /\ k.marks = <<>>
Patterns(props) ==
    LET expression(k) == IF k.is = "null" THEN Anything ELSE k.of
        keys == {k \in DOMAIN props : IsPattern(k)}
    IN  [re \in {expression(k) : k \in keys} |-> props[CHOOSE k \in keys : expression(k) = re]]

(* Names that are marked, and, if one is marked as optional, all others. *)
Required(keys) ==
    LET optional == {k \in keys : Marked(k, "?")}
    IN  {k.of : k \in {x \in keys : Marked(x, "*")}}
        \cup IF optional = {} THEN {} ELSE {k.of : k \in keys \ optional}

(* A property named `type`, `oneOf` or `$ref` makes an object JSON Schema if *)
(* it can be read so.                                                        *)
Skip(d) == Name("type") \in DOMAIN d.of /\ d.of[Name("type")].is = "type"

Given(keyword, value) == IF value = None THEN <<>> ELSE keyword :> value
Filled(keyword, values) == IF DOMAIN values = {} THEN <<>> ELSE keyword :> values
Listed(keyword, set) == IF set = {} THEN <<>> ELSE keyword :> set
RECURSIVE Expand(_)
Object(d) ==
    LET props == Oom([k \in DOMAIN d.of |-> Expand(d.of[k])])
        keys == {k \in DOMAIN props : ~IsPattern(k)}
        named == [n \in {k.of : k \in keys} |-> props[CHOOSE k \in keys : k.of = n]]
    IN  IF Skip(d) THEN "type" :> d.of[Name("type")].of @@ Listed("unknown", DOMAIN d.of \ {Name("type")})
        ELSE "type" :> "object" @@ Filled("properties", named) @@ Filled("patternProperties", Patterns(props))
             @@ Listed("required", Required(keys)) @@ Given("additionalProperties", d.additional)
             @@ Given("nullable", d.nullable)

(* One: an array of it; several: constants to choose from, or objects. *)
Array(d) ==
    IF Len(d.of) = 1 THEN "type" :> "array" @@ "items" :> Expand(d.of[1])
    ELSE IF d.of[1].is = "constant"
    THEN "type" :> d.of[1].of.is @@ "enum" :> {d.of[i].of : i \in DOMAIN d.of}
    ELSE "oneOf" :> [i \in DOMAIN d.of |-> Expand(d.of[i])]

Expand(d) ==
    CASE d.is = "null" -> <<>>
      [] d.is = "schema" -> d.of
      [] d.is = "items" -> "type" :> "array" @@ "items" :> IF d.of.is = "object" THEN "unknown" :> d.of
                                                          ELSE Expand(d.of)
      [] d.is = "object" -> Object(d)
      [] d.is = "array" -> Array(d)
      [] OTHER -> Primitive(d)

(* Declarations that are not expanded: nothing to choose from, or constants  *)
(* of different types.                                                       *)
RECURSIVE Throws(_)
Throws(d) ==
    CASE d.is = "array" -> \/ d.of = <<>>
                           \/ Len(d.of) > 1 /\ d.of[1].is = "constant"
                              /\ \E i \in DOMAIN d.of : d.of[i].is # "constant" \/ d.of[i].of.is # d.of[1].of.is
                           \/ \E i \in DOMAIN d.of : Throws(d.of[i])
      [] d.is = "object" -> ~Skip(d) /\ \E k \in DOMAIN d.of : Throws(d.of[k])
      [] d.is = "items" -> d.of.is # "object" /\ Throws(d.of)
      [] OTHER -> FALSE

----------------------------------------------------------------------------
(* The validator, and the namespace of schemas that it compiles. *)

Has(s, keyword) == keyword \in DOMAIN s
Under(s, keyword) == IF Has(s, keyword) THEN s[keyword] ELSE <<>>
Schemas == [id \in DOMAIN Namespace |-> Expand(Namespace[id])]
RECURSIVE At(_, _)
At(s, path) ==
    IF path = <<>> THEN s
    ELSE IF Head(path) \in DOMAIN s THEN At(s[Head(path)], Tail(path)) ELSE None
Referred(ref, root) ==
    LET s == IF ref[1] = None THEN root ELSE IF ref[1] \in DOMAIN Schemas THEN Schemas[ref[1]] ELSE None
    IN  IF s = None THEN None ELSE At(s, ref[2])

(* Strict: no unknown keywords, no defaults where they would be ignored, no  *)
(* references to nothing.                                                    *)
RECURSIVE Compiles(_, _, _)
Compiles(s, root, composite) ==
    /\ ~Has(s, "unknown")
    /\ Has(s, "$ref") => Referred(s["$ref"], root) # None
    /\ Has(s, "items") => Compiles(s["items"], root, composite)
    /\ \A i \in DOMAIN Under(s, "oneOf") : Compiles(s["oneOf"][i], root, TRUE)
    /\ \A n \in DOMAIN Under(s, "properties") :
          /\ Compiles(s["properties"][n], root, composite)
          /\ ~(composite /\ Has(s["properties"][n], "default"))
    /\ \A re \in DOMAIN Under(s, "patternProperties") :
          Compiles(s["patternProperties"][re], root, composite)

Is(type, v) ==
    \/ v.is = type
    \/ type = "integer" /\ v.is = "number"
(* coerceTypes: numbers, texts and nulls; booleans are left as they are. *)
Coerce(type, v) ==
    CASE Is(type, v) -> v
      [] type = "string" /\ v.is = "number" ->
            [is |-> "string", of |-> CHOOSE text \in DOMAIN Numerals : Numerals[text] = v.of]
      [] type \in {"number", "integer"} /\ v.is = "string" /\ v.of \in DOMAIN Numerals ->
            [is |-> "number", of |-> Numerals[v.of]]
      [] type = "string" /\ v.is = "null" -> [is |-> "string", of |-> ""]
      [] type \in {"number", "integer"} /\ v.is = "null" -> [is |-> "number", of |-> 0]
      [] OTHER -> v
Match(re, text) == re = Anything \/ (re = Something /\ text # "") \/ (re \in DOMAIN Matching /\ text \in Matching[re])

Within(s, n) == /\ Has(s, "minimum") => n >= s.minimum
                /\ Has(s, "maximum") => n <= s.maximum
                /\ Has(s, "exclusiveMinimum") => n > s.exclusiveMinimum
                /\ Has(s, "exclusiveMaximum") => n < s.exclusiveMaximum
Scalar(s, v) ==
    /\ Has(s, "enum") => v \in s.enum
    /\ v.is = "string" => /\ \A k \in {"pattern", "format"} : Has(s, k) => Match(s[k], v.of)
                          /\ Has(s, "maxLength") => Lengths[v.of] <= s.maxLength
    /\ v.is = "number" => Within(s, v.of)

(* What a value is completed to: `defaults` are added and what is too much   *)
(* is removed, if `removing`.  An alternative that does not fit changes      *)
(* nothing.                                                                  *)
Unfit == [ok |-> FALSE, value |-> None]
RECURSIVE Fit(_, _, _, _)
Properties(s, v, root, options) ==
    LET declared == Under(s, "properties")
        added == {n \in DOMAIN declared \ DOMAIN v.of : options.defaults /\ Has(declared[n], "default")}
        whole == [n \in DOMAIN v.of \cup added |-> IF n \in added THEN declared[n].default ELSE v.of[n]]
        patterns(n) == {re \in DOMAIN Under(s, "patternProperties") : Match(re, n)}
        free == {n \in DOMAIN whole : n \notin DOMAIN declared /\ patterns(n) = {}}
        excess == IF Has(s, "additionalProperties") /\ ~s.additionalProperties THEN free ELSE {}
        applied(n) == LET some == SetToSeq(patterns(n)) IN
                      (IF n \in DOMAIN declared THEN <<declared[n]>> ELSE <<>>)
                          \o [i \in DOMAIN some |-> s.patternProperties[some[i]]]
        one(n) == FoldLeft(LAMBDA r, sub : IF r.ok THEN Fit(sub, r.value, root, options) ELSE r,
                           [ok |-> TRUE, value |-> whole[n]], applied(n))
        fitted == [n \in DOMAIN whole \ excess |-> one(n)]
    IN  IF \/ Has(s, "required") /\ ~(s.required \subseteq DOMAIN whole)
           \/ excess # {} /\ ~options.removing
           \/ \E n \in DOMAIN fitted : ~fitted[n].ok
        THEN Unfit
        ELSE [ok |-> TRUE, value |-> [is |-> "object", of |-> [n \in DOMAIN fitted |-> fitted[n].value]]]
Items(s, v, root, options) ==
    LET fitted == [i \in DOMAIN v.of |-> Fit(s["items"], v.of[i], root, options)]
    IN  IF \E i \in DOMAIN fitted : ~fitted[i].ok THEN Unfit
        ELSE [ok |-> TRUE, value |-> [is |-> "array", of |-> [i \in DOMAIN fitted |-> fitted[i].value]]]
Alternatives(s, v, root, options) ==
    LET fitted == SelectSeq([i \in DOMAIN s["oneOf"] |-> Fit(s["oneOf"][i], v, root, options)],
                            LAMBDA r : r.ok)
    IN  IF Len(fitted) = 1 THEN fitted[1] ELSE Unfit
Fit(s, v, root, options) ==
    LET w == IF Has(s, "type") THEN Coerce(s.type, v) ELSE v IN
    IF Has(s, "nullable") /\ s.nullable /\ v.is = "null" THEN [ok |-> TRUE, value |-> v]
    ELSE IF Has(s, "type") /\ ~Is(s.type, w) THEN Unfit
    ELSE IF Has(s, "$ref")
    THEN Fit(Referred(s["$ref"], root), w, IF s["$ref"][1] = None THEN root ELSE Schemas[s["$ref"][1]], options)
    ELSE IF Has(s, "oneOf") THEN Alternatives(s, w, root, options)
    ELSE IF w.is = "object" THEN Properties(s, w, root, options)
    ELSE IF w.is = "array" /\ Has(s, "items") THEN Items(s, w, root, options)
    ELSE [ok |-> Scalar(s, w), value |-> w]

----------------------------------------------------------------------------
(* Replies: an object of an output may have more than is declared, a reply   *)
(* may not; an error has a code, of those that are declared.                 *)
Opened(s) ==
    IF Has(s, "type") /\ s.type = "object" THEN "additionalProperties" :> TRUE @@ s
    ELSE IF Has(s, "type") /\ s.type = "array" /\ Has(s, "items") /\ Has(s["items"], "type") /\ s["items"].type = "object"
    THEN "items" :> ("additionalProperties" :> TRUE @@ s["items"]) @@ s
    ELSE s
ErrorSchema(codes) ==
    "type" :> "object" @@ "required" :> {"code"}
    @@ "properties" :> ("code" :> (IF codes = None THEN "oneOf" :> <<"type" :> "string">> ELSE "enum" :> codes)
                        @@ "message" :> ("type" :> "string"))
Reply(output, codes) ==
    "type" :> "object" @@ "additionalProperties" :> FALSE
    @@ "properties" :> ("error" :> ErrorSchema(codes)
                        @@ IF output = None THEN <<>> ELSE "output" :> Opened(Expand(output)))

Expanded == IF declaration.is = "reply" THEN Reply(declaration.of, declaration.errors) ELSE Expand(declaration)
Thrown == IF declaration.is = "reply" THEN declaration.of # None /\ Throws(declaration.of) ELSE Throws(declaration)

(* schema(): the validator, and for objects two without what is required. *)
Create ==
    /\ schema = None
    /\ schema' = IF Thrown THEN [is |-> "thrown"]
                 ELSE IF ~Compiles(Expanded, Expanded, FALSE) THEN [is |-> "refused"]
                 ELSE [is |-> "schema", of |-> Expanded]
    /\ UNCHANGED <<declaration, failed, asked>>

Optional == [k \in DOMAIN schema.of \ {"required"} |-> schema.of[k]]
IsObject == schema # None /\ schema.is = "schema" /\ Has(schema.of, "type") /\ schema.of.type = "object"

(* What is reported is what the first of the validators found last, even if  *)
(* it was another that failed.                                               *)
Ask(by, value, removing) ==
    /\ schema # None /\ schema.is = "schema" /\ asked = None
    /\ LET s == IF by = "record" THEN schema.of ELSE Optional
           result == Fit(s, value, schema.of, [defaults |-> by # "changeset", removing |-> removing])
           known == IF by = "record" THEN ~result.ok ELSE failed
       IN  /\ failed' = known
           /\ asked' = [by |-> by, of |-> value, removing |-> removing, fits |-> result.ok, value |-> result.value,
                        says |-> IF result.ok THEN "fits" ELSE IF known THEN "error" ELSE "TypeError"]
    /\ UNCHANGED <<declaration, schema>>

(* A record, a request or a reply; a new entity, of which properties are     *)
(* missing; a set of changes, to which nothing is added.                     *)
Record(value) == \E removing \in BOOLEAN : Ask("record", value, removing)
NewEntity(value) == IsObject /\ Ask("entity", value, FALSE)
Changes(value) == IsObject /\ Ask("changeset", value, FALSE)
Take == asked # None /\ asked' = None /\ UNCHANGED <<declaration, schema, failed>>

Next == \/ Create \/ Take
        \/ \E value \in Values : Record(value) \/ NewEntity(value) \/ Changes(value)
Spec == Init /\ [][Next]_vars

----------------------------------------------------------------------------
(* Properties *)

Reads(type, v) == Is(type, Coerce(type, v))

(* What a declaration says (libraries/concise/features), mark by mark.       *)
Marks(k) == ToSet(k.marks)
Needed(k, keys) == \/ "*" \in Marks(k)
                   \/ "?" \notin Marks(k) /\ \E x \in keys : "?" \in Marks(x)
Allows(b, n, type) == b = None \/ IF type = "min" THEN (n > b.at \/ (~b.open /\ n = b.at))
                                  ELSE (n < b.at \/ (~b.open /\ n = b.at))
RECURSIVE Means(_, _, _, _)
MeansObject(d, v, removing, partly) ==
    LET names == {k \in DOMAIN d.of : k.is = "name"}
        patterns == DOMAIN d.of \ names
        one(k, w) == \/ Means(d.of[k], w, removing, FALSE)
                     \/ "+" \in Marks(k) /\ w.is = "array"
                        /\ \A i \in DOMAIN w.of : Means(d.of[k], w.of[i], removing, FALSE)
        covers(k, n) == IF k \in names THEN n = k.of ELSE k.is = "null" \/ Match(k.of, n)
    IN  \/ d.nullable = TRUE /\ v.is = "null"
        \/ /\ v.is = "object"
           /\ \A k \in names : Needed(k, names) /\ ~partly =>
                 k.of \in DOMAIN v.of \/ d.of[k].is = "constant"
           /\ \A n \in DOMAIN v.of : \A k \in DOMAIN d.of : covers(k, n) => one(k, v.of[n])
           /\ d.additional = FALSE /\ ~removing =>
                 \A n \in DOMAIN v.of : \E k \in DOMAIN d.of : covers(k, n)
Means(d, v, removing, partly) ==
    CASE d.is = "null" -> TRUE
      [] d.is = "type" -> Reads(d.of, v)
      [] d.is = "constant" -> Reads(d.of.is, v)
      [] d.is \in {"pattern", "format"} -> Reads("string", v) /\ Match(d.of, Coerce("string", v).of)
      [] d.is = "length" -> Reads("string", v) /\ Lengths[Coerce("string", v).of] <= d.of
      [] d.is = "map" -> v.is = "object" /\ \A n \in DOMAIN v.of : n # "" => Reads(d.of, v.of[n])
      [] d.is = "range" -> /\ Reads(d.of.type, v)
                           /\ Allows(d.of.min, Coerce(d.of.type, v).of, "min")
                           /\ Allows(d.of.max, Coerce(d.of.type, v).of, "max")
      [] d.is = "array" ->
            IF Len(d.of) = 1
            THEN v.is = "array" /\ \A i \in DOMAIN v.of : Means(d.of[1], v.of[i], removing, FALSE)
            ELSE IF d.of[1].is = "constant" THEN Reads(d.of[1].of.is, v) /\ \E i \in DOMAIN d.of : Coerce(d.of[1].of.is, v) = d.of[i].of
            ELSE Cardinality({i \in DOMAIN d.of : Means(d.of[i], v, removing, FALSE)}) = 1
      [] d.is = "items" -> v.is = "array" /\ \A i \in DOMAIN v.of : Means(d.of, v.of[i], removing, FALSE)
      [] d.is = "object" -> MeansObject(d, v, removing, partly)
      [] d.is = "schema" -> Fit(d.of, v, d.of, [defaults |-> TRUE, removing |-> removing]).ok
      [] d.is = "ref" ->
            LET RECURSIVE to(_, _)
                to(x, path) == IF path = <<>> THEN x
                               ELSE to(x.of[CHOOSE k \in DOMAIN x.of : k.of = Head(path)], Tail(path))
            IN  Means(to(IF d.of[1] = None THEN declaration ELSE Namespace[d.of[1]], d.of[2]), v, removing, FALSE)

Plain == declaration.is # "reply"

(* A record, a request or a new entity fits if and only if it is what its   *)
(* declaration means, whatever it is combined of.                           *)
Meant == asked # None /\ Plain =>
    asked.fits = Means(declaration, asked.of, asked.removing, asked.by # "record")

(* What fits keeps what was given, but for its types and for properties that *)
(* are not declared where they are removed; only declared constants are      *)
(* added, and nothing to a set of changes.                                   *)
RECURSIVE Keeps(_, _, _)
Keeps(v, w, options) ==
    CASE w.is = "object" -> /\ v.is = "object"
                            /\ options.removing \/ DOMAIN v.of \subseteq DOMAIN w.of
                            /\ options.adding \/ DOMAIN w.of \subseteq DOMAIN v.of
                            /\ \A n \in DOMAIN v.of \cap DOMAIN w.of : Keeps(v.of[n], w.of[n], options)
      [] w.is = "array" -> /\ v.is = "array" /\ Len(v.of) = Len(w.of)
                           /\ \A i \in DOMAIN v.of : Keeps(v.of[i], w.of[i], options)
      [] OTHER -> LET c == Coerce(w.is, v) IN c.is = w.is /\ c = w
Completed == asked # None /\ asked.fits =>
    Keeps(asked.of, asked.value, [removing |-> asked.removing, adding |-> asked.by # "changeset"])

(* What fits once fits again, as it is: records are checked when they are    *)
(* made and when they are read, requests by the caller and by the operation. *)
Settled == asked # None /\ asked.fits =>
    LET s == IF asked.by = "record" THEN schema.of ELSE Optional
        again == Fit(s, asked.value, schema.of, [defaults |-> asked.by # "changeset", removing |-> asked.removing])
    IN  again = [ok |-> TRUE, value |-> asked.value]

(* A reply has an output or an error of those that are declared.             *)
Replies == asked # None /\ ~Plain /\ asked.by = "record" /\ asked.fits =>
    /\ DOMAIN asked.value.of \subseteq {"output", "error"}
    /\ "output" \in DOMAIN asked.value.of => declaration.of # None
    /\ "error" \in DOMAIN asked.value.of /\ declaration.errors # None =>
          asked.value.of["error"].of["code"] \in declaration.errors

(* Values are checked and completed as declared (libraries, core).           *)
SchemasSound == Meant /\ Completed /\ Settled /\ Replies
=============================================================================
