-------------------------------- MODULE Media --------------------------------
(***************************************************************************)
(* The resources of the octets directives and the providers of the storage *)
(* behind them: what the annotation deploys and a process starts with, how *)
(* a request finds its directive, what `put` takes in or downloads, where  *)
(* it is stored and found again, through the transformations of Cloudinary *)
(* or without, and what is deleted when.  Streams are a matter of Octets,  *)
(* the steps of a workflow one of Workflow.                                *)
(***************************************************************************)
EXTENDS Naturals, Sequences, SequencesExt, TLC

CONSTANTS Nil,
          Settings,   \* [annotation : storage -> [provider, claim, type, transformations],
                      \*  uses : component -> storages, secrets : set of <<storage, secret>>,
                      \*  path, methods : verb -> sequence of [name, value], demands], the
                      \*  last a set of [verb, slashed, extensions, id, reference, empty,
                      \*  stream, conditional, described]
          Dotted,     \* names of directories that have a dot
          MaxDemands

VARIABLES setting, release, started,
          stored,     \* <<storage, path>> -> [kind, origin, by]
          demand,     \* the request that is handled, [at, path, storage, asked], or Nil
          working,    \* workflows under way: [by, does, storage, path, extensions, told]
          answers     \* to requests: [path, status, entry, body, at, storage, asked]

mediaVars == <<setting, release, started, stored, demand, working, answers>>

\* What a request may be asked with, and the entries that come of it.
Fields == {"verb", "slashed", "extensions", "id", "reference", "empty", "stream", "conditional", "described"}
Entries ==
    UNION {[kind : {d.stream : d \in s.demands}, origin : {d.reference : d \in s.demands} \cup {Nil},
            by : 1..MaxDemands] : s \in Settings}

\* The directives that do something.
Acting(directives) == SelectSeq(directives, LAMBDA d : d.name # "context")

(* Only Cloudinary transforms (its schema has the property, no other has).   *)
ASSUME MediaAssumption ==
    /\ MaxDemands \in Nat /\ Nil \notin Entries
    /\ Nil \notin {"refused", "failed", "INVALID_ID", "LOCATION_LENGTH", "LOCATION_UNTRUSTED"}
    /\ \A s \in Settings :
        /\ \A d \in s.demands : DOMAIN d = Fields /\ d.extensions \in Seq(ToSet(d.extensions))
        /\ \A verb \in DOMAIN s.methods :
              LET actions == Acting(s.methods[verb])
              IN  /\ actions \in Seq(ToSet(actions))
                  /\ \A d \in ToSet(actions) : d.name \in {"put", "get", "delete", "workflow"}
        /\ \A x \in DOMAIN s.annotation :
              LET ts == s.annotation[x].transformations
              IN  /\ ts \in Seq(ToSet(ts))
                  /\ s.annotation[x].provider # "cloudinary" => ts = <<>>

MediaInit ==
    /\ setting \in Settings /\ release = Nil /\ started = Nil
    /\ stored = <<>> /\ demand = Nil /\ working = {} /\ answers = <<>>

----------------------------------------------------------------------------
(* deployment.ts, Factory.ts *)

Declared == setting.annotation
\* Provider.SECRETS: the secret's name and whether it is required.
Secrets(provider) ==
    CASE provider = "cloudinary" -> {<<"API_KEY", TRUE>>, <<"API_SECRET", TRUE>>}
      [] provider = "s3" -> {<<"ACCESS_KEY_ID", FALSE>>, <<"SECRET_ACCESS_KEY", FALSE>>}
      [] OTHER -> {}

\* The schema admits providers that there are none of: they are refused later.
Valid == /\ \A s \in DOMAIN Declared : Declared[s].provider \in {"s3", "cloudinary", "fs", "tmp"}
         /\ \A c \in DOMAIN setting.uses : setting.uses[c] \subseteq DOMAIN Declared

SecretVariables == UNION {{<<s, secret[1]>> : secret \in Secrets(Declared[s].provider)} :
                          s \in DOMAIN Declared}
Mounts == [c \in DOMAIN setting.uses |->
             {s \in setting.uses[c] : Declared[s].provider = "fs" /\ Declared[s].claim}]

Deploy == /\ release = Nil
          /\ release' = IF Valid THEN [variables |-> SecretVariables, mounts |-> Mounts]
                        ELSE [variables |-> {}, mounts |-> <<>>]
          /\ started' = IF Valid THEN Nil ELSE "refused"
          /\ UNCHANGED <<setting, stored, demand, working, answers>>

(* resolveSecrets and the provider's constructor: a storage that one process *)
(* does not use is created by it nonetheless.                                *)
Created(s, env) ==
    /\ \A secret \in Secrets(Declared[s].provider) : secret[2] => <<s, secret[1]>> \in env
    /\ <<s, "ACCESS_KEY_ID">> \in env => <<s, "SECRET_ACCESS_KEY">> \in env

StartStorages ==
    /\ release # Nil /\ started = Nil
    /\ started' = IF \A s \in DOMAIN Declared : Created(s, release.variables \cap setting.secrets)
                  THEN "up" ELSE "failed"
    /\ UNCHANGED <<setting, release, stored, demand, working, answers>>

----------------------------------------------------------------------------
(* Cloudinary.ts *)

\* The constructor; what ends with `$` gets a `^`, what does not only a `$`.
Anchored(t) == t.start \/ t.end
Matches(t, extension) == /\ extension.stem = t.stem
                         /\ extension.prefix # Nil => ~Anchored(t)

(* toTransformation: the first of the transformations left that matches, if *)
(* only optional ones are skipped; the required ones are not left over.  Of  *)
(* ways there is one, or none.                                               *)
Skipped(ts, from, to) == \A i \in from..to : ts[i].optional
Reached(used) == IF used = <<>> THEN 0 ELSE used[Len(used)]
Onward(ts, used, e) == {i \in (Reached(used) + 1)..Len(ts) :
                           Matches(ts[i], e) /\ Skipped(ts, Reached(used) + 1, i - 1)}
Earliest(S) == CHOOSE i \in S : \A j \in S : i <= j
Extended(ts, ways, e) ==
    {Append(used, Earliest(Onward(ts, used, e))) : used \in {u \in ways : Onward(ts, u, e) # {}}}
Through(ts, extensions) ==
    LET ways[n \in 0..Len(extensions)] ==
            IF n = 0 THEN {<<>>} ELSE Extended(ts, ways[n - 1], extensions[n])
    IN  {used \in ways[Len(extensions)] : Skipped(ts, Reached(used) + 1, Len(ts))}

\* A path is split at its first dot, wherever it is.
Reachable(s, path, extensions) ==
    LET ts == Declared[s].transformations
    IN  ts = <<>> \/ (/\ ToSet(path) \cap Dotted = {} /\ Through(ts, extensions) # {})

OfType(s, e) == Declared[s].provider = "cloudinary" => e.kind = Declared[s].type
\* Of the headers of Cloudinary's response: the attributes of the entry are gone.
Metadata(e) == [e EXCEPT !.origin = Nil]
FindMedia(s, path, extensions) ==   \* what is of the storage's type
    IF /\ <<s, path>> \in DOMAIN stored /\ OfType(s, stored[<<s, path>>])
       /\ Reachable(s, path, extensions)
    THEN Metadata(stored[<<s, path>>]) ELSE Nil
FindObject(s, path, extensions) ==
    IF extensions = <<>> /\ <<s, path>> \in DOMAIN stored THEN stored[<<s, path>>] ELSE Nil
Find(s, path, extensions) ==
    IF Declared[s].provider = "cloudinary" THEN FindMedia(s, path, extensions)
    ELSE FindObject(s, path, extensions)

Without(s, path, extensions) ==
    IF extensions = <<>> /\ <<s, path>> \in DOMAIN stored /\ OfType(s, stored[<<s, path>>])
    THEN [key \in DOMAIN stored \ {<<s, path>>} |-> stored[key]] ELSE stored

----------------------------------------------------------------------------
(* Octets.preflight *)

Actions(verb) == Acting(setting.methods[verb])
ContextsOf(verb) == SelectSeq(setting.methods[verb], LAMBDA d : d.name = "context")
Targeted(name) == name # "put"
Options == Actions(demand.asked.verb)[1].value

Steady == UNCHANGED <<setting, release, started>>
(* One request at a time: uploads that meet are a matter of Octets.         *)
Ask == /\ started = "up" /\ demand = Nil /\ Len(answers) < MaxDemands
       /\ \E d \in {d \in setting.demands : d.verb \in DOMAIN setting.methods} :
            \E path \in IF d.slashed THEN {setting.path}
                        ELSE IF stored = <<>> THEN {Append(setting.path, "a")}
                        ELSE {key[2] : key \in DOMAIN stored} :
              demand' = [at |-> "preflight", path |-> path, storage |-> Nil, asked |-> d]
       /\ UNCHANGED <<stored, working, answers>> /\ Steady

\* Status 0 is left to the server.
AnswerAt(path, status, entry, body) ==
    /\ demand' = Nil
    /\ answers' = Append(answers, [path |-> path, status |-> status, entry |-> entry, body |-> body,
                                  at |-> demand.at, storage |-> demand.storage, asked |-> demand.asked])
Answer(status, entry, body) == AnswerAt(demand.path, status, entry, body)
At(phase) == demand # Nil /\ demand.at = phase

(* Without an action the request passes on to its endpoint. *)
Direct ==
    /\ At("preflight")
    /\ LET actions == Actions(demand.asked.verb)
           contexts == ContextsOf(demand.asked.verb)
       IN  IF Len(actions) > 1 THEN Answer(500, Nil, "ambiguous")
           ELSE IF actions = <<>> THEN Answer(0, Nil, "passed")
           ELSE IF contexts = <<>> \/ contexts[1].value \notin DOMAIN Declared
           THEN Answer(500, Nil, "no context")
           ELSE IF demand.asked.slashed = Targeted(actions[1].name) THEN Answer(404, Nil, "slash")
           ELSE /\ demand' = [demand EXCEPT !.at = actions[1].name, !.storage = contexts[1].value]
                /\ UNCHANGED answers
    /\ UNCHANGED <<stored, working>> /\ Steady

----------------------------------------------------------------------------
(* Put.ts and the operation `put` *)

StatusOf(code) == CASE code = "NOT_ACCEPTABLE" -> 415
                  [] code \in {"TYPE_MISMATCH", "LOCATION_LENGTH", "INVALID_ID"} -> 400
                  [] code = "LIMIT_EXCEEDED" -> 413
                  [] code = "LOCATION_UNTRUSTED" -> 403
                  [] code = "LOCATION_UNAVAILABLE" -> 404
                  [] OTHER -> 500

Trusted(origin) == origin \in Options.trust
Refused ==   \* what is wrong with the headers, the first of it
    IF demand.asked.id = "invalid" THEN "INVALID_ID"
    ELSE IF demand.asked.reference = Nil THEN Nil
    ELSE IF ~demand.asked.empty THEN "LOCATION_LENGTH"
    ELSE IF ~Trusted(demand.asked.reference) THEN "LOCATION_UNTRUSTED"
    ELSE Nil

Put == /\ At("put")
       /\ IF Refused # Nil THEN Answer(StatusOf(Refused), Nil, Refused)
          ELSE /\ demand' = [demand EXCEPT !.at = IF demand.asked.reference = Nil THEN "store" ELSE "download"]
               /\ UNCHANGED answers
       /\ UNCHANGED <<stored, working>> /\ Steady

(* The origin may answer with an error, or not at all: fetch() throws.      *)
Download ==
    /\ At("download")
    /\ \/ demand' = [demand EXCEPT !.at = "store"] /\ UNCHANGED answers
       \/ Answer(StatusOf("LOCATION_UNAVAILABLE"), Nil, "LOCATION_UNAVAILABLE")
       \/ Answer(500, Nil, "exception")
    /\ UNCHANGED <<stored, working>> /\ Steady

(* posix.resolve(url, location ?? '.') *)
Location == IF Options.location = Nil THEN demand.path
            ELSE IF Options.location.absolute THEN Options.location.path
            ELSE demand.path \o Options.location.path
\* What a workflow is told: `location ?? url`, which it joins with the id.
ToldLocation == IF Options.location = Nil THEN demand.path ELSE Options.location.path

EntryId == IF demand.asked.id = Nil THEN "id" \o ToString(Len(answers)) ELSE demand.asked.id

(* Storage.put, whole: it returns an entry or what the scanner refused, or   *)
(* throws.  Without attributes of its own the entry has its origin.          *)
Store ==
    /\ At("store")
    /\ \/ \E code \in {"NOT_ACCEPTABLE", "TYPE_MISMATCH", "LIMIT_EXCEEDED", "exception"} :
            Answer(StatusOf(code), Nil, code) /\ UNCHANGED <<stored, working>>
       \/ LET path == Append(Location, EntryId)
              entry == [kind |-> demand.asked.stream, origin |-> demand.asked.reference, by |-> Len(answers) + 1]
              key == <<demand.storage, path>>
          IN  /\ stored' = [k \in DOMAIN stored \cup {key} |-> IF k = key THEN entry ELSE stored[k]]
              /\ IF Options.workflow
                 THEN /\ AnswerAt(path, 0, entry, "stream")
                      /\ working' = working \cup
                           {[by |-> Len(answers) + 1, does |-> "put", storage |-> demand.storage, path |-> path,
                             extensions |-> <<>>, told |-> Append(ToldLocation, EntryId)]}
                 ELSE AnswerAt(path, 0, entry, "entry") /\ UNCHANGED working
    /\ Steady

----------------------------------------------------------------------------
(* Get.ts, Delete.ts, Workflow.ts *)

Target == Find(demand.storage, demand.path, demand.asked.extensions)

Get ==
    /\ At("get")
    /\ IF demand.asked.described
       THEN IF ~Options.meta THEN Answer(403, Nil, Nil)
            ELSE IF Target = Nil THEN Answer(404, Nil, Nil) ELSE Answer(0, Target, "entry")
       ELSE IF demand.asked.conditional THEN Answer(304, Nil, Nil)
       ELSE IF Target = Nil THEN Answer(404, Nil, Nil)
       ELSE Answer(0, Target, IF demand.asked.verb = "GET" THEN "content" ELSE Nil)
    /\ UNCHANGED <<stored, working>> /\ Steady

(* Without a workflow nobody asks whether there is what is deleted.         *)
Delete ==
    /\ At("delete") /\ ~Options.workflow
    /\ stored' = Without(demand.storage, demand.path, demand.asked.extensions)
    /\ Answer(0, Nil, Nil)
    /\ UNCHANGED working /\ Steady

(* Of octets:workflow and octets:delete. *)
Work ==
    /\ At("workflow") \/ (At("delete") /\ Options.workflow)
    /\ IF Target = Nil THEN Answer(404, Nil, Nil) /\ UNCHANGED working
       ELSE /\ Answer(202, Target, "stream")
            /\ working' = working \cup
                 {[by |-> Len(answers) + 1, does |-> demand.at, storage |-> demand.storage, path |-> demand.path,
                   extensions |-> demand.asked.extensions, told |-> demand.path]}
    /\ UNCHANGED stored /\ Steady

WorkedAny(w) ==   \* faulty: the entry is deleted after any workflow
    /\ working' = working \ {w}
    /\ stored' = Without(w.storage, w.path, w.extensions)
    /\ UNCHANGED <<demand, answers>> /\ Steady

(* A workflow ends, perhaps with an error, at any time; it is read only if   *)
(* the client stays.                                                         *)
Worked(w) ==
    /\ working' = working \ {w}
    /\ \/ UNCHANGED stored
       \/ w.does = "delete" /\ stored' = Without(w.storage, w.path, w.extensions)
    /\ UNCHANGED <<demand, answers>> /\ Steady

MediaNext ==
    \/ Deploy \/ StartStorages \/ Ask \/ Direct
    \/ Put \/ Download \/ Store \/ Get \/ Delete \/ Work
    \/ \E w \in working : Worked(w)
MediaSpec == MediaInit /\ [][MediaNext]_mediaVars
----------------------------------------------------------------------------
(* Properties *)

MediaTyped == /\ started \in {Nil, "refused", "failed", "up"}
              /\ \A key \in DOMAIN stored : stored[key].by \in DOMAIN answers
              /\ demand # Nil => demand.asked.verb \in DOMAIN setting.methods

\* A process starts unless the cluster lacks a secret that its storages need.
Starts == started = "failed" =>
    \E s \in DOMAIN Declared : ~Created(s, {secret \in setting.secrets : secret[1] = s})

Did(i, name, body) == answers[i].at \in name /\ answers[i].body \in body
\* Between the two nobody puts under the path, and nobody has deleted it or
\* begun to: a workflow that ends later deletes what is there by then.
Untouched(path, i, j) ==
    /\ \A k \in (i + 1)..(j - 1) : answers[k].path = path =>
          answers[k].at # "delete" /\ ~Did(k, {"store"}, {"entry", "stream"})
    /\ \A k \in 1..(j - 1) : answers[k].path = path => ~Did(k, {"delete"}, {"stream"})

(* What has been put is found under its path, by any request that may read   *)
(* it, until it is deleted or put again: on Cloudinary if it is of the type  *)
(* and what is required of an extension is there.                            *)
FoundAgain ==
    \A i, j \in DOMAIN answers :
        /\ i < j /\ answers[i].path = answers[j].path /\ answers[i].storage = answers[j].storage
        /\ Did(i, {"store"}, {"entry", "stream"})
        /\ Did(j, {"get"}, {Nil, "content", "entry"}) /\ answers[j].status \in {0, 404}
        /\ Untouched(answers[j].path, i, j)
        => \/ answers[j].entry # Nil /\ answers[j].entry.by = i
           \/ answers[j].asked.extensions # <<>> \/ ~OfType(answers[j].storage, answers[i].entry)
           \/ ~Reachable(answers[j].storage, answers[j].path, <<>>)

(* What is deleted is not found until it is put again.                       *)
Deleted(i) == /\ Did(i, {"delete"}, {Nil}) /\ answers[i].status = 0
              /\ answers[i].asked.extensions = <<>>
Gone ==
    \A i, j \in DOMAIN answers :
        /\ i < j /\ answers[i].path = answers[j].path /\ answers[i].storage = answers[j].storage
        /\ Deleted(i) /\ \A k \in i..j : answers[k].path # answers[i].path \/ answers[k].at # "store"
        /\ answers[j].at = "get"
        => answers[j].entry = Nil \/ ~OfType(answers[j].storage, answers[j].entry)

(* An entry that has an origin was downloaded from one that is trusted, for  *)
(* a request that brought nothing itself.                                    *)
OriginsTrusted ==
    \A key \in DOMAIN stored :
        stored[key].origin # Nil =>
            LET asked == answers[stored[key].by].asked
            IN  asked.empty /\ stored[key].origin \in Actions(asked.verb)[1].value.trust

(* A variant is one of transformations in their order that match, with all   *)
(* that are required; and whenever there are such, if an extension can only  *)
(* be one of them, there is the variant.                                     *)
Chosen(ts, extensions, used) ==
    /\ \A i \in DOMAIN used : Matches(ts[used[i]], extensions[i])
    /\ \A i, j \in DOMAIN used : i < j => used[i] < used[j]
    /\ \A t \in DOMAIN ts : ts[t].optional \/ \E i \in DOMAIN used : used[i] = t
AsAsked ==
    At("get") /\ Declared[demand.storage].transformations # <<>> =>
        LET ts == Declared[demand.storage].transformations
            es == demand.asked.extensions
            possible == {used \in [DOMAIN es -> DOMAIN ts] : Chosen(ts, es, used)}
            plain == \A i \in DOMAIN es : \A t, u \in DOMAIN ts :
                        Matches(ts[t], es[i]) /\ Matches(ts[u], es[i]) => t = u
        IN  /\ Target # Nil => possible # {}
            /\ possible # {} /\ plain => \E used \in Through(ts, es) : used \in possible

(* The steps of a workflow are told where the entry is, unless the location  *)
(* of `put` is relative: then they are told it without the request's path.   *)
ToldWhere == \A w \in working :
    \/ w.told = w.path
    \/ /\ w.does = "put"
       /\ LET location == Actions(answers[w.by].asked.verb)[1].value.location
          IN  location # Nil /\ ~location.absolute

(* What the resources of octets promise (octets.md, Storages).               *)
MediaSound == MediaTyped /\ Starts /\ FoundAgain /\ Gone /\ OriginsTrusted /\ AsAsked /\ ToldWhere
=============================================================================
