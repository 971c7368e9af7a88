----------------------------- MODULE Deployment ------------------------------
(***************************************************************************)
(* `toa deploy`: a context's components are put into compositions (norm),  *)
(* each dependency declares variables for the components that use it       *)
(* (pointer), the broker for all of them and for those that hear foreign   *)
(* sources, and services to run; an image of each composition and service  *)
(* is prepared, built and pushed unless the registry has it, and a release *)
(* is installed that runs the images with these variables, from which a    *)
(* component resolves its URLs again.  A dry run only renders the release. *)
(*                                                                         *)
(* A name is the sequence of its words, which dots, dashes or underscores  *)
(* separate, as a component's namespace and name are single words.         *)
(***************************************************************************)
EXTENDS Naturals, SequencesExt, FiniteSetsExt

CONSTANTS Components,    \* in the order of the context
          Id,            \* the locator's id of each: <<namespace, name>>
          Compositions,  \* as declared: sequences of components, by name
          Dependencies,  \* connectors and extensions, in the order of resolve()
          Uses,          \* dependency -> the components that use it, in order
          Foreign,       \* component -> the sources it hears, without a namespace
          Services,      \* dependency -> its services: [name, version]
          Bases,         \* composition -> its base image in the context, or Nothing
          Base,          \* component -> the base image it is built from, or Nothing
          Annotations,   \* contexts' annotations: dependency -> key -> URL,
                         \* with "amqp-context", "amqp-sources" and "build", the
                         \* registry's [image, arguments]
          Environment,   \* operator -> the values of build arguments
          Secure,        \* URLs that need credentials
          Operators,     \* runs of the command
          MaxEdits,
          Nothing

VARIABLES source,    \* component -> its version (a hash of its directory)
          run,       \* operator -> how far it has come
          registry,  \* image reference -> what the image contains
          release    \* what the cluster runs, or Nothing

deployVars == <<source, run, registry, release>>

Run == [phase |-> "none", plan |-> Nothing, dry |-> FALSE, prepared |-> FALSE,
        todo |-> <<>>, building |-> FALSE, exported |-> FALSE]
DeployInit == /\ source = [c \in ToSet(Components) |-> 0]
              /\ run = [o \in Operators |-> Run]
              /\ registry = << >> /\ release = Nothing

Update(o, record) == run' = [run EXCEPT ![o] = record]
FailRun(o) == Update(o, [run[o] EXCEPT !.phase = "failed"])

----------------------------------------------------------------------------
(* norm: a component that is in no composition gets one of its own. *)

Label(c) == Id[c]
Composed == UNION {ToSet(Compositions[name]) : name \in DOMAIN Compositions}
Completed ==
    [name \in DOMAIN Compositions \cup {Label(c) : c \in ToSet(Components) \ Composed} |->
        IF name \in DOMAIN Compositions THEN Compositions[name]
        ELSE <<CHOOSE c \in ToSet(Components) : Label(c) = name>>]
DuplicateName == DOMAIN Compositions \cap {Label(c) : c \in ToSet(Components) \ Composed} # {}

----------------------------------------------------------------------------
(* pointer *)

Variable(dependency, selector) == <<dependency>> \o selector

(* resolveRecord: the selector, or without its last segment, and so on down  *)
(* to the default `.`, which is the empty key here.                          *)
ResolveRecord(annotation, selector) ==
    LET found == {n \in 0..Len(selector) : SubSeq(selector, 1, n) \in DOMAIN annotation}
    IN  IF found = {} THEN Nothing ELSE SubSeq(selector, 1, Max(found))

(* The broker's sources are resolved by the names of those, everything else  *)
(* by the component's id.                                                    *)
SelectorsOf(d, c) == IF d = "amqp-sources" THEN Foreign[c] ELSE <<Id[c]>>
Unresolved(annotations) == \E d \in ToSet(Dependencies) : \E c \in ToSet(Uses[d]) :
    \E selector \in ToSet(SelectorsOf(d, c)) : ResolveRecord(annotations[d], selector) = Nothing

(* The URL and, if it needs them, credentials of the key's secret. *)
CreateVariablesOwn(annotation, d, selector) ==   \* faulty: secrets of the selector
    LET key == ResolveRecord(annotation, selector)
        secret(token) == [name |-> Variable(d, Append(selector, token)), value |-> <<d, selector, token>>]
    IN  <<[name |-> Variable(d, selector), value |-> <<annotation[key]>>]>>
        \o IF annotation[key] \in Secure THEN <<secret("username"), secret("password")>> ELSE <<>>
CreateVariables(annotation, d, selector) ==
    LET key == ResolveRecord(annotation, selector)
        secret(token) == [name |-> Variable(d, Append(selector, token)), value |-> <<d, key, token>>]
    IN  <<[name |-> Variable(d, selector), value |-> <<annotation[key]>>]>>
        \o IF annotation[key] \in Secure THEN <<secret("username"), secret("password")>> ELSE <<>>

----------------------------------------------------------------------------
(* operations: the variables of all dependencies, by the component's label   *)
(* in the order in which labels first occur, then those of every component.  *)

Labels == FlattenSeq([i \in DOMAIN Dependencies |->
    [j \in DOMAIN Uses[Dependencies[i]] |-> Label(Uses[Dependencies[i]][j])]])

ExportedFor(annotation, d, c) ==
    FlattenSeq([k \in DOMAIN SelectorsOf(d, c) |-> CreateVariables(annotation, d, SelectorsOf(d, c)[k])])
Merge(annotations, label) ==
    FlattenSeq([i \in DOMAIN Dependencies |->
        LET d == Dependencies[i] IN
        FlattenSeq([j \in DOMAIN Uses[d] |->
            IF Label(Uses[d][j]) = label THEN ExportedFor(annotations[d], d, Uses[d][j]) ELSE <<>>])])

(* The broker of the context: all of its URLs, and credentials of each key,  *)
(* for everybody.                                                            *)
Broker == "amqp-context"
KeySecret(key, token) == [name |-> Variable(Broker, Append(key, token)), value |-> <<Broker, key, token>>]
KeySecrets(key) == <<KeySecret(key, "username"), KeySecret(key, "password")>>
ContextVariables(context) ==
    LET keys == SetToSeq(DOMAIN context)
    IN  <<[name |-> <<Broker>>, value |-> context]>> \o FlattenSeq([i \in DOMAIN keys |-> KeySecrets(keys[i])])
Described == <<[name |-> <<"context">>, value |-> <<"name">>], [name |-> <<"env">>, value |-> <<"environment">>]>>
Global(annotations) == Described \o ContextVariables(annotations[Broker])

(* addVariables: of several variables with one name, the first; a label that *)
(* occurs again adds nothing.                                                *)
AllVariables(annotations, members) ==
    FlattenSeq([i \in DOMAIN Labels |->
        IF \E c \in ToSet(members) : Label(c) = Labels[i] THEN Merge(annotations, Labels[i]) ELSE <<>>])
    \o Global(annotations)
AddVariables(annotations, members) ==
    LET all == AllVariables(annotations, members)
        named(name) == {i \in DOMAIN all : all[i].name = name}
    IN  [name \in {all[i].name : i \in DOMAIN all} |-> all[Min(named(name))].value]

----------------------------------------------------------------------------
(* Images: an image's tag hashes the runtime's version and the components'   *)
(* ids and versions in their order, or the service's version.                *)

CompositionImage(name, versions) ==
    LET members == Completed[name]
    IN  [name |-> name, of |-> "composition", members |-> members,
         version |-> [i \in DOMAIN members |-> versions[members[i]]]]
ServiceImage(service) ==
    [name |-> <<service.name>>, of |-> "service", members |-> <<>>, version |-> service.version]
AllServices == UNION {ToSet(Services[d]) : d \in {x \in ToSet(Dependencies) : Uses[x] # <<>>}}

(* A composition's base image is the context's, or else that of its          *)
(* components, who must agree, or else the registry's.                       *)
Wanted(name) == {Base[c] : c \in ToSet(Completed[name])}
Based(name) == name \in DOMAIN Bases /\ Bases[name] # Nothing
BaseConflict(image) ==
    image.of = "composition" /\ ~Based(image.name) /\ \E a, b \in Wanted(image.name) : a # b
OwnBase(name) == IF Based(name) THEN Bases[name] ELSE CHOOSE b \in Wanted(name) : TRUE
BaseImage(image, build) ==
    IF image.of = "service" THEN "node"
    ELSE IF OwnBase(image.name) # Nothing THEN OwnBase(image.name)
    ELSE IF build.image # Nothing THEN build.image ELSE "node"

(* Locators are of one component each, and compositions of components.       *)
DeploymentSane ==
    /\ \A c, d \in ToSet(Components) : Id[c] = Id[d] => c = d
    /\ \A name \in DOMAIN Compositions : Compositions[name] \in Seq(ToSet(Components))
    /\ IsFiniteSet(DOMAIN Completed) /\ IsFiniteSet(AllServices)

(* Names are sequences; a dependency's is none of the runtime's own, and no  *)
(* selector of it is what another one's credentials are named after.         *)
Tokens == {"username", "password"}
IsSeq(s) == s \in Seq(ToSet(s))
VariablesSane ==
    /\ IsSeq(Dependencies) /\ ToSet(Dependencies) \cap {Broker, "context", "env"} = {}
    /\ \A d \in ToSet(Dependencies) :
        /\ Uses[d] \in Seq(ToSet(Components))
        /\ \A c \in ToSet(Uses[d]) : IsSeq(SelectorsOf(d, c)) /\ \A x \in ToSet(SelectorsOf(d, c)) : IsSeq(x)
        /\ \A b, c \in ToSet(Uses[d]) : \A x \in ToSet(SelectorsOf(d, b)), y \in ToSet(SelectorsOf(d, c)) :
              \A token \in Tokens : x # Append(y, token)
    /\ \A c \in ToSet(Components) : IsSeq(Id[c])
    /\ \A annotations \in Annotations :
        /\ \A d \in ToSet(Dependencies) : Uses[d] # <<>> => \A key \in DOMAIN annotations[d] : IsSeq(key)
        /\ IsFiniteSet(DOMAIN annotations[Broker]) /\ \A key \in DOMAIN annotations[Broker] : IsSeq(key)
ASSUME DeploymentAssumption == DeploymentSane /\ VariablesSane

----------------------------------------------------------------------------
(* Somebody commits a change; a run of the command has a checkout of its own. *)
Edit(c) ==
    /\ FoldFunction(LAMBDA a, b : a + b, 0, source) < MaxEdits
    /\ source' = [source EXCEPT ![c] = @ + 1]
    /\ UNCHANGED <<run, registry, release>>

ImagesOf(plan) == {plan.images[name] : name \in DOMAIN plan.images} \cup plan.services

(* Factory.create and operator(): the context is loaded and described. *)
Plan(o) ==
    /\ run[o].phase = "none"
    /\ \E annotations \in Annotations :
        IF Unresolved(annotations) \/ DuplicateName
        THEN FailRun(o)
        ELSE LET images == [name \in DOMAIN Completed |-> CompositionImage(name, source)]
                 plan == [annotations |-> annotations, versions |-> source, images |-> images,
                          services |-> {ServiceImage(x) : x \in AllServices},
                          env |-> [name \in DOMAIN Completed |-> AddVariables(annotations, Completed[name])]]
             IN  \E dry \in BOOLEAN :
                    Update(o, [Run EXCEPT
                        !.phase = "install", !.plan = plan, !.dry = dry, !.prepared = dry,
                        !.todo = IF dry THEN <<>> ELSE SetToSeq(ImagesOf(plan))])
    /\ UNCHANGED <<source, registry, release>>

(* Promise.all([export, push]) *)
Export(o) ==
    /\ run[o].phase = "install" /\ ~run[o].exported
    /\ \/ Update(o, [run[o] EXCEPT !.exported = TRUE])
       \/ FailRun(o)
    /\ UNCHANGED <<source, registry, release>>

(* The directory and the Dockerfile of each image; components that want      *)
(* different base images cannot share one.                                   *)
Prepare(o) ==
    /\ run[o].phase = "install" /\ ~run[o].prepared
    /\ IF \E image \in ToSet(run[o].todo) : BaseConflict(image) THEN FailRun(o)
       ELSE Update(o, [run[o] EXCEPT !.prepared = TRUE])
    /\ UNCHANGED <<source, registry, release>>

Exists(o) ==
    /\ run[o].phase = "install" /\ run[o].prepared /\ run[o].todo # <<>> /\ ~run[o].building
    /\ IF Head(run[o].todo) \in DOMAIN registry
       THEN Update(o, [run[o] EXCEPT !.todo = Tail(@)])
       ELSE Update(o, [run[o] EXCEPT !.building = TRUE])
    /\ UNCHANGED <<source, registry, release>>

(* docker buildx build --push, with the checkout's directories and the       *)
(* operator's values of the build's arguments.                               *)
Contents(o, image) ==
    LET plan == run[o].plan
        build == plan.annotations["build"]
    IN  [versions |-> [c \in ToSet(image.members) |-> plan.versions[c]], base |-> BaseImage(image, build),
         arguments |-> IF image.of = "service" THEN <<>> ELSE [a \in build.arguments |-> Environment[o][a]]]
BuildImage(o) ==
    /\ run[o].phase = "install" /\ run[o].building
    /\ \/ LET image == Head(run[o].todo) IN
          /\ registry' = [x \in DOMAIN registry \cup {image} |->
                              IF x = image THEN Contents(o, image) ELSE registry[x]]
          /\ Update(o, [run[o] EXCEPT !.todo = Tail(@), !.building = FALSE])
       \/ FailRun(o) /\ UNCHANGED registry
    /\ UNCHANGED <<source, release>>

(* helm upgrade -i *)
Install(o) ==
    /\ run[o].phase = "install" /\ run[o].exported /\ run[o].prepared /\ run[o].todo = <<>> /\ ~run[o].dry
    /\ \/ release' = run[o].plan /\ Update(o, [run[o] EXCEPT !.phase = "done"])
       \/ FailRun(o) /\ UNCHANGED release
    /\ UNCHANGED <<source, registry>>
(* helm template *)
Template(o) ==
    /\ run[o].phase = "install" /\ run[o].exported /\ run[o].dry
    /\ Update(o, [run[o] EXCEPT !.phase = "done"])
    /\ UNCHANGED <<source, registry, release>>

Step(o) == Export(o) \/ Prepare(o) \/ Exists(o) \/ BuildImage(o) \/ Install(o) \/ Template(o)
DeployNext == \/ \E c \in ToSet(Components) : Edit(c)
              \/ \E o \in Operators : Plan(o) \/ Step(o)
DeploySpec == DeployInit /\ [][DeployNext]_deployVars

----------------------------------------------------------------------------
(* Properties *)

Running == IF release = Nothing THEN {} ELSE DOMAIN release.images

(* Whatever failed, was skipped or ran at the same time: the images that the *)
(* cluster is told to run are in the registry and hold the components as    *)
(* they were in the checkout the release was made of.                       *)
Images == IF release = Nothing THEN {} ELSE ImagesOf(release)
Pullable == Images \subseteq DOMAIN registry
Current == \A image \in Images \cap DOMAIN registry :
    \A c \in DOMAIN registry[image].versions : registry[image].versions[c] = release.versions[c]

(* A composition runs on the base image that the context names for it, or    *)
(* else on that of its components, all of which want it.                     *)
WellBased == \A name \in Running : release.images[name] \in DOMAIN registry =>
    LET base == registry[release.images[name]].base IN
    IF Based(name) THEN base = Bases[name]
    ELSE \A c \in ToSet(Completed[name]) : Base[c] \in {base, Nothing} /\ (Base[c] = Nothing => Wanted(name) = {Nothing})

(* Each component of the context runs in some composition.                  *)
Everywhere == release # Nothing => \A c \in ToSet(Components) :
    \E name \in Running : name \in DOMAIN release.env /\ Contains(Completed[name], c)

(* What the runtime gets: resolve() reads the variable of its selector.      *)
Read(env, name) == IF name \in DOMAIN env THEN env[name] ELSE Nothing

(* A component resolves the URL of the longest key that begins its id (the   *)
(* "deepest match", pointer readme.md:55) and with it the credentials of     *)
(* that key, whoever shares its composition; and so it does those of the     *)
(* broker, and of the sources that it hears.                                 *)
Deepest(annotation, id) ==
    CHOOSE key \in DOMAIN annotation :
        /\ IsPrefix(key, id)
        /\ \A other \in DOMAIN annotation : IsPrefix(other, id) => Len(other) <= Len(key)
Resolves ==
    \A name \in Running :
        \A d \in ToSet(Dependencies) : \A c \in ToSet(Completed[name]) \cap ToSet(Uses[d]) :
            \A selector \in ToSet(SelectorsOf(d, c)) :
                LET annotation == release.annotations[d]
                    key == Deepest(annotation, selector)
                    variable == Variable(d, selector)
                IN  /\ Read(release.env[name], variable) = <<annotation[key]>>
                    /\ annotation[key] \in Secure =>
                        Read(release.env[name], Append(variable, "password")) = <<d, key, "password">>

(* resolveURIs: what a component makes of the broker's variables.            *)
ResolveURIs(env, c) ==
    LET context == Read(env, <<Broker>>)
        key == ResolveRecord(context, Id[c])
    IN  [url |-> context[key], password |-> Read(env, Variable(Broker, Append(key, "password")))]
BrokerResolves == \A name \in Running : \A c \in ToSet(Completed[name]) :
    LET context == release.annotations[Broker]
        key == Deepest(context, Id[c])
    IN  (\E k \in DOMAIN context : IsPrefix(k, Id[c])) =>
            ResolveURIs(release.env[name], c) = [url |-> context[key], password |-> <<Broker, key, "password">>]

(* No composition gets the variables of components it does not run.         *)
OwnOnly ==
    \A name \in Running : \A v \in DOMAIN release.env[name] :
        \/ [name |-> v, value |-> release.env[name][v]] \in ToSet(Global(release.annotations))
        \/ \E c \in ToSet(Completed[name]), d \in ToSet(Dependencies) :
              c \in ToSet(Uses[d]) /\ \E x \in ToSet(SelectorsOf(d, c)) : IsPrefix(Variable(d, x), v)

(* A release runs the current components, all of them, on their own bases    *)
(* and with their own variables, whatever fails or is repeated on the way    *)
(* (operations of the norm and of the CLI's `deploy`).                       *)
ImagesSound == Pullable /\ Current /\ WellBased /\ Everywhere
ReleaseSound == ImagesSound /\ Resolves /\ BrokerResolves /\ OwnOnly
=============================================================================
