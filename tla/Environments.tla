----------------------------- MODULE Environments -----------------------------
(***************************************************************************)
(* `toa env` and `toa conceal`: the variables of an environment are written *)
(* to a file, where credentials are kept that somebody put there or is      *)
(* asked for; secrets of the cluster are read and applied again with what   *)
(* is concealed in them (cli env and conceal, library kubernetes).          *)
(* Which variables an environment has is Deployment.                        *)
(***************************************************************************)
EXTENDS Naturals, SequencesExt, FiniteSetsExt

(* A variable is [value] or [secret, key], one of them Missing.                *)
CONSTANTS Environments,   \* environment -> its variables
          Commands,       \* runs of `conceal`
          Words,          \* what somebody types
          Empty, MaxChanges, Missing

VARIABLES env,       \* the file, or Missing
          written,   \* the credentials that somebody has put there
          selected,  \* the environment that it was written for, or Missing
          asked,     \* whether for its secrets
          secrets,   \* secret -> key -> value, in the cluster
          command,   \* run -> what it has still to conceal, and what it has read
          concealed, \* secret -> key -> what was concealed last
          raced,     \* secrets that were applied as they were not
          changes

filesVars == <<env, written, selected, asked, secrets, command, concealed, raced, changes>>

Variables(e) == Environments[e]
Names(e) == DOMAIN Variables(e)
SecretNames(e) == {n \in Names(e) : Variables(e)[n].secret # Missing}
Key(e, n) == <<Variables(e)[n].secret, Variables(e)[n].key>>
SecretKeys == UNION {{Key(e, n) : n \in SecretNames(e)} : e \in DOMAIN Environments}

(* Somebody types something; what is no secret has a value; and the file is  *)
(* not taken for none.                                                       *)
Texts == Words \cup {Empty} \cup UNION {{Variables(e)[n].value : n \in Names(e)} : e \in DOMAIN Environments}
EnvironmentsSane ==
    /\ Empty \notin Words
    /\ \A e \in DOMAIN Environments :
        /\ Missing \notin [Names(e) -> Texts]
        /\ \A n \in Names(e) \ SecretNames(e) : Variables(e)[n].value # Empty

NoCommand == [todo |-> <<>>, read |-> Missing]
FilesInit == /\ env = Missing /\ written = <<>> /\ selected = Missing /\ asked = FALSE
             /\ secrets = <<>> /\ command = [c \in Commands |-> NoCommand]
             /\ concealed = <<>> /\ raced = {} /\ changes = 0

Change == changes < MaxChanges /\ changes' = changes + 1

----------------------------------------------------------------------------
(* env *)

(* What the file says of a secret's variable is kept, unless it is empty.   *)
InFile(n) == IF env # Missing /\ n \in DOMAIN env THEN env[n] ELSE Empty
Merged(e) == [n \in Names(e) |->
    IF n \notin SecretNames(e) \/ InFile(n) = Empty THEN Variables(e)[n]
    ELSE [value |-> InFile(n), secret |-> Missing, key |-> Missing]]
Unknown(merged) == {n \in DOMAIN merged : merged[n].secret # Missing}
Prompts(e, merged) == {Key(e, n) : n \in Unknown(merged)}

(* Each secret that is not known is asked for once.                          *)
Env(e, interactive) ==
    LET merged == Merged(e) IN
    \E answers \in [IF interactive THEN Prompts(e, merged) ELSE {} -> Words] :
        LET content == [n \in Names(e) |->
                IF n \notin Unknown(merged) THEN merged[n].value
                ELSE IF interactive THEN answers[Key(e, n)] ELSE Empty]
            typed == IF interactive THEN Unknown(merged) ELSE {}
        IN  /\ env' = content
            /\ written' = [n \in (DOMAIN written \cap SecretNames(e)) \cup typed |->
                              IF n \in typed THEN content[n] ELSE written[n]]
            /\ selected' = e /\ asked' = interactive
            /\ Change
            /\ UNCHANGED <<secrets, command, concealed, raced>>

(* Somebody puts a credential into the file. *)
Write(n, word) ==
    /\ env # Missing /\ n \in DOMAIN env
    /\ env' = [env EXCEPT ![n] = word]
    /\ written' = [m \in DOMAIN written \cup {n} |-> IF m = n THEN word ELSE written[m]]
    /\ Change
    /\ UNCHANGED <<selected, asked, secrets, command, concealed, raced>>

----------------------------------------------------------------------------
(* conceal *)

(* The keys of a secret that are passed, or those of an environment, secret  *)
(* by secret.                                                                *)
Start(c, groups) ==
    /\ command[c] = NoCommand
    /\ command' = [command EXCEPT ![c].todo = groups]
    /\ Change
    /\ UNCHANGED <<env, written, selected, asked, secrets, concealed, raced>>
Group(s, values) == [secret |-> s, data |-> values]
ConcealValue(c, key, word) == Start(c, <<Group(key[1], key[2] :> word)>>)
ConcealValues(c, e) ==
    LET keys == {Key(e, n) : n \in SecretNames(e)}
        names == SetToSeq({k[1] : k \in keys})
    IN  \E values \in [keys -> Words] :
            Start(c, [i \in DOMAIN names |->
                Group(names[i], [k \in {x[2] : x \in {y \in keys : y[1] = names[i]}} |-> values[<<names[i], k>>]])])

Under(map, s) == IF s \in DOMAIN map THEN map[s] ELSE <<>>
Set(map, s, data) == [x \in DOMAIN map \cup {s} |-> IF x = s THEN data ELSE map[x]]

(* upsert: whatever goes wrong when it is read, the secret is taken not to  *)
(* be there.                                                                 *)
Get(c) ==
    /\ command[c].todo # <<>> /\ command[c].read = Missing
    /\ LET s == Head(command[c].todo).secret IN
       \/ command' = [command EXCEPT ![c].read = [data |-> Under(secrets, s)]]
       \/ command' = [command EXCEPT ![c].read = [data |-> <<>>]]
    /\ UNCHANGED <<env, written, selected, asked, secrets, concealed, raced, changes>>
Upsert(read, data) == [k \in DOMAIN data \cup DOMAIN read |-> IF k \in DOMAIN data THEN data[k] ELSE read[k]]

(* What is applied replaces what is there; or it fails, and so does the      *)
(* command.                                                                  *)
Deploy(c) ==
    /\ command[c].read # Missing
    /\ LET group == Head(command[c].todo)
           s == group.secret
       IN  \/ /\ secrets' = Set(secrets, s, Upsert(command[c].read.data, group.data))
              /\ concealed' = Set(concealed, s, Upsert(Under(concealed, s), group.data))
              /\ raced' = IF command[c].read.data = Under(secrets, s) THEN raced ELSE raced \cup {s}
              /\ command' = [command EXCEPT ![c] = [NoCommand EXCEPT !.todo = Tail(command[c].todo)]]
           \/ command' = [command EXCEPT ![c] = NoCommand] /\ UNCHANGED <<secrets, concealed, raced>>
    /\ UNCHANGED <<env, written, selected, asked, changes>>

FilesNext == \/ \E e \in DOMAIN Environments :
                   \/ \E interactive \in BOOLEAN : Env(e, interactive)
                   \/ \E n \in SecretNames(e), word \in Words : Write(n, word)
                   \/ \E c \in Commands : ConcealValues(c, e)
             \/ \E c \in Commands : \/ Get(c) \/ Deploy(c)
                                   \/ \E key \in SecretKeys, word \in Words : ConcealValue(c, key, word)
FilesSpec == FilesInit /\ [][FilesNext]_filesVars

----------------------------------------------------------------------------
(* Properties *)

(* "Credentials specified in the output file are preserved" (cli             *)
(* readme.md:59), from one environment to the next, as long as each has them *)
(* as secrets.                                                               *)
Preserved == \A n \in DOMAIN written : env[n] = written[n]

(* The file is the environment's: each of its variables, with its own value  *)
(* where that is no secret; once its secrets are asked for none is missing,  *)
(* and where nobody wrote another one, the variables of one secret have one  *)
(* value.                                                                    *)
Entire == selected # Missing =>
    /\ DOMAIN env = Names(selected)
    /\ \A n \in Names(selected) \ SecretNames(selected) :
          n \in DOMAIN written \/ env[n] = Variables(selected)[n].value
    /\ asked => \A n \in Names(selected) : env[n] # Empty

(* A secret of the cluster has what was concealed last of each of its keys,  *)
(* unless one was concealed while another was, or could not be read; it     *)
(* never has what nobody concealed.                                          *)
Concealed == \A s \in DOMAIN secrets :
    /\ DOMAIN secrets[s] \subseteq DOMAIN concealed[s]
    /\ s \notin raced => secrets[s] = concealed[s]

(* Environments and secrets keep what they are given (cli).                  *)
EnvironmentsKept == Preserved /\ Entire /\ Concealed
=============================================================================
