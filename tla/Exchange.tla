------------------------------ MODULE Exchange ------------------------------
(***************************************************************************)
(* An HTTP request on its way through the exposition: the server's         *)
(* listener, the interceptors, the directives of the method (preflight),   *)
(* the operation, the directives again (settle), the response's transforms *)
(* and, from any of these, the failure path.                               *)
(*                                                                         *)
(* Bodies, headers and replies are abstracted to the cases the code tells  *)
(* apart; what a directive or the operation answers is any of its cases.   *)
(***************************************************************************)
EXTENDS Directives, FiniteSets

CONSTANTS HttpRequests,
          Declarations,  \* the stacks of directives methods are declared with
          Method         \* the verb of all requests: "GET" or "POST"

Families == {"auth", "io", "cache", "require", "flow", "octets"}
(* One set is of `auth`, and what is asked before it only adds to the      *)
(* response.                                                               *)
Guarded(sets) ==
    \E n \in DOMAIN sets : /\ \A i \in DOMAIN sets : sets[i].family = "auth" <=> i = n
                           /\ \A i \in 1..(n - 1) : sets[i].family \in {"io", "cache"}

(* What Directives.create makes of every declaration: `auth` is mandatory, *)
(* and only `io` and `cache` are besides.                                  *)
ASSUME ExchangeAssumption ==
    \A declared \in Declarations :
        LET sets == DirectiveSets(declared)
        IN  /\ sets \in Seq({sets[i] : i \in DOMAIN sets})
            /\ \A i \in DOMAIN sets : sets[i].family \in Families
            /\ Guarded(sets)

VARIABLES server,   \* down, listening (not ready), ready, closing, closed
          memo,     \* Control.control: the flags the first request resolved, or None
          req       \* request -> how far it has come

exchangeVars == <<server, memo, req>>

(* identity: null, or by its scheme and `refresh`; output: the response's  *)
(* body; touched: an operation or an octets action was carried out.        *)
Idle == [stage |-> "none", todo |-> <<>>, sets |-> <<>>, encoder |-> TRUE,
         identity |-> None, authorized |-> FALSE, interrupted |-> FALSE,
         touched |-> FALSE, body |-> None, transforms |-> {}, status |-> 0,
         control |-> {}, token |-> FALSE]

ExchangeInit == server = "down" /\ memo = None /\ req = [r \in HttpRequests |-> Idle]

Set(r, next) == req' = [req EXCEPT ![r] = next]
Fail(r, status) == Set(r, [req[r] EXCEPT !.stage = "fail", !.status = status])

----------------------------------------------------------------------------
(* HTTP/Server *)

OpenServer == /\ server = "down" /\ server' = "listening" /\ UNCHANGED <<memo, req>>
ServerReady == /\ server = "listening" /\ server' = "ready" /\ UNCHANGED <<memo, req>>
CloseServer == /\ server = "ready" /\ server' = "closing" /\ UNCHANGED <<memo, req>>
(* The server's `close` event: every connection has ended. *)
ServerClosed == /\ server = "closing" /\ \A r \in HttpRequests : req[r].stage \in {"none", "done"}
                /\ server' = "closed" /\ UNCHANGED <<memo, req>>

(* Server.listener; the interceptor CORS adds a transform if there is an   *)
(* origin.  (Its answers to OPTIONS, /.ready and to what is refused before *)
(* it gets a context are immediate.)                                       *)
Receive(r) ==
    /\ server \in {"listening", "ready"} /\ req[r].stage = "none"
    /\ \/ \E status \in {400, 501, 200, 503} :
            /\ status = 200 => server = "ready"
            /\ status = 503 => server # "ready"
            /\ Set(r, [req[r] EXCEPT !.stage = "done", !.status = status])
       \/ \E encoder \in BOOLEAN, cors \in SUBSET {"cors"} :
            Set(r, [req[r] EXCEPT !.stage = "routing", !.encoder = encoder, !.transforms = cors])
    /\ UNCHANGED <<server, memo>>

(* Gateway.match and the verb. *)
Process(r) ==
    /\ req[r].stage = "routing"
    /\ \/ \E status \in {404, 405} : Fail(r, status)
       \/ \E declared \in Declarations :
            LET sets == DirectiveSets(declared)
            IN  Set(r, [req[r] EXCEPT !.stage = "preflight", !.todo = sets, !.sets = sets])
    /\ UNCHANGED <<server, memo>>

----------------------------------------------------------------------------
(* Directives.preflight: family by family; one of them may respond, and    *)
(* the rest are consulted all the same.                                    *)

Pass(r, next) == Set(r, [next EXCEPT !.todo = Tail(@)])
Output(r, body) ==
    IF req[r].interrupted THEN Fail(r, 500)
    ELSE Pass(r, [req[r] EXCEPT !.interrupted = TRUE, !.body = body])
(* An octets action is carried out before its output is refused.           *)
Act(r, body) ==
    IF req[r].interrupted
    THEN Set(r, [req[r] EXCEPT !.stage = "fail", !.status = 500, !.touched = TRUE])
    ELSE Pass(r, [req[r] EXCEPT !.interrupted = TRUE, !.body = body, !.touched = TRUE])

(* Authorization.preflight: who it is, then the first directive to allow,  *)
(* which may respond itself (auth:echo, auth:incept).                      *)
Authorize(r, directives) ==
    \E who \in {None, "primary", "stale", "other"} :
        LET allowed == [req[r] EXCEPT !.authorized = TRUE, !.identity = who]
        IN  \/ Fail(r, IF who = None THEN 401 ELSE 403)
            \/ directives # <<>> /\ Pass(r, allowed)
            \/ /\ directives # <<>> /\ ~req[r].interrupted
               /\ Pass(r, [allowed EXCEPT !.interrupted = TRUE, !.body = "object"])

Transformed(r, transform) == [req[r] EXCEPT !.transforms = @ \cup {transform}]
Preflight(r) ==
    /\ req[r].stage = "preflight" /\ req[r].todo # <<>>
    /\ LET set == Head(req[r].todo)
       IN  CASE set.family = "auth" -> Authorize(r, set.directives)
             [] set.family = "io" -> Pass(r, Transformed(r, "output"))
             [] set.family = "cache" -> Pass(r, req[r])
             [] set.family = "require" -> Pass(r, req[r]) \/ Fail(r, 400)
             [] set.family = "flow" ->  \* compose attaches, fetch responds
                  \/ Pass(r, Transformed(r, "compose"))
                  \/ Output(r, "stream") \/ Output(r, "null") \/ Fail(r, 404)
             [] set.family = "octets" ->  \* only a context; put, delete; get; refusals
                  \/ Pass(r, req[r]) \/ Act(r, "object") \/ Output(r, "stream")
                  \/ \E status \in {404, 500} : Fail(r, status)
    /\ UNCHANGED <<server, memo>>

----------------------------------------------------------------------------
(* Gateway.call and Endpoint.call *)

(* Slash, encoder, endpoint, body, query: whatever is wrong is found before *)
(* the operation is invoked.                                               *)
Refuse(r) ==
    /\ req[r].stage = "preflight" /\ req[r].todo = <<>> /\ ~req[r].interrupted
    /\ IF ~req[r].encoder THEN \E status \in {404, 406} : Fail(r, status)
       ELSE \E status \in {404, 405, 415, 400, 403} : Fail(r, status)
    /\ UNCHANGED <<server, memo>>

(* The remote's reply or exception, mapped by Endpoint.call and rethrow.   *)
CallEndpoint(r) ==
    /\ req[r].stage = "preflight" /\ req[r].todo = <<>>
    /\ ~req[r].interrupted /\ req[r].encoder
    /\ \/ \E body \in {"object", "array", "scalar", "stream", "null", None}, status \in {0, 304} :
            Set(r, [req[r] EXCEPT !.stage = "settle", !.todo = req[r].sets, !.touched = TRUE,
                                  !.body = IF status = 304 THEN @ ELSE body, !.status = status])
       \/ \E status \in {422, 400, 404, 412, 409, 500}, touched \in BOOLEAN :
            Set(r, [req[r] EXCEPT !.stage = "fail", !.status = status, !.touched = touched])
    /\ UNCHANGED <<server, memo>>

Interrupt(r) ==
    /\ req[r].stage = "preflight" /\ req[r].todo = <<>> /\ req[r].interrupted
    /\ Set(r, [req[r] EXCEPT !.stage = "settle", !.todo = req[r].sets])
    /\ UNCHANGED <<server, memo>>

----------------------------------------------------------------------------
(* Directives.settle *)

(* Control.resolve of a declared `public`. *)
Resolve(who) == IF who = None THEN {"public"} ELSE {"public", "no-cache"}

SettleCacheAlways(r, directives) ==   \* faulty: the control is set whatever is there
    LET Controlled(control) == [req[r] EXCEPT !.control = control]
    IN  IF directives = <<>>
        THEN /\ Pass(r, IF req[r].identity = None THEN req[r] ELSE Controlled({"private"}))
             /\ UNCHANGED memo
        ELSE IF Method # "GET" THEN Pass(r, req[r]) /\ UNCHANGED memo
        ELSE /\ memo' = IF memo = None THEN Resolve(req[r].identity) ELSE memo
             /\ Pass(r, Controlled(memo'))
(* Cache.settle: a declared control is resolved once, for whoever comes    *)
(* first; without one what an identity gets is private.                    *)
SettleCache(r, directives) ==
    LET Controlled(control) == IF "no-store" \in req[r].control THEN req[r]
                               ELSE [req[r] EXCEPT !.control = control]
    IN  IF directives = <<>>
        THEN /\ Pass(r, IF req[r].identity = None THEN req[r] ELSE Controlled({"private"}))
             /\ UNCHANGED memo
        ELSE IF Method # "GET" THEN Pass(r, req[r]) /\ UNCHANGED memo
        ELSE /\ memo' = IF memo = None THEN Resolve(req[r].identity) ELSE memo
             /\ Pass(r, Controlled(memo'))

(* Authorization.settle: an inception may set the identity (and may fail); *)
(* an identity that did not come by a fresh token gets one.                *)
SettleAuth(r, directives) ==
    /\ \/ \E status \in {400, 422, 500} : directives # <<>> /\ Fail(r, status)
       \/ \E who \in {req[r].identity} \cup
                     (IF directives # <<>> /\ req[r].identity = None THEN {"other"} ELSE {}) :
            Pass(r, IF who \in {None, "primary"} THEN [req[r] EXCEPT !.identity = who]
                    ELSE [req[r] EXCEPT !.identity = who, !.token = TRUE, !.control = {"no-store"}])
    /\ UNCHANGED memo

SettleFamily(r) ==
    /\ req[r].stage = "settle" /\ req[r].todo # <<>>
    /\ LET set == Head(req[r].todo)
       IN  CASE set.family = "auth" -> SettleAuth(r, set.directives)
             [] set.family = "cache" -> SettleCache(r, set.directives)
             [] OTHER -> Pass(r, req[r]) /\ UNCHANGED memo
    /\ UNCHANGED server

----------------------------------------------------------------------------
(* Server.success, Server.fail, messages.write *)

Status(r) == CASE req[r].status # 0 -> req[r].status
               [] req[r].body = "null" -> 404
               [] Method = "POST" -> 201
               [] req[r].body = None -> 204
               [] OTHER -> 200

ThrowingAlways(r, status, body) ==   \* faulty: errors are restricted like outputs
    {t \in req[r].transforms : \/ t = "output" /\ body \in {"array", "object"}
                               \/ t = "compose" /\ body = "stream"}
(* The transforms that may throw for this message: `output` on an array of *)
(* other than objects, `compose` on a stream it cannot compose.            *)
Throwing(r, status, body) ==
    {t \in req[r].transforms : \/ t = "output" /\ status < 300 /\ body = "array"
                               \/ t = "compose" /\ body = "stream"}
Unacceptable(r, body) == ~req[r].encoder /\ body \notin {None, "null"}

Success(r) ==
    /\ req[r].stage = "settle" /\ req[r].todo = <<>>
    /\ \/ /\ ~Unacceptable(r, req[r].body)
          /\ Set(r, [req[r] EXCEPT !.stage = "done", !.status = Status(r)])
       \/ /\ Throwing(r, Status(r), req[r].body) # {}
          /\ Fail(r, 500)
       \/ /\ Unacceptable(r, req[r].body)
          /\ Fail(r, 406)
    /\ UNCHANGED <<server, memo>>

(* The transforms run again, on the error's message: a body only if it can *)
(* be encoded.  What throws here is caught by nobody.                      *)
Failure(r) ==
    /\ req[r].stage = "fail"
    /\ LET body == IF req[r].encoder THEN "object" ELSE None
       IN  /\ Throwing(r, req[r].status, body) = {} /\ ~Unacceptable(r, body)
           /\ Set(r, [req[r] EXCEPT !.stage = "done", !.control = {}, !.token = FALSE])
    /\ UNCHANGED <<server, memo>>

ExchangeStep(r) == \/ Process(r) \/ Preflight(r) \/ Refuse(r) \/ CallEndpoint(r) \/ Interrupt(r)
                   \/ SettleFamily(r) \/ Success(r) \/ Failure(r)
ExchangeNext == \/ OpenServer \/ ServerReady \/ CloseServer \/ ServerClosed
                \/ \E r \in HttpRequests : Receive(r) \/ ExchangeStep(r)

ExchangeSpec == ExchangeInit /\ [][ExchangeNext]_exchangeVars
(* Promises settle, remotes reply, connections end. *)
ExchangeFairSpec == ExchangeSpec /\ WF_exchangeVars(ServerClosed) /\ \A r \in HttpRequests : WF_exchangeVars(ExchangeStep(r))

----------------------------------------------------------------------------
(* Properties *)

ExchangeTyped ==
    /\ server \in {"down", "listening", "ready", "closing", "closed"}
    /\ memo \in {None} \cup SUBSET {"public", "private", "no-cache", "no-store"}
    /\ \A r \in HttpRequests :
         /\ req[r].stage \in {"none", "routing", "preflight", "settle", "fail", "done"}
         /\ req[r].status \in {0, 200, 201, 204, 304, 400, 401, 403, 404, 405, 406, 409, 412,
                               415, 422, 500, 501, 503}
         /\ DOMAIN req[r] = DOMAIN Idle
         /\ req[r].stage = "done" => req[r].status # 0

(* Nothing is done for a request before it is authorized, in whatever      *)
(* order its directives are declared and whatever families they are of.    *)
AuthorizedFirst ==
    \A r \in HttpRequests : req[r].touched \/ req[r].stage = "settle"
                            \/ (req[r].interrupted /\ req[r].body = "stream")
                            => req[r].authorized

(* A request refused by its credentials, verb or media type had no effect. *)
RefusedUntouched ==
    \A r \in HttpRequests : req[r].stage = "done" /\ req[r].status \in {401, 403, 405, 415, 501}
                            => ~req[r].touched

(* A response that carries a token is never stored, in whatever order the  *)
(* families `auth` and `cache` settle.                                     *)
TokenNotStored ==
    \A r \in HttpRequests : req[r].stage = "done" /\ req[r].token => "no-store" \in req[r].control

(* What the server has accepted it answers before it is closed: the        *)
(* gateway's connections, on which it depends, are closed after it.        *)
Drained == server = "closed" => \A r \in HttpRequests : req[r].stage \in {"none", "done"}

(* Every request is answered: a transform that throws on a response does   *)
(* not throw on the error that takes its place.                            *)
ExchangesEnd == \A r \in HttpRequests : req[r].stage # "none" ~> req[r].stage = "done"

(* A request meets its directives in an order in which nothing is done or   *)
(* shown before it is authorized, and the server waits for it to end        *)
(* (Server.ts, directives).                                                 *)
ExchangeSafe == ExchangeTyped /\ AuthorizedFirst /\ RefusedUntouched /\ TokenNotStored /\ Drained
============================================================================
