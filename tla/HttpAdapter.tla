---------------------------- MODULE HttpAdapter ----------------------------
(***************************************************************************)
(* The ASGI adapters of the three services (common/asgi.py,                *)
(* guardrails/asgi.py, usage/asgi.py) over the shared identity verifier.   *)
(* A request is a coroutine of one event loop: it runs from one await to   *)
(* the next, and other requests run while it waits for a part of its body  *)
(* or for the server to take a part of its answer.  The service itself is  *)
(* called without an await, at the instant read just before.               *)
(*                                                                         *)
(* The adapters differ in their routes, in the order of their first checks *)
(* and in the status of each reason.  A request reaches one process, so    *)
(* which application it runs is chosen once.  What the service does after  *)
(* it has admitted the caller is modelled by the other modules; here it    *)
(* may end in any of OperationOutcomes, among them RAISED: an exception the*)
(* adapter does not catch.                                                 *)
(***************************************************************************)
EXTENDS Identity

CONSTANTS
    Conns,              \* connections, one request at a time each
    HttpRequests,       \* app -> the requests clients may send to it
    OperationOutcomes,  \* app -> how an admitted operation may end
    MaximumBody,        \* MAXIMUM_BODY_BYTES
    Times               \* the instants of the run

Apps == {"policy", "guardrails", "usage"}

GetRoutes == {"usage", "budgets", "slos", "dependencies"}

\* A request: what its headers hold, what its body is, the sizes of its parts.  A
\* not_json body is one that load_json_bytes does not accept.
HttpRequest ==
    [route: STRING, json: BOOLEAN, token: Tokens \cup {None},
     body: {"good", "not_json", "fields", "tenant"}, parts: Seq(Nat)]

ASSUME HttpRequestsAssumption ==
    \A app \in Apps : HttpRequests[app] \subseteq HttpRequest
ASSUME TimesAssumption == Times \subseteq Nat
ASSUME NoResultAssumption == None # "DONE"

VARIABLES
    app,        \* the application this process runs
    clock,      \* the wall clock
    conns,      \* connection -> its request and the coroutine serving it
    latest      \* history: the instant the service was last called at

httpVars == <<identityVars, app, clock, conns, latest>>

NoRequest == [stage |-> "closed"]

\* Opened by a client: nothing of the body has arrived.  `opened` is a history,
\* kept until the request is answered.
NewRequest(r) ==
    [stage |-> "new", request |-> r, opened |-> clock, arrived |-> 0, taken |-> 0,
     gone |-> FALSE, status |-> 0, wire |-> <<>>, result |-> None]

\* The request has been answered, or its coroutine has raised.
Over(c) == conns[c].stage \in {"closed", "done", "failed"}

\* The bytes of the first n parts, of each no more than matter.
SizeOf(parts, n) ==
    Cardinality({u \in (1..n) \X (1..MaximumBody + 1) : u[2] <= parts[u[1]]})

-----------------------------------------------------------------------------
(***************************************************************************)
(* _status of each adapter; every DecisionDenied is 403.                   *)
(***************************************************************************)
Unauthenticated == {"TOKEN_MALFORMED", "TOKEN_MISSING", "TOKEN_EXPIRED",
                    "TOKEN_NOT_YET_VALID", "SIGNATURE_INVALID"}

Forbidden == {"ISSUER_UNKNOWN", "AUDIENCE_MISMATCH", "TENANT_MISMATCH",
              "CALLER_TENANT_FORBIDDEN"}

UsageStatus(reason) ==
    CASE reason \in Unauthenticated -> 401
      [] reason \in Forbidden -> 403
      [] reason \in {"STORE_COMMIT_FAILED", "DEPENDENCY_UNAVAILABLE",
                     "RECONCILIATION_STALE"} -> 503
      [] reason \in {"BUDGET_NOT_FOUND", "RESERVATION_NOT_FOUND"} -> 404
      [] reason \in {"BUDGET_EXCEEDED", "BUDGET_SUSPENDED", "IDEMPOTENCY_CONFLICT",
                     "RESERVATION_TERMINAL", "RESERVATION_EXPIRED",
                     "COMMIT_EXCEEDS_RESERVATION", "CLOCK_REGRESSION"} -> 409
      [] OTHER -> 400

\* A reason of a stream is a conflict, save the few the adapter names.
StreamReasons == {"STREAM_SEQUENCE_INVALID", "STREAM_TERMINATED", "STREAM_FINISHED",
                  "STREAM_EXPIRED", "STREAM_CAPACITY_EXCEEDED",
                  "STREAM_PROFILE_CHANGED", "STREAM_PROFILE_REQUIRED"}

GuardrailStatus(reason) ==
    CASE reason \in Unauthenticated -> 401
      [] reason \in Forbidden -> 403
      [] reason \in {"PROFILE_UNAVAILABLE", "PROFILE_EXPIRED", "AUDIT_COMMIT_FAILED",
                     "STREAM_CLEAR_FAILED"} -> 503
      [] reason = "STREAM_NOT_FOUND" -> 404
      [] reason \in StreamReasons -> 409
      [] OTHER -> 400

StatusOf(reason) ==
    CASE app = "policy" -> 403
      [] app = "guardrails" -> GuardrailStatus(reason)
      [] app = "usage" -> UsageStatus(reason)

Created == {"reserve", "create"}

(***************************************************************************)
(* The service call.  What is refused before the token is looked at, and   *)
(* what only after it was bound.                                           *)
(***************************************************************************)
BeforeIdentity(r) ==
    CASE app = "policy" /\ r.body = "fields" -> "REQUEST_MALFORMED"
      [] app \in {"policy", "usage"} /\ r.body = "tenant" -> "CALLER_TENANT_FORBIDDEN"
      [] OTHER -> "NONE"

AfterIdentity(r) ==
    CASE r.body = "fields" -> "REQUEST_MALFORMED"
      [] r.body = "tenant" -> "CALLER_TENANT_FORBIDDEN"
      [] OTHER -> "NONE"

Answer(c, status) ==
    conns' = [conns EXCEPT ![c].stage = "start", ![c].status = status, ![c].opened = 0]

Ended(c, taken, outcome) ==
    conns' = [conns EXCEPT
        ![c].stage = "start", ![c].taken = taken, ![c].result = outcome, ![c].opened = 0,
        ![c].status = IF outcome = "DONE"
                      THEN IF conns[c].request.route \in Created THEN 201 ELSE 200
                      ELSE StatusOf(outcome)]

\* An exception nobody catches ends the coroutine; nothing is sent.
Raised(c, taken) ==
    conns' = [conns EXCEPT ![c].stage = "failed", ![c].taken = taken, ![c].opened = 0]

\* Faulty variant: the instant is the one the client began to send at.
ServiceInstant_AtArrival(c) == conns[c].opened

ServiceInstant(c) == clock

\* The service, once `taken` parts of the body have been received.
Serve(c, taken) ==
    LET r == conns[c].request
        now == ServiceInstant(c)
        early == BeforeIdentity(r)
        verdict == Verdict(r.token, now)
        late == AfterIdentity(r)
    IN  /\ latest' = now
        /\ \/ /\ early # "NONE"
              /\ Ended(c, taken, early)
              /\ UNCHANGED identityVars
           \/ /\ early = "NONE" /\ verdict # "ADMITTED"
              /\ Ended(c, taken, verdict)
              /\ UNCHANGED identityVars
           \/ /\ early = "NONE" /\ verdict = "ADMITTED"
              /\ Bind(r.token)
              /\ \/ late # "NONE" /\ Ended(c, taken, late)
                 \/ /\ late = "NONE"
                    /\ \E outcome \in OperationOutcomes[app] :
                          IF outcome = "RAISED" THEN Raised(c, taken)
                          ELSE Ended(c, taken, outcome)

(***************************************************************************)
(* The coroutine, await by await.                                          *)
(***************************************************************************)
\* The checks before the body, in each adapter's order.
EarlyStatus(r) ==
    LET unauthenticated == r.token = None
        mistyped == ~r.json /\ r.route \notin GetRoutes
    IN  IF r.route = "unknown" THEN 404
        ELSE IF app = "usage" /\ unauthenticated THEN 401
        ELSE IF mistyped THEN 415
        ELSE IF unauthenticated THEN 401
        ELSE 0

\* Faulty variant: after its error answer the handler goes on.
Start_Refused_GoesOn(c) ==
    /\ EarlyStatus(conns[c].request) # 0
    /\ conns' = [conns EXCEPT
           ![c].stage = "reading",
           ![c].wire = <<EarlyStatus(conns[c].request), "body">>]
    /\ UNCHANGED <<identityVars, latest>>

Start_Refused(c) ==
    /\ EarlyStatus(conns[c].request) # 0
    /\ Answer(c, EarlyStatus(conns[c].request))
    /\ UNCHANGED <<identityVars, latest>>

\* Health routes; usage's report lets WINDOW_NOT_STARTED escape.
Start_Health(c) ==
    /\ \/ conns[c].request.route = "live" /\ Answer(c, 200)
       \/ conns[c].request.route = "ready" /\ \E status \in {200, 503} : Answer(c, status)
       \/ /\ conns[c].request.route = "ready" /\ app = "usage"
          /\ Raised(c, 0)
    /\ UNCHANGED <<identityVars, latest>>

Start_Get(c) ==
    /\ EarlyStatus(conns[c].request) = 0
    /\ conns[c].request.route \in GetRoutes
    /\ Serve(c, 0)

Start_Body(c) ==
    /\ EarlyStatus(conns[c].request) = 0
    /\ conns[c].request.route \notin GetRoutes
    /\ conns' = [conns EXCEPT ![c].stage = "reading"]
    /\ UNCHANGED <<identityVars, latest>>

Start(c) ==
    /\ conns[c].stage = "new"
    /\ \/ Start_Health(c)
       \/ /\ conns[c].request.route \notin {"live", "ready"}
          /\ Start_Refused(c) \/ Start_Get(c) \/ Start_Body(c)
    /\ UNCHANGED <<app, clock>>

\* _body: a part of the body, and when it is the last one the service call.
Receive(c) ==
    LET r == conns[c].request
        taken == conns[c].taken + 1
    IN  /\ conns[c].stage = "reading"
        /\ taken <= conns[c].arrived
        /\ \/ /\ SizeOf(r.parts, taken) > MaximumBody
              /\ Answer(c, 400)
              /\ UNCHANGED <<identityVars, latest>>
           \/ /\ SizeOf(r.parts, taken) <= MaximumBody
              /\ taken < Len(r.parts)
              /\ conns' = [conns EXCEPT ![c].taken = taken]
              /\ UNCHANGED <<identityVars, latest>>
           \/ /\ SizeOf(r.parts, taken) <= MaximumBody
              /\ taken = Len(r.parts)
              /\ \/ /\ r.body = "not_json"
                    /\ Answer(c, 400)
                    /\ UNCHANGED <<identityVars, latest>>
                 \/ r.body # "not_json" /\ Serve(c, taken)
    /\ UNCHANGED <<app, clock>>

\* Faulty variant: an event that is no part of the body is skipped.
Disconnected_Skipped(c) == FALSE

\* The server reports that the client has gone, even before parts that arrived.
Disconnected(c) ==
    /\ conns[c].stage = "reading"
    /\ conns[c].gone
    /\ Answer(c, 400)
    /\ UNCHANGED <<identityVars, app, clock, latest>>

\* _send: the start of the answer, then its body.
SendStart(c) ==
    /\ conns[c].stage = "start"
    /\ conns' = [conns EXCEPT ![c].stage = "body",
                              ![c].wire = Append(@, conns[c].status)]
    /\ UNCHANGED <<identityVars, app, clock, latest>>

SendBody(c) ==
    /\ conns[c].stage = "body"
    /\ conns' = [conns EXCEPT ![c].stage = "done", ![c].wire = Append(@, "body")]
    /\ UNCHANGED <<identityVars, app, clock, latest>>

Coroutine(c) == Start(c) \/ Receive(c) \/ Disconnected(c) \/ SendStart(c) \/ SendBody(c)

(***************************************************************************)
(* The clients and the clock.  What a client sends, or its leaving, before *)
(* the coroutine waits for it makes no difference until it does.           *)
(***************************************************************************)
Open(c, r) ==
    /\ Over(c)
    /\ conns' = [conns EXCEPT ![c] = NewRequest(r)]
    /\ UNCHANGED <<identityVars, app, clock, latest>>

Upload(c) ==
    /\ conns[c].stage = "reading"
    /\ ~conns[c].gone
    /\ conns[c].arrived < Len(conns[c].request.parts)
    /\ conns' = [conns EXCEPT ![c].arrived = @ + 1]
    /\ UNCHANGED <<identityVars, app, clock, latest>>

Leave(c) ==
    /\ conns[c].stage = "reading"
    /\ ~conns[c].gone
    /\ conns' = [conns EXCEPT ![c].gone = TRUE]
    /\ UNCHANGED <<identityVars, app, clock, latest>>

\* The wall clock, which nobody sets back.
Tick ==
    /\ clock + 1 \in Times
    /\ clock' = clock + 1
    /\ UNCHANGED <<identityVars, app, conns, latest>>

HttpInit ==
    /\ IdentityInit
    /\ app \in Apps
    /\ clock = 0
    /\ conns = [c \in Conns |-> NoRequest]
    /\ latest = 0

HttpNext ==
    \/ \E c \in Conns : \/ Coroutine(c)
                        \/ \E r \in HttpRequests[app] : Open(c, r)
                        \/ Upload(c)
                        \/ Leave(c)
    \/ Tick

\* The event loop resumes every coroutine that can run.
Http == HttpInit /\ [][HttpNext]_httpVars /\ \A c \in Conns : WF_httpVars(Coroutine(c))
-----------------------------------------------------------------------------
\* One event loop makes instants reach a service in order, although requests
\* whose bodies arrive slowly are overtaken: no request carries an instant that
\* another request has already passed, so none is refused CLOCK_REGRESSION.
InstantsInOrder == [][latest' >= latest]_httpVars

Success == {200, 201}

\* The answer tells what the service returned.  Nothing but one start and one body
\* is ever sent; a caller is told of success exactly when the service returned a
\* result, for the whole body the caller sent and under its token.  (A refusal may
\* come late: a push refused with AUDIT_COMMIT_FAILED has advanced its stream.  A
\* coroutine that raises sends nothing at all.)
AnsweredAsServed ==
    \A c \in Conns :
        LET conn == conns[c]
            r == conn.request
        IN  conn.stage # "closed" =>
              /\ conn.wire \in {<<>>, <<conn.status>>, <<conn.status, "body">>}
              /\ conn.result # None =>
                    /\ r.token # None
                    /\ r.route \in GetRoutes \/ (r.json /\ conn.taken = Len(r.parts))
              /\ conn.wire # <<>> /\ r.route \notin {"live", "ready"} =>
                    (conn.wire[1] \in Success) = (conn.result = "DONE")

\* A request ends: one that is being answered, and one whose client has sent all
\* of it or has gone away.  (One whose client stays and sends no more waits for
\* ever: the adapters set no time limit.)
RequestEnds ==
    \A c \in Conns :
        \/ conns[c].stage \in {"start", "body"}
        \/ /\ conns[c].stage = "reading"
           /\ conns[c].gone \/ conns[c].arrived = Len(conns[c].request.parts)
        ~> Over(c)
=============================================================================
