---------------------------- MODULE FactSubmission ----------------------------
(***************************************************************************)
(* POST /api/v1/facts from the client to the table and back: hosts that    *)
(* run the Ansible gather role and other clients, worker processes with a  *)
(* rate limiter and a connection pool each, and the database.              *)
(*                                                                         *)
(* A request passes the rate limit, the body limit and the request model,  *)
(* the domain validation, the pool, the INSERT and the COMMIT; each may    *)
(* end it, and the exception decides the status.  Answers may be lost,     *)
(* clients stop waiting, workers crash, and the pool is shared with the    *)
(* background jobs.                                                        *)
(***************************************************************************)
EXTENDS Integers, FiniteSets

CONSTANTS
    Run,          \* runs of the gather role; each sends one request
    Other,        \* requests of clients that are not the role
    Address,      \* client addresses as the server sees them
    AddressOf,    \* the address of a request; hosts behind NAT share one
    Worker,       \* server processes
    NoWorker,     \* not a worker
    JobSession,   \* sessions of background jobs and heartbeats
    MaxRequests,  \* api_rate_limit_max_requests
    PoolSize      \* db_pool_size + db_max_overflow

Request == Run \cup Other

ASSUME RequestAssumption ==
    /\ Run \cap Other = {}
    /\ AddressOf \in [Request -> Address]
    /\ JobSession \cap Request = {}
    /\ NoWorker \notin Worker

ASSUME LimitAssumption ==
    /\ MaxRequests \in Nat \ {0}
    /\ PoolSize \in Nat \ {0}

VARIABLES
    client,   \* how far a client is
    kind,     \* what it sends
    seen,     \* the status it registered: 0 none yet, -1 no response
    stage,    \* how far its request is on the server
    at,       \* the worker that has it, or NoWorker
    status,   \* the status the server decided on; 0 none yet
    rows,     \* requests whose row was committed
    used,     \* requests counted per worker and address in this window
    pool      \* requests and job sessions that hold a connection of a worker

clientVars == <<client, kind, seen>>
requestVars == <<stage, at, status>>
vars == <<client, kind, seen, stage, at, status, rows, used, pool>>

(***************************************************************************)
(* What a request can be: "fits" is one that validates; "field" has a fact *)
(* category over the limit, "body" is too large as a whole, "malformed"    *)
(* does not have exactly the four categories as objects, "empty" has them  *)
(* all empty, "anonymous" has no client address.                           *)
(***************************************************************************)
Kind == {"fits", "field", "body", "malformed", "empty", "anonymous"}

(* The role always fills client_facts, so it never sends "empty".          *)
RoleKind == {"fits", "field", "body"}

ClientPhase ==
    {"ready", "built", "posted", "answered", "audited", "ok", "failed"}

Stage ==
    {"none", "received", "admitted", "connecting", "inserting", "committing",
     "answering", "done"}

Init ==
    /\ client = [r \in Request |-> "ready"]
    /\ kind = [r \in Request |-> "fits"]
    /\ seen = [r \in Request |-> 0]
    /\ stage = [r \in Request |-> "none"]
    /\ at = [r \in Request |-> NoWorker]
    /\ status = [r \in Request |-> 0]
    /\ rows = {}
    /\ used = [w \in Worker |-> [a \in Address |-> 0]]
    /\ pool = [w \in Worker |-> {}]

-----------------------------------------------------------------------------
(* Exceptions and their handlers                                           *)

(* Each class with its base classes, nearest first, as Python resolves it. *)
Mro ==
    [FactValidationError |-> <<"FactValidationError", "ValueError">>,
     FactPayloadTooLargeError |-> <<"FactPayloadTooLargeError", "ValueError">>,
     NotFoundError |-> <<"NotFoundError", "RepositoryError">>,
     RepositoryIntegrityError |->
         <<"RepositoryIntegrityError", "RepositoryError">>,
     RepositoryError |-> <<"RepositoryError">>,
     IntegrityError |->
         <<"IntegrityError", "DBAPIError", "StatementError", "SQLAlchemyError">>,
     OperationalError |->
         <<"OperationalError", "DBAPIError", "StatementError", "SQLAlchemyError">>,
     DBAPIError |-> <<"DBAPIError", "StatementError", "SQLAlchemyError">>,
     SQLAlchemyTimeoutError |-> <<"SQLAlchemyTimeoutError", "SQLAlchemyError">>,
     TimeoutError |-> <<"TimeoutError", "OSError">>,
     OSError |-> <<"OSError">>]

Exceptions == DOMAIN Mro

IsInstance(e, c) == \E i \in DOMAIN Mro[e] : Mro[e][i] = c

fact_validation_error_handler == 400

fact_payload_too_large_error_handler == 413

repository_error_handler(e) ==
    IF IsInstance(e, "NotFoundError") THEN 404
    ELSE IF IsInstance(e, "RepositoryIntegrityError") THEN 409 ELSE 500

\* Mutant: every error of the database is a conflict, the COMMIT's too.
sqlalchemy_error_handler_conflict(e) ==
    IF IsInstance(e, "SQLAlchemyError") THEN 409 ELSE 500

sqlalchemy_error_handler(e) ==
    IF IsInstance(e, "IntegrityError") THEN 409
    ELSE IF IsInstance(e, "OperationalError") THEN 503 ELSE 500

timeout_error_handler == 504

(* The v1 router's table: for each registered class what its handler       *)
(* answers to e.                                                           *)
exception_handlers(e) ==
    [FactValidationError |-> fact_validation_error_handler,
     FactPayloadTooLargeError |-> fact_payload_too_large_error_handler,
     RepositoryError |-> repository_error_handler(e),
     SQLAlchemyError |-> sqlalchemy_error_handler(e),
     SQLAlchemyTimeoutError |-> timeout_error_handler,
     TimeoutError |-> timeout_error_handler]

(* The framework takes the handler of the nearest registered base class;   *)
(* an exception without one is an internal server error.                   *)
StatusOf(e) ==
    LET hits == {i \in DOMAIN Mro[e] : Mro[e][i] \in DOMAIN exception_handlers(e)}
    IN  IF hits = {} THEN 500
        ELSE exception_handlers(e)[Mro[e][CHOOSE i \in hits :
                                             \A j \in hits : i <= j]]

(* The repository base class turns SQLAlchemy's errors into its own: those *)
(* of a statement, the connection's included, become its IntegrityError.   *)
Wrapped(e) ==
    IF ~IsInstance(e, "SQLAlchemyError") THEN e
    ELSE IF IsInstance(e, "StatementError") THEN "RepositoryIntegrityError"
    ELSE "RepositoryError"

-----------------------------------------------------------------------------
(* Clients                                                                 *)

(* The tasks before the POST: any that fails ends the role on this host.   *)
CollectFacts(r) ==
    /\ client[r] = "ready" /\ r \in Run
    /\ \/ /\ client' = [client EXCEPT ![r] = "built"]
          /\ \E k \in RoleKind : kind' = [kind EXCEPT ![r] = k]
       \/ /\ client' = [client EXCEPT ![r] = "failed"]
          /\ UNCHANGED kind
    /\ UNCHANGED <<seen, stage, at, status, rows, used, pool>>

MayPost(r) == client[r] = IF r \in Run THEN "built" ELSE "ready"

(* The one POST of the uri task; other clients send what they like.        *)
Post(r, w) ==
    /\ MayPost(r)
    /\ client' = [client EXCEPT ![r] = "posted"]
    /\ \E k \in Kind :
         /\ r \in Run => k = kind[r]
         /\ kind' = [kind EXCEPT ![r] = k]
    /\ stage' = [stage EXCEPT ![r] = "received"]
    /\ at' = [at EXCEPT ![r] = w]
    /\ UNCHANGED <<seen, status, rows, used, pool>>

\* Mutant: no timeout; the client waits for an answer that was lost.
GiveUpWhileServed(r) ==
    /\ MayPost(r) \/ (client[r] = "posted" /\ stage[r] # "done")
    /\ client' = [client EXCEPT ![r] = "answered"]
    /\ seen' = [seen EXCEPT ![r] = -1]
    /\ UNCHANGED <<kind, stage, at, status, rows, used, pool>>

(* No connection, a broken one, or the timeout of the uri task: the result *)
(* has status -1, and failed_when: false lets the role go on.              *)
GiveUp(r) ==
    /\ MayPost(r) \/ client[r] = "posted"
    /\ client' = [client EXCEPT ![r] = "answered"]
    /\ seen' = [seen EXCEPT ![r] = -1]
    /\ UNCHANGED <<kind, stage, at, status, rows, used, pool>>

(* Skipped, done or failed: the role goes on with the result it has.       *)
WriteAuditLog(r) ==
    /\ client[r] = "answered" /\ r \in Run
    /\ client' = [client EXCEPT ![r] = "audited"]
    /\ UNCHANGED <<kind, seen, stage, at, status, rows, used, pool>>

\* Mutant: asks whether the POST task failed, which it never does.
ValidateNotFailed(r) ==
    /\ client[r] = "audited"
    /\ client' = [client EXCEPT ![r] = "ok"]
    /\ UNCHANGED <<kind, seen, stage, at, status, rows, used, pool>>

ValidateSubmission(r) ==
    /\ client[r] = "audited"
    /\ client' = [client EXCEPT ![r] = IF seen[r] = 201 THEN "ok" ELSE "failed"]
    /\ UNCHANGED <<kind, seen, stage, at, status, rows, used, pool>>

-----------------------------------------------------------------------------
(* The server                                                              *)

(* The server decides on an answer; the request's connection goes back.    *)
Answer(r, s) ==
    /\ stage' = [stage EXCEPT ![r] = "answering"]
    /\ status' = [status EXCEPT ![r] = s]
    /\ pool' = [pool EXCEPT ![at[r]] = @ \ {r}]

\* Mutant: the transaction is left open when a statement fails.
FailHoldingConnection(r, e) ==
    /\ stage' = [stage EXCEPT ![r] = "answering"]
    /\ status' = [status EXCEPT ![r] = StatusOf(e)]
    /\ UNCHANGED pool

(* An exception leaves the handler: session.begin() has rolled back.       *)
Fail(r, e) == Answer(r, StatusOf(e))

\* Mutant: off by one.
RateLimitBeyond(r) ==
    LET a == AddressOf[r] IN
    /\ stage[r] = "received"
    /\ IF used[at[r]][a] > MaxRequests
       THEN Answer(r, 429) /\ UNCHANGED used
       ELSE /\ used' = [used EXCEPT ![at[r]][a] = @ + 1]
            /\ stage' = [stage EXCEPT ![r] = "admitted"]
            /\ UNCHANGED <<status, pool>>
    /\ UNCHANGED <<client, kind, seen, at, rows>>

(* The middleware of the API router counts per process and address.        *)
RateLimit(r) ==
    LET a == AddressOf[r] IN
    /\ stage[r] = "received"
    /\ IF used[at[r]][a] >= MaxRequests
       THEN Answer(r, 429) /\ UNCHANGED used
       ELSE /\ used' = [used EXCEPT ![at[r]][a] = @ + 1]
            /\ stage' = [stage EXCEPT ![r] = "admitted"]
            /\ UNCHANGED <<status, pool>>
    /\ UNCHANGED <<client, kind, seen, at, rows>>

(* The request model and the body limit refuse before submit is called.    *)
ParseBody(r) ==
    /\ stage[r] = "admitted" /\ kind[r] \in {"body", "malformed"}
    /\ Answer(r, IF kind[r] = "body" THEN 413 ELSE 400)
    /\ UNCHANGED <<client, kind, seen, at, rows, used>>

has_required_facts(r) == kind[r] # "empty"

is_valid_size(r) == kind[r] # "field"

(* submit and insert_record up to the first await on the database.         *)
Submit(r) ==
    /\ stage[r] = "admitted" /\ kind[r] \notin {"body", "malformed"}
    /\ IF kind[r] = "anonymous" THEN Answer(r, 400)
       ELSE IF ~has_required_facts(r) THEN Fail(r, "FactValidationError")
       ELSE IF ~is_valid_size(r) THEN Fail(r, "FactPayloadTooLargeError")
       ELSE /\ stage' = [stage EXCEPT ![r] = "connecting"]
            /\ UNCHANGED <<status, pool>>
    /\ UNCHANGED <<client, kind, seen, at, rows, used>>

HasRoom(w) == Cardinality(pool[w]) < PoolSize

Connect(r) ==
    /\ stage[r] = "connecting" /\ HasRoom(at[r])
    /\ stage' = [stage EXCEPT ![r] = "inserting"]
    /\ pool' = [pool EXCEPT ![at[r]] = @ \cup {r}]
    /\ UNCHANGED <<client, kind, seen, at, status, rows, used>>

(* The checkout happens inside repository.add, which wraps what it raises. *)
ConnectFails(r) ==
    /\ stage[r] = "connecting" /\ HasRoom(at[r])
    /\ \E e \in {"OperationalError", "TimeoutError", "OSError"} :
          Fail(r, Wrapped(e))
    /\ UNCHANGED <<client, kind, seen, at, rows, used>>

\* Mutant: waits without a limit for connections that jobs hold.
PoolTimeoutAmongRequests(r) ==
    /\ stage[r] = "connecting" /\ ~HasRoom(at[r])
    /\ pool[at[r]] \cap JobSession = {}
    /\ Fail(r, Wrapped("SQLAlchemyTimeoutError"))
    /\ UNCHANGED <<client, kind, seen, at, rows, used>>

(* No connection is returned within pool_timeout.                          *)
PoolTimeout(r) ==
    /\ stage[r] = "connecting" /\ ~HasRoom(at[r])
    /\ Fail(r, Wrapped("SQLAlchemyTimeoutError"))
    /\ UNCHANGED <<client, kind, seen, at, rows, used>>

\* Mutant: the answer is sent after the flush, and the commit is forgotten.
InsertAnswers(r) ==
    /\ stage[r] = "inserting"
    /\ Answer(r, 201)
    /\ UNCHANGED <<client, kind, seen, at, rows, used>>

Insert(r) ==
    /\ stage[r] = "inserting"
    /\ stage' = [stage EXCEPT ![r] = "committing"]
    /\ UNCHANGED <<client, kind, seen, at, status, rows, used, pool>>

InsertFails(r) ==
    /\ stage[r] = "inserting"
    /\ \E e \in {"IntegrityError", "OperationalError", "DBAPIError"} :
          Fail(r, Wrapped(e))
    /\ UNCHANGED <<client, kind, seen, at, rows, used>>

Commit(r) ==
    /\ stage[r] = "committing"
    /\ rows' = rows \cup {r}
    /\ Answer(r, 201)
    /\ UNCHANGED <<client, kind, seen, at, used>>

(* The exit of session.begin() raises SQLAlchemy's own errors; the commit  *)
(* may have taken effect all the same.                                     *)
CommitFails(r) ==
    /\ stage[r] = "committing"
    /\ rows' \in {rows, rows \cup {r}}
    /\ \E e \in {"OperationalError", "DBAPIError"} : Fail(r, e)
    /\ UNCHANGED <<client, kind, seen, at, used>>

(* The answer reaches a client that still waits, or nobody.                *)
Respond(r) ==
    /\ stage[r] = "answering"
    /\ stage' = [stage EXCEPT ![r] = "done"]
    /\ at' = [at EXCEPT ![r] = NoWorker]
    /\ \/ /\ client[r] = "posted"
          /\ client' = [client EXCEPT ![r] = "answered"]
          /\ seen' = [seen EXCEPT ![r] = status[r]]
       \/ UNCHANGED <<client, seen>>
    /\ UNCHANGED <<kind, status, rows, used, pool>>

(* A process dies and is replaced: its requests, its connections and its   *)
(* counters are gone, open transactions roll back.                         *)
Crash(w) ==
    /\ stage' = [r \in Request |-> IF at[r] = w THEN "done" ELSE stage[r]]
    /\ at' = [r \in Request |-> IF at[r] = w THEN NoWorker ELSE at[r]]
    /\ used' = [used EXCEPT ![w] = [a \in Address |-> 0]]
    /\ pool' = [pool EXCEPT ![w] = {}]
    /\ UNCHANGED <<client, kind, seen, status, rows>>

WindowEnds(w, a) ==
    /\ used' = [used EXCEPT ![w][a] = 0]
    /\ UNCHANGED <<client, kind, seen, stage, at, status, rows, pool>>

JobTakesConnection(w, j) ==
    /\ HasRoom(w)
    /\ pool' = [pool EXCEPT ![w] = @ \cup {j}]
    /\ UNCHANGED <<client, kind, seen, stage, at, status, rows, used>>

JobReturnsConnection(w, j) ==
    /\ pool' = [pool EXCEPT ![w] = @ \ {j}]
    /\ UNCHANGED <<client, kind, seen, stage, at, status, rows, used>>

-----------------------------------------------------------------------------
ClientStep(r) ==
    \/ CollectFacts(r) \/ (\E w \in Worker : Post(r, w)) \/ GiveUp(r)
    \/ WriteAuditLog(r) \/ ValidateSubmission(r)

ServerStep(r) ==
    \/ RateLimit(r) \/ ParseBody(r) \/ Submit(r)
    \/ Connect(r) \/ ConnectFails(r) \/ PoolTimeout(r)
    \/ Insert(r) \/ InsertFails(r) \/ Commit(r) \/ CommitFails(r)
    \/ Respond(r)

WorkerStep(w) ==
    \/ Crash(w)
    \/ \E a \in Address : WindowEnds(w, a)
    \/ \E j \in JobSession :
         JobTakesConnection(w, j) \/ JobReturnsConnection(w, j)

Next ==
    \/ \E r \in Request : ClientStep(r) \/ ServerStep(r)
    \/ \E w \in Worker : WorkerStep(w)

Spec == Init /\ [][Next]_vars

(***************************************************************************)
(* Fairness: the role goes on (the uri task has a timeout), and so does a  *)
(* worker with each of its requests: pool_timeout ends the wait for a      *)
(* connection and the statement timeout ends every statement.  Nothing     *)
(* obliges a background job to return its connection.                      *)
(***************************************************************************)
FairSpec ==
    /\ Spec
    /\ \A r \in Run : WF_vars(ClientStep(r))
    /\ \A r \in Request : WF_vars(ServerStep(r))

-----------------------------------------------------------------------------
(* The statuses the OpenAPI document of the endpoint lists.                *)
Documented == {201, 400, 409, 413, 429, 500, 504}

(* A status in 4xx says that nothing was and nothing will be stored.       *)
Refusals == {400, 404, 409, 413, 429}

Statuses == {201, 500, 503, 504} \cup Refusals

(* The stages in which a request's transaction is open.                    *)
InTransaction == {"inserting", "committing"}

(* The type invariant; no counter exceeds the limit.                       *)
TypeOK ==
    /\ client \in [Request -> ClientPhase]
    /\ kind \in [Request -> Kind]
    /\ seen \in [Request -> {-1, 0} \cup Statuses]
    /\ stage \in [Request -> Stage]
    /\ at \in [Request -> Worker \cup {NoWorker}]
    /\ status \in [Request -> {0} \cup Statuses]
    /\ rows \subseteq Request
    /\ used \in [Worker -> [Address -> 0..MaxRequests]]
    /\ pool \in [Worker -> SUBSET (Request \cup JobSession)]

(***************************************************************************)
(* Connections are accounted for: those a worker has handed out to         *)
(* requests are those of its open transactions, whatever statement failed, *)
(* and the pool never exceeds its size.                                    *)
(***************************************************************************)
ConnectionsAccounted ==
    \A w \in Worker :
        /\ pool[w] \cap Request =
              {r \in Request : at[r] = w /\ stage[r] \in InTransaction}
        /\ Cardinality(pool[w]) <= PoolSize

(***************************************************************************)
(* The verdict of the role is honest: a run that ends well has its row in  *)
(* the database, though the POST task itself can never fail.               *)
(***************************************************************************)
VerdictHonest == \A r \in Run : client[r] = "ok" => r \in rows

(* The statuses a request can be answered with at each stage.              *)
AnswersAt ==
    [received |-> {429},
     admitted |-> {400, 413},
     connecting |-> {409, 500, 504},
     inserting |-> {409},
     committing |-> {201, 500, 503}]

(***************************************************************************)
(* A status tells how far the request came.  A failing statement is 409,   *)
(* as the design says of database errors; without a connection it is 409   *)
(* only if the driver reports an error of its own, 504 for a timeout of    *)
(* the socket, else 500; a failing COMMIT, which may have stored the row,  *)
(* is never 409.  503, which only a COMMIT gives, is the one status that   *)
(* the OpenAPI document of the endpoint lacks.                             *)
(***************************************************************************)
StatusTellsStage ==
    [][\A r \in Request :
          stage[r] # "answering" /\ stage'[r] = "answering" =>
             /\ status'[r] \in AnswersAt[stage[r]]
             /\ status'[r] \in Documented \cup {503}]_vars

(* What a client may conclude from the status it saw.                      *)
Meaning(s) ==
    IF s = 0 THEN "nothing"
    ELSE IF s = 201 THEN "stored"
    ELSE IF s \in Refusals THEN "refused" ELSE "unknown"

Log == INSTANCE FactLog
         WITH recorded <- rows,
              refused <- {r \in Request : status[r] \in Refusals},
              told <- [r \in Request |-> Meaning(seen[r])]

(***************************************************************************)
(* Clients are told the truth, through every failure, crash and lost       *)
(* answer: 201 only for a committed row, 4xx only when there will be none, *)
(* and at most one row per request.                                        *)
(***************************************************************************)
ImplementsFactLog == Log!Spec

(* Every request that reaches a worker ends there, also when background    *)
(* jobs keep the whole pool.                                               *)
RequestEnds ==
    \A r \in Request : stage[r] = "received" ~> stage[r] = "done"

(* Every run of the role ends with a verdict.                              *)
RunEnds == \A r \in Run : <>(client[r] \in {"ok", "failed"})

(***************************************************************************)
(* What the router's comment says: a request that finds the pool exhausted *)
(* is answered 504, not the generic 500.                                   *)
(***************************************************************************)
PoolTimeoutIs504 ==
    [][\A r \in Request : PoolTimeout(r) => status'[r] = 504]_vars
=============================================================================
