------------------------- MODULE FactSubmissionProofs -------------------------
(***************************************************************************)
(* Proofs about FactSubmission, for every set of role runs, other clients, *)
(* workers, addresses and job sessions, and every limit and pool size.     *)
(***************************************************************************)
EXTENDS FactSubmission, FiniteSetTheorems, TLAPS

-----------------------------------------------------------------------------
(* Which handler an exception reaches                                      *)

Registered == DOMAIN exception_handlers("OSError")

(* The nearest registered base class decides.                              *)
LEMMA NearestHandler ==
    ASSUME NEW e \in Exceptions, NEW n \in DOMAIN Mro[e],
           DOMAIN Mro[e] \subseteq Nat,
           Mro[e][n] \in Registered,
           \A i \in DOMAIN Mro[e] : Mro[e][i] \in Registered => n <= i
    PROVE  StatusOf(e) = exception_handlers(e)[Mro[e][n]]
<1> DEFINE hits ==
        {i \in DOMAIN Mro[e] : Mro[e][i] \in DOMAIN exception_handlers(e)}
<1>1. DOMAIN exception_handlers(e) = Registered
    BY DEF Registered, exception_handlers
<1>2. n \in hits /\ hits # {}
    BY <1>1
<1>3. \A i \in hits : (\A j \in hits : i <= j) <=> i = n
    BY <1>1
<1>4. (CHOOSE i \in hits : \A j \in hits : i <= j) = n
    BY <1>2, <1>3
<1>. QED BY <1>2, <1>4 DEF StatusOf

(* The statuses of the exceptions that reach the framework.                *)
LEMMA RaisedStatuses ==
    /\ StatusOf("FactValidationError") = 400
    /\ StatusOf("FactPayloadTooLargeError") = 413
    /\ StatusOf("RepositoryIntegrityError") = 409
    /\ StatusOf("RepositoryError") = 500
    /\ StatusOf("OperationalError") = 503
    /\ StatusOf("DBAPIError") = 500
    /\ StatusOf("TimeoutError") = 504
    /\ StatusOf("OSError") = 500
<1> USE NearestHandler DEF Mro, Exceptions
<1>0. Registered =
        {"FactValidationError", "FactPayloadTooLargeError", "RepositoryError",
         "SQLAlchemyError", "SQLAlchemyTimeoutError", "TimeoutError"}
    BY DEF Registered, exception_handlers
<1>1. StatusOf("FactValidationError") = 400
  <2> DEFINE e == "FactValidationError"
             m == <<"FactValidationError", "ValueError">>
  <2>1. Mro[e] = m /\ e \in Exceptions
      OBVIOUS
  <2>2. /\ DOMAIN m = 1..2
        /\ m[1] \in Registered
      BY <1>0
  <2>3. 1 \in DOMAIN m /\ \A i \in DOMAIN m : m[i] \in Registered => 1 <= i
      BY <2>2
  <2>4. StatusOf(e) = exception_handlers(e)["FactValidationError"]
      BY <2>1, <2>2, <2>3
  <2>. QED BY <2>4 DEF exception_handlers, fact_validation_error_handler
<1>2. StatusOf("FactPayloadTooLargeError") = 413
  <2> DEFINE e == "FactPayloadTooLargeError"
             m == <<"FactPayloadTooLargeError", "ValueError">>
  <2>1. Mro[e] = m /\ e \in Exceptions
      OBVIOUS
  <2>2. /\ DOMAIN m = 1..2
        /\ m[1] \in Registered
      BY <1>0
  <2>3. 1 \in DOMAIN m /\ \A i \in DOMAIN m : m[i] \in Registered => 1 <= i
      BY <2>2
  <2>4. StatusOf(e) = exception_handlers(e)["FactPayloadTooLargeError"]
      BY <2>1, <2>2, <2>3
  <2>. QED BY <2>4 DEF exception_handlers, fact_payload_too_large_error_handler
<1>3. StatusOf("RepositoryIntegrityError") = 409
  <2> DEFINE e == "RepositoryIntegrityError"
             m == <<"RepositoryIntegrityError", "RepositoryError">>
  <2>1. Mro[e] = m /\ e \in Exceptions
      OBVIOUS
  <2>2. /\ DOMAIN m = 1..2
        /\ m[1] \notin Registered
        /\ m[2] \in Registered
      BY <1>0
  <2>3. 2 \in DOMAIN m /\ \A i \in DOMAIN m : m[i] \in Registered => 2 <= i
      BY <2>2
  <2>4. StatusOf(e) = exception_handlers(e)["RepositoryError"]
      BY <2>1, <2>2, <2>3
  <2>5. IsInstance(e, "RepositoryIntegrityError") /\ ~IsInstance(e, "NotFoundError")
      BY <2>1 DEF IsInstance
  <2>. QED BY <2>4, <2>5 DEF exception_handlers, repository_error_handler
<1>4. StatusOf("RepositoryError") = 500
  <2> DEFINE e == "RepositoryError"
             m == <<"RepositoryError">>
  <2>1. Mro[e] = m /\ e \in Exceptions
      OBVIOUS
  <2>2. /\ DOMAIN m = 1..1
        /\ m[1] \in Registered
      BY <1>0
  <2>3. 1 \in DOMAIN m /\ \A i \in DOMAIN m : m[i] \in Registered => 1 <= i
      BY <2>2
  <2>4. StatusOf(e) = exception_handlers(e)["RepositoryError"]
      BY <2>1, <2>2, <2>3
  <2>5. ~IsInstance(e, "RepositoryIntegrityError") /\ ~IsInstance(e, "NotFoundError")
      BY <2>1 DEF IsInstance
  <2>. QED BY <2>4, <2>5 DEF exception_handlers, repository_error_handler
<1>5. StatusOf("OperationalError") = 503
  <2> DEFINE e == "OperationalError"
             m == <<"OperationalError", "DBAPIError", "StatementError",
                    "SQLAlchemyError">>
  <2>1. Mro[e] = m /\ e \in Exceptions
      OBVIOUS
  <2>2. /\ DOMAIN m = 1..4
        /\ \A i \in 1..3 : m[i] \notin Registered
        /\ m[4] \in Registered
      BY <1>0
  <2>3. 4 \in DOMAIN m /\ \A i \in DOMAIN m : m[i] \in Registered => 4 <= i
      BY <2>2
  <2>4. StatusOf(e) = exception_handlers(e)["SQLAlchemyError"]
      BY <2>1, <2>2, <2>3
  <2>5. IsInstance(e, "OperationalError") /\ ~IsInstance(e, "IntegrityError")
      BY <2>1 DEF IsInstance
  <2>. QED BY <2>4, <2>5 DEF exception_handlers, sqlalchemy_error_handler
<1>6. StatusOf("DBAPIError") = 500
  <2> DEFINE e == "DBAPIError"
             m == <<"DBAPIError", "StatementError", "SQLAlchemyError">>
  <2>1. Mro[e] = m /\ e \in Exceptions
      OBVIOUS
  <2>2. /\ DOMAIN m = 1..3
        /\ \A i \in 1..2 : m[i] \notin Registered
        /\ m[3] \in Registered
      BY <1>0
  <2>3. 3 \in DOMAIN m /\ \A i \in DOMAIN m : m[i] \in Registered => 3 <= i
      BY <2>2
  <2>4. StatusOf(e) = exception_handlers(e)["SQLAlchemyError"]
      BY <2>1, <2>2, <2>3
  <2>5. ~IsInstance(e, "OperationalError") /\ ~IsInstance(e, "IntegrityError")
      BY <2>1 DEF IsInstance
  <2>. QED BY <2>4, <2>5 DEF exception_handlers, sqlalchemy_error_handler
<1>7. StatusOf("TimeoutError") = 504
  <2> DEFINE e == "TimeoutError"
             m == <<"TimeoutError", "OSError">>
  <2>1. Mro[e] = m /\ e \in Exceptions
      OBVIOUS
  <2>2. /\ DOMAIN m = 1..2
        /\ m[1] \in Registered
      BY <1>0
  <2>3. 1 \in DOMAIN m /\ \A i \in DOMAIN m : m[i] \in Registered => 1 <= i
      BY <2>2
  <2>4. StatusOf(e) = exception_handlers(e)["TimeoutError"]
      BY <2>1, <2>2, <2>3
  <2>. QED BY <2>4 DEF exception_handlers, timeout_error_handler
<1>8. StatusOf("OSError") = 500
  <2>1. Mro["OSError"] = <<"OSError">>
      OBVIOUS
  <2>. QED BY <1>0, <2>1 DEF StatusOf, Registered
<1>. QED BY <1>1, <1>2, <1>3, <1>4, <1>5, <1>6, <1>7, <1>8

(* What the failures of each stage can be answered with.                   *)
LEMMA FailureStatuses ==
    /\ StatusOf(Wrapped("SQLAlchemyTimeoutError")) = 500
    /\ \A e \in {"OperationalError", "TimeoutError", "OSError"} :
          StatusOf(Wrapped(e)) \in {409, 500, 504}
    /\ \A e \in {"IntegrityError", "OperationalError", "DBAPIError"} :
          StatusOf(Wrapped(e)) = 409
    /\ \A e \in {"OperationalError", "DBAPIError"} : StatusOf(e) \in {500, 503}
<1>1. /\ Wrapped("SQLAlchemyTimeoutError") = "RepositoryError"
      /\ \A e \in {"IntegrityError", "OperationalError", "DBAPIError"} :
            Wrapped(e) = "RepositoryIntegrityError"
      /\ Wrapped("TimeoutError") = "TimeoutError"
      /\ Wrapped("OSError") = "OSError"
  <2> USE DEF Mro
  <2>1. /\ Mro["SQLAlchemyTimeoutError"][2] = "SQLAlchemyError"
        /\ 2 \in DOMAIN Mro["SQLAlchemyTimeoutError"]
        /\ Mro["DBAPIError"][2] = "StatementError"
        /\ Mro["DBAPIError"][3] = "SQLAlchemyError"
        /\ {2, 3} \subseteq DOMAIN Mro["DBAPIError"]
      OBVIOUS
  <2>2. \A e \in {"IntegrityError", "OperationalError"} :
           /\ Mro[e][3] = "StatementError" /\ Mro[e][4] = "SQLAlchemyError"
           /\ {3, 4} \subseteq DOMAIN Mro[e]
      OBVIOUS
  <2>3. \A e \in {"IntegrityError", "OperationalError", "DBAPIError"} :
           IsInstance(e, "StatementError") /\ IsInstance(e, "SQLAlchemyError")
      BY <2>1, <2>2 DEF IsInstance
  <2>4. /\ IsInstance("SQLAlchemyTimeoutError", "SQLAlchemyError")
        /\ ~IsInstance("SQLAlchemyTimeoutError", "StatementError")
        /\ ~IsInstance("TimeoutError", "SQLAlchemyError")
        /\ ~IsInstance("OSError", "SQLAlchemyError")
      BY <2>1 DEF IsInstance
  <2>. QED BY <2>3, <2>4 DEF Wrapped
<1>. QED BY <1>1, RaisedStatuses

-----------------------------------------------------------------------------
(* The invariant                                                           *)

Serving == {"received", "admitted", "connecting", "inserting", "committing"}

(* The pool of every worker is finite, and accounted for.                  *)
PoolInv == ConnectionsAccounted /\ \A w \in Worker : IsFiniteSet(pool[w])

(* A request is at a worker until it has been answered; its row and its    *)
(* status agree.                                                           *)
RequestInv ==
    \A r \in Request :
        /\ stage[r] \in Serving \cup {"answering"} <=> at[r] \in Worker
        /\ stage[r] \in Serving \cup {"none"} => status[r] = 0 /\ r \notin rows
        /\ stage[r] = "answering" => status[r] # 0
        /\ status[r] \in Refusals => r \notin rows
        /\ status[r] = 201 => r \in rows
        /\ status[r] # 404

(* What a client knows comes from the server's answer.                     *)
ClientInv ==
    \A r \in Request :
        /\ client[r] \in {"ready", "built"} => stage[r] = "none"
        /\ client[r] \in {"ready", "built", "posted"} => seen[r] = 0
        /\ seen[r] \in Statuses => seen[r] = status[r]
        /\ client[r] = "ok" => seen[r] = 201

SubmissionInv == TypeOK /\ PoolInv /\ RequestInv /\ ClientInv

LogStep == [Log!Next]_(Log!logVars)

(* Before anything was sent.                                               *)
LEMMA SubmissionInit == Init => SubmissionInv /\ Log!Init
<1> SUFFICES ASSUME Init PROVE SubmissionInv /\ Log!Init
    OBVIOUS
<1> USE DEF Init
<1>1. TypeOK
    BY LimitAssumption DEF TypeOK, ClientPhase, Kind, Stage
<1>2. PoolInv
    BY FS_EmptySet, LimitAssumption DEF PoolInv, ConnectionsAccounted, InTransaction
<1>3. RequestInv /\ ClientInv
    BY RequestAssumption DEF RequestInv, ClientInv, Serving, Refusals, Statuses
<1>4. Log!Init
    BY DEF Log!Init, Refusals, Meaning
<1>. QED BY <1>1, <1>2, <1>3, <1>4 DEF SubmissionInv

-----------------------------------------------------------------------------
(* Steps of the server                                                     *)

(* Giving back a connection, or moving a request that holds none, keeps    *)
(* the pool accounted for.                                                 *)
LEMMA ReleaseKeepsPool ==
    ASSUME TypeOK, PoolInv, RequestInv,
           NEW r \in Request, stage[r] \in Serving,
           stage' = [stage EXCEPT ![r] = "answering"],
           pool' = [pool EXCEPT ![at[r]] = @ \ {r}],
           at' = at
    PROVE  PoolInv'
<1>1. at[r] \in Worker
    BY DEF RequestInv
<1>2. ASSUME NEW w \in Worker
      PROVE  /\ pool'[w] \subseteq pool[w]
             /\ pool'[w] \cap Request = {q \in Request : at[q] = w /\ stage'[q] \in InTransaction}
  <2>1. pool[w] \cap Request = {q \in Request : at[q] = w /\ stage[q] \in InTransaction}
      BY DEF PoolInv, ConnectionsAccounted
  <2>2. pool'[w] = IF w = at[r] THEN pool[w] \ {r} ELSE pool[w]
      BY <1>1 DEF TypeOK
  <2>3. \A q \in Request : stage'[q] = IF q = r THEN "answering" ELSE stage[q]
      BY DEF TypeOK
  <2>. QED BY <2>1, <2>2, <2>3 DEF InTransaction
<1>3. ASSUME NEW w \in Worker
      PROVE  IsFiniteSet(pool'[w]) /\ Cardinality(pool'[w]) <= PoolSize
  <2>1. IsFiniteSet(pool[w]) /\ Cardinality(pool[w]) <= PoolSize
      BY DEF PoolInv, ConnectionsAccounted
  <2>2. IsFiniteSet(pool'[w]) /\ Cardinality(pool'[w]) <= Cardinality(pool[w])
      BY <1>2, <2>1, FS_Subset
  <2>. QED BY <2>1, <2>2, FS_CardinalityType, LimitAssumption
<1>. QED BY <1>2, <1>3 DEF PoolInv, ConnectionsAccounted

(* Deciding on an answer: the row is there if it is 201, and not if it is  *)
(* a refusal.                                                              *)
LEMMA AnswerStep ==
    ASSUME SubmissionInv, NEW r \in Request, stage[r] \in Serving,
           NEW s \in Statuses, s # 404, Answer(r, s),
           rows' = rows \/ rows' = rows \cup {r},
           s = 201 => rows' = rows \cup {r},
           s \in Refusals => rows' = rows,
           used' \in [Worker -> [Address -> 0..MaxRequests]],
           UNCHANGED <<client, kind, seen, at>>
    PROVE  SubmissionInv' /\ LogStep
<1> USE DEF SubmissionInv
<1>1. /\ stage' = [stage EXCEPT ![r] = "answering"]
      /\ status' = [status EXCEPT ![r] = s]
      /\ pool' = [pool EXCEPT ![at[r]] = @ \ {r}]
    BY DEF Answer
<1>2. status[r] = 0 /\ r \notin rows /\ at[r] \in Worker
    BY DEF RequestInv
<1>3. s # 0
    BY DEF Statuses, Refusals
<1>4. TypeOK'
    BY <1>1, <1>2 DEF TypeOK, Stage
<1>5. PoolInv'
    BY <1>1, ReleaseKeepsPool
<1>6. \A q \in Request : /\ stage'[q] = IF q = r THEN "answering" ELSE stage[q]
                         /\ status'[q] = IF q = r THEN s ELSE status[q]
                         /\ q # r => (q \in rows' <=> q \in rows)
    BY <1>1 DEF TypeOK
<1>7. RequestInv'
    BY <1>2, <1>3, <1>6 DEF RequestInv, Serving, Statuses, Refusals
<1>8. ClientInv'
  <2> SUFFICES ASSUME NEW q \in Request PROVE ClientInv!(q)'
      BY DEF ClientInv
  <2>1. q = r => client[q] \notin {"ready", "built"} /\ seen[q] \notin Statuses
      BY <1>2, <1>3 DEF ClientInv, Serving, Statuses, Refusals
  <2>. QED BY <1>6, <2>1 DEF ClientInv
<1>9. LogStep
  <2> DEFINE bar == {q \in Request : status[q] \in Refusals}
  <2>1. bar' = IF s \in Refusals THEN bar \cup {r} ELSE bar
      BY <1>2, <1>6 DEF Refusals
  <2>2. r \notin rows \cup bar
      BY <1>2 DEF Refusals
  <2>3. CASE s \in Refusals
      BY <2>1, <2>2, <2>3 DEF LogStep, Log!Next, Log!Refuse
  <2>4. CASE s \notin Refusals /\ rows' = rows \cup {r}
      BY <2>1, <2>2, <2>4 DEF LogStep, Log!Next, Log!Record
  <2>5. CASE s \notin Refusals /\ rows' = rows
      BY <2>1, <2>5 DEF LogStep, Log!logVars
  <2>. QED BY <2>3, <2>4, <2>5
<1>. QED BY <1>4, <1>5, <1>7, <1>8, <1>9

(* Moving on without an answer, from one stage that holds no connection to *)
(* another, or inside the transaction.                                     *)
LEMMA ServingStep ==
    ASSUME SubmissionInv, NEW r \in Request, stage[r] \in Serving,
           NEW t \in Serving, stage' = [stage EXCEPT ![r] = t],
           stage[r] \in InTransaction <=> t \in InTransaction,
           used' \in [Worker -> [Address -> 0..MaxRequests]],
           UNCHANGED <<client, kind, seen, at, status, rows, pool>>
    PROVE  SubmissionInv' /\ LogStep
<1> USE DEF SubmissionInv
<1>1. \A q \in Request : stage'[q] = IF q = r THEN t ELSE stage[q]
    BY DEF TypeOK
<1>2. TypeOK'
    BY DEF TypeOK, Stage, Serving
<1>3. PoolInv'
    BY <1>1 DEF PoolInv, ConnectionsAccounted
<1>4. RequestInv' /\ ClientInv'
    BY <1>1 DEF RequestInv, ClientInv, Serving
<1>5. LogStep
    BY DEF LogStep, Log!logVars
<1>. QED BY <1>2, <1>3, <1>4, <1>5

(* Each of the server's steps.                                             *)
LEMMA ServerStepKeeps ==
    ASSUME SubmissionInv, NEW r \in Request, ServerStep(r)
    PROVE  SubmissionInv' /\ LogStep
<1>0. TypeOK /\ PoolInv /\ RequestInv /\ ClientInv
    BY DEF SubmissionInv
<1>u. used \in [Worker -> [Address -> 0..MaxRequests]]
    BY <1>0 DEF TypeOK
<1>1. CASE RateLimit(r)
  <2> DEFINE a == AddressOf[r]
  <2>1. at[r] \in Worker /\ a \in Address /\ used[at[r]][a] \in 0..MaxRequests
      BY <1>0, <1>1, RequestAssumption DEF RateLimit, RequestInv, Serving, TypeOK
  <2>2. CASE used[at[r]][a] >= MaxRequests
    <3>1. Answer(r, 429) /\ used' = used
        BY <1>1, <2>2 DEF RateLimit
    <3>. QED BY <1>1, <1>u, <3>1, AnswerStep DEF RateLimit, Serving, Statuses, Refusals
  <2>3. CASE used[at[r]][a] < MaxRequests
    <3>1. /\ used' = [used EXCEPT ![at[r]][a] = @ + 1]
          /\ stage' = [stage EXCEPT ![r] = "admitted"]
          /\ UNCHANGED <<status, pool>>
        BY <1>1, <2>1, <2>3, LimitAssumption DEF RateLimit
    <3>2. used' \in [Worker -> [Address -> 0..MaxRequests]]
      <4>1. used[at[r]][a] + 1 \in 0..MaxRequests
          BY <2>1, <2>3, LimitAssumption
      <4>2. [used[at[r]] EXCEPT ![a] = @ + 1] \in [Address -> 0..MaxRequests]
          BY <1>u, <2>1, <4>1
      <4>. QED BY <1>u, <2>1, <3>1, <4>2
    <3>. QED BY <1>1, <3>1, <3>2, ServingStep DEF RateLimit, Serving, InTransaction
  <2>. QED BY <2>1, <2>2, <2>3, LimitAssumption
<1>2. CASE ParseBody(r)
    BY <1>2, <1>u, AnswerStep DEF ParseBody, Serving, Statuses, Refusals
<1>3. CASE Submit(r)
  <2>1. ASSUME NEW s \in {400, 413}, Answer(r, s) PROVE SubmissionInv' /\ LogStep
      BY <1>3, <1>u, <2>1, AnswerStep DEF Submit, Serving, Statuses, Refusals
  <2>2. CASE stage' = [stage EXCEPT ![r] = "connecting"] /\ UNCHANGED <<status, pool>>
      BY <1>3, <1>u, <2>2, ServingStep DEF Submit, Serving, InTransaction
  <2>. QED BY <1>3, <2>1, <2>2, RaisedStatuses DEF Submit, Fail
<1>4. CASE Connect(r)
  <2>1. /\ stage[r] = "connecting" /\ at[r] \in Worker
        /\ stage' = [stage EXCEPT ![r] = "inserting"]
        /\ pool' = [pool EXCEPT ![at[r]] = @ \cup {r}]
        /\ UNCHANGED <<client, kind, seen, at, status, rows, used>>
      BY <1>0, <1>4 DEF Connect, RequestInv, Serving
  <2>2. \A q \in Request : stage'[q] = IF q = r THEN "inserting" ELSE stage[q]
      BY <1>0, <2>1 DEF TypeOK
  <2>3. TypeOK'
      BY <1>0, <2>1 DEF TypeOK, Stage
  <2>4. ASSUME NEW w \in Worker
        PROVE  /\ pool'[w] \cap Request =
                     {q \in Request : at[q] = w /\ stage'[q] \in InTransaction}
               /\ IsFiniteSet(pool'[w]) /\ Cardinality(pool'[w]) <= PoolSize
    <3>1. pool'[w] = IF w = at[r] THEN pool[w] \cup {r} ELSE pool[w]
        BY <1>0, <2>1 DEF TypeOK
    <3>2. /\ pool[w] \cap Request = {q \in Request : at[q] = w /\ stage[q] \in InTransaction}
          /\ IsFiniteSet(pool[w]) /\ Cardinality(pool[w]) <= PoolSize
        BY <1>0 DEF PoolInv, ConnectionsAccounted
    <3>3. pool'[w] \cap Request = {q \in Request : at[q] = w /\ stage'[q] \in InTransaction}
        BY <2>1, <2>2, <3>1, <3>2 DEF InTransaction
    <3>4. CASE w = at[r]
      <4>1. pool'[w] = pool[w] \cup {r} /\ r \notin pool[w]
          BY <2>1, <3>1, <3>2, <3>4 DEF InTransaction
      <4>2. /\ IsFiniteSet(pool[w] \cup {r})
            /\ Cardinality(pool[w] \cup {r}) = Cardinality(pool[w]) + 1
          BY <3>2, <4>1, FS_AddElement
      <4>3. Cardinality(pool[w]) < PoolSize
          BY <1>4, <3>4 DEF Connect, HasRoom
      <4>. QED BY <3>2, <3>3, <4>1, <4>2, <4>3, FS_CardinalityType, LimitAssumption
    <3>. QED BY <3>1, <3>2, <3>3, <3>4
  <2>5. PoolInv'
      BY <2>1, <2>4 DEF PoolInv, ConnectionsAccounted
  <2>6. RequestInv' /\ ClientInv'
      BY <1>0, <2>1, <2>2 DEF RequestInv, ClientInv, Serving
  <2>. QED BY <2>1, <2>3, <2>5, <2>6 DEF SubmissionInv, LogStep, Log!logVars
<1>5. CASE ConnectFails(r)
  <2>1. PICK e \in {"OperationalError", "TimeoutError", "OSError"} : Fail(r, Wrapped(e))
      BY <1>5 DEF ConnectFails
  <2>2. StatusOf(Wrapped(e)) \in {409, 500, 504}
      BY FailureStatuses
  <2>. QED BY <1>5, <1>u, <2>1, <2>2, AnswerStep
           DEF ConnectFails, Fail, Serving, Statuses, Refusals
<1>6. CASE PoolTimeout(r)
    BY <1>6, <1>u, FailureStatuses, AnswerStep
       DEF PoolTimeout, Fail, Serving, Statuses, Refusals
<1>7. CASE Insert(r)
    BY <1>7, <1>u, ServingStep DEF Insert, Serving, InTransaction
<1>8. CASE InsertFails(r)
  <2>1. PICK e \in {"IntegrityError", "OperationalError", "DBAPIError"} : Fail(r, Wrapped(e))
      BY <1>8 DEF InsertFails
  <2>2. StatusOf(Wrapped(e)) = 409
      BY FailureStatuses
  <2>. QED BY <1>8, <1>u, <2>1, <2>2, AnswerStep
           DEF InsertFails, Fail, Serving, Statuses, Refusals
<1>9. CASE Commit(r)
    BY <1>9, <1>u, AnswerStep DEF Commit, Serving, Statuses, Refusals
<1>10. CASE CommitFails(r)
  <2>1. PICK e \in {"OperationalError", "DBAPIError"} : Fail(r, e)
      BY <1>10 DEF CommitFails
  <2>2. StatusOf(e) \in {500, 503}
      BY FailureStatuses
  <2>. QED BY <1>10, <1>u, <2>1, <2>2, AnswerStep
           DEF CommitFails, Fail, Serving, Statuses, Refusals
<1>11. CASE Respond(r)
  <2>1. /\ stage[r] = "answering" /\ at[r] \in Worker /\ status[r] # 0
        /\ stage' = [stage EXCEPT ![r] = "done"]
        /\ at' = [at EXCEPT ![r] = NoWorker]
        /\ UNCHANGED <<kind, status, rows, used, pool>>
      BY <1>0, <1>11 DEF Respond, RequestInv, Serving
  <2>2. \A q \in Request : /\ stage'[q] = IF q = r THEN "done" ELSE stage[q]
                           /\ at'[q] = IF q = r THEN NoWorker ELSE at[q]
      BY <1>0, <2>1 DEF TypeOK
  <2>3. PoolInv'
      BY <1>0, <2>1, <2>2, RequestAssumption DEF PoolInv, ConnectionsAccounted, InTransaction
  <2>4. RequestInv'
      BY <1>0, <2>1, <2>2, RequestAssumption DEF RequestInv, Serving
  <2>5. CASE UNCHANGED <<client, seen>>
    <3>1. TypeOK'
        BY <1>0, <2>1, <2>5 DEF TypeOK, Stage
    <3>2. ClientInv'
        BY <1>0, <2>1, <2>2, <2>5 DEF ClientInv
    <3>. QED BY <2>1, <2>3, <2>4, <2>5, <3>1, <3>2 DEF SubmissionInv, LogStep, Log!logVars
  <2>6. CASE /\ client[r] = "posted"
             /\ client' = [client EXCEPT ![r] = "answered"]
             /\ seen' = [seen EXCEPT ![r] = status[r]]
    <3>1. TypeOK'
        BY <1>0, <2>1, <2>6 DEF TypeOK, Stage, ClientPhase
    <3>2. \A q \in Request : /\ client'[q] = IF q = r THEN "answered" ELSE client[q]
                             /\ seen'[q] = IF q = r THEN status[r] ELSE seen[q]
        BY <1>0, <2>6 DEF TypeOK
    <3>3. ClientInv'
        BY <1>0, <2>1, <2>2, <3>2 DEF ClientInv
    <3>4. seen[r] = 0 /\ status[r] \in Statuses
        BY <1>0, <2>1, <2>6 DEF ClientInv, TypeOK
    <3>5. Log!Tell(r, Meaning(status[r]))
      <4> DEFINE told == [q \in Request |-> Meaning(seen[q])]
      <4>1. told' = [told EXCEPT ![r] = Meaning(status[r])]
          BY <3>2
      <4>2. told[r] = "nothing"
          BY <3>4 DEF Meaning
      <4>3. Meaning(status[r]) = "stored" => r \in rows
          BY <1>0, <3>4 DEF Meaning, RequestInv, Statuses, Refusals
      <4>4. Meaning(status[r]) = "refused" => status[r] \in Refusals
          BY <3>4 DEF Meaning
      <4>. QED BY <2>1, <4>1, <4>2, <4>3, <4>4 DEF Log!Tell
    <3>6. Meaning(status[r]) \in Log!Verdict
        BY <2>1 DEF Meaning, Log!Verdict
    <3>. QED BY <2>3, <2>4, <3>1, <3>3, <3>5, <3>6 DEF SubmissionInv, LogStep, Log!Next
  <2>. QED BY <1>11, <2>5, <2>6 DEF Respond
<1>. QED BY <1>1, <1>2, <1>3, <1>4, <1>5, <1>6, <1>7, <1>8, <1>9, <1>10, <1>11
         DEF ServerStep

-----------------------------------------------------------------------------
(* Steps of clients and workers                                            *)

(* A client's own steps: posting once, giving up, and the verdict.         *)
LEMMA ClientStepKeeps ==
    ASSUME SubmissionInv, NEW r \in Request, ClientStep(r)
    PROVE  SubmissionInv' /\ LogStep
<1>0. TypeOK /\ PoolInv /\ RequestInv /\ ClientInv
    BY DEF SubmissionInv
<1>1. CASE CollectFacts(r)
  <2>1. /\ client[r] = "ready"
        /\ client' = [client EXCEPT ![r] = "built"] \/ client' = [client EXCEPT ![r] = "failed"]
        /\ kind' \in [Request -> Kind]
        /\ UNCHANGED <<seen, stage, at, status, rows, used, pool>>
      BY <1>0, <1>1 DEF CollectFacts, TypeOK, RoleKind, Kind
  <2>2. TypeOK' /\ PoolInv' /\ RequestInv'
      BY <1>0, <2>1
         DEF TypeOK, ClientPhase, PoolInv, ConnectionsAccounted, RequestInv
  <2>3. ClientInv'
      BY <1>0, <2>1 DEF ClientInv, TypeOK
  <2>. QED BY <2>1, <2>2, <2>3 DEF SubmissionInv, LogStep, Log!logVars
<1>2. ASSUME NEW w \in Worker, Post(r, w) PROVE SubmissionInv' /\ LogStep
  <2>1. /\ client[r] \in {"ready", "built"} /\ stage[r] = "none" /\ seen[r] = 0
        /\ client' = [client EXCEPT ![r] = "posted"]
        /\ kind' \in [Request -> Kind]
        /\ stage' = [stage EXCEPT ![r] = "received"]
        /\ at' = [at EXCEPT ![r] = w]
        /\ UNCHANGED <<seen, status, rows, used, pool>>
      BY <1>0, <1>2 DEF Post, MayPost, TypeOK, ClientInv
  <2>2. \A q \in Request : /\ client'[q] = IF q = r THEN "posted" ELSE client[q]
                           /\ stage'[q] = IF q = r THEN "received" ELSE stage[q]
                           /\ at'[q] = IF q = r THEN w ELSE at[q]
      BY <1>0, <2>1 DEF TypeOK
  <2>3. TypeOK'
      BY <1>0, <2>1 DEF TypeOK, ClientPhase, Stage
  <2>4. PoolInv'
      BY <1>0, <2>1, <2>2 DEF PoolInv, ConnectionsAccounted, InTransaction
  <2>5. RequestInv' /\ ClientInv'
      BY <1>0, <2>1, <2>2 DEF RequestInv, ClientInv, Serving
  <2>. QED BY <2>1, <2>3, <2>4, <2>5 DEF SubmissionInv, LogStep, Log!logVars
<1>3. CASE GiveUp(r)
  <2>1. /\ client[r] \in {"ready", "built", "posted"} /\ seen[r] = 0
        /\ client' = [client EXCEPT ![r] = "answered"]
        /\ seen' = [seen EXCEPT ![r] = -1]
        /\ UNCHANGED <<kind, stage, at, status, rows, used, pool>>
      BY <1>0, <1>3 DEF GiveUp, MayPost, ClientInv
  <2>2. TypeOK' /\ PoolInv' /\ RequestInv'
      BY <1>0, <2>1
         DEF TypeOK, ClientPhase, PoolInv, ConnectionsAccounted, RequestInv
  <2>3. -1 \notin Statuses
      BY DEF Statuses, Refusals
  <2>4. ClientInv'
      BY <1>0, <2>1, <2>3 DEF ClientInv, TypeOK
  <2>5. Log!Tell(r, "unknown")
    <3> DEFINE told == [q \in Request |-> Meaning(seen[q])]
    <3>1. told' = [told EXCEPT ![r] = Meaning(-1)]
        BY <1>0, <2>1 DEF TypeOK
    <3>2. told[r] = "nothing" /\ Meaning(-1) = "unknown"
        BY <2>1 DEF Meaning, Refusals
    <3>. QED BY <2>1, <3>1, <3>2 DEF Log!Tell
  <2>6. LogStep
      BY <2>5 DEF LogStep, Log!Next, Log!Verdict
  <2>. QED BY <2>2, <2>4, <2>6 DEF SubmissionInv
<1>4. CASE WriteAuditLog(r)
  <2>1. TypeOK' /\ PoolInv' /\ RequestInv' /\ ClientInv'
      BY <1>0, <1>4
         DEF WriteAuditLog, TypeOK, ClientPhase, PoolInv, ConnectionsAccounted,
             RequestInv, ClientInv
  <2>. QED BY <1>4, <2>1 DEF WriteAuditLog, SubmissionInv, LogStep, Log!logVars
<1>5. CASE ValidateSubmission(r)
  <2>1. TypeOK' /\ PoolInv' /\ RequestInv' /\ ClientInv'
      BY <1>0, <1>5
         DEF ValidateSubmission, TypeOK, ClientPhase, PoolInv,
             ConnectionsAccounted, RequestInv, ClientInv
  <2>. QED BY <1>5, <2>1 DEF ValidateSubmission, SubmissionInv, LogStep, Log!logVars
<1>. QED BY <1>1, <1>2, <1>3, <1>4, <1>5 DEF ClientStep

(* Crashes, the end of a rate-limit window, and the jobs' connections.     *)
LEMMA WorkerStepKeeps ==
    ASSUME SubmissionInv, NEW w \in Worker, WorkerStep(w)
    PROVE  SubmissionInv' /\ LogStep
<1>0. TypeOK /\ PoolInv /\ RequestInv /\ ClientInv
    BY DEF SubmissionInv
<1>1. CASE Crash(w)
  <2>1. /\ stage' = [r \in Request |-> IF at[r] = w THEN "done" ELSE stage[r]]
        /\ at' = [r \in Request |-> IF at[r] = w THEN NoWorker ELSE at[r]]
        /\ used' = [used EXCEPT ![w] = [a \in Address |-> 0]]
        /\ pool' = [pool EXCEPT ![w] = {}]
        /\ UNCHANGED <<client, kind, seen, status, rows>>
      BY <1>1 DEF Crash
  <2>2. TypeOK'
    <3>1. [a \in Address |-> 0] \in [Address -> 0..MaxRequests]
        BY LimitAssumption
    <3>. QED BY <1>0, <2>1, <3>1 DEF TypeOK, Stage
  <2>3. \A v \in Worker : pool'[v] = IF v = w THEN {} ELSE pool[v]
      BY <1>0, <2>1 DEF TypeOK
  <2>4. PoolInv'
    <3>1. ASSUME NEW v \in Worker
          PROVE  pool'[v] \cap Request =
                   {r \in Request : at'[r] = v /\ stage'[r] \in InTransaction}
      <4>1. CASE v = w
          BY <2>1, <2>3, <4>1, RequestAssumption DEF InTransaction
      <4>2. CASE v # w
          BY <1>0, <2>1, <2>3, <4>2, RequestAssumption
             DEF PoolInv, ConnectionsAccounted
      <4>. QED BY <4>1, <4>2
    <3>2. ASSUME NEW v \in Worker
          PROVE  IsFiniteSet(pool'[v]) /\ Cardinality(pool'[v]) <= PoolSize
        BY <1>0, <2>3, FS_EmptySet, LimitAssumption DEF PoolInv, ConnectionsAccounted
    <3>. QED BY <3>1, <3>2 DEF PoolInv, ConnectionsAccounted
  <2>5. RequestInv'
      BY <1>0, <2>1, RequestAssumption DEF RequestInv, Serving
  <2>6. ClientInv'
      BY <1>0, <2>1, RequestAssumption DEF ClientInv, RequestInv, Serving
  <2>. QED BY <2>1, <2>2, <2>4, <2>5, <2>6 DEF SubmissionInv, LogStep, Log!logVars
<1>2. ASSUME NEW a \in Address, WindowEnds(w, a) PROVE SubmissionInv' /\ LogStep
  <2>1. TypeOK'
    <3>1. [used[w] EXCEPT ![a] = 0] \in [Address -> 0..MaxRequests]
        BY <1>0, LimitAssumption DEF TypeOK
    <3>. QED BY <1>0, <1>2, <3>1 DEF WindowEnds, TypeOK
  <2>2. PoolInv' /\ RequestInv' /\ ClientInv'
      BY <1>0, <1>2
         DEF WindowEnds, PoolInv, ConnectionsAccounted, RequestInv, ClientInv
  <2>. QED BY <1>2, <2>1, <2>2 DEF WindowEnds, SubmissionInv, LogStep, Log!logVars
<1>3. ASSUME NEW j \in JobSession,
             JobTakesConnection(w, j) \/ JobReturnsConnection(w, j)
      PROVE  SubmissionInv' /\ LogStep
  <2>1. /\ \/ HasRoom(w) /\ pool' = [pool EXCEPT ![w] = @ \cup {j}]
           \/ pool' = [pool EXCEPT ![w] = @ \ {j}]
        /\ UNCHANGED <<client, kind, seen, stage, at, status, rows, used>>
      BY <1>3 DEF JobTakesConnection, JobReturnsConnection
  <2>2. j \notin Request
      BY RequestAssumption
  <2>3. ASSUME NEW v \in Worker
        PROVE  /\ pool'[v] \cap Request = pool[v] \cap Request
               /\ IsFiniteSet(pool'[v]) /\ Cardinality(pool'[v]) <= PoolSize
    <3>1. /\ IsFiniteSet(pool[v]) /\ Cardinality(pool[v]) <= PoolSize
          /\ Cardinality(pool[v]) \in Nat
        BY <1>0, FS_CardinalityType DEF PoolInv, ConnectionsAccounted
    <3>2. CASE v # w
        BY <1>0, <2>1, <3>1, <3>2 DEF TypeOK
    <3>3. CASE v = w /\ HasRoom(w) /\ pool'[w] = pool[w] \cup {j}
      <4>1. /\ IsFiniteSet(pool[w] \cup {j})
            /\ j \in pool[w] => pool[w] \cup {j} = pool[w]
            /\ j \notin pool[w] =>
                 Cardinality(pool[w] \cup {j}) = Cardinality(pool[w]) + 1
          BY <3>1, <3>3, FS_AddElement
      <4>. QED BY <2>2, <3>1, <3>3, <4>1, LimitAssumption DEF HasRoom
    <3>4. CASE v = w /\ pool'[w] = pool[w] \ {j}
      <4>1. IsFiniteSet(pool[w] \ {j}) /\ Cardinality(pool[w] \ {j}) <= Cardinality(pool[w])
          BY <3>1, <3>4, FS_Subset
      <4>2. Cardinality(pool[w] \ {j}) \in Nat
          BY <4>1, FS_CardinalityType
      <4>. QED BY <2>2, <3>1, <3>4, <4>1, <4>2, LimitAssumption
    <3>. QED BY <1>0, <2>1, <3>2, <3>3, <3>4 DEF TypeOK
  <2>4. TypeOK'
      BY <1>0, <2>1 DEF TypeOK
  <2>5. PoolInv'
      BY <1>0, <2>1, <2>3 DEF PoolInv, ConnectionsAccounted
  <2>6. RequestInv' /\ ClientInv'
      BY <1>0, <2>1 DEF RequestInv, ClientInv
  <2>. QED BY <2>1, <2>4, <2>5, <2>6 DEF SubmissionInv, LogStep, Log!logVars
<1>. QED BY <1>1, <1>2, <1>3 DEF WorkerStep

-----------------------------------------------------------------------------
(* Theorems                                                                *)

(* Every step keeps the invariant and is a step of FactLog or leaves its   *)
(* variables alone.                                                        *)
LEMMA SubmissionStep == SubmissionInv /\ [Next]_vars => SubmissionInv' /\ LogStep
<1> SUFFICES ASSUME SubmissionInv, [Next]_vars PROVE SubmissionInv' /\ LogStep
    OBVIOUS
<1>1. ASSUME NEW r \in Request, ClientStep(r) PROVE SubmissionInv' /\ LogStep
    BY <1>1, ClientStepKeeps
<1>2. ASSUME NEW r \in Request, ServerStep(r) PROVE SubmissionInv' /\ LogStep
    BY <1>2, ServerStepKeeps
<1>3. ASSUME NEW w \in Worker, WorkerStep(w) PROVE SubmissionInv' /\ LogStep
    BY <1>3, WorkerStepKeeps
<1>4. CASE UNCHANGED vars
    BY <1>4 DEF vars, SubmissionInv, TypeOK, PoolInv, ConnectionsAccounted,
       RequestInv, ClientInv, LogStep, Log!logVars
<1>. QED BY <1>1, <1>2, <1>3, <1>4 DEF Next

(* The invariant holds throughout.                                         *)
LEMMA SubmissionInvariant == Spec => []SubmissionInv
<1>1. Init => SubmissionInv
    BY SubmissionInit
<1>2. SubmissionInv /\ [Next]_vars => SubmissionInv'
    BY SubmissionStep
<1>. QED BY <1>1, <1>2, PTL DEF Spec

(* Type correctness of the submission path, rate-limit counters included.  *)
THEOREM SubmissionTypes == Spec => []TypeOK
<1>1. SubmissionInv => TypeOK
    BY DEF SubmissionInv
<1>. QED BY <1>1, SubmissionInvariant, PTL

(* No path through insert_record leaks a connection of the pool.           *)
THEOREM ConnectionSafety == Spec => []ConnectionsAccounted
<1>1. SubmissionInv => ConnectionsAccounted
    BY DEF SubmissionInv, PoolInv
<1>. QED BY <1>1, SubmissionInvariant, PTL

(* A role run that ends well has its row in the table.                     *)
THEOREM VerdictSafety == Spec => []VerdictHonest
<1>1. SubmissionInv => VerdictHonest
    BY DEF SubmissionInv, RequestInv, ClientInv, VerdictHonest, Request, Statuses
<1>. QED BY <1>1, SubmissionInvariant, PTL

(* Only the server's own step for a request decides what it is answered.   *)
LEMMA Decides ==
    ASSUME TypeOK, [Next]_vars, NEW r \in Request,
           stage[r] # "answering", stage'[r] = "answering"
    PROVE  ServerStep(r)
<1>1. stage \in [Request -> Stage]
    BY DEF TypeOK
<1>2. stage' # stage
    OBVIOUS
<1>3. CASE \E q \in Request : ClientStep(q)
  <2>1. PICK q \in Request : ClientStep(q)
      BY <1>3
  <2>2. stage' = [stage EXCEPT ![q] = "received"]
      BY <1>2, <2>1
         DEF ClientStep, CollectFacts, Post, GiveUp, WriteAuditLog,
             ValidateSubmission
  <2>. QED BY <1>1, <2>2
<1>4. CASE \E q \in Request : ServerStep(q)
  <2>1. PICK q \in Request : ServerStep(q)
      BY <1>4
  <2>2. \E x : stage' = [stage EXCEPT ![q] = x]
      BY <2>1
         DEF ServerStep, RateLimit, ParseBody, Submit, Connect, ConnectFails,
             PoolTimeout, Insert, InsertFails, Commit, CommitFails, Respond,
             Answer, Fail
  <2>3. q = r
      BY <1>1, <2>2
  <2>. QED BY <2>1, <2>3
<1>5. CASE \E w \in Worker : WorkerStep(w)
  <2>1. PICK w \in Worker : WorkerStep(w)
      BY <1>5
  <2>2. stage' = [q \in Request |-> IF at[q] = w THEN "done" ELSE stage[q]]
      BY <1>2, <2>1
         DEF WorkerStep, Crash, WindowEnds, JobTakesConnection,
             JobReturnsConnection
  <2>. QED BY <2>2
<1>. QED BY <1>2, <1>3, <1>4, <1>5 DEF Next, vars

(***************************************************************************)
(* StatusTellsStage for every set of clients, workers and connections: the *)
(* exception that each stage can raise, followed through the repository's  *)
(* wrapping and the table of handlers, reaches only the statuses of that   *)
(* stage.                                                                  *)
(***************************************************************************)
THEOREM StatusSafety == Spec => StatusTellsStage
<1> DEFINE Told(r) ==
        stage[r] # "answering" /\ stage'[r] = "answering" =>
             /\ status'[r] \in AnswersAt[stage[r]]
             /\ status'[r] \in Documented \cup {503}
<1>1. ASSUME TypeOK, [Next]_vars, NEW r \in Request,
             stage[r] # "answering", stage'[r] = "answering"
      PROVE  /\ status'[r] \in AnswersAt[stage[r]]
             /\ status'[r] \in Documented \cup {503}
  <2>1. stage \in [Request -> Stage] /\ status \in [Request -> {0} \cup Statuses]
      BY <1>1 DEF TypeOK
  <2>2. \A s : Answer(r, s) => status'[r] = s
      BY <2>1 DEF Answer
  <2>3. \A x : stage' = [stage EXCEPT ![r] = x] => x = "answering"
      BY <1>1, <2>1
  <2>4. ServerStep(r)
      BY <1>1, Decides
  <2>5. CASE RateLimit(r)
    <3>1. stage[r] = "received" /\ Answer(r, 429)
        BY <2>3, <2>5 DEF RateLimit
    <3>. QED BY <2>2, <3>1 DEF AnswersAt, Documented
  <2>6. CASE ParseBody(r)
    <3>1. stage[r] = "admitted" /\ (Answer(r, 413) \/ Answer(r, 400))
        BY <2>6 DEF ParseBody
    <3>. QED BY <2>2, <3>1 DEF AnswersAt, Documented
  <2>7. CASE Submit(r)
    <3>1. stage[r] = "admitted" /\ (Answer(r, 413) \/ Answer(r, 400))
        BY <2>3, <2>7, RaisedStatuses DEF Submit, Fail
    <3>. QED BY <2>2, <3>1 DEF AnswersAt, Documented
  <2>8. CASE ConnectFails(r)
    <3>1. PICK e \in {"OperationalError", "TimeoutError", "OSError"} :
            stage[r] = "connecting" /\ Answer(r, StatusOf(Wrapped(e)))
        BY <2>8 DEF ConnectFails, Fail
    <3>2. StatusOf(Wrapped(e)) \in {409, 500, 504}
        BY FailureStatuses
    <3>. QED BY <2>2, <3>1, <3>2 DEF AnswersAt, Documented
  <2>9. CASE PoolTimeout(r)
    <3>1. stage[r] = "connecting" /\ Answer(r, 500)
        BY <2>9, FailureStatuses DEF PoolTimeout, Fail
    <3>. QED BY <2>2, <3>1 DEF AnswersAt, Documented
  <2>10. CASE InsertFails(r)
    <3>1. stage[r] = "inserting" /\ Answer(r, 409)
        BY <2>10, FailureStatuses DEF InsertFails, Fail
    <3>. QED BY <2>2, <3>1 DEF AnswersAt, Documented
  <2>11. CASE Commit(r)
    <3>1. stage[r] = "committing" /\ Answer(r, 201)
        BY <2>11 DEF Commit
    <3>. QED BY <2>2, <3>1 DEF AnswersAt, Documented
  <2>12. CASE CommitFails(r)
    <3>1. PICK e \in {"OperationalError", "DBAPIError"} :
            stage[r] = "committing" /\ Answer(r, StatusOf(e))
        BY <2>12 DEF CommitFails, Fail
    <3>2. StatusOf(e) \in {500, 503}
        BY FailureStatuses
    <3>. QED BY <2>2, <3>1, <3>2 DEF AnswersAt, Documented
  <2>13. CASE Connect(r) \/ Insert(r) \/ Respond(r)
      BY <2>3, <2>13 DEF Connect, Insert, Respond
  <2>. QED BY <2>4, <2>5, <2>6, <2>7, <2>8, <2>9, <2>10, <2>11, <2>12, <2>13
           DEF ServerStep
<1>2. TypeOK /\ [Next]_vars => [\A r \in Request : Told(r)]_vars
    BY <1>1
<1>3. SubmissionInv => TypeOK
    BY DEF SubmissionInv
<1>. QED BY <1>2, <1>3, SubmissionInvariant, PTL DEF Spec, StatusTellsStage

(* The endpoint implements the abstract log: 201 only for committed rows,  *)
(* 4xx only for requests that are never stored, one row per request.       *)
THEOREM LogRefinement == Spec => ImplementsFactLog
<1>1. Init => Log!Init
    BY SubmissionInit
<1>2. SubmissionInv /\ [Next]_vars => [Log!Next]_(Log!logVars)
    BY SubmissionStep DEF LogStep
<1>. QED BY <1>1, <1>2, SubmissionInvariant, PTL
         DEF Spec, ImplementsFactLog, Log!Spec

-----------------------------------------------------------------------------
(* What FactLog's promise is good for                                      *)

(* Refused requests are not recorded; whoever was told is told the truth.  *)
LogHonest ==
    LET refused == {r \in Request : status[r] \in Refusals}
        told == [r \in Request |-> Meaning(seen[r])]
    IN  /\ refused \cap rows = {}
        /\ \A r \in Request : told[r] = "refused" => r \in refused
        /\ Log!Honest

(* Every step of FactLog keeps it, and nobody is told twice.               *)
LEMMA LogHonestStep ==
    ASSUME LogHonest, [Log!Next]_(Log!logVars)
    PROVE  LogHonest' /\ Log!WordKept
<1> DEFINE refused == {r \in Request : status[r] \in Refusals}
           told == [r \in Request |-> Meaning(seen[r])]
<1>0. /\ refused \cap rows = {}
      /\ \A r \in Request : told[r] = "refused" => r \in refused
      /\ \A r \in Request : told[r] = "stored" => r \in rows
      /\ \A r \in Request : told[r] = "refused" => r \notin rows
    BY DEF LogHonest, Log!Honest
<1>g. ASSUME refused' \cap rows' = {},
             \A r \in Request : told'[r] = "refused" => r \in refused',
             \A r \in Request : told'[r] = "stored" => r \in rows',
             \A r \in Request : told[r] # "nothing" => told'[r] = told[r]
      PROVE  LogHonest' /\ Log!WordKept
    BY <1>g DEF LogHonest, Log!Honest, Log!WordKept
<1> HIDE DEF refused, told
<1>1. CASE UNCHANGED Log!logVars
  <2>1. rows' = rows /\ refused' = refused /\ told' = told
      BY <1>1 DEF Log!logVars, refused, told
  <2>. QED BY <1>0, <1>g, <2>1
<1>2. ASSUME NEW r \in Request, Log!Record(r) PROVE LogHonest' /\ Log!WordKept
  <2>1. /\ r \notin rows \cup refused /\ rows' = rows \cup {r}
        /\ refused' = refused /\ told' = told
      BY <1>2 DEF Log!Record, refused, told
  <2>. QED BY <1>0, <1>g, <2>1
<1>3. ASSUME NEW r \in Request, Log!Refuse(r) PROVE LogHonest' /\ Log!WordKept
  <2>1. /\ r \notin rows \cup refused /\ rows' = rows
        /\ refused' = refused \cup {r} /\ told' = told
      BY <1>3 DEF Log!Refuse, refused, told
  <2>. QED BY <1>0, <1>g, <2>1
<1>4. ASSUME NEW r \in Request, NEW v \in Log!Verdict, Log!Tell(r, v)
      PROVE  LogHonest' /\ Log!WordKept
  <2>1. /\ told[r] = "nothing" /\ told' = [told EXCEPT ![r] = v]
        /\ v = "stored" => r \in rows
        /\ v = "refused" => r \in refused
        /\ rows' = rows /\ refused' = refused
      BY <1>4 DEF Log!Tell, refused, told
  <2>2. \A q \in Request : told'[q] = IF q = r THEN v ELSE told[q]
      BY <2>1 DEF told
  <2>. QED BY <1>0, <1>g, <2>1, <2>2
<1>. QED BY <1>1, <1>2, <1>3, <1>4 DEF Log!Next

(***************************************************************************)
(* Of every client, whatever it sends and whatever fails: one that has     *)
(* seen 201 has its row and one that has seen a 4xx has none, in every     *)
(* state; and neither sees another answer, so the latter never gets one.   *)
(***************************************************************************)
THEOREM AnswersAreTrue == Spec => []Log!Honest /\ [][Log!WordKept]_vars
<1>1. Init => LogHonest
    BY DEF Init, LogHonest, Log!Honest, Meaning, Refusals
<1>2. SubmissionInv /\ LogHonest /\ [Next]_vars => LogHonest' /\ Log!WordKept
    BY SubmissionStep, LogHonestStep DEF LogStep
<1>3. LogHonest => Log!Honest
    BY DEF LogHonest
<1>. QED BY <1>1, <1>2, <1>3, SubmissionInvariant, PTL DEF Spec
=============================================================================
