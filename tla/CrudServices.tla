---------------------------- MODULE CrudServices ----------------------------
(***************************************************************************)
(* The handlers that create, read, change and delete records: Vehicle,     *)
(* Charging, Consumption, Weather and SourceCategory services, running     *)
(* concurrently over one database.                                         *)
(*                                                                         *)
(* Every handler has the same skeleton: authenticate; validate (charging   *)
(* and consumption); acquire a connection (module PgPool; here a           *)
(* connection is always there in the end); run one statement; commit;      *)
(* reply.  Errors are exceptions that ToGrpcStatus turns into a status     *)
(* while the transaction object rolls back.  CreateVehicle is the one that *)
(* goes on after its commit: it calls GetVehicle, which authenticates the  *)
(* same request a second time and reads the row in a new transaction.      *)
(*                                                                         *)
(* A connection can fail under a statement or under the commit.  When it   *)
(* fails under the commit the transaction may have been committed all the  *)
(* same (libpqxx throws in_doubt_error).                                   *)
(***************************************************************************)
EXTENDS EvDatabase, Integers

CONSTANTS
    Threads,    \* handler threads
    Methods,    \* the RPCs that arrive
    RefIds,     \* the ids clients put into references to a table
    Limits,     \* the limits of searches
    NoWrite,    \* a thread without an open transaction
    Seed,       \* the rows at start
    MaxRpcs     \* bound: RPCs one thread serves in a behaviour

VARIABLES
    db,         \* the committed rows
    issued,     \* the UUIDs NewUuid has returned
    pc,         \* where each handler is
    method,     \* the RPC of each thread
    work,       \* its statement: a write, or op "get" or "search"
    tx,         \* its uncommitted write, or NoWrite
    status,     \* the status of its last reply
    body,       \* the rows of its last reply
    durable,    \* history: the RPC's write is committed
    served      \* RPCs answered

vars == <<db, issued, pc, method, work, tx, status, body, durable, served>>

AllMethods ==
    { "CreateVehicle", "GetVehicle", "UpdateVehicle", "DeleteVehicle",
      "CreateWeather", "SearchWeather", "CreateSourceCategory",
      "SearchSourceCategory", "CreateCharging", "GetCharging", "UpdateCharging",
      "DeleteCharging", "CreateConsumption", "GetConsumption",
      "UpdateConsumption", "DeleteConsumption" }

Statuses == {"OK", "UNAUTHENTICATED", "INVALID_ARGUMENT", "NOT_FOUND",
             "ALREADY_EXISTS", "INTERNAL"}

PCs == {"idle", "statement", "commit", "reauthenticate", "readback", "reply"}

AnyRow == UNION { Rows(x) : x \in Tables }

\* The writes a transaction may hold.
AnyWrite ==
    [op : {"insert", "update", "delete"}, table : Tables, row : AnyRow]

\* The server is started on a database that satisfies its own schema.
ASSUME CrudAssumption ==
    /\ Methods \subseteq AllMethods
    /\ Names # {}
    /\ Limits \subseteq Int
    /\ NoWrite \notin AnyWrite
    /\ Seed \in Databases /\ Consistent(Seed)
    /\ MaxRpcs \in Nat

TypeOK ==
    /\ \A x \in Tables : db[x] \subseteq Rows(x)
    /\ issued \subseteq Ids
    /\ pc \in [Threads -> PCs]
    /\ method \in [Threads -> AllMethods]
    /\ \A t \in Threads : tx[t] = NoWrite \/ tx[t].row \in Rows(tx[t].table)
    /\ status \in [Threads -> Statuses]
    /\ \A t \in Threads : body[t] \subseteq AnyRow
    /\ durable \in [Threads -> BOOLEAN]
    /\ served \in [Threads -> 0 .. MaxRpcs]

NoWork == Write("get", "vehicle", NoWrite)

Init ==
    /\ db = Seed
    /\ issued = UNION { { r.id : r \in Seed[x] } : x \in Tables }
    /\ pc = [t \in Threads |-> "idle"]
    /\ method = [t \in Threads |-> "GetVehicle"]
    /\ work = [t \in Threads |-> NoWork]
    /\ tx = [t \in Threads |-> NoWrite]
    /\ status = [t \in Threads |-> "OK"]
    /\ body = [t \in Threads |-> {}]
    /\ durable = [t \in Threads |-> FALSE]
    /\ served = [t \in Threads |-> 0]

-----------------------------------------------------------------------------
(***************************************************************************)
(* The beginning of a handler: AuthenticateRpc, validation, and the        *)
(* statement it is going to run.                                           *)
(***************************************************************************)

\* The RPC is refused before it reaches the database.
Refuse(t, m, s) ==
    /\ method' = [method EXCEPT ![t] = m]
    /\ status' = [status EXCEPT ![t] = s]
    /\ pc' = [pc EXCEPT ![t] = "reply"]
    /\ UNCHANGED <<issued, work>>

Prepare(t, m, w) ==
    /\ method' = [method EXCEPT ![t] = m]
    /\ work' = [work EXCEPT ![t] = w]
    /\ pc' = [pc EXCEPT ![t] = "statement"]
    /\ UNCHANGED <<issued, status>>

\* Mutant of PrepareInsert: the row is built without its UUID.
PrepareInsertBlankId(t, m, table, key, refs) ==
    /\ method' = [method EXCEPT ![t] = m]
    /\ work' = [work EXCEPT ![t] = Write("insert", table,
                    [id |-> 0, key |-> key, refs |-> refs])]
    /\ pc' = [pc EXCEPT ![t] = "statement"]
    /\ UNCHANGED <<status, issued>>

\* A handler that inserts a row with a new UUID.
PrepareInsert(t, m, table, key, refs) ==
    \E id \in Ids \ issued :
        /\ method' = [method EXCEPT ![t] = m]
        /\ work' = [work EXCEPT ![t] = Write("insert", table,
                        [id |-> id, key |-> key, refs |-> refs])]
        /\ issued' = issued \cup {id}
        /\ pc' = [pc EXCEPT ![t] = "statement"]
        /\ UNCHANGED status

NoRefs == [p \in {} |-> NoName]

RowOf(id, key, refs) == [id |-> id, key |-> key, refs |-> refs]

\* Get and Delete name a row by its id alone.
ById(op, table, id) ==
    Write(op, table, CHOOSE r \in Rows(table) : r.id = id)

CreateVehicle(t) ==
    \E n \in Names : PrepareInsert(t, "CreateVehicle", "vehicle", n, NoRefs)

GetVehicle(t) ==
    \E id \in issued : Prepare(t, "GetVehicle", ById("get", "vehicle", id))

UpdateVehicle(t) ==
    \E id \in issued, n \in Names :
        Prepare(t, "UpdateVehicle",
                Write("update", "vehicle", RowOf(id, n, NoRefs)))

DeleteVehicle(t) ==
    \E id \in issued :
        Prepare(t, "DeleteVehicle", ById("delete", "vehicle", id))

CreateWeather(t) ==
    \E n \in Names : PrepareInsert(t, "CreateWeather", "weather", n, NoRefs)

\* limit <= 0 asks for the default; a larger one is taken as it is.
SearchLimit(limit) == IF limit > 0 THEN limit ELSE 50

\* A search carries its prefix and its limit where a write carries its row.
Search(t, m, table) ==
    \E prefix \in SUBSET Names, limit \in Limits :
        Prepare(t, m, Write("search", table,
                            [prefix |-> prefix, limit |-> SearchLimit(limit)]))

SearchWeather(t) == Search(t, "SearchWeather", "weather")

SearchSourceCategory(t) ==
    Search(t, "SearchSourceCategory", "source_category")

CreateSourceCategory(t) ==
    \E n \in Names :
        PrepareInsert(t, "CreateSourceCategory", "source_category", n, NoRefs)

\* ValidateCharging and ValidateConsumption refuse the request or pass it.
Validated(t, m, A) ==
    \/ Refuse(t, m, "INVALID_ARGUMENT")
    \/ A

References(table) ==
    { refs \in [Parents(table) -> issued] :
        \A p \in Parents(table) : refs[p] \in RefIds[p] }

CreateCharging(t) ==
    \E refs \in References("charging") :
        Validated(t, "CreateCharging",
            PrepareInsert(t, "CreateCharging", "charging", NoName, refs))

GetCharging(t) ==
    \E id \in issued : Prepare(t, "GetCharging", ById("get", "charging", id))

UpdateCharging(t) ==
    \E id \in issued, refs \in References("charging") :
        Validated(t, "UpdateCharging",
            Prepare(t, "UpdateCharging",
                    Write("update", "charging", RowOf(id, NoName, refs))))

DeleteCharging(t) ==
    \E id \in issued :
        Prepare(t, "DeleteCharging", ById("delete", "charging", id))

CreateConsumption(t) ==
    \E refs \in References("consumption") :
        Validated(t, "CreateConsumption",
            PrepareInsert(t, "CreateConsumption", "consumption", NoName, refs))

GetConsumption(t) ==
    \E id \in issued :
        Prepare(t, "GetConsumption", ById("get", "consumption", id))

UpdateConsumption(t) ==
    \E id \in issued, refs \in References("consumption") :
        Validated(t, "UpdateConsumption",
            Prepare(t, "UpdateConsumption",
                    Write("update", "consumption", RowOf(id, NoName, refs))))

DeleteConsumption(t) ==
    \E id \in issued :
        Prepare(t, "DeleteConsumption", ById("delete", "consumption", id))

Handler(t) ==
    \/ "CreateVehicle" \in Methods /\ CreateVehicle(t)
    \/ "GetVehicle" \in Methods /\ GetVehicle(t)
    \/ "UpdateVehicle" \in Methods /\ UpdateVehicle(t)
    \/ "DeleteVehicle" \in Methods /\ DeleteVehicle(t)
    \/ "CreateWeather" \in Methods /\ CreateWeather(t)
    \/ "SearchWeather" \in Methods /\ SearchWeather(t)
    \/ "SearchSourceCategory" \in Methods /\ SearchSourceCategory(t)
    \/ "CreateSourceCategory" \in Methods /\ CreateSourceCategory(t)
    \/ "CreateCharging" \in Methods /\ CreateCharging(t)
    \/ "GetCharging" \in Methods /\ GetCharging(t)
    \/ "UpdateCharging" \in Methods /\ UpdateCharging(t)
    \/ "DeleteCharging" \in Methods /\ DeleteCharging(t)
    \/ "CreateConsumption" \in Methods /\ CreateConsumption(t)
    \/ "GetConsumption" \in Methods /\ GetConsumption(t)
    \/ "UpdateConsumption" \in Methods /\ UpdateConsumption(t)
    \/ "DeleteConsumption" \in Methods /\ DeleteConsumption(t)

\* A request arrives.  The token is refused, or the handler begins.
Arrive(t) ==
    /\ pc[t] = "idle"
    /\ served[t] < MaxRpcs
    /\ durable' = [durable EXCEPT ![t] = FALSE]
    /\ body' = [body EXCEPT ![t] = {}]
    /\ \/ \E m \in Methods : Refuse(t, m, "UNAUTHENTICATED")
       \/ Handler(t)
    /\ UNCHANGED <<db, tx, served>>

-----------------------------------------------------------------------------
(***************************************************************************)
(* The rest of a handler.                                                  *)
(***************************************************************************)

\* Mutant of StatusOf: what is not recognised counts as a bad request.
StatusOfDefaultsToInvalid(answer) ==
    CASE answer = "unique_violation" -> "ALREADY_EXISTS"
      [] answer = "no row"           -> "NOT_FOUND"
      [] OTHER                       -> "INVALID_ARGUMENT"

\* ToGrpcStatus, and the handlers' own NOT_FOUND for a statement that
\* touched no row.
StatusOf(answer) ==
    CASE answer = "unique_violation"      -> "ALREADY_EXISTS"
      [] answer = "foreign_key_violation" -> "INVALID_ARGUMENT"
      [] answer = "data_exception"        -> "INVALID_ARGUMENT"
      [] answer = "no row"                -> "NOT_FOUND"
      [] OTHER                            -> "INTERNAL"

ReplyWith(t, s) ==
    /\ status' = [status EXCEPT ![t] = s]
    /\ pc' = [pc EXCEPT ![t] = "reply"]

\* SELECT ... WHERE Id = $1 in a nontransaction.
Select(t) ==
    /\ pc[t] = "statement"
    /\ work[t].op = "get"
    /\ body' = [body EXCEPT ![t] =
                   RowsWithId(db, work[t].table, work[t].row.id)]
    /\ ReplyWith(t, IF body'[t] = {} THEN "NOT_FOUND" ELSE "OK")
    /\ UNCHANGED <<db, issued, method, work, tx, durable, served>>

\* SELECT ... WHERE Name ^@ $1: a reply without matches is OK.
SelectMatching(t) ==
    /\ pc[t] = "statement"
    /\ work[t].op = "search"
    /\ body' = [body EXCEPT ![t] = Matching(db, work[t].table,
                    work[t].row.prefix, work[t].row.limit)]
    /\ ReplyWith(t, "OK")
    /\ UNCHANGED <<db, issued, method, work, tx, durable, served>>

\* The statement changes rows.
Writes(t) == work[t].op \in {"insert", "update", "delete"}

Blocked(t) ==
    \E u \in Threads \ {t} : tx[u] # NoWrite /\ Conflict(db, work[t], tx[u])

\* Mutant of Execute: the handler answers without tx.commit().
ExecuteForgetsCommit(t) ==
    /\ pc[t] = "statement"
    /\ Writes(t)
    /\ ~Blocked(t)
    /\ Answer(db, work[t]) = "done"
    /\ body' = [body EXCEPT ![t] =
                   IF work[t].op = "delete" THEN {} ELSE {work[t].row}]
    /\ ReplyWith(t, "OK")
    /\ UNCHANGED <<db, issued, method, work, tx, durable, served>>

\* The INSERT, UPDATE or DELETE succeeds; its row is read back in the same
\* transaction (SELECT or RETURNING) for the reply.
Execute(t) ==
    /\ pc[t] = "statement"
    /\ Writes(t)
    /\ ~Blocked(t)
    /\ Answer(db, work[t]) = "done"
    /\ tx' = [tx EXCEPT ![t] = work[t]]
    /\ body' = [body EXCEPT ![t] =
                   IF work[t].op = "delete" \/ method[t] = "CreateVehicle"
                   THEN {} ELSE {work[t].row}]
    /\ pc' = [pc EXCEPT ![t] = "commit"]
    /\ UNCHANGED <<db, issued, method, work, status, durable, served>>

\* The statement finds no row or violates a constraint: the handler returns
\* an error and the transaction is rolled back.
ExecuteRefused(t) ==
    /\ pc[t] = "statement"
    /\ Writes(t)
    /\ ~Blocked(t)
    /\ Answer(db, work[t]) # "done"
    /\ ReplyWith(t, StatusOf(Answer(db, work[t])))
    /\ UNCHANGED <<db, issued, method, work, tx, body, durable, served>>

\* A value the column does not take (a malformed uuid, a text too long, a
\* number out of range, NULL): data_exception or not_null_violation.
ExecuteBadValue(t) ==
    /\ pc[t] = "statement"
    /\ work[t].op # "search"
    /\ ReplyWith(t, StatusOf("data_exception"))
    /\ UNCHANGED <<db, issued, method, work, tx, body, durable, served>>

\* Mutant of Throws: the connection goes back with its transaction open.
ThrowsWithoutRollback(t) ==
    /\ pc[t] \in {"statement", "commit", "readback"}
    /\ ReplyWith(t, StatusOf("failure"))
    /\ UNCHANGED <<db, issued, method, work, tx, body, durable, served>>

\* Any other exception: the connection, a statement the server cancels, a
\* commit that is refused.  The transaction, if any, is rolled back.
Throws(t) ==
    /\ pc[t] \in {"statement", "commit", "readback"}
    /\ ReplyWith(t, StatusOf("failure"))
    /\ tx' = [tx EXCEPT ![t] = NoWrite]
    /\ UNCHANGED <<db, issued, method, work, body, durable, served>>

\* tx.commit() returns.
Commit(t) ==
    /\ pc[t] = "commit"
    /\ db' = Apply(db, tx[t])
    /\ tx' = [tx EXCEPT ![t] = NoWrite]
    /\ durable' = [durable EXCEPT ![t] = TRUE]
    /\ IF method[t] = "CreateVehicle"
         THEN /\ pc' = [pc EXCEPT ![t] = "reauthenticate"]
              /\ UNCHANGED status
         ELSE ReplyWith(t, "OK")
    /\ UNCHANGED <<issued, method, work, body, served>>

\* The server commits, the connection fails before it can say so.
CommitInDoubt(t) ==
    /\ pc[t] = "commit"
    /\ db' = Apply(db, tx[t])
    /\ tx' = [tx EXCEPT ![t] = NoWrite]
    /\ durable' = [durable EXCEPT ![t] = TRUE]
    /\ ReplyWith(t, StatusOf("in doubt"))
    /\ UNCHANGED <<issued, method, work, body, served>>

\* GetVehicle, called by CreateVehicle, authenticates again: the token may
\* have expired, the key set may not be there.
Reauthenticate(t) ==
    /\ pc[t] = "reauthenticate"
    /\ \/ ReplyWith(t, "UNAUTHENTICATED")
       \/ /\ pc' = [pc EXCEPT ![t] = "readback"]
          /\ UNCHANGED status
    /\ UNCHANGED <<db, issued, method, work, tx, body, durable, served>>

\* GetVehicle, called by CreateVehicle, reads the committed row.
ReadBack(t) ==
    /\ pc[t] = "readback"
    /\ body' = [body EXCEPT ![t] = RowsWithId(db, "vehicle", work[t].row.id)]
    /\ ReplyWith(t, IF body'[t] = {} THEN "NOT_FOUND" ELSE "OK")
    /\ UNCHANGED <<db, issued, method, work, tx, durable, served>>

\* The reply is sent; the thread is free.
Reply(t) ==
    /\ pc[t] = "reply"
    /\ pc' = [pc EXCEPT ![t] = "idle"]
    /\ work' = [work EXCEPT ![t] = NoWork]
    /\ body' = [body EXCEPT ![t] = {}]
    /\ durable' = [durable EXCEPT ![t] = FALSE]
    /\ status' = [status EXCEPT ![t] = "OK"]
    /\ method' = [method EXCEPT ![t] = "GetVehicle"]
    /\ served' = [served EXCEPT ![t] = @ + 1]
    /\ UNCHANGED <<db, issued, tx>>

HandlerStep(t) ==
    \/ Select(t)
    \/ SelectMatching(t)
    \/ Execute(t)
    \/ ExecuteRefused(t)
    \/ Commit(t)
    \/ Reauthenticate(t)
    \/ ReadBack(t)
    \/ Reply(t)

Failure(t) ==
    \/ ExecuteBadValue(t)
    \/ Throws(t)
    \/ CommitInDoubt(t)

Quiet ==
    /\ \A t \in Threads : pc[t] = "idle" /\ served[t] = MaxRpcs
    /\ UNCHANGED vars

Next ==
    \/ \E t \in Threads : Arrive(t) \/ HandlerStep(t) \/ Failure(t)
    \/ Quiet

(***************************************************************************)
(* Fairness: a handler that can go on goes on.  A statement that waits for *)
(* another transaction goes on when that one has ended.  Nothing has to    *)
(* fail.                                                                   *)
(***************************************************************************)
Spec ==
    /\ Init
    /\ [][Next]_vars
    /\ \A t \in Threads : WF_vars(HandlerStep(t))

-----------------------------------------------------------------------------

\* The schema's promises survive concurrent handlers: no two rows of a table
\* share an id or a UNIQUE value, and every reference leads to a row (a
\* vehicle is never deleted under a charging that is being created).
TablesConsistent == Consistent(db)

\* An OK is true: a write that was answered OK is committed, and the row in
\* the reply is the row the handler wrote (CreateVehicle reads it back after
\* the commit, when others may have changed it).
OkIsDurable ==
    \A t \in Threads :
        pc[t] = "reply" /\ status[t] = "OK" /\ Writes(t) =>
            /\ durable[t]
            /\ method[t] # "CreateVehicle" /\ work[t].op # "delete" =>
                 body[t] = {work[t].row}
            /\ method[t] = "CreateVehicle" =>
                 \E r \in body[t] : r.id = work[t].row.id

\* A refusal is true: an RPC other than CreateVehicle that was answered with
\* anything but OK and INTERNAL has changed nothing.
RefusalHasNoEffect ==
    \A t \in Threads :
        /\ pc[t] = "reply"
        /\ status[t] \notin {"OK", "INTERNAL"}
        /\ method[t] # "CreateVehicle"
        => ~durable[t]

\* Every RPC is answered: no two handlers wait for each other's transactions.
EveryRpcIsAnswered ==
    \A t \in Threads : pc[t] # "idle" ~> pc[t] = "idle"

\* The design promises that a request without a valid token returns
\* UNAUTHENTICATED before it reaches the handler: such a request has changed
\* nothing.
UnauthenticatedHasNoEffect ==
    \A t \in Threads :
        pc[t] = "reply" /\ status[t] = "UNAUTHENTICATED" => ~durable[t]

=============================================================================
