------------------------- MODULE CrudServicesProofs -------------------------
(***************************************************************************)
(* Proofs about the handlers that read and write records (CrudServices),   *)
(* for every number of handler threads, every set of methods and every     *)
(* database that satisfies its schema at the start.                        *)
(*                                                                         *)
(* The first part is about one database and the writes that are open on    *)
(* it: a committed write keeps the schema's constraints (ApplyConsistent), *)
(* and it invalidates no other open write that does not conflict with it   *)
(* (ApplyAnswer, ApplyConflict).  The second part is about the handlers.   *)
(***************************************************************************)
EXTENDS CrudServices, TLAPS

\* Only the child tables reference, and only named tables are referenced.
LEMMA ParentsFacts ==
    /\ \A x \in Tables : Parents(x) \subseteq NamedTables
    /\ \A x \in Tables : Parents(x) # {} => x \in ChildTables
    /\ \A x \in NamedTables : Parents(x) = {}
    /\ NamedTables \subseteq Tables /\ ChildTables \subseteq Tables
    /\ NamedTables \cap ChildTables = {}
  BY DEF Parents, Tables, NamedTables, ChildTables

\* The fields of a row of a table.
LEMMA RowFacts ==
    ASSUME NEW x \in Tables, NEW r \in Rows(x)
    PROVE  /\ r.id \in Ids
           /\ r.refs \in [Parents(x) -> Ids]
           /\ r \in AnyRow
  BY DEF Rows, AnyRow

\* The tables after a write: those it does not write are unchanged.
LEMMA ApplyFacts ==
    ASSUME NEW d \in Databases, NEW w \in AnyWrite, w.row \in Rows(w.table)
    PROVE  /\ Apply(d, w) \in Databases
           /\ \A x \in Tables : x # w.table => Apply(d, w)[x] = d[x]
           /\ w.op = "delete" =>
                Apply(d, w)[w.table] = { r \in d[w.table] : r.id # w.row.id }
           /\ w.op # "delete" =>
                Apply(d, w)[w.table] =
                    { r \in d[w.table] : r.id # w.row.id } \cup {w.row}
<1>1. w.table \in Tables
  BY DEF AnyWrite
<1>2. /\ d \in [Tables -> SUBSET AnyRow]
      /\ \A x \in Tables : d[x] \subseteq Rows(x)
  BY DEF Databases, AnyRow
<1>3. w.row \in AnyRow
  BY <1>1, RowFacts
<1> DEFINE e == Apply(d, w)
<1>4. /\ \A x \in Tables : x # w.table => e[x] = d[x]
      /\ w.op = "delete" =>
           e[w.table] = { r \in d[w.table] : r.id # w.row.id }
      /\ w.op # "delete" =>
           e[w.table] = { r \in d[w.table] : r.id # w.row.id } \cup {w.row}
  BY <1>1, <1>2 DEF Apply
<1>5. e \in [Tables -> SUBSET AnyRow]
  BY <1>1, <1>2, <1>3 DEF Apply
<1>6. \A x \in Tables : e[x] \subseteq Rows(x)
  BY <1>1, <1>2, <1>4
<1>7. e \in Databases
  BY <1>5, <1>6 DEF Databases, AnyRow
<1> QED
  BY <1>4, <1>7

\* What it means that a statement succeeded.
LEMMA DoneFacts ==
    ASSUME NEW d, NEW w \in AnyWrite
    PROVE  Answer(d, w) = "done" <=>
           /\ w.op # "insert" => RowsWithId(d, w.table, w.row.id) # {}
           /\ w.op # "delete" => ~Duplicate(d, w) /\ ~Dangling(d, w)
           /\ w.op = "delete" => ~Referenced(d, w.table, w.row.id)
  BY DEF Answer, AnyWrite

\* Whether two writes conflict does not depend on their order.
LEMMA ConflictSymmetric ==
    ASSUME NEW d, NEW v, NEW w, Conflict(d, v, w)
    PROVE  Conflict(d, w, v)
  BY DEF Conflict

\* A commit keeps the constraints of the schema.
LEMMA ApplyConsistent ==
    ASSUME NEW d \in Databases, Consistent(d),
           NEW w \in AnyWrite, w.row \in Rows(w.table), Answer(d, w) = "done"
    PROVE  Consistent(Apply(d, w))
<1> DEFINE e == Apply(d, w)
<1>0. /\ w.table \in Tables
      /\ w.op \in {"insert", "update", "delete"}
      /\ \A x \in Tables : d[x] \subseteq Rows(x)
  BY DEF AnyWrite, Databases
<1>1. /\ \A x \in Tables : x # w.table => e[x] = d[x]
      /\ w.op = "delete" =>
           e[w.table] = { r \in d[w.table] : r.id # w.row.id }
      /\ w.op # "delete" =>
           e[w.table] = { r \in d[w.table] : r.id # w.row.id } \cup {w.row}
  BY ApplyFacts
<1>2. /\ w.op # "delete" => ~Duplicate(d, w) /\ ~Dangling(d, w)
      /\ w.op = "delete" => ~Referenced(d, w.table, w.row.id)
  BY DoneFacts
<1> HIDE DEF e
<1>3. ASSUME NEW x \in Tables, NEW r \in e[x], NEW s \in e[x], r.id = s.id
      PROVE  r = s
  BY <1>0, <1>1, <1>3 DEF Consistent
<1>4. ASSUME NEW x \in NamedTables, NEW r \in e[x], NEW s \in e[x],
             r.key = s.key
      PROVE  r = s
  <2>1. x \in Tables
    BY ParentsFacts
  <2>2. CASE x # w.table
    BY <1>1, <1>4, <2>1, <2>2 DEF Consistent
  <2>3. CASE r \in d[x] /\ s \in d[x]
    BY <1>4, <2>1, <2>3 DEF Consistent
  <2>4. CASE x = w.table /\ w.op # "delete" /\ (r = w.row \/ s = w.row)
    BY <1>1, <1>2, <1>4, <2>4 DEF Duplicate
  <2> QED
    BY <1>1, <2>1, <2>2, <2>3, <2>4
<1>5. ASSUME NEW x \in Tables, NEW r \in e[x], NEW p \in Parents(x)
      PROVE  RowsWithId(e, p, r.refs[p]) # {}
  <2>1. p \in NamedTables /\ p \in Tables /\ x \in ChildTables /\ p # x
    BY ParentsFacts
  <2>2. CASE r \in d[x]
    <3>1. PICK q \in d[p] : q.id = r.refs[p]
      BY <2>1, <2>2 DEF Consistent, RowsWithId
    <3>2. CASE p # w.table \/ q.id # w.row.id
      BY <1>1, <2>1, <3>1, <3>2 DEF RowsWithId
    <3>3. CASE p = w.table /\ q.id = w.row.id
      <4>1. Referenced(d, w.table, w.row.id)
        BY <2>1, <2>2, <3>1, <3>3 DEF Referenced
      <4>2. w.op # "delete"
        BY <1>2, <4>1
      <4> QED
        BY <1>1, <3>1, <3>3, <4>2 DEF RowsWithId
    <3> QED
      BY <3>2, <3>3
  <2>3. CASE x = w.table /\ w.op # "delete" /\ r = w.row
    <3>1. RowsWithId(d, p, r.refs[p]) # {}
      BY <1>2, <2>3 DEF Dangling
    <3> QED
      BY <1>1, <2>1, <2>3, <3>1 DEF RowsWithId
  <2> QED
    BY <1>1, <2>2, <2>3
<1> QED
  BY <1>3, <1>4, <1>5 DEF Consistent, e

\* A commit does not change the rows that a write which does not conflict
\* with it touches.
LEMMA ApplyTouched ==
    ASSUME NEW d \in Databases,
           NEW w \in AnyWrite, w.row \in Rows(w.table),
           NEW v \in AnyWrite, v.row \in Rows(v.table), ~Conflict(d, v, w)
    PROVE  /\ RowsWithId(Apply(d, w), v.table, v.row.id)
                = RowsWithId(d, v.table, v.row.id)
           /\ RowsTouched(Apply(d, w), v) = RowsTouched(d, v)
<1>1. v.table \in Tables /\ (v.table # w.table \/ v.row.id # w.row.id)
  BY DEF AnyWrite, Conflict
<1>2. RowsWithId(Apply(d, w), v.table, v.row.id)
        = RowsWithId(d, v.table, v.row.id)
  BY <1>1, ApplyFacts DEF RowsWithId
<1> QED
  BY <1>2 DEF RowsTouched

\* A commit leaves two other writes as they were to each other.
LEMMA ApplyConflict ==
    ASSUME NEW d \in Databases,
           NEW w \in AnyWrite, w.row \in Rows(w.table),
           NEW u \in AnyWrite, u.row \in Rows(u.table), ~Conflict(d, u, w),
           NEW v \in AnyWrite, v.row \in Rows(v.table), ~Conflict(d, v, w),
           ~Conflict(d, u, v)
    PROVE  ~Conflict(Apply(d, w), u, v)
  BY ApplyTouched DEF Conflict, RefersTo

\* A statement that succeeded stays right when another transaction that does
\* not conflict with it is committed: it may commit after it.
LEMMA ApplyAnswer ==
    ASSUME NEW d \in Databases,
           NEW w \in AnyWrite, w.row \in Rows(w.table), Answer(d, w) = "done",
           NEW v \in AnyWrite, v.row \in Rows(v.table), Answer(d, v) = "done",
           ~Conflict(d, v, w)
    PROVE  Answer(Apply(d, w), v) = "done"
<1> DEFINE e == Apply(d, w)
<1>0. /\ w.table \in Tables /\ v.table \in Tables
      /\ w.row \in RowsTouched(d, w) \/ w.op = "delete"
      /\ v.row \in RowsTouched(d, v) \/ v.op = "delete"
  BY DEF AnyWrite, RowsTouched
<1>1. /\ \A x \in Tables : x # w.table => e[x] = d[x]
      /\ w.op = "delete" =>
           e[w.table] = { r \in d[w.table] : r.id # w.row.id }
      /\ w.op # "delete" =>
           e[w.table] = { r \in d[w.table] : r.id # w.row.id } \cup {w.row}
  BY ApplyFacts
<1>2. /\ v.op # "insert" => RowsWithId(d, v.table, v.row.id) # {}
      /\ v.op # "delete" => ~Duplicate(d, v) /\ ~Dangling(d, v)
      /\ v.op = "delete" => ~Referenced(d, v.table, v.row.id)
  BY DoneFacts
<1>3. v.op # "insert" => RowsWithId(e, v.table, v.row.id) # {}
  BY <1>2, ApplyTouched
<1> HIDE DEF e
<1>4. ASSUME v.op # "delete", Duplicate(e, v) PROVE FALSE
  <2>1. PICK r \in e[v.table] : r.key = v.row.key /\ r.id # v.row.id
    BY <1>4 DEF Duplicate
  <2>2. r \notin d[v.table]
    BY <1>2, <1>4, <2>1 DEF Duplicate
  <2>3. v.table = w.table /\ w.op # "delete" /\ r = w.row
    BY <1>0, <1>1, <2>1, <2>2
  <2> QED
    BY <1>0, <1>4, <2>1, <2>3 DEF Conflict, Duplicate
<1>5. ASSUME v.op # "delete", Dangling(e, v) PROVE FALSE
  <2>1. PICK p \in Parents(v.table) : RowsWithId(e, p, v.row.refs[p]) = {}
    BY <1>5 DEF Dangling
  <2>2. p \in Tables
    BY <1>0, ParentsFacts
  <2>3. PICK q \in d[p] : q.id = v.row.refs[p]
    BY <1>2, <1>5, <2>1 DEF Dangling, RowsWithId
  <2>4. p = w.table /\ q.id = w.row.id
    BY <1>1, <2>1, <2>2, <2>3 DEF RowsWithId
  <2> QED
    BY <1>0, <1>5, <2>1, <2>3, <2>4 DEF Conflict, RefersTo
<1>6. ASSUME v.op = "delete", Referenced(e, v.table, v.row.id) PROVE FALSE
  <2>0. PICK c \in ChildTables :
           /\ v.table \in Parents(c)
           /\ \E r \in e[c] : r.refs[v.table] = v.row.id
    BY <1>6 DEF Referenced
  <2>1. PICK r \in e[c] : r.refs[v.table] = v.row.id
    BY <2>0
  <2>2. c \in Tables /\ r \notin d[c]
    BY <1>2, <1>6, <2>0, <2>1, ParentsFacts DEF Referenced
  <2>3. c = w.table /\ w.op # "delete" /\ r = w.row
    BY <1>1, <2>1, <2>2
  <2> QED
    BY <1>0, <2>0, <2>1, <2>3 DEF Conflict, RefersTo
<1> QED
  BY <1>3, <1>4, <1>5, <1>6, DoneFacts DEF e

-----------------------------------------------------------------------------

\* The statements a handler may run.
Works ==
    AnyWrite
        \cup [op : {"get"}, table : Tables, row : AnyRow \cup {NoWrite}]
        \cup [op : {"search"}, table : Tables,
              row : [prefix : SUBSET Names, limit : Int]]

\* A statement whose row, if it writes one, is a row of its table.
WorkOK(w) ==
    /\ w \in Works
    /\ w.op \in {"insert", "update", "delete"} => w.row \in Rows(w.table)

\* The types of all variables.
Typed ==
    /\ TypeOK
    /\ db \in Databases
    /\ tx \in [Threads -> AnyWrite \cup {NoWrite}]
    /\ body \in [Threads -> SUBSET AnyRow]
    /\ work \in [Threads -> Works]
    /\ \A t \in Threads : WorkOK(work[t])

\* What a thread's place in its handler says about its transaction, its reply
\* and whether its write is committed.
HandlerInv(t) ==
    /\ pc[t] # "idle" => served[t] < MaxRpcs
    /\ pc[t] = "commit" <=> tx[t] # NoWrite
    /\ pc[t] = "commit" =>
         /\ Writes(t) /\ tx[t] = work[t]
         /\ work[t].op # "delete" /\ method[t] # "CreateVehicle" =>
              body[t] = {work[t].row}
    /\ pc[t] \in {"statement", "commit"} => ~durable[t]
    /\ pc[t] \in {"reauthenticate", "readback"} =>
         durable[t] /\ method[t] = "CreateVehicle"

\* Every open transaction could commit now, and no two conflict: the order in
\* which they commit does not matter to the constraints.
OpenInv ==
    /\ \A t \in Threads : tx[t] # NoWrite => Answer(db, tx[t]) = "done"
    /\ \A t, u \in Threads :
         t # u /\ tx[t] # NoWrite /\ tx[u] # NoWrite
            => ~Conflict(db, tx[t], tx[u])

CrudInv ==
    /\ Typed
    /\ \A t \in Threads : HandlerInv(t)
    /\ OpenInv
    /\ TablesConsistent
    /\ OkIsDurable
    /\ RefusalHasNoEffect

\* A row of a named table has no references.
LEMMA NamedRow ==
    ASSUME NEW x \in NamedTables, NEW id \in Ids, NEW n \in Names
    PROVE  [id |-> id, key |-> n, refs |-> NoRefs] \in Rows(x)
<1>1. NoRefs \in [Parents(x) -> Ids]
  BY ParentsFacts DEF NoRefs
<1> QED
  BY <1>1 DEF Rows

\* A row of a child table has no name.
LEMMA ChildRow ==
    ASSUME NEW x \in ChildTables, NEW id \in Ids,
           NEW refs \in [Parents(x) -> Ids]
    PROVE  [id |-> id, key |-> NoName, refs |-> refs] \in Rows(x)
  BY ParentsFacts DEF Rows

\* A write of a row of its table.
LEMMA WriteOK ==
    ASSUME NEW op \in {"insert", "update", "delete"}, NEW x \in Tables,
           NEW r \in Rows(x)
    PROVE  WorkOK(Write(op, x, r))
  BY RowFacts DEF WorkOK, Write, Works, AnyWrite

\* Get and Delete name some row with the id.
LEMMA ByIdOK ==
    ASSUME NEW op \in {"get", "delete"}, NEW x \in Tables, NEW id \in Ids
    PROVE  WorkOK(ById(op, x, id))
<1>1. \E r \in Rows(x) : r.id = id
  <2>1. CASE x \in NamedTables
    <3>1. PICK n \in Names : TRUE
      BY CrudAssumption
    <3> QED
      BY <2>1, <3>1, NamedRow
  <2>2. CASE x \in ChildTables
    <3>1. [p \in Parents(x) |-> id] \in [Parents(x) -> Ids]
      OBVIOUS
    <3> QED
      BY <2>2, <3>1, ChildRow
  <2> QED
    BY <2>1, <2>2 DEF Tables
<1> DEFINE r == CHOOSE q \in Rows(x) : q.id = id
<1>2. r \in Rows(x)
  BY <1>1
<1>3. ById(op, x, id) = Write(op, x, r)
  BY DEF ById
<1> HIDE DEF r
<1>4. CASE op = "get"
  BY <1>2, <1>3, <1>4, RowFacts DEF WorkOK, Works, Write
<1>5. CASE op = "delete"
  BY <1>2, <1>3, <1>5, WriteOK
<1> QED
  BY <1>4, <1>5

\* The beginning of a handler, whatever its method: it is refused, or it has
\* a statement to run.
Begins(t) ==
    /\ issued' \subseteq Ids
    /\ method' \in [Threads -> AllMethods]
    /\ \E m : method' = [method EXCEPT ![t] = m]
    /\ \/ /\ \E w : WorkOK(w) /\ work' = [work EXCEPT ![t] = w]
          /\ pc' = [pc EXCEPT ![t] = "statement"]
          /\ UNCHANGED status
       \/ /\ \E s \in {"UNAUTHENTICATED", "INVALID_ARGUMENT"} :
               status' = [status EXCEPT ![t] = s]
          /\ pc' = [pc EXCEPT ![t] = "reply"]
          /\ UNCHANGED work

\* A refused request begins and ends.
LEMMA RefuseBegins ==
    ASSUME Typed, NEW t \in Threads, NEW m \in AllMethods,
           NEW s \in {"UNAUTHENTICATED", "INVALID_ARGUMENT"}, Refuse(t, m, s)
    PROVE  Begins(t)
  BY DEF Typed, TypeOK, Refuse, Begins

\* A handler that reads, updates or deletes.
LEMMA PrepareBegins ==
    ASSUME Typed, NEW t \in Threads, NEW m \in AllMethods, NEW w, WorkOK(w),
           Prepare(t, m, w)
    PROVE  Begins(t)
  BY DEF Typed, TypeOK, Prepare, Begins

\* A handler that inserts a row with a new UUID.
LEMMA InsertBegins ==
    ASSUME Typed, NEW t \in Threads, NEW m \in AllMethods, NEW x \in Tables,
           NEW key, NEW refs,
           \A id \in Ids : [id |-> id, key |-> key, refs |-> refs] \in Rows(x),
           PrepareInsert(t, m, x, key, refs)
    PROVE  Begins(t)
<1>1. PICK id \in Ids \ issued :
         /\ method' = [method EXCEPT ![t] = m]
         /\ work' = [work EXCEPT ![t] = Write("insert", x,
                        [id |-> id, key |-> key, refs |-> refs])]
         /\ issued' = issued \cup {id}
         /\ pc' = [pc EXCEPT ![t] = "statement"]
         /\ UNCHANGED status
  BY DEF PrepareInsert
<1>2. WorkOK(Write("insert", x, [id |-> id, key |-> key, refs |-> refs]))
  BY WriteOK
<1>3. issued' \subseteq Ids /\ method' \in [Threads -> AllMethods]
  BY <1>1 DEF Typed, TypeOK
<1> QED
  BY <1>1, <1>2, <1>3 DEF Begins

\* The references a request may carry are ids, one for each parent table.
LEMMA ReferencesFacts ==
    ASSUME Typed, NEW x \in Tables, NEW refs \in References(x)
    PROVE  refs \in [Parents(x) -> Ids]
  BY DEF Typed, TypeOK, References

\* Every handler begins in one of the two ways.
LEMMA HandlerBegins ==
    ASSUME Typed, NEW t \in Threads, Handler(t)
    PROVE  Begins(t)
<1>0. /\ issued \subseteq Ids
      /\ {"vehicle", "weather", "source_category"} \subseteq NamedTables
      /\ {"charging", "consumption"} \subseteq ChildTables
      /\ NamedTables \subseteq Tables /\ ChildTables \subseteq Tables
  BY DEF Typed, TypeOK, NamedTables, ChildTables, Tables
<1> USE DEF AllMethods
<1>1. CASE CreateVehicle(t)
  <2>1. PICK n \in Names : PrepareInsert(t, "CreateVehicle", "vehicle", n, NoRefs)
    BY <1>1 DEF CreateVehicle
  <2>2. \A id \in Ids :
           [id |-> id, key |-> n, refs |-> NoRefs] \in Rows("vehicle")
    BY <1>0, NamedRow
  <2> QED
    BY <1>0, <2>1, <2>2, InsertBegins
<1>2. CASE CreateWeather(t)
  <2>1. PICK n \in Names : PrepareInsert(t, "CreateWeather", "weather", n, NoRefs)
    BY <1>2 DEF CreateWeather
  <2>2. \A id \in Ids :
           [id |-> id, key |-> n, refs |-> NoRefs] \in Rows("weather")
    BY <1>0, NamedRow
  <2> QED
    BY <1>0, <2>1, <2>2, InsertBegins
<1>3. CASE CreateSourceCategory(t)
  <2>1. PICK n \in Names : PrepareInsert(t, "CreateSourceCategory", "source_category", n, NoRefs)
    BY <1>3 DEF CreateSourceCategory
  <2>2. \A id \in Ids :
           [id |-> id, key |-> n, refs |-> NoRefs] \in Rows("source_category")
    BY <1>0, NamedRow
  <2> QED
    BY <1>0, <2>1, <2>2, InsertBegins
<1>4. CASE GetVehicle(t)
  <2>1. PICK id \in issued : Prepare(t, "GetVehicle", ById("get", "vehicle", id))
    BY <1>4 DEF GetVehicle
  <2> QED
    BY <1>0, <2>1, ByIdOK, PrepareBegins
<1>5. CASE DeleteVehicle(t)
  <2>1. PICK id \in issued : Prepare(t, "DeleteVehicle", ById("delete", "vehicle", id))
    BY <1>5 DEF DeleteVehicle
  <2> QED
    BY <1>0, <2>1, ByIdOK, PrepareBegins
<1>6. CASE GetCharging(t)
  <2>1. PICK id \in issued : Prepare(t, "GetCharging", ById("get", "charging", id))
    BY <1>6 DEF GetCharging
  <2> QED
    BY <1>0, <2>1, ByIdOK, PrepareBegins
<1>7. CASE DeleteCharging(t)
  <2>1. PICK id \in issued : Prepare(t, "DeleteCharging", ById("delete", "charging", id))
    BY <1>7 DEF DeleteCharging
  <2> QED
    BY <1>0, <2>1, ByIdOK, PrepareBegins
<1>8. CASE GetConsumption(t)
  <2>1. PICK id \in issued : Prepare(t, "GetConsumption", ById("get", "consumption", id))
    BY <1>8 DEF GetConsumption
  <2> QED
    BY <1>0, <2>1, ByIdOK, PrepareBegins
<1>9. CASE DeleteConsumption(t)
  <2>1. PICK id \in issued : Prepare(t, "DeleteConsumption", ById("delete", "consumption", id))
    BY <1>9 DEF DeleteConsumption
  <2> QED
    BY <1>0, <2>1, ByIdOK, PrepareBegins
<1>10. CASE UpdateVehicle(t)
  <2>1. PICK id \in issued, n \in Names :
           Prepare(t, "UpdateVehicle",
                   Write("update", "vehicle", RowOf(id, n, NoRefs)))
    BY <1>10 DEF UpdateVehicle
  <2>2. WorkOK(Write("update", "vehicle", RowOf(id, n, NoRefs)))
    BY <1>0, NamedRow, WriteOK DEF RowOf
  <2> QED
    BY <2>1, <2>2, PrepareBegins
<1>11. CASE CreateCharging(t)
  <2>1. PICK refs \in References("charging") :
           \/ Refuse(t, "CreateCharging", "INVALID_ARGUMENT")
           \/ PrepareInsert(t, "CreateCharging", "charging", NoName, refs)
    BY <1>11 DEF CreateCharging, Validated
  <2>2. refs \in [Parents("charging") -> Ids]
    BY <1>0, ReferencesFacts
  <2>3. \A id \in Ids :
           [id |-> id, key |-> NoName, refs |-> refs] \in Rows("charging")
    BY <1>0, <2>2, ChildRow
  <2>4. CASE Refuse(t, "CreateCharging", "INVALID_ARGUMENT")
    BY <2>4, RefuseBegins
  <2>5. CASE PrepareInsert(t, "CreateCharging", "charging", NoName, refs)
    BY <1>0, <2>3, <2>5, InsertBegins
  <2> QED
    BY <2>1, <2>4, <2>5
<1>12. CASE CreateConsumption(t)
  <2>1. PICK refs \in References("consumption") :
           \/ Refuse(t, "CreateConsumption", "INVALID_ARGUMENT")
           \/ PrepareInsert(t, "CreateConsumption", "consumption", NoName, refs)
    BY <1>12 DEF CreateConsumption, Validated
  <2>2. refs \in [Parents("consumption") -> Ids]
    BY <1>0, ReferencesFacts
  <2>3. \A id \in Ids :
           [id |-> id, key |-> NoName, refs |-> refs] \in Rows("consumption")
    BY <1>0, <2>2, ChildRow
  <2>4. CASE Refuse(t, "CreateConsumption", "INVALID_ARGUMENT")
    BY <2>4, RefuseBegins
  <2>5. CASE PrepareInsert(t, "CreateConsumption", "consumption", NoName, refs)
    BY <1>0, <2>3, <2>5, InsertBegins
  <2> QED
    BY <2>1, <2>4, <2>5
<1>13. CASE UpdateCharging(t)
  <2>1. PICK id \in issued, refs \in References("charging") :
           \/ Refuse(t, "UpdateCharging", "INVALID_ARGUMENT")
           \/ Prepare(t, "UpdateCharging",
                      Write("update", "charging", RowOf(id, NoName, refs)))
    BY <1>13 DEF UpdateCharging, Validated
  <2>2. refs \in [Parents("charging") -> Ids]
    BY <1>0, ReferencesFacts
  <2>3. WorkOK(Write("update", "charging", RowOf(id, NoName, refs)))
    BY <1>0, <2>2, ChildRow, WriteOK DEF RowOf
  <2> QED
    BY <2>1, <2>3, RefuseBegins, PrepareBegins
<1>14. CASE UpdateConsumption(t)
  <2>1. PICK id \in issued, refs \in References("consumption") :
           \/ Refuse(t, "UpdateConsumption", "INVALID_ARGUMENT")
           \/ Prepare(t, "UpdateConsumption",
                      Write("update", "consumption", RowOf(id, NoName, refs)))
    BY <1>14 DEF UpdateConsumption, Validated
  <2>2. refs \in [Parents("consumption") -> Ids]
    BY <1>0, ReferencesFacts
  <2>3. WorkOK(Write("update", "consumption", RowOf(id, NoName, refs)))
    BY <1>0, <2>2, ChildRow, WriteOK DEF RowOf
  <2> QED
    BY <2>1, <2>3, RefuseBegins, PrepareBegins
<1>15. ASSUME NEW m \in AllMethods, NEW x \in Tables, Search(t, m, x)
      PROVE  Begins(t)
  <2>1. PICK prefix \in SUBSET Names, limit \in Limits :
           Prepare(t, m, Write("search", x,
                           [prefix |-> prefix, limit |-> SearchLimit(limit)]))
    BY <1>15 DEF Search
  <2>2. SearchLimit(limit) \in Int
    BY CrudAssumption DEF SearchLimit
  <2>3. WorkOK(Write("search", x,
                 [prefix |-> prefix, limit |-> SearchLimit(limit)]))
    BY <2>2 DEF WorkOK, Works, Write
  <2> QED
    BY <2>1, <2>3, PrepareBegins
<1>16. CASE SearchWeather(t) \/ SearchSourceCategory(t)
  BY <1>0, <1>15, <1>16 DEF SearchWeather, SearchSourceCategory
<1> QED
  BY <1>1, <1>2, <1>3, <1>4, <1>5, <1>6, <1>7, <1>8, <1>9,
     <1>10, <1>11, <1>12, <1>13, <1>14, <1>16
     DEF Handler

\* ToGrpcStatus never makes an OK of an error, and an error it does not know
\* is INTERNAL.
LEMMA StatusFacts ==
    /\ \A a : StatusOf(a) \in Statuses \ {"OK"}
    /\ StatusOf("failure") = "INTERNAL"
    /\ StatusOf("in doubt") = "INTERNAL"
  BY DEF StatusOf, Statuses

\* Rows that are read are rows.
LEMMA ReadFacts ==
    ASSUME Typed, NEW x \in Tables
    PROVE  /\ \A id : RowsWithId(db, x, id) \subseteq AnyRow
           /\ \A prefix, n : Matching(db, x, prefix, n) \subseteq AnyRow
<1>1. db[x] \subseteq AnyRow
  BY DEF Typed, Databases, AnyRow
<1> QED
  BY <1>1 DEF RowsWithId, Matching

\* A statement that writes is a write of a row of its table.
LEMMA WritesFacts ==
    ASSUME Typed, NEW t \in Threads, Writes(t)
    PROVE  /\ work[t] \in AnyWrite
           /\ work[t].row \in Rows(work[t].table)
           /\ work[t].row \in AnyRow
           /\ work[t] # NoWrite
<1>1. WorkOK(work[t]) /\ work[t].op \in {"insert", "update", "delete"}
  BY DEF Typed, Writes
<1>2. work[t] \in AnyWrite
  BY <1>1 DEF WorkOK, Works
<1> QED
  BY <1>1, <1>2, CrudAssumption, RowFacts DEF WorkOK, AnyWrite

\* Every thread's statement names a table.
LEMMA WorkTable ==
    ASSUME Typed, NEW t \in Threads
    PROVE  work[t].table \in Tables
<1>1. work[t] \in Works
  BY DEF Typed
<1> QED
  BY <1>1 DEF Works, AnyWrite

\* The state of a server that has not served an RPC.
LEMMA InitCrudInv == Init => CrudInv
<1> SUFFICES ASSUME Init PROVE CrudInv
  OBVIOUS
<1> USE DEF Init
<1>1. /\ db \in Databases /\ \A x \in Tables : db[x] \subseteq Rows(x)
      /\ TablesConsistent
  BY CrudAssumption DEF Databases, TablesConsistent
<1>2. issued \subseteq Ids
  BY <1>1, RowFacts
<1>3. NoWork \in Works /\ WorkOK(NoWork)
  BY DEF NoWork, Write, Works, WorkOK, Tables, NamedTables
<1>4. TypeOK
  BY <1>1, <1>2, CrudAssumption DEF TypeOK, PCs, AllMethods, Statuses
<1>5. Typed
  BY <1>1, <1>3, <1>4 DEF Typed
<1>6. \A t \in Threads : HandlerInv(t)
  BY DEF HandlerInv
<1>7. OpenInv /\ OkIsDurable /\ RefusalHasNoEffect
  BY DEF OpenInv, OkIsDurable, RefusalHasNoEffect
<1> QED
  BY <1>1, <1>5, <1>6, <1>7 DEF CrudInv

\* The commit of an open transaction leaves a well-typed database.
LEMMA CommitTyped ==
    ASSUME CrudInv, NEW t \in Threads, pc[t] = "commit"
    PROVE  /\ tx[t] \in AnyWrite /\ tx[t].row \in Rows(tx[t].table)
           /\ Answer(db, tx[t]) = "done"
           /\ Apply(db, tx[t]) \in Databases
<1>1. tx[t] = work[t] /\ Writes(t) /\ tx[t] # NoWrite
  BY DEF CrudInv, HandlerInv
<1>2. tx[t] \in AnyWrite /\ tx[t].row \in Rows(tx[t].table)
  BY <1>1, WritesFacts DEF CrudInv
<1> QED
  BY <1>1, <1>2, ApplyFacts DEF CrudInv, Typed, OpenInv

\* The request of a thread that has none begins.
LEMMA ArriveBegins ==
    ASSUME Typed, NEW t \in Threads, Arrive(t)
    PROVE  Begins(t)
<1>1. CASE \E m \in Methods : Refuse(t, m, "UNAUTHENTICATED")
  BY <1>1, CrudAssumption, RefuseBegins
<1>2. CASE Handler(t)
  BY <1>2, HandlerBegins
<1> QED
  BY <1>1, <1>2 DEF Arrive

\* Every step keeps the types.
LEMMA NextTyped == CrudInv /\ [Next]_vars => Typed'
<1> SUFFICES ASSUME CrudInv, [Next]_vars PROVE Typed'
  OBVIOUS
<1>0. Typed /\ \A t \in Threads : HandlerInv(t)
  BY DEF CrudInv
<1>1. ASSUME NEW t \in Threads, Arrive(t) PROVE Typed'
  <2>1. Begins(t)
    BY <1>0, <1>1, ArriveBegins
  <2>2. /\ pc' \in [Threads -> PCs] /\ status' \in [Threads -> Statuses]
        /\ durable' \in [Threads -> BOOLEAN]
        /\ body' \in [Threads -> SUBSET AnyRow]
    BY <1>0, <1>1, <2>1 DEF Arrive, Begins, Typed, TypeOK, PCs, Statuses
  <2>3. /\ work' \in [Threads -> Works]
        /\ \A u \in Threads : WorkOK(work'[u])
    BY <1>0, <2>1 DEF Begins, Typed, WorkOK
  <2> QED
    BY <1>0, <1>1, <2>1, <2>2, <2>3 DEF Arrive, Begins, Typed, TypeOK
<1>2. ASSUME NEW t \in Threads, Select(t) \/ SelectMatching(t) \/ ReadBack(t)
      PROVE  Typed'
  <2>1. body' \in [Threads -> SUBSET AnyRow]
    <3>1. "vehicle" \in Tables
      BY DEF Tables, NamedTables
    <3> QED
      BY <1>0, <1>2, <3>1, WorkTable, ReadFacts
         DEF Select, SelectMatching, ReadBack, Typed
  <2>2. /\ pc' \in [Threads -> PCs] /\ status' \in [Threads -> Statuses]
    BY <1>0, <1>2 DEF Select, SelectMatching, ReadBack, ReplyWith, Typed, TypeOK,
                      PCs, Statuses
  <2>3. UNCHANGED <<db, issued, method, work, tx, durable, served>>
    BY <1>2 DEF Select, SelectMatching, ReadBack
  <2> QED
    BY <1>0, <2>1, <2>2, <2>3 DEF Typed, TypeOK, WorkOK
<1>3. ASSUME NEW t \in Threads, Execute(t) PROVE Typed'
  <2>1. Writes(t)
    BY <1>3 DEF Execute
  <2>2. /\ work[t] \in AnyWrite /\ work[t].row \in AnyRow
        /\ work[t].row \in Rows(work[t].table)
    BY <1>0, <2>1, WritesFacts
  <2>3. /\ tx' \in [Threads -> AnyWrite \cup {NoWrite}]
        /\ body' \in [Threads -> SUBSET AnyRow]
        /\ pc' \in [Threads -> PCs]
    BY <1>0, <1>3, <2>2 DEF Execute, Typed, TypeOK, PCs
  <2>4. \A u \in Threads : tx'[u] = NoWrite \/ tx'[u].row \in Rows(tx'[u].table)
    BY <1>0, <1>3, <2>2 DEF Execute, Typed, TypeOK
  <2>5. UNCHANGED <<db, issued, method, work, status, durable, served>>
    BY <1>3 DEF Execute
  <2> QED
    BY <1>0, <2>3, <2>4, <2>5 DEF Typed, TypeOK, WorkOK
<1>4. ASSUME NEW t \in Threads, ExecuteRefused(t) \/ ExecuteBadValue(t)
      PROVE  Typed'
  <2>0. PICK s \in Statuses : ReplyWith(t, s)
    BY <1>4, StatusFacts DEF ExecuteRefused, ExecuteBadValue
  <2>1. /\ pc' \in [Threads -> PCs] /\ status' \in [Threads -> Statuses]
    BY <1>0, <2>0 DEF ReplyWith, Typed, TypeOK, PCs
  <2>2. UNCHANGED <<db, issued, method, work, tx, body, durable, served>>
    BY <1>4 DEF ExecuteRefused, ExecuteBadValue
  <2> QED
    BY <1>0, <2>1, <2>2 DEF Typed, TypeOK, WorkOK
<1>5. ASSUME NEW t \in Threads, Throws(t) PROVE Typed'
  <2>1. /\ pc' \in [Threads -> PCs] /\ status' \in [Threads -> Statuses]
    BY <1>0, <1>5, StatusFacts DEF Throws, ReplyWith, Typed, TypeOK, PCs
  <2>2. /\ tx' = [tx EXCEPT ![t] = NoWrite]
        /\ UNCHANGED <<db, issued, method, work, body, durable, served>>
    BY <1>5 DEF Throws
  <2>3. /\ tx' \in [Threads -> AnyWrite \cup {NoWrite}]
        /\ \A u \in Threads :
             tx'[u] = NoWrite \/ tx'[u].row \in Rows(tx'[u].table)
    BY <1>0, <2>2 DEF Typed, TypeOK
  <2> QED
    BY <1>0, <2>1, <2>2, <2>3 DEF Typed, TypeOK, WorkOK
<1>6. ASSUME NEW t \in Threads, Commit(t) \/ CommitInDoubt(t) PROVE Typed'
  <2>1. db' \in Databases
    BY <1>6, CommitTyped DEF Commit, CommitInDoubt
  <2>2. \A x \in Tables : db'[x] \subseteq Rows(x)
    BY <2>1 DEF Databases
  <2>3. /\ pc' \in [Threads -> PCs] /\ status' \in [Threads -> Statuses]
    <3>1. CASE Commit(t)
      <4>1. CASE method[t] = "CreateVehicle"
        BY <1>0, <3>1, <4>1 DEF Commit, Typed, TypeOK, PCs
      <4>2. CASE method[t] # "CreateVehicle"
        BY <1>0, <3>1, <4>2 DEF Commit, ReplyWith, Typed, TypeOK, PCs, Statuses
      <4> QED
        BY <4>1, <4>2
    <3>2. CASE CommitInDoubt(t)
      BY <1>0, <3>2, StatusFacts
         DEF CommitInDoubt, ReplyWith, Typed, TypeOK, PCs
    <3> QED
      BY <1>6, <3>1, <3>2
  <2>4. /\ tx' = [tx EXCEPT ![t] = NoWrite]
        /\ durable' = [durable EXCEPT ![t] = TRUE]
        /\ UNCHANGED <<issued, method, work, body, served>>
    BY <1>6 DEF Commit, CommitInDoubt
  <2>5. /\ tx' \in [Threads -> AnyWrite \cup {NoWrite}]
        /\ durable' \in [Threads -> BOOLEAN]
    BY <1>0, <2>4 DEF Typed, TypeOK
  <2>6. \A u \in Threads : tx'[u] = NoWrite \/ tx'[u].row \in Rows(tx'[u].table)
    BY <1>0, <2>4 DEF Typed, TypeOK
  <2> QED
    BY <1>0, <2>1, <2>2, <2>3, <2>4, <2>5, <2>6 DEF Typed, TypeOK, WorkOK
<1>7. ASSUME NEW t \in Threads, Reauthenticate(t) PROVE Typed'
  <2>1. /\ pc' \in [Threads -> PCs] /\ status' \in [Threads -> Statuses]
    BY <1>0, <1>7 DEF Reauthenticate, ReplyWith, Typed, TypeOK, PCs, Statuses
  <2>2. UNCHANGED <<db, issued, method, work, tx, body, durable, served>>
    BY <1>7 DEF Reauthenticate
  <2> QED
    BY <1>0, <2>1, <2>2 DEF Typed, TypeOK, WorkOK
<1>8. ASSUME NEW t \in Threads, Reply(t) PROVE Typed'
  <2>1. /\ pc' \in [Threads -> PCs] /\ status' \in [Threads -> Statuses]
        /\ method' \in [Threads -> AllMethods]
        /\ body' \in [Threads -> SUBSET AnyRow]
        /\ durable' \in [Threads -> BOOLEAN]
    BY <1>0, <1>8 DEF Reply, Typed, TypeOK, PCs, Statuses, AllMethods
  <2>2. served' \in [Threads -> 0 .. MaxRpcs]
    BY <1>0, <1>8, CrudAssumption DEF Reply, HandlerInv, Typed, TypeOK
  <2>3. /\ work' \in [Threads -> Works]
        /\ \A u \in Threads : WorkOK(work'[u])
    <3>1. NoWork \in Works /\ WorkOK(NoWork)
      BY DEF NoWork, Write, Works, WorkOK, Tables, NamedTables
    <3> QED
      BY <1>0, <1>8, <3>1 DEF Reply, Typed
  <2>4. UNCHANGED <<db, issued, tx>>
    BY <1>8 DEF Reply
  <2> QED
    BY <1>0, <2>1, <2>2, <2>3, <2>4 DEF Typed, TypeOK
<1>9. CASE UNCHANGED vars
  BY <1>0, <1>9 DEF vars, Typed, TypeOK, WorkOK
<1> QED
  BY <1>1, <1>2, <1>3, <1>4, <1>5, <1>6, <1>7, <1>8, <1>9
     DEF Next, HandlerStep, Failure, Quiet

\* A step of one thread does not touch what belongs to another.
LEMMA OthersUntouched ==
    ASSUME Typed, NEW u \in Threads, NEW t \in Threads, t # u,
           Arrive(t) \/ HandlerStep(t) \/ Failure(t)
    PROVE  UNCHANGED <<pc[u], method[u], work[u], tx[u], body[u], durable[u],
                       served[u], status[u]>>
<1>1. CASE Arrive(t)
  <2>1. Begins(t)
    BY <1>1, ArriveBegins
  <2> QED
    BY <1>1, <2>1 DEF Arrive, Begins, Typed, TypeOK
<1>2. CASE HandlerStep(t)
  BY <1>2 DEF HandlerStep, Select, SelectMatching, Execute, ExecuteRefused,
              Commit, Reauthenticate, ReadBack, Reply, ReplyWith, Typed, TypeOK
<1>3. CASE Failure(t)
  BY <1>3 DEF Failure, ExecuteBadValue, Throws, CommitInDoubt, ReplyWith, Typed,
              TypeOK
<1> QED
  BY <1>1, <1>2, <1>3

\* Every step keeps what a thread's place in its handler says, for the thread
\* that steps; a step of another thread does not touch it.
LEMMA NextHandlerInv ==
    CrudInv /\ [Next]_vars => \A u \in Threads : HandlerInv(u)'
<1> SUFFICES ASSUME CrudInv, [Next]_vars, NEW u \in Threads
             PROVE  HandlerInv(u)'
  OBVIOUS
<1>0. Typed /\ HandlerInv(u)
  BY DEF CrudInv
<1>1. ASSUME NEW t \in Threads, t # u,
             Arrive(t) \/ HandlerStep(t) \/ Failure(t)
      PROVE  UNCHANGED <<pc[u], method[u], work[u], tx[u], body[u], durable[u],
                         served[u]>>
  BY <1>0, <1>1, OthersUntouched
<1>2. CASE UNCHANGED <<pc[u], method[u], work[u], tx[u], body[u], durable[u],
                       served[u]>>
  BY <1>0, <1>2 DEF HandlerInv, Writes
<1>3. CASE Arrive(u)
  <2>1. Begins(u)
    BY <1>0, <1>3, ArriveBegins
  <2> QED
    BY <1>0, <1>3, <2>1 DEF Arrive, Begins, HandlerInv, Typed, TypeOK
<1>4. CASE Execute(u)
  <2>1. Writes(u) /\ work[u] # NoWrite
    BY <1>0, <1>4, WritesFacts DEF Execute
  <2> QED
    BY <1>0, <1>4, <2>1 DEF Execute, HandlerInv, Writes, Typed, TypeOK
<1>5. CASE Commit(u) \/ CommitInDoubt(u)
  BY <1>0, <1>5 DEF Commit, CommitInDoubt, ReplyWith, HandlerInv, Typed, TypeOK
<1>6. CASE Throws(u)
  BY <1>0, <1>6 DEF Throws, ReplyWith, HandlerInv, Typed, TypeOK
<1>7. CASE Reauthenticate(u)
  BY <1>0, <1>7 DEF Reauthenticate, ReplyWith, HandlerInv, Typed, TypeOK
<1>8. CASE Select(u) \/ SelectMatching(u) \/ ReadBack(u)
           \/ ExecuteRefused(u) \/ ExecuteBadValue(u)
  BY <1>0, <1>8 DEF Select, SelectMatching, ReadBack, ExecuteRefused,
                    ExecuteBadValue, ReplyWith, HandlerInv, Typed, TypeOK
<1>9. CASE Reply(u)
  BY <1>0, <1>9 DEF Reply, HandlerInv, Typed, TypeOK
<1>10. CASE UNCHANGED vars
  BY <1>2, <1>10 DEF vars
<1> QED
  BY <1>1, <1>2, <1>3, <1>4, <1>5, <1>6, <1>7, <1>8, <1>9, <1>10
     DEF Next, HandlerStep, Failure, Quiet

\* A step keeps the constraints and the open transactions independent.
LEMMA NextOpen ==
    CrudInv /\ [Next]_vars => OpenInv' /\ TablesConsistent'
<1> SUFFICES ASSUME CrudInv, [Next]_vars PROVE OpenInv' /\ TablesConsistent'
  OBVIOUS
<1>0. Typed /\ OpenInv /\ Consistent(db)
  BY DEF CrudInv, TablesConsistent
<1>1. ASSUME NEW t \in Threads, Execute(t) PROVE OpenInv' /\ TablesConsistent'
  <2>1. /\ db' = db /\ tx' = [tx EXCEPT ![t] = work[t]]
        /\ Answer(db, work[t]) = "done"
        /\ \A u \in Threads \ {t} :
             tx[u] # NoWrite => ~Conflict(db, work[t], tx[u])
    BY <1>1 DEF Execute, Blocked
  <2>2. \A u \in Threads \ {t} :
             tx[u] # NoWrite => ~Conflict(db, tx[u], work[t])
    BY <2>1, ConflictSymmetric
  <2>3. /\ tx'[t] = work[t]
        /\ \A u \in Threads \ {t} : tx'[u] = tx[u]
    BY <1>0, <2>1 DEF Typed
  <2>4. \A u \in Threads : tx'[u] # NoWrite => Answer(db', tx'[u]) = "done"
    BY <1>0, <2>1, <2>3 DEF OpenInv
  <2>5. \A u, v \in Threads :
           u # v /\ tx'[u] # NoWrite /\ tx'[v] # NoWrite
              => ~Conflict(db', tx'[u], tx'[v])
    BY <1>0, <2>1, <2>2, <2>3 DEF OpenInv
  <2> QED
    BY <1>0, <2>1, <2>4, <2>5 DEF OpenInv, TablesConsistent
<1>2. ASSUME NEW t \in Threads, Commit(t) \/ CommitInDoubt(t)
      PROVE  OpenInv' /\ TablesConsistent'
  <2> DEFINE w == tx[t]
  <2>1. /\ w \in AnyWrite /\ w.row \in Rows(w.table)
        /\ Answer(db, w) = "done" /\ w # NoWrite
        /\ db' = Apply(db, w) /\ db \in Databases
        /\ tx' = [tx EXCEPT ![t] = NoWrite]
    BY <1>0, <1>2, CommitTyped, CrudAssumption DEF Commit, CommitInDoubt, Typed
  <2> HIDE DEF w
  <2>2. TablesConsistent'
    BY <1>0, <2>1, ApplyConsistent DEF TablesConsistent
  <2>3. \A u \in Threads : tx'[u] # NoWrite =>
           /\ u # t /\ tx'[u] = tx[u]
           /\ tx[u] \in AnyWrite /\ tx[u].row \in Rows(tx[u].table)
           /\ Answer(db, tx[u]) = "done" /\ ~Conflict(db, tx[u], w)
    BY <1>0, <2>1 DEF Typed, TypeOK, OpenInv, w
  <2>4. \A u \in Threads : tx'[u] # NoWrite => Answer(db', tx'[u]) = "done"
    BY <2>1, <2>3, ApplyAnswer
  <2>5. ASSUME NEW u \in Threads, NEW v \in Threads, u # v,
               tx'[u] # NoWrite, tx'[v] # NoWrite
        PROVE  ~Conflict(db', tx'[u], tx'[v])
    <3>1. ~Conflict(db, tx[u], tx[v])
      BY <1>0, <2>3, <2>5 DEF OpenInv
    <3> QED
      BY <2>1, <2>3, <2>5, <3>1, ApplyConflict
  <2> QED
    BY <2>2, <2>4, <2>5 DEF OpenInv
<1>3. ASSUME db' = db,
             \A u \in Threads : tx'[u] # NoWrite => tx'[u] = tx[u]
      PROVE  OpenInv' /\ TablesConsistent'
  BY <1>0, <1>3 DEF OpenInv, TablesConsistent
<1>4. ASSUME NEW t \in Threads, Throws(t) PROVE OpenInv' /\ TablesConsistent'
  BY <1>0, <1>3, <1>4 DEF Throws, Typed
<1>5. CASE UNCHANGED <<db, tx>>
  BY <1>3, <1>5
<1>6. ASSUME NEW t \in Threads,
             \/ Arrive(t) \/ Select(t) \/ SelectMatching(t) \/ ExecuteRefused(t)
             \/ Reauthenticate(t) \/ ReadBack(t) \/ Reply(t)
             \/ ExecuteBadValue(t)
      PROVE  UNCHANGED <<db, tx>>
  BY <1>6 DEF Arrive, Select, SelectMatching, ExecuteRefused, Reauthenticate,
              ReadBack, Reply, ExecuteBadValue
<1> QED
  BY <1>1, <1>2, <1>4, <1>5, <1>6 DEF Next, HandlerStep, Failure, Quiet, vars

\* Every step keeps the truth of the replies: of OK, that the write is
\* committed, and of a refusal, that nothing is.
LEMMA NextReplies ==
    CrudInv /\ [Next]_vars => OkIsDurable' /\ RefusalHasNoEffect'
<1> DEFINE True(u) ==
      pc[u] = "reply" =>
        /\ status[u] = "OK" /\ Writes(u) =>
             /\ durable[u]
             /\ method[u] # "CreateVehicle" /\ work[u].op # "delete" =>
                  body[u] = {work[u].row}
             /\ method[u] = "CreateVehicle" =>
                  \E r \in body[u] : r.id = work[u].row.id
        /\ status[u] \notin {"OK", "INTERNAL"} /\ method[u] # "CreateVehicle"
             => ~durable[u]
<1> SUFFICES ASSUME CrudInv, [Next]_vars, NEW u \in Threads
             PROVE  True(u)'
  BY DEF OkIsDurable, RefusalHasNoEffect
<1>0. Typed /\ HandlerInv(u) /\ True(u)
  BY DEF CrudInv, OkIsDurable, RefusalHasNoEffect
<1>1. ASSUME NEW t \in Threads, t # u,
             Arrive(t) \/ HandlerStep(t) \/ Failure(t)
      PROVE  UNCHANGED <<pc[u], method[u], work[u], body[u], durable[u],
                         status[u]>>
  BY <1>0, <1>1, OthersUntouched
<1>2. CASE UNCHANGED <<pc[u], method[u], work[u], body[u], durable[u],
                       status[u]>>
  BY <1>0, <1>2 DEF Writes
<1>3. CASE Arrive(u)
  <2>1. Begins(u)
    BY <1>0, <1>3, ArriveBegins
  <2> QED
    BY <1>0, <1>3, <2>1 DEF Arrive, Begins, Typed, TypeOK
<1>4. CASE Execute(u)
  BY <1>0, <1>4 DEF Execute, Typed, TypeOK
<1>5. CASE Commit(u)
  BY <1>0, <1>5 DEF Commit, ReplyWith, HandlerInv, Writes, Typed, TypeOK
<1>6. CASE CommitInDoubt(u) \/ Throws(u)
  BY <1>0, <1>6, StatusFacts
     DEF CommitInDoubt, Throws, ReplyWith, Typed, TypeOK
<1>7. CASE Reauthenticate(u)
  BY <1>0, <1>7 DEF Reauthenticate, ReplyWith, HandlerInv, Typed, TypeOK
<1>8. CASE Select(u) \/ SelectMatching(u)
  BY <1>0, <1>8 DEF Select, SelectMatching, ReplyWith, HandlerInv, Writes,
                    Typed, TypeOK
<1>9. CASE ReadBack(u)
  <2>1. /\ pc' = [pc EXCEPT ![u] = "reply"]
        /\ body'[u] = RowsWithId(db, "vehicle", work[u].row.id)
        /\ status'[u] = IF body'[u] = {} THEN "NOT_FOUND" ELSE "OK"
        /\ UNCHANGED <<method, work, durable>>
    BY <1>0, <1>9 DEF ReadBack, ReplyWith, Typed, TypeOK
  <2>2. durable[u] /\ method[u] = "CreateVehicle"
    BY <1>0, <1>9 DEF ReadBack, HandlerInv
  <2> QED
    BY <2>1, <2>2 DEF RowsWithId
<1>10. CASE ExecuteRefused(u) \/ ExecuteBadValue(u)
  <2>1. PICK s \in Statuses \ {"OK"} : ReplyWith(u, s)
    BY <1>10, StatusFacts DEF ExecuteRefused, ExecuteBadValue
  <2>2. ~durable[u] /\ durable' = durable
    BY <1>0, <1>10 DEF ExecuteRefused, ExecuteBadValue, HandlerInv
  <2> QED
    BY <1>0, <2>1, <2>2 DEF ReplyWith, Typed, TypeOK
<1>11. CASE Reply(u)
  BY <1>0, <1>11 DEF Reply, Typed, TypeOK
<1>12. CASE UNCHANGED vars
  BY <1>2, <1>12 DEF vars
<1> QED
  BY <1>1, <1>2, <1>3, <1>4, <1>5, <1>6, <1>7, <1>8, <1>9, <1>10, <1>11, <1>12
     DEF Next, HandlerStep, Failure, Quiet

\* CrudInv is inductive.
LEMMA NextCrudInv == CrudInv /\ [Next]_vars => CrudInv'
  BY NextTyped, NextHandlerInv, NextOpen, NextReplies DEF CrudInv

\* The invariant holds in every behaviour of the handlers.
THEOREM CrudInvariant == Spec => []CrudInv
  BY InitCrudInv, NextCrudInv, PTL DEF Spec

\* Types, for every number of threads and every set of methods.
THEOREM CrudTypeCorrect == Spec => []TypeOK
<1>1. CrudInv => TypeOK
  BY DEF CrudInv, Typed
<1> QED
  BY <1>1, CrudInvariant, PTL

\* PRIMARY KEY, UNIQUE and REFERENCES hold of the committed rows whatever the
\* handlers do concurrently: for every number of threads, every set of ids
\* and names, every mix of methods, and every failure of a connection.
THEOREM TablesConsistentHolds == Spec => []TablesConsistent
<1>1. CrudInv => TablesConsistent
  BY DEF CrudInv
<1> QED
  BY <1>1, CrudInvariant, PTL

\* No handler answers OK to a write that is not committed, and its reply
\* carries the row it wrote.
THEOREM OkIsDurableHolds == Spec => []OkIsDurable
<1>1. CrudInv => OkIsDurable
  BY DEF CrudInv
<1> QED
  BY <1>1, CrudInvariant, PTL

\* No handler but CreateVehicle's refuses a request that it has carried out.
THEOREM RefusalHasNoEffectHolds == Spec => []RefusalHasNoEffect
<1>1. CrudInv => RefusalHasNoEffect
  BY DEF CrudInv
<1> QED
  BY <1>1, CrudInvariant, PTL

=============================================================================
