----------------------------- MODULE EvDatabase -----------------------------
(***************************************************************************)
(* The PostgreSQL schema of sql/001_initial.sql, as far as the CRUD        *)
(* handlers can tell it apart: five tables, their UNIQUE columns, their    *)
(* foreign keys (NO ACTION), and what one INSERT, UPDATE or DELETE by id   *)
(* answers.                                                                *)
(*                                                                         *)
(* PostgreSQL is external.  Every handler writes with one statement in a   *)
(* READ COMMITTED transaction.  A statement sees what is committed, and    *)
(* waits while another transaction has an uncommitted write on the same    *)
(* row, on the same value of a UNIQUE column, or on the other end of a     *)
(* reference.                                                              *)
(***************************************************************************)
EXTENDS FiniteSets, Naturals

CONSTANTS
    Ids,        \* UUIDs
    Names       \* license plates, weather names, category names: positive
                \* numbers in the order of the database's collation

\* The value of key in a row of a table without a UNIQUE column.
NoName == 0

NamedTables == {"vehicle", "weather", "source_category"}

Parents(table) ==
    CASE table = "charging"    -> {"vehicle", "source_category"}
      [] table = "consumption" -> {"vehicle", "weather"}
      [] OTHER                 -> {}

ChildTables == {"charging", "consumption"}

Tables == NamedTables \cup ChildTables

\* A row: its id, its UNIQUE column, and the ids it references by table.
Rows(table) ==
    [id : Ids,
     key : IF table \in NamedTables THEN Names ELSE {NoName},
     refs : [Parents(table) -> Ids]]

Databases == { d \in [Tables -> SUBSET UNION { Rows(x) : x \in Tables }] :
                 \A x \in Tables : d[x] \subseteq Rows(x) }

\* A write: op is "insert", "update" or "delete"; a delete uses only row.id.
Write(op, table, row) == [op |-> op, table |-> table, row |-> row]

RowsWithId(d, table, id) == { r \in d[table] : r.id = id }

\* WHERE Name ^@ prefix ORDER BY Name LIMIT n.  A prefix is the set of the
\* names that begin with it; names are UNIQUE.
Matching(d, table, prefix, n) ==
    LET found == { r \in d[table] : r.key \in prefix }
    IN  { r \in found : Cardinality({ s \in found : s.key < r.key }) < n }

\* Another row of the table has the value of the UNIQUE column.
Duplicate(d, w) ==
    /\ w.table \in NamedTables
    /\ \E r \in d[w.table] : r.key = w.row.key /\ r.id # w.row.id

\* Mutant of Dangling: the schema without REFERENCES.
NeverDangling(d, w) == FALSE

\* A referenced row does not exist.
Dangling(d, w) ==
    \E p \in Parents(w.table) : RowsWithId(d, p, w.row.refs[p]) = {}

\* A row of a child table references the row.
Referenced(d, table, id) ==
    \E c \in ChildTables :
        /\ table \in Parents(c)
        /\ \E r \in d[c] : r.refs[table] = id

\* The schema's constraints hold of the rows: PRIMARY KEY and UNIQUE columns,
\* and REFERENCES.
Consistent(d) ==
    \A x \in Tables :
        /\ \A r, s \in d[x] : r.id = s.id => r = s
        /\ x \in NamedTables => \A r, s \in d[x] : r.key = s.key => r = s
        /\ \A r \in d[x], p \in Parents(x) : RowsWithId(d, p, r.refs[p]) # {}

\* What the statement answers: "done", "no row", or the constraint it
\* violates.
Answer(d, w) ==
    IF w.op # "insert" /\ RowsWithId(d, w.table, w.row.id) = {} THEN "no row"
    ELSE IF w.op # "delete" /\ Duplicate(d, w) THEN "unique_violation"
    ELSE IF \/ w.op # "delete" /\ Dangling(d, w)
            \/ w.op = "delete" /\ Referenced(d, w.table, w.row.id)
         THEN "foreign_key_violation"
    ELSE "done"

\* The tables once the write is committed.
Apply(d, w) ==
    LET others == { r \in d[w.table] : r.id # w.row.id }
    IN  [d EXCEPT ![w.table] =
            IF w.op = "delete" THEN others ELSE others \cup {w.row}]

\* The row a write replaces or removes, and the row it leaves.
RowsTouched(d, w) ==
    RowsWithId(d, w.table, w.row.id)
        \cup (IF w.op = "delete" THEN {} ELSE {w.row})

\* v touches a row that references the row w writes.
RefersTo(d, v, w) ==
    /\ w.table \in Parents(v.table)
    /\ \E r \in RowsTouched(d, v) : r.refs[w.table] = w.row.id

\* Two writes of which the later one waits until the earlier is committed or
\* rolled back.  (Coarser than PostgreSQL's row locks: where PostgreSQL would
\* answer at once, the answer is the one it gives before or after.)
Conflict(d, v, w) ==
    \/ v.table = w.table /\ v.row.id = w.row.id
    \/ /\ v.table = w.table
       /\ v.table \in NamedTables
       /\ \E r \in RowsTouched(d, v), s \in RowsTouched(d, w) : r.key = s.key
    \/ RefersTo(d, v, w)
    \/ RefersTo(d, w, v)

=============================================================================
