----------------------------- MODULE Pagination -----------------------------
(***************************************************************************)
(* ListVehicles, ListChargings and ListConsumptions, called page after     *)
(* page by a client while others change the table.                         *)
(*                                                                         *)
(* A page is one SELECT ... ORDER BY ... LIMIT page_size + 1 OFFSET offset; *)
(* nothing on the server remembers a walk.  The token a page hands out is  *)
(* the offset of the next page, so it means a different row once the table *)
(* has changed.  ListVehicles orders by date and id; the two others order  *)
(* by start time alone, and PostgreSQL may return rows of equal start time *)
(* in another order on every call.                                         *)
(*                                                                         *)
(* A row is its id, its date (PurchaseDate, StartTime or Start) and its    *)
(* tag, which stands for the columns compared by equality in a filter      *)
(* (vehicle, charger type, source category).                               *)
(***************************************************************************)
EXTENDS Integers, Sequences, FiniteSets, SequencesExt

CONSTANTS
    Ids,                \* row ids, ordered as UUIDs are
    Dates,              \* dates of rows
    Tags,               \* values of the filtered columns
    AnyTag,             \* a filter that is not set
    Filters,            \* the filters of a walk: [tag, after, before]
    FirstTokens,        \* the tokens a walk may begin with
    PageSizes,          \* the page_size of a request
    DefaultPageSize,    \* 50
    kMaxPageSize,       \* 1000
    IntMax,             \* INT_MAX
    Seeds,              \* the tables at the start of a walk
    MaxWrites           \* bound: rows others add and remove during a walk

VARIABLES
    rows,       \* the table
    method,     \* the RPC of the walk
    filter,     \* its filter, the same on every page
    first,      \* its first token
    token,      \* the token of the next page
    seen,       \* the rows received, in order
    status,     \* of the last page, "none" before the first
    touched,    \* history: ids written by others since the walk began
    added,      \* history: rows others inserted or moved since then
    removed     \* history: rows others deleted or moved since then

vars == <<rows, method, filter, first, token, seen, status, touched, added,
          removed>>

Methods == {"ListVehicles", "ListChargings", "ListConsumptions"}

Rows == [id : Ids, date : Dates, tag : Tags]

\* A page_token: empty, text that is not a number, or a decimal number.
NoToken == [form |-> "empty", value |-> 0]
Garbage == [form |-> "garbage", value |-> 0]
Number(n) == [form |-> "number", value |-> n]

NoFilter == [tag |-> AnyTag, after |-> -1, before |-> IntMax]

\* The constants are what their comments say.  The two bounds of NoFilter
\* stand for no bound, so every date lies between them; ids are primary keys.
ASSUME PaginationAssumption ==
    /\ Ids \subseteq Int
    /\ IntMax \in Nat
    /\ Dates \subseteq 0 .. IntMax - 1
    /\ Filters \subseteq [tag : Tags \cup {AnyTag}, after : Int, before : Int]
    /\ FirstTokens \subseteq
          {NoToken, Garbage} \cup { Number(n) : n \in -IntMax .. 2 * IntMax }
    /\ PageSizes \subseteq Int
    /\ DefaultPageSize \in 1 .. IntMax
    /\ kMaxPageSize \in 2 .. IntMax
    /\ MaxWrites \in Nat
    /\ \A table \in Seeds :
          /\ table \subseteq Rows
          /\ IsFiniteSet(table)
          /\ \A r, s \in table : r.id = s.id => r = s

TypeOK ==
    /\ rows \subseteq Rows
    /\ method \in Methods
    /\ filter \in Filters \cup {NoFilter}
    /\ token.value \in -IntMax .. 2 * IntMax
    /\ seen \in Seq(Rows)
    /\ status \in {"none", "more", "end", "INVALID_ARGUMENT", "failed"}
    /\ touched \subseteq Ids
    /\ added \in 0 .. MaxWrites /\ removed \in 0 .. MaxWrites

Init ==
    /\ rows \in Seeds
    /\ method \in Methods
    /\ filter \in IF method = "ListVehicles" THEN {NoFilter}
                  ELSE Filters \cup {NoFilter}
    /\ first \in FirstTokens
    /\ token = first
    /\ seen = <<>>
    /\ status = "none"
    /\ touched = {}
    /\ added = 0 /\ removed = 0

-----------------------------------------------------------------------------

\* Mutant of PageSize: no default.
PageSizeWithoutDefault(n) ==
    IF n <= 0 THEN 0
    ELSE IF n < kMaxPageSize - 1 THEN n ELSE kMaxPageSize - 1

\* The page size a handler works with.
PageSize(n) ==
    IF n <= 0 THEN DefaultPageSize
    ELSE IF n < kMaxPageSize - 1 THEN n ELSE kMaxPageSize - 1

\* ParsePageToken: strtol accepts any decimal number, a negative one is
\* taken as 0, one above INT_MAX is refused.
Refused(tok) ==
    \/ tok.form = "garbage"
    \/ tok.form = "number" /\ tok.value > IntMax

ParsePageToken(tok) ==
    IF tok.form = "empty" \/ tok.value < 0 THEN 0 ELSE tok.value

\* Mutant of Matches: inclusive bounds.
MatchesInclusive(f, r) ==
    /\ f.tag = AnyTag \/ r.tag = f.tag
    /\ r.date >= f.after
    /\ r.date <= f.before

\* The WHERE clause: both time bounds are strict.
Matches(f, r) ==
    /\ f.tag = AnyTag \/ r.tag = f.tag
    /\ r.date > f.after
    /\ r.date < f.before

\* Mutant of Before: no list has a second sort key.
BeforeByDate(m, r, s) == r.date >= s.date

\* The ORDER BY clause.
Before(m, r, s) ==
    \/ r.date > s.date
    \/ r.date = s.date /\ (m = "ListVehicles" => r.id < s.id)

\* The orders in which PostgreSQL may return the rows.
Orders(m, f) ==
    { s \in SetToSeqs({ r \in rows : Matches(f, r) }) :
        \A i, j \in DOMAIN s : i < j => Before(m, s[i], s[j]) }

\* LIMIT limit OFFSET offset.
Slice(s, limit, offset) ==
    SubSeq(s, offset + 1,
           IF offset + limit < Len(s) THEN offset + limit ELSE Len(s))

\* Mutant of NextPageToken: the extra row is skipped.
NextPageTokenPastExtra(offset, size) == Number(offset + size + 1)

\* The token of the next page; int arithmetic, in range as long as a table
\* has fewer than INT_MAX rows.
NextPageToken(offset, size) == Number(offset + size)

\* One page.  The handler asks for one row more than it emits: the extra row
\* says that there is a next page.
ListPage(n) ==
    /\ status \in {"none", "more", "failed"}
    /\ ~Refused(token)
    /\ \E s \in Orders(method, filter) :
         LET size    == PageSize(n)
             offset  == ParsePageToken(token)
             result  == Slice(s, size + 1, offset)
             hasMore == Len(result) > size
         IN  /\ seen' = seen \o (IF hasMore THEN Slice(result, size, 0)
                                            ELSE result)
             /\ token' = IF hasMore THEN NextPageToken(offset, size)
                                    ELSE NoToken
             /\ status' = IF hasMore THEN "more" ELSE "end"
    /\ UNCHANGED <<rows, method, filter, first, touched, added, removed>>

ListVehicles(n) == method = "ListVehicles" /\ ListPage(n)

ListChargings(n) == method = "ListChargings" /\ ListPage(n)

ListConsumptions(n) == method = "ListConsumptions" /\ ListPage(n)

\* Mutant of RefuseToken: std::stoi throws.
RefuseTokenThrows ==
    /\ status \in {"none", "more", "failed"}
    /\ Refused(token)
    /\ status' = "INTERNAL"
    /\ UNCHANGED <<rows, method, filter, first, token, seen, touched, added,
                   removed>>

\* The token is refused: INVALID_ARGUMENT.
RefuseToken ==
    /\ status \in {"none", "more", "failed"}
    /\ Refused(token)
    /\ status' = "INVALID_ARGUMENT"
    /\ UNCHANGED <<rows, method, filter, first, token, seen, touched, added,
                   removed>>

\* The page is answered UNAUTHENTICATED or INTERNAL; the client still has
\* its token and may ask again.
PageFails ==
    /\ status \in {"none", "more"}
    /\ ~Refused(token)
    /\ status' = "failed"
    /\ UNCHANGED <<rows, method, filter, first, token, seen, touched, added,
                   removed>>

-----------------------------------------------------------------------------
(***************************************************************************)
(* The writes of other clients (module CrudServices), between two pages of *)
(* a walk.                                                                 *)
(***************************************************************************)

Walking == status \in {"more", "failed"}

InsertRow(r) ==
    /\ Walking
    /\ added + removed < MaxWrites
    /\ r.id \notin touched /\ \A s \in rows : s.id # r.id
    /\ rows' = rows \cup {r}
    /\ touched' = touched \cup {r.id}
    /\ added' = added + 1
    /\ UNCHANGED <<method, filter, first, token, seen, status, removed>>

DeleteRow(r) ==
    /\ Walking
    /\ added + removed < MaxWrites
    /\ rows' = rows \ {r}
    /\ touched' = touched \cup {r.id}
    /\ removed' = removed + 1
    /\ UNCHANGED <<method, filter, first, token, seen, status, added>>

\* An update that changes the row's place in the order.
MoveRow(r, d) ==
    /\ Walking
    /\ added + removed + 1 < MaxWrites
    /\ d # r.date
    /\ rows' = (rows \ {r}) \cup {[r EXCEPT !.date = d]}
    /\ touched' = touched \cup {r.id}
    /\ added' = added + 1
    /\ removed' = removed + 1
    /\ UNCHANGED <<method, filter, first, token, seen, status>>

Others ==
    \/ \E r \in Rows : InsertRow(r)
    \/ \E r \in rows : DeleteRow(r)
    \/ \E r \in rows, d \in Dates : MoveRow(r, d)

Pages ==
    \/ \E n \in PageSizes :
         ListVehicles(n) \/ ListChargings(n) \/ ListConsumptions(n)
    \/ RefuseToken

\* The client has what it asked for.
WalkOver ==
    /\ status \in {"end", "INVALID_ARGUMENT"}
    /\ UNCHANGED vars

Next == Pages \/ PageFails \/ Others \/ WalkOver

\* Fairness: the client goes on asking for pages until there are no more.
Spec == Init /\ [][Next]_vars /\ WF_vars(Pages)

-----------------------------------------------------------------------------

\* Rows the walk was told to skip by its first token.
Skipped == IF first.value > 0 THEN first.value ELSE 0

Quiet == added = 0 /\ removed = 0

\* Vehicles that come before r in the list.
Predecessors(r) ==
    { q \in rows : q.date > r.date \/ (q.date = r.date /\ q.id < r.id) }

Repeats == Len(seen) - Cardinality(ToSet(seen))

\* A walk through an unchanged table is exact, with any page sizes and with
\* failed pages asked for again: ListVehicles returns every vehicle beyond
\* the first offset once.
QuietWalkIsExact ==
    status = "end" /\ Quiet /\ method = "ListVehicles" =>
        /\ ToSet(seen) =
              { r \in rows : Cardinality(Predecessors(r)) >= Skipped }
        /\ Repeats = 0

\* ListChargings and ListConsumptions order ties as they like, and may return
\* one row twice and another never; what survives is that the walk has the
\* right number of rows of every start time, and none outside the filter.
QuietWalkCounts ==
    status = "end" /\ Quiet /\ Skipped = 0 =>
        \A d \in Dates :
            Cardinality({ i \in DOMAIN seen : seen[i].date = d }) =
            Cardinality({ r \in rows :
                            /\ r.date = d
                            /\ filter.tag \in {AnyTag, r.tag}
                            /\ filter.after < d /\ d < filter.before })

\* Under concurrent writes ListVehicles degrades no faster than the table
\* changes: each row removed costs at most one vehicle that was there all
\* along, each row added repeats at most one.
BoundedDrift ==
    status = "end" /\ Skipped = 0 /\ method = "ListVehicles" =>
        /\ Cardinality({ r \in rows : r.id \notin touched } \ ToSet(seen))
              <= removed
        /\ Repeats <= added

\* Every walk ends: a page that is not the last one moves the offset forward,
\* whatever page_size the client sent, zero and negative ones included.
WalkEnds == <>(status \in {"end", "INVALID_ARGUMENT"})

=============================================================================
