------------------------ MODULE DisplayReportsProofs ------------------------
(***************************************************************************)
(* The reports while other clients write, for every set of rows and of     *)
(* requests and every number of writes: first what the handlers' steps     *)
(* keep, then what the sums over the rows add up to.                       *)
(***************************************************************************)
EXTENDS DisplayReports, FiniteSetTheorems, TLAPS

\* The tables of this moment are the last on record, and what the statements
\* of the handler that are through have seen is on record too: the charging
\* that the pre-check found, the consumptions that the first statement of
\* GetConsumptionEfficiency read.
SeenInv ==
    /\ pc # "idle" =>
         states # <<>> /\ states[Len(states)] = <<charging, consumption>>
    /\ pc = "aggregate" /\ req.method \in PreChecked =>
         \E i \in DOMAIN states : HasData(req, states[i][1])
    /\ pc = "kwh" =>
         /\ req.method = "GetConsumptionEfficiency"
         /\ \E i \in DOMAIN states : kmRows = Selected(req, states[i][2])

\* ReplyIsOneState and OkHadData are not inductive: the aggregation must know
\* what the statements before it saw.
ReportInv ==
    /\ TypeOK
    /\ SeenInv
    /\ ReplyIsOneState
    /\ OkHadData

\* Whoever has the text of a UUID has the UUID: what the pre-check finds, the
\* aggregation selects.
LEMMA CheckedIsSelected ==
    ASSUME NEW q, NEW ch, HasData(q, ch)
    PROVE  Selected(q, ch) # {}
  BY DEF HasData, Selected, SameText, SameUuid

\* The pairs of tables on record.
Tables == (SUBSET ChargingRows) \X (SUBSET ConsumptionRows)

\* The first state on record.
LEMMA RecordStarts ==
    ASSUME NEW st \in Tables
    PROVE  /\ <<st>> \in Seq(Tables) /\ <<st>> # <<>>
           /\ Len(<<st>>) = 1 /\ <<st>>[Len(<<st>>)] = st
  OBVIOUS

\* A record that grows keeps what it has, in its place, and ends with the new
\* state.
LEMMA RecordGrows ==
    ASSUME NEW h \in Seq(Tables), NEW st \in Tables
    PROVE  LET g == Append(h, st)
           IN  /\ g \in Seq(Tables) /\ g # <<>>
               /\ g[Len(g)] = st
               /\ \A i \in DOMAIN h : i \in DOMAIN g /\ g[i] = h[i]
  OBVIOUS

\* Nothing on record is later than the last state.
LEMMA LastOnRecord ==
    ASSUME NEW h \in Seq(Tables), h # <<>>
    PROVE  Len(h) \in DOMAIN h /\ \A i \in DOMAIN h : i <= Len(h)
  OBVIOUS

\* Before the first request.
LEMMA InitReportInv == Init => ReportInv
<1> SUFFICES ASSUME Init PROVE ReportInv
  OBVIOUS
<1>1. req \in Requests
  BY ReportsAssumption DEF Init
<1>2. TypeOK
  BY <1>1, ReportsAssumption DEF Init, TypeOK
<1>. QED
  BY <1>2 DEF Init, ReportInv, SeenInv, ReplyIsOneState, OkHadData, Answered

\* Every step of the handler and of the other clients.
LEMMA NextReportInv == ReportInv /\ [Next]_vars => ReportInv'
<1> SUFFICES ASSUME ReportInv, [Next]_vars PROVE ReportInv'
  OBVIOUS
<1> USE DEF ReportInv, Answered
<1>0. MaxWrites \in Nat /\ PreChecked \subseteq Methods
  BY ReportsAssumption DEF Methods
<1>1. ASSUME NEW q \in Requests, Arrive(q) PROVE ReportInv'
  <2> DEFINE now == <<charging, consumption>>
  <2>0. now \in Tables /\ states' = <<now>>
    BY <1>1 DEF Arrive, TypeOK, Tables
  <2>a. states' \in Seq(Tables) /\ states' # <<>> /\ states'[Len(states')] = now
    BY <2>0, RecordStarts
  <2>1. TypeOK'
    BY <1>1, <2>a DEF Arrive, Finish, TypeOK, Tables
  <2>2. SeenInv'
    BY <1>1, <2>a DEF Arrive, Finish, SeenInv, PreChecked
  <2>3. ~Answered'
    BY <1>1 DEF Arrive, Finish
  <2>. QED  BY <2>1, <2>2, <2>3 DEF ReplyIsOneState, OkHadData
<1>2. CASE CheckExists
  <2>1. TypeOK'
    BY <1>2 DEF CheckExists, Finish, TypeOK
  <2>2. SeenInv'
    <3>1. states # <<>> /\ states[Len(states)] = <<charging, consumption>>
      BY <1>2 DEF CheckExists, SeenInv
    <3>2. Len(states) \in DOMAIN states
      BY <3>1, LastOnRecord DEF TypeOK, Tables
    <3>3. pc' = "aggregate" => HasData(req, states[Len(states)][1])
      BY <1>2, <3>1 DEF CheckExists, Finish
    <3>. QED  BY <1>2, <3>1, <3>2, <3>3 DEF CheckExists, Finish, SeenInv
  <2>3. ~Answered'
    BY <1>2 DEF CheckExists, Finish
  <2>. QED  BY <2>1, <2>2, <2>3 DEF ReplyIsOneState, OkHadData
<1>3. CASE Aggregate
  <2>1. TypeOK'
    BY <1>3 DEF Aggregate, Finish, TypeOK
  <2>2. SeenInv'
    BY <1>3 DEF Aggregate, Finish, SeenInv
  <2> DEFINE j == Len(states)
  <2>3. /\ states # <<>> /\ states[j] = <<charging, consumption>>
        /\ reply' = ReportOn(req, charging, consumption)
        /\ UNCHANGED <<req, states>>
        /\ req.method # "GetConsumptionEfficiency"
    BY <1>3 DEF Aggregate, Finish, SeenInv
  <2>a. j \in DOMAIN states /\ \A i \in DOMAIN states : i <= j
    BY <2>3, LastOnRecord DEF TypeOK, Tables
  <2>b. reply' = ReportOn(req, states[j][1], states[j][2])
    BY <2>3
  <2> HIDE DEF j
  <2>c. \E i \in DOMAIN states :
            req.method \in PreChecked => HasData(req, states[i][1])
    BY <1>3, <2>a DEF Aggregate, SeenInv
  <2>4. ReplyIsOneState'
    BY <2>3, <2>a, <2>b, <2>c DEF ReplyIsOneState
  <2>5. OkHadData'
    BY <1>3, <2>3, CheckedIsSelected DEF Aggregate, SeenInv, OkHadData
  <2>. QED  BY <2>1, <2>2, <2>4, <2>5
<1>4. CASE AggregateKm
  <2>1. kmRows' \subseteq ConsumptionRows
    BY <1>4 DEF AggregateKm, Selected, TypeOK
  <2>2. TypeOK'
    BY <1>4, <2>1 DEF AggregateKm, TypeOK
  <2>3. SeenInv'
    <3>1. states # <<>> /\ states[Len(states)] = <<charging, consumption>>
      BY <1>4 DEF AggregateKm, SeenInv
    <3>2. Len(states) \in DOMAIN states
      BY <3>1, LastOnRecord DEF TypeOK, Tables
    <3>3. kmRows' = Selected(req, states[Len(states)][2])
      BY <1>4, <3>1 DEF AggregateKm
    <3>. QED  BY <1>4, <3>1, <3>2, <3>3 DEF AggregateKm, SeenInv
  <2>. QED  BY <1>4, <2>2, <2>3 DEF AggregateKm, ReplyIsOneState, OkHadData
<1>5. CASE AggregateKwh
  <2>1. TypeOK'
    BY <1>5 DEF AggregateKwh, Finish, TypeOK
  <2>2. SeenInv'
    BY <1>5 DEF AggregateKwh, Finish, SeenInv
  <2> DEFINE j == Len(states)
  <2>3. PICK i \in DOMAIN states : kmRows = Selected(req, states[i][2])
    BY <1>5 DEF AggregateKwh, SeenInv
  <2>4. /\ states # <<>> /\ states[j] = <<charging, consumption>>
        /\ reply' = GetConsumptionEfficiency(req, charging,
                                             Selected(req, states[i][2]))
        /\ UNCHANGED <<req, states>>
        /\ req.method = "GetConsumptionEfficiency"
    BY <1>5, <2>3 DEF AggregateKwh, Finish, SeenInv
  <2>a. j \in DOMAIN states /\ i <= j
    BY <2>4, LastOnRecord DEF TypeOK, Tables
  <2>b. reply' = GetConsumptionEfficiency(req, states[j][1],
                                          Selected(req, states[i][2]))
    BY <2>4
  <2> HIDE DEF j
  <2>5. ReplyIsOneState'
    BY <2>4, <2>a, <2>b DEF ReplyIsOneState
  <2>6. OkHadData'
    BY <2>4 DEF OkHadData, PreChecked
  <2>. QED  BY <2>1, <2>2, <2>5, <2>6
<1>6. CASE Throws
  <2>1. TypeOK'
    BY <1>6 DEF Throws, Finish, TypeOK
  <2>2. SeenInv'
    BY <1>6 DEF Throws, Finish, SeenInv
  <2>. QED
    BY <1>6, <2>1, <2>2 DEF Throws, Finish, ReplyIsOneState, OkHadData
<1>7. CASE Reply
  <2>1. req' \in Requests
    BY <1>7, ReportsAssumption DEF Reply
  <2>2. TypeOK'
    BY <1>0, <1>7, <2>1 DEF Reply, TypeOK
  <2>. QED
    BY <1>7, <2>2 DEF Reply, SeenInv, ReplyIsOneState, OkHadData
<1>8. CASE OthersWrite
  <2>1. charging' \subseteq ChargingRows /\ consumption' \subseteq ConsumptionRows
    BY <1>8 DEF OthersWrite, TypeOK
  <2> DEFINE now == <<charging', consumption'>>
  <2>a. now \in Tables /\ states \in Seq(Tables) /\ states' = Append(states, now)
    BY <1>8, <2>1 DEF OthersWrite, TypeOK, Tables
  <2> HIDE DEF now
  <2>b. /\ states' \in Seq(Tables) /\ states' # <<>> /\ states'[Len(states')] = now
        /\ \A i \in DOMAIN states : i \in DOMAIN states' /\ states'[i] = states[i]
    BY <2>a, RecordGrows
  <2>2. TypeOK'
    BY <1>0, <1>8, <2>1, <2>b DEF OthersWrite, TypeOK, Tables
  <2>3. /\ states' # <<>> /\ states'[Len(states')] = <<charging', consumption'>>
        /\ \A i \in DOMAIN states : i \in DOMAIN states' /\ states'[i] = states[i]
        /\ UNCHANGED <<pc, req, kmRows, status>>
        /\ pc # "done"
    BY <1>8, <2>b DEF OthersWrite, now
  <2>4. SeenInv'
    BY <2>3 DEF SeenInv
  <2>. QED  BY <2>2, <2>3, <2>4 DEF ReplyIsOneState, OkHadData
<1>9. CASE UNCHANGED vars
  <2>1. TypeOK'
    BY <1>9 DEF vars, TypeOK
  <2>2. SeenInv'
    BY <1>9 DEF vars, SeenInv
  <2>. QED  BY <1>9, <2>1, <2>2 DEF vars, ReplyIsOneState, OkHadData
<1>. QED
  BY <1>1, <1>2, <1>3, <1>4, <1>5, <1>6, <1>7, <1>8, <1>9 DEF Next

\* The inductive invariant of the reports.
THEOREM ReportInvariant == Spec => []ReportInv
  BY InitReportInv, NextReportInv, PTL DEF Spec

\* Types of the report handlers.
THEOREM ReportTypeCorrect == Spec => []TypeOK
<1>1. ReportInv => TypeOK
  BY DEF ReportInv
<1>. QED  BY <1>1, ReportInvariant, PTL

\* No reply mixes two states of the tables or comes from before its
\* pre-check, and the one report that reads them in two statements mixes only
\* moments of its own RPC, in the order of the statements.
THEOREM ReplyIsOneStateHolds == Spec => []ReplyIsOneState
<1>1. ReportInv => ReplyIsOneState
  BY DEF ReportInv
<1>. QED  BY <1>1, ReportInvariant, PTL

\* A pre-checked report answers OK only if there was something to report.
THEOREM OkHadDataHolds == Spec => []OkHadData
<1>1. ReportInv => OkHadData
  BY DEF ReportInv
<1>. QED  BY <1>1, ReportInvariant, PTL

-----------------------------------------------------------------------------
(***************************************************************************)
(* Sums over finite sets.                                                  *)
(***************************************************************************)

\* g sums f over every subset of S, the way the fold does: one element that
\* is chosen, and the rest.
Iterates(f, S, g) ==
    g = [s \in SUBSET S |-> IF s = {} THEN 0
            ELSE f[CHOOSE x \in s : TRUE] + g[s \ {CHOOSE x \in s : TRUE}]]

\* The element the fold chooses.
First(s) == CHOOSE x \in s : TRUE

\* The summands are integers.
IntOn(f, S) == \A x \in S : f[x] \in Int

\* The library's sum over a finite set is what its iteration ends with.
LEMMA SumDef ==
    ASSUME NEW f, NEW S
    PROVE  SumFunctionOnSet(f, S) = (CHOOSE g : Iterates(f, S, g))[S]
  BY DEF SumFunctionOnSet, FoldFunctionOnSet, MapThenFoldSet, Iterates

\* Induction over the subsets of a finite set, as a least counterexample:
\* among the subsets that are bad there is one with no bad subset of its own.
LEMMA SmallestBad ==
    ASSUME NEW S, IsFiniteSet(S), NEW Bad \in SUBSET (SUBSET S), Bad # {}
    PROVE  \E B \in Bad : \A C \in SUBSET B : C \in Bad => C = B
<1>1. IsWellFoundedOn(StrictSubsetOrdering(S), SUBSET S)
  BY FS_StrictSubsetOrderingWellFounded, FS_FiniteSubsetsOfFinite
<1>2. PICK B \in Bad : \A C \in Bad : ~(<<C, B>> \in StrictSubsetOrdering(S))
  BY <1>1, WFMin
<1>3. ASSUME NEW C \in SUBSET B, C \in Bad PROVE C = B
  BY <1>2, <1>3 DEF StrictSubsetOrdering
<1> QED BY <1>3

\* The element that the fold takes next.
LEMMA FirstIn ==
    ASSUME NEW s, s # {}
    PROVE  First(s) \in s /\ (s \ {First(s)}) \in SUBSET s /\ s \ {First(s)} # s
  BY DEF First

\* One step of an iteration.
LEMMA IterateStep ==
    ASSUME NEW f, NEW S, NEW g, Iterates(f, S, g), NEW s \in SUBSET S
    PROVE  g[s] = IF s = {} THEN 0 ELSE f[First(s)] + g[s \ {First(s)}]
  BY DEF Iterates, First

\* Two iterations agree wherever both are defined.
LEMMA IteratesAgree ==
    ASSUME NEW f, NEW S, NEW T, NEW g, NEW h, Iterates(f, S, g), Iterates(f, T, h),
           NEW U, IsFiniteSet(U), U \subseteq S, U \subseteq T
    PROVE  g[U] = h[U]
<1> DEFINE Bad == { V \in SUBSET U : g[V] # h[V] }
<1> SUFFICES ASSUME Bad # {} PROVE FALSE
  OBVIOUS
<1> HIDE DEF Bad
<1>0. Bad \in SUBSET (SUBSET U)
  BY DEF Bad
<1>1. PICK B \in Bad : \A C \in SUBSET B : C \in Bad => C = B
  BY SmallestBad, <1>0
<1>2. B \in SUBSET U /\ g[B] # h[B]
  BY DEF Bad
<1>3. B \in SUBSET S /\ B \in SUBSET T
  BY <1>2
<1>4. g[B] = IF B = {} THEN 0 ELSE f[First(B)] + g[B \ {First(B)}]
  BY <1>3 DEF Iterates, First
<1>5. h[B] = IF B = {} THEN 0 ELSE f[First(B)] + h[B \ {First(B)}]
  BY <1>3 DEF Iterates, First
<1>6. CASE B = {}
  BY <1>2, <1>4, <1>5, <1>6
<1>7. CASE B # {}
  <2>1. (B \ {First(B)}) \in SUBSET B /\ B \ {First(B)} # B
    BY <1>7, FirstIn
  <2>2. ~(B \ {First(B)} \in Bad)
    BY <1>1, <2>1
  <2>3. g[B \ {First(B)}] = h[B \ {First(B)}]
    BY <2>2, <2>1, <1>2 DEF Bad
  <2> QED BY <1>2, <1>4, <1>5, <2>3, <1>7
<1> QED BY <1>6, <1>7

\* There is an iteration over every finite set.
LEMMA IterateExists ==
    ASSUME NEW f, NEW S, IsFiniteSet(S)
    PROVE  \E g : Iterates(f, S, g)
<1> DEFINE Bad == { V \in SUBSET S : ~ \E g : Iterates(f, V, g) }
           val(V) == (CHOOSE g : Iterates(f, V, g))[V]
<1> SUFFICES ASSUME Bad # {} PROVE FALSE
  OBVIOUS
<1> HIDE DEF Bad
<1>0. Bad \in SUBSET (SUBSET S)
  BY DEF Bad
<1>1. PICK B \in Bad : \A C \in SUBSET B : C \in Bad => C = B
  BY SmallestBad, <1>0
<1>2. B \in SUBSET S /\ ~ \E g : Iterates(f, B, g)
  BY DEF Bad
<1>3. ASSUME NEW C \in SUBSET B, C # B
      PROVE  Iterates(f, C, CHOOSE g : Iterates(f, C, g))
  <2>1. ~(C \in Bad) /\ C \in SUBSET S
    BY <1>1, <1>2, <1>3
  <2> QED BY <2>1 DEF Bad
<1> DEFINE G == [s \in SUBSET B |-> IF s = {} THEN 0
                    ELSE f[First(s)] + val(s \ {First(s)})]
<1>4. ASSUME NEW C \in SUBSET B, C # B
      PROVE  G[C] = val(C)
  <2> DEFINE gC == CHOOSE g : Iterates(f, C, g)
  <2>1. Iterates(f, C, gC)
    BY <1>3, <1>4
  <2>2. gC[C] = IF C = {} THEN 0 ELSE f[First(C)] + gC[C \ {First(C)}]
    BY <2>1, IterateStep
  <2>3. CASE C = {}
    BY <2>2, <2>3
  <2>4. CASE C # {}
    <3> DEFINE D == C \ {First(C)}
               gD == CHOOSE g : Iterates(f, D, g)
    <3>1. D \in SUBSET C /\ D \in SUBSET B /\ D # B
      BY <2>4, FirstIn, <1>4
    <3>2. Iterates(f, D, gD)
      BY <1>3, <3>1
    <3>3. IsFiniteSet(D)
      BY <3>1, <1>2, FS_Subset
    <3>4. gC[D] = gD[D]
      BY <2>1, <3>1, <3>2, <3>3, IteratesAgree
    <3> QED BY <2>2, <2>4, <3>4
  <2> QED BY <2>3, <2>4
<1>5. ASSUME NEW s \in SUBSET B, s # {}
      PROVE  G[s \ {First(s)}] = val(s \ {First(s)})
  <2>1. s \ {First(s)} \in SUBSET B /\ s \ {First(s)} # B
    BY <1>5, FirstIn
  <2> HIDE DEF G
  <2> QED BY <2>1, <1>4
<1>6. \A s \in SUBSET B : s # {} => val(s \ {First(s)}) = G[s \ {First(s)}]
  BY <1>5
<1>7. \A s \in SUBSET B : G[s] = IF s = {} THEN 0
                    ELSE f[First(s)] + G[s \ {First(s)}]
  <2> SUFFICES ASSUME NEW s \in SUBSET B
               PROVE G[s] = IF s = {} THEN 0 ELSE f[First(s)] + G[s \ {First(s)}]
    OBVIOUS
  <2>1. G[s] = IF s = {} THEN 0 ELSE f[First(s)] + val(s \ {First(s)})
    OBVIOUS
  <2> HIDE DEF G
  <2> QED BY <2>1, <1>6
<1>8. Iterates(f, B, G)
  <2>1. G = [s \in SUBSET B |-> G[s]]
    OBVIOUS
  <2> HIDE DEF G
  <2>2. G = [s \in SUBSET B |-> IF s = {} THEN 0 ELSE f[First(s)] + G[s \ {First(s)}]]
    BY <2>1, <1>7
  <2> QED BY <2>2 DEF Iterates, First
<1> QED BY <1>2, <1>8

\* The equation that the sum satisfies.
LEMMA SumStep ==
    ASSUME NEW f, NEW S, IsFiniteSet(S)
    PROVE  SumFunctionOnSet(f, S) =
               IF S = {} THEN 0
               ELSE f[First(S)] + SumFunctionOnSet(f, S \ {First(S)})
<1> DEFINE g == CHOOSE h : Iterates(f, S, h)
           T == S \ {First(S)}
           k == CHOOSE h : Iterates(f, T, h)
<1>1. Iterates(f, S, g)
  BY IterateExists
<1>2. SumFunctionOnSet(f, S) = g[S] /\ SumFunctionOnSet(f, T) = k[T]
  BY SumDef
<1>3. g[S] = IF S = {} THEN 0 ELSE f[First(S)] + g[T]
  BY <1>1, IterateStep
<1>4. IsFiniteSet(T) /\ T \subseteq S
  BY FS_Subset
<1>5. Iterates(f, T, k)
  BY IterateExists, <1>4
<1>6. g[T] = k[T]
  BY <1>1, <1>4, <1>5, IteratesAgree
<1> QED BY <1>2, <1>3, <1>6

\* The empty sum.
LEMMA SumEmpty ==
    ASSUME NEW f
    PROVE  SumFunctionOnSet(f, {}) = 0
  BY SumStep, FS_EmptySet

\* Integers add up to an integer.
LEMMA SumInt ==
    ASSUME NEW f, NEW S, IsFiniteSet(S), IntOn(f, S)
    PROVE  SumFunctionOnSet(f, S) \in Int
<1> DEFINE Bad == { V \in SUBSET S : ~(SumFunctionOnSet(f, V) \in Int) }
<1> SUFFICES ASSUME Bad # {} PROVE FALSE
  OBVIOUS
<1> HIDE DEF Bad
<1>0. Bad \in SUBSET (SUBSET S)
  BY DEF Bad
<1>1. PICK B \in Bad : \A C \in SUBSET B : C \in Bad => C = B
  BY SmallestBad, <1>0
<1>2. B \in SUBSET S /\ ~(SumFunctionOnSet(f, B) \in Int)
  BY DEF Bad
<1>3. IsFiniteSet(B)
  BY <1>2, FS_Subset
<1>4. B # {}
  BY <1>2, SumEmpty
<1>5. First(B) \in B /\ B \ {First(B)} \in SUBSET B /\ B \ {First(B)} # B
  BY <1>4, FirstIn
<1>6. SumFunctionOnSet(f, B \ {First(B)}) \in Int
  BY <1>1, <1>2, <1>5 DEF Bad
<1>7. SumFunctionOnSet(f, B) = f[First(B)] + SumFunctionOnSet(f, B \ {First(B)})
  BY <1>3, <1>4, SumStep
<1>8. f[First(B)] \in Int
  BY <1>2, <1>5 DEF IntOn
<1> QED BY <1>2, <1>6, <1>7, <1>8

\* Two summands in either order.
LEMMA SwapSummands ==
    ASSUME NEW t, NEW u, NEW v, NEW a \in Int, NEW b \in Int, NEW r \in Int,
           t = a + u, u = b + r, v = a + r
    PROVE  t = b + v
  OBVIOUS

\* Any element, not only the chosen one, may be taken out first.
LEMMA SumRemove ==
    ASSUME NEW f, NEW S, IsFiniteSet(S), IntOn(f, S), NEW y \in S
    PROVE  SumFunctionOnSet(f, S) = f[y] + SumFunctionOnSet(f, S \ {y})
<1> DEFINE Wrong(V, z) ==
             SumFunctionOnSet(f, V) # f[z] + SumFunctionOnSet(f, V \ {z})
           Bad == { V \in SUBSET S : \E z \in V : Wrong(V, z) }
<1> SUFFICES ASSUME Bad # {} PROVE FALSE
  OBVIOUS
<1> HIDE DEF Bad
<1>0. Bad \in SUBSET (SUBSET S)
  BY DEF Bad
<1>1. PICK B \in Bad : \A C \in SUBSET B : C \in Bad => C = B
  BY SmallestBad, <1>0
<1>2. PICK z \in B : Wrong(B, z)
  BY DEF Bad
<1>3. B \in SUBSET S
  BY DEF Bad
<1>4. IsFiniteSet(B) /\ B # {}
  BY <1>3, FS_Subset
<1> DEFINE c == First(B)
<1>5. c \in B
  BY <1>4, FirstIn
<1>6. SumFunctionOnSet(f, B) = f[c] + SumFunctionOnSet(f, B \ {c})
  BY <1>4, SumStep
<1> HIDE DEF c
<1>7. z # c
  BY <1>2, <1>6
<1>8. ASSUME NEW u \in B, NEW w \in B, u # w
      PROVE  SumFunctionOnSet(f, B \ {u}) =
                 f[w] + SumFunctionOnSet(f, (B \ {u}) \ {w})
  <2>1. B \ {u} \in SUBSET B /\ B \ {u} # B /\ w \in B \ {u} /\ B \ {u} \in SUBSET S
    BY <1>3, <1>8
  <2>2. ~(B \ {u} \in Bad)
    BY <2>1, <1>1
  <2> QED BY <2>1, <2>2 DEF Bad
<1>9. SumFunctionOnSet(f, B \ {c}) = f[z] + SumFunctionOnSet(f, (B \ {c}) \ {z})
  BY <1>5, <1>7, <1>8
<1>10. SumFunctionOnSet(f, B \ {z}) = f[c] + SumFunctionOnSet(f, (B \ {z}) \ {c})
  BY <1>5, <1>7, <1>8
<1>11. SumFunctionOnSet(f, B \ {z}) = f[c] + SumFunctionOnSet(f, (B \ {c}) \ {z})
  <2>1. (B \ {z}) \ {c} = (B \ {c}) \ {z}
    OBVIOUS
  <2> QED BY <1>10, <2>1
<1>12. SumFunctionOnSet(f, (B \ {c}) \ {z}) \in Int
  <2>1. (B \ {c}) \ {z} \in SUBSET S
    BY <1>3
  <2>2. IsFiniteSet((B \ {c}) \ {z})
    BY <2>1, FS_Subset
  <2>3. IntOn(f, (B \ {c}) \ {z})
    BY <2>1 DEF IntOn
  <2> QED BY <2>2, <2>3, SumInt
<1>13. f[c] \in Int /\ f[z] \in Int
  BY <1>3, <1>5 DEF IntOn
<1> HIDE DEF Wrong
<1>14. SumFunctionOnSet(f, B) = f[z] + SumFunctionOnSet(f, B \ {z})
  BY <1>6, <1>9, <1>11, <1>12, <1>13, SwapSummands
<1> QED BY <1>2, <1>14 DEF Wrong

\* The sum only looks at the values on the set.
LEMMA SumCongruence ==
    ASSUME NEW f, NEW h, NEW S, IsFiniteSet(S), \A x \in S : f[x] = h[x]
    PROVE  SumFunctionOnSet(f, S) = SumFunctionOnSet(h, S)
<1> DEFINE Bad == { V \in SUBSET S :
                      SumFunctionOnSet(f, V) # SumFunctionOnSet(h, V) }
<1> SUFFICES ASSUME Bad # {} PROVE FALSE
  OBVIOUS
<1> HIDE DEF Bad
<1>0. Bad \in SUBSET (SUBSET S)
  BY DEF Bad
<1>1. PICK B \in Bad : \A C \in SUBSET B : C \in Bad => C = B
  BY SmallestBad, <1>0
<1>2. B \in SUBSET S /\ SumFunctionOnSet(f, B) # SumFunctionOnSet(h, B)
  BY DEF Bad
<1>3. IsFiniteSet(B)
  BY <1>2, FS_Subset
<1>4. B # {}
  BY <1>2, SumEmpty
<1>5. First(B) \in B /\ B \ {First(B)} \in SUBSET B /\ B \ {First(B)} # B
  BY <1>4, FirstIn
<1>6. SumFunctionOnSet(f, B \ {First(B)}) = SumFunctionOnSet(h, B \ {First(B)})
  BY <1>1, <1>2, <1>5 DEF Bad
<1>7. SumFunctionOnSet(f, B) = f[First(B)] + SumFunctionOnSet(f, B \ {First(B)})
  BY <1>3, <1>4, SumStep
<1>8. SumFunctionOnSet(h, B) = h[First(B)] + SumFunctionOnSet(h, B \ {First(B)})
  BY <1>3, <1>4, SumStep
<1>9. f[First(B)] = h[First(B)]
  BY <1>2, <1>5
<1> QED BY <1>2, <1>6, <1>7, <1>8, <1>9

\* A sum over two disjoint sets.
LEMMA SumUnion ==
    ASSUME NEW f, NEW S, NEW T, IsFiniteSet(S), IsFiniteSet(T), S \cap T = {},
           IntOn(f, S), IntOn(f, T)
    PROVE  SumFunctionOnSet(f, S \cup T) =
               SumFunctionOnSet(f, S) + SumFunctionOnSet(f, T)
<1> DEFINE Bad == { V \in SUBSET T : SumFunctionOnSet(f, S \cup V) #
                       SumFunctionOnSet(f, S) + SumFunctionOnSet(f, V) }
<1> SUFFICES ASSUME Bad # {} PROVE FALSE
  OBVIOUS
<1> HIDE DEF Bad
<1>0. Bad \in SUBSET (SUBSET T)
  BY DEF Bad
<1>1. PICK B \in Bad : \A C \in SUBSET B : C \in Bad => C = B
  BY SmallestBad, <1>0
<1>2. B \in SUBSET T /\ SumFunctionOnSet(f, S \cup B) #
                       SumFunctionOnSet(f, S) + SumFunctionOnSet(f, B)
  BY DEF Bad
<1>3. IsFiniteSet(B) /\ IsFiniteSet(S \cup B)
  BY <1>2, FS_Subset, FS_Union
<1>i. IntOn(f, B) /\ IntOn(f, S \cup B)
  BY <1>2 DEF IntOn
<1>j. SumFunctionOnSet(f, S) \in Int
  BY SumInt
<1>4. B # {}
  <2> SUFFICES ASSUME B = {} PROVE FALSE
    OBVIOUS
  <2>1. S \cup B = S /\ SumFunctionOnSet(f, B) = 0
    BY SumEmpty
  <2> QED BY <1>2, <1>j, <2>1
<1> DEFINE c == First(B)
           C == B \ {c}
<1>5. c \in B /\ C \in SUBSET B /\ C # B
  BY <1>4, FirstIn
<1> HIDE DEF c
<1>6. SumFunctionOnSet(f, S \cup C) = SumFunctionOnSet(f, S) + SumFunctionOnSet(f, C)
  BY <1>1, <1>2, <1>5 DEF Bad
<1>7. SumFunctionOnSet(f, B) = f[c] + SumFunctionOnSet(f, C)
  BY <1>3, <1>i, <1>5, SumRemove
<1>8. SumFunctionOnSet(f, S \cup B) = f[c] + SumFunctionOnSet(f, (S \cup B) \ {c})
  <2>1. c \in S \cup B
    BY <1>5
  <2> QED BY <1>3, <1>i, <2>1, SumRemove
<1>9. (S \cup B) \ {c} = S \cup C
  BY <1>2, <1>5
<1>10. f[c] \in Int
  BY <1>5, <1>i DEF IntOn
<1>11. SumFunctionOnSet(f, C) \in Int
  <2>1. IsFiniteSet(C) /\ IntOn(f, C)
    BY <1>3, <1>5, <1>i, FS_Subset DEF IntOn
  <2> HIDE DEF C
  <2> QED BY <2>1, SumInt
<1>12. SumFunctionOnSet(f, S \cup B) = f[c] + SumFunctionOnSet(f, S \cup C)
  BY <1>8, <1>9
<1> HIDE DEF C
<1>13. SumFunctionOnSet(f, S \cup B) =
           SumFunctionOnSet(f, S) + SumFunctionOnSet(f, B)
  BY <1>6, <1>7, <1>10, <1>11, <1>12, <1>j, SwapSummands
<1> QED BY <1>2, <1>13

\* Adding up group by group gives the whole sum: no element is lost and none
\* is counted twice.
LEMMA SumPartition ==
    ASSUME NEW f, NEW S, IsFiniteSet(S), IntOn(f, S),
           NEW E, IsFiniteSet(E), NEW key, \A x \in S : key[x] \in E,
           NEW grp, \A e \in E : \A x : x \in grp[e] <=> x \in S /\ key[x] = e,
           NEW h, \A e \in E : h[e] = SumFunctionOnSet(f, grp[e])
    PROVE  SumFunctionOnSet(h, E) = SumFunctionOnSet(f, S)
<1> DEFINE In(D) == { x \in S : key[x] \in D }
           Bad == { V \in SUBSET E :
                      SumFunctionOnSet(h, V) # SumFunctionOnSet(f, In(V)) }
<1>a. In(E) = S
  OBVIOUS
<1> SUFFICES ASSUME Bad # {} PROVE FALSE
  BY <1>a
<1> HIDE DEF Bad
<1>0. Bad \in SUBSET (SUBSET E)
  BY DEF Bad
<1>1. PICK B \in Bad : \A C \in SUBSET B : C \in Bad => C = B
  BY SmallestBad, <1>0
<1>2. B \in SUBSET E /\ SumFunctionOnSet(h, B) # SumFunctionOnSet(f, In(B))
  BY DEF Bad
<1>3. ASSUME NEW V \in SUBSET S
      PROVE  IsFiniteSet(V) /\ IntOn(f, V)
  BY FS_Subset DEF IntOn
<1>4. B # {}
  <2> SUFFICES ASSUME B = {} PROVE FALSE
    OBVIOUS
  <2>1. In(B) = {}
    OBVIOUS
  <2> HIDE DEF In
  <2> QED BY <1>2, <2>1, SumEmpty
<1> DEFINE c == First(B)
           C == B \ {c}
           g == grp[c]
<1>5. c \in B /\ C \in SUBSET B /\ C # B
  BY <1>4, FirstIn
<1>6. SumFunctionOnSet(h, B) = h[c] + SumFunctionOnSet(h, C)
  BY <1>2, <1>4, FS_Subset, SumStep
<1> HIDE DEF c
<1>7. SumFunctionOnSet(h, C) = SumFunctionOnSet(f, In(C))
  BY <1>1, <1>2, <1>5 DEF Bad
<1>8. h[c] = SumFunctionOnSet(f, g)
  BY <1>2, <1>5
<1>9. In(B) = g \cup In(C) /\ g \cap In(C) = {} /\ g \in SUBSET S /\ In(C) \in SUBSET S
  BY <1>2, <1>5
<1> HIDE DEF g, In
<1>10. /\ IsFiniteSet(g) /\ IntOn(f, g)
       /\ IsFiniteSet(In(C)) /\ IntOn(f, In(C))
  BY <1>9, <1>3
<1> HIDE DEF C
<1>11. SumFunctionOnSet(f, g \cup In(C)) =
           SumFunctionOnSet(f, g) + SumFunctionOnSet(f, In(C))
  BY <1>9, <1>10, SumUnion
<1> QED BY <1>2, <1>6, <1>7, <1>8, <1>9, <1>11

\* Ones add up to the number of elements.
LEMMA SumOnes ==
    ASSUME NEW f, NEW S, IsFiniteSet(S), \A x \in S : f[x] = 1
    PROVE  SumFunctionOnSet(f, S) = Cardinality(S)
<1> DEFINE Bad == { V \in SUBSET S : SumFunctionOnSet(f, V) # Cardinality(V) }
<1> SUFFICES ASSUME Bad # {} PROVE FALSE
  OBVIOUS
<1> HIDE DEF Bad
<1>0. Bad \in SUBSET (SUBSET S)
  BY DEF Bad
<1>1. PICK B \in Bad : \A C \in SUBSET B : C \in Bad => C = B
  BY SmallestBad, <1>0
<1>2. B \in SUBSET S /\ SumFunctionOnSet(f, B) # Cardinality(B)
  BY DEF Bad
<1>3. IsFiniteSet(B)
  BY <1>2, FS_Subset
<1>4. B # {}
  BY <1>2, SumEmpty, FS_EmptySet
<1>5. First(B) \in B /\ B \ {First(B)} \in SUBSET B /\ B \ {First(B)} # B
  BY <1>4, FirstIn
<1>6. SumFunctionOnSet(f, B \ {First(B)}) = Cardinality(B \ {First(B)})
  BY <1>1, <1>2, <1>5 DEF Bad
<1>7. SumFunctionOnSet(f, B) = 1 + SumFunctionOnSet(f, B \ {First(B)})
  BY <1>2, <1>3, <1>4, <1>5, SumStep
<1>8. Cardinality(B \ {First(B)}) = Cardinality(B) - 1 /\ Cardinality(B) \in Nat
  BY <1>3, <1>5, FS_RemoveElement, FS_CardinalityType
<1> QED BY <1>2, <1>6, <1>7, <1>8

\* Positive summands have a positive sum.
LEMMA SumPositive ==
    ASSUME NEW f, NEW S, IsFiniteSet(S), S # {}, \A x \in S : f[x] \in Int /\ f[x] > 0
    PROVE  SumFunctionOnSet(f, S) \in Int /\ SumFunctionOnSet(f, S) > 0
<1> DEFINE Bad == { V \in SUBSET S : V # {} /\ ~(SumFunctionOnSet(f, V) > 0) }
<1>i. SumFunctionOnSet(f, S) \in Int
  BY SumInt DEF IntOn
<1> SUFFICES ASSUME Bad # {} PROVE FALSE
  BY <1>i
<1> HIDE DEF Bad
<1>0. Bad \in SUBSET (SUBSET S)
  BY DEF Bad
<1>1. PICK B \in Bad : \A C \in SUBSET B : C \in Bad => C = B
  BY SmallestBad, <1>0
<1>2. B \in SUBSET S /\ B # {} /\ ~(SumFunctionOnSet(f, B) > 0)
  BY DEF Bad
<1>3. IsFiniteSet(B)
  BY <1>2, FS_Subset
<1> DEFINE C == B \ {First(B)}
<1>5. First(B) \in B /\ C \in SUBSET B /\ C # B
  BY <1>2, FirstIn
<1>6. SumFunctionOnSet(f, B) = f[First(B)] + SumFunctionOnSet(f, C)
  BY <1>2, <1>3, SumStep
<1>7. f[First(B)] \in Int /\ f[First(B)] > 0
  BY <1>2, <1>5
<1>8. CASE C = {}
  BY <1>2, <1>6, <1>7, <1>8, SumEmpty
<1>9. CASE C # {}
  <2>1. SumFunctionOnSet(f, C) > 0
    BY <1>1, <1>2, <1>5, <1>9 DEF Bad
  <2>2. IsFiniteSet(C) /\ IntOn(f, C)
    BY <1>2, <1>5, FS_Subset DEF IntOn
  <2> HIDE DEF C
  <2>3. SumFunctionOnSet(f, C) \in Int
    BY <2>2, SumInt
  <2> QED BY <1>2, <1>6, <1>7, <2>1, <2>3
<1> QED BY <1>8, <1>9

\* What a function makes of a finite set is finite.
LEMMA FiniteImage ==
    ASSUME NEW S, IsFiniteSet(S), NEW key, NEW E,
           \A x \in S : key[x] \in E, \A e \in E : \E x \in S : key[x] = e
    PROVE  IsFiniteSet(E)
<1> DEFINE k == [x \in S |-> key[x]]
<1>1. k \in Surjection(S, E)
  BY DEF Surjection
<1> HIDE DEF k
<1>. QED  BY <1>1, FS_Surjection

\* The sums of the reports are over the rows they name.
LEMMA SumOfRows ==
    ASSUME NEW rows
    PROVE  /\ Cost(rows) = SumFunctionOnSet([r \in rows |-> r.cost], rows)
           /\ Km(rows) = SumFunctionOnSet([r \in rows |-> r.km], rows)
  BY DEF Cost, Km, SumFunction

\* GROUP BY loses no row and counts none twice: the entries of a breakdown
\* add up to the cost of all its rows.
LEMMA BreakdownIsPartition ==
    ASSUME NEW rows, IsFiniteSet(rows), \A r \in rows : r.cost \in Int, NEW column
    PROVE  CostOf(Breakdown(rows, column)) = Cost(rows)
<1> DEFINE Group(k) == { r \in rows : r[column] = k }
           Entry(k) == [of |-> k, cost |-> Cost(Group(k)), kwh |-> Kwh(Group(k)),
                        perKwh |-> Ratio(Cost(Group(k)), Kwh(Group(k)))]
           E   == Breakdown(rows, column)
           key == [r \in rows |-> Entry(r[column])]
           f   == [r \in rows |-> r.cost]
           h   == [e \in E |-> e.cost]
<1>1. E = { Entry(k) : k \in { r[column] : r \in rows } }
  BY DEF Breakdown
<1>2. \A k : Entry(k).of = k /\ Entry(k).cost = Cost(Group(k))
  OBVIOUS
<1>3. \A r \in rows : key[r] = Entry(r[column])
  OBVIOUS
<1>4. IsFiniteSet(E)
  <2>1. \A x \in rows : key[x] \in E
    BY <1>1, <1>3
  <2>2. ASSUME NEW e \in E PROVE \E x \in rows : key[x] = e
    <3>1. PICK k \in { r[column] : r \in rows } : e = Entry(k)
      BY <1>1
    <3>2. PICK x \in rows : k = x[column]
      OBVIOUS
    <3> HIDE DEF Entry, key
    <3>. QED  BY <3>1, <3>2, <1>3
  <2> HIDE DEF E, key
  <2>. QED  BY <2>1, <2>2, FiniteImage
<1> DEFINE grp == [e \in E |-> { x \in rows : key[x] = e }]
<1>g. \A e \in E : \A x : x \in grp[e] <=> x \in rows /\ key[x] = e
  <2> HIDE DEF E, key
  <2>. QED  OBVIOUS
<1> HIDE DEF grp
<1>5. ASSUME NEW e \in E
      PROVE  h[e] = SumFunctionOnSet(f, grp[e])
  <2>1. PICK k \in { r[column] : r \in rows } : e = Entry(k)
    BY <1>1
  <2>2. \A x \in rows : key[x] = e <=> x[column] = k
    <3> HIDE DEF Entry
    <3>. QED  BY <1>2, <1>3, <2>1
  <2>3. grp[e] = Group(k)
    <3> HIDE DEF key, E
    <3>. QED  BY <1>g, <2>2
  <2>4. h[e] = Cost(Group(k))
    <3>1. e.cost = Cost(Group(k))
      BY <1>2, <2>1
    <3> HIDE DEF E
    <3>. QED  BY <3>1
  <2>5. Cost(Group(k)) = SumFunctionOnSet([r \in Group(k) |-> r.cost], Group(k))
    BY SumOfRows
  <2>6. SumFunctionOnSet([r \in Group(k) |-> r.cost], Group(k)) =
            SumFunctionOnSet(f, Group(k))
    <3>1. IsFiniteSet(Group(k))
      BY FS_Subset
    <3>2. \A x \in Group(k) : [r \in Group(k) |-> r.cost][x] = f[x]
      OBVIOUS
    <3> DEFINE ff == [r \in Group(k) |-> r.cost]
    <3> HIDE DEF ff, f
    <3>. QED  BY <3>1, <3>2, SumCongruence DEF ff
  <2>. QED  BY <2>3, <2>4, <2>5, <2>6
<1>6. IntOn(f, rows) /\ \A x \in rows : key[x] \in E
  BY <1>1, <1>3 DEF IntOn
<1>7. CostOf(E) = SumFunctionOnSet(h, E)
  <2> HIDE DEF E
  <2>. QED  BY DEF CostOf, SumFunction
<1>8. Cost(rows) = SumFunctionOnSet(f, rows)
  BY SumOfRows
<1> HIDE DEF E, key, f, h
<1>9. SumFunctionOnSet(h, E) = SumFunctionOnSet(f, rows)
  BY <1>4, <1>5, <1>6, <1>g, SumPartition
<1>. QED  BY <1>7, <1>8, <1>9 DEF E

\* What a request for another report asks for.
LEMMA AsFields ==
    ASSUME NEW q \in Requests, NEW m
    PROVE  /\ As(q, m).method = m
           /\ As(q, m).vehicle = q.vehicle /\ As(q, m).spelling = q.spelling
           /\ As(q, m).from = q.from /\ As(q, m).to = q.to
  BY ReportsAssumption DEF As

\* The reports with a time window select the same rows.
LEMMA SameRows ==
    ASSUME NEW q \in Requests, q.method = "GetVehicleCostSummary", NEW rows,
           NEW m \in {"GetCostByChargerType", "GetCostBySourceCategory",
                      "GetConsumptionEfficiency", "GetRangeAccuracy",
                      "GetTemperatureConsumptionCorrelation"}
    PROVE  Selected(As(q, m), rows) = Selected(q, rows)
<1>1. \A r : InPeriod(As(q, m), r) <=> InPeriod(q, r)
  <2> TAKE r
  <2>1. InPeriod(q, r) <=> InWindow(q, r)
    BY DEF InPeriod
  <2>2. InPeriod(As(q, m), r) <=> InWindow(As(q, m), r)
    BY AsFields DEF InPeriod
  <2>3. InWindow(As(q, m), r) <=> InWindow(q, r)
    BY AsFields DEF InWindow
  <2>. QED  BY <2>1, <2>2, <2>3
<1>2. \A r : SameText(As(q, m), r) <=> SameText(q, r)
  BY AsFields DEF SameText
<1>3. /\ ~(As(q, m).method \in {"GetMonthlyReport", "GetAnnualReport"})
      /\ ~(q.method \in {"GetMonthlyReport", "GetAnnualReport"})
  BY AsFields
<1>. QED  BY <1>1, <1>2, <1>3 DEF Selected

\* Efficiency and range accuracy of the same consumptions list the same
\* vehicles with the same mileage.
LEMMA SameMileage ==
    ASSUME NEW q, NEW p, NEW ch, NEW co, NEW k, Selected(p, co) = k
    PROVE  { <<e.vehicle, e.km>> : e \in GetConsumptionEfficiency(q, ch, k) } =
           { <<e.vehicle, e.actual>> : e \in GetRangeAccuracy(p, co) }
<1> DEFINE Pairs == { <<v, Km(OfVehicle(k, v))>> : v \in VehiclesOf(k) }
           kwh(v) == Kwh(OfVehicle(Selected(q, ch), v))
           km(v)  == Km(OfVehicle(k, v))
           lost(v) == RangeLost(OfVehicle(k, v))
           A(v) == [vehicle |-> v, km |-> km(v), kwh |-> kwh(v),
                    kmPerKwh |-> Ratio(km(v), kwh(v)),
                    kwhPer100Km |-> Ratio(100 * kwh(v), km(v))]
           B(v) == [vehicle |-> v, dashboard |-> lost(v), actual |-> km(v),
                    ratio |-> Ratio(km(v), lost(v))]
<1>1. /\ GetConsumptionEfficiency(q, ch, k) = { A(v) : v \in VehiclesOf(k) }
      /\ GetRangeAccuracy(p, co) = { B(v) : v \in VehiclesOf(k) }
  BY DEF GetConsumptionEfficiency, GetRangeAccuracy
<1>2. \A v : /\ A(v).vehicle = v /\ A(v).km = km(v)
             /\ B(v).vehicle = v /\ B(v).actual = km(v)
  OBVIOUS
<1> HIDE DEF A, B
<1>3. { <<e.vehicle, e.km>> : e \in { A(v) : v \in VehiclesOf(k) } } = Pairs
  BY <1>2
<1>4. { <<e.vehicle, e.actual>> : e \in { B(v) : v \in VehiclesOf(k) } } = Pairs
  BY <1>2
<1>. QED  BY <1>1, <1>3, <1>4

\* The temperature buckets lose and repeat no consumption and no kilometre.
LEMMA BucketsArePartition ==
    ASSUME NEW q, NEW ch, NEW co, IsFiniteSet(co), \A r \in co : r.km \in Int
    PROVE  LET buckets == GetTemperatureConsumptionCorrelation(q, ch, co)
               events  == { r \in Selected(q, co) : r.km > 0 }
           IN  /\ SumFunction([b \in buckets |-> b.count]) = Cardinality(events)
               /\ SumFunction([b \in buckets |-> b.kwhPer100Km[2]]) = Km(events)
<1> DEFINE events == { r \in Selected(q, co) : r.km > 0 }
           Group(b) == { r \in events : TemperatureBucket(r) = b }
           Energy(b) == 100 * SumFunction([r \in Group(b) |-> Kwh(ChargedFor(r, ch))])
           Entry(b) == [label |-> b, count |-> Cardinality(Group(b)),
                        kwhPer100Km |-> Ratio(Energy(b), Km(Group(b)))]
           E   == GetTemperatureConsumptionCorrelation(q, ch, co)
           key == [r \in events |-> Entry(TemperatureBucket(r))]
           one == [r \in events |-> 1]
           km  == [r \in events |-> r.km]
           hc  == [b \in E |-> b.count]
           hk  == [b \in E |-> b.kwhPer100Km[2]]
<1>1. E = { Entry(b) : b \in { TemperatureBucket(r) : r \in events } }
  BY DEF GetTemperatureConsumptionCorrelation
<1>2. \A b : /\ Entry(b).label = b
             /\ Entry(b).count = Cardinality(Group(b))
             /\ Entry(b).kwhPer100Km = Ratio(Energy(b), Km(Group(b)))
  OBVIOUS
<1>3. \A r \in events : key[r] = Entry(TemperatureBucket(r))
  OBVIOUS
<1>4. IsFiniteSet(events) /\ \A r \in events : r.km \in Int /\ r.km > 0
  BY FS_Subset DEF Selected
<1>5. \A r \in events : one[r] = 1 /\ km[r] = r.km
  OBVIOUS
<1> HIDE DEF events, Entry, Energy, one, km, key, E
<1>6. \A x \in events : key[x] \in E
  BY <1>1, <1>3
<1>7. ASSUME NEW e \in E
      PROVE  \E x \in events : e = Entry(TemperatureBucket(x)) /\ key[x] = e
  BY <1>1, <1>3
<1>8. IsFiniteSet(E)
  BY <1>4, <1>6, <1>7, FiniteImage
<1> DEFINE grp == [e \in E |-> { x \in events : key[x] = e }]
<1>g. \A e \in E : \A x : x \in grp[e] <=> x \in events /\ key[x] = e
  OBVIOUS
<1> HIDE DEF grp
<1>9. ASSUME NEW e \in E
      PROVE  hc[e] = SumFunctionOnSet(one, grp[e]) /\ hk[e] = SumFunctionOnSet(km, grp[e])
  <2>1. PICK x \in events : e = Entry(TemperatureBucket(x)) /\ key[x] = e
    BY <1>7
  <2> DEFINE b == TemperatureBucket(x)
             g == Group(b)
  <2>2. \A y \in events : key[y] = e <=> TemperatureBucket(y) = b
    BY <1>2, <1>3, <2>1
  <2>3. grp[e] = g
    BY <1>g, <2>2
  <2>4. IsFiniteSet(g) /\ g # {} /\ g \subseteq events
    BY <1>4, FS_Subset
  <2>5. e.count = Cardinality(g) /\ e.kwhPer100Km = Ratio(Energy(b), Km(g))
    BY <1>2, <2>1
  <2> HIDE DEF g, b
  <2>6. SumFunctionOnSet(one, g) = Cardinality(g)
    BY <1>5, <2>4, SumOnes
  <2>7. Km(g) = SumFunctionOnSet(km, g)
    <3> DEFINE kg == [r \in g |-> r.km]
    <3>1. \A y \in g : kg[y] = km[y]
      BY <1>5, <2>4
    <3>2. Km(g) = SumFunctionOnSet(kg, g)
      BY SumOfRows
    <3> HIDE DEF kg
    <3>. QED  BY <2>4, <3>1, <3>2, SumCongruence
  <2>8. SumFunctionOnSet(km, g) \in Int /\ SumFunctionOnSet(km, g) > 0
    BY <1>4, <1>5, <2>4, SumPositive
  <2>9. e.kwhPer100Km[2] = Km(g)
    BY <2>5, <2>7, <2>8 DEF Ratio
  <2>. QED  BY <2>3, <2>5, <2>6, <2>7, <2>9
<1>10. IntOn(one, events) /\ IntOn(km, events)
  BY <1>4, <1>5 DEF IntOn
<1>11. /\ SumFunction(hc) = SumFunctionOnSet(hc, E)
       /\ SumFunction(hk) = SumFunctionOnSet(hk, E)
  BY DEF SumFunction
<1>12. Km(events) = SumFunctionOnSet(km, events)
  BY SumOfRows DEF km
<1>13. Cardinality(events) = SumFunctionOnSet(one, events)
  BY <1>4, <1>5, SumOnes
<1>14. SumFunctionOnSet(hc, E) = SumFunctionOnSet(one, events)
  <2>1. \A e \in E : hc[e] = SumFunctionOnSet(one, grp[e])
    BY <1>9
  <2>2. IsFiniteSet(events) /\ IntOn(one, events)
    BY <1>4, <1>10
  <2> HIDE DEF hc, hk, Group
  <2>. QED  BY <1>6, <1>8, <1>g, <2>1, <2>2, SumPartition
<1>15. SumFunctionOnSet(hk, E) = SumFunctionOnSet(km, events)
  <2>1. \A e \in E : hk[e] = SumFunctionOnSet(km, grp[e])
    BY <1>9
  <2>2. IsFiniteSet(events) /\ IntOn(km, events)
    BY <1>4, <1>10
  <2> HIDE DEF hc, hk, Group
  <2>. QED  BY <1>6, <1>8, <1>g, <2>1, <2>2, SumPartition
<1>. QED  BY <1>11, <1>12, <1>13, <1>14, <1>15 DEF E, events


\* What the assumption says of the rows that a table can hold.
LEMMA TableFacts ==
    ASSUME TypeOK
    PROVE  /\ IsFiniteSet(charging) /\ IsFiniteSet(consumption)
           /\ \A c \in charging : c.cost \in Int /\ CalendarDay(c.day)
           /\ \A r \in consumption : r.km \in Int
<1>1. charging \in SUBSET ChargingRows /\ consumption \in SUBSET ConsumptionRows
  BY DEF TypeOK
<1>2. IsFiniteSet(ChargingRows) /\ IsFiniteSet(ConsumptionRows)
  BY ReportsAssumption
<1>3. IsFiniteSet(charging) /\ IsFiniteSet(consumption)
  BY <1>1, <1>2, FS_Subset
<1>4. \A c \in ChargingRows : c.cost \in Nat /\ CalendarDay(c.day)
  BY ReportsAssumption
<1>5. \A r \in ConsumptionRows : r.km \in Int
  BY ReportsAssumption
<1>6. \A c \in charging : c.cost \in Int /\ CalendarDay(c.day)
  BY <1>1, <1>4
<1>. QED  BY <1>1, <1>3, <1>5, <1>6

\* In every state of the tables the breakdowns and the cost summary agree.
LEMMA TypedBreakdowns == TypeOK => BreakdownsAddUp
<1> SUFFICES ASSUME TypeOK, NEW q \in Requests, q.method = "GetVehicleCostSummary"
             PROVE  LET total == GetVehicleCostSummary(q, charging, consumption)
                        km    == { <<e.vehicle, e.km>> : e \in
                               GetConsumptionEfficiency(
                                   As(q, "GetConsumptionEfficiency"), charging,
                                   Selected(As(q, "GetConsumptionEfficiency"),
                                            consumption)) }
                        driven == { <<e.vehicle, e.actual>> : e \in
                               GetRangeAccuracy(As(q, "GetRangeAccuracy"),
                                                consumption) }
                        correlation == As(q, "GetTemperatureConsumptionCorrelation")
                        buckets == GetTemperatureConsumptionCorrelation(
                                   correlation, charging, consumption)
                        events == { r \in Selected(correlation, consumption) : r.km > 0 }
                    IN  /\ CostOf(GetCostByChargerType(
                              As(q, "GetCostByChargerType"), charging)) = total.cost
                        /\ CostOf(GetCostBySourceCategory(
                              As(q, "GetCostBySourceCategory"), charging)) = total.cost
                        /\ km = driven
                        /\ SumFunction([b \in buckets |-> b.count]) = Cardinality(events)
                        /\ SumFunction([b \in buckets |-> b.kwhPer100Km[2]]) = Km(events)
  BY DEF BreakdownsAddUp
<1> DEFINE rows == Selected(q, charging)
<1>1. IsFiniteSet(rows) /\ \A r \in rows : r.cost \in Int
  <2>1. rows \in SUBSET charging
    BY DEF Selected
  <2>. QED  BY <2>1, TableFacts, FS_Subset
<1>2. GetVehicleCostSummary(q, charging, consumption).cost = Cost(rows)
  BY DEF GetVehicleCostSummary
<1>3. CostOf(GetCostByChargerType(As(q, "GetCostByChargerType"), charging)) = Cost(rows)
  <2>1. Selected(As(q, "GetCostByChargerType"), charging) = rows
    BY SameRows
  <2> HIDE DEF rows
  <2>2. CostOf(Breakdown(rows, "type")) = Cost(rows)
    BY <1>1, BreakdownIsPartition
  <2>. QED  BY <2>1, <2>2 DEF GetCostByChargerType
<1>4. CostOf(GetCostBySourceCategory(As(q, "GetCostBySourceCategory"), charging)) =
          Cost(rows)
  <2>1. Selected(As(q, "GetCostBySourceCategory"), charging) = rows
    BY SameRows
  <2> HIDE DEF rows
  <2>2. CostOf(Breakdown(rows, "category")) = Cost(rows)
    BY <1>1, BreakdownIsPartition
  <2>. QED  BY <2>1, <2>2 DEF GetCostBySourceCategory
<1>5. { <<e.vehicle, e.km>> : e \in
            GetConsumptionEfficiency(
                As(q, "GetConsumptionEfficiency"), charging,
                Selected(As(q, "GetConsumptionEfficiency"), consumption)) } =
      { <<e.vehicle, e.actual>> : e \in
            GetRangeAccuracy(As(q, "GetRangeAccuracy"), consumption) }
  <2>1. Selected(As(q, "GetRangeAccuracy"), consumption) =
            Selected(As(q, "GetConsumptionEfficiency"), consumption)
    BY SameRows
  <2>. QED  BY <2>1, SameMileage
<1> DEFINE correlation == As(q, "GetTemperatureConsumptionCorrelation")
           buckets == GetTemperatureConsumptionCorrelation(
                          correlation, charging, consumption)
           events == { r \in Selected(correlation, consumption) : r.km > 0 }
<1>6. /\ SumFunction([b \in buckets |-> b.count]) = Cardinality(events)
      /\ SumFunction([b \in buckets |-> b.kwhPer100Km[2]]) = Km(events)
  BY TableFacts, BucketsArePartition
<1>. QED  BY <1>2, <1>3, <1>4, <1>5, <1>6

\* The breakdowns add up to the cost summary, for every set of rows and of
\* requests: no charger type, source category or temperature bucket loses a
\* row or counts one twice.
THEOREM BreakdownsAddUpHolds == Spec => []BreakdownsAddUp
  BY ReportTypeCorrect, TypedBreakdowns, PTL

\* LastDayOfMonth knows the calendar.
LEMMA DayFits ==
    ASSUME NEW y \in Int, NEW m \in 1 .. 12, NEW d \in Int,
           \/ d \in 1 .. 28
           \/ /\ d = 29
              /\ \/ m # 2
                 \/ y % 4 = 0 /\ (y % 100 # 0 \/ y % 400 = 0)
           \/ d = 30 /\ m # 2
           \/ d = 31 /\ m \in {1, 3, 5, 7, 8, 10, 12}
    PROVE  d \in 1 .. 31 /\ d <= LastDayOfMonth(y, m)
  BY DEF LastDayOfMonth

\* The day of a charging in its month is one that the daily report accepts.
LEMMA DayOfMonth ==
    ASSUME NEW x, CalendarDay(x)
    PROVE  /\ x % 100 \in 1 .. 31
           /\ x % 100 <= LastDayOfMonth(Year(x), Month(x))
           /\ x = 10000 * Year(x) + 100 * Month(x) + (x % 100)
           /\ Year(x) \in Int /\ Month(x) \in 1 .. 12
<1>1. x \in Nat /\ Month(x) \in 1 .. 12
  BY DEF CalendarDay
<1>2. /\ Year(x) \in Int /\ x % 100 \in Int
      /\ x = 10000 * Year(x) + 100 * Month(x) + (x % 100)
  BY <1>1 DEF Year, Month
<1>3. \/ x % 100 \in 1 .. 28
      \/ /\ x % 100 = 29
         /\ \/ Month(x) # 2
            \/ Year(x) % 4 = 0 /\ (Year(x) % 100 # 0 \/ Year(x) % 400 = 0)
      \/ x % 100 = 30 /\ Month(x) # 2
      \/ x % 100 = 31 /\ Month(x) \in {1, 3, 5, 7, 8, 10, 12}
  BY Zenon DEF CalendarDay
<1>4. x % 100 \in 1 .. 31 /\ x % 100 <= LastDayOfMonth(Year(x), Month(x))
  <2> DEFINE y == Year(x)
             m == Month(x)
             d == x % 100
  <2>1. y \in Int /\ m \in 1 .. 12 /\ d \in Int
    BY <1>1, <1>2
  <2>2. \/ d \in 1 .. 28
        \/ /\ d = 29
           /\ \/ m # 2
              \/ y % 4 = 0 /\ (y % 100 # 0 \/ y % 400 = 0)
        \/ d = 30 /\ m # 2
        \/ d = 31 /\ m \in {1, 3, 5, 7, 8, 10, 12}
    BY <1>3, Zenon
  <2> HIDE DEF y, m, d
  <2>3. d \in 1 .. 31 /\ d <= LastDayOfMonth(y, m)
    BY <2>1, <2>2, DayFits
  <2>. QED  BY <2>3, Zenon DEF y, m, d
<1>. QED  BY <1>1, <1>2, <1>4

\* The monthly and the daily charging report on a part of an annual one.
MonthOf(q, m) == [As(q, "GetMonthlyChargingReport") EXCEPT !.month = m]
DayOf(q, m, d) == [As(q, "GetDailyChargingReport") EXCEPT !.month = m, !.day = d]

\* What the annual charging report selects.
LEMMA AnnualRows ==
    ASSUME NEW q, q.method = "GetAnnualChargingReport", NEW rows
    PROVE  Selected(q, rows) =
             { r \in rows : Year(r.day) = q.year /\ SameText(q, r) }
<1>1. \A r : InPeriod(q, r) <=> Year(r.day) = q.year
  BY DEF InPeriod
<1>. QED  BY <1>1 DEF Selected

\* What the monthly charging report selects.
LEMMA MonthlyRows ==
    ASSUME NEW q \in Requests, NEW m, NEW rows
    PROVE  Selected(MonthOf(q, m), rows) =
             { r \in rows : /\ Year(r.day) = q.year /\ Month(r.day) = m
                            /\ SameText(q, r) }
<1> DEFINE monthly == MonthOf(q, m)
<1>1. /\ monthly.method = "GetMonthlyChargingReport" /\ monthly.month = m
      /\ monthly.vehicle = q.vehicle /\ monthly.spelling = q.spelling
      /\ monthly.year = q.year
  BY ReportsAssumption DEF As, MonthOf
<1> HIDE DEF monthly
<1>2. \A r : InPeriod(monthly, r) <=> Year(r.day) = q.year /\ Month(r.day) = m
  BY <1>1 DEF InPeriod
<1>3. \A r : SameText(monthly, r) <=> SameText(q, r)
  BY <1>1 DEF SameText
<1>4. Selected(monthly, rows) =
        { r \in rows : /\ Year(r.day) = q.year /\ Month(r.day) = m
                       /\ SameText(q, r) }
  BY <1>1, <1>2, <1>3 DEF Selected
<1>. QED  BY <1>4 DEF monthly

\* The days that the daily charging report refuses.
LEMMA DailyRefused ==
    ASSUME NEW q \in Requests, NEW m \in 1 .. 12, NEW d
    PROVE  Invalid(DayOf(q, m, d)) <=>
             q.year < 1900 \/ d \notin 1 .. LastDayOfMonth(q.year, m)
<1> DEFINE daily == DayOf(q, m, d)
<1>1. /\ daily.method = "GetDailyChargingReport"
      /\ daily.month = m /\ daily.day = d /\ daily.year = q.year
  BY ReportsAssumption DEF As, DayOf
<1> HIDE DEF daily
<1>2. Invalid(daily) <=>
        q.year < 1900 \/ d \notin 1 .. LastDayOfMonth(q.year, m)
  BY <1>1 DEF Invalid
<1>. QED  BY <1>2 DEF daily

\* What the daily charging report selects.
LEMMA DailyRows ==
    ASSUME NEW q \in Requests, NEW m, NEW d, NEW rows
    PROVE  Selected(DayOf(q, m, d), rows) =
             { r \in rows : /\ r.day = 10000 * q.year + 100 * m + d
                            /\ SameText(q, r) }
<1> DEFINE daily == DayOf(q, m, d)
<1>1. /\ daily.method = "GetDailyChargingReport"
      /\ daily.month = m /\ daily.day = d
      /\ daily.vehicle = q.vehicle /\ daily.spelling = q.spelling
      /\ daily.year = q.year
  BY ReportsAssumption DEF As, DayOf
<1> HIDE DEF daily
<1>2. \A r : InPeriod(daily, r) <=> r.day = 10000 * q.year + 100 * m + d
  BY <1>1 DEF InPeriod
<1>3. \A r : SameText(daily, r) <=> SameText(q, r)
  BY <1>1 DEF SameText
<1>4. Selected(daily, rows) =
        { r \in rows : /\ r.day = 10000 * q.year + 100 * m + d
                       /\ SameText(q, r) }
  BY <1>1, <1>2, <1>3 DEF Selected
<1>. QED  BY <1>4 DEF daily

\* The days of a month and the months of a year are finitely many.
LEMMA FiniteCalendar == IsFiniteSet(1 .. 12) /\ IsFiniteSet(1 .. 31)
<1>1. 1 \in Int /\ 12 \in Int /\ 31 \in Int
  OBVIOUS
<1>. QED  BY <1>1, FS_Interval, Zenon

\* In every state of the tables the daily, monthly and annual charging
\* reports agree.
LEMMA TypedPeriods == TypeOK => PeriodsAddUp
<1> SUFFICES ASSUME TypeOK, NEW q \in Requests,
                    q.method = "GetAnnualChargingReport", ~Invalid(q)
             PROVE  /\ ChargingReport(q, charging).count =
                         SumFunction([m \in 1 .. 12 |->
                             ChargingReport(MonthOf(q, m), charging).count])
                    /\ \A m \in 1 .. 12 :
                         ChargingReport(MonthOf(q, m), charging).cost =
                           SumFunction([d \in { d \in 1 .. 31 :
                                                ~Invalid(DayOf(q, m, d)) } |->
                               ChargingReport(DayOf(q, m, d), charging).cost])
  BY DEF PeriodsAddUp, MonthOf, DayOf
<1> DEFINE days(m) == { d \in 1 .. 31 : ~Invalid(DayOf(q, m, d)) }
           year == Selected(q, charging)
           month(m) == Selected(MonthOf(q, m), charging)
           day(m, d) == Selected(DayOf(q, m, d), charging)
<1>1. q.year \in Int /\ q.year >= 1900
  BY ReportsAssumption DEF Invalid
<1>2. \A c \in charging : c.cost \in Int /\ CalendarDay(c.day)
  BY TableFacts
<1>3. year = { r \in charging : Year(r.day) = q.year /\ SameText(q, r) }
  BY AnnualRows
<1>4. \A m \in 1 .. 12 :
        month(m) = { r \in charging : /\ Year(r.day) = q.year /\ Month(r.day) = m
                                      /\ SameText(q, r) }
  BY MonthlyRows
<1>5. ASSUME NEW m \in 1 .. 12, NEW d \in 1 .. 31
      PROVE  /\ day(m, d) =
                  { r \in charging : /\ r.day = 10000 * q.year + 100 * m + d
                                     /\ SameText(q, r) }
             /\ Invalid(DayOf(q, m, d)) <=>
                  q.year < 1900 \/ d \notin 1 .. LastDayOfMonth(q.year, m)
  <2>1. \A r : r \in day(m, d) <=> /\ r \in charging /\ SameText(q, r)
                                   /\ r.day = 10000 * q.year + 100 * m + d
    BY DailyRows
  <2>2. Invalid(DayOf(q, m, d)) <=>
          q.year < 1900 \/ d \notin 1 .. LastDayOfMonth(q.year, m)
    BY DailyRefused
  <2>. QED  BY <2>1, <2>2
<1>6. ASSUME NEW rows \in SUBSET charging PROVE IsFiniteSet(rows)
  BY TableFacts, FS_Subset
<1> HIDE DEF year, month, day
<1>7. year \in SUBSET charging /\ \A m \in 1 .. 12 : month(m) \in SUBSET charging
  BY <1>3, <1>4
<1>8. ChargingReport(q, charging).count =
          SumFunction([m \in 1 .. 12 |-> ChargingReport(MonthOf(q, m), charging).count])
  <2> DEFINE E   == 1 .. 12
             h   == [m \in E |-> ChargingReport(MonthOf(q, m), charging).count]
             one == [r \in year |-> 1]
             key == [r \in year |-> Month(r.day)]
             grp == [m \in E |-> month(m)]
  <2>1. IsFiniteSet(year) /\ IntOn(one, year)
    BY <1>6, <1>7 DEF IntOn
  <2>2. IsFiniteSet(E)
    BY FiniteCalendar
  <2>3. \A x \in year : key[x] \in E
    BY <1>2, <1>3 DEF CalendarDay
  <2>4. ASSUME NEW m \in E PROVE \A x : x \in grp[m] <=> x \in year /\ key[x] = m
    BY <1>3, <1>4
  <2>5. ASSUME NEW m \in E PROVE h[m] = SumFunctionOnSet(one, grp[m])
    <3>1. h[m] = Cardinality(month(m)) /\ grp[m] = month(m)
      BY DEF ChargingReport, month
    <3>2. IsFiniteSet(month(m)) /\ \A x \in month(m) : one[x] = 1
      BY <1>6, <1>7, <2>4, <3>1
    <3> HIDE DEF one
    <3>. QED  BY <3>1, <3>2, SumOnes
  <2>6. ChargingReport(q, charging).count = Cardinality(year)
    BY DEF ChargingReport, year
  <2>7. \A x \in year : one[x] = 1
    OBVIOUS
  <2>8. SumFunction(h) = SumFunctionOnSet(h, E)
    BY DEF SumFunction
  <2> HIDE DEF E, h, one, key, grp
  <2>9. SumFunctionOnSet(h, E) = SumFunctionOnSet(one, year)
    BY <2>1, <2>2, <2>3, <2>4, <2>5, SumPartition
  <2>10. SumFunctionOnSet(one, year) = Cardinality(year)
    BY <2>1, <2>7, SumOnes
  <2>. QED  BY <2>6, <2>8, <2>9, <2>10 DEF E, h
<1>9. ASSUME NEW m \in 1 .. 12
      PROVE  ChargingReport(MonthOf(q, m), charging).cost =
               SumFunction([d \in days(m) |->
                   ChargingReport(DayOf(q, m, d), charging).cost])
  <2> DEFINE E   == days(m)
             S   == month(m)
             h   == [d \in E |-> ChargingReport(DayOf(q, m, d), charging).cost]
             f   == [r \in S |-> r.cost]
             key == [r \in S |-> r.day % 100]
             grp == [d \in E |-> day(m, d)]
  <2>1. IsFiniteSet(S) /\ IntOn(f, S)
    BY <1>2, <1>6, <1>7 DEF IntOn
  <2>2. IsFiniteSet(E)
    <3>1. IsFiniteSet(1 .. 31)
      BY FiniteCalendar
    <3>2. E \in SUBSET (1 .. 31)
      OBVIOUS
    <3> HIDE DEF E
    <3>. QED  BY <3>1, <3>2, FS_Subset
  <2>3. ASSUME NEW x \in S
        PROVE  /\ key[x] = x.day % 100 /\ key[x] \in E
               /\ x.day = 10000 * q.year + 100 * m + key[x]
    <3>1. x \in charging /\ Year(x.day) = q.year /\ Month(x.day) = m
      BY <1>4
    <3>2. CalendarDay(x.day)
      BY <1>2, <3>1
    <3>3. /\ x.day % 100 \in 1 .. 31
          /\ x.day % 100 <= LastDayOfMonth(q.year, m)
          /\ x.day = 10000 * q.year + 100 * m + (x.day % 100)
      BY <3>1, <3>2, DayOfMonth
    <3>4. key[x] = x.day % 100
      OBVIOUS
    <3> HIDE DEF key
    <3>5. key[x] \in 1 .. 31 /\ key[x] \in 1 .. LastDayOfMonth(q.year, m)
      <4>1. LastDayOfMonth(q.year, m) \in Int
        BY DEF LastDayOfMonth
      <4>. QED  BY <3>3, <3>4, <4>1
    <3>6. ~Invalid(DayOf(q, m, key[x]))
      BY <1>1, <1>5, <3>5
    <3>. QED  BY <3>3, <3>4, <3>5, <3>6
  <2>4. ASSUME NEW d \in E
        PROVE  \A x : x \in grp[d] <=> x \in S /\ key[x] = d
    <3> TAKE x
    <3>1. d \in 1 .. 31 /\ grp[d] = day(m, d)
      OBVIOUS
    <3>2. x \in grp[d] <=> /\ x \in charging /\ SameText(q, x)
                           /\ x.day = 10000 * q.year + 100 * m + d
      BY <1>5, <3>1
    <3>3. ASSUME x \in grp[d] PROVE x \in S /\ key[x] = d
      <4>1. Year(x.day) = q.year /\ Month(x.day) = m /\ x.day % 100 = d
        <5> DEFINE X == x.day
                   Y == q.year
        <5>1. X = 10000 * Y + 100 * m + d /\ Y \in Nat /\ d \in 1 .. 31
          BY <1>1, <3>1, <3>2, <3>3
        <5> HIDE DEF X, Y
        <5>2. X \div 10000 = Y /\ X \div 100 = 100 * Y + m /\ X % 100 = d
          BY <5>1
        <5>3. (100 * Y + m) % 100 = m
          BY <5>1
        <5>. QED  BY <5>2, <5>3 DEF X, Y, Year, Month
      <4>2. x \in S
        BY <1>4, <3>2, <3>3, <4>1
      <4>. QED  BY <4>1, <4>2
    <3>4. ASSUME x \in S, key[x] = d PROVE x \in grp[d]
      <4>1. x \in charging /\ SameText(q, x)
        BY <1>4, <3>4
      <4>. QED  BY <2>3, <3>2, <3>4, <4>1
    <3>. QED  BY <3>3, <3>4
  <2>5. ASSUME NEW d \in E PROVE h[d] = SumFunctionOnSet(f, grp[d])
    <3> DEFINE g == day(m, d)
               fg == [r \in g |-> r.cost]
    <3>1. h[d] = Cost(g) /\ grp[d] = g
      BY DEF ChargingReport, day
    <3>2. g \subseteq S /\ IsFiniteSet(g)
      <4>1. g \subseteq S
        BY <2>4, <3>1
      <4>. QED  BY <2>1, <4>1, FS_Subset
    <3>3. \A x \in g : fg[x] = f[x]
      BY <3>2
    <3>4. Cost(g) = SumFunctionOnSet(fg, g)
      BY SumOfRows
    <3> HIDE DEF f, fg, g
    <3>5. SumFunctionOnSet(fg, g) = SumFunctionOnSet(f, g)
      BY <3>2, <3>3, SumCongruence
    <3>. QED  BY <3>1, <3>4, <3>5
  <2>6. ChargingReport(MonthOf(q, m), charging).cost = SumFunctionOnSet(f, S)
    <3>1. ChargingReport(MonthOf(q, m), charging).cost = Cost(S)
      BY DEF ChargingReport, month
    <3>. QED  BY <3>1, SumOfRows
  <2>7. SumFunction(h) = SumFunctionOnSet(h, E)
    <3> HIDE DEF E
    <3>. QED  BY DEF SumFunction
  <2>8. \A x \in S : key[x] \in E
    BY <2>3
  <2> HIDE DEF E, S, h, f, key, grp
  <2>9. SumFunctionOnSet(h, E) = SumFunctionOnSet(f, S)
    BY <2>1, <2>2, <2>4, <2>5, <2>8, SumPartition
  <2>. QED  BY <2>6, <2>7, <2>9 DEF E, h
<1>. QED  BY <1>8, <1>9

\* No charging falls between the reports, for every set of rows and of
\* requests: the daily charging reports that LastDayOfMonth lets through add
\* up to the monthly ones, and those to the annual one.
THEOREM PeriodsAddUpHolds == Spec => []PeriodsAddUp
  BY ReportTypeCorrect, TypedPeriods, PTL
=============================================================================
