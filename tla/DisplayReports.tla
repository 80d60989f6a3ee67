--------------------------- MODULE DisplayReports ---------------------------
(***************************************************************************)
(* The reports of DisplayService (src/src/services/display_service.cc)     *)
(* while other clients create and delete chargings and consumptions.       *)
(*                                                                         *)
(* A handler runs its statements in a pqxx::nontransaction: every          *)
(* statement sees the rows that are committed when it runs.  Three reports *)
(* first ask whether there is any charging (EXISTS) and then aggregate;    *)
(* GetConsumptionEfficiency aggregates the two tables in two statements    *)
(* and joins them itself; the others run one statement.                    *)
(*                                                                         *)
(* A day is the number yyyymmdd and a time the first moment of its day.    *)
(* Every session of the pool runs in UTC, so year, month and day of a      *)
(* start time are those of its UTC date.                                   *)
(* Money, energy and mileage are small integers.  A quotient is the pair   *)
(* of its parts, and NoRatio (0.0 in the code) when the divisor is not     *)
(* positive.                                                               *)
(***************************************************************************)
EXTENDS Integers, Sequences, FiniteSets, FiniteSetsExt

CONSTANTS
    ChargingRows,       \* chargings that may exist:
                        \* [id, vehicle, day, cost, kwh, type, category]
    ConsumptionRows,    \* consumptions that may exist:
                        \* [id, vehicle, day, end, km, range, high, low]
    Requests,           \* the requests that arrive: [method, vehicle,
                        \* spelling, from, to, year, month, day]
    MaxWrites           \* bound: writes by others during one report

AnyVehicle == "any"     \* vehicle_id is empty
Unset == 0              \* start_time or end_time is not set

VARIABLES
    charging,       \* the table
    consumption,    \* the table
    pc,             \* where the handler is
    req,            \* its request
    kmRows,         \* GetConsumptionEfficiency: what its first statement saw
    status,
    reply,
    states,         \* history: the tables since the report began, in order
    writes          \* writes since then

vars == <<charging, consumption, pc, req, kmRows, status, reply, states, writes>>

PreChecked == {"GetVehicleCostSummary", "GetMonthlyReport", "GetAnnualReport"}

OneStatement ==
    {"GetCostByChargerType", "GetCostBySourceCategory", "GetRangeAccuracy",
     "GetTemperatureConsumptionCorrelation", "GetDailyChargingReport", "GetMonthlyChargingReport",
     "GetAnnualChargingReport"}

Methods == PreChecked \cup OneStatement \cup {"GetConsumptionEfficiency"}

Year(d) == d \div 10000
Month(d) == (d \div 100) % 100

\* A day of PostgreSQL's calendar: a start time lies in no other.
CalendarDay(d) ==
    /\ d \in Nat
    /\ Month(d) \in 1 .. 12
    /\ \/ d % 100 \in 1 .. 28
       \/ /\ d % 100 = 29
          /\ \/ Month(d) # 2
             \/ Year(d) % 4 = 0 /\ (Year(d) % 100 # 0 \/ Year(d) % 400 = 0)
       \/ d % 100 = 30 /\ Month(d) # 2
       \/ d % 100 = 31 /\ Month(d) \in {1, 3, 5, 7, 8, 10, 12}

ASSUME ReportsAssumption ==
    /\ Requests # {}
    /\ Requests \subseteq
         [method : Methods, vehicle : STRING, spelling : {"canonical", "other"},
          from : Int, to : Int, year : Int, month : Int, day : Int]
    /\ IsFiniteSet(ChargingRows)
    /\ \A c \in ChargingRows : c.cost \in Nat /\ c.kwh \in Nat /\ CalendarDay(c.day)
    /\ IsFiniteSet(ConsumptionRows)
    /\ \A r \in ConsumptionRows : r.km \in Int
    /\ MaxWrites \in Nat

-----------------------------------------------------------------------------
(***************************************************************************)
(* The statements, as functions of the tables.                             *)
(***************************************************************************)

\* VehicleId = $n compares UUIDs; VehicleId::text = $n compares texts, and
\* PostgreSQL prints a UUID in one spelling (lower case) only.
SameUuid(q, row) == q.vehicle \in {AnyVehicle, row.vehicle}
SameText(q, row) ==
    \/ q.vehicle = AnyVehicle
    \/ q.vehicle = row.vehicle /\ q.spelling = "canonical"

\* MaybeTimestamp: a bound that is not set is no bound; both are inclusive.
InWindow(q, row) ==
    /\ q.from = Unset \/ row.day >= q.from
    /\ q.to = Unset \/ row.day <= q.to

InPeriod(q, row) ==
    CASE q.method \in {"GetAnnualReport", "GetAnnualChargingReport"} ->
            Year(row.day) = q.year
      [] q.method \in {"GetMonthlyReport", "GetMonthlyChargingReport"} ->
            Year(row.day) = q.year /\ Month(row.day) = q.month
      [] q.method = "GetDailyChargingReport" ->
            row.day = 10000 * q.year + 100 * q.month + q.day
      [] OTHER -> InWindow(q, row)

Cost(rows) == SumFunction([r \in rows |-> r.cost])
Kwh(rows) == SumFunction([r \in rows |-> r.kwh])
Km(rows) == SumFunction([r \in rows |-> r.km])
RangeLost(rows) == SumFunction([r \in rows |-> r.range])

NoRatio == <<0, 1>>
Ratio(a, b) == IF b > 0 THEN <<a, b>> ELSE NoRatio

\* Mutant of HasData: the pre-check does not look at the period.
HasDataEver(q, ch) == \E r \in ch : SameText(q, r)

\* SELECT EXISTS(...), the pre-check of three reports: it compares texts.
HasData(q, ch) == \E r \in ch : SameText(q, r) /\ InPeriod(q, r)

\* The rows a report aggregates.  The monthly and annual report compare
\* UUIDs here, all others texts.
Selected(q, rows) ==
    { r \in rows :
        /\ InPeriod(q, r)
        /\ IF q.method \in {"GetMonthlyReport", "GetAnnualReport"}
             THEN SameUuid(q, r) ELSE SameText(q, r) }

GetVehicleCostSummary(q, ch, co) ==
    LET c == Selected(q, ch)
        k == Selected(q, co)
    IN  [cost |-> Cost(c), kwh |-> Kwh(c),
         perKwh |-> Ratio(Cost(c), Kwh(c)), perKm |-> Ratio(Cost(c), Km(k))]

\* GetMonthlyReport and GetAnnualReport.
PeriodReport(q, ch, co) ==
    [cost |-> Cost(Selected(q, ch)), kwh |-> Kwh(Selected(q, ch)),
     km |-> Km(Selected(q, co))]

\* GetDaily-, GetMonthly- and GetAnnualChargingReport.
ChargingReport(q, ch) ==
    [cost |-> Cost(Selected(q, ch)), kwh |-> Kwh(Selected(q, ch)),
     count |-> Cardinality(Selected(q, ch))]

\* GROUP BY: one entry per value of the grouped column that occurs.
Breakdown(rows, column) ==
    { LET g == { r \in rows : r[column] = k }
      IN  [of |-> k, cost |-> Cost(g), kwh |-> Kwh(g),
           perKwh |-> Ratio(Cost(g), Kwh(g))] : k \in { r[column] : r \in rows } }

\* Mutant of GetCostByChargerType: the vehicle is not looked at.
GetCostByChargerTypeOfAll(q, ch) ==
    Breakdown({ r \in ch : InPeriod(q, r) }, "type")

GetCostByChargerType(q, ch) == Breakdown(Selected(q, ch), "type")

\* The JOIN with source_category drops no charging: the column is NOT NULL
\* and a foreign key.
GetCostBySourceCategory(q, ch) ==
    Breakdown(Selected(q, ch), "category")

VehiclesOf(rows) == { r.vehicle : r \in rows }

OfVehicle(rows, v) == { r \in rows : r.vehicle = v }

\* A vehicle appears when it has consumptions; its energy is 0 when it has
\* no chargings.
GetConsumptionEfficiency(q, ch, k) ==
    { LET km  == Km(OfVehicle(k, v))
          kwh == Kwh(OfVehicle(Selected(q, ch), v))
      IN  [vehicle |-> v, km |-> km, kwh |-> kwh,
           kmPerKwh |-> Ratio(km, kwh), kwhPer100Km |-> Ratio(100 * kwh, km)] :
        v \in VehiclesOf(k) }

GetRangeAccuracy(q, co) ==
    { LET g == OfVehicle(Selected(q, co), v)
      IN  [vehicle |-> v, dashboard |-> RangeLost(g), actual |-> Km(g),
           ratio |-> Ratio(Km(g), RangeLost(g))] :
        v \in VehiclesOf(Selected(q, co)) }

\* Mutant of LastDayOfMonth: no leap years.
LastDayOfCommonMonth(y, m) ==
    CASE m = 2 -> 28
      [] m \in {4, 6, 9, 11} -> 30
      [] OTHER -> 31

\* util/last_day_of_month.cc
LastDayOfMonth(y, m) ==
    CASE m = 2 -> IF (y % 4 = 0 /\ y % 100 # 0) \/ y % 400 = 0 THEN 29 ELSE 28
      [] m \in {4, 6, 9, 11} -> 30
      [] OTHER -> 31

\* d - INTERVAL '24 hours'
DayBefore(d) ==
    LET y == Year(d)
        m == Month(d)
    IN  CASE d % 100 > 1 -> d - 1
          [] d % 100 = 1 /\ m > 1 -> 10000 * y + 100 * (m - 1) + LastDayOfMonth(y, m - 1)
          [] OTHER -> 10000 * (y - 1) + 1231

\* The bucket of the average of the two temperatures, here their sum in tenths.
TemperatureBucket(r) ==
    LET sum == r.high + r.low
    IN  CASE sum < 0           -> "<0"
          [] sum \in 0 .. 199   -> "0-10"
          [] sum \in 200 .. 399 -> "10-20"
          [] sum \in 400 .. 599 -> "20-30"
          [] OTHER             -> ">30"

\* The vehicle's chargings from 24 hours before a consumption to its end.  A
\* charging may lie in the range of several consumptions.
ChargedFor(r, ch) ==
    { c \in OfVehicle(ch, r.vehicle) : c.day >= DayBefore(r.day) /\ c.day <= r.end }

GetTemperatureConsumptionCorrelation(q, ch, co) ==
    LET events == { r \in Selected(q, co) : r.km > 0 }
    IN  { LET g == { r \in events : TemperatureBucket(r) = b }
          IN  [label |-> b, count |-> Cardinality(g),
               kwhPer100Km |->
                   Ratio(100 * SumFunction([r \in g |-> Kwh(ChargedFor(r, ch))]),
                         Km(g))] :
            b \in { TemperatureBucket(r) : r \in events } }

\* The reply of a report whose aggregation is one statement.
ReportOn(q, ch, co) ==
    CASE q.method = "GetVehicleCostSummary" -> GetVehicleCostSummary(q, ch, co)
      [] q.method \in {"GetMonthlyReport", "GetAnnualReport"} ->
            PeriodReport(q, ch, co)
      [] q.method = "GetCostByChargerType" -> GetCostByChargerType(q, ch)
      [] q.method = "GetCostBySourceCategory" -> GetCostBySourceCategory(q, ch)
      [] q.method = "GetRangeAccuracy" -> GetRangeAccuracy(q, co)
      [] q.method = "GetTemperatureConsumptionCorrelation" ->
            GetTemperatureConsumptionCorrelation(q, ch, co)
      [] OTHER -> ChargingReport(q, ch)

\* The validation of the request.
Invalid(q) ==
    \/ q.method = "GetVehicleCostSummary" /\ q.vehicle = AnyVehicle
    \/ /\ q.method \in {"GetAnnualReport", "GetAnnualChargingReport",
                        "GetMonthlyReport", "GetMonthlyChargingReport",
                        "GetDailyChargingReport"}
       /\ q.year < 1900
    \/ /\ q.method \in {"GetMonthlyReport", "GetMonthlyChargingReport",
                        "GetDailyChargingReport"}
       /\ q.month \notin 1 .. 12
    \/ /\ q.method = "GetDailyChargingReport"
       /\ q.month \in 1 .. 12
       /\ q.day \notin 1 .. LastDayOfMonth(q.year, q.month)

-----------------------------------------------------------------------------

NoReply == "none"

TypeOK ==
    /\ charging \subseteq ChargingRows
    /\ consumption \subseteq ConsumptionRows
    /\ pc \in {"idle", "exists", "aggregate", "kwh", "done"}
    /\ req \in Requests
    /\ kmRows \subseteq ConsumptionRows
    /\ status \in {"OK", "INVALID_ARGUMENT", "UNAUTHENTICATED", "INTERNAL"}
    /\ states \in Seq((SUBSET ChargingRows) \X (SUBSET ConsumptionRows))
    /\ writes \in 0 .. MaxWrites

Init ==
    /\ charging \in SUBSET ChargingRows
    /\ consumption \in SUBSET ConsumptionRows
    /\ pc = "idle"
    /\ req = CHOOSE q \in Requests : TRUE
    /\ kmRows = {}
    /\ status = "OK"
    /\ reply = NoReply
    /\ states = <<>>
    /\ writes = 0

Finish(s, r) ==
    /\ pc' = "done"
    /\ status' = s
    /\ reply' = r

\* A request arrives and passes, or not, authentication and validation.
Arrive(q) ==
    /\ pc = "idle"
    /\ req' = q
    /\ states' = << <<charging, consumption>> >>
    /\ \/ Finish("UNAUTHENTICATED", NoReply)
       \/ Invalid(q) /\ Finish("INVALID_ARGUMENT", NoReply)
       \/ /\ ~Invalid(q)
          /\ pc' = IF q.method \in PreChecked THEN "exists" ELSE "aggregate"
          /\ UNCHANGED <<status, reply>>
    /\ UNCHANGED <<charging, consumption, kmRows, writes>>

\* The EXISTS statement: no charging, no report.
CheckExists ==
    /\ pc = "exists"
    /\ IF HasData(req, charging)
         THEN pc' = "aggregate" /\ UNCHANGED <<status, reply>>
         ELSE Finish("INVALID_ARGUMENT", NoReply)
    /\ UNCHANGED <<charging, consumption, req, kmRows, states, writes>>

\* The statement that aggregates.
Aggregate ==
    /\ pc = "aggregate"
    /\ req.method # "GetConsumptionEfficiency"
    /\ Finish("OK", ReportOn(req, charging, consumption))
    /\ UNCHANGED <<charging, consumption, req, kmRows, states, writes>>

\* Mutant of AggregateKm: the wrong table.
AggregateKmOfChargings ==
    /\ pc = "aggregate"
    /\ req.method = "GetConsumptionEfficiency"
    /\ kmRows' = Selected(req, charging)
    /\ pc' = "kwh"
    /\ UNCHANGED <<charging, consumption, req, status, reply, states, writes>>

\* GetConsumptionEfficiency: the mileage per vehicle.
AggregateKm ==
    /\ pc = "aggregate"
    /\ req.method = "GetConsumptionEfficiency"
    /\ kmRows' = Selected(req, consumption)
    /\ pc' = "kwh"
    /\ UNCHANGED <<charging, consumption, req, status, reply, states, writes>>

\* Mutant of AggregateKwh: the energy comes from a statement that ran before
\* the one of the mileage.
AggregateKwhEarlier ==
    /\ pc = "kwh"
    /\ Finish("OK", GetConsumptionEfficiency(req, states[1][1], kmRows))
    /\ UNCHANGED <<charging, consumption, req, kmRows, states, writes>>

\* GetConsumptionEfficiency: the energy per vehicle, and the join.
AggregateKwh ==
    /\ pc = "kwh"
    /\ Finish("OK", GetConsumptionEfficiency(req, charging, kmRows))
    /\ UNCHANGED <<charging, consumption, req, kmRows, states, writes>>

\* A statement throws.  For ToGrpcStatus a data_exception is the client's
\* fault: a year that make_date does not take, a vehicle_id that is no UUID, a
\* sum that overflows.
Throws ==
    /\ pc \in {"exists", "aggregate", "kwh"}
    /\ \E s \in {"INTERNAL", "INVALID_ARGUMENT"} : Finish(s, NoReply)
    /\ UNCHANGED <<charging, consumption, req, kmRows, states, writes>>

\* The reply is sent.
Reply ==
    /\ pc = "done"
    /\ pc' = "idle"
    /\ req' = CHOOSE q \in Requests : TRUE
    /\ kmRows' = {}
    /\ status' = "OK"
    /\ reply' = NoReply
    /\ states' = <<>>
    /\ writes' = 0
    /\ UNCHANGED <<charging, consumption>>

\* Another client's transaction commits while the report runs: one row comes
\* or goes.
OthersWrite ==
    /\ pc \in {"exists", "aggregate", "kwh"}
    /\ writes < MaxWrites
    /\ writes' = writes + 1
    /\ \/ /\ \E r \in ChargingRows \ charging : charging' = charging \cup {r}
          /\ UNCHANGED consumption
       \/ /\ \E r \in charging : charging' = charging \ {r}
          /\ UNCHANGED consumption
       \/ /\ \E r \in ConsumptionRows \ consumption :
                consumption' = consumption \cup {r}
          /\ UNCHANGED charging
       \/ /\ \E r \in consumption : consumption' = consumption \ {r}
          /\ UNCHANGED charging
    /\ states' = Append(states, <<charging', consumption'>>)
    /\ UNCHANGED <<pc, req, kmRows, status, reply>>

Next ==
    \/ \E q \in Requests : Arrive(q)
    \/ CheckExists
    \/ Aggregate
    \/ AggregateKm
    \/ AggregateKwh
    \/ Throws
    \/ Reply
    \/ OthersWrite

Spec == Init /\ [][Next]_vars

-----------------------------------------------------------------------------

Answered == pc = "done" /\ status = "OK"

\* However many writes commit between the statements of a handler, a report
\* is about a moment of its own RPC and never torn: cost, energy and mileage
\* of a reply come from one state of the two tables, which for a pre-checked
\* report is no earlier than one that had a charging to report (so totals of
\* 0 mean that the chargings went between the two statements).
\* GetConsumptionEfficiency, with one statement per table, promises less: its
\* mileage is that of one moment, its energy that of one no earlier.
ReplyIsOneState ==
    Answered =>
        \E i, j \in DOMAIN states :
            /\ i <= j
            /\ IF req.method # "GetConsumptionEfficiency"
               THEN /\ reply = ReportOn(req, states[j][1], states[j][2])
                    /\ req.method \in PreChecked => HasData(req, states[i][1])
               ELSE reply = GetConsumptionEfficiency(req, states[j][1],
                                                     Selected(req, states[i][2]))

\* The pre-check asks for what the aggregation reports: when one of the three
\* pre-checked reports answers OK, there was a charging to report at some
\* moment of the RPC (not always at the end: it may have been deleted between
\* the two statements, and the totals are then 0).
OkHadData ==
    Answered /\ req.method \in PreChecked =>
        \E i \in DOMAIN states : Selected(req, states[i][1]) # {}

\* The requests of the other reports with the filters of q.
As(q, m) == [q EXCEPT !.method = m]

CostOf(entries) == SumFunction([e \in entries |-> e.cost])

\* The reports agree with each other on the same tables: the breakdowns by
\* charger type and by source category add up to the vehicle's cost summary,
\* efficiency and range accuracy list the same vehicles with the same
\* mileage, and the temperature buckets lose and repeat no kilometre and no
\* consumption that has any.
BreakdownsAddUp ==
    pc = "idle" =>
        \A q \in Requests :
            q.method = "GetVehicleCostSummary" =>
                LET total == GetVehicleCostSummary(q, charging, consumption)
                    km    == { <<e.vehicle, e.km>> : e \in
                               GetConsumptionEfficiency(
                                   As(q, "GetConsumptionEfficiency"), charging,
                                   Selected(As(q, "GetConsumptionEfficiency"),
                                            consumption)) }
                    driven == { <<e.vehicle, e.actual>> : e \in
                               GetRangeAccuracy(As(q, "GetRangeAccuracy"),
                                                consumption) }
                    correlation == As(q, "GetTemperatureConsumptionCorrelation")
                    buckets == GetTemperatureConsumptionCorrelation(
                                   correlation, charging, consumption)
                    events == { r \in Selected(correlation, consumption) : r.km > 0 }
                IN  /\ CostOf(GetCostByChargerType(
                          As(q, "GetCostByChargerType"), charging)) = total.cost
                    /\ CostOf(GetCostBySourceCategory(
                          As(q, "GetCostBySourceCategory"), charging)) = total.cost
                    /\ km = driven
                    /\ SumFunction([b \in buckets |-> b.count]) =
                          Cardinality(events)
                    /\ SumFunction([b \in buckets |-> b.kwhPer100Km[2]]) =
                          Km(events)

\* No charging falls between the reports: the daily charging reports that
\* may be asked for (LastDayOfMonth decides) add up to the monthly ones, and
\* those to the annual one.
PeriodsAddUp ==
    pc = "idle" =>
        \A q \in Requests :
            q.method = "GetAnnualChargingReport" /\ ~Invalid(q) =>
                LET monthly(m) == [As(q, "GetMonthlyChargingReport")
                                      EXCEPT !.month = m]
                    daily(m, d) == [As(q, "GetDailyChargingReport")
                                      EXCEPT !.month = m, !.day = d]
                    days(m) == { d \in 1 .. 31 : ~Invalid(daily(m, d)) }
                IN  /\ ChargingReport(q, charging).count =
                          SumFunction([m \in 1 .. 12 |->
                              ChargingReport(monthly(m), charging).count])
                    /\ \A m \in 1 .. 12 :
                          ChargingReport(monthly(m), charging).cost =
                              SumFunction([d \in days(m) |->
                                  ChargingReport(daily(m, d), charging).cost])

=============================================================================
