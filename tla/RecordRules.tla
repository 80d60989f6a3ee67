---------------------------- MODULE RecordRules -----------------------------
(***************************************************************************)
(* What becomes of the values of one vehicle, charging or consumption on   *)
(* their way from a request through the handler's validation, the SQL      *)
(* parameters and the column types into a row, and back into a reply.      *)
(*                                                                         *)
(* The validation looks at the request, the columns round afterwards:      *)
(* TIMESTAMPTZ keeps microseconds, DECIMAL(p,s) keeps s digits, and the    *)
(* reply keeps whole seconds.  DateToString writes a date into ten         *)
(* characters whatever it is given.  PostgreSQL is external.  Connections, *)
(* constraints between rows and failures are those of CrudServices.        *)
(*                                                                         *)
(* An instant is a number of nanoseconds and a decimal number a number of  *)
(* units, both with scaled-down radices.  Every session of the pool runs   *)
(* in UTC, so the offset that ParseTimestamp subtracts is zero.            *)
(***************************************************************************)
EXTENDS Integers, FiniteSets

CONSTANTS
    NanosPerMicro,      \* 1000
    MicrosPerSecond,    \* 1000000
    UnitsPerStep,       \* request units in one step of a DECIMAL column
    MaxSteps,           \* the largest number of steps the column holds
    NaN,                \* the double that is no number
    Requests            \* by table: the requests that arrive

ASSUME RecordAssumption ==
    /\ {NanosPerMicro, MicrosPerSecond, UnitsPerStep, MaxSteps}
            \subseteq Nat \ {0}
    /\ NaN \in Int /\ NaN > UnitsPerStep * (MaxSteps + 2)

Tables == {"vehicle", "charging", "consumption"}

NanosPerSecond == NanosPerMicro * MicrosPerSecond

Null == "NULL"

\* Doubles: NaN, and numbers that are not NaN.
Doubles == { x \in Int : x <= NaN }

\* The fields of google.type.Date are int32.  Years have at most nine digits
\* here: one of ten leaves no room for anything else in DateToString's text,
\* and what PostgreSQL reads in ten digits is not modelled.
Int32 == { n \in Int : -2147483647 - 1 <= n /\ n <= 2147483647 }
PurchaseDates ==
    [year : { n \in Int : -1000000000 < n /\ n < 1000000000 },
     month : Int32, day : Int32]

\* The fields of a request.  An optional number is a set of at most one, and
\* no text is the NULL of SQL.
VehicleRequests ==
    [battery_capacity_kwh : Doubles, purchase_date : PurchaseDates]

ChargingRequests ==
    [start_time : Int, end_time : Int, start_percent : Int, end_percent : Int,
     kwh_charged : Doubles, cost : Doubles, electricity_unit_price : Doubles,
     service_fee : SUBSET Doubles,
     charger_type : {"UNSPECIFIED", "FAST", "SLOW", "another number"},
     location : {""} \cup (STRING \ {Null})]

ConsumptionRequests ==
    [start : Int, end : Int, begin_percent : Int, end_percent : Int,
     highest_temperature_c : Doubles, lowest_temperature_c : Doubles,
     weather_id : STRING]

ASSUME RequestsAssumption ==
    /\ \A q \in Requests["vehicle"] : q \in VehicleRequests
    /\ \A q \in Requests["charging"] :
         /\ q \in ChargingRequests
         /\ \A x, y \in q.service_fee : x = y
    /\ \A q \in Requests["consumption"] : q \in ConsumptionRequests

VARIABLES
    table,      \* the table the record belongs to
    rows,       \* the record's row: a set of at most one
    op,         \* the RPC that was answered last
    req,        \* history: the request a create or update accepted: at most one
    status,     \* its status
    reply       \* the record in its reply: at most one

vars == <<table, rows, op, req, status, reply>>

-----------------------------------------------------------------------------
(***************************************************************************)
(* Doubles, instants and dates.                                            *)
(***************************************************************************)

\* Comparisons of doubles: all are false for NaN.
Below(x, y) == x # NaN /\ y # NaN /\ x < y
AtMost(x, y) == x # NaN /\ y # NaN /\ x <= y

\* Timestamp.seconds of an instant.
Seconds(n) == n \div NanosPerSecond

\* TimestampString writes all nanoseconds; TIMESTAMPTZ keeps the nearest
\* microsecond.
Timestamptz(n) == (n + NanosPerMicro \div 2) \div NanosPerMicro

\* ParseTimestamp of the column's text: the fraction is dropped.
ParseTimestamp(us) == (us \div MicrosPerSecond) * NanosPerSecond

\* DECIMAL rounds half away from zero; NaN is a value of the type.
Decimal(x) ==
    IF x = NaN THEN NaN
    ELSE IF x >= 0 THEN (x + UnitsPerStep \div 2) \div UnitsPerStep
    ELSE -((-x + UnitsPerStep \div 2) \div UnitsPerStep)

InRange(steps) == steps = NaN \/ steps \in -MaxSteps .. MaxSteps

\* as<double>()
Double(steps) == IF steps = NaN THEN NaN ELSE steps * UnitsPerStep

\* The characters %0wd takes for the int32 n: its digits and its sign, padded
\* to w.
PowersOfTen ==
    <<10, 100, 1000, 10000, 100000, 1000000, 10000000, 100000000, 1000000000>>
Digits(n) == 1 + Cardinality({ k \in 1 .. 9 : n >= PowersOfTen[k] })
Width(w, n) ==
    LET chars == IF n < 0 THEN 1 + Digits(-n) ELSE Digits(n)
    IN  IF chars < w THEN w ELSE chars

\* DateToString: "%04d-%02d-%02d" cut to ten characters.  The day loses what
\* does not fit (one with a sign is no day, whole or cut); NoDate stands for a
\* text that ends before the day.
NoDate == [year |-> 0, month |-> 0, day |-> 0]
DateToString(d) ==
    LET room == 10 - (Width(4, d.year) + 1 + Width(2, d.month) + 1)
        over == Width(2, d.day) - room
    IN  IF room <= 0 THEN NoDate
        ELSE IF over <= 0 \/ d.day < 0 THEN d
        ELSE [d EXCEPT !.day = @ \div PowersOfTen[over]]

\* The days of the calendar, which are what a DATE column takes.
IsDay(d) ==
    /\ d.year >= 1
    /\ d.month \in 1 .. 12
    /\ d.day >= 1
    /\ d.day <= CASE d.month = 2 ->
                       IF (d.year % 4 = 0 /\ d.year % 100 # 0)
                            \/ d.year % 400 = 0 THEN 29 ELSE 28
                  [] d.month \in {4, 6, 9, 11} -> 30
                  [] OTHER -> 31

\* RowToVehicle reads a date of ten characters and leaves others unset.
ReadDate(d) == IF d.year <= 9999 THEN d ELSE NoDate

-----------------------------------------------------------------------------
(***************************************************************************)
(* Validation, and the conversions in both directions.                     *)
(***************************************************************************)

\* Mutant of ValidateCharging: the two times may be in the same second.
ValidateChargingLoosely(q) ==
    /\ Seconds(q.end_time) >= Seconds(q.start_time)
    /\ q.end_percent > q.start_percent
    /\ ~AtMost(q.kwh_charged, 0)
    /\ ~AtMost(q.cost, 0)
    /\ q.charger_type # "UNSPECIFIED"

ValidateCharging(q) ==
    /\ Seconds(q.end_time) > Seconds(q.start_time)
    /\ q.end_percent > q.start_percent
    /\ ~AtMost(q.kwh_charged, 0)
    /\ ~AtMost(q.cost, 0)
    /\ q.charger_type # "UNSPECIFIED"

\* Mutant of ValidateConsumption: equal temperatures are refused.
ValidateConsumptionStrictly(q) ==
    /\ Seconds(q.end) > Seconds(q.start)
    /\ q.end_percent < q.begin_percent
    /\ ~AtMost(q.highest_temperature_c, q.lowest_temperature_c)
    /\ q.weather_id # ""

ValidateConsumption(q) ==
    /\ Seconds(q.end) > Seconds(q.start)
    /\ q.end_percent < q.begin_percent
    /\ ~Below(q.highest_temperature_c, q.lowest_temperature_c)
    /\ q.weather_id # ""

\* There is no validation of a vehicle.
Validate(q) ==
    CASE table = "vehicle"     -> TRUE
      [] table = "charging"    -> ValidateCharging(q)
      [] table = "consumption" -> ValidateConsumption(q)

ChargerTypeLabel(t) ==
    CASE t = "FAST" -> "fast" [] t = "SLOW" -> "slow" [] OTHER -> Null

ChargerTypeFromLabel(s) ==
    CASE s = "fast" -> "FAST" [] s = "slow" -> "SLOW" [] OTHER -> "UNSPECIFIED"

\* The row that CreateCharging makes of a request.  service_fee is a set of
\* at most one number.
ChargeParams(q) ==
    [StartTime |-> Timestamptz(q.start_time),
     EndTime |-> Timestamptz(q.end_time),
     StartPercent |-> q.start_percent, EndPercent |-> q.end_percent,
     KwhCharged |-> Decimal(q.kwh_charged), Cost |-> Decimal(q.cost),
     ElectricityUnitPrice |-> Decimal(q.electricity_unit_price),
     ServiceFee |-> { Decimal(x) : x \in q.service_fee },
     ChargerType |-> ChargerTypeLabel(q.charger_type),
     Location |-> IF q.location = "" THEN Null ELSE q.location]

\* Mutant of UpdateChargeParams: cost and price are bound in the wrong order.
UpdateChargeParamsSwapped(q) ==
    [StartTime |-> Timestamptz(q.start_time),
     EndTime |-> Timestamptz(q.end_time),
     StartPercent |-> q.start_percent, EndPercent |-> q.end_percent,
     KwhCharged |-> Decimal(q.kwh_charged), Cost |-> Decimal(q.electricity_unit_price),
     ElectricityUnitPrice |-> Decimal(q.cost),
     ServiceFee |-> { Decimal(x) : x \in q.service_fee },
     ChargerType |-> ChargerTypeLabel(q.charger_type),
     Location |-> IF q.location = "" THEN Null ELSE q.location]

\* UpdateCharging has a list of its own, and so do the other updates.
UpdateChargeParams(q) ==
    [StartTime |-> Timestamptz(q.start_time),
     EndTime |-> Timestamptz(q.end_time),
     StartPercent |-> q.start_percent, EndPercent |-> q.end_percent,
     KwhCharged |-> Decimal(q.kwh_charged), Cost |-> Decimal(q.cost),
     ElectricityUnitPrice |-> Decimal(q.electricity_unit_price),
     ServiceFee |-> { Decimal(x) : x \in q.service_fee },
     ChargerType |-> ChargerTypeLabel(q.charger_type),
     Location |-> IF q.location = "" THEN Null ELSE q.location]

RowToCharging(r) ==
    [start_time |-> ParseTimestamp(r.StartTime),
     end_time |-> ParseTimestamp(r.EndTime),
     start_percent |-> r.StartPercent, end_percent |-> r.EndPercent,
     kwh_charged |-> Double(r.KwhCharged), cost |-> Double(r.Cost),
     electricity_unit_price |-> Double(r.ElectricityUnitPrice),
     service_fee |-> { Double(x) : x \in r.ServiceFee },
     charger_type |-> ChargerTypeFromLabel(r.ChargerType),
     location |-> IF r.Location = Null THEN "" ELSE r.Location]

ConsumptionParams(q) ==
    [Start |-> Timestamptz(q.start), EndTime |-> Timestamptz(q.end),
     BeginPercent |-> q.begin_percent, EndPercent |-> q.end_percent,
     HighestTemperature |-> Decimal(q.highest_temperature_c),
     LowestTemperature |-> Decimal(q.lowest_temperature_c),
     WeatherId |-> q.weather_id]

UpdateConsumptionParams(q) ==
    [Start |-> Timestamptz(q.start), EndTime |-> Timestamptz(q.end),
     BeginPercent |-> q.begin_percent, EndPercent |-> q.end_percent,
     HighestTemperature |-> Decimal(q.highest_temperature_c),
     LowestTemperature |-> Decimal(q.lowest_temperature_c),
     WeatherId |-> q.weather_id]

RowToConsumption(r) ==
    [start |-> ParseTimestamp(r.Start), end |-> ParseTimestamp(r.EndTime),
     begin_percent |-> r.BeginPercent, end_percent |-> r.EndPercent,
     highest_temperature_c |-> Double(r.HighestTemperature),
     lowest_temperature_c |-> Double(r.LowestTemperature),
     weather_id |-> r.WeatherId]

VehicleParams(q) ==
    [BatteryCapacity |-> Decimal(q.battery_capacity_kwh),
     PurchaseDate |-> DateToString(q.purchase_date)]

UpdateVehicleParams(q) ==
    [BatteryCapacity |-> Decimal(q.battery_capacity_kwh),
     PurchaseDate |-> DateToString(q.purchase_date)]

RowToVehicle(r) ==
    [battery_capacity_kwh |-> Double(r.BatteryCapacity),
     purchase_date |-> ReadDate(r.PurchaseDate)]

InsertParams(q) ==
    CASE table = "vehicle"     -> VehicleParams(q)
      [] table = "charging"    -> ChargeParams(q)
      [] table = "consumption" -> ConsumptionParams(q)

UpdateParams(q) ==
    CASE table = "vehicle"     -> UpdateVehicleParams(q)
      [] table = "charging"    -> UpdateChargeParams(q)
      [] table = "consumption" -> UpdateConsumptionParams(q)

\* The row that CreateX or UpdateX writes.
Params(o, q) == IF o = "create" THEN InsertParams(q) ELSE UpdateParams(q)

Read(r) ==
    CASE table = "vehicle"     -> RowToVehicle(r)
      [] table = "charging"    -> RowToCharging(r)
      [] table = "consumption" -> RowToConsumption(r)

\* The texts a VARCHAR column holds.
TooLong == "too long"

\* PostgreSQL takes the values: the dates are days, the numbers have few
\* enough digits, the NOT NULL columns are not NULL.
ColumnsTake(r) ==
    CASE table = "vehicle" ->
            InRange(r.BatteryCapacity) /\ IsDay(r.PurchaseDate)
      [] table = "charging" ->
            /\ InRange(r.KwhCharged) /\ InRange(r.Cost)
            /\ InRange(r.ElectricityUnitPrice)
            /\ \A x \in r.ServiceFee : InRange(x)
            /\ r.ChargerType # Null
            /\ r.Location # TooLong
      [] table = "consumption" ->
            InRange(r.HighestTemperature) /\ InRange(r.LowestTemperature)

\* Mutant of Accepted: as if the columns had no NOT NULL and no precision.
AcceptedUnchecked(o, q) == Validate(q)

Accepted(o, q) == Validate(q) /\ ColumnsTake(Params(o, q))

-----------------------------------------------------------------------------

Init ==
    /\ table \in Tables
    /\ rows = {}
    /\ op = "none"
    /\ req = {}
    /\ status = "OK"
    /\ reply = {}

\* CreateX and UpdateX answer with the row they read back in their own
\* transaction.
Put(o, q) ==
    /\ op' = o
    /\ IF Accepted(o, q)
         THEN /\ rows' = {Params(o, q)}
              /\ req' = {q}
              /\ reply' = {Read(Params(o, q))}
              /\ status' = "OK"
         ELSE /\ req' = {}
              /\ reply' = {}
              /\ status' = "INVALID_ARGUMENT"
              /\ UNCHANGED rows
    /\ UNCHANGED table

Create ==
    /\ rows = {}
    /\ \E q \in Requests[table] : Put("create", q)

Update ==
    /\ rows # {}
    /\ \E q \in Requests[table] : Put("update", q)

Get ==
    /\ rows # {}
    /\ reply' = { Read(r) : r \in rows }
    /\ op' = "get"
    /\ req' = {}
    /\ status' = "OK"
    /\ UNCHANGED <<table, rows>>

\* A client changes nothing of what it read and sends it back.
WriteBack ==
    /\ rows # {}
    /\ op = "get"
    /\ \E q \in reply : Put("update", q)

Next == Create \/ Update \/ Get \/ WriteBack

Spec == Init /\ [][Next]_vars

-----------------------------------------------------------------------------

TypeOK ==
    /\ table \in Tables
    /\ op \in {"none", "create", "update", "get"}
    /\ status \in {"OK", "INVALID_ARGUMENT"}
    /\ \A r \in rows : ColumnsTake(r)
    /\ status = "OK" /\ op # "none" => reply = { Read(r) : r \in rows }

\* What the reports may rely on in every row, whatever was rounded after the
\* validation: a charging does not end before it starts, adds charge, and has
\* no negative energy or cost (zero and NaN are possible, and the reports
\* must not divide by them); a consumption does not end before it starts,
\* drains the battery, and its temperatures are in order.
StoredRowRules ==
    \A r \in rows :
        /\ table = "charging" =>
             /\ r.EndTime >= r.StartTime
             /\ r.EndPercent > r.StartPercent
             /\ ~Below(r.KwhCharged, 0)
             /\ ~Below(r.Cost, 0)
             /\ r.ChargerType \in {"fast", "slow"}
        /\ table = "consumption" =>
             /\ r.EndTime >= r.Start
             /\ r.EndPercent < r.BeginPercent
             /\ ~Below(r.HighestTemperature, r.LowestTemperature)

\* The rounding left nothing of a quantity the validation wants positive, or
\* the date is one RowToVehicle does not read.
RoundedAway(r) ==
    CASE table = "vehicle" -> r.PurchaseDate.year > 9999
      [] table = "charging" ->
            \/ r.KwhCharged = 0 \/ r.Cost = 0
            \/ ParseTimestamp(r.StartTime) = ParseTimestamp(r.EndTime)
      [] table = "consumption" ->
            ParseTimestamp(r.Start) = ParseTimestamp(r.EndTime)

\* Read, then write back: a client that updates a record with what it has
\* just read is refused only where rounding left a zero, and otherwise every
\* later reader sees the same record.
WriteBackIsHarmless ==
    \A r \in rows :
        LET q == Read(r)
        IN  IF Accepted("update", q) THEN Read(Params("update", q)) = q
            ELSE RoundedAway(r)

\* |x - y| is at most half a step of the column.
Near(x, y) ==
    IF x = NaN \/ y = NaN THEN x = y
    ELSE 2 * (x - y) \in -UnitsPerStep .. UnitsPerStep

\* The reply has the second of the requested instant, or the next one if
\* that is less than a microsecond away.
SameSecond(x, y) ==
    y % NanosPerSecond = 0
        /\ x - y < NanosPerSecond /\ 2 * (y - x) <= NanosPerMicro

\* Field by field, p is q up to the rounding of the columns; a purchase date
\* in the calendar of four-digit years is exact.
Kept(q, p) ==
    CASE table = "vehicle" ->
           /\ Near(q.battery_capacity_kwh, p.battery_capacity_kwh)
           /\ IsDay(q.purchase_date) /\ q.purchase_date.year <= 9999
                => p.purchase_date = q.purchase_date
      [] table = "charging" ->
           /\ SameSecond(q.start_time, p.start_time)
           /\ SameSecond(q.end_time, p.end_time)
           /\ Near(q.kwh_charged, p.kwh_charged)
           /\ Near(q.cost, p.cost)
           /\ Near(q.electricity_unit_price, p.electricity_unit_price)
           /\ q.service_fee = {} <=> p.service_fee = {}
           /\ \A x \in q.service_fee, y \in p.service_fee : Near(x, y)
           /\ <<p.start_percent, p.end_percent, p.charger_type, p.location>>
                = <<q.start_percent, q.end_percent, q.charger_type, q.location>>
      [] table = "consumption" ->
           /\ SameSecond(q.start, p.start)
           /\ SameSecond(q.end, p.end)
           /\ Near(q.highest_temperature_c, p.highest_temperature_c)
           /\ Near(q.lowest_temperature_c, p.lowest_temperature_c)
           /\ <<p.begin_percent, p.end_percent, p.weather_id>>
                = <<q.begin_percent, q.end_percent, q.weather_id>>

\* What was accepted is what is stored, as a reader sees it.
AcceptedIsStored ==
    status = "OK" => \A q \in req, p \in reply : Kept(q, p)

\* DateToString's comment leaves the range of a date to the DATE column, which
\* "will reject out-of-range values": a purchase date that is no day of the
\* calendar is not accepted.
DateColumnRejects ==
    table = "vehicle" /\ status = "OK" =>
        \A q \in req : IsDay(q.purchase_date)

=============================================================================
