--------------------------- MODULE MCRecordRules ----------------------------
(* RecordRules for TLC: a good request of each kind with any two of its     *)
(* fields replaced by values on either side of every boundary.              *)
EXTENDS RecordRules

\* The functions that differ from base in at most two places, where they have
\* one of the given values.
Variants(base, values) ==
    UNION { { [base EXCEPT ![f] = x, ![g] = y] :
                x \in values[f], y \in values[g] } :
            f \in DOMAIN values, g \in DOMAIN values }

\* With two microseconds of three nanoseconds to the second, 4 and 5 are
\* nearest to the next microsecond, and 5 is nearest to the next second.
Instants == {0, 2, 4, 5, 6, 11, 12}

\* With four units to the step and two steps in the column, 1 rounds to
\* zero, 2 is a half, 9 still fits and 10 does not.
Numbers == {-10, -9, -1, 0, 1, 2, 9, 10, NaN}

MCNaN == 100

Charging ==
    [start_time |-> 0, end_time |-> 12, start_percent |-> 1,
     end_percent |-> 2, kwh_charged |-> 4, cost |-> 5,
     electricity_unit_price |-> 0, service_fee |-> {},
     charger_type |-> "SLOW", location |-> ""]

ChargingValues ==
    [start_time |-> Instants, end_time |-> Instants, start_percent |-> 1 .. 3,
     end_percent |-> 1 .. 3, kwh_charged |-> Numbers, cost |-> Numbers,
     electricity_unit_price |-> Numbers, service_fee |-> {{}, {-2}, {10}},
     charger_type |-> {"UNSPECIFIED", "FAST", "SLOW", "another number"},
     location |-> {"", "home", TooLong}]

Consumption ==
    [start |-> 0, end |-> 12, begin_percent |-> 2, end_percent |-> 1,
     highest_temperature_c |-> 4, lowest_temperature_c |-> 3,
     weather_id |-> "w"]

ConsumptionValues ==
    [start |-> Instants, end |-> Instants, begin_percent |-> 1 .. 3,
     end_percent |-> 1 .. 3, highest_temperature_c |-> Numbers,
     lowest_temperature_c |-> Numbers, weather_id |-> {"", "w"}]

Date(y, m, d) == [year |-> y, month |-> m, day |-> d]

\* Days of the calendar, days that are not, negative numbers, and numbers too
\* wide for the format: 1 January 12345, the 150th day of a month, a 100th
\* month.
Dates ==
    { Date(2024, 2, 29), Date(2023, 2, 29), Date(2024, 4, 30),
      Date(2024, 4, 31), Date(2024, 13, 1), Date(2024, 12, 99),
      Date(2024, 1, 0), Date(1, 1, 1), Date(9999, 12, 31),
      Date(12345, 1, 15), Date(12345, 1, 5), Date(12345, 10, 31),
      Date(2024, 1, 150), Date(2024, 1, 999), Date(2024, 100, 1),
      Date(2024, 1, 1500000000), Date(2024, 1, -15), Date(2024, -1, 15),
      Date(-12, 1, 15), Date(123456, 1, 15), NoDate }

MCRequests ==
    [vehicle |->
        [battery_capacity_kwh : Numbers, purchase_date : Dates],
     charging |-> Variants(Charging, ChargingValues),
     consumption |-> Variants(Consumption, ConsumptionValues)]

=============================================================================
