-------------------------- MODULE MCDisplayReports --------------------------
(* DisplayReports for TLC. *)
EXTENDS DisplayReports

Charging(i, v, d, c, k, t, g) ==
    [id |-> i, vehicle |-> v, day |-> d, cost |-> c, kwh |-> k, type |-> t,
     category |-> g]

\* Two vehicles, a leap day, the last day of a year, an energy that the
\* column rounded to zero.
MCChargingRows ==
    { Charging(1, "v", 20240229, 1, 1, "fast", "home"),
      Charging(2, "v", 20240331, 2, 0, "slow", "home"),
      Charging(3, "w", 20240229, 4, 2, "slow", "work"),
      Charging(4, "v", 20251231, 8, 4, "slow", "work") }

Consumption(i, v, d, e, k, r, h, l) ==
    [id |-> i, vehicle |-> v, day |-> d, end |-> e, km |-> k, range |-> r,
     high |-> h, low |-> l]

\* A charging on the day before (across a leap day), one that lies in the
\* ranges of two consumptions, averages on and next to a bucket's edge.
MCConsumptionRows ==
    { Consumption(1, "v", 20240229, 20240331, 1, 2, 100, -101),
      Consumption(2, "v", 20240301, 20240301, 2, 0, 100, 99),
      Consumption(3, "w", 20240301, 20240302, 0, 1, 400, 200) }

Request(m, v, sp, f, t, y, mo, d) ==
    [method |-> m, vehicle |-> v, spelling |-> sp, from |-> f, to |-> t,
     year |-> y, month |-> mo, day |-> d]

\* Every report for one vehicle and, where allowed, for all; with and without
\* a window; ids in another spelling; periods that do not exist.
MCRequests ==
    { Request(m, "v", "canonical", 20240301, Unset, 2024, 3, 31) : m \in Methods }
    \cup
    { Request(m, AnyVehicle, "canonical", Unset, 20240301, 2024, 2, 29) :
        m \in Methods }
    \cup
    { Request(m, "v", "other", Unset, Unset, 2024, 2, 29) :
        m \in {"GetVehicleCostSummary", "GetMonthlyReport"} }
    \cup
    { Request(m, "w", "canonical", Unset, Unset, 1899, 13, 0) : m \in Methods }
    \cup
    { Request("GetDailyChargingReport", "v", "canonical", Unset, Unset,
              2025, 2, 29) }

=============================================================================
