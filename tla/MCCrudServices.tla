--------------------------- MODULE MCCrudServices ---------------------------
(* CrudServices for TLC: seeded databases. *)
EXTENDS CrudServices

\* A vehicle, a weather and a source category.
Fleet ==
    [x \in Tables |->
        CASE x = "vehicle"         -> {RowOf(1, 1, NoRefs)}
          [] x = "weather"         -> {RowOf(2, 1, NoRefs)}
          [] x = "source_category" -> {RowOf(3, 1, NoRefs)}
          [] OTHER                 -> {}]

\* The same, with a charging and a consumption of the vehicle.
FleetInUse ==
    [Fleet EXCEPT
        !["charging"] =
            {RowOf(4, NoName, [vehicle |-> 1, source_category |-> 3])},
        !["consumption"] =
            {RowOf(5, NoName, [vehicle |-> 1, weather |-> 2])}]

\* Only the vehicle.
OneVehicle ==
    [x \in Tables |->
        IF x = "vehicle" THEN {RowOf(1, 1, NoRefs)} ELSE {}]

TwoIds == 1 .. 2

SixIds == 1 .. 6

\* References to the seeded row, to a row of another table (for vehicles) and
\* to the row with the fresh id, whatever table that is in.
MCRefIds ==
    [x \in NamedTables |->
        CASE x = "vehicle"         -> {1, 2, 6}
          [] x = "weather"         -> {2, 6}
          [] x = "source_category" -> {3, 6}]

=============================================================================
