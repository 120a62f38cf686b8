------------------------- MODULE MCMaintenanceForm -------------------------
EXTENDS MaintenanceForm, TLC

\* Texts around the end of a leap February, and before a year that is none.
MCDates == {Date(2099, 11, 31), Date(2024, 1, 29), Date(2024, 2, 1)}
MCDateLoads == {StartDate :> Date(2099, 11, 31) @@ EndDate :> Date(2100, 0, 1),
                StartDate :> Date(2024, 1, 29) @@ EndDate :> Date(2024, 2, 1)}
MCTimes == {Time(12, 0), NoTime}
MCTimeLoads == {StartTime :> Time(12, 0) @@ EndTime :> Time(23, 30)}
MCNow == {Time(23, 59)}
MCDays == {1, 31}
MCMonths == {1}
MCYears == {2100}
MCPlaces == {Place(0, "inner"), Place(32, "outer")}
MCUses == {[picks |-> {StartDate, EndDate}, acts |-> 5], [picks |-> {StartTime}, acts |-> 6],
           [picks |-> {EndDate, EndTime}, acts |-> 3]}
=============================================================================
