SPECIFICATION FairSpec
CHECK_DEADLOCK FALSE
CONSTANTS
    Modals = {"startDate", "endDate", "startTime", "endTime"}
    DatePickers = {"startDate", "endDate"}
    TimePickers = {"startTime", "endTime"}
    StartDate = "startDate"
    EndDate = "endDate"
    StartTime = "startTime"
    EndTime = "endTime"
    West = TRUE
    Dates <- MCDates
    Times <- MCTimes
    Now <- MCNow
    DateLoads <- MCDateLoads
    TimeLoads <- MCTimeLoads
    Months <- MCMonths
    Years <- MCYears
    Days <- MCDays
    Places <- MCPlaces
    Uses <- MCUses
    MaxTimers = 1
INVARIANTS TypeOK  GridIsCurrent TimersHarmless 
 
