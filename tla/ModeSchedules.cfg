SPECIFICATION SchedulesSpec
CONSTANTS
    MaxSchedules = 2
    DayLength = 2
    MaxMinutes = 3
    MaxEdits = 3
PROPERTIES
    DueRunsOnce
    ScheduleTakesEffect
