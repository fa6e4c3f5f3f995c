SPECIFICATION FairSpec
CONSTANTS
    Visitor = {v1}
    CronRun = cronRun
    HookCount = 2
    Daily = {2}
    Interval = {60, 300}
    DailyInterval = 60
    MaxSaves = 2
    MaxCrashes = 1
    MaxToggles = 3
    None = None
INVARIANTS
    SchedulerTypeOK
    HooksStayScheduled
    RememberedIsTrue
PROPERTY
    CadenceFollowsSettings
CHECK_DEADLOCK FALSE
