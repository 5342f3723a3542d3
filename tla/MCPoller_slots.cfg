\* two Schedulers, two slots, commands that hang, a stop and a restart
CONSTANTS
  SchedulerURLs <- TwoSchedulers
  MaxConcurrent = 2
  Off = Off
  MaxTasks = 3
  MaxStops = 1
SPECIFICATION FairSpec
INVARIANTS TypeOK SlotsMatch TasksAccounted ReportsGoHome
PROPERTIES TasksEnd SchedulersPolled
