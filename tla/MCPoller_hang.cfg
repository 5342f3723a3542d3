\* a process that keeps the output pipe
CONSTANTS
  SchedulerURLs <- TwoSchedulers
  MaxConcurrent = 1
  Off = Off
  MaxTasks = 2
  MaxStops = 0
SPECIFICATION HangSpec
PROPERTY NoHanging
