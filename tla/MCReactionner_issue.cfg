\* a second issue of an entity acknowledged once
CONSTANTS
  a = a  b = b
  Ids = {a}
  Types = {"UP", "DOWN"}
  HAModes = {FALSE}
  Bootstrap = TRUE
  Faults = {}
  MaxCalls = 4
  MaxCrashes = 0
SPECIFICATION Spec
PROPERTY NewIssueAlerted
