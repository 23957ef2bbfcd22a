CONSTANTS
  b1 = b1
  w1 = w1
  w2 = w2
  s1 = s1
  s2 = s2
  Bindings = {b1}
  Workloads = {w1}
  Secrets = {s1}
  NoSecret = NoSecret
  Absent = Absent
  Selector = Selector
  NoBinding = NoBinding
  Direct = {}
  Events = {}
  MaxEdits = 2
  MaxFaults = 0
SPECIFICATION AdmissionSpec
CHECK_DEADLOCK FALSE
INVARIANTS
  ReportedProjectionIsThere
