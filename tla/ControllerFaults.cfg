CONSTANTS
  b1 = b1
  b2 = b2
  w1 = w1
  w2 = w2
  s1 = s1
  s2 = s2
  Bindings = {b1}
  Workloads = {w1, w2}
  Secrets = {s1, s2}
  NoSecret = NoSecret
  Absent = Absent
  Selector = Selector
  NoBinding = NoBinding
  Direct = {}
  Events = {"crash", "error", "replace"}
  MaxEdits = 3
  MaxFaults = 1
SPECIFICATION Spec
CHECK_DEADLOCK FALSE
SYMMETRY Interchangeable
INVARIANTS
  TypeOK
  NoOrphan
  ReportedProjectionIsThere
  RestingIsTracked
PROPERTIES
  NoLostUpdate
