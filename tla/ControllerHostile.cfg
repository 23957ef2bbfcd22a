CONSTANTS
  b1 = b1
  b2 = b2
  w1 = w1
  w2 = w2
  s1 = s1
  s2 = s2
  Bindings = {b1, b2}
  Workloads = {w1}
  Secrets = {s1}
  NoSecret = NoSecret
  Absent = Absent
  Selector = Selector
  NoBinding = NoBinding
  Direct = {b2}
  Events = {"crash", "rbac", "retarget", "relabel"}
  MaxEdits = 3
  MaxFaults = 1
SPECIFICATION Spec
CHECK_DEADLOCK FALSE
SYMMETRY Interchangeable
INVARIANTS
  ReportedProjectionIsThere
  RestingIsTracked
  FinalizerGuardsProjection
PROPERTIES
  NoLostUpdate
