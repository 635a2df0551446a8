SPECIFICATION Spec
CONSTANTS
  d1 = d1
  d2 = d2
  k1 = k1
  k2 = k2
  k3 = k3
  k4 = k4
  e1 = e1
  e2 = e2
  push1 = push1
  push2 = push2
  Device = {d1, d2}
  Entity = {e1, e2}
  Push = {push1, push2}
  EntityOf <- MCEntityOf
  Origin <- MCOrigin
  Queue <- MCQueue
  Key = {k1, k2}
  Sender <- Impatient
  Supported = {k1, k2}
  Limit = 1
  MaxFaults = 0
INVARIANT NothingMissed
