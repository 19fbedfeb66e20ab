SPECIFICATION FairSpec
CONSTANTS
  AsrPermits = {d1, d2}
  CloudPermits = {n1}
  AsrTasks = {a1, a2, a3}
  LocalRequests = {l1, l2}
  CloudRequests = {k1, k2}
  Nobody = Nobody
INVARIANTS TypeOK DeviceExclusive NoPermitLost
PROPERTIES NoOvertaking ImplementsLimits EventuallyServed
