SPECIFICATION HorizonSpec
CONSTANTS
  Ttl = 4
  Interval = 2
  IoWindow = 1
  Reserve = 2
  Timeout = 3
  Deadline = 8
  Skew = 1
  MaxClock = 9
INVARIANT ReconnectsWhileLive
CHECK_DEADLOCK FALSE
