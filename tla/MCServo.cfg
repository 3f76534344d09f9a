CONSTANTS
  Objects <- MCObjects
  Timers <- MCTimers
  SERVOS_PER_TIMER = 2
  Widths = {2, 4}
  REFRESH_INTERVAL = 9
  Margin = 2
  Wrap = 13
  MaxLate = 1
SPECIFICATION Spec
INVARIANTS ServoInv
PROPERTIES PulseAccurate AttachedArePulsed
