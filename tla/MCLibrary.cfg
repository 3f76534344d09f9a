CONSTANTS
  Parts = {"timer0", "interrupts", "pins", "angles"}
  Top = 8
  US = 1
  MS = 6
  Grain = 2
  Word = 16
  Half = 4
  MaxLatency = 2
  MaxYield = 3
  MaxMs = 2
  Boards <- ExtLines
  PinBoards <- TwoPins
  Beyond <- NoPin
  Duties <- SomeDuties
  Functions = {"f1", "f2"}
  nothing = "nothing"
  Clocks = {16, 20}
  Limits <- ByteLimits
  Values <- AnglesAndPulses
SPECIFICATION LibrarySpec
INVARIANTS ClockInv ClockRead DelayAccurate InterruptsInv PinsInv AnglesInv
