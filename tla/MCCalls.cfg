\* A0 as a pin, on channel 7; A8 as a channel, on channel 11.
CONSTANTS
  is32U4 = TRUE
  Pins = {18, 8}
  References = {0, 1}
  Voltages = {0, 3}
  DEFAULT = 0
\* Counts of six bits, milliseconds of 20 microseconds (at 1 MHz too short for
\* the loop, which waits of up to 63 reach).
CONSTANTS
  Word = 64
  Milli = 20
  MaxMs = 3
CONSTANTS
  Wrap = 10
  timeout = 5
  Pace = 1
  Hold = 4
CONSTANT Bytes = {1, 77, 128, 150, 255}
CONSTANT Parts = {"delay", "wait", "adc", "pulse", "shift"}
SPECIFICATION CallsSpec
INVARIANTS WaitInv AdcInv
PROPERTIES PulsesMeasured ShiftsWhole EveryCallReturns
