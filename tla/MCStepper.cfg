CONSTANTS
  Parts = {"accelerated", "constant", "arm"}
  Kinds = {1, 2, 3, 4, 6, 8}
  SECOND = 1000
  Positions <- Joint
  Moves = {1}
  MaxSpeeds = {20, 200, 300}
  Accelerations = {100}
  Speeds <- Either
  Homes = {1}
  Reach = 12
  MaxN = 2
  ArmSpeed = 300
  ArmAcceleration = 100
SPECIFICATION StepsSpec
INVARIANT StepperInv
PROPERTIES RampsDown EachArrives
