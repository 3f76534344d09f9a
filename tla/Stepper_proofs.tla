--------------------------- MODULE Stepper_proofs ---------------------------
(***************************************************************************)
(* That a stepper makes every step its position counts, and the way it     *)
(* counts it: proved for every kind of wiring, any targets, speeds and     *)
(* accelerations the program asks for between steps, and any length of the *)
(* tick; for motors that accelerate, for those at constant speeds and for  *)
(* the joints of the arm.                                                  *)
(*                                                                         *)
(* What is preserved says where the motor stands for a position: each kind *)
(* of wiring has one angle for every position, one step of the motor from  *)
(* that of the next; and the step line of a driver is low between steps.   *)
(***************************************************************************)
EXTENDS Arm, FiniteSetTheorems, SequenceTheorems, TLAPS

\* The interfaces that drive the coils themselves.
Coiled == {FULL2WIRE, FULL3WIRE, FULL4WIRE, HALF3WIRE, HALF4WIRE}

AngleAt(i, p) ==
  CASE i = FULL2WIRE -> (2 * (p % 4) + 5) % 8
    [] i = FULL3WIRE -> 2 * (p % 3)
    [] i = FULL4WIRE -> 2 * (p % 4) + 1
    [] i = HALF3WIRE -> p % 6
    [] i = HALF4WIRE -> p % 8

\* The fields that point in one direction.
LEMMA FieldsOf ==
    /\ Fields(1, 0) = {0} /\ Fields(1, 1) = {1} /\ Fields(0, 1) = {2} /\ Fields(-1, 1) = {3}
    /\ Fields(-1, 0) = {4} /\ Fields(-1, -1) = {5} /\ Fields(0, -1) = {6} /\ Fields(1, -1) = {7}
<1>1. Fields(1, 0) = {0} BY DEF Fields, Compass
<1>2. Fields(1, 1) = {1} BY DEF Fields, Compass
<1>3. Fields(0, 1) = {2} BY DEF Fields, Compass
<1>4. Fields(-1, 1) = {3} BY DEF Fields, Compass
<1>5. Fields(-1, 0) = {4} BY DEF Fields, Compass
<1>6. Fields(-1, -1) = {5} BY DEF Fields, Compass
<1>7. Fields(0, -1) = {6} BY DEF Fields, Compass
<1>8. Fields(1, -1) = {7} BY DEF Fields, Compass
<1> QED BY <1>1, <1>2, <1>3, <1>4, <1>5, <1>6, <1>7, <1>8

\* Each case of step2() is a mask that pulls the motor to one angle.
LEMMA Full2Cases ==
    ASSUME NEW k \in 0..3
    PROVE  Full2[k + 1] \in SUBSET (0..3) /\ Angles(FULL2WIRE, Full2[k + 1]) = {(2 * k + 5) % 8}
<1> DEFINE h == Full2[k + 1]
<1>0. Angles(FULL2WIRE, h) = Fields(2 * Level(0, h) - 1, 1 - 2 * Level(1, h))
  BY DEF Angles, FULL2WIRE, ThreeWires, FULL3WIRE, HALF3WIRE, FULL2WIRE
<1>1. CASE k = 0
  <2>1. h = {1} BY <1>1 DEF Full2
  <2>2. Level(0, h) = 0 /\ Level(1, h) = 1 /\ Level(2, h) = 0 /\ Level(3, h) = 0
    BY <2>1 DEF Level
  <2>3. Angles(FULL2WIRE, h) = Fields(-1, -1) BY <1>0, <2>2
  <2>4. (2 * k + 5) % 8 = 5 BY <1>1
  <2> QED BY <2>1, <2>3, <2>4, FieldsOf
<1>2. CASE k = 1
  <2>1. h = {0, 1} BY <1>2 DEF Full2
  <2>2. Level(0, h) = 1 /\ Level(1, h) = 1 /\ Level(2, h) = 0 /\ Level(3, h) = 0
    BY <2>1 DEF Level
  <2>3. Angles(FULL2WIRE, h) = Fields(1, -1) BY <1>0, <2>2
  <2>4. (2 * k + 5) % 8 = 7 BY <1>2
  <2> QED BY <2>1, <2>3, <2>4, FieldsOf
<1>3. CASE k = 2
  <2>1. h = {0} BY <1>3 DEF Full2
  <2>2. Level(0, h) = 1 /\ Level(1, h) = 0 /\ Level(2, h) = 0 /\ Level(3, h) = 0
    BY <2>1 DEF Level
  <2>3. Angles(FULL2WIRE, h) = Fields(1, 1) BY <1>0, <2>2
  <2>4. (2 * k + 5) % 8 = 1 BY <1>3
  <2> QED BY <2>1, <2>3, <2>4, FieldsOf
<1>4. CASE k = 3
  <2>1. h = {} BY <1>4 DEF Full2
  <2>2. Level(0, h) = 0 /\ Level(1, h) = 0 /\ Level(2, h) = 0 /\ Level(3, h) = 0
    BY <2>1 DEF Level
  <2>3. Angles(FULL2WIRE, h) = Fields(-1, 1) BY <1>0, <2>2
  <2>4. (2 * k + 5) % 8 = 3 BY <1>4
  <2> QED BY <2>1, <2>3, <2>4, FieldsOf
<1> QED BY <1>1, <1>2, <1>3, <1>4

\* Each case of step4() is a mask that pulls the motor to one angle.
LEMMA Full4Cases ==
    ASSUME NEW k \in 0..3
    PROVE  Full4[k + 1] \in SUBSET (0..3) /\ Angles(FULL4WIRE, Full4[k + 1]) = {2 * k + 1}
<1> DEFINE h == Full4[k + 1]
<1>0. Angles(FULL4WIRE, h) = Fields(Level(0, h) - Level(1, h), Level(2, h) - Level(3, h))
  BY DEF Angles, FULL4WIRE, ThreeWires, FULL3WIRE, HALF3WIRE, FULL2WIRE
<1>1. CASE k = 0
  <2>1. h = {0, 2} BY <1>1 DEF Full4
  <2>2. Level(0, h) = 1 /\ Level(1, h) = 0 /\ Level(2, h) = 1 /\ Level(3, h) = 0
    BY <2>1 DEF Level
  <2>3. Angles(FULL4WIRE, h) = Fields(1, 1) BY <1>0, <2>2
  <2>4. 2 * k + 1 = 1 BY <1>1
  <2> QED BY <2>1, <2>3, <2>4, FieldsOf
<1>2. CASE k = 1
  <2>1. h = {1, 2} BY <1>2 DEF Full4
  <2>2. Level(0, h) = 0 /\ Level(1, h) = 1 /\ Level(2, h) = 1 /\ Level(3, h) = 0
    BY <2>1 DEF Level
  <2>3. Angles(FULL4WIRE, h) = Fields(-1, 1) BY <1>0, <2>2
  <2>4. 2 * k + 1 = 3 BY <1>2
  <2> QED BY <2>1, <2>3, <2>4, FieldsOf
<1>3. CASE k = 2
  <2>1. h = {1, 3} BY <1>3 DEF Full4
  <2>2. Level(0, h) = 0 /\ Level(1, h) = 1 /\ Level(2, h) = 0 /\ Level(3, h) = 1
    BY <2>1 DEF Level
  <2>3. Angles(FULL4WIRE, h) = Fields(-1, -1) BY <1>0, <2>2
  <2>4. 2 * k + 1 = 5 BY <1>3
  <2> QED BY <2>1, <2>3, <2>4, FieldsOf
<1>4. CASE k = 3
  <2>1. h = {0, 3} BY <1>4 DEF Full4
  <2>2. Level(0, h) = 1 /\ Level(1, h) = 0 /\ Level(2, h) = 0 /\ Level(3, h) = 1
    BY <2>1 DEF Level
  <2>3. Angles(FULL4WIRE, h) = Fields(1, -1) BY <1>0, <2>2
  <2>4. 2 * k + 1 = 7 BY <1>4
  <2> QED BY <2>1, <2>3, <2>4, FieldsOf
<1> QED BY <1>1, <1>2, <1>3, <1>4

\* Each case of step8() is a mask that pulls the motor to one angle.
LEMMA Half4Cases ==
    ASSUME NEW k \in 0..7
    PROVE  Half4[k + 1] \in SUBSET (0..3) /\ Angles(HALF4WIRE, Half4[k + 1]) = {k}
<1> DEFINE h == Half4[k + 1]
<1>0. Angles(HALF4WIRE, h) = Fields(Level(0, h) - Level(1, h), Level(2, h) - Level(3, h))
  BY DEF Angles, HALF4WIRE, ThreeWires, FULL3WIRE, HALF3WIRE, FULL2WIRE
<1>1. CASE k = 0
  <2>1. h = {0} BY <1>1 DEF Half4
  <2>2. Level(0, h) = 1 /\ Level(1, h) = 0 /\ Level(2, h) = 0 /\ Level(3, h) = 0
    BY <2>1 DEF Level
  <2>3. Angles(HALF4WIRE, h) = Fields(1, 0) BY <1>0, <2>2
  <2>4. k = 0 BY <1>1
  <2> QED BY <2>1, <2>3, <2>4, FieldsOf
<1>2. CASE k = 1
  <2>1. h = {0, 2} BY <1>2 DEF Half4
  <2>2. Level(0, h) = 1 /\ Level(1, h) = 0 /\ Level(2, h) = 1 /\ Level(3, h) = 0
    BY <2>1 DEF Level
  <2>3. Angles(HALF4WIRE, h) = Fields(1, 1) BY <1>0, <2>2
  <2>4. k = 1 BY <1>2
  <2> QED BY <2>1, <2>3, <2>4, FieldsOf
<1>3. CASE k = 2
  <2>1. h = {2} BY <1>3 DEF Half4
  <2>2. Level(0, h) = 0 /\ Level(1, h) = 0 /\ Level(2, h) = 1 /\ Level(3, h) = 0
    BY <2>1 DEF Level
  <2>3. Angles(HALF4WIRE, h) = Fields(0, 1) BY <1>0, <2>2
  <2>4. k = 2 BY <1>3
  <2> QED BY <2>1, <2>3, <2>4, FieldsOf
<1>4. CASE k = 3
  <2>1. h = {1, 2} BY <1>4 DEF Half4
  <2>2. Level(0, h) = 0 /\ Level(1, h) = 1 /\ Level(2, h) = 1 /\ Level(3, h) = 0
    BY <2>1 DEF Level
  <2>3. Angles(HALF4WIRE, h) = Fields(-1, 1) BY <1>0, <2>2
  <2>4. k = 3 BY <1>4
  <2> QED BY <2>1, <2>3, <2>4, FieldsOf
<1>5. CASE k = 4
  <2>1. h = {1} BY <1>5 DEF Half4
  <2>2. Level(0, h) = 0 /\ Level(1, h) = 1 /\ Level(2, h) = 0 /\ Level(3, h) = 0
    BY <2>1 DEF Level
  <2>3. Angles(HALF4WIRE, h) = Fields(-1, 0) BY <1>0, <2>2
  <2>4. k = 4 BY <1>5
  <2> QED BY <2>1, <2>3, <2>4, FieldsOf
<1>6. CASE k = 5
  <2>1. h = {1, 3} BY <1>6 DEF Half4
  <2>2. Level(0, h) = 0 /\ Level(1, h) = 1 /\ Level(2, h) = 0 /\ Level(3, h) = 1
    BY <2>1 DEF Level
  <2>3. Angles(HALF4WIRE, h) = Fields(-1, -1) BY <1>0, <2>2
  <2>4. k = 5 BY <1>6
  <2> QED BY <2>1, <2>3, <2>4, FieldsOf
<1>7. CASE k = 6
  <2>1. h = {3} BY <1>7 DEF Half4
  <2>2. Level(0, h) = 0 /\ Level(1, h) = 0 /\ Level(2, h) = 0 /\ Level(3, h) = 1
    BY <2>1 DEF Level
  <2>3. Angles(HALF4WIRE, h) = Fields(0, -1) BY <1>0, <2>2
  <2>4. k = 6 BY <1>7
  <2> QED BY <2>1, <2>3, <2>4, FieldsOf
<1>8. CASE k = 7
  <2>1. h = {0, 3} BY <1>8 DEF Half4
  <2>2. Level(0, h) = 1 /\ Level(1, h) = 0 /\ Level(2, h) = 0 /\ Level(3, h) = 1
    BY <2>1 DEF Level
  <2>3. Angles(HALF4WIRE, h) = Fields(1, -1) BY <1>0, <2>2
  <2>4. k = 7 BY <1>8
  <2> QED BY <2>1, <2>3, <2>4, FieldsOf
<1> QED BY <1>1, <1>2, <1>3, <1>4, <1>5, <1>6, <1>7, <1>8

\* Each case of step6() is a mask that pulls the motor to one angle.
LEMMA Half3Cases ==
    ASSUME NEW k \in 0..5
    PROVE  Half3[k + 1] \in SUBSET (0..3) /\ {j \in 0..5 : Three[j] = Half3[k + 1]} = {k}
<1>1. Half3[1] = {2} BY DEF Half3
<1>2. Half3[2] = {0, 2} BY DEF Half3
<1>3. Half3[3] = {0} BY DEF Half3
<1>4. Half3[4] = {0, 1} BY DEF Half3
<1>5. Half3[5] = {1} BY DEF Half3
<1>6. Half3[6] = {1, 2} BY DEF Half3
<1>7. ASSUME NEW i \in 0..5, Half3[i + 1] = Half3[k + 1] PROVE i = k
  BY <1>1, <1>2, <1>3, <1>4, <1>5, <1>6, <1>7
<1>8. \A j \in 0..5 : Three[j] = Half3[j + 1] BY DEF Three
<1>9. {j \in 0..5 : Three[j] = Half3[k + 1]} = {k} BY <1>7, <1>8
<1>10. Half3[k + 1] \in SUBSET (0..3)
  BY <1>1, <1>2, <1>3, <1>4, <1>5, <1>6
<1> QED BY <1>9, <1>10

\* The cases of step3() are every other case of step6().
LEMMA Full3Cases ==
    ASSUME NEW k \in 0..2
    PROVE  Full3[k + 1] = Half3[2 * k + 1]
  BY DEF Full3, Half3

-----------------------------------------------------------------------------
(* The angles of the positions *)

\* The kinds of interface are different.
LEMMA OutputsOf ==
    ASSUME NEW p, NEW d
    PROVE  /\ Outputs(DRIVER, p, d) = Drive(d)
           /\ Outputs(FULL2WIRE, p, d) = Case(Full2, p, TRUE)
           /\ Outputs(FULL3WIRE, p, d) = Case(Full3, p, FALSE)
           /\ Outputs(FULL4WIRE, p, d) = Case(Full4, p, TRUE)
           /\ Outputs(HALF3WIRE, p, d) = Case(Half3, p, FALSE)
           /\ Outputs(HALF4WIRE, p, d) = Case(Half4, p, TRUE)
<1>1. /\ FUNCTION # DRIVER /\ FUNCTION # FULL2WIRE /\ FUNCTION # FULL3WIRE /\ FUNCTION # FULL4WIRE
      /\ FUNCTION # HALF3WIRE /\ FUNCTION # HALF4WIRE
      /\ DRIVER # FULL2WIRE /\ DRIVER # FULL3WIRE /\ DRIVER # FULL4WIRE /\ DRIVER # HALF3WIRE
      /\ DRIVER # HALF4WIRE
      /\ FULL2WIRE # FULL3WIRE /\ FULL2WIRE # FULL4WIRE /\ FULL2WIRE # HALF3WIRE
      /\ FULL2WIRE # HALF4WIRE
      /\ FULL3WIRE # FULL4WIRE /\ FULL3WIRE # HALF3WIRE /\ FULL3WIRE # HALF4WIRE
      /\ FULL4WIRE # HALF3WIRE /\ FULL4WIRE # HALF4WIRE
      /\ HALF3WIRE # HALF4WIRE
  BY DEF FUNCTION, DRIVER, FULL2WIRE, FULL3WIRE, FULL4WIRE, HALF3WIRE, HALF4WIRE
<1> QED BY <1>1, Zenon DEF Outputs

\* The angles of a mask of three wires.
LEMMA ThreeAngles ==
    ASSUME NEW i \in ThreeWires, NEW h
    PROVE  Angles(i, h) = {j \in 0..5 : Three[j] = h}
<1>1. i # FULL2WIRE BY DEF ThreeWires, FULL2WIRE, FULL3WIRE, HALF3WIRE
<1> DEFINE A == {j \in 0..5 : Three[j] = h}
<1>2. Angles(i, h) = A BY <1>1, Zenon DEF Angles
<1> QED BY <1>2

\* A step of a coil interface puts out one mask, which pulls the motor to one angle.
LEMMA Pulled ==
    ASSUME NEW i \in Coiled, NEW p \in Int, i \in ThreeWires => p >= 0, NEW d
    PROVE  \E h \in SUBSET (0..3) : Outputs(i, p, d) = <<h>> /\ Angles(i, h) = {AngleAt(i, p)}
<1>1. CASE i = FULL2WIRE
  <2>1. p % 4 \in 0..3 OBVIOUS
  <2>2. Len(Full2) = 4 BY DEF Full2
  <2>3. Outputs(i, p, d) = <<Full2[(p % 4) + 1]>>
    <3>1. Outputs(i, p, d) = Case(Full2, p, TRUE) BY <1>1, OutputsOf, Zenon
    <3>2. 1 + (p % 4) \in 1..4 /\ 1 + (p % 4) = (p % 4) + 1 BY <2>1
    <3> QED BY <3>1, <3>2, <2>2 DEF Case
  <2>4. AngleAt(i, p) = (2 * (p % 4) + 5) % 8 BY <1>1
    DEF AngleAt, FULL2WIRE, FULL3WIRE, FULL4WIRE, HALF3WIRE, HALF4WIRE
  <2> DEFINE k == p % 4
  <2>5. k \in 0..3 BY <2>1
  <2>6. Full2[k + 1] \in SUBSET (0..3) /\ Angles(i, Full2[k + 1]) = {(2 * k + 5) % 8}
    BY <2>5, <1>1, Full2Cases
  <2> QED BY <2>3, <2>4, <2>6
<1>2. CASE i = FULL4WIRE
  <2>1. p % 4 \in 0..3 OBVIOUS
  <2>2. Len(Full4) = 4 BY DEF Full4
  <2>3. Outputs(i, p, d) = <<Full4[(p % 4) + 1]>>
    <3>1. Outputs(i, p, d) = Case(Full4, p, TRUE) BY <1>2, OutputsOf, Zenon
    <3>2. 1 + (p % 4) \in 1..4 /\ 1 + (p % 4) = (p % 4) + 1 BY <2>1
    <3> QED BY <3>1, <3>2, <2>2 DEF Case
  <2>4. AngleAt(i, p) = 2 * (p % 4) + 1 BY <1>2
    DEF AngleAt, FULL2WIRE, FULL3WIRE, FULL4WIRE, HALF3WIRE, HALF4WIRE
  <2> DEFINE k == p % 4
  <2>5. k \in 0..3 BY <2>1
  <2>6. Full4[k + 1] \in SUBSET (0..3) /\ Angles(i, Full4[k + 1]) = {2 * k + 1}
    BY <2>5, <1>2, Full4Cases
  <2> QED BY <2>3, <2>4, <2>6
<1>3. CASE i = HALF4WIRE
  <2>1. p % 8 \in 0..7 OBVIOUS
  <2>2. Len(Half4) = 8 BY DEF Half4
  <2>3. Outputs(i, p, d) = <<Half4[(p % 8) + 1]>>
    <3>1. Outputs(i, p, d) = Case(Half4, p, TRUE) BY <1>3, OutputsOf, Zenon
    <3>2. 1 + (p % 8) \in 1..8 /\ 1 + (p % 8) = (p % 8) + 1 BY <2>1
    <3> QED BY <3>1, <3>2, <2>2 DEF Case
  <2>4. AngleAt(i, p) = p % 8 BY <1>3
    DEF AngleAt, FULL2WIRE, FULL3WIRE, FULL4WIRE, HALF3WIRE, HALF4WIRE
  <2> DEFINE k == p % 8
  <2>5. k \in 0..7 BY <2>1
  <2>6. Half4[k + 1] \in SUBSET (0..3) /\ Angles(i, Half4[k + 1]) = {k}
    BY <2>5, <1>3, Half4Cases
  <2> QED BY <2>3, <2>4, <2>6
<1>4. CASE i = HALF3WIRE
  <2>1. p % 6 \in 0..5 /\ p >= 0 BY <1>4 DEF ThreeWires
  <2>2. Len(Half3) = 6 BY DEF Half3
  <2>3. Outputs(i, p, d) = <<Half3[(p % 6) + 1]>>
    <3>1. Outputs(i, p, d) = Case(Half3, p, FALSE) BY <1>4, OutputsOf, Zenon
    <3>2. 1 + (p % 6) \in 1..6 /\ 1 + (p % 6) = (p % 6) + 1 BY <2>1
    <3>3. Remainder(p, 6) = p % 6 BY <2>1 DEF Remainder
    <3> QED BY <3>1, <3>2, <3>3, <2>2 DEF Case
  <2>4. AngleAt(i, p) = p % 6 BY <1>4
    DEF AngleAt, FULL2WIRE, FULL3WIRE, FULL4WIRE, HALF3WIRE, HALF4WIRE
  <2> DEFINE k == p % 6
  <2>5. k \in 0..5 BY <2>1
  <2>6. Half3[k + 1] \in SUBSET (0..3) /\ {j \in 0..5 : Three[j] = Half3[k + 1]} = {k}
    BY <2>5, Half3Cases
  <2>7. Angles(i, Half3[k + 1]) = {k} BY <2>6, <1>4, ThreeAngles DEF ThreeWires
  <2> QED BY <2>3, <2>4, <2>6, <2>7
<1>5. CASE i = FULL3WIRE
  <2>1. p % 3 \in 0..2 /\ p >= 0 BY <1>5 DEF ThreeWires
  <2>2. Len(Full3) = 3 BY DEF Full3
  <2>3. Outputs(i, p, d) = <<Full3[(p % 3) + 1]>>
    <3>1. Outputs(i, p, d) = Case(Full3, p, FALSE) BY <1>5, OutputsOf, Zenon
    <3>2. 1 + (p % 3) \in 1..3 /\ 1 + (p % 3) = (p % 3) + 1 BY <2>1
    <3>3. Remainder(p, 3) = p % 3 BY <2>1 DEF Remainder
    <3> QED BY <3>1, <3>2, <3>3, <2>2 DEF Case
  <2>4. AngleAt(i, p) = 2 * (p % 3) BY <1>5
    DEF AngleAt, FULL2WIRE, FULL3WIRE, FULL4WIRE, HALF3WIRE, HALF4WIRE
  <2> DEFINE k == p % 3
  <2>5. k \in 0..2 /\ 2 * k \in 0..5 BY <2>1
  <2>6. Full3[k + 1] \in SUBSET (0..3) /\ {j \in 0..5 : Three[j] = Full3[k + 1]} = {2 * k}
    <3>1. Full3[k + 1] = Half3[2 * k + 1] BY <2>5, Full3Cases
    <3> DEFINE e == 2 * k
    <3>2. e \in 0..5 BY <2>5
    <3> HIDE DEF e
    <3>3. Half3[e + 1] \in SUBSET (0..3) /\ {j \in 0..5 : Three[j] = Half3[e + 1]} = {e}
      BY <3>2, Half3Cases
    <3> QED BY <3>1, <3>3 DEF e
  <2>7. Angles(i, Full3[k + 1]) = {2 * k} BY <2>6, <1>5, ThreeAngles DEF ThreeWires
  <2> QED BY <2>3, <2>4, <2>6, <2>7
<1> QED BY <1>1, <1>2, <1>3, <1>4, <1>5 DEF Coiled

\* The angles of neighbouring positions are one step of the motor apart.
LEMMA NextAngle ==
    ASSUME NEW i \in Coiled, NEW p \in Int
    PROVE  /\ Turned(i, AngleAt(i, p), AngleAt(i, p + 1)) = 1
           /\ Turned(i, AngleAt(i, p + 1), AngleAt(i, p)) = -1
           /\ AngleAt(i, p) \in 0..(Turn(i) - 1)
<1> USE DEF FUNCTION, DRIVER, FULL2WIRE, FULL3WIRE, FULL4WIRE, HALF3WIRE, HALF4WIRE
<1>1. ASSUME NEW a \in Int, NEW b \in Int, b \in 0..(Turn(i) - 1), a \in 0..(Turn(i) - 1),
             b - a = StepAngle(i) \/ b - a = StepAngle(i) - Turn(i)
      PROVE  Turned(i, a, b) = 1 /\ Turned(i, b, a) = -1
  <2>1. Turn(i) \in {6, 8} /\ StepAngle(i) \in {1, 2} BY DEF Turn, StepAngle
  <2> DEFINE t == Turn(i)
             s == StepAngle(i)
  <2>2. Turned(i, a, b) = IF (b - a) % t = s THEN 1 ELSE IF (b - a) % t = t - s THEN -1 ELSE 0
    BY DEF Turned
  <2>3. Turned(i, b, a) = IF (a - b) % t = s THEN 1 ELSE IF (a - b) % t = t - s THEN -1 ELSE 0
    BY DEF Turned
  <2>4. t \in {6, 8} /\ s \in {1, 2} /\ (b - a = s \/ b - a = s - t) BY <2>1, <1>1
  <2> HIDE DEF t, s
  <2>5. (b - a) % t = s /\ (a - b) % t = t - s BY <2>4
  <2> QED BY <2>2, <2>3, <2>4, <2>5
<1> DEFINE a == AngleAt(i, p)
           b == AngleAt(i, p + 1)
<1>2. /\ a \in 0..(Turn(i) - 1) /\ b \in 0..(Turn(i) - 1)
      /\ b - a = StepAngle(i) \/ b - a = StepAngle(i) - Turn(i)
  <2>1. CASE i = FULL2WIRE
    <3>1. a = (2 * (p % 4) + 5) % 8 /\ b = (2 * ((p + 1) % 4) + 5) % 8 BY <2>1 DEF AngleAt
    <3>2. Turn(i) = 8 /\ StepAngle(i) = 2 BY <2>1 DEF Turn, StepAngle, ThreeWires
    <3>3. p % 4 \in 0..3 /\ (p + 1) % 4 = IF p % 4 = 3 THEN 0 ELSE (p % 4) + 1 OBVIOUS
    <3> QED BY <3>1, <3>2, <3>3
  <2>2. CASE i = FULL3WIRE
    <3>1. a = 2 * (p % 3) /\ b = 2 * ((p + 1) % 3) BY <2>2 DEF AngleAt
    <3>2. Turn(i) = 6 /\ StepAngle(i) = 2 BY <2>2 DEF Turn, StepAngle, ThreeWires
    <3>3. p % 3 \in 0..2 /\ (p + 1) % 3 = IF p % 3 = 2 THEN 0 ELSE (p % 3) + 1 OBVIOUS
    <3> QED BY <3>1, <3>2, <3>3
  <2>3. CASE i = FULL4WIRE
    <3>1. a = 2 * (p % 4) + 1 /\ b = 2 * ((p + 1) % 4) + 1 BY <2>3 DEF AngleAt
    <3>2. Turn(i) = 8 /\ StepAngle(i) = 2 BY <2>3 DEF Turn, StepAngle, ThreeWires
    <3>3. p % 4 \in 0..3 /\ (p + 1) % 4 = IF p % 4 = 3 THEN 0 ELSE (p % 4) + 1 OBVIOUS
    <3> QED BY <3>1, <3>2, <3>3
  <2>4. CASE i = HALF3WIRE
    <3>1. a = p % 6 /\ b = (p + 1) % 6 BY <2>4 DEF AngleAt
    <3>2. Turn(i) = 6 /\ StepAngle(i) = 1 BY <2>4 DEF Turn, StepAngle, ThreeWires
    <3> QED BY <3>1, <3>2
  <2>5. CASE i = HALF4WIRE
    <3>1. a = p % 8 /\ b = (p + 1) % 8 BY <2>5 DEF AngleAt
    <3>2. Turn(i) = 8 /\ StepAngle(i) = 1 BY <2>5 DEF Turn, StepAngle, ThreeWires
    <3> QED BY <3>1, <3>2
  <2> QED BY <2>1, <2>2, <2>3, <2>4, <2>5 DEF Coiled
<1>3. Turn(i) \in {6, 8} BY DEF Turn
<1>4. a \in Int /\ b \in Int BY <1>2, <1>3
<1> HIDE DEF a, b
<1>5. Turned(i, a, b) = 1 /\ Turned(i, b, a) = -1 BY <1>1, <1>2, <1>4
<1> QED BY <1>5, <1>2 DEF a, b

-----------------------------------------------------------------------------
(* Speeds and intervals *)

\* The motions, and the accelerations, of a motor.
Motions == [speed : Int, stepInterval : Nat, n : Int, cn : Nat, direction : {CCW, CW}]
Rates == {1} \cup Accelerations

\* An acceleration is positive, and low enough for the tick.
LEMMA RatesOK == ASSUME NEW a \in Rates PROVE a \in Nat \ {0} /\ 1000 * a <= 914 * (SECOND * SECOND)
<1>1. SECOND \in Nat /\ SECOND > 1 BY StepperAssumption
<1>2. SECOND * SECOND \in Nat /\ SECOND * SECOND >= 4 BY <1>1
<1>3. CASE a = 1 BY <1>2, <1>3
<1>4. CASE a \in Accelerations
  <2>1. a \in Nat \ {0} /\ 1000 * a <= 914 * SECOND * SECOND BY <1>4, StepperAssumption
  <2>2. 914 * SECOND * SECOND = 914 * (SECOND * SECOND) BY <1>1
  <2> QED BY <2>1, <2>2
<1> QED BY <1>3, <1>4 DEF Rates

\* The first interval is at least a tick.
LEMMA FirstInterval == ASSUME NEW a \in Rates PROVE c0[a] \in Nat \ {0}
<1> DEFINE square == (SECOND * SECOND * 914) \div (1000 * a)
           S == {r \in 1..SECOND : r * r <= square}
<1>0. SECOND \in Nat /\ SECOND > 1 BY StepperAssumption
<1>1. c0[a] = Cardinality(S) BY DEF c0, Rates
<1>2. square \in Nat /\ square >= 1
  <2>1. a \in Nat \ {0} /\ 1000 * a <= 914 * (SECOND * SECOND) BY RatesOK
  <2>2. SECOND * SECOND * 914 = 914 * (SECOND * SECOND) BY <1>0
  <2> DEFINE x == SECOND * SECOND * 914
             y == 1000 * a
  <2>3. x \in Nat /\ y \in Nat \ {0} /\ y <= x BY <2>1, <2>2, <1>0
  <2> HIDE DEF x, y
  <2>4. x \div y \in Nat /\ x \div y >= 1 BY <2>3
  <2> QED BY <2>4 DEF x, y
<1> HIDE DEF square
<1>3. IsFiniteSet(1..SECOND) BY FS_Interval, <1>0
<1>4. IsFiniteSet(S) BY FS_Subset, <1>3
<1>5. 1 \in S BY <1>0, <1>2
<1> HIDE DEF S
<1>6. Cardinality(S) \in Nat BY <1>4, FS_CardinalityType
<1>7. Cardinality(S) # 0 BY <1>4, <1>5, FS_EmptySet
<1> QED BY <1>1, <1>6, <1>7

\* It takes a number of steps to stop.
LEMMA StopsWithin == ASSUME NEW v \in Int, NEW a \in Rates PROVE stepsToStop(v, a) \in Nat
<1>1. a \in Nat \ {0} BY RatesOK
<1> DEFINE x == v * v
           y == 2 * a * SCALE * SCALE
<1>2. x \in Nat
  <2>1. CASE v >= 0 BY <2>1
  <2>2. CASE v < 0 BY <2>2
  <2> QED BY <2>1, <2>2
<1>3. y \in Nat \ {0} BY <1>1 DEF SCALE
<1> HIDE DEF x, y
<1>4. x \div y \in Nat BY <1>2, <1>3
<1> QED BY <1>4 DEF stepsToStop, x, y

\* The quotient of C is an integer.
LEMMA QuotientInt == ASSUME NEW a \in Int, NEW b \in Int, b # 0 PROVE Quotient(a, b) \in Int
<1>1. Magnitude(a) \in Nat /\ Magnitude(b) \in Nat \ {0} BY DEF Magnitude
<1>2. Magnitude(a) \div Magnitude(b) \in Int BY <1>1
<1> QED BY <1>2 DEF Quotient

\* A magnitude is a number, and positive but for zero.
LEMMA MagnitudeNat == ASSUME NEW x \in Int PROVE Magnitude(x) \in Nat /\ (x # 0 => Magnitude(x) > 0)
  BY DEF Magnitude

\* At rest is a motion.
LEMMA StoppedOK == ASSUME NEW m \in Motions PROVE Stopped(m) \in Motions
<1> DEFINE m1 == [m EXCEPT !.stepInterval = 0]
<1>1. m1 \in Motions BY DEF Motions
<1> HIDE DEF m1
<1> DEFINE m2 == [m1 EXCEPT !.speed = 0]
<1>2. m2 \in Motions BY <1>1 DEF Motions
<1> HIDE DEF m2
<1>3. [m2 EXCEPT !.n = 0] \in Motions BY <1>2 DEF Motions
<1> QED BY <1>3 DEF Stopped, m1, m2

\* A speed computed is a speed, and its interval at least the shortest.
LEMMA NewSpeed ==
    ASSUME NEW m \in Motions, NEW d \in Int, NEW a \in Rates, NEW c \in Nat \ {0}
    PROVE  computeNewSpeed(m, d, a, c) \in Motions
<1> DEFINE stop == stepsToStop(m.speed, a)
           toward == IF d > 0 THEN CW ELSE CCW
           n == IF d = 0 THEN m.n ELSE TurnedTo(m, Magnitude(d), toward, stop)
           cn == IF n = 0 THEN c0[a] ELSE Larger(m.cn - Quotient(2 * m.cn, 4 * n + 1), c)
           direction == IF n = 0 THEN toward ELSE m.direction
           speed == (IF direction = CW THEN 1 ELSE -1) * ((SCALE * SECOND) \div cn)
<1>0. SECOND \in Nat BY StepperAssumption
<1>1. /\ m.speed \in Int /\ m.stepInterval \in Nat /\ m.n \in Int /\ m.cn \in Nat
      /\ m.direction \in {CCW, CW}
  BY DEF Motions
<1>2. stop \in Nat BY <1>1, StopsWithin
<1>3. n \in Int BY <1>1, <1>2 DEF TurnedTo
<1>4. toward \in {CCW, CW} OBVIOUS
<1> HIDE DEF stop, toward, n
<1>5. cn \in Nat \ {0}
  <2>1. CASE n = 0 BY <2>1, FirstInterval
  <2>2. CASE n # 0
    <3>1. 4 * n + 1 \in Int /\ 4 * n + 1 # 0 BY <1>3
    <3>2. Quotient(2 * m.cn, 4 * n + 1) \in Int BY <3>1, <1>1, QuotientInt
    <3> DEFINE x == m.cn - Quotient(2 * m.cn, 4 * n + 1)
    <3>3. x \in Int BY <3>2, <1>1
    <3> HIDE DEF x
    <3>4. Larger(x, c) \in Nat \ {0} BY <3>3 DEF Larger
    <3> QED BY <3>4, <2>2 DEF x
  <2> QED BY <2>1, <2>2
<1>6. direction \in {CCW, CW} BY <1>1, <1>4
<1> HIDE DEF cn, direction
<1>7. speed \in Int
  <2> DEFINE q == (SCALE * SECOND) \div cn
  <2>1. q \in Int BY <1>0, <1>5 DEF SCALE
  <2> HIDE DEF q
  <2> DEFINE sign == IF direction = CW THEN 1 ELSE -1
  <2>2. sign \in Int OBVIOUS
  <2> HIDE DEF sign
  <2>3. sign * q \in Int BY <2>1, <2>2
  <2> QED BY <2>3 DEF q, sign
<1> HIDE DEF speed
<1>8. computeNewSpeed(m, d, a, c) =
        IF d = 0 /\ stop <= 1 THEN Stopped(m)
        ELSE [n |-> n + 1, cn |-> cn, direction |-> direction, stepInterval |-> cn, speed |-> speed]
  BY DEF computeNewSpeed, stop, toward, n, cn, direction, speed
<1>9. Stopped(m) \in Motions BY StoppedOK
<1>10. [n |-> n + 1, cn |-> cn, direction |-> direction, stepInterval |-> cn, speed |-> speed]
         \in Motions
  BY <1>3, <1>5, <1>6, <1>7 DEF Motions
<1> QED BY <1>8, <1>9, <1>10

\* The shortest interval of a maximum speed is a tick at least and a second at most.
LEMMA SpeedInterval == ASSUME NEW s \in SCALE..(SCALE * SECOND) PROVE IntervalAt(s) \in 1..SECOND
<1>0. SECOND \in Nat /\ SECOND > 1 BY StepperAssumption
<1> DEFINE x == SCALE * SECOND
<1>1. x \in Nat /\ s \in Nat /\ s >= 10 /\ s <= x /\ x = 10 * SECOND BY <1>0 DEF SCALE
<1> HIDE DEF x
<1> DEFINE q == x \div s
<1>2. q \in Int /\ q * s <= x /\ x < (q + 1) * s BY <1>1
<1> HIDE DEF q
<1>3. q >= 1
  <2> SUFFICES ASSUME q <= 0 PROVE FALSE BY <1>2
  <2>1. (q + 1) * s <= s BY <1>1, <1>2
  <2> QED BY <2>1, <1>1, <1>2
<1>4. q <= SECOND
  <2> SUFFICES ASSUME q >= SECOND + 1 PROVE FALSE BY <1>2, <1>0
  <2>1. q * s >= q * 10 BY <1>1, <1>2, <1>3
  <2> QED BY <2>1, <1>1, <1>2, <1>0
<1> QED BY <1>2, <1>3, <1>4 DEF IntervalAt, q, x

-----------------------------------------------------------------------------
(* Steps *)

\* The types of the state, and that no step was lost.
TypeInv ==
  /\ interface \in Kinds /\ currentPos \in Int /\ targetPos \in Int /\ motion \in Motions
  /\ maxSpeed \in {SCALE} \cup MaxSpeeds /\ cmin \in 1..SECOND /\ acceleration \in Rates
  /\ output \subseteq 0..3 /\ lost = FALSE

\* Where the motor stands between steps: the step line of a driver is low.
Stands ==
  IF interface = DRIVER THEN 0 \notin output /\ angle = 0
  ELSE angle = AngleAt(interface, currentPos)

\* The inductive invariant.
IInv == TypeInv /\ Stands

\* The positions that three wires have a case for.
Ahead == interface \in ThreeWires => currentPos >= 0 /\ targetPos >= 0

\* A motor has a driver or is driven by its coils.
LEMMA KindsOK == ASSUME NEW i \in Kinds PROVE i = DRIVER \/ i \in Coiled
  BY StepperAssumption DEF Interfaces, Coiled

\* Not both.
LEMMA CoiledApart == ASSUME NEW i \in Coiled PROVE i # DRIVER /\ i # FUNCTION
  BY DEF Coiled, FUNCTION, DRIVER, FULL2WIRE, FULL3WIRE, FULL4WIRE, HALF3WIRE, HALF4WIRE

\* The elements of a sequence of three with one put in front.
LEMMA Prefixed ==
    ASSUME NEW T, NEW x \in T, NEW s \in Seq(T), Len(s) = 3
    PROVE  LET all == <<x>> \o s IN all[1] = x /\ all[2] = s[1] /\ all[3] = s[2] /\ all[4] = s[3]
<1> DEFINE w == <<x>>
<1>1. w \in Seq(T) /\ Len(w) = 1 /\ w[1] = x OBVIOUS
<1> HIDE DEF w
<1>2. \A i \in 1..(Len(w) + Len(s)) : (w \o s)[i] = IF i <= Len(w) THEN w[i] ELSE s[i - Len(w)]
  BY <1>1, ConcatProperties, Zenon
<1>3. \A i \in 1..4 : (w \o s)[i] = IF i <= 1 THEN w[i] ELSE s[i - 1]
  <2>1. Len(w) = 1 /\ Len(w) + Len(s) = 4 BY <1>1
  <2> QED BY <1>2, <2>1, Zenon
<1> DEFINE all == w \o s
<1>4. \A i \in 1..4 : all[i] = IF i <= 1 THEN w[i] ELSE s[i - 1] BY <1>3
<1> HIDE DEF all
<1>5. all[1] = w[1] BY <1>4
<1>6. all[2] = s[1] /\ all[3] = s[2] /\ all[4] = s[3]
  <2>1. 2 - 1 = 1 /\ 3 - 1 = 2 /\ 4 - 1 = 3 OBVIOUS
  <2>2. all[2] = s[2 - 1] /\ all[3] = s[3 - 1] /\ all[4] = s[4 - 1] BY <1>4
  <2> QED BY <2>1, <2>2, Zenon
<1> QED BY <1>1, <1>5, <1>6 DEF w, all

\* A driver whose step line is low makes one step, by its direction line.
LEMMA DrivenOne ==
    ASSUME NEW before \in SUBSET (0..3), 0 \notin before, NEW clockwise \in BOOLEAN
    PROVE  /\ Driven(before, Drive(clockwise)) = IF clockwise THEN 1 ELSE -1
           /\ Len(Drive(clockwise)) = 3 /\ Drive(clockwise) # <<>>
           /\ Drive(clockwise)[3] \in SUBSET (0..3) /\ 0 \notin Drive(clockwise)[3]
<1> DEFINE d == IF clockwise THEN {1} ELSE {}
           outputs == <<d, d \cup {0}, d>>
           all == <<before>> \o outputs
           rises == {k \in 1..3 : 0 \in all[k + 1] \ all[k]}
           steady == {k \in rises : (1 \in all[k]) = (1 \in all[k + 1])}
<1>1. Drive(clockwise) = outputs BY DEF Drive
<1>2. d \in SUBSET (0..3) /\ 0 \notin d /\ (1 \in d <=> clockwise) OBVIOUS
<1> HIDE DEF d
<1>3. Len(outputs) = 3 /\ outputs # <<>> /\ outputs[1] = d /\ outputs[2] = d \cup {0} /\ outputs[3] = d
  OBVIOUS
<1>5. all[1] = before /\ all[2] = d /\ all[3] = d \cup {0} /\ all[4] = d
  <2> DEFINE T == SUBSET (0..3)
  <2>1. before \in T OBVIOUS
  <2>2. outputs \in Seq(T)
    <3> DEFINE e == d \cup {0}
    <3>1. d \in T /\ e \in T BY <1>2
    <3> HIDE DEF e, T
    <3>2. <<d, e, d>> \in Seq(T) BY <3>1
    <3> QED BY <3>2 DEF e
  <2> HIDE DEF outputs, T
  <2>3. Len(outputs) = 3 /\ outputs[1] = d /\ outputs[2] = d \cup {0} /\ outputs[3] = d BY <1>3
  <2>4. all[1] = before /\ all[2] = outputs[1] /\ all[3] = outputs[2] /\ all[4] = outputs[3]
    <3>1. Len(outputs) = 3 BY <2>3
    <3> QED BY <2>1, <2>2, <3>1, Prefixed, Zenon
  <2> QED BY <2>3, <2>4
<1> HIDE DEF all
<1>6. rises = {2} BY <1>5, <1>2
<1>7. steady = {2}
  <2>1. (1 \in all[2]) = (1 \in all[3]) BY <1>5
  <2> QED BY <2>1, <1>6
<1>8. Driven(before, outputs) =
        IF rises # steady \/ rises = {} THEN 0 ELSE IF \A k \in rises : 1 \in all[k] THEN 1 ELSE -1
  BY <1>3 DEF Driven, all
<1> HIDE DEF outputs, rises, steady
<1>9. (\A k \in rises : 1 \in all[k]) <=> clockwise BY <1>6, <1>5, <1>2
<1>10. Driven(before, outputs) = IF clockwise THEN 1 ELSE -1 BY <1>6, <1>7, <1>8, <1>9
<1> QED BY <1>1, <1>2, <1>3, <1>10

\* A step is made, and the way the position counts it.
LEMMA Follows ==
    ASSUME IInv, NEW direction \in {CCW, CW}, runSpeed(direction),
           interface \in ThreeWires => currentPos' >= 0
    PROVE  /\ interface' = interface /\ output' \subseteq 0..3 /\ lost' = FALSE /\ Stands'
           /\ currentPos' = currentPos + (IF direction = CW THEN 1 ELSE -1) /\ currentPos' \in Int
<1> DEFINE position == currentPos'
           outputs == Outputs(interface, position, direction = CW)
           pulled == IF outputs = <<>> THEN {} ELSE Angles(interface, outputs[1])
           way == position - currentPos
           made == CASE interface = FUNCTION -> IF motion.speed > 0 THEN 1 ELSE -1
                     [] interface = DRIVER -> Driven(output, outputs)
                     [] OTHER -> IF pulled = {} THEN 0
                                 ELSE Turned(interface, angle, CHOOSE k \in pulled : TRUE)
<1>1. /\ currentPos' = currentPos + (IF direction = CW THEN 1 ELSE -1)
      /\ Step(currentPos', direction)
  BY DEF runSpeed
<1>2. currentPos \in Int /\ interface \in Kinds /\ output \in SUBSET (0..3) /\ lost = FALSE
  BY DEF IInv, TypeInv
<1>3. currentPos' \in Int /\ way = (IF direction = CW THEN 1 ELSE -1)
  BY <1>1, <1>2
<1>4. /\ output' = IF outputs = <<>> THEN output ELSE outputs[Len(outputs)]
      /\ angle' = IF pulled = {} \/ interface \in {FUNCTION, DRIVER} THEN angle
                  ELSE CHOOSE k \in pulled : TRUE
      /\ lost' = (lost \/ made # way) /\ interface' = interface
  BY <1>1, Zenon DEF Step
<1>5. CASE interface = DRIVER
  <2>0. DRIVER # FUNCTION BY DEF DRIVER, FUNCTION
  <2> DEFINE c == direction = CW
  <2>1. outputs = Drive(c) BY <1>5, OutputsOf, Zenon
  <2>2. 0 \notin output /\ angle = 0 BY <1>5 DEF IInv, Stands
  <2>3. c \in BOOLEAN OBVIOUS
  <2>4. c <=> direction = CW OBVIOUS
  <2> HIDE DEF c
  <2>5. /\ Driven(output, outputs) = IF c THEN 1 ELSE -1
        /\ Len(outputs) = 3 /\ outputs # <<>> /\ outputs[3] \in SUBSET (0..3) /\ 0 \notin outputs[3]
    BY <2>1, <2>2, <2>3, <1>2, DrivenOne
  <2> HIDE DEF outputs
  <2>6. made = Driven(output, outputs) BY <1>5, <2>0, Zenon
  <2> HIDE DEF made
  <2>7. made = way BY <2>4, <2>5, <2>6, <1>3
  <2> HIDE DEF way
  <2>8. lost' = FALSE BY <1>4, <1>2, <2>7, Zenon
  <2>9. output' = outputs[3] BY <1>4, <2>5, Zenon
  <2>10. angle' = angle BY <1>4, <1>5, Zenon
  <2>11. 0 \notin output' /\ output' \subseteq 0..3 BY <2>9, <2>5
  <2>12. Stands' BY <1>4, <1>5, <2>2, <2>10, <2>11, Zenon DEF Stands
  <2> QED BY <1>1, <1>3, <1>4, <2>8, <2>11, <2>12
<1>6. CASE interface \in Coiled
  <2>0. interface # FUNCTION /\ interface # DRIVER BY <1>6, CoiledApart
  <2> DEFINE j == AngleAt(interface, position)
  <2>1. PICK h \in SUBSET (0..3) : outputs = <<h>> /\ Angles(interface, h) = {j}
    BY <1>6, <1>3, Pulled
  <2>2. outputs # <<>> /\ outputs[1] = h /\ Len(outputs) = 1 BY <2>1
  <2> HIDE DEF outputs
  <2>3. pulled = {j} BY <2>1, <2>2, Zenon
  <2> HIDE DEF pulled
  <2>4. pulled # {} /\ (CHOOSE k \in pulled : TRUE) = j BY <2>3
  <2>5. made = Turned(interface, angle, j) BY <2>0, <2>4, Zenon
  <2>6. angle = AngleAt(interface, currentPos) BY <2>0, Zenon DEF IInv, Stands
  <2> HIDE DEF made
  <2>7. made = way
    <3>1. CASE direction = CW
      <4>1. position = currentPos + 1 /\ way = 1 BY <1>1, <1>3, <3>1
      <4>2. Turned(interface, AngleAt(interface, currentPos), AngleAt(interface, currentPos + 1)) = 1
        BY <1>2, <1>6, NextAngle
      <4> QED BY <4>1, <4>2, <2>5, <2>6
    <3>2. CASE direction # CW
      <4>1. currentPos = position + 1 /\ way = -1 BY <1>1, <1>2, <1>3, <3>2
      <4>2. Turned(interface, AngleAt(interface, position + 1), AngleAt(interface, position)) = -1
        BY <1>3, <1>6, NextAngle
      <4> QED BY <4>1, <4>2, <2>5, <2>6
    <3> QED BY <3>1, <3>2
  <2> HIDE DEF way
  <2>8. lost' = FALSE BY <1>4, <1>2, <2>7, Zenon
  <2>9. output' = h BY <1>4, <2>2, Zenon
  <2>10. angle' = j BY <1>4, <2>0, <2>4, Zenon
  <2>11. Stands' BY <1>4, <2>0, <2>10, Zenon DEF Stands
  <2> QED BY <1>1, <1>3, <1>4, <2>8, <2>9, <2>11
<1> QED BY <1>2, <1>5, <1>6, KindsOK

-----------------------------------------------------------------------------
(* The calls of the program *)

\* The invariant holds of a new motor.
LEMMA InitInv == Init => IInv
<1> SUFFICES ASSUME Init PROVE IInv OBVIOUS
<1>1. /\ interface \in Kinds /\ currentPos = 0 /\ targetPos = 0 /\ maxSpeed = SCALE /\ cmin = 1
      /\ acceleration = 1 /\ output = {} /\ lost = FALSE
      /\ motion = [speed |-> 0, stepInterval |-> 0, n |-> 0, cn |-> 0, direction |-> CCW]
  BY DEF Init
<1>2. motion \in Motions BY <1>1 DEF Motions
<1>3. cmin \in 1..SECOND BY <1>1, StepperAssumption
<1>4. TypeInv BY <1>1, <1>2, <1>3 DEF TypeInv, Rates
<1>5. CASE interface = DRIVER BY <1>1, <1>4, <1>5 DEF Init, IInv, Stands
<1>6. CASE interface \in Coiled
  <2>1. interface # FUNCTION /\ interface # DRIVER BY <1>6, CoiledApart
  <2> DEFINE outputs == Outputs(interface, 0, FALSE)
  <2>2. angle \in Angles(interface, outputs[1]) BY <2>1 DEF Init
  <2>3. \E h \in SUBSET (0..3) : outputs = <<h>> /\ Angles(interface, h) = {AngleAt(interface, 0)}
    <3>1. 0 \in Int /\ (interface \in ThreeWires => 0 >= 0) OBVIOUS
    <3> QED BY <3>1, <1>6, Pulled, Zenon
  <2> HIDE DEF outputs
  <2>4. Angles(interface, outputs[1]) = {AngleAt(interface, 0)} BY <2>3
  <2>5. angle = AngleAt(interface, currentPos) BY <2>2, <2>4, <1>1
  <2> QED BY <2>1, <2>5, <1>4 DEF IInv, Stands
<1> QED BY <1>1, <1>5, <1>6, KindsOK

\* What holds between steps is more than what is checked.
LEMMA InvHolds == IInv => StepperInv
<1> SUFFICES ASSUME IInv PROVE StepperInv OBVIOUS
<1>1. TypeInv /\ Stands BY DEF IInv
<1>2. angle \in 0..(Turn(interface) - 1)
  <2>1. interface = DRIVER \/ interface \in Coiled BY <1>1, KindsOK DEF TypeInv
  <2>2. CASE interface = DRIVER
    <3>1. angle = 0 BY <1>1, <2>2 DEF Stands
    <3>2. Turn(interface) \in {6, 8} BY DEF Turn
    <3> QED BY <3>1, <3>2
  <2>3. CASE interface \in Coiled
    <3>1. angle = AngleAt(interface, currentPos) BY <1>1, <2>3, CoiledApart DEF Stands
    <3> QED BY <3>1, <1>1, <2>3, NextAngle DEF TypeInv
  <2> QED BY <2>1, <2>2, <2>3
<1>3. /\ motion.direction \in {CCW, CW} /\ motion.speed \in Int /\ motion.n \in Int
      /\ motion.stepInterval \in Nat /\ motion.cn \in Nat
  BY <1>1 DEF TypeInv, Motions
<1> QED BY <1>1, <1>2, <1>3 DEF TypeInv, Rates, StepperInv, StepperTypeOK, MotorFollows

\* A call leaves the motor where it stands.
LEMMA Quiet ==
    ASSUME IInv, UNCHANGED <<currentPos, motor>>, targetPos' \in Int, motion' \in Motions,
           maxSpeed' \in {SCALE} \cup MaxSpeeds, cmin' \in 1..SECOND, acceleration' \in Rates
    PROVE  IInv'
<1>1. /\ interface' = interface /\ output' = output /\ angle' = angle /\ lost' = lost
      /\ currentPos' = currentPos
  BY DEF motor
<1>2. TypeInv' BY <1>1 DEF IInv, TypeInv
<1>3. Stands' BY <1>1 DEF IInv, Stands
<1> QED BY <1>2, <1>3 DEF IInv

\* What the lemmas on calls need of the invariant.
LEMMA Typed ==
    ASSUME IInv
    PROVE  /\ motion \in Motions /\ acceleration \in Rates /\ cmin \in Nat \ {0} /\ cmin \in 1..SECOND
           /\ currentPos \in Int /\ targetPos \in Int /\ maxSpeed \in {SCALE} \cup MaxSpeeds
           /\ maxSpeed \in Nat
           /\ motion.speed \in Int /\ motion.n \in Int /\ motion.direction \in {CCW, CW}
  BY StepperAssumption DEF IInv, TypeInv, Motions, SCALE

\* moveTo() keeps the invariant, and the position.
LEMMA MoveToKeeps ==
    ASSUME IInv, NEW p \in Int, MoveTo(p)
    PROVE  IInv' /\ interface' = interface /\ currentPos' = currentPos /\ targetPos' = p
<1>1. /\ targetPos' = p /\ motion' = computeNewSpeed(motion, p - currentPos, acceleration, cmin)
      /\ currentPos' = currentPos /\ UNCHANGED motor /\ UNCHANGED limits
  BY DEF MoveTo
<1>2. maxSpeed' = maxSpeed /\ cmin' = cmin /\ acceleration' = acceleration /\ interface' = interface
  BY <1>1 DEF limits, motor
<1>3. p - currentPos \in Int BY Typed
<1>4. motion' \in Motions BY <1>1, <1>3, Typed, NewSpeed
<1>5. IInv' BY <1>1, <1>2, <1>4, Typed, Quiet
<1> QED BY <1>1, <1>2, <1>5

\* So does setMaxSpeed().
LEMMA SetMaxSpeedKeeps ==
    ASSUME IInv, NEW s \in MaxSpeeds, setMaxSpeed(s)
    PROVE  IInv' /\ interface' = interface /\ currentPos' = currentPos /\ targetPos' = targetPos
<1> DEFINE m == [motion EXCEPT !.n = stepsToStop(motion.speed, acceleration)]
<1>1. /\ maxSpeed' = s /\ cmin' = IntervalAt(s)
      /\ motion' = IF motion.n > 0
                   THEN computeNewSpeed(m, targetPos - currentPos, acceleration, cmin') ELSE motion
      /\ UNCHANGED <<currentPos, targetPos, acceleration, motor>>
  BY DEF setMaxSpeed
<1>2. cmin' \in 1..SECOND /\ cmin' \in Nat \ {0} BY <1>1, SpeedInterval, StepperAssumption
<1>3. m \in Motions
  <2>1. stepsToStop(motion.speed, acceleration) \in Int BY Typed, StopsWithin
  <2> QED BY <2>1, Typed DEF Motions
<1> HIDE DEF m
<1>4. targetPos - currentPos \in Int BY Typed
<1>5. computeNewSpeed(m, targetPos - currentPos, acceleration, cmin') \in Motions
  BY <1>2, <1>3, <1>4, Typed, NewSpeed
<1>6. motion' \in Motions BY <1>1, <1>5, Typed
<1>7. targetPos' = targetPos /\ acceleration' = acceleration /\ interface' = interface
  BY <1>1 DEF motor
<1>8. IInv' BY <1>1, <1>2, <1>6, <1>7, Typed, Quiet
<1> QED BY <1>1, <1>7, <1>8

\* So does setAcceleration().
LEMMA SetAccelerationKeeps ==
    ASSUME IInv, NEW a \in Accelerations, setAcceleration(a)
    PROVE  IInv' /\ interface' = interface /\ currentPos' = currentPos /\ targetPos' = targetPos
<1> DEFINE m == [motion EXCEPT !.n = Quotient(motion.n * acceleration, a)]
<1>1. /\ acceleration' = a
      /\ motion' = computeNewSpeed(m, targetPos - currentPos, a, cmin)
      /\ UNCHANGED <<currentPos, targetPos, maxSpeed, cmin, motor>>
  BY DEF setAcceleration
<1>2. a \in Rates BY DEF Rates
<1>3. m \in Motions
  <2>1. a \in Int /\ a # 0 BY <1>2, RatesOK
  <2>2. acceleration \in Int /\ motion.n \in Int BY Typed, RatesOK
  <2>3. motion.n * acceleration \in Int BY <2>2
  <2>4. Quotient(motion.n * acceleration, a) \in Int BY <2>1, <2>3, QuotientInt
  <2> QED BY <2>4, Typed DEF Motions
<1> HIDE DEF m
<1>4. targetPos - currentPos \in Int BY Typed
<1>5. motion' \in Motions BY <1>1, <1>2, <1>3, <1>4, Typed, NewSpeed
<1>6. targetPos' = targetPos /\ maxSpeed' = maxSpeed /\ cmin' = cmin /\ interface' = interface
  BY <1>1 DEF motor
<1>7. IInv' BY <1>1, <1>2, <1>5, <1>6, Typed, Quiet
<1> QED BY <1>1, <1>6, <1>7

\* So does setSpeed().
LEMMA SetSpeedKeeps ==
    ASSUME IInv, NEW speed \in Int, setSpeed(speed)
    PROVE  IInv' /\ interface' = interface /\ currentPos' = currentPos /\ targetPos' = targetPos
<1> DEFINE v == IF speed > maxSpeed THEN maxSpeed ELSE IF speed < -maxSpeed THEN -maxSpeed ELSE speed
           interval == IntervalAt(Magnitude(v))
           toward == IF v > 0 THEN CW ELSE CCW
           m1 == [motion EXCEPT !.speed = v]
           m2 == [m1 EXCEPT !.stepInterval = interval]
           m3 == [m2 EXCEPT !.direction = toward]
           z1 == [motion EXCEPT !.speed = 0]
           z2 == [z1 EXCEPT !.stepInterval = 0]
<1>1. /\ motion' = IF v = 0 THEN z2 ELSE m3
      /\ UNCHANGED <<currentPos, targetPos, limits, motor>>
  BY DEF setSpeed
<1>2. v \in Int BY Typed
<1>3. v # 0 => interval \in Nat
  <2> HIDE DEF v
  <2>1. v # 0 => Magnitude(v) \in Nat \ {0} BY <1>2, MagnitudeNat
  <2>2. SCALE * SECOND \in Nat BY StepperAssumption DEF SCALE
  <2> QED BY <2>1, <2>2 DEF IntervalAt
<1>4. toward \in {CCW, CW} OBVIOUS
<1> HIDE DEF v, interval, toward
<1>5. m1 \in Motions /\ z1 \in Motions BY <1>2, Typed DEF Motions
<1> HIDE DEF m1, z1
<1>6. z2 \in Motions BY <1>5 DEF Motions
<1>7. v # 0 => m2 \in Motions BY <1>3, <1>5 DEF Motions
<1> HIDE DEF m2, z2
<1>8. v # 0 => m3 \in Motions BY <1>4, <1>7 DEF Motions
<1> HIDE DEF m3
<1>9. motion' \in Motions BY <1>1, <1>6, <1>8
<1>10. targetPos' = targetPos /\ maxSpeed' = maxSpeed /\ cmin' = cmin /\ interface' = interface
       /\ acceleration' = acceleration /\ currentPos' = currentPos
  BY <1>1 DEF motor, limits
<1>11. IInv' BY <1>1, <1>9, <1>10, Typed, Quiet
<1> QED BY <1>10, <1>11

\* setCurrentPosition() keeps it behind a driver, where the angle does not depend on the
\* position.
LEMMA SetCurrentPositionKeeps ==
    ASSUME IInv, NEW p \in Int, setCurrentPosition(p), interface = DRIVER
    PROVE  IInv' /\ interface' = interface /\ currentPos' = p /\ targetPos' = p
<1>1. currentPos' = p /\ targetPos' = p /\ motion' = Stopped(motion) /\ UNCHANGED <<limits, motor>>
  BY DEF setCurrentPosition
<1>2. motion' \in Motions BY <1>1, Typed, StoppedOK
<1>3. /\ interface' = interface /\ output' = output /\ angle' = angle /\ lost' = lost
      /\ maxSpeed' = maxSpeed /\ cmin' = cmin /\ acceleration' = acceleration
  BY <1>1 DEF motor, limits
<1>4. TypeInv' BY <1>1, <1>2, <1>3 DEF IInv, TypeInv
<1>5. Stands' BY <1>3 DEF IInv, Stands
<1> QED BY <1>1, <1>3, <1>4, <1>5 DEF IInv

\* A step of either kind keeps the motor where its position is.
LEMMA StepKeeps ==
    ASSUME IInv, NEW direction \in {CCW, CW}, runSpeed(direction),
           interface \in ThreeWires => currentPos' >= 0,
           motion' \in Motions, UNCHANGED <<targetPos, limits>>
    PROVE  IInv'
<1>1. /\ interface' = interface /\ output' \subseteq 0..3 /\ lost' = FALSE /\ Stands'
      /\ currentPos' \in Int
  BY Follows
<1>2. targetPos' = targetPos /\ maxSpeed' = maxSpeed /\ cmin' = cmin /\ acceleration' = acceleration
  BY DEF limits
<1>3. TypeInv' BY <1>1, <1>2 DEF IInv, TypeInv
<1> QED BY <1>1, <1>3 DEF IInv

\* run() keeps the invariant, whatever the direction, on wires whose every position has a
\* case.
LEMMA RunKeeps ==
    ASSUME IInv, interface \notin ThreeWires, Run
    PROVE  IInv' /\ interface' = interface
<1>1. /\ runSpeed(motion.direction) /\ UNCHANGED <<targetPos, limits>>
      /\ motion' = computeNewSpeed(motion, targetPos - currentPos', acceleration, cmin)
  BY DEF Run
<1> DEFINE direction == motion.direction
<1>2. direction \in {CCW, CW} BY Typed
<1>3. runSpeed(direction) BY <1>1
<1> HIDE DEF direction
<1>4. currentPos' \in Int /\ interface' = interface BY <1>2, <1>3, Follows
<1>5. targetPos - currentPos' \in Int BY <1>4, Typed
<1>6. motion' \in Motions BY <1>1, <1>5, Typed, NewSpeed
<1>7. IInv' BY <1>1, <1>2, <1>3, <1>6, StepKeeps
<1> QED BY <1>4, <1>7

\* Towards a target from the origin up, the motor stays from the origin up.
LEMMA RunSpeedToPositionKeeps ==
    ASSUME IInv, Ahead, RunSpeedToPosition
    PROVE  IInv' /\ Ahead'
<1> DEFINE direction == IF targetPos > currentPos THEN CW ELSE CCW
<1>1. /\ targetPos # currentPos /\ runSpeed(direction) /\ UNCHANGED <<targetPos, limits>>
      /\ motion' = [motion EXCEPT !.direction = direction]
  BY DEF RunSpeedToPosition
<1>2. direction \in {CCW, CW} OBVIOUS
<1>3. currentPos' = currentPos + (IF direction = CW THEN 1 ELSE -1)
  BY <1>1 DEF runSpeed
<1>4. interface \in ThreeWires => currentPos' >= 0
  <2>1. CASE targetPos > currentPos
    <3>1. currentPos' = currentPos + 1 BY <1>3, <2>1
    <3> QED BY <3>1, Typed DEF Ahead
  <2>2. CASE ~(targetPos > currentPos)
    <3>1. CCW # CW BY DEF CCW, CW
    <3>2. currentPos' = currentPos - 1 BY <1>3, <2>2, <3>1
    <3> QED BY <3>2, <2>2, <1>1, Typed DEF Ahead
  <2> QED BY <2>1, <2>2
<1> HIDE DEF direction
<1>5. interface' = interface BY <1>1, <1>2, <1>4, Follows
<1>6. motion' \in Motions BY <1>1, <1>2, Typed DEF Motions
<1>7. IInv' BY <1>1, <1>2, <1>4, <1>6, StepKeeps
<1>8. Ahead' BY <1>1, <1>4, <1>5 DEF Ahead
<1> QED BY <1>7, <1>8

-----------------------------------------------------------------------------
\* A step of a program that accelerates keeps the invariant.
LEMMA AcceleratedStep ==
    ASSUME IInv, interface \notin ThreeWires, [Accelerated]_vars
    PROVE  IInv' /\ interface' \notin ThreeWires
<1>1. CASE Run BY <1>1, RunKeeps
<1>2. ASSUME NEW d \in Int, Move(d) PROVE IInv' /\ interface' = interface
  <2>1. currentPos + d \in Int BY Typed
  <2> QED BY <1>2, <2>1, MoveToKeeps DEF Move
<1>3. CASE Stop
  <2>1. stepsToStop(motion.speed, acceleration) \in Nat BY Typed, StopsWithin
  <2> DEFINE s == stepsToStop(motion.speed, acceleration) + 1
             d == IF motion.speed > 0 THEN s ELSE -s
  <2>2. Move(d) BY <1>3 DEF Stop
  <2>3. d \in Int BY <2>1
  <2> HIDE DEF d
  <2> QED BY <2>2, <2>3, <1>2
<1>4. ASSUME NEW p \in Positions, MoveTo(p) PROVE IInv' /\ interface' = interface
  <2>1. p \in Int BY StepperAssumption
  <2> QED BY <1>4, <2>1, MoveToKeeps
<1>5. ASSUME NEW d \in Moves, Move(d) PROVE IInv' /\ interface' = interface
  <2>1. d \in Int BY StepperAssumption
  <2> QED BY <1>2, <1>5, <2>1
<1>6. ASSUME NEW s \in MaxSpeeds, setMaxSpeed(s) PROVE IInv' /\ interface' = interface
  BY <1>6, SetMaxSpeedKeeps
<1>7. ASSUME NEW a \in Accelerations, setAcceleration(a) PROVE IInv' /\ interface' = interface
  BY <1>7, SetAccelerationKeeps
<1>8. CASE UNCHANGED vars BY <1>8 DEF vars, limits, motor, IInv, TypeInv, Stands
<1> QED BY <1>1, <1>3, <1>4, <1>5, <1>6, <1>7, <1>8 DEF Accelerated

\* A motor that accelerates makes every step its position counts, wherever the program
\* moves its target and whatever it sets between two steps (AccelStepper.cpp 38-70, 97-177,
\* 319-568).
THEOREM AcceleratedFollows == Spec => []StepperInv
<1> DEFINE Inv == IInv /\ interface \notin ThreeWires
<1>1. Init /\ interface \notin ThreeWires => Inv BY InitInv
<1>2. Inv /\ [Accelerated]_vars => Inv' BY AcceleratedStep
<1>3. Inv => StepperInv BY InvHolds
<1> QED BY <1>1, <1>2, <1>3, PTL DEF Spec

\* So does a step of a program at constant speeds, where three wires stay from the origin
\* up.
LEMMA ConstantStep ==
    ASSUME IInv, Ahead, [AtConstantSpeed]_vars
    PROVE  IInv' /\ Ahead'
<1>1. CASE RunSpeedToPosition BY <1>1, RunSpeedToPositionKeeps
<1>2. ASSUME NEW p \in Positions, (interface \in ThreeWires => p >= 0) /\ MoveTo(p) PROVE IInv' /\ Ahead'
  <2>1. p \in Int BY StepperAssumption
  <2> QED BY <1>2, <2>1, MoveToKeeps DEF Ahead
<1>3. ASSUME NEW s \in MaxSpeeds, setMaxSpeed(s) PROVE IInv' /\ Ahead'
  BY <1>3, SetMaxSpeedKeeps DEF Ahead
<1>4. ASSUME NEW v \in Speeds, setSpeed(v) PROVE IInv' /\ Ahead'
  <2>1. v \in Int BY StepperAssumption
  <2> QED BY <1>4, <2>1, SetSpeedKeeps DEF Ahead
<1>5. ASSUME interface = DRIVER, NEW p \in Homes, setCurrentPosition(p) PROVE IInv' /\ Ahead'
  <2>1. p \in Int BY StepperAssumption
  <2>2. interface \notin ThreeWires BY <1>5 DEF DRIVER, ThreeWires, FULL3WIRE, HALF3WIRE
  <2> QED BY <1>5, <2>1, <2>2, SetCurrentPositionKeeps DEF Ahead
<1>6. CASE UNCHANGED vars BY <1>6 DEF vars, limits, motor, IInv, TypeInv, Stands, Ahead
<1> QED BY <1>1, <1>2, <1>3, <1>4, <1>5, <1>6 DEF AtConstantSpeed

\* So does a motor at constant speeds, on three wires too as long as its targets are not
\* below the origin (AccelStepper.cpp 38-70, 298-311, 619-628).
THEOREM ConstantFollows == ConstantSpec => []StepperInv
<1> DEFINE Inv == IInv /\ Ahead
<1>1. Init => Inv
  <2>1. Init => Ahead BY DEF Init, Ahead
  <2> QED BY <2>1, InitInv
<1>2. Inv /\ [AtConstantSpeed]_vars => Inv' BY ConstantStep
<1>3. Inv => StepperInv BY InvHolds
<1> QED BY <1>1, <1>2, <1>3, PTL DEF ConstantSpec

\* So does a step of the arm.
LEMMA ArmStep ==
    ASSUME IInv, interface = HALF4WIRE, [ArmNext]_armVars
    PROVE  IInv' /\ interface' = HALF4WIRE
<1>0. interface \notin ThreeWires BY DEF HALF4WIRE, ThreeWires, FULL3WIRE, HALF3WIRE
<1>1. CASE RunToPosition BY <1>0, <1>1, RunKeeps DEF RunToPosition
<1>2. CASE GotoReturns
  <2>1. /\ interface' = interface /\ output' = {} /\ angle' = angle /\ lost' = lost
        /\ currentPos' = currentPos /\ targetPos' = targetPos /\ motion' = motion
        /\ maxSpeed' = maxSpeed /\ cmin' = cmin /\ acceleration' = acceleration
    BY <1>2 DEF GotoReturns, limits
  <2>2. TypeInv' BY <2>1 DEF IInv, TypeInv
  <2>3. Stands' BY <2>1 DEF IInv, Stands
  <2> QED BY <2>1, <2>2, <2>3 DEF IInv
<1>3. ASSUME NEW p \in Positions, Goto(p) PROVE IInv' /\ interface' = interface
  <2>1. /\ Configure /\ targetPos' = p /\ currentPos' = currentPos /\ UNCHANGED motor
        /\ motion' = IF targetPos = p THEN motion
                     ELSE computeNewSpeed(motion, p - currentPos, acceleration', cmin')
    BY <1>3 DEF Goto
  <2>2. p \in Int BY StepperAssumption
  <2>3. maxSpeed' \in {SCALE} \cup MaxSpeeds /\ cmin' \in 1..SECOND /\ acceleration' \in Rates
    <3>1. CASE stepper_configured BY <2>1, <3>1, Typed DEF Configure, limits
    <3>2. CASE ~ stepper_configured
      <4>1. maxSpeed' = ArmSpeed /\ cmin' = IntervalAt(ArmSpeed) /\ acceleration' = ArmAcceleration
        BY <2>1, <3>2 DEF Configure
      <4>2. IntervalAt(ArmSpeed) \in 1..SECOND BY ArmAssumption, StepperAssumption, SpeedInterval
      <4> QED BY <4>1, <4>2, ArmAssumption DEF Rates
    <3> QED BY <3>1, <3>2
  <2>4. cmin' \in Nat \ {0} BY <2>3, StepperAssumption
  <2>5. p - currentPos \in Int BY <2>2, Typed
  <2>6. computeNewSpeed(motion, p - currentPos, acceleration', cmin') \in Motions
    BY <2>3, <2>4, <2>5, Typed, NewSpeed
  <2>7. motion' \in Motions BY <2>1, <2>6, Typed
  <2>8. IInv' BY <2>1, <2>2, <2>3, <2>7, Quiet
  <2> QED BY <2>1, <2>8 DEF motor
<1>4. CASE UNCHANGED armVars BY <1>4 DEF armVars, vars, limits, motor, IInv, TypeInv, Stands
<1> QED BY <1>1, <1>2, <1>3, <1>4 DEF ArmNext

\* So does a joint of the arm, from one stepper_goto() to the next, though the coils lose
\* their power in between (stepper_aux.cpp 8-41, AccelStepper.cpp 543-577).
THEOREM ArmFollows == ArmSpec => []StepperInv
<1> DEFINE Inv == IInv /\ interface = HALF4WIRE
<1>1. ArmInit => Inv BY InitInv DEF ArmInit
<1>2. Inv /\ [ArmNext]_armVars => Inv' BY ArmStep
<1>3. Inv => StepperInv BY InvHolds
<1> QED BY <1>1, <1>2, <1>3, PTL DEF ArmSpec
=============================================================================
