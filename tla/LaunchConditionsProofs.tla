----------------------- MODULE LaunchConditionsProofs -----------------------
(***************************************************************************)
(* Proofs about LaunchConditions: the guarded integer arithmetic of the    *)
(* code computes what exact arithmetic would, for every width of int.      *)
(***************************************************************************)
EXTENDS LaunchConditions, TLAPS

-----------------------------------------------------------------------------
(* Arithmetic.                                                             *)

(* A number that an int can hold is not changed by wrapping around.        *)
LEMMA WrapInside == \A n \in Ints : Wrap(n) = n
<1> SUFFICES ASSUME NEW n \in Ints PROVE Wrap(n) = n
  OBVIOUS
<1> DEFINE m == 2 * MaxInt + 2
           k == n + MaxInt + 1
<1>1. m \in Nat /\ m > 0 /\ k \in 0 .. (m - 1)
  BY IntAssumption DEF Ints
<1>2. k % m = k
  BY <1>1
<1> QED
  BY <1>1, <1>2, IntAssumption DEF Wrap, Ints

(* Products grow with their first factor.                                  *)
LEMMA ProductsGrow ==
    ASSUME NEW b \in Nat, NEW c \in Nat, NEW k \in Nat, b <= c
    PROVE  b * k <= c * k
<1> DEFINE d == c - b
<1>1. d \in Nat /\ c = b + d
  OBVIOUS
<1> HIDE DEF d
<1>2. d * k \in Nat
  BY <1>1
<1>3. (b + d) * k = b * k + d * k
  BY <1>1
<1> QED
  BY <1>1, <1>2, <1>3

(* Dividing leaves less than the divisor.                                  *)
LEMMA Division ==
    ASSUME NEW n \in Nat, NEW k \in Nat, k > 0
    PROVE  /\ n \div k \in Nat
           /\ (n \div k) * k <= n
           /\ n < (n \div k) * k + k
  OBVIOUS

(* Adding half of 96 before dividing by 96 rounds to the nearest number.   *)
LEMMA NearestIsHalfUp ==
    ASSUME NEW v \in Nat, NEW dpi \in Nat
    PROVE  /\ Nearest(v, dpi) = (v * dpi + 48) \div 96
           /\ Nearest(v, dpi) \in Nat
<1> DEFINE p == v * dpi
<1>1. p \in Nat
  OBVIOUS
<1> HIDE DEF p
<1>2. /\ (IF p % 96 >= 48 THEN p \div 96 + 1 ELSE p \div 96) = (p + 48) \div 96
      /\ (p + 48) \div 96 \in Nat
  BY <1>1
<1> QED
  BY <1>2 DEF Nearest, p

(* The guard of scaleLogicalPixel leaves room for the product and for the  *)
(* rounding, so what it lets through is scaled exactly.                    *)
LEMMA GuardedScaleIsExact ==
    ASSUME NEW v \in Nat, NEW dpi \in Ints, dpi >= 96, v \in Ints,
           ~ScaleOverflows(v, dpi)
    PROVE  /\ Scale(v, dpi) = Nearest(v, dpi)
           /\ Nearest(v, dpi) \in Nat
           /\ Nearest(v, dpi) <= MaxInt
<1> DEFINE q == (MaxInt - 48) \div dpi
           p == v * dpi
<1>1. dpi \in Nat /\ dpi > 0 /\ MaxInt - 48 \in Nat /\ MaxInt \in Nat
  BY IntAssumption DEF Ints
<1>2. q \in Nat /\ q * dpi <= MaxInt - 48
  BY <1>1, Division
<1>3. v <= q
  BY <1>1, <1>2 DEF ScaleOverflows
<1>4. p <= q * dpi
  BY <1>1, <1>2, <1>3, ProductsGrow
<1>5. p \in Nat /\ q * dpi \in Nat
  BY <1>1, <1>2
<1>6. p \in Ints /\ p + 48 \in Ints /\ p + 48 <= MaxInt
  <2> HIDE DEF p, q
  <2> QED
    BY <1>1, <1>2, <1>4, <1>5 DEF Ints
<1>7. Scale(v, dpi) = (p + 48) \div 96
  BY <1>6, WrapInside DEF Scale
<1>8. Nearest(v, dpi) = (p + 48) \div 96 /\ Nearest(v, dpi) \in Nat
  BY <1>1, NearestIsHalfUp
<1>9. (p + 48) \div 96 <= MaxInt
  <2> HIDE DEF p
  <2> QED
    BY <1>1, <1>5, <1>6
<1> QED
  BY <1>7, <1>8, <1>9

(* What the guard of scaleLogicalPixel refuses is larger than any screen.  *)
LEMMA RefusedScaleIsHuge ==
    ASSUME NEW v \in Nat, NEW dpi \in Ints, dpi >= 96, v \in Ints,
           ScaleOverflows(v, dpi)
    PROVE  /\ Nearest(v, dpi) \in Nat
           /\ 96 * Nearest(v, dpi) > MaxInt - 95
<1> DEFINE q == (MaxInt - 48) \div dpi
           p == v * dpi
<1>1. dpi \in Nat /\ dpi > 0 /\ MaxInt - 48 \in Nat /\ MaxInt \in Nat
  BY IntAssumption DEF Ints
<1>2. q \in Nat /\ MaxInt - 48 < q * dpi + dpi
  BY <1>1, Division
<1>3. q + 1 <= v
  BY <1>1, <1>2 DEF ScaleOverflows
<1>4. (q + 1) * dpi <= p
  BY <1>1, <1>2, <1>3, ProductsGrow
<1>5. (q + 1) * dpi = q * dpi + dpi /\ q * dpi \in Nat /\ p \in Nat
  BY <1>1, <1>2
<1>6. p > MaxInt - 48
  <2> HIDE DEF p, q
  <2> QED
    BY <1>1, <1>2, <1>4, <1>5
<1>7. Nearest(v, dpi) = (p + 48) \div 96 /\ Nearest(v, dpi) \in Nat
  BY <1>1, NearestIsHalfUp
<1>8. 96 * ((p + 48) \div 96) > MaxInt - 95
  <2> HIDE DEF p
  <2> QED
    BY <1>1, <1>5, <1>6
<1> QED
  BY <1>7, <1>8

(* A window of at least one logical pixel has at least one physical pixel. *)
LEMMA ExtentsStayPositive ==
    ASSUME NEW v \in Nat, NEW dpi \in Ints, dpi >= 96, v >= 1
    PROVE  Nearest(v, dpi) >= 1
<1> DEFINE p == v * dpi
<1>1. dpi \in Nat
  BY DEF Ints
<1>2. 1 * dpi <= p
  BY <1>1, ProductsGrow
<1>3. p >= 96 /\ p \in Nat
  <2>1. 1 * dpi = dpi /\ p \in Nat
    BY <1>1
  <2> HIDE DEF p
  <2> QED
    BY <1>1, <1>2, <2>1
<1>4. (p + 48) \div 96 >= 1
  <2> HIDE DEF p
  <2> QED
    BY <1>3
<1>5. Nearest(v, dpi) = (p + 48) \div 96
  BY <1>1, NearestIsHalfUp
<1> QED
  BY <1>4, <1>5

-----------------------------------------------------------------------------
(* The stages of ResolvePhysicalBounds, each under what the earlier ones   *)
(* have let through.                                                       *)

c == Condition(input)

Given == input \in Inputs /\ workArea \in WorkAreas /\ Accepted /\ workArea.dpi >= 96
Measurable == Given /\ ~InvalidArea(workArea)
Scaled == Measurable /\ ConversionErrors(c, workArea) = {}
Shifted == Scaled /\ OriginErrors(c, workArea) = {}
Bounded == Shifted /\ EndErrors(c, workArea) = {}

(* The field f of an accepted input is a reason to turn it down.           *)
Deserved(f) ==
    IF f[2] = "position"
    THEN ExactPosition(f[1]) \notin workArea.low[f[1]] .. WorkEnd(f[1])
    ELSE ExactEnd(f[1]) > WorkEnd(f[1])

(* The fields of an accepted input hold numbers that make sense.           *)
LEMMA AcceptedNumbers ==
    ASSUME Given, NEW a \in Axes
    PROVE  /\ c[<<a, "position">>] = input[<<a, "position">>].value
           /\ c[<<a, "position">>] \in Nat /\ c[<<a, "position">>] \in Ints
           /\ c[<<a, "extent">>] = input[<<a, "extent">>].value
           /\ c[<<a, "extent">>] \in Nat /\ c[<<a, "extent">>] \in Ints
           /\ c[<<a, "extent">>] >= 1
           /\ workArea.dpi \in Ints /\ workArea.dpi >= 96
<1>1. <<a, "position">> \in Fields /\ <<a, "extent">> \in Fields
  BY DEF Fields, Parts
<1>2. \A f \in Fields : /\ c[f] = input[f].value
                        /\ c[f] \in Ints
                        /\ c[f] >= Least(f)
  BY InputsAssumption DEF Given, Accepted, ParseErrors, FieldAccepted, Condition,
        InputType, c
<1>3. Least(<<a, "position">>) = 0 /\ Least(<<a, "extent">>) = 1
  BY DEF Least
<1>4. workArea.dpi \in Ints
  BY ScreensAreSmall DEF Given, AreaType
<1> QED
  BY <1>1, <1>2, <1>3, <1>4, IntAssumption DEF Ints, Given

(* A valid work area ends inside the integers and near its monitor.        *)
LEMMA AreaNumbers ==
    ASSUME Measurable, NEW a \in Axes
    PROVE  /\ workArea.monitor[a] \in Ints
           /\ workArea.low[a] \in Ints
           /\ workArea.size[a] \in Ints /\ workArea.size[a] >= 1
           /\ WorkEnd(a) \in Ints
           /\ End(workArea.low[a], workArea.size[a]) = WorkEnd(a)
           /\ 96 * (WorkEnd(a) - workArea.monitor[a]) <= MaxInt - 95
<1>1. /\ workArea.monitor[a] \in Ints
      /\ workArea.low[a] \in Ints
      /\ workArea.size[a] \in Ints
      /\ 96 * (workArea.low[a] + workArea.size[a] - workArea.monitor[a])
             <= MaxInt - 95
  BY ScreensAreSmall DEF Measurable, Given, AreaType
<1>2. /\ workArea.size[a] >= 1
      /\ workArea.low[a] <= Wrap(MaxInt - workArea.size[a])
  <2>1. ~InvalidBounds(workArea.low[a], workArea.size[a])
    BY DEF Measurable, InvalidArea
  <2>2. Wrap(MaxInt - workArea.size[a]) \in Int
    BY <1>1, IntAssumption DEF Wrap, Ints
  <2> QED
    BY <2>1, <2>2, <1>1 DEF InvalidBounds, Ints
<1>3. Wrap(MaxInt - workArea.size[a]) = MaxInt - workArea.size[a]
  BY <1>1, <1>2, WrapInside, IntAssumption DEF Ints
<1>4. WorkEnd(a) \in Ints
  BY <1>1, <1>2, <1>3, IntAssumption DEF Ints, WorkEnd
<1>5. End(workArea.low[a], workArea.size[a]) = WorkEnd(a)
  BY <1>4, WrapInside DEF End, WorkEnd
<1> QED
  <2>1. 96 * (WorkEnd(a) - workArea.monitor[a]) <= MaxInt - 95
    BY <1>1, IntAssumption DEF WorkEnd, Ints
  <2> QED
    BY <2>1, <1>1, <1>2, <1>4, <1>5

(* The exact coordinates are numbers, and extents are positive.            *)
LEMMA ExactNumbers ==
    ASSUME Measurable, NEW a \in Axes
    PROVE  /\ Nearest(c[<<a, "position">>], workArea.dpi) \in Nat
           /\ ExactPosition(a) = workArea.monitor[a]
                                   + Nearest(c[<<a, "position">>], workArea.dpi)
           /\ ExactExtent(a) = Nearest(c[<<a, "extent">>], workArea.dpi)
           /\ ExactExtent(a) \in Nat /\ ExactExtent(a) >= 1
           /\ ExactPosition(a) \in Int
           /\ ExactEnd(a) \in Int /\ ExactEnd(a) > ExactPosition(a)
           /\ ExactEnd(a) >= workArea.monitor[a] + ExactExtent(a)
<1> Given
  BY DEF Measurable
<1>1. workArea.dpi \in Nat
  <2>1. workArea.dpi \in Ints /\ workArea.dpi >= 96
    BY AcceptedNumbers
  <2> QED
    BY <2>1, IntAssumption DEF Ints
<1>2. /\ Nearest(c[<<a, "position">>], workArea.dpi) \in Nat
      /\ Nearest(c[<<a, "extent">>], workArea.dpi) \in Nat
      /\ Nearest(c[<<a, "extent">>], workArea.dpi) >= 1
  BY <1>1, AcceptedNumbers, NearestIsHalfUp, ExtentsStayPositive
<1>3. /\ ExactPosition(a) = workArea.monitor[a]
                               + Nearest(c[<<a, "position">>], workArea.dpi)
      /\ ExactExtent(a) = Nearest(c[<<a, "extent">>], workArea.dpi)
      /\ ExactEnd(a) = ExactPosition(a) + ExactExtent(a)
  BY AcceptedNumbers DEF ExactPosition, ExactExtent, ExactEnd
<1>4. workArea.monitor[a] \in Int
  BY AreaNumbers DEF Ints
<1> QED
  BY <1>2, <1>3, <1>4

(* A blamed field keeps the window from fitting.                           *)
LEMMA DeservedMeansNoFit ==
    ASSUME Measurable, NEW f \in Fields, Deserved(f)
    PROVE  ~Fits
<1>1. PICK a \in Axes : a = f[1]
  BY DEF Fields
<1>2. /\ ExactPosition(a) \in Int /\ ExactEnd(a) \in Int
      /\ ExactEnd(a) > ExactPosition(a)
  BY ExactNumbers
<1>3. workArea.low[a] \in Int /\ WorkEnd(a) \in Int
  <2>1. workArea.low[a] \in Ints /\ WorkEnd(a) \in Ints
    BY AreaNumbers
  <2> QED
    BY <2>1, IntAssumption DEF Ints
<1>4. Deserved(f) <=> IF f[2] = "position"
                      THEN ExactPosition(a) \notin workArea.low[a] .. WorkEnd(a)
                      ELSE ExactEnd(a) > WorkEnd(a)
  BY <1>1 DEF Deserved
<1> QED
  BY <1>2, <1>3, <1>4 DEF Fits

(* Stage 1, conversion: a refused value is larger than the work area.      *)
LEMMA ConversionErrorsDeserved ==
    ASSUME Measurable, NEW f \in ConversionErrors(c, workArea)
    PROVE  Deserved(f)
<1>1. PICK a \in Axes : f = <<a, "position">> \/ f = <<a, "extent">>
  BY DEF ConversionErrors, Fields, Parts
<1>2. ScaleOverflows(c[f], workArea.dpi)
  BY DEF ConversionErrors
<1>3. /\ c[<<a, "position">>] \in Nat /\ c[<<a, "position">>] \in Ints
      /\ c[<<a, "extent">>] \in Nat /\ c[<<a, "extent">>] \in Ints
      /\ workArea.dpi \in Ints /\ workArea.dpi >= 96
  BY AcceptedNumbers DEF Measurable
<1>4. /\ workArea.monitor[a] \in Int /\ workArea.low[a] \in Int /\ WorkEnd(a) \in Int
      /\ 96 * (WorkEnd(a) - workArea.monitor[a]) <= MaxInt - 95
  <2>1. /\ workArea.monitor[a] \in Ints /\ workArea.low[a] \in Ints
        /\ WorkEnd(a) \in Ints
        /\ 96 * (WorkEnd(a) - workArea.monitor[a]) <= MaxInt - 95
    BY AreaNumbers
  <2> QED
    BY <2>1, IntAssumption DEF Ints
<1>5. CASE f = <<a, "position">>
  <2>1. 96 * Nearest(c[<<a, "position">>], workArea.dpi) > MaxInt - 95
    BY <1>2, <1>3, <1>5, RefusedScaleIsHuge
  <2>2. /\ Nearest(c[<<a, "position">>], workArea.dpi) \in Nat
        /\ ExactPosition(a) = workArea.monitor[a]
                                + Nearest(c[<<a, "position">>], workArea.dpi)
    BY ExactNumbers
  <2>3. ExactPosition(a) > WorkEnd(a)
    BY <2>1, <2>2, <1>4, IntAssumption
  <2>4. ExactPosition(a) \notin workArea.low[a] .. WorkEnd(a)
    BY <2>2, <2>3, <1>4
  <2> QED
    BY <2>4, <1>5 DEF Deserved
<1>6. CASE f = <<a, "extent">>
  <2>1. 96 * Nearest(c[<<a, "extent">>], workArea.dpi) > MaxInt - 95
    BY <1>2, <1>3, <1>6, RefusedScaleIsHuge
  <2>2. /\ ExactExtent(a) \in Nat
        /\ ExactExtent(a) = Nearest(c[<<a, "extent">>], workArea.dpi)
        /\ ExactEnd(a) \in Int
        /\ ExactEnd(a) >= workArea.monitor[a] + ExactExtent(a)
    BY ExactNumbers
  <2>3. ExactEnd(a) > WorkEnd(a)
    BY <2>1, <2>2, <1>4, IntAssumption
  <2> QED
    BY <2>3, <1>6 DEF Deserved
<1> QED
  BY <1>1, <1>5, <1>6

(* Values that passed the conversion are exact, and not yet shifted.       *)
LEMMA ScaledNumbers ==
    ASSUME Scaled, NEW a \in Axes
    PROVE  /\ Extent(c, workArea, a) = ExactExtent(a)
           /\ ExactExtent(a) <= MaxInt
           /\ Position(c, workArea, a) = Wrap(ExactPosition(a))
           /\ Nearest(c[<<a, "position">>], workArea.dpi) <= MaxInt
           /\ Scale(c[<<a, "position">>], workArea.dpi)
                  = Nearest(c[<<a, "position">>], workArea.dpi)
<1> Measurable
  BY DEF Scaled
<1>1. <<a, "position">> \in Fields /\ <<a, "extent">> \in Fields
  BY DEF Fields, Parts
<1>2. /\ ~ScaleOverflows(c[<<a, "position">>], workArea.dpi)
      /\ ~ScaleOverflows(c[<<a, "extent">>], workArea.dpi)
  BY <1>1 DEF Scaled, ConversionErrors
<1>3. /\ c[<<a, "position">>] \in Nat /\ c[<<a, "position">>] \in Ints
      /\ c[<<a, "extent">>] \in Nat /\ c[<<a, "extent">>] \in Ints
      /\ workArea.dpi \in Ints /\ workArea.dpi >= 96
  BY AcceptedNumbers DEF Measurable
<1>4. /\ Scale(c[<<a, "position">>], workArea.dpi)
             = Nearest(c[<<a, "position">>], workArea.dpi)
      /\ Nearest(c[<<a, "position">>], workArea.dpi) <= MaxInt
  BY <1>2, <1>3, GuardedScaleIsExact
<1>5. /\ Scale(c[<<a, "extent">>], workArea.dpi)
             = Nearest(c[<<a, "extent">>], workArea.dpi)
      /\ Nearest(c[<<a, "extent">>], workArea.dpi) <= MaxInt
  BY <1>2, <1>3, GuardedScaleIsExact
<1>6. /\ ExactExtent(a) = Nearest(c[<<a, "extent">>], workArea.dpi)
      /\ ExactPosition(a) = workArea.monitor[a]
                              + Nearest(c[<<a, "position">>], workArea.dpi)
  BY ExactNumbers
<1> QED
  BY <1>4, <1>5, <1>6 DEF Extent, Position, Add

(* The overflow test of the shift asks whether the exact position is an    *)
(* int.                                                                    *)
LEMMA ShiftOverflows ==
    ASSUME Scaled, NEW a \in Axes
    PROVE  /\ AddOverflows(workArea.monitor[a],
                           Scale(c[<<a, "position">>], workArea.dpi))
                  <=> ExactPosition(a) > MaxInt
           /\ ExactPosition(a) >= -MaxInt - 1
<1> DEFINE n == Nearest(c[<<a, "position">>], workArea.dpi)
<1>1. /\ n \in Nat /\ ExactPosition(a) = workArea.monitor[a] + n
  BY ExactNumbers DEF Scaled
<1>2. n <= MaxInt /\ Scale(c[<<a, "position">>], workArea.dpi) = n
  BY ScaledNumbers
<1>3. workArea.monitor[a] \in Ints
  BY AreaNumbers DEF Scaled
<1> HIDE DEF n
<1>4. Wrap(MaxInt - n) = MaxInt - n
  BY <1>1, <1>2, WrapInside, IntAssumption DEF Ints
<1> QED
  BY <1>1, <1>2, <1>3, <1>4, IntAssumption DEF AddOverflows, Ints

(* Stage 2, the shift to the monitor.                                      *)
LEMMA OriginErrorsDeserved ==
    ASSUME Scaled, NEW f \in OriginErrors(c, workArea)
    PROVE  f \in Fields /\ Deserved(f)
<1>1. PICK a \in Axes : f = <<a, "position">>
             /\ AddOverflows(workArea.monitor[a],
                             Scale(c[<<a, "position">>], workArea.dpi))
  BY DEF OriginErrors
<1>2. ExactPosition(a) > MaxInt /\ ExactPosition(a) \in Int
  BY <1>1, ShiftOverflows, ExactNumbers DEF Scaled
<1>3. WorkEnd(a) \in Ints /\ workArea.low[a] \in Ints
  BY AreaNumbers DEF Scaled
<1>4. ExactPosition(a) \notin workArea.low[a] .. WorkEnd(a)
  BY <1>2, <1>3, IntAssumption DEF Ints
<1> QED
  BY <1>1, <1>4 DEF Deserved, Fields, Parts

(* Positions that passed the shift are exact.                              *)
LEMMA ShiftedNumbers ==
    ASSUME Shifted, NEW a \in Axes
    PROVE  /\ Position(c, workArea, a) = ExactPosition(a)
           /\ ExactPosition(a) \in Ints
           /\ Extent(c, workArea, a) = ExactExtent(a)
           /\ ExactExtent(a) \in 1 .. MaxInt
           /\ Wrap(MaxInt - ExactExtent(a)) = MaxInt - ExactExtent(a)
<1> Scaled /\ Measurable
  BY DEF Shifted, Scaled
<1>1. ~AddOverflows(workArea.monitor[a], Scale(c[<<a, "position">>], workArea.dpi))
  BY DEF Shifted, OriginErrors
<1>2. /\ ExactPosition(a) \in Int
      /\ ExactPosition(a) <= MaxInt /\ ExactPosition(a) >= -MaxInt - 1
  <2>1. ~(ExactPosition(a) > MaxInt) /\ ExactPosition(a) >= -MaxInt - 1
    BY <1>1, ShiftOverflows
  <2>2. ExactPosition(a) \in Int
    BY ExactNumbers
  <2> QED
    BY <2>1, <2>2, IntAssumption
<1>3. ExactPosition(a) \in Ints
  BY <1>2, IntAssumption DEF Ints
<1>4. Position(c, workArea, a) = ExactPosition(a)
  BY <1>3, ScaledNumbers, WrapInside
<1>5. Extent(c, workArea, a) = ExactExtent(a)
  BY ScaledNumbers
<1>6. ExactExtent(a) \in 1 .. MaxInt
  <2>1. ExactExtent(a) <= MaxInt
    BY ScaledNumbers
  <2>2. ExactExtent(a) \in Nat /\ ExactExtent(a) >= 1
    BY ExactNumbers
  <2> QED
    BY <2>1, <2>2, IntAssumption
<1>7. Wrap(MaxInt - ExactExtent(a)) = MaxInt - ExactExtent(a)
  BY <1>6, WrapInside, IntAssumption DEF Ints
<1> QED
  BY <1>3, <1>4, <1>5, <1>6, <1>7

(* Stage 3, the ends.                                                      *)
LEMMA EndErrorsDeserved ==
    ASSUME Shifted, NEW f \in EndErrors(c, workArea)
    PROVE  f \in Fields /\ Deserved(f)
<1>1. PICK a \in Axes : f = <<a, "extent">>
        /\ Position(c, workArea, a) > Wrap(MaxInt - Extent(c, workArea, a))
  BY DEF EndErrors
<1>2. /\ ExactPosition(a) \in Ints /\ ExactExtent(a) \in 1 .. MaxInt
      /\ ExactPosition(a) > MaxInt - ExactExtent(a)
  BY <1>1, ShiftedNumbers
<1>3. WorkEnd(a) \in Ints
  BY AreaNumbers DEF Shifted, Scaled
<1>4. ExactEnd(a) > WorkEnd(a)
  BY <1>2, <1>3, IntAssumption DEF ExactEnd, Ints
<1> QED
  BY <1>1, <1>4 DEF Deserved, Fields, Parts

(* Ends that passed are exact, and NewBounds accepts the request.          *)
LEMMA BoundedNumbers ==
    ASSUME Bounded, NEW a \in Axes
    PROVE  /\ End(Position(c, workArea, a), Extent(c, workArea, a)) = ExactEnd(a)
           /\ ~InvalidBounds(Position(c, workArea, a), Extent(c, workArea, a))
<1> Shifted
  BY DEF Bounded
<1>1. ~(Position(c, workArea, a) > Wrap(MaxInt - Extent(c, workArea, a)))
  BY DEF Bounded, EndErrors
<1>2. /\ Position(c, workArea, a) = ExactPosition(a)
      /\ Extent(c, workArea, a) = ExactExtent(a)
      /\ ExactPosition(a) \in Ints /\ ExactExtent(a) \in 1 .. MaxInt
      /\ Wrap(MaxInt - ExactExtent(a)) = MaxInt - ExactExtent(a)
  BY ShiftedNumbers
<1>3. ~InvalidBounds(Position(c, workArea, a), Extent(c, workArea, a))
  BY <1>1, <1>2, IntAssumption DEF InvalidBounds, Ints
<1>4. ExactEnd(a) \in Ints
  BY <1>1, <1>2, IntAssumption DEF ExactEnd, Ints
<1>5. End(Position(c, workArea, a), Extent(c, workArea, a)) = ExactEnd(a)
  BY <1>2, <1>4, WrapInside DEF End, ExactEnd
<1> QED
  BY <1>3, <1>5

(* Stage 4, the comparison with the work area, is exact on both sides.     *)
LEMMA OutsideErrorsExact ==
    ASSUME Bounded, NEW a \in Axes
    PROVE  /\ <<a, "position">> \in OutsideErrors(c, workArea)
                  <=> ExactPosition(a) < workArea.low[a]
           /\ <<a, "extent">> \in OutsideErrors(c, workArea)
                  <=> ExactEnd(a) > WorkEnd(a)
<1> Shifted /\ Measurable
  BY DEF Bounded, Shifted, Scaled
<1>1. /\ Position(c, workArea, a) = ExactPosition(a)
      /\ End(Position(c, workArea, a), Extent(c, workArea, a)) = ExactEnd(a)
      /\ End(workArea.low[a], workArea.size[a]) = WorkEnd(a)
  BY ShiftedNumbers, BoundedNumbers, AreaNumbers
<1> QED
  BY <1>1 DEF OutsideErrors

LEMMA OutsideErrorsDeserved ==
    ASSUME Bounded, NEW f \in OutsideErrors(c, workArea)
    PROVE  f \in Fields /\ Deserved(f)
<1> Measurable
  BY DEF Bounded, Shifted, Scaled
<1>1. PICK a \in Axes : f = <<a, "position">> \/ f = <<a, "extent">>
  BY DEF OutsideErrors
<1>2. /\ f = <<a, "position">> => ExactPosition(a) < workArea.low[a]
      /\ f = <<a, "extent">> => ExactEnd(a) > WorkEnd(a)
  BY <1>1, OutsideErrorsExact
<1>3. ExactPosition(a) \in Int /\ workArea.low[a] \in Ints /\ WorkEnd(a) \in Ints
  BY ExactNumbers, AreaNumbers
<1>4. ExactPosition(a) < workArea.low[a]
          => ExactPosition(a) \notin workArea.low[a] .. WorkEnd(a)
  BY <1>3, IntAssumption DEF Ints
<1> QED
  BY <1>1, <1>2, <1>4 DEF Deserved, Fields, Parts

(* What no stage refuses is exact and fits.                                *)
LEMMA NothingOutsideFits ==
    ASSUME Bounded, OutsideErrors(c, workArea) = {}
    PROVE  Fits /\ PhysicalBounds(c, workArea) = ExactBounds
<1> Shifted /\ Measurable
  BY DEF Bounded, Shifted, Scaled
<1>1. ASSUME NEW a \in Axes
      PROVE  workArea.low[a] <= ExactPosition(a) /\ ExactEnd(a) <= WorkEnd(a)
  <2>1. ~(ExactPosition(a) < workArea.low[a]) /\ ~(ExactEnd(a) > WorkEnd(a))
    BY <1>1, OutsideErrorsExact
  <2>2. /\ ExactPosition(a) \in Int /\ ExactEnd(a) \in Int
        /\ workArea.low[a] \in Ints /\ WorkEnd(a) \in Ints
    BY <1>1, ExactNumbers, AreaNumbers
  <2> QED
    BY <2>1, <2>2, IntAssumption DEF Ints
<1>2. \A a \in Axes : /\ Position(c, workArea, a) = ExactPosition(a)
                      /\ Extent(c, workArea, a) = ExactExtent(a)
  BY ShiftedNumbers
<1>3. PhysicalBounds(c, workArea) = ExactBounds
  BY <1>2 DEF PhysicalBounds, ExactBounds, Fields
<1> QED
  BY <1>1, <1>3 DEF Fits

-----------------------------------------------------------------------------
(* What ResolvePhysicalBounds answers, stage by stage.                     *)
LEMMA ResolvedRight ==
    ASSUME Given, NEW o, o = ResolvePhysicalBounds(c, workArea)
    PROVE  /\ o.kind = "prepared" => Fits /\ o.bounds = ExactBounds
           /\ o.kind = "rejected" => /\ ~Fits
                                     /\ o.fields # {}
                                     /\ \A f \in o.fields : Deserved(f)
           /\ o.kind = "failed" => InvalidArea(workArea)
<1>1. \A kind, fields : /\ OutcomeOf(kind, fields).kind = kind
                       /\ OutcomeOf(kind, fields).fields = fields
  BY DEF OutcomeOf, Undecided
<1>2. ASSUME Measurable, NEW errors, errors # {}, o = OutcomeOf("rejected", errors),
             \A f \in errors : f \in Fields /\ Deserved(f)
      PROVE  /\ o.kind = "rejected" /\ o.fields # {} /\ ~Fits
             /\ \A f \in o.fields : Deserved(f)
  <2>1. o.kind = "rejected" /\ o.fields = errors
    BY <1>1, <1>2
  <2>2. ~Fits
    BY <1>2, DeservedMeansNoFit
  <2> QED
    BY <2>1, <2>2, <1>2
<1>3. CASE InvalidArea(workArea)
  BY <1>1, <1>3 DEF ResolvePhysicalBounds
<1>4. CASE ~InvalidArea(workArea) /\ ConversionErrors(c, workArea) # {}
  <2>1. Measurable
    BY <1>4 DEF Measurable
  <2>2. \A f \in ConversionErrors(c, workArea) : f \in Fields /\ Deserved(f)
    BY <2>1, ConversionErrorsDeserved DEF ConversionErrors
  <2>3. o = OutcomeOf("rejected", ConversionErrors(c, workArea))
    BY <1>4 DEF ResolvePhysicalBounds
  <2>4. o.kind = "rejected" /\ o.fields # {} /\ ~Fits /\ \A f \in o.fields : Deserved(f)
    BY <2>1, <2>2, <2>3, <1>4, <1>2
  <2> QED
    BY <2>4
<1>5. CASE Scaled /\ OriginErrors(c, workArea) # {}
  <2>1. Measurable
    BY <1>5 DEF Scaled
  <2>2. \A f \in OriginErrors(c, workArea) : f \in Fields /\ Deserved(f)
    BY <1>5, OriginErrorsDeserved
  <2>3. o = OutcomeOf("rejected", OriginErrors(c, workArea))
    BY <1>5 DEF ResolvePhysicalBounds, Scaled, Measurable
  <2>4. o.kind = "rejected" /\ o.fields # {} /\ ~Fits /\ \A f \in o.fields : Deserved(f)
    BY <2>1, <2>2, <2>3, <1>5, <1>2
  <2> QED
    BY <2>4
<1>6. CASE Shifted /\ EndErrors(c, workArea) # {}
  <2>1. Measurable
    BY <1>6 DEF Scaled, Shifted
  <2>2. \A f \in EndErrors(c, workArea) : f \in Fields /\ Deserved(f)
    BY <1>6, EndErrorsDeserved
  <2>3. o = OutcomeOf("rejected", EndErrors(c, workArea))
    BY <1>6 DEF ResolvePhysicalBounds, Shifted, Scaled, Measurable
  <2>4. o.kind = "rejected" /\ o.fields # {} /\ ~Fits /\ \A f \in o.fields : Deserved(f)
    BY <2>1, <2>2, <2>3, <1>6, <1>2
  <2> QED
    BY <2>4
<1>7. CASE Bounded
  <2>1. Measurable
    BY <1>7 DEF Scaled, Shifted, Bounded
  <2>2. ~InvalidRequest(c, workArea)
    BY <1>7, BoundedNumbers DEF InvalidRequest
  <2>3. o = IF OutsideErrors(c, workArea) # {}
            THEN OutcomeOf("rejected", OutsideErrors(c, workArea))
            ELSE [kind |-> "prepared", fields |-> {},
                  bounds |-> PhysicalBounds(c, workArea)]
    BY <1>7, <2>2 DEF ResolvePhysicalBounds, Bounded, Shifted, Scaled, Measurable
  <2>4. CASE OutsideErrors(c, workArea) # {}
    <3>1. \A f \in OutsideErrors(c, workArea) : f \in Fields /\ Deserved(f)
      BY <1>7, OutsideErrorsDeserved
    <3>2. o.kind = "rejected" /\ o.fields # {} /\ ~Fits /\ \A f \in o.fields : Deserved(f)
      BY <2>1, <2>3, <2>4, <3>1, <1>2
    <3> QED
      BY <3>2
  <2>5. CASE OutsideErrors(c, workArea) = {}
    <3>1. Fits /\ PhysicalBounds(c, workArea) = ExactBounds
      BY <1>7, <2>5, NothingOutsideFits
    <3>2. o.kind = "prepared" /\ o.bounds = PhysicalBounds(c, workArea)
      BY <2>3, <2>5
    <3> QED
      BY <3>1, <3>2
  <2> QED
    BY <2>4, <2>5
<1> QED
  BY <1>3, <1>4, <1>5, <1>6, <1>7 DEF Bounded, Shifted, Scaled, Measurable

(* Every answer of Prepare is right, whatever the width of int.            *)
Answers ==
    /\ input \in Inputs
    /\ workArea \in WorkAreas
    /\ PreparedExactlyWhenItFits
    /\ ErrorsAreDeserved

(* Nothing is answered at first.                                           *)
LEMMA InitAnswers == Init => Answers
  BY DEF Init, Answers, PreparedExactlyWhenItFits, ErrorsAreDeserved, Undecided

(* Every answer is right.                                                  *)
LEMMA NextAnswers == Answers /\ [Next]_vars => Answers'
<1> SUFFICES ASSUME Answers, [Next]_vars PROVE Answers'
  OBVIOUS
<1> USE DEF Answers
<1>1. CASE UNCHANGED vars
  BY <1>1 DEF vars, PreparedExactlyWhenItFits, ErrorsAreDeserved, Accepted, Fits,
        ExactBounds, ExactEnd, ExactPosition, ExactExtent, WorkEnd
<1>2. ASSUME Next, UNCHANGED <<input, workArea>>
      PROVE  /\ Accepted' <=> Accepted
             /\ Fits' <=> Fits
             /\ ExactBounds' = ExactBounds
             /\ \A a : /\ ExactPosition(a)' = ExactPosition(a)
                      /\ ExactEnd(a)' = ExactEnd(a)
                      /\ WorkEnd(a)' = WorkEnd(a)
  BY <1>2 DEF Accepted, Fits, ExactBounds, ExactEnd, ExactPosition, ExactExtent,
        WorkEnd
<1>3. CASE RejectFields
  <2>1. ~Accepted /\ outcome'.kind = "rejected" /\ UNCHANGED <<input, workArea>>
    BY <1>3 DEF RejectFields, Called, Accepted, OutcomeOf, Undecided
  <2> QED
    BY <2>1, <1>2, <1>3 DEF Next, PreparedExactlyWhenItFits, ErrorsAreDeserved
<1>4. CASE LoseWorkArea
  <2>1. outcome'.kind = "unavailable" /\ UNCHANGED <<input, workArea>>
    BY <1>4 DEF LoseWorkArea, Called, OutcomeOf, Undecided
  <2> QED
    BY <2>1 DEF PreparedExactlyWhenItFits, ErrorsAreDeserved
<1>5. CASE Prepare
  <2>1. /\ Given /\ outcome' = ResolvePhysicalBounds(c, workArea)
        /\ UNCHANGED <<input, workArea>>
    BY <1>5 DEF Prepare, Called, Given, Accepted, c
  <2>2. /\ outcome'.kind = "prepared" => Fits /\ outcome'.bounds = ExactBounds
        /\ outcome'.kind = "rejected" => /\ ~Fits
                                         /\ outcome'.fields # {}
                                         /\ \A f \in outcome'.fields : Deserved(f)
        /\ outcome'.kind = "failed" => InvalidArea(workArea)
    BY <2>1, ResolvedRight
  <2>3. /\ Accepted' /\ (Fits' <=> Fits) /\ ExactBounds' = ExactBounds
        /\ \A a : /\ ExactPosition(a)' = ExactPosition(a)
                 /\ ExactEnd(a)' = ExactEnd(a)
                 /\ WorkEnd(a)' = WorkEnd(a)
    BY <2>1, <1>2, <1>5 DEF Next, Given
  <2>4. PreparedExactlyWhenItFits'
    BY <2>1, <2>2, <2>3 DEF PreparedExactlyWhenItFits
  <2>5. ErrorsAreDeserved'
    BY <2>1, <2>2, <2>3 DEF ErrorsAreDeserved, Deserved
  <2> QED
    BY <2>1, <2>4, <2>5
<1> QED
  BY <1>1, <1>3, <1>4, <1>5 DEF Next

(* Prepare returns exact bounds, and only for windows that fit; it turns   *)
(* down only windows that do not.                                          *)
THEOREM PreparationIsExact == Spec => []PreparedExactlyWhenItFits
<1>1. Answers => PreparedExactlyWhenItFits
  BY DEF Answers
<1> QED
  BY InitAnswers, NextAnswers, <1>1, PTL DEF Spec

(* The fields that Prepare blames are the ones that keep a window from     *)
(* fitting.                                                                *)
THEOREM BlameIsDeserved == Spec => []ErrorsAreDeserved
<1>1. Answers => ErrorsAreDeserved
  BY DEF Answers
<1> QED
  BY InitAnswers, NextAnswers, <1>1, PTL DEF Spec
=============================================================================
