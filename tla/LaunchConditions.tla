-------------------------- MODULE LaunchConditions --------------------------
(***************************************************************************)
(* Launch conditions: parsing the four fields of the form, scaling logical *)
(* to physical pixels, and checking the bounds against a work area.  The   *)
(* two axes are treated alike by the code and by the operators below: a    *)
(* field is the position or the extent of the window along one axis.       *)
(*                                                                         *)
(* Go's int is as wide as MaxInt says, and its arithmetic wraps around.    *)
(***************************************************************************)
EXTENDS Integers

CONSTANTS
    MaxInt,     \* math.MaxInt
    Inputs,     \* what the four fields may hold
    WorkAreas   \* what the operating system may report

Axes   == {"x", "y"}
Parts  == {"position", "extent"}
Fields == Axes \X Parts

Ints == (-MaxInt - 1) .. MaxInt

InputType == [Fields -> [text : {"blank", "malformed", "number"}, value : Ints]]
AreaType  == [monitor : [Axes -> Ints], low : [Axes -> Ints],
              size : [Axes -> Ints], dpi : Ints]

ASSUME IntAssumption == MaxInt \in Nat /\ MaxInt >= 96

ASSUME InputsAssumption == Inputs \subseteq InputType

(***************************************************************************)
(* Screens are small: Windows coordinates have half the bits of an int, so *)
(* a work area ends far before the scaling of a coordinate overflows.      *)
(***************************************************************************)
ASSUME ScreensAreSmall ==
    /\ WorkAreas \subseteq AreaType
    /\ \A area \in WorkAreas : \A a \in Axes :
           96 * (area.low[a] + area.size[a] - area.monitor[a]) <= MaxInt - 95

VARIABLES
    input,     \* the Input of Prepare
    workArea,  \* the PrimaryWorkArea
    outcome    \* what Prepare returns

vars == <<input, workArea, outcome>>

Undecided == [kind |-> "none", fields |-> {}, bounds |-> [f \in Fields |-> 0]]
OutcomeOf(kind, fields) == [Undecided EXCEPT !.kind = kind, !.fields = fields]

-----------------------------------------------------------------------------
(* Go's integers.                                                          *)
Wrap(n) == ((n + MaxInt + 1) % (2 * MaxInt + 2)) - MaxInt - 1

ScaleOverflows(value, dpi) == value > (MaxInt - 48) \div dpi

(* Mutant: fractions are cut off.                                          *)
ScaleTruncated(value, dpi) == Wrap(value * dpi) \div 96

Scale(value, dpi) == Wrap(Wrap(value * dpi) + 48) \div 96

AddOverflows(origin, offset) == origin > Wrap(MaxInt - offset)
Add(origin, offset) == Wrap(origin + offset)

(* What NewBounds refuses along one axis, and the end it computes.         *)
InvalidBounds(low, size) == size < 1 \/ low > Wrap(MaxInt - size)
End(low, size) == Wrap(low + size)

-----------------------------------------------------------------------------
(* parseDimension and parseCoordinate.                                     *)
Least(f) == IF f[2] = "extent" THEN 1 ELSE 0

FieldAccepted(f, given) == given.text = "number" /\ given.value >= Least(f)

ParseErrors(given) == {f \in Fields : ~FieldAccepted(f, given[f])}

Condition(given) == [f \in Fields |-> given[f].value]

(***************************************************************************)
(* ResolvePhysicalBounds: the work area is checked, then every value is    *)
(* scaled, the positions are shifted to the monitor, the ends are computed *)
(* and compared.  The errors of one stage end it.                          *)
(***************************************************************************)
InvalidArea(area) ==
    area.dpi < 96 \/ \E a \in Axes : InvalidBounds(area.low[a], area.size[a])

Position(condition, area, a) ==
    Add(area.monitor[a], Scale(condition[<<a, "position">>], area.dpi))
Extent(condition, area, a) == Scale(condition[<<a, "extent">>], area.dpi)

PhysicalBounds(condition, area) ==
    [f \in Fields |-> IF f[2] = "position" THEN Position(condition, area, f[1])
                                           ELSE Extent(condition, area, f[1])]

ConversionErrors(condition, area) ==
    {f \in Fields : ScaleOverflows(condition[f], area.dpi)}

OriginErrors(condition, area) ==
    {<<a, "position">> : a \in {b \in Axes :
        AddOverflows(area.monitor[b], Scale(condition[<<b, "position">>], area.dpi))}}

EndErrors(condition, area) ==
    {<<a, "extent">> : a \in {b \in Axes :
        Position(condition, area, b) > Wrap(MaxInt - Extent(condition, area, b))}}

(* Mutant: a window that touches the far edge counts as outside.           *)
OutsideErrorsTouching(condition, area) ==
    {<<a, "position">> : a \in {b \in Axes :
        Position(condition, area, b) < area.low[b]}}
    \cup
    {<<a, "extent">> : a \in {b \in Axes :
        End(Position(condition, area, b), Extent(condition, area, b))
            >= End(area.low[b], area.size[b])}}

OutsideErrors(condition, area) ==
    {<<a, "position">> : a \in {b \in Axes :
        Position(condition, area, b) < area.low[b]}}
    \cup
    {<<a, "extent">> : a \in {b \in Axes :
        End(Position(condition, area, b), Extent(condition, area, b))
            > End(area.low[b], area.size[b])}}

InvalidRequest(condition, area) ==
    \E a \in Axes : InvalidBounds(Position(condition, area, a),
                                  Extent(condition, area, a))

ResolvePhysicalBounds(condition, area) ==
    IF InvalidArea(area) THEN OutcomeOf("failed", {})
    ELSE IF ConversionErrors(condition, area) # {}
    THEN OutcomeOf("rejected", ConversionErrors(condition, area))
    ELSE IF OriginErrors(condition, area) # {}
    THEN OutcomeOf("rejected", OriginErrors(condition, area))
    ELSE IF EndErrors(condition, area) # {}
    THEN OutcomeOf("rejected", EndErrors(condition, area))
    ELSE IF InvalidRequest(condition, area) THEN OutcomeOf("failed", {})
    ELSE IF OutsideErrors(condition, area) # {}
    THEN OutcomeOf("rejected", OutsideErrors(condition, area))
    ELSE [kind |-> "prepared", fields |-> {},
          bounds |-> PhysicalBounds(condition, area)]

-----------------------------------------------------------------------------
(***************************************************************************)
(* One call of Prepare.  The work area is read only when every field has   *)
(* been accepted; any of the Win32 calls that read it may fail, and a      *)
(* resolution below 96 DPI is refused where it is read.                    *)
(***************************************************************************)
Init ==
    /\ input \in Inputs
    /\ workArea \in WorkAreas
    /\ outcome = Undecided

Called == outcome = Undecided /\ UNCHANGED <<input, workArea>>

RejectFields ==
    /\ Called
    /\ ParseErrors(input) # {}
    /\ outcome' = OutcomeOf("rejected", ParseErrors(input))

LoseWorkArea ==
    /\ Called
    /\ ParseErrors(input) = {}
    /\ outcome' = OutcomeOf("unavailable", {})

Prepare ==
    /\ Called
    /\ ParseErrors(input) = {}
    /\ workArea.dpi >= 96
    /\ outcome' = ResolvePhysicalBounds(Condition(input), workArea)

Next == RejectFields \/ LoseWorkArea \/ Prepare

Spec == Init /\ [][Next]_vars

-----------------------------------------------------------------------------
(***************************************************************************)
(* What the conversion promises, in integers without a limit: a logical    *)
(* pixel is dpi/96 physical ones, rounded to the nearest whole number, as  *)
(* the code and its tests have it (service.go:241, service_test.go:228).   *)
(* ADR 0004 has another rule: RoundedAwayFromZero below.                   *)
(***************************************************************************)
Nearest(value, dpi) ==
    IF (value * dpi) % 96 >= 48 THEN (value * dpi) \div 96 + 1
                                ELSE (value * dpi) \div 96

ExactExtent(a)   == Nearest(input[<<a, "extent">>].value, workArea.dpi)
ExactPosition(a) == workArea.monitor[a]
                        + Nearest(input[<<a, "position">>].value, workArea.dpi)
ExactEnd(a)      == ExactPosition(a) + ExactExtent(a)
WorkEnd(a)       == workArea.low[a] + workArea.size[a]

ExactBounds == [f \in Fields |-> IF f[2] = "position" THEN ExactPosition(f[1])
                                                      ELSE ExactExtent(f[1])]

Accepted == ParseErrors(input) = {}
Fits == \A a \in Axes : workArea.low[a] <= ExactPosition(a)
                         /\ ExactEnd(a) <= WorkEnd(a)

(* Prepare returns the exact physical bounds, rounded as the code rounds,  *)
(* of a window that fits in the work area, and turns an accepted input down only when its window does   *)
(* not fit: the overflow guards of scaleLogicalPixel and addCoordinate     *)
(* neither let a wrapped value through nor refuse one that would do.  No   *)
(* input fails with ErrScaleOverflow (service.go:158-161): an error that   *)
(* is not about a field comes from an impossible work area.                *)
PreparedExactlyWhenItFits ==
    /\ outcome.kind = "prepared" =>
           Accepted /\ Fits /\ outcome.bounds = ExactBounds
    /\ outcome.kind = "rejected" /\ Accepted => ~Fits
    /\ outcome.kind = "failed" => InvalidArea(workArea)

(* The fields that an accepted input is turned down for are the ones to    *)
(* change: a blamed position lies outside the work area and a blamed       *)
(* extent reaches beyond its end, whichever of the four stages of          *)
(* ResolvePhysicalBounds found the error.                                  *)
ErrorsAreDeserved ==
    outcome.kind = "rejected" /\ Accepted =>
        /\ outcome.fields # {}
        /\ \A f \in outcome.fields :
               IF f[2] = "position"
               THEN ExactPosition(f[1]) \notin workArea.low[f[1]] .. WorkEnd(f[1])
               ELSE ExactEnd(f[1]) > WorkEnd(f[1])

(* ADR 0004, line 76, of the conversion to physical pixels:                *)
(*   端数は0から遠ざかる方向へ丸め                                         *)
(* (a fraction is rounded away from zero).  Accepted values are not        *)
(* negative, so away from zero is up.                                      *)
AwayFromZero(value, dpi) == (value * dpi + 95) \div 96

RoundedAwayFromZero ==
    outcome.kind = "prepared" =>
        \A a \in Axes, p \in Parts :
            outcome.bounds[<<a, p>>] =
                (IF p = "position" THEN workArea.monitor[a] ELSE 0)
                    + AwayFromZero(input[<<a, p>>].value, workArea.dpi)

=============================================================================
