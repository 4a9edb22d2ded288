-------------------------- MODULE MCLaunchConditions --------------------------
(* The instance of LaunchConditions that TLC checks: an int of 2002 values, *)
(* three resolutions, and work areas beside a taskbar, left of the origin,  *)
(* at the end of the integers, and of no height.                            *)
EXTENDS LaunchConditions

MCMaxInt == 1000

Text(t) == [text |-> t, value |-> 0]
Number(v) == [text |-> "number", value |-> v]

MCInputs == [Fields -> {Text("blank"), Text("malformed")}
                           \cup {Number(v) : v \in {-1, 0, 1, 3, 7, 10, 1000}}]

OnAxes(x, y) == [a \in Axes |-> IF a = "x" THEN x ELSE y]

Area(monitor, low, size, dpi) ==
    [monitor |-> monitor, low |-> low, size |-> size, dpi |-> dpi]

MCWorkAreas ==
    {Area(OnAxes(0, 0), OnAxes(0, 1), OnAxes(9, 8), dpi) : dpi \in {72, 96, 120, 144}}
    \cup
    {Area(OnAxes(-5, -1000), OnAxes(-4, -1000), OnAxes(7, 8), 120),
     Area(OnAxes(995, 0), OnAxes(995, 0), OnAxes(5, 9), 96),
     Area(OnAxes(0, 0), OnAxes(0, 0), OnAxes(9, 0), 96)}
=============================================================================
