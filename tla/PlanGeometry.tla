---------------------------- MODULE PlanGeometry ----------------------------
(***************************************************************************)
(* Plane geometry of Stage 1.  A point is <<x, y>> in millimetres, a       *)
(* segment a pair of points, a line or a polygon a sequence of points.     *)
(* Lengths are rounded down to the millimetre, which changes nothing for   *)
(* the walls that run along an axis.                                       *)
(***************************************************************************)
EXTENDS Integers, Sequences, FiniteSets, FiniteSetsExt, TLC

Size(n) == IF n < 0 THEN -n ELSE n

Dist2(a, b) == (a[1]-b[1]) * (a[1]-b[1]) + (a[2]-b[2]) * (a[2]-b[2])

Dist(a, b) ==
    LET dx == Size(a[1] - b[1])
        dy == Size(a[2] - b[2])
    IN  IF dx = 0 \/ dy = 0 THEN dx + dy
        ELSE CHOOSE d \in 0..(dx + dy) :
                d * d <= Dist2(a, b) /\ Dist2(a, b) < (d + 1) * (d + 1)

Segments(line) == [i \in 1..(Len(line) - 1) |-> <<line[i], line[i + 1]>>]
Length(s) == Dist(s[1], s[2])
TotalLength(line) ==
    MapThenSumSet(LAMBDA i : Length(Segments(line)[i]), DOMAIN Segments(line))

\* How far along s, and how far beside it, the point p lies.
Along(p, s) ==
    IF Length(s) = 0 THEN 0
    ELSE ((p[1]-s[1][1]) * (s[2][1]-s[1][1])
          + (p[2]-s[1][2]) * (s[2][2]-s[1][2])) \div Length(s)
Beside(p, s) ==
    IF Length(s) = 0 THEN Dist(p, s[1])
    ELSE Size((p[1]-s[1][1]) * (s[2][2]-s[1][2])
              - (p[2]-s[1][2]) * (s[2][1]-s[1][1])) \div Length(s)

\* Beside, but never past the ends of the segment.
SegmentDistance(p, s) ==
    IF Along(p, s) < 0 THEN Dist(p, s[1])
    ELSE IF Along(p, s) > Length(s) THEN Dist(p, s[2])
    ELSE Beside(p, s)

\* The first index at which key is least.
Nearest(indices, key(_)) ==
    CHOOSE i \in indices : \A j \in indices :
        key(i) < key(j) \/ (key(i) = key(j) /\ i <= j)

\* Shoelace area in hundredths of a square metre.
Area(polygon) ==
    Size(MapThenSumSet(LAMBDA i :
            LET j == IF i = Len(polygon) THEN 1 ELSE i + 1
            IN  polygon[i][1] * polygon[j][2] - polygon[j][1] * polygon[i][2],
            DOMAIN polygon)) \div 20000

Closed(polygon) == polygon # <<>> /\ polygon[1] = polygon[Len(polygon)]

Xs(points) == {points[i][1] : i \in DOMAIN points}
Ys(points) == {points[i][2] : i \in DOMAIN points}
InBox(p, points) == /\ Min(Xs(points)) <= p[1] /\ p[1] <= Max(Xs(points))
                    /\ Min(Ys(points)) <= p[2] /\ p[2] <= Max(Ys(points))
=============================================================================
