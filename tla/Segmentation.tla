---------------------------- MODULE Segmentation ----------------------------
(***************************************************************************)
(* The optimal piecewise linear model of FINEdex's train_opt               *)
(* (include/piecewise_linear_model.h): one pass cuts the keys where no     *)
(* line stays within epsilon of all positions since the last cut.  The     *)
(* lines that do are kept as a rectangle of four points, two lower and two *)
(* upper ends of the extreme slopes, and as the hulls these may move on.   *)
(*                                                                         *)
(* m stands for a model.  A slope is [dx, dy]; integers are wide enough in *)
(* the code, and quotients are exact here.                                 *)
(***************************************************************************)
EXTENDS Plex, SequencesExt

From(p, q) == [dx |-> p.x - q.x, dy |-> p.y - q.y]
Less(s, t) == s.dy * t.dx < s.dx * t.dy
Cross(o, a, b) == From(a, o).dx * From(b, o).dy - From(a, o).dy * From(b, o).dx

NoPoints(epsilon) ==
    [epsilon |-> epsilon, points |-> 0, first |-> 0, rectangle |-> <<>>,
     lower |-> <<>>, upper |-> <<>>]

\* The hulls as they are read, shifted by epsilon: what lies before
\* lower_start and upper_start is dropped at once.
FirstPoint(m, p1, p2) ==
    [m EXCEPT !.points = 1, !.first = p1.x, !.rectangle = <<p1, p2>>, !.lower = <<p2>>, !.upper = <<p1>>]

SecondPoint(m, p1, p2) ==
    [m EXCEPT !.points = 2, !.rectangle = @ \o <<p2, p1>>,
              !.lower = Append(@, p2), !.upper = Append(@, p1)]

\* The hull without the points that the new one, p, covers.  Away tells on
\* which side of the hull's last edge p may not lie.
Covered(hull, p, Away(_)) ==
    LET keep == {n \in 1 .. Len(hull) : n < 2 \/ ~Away(Cross(hull[n - 1], hull[n], p))}
    IN  Append(SubSeq(hull, 1, Max(keep)), p)

\* The slopes from p to the hull fall, or rise, up to the extreme one.
FirstTurn(hull, Back(_, _)) ==
    Min({i \in 1 .. Len(hull) : i < Len(hull) => Back(hull[i + 1], hull[i])})

\* The greatest slope is now that from the lower hull up to p1.
LowerMaxSlope(m, p1) ==
    LET i == FirstTurn(m.lower, LAMBDA next, this : Less(From(this, p1), From(next, p1)))
    IN  IF ~Less(From(p1, m.rectangle[2]), From(m.rectangle[4], m.rectangle[2])) THEN m
        ELSE [m EXCEPT !.rectangle[2] = m.lower[i], !.rectangle[4] = p1,
                       !.lower = SubSeq(@, i, Len(@)),
                       !.upper = Covered(@, p1, LAMBDA c : c <= 0)]

\* Fault: covered points stay on the hull.
RaiseMinSlopeKeeps(m, p2, slope1) ==
    LET i == FirstTurn(m.upper, LAMBDA next, this : Less(From(next, p2), From(this, p2)))
    IN  IF ~Less(slope1, From(p2, m.rectangle[1])) THEN m
        ELSE [m EXCEPT !.rectangle[1] = m.upper[i], !.rectangle[3] = p2,
                       !.upper = SubSeq(@, i, Len(@)),
                       !.lower = Append(@, p2)]

\* The least slope, of slope1 before this point, is now that from the upper
\* hull down to p2.
RaiseMinSlope(m, p2, slope1) ==
    LET i == FirstTurn(m.upper, LAMBDA next, this : Less(From(next, p2), From(this, p2)))
    IN  IF ~Less(slope1, From(p2, m.rectangle[1])) THEN m
        ELSE [m EXCEPT !.rectangle[1] = m.upper[i], !.rectangle[3] = p2,
                       !.upper = SubSeq(@, i, Len(@)),
                       !.lower = Covered(@, p2, LAMBDA c : c >= 0)]

\* Does a line reach the point?
Reaches(m, p1, p2) ==
    /\ ~Less(From(p1, m.rectangle[3]), From(m.rectangle[3], m.rectangle[1]))
    /\ ~Less(From(m.rectangle[4], m.rectangle[2]), From(p2, m.rectangle[4]))

\* add_point: an empty model is what is left of one whose lines end here.
AddPoint(m, p) ==
    LET p1 == Point(p.x, p.y + m.epsilon)
        p2 == Point(p.x, p.y - m.epsilon)
    IN  IF m.points = 0 THEN FirstPoint(m, p1, p2)
        ELSE IF m.points = 1 THEN SecondPoint(m, p1, p2)
        ELSE IF ~Reaches(m, p1, p2) THEN [m EXCEPT !.points = 0]
        ELSE RaiseMinSlope([LowerMaxSlope(m, p1) EXCEPT !.points = @ + 1], p2,
                           From(m.rectangle[3], m.rectangle[1]))

GetSegment(m, start) ==
    [first |-> m.first, start |-> start,
     rectangle |-> IF m.points = 1 THEN m.rectangle \o m.rectangle ELSE m.rectangle]

\* One turn of make_segmentation for the key at position i: a key that no
\* line reaches is added again, to the next segment.
Segmented(r, s, i) ==
    LET p    == Point(s[i + 1], i)
        next == AddPoint(r.model, p)
    IN  IF s[i + 1] = s[i] THEN r
        ELSE IF next.points # 0 THEN [r EXCEPT !.model = next]
        ELSE [model |-> AddPoint(next, p), start |-> i,
              segments |-> Append(r.segments, GetSegment(r.model, r.start))]

MakeSegmentation(s, epsilon) ==
    LET begun == [model |-> AddPoint(NoPoints(epsilon), Point(s[1], 0)), start |-> 0, segments |-> <<>>]
        done  == FoldLeft(LAMBDA r, i : Segmented(r, s, i), begun, [i \in 1 .. Len(s) - 1 |-> i])
    IN  Append(done.segments, GetSegment(done.model, done.start))

\* get_floating_point_segment, as a quotient at a key: the line through the
\* crossing of the two extreme lines with the mean of their slopes.
OnePoint(g) == g.rectangle[1] = g.rectangle[3] /\ g.rectangle[2] = g.rectangle[4]

MiddleLine(g, key) ==
    LET p0    == g.rectangle[1]
        s1    == From(g.rectangle[3], g.rectangle[1])
        s2    == From(g.rectangle[4], g.rectangle[2])
        p0p1  == From(g.rectangle[2], g.rectangle[1])
        cross == s1.dx * s2.dy - s1.dy * s2.dx
        a     == IF cross = 0 THEN 1 ELSE cross
        b     == IF cross = 0 THEN 0 ELSE p0p1.dx * s2.dy - p0p1.dy * s2.dx
        rise  == s1.dy * s2.dx + s2.dy * s1.dx
        run   == 2 * s1.dx * s2.dx
    IN  IF OnePoint(g) THEN [num |-> p0.y + g.rectangle[2].y, den |-> 2]
        ELSE [num |-> (p0.y * a + b * s1.dy) * run + ((key - p0.x) * a - b * s1.dx) * rise,
              den |-> a * run]

-----------------------------------------------------------------------------
Tripled == FlattenSeq([p \in 1 .. Len(keys) |->
                          IF p % 3 = 1 THEN <<keys[p], keys[p], keys[p]>> ELSE <<keys[p]>>])

\* The reference: the first positions of the distinct keys of a part of s,
\* and the slopes that any two of them, i left of j, rule out.
Firsts(s, from, to) == {Point(s[i], i - 1) : i \in {k \in from .. to : k = from \/ s[k] # s[k - 1]}}
Least(p, q, epsilon)    == [dx |-> q.x - p.x, dy |-> q.y - p.y - 2 * epsilon]
Greatest(p, q, epsilon) == [dx |-> q.x - p.x, dy |-> q.y - p.y + 2 * epsilon]
Pairs(P) == {<<p, q>> \in P \X P : p.x < q.x}
LineFits(P, epsilon) ==
    \A a, b \in Pairs(P) : ~Less(Greatest(a[1], a[2], epsilon), Least(b[1], b[2], epsilon))

\* Every line that fits is between the slopes of the rectangle, which do fit.
ExtremesAreRight(g, P, epsilon) ==
    LET slope1 == From(g.rectangle[3], g.rectangle[1])
        slope2 == From(g.rectangle[4], g.rectangle[2])
    IN  /\ \A a \in Pairs(P) : /\ ~Less(slope1, Least(a[1], a[2], epsilon))
                               /\ ~Less(Greatest(a[1], a[2], epsilon), slope2)
        /\ Pairs(P) # {} => /\ \E a \in Pairs(P) : ~Less(Least(a[1], a[2], epsilon), slope1)
                            /\ \E a \in Pairs(P) : ~Less(slope2, Greatest(a[1], a[2], epsilon))

MiddleIsWithin(g, P, epsilon) ==
    \A p \in P : \E v \in {MiddleLine(g, p.x)} :
        LET sign == IF v.den < 0 THEN -1 ELSE 1
        IN  /\ sign * (v.num - (p.y + epsilon) * v.den) <= 0
            /\ sign * (v.num - (p.y - epsilon) * v.den) >= 0

\* The segmentation of train_opt is exact: a line fits the positions of each
\* segment, none fits them and the next, the extreme slopes are those of all
\* lines that fit, although only hulls are kept, and the line in the middle
\* stays within epsilon of every key at its first position.
SegmentsFit ==
    pc = "add" /\ count = 0 =>
        \A epsilon \in 1 .. 2, s \in {keys, Tripled} :
            \E segments \in {MakeSegmentation(s, epsilon)} :
                \A n \in 1 .. Len(segments) :
                    LET g   == segments[n]
                        end == IF n = Len(segments) THEN Len(s) ELSE segments[n + 1].start
                    IN  \E P \in {Firsts(s, g.start + 1, end)} :
                            /\ g.first = s[g.start + 1]
                            /\ LineFits(P, epsilon)
                            /\ n < Len(segments) => ~LineFits(P \cup {Point(s[end + 1], end)}, epsilon)
                            /\ ExtremesAreRight(g, P, epsilon)
                            /\ MiddleIsWithin(g, P, epsilon)
=============================================================================
