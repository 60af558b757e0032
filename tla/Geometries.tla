----------------------------- MODULE Geometries -----------------------------
(***************************************************************************)
(* The geometries of packages/sqon: objects that share their parts.  A     *)
(* point, a line and a multi-point hold an array of points, the others     *)
(* hold geometries.  A line that is made from an array keeps that array,   *)
(* which the application, other lines and multi-points may hold as well,   *)
(* and close() appends to it; a polygon closes lines of its own.  Points   *)
(* have no method that changes them, and stand here for their coordinates. *)
(***************************************************************************)
EXTENDS Naturals, Sequences, FiniteSets

LOCAL INSTANCE SequencesExt

CONSTANTS
    Arrays,         \* the arrays of points that the application has
    MaxMade         \* the most calls that make a geometry

VARIABLES
    heap,           \* the arrays, and the geometries by the order they were made in
    meant,          \* history: what a geometry was made to be, as GeoJSON
    closed,         \* history: the arrays that a close() of the application extended
    clones          \* history: the pairs of a geometry and its clone()

vars == <<heap, meant, closed, clones>>

-----------------------------------------------------------------------------
Flat  == {"Point", "LineString", "MultiPoint"}
Types == Flat \cup {"Polygon", "MultiLineString", "MultiPolygon", "GeometryCollection"}

\* What the parts of a geometry may be.
PartTypes(type) ==
    CASE type \in {"Polygon", "MultiLineString"} -> {"LineString"}
      [] type = "MultiPolygon"                   -> {"Polygon"}
      [] type = "GeometryCollection"             -> Types
      [] OTHER                                   -> {}

IsClosed(points) == points[1] = points[Len(points)]

Points(h, g) == h.arrays[h.geometries[g].array]

New(h, type, array, parts) ==
    [h EXCEPT !.geometries = Append(@, [type |-> type, array |-> array, parts |-> parts])]

\* With an array of its own.
NewFlat(h, type, points) ==
    New([h EXCEPT !.arrays = Append(@, points)], type, Len(h.arrays) + 1, <<>>)

\* Every constructor and clone() leaves what it made as the last geometry.
Made(h) == Len(h.geometries)

\* GeometryLine.close().
Close(h, line) ==
    [h EXCEPT !.arrays[h.geometries[line].array] =
        IF IsClosed(@) THEN @ ELSE Append(@, Head(@))]

\* One new geometry for each element of a sequence.
Each(h, seq, Make(_, _)) ==
    FoldLeft(LAMBDA acc, x : LET n == Make(acc.heap, x) IN
                             [heap |-> n, made |-> Append(acc.made, Made(n))],
             [heap |-> h, made |-> <<>>], seq)

CloneFlat(h, g) == NewFlat(h, h.geometries[g].type, Points(h, g))

\* A faulty variant: a polygon closes the lines it is given.
RingGiven(h, line) ==
    LET n == Close(h, line) IN New(n, "LineString", n.geometries[line].array, <<>>)

\* A polygon's ring: the clone of a line, closed.
Ring(h, line) == LET n == CloneFlat(h, line) IN Close(n, Made(n))

\* The constructors, given the parts.  Only a polygon does not keep them.
OfParts(h, type, parts) ==
    IF type = "Polygon"
    THEN LET rings == Each(h, parts, Ring) IN New(rings.heap, type, 0, rings.made)
    ELSE New(h, type, 0, parts)

\* The constructors, given a geometry of the same type: they copy the array,
\* and share what is in it.
OfSource(h, g) ==
    LET x == h.geometries[g] IN
    IF x.type \in Flat THEN CloneFlat(h, g) ELSE New(h, x.type, 0, x.parts)

\* clone().  The constructor of a polygon clones its rings itself; those that
\* clone() makes before are dropped.
RECURSIVE Clone(_, _)
Clone(h, g) ==
    LET x == h.geometries[g] IN
    IF x.type \in Flat THEN CloneFlat(h, g)
    ELSE IF x.type = "Polygon" THEN OfParts(h, x.type, x.parts)
    ELSE LET parts == Each(h, x.parts, Clone) IN OfParts(parts.heap, x.type, parts.made)

-----------------------------------------------------------------------------
(* GeoJSON: the type, the points, and the GeoJSON of the parts.            *)

RECURSIVE ToJSON(_, _)
ToJSON(h, g) ==
    LET x == h.geometries[g] IN
    [type   |-> x.type,
     points |-> IF x.type \in Flat THEN Points(h, g) ELSE <<>>,
     parts  |-> [i \in DOMAIN x.parts |-> ToJSON(h, x.parts[i])]]

\* fromJSON(), and the constructors, given GeoJSON.
RECURSIVE OfJSON(_, _)
OfJSON(h, json) ==
    LET RingOf(n, line) == LET m == OfJSON(n, line) IN Close(m, Made(m))
        parts == IF json.type = "Polygon" THEN Each(h, json.parts, RingOf)
                 ELSE Each(h, json.parts, OfJSON)
    IN IF json.type \in Flat THEN NewFlat(h, json.type, json.points)
       ELSE New(parts.heap, json.type, 0, parts.made)

\* is(): of the same type, and the same part by part.
RECURSIVE Is(_, _, _)
Is(h, a, b) ==
    LET x == h.geometries[a]
        y == h.geometries[b]
    IN /\ x.type = y.type
       /\ IF x.type \in Flat THEN Points(h, a) = Points(h, b)
          ELSE /\ Len(x.parts) = Len(y.parts)
               /\ \A i \in DOMAIN x.parts : Is(h, x.parts[i], y.parts[i])

\* The arrays of points a geometry is made of.
RECURSIVE ArraysOf(_, _)
ArraysOf(h, g) ==
    LET x == h.geometries[g] IN
    IF x.type \in Flat THEN {x.array}
    ELSE UNION {ArraysOf(h, x.parts[i]) : i \in DOMAIN x.parts}

-----------------------------------------------------------------------------
(* What GeoJSON says: the same, with the rings of polygons closed.         *)
ClosedLine(json) ==
    IF IsClosed(json.points) THEN json ELSE [json EXCEPT !.points = Append(@, Head(@))]

RECURSIVE Meaning(_)
Meaning(json) ==
    [json EXCEPT !.parts =
        [i \in DOMAIN @ |-> IF json.type = "Polygon" THEN ClosedLine(@[i]) ELSE Meaning(@[i])]]

Geometry == DOMAIN heap.geometries
JSON(g) == ToJSON(heap, g)

\* GeoJSON that is not from a geometry: polygons whose rings may be open.
Line(points)   == [type |-> "LineString", points |-> points, parts |-> <<>>]
Whole(type, j) == [type |-> type, points |-> <<>>, parts |-> <<j>>]
Written ==
    LET polygons == {Whole("Polygon", Line(points)) : points \in ToSet(Arrays)} IN
    polygons \cup {Whole(t, j) : t \in {"MultiPolygon", "GeometryCollection"}, j \in polygons}

-----------------------------------------------------------------------------
Init ==
    /\ heap = [arrays |-> Arrays, geometries |-> <<>>]
    /\ meant = <<>>
    /\ closed = {} /\ clones = {}

\* A call that makes a geometry which is to be what the GeoJSON says.  Parts
\* that are made with it are nobody's but its own.
Makes(h, json) ==
    /\ Cardinality(DOMAIN meant) < MaxMade
    /\ heap' = h
    /\ meant' = [g \in DOMAIN meant \cup {Made(h)} |-> IF g \in DOMAIN meant THEN meant[g] ELSE json]
    /\ UNCHANGED closed

\* new GeometryLine(array) and new GeometryMultiPoint(array) keep the array,
\* new GeometryPoint(point) makes one.
MakeOfArray(a, type) ==
    /\ IF type = "Point" THEN Makes(NewFlat(heap, type, <<Arrays[a][1]>>),
                                    [Line(<<Arrays[a][1]>>) EXCEPT !.type = type])
       ELSE Makes(New(heap, type, a, <<>>), [Line(heap.arrays[a]) EXCEPT !.type = type])
    /\ UNCHANGED clones

MakeOfParts(type, parts) ==
    /\ \A i \in DOMAIN parts : heap.geometries[parts[i]].type \in PartTypes(type)
    /\ Makes(OfParts(heap, type, parts),
             Meaning([type |-> type, points |-> <<>>, parts |-> [i \in DOMAIN parts |-> JSON(parts[i])]]))
    /\ UNCHANGED clones

MakeOfSource(g) == Makes(OfSource(heap, g), JSON(g)) /\ UNCHANGED clones

MakeClone(g) ==
    LET h == Clone(heap, g) IN Makes(h, JSON(g)) /\ clones' = clones \cup {<<g, Made(h)>>}

MakeOfJSON(json) == Makes(OfJSON(heap, json), Meaning(json)) /\ UNCHANGED clones

CloseLine(g) ==
    /\ heap.geometries[g].type = "LineString" /\ ~IsClosed(Points(heap, g))
    /\ heap' = Close(heap, g)
    /\ closed' = closed \cup {heap.geometries[g].array}
    /\ UNCHANGED <<meant, clones>>

Next ==
    \/ \E a \in DOMAIN Arrays, type \in Flat : MakeOfArray(a, type)
    \/ \E type \in Types \ Flat :
         \/ \E g \in Geometry : MakeOfParts(type, <<g>>)
         \/ \E g, k \in Geometry : MakeOfParts(type, <<g, k>>)
    \/ \E g \in Geometry : MakeOfSource(g) \/ MakeClone(g) \/ MakeOfJSON(JSON(g)) \/ CloseLine(g)
    \/ \E json \in Written : MakeOfJSON(json)

Spec == Init /\ [][Next]_vars

-----------------------------------------------------------------------------
\* Whatever the application does with lines, arrays and other polygons, the
\* rings of a polygon are closed (geometry.ts:209).
RingsAreClosed ==
    \A g \in Geometry : heap.geometries[g].type = "Polygon" =>
        \A i \in DOMAIN heap.geometries[g].parts : IsClosed(Points(heap, heap.geometries[g].parts[i]))

\* A geometry stays what it was made to be, unless the application itself has
\* closed a line over an array that it is made of: making a polygon of a line,
\* or closing a clone, does not change the line (geometry.ts:207).
StayAsMade ==
    \A g \in DOMAIN meant : ArraysOf(heap, g) \cap closed = {} => JSON(g) = meant[g]

\* A clone and its original have no array in common, at any depth.
ClonesAreApart == \A p \in clones : ArraysOf(heap, p[1]) \cap ArraysOf(heap, p[2]) = {}

\* Two geometries are the same exactly if their GeoJSON is.
EqualAsJSON == \A g, k \in Geometry : Is(heap, g, k) <=> JSON(g) = JSON(k)

GeometriesKeep == RingsAreClosed /\ StayAsMade /\ ClonesAreApart /\ EqualAsJSON
=============================================================================
