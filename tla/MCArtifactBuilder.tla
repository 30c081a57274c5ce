------------------------- MODULE MCArtifactBuilder -------------------------
EXTENDS ArtifactBuilder

CONSTANTS a, b, c

MCProblems == {<<a, b>>, <<a, c>>}
MCConfLists == {<<c>>, <<a, c>>}
MCSegmentLists == {<<<<b, b>>>>, <<<<a, c>>, <<a, b>>>>}

(* A set around an edge, and two that cover this edge only together. *)
MCShapes == {Edge(a, b), {Point(a, a), Point(a, b)}, {Point(b, b)}}

=============================================================================
