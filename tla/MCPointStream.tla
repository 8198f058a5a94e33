--------------------------- MODULE MCPointStream ---------------------------
(* Points on a grid: a segment of up to six points, at distance one or more. *)
EXTENDS PointStream

CONSTANTS XMax, YMax

Grid(n) == 0..n
MCXs == Grid(XMax)
MCYs == Grid(YMax)
=============================================================================
