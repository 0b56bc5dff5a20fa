\* A Structure with an Array, a Grid of two dimensions and a Sequence.
CONSTANTS
    s = s  a = a  t = t  g = g  ga = ga  m1 = m1  m2 = m2  q = q  r = r
    Vars = {s, a, t, g, ga, m1, m2, q, r}
    Inside <- MCInside
    Arrays = {a, ga, m1, m2}
    Grids = {g}
    Sequences = {q}
    Shape <- MCShape
    GridArray <- MCGridArray
    Maps <- MCMaps
    Indices <- MCIndices
    MaxNames = 4
SPECIFICATION Spec
\* An Error is the end.
CHECK_DEADLOCK FALSE
\* What it means:
INVARIANTS OnlyWhatWasNamed  GridStaysGrid
PROPERTY HyperslabsStay
