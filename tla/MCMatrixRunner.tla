---- MODULE MCMatrixRunner ----
\* Three cells and the sentinel.
EXTENDS MatrixRunner

CONSTANTS c1, c2, c3

MCCells == <<c1, c2, c3>>
====
