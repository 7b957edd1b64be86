---------------------------- MODULE MCLibraryIndex ----------------------------
\* A small instance of LibraryIndex: formats 1 and 2 sort differently over the
\* same records, format 3 has other records.
EXTENDS LibraryIndex, TLC

CONSTANTS p1, p2, p3

MCPaths == {p1, p2, p3}
MCStructure == [f \in Formats |-> IF f = 3 THEN 2 ELSE 1]
BookSymmetry == Permutations(MCPaths)
=============================================================================
