------------------------ MODULE MCPlySequenceLoader ------------------------
(* PlySequenceLoader for TLC: tasks are interchangeable, and so are the    *)
(* units and the attribute tables, which are only ever compared.           *)
EXTENDS PlySequenceLoader, TLC

Symmetry ==
  Permutations(Tasks)
    \union Permutations(UnitsChoices)
    \union Permutations(AttributeTables)
=============================================================================
