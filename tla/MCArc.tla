------------------------------- MODULE MCArc -------------------------------
(* Arc on a small instance: programs on rows, on arrays of arrays, on structs. *)
EXTENDS Arc, TLC

ARow == CHOOSE r \in Rows : TRUE

RowPrograms    == {Rows}
GridPrograms   == {{ARow} \cup Grids}
StructPrograms == {{ARow} \cup Structs}
AllPrograms    == RowPrograms \cup GridPrograms \cup StructPrograms

\* Addresses are interchangeable, and so are the two grids and the two structs.
Symmetry == UNION {Permutations(S) : S \in {Addr, Grids, Structs}}
=============================================================================
