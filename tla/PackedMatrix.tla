---------------------------- MODULE PackedMatrix ----------------------------
(***************************************************************************)
(* The matrix load_matrix leaves in matrix_canvas::_m, as the functions    *)
(* that draw it see it: packed, so that a position has at most one entry.  *)
(***************************************************************************)
EXTENDS Integers

CONSTANTS
    NRows, NCols,
    Matrices          \* packed matrices: functions from some positions to values

Rows == 0 .. (NRows - 1)
Columns == 0 .. (NCols - 1)

ASSUME SizeAssumption == NRows \in Nat \ {0} /\ NCols \in Nat \ {0}
ASSUME MatricesAssumption ==
    \A m \in Matrices : DOMAIN m \subseteq Rows \X Columns /\ m \in [DOMAIN m -> Int]

VARIABLE matrix       \* _m

\* glui_callback: the state that a pair of check boxes stands for.
StateOf(boxes) ==
    CASE boxes = {} -> "none"
      [] boxes = {"rows"} -> "row"
      [] boxes = {"columns"} -> "column"
      [] OTHER -> "row_column"

=============================================================================
