------------------------------ MODULE MCSudoku ------------------------------
EXTENDS Sudoku, Folds

CONSTANT Open  \* cells left empty

(* Boards that begin with 1, 2, 3 are enough for both outcomes.              *)
Start == [c \in Cell |-> IF c < 3 THEN c + 1 ELSE 0]

Fill(c, boards) ==
  {b \in {[p EXCEPT ![c] = x] : p \in boards, x \in Digit} : Valid(b)}

(* All valid ways to give the cells that are not left empty: with and        *)
(* without a solution.                                                       *)
MCPuzzles == MapThenFoldSet(Fill, {Start}, LAMBDA c : c, Min, Cell \ (Open \cup 0 .. 2))
=============================================================================
