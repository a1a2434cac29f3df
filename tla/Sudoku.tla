------------------------------- MODULE Sudoku -------------------------------
(* solver.cpp of Lab/9: the backtracking search dfs, call by call, and the   *)
(* conversation with the challenge server that follows it. Cell k of the     *)
(* board is row k / N, column k % N.                                         *)
EXTENDS Integers, FiniteSets, FiniteSetsExt

CONSTANTS B,       \* 3: side of a block
          Puzzles  \* boards that the challenge server may send

N     == B * B
Cell  == 0 .. N * N - 1
Digit == 1 .. N

Row(i)   == {i * N + j : j \in 0 .. N - 1}
Col(i)   == {j * N + i : j \in 0 .. N - 1}
Block(i) == {((i \div B) * B + jx) * N + (i % B) * B + jy : jx \in 0 .. B - 1, jy \in 0 .. B - 1}

Units == UNION {{Row(i), Col(i), Block(i)} : i \in 0 .. N - 1}

MutantValid(b) ==   \* looks at one block in each row of blocks only
  \A U \in {Row(i) : i \in 0 .. N - 1} \cup {Col(i) : i \in 0 .. N - 1}
           \cup {Block(i * B) : i \in 0 .. B - 1} :
    \A c \in U : \A d \in U \ {c} : b[c] # 0 => b[c] # b[d]

(* No digit more than once in a row, column or block; 0 is an empty cell.    *)
Valid(b) ==
  \A U \in Units : \A c \in U : \A d \in U \ {c} : b[c] # 0 => b[c] # b[d]

ASSUME SudokuAssumption ==
  /\ B \in Nat \ {0}
  /\ Puzzles \subseteq [Cell -> 0 .. N]
  /\ \A p \in Puzzles : Valid(p)

VARIABLES init, mp,
          k,     \* argument of the innermost call of dfs
          at,    \* "call": dfs(k) begins; "next": its loop goes on;
                 \* "found" and "fail": solve has returned; "checked"
          sent   \* cells that have been sent with V

SearchVars == <<init, mp, k, at, sent>>

Given(c) == init[c] # 0
End      == N * N

-----------------------------------------------------------------------------

(* A cell that is not empty is passed over.                                  *)
Skip ==
  /\ at = "call" /\ k < End /\ mp[k] # 0
  /\ k' = k + 1
  /\ UNCHANGED <<init, mp, at, sent>>

EnterLoop ==
  /\ at = "call" /\ k < End /\ mp[k] = 0
  /\ at' = "next"
  /\ UNCHANGED <<init, mp, k, sent>>

Found ==
  /\ at = "call" /\ k = End
  /\ at' = "found"
  /\ UNCHANGED <<init, mp, k, sent>>

MutantTry ==   \* begins with 2
  /\ at = "next" /\ mp[k] < N
  /\ mp' = [mp EXCEPT ![k] = IF @ = 0 THEN 2 ELSE @ + 1]
  /\ IF Valid(mp') THEN at' = "call" /\ k' = k + 1 ELSE UNCHANGED <<at, k>>
  /\ UNCHANGED <<init, sent>>

(* The next digit; if the board stays valid, dfs(k + 1).                     *)
Try ==
  /\ at = "next" /\ mp[k] < N
  /\ mp' = [mp EXCEPT ![k] = @ + 1]
  /\ IF Valid(mp') THEN at' = "call" /\ k' = k + 1 ELSE UNCHANGED <<at, k>>
  /\ UNCHANGED <<init, sent>>

Caller == {c \in 0 .. k - 1 : ~Given(c)}

MutantRestart ==   \* begins the caller's loop again
  /\ at = "next" /\ mp[k] = N
  /\ mp' = [c \in Cell |-> IF c = k \/ (Caller # {} /\ c = Max(Caller)) THEN 0 ELSE mp[c]]
  /\ IF Caller = {} THEN at' = "fail" /\ k' = 0 ELSE k' = Max(Caller) /\ UNCHANGED at
  /\ UNCHANGED <<init, sent>>

(* All digits tried: the calls that have passed over a cell return false as  *)
(* well, and the loop of the last cell that was empty goes on.               *)
GiveUp ==
  /\ at = "next" /\ mp[k] = N
  /\ mp' = [mp EXCEPT ![k] = 0]
  /\ IF Caller = {} THEN at' = "fail" /\ k' = 0 ELSE k' = Max(Caller) /\ UNCHANGED at
  /\ UNCHANGED <<init, sent>>

MutantMissing == {c \in Cell : ~Given(c) /\ c + N \in Cell} \ sent   \* stops a row early

Missing == {c \in Cell : ~Given(c)} \ sent

(* V for each cell that was empty, in order, each with its answer, then C.   *)
Send ==
  /\ at = "found" /\ Missing # {}
  /\ sent' = sent \cup {Min(Missing)}
  /\ UNCHANGED <<init, mp, k, at>>

Check ==
  /\ at = "found" /\ Missing = {}
  /\ at' = "checked"
  /\ UNCHANGED <<init, mp, k, sent>>

SearchInit ==
  /\ init \in Puzzles /\ mp = init
  /\ k = 0 /\ at = "call" /\ sent = {}

SearchNext == Skip \/ EnterLoop \/ Found \/ Try \/ GiveUp \/ Send \/ Check

SearchSpec     == SearchInit /\ [][SearchNext]_SearchVars
SearchFairSpec == SearchSpec /\ WF_SearchVars(SearchNext)

-----------------------------------------------------------------------------
(* Properties.                                                               *)

(* Every variable has its type.                                              *)
SearchTypeOK ==
  /\ init \in Puzzles /\ mp \in [Cell -> 0 .. N]
  /\ k \in 0 .. End /\ (at = "next" => k # End /\ ~Given(k))
  /\ at \in {"call", "next", "found", "fail", "checked"}
  /\ sent \subseteq {c \in Cell : ~Given(c)}

(* Every way to fill the empty cells of the puzzle, among all digits.        *)
Solutions ==
  LET empty == {c \in Cell : ~Given(c)}
  IN  {f \in [empty -> Digit] : Valid([c \in Cell |-> IF Given(c) THEN init[c] ELSE f[c]])}

(* dfs gives up only on a puzzle without a solution: of all the ways to fill *)
(* the empty cells, none is right.                                           *)
FailOnlyWithoutSolution == at = "fail" => Solutions = {}

(* What is sent to the server is a solution of its puzzle, and all of it.    *)
CheckedIsSolution ==
  at = "checked" =>
    /\ Valid(mp)
    /\ \A c \in Cell : mp[c] # 0 /\ (c \in sent \/ mp[c] = init[c])

(* The search comes to an end.                                               *)
Terminates == <>(at \in {"fail", "checked"})
=============================================================================
