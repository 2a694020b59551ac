------------------------------ MODULE Exercises ------------------------------
(***************************************************************************)
(* Calls of the functions in c++/leetcode.  The string and number          *)
(* functions are one step; the two n-queens searches (51.cpp and 51-2.cpp) *)
(* and the sudoku search (37-2.cpp) take a step per round of their loop.   *)
(* The sudoku has Side where the code says 9 and Block where it says 3.    *)
(***************************************************************************)
EXTENDS StringExercises, NumberExercises

CONSTANTS
    Inputs,         \* <<function, arguments>> of the one-step calls
    QueenSizes,     \* the n of solveNQueens
    Side, Block,    \* of a sudoku board
    Boards          \* the boards given to solveSudoku; each has a solution

ASSUME BoardsAreSquare ==
    /\ Side = Block * Block
    /\ \A b \in Boards : b \in [(0..(Side - 1)) \X (0..(Side - 1)) -> 0..Side]

VARIABLES
    call,   \* <<function, argument>>
    pc,     \* "run" or, in solveSudoku, "val"; "done"
    loc,    \* the local variables of a search
    result  \* what a search has collected or returned

vars == <<call, pc, loc, result>>

Blank == 0      \* the character '.'

Init ==
    /\ pc = "run" /\ result = <<>>
    /\ \/ call \in Inputs /\ loc = <<>>
       \/ \E n \in QueenSizes :
             \/ call = <<"queens", n>> /\ loc = [r |-> [i \in 1..n |-> 0], row |-> n, col |-> -1]
             \/ call = <<"queens2", n>> /\ loc = [r |-> <<-1>>]
       \/ \E b \in Boards :
             call = <<"sudoku", b>> /\ loc = [b |-> b, p |-> <<0, 0>>, s |-> <<>>]

Return(value) == pc' = "done" /\ result' = value /\ UNCHANGED <<call, loc>>

(***************************************************************************)
(* The one-step calls.                                                     *)
(***************************************************************************)
Answer(function, x) ==
    CASE function = "parentheses" -> longestValidParentheses(x)
      [] function = "palindrome"  -> shortestPalindrome(x)
      [] function = "wildcard"    -> isMatch(x[1], x[2])
      [] function = "substring"   -> findFirst(x[1], x[2])
      [] function = "again"       -> findAgain(x[1], x[2], x[3], x[4])
      [] function = "missing"     -> firstMissingPositive(x)
      [] function = "trap"        -> <<trap(x), trap2(x)>>
      [] function = "permutation" -> getPermutation(x[1], x[2])
      [] function = "boxes"       -> removeBoxes(x)

\* Nothing else happens in such a call, so its result is not kept but computed.
Call ==
    /\ pc = "run" /\ loc = <<>>
    /\ pc' = "done"
    /\ UNCHANGED <<call, loc, result>>

(***************************************************************************)
(* 51-2.cpp: r has the columns of the first rows; next counts it up like a *)
(* number with digits 0..n-1, legal cuts it after the first row under      *)
(* attack, and a legal r that is not complete gets another row.            *)
(***************************************************************************)
Attacks(r, i, j) == r[i] = r[j] \/ r[i] - r[j] \in {i - j, j - i}

\* The first row that an earlier one attacks; one past the end if there is none.
firstIllegal(r) == Min({Len(r) + 1} \cup {i \in DOMAIN r : \E j \in 1..(i - 1) : Attacks(r, i, j)})

CanCount(n, r) == \E i \in DOMAIN r : r[i] < n - 1
next(n, r) ==
    LET k == Max({i \in DOMAIN r : r[i] < n - 1})
    IN  [i \in DOMAIN r |-> IF i < k THEN r[i] ELSE IF i = k THEN r[i] + 1 ELSE 0]

LegalCutsMore(r) ==     \* mutant: r.resize(i)
    SubSeq(r, 1, Max({1, firstIllegal(r) - 1}))
cut(r) == SubSeq(r, 1, Min({Len(r), firstIllegal(r)}))

QueensRound ==
    /\ call[1] = "queens2" /\ pc = "run"
    /\ LET n == call[2]
           r == next(n, loc.r)
           legal == firstIllegal(r) > Len(r)
       IN  IF ~CanCount(n, loc.r) THEN Return(result)
           ELSE /\ loc' = [r |-> IF legal /\ Len(r) < n THEN Append(r, -1) ELSE cut(r)]
                /\ result' = IF legal /\ Len(r) = n THEN Append(result, r) ELSE result
                /\ UNCHANGED <<call, pc>>

(***************************************************************************)
(* 51.cpp: all n rows always have a queen; the search goes on from the row *)
(* and column that illegal found, and next carries into the row above.     *)
(* Row 0 of the code is row 1.                                             *)
(***************************************************************************)
NextOpenRow(n, r, row, col) ==   \* the row whose queen moves, 0 if none can
    IF col < n - 1 THEN row
    ELSE Max({0} \cup {i \in 1..(row - 1) : r[i] < n - 1})

nextBoard(n, r, row, col) ==
    LET k == NextOpenRow(n, r, row, col)
    IN  [i \in DOMAIN r |-> IF i = k THEN (IF k = row THEN col ELSE r[k]) + 1
                            ELSE IF i > k /\ i <= row THEN 0 ELSE r[i]]

QueensBoardRound ==
    /\ call[1] = "queens" /\ pc = "run"
    /\ LET n == call[2]
           r == nextBoard(n, loc.r, loc.row, loc.col)
           i == firstIllegal(r)
       IN  IF NextOpenRow(n, loc.r, loc.row, loc.col) = 0 THEN Return(result)
           ELSE /\ loc' = [r |-> r, row |-> Min({i, n}), col |-> r[Min({i, n})]]
                /\ result' = IF i > n THEN Append(result, r) ELSE result
                /\ UNCHANGED <<call, pc>>

(***************************************************************************)
(* 37-2.cpp: fill the next blank cell with the next value that is legal;   *)
(* if there is none blank it again and go back to the cell filled before.  *)
(***************************************************************************)
Cells == (0..(Side - 1)) \X (0..(Side - 1))
Before(p, q) == p[1] < q[1] \/ (p[1] = q[1] /\ p[2] < q[2])
SameBlock(p, q) == p[1] \div Block = q[1] \div Block /\ p[2] \div Block = q[2] \div Block

legal(b, p, v) ==
    \A q \in Cells \ {p} : p[1] = q[1] \/ p[2] = q[2] \/ SameBlock(p, q) => b[q] # v

nextpos(b, p) == {q \in Cells : b[q] = Blank /\ ~Before(q, p)}

SudokuPos ==
    /\ call[1] = "sudoku" /\ pc = "run"
    /\ LET free == nextpos(loc.b, loc.p)
       IN  IF free = {} THEN Return(loc.b)
           ELSE /\ loc' = [loc EXCEPT !.p = CHOOSE q \in free : \A x \in free \ {q} : Before(q, x)]
                /\ pc' = "val"
                /\ UNCHANGED <<call, result>>

NextValAgain(b, p) ==   \* mutant: for (c = v; ...), the value it has included
    {v \in 1..Side : v >= b[p] /\ legal(b, p, v)}
nextval(b, p) == {v \in 1..Side : v > b[p] /\ legal(b, p, v)}

SudokuVal ==
    /\ call[1] = "sudoku" /\ pc = "val"
    /\ LET p == loc.p
           values == nextval(loc.b, p)
       IN  \/ /\ values # {}
              /\ loc' = [loc EXCEPT !.b[p] = Min(values), !.s = Append(@, p)]
              /\ pc' = "run"
           \/ /\ values = {} /\ loc.s # <<>>
              /\ loc' = [b |-> [loc.b EXCEPT ![p] = Blank], p |-> Last(loc.s), s |-> Front(loc.s)]
              /\ UNCHANGED pc
    /\ UNCHANGED <<call, result>>

Next == Call \/ QueensRound \/ QueensBoardRound \/ SudokuPos \/ SudokuVal

\* One thread that nothing holds up.
Spec == Init /\ [][Next]_vars /\ WF_vars(Next)
-----------------------------------------------------------------------------
\* Where 546-2.cpp keeps the wrong one of two best ways to clear an interval:
\* it has one `same` for it (lines 24-26), and a later merge needs another.
Underrated == {<<1, 1, 1, 2, 1, 2, 2, 2, 1, 2, 1>>, <<1, 1, 2, 2, 2, 1, 2, 3, 1, 3, 3, 3, 1>>}

\* Where 30.cpp believes what an earlier call has found in another string.
Misled == {<<<<"a", "b">>, <<<<"a">>, <<"a">>>>, <<"a", "a">>, <<<<"a">>, <<"a">>>>>>}

Finds(answer, s, words) == ToSet(answer) = Concatenations(s, words) /\ IsInjective(answer)

(* Every one-step function returns what its problem asks for, on every input *)
(* of the instance but the ones named here: 32.cpp:5, 214.cpp:7, 44-2.cpp:5, *)
(* 30.cpp:15, 41.cpp:6, 42.cpp:5, 42-2.cpp:5, 60.cpp:13 and 546-2.cpp:11      *)
(* against definitions that share nothing with them.  546-2.cpp is right on   *)
(* the short inputs only: there are inputs from eleven boxes on for which it  *)
(* returns less than some order of removals scores.  30.cpp is right in a     *)
(* second call of the same object when the string and the words are those of  *)
(* the first or the first had no words, and not in general.                   *)
ResultsAreRight ==
    pc = "done" /\ loc = <<>> =>
        LET x == call[2]
            answer == Answer(call[1], x)
        IN
        CASE call[1] = "parentheses" -> answer = LongestBalanced(x)
          [] call[1] = "palindrome"  -> answer = ShortestInFront(x)
          [] call[1] = "wildcard"    -> answer = Matches(x[1], x[2])
          [] call[1] = "substring"   -> Finds(answer, x[1], x[2])
          [] call[1] = "again"       -> Finds(answer, x[3], x[4]) <=> x \notin Misled
          [] call[1] = "missing"     -> answer = LeastMissing(x)
          [] call[1] = "trap"        -> answer = <<Water(x), Water(x)>>
          [] call[1] = "permutation" -> Rank(x[1], answer) = x[2]
          [] call[1] = "boxes"       -> IF x \in Underrated THEN answer < ScoreByRuns(x)
                                        ELSE answer = BestScore(x)

Placements == [n \in QueenSizes |->
    {r \in [1..n -> 0..(n - 1)] : \A i \in 1..n : \A j \in 1..(i - 1) : ~Attacks(r, i, j)}]
Completions == [g \in Boards |->
    LET blanks == {q \in Cells : g[q] = Blank}
    IN  {b \in {[q \in Cells |-> IF q \in blanks THEN f[q] ELSE g[q]] : f \in [blanks -> 1..Side]} :
            \A q \in Cells : legal(b, q, b[q])}]

\* The rows a queens search looks at, up to the last one it decided on.
Reached == IF call[1] = "queens2" THEN loc.r
           ELSE Append(SubSeq(loc.r, 1, loc.row - 1), loc.col)
\* The placement x comes before r in the order both searches count in.
Passed(x, r) == \/ \E i \in DOMAIN r : x[i] < r[i] /\ \A j \in 1..(i - 1) : x[j] = r[j]
                \/ x = r
\* The sudoku search has not gone past the completion c.
Ahead(c, b) == \/ c = b
               \/ \E q \in Cells : c[q] > b[q] /\ \A x \in Cells : Before(x, q) => c[x] = b[x]

(* The searches leave nothing out, however much they cut off: at every round *)
(* the n-queens searches (51.cpp:25, 51-2.cpp:6) hold exactly the placements *)
(* that come before the one they look at, once each and in order, and the    *)
(* sudoku search (37-2.cpp:12) has a solution of the given board ahead, so   *)
(* it never takes the top of an empty stack; at the end they hold them all,  *)
(* and the board is a solution of the given one.                             *)
SearchSkipsNothing ==
    /\ call[1] \in {"queens", "queens2"} =>
          /\ \A i \in 1..(Len(result) - 1) : LexLess(result[i], result[i + 1])
          /\ ToSet(result) = IF pc = "done" THEN Placements[call[2]]
                             ELSE {x \in Placements[call[2]] : Passed(x, Reached)}
    /\ call[1] = "sudoku" =>
          IF pc = "done" THEN result \in Completions[call[2]]
          ELSE \E c \in Completions[call[2]] : Ahead(c, loc.b)

(* Every call returns: in particular the searches, which go back and forth   *)
(* (37-2.cpp:15-22, 51-2.cpp:20-30), never come back to where they were.     *)
EveryCallReturns == <>(pc = "done")
=============================================================================
