----------------------------- MODULE MCExercises -----------------------------
(***************************************************************************)
(* Every short input over a small alphabet, boards of up to five rows, and *)
(* sudokus of side four with up to seven blank cells, which make the       *)
(* search go back several times.  Two inputs of removeBoxes and one of     *)
(* findSubstring are there because the code is wrong on them.              *)
(***************************************************************************)
EXTENDS Exercises

Upto(S, n) == UNION {[1..k -> S] : k \in 0..n}

MCInputs ==
    {<<"parentheses", s>> : s \in Upto({"(", ")"}, 8)}
    \cup {<<"palindrome", s>> : s \in Upto({"a", "b"}, 8)}
    \cup {<<"wildcard", x>> : x \in Upto({"a", "b"}, 3) \X Upto({"a", "b", "?", "*"}, 4)}
    \cup {<<"substring", x>> : x \in Upto({"a", "b"}, 6)
              \X ({<<>>} \cup ([1..2 -> {<<"a">>, <<"b">>}] \cup [1..3 -> {<<"a">>, <<"b">>}])
                    \cup ([1..1 -> [1..2 -> {"a", "b"}]] \cup [1..2 -> [1..2 -> {"a", "b"}]]))}
    \cup {<<"again", <<s, w, s, v>>>> : <<s, w, v>> \in
              {x \in Upto({"a", "b"}, 5) \X Upto({<<"a">>, <<"b">>}, 2) \X Upto({<<"a">>, <<"b">>}, 3) :
                  x[2] = <<>> \/ ToSet(x[2]) = ToSet(x[3])}}
    \cup {<<"again", x>> : x \in Misled}
    \cup {<<"missing", s>> : s \in Upto({-1, 0, 1, 2, 3, 4}, 3)}
    \cup {<<"trap", s>> : s \in Upto(0..3, 5)}
    \cup {<<"permutation", <<n, k>>>> : <<n, k>> \in {x \in (1..5) \X (1..120) : x[2] <= fac(x[1])}}
    \cup {<<"boxes", s>> : s \in Upto(1..2, 7)}
    \cup {<<"boxes", s>> : s \in [1..6 -> 1..3] \cup Underrated}

\* A full board without the cells numbered in B.
Full == <<4, 3, 2, 1,  2, 1, 4, 3,  3, 4, 1, 2,  1, 2, 3, 4>>
Without(B) == [q \in (0..3) \X (0..3) |->
                  LET k == 4 * q[1] + q[2] IN IF k \in B THEN 0 ELSE Full[k + 1]]
MCBoards ==
    {Without(B) : B \in kSubset(5, {0, 1, 2, 3, 4, 5, 8, 12})}
    \cup {Without({}), Without({5, 7, 13, 15}), Without({0, 1, 2, 3, 4, 5, 12})}
=============================================================================
