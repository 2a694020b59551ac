--------------------------- MODULE StringExercises ---------------------------
(***************************************************************************)
(* The string functions of c++/leetcode as operators, each followed by the *)
(* definition it is compared with.  A string is a sequence of one-letter   *)
(* strings; positions are the code's, from 0, so s[i] of the code is       *)
(* s[i + 1].                                                               *)
(***************************************************************************)
EXTENDS Integers, SequencesExt, FiniteSetsExt

npos == -1      \* string::npos, as the int it is stored in

(***************************************************************************)
(* 32.cpp: v[i] is -1 for an open parenthesis, 1 for a matched one and -2  *)
(* for one that closes nothing; v has one element more than s.             *)
(***************************************************************************)
marks(s) ==
    LET f[i \in 0..Len(s)] ==
            IF i = 0 THEN [k \in 1..(Len(s) + 1) |-> 0]
            ELSE LET v    == f[i - 1]
                     open == {j \in 1..(i - 1) : v[j] = -1}
                 IN  IF s[i] = "("   THEN [v EXCEPT ![i] = -1]
                     ELSE IF open = {} THEN [v EXCEPT ![i] = -2]
                     ELSE [v EXCEPT ![Max(open)] = 1, ![i] = 1]
    IN  f[Len(s)]

\* The second loop: a run of ones counts when something else ends it.
longestRun(v) ==
    LET f[i \in 0..Len(v)] ==
            IF i = 0 THEN [max |-> 0, cur |-> 0]
            ELSE LET acc == f[i - 1]
                 IN  IF v[i] = 1 THEN [acc EXCEPT !.cur = @ + 1]
                     ELSE [max |-> Max({acc.max, acc.cur}), cur |-> 0]
    IN  f[Len(v)].max

RunAtTheEndIsLost(s) ==   \* mutant: vector<int> v(s.size())
    longestRun(SubSeq(marks(s), 1, Len(s)))

longestValidParentheses(s) == longestRun(marks(s))

Count(t, c) == Cardinality({i \in DOMAIN t : t[i] = c})
Balanced(t) ==
    /\ Count(t, "(") = Count(t, ")")
    /\ \A k \in 1..Len(t) : Count(SubSeq(t, 1, k), "(") >= Count(SubSeq(t, 1, k), ")")
LongestBalanced(s) ==
    Max({0} \cup {b - a + 1 : <<a, b>> \in {x \in (DOMAIN s) \X (DOMAIN s) :
                                  x[1] < x[2] /\ Balanced(SubSeq(s, x[1], x[2]))}})

(***************************************************************************)
(* 214.cpp: i is twice the axis of the longest palindrome s starts with.   *)
(* On a mismatch at j it moves on to the next axis that can repair it.     *)
(***************************************************************************)
axis(s) ==
    LET f[i \in -1..Len(s)] ==
            IF i <= 0 THEN i
            ELSE LET bad == {j \in 0..((i - 1) \div 2) : s[j + 1] # s[i - j + 1]}
                     j   == Max(bad)
                     k   == Max({-1} \cup {x \in 0..(j - 1) : s[x + 1] = s[i - j + 1]})
                 IN  IF bad = {} THEN i ELSE f[i - j + k]
    IN  f[Len(s) - 1]

complete(s, c) ==
    IF Len(s) <= 1 \/ c < 0 \/ c > Len(s) - 1 THEN s
    ELSE Reverse(SubSeq(s, c + 2, Len(s))) \o s

shortestPalindrome(s) == complete(s, axis(s))

Palindrome(t) == t = Reverse(t)
ShortestInFront(s) ==   \* the shortest palindrome that s ends
    LET k == Max({n \in 0..Len(s) : Palindrome(SubSeq(s, 1, n))})
    IN  Reverse(SubSeq(s, k + 1, Len(s))) \o s

(***************************************************************************)
(* 44-2.cpp: the pattern is cut at its stars, the pieces before the first  *)
(* and after the last star are matched at the ends, the others greedily.   *)
(***************************************************************************)
Star == <<"*">>

stringSplit(p) ==
    LET f[i \in 0..Len(p)] ==
            IF i = 0 THEN <<>>
            ELSE LET ps == f[i - 1]
                 IN  IF p[i] = "*" \/ ps = <<>> \/ Last(ps) = Star THEN Append(ps, <<p[i]>>)
                     ELSE [ps EXCEPT ![Len(ps)] = Append(@, p[i])]
    IN  f[Len(p)]

match_exact(s, i, p) ==
    IF Len(s) >= i + Len(p) /\ \A j \in DOMAIN p : p[j] = "?" \/ p[j] = s[i + j]
    THEN i + Len(p) ELSE npos

match(s, i, p) ==
    LET at == {k \in i..(Len(s) - Len(p)) : match_exact(s, k, p) # npos}
    IN  IF at = {} THEN npos ELSE Min(at) + Len(p)

RECURSIVE stripleft(_, _), stripright(_, _), matchAll(_, _, _)

Stripped(ok, s, ps) == [ok |-> ok, s |-> s, ps |-> ps]

stripleft(s, ps) ==
    IF ps = <<>> THEN Stripped(s = <<>>, s, ps)
    ELSE IF Head(ps) = Star THEN Stripped(TRUE, s, ps)
    ELSE IF match_exact(s, 0, Head(ps)) = npos THEN Stripped(FALSE, s, ps)
    ELSE stripleft(SubSeq(s, Len(Head(ps)) + 1, Len(s)), Tail(ps))

stripright(s, ps) ==
    IF ps = <<>> THEN Stripped(s = <<>>, s, ps)
    ELSE LET back == Last(ps)
             rest == Len(s) - Len(back)
         IN  IF back = Star THEN Stripped(TRUE, s, ps)
             ELSE IF rest < 0 THEN Stripped(FALSE, s, ps)
             ELSE IF match_exact(SubSeq(s, rest + 1, Len(s)), 0, back) = npos
                  THEN Stripped(FALSE, s, ps)
             ELSE stripright(SubSeq(s, 1, rest), Front(ps))

matchAll(s, i, ps) ==
    IF ps = <<>> THEN TRUE
    ELSE IF Head(ps) = Star THEN matchAll(s, i, Tail(ps))
    ELSE /\ i + Len(Head(ps)) <= Len(s)
         /\ match(s, i, Head(ps)) # npos
         /\ matchAll(s, match(s, i, Head(ps)), Tail(ps))

isMatch(s, p) ==
    LET l == stripleft(s, stringSplit(p))
        r == stripright(l.s, l.ps)
    IN  l.ok /\ r.ok /\ matchAll(r.s, 0, r.ps)

RECURSIVE Matches(_, _)
Matches(s, p) ==    \* the meaning of ? and *
    IF p = <<>> THEN s = <<>>
    ELSE IF Head(p) = "*" THEN \E k \in 0..Len(s) : Matches(SubSeq(s, k + 1, Len(s)), Tail(p))
    ELSE s # <<>> /\ Head(p) \in {"?", Head(s)} /\ Matches(Tail(s), Tail(p))

(***************************************************************************)
(* 30.cpp: status_ remembers for each position which word starts there, -2 *)
(* for not known yet and -1 for none; the words still to be found are a    *)
(* multiset of word numbers.                                               *)
(***************************************************************************)
SizeRange == 2^16   \* stands for 2^64, the range of size_t

RECURSIVE find(_, _, _, _, _)

\* search and the find that calls it, for the words of one length at position j.
find(s, words, j, left, status) ==
    LET len  == Len(words[1])
        at   == SubSeq(s, j + 1, Min({j + len, Len(s)}))
        word == IF status[j + 1] # -2 THEN status[j + 1]
                ELSE IF Contains(words, at) THEN CHOOSE w \in DOMAIN words : words[w] = at
                ELSE -1
        seen == [status EXCEPT ![j + 1] = word]
    IN  IF \A w \in DOMAIN words : left[w] = 0 THEN [ok |-> TRUE, status |-> status]
        ELSE IF j >= Len(s) THEN [ok |-> FALSE, status |-> status]
        ELSE IF word = -1 THEN [ok |-> FALSE, status |-> seen]
        ELSE IF left[word] = 0 THEN [ok |-> FALSE, status |-> seen]
        ELSE find(s, words, j + len, [left EXCEPT ![word] = @ - 1], seen)

\* Every occurrence pos of every word w, in the order of the two loops.  The
\* last place a match can start at is computed without a sign.  status_ is a
\* member: resize keeps what an earlier call of the object has put there.
searchWords(s, wordlist, status_) ==
    LET words  == SetToSeq(ToSet(wordlist))
        len    == Len(words[1])
        all    == [w \in DOMAIN words |-> Count(wordlist, words[w])]
        last   == (Len(s) - Len(wordlist) * len) % SizeRange
        starts == {x \in (DOMAIN words) \X (0..(Len(s) - len)) :
                       /\ x[2] <= last
                       /\ SubSeq(s, x[2] + 1, x[2] + len) = words[x[1]]}
        order  == FlattenSeq([w \in DOMAIN words |->
                      SelectSeq([k \in DOMAIN s |-> <<w, k - 1>>], LAMBDA x : x \in starts)])
        f[n \in 0..Len(order)] ==
            IF n = 0 THEN [status |-> [i \in DOMAIN s |-> IF i \in DOMAIN status_
                                                        THEN status_[i] ELSE -2],
                           result |-> <<>>]
            ELSE LET acc == f[n - 1]
                     w   == order[n][1]
                     pos == order[n][2]
                     r   == find(s, words, pos + len, [all EXCEPT ![w] = @ - 1],
                                 [acc.status EXCEPT ![pos + 1] = w])
                 IN  [status |-> r.status,
                      result |-> IF r.ok THEN Append(acc.result, pos) ELSE acc.result]
    IN  f[Len(order)]

findSubstring(s, wordlist, status_) ==
    IF wordlist = <<>> THEN [status |-> status_, result |-> <<>>]
    ELSE searchWords(s, wordlist, status_)

\* On a new object, and after another call of the same object.
findFirst(s, wordlist) == findSubstring(s, wordlist, <<>>).result
findAgain(s, wordlist, s2, wordlist2) ==
    findSubstring(s2, wordlist2, findSubstring(s, wordlist, <<>>).status).result

Concatenations(s, wordlist) ==
    LET n == Len(wordlist)
        total == n * Len(wordlist[1])
    IN  IF wordlist = <<>> THEN {}
        ELSE {i \in 0..(Len(s) - total) :
            \E f \in Permutations(DOMAIN wordlist) :
                SubSeq(s, i + 1, i + total) = FlattenSeq([k \in 1..n |-> wordlist[f[k]]])}
=============================================================================
