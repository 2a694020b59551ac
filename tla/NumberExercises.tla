--------------------------- MODULE NumberExercises ---------------------------
(***************************************************************************)
(* The functions on numbers of c++/leetcode, each followed by the          *)
(* definition it is compared with.                                         *)
(***************************************************************************)
EXTENDS Integers, SequencesExt, FiniteSetsExt

(***************************************************************************)
(* 41.cpp on a new object: v has nums.size() + 1 elements, all false.      *)
(***************************************************************************)
firstMissingPositive(nums) ==
    LET size == Len(nums) + 1
        v    == [i \in 0..(size - 1) |-> i > 0 /\ Contains(nums, i)]
        free == {i \in 1..(size - 1) : ~v[i]}
    IN  IF free = {} THEN size ELSE Min(free)

LeastMissing(nums) == CHOOSE m \in 1..(Len(nums) + 1) :
                          /\ m \notin ToSet(nums)
                          /\ \A k \in 1..(m - 1) : k \in ToSet(nums)

(***************************************************************************)
(* 42.cpp and 42-2.cpp: two indices move towards each other, the lower     *)
(* side first, and val is the level the water stands at.  42.cpp sums up   *)
(* when they have met, 42-2.cpp as it goes.                                *)
(***************************************************************************)
RECURSIVE levels(_, _, _, _), trapFrom(_, _, _, _)

levels(height, i, j, val) ==    \* the h of 42.cpp, as a set of pairs
    IF i > j THEN {}
    ELSE LET left == height[i] <= height[j]
             k    == IF left THEN i ELSE j
             new  == Max({val, height[k]})
         IN  {<<k, new>>} \cup (IF left THEN levels(height, i + 1, j, new)
                                        ELSE levels(height, i, j - 1, new))

trap(height) == MapThenSumSet(LAMBDA x : x[2] - height[x[1]], levels(height, 1, Len(height), 0))

trapFrom(height, i, j, val) ==
    IF i > j THEN 0
    ELSE IF height[i] <= height[j]
         THEN Max({val, height[i]}) - height[i] + trapFrom(height, i + 1, j, Max({val, height[i]}))
         ELSE Max({val, height[j]}) - height[j] + trapFrom(height, i, j - 1, Max({val, height[j]}))

trap2(height) == trapFrom(height, 1, Len(height), 0)

Water(height) ==    \* over each bar as much as the lower of the highest at its sides
    MapThenSumSet(LAMBDA k :
        Min({Max({height[x] : x \in 1..k}), Max({height[x] : x \in k..Len(height)})}) - height[k],
        DOMAIN height)

(***************************************************************************)
(* 60.cpp: the k-th permutation of 1..n.                                   *)
(***************************************************************************)
fac(x) == ProductSet(1..x)

RECURSIVE solve(_, _)
solve(v, k) ==
    IF v = <<>> THEN <<>>
    ELSE LET f == fac(Len(v) - 1)
             i == (k - 1) \div f
         IN  <<v[i + 1]>> \o solve(RemoveAt(v, i + 1), k - i * f)

getPermutation(n, k) == solve([i \in 1..n |-> i], k)

LexLess(a, b) ==
    \E i \in DOMAIN a : a[i] < b[i] /\ \A j \in 1..(i - 1) : a[j] = b[j]
Rank(n, a) == 1 + Cardinality({b \in Permutations(1..n) : LexLess(b, a)})

(***************************************************************************)
(* 546-2.cpp: dp[l][r] is the best score of the boxes l..r and how many    *)
(* boxes of the colour of l its last removal takes; a score replaces       *)
(* another only if it is higher (updatedp).  The splits i are tried in     *)
(* order, all but the last one within a run of one colour left out.        *)
(***************************************************************************)
updatedp(d, score, same) == IF score <= d.score THEN d ELSE [score |-> score, same |-> same]

removeBoxes(box) ==
    LET None == [score |-> 0, same |-> 0]
        dp[x \in (DOMAIN box) \X (DOMAIN box)] ==
            LET l == x[1]
                r == x[2]
                best[i \in (l - 1)..(r - 1)] ==
                    IF i < l THEN None
                    ELSE LET d == best[i - 1]
                             a == dp[<<l, i>>]
                             b == dp[<<i + 1, r>>]
                             e == updatedp(d, a.score + b.score, a.same)
                         IN  IF box[i] = box[i + 1] /\ i # r - 1 THEN d
                             ELSE IF box[l] # box[i + 1] THEN e
                             ELSE updatedp(e, a.score + b.score + 2 * a.same * b.same,
                                           a.same + b.same)
            IN  IF l = r THEN updatedp(None, 1, 1) ELSE best[r - 1]
    IN  IF box = <<>> THEN 0 ELSE dp[<<1, Len(box)>>].score

RECURSIVE BestScore(_)
BestScore(box) ==   \* every order of removing stretches of one colour
    Max({0} \cup {(x[2] - x[1] + 1) * (x[2] - x[1] + 1)
                    + BestScore(SubSeq(box, 1, x[1] - 1) \o SubSeq(box, x[2] + 1, Len(box))) :
                  x \in {y \in (DOMAIN box) \X (DOMAIN box) :
                            y[1] <= y[2] /\ \A k \in y[1]..y[2] : box[k] = box[y[1]]}})

RECURSIVE ScoreByRuns(_)
ScoreByRuns(box) ==   \* the orders that remove whole runs: fewer, for longer inputs
    Max({0} \cup {(x[2] - x[1] + 1) * (x[2] - x[1] + 1)
                    + ScoreByRuns(SubSeq(box, 1, x[1] - 1) \o SubSeq(box, x[2] + 1, Len(box))) :
                  x \in {y \in (DOMAIN box) \X (DOMAIN box) :
                            /\ y[1] <= y[2] /\ \A k \in y[1]..y[2] : box[k] = box[y[1]]
                            /\ y[1] > 1 => box[y[1] - 1] # box[y[1]]
                            /\ y[2] < Len(box) => box[y[2] + 1] # box[y[2]]}})
=============================================================================
