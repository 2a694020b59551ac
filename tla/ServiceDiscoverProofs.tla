------------------------ MODULE ServiceDiscoverProofs ------------------------
(***************************************************************************)
(* PairsMeet and EntriesAreBounded of ServiceDiscover for any number of     *)
(* publishers and subscribers, of starts and of losses.                     *)
(*                                                                         *)
(* PairsMeet is inductive once the types are known: a pair comes up by the  *)
(* announcement of one of the two, which finds the other in the group       *)
(* because it joined before it announced, and every later step on the pair  *)
(* turns one kind of evidence into the next: a copy for the subscriber into *)
(* one for the publisher, and that into an entry of subs_.                  *)
(*                                                                         *)
(* EntriesAreBounded compares sums over the publishers, and needs to count  *)
(* the announcements that are still owed (Due).                             *)
(***************************************************************************)
EXTENDS ServiceDiscover, FiniteSetTheorems, WellFoundedInduction, TLAPS

Types ==
    /\ pub \in [Pubs -> {"down", "joined", "up"}]
    /\ sub \in [Subs -> {"down", "joined", "up", "stopped"}]
    /\ subs \in [Pubs -> [Subs -> Nat]]
    /\ toPub \in [Pubs -> [Subs -> Nat]]
    /\ toSub \in [Subs -> [Pubs -> Nat]]
    /\ starts \in [Pubs -> Nat]
    /\ lost \in SUBSET (Pubs \X Subs)

(* What the pair p, s has of each other, next to the types.                  *)
Evidence(p, s) == subs[p][s] + toPub[p][s] + toSub[s][p] > 0

(* The counters keep their types: no datagram is taken that is not there     *)
(* (discover_read_cb runs once per datagram, service_discover.hpp).          *)
LEMMA TypesInvariant == Spec => []Types
<1>1. Init => Types
  BY DEF Init, Types, Nobody
<1>2. Types /\ [Next]_vars => Types'
  <2> SUFFICES ASSUME Types, [Next]_vars PROVE Types'
    OBVIOUS
  <2> USE DEF Types
  <2>1. ASSUME NEW p \in Pubs, PubJoin(p) PROVE Types'
    BY <2>1 DEF PubJoin
  <2>2. ASSUME NEW p \in Pubs, PubAnnounce(p) PROVE Types'
    BY <2>2 DEF PubAnnounce, SendPub
  <2>3. ASSUME NEW p \in Pubs, PubHears(p) PROVE Types'
    BY <2>3 DEF PubHears
  <2>4. ASSUME NEW p \in Pubs, PubStop(p) PROVE Types'
    BY <2>4 DEF PubStop, Nobody
  <2>5. ASSUME NEW s \in Subs, SubJoin(s) PROVE Types'
    BY <2>5 DEF SubJoin
  <2>6. ASSUME NEW s \in Subs, SubAnnounce(s) PROVE Types'
    BY <2>6 DEF SubAnnounce, SendSub
  <2>7. ASSUME NEW s \in Subs, SubHears(s) PROVE Types'
    BY <2>7 DEF SubHears, SendSub
  <2>8. ASSUME NEW s \in Subs, SubStop(s) PROVE Types'
    BY <2>8 DEF SubStop
  <2>9. CASE Lose
    <3> PICK p \in Pubs, s \in Subs :
               /\ \/ /\ toPub[p][s] > 0 /\ UNCHANGED toSub
                     /\ toPub' = [toPub EXCEPT ![p][s] = @ - 1]
                  \/ /\ toSub[s][p] > 0 /\ UNCHANGED toPub
                     /\ toSub' = [toSub EXCEPT ![s][p] = @ - 1]
               /\ lost' = lost \cup {<<p, s>>}
               /\ UNCHANGED <<pub, sub, subs, starts>>
      BY <2>9 DEF Lose
    <3>1. lost' \in SUBSET (Pubs \X Subs)
      OBVIOUS
    <3>2. toPub' \in [Pubs -> [Subs -> Nat]] /\ toSub' \in [Subs -> [Pubs -> Nat]]
      <4>1. CASE /\ toPub[p][s] > 0 /\ UNCHANGED toSub
                 /\ toPub' = [toPub EXCEPT ![p][s] = @ - 1]
        BY <4>1
      <4>2. CASE /\ toSub[s][p] > 0 /\ UNCHANGED toPub
                 /\ toSub' = [toSub EXCEPT ![s][p] = @ - 1]
        BY <4>2
      <4> QED
        BY <4>1, <4>2
    <3> QED
      BY <3>1, <3>2
  <2>10. CASE UNCHANGED vars
    BY <2>10 DEF vars
  <2> QED
    BY <2>1, <2>2, <2>3, <2>4, <2>5, <2>6, <2>7, <2>8, <2>9, <2>10 DEF Next
<1> QED
  BY <1>1, <1>2, PTL DEF Spec

(* However the constructors of a publisher and a subscriber cross            *)
(* (message.hpp:72-75 and 239-248), the two have met or will meet without    *)
(* further help, unless one of their own copies is lost: for any number of   *)
(* objects, starts and losses.                                               *)
THEOREM PairsAlwaysMeet == Spec => []PairsMeet
<1>1. Init => PairsMeet
  BY DEF Init, PairsMeet, Meet
<1>2. Types /\ Types' /\ PairsMeet /\ [Next]_vars => PairsMeet'
  <2> SUFFICES ASSUME Types, Types', PairsMeet, [Next]_vars,
                      NEW p \in Pubs, NEW s \in Subs,
                      Meet(p, s)', <<p, s>> \notin lost'
               PROVE  Evidence(p, s)'
    BY DEF PairsMeet, Evidence
  <2>0. /\ subs[p][s] \in Nat /\ toPub[p][s] \in Nat /\ toSub[s][p] \in Nat
        /\ subs'[p][s] \in Nat /\ toPub'[p][s] \in Nat /\ toSub'[s][p] \in Nat
    BY DEF Types
  <2>H. Meet(p, s) /\ <<p, s>> \notin lost => Evidence(p, s)
    BY DEF PairsMeet, Evidence
  <2>1. ASSUME NEW q \in Pubs, PubJoin(q) PROVE Evidence(p, s)'
    BY <2>1, <2>0, <2>H DEF PubJoin, Meet, Types, Evidence
  <2>2. ASSUME NEW q \in Pubs, PubAnnounce(q) PROVE Evidence(p, s)'
    <3>1. CASE q = p
      <4>1. toSub'[s][p] = toSub[s][p] + 1
        BY <2>2, <3>1 DEF PubAnnounce, SendPub, Meet, Types
      <4> QED
        BY <4>1, <2>0 DEF Evidence
    <3>2. CASE q # p
      <4>1. toSub'[s][p] = toSub[s][p] /\ Meet(p, s)
        BY <2>2, <3>2 DEF PubAnnounce, SendPub, Meet, Types
      <4> QED
        BY <2>2, <4>1, <2>0, <2>H DEF PubAnnounce, Evidence
    <3> QED
      BY <3>1, <3>2
  <2>3. ASSUME NEW q \in Pubs, PubHears(q) PROVE Evidence(p, s)'
    <3> PICK r \in Subs : /\ toPub[q][r] > 0
                          /\ toPub' = [toPub EXCEPT ![q][r] = @ - 1]
                          /\ subs' = [subs EXCEPT ![q][r] = @ + 1]
      BY <2>3 DEF PubHears
    <3>1. Evidence(p, s)
      BY <2>3, <2>H DEF PubHears, Meet
    <3>2. CASE q = p /\ r = s
      BY <3>2, <2>0 DEF Evidence, Types
    <3>3. CASE ~(q = p /\ r = s)
      BY <2>3, <3>1, <3>3 DEF PubHears, Evidence, Types
    <3> QED
      BY <3>2, <3>3
  <2>4. ASSUME NEW q \in Pubs, PubStop(q) PROVE Evidence(p, s)'
    <3>1. q # p
      BY <2>4 DEF PubStop, Meet, Types
    <3>2. Meet(p, s) /\ <<p, s>> \notin lost
      BY <2>4, <3>1 DEF PubStop, Meet, Types
    <3> QED
      BY <2>4, <3>1, <3>2, <2>H DEF PubStop, Evidence, Types
  <2>5. ASSUME NEW r \in Subs, SubJoin(r) PROVE Evidence(p, s)'
    BY <2>5, <2>0, <2>H DEF SubJoin, Meet, Types, Evidence
  <2>6. ASSUME NEW r \in Subs, SubAnnounce(r) PROVE Evidence(p, s)'
    <3>1. CASE r = s
      <4>1. toPub'[p][s] = toPub[p][s] + 1
        BY <2>6, <3>1 DEF SubAnnounce, SendSub, Meet, Types
      <4> QED
        BY <4>1, <2>0 DEF Evidence
    <3>2. CASE r # s
      <4>1. toPub'[p][s] = toPub[p][s] /\ Meet(p, s)
        BY <2>6, <3>2 DEF SubAnnounce, SendSub, Meet, Types
      <4> QED
        BY <2>6, <4>1, <2>0, <2>H DEF SubAnnounce, Evidence
    <3> QED
      BY <3>1, <3>2
  <2>7. ASSUME NEW r \in Subs, SubHears(r) PROVE Evidence(p, s)'
    <3>1. Evidence(p, s)
      BY <2>7, <2>H DEF SubHears, Meet
    <3>2. CASE r = s
      <4>1. toPub'[p][s] = toPub[p][s] + 1
        BY <2>7, <3>2 DEF SubHears, SendSub, Meet, Types
      <4> QED
        BY <4>1, <2>0 DEF Evidence
    <3>3. CASE r # s
      <4>1. toPub'[p][s] = toPub[p][s] /\ toSub'[s][p] = toSub[s][p]
        BY <2>7, <3>3 DEF SubHears, SendSub, Types
      <4> QED
        BY <2>7, <4>1, <3>1 DEF SubHears, Evidence
    <3> QED
      BY <3>2, <3>3
  <2>8. ASSUME NEW r \in Subs, SubStop(r) PROVE Evidence(p, s)'
    <3>1. r # s
      BY <2>8 DEF SubStop, Meet, Types
    <3> QED
      BY <2>8, <3>1, <2>H DEF SubStop, Meet, Evidence, Types
  <2>9. CASE Lose
    <3> PICK q \in Pubs, r \in Subs :
               /\ \/ toPub' = [toPub EXCEPT ![q][r] = @ - 1] /\ UNCHANGED toSub
                  \/ toSub' = [toSub EXCEPT ![r][q] = @ - 1] /\ UNCHANGED toPub
               /\ lost' = lost \cup {<<q, r>>}
      BY <2>9 DEF Lose
    <3>1. ~(q = p /\ r = s) /\ <<p, s>> \notin lost
      OBVIOUS
    <3>2. Evidence(p, s)
      BY <2>9, <3>1, <2>H DEF Lose, Meet
    <3>3. toPub'[p][s] = toPub[p][s] /\ toSub'[s][p] = toSub[s][p]
      BY <3>1 DEF Types
    <3> QED
      BY <2>9, <3>2, <3>3 DEF Lose, Evidence
  <2>10. CASE UNCHANGED vars
    BY <2>10, <2>H DEF vars, Meet, Evidence
  <2> QED
    BY <2>1, <2>2, <2>3, <2>4, <2>5, <2>6, <2>7, <2>8, <2>9, <2>10 DEF Next
<1> QED
  BY <1>1, <1>2, TypesInvariant, PTL DEF Spec
-----------------------------------------------------------------------------
(* Sums.  Total folds over a set in the order of a CHOOSE, as a recursive     *)
(* function on the subsets of that set.  What it computes is shown without an *)
(* induction rule: a set of subsets for which it would be wrong has a         *)
(* smallest member, and there it is right.                                   *)
Pick(s) == CHOOSE x \in s : TRUE
IsSum(f, S, g) ==
    g = [s \in SUBSET S |-> IF s = {} THEN 0 ELSE f[Pick(s)] + g[s \ {Pick(s)}]]
Sums(f, S) == CHOOSE g : IsSum(f, S, g)

(* A smallest set among subsets of a finite one. *)
LEMMA SmallestSet ==
    ASSUME NEW S, IsFiniteSet(S), NEW Bad \in SUBSET (SUBSET S), Bad # {}
    PROVE  \E U \in Bad : \A V \in Bad : V \subseteq U => V = U
<1>1. Bad \subseteq FiniteSubsetsOf(S)
  BY FS_Subset DEF FiniteSubsetsOf
<1>2. IsWellFoundedOn(StrictSubsetOrdering(S), FiniteSubsetsOf(S))
  BY FS_StrictSubsetOrderingWellFounded
<1>3. PICK U \in Bad : \A V \in Bad : <<V, U>> \notin StrictSubsetOrdering(S)
  BY <1>1, <1>2, WFMin
<1>4. ASSUME NEW V \in Bad, V \subseteq U, V # U PROVE FALSE
  BY <1>3, <1>4 DEF StrictSubsetOrdering
<1> QED
  BY <1>4

(* What CHOOSE takes out of a set makes it smaller.                          *)
LEMMA PickFacts ==
    ASSUME NEW s, s # {}
    PROVE  Pick(s) \in s /\ s \ {Pick(s)} \subseteq s /\ s \ {Pick(s)} # s
  BY DEF Pick

(* Such a function at one set.                                               *)
LEMMA SumAt ==
    ASSUME NEW f, NEW S, NEW g, IsSum(f, S, g), NEW s \in SUBSET S
    PROVE  g[s] = IF s = {} THEN 0 ELSE f[Pick(s)] + g[s \ {Pick(s)}]
<1> DEFINE body(r) == IF r = {} THEN 0 ELSE f[Pick(r)] + g[r \ {Pick(r)}]
<1>1. g = [r \in SUBSET S |-> body(r)]
  BY DEF IsSum
<1> HIDE DEF body
<1>2. g[s] = body(s)
  BY <1>1
<1> QED
  BY <1>2 DEF body

(* Two such functions agree where both are defined. *)
LEMMA SumsAgree ==
    ASSUME NEW f, NEW S, IsFiniteSet(S), NEW T \in SUBSET S, NEW g, NEW h,
           IsSum(f, S, g), IsSum(f, T, h)
    PROVE  \A s \in SUBSET T : g[s] = h[s]
<1> DEFINE Bad == {s \in SUBSET T : g[s] # h[s]}
<1> SUFFICES ASSUME Bad # {} PROVE FALSE
  OBVIOUS
<1>1. Bad \in SUBSET (SUBSET S)
  OBVIOUS
<1>2. PICK U \in Bad : \A V \in Bad : V \subseteq U => V = U
  <2> HIDE DEF Bad
  <2> QED
    BY <1>1, SmallestSet
<1>3. U \in SUBSET T /\ U \in SUBSET S /\ g[U] # h[U]
  BY <1>2
<1>4. /\ g[U] = IF U = {} THEN 0 ELSE f[Pick(U)] + g[U \ {Pick(U)}]
      /\ h[U] = IF U = {} THEN 0 ELSE f[Pick(U)] + h[U \ {Pick(U)}]
  <2>1. g[U] = IF U = {} THEN 0 ELSE f[Pick(U)] + g[U \ {Pick(U)}]
    BY <1>3, SumAt
  <2>2. h[U] = IF U = {} THEN 0 ELSE f[Pick(U)] + h[U \ {Pick(U)}]
    BY <1>3, SumAt
  <2> QED
    BY <2>1, <2>2
<1>5. U # {}
  BY <1>3, <1>4
<1>6. U \ {Pick(U)} \in SUBSET T /\ U \ {Pick(U)} \subseteq U /\ U \ {Pick(U)} # U
  BY <1>3, <1>5, PickFacts
<1>7. g[U \ {Pick(U)}] = h[U \ {Pick(U)}]
  BY <1>2, <1>6
<1> QED
  BY <1>3, <1>4, <1>5, <1>7

(* There is one for every finite set: beyond the smallest set without one,    *)
(* the values of the smaller sets would make one.                            *)
LEMMA SumExists ==
    ASSUME NEW f, NEW S, IsFiniteSet(S)
    PROVE  \E g : IsSum(f, S, g)
<1> DEFINE Bad == {s \in SUBSET S : ~ \E g : IsSum(f, s, g)}
<1> SUFFICES ASSUME S \in Bad PROVE FALSE
  OBVIOUS
<1>1. Bad \in SUBSET (SUBSET S) /\ Bad # {}
  OBVIOUS
<1>2. PICK U \in Bad : \A V \in Bad : V \subseteq U => V = U
  <2> HIDE DEF Bad
  <2> QED
    BY <1>1, SmallestSet
<1>3. U \in SUBSET S /\ ~ \E g : IsSum(f, U, g)
  BY <1>2
<1> DEFINE Val(s) == Sums(f, s)[s]
           body(s) == IF s = {} THEN 0 ELSE f[Pick(s)] + Val(s \ {Pick(s)})
           G == [s \in SUBSET U |-> body(s)]
<1>4. ASSUME NEW s \in SUBSET U, s # U PROVE IsSum(f, s, Sums(f, s)) /\ IsFiniteSet(s)
  <2>1. s \in SUBSET S /\ s \notin Bad
    BY <1>2, <1>3, <1>4
  <2>2. \E g : IsSum(f, s, g)
    BY <2>1
  <2>3. IsFiniteSet(s)
    BY <2>1, FS_Subset
  <2> QED
    BY <2>2, <2>3 DEF Sums
<1> HIDE DEF Bad
<1>5. ASSUME NEW s \in SUBSET U, s # U PROVE Val(s) = body(s)
  <2>1. /\ IsSum(f, s, Sums(f, s)) /\ IsFiniteSet(s) /\ s \in SUBSET s
    BY <1>4, <1>5
  <2>2. Sums(f, s)[s] = IF s = {} THEN 0 ELSE f[Pick(s)] + Sums(f, s)[s \ {Pick(s)}]
    BY <2>1, SumAt
  <2>3. CASE s = {}
    BY <2>2, <2>3
  <2>4. CASE s # {}
    <3> DEFINE r == s \ {Pick(s)}
    <3>1. r \in SUBSET s /\ r \in SUBSET U /\ r # U
      BY <1>5, <2>4, PickFacts
    <3>2. IsSum(f, r, Sums(f, r))
      BY <1>4, <3>1
    <3> HIDE DEF r
    <3>3. \A q \in SUBSET r : Sums(f, s)[q] = Sums(f, r)[q]
      BY <2>1, <3>1, <3>2, SumsAgree
    <3>4. Sums(f, s)[r] = Val(r)
      BY <3>3
    <3> QED
      BY <2>2, <2>4, <3>4 DEF r
  <2> QED
    BY <2>3, <2>4
<1>6. ASSUME NEW s \in SUBSET U
      PROVE  body(s) = IF s = {} THEN 0 ELSE f[Pick(s)] + G[s \ {Pick(s)}]
  <2>1. CASE s = {}
    BY <2>1
  <2>2. CASE s # {}
    <3> DEFINE r == s \ {Pick(s)}
    <3>1. r \in SUBSET U /\ r # U
      BY <1>6, <2>2, PickFacts
    <3>2. G[r] = body(r)
      <4> HIDE DEF body, r
      <4> QED
        BY <3>1
    <3>3. Val(r) = body(r)
      <4> HIDE DEF body, r, Val
      <4> QED
        BY <1>5, <3>1
    <3>4. body(s) = f[Pick(s)] + Val(r)
      BY <2>2
    <3> HIDE DEF body, r, Val, G
    <3> QED
      BY <2>2, <3>2, <3>3, <3>4 DEF r
  <2> QED
    BY <2>1, <2>2
<1>7. G = [s \in SUBSET U |-> IF s = {} THEN 0 ELSE f[Pick(s)] + G[s \ {Pick(s)}]]
  <2>1. G = [s \in SUBSET U |-> body(s)]
    OBVIOUS
  <2> HIDE DEF G, body
  <2> QED
    BY <1>6, <2>1
<1> HIDE DEF G
<1>8. IsSum(f, U, G)
  BY <1>7 DEF IsSum
<1> QED
  BY <1>3, <1>8

(* Total is the value of such a function. *)
LEMMA TotalIs ==
    ASSUME NEW D, IsFiniteSet(D), NEW f \in [D -> Nat]
    PROVE  Total(f) = Sums(f, D)[D] /\ IsSum(f, D, Sums(f, D))
<1>1. DOMAIN f = D
  OBVIOUS
<1>2. Total(f) = (CHOOSE g : IsSum(f, DOMAIN f, g))[DOMAIN f]
  BY Zenon DEF Total, FoldFunction, FoldFunctionOnSet, MapThenFoldSet, IsSum, Pick
<1>3. \E g : IsSum(f, D, g)
  BY SumExists
<1> QED
  BY <1>1, <1>2, <1>3 DEF Sums

(* What such a function adds up. *)
Adds(g, f, s) ==
    /\ s = {} => g[s] = 0
    /\ s # {} => g[s] = f[Pick(s)] + g[s \ {Pick(s)}]

(* The same in a form without a conditional.                                 *)
LEMMA SumAdds ==
    ASSUME NEW f, NEW S, NEW g, IsSum(f, S, g), NEW s \in SUBSET S
    PROVE  Adds(g, f, s)
<1>1. g[s] = IF s = {} THEN 0 ELSE f[Pick(s)] + g[s \ {Pick(s)}]
  BY SumAt
<1> QED
  BY <1>1 DEF Adds

(* Sums of natural numbers are natural, and the larger addends have the       *)
(* larger sum.                                                               *)
LEMMA TotalMono ==
    ASSUME NEW D, IsFiniteSet(D), NEW f \in [D -> Nat], NEW h \in [D -> Nat],
           \A x \in D : f[x] <= h[x]
    PROVE  Total(f) \in Nat /\ Total(h) \in Nat /\ Total(f) <= Total(h)
<1> DEFINE F == Sums(f, D)
           H == Sums(h, D)
           Good(s) == F[s] \in Nat /\ H[s] \in Nat /\ F[s] <= H[s]
           Bad == {s \in SUBSET D : ~Good(s)}
<1>1. Total(f) = F[D] /\ IsSum(f, D, F) /\ Total(h) = H[D] /\ IsSum(h, D, H)
  BY TotalIs
<1> HIDE DEF F, H
<1>2. Bad = {}
  <2> SUFFICES ASSUME Bad # {} PROVE FALSE
    OBVIOUS
  <2>1. PICK U \in Bad : \A V \in Bad : V \subseteq U => V = U
    <3>1. Bad \in SUBSET (SUBSET D)
      OBVIOUS
    <3> HIDE DEF Bad
    <3> QED
      BY <3>1, SmallestSet
  <2>2. U \in SUBSET D /\ ~Good(U)
    BY <2>1
  <2> DEFINE x == Pick(U)
             r == U \ {x}
  <2>3. Adds(F, f, U) /\ Adds(H, h, U)
    <3> HIDE DEF x, r, Bad, Good
    <3> QED
      BY <1>1, <2>2, SumAdds, Zenon
  <2>4. U # {}
    BY <2>2, <2>3 DEF Adds
  <2>5. x \in D /\ r \in SUBSET D /\ r \subseteq U /\ r # U
    BY <2>2, <2>4, PickFacts
  <2>6. Good(r)
    BY <2>1, <2>5
  <2>7. f[x] \in Nat /\ h[x] \in Nat /\ f[x] <= h[x]
    BY <2>5
  <2>H. F[U] = f[x] + F[r] /\ H[U] = h[x] + H[r]
    BY <2>3, <2>4 DEF Adds
  <2> HIDE DEF x, r, Bad
  <2> QED
    BY <2>2, <2>6, <2>7, <2>H
<1>3. Good(D)
  BY <1>2
<1> QED
  BY <1>1, <1>3

(* One more in one place is one more in the sum. *)
LEMMA TotalAdd ==
    ASSUME NEW D, IsFiniteSet(D), NEW f \in [D -> Nat], NEW p \in D,
           NEW h \in [D -> Nat], h[p] = f[p] + 1, \A x \in D \ {p} : h[x] = f[x]
    PROVE  Total(f) \in Nat /\ Total(h) = Total(f) + 1
<1> DEFINE F == Sums(f, D)
           H == Sums(h, D)
           Good(s) == F[s] \in Nat /\ H[s] = F[s] + (IF p \in s THEN 1 ELSE 0)
           Bad == {s \in SUBSET D : ~Good(s)}
<1>1. Total(f) = F[D] /\ IsSum(f, D, F) /\ Total(h) = H[D] /\ IsSum(h, D, H)
  BY TotalIs
<1> HIDE DEF F, H
<1>2. Bad = {}
  <2> SUFFICES ASSUME Bad # {} PROVE FALSE
    OBVIOUS
  <2>1. PICK U \in Bad : \A V \in Bad : V \subseteq U => V = U
    <3>1. Bad \in SUBSET (SUBSET D)
      OBVIOUS
    <3> HIDE DEF Bad
    <3> QED
      BY <3>1, SmallestSet
  <2>2. U \in SUBSET D /\ ~Good(U)
    BY <2>1
  <2> DEFINE x == Pick(U)
             r == U \ {x}
  <2>3. Adds(F, f, U) /\ Adds(H, h, U)
    <3> HIDE DEF x, r, Bad, Good
    <3> QED
      BY <1>1, <2>2, SumAdds, Zenon
  <2>4. U # {}
    BY <2>2, <2>3 DEF Adds
  <2>5. x \in D /\ x \in U /\ r \in SUBSET D /\ r \subseteq U /\ r # U
    BY <2>2, <2>4, PickFacts
  <2>6. Good(r)
    BY <2>1, <2>5
  <2>7. f[x] \in Nat /\ h[x] = f[x] + (IF x = p THEN 1 ELSE 0)
    BY <2>5
  <2>8. (p \in r) <=> (p \in U /\ p # x)
    OBVIOUS
  <2>H. F[U] = f[x] + F[r] /\ H[U] = h[x] + H[r]
    BY <2>3, <2>4 DEF Adds
  <2> HIDE DEF x, r, Bad
  <2>9. CASE x = p
    BY <2>2, <2>5, <2>6, <2>7, <2>8, <2>9, <2>H
  <2>10. CASE x # p
    BY <2>2, <2>5, <2>6, <2>7, <2>8, <2>10, <2>H
  <2> QED
    BY <2>9, <2>10
<1>3. Good(D)
  BY <1>2
<1> QED
  BY <1>1, <1>3
-----------------------------------------------------------------------------
(* EntriesAreBounded is not inductive: PubAnnounce adds a copy for every      *)
(* subscriber.  Due also counts the announcements that a publisher which has  *)
(* joined still owes, one for each construction.                             *)
Due(s) == [q \in Pubs |-> toSub[s][q] + (IF pub[q] = "joined" THEN 1 ELSE 0)]
Announced(s) == IF sub[s] \in {"down", "joined"} THEN 0 ELSE 1
Bound(p, s) == subs[p][s] + toPub[p][s] + Total(Due(s)) <= Total(starts) + Announced(s)

(* Every step keeps the bound of every pair.                                 *)
LEMMA BoundStep ==
    ASSUME Types, Types', [Next]_vars, NEW p \in Pubs, NEW s \in Subs, Bound(p, s)
    PROVE  Bound(p, s)'
<1> DEFINE D == Due(s)
           E == Due(s)'
           St == starts
           Su == starts'
<1>1. D \in [Pubs -> Nat] /\ E \in [Pubs -> Nat]
  BY DEF Due, Types
<1>2. St \in [Pubs -> Nat] /\ Su \in [Pubs -> Nat]
  BY DEF Types
<1>3. /\ \A q \in Pubs : D[q] = toSub[s][q] + (IF pub[q] = "joined" THEN 1 ELSE 0)
      /\ \A q \in Pubs : E[q] = toSub'[s][q] + (IF pub'[q] = "joined" THEN 1 ELSE 0)
  BY DEF Due
<1> HIDE DEF D, E
<1>4. Total(D) \in Nat /\ Total(E) \in Nat /\ Total(St) \in Nat /\ Total(Su) \in Nat
  <2>1. (\A q \in Pubs : D[q] <= D[q]) /\ (\A q \in Pubs : E[q] <= E[q])
    BY <1>1
  <2>2. (\A q \in Pubs : St[q] <= St[q]) /\ (\A q \in Pubs : Su[q] <= Su[q])
    BY <1>2
  <2>3. Total(D) \in Nat /\ Total(E) \in Nat
    BY <1>1, <2>1, PubsAreFinite, TotalMono
  <2>4. Total(St) \in Nat /\ Total(Su) \in Nat
    BY <1>2, <2>2, PubsAreFinite, TotalMono
  <2> QED
    BY <2>3, <2>4
<1>5. ASSUME \A q \in Pubs : E[q] <= D[q] PROVE Total(E) <= Total(D)
  BY <1>1, <1>5, PubsAreFinite, TotalMono
<1>6. ASSUME \A q \in Pubs : E[q] = D[q] PROVE Total(E) <= Total(D)
  <2>1. \A q \in Pubs : E[q] <= D[q]
    BY <1>1, <1>6
  <2> QED
    BY <1>5, <2>1
<1>7. /\ subs[p][s] \in Nat /\ toPub[p][s] \in Nat /\ subs'[p][s] \in Nat /\ toPub'[p][s] \in Nat
      /\ \A q \in Pubs : toSub[s][q] \in Nat /\ toSub'[s][q] \in Nat
  BY DEF Types
<1>8. subs[p][s] + toPub[p][s] + Total(D) <= Total(St) + Announced(s)
  BY DEF Bound, D
<1>9. Announced(s) \in {0, 1} /\ Announced(s)' \in {0, 1}
  BY DEF Announced
<1> DEFINE Goal == subs'[p][s] + toPub'[p][s] + Total(E) <= Total(Su) + Announced(s)'
<1>10. ASSUME NEW q \in Pubs, PubJoin(q) PROVE Goal
  <2>1. /\ pub[q] = "down" /\ pub' = [pub EXCEPT ![q] = "joined"]
        /\ starts' = [starts EXCEPT ![q] = @ + 1]
        /\ UNCHANGED <<sub, subs, toPub, toSub>>
    BY <1>10 DEF PubJoin
  <2>2. E[q] = D[q] + 1 /\ \A r \in Pubs \ {q} : E[r] = D[r]
    <3>1. pub'[q] = "joined" /\ \A r \in Pubs \ {q} : pub'[r] = pub[r]
      BY <2>1 DEF Types
    <3> QED
      BY <1>3, <1>7, <2>1, <3>1
  <2>3. Su[q] = St[q] + 1 /\ \A r \in Pubs \ {q} : Su[r] = St[r]
    BY <2>1 DEF Types
  <2>4. Total(E) = Total(D) + 1
    BY <1>1, <2>2, PubsAreFinite, TotalAdd
  <2>5. Total(Su) = Total(St) + 1
    BY <1>2, <2>3, PubsAreFinite, TotalAdd
  <2>6. Announced(s)' = Announced(s) /\ subs' = subs /\ toPub' = toPub
    BY <2>1 DEF Announced
  <2> HIDE DEF St, Su
  <2> QED
    BY <1>4, <1>7, <1>8, <1>9, <2>4, <2>5, <2>6
<1>11. ASSUME UNCHANGED starts, Total(E) <= Total(D), UNCHANGED <<subs, toPub>>,
              Announced(s)' >= Announced(s)
       PROVE  Goal
  <2>1. Total(Su) = Total(St)
    BY <1>11
  <2> HIDE DEF St, Su
  <2> QED
    BY <1>4, <1>7, <1>8, <1>9, <1>11, <2>1
<1>12. ASSUME NEW q \in Pubs, PubAnnounce(q) PROVE Goal
  <2>1. \A r \in Pubs : E[r] <= D[r]
    <3>1. /\ pub[q] = "joined" /\ pub'[q] = "up"
          /\ \A r \in Pubs \ {q} : pub'[r] = pub[r]
      BY <1>12 DEF PubAnnounce, Types
    <3>2. /\ toSub'[s][q] = toSub[s][q] \/ toSub'[s][q] = toSub[s][q] + 1
          /\ \A r \in Pubs \ {q} : toSub'[s][r] = toSub[s][r]
      BY <1>12 DEF PubAnnounce, SendPub, Types
    <3> QED
      BY <1>3, <1>7, <3>1, <3>2
  <2> QED
    BY <1>5, <1>9, <1>11, <1>12, <2>1 DEF PubAnnounce, Announced
<1>13. ASSUME UNCHANGED <<starts, pub, toSub>>, Announced(s)' >= Announced(s),
              subs'[p][s] + toPub'[p][s]
                <= subs[p][s] + toPub[p][s] + (Announced(s)' - Announced(s))
       PROVE  Goal
  <2>1. Total(Su) = Total(St)
    BY <1>13
  <2>2. Total(E) <= Total(D)
    BY <1>3, <1>6, <1>13
  <2> HIDE DEF St, Su
  <2> QED
    BY <1>4, <1>7, <1>8, <1>9, <1>13, <2>1, <2>2
<1>14. ASSUME NEW q \in Pubs, PubHears(q) PROVE Goal
  <2>1. PICK r \in Subs :
          /\ toPub' = [toPub EXCEPT ![q][r] = @ - 1] /\ subs' = [subs EXCEPT ![q][r] = @ + 1]
          /\ UNCHANGED <<pub, sub, toSub, starts>>
    BY <1>14 DEF PubHears
  <2>2. subs'[p][s] + toPub'[p][s] = subs[p][s] + toPub[p][s] /\ Announced(s)' = Announced(s)
    BY <1>7, <2>1 DEF Types, Announced
  <2> QED
    BY <1>7, <1>9, <1>13, <2>1, <2>2
<1>15. ASSUME NEW q \in Pubs, PubStop(q) PROVE Goal
  <2>1. /\ pub[q] = "up" /\ pub' = [pub EXCEPT ![q] = "down"]
        /\ subs' = [subs EXCEPT ![q] = Nobody] /\ toPub' = [toPub EXCEPT ![q] = Nobody]
        /\ UNCHANGED <<sub, toSub, starts>>
    BY <1>15 DEF PubStop
  <2>2. \A r \in Pubs : E[r] = D[r]
    BY <1>3, <2>1 DEF Types
  <2>3. subs'[p][s] <= subs[p][s] /\ toPub'[p][s] <= toPub[p][s]
    BY <1>7, <2>1 DEF Types, Nobody
  <2>4. Total(E) <= Total(D) /\ Total(Su) = Total(St) /\ Announced(s)' = Announced(s)
    BY <1>6, <2>1, <2>2 DEF Announced
  <2> HIDE DEF St, Su
  <2> QED
    BY <1>4, <1>7, <1>8, <1>9, <2>3, <2>4
<1>16. ASSUME NEW r \in Subs, SubJoin(r) PROVE Goal
  <2>1. Announced(s)' = Announced(s) /\ UNCHANGED <<starts, pub, toSub, subs, toPub>>
    BY <1>16 DEF SubJoin, Announced, Types
  <2> QED
    BY <1>7, <1>9, <1>13, <2>1
<1>17. ASSUME NEW r \in Subs, SubAnnounce(r) PROVE Goal
  <2>1. UNCHANGED <<starts, pub, toSub, subs>>
    BY <1>17 DEF SubAnnounce
  <2>2. CASE r = s
    <3>1. toPub'[p][s] <= toPub[p][s] + 1
      BY <1>7, <1>17, <2>2 DEF SubAnnounce, SendSub, Types
    <3>2. Announced(s)' = 1 /\ Announced(s) = 0
      BY <1>17, <2>2 DEF SubAnnounce, Announced, Types
    <3> QED
      BY <1>7, <1>13, <2>1, <3>1, <3>2
  <2>3. CASE r # s
    <3>1. toPub'[p][s] = toPub[p][s] /\ Announced(s)' = Announced(s)
      BY <1>17, <2>3 DEF SubAnnounce, SendSub, Announced, Types
    <3> QED
      BY <1>7, <1>9, <1>13, <2>1, <3>1
  <2> QED
    BY <2>2, <2>3
<1>18. ASSUME NEW r \in Subs, SubHears(r) PROVE Goal
  <2>1. PICK q \in Pubs :
          /\ toSub[r][q] > 0 /\ toSub' = [toSub EXCEPT ![r][q] = @ - 1]
          /\ SendSub(r) /\ UNCHANGED <<pub, sub, subs, starts>>
    BY <1>18 DEF SubHears
  <2>2. Announced(s)' = Announced(s) /\ Total(Su) = Total(St) /\ subs'[p][s] = subs[p][s]
    BY <2>1 DEF Announced
  <2>3. CASE r = s
    <3>1. toPub'[p][s] <= toPub[p][s] + 1
      BY <1>7, <2>1, <2>3 DEF SendSub, Types
    <3>2. toSub'[s][q] = toSub[s][q] - 1 /\ \A x \in Pubs \ {q} : toSub'[s][x] = toSub[s][x]
      BY <2>1, <2>3 DEF Types
    <3>3. D[q] = E[q] + 1 /\ \A x \in Pubs \ {q} : D[x] = E[x]
      BY <1>3, <1>7, <2>1, <3>2
    <3>4. Total(D) = Total(E) + 1
      BY <1>1, <3>3, PubsAreFinite, TotalAdd
    <3> HIDE DEF St, Su
    <3> QED
      BY <1>4, <1>7, <1>8, <1>9, <2>2, <3>1, <3>4
  <2>4. CASE r # s
    <3>1. toPub'[p][s] = toPub[p][s]
      BY <2>1, <2>4 DEF SendSub, Types
    <3>2. \A x \in Pubs : E[x] = D[x]
      BY <1>3, <2>1, <2>4 DEF Types
    <3>3. Total(E) <= Total(D)
      BY <1>6, <3>2
    <3> HIDE DEF St, Su
    <3> QED
      BY <1>4, <1>7, <1>8, <1>9, <2>2, <3>1, <3>3
  <2> QED
    BY <2>3, <2>4
<1>19. ASSUME NEW r \in Subs, SubStop(r) PROVE Goal
  <2>1. \A x \in Pubs : E[x] <= D[x]
    <3>1. UNCHANGED pub /\ \A x \in Pubs : toSub'[s][x] = toSub[s][x] \/ toSub'[s][x] = 0
      BY <1>19 DEF SubStop, Types
    <3> QED
      BY <1>3, <1>7, <3>1
  <2>2. Announced(s)' = Announced(s)
    BY <1>19 DEF SubStop, Announced, Types
  <2> QED
    BY <1>5, <1>9, <1>11, <1>19, <2>1, <2>2 DEF SubStop
<1>20. ASSUME Lose PROVE Goal
  <2>1. PICK q \in Pubs, r \in Subs :
          /\ \/ toPub[q][r] > 0 /\ toPub' = [toPub EXCEPT ![q][r] = @ - 1] /\ UNCHANGED toSub
             \/ toSub[r][q] > 0 /\ toSub' = [toSub EXCEPT ![r][q] = @ - 1] /\ UNCHANGED toPub
          /\ UNCHANGED <<pub, sub, subs, starts>>
    BY <1>20 DEF Lose
  <2>2. toPub'[p][s] <= toPub[p][s]
    <3>1. toPub'[p][s] = toPub[p][s] \/ toPub'[p][s] = toPub[p][s] - 1
      <4>1. CASE toPub' = [toPub EXCEPT ![q][r] = @ - 1] /\ UNCHANGED toSub
        BY <4>1 DEF Types
      <4>2. CASE toSub' = [toSub EXCEPT ![r][q] = @ - 1] /\ UNCHANGED toPub
        BY <4>2 DEF Types
      <4> QED
        BY <2>1, <4>1, <4>2
    <3> QED
      BY <1>7, <3>1
  <2>3. \A x \in Pubs : toSub'[s][x] <= toSub[s][x]
    <3>1. \A x \in Pubs : toSub'[s][x] = toSub[s][x] \/ toSub'[s][x] = toSub[s][x] - 1
      <4>1. CASE toPub' = [toPub EXCEPT ![q][r] = @ - 1] /\ UNCHANGED toSub
        BY <4>1 DEF Types
      <4>2. CASE toSub' = [toSub EXCEPT ![r][q] = @ - 1] /\ UNCHANGED toPub
        BY <4>2 DEF Types
      <4> QED
        BY <2>1, <4>1, <4>2
    <3> QED
      BY <1>7, <3>1
  <2>4. \A x \in Pubs : E[x] <= D[x]
    BY <1>3, <1>7, <2>1, <2>3
  <2>5. /\ Total(E) <= Total(D) /\ Total(Su) = Total(St) /\ Announced(s)' = Announced(s)
        /\ subs'[p][s] = subs[p][s]
    BY <1>5, <2>1, <2>4 DEF Announced
  <2> HIDE DEF St, Su
  <2> QED
    BY <1>4, <1>7, <1>8, <1>9, <2>2, <2>5
<1>21. ASSUME UNCHANGED vars PROVE Goal
  <2>1. Announced(s)' = Announced(s) /\ UNCHANGED <<starts, pub, toSub, subs, toPub>>
    BY <1>21 DEF vars, Announced
  <2> QED
    BY <1>7, <1>9, <1>13, <2>1
<1>22. Goal
  BY <1>10, <1>12, <1>14, <1>15, <1>16, <1>17, <1>18, <1>19, <1>20, <1>21 DEF Next
<1> QED
  BY <1>22 DEF Bound, E

(* However often publishers stop and start, whatever is lost and whichever    *)
(* order the announcements take, the entries that a publisher has of one      *)
(* subscriber, and what is under way to become one, do not outnumber the      *)
(* publishers ever constructed and one (message.hpp:69).                      *)
THEOREM EntriesStayBounded == Spec => []EntriesAreBounded
<1> DEFINE BoundInv == \A p \in Pubs, s \in Subs : Bound(p, s)
<1>1. Init => BoundInv
  <2> SUFFICES ASSUME Init, NEW p \in Pubs, NEW s \in Subs PROVE Bound(p, s)
    OBVIOUS
  <2>1. Due(s) = starts /\ starts \in [Pubs -> Nat]
    BY DEF Init, Due
  <2>2. \A q \in Pubs : starts[q] <= starts[q]
    BY <2>1
  <2>3. Total(starts) \in Nat
    BY <2>1, <2>2, PubsAreFinite, TotalMono
  <2>4. subs[p][s] = 0 /\ toPub[p][s] = 0 /\ Announced(s) = 0
    BY DEF Init, Nobody, Announced
  <2> QED
    BY <2>1, <2>3, <2>4 DEF Bound
<1>2. Types /\ Types' /\ BoundInv /\ [Next]_vars => BoundInv'
  BY BoundStep
<1>3. Types /\ BoundInv => EntriesAreBounded
  <2> SUFFICES ASSUME Types, NEW p \in Pubs, NEW s \in Subs, Bound(p, s)
               PROVE  subs[p][s] + toPub[p][s] + Total(toSub[s])
                        <= Total(starts) + Announced(s)
    BY DEF EntriesAreBounded, Announced
  <2>1. toSub[s] \in [Pubs -> Nat] /\ Due(s) \in [Pubs -> Nat] /\ starts \in [Pubs -> Nat]
    BY DEF Types, Due
  <2>2. \A q \in Pubs : toSub[s][q] <= Due(s)[q]
    BY <2>1 DEF Due
  <2>3. Total(toSub[s]) \in Nat /\ Total(Due(s)) \in Nat /\ Total(toSub[s]) <= Total(Due(s))
    BY <2>1, <2>2, PubsAreFinite, TotalMono
  <2>4. Total(starts) \in Nat
    <3>1. \A q \in Pubs : starts[q] <= starts[q]
      BY <2>1
    <3> QED
      BY <2>1, <3>1, PubsAreFinite, TotalMono
  <2>5. subs[p][s] \in Nat /\ toPub[p][s] \in Nat /\ Announced(s) \in {0, 1}
    BY DEF Types, Announced
  <2> QED
    BY <2>3, <2>4, <2>5 DEF Bound
<1> QED
  BY <1>1, <1>2, <1>3, TypesInvariant, PTL DEF Spec
=============================================================================
