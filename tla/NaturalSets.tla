---------------------------- MODULE NaturalSets ----------------------------
(***************************************************************************)
(* Sets of natural numbers: induction, stated for a set so that it can be  *)
(* cited with a set for the property, and the least and greatest elements. *)
(***************************************************************************)
EXTENDS Integers, FiniteSetsExt, WellFoundedInduction, TLAPS

(* A set that contains zero and the successor of each of its naturals has  *)
(* all of them.                                                            *)
THEOREM SetInduction ==
  ASSUME NEW S, 0 \in S, \A n \in Nat : n \in S => n + 1 \in S
  PROVE  Nat \subseteq S
<1> DEFINE Missing == Nat \ S
           Less    == OpToRel(<, Nat)
<1>1. IsWellFoundedOn(Less, Nat)
  BY NatLessThanWellFounded
<1>2. \A m, n \in Nat : m < n => <<m, n>> \in Less
  BY DEF OpToRel
<1> HIDE DEF Less
<1>3. SUFFICES ASSUME Missing # {} PROVE FALSE
  OBVIOUS
<1>4. PICK least \in Missing : \A n \in Missing : <<n, least>> \notin Less
  <2>1. Missing \subseteq Nat
    OBVIOUS
  <2> HIDE DEF Missing
  <2> QED
    BY <1>1, <1>3, <2>1, WFMin
<1>5. least \in Nat /\ least # 0 /\ least - 1 \in Nat
  OBVIOUS
<1>6. least - 1 \in Missing
  BY <1>5
<1>7. <<least - 1, least>> \in Less
  BY <1>2, <1>5
<1> QED
  BY <1>4, <1>6, <1>7

(* A set of naturals that is not empty has a least element, which Min is.  *)
LEMMA MinOfNat ==
  ASSUME NEW S, S \subseteq Nat, S # {}
  PROVE  /\ Min(S) \in S
         /\ \A n \in S : Min(S) <= n
<1> DEFINE Below == {n \in Nat : \A m \in 0 .. n : m \notin S}
<1>1. \E least \in S : \A n \in S : least <= n
  <2>1. SUFFICES ASSUME \A least \in S : \E n \in S : ~(least <= n)
                 PROVE  FALSE
    OBVIOUS
  <2>2. 0 \in Below
    BY <2>1
  <2>3. ASSUME NEW n \in Nat, n \in Below
        PROVE  n + 1 \in Below
    <3>1. \A m \in S : m > n
      BY <2>3
    <3>2. n + 1 \notin S
      BY <2>1, <3>1
    <3> QED
      BY <2>3, <3>2
  <2>4. Nat \subseteq Below
    <3> HIDE DEF Below
    <3> QED
      BY <2>2, <2>3, SetInduction
  <2>5. \A n \in Nat : n \notin S
    BY <2>4
  <2> QED
    BY <2>5
<1> QED
  BY <1>1 DEF Min

(* A bounded one has a greatest element, which Max is. *)
LEMMA MaxOfBounded ==
  ASSUME NEW S, NEW bound \in Nat, S \subseteq 0 .. bound, S # {}
  PROVE  /\ Max(S) \in S
         /\ \A n \in S : Max(S) >= n
<1> DEFINE Distances == {bound - n : n \in S}
<1>1. Distances \subseteq Nat /\ Distances # {}
  <2>1. \A n \in S : n \in 0 .. bound
    OBVIOUS
  <2>2. \A n \in S : bound - n \in Nat
    BY <2>1
  <2> QED
    BY <2>2
<1>2. Min(Distances) \in Distances /\ \A d \in Distances : Min(Distances) <= d
  <2> HIDE DEF Distances
  <2> QED
    BY <1>1, MinOfNat
<1>3. PICK greatest \in S : Min(Distances) = bound - greatest
  BY <1>2
<1>4. \A n \in S : bound - greatest <= bound - n
  BY <1>2, <1>3
<1>5. \A n \in S : greatest >= n
  BY <1>4
<1> QED
  BY <1>5 DEF Max

-----------------------------------------------------------------------------
(* A step can be repeated any number of times: what a recursive function   *)
(* on the naturals rests on.                                               *)
Repeats(first, step, g, n) ==
  g[0] = first /\ \A k \in 0 .. n - 1 : g[k + 1] = step[g[k]]

LEMMA OneRepetition ==
  ASSUME NEW first, NEW step, NEW n \in Nat, NEW f, NEW g,
         Repeats(first, step, f, n), Repeats(first, step, g, n)
  PROVE  \A k \in 0 .. n : f[k] = g[k]
<1> DEFINE Same == {k \in Nat : k <= n => f[k] = g[k]}
<1>1. 0 \in Same
  BY DEF Repeats
<1>2. ASSUME NEW k \in Nat, k \in Same
      PROVE  k + 1 \in Same
  <2>1. SUFFICES ASSUME k + 1 <= n PROVE f[k + 1] = g[k + 1]
    OBVIOUS
  <2>2. k \in 0 .. n - 1 /\ f[k] = g[k]
    BY <1>2, <2>1
  <2> QED
    BY <2>2 DEF Repeats
<1>3. Nat \subseteq Same
  <2> HIDE DEF Same
  <2> QED
    BY <1>1, <1>2, SetInduction
<1> QED
  BY <1>3

LEMMA Repetitions ==
  ASSUME NEW S, NEW first \in S, NEW step \in [S -> S]
  PROVE  \A n \in Nat : \E g \in [0 .. n -> S] : Repeats(first, step, g, n)
<1> DEFINE Made == {n \in Nat : \E g \in [0 .. n -> S] : Repeats(first, step, g, n)}
<1>1. 0 \in Made
  <2> DEFINE once == [k \in 0 .. 0 |-> first]
  <2>1. once \in [0 .. 0 -> S] /\ Repeats(first, step, once, 0)
    BY DEF Repeats
  <2> QED
    BY <2>1
<1>2. ASSUME NEW n \in Nat, n \in Made
      PROVE  n + 1 \in Made
  <2>1. PICK g \in [0 .. n -> S] : Repeats(first, step, g, n)
    BY <1>2
  <2> DEFINE more == [k \in 0 .. n + 1 |-> IF k = n + 1 THEN step[g[n]] ELSE g[k]]
  <2>2. more \in [0 .. n + 1 -> S]
    <3>1. step[g[n]] \in S
      OBVIOUS
    <3>2. \A k \in 0 .. n + 1 : k # n + 1 => g[k] \in S
      OBVIOUS
    <3> QED
      BY <3>1, <3>2
  <2>3. more[0] = first
    BY <2>1 DEF Repeats
  <2>4. ASSUME NEW k \in 0 .. n
        PROVE  more[k + 1] = step[more[k]]
    <3>1. more[k] = g[k]
      OBVIOUS
    <3>2. CASE k = n
      BY <3>1, <3>2
    <3>3. CASE k # n
      <4>1. k \in 0 .. n - 1 /\ more[k + 1] = g[k + 1]
        BY <3>3
      <4> QED
        BY <2>1, <3>1, <4>1 DEF Repeats
    <3> QED
      BY <3>2, <3>3
  <2>5. Repeats(first, step, more, n + 1)
    <3>1. 0 .. (n + 1) - 1 = 0 .. n
      OBVIOUS
    <3> HIDE DEF more
    <3> QED
      BY <2>3, <2>4, <3>1 DEF Repeats
  <2> QED
    BY <2>2, <2>5
<1>3. Nat \subseteq Made
  <2> HIDE DEF Made
  <2> QED
    BY <1>1, <1>2, SetInduction
<1> QED
  BY <1>3

Stepping(S, first, step) == first \in S /\ step \in [S -> S]

Iterates(f, S, first, step) ==
  f \in [Nat -> S] /\ f[0] = first /\ \A n \in Nat : f[n + 1] = step[f[n]]

LEMMA Iteration ==
  ASSUME NEW S, NEW first, NEW step, Stepping(S, first, step)
  PROVE  \E f : Iterates(f, S, first, step)
<1> DEFINE Good(n, g) == g \in [0 .. n -> S] /\ Repeats(first, step, g, n)
           Choice(n)  == CHOOSE g : Good(n, g)
           all        == [n \in Nat |-> Choice(n)[n]]
<1> first \in S /\ step \in [S -> S]
  BY DEF Stepping
<1>1. \A n \in Nat : Good(n, Choice(n))
  <2>1. ASSUME NEW n \in Nat
        PROVE  \E g : Good(n, g)
    BY Repetitions
  <2> HIDE DEF Good
  <2> QED
    BY <2>1
<1> HIDE DEF Choice
<1>2. all \in [Nat -> S]
  BY <1>1
<1>3. all[0] = first
  BY <1>1 DEF Repeats
<1>4. ASSUME NEW n \in Nat
      PROVE  all[n + 1] = step[all[n]]
  <2>1. Good(n, Choice(n)) /\ Good(n + 1, Choice(n + 1))
    BY <1>1
  <2>2. Repeats(first, step, Choice(n + 1), n)
    BY <2>1 DEF Repeats
  <2>3. Choice(n + 1)[n] = Choice(n)[n]
    <3> HIDE DEF all
    <3> QED
      BY <2>1, <2>2, OneRepetition
  <2>4. Choice(n + 1)[n + 1] = step[Choice(n + 1)[n]]
    BY <2>1 DEF Repeats
  <2> QED
    BY <2>3, <2>4
<1> HIDE DEF all
<1> QED
  BY <1>2, <1>3, <1>4 DEF Iterates

(* The same if the step depends on how many were made.                     *)
NumberedStepping(S, first, step) == first \in S /\ step \in [Nat -> [S -> S]]

NumberedIterates(f, S, first, step) ==
  f \in [Nat -> S] /\ f[0] = first /\ \A n \in Nat : f[n + 1] = step[n][f[n]]

LEMMA NumberedIteration ==
  ASSUME NEW S, NEW first, NEW step, NumberedStepping(S, first, step)
  PROVE  \E f : NumberedIterates(f, S, first, step)
<1> DEFINE T    == Nat \X S
           more == [p \in T |-> <<p[1] + 1, step[p[1]][p[2]]>>]
<1> first \in S /\ step \in [Nat -> [S -> S]]
  BY DEF NumberedStepping
<1>1. <<0, first>> \in T /\ \A p \in T : more[p] \in T
  OBVIOUS
<1>2. more \in [T -> T]
  BY <1>1
<1>3. \A n \in Nat, x \in S : more[<<n, x>>] = <<n + 1, step[n][x]>>
  OBVIOUS
<1> HIDE DEF more
<1>4. PICK g : Iterates(g, T, <<0, first>>, more)
  BY <1>1, <1>2, Iteration DEF Stepping
<1>5. g \in [Nat -> T] /\ g[0] = <<0, first>> /\ \A n \in Nat : g[n + 1] = more[g[n]]
  BY <1>4 DEF Iterates
<1> DEFINE Counted == {n \in Nat : g[n] = <<n, g[n][2]>>}
<1>6. 0 \in Counted
  BY <1>5
<1>7. ASSUME NEW n \in Nat, n \in Counted
      PROVE  n + 1 \in Counted
  <2> DEFINE x == g[n][2]
  <2>1. g[n] = <<n, x>> /\ x \in S /\ g[n + 1] = more[g[n]]
    BY <1>5, <1>7
  <2> HIDE DEF x
  <2>2. g[n + 1] = <<n + 1, step[n][x]>>
    BY <1>3, <2>1
  <2> QED
    BY <2>2
<1>8. \A n \in Nat : g[n] = <<n, g[n][2]>> /\ g[n][2] \in S
  <2>1. Nat \subseteq Counted
    <3> HIDE DEF Counted
    <3> QED
      BY <1>6, <1>7, SetInduction
  <2> QED
    BY <1>5, <2>1
<1> DEFINE f == [n \in Nat |-> g[n][2]]
<1>9. f \in [Nat -> S] /\ f[0] = first
  BY <1>5, <1>8
<1>10. ASSUME NEW n \in Nat
       PROVE  f[n + 1] = step[n][f[n]]
  <2> DEFINE x == g[n][2]
  <2>1. g[n] = <<n, x>> /\ x \in S /\ g[n + 1] = more[g[n]]
    BY <1>5, <1>8
  <2> HIDE DEF x
  <2>2. g[n + 1] = <<n + 1, step[n][x]>>
    BY <1>3, <2>1
  <2> QED
    BY <2>2 DEF x
<1> HIDE DEF f
<1> QED
  BY <1>9, <1>10 DEF NumberedIterates

(* A number of steps at most: what a recursive function on the positions   *)
(* of a sequence rests on.                                                 *)
Steps(f, first, step, m) ==
  f[0] = first /\ \A n \in 0 .. m - 1 : f[n + 1] = step[n][f[n]]

LEMMA SomeSteps ==
  ASSUME NEW S, NEW first \in S, NEW m \in Nat, NEW step \in [0 .. m - 1 -> [S -> S]]
  PROVE  \E f \in [0 .. m -> S] : Steps(f, first, step, m)
<1> DEFINE stay == [x \in S |-> x]
           always == [n \in Nat |-> IF n \in 0 .. m - 1 THEN step[n] ELSE stay]
<1>1. always \in [Nat -> [S -> S]]
  <2>1. stay \in [S -> S]
    OBVIOUS
  <2> HIDE DEF stay
  <2> QED
    BY <2>1
<1>2. \A n \in 0 .. m - 1 : always[n] = step[n]
  OBVIOUS
<1> HIDE DEF always
<1>3. PICK g : NumberedIterates(g, S, first, always)
  BY <1>1, NumberedIteration DEF NumberedStepping
<1> DEFINE f == [n \in 0 .. m |-> g[n]]
<1>4. f \in [0 .. m -> S] /\ f[0] = first
  BY <1>3 DEF NumberedIterates
<1>5. ASSUME NEW n \in 0 .. m - 1
      PROVE  f[n + 1] = step[n][f[n]]
  <2>1. n \in 0 .. m /\ n + 1 \in 0 .. m /\ n \in Nat
    OBVIOUS
  <2>2. f[n + 1] = g[n + 1] /\ f[n] = g[n]
    BY <2>1
  <2>3. g[n + 1] = always[n][g[n]]
    BY <1>3, <2>1 DEF NumberedIterates
  <2> HIDE DEF f
  <2> QED
    BY <1>2, <2>2, <2>3
<1> HIDE DEF f
<1> QED
  BY <1>4, <1>5 DEF Steps

(* The first steps of two that agree on them are the same. *)
Agreeing(f, g, first, step, other, m) ==
  /\ Steps(f, first, step, m)
  /\ Steps(g, first, other, m)
  /\ \A n \in 0 .. m - 1 : step[n][f[n]] = other[n][f[n]]

LEMMA SameSteps ==
  ASSUME NEW first, NEW m \in Nat, NEW f, NEW g, NEW step, NEW other,
         Agreeing(f, g, first, step, other, m)
  PROVE  \A n \in 0 .. m : f[n] = g[n]
<1> DEFINE Same == {n \in Nat : n <= m => f[n] = g[n]}
<1>1. 0 \in Same
  BY DEF Agreeing, Steps
<1>2. ASSUME NEW n \in Nat, n \in Same
      PROVE  n + 1 \in Same
  <2>1. SUFFICES ASSUME n + 1 <= m PROVE f[n + 1] = g[n + 1]
    OBVIOUS
  <2>2. n \in 0 .. m - 1 /\ f[n] = g[n]
    BY <1>2, <2>1
  <2>3. f[n + 1] = step[n][f[n]] /\ g[n + 1] = other[n][g[n]] /\ step[n][f[n]] = other[n][f[n]]
    BY <2>2 DEF Agreeing, Steps
  <2> QED
    BY <2>2, <2>3
<1>3. Nat \subseteq Same
  <2> HIDE DEF Same
  <2> QED
    BY <1>1, <1>2, SetInduction
<1> QED
  BY <1>3
=============================================================================
