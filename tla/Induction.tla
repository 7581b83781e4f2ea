----------------------------- MODULE Induction -----------------------------
(***************************************************************************)
(* Induction over the natural numbers stated of a set, from the least      *)
(* element that a well-founded order gives, and with it the existence of   *)
(* the functions that a recursion on 0 .. N defines.                       *)
(***************************************************************************)
EXTENDS Integers, WellFoundedInduction, TLAPS

(* The order of the numbers has a least element in each set of them.       *)
LEMMA LessIsWellFounded == IsWellFoundedOn({ss \in Nat \X Nat : ss[1] < ss[2]}, Nat)
BY NatLessThanWellFounded DEF OpToRel

(* Induction, stated of a set.                                             *)
LEMMA SetInduction ==
  ASSUME NEW T, 0 \in T, \A n \in Nat : n \in T => n + 1 \in T
  PROVE  Nat \subseteq T
<1> DEFINE R == {ss \in Nat \X Nat : ss[1] < ss[2]}
           U == Nat \ T
<1>1. SUFFICES ASSUME U # {} PROVE FALSE
  OBVIOUS
<1>2. PICK x \in U : \A y \in U : <<y, x>> \notin R
  <2>1. IsWellFoundedOn(R, Nat)
    BY LessIsWellFounded
  <2>2. U \subseteq Nat
    OBVIOUS
  <2> HIDE DEF R, U
  <2>3. QED
    BY <1>1, <2>1, <2>2, WFMin
<1>3. x \in Nat /\ x # 0 /\ x - 1 \in Nat /\ x - 1 < x
  BY <1>2
<1>4. <<x - 1, x>> \in R
  BY <1>3
<1>5. x - 1 \in T
  BY <1>2, <1>3, <1>4
<1>6. (x - 1) + 1 \in T
  BY <1>3, <1>5
<1>7. (x - 1) + 1 = x
  BY <1>3
<1>8. QED
  BY <1>2, <1>6, <1>7

(* The values in T after each of N steps, of which each makes one of the    *)
(* value before.                                                           *)
IsPrefixes(f, N, T, base, next) ==
  /\ f \in [0 .. N -> T] /\ f[0] = base
  /\ \A k \in 1 .. N : f[k] = next[<<k, f[k - 1]>>]

(* A function that says what each step makes has such values.              *)
LEMMA PrefixRecursion ==
  ASSUME NEW N \in Nat, NEW T, NEW base \in T, NEW next \in [(1 .. N) \X T -> T]
  PROVE  \E f : IsPrefixes(f, N, T, base, next)
<1> DEFINE Good(n) == \E f \in [0 .. n -> T] : /\ f[0] = base
                                               /\ \A k \in 1 .. n : f[k] = next[<<k, f[k - 1]>>]
           D == {n \in Nat : n <= N => Good(n)}
<1>1. 0 \in D
  <2> DEFINE g == [i \in 0 .. 0 |-> base]
  <2>1. g \in [0 .. 0 -> T] /\ g[0] = base /\ \A k \in 1 .. 0 : g[k] = next[<<k, g[k - 1]>>]
    OBVIOUS
  <2>2. Good(0)
    BY <2>1
  <2>3. QED
    BY <2>2
<1>2. ASSUME NEW n \in Nat, n \in D PROVE n + 1 \in D
  <2>1. SUFFICES ASSUME n + 1 <= N PROVE Good(n + 1)
    BY <1>2
  <2>2. PICK f \in [0 .. n -> T] : /\ f[0] = base
                                   /\ \A k \in 1 .. n : f[k] = next[<<k, f[k - 1]>>]
    BY <1>2, <2>1
  <2> DEFINE g == [i \in 0 .. n + 1 |-> IF i <= n THEN f[i] ELSE next[<<n + 1, f[n]>>]]
  <2>3. f[n] \in T /\ n + 1 \in 1 .. N
    BY <2>1, <2>2
  <2>4. next[<<n + 1, f[n]>>] \in T
    BY <2>3
  <2>5. g \in [0 .. n + 1 -> T]
    BY <2>2, <2>4
  <2>6. g[0] = base
    BY <2>2
  <2>7. ASSUME NEW k \in 1 .. n + 1 PROVE g[k] = next[<<k, g[k - 1]>>]
    <3>1. k - 1 \in 0 .. n /\ g[k - 1] = f[k - 1]
      BY <2>7
    <3>2. CASE k \in 1 .. n
      <4>1. g[k] = f[k]
        BY <3>2
      <4>2. QED
        BY <2>2, <3>1, <3>2, <4>1
    <3>3. CASE k = n + 1
      <4>1. g[k] = next[<<n + 1, f[n]>>]
        BY <3>3
      <4>2. k - 1 = n
        BY <3>3
      <4>3. QED
        BY <3>1, <3>3, <4>1, <4>2
    <3>4. QED
      BY <2>7, <3>2, <3>3
  <2>8. QED
    BY <2>5, <2>6, <2>7
<1>3. Nat \subseteq D
  <2> HIDE DEF D
  <2>1. QED
    BY <1>1, <1>2, SetInduction
<1>4. N \in D
  BY <1>3
<1>5. QED
  BY <1>4 DEF IsPrefixes
=============================================================================
