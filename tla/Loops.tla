-------------------------------- MODULE Loops --------------------------------
(***************************************************************************)
(* Induction over numbers, and the functions that loops define. Each lemma *)
(* is about a set, so that a proof names the set of the numbers, or of the *)
(* values, it is about.                                                    *)
(***************************************************************************)
EXTENDS Naturals, FiniteSetsExt, WellFoundedInduction, TLAPS

(* Every set of numbers has a least one.                                   *)
LEMMA LeastNat ==
    ASSUME NEW S \in SUBSET Nat, S # {}
    PROVE  \E n \in S : \A m \in S : n <= m
<1>1. IsWellFoundedOn(OpToRel(<, Nat), Nat)
  BY NatLessThanWellFounded
<1>2. PICK n \in S : \A m \in S : <<m, n>> \notin OpToRel(<, Nat)
  BY <1>1, WFMin, Zenon
<1>3. \A m \in S : ~(m < n)
  BY <1>2 DEF OpToRel
<1>4. n \in Nat /\ \A m \in S : m \in Nat
  OBVIOUS
<1> QED BY <1>3, <1>4

(* Min, of what is found by its number.                                    *)
LEMMA MinOfNumbers ==
    ASSUME NEW S \in SUBSET Nat, S # {}
    PROVE  Min(S) \in S /\ \A n \in S : Min(S) <= n
BY LeastNat DEF Min

(* Max, of those up to n.                                                  *)
LEMMA MaxOfNumbers ==
    ASSUME NEW S, NEW n \in Nat, S \subseteq 1..n, S # {}
    PROVE  Max(S) \in S /\ \A i \in S : i <= Max(S)
<1> DEFINE T == {n - i : i \in S}
<1>1. \A i \in S : i \in Nat /\ n - i \in Nat
  OBVIOUS
<1>2. PICK m \in T : \A x \in T : m <= x
  <2>1. T \in SUBSET Nat /\ T # {}
    BY <1>1
  <2> HIDE DEF T
  <2> QED BY <2>1, LeastNat
<1>3. PICK i \in S : m = n - i
  OBVIOUS
<1>4. \A j \in S : n - i <= n - j /\ i \in Nat /\ j \in Nat
  <2>1. \A j \in S : n - j \in T
    OBVIOUS
  <2> QED BY <1>1, <1>2, <1>3, <2>1
<1>5. \A j \in S : j <= i
  BY <1>4
<1> QED BY <1>5 DEF Max

(* A set of numbers that has 0 and what follows each of its own is all.    *)
LEMMA NumbersInduction ==
    ASSUME NEW S, 0 \in S, \A n \in Nat : n \in S => n + 1 \in S
    PROVE  Nat \subseteq S
<1> SUFFICES ASSUME Nat \ S # {} PROVE FALSE
  OBVIOUS
<1>1. PICK n \in Nat \ S : \A m \in Nat \ S : n <= m
  BY LeastNat
<1>2. n # 0 /\ n - 1 \in Nat /\ n - 1 \in S
  BY <1>1
<1> QED BY <1>1, <1>2

(* What a loop has after each of its n steps.                              *)
IsLoop(f, n, S, b, step) ==
    /\ f \in [0..n -> S] /\ f[0] = b
    /\ \A k \in 1..n : f[k] = step[<<f[k - 1], k>>]

LEMMA LoopExists ==
    ASSUME NEW n \in Nat, NEW S, NEW b \in S, NEW step \in [S \X (1..n) -> S]
    PROVE  \E f : IsLoop(f, n, S, b, step)
<1> DEFINE Upto(f, m) ==
             f[0] = b /\ \A k \in 1..m : f[k] = step[<<f[k - 1], k>>]
           Good == {m \in Nat : m <= n => \E f \in [0..m -> S] : Upto(f, m)}
<1>1. 0 \in Good
  <2>1. [k \in 0..0 |-> b] \in [0..0 -> S] /\ Upto([k \in 0..0 |-> b], 0)
    OBVIOUS
  <2> QED BY <2>1
<1>2. ASSUME NEW m \in Nat, m \in Good PROVE m + 1 \in Good
  <2> SUFFICES ASSUME m + 1 <= n
               PROVE  \E f \in [0..(m + 1) -> S] : Upto(f, m + 1)
    OBVIOUS
  <2>1. PICK f \in [0..m -> S] : Upto(f, m)
    BY <1>2
  <2> DEFINE x == step[<<f[m], m + 1>>]
             g == [k \in 0..(m + 1) |-> IF k = m + 1 THEN x ELSE f[k]]
  <2>2. x \in S
    BY <2>1
  <2>3. g \in [0..(m + 1) -> S]
    BY <2>1, <2>2
  <2>4. ASSUME NEW k \in 1..(m + 1) PROVE g[k] = step[<<g[k - 1], k>>]
    <3>0. g[k] = (IF k = m + 1 THEN x ELSE f[k]) /\ g[k - 1] = f[k - 1]
      <4>1. k - 1 \in 0..(m + 1) /\ k - 1 # m + 1 /\ k \in 0..(m + 1)
        OBVIOUS
      <4> QED BY <4>1
    <3>1. CASE k = m + 1
      <4>1. k - 1 = m
        BY <3>1
      <4> HIDE DEF g
      <4> QED BY <3>0, <3>1, <4>1
    <3>2. CASE k # m + 1
      <4>1. k \in 1..m /\ k - 1 \in 0..m
        BY <3>2
      <4>2. f[k] = step[<<f[k - 1], k>>]
        BY <4>1, <2>1
      <4> HIDE DEF g
      <4> QED BY <3>0, <3>2, <4>2
    <3> QED BY <3>1, <3>2
  <2>5. g[0] = b
    BY <2>1
  <2> QED BY <2>3, <2>4, <2>5
<1>3. n \in Good
  <2> HIDE DEF Good
  <2> QED BY <1>1, <1>2, NumbersInduction
<1> QED BY <1>3 DEF IsLoop

(* One of finitely many has the best value, and of those the lowest number. *)
LEMMA FirstOfBest ==
    ASSUME NEW n \in Nat, NEW S, S \subseteq 1..n, S # {}, NEW val,
           \A k \in S : val[k] \in Nat, NEW lower \in BOOLEAN
    PROVE  \E p \in S : \A j \in S \ {p} :
              \/ IF lower THEN val[p] < val[j] ELSE val[p] > val[j]
              \/ val[p] = val[j] /\ p < j
<1> DEFINE Wins(p, j) == \/ IF lower THEN val[p] < val[j] ELSE val[p] > val[j]
                         \/ val[p] = val[j] /\ p < j
           None(m) == \A k \in S : m < k
           Some(m) == \E p \in S : p <= m /\ \A j \in S \ {p} : j <= m => Wins(p, j)
           Good == {m \in Nat : None(m) \/ Some(m)}
<1>1. \A k \in S : k \in Nat /\ 0 < k /\ k <= n
  OBVIOUS
<1>2. 0 \in Good
  BY <1>1
<1>3. ASSUME NEW m \in Nat, m \in Good PROVE m + 1 \in Good
  <2> SUFFICES None(m + 1) \/ Some(m + 1)
    OBVIOUS
  <2>1. CASE m + 1 \notin S
    <3>1. \A k \in S : (k <= m + 1 <=> k <= m) /\ (m < k => m + 1 < k)
      BY <1>1, <2>1
    <3>2. None(m) => None(m + 1)
      BY <3>1
    <3>3. Some(m) => Some(m + 1)
      <4> HIDE DEF Wins
      <4> QED BY <3>1
    <3> QED BY <1>3, <3>2, <3>3
  <2>2. CASE m + 1 \in S
    <3>1. \A k \in S : k <= m + 1 <=> k <= m \/ k = m + 1
      BY <1>1
    <3>2. CASE None(m)
      <4>1. \A j \in S \ {m + 1} : ~(j <= m + 1)
        BY <1>1, <3>1, <3>2
      <4> QED BY <2>2, <4>1
    <3>3. CASE Some(m)
      <4>1. PICK p \in S : p <= m /\ \A j \in S \ {p} : j <= m => Wins(p, j)
        BY <3>3
      <4>2. /\ val[p] \in Nat /\ val[m + 1] \in Nat /\ p \in Nat
            /\ p < m + 1 /\ p # m + 1
        BY <1>1, <2>2, <4>1
      <4>3. CASE Wins(p, m + 1)
        <5>1. \A j \in S \ {p} : j <= m + 1 => Wins(p, j)
          <6> HIDE DEF Wins
          <6> QED BY <3>1, <4>1, <4>3
        <5> QED BY <4>1, <4>2, <5>1
      <4>4. CASE ~Wins(p, m + 1)
        <5>1. IF lower THEN val[m + 1] < val[p] ELSE val[m + 1] > val[p]
          BY <4>2, <4>4
        <5>2. ASSUME NEW j \in S \ {m + 1}, j <= m + 1 PROVE Wins(m + 1, j)
          <6>1. CASE j = p
            BY <5>1, <6>1
          <6>2. CASE j # p
            <7>1. Wins(p, j) /\ val[j] \in Nat
              <8> HIDE DEF Wins
              <8> QED BY <3>1, <4>1, <5>2, <6>2
            <7> QED BY <4>2, <5>1, <7>1
          <6> QED BY <6>1, <6>2
        <5> HIDE DEF Wins
        <5> QED BY <2>2, <5>2
      <4> QED BY <4>3, <4>4
    <3> QED BY <1>3, <3>2, <3>3
  <2> QED BY <2>1, <2>2
<1>4. n \in Good
  <2> HIDE DEF Good
  <2> QED BY <1>2, <1>3, NumbersInduction
<1>5. ~None(n)
  <2>1. \A k \in S : ~(n < k)
    BY <1>1
  <2> QED BY <2>1
<1>6. PICK p \in S : \A j \in S \ {p} : j <= n => Wins(p, j)
  BY <1>4, <1>5
<1> QED BY <1>1, <1>6

(* Two loops of the same steps have the same in the end.                   *)
LEMMA LoopsAgree ==
    ASSUME NEW n \in Nat, NEW f, NEW g, f[0] = g[0],
           \A k \in 1..n : f[k - 1] = g[k - 1] => f[k] = g[k]
    PROVE  f[n] = g[n]
<1> DEFINE Good == {k \in Nat : k <= n => f[k] = g[k]}
<1>1. 0 \in Good
  OBVIOUS
<1>2. ASSUME NEW k \in Nat, k \in Good PROVE k + 1 \in Good
  <2>1. k + 1 <= n => k + 1 \in 1..n /\ (k + 1) - 1 = k
    OBVIOUS
  <2> QED BY <1>2, <2>1
<1>3. n \in Good
  <2> HIDE DEF Good
  <2> QED BY <1>1, <1>2, NumbersInduction
<1> QED BY <1>3
=============================================================================
