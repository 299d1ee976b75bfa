---------------------------- MODULE NatRecursion ----------------------------
(***************************************************************************)
(* Induction and recursive functions over the naturals, for the proofs of   *)
(* this project.  The induction theorems of the library take an operator as *)
(* a parameter; here a property is the set of the numbers that have it, and *)
(* one step of a recursion is a function, so that every statement is first  *)
(* order.                                                                   *)
(***************************************************************************)
EXTENDS Integers, WellFoundedInduction, TLAPS

\* Every set of naturals that is not empty has a least member.
LEMMA LeastNatural ==
  ASSUME NEW S, S \subseteq Nat, S # {}
  PROVE  \E m \in S : \A k \in S : m <= k
<1> DEFINE Less == OpToRel(<, Nat)
<1>1. IsWellFoundedOn(Less, Nat)
  BY NatLessThanWellFounded
<1>2. \A k, m \in Nat : <<k, m>> \in Less <=> k < m
  BY DEF OpToRel
<1> HIDE DEF Less
<1>3. PICK m \in S : \A k \in S : ~ (<<k, m>> \in Less)
  BY <1>1, WFMin
<1>4. \A k \in S : ~ (k < m)
  BY <1>2, <1>3
<1> QED
  BY <1>4

\* Induction: what holds of zero and is handed on holds of every natural.
LEMMA Induction ==
  ASSUME NEW S, 0 \in S, \A n \in Nat : n \in S => n + 1 \in S
  PROVE  Nat \subseteq S
<1> DEFINE Bad == {n \in Nat : n \notin S}
<1> SUFFICES ASSUME Bad # {} PROVE FALSE
  OBVIOUS
<1>1. PICK m \in Bad : \A k \in Bad : m <= k
  <2>1. Bad \subseteq Nat
    OBVIOUS
  <2> HIDE DEF Bad
  <2> QED
    BY <2>1, LeastNatural
<1>2. m - 1 \in Nat /\ m - 1 \notin Bad
  BY <1>1
<1> QED
  BY <1>1, <1>2

-----------------------------------------------------------------------------
\* What a recursion does at each n, and the functions a start and a step describe.
Steps(X) == [Nat -> [X -> X]]

Recursive(X, c, step) ==
  {f \in [Nat -> X] : f[0] = c /\ \A n \in Nat \ {0} : f[n] = step[n][f[n - 1]]}

\* The first n + 1 values of a recursion that starts at c.
Unrolled(X, c, step, n) ==
  {g \in [0..n -> X] : g[0] = c /\ \A i \in 1..n : g[i] = step[i][g[i - 1]]}

LEMMA UnrolledExists ==
  ASSUME NEW X, NEW c \in X, NEW step \in [Nat -> [X -> X]]
  PROVE  \A n \in Nat : Unrolled(X, c, step, n) # {}
<1> DEFINE S == {n \in Nat : Unrolled(X, c, step, n) # {}}
<1>1. 0 \in S
  <2>1. [i \in 0..0 |-> c] \in Unrolled(X, c, step, 0)
    BY DEF Unrolled
  <2> QED
    BY <2>1
<1>2. ASSUME NEW n \in Nat, n \in S PROVE n + 1 \in S
  <2>1. PICK g \in Unrolled(X, c, step, n) : TRUE
    BY <1>2
  <2> DEFINE h == [i \in 0..(n + 1) |-> IF i = n + 1 THEN step[n + 1][g[n]] ELSE g[i]]
  <2>2. g \in [0..n -> X] /\ g[0] = c /\ \A i \in 1..n : g[i] = step[i][g[i - 1]]
    BY <2>1 DEF Unrolled
  <2>3. h \in [0..(n + 1) -> X] /\ h[0] = c
    BY <2>2
  <2>4. ASSUME NEW i \in 1..(n + 1) PROVE h[i] = step[i][h[i - 1]]
    BY <2>2
  <2>5. h \in Unrolled(X, c, step, n + 1)
    BY <2>3, <2>4 DEF Unrolled
  <2> QED
    BY <2>5
<1> HIDE DEF S
<1>3. Nat \subseteq S
  BY <1>1, <1>2, Induction
<1> QED
  BY <1>3 DEF S

LEMMA UnrolledUnique ==
  ASSUME NEW X, NEW c \in X, NEW step \in [Nat -> [X -> X]],
         NEW m \in Nat, NEW n \in Nat,
         NEW g \in Unrolled(X, c, step, m), NEW h \in Unrolled(X, c, step, n)
  PROVE  \A i \in Nat : i <= m /\ i <= n => g[i] = h[i]
<1> DEFINE S == {i \in Nat : i <= m /\ i <= n => g[i] = h[i]}
<1>1. 0 \in S
  BY DEF Unrolled
<1>2. ASSUME NEW i \in Nat, i \in S PROVE i + 1 \in S
  <2> SUFFICES ASSUME i + 1 <= m, i + 1 <= n PROVE g[i + 1] = h[i + 1]
    OBVIOUS
  <2>1. g[i] = h[i]
    BY <1>2
  <2>2. i + 1 \in 1..m /\ i + 1 \in 1..n /\ (i + 1) - 1 = i
    OBVIOUS
  <2> QED
    BY <2>1, <2>2 DEF Unrolled
<1> HIDE DEF S
<1>3. Nat \subseteq S
  BY <1>1, <1>2, Induction
<1> QED
  BY <1>3 DEF S

\* There is a function with a given start and a given step.
LEMMA PrimitiveRecursion ==
  ASSUME NEW X, NEW c \in X, NEW step \in Steps(X)
  PROVE  Recursive(X, c, step) # {}
<1> DEFINE G(n) == CHOOSE g : g \in Unrolled(X, c, step, n)
           f == [n \in Nat |-> G(n)[n]]
<1>1. \A n \in Nat : G(n) \in Unrolled(X, c, step, n)
  BY UnrolledExists DEF Steps
<1>2. f \in [Nat -> X] /\ f[0] = c
  <2> HIDE DEF G
  <2>1. \A n \in Nat : G(n) \in [0..n -> X] /\ G(n)[0] = c
    BY <1>1 DEF Unrolled
  <2>2. \A n \in Nat : G(n)[n] \in X
    BY <2>1
  <2>3. 0 \in Nat
    OBVIOUS
  <2> QED
    BY <2>1, <2>2, <2>3
<1>3. ASSUME NEW n \in Nat \ {0} PROVE f[n] = step[n][f[n - 1]]
  <2>1. n \in Nat /\ n - 1 \in Nat /\ n \in 1..n /\ n - 1 <= n /\ n - 1 <= n - 1
    OBVIOUS
  <2> HIDE DEF G
  <2>2. G(n)[n] = step[n][G(n)[n - 1]]
    BY <1>1, <2>1 DEF Unrolled
  <2>3. G(n)[n - 1] = G(n - 1)[n - 1]
    BY <1>1, <2>1, UnrolledUnique DEF Steps
  <2> QED
    BY <2>1, <2>2, <2>3
<1> HIDE DEF f
<1> QED
  BY <1>2, <1>3 DEF Recursive

=============================================================================
