------------------------------ MODULE NatLemmas ------------------------------
(* Natural numbers and functions defined by recursion over them, without    *)
(* the induction rules, which take an operator.                             *)
EXTENDS Integers, WellFoundedInduction, TLAPS

(* The least element of a set of indices.                                   *)
LEMMA LeastNat ==
  ASSUME NEW T, T \subseteq Nat, T # {}
  PROVE  \E x \in T : \A y \in T : x <= y
<1>1. PICK x \in T : \A y \in T : <<y, x>> \notin OpToRel(<, Nat)
  BY NatLessThanWellFounded, WFMin
<1>2. \A y \in T : ~ (y < x)
  BY <1>1, Zenon DEF OpToRel
<1> QED BY <1>2

(* A bounded set of naturals has a greatest element.                        *)
LEMMA GreatestNat ==
  ASSUME NEW n \in Nat, NEW T, T \subseteq 0 .. n, T # {}
  PROVE  \E x \in T : \A y \in T : y <= x
<1> DEFINE U == {n - x : x \in T}
<1>1. U \subseteq Nat /\ U # {}
  <2>1. \A x \in T : n - x \in Nat
    OBVIOUS
  <2>2. PICK x \in T : TRUE
    OBVIOUS
  <2>3. n - x \in U
    OBVIOUS
  <2> QED BY <2>1, <2>3
<1>2. PICK u \in U : \A y \in U : u <= y
  <2> HIDE DEF U
  <2> QED BY <1>1, LeastNat
<1>3. PICK x \in T : u = n - x
  OBVIOUS
<1>4. ASSUME NEW y \in T PROVE y <= x
  <2>1. n - y \in U
    OBVIOUS
  <2> QED BY <1>2, <1>3, <2>1
<1> QED BY <1>4

(* What holds at 0 and passes on holds throughout.                           *)
LEMMA StaysIn ==
  ASSUME NEW n \in Nat, NEW V, NEW g, g[0] \in V,
         \A i \in 0 .. n - 1 : g[i] \in V => g[i + 1] \in V
  PROVE  \A i \in 0 .. n : g[i] \in V
<1> DEFINE Bad == {i \in 0 .. n : g[i] \notin V}
<1> SUFFICES ASSUME Bad # {} PROVE FALSE
  OBVIOUS
<1>1. PICK x \in Bad : \A y \in Bad : x <= y
  <2>1. Bad \subseteq Nat
    OBVIOUS
  <2> HIDE DEF Bad
  <2> QED BY <2>1, LeastNat
<1>2. x # 0
  BY <1>1
<1>3. x - 1 \in 0 .. n - 1 /\ x - 1 \notin Bad
  BY <1>1, <1>2
<1>4. g[x - 1] \in V
  BY <1>3
<1>5. g[(x - 1) + 1] \in V
  BY <1>3, <1>4
<1> QED BY <1>1, <1>5

(* Two functions that agree at 0 and keep agreeing agree.                   *)
LEMMA AgreeUp ==
  ASSUME NEW n \in Nat, NEW f, NEW g, f[0] = g[0],
         \A i \in 0 .. n - 1 : f[i] = g[i] => f[i + 1] = g[i + 1]
  PROVE  \A i \in 0 .. n : f[i] = g[i]
<1> DEFINE Bad == {i \in 0 .. n : f[i] # g[i]}
<1> SUFFICES ASSUME Bad # {} PROVE FALSE
  OBVIOUS
<1>1. PICK x \in Bad : \A y \in Bad : x <= y
  <2>1. Bad \subseteq Nat
    OBVIOUS
  <2> HIDE DEF Bad
  <2> QED BY <2>1, LeastNat
<1>2. x # 0
  BY <1>1
<1>3. x - 1 \in 0 .. n - 1 /\ x - 1 \notin Bad
  BY <1>1, <1>2
<1>4. f[x - 1] = g[x - 1]
  BY <1>3
<1>5. f[(x - 1) + 1] = g[(x - 1) + 1]
  BY <1>3, <1>4
<1> QED BY <1>1, <1>5

LEMMA AgreeDown ==
  ASSUME NEW n \in Nat, NEW f, NEW g, f[n] = g[n],
         \A i \in 0 .. n - 1 : f[i + 1] = g[i + 1] => f[i] = g[i]
  PROVE  \A i \in 0 .. n : f[i] = g[i]
<1> DEFINE F == [i \in 0 .. n |-> f[n - i]]
           G == [i \in 0 .. n |-> g[n - i]]
<1>1. F[0] = G[0]
  OBVIOUS
<1>2. ASSUME NEW i \in 0 .. n - 1, F[i] = G[i]
      PROVE  F[i + 1] = G[i + 1]
  <2>1. n - (i + 1) \in 0 .. n - 1 /\ (n - (i + 1)) + 1 = n - i
    OBVIOUS
  <2>2. f[n - i] = g[n - i]
    BY <1>2
  <2>3. f[n - (i + 1)] = g[n - (i + 1)]
    BY <2>1, <2>2
  <2> QED BY <2>3
<1>3. \A i \in 0 .. n : F[i] = G[i]
  <2> HIDE DEF F, G
  <2> QED BY <1>1, <1>2, AgreeUp
<1>4. ASSUME NEW i \in 0 .. n
      PROVE  f[i] = g[i]
  <2>1. n - i \in 0 .. n /\ n - (n - i) = i
    OBVIOUS
  <2>2. F[n - i] = G[n - i]
    BY <1>3, <2>1
  <2> QED BY <2>1, <2>2
<1> QED BY <1>4

(* The runs of n steps from v: the functions that a definition by recursion *)
(* on 0 .. n defines.                                                       *)
Runs(n, V, v, step) ==
  {f \in [0 .. n -> V] :
     f[0] = v /\ \A i \in 1 .. n : f[i] = step[<<i, f[i - 1]>>]}

(* A value defined step by step from a first one exists, and stays in the   *)
(* set that the steps do not leave.                                         *)
LEMMA StepwiseExists ==
  ASSUME NEW n \in Nat, NEW V, NEW v \in V, NEW step \in [(1 .. n) \X V -> V]
  PROVE  \E f : f \in Runs(n, V, v, step)
<1> DEFINE Good(f, m) == /\ f \in [0 .. m -> V]
                         /\ f[0] = v /\ \A i \in 1 .. m : f[i] = step[<<i, f[i - 1]>>]
           Bad == {m \in 0 .. n : ~ \E f : Good(f, m)}
<1> SUFFICES ASSUME Bad # {} PROVE FALSE
  <2>1. n \in 0 .. n
    OBVIOUS
  <2>2. n \notin Bad => \E f : Good(f, n)
    BY <2>1
  <2> QED BY <2>2 DEF Runs
<1>1. PICK m \in Bad : \A y \in Bad : m <= y
  <2>1. Bad \subseteq Nat
    OBVIOUS
  <2> HIDE DEF Bad
  <2> QED BY <2>1, LeastNat
<1>2. m # 0
  <2>1. Good([i \in 0 .. 0 |-> v], 0)
    OBVIOUS
  <2> QED BY <1>1, <2>1
<1>3. m - 1 \in 0 .. n /\ m - 1 \notin Bad
  BY <1>1, <1>2
<1>4. PICK f : Good(f, m - 1)
  BY <1>3
<1> DEFINE g == [i \in 0 .. m |-> IF i = m THEN step[<<m, f[m - 1]>>] ELSE f[i]]
<1>5. m \in 1 .. n /\ f[m - 1] \in V
  BY <1>1, <1>2, <1>4
<1>6. g \in [0 .. m -> V]
  <2>1. step[<<m, f[m - 1]>>] \in V
    BY <1>5
  <2>2. \A i \in 0 .. m : i # m => i \in 0 .. m - 1
    BY <1>5
  <2> QED BY <1>4, <2>1, <2>2
<1>7. g[0] = v
  BY <1>4, <1>5
<1>8. ASSUME NEW i \in 1 .. m
      PROVE  g[i] = step[<<i, g[i - 1]>>]
  <2>1. i - 1 \in 0 .. m /\ i - 1 # m /\ i \in 0 .. m
    BY <1>5
  <2>2. g[i - 1] = f[i - 1]
    BY <2>1
  <2>3. CASE i = m
    BY <2>1, <2>2, <2>3
  <2>4. CASE i # m
    <3>1. i \in 1 .. m - 1
      BY <1>5, <2>4
    <3> QED BY <1>4, <2>1, <2>2, <2>4, <3>1
  <2> QED BY <2>3, <2>4
<1>9. Good(g, m)
  BY <1>6, <1>7, <1>8
<1> HIDE DEF Good, g
<1> QED BY <1>1, <1>9

=============================================================================
