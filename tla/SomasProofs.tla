----------------------------- MODULE SomasProofs ------------------------------
(***************************************************************************)
(* What a sum of amounts is, for tables of every size.  The library states *)
(* induction with an operator as parameter, which the provers cannot       *)
(* instantiate; here it is the least element of a set of naturals, from    *)
(* the well-foundedness of strict inclusion.                               *)
(***************************************************************************)
EXTENDS Somas, Integers, Functions, FiniteSetTheorems, TLAPS

(* Every non-empty set of naturals has a least element. *)
LEMMA MenorNatural ==
    ASSUME NEW T, T \subseteq Nat, T # {}
    PROVE  \E x \in T : \A y \in T : x <= y
<1> DEFINE Ini(x) == 0..x
           R == StrictSubsetOrdering(Nat)
           F == {Ini(x) : x \in T}
<1>1. \A x \in Nat : Ini(x) \in FiniteSubsetsOf(Nat)
  BY FS_Interval, 0 \in Int DEF FiniteSubsetsOf
<1>2. F \subseteq FiniteSubsetsOf(Nat) /\ F # {}
  BY <1>1
<1>3. IsWellFoundedOn(R, FiniteSubsetsOf(Nat))
  BY FS_StrictSubsetOrderingWellFounded
<1>4. \E X \in F : \A Y \in F : <<Y, X>> \notin R
  <2> HIDE DEF F, R
  <2> QED BY <1>2, <1>3, WFMin
<1>5. PICK x \in T : \A y \in T : <<Ini(y), Ini(x)>> \notin R
  BY <1>4
<1>6. ASSUME NEW y \in T, y < x PROVE FALSE
  <2>1. Ini(y) \subseteq Ini(x) /\ x \in Ini(x) /\ x \notin Ini(y)
    BY <1>6
  <2>2. Ini(y) \in SUBSET Nat /\ Ini(x) \in SUBSET Nat
    OBVIOUS
  <2>3. <<Ini(y), Ini(x)>> \in R
    <3> HIDE DEF Ini
    <3> QED BY <2>1, <2>2 DEF StrictSubsetOrdering
  <2> QED BY <1>5, <2>3
<1> QED BY <1>6

(* Induction: a set of naturals that holds 0 and the successor of each of its
   members below n holds all of 0..n. *)
LEMMA Inducao ==
    ASSUME NEW n \in Nat, NEW S, 0 \in S,
           \A k \in 0..n : k # 0 /\ k - 1 \in S => k \in S
    PROVE  \A k \in 0..n : k \in S
<1> DEFINE T == {k \in 0..n : k \notin S}
<1>1. CASE T = {}
  BY <1>1
<1>2. CASE T # {}
  <2>1. PICK x \in T : \A y \in T : x <= y
    <3> T \subseteq Nat
      OBVIOUS
    <3> HIDE DEF T
    <3> QED BY <1>2, MenorNatural
  <2>2. x # 0 /\ x \in 0..n /\ x - 1 \in 0..n
    OBVIOUS
  <2>3. x - 1 \in S
    BY <2>1, <2>2
  <2> QED BY <2>2, <2>3
<1> QED BY <1>1, <1>2

-----------------------------------------------------------------------------
(* A function that satisfies the equation of the partial sums. *)
Encadeada(s, f, n) ==
    s = [k \in 0..n |-> IF k = 0 THEN 0 ELSE s[k - 1] + f[k]]

LEMMA SomaExiste ==
    ASSUME NEW f, NEW n \in Nat, \A k \in 1..n : f[k] \in Int
    PROVE  \E s \in [0..n -> Int] : Encadeada(s, f, n)
<1> DEFINE S == {m \in 0..n : \E s \in [0..m -> Int] : Encadeada(s, f, m)}
<1>1. 0 \in S
  <2> DEFINE z == [k \in 0..0 |-> 0]
  <2>1. z \in [0..0 -> Int] /\ Encadeada(z, f, 0)
    BY DEF Encadeada
  <2> QED BY <2>1
<1>2. ASSUME NEW m \in 0..n, m # 0, m - 1 \in S PROVE m \in S
  <2>1. PICK s \in [0..(m-1) -> Int] : Encadeada(s, f, m - 1)
    BY <1>2
  <2> DEFINE t == [k \in 0..m |-> IF k = m THEN s[m - 1] + f[m] ELSE s[k]]
  <2>2. t \in [0..m -> Int]
    BY <1>2
  <2>3. ASSUME NEW k \in 0..m PROVE t[k] = IF k = 0 THEN 0 ELSE t[k - 1] + f[k]
    <3>1. CASE k = m
      BY <3>1, <1>2
    <3>2. CASE k # m
      <4>1. k \in 0..(m-1)
        BY <3>2
      <4>2. s[k] = IF k = 0 THEN 0 ELSE s[k - 1] + f[k]
        BY <2>1, <4>1 DEF Encadeada
      <4>3. t[k] = s[k] /\ (k # 0 => t[k - 1] = s[k - 1])
        BY <4>1, <3>2
      <4> QED BY <4>2, <4>3
    <3> QED BY <3>1, <3>2
  <2>4. Encadeada(t, f, m)
    <3> HIDE DEF t
    <3> QED BY <2>2, <2>3 DEF Encadeada
  <2> QED BY <2>2, <2>4
<1>3. \A m \in 0..n : m \in S
  <2> HIDE DEF S
  <2> QED BY <1>1, <1>2, Inducao
<1> QED BY <1>3

(* The sum is the last of a chain of partial sums. *)
LEMMA SomaParciais ==
    ASSUME NEW f, NEW n \in Nat, \A k \in 1..n : f[k] \in Int
    PROVE  \E s \in [0..n -> Int] :
               /\ Soma(f, n) = s[n]
               /\ s[0] = 0
               /\ \A k \in 1..n : s[k] = s[k - 1] + f[k]
<1> DEFINE c == CHOOSE s : s = [k \in 0..n |-> IF k = 0 THEN 0 ELSE s[k - 1] + f[k]]
<1>1. \E s : s = [k \in 0..n |-> IF k = 0 THEN 0 ELSE s[k - 1] + f[k]]
  <2>1. PICK s : Encadeada(s, f, n)
    BY SomaExiste
  <2> QED BY <2>1 DEF Encadeada
<1>2. c = [k \in 0..n |-> IF k = 0 THEN 0 ELSE c[k - 1] + f[k]]
  BY <1>1
<1>3. Soma(f, n) = c[n]
  BY DEF Soma
<1> HIDE DEF c
<1>4. c[0] = 0 /\ \A k \in 1..n : c[k] = c[k - 1] + f[k]
  BY <1>2
<1>5. \A k \in 0..n : c[k] \in Int
  <2> DEFINE S == {k \in 0..n : c[k] \in Int}
  <2>1. 0 \in S
    BY <1>4
  <2>2. \A k \in 0..n : k # 0 /\ k - 1 \in S => k \in S
    BY <1>4
  <2>3. \A k \in 0..n : k \in S
    <3> HIDE DEF S
    <3> QED BY <2>1, <2>2, Inducao
  <2> QED BY <2>3
<1>6. c \in [0..n -> Int]
  BY <1>2, <1>5
<1> QED BY <1>3, <1>4, <1>6

-----------------------------------------------------------------------------
(* A sum of naturals is a natural. *)
LEMMA SomaNatural ==
    ASSUME NEW n \in Nat, NEW f, \A k \in 1..n : f[k] \in Nat
    PROVE  Soma(f, n) \in Nat
<1>0. \A k \in 1..n : f[k] \in Int
  OBVIOUS
<1>1. PICK s \in [0..n -> Int] :
        /\ Soma(f, n) = s[n]
        /\ s[0] = 0
        /\ \A k \in 1..n : s[k] = s[k - 1] + f[k]
  BY <1>0, SomaParciais
<1> DEFINE S == {k \in 0..n : s[k] \in Nat}
<1>2. 0 \in S
  BY <1>1
<1>3. ASSUME NEW k \in 0..n, k # 0, k - 1 \in S PROVE k \in S
  <2>1. k \in 1..n
    BY <1>3
  <2>2. s[k] = s[k - 1] + f[k] /\ s[k - 1] \in Nat /\ f[k] \in Nat
    BY <1>1, <1>3, <2>1
  <2> QED BY <2>2
<1>4. \A k \in 0..n : k \in S
  <2> HIDE DEF S
  <2> QED BY <1>2, <1>3, Inducao
<1> QED BY <1>1, <1>4

(* A term may be added before or after another one. *)
LEMMA TrocaParcelas ==
    ASSUME NEW a \in Int, NEW x \in Int, NEW d \in Int
    PROVE  (a + d) + x = (a + x) + d
OBVIOUS

(* Two tables that differ in row p only: so do their sums, by as much. *)
LEMMA SomaMuda ==
    ASSUME NEW n \in Nat, NEW f, NEW g, NEW p \in 1..n,
           \A k \in 1..n : f[k] \in Int /\ g[k] \in Int,
           \A k \in 1..n : k # p => f[k] = g[k]
    PROVE  Soma(g, n) = Soma(f, n) - f[p] + g[p]
<1>1. PICK s \in [0..n -> Int] :
        /\ Soma(f, n) = s[n]
        /\ s[0] = 0
        /\ \A k \in 1..n : s[k] = s[k - 1] + f[k]
  BY SomaParciais
<1>2. PICK t \in [0..n -> Int] :
        /\ Soma(g, n) = t[n]
        /\ t[0] = 0
        /\ \A k \in 1..n : t[k] = t[k - 1] + g[k]
  BY SomaParciais
<1> DEFINE S == {k \in 0..n : t[k] = s[k] + IF k < p THEN 0 ELSE g[p] - f[p]}
<1>3. 0 \in S
  BY <1>1, <1>2
<1>4. ASSUME NEW k \in 0..n, k # 0, k - 1 \in S PROVE k \in S
  <2>0. k \in 1..n /\ k - 1 \in 0..n
    BY <1>4
  <2>1. t[k] = t[k - 1] + g[k] /\ s[k] = s[k - 1] + f[k]
    BY <1>1, <1>2, <2>0
  <2>2. t[k - 1] = s[k - 1] + IF k - 1 < p THEN 0 ELSE g[p] - f[p]
    BY <1>4
  <2>3. CASE k < p
    BY <2>0, <2>1, <2>2, <2>3
  <2>4. CASE k = p
    BY <2>0, <2>1, <2>2, <2>4
  <2>5. CASE k > p
    <3>1. f[k] = g[k] /\ f[k] \in Int /\ f[p] \in Int /\ g[p] \in Int /\ s[k - 1] \in Int
      BY <2>0, <2>5
    <3>2. t[k - 1] = s[k - 1] + (g[p] - f[p])
      BY <2>2, <2>5
    <3>3. t[k] = s[k] + (g[p] - f[p])
      <4>1. g[p] - f[p] \in Int
        BY <3>1
      <4>2. (s[k - 1] + (g[p] - f[p])) + f[k] = (s[k - 1] + f[k]) + (g[p] - f[p])
        BY <3>1, <4>1, TrocaParcelas
      <4>3. t[k] = (s[k - 1] + (g[p] - f[p])) + f[k]
        BY <2>1, <3>1, <3>2, Zenon
      <4> QED BY <2>1, <4>2, <4>3, Zenon
    <3> QED BY <2>5, <3>3
  <2> QED BY <2>3, <2>4, <2>5
<1>5. \A k \in 0..n : k \in S
  <2> HIDE DEF S
  <2> QED BY <1>3, <1>4, Inducao
<1>6. t[n] = s[n] + IF n < p THEN 0 ELSE g[p] - f[p]
  BY <1>5
<1> QED BY <1>1, <1>2, <1>6

(* Tables that agree on the rows summed have the same sum. *)
LEMMA SomaIgual ==
    ASSUME NEW n \in Nat, NEW f, NEW g,
           \A k \in 1..n : f[k] \in Int /\ f[k] = g[k]
    PROVE  Soma(g, n) = Soma(f, n)
<1>1. CASE n = 0
  <2>1. PICK s \in [0..n -> Int] : Soma(f, n) = s[n] /\ s[0] = 0
    BY SomaParciais
  <2>2. PICK t \in [0..n -> Int] : Soma(g, n) = t[n] /\ t[0] = 0
    BY SomaParciais
  <2> QED BY <1>1, <2>1, <2>2
<1>2. CASE n # 0
  <2>1. n \in 1..n
    BY <1>2
  <2>2. Soma(g, n) = Soma(f, n) - f[n] + g[n]
    BY <2>1, SomaMuda
  <2>3. Soma(f, n) \in Int /\ f[n] = g[n] /\ f[n] \in Int
    <3>1. PICK s \in [0..n -> Int] : Soma(f, n) = s[n]
      BY SomaParciais
    <3> QED BY <2>1, <3>1
  <2> QED BY <2>2, <2>3
<1> QED BY <1>1, <1>2

(* A sum of zeros is zero. *)
LEMMA SomaNula ==
    ASSUME NEW n \in Nat, NEW f, \A k \in 1..n : f[k] = 0
    PROVE  Soma(f, n) = 0
<1>0. \A k \in 1..n : f[k] \in Int
  OBVIOUS
<1>1. PICK s \in [0..n -> Int] :
        /\ Soma(f, n) = s[n]
        /\ s[0] = 0
        /\ \A k \in 1..n : s[k] = s[k - 1] + f[k]
  BY <1>0, SomaParciais
<1> DEFINE S == {k \in 0..n : s[k] = 0}
<1>2. 0 \in S
  BY <1>1
<1>3. ASSUME NEW k \in 0..n, k # 0, k - 1 \in S PROVE k \in S
  <2>1. k \in 1..n
    BY <1>3
  <2>2. s[k] = s[k - 1] + f[k] /\ s[k - 1] = 0 /\ f[k] = 0
    BY <1>1, <1>3, <2>1
  <2> QED BY <2>2
<1>4. \A k \in 0..n : k \in S
  <2> HIDE DEF S
  <2> QED BY <1>2, <1>3, Inducao
<1> QED BY <1>1, <1>4

(* A table that is nowhere above another one does not sum to more. *)
LEMMA SomaMonotona ==
    ASSUME NEW n \in Nat, NEW f, NEW g,
           \A k \in 1..n : f[k] \in Int /\ g[k] \in Int /\ f[k] <= g[k]
    PROVE  Soma(f, n) <= Soma(g, n)
<1>1. PICK s \in [0..n -> Int] :
        /\ Soma(f, n) = s[n]
        /\ s[0] = 0
        /\ \A k \in 1..n : s[k] = s[k - 1] + f[k]
  BY SomaParciais
<1>2. PICK t \in [0..n -> Int] :
        /\ Soma(g, n) = t[n]
        /\ t[0] = 0
        /\ \A k \in 1..n : t[k] = t[k - 1] + g[k]
  BY SomaParciais
<1> DEFINE S == {k \in 0..n : s[k] <= t[k]}
<1>3. 0 \in S
  BY <1>1, <1>2
<1>4. ASSUME NEW k \in 0..n, k # 0, k - 1 \in S PROVE k \in S
  <2>1. k \in 1..n /\ k - 1 \in 0..n
    BY <1>4
  <2>2. /\ s[k] = s[k - 1] + f[k] /\ t[k] = t[k - 1] + g[k]
        /\ s[k - 1] <= t[k - 1] /\ f[k] <= g[k]
        /\ s[k - 1] \in Int /\ t[k - 1] \in Int /\ f[k] \in Int /\ g[k] \in Int
    BY <1>1, <1>2, <1>4, <2>1
  <2> QED BY <2>2
<1>5. \A k \in 0..n : k \in S
  <2> HIDE DEF S
  <2> QED BY <1>3, <1>4, Inducao
<1> QED BY <1>1, <1>2, <1>5

-----------------------------------------------------------------------------
(* Induction over the subsets of a finite set: a family that holds a subset
   whenever it holds all the smaller ones it contains holds every subset. *)
LEMMA InducaoConjunto ==
    ASSUME NEW S, IsFiniteSet(S), NEW P,
           \A T \in SUBSET S : (\A U \in SUBSET T : U # T => U \in P) => T \in P
    PROVE  \A T \in SUBSET S : T \in P
<1> DEFINE F == {T \in SUBSET S : T \notin P}
           R == StrictSubsetOrdering(S)
<1>1. SUBSET S \subseteq FiniteSubsetsOf(S)
  BY FS_Subset DEF FiniteSubsetsOf
<1>2. IsWellFoundedOn(R, FiniteSubsetsOf(S))
  BY FS_StrictSubsetOrderingWellFounded
<1>3. SUFFICES ASSUME F # {} PROVE FALSE
  OBVIOUS
<1>4. F \subseteq FiniteSubsetsOf(S)
  BY <1>1
<1>5. \E X \in F : \A Y \in F : <<Y, X>> \notin R
  <2> HIDE DEF F, R
  <2> QED BY <1>2, <1>3, <1>4, WFMin
<1>6. PICK X \in F : \A Y \in F : <<Y, X>> \notin R
  BY <1>5
<1>7. \A U \in SUBSET X : U # X => <<U, X>> \in R
  <2> SUFFICES ASSUME NEW U \in SUBSET X, U # X PROVE <<U, X>> \in R
    OBVIOUS
  <2>1. U \in SUBSET S /\ X \in SUBSET S
    OBVIOUS
  <2> QED BY <2>1 DEF StrictSubsetOrdering
<1>8. \A U \in SUBSET X : U # X => U \in P
  <2> SUFFICES ASSUME NEW U \in SUBSET X, U # X PROVE U \in P
    OBVIOUS
  <2>1. U \notin F
    BY <1>6, <1>7
  <2>2. U \in SUBSET S
    OBVIOUS
  <2> QED BY <2>1, <2>2
<1> QED BY <1>8

(* The table of the folds of f over every subset of S. *)
Dobrada(g, f, S) ==
    g = [T \in SUBSET S |->
            IF T = {} THEN 0 ELSE LET x == CHOOSE x \in T : TRUE IN f[x] + g[T \ {x}]]

LEMMA DobradaExiste ==
    ASSUME NEW f, NEW S, IsFiniteSet(S), \A x \in S : f[x] \in Int
    PROVE  \E g \in [SUBSET S -> Int] : Dobrada(g, f, S)
<1> DEFINE n == Cardinality(S)
           Ate(m) == {T \in SUBSET S : Cardinality(T) <= m}
           Boa(g, m) == \A T \in Ate(m) : T # {} => g[T] = f[CHOOSE x \in T : TRUE]
                                                       + g[T \ {CHOOSE x \in T : TRUE}]
           N == {m \in 0..n : \E g \in [Ate(m) -> Int] : ({} \in Ate(m) => g[{}] = 0) /\ Boa(g, m)}
<1>0. n \in Nat
  BY FS_CardinalityType
<1>1. \A T \in SUBSET S : IsFiniteSet(T) /\ Cardinality(T) \in Nat /\ Cardinality(T) <= n
  BY FS_Subset, FS_CardinalityType
<1>2. \A T \in SUBSET S : T # {} =>
          LET x == CHOOSE x \in T : TRUE
          IN  x \in T /\ T \ {x} \in SUBSET S /\ Cardinality(T \ {x}) = Cardinality(T) - 1
  <2> SUFFICES ASSUME NEW T \in SUBSET S, T # {}
               PROVE  LET x == CHOOSE x \in T : TRUE
                      IN  x \in T /\ T \ {x} \in SUBSET S /\ Cardinality(T \ {x}) = Cardinality(T) - 1
    OBVIOUS
  <2> DEFINE x == CHOOSE x \in T : TRUE
  <2>1. x \in T
    OBVIOUS
  <2>2. Cardinality(T \ {x}) = Cardinality(T) - 1
    <3> HIDE DEF x
    <3> QED BY <2>1, <1>1, FS_RemoveElement
  <2> QED BY <2>1, <2>2
<1>3. 0 \in N
  <2> DEFINE z == [T \in Ate(0) |-> 0]
  <2>1. \A T \in Ate(0) : T = {}
    BY <1>1, FS_EmptySet
  <2>2. z \in [Ate(0) -> Int] /\ ({} \in Ate(0) => z[{}] = 0) /\ Boa(z, 0)
    BY <2>1
  <2>3. \E g \in [Ate(0) -> Int] : ({} \in Ate(0) => g[{}] = 0) /\ Boa(g, 0)
    <3> HIDE DEF z, Ate, Boa
    <3> QED BY <2>2
  <2> HIDE DEF z, Ate, Boa
  <2> QED BY <2>3, <1>0
<1>4. ASSUME NEW m \in 0..n, m # 0, m - 1 \in N PROVE m \in N
  <2>1. PICK h \in [Ate(m - 1) -> Int] : ({} \in Ate(m - 1) => h[{}] = 0) /\ Boa(h, m - 1)
    BY <1>4
  <2> DEFINE t == [T \in Ate(m) |-> IF Cardinality(T) <= m - 1 THEN h[T]
                                    ELSE f[CHOOSE x \in T : TRUE] + h[T \ {CHOOSE x \in T : TRUE}]]
  <2>2. \A T \in Ate(m) : Cardinality(T) <= m - 1 => T \in Ate(m - 1) /\ t[T] = h[T]
    OBVIOUS
  <2>3. \A T \in Ate(m) : T # {} => (T \ {CHOOSE x \in T : TRUE}) \in Ate(m - 1)
    BY <1>1, <1>2
  <2>4. ASSUME NEW T \in Ate(m), T # {}
        PROVE  t[T] = f[CHOOSE x \in T : TRUE] + h[T \ {CHOOSE x \in T : TRUE}]
    <3>1. CASE Cardinality(T) <= m - 1
      BY <3>1, <2>1, <2>2, <2>4
    <3>2. CASE ~(Cardinality(T) <= m - 1)
      BY <3>2
    <3> QED BY <3>1, <3>2
  <2>5. {} \in Ate(m) /\ {} \in Ate(m - 1) /\ t[{}] = h[{}]
    BY FS_EmptySet, <1>1, <1>4
  <2>6. ASSUME NEW T \in Ate(m) PROVE t[T] \in Int
    <3>1. CASE T = {}
      BY <2>5, <3>1, <2>1
    <3>2. CASE T # {}
      <4>1. f[CHOOSE x \in T : TRUE] \in Int
        BY <3>2, <1>2
      <4>2. h[T \ {CHOOSE x \in T : TRUE}] \in Int
        BY <3>2, <2>3, <2>1
      <4> HIDE DEF t
      <4> QED BY <3>2, <2>4, <4>1, <4>2
    <3> QED BY <3>1, <3>2
  <2>7. Boa(t, m)
    <3> SUFFICES ASSUME NEW T \in Ate(m), T # {}
                 PROVE  t[T] = f[CHOOSE x \in T : TRUE] + t[T \ {CHOOSE x \in T : TRUE}]
      OBVIOUS
    <3>1. t[T \ {CHOOSE x \in T : TRUE}] = h[T \ {CHOOSE x \in T : TRUE}]
      <4>1. (T \ {CHOOSE x \in T : TRUE}) \in Ate(m - 1)
        BY <2>3
      <4>2. Ate(m - 1) \subseteq Ate(m)
        BY <1>1, <1>4
      <4> HIDE DEF t
      <4> QED BY <4>1, <4>2, <2>2
    <3> HIDE DEF t
    <3> QED BY <3>1, <2>4
  <2>8. t \in [Ate(m) -> Int]
    <3> HIDE DEF Ate
    <3> QED BY <2>6
  <2>9. t[{}] = 0
    <3> HIDE DEF t
    <3> QED BY <2>1, <2>5
  <2> HIDE DEF t, Ate, Boa
  <2> QED BY <2>7, <2>8, <2>9
<1>5. n \in N
  <2> HIDE DEF N
  <2> QED BY <1>0, <1>3, <1>4, Inducao
<1>6. PICK g \in [Ate(n) -> Int] : ({} \in Ate(n) => g[{}] = 0) /\ Boa(g, n)
  BY <1>5
<1>7. Ate(n) = SUBSET S
  BY <1>1
<1>8. g \in [SUBSET S -> Int] /\ g[{}] = 0 /\ \A T \in SUBSET S : T # {} =>
         g[T] = f[CHOOSE x \in T : TRUE] + g[T \ {CHOOSE x \in T : TRUE}]
  BY <1>6, <1>7
<1>9. Dobrada(g, f, S)
  BY <1>8 DEF Dobrada
<1> QED BY <1>8, <1>9

(* The folds of the community modules, named so that a proof can speak of them. *)
DobraEm(f, S) == FoldFunctionOnSet(+, 0, f, S)
Dobra(f) == FoldFunction(+, 0, f)

(* What is known of a table of folds. *)
TabelaDeDobras(g, f, S) ==
    /\ g[{}] = 0
    /\ \A T \in SUBSET S : T # {} => \E x \in T :
          x = (CHOOSE y \in T : TRUE) /\ g[T] = f[x] + g[T \ {x}]
    /\ \A T \in SUBSET S : g[T] \in Int

(* The fold is the last entry of its table. *)
LEMMA DobraDe ==
    ASSUME NEW f, NEW S, IsFiniteSet(S), \A x \in S : f[x] \in Int
    PROVE  \E g : DobraEm(f, S) = g[S] /\ TabelaDeDobras(g, f, S)
<1> DEFINE g == CHOOSE h : Dobrada(h, f, S)
<1>1. DobraEm(f, S) = g[S]
  BY DEF DobraEm, FoldFunctionOnSet, MapThenFoldSet, Dobrada
<1>2. Dobrada(g, f, S)
  BY DobradaExiste
<1> HIDE DEF g
<1>3. g[{}] = 0
  BY <1>2 DEF Dobrada
<1>4. \A T \in SUBSET S : T # {} => \E x \in T :
         x = (CHOOSE y \in T : TRUE) /\ g[T] = f[x] + g[T \ {x}]
  BY <1>2 DEF Dobrada
<1>5. \A T \in SUBSET S : g[T] \in Int
  <2> DEFINE P == {T \in SUBSET S : g[T] \in Int}
  <2>1. ASSUME NEW T \in SUBSET S, \A U \in SUBSET T : U # T => U \in P PROVE T \in P
    <3>1. CASE T = {}
      BY <3>1, <1>3
    <3>2. CASE T # {}
      <4>1. PICK x \in T : g[T] = f[x] + g[T \ {x}]
        BY <3>2, <1>4
      <4>2. T \ {x} \in P
        BY <2>1
      <4> QED BY <4>1, <4>2
    <3> QED BY <3>1, <3>2
  <2>2. \A T \in SUBSET S : T \in P
    <3> HIDE DEF P
    <3> QED BY <2>1, InducaoConjunto
  <2> QED BY <2>2
<1>6. TabelaDeDobras(g, f, S)
  BY <1>3, <1>4, <1>5 DEF TabelaDeDobras
<1> QED BY <1>1, <1>6

(* Two tables of values that agree on a set have the same fold over it, whatever
   else they hold: a fold is a matter of the set alone. *)
LEMMA DobraConcorda ==
    ASSUME NEW S, IsFiniteSet(S), NEW f, NEW h, NEW W, S \subseteq W,
           \A x \in S : h[x] = f[x] /\ f[x] \in Int, NEW g, TabelaDeDobras(g, f, W)
    PROVE  g[S] = DobraEm(h, S)
<1>1. PICK k : DobraEm(h, S) = k[S] /\ TabelaDeDobras(k, h, S)
  <2>1. \A x \in S : h[x] \in Int
    OBVIOUS
  <2> QED BY <2>1, DobraDe
<1> DEFINE P == {T \in SUBSET S : g[T] = k[T]}
<1>2. ASSUME NEW T \in SUBSET S, \A U \in SUBSET T : U # T => U \in P PROVE T \in P
  <2>1. CASE T = {}
    BY <2>1, <1>1 DEF TabelaDeDobras
  <2>2. CASE T # {}
    <3>1. PICK x \in T : x = (CHOOSE y \in T : TRUE) /\ k[T] = h[x] + k[T \ {x}]
      BY <2>2, <1>1 DEF TabelaDeDobras
    <3>2. PICK z \in T : z = (CHOOSE y \in T : TRUE) /\ g[T] = f[z] + g[T \ {z}]
      BY <2>2 DEF TabelaDeDobras
    <3>3. x = z /\ h[x] = f[x]
      BY <3>1, <3>2
    <3>4. g[T \ {x}] = k[T \ {x}]
      BY <1>2
    <3> QED BY <3>1, <3>2, <3>3, <3>4
  <2> QED BY <2>1, <2>2
<1>3. S \in P
  <2> HIDE DEF P
  <2> QED BY <1>2, InducaoConjunto
<1> QED BY <1>3, <1>1

LEMMA DobraIgual ==
    ASSUME NEW S, IsFiniteSet(S), NEW f, NEW h, \A x \in S : h[x] = f[x] /\ f[x] \in Int
    PROVE  DobraEm(f, S) = DobraEm(h, S)
<1>1. \A x \in S : f[x] \in Int
  OBVIOUS
<1>2. PICK g : DobraEm(f, S) = g[S] /\ TabelaDeDobras(g, f, S)
  BY <1>1, DobraDe
<1> QED BY <1>2, DobraConcorda

LEMMA TrocaSomas ==
    ASSUME NEW a \in Int, NEW b \in Int, NEW c \in Int
    PROVE  a + (b + c) = b + (a + c)
OBVIOUS

(* The sums over every subset of the rows S, taken in any order. *)
SomasIntermedias(g, f, S) ==
    /\ g[{}] = 0
    /\ \A T \in SUBSET S : g[T] \in Int /\ \A p \in T : g[T] = f[p] + g[T \ {p}]

(* The order of a fold of sums does not matter. *)
LEMMA DobraParciais ==
    ASSUME NEW S, IsFiniteSet(S), NEW f, \A x \in S : f[x] \in Int
    PROVE  \E g : DobraEm(f, S) = g[S] /\ TabelaDeDobras(g, f, S) /\ SomasIntermedias(g, f, S)
<1>1. PICK g : DobraEm(f, S) = g[S] /\ TabelaDeDobras(g, f, S)
  BY DobraDe
<1> DEFINE P == {T \in SUBSET S : \A x \in T : g[T] = f[x] + g[T \ {x}]}
<1>2. ASSUME NEW T \in SUBSET S, \A U \in SUBSET T : U # T => U \in P PROVE T \in P
  <2> SUFFICES ASSUME NEW x \in T PROVE g[T] = f[x] + g[T \ {x}]
    OBVIOUS
  <2>1. PICK y \in T : g[T] = f[y] + g[T \ {y}]
    BY <1>1 DEF TabelaDeDobras
  <2>2. CASE x = y
    BY <2>1, <2>2
  <2>3. CASE x # y
    <3>1. T \ {y} \in P /\ x \in T \ {y} /\ T \ {x} \in P /\ y \in T \ {x}
      BY <1>2, <2>3
    <3>2. g[T \ {y}] = f[x] + g[(T \ {y}) \ {x}] /\ g[T \ {x}] = f[y] + g[(T \ {x}) \ {y}]
      BY <3>1
    <3>3. (T \ {y}) \ {x} = (T \ {x}) \ {y}
      OBVIOUS
    <3>4. f[x] \in Int /\ f[y] \in Int /\ g[(T \ {x}) \ {y}] \in Int
      <4>1. (T \ {x}) \ {y} \in SUBSET S
        OBVIOUS
      <4> QED BY <1>1, <4>1 DEF TabelaDeDobras
    <3>5. g[T] = f[y] + (f[x] + g[(T \ {x}) \ {y}])
      BY <2>1, <3>2, <3>3
    <3> QED BY <3>2, <3>4, <3>5, TrocaSomas
  <2> QED BY <2>2, <2>3
<1>3. \A T \in SUBSET S : T \in P
  <2> HIDE DEF P
  <2> QED BY <1>2, InducaoConjunto
<1>4. SomasIntermedias(g, f, S)
  BY <1>1, <1>3 DEF SomasIntermedias, TabelaDeDobras
<1> QED BY <1>1, <1>4

-----------------------------------------------------------------------------
(* FoldFunction(+, 0, f) over a finite set. *)
LEMMA FoldParciais ==
    ASSUME NEW f, IsFiniteSet(DOMAIN f), \A x \in DOMAIN f : f[x] \in Int
    PROVE  \E g : Dobra(f) = g[DOMAIN f] /\ SomasIntermedias(g, f, DOMAIN f)
<1>1. Dobra(f) = DobraEm(f, DOMAIN f)
  BY DEF Dobra, DobraEm, FoldFunction
<1> QED BY <1>1, DobraParciais

LEMMA FoldVazia ==
    ASSUME NEW f, DOMAIN f = {}
    PROVE  Dobra(f) = 0
<1>1. IsFiniteSet(DOMAIN f) /\ \A x \in DOMAIN f : f[x] \in Int
  BY FS_EmptySet
<1>2. PICK g : Dobra(f) = g[DOMAIN f] /\ SomasIntermedias(g, f, DOMAIN f)
  BY <1>1, FoldParciais
<1> QED BY <1>2 DEF SomasIntermedias

LEMMA FoldInteira ==
    ASSUME NEW f, IsFiniteSet(DOMAIN f), \A x \in DOMAIN f : f[x] \in Int
    PROVE  Dobra(f) \in Int
<1>1. PICK g : Dobra(f) = g[DOMAIN f] /\ SomasIntermedias(g, f, DOMAIN f)
  BY FoldParciais
<1> QED BY <1>1 DEF SomasIntermedias

(* The rows of h are those of f but for p: their sums differ by f[p]. *)
LEMMA FoldTira ==
    ASSUME NEW f, IsFiniteSet(DOMAIN f), \A x \in DOMAIN f : f[x] \in Int, NEW p \in DOMAIN f,
           NEW h, DOMAIN h = DOMAIN f \ {p}, \A x \in DOMAIN h : h[x] = f[x]
    PROVE  Dobra(f) = f[p] + Dobra(h)
<1> DEFINE S == DOMAIN f
           U == S \ {p}
<1>1. Dobra(f) = DobraEm(f, S) /\ Dobra(h) = DobraEm(h, U)
  BY DEF Dobra, DobraEm, FoldFunction
<1>2. PICK g : DobraEm(f, S) = g[S] /\ TabelaDeDobras(g, f, S) /\ SomasIntermedias(g, f, S)
  BY DobraParciais
<1>3. IsFiniteSet(U) /\ U \subseteq S /\ \A x \in U : h[x] = f[x] /\ f[x] \in Int
  BY FS_RemoveElement
<1>4. g[U] = DobraEm(h, U)
  <2> HIDE DEF S, U
  <2> QED BY <1>2, <1>3, DobraConcorda
<1> QED BY <1>1, <1>2, <1>4 DEF SomasIntermedias

LEMMA SomaOrdem ==
    ASSUME NEW a \in Int, NEW b \in Int, NEW c \in Int, NEW d \in Int, a <= b, c <= d
    PROVE  a + c <= b + d
OBVIOUS

(* Fewer and smaller rows have a smaller sum. *)
LEMMA FoldMonotona ==
    ASSUME NEW f, NEW h, IsFiniteSet(DOMAIN h), DOMAIN f \subseteq DOMAIN h,
           \A x \in DOMAIN f : f[x] \in Int /\ f[x] <= h[x],
           \A x \in DOMAIN h : h[x] \in Nat
    PROVE  Dobra(f) \in Int /\ Dobra(h) \in Int /\ Dobra(f) <= Dobra(h)
<1> DEFINE S == DOMAIN h
           W == DOMAIN f
<1>1. IsFiniteSet(W) /\ (\A x \in W : f[x] \in Int) /\ \A x \in S : h[x] \in Int
  BY FS_Subset
<1>2. PICK F : Dobra(f) = F[W] /\ SomasIntermedias(F, f, W)
  BY <1>1, FoldParciais
<1>3. PICK H : Dobra(h) = H[S] /\ SomasIntermedias(H, h, S)
  BY <1>1, FoldParciais
<1> DEFINE P == {T \in SUBSET S : F[T \cap W] <= H[T]}
<1>4. ASSUME NEW T \in SUBSET S, \A U \in SUBSET T : U # T => U \in P PROVE T \in P
  <2>1. CASE T = {}
    <3>1. T \cap W = {}
      BY <2>1
    <3> QED BY <2>1, <3>1, <1>2, <1>3 DEF SomasIntermedias
  <2>2. CASE T # {}
    <3>1. PICK p \in T : TRUE
      BY <2>2
    <3> DEFINE U == T \ {p}
    <3>2. F[U \cap W] <= H[U]
      BY <1>4
    <3>3. H[T] = h[p] + H[U] /\ h[p] \in Nat /\ H[U] \in Int /\ F[U \cap W] \in Int
      BY <1>2, <1>3 DEF SomasIntermedias
    <3>4. CASE p \in W
      <4>1. (T \cap W) \ {p} = U \cap W
        OBVIOUS
      <4>2. F[T \cap W] = f[p] + F[U \cap W]
        BY <1>2, <3>4, <4>1 DEF SomasIntermedias
      <4>3. f[p] \in Int /\ h[p] \in Int /\ f[p] <= h[p]
        BY <3>4, <3>3
      <4>4. F[T \cap W] <= H[T]
        BY <3>2, <3>3, <4>2, <4>3, SomaOrdem
      <4> QED BY <4>4
    <3>5. CASE p \notin W
      <4>1. T \cap W = U \cap W
        BY <3>5
      <4>2. F[T \cap W] = F[U \cap W]
        BY <4>1
      <4> HIDE DEF U
      <4>3. F[T \cap W] <= H[T]
        BY <4>2, <3>2, <3>3
      <4> QED BY <4>3
    <3> QED BY <3>4, <3>5
  <2> QED BY <2>1, <2>2
<1>5. S \in P
  <2> HIDE DEF P, S
  <2>1. \A T \in SUBSET S : T \in P
    BY <1>4, InducaoConjunto DEF S
  <2> QED BY <2>1
<1>6. S \cap W = W
  OBVIOUS
<1> QED BY <1>2, <1>3, <1>5, <1>6 DEF SomasIntermedias

(* Rows left out that add nothing only raise the sum. *)
LEMMA FoldRestrita ==
    ASSUME NEW f, NEW h, IsFiniteSet(DOMAIN f), DOMAIN h \subseteq DOMAIN f,
           \A x \in DOMAIN f : f[x] \in Int,
           \A x \in DOMAIN h : h[x] = f[x],
           \A x \in DOMAIN f \ DOMAIN h : f[x] <= 0
    PROVE  Dobra(f) <= Dobra(h)
<1> DEFINE S == DOMAIN f
           W == DOMAIN h
<1>1. IsFiniteSet(W) /\ (\A x \in W : h[x] \in Int)
  BY FS_Subset
<1>2. PICK F : Dobra(f) = F[S] /\ SomasIntermedias(F, f, S)
  BY FoldParciais
<1>3. PICK H : Dobra(h) = H[W] /\ SomasIntermedias(H, h, W)
  BY <1>1, FoldParciais
<1> DEFINE P == {T \in SUBSET S : F[T] <= H[T \cap W]}
<1>4. ASSUME NEW T \in SUBSET S, \A U \in SUBSET T : U # T => U \in P PROVE T \in P
  <2>1. CASE T = {}
    <3>1. T \cap W = {}
      BY <2>1
    <3> QED BY <2>1, <3>1, <1>2, <1>3 DEF SomasIntermedias
  <2>2. CASE T # {}
    <3>1. PICK p \in T : TRUE
      BY <2>2
    <3> DEFINE U == T \ {p}
    <3>2. F[U] <= H[U \cap W]
      BY <1>4
    <3>3. F[T] = f[p] + F[U] /\ f[p] \in Int /\ F[U] \in Int /\ H[U \cap W] \in Int
      BY <1>2, <1>3 DEF SomasIntermedias
    <3>4. CASE p \in W
      <4>1. (T \cap W) \ {p} = U \cap W
        OBVIOUS
      <4>2. H[T \cap W] = f[p] + H[U \cap W]
        BY <1>3, <3>4, <4>1 DEF SomasIntermedias
      <4> HIDE DEF U
      <4>3. F[T] <= H[T \cap W]
        BY <3>2, <3>3, <4>2, SomaOrdem
      <4> QED BY <4>3
    <3>5. CASE p \notin W
      <4>1. T \cap W = U \cap W
        BY <3>5
      <4>2. H[T \cap W] = H[U \cap W] /\ f[p] <= 0
        BY <3>5, <4>1
      <4> HIDE DEF U
      <4>3. F[T] <= H[T \cap W]
        BY <4>2, <3>2, <3>3
      <4> QED BY <4>3
    <3> QED BY <3>4, <3>5
  <2> QED BY <2>1, <2>2
<1>5. S \in P
  <2> HIDE DEF P, S
  <2>1. \A T \in SUBSET S : T \in P
    BY <1>4, InducaoConjunto DEF S
  <2> QED BY <2>1
<1>6. S \cap W = W
  OBVIOUS
<1> QED BY <1>2, <1>3, <1>5, <1>6 DEF SomasIntermedias

LEMMA FoldNatural ==
    ASSUME NEW f, IsFiniteSet(DOMAIN f), \A x \in DOMAIN f : f[x] \in Nat
    PROVE  Dobra(f) \in Nat
<1> DEFINE z == [x \in {} |-> 0]
<1>1. DOMAIN z = {}
  OBVIOUS
<1>2. Dobra(z) = 0
  <2> HIDE DEF z
  <2> QED BY <1>1, FoldVazia
<1>3. DOMAIN z \subseteq DOMAIN f /\ \A x \in DOMAIN z : z[x] \in Int /\ z[x] <= f[x]
  OBVIOUS
<1>4. Dobra(f) \in Int /\ Dobra(z) <= Dobra(f)
  <2> HIDE DEF z
  <2> QED BY <1>3, FoldMonotona
<1> HIDE DEF z
<1> QED BY <1>2, <1>4

(* Row by row: the sum of sums, of multiples, and of zeros and ones. *)
LEMMA TrocaQuatro ==
    ASSUME NEW a \in Int, NEW b \in Int, NEW c \in Int, NEW d \in Int
    PROVE  (a + b) + (c + d) = (a + c) + (b + d)
OBVIOUS

LEMMA FoldSoma ==
    ASSUME NEW S, IsFiniteSet(S), NEW f, NEW h, NEW t,
           DOMAIN f = S, DOMAIN h = S, DOMAIN t = S,
           \A x \in S : f[x] \in Int /\ h[x] \in Int /\ t[x] = f[x] + h[x]
    PROVE  Dobra(t) = Dobra(f) + Dobra(h)
<1>1. (\A x \in S : f[x] \in Int) /\ (\A x \in S : h[x] \in Int) /\ \A x \in S : t[x] \in Int
  OBVIOUS
<1>2. PICK F : Dobra(f) = F[S] /\ SomasIntermedias(F, f, S)
  BY <1>1, FoldParciais
<1>3. PICK H : Dobra(h) = H[S] /\ SomasIntermedias(H, h, S)
  BY <1>1, FoldParciais
<1>4. PICK G : Dobra(t) = G[S] /\ SomasIntermedias(G, t, S)
  BY <1>1, FoldParciais
<1> DEFINE P == {T \in SUBSET S : G[T] = F[T] + H[T]}
<1>5. ASSUME NEW T \in SUBSET S, \A U \in SUBSET T : U # T => U \in P PROVE T \in P
  <2>1. CASE T = {}
    BY <2>1, <1>2, <1>3, <1>4 DEF SomasIntermedias
  <2>2. CASE T # {}
    <3>1. PICK p \in T : TRUE
      BY <2>2
    <3> DEFINE U == T \ {p}
    <3>2. G[U] = F[U] + H[U]
      BY <1>5
    <3>3. /\ F[T] = f[p] + F[U] /\ H[T] = h[p] + H[U] /\ G[T] = t[p] + G[U]
          /\ F[U] \in Int /\ H[U] \in Int /\ f[p] \in Int /\ h[p] \in Int
          /\ t[p] = f[p] + h[p]
      BY <1>2, <1>3, <1>4 DEF SomasIntermedias
    <3> HIDE DEF U
    <3>4. G[T] = F[T] + H[T]
      BY <3>2, <3>3, TrocaQuatro
    <3> QED BY <3>4
  <2> QED BY <2>1, <2>2
<1>6. \A T \in SUBSET S : T \in P
  <2> HIDE DEF P
  <2> QED BY <1>5, InducaoConjunto
<1> QED BY <1>2, <1>3, <1>4, <1>6

LEMMA Distribui ==
    ASSUME NEW c \in Int, NEW a \in Int, NEW b \in Int
    PROVE  c * (a + b) = c * a + c * b
OBVIOUS

LEMMA FoldVezes ==
    ASSUME NEW S, IsFiniteSet(S), NEW f, NEW h, NEW c \in Int,
           DOMAIN f = S, DOMAIN h = S,
           \A x \in S : f[x] \in Int /\ h[x] = c * f[x]
    PROVE  Dobra(h) = c * Dobra(f)
<1>1. (\A x \in S : f[x] \in Int) /\ \A x \in S : h[x] \in Int
  OBVIOUS
<1>2. PICK F : Dobra(f) = F[S] /\ SomasIntermedias(F, f, S)
  BY <1>1, FoldParciais
<1>3. PICK H : Dobra(h) = H[S] /\ SomasIntermedias(H, h, S)
  BY <1>1, FoldParciais
<1> DEFINE P == {T \in SUBSET S : H[T] = c * F[T]}
<1>4. ASSUME NEW T \in SUBSET S, \A U \in SUBSET T : U # T => U \in P PROVE T \in P
  <2>1. CASE T = {}
    BY <2>1, <1>2, <1>3 DEF SomasIntermedias
  <2>2. CASE T # {}
    <3>1. PICK p \in T : TRUE
      BY <2>2
    <3> DEFINE U == T \ {p}
    <3>2. H[U] = c * F[U]
      BY <1>4
    <3>3. /\ F[T] = f[p] + F[U] /\ H[T] = h[p] + H[U]
          /\ F[U] \in Int /\ f[p] \in Int /\ h[p] = c * f[p]
      BY <1>2, <1>3 DEF SomasIntermedias
    <3> HIDE DEF U
    <3>4. H[T] = c * F[T]
      BY <3>2, <3>3, Distribui
    <3> QED BY <3>4
  <2> QED BY <2>1, <2>2
<1>5. \A T \in SUBSET S : T \in P
  <2> HIDE DEF P
  <2> QED BY <1>4, InducaoConjunto
<1> QED BY <1>2, <1>3, <1>5

LEMMA FoldContagem ==
    ASSUME NEW S, IsFiniteSet(S), NEW C \in SUBSET S, NEW f, DOMAIN f = S,
           \A x \in S : f[x] = IF x \in C THEN 1 ELSE 0
    PROVE  Dobra(f) = Cardinality(C)
<1>1. \A x \in S : f[x] \in Int
  OBVIOUS
<1>2. PICK F : Dobra(f) = F[S] /\ SomasIntermedias(F, f, S)
  BY <1>1, FoldParciais
<1> DEFINE P == {T \in SUBSET S : F[T] = Cardinality(T \cap C)}
<1>3. ASSUME NEW T \in SUBSET S, \A U \in SUBSET T : U # T => U \in P PROVE T \in P
  <2>1. CASE T = {}
    <3>1. T \cap C = {} /\ F[T] = 0
      BY <2>1, <1>2 DEF SomasIntermedias
    <3> QED BY <3>1, FS_EmptySet
  <2>2. CASE T # {}
    <3>1. PICK p \in T : TRUE
      BY <2>2
    <3> DEFINE U == T \ {p}
    <3>2. F[U] = Cardinality(U \cap C)
      BY <1>3
    <3>3. F[T] = f[p] + F[U]
      BY <1>2 DEF SomasIntermedias
    <3>4. IsFiniteSet(T \cap C) /\ Cardinality(T \cap C) \in Nat
      BY FS_Subset, FS_CardinalityType
    <3>5. Cardinality((T \cap C) \ {p})
          = IF p \in T \cap C THEN Cardinality(T \cap C) - 1 ELSE Cardinality(T \cap C)
      BY <3>4, FS_RemoveElement
    <3>6. (T \cap C) \ {p} = U \cap C
      OBVIOUS
    <3>7. Cardinality(U \cap C) = Cardinality(T \cap C) - f[p] /\ f[p] \in Int
      <4>1. f[p] = IF p \in T \cap C THEN 1 ELSE 0
        OBVIOUS
      <4>2. Cardinality(U \cap C) = Cardinality((T \cap C) \ {p})
        BY <3>6
      <4> HIDE DEF U
      <4> QED BY <3>4, <3>5, <4>1, <4>2
    <3> HIDE DEF U
    <3>8. F[T] = Cardinality(T \cap C)
      BY <3>2, <3>3, <3>4, <3>7
    <3> QED BY <3>8
  <2> QED BY <2>1, <2>2
<1>4. \A T \in SUBSET S : T \in P
  <2> HIDE DEF P
  <2> QED BY <1>3, InducaoConjunto
<1>5. S \cap C = C
  OBVIOUS
<1> QED BY <1>2, <1>4, <1>5

(* A table with two keys, whose rows for each first key add up to no more than
   the limit of that key, adds up to no more than the limits together. *)
LEMMA FoldLinhas ==
    ASSUME NEW A, IsFiniteSet(A), NEW B, IsFiniteSet(B),
           NEW f, DOMAIN f = A \X B, \A x \in A \X B : f[x] \in Int,
           NEW L, DOMAIN L = A, \A a \in A : L[a] \in Int,
           \A a \in A : Dobra([b \in B |-> f[<<a, b>>]]) <= L[a]
    PROVE  Dobra(f) <= Dobra(L)
<1>0. IsFiniteSet(A \X B)
  BY FS_Product
<1>1. PICK F : Dobra(f) = F[A \X B] /\ SomasIntermedias(F, f, A \X B)
  BY <1>0, FoldParciais
<1>2. PICK M : Dobra(L) = M[A] /\ SomasIntermedias(M, L, A)
  BY FoldParciais
<1>3. ASSUME NEW T \in SUBSET A, NEW a \in T
      PROVE  /\ F[T \X B] = Dobra([b \in B |-> f[<<a, b>>]]) + F[(T \ {a}) \X B]
             /\ Dobra([b \in B |-> f[<<a, b>>]]) \in Int
  <2> DEFINE h == [b \in B |-> f[<<a, b>>]]
             R == (T \ {a}) \X B
             K(U) == R \cup ({a} \X U)
  <2>1. DOMAIN h = B /\ \A b \in B : h[b] = f[<<a, b>>] /\ h[b] \in Int
    OBVIOUS
  <2> HIDE DEF h
  <2>2. PICK H : Dobra(h) = H[B] /\ SomasIntermedias(H, h, B)
    BY <2>1, FoldParciais
  <2> DEFINE P == {U \in SUBSET B : F[K(U)] = H[U] + F[R]}
  <2>3. F[R] \in Int
    BY <1>1 DEF SomasIntermedias
  <2>4. ASSUME NEW U \in SUBSET B, \A V \in SUBSET U : V # U => V \in P PROVE U \in P
    <3>1. CASE U = {}
      <4>1. K(U) = R /\ H[U] = 0
        BY <3>1, <2>2 DEF SomasIntermedias
      <4> HIDE DEF K, R
      <4> QED BY <4>1, <2>3
    <3>2. CASE U # {}
      <4>1. PICK b \in U : TRUE
        BY <3>2
      <4> DEFINE V == U \ {b}
      <4>2. F[K(V)] = H[V] + F[R]
        <5> HIDE DEF K, R
        <5> QED BY <2>4
      <4>3. K(U) \in SUBSET (A \X B) /\ <<a, b>> \in K(U) /\ K(U) \ {<<a, b>>} = K(V)
        OBVIOUS
      <4>4. F[K(U)] = f[<<a, b>>] + F[K(V)]
        <5>1. \A X \in SUBSET (A \X B) : \A x \in X : F[X] = f[x] + F[X \ {x}]
          BY <1>1 DEF SomasIntermedias
        <5> HIDE DEF K, V
        <5> QED BY <4>3, <5>1
      <4>5. H[U] = h[b] + H[V] /\ H[V] \in Int /\ h[b] \in Int /\ h[b] = f[<<a, b>>]
        BY <2>1, <2>2 DEF SomasIntermedias
      <4> HIDE DEF K, R, V
      <4>6. F[K(U)] = H[U] + F[R]
        BY <4>2, <4>4, <4>5, <2>3
      <4> QED BY <4>6
    <3> QED BY <3>1, <3>2
  <2>5. \A U \in SUBSET B : U \in P
    <3> HIDE DEF P
    <3> QED BY <2>4, InducaoConjunto
  <2>6. F[K(B)] = H[B] + F[R]
    <3> HIDE DEF K, R
    <3> QED BY <2>5
  <2>7. K(B) = T \X B
    OBVIOUS
  <2>8. Dobra(h) \in Int
    BY <2>2 DEF SomasIntermedias
  <2> HIDE DEF K, R
  <2>9. F[T \X B] = Dobra(h) + F[R] /\ Dobra(h) \in Int
    BY <2>2, <2>6, <2>7, <2>8
  <2> QED BY <2>9 DEF h, R
<1> DEFINE Q == {T \in SUBSET A : F[T \X B] <= M[T]}
<1>4. ASSUME NEW T \in SUBSET A, \A U \in SUBSET T : U # T => U \in Q PROVE T \in Q
  <2>1. CASE T = {}
    <3>1. T \X B = {}
      BY <2>1
    <3>2. F[T \X B] = 0 /\ M[T] = 0
      BY <2>1, <3>1, <1>1, <1>2 DEF SomasIntermedias
    <3> QED BY <3>2
  <2>2. CASE T # {}
    <3>1. PICK a \in T : TRUE
      BY <2>2
    <3> DEFINE U == T \ {a}
               d == Dobra([b \in B |-> f[<<a, b>>]])
    <3>2. F[U \X B] <= M[U]
      BY <1>4
    <3>3. F[T \X B] = d + F[U \X B] /\ d \in Int /\ d <= L[a]
      BY <1>3
    <3>4. M[T] = L[a] + M[U] /\ M[U] \in Int /\ L[a] \in Int
      BY <1>2 DEF SomasIntermedias
    <3>5. F[U \X B] \in Int
      <4>1. U \X B \in SUBSET (A \X B)
        OBVIOUS
      <4> QED BY <4>1, <1>1 DEF SomasIntermedias
    <3> HIDE DEF U, d
    <3>6. F[T \X B] <= M[T]
      BY <3>2, <3>3, <3>4, <3>5, SomaOrdem
    <3> QED BY <3>6
  <2> QED BY <2>1, <2>2
<1>5. \A T \in SUBSET A : T \in Q
  <2> HIDE DEF Q
  <2> QED BY <1>4, InducaoConjunto
<1> QED BY <1>1, <1>2, <1>5
=============================================================================
