---------------------------- MODULE ProducaoProofs ----------------------------
(***************************************************************************)
(* What is proved of productions, for every lot, price, number of stages   *)
(* and split of their weights: that a production has one origin, that work *)
(* and payouts rest on units already used, that stages respect their       *)
(* order, and that neither the reservations of a lot nor the payouts of a  *)
(* contract add up to more than there is, whatever the rounding.           *)
(***************************************************************************)
EXTENDS Producao, SomasProofs

-----------------------------------------------------------------------------
(* The largest-remainder split. *)

LEMMA Quociente ==
    ASSUME NEW a \in Nat, NEW b \in Nat, b # 0
    PROVE  /\ a \div b \in Nat /\ b * (a \div b) <= a
           /\ a % b \in Nat
OBVIOUS

LEMMA Divide ==
    ASSUME NEW a \in Nat, NEW n \in Nat, n # 0
    PROVE  a \div n \in Nat /\ n * (a \div n) <= a /\ a < n * (a \div n) + n
OBVIOUS

LEMMA MenorFator ==
    ASSUME NEW a \in Int, NEW b \in Int, NEW c \in Nat, c # 0, c * a <= c * b
    PROVE  a <= b
<1>1. SUFFICES ASSUME b < a PROVE FALSE
  OBVIOUS
<1>2. a - b - 1 \in Nat
  BY <1>1
<1>3. c * (a - b - 1) >= 0
  BY <1>2
<1>4. c * (a - b - 1) = c * a - c * b - c
  OBVIOUS
<1> QED BY <1>3, <1>4

(* A table of weights. *)
Tabelada(w) ==
    /\ IsFiniteSet(DOMAIN w) /\ DOMAIN w \subseteq Nat
    /\ \A k \in DOMAIN w : w[k] \in Nat

(* The spare cents are handed out in a strict order: no two shares come as late. *)
LEMMA VezUnica ==
    ASSUME NEW w, Tabelada(w), NEW total \in Nat, Total(w) \in Nat, Total(w) # 0
    PROVE  /\ \A i \in DOMAIN w : Vez(total, w, i) \in Nat
           /\ \A i, j \in DOMAIN w : i # j => Vez(total, w, i) # Vez(total, w, j)
<1> DEFINE r(k) == (total * w[k]) % Total(w)
           A(i) == {k \in DOMAIN w : r(k) > r(i) \/ (r(k) = r(i) /\ k < i)}
<1>1. \A k \in DOMAIN w : r(k) \in Nat
  <2> TAKE k \in DOMAIN w
  <2>1. total * w[k] \in Nat
    BY DEF Tabelada
  <2> QED BY <2>1, Quociente
<1>2. \A i \in DOMAIN w : Vez(total, w, i) = Cardinality(A(i))
  BY DEF Vez
<1>3. \A i \in DOMAIN w : IsFiniteSet(A(i)) /\ Cardinality(A(i)) \in Nat
  <2> TAKE i \in DOMAIN w
  <2>1. A(i) \in SUBSET DOMAIN w /\ IsFiniteSet(DOMAIN w)
    BY DEF Tabelada
  <2> HIDE DEF A
  <2> QED BY <2>1, FS_Subset, FS_CardinalityType
<1>4. ASSUME NEW i \in DOMAIN w, NEW j \in DOMAIN w, i \in A(j)
      PROVE  Cardinality(A(i)) # Cardinality(A(j))
  <2> HIDE DEF r
  <2>1. A(i) \in SUBSET A(j)
    <3>1. SUFFICES ASSUME NEW k \in A(i) PROVE k \in A(j)
      OBVIOUS
    <3>2. r(k) \in Nat /\ r(i) \in Nat /\ r(j) \in Nat /\ k \in Nat /\ i \in Nat /\ j \in Nat
      BY <1>1 DEF Tabelada
    <3> QED BY <1>4, <3>2
  <2>2. i \notin A(i)
    BY <1>1 DEF Tabelada
  <2> HIDE DEF A
  <2> QED BY <1>3, <1>4, <2>1, <2>2, FS_Subset
<1>5. ASSUME NEW i \in DOMAIN w, NEW j \in DOMAIN w, i # j
      PROVE  i \in A(j) \/ j \in A(i)
  <2> HIDE DEF r
  <2>1. r(i) \in Nat /\ r(j) \in Nat /\ i \in Nat /\ j \in Nat
    BY <1>1 DEF Tabelada
  <2> QED BY <1>5, <2>1
<1> HIDE DEF A
<1> QED BY <1>2, <1>3, <1>4, <1>5

(* The places in the queue for the spare cents are 0, 1, ..., one for each share. *)
LEMMA VezLimitada ==
    ASSUME NEW w, Tabelada(w), NEW total \in Nat, Total(w) \in Nat, Total(w) # 0,
           NEW i \in DOMAIN w
    PROVE  /\ Cardinality(DOMAIN w) \in Nat
           /\ Vez(total, w, i) <= Cardinality(DOMAIN w) - 1
<1> DEFINE S == DOMAIN w
           r(k) == (total * w[k]) % Total(w)
           A == {k \in S : r(k) > r(i) \/ (r(k) = r(i) /\ k < i)}
<1>1. IsFiniteSet(S) /\ Cardinality(S) \in Nat
  BY FS_CardinalityType DEF Tabelada
<1>2. Vez(total, w, i) = Cardinality(A)
  BY DEF Vez
<1>3. i \notin A
  <2>1. total * w[i] \in Nat /\ i \in Nat
    BY DEF Tabelada
  <2>2. r(i) \in Nat
    BY <2>1, Quociente
  <2> HIDE DEF r
  <2> QED BY <2>1, <2>2
<1>4. A \in SUBSET (S \ {i})
  BY <1>3
<1> HIDE DEF A
<1>5. IsFiniteSet(S \ {i}) /\ Cardinality(S \ {i}) = Cardinality(S) - 1
  BY <1>1, FS_RemoveElement
<1>6. Cardinality(A) <= Cardinality(S \ {i})
  BY <1>4, <1>5, FS_Subset
<1> QED BY <1>1, <1>2, <1>5, <1>6

(* As many shares as there are spare cents get one. *)
LEMMA SobraExata ==
    ASSUME NEW w, Tabelada(w), NEW total \in Nat, Total(w) \in Nat, Total(w) # 0,
           NEW sobra \in Nat, sobra <= Cardinality(DOMAIN w)
    PROVE  Cardinality({i \in DOMAIN w : Vez(total, w, i) < sobra}) = sobra
<1> DEFINE S == DOMAIN w
           n == Cardinality(S)
           C == {i \in S : Vez(total, w, i) < sobra}
           D == S \ C
<1>0. IsFiniteSet(S) /\ n \in Nat
  BY FS_CardinalityType DEF Tabelada
<1>1. ASSUME NEW a \in Nat, NEW b \in Int, a <= b + 1, NEW T \in SUBSET S,
             \A i \in T : Vez(total, w, i) \in a..b
      PROVE  Cardinality(T) <= b - a + 1
  <2> DEFINE v == [i \in T |-> Vez(total, w, i)]
  <2>1. IsFiniteSet(a..b) /\ Cardinality(a..b) = b - a + 1
    <3>1. a \in Int /\ b \in Int
      OBVIOUS
    <3>2. IsFiniteSet(a..b) /\ Cardinality(a..b) = IF a > b THEN 0 ELSE b - a + 1
      BY <3>1, FS_Interval
    <3> QED BY <1>1, <3>2
  <2>2. v \in Injection(T, a..b)
    <3>1. v \in [T -> a..b]
      BY <1>1
    <3>2. \A i, j \in T : v[i] = v[j] => i = j
      BY VezUnica
    <3> HIDE DEF v
    <3> QED BY <3>1, <3>2 DEF Injection, IsInjective
  <2> HIDE DEF v
  <2> QED BY <2>1, <2>2, FS_Injection
<1>2. Cardinality(C) <= sobra
  <2>1. \A i \in C : Vez(total, w, i) \in 0 .. sobra - 1
    BY VezUnica
  <2>2. C \in SUBSET S /\ sobra - 1 \in Int /\ 0 <= (sobra - 1) + 1
    OBVIOUS
  <2> HIDE DEF C, S
  <2>3. Cardinality(C) <= (sobra - 1) - 0 + 1
    BY <1>1, <2>1, <2>2
  <2> QED BY <2>3, <1>0, FS_CardinalityType
<1>3. Cardinality(D) <= n - sobra
  <2>1. \A i \in D : Vez(total, w, i) \in sobra .. n - 1
    <3> TAKE i \in D
    <3>1. Vez(total, w, i) \in Nat /\ Vez(total, w, i) >= sobra
      BY VezUnica
    <3>2. Vez(total, w, i) <= n - 1
      BY VezLimitada
    <3> QED BY <1>0, <3>1, <3>2
  <2>2. D \in SUBSET S /\ n - 1 \in Int /\ sobra <= (n - 1) + 1
    BY <1>0
  <2> HIDE DEF D, C, n, S
  <2>3. Cardinality(D) <= (n - 1) - sobra + 1
    BY <1>1, <2>1, <2>2
  <2> QED BY <2>3, <1>0
<1>4. /\ Cardinality(D) = n - Cardinality(C)
      /\ Cardinality(C) \in Nat /\ Cardinality(D) \in Nat
  <2>1. S \cap C = C /\ C \in SUBSET S /\ D \in SUBSET S
    OBVIOUS
  <2> HIDE DEF C, S
  <2>2. IsFiniteSet(C) /\ IsFiniteSet(D)
    BY <1>0, <2>1, FS_Subset
  <2> QED BY <1>0, <2>1, <2>2, FS_Difference, FS_CardinalityType
<1>5. Cardinality(C) = sobra
  <2> HIDE DEF C, D, n
  <2> QED BY <1>0, <1>2, <1>3, <1>4
<1> QED BY <1>5

(* The shares are whole cents, one for each weight, and never more together than
   what is shared: exactly as much, unless every weight is zero. *)
THEOREM DistribuirExata ==
    ASSUME NEW w, Tabelada(w), NEW total \in Nat
    PROVE  /\ Tabelada(Distribuir(total, w))
           /\ DOMAIN Distribuir(total, w) = DOMAIN w
           /\ Dobra(Distribuir(total, w)) <= total
           /\ Total(w) # 0 => Dobra(Distribuir(total, w)) = total
<1> DEFINE W == Total(w)
           S == DOMAIN w
<1>0. IsFiniteSet(S) /\ S \subseteq Nat /\ \A k \in S : w[k] \in Nat
  BY DEF Tabelada
<1>1. W = Dobra(w) /\ W \in Nat
  <2>1. W = Dobra(w)
    BY DEF Total, Dobra
  <2> QED BY <1>0, <2>1, FoldNatural
<1>2. CASE W = 0
  <2>1. Distribuir(total, w) = w
    BY <1>2 DEF Distribuir
  <2>2. Dobra(w) <= total
    BY <1>1, <1>2
  <2> QED BY <1>2, <2>1, <2>2
<1>3. CASE W # 0
  <2> DEFINE parte(i) == (total * w[i]) \div W
             f == [i \in S |-> parte(i)]
             sobra == total - Dobra(f)
             C == {i \in S : Vez(total, w, i) < sobra}
             x == [i \in S |-> IF i \in C THEN 1 ELSE 0]
             d == Distribuir(total, w)
  <2>1. d = [i \in S |-> parte(i) + (IF Vez(total, w, i) < sobra THEN 1 ELSE 0)]
    BY <1>3 DEF Distribuir, Dobra
  <2>2. \A i \in S : f[i] \in Nat /\ W * f[i] <= total * w[i] /\ total * w[i] \in Nat
    <3> TAKE i \in S
    <3>1. total * w[i] \in Nat
      BY <1>0
    <3> HIDE DEF W
    <3> QED BY <3>1, <1>1, <1>3, Quociente
  <2>3. Dobra(f) \in Nat /\ Dobra(f) <= total
    <3> DEFINE Wf == [i \in S |-> W * f[i]]
               tw == [i \in S |-> total * w[i]]
    <3>1. DOMAIN f = S /\ DOMAIN Wf = S /\ DOMAIN tw = S
      OBVIOUS
    <3>2. \A i \in S : Wf[i] = W * f[i] /\ tw[i] = total * w[i]
      OBVIOUS
    <3> HIDE DEF f, Wf, tw, W
    <3>3. Dobra(f) \in Nat
      BY <1>0, <2>2, <3>1, FoldNatural
    <3>4. Dobra(Wf) = W * Dobra(f)
      <4>1. W \in Int /\ \A i \in S : f[i] \in Int /\ Wf[i] = W * f[i]
        BY <1>1, <2>2, <3>2
      <4> QED BY <1>0, <3>1, <4>1, FoldVezes
    <3>5. Dobra(tw) = total * W
      <4>1. total \in Int /\ \A i \in S : w[i] \in Int /\ tw[i] = total * w[i]
        BY <1>0, <3>2
      <4>2. Dobra(tw) = total * Dobra(w)
        BY <1>0, <3>1, <4>1, FoldVezes
      <4> QED BY <1>1, <4>2
    <3>6. Dobra(Wf) <= Dobra(tw)
      <4>1. \A i \in S : Wf[i] \in Int /\ Wf[i] <= tw[i] /\ tw[i] \in Nat
        BY <1>1, <2>2, <3>2
      <4> QED BY <1>0, <3>1, <4>1, FoldMonotona
    <3>7. W * Dobra(f) <= W * total
      BY <1>1, <3>3, <3>4, <3>5, <3>6
    <3> QED BY <1>1, <1>3, <3>3, <3>7, MenorFator
  <2>4. sobra \in Nat
    BY <2>3
  <2>5. sobra <= Cardinality(S)
    <3> DEFINE um == [i \in S |-> IF i \in S THEN 1 ELSE 0]
               mais == [i \in S |-> f[i] + um[i]]
               Wm == [i \in S |-> W * mais[i]]
               tw == [i \in S |-> total * w[i]]
    <3>1. DOMAIN f = S /\ DOMAIN um = S /\ DOMAIN mais = S /\ DOMAIN Wm = S /\ DOMAIN tw = S
      OBVIOUS
    <3>2. \A i \in S : /\ um[i] = 1 /\ um[i] = (IF i \in S THEN 1 ELSE 0)
                       /\ mais[i] = f[i] + um[i] /\ Wm[i] = W * mais[i]
                       /\ tw[i] = total * w[i]
      OBVIOUS
    <3>3. \A i \in S : tw[i] < W * f[i] + W
      <4> TAKE i \in S
      <4>1. total * w[i] \in Nat /\ f[i] = (total * w[i]) \div W
        BY <2>2
      <4> HIDE DEF W
      <4> QED BY <1>1, <1>3, <3>2, <4>1, Divide
    <3>4. S \in SUBSET S /\ Cardinality(S) \in Nat
      BY <1>0, FS_CardinalityType
    <3> HIDE DEF f, um, mais, Wm, tw, W, S
    <3>5. Dobra(um) = Cardinality(S)
      BY <1>0, <3>1, <3>2, <3>4, FoldContagem
    <3>6. Dobra(mais) = Dobra(f) + Cardinality(S)
      <4>1. \A i \in S : f[i] \in Int /\ um[i] \in Int /\ mais[i] = f[i] + um[i]
        BY <2>2, <3>2
      <4>2. IsFiniteSet(S) /\ DOMAIN f = S /\ DOMAIN um = S /\ DOMAIN mais = S
        BY <1>0, <3>1
      <4>3. Dobra(mais) = Dobra(f) + Dobra(um)
        BY <4>1, <4>2, FoldSoma
      <4> QED BY <3>5, <4>3
    <3>7. Dobra(Wm) = W * Dobra(mais)
      <4>1. W \in Int /\ \A i \in S : mais[i] \in Int /\ Wm[i] = W * mais[i]
        BY <1>1, <2>2, <3>2
      <4>2. IsFiniteSet(S) /\ DOMAIN mais = S /\ DOMAIN Wm = S
        BY <1>0, <3>1
      <4> QED BY <4>1, <4>2, FoldVezes
    <3>8. Dobra(tw) = total * W
      <4>1. total \in Int /\ \A i \in S : w[i] \in Int /\ tw[i] = total * w[i]
        BY <1>0, <3>2
      <4>2. Dobra(tw) = total * Dobra(w)
        BY <1>0, <3>1, <4>1, FoldVezes DEF S
      <4> QED BY <1>1, <4>2
    <3>9. Dobra(tw) <= Dobra(Wm)
      <4>1. \A i \in S : tw[i] \in Int /\ tw[i] <= Wm[i] /\ Wm[i] \in Nat
        <5> TAKE i \in S
        <5>1. mais[i] = f[i] + 1 /\ Wm[i] = W * (f[i] + 1) /\ f[i] \in Nat /\ tw[i] \in Nat
          BY <2>2, <3>2
        <5>2. W * (f[i] + 1) = W * f[i] + W * 1 /\ W * 1 = W /\ W * f[i] \in Nat
          BY <1>1, <5>1, Distribui
        <5> QED BY <1>1, <3>3, <5>1, <5>2
      <4> QED BY <1>0, <3>1, <4>1, FoldMonotona
    <3>10. W * total <= W * (Dobra(f) + Cardinality(S))
      <4>1. total * W = W * total
        BY <1>1
      <4> QED BY <3>6, <3>7, <3>8, <3>9, <4>1
    <3>11. total <= Dobra(f) + Cardinality(S)
      BY <1>1, <1>3, <2>3, <3>4, <3>10, MenorFator
    <3> QED BY <2>3, <3>4, <3>11
  <2>6. Cardinality(C) = sobra
    <3> HIDE DEF sobra, W
    <3> QED BY <1>1, <1>3, <2>4, <2>5, SobraExata DEF W
  <2>7. DOMAIN d = S /\ \A i \in S : d[i] = f[i] + x[i]
    BY <2>1
  <2>8. \A i \in S : x[i] \in {0, 1} /\ x[i] = IF i \in C THEN 1 ELSE 0
    OBVIOUS
  <2>9. DOMAIN f = S /\ DOMAIN x = S /\ C \in SUBSET S
    OBVIOUS
  <2> HIDE DEF f, x, d, C, sobra, S, W
  <2>10. \A i \in S : d[i] \in Nat
    BY <2>2, <2>7, <2>8
  <2>11. Dobra(x) = Cardinality(C)
    BY <1>0, <2>8, <2>9, FoldContagem
  <2>12. Dobra(d) = Dobra(f) + Dobra(x)
    <3>1. \A i \in S : f[i] \in Int /\ x[i] \in Int /\ d[i] = f[i] + x[i]
      BY <2>2, <2>7, <2>8
    <3>2. IsFiniteSet(S) /\ DOMAIN f = S /\ DOMAIN x = S /\ DOMAIN d = S
      BY <1>0, <2>7, <2>9
    <3> QED BY <3>1, <3>2, FoldSoma
  <2>13. Dobra(d) = total
    BY <2>3, <2>4, <2>6, <2>11, <2>12 DEF sobra
  <2> QED BY <1>0, <2>7, <2>10, <2>13 DEF Tabelada, d, S
<1> QED BY <1>2, <1>3

(* No share is more than what is shared. *)
LEMMA ParteCabe ==
    ASSUME NEW w, Tabelada(w), NEW total \in Nat, NEW i \in DOMAIN w
    PROVE  Distribuir(total, w)[i] \in Nat /\ Distribuir(total, w)[i] <= total
<1> DEFINE d == Distribuir(total, w)
<1>1. Tabelada(d) /\ DOMAIN d = DOMAIN w /\ Dobra(d) <= total
  BY DistribuirExata
<1> HIDE DEF d
<1>2. IsFiniteSet(DOMAIN d) /\ \A k \in DOMAIN d : d[k] \in Nat
  BY <1>1 DEF Tabelada
<1> DEFINE h == [k \in DOMAIN d \ {i} |-> d[k]]
<1>3. DOMAIN h = DOMAIN d \ {i} /\ \A k \in DOMAIN h : h[k] = d[k]
  OBVIOUS
<1>4. IsFiniteSet(DOMAIN d \ {i})
  BY <1>2, FS_RemoveElement
<1> HIDE DEF h
<1>5. Dobra(h) \in Nat
  BY <1>2, <1>3, <1>4, FoldNatural
<1>6. Dobra(d) = d[i] + Dobra(h)
  <2>1. i \in DOMAIN d /\ \A k \in DOMAIN d : d[k] \in Int
    BY <1>1, <1>2
  <2> QED BY <1>2, <1>3, <2>1, FoldTira
<1>7. d[i] \in Nat /\ d[i] <= total
  BY <1>1, <1>2, <1>5, <1>6
<1> QED BY <1>7 DEF d

(* The producer's 80% of an amount is a part of it. *)
LEMMA ParteProdutorCabe ==
    ASSUME NEW total \in Nat
    PROVE  ParteProdutor(total) \in Nat /\ ParteProdutor(total) <= total
<1> DEFINE w == <<8000, 2000>>
<1>1. Tabelada(w) /\ 1 \in DOMAIN w
  <2>1. DOMAIN w = 1..2
    OBVIOUS
  <2>2. IsFiniteSet(1..2)
    BY 1 \in Int, 2 \in Int, FS_Interval
  <2> QED BY <2>1, <2>2 DEF Tabelada
<1> HIDE DEF w
<1>2. Distribuir(total, w)[1] \in Nat /\ Distribuir(total, w)[1] <= total
  BY <1>1, ParteCabe
<1> QED BY <1>2 DEF ParteProdutor, w

(* A reservation takes no more than is left of the value and of the pool, leaves
   no more of the pool than of the value, and takes all with the last units. *)
LEMMA ReservaCabe ==
    ASSUME NEW rp \in Nat, NEW rv \in Nat, rp <= rv, NEW n \in Nat, NEW q \in 1..n
    PROVE  LET p == ReservarParcela(rp, q, n)
               v == ReservarParcela(rv, q, n)
           IN  /\ p \in Nat /\ v \in Nat
               /\ p <= rp /\ v <= rv /\ p <= v
               /\ rp - p <= rv - v
               /\ q = n => p = rp /\ v = rv
<1> DEFINE p == ReservarParcela(rp, q, n)
           v == ReservarParcela(rv, q, n)
<1>0. q \in Nat /\ q # 0 /\ n # 0 /\ q <= n
  OBVIOUS
<1>1. rp * q \in Nat /\ rv * q \in Nat
  OBVIOUS
<1>2. p = (rp * q) \div n /\ v = (rv * q) \div n
  BY DEF ReservarParcela
<1> HIDE DEF p, v
<1>3. p \in Nat /\ n * p <= rp * q /\ rp * q < n * p + n
  BY <1>0, <1>1, <1>2, Divide
<1>4. v \in Nat /\ n * v <= rv * q /\ rv * q < n * v + n
  BY <1>0, <1>1, <1>2, Divide
<1>5. rp * q <= n * rp /\ rv * q <= n * rv
  <2>1. rp * (n - q) >= 0 /\ rv * (n - q) >= 0
    BY <1>0
  <2>2. rp * (n - q) = n * rp - rp * q /\ rv * (n - q) = n * rv - rv * q
    BY <1>0
  <2> QED BY <1>0, <1>1, <2>1, <2>2
<1>6. p <= rp /\ v <= rv
  <2>1. n * p <= n * rp /\ n * v <= n * rv
    BY <1>0, <1>1, <1>3, <1>4, <1>5
  <2> QED BY <1>0, <1>3, <1>4, <2>1, MenorFator
<1>7. p <= v
  <2>1. SUFFICES ASSUME v + 1 <= p PROVE FALSE
    BY <1>3, <1>4
  <2>2. n * (p - v - 1) >= 0
    BY <1>0, <1>3, <1>4, <2>1
  <2>3. n * (p - v - 1) = n * p - n * v - n
    BY <1>0, <1>3, <1>4
  <2>4. rp * q <= rv * q
    <3>1. (rv - rp) * q >= 0
      BY <1>0
    <3>2. (rv - rp) * q = rv * q - rp * q
      BY <1>0
    <3> QED BY <1>1, <3>1, <3>2
  <2>5. n * p \in Int /\ n * v \in Int
    BY <1>3, <1>4
  <2> QED BY <1>0, <1>1, <1>3, <1>4, <2>2, <2>3, <2>4, <2>5
<1>8. rp - p <= rv - v
  <2> DEFINE d == rv - rp
  <2>1. SUFFICES ASSUME p + d + 1 <= v PROVE FALSE
    BY <1>3, <1>4
  <2>2. d \in Nat /\ rv = rp + d
    OBVIOUS
  <2> HIDE DEF d
  <2>3. n * (v - p - d - 1) >= 0
    BY <1>0, <1>3, <1>4, <2>1, <2>2
  <2>4. n * (v - p - d - 1) = n * v - n * p - n * d - n
    BY <1>0, <1>3, <1>4, <2>2
  <2>5. rv * q = rp * q + d * q
    BY <1>0, <2>2
  <2>6. d * q <= n * d
    <3>1. d * (n - q) >= 0
      BY <1>0, <2>2
    <3>2. d * (n - q) = n * d - d * q
      BY <1>0, <2>2
    <3>3. d * q \in Int /\ n * d \in Int
      BY <1>0, <2>2
    <3> QED BY <3>1, <3>2, <3>3
  <2>7. n * p \in Int /\ n * v \in Int /\ n * d \in Int /\ d * q \in Int
    BY <1>0, <1>3, <1>4, <2>2
  <2> QED BY <1>0, <1>1, <1>3, <1>4, <2>3, <2>4, <2>5, <2>6, <2>7
<1>9. ASSUME q = n PROVE p = rp /\ v = rv
  <2>1. n * rp < n * (p + 1) /\ n * rv < n * (v + 1)
    BY <1>0, <1>3, <1>4, <1>9
  <2>2. rp <= p /\ rv <= v
    <3>1. rp - p - 1 \in Nat => n * (rp - p - 1) >= 0
      BY <1>0
    <3>2. rv - v - 1 \in Nat => n * (rv - v - 1) >= 0
      BY <1>0
    <3>3. n * (rp - p - 1) = n * rp - n * (p + 1) /\ n * (rv - v - 1) = n * rv - n * (v + 1)
      BY <1>0, <1>3, <1>4
    <3>4. n * rp \in Int /\ n * rv \in Int /\ n * (p + 1) \in Int /\ n * (v + 1) \in Int
      BY <1>0, <1>3, <1>4
    <3> QED BY <1>3, <1>4, <2>1, <3>1, <3>2, <3>3, <3>4
  <2> QED BY <1>3, <1>4, <1>6, <2>2
<1> QED BY <1>3, <1>4, <1>6, <1>7, <1>8, <1>9 DEF p, v

-----------------------------------------------------------------------------
(* What the invariants rest on: who began a stage is remembered, an allocation   *)
(* in force takes some units and no more of the pool than of the value, and what *)
(* is registered is what the split of the origin says.                           *)
Iniciadas ==
    \A e \in Etapas :
        /\ etapa[e].iniciada => Existe(e)
        /\ etapa[e].status \notin {"inexistente", "pendente"} => etapa[e].iniciada

Vigencia ==
    \A a \in Vigentes : aloc[a].unidades > 0 /\ aloc[a].produtor <= aloc[a].valor

Calculado ==
    \A e \in Etapas :
        /\ repasse[e].estado = "nenhum" => repasse[e].bruto = 0 /\ repasse[e].parcela = 0
        /\ repasse[e].estado # "nenhum" =>
              repasse[e].bruto = Bruto(e) /\ repasse[e].parcela = Parcela(e)

IInv ==
    /\ TypeOK /\ Iniciadas
    /\ OrigemUnica /\ DependenciaRespeitada /\ RegistroFiel /\ TrabalhoFinanciado
    /\ Vigencia /\ LoteNaoExcede
    /\ Calculado

-----------------------------------------------------------------------------
(* The tables of the model. *)

Campos == {"unidades", "valor", "produtor"}

Alocacao == [producao : Producoes \cup {Ninguem}, unidades : Nat,
             valor : Nat, produtor : Nat, estado : EstadoAlocacao]

Estagio == [status : StatusEtapa \cup {"inexistente"},
            responsavel : Produtores \cup {Ninguem},
            executor : Produtores \cup {Ninguem},
            iniciada : BOOLEAN, revisoes : 0..Incluidas]

Pagamento == [estado : {"nenhum", "emitido", "pago"}, produtor : Produtores \cup {Ninguem},
              bruto : Nat, parcela : Nat]

LEMMA PosicoesPesadas == Tabelada(Pesos) /\ Posicoes \subseteq Nat /\ IsFiniteSet(Posicoes)
<1>1. DOMAIN Pesos = 1..Len(Pesos) /\ Len(Pesos) \in Nat /\ \A k \in 1..Len(Pesos) : Pesos[k] \in Nat
  BY ProducaoAssumption
<1>2. IsFiniteSet(1..Len(Pesos))
  <2>1. 1 \in Int /\ Len(Pesos) \in Int
    BY <1>1
  <2> QED BY <2>1, FS_Interval
<1> QED BY <1>1, <1>2 DEF Tabelada, Posicoes

(* The shares of an origin are whole cents, and add up to no more than it. *)
LEMMA PartesDaProposta ==
    /\ DOMAIN BrutosProposta = Posicoes /\ DOMAIN ParcelasProposta = Posicoes
    /\ \A i \in Posicoes : BrutosProposta[i] \in Nat /\ ParcelasProposta[i] \in Nat
    /\ Dobra(BrutosProposta) <= ValorProposta /\ Dobra(ParcelasProposta) <= PoolProposta
    /\ PoolProposta \in Nat
<1>1. ValorProposta \in Nat /\ Tabelada(Pesos)
  BY PosicoesPesadas, ProducaoAssumption
<1>2. PoolProposta \in Nat
  BY <1>1, ParteProdutorCabe DEF PoolProposta
<1>3. Tabelada(BrutosProposta) /\ DOMAIN BrutosProposta = Posicoes
      /\ Dobra(BrutosProposta) <= ValorProposta
  BY <1>1, DistribuirExata DEF BrutosProposta, Posicoes
<1>4. Tabelada(ParcelasProposta) /\ DOMAIN ParcelasProposta = Posicoes
      /\ Dobra(ParcelasProposta) <= PoolProposta
  BY <1>2, <1>3, DistribuirExata DEF ParcelasProposta
<1> QED BY <1>2, <1>3, <1>4 DEF Tabelada

LEMMA PartesDaAlocacao ==
    ASSUME NEW v \in Nat, NEW k \in Nat
    PROVE  LET b == Distribuir(v, Pesos)
               c == Distribuir(k, b)
           IN  /\ DOMAIN b = Posicoes /\ DOMAIN c = Posicoes
               /\ \A i \in Posicoes : b[i] \in Nat /\ c[i] \in Nat
               /\ Dobra(b) <= v /\ Dobra(c) <= k
<1> DEFINE b == Distribuir(v, Pesos)
           c == Distribuir(k, b)
<1>1. Tabelada(b) /\ DOMAIN b = Posicoes /\ Dobra(b) <= v
  BY PosicoesPesadas, DistribuirExata DEF Posicoes
<1>2. Tabelada(c) /\ DOMAIN c = Posicoes /\ Dobra(c) <= k
  <2> HIDE DEF b
  <2> QED BY <1>1, DistribuirExata
<1> HIDE DEF b, c
<1>3. \A i \in Posicoes : b[i] \in Nat /\ c[i] \in Nat
  BY <1>1, <1>2 DEF Tabelada
<1> QED BY <1>1, <1>2, <1>3 DEF b, c

LEMMA PartesNaturais ==
    ASSUME aloc \in [Alocacoes -> Alocacao], NEW e \in Etapas
    PROVE  Bruto(e) \in Nat /\ Parcela(e) \in Nat
<1>1. e[1] \in Origens /\ e[2] \in Posicoes
  BY DEF Etapas
<1>2. CASE e[1] \in Producoes
  BY <1>1, <1>2, PartesDaProposta DEF Bruto, Parcela, BrutosDe, ParcelasDe
<1>3. CASE e[1] \notin Producoes
  <2>1. aloc[e[1]].valor \in Nat /\ aloc[e[1]].produtor \in Nat
    BY <1>1, <1>3 DEF Origens, Alocacao
  <2> QED BY <1>1, <1>3, <2>1, PartesDaAlocacao DEF Bruto, Parcela, BrutosDe, ParcelasDe
<1> QED BY <1>2, <1>3

-----------------------------------------------------------------------------
(* What the allocations in force take together. *)

LEMMA CampoNatural ==
    ASSUME NEW c \in Campos, NEW r \in Alocacao
    PROVE  r[c] \in Nat
BY DEF Campos, Alocacao

LEMMA VigentesFinitas == Vigentes \subseteq Alocacoes /\ IsFiniteSet(Vigentes)
BY FS_Subset, ProducaoAssumption DEF Vigentes

LEMMA AlocadoDobra ==
    ASSUME aloc \in [Alocacoes -> Alocacao], NEW c \in Campos
    PROVE  /\ Alocado(c) = Dobra([a \in Vigentes |-> aloc[a][c]])
           /\ Uso(c) = Alocado(c)
           /\ Alocado(c) \in Nat
<1> DEFINE f == [a \in Vigentes |-> aloc[a][c]]
<1>1. Uso(c) = Dobra(f) /\ Alocado(c) = Dobra(f)
  BY DEF Uso, Alocado, Dobra, Vigentes
<1>2. DOMAIN f = Vigentes /\ \A a \in Vigentes : f[a] \in Nat
  BY CampoNatural DEF Vigentes
<1> HIDE DEF f
<1>3. Dobra(f) \in Nat
  BY <1>2, VigentesFinitas, FoldNatural
<1> QED BY <1>1, <1>3 DEF f

LEMMA AlocadoPoe ==
    ASSUME aloc \in [Alocacoes -> Alocacao], aloc' \in [Alocacoes -> Alocacao],
           NEW a \in Alocacoes, a \notin Vigentes, a \in Vigentes',
           \A b \in Alocacoes : b # a => aloc'[b] = aloc[b],
           NEW c \in Campos
    PROVE  Alocado(c)' = aloc'[a][c] + Alocado(c)
<1> DEFINE f == [b \in Vigentes |-> aloc[b][c]]
           g == [b \in Vigentes' |-> aloc'[b][c]]
<1>1. Alocado(c) = Dobra(f)
  BY AlocadoDobra
<1>2. Alocado(c)' = Dobra(g)
  BY DEF Alocado, Dobra, Vigentes, FoldFunction, FoldFunctionOnSet, MapThenFoldSet
<1>3. Vigentes' = Vigentes \cup {a} /\ Vigentes' \subseteq Alocacoes /\ IsFiniteSet(Vigentes')
  <2>1. Vigentes' = Vigentes \cup {a}
    BY DEF Vigentes
  <2>2. Vigentes \cup {a} \subseteq Alocacoes
    BY VigentesFinitas
  <2> QED BY <2>1, <2>2, FS_Subset, ProducaoAssumption
<1>4. DOMAIN g = Vigentes' /\ (\A b \in Vigentes' : g[b] \in Int) /\ a \in DOMAIN g
      /\ g[a] = aloc'[a][c]
  BY <1>3, CampoNatural
<1>5. DOMAIN f = DOMAIN g \ {a} /\ \A b \in DOMAIN f : f[b] = g[b]
  BY <1>3, VigentesFinitas
<1> HIDE DEF f, g
<1>6. Dobra(g) = g[a] + Dobra(f)
  <2>1. IsFiniteSet(DOMAIN g) /\ (\A b \in DOMAIN g : g[b] \in Int) /\ a \in DOMAIN g
    BY <1>3, <1>4
  <2> QED BY <2>1, <1>5, FoldTira
<1> QED BY <1>1, <1>2, <1>4, <1>6

LEMMA AlocadoTira ==
    ASSUME aloc \in [Alocacoes -> Alocacao], aloc' \in [Alocacoes -> Alocacao],
           NEW a \in Alocacoes, a \in Vigentes, a \notin Vigentes',
           \A b \in Alocacoes : b # a => aloc'[b] = aloc[b],
           NEW c \in Campos
    PROVE  Alocado(c) = aloc[a][c] + Alocado(c)'
<1> DEFINE f == [b \in Vigentes |-> aloc[b][c]]
           g == [b \in Vigentes' |-> aloc'[b][c]]
<1>1. Alocado(c) = Dobra(f)
  BY AlocadoDobra
<1>2. Alocado(c)' = Dobra(g)
  BY DEF Alocado, Dobra, Vigentes, FoldFunction, FoldFunctionOnSet, MapThenFoldSet
<1>3. Vigentes' = Vigentes \ {a}
  BY DEF Vigentes
<1>4. DOMAIN f = Vigentes /\ (\A b \in Vigentes : f[b] \in Int) /\ f[a] = aloc[a][c]
  BY VigentesFinitas, CampoNatural
<1>5. DOMAIN g = DOMAIN f \ {a} /\ \A b \in DOMAIN g : g[b] = f[b]
  BY <1>3, VigentesFinitas
<1> HIDE DEF f, g
<1>6. Dobra(f) = f[a] + Dobra(g)
  <2>1. IsFiniteSet(DOMAIN f) /\ (\A b \in DOMAIN f : f[b] \in Int) /\ a \in DOMAIN f
    BY <1>4, VigentesFinitas
  <2> QED BY <2>1, <1>5, FoldTira
<1> QED BY <1>1, <1>2, <1>4, <1>6

LEMMA AlocadoMantem ==
    ASSUME Vigentes' = Vigentes, NEW c,
           \A b \in Vigentes : aloc'[b][c] = aloc[b][c]
    PROVE  Alocado(c)' = Alocado(c)
<1>1. [b \in Vigentes' |-> aloc'[b][c]] = [b \in Vigentes |-> aloc[b][c]]
  OBVIOUS
<1>2. Alocado(c) = Dobra([b \in Vigentes |-> aloc[b][c]])
  BY DEF Alocado, Dobra, Vigentes
<1>3. Alocado(c)' = Dobra([b \in Vigentes' |-> aloc'[b][c]])
  BY DEF Alocado, Dobra, Vigentes, FoldFunction, FoldFunctionOnSet, MapThenFoldSet
<1> QED BY <1>1, <1>2, <1>3

-----------------------------------------------------------------------------
(* What each table asks of a step. *)

LEMMA Formas ==
    TypeOK => /\ aloc \in [Alocacoes -> Alocacao]
              /\ etapa \in [Etapas -> Estagio]
              /\ repasse \in [Etapas -> Pagamento]
BY DEF TypeOK, Alocacao, Estagio, Pagamento

LEMMA Vizinhanca ==
    ASSUME NEW e \in Etapas
    PROVE  /\ e = <<e[1], e[2]>> /\ e[1] \in Origens /\ e[2] \in Posicoes /\ e[2] \in Nat
           /\ Anterior(e) # e /\ Seguinte(e) # e
           /\ \A d \in Etapas : d = Anterior(e) <=> e = Seguinte(d)
<1>0. \A d \in Etapas : d = <<d[1], d[2]>> /\ d[1] \in Origens /\ d[2] \in Posicoes
  BY DEF Etapas
<1>1. e = <<e[1], e[2]>> /\ e[1] \in Origens /\ e[2] \in Posicoes /\ e[2] \in Nat
  BY <1>0, PosicoesPesadas
<1>2. \A d \in Etapas : d = <<d[1], d[2]>> /\ d[2] \in Nat
  BY <1>0, PosicoesPesadas
<1>3. Anterior(e)[2] = e[2] - 1 /\ Seguinte(e)[2] = e[2] + 1
  BY DEF Anterior, Seguinte
<1>4. \A d \in Etapas : d = Anterior(e) <=> e = Seguinte(d)
  <2> TAKE d \in Etapas
  <2>1. d = Anterior(e) <=> d[1] = e[1] /\ d[2] = e[2] - 1
    BY <1>2 DEF Anterior
  <2>2. e = Seguinte(d) <=> e[1] = d[1] /\ e[2] = d[2] + 1
    BY <1>2 DEF Seguinte
  <2> QED BY <1>1, <1>2, <2>1, <2>2
<1> QED BY <1>1, <1>3, <1>4

LEMMA EtapasMantidas ==
    ASSUME Iniciadas, DependenciaRespeitada, etapa' = etapa
    PROVE  Iniciadas' /\ DependenciaRespeitada'
BY DEF Iniciadas, DependenciaRespeitada, Existe, EsperaAnterior, Vizinha

LEMMA LoteMantido ==
    ASSUME Vigencia, LoteNaoExcede, aloc' = aloc
    PROVE  Vigencia' /\ LoteNaoExcede'
<1>1. Vigentes' = Vigentes
  BY DEF Vigentes
<1>2. /\ Alocado("unidades")' = Alocado("unidades")
      /\ Alocado("valor")' = Alocado("valor")
      /\ Alocado("produtor")' = Alocado("produtor")
  BY <1>1, AlocadoMantem
<1>3. Vigencia'
  BY <1>1 DEF Vigencia
<1>4. LoteNaoExcede'
  BY <1>2 DEF LoteNaoExcede
<1> QED BY <1>3, <1>4

LEMMA ContasMantidas ==
    ASSUME Calculado, aloc' = aloc, repasse' = repasse
    PROVE  Calculado'
BY DEF Calculado, Bruto, Parcela, BrutosDe, ParcelasDe

LEMMA EtapaPassada ==
    ASSUME NEW e, etapa[e] \in Estagio, NEW destino \in StatusEtapa
    PROVE  /\ Passada(e, destino) \in Estagio
           /\ Passada(e, destino).status = destino
           /\ Passada(e, destino).iniciada <=> etapa[e].iniciada \/ destino = "em_andamento"
<1>1. Passada(e, destino) \in Estagio
  <2>1. Incluidas \in Nat
    BY ProducaoAssumption
  <2>2. (IF Revisao(e, destino) /\ etapa[e].revisoes < Incluidas
         THEN etapa[e].revisoes + 1 ELSE etapa[e].revisoes) \in 0..Incluidas
    BY <2>1 DEF Estagio
  <2>3. (IF destino = "concluida" THEN etapa[e].responsavel ELSE Ninguem)
        \in Produtores \cup {Ninguem}
    BY DEF Estagio
  <2> QED BY <2>2, <2>3 DEF Passada, Estagio
<1>2. Passada(e, destino).status = destino
  BY DEF Passada, Estagio
<1>3. Passada(e, destino).iniciada <=> etapa[e].iniciada \/ destino = "em_andamento"
  BY DEF Passada, Estagio
<1> QED BY <1>1, <1>2, <1>3

(* The stages of an origin begin again, all pending. *)
LEMMA EtapasNovas ==
    ASSUME TypeOK, Iniciadas, DependenciaRespeitada, NEW o \in Origens,
           etapa' = NovasEtapas(o)
    PROVE  /\ etapa' \in [Etapas -> Estagio]
           /\ Iniciadas' /\ DependenciaRespeitada'
           /\ \A e \in Etapas : e[1] # o => etapa'[e] = etapa[e]
           /\ \A e \in Etapas : e[1] = o => ~etapa'[e].iniciada
<1> DEFINE nova == [SemEtapa EXCEPT !.status = "pendente", !.responsavel = Coordenador]
<1>1. nova \in Estagio /\ nova.status = "pendente" /\ nova.iniciada = FALSE
  <2>1. Coordenador \in Produtores \cup {Ninguem} /\ 0 \in 0..Incluidas
    BY ProducaoAssumption
  <2>2. SemEtapa \in Estagio /\ SemEtapa.iniciada = FALSE
    BY <2>1 DEF SemEtapa, Estagio
  <2> QED BY <2>1, <2>2 DEF Estagio, StatusEtapa
<1>2. \A e \in Etapas : etapa'[e] = IF e[1] = o THEN nova ELSE etapa[e]
  BY DEF NovasEtapas
<1>3. etapa' = [e \in Etapas |-> IF e[1] = o THEN nova ELSE etapa[e]]
  BY DEF NovasEtapas
<1> HIDE DEF nova
<1>4. etapa' \in [Etapas -> Estagio]
  BY <1>1, <1>3, Formas
<1>5. Iniciadas'
  BY <1>1, <1>2 DEF Iniciadas, Existe
<1>6. DependenciaRespeitada'
  <2> SUFFICES ASSUME NEW e \in Etapas, Existe(e)', EsperaAnterior(e)'
               PROVE  etapa'[e].status = "pendente"
    BY DEF DependenciaRespeitada
  <2>1. CASE e[1] = o
    BY <1>1, <1>2, <2>1
  <2>2. CASE e[1] # o
    <3>1. Anterior(e)[1] = e[1]
      BY DEF Anterior
    <3>2. Existe(e) /\ EsperaAnterior(e) /\ etapa'[e] = etapa[e]
      BY <1>2, <2>2, <3>1 DEF Existe, EsperaAnterior, Vizinha
    <3> QED BY <3>2 DEF DependenciaRespeitada
  <2> QED BY <2>1, <2>2
<1>7. \A e \in Etapas : e[1] = o => ~etapa'[e].iniciada
  BY <1>1, <1>2
<1> QED BY <1>2, <1>4, <1>5, <1>6, <1>7

(* A stage that is moved respects the one before it and the one after. *)
LEMMA EtapaMovida ==
    ASSUME TypeOK, Iniciadas, DependenciaRespeitada,
           NEW e \in Etapas, NEW papel, NEW destino \in StatusEtapa, Atualizar(e, papel, destino)
    PROVE  /\ etapa' \in [Etapas -> Estagio]
           /\ Iniciadas' /\ DependenciaRespeitada'
           /\ \A d \in Etapas : d # e => etapa'[d] = etapa[d]
<1>1. /\ Existe(e) /\ Permitida(e, papel, destino) /\ ~BloqueioDependencia(e, destino)
      /\ etapa' = [etapa EXCEPT ![e] = Passada(e, destino)]
  BY DEF Atualizar
<1>2. etapa[e] \in Estagio /\ etapa \in [Etapas -> Estagio]
  BY Formas
<1>3. \A d \in Etapas : d # e => etapa'[d] = etapa[d]
  BY <1>1, <1>2
<1>4. /\ etapa'[e] \in Estagio /\ etapa'[e].status = destino
      /\ etapa'[e].iniciada <=> etapa[e].iniciada \/ destino = "em_andamento"
  <2>1. etapa'[e] = Passada(e, destino)
    BY <1>1, <1>2
  <2> QED BY <1>2, <2>1, EtapaPassada
<1>5. etapa' \in [Etapas -> Estagio]
  BY <1>1, <1>2, EtapaPassada
<1>6. Iniciadas'
  <2> SUFFICES ASSUME NEW d \in Etapas
               PROVE  /\ etapa'[d].iniciada => etapa'[d].status # "inexistente"
                      /\ etapa'[d].status \notin {"inexistente", "pendente"} => etapa'[d].iniciada
    BY DEF Iniciadas, Existe
  <2>1. CASE d # e
    BY <1>3, <2>1 DEF Iniciadas, Existe
  <2>2. CASE d = e
    <3>1. destino # "inexistente"
      BY DEF StatusEtapa
    <3>2. etapa[e].status = "pendente" => destino = "em_andamento"
      BY <1>1 DEF Permitida, Transicoes, TransicoesProdutor
    <3>3. etapa[e].status # "pendente" => etapa[e].iniciada
      BY <1>1 DEF Iniciadas, Existe
    <3> QED BY <1>4, <2>2, <3>1, <3>2, <3>3
  <2> QED BY <2>1, <2>2
<1>7. DependenciaRespeitada'
  <2> SUFFICES ASSUME NEW d \in Etapas, Existe(d)', EsperaAnterior(d)'
               PROVE  etapa'[d].status = "pendente"
    BY DEF DependenciaRespeitada
  <2>1. d[2] \in Dependentes /\ Anterior(d) \in Etapas
        /\ etapa'[Anterior(d)].status # "inexistente"
        /\ etapa'[Anterior(d)].status # "concluida"
    BY DEF EsperaAnterior, Vizinha, Existe
  <2>2. CASE d = e
    <3>1. Anterior(d) # e
      BY <2>2, Vizinhanca
    <3>2. etapa'[Anterior(d)] = etapa[Anterior(d)]
      BY <1>3, <2>1, <3>1
    <3>3. EsperaAnterior(e)
      BY <2>1, <2>2, <3>2 DEF EsperaAnterior, Vizinha, Existe
    <3>4. destino = "pendente"
      BY <1>1, <3>3 DEF BloqueioDependencia
    <3> QED BY <1>4, <2>2, <3>4
  <2>3. CASE d # e /\ Anterior(d) # e
    <3>1. etapa'[d] = etapa[d] /\ etapa'[Anterior(d)] = etapa[Anterior(d)]
      BY <1>3, <2>1, <2>3
    <3>2. Existe(d) /\ EsperaAnterior(d)
      BY <2>1, <3>1 DEF EsperaAnterior, Vizinha, Existe
    <3> QED BY <3>1, <3>2 DEF DependenciaRespeitada
  <2>4. CASE d # e /\ Anterior(d) = e
    <3>1. d = Seguinte(e) /\ d[2] = e[2] + 1
      <4>1. d = Seguinte(e)
        BY <2>4, Vizinhanca
      <4> QED BY <4>1 DEF Seguinte
    <3>2. etapa'[d] = etapa[d] /\ Existe(d)
      BY <1>3, <2>4 DEF Existe
    <3>3. CASE etapa[e].status = "concluida"
      <4>1. ~SeguinteComecou(e)
        BY <1>1 DEF BloqueioDependencia
      <4> QED BY <2>1, <3>1, <3>2, <3>3, <4>1 DEF SeguinteComecou, Vizinha
    <3>4. CASE etapa[e].status # "concluida"
      <4>1. EsperaAnterior(d)
        BY <1>1, <2>1, <2>4, <3>4 DEF EsperaAnterior, Vizinha
      <4> QED BY <3>2, <4>1 DEF DependenciaRespeitada
    <3> QED BY <3>3, <3>4
  <2> QED BY <2>2, <2>3, <2>4
<1> QED BY <1>3, <1>5, <1>6, <1>7

-----------------------------------------------------------------------------
(* Steps that leave the lot, the stages and the money alone. *)

LEMMA PassoNeutro ==
    ASSUME IInv, TypeOK', aloc' = aloc, etapa' = etapa, repasse' = repasse, legado' = legado,
           \A p \in Producoes : AlocadasEm(p) # {} => proposta'[p] = proposta[p]
    PROVE  IInv'
<1>1. Iniciadas' /\ DependenciaRespeitada'
  BY EtapasMantidas DEF IInv
<1>2. Vigencia' /\ LoteNaoExcede'
  BY LoteMantido DEF IInv
<1>3. Calculado'
  BY ContasMantidas DEF IInv
<1>4. OrigemUnica'
  BY DEF IInv, OrigemUnica, AlocadasEm, ProducaoDe
<1>5. RegistroFiel' /\ TrabalhoFinanciado'
  BY DEF IInv, RegistroFiel, TrabalhoFinanciado
<1> QED BY <1>1, <1>2, <1>3, <1>4, <1>5 DEF IInv

(* The stages of the contract are created: nothing was registered for them. *)
LEMMA PassoContrato ==
    ASSUME IInv, NEW p \in Producoes, EtapasDe(p) = {}, etapa' = NovasEtapas(p),
           aloc' = aloc, repasse' = repasse, legado' = legado,
           \A q \in Producoes : AlocadasEm(q) # {} => proposta'[q] = proposta[q],
           TypeOK'
    PROVE  IInv'
<1>1. /\ Iniciadas' /\ DependenciaRespeitada'
      /\ \A e \in Etapas : e[1] # p => etapa'[e] = etapa[e]
      /\ \A e \in Etapas : e[1] = p => ~etapa'[e].iniciada
  BY EtapasNovas DEF IInv, Origens
<1>2. Vigencia' /\ LoteNaoExcede'
  BY LoteMantido DEF IInv
<1>3. Calculado'
  BY ContasMantidas DEF IInv
<1>4. OrigemUnica'
  BY DEF IInv, OrigemUnica, AlocadasEm, ProducaoDe
<1>5. RegistroFiel'
  <2> SUFFICES ASSUME NEW e \in Etapas, repasse[e].estado # "nenhum"
               PROVE  /\ etapa'[e].status = "concluida"
                      /\ etapa'[e].executor = repasse[e].produtor
                      /\ e[1] \in Alocacoes => aloc[e[1]].estado = "consumida"
    BY DEF RegistroFiel
  <2>1. etapa[e].status = "concluida"
    BY DEF IInv, RegistroFiel
  <2>2. e[1] # p
    <3>1. e[1] = p => e \in EtapasDe(p)
      BY <2>1 DEF EtapasDe, Existe, ProducaoDe
    <3> QED BY <3>1
  <2> QED BY <1>1, <2>2 DEF IInv, RegistroFiel
<1>6. TrabalhoFinanciado'
  BY <1>1 DEF IInv, TrabalhoFinanciado
<1> QED BY <1>1, <1>2, <1>3, <1>4, <1>5, <1>6 DEF IInv

(* One stage changes, for which nothing is registered. *)
LEMMA PassoEtapa ==
    ASSUME IInv, NEW e \in Etapas, TypeOK', Iniciadas', DependenciaRespeitada',
           \A d \in Etapas : d # e => etapa'[d] = etapa[d],
           repasse[e].estado # "nenhum" =>
              etapa'[e].status = etapa[e].status /\ etapa'[e].executor = etapa[e].executor,
           etapa'[e].iniciada => etapa[e].iniciada \/ ~BloqueioCreditos(e),
           aloc' = aloc, repasse' = repasse, legado' = legado, proposta' = proposta
    PROVE  IInv'
<1>1. Vigencia' /\ LoteNaoExcede'
  BY LoteMantido DEF IInv
<1>2. Calculado'
  BY ContasMantidas DEF IInv
<1>3. OrigemUnica'
  BY DEF IInv, OrigemUnica, AlocadasEm, ProducaoDe
<1>4. RegistroFiel'
  BY DEF IInv, RegistroFiel
<1>5. TrabalhoFinanciado'
  BY DEF IInv, TrabalhoFinanciado, BloqueioCreditos
<1> QED BY <1>1, <1>2, <1>3, <1>4, <1>5 DEF IInv

LEMMA PassoAtualizar ==
    ASSUME IInv, NEW e \in Etapas, NEW papel, NEW destino \in StatusEtapa,
           Atualizar(e, papel, destino)
    PROVE  IInv'
<1>1. /\ etapa' \in [Etapas -> Estagio]
      /\ Iniciadas' /\ DependenciaRespeitada'
      /\ \A d \in Etapas : d # e => etapa'[d] = etapa[d]
  BY EtapaMovida DEF IInv
<1>2. /\ repasse[e].estado = "nenhum" /\ ~BloqueioCreditos(e)
      /\ UNCHANGED <<producao, diretas, trabalho, proposta, financiado, aloc, repasse, legado, definindo>>
  BY DEF Atualizar, RepasseRegistrado
<1>3. TypeOK'
  BY <1>1, <1>2 DEF IInv, TypeOK, Estagio
<1>4. aloc' = aloc /\ repasse' = repasse /\ legado' = legado /\ proposta' = proposta
  BY <1>2
<1>5. etapa'[e].iniciada => etapa[e].iniciada \/ ~BloqueioCreditos(e)
  BY <1>2
<1> QED BY <1>1, <1>2, <1>3, <1>4, <1>5, PassoEtapa

LEMMA PassoAtribuir ==
    ASSUME IInv, NEW e \in Etapas, NEW u \in Produtores \cup {Ninguem}, Atribuir(e, u)
    PROVE  IInv'
<1>1. /\ etapa' = [etapa EXCEPT ![e].responsavel = u]
      /\ UNCHANGED <<producao, diretas, trabalho, proposta, financiado, aloc, repasse, legado, definindo>>
  BY DEF Atribuir
<1>2. etapa \in [Etapas -> Estagio]
  BY Formas DEF IInv
<1>3. etapa' \in [Etapas -> Estagio]
  BY <1>1, <1>2 DEF Estagio
<1>4. \A d \in Etapas : d # e => etapa'[d] = etapa[d]
  BY <1>1, <1>2
<1>5. etapa'[e].status = etapa[e].status /\ etapa'[e].executor = etapa[e].executor
      /\ (etapa'[e].iniciada <=> etapa[e].iniciada)
  BY <1>1, <1>2 DEF Estagio
<1>6. TypeOK'
  BY <1>1, <1>3 DEF IInv, TypeOK, Estagio
<1>7. Iniciadas'
  BY <1>4, <1>5 DEF IInv, Iniciadas, Existe
<1>8. DependenciaRespeitada'
  <2> SUFFICES ASSUME NEW d \in Etapas, Existe(d)', EsperaAnterior(d)'
               PROVE  etapa'[d].status = "pendente"
    BY DEF DependenciaRespeitada
  <2>1. \A x \in Etapas : etapa'[x].status = etapa[x].status
    BY <1>4, <1>5
  <2> QED BY <2>1 DEF IInv, DependenciaRespeitada, Existe, EsperaAnterior, Vizinha
<1> QED BY <1>1, <1>4, <1>5, <1>6, <1>7, <1>8, PassoEtapa

LEMMA PassoExcluir ==
    ASSUME IInv, NEW e \in Etapas, Excluir(e)
    PROVE  IInv'
<1>1. /\ etapa' = [etapa EXCEPT ![e] = SemEtapa] /\ repasse[e].estado = "nenhum"
      /\ UNCHANGED <<producao, diretas, trabalho, proposta, financiado, aloc, repasse, legado, definindo>>
  BY DEF Excluir, RepasseRegistrado
<1>2. etapa \in [Etapas -> Estagio]
  BY Formas DEF IInv
<1>3. SemEtapa \in Estagio /\ SemEtapa.status = "inexistente" /\ ~SemEtapa.iniciada
  <2>1. 0 \in 0..Incluidas
    BY ProducaoAssumption
  <2> QED BY <2>1 DEF SemEtapa, Estagio
<1>4. etapa' \in [Etapas -> Estagio] /\ etapa'[e] = SemEtapa
      /\ \A d \in Etapas : d # e => etapa'[d] = etapa[d]
  BY <1>1, <1>2, <1>3
<1>5. TypeOK'
  BY <1>1, <1>4 DEF IInv, TypeOK, Estagio
<1>6. Iniciadas'
  BY <1>3, <1>4 DEF IInv, Iniciadas, Existe
<1>7. DependenciaRespeitada'
  <2> SUFFICES ASSUME NEW d \in Etapas, Existe(d)', EsperaAnterior(d)'
               PROVE  etapa'[d].status = "pendente"
    BY DEF DependenciaRespeitada
  <2>1. d # e /\ Anterior(d) # e /\ Anterior(d) \in Etapas
    BY <1>3, <1>4 DEF Existe, EsperaAnterior, Vizinha
  <2>2. etapa'[d] = etapa[d] /\ etapa'[Anterior(d)] = etapa[Anterior(d)]
    BY <1>4, <2>1
  <2> QED BY <2>2 DEF IInv, DependenciaRespeitada, Existe, EsperaAnterior, Vizinha
<1>8. etapa'[e].iniciada => etapa[e].iniciada \/ ~BloqueioCreditos(e)
  BY <1>3, <1>4
<1>9. aloc' = aloc /\ repasse' = repasse /\ legado' = legado /\ proposta' = proposta
  BY <1>1
<1> QED BY <1>1, <1>4, <1>5, <1>6, <1>7, <1>8, <1>9, PassoEtapa

-----------------------------------------------------------------------------
(* Steps over the lot. *)

LEMMA ContasDasRegistradas ==
    ASSUME Calculado, repasse' = repasse,
           \A e \in Etapas : repasse[e].estado # "nenhum" /\ e[1] \notin Producoes =>
               /\ aloc'[e[1]].valor = aloc[e[1]].valor
               /\ aloc'[e[1]].produtor = aloc[e[1]].produtor
    PROVE  Calculado'
<1> SUFFICES ASSUME NEW e \in Etapas, repasse[e].estado # "nenhum"
             PROVE  Bruto(e)' = Bruto(e) /\ Parcela(e)' = Parcela(e)
  BY DEF Calculado
<1>1. CASE e[1] \in Producoes
  BY <1>1 DEF Bruto, Parcela, BrutosDe, ParcelasDe
<1>2. CASE e[1] \notin Producoes
  BY <1>2 DEF Bruto, Parcela, BrutosDe, ParcelasDe
<1> QED BY <1>1, <1>2

LEMMA LoteNatural == PoolLote \in Nat /\ ValorLote \in Nat /\ Unidades \in Nat
BY ParteProdutorCabe, ProducaoAssumption DEF PoolLote

(* What a reservation takes fits what is left. *)
LEMMA ReservaDoLote ==
    ASSUME aloc \in [Alocacoes -> Alocacao], LoteNaoExcede, NEW q \in 1..Unidades,
           q <= Unidades - Uso("unidades")
    PROVE  LET n == Unidades - Uso("unidades")
               v == ReservarParcela(ValorLote - Uso("valor"), q, n)
               k == ReservarParcela(PoolLote - Uso("produtor"), q, n)
           IN  /\ v \in Nat /\ k \in Nat /\ k <= v
               /\ q + Alocado("unidades") <= Unidades
               /\ v + Alocado("valor") <= ValorLote
               /\ k + Alocado("produtor") <= PoolLote
               /\ PoolLote - (k + Alocado("produtor")) <= ValorLote - (v + Alocado("valor"))
               /\ q + Alocado("unidades") = Unidades =>
                      v + Alocado("valor") = ValorLote /\ k + Alocado("produtor") = PoolLote
<1> DEFINE U == Alocado("unidades")
           V == Alocado("valor")
           K == Alocado("produtor")
           n == Unidades - U
           rv == ValorLote - V
           rp == PoolLote - K
           v == ReservarParcela(rv, q, n)
           k == ReservarParcela(rp, q, n)
<1>1. Uso("unidades") = U /\ Uso("valor") = V /\ Uso("produtor") = K
      /\ U \in Nat /\ V \in Nat /\ K \in Nat
  BY AlocadoDobra DEF Campos
<1>2. U <= Unidades /\ V <= ValorLote /\ K <= PoolLote /\ PoolLote - K <= ValorLote - V
  BY DEF LoteNaoExcede
<1> HIDE DEF U, V, K
<1>3. rv \in Nat /\ rp \in Nat /\ rp <= rv /\ n \in Nat /\ q \in 1..n
  BY <1>1, <1>2, LoteNatural
<1>4. /\ v \in Nat /\ k \in Nat /\ v <= rv /\ k <= rp /\ k <= v
      /\ rp - k <= rv - v
      /\ q = n => k = rp /\ v = rv
  <2> HIDE DEF n, rp, rv
  <2> QED BY <1>3, ReservaCabe
<1> HIDE DEF v, k
<1>5. /\ q + U <= Unidades /\ v + V <= ValorLote /\ k + K <= PoolLote
      /\ PoolLote - (k + K) <= ValorLote - (v + V)
      /\ q + U = Unidades => v + V = ValorLote /\ k + K = PoolLote
  BY <1>1, <1>2, <1>3, <1>4, LoteNatural
<1> QED BY <1>1, <1>4, <1>5 DEF n, v, k, rv, rp, U, V, K

LEMMA PassoAlocar ==
    ASSUME IInv, NEW a \in Alocacoes, NEW p \in Producoes, NEW q \in 1..Unidades,
           Bloquear(p), Alocar(a, p, q),
           producao' \in [Producoes -> StatusProducao \cup {"inexistente"}]
    PROVE  IInv'
<1> DEFINE n == Unidades - Uso("unidades")
           v == ReservarParcela(ValorLote - Uso("valor"), q, n)
           k == ReservarParcela(PoolLote - Uso("produtor"), q, n)
           nova == [producao |-> p, unidades |-> q, estado |-> "reservada",
                    valor |-> v, produtor |-> k]
<1>1. /\ aloc[a].estado = "nenhuma" /\ q <= n
      /\ aloc' = [aloc EXCEPT ![a] = nova]
      /\ etapa' = NovasEtapas(a)
      /\ UNCHANGED <<diretas, trabalho, proposta, financiado, repasse, legado, definindo>>
  BY DEF Alocar
<1>2. aloc \in [Alocacoes -> Alocacao] /\ etapa \in [Etapas -> Estagio]
  BY Formas DEF IInv
<1>3. /\ v \in Nat /\ k \in Nat /\ k <= v
      /\ q + Alocado("unidades") <= Unidades
      /\ v + Alocado("valor") <= ValorLote
      /\ k + Alocado("produtor") <= PoolLote
      /\ PoolLote - (k + Alocado("produtor")) <= ValorLote - (v + Alocado("valor"))
      /\ q + Alocado("unidades") = Unidades =>
             v + Alocado("valor") = ValorLote /\ k + Alocado("produtor") = PoolLote
  BY <1>1, <1>2, ReservaDoLote DEF IInv
<1>4. /\ nova \in Alocacao /\ nova.producao = p /\ nova.estado = "reservada"
      /\ nova.unidades = q /\ nova.valor = v /\ nova.produtor = k
      /\ nova["unidades"] = q /\ nova["valor"] = v /\ nova["produtor"] = k
  <2> HIDE DEF v, k
  <2> QED BY <1>3 DEF Alocacao, EstadoAlocacao
<1> HIDE DEF nova, v, k, n
<1>5. /\ aloc' \in [Alocacoes -> Alocacao] /\ aloc'[a] = nova
      /\ \A b \in Alocacoes : b # a => aloc'[b] = aloc[b]
  BY <1>1, <1>2, <1>4
<1>6. a \notin Vigentes /\ a \in Vigentes' /\ Vigentes' = Vigentes \cup {a}
  BY <1>1, <1>4, <1>5 DEF Vigentes
<1>7. /\ Alocado("unidades")' = q + Alocado("unidades")
      /\ Alocado("valor")' = v + Alocado("valor")
      /\ Alocado("produtor")' = k + Alocado("produtor")
  <2>1. /\ Alocado("unidades")' = aloc'[a]["unidades"] + Alocado("unidades")
        /\ Alocado("valor")' = aloc'[a]["valor"] + Alocado("valor")
        /\ Alocado("produtor")' = aloc'[a]["produtor"] + Alocado("produtor")
    BY <1>2, <1>5, <1>6, AlocadoPoe DEF Campos
  <2> QED BY <1>4, <1>5, <2>1
<1>8. LoteNaoExcede'
  BY <1>3, <1>7 DEF LoteNaoExcede
<1>9. Vigencia'
  <2> SUFFICES ASSUME NEW b \in Vigentes'
               PROVE  aloc'[b].unidades > 0 /\ aloc'[b].produtor <= aloc'[b].valor
    BY DEF Vigencia
  <2>1. CASE b = a
    BY <1>3, <1>4, <1>5, <2>1
  <2>2. CASE b # a
    BY <1>5, <1>6, <2>2, VigentesFinitas DEF IInv, Vigencia
  <2> QED BY <2>1, <2>2
<1>10. /\ etapa' \in [Etapas -> Estagio]
       /\ Iniciadas' /\ DependenciaRespeitada'
       /\ \A e \in Etapas : e[1] # a => etapa'[e] = etapa[e]
       /\ \A e \in Etapas : e[1] = a => ~etapa'[e].iniciada
  BY <1>1, EtapasNovas DEF IInv, Origens
<1>11. TypeOK'
  BY <1>1, <1>5, <1>10 DEF IInv, TypeOK, Estagio, Alocacao
<1>12. a \notin Producoes
  BY ProducaoAssumption
<1>13. OrigemUnica'
  <2>1. proposta[p] = "nenhuma" /\ legado[p].estado = "nenhum"
    BY DEF Bloquear
  <2> SUFFICES ASSUME NEW r \in Producoes
               PROVE  /\ AlocadasEm(r)' # {} => proposta[r] = "nenhuma" /\ legado[r].estado = "nenhum"
                      /\ legado[r].estado # "nenhum" =>
                            \A e \in Etapas : ProducaoDe(e)' = r => repasse[e].estado = "nenhum"
    BY <1>1 DEF OrigemUnica
  <2>2. CASE r = p
    BY <2>1, <2>2
  <2>3. CASE r # p
    <3>1. AlocadasEm(r)' \subseteq AlocadasEm(r)
      BY <1>4, <1>5, <2>3 DEF AlocadasEm
    <3>2. \A e \in Etapas : ProducaoDe(e)' = r => ProducaoDe(e) = r
      <4> SUFFICES ASSUME NEW e \in Etapas, ProducaoDe(e)' = r PROVE ProducaoDe(e) = r
        OBVIOUS
      <4>1. e[1] \in Origens
        BY Vizinhanca
      <4>2. e[1] # a
        BY <1>4, <1>5, <1>12, <2>3 DEF ProducaoDe
      <4> QED BY <1>5, <4>1, <4>2 DEF ProducaoDe, Origens
    <3> QED BY <3>1, <3>2 DEF IInv, OrigemUnica
  <2> QED BY <2>2, <2>3
<1>14. \A e \in Etapas : repasse[e].estado # "nenhum" => e[1] # a
  BY <1>1 DEF IInv, RegistroFiel
<1>15. RegistroFiel'
  <2> SUFFICES ASSUME NEW e \in Etapas, repasse[e].estado # "nenhum"
               PROVE  /\ etapa'[e].status = "concluida"
                      /\ etapa'[e].executor = repasse[e].produtor
                      /\ e[1] \in Alocacoes => aloc'[e[1]].estado = "consumida"
    BY <1>1 DEF RegistroFiel
  <2> QED BY <1>5, <1>10, <1>14 DEF IInv, RegistroFiel
<1>16. TrabalhoFinanciado'
  <2> SUFFICES ASSUME NEW e \in Etapas, e[1] \in Alocacoes, etapa'[e].iniciada
               PROVE  aloc'[e[1]].estado = "consumida"
    BY DEF TrabalhoFinanciado
  <2>1. e[1] # a
    BY <1>10
  <2> QED BY <1>5, <1>10, <2>1 DEF IInv, TrabalhoFinanciado
<1>17. Calculado'
  <2>1. \A e \in Etapas : repasse[e].estado # "nenhum" /\ e[1] \notin Producoes =>
            aloc'[e[1]] = aloc[e[1]]
    BY <1>5, <1>14, Vizinhanca DEF Origens
  <2> QED BY <1>1, <2>1, ContasDasRegistradas DEF IInv
<1> QED BY <1>8, <1>9, <1>10, <1>11, <1>13, <1>15, <1>16, <1>17 DEF IInv

(* An allocation moves: its units and cents stay what they were. *)
LEMMA Movida ==
    ASSUME IInv, NEW a \in Alocacoes, NEW s \in EstadoAlocacao, Movimentado(a, s)
    PROVE  /\ aloc' \in [Alocacoes -> Alocacao]
           /\ aloc'[a].estado = s /\ aloc'[a].producao = aloc[a].producao
           /\ aloc'[a].unidades = aloc[a].unidades
           /\ aloc'[a].valor = aloc[a].valor /\ aloc'[a].produtor = aloc[a].produtor
           /\ \A b \in Alocacoes : b # a => aloc'[b] = aloc[b]
           /\ TypeOK'
<1>1. /\ aloc' = [aloc EXCEPT ![a].estado = s]
      /\ UNCHANGED <<producao, diretas, trabalho, proposta, financiado, etapa, repasse, legado, definindo>>
  BY DEF Movimentado
<1>2. aloc \in [Alocacoes -> Alocacao]
  BY Formas DEF IInv
<1>3. aloc' \in [Alocacoes -> Alocacao]
  BY <1>1, <1>2 DEF Alocacao
<1>4. /\ aloc'[a].estado = s /\ aloc'[a].producao = aloc[a].producao
      /\ aloc'[a].unidades = aloc[a].unidades
      /\ aloc'[a].valor = aloc[a].valor /\ aloc'[a].produtor = aloc[a].produtor
  BY <1>1, <1>2 DEF Alocacao
<1>5. TypeOK'
  BY <1>1, <1>3 DEF IInv, TypeOK, Alocacao
<1> QED BY <1>1, <1>2, <1>3, <1>4, <1>5

(* Whatever the movement, the origins, the stages and the accounts stand. *)
LEMMA MovidaMantem ==
    ASSUME IInv, NEW a \in Alocacoes, NEW s \in EstadoAlocacao, Movimentado(a, s)
    PROVE  Iniciadas' /\ DependenciaRespeitada' /\ OrigemUnica' /\ Calculado'
<1>1. UNCHANGED <<producao, diretas, trabalho, proposta, financiado, etapa, repasse, legado, definindo>>
  BY DEF Movimentado
<1>2. \A b \in Alocacoes : /\ aloc'[b].producao = aloc[b].producao
                           /\ aloc'[b].valor = aloc[b].valor
                           /\ aloc'[b].produtor = aloc[b].produtor
  BY Movida
<1>3. Iniciadas' /\ DependenciaRespeitada'
  BY <1>1, EtapasMantidas DEF IInv
<1>4. OrigemUnica'
  <2>1. \A p \in Producoes : AlocadasEm(p)' = AlocadasEm(p)
    BY <1>2 DEF AlocadasEm
  <2>2. \A e \in Etapas : ProducaoDe(e)' = ProducaoDe(e)
    BY <1>2, Vizinhanca DEF ProducaoDe, Origens
  <2> QED BY <1>1, <2>1, <2>2 DEF IInv, OrigemUnica
<1>5. Calculado'
  <2>1. \A e \in Etapas : e[1] \notin Producoes =>
            /\ aloc'[e[1]].valor = aloc[e[1]].valor
            /\ aloc'[e[1]].produtor = aloc[e[1]].produtor
    BY <1>2, Vizinhanca DEF Origens
  <2> QED BY <1>1, <2>1, ContasDasRegistradas DEF IInv
<1> QED BY <1>3, <1>4, <1>5

LEMMA PassoConsumir ==
    ASSUME IInv, NEW a \in Alocacoes, Consumir(a)
    PROVE  IInv'
<1>1. aloc[a].estado = "reservada" /\ Movimentado(a, "consumida") /\ "consumida" \in EstadoAlocacao
  BY DEF Consumir, EstadoAlocacao
<1>2. /\ aloc \in [Alocacoes -> Alocacao] /\ aloc' \in [Alocacoes -> Alocacao]
      /\ aloc'[a].estado = "consumida"
      /\ aloc'[a].unidades = aloc[a].unidades
      /\ aloc'[a].valor = aloc[a].valor /\ aloc'[a].produtor = aloc[a].produtor
      /\ \A b \in Alocacoes : b # a => aloc'[b] = aloc[b]
      /\ TypeOK'
  BY <1>1, Movida, Formas DEF IInv
<1>3. Iniciadas' /\ DependenciaRespeitada' /\ OrigemUnica' /\ Calculado'
  BY <1>1, MovidaMantem
<1>4. Vigentes' = Vigentes
  BY <1>1, <1>2 DEF Vigentes
<1>5. LoteNaoExcede'
  <2>1. \A b \in Vigentes : /\ aloc'[b]["unidades"] = aloc[b]["unidades"]
                            /\ aloc'[b]["valor"] = aloc[b]["valor"]
                            /\ aloc'[b]["produtor"] = aloc[b]["produtor"]
    BY <1>2, VigentesFinitas
  <2>2. /\ Alocado("unidades")' = Alocado("unidades")
        /\ Alocado("valor")' = Alocado("valor")
        /\ Alocado("produtor")' = Alocado("produtor")
    BY <1>4, <2>1, AlocadoMantem
  <2> QED BY <2>2 DEF IInv, LoteNaoExcede
<1>6. Vigencia'
  BY <1>2, <1>4, VigentesFinitas DEF IInv, Vigencia
<1>7. RegistroFiel' /\ TrabalhoFinanciado'
  <2>1. etapa' = etapa /\ repasse' = repasse
    BY <1>1 DEF Movimentado
  <2>2. \A b \in Alocacoes : aloc[b].estado = "consumida" => aloc'[b].estado = "consumida"
    BY <1>2
  <2> QED BY <2>1, <2>2 DEF IInv, RegistroFiel, TrabalhoFinanciado
<1> QED BY <1>2, <1>3, <1>5, <1>6, <1>7 DEF IInv

LEMMA PassoDevolver ==
    ASSUME IInv, NEW a \in Alocacoes, Devolver(a)
    PROVE  IInv'
<1> DEFINE p == aloc[a].producao
           s == IF aloc[a].estado = "reservada" THEN "devolvida" ELSE "estornada"
<1>1. a \in Vigentes /\ ~TemTrabalho(p) /\ Movimentado(a, s) /\ s \in EstadoAlocacao
      /\ s \notin {"reservada", "consumida"}
  BY DEF Devolver, EstadoAlocacao
<1> HIDE DEF s
<1>2. /\ aloc \in [Alocacoes -> Alocacao] /\ aloc' \in [Alocacoes -> Alocacao]
      /\ aloc'[a].estado = s
      /\ \A b \in Alocacoes : b # a => aloc'[b] = aloc[b]
      /\ TypeOK'
  BY <1>1, Movida, Formas DEF IInv
<1>3. Iniciadas' /\ DependenciaRespeitada' /\ OrigemUnica' /\ Calculado'
  BY <1>1, MovidaMantem
<1>4. a \notin Vigentes' /\ Vigentes' = Vigentes \ {a}
  BY <1>1, <1>2 DEF Vigentes
<1>5. LoteNaoExcede'
  <2> DEFINE u == aloc[a]["unidades"]
             v == aloc[a]["valor"]
             k == aloc[a]["produtor"]
             U == Alocado("unidades")
             V == Alocado("valor")
             K == Alocado("produtor")
  <2>1. u \in Nat /\ v \in Nat /\ k \in Nat /\ u > 0 /\ k <= v
    <3>1. aloc[a].unidades > 0 /\ aloc[a].produtor <= aloc[a].valor
      BY <1>1 DEF IInv, Vigencia
    <3>2. aloc[a] \in Alocacao
      BY <1>2
    <3> QED BY <3>1, <3>2 DEF Alocacao
  <2>2. U \in Nat /\ V \in Nat /\ K \in Nat /\ U' \in Nat /\ V' \in Nat /\ K' \in Nat
    <3>1. U \in Nat /\ V \in Nat /\ K \in Nat
      BY <1>2, AlocadoDobra DEF Campos
    <3>2. U = u + U' /\ V = v + V' /\ K = k + K'
      BY <1>1, <1>2, <1>4, AlocadoTira DEF Campos
    <3>3. IsFiniteSet(Vigentes') /\ Vigentes' \subseteq Alocacoes
      BY <1>4, VigentesFinitas, FS_RemoveElement
    <3>4. \A c \in Campos : Alocado(c)' \in Nat
      <4> SUFFICES ASSUME NEW c \in Campos PROVE Alocado(c)' \in Nat
        OBVIOUS
      <4> DEFINE g == [b \in Vigentes' |-> aloc'[b][c]]
      <4>1. Alocado(c)' = Dobra(g)
        BY DEF Alocado, Dobra, Vigentes, FoldFunction, FoldFunctionOnSet, MapThenFoldSet
      <4>2. DOMAIN g = Vigentes' /\ \A b \in Vigentes' : g[b] \in Nat
        BY <1>2, <3>3, CampoNatural
      <4> HIDE DEF g
      <4> QED BY <3>3, <4>1, <4>2, FoldNatural
    <3> QED BY <3>1, <3>4 DEF Campos
  <2>3. U = u + U' /\ V = v + V' /\ K = k + K'
    BY <1>1, <1>2, <1>4, AlocadoTira DEF Campos
  <2>4. U <= Unidades /\ V <= ValorLote /\ K <= PoolLote /\ PoolLote - K <= ValorLote - V
    BY DEF IInv, LoteNaoExcede
  <2> HIDE DEF u, v, k, U, V, K
  <2>5. ASSUME NEW m \in Nat, NEW x \in Nat, NEW y \in Nat,
               U = u + m, V = v + x, K = k + y
        PROVE  /\ m <= Unidades /\ x <= ValorLote /\ y <= PoolLote
               /\ PoolLote - y <= ValorLote - x /\ m # Unidades
    BY <2>1, <2>4, <2>5, LoteNatural
  <2>6. /\ U' <= Unidades /\ V' <= ValorLote /\ K' <= PoolLote
        /\ PoolLote - K' <= ValorLote - V' /\ U' # Unidades
    BY <2>2, <2>3, <2>5
  <2> QED BY <2>6 DEF U, V, K, LoteNaoExcede
<1>6. Vigencia'
  BY <1>2, <1>4, VigentesFinitas DEF IInv, Vigencia
<1>7. etapa' = etapa /\ repasse' = repasse
  BY <1>1 DEF Movimentado
<1>8. \A e \in Etapas : e[1] = a => ~etapa[e].iniciada
  <2> SUFFICES ASSUME NEW e \in Etapas, e[1] = a, etapa[e].iniciada PROVE FALSE
    OBVIOUS
  <2>1. Existe(e)
    BY DEF IInv, Iniciadas
  <2>2. ProducaoDe(e) = p
    BY ProducaoAssumption DEF ProducaoDe
  <2> QED BY <1>1, <2>1, <2>2 DEF TemTrabalho
<1>9. \A e \in Etapas : repasse[e].estado # "nenhum" => e[1] # a
  BY <1>8 DEF IInv, RegistroFiel, Iniciadas
<1>10. RegistroFiel'
  BY <1>2, <1>7, <1>9 DEF IInv, RegistroFiel
<1>11. TrabalhoFinanciado'
  <2> SUFFICES ASSUME NEW e \in Etapas, e[1] \in Alocacoes, etapa'[e].iniciada
               PROVE  aloc'[e[1]].estado = "consumida"
    BY DEF TrabalhoFinanciado
  <2>1. e[1] # a
    BY <1>7, <1>8
  <2> QED BY <1>2, <1>7, <2>1 DEF IInv, TrabalhoFinanciado
<1> QED BY <1>2, <1>3, <1>5, <1>6, <1>10, <1>11 DEF IInv

-----------------------------------------------------------------------------
(* Steps over the money. *)

LEMMA PassoEmitir ==
    ASSUME IInv, NEW p \in Producoes, Emitir(p)
    PROVE  IInv'
<1> DEFINE elegiveis == {e \in EtapasDe(p) : Bruto(e) > 0 /\ AReceber(e)}
           N == {e \in elegiveis : ~RepasseRegistrado(e)}
<1>1. /\ Contexto(p)
      /\ repasse' = [e \in Etapas |-> IF e \in elegiveis /\ ~RepasseRegistrado(e)
                                      THEN Registro(e) ELSE repasse[e]]
      /\ UNCHANGED <<producao, diretas, trabalho, proposta, financiado, aloc, etapa, legado, definindo>>
  BY DEF Emitir
<1>2. \A e \in Etapas : repasse'[e] = IF e \in N THEN Registro(e) ELSE repasse[e]
  BY <1>1
<1>3. \A e \in N : e \in EtapasDe(p) /\ AReceber(e)
  OBVIOUS
<1> HIDE DEF N, elegiveis
<1>4. /\ aloc \in [Alocacoes -> Alocacao] /\ etapa \in [Etapas -> Estagio]
      /\ repasse \in [Etapas -> Pagamento]
  BY Formas DEF IInv
<1>5. \A e \in N : /\ Registro(e) \in Pagamento
                   /\ Registro(e).estado = "emitido" /\ Registro(e).produtor = etapa[e].executor
                   /\ Registro(e).bruto = Bruto(e) /\ Registro(e).parcela = Parcela(e)
  <2> TAKE e \in N
  <2>1. e \in Etapas
    BY <1>3 DEF EtapasDe
  <2>2. Bruto(e) \in Nat /\ Parcela(e) \in Nat
    BY <1>4, <2>1, PartesNaturais
  <2>3. etapa[e].executor \in Produtores \cup {Ninguem}
    BY <1>4, <2>1 DEF Estagio
  <2> QED BY <2>2, <2>3 DEF Registro, Pagamento
<1>6. repasse' \in [Etapas -> Pagamento]
  <2>1. \E S : repasse' = [e \in Etapas |-> IF e \in S THEN Registro(e) ELSE repasse[e]]
    <3>1. repasse' = [e \in Etapas |-> IF e \in N THEN Registro(e) ELSE repasse[e]]
      BY <1>1 DEF N
    <3> QED BY <3>1
  <2>2. DOMAIN repasse' = Etapas /\ repasse' = [e \in Etapas |-> repasse'[e]]
    BY <2>1
  <2>3. \A e \in Etapas : repasse'[e] \in Pagamento
    BY <1>2, <1>4, <1>5
  <2> QED BY <2>2, <2>3
<1>7. TypeOK'
  BY <1>1, <1>6 DEF IInv, TypeOK, Pagamento
<1>8. Iniciadas' /\ DependenciaRespeitada'
  BY <1>1, EtapasMantidas DEF IInv
<1>9. Vigencia' /\ LoteNaoExcede'
  BY <1>1, LoteMantido DEF IInv
<1>10. OrigemUnica'
  <2>1. legado[p].estado = "nenhum"
    BY <1>1 DEF Contexto
  <2> SUFFICES ASSUME NEW r \in Producoes, legado[r].estado # "nenhum",
                      NEW e \in Etapas, ProducaoDe(e) = r
               PROVE  repasse'[e].estado = "nenhum"
    BY <1>1 DEF IInv, OrigemUnica, AlocadasEm, ProducaoDe
  <2>2. e \notin N
    BY <1>3, <2>1 DEF EtapasDe
  <2> QED BY <1>2, <2>2 DEF IInv, OrigemUnica
<1>11. RegistroFiel'
  <2> SUFFICES ASSUME NEW e \in Etapas, repasse'[e].estado # "nenhum"
               PROVE  /\ etapa[e].status = "concluida"
                      /\ etapa[e].executor = repasse'[e].produtor
                      /\ e[1] \in Alocacoes => aloc[e[1]].estado = "consumida"
    BY <1>1 DEF RegistroFiel
  <2>1. CASE e \notin N
    BY <1>2, <2>1 DEF IInv, RegistroFiel
  <2>2. CASE e \in N
    <3>1. etapa[e].status = "concluida" /\ etapa[e].executor = repasse'[e].produtor
      BY <1>2, <1>3, <1>5, <2>2 DEF AReceber
    <3>2. ASSUME e[1] \in Alocacoes PROVE aloc[e[1]].estado = "consumida"
      <4>1. e \in EtapasDe(p) /\ e[1] \notin Producoes
        BY <1>3, <2>2, <3>2, ProducaoAssumption
      <4>2. e[1] \in VigentesEm(p)
        BY <3>2, <4>1 DEF EtapasDe, VigentesEm, AlocadasEm, ProducaoDe
      <4>3. OrigemCreditos(p)
        BY <1>1, <4>2 DEF Contexto, VigentesEm
      <4> QED BY <4>2, <4>3 DEF OrigemCreditos
    <3> QED BY <3>1, <3>2
  <2> QED BY <2>1, <2>2
<1>12. TrabalhoFinanciado'
  BY <1>1 DEF IInv, TrabalhoFinanciado
<1>13. Calculado'
  <2>1. \A e \in Etapas : Bruto(e)' = Bruto(e) /\ Parcela(e)' = Parcela(e)
    BY <1>1 DEF Bruto, Parcela, BrutosDe, ParcelasDe
  <2> SUFFICES ASSUME NEW e \in Etapas
               PROVE  /\ repasse'[e].estado = "nenhum" =>
                            repasse'[e].bruto = 0 /\ repasse'[e].parcela = 0
                      /\ repasse'[e].estado # "nenhum" =>
                            repasse'[e].bruto = Bruto(e) /\ repasse'[e].parcela = Parcela(e)
    BY <2>1 DEF Calculado
  <2>2. CASE e \in N
    BY <1>2, <1>5, <2>2
  <2>3. CASE e \notin N
    BY <1>2, <2>3 DEF IInv, Calculado
  <2> QED BY <2>2, <2>3
<1> QED BY <1>7, <1>8, <1>9, <1>10, <1>11, <1>12, <1>13 DEF IInv

LEMMA PassoPagar ==
    ASSUME IInv, NEW e \in Etapas, Pagar(e)
    PROVE  IInv'
<1>1. /\ repasse[e].estado = "emitido"
      /\ repasse' = [repasse EXCEPT ![e].estado = "pago"]
      /\ UNCHANGED <<producao, diretas, trabalho, proposta, financiado, aloc, etapa, legado, definindo>>
  BY DEF Pagar
<1>2. repasse \in [Etapas -> Pagamento]
  BY Formas DEF IInv
<1>3. repasse' \in [Etapas -> Pagamento]
  BY <1>1, <1>2 DEF Pagamento
<1>4. \A d \in Etapas : /\ repasse'[d].estado = "nenhum" <=> repasse[d].estado = "nenhum"
                        /\ repasse'[d].produtor = repasse[d].produtor
                        /\ repasse'[d].bruto = repasse[d].bruto
                        /\ repasse'[d].parcela = repasse[d].parcela
  BY <1>1, <1>2 DEF Pagamento
<1>5. TypeOK'
  BY <1>1, <1>3 DEF IInv, TypeOK, Pagamento
<1>6. Iniciadas' /\ DependenciaRespeitada'
  BY <1>1, EtapasMantidas DEF IInv
<1>7. Vigencia' /\ LoteNaoExcede'
  BY <1>1, LoteMantido DEF IInv
<1>8. OrigemUnica'
  BY <1>1, <1>4 DEF IInv, OrigemUnica, AlocadasEm, ProducaoDe
<1>9. RegistroFiel' /\ TrabalhoFinanciado'
  BY <1>1, <1>4 DEF IInv, RegistroFiel, TrabalhoFinanciado
<1>10. Calculado'
  <2>1. \A d \in Etapas : Bruto(d)' = Bruto(d) /\ Parcela(d)' = Parcela(d)
    BY <1>1 DEF Bruto, Parcela, BrutosDe, ParcelasDe
  <2> QED BY <1>4, <2>1 DEF IInv, Calculado
<1> QED BY <1>5, <1>6, <1>7, <1>8, <1>9, <1>10 DEF IInv

(* An amount is agreed by hand only where nothing else is owed. *)
LEMMA PassoAcordo ==
    ASSUME IInv, TypeOK', aloc' = aloc, etapa' = etapa, repasse' = repasse, proposta' = proposta,
           \A p \in Producoes : legado[p].estado = "nenhum" /\ legado'[p].estado # "nenhum" =>
               /\ AlocadasEm(p) = {}
               /\ \A e \in Etapas : ProducaoDe(e) = p => ~Existe(e)
    PROVE  IInv'
<1>1. Iniciadas' /\ DependenciaRespeitada'
  BY EtapasMantidas DEF IInv
<1>2. Vigencia' /\ LoteNaoExcede'
  BY LoteMantido DEF IInv
<1>3. Calculado'
  BY ContasMantidas DEF IInv
<1>4. RegistroFiel' /\ TrabalhoFinanciado'
  BY DEF IInv, RegistroFiel, TrabalhoFinanciado
<1>5. OrigemUnica'
  <2>1. \A e \in Etapas : ~Existe(e) => repasse[e].estado = "nenhum"
    BY DEF IInv, RegistroFiel, Existe
  <2> SUFFICES ASSUME NEW p \in Producoes
               PROVE  /\ AlocadasEm(p) # {} =>
                             proposta[p] = "nenhuma" /\ legado'[p].estado = "nenhum"
                      /\ legado'[p].estado # "nenhum" =>
                             \A e \in Etapas : ProducaoDe(e) = p => repasse[e].estado = "nenhum"
    BY DEF OrigemUnica, AlocadasEm, ProducaoDe
  <2> QED BY <2>1 DEF IInv, OrigemUnica
<1> QED BY <1>1, <1>2, <1>3, <1>4, <1>5 DEF IInv

LEMMA PassoLegado ==
    ASSUME IInv, NEW p \in Producoes,
           \/ \E v \in Valores : DefinirNovo(p, v) \/ GravarDefinido(p, v) \/ Correct(p, v)
           \/ Release(p) \/ MarkPaid(p)
    PROVE  IInv'
<1> DEFINE L == [estado : {"nenhum", "definido", "liberado", "pago"}, valor : Valores \cup {0}]
<1>0. legado \in [Producoes -> L]
  BY DEF IInv, TypeOK
<1>1. ASSUME NEW v \in Valores, DefinirNovo(p, v) PROVE IInv'
  <2>1. /\ AlocadasEm(p) = {} /\ ~\E e \in Etapas : Existe(e) /\ ProducaoDe(e) = p
        /\ legado' = [legado EXCEPT ![p] = [estado |-> "definido", valor |-> v]]
        /\ UNCHANGED <<producao, diretas, trabalho, proposta, financiado, aloc, etapa, repasse, definindo>>
    BY <1>1 DEF DefinirNovo
  <2>2. TypeOK'
    BY <2>1 DEF IInv, TypeOK
  <2>3. \A r \in Producoes : r # p => legado'[r] = legado[r]
    BY <1>0, <2>1
  <2> QED BY <2>1, <2>2, <2>3, PassoAcordo
<1>2. ASSUME NEW v \in Valores, GravarDefinido(p, v) \/ Correct(p, v) PROVE IInv'
  <2>1. /\ legado' = [legado EXCEPT ![p].valor = v] /\ definindo' \subseteq definindo
        /\ UNCHANGED <<producao, diretas, trabalho, proposta, financiado, aloc, etapa, repasse>>
    BY <1>2 DEF GravarDefinido, Correct
  <2>2. TypeOK'
    BY <2>1 DEF IInv, TypeOK
  <2>3. \A r \in Producoes : legado'[r].estado = legado[r].estado
    BY <1>0, <2>1
  <2> QED BY <2>1, <2>2, <2>3, PassoAcordo
<1>3. ASSUME NEW de \in {"definido", "liberado"}, NEW para \in {"liberado", "pago"},
             PassarLegado(p, de, para)
      PROVE  IInv'
  <2>1. /\ legado[p].estado = de
        /\ legado' = [legado EXCEPT ![p].estado = para]
        /\ UNCHANGED <<producao, diretas, trabalho, proposta, financiado, aloc, etapa, repasse, definindo>>
    BY <1>3 DEF PassarLegado
  <2>2. TypeOK'
    BY <2>1 DEF IInv, TypeOK
  <2>3. legado[p].estado # "nenhum" /\ \A r \in Producoes : r # p => legado'[r] = legado[r]
    BY <1>0, <2>1
  <2> QED BY <2>1, <2>2, <2>3, PassoAcordo
<1>4. CASE Release(p) \/ MarkPaid(p)
  BY <1>3, <1>4 DEF Release, MarkPaid
<1> QED BY <1>1, <1>2, <1>4

-----------------------------------------------------------------------------
(* The whole. *)

LEMMA NadaAlocado ==
    Init => /\ \A p \in Producoes : AlocadasEm(p) = {}
            /\ Vigentes = {}
            /\ \A c \in Campos : Alocado(c) = 0
<1> SUFFICES ASSUME Init PROVE /\ \A p \in Producoes : AlocadasEm(p) = {}
                               /\ Vigentes = {}
                               /\ \A c \in Campos : Alocado(c) = 0
  OBVIOUS
<1>1. aloc = [a \in Alocacoes |-> SemAlocacao]
  BY DEF Init
<1>2. \A p \in Producoes : AlocadasEm(p) = {}
  BY <1>1, ProducaoAssumption DEF AlocadasEm, SemAlocacao
<1>3. Vigentes = {}
  BY <1>1 DEF Vigentes, SemAlocacao
<1>4. aloc \in [Alocacoes -> Alocacao]
  BY <1>1 DEF Alocacao, SemAlocacao, EstadoAlocacao
<1>5. ASSUME NEW c \in Campos PROVE Alocado(c) = 0
  <2> DEFINE f == [a \in Vigentes |-> aloc[a][c]]
  <2>1. Alocado(c) = Dobra(f)
    BY <1>4, AlocadoDobra
  <2>2. DOMAIN f = {}
    BY <1>3
  <2> HIDE DEF f
  <2> QED BY <2>1, <2>2, FoldVazia
<1> QED BY <1>2, <1>3, <1>5

LEMMA InicioSeguro == Init => IInv
<1> SUFFICES ASSUME Init PROVE IInv
  OBVIOUS
<1>1. TypeOK
  BY ProducaoAssumption DEF Init, TypeOK, SemEtapa, SemAlocacao, SemRepasse, SemLegado, EstadoAlocacao
<1>2. Iniciadas /\ DependenciaRespeitada /\ TrabalhoFinanciado
  <2>1. \A e \in Etapas : etapa[e] = SemEtapa
    BY DEF Init
  <2> QED BY <2>1 DEF Iniciadas, DependenciaRespeitada, TrabalhoFinanciado, Existe, SemEtapa
<1>3. RegistroFiel /\ Calculado
  <2>1. \A e \in Etapas : repasse[e] = SemRepasse
    BY DEF Init
  <2> QED BY <2>1 DEF RegistroFiel, Calculado, SemRepasse
<1>4. OrigemUnica
  BY NadaAlocado DEF OrigemUnica, Init, SemLegado
<1>5. Vigencia
  BY NadaAlocado DEF Vigencia
<1>6. LoteNaoExcede
  <2>1. Alocado("unidades") = 0 /\ Alocado("valor") = 0 /\ Alocado("produtor") = 0
    BY NadaAlocado DEF Campos
  <2>2. PoolLote <= ValorLote /\ Unidades # 0
    BY ParteProdutorCabe, ProducaoAssumption DEF PoolLote
  <2> QED BY <2>1, <2>2, LoteNatural DEF LoteNaoExcede
<1> QED BY <1>1, <1>2, <1>3, <1>4, <1>5, <1>6 DEF IInv

LEMMA PassoContratar ==
    ASSUME IInv, NEW p \in Producoes, Contratar(p)
    PROVE  IInv'
<1>1. CASE CriarProducao(p) \/ CriarDireta(p) \/ CriarProposta(p)
  <2>1. aloc' = aloc /\ etapa' = etapa /\ repasse' = repasse /\ legado' = legado
    BY <1>1 DEF CriarProducao, CriarDireta, CriarProposta
  <2>2. TypeOK'
    BY <1>1 DEF IInv, TypeOK, CriarProducao, CriarDireta, CriarProposta, StatusProducao
  <2>3. \A r \in Producoes : AlocadasEm(r) # {} => proposta'[r] = proposta[r]
    BY <1>1 DEF IInv, TypeOK, CriarProducao, CriarDireta, CriarProposta
  <2> QED BY <2>1, <2>2, <2>3, PassoNeutro
<1>2. CASE Aprovar(p) \/ LiberarProducao(p) \/ Gerar(p)
  <2>1. /\ aloc' = aloc /\ repasse' = repasse /\ legado' = legado
        /\ Instanciar(p) \/ etapa' = etapa
        /\ UNCHANGED <<diretas, trabalho, financiado, definindo>>
    BY <1>2 DEF Aprovar, LiberarProducao, Gerar
  <2>2. \A r \in Producoes : AlocadasEm(r) # {} => proposta'[r] = proposta[r]
    <3>1. CASE Aprovar(p)
      <4>1. proposta[p] = "rascunho" /\ proposta' = [proposta EXCEPT ![p] = "aceita"]
        BY <3>1 DEF Aprovar
      <4>2. AlocadasEm(p) = {}
        BY <4>1 DEF IInv, OrigemUnica
      <4> QED BY <4>1, <4>2 DEF IInv, TypeOK
    <3>2. CASE LiberarProducao(p) \/ Gerar(p)
      BY <3>2 DEF LiberarProducao, Gerar
    <3> QED BY <1>2, <3>1, <3>2
  <2>3. (EtapasDe(p) = {} /\ etapa' = NovasEtapas(p)) \/ etapa' = etapa
    BY <2>1 DEF Instanciar
  <2>4. TypeOK'
    <3>1. etapa' \in [Etapas -> Estagio]
      BY <2>3, Formas, EtapasNovas DEF IInv, Origens
    <3>2. /\ producao' \in [Producoes -> StatusProducao \cup {"inexistente"}]
          /\ proposta' \in [Producoes -> {"nenhuma", "rascunho", "aceita"}]
      BY <1>2 DEF IInv, TypeOK, Aprovar, LiberarProducao, Gerar, StatusProducao
    <3> QED BY <2>1, <3>1, <3>2 DEF IInv, TypeOK, Estagio
  <2> QED BY <2>1, <2>2, <2>3, <2>4, PassoNeutro, PassoContrato
<1> QED BY <1>1, <1>2 DEF Contratar

(* Status, files, the conciliation of a charge and the lock of a production. *)
LEMMA PassoAndamento ==
    ASSUME IInv,
           \/ \E p \in Producoes : \/ AtualizarAndamento(p) \/ Trabalhar(p) \/ LerDefinido(p)
                                   \/ \E s \in StatusProducao : MudarStatus(p, s)
           \/ \E o \in Producoes \cup {Lote} : Conciliar(o)
           \/ UNCHANGED vars
    PROVE  IInv'
<1>1. /\ aloc' = aloc /\ etapa' = etapa /\ repasse' = repasse /\ legado' = legado
      /\ proposta' = proposta /\ diretas' = diretas
  BY DEF AtualizarAndamento, Trabalhar, LerDefinido, MudarStatus, Conciliar, vars
<1>2. \A s : TransicoesCoordenador(s) \subseteq StatusProducao
  BY DEF TransicoesCoordenador, StatusProducao
<1>3. producao' \in [Producoes -> StatusProducao \cup {"inexistente"}]
  BY <1>2 DEF IInv, TypeOK, AtualizarAndamento, Trabalhar, LerDefinido, MudarStatus, Conciliar, vars
<1>4. trabalho' \in [Producoes -> BOOLEAN] /\ financiado' \in [Producoes \cup {Lote} -> BOOLEAN]
  BY DEF IInv, TypeOK, AtualizarAndamento, Trabalhar, LerDefinido, MudarStatus, Conciliar, vars
<1>5. definindo' \subseteq Producoes
  BY DEF IInv, TypeOK, AtualizarAndamento, Trabalhar, LerDefinido, MudarStatus, Conciliar, vars
<1>6. TypeOK'
  BY <1>1, <1>3, <1>4, <1>5 DEF IInv, TypeOK
<1> QED BY <1>1, <1>6, PassoNeutro

LEMMA PassoReservar ==
    ASSUME IInv, NEW a \in Alocacoes, NEW p \in Producoes, NEW q \in 1..Unidades,
           Reservar(a, p, q) \/ CriarProducaoDeCreditos(a, p, q)
    PROVE  IInv'
<1>1. Bloquear(p) /\ Alocar(a, p, q)
  BY DEF Reservar, CriarProducaoDeCreditos
<1>2. producao' \in [Producoes -> StatusProducao \cup {"inexistente"}]
  BY DEF IInv, TypeOK, StatusProducao, Reservar, CriarProducaoDeCreditos
<1> QED BY <1>1, <1>2, PassoAlocar

LEMMA PassoInvariante == IInv /\ [Next]_vars => IInv'
<1> SUFFICES ASSUME IInv, [Next]_vars PROVE IInv'
  OBVIOUS
<1>1. CASE UNCHANGED vars
  BY <1>1, PassoAndamento
<1>2. ASSUME NEW p \in Producoes, Contratar(p) PROVE IInv'
  BY <1>2, PassoContratar
<1>3. ASSUME NEW p \in Producoes, Remunerar(p) PROVE IInv'
  BY <1>3, PassoEmitir, PassoAndamento, PassoLegado DEF Remunerar
<1>4. ASSUME NEW p \in Producoes,
             \/ AtualizarAndamento(p) \/ Trabalhar(p)
             \/ \E s \in StatusProducao : MudarStatus(p, s)
      PROVE  IInv'
  BY <1>4, PassoAndamento
<1>5. ASSUME NEW o \in Producoes \cup {Lote}, Conciliar(o) PROVE IInv'
  BY <1>5, PassoAndamento
<1>6. ASSUME NEW a \in Alocacoes, Consumir(a) \/ Devolver(a) PROVE IInv'
  BY <1>6, PassoConsumir, PassoDevolver
<1>7. ASSUME NEW a \in Alocacoes, NEW p \in Producoes, NEW q \in 1..Unidades,
             Reservar(a, p, q) \/ CriarProducaoDeCreditos(a, p, q)
      PROVE  IInv'
  BY <1>7, PassoReservar
<1>8. ASSUME NEW e \in Etapas, Excluir(e) \/ Pagar(e) PROVE IInv'
  BY <1>8, PassoExcluir, PassoPagar
<1>9. ASSUME NEW e \in Etapas, NEW u \in Produtores \cup {Ninguem}, Atribuir(e, u) PROVE IInv'
  BY <1>9, PassoAtribuir
<1>10. ASSUME NEW e \in Etapas, NEW papel \in Produtores \cup {"admin"}, NEW d \in StatusEtapa,
              Atualizar(e, papel, d)
       PROVE  IInv'
  BY <1>10, PassoAtualizar
<1> QED BY <1>1, <1>2, <1>3, <1>4, <1>5, <1>6, <1>7, <1>8, <1>9, <1>10 DEF Next

LEMMA Invariante == Spec => []IInv
<1> QED BY InicioSeguro, PassoInvariante, PTL DEF Spec

-----------------------------------------------------------------------------
(* What is paid out of an origin. *)

Contas == {"bruto", "parcela"}

Partes(o, c) == IF c = "bruto" THEN BrutosDe(o) ELSE ParcelasDe(o)

LEMMA ContaNatural ==
    ASSUME NEW c \in Contas, NEW r \in Pagamento
    PROVE  r[c] \in Nat
BY DEF Contas, Pagamento

(* A payout is its stage's share, or nothing at all. *)
LEMMA RepasseDaParte ==
    ASSUME IInv, NEW o \in Origens, NEW i \in Posicoes, NEW c \in Contas
    PROVE  /\ <<o, i>> \in Etapas /\ repasse[<<o, i>>] \in Pagamento
           /\ repasse[<<o, i>>][c] = 0
              \/ (repasse[<<o, i>>].estado # "nenhum" /\ repasse[<<o, i>>][c] = Partes(o, c)[i])
<1> DEFINE e == <<o, i>>
<1>1. e \in Etapas /\ e[1] = o /\ e[2] = i
  BY DEF Etapas
<1>2. Bruto(e) = Partes(o, "bruto")[i] /\ Parcela(e) = Partes(o, "parcela")[i]
  BY <1>1 DEF Bruto, Parcela, Partes
<1>3. repasse[e] \in Pagamento
  BY <1>1, Formas DEF IInv
<1> HIDE DEF e
<1>4. \/ repasse[e].bruto = 0 /\ repasse[e].parcela = 0
      \/ /\ repasse[e].estado # "nenhum"
         /\ repasse[e].bruto = Bruto(e) /\ repasse[e].parcela = Parcela(e)
  BY <1>1 DEF IInv, Calculado
<1>5. CASE c = "bruto"
  BY <1>1, <1>2, <1>3, <1>4, <1>5 DEF e
<1>6. CASE c = "parcela"
  BY <1>1, <1>2, <1>3, <1>4, <1>6 DEF e
<1> QED BY <1>5, <1>6 DEF Contas

(* The payouts of one origin add up to no more than its shares. *)
LEMMA LinhaCabe ==
    ASSUME IInv, NEW o \in Origens, NEW c \in Contas,
           DOMAIN Partes(o, c) = Posicoes, \A i \in Posicoes : Partes(o, c)[i] \in Nat
    PROVE  LET linha == [i \in Posicoes |-> repasse[<<o, i>>][c]]
           IN  /\ Dobra(linha) \in Int /\ Dobra(Partes(o, c)) \in Int
               /\ Dobra(linha) <= Dobra(Partes(o, c))
<1> DEFINE linha == [i \in Posicoes |-> repasse[<<o, i>>][c]]
           b == Partes(o, c)
<1>1. DOMAIN linha = Posicoes /\ DOMAIN b = Posicoes /\ IsFiniteSet(Posicoes)
  BY PosicoesPesadas
<1>2. \A i \in Posicoes : linha[i] \in Nat /\ b[i] \in Nat /\ linha[i] <= b[i]
  <2> TAKE i \in Posicoes
  <2>1. linha[i] \in Nat /\ (linha[i] = 0 \/ linha[i] = b[i])
    BY RepasseDaParte, ContaNatural
  <2> QED BY <2>1
<1> HIDE DEF linha, b
<1>3. Dobra(linha) \in Int /\ Dobra(b) \in Int /\ Dobra(linha) <= Dobra(b)
  BY <1>1, <1>2, FoldMonotona
<1> QED BY <1>3 DEF linha, b

LEMMA DevidoDobra ==
    ASSUME IInv, NEW A, A \subseteq Origens, IsFiniteSet(A), NEW c \in Contas,
           NEW L, DOMAIN L = A, \A a \in A : L[a] \in Int,
           \A a \in A : Dobra([i \in Posicoes |-> repasse[<<a, i>>][c]]) <= L[a]
    PROVE  Devido(A \X Posicoes, c) <= Dobra(L)
<1> DEFINE f == [e \in A \X Posicoes |-> repasse[e][c]]
<1>1. Devido(A \X Posicoes, c) = Dobra(f)
  BY DEF Devido, Dobra
<1>2. \A a \in A : [i \in Posicoes |-> f[<<a, i>>]] = [i \in Posicoes |-> repasse[<<a, i>>][c]]
  OBVIOUS
<1>3. \A x \in A \X Posicoes : f[x] \in Int
  <2> TAKE x \in A \X Posicoes
  <2>1. x[1] \in Origens /\ x[2] \in Posicoes /\ x = <<x[1], x[2]>> /\ f[x] = repasse[x][c]
    OBVIOUS
  <2>2. repasse[x][c] \in Nat
    BY <2>1, RepasseDaParte, ContaNatural
  <2> QED BY <2>1, <2>2
<1>4. DOMAIN f = A \X Posicoes
  OBVIOUS
<1>5. \A a \in A : Dobra([i \in Posicoes |-> f[<<a, i>>]]) <= L[a]
  BY <1>2
<1> HIDE DEF f
<1>6. Dobra(f) <= Dobra(L)
  BY <1>3, <1>4, <1>5, PosicoesPesadas, FoldLinhas
<1> QED BY <1>1, <1>6

(* A contract: its shares are those of the proposal. *)
LEMMA ContratoCabe ==
    ASSUME IInv, NEW p \in Producoes, NEW c \in Contas, NEW v \in Int,
           v = (IF c = "bruto" THEN ValorProposta ELSE PoolProposta)
    PROVE  Devido({p} \X Posicoes, c) <= v
<1> DEFINE L == [a \in {p} |-> v]
           z == [a \in {} |-> v]
<1>1. p \in Origens /\ {p} \subseteq Origens /\ IsFiniteSet({p})
  BY FS_Singleton DEF Origens
<1>2. Partes(p, c) = IF c = "bruto" THEN BrutosProposta ELSE ParcelasProposta
  BY DEF Partes, BrutosDe, ParcelasDe
<1>3. /\ DOMAIN Partes(p, c) = Posicoes /\ \A i \in Posicoes : Partes(p, c)[i] \in Nat
      /\ Dobra(Partes(p, c)) <= v
  BY <1>2, PartesDaProposta
<1>4. Dobra([i \in Posicoes |-> repasse[<<p, i>>][c]]) <= v
  <2> DEFINE d == Dobra([i \in Posicoes |-> repasse[<<p, i>>][c]])
  <2>2. d \in Int /\ Dobra(Partes(p, c)) \in Int /\ d <= Dobra(Partes(p, c))
    BY <1>1, <1>3, LinhaCabe
  <2> HIDE DEF d
  <2>3. d <= v
    BY <1>3, <2>2
  <2> QED BY <2>3 DEF d
<1>5. DOMAIN L = {p} /\ \A a \in {p} : L[a] \in Int
  OBVIOUS
<1>6. Dobra(L) = v
  <2>1. DOMAIN z = {} /\ DOMAIN z = DOMAIN L \ {p} /\ \A x \in DOMAIN z : z[x] = L[x]
    OBVIOUS
  <2>2. L[p] = v /\ p \in DOMAIN L /\ IsFiniteSet(DOMAIN L) /\ \A x \in DOMAIN L : L[x] \in Int
    BY <1>1
  <2> HIDE DEF z, L
  <2>3. Dobra(z) = 0
    BY <2>1, FoldVazia
  <2>4. Dobra(L) = L[p] + Dobra(z)
    BY <2>1, <2>2, FoldTira
  <2> QED BY <2>2, <2>3, <2>4
<1>7. \A a \in {p} : Dobra([i \in Posicoes |-> repasse[<<a, i>>][c]]) <= L[a]
  BY <1>4
<1> HIDE DEF L
<1>8. Devido({p} \X Posicoes, c) <= Dobra(L)
  BY <1>1, <1>5, <1>7, DevidoDobra
<1> QED BY <1>6, <1>8

(* The lot: an allocation whose units were not used is owed nothing, and what *)
(* the others are owed fits what each of them took.                           *)
LEMMA AlocacoesCabem ==
    ASSUME IInv, NEW c \in Contas, NEW k, k = (IF c = "bruto" THEN "valor" ELSE "produtor")
    PROVE  /\ Devido(Alocacoes \X Posicoes, c) \in Int /\ Alocado(k) \in Int
           /\ Devido(Alocacoes \X Posicoes, c) <= Alocado(k)
<1> DEFINE L == [a \in Alocacoes |-> IF a \in Vigentes THEN aloc[a][k] ELSE 0]
           h == [a \in Vigentes |-> aloc[a][k]]
<1>1. aloc \in [Alocacoes -> Alocacao] /\ k \in Campos
  BY Formas DEF IInv, Campos
<1>2. /\ IsFiniteSet(Alocacoes) /\ Alocacoes \subseteq Origens
      /\ Alocacoes \cap Producoes = {}
      /\ Vigentes \subseteq Alocacoes
  BY ProducaoAssumption, VigentesFinitas DEF Origens
<1>3. DOMAIN L = Alocacoes /\ \A a \in Alocacoes : L[a] \in Int
  BY <1>1, CampoNatural
<1>4. ASSUME NEW a \in Alocacoes
      PROVE  Dobra([i \in Posicoes |-> repasse[<<a, i>>][c]]) <= L[a]
  <2> DEFINE linha == [i \in Posicoes |-> repasse[<<a, i>>][c]]
  <2>0. a \in Origens /\ a \notin Producoes
    BY <1>2
  <2>1. CASE a \in Vigentes
    <3>1. aloc[a].valor \in Nat /\ aloc[a].produtor \in Nat
      BY <1>1 DEF Alocacao
    <3>2. /\ Partes(a, "bruto") = Distribuir(aloc[a].valor, Pesos)
          /\ Partes(a, "parcela") = Distribuir(aloc[a].produtor, Distribuir(aloc[a].valor, Pesos))
      BY <2>0 DEF Partes, BrutosDe, ParcelasDe
    <3>3. /\ DOMAIN Partes(a, c) = Posicoes /\ \A i \in Posicoes : Partes(a, c)[i] \in Nat
          /\ Dobra(Partes(a, c)) <= aloc[a][k]
      BY <3>1, <3>2, PartesDaAlocacao DEF Contas
    <3>4. aloc[a][k] \in Int
      BY <1>1, CampoNatural
    <3>5. /\ Dobra(linha) \in Int /\ Dobra(Partes(a, c)) \in Int
          /\ Dobra(linha) <= Dobra(Partes(a, c))
      BY <2>0, <3>3, LinhaCabe
    <3>6. L[a] = aloc[a][k]
      BY <2>1
    <3> HIDE DEF linha, L
    <3>7. Dobra(linha) <= L[a]
      BY <3>3, <3>4, <3>5, <3>6
    <3> QED BY <3>7 DEF linha
  <2>2. CASE a \notin Vigentes
    <3>1. \A i \in Posicoes : repasse[<<a, i>>][c] = 0
      <4> TAKE i \in Posicoes
      <4>1. <<a, i>> \in Etapas /\ <<a, i>>[1] = a
        BY <2>0 DEF Etapas
      <4>2. repasse[<<a, i>>].estado = "nenhum"
        BY <4>1, <2>2 DEF IInv, RegistroFiel, Vigentes
      <4> QED BY <2>0, <4>2, RepasseDaParte
    <3> DEFINE z == [i \in {} |-> 0]
    <3>2. DOMAIN linha = Posicoes /\ \A i \in Posicoes : linha[i] \in Int /\ linha[i] <= 0
      BY <3>1
    <3>3. DOMAIN z = {}
      OBVIOUS
    <3> HIDE DEF linha, z
    <3>4. Dobra(z) = 0
      BY <3>3, FoldVazia
    <3>5. Dobra(linha) <= Dobra(z)
      BY <3>2, <3>3, PosicoesPesadas, FoldRestrita
    <3>6. L[a] = 0
      BY <2>2
    <3> HIDE DEF L
    <3> QED BY <3>4, <3>5, <3>6 DEF linha
  <2> QED BY <2>1, <2>2
<1>5. Dobra(L) <= Dobra(h)
  <2>1. DOMAIN h = Vigentes /\ DOMAIN h \subseteq DOMAIN L /\ IsFiniteSet(DOMAIN L)
    BY <1>2
  <2>2. (\A x \in DOMAIN h : h[x] = L[x]) /\ \A x \in DOMAIN L \ DOMAIN h : L[x] <= 0
    BY <1>2
  <2>3. \A x \in DOMAIN L : L[x] \in Int
    BY <1>3
  <2> HIDE DEF h, L
  <2> QED BY <2>1, <2>2, <2>3, FoldRestrita
<1>6. Dobra(h) = Alocado(k)
  BY <1>1, AlocadoDobra
<1>7. Dobra(L) \in Int /\ Dobra(h) \in Int
  <2>1. Dobra(h) \in Int
    BY <1>1, <1>6, AlocadoDobra
  <2> HIDE DEF L, h
  <2>2. Dobra(L) \in Int
    BY <1>2, <1>3, FoldInteira
  <2> QED BY <2>1, <2>2
<1>8. Devido(Alocacoes \X Posicoes, c) <= Dobra(L)
  <2> HIDE DEF L
  <2> QED BY <1>2, <1>3, <1>4, DevidoDobra
<1>9. Devido(Alocacoes \X Posicoes, c) \in Int
  <2> DEFINE f == [e \in Alocacoes \X Posicoes |-> repasse[e][c]]
  <2>1. Devido(Alocacoes \X Posicoes, c) = Dobra(f)
    BY DEF Devido, Dobra
  <2>2. \A x \in Alocacoes \X Posicoes : f[x] \in Int
    <3> TAKE x \in Alocacoes \X Posicoes
    <3>1. x[1] \in Origens /\ x[2] \in Posicoes /\ x = <<x[1], x[2]>> /\ f[x] = repasse[x][c]
      BY <1>2
    <3> QED BY <3>1, RepasseDaParte, ContaNatural
  <2>3. IsFiniteSet(DOMAIN f) /\ DOMAIN f = Alocacoes \X Posicoes
    BY <1>2, PosicoesPesadas, FS_Product
  <2> HIDE DEF f
  <2> QED BY <2>1, <2>2, <2>3, FoldInteira
<1> HIDE DEF L, h
<1> QED BY <1>5, <1>6, <1>7, <1>8, <1>9

LEMMA RepassesCabem == IInv => RepasseNaoExcede
<1> SUFFICES ASSUME IInv PROVE RepasseNaoExcede
  OBVIOUS
<1>1. /\ Devido(Alocacoes \X Posicoes, "bruto") \in Int /\ Alocado("valor") \in Int
      /\ Devido(Alocacoes \X Posicoes, "bruto") <= Alocado("valor")
  BY AlocacoesCabem DEF Contas
<1>2. /\ Devido(Alocacoes \X Posicoes, "parcela") \in Int /\ Alocado("produtor") \in Int
      /\ Devido(Alocacoes \X Posicoes, "parcela") <= Alocado("produtor")
  BY AlocacoesCabem DEF Contas
<1>3. Alocado("valor") <= ValorLote /\ Alocado("produtor") <= PoolLote
  BY DEF IInv, LoteNaoExcede
<1>4. \A p \in Producoes : /\ Devido({p} \X Posicoes, "bruto") <= ValorProposta
                           /\ Devido({p} \X Posicoes, "parcela") <= PoolProposta
  <2>1. "bruto" \in Contas /\ "parcela" \in Contas
    BY DEF Contas
  <2>2. ValorProposta \in Int /\ PoolProposta \in Int
    BY PartesDaProposta, ProducaoAssumption
  <2> TAKE p \in Producoes
  <2>3. Devido({p} \X Posicoes, "bruto") <= ValorProposta
    BY <2>1, <2>2, ContratoCabe
  <2>4. Devido({p} \X Posicoes, "parcela") <= PoolProposta
    BY <2>1, <2>2, ContratoCabe
  <2> QED BY <2>3, <2>4
<1>5. /\ Devido(Alocacoes \X Posicoes, "bruto") <= ValorLote
      /\ Devido(Alocacoes \X Posicoes, "parcela") <= PoolLote
  BY <1>1, <1>2, <1>3, LoteNatural
<1> QED BY <1>4, <1>5 DEF RepasseNaoExcede

-----------------------------------------------------------------------------
(* Productions, stages, allocations and payouts keep their shape. *)
THEOREM TiposDaProducao == Spec => []TypeOK
<1>1. IInv => TypeOK
  BY DEF IInv
<1> QED BY <1>1, Invariante, PTL

(* A production is owed to its producer by one origin: a reservation is      *)
(* refused to one with a proposal or an amount agreed by hand, a proposal to *)
(* one with units, and an agreed amount to one with stages.                  *)
THEOREM UmaOrigem == Spec => []OrigemUnica
<1>1. IInv => OrigemUnica
  BY DEF IInv
<1> QED BY <1>1, Invariante, PTL

(* No stage runs ahead of the one it waits for, whichever of them moves or *)
(* is reopened, and by whom.                                               *)
THEOREM EtapasEmOrdem == Spec => []DependenciaRespeitada
<1>1. IInv => DependenciaRespeitada
  BY DEF IInv
<1> QED BY <1>1, Invariante, PTL

(* What was registered as owed stays true of its stage: nobody reopens,      *)
(* excludes or reassigns it, and its units do not go back to the lot.        *)
THEOREM RegistroSeguro == Spec => []RegistroFiel
<1>1. IInv => RegistroFiel
  BY DEF IInv
<1> QED BY <1>1, Invariante, PTL

(* Work starts only on units already used, and those never go back. *)
THEOREM TrabalhoPago == Spec => []TrabalhoFinanciado
<1>1. IInv => TrabalhoFinanciado
  BY DEF IInv
<1> QED BY <1>1, Invariante, PTL

(* The proportional reservations of a lot, rounded down each time and with  *)
(* units returned in between, never take more than it has, and the last     *)
(* units take exactly what is left.                                         *)
THEOREM LoteInteiro == Spec => []LoteNaoExcede
<1>1. IInv => LoteNaoExcede
  BY DEF IInv
<1> QED BY <1>1, Invariante, PTL

(* The payouts of a lot or of a contract, split twice by the largest          *)
(* remainder, add up to no more than its value and the producer's share of it. *)
THEOREM RepasseCoberto == Spec => []RepasseNaoExcede
<1> QED BY RepassesCabem, Invariante, PTL
=============================================================================
