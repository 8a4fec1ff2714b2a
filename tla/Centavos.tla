------------------------------- MODULE Centavos -------------------------------
(***************************************************************************)
(* Splitting an amount in cents: the largest-remainder rule that shares a  *)
(* line among its stages and a producer pool among them, and the share of  *)
(* a lot that a reservation of some of its units takes.                    *)
(***************************************************************************)
EXTENDS Naturals, Sequences, FiniteSets, Folds, Functions

Total(pesos) == FoldFunction(+, 0, pesos)

(* How many shares come before i when the spare cents are handed out: the  *)
(* largest remainder first, ties in order.                                 *)
Vez(total, pesos, i) ==
    LET resto(k) == (total * pesos[k]) % Total(pesos)
    IN  Cardinality({k \in DOMAIN pesos :
            resto(k) > resto(i) \/ (resto(k) = resto(i) /\ k < i)})

(* mutant: every share is rounded up *)
DistribuirParaCima(total, pesos) ==
    [i \in DOMAIN pesos |->
        IF Total(pesos) = 0 THEN 0
        ELSE (total * pesos[i] + Total(pesos) - 1) \div Total(pesos)]

Distribuir(total, pesos) ==
    LET parte(i) == (total * pesos[i]) \div Total(pesos)
        sobra == total - FoldFunction(+, 0, [i \in DOMAIN pesos |-> parte(i)])
    IN  IF Total(pesos) = 0 THEN pesos
        ELSE [i \in DOMAIN pesos |->
                 parte(i) + (IF Vez(total, pesos, i) < sobra THEN 1 ELSE 0)]

(* The producer is due 80% of an amount. *)
ParteProdutor(total) == Distribuir(total, <<8000, 2000>>)[1]

(* The cents a reservation takes: what is left, in proportion to the units *)
(* left, so that the last units carry the remaining cents.                 *)
ReservarParcela(resto, unidades, restantes) == (resto * unidades) \div restantes
=============================================================================
