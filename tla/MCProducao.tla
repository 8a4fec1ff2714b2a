------------------------------ MODULE MCProducao ------------------------------
(***************************************************************************)
(* One production of two stages, the second waiting for the first, which   *)
(* may be financed by a proposal, by units of a lot of two units and an    *)
(* odd number of cents, or by an amount agreed by hand.                    *)
(***************************************************************************)
EXTENDS Producao, TLC
CONSTANTS p1, a1, a2, d1

Simetria == Permutations({a1, a2})

DuasEtapas == <<70, 30>>
=============================================================================
