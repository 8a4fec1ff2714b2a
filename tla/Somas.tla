-------------------------------- MODULE Somas ---------------------------------
(***************************************************************************)
(* The sum of a table of amounts: Python's sum() over the rows of a        *)
(* relation, by increasing id.                                             *)
(***************************************************************************)
EXTENDS Naturals

Soma(f, n) ==
    LET s[k \in 0..n] == IF k = 0 THEN 0 ELSE s[k - 1] + f[k]
    IN  s[n]
=============================================================================
