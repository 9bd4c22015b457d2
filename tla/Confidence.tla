------------------------------ MODULE Confidence ------------------------------
(***************************************************************************)
(* The confidence arithmetic of reconkg/models.py and reconkg/sources.py,  *)
(* in ten-thousandths: every result is rounded to four decimals there.     *)
(* round() goes to the nearest value; an exact tie goes up here, and to    *)
(* whichever side its binary approximation lies on in the code.            *)
(***************************************************************************)
EXTENDS Integers

One == 10000
Level == 0..One

(* round(n / d) for naturals. *)
RoundDiv(n, d) == (2 * n + d) \div (2 * d)

(* Mutant: the complement of the product is not taken. *)
NoisyOr_Sum(a, b) == a + b

(* 1 - (1 - a)(1 - b): what two independent claims are worth together. *)
NoisyOr(a, b) == RoundDiv(One * One - (One - a) * (One - b), One)

(* A principal already heard from cannot compound its own claim. *)
Folded(old, claim, heardBefore) ==
  IF heardBefore
    THEN IF old < claim THEN claim ELSE old
    ELSE NoisyOr(old, claim)

(* decay(), and the registry's clamp of a declared confidence. *)
Scaled(level, factor) == RoundDiv(level * factor, One)
=============================================================================
