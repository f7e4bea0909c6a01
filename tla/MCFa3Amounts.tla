------------------------------ MODULE MCFa3Amounts ------------------------------
(* Amounts and rates for model checking: tenths of a grosz around the halves *)
(* that go up and down, values whose VAT is a half, negative ones, a rate     *)
(* without a bucket and one that is no number.                                *)
EXTENDS Fa3Amounts

MCAmounts == {-30, -10, 4, 5, 10, 15, 26, 50, 499, 500}

MCRates == {"23", "8", "7", "0", "np"}
================================================================================
