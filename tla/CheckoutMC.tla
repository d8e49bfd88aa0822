----------------------------- MODULE CheckoutMC -----------------------------
(* CheckoutClient with carts that are model values: no action tells two that *)
(* are not empty apart.                                                      *)
EXTENDS CheckoutClient, TLC

CartSymmetry == Permutations(Cart \ {Empty})
=============================================================================
