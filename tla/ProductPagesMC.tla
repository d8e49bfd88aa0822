--------------------------- MODULE ProductPagesMC ---------------------------
(* ProductPages with interchangeable requests, photos, products and          *)
(* administrators: no action tells two of a kind apart.                      *)
EXTENDS ProductPages, TLC

PagesSymmetry ==
    Permutations(Request) \cup Permutations(Photo) \cup Permutations(Product) \cup Permutations(Admin)
=============================================================================
