------------------------------- MODULE ScreensMC -------------------------------
(* Two users, two products, three photos, and two calls of a page at a time. *)
EXTENDS Screens
===============================================================================
