------------------------------- MODULE SessionMC -------------------------------
(* An administrator and a seller in one browser.                           *)
EXTENDS Session
===============================================================================
