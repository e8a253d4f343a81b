---------------------------- MODULE MCEntraPool ----------------------------
(* EntraPool in ticks of 30 seconds: the floors 30, 120 and 60 are 1, 4 and 2, *)
(* the guard of 60 is 2.                                                      *)
EXTENDS EntraPool
=============================================================================
