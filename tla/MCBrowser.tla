------------------------------ MODULE MCBrowser ------------------------------
(* Browser on small sets.  Tabs and families are interchangeable. *)
EXTENDS Browser, TLC

Symmetry == Permutations(Tab) \cup Permutations(Family)
=============================================================================
