------------------------------ MODULE MCSignIn ------------------------------
(* SignIn on small sets, whose members are interchangeable. *)
EXTENDS SignIn, TLC

Symmetry == Permutations(Tab) \cup Permutations(Attempt) \cup
            Permutations(Code) \cup Permutations(Person)
=============================================================================
