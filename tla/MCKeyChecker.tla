---------------------------- MODULE MCKeyChecker ----------------------------
(* KeyChecker for TLC: keys are interchangeable.                           *)
EXTENDS KeyChecker, TLC

Symmetry == Permutations(Keys)
=============================================================================
