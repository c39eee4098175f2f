---------------------------- MODULE MCCredentials ----------------------------
(***************************************************************************)
(* Two admin commands at a time, any of which may die.  Symmetry is sound: *)
(* no property of the run that uses it is a liveness property.             *)
(***************************************************************************)
EXTENDS Credentials, TLC

Symmetric == Permutations(Procs) \cup Permutations(Users) \cup Permutations(Passwords)
==============================================================================
