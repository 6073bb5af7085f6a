------------------------------- MODULE MCKeySet -------------------------------
(***************************************************************************)
(* Small instances of KeySet.  Cooldown and Timeout are equal, as they are *)
(* in the code: one unit of the clock stands for five seconds.             *)
(***************************************************************************)
EXTENDS KeySet
=============================================================================
