---------------------------- MODULE MCKeyedLocker ----------------------------
(* TLC instance of KeyedLocker.                                             *)
EXTENDS KeyedLocker
=============================================================================
