----------------------------- MODULE MCNpmProxy -----------------------------
(* The TLC instance of NpmProxy.                                            *)
EXTENDS NpmProxy
=============================================================================
