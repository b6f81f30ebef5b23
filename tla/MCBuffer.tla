------------------------------ MODULE MCBuffer ------------------------------
(* Instances of Buffer for TLC: small memories and few nested windows.     *)
EXTENDS Buffer

Null == -1
=============================================================================
