------------------------------ MODULE MCGenerator ------------------------------
(* Small instances of Generator for TLC.                                   *)
EXTENDS Generator
===============================================================================
