--------------------------- MODULE MCGeneratorRouter ---------------------------
(* Instances of GeneratorRouter for TLC; the .cfg files give the constants. *)
EXTENDS GeneratorRouter
===============================================================================
