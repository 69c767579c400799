------------------------------- MODULE MCAsyncRL -------------------------------
(* Instances of AsyncRL for TLC; the .cfg files give the constants.        *)
EXTENDS AsyncRL
===============================================================================
