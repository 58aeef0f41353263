--------------------------- MODULE MCRebateChain ---------------------------
(***************************************************************************)
(* Small instances of RebateChain: every hierarchy of three managers, also *)
(* those with a cycle, and every setting of their levels.                  *)
(***************************************************************************)
EXTENDS RebateChain

CONSTANTS m1, m2, m3
=============================================================================
