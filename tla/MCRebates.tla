----------------------------- MODULE MCRebates -----------------------------
(***************************************************************************)
(* Small instances of Rebates.                                             *)
(***************************************************************************)
EXTENDS Rebates, TLC

CONSTANTS d1, d2, m1, m2, p1, p2

\* The trader of d1 has a manager above; d2 is the manager's own deal.
DeepPayees == d1 :> <<m1, m2>> @@ d2 :> <<m2>>

\* One payee per deal.
FlatPayees == d1 :> <<m1>> @@ d2 :> <<m1>>
=============================================================================
