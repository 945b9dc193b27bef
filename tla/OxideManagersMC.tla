---------------------------- MODULE OxideManagersMC ----------------------------
(***************************************************************************)
(* Instances of OxideManagers for TLC.                                     *)
(***************************************************************************)
EXTENDS OxideManagers, TLC

CONSTANTS m1, n1, i1, i2

OneName == m1 :> n1

\* Ids are handed out in one order.  They are interchangeable: this is the symmetry among
\* them in a form that is sound for liveness as well.
IdsInOrder == i2 \in used => i1 \in used
==============================================================================
