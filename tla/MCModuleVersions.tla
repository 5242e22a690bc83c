--------------------------- MODULE MCModuleVersions ---------------------------
(***************************************************************************)
(* Instance for TLC: one manager and two modules of different              *)
(* applications, the first of which the registry lacks in release 2; its   *)
(* module is the one that is intercepted.                                  *)
(***************************************************************************)
EXTENDS ModuleVersions

CONSTANTS mgr, a, b, A, B

MCBackend == {a, b}
MCManagement == {mgr}
MCApplication == {A, B}
MCHome == [m \in MCBackend |-> IF m = a THEN A ELSE B]
MCUnlisted == {<<A, 2>>}
MCTarget == {a}

=============================================================================
