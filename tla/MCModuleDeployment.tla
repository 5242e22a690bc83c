------------------------- MODULE MCModuleDeployment -------------------------
(***************************************************************************)
(* Instance for TLC: one management module, two modules with a sidecar and *)
(* one registry entry that is not configured.  With ErrChCap = 1 a second  *)
(* failing sidecar meets a full channel, as the eleventh does in the code. *)
(***************************************************************************)
EXTENDS ModuleDeployment

CONSTANTS mgr, a, b, x

MCModule == {mgr, a, b, x}
MCManagement == {mgr}
MCDeployable == {mgr, a, b}
MCSidecar == {a, b}
MCRegistry == <<x, mgr, a, b>>

=============================================================================
