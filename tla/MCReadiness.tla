------------------------------ MODULE MCReadiness ------------------------------
(***************************************************************************)
(* One manager and two modules.  Kong lists up to four routes, two on a    *)
(* page: two that are waited for, one between them of a module, and a      *)
(* second definition of the first one, left by another release.            *)
(***************************************************************************)
EXTENDS Readiness

MCManagement == {"mgr-applications"}
MCBackend == {"mod-users", "mod-orders"}
MCRoute == 1 .. 4
MCExpression == [r \in MCRoute |-> <<"tenants", "users", "entitlements", "tenants">>[r]]
MCExpected == {"tenants", "entitlements"}

=============================================================================
