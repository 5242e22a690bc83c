------------------------------ MODULE MCHostPorts ------------------------------
(***************************************************************************)
(* A management module, a module with a sidecar and a configured port, an  *)
(* edge module, and one that is not to be deployed.                        *)
(***************************************************************************)
EXTENDS HostPorts

MCBackend == {"mgr-users", "mod-users", "edge-orders", "edge-sip2"}
MCManagement == {"mgr-users"}
MCPaired == {"mod-users"}
MCUndeployed == {"edge-sip2"}
MCPinned == [m \in {"mod-users"} |-> 1]
MCOutside == {1, 3}

=============================================================================
