------------------------- MODULE MCChildApplications -------------------------
(***************************************************************************)
(* Two children over one base application, one of them (search, export)    *)
(* with system containers of its own, one (erm, edge) without.             *)
(***************************************************************************)
EXTENDS ChildApplications

CONSTANTS search, erm, combined

MCChild == {search, erm}
MCAdditional == {search}
MCSize == [a \in MCChild \union {combined} |-> 1]
=============================================================================
