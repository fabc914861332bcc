------------------------------ MODULE MCFilters ------------------------------
(***************************************************************************)
(* Two devices, one of which may be a hub for the other, two filters to    *)
(* put on them and one request inside the driver beside the PnP manager's. *)
(***************************************************************************)
EXTENDS FilterManager
=============================================================================
