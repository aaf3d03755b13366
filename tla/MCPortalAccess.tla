----------------------------- MODULE MCPortalAccess -----------------------------
(* PortalAccess for TLC.                                                           *)
EXTENDS PortalAccess, TLC
=================================================================================
