---------------------------- MODULE MCCloudSession ----------------------------
(* Two accounts for CloudSession, of which, as they are alike, flash holds a or none. *)
EXTENDS CloudSession

CONSTANTS a, b
MCAccounts == {a, b}
MCKnown == {a}
=============================================================================
