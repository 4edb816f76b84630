----------------------------- MODULE MCVuiLife ------------------------------
(* VuiLife with one failure and a restart, for TLC. *)
EXTENDS VuiLife

=============================================================================
