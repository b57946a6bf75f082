---------------------------- MODULE MCGlobMatch -----------------------------
(* GlobMatch on every pattern and name up to a length, for TLC. *)
EXTENDS GlobMatch

=============================================================================
