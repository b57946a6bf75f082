----------------------------- MODULE MCFileView -----------------------------
(* Instances of FileView for TLC.                                            *)
EXTENDS FileView

=============================================================================
