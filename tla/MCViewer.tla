------------------------------ MODULE MCViewer ------------------------------
(* Viewer on a small instance. *)
EXTENDS Viewer

CONSTANTS v1, ann, bob
=============================================================================
