----------------------- MODULE MCIllustrationWorkflow -----------------------
(***************************************************************************)
(* A small instance of IllustrationWorkflow.                               *)
(***************************************************************************)
EXTENDS IllustrationWorkflow
=============================================================================
