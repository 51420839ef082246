--------------------------- MODULE MCRunLifecycle ---------------------------
(***************************************************************************)
(* The instance of RunLifecycle for TLC; its cfg gives every constant.     *)
(***************************************************************************)
EXTENDS RunLifecycle
=============================================================================
