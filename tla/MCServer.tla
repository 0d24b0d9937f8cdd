---------------------------- MODULE MCServer ----------------------------
(***************************************************************************)
(* One or two connections, and up to three signals.                        *)
(***************************************************************************)
EXTENDS Server
===============================================================================
