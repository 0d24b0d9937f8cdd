----------------------------- MODULE MCConnShutdown -----------------------------
(***************************************************************************)
(* ConnShutdown with one stream, a writerChan of one place and the         *)
(* goroutines that may shut the connection down.                           *)
(***************************************************************************)
EXTENDS ConnShutdown

OwnerAndOne == {"owner", "another"}
JustOwner == {"owner"}
AnyError == {"noError", "fatal"}
NoError == {"noError"}
================================================================================
