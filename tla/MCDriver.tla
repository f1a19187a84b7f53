------------------------------ MODULE MCDriver ------------------------------
(***************************************************************************)
(* Driver with budgets on both sides of the second the server's timeout is *)
(* rounded to.                                                             *)
(***************************************************************************)
EXTENDS Driver
=============================================================================
