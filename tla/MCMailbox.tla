------------------------------ MODULE MCMailbox ------------------------------
(***************************************************************************)
(* A sweep of three inputs on an 8-value counter; two inputs differ in     *)
(* their cycles and the first comes back at the end.                       *)
(***************************************************************************)
EXTENDS Mailbox

MCInputs == <<1, 2, 1>>
MCCycles == (0 :> 1) @@ (1 :> 3) @@ (2 :> 7)
=============================================================================
