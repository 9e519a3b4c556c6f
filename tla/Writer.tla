------------------------------- MODULE Writer -------------------------------
(***************************************************************************)
(* What a move of Robin between its hosts promises: the right to run       *)
(* Robin's work belongs to one host or to nobody, and passes from one host *)
(* to the other only through nobody.                                       *)
(***************************************************************************)
CONSTANTS Hosts, Nobody

VARIABLE writer

Init == writer \in Hosts

Yield == writer \in Hosts /\ writer' = Nobody
Take == writer = Nobody /\ writer' \in Hosts

Next == Yield \/ Take

Spec == Init /\ [][Next]_writer
=============================================================================
