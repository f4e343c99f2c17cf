----------------------------- MODULE MCIoQueue -----------------------------
(* Instances of IoQueue for TLC. *)
EXTENDS IoQueue

R(a, x) == [log_addr |-> a, data |-> x]
S(a, x, p) == [req |-> R(a, x), prio |-> p]

(* an address with two different requests, one before it, and one of       *)
(* these with the lower priority                                           *)
MCSubmissions ==
  {S(1, 1, prio_normal), S(2, 1, prio_normal), S(2, 2, prio_normal), S(1, 1, prio_background)}
MCCancels == {{1}}
=============================================================================
