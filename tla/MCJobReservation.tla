-------------------------- MODULE MCJobReservation --------------------------
(* Two ids, two targets that differ in the payload, three posts. *)
EXTENDS JobReservation

CONSTANTS p1, p2, p3

MCPosts == {p1, p2, p3}
=============================================================================
