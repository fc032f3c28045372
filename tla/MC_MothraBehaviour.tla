------------------------- MODULE MC_MothraBehaviour -------------------------
(* Model-checking instance of MothraBehaviour: one peer with two           *)
(* connections, so a goodbye on one connection and a shutdown of the other *)
(* both happen, and two substreams per connection.                         *)
EXTENDS MothraBehaviour

CONSTANTS p1, c1, c2, r1, s1, s2

MCConnPeer == [c \in Conn |-> p1]

=============================================================================
