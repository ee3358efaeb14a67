-------------------------- MODULE MCEndpointRoutes --------------------------
(* The slices and the Endpoints of a Service: one address, two ports.      *)
EXTENDS EndpointRoutes, TLC

CONSTANTS s1, x1, x2, i1, p1, p2, g1, g2

OneService == {s1}
TwoSlices  == {x1, x2}
OneIP      == {i1}
TwoPorts   == {p1, p2}
TwoReloads == {g1, g2}
=============================================================================
