----------------------------- MODULE MCGateway -----------------------------
(* One service, asked twice at a time through every route. *)
EXTENDS Gateway

CONSTANTS s1, c1, c2

MCService == {s1}
MCCall == {c1, c2}
=============================================================================
