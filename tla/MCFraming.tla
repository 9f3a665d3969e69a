------------------------------ MODULE MCFraming ------------------------------
(* A small stream: Starts is computed from the packet sizes. *)
EXTENDS Framing

MCSize == <<2, 1, 3>>
MCStarts == <<0, Header + 2, 2 * Header + 3, 3 * Header + 6>>
=============================================================================
