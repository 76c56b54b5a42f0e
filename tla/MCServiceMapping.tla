-------------------------- MODULE MCServiceMapping --------------------------
(* Lists of no port, one and two: each is what is left of the next when cut. *)
EXTENDS ServiceMapping

SmallPorts == {<<>>, <<1>>, <<1, 2>>}
=============================================================================
