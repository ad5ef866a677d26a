----------------------------- MODULE MCProduction -----------------------------
(* Two vehicles and two war factories, the second of which does not build the  *)
(* first vehicle.                                                              *)
EXTENDS Production

CONSTANTS t1, t2, b1, b2

SomeBuild == {<<b1, t1>>, <<b1, t2>>, <<b2, t2>>}
==============================================================================
