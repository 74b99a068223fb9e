---------------------------- MODULE MCCoreMotion ----------------------------
(* One watched controller and one axis, whose Stop may fail.               *)
EXTENDS CoreMotion

CONSTANTS c1, a1

MCController == {c1}
MCAxis == {a1}
MCUnreliable == {a1}
=============================================================================
