------------------------------ MODULE MCMeasure ------------------------------
(* Two boards, one change of a temperature, and at any time two requests, or  *)
(* one request and a whole press of the button, or two such presses.          *)
EXTENDS Measure, TLC
=============================================================================
