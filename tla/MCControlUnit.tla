---------------------------- MODULE MCControlUnit ----------------------------
EXTENDS ControlUnit, TLC
=============================================================================
