---------------------------- MODULE MCCrateEvents ----------------------------
EXTENDS CrateEvents, TLC

\* one board, in the first slot, or two
MCCrates == {<<2, 0>>, <<2, 2>>}
=============================================================================
