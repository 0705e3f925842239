--------------------------- MODULE MCShelfManager ---------------------------
(* Two slots (1 and 2), one power supply (3) and the fan board (4).  After    *)
(* the fans, the control unit and the reserve 6 W are left, and the boards   *)
(* take 4 W and 3 W: not both can run, whichever way the profile has them.   *)
EXTENDS ShelfManager, TLC

MCPower == 1 :> 4 @@ 2 :> 3 @@ 3 :> 9 @@ 4 :> 1

\* A supply too weak for the board of certain start.
MCPowerScarce == 1 :> 0 @@ 2 :> 3 @@ 3 :> 4 @@ 4 :> 1

MCConf0 == 1 :> "SmartlyStart" @@ 2 :> "IgnorantStart"

\* Everything is seated at start.
MCFullInit == Init /\ plugged = [d \in Devices |-> TRUE]

MCFullSpec == MCFullInit /\ [][Next]_vars
=============================================================================
