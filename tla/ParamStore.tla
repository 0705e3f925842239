----------------------------- MODULE ParamStore ------------------------------
(* What the mirrored EEPROM promises its caller: a map from names to values   *)
(* in which a value changes only by the write that is under way, at one       *)
(* instant, if at all when the power fails, and certainly when the write      *)
(* returns.                                                                   *)
EXTENDS Naturals

CONSTANTS Names, Values, Nothing

VARIABLES
  store,   \* the value a name has, or Nothing
  request  \* the write under way, or Nothing

vars == <<store, request>>

TypeOK ==
  /\ store \in [Names -> Values \cup {Nothing}]
  /\ request \in (Names \X Values) \cup {Nothing}

Init ==
  /\ store = [n \in Names |-> Nothing]
  /\ request = Nothing

Submit(n, v) ==
  /\ request = Nothing
  /\ request' = <<n, v>>
  /\ UNCHANGED store

Installed == [store EXCEPT ![request[1]] = request[2]]

\* It returns TRUE.
Return ==
  /\ request # Nothing
  /\ store' = Installed
  /\ request' = Nothing

\* It fails, or the power does.
Fail ==
  /\ request # Nothing
  /\ store' \in {store, Installed}
  /\ request' = Nothing

Next ==
  \/ \E n \in Names, v \in Values : Submit(n, v)
  \/ Return
  \/ Fail

Spec == Init /\ [][Next]_vars
=============================================================================
