-------------------------- MODULE MCMirroredEeprom ---------------------------
EXTENDS MirroredEeprom, TLC

MCHash == "a" :> 0 @@ "b" :> 0 @@ "c" :> 1
MCSize == "v_a" :> 1 @@ "w_a" :> 3 @@ "v_b" :> 1 @@ "w_b" :> 2 @@ "v_c" :> 1
MCValuesOf == "a" :> {"v_a", "w_a"} @@ "b" :> {"v_b", "w_b"} @@ "c" :> {"v_c"}
MCOrder == <<"a", "b", "c">>
MCFactory == "a" :> "v_a" @@ "b" :> "v_b" @@ "c" :> "v_c"
=============================================================================
