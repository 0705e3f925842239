-------------------------- MODULE MCProfileStorage ---------------------------
EXTENDS ProfileStorage, TLC

MCValuesOf == "e" :> {"e1", "e2"} @@ "f" :> {"f1", "f2"} @@ "k" :> {"k2"}
MCOrder == <<"e", "f", "k">>
MCFactory == "e" :> "e1" @@ "f" :> "f1" @@ "k" :> "k1"
MCBatches == {<<"e">>, <<"f">>, <<"k">>, <<"f", "e", "k">>}
=============================================================================
