----------------------------- MODULE MCMediaChan -----------------------------
(* A rig with two rooms and its audio in both directions, for model        *)
(* checking MediaChan.                                                     *)
EXTENDS MediaChan, TLC

Limits == [rx |-> 1, tx |-> 1]
Bases == "rx0" :> "rig0" @@ "tx0" :> "rig0"
Rig0 == "rx0" :> Room @@ "tx0" :> Room
Preferences == <<"opuT", "opus">>
Advertised == {{"opuT"}}

ClientSymmetry == Permutations(Client)
=============================================================================
