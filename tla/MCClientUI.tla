------------------------------ MODULE MCClientUI ----------------------------
(* The model-checked instances of ClientUI. *)
EXTENDS ClientUI

OneYell == {<<"a", "a">>}
=============================================================================
