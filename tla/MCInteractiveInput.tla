------------------------- MODULE MCInteractiveInput -------------------------
(* Model-checking instances of InteractiveInput: the line r asks, and the  *)
(* answer r confirms; O quits, and Tab completes O to r.                   *)
EXTENDS InteractiveInput, TLC

Reload == {<<"r">>}
Confirm == <<"r">>
Quit == {<<"O">>}
TabOtoR == <<"O">> :> <<"r">>
=============================================================================
