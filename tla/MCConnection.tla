---------------------------- MODULE MCConnection ----------------------------
(* Instances of Connection: the option messages. *)
EXTENDS Connection

\* The peer gives up the keyboard; the user switches it on and off besides.
MCDisableKeyboard == {[NoOptions EXCEPT !["disable_keyboard"] = "yes"]}
=============================================================================
