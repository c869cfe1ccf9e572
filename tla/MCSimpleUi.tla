----------------------------- MODULE MCSimpleUi -----------------------------
(***************************************************************************)
(* An instance of SimpleUi for TLC: three pages of the panel's six and six *)
(* columns of its 88, so that two bars and the middle of the screen are in *)
(* sight at once.                                                          *)
(***************************************************************************)
EXTENDS SimpleUi

=============================================================================
