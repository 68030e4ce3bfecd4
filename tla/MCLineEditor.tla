---------------------------- MODULE MCLineEditor ----------------------------
(***************************************************************************)
(* A small instance of the line editor: commands print nothing, a line     *)
(* that stays in its row or one that fills it.                             *)
(***************************************************************************)
EXTENDS LineEditor

MCOutputs == {<< >>, <<1>>, <<VGA_WIDTH>>}
=============================================================================
