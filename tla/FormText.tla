------------------------------ MODULE FormText ------------------------------
(* A text box of a dialog holds "", only spaces, or a word.                *)
Spaces == " "
trim(t) == IF t = Spaces THEN "" ELSE t
=============================================================================
