------------------------------- MODULE Option -------------------------------
(* The value that stands for an absent row, field, key or answer.          *)
CONSTANT None
=============================================================================
