---- MODULE MCLcdDemo ----
(* The LCD demo with the sizes and times of the source. *)
EXTENDS LcdDemo
=============================================================================
