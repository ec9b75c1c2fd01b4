---- MODULE MCHelloWorld ----
(* HelloWorld with two-digit words of one bit each, two LEDs and two       *)
(* channels. One handler is linked after its vector and one before it, and *)
(* between them the offsets need every field of the jump.                  *)
EXTENDS HelloWorld

LinksVal == {(UartIrq :> 65534) @@ (TimerIrq :> -2050)}
InputsVal == 1 .. 2
=============================================================================
