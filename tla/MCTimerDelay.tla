---------------------------- MODULE MCTimerDelay ----------------------------
(* Words of four bits and ticks of 15 cycles, as short as the assumption   *)
(* allows: mtime carries under timer_read, and a tick can come between     *)
(* Check and Wfi. Two or three delays of one and two ticks.                *)
EXTENDS TimerDelay

MCDataWidth == 4
MCIncrement == 15
MCDelays == {1, 2}
MCMaxStall == 1
MCMaxTime == 150

=============================================================================
