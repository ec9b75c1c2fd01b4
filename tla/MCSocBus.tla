------------------------------ MODULE MCSocBus ------------------------------
(* Five words of four bytes: RAM, an unknown offset of the timer, two words *)
(* of debug memory, and a word in no window, which aliases to the RAM.      *)
EXTENDS SocBus, TLC

MCWord == 0 .. 4
MCHits == 0 :> {0} @@ 1 :> {1} @@ 2 :> {2} @@ 3 :> {2} @@ 4 :> {}
(* The window of the simulation controller (device 3), which is left out.   *)
MCHitsSim == 0 :> {0} @@ 1 :> {1} @@ 2 :> {2} @@ 3 :> {2} @@ 4 :> {3}
MCPresent == {0, 1, 2}
MCErrWords == {1}
MCOps == {<<3>>, <<0, 1>>, <<1, 2>>, <<2, 3>>}
MCFetches == {0, 2}
MCIdle == {3}
(* Words read in a row, half words written or read in a row, and a size the *)
(* bus has not.                                                             *)
MCSettings ==
  {[sbaccess |-> 2, sbautoincrement |-> TRUE, sbreadonaddr |-> TRUE, sbreadondata |-> TRUE],
   [sbaccess |-> 1, sbautoincrement |-> TRUE, sbreadonaddr |-> FALSE, sbreadondata |-> TRUE],
   [sbaccess |-> 3, sbautoincrement |-> FALSE, sbreadonaddr |-> TRUE, sbreadondata |-> FALSE]}
MCAddresses == {0, 12}

=============================================================================
