-------------------------------- MODULE DmSba --------------------------------
(***************************************************************************)
(* System bus access by the debugger: the registers of dm_csrs that drive  *)
(* it and the state machine of dm_sba.  Addresses are byte numbers; the    *)
(* bus sees their word.  sbdata is left out: what is read back is stated   *)
(* of the answer when it arrives.                                          *)
(***************************************************************************)
EXTENDS Naturals

CONSTANTS BeIdxWidth,    \* log2 of the bytes in a word
          NrBytes,       \* byte addresses 0 .. NrBytes - 1, then wrap
          SbSettings,    \* sbcs settings the debugger writes
          SbAddresses    \* addresses the debugger writes

VARIABLES sba_state, sbaddr, sbcs, sberror, sbbusyerror

sbaVars == <<sba_state, sbaddr, sbcs, sberror, sbbusyerror>>

Byte == 0 .. NrBytes - 1
SbaState == {"Idle", "Read", "Write", "WaitRead", "WaitWrite"}

ASSUME SbaAssumption ==
  /\ BeIdxWidth \in Nat /\ NrBytes \in Nat \ {0}
  /\ SbAddresses \subseteq Byte
  /\ SbSettings \subseteq [sbaccess : Nat, sbautoincrement : BOOLEAN,
                          sbreadonaddr : BOOLEAN, sbreadondata : BOOLEAN]

SbaTypeOK ==
  /\ sba_state \in SbaState
  /\ sbaddr \in Byte
  /\ sbcs.sbaccess \in Nat /\ sbcs.sbautoincrement \in BOOLEAN
  /\ sbcs.sbreadonaddr \in BOOLEAN /\ sbcs.sbreadondata \in BOOLEAN
  /\ sberror \in {0, 3, 4} /\ sbbusyerror \in BOOLEAN

SbaInit ==
  /\ sba_state = "Idle" /\ sbaddr = 0
  /\ sbcs = [sbaccess |-> 2, sbautoincrement |-> FALSE,
             sbreadonaddr |-> FALSE, sbreadondata |-> FALSE]
  /\ sberror = 0 /\ sbbusyerror = FALSE

-----------------------------------------------------------------------------

sbbusy == sba_state # "Idle"
AccessError ==                          \* the later test in the code wins
  IF ~sbbusy THEN 0
  ELSE IF sbaddr % 2 ^ sbcs.sbaccess # 0 THEN 3
  ELSE IF sbcs.sbaccess > BeIdxWidth THEN 4 ELSE 0

master_req == sba_state \in {"Read", "Write"} /\ AccessError = 0
master_add == sbaddr \div 2 ^ BeIdxWidth

(* What the DMI asks for in a cycle: nothing, a write of sbcs, sbaddress0  *)
(* or sbdata0, or a read of sbdata0.                                       *)
Requests ==
  [op : {"none", "write_data", "read_data"}]
  \cup [op : {"write_addr"}, addr : SbAddresses]
  \cup [op : {"write_sbcs"}, sbcs : SbSettings, clear : BOOLEAN]

(* Refused with sbbusyerror while an access is under way.                  *)
Refused(dmi) ==
  \/ dmi.op = "write_sbcs" /\ sbbusy
  \/ dmi.op \in {"write_addr", "write_data", "read_data"} /\ (sbbusy \/ sbbusyerror)

StartRead(dmi) ==
  /\ ~Refused(dmi) /\ sberror = 0
  /\ \/ dmi.op = "write_addr" /\ sbcs.sbreadonaddr
     \/ dmi.op = "read_data" /\ sbcs.sbreadondata

StartWrite(dmi) == ~Refused(dmi) /\ sberror = 0 /\ dmi.op = "write_data"

Finished(r_valid) == sba_state \in {"WaitRead", "WaitWrite"} /\ r_valid

(* Faulty variant of SbaNext: a read goes on without its grant.            *)
SbaNextUngranted(dmi, gnt, r_valid) ==
  CASE AccessError # 0 -> "Idle"
    [] sba_state = "Idle" /\ StartRead(dmi) -> "Read"
    [] sba_state = "Idle" /\ StartWrite(dmi) -> "Write"
    [] sba_state = "Read" -> "WaitRead"
    [] sba_state = "Write" /\ gnt -> "WaitWrite"
    [] Finished(r_valid) -> "Idle"
    [] OTHER -> sba_state

SbaNext(dmi, gnt, r_valid) ==
  CASE AccessError # 0 -> "Idle"
    [] sba_state = "Idle" /\ StartRead(dmi) -> "Read"
    [] sba_state = "Idle" /\ StartWrite(dmi) -> "Write"
    [] sba_state = "Read" /\ gnt -> "WaitRead"
    [] sba_state = "Write" /\ gnt -> "WaitWrite"
    [] Finished(r_valid) -> "Idle"
    [] OTHER -> sba_state

(* Faulty variant of NextAddress: moves on as soon as the request is out.  *)
NextAddressEarly(dmi, r_valid) ==
  IF dmi.op = "write_addr" /\ ~Refused(dmi) THEN dmi.addr
  ELSE IF master_req /\ sbcs.sbautoincrement
       THEN (sbaddr + 2 ^ sbcs.sbaccess) % NrBytes
  ELSE sbaddr

(* The address written, or the next one once an access is over.            *)
NextAddress(dmi, r_valid) ==
  IF dmi.op = "write_addr" /\ ~Refused(dmi) THEN dmi.addr
  ELSE IF Finished(r_valid) /\ sbcs.sbautoincrement
       THEN (sbaddr + 2 ^ sbcs.sbaccess) % NrBytes
  ELSE sbaddr

SbaEdge(dmi, gnt, r_valid) ==
  /\ sba_state' = SbaNext(dmi, gnt, r_valid)
  /\ sbaddr' = NextAddress(dmi, r_valid)
  /\ sbcs' = IF dmi.op = "write_sbcs" /\ ~Refused(dmi) THEN dmi.sbcs ELSE sbcs
  /\ sberror' =
       IF AccessError # 0 THEN AccessError
       ELSE IF dmi.op = "write_sbcs" /\ ~Refused(dmi) /\ dmi.clear THEN 0 ELSE sberror
  /\ sbbusyerror' =
       \/ Refused(dmi)
       \/ sbbusyerror /\ ~(dmi.op = "write_sbcs" /\ dmi.clear)

=============================================================================
