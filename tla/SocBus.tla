-------------------------------- MODULE SocBus --------------------------------
(***************************************************************************)
(* The demo system around its bus: the core's data port (host 0) and the   *)
(* debug module's host port (host 1), the devices, and the instruction     *)
(* port, which shares the RAM's second port and, with the bus, the debug   *)
(* memory.  Every step is a clock edge.  What a device answers is the pair *)
(* of itself and the word it was asked for.                                *)
(***************************************************************************)
EXTENDS Bus, CoreLsu, DmSba

CONSTANTS Ram, DbgDev,    \* the two devices code can be fetched from
          Present,        \* devices instantiated in the build
          ErrWords,       \* words whose device answers with an error
          Ops,            \* memory operations of the core
          Fetches,        \* words the core fetches from
          IdleAddrs,      \* addresses the core drives when it requests nothing
          Ahead           \* operations the instructions fetched ahead may hold

CoreD == 0
DbgHost == 1

(* Everybody addresses words, and the windows that code is fetched from    *)
(* overlap with no other, as in the address map of the source.             *)
ASSUME SocAssumption ==
  /\ NrHosts = 2
  /\ {Ram, DbgDev} \subseteq Device /\ Ram # DbgDev /\ Present \subseteq Device
  /\ Ops \subseteq {<<w>> : w \in Word} \cup (Word \X Word)
  /\ Fetches \subseteq Word /\ IdleAddrs \subseteq Word /\ Ahead \in Nat
  /\ {byte \div 2 ^ BeIdxWidth : byte \in Byte} \subseteq Word
  /\ \A w \in Fetches, d \in {Ram, DbgDev} : d \in Hits[w] => Hits[w] = {d}

VARIABLES device_rvalid, device_rdata, device_err, \* what the devices drive
          undriven,              \* what the build makes of an absent device's rvalid
          fetch,                 \* word whose fetch waits for its grant
          ahead,                 \* operations the fetched instructions may still hold
          core_instr_rvalid, core_instr_sel_dbg,
          mem_instr_rdata,       \* answer of the RAM's second port
          ndmreset,              \* the debug module holds the core in reset
          got,                   \* history: answers of the operation under way
          fetched                \* history: word granted to a fetch last cycle

devVars == <<device_rvalid, device_rdata, device_err, undriven>>
fetchVars == <<fetch, ahead, core_instr_rvalid, core_instr_sel_dbg, mem_instr_rdata, fetched>>
vars == <<busVars, lsuVars, sbaVars, devVars, fetchVars, ndmreset, got>>

None == << >>
Answer == {None} \cup (Device \X Word)
Answers(w) == <<device_sel_req(w), w>>   \* what an access to w should bring

TypeOK ==
  /\ BusTypeOK /\ SbaTypeOK
  /\ op \in {None} \cup Ops /\ ls_fsm_cs \in LsuState
  /\ handle_misaligned_q \in BOOLEAN /\ lsu_err_q \in BOOLEAN
  /\ device_rvalid \in [Device -> BOOLEAN] /\ device_err \in [Device -> BOOLEAN]
  /\ device_rdata \in [Device -> Answer] /\ undriven \in BOOLEAN
  /\ fetch \in {None} \cup {<<w>> : w \in Fetches} /\ fetched \in {None} \cup {<<w>> : w \in Fetches}
  /\ ahead \in 0 .. Ahead
  /\ core_instr_rvalid \in BOOLEAN /\ core_instr_sel_dbg \in BOOLEAN
  /\ mem_instr_rdata \in Answer
  /\ ndmreset \in BOOLEAN
  /\ got \in Seq(Answer) /\ Len(got) <= 1

Init ==
  /\ BusInit /\ LsuInit /\ SbaInit
  /\ undriven \in (IF Present = Device THEN {FALSE} ELSE BOOLEAN)
  /\ device_rvalid = [d \in Device |-> d \notin Present /\ undriven]
  /\ device_rdata = [d \in Device |-> None]
  /\ device_err = [d \in Device |-> FALSE]
  /\ fetch = None /\ fetched = None /\ mem_instr_rdata = None
  /\ core_instr_rvalid = FALSE /\ core_instr_sel_dbg = FALSE /\ ahead = 0
  /\ ndmreset = FALSE /\ got = << >>

-----------------------------------------------------------------------------
(* The wires of a cycle: new is the operation ID presents, f the word a    *)
(* fetch is for, idle the address on a data port that requests nothing.    *)

BusPhase(new, idle) ==
  Phase([h \in Host |-> IF h = CoreD THEN data_req_o(new) ELSE master_req],
        [h \in Host |-> IF h = DbgHost THEN master_add
                        ELSE IF data_req_o(new) THEN data_addr_o(new) ELSE idle])

mem_instr_req(f) == f # None /\ Ram \in Hits[f[1]]
dbg_instr_req(f) == f # None /\ DbgDev \in Hits[f[1]]
(* Faulty variants of core_instr_gnt: a fetch from the debug memory at any *)
(* time, and none while the bus has its address, requested or not.         *)
instrGntAlways(phase, f) == mem_instr_req(f) \/ dbg_instr_req(f)
instrGntDecoded(phase, f) == mem_instr_req(f) \/ (dbg_instr_req(f) /\ phase.device # DbgDev)

core_instr_gnt(phase, f) ==
  mem_instr_req(f) \/ (dbg_instr_req(f) /\ ~device_req_o(phase, DbgDev))

core_instr_rdata == IF core_instr_sel_dbg THEN device_rdata[DbgDev] ELSE mem_instr_rdata

host_rvalid(h) == host_rvalid_o(device_rvalid, h)
host_err(h) == host_err_o(device_err, h)
host_rdata == host_rdata_o(device_rdata)

-----------------------------------------------------------------------------
(* Each device answers a request in the next cycle; the debug memory also  *)
(* serves a fetch, from the same output register.                          *)
DeviceEdge(phase, f) ==
  LET Asked(d) == d \in Present /\ device_req_o(phase, d)
  IN /\ device_rvalid' =
          [d \in Device |-> IF d \in Present THEN Asked(d) ELSE undriven]
     /\ device_rdata' =
          [d \in Device |->
             IF Asked(d) THEN <<d, phase.addr>>
             ELSE IF d = DbgDev /\ dbg_instr_req(f) THEN <<d, f[1]>> ELSE None]
     /\ device_err' =
          [d \in Device |-> IF Asked(d) THEN phase.addr \in ErrWords ELSE device_err[d]]
     /\ UNCHANGED undriven

FetchEdge(gnt, f, reset) ==
  /\ fetch' = IF gnt \/ reset THEN None ELSE f
  /\ core_instr_rvalid' = gnt
  /\ core_instr_sel_dbg' = dbg_instr_req(f)
  /\ mem_instr_rdata' = IF mem_instr_req(f) THEN <<Ram, f[1]>> ELSE None
  /\ fetched' = IF gnt THEN f ELSE None

(* A load or store is an instruction that was fetched.  An answered fetch  *)
(* fills the prefetch buffer and the ID stage with at most Ahead of them,  *)
(* and each operation the core starts takes one.                           *)
AheadEdge(new, reset) ==
  ahead' = IF reset THEN 0
           ELSE IF core_instr_rvalid THEN Ahead
           ELSE IF op = << >> /\ new # << >> THEN ahead - 1 ELSE ahead

(* Answers collected for an operation of the core until its response.      *)
Collect(reset) ==
  got' = IF reset \/ op = << >> \/ lsu_resp_valid_o(host_rvalid(CoreD)) THEN << >>
         ELSE IF host_rvalid(CoreD) THEN Append(got, host_rdata) ELSE got

(* A clock edge.  The core presents nothing while it is held in reset, and *)
(* the reset falls on it as soon as the debug module asserts it.           *)
ClockEdge(new, idle, f, dmi, reset) ==
  LET phase == BusPhase(new, idle)
  IN /\ BusEdge(phase)
     /\ IF reset THEN LsuReset
        ELSE LsuEdge(new, host_gnt_o(phase, CoreD), host_rvalid(CoreD), host_err(CoreD))
     /\ SbaEdge(dmi, host_gnt_o(phase, DbgHost), host_rvalid(DbgHost))
     /\ DeviceEdge(phase, f)
     /\ FetchEdge(core_instr_gnt(phase, f), f, reset)
     /\ AheadEdge(new, reset)
     /\ Collect(reset)
     /\ ndmreset' = reset

(* A pending operation or fetch stays as it is, and the core starts no     *)
(* operation it has not fetched.                                           *)
NewOps == IF op = << >> /\ ~ndmreset /\ ahead > 0 THEN {<< >>} \cup Ops ELSE {<< >>}
NewFetches ==
  IF ndmreset THEN {None}
  ELSE IF fetch = None THEN {None} \cup {<<w>> : w \in Fetches} ELSE {fetch}

Next ==
  \E new \in NewOps, idle \in IdleAddrs, f \in NewFetches, dmi \in Requests, reset \in BOOLEAN :
    ClockEdge(new, idle, f, dmi, reset)

(* The clock never stops: weak fairness of Next, in the form that is cheap *)
(* to check, since a step that changes something is always possible.       *)
Spec == Init /\ [][Next]_vars
FairSpec == Spec /\ []<><<TRUE>>_vars

-----------------------------------------------------------------------------

(* A load or store ends with the answers of its own words, in order, from  *)
(* the devices that decode them, and reports an error iff one of them did: *)
(* neither the other host's traffic nor the split of a misaligned access   *)
(* can mix them up.                                                        *)
LoadsTakeOwnAnswers ==
  op # << >> /\ lsu_resp_valid_o(host_rvalid(CoreD)) =>
    /\ Append(got, host_rdata) = [i \in 1 .. Len(op) |-> Answers(op[i])]
    /\ data_or_pmp_err(host_err(CoreD)) = \E i \in 1 .. Len(op) : op[i] \in ErrWords

(* The debugger's access takes the answer of the word it addressed.        *)
SbaTakesOwnAnswer ==
  Finished(host_rvalid(DbgHost)) => host_rdata = Answers(master_add)

(* No host is given a response it does not wait for: not the debugger's to *)
(* the core, nor, to a core fresh out of reset, that of a request it made  *)
(* before.                                                                 *)
NoStrayResponse ==
  /\ host_rvalid(CoreD) => op # << >> \/ ndmreset
  /\ host_rvalid(DbgHost) => sba_state \in {"WaitRead", "WaitWrite"}

(* A fetch is given the word it asked for, also from the debug memory that *)
(* serves the bus in other cycles.                                         *)
FetchTakesOwnWord ==
  /\ core_instr_rvalid <=> fetched # None
  /\ core_instr_rvalid => core_instr_rdata = Answers(fetched[1])

(* The debugger always gets its turn, though the core has priority: the    *)
(* core cannot request in the cycle of a response.                         *)
DebuggerServed == sbbusy ~> ~sbbusy

(* A fetch from the RAM or the debug memory is granted in the end, though  *)
(* the bus has priority on the debug memory: the core runs out of what it  *)
(* fetched ahead, and the debugger leaves the bus for a cycle after each   *)
(* request.  (The arbiter alone does not see to it: split accesses to the  *)
(* debug memory could alternate with the debugger's for ever.)             *)
Fetchable == fetch # None /\ Hits[fetch[1]] \cap {Ram, DbgDev} # {}
FetchServed == Fetchable ~> ~Fetchable

(* The comment at the head of the bus: every device responds in the cycle  *)
(* after its request.                                                      *)
NextCycleResponse ==
  /\ sba_state \in {"WaitRead", "WaitWrite"} => host_rvalid(DbgHost)
  /\ op # << >> => host_rvalid(CoreD) \/ ls_fsm_cs \in {"WAIT_GNT", "WAIT_GNT_MIS"}

=============================================================================
