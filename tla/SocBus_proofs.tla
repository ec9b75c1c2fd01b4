---------------------------- MODULE SocBus_proofs ----------------------------
(***************************************************************************)
(* Theorems about the system bus, for any words, windows, devices, core    *)
(* operations, fetches and debugger settings: everybody is given his own   *)
(* answer. One invariant carries them all: what a host is given in a cycle *)
(* was granted to it in the cycle before.                                  *)
(***************************************************************************)
EXTENDS SocBus, FiniteSetTheorems, TLAPS

\* A build in which every address is answered: the windows of the address map are those of
\* devices it has. (MCSocBusNoSim.cfg is one that is not.)
Answered == 0 \in Present /\ \A w \in Word : device_sel_req(w) \in Present

-----------------------------------------------------------------------------
(* The invariant.                                                          *)

\* The core is given the answer to part i of its operation.
Awaits(i) ==
  /\ host_rvalid(CoreD) /\ host_rdata = Answers(op[i])
  /\ host_err(CoreD) <=> op[i] \in ErrWords

\* It has had the answers to the first n parts, n < 2.
Had(n) ==
  /\ got = IF n = 1 THEN <<Answers(op[1])>> ELSE << >>
  /\ lsu_err_q <=> n = 1 /\ op[1] \in ErrWords

\* The core has priority, so it never waits for a grant.
LoadInv ==
  /\ ls_fsm_cs \in {"IDLE", "WAIT_RVALID_MIS"}
  /\ op = << >> =>
       /\ ls_fsm_cs = "IDLE" /\ got = << >>
       /\ host_rvalid(CoreD) => ndmreset
  /\ op # << >> =>
       /\ ndmreset = FALSE
       /\ ls_fsm_cs = "IDLE" => Awaits(Len(op)) /\ Had(Len(op) - 1)
       /\ ls_fsm_cs = "WAIT_RVALID_MIS" => Len(op) = 2 /\ Awaits(1) /\ Had(0)

SbaInv ==
  /\ host_rvalid(DbgHost) => sba_state \in {"WaitRead", "WaitWrite"}
  /\ sba_state \in {"WaitRead", "WaitWrite"} =>
       host_rvalid(DbgHost) /\ host_rdata = Answers(master_add)

Inv == TypeOK /\ LoadInv /\ SbaInv /\ FetchTakesOwnWord

-----------------------------------------------------------------------------
(* The decoder and the arbiter.                                            *)

\* Every set of numbers has a least one.
LEMMA Least ==
  ASSUME NEW T, T \subseteq Nat, T # {}
  PROVE  \E x \in T : \A y \in T : ~(y < x)
<1> DEFINE R == {pair \in Nat \X Nat : pair[1] < pair[2]}
<1>1. IsWellFoundedOn(R, Nat)
  BY NatLessThanWellFounded, Zenon DEF OpToRel
<1>2. \E x \in T : \A y \in T : ~(<<y, x>> \in R)
  <2> HIDE DEF R
  <2> QED BY <1>1, WFMin, Zenon
<1>3. \A x, y \in Nat : x < y => <<x, y>> \in R
  BY SMT
<1>4. PICK x \in T : \A y \in T : ~(<<y, x>> \in R)
  BY <1>2, Zenon
<1> HIDE DEF R
<1> QED BY <1>3, <1>4, Zenon

\* The decoder has a device for every word, and for a word in one window only, its device.
LEMMA Decodes ==
  ASSUME NEW w \in Word
  PROVE  /\ device_sel_req(w) \in Device
         /\ \A d \in Device : Hits[w] = {d} => device_sel_req(w) = d
<1>1. Hits[w] \subseteq Device /\ NrDevices \in Nat \ {0}
  BY BusAssumption, Zenon
<1>2. CASE Hits[w] = {}
  BY <1>1, <1>2 DEF device_sel_req, Device
<1>3. CASE Hits[w] # {}
  <2> DEFINE T == {NrDevices - d : d \in Hits[w]}
  <2>1. T \subseteq Nat /\ T # {}
    BY <1>1, <1>3 DEF Device
  <2>2. PICK x \in T : \A y \in T : ~(y < x)
    <3> HIDE DEF T
    <3> QED BY <2>1, Least, Zenon
  <2>3. PICK d \in Hits[w] : x = NrDevices - d
    BY <2>2
  <2>4. \A e \in Hits[w] : NrDevices - e \in T
    OBVIOUS
  <2> HIDE DEF T
  <2>5. \A e \in Hits[w] : e <= d
    BY <1>1, <2>2, <2>3, <2>4 DEF Device
  <2>6. device_sel_req(w) = CHOOSE g \in Hits[w] : \A e \in Hits[w] : e <= g
    BY <1>3, Zenon DEF device_sel_req
  <2>7. device_sel_req(w) \in Hits[w]
    BY <2>5, <2>6, Zenon
  <2> QED BY <1>1, <2>7, Zenon
<1> QED BY <1>2, <1>3, Zenon

LEMMA Operations ==
  ASSUME NEW o \in Ops
  PROVE  /\ o # << >> /\ Len(o) \in {1, 2} /\ o[1] \in Word
         /\ Len(o) = 2 => o[2] \in Word
         /\ Len(o) = 1 => o = <<o[1]>>
         /\ Len(o) = 2 => o = <<o[1], o[2]>>
<1>1. o \in {<<w>> : w \in Word} \cup (Word \X Word)
  BY SocAssumption, Zenon
<1>2. CASE o \in {<<w>> : w \in Word}
  BY <1>2
<1>3. CASE o \in Word \X Word
  BY <1>3
<1> QED BY <1>1, <1>2, <1>3

-----------------------------------------------------------------------------
(* The address phase. The core has priority, and the debugger has the bus  *)
(* when the core requests nothing.                                         *)

\* What the core addresses when it requests is a part of its operation.
LEMMA CoreAddress ==
  ASSUME TypeOK, LoadInv, NEW new \in NewOps, data_req_o(new)
  PROVE  /\ Current(new) \in Ops
         /\ data_addr_o(new) = Current(new)[IF ls_fsm_cs = "WAIT_RVALID_MIS" THEN 2 ELSE 1]
         /\ data_addr_o(new) \in Word
<1>1. Current(new) \in Ops
  BY DEF Current, NewOps, data_req_o, lsu_req, TypeOK, LoadInv, None
<1>2. addr_incr_req_o = (ls_fsm_cs = "WAIT_RVALID_MIS")
  BY DEF addr_incr_req_o, LoadInv
<1>3. addr_incr_req_o => Len(Current(new)) = 2
  BY <1>2 DEF LoadInv, Current
<1> QED BY <1>1, <1>2, <1>3, Operations DEF data_addr_o

LEMMA DebuggerAddress ==
  ASSUME TypeOK
  PROVE  master_add \in Word
<1>1. sbaddr \in Byte
  BY DEF TypeOK, SbaTypeOK
<1>2. sbaddr \div 2 ^ BeIdxWidth \in {byte \div 2 ^ BeIdxWidth : byte \in Byte}
  BY <1>1, Zenon
<1> QED BY <1>2, SocAssumption, Zenon DEF master_add

LEMMA Arbitration ==
  ASSUME TypeOK, LoadInv, NEW new \in NewOps, NEW idle \in IdleAddrs
  PROVE  LET phase == BusPhase(new, idle)
         IN  /\ phase.host \in Host /\ phase.addr \in Word /\ phase.req \in BOOLEAN
             /\ phase.device = device_sel_req(phase.addr)
             /\ host_gnt_o(phase, CoreD) = data_req_o(new)
             /\ host_gnt_o(phase, DbgHost) = (master_req /\ ~data_req_o(new))
             /\ data_req_o(new) => phase.addr = data_addr_o(new)
             /\ master_req /\ ~data_req_o(new) => phase.addr = master_add
<1> DEFINE phase == BusPhase(new, idle)
           req == [h \in Host |-> IF h = CoreD THEN data_req_o(new) ELSE master_req]
           addr == [h \in Host |-> IF h = DbgHost THEN master_add
                                  ELSE IF data_req_o(new) THEN data_addr_o(new) ELSE idle]
           host == host_sel_req(req)
<1>1. Host = {0, 1}
  BY SocAssumption DEF Host
<1>2. data_req_o(new) \in BOOLEAN /\ master_req \in BOOLEAN
  BY DEF data_req_o, lsu_req, master_req
<1>3. req[0] = data_req_o(new) /\ req[1] = master_req
  BY <1>1 DEF CoreD
<1>4. addr[0] = (IF data_req_o(new) THEN data_addr_o(new) ELSE idle) /\ addr[1] = master_add
  BY <1>1 DEF DbgHost
<1>5. phase = [host |-> host, addr |-> addr[host], req |-> req[host], device |-> device_sel_req(addr[host])]
  BY Zenon DEF BusPhase, Phase
<1>6. host = IF ~data_req_o(new) /\ master_req THEN 1 ELSE 0
  <2> HIDE DEF req
  <2> QED BY <1>1, <1>2, <1>3 DEF host_sel_req
<1>7. idle \in Word
  BY SocAssumption, Zenon
<1> HIDE DEF req, addr, host
<1> QED BY <1>1, <1>2, <1>3, <1>4, <1>5, <1>6, <1>7, CoreAddress, DebuggerAddress DEF host_gnt_o, CoreD, DbgHost

\* What was granted in this cycle is what is answered in the next.
LEMMA Routing ==
  ASSUME Answered, TypeOK, LoadInv, NEW new \in NewOps, NEW idle \in IdleAddrs, NEW f,
         BusEdge(BusPhase(new, idle)), DeviceEdge(BusPhase(new, idle), f)
  PROVE  LET phase == BusPhase(new, idle)
         IN  /\ \A h \in Host : host_rvalid(h)' = host_gnt_o(phase, h)
             /\ phase.req => host_rdata' = Answers(phase.addr)
             /\ \A h \in Host : host_gnt_o(phase, h) => (host_err(h)' <=> phase.addr \in ErrWords)
<1> DEFINE phase == BusPhase(new, idle)
           d == phase.device
<1>1. phase.addr \in Word /\ phase.req \in BOOLEAN /\ d = device_sel_req(phase.addr)
  BY Arbitration
<1>2. d \in Present /\ d \in Device
  BY <1>1, Decodes DEF Answered
<1>3. host_sel_resp' = phase.host /\ device_sel_resp' = d
  BY DEF BusEdge
<1>4. device_req_o(phase, d) = phase.req
  BY <1>1 DEF device_req_o
<1>5. device_rvalid'[d] <=> phase.req
  BY <1>1, <1>2, <1>4, Zenon DEF DeviceEdge
<1>6. phase.req => device_rdata'[d] = <<d, phase.addr>> /\ (device_err'[d] <=> phase.addr \in ErrWords)
  BY <1>2, <1>4 DEF DeviceEdge
<1> HIDE DEF phase, d
<1>7. ASSUME NEW h \in Host PROVE host_rvalid(h)' = host_gnt_o(phase, h)
  BY <1>1, <1>3, <1>5 DEF host_rvalid, host_rvalid_o, host_gnt_o
<1>8. ASSUME NEW h \in Host, host_gnt_o(phase, h) PROVE host_err(h)' <=> phase.addr \in ErrWords
  BY <1>8, <1>3, <1>6, Zenon DEF host_err, host_err_o, host_gnt_o
<1>9. phase.req => host_rdata' = Answers(phase.addr)
  BY <1>1, <1>3, <1>6 DEF host_rdata, host_rdata_o, Answers
<1> QED BY <1>7, <1>8, <1>9 DEF phase

-----------------------------------------------------------------------------
(* A clock edge keeps the invariant.                                       *)

LEMMA SbaStep ==
  ASSUME Answered, Inv,
         NEW new \in NewOps, NEW idle \in IdleAddrs, NEW f, NEW dmi \in Requests, NEW reset \in BOOLEAN,
         ClockEdge(new, idle, f, dmi, reset)
  PROVE  SbaInv'
<1> DEFINE phase == BusPhase(new, idle)
           gnt == host_gnt_o(phase, DbgHost)
<1>1. DbgHost \in Host
  BY SocAssumption DEF Host, DbgHost
<1>2. /\ host_rvalid(DbgHost)' = gnt
      /\ gnt => master_req /\ host_rdata' = Answers(master_add)
  <2>1. BusEdge(phase) /\ DeviceEdge(phase, f)
    BY Zenon DEF ClockEdge
  <2>2. gnt => phase.req
    BY DEF host_gnt_o
  <2> QED BY <1>1, <2>1, <2>2, Routing, Arbitration DEF Inv
<1>3. SbaEdge(dmi, gnt, host_rvalid(DbgHost))
  BY Zenon DEF ClockEdge
<1> HIDE DEF gnt
<1>4. gnt => sba_state' \in {"WaitRead", "WaitWrite"} /\ sbaddr' = sbaddr
  BY <1>2, <1>3 DEF SbaEdge, SbaNext, NextAddress, master_req, sbbusy, Refused, Finished
<1>5. sba_state' \in {"WaitRead", "WaitWrite"} => gnt
  BY <1>3 DEF SbaEdge, SbaNext, Finished, Inv, SbaInv
<1> QED BY <1>2, <1>4, <1>5 DEF SbaInv, master_add

LEMMA FetchStep ==
  ASSUME Answered, Inv,
         NEW new \in NewOps, NEW idle \in IdleAddrs, NEW f \in NewFetches, NEW dmi, NEW reset,
         ClockEdge(new, idle, f, dmi, reset)
  PROVE  FetchTakesOwnWord'
<1> DEFINE phase == BusPhase(new, idle)
           gnt == core_instr_gnt(phase, f)
<1>1. CASE ~gnt
  BY <1>1 DEF ClockEdge, FetchEdge, FetchTakesOwnWord
<1>2. CASE gnt
  <2>1. PICK w \in Fetches : f = <<w>>
    BY <1>2 DEF core_instr_gnt, mem_instr_req, dbg_instr_req, NewFetches, Inv, TypeOK, None
  <2>2. core_instr_rvalid' = gnt /\ core_instr_sel_dbg' = dbg_instr_req(f) /\ fetched' = f
        /\ mem_instr_rdata' = IF mem_instr_req(f) THEN <<Ram, f[1]>> ELSE None
    BY <1>2 DEF ClockEdge, FetchEdge
  <2>3. w \in Word /\ f # None /\ f[1] = w
    BY <2>1, SocAssumption DEF None
  <2>4. CASE DbgDev \in Hits[w]
    <3>1. dbg_instr_req(f) /\ ~mem_instr_req(f) /\ device_sel_req(w) = DbgDev
      BY <2>1, <2>3, <2>4, SocAssumption, Decodes DEF dbg_instr_req, mem_instr_req
    <3>2. ~device_req_o(phase, DbgDev)
      BY <1>2, <3>1 DEF core_instr_gnt
    <3>3. device_rdata'[DbgDev] = <<DbgDev, w>>
      BY <2>3, <3>1, <3>2, SocAssumption DEF ClockEdge, DeviceEdge
    <3> QED BY <1>2, <2>2, <2>3, <3>1, <3>3 DEF FetchTakesOwnWord, core_instr_rdata, Answers
  <2>5. CASE DbgDev \notin Hits[w]
    <3>1. ~dbg_instr_req(f) /\ mem_instr_req(f)
      BY <1>2, <2>3, <2>5 DEF core_instr_gnt, dbg_instr_req
    <3>2. device_sel_req(w) = Ram
      BY <2>1, <2>3, <3>1, SocAssumption, Decodes DEF mem_instr_req
    <3> QED BY <1>2, <2>2, <2>3, <3>1, <3>2 DEF FetchTakesOwnWord, core_instr_rdata, Answers
  <2> QED BY <2>4, <2>5
<1> QED BY <1>1, <1>2

LEMMA LoadStep ==
  ASSUME Answered, Inv,
         NEW new \in NewOps, NEW idle \in IdleAddrs, NEW f, NEW dmi, NEW reset \in BOOLEAN,
         ClockEdge(new, idle, f, dmi, reset)
  PROVE  LoadInv'
<1> DEFINE phase == BusPhase(new, idle)
           o == Current(new)
<1>1. CoreD \in Host
  BY SocAssumption DEF Host, CoreD
<1>2. /\ host_gnt_o(phase, CoreD) = data_req_o(new) /\ host_rvalid(CoreD)' = data_req_o(new)
      /\ data_req_o(new) => host_rdata' = Answers(data_addr_o(new))
      /\ data_req_o(new) => (host_err(CoreD)' <=> data_addr_o(new) \in ErrWords)
  <2>1. BusEdge(phase) /\ DeviceEdge(phase, f)
    BY Zenon DEF ClockEdge
  <2>2. host_gnt_o(phase, CoreD) => phase.req
    BY DEF host_gnt_o
  <2> QED BY <1>1, <2>1, <2>2, Routing, Arbitration DEF Inv
<1>3. IF reset THEN LsuReset
      ELSE LsuEdge(new, data_req_o(new), host_rvalid(CoreD), host_err(CoreD))
  BY <1>2 DEF ClockEdge
<1>4. got' = (IF reset \/ op = << >> \/ lsu_resp_valid_o(host_rvalid(CoreD)) THEN << >>
              ELSE IF host_rvalid(CoreD) THEN Append(got, host_rdata) ELSE got)
      /\ ndmreset' = reset
  BY Zenon DEF ClockEdge, Collect
<1> HIDE DEF phase, o
<1>5. CASE reset
  BY <1>3, <1>4, <1>5 DEF LsuReset, LoadInv
<1>6. CASE ~reset /\ op = << >> /\ new = << >>
  BY <1>2, <1>3, <1>4, <1>6 DEF LsuEdge, lsu_req, Current, ls_fsm_ns, data_req_o, Inv, LoadInv
<1>7. CASE ~reset /\ op = << >> /\ new # << >>
  <2>1. data_req_o(new) /\ lsu_req(new) /\ Current(new) = new /\ ls_fsm_cs = "IDLE" /\ new \in Ops
    BY <1>7 DEF data_req_o, lsu_req, Current, Inv, LoadInv, NewOps
  <2>2. data_addr_o(new) = new[1] /\ Len(new) \in {1, 2}
    BY <2>1, CoreAddress, Operations DEF Inv
  <2>3. /\ op' = new /\ lsu_err_q' = FALSE /\ got' = << >> /\ ndmreset' = FALSE
        /\ ls_fsm_cs' = IF Len(new) = 2 THEN "WAIT_RVALID_MIS" ELSE "IDLE"
    BY <1>3, <1>4, <1>7, <2>1 DEF LsuEdge, ls_fsm_ns, split_misaligned_access
  <2>4. Awaits(1)'
    BY <1>2, <2>1, <2>2, <2>3, Zenon DEF Awaits
  <2>5. Had(0)'
    BY <2>3 DEF Had
  <2>6. Len(new) = 1 => Awaits(Len(op))' /\ Had(Len(op) - 1)'
    BY <2>3, <2>4, <2>5
  <2>7. op' # << >>
    BY <1>7, <2>3
  <2> QED BY <2>2, <2>3, <2>4, <2>5, <2>6, <2>7 DEF LoadInv
<1>8. CASE ~reset /\ op # << >> /\ ls_fsm_cs = "IDLE"
  BY <1>2, <1>3, <1>4, <1>8 DEF LsuEdge, lsu_req, lsu_resp_valid_o, ls_fsm_ns, data_req_o, Inv, LoadInv, Awaits
<1>9. CASE ~reset /\ op # << >> /\ ls_fsm_cs = "WAIT_RVALID_MIS"
  <2>1. /\ data_req_o(new) /\ ~lsu_req(new) /\ Current(new) = op /\ Len(op) = 2
        /\ Awaits(1) /\ Had(0) /\ ~lsu_resp_valid_o(host_rvalid(CoreD))
    BY <1>9 DEF data_req_o, lsu_req, Current, Inv, LoadInv, lsu_resp_valid_o
  <2>2. data_addr_o(new) = op[2]
    BY <1>9, <2>1, CoreAddress DEF Inv
  <2>3. /\ op' = op /\ ls_fsm_cs' = "IDLE" /\ lsu_err_q' = host_err(CoreD)
        /\ got' = Append(got, host_rdata) /\ ndmreset' = FALSE
    BY <1>3, <1>4, <1>9, <2>1 DEF LsuEdge, ls_fsm_ns, AfterFirstPart, Awaits
  <2>4. Awaits(2)'
    BY <1>2, <2>1, <2>2, <2>3 DEF Awaits
  <2>5. Had(1)'
    <3>1. got' = <<Answers(op'[1])>>
      BY <2>1, <2>3 DEF Awaits, Had
    <3>2. lsu_err_q' <=> op'[1] \in ErrWords
      BY <2>1, <2>3, Zenon DEF Awaits
    <3> QED BY <3>1, <3>2 DEF Had
  <2>6. Awaits(Len(op))' /\ Had(Len(op) - 1)'
    <3>1. Len(op)' = 2 /\ (Len(op) - 1)' = 1
      BY <2>1, <2>3
    <3> QED BY <2>4, <2>5, <3>1, Zenon DEF Awaits, Had
  <2>7. op' # << >>
    BY <1>9, <2>3
  <2> QED BY <2>3, <2>6, <2>7 DEF LoadInv
<1> QED BY <1>5, <1>6, <1>7, <1>8, <1>9 DEF Inv, LoadInv

\* 2 ^ n, which is the number of subsets of n elements, is a number.
LEMMA PowerOfTwo ==
  ASSUME NEW n \in Nat
  PROVE  2 ^ n \in Nat
<1>1. IsFiniteSet(1 .. n) /\ Cardinality(1 .. n) = n
  BY FS_Interval
<1>2. IsFiniteSet(SUBSET (1 .. n)) /\ Cardinality(SUBSET (1 .. n)) = 2 ^ n
  BY <1>1, FS_SUBSET, Zenon
<1> QED BY <1>2, FS_CardinalityType, Zenon

LEMMA SbaTypeStep ==
  ASSUME SbaTypeOK, NEW dmi \in Requests, NEW gnt, NEW r_valid, SbaEdge(dmi, gnt, r_valid)
  PROVE  SbaTypeOK'
<1> DEFINE Settings == [sbaccess : Nat, sbautoincrement : BOOLEAN, sbreadonaddr : BOOLEAN, sbreadondata : BOOLEAN]
<1>1. sba_state' \in SbaState
  BY DEF SbaTypeOK, SbaEdge, SbaNext, SbaState
<1>2. sbaddr' \in Byte
  <2>1. dmi.op = "write_addr" => dmi.addr \in Byte
    BY SbaAssumption DEF Requests
  <2>2. 2 ^ sbcs.sbaccess \in Nat
    BY PowerOfTwo, Zenon DEF SbaTypeOK
  <2>3. (sbaddr + 2 ^ sbcs.sbaccess) % NrBytes \in Byte
    BY <2>2, SbaAssumption DEF SbaTypeOK, Byte
  <2> QED BY <2>1, <2>3, Zenon DEF SbaTypeOK, SbaEdge, NextAddress
<1>3. dmi.op = "write_sbcs" => dmi.sbcs \in Settings
  BY SbaAssumption DEF Requests
<1>4. /\ sbcs'.sbaccess \in Nat /\ sbcs'.sbautoincrement \in BOOLEAN
      /\ sbcs'.sbreadonaddr \in BOOLEAN /\ sbcs'.sbreadondata \in BOOLEAN
  BY <1>3 DEF SbaTypeOK, SbaEdge
<1>5. sberror' \in {0, 3, 4} /\ sbbusyerror' \in BOOLEAN
  BY DEF SbaTypeOK, SbaEdge, AccessError
<1> QED BY <1>1, <1>2, <1>4, <1>5 DEF SbaTypeOK

LEMMA LsuTypeStep ==
  ASSUME Inv, NEW new \in NewOps, NEW gnt \in BOOLEAN, NEW r \in BOOLEAN, NEW err \in BOOLEAN,
         LsuReset \/ LsuEdge(new, gnt, r, err)
  PROVE  /\ op' \in {None} \cup Ops /\ ls_fsm_cs' \in LsuState
         /\ handle_misaligned_q' \in BOOLEAN /\ lsu_err_q' \in BOOLEAN
<1>1. CASE LsuReset
  BY <1>1 DEF LsuReset, LsuState, None
<1>2. CASE LsuEdge(new, gnt, r, err)
  <2>1. Current(new) \in {None} \cup Ops
    BY DEF Current, NewOps, Inv, TypeOK, None
  <2>2. op' \in {None} \cup Ops
    BY <1>2, <2>1 DEF LsuEdge, None
  <2>3. ls_fsm_cs' \in LsuState
    BY <1>2 DEF LsuEdge, ls_fsm_ns, AfterFirstPart, LsuState, lsu_req, Inv, LoadInv
  <2>4. split_misaligned_access(new) \in BOOLEAN
    BY DEF split_misaligned_access
  <2>5. handle_misaligned_q' \in BOOLEAN
    BY <1>2, <2>4 DEF LsuEdge, Inv, TypeOK
  <2>6. lsu_err_q' \in BOOLEAN
    BY <1>2 DEF LsuEdge, Inv, TypeOK
  <2> QED BY <2>2, <2>3, <2>5, <2>6
<1> QED BY <1>1, <1>2

LEMMA DeviceTypeStep ==
  ASSUME Inv, NEW new \in NewOps, NEW idle \in IdleAddrs, NEW f \in NewFetches,
         DeviceEdge(BusPhase(new, idle), f)
  PROVE  /\ device_rvalid' \in [Device -> BOOLEAN] /\ device_err' \in [Device -> BOOLEAN]
         /\ device_rdata' \in [Device -> Answer] /\ undriven' \in BOOLEAN
<1> DEFINE phase == BusPhase(new, idle)
           Asked(d) == d \in Present /\ device_req_o(phase, d)
<1>1. phase.addr \in Word /\ phase.req \in BOOLEAN
  BY Arbitration DEF Inv
<1>2. \A d \in Device : Asked(d) \in BOOLEAN
  BY <1>1 DEF device_req_o
<1>3. f = None \/ f[1] \in Word
  BY SocAssumption DEF NewFetches, Inv, TypeOK, None
<1>4. device_rvalid' \in [Device -> BOOLEAN]
  BY <1>2 DEF DeviceEdge, Inv, TypeOK
<1>5. device_err' \in [Device -> BOOLEAN]
  <2>1. \A d \in Device : device_err[d] \in BOOLEAN /\ (phase.addr \in ErrWords) \in BOOLEAN
    BY DEF Inv, TypeOK
  <2> QED BY <2>1, Zenon DEF DeviceEdge
<1>6. \A d \in Device : (IF Asked(d) THEN <<d, phase.addr>>
                          ELSE IF d = DbgDev /\ dbg_instr_req(f) THEN <<d, f[1]>> ELSE None) \in Answer
  <2> HIDE DEF phase, Asked
  <2> QED BY <1>1, <1>3 DEF Answer, dbg_instr_req, None
<1>7. device_rdata' \in [Device -> Answer]
  BY <1>6, Zenon DEF DeviceEdge
<1> QED BY <1>4, <1>5, <1>7 DEF DeviceEdge, Inv, TypeOK

LEMMA FetchTypeStep ==
  ASSUME Inv, NEW phase, NEW f \in NewFetches, NEW reset \in BOOLEAN,
         FetchEdge(core_instr_gnt(phase, f), f, reset)
  PROVE  /\ fetch' \in {None} \cup {<<w>> : w \in Fetches}
         /\ fetched' \in {None} \cup {<<w>> : w \in Fetches}
         /\ core_instr_rvalid' \in BOOLEAN /\ core_instr_sel_dbg' \in BOOLEAN
         /\ mem_instr_rdata' \in Answer
<1>1. f \in {None} \cup {<<w>> : w \in Fetches}
  BY DEF NewFetches, Inv, TypeOK
<1>2. mem_instr_req(f) => <<Ram, f[1]>> \in Answer
  BY <1>1, SocAssumption DEF mem_instr_req, Answer, None
<1>3. core_instr_gnt(phase, f) \in BOOLEAN /\ dbg_instr_req(f) \in BOOLEAN
  BY DEF core_instr_gnt, dbg_instr_req, mem_instr_req
<1> QED BY <1>1, <1>2, <1>3 DEF FetchEdge, Answer

\* No operation starts that takes the count below zero.
LEMMA AheadTypeStep ==
  ASSUME TypeOK, NEW new \in NewOps, NEW reset, AheadEdge(new, reset)
  PROVE  ahead' \in 0 .. Ahead
<1>1. Ahead \in Nat /\ ahead \in 0 .. Ahead
  BY SocAssumption DEF TypeOK
<1>2. op = << >> /\ new # << >> => ahead > 0
  BY DEF NewOps
<1>3. ahead' \in {0, Ahead, ahead} \/ (ahead > 0 /\ ahead' = ahead - 1)
  BY <1>2, Zenon DEF AheadEdge
<1> QED BY <1>1, <1>3

LEMMA TypeStep ==
  ASSUME Answered, Inv,
         NEW new \in NewOps, NEW idle \in IdleAddrs, NEW f \in NewFetches, NEW dmi \in Requests, NEW reset \in BOOLEAN,
         ClockEdge(new, idle, f, dmi, reset)
  PROVE  TypeOK'
<1> DEFINE phase == BusPhase(new, idle)
<1>1. BusTypeOK'
  <2>1. phase.host \in Host /\ phase.addr \in Word /\ phase.device = device_sel_req(phase.addr)
    BY Arbitration DEF Inv
  <2> QED BY <2>1, Decodes DEF ClockEdge, BusEdge, BusTypeOK
<1>2. SbaTypeOK'
  BY SbaTypeStep DEF ClockEdge, Inv, TypeOK
<1>3. /\ op' \in {None} \cup Ops /\ ls_fsm_cs' \in LsuState
      /\ handle_misaligned_q' \in BOOLEAN /\ lsu_err_q' \in BOOLEAN
  <2>1. host_gnt_o(phase, CoreD) \in BOOLEAN /\ host_rvalid(CoreD) \in BOOLEAN /\ host_err(CoreD) \in BOOLEAN
    BY DEF host_gnt_o, host_rvalid, host_rvalid_o, host_err, host_err_o
  <2>2. LsuReset \/ LsuEdge(new, host_gnt_o(phase, CoreD), host_rvalid(CoreD), host_err(CoreD))
    BY Zenon DEF ClockEdge
  <2> QED BY <2>1, <2>2, LsuTypeStep
<1>4. /\ device_rvalid' \in [Device -> BOOLEAN] /\ device_err' \in [Device -> BOOLEAN]
      /\ device_rdata' \in [Device -> Answer] /\ undriven' \in BOOLEAN
  BY DeviceTypeStep, Zenon DEF ClockEdge
<1>5. /\ fetch' \in {None} \cup {<<w>> : w \in Fetches}
      /\ fetched' \in {None} \cup {<<w>> : w \in Fetches}
      /\ core_instr_rvalid' \in BOOLEAN /\ core_instr_sel_dbg' \in BOOLEAN
      /\ mem_instr_rdata' \in Answer
  BY FetchTypeStep, Zenon DEF ClockEdge
<1>6. ndmreset' \in BOOLEAN
  BY DEF ClockEdge
<1>7. got' \in Seq(Answer) /\ Len(got)' <= 1
  <2>1. LoadInv'
    BY LoadStep
  <2>2. got' = << >> \/ (op' # << >> /\ got' = <<Answers(op'[1])>>)
    BY <2>1 DEF LoadInv, Had
  <2>3. op' # << >> => Answers(op'[1]) \in Answer
    BY <1>3, Operations, Decodes DEF Answers, Answer, None
  <2>4. CASE got' = << >>
    BY <2>4
  <2>5. CASE op' # << >> /\ got' = <<Answers(op'[1])>>
    <3> DEFINE answer == Answers(op'[1])
    <3>1. answer \in Answer /\ got' = <<answer>>
      BY <2>3, <2>5
    <3> HIDE DEF answer
    <3> QED BY <3>1
  <2> QED BY <2>2, <2>4, <2>5
<1>8. ahead' \in 0 .. Ahead
  BY AheadTypeStep, Zenon DEF ClockEdge, Inv
<1> QED BY <1>1, <1>2, <1>3, <1>4, <1>5, <1>6, <1>7, <1>8 DEF TypeOK

LEMMA InvInit == Answered /\ Init => Inv
<1> SUFFICES ASSUME Answered, Init PROVE Inv
  OBVIOUS
<1>1. 0 \in Host /\ 0 \in Device /\ 0 \in Byte
  BY BusAssumption, SbaAssumption DEF Host, Device, Byte
<1>2. TypeOK
  <2>1. BusTypeOK
    BY <1>1 DEF Init, BusInit, BusTypeOK
  <2>2. SbaTypeOK
    BY <1>1 DEF Init, SbaInit, SbaTypeOK, SbaState
  <2>3. undriven \in BOOLEAN
    BY DEF Init
  <2>4. /\ device_rvalid \in [Device -> BOOLEAN] /\ device_err \in [Device -> BOOLEAN]
        /\ device_rdata \in [Device -> Answer]
    BY <2>3 DEF Init, Answer
  <2>5. got \in Seq(Answer) /\ Len(got) <= 1
    BY DEF Init
  <2>6. ahead \in 0 .. Ahead
    BY SocAssumption DEF Init
  <2> QED BY <2>1, <2>2, <2>3, <2>4, <2>5, <2>6 DEF Init, LsuInit, TypeOK, LsuState, Answer, None
<1>3. ~host_rvalid(CoreD) /\ ~host_rvalid(DbgHost)
  BY <1>1 DEF Answered, Init, BusInit, host_rvalid, host_rvalid_o
<1> QED BY <1>2, <1>3 DEF Inv, LoadInv, SbaInv, FetchTakesOwnWord, Init, LsuInit, SbaInit, None

LEMMA InvStep == Answered /\ Inv /\ [Next]_vars => Inv'
<1> SUFFICES ASSUME Answered, Inv, [Next]_vars PROVE Inv'
  OBVIOUS
<1>1. CASE Next
  <2>1. PICK new \in NewOps, idle \in IdleAddrs, f \in NewFetches, dmi \in Requests, reset \in BOOLEAN :
           ClockEdge(new, idle, f, dmi, reset)
    BY <1>1, Zenon DEF Next
  <2> QED BY <2>1, TypeStep, LoadStep, SbaStep, FetchStep DEF Inv
<1>2. CASE UNCHANGED vars
  BY <1>2 DEF vars, busVars, lsuVars, sbaVars, devVars, fetchVars, Inv, TypeOK, BusTypeOK, SbaTypeOK, LoadInv,
              SbaInv, FetchTakesOwnWord, Awaits, Had, host_rvalid, host_rvalid_o, host_err, host_err_o, host_rdata,
              host_rdata_o, master_add, core_instr_rdata
<1> QED BY <1>1, <1>2

LEMMA InvHolds ==
  ASSUME Answered
  PROVE  Spec => []Inv
  BY Answered, InvInit, InvStep, PTL DEF Spec

-----------------------------------------------------------------------------
(* What the invariant gives.                                               *)

\* The registers of the bus, the two hosts and the devices hold what they are declared to hold.
THEOREM TypeCorrect ==
  ASSUME Answered
  PROVE  Spec => []TypeOK
<1>1. Inv => TypeOK
  BY DEF Inv
<1> QED BY Answered, <1>1, InvHolds, PTL

\* A load or store of one or two words ends with the answers of its own words, in order, and with an
\* error exactly when one of them had one, whatever the debugger and the fetches do meanwhile.
THEOREM LoadsCorrect ==
  ASSUME Answered
  PROVE  Spec => []LoadsTakeOwnAnswers
<1>1. Inv => LoadsTakeOwnAnswers
  <2> SUFFICES ASSUME Inv, op # << >>, lsu_resp_valid_o(host_rvalid(CoreD))
               PROVE  /\ Append(got, host_rdata) = [i \in 1 .. Len(op) |-> Answers(op[i])]
                      /\ data_or_pmp_err(host_err(CoreD)) = \E i \in 1 .. Len(op) : op[i] \in ErrWords
    BY DEF LoadsTakeOwnAnswers
  <2>1. op \in Ops /\ ls_fsm_cs = "IDLE" /\ Awaits(Len(op)) /\ Had(Len(op) - 1)
    BY DEF Inv, TypeOK, LoadInv, None, lsu_resp_valid_o
  <2>2. Len(op) \in {1, 2}
    BY <2>1, Operations
  <2> DEFINE Own(i) == Answers(op[i])
             Err(i) == op[i] \in ErrWords
             last == host_rdata
             failed == host_err(CoreD)
  <2>3. failed \in BOOLEAN /\ lsu_err_q \in BOOLEAN
    BY DEF Inv, TypeOK, host_err, host_err_o
  <2>4. last = Own(Len(op)) /\ (failed <=> Err(Len(op)))
    BY <2>1 DEF Awaits
  <2>5. got = (IF Len(op) = 2 THEN <<Own(1)>> ELSE << >>) /\ (lsu_err_q <=> Len(op) = 2 /\ Err(1))
    BY <2>1, <2>2 DEF Had
  <2> HIDE DEF Own, Err, last, failed
  <2>6. Append(got, last) = [i \in 1 .. Len(op) |-> Own(i)]
    <3>1. CASE Len(op) = 1
      BY <2>4, <2>5, <3>1
    <3>2. CASE Len(op) = 2
      BY <2>4, <2>5, <3>2
    <3> QED BY <2>2, <3>1, <3>2
  <2>7. (lsu_err_q \/ failed) <=> \E i \in 1 .. Len(op) : Err(i)
    <3>1. CASE Len(op) = 1
      BY <2>3, <2>4, <2>5, <3>1
    <3>2. CASE Len(op) = 2
      BY <2>3, <2>4, <2>5, <3>2
    <3> QED BY <2>2, <3>1, <3>2
  <2> QED BY <2>6, <2>7, Zenon DEF Own, Err, last, failed, data_or_pmp_err
<1> QED BY Answered, <1>1, InvHolds, PTL

\* The debugger's access takes the answer of the word it addressed, though the core has priority and
\* the debugger writes the address register at any time.
THEOREM SbaCorrect ==
  ASSUME Answered
  PROVE  Spec => []SbaTakesOwnAnswer
<1>1. Inv => SbaTakesOwnAnswer
  BY DEF Inv, SbaInv, SbaTakesOwnAnswer, Finished
<1> QED BY Answered, <1>1, InvHolds, PTL

\* No host is given a response it does not wait for; a core being reset may be, and ignores it.
THEOREM NoStrayCorrect ==
  ASSUME Answered
  PROVE  Spec => []NoStrayResponse
<1>1. Inv => NoStrayResponse
  BY DEF Inv, LoadInv, SbaInv, NoStrayResponse
<1> QED BY Answered, <1>1, InvHolds, PTL

\* A fetch is given the word it asked for, from the RAM or from the debug memory the bus also uses.
THEOREM FetchCorrect ==
  ASSUME Answered
  PROVE  Spec => []FetchTakesOwnWord
<1>1. Inv => FetchTakesOwnWord
  BY DEF Inv
<1> QED BY Answered, <1>1, InvHolds, PTL

\* The comment at the head of the bus holds of a build without absent devices: a request is answered
\* in the cycle after it.
THEOREM NextCycleCorrect ==
  ASSUME Answered
  PROVE  Spec => []NextCycleResponse
<1>1. Inv => NextCycleResponse
  BY DEF Inv, LoadInv, SbaInv, NextCycleResponse, Awaits
<1> QED BY Answered, <1>1, InvHolds, PTL

=============================================================================
