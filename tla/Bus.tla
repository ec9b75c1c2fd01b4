--------------------------------- MODULE Bus ---------------------------------
(***************************************************************************)
(* The system bus: a strict priority arbiter over the hosts, an address    *)
(* decoder over the devices, and the two registers that route the response *)
(* of the next cycle.  Addresses are word numbers; an address window is    *)
(* the set of devices whose (base, mask) pair a word matches.              *)
(***************************************************************************)
EXTENDS Integers, FiniteSets

CONSTANTS NrHosts,     \* hosts 0 .. NrHosts - 1, the first has priority
          NrDevices,   \* devices 0 .. NrDevices - 1
          Word,        \* word addresses
          Hits         \* Hits[w]: the devices whose window holds w

Host == 0 .. NrHosts - 1
Device == 0 .. NrDevices - 1

ASSUME BusAssumption ==
  /\ NrHosts \in Nat \ {0} /\ NrDevices \in Nat \ {0}
  /\ Hits \in [Word -> SUBSET Device]

VARIABLES host_sel_resp,    \* host the response of this cycle goes to
          device_sel_resp   \* device it comes from

busVars == <<host_sel_resp, device_sel_resp>>

BusTypeOK == host_sel_resp \in Host /\ device_sel_resp \in Device

BusInit == host_sel_resp = 0 /\ device_sel_resp = 0

-----------------------------------------------------------------------------
(* The combinational side, for requests host_req and addresses host_addr.  *)

host_sel_req(host_req) ==
  IF \E h \in Host : host_req[h]
  THEN CHOOSE h \in Host : host_req[h] /\ \A g \in Host : host_req[g] => h <= g
  ELSE 0

(* A word in no window goes to device 0.                                   *)
device_sel_req(w) ==
  IF Hits[w] = {} THEN 0 ELSE CHOOSE d \in Hits[w] : \A e \in Hits[w] : e <= d

(* The address phase: the host and device selected, the address and       *)
(* whether it is requested at all.                                         *)
Phase(host_req, host_addr) ==
  LET host == host_sel_req(host_req)
  IN [host |-> host, addr |-> host_addr[host], req |-> host_req[host],
      device |-> device_sel_req(host_addr[host])]

host_gnt_o(phase, h) == phase.req /\ h = phase.host
device_req_o(phase, d) == phase.req /\ d = phase.device

(* Faulty variant of host_rvalid_o: every host hears every response.       *)
rvalidToAll(rvalid, h) == h \in Host /\ rvalid[device_sel_resp]

(* Responses, from the devices' valid flags, errors and data.              *)
host_rvalid_o(rvalid, h) == h = host_sel_resp /\ rvalid[device_sel_resp]
host_err_o(err, h) == h = host_sel_resp /\ err[device_sel_resp]
host_rdata_o(rdata) == rdata[device_sel_resp]

BusEdge(phase) ==
  /\ host_sel_resp' = phase.host
  /\ device_sel_resp' = phase.device

=============================================================================
