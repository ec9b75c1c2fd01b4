------------------------------- MODULE CoreLsu -------------------------------
(***************************************************************************)
(* The core's load-store unit and the gating of its requests by the ID     *)
(* stage (no writeback stage, no PMP).  A memory operation is <<w>>, or    *)
(* <<w, v>> when a misaligned access is split over two words.  ID holds it *)
(* until its response, so the next one starts a cycle later at the         *)
(* earliest.                                                               *)
(***************************************************************************)
EXTENDS Naturals, Sequences

VARIABLES op,                   \* operation held in ID, << >> when none
          ls_fsm_cs,
          handle_misaligned_q,  \* the second part waits for its grant
          lsu_err_q             \* the first part came back with an error

lsuVars == <<op, ls_fsm_cs, handle_misaligned_q, lsu_err_q>>

LsuState == {"IDLE", "WAIT_GNT_MIS", "WAIT_RVALID_MIS", "WAIT_GNT",
             "WAIT_RVALID_MIS_GNTS_DONE"}

LsuInit ==
  /\ op = << >> /\ ls_fsm_cs = "IDLE"
  /\ handle_misaligned_q = FALSE /\ lsu_err_q = FALSE

(* In the first cycle of a load or store, ID presents it as new.           *)
lsu_req(new) == op = << >> /\ new # << >>
Current(new) == IF op = << >> THEN new ELSE op
split_misaligned_access(new) == Len(Current(new)) = 2

data_req_o(new) ==
  lsu_req(new) \/ ls_fsm_cs \in {"WAIT_GNT_MIS", "WAIT_RVALID_MIS", "WAIT_GNT"}

addr_incr_req_o ==
  \/ ls_fsm_cs \in {"WAIT_RVALID_MIS", "WAIT_RVALID_MIS_GNTS_DONE"}
  \/ ls_fsm_cs = "WAIT_GNT" /\ handle_misaligned_q

(* Faulty variant of data_addr_o: both parts at the first word.            *)
dataAddrFirst(new) == Current(new)[1]

data_addr_o(new) == Current(new)[IF addr_incr_req_o THEN 2 ELSE 1]

(* A response in IDLE is the answer to the (second part of the) operation. *)
lsu_resp_valid_o(data_rvalid) == data_rvalid /\ ls_fsm_cs = "IDLE"

data_or_pmp_err(data_bus_err) == lsu_err_q \/ data_bus_err

(* Faulty variant of AfterFirstPart: waits for a grant it has.             *)
AfterFirstPartSwapped(gnt, rvalid) ==
  CASE rvalid -> IF gnt THEN "WAIT_GNT" ELSE "IDLE"
    [] ~rvalid -> IF gnt THEN "WAIT_RVALID_MIS_GNTS_DONE" ELSE "WAIT_RVALID_MIS"

(* The second part is requested while the first is awaited.                *)
AfterFirstPart(gnt, rvalid) ==
  CASE rvalid -> IF gnt THEN "IDLE" ELSE "WAIT_GNT"
    [] ~rvalid -> IF gnt THEN "WAIT_RVALID_MIS_GNTS_DONE" ELSE "WAIT_RVALID_MIS"

ls_fsm_ns(new, gnt, rvalid) ==
  CASE ls_fsm_cs = "IDLE" /\ ~lsu_req(new) -> "IDLE"
    [] ls_fsm_cs = "IDLE" /\ lsu_req(new) /\ gnt ->
         IF split_misaligned_access(new) THEN "WAIT_RVALID_MIS" ELSE "IDLE"
    [] ls_fsm_cs = "IDLE" /\ lsu_req(new) /\ ~gnt ->
         IF split_misaligned_access(new) THEN "WAIT_GNT_MIS" ELSE "WAIT_GNT"
    [] ls_fsm_cs = "WAIT_GNT_MIS" -> IF gnt THEN "WAIT_RVALID_MIS" ELSE "WAIT_GNT_MIS"
    [] ls_fsm_cs = "WAIT_RVALID_MIS" -> AfterFirstPart(gnt, rvalid)
    [] ls_fsm_cs = "WAIT_GNT" -> IF gnt THEN "IDLE" ELSE "WAIT_GNT"
    [] ls_fsm_cs = "WAIT_RVALID_MIS_GNTS_DONE" ->
         IF rvalid THEN "IDLE" ELSE "WAIT_RVALID_MIS_GNTS_DONE"

LsuEdge(new, gnt, rvalid, err) ==
  /\ op' = IF op # << >> /\ lsu_resp_valid_o(rvalid) THEN << >> ELSE Current(new)
  /\ ls_fsm_cs' = ls_fsm_ns(new, gnt, rvalid)
  /\ handle_misaligned_q' =
       CASE ls_fsm_cs = "IDLE" /\ lsu_req(new) /\ gnt -> split_misaligned_access(new)
         [] ls_fsm_cs = "WAIT_GNT_MIS" /\ gnt -> TRUE
         [] ls_fsm_cs = "WAIT_RVALID_MIS" /\ rvalid -> ~gnt
         [] ls_fsm_cs \in {"WAIT_RVALID_MIS", "WAIT_GNT"} /\ gnt -> FALSE
         [] OTHER -> handle_misaligned_q
  /\ lsu_err_q' =
       CASE lsu_req(new) -> FALSE
         [] ls_fsm_cs \in {"WAIT_RVALID_MIS", "WAIT_RVALID_MIS_GNTS_DONE"} /\ rvalid -> err
         [] OTHER -> lsu_err_q

(* The core's reset, also asserted by the debug module alone.              *)
LsuReset ==
  /\ op' = << >> /\ ls_fsm_cs' = "IDLE"
  /\ handle_misaligned_q' = FALSE /\ lsu_err_q' = FALSE

=============================================================================
