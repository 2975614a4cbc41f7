------------------------------ MODULE RrcConn ------------------------------
(***************************************************************************)
(* The RRC connection (rrc.cc) between NAS (nas.cc) and the gateway        *)
(* (gw.cc).  PHY workers bring system information and paging, the PDU      *)
(* thread brings CCCH and DCCH messages, the upper timers thread T301,     *)
(* T310 and T311, the MAC thread random access problems, and the gateway   *)
(* thread packets that need a connection.  rrc::mutex is taken by a        *)
(* release and by the gateway's calls only; a release and a handler that   *)
(* sends on SRB0 without the mutex are therefore split where the other     *)
(* may come between.  MAC and the network below are one action per answer. *)
(***************************************************************************)
EXTENDS Integers, Sequences, FiniteSets

CONSTANTS
  N310, N311,      \* n310 and n311 of SIB2
  MaxFaults,       \* sync losses, RA problems, rejects and releases
  MaxPagings,      \* times that the UE is paged
  MaxPackets       \* packets read from the TUN device

ASSUME RrcAssumption ==
  {N310, N311} \subseteq Nat \ {0} /\ {MaxFaults, MaxPagings, MaxPackets} \subseteq Nat

RrcThreads == {"phy", "pdu", "timers", "mac"}
RrcTimers == {"t301", "t310", "t311"}
RrcState == {"IDLE", "SIB1_SEARCH", "SIB2_SEARCH", "WAIT_FOR_CON_SETUP", "RRC_CONNECTED"}
CcchMsg == {"RRC_CON_SETUP", "RRC_CON_REJ", "RRC_CON_REEST", "RRC_CON_REEST_REJ"}

VARIABLES
  rrc_state,
  bearers,         \* bearers that RLC and PDCP have besides SRB0
  drb_up,
  running,         \* the timers that run
  n310_cnt, n311_cnt,
  sib2,            \* SIB2 has been applied
  srb0,            \* SDUs in the transparent entity of SRB0
  rnti,            \* MAC has a C-RNTI
  pcch,            \* PHY searches for the P-RNTI
  dl_ccch,         \* answers of the network on their way
  thread,          \* where each thread is inside a handler
  nas,             \* is_guti_set, REGISTERED, and the gateway's if_up
  gw,              \* the gateway thread: reading, waiting or sending
  raced,           \* history: a handler without the mutex changed the state in a release
  faults, pagings, packets

radioVars == <<bearers, srb0, rnti, pcch, dl_ccch>>
syncVars == <<running, n310_cnt, n311_cnt, sib2>>
countVars == <<faults, pagings, packets>>
rrcVars == <<rrc_state, drb_up, radioVars, syncVars, thread, nas, gw, raced, countVars>>

RrcTypeOK ==
  /\ rrc_state \in RrcState /\ bearers \subseteq {"srb1", "drb1"}
  /\ {drb_up, sib2, rnti, pcch, raced} \subseteq BOOLEAN
  /\ running \subseteq RrcTimers
  /\ n310_cnt \in 0 .. N310 + 1 /\ n311_cnt \in 0 .. N311 + 1
  /\ srb0 \in Seq({"RRC_CON_REQ", "RRC_CON_REEST_REQ"}) /\ dl_ccch \in Seq(CcchMsg)
  /\ thread \in [RrcThreads -> {"free", "paged", "resync", "reset"}]
  /\ nas \in [guti : BOOLEAN, registered : BOOLEAN, if_up : BOOLEAN]
  /\ gw \in {"read", "wait", "send"}
  /\ faults \in 0 .. MaxFaults /\ pagings \in 0 .. MaxPagings /\ packets \in 0 .. MaxPackets

(* The MIB has been read.  n310_cnt and n311_cnt are never initialised;     *)
(* one more than the limit stands for every value that is above it.         *)
RrcInit ==
  /\ rrc_state = "SIB1_SEARCH" /\ bearers = {} /\ drb_up = FALSE
  /\ running = {} /\ n310_cnt \in 0 .. N310 + 1 /\ n311_cnt \in 0 .. N311 + 1
  /\ sib2 = FALSE /\ srb0 = <<>> /\ rnti = FALSE /\ pcch = FALSE /\ dl_ccch = <<>>
  /\ thread = [t \in RrcThreads |-> "free"]
  /\ nas = [guti |-> FALSE, registered |-> FALSE, if_up |-> FALSE]
  /\ gw = "read" /\ raced = FALSE /\ faults = 0 /\ pagings = 0 /\ packets = 0

MutexHeld == \E t \in RrcThreads : thread[t] = "reset"
Free(t) == thread[t] = "free"
Goto(t, where) == thread' = [thread EXCEPT ![t] = where]

Fault ==
  /\ faults < MaxFaults
  /\ faults' = faults + 1 /\ UNCHANGED <<pagings, packets>>

---------------------------------------------------------------------------
(* Sending on SRB0.                                                        *)

SendOnSrb0(msg) ==
  /\ rrc_state' = "WAIT_FOR_CON_SETUP" /\ srb0' = Append(srb0, msg)
  /\ raced' = (raced \/ MutexHeld)

send_con_request == SendOnSrb0("RRC_CON_REQ")

(* mac::reset() stops every upper timer, forgets the C-RNTI and leaves the  *)
(* searches of the PDCCH; what the network has sent to the RNTI is lost.    *)
mac_reset_all == rnti' = FALSE /\ pcch' = FALSE /\ dl_ccch' = <<>>

(* First half of the re-establishment, up to the wait for the cell: T310    *)
(* stops and T311 starts, but the reset of MAC stops T311 again.            *)
send_con_restablish_request(t) ==
  /\ Goto(t, "resync")
  /\ running' = {} /\ mac_reset_all
  /\ UNCHANGED <<rrc_state, drb_up, bearers, srb0, raced>>

(* Second half, when the cell is back or 100 tests have failed.             *)
resync_done(t) ==
  /\ thread[t] = "resync" /\ Goto(t, "free")
  /\ running' = (running \cup {"t301"}) \ {"t311"}
  /\ SendOnSrb0("RRC_CON_REEST_REQ")
  /\ UNCHANGED <<drb_up, bearers, rnti, pcch, dl_ccch, n310_cnt, n311_cnt>>
  /\ UNCHANGED <<sib2, nas, gw, countVars>>

---------------------------------------------------------------------------
(* Releasing the connection, under the mutex.                              *)

rrc_connection_release(t) ==
  /\ ~ MutexHeld /\ Goto(t, "reset")
  /\ rrc_state' = "IDLE" /\ drb_up' = FALSE
  /\ UNCHANGED <<bearers, srb0, rnti, pcch, dl_ccch, raced>>

(* The resets of MAC, RLC and PDCP; paging is searched for.                 *)
release_resets(t) ==
  /\ thread[t] = "reset" /\ Goto(t, "free")
  /\ running' = {} /\ rnti' = FALSE /\ dl_ccch' = <<>>
  /\ srb0' = <<>> /\ bearers' = {} /\ pcch' = TRUE
  /\ UNCHANGED <<rrc_state, drb_up, n310_cnt, n311_cnt, sib2, nas, gw, raced, countVars>>

radio_link_failure(t, rest) ==
  \/ rrc_state # "RRC_CONNECTED" /\ rrc_connection_release(t) /\ running' = rest
  \/ rrc_state = "RRC_CONNECTED" /\ send_con_restablish_request(t)

ra_problem ==
  /\ Free("mac") /\ (srb0 # <<>> \/ rnti) /\ Fault
  /\ radio_link_failure("mac", running)
  /\ UNCHANGED <<n310_cnt, n311_cnt, sib2, nas, gw>>

rrc_timer_expired ==
  \E timer \in running :
    /\ Free("timers")
    /\ \/ timer = "t310" /\ radio_link_failure("timers", running \ {timer})
       \/ /\ timer \in {"t311", "t301"} /\ rrc_connection_release("timers")
          /\ running' = running \ {timer}
    /\ UNCHANGED <<n310_cnt, n311_cnt, sib2, nas, gw, countVars>>

---------------------------------------------------------------------------
(* Sync indications of PHY.  Before SIB2 both limits are 1.                *)

Limit(n) == IF sib2 THEN n ELSE 1
Count(cnt, n) ==
  IF cnt + 1 = Limit(n) THEN 0 ELSE IF cnt > n THEN cnt ELSE cnt + 1

(* Mutant of out_of_sync(): the count goes on after T310 is started. *)
out_of_sync_no_reset ==
  /\ running \cap {"t310", "t311"} = {} /\ Fault
  /\ n310_cnt' = n310_cnt + 1
  /\ running' = IF n310_cnt + 1 = Limit(N310) THEN running \cup {"t310"} ELSE running
  /\ UNCHANGED <<rrc_state, drb_up, radioVars, n311_cnt, sib2, thread, nas, gw, raced>>

out_of_sync ==
  /\ running \cap {"t310", "t311"} = {} /\ Fault
  /\ n310_cnt' = Count(n310_cnt, N310)
  /\ running' = IF n310_cnt + 1 = Limit(N310) THEN running \cup {"t310"} ELSE running
  /\ UNCHANGED <<rrc_state, drb_up, radioVars, n311_cnt, sib2, thread, nas, gw, raced>>

in_sync ==
  /\ "t310" \in running
  /\ n311_cnt' = Count(n311_cnt, N311)
  /\ running' = IF n311_cnt + 1 = Limit(N311) THEN running \ {"t310"} ELSE running
  /\ UNCHANGED <<rrc_state, drb_up, radioVars, n310_cnt, sib2, thread, nas, gw, raced, countVars>>

---------------------------------------------------------------------------
(* PHY workers: system information and paging.                             *)

write_pdu_bcch_dlsch ==
  /\ Free("phy")
  /\ \/ /\ rrc_state = "SIB1_SEARCH" /\ rrc_state' = "SIB2_SEARCH"
        /\ UNCHANGED <<srb0, raced, sib2>>
     \/ /\ rrc_state = "SIB2_SEARCH" /\ sib2' = TRUE
        /\ send_con_request
  /\ UNCHANGED <<drb_up, bearers, rnti, pcch, dl_ccch, running, n310_cnt, n311_cnt>>
  /\ UNCHANGED <<thread, nas, gw, countVars>>

write_pdu_pcch ==
  /\ Free("phy") /\ pcch /\ nas.guti
  /\ pagings < MaxPagings /\ pagings' = pagings + 1
  /\ pcch' = FALSE
  /\ Goto("phy", IF rrc_state = "IDLE" THEN "paged" ELSE "free")
  /\ UNCHANGED <<rrc_state, drb_up, bearers, srb0, rnti, dl_ccch, syncVars, nas, gw, raced>>
  /\ UNCHANGED <<faults, packets>>

(* The rest of write_pdu_pcch(): the state may have changed since the test. *)
paging_request ==
  /\ thread["phy"] = "paged" /\ Goto("phy", "free")
  /\ send_con_request
  /\ UNCHANGED <<drb_up, bearers, rnti, pcch, dl_ccch, syncVars, nas, gw, countVars>>

---------------------------------------------------------------------------
(* The network, and the PDU thread.                                        *)

(* External: a random access for the first SDU of SRB0, and the answer.     *)
(* A connection request is always answered, since nothing in rrc.cc would   *)
(* repeat it; a re-establishment request need not be.                       *)
Refuses(request) ==
  IF request = "RRC_CON_REQ" THEN {<<"RRC_CON_REJ">>} ELSE {<<"RRC_CON_REEST_REJ">>, <<>>}
Accepts(request) ==
  IF request = "RRC_CON_REQ" THEN <<"RRC_CON_SETUP">> ELSE <<"RRC_CON_REEST">>

random_access ==
  /\ Free("mac") /\ srb0 # <<>>
  /\ srb0' = Tail(srb0) /\ rnti' = TRUE /\ pcch' = FALSE
  /\ \/ dl_ccch' = dl_ccch \o Accepts(Head(srb0)) /\ UNCHANGED countVars
     \/ \E answer \in Refuses(Head(srb0)) : dl_ccch' = dl_ccch \o answer /\ Fault
  /\ UNCHANGED <<rrc_state, drb_up, bearers, syncVars, thread, nas, gw, raced>>

(* CON_SETUP adds SRB1 and passes COMPLETING_SETUP: NAS answers at once and *)
(* its SDU makes the state CONNECTED.                                       *)
parse_dl_ccch ==
  /\ Free("pdu") /\ dl_ccch # <<>>
  /\ dl_ccch' = Tail(dl_ccch) /\ raced' = (raced \/ MutexHeld)
  /\ \/ /\ Head(dl_ccch) \in {"RRC_CON_SETUP", "RRC_CON_REEST"}
        /\ running' = IF Head(dl_ccch) = "RRC_CON_REEST" THEN running \ {"t301"} ELSE running
        /\ bearers' = bearers \cup {"srb1"} /\ rrc_state' = "RRC_CONNECTED"
        /\ UNCHANGED <<drb_up, thread>>
     \/ /\ Head(dl_ccch) = "RRC_CON_REJ" /\ rrc_state' = "IDLE"
        /\ UNCHANGED <<drb_up, bearers, running, thread>>
     \/ /\ Head(dl_ccch) = "RRC_CON_REEST_REJ" /\ ~ MutexHeld /\ Goto("pdu", "reset")
        /\ rrc_state' = "IDLE" /\ drb_up' = FALSE
        /\ UNCHANGED <<bearers, running>>
  /\ UNCHANGED <<srb0, rnti, pcch, n310_cnt, n311_cnt, sib2, nas, gw, countVars>>

(* A DCCH message needs the C-RNTI and SRB1.                                *)
Dcch == Free("pdu") /\ rnti /\ "srb1" \in bearers

(* Mutant of add_drb(): only the DRB that comes with an attach sets drb_up. *)
handle_rrc_con_reconfig_once ==
  /\ Dcch /\ "drb1" \notin bearers
  /\ bearers' = bearers \cup {"drb1"} /\ drb_up' = (drb_up \/ ~ nas.registered)
  /\ nas' = [guti |-> TRUE, registered |-> TRUE, if_up |-> TRUE]
  /\ UNCHANGED <<rrc_state, srb0, rnti, pcch, dl_ccch, syncVars, thread, gw, raced, countVars>>

(* The reconfiguration adds the DRB; to a UE that is not registered it      *)
(* brings the attach accept, which brings the TUN device up.                *)
handle_rrc_con_reconfig ==
  /\ Dcch /\ "drb1" \notin bearers
  /\ bearers' = bearers \cup {"drb1"} /\ drb_up' = TRUE
  /\ nas' = IF nas.registered THEN nas
            ELSE [guti |-> TRUE, registered |-> TRUE, if_up |-> TRUE]
  /\ UNCHANGED <<rrc_state, srb0, rnti, pcch, dl_ccch, syncVars, thread, gw, raced, countVars>>

parse_attach_reject ==
  /\ Dcch /\ ~ nas.registered /\ Fault
  /\ nas' = [nas EXCEPT !.registered = FALSE]
  /\ UNCHANGED <<rrc_state, drb_up, radioVars, syncVars, thread, gw, raced>>

con_release ==
  /\ Dcch /\ Fault
  /\ rrc_connection_release("pdu")
  /\ UNCHANGED <<syncVars, nas, gw>>

---------------------------------------------------------------------------
(* The gateway thread.                                                     *)

gw_read ==
  /\ nas.if_up /\ gw = "read" /\ packets < MaxPackets
  /\ gw' = "wait" /\ packets' = packets + 1
  /\ UNCHANGED <<rrc_state, drb_up, radioVars, syncVars, thread, nas, raced, faults, pagings>>

(* Mutant of rrc_connect(): the mutex is not taken. *)
rrc_connect_unlocked ==
  /\ gw = "wait"
  /\ ~ (rrc_state = "RRC_CONNECTED" /\ drb_up)
  /\ rrc_state = "IDLE"
  /\ rrc_state' = "WAIT_FOR_CON_SETUP" /\ srb0' = Append(srb0, "RRC_CON_REQ")
  /\ UNCHANGED <<drb_up, bearers, rnti, pcch, dl_ccch, syncVars, thread, nas, gw, raced, countVars>>

rrc_connect ==
  /\ gw = "wait" /\ ~ MutexHeld
  /\ ~ (rrc_state = "RRC_CONNECTED" /\ drb_up)
  /\ rrc_state = "IDLE"
  /\ send_con_request
  /\ UNCHANGED <<drb_up, bearers, rnti, pcch, dl_ccch, syncVars, thread, nas, gw, countVars>>

gw_connected ==
  /\ gw = "wait" /\ ~ MutexHeld
  /\ rrc_state = "RRC_CONNECTED" /\ drb_up
  /\ gw' = "send"
  /\ UNCHANGED <<rrc_state, drb_up, radioVars, syncVars, thread, nas, raced, countVars>>

(* pdcp->write_sdu(): without the DRB the packet is dropped.                *)
gw_send ==
  /\ gw = "send" /\ gw' = "read"
  /\ UNCHANGED <<rrc_state, drb_up, radioVars, syncVars, thread, nas, raced, countVars>>

---------------------------------------------------------------------------
Handlers == \E t \in RrcThreads : resync_done(t) \/ release_resets(t)
Gateway == rrc_connect \/ gw_connected \/ gw_send

RrcNext ==
  \/ Handlers \/ ra_problem \/ rrc_timer_expired \/ out_of_sync \/ in_sync
  \/ write_pdu_bcch_dlsch \/ write_pdu_pcch \/ paging_request
  \/ random_access \/ parse_dl_ccch \/ handle_rrc_con_reconfig \/ parse_attach_reject
  \/ con_release \/ gw_read \/ Gateway

(* Threads run, timers expire, the network answers and adds the DRB, and    *)
(* none of them keeps the gateway's thread from running.                    *)
RrcProgress ==
  \/ Handlers \/ rrc_timer_expired \/ write_pdu_bcch_dlsch \/ paging_request
  \/ random_access \/ parse_dl_ccch \/ handle_rrc_con_reconfig
RrcFairness == WF_rrcVars(RrcProgress) /\ WF_rrcVars(Gateway)

RrcSpec == RrcInit /\ [][RrcNext]_rrcVars /\ RrcFairness

---------------------------------------------------------------------------
(* rrc.cc has no T300: in WAIT_FOR_CON_SETUP only an answer or T301 leads   *)
(* on.  So whenever the state is WAIT_FOR_CON_SETUP, a request is queued,   *)
(* an answer is on its way, T301 runs, or a thread is still in a handler;   *)
(* unless a paging, a re-establishment or an answer, whose handlers do not  *)
(* take the mutex, came in the middle of a release.                         *)
WaitIsAnswered ==
  rrc_state = "WAIT_FOR_CON_SETUP" /\ ~ raced =>
    \/ srb0 # <<>> \/ dl_ccch # <<>> \/ "t301" \in running
    \/ \E t \in RrcThreads : ~ Free(t)

(* gw::run_thread() holds a packet until RRC is connected with a DRB.       *)
(* However links fail, requests are rejected, connections are released and  *)
(* re-established and pagings come in between, a finite number of times,    *)
(* the packet leaves the loop; again unless such a race was lost.           *)
GatewayServed == gw = "wait" ~> (gw # "wait" \/ raced)

=============================================================================
