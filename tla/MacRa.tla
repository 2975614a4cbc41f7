------------------------------- MODULE MacRa -------------------------------
(***************************************************************************)
(* Random access (proc_ra.cc) with the Msg3 buffer of the multiplexer      *)
(* (mux.cc), the PRACH and the search spaces of the PHY (prach.cc,         *)
(* phch_common.cc) and the loop that drives it (mac.cc).  Three kinds of   *)
(* threads meet here without a lock: the MAC thread takes one step per     *)
(* TTI, PHY workers deliver the random access response, send Msg3 and      *)
(* deliver Msg4, and RRC resets the MAC.  A worker may be a few TTIs late, *)
(* and so may the MAC thread.  preambleIndex is always 0 and               *)
(* started_by_pdcch always false: nothing calls start_pdcch_order().       *)
(* messageSizeGroupA is never below the 56 bits that start_mac_order()     *)
(* announces, so the preamble comes from group A; which one it is does     *)
(* not matter here.                                                        *)
(***************************************************************************)
EXTENDS Integers, FiniteSetsExt

CONSTANTS
  TtiMod,             \* the TTI counter wraps here; 10240 in the code
  TxAdvance,          \* prach::tx_advance_sf
  Opportunities,      \* TTIs in which the cell allows a preamble
  ResponseWindow,     \* responseWindowSize
  GiveUpSpan,         \* how long after the window its end is noticed; 100
  PreambleTransMax,   \* preambleTransMax
  ContentionTimeout,  \* contentionResolutionTimer
  BackoffParams,      \* backoff_table
  MaxMsg3Tx,          \* rach.max_harq_msg3_tx
  OwnId, OtherId,     \* contention identities of this UE and of another one
  TempRnti,           \* Temporal C-RNTIs a base station gives out
  Msg3Delays,         \* from the response to the grant of Msg3: {2, 3}
  Msg4Delay,          \* TTIs before the base station can answer Msg3
  MaxLag,             \* TTIs the MAC thread may be behind
  WorkerTime,         \* TTIs a worker may take
  MaxOrders           \* connections requested, and orders in them

None == 0             \* no identity, no RNTI, an empty buffer
CrntiCe == -1         \* a Msg3 that carries a C-RNTI control element
OtherPdu == -2        \* a Msg3 with neither that nor a CCCH SDU

ASSUME RaAssumption ==
  /\ TtiMod \in Nat \ {0, 1} /\ Opportunities \subseteq 0 .. TtiMod - 1
  /\ PreambleTransMax \in Nat \ {0}
  /\ ContentionTimeout \in Nat \ {0} /\ BackoffParams \subseteq Nat
  /\ OwnId \in Nat \ {None} /\ OtherId \in Nat \ {None, OwnId}
  /\ TempRnti \subseteq Nat \ {None}
  /\ \A a, b \in TempRnti \cup {None} : TempRnti \ {a, b} # {}    \* one is always free
  /\ {Msg4Delay, MaxLag} \subseteq Nat

RaState == {"IDLE", "INITIALIZATION", "RESOURCE_SELECTION", "PREAMBLE_TRANSMISSION",
            "PDCCH_SETUP", "RESPONSE_RECEPTION", "RESPONSE_ERROR", "BACKOFF_WAIT",
            "CONTENTION_RESOLUTION", "COMPLETION", "COMPLETION_DONE", "RA_PROBLEM"}

VARIABLES
  state,
  counter,            \* preambleTransmissionCounter
  preambles,          \* preambles armed since the procedure was initialised
  ra,                 \* the other members of ra_proc
  rntis,              \* crnti, temp_rnti, contention_id
  timer,              \* the contention resolution timer; -1 when it is stopped
  mux,                \* the Msg3 buffer and pending_crnti_ce of the multiplexer
  ccch,               \* the SDU that waits on SRB0
  dl_rnti, ul_rnti,   \* what the PHY searches for
  prach,              \* preamble_idx and transmitted_tti
  rar_grant,          \* rar_grant_tti, or -1 when no grant is pending
  signals_pregenerated,
  tti,                \* phch_recv::tti
  due,                \* TTIs that the MAC thread has not taken yet
  mac_pc,             \* where the MAC thread is in its loop
  rar_worker,         \* the worker with a grant for a response: the TTI
  msg4_worker,        \* the worker with a grant for Msg4: the identity
  msg3_harq,          \* retransmissions of Msg3 that are left
  on_air,             \* the last Msg3 of this procedure
  ordered,            \* the procedure was initialised after the last reset
  rrc,                \* what RRC waits for
  orders              \* how many times RRC or the SR procedure has acted

procVars == <<state, counter, preambles, ra>>
macVars  == <<rntis, timer, mux, ccch>>
phyVars  == <<dl_rnti, ul_rnti, prach, rar_grant, signals_pregenerated>>
workers  == <<rar_worker, msg4_worker, msg3_harq, on_air, ordered>>
clock    == <<tti, due, mac_pc>>
raVars   == <<procVars, macVars, phyVars, workers, clock, rrc, orders>>

Search(type, rnti) == [type |-> type, rnti |-> rnti, start |-> -1, end |-> -1]
NoSearch == Search("USER", None)
Paging   == Search("PCH", -1)      \* pcch_start_rx()
NoMsg3   == [id |-> None, temp |-> None, age |-> 0]
NoBackoff == [start |-> 0, interval |-> 0]
NoWorker == [busy |-> FALSE, with |-> None, age |-> 0]
Rntis == TempRnti \cup {None}

RaTypeOK ==
  /\ state \in RaState /\ counter \in Nat /\ preambles \in Nat
  /\ ra \in [rar_received : BOOLEAN,
             first_rar_received : BOOLEAN, transmitted_crnti : Rntis,
             transmitted_contention_id : {None, OwnId},
             pdcch_to_crnti_received : {"NOT_RECEIVED", "UL_GRANT", "DL_GRANT"},
             msg3_flushed : BOOLEAN,
             backoff_param : BackoffParams \cup {0},
             backoff : [start : 0 .. TtiMod - 1, interval : Nat]]
  /\ rntis \in [crnti : Rntis, temp_rnti : Rntis, contention_id : {None, OwnId}]
  /\ timer \in -1 .. ContentionTimeout - 1
  /\ mux \in [msg3 : {None, CrntiCe, OtherPdu, OwnId}, sent : BOOLEAN,
              pending_crnti_ce : Rntis]
  /\ ccch \in {None, OwnId} /\ ordered \in BOOLEAN
  /\ on_air \in [id : {None, CrntiCe, OtherPdu, OwnId}, temp : Rntis,
                 age : 0 .. Msg4Delay + 1]
  /\ tti \in 0 .. TtiMod - 1 /\ due \in 0 .. MaxLag
  /\ mac_pc \in {"wait", "step", "give_up", "timers", "expired"}
  /\ rrc \in {"idle", "waiting", "connected"}

RaInit ==
  /\ state = "IDLE" /\ counter = 0 /\ preambles = 0
  /\ ra = [rar_received |-> FALSE, first_rar_received |-> FALSE,
           transmitted_crnti |-> None, transmitted_contention_id |-> None,
           pdcch_to_crnti_received |-> "NOT_RECEIVED", msg3_flushed |-> FALSE, backoff_param |-> 0,
           backoff |-> NoBackoff]
  /\ rntis = [crnti |-> None, temp_rnti |-> None, contention_id |-> None]
  /\ timer = -1
  /\ mux = [msg3 |-> None, sent |-> FALSE, pending_crnti_ce |-> None] /\ ccch = None
  /\ dl_rnti = NoSearch /\ ul_rnti = None /\ signals_pregenerated = FALSE
  /\ prach = [armed |-> FALSE, tti |-> -1] /\ rar_grant = -1
  /\ tti = 1 /\ due = 0 /\ mac_pc = "wait"
  /\ rar_worker = NoWorker /\ msg4_worker = NoWorker /\ msg3_harq = 0
  /\ on_air = NoMsg3 /\ ordered = FALSE
  /\ rrc = "idle" /\ orders = 0

(* A connection that was set up with one preamble. *)
RaConnected ==
  /\ state = "COMPLETION_DONE" /\ counter = 1 /\ preambles = 1
  /\ ra = [rar_received |-> TRUE, first_rar_received |-> FALSE,
           transmitted_crnti |-> None, transmitted_contention_id |-> OwnId,
           pdcch_to_crnti_received |-> "NOT_RECEIVED", msg3_flushed |-> TRUE,
           backoff_param |-> 0, backoff |-> NoBackoff]
  /\ rntis = [crnti |-> Min(TempRnti), temp_rnti |-> None, contention_id |-> None]
  /\ timer = -1
  /\ mux = [msg3 |-> None, sent |-> FALSE, pending_crnti_ce |-> None] /\ ccch = None
  /\ dl_rnti = Search("USER", Min(TempRnti)) /\ ul_rnti = Min(TempRnti)
  /\ signals_pregenerated = TRUE
  /\ prach = [armed |-> FALSE, tti |-> Min(Opportunities)] /\ rar_grant = -1
  /\ tti = 1 /\ due = 0 /\ mac_pc = "wait"
  /\ rar_worker = NoWorker /\ msg4_worker = NoWorker /\ msg3_harq = 0
  /\ on_air = [id |-> OwnId, temp |-> Min(TempRnti), age |-> Msg4Delay + 1]
  /\ ordered = TRUE /\ rrc = "connected" /\ orders = 0

srslte_tti_interval(a, b) == IF a > b THEN a - b ELSE (TtiMod - b) + a

(* dl_rnti_active(): the bounds are not reduced modulo the counter. *)
dl_rnti_active ==
  /\ dl_rnti.start < 0 \/ tti >= dl_rnti.start
  /\ dl_rnti.end < 0 \/ tti < dl_rnti.end

-----------------------------------------------------------------------------
(***************************************************************************)
(* RRC.                                                                    *)
(***************************************************************************)

(* mac::reset(), as far as random access is concerned. *)
mac_reset(next_state, search, id) ==
  /\ timer' = -1
  /\ mux' = [msg3 |-> None, sent |-> FALSE, pending_crnti_ce |-> None]
  /\ state' = next_state
  /\ dl_rnti' = search /\ ul_rnti' = None
  /\ signals_pregenerated' = FALSE /\ on_air' = NoMsg3 /\ ordered' = FALSE
  /\ rntis' = [crnti |-> None, temp_rnti |-> None, contention_id |-> id]

Another == orders < MaxOrders /\ orders' = orders + 1

(* send_con_request() gives the identity to the MAC and the SDU to SRB0. *)
SendConRequest ==
  /\ rrc = "idle" /\ Another
  /\ rrc' = "waiting"
  /\ rntis' = [rntis EXCEPT !.contention_id = OwnId]
  /\ ccch' = OwnId
  /\ UNCHANGED <<procVars, timer, mux, phyVars, workers, clock>>

(* The connection is set up by what follows Msg4. *)
ConSetup ==
  /\ rrc = "waiting" /\ state = "COMPLETION_DONE"
  /\ rrc' = "connected"
  /\ UNCHANGED <<procVars, macVars, phyVars, workers, clock, orders>>

(* rrc_connection_release(): it also empties SRB0 and listens to paging. *)
RrcReleases ==
  /\ rrc = "connected"
  /\ rrc' = "idle"
  /\ mac_reset("IDLE", Paging, None)
  /\ ccch' = None
  /\ UNCHANGED <<counter, preambles, ra, prach, rar_grant, rar_worker, msg4_worker,
                 msg3_harq, clock, orders>>

-----------------------------------------------------------------------------
(***************************************************************************)
(* The steps of the procedure, taken by the MAC thread.                    *)
(***************************************************************************)
Enters(s) == state' = s
Restarted == IF timer = -1 THEN -1 ELSE 0      \* timer::reset()
msg3_flush == mux' = [mux EXCEPT !.msg3 = None, !.sent = FALSE]

(* The state RESPONSE_ERROR of the branch for a C-RNTI is overwritten. *)
step_initialization ==
  /\ state = "INITIALIZATION" /\ Enters("RESOURCE_SELECTION")
  /\ counter' = 1 /\ preambles' = 0
  /\ ra' = [ra EXCEPT !.pdcch_to_crnti_received = "NOT_RECEIVED",
                      !.transmitted_contention_id = None,
                      !.transmitted_crnti = rntis.crnti,
                      !.first_rar_received = TRUE, !.msg3_flushed = FALSE,
                      !.backoff_param = 0]
  /\ timer' = Restarted
  /\ msg3_flush /\ on_air' = NoMsg3 /\ ordered' = TRUE
  /\ UNCHANGED <<rntis, ccch, phyVars, rrc>>

step_resource_selection ==
  /\ state = "RESOURCE_SELECTION" /\ Enters("PREAMBLE_TRANSMISSION")
  /\ UNCHANGED <<counter, preambles, ra, macVars, phyVars, on_air, ordered, rrc>>

step_preamble_transmission ==
  /\ state = "PREAMBLE_TRANSMISSION" /\ Enters("PDCCH_SETUP")
  /\ ra' = [ra EXCEPT !.rar_received = FALSE]
  /\ prach' = [armed |-> TRUE, tti |-> -1]
  /\ preambles' = preambles + 1
  /\ UNCHANGED <<counter, macVars, dl_rnti, ul_rnti, rar_grant,
                 signals_pregenerated, on_air, ordered, rrc>>

step_pdcch_setup ==
  /\ state = "PDCCH_SETUP"
  /\ IF prach.tti > 0
     THEN /\ Enters("RESPONSE_RECEPTION")
          /\ dl_rnti' = [type |-> "RAR", rnti |-> 1 + (prach.tti % 10),
                         start |-> prach.tti + 3, end |-> prach.tti + 3 + ResponseWindow]
     ELSE UNCHANGED <<state, dl_rnti>>
  /\ UNCHANGED <<counter, preambles, ra, macVars, ul_rnti, prach, rar_grant,
                 signals_pregenerated, on_air, ordered, rrc>>

(* rrc->ra_problem(): a connection that is not complete is released, a     *)
(* complete one is re-established; both reset the MAC, and the state is    *)
(* assigned after that.                                                    *)
RaProblem ==
  IF rrc = "connected"
  THEN /\ rrc' = "waiting" /\ ccch' = OwnId /\ mac_reset("RA_PROBLEM", NoSearch, OwnId)
  ELSE /\ rrc' = "idle" /\ ccch' = None /\ mac_reset("RA_PROBLEM", Paging, None)

(* Mutant of step_response_error(): one preamble too many. *)
step_response_error_late ==
  /\ state = "RESPONSE_ERROR"
  /\ counter' = counter + 1
  /\ IF counter > PreambleTransMax
     THEN RaProblem /\ UNCHANGED ra
     ELSE /\ Enters("RESOURCE_SELECTION")
          /\ UNCHANGED <<ra, macVars, dl_rnti, ul_rnti, signals_pregenerated, on_air, ordered, rrc>>
  /\ UNCHANGED <<preambles, prach, rar_grant>>

step_response_error ==
  /\ state = "RESPONSE_ERROR"
  /\ counter' = counter + 1
  /\ IF counter + 1 >= PreambleTransMax + 1
     THEN RaProblem /\ UNCHANGED ra
     ELSE /\ \E i \in IF ra.backoff_param = 0 THEN {0} ELSE 0 .. ra.backoff_param - 1 :
               /\ ra' = IF i = 0 THEN ra ELSE
                          [ra EXCEPT !.backoff = [start |-> tti, interval |-> i]]
               /\ Enters(IF i > 0 THEN "BACKOFF_WAIT" ELSE "RESOURCE_SELECTION")
          /\ UNCHANGED <<macVars, dl_rnti, ul_rnti, signals_pregenerated, on_air, ordered, rrc>>
  /\ UNCHANGED <<preambles, prach, rar_grant>>

step_backoff_wait ==
  /\ state = "BACKOFF_WAIT"
  /\ IF srslte_tti_interval(tti, ra.backoff.start) >= ra.backoff.interval
     THEN Enters("RESOURCE_SELECTION") /\ ra' = [ra EXCEPT !.backoff = NoBackoff]
     ELSE UNCHANGED <<state, ra>>
  /\ UNCHANGED <<counter, preambles, macVars, phyVars, on_air, ordered, rrc>>

(* Mutant of step_contention_resolution(): the identity is saved again. *)
SavesId_again == mux.sent /\ ra.transmitted_crnti = None
SavesId == mux.sent /\ ra.transmitted_crnti = None /\ ra.transmitted_contention_id = None

(* A grant for the C-RNTI answers a Msg3 with a C-RNTI.  One with a CCCH   *)
(* SDU is answered by Msg4; here its identity is saved, once.              *)
step_contention_resolution ==
  LET crnti_msg == mux.sent /\ ra.transmitted_crnti # None
      won  == crnti_msg /\ ra.pdcch_to_crnti_received = "UL_GRANT"
  IN /\ state = "CONTENTION_RESOLUTION" /\ Enters(IF won THEN "COMPLETION" ELSE state)
     /\ timer' = IF won THEN -1 ELSE timer
     /\ ra' = [ra EXCEPT
          !.pdcch_to_crnti_received = IF crnti_msg THEN "NOT_RECEIVED" ELSE @,
          !.transmitted_contention_id = IF SavesId THEN rntis.contention_id ELSE @]
     /\ rntis' = [rntis EXCEPT !.temp_rnti = IF won THEN None ELSE @,
                               !.contention_id = IF SavesId THEN None ELSE @]
     /\ UNCHANGED <<counter, preambles, mux, ccch, phyVars, on_air, ordered, rrc>>

(* After the last step run_thread() lets the PHY look for the C-RNTI, once *)
(* per connection.                                                         *)
step_completition ==
  /\ state = "COMPLETION" /\ Enters("COMPLETION_DONE")
  /\ IF ra.msg3_flushed THEN UNCHANGED mux ELSE msg3_flush
  /\ ra' = [ra EXCEPT !.msg3_flushed = TRUE]
  /\ IF signals_pregenerated THEN UNCHANGED <<dl_rnti, ul_rnti>>
     ELSE dl_rnti' = Search("USER", rntis.crnti) /\ ul_rnti' = rntis.crnti
  /\ signals_pregenerated' = TRUE
  /\ UNCHANGED <<counter, preambles, rntis, timer, ccch, prach, rar_grant, on_air, ordered, rrc>>

(* In the other states, and while a response may come, nothing is done. *)
Closed ==
  /\ prach.tti >= 0 /\ ~ ra.rar_received
  /\ LET i == srslte_tti_interval(tti, prach.tti + 3 + ResponseWindow)
     IN i > 1 /\ i < GiveUpSpan
Over == state \in {"IDLE", "COMPLETION_DONE", "RA_PROBLEM"}
step_nothing ==
  /\ Over \/ state = "RESPONSE_RECEPTION"
  /\ UNCHANGED <<procVars, macVars, phyVars, on_air, ordered, rrc>>

-----------------------------------------------------------------------------
(***************************************************************************)
(* The MAC thread: an order of the SR procedure, a step, the timers.  The  *)
(* state that a step has tested may change before the step assigns it: the *)
(* end of the response window and the end of the contention timer are      *)
(* therefore two steps each.                                               *)
(***************************************************************************)
start_mac_order ==
  /\ mac_pc = "wait" /\ due > 0
  /\ \/ ccch # None /\ UNCHANGED orders
     \/ rrc = "connected" /\ Another
  /\ Over
  /\ state' = "INITIALIZATION"
  /\ due' = due - 1 /\ mac_pc' = "step"
  /\ UNCHANGED <<counter, preambles, ra, macVars, phyVars, workers, tti, rrc>>

MacStep ==
  /\ \/ mac_pc = "wait" /\ due > 0 /\ due' = due - 1
     \/ mac_pc = "step" /\ due' = due
  /\ \/ step_initialization \/ step_resource_selection \/ step_preamble_transmission
     \/ step_pdcch_setup \/ step_response_error \/ step_backoff_wait
     \/ step_contention_resolution \/ step_completition \/ step_nothing
  /\ mac_pc' = IF state = "RESPONSE_RECEPTION" /\ Closed THEN "give_up"
               ELSE IF timer' = -1 THEN "wait" ELSE "timers"
  /\ UNCHANGED <<rar_worker, msg4_worker, msg3_harq, tti, orders>>

step_response_reception ==
  /\ mac_pc = "give_up" /\ mac_pc' = "timers"
  /\ Enters("RESPONSE_ERROR")
  /\ UNCHANGED <<counter, preambles, ra, macVars, phyVars, workers, tti, due, rrc, orders>>

(* Mutant of timer::step(): the timer expires a TTI late. *)
is_expired_late == timer = ContentionTimeout
is_expired == timer = ContentionTimeout - 1       \* when it is stepped

step_all ==
  /\ mac_pc = "timers"
  /\ timer' = IF is_expired \/ timer = -1 THEN -1 ELSE timer + 1
  /\ mac_pc' = IF is_expired THEN "expired" ELSE "wait"
  /\ UNCHANGED <<procVars, rntis, mux, ccch, phyVars, workers, tti, due, rrc, orders>>

(* Mutant of timer_expired(): the attempt goes on. *)
timer_expired_stays ==
  /\ mac_pc = "expired" /\ mac_pc' = "wait"
  /\ rntis' = [rntis EXCEPT !.temp_rnti = None]
  /\ dl_rnti' = NoSearch
  /\ UNCHANGED <<procVars, timer, mux, ccch, ul_rnti, prach, rar_grant,
                 signals_pregenerated, workers, tti, due, rrc, orders>>

timer_expired ==
  /\ mac_pc = "expired" /\ mac_pc' = "wait"
  /\ rntis' = [rntis EXCEPT !.temp_rnti = None]
  /\ Enters("RESPONSE_ERROR")
  /\ dl_rnti' = NoSearch
  /\ UNCHANGED <<counter, preambles, ra, timer, mux, ccch, ul_rnti, prach, rar_grant,
                 signals_pregenerated, workers, tti, due, rrc, orders>>

-----------------------------------------------------------------------------
(***************************************************************************)
(* The PHY: the clock, the preamble, the response, Msg3 and Msg4.          *)
(***************************************************************************)
pending_rar == rar_grant >= 0 /\ tti >= rar_grant
Older(w) == [w EXCEPT !.age = IF w.busy THEN @ + 1 ELSE 0]
InTime(w) == w.busy => w.age < WorkerTime

(* The next subframe; is_ready_to_send() sends the preamble. *)
tti_clock ==
  /\ due < MaxLag /\ InTime(rar_worker) /\ InTime(msg4_worker) /\ ~ pending_rar
  /\ tti' = (tti + 1) % TtiMod /\ due' = due + 1
  /\ rar_worker' = Older(rar_worker) /\ msg4_worker' = Older(msg4_worker)
  /\ on_air' = [on_air EXCEPT !.age = IF on_air.id # None /\ @ < Msg4Delay THEN @ + 1 ELSE @]
  /\ LET at == (tti' + TxAdvance) % TtiMod
     IN prach' = IF prach.armed /\ at \in Opportunities
                 THEN [armed |-> FALSE, tti |-> at] ELSE prach
  /\ UNCHANGED <<procVars, macVars, dl_rnti, ul_rnti, rar_grant, signals_pregenerated,
                 mac_pc, msg3_harq, ordered, rrc, orders>>

(* new_grant_dl() for a response; one that is too long ends the attempt. *)
new_grant_rar ==
  /\ dl_rnti.type = "RAR" /\ dl_rnti_active /\ ~ rar_worker.busy
  /\ \/ rar_worker' = [busy |-> TRUE, with |-> tti, age |-> 0] /\ UNCHANGED state
     \/ Enters("RESPONSE_ERROR") /\ UNCHANGED rar_worker
  /\ UNCHANGED <<counter, preambles, ra, macVars, phyVars, msg4_worker, msg3_harq, on_air,
                 ordered, clock, rrc, orders>>

(* tb_decoded_ok() does not look at the state.  The base station gives out *)
(* an RNTI that it does not use.                                           *)
rar_decoded_ok ==
  /\ rar_worker.busy /\ rar_worker' = NoWorker
  /\ \E backoff \in BackoffParams \cup {0} :
       \/ \* for another preamble
          /\ ra' = [ra EXCEPT !.backoff_param = backoff]
          /\ UNCHANGED <<state, rntis, timer, mux, dl_rnti, ul_rnti, rar_grant>>
       \/ \E delay \in Msg3Delays :
            LET temp == Min(TempRnti \ {rntis.crnti, on_air.temp})
                crnti == rntis.crnti
                with_crnti == ra.first_rar_received /\ crnti # None
            IN /\ ra' = [ra EXCEPT
                     !.backoff_param = backoff, !.rar_received = TRUE,
                     !.first_rar_received = FALSE,
                     !.transmitted_crnti = IF ra.first_rar_received THEN crnti ELSE @]
               /\ rntis' = [rntis EXCEPT !.temp_rnti = temp]
               /\ rar_grant' = (rar_worker.with + delay) % TtiMod
               /\ dl_rnti' = IF with_crnti THEN Search("USER", crnti) ELSE Search("TEMP", temp)
               /\ ul_rnti' = IF with_crnti THEN crnti ELSE ul_rnti
               /\ mux' = [mux EXCEPT !.pending_crnti_ce = IF with_crnti THEN crnti ELSE @]
               /\ Enters("CONTENTION_RESOLUTION")
               /\ timer' = 0
  /\ UNCHANGED <<counter, preambles, ccch, prach, signals_pregenerated, msg4_worker,
                 msg3_harq, on_air, ordered, clock, rrc, orders>>

rar_lost ==
  /\ rar_worker.busy /\ rar_worker' = NoWorker
  /\ UNCHANGED <<procVars, macVars, phyVars, msg4_worker, msg3_harq, on_air>>
  /\ UNCHANGED <<ordered, clock, rrc, orders>>

(* Mutant of msg3_get(): the buffer is released when it is read. *)
msg3_get_release ==
  LET built == IF ccch # None THEN ccch
               ELSE IF mux.pending_crnti_ce # None THEN CrntiCe ELSE OtherPdu
      pdu == IF mux.msg3 = None THEN built ELSE mux.msg3
  IN /\ mux' = [msg3 |-> None, sent |-> TRUE,
                pending_crnti_ce |-> IF mux.msg3 = None THEN None ELSE mux.pending_crnti_ce]
     /\ ccch' = IF mux.msg3 = None THEN None ELSE ccch
     /\ on_air' = [id |-> pdu, temp |-> rntis.temp_rnti, age |-> 0]

(* The PDU that pdu_get() assembles stays in the Msg3 buffer. *)
msg3_get ==
  LET built == IF ccch # None THEN ccch
               ELSE IF mux.pending_crnti_ce # None THEN CrntiCe ELSE OtherPdu
      pdu == IF mux.msg3 = None THEN built ELSE mux.msg3
  IN /\ mux' = [msg3 |-> pdu, sent |-> TRUE,
                pending_crnti_ce |-> IF mux.msg3 = None THEN None ELSE mux.pending_crnti_ce]
     /\ ccch' = IF mux.msg3 = None THEN None ELSE ccch
     /\ on_air' = [id |-> pdu, temp |-> rntis.temp_rnti, age |-> 0]

(* The worker of this subframe finds the grant of the response.  In        *)
(* get_pending_rar() the test for the wrap compares a bool with 10235.     *)
get_pending_rar ==
  /\ pending_rar
  /\ rar_grant' = -1
  /\ msg3_get
  /\ msg3_harq' = MaxMsg3Tx - 1
  /\ UNCHANGED <<procVars, rntis, timer, dl_rnti, ul_rnti, prach, signals_pregenerated,
                 rar_worker, msg4_worker, ordered, clock, rrc, orders>>

(* A Msg3 that is not acknowledged is sent again: harq_retx(). *)
harq_retx ==
  /\ msg3_harq > 0 /\ msg3_harq' = msg3_harq - 1
  /\ timer' = IF state = "CONTENTION_RESOLUTION" THEN Restarted ELSE timer
  /\ UNCHANGED <<procVars, rntis, mux, ccch, phyVars, rar_worker, msg4_worker>>
  /\ UNCHANGED <<on_air, ordered, clock, rrc, orders>>

(* A grant for the C-RNTI is noted in pdcch_to_crnti() while it matters. *)
pdcch_to_crnti ==
  /\ state = "CONTENTION_RESOLUTION"
  /\ \/ /\ ul_rnti # None
        /\ ra' = [ra EXCEPT !.pdcch_to_crnti_received = "UL_GRANT"]
     \/ /\ dl_rnti.type = "USER" /\ dl_rnti.rnti # None
        /\ ra' = [ra EXCEPT !.pdcch_to_crnti_received =
                              IF @ = "NOT_RECEIVED" THEN "DL_GRANT" ELSE @]
  /\ UNCHANGED <<state, counter, preambles, macVars, phyVars, workers, clock, rrc, orders>>

(* The base station acknowledges a Msg3 and answers it, once: the Msg3 of  *)
(* this UE, or that of another one that was sent with the same grant.      *)
new_grant_msg4 ==
  /\ dl_rnti.type = "TEMP" /\ dl_rnti.rnti = on_air.temp /\ ~ msg4_worker.busy
  /\ on_air.age = Msg4Delay
  /\ \E id \in {OtherId, on_air.id} \cap {OtherId, OwnId} :
       msg4_worker' = [busy |-> TRUE, with |-> id, age |-> 0]
  /\ on_air' = [on_air EXCEPT !.age = Msg4Delay + 1] /\ msg3_harq' = 0
  /\ UNCHANGED <<procVars, macVars, phyVars, rar_worker, ordered, clock, rrc, orders>>

(* Msg4 is decoded, or it is not. *)
contention_resolution_id_received ==
  /\ msg4_worker.busy /\ msg4_worker' = NoWorker
  /\ \/ LET match == ra.transmitted_contention_id = msg4_worker.with
        IN /\ timer' = -1
           /\ rntis' = [rntis EXCEPT !.crnti = IF match THEN rntis.temp_rnti ELSE @,
                                     !.temp_rnti = None]
           /\ Enters(IF match THEN "COMPLETION" ELSE "RESPONSE_ERROR")
     \/ UNCHANGED <<timer, rntis, state>>
  /\ UNCHANGED <<counter, preambles, ra, mux, ccch, phyVars, rar_worker, msg3_harq, on_air,
                 ordered, clock, rrc, orders>>

-----------------------------------------------------------------------------
MacThread == start_mac_order \/ MacStep \/ step_response_reception \/ step_all \/ timer_expired
RaWorkers == rar_decoded_ok \/ rar_lost \/ get_pending_rar \/ contention_resolution_id_received
RaNext ==
  \/ SendConRequest \/ ConSetup \/ RrcReleases
  \/ MacThread \/ tti_clock \/ RaWorkers
  \/ new_grant_rar \/ harq_retx \/ pdcch_to_crnti \/ new_grant_msg4

(* Subframes come, the MAC thread runs for each and the workers finish.    *)
(* Nothing is assumed of the base station or of RRC.                       *)
RaFairness == WF_raVars(tti_clock) /\ WF_raVars(MacThread) /\ WF_raVars(RaWorkers)
RaSpec == (RaInit \/ RaConnected) /\ [][RaNext]_raVars /\ RaFairness

-----------------------------------------------------------------------------
(* A procedure sends no more than preambleTransMax preambles, whatever     *)
(* responses and timers end its attempts (step_response_error()).          *)
PreamblesBounded == preambles <= PreambleTransMax

(* Every Msg3 of one procedure has the same content, however often a       *)
(* response asks for it (msg3_get() and the Msg3 buffer), until the        *)
(* procedure has succeeded and the buffer was flushed.                     *)
Msg3IsRepeated ==
  [][state = "CONTENTION_RESOLUTION" /\ ~ ra.msg3_flushed /\ on_air.id # None /\ on_air'.id # None
       => on_air'.id = on_air.id]_raVars

(* A Msg4 with the identity that this UE has sent ends the procedure, even *)
(* when it answers the Msg3 of a later attempt.  A response that is late   *)
(* and comes after a reset starts a procedure nobody ordered: for that one *)
(* it does not hold.                                                       *)
OwnIdRecognised ==
  [][ordered /\ msg4_worker.busy /\ msg4_worker.with = OwnId /\ state = "CONTENTION_RESOLUTION"
       => state' # "RESPONSE_ERROR" \/ mac_pc # mac_pc']_raVars

(* A procedure that was started ends, with success or with a problem.      *)
RaEnds == ~ Over ~> Over

=============================================================================
