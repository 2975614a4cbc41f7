------------------------------- MODULE MacUl -------------------------------
(***************************************************************************)
(* Uplink scheduling: buffer status reports (proc_bsr.cc), scheduling      *)
(* requests (proc_sr.cc), the multiplexer (mux.cc) and a HARQ process      *)
(* (ul_harq.cc).  The MAC thread steps the procedures once per TTI while   *)
(* PHY workers take PDUs from the multiplexer; what they share             *)
(* (triggered_bsr_type, sr_is_sent, reset_sr, sr_last_tx_tti) has no lock. *)
(* Data is counted in units; a report takes one unit of a grant.  RRC has  *)
(* configured requests and both timers of the reports; the periodic timer  *)
(* is not counted and may expire in any TTI.                               *)
(***************************************************************************)
EXTENDS Integers, FiniteSets, FiniteSetsExt

CONSTANTS
  UlTtiMod,        \* the TTI counter wraps here; 10240 in the code
  TxDelay,         \* from a grant to its transmission; 4 in the code
  SrTtis,          \* the subframes in which the UE may send a request
  DsrTransMax,     \* dsr_transmax
  MaxRetx,         \* max_harq_tx
  RetxTimeout,     \* retx_bsr_timer
  Lcids,           \* the priorities of the logical channels
  GrantSizes,      \* units that a grant has room for
  SduSize,         \* units of an SDU
  MaxSdus,         \* SDUs that RLC gets to send
  MaxLosses        \* requests and transmissions the base station misses

ASSUME UlAssumption ==
  /\ UlTtiMod \in Nat /\ TxDelay \in Nat \ {0} /\ UlTtiMod > 4 * TxDelay
  /\ SrTtis \subseteq 0 .. UlTtiMod - 1
  /\ Lcids \subseteq Nat \ {0} /\ GrantSizes \subseteq Nat \ {0, 1}
  /\ {DsrTransMax, SduSize, MaxSdus} \subseteq Nat /\ {MaxRetx, RetxTimeout} \subseteq Nat \ {0}

BsrType == {"NONE", "REGULAR", "PADDING", "PERIODIC"}

MaxArrivals == MaxSdus * SduSize

VARIABLES
  buf,             \* rlc->get_buffer_state() of every channel
  last_pending_data,
  bsr,             \* triggered_bsr_type, sr_is_sent, reset_sr, next_tx_tti
  retx,            \* BSR_TIMER_RETX, -1 when it is stopped
  sr,              \* is_pending_sr and sr_counter
  phy_sr,          \* sr_enabled and sr_last_tx_tti
  harq,            \* current_tx_nb, pid_has_bsr, and what the PDU tells
  sr_ra,           \* a random access is in progress
  enb,             \* the base station believes that data waits
  ul_tti, ul_pc, arrivals, losses

macUlVars == <<last_pending_data, bsr, retx, sr, sr_ra>>
ulVars == <<buf, macUlVars, phy_sr, harq, enb, ul_tti, ul_pc, arrivals, losses>>

Total(b) == Cardinality(UNION {{l} \X (1 .. b[l]) : l \in Lcids})
NoPdu == [busy |-> FALSE, nb |-> 0, has_bsr |-> FALSE, more |-> FALSE]

UlTypeOK ==
  /\ buf \in [Lcids -> 0 .. MaxArrivals] /\ last_pending_data \in [Lcids -> 0 .. MaxArrivals]
  /\ bsr \in [type : BsrType, sr_is_sent : BOOLEAN, reset_sr : BOOLEAN,
              next_tx_tti : 0 .. UlTtiMod - 1]
  /\ retx \in -1 .. RetxTimeout - 1 /\ sr_ra \in BOOLEAN
  /\ sr \in [pending : BOOLEAN, counter : 0 .. DsrTransMax]
  /\ phy_sr \in [enabled : BOOLEAN, last : -1 .. UlTtiMod - 1]
  /\ harq \in [busy : BOOLEAN, nb : 0 .. MaxRetx, has_bsr : BOOLEAN, more : BOOLEAN]
  /\ enb \in BOOLEAN
  /\ ul_tti \in 0 .. UlTtiMod - 1
  /\ ul_pc \in {"wait", "sr_test", "sr_start", "sr_step", "sr_sent"}

UlInit ==
  /\ buf = [l \in Lcids |-> 0] /\ last_pending_data = buf
  /\ bsr = [type |-> "NONE", sr_is_sent |-> FALSE, reset_sr |-> FALSE, next_tx_tti |-> 0]
  /\ retx = 0 /\ sr_ra = FALSE
  /\ sr = [pending |-> FALSE, counter |-> 0]
  /\ phy_sr = [enabled |-> FALSE, last |-> -1]
  /\ harq = NoPdu /\ enb = FALSE
  /\ ul_tti = 1 /\ ul_pc = "wait" /\ arrivals = 0 /\ losses = 0

(* RLC has an SDU for a logical channel. *)
write_sdu(l) ==
  /\ arrivals < MaxSdus /\ arrivals' = arrivals + 1
  /\ buf' = [buf EXCEPT ![l] = @ + SduSize]
  /\ UNCHANGED <<macUlVars, phy_sr, harq, enb, ul_tti, ul_pc, losses>>

-----------------------------------------------------------------------------
(***************************************************************************)
(* The MAC thread, in the order of mac::run_thread().                      *)
(***************************************************************************)
Goes(a, b) == ul_pc = a /\ ul_pc' = b
WithData == {l \in Lcids : buf[l] > 0}
NewData(l) == buf[l] > last_pending_data[l]

(* The channel with the highest number counts as the most important one,   *)
(* although the multiplexer serves the lowest number first.                *)
check_single_channel(b) == b.type = "NONE" /\ \E l \in Lcids : WithData = {l} /\ NewData(l)
check_highest_channel == WithData # {} /\ NewData(Max(WithData))
bsr_step(b) ==
  [b EXCEPT !.type = IF check_single_channel(b) \/ check_highest_channel THEN "REGULAR" ELSE @]

timer_expired_retx(b) == [b EXCEPT !.type = "REGULAR", !.sr_is_sent = FALSE]
timer_expired_periodic(b) == [b EXCEPT !.type = IF @ = "NONE" THEN "PERIODIC" ELSE @]

(* What step_all() of the timers makes of the report. *)
bsr_timers(b) ==
  LET c == IF retx = RetxTimeout - 1 THEN timer_expired_retx(b) ELSE b
  IN {c, timer_expired_periodic(c)}

tti_interval(a, b) == IF a > b THEN a - b ELSE (UlTtiMod - b) + a

(* need_to_send_sr() tests what a worker may change before it assigns. *)
need_to_send_sr ==
  LET i == tti_interval(ul_tti, bsr.next_tx_tti)
  IN /\ ul_pc = "sr_test"
     /\ ul_pc' = IF ~ bsr.sr_is_sent /\ bsr.type = "REGULAR" /\ i > 0 /\ i < UlTtiMod - TxDelay
                  THEN "sr_start" ELSE "sr_step"
     /\ UNCHANGED <<buf, macUlVars, phy_sr, harq, enb, ul_tti, arrivals, losses>>

sr_start ==
  /\ Goes("sr_start", "sr_step")
  /\ bsr' = [bsr EXCEPT !.sr_is_sent = TRUE, !.reset_sr = FALSE]
  /\ sr' = IF sr.pending THEN sr ELSE [sr EXCEPT !.pending = TRUE, !.counter = 0]
  /\ UNCHANGED <<buf, last_pending_data, retx, sr_ra, phy_sr, harq, enb, ul_tti, arrivals, losses>>

(* need_tx(): the last request is old, by a test that misses some wraps. *)
need_tx ==
  /\ phy_sr.last >= 0
  /\ IF ul_tti > phy_sr.last THEN ul_tti - phy_sr.last > 2 * TxDelay
     ELSE (UlTtiMod - phy_sr.last) + ul_tti > 2 * TxDelay /\ ul_tti < 2 * TxDelay

need_to_reset_sr ==
  bsr' = IF bsr.reset_sr THEN [bsr EXCEPT !.reset_sr = FALSE, !.sr_is_sent = FALSE] ELSE bsr

(* Mutant of step(): one request too many. *)
Signals_late == sr.counter <= DsrTransMax /\ (sr.counter = 0 \/ need_tx)
Signals == sr.counter < DsrTransMax /\ (sr.counter = 0 \/ need_tx)

(* Mutant of step(): the random access waits for one more request. *)
Exhausted_late == sr.counter > DsrTransMax /\ need_tx
Exhausted == sr.counter >= DsrTransMax /\ need_tx

(* need_to_reset_sr() and sr_proc::step().  sr_send() of the PHY has two   *)
(* assignments, and a worker may come between them.  release_pucch_srs()   *)
(* leaves mac_cfg->sr and the subframes of the requests as they are.  An   *)
(* order for a random access that comes during one is dropped.             *)
sr_step ==
  LET pending == sr.pending /\ ~ bsr.reset_sr
      send == pending /\ Signals
      do_ra == pending /\ Exhausted
  IN /\ ul_pc = "sr_step" /\ ul_pc' = IF send THEN "sr_sent" ELSE "wait"
     /\ need_to_reset_sr
     /\ sr' = [pending |-> pending /\ ~ do_ra,
               counter |-> IF send THEN sr.counter + 1 ELSE sr.counter]
     /\ phy_sr' = IF send THEN [phy_sr EXCEPT !.enabled = TRUE] ELSE phy_sr
     /\ sr_ra' = (sr_ra \/ do_ra)
     /\ UNCHANGED <<buf, last_pending_data, retx, harq, enb, ul_tti, arrivals, losses>>

sr_send ==
  /\ Goes("sr_sent", "wait")
  /\ phy_sr' = [phy_sr EXCEPT !.last = -1]
  /\ UNCHANGED <<buf, macUlVars, harq, enb, ul_tti, arrivals, losses>>

-----------------------------------------------------------------------------
(***************************************************************************)
(* The workers: the subframe with a request, grants and HARQ.              *)
(***************************************************************************)

(* The base station has a request, or misses it. *)
Requested ==
  \/ enb' = TRUE /\ UNCHANGED losses
  \/ losses < MaxLosses /\ losses' = losses + 1 /\ UNCHANGED enb

set_uci_sr(now) ==
  LET at == (now + TxDelay) % UlTtiMod
  IN IF phy_sr.enabled /\ at \in SrTtis
     THEN phy_sr' = [enabled |-> FALSE, last |-> at] /\ Requested
     ELSE UNCHANGED <<phy_sr, enb, losses>>

(* The timers of the last subframe, then the next one. *)
ul_tti_clock ==
  /\ Goes("wait", "sr_test")
  /\ ul_tti' = (ul_tti + 1) % UlTtiMod
  /\ set_uci_sr((ul_tti + 1) % UlTtiMod)
  /\ \E b \in bsr_timers(bsr) : bsr' = bsr_step(b)
  /\ last_pending_data' = buf
  /\ retx' = IF retx \in {-1, RetxTimeout - 1} THEN -1 ELSE retx + 1
  /\ UNCHANGED <<buf, sr, sr_ra, harq, arrivals>>

(* The worker comes between the two assignments of sr_send(). *)
late_worker ==
  /\ ul_pc = "sr_sent" /\ set_uci_sr(ul_tti)
  /\ UNCHANGED <<buf, macUlVars, harq, ul_tti, ul_pc, arrivals>>

(* What pdu_get() takes from the channels: as much as the grant has room   *)
(* for.  The bit rates PBR and the buckets Bj, which are not modelled,     *)
(* decide between channels, so any division is allowed.                    *)
Allocations(room) ==
  {s \in [Lcids -> 0 .. room] :
     Total(s) = Min({room, Total(buf)}) /\ \A l \in Lcids : s[l] <= buf[l]}

(* Mutant of need_to_send_bsr_on_ul_grant(): only a report that is sent    *)
(* restarts the timer. *)
restart_retx_on_report(has_bsr) == IF has_bsr THEN 0 ELSE retx
restart_retx(has_bsr) == 0

(* need_to_send_bsr_on_ul_grant(), the data, generate_padding_bsr().  A    *)
(* triggered report is cancelled also when it is left out.                 *)
pdu_get(size) ==
  LET total == Total(buf)
      fits == total <= size /\ total + 1 > size
      regular == bsr.type \in {"REGULAR", "PERIODIC"} /\ ~ fits
      room == IF regular THEN size - 1 ELSE size
      padding == ~ regular /\ total < size
      has_bsr == regular \/ padding
  IN /\ \E sent \in Allocations(room) : buf' = [l \in Lcids |-> buf[l] - sent[l]]
     /\ bsr' = [bsr EXCEPT !.type = IF padding THEN "PADDING" ELSE "NONE",
                           !.reset_sr = TRUE,
                           !.next_tx_tti = IF has_bsr THEN (ul_tti + TxDelay) % UlTtiMod ELSE @]
     /\ retx' = restart_retx(has_bsr)
     /\ harq' = [busy |-> TRUE, nb |-> 0, has_bsr |-> has_bsr,
                 more |-> has_bsr /\ total > room]

(* A grant, which the base station gives while it believes data waits. *)
new_grant_ul ==
  /\ enb /\ ~ harq.busy
  /\ \E size \in GrantSizes : pdu_get(size)
  /\ enb' = FALSE
  /\ UNCHANGED <<last_pending_data, sr, sr_ra, phy_sr, ul_tti, ul_pc, arrivals, losses>>

(* The PDU is decoded; a report of more data asks for a grant. *)
harq_ack ==
  /\ harq.busy /\ harq' = NoPdu
  /\ enb' = (enb \/ harq.more)
  /\ UNCHANGED <<buf, macUlVars, phy_sr, ul_tti, ul_pc, arrivals, losses>>

(* It is not, and is sent again: generate_retx(), pusch_retx().  The last  *)
(* transmission is not acknowledged any more, whether it is decoded or not.*)
harq_nack ==
  LET last == harq.nb + 1 >= MaxRetx
  IN /\ harq.busy /\ losses < MaxLosses /\ losses' = losses + 1
     /\ harq' = IF last THEN NoPdu ELSE [harq EXCEPT !.nb = @ + 1]
     /\ bsr' = IF harq.has_bsr
               THEN [bsr EXCEPT !.next_tx_tti = (ul_tti + TxDelay) % UlTtiMod] ELSE bsr
     /\ enb' \in {enb, enb \/ (last /\ harq.more)}
     /\ UNCHANGED <<buf, last_pending_data, retx, sr, sr_ra, phy_sr, ul_tti, ul_pc, arrivals>>

(* The random access ends with a grant. *)
sr_ra_completed ==
  /\ sr_ra /\ sr_ra' = FALSE
  /\ enb' = TRUE
  /\ UNCHANGED <<buf, last_pending_data, bsr, retx, sr, phy_sr, harq>>
  /\ UNCHANGED <<ul_tti, ul_pc, arrivals, losses>>

-----------------------------------------------------------------------------
UlThread ==
  \/ ul_tti_clock \/ need_to_send_sr \/ sr_start \/ sr_step \/ sr_send
UlNext ==
  \/ UlThread \/ late_worker
  \/ (\E l \in Lcids : write_sdu(l))
  \/ new_grant_ul \/ harq_ack \/ harq_nack \/ sr_ra_completed

(* Subframes come and the MAC thread runs; the base station serves what it *)
(* believes in, decodes a PDU that is sent often enough and ends a random  *)
(* access.                                                                 *)
BaseStation == new_grant_ul \/ harq_ack \/ sr_ra_completed
UlFairness == WF_ulVars(UlThread) /\ WF_ulVars(BaseStation)
UlSpec == UlInit /\ [][UlNext]_ulVars /\ UlFairness

(* sr_proc::step() waits for a request that it takes for not sent yet: a   *)
(* worker came between the assignments of sr_send(), or the request went   *)
(* out in the last subframe before the wrap, which need_tx() misses.       *)
SrForgotten ==
  /\ sr.pending /\ sr.counter > 0 /\ ~ phy_sr.enabled
  /\ phy_sr.last \in {-1, UlTtiMod - 1}

(* Data that RLC has to send is sent, although requests and reports get    *)
(* lost, the base station is slow to answer, and workers cancel reports    *)
(* while the MAC thread is about to ask for a grant; unless a request      *)
(* stays forgotten.                                                        *)
DataServed == ([]<> ~ SrForgotten) => (WithData # {} ~> WithData = {})

(* A report is never given up: unless one is triggered for which a request *)
(* may be sent, the timer runs that triggers one.                          *)
ReportGuarded == retx >= 0 \/ bsr.type = "REGULAR"

=============================================================================
