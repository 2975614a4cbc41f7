----------------------------- MODULE RlcAmLink -----------------------------
(***************************************************************************)
(* One direction of an acknowledged-mode bearer: the sending half of one   *)
(* entity, the receiving half of its peer, and the two MACs between them.  *)
(* HARQ processes finish in any order, so data PDUs may be lost and may    *)
(* overtake one another; status reports may be lost, and overtake one      *)
(* another when ReorderStatus is TRUE.                                     *)
(***************************************************************************)
EXTENDS RlcAmRx, RlcAmTx

CONSTANTS ReorderStatus,
          MaxStatus       \* bound: status reports between the MACs

VARIABLE status_ch        \* status reports on their way to the sender

linkVars == <<rxVars, txVars, status_ch>>

LinkInit == RxInit /\ TxInit /\ status_ch = << >>

(* No PDU is still under way when its sequence number could be taken for   *)
(* that of a later one (HARQ gives up after tens of milliseconds).         *)
Lifetime == \A pdu \in data_ch' : built' <= pdu.pl + MOD - WINDOW

Send == /\ TxStep /\ Lifetime
        /\ UNCHANGED <<rxVars, status_ch>>

LoseData == /\ PduLeaves
            /\ UNCHANGED <<rxVars, status_ch>>

Receive ==
  /\ ~ tx_ub
  /\ \E pdu \in data_ch :
       /\ data_ch' = data_ch \ {pdu}
       /\ IF pdu.rf
          THEN WriteSegment(pdu.sn, [so |-> pdu.so, len |-> pdu.len, pl |-> pdu.pl], pdu.p)
          ELSE WriteDataPdu(pdu.sn, pdu.pl, pdu.p)
  /\ UNCHANGED <<txWindowVars, retx_queue, txPollVars, tx_sdus, tx_opportunity,
                 tx_ub, built, status_ch>>

(* Everything the receiving half does on its own; the report that          *)
(* build_status_pdu() writes enters the channel.                           *)
Report ==
  /\ ~ tx_ub
  /\ \/ /\ Len(status_ch) < MaxStatus
        /\ build_status_pdu(TRUE)
        /\ status_ch' = Append(status_ch, status)
     \/ /\ \/ \E mux \in BOOLEAN : get_buffer_state(mux)
           \/ build_status_pdu(FALSE) \/ ReadOwnData
           \/ ReorderingExpires \/ ProhibitExpires
        /\ UNCHANGED status_ch
  /\ UNCHANGED txVars

LoseStatus == /\ ~ tx_ub
              /\ \E i \in 1 .. Len(status_ch) : status_ch' = RemoveAt(status_ch, i)
              /\ UNCHANGED <<rxVars, txVars>>

ReceiveStatus ==
  /\ ~ tx_ub
  /\ \E i \in 1 .. Len(status_ch) :
       /\ i = 1 \/ ReorderStatus
       /\ status_ch' = RemoveAt(status_ch, i)
       /\ handle_control_pdu(status_ch[i].ack_sn,
                             [sn \in status_ch[i].nacks |-> Whole])
  /\ UNCHANGED <<rxVars, data_ch>>

LinkNext == Send \/ LoseData \/ Receive \/ Report \/ LoseStatus \/ ReceiveStatus

LinkSpec == LinkInit /\ [][LinkNext]_linkVars

-----------------------------------------------------------------------------
Service == INSTANCE RlcAmService WITH
             submitted <- built, delivered <- delivered,
             confirmed <- built - in_flight

(* The bearer implements the service: whatever is lost, delayed, repeated  *)
(* or resegmented, PDUs are delivered once each and in order, and          *)
(* handle_control_pdu() deallocates only what the peer has delivered.      *)
LinkImplementsService == Service!ServiceSpec

(* The two windows never drift apart: the receiver's window starts between *)
(* the sender's acknowledged and next sequence numbers, and no PDU is held *)
(* under a sequence number the sender would use for another.               *)
WindowsAgree ==
  /\ built - in_flight <= Len(delivered) /\ Len(delivered) <= built
  /\ vr_r = Len(delivered) % MOD /\ vt_s = built % MOD
  /\ \A sn \in DOMAIN rx_window :
       /\ rx_window[sn] = Len(delivered) + Dist(sn, vr_r)
       /\ rx_window[sn] < built

(* rlc_am.cc:912: ACKed SNs are removed from tx_window, so what has been   *)
(* removed has been received.                                              *)
ReleasedIsReceived == built - in_flight <= Len(delivered)

(* rlc_am.cc:813: stored segments are of the same PDU as the one that      *)
(* arrives, so no PDU is put together from two.                            *)
SegmentsOfOnePdu == \A i \in 1 .. Len(delivered) : delivered[i] # Mixed
=============================================================================
