------------------------------ MODULE RlcAmTx ------------------------------
(***************************************************************************)
(* The sending half of an acknowledged-mode RLC entity, rlc_am.cc: the     *)
(* transmit window, the retransmission queue, resegmentation and polling.  *)
(* SDU data is counted in the PDUs it fills.  Not kept, because no code    *)
(* reads it: poll_sn, is_acked and retx_count (rrc::max_retx_attempted()   *)
(* only logs).                                                             *)
(***************************************************************************)
EXTENDS RlcSn, FiniteSetsExt, Functions

CONSTANTS
  PollPdu,     \* poll_pdu, 0 for infinity
  PollByte,    \* poll_byte, 0 for infinity
  MaxPdus,     \* bound: data PDUs built
  MaxSdus,     \* bound: SDUs queued
  MaxInFlight, \* bound: PDUs between vt_a and vt_s; the code has none
  MaxAir       \* bound: PDUs between the MACs at a time

VARIABLES
  vt_a,        \* low edge of the transmit window, the next SN to be ACKed
  vt_ms,       \* high edge of the transmit window
  vt_s,        \* the SN of the next data PDU
  tx_window,   \* SN -> content of the PDUs that are not ACKed
  retx_queue,  \* what has been NACKed: SN and range of bytes
  pdu_without_poll, poll_retx_timeout,
  tx_sdus,     \* data of tx_sdu and tx_sdu_queue
  tx_opportunity,  \* the MAC got a non-zero buffer state and will call read_pdu
  tx_ub,       \* retx_queue.front() was called on an empty queue
  built,       \* number of data PDUs built; a PDU's content is its number
  data_ch      \* PDUs given to the MAC, neither received nor lost yet

txWindowVars == <<vt_a, vt_ms, vt_s, tx_window>>
txPollVars   == <<pdu_without_poll, poll_retx_timeout>>
txVars == <<txWindowVars, retx_queue, txPollVars, tx_sdus, tx_opportunity,
            tx_ub, built, data_ch>>

Retx == [sn : SN, is_segment : BOOLEAN, so_start : 0 .. PduLen - 1, so_end : 1 .. PduLen]
Pdu  == [sn : SN, pl : Nat, p : BOOLEAN, rf : BOOLEAN,
         so : 0 .. PduLen - 1, len : 1 .. PduLen]

TxTypeOK ==
  /\ {vt_a, vt_ms, vt_s} \subseteq SN
  /\ DOMAIN tx_window \subseteq SN /\ Range(tx_window) \subseteq Nat
  /\ retx_queue \in Seq(Retx)
  /\ pdu_without_poll \in Nat /\ poll_retx_timeout \in Timeout
  /\ tx_sdus \in Nat /\ built \in Nat
  /\ tx_opportunity \in BOOLEAN /\ tx_ub \in BOOLEAN
  /\ data_ch \subseteq Pdu

TxInit ==
  /\ vt_a = 0 /\ vt_ms = WINDOW /\ vt_s = 0
  /\ tx_window = << >> /\ retx_queue = << >>
  /\ pdu_without_poll = 0 /\ poll_retx_timeout = "stopped"
  /\ tx_sdus = 0 /\ built = 0
  /\ tx_opportunity = FALSE /\ tx_ub = FALSE /\ data_ch = {}

(* Sequence numbers sent and not ACKed. *)
in_flight == Dist(vt_s, vt_a)

-----------------------------------------------------------------------------
write_sdu ==
  /\ built + tx_sdus < MaxPdus /\ tx_sdus < MaxSdus
  /\ tx_sdus' = tx_sdus + 1
  /\ UNCHANGED <<txWindowVars, retx_queue, txPollVars, tx_opportunity, tx_ub,
                 built, data_ch>>

(* get_buffer_state(), asked by the multiplexer. *)
tx_get_buffer_state ==
  /\ tx_opportunity' = \/ tx_sdus > 0
                       \/ retx_queue # << >> /\ Head(retx_queue).sn \in DOMAIN tx_window
  /\ UNCHANGED <<txWindowVars, retx_queue, txPollVars, tx_sdus, tx_ub, built,
                 data_ch>>

(* n is pdu_without_poll; byte_without_poll is n times the length of a PDU *)
(* with its fixed header of two bytes.                                     *)
poll_required(n) ==
  \/ PollPdu > 0 /\ n > PollPdu
  \/ PollByte > 0 /\ n * (PduLen + 2) > PollByte
  \/ poll_retx_timeout = "expired"

set_poll(n) ==
  IF poll_required(n)
  THEN pdu_without_poll' = 0 /\ poll_retx_timeout' = "running"
  ELSE pdu_without_poll' = n /\ UNCHANGED poll_retx_timeout

transmit(sn, pl, p, rf, so, len) ==
  data_ch' = data_ch \cup
    {[sn |-> sn, pl |-> pl, p |-> p, rf |-> rf, so |-> so, len |-> len]}

(* space is what the grant leaves for data: 0 when it cannot hold more     *)
(* than the header.  A grant for new data holds a whole PDU here.          *)
build_data_pdu(space) ==
  /\ IF tx_sdus = 0 \/ space = 0
     THEN UNCHANGED <<txWindowVars, txPollVars, tx_sdus, built, data_ch>>
     ELSE /\ space = PduLen /\ in_flight < MaxInFlight
          /\ set_poll(pdu_without_poll + 1)
          /\ transmit(vt_s, built, poll_required(pdu_without_poll + 1), FALSE, 0, PduLen)
          /\ tx_window' = [s \in DOMAIN tx_window \cup {vt_s} |->
                             IF s = vt_s THEN built ELSE tx_window[s]]
          /\ vt_s' = Plus(vt_s, 1)
          /\ tx_sdus' = tx_sdus - 1 /\ built' = built + 1
          /\ UNCHANGED <<vt_a, vt_ms>>
  /\ UNCHANGED <<retx_queue, tx_ub>>

(* Mutant of build_segment(): a rest that is empty stays in the queue. *)
build_segment_keeps_empty_rest(space, q) ==
  LET retx == Head(q)
      end  == IF space < retx.so_end - retx.so_start
              THEN retx.so_start + space ELSE retx.so_end
  IN /\ IF space = 0
        THEN retx_queue' = q /\ UNCHANGED data_ch
        ELSE /\ transmit(retx.sn, tx_window[retx.sn], FALSE, TRUE, retx.so_start,
                         end - retx.so_start)
             /\ retx_queue' = <<[retx EXCEPT !.is_segment = TRUE,
                                             !.so_start = end]>> \o Tail(q)
     /\ UNCHANGED txPollVars

(* Mutant of build_segment(): the rest of the PDU is forgotten. *)
build_segment_drops_rest(space, q) ==
  LET retx == Head(q)
      end  == IF space < retx.so_end - retx.so_start
              THEN retx.so_start + space ELSE retx.so_end
  IN /\ IF space = 0
        THEN retx_queue' = q /\ UNCHANGED data_ch
        ELSE /\ transmit(retx.sn, tx_window[retx.sn], FALSE, TRUE, retx.so_start,
                         end - retx.so_start)
             /\ retx_queue' = Tail(q)
     /\ UNCHANGED txPollVars

(* The front of q does not fit, or is a segment already: send as much of   *)
(* it as fits, without a poll, and keep the rest at the front.             *)
build_segment(space, q) ==
  LET retx == Head(q)
      end  == IF space < retx.so_end - retx.so_start
              THEN retx.so_start + space ELSE retx.so_end
  IN /\ IF space = 0
        THEN retx_queue' = q /\ UNCHANGED data_ch
        ELSE /\ transmit(retx.sn, tx_window[retx.sn], FALSE, TRUE, retx.so_start,
                         end - retx.so_start)
             /\ retx_queue' = IF end = PduLen \/ end = retx.so_end THEN Tail(q)
                              ELSE <<[retx EXCEPT !.is_segment = TRUE,
                                                  !.so_start = end]>> \o Tail(q)
     /\ UNCHANGED txPollVars

(* Entries that are no longer in tx_window are dropped first.  When that   *)
(* empties the queue the code still reads its front: undefined behaviour.  *)
build_retx_pdu(space) ==
  LET live == {i \in 1 .. Len(retx_queue) : retx_queue[i].sn \in DOMAIN tx_window}
  IN /\ IF live = {}
        THEN tx_ub' = TRUE /\ UNCHANGED <<retx_queue, txPollVars, data_ch>>
        ELSE LET q == SubSeq(retx_queue, Min(live), Len(retx_queue))
                 retx == Head(q)
             IN /\ IF retx.is_segment \/ space < PduLen
                   THEN build_segment(space, q)
                   ELSE /\ set_poll(pdu_without_poll)
                        /\ transmit(retx.sn, tx_window[retx.sn],
                                    poll_required(pdu_without_poll), FALSE, 0, PduLen)
                        /\ retx_queue' = Tail(q)
                /\ UNCHANGED tx_ub
     /\ UNCHANGED <<txWindowVars, tx_sdus, built>>

(* read_pdu() when no status report is due. *)
read_pdu(space) ==
  /\ Cardinality(data_ch) < MaxAir
  /\ tx_opportunity /\ tx_opportunity' = FALSE
  /\ IF retx_queue # << >> THEN build_retx_pdu(space) ELSE build_data_pdu(space)

(* Mutant of retx_queue_has_sn(): every NACK is queued. *)
retx_queue_has_sn_never(sn) == FALSE

retx_queue_has_sn(sn) == \E i \in 1 .. Len(retx_queue) : retx_queue[i].sn = sn

(* Mutant of released(): NACKs do not hold the window back. *)
released_past_nacks(span, nacks, n) == n = span

(* n PDUs at the low edge of the window are acknowledged: up to the first  *)
(* that is NACKed.                                                         *)
released(span, nacks, n) ==
  /\ \A i \in 0 .. n - 1 : Plus(vt_a, i) \notin DOMAIN nacks
  /\ n = span \/ Plus(vt_a, n) \in DOMAIN nacks

(* A status report: ack_sn, and for every NACKed SN the range of its first *)
(* NACK (a second one finds the SN in retx_queue and is ignored).  sns are *)
(* the NACKed ones in the order in which the loop meets them.              *)
handle_control_pdu(ack_sn, nacks) ==
  LET span == Min({Dist(ack_sn, vt_a), in_flight})
      queued == {sn \in Run(vt_a, span) \cap DOMAIN nacks \cap DOMAIN tx_window :
                   ~ retx_queue_has_sn(sn)}
  IN \E n \in 0 .. span, sns \in [1 .. Cardinality(queued) -> queued] :
       /\ \A i, j \in DOMAIN sns : i < j => Dist(sns[i], vt_a) < Dist(sns[j], vt_a)
       /\ released(span, nacks, n)
       /\ tx_window' = [s \in DOMAIN tx_window \ Run(vt_a, n) |-> tx_window[s]]
       /\ vt_a' = Plus(vt_a, n) /\ vt_ms' = Plus(vt_ms, n)
       /\ retx_queue' = retx_queue \o [i \in 1 .. Len(sns) |->
            [sn |-> sns[i], is_segment |-> nacks[sns[i]].is_segment,
             so_start |-> nacks[sns[i]].so_start, so_end |-> nacks[sns[i]].so_end]]
       /\ poll_retx_timeout' = "stopped"
       /\ UNCHANGED <<vt_s, pdu_without_poll, tx_sdus, tx_opportunity, tx_ub, built>>

PollRetxExpires ==
  /\ poll_retx_timeout = "running" /\ poll_retx_timeout' = "expired"
  /\ UNCHANGED <<txWindowVars, retx_queue, pdu_without_poll, tx_sdus,
                 tx_opportunity, tx_ub, built, data_ch>>

(* reset(), when the bearer is set up again; the poll timer survives it. *)
TxReset ==
  /\ vt_a' = 0 /\ vt_ms' = WINDOW /\ vt_s' = 0
  /\ tx_window' = << >> /\ retx_queue' = << >> /\ tx_sdus' = 0 /\ built' = 0
  /\ pdu_without_poll' = 0 /\ tx_opportunity' = FALSE /\ data_ch' = {}
  /\ UNCHANGED <<poll_retx_timeout, tx_ub>>

TxStep == /\ ~ tx_ub
          /\ \/ write_sdu \/ tx_get_buffer_state \/ PollRetxExpires
             \/ \E space \in 0 .. PduLen : read_pdu(space)

-----------------------------------------------------------------------------
(***************************************************************************)
(* The sender with a peer that may acknowledge or ask again for anything   *)
(* that has been sent, whole or in part.                                   *)
(***************************************************************************)
Whole == [is_segment |-> FALSE, so_start |-> 0, so_end |-> PduLen]
Part(a, b) == [is_segment |-> TRUE, so_start |-> a, so_end |-> b]
Ranges == {Whole} \cup { Part(a, b) : a \in 0 .. PduLen - 1, b \in 1 .. PduLen }

PeerStatus ==
  /\ ~ tx_ub
  /\ \E n \in 0 .. in_flight : \E missing \in SUBSET Run(vt_a, n) :
       \E nacks \in [missing -> {r \in Ranges : r.so_start < r.so_end}] :
         handle_control_pdu(Plus(vt_a, n), nacks)
  /\ UNCHANGED data_ch

(* The peer receives a PDU, or it is lost. *)
PduLeaves == /\ ~ tx_ub
             /\ \E pdu \in data_ch : data_ch' = data_ch \ {pdu}
             /\ UNCHANGED <<txWindowVars, retx_queue, txPollVars, tx_sdus,
                            tx_opportunity, tx_ub, built>>

TxNext == TxStep \/ PeerStatus \/ PduLeaves \/ (~ tx_ub /\ TxReset)

TxSpec == TxInit /\ [][TxNext]_txVars

-----------------------------------------------------------------------------
(***************************************************************************)
(* Properties.                                                             *)
(***************************************************************************)

(* tx_window holds exactly the PDUs from vt_a up to vt_s, each under the   *)
(* sequence number it was sent with, across wraps and partial              *)
(* acknowledgements; retx_queue never holds a sequence number twice.       *)
TxWindowInv ==
  /\ vt_ms = Plus(vt_a, WINDOW)
  /\ DOMAIN tx_window = Run(vt_a, in_flight)
  /\ \A sn \in DOMAIN tx_window : tx_window[sn] = built - Dist(vt_s, sn)
  /\ \A i, j \in 1 .. Len(retx_queue) : retx_queue[i].sn = retx_queue[j].sn => i = j

(* Entry i of retx_queue advances or leaves only when the bytes it passes  *)
(* over are transmitted, or when its PDU has been released.                *)
SkipsNothing(i) ==
  LET e == retx_queue[i]
      same == {j \in 1 .. Len(retx_queue') : retx_queue'[j].sn = e.sn}
      to == IF same = {} THEN e.so_end ELSE retx_queue'[Min(same)].so_start
  IN \/ e.sn \notin DOMAIN tx_window \/ e.sn \notin DOMAIN tx_window'
     \/ same # {} /\ to = e.so_start
     \/ \E pdu \in data_ch' :
          /\ pdu.sn = e.sn /\ pdu.pl = tx_window[e.sn]
          /\ pdu.so <= e.so_start /\ pdu.so + pdu.len >= to

(* What was NACKed is sent again byte for byte: whatever read_pdu() and    *)
(* handle_control_pdu() do to retx_queue, no byte that is to be sent again *)
(* is passed over before an acknowledgement releases its PDU.              *)
RetxSkipsNothing == [][\A i \in 1 .. Len(retx_queue) : SkipsNothing(i)]_txVars

(* rlc_am.cc:412: entries that are not in tx_window are dropped, so what   *)
(* is read from retx_queue afterwards is one that is.                      *)
RetxFrontExists == ~ tx_ub
=============================================================================
