------------------------------ MODULE RlcAmRx ------------------------------
(***************************************************************************)
(* The receiving half of an acknowledged-mode RLC entity, rlc_am.cc: the   *)
(* receive window, reassembly from PDU segments, the reordering timer and  *)
(* the status report.  Every public method runs under the entity's mutex,  *)
(* so each is one action; what happens between get_buffer_state() and      *)
(* read_pdu(), which the MAC calls one after the other without holding     *)
(* that mutex, is an interleaving of this specification.                   *)
(***************************************************************************)
EXTENDS RlcSn, FiniteSetsExt, Functions

CONSTANTS
  Payload,        \* contents of data PDUs
  Mixed,          \* the content of a PDU put together from two PDUs' segments
  MaxSegs,        \* bound: sequence numbers of which segments are stored, and
                  \* segments stored of each
  MaxDelivered,   \* bound: PDUs delivered to the upper layer
  StatusProhibit, \* t_status_prohibit > 0
  OwnData         \* the entity has SDUs of its own to send, so the MAC asks
                  \* for PDUs even when no status report is due

VARIABLES
  vr_r,           \* receive state, low edge of the window
  vr_mr,          \* high edge of the window
  vr_x,           \* the SN following the one that started the reordering timer
  vr_ms,          \* the highest ACK_SN a status report may carry
  vr_h,           \* the SN following the highest one received
  rx_window,      \* SN -> content of the complete PDUs waiting for vr_r
  rx_segments,    \* SN -> list of segments, ordered by segment offset
  poll_received, do_status,
  status,         \* the last report prepare_status() wrote
  reordering_timeout, status_prohibit_timeout,
  opportunity,    \* the MAC got a non-zero buffer state and will call read_pdu
  delivered       \* contents handed to PDCP, in order

rxWindowVars == <<vr_r, vr_mr, vr_x, vr_ms, vr_h, rx_window,
                  reordering_timeout, delivered>>
rxStatusVars == <<poll_received, do_status>>
rxVars == <<rxWindowVars, rxStatusVars, rx_segments, status,
            status_prohibit_timeout, opportunity>>

Segment == [so : 0 .. PduLen - 1, len : 1 .. PduLen, pl : Payload]
IsSegment(seg) == seg.so + seg.len <= PduLen
lsf(seg) == seg.so + seg.len = PduLen        \* last segment flag

RxTypeOK ==
  /\ {vr_r, vr_mr, vr_x, vr_ms, vr_h} \subseteq SN
  /\ DOMAIN rx_window \subseteq SN
  /\ \A sn \in DOMAIN rx_window : rx_window[sn] \in Payload \cup {Mixed}
  /\ DOMAIN rx_segments \subseteq SN
  /\ \A sn \in DOMAIN rx_segments : rx_segments[sn] \in Seq(Segment)
  /\ poll_received \in BOOLEAN /\ do_status \in BOOLEAN
  /\ status.ack_sn \in SN /\ status.nacks \subseteq SN
  /\ reordering_timeout \in Timeout /\ status_prohibit_timeout \in Timeout
  /\ opportunity \in BOOLEAN
  /\ delivered \in Seq(Payload \cup {Mixed})

RxInit ==
  /\ vr_r = 0 /\ vr_mr = WINDOW /\ vr_x = 0 /\ vr_ms = 0 /\ vr_h = 0
  /\ rx_window = << >> /\ rx_segments = << >>
  /\ poll_received = FALSE /\ do_status = FALSE
  /\ status = [ack_sn |-> 0, nacks |-> {}]
  /\ reordering_timeout = "stopped" /\ status_prohibit_timeout = "stopped"
  /\ opportunity = FALSE /\ delivered = << >>

(* Mutant of inside_rx_window(): no window at all. *)
inside_rx_window_always(sn) == TRUE

inside_rx_window(sn) ==
  /\ Dist(sn, vr_r) >= Dist(vr_r, vr_r)
  /\ Dist(sn, vr_r) < Dist(vr_mr, vr_r)

status_prohibited == status_prohibit_timeout = "running"

-----------------------------------------------------------------------------
(***************************************************************************)
(* write_pdu(): data PDUs.                                                 *)
(***************************************************************************)

(* The reordering timer after the window has moved to r and vr_h to h.     *)
update_reordering(r, mr, h) ==
  LET stop == \/ vr_x = r
              \/ Dist(vr_x, r) < Dist(r, r)
              \/ Dist(vr_x, r) > Dist(mr, r) /\ vr_x # mr
  IN IF reordering_timeout = "stopped" \/ stop
     THEN IF Dist(h, r) > Dist(r, r)
          THEN reordering_timeout' = "running" /\ vr_x' = h
          ELSE reordering_timeout' = "stopped" /\ UNCHANGED vr_x
     ELSE UNCHANGED <<reordering_timeout, vr_x>>

(* A PDU outside the window, or a duplicate, is dropped; its poll is not.  *)
discard_data_pdu(p, ds) ==
  /\ do_status' = (ds \/ p)
  /\ UNCHANGED <<rxWindowVars, poll_received>>

(* Mutant of reassemble_rx_sdus(): the window's high edge does not wrap. *)
reassemble_rx_sdus_no_wrap(w, n) ==
  /\ delivered' = delivered \o [i \in 1 .. n |-> w[Plus(vr_r, i - 1)]]
  /\ rx_window' = [s \in DOMAIN w \ Run(vr_r, n) |-> w[s]]
  /\ vr_r' = Plus(vr_r, n)
  /\ vr_mr' = vr_mr + n

(* The first n PDUs of the window go to the upper layer, the window moves  *)
(* behind them.                                                            *)
reassemble_rx_sdus(w, n) ==
  /\ delivered' = delivered \o [i \in 1 .. n |-> w[Plus(vr_r, i - 1)]]
  /\ rx_window' = [s \in DOMAIN w \ Run(vr_r, n) |-> w[s]]
  /\ vr_r' = Plus(vr_r, n)
  /\ vr_mr' = Plus(vr_mr, n)

(* The poll of a PDU is answered at once, or left to the reordering timer. *)
report_now(sn, ms) == \/ Dist(sn, vr_r) < Dist(ms, vr_r)
                      \/ Dist(sn, vr_r) >= Dist(vr_mr, vr_r)

(* Mutant of accept_data_pdu(): the search for vr_ms starts at vr_r. *)
accept_data_pdu_ms_from_r(sn, pl, p, ds) ==
  LET w == [s \in DOMAIN rx_window \cup {sn} |->
              IF s = sn THEN pl ELSE rx_window[s]]
      h == IF Dist(sn, vr_r) >= Dist(vr_h, vr_r) THEN Plus(sn, 1) ELSE vr_h
  IN \E n \in SN :
       /\ IsRunLength(vr_r, DOMAIN w, n)
       /\ vr_h' = h
       /\ vr_ms' = Plus(vr_r, n)
       /\ poll_received' = (poll_received \/ p)
       /\ do_status' = (ds \/ (p /\ report_now(sn, vr_ms')))
       /\ reassemble_rx_sdus(w, n)
       /\ update_reordering(vr_r', vr_mr', h)

(* ds is the value of do_status on entry. *)
accept_data_pdu(sn, pl, p, ds) ==
  LET w == [s \in DOMAIN rx_window \cup {sn} |->
              IF s = sn THEN pl ELSE rx_window[s]]
      h == IF Dist(sn, vr_r) >= Dist(vr_h, vr_r) THEN Plus(sn, 1) ELSE vr_h
  IN \E m, n \in SN :
       /\ IsRunLength(vr_ms, DOMAIN w, m)
       /\ IsRunLength(vr_r, DOMAIN w, n)
       /\ vr_h' = h
       /\ vr_ms' = Plus(vr_ms, m)
       /\ poll_received' = (poll_received \/ p)
       /\ do_status' = (ds \/ (p /\ report_now(sn, vr_ms')))
       /\ reassemble_rx_sdus(w, n)
       /\ update_reordering(vr_r', vr_mr', h)

handle_data_pdu(sn, pl, p, ds) ==
  IF ~ inside_rx_window(sn) \/ sn \in DOMAIN rx_window
  THEN discard_data_pdu(p, ds)
  ELSE accept_data_pdu(sn, pl, p, ds)

WriteDataPdu(sn, pl, p) ==
  /\ Len(delivered) < MaxDelivered
  /\ handle_data_pdu(sn, pl, p, do_status)
  /\ UNCHANGED <<rx_segments, status, status_prohibit_timeout, opportunity>>

-----------------------------------------------------------------------------
(***************************************************************************)
(* write_pdu(): PDU segments.                                              *)
(***************************************************************************)

(* The ordered insert of add_segment_and_check(): before the first stored  *)
(* segment whose offset is not smaller.                                    *)
insert_segment(segs, seg) ==
  LET k == Cardinality({i \in 1 .. Len(segs) : segs[i].so < seg.so})
  IN SubSeq(segs, 1, k) \o <<seg>> \o SubSeq(segs, k + 1, Len(segs))

(* Mutant of complete(): the bytes are counted, not their places. *)
complete_counts_bytes(segs) == MapThenSumSet(LAMBDA i : segs[i].len, DOMAIN segs) >= PduLen

(* The stored list is gap-free from offset 0 and ends with the last one.   *)
complete(segs) ==
  /\ segs[1].so = 0
  /\ \A i \in 1 .. Len(segs) - 1 : segs[i + 1].so = segs[i].so + segs[i].len
  /\ lsf(segs[Len(segs)])

(* The bytes of the segments one after the other: a PDU's content when     *)
(* they are the bytes of that PDU, from the first one to the last.         *)
full_pdu(segs) ==
  LET begins(i) == IF i = 1 THEN 0 ELSE segs[i - 1].so + segs[i - 1].len
      whole == /\ \A i \in 1 .. Len(segs) : segs[i].so = begins(i) /\ segs[i].pl = segs[1].pl
               /\ segs[Len(segs)].so + segs[Len(segs)].len = PduLen
  IN IF whole THEN segs[1].pl ELSE Mixed

put_segments(sn, segs) ==
  rx_segments' = [s \in DOMAIN rx_segments \cup {sn} |->
                    IF s = sn THEN segs ELSE rx_segments[s]]

(* A further segment of a PDU of which some are stored: the poll bit is    *)
(* answered at once, and the complete PDU is handled without it.           *)
add_segment_and_check(sn, seg, p) ==
  LET segs == insert_segment(rx_segments[sn], seg)
  IN /\ Len(segs) <= MaxSegs
     /\ IF complete(segs)
        THEN /\ handle_data_pdu(sn, full_pdu(segs), FALSE, do_status \/ p)
             /\ rx_segments' = [s \in DOMAIN rx_segments \ {sn} |-> rx_segments[s]]
        ELSE /\ put_segments(sn, segs)
             /\ do_status' = (do_status \/ p)
             /\ UNCHANGED <<rxWindowVars, poll_received>>

(* The first segment of a PDU: vr_h and the poll are handled as for a data *)
(* PDU, the reordering timer is not touched.                               *)
first_segment(sn, seg, p) ==
  /\ put_segments(sn, <<seg>>)
  /\ vr_h' = IF Dist(sn, vr_r) >= Dist(vr_h, vr_r) THEN Plus(sn, 1) ELSE vr_h
  /\ poll_received' = (poll_received \/ p)
  /\ do_status' = (do_status \/ (p /\ report_now(sn, vr_ms)))
  /\ UNCHANGED <<vr_r, vr_mr, vr_x, vr_ms, rx_window, reordering_timeout, delivered>>

handle_data_pdu_segment(sn, seg, p) ==
  CASE ~ inside_rx_window(sn) ->
         discard_data_pdu(p, do_status) /\ UNCHANGED rx_segments
    [] inside_rx_window(sn) /\ sn \in DOMAIN rx_segments ->
         add_segment_and_check(sn, seg, p)
    [] OTHER -> first_segment(sn, seg, p)

WriteSegment(sn, seg, p) ==
  /\ IsSegment(seg)
  /\ sn \in DOMAIN rx_segments \/ Cardinality(DOMAIN rx_segments) < MaxSegs
  /\ Len(delivered) < MaxDelivered
  /\ handle_data_pdu_segment(sn, seg, p)
  /\ UNCHANGED <<status, status_prohibit_timeout, opportunity>>

-----------------------------------------------------------------------------
(***************************************************************************)
(* get_buffer_state() and read_pdu(), as far as the receiver is concerned. *)
(***************************************************************************)
(* Mutant of check_reordering_timeout(): vr_ms stays on the first SN after *)
(* the gap, stored or not.                                                 *)
check_reordering_timeout_no_walk ==
  IF reordering_timeout = "expired"
  THEN /\ vr_ms' = vr_x
       /\ do_status' = (do_status \/ poll_received)
       /\ IF Dist(vr_h, vr_r) > Dist(vr_ms', vr_r)
          THEN reordering_timeout' = "running" /\ vr_x' = vr_h
          ELSE reordering_timeout' = "stopped" /\ UNCHANGED vr_x
  ELSE UNCHANGED <<vr_ms, do_status, reordering_timeout, vr_x>>

(* Mutant of check_reordering_timeout(): vr_ms is not moved. *)
check_reordering_timeout_keeps_ms ==
  IF reordering_timeout = "expired"
  THEN /\ do_status' = (do_status \/ poll_received)
       /\ IF Dist(vr_h, vr_r) > Dist(vr_ms, vr_r)
          THEN reordering_timeout' = "running" /\ vr_x' = vr_h
          ELSE reordering_timeout' = "stopped" /\ UNCHANGED vr_x
       /\ UNCHANGED vr_ms
  ELSE UNCHANGED <<vr_ms, do_status, reordering_timeout, vr_x>>

check_reordering_timeout ==
  IF reordering_timeout = "expired"
  THEN \E m \in SN :
         /\ IsRunLength(vr_x, DOMAIN rx_window, m)
         /\ vr_ms' = Plus(vr_x, m)
         /\ do_status' = (do_status \/ poll_received)
         /\ IF Dist(vr_h, vr_r) > Dist(vr_ms', vr_r)
            THEN reordering_timeout' = "running" /\ vr_x' = vr_h
            ELSE reordering_timeout' = "stopped" /\ UNCHANGED vr_x
  ELSE UNCHANGED <<vr_ms, do_status, reordering_timeout, vr_x>>

(* The report: everything below ms is acknowledged except what is missing. *)
prepare_status(ms) ==
  [ack_sn |-> ms,
   nacks  |-> {sn \in SN : /\ Dist(sn, vr_r) < Dist(ms, vr_r)
                           /\ sn \notin DOMAIN rx_window}]

(* mux is TRUE when the caller is the multiplexer, which follows a         *)
(* non-zero answer with read_pdu(); the buffer status procedure only asks. *)
get_buffer_state(mux) ==
  /\ check_reordering_timeout
  /\ LET report == do_status' /\ ~ status_prohibited
     IN /\ status' = IF report THEN prepare_status(vr_ms') ELSE status
        /\ opportunity' = IF mux THEN report \/ OwnData ELSE opportunity
  /\ UNCHANGED <<vr_r, vr_mr, vr_h, rx_window, delivered, rx_segments,
                 poll_received, status_prohibit_timeout>>

(* Mutant of build_status_pdu(): the request is not cleared. *)
build_status_pdu_keeps_request(fits) ==
  /\ opportunity /\ do_status /\ ~ status_prohibited
  /\ opportunity' = FALSE
  /\ status_prohibit_timeout' = IF fits /\ StatusProhibit THEN "running"
                                ELSE status_prohibit_timeout
  /\ UNCHANGED <<rxWindowVars, rxStatusVars, rx_segments, status>>

(* read_pdu() when a status report is due: the prepared report goes out,   *)
(* or stays due when the grant is too small for it.                        *)
build_status_pdu(fits) ==
  /\ opportunity /\ do_status /\ ~ status_prohibited
  /\ opportunity' = FALSE
  /\ IF fits
     THEN /\ do_status' = FALSE /\ poll_received' = FALSE
          /\ status_prohibit_timeout' = IF StatusProhibit THEN "running"
                                        ELSE status_prohibit_timeout
     ELSE UNCHANGED <<rxStatusVars, status_prohibit_timeout>>
  /\ UNCHANGED <<rxWindowVars, rx_segments, status>>

(* read_pdu() otherwise: the PDU comes from the sending half. *)
ReadOwnData ==
  /\ opportunity /\ ~ (do_status /\ ~ status_prohibited)
  /\ opportunity' = FALSE
  /\ UNCHANGED <<rxWindowVars, rxStatusVars, rx_segments, status,
                 status_prohibit_timeout>>

(* The passing of time. *)
ReorderingExpires ==
  /\ reordering_timeout = "running" /\ reordering_timeout' = "expired"
  /\ UNCHANGED <<vr_r, vr_mr, vr_x, vr_ms, vr_h, rx_window, delivered,
                 rxStatusVars, rx_segments, status, status_prohibit_timeout,
                 opportunity>>

ProhibitExpires ==
  /\ status_prohibit_timeout = "running" /\ status_prohibit_timeout' = "expired"
  /\ UNCHANGED <<rxWindowVars, rxStatusVars, rx_segments, status, opportunity>>

(* reset(), called when the bearer is set up again: the prepared report    *)
(* and the prohibit timer survive it.  Release and set-up are an RRC       *)
(* connection establishment apart, so no MAC opportunity does.             *)
RxReset ==
  /\ vr_r' = 0 /\ vr_mr' = WINDOW /\ vr_x' = 0 /\ vr_ms' = 0 /\ vr_h' = 0
  /\ rx_window' = << >> /\ rx_segments' = << >> /\ delivered' = << >>
  /\ poll_received' = FALSE /\ do_status' = FALSE
  /\ reordering_timeout' = "stopped" /\ opportunity' = FALSE
  /\ UNCHANGED <<status, status_prohibit_timeout>>

RxStep ==
  \/ \E mux \in BOOLEAN : get_buffer_state(mux)
  \/ \E fits \in BOOLEAN : build_status_pdu(fits)
  \/ ReadOwnData
  \/ ReorderingExpires \/ ProhibitExpires

-----------------------------------------------------------------------------
(***************************************************************************)
(* The receiver with a peer that may send any PDU or segment at any time.  *)
(* The content of a PDU is its sequence number here; a segment is a proper *)
(* part of its PDU.                                                        *)
(***************************************************************************)
RxNext ==
  \/ RxStep \/ RxReset
  \/ \E sn \in SN, p \in BOOLEAN :
       \/ WriteDataPdu(sn, sn, p)
       \/ \E so \in 0 .. PduLen - 1, len \in 1 .. PduLen - 1 :
            WriteSegment(sn, [so |-> so, len |-> len, pl |-> sn], p)

RxSpec == RxInit /\ [][RxNext]_rxVars

(* Timers run out, the MAC polls the buffer state in every TTI, and grants *)
(* that a report fits in keep coming.                                      *)
RxFairSpec == /\ RxSpec
              /\ WF_rxVars(ReorderingExpires) /\ WF_rxVars(ProhibitExpires)
              /\ WF_rxVars(get_buffer_state(TRUE))
              /\ SF_rxVars(build_status_pdu(TRUE))

-----------------------------------------------------------------------------
(***************************************************************************)
(* Properties.                                                             *)
(***************************************************************************)

(* The state variables of rlc_am.h:160-164 keep their order around the     *)
(* window, whatever is received and however the reordering timer fires:    *)
(* nothing stored lies at or below vr_r or beyond vr_h, the next SN to     *)
(* acknowledge is never one that is already stored, and a running          *)
(* reordering timer guards a gap that still exists, with nothing missing   *)
(* between vr_x and vr_ms.                                                 *)
RxWindowInv ==
  /\ vr_mr = Plus(vr_r, WINDOW)
  /\ Dist(vr_ms, vr_r) <= Dist(vr_h, vr_r)
  /\ Dist(vr_h, vr_r) <= WINDOW
  /\ \A sn \in DOMAIN rx_window : 0 < Dist(sn, vr_r) /\ Dist(sn, vr_r) < Dist(vr_h, vr_r)
  /\ vr_ms \notin DOMAIN rx_window
  /\ reordering_timeout # "stopped" =>
       /\ 0 < Dist(vr_x, vr_r) /\ Dist(vr_x, vr_r) <= Dist(vr_h, vr_r)
       /\ \A sn \in SN : /\ Dist(vr_x, vr_r) <= Dist(sn, vr_r)
                         /\ Dist(sn, vr_r) < Dist(vr_ms, vr_r)
                         => sn \in DOMAIN rx_window

(* reassemble_rx_sdus() hands PDUs up in sequence-number order, each once, *)
(* with no gap, across every wrap of the sequence number.                  *)
DeliveredInOrder ==
  /\ vr_r = Len(delivered) % MOD
  /\ \A i \in 1 .. Len(delivered) : delivered[i] = (i - 1) % MOD

(* ACK_SN never moves backwards nor beyond the window: when                *)
(* check_reordering_timeout() sets vr_ms to vr_x, it walks forward again   *)
(* over all that vr_ms had passed.                                         *)
AckNeverRegresses ==
  [][RxReset \/ Dist(vr_ms', vr_r) \in Dist(vr_ms, vr_r) .. WINDOW]_rxVars

(* A report that is due goes out, however often its request is renewed or  *)
(* the prohibit timer postpones it.                                        *)
StatusIsSent == do_status ~> ~ do_status

(* A gap at the low edge that has started the reordering timer is filled,  *)
(* reset away, or comes to lie below ACK_SN, where the next report NACKs   *)
(* it: the timer is never stopped or postponed for good in front of one.   *)
GapIsReported ==
  LET gap == vr_ms = vr_r /\ vr_h # vr_r /\ reordering_timeout # "stopped"
  IN gap ~> ~ gap
=============================================================================
