------------------------------- MODULE RlcUm -------------------------------
(***************************************************************************)
(* Unacknowledged mode: the sending half and the receiving half of rlc_um, *)
(* with HARQ processes between them that lose and reorder PDUs.  A byte is *)
(* the number of its SDU with its place in it; a grant is the number of    *)
(* data bytes that build_data_pdu() moves, the header's arithmetic being   *)
(* left out.  write_pdu() and timer_expired() hold the mutex of the entity *)
(* and are one action each.  A released bearer is dropped; when it is      *)
(* added again rlc_entity::init() calls rlc_um::reset().  The two are one  *)
(* action, because nothing reaches an entity in between.                   *)
(***************************************************************************)
EXTENDS Integers, Sequences, FiniteSetsExt

CONSTANTS
  rx_mod,          \* 32 or 1024 in the code
  rx_window_size,  \* 16 or 512
  UmSduLen,        \* bytes of an SDU
  UmGrants,        \* data bytes of a PDU
  MaxUmSdus,       \* SDUs that PDCP writes
  MaxUmLosses      \* PDUs that are lost

ASSUME UmAssumption ==
  /\ rx_window_size \in Nat \ {0} /\ rx_mod = 2 * rx_window_size
  /\ UmSduLen \in Nat \ {0} /\ UmGrants \subseteq Nat \ {0}

VARIABLES
  tx_bytes,        \* tx_sdu and then tx_sdu_queue
  tx_sdu_blank,    \* tx_sdu is there with no bytes, as reset() leaves it
  um_written,      \* SDUs written
  vt_us, built,    \* the next sequence number, and the PDUs built
  um_air,          \* PDUs in HARQ processes, with the order in which they were built
  um_losses,
  vr_ur, vr_ux, vr_uh,
  rx_window,
  um_rx,           \* rx_sdu, pdu_lost and vr_ur_in_rx_sdu
  t_reordering,    \* the timer runs
  um_out           \* SDUs handed to PDCP

umTxVars == <<tx_bytes, tx_sdu_blank, um_written, vt_us, built>>
umRxVars == <<vr_ur, vr_ux, vr_uh, rx_window, um_rx, t_reordering, um_out>>
umVars == <<umTxVars, um_air, um_losses, umRxVars>>

UmByte == (1 .. MaxUmSdus) \X (1 .. UmSduLen)
UmSdu(i) == [k \in 1 .. UmSduLen |-> <<i, k>>]

(* Mutant of the increments: the number does not wrap. *)
NextSn_no_wrap(sn) == sn + 1

NextSn(sn) == (sn + 1) % rx_mod

UmInit ==
  /\ tx_bytes = <<>> /\ tx_sdu_blank = FALSE /\ um_written = 0 /\ vt_us = 0 /\ built = 0
  /\ um_air = {} /\ um_losses = 0
  /\ vr_ur = 0 /\ vr_ux = 0 /\ vr_uh = 0 /\ rx_window = {} /\ t_reordering = FALSE
  /\ um_rx = [rx_sdu |-> <<>>, pdu_lost |-> FALSE, in_rx_sdu |-> 0,
              out |-> <<>>, ate |-> FALSE, holed |-> FALSE]
  /\ um_out = <<>>

---------------------------------------------------------------------------
(* The sender.                                                             *)

um_write_sdu ==
  /\ um_written < MaxUmSdus
  /\ um_written' = um_written + 1
  /\ tx_bytes' = tx_bytes \o UmSdu(um_written + 1)
  /\ UNCHANGED <<tx_sdu_blank, vt_us, built, um_air, um_losses, umRxVars>>

(* The bytes of a PDU, one segment for each SDU: all but the last have a    *)
(* length indicator.                                                        *)
Segments(bytes) ==
  LET first == bytes[1][1]
  IN  [i \in 1 .. bytes[Len(bytes)][1] - first + 1 |->
         SelectSeq(bytes, LAMBDA b : b[1] = first + i - 1)]

(* HARQ keeps a PDU no longer than it takes to send half a window more.     *)
UmLifetime == \A p \in um_air : built - p.nr < rx_window_size - 1

um_build_data_pdu(grant) ==
  /\ tx_bytes # <<>> /\ UmLifetime
  /\ LET n == IF grant < Len(tx_bytes) THEN grant ELSE Len(tx_bytes)
         bytes == SubSeq(tx_bytes, 1, n)
     IN  /\ um_air' = um_air \cup
              {[nr |-> built, sn |-> vt_us, segs |-> Segments(bytes),
                start |-> bytes[1][2] = 1 /\ ~ tx_sdu_blank, end |-> bytes[n][2] = UmSduLen]}
         /\ tx_bytes' = SubSeq(tx_bytes, n + 1, Len(tx_bytes))
  /\ tx_sdu_blank' = FALSE
  /\ vt_us' = NextSn(vt_us) /\ built' = built + 1
  /\ UNCHANGED <<um_written, um_losses, umRxVars>>

um_lose(p) ==
  /\ um_losses < MaxUmLosses /\ um_losses' = um_losses + 1
  /\ um_air' = um_air \ {p}
  /\ UNCHANGED <<umTxVars, umRxVars>>

---------------------------------------------------------------------------
(* The receiver.  A loop that moves vr_ur is the number of steps it takes   *)
(* and the fold of its body over the sequence numbers that it passes.  The  *)
(* body works on r, the record um_rx with the SDUs to hand up in out.       *)
(* History: ate says that a PDU has been taken out of the window, holed     *)
(* that a missing PDU was passed without pdu_lost.                          *)

RX_MOD_BASE(x, uh) == (x - uh - rx_window_size) % rx_mod

inside_reordering_window(sn, uh) == RX_MOD_BASE(sn, uh) < RX_MOD_BASE(uh, uh)

Stored(w) == {p.sn : p \in w}
Ahead(sn, n) == (sn + n) % rx_mod

(* Mutant of reassemble_rx_sdus(): the rest of a lost SDU is handed up. *)
take_pdu_keeps_rest(r, p) ==
  LET n == Len(p.segs)
      gap == p.sn # NextSn(r.in_rx_sdu)
      sdus == [i \in 1 .. n - 1 |-> IF i = 1 THEN r.rx_sdu \o p.segs[1] ELSE p.segs[i]]
      last == IF n = 1 THEN r.rx_sdu \o p.segs[1] ELSE p.segs[n]
  IN  [r EXCEPT !.out = @ \o (IF gap \/ n = 1 THEN <<>> ELSE sdus)
                          \o (IF p.end THEN <<last>> ELSE <<>>),
                !.rx_sdu = IF p.end THEN <<>> ELSE last,
                !.pdu_lost = @ /\ n = 1 /\ ~ p.end, !.in_rx_sdu = p.sn, !.ate = TRUE]

(* The body of both loops of reassemble_rx_sdus(), for a PDU that is there. *)
take_pdu(r, p) ==
  LET n == Len(p.segs)
      gap == p.sn # NextSn(r.in_rx_sdu)
      remainder == r.pdu_lost /\ ~ p.start
      sdus == [i \in 1 .. n - 1 |-> IF i = 1 THEN r.rx_sdu \o p.segs[1] ELSE p.segs[i]]
      last == IF n = 1 THEN r.rx_sdu \o p.segs[1] ELSE p.segs[n]
      drop_last == n = 1 /\ remainder
  IN  [r EXCEPT !.out = @ \o (IF gap \/ n = 1 THEN <<>>
                              ELSE IF remainder THEN Tail(sdus) ELSE sdus)
                          \o (IF p.end /\ ~ drop_last THEN <<last>> ELSE <<>>),
                !.rx_sdu = IF p.end THEN <<>> ELSE last,
                !.pdu_lost = @ /\ n = 1 /\ ~ p.end, !.in_rx_sdu = p.sn, !.ate = TRUE]

(* A missing PDU empties rx_sdu at the lower edge of the window; the loop   *)
(* of timer_expired() just passes it.                                       *)
pass_missing(r, expiry) ==
  IF expiry THEN [r EXCEPT !.holed = @ \/ r.ate] ELSE [r EXCEPT !.rx_sdu = <<>>, !.holed = TRUE]

(* The loop over the n numbers from vr_ur on. *)
Reassembled(r, expiry, w, n) ==
  MapThenFoldSet(LAMBDA sn, q : IF sn \in Stored(w) THEN take_pdu(q, CHOOSE p \in w : p.sn = sn)
                                ELSE pass_missing(q, expiry),
                 r, LAMBDA i : Ahead(vr_ur, i), Max, 0 .. n - 1)

(* vr_ur goes n numbers up in a window w. *)
reassemble_rx_sdus(r, expiry, w, n) ==
  /\ vr_ur' = Ahead(vr_ur, n)
  /\ rx_window' = {p \in w : \A i \in 0 .. n - 1 : p.sn # Ahead(vr_ur, i)}
  /\ um_rx' = [Reassembled(r, expiry, w, n) EXCEPT !.out = <<>>, !.ate = FALSE]
  /\ um_out' = um_out \o Reassembled(r, expiry, w, n).out

(* Steps of "First catch up with lower edge of reordering window". *)
catch_up(uh) ==
  IF inside_reordering_window(vr_ur, uh) THEN 0 ELSE (uh - rx_window_size - vr_ur) % rx_mod

(* The loop that goes up from sn while it meets stored PDUs takes n steps. *)
take_stored(w, sn, n) ==
  Ahead(sn, n) \notin Stored(w) /\ \A i \in 0 .. n - 1 : Ahead(sn, i) \in Stored(w)

(* timer_expired() passes all below vr_ux, what is stored is reassembled,   *)
(* and it stops at the first number from vr_ux on that is missing.  The     *)
(* new vr_ur is inside the window as long as vr_ux is not below it, so the  *)
(* first loop of reassemble_rx_sdus() does nothing.                         *)
um_timer_expired ==
  /\ t_reordering
  /\ LET below == RX_MOD_BASE(vr_ux, vr_uh) - RX_MOD_BASE(vr_ur, vr_uh)
         lost == [um_rx EXCEPT !.pdu_lost = TRUE, !.rx_sdu = <<>>]
     IN  \E n \in 0 .. rx_mod - 1 :
           /\ take_stored(rx_window, vr_ux, n)
           /\ reassemble_rx_sdus(lost, TRUE, rx_window, IF below > 0 THEN below + n ELSE 0)
  /\ t_reordering' = (RX_MOD_BASE(vr_uh, vr_uh) > RX_MOD_BASE(vr_ur', vr_uh))
  /\ vr_ux' = IF t_reordering' THEN vr_uh ELSE vr_ux
  /\ UNCHANGED <<umTxVars, um_air, um_losses, vr_uh>>

(* The last part of handle_data_pdu(): ur and uh are the new edges.         *)
(* Mutant: a timer that runs goes on whatever has arrived. *)
StillRuns_always(ur, uh) == t_reordering

StillRuns(ur, uh) ==
  /\ t_reordering
  /\ RX_MOD_BASE(vr_ux, uh) > RX_MOD_BASE(ur, uh)
  /\ inside_reordering_window(vr_ux, uh) \/ vr_ux = uh

handle_data_pdu(p) ==
  /\ um_air' = um_air \ {p}
  /\ IF \/ RX_MOD_BASE(p.sn, vr_uh) < RX_MOD_BASE(vr_ur, vr_uh)
        \/ p.sn \in Stored(rx_window)
     THEN UNCHANGED umRxVars
     ELSE LET uh == IF inside_reordering_window(p.sn, vr_uh) THEN vr_uh ELSE NextSn(p.sn)
              w == rx_window \cup {p}
              above == RX_MOD_BASE(uh, uh) > RX_MOD_BASE(vr_ur', uh)
          IN  /\ \E n \in 0 .. rx_mod - 1 :
                   /\ take_stored(w, Ahead(vr_ur, catch_up(uh)), n)
                   /\ reassemble_rx_sdus(um_rx, FALSE, w, catch_up(uh) + n)
              /\ vr_uh' = uh
              /\ t_reordering' = (StillRuns(vr_ur', uh) \/ above)
              /\ vr_ux' = IF ~ StillRuns(vr_ur', uh) /\ above THEN uh ELSE vr_ux
  /\ UNCHANGED <<umTxVars, um_losses>>

(* The bearer is released and added again at both ends, with a MAC reset.   *)
(* reset() keeps vr_ur_in_rx_sdu, and a tx_sdu of which a part was sent.    *)
um_reset ==
  /\ tx_sdu_blank' = (tx_sdu_blank \/ (tx_bytes # <<>> /\ tx_bytes[1][2] # 1))
  /\ tx_bytes' = <<>> /\ vt_us' = 0 /\ um_air' = {}
  /\ vr_ur' = 0 /\ vr_ux' = 0 /\ vr_uh' = 0 /\ rx_window' = {} /\ t_reordering' = FALSE
  /\ um_rx' = [um_rx EXCEPT !.rx_sdu = <<>>, !.pdu_lost = FALSE]
  /\ UNCHANGED <<um_written, built, um_losses, um_out>>

---------------------------------------------------------------------------
UmNext ==
  \/ um_write_sdu \/ um_timer_expired \/ um_reset
  \/ \E grant \in UmGrants : um_build_data_pdu(grant)
  \/ \E p \in um_air : um_lose(p) \/ handle_data_pdu(p)

UmSpec == UmInit /\ [][UmNext]_umVars

---------------------------------------------------------------------------
(* The edges and numbers stay below the modulus, and only bytes of SDUs    *)
(* that were written are kept.                                             *)
UmTypeOK ==
  /\ Range(tx_bytes) \subseteq UmByte /\ um_written \in 0 .. MaxUmSdus
  /\ {vt_us, vr_ur, um_rx.in_rx_sdu, vr_ux, vr_uh} \subseteq 0 .. rx_mod - 1
  /\ um_losses \in 0 .. MaxUmLosses /\ Range(um_rx.rx_sdu) \subseteq UmByte
  /\ {um_rx.pdu_lost, t_reordering, tx_sdu_blank} \subseteq BOOLEAN

(* The edges of the window (vr_ur, vr_ux, vr_uh) agree with what is stored  *)
(* and with the timer: all that is stored lies between vr_ur and vr_uh, the *)
(* highest PDU is there until vr_ur passes it, which is what ends the loops *)
(* of timer_expired() and reassemble_rx_sdus(), and the timer runs, for a   *)
(* vr_ux above vr_ur, exactly while something is missing.                   *)
UmWindowInv ==
  LET above(x) == (x - vr_ur) % rx_mod
      top == above(vr_uh)
  IN  /\ \A sn \in Stored(rx_window) : 0 < above(sn) /\ above(sn) < top
      /\ top > 0 => (vr_uh - 1) % rx_mod \in Stored(rx_window)
      /\ t_reordering <=> top > 0
      /\ t_reordering => 0 < above(vr_ux) /\ above(vr_ux) <= top

(* reassemble_rx_sdus() hands up SDUs in the order in which they were       *)
(* written, none twice; and an SDU that is handed up is whole, as long as   *)
(* no missing PDU was passed without setting pdu_lost: at the lower edge of *)
(* the window, or as the second gap of one expiry.                          *)
SdusWholeInOrder ==
  /\ \A i, j \in DOMAIN um_out : i < j => um_out[i][1][1] < um_out[j][1][1]
  /\ ~ um_rx.holed => \A i \in DOMAIN um_out : um_out[i] = UmSdu(um_out[i][1][1])

=============================================================================
