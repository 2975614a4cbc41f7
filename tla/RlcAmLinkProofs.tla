-------------------------- MODULE RlcAmLinkProofs --------------------------
(***************************************************************************)
(* The bearer implements its service, for every modulus and window.  The   *)
(* argument counts PDUs without wrapping: every sequence number on either  *)
(* side and between the MACs is the remainder of a count, and everything   *)
(* that is compared lies less than MOD counts apart.                       *)
(***************************************************************************)
EXTENDS RlcAmLink, RlcAmRxProofs, RlcAmTxProofs

(***************************************************************************)
(* The receiver, counted: d PDUs are delivered, and all it knows of are    *)
(* below the count that vr_h stands for.                                   *)
(***************************************************************************)
Content == Nat \cup {Mixed}

(* The low edge is the count of what has been delivered, and nothing is    *)
(* known of PDUs that have not been built.                                 *)
RxCounts ==
  /\ delivered \in Seq(Content) /\ \A sn \in DOMAIN rx_window : rx_window[sn] \in Content
  /\ vr_r = Len(delivered) % MOD
  /\ Len(delivered) + Dist(vr_h, vr_r) <= built

(* Every PDU that is delivered or stored is the one the sender counted     *)
(* there.                                                                  *)
InPlace ==
  /\ \A i \in 1 .. Len(delivered) : delivered[i] = i - 1
  /\ \A sn \in DOMAIN rx_window : rx_window[sn] = Len(delivered) + Dist(sn, vr_r)

(* vr_h after a new PDU or segment with number sn. *)
High(sn) == IF Dist(sn, vr_r) >= Dist(vr_h, vr_r) THEN Plus(sn, 1) ELSE vr_h

(* How far vr_h moves. *)
LEMMA HighValue ==
  ASSUME RxInd, NEW sn \in SN, inside_rx_window(sn)
  PROVE  /\ High(sn) \in SN
         /\ Dist(High(sn), vr_r) = IF Dist(sn, vr_r) >= Dist(vr_h, vr_r)
                                   THEN Dist(sn, vr_r) + 1 ELSE Dist(vr_h, vr_r)
         /\ Dist(sn, vr_r) < WINDOW
<1>1. /\ MOD \in Nat /\ WINDOW \in SN /\ 0 < WINDOW /\ 1 \in SN /\ 2 * WINDOW <= MOD
      /\ vr_r \in SN /\ vr_h \in SN
  BY WindowAssumption DEF RxInd, RxWindowType, SN
<1>2. Dist(sn, vr_r) \in SN  BY <1>1, DistValue
<1>3. Dist(vr_mr, vr_r) = WINDOW  BY <1>1, PlusDist DEF RxInd, RxWindowInv
<1>4. Dist(sn, vr_r) < WINDOW  BY <1>3 DEF inside_rx_window
<1>5. Plus(sn, 1) \in SN /\ Dist(Plus(sn, 1), vr_r) = Dist(sn, vr_r) + 1
  BY <1>1, <1>2, <1>4, PlusValue, DistPlus, SMTT(30) DEF SN
<1> QED  BY <1>1, <1>4, <1>5 DEF High

(* The PDUs that can be delivered lie below vr_h. *)
LEMMA RunBelowHigh ==
  ASSUME RxInd, NEW sn \in SN, inside_rx_window(sn), NEW n \in SN,
         \A i \in 0 .. n - 1 : Plus(vr_r, i) \in DOMAIN rx_window \cup {sn}
  PROVE  n <= Dist(High(sn), vr_r) /\ Dist(High(sn), vr_r) <= WINDOW
<1>1. /\ MOD \in Nat /\ WINDOW \in Nat /\ vr_r \in SN /\ vr_h \in SN /\ n \in Nat
      /\ Dist(vr_h, vr_r) <= WINDOW
      /\ \A s \in DOMAIN rx_window : Dist(s, vr_r) < Dist(vr_h, vr_r)
  BY WindowAssumption DEF RxInd, RxWindowType, RxWindowInv, SN
<1>2. Dist(sn, vr_r) \in Nat /\ Dist(vr_h, vr_r) \in Nat  BY <1>1, DistValue DEF SN
<1> DEFINE k == Dist(High(sn), vr_r)
<1>3. k = IF Dist(sn, vr_r) >= Dist(vr_h, vr_r) THEN Dist(sn, vr_r) + 1 ELSE Dist(vr_h, vr_r)
  BY HighValue
<1>4. Dist(sn, vr_r) < WINDOW  BY HighValue
<1> HIDE DEF k
<1>5. k \in Nat /\ k <= WINDOW /\ 0 <= k  BY <1>1, <1>2, <1>3, <1>4
<1>6. n <= k
  <2>1. CASE n = 0  BY <1>5, <2>1
  <2>2. CASE n # 0
    <3>1. n - 1 \in 0 .. n - 1 /\ n - 1 \in SN  BY <1>1, <2>2 DEF SN
    <3>2. Dist(Plus(vr_r, n - 1), vr_r) = n - 1  BY <1>1, <3>1, PlusDist
    <3>3. Plus(vr_r, n - 1) \in DOMAIN rx_window \cup {sn}  BY <3>1
    <3>4. n - 1 < Dist(vr_h, vr_r) \/ n - 1 = Dist(sn, vr_r)  BY <1>1, <3>2, <3>3
    <3> QED  BY <1>1, <1>2, <1>3, <3>4
  <2> QED  BY <2>1, <2>2
<1> QED  BY <1>5, <1>6 DEF k

(* accept_data_pdu(), counted. *)
LEMMA AcceptCounts ==
  ASSUME RxInd, RxCounts, built \in Nat, NEW sn \in SN, inside_rx_window(sn),
         Len(delivered) + Dist(sn, vr_r) < built,
         NEW pl \in Content, NEW p, NEW ds, accept_data_pdu(sn, pl, p, ds), UNCHANGED built
  PROVE  RxCounts' /\ Len(delivered) <= Len(delivered')
<1> DEFINE d == Len(delivered)
<1>0. delivered \in Seq(Content) /\ d \in Nat /\ \A s \in DOMAIN rx_window : rx_window[s] \in Content
  BY LenProperties DEF RxCounts
<1>1. /\ delivered' \in Seq(Content)
      /\ \A s \in DOMAIN rx_window' :
           /\ s \in DOMAIN rx_window \cup {sn}
           /\ rx_window'[s] = IF s = sn THEN pl ELSE rx_window[s]
  BY <1>0, AcceptDelivers
<1>2. PICK n \in SN :
        /\ vr_r' = Plus(vr_r, n) /\ Len(delivered') = d + n
        /\ \A i \in 0 .. n - 1 : Plus(vr_r, i) \in DOMAIN rx_window \cup {sn}
  BY <1>0, AcceptDelivers
<1>3. /\ MOD \in Nat /\ n \in Nat /\ vr_r \in SN /\ vr_h \in SN
      /\ vr_r = d % MOD /\ d + Dist(vr_h, vr_r) <= built
  BY WindowAssumption DEF RxInd, RxWindowType, RxCounts, SN
<1>4. vr_h' = High(sn)  BY DEF accept_data_pdu, High
<1>5. n <= Dist(High(sn), vr_r) /\ High(sn) \in SN  BY <1>2, RunBelowHigh, HighValue
<1>6. Dist(vr_h', vr_r') = Dist(High(sn), vr_r) - n
  BY <1>2, <1>3, <1>4, <1>5, DistShift, Zenon
<1>7. Dist(sn, vr_r) \in Nat /\ Dist(vr_h, vr_r) \in Nat  BY <1>3, DistValue DEF SN
<1>8. Dist(High(sn), vr_r) = IF Dist(sn, vr_r) >= Dist(vr_h, vr_r)
                             THEN Dist(sn, vr_r) + 1 ELSE Dist(vr_h, vr_r)
  BY HighValue
<1>9. Len(delivered') + Dist(vr_h', vr_r') <= built'
  BY <1>0, <1>2, <1>3, <1>6, <1>7, <1>8
<1>10. vr_r' = Len(delivered') % MOD
  <2>1. (d + n) % MOD = Plus(d % MOD, n)  BY <1>0, <1>3, CountPlus
  <2> QED  BY <1>2, <1>3, <2>1
<1>11. \A s \in DOMAIN rx_window' : rx_window'[s] \in Content  BY <1>0, <1>1
<1> QED  BY <1>0, <1>1, <1>2, <1>3, <1>9, <1>10, <1>11 DEF RxCounts

(* accept_data_pdu() of the PDU that belongs there keeps every PDU in      *)
(* place.                                                                  *)
LEMMA AcceptInPlace ==
  ASSUME RxInd, RxInd', RxCounts, InPlace, NEW sn \in SN, inside_rx_window(sn),
         NEW p, NEW ds, accept_data_pdu(sn, Len(delivered) + Dist(sn, vr_r), p, ds)
  PROVE  InPlace'
<1> DEFINE d == Len(delivered)
           pl == d + Dist(sn, vr_r)
<1>0. /\ MOD \in Nat /\ WINDOW \in Nat /\ 2 * WINDOW <= MOD /\ vr_r \in SN
      /\ delivered \in Seq(Content) /\ d \in Nat
      /\ \A s \in DOMAIN rx_window : s \in SN /\ rx_window[s] \in Content
  BY WindowAssumption, LenProperties DEF RxInd, RxWindowType, RxCounts
<1>1. \A s \in SN : Dist(s, vr_r) \in Nat /\ Dist(s, vr_r) < MOD
  <2>1. \A s \in SN : Dist(s, vr_r) \in SN  BY <1>0, DistValue
  <2> QED  BY <1>0, <2>1 DEF SN
<1>2. pl \in Content  BY <1>0, <1>1 DEF Content
<1>3. \A s \in DOMAIN rx_window \cup {sn} :
        s \in SN /\ (IF s = sn THEN pl ELSE rx_window[s]) = d + Dist(s, vr_r)
  BY <1>0 DEF InPlace
<1>4. \A s \in DOMAIN rx_window' : s \in SN /\ rx_window'[s] = d + Dist(s, vr_r)
  BY <1>0, <1>2, <1>3, AcceptDelivers
<1>5. PICK n \in SN :
        /\ vr_r' = Plus(vr_r, n) /\ Len(delivered') = d + n
        /\ \A i \in 1 .. d : delivered'[i] = delivered[i]
        /\ \A i \in 0 .. n - 1 :
             /\ Plus(vr_r, i) \in DOMAIN rx_window \cup {sn}
             /\ delivered'[d + i + 1] =
                  IF Plus(vr_r, i) = sn THEN pl ELSE rx_window[Plus(vr_r, i)]
  BY <1>0, <1>2, AcceptDelivers
<1> HIDE DEF pl
<1>6. n \in Nat /\ n <= WINDOW
  <2>1. n <= Dist(High(sn), vr_r) /\ Dist(High(sn), vr_r) <= WINDOW  BY <1>5, RunBelowHigh
  <2>2. Dist(High(sn), vr_r) \in Nat  BY <1>1, HighValue
  <2> QED  BY <1>0, <2>1, <2>2 DEF SN
<1>7. \A i \in 0 .. n - 1 : delivered'[d + i + 1] = d + i
  <2> SUFFICES ASSUME NEW i \in 0 .. n - 1 PROVE delivered'[d + i + 1] = d + i  OBVIOUS
  <2>1. i \in SN  BY <1>0, <1>6 DEF SN
  <2>2. Dist(Plus(vr_r, i), vr_r) = i  BY <1>0, <2>1, PlusDist
  <2> QED  BY <1>3, <1>5, <2>2
<1>8. ASSUME NEW i \in 1 .. d + n PROVE delivered'[i] = i - 1
  <2>1. CASE i <= d
    <3>1. i \in 1 .. d  BY <1>0, <1>6, <2>1
    <3> QED  BY <1>5, <3>1 DEF InPlace
  <2>2. CASE ~ (i <= d)
    <3>1. i - 1 - d \in 0 .. n - 1 /\ d + (i - 1 - d) + 1 = i /\ d + (i - 1 - d) = i - 1
      BY <1>0, <1>6, <2>2
    <3> QED  BY <1>7, <3>1
  <2> QED  BY <2>1, <2>2
<1>9. ASSUME NEW s \in DOMAIN rx_window'
      PROVE  rx_window'[s] = Len(delivered') + Dist(s, vr_r')
  <2>1. s \in SN /\ rx_window'[s] = d + Dist(s, vr_r)  BY <1>4
  <2>2. Dist(s, vr_r') = IF n <= Dist(s, vr_r) THEN Dist(s, vr_r) - n ELSE Dist(s, vr_r) - n + MOD
    BY <1>0, <1>5, <2>1, DistShift
  <2>3. Dist(s, vr_r') < Dist(vr_h', vr_r') /\ Dist(vr_h', vr_r') <= WINDOW
    BY DEF RxInd, RxWindowInv
  <2>4. Dist(vr_h', vr_r') \in Nat
    <3>1. vr_h' \in SN /\ vr_r' \in SN  BY DEF RxInd, RxWindowType
    <3> QED  BY <1>0, <3>1, DistValue DEF SN
  <2>5. Dist(s, vr_r) \in Nat /\ Len(delivered') = d + n  BY <1>1, <1>5, <2>1
  <2>6. n <= Dist(s, vr_r)
    <3> SUFFICES ASSUME ~ (n <= Dist(s, vr_r)) PROVE FALSE  OBVIOUS
    <3>1. Dist(s, vr_r') = Dist(s, vr_r) - n + MOD  BY <2>2
    <3> QED  BY <1>0, <1>6, <2>3, <2>4, <2>5, <3>1
  <2>7. Dist(s, vr_r') = Dist(s, vr_r) - n  BY <2>2, <2>6
  <2> HIDE DEF d
  <2> QED  BY <1>0, <1>6, <2>1, <2>5, <2>7
<1> QED  BY <1>5, <1>8, <1>9 DEF InPlace

(* The place of a PDU that is inside the receive window: its count, taken  *)
(* from the low edge, is the distance of its number.  It is at most        *)
(* MOD - WINDOW PDUs old, so it is not one from before the window.         *)
LEMMA PduPlace ==
  ASSUME RxInd, RxCounts, built \in Nat, built < Len(delivered) + MOD,
         NEW pl \in Nat, pl < built, built <= pl + MOD - WINDOW, inside_rx_window(pl % MOD)
  PROVE  pl = Len(delivered) + Dist(pl % MOD, vr_r)
<1> DEFINE d == Len(delivered)
           sn == pl % MOD
<1>1. /\ MOD \in Nat /\ WINDOW \in Nat /\ 0 < WINDOW /\ 0 < MOD
      /\ d \in Nat /\ vr_r \in SN /\ vr_h \in SN /\ vr_r = d % MOD /\ d + Dist(vr_h, vr_r) <= built
  BY WindowAssumption, LenProperties DEF RxInd, RxWindowType, RxCounts
<1>2. sn \in SN /\ Dist(vr_h, vr_r) \in SN  BY <1>1, Division, DistValue
<1>3. d <= built  BY <1>1, <1>2 DEF SN
<1>4. Dist(sn, vr_r) < WINDOW  BY <1>2, HighValue
<1> HIDE DEF d
<1>5. CASE d <= pl
  <2>1. pl - d \in SN  BY <1>1, <1>5 DEF SN, d
  <2>2. Dist(pl % MOD, d % MOD) = pl - d  BY <1>1, <2>1, CountGap
  <2> QED  BY <1>1, <2>2 DEF d
<1>6. CASE pl < d
  <2>1. /\ d - pl \in SN /\ 0 < d - pl /\ d - pl <= MOD - WINDOW
    BY <1>1, <1>3, <1>6 DEF SN, d
  <2>2. Dist(d % MOD, pl % MOD) = d - pl  BY <1>1, <2>1, CountGap
  <2>3. Dist(vr_r, sn) = d - pl  BY <1>1, <2>2
  <2> HIDE DEF sn
  <2>4. Dist(sn, vr_r) = MOD - Dist(vr_r, sn)
    <3>1. /\ Dist(vr_r, sn) = IF sn <= vr_r THEN vr_r - sn ELSE vr_r - sn + MOD
          /\ Dist(sn, vr_r) = IF vr_r <= sn THEN sn - vr_r ELSE sn - vr_r + MOD
      BY <1>1, <1>2, DistValue
    <3>2. sn \in Int /\ vr_r \in Int /\ 0 < Dist(vr_r, sn)  BY <1>1, <1>2, <2>1, <2>3 DEF SN
    <3> QED  BY <1>1, <3>1, <3>2
  <2>5. FALSE  BY <1>1, <1>4, <2>1, <2>3, <2>4
  <2> QED  BY <2>5
<1> QED  BY <1>1, <1>5, <1>6

(* Segments as they arrive, and as they are stored. *)
LinkSegment == [so : 0 .. PduLen - 1, len : 1 .. PduLen, pl : Nat]

SegmentsStored ==
  /\ DOMAIN rx_segments \subseteq SN
  /\ \A sn \in DOMAIN rx_segments : rx_segments[sn] \in Seq(LinkSegment)

(* The receiver as the link sees it. *)
RxLink == RxInd /\ RxCounts /\ SegmentsStored

(* Steps that leave the window alone leave its counts alone. *)
LEMMA SameCounts ==
  ASSUME RxCounts, UNCHANGED <<vr_r, vr_h, rx_window, delivered, built>>
  PROVE  RxCounts' /\ Len(delivered) <= Len(delivered')
<1>1. Len(delivered) \in Nat  BY LenProperties DEF RxCounts
<1> QED  BY <1>1 DEF RxCounts

(* handle_data_pdu() for a PDU or for one put together from segments. *)
LEMMA HandleCounts ==
  ASSUME RxInd, RxCounts, built \in Nat, UNCHANGED built, NEW sn \in SN,
         inside_rx_window(sn) => Len(delivered) + Dist(sn, vr_r) < built,
         NEW pl \in Content, NEW p, NEW ds, handle_data_pdu(sn, pl, p, ds)
  PROVE  RxCounts' /\ Len(delivered) <= Len(delivered')
<1>1. CASE ~ inside_rx_window(sn) \/ sn \in DOMAIN rx_window
  <2>1. UNCHANGED rxWindowVars  BY <1>1 DEF handle_data_pdu, discard_data_pdu
  <2> QED  BY <2>1, SameCounts DEF rxWindowVars
<1>2. CASE ~ (~ inside_rx_window(sn) \/ sn \in DOMAIN rx_window)
  <2>1. accept_data_pdu(sn, pl, p, ds)  BY <1>2 DEF handle_data_pdu
  <2> QED  BY <1>2, <2>1, AcceptCounts
<1> QED  BY <1>1, <1>2

(* What segments are put together to is some PDU's content or a mixture. *)
LEMMA FullPduContent ==
  ASSUME NEW segs \in Seq(LinkSegment), Len(segs) > 0
  PROVE  full_pdu(segs) \in Content
<1>1. 1 \in 1 .. Len(segs)  BY LenProperties
<1>2. segs[1] \in LinkSegment  BY <1>1, ElementOfSeq
<1>3. segs[1].pl \in Nat  BY <1>2 DEF LinkSegment
<1> QED  BY <1>3 DEF full_pdu, Content

(* handle_data_pdu_segment(), in each of its three cases. *)
LEMMA SegmentCounts ==
  ASSUME RxLink, built \in Nat, UNCHANGED built, NEW sn \in SN,
         inside_rx_window(sn) => Len(delivered) + Dist(sn, vr_r) < built,
         NEW seg \in LinkSegment, NEW p, handle_data_pdu_segment(sn, seg, p)
  PROVE  RxLink' /\ Len(delivered) <= Len(delivered')
<1> USE DEF RxLink
<1>0. RxInd'  BY SegmentKeepsWindow
<1>1. CASE ~ inside_rx_window(sn)
  <2>1. UNCHANGED <<rxWindowVars, rx_segments>>
    BY <1>1 DEF handle_data_pdu_segment, discard_data_pdu
  <2>2. RxCounts' /\ Len(delivered) <= Len(delivered')  BY <2>1, SameCounts DEF rxWindowVars
  <2> QED  BY <1>0, <2>1, <2>2 DEF SegmentsStored
<1>2. CASE inside_rx_window(sn) /\ sn \in DOMAIN rx_segments
  <2> DEFINE segs == insert_segment(rx_segments[sn], seg)
  <2>1. add_segment_and_check(sn, seg, p)  BY <1>2 DEF handle_data_pdu_segment
  <2>2. segs \in Seq(LinkSegment) /\ Len(segs) = Len(rx_segments[sn]) + 1
    BY <1>2, InsertKeepsSegments DEF SegmentsStored
  <2>3. Len(segs) > 0  BY <1>2, <2>2, LenProperties DEF SegmentsStored
  <2>4. IF complete(segs)
        THEN /\ handle_data_pdu(sn, full_pdu(segs), FALSE, do_status \/ p)
             /\ rx_segments' = [s \in DOMAIN rx_segments \ {sn} |-> rx_segments[s]]
        ELSE put_segments(sn, segs) /\ UNCHANGED rxWindowVars
    BY <2>1, Zenon DEF add_segment_and_check
  <2> HIDE DEF segs
  <2>5. CASE complete(segs)
    <3>1. SegmentsStored'  BY <2>4, <2>5 DEF SegmentsStored
    <3>2. full_pdu(segs) \in Content  BY <2>2, <2>3, FullPduContent
    <3> QED  BY <1>0, <1>2, <2>4, <2>5, <3>1, <3>2, HandleCounts, ZenonT(30)
  <2>6. CASE ~ complete(segs)
    <3>1. SegmentsStored'  BY <2>2, <2>4, <2>6 DEF SegmentsStored, put_segments
    <3>2. RxCounts' /\ Len(delivered) <= Len(delivered')
      BY <2>4, <2>6, SameCounts DEF rxWindowVars
    <3> QED  BY <1>0, <3>1, <3>2
  <2> QED  BY <2>5, <2>6
<1>3. CASE inside_rx_window(sn) /\ sn \notin DOMAIN rx_segments
  <2>1. first_segment(sn, seg, p)  BY <1>3 DEF handle_data_pdu_segment
  <2>2. /\ put_segments(sn, <<seg>>) /\ vr_h' = High(sn) /\ UNCHANGED <<vr_r, rx_window, delivered>>
    BY <2>1 DEF first_segment, High
  <2>3. <<seg>> \in Seq(LinkSegment)  OBVIOUS
  <2>4. SegmentsStored'  BY <2>2, <2>3 DEF SegmentsStored, put_segments
  <2>5. /\ Len(delivered) \in Nat /\ vr_r \in SN /\ vr_h \in SN
    BY LenProperties DEF RxCounts, RxInd, RxWindowType
  <2>6. Dist(sn, vr_r) \in Nat /\ Dist(vr_h, vr_r) \in Nat
    <3>1. Dist(sn, vr_r) \in SN /\ Dist(vr_h, vr_r) \in SN  BY <2>5, DistValue
    <3> QED  BY <3>1, WindowAssumption DEF SN
  <2>7. Dist(High(sn), vr_r) = IF Dist(sn, vr_r) >= Dist(vr_h, vr_r)
                               THEN Dist(sn, vr_r) + 1 ELSE Dist(vr_h, vr_r)
    BY <1>3, HighValue
  <2>8. Len(delivered) + Dist(High(sn), vr_r) <= built
    BY <1>3, <2>5, <2>6, <2>7 DEF RxCounts
  <2>9. RxCounts'  BY <2>2, <2>8 DEF RxCounts
  <2> QED  BY <1>0, <2>2, <2>4, <2>5, <2>9
<1> QED  BY <1>1, <1>2, <1>3

-----------------------------------------------------------------------------
(***************************************************************************)
(* The sender, counted: acked PDUs have been released, built have been     *)
(* built.                                                                  *)
(***************************************************************************)
acked == built - in_flight

TxCounts == vt_a = acked % MOD /\ vt_s = built % MOD

(* The PDUs between the MACs carry the numbers of their counts, and none   *)
(* is old enough for its number to be taken for a later one's.             *)
LinkData == \A pdu \in data_ch :
  /\ pdu.sn = pdu.pl % MOD /\ pdu.pl < built /\ built <= pdu.pl + MOD - WINDOW

(* The number of a PDU that is sent again is that of its count. *)
LEMMA WindowCount ==
  ASSUME TxWindow, TxCounts, NEW sn \in DOMAIN tx_window
  PROVE  sn = tx_window[sn] % MOD
<1> DEFINE pl == tx_window[sn]
<1>1. /\ sn \in SN /\ pl \in Nat /\ built \in Nat /\ vt_s \in SN /\ vt_s = built % MOD
      /\ pl = built - Dist(vt_s, sn)
  BY TxWindowContents DEF TxWindow, TxCounts
<1> HIDE DEF pl
<1>2. Dist(vt_s, sn) \in SN /\ MOD \in Nat  BY <1>1, DistValue, WindowAssumption
<1>3. built - pl = Dist(vt_s, sn)  BY <1>1, <1>2 DEF SN
<1>4. Dist(built % MOD, pl % MOD) = built - pl  BY <1>1, <1>2, <1>3, CountGap
<1>5. Dist(vt_s, pl % MOD) = Dist(vt_s, sn) /\ pl % MOD \in SN  BY <1>1, <1>3, <1>4, Division
<1>6. \A x \in SN : Dist(vt_s, x) = IF x <= vt_s THEN vt_s - x ELSE vt_s - x + MOD
  BY <1>1, DistValue
<1>7. pl % MOD = sn  BY <1>1, <1>2, <1>5, <1>6 DEF SN
<1> QED  BY <1>7 DEF pl

(* What transmit() puts into the channel. *)
LEMMA TransmitEnters ==
  ASSUME NEW sn, NEW pl, NEW p, NEW rf, NEW so, NEW len, transmit(sn, pl, p, rf, so, len),
         NEW pdu \in data_ch'
  PROVE  pdu \in data_ch \/ (pdu.sn = sn /\ pdu.pl = pl /\ pdu.rf = rf)
<1>1. CASE pdu = [sn |-> sn, pl |-> pl, p |-> p, rf |-> rf, so |-> so, len |-> len]  BY <1>1
<1> QED  BY <1>1 DEF transmit

(* read_pdu(): a PDU that enters the channel is a new one, or one of the   *)
(* window that is sent again, in whole or in part.                         *)
LEMMA RetxIsKnown ==
  ASSUME TxWindow, TxQueue, NEW space \in 0 .. PduLen, build_retx_pdu(space),
         NEW pdu \in data_ch'
  PROVE  pdu \in data_ch \/ (pdu.sn \in DOMAIN tx_window /\ pdu.pl = tx_window[pdu.sn])
<1> DEFINE live == {i \in 1 .. Len(retx_queue) : retx_queue[i].sn \in DOMAIN tx_window}
           k == Min(live)
           q == SubSeq(retx_queue, k, Len(retx_queue))
           retx == Head(q)
<1>1. CASE live = {}
  <2>1. UNCHANGED data_ch  BY <1>1 DEF build_retx_pdu
  <2> QED  BY <2>1
<1>2. CASE live # {}
  <2>1. /\ k \in 1 .. Len(retx_queue) /\ retx_queue[k].sn \in DOMAIN tx_window
        /\ \A i \in 1 .. k - 1 : retx_queue[i].sn \notin DOMAIN tx_window
    BY <1>2, RetxFront, Zenon
  <2>2. IF retx.is_segment \/ space < PduLen
        THEN build_segment(space, q)
        ELSE transmit(retx.sn, tx_window[retx.sn], poll_required(pdu_without_poll),
                      FALSE, 0, PduLen)
    BY <1>2, Zenon DEF build_retx_pdu
  <2> HIDE DEF live, k
  <2>3. FrontAt(k, q)  BY <2>1 DEF FrontAt
  <2>4. retx = retx_queue[k]  BY <2>3, FrontSuffix, ZenonT(30)
  <2>5. retx.sn \in DOMAIN tx_window  BY <2>1, <2>4
  <2> HIDE DEF q, retx
  <2>7. CASE build_segment(space, q)
    <3>1. \/ UNCHANGED data_ch
          \/ \E p, rf, so, len : transmit(retx.sn, tx_window[retx.sn], p, rf, so, len)
      BY <2>7, Zenon DEF build_segment, retx
    <3> QED  BY <2>5, <3>1, TransmitEnters
  <2>8. CASE ~ build_segment(space, q)
    <3>1. transmit(retx.sn, tx_window[retx.sn], poll_required(pdu_without_poll), FALSE, 0, PduLen)
      BY <2>2, <2>8, Zenon
    <3>2. pdu \in data_ch \/ (pdu.sn = retx.sn /\ pdu.pl = tx_window[retx.sn])
      BY <3>1, TransmitEnters
    <3> QED  BY <2>5, <3>2
  <2> QED  BY <2>7, <2>8
<1> QED  BY <1>1, <1>2

(* The same for every step of the sender. *)
LEMMA SendIsKnown ==
  ASSUME TxWindow, TxQueue, TxStep, NEW pdu \in data_ch'
  PROVE  \/ pdu \in data_ch
         \/ pdu.sn \in DOMAIN tx_window /\ pdu.pl = tx_window[pdu.sn]
         \/ pdu.sn = vt_s /\ pdu.pl = built /\ built' = built + 1
<1>1. CASE write_sdu \/ tx_get_buffer_state \/ PollRetxExpires
  <2>1. UNCHANGED data_ch  BY <1>1, ZenonT(30) DEF write_sdu, tx_get_buffer_state, PollRetxExpires
  <2> QED  BY <2>1
<1>2. ASSUME NEW space \in 0 .. PduLen, read_pdu(space)
      PROVE  \/ pdu \in data_ch
             \/ pdu.sn \in DOMAIN tx_window /\ pdu.pl = tx_window[pdu.sn]
             \/ pdu.sn = vt_s /\ pdu.pl = built /\ built' = built + 1
  <2>1. CASE build_retx_pdu(space)  BY <2>1, RetxIsKnown
  <2>2. CASE build_data_pdu(space)  BY <2>2 DEF build_data_pdu, transmit
  <2> QED  BY <1>2, <2>1, <2>2 DEF read_pdu
<1> QED  BY <1>1, <1>2 DEF TxStep

(* The counts of the sender change only as PDUs are built. *)
LEMMA TxStepCounts ==
  ASSUME MaxInFlight \in SN, TxInd, TxCounts, TxStep
  PROVE  /\ TxCounts' /\ acked' = acked
         /\ built' = built \/ built' = built + 1
<1>1. CASE UNCHANGED <<txWindowVars, built>>
  BY <1>1 DEF TxCounts, acked, in_flight, txWindowVars
<1>2. ASSUME NEW space, build_data_pdu(space), ~ UNCHANGED <<txWindowVars, built>>
      PROVE  TxCounts' /\ acked' = acked /\ built' = built + 1
  <2>1. /\ in_flight < MaxInFlight
        /\ tx_window' = [s \in DOMAIN tx_window \cup {vt_s} |->
                           IF s = vt_s THEN built ELSE tx_window[s]]
        /\ vt_s' = Plus(vt_s, 1) /\ built' = built + 1
        /\ UNCHANGED <<vt_a, vt_ms>>
    BY <1>2, ZenonT(30) DEF build_data_pdu
  <2>2. in_flight \in SN /\ in_flight + 1 < MOD
    BY <2>1, TxWindowMember, WindowAssumption DEF TxInd, SN
  <2>3. in_flight' = in_flight + 1  BY <2>1, <2>2, BuildKeepsTxWindow DEF TxInd
  <2>4. built \in Nat /\ in_flight \in Int  BY <2>2, WindowAssumption DEF TxInd, TxWindow, SN
  <2>5. acked' = acked  BY <2>1, <2>3, <2>4 DEF acked
  <2>6. (built + 1) % MOD = Plus(built % MOD, 1)  BY <2>4, CountPlus
  <2> QED  BY <2>1, <2>5, <2>6 DEF TxCounts
<1>3. CASE write_sdu \/ tx_get_buffer_state \/ PollRetxExpires
  <2>1. UNCHANGED <<txWindowVars, built>>
    BY <1>3, Zenon DEF write_sdu, tx_get_buffer_state, PollRetxExpires
  <2> QED  BY <1>1, <2>1
<1>4. ASSUME NEW space \in 0 .. PduLen, read_pdu(space)
      PROVE  UNCHANGED <<txWindowVars, built>> \/ build_data_pdu(space)
  BY <1>4, Zenon DEF read_pdu, build_retx_pdu
<1> QED  BY <1>1, <1>2, <1>3, <1>4 DEF TxStep

(* Send keeps what is known of the PDUs between the MACs. *)
LEMMA SendKeepsData ==
  ASSUME MaxInFlight \in SN, TxInd, TxCounts, LinkData, TxStep, Lifetime
  PROVE  LinkData'
<1>1. built \in Nat /\ (built' = built \/ built' = built + 1)
  BY TxStepCounts DEF TxInd, TxWindow
<1>2. ASSUME NEW pdu \in data_ch' PROVE pdu.sn = pdu.pl % MOD /\ pdu.pl < built'
  <2>1. CASE pdu \in data_ch
    <3>1. pdu.pl \in Nat  BY <2>1 DEF TxInd, TxFlags, Pdu
    <3> QED  BY <1>1, <2>1, <3>1 DEF LinkData
  <2>2. CASE pdu.sn \in DOMAIN tx_window /\ pdu.pl = tx_window[pdu.sn]
    <3>1. pdu.pl \in Nat /\ pdu.pl < built  BY <2>2, TxWindowContents DEF TxInd
    <3>2. pdu.sn = pdu.pl % MOD  BY <2>2, WindowCount DEF TxInd
    <3> QED  BY <1>1, <3>1, <3>2
  <2>3. CASE pdu.sn = vt_s /\ pdu.pl = built /\ built' = built + 1
    BY <1>1, <2>3 DEF TxCounts
  <2> QED  BY <2>1, <2>2, <2>3, SendIsKnown DEF TxInd
<1> QED  BY <1>2 DEF LinkData, Lifetime

-----------------------------------------------------------------------------
(* The reports on their way follow one another. *)
LinkReports ==
  \E lo \in [1 .. Len(status_ch) + 1 -> Nat] :
    Chain(status_ch, status, lo, acked, Len(delivered), built)

(* prepare_status() tells what has been delivered: it NACKs the low edge   *)
(* unless that is where the acknowledgement ends.                          *)
LEMMA StatusTells ==
  ASSUME RxInd, RxCounts, built \in Nat, NEW ms \in SN, Dist(ms, vr_r) <= Dist(vr_h, vr_r)
  PROVE  /\ prepare_status(ms) \in StatusPdu
         /\ Tells(prepare_status(ms), Len(delivered), built)
<1> DEFINE d == Len(delivered)
           k == Dist(ms, vr_r)
           r == prepare_status(ms)
<1>1. /\ d \in Nat /\ vr_r \in SN /\ vr_h \in SN /\ vr_r = d % MOD
      /\ d + Dist(vr_h, vr_r) <= built /\ vr_r \notin DOMAIN rx_window
  <2>1. vr_r \in SN  BY DEF RxInd, RxWindowType
  <2>2. Dist(vr_r, vr_r) = 0  BY <2>1, PlusDist
  <2>3. vr_r \notin DOMAIN rx_window  BY <2>2 DEF RxInd, RxWindowInv
  <2> QED  BY <2>1, <2>3, LenProperties DEF RxInd, RxWindowType, RxCounts
<1>2. k \in SN /\ Dist(vr_h, vr_r) \in SN  BY <1>1, DistValue
<1>3. k \in Nat /\ Dist(vr_h, vr_r) \in Nat  BY <1>2, WindowAssumption DEF SN
<1>4. ms = (d + k) % MOD
  <2>1. Plus(vr_r, k) = ms  BY <1>1, PlusDist
  <2> HIDE DEF k, d
  <2>2. (d + k) % MOD = Plus(d % MOD, k)  BY <1>1, <1>3, CountPlus
  <2> QED  BY <1>1, <2>1, <2>2
<1>5. r.ack_sn = ms /\ r \in StatusPdu  BY DEF prepare_status, StatusPdu
<1>6. k # 0 => vr_r \in r.nacks
  <2>1. Dist(vr_r, vr_r) = 0  BY <1>1, PlusDist
  <2>2. k # 0 => Dist(vr_r, vr_r) < k  BY <1>3, <2>1
  <2> QED  BY <1>1, <2>2 DEF prepare_status
<1> HIDE DEF k, d, r
<1>7. d + k \in Nat /\ d <= d + k /\ d + k <= built /\ (k = 0 => d + k = d)
  BY <1>1, <1>3 DEF k
<1>8. Tells(r, d, built)  BY <1>1, <1>4, <1>5, <1>6, <1>7 DEF Tells
<1> QED  BY <1>5, <1>8 DEF r, d

(* handle_control_pdu() releases no PDU that the report does not tell of. *)
LEMMA ReleaseIsTold ==
  ASSUME TxWindow, TxCounts, NEW r, NEW x \in Nat, acked <= x, x <= built, Tells(r, x, built),
         NEW n \in Nat, n <= Dist(r.ack_sn, vt_a),
         \A i \in 0 .. n - 1 : Plus(vt_a, i) \notin r.nacks
  PROVE  acked + n <= x
<1>1. /\ MOD \in Nat /\ built \in Nat /\ vt_a \in SN /\ in_flight \in SN /\ in_flight <= built
      /\ vt_a = acked % MOD
  BY TxWindowMember, WindowAssumption DEF TxWindow, TxCounts
<1>2. acked \in Nat /\ x - acked \in SN /\ x - acked \in Nat  BY <1>1 DEF acked, SN
<1>3. PICK y \in Nat : x <= y /\ y <= built /\ r.ack_sn = y % MOD /\ (y = x \/ x % MOD \in r.nacks)
  BY DEF Tells
<1>4. CASE y = x
  <2>1. Dist(x % MOD, acked % MOD) = x - acked  BY <1>2, CountGap
  <2>2. n <= x - acked  BY <1>1, <1>3, <1>4, <2>1, SMTT(30)
  <2> QED  BY <1>2, <2>2
<1>5. CASE x % MOD \in r.nacks
  <2> SUFFICES ASSUME ~ (acked + n <= x) PROVE FALSE  OBVIOUS
  <2> DEFINE i == x - acked
  <2>1. i \in 0 .. n - 1  BY <1>2
  <2>2. i \in Int /\ acked + i = x  BY <1>2
  <2> HIDE DEF i
  <2>3. (acked + i) % MOD = Plus(acked % MOD, i)  BY <1>2, <2>2, CountPlus
  <2>4. Plus(vt_a, i) \in r.nacks  BY <1>1, <1>5, <2>2, <2>3
  <2> QED  BY <2>1, <2>4
<1> QED  BY <1>3, <1>4, <1>5

-----------------------------------------------------------------------------
(***************************************************************************)
(* The link.                                                               *)
(***************************************************************************)
LinkInd ==
  /\ TxInd /\ TxCounts /\ RxLink /\ acked <= Len(delivered)
  /\ LinkData /\ LinkReports

(* What has been released, delivered and built, in this order and less     *)
(* than MOD apart.                                                         *)
LEMMA LinkFacts ==
  ASSUME LinkInd
  PROVE  /\ built \in Nat /\ acked \in Nat /\ Len(delivered) \in Nat /\ MOD \in Nat
         /\ acked <= Len(delivered) /\ Len(delivered) <= built /\ built < Len(delivered) + MOD
<1>1. /\ MOD \in Nat /\ built \in Nat /\ in_flight \in SN /\ in_flight <= built
  BY TxWindowMember, WindowAssumption DEF LinkInd, TxInd, TxWindow
<1>2. /\ Len(delivered) \in Nat /\ vr_r \in SN /\ vr_h \in SN
      /\ Len(delivered) + Dist(vr_h, vr_r) <= built /\ acked <= Len(delivered)
  BY LenProperties DEF LinkInd, RxLink, RxInd, RxWindowType, RxCounts
<1>3. Dist(vr_h, vr_r) \in SN  BY <1>2, DistValue
<1> QED  BY <1>1, <1>2, <1>3 DEF acked, SN

(* Reports stay true as more is received and built. *)
LEMMA ReportsStay ==
  ASSUME LinkReports, acked \in Nat, Len(delivered) \in Nat, built \in Nat,
         UNCHANGED <<status_ch, status>>, acked' = acked,
         Len(delivered') \in Nat, Len(delivered) <= Len(delivered'),
         built' \in Nat, built <= built'
  PROVE  LinkReports'
<1>1. PICK lo \in [1 .. Len(status_ch) + 1 -> Nat] :
        Chain(status_ch, status, lo, acked, Len(delivered), built)
  BY DEF LinkReports
<1>2. acked <= lo[1]
  <2>1. Len(status_ch) \in Nat  BY <1>1, LenProperties DEF Chain
  <2>2. 1 \in 1 .. Len(status_ch) + 1  BY <2>1
  <2> QED  BY <1>1, <2>2 DEF Chain
<1>3. Chain(status_ch, status, lo, acked, Len(delivered'), built')
  BY <1>1, <1>2, ChainGrows
<1>4. Chain(status_ch', status', lo, acked', Len(delivered'), built')  BY <1>3
<1> QED  BY <1>1, <1>4 DEF LinkReports

(* A PDU leaves the channel. *)
LEMMA LessData ==
  ASSUME TxInd, TxCounts, LinkData, data_ch' \subseteq data_ch,
         UNCHANGED <<txWindowVars, retx_queue, txPollVars, tx_sdus, tx_opportunity, tx_ub, built>>
  PROVE  TxInd' /\ TxCounts' /\ LinkData' /\ acked' = acked
<1>1. TxWindow'  BY SameTxWindow DEF TxInd
<1>2. TxQueue'  BY DEF TxInd, TxQueue
<1>3. TxFlags'  BY DEF TxInd, TxFlags, txPollVars
<1>4. TxCounts' /\ acked' = acked  BY DEF TxCounts, acked, in_flight, txWindowVars
<1>5. LinkData'  BY DEF LinkData
<1> QED  BY <1>1, <1>2, <1>3, <1>4, <1>5 DEF TxInd

(* A step of the sender leaves the receiver as it is. *)
LEMMA SameReceiver ==
  ASSUME RxLink, Len(delivered) \in Nat, UNCHANGED rxVars,
         built \in Nat, built' \in Nat, built <= built'
  PROVE  RxLink' /\ UNCHANGED <<status, delivered>>
<1>1. UNCHANGED <<vr_r, vr_mr, vr_x, vr_ms, vr_h, rx_window, reordering_timeout, delivered,
                  rx_segments, status>>
  BY DEF rxVars, rxWindowVars
<1>2. RxInd'  BY <1>1, SameWindow DEF RxLink
<1>3. Dist(vr_h, vr_r) \in Nat
  <2>1. Dist(vr_h, vr_r) \in SN  BY DistValue DEF RxLink, RxInd, RxWindowType
  <2> QED  BY <2>1, WindowAssumption DEF SN
<1>4. Len(delivered) + Dist(vr_h, vr_r) <= built'  BY <1>3 DEF RxLink, RxCounts
<1>5. RxCounts'  BY <1>1, <1>4 DEF RxLink, RxCounts
<1>6. SegmentsStored'  BY <1>1 DEF RxLink, SegmentsStored
<1> QED  BY <1>1, <1>2, <1>5, <1>6 DEF RxLink

(* One lemma per action of the link: each keeps the invariant, and says    *)
(* what it does to the three counts.                                       *)
LEMMA SendKeepsLink ==
  ASSUME MaxInFlight \in SN, LinkInd, Send
  PROVE  /\ LinkInd' /\ acked' = acked /\ UNCHANGED delivered
         /\ built' = built \/ built' = built + 1
<1>1. TxStep /\ Lifetime /\ UNCHANGED <<rxVars, status_ch>>  BY DEF Send
<1>2. TxInd /\ TxCounts /\ LinkData /\ RxLink /\ LinkReports  BY DEF LinkInd
<1>3. TxInd'  BY <1>1, <1>2, TxStepKeepsInd
<1>4. TxCounts' /\ acked' = acked /\ (built' = built \/ built' = built + 1)
  BY <1>1, <1>2, TxStepCounts
<1>5. LinkData'  BY <1>1, <1>2, SendKeepsData
<1>6. /\ built \in Nat /\ acked \in Nat /\ Len(delivered) \in Nat /\ acked <= Len(delivered)
  BY LinkFacts
<1>7. built' \in Nat /\ built <= built' /\ Len(delivered) <= Len(delivered)  BY <1>4, <1>6
<1>8. RxLink' /\ UNCHANGED <<status, delivered>>  BY <1>1, <1>2, <1>6, <1>7, SameReceiver
<1>9. LinkReports'
  <2>1. UNCHANGED <<status_ch, status>> /\ delivered' = delivered  BY <1>1, <1>8
  <2> QED  BY <1>2, <1>4, <1>6, <1>7, <2>1, ReportsStay
<1> QED  BY <1>3, <1>4, <1>5, <1>6, <1>8, <1>9 DEF LinkInd

(* The loss of a PDU. *)
LEMMA LoseDataKeepsLink ==
  ASSUME LinkInd, LoseData
  PROVE  LinkInd' /\ acked' = acked /\ UNCHANGED <<delivered, built>>
<1>1. /\ data_ch' \subseteq data_ch
      /\ UNCHANGED <<txWindowVars, retx_queue, txPollVars, tx_sdus, tx_opportunity, tx_ub, built>>
      /\ UNCHANGED <<rxVars, status_ch>>
  BY DEF LoseData, PduLeaves
<1>2. TxInd /\ TxCounts /\ LinkData /\ RxLink /\ LinkReports  BY DEF LinkInd
<1>3. TxInd' /\ TxCounts' /\ LinkData' /\ acked' = acked  BY <1>1, <1>2, LessData
<1>4. /\ built \in Nat /\ acked \in Nat /\ Len(delivered) \in Nat /\ acked <= Len(delivered)
  BY LinkFacts
<1>5. built' \in Nat /\ built <= built' /\ Len(delivered) <= Len(delivered)  BY <1>1, <1>4
<1>6. RxLink' /\ UNCHANGED <<status, delivered>>  BY <1>1, <1>2, <1>4, <1>5, SameReceiver
<1>7. LinkReports'
  <2>1. UNCHANGED <<status_ch, status>> /\ delivered' = delivered  BY <1>1, <1>6
  <2> QED  BY <1>2, <1>3, <1>4, <1>5, <2>1, ReportsStay
<1> QED  BY <1>1, <1>3, <1>4, <1>6, <1>7 DEF LinkInd

(* The place of a PDU that arrives. *)
LEMMA ArrivalPlace ==
  ASSUME LinkInd, NEW pdu \in data_ch
  PROVE  /\ pdu \in Pdu
         /\ inside_rx_window(pdu.sn) => /\ pdu.pl = Len(delivered) + Dist(pdu.sn, vr_r)
                                        /\ Len(delivered) + Dist(pdu.sn, vr_r) < built
<1>1. pdu \in Pdu  BY DEF LinkInd, TxInd, TxFlags
<1>2. pdu.pl \in Nat  BY <1>1 DEF Pdu
<1>3. pdu.sn = pdu.pl % MOD /\ pdu.pl < built /\ built <= pdu.pl + MOD - WINDOW
  BY DEF LinkInd, LinkData
<1>4. built \in Nat /\ built < Len(delivered) + MOD  BY LinkFacts
<1>5. inside_rx_window(pdu.sn) => pdu.pl = Len(delivered) + Dist(pdu.sn, vr_r)
  BY <1>2, <1>3, <1>4, PduPlace DEF LinkInd, RxLink
<1> QED  BY <1>1, <1>3, <1>5

(* A PDU or a segment arrives. *)
LEMMA ReceiveKeepsLink ==
  ASSUME LinkInd, Receive
  PROVE  LinkInd' /\ acked' = acked /\ UNCHANGED built /\ Len(delivered) <= Len(delivered')
<1>1. PICK pdu \in data_ch :
        /\ data_ch' = data_ch \ {pdu}
        /\ IF pdu.rf
           THEN WriteSegment(pdu.sn, [so |-> pdu.so, len |-> pdu.len, pl |-> pdu.pl], pdu.p)
           ELSE WriteDataPdu(pdu.sn, pdu.pl, pdu.p)
  BY DEF Receive
<1>2. UNCHANGED <<txWindowVars, retx_queue, txPollVars, tx_sdus, tx_opportunity, tx_ub, built,
                  status_ch>>
  BY DEF Receive
<1>3. TxInd /\ TxCounts /\ LinkData /\ RxLink /\ LinkReports  BY DEF LinkInd
<1>4. TxInd' /\ TxCounts' /\ LinkData' /\ acked' = acked  BY <1>1, <1>2, <1>3, LessData
<1>5. /\ built \in Nat /\ acked \in Nat /\ Len(delivered) \in Nat /\ acked <= Len(delivered)
  BY LinkFacts
<1>6. /\ pdu \in Pdu
      /\ inside_rx_window(pdu.sn) => Len(delivered) + Dist(pdu.sn, vr_r) < built
  BY ArrivalPlace
<1>7. /\ pdu.sn \in SN /\ pdu.pl \in Nat /\ pdu.pl \in Content
      /\ [so |-> pdu.so, len |-> pdu.len, pl |-> pdu.pl] \in LinkSegment
  BY <1>6 DEF Pdu, Content, LinkSegment
<1>8. RxLink' /\ Len(delivered) <= Len(delivered') /\ UNCHANGED status
  <2>1. CASE pdu.rf
    <3> DEFINE seg == [so |-> pdu.so, len |-> pdu.len, pl |-> pdu.pl]
    <3>1. handle_data_pdu_segment(pdu.sn, seg, pdu.p) /\ UNCHANGED status
      BY <1>1, <2>1 DEF WriteSegment
    <3> HIDE DEF seg
    <3> QED  BY <1>2, <1>3, <1>5, <1>6, <1>7, <3>1, SegmentCounts DEF seg
  <2>2. CASE ~ pdu.rf
    <3>1. handle_data_pdu(pdu.sn, pdu.pl, pdu.p, do_status) /\ UNCHANGED <<rx_segments, status>>
      BY <1>1, <2>2 DEF WriteDataPdu
    <3>2. RxInd'  BY <1>3, <1>7, <3>1, HandleDataPduKeepsWindow, SMTT(30) DEF RxLink
    <3>3. RxCounts' /\ Len(delivered) <= Len(delivered')
      BY <1>2, <1>3, <1>5, <1>6, <1>7, <3>1, HandleCounts DEF RxLink
    <3>4. SegmentsStored'  BY <1>3, <3>1 DEF RxLink, SegmentsStored
    <3> QED  BY <3>1, <3>2, <3>3, <3>4 DEF RxLink
  <2> QED  BY <2>1, <2>2
<1>9. Len(delivered') \in Nat  BY <1>8, LenProperties DEF RxLink, RxCounts
<1>10. LinkReports'
  <2>1. built' \in Nat /\ built <= built'  BY <1>2, <1>5
  <2> QED  BY <1>2, <1>3, <1>4, <1>5, <1>8, <1>9, <2>1, ReportsStay
<1>11. acked' <= Len(delivered')  BY <1>4, <1>5, <1>8, <1>9
<1> QED  BY <1>2, <1>4, <1>8, <1>10, <1>11, SMTT(30) DEF LinkInd

(* What the receiving half does on its own leaves the counts alone. *)
LEMMA ReportKeepsLink ==
  ASSUME LinkInd, Report
  PROVE  LinkInd' /\ acked' = acked /\ UNCHANGED <<delivered, built>>
<1>1. UNCHANGED txVars  BY DEF Report
<1>2. TxInd' /\ TxCounts' /\ LinkData' /\ acked' = acked /\ UNCHANGED built
  <2>1. /\ data_ch' \subseteq data_ch
        /\ UNCHANGED <<txWindowVars, retx_queue, txPollVars, tx_sdus, tx_opportunity, tx_ub, built>>
    BY <1>1 DEF txVars
  <2> QED  BY <2>1, LessData DEF LinkInd
<1>3. RxStep
  BY ZenonT(30) DEF Report, RxStep
<1>4. UNCHANGED <<vr_r, vr_mr, vr_h, rx_window, delivered, rx_segments>>
  BY <1>3 DEF RxStep, get_buffer_state, build_status_pdu, ReadOwnData, ReorderingExpires,
              ProhibitExpires, rxWindowVars
<1>5. RxLink'
  <2>1. [RxNext]_rxVars  BY <1>3 DEF RxNext
  <2>2. RxInd'  BY <2>1, RxStepKeepsWindow DEF LinkInd, RxLink
  <2>3. RxCounts'  BY <1>2, <1>4, SameCounts DEF LinkInd, RxLink
  <2>4. SegmentsStored'  BY <1>4 DEF LinkInd, RxLink, SegmentsStored
  <2> QED  BY <2>2, <2>3, <2>4 DEF RxLink
<1>6. /\ built \in Nat /\ acked \in Nat /\ Len(delivered) \in Nat /\ acked <= Len(delivered)
  BY LinkFacts
<1>7. PICK lo \in [1 .. Len(status_ch) + 1 -> Nat] :
        Chain(status_ch, status, lo, acked, Len(delivered), built)
  BY DEF LinkInd, LinkReports
<1>8. LinkReports'
  <2>1. CASE UNCHANGED <<status_ch, status>>
    <3>1. Chain(status_ch', status', lo, acked', Len(delivered'), built')
      BY <1>2, <1>4, <1>7, <2>1, SMTT(30)
    <3> QED  BY <2>1, <3>1, SMTT(30) DEF LinkReports
  <2>2. CASE UNCHANGED status_ch /\ status' = prepare_status(vr_ms')
    <3>1. vr_ms' \in SN /\ Dist(vr_ms', vr_r) <= Dist(vr_h, vr_r)
      BY <1>4, <1>5 DEF RxLink, RxInd, RxWindowType, RxWindowInv
    <3>2. status' \in StatusPdu /\ Tells(status', Len(delivered), built)
      BY <1>6, <2>2, <3>1, StatusTells DEF LinkInd, RxLink
    <3>3. \E lo2 \in [1 .. Len(status_ch) + 1 -> Nat] :
            Chain(status_ch, status', lo2, acked, Len(delivered), built)
      BY <1>6, <1>7, <3>2, ChainNew
    <3> QED  BY <1>2, <1>4, <2>2, <3>3, SMTT(30) DEF LinkReports
  <2>3. CASE status_ch' = Append(status_ch, status) /\ UNCHANGED status
    <3>1. \E lo2 \in [1 .. Len(Append(status_ch, status)) + 1 -> Nat] :
            Chain(Append(status_ch, status), status, lo2, acked, Len(delivered), built)
      BY <1>7, ChainSent
    <3> QED  BY <1>2, <1>4, <2>3, <3>1, SMTT(30) DEF LinkReports
  <2> QED
    BY <2>1, <2>2, <2>3
    DEF Report, get_buffer_state, build_status_pdu, ReadOwnData, ReorderingExpires, ProhibitExpires
<1> QED  BY <1>2, <1>4, <1>5, <1>6, <1>8 DEF LinkInd

(* A report is lost: the others tell what they told. *)
LEMMA LoseStatusKeepsLink ==
  ASSUME LinkInd, LoseStatus
  PROVE  LinkInd' /\ acked' = acked /\ UNCHANGED <<delivered, built>>
<1>1. PICK k \in 1 .. Len(status_ch) : status_ch' = RemoveAt(status_ch, k)  BY DEF LoseStatus
<1>2. UNCHANGED <<rxVars, txVars>>  BY DEF LoseStatus
<1>3. TxInd' /\ TxCounts' /\ LinkData' /\ acked' = acked /\ UNCHANGED built
  <2>1. /\ data_ch' \subseteq data_ch
        /\ UNCHANGED <<txWindowVars, retx_queue, txPollVars, tx_sdus, tx_opportunity, tx_ub, built>>
    BY <1>2 DEF txVars
  <2> QED  BY <2>1, LessData DEF LinkInd
<1>4. /\ built \in Nat /\ Len(delivered) \in Nat /\ acked <= Len(delivered)  BY LinkFacts
<1>5. RxLink' /\ UNCHANGED <<status, delivered>>
  <2>1. built' \in Nat /\ built <= built'  BY <1>3, <1>4
  <2> QED  BY <1>2, <1>4, <2>1, SameReceiver, SMTT(30) DEF LinkInd
<1>6. PICK lo \in [1 .. Len(status_ch) + 1 -> Nat] :
        Chain(status_ch, status, lo, acked, Len(delivered), built)
  BY DEF LinkInd, LinkReports
<1>7. \E lo2 \in [1 .. Len(RemoveAt(status_ch, k)) + 1 -> Nat] :
        Chain(RemoveAt(status_ch, k), status, lo2, acked, Len(delivered), built)
  BY <1>6, ChainGone
<1>8. LinkReports'  BY <1>1, <1>3, <1>5, <1>7 DEF LinkReports
<1> QED  BY <1>3, <1>4, <1>5, <1>8 DEF LinkInd

(* A report that arrives: it is the oldest one under way, and the sender   *)
(* releases no more than it tells of.                                      *)
LEMMA ReceiveStatusKeepsLink ==
  ASSUME ReorderStatus = FALSE, LinkInd, ReceiveStatus
  PROVE  /\ LinkInd' /\ UNCHANGED <<delivered, built>>
         /\ acked <= acked' /\ acked' <= Len(delivered)
<1> DEFINE r == status_ch[1]
           nacks == [sn \in r.nacks |-> Whole]
<1>1. /\ status_ch' = RemoveAt(status_ch, 1) /\ 1 \in 1 .. Len(status_ch)
      /\ handle_control_pdu(r.ack_sn, nacks) /\ UNCHANGED <<rxVars, data_ch>>
  BY DEF ReceiveStatus
<1>2. PICK lo \in [1 .. Len(status_ch) + 1 -> Nat] :
        Chain(status_ch, status, lo, acked, Len(delivered), built)
  BY DEF LinkInd, LinkReports
<1>3. /\ built \in Nat /\ Len(delivered) \in Nat /\ acked \in Nat
      /\ acked <= Len(delivered) /\ Len(delivered) <= built
  BY LinkFacts, SMTT(30)
<1>4. r \in StatusPdu /\ lo[1] \in Nat /\ acked <= lo[1] /\ lo[1] <= Len(delivered)
      /\ Tells(r, lo[1], built)
  <2>1. Len(status_ch) \in Nat /\ status_ch \in Seq(StatusPdu)  BY <1>2, LenProperties DEF Chain
  <2>2. r \in StatusPdu  BY <1>1, <2>1, ElementOfSeq
  <2>3. 1 \in 1 .. Len(status_ch) + 1  BY <2>1
  <2> QED  BY <1>1, <1>2, <2>2, <2>3, SMTT(30) DEF Chain
<1> HIDE DEF r
<1>5. r.ack_sn \in SN /\ DOMAIN nacks = r.nacks  BY <1>4 DEF StatusPdu
<1>6. \A sn \in DOMAIN nacks : nacks[sn] \in NackRange /\ nacks[sn].so_start < nacks[sn].so_end
  BY PduLenAssumption, SMTT(30) DEF NackRange, Whole
<1> HIDE DEF nacks
<1>7. TxInd'
  <2>1. data_ch' \subseteq Pdu  BY <1>1, SMTT(30) DEF LinkInd, TxInd, TxFlags
  <2> QED  BY <1>1, <1>5, <1>6, <2>1, ControlKeepsInd DEF LinkInd
<1>8. PICK n \in Nat :
        /\ n <= in_flight /\ n <= Dist(r.ack_sn, vt_a)
        /\ \A i \in 0 .. n - 1 : Plus(vt_a, i) \notin DOMAIN nacks
        /\ in_flight' = in_flight - n
        /\ UNCHANGED <<vt_s, built>> /\ vt_a' = Plus(vt_a, n)
  BY <1>1, <1>5, ControlReleases DEF LinkInd, TxInd
<1>9. acked' = acked + n
  <2>1. in_flight \in SN /\ MOD \in Nat  BY TxWindowMember, WindowAssumption DEF LinkInd, TxInd
  <2> QED  BY <1>3, <1>8, <2>1 DEF acked, SN
<1>10. acked + n <= lo[1]
  <2>1. lo[1] <= built  BY <1>3, <1>4
  <2> QED  BY <1>4, <1>5, <1>8, <2>1, ReleaseIsTold DEF LinkInd, TxInd
<1>11. acked <= acked' /\ acked' <= lo[1] /\ acked' <= Len(delivered) /\ acked' \in Nat
  BY <1>3, <1>4, <1>9, <1>10
<1>12. TxCounts' /\ LinkData'
  <2>1. (acked + n) % MOD = Plus(acked % MOD, n)  BY <1>3, CountPlus
  <2>2. TxCounts'  BY <1>8, <1>9, <2>1 DEF LinkInd, TxCounts
  <2>3. LinkData'  BY <1>1, <1>8 DEF LinkInd, LinkData
  <2> QED  BY <2>2, <2>3
<1>13. RxLink' /\ UNCHANGED <<status, delivered>>
  <2>1. built' \in Nat /\ built <= built'  BY <1>3, <1>8
  <2> QED  BY <1>1, <1>3, <2>1, SameReceiver, SMTT(30) DEF LinkInd
<1>14. LinkReports'
  <2> DEFINE q2 == RemoveAt(status_ch, 1)
  <2>1. PICK lo2 \in [1 .. Len(q2) + 1 -> Nat] :
          Chain(q2, status, lo2, acked, Len(delivered), built) /\ lo[1] <= lo2[1]
    BY <1>1, <1>2, ChainGone, ZenonT(30)
  <2>2. acked' <= lo2[1]
    <3>1. Len(q2) \in Nat  BY <2>1, LenProperties DEF Chain
    <3>2. 1 \in 1 .. Len(q2) + 1  BY <3>1
    <3>3. lo2[1] \in Nat  BY <2>1, <3>2
    <3> QED  BY <1>4, <1>11, <2>1, <3>3
  <2>3. Chain(q2, status, lo2, acked', Len(delivered), built)
    <3>1. acked' \in Nat /\ Len(delivered) \in Nat /\ built \in Int
          /\ Len(delivered) <= Len(delivered) /\ built <= built
      BY <1>3, <1>11
    <3> HIDE DEF q2
    <3> QED  BY <2>1, <2>2, <3>1, ChainGrows, SMTT(30)
  <2> QED  BY <1>1, <1>8, <1>13, <2>1, <2>3, SMTT(30) DEF LinkReports
<1> QED  BY <1>7, <1>8, <1>11, <1>12, <1>13, <1>14 DEF LinkInd

(* Nothing was sent on the link. *)
LEMMA LinkInitInd == LinkInit => LinkInd
<1> SUFFICES ASSUME LinkInit PROVE LinkInd  OBVIOUS
<1> USE DEF LinkInit
<1>0. /\ 0 \in SN /\ MOD \in Nat /\ 0 % MOD = 0 /\ DOMAIN << >> = {} /\ Len(<< >>) = 0
      /\ WINDOW \in SN
  BY WindowAssumption DEF SN
<1>1. TxInd  BY TxInitInd
<1>2. Dist(0, 0) = 0 /\ Plus(0, WINDOW) = WINDOW
  BY <1>0, PlusDist, PlusValue, WindowAssumption DEF SN
<1>3. acked = 0 /\ built = 0 /\ TxCounts  BY <1>0, <1>2 DEF TxInit, TxCounts, acked, in_flight
<1>4. RxLink
  <2>1. RxInd
    BY <1>0, <1>2, WindowAssumption
    DEF RxInit, RxInd, RxWindowType, RxWindowInv, Timeout
  <2>2. RxCounts  BY <1>0, <1>2, <1>3, EmptySeq DEF RxInit, RxCounts
  <2>3. SegmentsStored  BY <1>0 DEF RxInit, SegmentsStored
  <2> QED  BY <2>1, <2>2, <2>3, SMTT(30) DEF RxLink
<1>5. LinkData  BY DEF TxInit, LinkData
<1>6. LinkReports
  <2> DEFINE lo == [i \in 1 .. 1 |-> 0]
  <2>1. status = [ack_sn |-> 0, nacks |-> {}] /\ status_ch = << >> /\ delivered = << >>
    BY DEF RxInit
  <2>2. status \in StatusPdu /\ status.ack_sn = 0  BY <1>0, <2>1 DEF StatusPdu
  <2>3. Tells(status, 0, 0)  BY <1>0, <2>2 DEF Tells
  <2>4. status_ch \in Seq(StatusPdu) /\ Len(status_ch) = 0 /\ Len(delivered) = 0  BY <2>1
  <2>5. lo[1] = 0 /\ \A i \in 1 .. 0 + 1 : i = 1  OBVIOUS
  <2>6. lo \in [1 .. 0 + 1 -> Nat]  OBVIOUS
  <2> HIDE DEF lo
  <2>7. Chain(status_ch, status, lo, 0, 0, 0)  BY <2>2, <2>3, <2>4, <2>5, SMTT(30) DEF Chain
  <2> QED  BY <1>3, <2>4, <2>6, <2>7, SMTT(30) DEF LinkReports
<1>7. acked <= Len(delivered)  BY <1>0, <1>3 DEF RxInit
<1> QED  BY <1>1, <1>3, <1>4, <1>5, <1>6, <1>7 DEF LinkInd

(* A step of something else. *)
LEMMA SameLink ==
  ASSUME LinkInd, UNCHANGED linkVars
  PROVE  LinkInd' /\ acked' = acked /\ UNCHANGED <<delivered, built>>
<1>1. UNCHANGED <<rxVars, txVars, status_ch>>  BY DEF linkVars
<1>2. TxInd' /\ TxCounts' /\ LinkData' /\ acked' = acked /\ UNCHANGED built
  <2>1. /\ data_ch' \subseteq data_ch
        /\ UNCHANGED <<txWindowVars, retx_queue, txPollVars, tx_sdus, tx_opportunity, tx_ub, built>>
    BY <1>1 DEF txVars
  <2> QED  BY <2>1, LessData DEF LinkInd
<1>3. /\ built \in Nat /\ acked \in Nat /\ Len(delivered) \in Nat /\ acked <= Len(delivered)
  BY LinkFacts
<1>4. built' \in Nat /\ built <= built' /\ Len(delivered) <= Len(delivered)  BY <1>2, <1>3
<1>5. RxLink' /\ UNCHANGED <<status, delivered>>  BY <1>1, <1>3, <1>4, SameReceiver DEF LinkInd
<1>6. LinkReports'
  <2>1. UNCHANGED <<status_ch, status>> /\ delivered' = delivered  BY <1>1, <1>5
  <2> QED  BY <1>2, <1>3, <1>4, <2>1, ReportsStay DEF LinkInd
<1> QED  BY <1>2, <1>3, <1>5, <1>6, SMTT(30) DEF LinkInd

(* Every step keeps the invariant. *)
LEMMA LinkStepKeepsInd ==
  ASSUME MaxInFlight \in SN, ReorderStatus = FALSE, LinkInd, [LinkNext]_linkVars
  PROVE  LinkInd'
  BY SendKeepsLink, LoseDataKeepsLink, ReceiveKeepsLink, ReportKeepsLink, LoseStatusKeepsLink,
     ReceiveStatusKeepsLink, SameLink, ZenonT(30)
  DEF LinkNext

(* The invariant of the link, in every reachable state. *)
LEMMA LinkIndInvariant ==
  ASSUME MaxInFlight \in SN, ReorderStatus = FALSE
  PROVE  LinkSpec => []LinkInd
  BY LinkInitInd, LinkStepKeepsInd, PTL DEF LinkSpec

(* For every modulus, window, length of a PDU and loss of PDUs and         *)
(* reports: if reports arrive in the order in which they were sent, and    *)
(* fewer than MOD PDUs are in flight, handle_control_pdu() releases only   *)
(* PDUs that the peer has delivered.  (RlcAmLink_reordered_status.cfg      *)
(* shows that the order is needed.)                                        *)
THEOREM ReleasesOnlyReceived ==
  ASSUME MaxInFlight \in SN, ReorderStatus = FALSE
  PROVE  LinkSpec => []ReleasedIsReceived
<1>1. LinkInd => ReleasedIsReceived  BY DEF LinkInd, acked, ReleasedIsReceived
<1> QED  BY <1>1, LinkIndInvariant, PTL

-----------------------------------------------------------------------------
(***************************************************************************)
(* PDUs that are not cut: every grant holds a whole PDU or nothing.        *)
(***************************************************************************)
NoSegments ==
  /\ \A pdu \in data_ch : pdu.rf = FALSE
  /\ \A i \in 1 .. Len(retx_queue) : retx_queue[i].is_segment = FALSE

(* A retransmission that does not fit is not cut, and one that fits is     *)
(* sent whole.                                                             *)
LEMMA RetxIsWhole ==
  ASSUME PduLen = 1, TxQueue, NoSegments, NEW space \in 0 .. PduLen, build_retx_pdu(space)
  PROVE  NoSegments'
<1> DEFINE live == {i \in 1 .. Len(retx_queue) : retx_queue[i].sn \in DOMAIN tx_window}
           k == Min(live)
           q == SubSeq(retx_queue, k, Len(retx_queue))
           retx == Head(q)
<1>1. CASE live = {}
  <2>1. UNCHANGED <<retx_queue, data_ch>>  BY <1>1 DEF build_retx_pdu
  <2> QED  BY <2>1, SMTT(30) DEF NoSegments
<1>2. CASE live # {}
  <2>1. /\ k \in 1 .. Len(retx_queue)
        /\ \A i \in 1 .. k - 1 : retx_queue[i].sn \notin DOMAIN tx_window
    BY <1>2, RetxFront, Zenon
  <2>2. IF retx.is_segment \/ space < PduLen
        THEN build_segment(space, q)
        ELSE /\ transmit(retx.sn, tx_window[retx.sn], poll_required(pdu_without_poll),
                         FALSE, 0, PduLen)
             /\ retx_queue' = Tail(q)
    BY <1>2, Zenon DEF build_retx_pdu
  <2> HIDE DEF live, k
  <2>3. FrontAt(k, q)  BY <2>1 DEF FrontAt
  <2> HIDE DEF q
  <2>4. /\ retx = retx_queue[k] /\ Len(q) = Len(retx_queue) - (k - 1)
        /\ \A i \in 1 .. Len(q) : q[i] = retx_queue[(k - 1) + i]
        /\ Len(Tail(q)) = Len(retx_queue) - k
        /\ \A i \in 1 .. Len(Tail(q)) : Tail(q)[i] = retx_queue[k + i]
    BY <2>3, FrontSuffix
  <2>5. Len(retx_queue) \in Nat  BY LenProperties, SMTT(30) DEF TxQueue
  <2> HIDE DEF retx
  <2>6. /\ \A i \in 1 .. Len(q) : (k - 1) + i \in 1 .. Len(retx_queue)
        /\ \A i \in 1 .. Len(Tail(q)) : k + i \in 1 .. Len(retx_queue)
    BY <2>1, <2>4, <2>5, SMTT(30)
  <2>7. retx.is_segment = FALSE  BY <2>1, <2>4, SMTT(30) DEF NoSegments
  <2>8. CASE space < PduLen
    <3>1. space = 0 /\ build_segment(space, q)  BY <2>2, <2>8
    <3>2. retx_queue' = q /\ UNCHANGED data_ch  BY <3>1, SMTT(30) DEF build_segment
    <3> QED  BY <2>4, <2>6, <3>2, ZenonT(30) DEF NoSegments
  <2>9. CASE ~ (space < PduLen)
    <3>1. /\ transmit(retx.sn, tx_window[retx.sn], poll_required(pdu_without_poll), FALSE, 0, PduLen)
          /\ retx_queue' = Tail(q)
      BY <2>2, <2>7, <2>9, ZenonT(30)
    <3> DEFINE new == [sn |-> retx.sn, pl |-> tx_window[retx.sn], p |-> poll_required(pdu_without_poll),
                       rf |-> FALSE, so |-> 0, len |-> PduLen]
    <3>2. data_ch' = data_ch \cup {new} /\ new.rf = FALSE  BY <3>1 DEF transmit
    <3> HIDE DEF new
    <3>3. \A pdu \in data_ch' : pdu \in data_ch \/ pdu.rf = FALSE  BY <3>2
    <3> QED  BY <2>4, <2>6, <3>1, <3>3, Zenon DEF NoSegments
  <2> QED  BY <2>8, <2>9, SMTT(30)
<1> QED  BY <1>1, <1>2

(* No step of the sender cuts a PDU. *)
LEMMA SendIsWhole ==
  ASSUME PduLen = 1, TxQueue, NoSegments, TxStep
  PROVE  NoSegments'
<1>1. CASE write_sdu \/ tx_get_buffer_state \/ PollRetxExpires
  <2>1. UNCHANGED <<retx_queue, data_ch>>  BY <1>1, Zenon DEF write_sdu, tx_get_buffer_state, PollRetxExpires
  <2> QED  BY <2>1 DEF NoSegments
<1>2. ASSUME NEW space \in 0 .. PduLen, build_data_pdu(space) PROVE NoSegments'
  <2>1. /\ UNCHANGED retx_queue
        /\ \/ UNCHANGED data_ch
           \/ transmit(vt_s, built, poll_required(pdu_without_poll + 1), FALSE, 0, PduLen)
    BY <1>2, Zenon DEF build_data_pdu
  <2>2. \A pdu \in data_ch' : pdu \in data_ch \/ pdu.rf = FALSE  BY <2>1, TransmitEnters, ZenonT(30)
  <2> QED  BY <2>1, <2>2 DEF NoSegments
<1>3. ASSUME NEW space \in 0 .. PduLen, read_pdu(space) PROVE NoSegments'
  BY <1>2, <1>3, RetxIsWhole DEF read_pdu
<1> QED  BY <1>1, <1>3 DEF TxStep

(* Status reports ask for whole PDUs, as prepare_status() writes them. *)
LEMMA NackIsWhole ==
  ASSUME LinkInd, NoSegments, ReceiveStatus
  PROVE  NoSegments'
<1>1. PICK i \in 1 .. Len(status_ch) :
        handle_control_pdu(status_ch[i].ack_sn, [sn \in status_ch[i].nacks |-> Whole])
  BY DEF ReceiveStatus
<1> DEFINE nacks == [sn \in status_ch[i].nacks |-> Whole]
<1>2. \A sn \in DOMAIN nacks : /\ nacks[sn] \in NackRange /\ nacks[sn].so_start < nacks[sn].so_end
                               /\ nacks[sn].is_segment = FALSE
  BY PduLenAssumption, SMTT(30) DEF NackRange, Whole
<1> HIDE DEF nacks
<1>3. \A j \in 1 .. Len(retx_queue') :
        \/ \E m \in 1 .. Len(retx_queue) : retx_queue'[j] = retx_queue[m]
        \/ \E sn \in DOMAIN nacks : retx_queue'[j].is_segment = nacks[sn].is_segment
  BY <1>1, <1>2, ControlQueues, ZenonT(30) DEF LinkInd, TxInd, nacks
<1>4. UNCHANGED data_ch  BY DEF ReceiveStatus
<1> QED  BY <1>2, <1>3, <1>4 DEF NoSegments

(* A PDU that is accepted is the one the sender counted there. *)
LEMMA ReceiveInPlace ==
  ASSUME LinkInd, LinkInd', NoSegments, InPlace, Receive
  PROVE  InPlace'
<1>1. PICK pdu \in data_ch :
        IF pdu.rf
        THEN WriteSegment(pdu.sn, [so |-> pdu.so, len |-> pdu.len, pl |-> pdu.pl], pdu.p)
        ELSE WriteDataPdu(pdu.sn, pdu.pl, pdu.p)
  BY DEF Receive
<1>2. handle_data_pdu(pdu.sn, pdu.pl, pdu.p, do_status)
  BY <1>1 DEF NoSegments, WriteDataPdu
<1>3. CASE ~ inside_rx_window(pdu.sn) \/ pdu.sn \in DOMAIN rx_window
  <2>1. UNCHANGED rxWindowVars  BY <1>2, <1>3, SMTT(30) DEF handle_data_pdu, discard_data_pdu
  <2> QED  BY <2>1 DEF InPlace, rxWindowVars
<1>4. CASE inside_rx_window(pdu.sn) /\ pdu.sn \notin DOMAIN rx_window
  <2>1. accept_data_pdu(pdu.sn, pdu.pl, pdu.p, do_status)  BY <1>2, <1>4 DEF handle_data_pdu
  <2>2. pdu.sn \in SN /\ pdu.pl = Len(delivered) + Dist(pdu.sn, vr_r)
    BY <1>4, ArrivalPlace DEF Pdu
  <2>3. accept_data_pdu(pdu.sn, Len(delivered) + Dist(pdu.sn, vr_r), pdu.p, do_status)
    BY <2>1, <2>2
  <2>4. RxInd /\ RxInd' /\ RxCounts  BY DEF LinkInd, RxLink
  <2> QED  BY <1>4, <2>2, <2>3, <2>4, AcceptInPlace
<1> QED  BY <1>3, <1>4, SMTT(30)

WholeInd == LinkInd /\ NoSegments /\ InPlace

(* Nothing was sent on the link. *)
LEMMA WholeInit == LinkInit => WholeInd
<1> SUFFICES ASSUME LinkInit PROVE NoSegments /\ InPlace  BY LinkInitInd DEF WholeInd
<1>1. Len(<< >>) = 0 /\ DOMAIN << >> = {}  OBVIOUS
<1>2. NoSegments  BY <1>1 DEF LinkInit, TxInit, NoSegments
<1>3. InPlace  BY <1>1 DEF LinkInit, RxInit, InPlace
<1> QED  BY <1>2, <1>3

(* Every step of the link keeps what is received at its place, when no PDU *)
(* is cut into segments.                                                   *)
LEMMA WholeStep ==
  ASSUME MaxInFlight \in SN, ReorderStatus = FALSE, PduLen = 1, WholeInd, [LinkNext]_linkVars
  PROVE  WholeInd'
<1>1. LinkInd'  BY LinkStepKeepsInd, Zenon DEF WholeInd
<1>2. CASE Send
  <2>1. UNCHANGED <<vr_r, rx_window, delivered>> /\ TxStep
    BY <1>2 DEF Send, rxVars, rxWindowVars
  <2>2. NoSegments'  BY <2>1, SendIsWhole DEF WholeInd, LinkInd, TxInd
  <2> QED  BY <1>1, <2>1, <2>2 DEF WholeInd, InPlace
<1>3. CASE Receive
  <2>1. InPlace'  BY <1>1, <1>3, ReceiveInPlace DEF WholeInd
  <2>2. data_ch' \subseteq data_ch /\ UNCHANGED retx_queue  BY <1>3 DEF Receive
  <2> QED  BY <1>1, <2>1, <2>2 DEF WholeInd, NoSegments
<1>4. CASE ReceiveStatus
  <2>1. UNCHANGED <<vr_r, rx_window, delivered>>
    BY <1>4 DEF ReceiveStatus, rxVars, rxWindowVars
  <2>2. NoSegments'  BY <1>4, NackIsWhole DEF WholeInd
  <2> QED  BY <1>1, <2>1, <2>2, SMTT(30) DEF WholeInd, InPlace
<1>5. CASE LoseData \/ Report \/ LoseStatus \/ UNCHANGED linkVars
  <2>1. data_ch' \subseteq data_ch /\ UNCHANGED retx_queue
    BY <1>5, Zenon DEF LoseData, PduLeaves, Report, LoseStatus, linkVars, txVars
  <2>2. UNCHANGED <<vr_r, rx_window, delivered>>
    <3>1. CASE Report
      BY <3>1 DEF Report, get_buffer_state, build_status_pdu, ReadOwnData, ReorderingExpires,
                  ProhibitExpires, rxWindowVars
    <3> QED  BY <1>5, <3>1 DEF LoseData, LoseStatus, linkVars, rxVars, rxWindowVars
  <2> QED  BY <1>1, <2>1, <2>2 DEF WholeInd, NoSegments, InPlace
<1> QED  BY <1>2, <1>3, <1>4, <1>5 DEF LinkNext

(* The invariant of whole PDUs, in every reachable state. *)
LEMMA WholeIndInvariant ==
  ASSUME MaxInFlight \in SN, ReorderStatus = FALSE, PduLen = 1
  PROVE  LinkSpec => []WholeInd
  BY WholeInit, WholeStep, PTL DEF LinkSpec

(* For every modulus and window, under the same conditions and as long as  *)
(* no PDU is cut into segments: the windows of the two sides agree, and    *)
(* every PDU the receiver holds is the one the sender counted there.       *)
THEOREM LinkWindowsAgree ==
  ASSUME MaxInFlight \in SN, ReorderStatus = FALSE, PduLen = 1
  PROVE  LinkSpec => []WindowsAgree
<1>1. WholeInd => WindowsAgree
  <2> SUFFICES ASSUME WholeInd PROVE WindowsAgree  OBVIOUS
  <2>1. LinkInd /\ InPlace  BY DEF WholeInd
  <2>2. /\ built \in Nat /\ Len(delivered) \in Nat
        /\ acked <= Len(delivered) /\ Len(delivered) <= built
    BY <2>1, LinkFacts
  <2>3. vr_r = Len(delivered) % MOD /\ vt_s = built % MOD
    BY <2>1 DEF LinkInd, RxLink, RxCounts, TxCounts
  <2>4. ASSUME NEW sn \in DOMAIN rx_window
        PROVE  rx_window[sn] = Len(delivered) + Dist(sn, vr_r) /\ rx_window[sn] < built
    <3>1. rx_window[sn] = Len(delivered) + Dist(sn, vr_r)  BY <2>1 DEF InPlace
    <3>2. /\ Dist(sn, vr_r) < Dist(vr_h, vr_r) /\ Len(delivered) + Dist(vr_h, vr_r) <= built
          /\ sn \in SN /\ vr_r \in SN /\ vr_h \in SN
      BY <2>1 DEF LinkInd, RxLink, RxInd, RxWindowType, RxWindowInv, RxCounts
    <3>3. Dist(sn, vr_r) \in Nat /\ Dist(vr_h, vr_r) \in Nat
      <4>1. Dist(sn, vr_r) \in SN /\ Dist(vr_h, vr_r) \in SN  BY <3>2, DistValue
      <4> QED  BY <4>1, WindowAssumption DEF SN
    <3> QED  BY <2>2, <3>1, <3>2, <3>3
  <2> QED  BY <2>2, <2>3, <2>4 DEF WindowsAgree, acked
<1> QED  BY <1>1, WholeIndInvariant, PTL

-----------------------------------------------------------------------------
(***************************************************************************)
(* The link implements the service.                                        *)
(***************************************************************************)
(* More PDUs in place are the next ones of the service. *)
LEMMA NextInPlace ==
  ASSUME delivered \in Seq(Content), delivered' \in Seq(Content), InPlace, InPlace',
         Len(delivered) < Len(delivered')
  PROVE  LET n == Len(delivered') - Len(delivered)
         IN  delivered' = delivered \o [i \in 1 .. n |-> Len(delivered) + i - 1]
<1> DEFINE d == Len(delivered)
           n == Len(delivered') - d
           new == [i \in 1 .. n |-> d + i - 1]
<1>1. d \in Nat /\ Len(delivered') \in Nat  BY LenProperties
<1>2. n \in Nat /\ d + n = Len(delivered')  BY <1>1
<1> HIDE DEF n, d
<1>3. \A i \in 1 .. n : new[i] = d + i - 1 /\ new[i] \in Content  BY <1>1, <1>2 DEF Content
<1>4. new \in Seq(Content) /\ Len(new) = n  BY <1>2, <1>3
<1> HIDE DEF new
<1>5. /\ delivered \o new \in Seq(Content) /\ Len(delivered \o new) = d + n
      /\ \A i \in 1 .. d + n :
           (delivered \o new)[i] = IF i <= d THEN delivered[i] ELSE new[i - d]
  BY <1>2, <1>4, ConcatProperties, Zenon DEF d
<1>6. ASSUME NEW i \in 1 .. Len(delivered') PROVE delivered'[i] = (delivered \o new)[i]
  <2>1. delivered'[i] = i - 1  BY DEF InPlace
  <2>2. i \in 1 .. d + n  BY <1>2
  <2>3. CASE i <= d
    <3>1. i \in 1 .. d  BY <1>1, <2>3
    <3>2. delivered[i] = i - 1  BY <3>1 DEF InPlace, d
    <3> QED  BY <1>5, <2>1, <2>2, <2>3, <3>2
  <2>4. CASE ~ (i <= d)
    <3>1. i - d \in 1 .. n /\ d + (i - d) - 1 = i - 1  BY <1>1, <1>2, <2>4, SMTT(30)
    <3> QED  BY <1>3, <1>5, <2>1, <2>2, <2>4, <3>1
  <2> QED  BY <2>3, <2>4, ZenonT(30)
<1>7. delivered' = delivered \o new  BY <1>2, <1>5, <1>6, SeqEqual
<1> QED  BY <1>7 DEF new, n, d

(* Nothing more delivered: nothing changed. *)
LEMMA SameSeqLength ==
  ASSUME delivered \in Seq(Content), delivered' \in Seq(Content), InPlace, InPlace',
         Len(delivered) = Len(delivered')
  PROVE  delivered' = delivered
<1>1. \A i \in 1 .. Len(delivered) : delivered'[i] = delivered[i]  BY DEF InPlace
<1> QED  BY <1>1, SeqEqual, SMTT(30)

(* The counts after a step. *)
LEMMA LinkFactsNext ==
  LinkInd' => (acked \in Nat /\ Len(delivered) \in Nat /\ Len(delivered) <= built)'
<1>1. LinkInd => acked \in Nat /\ Len(delivered) \in Nat /\ Len(delivered) <= built
  BY LinkFacts
<1> QED  BY <1>1, PTL

(* Building a PDU is Submit, accepting one that closes a gap is Deliver, a *)
(* report that moves vt_a is Confirm; every other step leaves the three    *)
(* counts alone.                                                           *)
LEMMA LinkStepIsService ==
  ASSUME MaxInFlight \in SN, ReorderStatus = FALSE, PduLen = 1, WholeInd, WholeInd',
         [LinkNext]_linkVars
  PROVE  [Service!Submit \/ Service!Deliver \/ Service!Confirm]_Service!serviceVars
<1>1. LinkInd /\ LinkInd' /\ InPlace /\ InPlace'  BY DEF WholeInd
<1>2. CASE acked' = acked /\ UNCHANGED <<delivered, built>>
  <2>1. UNCHANGED Service!serviceVars  BY <1>2 DEF Service!serviceVars, acked
  <2> QED  BY <2>1
<1>3. CASE Send
  <2>1. acked' = acked /\ UNCHANGED delivered /\ (built' = built \/ built' = built + 1)
    BY <1>1, <1>3, SendKeepsLink
  <2>2. CASE built' = built + 1
    <3>1. Service!Submit  BY <2>1, <2>2 DEF Service!Submit, acked
    <3> QED  BY <3>1
  <2> QED  BY <1>2, <2>1, <2>2, SMTT(30)
<1>4. CASE Receive
  <2>1. acked' = acked /\ UNCHANGED built  BY <1>1, <1>4, ReceiveKeepsLink, SMTT(30)
  <2>2. delivered \in Seq(Content) /\ delivered' \in Seq(Content)
    BY <1>1 DEF LinkInd, RxLink, RxCounts
  <2>3. Len(delivered) <= Len(delivered')  BY <1>1, <1>4, ReceiveKeepsLink
  <2>4. Len(delivered) \in Nat /\ Len(delivered') \in Nat /\ Len(delivered') <= built'
        /\ built \in Nat
    <3>1. Len(delivered') \in Nat /\ Len(delivered') <= built'  BY <1>1, LinkFactsNext
    <3> QED  BY <1>1, <3>1, LinkFacts
  <2>5. CASE Len(delivered) = Len(delivered')
    <3>1. UNCHANGED delivered  BY <1>1, <2>2, <2>5, SameSeqLength
    <3> QED  BY <1>2, <2>1, <3>1
  <2>6. CASE Len(delivered) < Len(delivered')
    <3> DEFINE n == Len(delivered') - Len(delivered)
    <3>1. delivered' = delivered \o [i \in 1 .. n |-> Len(delivered) + i - 1]
      BY <1>1, <2>2, <2>6, NextInPlace
    <3>2. n \in 1 .. built - Len(delivered)  BY <2>1, <2>4, <2>6, SMTT(30)
    <3> HIDE DEF n
    <3>3. Service!Deliver  BY <2>1, <3>1, <3>2 DEF Service!Deliver, acked
    <3> QED  BY <3>3
  <2> QED  BY <2>3, <2>4, <2>5, <2>6
<1>5. CASE ReceiveStatus
  <2>1. /\ UNCHANGED <<delivered, built>> /\ acked <= acked' /\ acked' <= Len(delivered)
    BY <1>1, <1>5, ReceiveStatusKeepsLink, ZenonT(30)
  <2>2. acked \in Nat /\ acked' \in Nat /\ Len(delivered) \in Nat
    <3>1. acked' \in Nat  BY <1>1, LinkFactsNext
    <3> QED  BY <1>1, <3>1, LinkFacts
  <2>3. CASE acked' = acked  BY <1>2, <2>1, <2>3
  <2>4. CASE acked' # acked
    <3>1. acked' \in acked + 1 .. Len(delivered)  BY <2>1, <2>2, <2>4
    <3>2. Service!Confirm  BY <2>1, <3>1 DEF Service!Confirm, acked
    <3> QED  BY <3>2
  <2> QED  BY <2>3, <2>4
<1>6. CASE LoseData \/ Report \/ LoseStatus \/ UNCHANGED linkVars
  BY <1>1, <1>2, <1>6, LoseDataKeepsLink, ReportKeepsLink, LoseStatusKeepsLink, SameLink
<1> QED  BY <1>3, <1>4, <1>5, <1>6 DEF LinkNext

(* Under these conditions the bearer implements the service, for every     *)
(* modulus and window: PDUs come out once each and in order, whatever is   *)
(* lost, delayed, duplicated or overtaken, and the sender forgets one only *)
(* after it has come out.                                                  *)
THEOREM LinkRefinesService ==
  ASSUME MaxInFlight \in SN, ReorderStatus = FALSE, PduLen = 1
  PROVE  LinkSpec => LinkImplementsService
<1>1. LinkInit => Service!ServiceInit
  <2> SUFFICES ASSUME LinkInit PROVE Service!ServiceInit  OBVIOUS
  <2>1. 0 \in SN  BY WindowAssumption DEF SN
  <2>2. Dist(0, 0) = 0  BY <2>1, PlusDist
  <2> QED  BY <2>2 DEF LinkInit, TxInit, RxInit, Service!ServiceInit, in_flight
<1>2. WholeInd /\ WholeInd' /\ [LinkNext]_linkVars
        => [Service!Submit \/ Service!Deliver \/ Service!Confirm]_Service!serviceVars
  BY LinkStepIsService, Zenon
<1> QED
  BY <1>1, <1>2, WholeIndInvariant, PTL DEF LinkSpec, LinkImplementsService, Service!ServiceSpec
=============================================================================
