--------------------------- MODULE RlcAmTxProofs ---------------------------
(***************************************************************************)
(* The transmit window and the retransmission queue of rlc_am.cc for every *)
(* modulus, window and length of a PDU.  rlc_am.cc bounds the PDUs that    *)
(* are sent and not acknowledged nowhere; the sequence numbers can be told *)
(* apart only while there are fewer than MOD of them, so the theorems are  *)
(* about a sender whose MaxInFlight is below MOD.                          *)
(***************************************************************************)
EXTENDS RlcAmTx, RlcSnProofs, FiniteSetTheorems,
        WellFoundedInduction

(* Two numbers and a base below them: their distance is the difference of  *)
(* their distances from the base.                                          *)
LEMMA DistBetween ==
  ASSUME NEW base \in SN, NEW x \in SN, NEW y \in SN, Dist(x, base) <= Dist(y, base)
  PROVE  Dist(y, x) = Dist(y, base) - Dist(x, base)
<1>1. Dist(x, base) \in SN /\ Plus(base, Dist(x, base)) = x  BY DistValue, PlusDist
<1> QED  BY <1>1, DistShift

(* The transmit window: exactly the PDUs from vt_a up to vt_s, under the   *)
(* numbers they were sent with.                                            *)
TxWindow ==
  /\ vt_a \in SN /\ vt_s \in SN /\ built \in Nat
  /\ vt_ms = Plus(vt_a, WINDOW)
  /\ DOMAIN tx_window = Run(vt_a, in_flight)
  /\ \A sn \in DOMAIN tx_window : tx_window[sn] = built - Dist(vt_s, sn)
  /\ in_flight <= built

(* The members of the window, by their distance. *)
LEMMA TxWindowMember ==
  ASSUME TxWindow, NEW sn
  PROVE  /\ in_flight \in SN
         /\ sn \in DOMAIN tx_window <=> sn \in SN /\ Dist(sn, vt_a) < in_flight
<1>1. in_flight \in SN  BY DistValue DEF TxWindow, in_flight
<1>2. Run(vt_a, in_flight) \subseteq SN  BY <1>1, RunNumbers DEF TxWindow
<1>3. sn \in SN => (sn \in Run(vt_a, in_flight) <=> Dist(sn, vt_a) < in_flight)
  BY <1>1, RunMember DEF TxWindow
<1> QED  BY <1>1, <1>2, <1>3 DEF TxWindow

(* build_data_pdu() puts the new PDU at the high edge. *)
LEMMA BuildKeepsTxWindow ==
  ASSUME TxWindow, in_flight + 1 < MOD, UNCHANGED <<vt_a, vt_ms>>,
         vt_s' = Plus(vt_s, 1), built' = built + 1,
         tx_window' = [s \in DOMAIN tx_window \cup {vt_s} |->
                         IF s = vt_s THEN built ELSE tx_window[s]]
  PROVE  TxWindow' /\ in_flight' = in_flight + 1
<1>0. /\ MOD \in Nat /\ 1 \in SN /\ vt_a \in SN /\ vt_s \in SN
      /\ built \in Nat /\ in_flight \in SN /\ in_flight <= built
  BY WindowAssumption, TxWindowMember DEF TxWindow, SN
<1>1. vt_s' \in SN  BY <1>0, PlusValue
<1>2. in_flight' = in_flight + 1
  <2>1. Dist(Plus(vt_s, 1), vt_a) = Dist(vt_s, vt_a) + 1  BY <1>0, DistPlus DEF in_flight
  <2> QED  BY <2>1 DEF in_flight
<1>3. in_flight' \in SN  BY <1>0, <1>2 DEF SN
<1>4. Run(vt_a, in_flight') \subseteq SN  BY <1>0, <1>3, RunNumbers
<1>5. \A s \in SN : s \in DOMAIN tx_window' <=> s \in Run(vt_a, in_flight')
  <2> SUFFICES ASSUME NEW s \in SN
               PROVE  s \in DOMAIN tx_window' <=> s \in Run(vt_a, in_flight')
    OBVIOUS
  <2>1. s \in Run(vt_a, in_flight') <=> Dist(s, vt_a) < in_flight + 1
    BY <1>0, <1>2, <1>3, RunMember
  <2>2. Dist(s, vt_a) \in SN  BY <1>0, DistValue
  <2>3. Dist(s, vt_a) = in_flight <=> s = vt_s  BY <1>0, DistInjective DEF in_flight
  <2>4. s \in DOMAIN tx_window <=> Dist(s, vt_a) < in_flight  BY TxWindowMember
  <2>5. s \in DOMAIN tx_window' <=> s \in DOMAIN tx_window \/ s = vt_s  OBVIOUS
  <2>6. Dist(s, vt_a) < in_flight + 1 <=> Dist(s, vt_a) < in_flight \/ Dist(s, vt_a) = in_flight
    BY <1>0, <2>2 DEF SN
  <2> QED  BY <2>1, <2>3, <2>4, <2>5, <2>6
<1>6. \A s \in DOMAIN tx_window' : s \in SN  BY <1>0, TxWindowMember
<1>7. DOMAIN tx_window' = Run(vt_a, in_flight')  BY <1>4, <1>5, <1>6
<1>8. ASSUME NEW s \in DOMAIN tx_window' PROVE tx_window'[s] = built' - Dist(vt_s', s)
  <2>0. s \in SN  BY <1>6
  <2>1. CASE s = vt_s
    <3>1. Dist(Plus(vt_s, 1), vt_s) = 1  BY <1>0, PlusDist
    <3> QED  BY <1>0, <2>1, <3>1
  <2>2. CASE s # vt_s
    <3>1. s \in DOMAIN tx_window  BY <2>2
    <3>2. tx_window'[s] = built - Dist(vt_s, s)  BY <2>2, <3>1 DEF TxWindow
    <3>3. Dist(s, vt_a) < in_flight /\ Dist(s, vt_a) \in SN  BY <1>0, <2>0, <3>1, TxWindowMember, DistValue
    <3>4. Dist(vt_s, s) = in_flight - Dist(s, vt_a)
      BY <1>0, <2>0, <3>3, DistBetween DEF in_flight, SN
    <3>5. Dist(vt_s, s) + 1 < MOD /\ Dist(vt_s, s) \in Int  BY <1>0, <3>3, <3>4 DEF SN
    <3>6. Dist(Plus(vt_s, 1), s) = Dist(vt_s, s) + 1  BY <1>0, <2>0, <3>5, DistPlus
    <3> QED  BY <1>0, <3>2, <3>5, <3>6
  <2> QED  BY <2>1, <2>2
<1>9. vt_a' \in SN /\ built' \in Nat /\ in_flight' <= built' /\ vt_ms' = Plus(vt_a', WINDOW)
  BY <1>0, <1>2 DEF TxWindow, SN
<1> QED  BY <1>1, <1>2, <1>7, <1>8, <1>9 DEF TxWindow

(* handle_control_pdu() takes the acknowledged PDUs from the low edge. *)
LEMMA ReleaseKeepsTxWindow ==
  ASSUME TxWindow, NEW n \in Nat, n <= in_flight,
         tx_window' = [s \in DOMAIN tx_window \ Run(vt_a, n) |-> tx_window[s]],
         vt_a' = Plus(vt_a, n), vt_ms' = Plus(vt_ms, n), UNCHANGED <<vt_s, built>>
  PROVE  TxWindow' /\ in_flight' = in_flight - n
<1>0. /\ MOD \in Nat /\ WINDOW \in SN /\ vt_a \in SN /\ vt_s \in SN
      /\ built \in Nat /\ in_flight \in SN /\ in_flight <= built
  BY WindowAssumption, TxWindowMember DEF TxWindow, SN
<1>1. n \in SN  BY <1>0 DEF SN
<1>2. vt_a' \in SN  BY <1>0, <1>1, PlusValue
<1>3. in_flight' = in_flight - n  BY <1>0, <1>1, DistShift DEF in_flight
<1>4. in_flight' \in SN  BY <1>0, <1>3 DEF SN
<1>5. vt_ms' = Plus(vt_a', WINDOW)  BY <1>0, <1>1, PlusCommutes DEF TxWindow
<1>6. \A s \in SN : s \in DOMAIN tx_window' <=> s \in Run(vt_a', in_flight')
  <2> SUFFICES ASSUME NEW s \in SN
               PROVE  s \in DOMAIN tx_window' <=> s \in Run(vt_a', in_flight')
    OBVIOUS
  <2>1. s \in Run(vt_a', in_flight') <=> Dist(s, vt_a') < in_flight'
    BY <1>2, <1>4, RunMember
  <2>2. Dist(s, vt_a) \in SN  BY <1>0, DistValue
  <2>3. Dist(s, vt_a') = IF n <= Dist(s, vt_a) THEN Dist(s, vt_a) - n
                         ELSE Dist(s, vt_a) - n + MOD
    BY <1>0, <1>1, DistShift
  <2>4. s \in DOMAIN tx_window <=> Dist(s, vt_a) < in_flight  BY TxWindowMember
  <2>5. s \in Run(vt_a, n) <=> Dist(s, vt_a) < n  BY <1>0, <1>1, RunMember
  <2>6. s \in DOMAIN tx_window' <=> Dist(s, vt_a) < in_flight /\ ~ (Dist(s, vt_a) < n)
    BY <2>4, <2>5
  <2>7. Dist(s, vt_a') < in_flight' <=> Dist(s, vt_a) < in_flight /\ ~ (Dist(s, vt_a) < n)
    BY <1>0, <1>1, <1>3, <2>2, <2>3 DEF SN
  <2> QED  BY <2>1, <2>6, <2>7
<1>7. Run(vt_a', in_flight') \subseteq SN  BY <1>2, <1>4, RunNumbers
<1>8. \A s \in DOMAIN tx_window' : s \in SN /\ s \in DOMAIN tx_window /\ tx_window'[s] = tx_window[s]
  BY TxWindowMember
<1>9. DOMAIN tx_window' = Run(vt_a', in_flight')  BY <1>6, <1>7, <1>8
<1>10. in_flight' <= built'  BY <1>0, <1>3 DEF SN
<1>11. \A s \in DOMAIN tx_window' : tx_window'[s] = built' - Dist(vt_s', s)
  BY <1>8 DEF TxWindow
<1> QED  BY <1>0, <1>2, <1>3, <1>5, <1>9, <1>10, <1>11 DEF TxWindow

(* The head of a queue is its first element. *)
LEMMA FirstOf ==
  ASSUME NEW T, NEW q \in Seq(T), q # << >>
  PROVE  Head(q) = q[1]
  OBVIOUS

(* What is left of a sequence from its k-th element on, with and without   *)
(* that element.                                                           *)
LEMMA SuffixProperties ==
  ASSUME NEW T, NEW s \in Seq(T), NEW k \in 1 .. Len(s), NEW q, q = SubSeq(s, k, Len(s))
  PROVE  /\ q \in Seq(T) /\ Len(q) = Len(s) - (k - 1)
         /\ \A i \in 1 .. Len(q) : q[i] = s[(k - 1) + i]
         /\ Head(q) = s[k]
         /\ Tail(q) \in Seq(T) /\ Len(Tail(q)) = Len(s) - k
         /\ \A i \in 1 .. Len(Tail(q)) : Tail(q)[i] = s[k + i]
<1> DEFINE n == Len(s)
<1>0. n \in Nat /\ k \in Int /\ 1 <= k /\ k <= n  BY LenProperties
<1>1. \A i \in k .. n : s[i] \in T  BY <1>0, ElementOfSeq
<1>2. n \in Int /\ k \in Int  BY <1>0
<1>3. /\ SubSeq(s, k, n) \in Seq(T)
      /\ Len(SubSeq(s, k, n)) = IF k <= n THEN n - k + 1 ELSE 0
      /\ \A i \in 1 .. n - k + 1 : SubSeq(s, k, n)[i] = s[k + i - 1]
  BY <1>0, <1>1, SubSeqProperties
<1> HIDE DEF n
<1>4. q = SubSeq(s, k, n)  BY DEF n
<1>5. q \in Seq(T) /\ Len(q) = n - k + 1 /\ \A i \in 1 .. n - k + 1 : q[i] = s[k + i - 1]
  BY <1>0, <1>3, <1>4
<1>6. \A i \in 1 .. n - k + 1 : q[i] = s[(k - 1) + i]
  BY <1>0, <1>5
<1>7. q # << >> /\ Len(q) \in Nat
  <2>1. Len(q) \in Nat /\ Len(q) # 0  BY <1>0, <1>5
  <2> QED  BY <2>1, Zenon
<1>8. Head(q) = s[k]
  <2>1. Head(q) = q[1]  BY <1>5, <1>7, FirstOf
  <2>2. 1 \in 1 .. n - k + 1 /\ (k - 1) + 1 = k  BY <1>0
  <2> QED  BY <1>6, <2>1, <2>2
<1>9. /\ Tail(q) \in Seq(T) /\ Len(Tail(q)) = Len(q) - 1
      /\ \A i \in 1 .. Len(Tail(q)) : Tail(q)[i] = q[i + 1]
  BY <1>5, <1>7, HeadTailProperties
<1>10. Len(Tail(q)) = n - k  BY <1>0, <1>5, <1>9
<1>11. \A i \in 1 .. n - k : i + 1 \in 1 .. n - k + 1 /\ (k - 1) + (i + 1) = k + i
  BY <1>0
<1>12. \A i \in 1 .. Len(Tail(q)) : Tail(q)[i] = s[k + i]
  BY <1>6, <1>9, <1>10, <1>11
<1>13. Len(q) = n - (k - 1)  BY <1>0, <1>5
<1> QED  BY <1>5, <1>6, <1>8, <1>9, <1>10, <1>12, <1>13, Zenon DEF n

(* A PDU of the window has been built. *)
LEMMA TxWindowContents ==
  ASSUME TxWindow, NEW sn \in DOMAIN tx_window
  PROVE  sn \in SN /\ tx_window[sn] \in Nat /\ tx_window[sn] < built
<1>0. /\ MOD \in Nat /\ vt_a \in SN /\ vt_s \in SN /\ built \in Nat
      /\ in_flight \in SN /\ in_flight <= built
      /\ sn \in SN /\ Dist(sn, vt_a) < in_flight
  BY WindowAssumption, TxWindowMember DEF TxWindow
<1>1. Dist(sn, vt_a) \in SN  BY <1>0, DistValue
<1>2. Dist(vt_s, sn) = in_flight - Dist(sn, vt_a)
  BY <1>0, <1>1, DistBetween DEF in_flight, SN
<1>3. tx_window[sn] = built - Dist(vt_s, sn)  BY DEF TxWindow
<1> QED  BY <1>0, <1>1, <1>2, <1>3 DEF SN

-----------------------------------------------------------------------------
(***************************************************************************)
(* The retransmission queue.                                               *)
(***************************************************************************)
RetxEntry == {e \in Retx : e.so_start < e.so_end}

TxQueue ==
  /\ retx_queue \in Seq(RetxEntry)
  /\ \A i, j \in 1 .. Len(retx_queue) : retx_queue[i].sn = retx_queue[j].sn => i = j

(* The least of a set of natural numbers, and of two. *)
LEMMA MinOfSet ==
  ASSUME NEW S \in SUBSET Nat, S # {}
  PROVE  Min(S) \in S /\ \A y \in S : Min(S) <= y
<1>1. PICK x \in S : \A y \in S : ~ (<<y, x>> \in OpToRel(<, Nat))
  BY NatLessThanWellFounded, WFMin, Zenon
<1>2. \A y \in S : x <= y
  <2> SUFFICES ASSUME NEW y \in S PROVE x <= y
    OBVIOUS
  <2>1. ~ (y < x)
    BY <1>1, Zenon DEF OpToRel
  <2> QED  BY <2>1
<1> QED  BY <1>2, Zenon DEF Min

(* The front of the queue once the entries whose PDUs are released have    *)
(* been dropped.                                                           *)
LEMMA RetxFront ==
  ASSUME TxQueue,
         NEW live, live = {i \in 1 .. Len(retx_queue) : retx_queue[i].sn \in DOMAIN tx_window},
         live # {}
  PROVE  /\ Min(live) \in 1 .. Len(retx_queue)
         /\ retx_queue[Min(live)].sn \in DOMAIN tx_window
         /\ \A i \in 1 .. Min(live) - 1 : retx_queue[i].sn \notin DOMAIN tx_window
<1>0. Len(retx_queue) \in Nat  BY LenProperties DEF TxQueue
<1>1. live \in SUBSET Nat  BY <1>0
<1> DEFINE k == Min(live)
<1>2. k \in live /\ \A y \in live : k <= y  BY <1>1, MinOfSet, Zenon
<1> HIDE DEF k
<1>3. k \in 1 .. Len(retx_queue) /\ retx_queue[k].sn \in DOMAIN tx_window  BY <1>2
<1>4. ASSUME NEW i \in 1 .. k - 1, retx_queue[i].sn \in DOMAIN tx_window PROVE FALSE
  <2>1. i \in 1 .. Len(retx_queue) /\ ~ (k <= i)  BY <1>0, <1>3
  <2> QED  BY <1>2, <1>4, <2>1
<1> QED  BY <1>3, <1>4 DEF k

(* What is left of the queue behind its first k entries has no number      *)
(* twice, and none of those k.                                             *)
LEMMA ShiftedQueue ==
  ASSUME TxQueue, NEW k \in 0 .. Len(retx_queue),
         retx_queue' \in Seq(RetxEntry), Len(retx_queue') = Len(retx_queue) - k,
         \A j \in 1 .. Len(retx_queue') : retx_queue'[j].sn = retx_queue[k + j].sn
  PROVE  /\ TxQueue'
         /\ \A i \in 1 .. k : \A j \in 1 .. Len(retx_queue') : retx_queue'[j].sn # retx_queue[i].sn
<1>0. Len(retx_queue) \in Nat  BY LenProperties DEF TxQueue
<1>1. \A j \in 1 .. Len(retx_queue') : k + j \in 1 .. Len(retx_queue)  BY <1>0
<1>2. ASSUME NEW i \in 1 .. Len(retx_queue'), NEW j \in 1 .. Len(retx_queue'),
             retx_queue'[i].sn = retx_queue'[j].sn
      PROVE  i = j
  <2>1. k + i = k + j  BY <1>1, <1>2, ZenonT(30) DEF TxQueue
  <2> QED  BY <1>0, <2>1
<1>3. ASSUME NEW i \in 1 .. k, NEW j \in 1 .. Len(retx_queue'),
             retx_queue'[j].sn = retx_queue[i].sn
      PROVE  FALSE
  <2>1. i \in 1 .. Len(retx_queue)  BY <1>0
  <2>2. k + j = i  BY <1>1, <1>3, <2>1 DEF TxQueue
  <2> QED  BY <1>0, <2>2
<1> QED  BY <1>2, <1>3 DEF TxQueue

(* The entry that stands for number sn is the only one. *)
LEMMA OnlyEntry ==
  ASSUME TxQueue', NEW j \in 1 .. Len(retx_queue'), NEW i, retx_queue'[j].sn = retx_queue[i].sn,
         retx_queue'[j].so_start = retx_queue[i].so_start
  PROVE  SkipsNothing(i)
<1> DEFINE same == {m \in 1 .. Len(retx_queue') : retx_queue'[m].sn = retx_queue[i].sn}
<1>1. same = {j}  BY DEF TxQueue
<1>2. Min({j}) = j
  <2>1. Len(retx_queue') \in Nat  BY LenProperties DEF TxQueue
  <2> QED  BY <2>1 DEF Min
<1> QED  BY <1>1, <1>2, Zenon DEF SkipsNothing

-----------------------------------------------------------------------------
(***************************************************************************)
(* The three things build_retx_pdu() does to the queue, whose front is     *)
(* entry k once the released ones before it are dropped.                   *)
(***************************************************************************)
FrontAt(k, q) ==
  /\ k \in 1 .. Len(retx_queue) /\ q = SubSeq(retx_queue, k, Len(retx_queue))
  /\ \A i \in 1 .. k - 1 : retx_queue[i].sn \notin DOMAIN tx_window

(* The retransmission queue from its first entry that is still in the      *)
(* window.                                                                 *)
LEMMA FrontSuffix ==
  ASSUME TxQueue, NEW k, NEW q, FrontAt(k, q)
  PROVE  /\ q \in Seq(RetxEntry) /\ Len(q) = Len(retx_queue) - (k - 1)
         /\ \A i \in 1 .. Len(q) : q[i] = retx_queue[(k - 1) + i]
         /\ Head(q) = retx_queue[k] /\ Head(q) \in RetxEntry
         /\ Tail(q) \in Seq(RetxEntry) /\ Len(Tail(q)) = Len(retx_queue) - k
         /\ \A i \in 1 .. Len(Tail(q)) : Tail(q)[i] = retx_queue[k + i]
<1>1. retx_queue \in Seq(RetxEntry) /\ k \in 1 .. Len(retx_queue)  BY DEF TxQueue, FrontAt
<1>2. q = SubSeq(retx_queue, k, Len(retx_queue))  BY DEF FrontAt
<1>3. retx_queue[k] \in RetxEntry  BY <1>1, ElementOfSeq
<1>4. q \in Seq(RetxEntry) /\ Len(q) = Len(retx_queue) - (k - 1)  BY <1>1, <1>2, SuffixProperties
<1>5. \A i \in 1 .. Len(q) : q[i] = retx_queue[(k - 1) + i]  BY <1>1, <1>2, SuffixProperties
<1>6. Head(q) = retx_queue[k]  BY <1>1, <1>2, SuffixProperties
<1>7. Tail(q) \in Seq(RetxEntry) /\ Len(Tail(q)) = Len(retx_queue) - k
  <2>0. Len(retx_queue) \in Nat  BY <1>1, LenProperties
  <2>1. Len(q) \in Nat /\ Len(q) # 0  BY <1>1, <1>4, <2>0
  <2>2. q # << >>  BY <2>1
  <2>3. Tail(q) \in Seq(RetxEntry) /\ Len(Tail(q)) = Len(q) - 1  BY <1>4, <2>2, HeadTailProperties
  <2> QED  BY <1>1, <1>4, <2>0, <2>3
<1>8. \A i \in 1 .. Len(Tail(q)) : Tail(q)[i] = retx_queue[k + i]  BY <1>1, <1>2, SuffixProperties
<1> QED  BY <1>3, <1>4, <1>5, <1>6, <1>7, <1>8

(* Nothing fits: the front stays. *)
LEMMA FrontStays ==
  ASSUME TxQueue, NEW k, NEW q, FrontAt(k, q), retx_queue' = q
  PROVE  TxQueue' /\ \A i \in 1 .. Len(retx_queue) : SkipsNothing(i)
<1> DEFINE n == Len(retx_queue)
<1>0. n \in Nat /\ retx_queue \in Seq(RetxEntry) /\ k \in 1 .. n  BY LenProperties DEF TxQueue, FrontAt
<1>1. /\ q \in Seq(RetxEntry) /\ Len(q) = n - (k - 1)
      /\ \A i \in 1 .. Len(q) : q[i] = retx_queue[(k - 1) + i]
  BY FrontSuffix
<1>2. k - 1 \in 0 .. n  BY <1>0
<1>3. TxQueue'  BY <1>1, <1>2, ShiftedQueue
<1>4. ASSUME NEW i \in 1 .. n PROVE SkipsNothing(i)
  <2>1. CASE i <= k - 1
    <3>1. i \in 1 .. k - 1  BY <1>0, <2>1
    <3> QED  BY <3>1 DEF FrontAt, SkipsNothing
  <2>2. CASE ~ (i <= k - 1)
    <3>1. i - (k - 1) \in 1 .. Len(q) /\ (k - 1) + (i - (k - 1)) = i  BY <1>0, <1>1, <2>2
    <3>2. q[i - (k - 1)] = retx_queue[i]  BY <1>1, <3>1
    <3> QED  BY <1>3, <3>1, <3>2, OnlyEntry
  <2> QED  BY <2>1, <2>2
<1> QED  BY <1>3, <1>4

(* The front is sent to its end: it leaves. *)
LEMMA FrontLeaves ==
  ASSUME TxQueue, NEW k, NEW q, FrontAt(k, q), retx_queue' = Tail(q),
         NEW pdu \in data_ch', pdu.sn = retx_queue[k].sn, pdu.pl = tx_window[retx_queue[k].sn],
         pdu.so <= retx_queue[k].so_start, pdu.so + pdu.len >= retx_queue[k].so_end
  PROVE  TxQueue' /\ \A i \in 1 .. Len(retx_queue) : SkipsNothing(i)
<1> DEFINE n == Len(retx_queue)
<1>0. n \in Nat /\ retx_queue \in Seq(RetxEntry) /\ k \in 1 .. n  BY LenProperties DEF TxQueue, FrontAt
<1>1. /\ Tail(q) \in Seq(RetxEntry) /\ Len(Tail(q)) = n - k
      /\ \A i \in 1 .. Len(Tail(q)) : Tail(q)[i] = retx_queue[k + i]
  BY FrontSuffix
<1>2. k \in 0 .. n /\ k \in 1 .. k  BY <1>0
<1>3. /\ TxQueue'
      /\ \A i \in 1 .. k : \A j \in 1 .. Len(retx_queue') : retx_queue'[j].sn # retx_queue[i].sn
  BY <1>1, <1>2, ShiftedQueue, SMTT(30)
<1>4. ASSUME NEW i \in 1 .. n PROVE SkipsNothing(i)
  <2>1. CASE i < k
    <3>1. i \in 1 .. k - 1  BY <1>0, <2>1
    <3> QED  BY <3>1 DEF FrontAt, SkipsNothing
  <2>2. CASE i = k
    <3>1. {j \in 1 .. Len(retx_queue') : retx_queue'[j].sn = retx_queue[i].sn} = {}
      BY <1>2, <1>3, <2>2
    <3> QED  BY <2>2, <3>1 DEF SkipsNothing
  <2>3. CASE i > k
    <3>1. i - k \in 1 .. Len(Tail(q)) /\ k + (i - k) = i  BY <1>0, <1>1, <2>3
    <3>2. Tail(q)[i - k] = retx_queue[i]  BY <1>1, <3>1, Zenon
    <3> QED  BY <1>3, <3>1, <3>2, OnlyEntry, Zenon
  <2> QED  BY <1>0, <2>1, <2>2, <2>3
<1> QED  BY <1>3, <1>4

(* A part of the front is sent: the rest takes its place. *)
LEMMA FrontAdvances ==
  ASSUME TxQueue, NEW k, NEW q, FrontAt(k, q), NEW rest \in RetxEntry,
         rest.sn = retx_queue[k].sn, retx_queue' = <<rest>> \o Tail(q),
         NEW pdu \in data_ch', pdu.sn = retx_queue[k].sn, pdu.pl = tx_window[retx_queue[k].sn],
         pdu.so <= retx_queue[k].so_start, pdu.so + pdu.len >= rest.so_start
  PROVE  TxQueue' /\ \A i \in 1 .. Len(retx_queue) : SkipsNothing(i)
<1> DEFINE n == Len(retx_queue)
<1>0. n \in Nat /\ retx_queue \in Seq(RetxEntry) /\ k \in 1 .. n  BY LenProperties DEF TxQueue, FrontAt
<1>1. /\ Tail(q) \in Seq(RetxEntry) /\ Len(Tail(q)) = n - k
      /\ \A i \in 1 .. Len(Tail(q)) : Tail(q)[i] = retx_queue[k + i]
  BY FrontSuffix
<1>2. /\ retx_queue' \in Seq(RetxEntry) /\ Len(retx_queue') = n - (k - 1)
      /\ retx_queue'[1] = rest
      /\ \A i \in 2 .. n - (k - 1) : retx_queue'[i] = Tail(q)[i - 1]
  <2>1. <<rest>> \in Seq(RetxEntry) /\ Len(<<rest>>) = 1 /\ <<rest>>[1] = rest  OBVIOUS
  <2>2. /\ <<rest>> \o Tail(q) \in Seq(RetxEntry) /\ Len(<<rest>> \o Tail(q)) = 1 + (n - k)
        /\ \A i \in 1 .. 1 + (n - k) :
             (<<rest>> \o Tail(q))[i] = IF i <= 1 THEN <<rest>>[i] ELSE Tail(q)[i - 1]
    BY <1>1, <2>1, ConcatProperties
  <2>3. 1 + (n - k) = n - (k - 1) /\ 1 \in 1 .. 1 + (n - k)
        /\ \A i \in 2 .. n - (k - 1) : i \in 1 .. 1 + (n - k) /\ ~ (i <= 1)
    BY <1>0
  <2> QED  BY <2>1, <2>2, <2>3
<1>3. \A i \in 2 .. n - (k - 1) : retx_queue'[i] = retx_queue[(k - 1) + i]
  <2> SUFFICES ASSUME NEW i \in 2 .. n - (k - 1) PROVE retx_queue'[i] = retx_queue[(k - 1) + i]
    OBVIOUS
  <2>1. i - 1 \in 1 .. Len(Tail(q)) /\ k + (i - 1) = (k - 1) + i  BY <1>0, <1>1
  <2> QED  BY <1>1, <1>2, <2>1
<1>4. \A j \in 1 .. Len(retx_queue') : retx_queue'[j].sn = retx_queue[(k - 1) + j].sn
  <2> SUFFICES ASSUME NEW j \in 1 .. Len(retx_queue')
               PROVE  retx_queue'[j].sn = retx_queue[(k - 1) + j].sn
    OBVIOUS
  <2>1. (k - 1) + 1 = k /\ (j = 1 \/ j \in 2 .. n - (k - 1))  BY <1>0, <1>2
  <2> QED  BY <1>2, <1>3, <2>1
<1>5. k - 1 \in 0 .. n  BY <1>0
<1>6. TxQueue'  BY <1>2, <1>4, <1>5, ShiftedQueue, Zenon
<1>7. ASSUME NEW i \in 1 .. n PROVE SkipsNothing(i)
  <2>1. CASE i < k
    <3>1. i \in 1 .. k - 1  BY <1>0, <2>1, SMTT(30)
    <3> QED  BY <3>1, Zenon DEF FrontAt, SkipsNothing
  <2>2. CASE i = k
    <3>1. 1 \in 1 .. Len(retx_queue')  BY <1>0, <1>2
    <3>2. {j \in 1 .. Len(retx_queue') : retx_queue'[j].sn = retx_queue[i].sn} = {1}
      BY <1>2, <1>6, <2>2, <3>1 DEF TxQueue
    <3>3. Min({1}) = 1  BY DEF Min
    <3> QED  BY <1>2, <2>2, <3>2, <3>3, ZenonT(30) DEF SkipsNothing
  <2>3. CASE i > k
    <3>1. /\ i - (k - 1) \in 2 .. n - (k - 1) /\ (k - 1) + (i - (k - 1)) = i
          /\ i - (k - 1) \in 1 .. Len(retx_queue')
      BY <1>0, <1>2, <2>3
    <3>2. retx_queue'[i - (k - 1)] = retx_queue[i]  BY <1>3, <3>1, Zenon
    <3> QED  BY <1>6, <3>1, <3>2, OnlyEntry, Zenon
  <2> QED  BY <1>0, <2>1, <2>2, <2>3
<1> QED  BY <1>6, <1>7

-----------------------------------------------------------------------------
(* The counters, the timer and what is on its way. *)
TxFlags ==
  /\ pdu_without_poll \in Nat /\ poll_retx_timeout \in Timeout
  /\ tx_sdus \in Nat /\ tx_opportunity \in BOOLEAN /\ tx_ub \in BOOLEAN
  /\ data_ch \subseteq Pdu

(* A poll resets a counter and starts a timer. *)
LEMMA PollTypes ==
  ASSUME TxFlags, NEW n \in Nat, set_poll(n)
  PROVE  pdu_without_poll' \in Nat /\ poll_retx_timeout' \in Timeout
  BY DEF TxFlags, set_poll, Timeout

(* What is transmitted is a PDU. *)
LEMMA TransmitTypes ==
  ASSUME TxFlags, NEW sn \in SN, NEW pl \in Nat, NEW p \in BOOLEAN, NEW rf \in BOOLEAN,
         NEW so \in 0 .. PduLen - 1, NEW len \in 1 .. PduLen, transmit(sn, pl, p, rf, so, len)
  PROVE  /\ data_ch' \subseteq Pdu
         /\ [sn |-> sn, pl |-> pl, p |-> p, rf |-> rf, so |-> so, len |-> len] \in data_ch'
  BY DEF TxFlags, transmit, Pdu

(* build_segment() sends the front up to end. *)
LEMMA BuildSegment ==
  ASSUME TxWindow, TxQueue, TxFlags, NEW k, NEW q, FrontAt(k, q),
         retx_queue[k].sn \in DOMAIN tx_window,
         NEW space \in 0 .. PduLen, build_segment(space, q)
  PROVE  /\ TxQueue' /\ data_ch' \subseteq Pdu
         /\ \A i \in 1 .. Len(retx_queue) : SkipsNothing(i)
<1> DEFINE retx == Head(q)
           end  == IF space < retx.so_end - retx.so_start
                   THEN retx.so_start + space ELSE retx.so_end
           pdu == [sn |-> retx.sn, pl |-> tx_window[retx.sn], p |-> FALSE, rf |-> TRUE,
                   so |-> retx.so_start, len |-> end - retx.so_start]
           rest == [retx EXCEPT !.is_segment = TRUE, !.so_start = end]
<1>1. retx = retx_queue[k] /\ retx \in RetxEntry  BY FrontSuffix
<1>2. CASE space = 0
  <2>1. retx_queue' = q /\ data_ch' = data_ch  BY <1>2 DEF build_segment
  <2> QED  BY <2>1, FrontStays DEF TxFlags
<1>3. CASE space # 0
  <2>1. /\ transmit(retx.sn, tx_window[retx.sn], FALSE, TRUE, retx.so_start, end - retx.so_start)
        /\ retx_queue' = IF end = PduLen \/ end = retx.so_end THEN Tail(q) ELSE <<rest>> \o Tail(q)
    BY <1>3, ZenonT(30) DEF build_segment
  <2>2. /\ retx.sn \in SN /\ retx.is_segment \in BOOLEAN
        /\ retx.so_start \in 0 .. PduLen - 1 /\ retx.so_end \in 1 .. PduLen
        /\ retx.so_start < retx.so_end
    BY <1>1 DEF RetxEntry, Retx
  <2>3. retx \in Retx  BY <1>1 DEF RetxEntry
  <2>5. /\ end \in Int /\ retx.so_start < end /\ end <= retx.so_end
        /\ end - retx.so_start \in 1 .. PduLen /\ retx.so_start + (end - retx.so_start) = end
    BY <1>3, <2>2, PduLenAssumption
  <2>6. tx_window[retx.sn] \in Nat  BY <1>1, TxWindowContents
  <2> HIDE DEF retx, end, rest
  <2>7. data_ch' \subseteq Pdu /\ pdu \in data_ch'
    BY <2>1, <2>2, <2>5, <2>6, TransmitTypes, ZenonT(30)
  <2>8. /\ pdu.sn = retx_queue[k].sn /\ pdu.pl = tx_window[retx_queue[k].sn]
        /\ pdu.so = retx_queue[k].so_start /\ pdu.so + pdu.len = end
    BY <1>1, <2>5
  <2> HIDE DEF pdu
  <2>9. CASE end = PduLen \/ end = retx.so_end
    <3>1. retx_queue' = Tail(q)  BY <2>1, <2>9
    <3>2. end >= retx.so_end  BY <2>2, <2>5, <2>9, PduLenAssumption
    <3>3. pdu.so + pdu.len >= retx_queue[k].so_end /\ pdu.so <= retx_queue[k].so_start
      BY <1>1, <2>2, <2>8, <3>2, PduLenAssumption, SMTT(30)
    <3> QED  BY <2>7, <2>8, <3>1, <3>3, FrontLeaves
  <2>10. CASE ~ (end = PduLen \/ end = retx.so_end)
    <3>1. retx_queue' = <<rest>> \o Tail(q)  BY <2>1, <2>10
    <3>2. end \in 0 .. PduLen - 1 /\ end < retx.so_end  BY <2>2, <2>5, <2>10, PduLenAssumption
    <3>3. rest \in RetxEntry /\ rest.sn = retx_queue[k].sn /\ rest.so_start = end
      BY <1>1, <2>2, <2>3, <3>2, ZenonT(30) DEF RetxEntry, Retx, rest
    <3>4. pdu.so + pdu.len >= rest.so_start /\ pdu.so <= retx_queue[k].so_start
      BY <1>1, <2>2, <2>5, <2>8, <3>3, PduLenAssumption
    <3> QED  BY <2>7, <2>8, <3>1, <3>3, <3>4, FrontAdvances, SMTT(30)
  <2> QED  BY <2>9, <2>10
<1> QED  BY <1>2, <1>3

(* build_retx_pdu() as a whole. *)
LEMMA BuildRetx ==
  ASSUME TxWindow, TxQueue, TxFlags, NEW space \in 0 .. PduLen, build_retx_pdu(space)
  PROVE  /\ TxQueue' /\ data_ch' \subseteq Pdu
         /\ pdu_without_poll' \in Nat /\ poll_retx_timeout' \in Timeout /\ tx_ub' \in BOOLEAN
         /\ UNCHANGED <<txWindowVars, tx_sdus, built>>
         /\ \A i \in 1 .. Len(retx_queue) : SkipsNothing(i)
<1> DEFINE live == {i \in 1 .. Len(retx_queue) : retx_queue[i].sn \in DOMAIN tx_window}
           k == Min(live)
           q == SubSeq(retx_queue, k, Len(retx_queue))
           retx == Head(q)
<1>0. UNCHANGED <<txWindowVars, tx_sdus, built>>  BY DEF build_retx_pdu
<1>1. CASE live = {}
  <2>1. tx_ub' = TRUE /\ UNCHANGED <<retx_queue, txPollVars, data_ch>>
    BY <1>1 DEF build_retx_pdu
  <2>2. \A i \in 1 .. Len(retx_queue) : SkipsNothing(i)  BY <1>1 DEF SkipsNothing
  <2> QED  BY <1>0, <2>1, <2>2 DEF TxQueue, TxFlags, txPollVars
<1>2. CASE live # {}
  <2>1. /\ k \in 1 .. Len(retx_queue) /\ retx_queue[k].sn \in DOMAIN tx_window
        /\ \A i \in 1 .. k - 1 : retx_queue[i].sn \notin DOMAIN tx_window
    BY <1>2, RetxFront, Zenon
  <2>2. /\ IF retx.is_segment \/ space < PduLen
           THEN build_segment(space, q)
           ELSE /\ set_poll(pdu_without_poll)
                /\ transmit(retx.sn, tx_window[retx.sn], poll_required(pdu_without_poll),
                            FALSE, 0, PduLen)
                /\ retx_queue' = Tail(q)
        /\ UNCHANGED tx_ub
    BY <1>2, ZenonT(30) DEF build_retx_pdu
  <2> HIDE DEF live, k
  <2>3. FrontAt(k, q)  BY <2>1 DEF FrontAt
  <2> HIDE DEF q
  <2>4. CASE retx.is_segment \/ space < PduLen
    <3>1. build_segment(space, q)  BY <2>2, <2>4, Zenon
    <3>2. UNCHANGED txPollVars  BY <3>1 DEF build_segment
    <3>3. /\ TxQueue' /\ data_ch' \subseteq Pdu
          /\ \A i \in 1 .. Len(retx_queue) : SkipsNothing(i)
      BY <2>1, <2>3, <3>1, BuildSegment
    <3> QED  BY <1>0, <2>2, <3>2, <3>3 DEF TxFlags, txPollVars
  <2>5. CASE ~ (retx.is_segment \/ space < PduLen)
    <3> DEFINE pdu == [sn |-> retx.sn, pl |-> tx_window[retx.sn],
                       p |-> poll_required(pdu_without_poll), rf |-> FALSE, so |-> 0, len |-> PduLen]
    <3>1. /\ set_poll(pdu_without_poll) /\ retx_queue' = Tail(q)
          /\ transmit(retx.sn, tx_window[retx.sn], poll_required(pdu_without_poll), FALSE, 0, PduLen)
      BY <2>2, <2>5, Zenon
    <3>2. retx = retx_queue[k] /\ retx \in RetxEntry  BY <2>3, FrontSuffix
    <3>3. retx.sn \in SN /\ retx.so_start \in 0 .. PduLen - 1 /\ retx.so_end \in 1 .. PduLen
      BY <3>2 DEF RetxEntry, Retx
    <3>4. pdu_without_poll' \in Nat /\ poll_retx_timeout' \in Timeout
      BY <3>1, PollTypes DEF TxFlags
    <3>5. tx_window[retx.sn] \in Nat  BY <2>1, <3>2, TxWindowContents
    <3>6. poll_required(pdu_without_poll) \in BOOLEAN  BY DEF poll_required
    <3>7. 0 \in 0 .. PduLen - 1 /\ PduLen \in 1 .. PduLen /\ FALSE \in BOOLEAN  BY PduLenAssumption
    <3> HIDE DEF retx
    <3>8. data_ch' \subseteq Pdu /\ pdu \in data_ch'
      BY <3>1, <3>3, <3>5, <3>6, <3>7, TransmitTypes, Zenon
    <3>9. /\ pdu.sn = retx_queue[k].sn /\ pdu.pl = tx_window[retx_queue[k].sn]
          /\ pdu.so = 0 /\ pdu.len = PduLen
      BY <3>2
    <3> HIDE DEF pdu
    <3>10. pdu.so <= retx_queue[k].so_start /\ pdu.so + pdu.len >= retx_queue[k].so_end
      BY <3>2, <3>3, <3>9, PduLenAssumption
    <3>11. TxQueue' /\ \A i \in 1 .. Len(retx_queue) : SkipsNothing(i)
      BY <2>3, <3>1, <3>8, <3>9, <3>10, FrontLeaves, SMTT(30)
    <3> QED  BY <1>0, <2>2, <3>4, <3>8, <3>11, SMTT(30) DEF TxFlags
  <2> QED  BY <2>4, <2>5
<1> QED  BY <1>1, <1>2

-----------------------------------------------------------------------------
(* What a status report may ask for again. *)
NackRange == [is_segment : BOOLEAN, so_start : 0 .. PduLen - 1, so_end : 1 .. PduLen]

(* handle_control_pdu() takes PDUs from the window's low edge, at most     *)
(* those below ack_sn and none from the first NACKed one on.               *)
LEMMA ControlReleases ==
  ASSUME TxWindow, NEW ack_sn \in SN, NEW nacks, handle_control_pdu(ack_sn, nacks)
  PROVE  \E n \in Nat :
           /\ n <= in_flight /\ n <= Dist(ack_sn, vt_a)
           /\ \A i \in 0 .. n - 1 : Plus(vt_a, i) \notin DOMAIN nacks
           /\ TxWindow' /\ in_flight' = in_flight - n
           /\ UNCHANGED <<vt_s, built>> /\ vt_a' = Plus(vt_a, n)
           /\ \A s \in DOMAIN tx_window' : s \in DOMAIN tx_window /\ tx_window'[s] = tx_window[s]
<1> DEFINE span == Min({Dist(ack_sn, vt_a), in_flight})
<1>0. in_flight \in SN /\ Dist(ack_sn, vt_a) \in SN
  BY TxWindowMember, DistValue, SMTT(30) DEF TxWindow
<1>1. PICK n \in 0 .. span :
        /\ released(span, nacks, n)
        /\ tx_window' = [s \in DOMAIN tx_window \ Run(vt_a, n) |-> tx_window[s]]
        /\ vt_a' = Plus(vt_a, n) /\ vt_ms' = Plus(vt_ms, n) /\ UNCHANGED <<vt_s, built>>
  BY DEF handle_control_pdu
<1>2. span \in Nat /\ span <= in_flight /\ span <= Dist(ack_sn, vt_a)
  <2>1. {Dist(ack_sn, vt_a), in_flight} \in SUBSET Nat  BY <1>0, WindowAssumption DEF SN
  <2>2. /\ span \in {Dist(ack_sn, vt_a), in_flight}
        /\ \A y \in {Dist(ack_sn, vt_a), in_flight} : span <= y
    BY <2>1, MinOfSet
  <2> QED  BY <2>1, <2>2
<1> HIDE DEF span
<1>3. n \in Nat /\ n <= in_flight /\ n <= Dist(ack_sn, vt_a)
  BY <1>0, <1>2, WindowAssumption DEF SN
<1>4. \A i \in 0 .. n - 1 : Plus(vt_a, i) \notin DOMAIN nacks  BY <1>1 DEF released
<1>5. TxWindow' /\ in_flight' = in_flight - n  BY <1>1, <1>3, ReleaseKeepsTxWindow
<1>6. \A s \in DOMAIN tx_window' : s \in DOMAIN tx_window /\ tx_window'[s] = tx_window[s]
  BY <1>1, SMTT(30)
<1> QED  BY <1>1, <1>3, <1>4, <1>5, <1>6

(* The NACKed PDUs join the queue, each once. *)
LEMMA ControlQueues ==
  ASSUME TxWindow, TxQueue, NEW ack_sn, NEW nacks,
         \A sn \in DOMAIN nacks : nacks[sn] \in NackRange /\ nacks[sn].so_start < nacks[sn].so_end,
         handle_control_pdu(ack_sn, nacks)
  PROVE  /\ TxQueue' /\ \A i \in 1 .. Len(retx_queue) : SkipsNothing(i)
         /\ \A i \in 1 .. Len(retx_queue') :
              \/ \E j \in 1 .. Len(retx_queue) : retx_queue'[i] = retx_queue[j]
              \/ \E sn \in DOMAIN nacks : retx_queue'[i].is_segment = nacks[sn].is_segment
<1> DEFINE span == Min({Dist(ack_sn, vt_a), in_flight})
           queued == {sn \in Run(vt_a, span) \cap DOMAIN nacks \cap DOMAIN tx_window :
                        ~ retx_queue_has_sn(sn)}
           m == Cardinality(queued)
           n == Len(retx_queue)
           entry(sn) == [sn |-> sn, is_segment |-> nacks[sn].is_segment,
                         so_start |-> nacks[sn].so_start, so_end |-> nacks[sn].so_end]
<1>0. n \in Nat /\ retx_queue \in Seq(RetxEntry)  BY LenProperties, SMTT(30) DEF TxQueue
<1>1. PICK sns \in [1 .. m -> queued] :
        /\ \A i, j \in DOMAIN sns : i < j => Dist(sns[i], vt_a) < Dist(sns[j], vt_a)
        /\ retx_queue' = retx_queue \o [i \in 1 .. Len(sns) |-> entry(sns[i])]
  BY ZenonT(30) DEF handle_control_pdu
<1>2. /\ queued \subseteq SN
      /\ \A sn \in queued : /\ nacks[sn] \in NackRange /\ nacks[sn].so_start < nacks[sn].so_end
                            /\ ~ retx_queue_has_sn(sn)
  BY TxWindowMember
<1>3. m \in Nat
  <2>1. IsFiniteSet(SN)  BY WindowAssumption, FS_Interval, SMTT(30) DEF SN
  <2> HIDE DEF queued
  <2>2. IsFiniteSet(queued)  BY <1>2, <2>1, FS_Subset, SMTT(30)
  <2> QED  BY <2>2, FS_CardinalityType, SMTT(30)
<1> HIDE DEF queued, m
<1>4. \A i, j \in 1 .. m : sns[i] = sns[j] => i = j
  <2>1. \A i \in 1 .. m : Dist(sns[i], vt_a) \in Int
    <3>1. \A i \in 1 .. m : sns[i] \in SN  BY <1>1, <1>2
    <3>2. vt_a \in SN  BY DEF TxWindow
    <3>3. \A i \in 1 .. m : Dist(sns[i], vt_a) \in SN  BY <3>1, <3>2, DistValue
    <3> QED  BY <3>3, WindowAssumption, SMTT(30) DEF SN
  <2> SUFFICES ASSUME NEW i \in 1 .. m, NEW j \in 1 .. m, sns[i] = sns[j], i # j PROVE FALSE
    OBVIOUS
  <2>2. i < j \/ j < i  BY <1>3, SMTT(30)
  <2>3. Dist(sns[i], vt_a) < Dist(sns[j], vt_a) \/ Dist(sns[j], vt_a) < Dist(sns[i], vt_a)
    BY <1>1, <2>2, SMTT(30)
  <2> QED  BY <2>1, <2>3
<1> DEFINE new == [i \in 1 .. Len(sns) |-> entry(sns[i])]
<1>5. Len(sns) = m  BY <1>1, <1>3, SMTT(30)
<1>6. \A sn \in queued : /\ entry(sn) \in RetxEntry /\ entry(sn).sn = sn
                         /\ entry(sn).is_segment = nacks[sn].is_segment
  BY <1>2, SMTT(30) DEF RetxEntry, Retx, NackRange
<1>7. \A i \in 1 .. m : /\ new[i] \in RetxEntry /\ new[i].sn = sns[i] /\ sns[i] \in queued
                       /\ new[i].is_segment = nacks[sns[i]].is_segment
  BY <1>1, <1>5, <1>6, SMTT(30)
<1>8. new \in Seq(RetxEntry) /\ Len(new) = m
  BY <1>3, <1>5, <1>7, SMTT(30)
<1> HIDE DEF new
<1>9. /\ retx_queue' \in Seq(RetxEntry) /\ Len(retx_queue') = n + m
      /\ \A i \in 1 .. n + m : retx_queue'[i] = IF i <= n THEN retx_queue[i] ELSE new[i - n]
  BY <1>0, <1>1, <1>8, ConcatProperties, Zenon DEF new
<1>10. \A i \in 1 .. n : \A j \in 1 .. m : retx_queue[i].sn # new[j].sn
  BY <1>2, <1>7 DEF retx_queue_has_sn
<1>11. ASSUME NEW i \in 1 .. n + m, NEW j \in 1 .. n + m, retx_queue'[i].sn = retx_queue'[j].sn
       PROVE  i = j
  <2>1. \A x \in 1 .. n + m : x <= n \/ (~ (x <= n) /\ x - n \in 1 .. m)  BY <1>0, <1>3
  <2>2. \A x \in 1 .. n + m : x <= n => x \in 1 .. n  BY <1>0, <1>3
  <2>3. CASE i <= n /\ j <= n  BY <1>9, <1>11, <2>2, <2>3 DEF TxQueue
  <2>4. CASE i <= n /\ ~ (j <= n)  BY <1>9, <1>10, <1>11, <2>1, <2>2, <2>4, SMTT(30)
  <2>5. CASE ~ (i <= n) /\ j <= n  BY <1>9, <1>10, <1>11, <2>1, <2>2, <2>5
  <2>6. CASE ~ (i <= n) /\ ~ (j <= n)
    <3>1. i - n \in 1 .. m /\ j - n \in 1 .. m  BY <2>1, <2>6
    <3>2. sns[i - n] = sns[j - n]  BY <1>7, <1>9, <1>11, <2>6, <3>1, SMTT(30)
    <3>3. i - n = j - n  BY <1>4, <3>1, <3>2
    <3> QED  BY <1>0, <1>3, <3>3
  <2> QED  BY <2>3, <2>4, <2>5, <2>6
<1>12. TxQueue'  BY <1>9, <1>11 DEF TxQueue
<1>13. ASSUME NEW i \in 1 .. n PROVE SkipsNothing(i)
  <2>1. i \in 1 .. n + m /\ i <= n  BY <1>0, <1>3
  <2>2. i \in 1 .. Len(retx_queue') /\ retx_queue'[i] = retx_queue[i]  BY <1>9, <2>1
  <2> QED  BY <1>12, <2>2, OnlyEntry
<1>14. ASSUME NEW i \in 1 .. n + m
       PROVE  \/ \E j \in 1 .. n : retx_queue'[i] = retx_queue[j]
              \/ \E sn \in DOMAIN nacks : retx_queue'[i].is_segment = nacks[sn].is_segment
  <2>1. CASE i <= n
    <3>1. i \in 1 .. n  BY <1>0, <1>3, <2>1
    <3> QED  BY <1>9, <2>1, <3>1
  <2>2. CASE ~ (i <= n)
    <3>1. i - n \in 1 .. m  BY <1>0, <1>3, <2>2, SMTT(30)
    <3>2. sns[i - n] \in DOMAIN nacks  BY <1>7, <3>1 DEF queued
    <3> QED  BY <1>7, <1>9, <2>2, <3>1, <3>2
  <2> QED  BY <2>1, <2>2
<1> QED  BY <1>9, <1>12, <1>13, <1>14, SMTT(30)

-----------------------------------------------------------------------------
(***************************************************************************)
(* The sender.                                                             *)
(***************************************************************************)
TxInd == TxWindow /\ TxQueue /\ TxFlags

(* A sender that has sent nothing. *)
LEMMA TxInitInd == TxInit => TxInd
<1> SUFFICES ASSUME TxInit PROVE TxInd  OBVIOUS
<1>0. 0 \in SN /\ WINDOW \in SN /\ MOD \in Nat  BY WindowAssumption DEF SN
<1>1. in_flight = 0 /\ Plus(0, WINDOW) = WINDOW
  BY <1>0, PlusDist, PlusValue, WindowAssumption DEF TxInit, in_flight, SN
<1>2. Run(0, 0) = {} /\ DOMAIN << >> = {}  BY DEF Run
<1>3. TxWindow  BY <1>0, <1>1, <1>2 DEF TxInit, TxWindow
<1>4. TxQueue  BY DEF TxInit, TxQueue
<1>5. TxFlags  BY Zenon DEF TxInit, TxFlags, Timeout
<1> QED  BY <1>3, <1>4, <1>5 DEF TxInd

(* Steps that leave the queue alone pass over nothing. *)
LEMMA SameQueue ==
  ASSUME TxQueue, UNCHANGED retx_queue
  PROVE  TxQueue' /\ \A i \in 1 .. Len(retx_queue) : SkipsNothing(i)
<1>1. TxQueue'  BY DEF TxQueue
<1> QED  BY <1>1, OnlyEntry

(* A step that leaves the window alone. *)
LEMMA SameTxWindow ==
  ASSUME TxWindow, UNCHANGED <<txWindowVars, built>>
  PROVE  TxWindow'
  BY DEF TxWindow, txWindowVars, in_flight

(* read_pdu(): new data. *)
LEMMA BuildDataKeepsInd ==
  ASSUME MaxInFlight \in SN, TxInd, NEW space, build_data_pdu(space), tx_opportunity' = FALSE
  PROVE  TxInd' /\ UNCHANGED retx_queue
<1> USE DEF TxInd
<1>0. UNCHANGED <<retx_queue, tx_ub>>  BY DEF build_data_pdu
<1>1. TxQueue'  BY <1>0, SameQueue
<1>2. CASE tx_sdus = 0 \/ space = 0
  <2>1. UNCHANGED <<txWindowVars, txPollVars, tx_sdus, built, data_ch>>
    BY <1>2, Zenon DEF build_data_pdu
  <2>2. TxWindow'  BY <2>1, SameTxWindow
  <2>3. TxFlags'  BY <1>0, <2>1, Zenon DEF TxFlags, txPollVars
  <2> QED  BY <1>0, <1>1, <2>2, <2>3
<1>3. CASE ~ (tx_sdus = 0 \/ space = 0)
  <2> DEFINE p == poll_required(pdu_without_poll + 1)
  <2>1. /\ in_flight < MaxInFlight /\ set_poll(pdu_without_poll + 1)
        /\ transmit(vt_s, built, p, FALSE, 0, PduLen)
        /\ tx_window' = [s \in DOMAIN tx_window \cup {vt_s} |->
                           IF s = vt_s THEN built ELSE tx_window[s]]
        /\ vt_s' = Plus(vt_s, 1) /\ tx_sdus' = tx_sdus - 1 /\ built' = built + 1
        /\ UNCHANGED <<vt_a, vt_ms>>
    BY <1>3, Zenon DEF build_data_pdu
  <2>2. in_flight + 1 < MOD
    BY <2>1, TxWindowMember, WindowAssumption DEF SN
  <2>3. TxWindow'  BY <2>1, <2>2, BuildKeepsTxWindow
  <2>4. tx_sdus' \in Nat  BY <1>3, <2>1 DEF TxFlags
  <2>5. pdu_without_poll' \in Nat /\ poll_retx_timeout' \in Timeout
    <3>1. pdu_without_poll + 1 \in Nat  BY DEF TxFlags
    <3> QED  BY <2>1, <3>1, PollTypes
  <2>6. data_ch' \subseteq Pdu
    <3>1. p \in BOOLEAN  BY DEF poll_required
    <3>2. 0 \in 0 .. PduLen - 1 /\ PduLen \in 1 .. PduLen /\ FALSE \in BOOLEAN  BY PduLenAssumption
    <3>3. vt_s \in SN /\ built \in Nat  BY DEF TxWindow
    <3> HIDE DEF p
    <3> QED  BY <2>1, <3>1, <3>2, <3>3, TransmitTypes, Zenon
  <2>7. TxFlags'  BY <1>0, <2>4, <2>5, <2>6, Zenon DEF TxFlags
  <2> QED  BY <1>0, <1>1, <2>3, <2>7
<1> QED  BY <1>2, <1>3

(* Every step of the sender that needs no report keeps the invariant and   *)
(* skips no retransmission.                                                *)
LEMMA TxStepKeepsInd ==
  ASSUME MaxInFlight \in SN, TxInd, TxStep
  PROVE  TxInd' /\ \A i \in 1 .. Len(retx_queue) : SkipsNothing(i)
<1> USE DEF TxInd
<1>1. CASE write_sdu \/ tx_get_buffer_state \/ PollRetxExpires
  <2>1. UNCHANGED <<txWindowVars, retx_queue, built>>
    BY <1>1, Zenon DEF write_sdu, tx_get_buffer_state, PollRetxExpires
  <2>2. TxFlags'
    <3>1. CASE write_sdu  BY <3>1 DEF write_sdu, TxFlags, txPollVars
    <3>2. CASE tx_get_buffer_state
      <4>1. tx_opportunity' \in BOOLEAN  BY <3>2, Zenon DEF tx_get_buffer_state
      <4>2. UNCHANGED <<txPollVars, tx_sdus, tx_ub, data_ch>>  BY <3>2 DEF tx_get_buffer_state
      <4> QED  BY <4>1, <4>2 DEF TxFlags, txPollVars
    <3>3. CASE PollRetxExpires  BY <3>3 DEF PollRetxExpires, TxFlags, Timeout
    <3> QED  BY <1>1, <3>1, <3>2, <3>3
  <2> QED  BY <2>1, <2>2, SameTxWindow, SameQueue
<1>2. ASSUME NEW space \in 0 .. PduLen, read_pdu(space)
      PROVE  TxInd' /\ \A i \in 1 .. Len(retx_queue) : SkipsNothing(i)
  <2>0. tx_opportunity' = FALSE  BY <1>2 DEF read_pdu
  <2>1. CASE retx_queue # << >>
    <3>1. build_retx_pdu(space)  BY <1>2, <2>1 DEF read_pdu
    <3>2. /\ TxQueue' /\ data_ch' \subseteq Pdu
          /\ pdu_without_poll' \in Nat /\ poll_retx_timeout' \in Timeout /\ tx_ub' \in BOOLEAN
          /\ UNCHANGED <<txWindowVars, tx_sdus, built>>
          /\ \A i \in 1 .. Len(retx_queue) : SkipsNothing(i)
      BY <3>1, BuildRetx
    <3>3. TxWindow'  BY <3>2, SameTxWindow
    <3>4. TxFlags'  BY <2>0, <3>2, Zenon DEF TxFlags
    <3> QED  BY <3>2, <3>3, <3>4
  <2>2. CASE ~ (retx_queue # << >>)
    <3>1. build_data_pdu(space)  BY <1>2, <2>2 DEF read_pdu
    <3>2. TxInd' /\ UNCHANGED retx_queue  BY <2>0, <3>1, BuildDataKeepsInd, ZenonT(30)
    <3> QED  BY <3>2, SameQueue
  <2> QED  BY <2>1, <2>2
<1> QED  BY <1>1, <1>2 DEF TxStep

(* A status report that asks for ranges of bytes. *)
LEMMA ControlKeepsInd ==
  ASSUME TxInd, NEW ack_sn \in SN, NEW nacks,
         \A sn \in DOMAIN nacks : nacks[sn] \in NackRange /\ nacks[sn].so_start < nacks[sn].so_end,
         handle_control_pdu(ack_sn, nacks), data_ch' \subseteq Pdu
  PROVE  TxInd' /\ \A i \in 1 .. Len(retx_queue) : SkipsNothing(i)
<1> USE DEF TxInd
<1>1. TxWindow'  BY ControlReleases
<1>2. TxQueue' /\ \A i \in 1 .. Len(retx_queue) : SkipsNothing(i)  BY ControlQueues, SMTT(30)
<1>3. /\ poll_retx_timeout' = "stopped"
      /\ UNCHANGED <<pdu_without_poll, tx_sdus, tx_opportunity, tx_ub>>
  BY DEF handle_control_pdu
<1>4. TxFlags'  BY <1>3 DEF TxFlags, Timeout
<1> QED  BY <1>1, <1>2, <1>4

(* Every step keeps the invariant and passes over nothing in the queue. *)
LEMMA TxNextKeepsInd ==
  ASSUME MaxInFlight \in SN, TxInd, [TxNext]_txVars
  PROVE  TxInd' /\ [\A i \in 1 .. Len(retx_queue) : SkipsNothing(i)]_txVars
<1> USE DEF TxInd
<1>1. CASE TxStep  BY <1>1, TxStepKeepsInd, SMTT(30)
<1>2. CASE PeerStatus
  <2>1. PICK n \in 0 .. in_flight : \E missing \in SUBSET Run(vt_a, n) :
          \E nacks \in [missing -> {r \in Ranges : r.so_start < r.so_end}] :
            handle_control_pdu(Plus(vt_a, n), nacks)
    BY <1>2 DEF PeerStatus
  <2>2. PICK missing \in SUBSET Run(vt_a, n) :
          \E nacks \in [missing -> {r \in Ranges : r.so_start < r.so_end}] :
            handle_control_pdu(Plus(vt_a, n), nacks)
    BY <2>1
  <2>3. PICK nacks \in [missing -> {r \in Ranges : r.so_start < r.so_end}] :
          handle_control_pdu(Plus(vt_a, n), nacks)
    BY <2>2
  <2>4. Ranges \subseteq NackRange
    <3>1. PduLen \in 1 .. PduLen /\ 0 \in 0 .. PduLen - 1  BY PduLenAssumption
    <3>2. Whole \in NackRange  BY <3>1 DEF NackRange, Whole
    <3>3. \A a \in 0 .. PduLen - 1, b \in 1 .. PduLen : Part(a, b) \in NackRange
      BY DEF NackRange, Part
    <3> QED  BY <3>2, <3>3 DEF Ranges
  <2>5. \A sn \in DOMAIN nacks : nacks[sn] \in NackRange /\ nacks[sn].so_start < nacks[sn].so_end
    BY <2>3, <2>4
  <2>6. Plus(vt_a, n) \in SN
    <3>1. n \in SN /\ vt_a \in SN  BY TxWindowMember, WindowAssumption DEF SN, TxWindow
    <3> QED  BY <3>1, PlusValue
  <2>7. data_ch' \subseteq Pdu  BY <1>2 DEF PeerStatus, TxFlags
  <2> QED  BY <2>3, <2>5, <2>6, <2>7, ControlKeepsInd, SMTT(30)
<1>3. CASE PduLeaves
  <2>1. UNCHANGED <<txWindowVars, retx_queue, built>>  BY <1>3 DEF PduLeaves
  <2>2. TxFlags'  BY <1>3 DEF PduLeaves, TxFlags, txPollVars
  <2> QED  BY <2>1, <2>2, SameTxWindow, SameQueue
<1>4. CASE TxReset
  <2>0. 0 \in SN /\ WINDOW \in SN /\ MOD \in Nat  BY WindowAssumption DEF SN
  <2>1. in_flight' = 0 /\ Plus(0, WINDOW) = WINDOW
    BY <1>4, <2>0, PlusDist, PlusValue, WindowAssumption, SMTT(30) DEF TxReset, in_flight, SN
  <2>2. Run(0, 0) = {} /\ DOMAIN << >> = {}  BY DEF Run
  <2>3. TxWindow'  BY <1>4, <2>0, <2>1, <2>2 DEF TxReset, TxWindow
  <2>4. TxQueue'  BY <1>4 DEF TxReset, TxQueue
  <2>5. TxFlags'  BY <1>4, Zenon DEF TxReset, TxFlags
  <2>6. \A i \in 1 .. Len(retx_queue) : SkipsNothing(i)
    BY <1>4, <2>2 DEF TxReset, SkipsNothing
  <2> QED  BY <2>3, <2>4, <2>5, <2>6
<1>5. CASE UNCHANGED txVars
  <2>1. UNCHANGED <<txWindowVars, retx_queue, built>> /\ TxFlags'
    BY <1>5 DEF txVars, TxFlags, txPollVars
  <2> QED  BY <1>5, <2>1, SameTxWindow, SameQueue
<1> QED  BY <1>1, <1>2, <1>3, <1>4, <1>5, SMTT(30) DEF TxNext

(* The invariant of the sender, in every reachable state. *)
LEMMA TxIndInvariant ==
  ASSUME MaxInFlight \in SN
  PROVE  TxSpec => []TxInd
<1>1. TxInd /\ [TxNext]_txVars => TxInd'  BY TxNextKeepsInd
<1> QED  BY <1>1, TxInitInd, PTL DEF TxSpec

(* As long as fewer than MOD PDUs are in flight, whatever the peer         *)
(* acknowledges or asks for again: tx_window holds exactly the PDUs from   *)
(* vt_a up to vt_s under the numbers build_data_pdu() gave them, and       *)
(* retx_queue holds no number twice.                                       *)
THEOREM TxWindowCorrect ==
  ASSUME MaxInFlight \in SN
  PROVE  TxSpec => []TxWindowInv
<1>1. TxInd => TxWindowInv  BY DEF TxInd, TxWindow, TxQueue, TxWindowInv
<1> QED  BY <1>1, TxIndInvariant, PTL

(* The types of the sender's state: in particular read_pdu() cuts no       *)
(* segment of zero bytes and none beyond the end of its PDU.               *)
THEOREM TxTypesCorrect ==
  ASSUME MaxInFlight \in SN
  PROVE  TxSpec => []TxTypeOK
<1>1. TxInd => TxTypeOK
  <2> SUFFICES ASSUME TxInd PROVE TxTypeOK  OBVIOUS
  <2> USE DEF TxInd
  <2>1. WINDOW \in SN /\ vt_a \in SN /\ vt_s \in SN /\ built \in Nat
    BY WindowAssumption DEF TxWindow, SN
  <2>2. vt_ms \in SN  BY <2>1, PlusValue DEF TxWindow
  <2>3. DOMAIN tx_window \subseteq SN  BY TxWindowMember
  <2>4. Range(tx_window) \subseteq Nat  BY TxWindowContents DEF Range
  <2>5. retx_queue \in Seq(Retx)
    <3>1. RetxEntry \subseteq Retx  BY DEF RetxEntry
    <3> QED  BY <3>1 DEF TxQueue
  <2> QED  BY <2>1, <2>2, <2>3, <2>4, <2>5, SMTT(30) DEF TxTypeOK, TxFlags
<1> QED  BY <1>1, TxIndInvariant, PTL

(* Every byte that a status report asks for again is transmitted again     *)
(* before its entry moves past it in retx_queue, whatever the sizes of the *)
(* grants.                                                                 *)
THEOREM RetxComplete ==
  ASSUME MaxInFlight \in SN
  PROVE  TxSpec => RetxSkipsNothing
<1>1. TxInd /\ [TxNext]_txVars => [\A i \in 1 .. Len(retx_queue) : SkipsNothing(i)]_txVars
  BY TxNextKeepsInd
<1> QED  BY <1>1, TxIndInvariant, PTL DEF TxSpec, RetxSkipsNothing
=============================================================================
