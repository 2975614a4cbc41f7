--------------------------- MODULE RlcAmRxProofs ---------------------------
(***************************************************************************)
(* The receive window of rlc_am.cc for every modulus and window size: its  *)
(* order is an inductive invariant, ACK_SN never moves backwards nor       *)
(* beyond the window, and what is handed up is in order and complete.      *)
(***************************************************************************)
EXTENDS RlcAmRx, RlcSnProofs, FiniteSetTheorems

(* The types of the variables that make up the window. *)
RxWindowType ==
  /\ vr_r \in SN /\ vr_mr \in SN /\ vr_x \in SN /\ vr_ms \in SN /\ vr_h \in SN
  /\ DOMAIN rx_window \subseteq SN
  /\ reordering_timeout \in Timeout

RxInd == RxWindowType /\ RxWindowInv

(* A new window is typed and empty. *)
LEMMA EmptyWindow ==
  ASSUME vr_r' = 0, vr_mr' = WINDOW, vr_x' = 0, vr_ms' = 0, vr_h' = 0,
         rx_window' = << >>, reordering_timeout' = "stopped"
  PROVE  RxInd'
<1>1. 0 \in SN /\ WINDOW \in SN  BY WindowAssumption DEF SN
<1>2. Dist(0, 0) = 0 /\ Plus(0, WINDOW) = WINDOW
  BY <1>1, PlusDist, PlusValue, WindowAssumption DEF SN
<1>3. DOMAIN << >> = {}  OBVIOUS
<1>4. RxWindowType'  BY <1>1, <1>3 DEF RxWindowType, Timeout
<1>5. RxWindowInv'  BY <1>2, <1>3, WindowAssumption DEF RxWindowInv
<1> QED  BY <1>4, <1>5 DEF RxInd

(* vr_ms lies in the window. *)
LEMMA AckInWindow ==
  ASSUME RxInd
  PROVE  Dist(vr_ms, vr_r) \in Dist(vr_ms, vr_r) .. WINDOW
<1>1. vr_ms \in SN /\ vr_r \in SN /\ vr_h \in SN  BY DEF RxInd, RxWindowType
<1>2. Dist(vr_ms, vr_r) \in Int /\ Dist(vr_h, vr_r) \in Int
  BY <1>1, DistValue, WindowAssumption DEF SN
<1> QED  BY <1>2, WindowAssumption DEF RxInd, RxWindowInv

(* handle_data_pdu() on a PDU that is inside the window and new: the       *)
(* window, its low edge, vr_ms, vr_h and the timer move together.          *)
LEMMA AcceptKeepsWindow ==
  ASSUME RxInd, NEW sn \in SN, NEW pl, NEW p, NEW ds,
         inside_rx_window(sn), sn \notin DOMAIN rx_window,
         accept_data_pdu(sn, pl, p, ds)
  PROVE  RxInd' /\ Dist(vr_ms', vr_r) \in Dist(vr_ms, vr_r) .. WINDOW
<1> DEFINE w == [s \in DOMAIN rx_window \cup {sn} |-> IF s = sn THEN pl ELSE rx_window[s]]
           D == DOMAIN w
           h == IF Dist(sn, vr_r) >= Dist(vr_h, vr_r) THEN Plus(sn, 1) ELSE vr_h
<1>1. PICK m \in SN, n \in SN :
        /\ IsRunLength(vr_ms, D, m) /\ IsRunLength(vr_r, D, n)
        /\ vr_h' = h /\ vr_ms' = Plus(vr_ms, m)
        /\ reassemble_rx_sdus(w, n)
        /\ update_reordering(vr_r', vr_mr', h)
  BY DEF accept_data_pdu
<1>2. /\ D = DOMAIN rx_window \cup {sn}
      /\ rx_window' = [s \in D \ Run(vr_r, n) |-> w[s]]
      /\ vr_r' = Plus(vr_r, n) /\ vr_mr' = Plus(vr_mr, n)
  BY <1>1 DEF reassemble_rx_sdus
<1> HIDE DEF w, D
<1>a. MOD \in Nat /\ WINDOW \in SN /\ 0 < WINDOW /\ 1 \in SN /\ 2 * WINDOW <= MOD
  BY WindowAssumption DEF SN
<1>b. /\ vr_r \in SN /\ vr_mr \in SN /\ vr_x \in SN /\ vr_ms \in SN /\ vr_h \in SN
      /\ DOMAIN rx_window \subseteq SN
  BY DEF RxInd, RxWindowType
<1>3. /\ Dist(vr_r, vr_r) = 0 /\ Dist(vr_mr, vr_r) = WINDOW
      /\ Dist(sn, vr_r) \in Nat /\ Dist(sn, vr_r) < WINDOW
      /\ Dist(vr_h, vr_r) \in Nat /\ Dist(vr_ms, vr_r) \in Nat
  BY <1>a, <1>b, PlusDist, DistValue DEF RxInd, RxWindowInv, inside_rx_window, SN
(* vr_h: the highest distance of all, and no more than the window. *)
<1> DEFINE k == Dist(h, vr_r)
<1>4. /\ h \in SN /\ k \in SN /\ k <= WINDOW /\ Dist(vr_h, vr_r) <= k
      /\ \A s \in D : s \in SN /\ Dist(s, vr_r) < k
  <2>1. CASE Dist(sn, vr_r) >= Dist(vr_h, vr_r)
    <3>1. h = Plus(sn, 1) /\ h \in SN  BY <2>1, <1>a, PlusValue
    <3>2. k = Dist(sn, vr_r) + 1  BY <3>1, <1>a, <1>b, <1>3, DistPlus DEF SN
    <3>3. ASSUME NEW s \in DOMAIN rx_window PROVE Dist(s, vr_r) \in Nat /\ Dist(s, vr_r) < Dist(vr_h, vr_r)
      BY <1>b, DistValue DEF RxInd, RxWindowInv, SN
    <3> HIDE DEF h, k
    <3>4. \A s \in D : s \in SN /\ Dist(s, vr_r) < k
      BY <1>2, <1>3, <1>b, <2>1, <3>2, <3>3
    <3> QED  BY <1>3, <1>a, <2>1, <3>1, <3>2, <3>4 DEF SN
  <2>2. CASE ~ (Dist(sn, vr_r) >= Dist(vr_h, vr_r))
    <3>1. h = vr_h /\ h \in SN /\ k = Dist(vr_h, vr_r)  BY <2>2, <1>b
    <3> HIDE DEF h, k
    <3>2. \A s \in DOMAIN rx_window : Dist(s, vr_r) < Dist(vr_h, vr_r)
      BY DEF RxInd, RxWindowInv
    <3>3. Dist(vr_h, vr_r) \in SN /\ Dist(vr_h, vr_r) <= WINDOW
      BY <1>b, DistValue DEF RxInd, RxWindowInv
    <3>4. \A s \in D : s \in SN /\ Dist(s, vr_r) < k
      BY <1>2, <1>3, <1>b, <2>2, <3>1, <3>2
    <3> QED  BY <1>3, <3>1, <3>3, <3>4
  <2> QED  BY <2>1, <2>2
<1> HIDE DEF h, k
(* The low edge: n PDUs are delivered. *)
<1>5. /\ n <= k /\ Plus(vr_r, n) \in SN \ D
      /\ Dist(Plus(vr_r, n), vr_r) = n
      /\ \A s \in SN : Dist(s, vr_r) < n => s \in D
  <2>1. Dist(vr_r, vr_r) <= k  BY <1>3, <1>4 DEF SN
  <2>2. /\ 0 + n <= k /\ Plus(vr_r, n) \in SN \ D
        /\ Dist(Plus(vr_r, n), vr_r) = 0 + n
        /\ \A s \in SN : 0 <= Dist(s, vr_r) /\ Dist(s, vr_r) < 0 + n => s \in D
    BY <1>1, <1>3, <1>4, <1>b, <2>1, WalkBound
  <2> QED  BY <2>2, <1>b, DistValue DEF SN
(* vr_ms walks over what is stored, and not below the new low edge. *)
<1>6. /\ vr_ms' \in SN \ D
      /\ Dist(vr_ms', vr_r) = Dist(vr_ms, vr_r) + m
      /\ Dist(vr_ms', vr_r) <= k
      /\ \A s \in SN : Dist(vr_ms, vr_r) <= Dist(s, vr_r) /\ Dist(s, vr_r) < Dist(vr_ms', vr_r) => s \in D
  <2>1. Dist(vr_ms, vr_r) <= k  BY <1>3, <1>4 DEF RxInd, RxWindowInv, SN
  <2> QED  BY <1>1, <1>4, <1>b, <2>1, WalkBound
<1>7. n <= Dist(vr_ms', vr_r)
  BY <1>3, <1>5, <1>6 DEF SN
(* Distances from the new low edge. *)
<1>8. vr_r' \in SN /\ \A s \in SN : Dist(s, vr_r') =
        IF n <= Dist(s, vr_r) THEN Dist(s, vr_r) - n ELSE Dist(s, vr_r) - n + MOD
  BY <1>2, <1>5, <1>b, DistShift
<1>9. \A s \in SN : Dist(s, vr_r) \in Nat /\ Dist(s, vr_r) < MOD
  <2>1. \A s \in SN : Dist(s, vr_r) \in SN  BY <1>b, DistValue
  <2> QED  BY <2>1, <1>a DEF SN
<1>10. DOMAIN (rx_window') = {s \in D : n < Dist(s, vr_r)}
  <2>1. DOMAIN (rx_window') = D \ Run(vr_r, n)  BY <1>2
  <2>2. ASSUME NEW s \in D PROVE s \notin Run(vr_r, n) <=> n < Dist(s, vr_r)
    <3>1. s \in SN /\ (s \in Run(vr_r, n) <=> Dist(s, vr_r) < n)  BY <1>4, <1>b, RunMember
    <3>2. Dist(s, vr_r) # n  BY <1>5, <1>b, <3>1, DistInjective
    <3> QED  BY <1>9, <3>1, <3>2 DEF SN
  <2> QED  BY <2>1, <2>2
<1>11. vr_mr' = Plus(vr_r', WINDOW) /\ vr_mr' \in SN /\ Dist(vr_mr', vr_r') = WINDOW
  <2>1. Plus(vr_mr, n) = Plus(Plus(vr_r, n), WINDOW)
    BY <1>a, <1>b, PlusCommutes DEF RxInd, RxWindowInv
  <2> QED  BY <2>1, <1>2, <1>8, <1>a, PlusValue, PlusDist
(* The timer: a gap that has closed stops it, an open one lies above. *)
<1>12. /\ vr_x' \in SN /\ reordering_timeout' \in Timeout
       /\ reordering_timeout' # "stopped" =>
            \/ vr_x' = h /\ 0 < Dist(h, vr_r')
            \/ /\ reordering_timeout # "stopped" /\ vr_x' = vr_x
               /\ n < Dist(vr_x, vr_r)
  <2> DEFINE stop == \/ vr_x = vr_r'
                     \/ Dist(vr_x, vr_r') < Dist(vr_r', vr_r')
                     \/ Dist(vr_x, vr_r') > Dist(vr_mr', vr_r') /\ vr_x # vr_mr'
  <2>1. reordering_timeout \in Timeout  BY DEF RxInd, RxWindowType
  <2>2. CASE reordering_timeout = "stopped" \/ stop
    <3>1. IF Dist(h, vr_r') > Dist(vr_r', vr_r')
          THEN reordering_timeout' = "running" /\ vr_x' = h
          ELSE reordering_timeout' = "stopped" /\ UNCHANGED vr_x
      BY <1>1, <2>2 DEF update_reordering
    <3>2. Dist(vr_r', vr_r') = 0  BY <1>8, PlusDist
    <3> QED  BY <3>1, <3>2, <1>4, <1>8, <1>b DEF Timeout
  <2>3. CASE ~ (reordering_timeout = "stopped" \/ stop)
    <3>1. UNCHANGED <<reordering_timeout, vr_x>>
      BY <1>1, <2>3 DEF update_reordering
    <3>2. Dist(vr_x, vr_r') <= WINDOW  BY <2>3, <1>8, <1>9, <1>11, <1>a, <1>b DEF SN
    <3>3. vr_x # vr_r'  BY <2>3
    <3>4. Dist(vr_x, vr_r) # n  BY <3>3, <1>2, <1>5, <1>b, DistInjective
    <3>5. 0 < Dist(vr_x, vr_r)  BY <2>3 DEF RxInd, RxWindowInv
    <3>6. n <= WINDOW  BY <1>4, <1>5, <1>a DEF SN
    <3>7. n < Dist(vr_x, vr_r)
      BY <3>2, <3>4, <3>5, <3>6, <1>8, <1>9, <1>a, <1>b DEF SN
    <3> QED  BY <2>1, <2>3, <3>1, <3>7, <1>b
  <2> QED  BY <2>2, <2>3
<1>13. RxWindowType'
  BY <1>1, <1>4, <1>6, <1>8, <1>10, <1>11, <1>12 DEF RxWindowType
<1>14. /\ Dist(vr_h', vr_r') = k - n
       /\ Dist(vr_ms', vr_r') = Dist(vr_ms', vr_r) - n
  BY <1>1, <1>4, <1>5, <1>6, <1>7, <1>8 DEF k, SN
<1>15. \A s \in DOMAIN (rx_window') :
         0 < Dist(s, vr_r') /\ Dist(s, vr_r') < Dist(vr_h', vr_r')
  BY <1>4, <1>8, <1>9, <1>10, <1>14 DEF SN
<1>16. ASSUME reordering_timeout' # "stopped"
       PROVE  /\ 0 < Dist(vr_x', vr_r') /\ Dist(vr_x', vr_r') <= Dist(vr_h', vr_r')
              /\ \A s \in SN : /\ Dist(vr_x', vr_r') <= Dist(s, vr_r')
                               /\ Dist(s, vr_r') < Dist(vr_ms', vr_r')
                               => s \in DOMAIN (rx_window')
  <2>1. CASE vr_x' = h /\ 0 < Dist(h, vr_r')
    <3>1. Dist(vr_ms', vr_r') <= Dist(vr_h', vr_r')
      BY <1>4, <1>6, <1>9, <1>14 DEF SN
    <3>2. \A s \in SN : Dist(s, vr_r') \in SN  BY <1>8, DistValue
    <3>3. vr_x' = vr_h'  BY <2>1, <1>1
    <3> QED  BY <2>1, <3>1, <3>2, <3>3, <1>1, <1>4, <1>6, <1>a, SMTT(30) DEF SN
  <2>2. CASE reordering_timeout # "stopped" /\ vr_x' = vr_x /\ n < Dist(vr_x, vr_r)
    <3>1. /\ Dist(vr_x, vr_r) <= Dist(vr_h, vr_r)
          /\ \A s \in SN : /\ Dist(vr_x, vr_r) <= Dist(s, vr_r)
                           /\ Dist(s, vr_r) < Dist(vr_ms, vr_r)
                           => s \in DOMAIN rx_window
      BY <2>2 DEF RxInd, RxWindowInv
    <3>2. Dist(vr_x', vr_r') = Dist(vr_x, vr_r) - n  BY <2>2, <1>8, <1>9, <1>b DEF SN
    <3>3. ASSUME NEW s \in SN, Dist(vr_x', vr_r') <= Dist(s, vr_r'),
                 Dist(s, vr_r') < Dist(vr_ms', vr_r')
          PROVE  s \in DOMAIN (rx_window')
      <4>1. Dist(s, vr_r) < Dist(vr_ms', vr_r) /\ Dist(vr_x, vr_r) <= Dist(s, vr_r)
        BY <2>2, <3>2, <3>3, <1>4, <1>6, <1>8, <1>9, <1>14, <1>a, <1>b, SMTT(30) DEF SN
      <4>2. s \in D  BY <3>1, <4>1, <1>2, <1>3, <1>6, <1>9
      <4> QED  BY <2>2, <4>1, <4>2, <1>9, <1>10, <1>b DEF SN
    <3> QED  BY <2>2, <3>1, <3>2, <3>3, <1>4, <1>9, <1>14, <1>b DEF SN
  <2> QED  BY <1>12, <1>16, <2>1, <2>2
<1>17. RxWindowInv'
  BY <1>4, <1>5, <1>6, <1>7, <1>9, <1>10, <1>11, <1>14, <1>15, <1>16, <1>a, SMTT(30) DEF RxWindowInv, SN
<1>18. Dist(vr_ms', vr_r) \in Dist(vr_ms, vr_r) .. WINDOW
  BY <1>3, <1>4, <1>6, <1>a DEF SN
<1> QED  BY <1>13, <1>17, <1>18 DEF RxInd

(* A segment that is first of its PDU moves vr_h and nothing else of the   *)
(* window.                                                                 *)
LEMMA FirstSegmentKeepsWindow ==
  ASSUME RxInd, NEW sn \in SN, NEW seg, NEW p,
         inside_rx_window(sn), first_segment(sn, seg, p)
  PROVE  RxInd' /\ vr_ms' = vr_ms
<1>1. /\ UNCHANGED <<vr_r, vr_mr, vr_x, vr_ms, rx_window, reordering_timeout>>
      /\ vr_h' = IF Dist(sn, vr_r) >= Dist(vr_h, vr_r) THEN Plus(sn, 1) ELSE vr_h
  BY DEF first_segment
<1>a. MOD \in Nat /\ WINDOW \in SN /\ 0 < WINDOW /\ 1 \in SN /\ 2 * WINDOW <= MOD
  BY WindowAssumption DEF SN
<1>b. /\ vr_r \in SN /\ vr_h \in SN /\ vr_ms \in SN /\ vr_x \in SN
      /\ DOMAIN rx_window \subseteq SN
  BY DEF RxInd, RxWindowType
<1>c. \A s \in SN : Dist(s, vr_r) \in Nat
  <2>1. \A s \in SN : Dist(s, vr_r) \in SN  BY <1>b, DistValue
  <2> QED  BY <2>1, <1>a DEF SN
<1>2. Dist(sn, vr_r) < WINDOW
  BY <1>a, <1>b, PlusDist DEF RxInd, RxWindowInv, inside_rx_window
<1>3. /\ vr_h' \in SN /\ Dist(vr_h', vr_r) <= WINDOW
      /\ Dist(vr_h, vr_r) <= Dist(vr_h', vr_r)
  <2>1. CASE Dist(sn, vr_r) >= Dist(vr_h, vr_r)
    <3>1. vr_h' = Plus(sn, 1) /\ vr_h' \in SN  BY <1>1, <1>a, <2>1, PlusValue
    <3>2. Dist(vr_h', vr_r) = Dist(sn, vr_r) + 1
      BY <3>1, <1>2, <1>a, <1>b, <1>c, DistPlus DEF SN
    <3> QED  BY <3>1, <3>2, <1>2, <1>a, <1>b, <1>c, <2>1 DEF SN
  <2>2. CASE ~ (Dist(sn, vr_r) >= Dist(vr_h, vr_r))
    BY <1>1, <1>b, <1>c, <2>2 DEF RxInd, RxWindowInv
  <2> QED  BY <2>1, <2>2
<1>4. RxWindowType'  BY <1>1, <1>3 DEF RxInd, RxWindowType
<1>5. RxWindowInv'
  <2>1. Dist(vr_ms', vr_r') <= Dist(vr_h', vr_r')
    BY <1>1, <1>3, <1>b, <1>c DEF RxInd, RxWindowInv
  <2>2. \A s \in DOMAIN (rx_window') : 0 < Dist(s, vr_r') /\ Dist(s, vr_r') < Dist(vr_h', vr_r')
    BY <1>1, <1>3, <1>b, <1>c DEF RxInd, RxWindowInv
  <2>3. reordering_timeout' # "stopped" =>
          /\ 0 < Dist(vr_x', vr_r') /\ Dist(vr_x', vr_r') <= Dist(vr_h', vr_r')
          /\ \A s \in SN : /\ Dist(vr_x', vr_r') <= Dist(s, vr_r')
                           /\ Dist(s, vr_r') < Dist(vr_ms', vr_r')
                           => s \in DOMAIN (rx_window')
    BY <1>1, <1>3, <1>b, <1>c DEF RxInd, RxWindowInv
  <2> QED  BY <1>1, <1>3, <2>1, <2>2, <2>3 DEF RxInd, RxWindowInv
<1> QED  BY <1>1, <1>4, <1>5 DEF RxInd

(* check_reordering_timeout(): vr_ms goes to vr_x and walks on from there; *)
(* it passes everything it had passed before.                              *)
LEMMA CheckReorderingKeepsWindow ==
  ASSUME RxInd, check_reordering_timeout,
         UNCHANGED <<vr_r, vr_mr, vr_h, rx_window>>
  PROVE  RxInd' /\ Dist(vr_ms', vr_r) \in Dist(vr_ms, vr_r) .. WINDOW
<1>a. MOD \in Nat /\ WINDOW \in SN /\ 0 < WINDOW  BY WindowAssumption DEF SN
<1>b. /\ vr_r \in SN /\ vr_h \in SN /\ vr_ms \in SN /\ vr_x \in SN
      /\ DOMAIN rx_window \subseteq SN
  BY DEF RxInd, RxWindowType
<1>c. \A s \in SN : Dist(s, vr_r) \in SN /\ Dist(s, vr_r) \in Nat
  <2>1. \A s \in SN : Dist(s, vr_r) \in SN  BY <1>b, DistValue
  <2> QED  BY <2>1, <1>a DEF SN
<1>1. CASE reordering_timeout = "expired"
  <2> DEFINE D == DOMAIN rx_window
             k == Dist(vr_h, vr_r)
  <2>1. PICK m \in SN :
          /\ IsRunLength(vr_x, D, m)
          /\ vr_ms' = Plus(vr_x, m)
          /\ IF Dist(vr_h, vr_r) > Dist(vr_ms', vr_r)
             THEN reordering_timeout' = "running" /\ vr_x' = vr_h
             ELSE reordering_timeout' = "stopped" /\ UNCHANGED vr_x
    BY <1>1 DEF check_reordering_timeout
  <2>2. /\ Dist(vr_x, vr_r) <= k /\ Dist(vr_ms, vr_r) <= k
        /\ \A s \in D : s \in SN /\ Dist(s, vr_r) < k
        /\ vr_ms \notin D
        /\ \A s \in SN : /\ Dist(vr_x, vr_r) <= Dist(s, vr_r)
                         /\ Dist(s, vr_r) < Dist(vr_ms, vr_r)
                         => s \in D
    BY <1>1, <1>b DEF RxInd, RxWindowInv
  <2>3. k \in SN  BY <1>b, <1>c
  <2> HIDE DEF D, k
  <2>4. /\ Dist(vr_x, vr_r) + m <= k
        /\ Dist(vr_ms', vr_r) = Dist(vr_x, vr_r) + m
        /\ vr_ms' \in SN \ D
        /\ \A s \in SN : /\ Dist(vr_x, vr_r) <= Dist(s, vr_r)
                         /\ Dist(s, vr_r) < Dist(vr_x, vr_r) + m
                         => s \in D
    BY <2>1, <2>2, <2>3, <1>b, WalkBound
  <2>5. Dist(vr_ms', vr_r) \in Dist(vr_ms, vr_r) .. WINDOW
    <3>1. Dist(vr_x, vr_r) <= Dist(vr_ms', vr_r)  BY <2>1, <2>4, <1>a, <1>b, <1>c DEF SN
    <3>2. ~ (Dist(vr_ms', vr_r) < Dist(vr_ms, vr_r))  BY <2>2, <2>4, <3>1
    <3>3. k <= WINDOW  BY DEF RxInd, RxWindowInv, k
    <3>4. Dist(vr_ms', vr_r) \in Nat /\ Dist(vr_ms, vr_r) \in Nat  BY <2>4, <1>b, <1>c
    <3> QED  BY <2>3, <2>4, <3>2, <3>3, <3>4, <1>a DEF SN
  <2>6. RxWindowType'
    BY <2>1, <2>4, <1>b DEF RxInd, RxWindowType, Timeout
  <2>7. reordering_timeout' # "stopped" =>
          /\ 0 < Dist(vr_x', vr_r') /\ Dist(vr_x', vr_r') <= Dist(vr_h', vr_r')
          /\ \A s \in SN : /\ Dist(vr_x', vr_r') <= Dist(s, vr_r')
                           /\ Dist(s, vr_r') < Dist(vr_ms', vr_r')
                           => s \in DOMAIN (rx_window')
    <3> SUFFICES ASSUME reordering_timeout' # "stopped"
                 PROVE  /\ 0 < Dist(vr_h, vr_r) /\ vr_x' = vr_h
                        /\ \A s \in SN : ~ (/\ Dist(vr_h, vr_r) <= Dist(s, vr_r)
                                            /\ Dist(s, vr_r) < Dist(vr_ms', vr_r))
      BY <1>b, <1>c
    <3>1. vr_x' = vr_h /\ Dist(vr_h, vr_r) > Dist(vr_ms', vr_r)  BY <2>1
    <3> QED  BY <3>1, <2>4, <1>b, <1>c
  <2>8. Dist(vr_ms', vr_r') <= Dist(vr_h', vr_r')  BY <2>4 DEF k
  <2>9. RxWindowInv'  BY <2>4, <2>7, <2>8 DEF RxInd, RxWindowInv, D
  <2> QED  BY <2>5, <2>6, <2>9 DEF RxInd
<1>2. CASE reordering_timeout # "expired"
  <2>1. UNCHANGED <<vr_ms, reordering_timeout, vr_x>>
    BY <1>2 DEF check_reordering_timeout
  <2>2. RxInd'  BY <2>1 DEF RxInd, RxWindowType, RxWindowInv
  <2>3. RxInd' /\ UNCHANGED vr_ms  BY <2>1, <2>2
  <2>4. Dist(vr_ms, vr_r) \in Dist(vr_ms, vr_r) .. WINDOW  BY AckInWindow
  <2> QED  BY <2>3, <2>4
<1> QED  BY <1>1, <1>2

(* Steps that leave the window alone. *)
LEMMA SameWindow ==
  ASSUME RxInd, UNCHANGED <<vr_r, vr_mr, vr_x, vr_ms, vr_h, rx_window>>,
         \/ UNCHANGED reordering_timeout
         \/ reordering_timeout # "stopped" /\ reordering_timeout' \in Timeout
  PROVE  RxInd' /\ Dist(vr_ms', vr_r) \in Dist(vr_ms, vr_r) .. WINDOW
<1>1. RxInd'  BY DEF RxInd, RxWindowType, RxWindowInv
<1>2. Dist(vr_ms, vr_r) \in Dist(vr_ms, vr_r) .. WINDOW  BY AckInWindow
<1> QED  BY <1>1, <1>2

(* handle_data_pdu(), whether it is called for a PDU or for one that is    *)
(* complete from segments.                                                 *)
LEMMA HandleDataPduKeepsWindow ==
  ASSUME RxInd, NEW sn \in SN, NEW pl, NEW p, NEW ds, handle_data_pdu(sn, pl, p, ds)
  PROVE  RxInd' /\ Dist(vr_ms', vr_r) \in Dist(vr_ms, vr_r) .. WINDOW
<1>1. CASE ~ inside_rx_window(sn) \/ sn \in DOMAIN rx_window
  <2>1. UNCHANGED rxWindowVars  BY <1>1 DEF handle_data_pdu, discard_data_pdu
  <2> QED  BY <2>1, SameWindow DEF rxWindowVars
<1>2. CASE ~ (~ inside_rx_window(sn) \/ sn \in DOMAIN rx_window)
  <2>1. accept_data_pdu(sn, pl, p, ds)  BY <1>2 DEF handle_data_pdu
  <2> QED  BY <1>2, <2>1, AcceptKeepsWindow
<1> QED  BY <1>1, <1>2

(* handle_data_pdu_segment(), in each of its three cases. *)
LEMMA SegmentKeepsWindow ==
  ASSUME RxInd, NEW sn \in SN, NEW seg, NEW p, handle_data_pdu_segment(sn, seg, p)
  PROVE  RxInd' /\ Dist(vr_ms', vr_r) \in Dist(vr_ms, vr_r) .. WINDOW
<1>1. CASE ~ inside_rx_window(sn)
  <2>1. discard_data_pdu(p, do_status)  BY <1>1 DEF handle_data_pdu_segment
  <2>2. UNCHANGED rxWindowVars  BY <2>1 DEF discard_data_pdu
  <2> QED  BY <2>2, SameWindow DEF rxWindowVars
<1>2. CASE inside_rx_window(sn) /\ sn \in DOMAIN rx_segments
  <2>1. add_segment_and_check(sn, seg, p)  BY <1>2 DEF handle_data_pdu_segment
  <2> DEFINE segs == insert_segment(rx_segments[sn], seg)
  <2>2. CASE complete(segs)
    <3>1. handle_data_pdu(sn, full_pdu(segs), FALSE, do_status \/ p)
      BY <2>1, <2>2, Zenon DEF add_segment_and_check
    <3> QED  BY <3>1, HandleDataPduKeepsWindow, Zenon
  <2>3. CASE ~ complete(segs)
    <3>1. UNCHANGED rxWindowVars  BY <2>1, <2>3 DEF add_segment_and_check
    <3> QED  BY <3>1, SameWindow DEF rxWindowVars
  <2> QED  BY <2>2, <2>3
<1>3. CASE inside_rx_window(sn) /\ sn \notin DOMAIN rx_segments
  <2>1. first_segment(sn, seg, p)  BY <1>3 DEF handle_data_pdu_segment
  <2>2. RxInd' /\ vr_ms' = vr_ms  BY <1>3, <2>1, FirstSegmentKeepsWindow
  <2>3. Dist(vr_ms, vr_r) \in Dist(vr_ms, vr_r) .. WINDOW  BY AckInWindow
  <2> QED  BY <2>2, <2>3
<1> QED  BY <1>1, <1>2, <1>3

(* Every step keeps the window in order, and moves ACK_SN only forward     *)
(* unless the bearer is reset.                                             *)
LEMMA RxStepKeepsWindow ==
  ASSUME RxInd, [RxNext]_rxVars
  PROVE  /\ RxInd'
         /\ RxReset \/ Dist(vr_ms', vr_r) \in Dist(vr_ms, vr_r) .. WINDOW
<1>1. ASSUME NEW mux \in BOOLEAN, get_buffer_state(mux)
      PROVE  RxInd' /\ Dist(vr_ms', vr_r) \in Dist(vr_ms, vr_r) .. WINDOW
  BY <1>1, CheckReorderingKeepsWindow DEF get_buffer_state
<1>2. ASSUME NEW fits \in BOOLEAN, build_status_pdu(fits)
      PROVE  RxInd' /\ Dist(vr_ms', vr_r) \in Dist(vr_ms, vr_r) .. WINDOW
  <2>1. UNCHANGED rxWindowVars  BY <1>2 DEF build_status_pdu
  <2> QED  BY <2>1, SameWindow DEF rxWindowVars
<1>3. ASSUME ReadOwnData
      PROVE  RxInd' /\ Dist(vr_ms', vr_r) \in Dist(vr_ms, vr_r) .. WINDOW
  <2>1. UNCHANGED rxWindowVars  BY <1>3 DEF ReadOwnData
  <2> QED  BY <2>1, SameWindow DEF rxWindowVars
<1>4. ASSUME ReorderingExpires
      PROVE  RxInd' /\ Dist(vr_ms', vr_r) \in Dist(vr_ms, vr_r) .. WINDOW
  <2>1. /\ UNCHANGED <<vr_r, vr_mr, vr_x, vr_ms, vr_h, rx_window>>
        /\ reordering_timeout # "stopped" /\ reordering_timeout' \in Timeout
    BY <1>4 DEF ReorderingExpires, Timeout
  <2> QED  BY <2>1, SameWindow
<1>5. ASSUME ProhibitExpires
      PROVE  RxInd' /\ Dist(vr_ms', vr_r) \in Dist(vr_ms, vr_r) .. WINDOW
  <2>1. UNCHANGED rxWindowVars  BY <1>5 DEF ProhibitExpires
  <2> QED  BY <2>1, SameWindow DEF rxWindowVars
<1>6. ASSUME RxReset PROVE RxInd'
  BY <1>6, EmptyWindow DEF RxReset
<1>7. ASSUME NEW sn \in SN, NEW p \in BOOLEAN, WriteDataPdu(sn, sn, p)
      PROVE  RxInd' /\ Dist(vr_ms', vr_r) \in Dist(vr_ms, vr_r) .. WINDOW
  <2>1. handle_data_pdu(sn, sn, p, do_status)  BY <1>7 DEF WriteDataPdu
  <2> QED  BY <2>1, HandleDataPduKeepsWindow
<1>8. ASSUME NEW sn \in SN, NEW p \in BOOLEAN, NEW seg, WriteSegment(sn, seg, p)
      PROVE  RxInd' /\ Dist(vr_ms', vr_r) \in Dist(vr_ms, vr_r) .. WINDOW
  <2>1. handle_data_pdu_segment(sn, seg, p)  BY <1>8 DEF WriteSegment
  <2> QED  BY <2>1, SegmentKeepsWindow
<1>9. CASE UNCHANGED rxVars
  <2>1. UNCHANGED rxWindowVars  BY <1>9 DEF rxVars
  <2> QED  BY <2>1, SameWindow DEF rxWindowVars
<1> QED  BY <1>1, <1>2, <1>3, <1>4, <1>5, <1>6, <1>7, <1>8, <1>9, Zenon DEF RxNext, RxStep

(* The inductive invariant holds throughout. *)
LEMMA RxIndInvariant == RxSpec => []RxInd
<1>1. RxInit => RxInd
  <2> SUFFICES ASSUME RxInit PROVE RxInd  OBVIOUS
  <2>1. 0 \in SN /\ WINDOW \in SN  BY WindowAssumption DEF SN
  <2>2. Dist(0, 0) = 0 /\ Plus(0, WINDOW) = WINDOW
    BY <2>1, PlusDist, PlusValue, WindowAssumption DEF SN
  <2>3. DOMAIN << >> = {}  OBVIOUS
  <2>4. RxWindowType  BY <2>1, <2>3 DEF RxInit, RxWindowType, Timeout
  <2>5. RxWindowInv  BY <2>2, <2>3, WindowAssumption DEF RxInit, RxWindowInv
  <2> QED  BY <2>4, <2>5 DEF RxInd
<1>2. RxInd /\ [RxNext]_rxVars => RxInd'  BY RxStepKeepsWindow
<1> QED  BY <1>1, <1>2, PTL DEF RxSpec

(* The receive window of rlc_am.cc stays in order for every modulus and    *)
(* window size with 2 * WINDOW <= MOD, whatever the peer sends and however *)
(* the timers fire.                                                        *)
THEOREM RxWindowCorrect == RxSpec => []RxWindowInv
<1>1. RxInd => RxWindowInv  BY DEF RxInd
<1> QED  BY <1>1, RxIndInvariant, PTL

(* ACK_SN, which the peer takes as the end of what this side has accounted *)
(* for, never moves backwards nor beyond the window while the bearer       *)
(* lives.                                                                  *)
THEOREM RxAckCorrect == RxSpec => AckNeverRegresses
<1>1. RxInd /\ [RxNext]_rxVars => [RxReset \/ Dist(vr_ms', vr_r) \in Dist(vr_ms, vr_r) .. WINDOW]_rxVars
  BY RxStepKeepsWindow, SMTT(30)
<1> QED  BY <1>1, RxIndInvariant, PTL DEF RxSpec, AckNeverRegresses

-----------------------------------------------------------------------------
(***************************************************************************)
(* What is delivered.                                                      *)
(***************************************************************************)
(* What handle_data_pdu() does to the contents when it accepts a PDU: the  *)
(* n that are there without a gap are delivered behind the others, the     *)
(* rest stays.                                                             *)
LEMMA AcceptDelivers ==
  ASSUME NEW T, delivered \in Seq(T), \A s \in DOMAIN rx_window : rx_window[s] \in T,
         NEW sn \in SN, NEW pl \in T, NEW p, NEW ds, accept_data_pdu(sn, pl, p, ds)
  PROVE  /\ delivered' \in Seq(T)
         /\ \A s \in DOMAIN rx_window' :
              /\ s \in DOMAIN rx_window \cup {sn}
              /\ rx_window'[s] = IF s = sn THEN pl ELSE rx_window[s]
         /\ \E n \in SN :
              /\ vr_r' = Plus(vr_r, n) /\ Len(delivered') = Len(delivered) + n
              /\ \A i \in 1 .. Len(delivered) : delivered'[i] = delivered[i]
              /\ \A i \in 0 .. n - 1 :
                   LET s == Plus(vr_r, i)
                   IN /\ s \in DOMAIN rx_window \cup {sn}
                      /\ delivered'[Len(delivered) + i + 1] = IF s = sn THEN pl ELSE rx_window[s]
<1> DEFINE w == [s \in DOMAIN rx_window \cup {sn} |-> IF s = sn THEN pl ELSE rx_window[s]]
<1>1. PICK n \in SN : IsRunLength(vr_r, DOMAIN w, n) /\ reassemble_rx_sdus(w, n)
  BY DEF accept_data_pdu
<1> DEFINE new == [i \in 1 .. n |-> w[Plus(vr_r, i - 1)]]
<1>2. /\ delivered' = delivered \o new
      /\ rx_window' = [s \in DOMAIN w \ Run(vr_r, n) |-> w[s]]
      /\ vr_r' = Plus(vr_r, n)
  BY <1>1 DEF reassemble_rx_sdus
<1>3. n \in Nat  BY WindowAssumption DEF SN
<1>4. \A i \in 0 .. n - 1 : Plus(vr_r, i) \in DOMAIN w
  BY <1>1 DEF IsRunLength
<1>5. \A i \in 1 .. n : Plus(vr_r, i - 1) \in DOMAIN w
  BY <1>3, <1>4
<1>6. /\ DOMAIN w = DOMAIN rx_window \cup {sn}
      /\ \A s \in DOMAIN w : w[s] = (IF s = sn THEN pl ELSE rx_window[s]) /\ w[s] \in T
  OBVIOUS
<1> HIDE DEF w
<1>7. new \in Seq(T) /\ Len(new) = n /\ \A i \in 1 .. n : new[i] = w[Plus(vr_r, i - 1)]
  BY <1>3, <1>5, <1>6
<1> HIDE DEF new
<1>8. /\ delivered' \in Seq(T) /\ Len(delivered') = Len(delivered) + n
      /\ \A i \in 1 .. Len(delivered) + n :
           delivered'[i] = IF i <= Len(delivered) THEN delivered[i] ELSE new[i - Len(delivered)]
  BY <1>2, <1>7, ConcatProperties
<1>9. \A i \in 0 .. n - 1 : delivered'[Len(delivered) + i + 1] = w[Plus(vr_r, i)]
  <2> SUFFICES ASSUME NEW i \in 0 .. n - 1
               PROVE  delivered'[Len(delivered) + i + 1] = w[Plus(vr_r, i)]
    OBVIOUS
  <2>1. Len(delivered) \in Nat  BY LenProperties
  <2>2. /\ Len(delivered) + i + 1 \in 1 .. Len(delivered) + n
        /\ ~ (Len(delivered) + i + 1 <= Len(delivered))
        /\ (Len(delivered) + i + 1) - Len(delivered) = i + 1
        /\ i + 1 \in 1 .. n /\ (i + 1) - 1 = i
    BY <1>3, <2>1
  <2> QED  BY <1>7, <1>8, <2>2
<1>10. \A i \in 1 .. Len(delivered) : delivered'[i] = delivered[i]
  <2>1. Len(delivered) \in Nat  BY LenProperties
  <2> QED  BY <1>3, <1>8, <2>1
<1> QED  BY <1>2, <1>4, <1>6, <1>8, <1>9, <1>10, ZenonT(30)

(* The segments of a PDU whose content is pl. *)
SegmentOf(pl) == [so : 0 .. PduLen - 1, len : 1 .. PduLen, pl : {pl}]

(* The ordered insert adds the segment to those that are there. *)
LEMMA InsertKeepsSegments ==
  ASSUME NEW T, NEW segs \in Seq(T), NEW seg \in T
  PROVE  /\ insert_segment(segs, seg) \in Seq(T)
         /\ Len(insert_segment(segs, seg)) = Len(segs) + 1
<1> DEFINE low == {i \in 1 .. Len(segs) : segs[i].so < seg.so}
           k == Cardinality(low)
<1>0. Len(segs) \in Nat  BY LenProperties
<1>1. k \in 0 .. Len(segs)
  <2>1. IsFiniteSet(1 .. Len(segs)) /\ Cardinality(1 .. Len(segs)) = Len(segs)
    BY <1>0, FS_Interval, SMTT(30)
  <2>2. low \in SUBSET (1 .. Len(segs))  OBVIOUS
  <2> HIDE DEF low
  <2>3. IsFiniteSet(low) /\ k <= Len(segs)  BY <2>1, <2>2, FS_Subset, Zenon
  <2>4. k \in Nat  BY <2>3, FS_CardinalityType
  <2> QED  BY <1>0, <2>3, <2>4
<1>2. insert_segment(segs, seg) = SubSeq(segs, 1, k) \o <<seg>> \o SubSeq(segs, k + 1, Len(segs))
  BY DEF insert_segment
<1> HIDE DEF k
<1>3. SubSeq(segs, 1, k) \in Seq(T) /\ Len(SubSeq(segs, 1, k)) = k
  BY <1>0, <1>1, SubSeqProperties
<1>4. /\ SubSeq(segs, k + 1, Len(segs)) \in Seq(T)
      /\ Len(SubSeq(segs, k + 1, Len(segs))) = Len(segs) - k
  BY <1>0, <1>1, SubSeqProperties
<1>5. <<seg>> \in Seq(T) /\ Len(<<seg>>) = 1  OBVIOUS
<1>6. /\ SubSeq(segs, 1, k) \o <<seg>> \in Seq(T)
      /\ Len(SubSeq(segs, 1, k) \o <<seg>>) = k + 1
  BY <1>3, <1>5, ConcatProperties
<1>7. /\ (SubSeq(segs, 1, k) \o <<seg>>) \o SubSeq(segs, k + 1, Len(segs)) \in Seq(T)
      /\ Len((SubSeq(segs, 1, k) \o <<seg>>) \o SubSeq(segs, k + 1, Len(segs)))
           = (k + 1) + (Len(segs) - k)
  BY <1>4, <1>6, ConcatProperties
<1>8. (k + 1) + (Len(segs) - k) = Len(segs) + 1  BY <1>0, <1>1, SMTT(30)
<1> QED  BY <1>2, <1>7, <1>8, Zenon

(* When add_segment_and_check() finds them complete, the segments of one   *)
(* PDU are that PDU.                                                       *)
LEMMA CompleteIsWhole ==
  ASSUME NEW pl, NEW segs \in Seq(SegmentOf(pl)), Len(segs) > 0, complete(segs)
  PROVE  full_pdu(segs) = pl
<1>0. Len(segs) \in Nat /\ 0 < Len(segs) /\ PduLen \in Nat
  BY LenProperties, PduLenAssumption
<1>1. \A i \in 1 .. Len(segs) : segs[i] \in SegmentOf(pl)  BY ElementOfSeq
<1>2. \A i \in 1 .. Len(segs) : segs[i].pl = pl /\ segs[i].so \in Int /\ segs[i].len \in Int
  BY <1>0, <1>1 DEF SegmentOf
<1>3. 1 \in 1 .. Len(segs) /\ Len(segs) \in 1 .. Len(segs)  BY <1>0
<1>4. segs[Len(segs)].so + segs[Len(segs)].len = PduLen  BY DEF complete, lsf
<1>5. \A i \in 1 .. Len(segs) :
        segs[i].so = IF i = 1 THEN 0 ELSE segs[i - 1].so + segs[i - 1].len
  <2> SUFFICES ASSUME NEW i \in 1 .. Len(segs), i # 1
               PROVE  segs[i].so = segs[i - 1].so + segs[i - 1].len
    BY DEF complete
  <2>1. i - 1 \in 1 .. Len(segs) - 1 /\ (i - 1) + 1 = i  BY <1>0
  <2> QED  BY <2>1 DEF complete
<1> QED  BY <1>2, <1>3, <1>4, <1>5 DEF full_pdu

(* The contents: every PDU and every segment that is stored is the one of  *)
(* its sequence number, so what is delivered is.                           *)
RxContents ==
  /\ delivered \in Seq(SN) /\ DeliveredInOrder
  /\ \A sn \in DOMAIN rx_window : rx_window[sn] = sn
  /\ DOMAIN rx_segments \subseteq SN
  /\ \A sn \in DOMAIN rx_segments :
       rx_segments[sn] \in Seq(SegmentOf(sn)) /\ Len(rx_segments[sn]) > 0

(* Accepting the PDU of sequence number sn. *)
LEMMA AcceptKeepsContents ==
  ASSUME RxInd, RxContents, NEW sn \in SN, NEW p, NEW ds, accept_data_pdu(sn, sn, p, ds)
  PROVE  /\ delivered' \in Seq(SN) /\ DeliveredInOrder'
         /\ \A s \in DOMAIN rx_window' : rx_window'[s] = s
<1>0. MOD \in Nat /\ 0 < MOD /\ DOMAIN rx_window \subseteq SN /\ vr_r \in SN
  BY WindowAssumption DEF RxInd, RxWindowType
<1>1. delivered \in Seq(SN) /\ \A s \in DOMAIN rx_window : rx_window[s] \in SN /\ rx_window[s] = s
  BY <1>0 DEF RxContents
<1>2. /\ delivered' \in Seq(SN)
      /\ \A s \in DOMAIN rx_window' :
           /\ s \in DOMAIN rx_window \cup {sn}
           /\ rx_window'[s] = IF s = sn THEN sn ELSE rx_window[s]
  BY <1>1, AcceptDelivers
<1>3. PICK n \in SN :
        /\ vr_r' = Plus(vr_r, n) /\ Len(delivered') = Len(delivered) + n
        /\ \A i \in 1 .. Len(delivered) : delivered'[i] = delivered[i]
        /\ \A i \in 0 .. n - 1 :
             LET s == Plus(vr_r, i)
             IN /\ s \in DOMAIN rx_window \cup {sn}
                /\ delivered'[Len(delivered) + i + 1] = IF s = sn THEN sn ELSE rx_window[s]
  BY <1>1, AcceptDelivers
<1> DEFINE d == Len(delivered)
<1>4. d \in Nat /\ n \in Nat  BY <1>0, <1>1, LenProperties, SMTT(30) DEF SN
<1>5. vr_r = d % MOD /\ \A i \in 1 .. d : delivered[i] = (i - 1) % MOD
  BY DEF RxContents, DeliveredInOrder
<1>6. \A i \in 0 .. n - 1 : delivered'[d + i + 1] = Plus(vr_r, i)
  BY <1>1, <1>3
<1> HIDE DEF d
<1>7. \A i \in Int : (d + i) % MOD = Plus(vr_r, i)
  BY <1>4, <1>5, CountPlus
<1>8. ASSUME NEW i \in 1 .. d + n PROVE delivered'[i] = (i - 1) % MOD
  <2>1. CASE i <= d
    BY <1>3, <1>4, <1>5, <2>1 DEF d
  <2>2. CASE ~ (i <= d)
    <3> DEFINE j == i - 1 - d
    <3>1. j \in 0 .. n - 1 /\ j \in Int /\ d + j + 1 = i /\ d + j = i - 1  BY <1>4, <2>2
    <3> HIDE DEF j
    <3> QED  BY <1>6, <1>7, <3>1
  <2> QED  BY <2>1, <2>2
<1>9. vr_r' = (d + n) % MOD  BY <1>3, <1>4, <1>7
<1>10. DeliveredInOrder'  BY <1>3, <1>8, <1>9 DEF DeliveredInOrder, d
<1> QED  BY <1>1, <1>2, <1>10

(* handle_data_pdu() with the content that belongs to the number. *)
LEMMA HandleKeepsContents ==
  ASSUME RxInd, RxContents, NEW sn \in SN, NEW p, NEW ds, handle_data_pdu(sn, sn, p, ds)
  PROVE  /\ delivered' \in Seq(SN) /\ DeliveredInOrder'
         /\ \A s \in DOMAIN rx_window' : rx_window'[s] = s
<1>1. CASE ~ inside_rx_window(sn) \/ sn \in DOMAIN rx_window
  <2>1. UNCHANGED rxWindowVars  BY <1>1 DEF handle_data_pdu, discard_data_pdu
  <2> QED  BY <2>1 DEF RxContents, DeliveredInOrder, rxWindowVars
<1>2. CASE ~ (~ inside_rx_window(sn) \/ sn \in DOMAIN rx_window)
  <2>1. accept_data_pdu(sn, sn, p, ds)  BY <1>2 DEF handle_data_pdu
  <2> QED  BY <2>1, AcceptKeepsContents
<1> QED  BY <1>1, <1>2

(* Steps that touch neither the window nor the segments. *)
LEMMA SameContents ==
  ASSUME RxContents, UNCHANGED <<vr_r, rx_window, rx_segments, delivered>>
  PROVE  RxContents'
  BY DEF RxContents, DeliveredInOrder

(* Segments of the PDU of sequence number sn, in each of the three cases. *)
LEMMA SegmentKeepsContents ==
  ASSUME RxInd, RxContents, NEW sn \in SN, NEW seg \in SegmentOf(sn), NEW p,
         handle_data_pdu_segment(sn, seg, p)
  PROVE  RxContents'
<1> DEFINE Stored(f) ==
             /\ DOMAIN f \subseteq SN
             /\ \A s \in DOMAIN f : f[s] \in Seq(SegmentOf(s)) /\ Len(f[s]) > 0
           segs == insert_segment(rx_segments[sn], seg)
<1>0. Stored(rx_segments)  BY DEF RxContents
<1>1. CASE ~ inside_rx_window(sn)
  <2>1. discard_data_pdu(p, do_status) /\ UNCHANGED rx_segments
    BY <1>1 DEF handle_data_pdu_segment
  <2> QED  BY <2>1, SameContents DEF discard_data_pdu, rxWindowVars
<1>2. CASE inside_rx_window(sn) /\ sn \in DOMAIN rx_segments
  <2>1. add_segment_and_check(sn, seg, p)  BY <1>2 DEF handle_data_pdu_segment
  <2>2. segs \in Seq(SegmentOf(sn)) /\ Len(segs) > 0
    <3>1. rx_segments[sn] \in Seq(SegmentOf(sn))  BY <1>0, <1>2
    <3>2. segs \in Seq(SegmentOf(sn)) /\ Len(segs) = Len(rx_segments[sn]) + 1
      BY <3>1, InsertKeepsSegments, Zenon
    <3>3. Len(rx_segments[sn]) \in Nat  BY <3>1, LenProperties
    <3> QED  BY <3>2, <3>3
  <2>3. CASE complete(segs)
    <3>1. /\ handle_data_pdu(sn, full_pdu(segs), FALSE, do_status \/ p)
          /\ rx_segments' = [s \in DOMAIN rx_segments \ {sn} |-> rx_segments[s]]
      BY <2>1, <2>3, Zenon DEF add_segment_and_check
    <3> HIDE DEF segs
    <3>2. full_pdu(segs) = sn  BY <2>2, <2>3, CompleteIsWhole
    <3>3. handle_data_pdu(sn, sn, FALSE, do_status \/ p)  BY <3>1, <3>2, Zenon
    <3>4. Stored(rx_segments')  BY <1>0, <3>1
    <3> QED  BY <3>3, <3>4, HandleKeepsContents, Zenon DEF RxContents
  <2>4. CASE ~ complete(segs)
    <3>1. put_segments(sn, segs) /\ UNCHANGED rxWindowVars
      BY <2>1, <2>4 DEF add_segment_and_check
    <3> HIDE DEF segs
    <3>2. Stored(rx_segments')  BY <1>0, <2>2, <3>1, SMTT(30) DEF put_segments
    <3> QED  BY <3>1, <3>2 DEF RxContents, DeliveredInOrder, rxWindowVars
  <2> QED  BY <2>3, <2>4
<1>3. CASE inside_rx_window(sn) /\ sn \notin DOMAIN rx_segments
  <2>1. first_segment(sn, seg, p)  BY <1>3 DEF handle_data_pdu_segment
  <2>2. put_segments(sn, <<seg>>) /\ UNCHANGED <<vr_r, rx_window, delivered>>
    BY <2>1 DEF first_segment
  <2>3. <<seg>> \in Seq(SegmentOf(sn)) /\ Len(<<seg>>) > 0  OBVIOUS
  <2>4. Stored(rx_segments')  BY <1>0, <2>2, <2>3 DEF put_segments
  <2> QED  BY <2>2, <2>4 DEF RxContents, DeliveredInOrder
<1> QED  BY <1>1, <1>2, <1>3

(* Every step keeps the contents. *)
LEMMA RxStepKeepsContents ==
  ASSUME RxInd, RxContents, [RxNext]_rxVars
  PROVE  RxContents'
<1>1. ASSUME RxStep \/ UNCHANGED rxVars PROVE RxContents'
  <2>1. UNCHANGED <<vr_r, rx_window, rx_segments, delivered>>
    BY <1>1
    DEF RxStep, get_buffer_state, build_status_pdu, ReadOwnData, ReorderingExpires,
        ProhibitExpires, rxVars, rxWindowVars
  <2> QED  BY <2>1, SameContents
<1>2. ASSUME RxReset PROVE RxContents'
  <2>1. vr_r' = 0 /\ rx_window' = << >> /\ rx_segments' = << >> /\ delivered' = << >>
    BY <1>2 DEF RxReset
  <2>2. DOMAIN << >> = {} /\ Len(<< >>) = 0 /\ << >> \in Seq(SN) /\ 0 % MOD = 0
    BY EmptySeq, WindowAssumption
  <2> QED  BY <2>1, <2>2 DEF RxContents, DeliveredInOrder
<1>3. ASSUME NEW sn \in SN, NEW p \in BOOLEAN, WriteDataPdu(sn, sn, p)
      PROVE  RxContents'
  <2>1. handle_data_pdu(sn, sn, p, do_status) /\ UNCHANGED rx_segments
    BY <1>3 DEF WriteDataPdu
  <2> QED  BY <2>1, HandleKeepsContents DEF RxContents
<1>4. ASSUME NEW sn \in SN, NEW p \in BOOLEAN,
             NEW so \in 0 .. PduLen - 1, NEW len \in 1 .. PduLen - 1,
             WriteSegment(sn, [so |-> so, len |-> len, pl |-> sn], p)
      PROVE  RxContents'
  <2>1. [so |-> so, len |-> len, pl |-> sn] \in SegmentOf(sn)
    BY PduLenAssumption DEF SegmentOf
  <2>2. handle_data_pdu_segment(sn, [so |-> so, len |-> len, pl |-> sn], p)
    BY <1>4 DEF WriteSegment
  <2> QED  BY <2>1, <2>2, SegmentKeepsContents
<1> QED  BY <1>1, <1>2, <1>3, <1>4, Zenon DEF RxNext

(* What the receiver stores is what the PDUs said, in every reachable      *)
(* state.                                                                  *)
LEMMA RxContentsInvariant == RxSpec => []RxContents
<1>1. RxInit => RxContents
  <2> SUFFICES ASSUME RxInit PROVE RxContents  OBVIOUS
  <2>1. DOMAIN << >> = {} /\ Len(<< >>) = 0 /\ << >> \in Seq(SN) /\ 0 % MOD = 0
    BY EmptySeq, WindowAssumption
  <2> QED  BY <2>1 DEF RxInit, RxContents, DeliveredInOrder
<1>2. RxInd /\ RxContents /\ [RxNext]_rxVars => RxContents'  BY RxStepKeepsContents
<1> QED  BY <1>1, <1>2, RxIndInvariant, PTL DEF RxSpec

(* For every modulus, window and length of a PDU, whatever the peer sends, *)
(* repeats or cuts into segments and however often the bearer is reset:    *)
(* reassemble_rx_sdus() hands up the PDUs in the order of their sequence   *)
(* numbers, each once, without a gap and never one that is put together    *)
(* from the wrong bytes.                                                   *)
THEOREM RxDeliversInOrder == RxSpec => []DeliveredInOrder
<1>1. RxContents => DeliveredInOrder  BY DEF RxContents
<1> QED  BY <1>1, RxContentsInvariant, PTL

-----------------------------------------------------------------------------
(* The rest of the types: the timers, the flags and the report. *)
RxFlags ==
  /\ poll_received \in BOOLEAN /\ do_status \in BOOLEAN /\ opportunity \in BOOLEAN
  /\ status \in [ack_sn : SN, nacks : SUBSET SN]
  /\ status_prohibit_timeout \in Timeout

(* The flags after handle_data_pdu(). *)
LEMMA HandleKeepsFlags ==
  ASSUME RxFlags, NEW sn, NEW pl, NEW p \in BOOLEAN, NEW ds \in BOOLEAN,
         handle_data_pdu(sn, pl, p, ds)
  PROVE  poll_received' \in BOOLEAN /\ do_status' \in BOOLEAN
  BY Zenon DEF handle_data_pdu, discard_data_pdu, accept_data_pdu, RxFlags

(* Every step keeps these types. *)
LEMMA StepKeepsFlags ==
  ASSUME RxInd, RxFlags, OwnData \in BOOLEAN, [RxNext]_rxVars, RxInd'
  PROVE  RxFlags'
<1> USE DEF RxFlags
<1>1. ASSUME NEW mux \in BOOLEAN, get_buffer_state(mux) PROVE RxFlags'
  <2>1. do_status' \in BOOLEAN /\ vr_ms' \in SN
    BY <1>1 DEF get_buffer_state, check_reordering_timeout, RxInd, RxWindowType
  <2>2. prepare_status(vr_ms') \in [ack_sn : SN, nacks : SUBSET SN]
    BY <2>1 DEF prepare_status
  <2>3. UNCHANGED <<poll_received, status_prohibit_timeout>> /\ opportunity' \in BOOLEAN
        /\ (status' = prepare_status(vr_ms') \/ status' = status)
    BY <1>1, <2>1 DEF get_buffer_state, status_prohibited
  <2> QED  BY <2>1, <2>2, <2>3, SMTT(30)
<1>2. ASSUME NEW fits \in BOOLEAN, build_status_pdu(fits) PROVE RxFlags'
  BY <1>2, Zenon DEF build_status_pdu, rxStatusVars, Timeout
<1>3. CASE ReadOwnData
  BY <1>3, Zenon DEF ReadOwnData, rxStatusVars
<1>4. CASE ReorderingExpires
  BY <1>4 DEF ReorderingExpires, rxStatusVars
<1>5. CASE ProhibitExpires
  BY <1>5 DEF ProhibitExpires, rxStatusVars, Timeout
<1>6. CASE RxReset
  BY <1>6, Zenon DEF RxReset
<1>7. ASSUME NEW sn \in SN, NEW p \in BOOLEAN, WriteDataPdu(sn, sn, p) PROVE RxFlags'
  <2>1. /\ handle_data_pdu(sn, sn, p, do_status)
        /\ UNCHANGED <<status, status_prohibit_timeout, opportunity>>
    BY <1>7 DEF WriteDataPdu
  <2> QED  BY <2>1, HandleKeepsFlags
<1>8. ASSUME NEW sn \in SN, NEW p \in BOOLEAN, NEW seg, WriteSegment(sn, seg, p)
      PROVE  RxFlags'
  <2> DEFINE segs == insert_segment(rx_segments[sn], seg)
  <2>1. /\ handle_data_pdu_segment(sn, seg, p)
        /\ UNCHANGED <<status, status_prohibit_timeout, opportunity>>
    BY <1>8 DEF WriteSegment
  <2>2. poll_received' \in BOOLEAN /\ do_status' \in BOOLEAN
    <3>1. CASE ~ inside_rx_window(sn)
      <4>1. discard_data_pdu(p, do_status)  BY <2>1, <3>1 DEF handle_data_pdu_segment
      <4> QED  BY <4>1 DEF discard_data_pdu
    <3>2. CASE inside_rx_window(sn) /\ sn \in DOMAIN rx_segments
      <4>1. add_segment_and_check(sn, seg, p)  BY <2>1, <3>2 DEF handle_data_pdu_segment
      <4>2. CASE complete(segs)
        <5>1. handle_data_pdu(sn, full_pdu(segs), FALSE, do_status \/ p)
          BY <4>1, <4>2, Zenon DEF add_segment_and_check
        <5>2. (do_status \/ p) \in BOOLEAN /\ FALSE \in BOOLEAN  OBVIOUS
        <5> QED  BY <5>1, <5>2, HandleKeepsFlags, Zenon
      <4>3. CASE ~ complete(segs)
        BY <4>1, <4>3 DEF add_segment_and_check
      <4> QED  BY <4>2, <4>3
    <3>3. CASE inside_rx_window(sn) /\ sn \notin DOMAIN rx_segments
      <4>1. first_segment(sn, seg, p)  BY <2>1, <3>3 DEF handle_data_pdu_segment
      <4> QED  BY <4>1 DEF first_segment
    <3> QED  BY <3>1, <3>2, <3>3
  <2> QED  BY <2>1, <2>2
<1>9. CASE UNCHANGED rxVars
  BY <1>9 DEF rxVars, rxStatusVars
<1> QED  BY <1>1, <1>2, <1>3, <1>4, <1>5, <1>6, <1>7, <1>8, <1>9, Zenon DEF RxNext, RxStep

(* RxTypeOK holds of the receiver that is fed any PDU, whose contents are  *)
(* sequence numbers: the window, the stored segments and what is handed up *)
(* hold nothing else, in particular no PDU of mixed bytes.                 *)
THEOREM RxTypesCorrect ==
  ASSUME SN \subseteq Payload, OwnData \in BOOLEAN
  PROVE  RxSpec => []RxTypeOK
<1>1. RxInit => RxFlags
  <2>1. 0 \in SN  BY WindowAssumption DEF SN
  <2>2. [ack_sn |-> 0, nacks |-> {}] \in [ack_sn : SN, nacks : SUBSET SN]  BY <2>1
  <2> QED  BY <2>2, Zenon DEF RxInit, RxFlags, Timeout
<1>2. RxInd /\ RxFlags /\ [RxNext]_rxVars /\ RxInd' => RxFlags'
  BY StepKeepsFlags
<1>3. RxInd /\ RxContents /\ RxFlags => RxTypeOK
  <2> SUFFICES ASSUME RxInd, RxContents, RxFlags PROVE RxTypeOK  OBVIOUS
  <2>1. \A sn \in DOMAIN rx_segments : rx_segments[sn] \in Seq(Segment)
    <3> SUFFICES ASSUME NEW sn \in DOMAIN rx_segments
                 PROVE  rx_segments[sn] \in Seq(Segment)
      OBVIOUS
    <3>1. sn \in Payload  BY DEF RxContents
    <3>2. SegmentOf(sn) \subseteq Segment  BY <3>1 DEF SegmentOf, Segment
    <3>3. rx_segments[sn] \in Seq(SegmentOf(sn))  BY DEF RxContents
    <3> QED  BY <3>2, <3>3
  <2>2. delivered \in Seq(Payload \cup {Mixed})
    BY DEF RxContents
  <2>3. \A sn \in DOMAIN rx_window : rx_window[sn] \in Payload
    BY DEF RxContents, RxInd, RxWindowType
  <2>4. status.ack_sn \in SN /\ status.nacks \subseteq SN
    BY DEF RxFlags
  <2>5. DOMAIN rx_segments \subseteq SN  BY DEF RxContents
  <2> QED  BY <2>1, <2>2, <2>3, <2>4, <2>5 DEF RxTypeOK, RxFlags, RxInd, RxWindowType
<1> QED  BY <1>1, <1>2, <1>3, RxIndInvariant, RxContentsInvariant, PTL DEF RxSpec
=============================================================================
