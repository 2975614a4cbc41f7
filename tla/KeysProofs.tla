---------------------------- MODULE KeysProofs -----------------------------
(***************************************************************************)
(* The keys of NAS and RRC: for any number of connections, authentications *)
(* and re-establishments, the key of SRB1 is the base station's, and no    *)
(* key protects two messages under one count.                              *)
(***************************************************************************)
EXTENDS UpperKeys, TLAPS

(* What the network does not answer. *)
Inert == {"security_mode_reject", "reestablishment_complete", "reconfig_complete", "attach_complete"}

(* The names, keys and algorithms of messages in transit. *)
MsgName ==
  Inert \cup {"attach_request", "service_request", "authentication_request",
    "authentication_response", "security_mode_command", "security_mode_complete",
    "rrc_security_mode_command", "rrc_security_mode_complete", "con_reconfig", "reject",
    "service_reject"}
Algo == {"none", "EIA0", "EIA1", "EIA2", "accept", "combined", "ipv6", "nothing"}
UlMsg == [msg : MsgName, key : Nat, algo : Algo, count : Nat]
DlMsg == [msg : MsgName \ Inert, key : Nat, algo : Algo]

(* No message of the queue is to be answered; at most one is; this one is. *)
Quiet(q) == \A i \in 1 .. Len(q) : q[i].msg \in Inert
Single(q) == \A i, j \in 1 .. Len(q) : q[i].msg \notin Inert /\ q[j].msg \notin Inert => i = j
Sent(q, m) == m.msg \notin Inert /\ \E i \in 1 .. Len(q) : q[i] = m

(* A queue with nothing to answer has at most one message to answer. *)
LEMMA QuietIsSingle ==
  ASSUME NEW q, Quiet(q)
  PROVE  Single(q) /\ \A m : ~ Sent(q, m)
BY DEF Quiet, Single, Sent

(* A message is written behind the others: it is the only one to be        *)
(* answered, or adds none.                                                 *)
LEMMA SendOne ==
  ASSUME NEW q \in Seq(UlMsg), NEW m \in UlMsg
  PROVE  /\ q \o <<m>> \in Seq(UlMsg)
         /\ Quiet(q) => Single(q \o <<m>>) /\ \A x : Sent(q \o <<m>>, x) => x = m
         /\ m.msg \in Inert =>
              /\ Single(q) => Single(q \o <<m>>)
              /\ Quiet(q) => Quiet(q \o <<m>>)
              /\ \A x : Sent(q \o <<m>>, x) => Sent(q, x)
<1> DEFINE r == q \o <<m>>
<1>1. r \in Seq(UlMsg) /\ Len(r) = Len(q) + 1 /\ Len(q) \in Nat
  OBVIOUS
<1>2. \A i \in 1 .. Len(r) : r[i] = IF i <= Len(q) THEN q[i] ELSE m
  OBVIOUS
<1> HIDE DEF r
<1>3. Quiet(q) => Single(r) /\ \A x : Sent(r, x) => x = m
  BY <1>1, <1>2 DEF Quiet, Single, Sent
<1>4. ASSUME m.msg \in Inert PROVE Single(q) => Single(r)
  <2>1. \A i \in 1 .. Len(r) : r[i].msg \notin Inert => i \in 1 .. Len(q) /\ r[i] = q[i]
    BY <1>1, <1>2, <1>4
  <2> QED  BY <2>1 DEF Single
<1>5. ASSUME m.msg \in Inert PROVE Quiet(q) => Quiet(r)
  BY <1>1, <1>2, <1>5 DEF Quiet
<1>6. ASSUME m.msg \in Inert PROVE \A x : Sent(r, x) => Sent(q, x)
  BY <1>1, <1>2, <1>6 DEF Sent
<1> QED  BY <1>1, <1>3, <1>4, <1>5, <1>6 DEF r

(* Two messages that are not answered are written behind others that are   *)
(* not.                                                                    *)
LEMMA SendTwo ==
  ASSUME NEW q \in Seq(UlMsg), NEW m \in UlMsg, NEW n \in UlMsg,
         Quiet(q), m.msg \in Inert, n.msg \in Inert
  PROVE  q \o <<m, n>> \in Seq(UlMsg) /\ Quiet(q \o <<m, n>>)
<1> DEFINE r == q \o <<m, n>>
<1>1. r \in Seq(UlMsg) /\ Len(r) = Len(q) + 2 /\ Len(q) \in Nat
  OBVIOUS
<1>2. \A i \in 1 .. Len(r) : r[i] = IF i <= Len(q) THEN q[i] ELSE <<m, n>>[i - Len(q)]
  OBVIOUS
<1>3. \A i \in 1 .. Len(r) : (i \in 1 .. Len(q) /\ r[i] = q[i]) \/ r[i] = m \/ r[i] = n
  BY <1>1, <1>2
<1> HIDE DEF r
<1>4. Quiet(r)
  BY <1>3 DEF Quiet
<1> QED  BY <1>1, <1>4 DEF r

(* The first message is taken; if it is to be answered, no other is. *)
LEMMA TakeOne ==
  ASSUME NEW q \in Seq(UlMsg), q # <<>>
  PROVE  /\ Tail(q) \in Seq(UlMsg) /\ Head(q) \in UlMsg
         /\ Head(q).msg \notin Inert => Sent(q, Head(q)) /\ ~ Quiet(q)
         /\ Quiet(q) => Quiet(Tail(q))
         /\ Single(q) => Single(Tail(q)) /\ (Head(q).msg \notin Inert => Quiet(Tail(q)))
         /\ \A x : Sent(Tail(q), x) => Sent(q, x)
<1> DEFINE r == Tail(q)
<1>1. r \in Seq(UlMsg) /\ Len(r) = Len(q) - 1 /\ Len(q) \in Nat \ {0} /\ Head(q) = q[1] /\ q[1] \in UlMsg
  OBVIOUS
<1>2. \A i \in 1 .. Len(r) : r[i] = q[i + 1] /\ i + 1 \in 1 .. Len(q) /\ i + 1 # 1
  OBVIOUS
<1> HIDE DEF r
<1>3. Head(q).msg \notin Inert => Sent(q, Head(q)) /\ ~ Quiet(q)
  BY <1>1 DEF Sent, Quiet
<1>4. Quiet(q) => Quiet(r)
  BY <1>2 DEF Quiet
<1>5. ASSUME Single(q) PROVE Single(r)
  <2> SUFFICES ASSUME NEW i \in 1 .. Len(r), NEW j \in 1 .. Len(r), r[i].msg \notin Inert, r[j].msg \notin Inert
               PROVE i = j
    BY DEF Single
  <2>1. q[i + 1].msg \notin Inert /\ q[j + 1].msg \notin Inert /\ i + 1 \in 1 .. Len(q) /\ j + 1 \in 1 .. Len(q)
    BY <1>2
  <2>2. i + 1 = j + 1
    BY <2>1, <1>5 DEF Single
  <2> QED  BY <2>2, <1>1
<1>6. ASSUME Single(q), Head(q).msg \notin Inert PROVE Quiet(r)
  <2> SUFFICES ASSUME NEW i \in 1 .. Len(r), r[i].msg \notin Inert PROVE FALSE
    BY DEF Quiet
  <2>1. i + 1 = 1
    BY <1>1, <1>2, <1>6 DEF Single
  <2> QED  BY <2>1, <1>2
<1>7. \A x : Sent(r, x) => Sent(q, x)
  BY <1>2 DEF Sent
<1> QED  BY <1>1, <1>3, <1>4, <1>5, <1>6, <1>7 DEF r

(* An entry of NAS, with a key and a count no later than these; one of     *)
(* SRB1, below the count of the bearer if the bearer has its key now; a    *)
(* history of such entries.                                                *)
NasOld(e, nk, cu) == \E k, c \in Nat : e = <<<<k>>, c>> /\ k <= nk /\ c <= cu
SrbOld(e, ka, cu, b) ==
  \E a, c, t \in Nat :
    /\ e = <<<<a, c>>, t>> /\ a <= ka /\ c <= cu
    /\ b.do_security /\ b.key = <<a, c>> => t < b.tx_count
Hist(p, nk, ka, cu, b) == \A e \in p : NasOld(e, nk, cu) \/ SrbOld(e, ka, cu, b)
(* No message of SRB1 was protected with the key of this K_ASME and count. *)
Fresh(p, a, c) == \A e \in p : e[1] # <<a, c>>

(* The history stays old when keys and counts go on and the bearer keeps   *)
(* its key or loses it.                                                    *)
LEMMA HistStays ==
  ASSUME NEW p, NEW nk \in Nat, NEW ka \in Nat, NEW cu \in Nat, NEW b,
         NEW nk2 \in Nat, NEW ka2 \in Nat, NEW cu2 \in Nat, NEW b2,
         Hist(p, nk, ka, cu, b), nk <= nk2, ka <= ka2, cu <= cu2,
         b2.do_security => b.do_security /\ b2.key = b.key /\ b2.tx_count = b.tx_count
  PROVE  Hist(p, nk2, ka2, cu2, b2)
<1> SUFFICES ASSUME NEW e \in p PROVE NasOld(e, nk2, cu2) \/ SrbOld(e, ka2, cu2, b2)
  BY DEF Hist
<1>1. NasOld(e, nk, cu) => NasOld(e, nk2, cu2)
  BY DEF NasOld
<1>2. ASSUME SrbOld(e, ka, cu, b) PROVE SrbOld(e, ka2, cu2, b2)
  <2>1. PICK a, c, t \in Nat : 
          /\ e = <<<<a, c>>, t>> /\ a <= ka /\ c <= cu
          /\ b.do_security /\ b.key = <<a, c>> => t < b.tx_count
    BY <1>2 DEF SrbOld
  <2>2. a <= ka2 /\ c <= cu2
    BY <2>1
  <2>3. b2.do_security /\ b2.key = <<a, c>> => t < b2.tx_count
    BY <2>1
  <2> QED  BY <2>1, <2>2, <2>3 DEF SrbOld
<1> QED  BY <1>1, <1>2 DEF Hist

(* A key of NAS is no key of SRB1. *)
LEMMA KeyForms == \A k, a, c : <<k>> # <<a, c>>
<1> SUFFICES ASSUME NEW k, NEW a, NEW c, <<k>> = <<a, c>> PROVE FALSE
  OBVIOUS
<1>1. Len(<<k>>) = 1 /\ Len(<<a, c>>) = 2
  OBVIOUS
<1> QED  BY <1>1

(* A bearer may take a key that is fresh, whatever its count is. *)
LEMMA HistSecured ==
  ASSUME NEW p, NEW nk \in Nat, NEW ka \in Nat, NEW cu \in Nat, NEW b, NEW b2,
         Hist(p, nk, ka, cu, b), Fresh(p, ka, cu), b2.key = <<ka, cu>>
  PROVE  Hist(p, nk, ka, cu, b2)
<1> SUFFICES ASSUME NEW e \in p, SrbOld(e, ka, cu, b) PROVE SrbOld(e, ka, cu, b2)
  BY DEF Hist
<1>1. PICK a, c, t \in Nat : e = <<<<a, c>>, t>> /\ a <= ka /\ c <= cu
  BY DEF SrbOld
<1>2. e[1] # <<ka, cu>>
  BY DEF Fresh
<1>3. b2.key # <<a, c>>
  BY <1>1, <1>2
<1> QED  BY <1>1, <1>3 DEF SrbOld

(* A later K_ASME or a later count makes a fresh key of SRB1. *)
LEMMA FreshLater ==
  ASSUME NEW p, NEW nk \in Nat, NEW ka \in Nat, NEW cu \in Nat, NEW b,
         NEW a2 \in Nat, NEW c2 \in Nat,
         Hist(p, nk, ka, cu, b), ka < a2 \/ cu < c2
  PROVE  Fresh(p, a2, c2)
<1> SUFFICES ASSUME NEW e \in p, e[1] = <<a2, c2>> PROVE FALSE
  BY DEF Fresh
<1>1. ~ NasOld(e, nk, cu)
  <2> SUFFICES ASSUME NEW k \in Nat, NEW c \in Nat, e = <<<<k>>, c>> PROVE FALSE
    BY DEF NasOld
  <2>1. e[1] = <<k>>
    OBVIOUS
  <2> QED  BY <2>1, KeyForms
<1>2. ~ SrbOld(e, ka, cu, b)
  <2> SUFFICES ASSUME NEW a \in Nat, NEW c \in Nat, NEW t \in Nat, e = <<<<a, c>>, t>>, a <= ka, c <= cu
               PROVE FALSE
    BY DEF SrbOld
  <2>1. <<a, c>> = <<a2, c2>>
    OBVIOUS
  <2>2. a = a2 /\ c = c2
    BY <2>1
  <2> QED  BY <2>2
<1> QED  BY <1>1, <1>2 DEF Hist

(* A NAS message with a later key or a later count has an entry of its     *)
(* own.                                                                    *)
LEMMA NasIsNew ==
  ASSUME NEW p, NEW nk \in Nat, NEW ka \in Nat, NEW cu \in Nat, NEW b,
         NEW k2 \in Nat, NEW c2 \in Nat,
         Hist(p, nk, ka, cu, b), nk < k2 \/ cu < c2
  PROVE  <<<<k2>>, c2>> \notin p
<1> SUFFICES ASSUME NEW e \in p, e = <<<<k2>>, c2>> PROVE FALSE
  OBVIOUS
<1>1. ~ NasOld(e, nk, cu)
  <2> SUFFICES ASSUME NEW k \in Nat, NEW c \in Nat, e = <<<<k>>, c>>, k <= nk, c <= cu PROVE FALSE
    BY DEF NasOld
  <2>1. <<k>> = <<k2>> /\ c = c2
    OBVIOUS
  <2>2. k = k2
    BY <2>1
  <2> QED  BY <2>1, <2>2
<1>2. ~ SrbOld(e, ka, cu, b)
  <2> SUFFICES ASSUME NEW a \in Nat, NEW c \in Nat, NEW t \in Nat, e = <<<<a, c>>, t>> PROVE FALSE
    BY DEF SrbOld
  <2>1. <<a, c>> = <<k2>>
    OBVIOUS
  <2> QED  BY <2>1, KeyForms
<1> QED  BY <1>1, <1>2 DEF Hist

(* So has a message that PDCP numbers with its count or a later one. *)
LEMMA SrbIsNew ==
  ASSUME NEW p, NEW nk \in Nat, NEW ka \in Nat, NEW cu \in Nat, NEW b,
         NEW a2 \in Nat, NEW c2 \in Nat, NEW t2 \in Nat,
         Hist(p, nk, ka, cu, b), b.do_security, b.key = <<a2, c2>>, b.tx_count \in Nat, b.tx_count <= t2
  PROVE  <<b.key, t2>> \notin p
<1> SUFFICES ASSUME NEW e \in p, e = <<<<a2, c2>>, t2>> PROVE FALSE
  OBVIOUS
<1>1. ~ NasOld(e, nk, cu)
  <2> SUFFICES ASSUME NEW k \in Nat, NEW c \in Nat, e = <<<<k>>, c>> PROVE FALSE
    BY DEF NasOld
  <2>1. <<k>> = <<a2, c2>>
    OBVIOUS
  <2> QED  BY <2>1, KeyForms
<1>2. ~ SrbOld(e, ka, cu, b)
  <2> SUFFICES ASSUME NEW a \in Nat, NEW c \in Nat, NEW t \in Nat, e = <<<<a, c>>, t>>,
                      b.key = <<a, c>> => t < b.tx_count PROVE FALSE
    BY DEF SrbOld
  <2>1. <<a, c>> = <<a2, c2>> /\ t = t2
    OBVIOUS
  <2> QED  BY <2>1
<1> QED  BY <1>1, <1>2 DEF Hist

(* The fields of a PDCP entity. *)
IsBearer(b) ==
  /\ b = [active |-> b.active, do_security |-> b.do_security, key |-> b.key, tx_count |-> b.tx_count]
  /\ b.active \in BOOLEAN /\ b.do_security \in BOOLEAN /\ b.tx_count \in Nat

(* A bearer with security has a key of a K_ASME and a count no later than  *)
(* these.                                                                  *)
KeyOld(b, ka, cu) == b.do_security => \E a, c \in Nat : b.key = <<a, c>> /\ a <= ka /\ c <= cu

KeysType ==
  /\ emm_state \in {"DEREGISTERED", "REGISTERED"}
  /\ count_ul \in Nat /\ k_asme \in Nat
  /\ k_nas \in [key : Nat, algo : Algo] /\ IsBearer(srb1)
  /\ mme = [vectors |-> mme.vectors, key |-> mme.key, count |-> mme.count, attaching |-> mme.attaching]
  /\ mme.vectors \in Nat /\ connections \in Nat /\ reests \in Nat

(* The entries of the messages that pdcp_entity::write_sdu() sends on the  *)
(* bearer.                                                                 *)
WriteEntries(b, msgs) ==
  (IF b.do_security THEN {<<b.key, b.tx_count + i>> : i \in 0 .. Len(msgs) - 1} ELSE {})
  \cup {<<<<msgs[i].key>>, msgs[i].count>> : i \in {j \in 1 .. Len(msgs) : msgs[j].algo # "none"}}

(* WriteSdus() with the entries under one name. *)
LEMMA WriteMeans ==
  ASSUME NEW b, NEW msgs, WriteSdus(b, msgs)
  PROVE  /\ srb1' = [b EXCEPT !.tx_count = @ + Len(msgs)]
         /\ ul_dcch' = ul_dcch \o msgs
         /\ protected' = protected \cup WriteEntries(b, msgs)
         /\ reused' = (reused \/ protected \cap WriteEntries(b, msgs) # {})
<1>1. protected' = protected \cup WriteEntries(b, msgs)
  BY DEF WriteSdus, WriteEntries
<1>2. reused' = (reused \/ protected \cap WriteEntries(b, msgs) # {})
  BY DEF WriteSdus, WriteEntries
<1> QED  BY <1>1, <1>2 DEF WriteSdus

(* Writing repeats no entry and keeps the history old, if each protected   *)
(* NAS message has a later key or count than all before.                   *)
LEMMA WriteHist ==
  ASSUME KeysType, k_asme' \in Nat, k_nas'.key \in Nat, count_ul' \in Nat, NEW b, NEW msgs \in Seq(UlMsg), IsBearer(b), WriteSdus(b, msgs),
         Hist(protected, k_nas.key, k_asme', count_ul, b), KeyOld(b, k_asme', count_ul),
         k_nas.key <= k_nas'.key, count_ul <= count_ul', reused = FALSE,
         \A j \in 1 .. Len(msgs) : msgs[j].algo # "none" =>
           /\ k_nas.key < msgs[j].key \/ count_ul < msgs[j].count
           /\ msgs[j].key <= k_nas'.key /\ msgs[j].count <= count_ul'
  PROVE  /\ reused' = FALSE /\ Hist(protected', k_nas'.key, k_asme', count_ul', srb1')
         /\ KeyOld(srb1', k_asme', count_ul') /\ IsBearer(srb1')
         /\ srb1' = [b EXCEPT !.tx_count = b.tx_count + Len(msgs)]
         /\ ul_dcch' = ul_dcch \o msgs
<1> DEFINE new == WriteEntries(b, msgs)
<1>1. /\ srb1' = [b EXCEPT !.tx_count = @ + Len(msgs)] /\ ul_dcch' = ul_dcch \o msgs
      /\ protected' = protected \cup new
      /\ reused' = (reused \/ protected \cap new # {})
  BY WriteMeans
<1>2. /\ k_nas.key \in Nat /\ k_nas'.key \in Nat /\ k_asme' \in Nat /\ count_ul \in Nat
      /\ count_ul' \in Nat /\ b.tx_count \in Nat /\ Len(msgs) \in Nat
  BY DEF KeysType, IsBearer
<1>3. /\ srb1'.do_security = b.do_security /\ srb1'.key = b.key
      /\ srb1'.tx_count = b.tx_count + Len(msgs) /\ srb1'.active = b.active
  BY <1>1, SMTT(30) DEF IsBearer
<1>4. \A e \in new :
        \/ b.do_security /\ \E i \in 0 .. Len(msgs) - 1 : e = <<b.key, b.tx_count + i>>
        \/ \E j \in 1 .. Len(msgs) : msgs[j].algo # "none" /\ e = <<<<msgs[j].key>>, msgs[j].count>>
  BY SMTT(30) DEF WriteEntries
<1> HIDE DEF new
<1>5. ASSUME NEW e \in new
      PROVE  e \notin protected /\ (NasOld(e, k_nas'.key, count_ul') \/ SrbOld(e, k_asme', count_ul', srb1'))
  <2>1. CASE b.do_security /\ \E i \in 0 .. Len(msgs) - 1 : e = <<b.key, b.tx_count + i>>
    <3>1. PICK i \in 0 .. Len(msgs) - 1 : e = <<b.key, b.tx_count + i>>
      BY <2>1, SMTT(30)
    <3>2. PICK a, c \in Nat : b.key = <<a, c>> /\ a <= k_asme' /\ c <= count_ul
      BY <2>1 DEF KeyOld
    <3> DEFINE t == b.tx_count + i
    <3>3. t \in Nat /\ b.tx_count <= t /\ t < srb1'.tx_count
      BY <1>2, <1>3, SMTT(30)
    <3>4. e = <<<<a, c>>, t>>
      BY <3>1, <3>2
    <3>5. c <= count_ul'
      BY <3>2, <1>2, SMTT(30)
    <3> HIDE DEF t
    <3>6. <<b.key, t>> \notin protected
      BY <2>1, <3>2, <3>3, <1>2, SrbIsNew, Zenon
    <3>7. SrbOld(e, k_asme', count_ul', srb1')
      BY <3>2, <3>3, <3>4, <3>5 DEF SrbOld
    <3> QED  BY <3>2, <3>4, <3>6, <3>7, SMTT(30)
  <2>2. CASE \E j \in 1 .. Len(msgs) : msgs[j].algo # "none" /\ e = <<<<msgs[j].key>>, msgs[j].count>>
    <3>1. PICK j \in 1 .. Len(msgs) : msgs[j].algo # "none" /\ e = <<<<msgs[j].key>>, msgs[j].count>>
      BY <2>2
    <3> msgs[j] \in UlMsg
      OBVIOUS
    <3>2. msgs[j].key \in Nat /\ msgs[j].count \in Nat
      BY SMTT(30) DEF UlMsg
    <3>3. /\ k_nas.key < msgs[j].key \/ count_ul < msgs[j].count
          /\ msgs[j].key <= k_nas'.key /\ msgs[j].count <= count_ul'
      BY <3>1, SMTT(30)
    <3>4. e \notin protected
      BY <3>1, <3>2, <3>3, <1>2, NasIsNew, SMTT(30)
    <3>5. NasOld(e, k_nas'.key, count_ul')
      BY <3>1, <3>2, <3>3, SMTT(30) DEF NasOld
    <3> QED  BY <3>4, <3>5
  <2> QED  BY <1>4, <2>1, <2>2
<1>6. protected \cap new = {}
  BY <1>5
<1>7. reused' = FALSE
  BY <1>1, <1>6, ZenonT(30)
<1>8. ASSUME NEW e \in protected
      PROVE  NasOld(e, k_nas'.key, count_ul') \/ SrbOld(e, k_asme', count_ul', srb1')
  <2>1. NasOld(e, k_nas.key, count_ul) \/ SrbOld(e, k_asme', count_ul, b)
    BY DEF Hist
  <2>2. NasOld(e, k_nas.key, count_ul) => NasOld(e, k_nas'.key, count_ul')
    BY <1>2, SMTT(30) DEF NasOld
  <2>3. ASSUME SrbOld(e, k_asme', count_ul, b) PROVE SrbOld(e, k_asme', count_ul', srb1')
    <3>1. PICK a, c, t \in Nat :
            /\ e = <<<<a, c>>, t>> /\ a <= k_asme' /\ c <= count_ul
            /\ b.do_security /\ b.key = <<a, c>> => t < b.tx_count
      BY <2>3, SMTT(30) DEF SrbOld
    <3>2. c <= count_ul'
      BY <3>1, <1>2, SMTT(30)
    <3>3. srb1'.do_security /\ srb1'.key = <<a, c>> => t < srb1'.tx_count
      BY <3>1, <1>2, <1>3, SMTT(30)
    <3> QED  BY <3>1, <3>2, <3>3, SMTT(30) DEF SrbOld
  <2> QED  BY <2>1, <2>2, <2>3
<1>9. Hist(protected', k_nas'.key, k_asme', count_ul', srb1')
  BY <1>1, <1>5, <1>8, Zenon DEF Hist
<1>10. KeyOld(srb1', k_asme', count_ul')
  BY <1>2, <1>3 DEF KeyOld
<1>11. IsBearer(srb1')
  <2>1. srb1' = [active |-> b.active, do_security |-> b.do_security, key |-> b.key,
                 tx_count |-> b.tx_count + Len(msgs)]
    BY <1>1, Zenon DEF IsBearer
  <2>2. b.active \in BOOLEAN /\ b.do_security \in BOOLEAN /\ b.tx_count + Len(msgs) \in Nat
    BY <1>2 DEF IsBearer
  <2> QED  BY <2>1, <2>2, <1>3, Zenon DEF IsBearer
<1> QED  BY <1>1, <1>7, <1>9, <1>10, <1>11

(* A message without NAS protection. *)
LEMMA PlainMsg ==
  ASSUME NEW s \in MsgName
  PROVE  Plain(s) \in UlMsg /\ Plain(s).msg = s /\ Plain(s).algo = "none"
BY DEF Plain, UlMsg, Algo

(* A message with it. *)
LEMMA ProtectedMsg ==
  ASSUME NEW s \in MsgName, NEW k \in [key : Nat, algo : Algo], NEW n \in Nat
  PROVE  Protected(s, k, n) \in UlMsg
BY DEF Protected, UlMsg

(* WriteHist for one message that NAS does not protect. *)
LEMMA WritePlain ==
  ASSUME KeysType, k_asme' \in Nat, UNCHANGED count_ul, k_nas'.key = k_nas.key,
         NEW b, NEW s \in MsgName, IsBearer(b), WriteSdus(b, <<Plain(s)>>),
         Hist(protected, k_nas.key, k_asme', count_ul, b), KeyOld(b, k_asme', count_ul), reused = FALSE
  PROVE  /\ reused' = FALSE /\ Hist(protected', k_nas'.key, k_asme', count_ul', srb1')
         /\ KeyOld(srb1', k_asme', count_ul') /\ IsBearer(srb1')
         /\ srb1' = [b EXCEPT !.tx_count = b.tx_count + 1]
         /\ ul_dcch' = ul_dcch \o <<Plain(s)>>
<1> DEFINE msgs == <<Plain(s)>>
<1>1. msgs \in Seq(UlMsg) /\ Len(msgs) = 1 /\ \A j \in 1 .. Len(msgs) : msgs[j].algo = "none"
  BY PlainMsg
<1>2. k_nas'.key \in Nat /\ count_ul' \in Nat /\ k_nas.key <= k_nas'.key /\ count_ul <= count_ul'
  BY SMTT(30) DEF KeysType
<1>3. WriteSdus(b, msgs)
  OBVIOUS
<1> HIDE DEF msgs
<1>4. /\ reused' = FALSE /\ Hist(protected', k_nas'.key, k_asme', count_ul', srb1')
      /\ KeyOld(srb1', k_asme', count_ul') /\ IsBearer(srb1')
      /\ srb1' = [b EXCEPT !.tx_count = b.tx_count + Len(msgs)]
      /\ ul_dcch' = ul_dcch \o msgs
  BY <1>1, <1>2, <1>3, WriteHist, Zenon
<1> QED  BY <1>1, <1>4 DEF msgs

(* WriteHist for one message that NAS protects. *)
LEMMA WriteProtected ==
  ASSUME KeysType, k_asme' \in Nat, k_nas'.key \in Nat, count_ul' \in Nat,
         NEW b, NEW m \in UlMsg, IsBearer(b), WriteSdus(b, <<m>>),
         Hist(protected, k_nas.key, k_asme', count_ul, b), KeyOld(b, k_asme', count_ul), reused = FALSE,
         k_nas.key <= k_nas'.key, count_ul <= count_ul',
         k_nas.key < m.key \/ count_ul < m.count, m.key <= k_nas'.key, m.count <= count_ul'
  PROVE  /\ reused' = FALSE /\ Hist(protected', k_nas'.key, k_asme', count_ul', srb1')
         /\ KeyOld(srb1', k_asme', count_ul') /\ IsBearer(srb1')
         /\ srb1' = [b EXCEPT !.tx_count = b.tx_count + 1]
         /\ ul_dcch' = ul_dcch \o <<m>>
<1> DEFINE msgs == <<m>>
<1>1. msgs \in Seq(UlMsg) /\ Len(msgs) = 1 /\ \A j \in 1 .. Len(msgs) : msgs[j] = m
  OBVIOUS
<1>2. WriteSdus(b, msgs)
  OBVIOUS
<1> HIDE DEF msgs
<1>3. \A j \in 1 .. Len(msgs) : msgs[j].algo # "none" =>
           /\ k_nas.key < msgs[j].key \/ count_ul < msgs[j].count
           /\ msgs[j].key <= k_nas'.key /\ msgs[j].count <= count_ul'
  BY <1>1
<1>4. /\ reused' = FALSE /\ Hist(protected', k_nas'.key, k_asme', count_ul', srb1')
      /\ KeyOld(srb1', k_asme', count_ul') /\ IsBearer(srb1')
      /\ srb1' = [b EXCEPT !.tx_count = b.tx_count + Len(msgs)]
      /\ ul_dcch' = ul_dcch \o msgs
  BY <1>1, <1>2, <1>3, WriteHist, ZenonT(30)
<1> QED  BY <1>1, <1>4 DEF msgs

(* What holds while a message is to be answered.  Between the count or the *)
(* vector that a procedure takes and the security mode command of RRC, the *)
(* key of SRB1 is fresh and security is off; an authentication request     *)
(* carries a vector that was not used before; what NAS sends carries its   *)
(* key and count, so that the base station derives the key that the UE     *)
(* will derive; and no procedure writes more than its messages.            *)
MsgInv(m) ==
  /\ m.msg \in {"service_request", "authentication_response", "security_mode_command",
                "security_mode_complete", "rrc_security_mode_command"} =>
       Fresh(protected, k_asme, count_ul)
  /\ m.msg = "authentication_request" => k_asme < m.key /\ m.key <= mme.vectors
  /\ m.msg \in {"authentication_response", "security_mode_command"} => k_nas.key < k_asme
  /\ m.msg \in {"service_request", "security_mode_complete"} => m.key = k_nas.key /\ m.count = count_ul
  /\ m.msg = "rrc_security_mode_command" /\ k_nas.key = k_asme => k_enb = <<k_asme, count_ul>>
  /\ m.msg \in {"attach_request", "service_request", "authentication_request",
                "authentication_response", "security_mode_command", "security_mode_complete",
                "rrc_security_mode_command"} => ~ srb1.do_security
  /\ count_ul < 2 * connections
  /\ m.msg \in {"attach_request", "service_request", "authentication_request"} => srb1.tx_count <= 1 + reests
  /\ m.msg \in {"authentication_response", "security_mode_command"} => srb1.tx_count <= 2 + reests
  /\ m.msg \in {"security_mode_complete", "rrc_security_mode_command"} => srb1.tx_count <= 3 + reests
  /\ m.msg \in {"rrc_security_mode_complete", "con_reconfig"} => srb1.tx_count <= 4 + reests

(* At most one message to be answered is under way, in one direction; none *)
(* without a connection.                                                   *)
OneUnderWay ==
  /\ ul_dcch \in Seq(UlMsg) /\ Single(ul_dcch)
  /\ ~ srb1.active => ul_dcch = <<>> /\ dl_dcch = <<>>
  /\ \/ dl_dcch = <<>>
     \/ Quiet(ul_dcch) /\ \E m \in DlMsg : m.msg \notin Inert /\ dl_dcch = <<m>>

(* MsgInv for that message. *)
MsgsInv == \A m : Sent(ul_dcch, m) \/ dl_dcch = <<m>> => MsgInv(m)

(* Vectors are used in order, and each connection counts twice at most. *)
KeysBounds ==
  /\ srb1.tx_count <= 6 + reests /\ reests <= MaxReests
  /\ k_nas.key <= k_asme /\ k_asme <= mme.vectors /\ mme.vectors <= MaxVectors
  /\ count_ul <= 2 * connections /\ connections <= MaxConnections

(* No entry was repeated, and all are old. *)
KeysHist == /\ reused = FALSE /\ Hist(protected, k_nas.key, k_asme, count_ul, srb1)
            /\ KeyOld(srb1, k_asme, count_ul)

(* CountsFresh and KeysAgree are not inductive: nothing in them says that  *)
(* the security mode command of RRC comes once for each new count or       *)
(* vector.  That follows from the procedure having one message under way   *)
(* at a time, and from what MsgInv says of it.                             *)
KeysInd == KeysType /\ OneUnderWay /\ MsgsInv /\ KeysBounds /\ KeysHist /\ KeysAgree

(* A handler of the UE takes the only message to be answered. *)
LEMMA ReceivesOne ==
  ASSUME KeysInd, NEW s, Receives(s)
  PROVE  \E m \in DlMsg :
           /\ dl_dcch = <<m>> /\ Head(dl_dcch) = m /\ m.msg = s /\ m.msg \notin Inert /\ MsgInv(m)
           /\ dl_dcch' = <<>> /\ Quiet(ul_dcch) /\ srb1.active /\ ul_dcch \in Seq(UlMsg)
<1>1. PICK m \in DlMsg : Quiet(ul_dcch) /\ m.msg \notin Inert /\ dl_dcch = <<m>>
  BY DEF KeysInd, OneUnderWay, Receives
<1>2. Head(dl_dcch) = m /\ Tail(dl_dcch) = <<>>
  BY <1>1
<1>3. MsgInv(m)
  BY <1>1 DEF KeysInd, MsgsInv
<1> QED  BY <1>1, <1>2, <1>3 DEF KeysInd, OneUnderWay, Receives

(* Its reply is then the only one. *)
LEMMA RepliesOne ==
  ASSUME NEW w \in UlMsg, ul_dcch \in Seq(UlMsg), Quiet(ul_dcch), ul_dcch' = ul_dcch \o <<w>>,
         dl_dcch' = <<>>, srb1'.active, w.msg \in Inert \/ MsgInv(w)'
  PROVE  OneUnderWay' /\ MsgsInv'
<1>1. ul_dcch' \in Seq(UlMsg) /\ Single(ul_dcch') /\ \A x : Sent(ul_dcch', x) => x = w
  BY SendOne
<1>2. OneUnderWay'
  BY <1>1 DEF OneUnderWay
<1>3. MsgsInv'
  <2> SUFFICES ASSUME NEW x, Sent(ul_dcch', x) \/ dl_dcch' = <<x>> PROVE MsgInv(x)'
    BY DEF MsgsInv
  <2>1. <<>> # <<x>>
    OBVIOUS
  <2>2. x = w /\ x.msg \notin Inert
    BY <1>1, <2>1 DEF Sent
  <2> QED  BY <2>2
<1> QED  BY <1>2, <1>3

(* A plain message on a bearer without security has no entry. *)
LEMMA WritesNothing ==
  ASSUME NEW b, NEW m, WriteSdus(b, <<m>>), ~ b.do_security, m.algo = "none"
  PROVE  protected' = protected
<1>1. WriteEntries(b, <<m>>) = {}
  <2>1. Len(<<m>>) = 1 /\ <<m>>[1] = m
    OBVIOUS
  <2> QED  BY <2>1 DEF WriteEntries
<1> QED  BY <1>1, WriteMeans, Zenon

(* Any message on a bearer without security has at most the entry of NAS. *)
LEMMA WritesOne ==
  ASSUME NEW b, NEW m, WriteSdus(b, <<m>>), ~ b.do_security
  PROVE  \A e \in protected' : e \in protected \/ e = <<<<m.key>>, m.count>>
<1>1. \A e \in WriteEntries(b, <<m>>) : e = <<<<m.key>>, m.count>>
  <2>1. Len(<<m>>) = 1 /\ <<m>>[1] = m
    OBVIOUS
  <2> QED  BY <2>1 DEF WriteEntries
<1> QED  BY <1>1, WriteMeans

(* An authentication request brings a later vector, so the key of SRB1 is  *)
(* fresh from here on.                                                     *)
LEMMA AuthenticationKeepsInd ==
  ASSUME KeysInd, parse_authentication_request
  PROVE  KeysInd'
<1> DEFINE w == Plain("authentication_response")
<1>1. PICK m \in DlMsg :
           /\ dl_dcch = <<m>> /\ Head(dl_dcch) = m /\ m.msg = "authentication_request" /\ MsgInv(m)
           /\ dl_dcch' = <<>> /\ Quiet(ul_dcch) /\ srb1.active /\ ul_dcch \in Seq(UlMsg)
  BY ReceivesOne DEF parse_authentication_request
<1>2. /\ k_asme' = m.key /\ WriteSdus(srb1, <<w>>)
      /\ UNCHANGED <<emm_state, count_ul, k_nas, mme, k_enb, connections, reests>>
  BY <1>1 DEF parse_authentication_request, Receives
<1>3. w \in UlMsg /\ w.msg = "authentication_response"
  BY PlainMsg, SMTT(30) DEF MsgName
<1>4. /\ m.key \in Nat /\ k_asme < m.key /\ m.key <= mme.vectors /\ ~ srb1.do_security
      /\ count_ul < 2 * connections /\ srb1.tx_count <= 1 + reests
  BY <1>1, SMTT(30) DEF MsgInv, DlMsg
<1>5. /\ k_nas.key \in Nat /\ k_asme \in Nat /\ count_ul \in Nat /\ k_nas.key <= k_asme
      /\ mme.vectors \in Nat /\ reests \in Nat /\ srb1.tx_count \in Nat /\ k_asme' \in Nat
      /\ reused = FALSE /\ IsBearer(srb1) /\ KeysType
  BY <1>2, <1>4 DEF KeysInd, KeysHist, KeysBounds, KeysType, IsBearer
<1>6. Hist(protected, k_nas.key, k_asme, count_ul, srb1)
  BY SMTT(30) DEF KeysInd, KeysHist
<1>7. Hist(protected, k_nas.key, k_asme', count_ul, srb1) /\ KeyOld(srb1, k_asme', count_ul)
  <2>1. Hist(protected, k_nas.key, k_asme', count_ul, srb1)
    BY <1>6, <1>5, <1>2, <1>4, HistStays
  <2> QED  BY <2>1, <1>4, SMTT(30) DEF KeyOld
<1>8. /\ reused' = FALSE /\ Hist(protected', k_nas'.key, k_asme', count_ul', srb1')
      /\ KeyOld(srb1', k_asme', count_ul') /\ IsBearer(srb1')
      /\ srb1' = [srb1 EXCEPT !.tx_count = srb1.tx_count + 1]
      /\ ul_dcch' = ul_dcch \o <<w>>
  BY <1>2, <1>5, <1>7, WritePlain, ZenonT(30) DEF MsgName
<1>9. protected' = protected
  BY <1>2, <1>4, WritesNothing, PlainMsg DEF MsgName
<1>10. /\ srb1'.active /\ ~ srb1'.do_security /\ srb1'.tx_count = srb1.tx_count + 1
  BY <1>1, <1>4, <1>5, <1>8 DEF IsBearer
<1> HIDE DEF w
<1>11. Fresh(protected', k_asme', count_ul')
  BY <1>2, <1>4, <1>5, <1>6, <1>9, FreshLater
<1>12. MsgInv(w)'
  BY <1>2, <1>3, <1>4, <1>5, <1>10, <1>11, SMTT(30) DEF MsgInv
<1>13. OneUnderWay' /\ MsgsInv'
  BY <1>1, <1>3, <1>8, <1>10, <1>12, RepliesOne
<1>14. KeysType' /\ KeysBounds'
  BY <1>2, <1>4, <1>5, <1>8, <1>10, SMTT(30) DEF KeysInd, KeysType, KeysBounds
<1>15. KeysHist' /\ KeysAgree'
  BY <1>8, <1>10 DEF KeysHist, KeysAgree
<1> QED  BY <1>13, <1>14, <1>15 DEF KeysInd

(* The security mode command of NAS: its completion is the first message   *)
(* under the new key.                                                      *)
LEMMA SecurityModeKeepsInd ==
  ASSUME KeysInd, parse_security_mode_command
  PROVE  KeysInd'
<1>1. PICK m \in DlMsg :
           /\ dl_dcch = <<m>> /\ Head(dl_dcch) = m /\ m.msg = "security_mode_command" /\ MsgInv(m)
           /\ dl_dcch' = <<>> /\ Quiet(ul_dcch) /\ srb1.active /\ ul_dcch \in Seq(UlMsg)
  BY ReceivesOne DEF parse_security_mode_command
<1>2. UNCHANGED <<emm_state, count_ul, k_asme, mme, k_enb, connections, reests>>
  BY DEF parse_security_mode_command, Receives
<1>3. /\ k_nas.key < k_asme /\ ~ srb1.do_security /\ Fresh(protected, k_asme, count_ul)
      /\ count_ul < 2 * connections /\ srb1.tx_count <= 2 + reests
  BY <1>1, SMTT(30) DEF MsgInv
<1>4. /\ k_nas.key \in Nat /\ k_asme \in Nat /\ count_ul \in Nat
      /\ mme.vectors \in Nat /\ reests \in Nat /\ srb1.tx_count \in Nat
      /\ reused = FALSE /\ IsBearer(srb1) /\ KeysType
      /\ Hist(protected, k_nas.key, k_asme, count_ul, srb1) /\ KeyOld(srb1, k_asme, count_ul)
  BY SMTT(30) DEF KeysInd, KeysHist, KeysBounds, KeysType, IsBearer
<1> DEFINE Done == /\ reused' = FALSE /\ Hist(protected', k_nas'.key, k_asme', count_ul', srb1')
                   /\ KeyOld(srb1', k_asme', count_ul') /\ IsBearer(srb1')
                   /\ srb1' = [srb1 EXCEPT !.tx_count = srb1.tx_count + 1]
<1>5. CASE m.algo \notin {"EIA1", "EIA2"}
  <2> DEFINE w == Plain("security_mode_reject")
  <2>1. k_nas' = [key |-> k_nas.key, algo |-> m.algo] /\ WriteSdus(srb1, <<w>>)
    BY <1>1, <1>5, Zenon DEF parse_security_mode_command
  <2>2. w \in UlMsg /\ w.msg \in Inert
    BY PlainMsg, SMTT(30) DEF MsgName, Inert
  <2>3. /\ k_nas' \in [key : Nat, algo : Algo] /\ k_nas'.key = k_nas.key
    BY <2>1, <1>4, Zenon DEF DlMsg
  <2>4. Done /\ ul_dcch' = ul_dcch \o <<w>>
    <3>1. Hist(protected, k_nas.key, k_asme', count_ul, srb1) /\ KeyOld(srb1, k_asme', count_ul)
      BY <1>2, <1>4
    <3> QED  BY <3>1, <2>1, <2>3, <1>2, <1>4, WritePlain, Zenon DEF MsgName, Inert
  <2> HIDE DEF w
  <2>5. /\ srb1'.active /\ ~ srb1'.do_security /\ srb1'.tx_count = srb1.tx_count + 1
    BY <1>1, <1>3, <1>4, <2>4 DEF IsBearer
  <2>6. OneUnderWay' /\ MsgsInv'
    BY <1>1, <2>2, <2>4, <2>5, RepliesOne
  <2>7. KeysType' /\ KeysBounds'
    BY <1>2, <1>3, <1>4, <2>3, <2>4, <2>5, SMTT(30) DEF KeysInd, KeysType, KeysBounds
  <2>8. KeysHist' /\ KeysAgree'
    BY <2>4, <2>5 DEF KeysHist, KeysAgree
  <2> QED  BY <2>6, <2>7, <2>8 DEF KeysInd
<1>6. CASE m.algo \in {"EIA1", "EIA2"}
  <2>1. /\ k_nas' = [key |-> k_asme, algo |-> m.algo]
        /\ WriteSdus(srb1, <<Protected("security_mode_complete", k_nas', count_ul)>>)
    BY <1>1, <1>6 DEF parse_security_mode_command
  <2>2. PICK w : w = Protected("security_mode_complete", k_nas', count_ul)
    OBVIOUS
  <2>3. /\ k_nas' \in [key : Nat, algo : Algo] /\ k_nas'.key = k_asme
    BY <2>1, <1>4, <1>6, ZenonT(30) DEF Algo
  <2>4. w \in UlMsg /\ w.msg = "security_mode_complete" /\ w.key = k_asme /\ w.count = count_ul
    BY <2>1, <2>2, <2>3, <1>4, ProtectedMsg, Zenon DEF MsgName, Protected
  <2>5. WriteSdus(srb1, <<w>>)
    BY <2>1, <2>2
  <2>6. Done /\ ul_dcch' = ul_dcch \o <<w>>
    <3>1. /\ k_asme' \in Nat /\ k_nas'.key \in Nat /\ count_ul' \in Nat
          /\ k_nas.key <= k_nas'.key /\ count_ul <= count_ul' /\ k_nas.key < w.key
          /\ w.key <= k_nas'.key /\ w.count <= count_ul'
      BY <2>3, <2>4, <1>2, <1>3, <1>4
    <3>2. Hist(protected, k_nas.key, k_asme', count_ul, srb1) /\ KeyOld(srb1, k_asme', count_ul)
      BY <1>2, <1>4
    <3> QED  BY <3>1, <3>2, <2>4, <2>5, <1>4, WriteProtected, Zenon
  <2>7. Fresh(protected', k_asme', count_ul')
    <3> SUFFICES ASSUME NEW e \in protected', e[1] = <<k_asme, count_ul>> PROVE FALSE
      BY <1>2 DEF Fresh
    <3>1. e \in protected \/ e = <<<<w.key>>, w.count>>
      BY <2>5, <1>3, WritesOne
    <3>2. e \notin protected
      BY <1>3 DEF Fresh
    <3>3. e[1] = <<w.key>>
      BY <3>1, <3>2
    <3> QED  BY <3>3, KeyForms
  <2>8. /\ srb1'.active /\ ~ srb1'.do_security /\ srb1'.tx_count = srb1.tx_count + 1
    BY <1>1, <1>3, <1>4, <2>6, SMTT(30) DEF IsBearer
  <2>9. MsgInv(w)'
    BY <1>2, <1>3, <1>4, <2>3, <2>4, <2>7, <2>8 DEF MsgInv
  <2>10. OneUnderWay' /\ MsgsInv'
    BY <1>1, <2>4, <2>6, <2>8, <2>9, RepliesOne
  <2>11. KeysType' /\ KeysBounds'
    BY <1>2, <1>3, <1>4, <2>3, <2>6, <2>8, SMTT(30) DEF KeysInd, KeysType, KeysBounds
  <2>12. KeysHist' /\ KeysAgree'
    BY <2>6, <2>8 DEF KeysHist, KeysAgree
  <2> QED  BY <2>10, <2>11, <2>12 DEF KeysInd
<1> QED  BY <1>5, <1>6


(* The bearer after config_security(), field by field. *)
LEMMA SecuredBearer ==
  ASSUME NEW x, IsBearer(x), NEW k, NEW v, NEW z, z = [x EXCEPT !.do_security = v, !.key = k]
  PROVE  z = [active |-> x.active, do_security |-> v, key |-> k, tx_count |-> x.tx_count]
BY ZenonT(30) DEF IsBearer

(* The security mode command of RRC: the fresh key is taken, and it is the *)
(* base station's.                                                         *)
LEMMA RrcSecurityKeepsInd ==
  ASSUME KeysInd, rrc_security_mode_command
  PROVE  KeysInd'
<1> DEFINE w == Plain("rrc_security_mode_complete")
           b == [srb1 EXCEPT !.do_security = TRUE, !.key = <<k_asme, count_ul>>]
<1>1. PICK m \in DlMsg :
           /\ dl_dcch = <<m>> /\ Head(dl_dcch) = m /\ m.msg = "rrc_security_mode_command" /\ MsgInv(m)
           /\ dl_dcch' = <<>> /\ Quiet(ul_dcch) /\ srb1.active /\ ul_dcch \in Seq(UlMsg)
  BY ReceivesOne DEF rrc_security_mode_command
<1>2. /\ UNCHANGED <<emm_state, count_ul, k_asme, k_nas, mme, k_enb, connections, reests>>
      /\ WriteSdus(b, <<w>>)
  BY DEF rrc_security_mode_command, Receives, generate_as_keys
<1>3. /\ ~ srb1.do_security /\ Fresh(protected, k_asme, count_ul)
      /\ count_ul < 2 * connections /\ srb1.tx_count <= 3 + reests
      /\ k_nas.key = k_asme => k_enb = <<k_asme, count_ul>>
  BY <1>1 DEF MsgInv
<1>4. /\ k_nas.key \in Nat /\ k_asme \in Nat /\ count_ul \in Nat
      /\ mme.vectors \in Nat /\ reests \in Nat /\ srb1.tx_count \in Nat
      /\ reused = FALSE /\ IsBearer(srb1) /\ KeysType
      /\ Hist(protected, k_nas.key, k_asme, count_ul, srb1)
  BY DEF KeysInd, KeysHist, KeysBounds, KeysType, IsBearer
<1>5. w \in UlMsg /\ w.msg = "rrc_security_mode_complete"
  BY PlainMsg DEF MsgName
<1>6. b = [active |-> srb1.active, do_security |-> TRUE, key |-> <<k_asme, count_ul>>,
           tx_count |-> srb1.tx_count]
  BY <1>4, SecuredBearer, Zenon
<1> HIDE DEF b
<1>7. /\ b.active = srb1.active /\ b.do_security = TRUE /\ b.key = <<k_asme, count_ul>>
      /\ b.tx_count = srb1.tx_count
  BY <1>6
<1>8. IsBearer(b)
  <2>1. srb1.active \in BOOLEAN
    BY <1>4, SMTT(30) DEF IsBearer
  <2> QED  BY <1>4, <1>6, <1>7, <2>1, SMTT(30) DEF IsBearer
<1>9. Hist(protected, k_nas.key, k_asme', count_ul, b) /\ KeyOld(b, k_asme', count_ul)
  <2>1. Hist(protected, k_nas.key, k_asme, count_ul, b)
    BY <1>3, <1>4, <1>7, HistSecured
  <2>2. k_asme <= k_asme /\ count_ul <= count_ul
    BY <1>4
  <2>3. KeyOld(b, k_asme, count_ul)
    BY <1>4, <1>7, <2>2, Zenon DEF KeyOld
  <2>4. k_asme' = k_asme
    BY <1>2
  <2> QED  BY <2>1, <2>3, <2>4, Zenon
<1>10. /\ reused' = FALSE /\ Hist(protected', k_nas'.key, k_asme', count_ul', srb1')
       /\ KeyOld(srb1', k_asme', count_ul') /\ IsBearer(srb1')
       /\ srb1' = [b EXCEPT !.tx_count = b.tx_count + 1]
       /\ ul_dcch' = ul_dcch \o <<w>>
  BY <1>2, <1>4, <1>8, <1>9, WritePlain, Zenon DEF MsgName
<1> HIDE DEF w
<1>11. /\ srb1'.active /\ srb1'.key = <<k_asme, count_ul>> /\ srb1'.tx_count = srb1.tx_count + 1
  BY <1>1, <1>6, <1>7, <1>10
<1>12. MsgInv(w)'
  BY <1>2, <1>3, <1>4, <1>5, <1>11 DEF MsgInv
<1>13. OneUnderWay' /\ MsgsInv'
  BY <1>1, <1>5, <1>10, <1>11, <1>12, RepliesOne
<1>14. KeysType' /\ KeysBounds'
  BY <1>2, <1>3, <1>4, <1>10, <1>11, SMTT(30) DEF KeysInd, KeysType, KeysBounds
<1>15. KeysHist' /\ KeysAgree'
  BY <1>2, <1>3, <1>10, <1>11 DEF KeysHist, KeysAgree
<1> QED  BY <1>13, <1>14, <1>15 DEF KeysInd

(* A reconfiguration, with the attach complete that goes on counting. *)
LEMMA ReconfigKeepsInd ==
  ASSUME KeysInd, con_reconfig
  PROVE  KeysInd'
<1>1. PICK m \in DlMsg :
           /\ dl_dcch = <<m>> /\ Head(dl_dcch) = m /\ m.msg = "con_reconfig" /\ MsgInv(m)
           /\ dl_dcch' = <<>> /\ Quiet(ul_dcch) /\ srb1.active /\ ul_dcch \in Seq(UlMsg)
  BY ReceivesOne DEF con_reconfig
<1>2. UNCHANGED <<k_asme, k_nas, mme, k_enb, connections, reests>>
  BY DEF con_reconfig, Receives
<1>3. count_ul < 2 * connections /\ srb1.tx_count <= 4 + reests
  BY <1>1, SMTT(30) DEF MsgInv
<1>4. /\ k_nas.key \in Nat /\ k_asme \in Nat /\ count_ul \in Nat /\ connections \in Nat
      /\ mme.vectors \in Nat /\ reests \in Nat /\ srb1.tx_count \in Nat
      /\ reused = FALSE /\ IsBearer(srb1) /\ KeysType
      /\ k_nas \in [key : Nat, algo : Algo]
  BY DEF KeysInd, KeysHist, KeysBounds, KeysType, IsBearer
<1>5. Hist(protected, k_nas.key, k_asme', count_ul, srb1) /\ KeyOld(srb1, k_asme', count_ul)
  BY <1>2 DEF KeysInd, KeysHist
<1>6. emm_state' \in {"DEREGISTERED", "REGISTERED"}
  BY DEF con_reconfig, KeysInd, KeysType
<1> DEFINE Done == /\ reused' = FALSE /\ Hist(protected', k_nas'.key, k_asme', count_ul', srb1')
                   /\ KeyOld(srb1', k_asme', count_ul') /\ IsBearer(srb1')
<1>7. ASSUME Done, NEW n \in 1 .. 2, srb1' = [srb1 EXCEPT !.tx_count = srb1.tx_count + n],
             count_ul' \in {count_ul, count_ul + 1}
      PROVE  /\ srb1'.active /\ KeysType' /\ KeysBounds' /\ KeysHist' /\ KeysAgree'
  <2>1. /\ srb1'.active = srb1.active /\ srb1'.tx_count = srb1.tx_count + n
        /\ srb1'.do_security = srb1.do_security /\ srb1'.key = srb1.key
    BY <1>7, <1>4 DEF IsBearer
  <2>2. KeysType'
    BY <1>2, <1>4, <1>6, <1>7 DEF KeysType
  <2>3. KeysBounds'
    BY <1>2, <1>3, <1>4, <1>7, <2>1, SMTT(30) DEF KeysInd, KeysBounds
  <2>4. KeysAgree'
    BY <1>2, <2>1 DEF KeysInd, KeysAgree
  <2> QED  BY <1>1, <1>7, <2>1, <2>2, <2>3, <2>4 DEF KeysHist
<1> HIDE DEF Done
<1>8. CASE m.algo # "accept"
  <2> DEFINE w == Plain("reconfig_complete")
  <2>1. count_ul' = count_ul /\ WriteSdus(srb1, <<w>>)
    BY <1>1, <1>8 DEF con_reconfig
  <2>2. w \in UlMsg /\ w.msg \in Inert
    BY PlainMsg DEF MsgName, Inert
  <2>3. Done /\ srb1' = [srb1 EXCEPT !.tx_count = srb1.tx_count + 1] /\ ul_dcch' = ul_dcch \o <<w>>
    BY <2>1, <1>2, <1>4, <1>5, WritePlain, Zenon DEF MsgName, Inert, Done
  <2> HIDE DEF w
  <2>4. /\ srb1'.active /\ KeysType' /\ KeysBounds' /\ KeysHist' /\ KeysAgree'
    BY <2>1, <2>3, <1>7
  <2>5. OneUnderWay' /\ MsgsInv'
    BY <1>1, <2>2, <2>3, <2>4, RepliesOne
  <2> QED  BY <2>4, <2>5 DEF KeysInd
<1>9. CASE m.algo = "accept"
  <2>1. /\ count_ul' = count_ul + 1
        /\ WriteSdus(srb1, <<Plain("reconfig_complete"), Protected("attach_complete", k_nas, count_ul')>>)
    BY <1>1, <1>9 DEF con_reconfig
  <2>2. PICK v, w : v = Plain("reconfig_complete") /\ w = Protected("attach_complete", k_nas, count_ul')
    OBVIOUS
  <2>3. v \in UlMsg /\ v.msg \in Inert /\ v.algo = "none"
    BY <2>2, PlainMsg DEF MsgName, Inert
  <2>4. w \in UlMsg /\ w.msg \in Inert /\ w.key = k_nas.key /\ w.count = count_ul + 1
    <3>1. count_ul' \in Nat
      BY <2>1, <1>4
    <3> QED  BY <3>1, <2>1, <2>2, <1>4, ProtectedMsg DEF MsgName, Inert, Protected
  <2> DEFINE msgs == <<v, w>>
  <2>5. /\ msgs \in Seq(UlMsg) /\ Len(msgs) = 2 /\ WriteSdus(srb1, msgs)
        /\ \A j \in 1 .. Len(msgs) : msgs[j] = v \/ msgs[j] = w
    BY <2>1, <2>2, <2>3, <2>4
  <2> HIDE DEF msgs
  <2>6. \A j \in 1 .. Len(msgs) : msgs[j].algo # "none" =>
           /\ k_nas.key < msgs[j].key \/ count_ul < msgs[j].count
           /\ msgs[j].key <= k_nas'.key /\ msgs[j].count <= count_ul'
    BY <2>1, <2>3, <2>4, <2>5, <1>2, <1>4, SMTT(30)
  <2>7. k_asme' \in Nat /\ k_nas'.key \in Nat /\ count_ul' \in Nat /\ k_nas.key <= k_nas'.key
        /\ count_ul <= count_ul'
    BY <2>1, <1>2, <1>4
  <2>8. /\ Done /\ srb1' = [srb1 EXCEPT !.tx_count = srb1.tx_count + Len(msgs)]
        /\ ul_dcch' = ul_dcch \o msgs
    BY <2>5, <2>6, <2>7, <1>4, <1>5, WriteHist, Zenon DEF Done
  <2>9. /\ srb1'.active /\ KeysType' /\ KeysBounds' /\ KeysHist' /\ KeysAgree'
    BY <2>1, <2>5, <2>8, <1>7
  <2>10. ul_dcch' \in Seq(UlMsg) /\ Quiet(ul_dcch')
    BY <2>3, <2>4, <2>8, <1>1, SendTwo DEF msgs
  <2>11. Single(ul_dcch') /\ \A x : ~ Sent(ul_dcch', x)
    BY <2>10, QuietIsSingle
  <2>12. OneUnderWay'
    BY <2>9, <2>10, <2>11, <1>1 DEF OneUnderWay
  <2>13. MsgsInv'
    <3>1. \A x : <<>> # <<x>>
      OBVIOUS
    <3> QED  BY <3>1, <2>11, <1>1 DEF MsgsInv
  <2> QED  BY <2>9, <2>12, <2>13 DEF KeysInd
<1> QED  BY <1>8, <1>9

(* Steps in which the UE writes nothing: a message is only taken. *)
LEMMA TakesOnly ==
  ASSUME KeysInd, NEW s, Receives(s), emm_state' \in {"DEREGISTERED", "REGISTERED"},
         UNCHANGED <<count_ul, k_asme, k_nas, srb1, ul_dcch, protected, reused>>
  PROVE  KeysInd'
<1>1. PICK m \in DlMsg :
           /\ dl_dcch = <<m>> /\ Head(dl_dcch) = m /\ m.msg = s /\ MsgInv(m)
           /\ dl_dcch' = <<>> /\ Quiet(ul_dcch) /\ srb1.active /\ ul_dcch \in Seq(UlMsg)
  BY ReceivesOne
<1>2. UNCHANGED <<mme, k_enb, connections, reests>>
  BY DEF Receives
<1>3. Single(ul_dcch') /\ \A x : ~ Sent(ul_dcch', x)
  BY <1>1, QuietIsSingle
<1>4. OneUnderWay'
  BY <1>1, <1>3 DEF OneUnderWay
<1>5. MsgsInv'
  <2>1. \A x : <<>> # <<x>>
    OBVIOUS
  <2> QED  BY <2>1, <1>1, <1>3 DEF MsgsInv
<1>6. KeysType' /\ KeysBounds' /\ KeysHist' /\ KeysAgree'
  BY <1>2 DEF KeysInd, KeysType, KeysBounds, KeysHist, KeysAgree
<1> QED  BY <1>4, <1>5, <1>6 DEF KeysInd

(* The messages that the UE does not reply to. *)
LEMMA RejectKeepsInd ==
  ASSUME KeysInd, parse_reject \/ parse_todo
  PROVE  KeysInd'
<1>1. CASE parse_reject
  BY <1>1, TakesOnly DEF parse_reject
<1>2. CASE parse_todo
  <2>1. emm_state' \in {"DEREGISTERED", "REGISTERED"}
    BY <1>2 DEF parse_todo, ueKeyVars, KeysInd, KeysType
  <2> QED  BY <1>2, <2>1, TakesOnly DEF parse_todo, ueKeyVars
<1> QED  BY <1>1, <1>2

(* The connection ends at any point of a procedure. *)
LEMMA ResetKeepsInd ==
  ASSUME KeysInd, pdcp_reset
  PROVE  KeysInd'
<1>1. /\ srb1' = [srb1 EXCEPT !.active = FALSE] /\ ul_dcch' = <<>> /\ dl_dcch' = <<>>
      /\ UNCHANGED <<emm_state, count_ul, k_asme, k_nas, mme, protected, reused, connections, reests>>
  BY DEF pdcp_reset
<1>2. IsBearer(srb1)
  BY DEF KeysInd, KeysType
<1>3. srb1' = [active |-> FALSE, do_security |-> srb1.do_security, key |-> srb1.key, tx_count |-> srb1.tx_count]
  BY <1>1, <1>2, Zenon DEF IsBearer
<1>4. ~ srb1'.active /\ srb1'.do_security = srb1.do_security /\ srb1'.key = srb1.key /\ srb1'.tx_count = srb1.tx_count
  BY <1>3
<1>5. IsBearer(srb1')
  BY <1>2, <1>3, <1>4 DEF IsBearer
<1>6. KeysType' /\ KeysBounds' /\ KeysAgree'
  BY <1>1, <1>4, <1>5 DEF KeysInd, KeysType, KeysBounds, KeysAgree
<1>7. KeysHist'
  <2>1. Hist(protected', k_nas'.key, k_asme', count_ul', srb1')
    <3>1. k_nas.key \in Nat /\ k_asme \in Nat /\ count_ul \in Nat
      BY DEF KeysInd, KeysType
    <3>2. Hist(protected, k_nas.key, k_asme, count_ul, srb1)
      BY DEF KeysInd, KeysHist
    <3>3. Hist(protected, k_nas.key, k_asme, count_ul, srb1')
      BY <3>1, <3>2, <1>4, HistStays
    <3> QED  BY <3>3, <1>1
  <2> QED  BY <2>1, <1>1, <1>4 DEF KeysInd, KeysHist, KeyOld
<1>8. <<>> \in Seq(UlMsg) /\ Quiet(<<>>) /\ \A x : <<>> # <<x>>
  BY DEF Quiet
<1>9. OneUnderWay' /\ MsgsInv'
  BY <1>1, <1>8, QuietIsSingle DEF OneUnderWay, MsgsInv
<1> QED  BY <1>6, <1>7, <1>9 DEF KeysInd

(* The bearer of pdcp_entity::init(), field by field. *)
LEMMA InitialBearer ==
  ASSUME NEW z, z = pdcp_entity_init
  PROVE  z = [active |-> TRUE, do_security |-> FALSE, key |-> <<>>, tx_count |-> 0]
BY ZenonT(30) DEF pdcp_entity_init, NoBearer

(* A connection is set up; a service request takes the next count, which   *)
(* makes a fresh key.                                                      *)
LEMMA SetupKeepsInd ==
  ASSUME KeysInd, notify_connection_setup
  PROVE  KeysInd'
<1> DEFINE b == pdcp_entity_init
<1>1. /\ ~ srb1.active /\ connections < MaxConnections /\ connections' = connections + 1
      /\ UNCHANGED <<emm_state, k_asme, k_nas, dl_dcch, mme, k_enb, reests>>
  BY DEF notify_connection_setup
<1>2. ul_dcch = <<>> /\ dl_dcch = <<>> /\ Quiet(ul_dcch) /\ ul_dcch \in Seq(UlMsg)
  BY <1>1 DEF KeysInd, OneUnderWay, Quiet
<1>3. b = [active |-> TRUE, do_security |-> FALSE, key |-> <<>>, tx_count |-> 0]
  BY InitialBearer
<1>4. b.active /\ ~ b.do_security /\ b.tx_count = 0 /\ IsBearer(b)
  BY <1>3 DEF IsBearer
<1> HIDE DEF b
<1>5. /\ k_nas.key \in Nat /\ k_asme \in Nat /\ count_ul \in Nat /\ connections \in Nat
      /\ mme.vectors \in Nat /\ reests \in Nat /\ k_nas.key <= k_asme /\ count_ul <= 2 * connections
      /\ reused = FALSE /\ KeysType /\ k_nas \in [key : Nat, algo : Algo]
      /\ Hist(protected, k_nas.key, k_asme, count_ul, srb1)
  BY DEF KeysInd, KeysHist, KeysBounds, KeysType
<1>6. Hist(protected, k_nas.key, k_asme', count_ul, b) /\ KeyOld(b, k_asme', count_ul)
  <2>1. Hist(protected, k_nas.key, k_asme, count_ul, b)
    BY <1>4, <1>5, HistStays
  <2> QED  BY <2>1, <1>1, <1>4, SMTT(30) DEF KeyOld
<1> DEFINE Done == /\ reused' = FALSE /\ Hist(protected', k_nas'.key, k_asme', count_ul', srb1')
                   /\ KeyOld(srb1', k_asme', count_ul') /\ IsBearer(srb1')
                   /\ srb1' = [b EXCEPT !.tx_count = b.tx_count + 1]
<1>7. ASSUME Done, count_ul' \in {count_ul, count_ul + 1}
      PROVE  /\ srb1'.active /\ ~ srb1'.do_security /\ srb1'.tx_count = 1
             /\ count_ul' < 2 * connections' /\ count_ul' \in Nat
             /\ KeysType' /\ KeysBounds' /\ KeysHist' /\ KeysAgree'
  <2>1. srb1'.active /\ ~ srb1'.do_security /\ srb1'.tx_count = 1
    BY <1>3, <1>4, <1>7
  <2>2. count_ul' < 2 * connections' /\ count_ul' \in Nat /\ connections' \in Nat
    BY <1>1, <1>5, <1>7
  <2>3. KeysType'
    BY <1>1, <1>5, <1>7, <2>2, SMTT(30) DEF KeysType
  <2>4. KeysBounds'
    BY <1>1, <1>5, <2>1, <2>2, KeysAssumption DEF KeysInd, KeysBounds
  <2> QED  BY <1>7, <2>1, <2>2, <2>3, <2>4 DEF KeysHist, KeysAgree
<1>8. CASE emm_state = "DEREGISTERED"
  <2> DEFINE w == Plain("attach_request")
  <2>1. count_ul' = count_ul /\ WriteSdus(b, <<w>>)
    BY <1>8 DEF notify_connection_setup, send_attach_request, b
  <2>2. w \in UlMsg /\ w.msg = "attach_request"
    BY PlainMsg DEF MsgName
  <2>3. Done /\ ul_dcch' = ul_dcch \o <<w>>
    BY <2>1, <1>1, <1>4, <1>5, <1>6, WritePlain, Zenon DEF MsgName
  <2> HIDE DEF w
  <2>4. /\ srb1'.active /\ ~ srb1'.do_security /\ srb1'.tx_count = 1
        /\ count_ul' < 2 * connections'
        /\ KeysType' /\ KeysBounds' /\ KeysHist' /\ KeysAgree'
    BY <2>1, <2>3, <1>7, Zenon
  <2>5. MsgInv(w)'
    BY <2>2, <2>4, <1>1, <1>5 DEF MsgInv
  <2>6. OneUnderWay' /\ MsgsInv'
    BY <1>1, <1>2, <2>2, <2>3, <2>4, <2>5, RepliesOne, SMTT(30)
  <2> QED  BY <2>4, <2>6 DEF KeysInd
<1>9. CASE emm_state # "DEREGISTERED"
  <2>1. count_ul' = count_ul + 1 /\ WriteSdus(b, <<Protected("service_request", k_nas, count_ul + 1)>>)
    BY <1>9 DEF notify_connection_setup, send_service_request, b
  <2>2. PICK w : w = Protected("service_request", k_nas, count_ul + 1)
    OBVIOUS
  <2>3. w \in UlMsg /\ w.msg = "service_request" /\ w.key = k_nas.key /\ w.count = count_ul + 1
    <3>1. count_ul + 1 \in Nat
      BY <1>5
    <3> QED  BY <3>1, <2>2, <1>5, ProtectedMsg DEF MsgName, Protected
  <2>4. WriteSdus(b, <<w>>)
    BY <2>1, <2>2
  <2>5. Done /\ ul_dcch' = ul_dcch \o <<w>>
    <3>1. /\ k_asme' \in Nat /\ k_nas'.key \in Nat /\ count_ul' \in Nat
          /\ k_nas.key <= k_nas'.key /\ count_ul <= count_ul' /\ count_ul < w.count
          /\ w.key <= k_nas'.key /\ w.count <= count_ul'
      BY <2>1, <2>3, <1>1, <1>5
    <3> QED  BY <3>1, <2>3, <2>4, <1>4, <1>5, <1>6, WriteProtected, Zenon
  <2>6. /\ srb1'.active /\ ~ srb1'.do_security /\ srb1'.tx_count = 1
        /\ count_ul' < 2 * connections' /\ count_ul' \in Nat
        /\ KeysType' /\ KeysBounds' /\ KeysHist' /\ KeysAgree'
    BY <2>1, <2>5, <1>7, ZenonT(30)
  <2>7. Fresh(protected', k_asme', count_ul')
    <3>1. Fresh(protected, k_asme, count_ul')
      BY <1>5, <2>1, <2>6, FreshLater
    <3> SUFFICES ASSUME NEW e \in protected', e[1] = <<k_asme, count_ul'>> PROVE FALSE
      BY <1>1 DEF Fresh
    <3>2. e = <<<<w.key>>, w.count>>
      BY <3>1, <2>4, <1>4, WritesOne DEF Fresh
    <3>3. e[1] = <<w.key>>
      BY <3>2, SMTT(30)
    <3> QED  BY <3>3, KeyForms
  <2>8. MsgInv(w)'
    BY <2>1, <2>3, <2>6, <2>7, <1>1, <1>5 DEF MsgInv
  <2>9. OneUnderWay' /\ MsgsInv'
    BY <1>1, <1>2, <2>3, <2>5, <2>6, <2>8, RepliesOne, SMTT(30)
  <2> QED  BY <2>6, <2>9 DEF KeysInd
<1> QED  BY <1>8, <1>9

(* Re-establishment keeps the bearer with its key and its count. *)
LEMMA ReestKeepsInd ==
  ASSUME KeysInd, send_con_restablish_complete
  PROVE  KeysInd'
<1> DEFINE w == Plain("reestablishment_complete")
<1>1. /\ srb1.active /\ reests < MaxReests /\ reests' = reests + 1 /\ WriteSdus(srb1, <<w>>)
      /\ UNCHANGED <<emm_state, count_ul, k_asme, k_nas, dl_dcch, mme, k_enb, connections>>
  BY DEF send_con_restablish_complete
<1>2. w \in UlMsg /\ w.msg \in Inert /\ w.algo = "none"
  BY PlainMsg, SMTT(30) DEF MsgName, Inert
<1>3. /\ k_nas.key \in Nat /\ k_asme \in Nat /\ count_ul \in Nat /\ connections \in Nat
      /\ reests \in Nat /\ srb1.tx_count \in Nat
      /\ reused = FALSE /\ KeysType /\ IsBearer(srb1)
      /\ Hist(protected, k_nas.key, k_asme, count_ul, srb1) /\ KeyOld(srb1, k_asme, count_ul)
  BY DEF KeysInd, KeysHist, KeysType, IsBearer
<1>4. Hist(protected, k_nas.key, k_asme', count_ul, srb1) /\ KeyOld(srb1, k_asme', count_ul)
  BY <1>1, <1>3
<1>5. /\ reused' = FALSE /\ Hist(protected', k_nas'.key, k_asme', count_ul', srb1')
      /\ KeyOld(srb1', k_asme', count_ul') /\ IsBearer(srb1')
      /\ srb1' = [srb1 EXCEPT !.tx_count = srb1.tx_count + 1]
      /\ ul_dcch' = ul_dcch \o <<w>>
  BY <1>1, <1>3, <1>4, WritePlain, Zenon DEF MsgName, Inert
<1> HIDE DEF w
<1>6. /\ srb1'.active = srb1.active /\ srb1'.tx_count = srb1.tx_count + 1
      /\ srb1'.do_security = srb1.do_security /\ srb1'.key = srb1.key
  BY <1>3, <1>5 DEF IsBearer
<1>7. ~ srb1.do_security => protected' = protected
  BY <1>1, <1>2, WritesNothing
<1>8. \A m : MsgInv(m) => MsgInv(m)'
  <2> SUFFICES ASSUME NEW m, MsgInv(m) PROVE MsgInv(m)'
    OBVIOUS
  <2>1. UNCHANGED <<count_ul, k_asme, k_nas, mme, k_enb, connections>> /\ reests' = reests + 1
    BY <1>1
  <2>2. Fresh(protected, k_asme, count_ul) /\ ~ srb1.do_security => Fresh(protected', k_asme', count_ul')
    BY <1>7, <2>1
  <2>3. /\ srb1.tx_count <= 1 + reests => srb1'.tx_count <= 1 + reests'
        /\ srb1.tx_count <= 2 + reests => srb1'.tx_count <= 2 + reests'
        /\ srb1.tx_count <= 3 + reests => srb1'.tx_count <= 3 + reests'
        /\ srb1.tx_count <= 4 + reests => srb1'.tx_count <= 4 + reests'
    BY <1>3, <1>6, <2>1
  <2>4. srb1'.do_security = srb1.do_security  BY <1>6
  <2>5. /\ count_ul' = count_ul /\ k_asme' = k_asme /\ k_nas' = k_nas /\ mme' = mme
        /\ k_enb' = k_enb /\ connections' = connections
    BY <2>1
  <2> QED  BY <2>2, <2>3, <2>4, <2>5, Zenon DEF MsgInv
<1>9. /\ ul_dcch' \in Seq(UlMsg) /\ Single(ul_dcch') /\ (Quiet(ul_dcch) => Quiet(ul_dcch'))
      /\ \A x : Sent(ul_dcch', x) => Sent(ul_dcch, x)
  BY <1>2, <1>5, SendOne, SMTT(30) DEF KeysInd, OneUnderWay
<1>10. OneUnderWay'
  BY <1>1, <1>6, <1>9, ZenonT(30) DEF KeysInd, OneUnderWay
<1>11. MsgsInv'
  BY <1>1, <1>8, <1>9 DEF KeysInd, MsgsInv
<1>12. KeysType'
  BY <1>1, <1>3, <1>5, SMTT(30) DEF KeysType
<1>13. KeysBounds'
  BY <1>1, <1>3, <1>6, KeysAssumption DEF KeysInd, KeysBounds
<1>14. KeysHist' /\ KeysAgree'
  BY <1>1, <1>5, <1>6, SMTT(30) DEF KeysInd, KeysHist, KeysAgree
<1> QED  BY <1>10, <1>11, <1>12, <1>13, <1>14, SMTT(30) DEF KeysInd

(* The network takes a message that it does not answer. *)
LEMMA ListensOnly ==
  ASSUME KeysInd, network, UNCHANGED <<dl_dcch, k_enb>>, mme'.vectors = mme.vectors,
         mme' = [vectors |-> mme'.vectors, key |-> mme'.key, count |-> mme'.count, attaching |-> mme'.attaching]
  PROVE  KeysInd'
<1>1. /\ ul_dcch # <<>> /\ ul_dcch' = Tail(ul_dcch)
      /\ UNCHANGED <<emm_state, count_ul, k_asme, k_nas, srb1, protected, reused, connections, reests>>
  BY SMTT(30) DEF network, ueKeyVars
<1>2. /\ ul_dcch' \in Seq(UlMsg) /\ Single(ul_dcch') /\ (Quiet(ul_dcch) => Quiet(ul_dcch'))
      /\ \A x : Sent(ul_dcch', x) => Sent(ul_dcch, x)
  BY <1>1, TakeOne, SMTT(30) DEF KeysInd, OneUnderWay
<1>3. srb1.active
  BY <1>1, SMTT(30) DEF KeysInd, OneUnderWay
<1>4. OneUnderWay'
  BY <1>1, <1>2, <1>3, SMTT(30) DEF KeysInd, OneUnderWay
<1>5. \A m : MsgInv(m) => MsgInv(m)'
  BY <1>1, SMTT(30) DEF MsgInv
<1>6. MsgsInv'
  BY <1>2, <1>5, SMTT(30) DEF KeysInd, MsgsInv
<1>7. KeysType' /\ KeysBounds' /\ KeysHist' /\ KeysAgree'
  BY <1>1, SMTT(30) DEF KeysInd, KeysType, KeysBounds, KeysHist, KeysAgree
<1> QED  BY <1>4, <1>6, <1>7, SMTT(30) DEF KeysInd

(* The network answers, with m for the last message of a procedure. *)
LEMMA AnswersOne ==
  ASSUME KeysInd, network, NEW m \in DlMsg, dl_dcch' = Append(dl_dcch, m),
         Head(ul_dcch).msg \notin Inert, MsgInv(m)', KeysAgree',
         mme.vectors <= mme'.vectors, mme'.vectors \in Nat, mme'.vectors <= MaxVectors,
         mme' = [vectors |-> mme'.vectors, key |-> mme'.key, count |-> mme'.count, attaching |-> mme'.attaching]
  PROVE  KeysInd'
<1>1. /\ ul_dcch # <<>> /\ ul_dcch' = Tail(ul_dcch)
      /\ UNCHANGED <<emm_state, count_ul, k_asme, k_nas, srb1, protected, reused, connections, reests>>
  BY SMTT(30) DEF network, ueKeyVars
<1>2. ul_dcch' \in Seq(UlMsg) /\ Quiet(ul_dcch') /\ ~ Quiet(ul_dcch)
  BY <1>1, TakeOne DEF KeysInd, OneUnderWay
<1>3. Single(ul_dcch') /\ \A x : ~ Sent(ul_dcch', x)
  BY <1>2, QuietIsSingle, SMTT(30)
<1>4. srb1.active /\ dl_dcch = <<>>
  BY <1>1, <1>2 DEF KeysInd, OneUnderWay
<1>5. dl_dcch' = <<m>> /\ m.msg \notin Inert
  BY <1>4, SMTT(30) DEF DlMsg
<1>6. OneUnderWay'
  BY <1>1, <1>2, <1>3, <1>4, <1>5, SMTT(30) DEF OneUnderWay
<1>7. MsgsInv'
  <2> SUFFICES ASSUME NEW x, Sent(ul_dcch', x) \/ dl_dcch' = <<x>> PROVE MsgInv(x)'
    BY DEF MsgsInv
  <2>1. x = m
    BY <1>3, <1>5, SMTT(30)
  <2> QED  BY <2>1
<1>8. KeysType' /\ KeysHist'
  BY <1>1 DEF KeysInd, KeysType, KeysHist
<1>9. KeysBounds'
  <2>1. k_asme \in Nat /\ mme.vectors \in Nat
    BY DEF KeysInd, KeysType
  <2> QED  BY <1>1, <2>1 DEF KeysInd, KeysBounds
<1> QED  BY <1>6, <1>7, <1>8, <1>9, SMTT(30) DEF KeysInd

(* The fields of the network's state. *)
MmeForm(m) == m = [vectors |-> m.vectors, key |-> m.key, count |-> m.count, attaching |-> m.attaching]

(* Updates that keep the vectors. *)
LEMMA MmeUpdates ==
  ASSUME NEW m, MmeForm(m), NEW a, NEW z,
         z = [m EXCEPT !.attaching = a] \/ z = [m EXCEPT !.count = a]
  PROVE  MmeForm(z) /\ z.vectors = m.vectors
BY DEF MmeForm

(* The next vector. *)
LEMMA MmeVectors ==
  ASSUME NEW m, MmeForm(m), NEW a, NEW z, z = [m EXCEPT !.vectors = a]
  PROVE  MmeForm(z) /\ z.vectors = a
BY DEF MmeForm

(* The network's answers, one by one. *)
LEMMA NetworkKeepsInd ==
  ASSUME KeysInd, network
  PROVE  KeysInd'
<1>1. /\ ul_dcch # <<>> /\ Serves(Head(ul_dcch))
      /\ UNCHANGED <<emm_state, count_ul, k_asme, k_nas, srb1, protected, reused, connections, reests>>
  BY DEF network, ueKeyVars
<1>2. PICK h : h = Head(ul_dcch)
  OBVIOUS
<1>3. h \in UlMsg /\ (h.msg \notin Inert => MsgInv(h))
  BY <1>1, <1>2, TakeOne, Zenon DEF KeysInd, OneUnderWay, MsgsInv
<1>4. MmeForm(mme) /\ mme.vectors \in Nat /\ k_asme \in Nat /\ k_nas.key \in Nat /\ k_asme <= mme.vectors
      /\ mme.vectors <= MaxVectors /\ MaxVectors \in Nat
  BY KeysAssumption DEF KeysInd, KeysType, KeysBounds, MmeForm
<1>5. ASSUME NEW m \in DlMsg, dl_dcch' = Append(dl_dcch, m), h.msg \notin Inert, MsgInv(m)', KeysAgree',
             mme'.vectors = mme.vectors, MmeForm(mme')
      PROVE  KeysInd'
  BY <1>2, <1>4, <1>5, AnswersOne, SMTT(30) DEF MmeForm
<1>6. ASSUME NEW x, MmeForm(x), x.vectors = mme.vectors, Authenticates(x),
             h.msg \in {"attach_request", "service_request"}
      PROVE  KeysInd'
  <2> DEFINE m == [msg |-> "authentication_request", key |-> mme.vectors + 1, algo |-> "none"]
  <2>1. dl_dcch' = Append(dl_dcch, m) /\ mme' = [x EXCEPT !.vectors = mme.vectors + 1] /\ k_enb' = k_enb
        /\ mme.vectors < MaxVectors
    BY <1>6 DEF Authenticates, Answers
  <2>2. MmeForm(mme') /\ mme'.vectors = mme.vectors + 1
    BY <2>1, <1>6, MmeVectors
  <2>3. PICK n : n = m
    OBVIOUS
  <2>4. n \in DlMsg /\ n.msg = "authentication_request" /\ n.key = mme.vectors + 1 /\ dl_dcch' = Append(dl_dcch, n)
    BY <2>1, <2>3, <1>4 DEF DlMsg, MsgName, Algo, Inert
  <2> HIDE DEF m
  <2>5. MsgInv(h) /\ h.msg \notin Inert
    BY <1>3, <1>6 DEF Inert
  <2>6. ~ srb1.do_security /\ srb1.tx_count <= 1 + reests /\ count_ul < 2 * connections
    BY <2>5, <1>6 DEF MsgInv
  <2>7. MsgInv(n)'
    BY <2>2, <2>4, <2>6, <1>1, <1>4 DEF MsgInv
  <2>8. KeysAgree'
    BY <2>6, <1>1 DEF KeysAgree
  <2>9. mme.vectors <= mme'.vectors /\ mme'.vectors \in Nat /\ mme'.vectors <= MaxVectors
    BY <2>1, <2>2, <1>4
  <2> QED  BY <2>2, <2>4, <2>5, <2>7, <2>8, <2>9, <1>2, AnswersOne DEF MmeForm
<1>7. CASE h.msg = "attach_request" /\ Authenticates([mme EXCEPT !.attaching = TRUE])
  <2>1. PICK x : x = [mme EXCEPT !.attaching = TRUE]
    OBVIOUS
  <2>2. MmeForm(x) /\ x.vectors = mme.vectors
    BY <2>1, <1>4, MmeUpdates
  <2> QED  BY <1>7, <2>1, <2>2, <1>6, Zenon
<1>8. CASE h.msg = "attach_request" /\ Answers("reject", 0, "none") /\ UNCHANGED <<mme, k_enb>>
  <2>1. PICK n : n = [msg |-> "reject", key |-> 0, algo |-> "none"]
    OBVIOUS
  <2>2. n \in DlMsg /\ n.msg = "reject" /\ dl_dcch' = Append(dl_dcch, n)
    BY <2>1, <1>8 DEF DlMsg, MsgName, Algo, Inert, Answers
  <2>3. h.msg \notin Inert /\ count_ul < 2 * connections
    BY <1>3, <1>8 DEF Inert, MsgInv
  <2>4. MsgInv(n)'
    BY <2>2, <2>3, <1>1 DEF MsgInv
  <2>5. KeysAgree'
    BY <1>1, <1>8 DEF KeysInd, KeysAgree
  <2> QED  BY <2>2, <2>3, <2>4, <2>5, <1>4, <1>5, <1>8
<1>9. CASE /\ h.msg = "authentication_response" /\ UNCHANGED <<mme, k_enb>>
           /\ \E a \in Eias : Answers("security_mode_command", mme.vectors, a)
  <2>1. PICK a \in Eias : Answers("security_mode_command", mme.vectors, a)
    BY <1>9
  <2>2. PICK n : n = [msg |-> "security_mode_command", key |-> mme.vectors, algo |-> a]
    OBVIOUS
  <2>3. a \in Algo
    BY KeysAssumption DEF Algo
  <2>4. n \in DlMsg /\ n.msg = "security_mode_command" /\ dl_dcch' = Append(dl_dcch, n)
    BY <2>1, <2>2, <2>3, <1>4 DEF DlMsg, MsgName, Inert, Answers
  <2>5. h.msg \notin Inert
    BY <1>9 DEF Inert
  <2>6. MsgInv(n)'
    BY <2>4, <2>5, <1>1, <1>3, <1>9 DEF MsgInv
  <2>7. KeysAgree'
    BY <1>1, <1>9, SMTT(30) DEF KeysInd, KeysAgree
  <2> QED  BY <2>4, <2>5, <2>6, <2>7, <1>4, <1>5, <1>9
<1>10. ASSUME h.msg \in {"security_mode_complete", "service_request"}, k_enb' = <<h.key, h.count>>,
              Answers("rrc_security_mode_command", 0, "none"), MmeForm(mme'), mme'.vectors = mme.vectors
       PROVE  KeysInd'
  <2>1. PICK n : n = [msg |-> "rrc_security_mode_command", key |-> 0, algo |-> "none"]
    OBVIOUS
  <2>2. n \in DlMsg /\ n.msg = "rrc_security_mode_command" /\ dl_dcch' = Append(dl_dcch, n)
    BY <2>1, <1>10 DEF DlMsg, MsgName, Algo, Inert, Answers
  <2>3. h.msg \notin Inert /\ MsgInv(h)
    BY <1>3, <1>10 DEF Inert
  <2>4. /\ Fresh(protected, k_asme, count_ul) /\ h.key = k_nas.key /\ h.count = count_ul
        /\ ~ srb1.do_security /\ srb1.tx_count <= 3 + reests /\ count_ul < 2 * connections
    <3>1. srb1.tx_count \in Nat /\ reests \in Nat
      BY DEF KeysInd, KeysType, IsBearer
    <3> QED  BY <2>3, <3>1, <1>10 DEF MsgInv
  <2>5. MsgInv(n)'
    BY <2>2, <2>4, <1>1, <1>10, SMTT(30) DEF MsgInv
  <2>6. KeysAgree'
    BY <2>4, <1>1 DEF KeysAgree
  <2> QED  BY <2>2, <2>3, <2>5, <2>6, <1>5, <1>10
<1>11. CASE /\ h.msg = "security_mode_complete"
            /\ mme' = [mme EXCEPT !.key = h.key, !.count = h.count] /\ k_enb' = <<h.key, h.count>>
            /\ Answers("rrc_security_mode_command", 0, "none")
  <2>1. MmeForm(mme') /\ mme'.vectors = mme.vectors
    BY <1>4, <1>11, Zenon DEF MmeForm
  <2> QED  BY <2>1, <1>10, <1>11
<1>12. CASE h.msg = "service_request" /\ h.key = mme.key /\ Accepts_service(h)
  <2>1. mme' = [mme EXCEPT !.count = h.count] /\ k_enb' = <<h.key, h.count>>
        /\ Answers("rrc_security_mode_command", 0, "none")
    BY <1>12 DEF Accepts_service
  <2>2. MmeForm(mme') /\ mme'.vectors = mme.vectors
    BY <2>1, <1>4, MmeUpdates
  <2> QED  BY <2>1, <2>2, <1>10, <1>12
<1>13. CASE h.msg = "service_request" /\ Authenticates([mme EXCEPT !.count = h.count, !.attaching = FALSE])
  <2>1. PICK x : x = [mme EXCEPT !.count = h.count, !.attaching = FALSE]
    OBVIOUS
  <2>2. MmeForm(x) /\ x.vectors = mme.vectors
    BY <2>1, <1>4, Zenon DEF MmeForm
  <2> QED  BY <1>13, <2>1, <2>2, <1>6, Zenon
<1>14. CASE h.msg = "service_request" /\ Answers("service_reject", 0, "none") /\ UNCHANGED <<mme, k_enb>>
  <2>1. PICK n : n = [msg |-> "service_reject", key |-> 0, algo |-> "none"]
    OBVIOUS
  <2>2. n \in DlMsg /\ n.msg = "service_reject" /\ dl_dcch' = Append(dl_dcch, n)
    BY <2>1, <1>14 DEF DlMsg, MsgName, Algo, Inert, Answers
  <2>3. h.msg \notin Inert /\ count_ul < 2 * connections
    BY <1>3, <1>14 DEF Inert, MsgInv
  <2>4. MsgInv(n)'
    BY <2>2, <2>3, <1>1 DEF MsgInv
  <2>5. KeysAgree'
    BY <1>1, <1>14, SMTT(30) DEF KeysInd, KeysAgree
  <2> QED  BY <2>2, <2>3, <2>4, <2>5, <1>4, <1>5, <1>14
<1>15. CASE /\ h.msg = "rrc_security_mode_complete" /\ mme' = [mme EXCEPT !.attaching = FALSE] /\ UNCHANGED k_enb
            /\ \E c \in IF mme.attaching THEN {"accept", "combined", "ipv6"} ELSE {"nothing"} :
                 Answers("con_reconfig", 0, c)
  <2>1. PICK c \in Algo : Answers("con_reconfig", 0, c)
    BY <1>15 DEF Algo
  <2>2. PICK n : n = [msg |-> "con_reconfig", key |-> 0, algo |-> c]
    OBVIOUS
  <2>3. n \in DlMsg /\ n.msg = "con_reconfig" /\ dl_dcch' = Append(dl_dcch, n)
    BY <2>1, <2>2 DEF DlMsg, MsgName, Inert, Answers
  <2>4. MmeForm(mme') /\ mme'.vectors = mme.vectors
    BY <1>4, <1>15, MmeUpdates
  <2>5. h.msg \notin Inert
    BY <1>15 DEF Inert
  <2>6. MsgInv(n)'
    BY <2>3, <2>5, <1>1, <1>3, <1>15 DEF MsgInv
  <2>7. KeysAgree'
    BY <1>1, <1>15 DEF KeysInd, KeysAgree
  <2> QED  BY <2>3, <2>4, <2>5, <2>6, <2>7, <1>5
<1>16. CASE mme' = [mme EXCEPT !.count = h.count] /\ UNCHANGED <<dl_dcch, k_enb>>
  <2>1. MmeForm(mme') /\ mme'.vectors = mme.vectors
    BY <1>4, <1>16, MmeUpdates
  <2> QED  BY <2>1, <1>16, ListensOnly DEF MmeForm
<1>17. CASE UNCHANGED <<dl_dcch, mme, k_enb>>
  BY <1>4, <1>17, ListensOnly DEF MmeForm
<1>18. Serves(h)
  BY <1>1, <1>2
<1> QED  BY <1>7, <1>8, <1>9, <1>11, <1>12, <1>13, <1>14, <1>15, <1>16, <1>17, <1>18, SMTT(30) DEF Serves, Valid

(* The inductive invariant holds at first, *)
LEMMA KeysInitInd == KeysInit => KeysInd
<1> SUFFICES ASSUME KeysInit PROVE KeysInd
  OBVIOUS
<1>1. /\ srb1.active = FALSE /\ srb1.do_security = FALSE /\ srb1.tx_count = 0 /\ k_nas.key = 0
      /\ mme.vectors = 0 /\ k_asme = 0 /\ count_ul = 0 /\ connections = 0 /\ reests = 0
  BY SMTT(30) DEF KeysInit, NoBearer
<1>2. IsBearer(srb1)
  BY SMTT(30) DEF KeysInit, NoBearer, IsBearer
<1>3. KeysType
  BY <1>2 DEF KeysInit, KeysType, Algo
<1>4. <<>> \in Seq(UlMsg) /\ Quiet(<<>>) /\ \A x : <<>> # <<x>>
  BY SMTT(30) DEF Quiet
<1>5. OneUnderWay /\ MsgsInv
  BY <1>4, QuietIsSingle DEF KeysInit, OneUnderWay, MsgsInv
<1>6. KeysBounds
  BY <1>1, KeysAssumption, SMTT(30) DEF KeysBounds
<1>7. KeysHist /\ KeysAgree
  BY <1>1 DEF KeysInit, KeysHist, KeysAgree, Hist, KeyOld
<1> QED  BY <1>3, <1>5, <1>6, <1>7, SMTT(30) DEF KeysInd

(* is kept by each step, *)
LEMMA KeysStep == KeysInd /\ [KeysNext]_keyVars => KeysInd'
<1>1. ASSUME KeysInd, KeysNext PROVE KeysInd'
  BY <1>1, SetupKeepsInd, ReestKeepsInd, ResetKeepsInd, AuthenticationKeepsInd, SecurityModeKeepsInd,
     RrcSecurityKeepsInd, ReconfigKeepsInd, RejectKeepsInd, NetworkKeepsInd, SMTT(30) DEF KeysNext
<1>2. ASSUME KeysInd, UNCHANGED keyVars PROVE KeysInd'
  <2>1. \A m : MsgInv(m) => MsgInv(m)'
    BY <1>2 DEF keyVars, ueKeyVars, MsgInv
  <2> QED  BY <1>2, <2>1, SMTT(30) DEF keyVars, ueKeyVars, KeysInd, KeysType, OneUnderWay, MsgsInv, KeysBounds,
                            KeysHist, KeysAgree
<1> QED  BY <1>1, <1>2

(* and so holds always. *)
LEMMA KeysIndInvariant == KeysSpec => []KeysInd
BY KeysInitInd, KeysStep, PTL DEF KeysSpec

(* For any number of connections, vectors and re-establishments, and       *)
(* wherever connections end, NAS and PDCP never protect two messages with  *)
(* the same key and count: the count of send_service_request() and         *)
(* parse_attach_accept() goes on, and generate_as_keys() gives PDCP a key  *)
(* that it never had.                                                      *)
THEOREM CountsStayFresh == KeysSpec => []CountsFresh
<1>1. KeysInd => CountsFresh
  BY DEF KeysInd, KeysHist, CountsFresh
<1> QED  BY <1>1, KeysIndInvariant, PTL

(* For the same, the key that generate_as_keys() derives for SRB1 is the   *)
(* one that the base station has, as long as the last authentication was   *)
(* followed by its security mode command.                                  *)
THEOREM SrbKeysAgree == KeysSpec => []KeysAgree
<1>1. KeysInd => KeysAgree
  BY DEF KeysInd
<1> QED  BY <1>1, KeysIndInvariant, PTL

(* The registration state, counts and keys keep their types and bounds: no *)
(* procedure writes more than six messages on SRB1 besides re-             *)
(* establishments.                                                         *)
THEOREM KeysTypesCorrect == KeysSpec => []KeysTypeOK
<1>1. KeysInd => KeysTypeOK
  <2> SUFFICES ASSUME KeysInd PROVE KeysTypeOK
    OBVIOUS
  <2>1. /\ emm_state \in {"DEREGISTERED", "REGISTERED"}
        /\ count_ul \in Nat /\ k_asme \in Nat /\ k_nas.key \in Nat /\ srb1.tx_count \in Nat
        /\ mme.vectors \in Nat /\ reests \in Nat /\ connections \in Nat
    BY DEF KeysInd, KeysType, IsBearer
  <2>2. /\ count_ul \in 0 .. 2 * MaxConnections /\ {k_asme, k_nas.key} \subseteq 0 .. MaxVectors
        /\ srb1.tx_count \in 0 .. MaxSrbCount
    BY <2>1, KeysAssumption DEF KeysInd, KeysBounds, MaxSrbCount
  <2>3. srb1.active \in BOOLEAN /\ srb1.do_security \in BOOLEAN /\ reused \in BOOLEAN
    BY Zenon DEF KeysInd, KeysType, IsBearer, KeysHist
  <2> QED  BY <2>1, <2>2, <2>3, Zenon DEF KeysTypeOK
<1> QED  BY <1>1, KeysIndInvariant, PTL
=============================================================================
