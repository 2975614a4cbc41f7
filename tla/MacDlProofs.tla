---------------------------- MODULE MacDlProofs ----------------------------
(***************************************************************************)
(* The rings of pdu_queue.cc stay in order, the HARQ processes of          *)
(* dl_harq.cc use them as PduQueue describes, acknowledge what they have   *)
(* decoded and lose none of it, for every number of processes, slots,      *)
(* block sizes and RNTIs.                                                  *)
(***************************************************************************)
EXTENDS MacDl, SequenceTheorems, TLAPS

(* Arithmetic on places of a ring and of a queue. *)
LEMMA Places ==
  /\ ~ (0 > 0)
  /\ \A n \in Nat : (n + 1) - 1 = n
  /\ \A N \in Nat : \A n \in 0 .. N : \A k \in 1 .. n : k - 1 \in 0 .. N
OBVIOUS

(* A reset and the PDU thread shorten what is owed. *)
LEMMA PartOfSeq ==
  ASSUME NEW S, NEW s \in Seq(S)
  PROVE  SubSeq(s, 1, Len(s) - 1) \in Seq(S) /\ SubSeq(s, 2, Len(s)) \in Seq(S)
<1>1. Len(s) \in Nat /\ \A i \in 1 .. Len(s) : s[i] \in S  BY LenProperties, ElementOfSeq
<1>2. \A i \in 1 .. Len(s) - 1 : s[i] \in S
  <2>1. \A i \in 1 .. Len(s) - 1 : i \in 1 .. Len(s)  BY <1>1
  <2> QED  BY <1>1, <2>1
<1>3. \A i \in 2 .. Len(s) : s[i] \in S
  <2>1. \A i \in 2 .. Len(s) : i \in 1 .. Len(s)  BY <1>1
  <2> QED  BY <1>1, <2>1
<1>4. SubSeq(s, 2, Len(s)) \in Seq(S)
  <2>1. 2 \in 1 .. Len(s) + 1 \/ Len(s) = 0  BY <1>1
  <2> QED  BY <1>1, <1>3, <2>1, SubSeqProperties
<1>5. SubSeq(s, 1, Len(s) - 1) \in Seq(S)  BY <1>1, <1>2, SubSeqProperties
<1> QED  BY <1>4, <1>5

(* A reset drops the last block that is owed. *)
LEMMA FrontOfSeq ==
  ASSUME NEW s \in Seq(Block), NEW n \in Nat, Len(s) = n + 1
  PROVE  /\ SubSeq(s, 1, n) \in Seq(Block) /\ Len(SubSeq(s, 1, n)) = n
         /\ \A k \in 1 .. n : SubSeq(s, 1, n)[k] = s[k] /\ k \in 1 .. Len(s) /\ s[k] \in Block
<1>1. \A k \in 1 .. n : s[k] \in Block /\ k \in 1 .. Len(s)
  BY ElementOfSeq
<1>2. /\ SubSeq(s, 1, n) \in Seq(Block)
      /\ Len(SubSeq(s, 1, n)) = IF 1 <= n THEN n - 1 + 1 ELSE 0
      /\ \A k \in 1 .. n - 1 + 1 : SubSeq(s, 1, n)[k] = s[1 + k - 1]
  BY <1>1, SubSeqProperties
<1> QED  BY <1>1, <1>2

(* A block that is decoded is owed last. *)
LEMMA LongerSeq ==
  ASSUME NEW s \in Seq(Block), NEW x \in Block
  PROVE  /\ Len(Append(s, x)) = Len(s) + 1 /\ Append(s, x)[Len(s) + 1] = x
         /\ \A k \in 1 .. Len(s) : Append(s, x)[k] = s[k]
  BY AppendProperties

(* The number of the next block. *)
LEMMA NextBlock == \A b \in Int : (b + 1) % NofBlocks \in Int
  BY BlockAssumption, SMT

(* A Msg4 is for a Temporal C-RNTI. *)
LEMMA Msg4Form ==
  ASSUME NEW p, NEW g \in Msg4(p)
  PROVE  \E d \in TempNdi, n \in Size, t \in TempRnti :
           g = [b |-> (tx[p].b + 1) % NofBlocks, ndi |-> d, size |-> n, rnti |-> t]
  BY DEF Msg4

(* The types of what the rings' order depends on. *)
RingType ==
  /\ valid \in [Pid -> [Slot -> BOOLEAN]]
  /\ wp \in [Pid -> Slot] /\ rp \in [Pid -> Slot]
  /\ worker \in [Pid -> {"idle", "decode", "tb_decoded", "notify", "feedback"}]
  /\ idx \in Pid

(* A worker that has a buffer: nobody else fills its ring, so the slot     *)
(* stays free until it pushes.                                             *)
BufferIsFree ==
  \A p \in Pid : worker[p] \in {"decode", "tb_decoded"} => ~ valid[p][wp[p]]

RingInd == RingType /\ RingInv /\ BufferIsFree

(* The position d slots behind r, and the distance from r up to s. *)
Ahead(r, d) == (r + d) % NofBuf
Behind(s, r) == (s - r) % NofBuf

(* Both without the remainder. *)
LEMMA RingArithmetic ==
  ASSUME NEW r \in Slot, NEW s \in Slot, NEW d \in 0 .. NofBuf
  PROVE  /\ Ahead(r, d) = IF r + d < NofBuf THEN r + d ELSE r + d - NofBuf
         /\ Behind(s, r) = IF r <= s THEN s - r ELSE s - r + NofBuf
         /\ Ahead(r, d) \in Slot /\ Behind(s, r) \in Slot
         /\ next(s) = IF s + 1 = NofBuf THEN 0 ELSE s + 1
         /\ next(s) \in Slot
<1>1. NofBuf \in Nat /\ 0 < NofBuf  BY QueueAssumption
<1>2. /\ 0 <= r + d /\ r + d < NofBuf => (r + d) % NofBuf = r + d
      /\ NofBuf <= r + d /\ r + d < 2 * NofBuf => (r + d) % NofBuf = r + d - NofBuf
  BY <1>1, SMT DEF Slot
<1>3. /\ 0 <= s - r /\ s - r < NofBuf => (s - r) % NofBuf = s - r
      /\ -NofBuf <= s - r /\ s - r < 0 => (s - r) % NofBuf = s - r + NofBuf
  BY <1>1, SMT DEF Slot
<1>4. Ahead(r, d) = IF r + d < NofBuf THEN r + d ELSE r + d - NofBuf
  BY <1>1, <1>2 DEF Ahead, Slot
<1>5. Behind(s, r) = IF r <= s THEN s - r ELSE s - r + NofBuf
  BY <1>1, <1>3 DEF Behind, Slot
<1>6. /\ next(s) = IF s + 1 = NofBuf THEN 0 ELSE s + 1
      /\ next(s) \in Slot
  BY <1>1 DEF next, Slot
<1> HIDE DEF Ahead, Behind, next
<1> QED  BY <1>1, <1>4, <1>5, <1>6 DEF Slot

(* The slot behind n messages is free unless they fill the ring. *)
LEMMA WriteSlot ==
  ASSUME NEW p \in Pid, NEW n \in 0 .. NofBuf, RingType, Holds(p, n)
  PROVE  valid[p][wp[p]] <=> n = NofBuf
<1>1. rp[p] \in Slot /\ wp[p] \in Slot /\ NofBuf \in Nat /\ 0 < NofBuf
  BY QueueAssumption DEF RingType
<1>2. wp[p] = Ahead(rp[p], n) /\ (valid[p][wp[p]] <=> Behind(wp[p], rp[p]) < n)
  BY <1>1 DEF Holds, Ahead, Behind
<1>3. /\ Ahead(rp[p], n) = IF rp[p] + n < NofBuf THEN rp[p] + n ELSE rp[p] + n - NofBuf
      /\ Behind(wp[p], rp[p]) = IF rp[p] <= wp[p] THEN wp[p] - rp[p]
                                ELSE wp[p] - rp[p] + NofBuf
  BY <1>1, RingArithmetic, SMTT(30)
<1> QED  BY <1>1, <1>2, <1>3 DEF Slot

(* push() adds a message behind the last. *)
LEMMA PushHolds ==
  ASSUME NEW p \in Pid, NEW n \in 0 .. NofBuf, RingType, Holds(p, n),
         ~ valid[p][wp[p]], push(p), UNCHANGED rp
  PROVE  n + 1 \in 0 .. NofBuf /\ Holds(p, n + 1)'
<1> DEFINE r == rp[p]
           w == wp[p]
<1>1. r \in Slot /\ w \in Slot /\ NofBuf \in Nat /\ 0 < NofBuf
  BY QueueAssumption DEF RingType
<1>2. n < NofBuf  BY <1>1, WriteSlot
<1>3. /\ w = Ahead(r, n)
      /\ \A s \in Slot : valid[p][s] <=> Behind(s, r) < n
  BY DEF Holds, Ahead, Behind
<1>4. /\ rp'[p] = r /\ wp'[p] = next(w)
      /\ \A s \in Slot : valid'[p][s] <=> (s = w \/ valid[p][s])
  BY <1>1 DEF push, RingType
<1> HIDE DEF r, w
<1>5. /\ Ahead(r, n) = IF r + n < NofBuf THEN r + n ELSE r + n - NofBuf
      /\ next(w) = IF w + 1 = NofBuf THEN 0 ELSE w + 1
  BY <1>1, RingArithmetic
<1>6. n + 1 \in 0 .. NofBuf  BY <1>1, <1>2
<1>7. Ahead(r, n + 1) = IF r + (n + 1) < NofBuf THEN r + (n + 1) ELSE r + (n + 1) - NofBuf
  BY <1>1, <1>6, RingArithmetic, SMTT(30)
<1>8. next(w) = Ahead(r, n + 1)  BY <1>1, <1>2, <1>3, <1>5, <1>7 DEF Slot
<1>9. ASSUME NEW s \in Slot PROVE (s = w \/ Behind(s, r) < n) <=> Behind(s, r) < n + 1
  <2>1. /\ Behind(s, r) = IF r <= s THEN s - r ELSE s - r + NofBuf
        /\ Behind(s, r) \in Slot
    BY <1>1, RingArithmetic
  <2> QED  BY <2>1, <1>1, <1>2, <1>3, <1>5 DEF Slot
<1>10. \A s \in Slot : valid'[p][s] <=> Behind(s, r) < n + 1  BY <1>3, <1>4, <1>9
<1> QED  BY <1>4, <1>6, <1>8, <1>10 DEF Holds, Ahead, Behind

(* release() takes the oldest message away. *)
LEMMA ReleaseHolds ==
  ASSUME NEW p \in Pid, NEW n \in 0 .. NofBuf, RingType, Holds(p, n),
         valid[p][rp[p]], valid' = [valid EXCEPT ![p][rp[p]] = FALSE],
         rp' = [rp EXCEPT ![p] = next(rp[p])], UNCHANGED wp
  PROVE  n - 1 \in 0 .. NofBuf /\ Holds(p, n - 1)'
<1> DEFINE r == rp[p]
           w == wp[p]
<1>1. r \in Slot /\ w \in Slot /\ NofBuf \in Nat /\ 0 < NofBuf
  BY QueueAssumption DEF RingType
<1>2. /\ w = Ahead(r, n)
      /\ \A s \in Slot : valid[p][s] <=> Behind(s, r) < n
  BY DEF Holds, Ahead, Behind
<1>3. /\ rp'[p] = next(r) /\ wp'[p] = w
      /\ \A s \in Slot : valid'[p][s] <=> (s # r /\ valid[p][s])
  BY <1>1 DEF RingType
<1> HIDE DEF r, w
<1>4. Behind(r, r) = 0  BY <1>1, RingArithmetic DEF Slot
<1>5. 0 < n /\ n - 1 \in 0 .. NofBuf
  <2>1. Behind(r, r) < n  BY <1>1, <1>2 DEF r
  <2> QED  BY <2>1, <1>1, <1>4
<1>6. /\ Ahead(r, n) = IF r + n < NofBuf THEN r + n ELSE r + n - NofBuf
      /\ next(r) = IF r + 1 = NofBuf THEN 0 ELSE r + 1
      /\ next(r) \in Slot
  BY <1>1, RingArithmetic
<1>7. Ahead(next(r), n - 1) = IF next(r) + (n - 1) < NofBuf THEN next(r) + (n - 1)
                              ELSE next(r) + (n - 1) - NofBuf
  BY <1>1, <1>5, <1>6, RingArithmetic
<1>8. w = Ahead(next(r), n - 1)  BY <1>1, <1>2, <1>5, <1>6, <1>7 DEF Slot
<1>9. ASSUME NEW s \in Slot
      PROVE  (s # r /\ Behind(s, r) < n) <=> Behind(s, next(r)) < n - 1
  <2>1. /\ Behind(s, r) = IF r <= s THEN s - r ELSE s - r + NofBuf
        /\ Behind(s, next(r)) = IF next(r) <= s THEN s - next(r) ELSE s - next(r) + NofBuf
    BY <1>1, <1>6, RingArithmetic
  <2> QED  BY <2>1, <1>1, <1>5, <1>6 DEF Slot
<1>10. \A s \in Slot : valid'[p][s] <=> Behind(s, next(r)) < n - 1  BY <1>2, <1>3, <1>9
<1> QED  BY <1>3, <1>5, <1>8, <1>10 DEF Holds, Ahead, Behind

(* A step that leaves the rings alone keeps their order. *)
LEMMA SameRings ==
  ASSUME RingInv, UNCHANGED <<valid, wp, rp>>, pc' = "process" => valid[idx'][rp[idx']]
  PROVE  RingInv'
<1>1. \A p \in Pid, n \in 0 .. NofBuf : Holds(p, n) => Holds(p, n)'  BY DEF Holds
<1> QED  BY <1>1 DEF RingInv

(* One ring moves from n messages to m, the others stay. *)
LEMMA OneRingMoves ==
  ASSUME RingInv, NEW p \in Pid, NEW m \in 0 .. NofBuf, Holds(p, m)',
         \A q \in Pid \ {p} : valid'[q] = valid[q] /\ wp'[q] = wp[q] /\ rp'[q] = rp[q],
         pc' = "process" => valid'[idx'][rp'[idx']]
  PROVE  RingInv'
<1>1. ASSUME NEW q \in Pid PROVE \E n \in 0 .. NofBuf : Holds(q, n)'
  <2>1. CASE q = p  BY <2>1
  <2>2. CASE q # p
    <3>1. PICK n \in 0 .. NofBuf : Holds(q, n)  BY DEF RingInv
    <3>2. Holds(q, n)'  BY <2>2, <3>1 DEF Holds
    <3> QED  BY <3>2
  <2> QED  BY <2>1, <2>2
<1> QED  BY <1>1 DEF RingInv

(* The PDU thread. *)
LEMMA ThreadKeepsRings ==
  ASSUME RingInd, ThreadStep
  PROVE  RingInd'
<1>1. CASE pop
  <2>1. UNCHANGED <<valid, wp, rp, worker>>
    BY <1>1 DEF pop, ringVars, ThreadStep
  <2>2. idx' \in Pid
    BY <1>1, QueueAssumption DEF pop, RingInd, RingType, Pid
  <2>3. pc' = "process" => valid[idx'][rp[idx']]  BY <1>1 DEF pop
  <2>4. RingInv'  BY <2>1, <2>3, SameRings DEF RingInd
  <2> QED  BY <2>1, <2>2, <2>4 DEF RingInd, RingType, BufferIsFree
<1>2. CASE process_pdu
  <2>1. /\ valid' = [valid EXCEPT ![idx][rp[idx]] = FALSE]
        /\ rp' = [rp EXCEPT ![idx] = next(rp[idx])]
        /\ UNCHANGED <<wp, idx, worker>> /\ pc' = "pop"
    BY <1>2 DEF process_pdu, ThreadStep
  <2>2. idx \in Pid /\ rp[idx] \in Slot /\ valid[idx][rp[idx]]
    BY <1>2 DEF RingInd, RingType, RingInv, process_pdu
  <2>3. next(rp[idx]) \in Slot
    <3>1. 0 \in 0 .. NofBuf  BY QueueAssumption
    <3> QED  BY <2>2, <3>1, RingArithmetic
  <2>4. RingType'  BY <2>1, <2>2, <2>3 DEF RingInd, RingType
  <2>5. PICK n \in 0 .. NofBuf : Holds(idx, n)  BY <2>2 DEF RingInd, RingInv
  <2>6. n - 1 \in 0 .. NofBuf /\ Holds(idx, n - 1)'
    <3>1. RingType  BY DEF RingInd
    <3> QED  BY <2>1, <2>2, <2>5, <3>1, ReleaseHolds, Zenon
  <2>7. \A q \in Pid \ {idx} : valid'[q] = valid[q] /\ wp'[q] = wp[q] /\ rp'[q] = rp[q]
    BY <2>1 DEF RingInd, RingType
  <2>8. RingInv'  BY <2>1, <2>2, <2>6, <2>7, OneRingMoves DEF RingInd
  <2>9. \A q \in Pid : valid'[q][wp[q]] => valid[q][wp[q]]
    BY <2>1, <2>2 DEF RingInd, RingType
  <2>10. BufferIsFree'  BY <2>1, <2>9 DEF RingInd, BufferIsFree
  <2> QED  BY <2>4, <2>8, <2>10 DEF RingInd
<1>3. CASE assign_have_data \/ wait_data
  <2>1. UNCHANGED <<valid, wp, rp, worker, idx>> /\ pc' # "process"
    BY <1>3 DEF assign_have_data, wait_data, ringVars, ThreadStep
  <2>2. RingInv'  BY <2>1, SameRings DEF RingInd
  <2> QED  BY <2>1, <2>2 DEF RingInd, RingType, BufferIsFree
<1> QED  BY <1>1, <1>2, <1>3 DEF ThreadStep, PduThread

(* A worker's steps other than push(). *)
LEMMA WorkerKeepsRings ==
  ASSUME RingInd, NEW p \in Pid, UNCHANGED <<valid, wp, rp, threadVars>>,
         NEW to \in {"idle", "decode", "tb_decoded", "notify", "feedback"},
         worker' = [worker EXCEPT ![p] = to],
         to \in {"decode", "tb_decoded"} => ~ valid[p][wp[p]]
  PROVE  RingInd'
<1>1. RingType'  BY DEF RingInd, RingType, threadVars
<1>2. RingInv'  BY SameRings DEF RingInd, RingInv, threadVars
<1>3. BufferIsFree'  BY DEF RingInd, RingType, BufferIsFree
<1> QED  BY <1>1, <1>2, <1>3 DEF RingInd

(* push_pdu(). *)
LEMMA PushKeepsRings ==
  ASSUME RingInd, NEW p \in Pid, PushBuffer(p)
  PROVE  RingInd'
<1>1. /\ push(p) /\ UNCHANGED <<rp, pc, idx>>
      /\ worker[p] = "tb_decoded" /\ worker' = [worker EXCEPT ![p] = "notify"]
  BY DEF PushBuffer, WorkerGoes, threadVars
<1>2. RingType /\ wp[p] \in Slot /\ ~ valid[p][wp[p]]
  BY <1>1 DEF RingInd, RingType, BufferIsFree
<1>3. next(wp[p]) \in Slot
  <2>1. 0 \in 0 .. NofBuf  BY QueueAssumption
  <2> QED  BY <1>2, <2>1, RingArithmetic
<1>4. RingType'  BY <1>1, <1>2, <1>3 DEF RingType, push
<1>5. PICK n \in 0 .. NofBuf : Holds(p, n)  BY DEF RingInd, RingInv
<1>6. n + 1 \in 0 .. NofBuf /\ Holds(p, n + 1)'  BY <1>1, <1>2, <1>5, PushHolds
<1>7. \A q \in Pid \ {p} : valid'[q] = valid[q] /\ wp'[q] = wp[q] /\ rp'[q] = rp[q]
  BY <1>1, <1>2 DEF RingType, push
<1>8. \A q \in Pid, s \in Slot : valid[q][s] => valid'[q][s]
  BY <1>1, <1>2 DEF RingType, push
<1>9. pc' = "process" => valid'[idx'][rp'[idx']]
  BY <1>1, <1>2, <1>8 DEF RingInd, RingType, RingInv
<1>10. RingInv'  BY <1>6, <1>7, <1>9, OneRingMoves DEF RingInd
<1>11. BufferIsFree'  BY <1>1, <1>2, <1>7 DEF RingInd, RingType, BufferIsFree
<1> QED  BY <1>4, <1>10, <1>11 DEF RingInd

(* Every step of the workers and of the thread. *)
LEMMA QueueStepKeepsRings ==
  ASSUME RingInd, [QueueNext]_queueVars
  PROVE  RingInd'
<1>1. ASSUME NEW p \in Pid, RequestBuffer(p) PROVE RingInd'
  <2>1. /\ UNCHANGED <<valid, wp, rp, threadVars>> /\ ~ valid[p][wp[p]]
        /\ worker' = [worker EXCEPT ![p] = "decode"]
    BY <1>1 DEF RequestBuffer, WorkerGoes, request, isfull, ringVars
  <2> QED  BY <2>1, WorkerKeepsRings, Zenon
<1>2. ASSUME NEW p \in Pid, NEW b, FillBuffer(p, b) PROVE RingInd'
  <2>1. /\ UNCHANGED <<valid, wp, rp, threadVars>> /\ worker[p] = "decode"
        /\ worker' = [worker EXCEPT ![p] = "tb_decoded"]
    BY <1>2 DEF FillBuffer, WorkerGoes
  <2>2. ~ valid[p][wp[p]]  BY <2>1 DEF RingInd, BufferIsFree
  <2> QED  BY <2>1, <2>2, WorkerKeepsRings, Zenon
<1>3. ASSUME NEW p \in Pid, WorkerEnds(p) PROVE RingInd'
  <2>1. CASE PushBuffer(p)  BY <2>1, PushKeepsRings
  <2>2. CASE SkipBuffer(p)
    <3>1. PICK to \in {"notify", "feedback"} : worker' = [worker EXCEPT ![p] = to]
      BY <2>2, Zenon DEF SkipBuffer, WorkerGoes
    <3>2. UNCHANGED <<valid, wp, rp, threadVars>>  BY <2>2 DEF SkipBuffer, ringVars
    <3> QED  BY <3>1, <3>2, WorkerKeepsRings, Zenon
  <2>3. CASE Notify(p) \/ EndGrant(p)
    <3>1. /\ UNCHANGED <<valid, wp, rp, threadVars>>
          /\ worker' = [worker EXCEPT ![p] = "idle"]
      BY <2>3 DEF Notify, EndGrant, WorkerGoes, ringVars
    <3> QED  BY <3>1, WorkerKeepsRings, Zenon
  <2> QED  BY <1>3, <2>1, <2>2, <2>3 DEF WorkerEnds
<1>4. CASE ThreadStep  BY <1>4, ThreadKeepsRings
<1>5. CASE UNCHANGED queueVars
  <2>1. UNCHANGED <<valid, wp, rp, pc, idx, worker>>
    BY <1>5 DEF queueVars, ringVars, threadVars
  <2>2. RingInv'  BY <2>1, SameRings DEF RingInd, RingInv
  <2> QED  BY <2>1, <2>2 DEF RingInd, RingType, BufferIsFree
<1> QED  BY <1>1, <1>2, <1>3, <1>4, <1>5 DEF QueueNext

(* At first every ring is empty. *)
LEMMA InitRings ==
  ASSUME QueueInit PROVE RingInd
<1>1. NofBuf \in Nat /\ 0 \in Slot /\ 0 \in Pid /\ 0 \in 0 .. NofBuf
  BY QueueAssumption DEF Slot, Pid
<1>2. RingType /\ BufferIsFree  BY <1>1 DEF QueueInit, RingType, BufferIsFree
<1>3. Ahead(0, 0) = 0 /\ \A s \in Slot : Behind(s, 0) \in Slot
  BY <1>1, QueueAssumption, RingArithmetic
<1>4. \A p \in Pid : Holds(p, 0)
  BY <1>1, <1>3 DEF QueueInit, Holds, Ahead, Behind, Slot
<1>5. pc # "process"  BY DEF QueueInit
<1> QED  BY <1>1, <1>2, <1>4, <1>5 DEF RingInd, RingInv

(* The rings between the PHY workers and the PDU thread stay in order for  *)
(* any number of HARQ processes and any depth: a worker that was given a   *)
(* buffer never writes into a message that waits, and the thread never     *)
(* takes one that is not complete, although no lock is held.               *)
THEOREM RingsCorrect == QueueSpec => []RingInv
<1>1. QueueInit => RingInd  BY InitRings
<1>2. RingInd /\ [QueueNext]_queueVars => RingInd'  BY QueueStepKeepsRings
<1>3. RingInd => RingInv  BY DEF RingInd
<1> QED  BY <1>1, <1>2, <1>3, PTL DEF QueueSpec

-----------------------------------------------------------------------------
(***************************************************************************)
(* What waits in a ring.                                                   *)
(***************************************************************************)

(* The number of messages in a ring is what its flags say. *)
LEMMA HoldsUnique ==
  ASSUME NEW p \in Pid, RingType, NEW n \in 0 .. NofBuf, NEW m \in 0 .. NofBuf,
         Holds(p, n), Holds(p, m)
  PROVE  n = m
<1> DEFINE r == rp[p]
<1>1. r \in Slot /\ NofBuf \in Nat /\ 0 < NofBuf  BY QueueAssumption DEF RingType
<1>2. \A s \in Slot : Behind(s, r) < n <=> Behind(s, r) < m
  BY DEF Holds, Behind
<1> HIDE DEF r
<1>3. ASSUME NEW k \in 0 .. NofBuf - 1
      PROVE  Ahead(r, k) \in Slot /\ Behind(Ahead(r, k), r) = k
  <2>1. k \in 0 .. NofBuf  BY <1>1
  <2>2. /\ Ahead(r, k) = IF r + k < NofBuf THEN r + k ELSE r + k - NofBuf
        /\ Ahead(r, k) \in Slot
    BY <1>1, <2>1, RingArithmetic
  <2>3. PICK s \in Slot : s = Ahead(r, k)  BY <2>2
  <2>4. Behind(s, r) = IF r <= s THEN s - r ELSE s - r + NofBuf
    BY <1>1, <2>1, RingArithmetic
  <2>5. Behind(s, r) = k  BY <1>1, <2>2, <2>3, <2>4 DEF Slot
  <2> QED  BY <2>3, <2>5
<1>4. CASE n < m
  <2>1. n \in 0 .. NofBuf - 1  BY <1>1, <1>4
  <2>2. n < n <=> n < m  BY <1>2, <1>3, <2>1
  <2> QED  BY <1>1, <1>4, <2>2
<1>5. CASE m < n
  <2>1. m \in 0 .. NofBuf - 1  BY <1>1, <1>5
  <2>2. m < n <=> m < m  BY <1>2, <1>3, <2>1
  <2> QED  BY <1>1, <1>5, <2>2
<1> QED  BY <1>1, <1>4, <1>5

(* Places in a ring: those of the messages are valid, the next one is      *)
(* where the writer is, and they move with the reader.                     *)
LEMMA RingPlaces ==
  ASSUME NEW p \in Pid, RingType, NEW n \in 0 .. NofBuf, Holds(p, n)
  PROVE  /\ \A k \in 0 .. NofBuf : Ahead(rp[p], k) \in Slot
         /\ wp[p] = Ahead(rp[p], n)
         /\ \A k \in 0 .. NofBuf - 1 : valid[p][Ahead(rp[p], k)] <=> k < n
         /\ Ahead(rp[p], 0) = rp[p]
         /\ \A k \in 1 .. NofBuf - 1 : Ahead(rp[p], k) # rp[p]
         /\ \A k \in 0 .. NofBuf - 1 : Ahead(next(rp[p]), k) = Ahead(rp[p], k + 1)
<1> DEFINE r == rp[p]
<1>1. r \in Slot /\ NofBuf \in Nat /\ 0 < NofBuf  BY QueueAssumption DEF RingType
<1>2. wp[p] = Ahead(r, n) /\ \A s \in Slot : valid[p][s] <=> Behind(s, r) < n
  BY DEF Holds, Ahead, Behind
<1> SUFFICES /\ \A k \in 0 .. NofBuf : Ahead(r, k) \in Slot
             /\ \A k \in 0 .. NofBuf - 1 : valid[p][Ahead(r, k)] <=> k < n
             /\ Ahead(r, 0) = r
             /\ \A k \in 1 .. NofBuf - 1 : Ahead(r, k) # r
             /\ \A k \in 0 .. NofBuf - 1 : Ahead(next(r), k) = Ahead(r, k + 1)
  BY <1>2
<1> HIDE DEF r
<1>3. ASSUME NEW k \in 0 .. NofBuf
      PROVE  /\ Ahead(r, k) = IF r + k < NofBuf THEN r + k ELSE r + k - NofBuf
             /\ Ahead(r, k) \in Slot
  BY <1>1, RingArithmetic
<1>4. ASSUME NEW k \in 0 .. NofBuf - 1
      PROVE  valid[p][Ahead(r, k)] <=> k < n
  <2>1. k \in 0 .. NofBuf  BY <1>1
  <2>2. PICK s \in Slot : s = Ahead(r, k)  BY <1>3, <2>1
  <2>3. Behind(s, r) = IF r <= s THEN s - r ELSE s - r + NofBuf
    BY <1>1, <2>1, RingArithmetic
  <2>4. Behind(s, r) = k  BY <1>1, <1>3, <2>1, <2>2, <2>3 DEF Slot
  <2> QED  BY <1>2, <2>2, <2>4
<1>5. Ahead(r, 0) = r
  <2>1. 0 \in 0 .. NofBuf  BY <1>1
  <2>2. Ahead(r, 0) = IF r + 0 < NofBuf THEN r + 0 ELSE r + 0 - NofBuf  BY <1>3, <2>1
  <2> QED  BY <1>1, <2>2 DEF Slot
<1>6. ASSUME NEW k \in 1 .. NofBuf - 1 PROVE Ahead(r, k) # r
  <2>1. k \in 0 .. NofBuf  BY <1>1
  <2>2. Ahead(r, k) = IF r + k < NofBuf THEN r + k ELSE r + k - NofBuf  BY <1>3, <2>1
  <2> QED  BY <1>1, <2>2 DEF Slot
<1>7. ASSUME NEW k \in 0 .. NofBuf - 1 PROVE Ahead(next(r), k) = Ahead(r, k + 1)
  <2>1. k \in 0 .. NofBuf /\ k + 1 \in 0 .. NofBuf  BY <1>1
  <2>2. /\ next(r) = IF r + 1 = NofBuf THEN 0 ELSE r + 1
        /\ next(r) \in Slot
    BY <1>1, <2>1, RingArithmetic
  <2>3. PICK x \in Slot : x = next(r)  BY <2>2
  <2>4. Ahead(x, k) = IF x + k < NofBuf THEN x + k ELSE x + k - NofBuf
    BY <2>1, <1>1, RingArithmetic
  <2>5. Ahead(r, k + 1) = IF r + (k + 1) < NofBuf THEN r + (k + 1) ELSE r + (k + 1) - NofBuf
    BY <1>3, <2>1
  <2>6. Ahead(x, k) = Ahead(r, k + 1)  BY <1>1, <2>2, <2>3, <2>4, <2>5 DEF Slot
  <2> QED  BY <2>3, <2>6
<1> QED  BY <1>3, <1>4, <1>5, <1>6, <1>7

(* Queued() of a ring with n messages. *)
LEMMA QueuedIs ==
  ASSUME NEW p \in Pid, RingType, NEW n \in 0 .. NofBuf, Holds(p, n)
  PROVE  Queued(p) = [k \in 1 .. n |-> data[p][Ahead(rp[p], k - 1)]]
<1> DEFINE c == CHOOSE i \in 0 .. NofBuf : Holds(p, i)
<1>1. c \in 0 .. NofBuf /\ Holds(p, c)  OBVIOUS
<1>2. Queued(p) = [k \in 1 .. c |-> data[p][(rp[p] + k - 1) % NofBuf]]
  BY DEF Queued
<1> HIDE DEF c
<1>3. c = n  BY <1>1, HoldsUnique
<1>4. rp[p] \in Int  BY DEF RingType, Slot
<1>5. \A k \in 1 .. n : rp[p] + k - 1 = rp[p] + (k - 1)  BY <1>4
<1> QED  BY <1>2, <1>3, <1>5 DEF Ahead

-----------------------------------------------------------------------------
(* Every step of the queues keeps the types. *)
LEMMA QueueStepKeepsTypes ==
  ASSUME RingInd, QueueTypeOK, [QueueNext]_queueVars
  PROVE  QueueTypeOK'
<1>1. RingInd'  BY QueueStepKeepsRings
<1>2. /\ valid' \in [Pid -> [Slot -> BOOLEAN]] /\ wp' \in [Pid -> Slot] /\ rp' \in [Pid -> Slot]
      /\ worker' \in [Pid -> {"idle", "decode", "tb_decoded", "notify", "feedback"}]
      /\ idx' \in Pid
  BY <1>1 DEF RingInd, RingType
<1>3. data' \in [Pid -> [Slot -> Block \cup {Garbage}]]
  <2>1. ASSUME NEW p \in Pid, NEW b \in Block \cup {Garbage}, FillBuffer(p, b)
        PROVE  data' \in [Pid -> [Slot -> Block \cup {Garbage}]]
    <3>1. data' = [data EXCEPT ![p][wp[p]] = b]  BY <2>1 DEF FillBuffer, fill
    <3> QED  BY <3>1 DEF QueueTypeOK
  <2>2. CASE process_pdu
    <3>1. data' = [data EXCEPT ![idx][rp[idx]] = Garbage]  BY <2>2 DEF process_pdu
    <3> QED  BY <3>1 DEF QueueTypeOK
  <2>3. ASSUME NEW p \in Pid, RequestBuffer(p) \/ WorkerEnds(p)
        PROVE  data' = data
    BY <2>3 DEF RequestBuffer, WorkerEnds, PushBuffer, SkipBuffer, Notify, EndGrant, ringVars
  <2>4. CASE pop \/ assign_have_data \/ wait_data \/ UNCHANGED queueVars
    <3>1. data' = data
      BY <2>4 DEF pop, assign_have_data, wait_data, queueVars, ringVars
    <3> QED  BY <3>1 DEF QueueTypeOK
  <2>5. data' = data => data' \in [Pid -> [Slot -> Block \cup {Garbage}]]
    BY DEF QueueTypeOK
  <2> QED  BY <2>1, <2>2, <2>3, <2>4, <2>5 DEF QueueNext, ThreadStep, PduThread
<1>4. have_data' \in BOOLEAN /\ found' \in BOOLEAN /\ pc' \in {"pop", "process", "assign", "wait"}
  <2>1. CASE PduThread
    BY <2>1 DEF PduThread, pop, process_pdu, assign_have_data, wait_data, QueueTypeOK
  <2>2. ASSUME NEW p \in Pid,
               RequestBuffer(p) \/ WorkerEnds(p) \/ \E b \in Block \cup {Garbage} : FillBuffer(p, b)
        PROVE  UNCHANGED <<pc, found>> /\ (have_data' = TRUE \/ UNCHANGED have_data)
    BY <2>2 DEF RequestBuffer, WorkerEnds, PushBuffer, SkipBuffer, Notify, notify, EndGrant,
                FillBuffer, threadVars
  <2>3. CASE UNCHANGED queueVars
    BY <2>3 DEF queueVars, threadVars, QueueTypeOK
  <2>4. UNCHANGED <<pc, found>> /\ (have_data' = TRUE \/ UNCHANGED have_data)
          => have_data' \in BOOLEAN /\ found' \in BOOLEAN /\ pc' \in {"pop", "process", "assign", "wait"}
    BY DEF QueueTypeOK
  <2> QED  BY <2>1, <2>2, <2>3, <2>4 DEF QueueNext, ThreadStep
<1> QED  BY <1>2, <1>3, <1>4 DEF QueueTypeOK

(* At first every ring is empty and has its type. *)
LEMMA QueueInitTypes ==
  ASSUME QueueInit PROVE QueueTypeOK
<1>1. 0 \in Slot /\ 0 \in Pid  BY QueueAssumption DEF Slot, Pid
<1> QED  BY <1>1 DEF QueueInit, QueueTypeOK

(* The positions of qbuff.cc stay inside the ring, and process_pdus()      *)
(* never looks beyond the last ring, for any number of either.             *)
THEOREM QueueTypesCorrect == QueueSpec => []QueueTypeOK
<1>1. QueueInit => RingInd /\ QueueTypeOK  BY InitRings, QueueInitTypes
<1>2. RingInd /\ QueueTypeOK /\ [QueueNext]_queueVars => (RingInd /\ QueueTypeOK)'
  BY QueueStepKeepsRings, QueueStepKeepsTypes
<1> QED  BY <1>1, <1>2, PTL DEF QueueSpec

-----------------------------------------------------------------------------
(* The numbers of the blocks, and where their contents are. *)
BlockType ==
  /\ DOMAIN tx = Pid /\ \A p \in Pid : tx[p].b \in Block
  /\ data \in [Pid -> [Slot -> Block \cup {Garbage}]]
  /\ ok \in [Pid -> BOOLEAN]

(* The buffer of a worker whose decoder succeeded holds the block until    *)
(* the worker pushes it.                                                   *)
OkIsFilled ==
  \A p \in Pid : worker[p] = "tb_decoded" /\ ok[p] => data[p][wp[p]] # Garbage

DlInd == RingInd /\ BlockType /\ OkIsFilled

(* What the base station may send is a block. *)
LEMMA GrantIsBlock ==
  ASSUME BlockType, NEW p \in Pid, NEW g \in NewBlock(p) \cup Msg4(p) \cup Again(p)
  PROVE  g.b \in Block
<1>1. (tx[p].b + 1) % NofBlocks \in Block
  BY BlockAssumption, SMT DEF BlockType
<1>2. CASE g \in NewBlock(p)
  <2>1. g.b = (tx[p].b + 1) % NofBlocks  BY <1>2 DEF NewBlock
  <2> QED  BY <1>1, <2>1
<1>3. CASE g \in Msg4(p)
  <2>1. g.b = (tx[p].b + 1) % NofBlocks  BY <1>3 DEF Msg4
  <2> QED  BY <1>1, <2>1
<1>4. CASE g \in Again(p)  BY <1>4 DEF Again, BlockType
<1> QED  BY <1>2, <1>3, <1>4

(* A grant asks for a buffer, or leaves the queues alone. *)
LEMMA NewGrantStep ==
  ASSUME DlInd, NEW p \in Pid, NEW g \in NewBlock(p) \cup Msg4(p) \cup Again(p),
         NEW soon, NEW aligned, NewGrant(p, g, soon, aligned)
  PROVE  [QueueNext]_queueVars /\ BlockType' /\ OkIsFilled'
<1>1. /\ worker[p] = "idle" /\ Timely(p) /\ tx' = [tx EXCEPT ![p] = g]
      /\ UNCHANGED <<ringVars, threadVars, have_data, ok>>
  BY DEF NewGrant
<1>2. \/ request(p) /\ worker' = [worker EXCEPT ![p] = "decode"]
      \/ UNCHANGED worker
  BY DEF NewGrant, new_grant_dl
<1>3. RequestBuffer(p) \/ UNCHANGED queueVars
  BY <1>1, <1>2 DEF RequestBuffer, WorkerGoes, queueVars
<1>4. BlockType'  BY <1>1, GrantIsBlock DEF DlInd, BlockType, ringVars
<1>5. OkIsFilled'  BY <1>1, <1>2 DEF DlInd, OkIsFilled, RingInd, RingType, ringVars
<1> QED  BY <1>3, <1>4, <1>5 DEF QueueNext

(* The decoder fills the buffer. *)
LEMMA DecodeStep ==
  ASSUME DlInd, NEW p \in Pid, NEW good \in BOOLEAN, decode_pdsch(p, good)
  PROVE  [QueueNext]_queueVars /\ BlockType' /\ OkIsFilled'
<1> DEFINE b == IF good THEN tx[p].b ELSE Garbage
<1>1. /\ worker' = [worker EXCEPT ![p] = "tb_decoded"] /\ worker[p] = "decode"
      /\ data' = [data EXCEPT ![p][wp[p]] = b] /\ ok' = [ok EXCEPT ![p] = good]
      /\ UNCHANGED <<valid, wp, rp, threadVars, have_data, tx>>
  BY DEF decode_pdsch, fill, WorkerGoes
<1>2. b \in Block \cup {Garbage} /\ (good => b # Garbage)
  BY BlockAssumption DEF DlInd, BlockType
<1> HIDE DEF b
<1>3. FillBuffer(p, b)  BY <1>1 DEF FillBuffer, fill, WorkerGoes
<1>4. wp \in [Pid -> Slot]  BY DEF DlInd, RingInd, RingType
<1>5. BlockType'  BY <1>1, <1>2, <1>4, Zenon DEF DlInd, BlockType
<1>6. ASSUME NEW q \in Pid, worker'[q] = "tb_decoded", ok'[q]
      PROVE  data'[q][wp'[q]] # Garbage
  <2>1. CASE q = p  BY <2>1, <1>1, <1>2, <1>4, <1>6, Zenon DEF DlInd, BlockType
  <2>2. CASE q # p
    BY <2>2, <1>1, <1>6 DEF DlInd, BlockType, OkIsFilled, RingInd, RingType
  <2> QED  BY <2>1, <2>2
<1> QED  BY <1>2, <1>3, <1>5, <1>6 DEF QueueNext, OkIsFilled

(* tb_decoded() pushes what was decoded. *)
LEMMA TbDecodedStep ==
  ASSUME DlInd, NEW p \in Pid, NEW match \in BOOLEAN, tb_decoded(p, match)
  PROVE  [QueueNext]_queueVars /\ BlockType' /\ OkIsFilled'
<1>1. /\ WorkerGoes(p, "tb_decoded", IF ok[p] THEN "notify" ELSE "feedback")
      /\ UNCHANGED <<data, rp, threadVars, have_data, ok, tx>>
      /\ IF ok[p] /\ size[p] > 0 THEN push(p) ELSE UNCHANGED <<valid, wp>>
  BY DEF tb_decoded
<1>2. PushBuffer(p) \/ SkipBuffer(p)
  <2>1. CASE ok[p] /\ size[p] > 0
    <3>1. data[p][wp[p]] # Garbage  BY <1>1, <2>1 DEF DlInd, OkIsFilled, WorkerGoes
    <3> QED  BY <1>1, <2>1, <3>1 DEF PushBuffer
  <2>2. CASE ~ (ok[p] /\ size[p] > 0)
    BY <1>1, <2>2 DEF SkipBuffer, ringVars
  <2> QED  BY <2>1, <2>2
<1>3. BlockType'  BY <1>1 DEF DlInd, BlockType
<1>4. ASSUME NEW q \in Pid, worker'[q] = "tb_decoded", ok'[q]
      PROVE  data'[q][wp'[q]] # Garbage
  <2>1. q # p  BY <1>1, <1>4 DEF WorkerGoes, DlInd, RingInd, RingType
  <2>2. worker[q] = "tb_decoded" /\ ok[q] /\ wp'[q] = wp[q]
    BY <1>1, <1>4, <2>1 DEF WorkerGoes, push, DlInd, RingInd, RingType
  <2> QED  BY <1>1, <2>2 DEF DlInd, OkIsFilled
<1> QED  BY <1>2, <1>3, <1>4 DEF QueueNext, WorkerEnds, OkIsFilled

(* The notification ends the grant. *)
LEMMA NotifyStep ==
  ASSUME DlInd, NEW p \in Pid, notify_and_feedback(p)
  PROVE  [QueueNext]_queueVars /\ BlockType' /\ OkIsFilled'
<1>1. /\ UNCHANGED <<ringVars, threadVars, tx>> /\ ok' = [ok EXCEPT ![p] = FALSE]
      /\ \/ WorkerGoes(p, "notify", "idle") /\ notify
         \/ WorkerGoes(p, "feedback", "idle") /\ UNCHANGED have_data
  BY DEF notify_and_feedback
<1>2. Notify(p) \/ EndGrant(p)  BY <1>1 DEF Notify, EndGrant
<1>3. BlockType'  BY <1>1 DEF DlInd, BlockType, ringVars
<1>4. OkIsFilled'
  BY <1>1 DEF DlInd, OkIsFilled, BlockType, RingInd, RingType, WorkerGoes, ringVars
<1> QED  BY <1>2, <1>3, <1>4 DEF QueueNext, WorkerEnds

(* The PDU thread empties slots, and never one a worker has just filled. *)
LEMMA ThreadDlStep ==
  ASSUME DlInd, PduThreadStep
  PROVE  [QueueNext]_queueVars /\ BlockType' /\ OkIsFilled'
<1>1. ThreadStep /\ UNCHANGED <<ok, tx, worker>>
  BY DEF PduThreadStep, ThreadStep, workerVars
<1>2. CASE process_pdu
  <2>1. data' = [data EXCEPT ![idx][rp[idx]] = Garbage] /\ UNCHANGED wp
        /\ valid[idx][rp[idx]]
    BY <1>2 DEF process_pdu, DlInd, RingInd, RingInv
  <2>2. idx \in Pid /\ rp[idx] \in Slot  BY DEF DlInd, RingInd, RingType
  <2>3. BlockType'  BY <1>1, <2>1, <2>2 DEF DlInd, BlockType
  <2>4. ASSUME NEW q \in Pid, worker[q] = "tb_decoded", ok[q]
        PROVE  data'[q][wp[q]] # Garbage
    <3>1. ~ valid[q][wp[q]] /\ data[q][wp[q]] # Garbage /\ wp[q] \in Slot
      BY <2>4 DEF DlInd, RingInd, RingType, BufferIsFree, OkIsFilled
    <3>2. q # idx \/ wp[q] # rp[idx]  BY <2>1, <3>1
    <3> QED  BY <2>1, <2>2, <3>1, <3>2 DEF DlInd, BlockType
  <2> QED  BY <1>1, <2>1, <2>3, <2>4 DEF QueueNext, OkIsFilled
<1>3. CASE pop \/ assign_have_data \/ wait_data
  <2>1. UNCHANGED <<data, wp>>  BY <1>3 DEF pop, assign_have_data, wait_data, ringVars
  <2> QED  BY <1>1, <2>1 DEF QueueNext, DlInd, BlockType, OkIsFilled
<1> QED  BY <1>1, <1>2, <1>3 DEF ThreadStep, PduThread

(* Every step of the downlink is one of the queues' or leaves them alone. *)
LEMMA DlStep ==
  ASSUME DlInd, [DlNext]_dlVars
  PROVE  [QueueNext]_queueVars /\ DlInd'
<1>1. [QueueNext]_queueVars /\ BlockType' /\ OkIsFilled'
  <2>1. ASSUME NEW p \in Pid, MissGrant(p) PROVE [QueueNext]_queueVars /\ BlockType' /\ OkIsFilled'
    <3>1. PICK g \in NewBlock(p) \cup Msg4(p) \cup Again(p) : tx' = [tx EXCEPT ![p] = g]
      BY <2>1, Zenon DEF MissGrant
    <3>2. UNCHANGED queueVars /\ UNCHANGED <<ok, data, worker, wp>>
      BY <2>1 DEF MissGrant, workerVars, queueVars, ringVars
    <3>3. BlockType'  BY <3>1, <3>2, GrantIsBlock DEF DlInd, BlockType
    <3> QED  BY <3>2, <3>3 DEF DlInd, OkIsFilled
  <2>2. ASSUME NEW p \in Pid, Worker(p) PROVE [QueueNext]_queueVars /\ BlockType' /\ OkIsFilled'
    BY <2>2, DecodeStep, TbDecodedStep, NotifyStep DEF Worker
  <2>3. CASE MacReset \/ UNCHANGED dlVars
    <3>1. UNCHANGED <<queueVars, ok, tx>>  BY <2>3 DEF MacReset, dlVars, workerVars
    <3> QED  BY <3>1 DEF DlInd, BlockType, OkIsFilled, queueVars, ringVars
  <2> QED  BY <2>1, <2>2, <2>3, NewGrantStep, ThreadDlStep DEF DlNext
<1>2. RingInd'  BY <1>1, QueueStepKeepsRings DEF DlInd
<1> QED  BY <1>1, <1>2 DEF DlInd

(* The HARQ processes, the workers and the MAC reset keep the discipline   *)
(* of the queues, so that what is proved of the rings holds for them.      *)
THEOREM DlRefinesQueue == DlSpec => DlImplementsQueue
<1>1. DlInit => QueueInit /\ DlInd
  <2> SUFFICES ASSUME DlInit PROVE QueueInit /\ DlInd  OBVIOUS
  <2>1. QueueInit  BY DEF DlInit
  <2>2. RingInd  BY <2>1, InitRings
  <2>3. 0 \in Block  BY BlockAssumption
  <2>4. BlockType /\ OkIsFilled
    BY <2>3 DEF DlInit, QueueInit, BlockType, OkIsFilled
  <2> QED  BY <2>1, <2>2, <2>4 DEF DlInd
<1>2. DlInd /\ [DlNext]_dlVars => [QueueNext]_queueVars /\ DlInd'  BY DlStep
<1> QED  BY <1>1, <1>2, PTL DEF DlSpec, DlImplementsQueue, QueueSpec

-----------------------------------------------------------------------------
(***************************************************************************)
(* An ACK for the C-RNTI means that the block has been decoded.            *)
(***************************************************************************)
AckType ==
  /\ worker \in [Pid -> {"idle", "decode", "tb_decoded", "notify", "feedback"}]
  /\ tx \in [Pid -> [b : Int, ndi : BOOLEAN, size : Int, rnti : TempRnti \cup {User}]]
  /\ ndi \in [Pid -> BOOLEAN] /\ near \in [Pid -> BOOLEAN]
  /\ ack \in [Pid -> BOOLEAN] /\ ok \in [Pid -> BOOLEAN]
  /\ action \in [Pid -> {"ack", "callback", "none"}]
  /\ decoded \in [Pid -> Block \cup {Garbage}]
  /\ feedback \in [Pid -> {"none", "ack", "nack"}]

(* The process knows the last block within eight TTIs: its NDI is the one  *)
(* that was sent, and ack is about it.  The callback is for blocks with a  *)
(* Temporal C-RNTI only.                                                   *)
AckInv(p) ==
  /\ near[p] => ndi[p] = tx[p].ndi
  /\ near[p] /\ ack[p] => decoded[p] = tx[p].b
  /\ worker[p] = "tb_decoded" /\ ok[p] => decoded[p] = tx[p].b
  /\ worker[p] = "idle" => action[p] = "none"
  /\ action[p] = "callback" => tx[p].rnti # User
  /\ tx[p].rnti # User => tx[p].ndi
  /\ feedback[p] = "ack" /\ tx[p].rnti = User => tx[p].b = decoded[p]

AckInd == AckType /\ \A p \in Pid : AckInv(p)

(* What the base station may send, when it sends Msg4 with NDI 1. *)
LEMMA GrantKinds ==
  ASSUME AckInd, TempNdi = {TRUE}, NEW p \in Pid,
         NEW g \in NewBlock(p) \cup Msg4(p) \cup Again(p)
  PROVE  /\ g \in [b : Int, ndi : BOOLEAN, size : Int, rnti : TempRnti \cup {User}]
         /\ g.rnti # User => g.ndi
         /\ g.rnti = User => g = tx[p] \/ g.ndi = ~ tx[p].ndi
<1>1. /\ tx[p] \in [b : Int, ndi : BOOLEAN, size : Int, rnti : TempRnti \cup {User}]
      /\ tx[p].rnti # User => tx[p].ndi
  BY DEF AckInd, AckType, AckInv
<1>2. (tx[p].b + 1) % NofBlocks \in Int
  BY <1>1, NextBlock, Zenon
<1>3. CASE g \in NewBlock(p)
  <2>1. PICK n \in Size :
          g = [b |-> (tx[p].b + 1) % NofBlocks, ndi |-> ~ tx[p].ndi, size |-> n, rnti |-> User]
    BY <1>3 DEF NewBlock
  <2>2. n \in Int /\ tx[p].ndi \in BOOLEAN  BY <1>1 DEF Size
  <2> QED  BY <1>2, <2>1, <2>2
<1>4. CASE g \in Msg4(p)
  <2>1. PICK d \in TempNdi, n \in Size, t \in TempRnti :
          g = [b |-> (tx[p].b + 1) % NofBlocks, ndi |-> d, size |-> n, rnti |-> t]
    BY <1>4 DEF Msg4
  <2>2. d = TRUE /\ t # User /\ n \in Int  BY RntiAssumption DEF Size
  <2> QED  BY <1>2, <2>1, <2>2, Zenon
<1>5. CASE g \in Again(p)  BY <1>1, <1>5 DEF Again
<1> QED  BY <1>3, <1>4, <1>5

(* A grant within eight TTIs that has the stored NDI is for the last block. *)
LEMMA NewGrantAck ==
  ASSUME AckInd, TempNdi = {TRUE}, NEW p \in Pid,
         NEW g \in NewBlock(p) \cup Msg4(p) \cup Again(p),
         NEW soon \in BOOLEAN, NEW aligned \in BOOLEAN, NewGrant(p, g, soon, aligned)
  PROVE  AckInd'
<1> DEFINE first == g.rnti # User /\ g.rnti # last_temporal_crnti
           grant == [g EXCEPT !.ndi = g.ndi \/ first]
           done  == ack[p] /\ ~ calc_is_new_transmission(p, grant, soon)
<1>1. /\ g \in [b : Int, ndi : BOOLEAN, size : Int, rnti : TempRnti \cup {User}]
      /\ g.rnti # User => g.ndi
      /\ g.rnti = User => g = tx[p] \/ g.ndi = ~ tx[p].ndi
  BY GrantKinds
<1>2. grant.ndi = g.ndi /\ grant.size = g.size  BY <1>1
<1>3. /\ worker[p] = "idle" /\ tx' = [tx EXCEPT ![p] = g]
      /\ soon => near[p] /\ (g.rnti = User \/ g = tx[p])
      /\ ok' = ok /\ decoded' = decoded
  BY DEF NewGrant
<1>4. /\ ack' = [ack EXCEPT ![p] = done] /\ near' = [near EXCEPT ![p] = TRUE]
      /\ ndi' = [ndi EXCEPT ![p] = g.ndi]
  BY <1>2, Zenon DEF NewGrant, new_grant_dl
<1>5. \/ /\ worker' = [worker EXCEPT ![p] = "decode"]
         /\ action' = [action EXCEPT ![p] = IF ~ aligned THEN "none"
                                            ELSE IF g.rnti = User THEN "ack" ELSE "callback"]
         /\ feedback' = [feedback EXCEPT ![p] = "none"]
      \/ /\ worker' = worker /\ action' = action
         /\ \/ feedback' = [feedback EXCEPT ![p] = "none"]
            \/ feedback' = [feedback EXCEPT ![p] = IF done THEN "ack" ELSE "nack"]
  BY DEF NewGrant, new_grant_dl, send_feedback
<1>6. done \in BOOLEAN /\ (done => ack[p] /\ soon /\ g.ndi = ndi[p])
  BY <1>2, <1>1 DEF calc_is_new_transmission, AckInd, AckType
<1> HIDE DEF done, grant, first
<1>7. done => decoded[p] = g.b
  <2> SUFFICES ASSUME done PROVE decoded[p] = g.b  OBVIOUS
  <2>1. near[p] /\ ack[p] /\ g.ndi = tx[p].ndi /\ (g.rnti = User \/ g = tx[p])
    BY <1>3, <1>6 DEF AckInd, AckInv
  <2>2. tx[p].ndi \in BOOLEAN  BY DEF AckInd, AckType
  <2>3. g = tx[p]  BY <1>1, <2>1, <2>2
  <2> QED  BY <2>1, <2>3 DEF AckInd, AckInv
<1>8. AckType'
  BY <1>1, <1>3, <1>4, <1>5, <1>6, ZenonT(30) DEF AckInd, AckType
<1>9. AckInv(p)'
  <2>1. /\ tx'[p] = g /\ ndi'[p] = g.ndi /\ ack'[p] = done
    BY <1>3, <1>4 DEF AckInd, AckType
  <2>2. /\ worker'[p] \in {"idle", "decode"}
        /\ worker'[p] = "idle" => action'[p] = "none"
        /\ action'[p] = "callback" => g.rnti # User
        /\ feedback'[p] = "ack" => done
    BY <1>3, <1>5 DEF AckInd, AckType, AckInv
  <2> QED  BY <1>1, <1>3, <1>7, <2>1, <2>2 DEF AckInv
<1>10. ASSUME NEW q \in Pid, q # p PROVE AckInv(q)'
  <2>1. /\ tx'[q] = tx[q] /\ ndi'[q] = ndi[q] /\ ack'[q] = ack[q] /\ near'[q] = near[q]
        /\ worker'[q] = worker[q] /\ action'[q] = action[q] /\ feedback'[q] = feedback[q]
    BY <1>3, <1>4, <1>5, <1>10 DEF AckInd, AckType
  <2> QED  BY <1>3, <2>1 DEF AckInd, AckInv
<1> QED  BY <1>8, <1>9, <1>10 DEF AckInd

(* The steps of a worker. *)
LEMMA WorkerAck ==
  ASSUME AckInd, NEW p \in Pid, BlockType, Worker(p)
  PROVE  AckInd'
<1>1. ASSUME NEW good \in BOOLEAN, decode_pdsch(p, good) PROVE AckInd'
  <2>1. /\ worker[p] = "decode" /\ worker' = [worker EXCEPT ![p] = "tb_decoded"]
        /\ ok' = [ok EXCEPT ![p] = good]
        /\ decoded' = IF good THEN [decoded EXCEPT ![p] = tx[p].b] ELSE decoded
        /\ IF action[p] = "ack"
           THEN feedback' = [feedback EXCEPT ![p] = IF good THEN "ack" ELSE "nack"]
           ELSE feedback' = feedback
        /\ ndi' = ndi /\ near' = near /\ ack' = ack /\ action' = action /\ tx' = tx
    BY <1>1 DEF decode_pdsch, WorkerGoes, send_feedback, harqVars
  <2>2. tx[p].b \in Block  BY DEF BlockType
  <2>3. AckType'  BY <2>1, <2>2 DEF AckInd, AckType
  <2>4. AckInv(p)'  BY <2>1 DEF AckInd, AckType, AckInv
  <2>5. ASSUME NEW q \in Pid, q # p PROVE AckInv(q)'
    BY <2>1, <2>5 DEF AckInd, AckType, AckInv
  <2> QED  BY <2>3, <2>4, <2>5 DEF AckInd
<1>2. ASSUME NEW match \in BOOLEAN, tb_decoded(p, match) PROVE AckInd'
  <2>1. /\ worker[p] = "tb_decoded"
        /\ worker' = [worker EXCEPT ![p] = IF ok[p] THEN "notify" ELSE "feedback"]
        /\ ack' = [ack EXCEPT ![p] = ok[p]]
        /\ ndi' = ndi /\ near' = near /\ action' = action /\ tx' = tx
        /\ ok' = ok /\ decoded' = decoded /\ feedback' = feedback
    BY <1>2 DEF tb_decoded, WorkerGoes
  <2>2. AckType'  BY <2>1 DEF AckInd, AckType
  <2>3. AckInv(p)'  BY <2>1 DEF AckInd, AckType, AckInv
  <2>4. ASSUME NEW q \in Pid, q # p PROVE AckInv(q)'
    BY <2>1, <2>4 DEF AckInd, AckType, AckInv
  <2> QED  BY <2>2, <2>3, <2>4 DEF AckInd
<1>3. ASSUME notify_and_feedback(p) PROVE AckInd'
  <2>1. /\ worker' = [worker EXCEPT ![p] = "idle"]
        /\ ok' = [ok EXCEPT ![p] = FALSE] /\ action' = [action EXCEPT ![p] = "none"]
        /\ IF action[p] = "callback"
           THEN feedback' = [feedback EXCEPT ![p] = IF is_uecrid_successful THEN "ack" ELSE "nack"]
           ELSE feedback' = feedback
        /\ ndi' = ndi /\ near' = near /\ ack' = ack /\ tx' = tx /\ decoded' = decoded
    BY <1>3 DEF notify_and_feedback, WorkerGoes, send_feedback, harqVars
  <2>2. AckType'  BY <2>1 DEF AckInd, AckType
  <2>3. AckInv(p)'  BY <2>1 DEF AckInd, AckType, AckInv
  <2>4. ASSUME NEW q \in Pid, q # p PROVE AckInv(q)'
    BY <2>1, <2>4 DEF AckInd, AckType, AckInv
  <2> QED  BY <2>2, <2>3, <2>4 DEF AckInd
<1> QED  BY <1>1, <1>2, <1>3 DEF Worker

(* A missed grant, a reset and the PDU thread. *)
LEMMA OthersAck ==
  ASSUME AckInd, TempNdi = {TRUE}
  PROVE  /\ \A p \in Pid : MissGrant(p) => AckInd'
         /\ MacReset \/ PduThreadStep \/ UNCHANGED dlVars => AckInd'
<1>1. ASSUME NEW p \in Pid, MissGrant(p) PROVE AckInd'
  <2>1. PICK g \in NewBlock(p) \cup Msg4(p) \cup Again(p) : tx' = [tx EXCEPT ![p] = g]
    BY <1>1, Zenon DEF MissGrant
  <2>2. /\ g \in [b : Int, ndi : BOOLEAN, size : Int, rnti : TempRnti \cup {User}]
        /\ g.rnti # User => g.ndi
    BY GrantKinds
  <2>3. /\ worker[p] = "idle" /\ near' = [near EXCEPT ![p] = FALSE]
        /\ feedback' = [feedback EXCEPT ![p] = "none"]
        /\ worker' = worker /\ ndi' = ndi /\ ack' = ack /\ action' = action /\ ok' = ok
        /\ decoded' = decoded
    BY <1>1 DEF MissGrant, queueVars, workerVars
  <2>4. AckType'  BY <2>1, <2>2, <2>3 DEF AckInd, AckType
  <2>5. AckInv(p)'  BY <2>1, <2>2, <2>3 DEF AckInd, AckType, AckInv
  <2>6. ASSUME NEW q \in Pid, q # p PROVE AckInv(q)'
    BY <2>1, <2>3, <2>6 DEF AckInd, AckType, AckInv
  <2> QED  BY <2>4, <2>5, <2>6 DEF AckInd
<1>2. ASSUME MacReset PROVE AckInd'
  <2>1. /\ ack' = [p \in Pid |-> FALSE] /\ ndi' = [p \in Pid |-> FALSE]
        /\ near' = [p \in Pid |-> FALSE]
        /\ worker' = worker /\ action' = action /\ ok' = ok /\ tx' = tx
        /\ decoded' = decoded /\ feedback' = feedback
    BY <1>2 DEF MacReset, queueVars, workerVars
  <2>2. AckType'  BY <2>1 DEF AckInd, AckType
  <2>3. ASSUME NEW q \in Pid PROVE AckInv(q)'  BY <2>1 DEF AckInd, AckInv
  <2> QED  BY <2>2, <2>3 DEF AckInd
<1>3. ASSUME PduThreadStep \/ UNCHANGED dlVars PROVE AckInd'
  <2>1. /\ ack' = ack /\ ndi' = ndi /\ near' = near
        /\ worker' = worker /\ action' = action /\ ok' = ok /\ tx' = tx
        /\ decoded' = decoded /\ feedback' = feedback
    BY <1>3 DEF PduThreadStep, ThreadStep, dlVars, queueVars, harqVars, workerVars
  <2> QED  BY <2>1 DEF AckInd, AckType, AckInv
<1> QED  BY <1>1, <1>2, <1>3

(* dl_harq_process never acknowledges a block for the C-RNTI that it has   *)
(* not decoded, whatever grants are missed and whenever the MAC is reset,  *)
(* for every number of processes and sizes, if Msg4 comes with NDI 1.      *)
THEOREM AcksAreDecoded ==
  ASSUME TempNdi = {TRUE}
  PROVE  DlSpec => []AckedIsDecoded
<1>1. DlInit => DlInd /\ AckInd
  <2> SUFFICES ASSUME DlInit PROVE DlInd /\ AckInd  OBVIOUS
  <2>1. DlInd
    <3>1. RingInd  BY InitRings DEF DlInit
    <3>2. 0 \in Block  BY BlockAssumption
    <3> QED  BY <3>1, <3>2 DEF DlInd, DlInit, QueueInit, BlockType, OkIsFilled
  <2>2. AckType  BY DEF DlInit, QueueInit, AckType
  <2>3. ASSUME NEW p \in Pid PROVE AckInv(p)  BY DEF DlInit, QueueInit, AckInv
  <2> QED  BY <2>1, <2>2, <2>3 DEF AckInd
<1>2. DlInd /\ AckInd /\ [DlNext]_dlVars => DlInd' /\ AckInd'
  <2> SUFFICES ASSUME DlInd, AckInd, [DlNext]_dlVars PROVE DlInd' /\ AckInd'  OBVIOUS
  <2>1. DlInd'  BY DlStep
  <2>2. BlockType  BY DEF DlInd
  <2>3. AckInd'  BY <2>2, NewGrantAck, WorkerAck, OthersAck DEF DlNext
  <2> QED  BY <2>1, <2>3
<1>3. AckInd => AckedIsDecoded  BY DEF AckInd, AckInv, AckedIsDecoded
<1> QED  BY <1>1, <1>2, <1>3, PTL DEF DlSpec

-----------------------------------------------------------------------------
(***************************************************************************)
(* What is decoded is handed up.                                           *)
(***************************************************************************)

(* Ring p holds n messages, which are the first n of owed; a block that    *)
(* will be pushed is in the slot behind them, and the last of owed.        *)
OwedAs(p, n) ==
  /\ Holds(p, n)
  /\ Len(owed[p]) = IF Pending(p) THEN n + 1 ELSE n
  /\ \A k \in 1 .. Len(owed[p]) : owed[p][k] = data[p][Ahead(rp[p], k - 1)]

OwedInd == \A p \in Pid : \E n \in 0 .. NofBuf : OwedAs(p, n)

(* A ring that a step does not touch. *)
LEMMA OwedStays ==
  ASSUME NEW p \in Pid, NEW n \in 0 .. NofBuf, OwedAs(p, n),
         valid'[p] = valid[p], wp'[p] = wp[p], rp'[p] = rp[p], data'[p] = data[p],
         owed'[p] = owed[p], Pending(p)' <=> Pending(p)
  PROVE  OwedAs(p, n)'
<1>1. Holds(p, n)'  BY DEF OwedAs, Holds
<1> QED  BY <1>1 DEF OwedAs

(* All but one ring. *)
LEMMA OneRingOwes ==
  ASSUME OwedInd, NEW p \in Pid, NEW n \in 0 .. NofBuf, OwedAs(p, n)',
         \A q \in Pid \ {p} : /\ valid'[q] = valid[q] /\ wp'[q] = wp[q] /\ rp'[q] = rp[q]
                              /\ data'[q] = data[q] /\ owed'[q] = owed[q]
                              /\ worker'[q] = worker[q] /\ ok'[q] = ok[q] /\ size'[q] = size[q]
  PROVE  OwedInd'
<1>1. ASSUME NEW q \in Pid, q # p PROVE \E m \in 0 .. NofBuf : OwedAs(q, m)'
  <2>1. PICK m \in 0 .. NofBuf : OwedAs(q, m)  BY DEF OwedInd
  <2>2. Pending(q)' <=> Pending(q)  BY <1>1 DEF Pending
  <2> QED  BY <1>1, <2>1, <2>2, OwedStays
<1> QED  BY <1>1 DEF OwedInd

(* The decoder writes behind the messages that wait. *)
LEMMA DecodeOwed ==
  ASSUME DlInd, DlTypeOK, OwedInd, NEW p \in Pid, NEW good \in BOOLEAN, decode_pdsch(p, good)
  PROVE  OwedInd'
<1> DEFINE b == IF good THEN tx[p].b ELSE Garbage
           r == rp[p]
<1>1. /\ worker[p] = "decode" /\ worker' = [worker EXCEPT ![p] = "tb_decoded"]
      /\ ok' = [ok EXCEPT ![p] = good] /\ data' = [data EXCEPT ![p][wp[p]] = b]
      /\ owed' = IF good /\ size[p] > 0 THEN [owed EXCEPT ![p] = Append(@, tx[p].b)] ELSE owed
      /\ valid' = valid /\ wp' = wp /\ rp' = rp /\ size' = size
  BY DEF decode_pdsch, WorkerGoes, fill, harqVars
<1>2. RingType /\ ~ valid[p][wp[p]]  BY <1>1 DEF DlInd, RingInd, BufferIsFree
<1>3. PICK n \in 0 .. NofBuf : OwedAs(p, n)  BY DEF OwedInd
<1>4. /\ Len(owed[p]) = n /\ Holds(p, n)
      /\ \A k \in 1 .. n : owed[p][k] = data[p][Ahead(r, k - 1)]
  BY <1>1, <1>3 DEF OwedAs, Pending
<1>5. n \in Nat /\ n < NofBuf /\ NofBuf \in Nat  BY <1>2, <1>4, WriteSlot, QueueAssumption
<1>6. /\ tx[p].b \in Block /\ owed[p] \in Seq(Block)
      /\ wp \in [Pid -> Slot] /\ DOMAIN worker = Pid /\ DOMAIN ok = Pid
      /\ data \in [Pid -> [Slot -> Block \cup {Garbage}]]
  BY DEF DlInd, BlockType, DlTypeOK, RingInd, RingType
<1>7. /\ wp[p] = Ahead(r, n)
      /\ \A k \in 0 .. NofBuf - 1 : Ahead(r, k) \in Slot /\ (valid[p][Ahead(r, k)] <=> k < n)
  BY <1>2, <1>4, <1>5, RingPlaces
<1>8. ASSUME NEW k \in 1 .. n PROVE owed[p][k] = data'[p][Ahead(r, k - 1)]
  <2>1. k - 1 \in 0 .. NofBuf - 1 /\ k - 1 < n  BY <1>5
  <2>2. Ahead(r, k - 1) \in Slot /\ Ahead(r, k - 1) # wp[p]  BY <1>2, <1>7, <2>1
  <2> QED  BY <1>1, <1>4, <1>6, <2>2
<1>9. data'[p][Ahead(r, n)] = b  BY <1>1, <1>6, <1>7
<1>11. OwedAs(p, n)'
  <2>1. Holds(p, n)'  BY <1>1, <1>4 DEF Holds
  <2>2. Pending(p)' <=> good /\ size[p] > 0  BY <1>1, <1>6 DEF Pending
  <2>3. CASE good /\ size[p] > 0
    <3>1. owed'[p] = Append(owed[p], tx[p].b) /\ b = tx[p].b
      BY <1>1, <2>3 DEF DlTypeOK
    <3>2. /\ Len(owed'[p]) = n + 1 /\ owed'[p][n + 1] = tx[p].b
          /\ \A k \in 1 .. n : owed'[p][k] = owed[p][k]
      <4>1. owed[p] \in Seq(Block) /\ tx[p].b \in Block /\ Len(owed[p]) = n  BY <1>4, <1>6
      <4>2. /\ Len(Append(owed[p], tx[p].b)) = Len(owed[p]) + 1
            /\ Append(owed[p], tx[p].b)[Len(owed[p]) + 1] = tx[p].b
            /\ \A k \in 1 .. Len(owed[p]) : Append(owed[p], tx[p].b)[k] = owed[p][k]
        BY <4>1, LongerSeq, Zenon
      <4> QED  BY <4>1, <4>2, <3>1
    <3>3. ASSUME NEW k \in 1 .. n + 1 PROVE owed'[p][k] = data'[p][Ahead(r, k - 1)]
      <4>1. CASE k = n + 1
        <5>1. k - 1 = n  BY <4>1, <1>5
        <5> QED  BY <3>1, <3>2, <4>1, <5>1, <1>9
      <4>2. CASE k # n + 1
        <5>1. k \in 1 .. n  BY <4>2, <1>5
        <5> QED  BY <3>2, <5>1, <1>8
      <4> QED  BY <4>1, <4>2
    <3> QED  BY <1>1, <2>1, <2>2, <2>3, <3>2, <3>3 DEF OwedAs
  <2>4. CASE ~ (good /\ size[p] > 0)
    BY <1>1, <1>4, <1>8, <2>1, <2>2, <2>4 DEF OwedAs
  <2> QED  BY <2>3, <2>4
<1>12. \A q \in Pid \ {p} : /\ data'[q] = data[q] /\ owed'[q] = owed[q]
                            /\ worker'[q] = worker[q] /\ ok'[q] = ok[q]
  BY <1>1, <1>6 DEF DlTypeOK
<1> QED  BY <1>1, <1>11, <1>12, OneRingOwes

(* push_pdu() makes the pending block the last message of the ring. *)
LEMMA TbDecodedOwed ==
  ASSUME DlInd, DlTypeOK, OwedInd, NEW p \in Pid, NEW match \in BOOLEAN, tb_decoded(p, match)
  PROVE  OwedInd'
<1>1. /\ worker[p] = "tb_decoded"
      /\ worker' = [worker EXCEPT ![p] = IF ok[p] THEN "notify" ELSE "feedback"]
      /\ IF ok[p] /\ size[p] > 0 THEN push(p) ELSE UNCHANGED <<valid, wp>>
      /\ ok' = ok /\ data' = data /\ owed' = owed /\ rp' = rp /\ size' = size
  BY DEF tb_decoded, WorkerGoes
<1>2. RingType /\ ~ valid[p][wp[p]]  BY <1>1 DEF DlInd, RingInd, BufferIsFree
<1>3. PICK n \in 0 .. NofBuf : OwedAs(p, n)  BY DEF OwedInd
<1>4. /\ Holds(p, n) /\ Len(owed[p]) = IF ok[p] /\ size[p] > 0 THEN n + 1 ELSE n
      /\ \A k \in 1 .. Len(owed[p]) : owed[p][k] = data[p][Ahead(rp[p], k - 1)]
  BY <1>1, <1>3 DEF OwedAs, Pending
<1>5. worker'[p] \in {"notify", "feedback"} /\ ~ Pending(p)'
  BY <1>1, <1>2 DEF RingType, Pending
<1>6. \E m \in 0 .. NofBuf : OwedAs(p, m)'
  <2>1. CASE ok[p] /\ size[p] > 0
    <3>1. push(p)  BY <1>1, <2>1
    <3>2. n + 1 \in 0 .. NofBuf /\ Holds(p, n + 1)'
      BY <1>1, <1>2, <1>4, <3>1, PushHolds
    <3>3. OwedAs(p, n + 1)'  BY <1>1, <1>4, <1>5, <2>1, <3>2 DEF OwedAs
    <3> QED  BY <3>2, <3>3
  <2>2. CASE ~ (ok[p] /\ size[p] > 0)
    <3>1. Holds(p, n)'  BY <1>1, <1>4, <2>2 DEF Holds
    <3>2. OwedAs(p, n)'  BY <1>1, <1>4, <1>5, <2>2, <3>1 DEF OwedAs
    <3> QED  BY <3>2
  <2> QED  BY <2>1, <2>2
<1>7. \A q \in Pid \ {p} : /\ valid'[q] = valid[q] /\ wp'[q] = wp[q]
                           /\ worker'[q] = worker[q]
  BY <1>1, <1>2 DEF RingType, push
<1> QED  BY <1>1, <1>6, <1>7, OneRingOwes

(* The PDU thread hands up the oldest block of the ring it looks at. *)
LEMMA ProcessOwed ==
  ASSUME DlInd, DlTypeOK, OwedInd, PduThreadStep, process_pdu, NEW p \in Pid, p = idx
  PROVE  OwedInd'
<1> DEFINE r == rp[p]
<1>1. /\ valid' = [valid EXCEPT ![p][rp[p]] = FALSE]
      /\ data' = [data EXCEPT ![p][rp[p]] = Garbage]
      /\ rp' = [rp EXCEPT ![p] = next(rp[p])] /\ wp' = wp
      /\ owed' = [owed EXCEPT ![p] = SubSeq(@, 2, Len(@))]
      /\ worker' = worker /\ ok' = ok /\ size' = size
  BY DEF process_pdu, PduThreadStep, ThreadStep, harqVars, workerVars
<1>2. /\ RingType /\ valid[p][r] /\ r \in Slot
      /\ data \in [Pid -> [Slot -> Block \cup {Garbage}]]
      /\ owed \in [Pid -> Seq(Block)]
  BY DEF DlInd, RingInd, RingType, RingInv, process_pdu, BlockType, DlTypeOK
<1>3. PICK n \in 0 .. NofBuf : OwedAs(p, n)  BY <1>2 DEF OwedInd
<1>4. /\ Holds(p, n) /\ Len(owed[p]) = IF Pending(p) THEN n + 1 ELSE n
      /\ \A k \in 1 .. Len(owed[p]) : owed[p][k] = data[p][Ahead(r, k - 1)]
  BY <1>3 DEF OwedAs
<1>5. n - 1 \in 0 .. NofBuf /\ Holds(p, n - 1)'
  BY <1>1, <1>2, <1>4, ReleaseHolds
<1>6. Pending(p) => n < NofBuf
  <2> SUFFICES ASSUME Pending(p) PROVE n < NofBuf  OBVIOUS
  <2>1. ~ valid[p][wp[p]]  BY <1>2 DEF Pending, DlInd, RingInd, BufferIsFree
  <2> QED  BY <2>1, <1>2, <1>4, WriteSlot, QueueAssumption
<1>7. /\ \A k \in 0 .. NofBuf : Ahead(r, k) \in Slot
      /\ \A k \in 1 .. NofBuf - 1 : Ahead(r, k) # r
      /\ \A k \in 0 .. NofBuf - 1 : Ahead(next(r), k) = Ahead(r, k + 1)
  BY <1>2, <1>4, RingPlaces
<1>8. /\ rp'[p] = next(r) /\ owed'[p] = SubSeq(owed[p], 2, Len(owed[p]))
      /\ \A s \in Slot : s # r => data'[p][s] = data[p][s]
  BY <1>1, <1>2 DEF RingType
<1>9. \A q \in Pid \ {p} : /\ valid'[q] = valid[q] /\ rp'[q] = rp[q]
                           /\ data'[q] = data[q] /\ owed'[q] = owed[q]
  BY <1>1, <1>2 DEF RingType
<1>10. Pending(p)' <=> Pending(p)  BY <1>1 DEF Pending, process_pdu
<1>11. owed[p] \in Seq(Block) /\ NofBuf \in Nat /\ n \in Nat
  BY <1>2, QueueAssumption
<1> HIDE DEF r
<1> DEFINE o == owed[p]
           m == IF Pending(p) THEN n ELSE n - 1
<1>12. Len(o) = m + 1 /\ m \in Nat /\ m < NofBuf  BY <1>4, <1>5, <1>6, <1>11
<1>13. /\ owed'[p] \in Seq(Block) /\ Len(owed'[p]) = m
       /\ \A k \in 1 .. m : owed'[p][k] = o[k + 1]
  <2>1. 2 \in 1 .. Len(o) + 1 /\ Len(o) \in Nat  BY <1>12
  <2>2. \A k \in 2 .. Len(o) : o[k] \in Block
    <3>1. \A k \in 1 .. Len(o) : o[k] \in Block  BY <1>11, ElementOfSeq
    <3>2. \A k \in 2 .. Len(o) : k \in 1 .. Len(o)  BY <2>1
    <3> QED  BY <3>1, <3>2
  <2>3. /\ SubSeq(o, 2, Len(o)) \in Seq(Block)
        /\ Len(SubSeq(o, 2, Len(o))) = IF 2 <= Len(o) THEN Len(o) - 2 + 1 ELSE 0
        /\ \A k \in 1 .. Len(o) - 2 + 1 : SubSeq(o, 2, Len(o))[k] = o[2 + k - 1]
    BY <2>1, <2>2, SubSeqProperties
  <2> HIDE DEF o, m
  <2>4. Len(owed'[p]) = m  BY <1>8, <1>12, <2>3 DEF o
  <2>5. \A k \in 1 .. m : k \in 1 .. Len(o) - 2 + 1 /\ 2 + k - 1 = k + 1  BY <1>12
  <2> QED  BY <1>8, <2>3, <2>4, <2>5 DEF o
<1>14. ASSUME NEW k \in 1 .. m PROVE owed'[p][k] = data'[p][Ahead(rp'[p], k - 1)]
  <2> HIDE DEF m, o
  <2>1. /\ k + 1 \in 1 .. Len(o) /\ (k + 1) - 1 = k /\ k \in 1 .. NofBuf - 1 /\ k \in 0 .. NofBuf
        /\ k - 1 \in 0 .. NofBuf - 1 /\ (k - 1) + 1 = k
    BY <1>11, <1>12
  <2>2. owed'[p][k] = data[p][Ahead(r, k)]  BY <1>4, <1>13, <2>1 DEF o
  <2>3. Ahead(rp'[p], k - 1) = Ahead(r, k) /\ Ahead(r, k) \in Slot /\ Ahead(r, k) # r
    BY <1>7, <1>8, <2>1
  <2> QED  BY <1>8, <2>2, <2>3
<1>15. OwedAs(p, n - 1)'
  <2>1. m = IF Pending(p)' THEN (n - 1) + 1 ELSE n - 1  BY <1>10, <1>11
  <2> HIDE DEF m
  <2> QED  BY <1>5, <1>13, <1>14, <2>1 DEF OwedAs
<1> QED  BY <1>1, <1>2, <1>5, <1>9, <1>15, OneRingOwes

(* A reset drops the pending blocks. *)
LEMMA ResetOwed ==
  ASSUME DlTypeOK, OwedInd, MacReset
  PROVE  OwedInd'
<1>1. /\ size' = [p \in Pid |-> 0]
      /\ owed' = [p \in Pid |-> IF Pending(p) THEN SubSeq(owed[p], 1, Len(owed[p]) - 1)
                                ELSE owed[p]]
      /\ valid' = valid /\ wp' = wp /\ rp' = rp /\ data' = data
  BY DEF MacReset, queueVars, ringVars
<1>2. ASSUME NEW p \in Pid
      PROVE  \E n \in 0 .. NofBuf : OwedAs(p, n)'
  <2>1. PICK n \in 0 .. NofBuf : OwedAs(p, n)  BY DEF OwedInd
  <2>2. /\ Holds(p, n) /\ Len(owed[p]) = IF Pending(p) THEN n + 1 ELSE n
        /\ \A k \in 1 .. Len(owed[p]) : owed[p][k] = data[p][Ahead(rp[p], k - 1)]
        /\ n \in Nat
    BY <2>1, QueueAssumption DEF OwedAs
  <2>3. owed[p] \in Seq(Block)  BY DEF DlTypeOK
  <2>4. Holds(p, n)' /\ ~ Pending(p)'
    <3>1. size'[p] = 0  BY <1>1, Zenon
    <3>2. ~ Pending(p)'  BY <3>1, Places, Zenon DEF Pending
    <3> QED  BY <1>1, <2>2, <3>2, Zenon DEF Holds
  <2>5. CASE Pending(p)
    <3>1. owed'[p] = SubSeq(owed[p], 1, n) /\ Len(owed[p]) = n + 1
      <4>1. Len(owed[p]) = n + 1 /\ (n + 1) - 1 = n  BY <2>2, <2>5, Places, Zenon
      <4>2. owed'[p] = SubSeq(owed[p], 1, Len(owed[p]) - 1)  BY <1>1, <2>5, Zenon
      <4> QED  BY <4>1, <4>2, Zenon
    <3>2. \A k \in 1 .. n : owed[p][k] \in Block /\ k \in 1 .. Len(owed[p])
      BY <2>2, <2>3, <3>1, FrontOfSeq, Zenon
    <3>3. /\ SubSeq(owed[p], 1, n) \in Seq(Block) /\ Len(SubSeq(owed[p], 1, n)) = n
          /\ \A k \in 1 .. n : SubSeq(owed[p], 1, n)[k] = owed[p][k]
      BY <2>2, <2>3, <3>1, FrontOfSeq, Zenon
    <3>4. /\ owed'[p] \in Seq(Block) /\ Len(owed'[p]) = n
          /\ \A k \in 1 .. n : owed'[p][k] = owed[p][k]
      BY <3>1, <3>3
    <3>5. OwedAs(p, n)'  BY <1>1, <2>2, <2>4, <3>2, <3>4 DEF OwedAs
    <3> QED  BY <3>5
  <2>6. CASE ~ Pending(p)
    <3>1. owed'[p] = owed[p]  BY <1>1, <2>6
    <3>2. OwedAs(p, n)'  BY <1>1, <2>2, <2>4, <2>6, <3>1 DEF OwedAs
    <3> QED  BY <3>2
  <2> QED  BY <2>5, <2>6
<1> QED  BY <1>2 DEF OwedInd

(* The steps that leave the rings and what is pending alone. *)
LEMMA OthersOwed ==
  ASSUME DlInd, OwedInd
  PROVE  /\ \A p \in Pid : MissGrant(p) \/ notify_and_feedback(p) => OwedInd'
         /\ \A p \in Pid : \A g, soon, aligned : NewGrant(p, g, soon, aligned) => OwedInd'
         /\ PduThreadStep /\ ~ process_pdu => OwedInd'
         /\ UNCHANGED dlVars => OwedInd'
<1>1. ASSUME ringVars' = ringVars, owed' = owed, \A q \in Pid : Pending(q)' <=> Pending(q)
      PROVE  OwedInd'
  <2>1. ASSUME NEW q \in Pid PROVE \E n \in 0 .. NofBuf : OwedAs(q, n)'
    <3>1. PICK n \in 0 .. NofBuf : OwedAs(q, n)  BY DEF OwedInd
    <3> QED  BY <1>1, <3>1, OwedStays DEF ringVars
  <2> QED  BY <2>1 DEF OwedInd
<1>2. ASSUME NEW p \in Pid, NEW to \in {"idle", "decode"}, worker[p] # "tb_decoded",
             worker' = [worker EXCEPT ![p] = to], \A q \in Pid \ {p} : ok'[q] = ok[q] /\ size'[q] = size[q]
      PROVE  \A q \in Pid : Pending(q)' <=> Pending(q)
  <2>1. DOMAIN worker = Pid  BY DEF DlInd, RingInd, RingType
  <2> QED  BY <1>2, <2>1 DEF Pending
<1>3. ASSUME UNCHANGED <<worker, ok, size>> PROVE \A q \in Pid : Pending(q)' <=> Pending(q)
  BY <1>3 DEF Pending
<1>4. ASSUME NEW p \in Pid, MissGrant(p) PROVE OwedInd'
  <2>1. ringVars' = ringVars /\ owed' = owed /\ UNCHANGED <<worker, ok, size>>
    BY <1>4 DEF MissGrant, queueVars, workerVars
  <2> QED  BY <1>1, <1>3, <2>1
<1>5. ASSUME NEW p \in Pid, notify_and_feedback(p) PROVE OwedInd'
  <2>1. /\ ringVars' = ringVars /\ owed' = owed /\ size' = size
        /\ ok' = [ok EXCEPT ![p] = FALSE] /\ worker[p] # "tb_decoded"
        /\ worker' = [worker EXCEPT ![p] = "idle"]
    BY <1>5 DEF notify_and_feedback, WorkerGoes, harqVars
  <2>2. \A q \in Pid \ {p} : ok'[q] = ok[q] /\ size'[q] = size[q]  BY <2>1 DEF DlInd, BlockType
  <2> QED  BY <1>1, <1>2, <2>1, <2>2
<1>6. ASSUME NEW p \in Pid, NEW g, NEW soon, NEW aligned, NewGrant(p, g, soon, aligned)
      PROVE  OwedInd'
  <2>1. /\ ringVars' = ringVars /\ owed' = owed /\ ok' = ok /\ worker[p] = "idle"
        /\ worker' = [worker EXCEPT ![p] = "decode"] \/ UNCHANGED worker
        /\ \E n : size' = [size EXCEPT ![p] = n]
    BY <1>6 DEF NewGrant, new_grant_dl
  <2>2. \A q \in Pid \ {p} : ok'[q] = ok[q] /\ size'[q] = size[q]  BY <2>1
  <2>3. worker' = [worker EXCEPT ![p] = "decode"] \/ worker' = [worker EXCEPT ![p] = "idle"]
    BY <2>1 DEF DlInd, RingInd, RingType
  <2> QED  BY <1>1, <1>2, <2>1, <2>2, <2>3
<1>7. ASSUME PduThreadStep, ~ process_pdu PROVE OwedInd'
  <2>1. UNCHANGED <<worker, ok, size>>
    BY <1>7 DEF PduThreadStep, ThreadStep, harqVars, workerVars
  <2>2. ringVars' = ringVars /\ pc # "process"
    BY <1>7 DEF PduThreadStep, ThreadStep, PduThread, pop, assign_have_data, wait_data
  <2>3. owed' = owed  BY <1>7, <2>2 DEF PduThreadStep
  <2> QED  BY <1>1, <1>3, <2>1, <2>2, <2>3
<1>8. ASSUME UNCHANGED dlVars PROVE OwedInd'
  <2>1. ringVars' = ringVars /\ owed' = owed /\ UNCHANGED <<worker, ok, size>>
    BY <1>8 DEF dlVars, queueVars, harqVars, workerVars
  <2> QED  BY <1>1, <1>3, <2>1
<1> QED  BY <1>4, <1>5, <1>6, <1>7, <1>8

(* Every step of the downlink. *)
LEMMA DlStepOwed ==
  ASSUME DlInd, DlTypeOK, OwedInd, [DlNext]_dlVars
  PROVE  OwedInd'
<1>1. ASSUME NEW p \in Pid, Worker(p) PROVE OwedInd'
  BY <1>1, DecodeOwed, TbDecodedOwed, OthersOwed DEF Worker
<1>2. CASE PduThreadStep
  <2>1. idx \in Pid  BY DEF DlInd, RingInd, RingType
  <2> QED  BY <1>2, <2>1, ProcessOwed, OthersOwed
<1>3. CASE MacReset  BY <1>3, ResetOwed
<1> QED  BY <1>1, <1>2, <1>3, OthersOwed DEF DlNext

(* What the invariant says of the sequences. *)
LEMMA OwedIsTheQueue ==
  ASSUME DlInd, DlTypeOK, OwedInd, NEW p \in Pid
  PROVE  owed[p] = Queued(p) \o IF Pending(p) THEN <<data[p][wp[p]]>> ELSE << >>
<1>1. PICK n \in 0 .. NofBuf : OwedAs(p, n)  BY DEF OwedInd
<1> DEFINE o == owed[p]
           r == rp[p]
           D == Block \cup {Garbage}
           Q == [k \in 1 .. n |-> data[p][Ahead(r, k - 1)]]
<1>2. /\ Holds(p, n) /\ Len(o) = IF Pending(p) THEN n + 1 ELSE n
      /\ \A k \in 1 .. Len(o) : o[k] = data[p][Ahead(r, k - 1)]
      /\ n \in Nat /\ NofBuf \in Nat
  BY <1>1, QueueAssumption DEF OwedAs
<1>3. RingType /\ o \in Seq(Block)  BY DEF DlTypeOK, DlInd, RingInd
<1>4. Queued(p) = Q  BY <1>2, <1>3, QueuedIs
<1>5. wp[p] = Ahead(r, n) /\ \A k \in 0 .. NofBuf : Ahead(r, k) \in Slot
  BY <1>2, <1>3, RingPlaces
<1>6. Q \in Seq(D) /\ Len(Q) = n
  <2>1. ASSUME NEW k \in 1 .. n PROVE data[p][Ahead(r, k - 1)] \in D
    <3>1. k - 1 \in 0 .. NofBuf  BY <1>2, Places, Zenon
    <3>2. Ahead(r, k - 1) \in Slot  BY <1>5, <3>1
    <3> QED  BY <3>2 DEF DlTypeOK, QueueTypeOK
  <2>2. Q \in Seq(D)  BY <1>2, <2>1
  <2>3. Len(Q) = n
    <3>1. Len(Q) \in Nat /\ DOMAIN Q = 1 .. Len(Q)  BY <2>2, LenProperties
    <3>2. DOMAIN Q = 1 .. n  OBVIOUS
    <3> QED  BY <1>2, <3>1, <3>2
  <2> QED  BY <2>2, <2>3
<1>7. \A k \in 1 .. n : Q[k] = data[p][Ahead(r, k - 1)]  OBVIOUS
<1> DEFINE t == IF Pending(p) THEN <<data[p][wp[p]]>> ELSE << >>
<1>8. /\ t \in Seq(D) /\ Len(t) = IF Pending(p) THEN 1 ELSE 0
      /\ Pending(p) => t[1] = data[p][wp[p]]
  <2>1. data[p][wp[p]] \in D  BY DEF DlTypeOK, QueueTypeOK
  <2> HIDE DEF D
  <2>2. CASE Pending(p)
    <3>1. t = <<data[p][wp[p]]>>  BY <2>2
    <3> HIDE DEF t
    <3> QED  BY ONLY <2>1, <2>2, <3>1
  <2>3. CASE ~ Pending(p)
    <3>1. t = << >>  BY <2>3
    <3> HIDE DEF t
    <3> QED  BY ONLY <2>3, <3>1
  <2> QED  BY <2>2, <2>3
<1> SUFFICES o = Q \o t  BY <1>4
<1> HIDE DEF Q, t, D
<1>9. /\ Q \o t \in Seq(D) /\ Len(Q \o t) = Len(Q) + Len(t)
      /\ \A k \in 1 .. Len(Q) + Len(t) : (Q \o t)[k] = IF k <= Len(Q) THEN Q[k] ELSE t[k - Len(Q)]
  BY <1>6, <1>8, ConcatProperties
<1>10. Len(Q \o t) = Len(o)  BY <1>2, <1>6, <1>8, <1>9
<1>11. ASSUME NEW k \in 1 .. Len(o) PROVE (Q \o t)[k] = o[k]
  <2>1. k \in 1 .. Len(Q) + Len(t)  BY <1>9, <1>10
  <2>2. CASE k <= n
    <3>1. (Q \o t)[k] = Q[k] /\ k \in 1 .. n  BY <1>2, <1>6, <1>9, <2>1, <2>2
    <3> QED  BY <1>2, <1>7, <3>1
  <2>3. CASE ~ (k <= n)
    <3>1. Pending(p) /\ k = n + 1 /\ k - 1 = n  BY <1>2, <2>3
    <3>2. (Q \o t)[k] = t[1]  BY <1>2, <1>6, <1>9, <2>1, <2>3, <3>1
    <3> QED  BY <1>2, <1>5, <1>8, <3>1, <3>2
  <2> QED  BY <2>2, <2>3
<1>12. o \in Seq(D)
  <2>1. \A k \in 1 .. Len(o) : o[k] \in Block  BY <1>3, ElementOfSeq
  <2>2. o \in [1 .. Len(o) -> D] /\ Len(o) \in Nat  BY <1>3, <2>1, LenProperties DEF D
  <2> QED  BY <2>2
<1> QED  BY <1>9, <1>10, <1>11, <1>12, SeqEqual

-----------------------------------------------------------------------------
(***************************************************************************)
(* The types of the downlink.                                              *)
(***************************************************************************)
Grant == [b : Block, ndi : BOOLEAN, size : Size, rnti : TempRnti \cup {User}]

(* What the base station may send has the type of a grant. *)
LEMMA GrantType ==
  ASSUME NEW p \in Pid, tx \in [Pid -> Grant], NEW g \in NewBlock(p) \cup Msg4(p) \cup Again(p)
  PROVE  g \in Grant
<1>1. tx[p] \in Grant  OBVIOUS
<1>2. (tx[p].b + 1) % NofBlocks \in Block
  <2>1. tx[p].b \in Block  BY <1>1 DEF Grant
  <2> QED  BY <2>1, BlockAssumption, SMT
<1>3. ASSUME NEW d \in BOOLEAN, NEW n \in Size, NEW t \in TempRnti \cup {User}, NEW b \in Block
      PROVE  [b |-> b, ndi |-> d, size |-> n, rnti |-> t] \in Grant
  BY DEF Grant
<1>4. CASE g \in NewBlock(p)
  <2>1. PICK n \in Size :
          g = [b |-> (tx[p].b + 1) % NofBlocks, ndi |-> ~ tx[p].ndi, size |-> n, rnti |-> User]
    BY <1>4 DEF NewBlock
  <2>2. (~ tx[p].ndi) \in BOOLEAN  OBVIOUS
  <2> QED  BY <1>2, <1>3, <2>1, <2>2
<1>5. CASE g \in Msg4(p)
  <2>1. PICK d \in TempNdi, n \in Size, t \in TempRnti :
          g = [b |-> (tx[p].b + 1) % NofBlocks, ndi |-> d, size |-> n, rnti |-> t]
    BY <1>5, Msg4Form, Zenon
  <2>2. d \in BOOLEAN  BY RntiAssumption
  <2> QED  BY <1>2, <1>3, <2>1, <2>2
<1>6. CASE g \in Again(p)  BY <1>1, <1>6 DEF Again
<1> QED  BY <1>4, <1>5, <1>6

(* All but the queues. *)
HarqType ==
  /\ ndi \in [Pid -> BOOLEAN] /\ size \in [Pid -> Size \cup {0}]
  /\ near \in [Pid -> BOOLEAN] /\ ack \in [Pid -> BOOLEAN]
  /\ last_temporal_crnti \in TempRnti \cup {User}
  /\ is_uecrid_successful \in BOOLEAN
  /\ action \in [Pid -> {"ack", "callback", "none"}] /\ ok \in [Pid -> BOOLEAN]
  /\ tx \in [Pid -> Grant]
  /\ decoded \in [Pid -> Block \cup {Garbage}]
  /\ feedback \in [Pid -> {"none", "ack", "nack"}]
  /\ owed \in [Pid -> Seq(Block)]

(* A grant that is missed, and one that is received. *)
LEMMA GrantKeepsTypes ==
  ASSUME HarqType, NEW p \in Pid, NEW g \in NewBlock(p) \cup Msg4(p) \cup Again(p)
  PROVE  /\ MissGrant(p) /\ tx' = [tx EXCEPT ![p] = g] => HarqType'
         /\ \A soon \in BOOLEAN, aligned \in BOOLEAN :
              NewGrant(p, g, soon, aligned) => HarqType'
<1>1. g \in Grant  BY GrantType DEF HarqType
<1>2. ASSUME MissGrant(p), tx' = [tx EXCEPT ![p] = g] PROVE HarqType'
  <2>1. /\ near' = [near EXCEPT ![p] = FALSE] /\ feedback' = [feedback EXCEPT ![p] = "none"]
        /\ UNCHANGED <<ndi, size, ack, last_temporal_crnti, is_uecrid_successful, action, ok,
                       decoded, owed>>
    BY <1>2 DEF MissGrant, workerVars
  <2> QED  BY <1>1, <1>2, <2>1 DEF HarqType
<1>3. ASSUME NEW soon \in BOOLEAN, NEW aligned \in BOOLEAN, NewGrant(p, g, soon, aligned)
      PROVE  HarqType'
  <2> DEFINE first == g.rnti # User /\ g.rnti # last_temporal_crnti
             grant == [g EXCEPT !.ndi = g.ndi \/ first]
             done  == ack[p] /\ ~ calc_is_new_transmission(p, grant, soon)
  <2>1. /\ last_temporal_crnti' = IF first THEN g.rnti ELSE last_temporal_crnti
        /\ ack' = [ack EXCEPT ![p] = done] /\ ndi' = [ndi EXCEPT ![p] = grant.ndi]
        /\ size' = [size EXCEPT ![p] = grant.size] /\ near' = [near EXCEPT ![p] = TRUE]
        /\ tx' = [tx EXCEPT ![p] = g]
        /\ UNCHANGED <<is_uecrid_successful, ok, decoded, owed>>
    BY <1>3 DEF NewGrant, new_grant_dl
  <2>2. \E a \in {"ack", "callback", "none"} : action' = [action EXCEPT ![p] = a] \/ UNCHANGED action
    BY <1>3 DEF NewGrant, new_grant_dl
  <2>3. \E f \in {"none", "ack", "nack"} : feedback' = [feedback EXCEPT ![p] = f]
    BY <1>3 DEF NewGrant, new_grant_dl, send_feedback
  <2>4. /\ grant.size \in Size \cup {0} /\ grant.ndi \in BOOLEAN /\ done \in BOOLEAN
        /\ g.rnti \in TempRnti \cup {User}
    <3>1. g.ndi \in BOOLEAN /\ first \in BOOLEAN /\ g.size \in Size /\ g.rnti \in TempRnti \cup {User}
      BY <1>1 DEF Grant
    <3>2. grant.size = g.size /\ grant.ndi = (g.ndi \/ first)  BY <1>1 DEF Grant
    <3>3. ack[p] \in BOOLEAN  BY DEF HarqType
    <3> HIDE DEF first, grant
    <3> QED  BY <3>1, <3>2, <3>3
  <2> HIDE DEF first, grant, done
  <2> QED  BY <1>1, <2>1, <2>2, <2>3, <2>4 DEF HarqType
<1> QED  BY <1>2, <1>3

(* A worker. *)
LEMMA WorkerKeepsTypes ==
  ASSUME HarqType, NEW p \in Pid, Worker(p)
  PROVE  HarqType'
<1>1. tx[p].b \in Block /\ owed[p] \in Seq(Block)  BY DEF HarqType, Grant
<1>2. ASSUME NEW good \in BOOLEAN, decode_pdsch(p, good) PROVE HarqType'
  <2>1. /\ ok' = [ok EXCEPT ![p] = good]
        /\ decoded' = IF good THEN [decoded EXCEPT ![p] = tx[p].b] ELSE decoded
        /\ owed' = IF good /\ size[p] > 0 THEN [owed EXCEPT ![p] = Append(@, tx[p].b)] ELSE owed
        /\ UNCHANGED <<ndi, size, near, ack, last_temporal_crnti, is_uecrid_successful, action, tx>>
    BY <1>2 DEF decode_pdsch, harqVars
  <2>2. UNCHANGED feedback \/ \E f \in {"ack", "nack"} : feedback' = [feedback EXCEPT ![p] = f]
    BY <1>2 DEF decode_pdsch, send_feedback
  <2>3. Append(owed[p], tx[p].b) \in Seq(Block)  BY <1>1, AppendProperties
  <2>4. decoded' \in [Pid -> Block \cup {Garbage}]  BY <1>1, <2>1 DEF HarqType
  <2>5. owed' \in [Pid -> Seq(Block)]  BY <2>1, <2>3 DEF HarqType
  <2>6. feedback' \in [Pid -> {"none", "ack", "nack"}]  BY <2>2 DEF HarqType
  <2> QED  BY <2>1, <2>4, <2>5, <2>6 DEF HarqType
<1>3. ASSUME NEW match \in BOOLEAN, tb_decoded(p, match) PROVE HarqType'
  <2>1. /\ ack' = [ack EXCEPT ![p] = ok[p]]
        /\ is_uecrid_successful' \in {match, is_uecrid_successful}
        /\ UNCHANGED <<ndi, size, near, last_temporal_crnti, action, ok, tx, decoded, feedback, owed>>
    BY <1>3 DEF tb_decoded
  <2> QED  BY <2>1 DEF HarqType
<1>4. ASSUME notify_and_feedback(p) PROVE HarqType'
  <2>1. /\ ok' = [ok EXCEPT ![p] = FALSE] /\ action' = [action EXCEPT ![p] = "none"]
        /\ UNCHANGED <<ndi, size, near, ack, last_temporal_crnti, is_uecrid_successful, tx, decoded, owed>>
    BY <1>4 DEF notify_and_feedback, harqVars
  <2>2. UNCHANGED feedback \/ \E f \in {"ack", "nack"} : feedback' = [feedback EXCEPT ![p] = f]
    BY <1>4 DEF notify_and_feedback, send_feedback
  <2>3. feedback' \in [Pid -> {"none", "ack", "nack"}]  BY <2>2 DEF HarqType
  <2> QED  BY <2>1, <2>3 DEF HarqType
<1> QED  BY <1>2, <1>3, <1>4 DEF Worker

(* A reset of the MAC and a step of the PDU thread. *)
LEMMA OthersKeepTypes ==
  ASSUME HarqType, MacReset \/ PduThreadStep \/ UNCHANGED dlVars
  PROVE  HarqType'
<1>1. CASE MacReset
  <2>1. /\ ack' = [p \in Pid |-> FALSE] /\ ndi' = [p \in Pid |-> FALSE]
        /\ size' = [p \in Pid |-> 0] /\ near' = [p \in Pid |-> FALSE]
        /\ UNCHANGED <<last_temporal_crnti, is_uecrid_successful, action, ok, tx, decoded, feedback>>
    BY <1>1 DEF MacReset, workerVars
  <2>2. owed' \in [Pid -> Seq(Block)]
    <3>1. \A p \in Pid : SubSeq(owed[p], 1, Len(owed[p]) - 1) \in Seq(Block) /\ owed[p] \in Seq(Block)
      BY PartOfSeq DEF HarqType
    <3> QED  BY <1>1, <3>1 DEF MacReset
  <2> QED  BY <2>1, <2>2 DEF HarqType
<1>2. CASE PduThreadStep
  <2>1. UNCHANGED <<ndi, size, near, ack, last_temporal_crnti, is_uecrid_successful, action, ok,
                    tx, decoded, feedback>>
    BY <1>2 DEF PduThreadStep, harqVars, workerVars
  <2>2. owed' \in [Pid -> Seq(Block)]
    <3>1. \A p \in Pid : SubSeq(owed[p], 2, Len(owed[p])) \in Seq(Block)  BY PartOfSeq DEF HarqType
    <3> QED  BY <1>2, <3>1 DEF PduThreadStep, HarqType
  <2> QED  BY <2>1, <2>2 DEF HarqType
<1>3. CASE UNCHANGED dlVars
  BY <1>3 DEF dlVars, harqVars, workerVars, HarqType
<1> QED  BY <1>1, <1>2, <1>3

(* Every step of the downlink keeps the types. *)
LEMMA DlStepKeepsTypes ==
  ASSUME DlInd, DlTypeOK, [DlNext]_dlVars
  PROVE  DlTypeOK'
<1>1. HarqType /\ QueueTypeOK  BY DEF DlTypeOK, HarqType, Grant
<1>2. QueueTypeOK'
  <2>1. [QueueNext]_queueVars  BY DlStep
  <2> QED  BY <1>1, <2>1, QueueStepKeepsTypes DEF DlInd
<1>3. HarqType'
  <2>1. ASSUME NEW p \in Pid, MissGrant(p) PROVE HarqType'
    <3>1. PICK g \in NewBlock(p) \cup Msg4(p) \cup Again(p) : tx' = [tx EXCEPT ![p] = g]
      BY <2>1 DEF MissGrant
    <3> QED  BY <1>1, <2>1, <3>1, GrantKeepsTypes
  <2> QED  BY <1>1, <2>1, GrantKeepsTypes, WorkerKeepsTypes, OthersKeepTypes DEF DlNext
<1> QED  BY <1>2, <1>3 DEF DlTypeOK, HarqType, Grant

(* The types hold at first. *)
LEMMA DlInitTypes ==
  ASSUME DlInit PROVE DlTypeOK
<1>1. QueueTypeOK  BY QueueInitTypes DEF DlInit
<1>2. 0 \in Block /\ 1 \in Size  BY BlockAssumption DEF Size
<1>3. tx \in [Pid -> Grant]  BY <1>2 DEF DlInit, Grant
<1>4. owed \in [Pid -> Seq(Block)]  BY DEF DlInit
<1> QED  BY <1>1, <1>3, <1>4 DEF DlInit, DlTypeOK, Grant

(* At first nothing is owed. *)
LEMMA DlInitOwed ==
  ASSUME DlInit PROVE DlInd /\ OwedInd
<1>1. RingInd  BY InitRings DEF DlInit
<1>2. 0 \in Block /\ 0 \in 0 .. NofBuf  BY BlockAssumption, QueueAssumption
<1>3. DlInd  BY <1>1, <1>2 DEF DlInd, DlInit, QueueInit, BlockType, OkIsFilled
<1>4. ASSUME NEW p \in Pid PROVE OwedAs(p, 0)
  <2>1. PICK n \in 0 .. NofBuf : Holds(p, n)  BY <1>1 DEF RingInd, RingInv
  <2>2. RingType /\ rp[p] \in Slot  BY <1>1 DEF RingInd, RingType
  <2>3. n = 0
    <3>1. Ahead(rp[p], 0) = rp[p] /\ \A k \in 0 .. NofBuf - 1 : valid[p][Ahead(rp[p], k)] <=> k < n
      BY <2>1, <2>2, RingPlaces
    <3>2. 0 \in 0 .. NofBuf - 1  BY QueueAssumption
    <3>3. ~ valid[p][rp[p]]  BY <2>2 DEF DlInit, QueueInit
    <3>4. ~ (0 < n)  BY <3>1, <3>2, <3>3
    <3> QED  BY <3>4, QueueAssumption
  <2>4. owed[p] = << >> /\ ~ Pending(p)  BY DEF DlInit, QueueInit, Pending
  <2> QED  BY <2>1, <2>3, <2>4 DEF OwedAs
<1> QED  BY <1>2, <1>3, <1>4 DEF OwedInd

(* The inductive invariant of the downlink. *)
LEMMA OwedInvariant == DlSpec => [](DlInd /\ DlTypeOK /\ OwedInd)
<1>1. DlInit => DlInd /\ DlTypeOK /\ OwedInd  BY DlInitOwed, DlInitTypes
<1>2. DlInd /\ DlTypeOK /\ OwedInd /\ [DlNext]_dlVars => (DlInd /\ DlTypeOK /\ OwedInd)'
  BY DlStep, DlStepKeepsTypes, DlStepOwed
<1> QED  BY <1>1, <1>2, PTL DEF DlSpec

(* For any number of processes, slots, blocks and sizes, whatever is sent  *)
(* and missed and whenever the MAC is reset: what a process has decoded    *)
(* waits in its ring, whole and in order, until the PDU thread hands it    *)
(* up, once.                                                               *)
THEOREM DecodedIsHandedUp == DlSpec => []OwedIsQueued
<1>1. DlInd /\ DlTypeOK /\ OwedInd => OwedIsQueued  BY OwedIsTheQueue DEF OwedIsQueued
<1> QED  BY <1>1, OwedInvariant, PTL

(* The state of the HARQ processes and their queues has its types; n_bytes *)
(* of a process is 0 or the size of a block.                               *)
THEOREM DlTypesCorrect == DlSpec => []DlTypeOK
  BY OwedInvariant, PTL
=============================================================================
