------------------------------ MODULE PduQueue ------------------------------
(***************************************************************************)
(* The ring buffers between the PHY workers and the PDU thread of the MAC: *)
(* one qbuff per HARQ process (qbuff.cc), the queue that holds them        *)
(* (pdu_queue.cc) and the thread that empties them (mac::pdu_process in    *)
(* mac.cc).  Writers and the thread share packets[] without a lock; the    *)
(* mutex of pdu_process protects have_data in notify() and while waiting,  *)
(* not where run_thread() assigns it.  A ring has one writer at a time,    *)
(* the worker that has a grant for its HARQ process.                       *)
(***************************************************************************)
EXTENDS Integers, Sequences

CONSTANTS NofPid,    \* NOF_HARQ_PID
          NofBuf,    \* nof_messages, the slots of a ring
          Block,     \* contents of a MAC PDU
          Garbage    \* the content of a buffer that failed to decode

ASSUME QueueAssumption == NofPid \in Nat \ {0} /\ NofBuf \in Nat \ {0}

Pid  == 0 .. NofPid - 1
Slot == 0 .. NofBuf - 1

VARIABLES
  valid,      \* packets[].valid of every ring
  data,       \* what packets[].ptr points to
  wp, rp,     \* write and read position of every ring
  have_data,  \* pdu_process::have_data
  pc,         \* where the PDU thread is
  idx,        \* the ring process_pdus() looks at
  found,      \* have_data of process_pdus()
  worker      \* what the worker with a grant for a process does next

ringVars   == <<valid, data, wp, rp>>
threadVars == <<pc, idx, found>>
queueVars  == <<ringVars, threadVars, have_data, worker>>

QueueTypeOK ==
  /\ valid \in [Pid -> [Slot -> BOOLEAN]]
  /\ data \in [Pid -> [Slot -> Block \cup {Garbage}]]
  /\ wp \in [Pid -> Slot] /\ rp \in [Pid -> Slot]
  /\ have_data \in BOOLEAN /\ found \in BOOLEAN
  /\ pc \in {"pop", "process", "assign", "wait"} /\ idx \in Pid
  /\ worker \in [Pid -> {"idle", "decode", "tb_decoded", "notify", "feedback"}]

QueueInit ==
  /\ valid = [p \in Pid |-> [s \in Slot |-> FALSE]]
  /\ data = [p \in Pid |-> [s \in Slot |-> Garbage]]
  /\ wp = [p \in Pid |-> 0] /\ rp = [p \in Pid |-> 0]
  /\ have_data = FALSE /\ pc = "pop" /\ idx = 0 /\ found = FALSE
  /\ worker = [p \in Pid |-> "idle"]

(* Mutant of next(): the position does not wrap. *)
next_no_wrap(s) == s + 1

(* Mutant of next(): the last slot is used twice. *)
next_stays(s) == IF s + 1 >= NofBuf THEN s ELSE s + 1

next(s) == IF s + 1 >= NofBuf THEN s + 1 - NofBuf ELSE s + 1

-----------------------------------------------------------------------------
(***************************************************************************)
(* The writer's side.                                                      *)
(***************************************************************************)
isfull(p) == valid[p][wp[p]]

(* Mutant of request(): a full ring is not noticed. *)
request_always(p) == TRUE

(* A buffer can be had. *)
request(p) == ~ isfull(p)

(* The decoder writes into the buffer that request() returned. *)
fill(p, b) == data' = [data EXCEPT ![p][wp[p]] = b]

push(p) ==
  /\ valid' = [valid EXCEPT ![p][wp[p]] = TRUE]
  /\ wp' = [wp EXCEPT ![p] = next(wp[p])]

notify == have_data' = TRUE

-----------------------------------------------------------------------------
(***************************************************************************)
(* The PDU thread: run_thread() calls process_pdus() over and over.        *)
(***************************************************************************)
(* Mutant of pop(): the loop ends before the last ring. *)
pop_skips_last ==
  /\ pc = "pop"
  /\ IF valid[idx][rp[idx]]
     THEN pc' = "process" /\ UNCHANGED idx
     ELSE IF idx + 1 < NofPid - 1
          THEN pc' = "pop" /\ idx' = idx + 1
          ELSE pc' = "assign" /\ idx' = 0
  /\ UNCHANGED <<ringVars, found, have_data>>

pop ==
  /\ pc = "pop"
  /\ IF valid[idx][rp[idx]]
     THEN pc' = "process" /\ UNCHANGED idx
     ELSE IF idx + 1 < NofPid
          THEN pc' = "pop" /\ idx' = idx + 1
          ELSE pc' = "assign" /\ idx' = 0
  /\ UNCHANGED <<ringVars, found, have_data>>

(* The callback has dealt with the PDU; its slot is released and what it   *)
(* holds is of no more use.                                                *)
process_pdu ==
  /\ pc = "process"
  /\ valid' = [valid EXCEPT ![idx][rp[idx]] = FALSE]
  /\ data' = [data EXCEPT ![idx][rp[idx]] = Garbage]
  /\ rp' = [rp EXCEPT ![idx] = next(rp[idx])]
  /\ found' = TRUE /\ pc' = "pop"
  /\ UNCHANGED <<wp, idx, have_data>>

(* have_data takes the result of process_pdus(), whatever notify() wrote   *)
(* to it in the meantime.                                                  *)
assign_have_data ==
  /\ pc = "assign"
  /\ have_data' = found
  /\ found' = FALSE
  /\ pc' = IF found THEN "pop" ELSE "wait"
  /\ UNCHANGED <<ringVars, idx>>

wait_data ==
  /\ pc = "wait" /\ have_data
  /\ pc' = "pop"
  /\ UNCHANGED <<ringVars, idx, found, have_data>>

PduThread == pop \/ process_pdu \/ assign_have_data \/ wait_data

-----------------------------------------------------------------------------
(***************************************************************************)
(* The queue with workers that may ask for a buffer at any time.           *)
(***************************************************************************)

(* The PDU thread finishes a pass over the rings in which it finds nothing *)
(* before a ring it has passed gets a second block: a process has a grant  *)
(* every eight TTIs at most.                                               *)
Timely(p) == \/ found \/ pc \in {"process", "wait"}
             \/ pc = "pop" /\ idx <= p
             \/ ~ valid[p][rp[p]]

WorkerGoes(p, from, to) == worker[p] = from /\ worker' = [worker EXCEPT ![p] = to]

RequestBuffer(p) ==
  /\ WorkerGoes(p, "idle", "decode") /\ Timely(p) /\ request(p)
  /\ UNCHANGED <<ringVars, threadVars, have_data>>

FillBuffer(p, b) ==
  /\ WorkerGoes(p, "decode", "tb_decoded")
  /\ fill(p, b)
  /\ UNCHANGED <<valid, wp, rp, threadVars, have_data>>

PushBuffer(p) ==
  /\ WorkerGoes(p, "tb_decoded", "notify")
  /\ data[p][wp[p]] # Garbage
  /\ push(p)
  /\ UNCHANGED <<data, rp, threadVars, have_data>>

(* What failed to decode is not pushed, nor what a reset of the MAC has    *)
(* overtaken; only the latter is notified all the same.                    *)
SkipBuffer(p) ==
  /\ \E to \in {"notify", "feedback"} : WorkerGoes(p, "tb_decoded", to)
  /\ UNCHANGED <<ringVars, threadVars, have_data>>

Notify(p) ==
  /\ WorkerGoes(p, "notify", "idle") /\ notify
  /\ UNCHANGED <<ringVars, threadVars>>

EndGrant(p) ==
  /\ WorkerGoes(p, "feedback", "idle")
  /\ UNCHANGED <<ringVars, threadVars, have_data>>

ThreadStep == PduThread /\ UNCHANGED worker

WorkerEnds(p) == PushBuffer(p) \/ SkipBuffer(p) \/ Notify(p) \/ EndGrant(p)

QueueNext ==
  \/ ThreadStep
  \/ \E p \in Pid :
       \/ RequestBuffer(p) \/ WorkerEnds(p)
       \/ \E b \in Block \cup {Garbage} : FillBuffer(p, b)

QueueSpec == QueueInit /\ [][QueueNext]_queueVars

(* The threads are scheduled; new blocks keep coming for every process,    *)
(* and neither the channel nor resets of the MAC spoil all of them.        *)
QueueFairSpec ==
  /\ QueueSpec
  /\ WF_queueVars(ThreadStep)
  /\ \A p \in Pid :
       /\ WF_queueVars(WorkerEnds(p)) /\ SF_queueVars(RequestBuffer(p))
       /\ WF_queueVars(\E b \in Block \cup {Garbage} : FillBuffer(p, b))
       /\ SF_queueVars(\E b \in Block : FillBuffer(p, b)) /\ SF_queueVars(PushBuffer(p))

(* Ring p holds n messages, in the slots from the read position on. *)
Holds(p, n) ==
  /\ wp[p] = (rp[p] + n) % NofBuf
  /\ \A s \in Slot : valid[p][s] <=> (s - rp[p]) % NofBuf < n

(* What waits in ring p, from the oldest on. *)
Queued(p) ==
  LET n == CHOOSE n \in 0 .. NofBuf : Holds(p, n)
  IN [k \in 1 .. n |-> data[p][(rp[p] + k - 1) % NofBuf]]

(* The valid slots of a ring are those from the read up to the write       *)
(* position: isempty() and isfull(), which look at one flag each without   *)
(* a lock, are right about the whole ring, and the PDU that the thread is  *)
(* processing is one of them.                                              *)
RingInv ==
  /\ \A p \in Pid : \E n \in 0 .. NofBuf : Holds(p, n)
  /\ pc = "process" => valid[idx][rp[idx]]

(* A queued block is handed up, although the PDU thread may overwrite the  *)
(* notification for it with the result of a pass that missed it and go to  *)
(* sleep: the next block of any process wakes it.  This takes a thread     *)
(* that keeps up, so that process_pdus() returns: it stays with a ring for *)
(* as long as that one is filled again.                                    *)
EveryBlockIsHandedUp ==
  []<>(pc \in {"assign", "wait"}) =>
    \A p \in Pid : valid[p][rp[p]] ~> pc = "process" /\ idx = p
=============================================================================
