----------------------------- MODULE PhyWorkers -----------------------------
(***************************************************************************)
(* The subframe pipeline of the PHY.  The receiver thread (phch_recv.cc)   *)
(* takes a worker of the pool (thread_pool.cc) for every subframe, fills   *)
(* its buffer and starts it; workers decode in parallel and transmit in    *)
(* turn: the mutexes of phch_common.cc pass a token from the slot of a     *)
(* subframe to the slot of the next one.  A lost synchronisation releases  *)
(* the worker, frees all tokens and starts the receiver again.             *)
(*                                                                         *)
(* One step is what one thread does under one mutex.  A worker waits for   *)
(* START_WORK under the mutex that start_worker() signals under, so that   *)
(* wait is a guard.  The status is not written under mutex_queue, so the   *)
(* sleep of the receiver on cvar_queue is modelled.                        *)
(***************************************************************************)
EXTENDS Integers, FiniteSetsExt

CONSTANTS
  NofWorkers,     \* nof_phy_threads
  NofMutex,       \* nof_tx_mutex: MUTEX_X_WORKER for each worker
  MaxErrors       \* how often the synchronisation is lost

ASSUME PhyWorkersAssumption ==
  /\ NofWorkers \in Nat \ {0} /\ NofMutex \in Nat \ {0} /\ NofMutex > NofWorkers
  /\ MaxErrors \in Nat

PhyThreads == 0 .. NofWorkers - 1
Slots   == 0 .. NofMutex - 1
Status  == {"IDLE", "START_WORK", "WORKER_READY", "WORKING"}

VARIABLES
  rx,             \* the receiver: where it is and the worker it has
  tx_mutex_cnt,   \* the slot of the next subframe
  status,         \* of every worker, as the pool sees it
  worker,         \* of every worker: where it is, its slot
  locked,         \* tx_mutex
  is_first_tx,
  errors

pwVars == <<rx, tx_mutex_cnt, status, worker, locked, is_first_tx, errors>>

PwTypeOK ==
  /\ rx \in [pc : {"find", "sleep", "take", "recv", "start", "release", "reset"},
             id : PhyThreads]
  /\ tx_mutex_cnt \in Slots
  /\ status \in [PhyThreads -> Status]
  /\ worker \in [PhyThreads -> [pc : {"wait", "work", "first", "lock", "tx", "unlock",
                                   "finish", "signal"}, slot : Slots]]
  /\ locked \in [Slots -> BOOLEAN] /\ is_first_tx \in BOOLEAN
  /\ errors \in 0 .. MaxErrors

PwInit ==
  /\ rx = [pc |-> "find", id |-> 0] /\ tx_mutex_cnt = 0
  /\ status = [w \in PhyThreads |-> "IDLE"]
  /\ worker = [w \in PhyThreads |-> [pc |-> "wait", slot |-> 0]]
  /\ locked = [s \in Slots |-> FALSE] /\ is_first_tx = TRUE
  /\ errors = 0

RxAt(a, b) == rx.pc = a /\ rx' = [rx EXCEPT !.pc = b]
At(w, a, b) == worker[w].pc = a /\ worker' = [worker EXCEPT ![w].pc = b]
(* Mutant of the count of slots: one too many. *)
NextSlot_late(slot) == (slot + 1) % (NofMutex + 1)
NextSlot(slot) == (slot + 1) % NofMutex

-----------------------------------------------------------------------------
(***************************************************************************)
(* The receiver: wait_worker(), the samples, start_worker().               *)
(***************************************************************************)
Finished == {w \in PhyThreads : status[w] = "IDLE"}

(* The test and the sleep are one step: both are under mutex_queue. *)
wait_worker ==
  /\ rx.pc = "find"
  /\ rx' = IF Finished = {} THEN [rx EXCEPT !.pc = "sleep"]
           ELSE [pc |-> "take", id |-> Min(Finished)]
  /\ UNCHANGED <<tx_mutex_cnt, status, worker, locked, is_first_tx, errors>>

take_worker ==
  /\ RxAt("take", "recv")
  /\ status' = [status EXCEPT ![rx.id] = "WORKER_READY"]
  /\ UNCHANGED <<tx_mutex_cnt, worker, locked, is_first_tx, errors>>

(* A subframe is in the buffer of the worker: set_tti(). *)
set_tti ==
  /\ rx.pc = "recv" /\ rx' = [rx EXCEPT !.pc = "start"]
  /\ worker' = [worker EXCEPT ![rx.id].slot = tx_mutex_cnt]
  /\ tx_mutex_cnt' = NextSlot(tx_mutex_cnt)
  /\ UNCHANGED <<status, locked, is_first_tx, errors>>

start_worker ==
  /\ RxAt("start", "find")
  /\ status' = [status EXCEPT ![rx.id] = "START_WORK"]
  /\ UNCHANGED <<tx_mutex_cnt, worker, locked, is_first_tx, errors>>

sync_error ==
  /\ RxAt("recv", "release")
  /\ errors < MaxErrors /\ errors' = errors + 1
  /\ UNCHANGED <<tx_mutex_cnt, status, worker, locked, is_first_tx>>

(* release() is finished(), called by the thread that would be woken up. *)
release ==
  /\ RxAt("release", "reset")
  /\ status' = [status EXCEPT ![rx.id] = "IDLE"]
  /\ UNCHANGED <<tx_mutex_cnt, worker, locked, is_first_tx, errors>>

(* reset_ul() opens every slot; the slot of the next subframe stays. *)
reset_ul ==
  /\ RxAt("reset", "find")
  /\ is_first_tx' = TRUE
  /\ locked' = [s \in Slots |-> FALSE]
  /\ UNCHANGED <<tx_mutex_cnt, status, worker, errors>>

Receiver == wait_worker \/ take_worker \/ set_tti \/ start_worker \/ release \/ reset_ul

-----------------------------------------------------------------------------
(***************************************************************************)
(* A worker: wait_to_start(), work_imp() with worker_end(), finished().    *)
(***************************************************************************)
wait_to_start(w) ==
  /\ status[w] = "START_WORK" /\ At(w, "wait", "work")
  /\ status' = [status EXCEPT ![w] = "WORKING"]
  /\ UNCHANGED <<rx, tx_mutex_cnt, locked, is_first_tx, errors>>

(* Mutant of work_imp(): the worker is given back before it transmits. *)
work_imp_returns_early(w) ==
  /\ At(w, "work", IF is_first_tx THEN "first" ELSE "lock")
  /\ status' = [status EXCEPT ![w] = "IDLE"]
  /\ UNCHANGED <<rx, tx_mutex_cnt, locked, is_first_tx, errors>>

(* The end of the decoding, up to the test of is_first_tx. *)
work_imp(w) ==
  /\ At(w, "work", IF is_first_tx THEN "first" ELSE "lock")
  /\ UNCHANGED <<rx, tx_mutex_cnt, status, locked, is_first_tx, errors>>

first_tx(w) ==
  /\ At(w, "first", "tx")
  /\ is_first_tx' = FALSE
  /\ UNCHANGED <<rx, tx_mutex_cnt, status, locked, errors>>

lock_tx(w) ==
  /\ At(w, "lock", "tx") /\ ~ locked[worker[w].slot]
  /\ locked' = [locked EXCEPT ![worker[w].slot] = TRUE]
  /\ UNCHANGED <<rx, tx_mutex_cnt, status, is_first_tx, errors>>

tx(w) ==
  /\ At(w, "tx", "unlock")
  /\ UNCHANGED <<rx, tx_mutex_cnt, status, locked, is_first_tx, errors>>

(* The next subframe may be transmitted; then tti_clock() and the rest of  *)
(* work_imp().                                                             *)
unlock_tx(w) ==
  /\ At(w, "unlock", "finish")
  /\ locked' = [locked EXCEPT ![NextSlot(worker[w].slot)] = FALSE]
  /\ UNCHANGED <<rx, tx_mutex_cnt, status, is_first_tx, errors>>

Woken == IF rx.pc = "sleep" THEN [rx EXCEPT !.pc = "find"] ELSE rx

(* Mutant of finished(): the receiver is signalled before the status. *)
finished_signal_first(w) ==
  /\ \/ /\ At(w, "finish", "signal") /\ rx' = Woken /\ UNCHANGED status
     \/ /\ At(w, "signal", "wait") /\ status' = [status EXCEPT ![w] = "IDLE"] /\ UNCHANGED rx
  /\ UNCHANGED <<tx_mutex_cnt, locked, is_first_tx, errors>>

(* The status under the mutex of the worker, then the signal under         *)
(* mutex_queue.                                                            *)
finished(w) ==
  /\ \/ /\ At(w, "finish", "signal")
        /\ status' = [status EXCEPT ![w] = "IDLE"] /\ UNCHANGED rx
     \/ /\ At(w, "signal", "wait")
        /\ rx' = Woken /\ UNCHANGED status
  /\ UNCHANGED <<tx_mutex_cnt, locked, is_first_tx, errors>>

Worker(w) ==
  \/ wait_to_start(w) \/ work_imp(w) \/ first_tx(w) \/ lock_tx(w) \/ tx(w)
  \/ unlock_tx(w) \/ finished(w)

PwNext == Receiver \/ sync_error \/ \E w \in PhyThreads : Worker(w)

(* Every thread that can go on does; no subframe has to be lost. *)
PwFairness == WF_pwVars(Receiver) /\ \A w \in PhyThreads : WF_pwVars(Worker(w))
PwSpec == PwInit /\ [][PwNext]_pwVars /\ PwFairness

-----------------------------------------------------------------------------
(* The buffer and the TTI of a worker are written by the receiver only     *)
(* while that worker waits: wait_worker() gives out no worker that is      *)
(* still in work_imp() (thread_pool.cc and phch_recv.cc).                  *)
BufferOwned ==
  rx.pc \in {"recv", "start", "release"} => worker[rx.id].pc \in {"wait", "signal"}

(* Subframes are received for ever: no signal of finished() is lost, and   *)
(* no worker waits for ever for its turn in worker_end(), whatever         *)
(* reset_ul() has done to the mutexes.                                     *)
SubframesGoOn == []<>(rx.pc = "recv")

(* A subframe is transmitted after the one before it: "Wait previous TTIs  *)
(* to be transmitted" (worker_end()).                                      *)
Pending(slot) ==
  \E w \in PhyThreads : worker[w].slot = slot /\ worker[w].pc \in {"work", "first", "lock"}
TxInOrder ==
  [][\A w \in PhyThreads : lock_tx(w) =>
       \A s \in Slots : NextSlot(s) = worker[w].slot => ~ Pending(s)]_pwVars

=============================================================================
