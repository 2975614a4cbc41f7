------------------------------- MODULE MacDl -------------------------------
(***************************************************************************)
(* Downlink transport blocks from the grant to the demultiplexer: the HARQ *)
(* processes (dl_harq.cc), the Temporal C-RNTI path of the demultiplexer   *)
(* (demux.cc), and the worker that carries a grant through them            *)
(* (phch_worker.cc), over the queues of PduQueue.  A worker finishes with  *)
(* a process before the next grant for it arrives, eight TTIs later;       *)
(* workers of different processes and the PDU thread interleave.           *)
(* The base station is free to send a new block or the last one again.     *)
(***************************************************************************)
EXTENDS PduQueue

CONSTANTS NofBlocks,    \* blocks are numbered modulo NofBlocks
          TempRnti,     \* Temporal C-RNTIs a base station gives out
          TempNdi,      \* the NDIs a base station may send Msg4 with
          MaxSize       \* sizes of blocks

ASSUME BlockAssumption == /\ NofBlocks \in Nat \ {0} /\ Block = 0 .. NofBlocks - 1
                          /\ Garbage \notin Block /\ MaxSize \in Nat \ {0}

Size == 1 .. MaxSize    \* n_bytes; 0 after a reset
User == 0               \* stands for the C-RNTI
ASSUME RntiAssumption == User \notin TempRnti /\ TempNdi \subseteq BOOLEAN

VARIABLES
  ndi, size,       \* cur_grant.ndi, cur_grant.n_bytes of every process
  near,            \* at most 8 TTIs have passed since cur_grant.tti
  ack,             \* dl_harq_process::ack
  last_temporal_crnti,
  is_uecrid_successful,
  action,          \* how a worker gives feedback: at once, by the callback or never
  ok,              \* the result of its decoder
  tx,              \* the base station: number, NDI, size, RNTI of the block
  decoded,         \* the block a process has decoded last
  feedback,        \* what was sent for the last transmission
  owed             \* decoded blocks not handed up yet, oldest first

harqVars   == <<ndi, size, near, ack, last_temporal_crnti>>
workerVars == <<action, ok>>
dlVars == <<queueVars, harqVars, is_uecrid_successful, workerVars, tx, decoded,
            feedback, owed>>

DlTypeOK ==
  /\ QueueTypeOK
  /\ ndi \in [Pid -> BOOLEAN] /\ size \in [Pid -> Size \cup {0}]
  /\ near \in [Pid -> BOOLEAN] /\ ack \in [Pid -> BOOLEAN]
  /\ last_temporal_crnti \in TempRnti \cup {User}
  /\ is_uecrid_successful \in BOOLEAN
  /\ action \in [Pid -> {"ack", "callback", "none"}] /\ ok \in [Pid -> BOOLEAN]
  /\ tx \in [Pid -> [b : Block, ndi : BOOLEAN, size : Size, rnti : TempRnti \cup {User}]]
  /\ decoded \in [Pid -> Block \cup {Garbage}]
  /\ feedback \in [Pid -> {"none", "ack", "nack"}]
  /\ owed \in [Pid -> Seq(Block)]

(* demux::is_uecrid_successful and dl_harq_entity::last_temporal_crnti     *)
(* have no initial value.                                                  *)
DlInit ==
  /\ QueueInit
  /\ ndi = [p \in Pid |-> FALSE] /\ size = [p \in Pid |-> 0]
  /\ near = [p \in Pid |-> FALSE] /\ ack = [p \in Pid |-> FALSE]
  /\ last_temporal_crnti \in TempRnti \cup {User} /\ is_uecrid_successful \in BOOLEAN
  /\ action = [p \in Pid |-> "none"]
  /\ ok = [p \in Pid |-> FALSE]
  /\ tx = [p \in Pid |-> [b |-> 0, ndi |-> FALSE, size |-> 1, rnti |-> User]]
  /\ decoded = [p \in Pid |-> Garbage]
  /\ feedback = [p \in Pid |-> "none"]
  /\ owed = [p \in Pid |-> << >>]

-----------------------------------------------------------------------------
(***************************************************************************)
(* The base station.  A new block toggles the NDI of the process; Msg4     *)
(* comes with a Temporal C-RNTI and opens a new context.                   *)
(***************************************************************************)
Again(p) == {tx[p]}
NewBlock(p) ==
  { [b |-> (tx[p].b + 1) % NofBlocks, ndi |-> ~ tx[p].ndi, size |-> n, rnti |-> User] :
      n \in Size }
Msg4(p) ==
  { [b |-> (tx[p].b + 1) % NofBlocks, ndi |-> d, size |-> n, rnti |-> t] :
      d \in TempNdi, n \in Size, t \in TempRnti }

(* The control channel of a transmission is not decoded. *)
MissGrant(p) ==
  /\ worker[p] = "idle"
  /\ \E g \in NewBlock(p) \cup Msg4(p) \cup Again(p) : tx' = [tx EXCEPT ![p] = g]
  /\ near' = [near EXCEPT ![p] = FALSE]
  /\ feedback' = [feedback EXCEPT ![p] = "none"]
  /\ UNCHANGED <<queueVars, ndi, size, ack, last_temporal_crnti,
                 is_uecrid_successful, workerVars, decoded, owed>>

-----------------------------------------------------------------------------
(***************************************************************************)
(* The steps of a worker with a downlink grant.                            *)
(***************************************************************************)

(* Mutant of calc_is_new_transmission(): only the NDI counts. *)
calc_is_new_transmission_ndi(p, g, soon) == g.ndi # ndi[p]

calc_is_new_transmission(p, g, soon) ==
  \/ ~ (soon /\ g.size = size[p])
  \/ g.ndi # ndi[p]

send_feedback(p, a) == feedback' = [feedback EXCEPT ![p] = IF a THEN "ack" ELSE "nack"]

(* new_grant_dl() of the entity and of the process; g is the grant as the  *)
(* base station sent it, soon tells whether it comes within eight TTIs of  *)
(* the last one, aligned whether the time alignment timer still runs.  A   *)
(* block that has been decoded is acknowledged again; one for which there  *)
(* is no buffer is not.                                                    *)
new_grant_dl(p, g, soon, aligned) ==
  LET first == g.rnti # User /\ g.rnti # last_temporal_crnti
      grant == [g EXCEPT !.ndi = g.ndi \/ first]
      done  == ack[p] /\ ~ calc_is_new_transmission(p, grant, soon)
  IN /\ last_temporal_crnti' = IF first THEN g.rnti ELSE last_temporal_crnti
     /\ ack' = [ack EXCEPT ![p] = done]
     /\ ndi' = [ndi EXCEPT ![p] = grant.ndi]
     /\ size' = [size EXCEPT ![p] = grant.size]
     /\ near' = [near EXCEPT ![p] = TRUE]
     /\ IF ~ done /\ request(p)
        THEN /\ worker' = [worker EXCEPT ![p] = "decode"]
             /\ action' = [action EXCEPT ![p] = IF ~ aligned THEN "none"
                                                ELSE IF g.rnti = User THEN "ack"
                                                ELSE "callback"]
             /\ feedback' = [feedback EXCEPT ![p] = "none"]
        ELSE /\ IF done /\ ~ aligned THEN feedback' = [feedback EXCEPT ![p] = "none"]
                ELSE send_feedback(p, done)
             /\ UNCHANGED <<worker, action>>

NewGrant(p, g, soon, aligned) ==
  /\ worker[p] = "idle" /\ Timely(p)
  /\ soon => near[p] /\ (g.rnti = User \/ g = tx[p])
  /\ tx' = [tx EXCEPT ![p] = g]
  /\ new_grant_dl(p, g, soon, aligned)
  /\ UNCHANGED <<ringVars, threadVars, have_data, is_uecrid_successful, ok, decoded,
                 owed>>

(* decode_pdsch() writes the buffer, and the feedback goes out unless the  *)
(* contention resolution has to decide.  After a reset of the MAC the      *)
(* block will not be pushed, so it is not owed.                            *)
decode_pdsch(p, good) ==
  /\ WorkerGoes(p, "decode", "tb_decoded")
  /\ ok' = [ok EXCEPT ![p] = good]
  /\ fill(p, IF good THEN tx[p].b ELSE Garbage)
  /\ decoded' = IF good THEN [decoded EXCEPT ![p] = tx[p].b] ELSE decoded
  /\ owed' = IF good /\ size[p] > 0 THEN [owed EXCEPT ![p] = Append(@, tx[p].b)] ELSE owed
  /\ IF action[p] = "ack" THEN send_feedback(p, good) ELSE UNCHANGED feedback
  /\ UNCHANGED <<valid, wp, rp, threadVars, have_data, harqVars,
                 is_uecrid_successful, action, tx>>

(* tb_decoded() of the process, which looks at cur_grant again: a good     *)
(* block of more than zero bytes is pushed.  In one with a Temporal C-RNTI *)
(* the identity is looked for first; match tells whether it is there and   *)
(* this UE's.                                                              *)
tb_decoded(p, match) ==
  /\ WorkerGoes(p, "tb_decoded", IF ok[p] THEN "notify" ELSE "feedback")
  /\ ack' = [ack EXCEPT ![p] = ok[p]]
  /\ IF ok[p] /\ size[p] > 0
     THEN /\ push(p)
          /\ is_uecrid_successful' = IF tx[p].rnti # User THEN match
                                     ELSE is_uecrid_successful
     ELSE UNCHANGED <<valid, wp, is_uecrid_successful>>
  /\ UNCHANGED <<data, rp, threadVars, have_data, ndi, size, near,
                 last_temporal_crnti, action, ok, tx, decoded, feedback, owed>>

(* Mutant of notify_and_feedback(): the PDU thread is not notified. *)
notify_and_feedback_silent(p) ==
  /\ \E from \in {"notify", "feedback"} : WorkerGoes(p, from, "idle")
  /\ ok' = [ok EXCEPT ![p] = FALSE]
  /\ action' = [action EXCEPT ![p] = "none"]
  /\ IF action[p] = "callback" THEN send_feedback(p, is_uecrid_successful)
     ELSE UNCHANGED feedback
  /\ UNCHANGED <<ringVars, threadVars, have_data, harqVars, is_uecrid_successful, tx,
                 decoded, owed>>

(* The PDU thread is notified, and generate_ack_callback() decides about   *)
(* the feedback that was postponed; the worker's variables are local.      *)
notify_and_feedback(p) ==
  /\ \/ WorkerGoes(p, "notify", "idle") /\ notify
     \/ WorkerGoes(p, "feedback", "idle") /\ UNCHANGED have_data
  /\ ok' = [ok EXCEPT ![p] = FALSE]
  /\ action' = [action EXCEPT ![p] = "none"]
  /\ IF action[p] = "callback" THEN send_feedback(p, is_uecrid_successful)
     ELSE UNCHANGED feedback
  /\ UNCHANGED <<ringVars, threadVars, harqVars, is_uecrid_successful, tx, decoded,
                 owed>>

Worker(p) == \/ \E good \in BOOLEAN : decode_pdsch(p, good)
             \/ \E match \in BOOLEAN : tb_decoded(p, match)
             \/ notify_and_feedback(p)

(* A decoded block that will be pushed. *)
Pending(p) == worker[p] = "tb_decoded" /\ ok[p] /\ size[p] > 0

(* dl_harq_entity::reset(), when the MAC is reset: the queues stay, the    *)
(* blocks on their way to them are dropped.                                *)
MacReset ==
  /\ ack' = [p \in Pid |-> FALSE] /\ ndi' = [p \in Pid |-> FALSE]
  /\ size' = [p \in Pid |-> 0] /\ near' = [p \in Pid |-> FALSE]
  /\ owed' = [p \in Pid |-> IF Pending(p) THEN SubSeq(owed[p], 1, Len(owed[p]) - 1)
                            ELSE owed[p]]
  /\ UNCHANGED <<queueVars, last_temporal_crnti, is_uecrid_successful,
                 workerVars, tx, decoded, feedback>>

PduThreadStep ==
  /\ ThreadStep
  /\ owed' = IF pc = "process" THEN [owed EXCEPT ![idx] = SubSeq(@, 2, Len(@))] ELSE owed
  /\ UNCHANGED <<harqVars, is_uecrid_successful, workerVars, tx, decoded, feedback>>

DlNext ==
  \/ \E p \in Pid :
       \/ MissGrant(p) \/ Worker(p)
       \/ \E g \in NewBlock(p) \cup Msg4(p) \cup Again(p), soon, aligned \in BOOLEAN :
            NewGrant(p, g, soon, aligned)
  \/ MacReset \/ PduThreadStep

DlSpec == DlInit /\ [][DlNext]_dlVars

-----------------------------------------------------------------------------
(***************************************************************************)
(* Properties.                                                             *)
(***************************************************************************)

(* Every block that a worker decoded waits in its ring, unaltered and in   *)
(* order, until the PDU thread hands it up: between request_buffer() and   *)
(* push_pdu(), which two threads run without a lock, no block is lost,     *)
(* overwritten or handed up twice.                                         *)
OwedIsQueued ==
  \A p \in Pid :
    owed[p] = Queued(p) \o IF Pending(p) THEN <<data[p][wp[p]]>> ELSE << >>

(* An ACK for a block sent to the C-RNTI means that this very block has    *)
(* been decoded: dl_harq_process never takes a new block for a repetition  *)
(* of the last, whatever grants are missed and whenever the MAC is reset.  *)
(* It takes a base station that sends Msg4 with NDI 1 (TempNdi = {TRUE}):  *)
(* dl_harq_entity stores 1 for it, and with 0 this is violated.            *)
AckedIsDecoded ==
  \A p \in Pid : feedback[p] = "ack" /\ tx[p].rnti = User => tx[p].b = decoded[p]

(* mac_interface.h: the callback that decides about the ACK is called      *)
(* after tb_decoded_ok, so a block with a Temporal C-RNTI that is          *)
(* acknowledged has been decoded.                                          *)
TempAckedIsDecoded ==
  \A p \in Pid : feedback[p] = "ack" /\ tx[p].rnti # User => tx[p].b = decoded[p]

(* Seen from the queues, the HARQ processes are workers that keep the      *)
(* discipline of PduQueue: a buffer is asked for, filled and pushed by one *)
(* worker at a time, and what is pushed is notified.                       *)
DlImplementsQueue == QueueSpec
=============================================================================
