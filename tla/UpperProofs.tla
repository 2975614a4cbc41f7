---------------------------- MODULE UpperProofs ----------------------------
(***************************************************************************)
(* The upper layers.  RRC waits for the network only while something will  *)
(* end the wait, for every limit of the sync counters and any number of    *)
(* failures, releases, pagings and packets.  And for every window size of  *)
(* rlc_um.cc the edges of the receiving window, the PDUs that are stored   *)
(* and the reordering timer agree, in whatever order the PDUs come.        *)
(***************************************************************************)
EXTENDS RrcConn, RlcUm, TLAPS

Request == {"RRC_CON_REQ", "RRC_CON_REEST_REQ"}

LastIs(s, msg) == s # <<>> /\ s[Len(s)] = msg

WaitType ==
  /\ srb0 \in Seq(Request) /\ dl_ccch \in Seq(CcchMsg)
  /\ thread \in [RrcThreads -> {"free", "paged", "resync", "reset"}]
  /\ raced \in BOOLEAN

(* A queued re-establishment request may stay without an answer, so "a      *)
(* request is queued" is not inductive: the last one in the queue has to be *)
(* a connection request, or T301 runs.  And no state WAIT_FOR_CON_SETUP     *)
(* comes up inside a release without that being noted.                      *)
WaitInd ==
  /\ WaitType
  /\ rrc_state = "WAIT_FOR_CON_SETUP" /\ MutexHeld => raced
  /\ rrc_state = "WAIT_FOR_CON_SETUP" /\ ~ raced =>
       \/ LastIs(srb0, "RRC_CON_REQ") \/ dl_ccch # <<>> \/ "t301" \in running
       \/ \E t \in RrcThreads : ~ Free(t)

(* When the MIB has been read nothing is waited for. *)
LEMMA WaitInit == RrcInit => WaitInd
<1> SUFFICES ASSUME RrcInit PROVE WaitInd
  OBVIOUS
<1>1. thread \in [RrcThreads -> {"free", "paged", "resync", "reset"}] /\ raced \in BOOLEAN
  BY Zenon DEF RrcInit
<1>2. srb0 \in Seq(Request) /\ dl_ccch \in Seq(CcchMsg)
  BY DEF RrcInit
<1>3. rrc_state = "SIB1_SEARCH"
  BY DEF RrcInit
<1> QED  BY <1>1, <1>2, <1>3 DEF WaitInd, WaitType

(* What the wait needs of a sequence: the last request stays last when one  *)
(* before it leaves.                                                        *)
LEMMA TailKeepsLast ==
  ASSUME NEW s \in Seq(Request), NEW msg, LastIs(s, msg)
  PROVE  LastIs(Tail(s), msg) \/ Head(s) = msg
<1>1. s # <<>> /\ s[Len(s)] = msg
  BY DEF LastIs
<1>2. Len(s) \in Nat \ {0}
  BY <1>1
<1>3. Head(s) = s[1] /\ Tail(s) \in Seq(Request) /\ Len(Tail(s)) = Len(s) - 1
      /\ \A i \in 1 .. Len(Tail(s)) : Tail(s)[i] = s[i + 1]
  BY <1>1
<1>4. CASE Len(s) = 1
  BY <1>1, <1>3, <1>4
<1>5. CASE Len(s) > 1
  <2>1. Len(Tail(s)) \in 1 .. Len(Tail(s)) /\ Len(Tail(s)) + 1 = Len(s)
    BY <1>2, <1>3, <1>5
  <2>2. Tail(s)[Len(Tail(s))] = msg
    BY <1>1, <1>3, <2>1
  <2>3. Tail(s) # <<>>
    <3>1. Len(Tail(s)) # 0
      <4>1. \A n : n \in 1 .. n => n # 0
        OBVIOUS
      <4> QED  BY ONLY <2>1, <4>1, Zenon
    <3>2. Len(<<>>) = 0
      OBVIOUS
    <3> QED  BY ONLY <3>1, <3>2, Zenon
  <2> QED  BY <2>2, <2>3 DEF LastIs
<1>6. Len(s) = 1 \/ Len(s) > 1
  <2>1. \A n \in Nat \ {0} : n = 1 \/ n > 1
    OBVIOUS
  <2> QED  BY ONLY <1>2, <2>1, Zenon
<1> QED  BY <1>4, <1>5, <1>6

(* A request that is sent is the last one in the queue of SRB0. *)
LEMMA AppendIsLast ==
  ASSUME NEW s \in Seq(Request), NEW msg \in Request
  PROVE  Append(s, msg) \in Seq(Request) /\ LastIs(Append(s, msg), msg)
<1>1. Len(Append(s, msg)) = Len(s) + 1 /\ Append(s, msg)[Len(s) + 1] = msg
  OBVIOUS
<1>2. Append(s, msg) # <<>>
  BY <1>1
<1> QED  BY <1>1, <1>2 DEF LastIs

(* A thread that sends a connection request starts the wait.                *)
LEMMA RequestStarts ==
  ASSUME WaitInd, send_con_request, UNCHANGED dl_ccch,
         thread' \in [RrcThreads -> {"free", "paged", "resync", "reset"}],
         MutexHeld' => MutexHeld
  PROVE  WaitInd'
<1>1. srb0' \in Seq(Request) /\ LastIs(srb0', "RRC_CON_REQ")
  BY AppendIsLast DEF send_con_request, SendOnSrb0, WaitInd, WaitType, Request
<1>2. raced' \in BOOLEAN /\ (MutexHeld' => raced')
  BY Zenon DEF send_con_request, SendOnSrb0, WaitInd, WaitType
<1>3. WaitType'
  BY <1>1, <1>2 DEF WaitInd, WaitType
<1> QED  BY <1>1, <1>2, <1>3 DEF WaitInd

(* A thread that enters a release or a re-establishment: the state is IDLE, *)
(* or a thread is not free.                                                 *)
LEMMA Enters ==
  ASSUME WaitInd, NEW t \in RrcThreads,
         \/ Goto(t, "resync") /\ rrc_state' = rrc_state
         \/ Goto(t, "reset") /\ rrc_state' = "IDLE",
         UNCHANGED <<srb0, raced>>, dl_ccch' \in {dl_ccch, <<>>}
  PROVE  WaitInd'
<1>1. WaitType'
  <2>1. srb0' \in Seq(Request) /\ raced' \in BOOLEAN
    BY DEF WaitInd, WaitType
  <2>2. dl_ccch' \in Seq(CcchMsg)
    <3>1. <<>> \in Seq(CcchMsg)
      OBVIOUS
    <3> QED  BY <3>1, Zenon DEF WaitInd, WaitType
  <2>3. thread' \in [RrcThreads -> {"free", "paged", "resync", "reset"}]
    BY DEF WaitInd, WaitType, Goto
  <2> QED  BY <2>1, <2>2, <2>3 DEF WaitType
<1>2. CASE Goto(t, "resync") /\ rrc_state' = rrc_state
  <2>1. thread'[t] = "resync"
    BY <1>2 DEF WaitInd, WaitType, Goto
  <2>2. MutexHeld' => MutexHeld
    BY <1>2 DEF WaitInd, WaitType, Goto, MutexHeld
  <2> QED  BY <1>1, <1>2, <2>1, <2>2 DEF WaitInd, Free
<1>3. CASE Goto(t, "reset") /\ rrc_state' = "IDLE"
  BY <1>1, <1>3, SMTT(30) DEF WaitInd
<1> QED  BY <1>2, <1>3

(* No handler, timer, answer or packet leaves RRC in a wait that nothing   *)
(* ends.                                                                   *)
LEMMA WaitStep ==
  ASSUME WaitInd, [RrcNext]_rrcVars
  PROVE  WaitInd'
<1> USE DEF WaitInd, WaitType
<1>1. ASSUME NEW t \in RrcThreads, resync_done(t) PROVE WaitInd'
  <2>1. srb0' \in Seq(Request)
    BY <1>1, AppendIsLast DEF resync_done, SendOnSrb0, Request
  <2>2. "t301" \in running'
    BY <1>1 DEF resync_done
  <2>3. raced' = (raced \/ MutexHeld) /\ dl_ccch' = dl_ccch /\ thread' = [thread EXCEPT ![t] = "free"]
    BY <1>1 DEF resync_done, SendOnSrb0, Goto
  <2>4. MutexHeld' => MutexHeld
    BY <2>3 DEF MutexHeld
  <2> QED  BY <2>1, <2>2, <2>3, <2>4, Zenon
<1>2. ASSUME NEW t \in RrcThreads, release_resets(t) PROVE WaitInd'
  <2>1. MutexHeld
    BY <1>2 DEF release_resets, MutexHeld
  <2>2. WaitType' /\ rrc_state' = rrc_state /\ raced' = raced
    BY <1>2 DEF release_resets, Goto
  <2> QED  BY <2>1, <2>2
<1>3. CASE ra_problem
  BY <1>3, Enters
  DEF ra_problem, radio_link_failure, rrc_connection_release, send_con_restablish_request,
      mac_reset_all, RrcThreads
<1>4. CASE rrc_timer_expired
  BY <1>4, Enters
  DEF rrc_timer_expired, radio_link_failure, rrc_connection_release,
      send_con_restablish_request, mac_reset_all, RrcThreads
<1>5. CASE out_of_sync
  BY <1>5 DEF out_of_sync, radioVars, MutexHeld, Free
<1>6. CASE in_sync
  BY <1>6 DEF in_sync, radioVars, MutexHeld, Free
<1>7. CASE write_pdu_bcch_dlsch
  <2>1. thread' = thread /\ dl_ccch' = dl_ccch
    BY <1>7 DEF write_pdu_bcch_dlsch
  <2>2. CASE send_con_request
    BY <2>1, <2>2, RequestStarts DEF MutexHeld
  <2>3. CASE rrc_state' = "SIB2_SEARCH" /\ UNCHANGED <<srb0, raced>>
    BY <2>1, <2>3
  <2> QED  BY <1>7, <2>2, <2>3 DEF write_pdu_bcch_dlsch
<1>8. CASE write_pdu_pcch
  <2>1. Free("phy") /\ "phy" \in RrcThreads /\ UNCHANGED <<rrc_state, srb0, dl_ccch, raced, running>>
    BY <1>8 DEF write_pdu_pcch, syncVars, RrcThreads
  <2>2. thread' = [thread EXCEPT !["phy"] = "paged"] \/ thread' = [thread EXCEPT !["phy"] = "free"]
    BY <1>8, Zenon DEF write_pdu_pcch, Goto
  <2>3. \A t \in RrcThreads \ {"phy"} : thread'[t] = thread[t]
    BY <2>2
  <2>4. MutexHeld' => MutexHeld
    BY <2>1, <2>2, <2>3 DEF MutexHeld
  <2>5. (\E t \in RrcThreads : ~ Free(t)) => \E t \in RrcThreads : ~ Free(t)'
    BY <2>1, <2>3 DEF Free
  <2>6. WaitType'
    BY <2>1, <2>2
  <2> QED  BY <2>1, <2>4, <2>5, <2>6
<1>9. CASE paging_request
  <2>1. thread' = [thread EXCEPT !["phy"] = "free"] /\ dl_ccch' = dl_ccch /\ send_con_request
    BY <1>9 DEF paging_request, Goto
  <2>2. MutexHeld' => MutexHeld
    BY <2>1 DEF MutexHeld
  <2> QED  BY <2>1, <2>2, RequestStarts, Zenon
<1>10. CASE random_access
  <2>1. srb0 # <<>> /\ srb0' = Tail(srb0) /\ UNCHANGED <<rrc_state, thread, raced, running>>
    BY <1>10 DEF random_access, syncVars
  <2>2. Head(srb0) \in Request /\ Tail(srb0) \in Seq(Request)
    BY <2>1
  <2>3. PICK answer \in Seq(CcchMsg) :
          dl_ccch' = dl_ccch \o answer /\ (answer = <<>> => Head(srb0) # "RRC_CON_REQ")
    <3>1. <<"RRC_CON_SETUP">> \in Seq(CcchMsg) /\ <<"RRC_CON_REJ">> \in Seq(CcchMsg)
          /\ <<"RRC_CON_REEST">> \in Seq(CcchMsg) /\ <<"RRC_CON_REEST_REJ">> \in Seq(CcchMsg)
          /\ <<>> \in Seq(CcchMsg)
      BY DEF CcchMsg
    <3>2. <<"RRC_CON_SETUP">> # <<>> /\ <<"RRC_CON_REJ">> # <<>>
      OBVIOUS
    <3> QED  BY <1>10, <3>1, <3>2, Zenon DEF random_access, Accepts, Refuses
  <2>4. dl_ccch' \in Seq(CcchMsg) /\ (dl_ccch # <<>> \/ answer # <<>> => dl_ccch' # <<>>)
    <3>1. dl_ccch' \in Seq(CcchMsg) /\ Len(dl_ccch') = Len(dl_ccch) + Len(answer)
      BY <2>3
    <3>2. dl_ccch # <<>> => Len(dl_ccch) > 0
      OBVIOUS
    <3>3. answer # <<>> => Len(answer) > 0
      OBVIOUS
    <3> QED  BY <3>1, <3>2, <3>3
  <2>5. LastIs(srb0, "RRC_CON_REQ") => LastIs(srb0', "RRC_CON_REQ") \/ dl_ccch' # <<>>
    BY <2>1, <2>3, <2>4, TailKeepsLast
  <2> QED  BY <2>1, <2>2, <2>4, <2>5 DEF MutexHeld, Free
<1>11. CASE parse_dl_ccch
  <2>1. rrc_state' \in {"RRC_CONNECTED", "IDLE"}
    BY <1>11 DEF parse_dl_ccch
  <2>2. WaitType'
    BY <1>11 DEF parse_dl_ccch, Goto, MutexHeld
  <2> QED  BY <2>1, <2>2
<1>12. CASE handle_rrc_con_reconfig
  BY <1>12 DEF handle_rrc_con_reconfig, syncVars, MutexHeld, Free
<1>13. CASE parse_attach_reject
  BY <1>13 DEF parse_attach_reject, radioVars, syncVars, MutexHeld, Free
<1>14. CASE con_release
  BY <1>14, Enters DEF con_release, rrc_connection_release, RrcThreads
<1>15. CASE gw_read \/ gw_connected \/ gw_send \/ UNCHANGED rrcVars
  BY <1>15 DEF gw_read, gw_connected, gw_send, rrcVars, radioVars, syncVars, MutexHeld, Free
<1>16. CASE rrc_connect
  BY <1>16, RequestStarts DEF rrc_connect, MutexHeld
<1> QED
  BY <1>1, <1>2, <1>3, <1>4, <1>5, <1>6, <1>7, <1>8, <1>9, <1>10, <1>11, <1>12, <1>13, <1>14,
     <1>15, <1>16
  DEF RrcNext, Handlers, Gateway

(* For every n310 and n311 and any number of faults: RRC is in              *)
(* WAIT_FOR_CON_SETUP, which has no timer of its own, only while a request  *)
(* or its answer is on the way, T301 runs or a handler is still at work,    *)
(* unless a handler without the mutex came in the middle of a release.      *)
THEOREM WaitsAreAnswered == RrcSpec => []WaitIsAnswered
<1>1. WaitInd => WaitIsAnswered
  BY DEF WaitInd, WaitIsAnswered, LastIs
<1> QED  BY <1>1, WaitInit, WaitStep, PTL DEF RrcSpec

NasRec == [guti : BOOLEAN, registered : BOOLEAN, if_up : BOOLEAN]

(* RrcTypeOK, besides WaitType, by what the actions leave unchanged        *)
(* together.                                                               *)
ConnType ==
  /\ rrc_state \in RrcState /\ bearers \subseteq {"srb1", "drb1"}
  /\ drb_up \in BOOLEAN /\ rnti \in BOOLEAN /\ pcch \in BOOLEAN
  /\ running \subseteq RrcTimers
SyncType ==
  /\ sib2 \in BOOLEAN /\ n310_cnt \in 0 .. N310 + 1 /\ n311_cnt \in 0 .. N311 + 1
CountType ==
  /\ nas \in NasRec /\ gw \in {"read", "wait", "send"}
  /\ faults \in 0 .. MaxFaults /\ pagings \in 0 .. MaxPagings /\ packets \in 0 .. MaxPackets

(* When the MIB has been read every variable is in its range. *)
LEMMA RrcTypeInit == RrcInit => ConnType /\ SyncType /\ CountType
<1> SUFFICES ASSUME RrcInit PROVE ConnType /\ SyncType /\ CountType
  OBVIOUS
<1>1. ConnType
  BY DEF RrcInit, ConnType, RrcState, RrcTimers
<1>2. SyncType
  BY DEF RrcInit, SyncType
<1>3. CountType
  BY RrcAssumption DEF RrcInit, CountType, NasRec
<1> QED  BY <1>1, <1>2, <1>3

(* A fault is counted only below the bound. *)
LEMMA FaultType == ASSUME CountType, Fault, UNCHANGED <<nas, gw>> PROVE CountType'
  BY RrcAssumption DEF CountType, Fault

(* The counter of n310 or n311 stays below its limit, or stays where it    *)
(* was when it was above it.                                               *)
LEMMA CountStays ==
  ASSUME NEW n \in Nat \ {0}, NEW cnt \in 0 .. n + 1
  PROVE  Count(cnt, n) \in 0 .. n + 1
<1>1. cnt + 1 = Limit(n) => Count(cnt, n) = 0
  BY DEF Count
<1>2. cnt + 1 # Limit(n) => Count(cnt, n) = IF cnt > n THEN cnt ELSE cnt + 1
  BY DEF Count
<1> QED  BY <1>1, <1>2

(* The sync counters do not change. *)
LEMMA SyncSame == ASSUME SyncType, UNCHANGED <<n310_cnt, n311_cnt, sib2>> PROVE SyncType'
  BY DEF SyncType
(* NAS, the gateway and the bounds do not change. *)
LEMMA CountSame == ASSUME CountType, UNCHANGED <<nas, gw, countVars>> PROVE CountType'
  BY DEF CountType, countVars
(* Only the state of RRC changes. *)
LEMMA ConnSame ==
  ASSUME ConnType, rrc_state' \in RrcState, UNCHANGED <<drb_up, bearers, rnti, pcch, running>>
  PROVE  ConnType'
  BY DEF ConnType

(* rrc_connection_release() up to the resets. *)
LEMMA ReleaseType ==
  ASSUME ConnType, NEW t, rrc_connection_release(t), running' \subseteq running
  PROVE  ConnType'
  BY DEF ConnType, rrc_connection_release, RrcState

(* radio_link_failure(): a release or a re-establishment. *)
LEMMA FailureType ==
  ASSUME ConnType, NEW t, NEW rest \in SUBSET running, radio_link_failure(t, rest)
  PROVE  ConnType'
<1>1. CASE rrc_connection_release(t) /\ running' = rest
  BY <1>1, ReleaseType
<1>2. CASE send_con_restablish_request(t)
  BY <1>2 DEF ConnType, send_con_restablish_request, mac_reset_all
<1> QED  BY <1>1, <1>2 DEF radio_link_failure

(* Every handler keeps the ranges. *)
LEMMA RrcTypeStep ==
  ASSUME ConnType, SyncType, CountType, [RrcNext]_rrcVars
  PROVE  ConnType' /\ SyncType' /\ CountType'
<1>1. ASSUME NEW t \in RrcThreads, resync_done(t) \/ release_resets(t)
      PROVE  ConnType' /\ SyncType' /\ CountType'
  <2>1. ConnType'
    BY <1>1 DEF resync_done, release_resets, SendOnSrb0, ConnType, RrcState, RrcTimers
  <2> QED  BY <1>1, <2>1, SyncSame, CountSame DEF resync_done, release_resets
<1>2. CASE ra_problem
  BY <1>2, FailureType, FaultType, SyncSame DEF ra_problem
<1>3. CASE rrc_timer_expired
  <2>1. PICK timer \in running :
          \/ radio_link_failure("timers", running \ {timer})
          \/ rrc_connection_release("timers") /\ running' = running \ {timer}
    BY <1>3 DEF rrc_timer_expired
  <2>2. ConnType'
    BY <2>1, FailureType, ReleaseType
  <2> QED  BY <1>3, <2>2, SyncSame, CountSame DEF rrc_timer_expired
<1>4. CASE out_of_sync
  <2>1. n310_cnt' \in 0 .. N310 + 1
    BY <1>4, CountStays, RrcAssumption DEF out_of_sync, SyncType
  <2>2. ConnType'
    <3>1. running' \subseteq RrcTimers
      BY <1>4 DEF out_of_sync, ConnType, RrcTimers
    <3> QED  BY <1>4, <3>1 DEF out_of_sync, ConnType, radioVars
  <2> QED  BY <1>4, <2>1, <2>2, FaultType DEF out_of_sync, SyncType
<1>5. CASE in_sync
  <2>1. n311_cnt' \in 0 .. N311 + 1
    BY <1>5, CountStays, RrcAssumption DEF in_sync, SyncType
  <2>2. ConnType'
    <3>1. running' \subseteq RrcTimers
      BY <1>5 DEF in_sync, ConnType
    <3> QED  BY <1>5, <3>1 DEF in_sync, ConnType, radioVars
  <2> QED  BY <1>5, <2>1, <2>2, CountSame DEF in_sync, SyncType
<1>6. CASE write_pdu_bcch_dlsch
  <2>1. sib2' \in BOOLEAN
    BY <1>6 DEF write_pdu_bcch_dlsch, SyncType
  <2>2. rrc_state' \in RrcState
    BY <1>6 DEF write_pdu_bcch_dlsch, send_con_request, SendOnSrb0, RrcState
  <2> QED  BY <1>6, <2>1, <2>2, ConnSame, CountSame DEF write_pdu_bcch_dlsch, SyncType
<1>7. CASE write_pdu_pcch
  <2>1. CountType'
    BY <1>7, RrcAssumption DEF write_pdu_pcch, CountType
  <2> QED  BY <1>7, <2>1, SyncSame DEF write_pdu_pcch, ConnType, syncVars
<1>8. CASE paging_request \/ rrc_connect
  <2>1. rrc_state' \in RrcState
    BY <1>8 DEF paging_request, rrc_connect, send_con_request, SendOnSrb0, RrcState
  <2> QED
    BY <1>8, <2>1, ConnSame, SyncSame, CountSame DEF paging_request, rrc_connect, syncVars
<1>9. CASE random_access
  <2>1. CountType'
    <3>1. Fault \/ UNCHANGED countVars
      BY <1>9 DEF random_access
    <3> QED  BY <1>9, <3>1, FaultType, CountSame DEF random_access
  <2> QED  BY <1>9, <2>1, SyncSame DEF random_access, ConnType, syncVars
<1>10. CASE parse_dl_ccch
  <2>1. ConnType'
    BY <1>10 DEF parse_dl_ccch, ConnType, RrcState
  <2> QED  BY <1>10, <2>1, SyncSame, CountSame DEF parse_dl_ccch
<1>11. CASE handle_rrc_con_reconfig
  <2>1. nas' \in NasRec
    BY <1>11 DEF handle_rrc_con_reconfig, CountType, NasRec
  <2>2. ConnType'
    BY <1>11 DEF handle_rrc_con_reconfig, ConnType, syncVars
  <2> QED
    BY <1>11, <2>1, <2>2, SyncSame DEF handle_rrc_con_reconfig, CountType, syncVars, countVars
<1>12. CASE parse_attach_reject
  <2>1. CountType'
    <3>1. nas' \in NasRec
      BY <1>12 DEF parse_attach_reject, CountType, NasRec
    <3> QED  BY <1>12, <3>1, RrcAssumption DEF parse_attach_reject, CountType, Fault
  <2> QED  BY <1>12, <2>1, SyncSame DEF parse_attach_reject, ConnType, radioVars, syncVars
<1>13. CASE con_release
  BY <1>13, ReleaseType, SyncSame, FaultType DEF con_release, syncVars
<1>14. CASE gw_read
  <2>1. CountType'
    BY <1>14, RrcAssumption DEF gw_read, CountType
  <2> QED  BY <1>14, <2>1, SyncSame DEF gw_read, ConnType, radioVars, syncVars
<1>15. CASE gw_connected \/ gw_send
  BY <1>15, SyncSame DEF gw_connected, gw_send, ConnType, CountType, radioVars, syncVars, countVars
<1>16. CASE UNCHANGED rrcVars
  BY <1>16, SyncSame, CountSame DEF rrcVars, ConnType, radioVars, syncVars, countVars
<1> QED
  BY <1>1, <1>2, <1>3, <1>4, <1>5, <1>6, <1>7, <1>8, <1>9, <1>10, <1>11, <1>12, <1>13, <1>14,
     <1>15, <1>16
  DEF RrcNext, Handlers, Gateway

(* For every n310 and n311 and any number of faults: the variables of RRC  *)
(* stay in their ranges.                                                   *)
THEOREM RrcTypesCorrect == RrcSpec => []RrcTypeOK
<1>1. RrcInit => WaitInd /\ ConnType /\ SyncType /\ CountType
  BY WaitInit, RrcTypeInit
<1>2. WaitInd /\ ConnType /\ SyncType /\ CountType /\ [RrcNext]_rrcVars =>
        (WaitInd /\ ConnType /\ SyncType /\ CountType)'
  BY WaitStep, RrcTypeStep
<1>3. WaitInd /\ ConnType /\ SyncType /\ CountType => RrcTypeOK
  <2> SUFFICES ASSUME WaitInd, ConnType, SyncType, CountType PROVE RrcTypeOK
    OBVIOUS
  <2>1. {drb_up, sib2, rnti, pcch, raced} \subseteq BOOLEAN
    BY DEF ConnType, SyncType, WaitInd, WaitType
  <2> QED
    BY <2>1, Zenon
    DEF RrcTypeOK, ConnType, SyncType, CountType, NasRec, WaitInd, WaitType, Request
<1> QED  BY <1>1, <1>2, <1>3, PTL DEF RrcSpec

-----------------------------------------------------------------------------
UmSn == 0 .. rx_mod - 1

(* How far x is above b. *)
Up(x, b) == (x - b) % rx_mod

(* The remainder of a number that is at most two moduli below 0..rx_mod-1  *)
(* or one above.                                                           *)
LEMMA UmRemainder ==
  ASSUME NEW a \in Int
  PROVE  /\ 0 <= a /\ a < rx_mod => a % rx_mod = a
         /\ rx_mod <= a /\ a < 2 * rx_mod => a % rx_mod = a - rx_mod
         /\ -rx_mod <= a /\ a < 0 => a % rx_mod = a + rx_mod
         /\ -2 * rx_mod <= a /\ a < -rx_mod => a % rx_mod = a + 2 * rx_mod
<1>1. rx_mod \in Nat /\ 0 < rx_mod  BY UmAssumption
<1> QED  BY <1>1, SMT

(* RX_MOD_BASE as a distance: one addition of the modulus at most. *)
LEMMA UpValue ==
  ASSUME NEW x \in UmSn, NEW b \in UmSn
  PROVE  /\ Up(x, b) = IF b <= x THEN x - b ELSE x - b + rx_mod
         /\ Up(x, b) \in UmSn
<1>1. rx_mod \in Nat /\ x \in Int /\ b \in Int /\ 0 <= x /\ x < rx_mod /\ 0 <= b /\ b < rx_mod
  BY UmAssumption DEF UmSn
<1> QED  BY <1>1, UmRemainder DEF Up, UmSn

(* A sequence number that is counted up wraps at most once. *)
LEMMA AheadValue ==
  ASSUME NEW x \in UmSn, NEW n \in 0 .. rx_mod
  PROVE  /\ Ahead(x, n) = IF x + n < rx_mod THEN x + n ELSE x + n - rx_mod
         /\ Ahead(x, n) \in UmSn
<1>1. rx_mod \in Nat /\ x \in Int /\ 0 <= x /\ x < rx_mod /\ n \in Int /\ 0 <= n /\ n <= rx_mod
  BY UmAssumption DEF UmSn
<1> QED  BY <1>1, UmRemainder DEF Ahead, UmSn

(* Going up by a distance, and the distance of what is reached. *)
LEMMA UpAhead ==
  ASSUME NEW b \in UmSn, NEW x \in UmSn, NEW i \in UmSn
  PROVE  /\ Ahead(b, Up(x, b)) = x
         /\ Up(Ahead(b, i), b) = i
<1>0. rx_mod \in Nat /\ i \in 0 .. rx_mod  BY UmAssumption DEF UmSn
<1>1. PICK d \in UmSn : d = Up(x, b) /\ d = IF b <= x THEN x - b ELSE x - b + rx_mod
  BY UpValue
<1>2. d \in 0 .. rx_mod  BY <1>0 DEF UmSn
<1>3. Ahead(b, d) = IF b + d < rx_mod THEN b + d ELSE b + d - rx_mod  BY <1>2, AheadValue
<1>4. PICK p \in UmSn : p = Ahead(b, i) /\ p = IF b + i < rx_mod THEN b + i ELSE b + i - rx_mod
  BY <1>0, AheadValue
<1>5. Up(p, b) = IF b <= p THEN p - b ELSE p - b + rx_mod  BY UpValue
<1>6. Ahead(b, d) = x  BY <1>0, <1>1, <1>3 DEF UmSn
<1>7. Up(p, b) = i  BY <1>0, <1>4, <1>5 DEF UmSn
<1> QED  BY <1>1, <1>4, <1>6, <1>7

(* Distances after the base has gone up by n. *)
LEMMA UpShift ==
  ASSUME NEW b \in UmSn, NEW x \in UmSn, NEW n \in 0 .. rx_mod
  PROVE  Up(x, Ahead(b, n)) =
           IF n <= Up(x, b) THEN Up(x, b) - n ELSE Up(x, b) - n + rx_mod
<1>0. rx_mod \in Nat  BY UmAssumption
<1>1. PICK d \in UmSn : d = Up(x, b) /\ d = IF b <= x THEN x - b ELSE x - b + rx_mod
  BY UpValue
<1>2. PICK p \in UmSn : p = Ahead(b, n) /\ p = IF b + n < rx_mod THEN b + n ELSE b + n - rx_mod
  BY AheadValue
<1>3. Up(x, p) = IF p <= x THEN x - p ELSE x - p + rx_mod  BY UpValue
<1>4. Up(x, p) = IF n <= d THEN d - n ELSE d - n + rx_mod  BY <1>0, <1>1, <1>2, <1>3 DEF UmSn
<1> QED  BY <1>1, <1>2, <1>4

(* Going up twice. *)
LEMMA AheadTwice ==
  ASSUME NEW b \in UmSn, NEW m \in 0 .. rx_mod, NEW n \in 0 .. rx_mod, m + n <= rx_mod
  PROVE  Ahead(Ahead(b, m), n) = Ahead(b, m + n)
<1>0. rx_mod \in Nat /\ m + n \in 0 .. rx_mod  BY UmAssumption
<1>1. PICK p \in UmSn : p = Ahead(b, m) /\ p = IF b + m < rx_mod THEN b + m ELSE b + m - rx_mod
  BY AheadValue
<1>2. Ahead(p, n) = IF p + n < rx_mod THEN p + n ELSE p + n - rx_mod  BY AheadValue
<1>3. Ahead(b, m + n) = IF b + (m + n) < rx_mod THEN b + (m + n) ELSE b + (m + n) - rx_mod
  BY <1>0, AheadValue
<1>4. Ahead(p, n) = Ahead(b, m + n)  BY <1>0, <1>1, <1>2, <1>3 DEF UmSn
<1> QED  BY <1>1, <1>4

(* RX_MOD_BASE counts from the lower edge of the reordering window. *)
LEMMA ModBaseValue ==
  ASSUME NEW x \in UmSn, NEW uh \in UmSn
  PROVE  RX_MOD_BASE(x, uh) =
           IF Up(x, uh) < rx_window_size THEN Up(x, uh) + rx_window_size
           ELSE Up(x, uh) - rx_window_size
<1>0. /\ rx_mod \in Nat /\ rx_window_size \in Nat /\ rx_mod = 2 * rx_window_size
      /\ 0 < rx_window_size
  BY UmAssumption
<1>1. PICK d \in UmSn : d = Up(x, uh) /\ d = IF uh <= x THEN x - uh ELSE x - uh + rx_mod
  BY UpValue
<1>2. PICK a \in Int : a = x - uh - rx_window_size  BY <1>0 DEF UmSn
<1>3. /\ 0 <= a /\ a < rx_mod => a % rx_mod = a
      /\ -rx_mod <= a /\ a < 0 => a % rx_mod = a + rx_mod
      /\ -2 * rx_mod <= a /\ a < -rx_mod => a % rx_mod = a + 2 * rx_mod
  BY UmRemainder
<1>4. a % rx_mod = IF d < rx_window_size THEN d + rx_window_size ELSE d - rx_window_size
  BY <1>0, <1>1, <1>2, <1>3 DEF UmSn
<1> QED  BY <1>1, <1>2, <1>4 DEF RX_MOD_BASE

(* The same seen from the lower end of what is stored: vr_uh is t above    *)
(* it, x is d above it.                                                    *)
LEMMA ModBaseFrom ==
  ASSUME NEW b \in UmSn, NEW x \in UmSn, NEW uh \in UmSn, Up(uh, b) <= rx_window_size
  PROVE  RX_MOD_BASE(x, uh) =
           IF Up(x, b) < Up(uh, b) + rx_window_size THEN Up(x, b) - Up(uh, b) + rx_window_size
           ELSE Up(x, b) - Up(uh, b) - rx_window_size
<1>0. /\ rx_mod \in Nat /\ rx_window_size \in Nat /\ rx_mod = 2 * rx_window_size
      /\ 0 < rx_window_size
  BY UmAssumption
<1>1. PICK d \in UmSn : d = Up(x, b)  BY UpValue
<1>2. PICK t \in UmSn : t = Up(uh, b)  BY UpValue
<1>3. t \in 0 .. rx_mod /\ Ahead(b, t) = uh  BY <1>0, <1>2, UpAhead DEF UmSn
<1>4. Up(x, uh) = IF t <= d THEN d - t ELSE d - t + rx_mod  BY <1>1, <1>3, UpShift
<1>5. PICK e \in UmSn : e = Up(x, uh)  BY UpValue
<1>6. RX_MOD_BASE(x, uh) = IF e < rx_window_size THEN e + rx_window_size ELSE e - rx_window_size
  BY <1>5, ModBaseValue
<1>7. RX_MOD_BASE(x, uh) = IF d < t + rx_window_size THEN d - t + rx_window_size
                           ELSE d - t - rx_window_size
  BY <1>0, <1>2, <1>4, <1>5, <1>6 DEF UmSn
<1> QED  BY <1>1, <1>2, <1>7

-----------------------------------------------------------------------------
(***************************************************************************)
(* The loops that move vr_ur.                                              *)
(***************************************************************************)
(* A window w whose PDUs are less than t above b.  After c steps the loop  *)
(* over what is stored stops at t at the latest.                           *)
LEMMA StopsInTime ==
  ASSUME NEW b \in UmSn, NEW t \in 0 .. rx_mod, NEW c \in 0 .. t, NEW w,
         NEW n \in 0 .. rx_mod - 1, Ahead(b, t) \notin Stored(w),
         take_stored(w, Ahead(b, c), n)
  PROVE  c + n <= t
<1>0. rx_mod \in Nat /\ c \in 0 .. rx_mod  BY UmAssumption
<1> SUFFICES ASSUME t < c + n PROVE FALSE  BY <1>0
<1>1. PICK i \in 0 .. n - 1 : i = t - c  BY <1>0
<1>2. Ahead(Ahead(b, c), i) \in Stored(w)  BY <1>1 DEF take_stored
<1>3. i \in 0 .. rx_mod /\ c + i <= rx_mod /\ c + i = t  BY <1>0, <1>1
<1>4. Ahead(Ahead(b, c), i) = Ahead(b, t)  BY <1>0, <1>3, AheadTwice
<1> QED  BY <1>2, <1>4

(* The PDUs that n steps up from b leave in the window. *)
Left(w, b, n) == {p \in w : \A i \in 0 .. n - 1 : p.sn # Ahead(b, i)}

(* They are those at a distance of n or more. *)
LEMMA LeftIsAbove ==
  ASSUME NEW b \in UmSn, NEW n \in 0 .. rx_mod, NEW w, NEW p \in w, p.sn \in UmSn
  PROVE  p \in Left(w, b, n) <=> n <= Up(p.sn, b)
<1>0. rx_mod \in Nat  BY UmAssumption
<1>1. PICK d \in UmSn : d = Up(p.sn, b) /\ p.sn = Ahead(b, d)  BY UpValue, UpAhead
<1>2. ASSUME n <= d PROVE p \in Left(w, b, n)
  <2> SUFFICES ASSUME NEW i \in 0 .. n - 1, p.sn = Ahead(b, i) PROVE FALSE  BY DEF Left
  <2>1. i \in UmSn /\ i < d  BY <1>0, <1>2 DEF UmSn
  <2>2. Up(p.sn, b) = i  BY <2>1, UpAhead
  <2> QED  BY <1>1, <2>1, <2>2 DEF UmSn
<1>3. ASSUME ~ (n <= d) PROVE p \notin Left(w, b, n)
  <2>1. d \in 0 .. n - 1  BY <1>0, <1>3 DEF UmSn
  <2> QED  BY <1>1, <2>1 DEF Left
<1> QED  BY <1>1, <1>2, <1>3

(* What is left is above the new vr_ur and below vr_uh, which is at most   *)
(* a window away; the PDU below vr_uh is there until vr_ur gets to vr_uh.  *)
LEMMA WindowAfter ==
  ASSUME NEW b \in UmSn, NEW t \in 1 .. rx_mod, NEW c \in 0 .. t, t - c <= rx_window_size,
         NEW w, \A p \in w : p.sn \in UmSn /\ Up(p.sn, b) < t,
         Ahead(b, t) \notin Stored(w), Ahead(b, t - 1) \in Stored(w),
         NEW n \in 0 .. rx_mod - 1, take_stored(w, Ahead(b, c), n)
  PROVE  /\ c + n <= t
         /\ Up(Ahead(b, t), Ahead(b, c + n)) = t - (c + n)
         /\ \A p \in Left(w, b, c + n) : /\ 0 < Up(p.sn, Ahead(b, c + n))
                                         /\ Up(p.sn, Ahead(b, c + n)) < t - (c + n)
         /\ c + n < t => Ahead(b, t - 1) \in Stored(Left(w, b, c + n))
<1>0. /\ rx_mod \in Nat /\ rx_window_size \in Nat /\ rx_window_size < rx_mod
      /\ t \in 0 .. rx_mod /\ c \in 0 .. rx_mod
  BY UmAssumption
<1>1. c + n <= t  BY <1>0, StopsInTime
<1>2. PICK m \in 0 .. rx_mod : m = c + n /\ m <= t /\ t - m < rx_mod  BY <1>0, <1>1
<1>3. PICK b2 \in UmSn : b2 = Ahead(b, m)  BY AheadValue
<1>4. Up(Ahead(b, t), b2) = t - m
  <2>1. t - m \in UmSn /\ t - m \in 0 .. rx_mod /\ m + (t - m) = t  BY <1>0, <1>2 DEF UmSn
  <2>2. Ahead(b2, t - m) = Ahead(b, t)  BY <1>0, <1>3, <2>1, AheadTwice
  <2> QED  BY <1>3, <2>1, <2>2, UpAhead
<1>5. b2 \notin Stored(w)
  <2>1. Ahead(Ahead(b, c), n) \notin Stored(w)  BY DEF take_stored
  <2>2. n \in 0 .. rx_mod /\ c + n <= rx_mod  BY <1>0, <1>1
  <2> QED  BY <1>0, <1>2, <1>3, <2>1, <2>2, AheadTwice
<1>6. ASSUME NEW p \in Left(w, b, m) PROVE 0 < Up(p.sn, b2) /\ Up(p.sn, b2) < t - m
  <2>1. p \in w /\ p.sn \in UmSn /\ Up(p.sn, b) < t  BY DEF Left
  <2>2. m <= Up(p.sn, b)  BY <2>1, LeftIsAbove
  <2>3. Up(p.sn, b2) = Up(p.sn, b) - m  BY <1>3, <2>1, <2>2, UpShift
  <2>4. Up(p.sn, b) \in Nat
    <3>1. PICK d \in UmSn : d = Up(p.sn, b)  BY <2>1, UpValue
    <3> QED  BY <1>0, <3>1 DEF UmSn
  <2>5. Up(p.sn, b2) # 0
    <3>1. p.sn # b2  BY <1>5, <2>1 DEF Stored
    <3>2. Ahead(b2, Up(p.sn, b2)) = p.sn  BY <2>1, UpAhead
    <3>3. 0 \in 0 .. rx_mod /\ b2 + 0 < rx_mod /\ b2 + 0 = b2  BY <1>0 DEF UmSn
    <3>4. Ahead(b2, 0) = b2  BY <3>3, AheadValue
    <3> QED  BY <3>1, <3>2, <3>4
  <2> QED  BY <1>0, <2>1, <2>2, <2>3, <2>4, <2>5
<1>7. ASSUME m < t PROVE Ahead(b, t - 1) \in Stored(Left(w, b, m))
  <2>1. PICK p \in w : p.sn = Ahead(b, t - 1)  BY DEF Stored
  <2>2. t - 1 \in UmSn /\ m <= t - 1  BY <1>0, <1>7 DEF UmSn
  <2>3. Up(p.sn, b) = t - 1 /\ p.sn \in UmSn  BY <2>1, <2>2, UpAhead
  <2>4. p \in Left(w, b, m)  BY <2>2, <2>3, LeftIsAbove
  <2> QED  BY <2>1, <2>4 DEF Stored
<1> QED  BY <1>1, <1>2, <1>3, <1>4, <1>6, <1>7

(* The number below vr_uh. *)
LEMMA BelowTop ==
  ASSUME NEW b \in UmSn, NEW t \in 1 .. rx_mod
  PROVE  (Ahead(b, t) - 1) % rx_mod = Ahead(b, t - 1)
<1>0. rx_mod \in Nat /\ t \in 0 .. rx_mod /\ t - 1 \in 0 .. rx_mod  BY UmAssumption
<1>1. PICK p \in UmSn : p = Ahead(b, t) /\ p = IF b + t < rx_mod THEN b + t ELSE b + t - rx_mod
  BY <1>0, AheadValue
<1>2. Ahead(b, t - 1) = IF b + (t - 1) < rx_mod THEN b + (t - 1) ELSE b + (t - 1) - rx_mod
  BY <1>0, AheadValue
<1>3. PICK a \in Int : a = p - 1  BY <1>0 DEF UmSn
<1>4. /\ 0 <= a /\ a < rx_mod => a % rx_mod = a
      /\ -rx_mod <= a /\ a < 0 => a % rx_mod = a + rx_mod
  BY UmRemainder
<1>5. a % rx_mod = Ahead(b, t - 1)  BY <1>0, <1>1, <1>2, <1>3, <1>4 DEF UmSn
<1> QED  BY <1>1, <1>3, <1>5

-----------------------------------------------------------------------------
(***************************************************************************)
(* The inductive invariant: sequence numbers are in range, and vr_uh is at *)
(* most a window above vr_ur, without which the comparisons of RX_MOD_BASE *)
(* would say nothing of vr_ur.                                             *)
(***************************************************************************)
UmInd ==
  /\ vr_ur \in UmSn /\ vr_ux \in UmSn /\ vr_uh \in UmSn /\ vt_us \in UmSn
  /\ t_reordering \in BOOLEAN
  /\ \A p \in um_air \cup rx_window : p.sn \in UmSn
  /\ Up(vr_uh, vr_ur) <= rx_window_size
  /\ UmWindowInv

(* The tests that stop and start the timer. *)
LEMMA TimerTests ==
  ASSUME NEW ur \in UmSn, NEW ux \in UmSn, NEW uh \in UmSn, Up(uh, ur) <= rx_window_size
  PROVE  /\ RX_MOD_BASE(uh, uh) > RX_MOD_BASE(ur, uh) <=> Up(uh, ur) > 0
         /\ /\ RX_MOD_BASE(ux, uh) > RX_MOD_BASE(ur, uh)
            /\ inside_reordering_window(ux, uh) \/ ux = uh
            => 0 < Up(ux, ur) /\ Up(ux, ur) <= Up(uh, ur)
<1>0. /\ rx_mod \in Nat /\ rx_window_size \in Nat /\ rx_mod = 2 * rx_window_size
      /\ 0 < rx_window_size
  BY UmAssumption
<1>1. PICK t \in UmSn : t = Up(uh, ur)  BY UpValue
<1>2. PICK d \in UmSn : d = Up(ux, ur)  BY UpValue
<1>3. Up(ur, ur) = 0  BY <1>0, UpValue DEF UmSn
<1>4. RX_MOD_BASE(uh, uh) = rx_window_size
  <2>1. RX_MOD_BASE(uh, uh) = IF t < t + rx_window_size THEN t - t + rx_window_size
                              ELSE t - t - rx_window_size
    BY <1>1, ModBaseFrom
  <2> QED  BY <1>0, <2>1 DEF UmSn
<1>5. RX_MOD_BASE(ur, uh) = rx_window_size - t
  <2>1. RX_MOD_BASE(ur, uh) = IF 0 < t + rx_window_size THEN 0 - t + rx_window_size
                              ELSE 0 - t - rx_window_size
    BY <1>1, <1>3, ModBaseFrom
  <2> QED  BY <1>0, <2>1 DEF UmSn
<1>6. RX_MOD_BASE(ux, uh) = IF d < t + rx_window_size THEN d - t + rx_window_size
                            ELSE d - t - rx_window_size
  BY <1>1, <1>2, ModBaseFrom
<1>7. RX_MOD_BASE(uh, uh) > RX_MOD_BASE(ur, uh) <=> t > 0  BY <1>0, <1>4, <1>5 DEF UmSn
<1>8. ASSUME RX_MOD_BASE(ux, uh) > RX_MOD_BASE(ur, uh), inside_reordering_window(ux, uh)
      PROVE  0 < d /\ d <= t
  <2>1. RX_MOD_BASE(ux, uh) < RX_MOD_BASE(uh, uh)  BY <1>8 DEF inside_reordering_window
  <2> QED  BY <1>0, <1>4, <1>5, <1>6, <1>8, <2>1 DEF UmSn
<1>9. ASSUME RX_MOD_BASE(ux, uh) > RX_MOD_BASE(ur, uh), ux = uh
      PROVE  0 < d /\ d <= t
  <2>1. d = t  BY <1>1, <1>2, <1>9
  <2> QED  BY <1>0, <1>4, <1>5, <1>9, <2>1 DEF UmSn
<1> QED  BY <1>1, <1>2, <1>7, <1>8, <1>9

(* A step that moves vr_ur in a window w and leaves the timer as it should *)
(* be.                                                                     *)
LEMMA Moved ==
  ASSUME NEW t \in 1 .. rx_mod, NEW c \in 0 .. t, t - c <= rx_window_size, vr_ur \in UmSn,
         NEW w, \A p \in w : p.sn \in UmSn /\ Up(p.sn, vr_ur) < t,
         Ahead(vr_ur, t) \notin Stored(w), Ahead(vr_ur, t - 1) \in Stored(w),
         NEW n \in 0 .. rx_mod - 1, take_stored(w, Ahead(vr_ur, c), n),
         vr_ur' = Ahead(vr_ur, c + n), rx_window' = Left(w, vr_ur, c + n),
         vr_uh' = Ahead(vr_ur, t),
         Up(vr_uh', vr_ur') <= rx_window_size =>
           /\ t_reordering' <=> Up(vr_uh', vr_ur') > 0
           /\ t_reordering' => 0 < Up(vr_ux', vr_ur') /\ Up(vr_ux', vr_ur') <= Up(vr_uh', vr_ur')
  PROVE  Up(vr_uh', vr_ur') <= rx_window_size /\ UmWindowInv'
<1>0. rx_mod \in Nat /\ rx_window_size \in Nat  BY UmAssumption
<1>1. PICK m \in 0 .. rx_mod : m = c + n /\ m <= t
  <2>1. c + n <= t  BY WindowAfter
  <2> QED  BY <1>0, <2>1
<1>2. /\ Up(vr_uh', vr_ur') = t - m
      /\ \A p \in rx_window' : 0 < Up(p.sn, vr_ur') /\ Up(p.sn, vr_ur') < t - m
      /\ m < t => Ahead(vr_ur, t - 1) \in Stored(rx_window')
  BY <1>1, WindowAfter
<1>3. Up(vr_uh', vr_ur') <= rx_window_size  BY <1>0, <1>1, <1>2
<1>4. t - m > 0 => (vr_uh' - 1) % rx_mod \in Stored(rx_window')
  <2>1. (vr_uh' - 1) % rx_mod = Ahead(vr_ur, t - 1)  BY BelowTop
  <2>2. t - m > 0 => m < t  BY <1>0, <1>1
  <2> QED  BY <1>2, <2>1, <2>2
<1>5. \A sn \in Stored(rx_window') : 0 < Up(sn, vr_ur') /\ Up(sn, vr_ur') < Up(vr_uh', vr_ur')
  BY <1>2 DEF Stored
<1> QED  BY <1>2, <1>3, <1>4, <1>5 DEF UmWindowInv, Up, Stored

(* What UmWindowInv says, with distances. *)
LEMMA WindowFacts ==
  ASSUME UmInd
  PROVE  /\ \A p \in rx_window : /\ p.sn \in UmSn /\ 0 < Up(p.sn, vr_ur)
                                  /\ Up(p.sn, vr_ur) < Up(vr_uh, vr_ur)
         /\ 0 < Up(vr_uh, vr_ur) => (vr_uh - 1) % rx_mod \in Stored(rx_window)
         /\ t_reordering => /\ 0 < Up(vr_uh, vr_ur) /\ 0 < Up(vr_ux, vr_ur)
                            /\ Up(vr_ux, vr_ur) <= Up(vr_uh, vr_ur)
<1>1. \A p \in rx_window : p.sn \in UmSn /\ p.sn \in Stored(rx_window)  BY DEF UmInd, Stored
<1>2. PICK top \in UmSn : top = Up(vr_uh, vr_ur)  BY UpValue DEF UmInd
<1>3. top > 0 <=> 0 < top  BY <1>2, UmAssumption DEF UmSn
<1> QED  BY <1>1, <1>2, <1>3 DEF UmInd, UmWindowInv, Up

(* Where a PDU that is not dropped lies, and the window it makes: t is how *)
(* far the new vr_uh is above vr_ur.                                       *)
LEMMA Accepted ==
  ASSUME UmInd, NEW p \in um_air,
         ~ (RX_MOD_BASE(p.sn, vr_uh) < RX_MOD_BASE(vr_ur, vr_uh)),
         NEW uh, uh = IF inside_reordering_window(p.sn, vr_uh) THEN vr_uh ELSE NextSn(p.sn)
  PROVE  \E t \in 1 .. rx_mod :
           /\ uh = Ahead(vr_ur, t)
           /\ \A q \in rx_window \cup {p} : q.sn \in UmSn /\ Up(q.sn, vr_ur) < t
           /\ uh \notin Stored(rx_window \cup {p})
           /\ Ahead(vr_ur, t - 1) \in Stored(rx_window \cup {p})
<1>0. /\ rx_mod \in Nat /\ rx_window_size \in Nat /\ rx_mod = 2 * rx_window_size
      /\ 0 < rx_window_size
  BY UmAssumption
<1>1. p.sn \in UmSn /\ vr_ur \in UmSn /\ vr_uh \in UmSn  BY DEF UmInd
<1>2. PICK top \in UmSn : top = Up(vr_uh, vr_ur) /\ top <= rx_window_size /\ vr_uh = Ahead(vr_ur, top)
  BY <1>1, UpValue, UpAhead DEF UmInd
<1>3. PICK d \in UmSn : d = Up(p.sn, vr_ur) /\ p.sn = Ahead(vr_ur, d)  BY <1>1, UpValue, UpAhead
<1>4. Up(vr_ur, vr_ur) = 0 /\ Ahead(vr_ur, 0) = vr_ur
  <2>1. Up(vr_ur, vr_ur) = 0  BY <1>0, <1>1, UpValue DEF UmSn
  <2> QED  BY <1>1, <2>1, UpAhead
<1>5. RX_MOD_BASE(vr_uh, vr_uh) = rx_window_size
  <2>1. RX_MOD_BASE(vr_uh, vr_uh) = IF top < top + rx_window_size THEN top - top + rx_window_size
                                    ELSE top - top - rx_window_size
    BY <1>1, <1>2, ModBaseFrom
  <2> QED  BY <1>0, <2>1 DEF UmSn
<1>6. RX_MOD_BASE(vr_ur, vr_uh) = rx_window_size - top
  <2>1. RX_MOD_BASE(vr_ur, vr_uh) = IF 0 < top + rx_window_size THEN 0 - top + rx_window_size
                                    ELSE 0 - top - rx_window_size
    BY <1>1, <1>2, <1>4, ModBaseFrom
  <2> QED  BY <1>0, <2>1 DEF UmSn
<1>7. RX_MOD_BASE(p.sn, vr_uh) = IF d < top + rx_window_size THEN d - top + rx_window_size
                                 ELSE d - top - rx_window_size
  BY <1>1, <1>2, <1>3, ModBaseFrom
<1>8. inside_reordering_window(p.sn, vr_uh) <=> d < top
  <2>1. inside_reordering_window(p.sn, vr_uh) <=> RX_MOD_BASE(p.sn, vr_uh) < rx_window_size
    BY <1>5 DEF inside_reordering_window
  <2>2. d < top + rx_window_size
    <3> SUFFICES ASSUME ~ (d < top + rx_window_size) PROVE FALSE  OBVIOUS
    <3>1. RX_MOD_BASE(p.sn, vr_uh) = d - top - rx_window_size  BY <1>7
    <3>2. ~ (d - top - rx_window_size < rx_window_size - top)  BY <1>6, <3>1
    <3> QED  BY <1>0, <1>2, <3>2 DEF UmSn
  <2>3. RX_MOD_BASE(p.sn, vr_uh) = d - top + rx_window_size  BY <1>7, <2>2
  <2>4. d - top + rx_window_size < rx_window_size <=> d < top  BY <1>0 DEF UmSn
  <2> QED  BY <2>1, <2>3, <2>4
<1>9. \A q \in rx_window : q.sn \in UmSn /\ 0 < Up(q.sn, vr_ur) /\ Up(q.sn, vr_ur) < top
  BY <1>2, WindowFacts
<1>10. CASE d < top
  <2>1. uh = vr_uh /\ top \in 1 .. rx_mod /\ top > 0  BY <1>0, <1>8, <1>10 DEF UmSn
  <2>2. \A q \in rx_window \cup {p} : q.sn \in UmSn /\ Up(q.sn, vr_ur) < top
    BY <1>1, <1>3, <1>9, <1>10
  <2>3. uh \notin Stored(rx_window \cup {p})
    <3>1. ~ (top < top)  BY <1>0 DEF UmSn
    <3> QED  BY <1>2, <2>1, <2>2, <3>1 DEF Stored
  <2>4. Ahead(vr_ur, top - 1) \in Stored(rx_window \cup {p})
    <3>1. (vr_uh - 1) % rx_mod = Ahead(vr_ur, top - 1)  BY <1>1, <1>2, <2>1, BelowTop
    <3>2. 0 < top  BY <1>0, <2>1
    <3>3. (vr_uh - 1) % rx_mod \in Stored(rx_window)  BY <1>2, <3>2, WindowFacts
    <3> QED  BY <3>1, <3>3 DEF Stored
  <2> QED  BY <1>2, <2>1, <2>2, <2>3, <2>4
<1>11. CASE ~ (d < top)
  <2>1. uh = NextSn(p.sn)  BY <1>8, <1>11
  <2>2. PICK t \in 1 .. rx_mod : t = d + 1 /\ t - 1 = d  BY <1>0 DEF UmSn
  <2>3. uh = Ahead(vr_ur, t)
    <3>1. d \in 0 .. rx_mod /\ 1 \in 0 .. rx_mod /\ d + 1 <= rx_mod  BY <1>0 DEF UmSn
    <3>2. uh = Ahead(p.sn, 1)  BY <2>1 DEF NextSn, Ahead
    <3> QED  BY <1>1, <1>3, <2>2, <3>1, <3>2, AheadTwice
  <2>4. \A q \in rx_window \cup {p} : q.sn \in UmSn /\ Up(q.sn, vr_ur) < t
    <3>1. ASSUME NEW q \in rx_window PROVE q.sn \in UmSn /\ Up(q.sn, vr_ur) < t
      <4>1. PICK e \in UmSn : e = Up(q.sn, vr_ur) /\ e < top  BY <1>1, <1>9, UpValue
      <4> QED  BY <1>0, <1>9, <1>11, <2>2, <4>1 DEF UmSn
    <3>2. p.sn \in UmSn /\ Up(p.sn, vr_ur) < t  BY <1>0, <1>1, <1>3, <2>2 DEF UmSn
    <3> QED  BY <3>1, <3>2
  <2>5. uh \notin Stored(rx_window \cup {p})
    <3> SUFFICES ASSUME NEW q \in rx_window \cup {p}, q.sn = uh PROVE FALSE  BY DEF Stored
    <3>1. CASE t < rx_mod
      <4>1. t \in UmSn  BY <1>0, <3>1 DEF UmSn
      <4>2. Up(uh, vr_ur) = t  BY <1>1, <2>3, <4>1, UpAhead
      <4>3. ~ (t < t)  BY <1>0
      <4> QED  BY <2>4, <4>2, <4>3
    <3>2. CASE t = rx_mod
      <4>1. Ahead(vr_ur, t) = vr_ur
        <5>1. t \in 0 .. rx_mod  BY <1>0, <3>2
        <5>2. Ahead(vr_ur, t) = IF vr_ur + t < rx_mod THEN vr_ur + t ELSE vr_ur + t - rx_mod
          BY <1>1, <5>1, AheadValue
        <5> QED  BY <1>0, <1>1, <3>2, <5>2 DEF UmSn
      <4>2. Up(q.sn, vr_ur) = 0  BY <1>4, <2>3, <4>1
      <4>3. 0 < d  BY <1>0, <2>2, <3>2
      <4>4. q \notin rx_window  BY <1>9, <4>2
      <4>5. d = 0  BY <1>3, <4>2, <4>4
      <4> QED  BY <4>3, <4>5
    <3> QED  BY <1>0, <3>1, <3>2
  <2>6. Ahead(vr_ur, t - 1) \in Stored(rx_window \cup {p})  BY <1>3, <2>2 DEF Stored
  <2> QED  BY <2>3, <2>4, <2>5, <2>6
<1> QED  BY <1>10, <1>11

(* The first loop of reassemble_rx_sdus() leaves vr_uh at most a window    *)
(* above vr_ur.                                                            *)
LEMMA CatchesUp ==
  ASSUME vr_ur \in UmSn, NEW t \in 1 .. rx_mod, NEW uh, uh = Ahead(vr_ur, t)
  PROVE  catch_up(uh) \in 0 .. t /\ t - catch_up(uh) <= rx_window_size
<1>0. /\ rx_mod \in Nat /\ rx_window_size \in Nat /\ rx_mod = 2 * rx_window_size
      /\ 0 < rx_window_size /\ t \in 0 .. rx_mod
  BY UmAssumption
<1>1. uh \in UmSn  BY <1>0, AheadValue
<1>2. Up(vr_ur, vr_ur) = 0 /\ Up(uh, uh) = 0  BY <1>0, <1>1, UpValue DEF UmSn
<1>3. Up(vr_ur, uh) = rx_mod - t
  <2>1. Up(vr_ur, uh) = IF t <= 0 THEN 0 - t ELSE 0 - t + rx_mod  BY <1>0, <1>2, UpShift
  <2> QED  BY <1>0, <2>1
<1>4. RX_MOD_BASE(uh, uh) = rx_window_size
  <2>1. RX_MOD_BASE(uh, uh) = IF 0 < rx_window_size THEN 0 + rx_window_size ELSE 0 - rx_window_size
    BY <1>1, <1>2, ModBaseValue
  <2> QED  BY <1>0, <2>1
<1>5. RX_MOD_BASE(vr_ur, uh) = IF rx_mod - t < rx_window_size THEN rx_mod - t + rx_window_size
                               ELSE rx_mod - t - rx_window_size
  BY <1>1, <1>3, ModBaseValue
<1>6. inside_reordering_window(vr_ur, uh) <=> t <= rx_window_size
  BY <1>0, <1>4, <1>5 DEF inside_reordering_window
<1>7. CASE t <= rx_window_size
  <2>1. catch_up(uh) = 0  BY <1>6, <1>7 DEF catch_up
  <2> QED  BY <1>0, <1>7, <2>1
<1>8. CASE ~ (t <= rx_window_size)
  <2>1. catch_up(uh) = (uh - rx_window_size - vr_ur) % rx_mod  BY <1>6, <1>8 DEF catch_up
  <2>2. uh - rx_window_size - vr_ur = uh - vr_ur - rx_window_size  BY <1>0, <1>1 DEF UmSn
  <2>3. catch_up(uh) = RX_MOD_BASE(uh, vr_ur)  BY <2>1, <2>2 DEF RX_MOD_BASE
  <2>4. PICK e \in UmSn : e = Up(uh, vr_ur) /\ e = IF t < rx_mod THEN t ELSE 0
    <3>1. CASE t < rx_mod
      <4>1. t \in UmSn  BY <1>0, <3>1 DEF UmSn
      <4> QED  BY <3>1, <4>1, UpAhead
    <3>2. CASE ~ (t < rx_mod)
      <4>1. t = rx_mod  BY <1>0, <3>2
      <4>2. uh = IF vr_ur + t < rx_mod THEN vr_ur + t ELSE vr_ur + t - rx_mod
        BY <1>0, AheadValue
      <4>3. uh = vr_ur  BY <1>0, <4>1, <4>2 DEF UmSn
      <4>4. 0 \in UmSn  BY <1>0 DEF UmSn
      <4> QED  BY <1>2, <3>2, <4>3, <4>4
    <3> QED  BY <3>1, <3>2
  <2>5. RX_MOD_BASE(uh, vr_ur) = IF e < rx_window_size THEN e + rx_window_size ELSE e - rx_window_size
    BY <1>1, <2>4, ModBaseValue
  <2>6. catch_up(uh) = t - rx_window_size  BY <1>0, <1>8, <2>3, <2>4, <2>5 DEF UmSn
  <2> QED  BY <1>0, <1>8, <2>6
<1> QED  BY <1>7, <1>8

(* handle_data_pdu(). *)
LEMMA ReceivedKeeps ==
  ASSUME UmInd, NEW p \in um_air, handle_data_pdu(p)
  PROVE  UmInd'
<1>1. vt_us' = vt_us /\ um_air' \subseteq um_air  BY DEF handle_data_pdu, umTxVars
<1>2. CASE UNCHANGED umRxVars
  <2>1. UNCHANGED <<vr_ur, vr_ux, vr_uh, rx_window, t_reordering>>  BY <1>2 DEF umRxVars
  <2> QED  BY <1>1, <2>1 DEF UmInd, UmWindowInv
<1>3. CASE ~ UNCHANGED umRxVars
  <2> DEFINE uh == IF inside_reordering_window(p.sn, vr_uh) THEN vr_uh ELSE NextSn(p.sn)
             w == rx_window \cup {p}
  <2>1. ~ (RX_MOD_BASE(p.sn, vr_uh) < RX_MOD_BASE(vr_ur, vr_uh))  BY <1>3 DEF handle_data_pdu
  <2>2. PICK n \in 0 .. rx_mod - 1 :
          /\ take_stored(w, Ahead(vr_ur, catch_up(uh)), n)
          /\ reassemble_rx_sdus(um_rx, FALSE, w, catch_up(uh) + n)
    BY <1>3 DEF handle_data_pdu
  <2>3. /\ vr_uh' = uh
        /\ t_reordering' = (StillRuns(vr_ur', uh) \/ RX_MOD_BASE(uh, uh) > RX_MOD_BASE(vr_ur', uh))
        /\ vr_ux' = IF ~ StillRuns(vr_ur', uh) /\ RX_MOD_BASE(uh, uh) > RX_MOD_BASE(vr_ur', uh)
                    THEN uh ELSE vr_ux
    BY <1>3 DEF handle_data_pdu
  <2>4. /\ vr_ur' = Ahead(vr_ur, catch_up(uh) + n)
        /\ rx_window' = Left(w, vr_ur, catch_up(uh) + n)
    BY <2>2 DEF reassemble_rx_sdus, Left
  <2>5. PICK t \in 1 .. rx_mod :
           /\ uh = Ahead(vr_ur, t)
           /\ \A q \in w : q.sn \in UmSn /\ Up(q.sn, vr_ur) < t
           /\ uh \notin Stored(w) /\ Ahead(vr_ur, t - 1) \in Stored(w)
    BY <2>1, Accepted
  <2> HIDE DEF uh, w
  <2>6. vr_ur \in UmSn /\ vr_ux \in UmSn  BY DEF UmInd
  <2>7. PICK c \in 0 .. t : c = catch_up(uh) /\ t - c <= rx_window_size  BY <2>5, <2>6, CatchesUp
  <2>8. vr_ur' \in UmSn /\ uh \in UmSn
    <3>1. c + n <= t  BY <2>2, <2>5, <2>6, <2>7, WindowAfter
    <3>2. c + n \in 0 .. rx_mod /\ t \in 0 .. rx_mod  BY <3>1, UmAssumption
    <3> QED  BY <2>4, <2>5, <2>6, <2>7, <3>2, AheadValue
  <2>9. ASSUME Up(uh, vr_ur') <= rx_window_size
        PROVE  /\ t_reordering' <=> Up(uh, vr_ur') > 0
               /\ t_reordering' => 0 < Up(vr_ux', vr_ur') /\ Up(vr_ux', vr_ur') <= Up(uh, vr_ur')
    <3>1. RX_MOD_BASE(uh, uh) > RX_MOD_BASE(vr_ur', uh) <=> Up(uh, vr_ur') > 0
      BY <2>6, <2>8, <2>9, TimerTests
    <3>2. StillRuns(vr_ur', uh) => 0 < Up(vr_ux, vr_ur') /\ Up(vr_ux, vr_ur') <= Up(uh, vr_ur')
      BY <2>6, <2>8, <2>9, TimerTests DEF StillRuns
    <3>3. PICK top \in Int : top = Up(uh, vr_ur')  BY <2>8, UpValue DEF UmSn
    <3>4. PICK x \in Int : x = Up(vr_ux, vr_ur')  BY <2>6, <2>8, UpValue DEF UmSn
    <3>5. StillRuns(vr_ur', uh) => top > 0  BY <3>2, <3>3, <3>4
    <3>6. t_reordering' <=> Up(uh, vr_ur') > 0  BY <2>3, <3>1, <3>3, <3>5
    <3>7. ASSUME t_reordering'
          PROVE  0 < Up(vr_ux', vr_ur') /\ Up(vr_ux', vr_ur') <= Up(uh, vr_ur')
      <4>1. CASE StillRuns(vr_ur', uh)  BY <2>3, <3>2, <4>1
      <4>2. CASE ~ StillRuns(vr_ur', uh)
        <5>1. vr_ux' = uh  BY <2>3, <3>7, <4>2
        <5>2. top > 0 /\ 0 < top /\ top <= top  BY <3>3, <3>6, <3>7
        <5> QED  BY <3>3, <5>1, <5>2
      <4> QED  BY <4>1, <4>2
    <3> QED  BY <3>6, <3>7
  <2>10. Up(vr_uh', vr_ur') <= rx_window_size /\ UmWindowInv'
    BY <2>2, <2>3, <2>4, <2>5, <2>6, <2>7, <2>9, Moved
  <2>11. \A q \in um_air' \cup rx_window' : q.sn \in UmSn
    BY <1>1, <2>4, <2>5 DEF Left, UmInd
  <2>12. vr_ux' \in UmSn /\ vr_uh' \in UmSn /\ vt_us' \in UmSn /\ t_reordering' \in BOOLEAN
    BY <1>1, <2>3, <2>6, <2>8 DEF UmInd
  <2> QED  BY <2>8, <2>10, <2>11, <2>12 DEF UmInd
<1> QED  BY <1>2, <1>3

(* timer_expired(). *)
LEMMA ExpiryKeeps ==
  ASSUME UmInd, um_timer_expired
  PROVE  UmInd'
<1>0. /\ rx_mod \in Nat /\ rx_window_size \in Nat /\ rx_mod = 2 * rx_window_size
      /\ 0 < rx_window_size
  BY UmAssumption
<1>1. vt_us' = vt_us /\ um_air' = um_air /\ vr_uh' = vr_uh
  BY DEF um_timer_expired, umTxVars
<1>2. vr_ur \in UmSn /\ vr_ux \in UmSn /\ vr_uh \in UmSn  BY DEF UmInd
<1>3. PICK t \in UmSn : t = Up(vr_uh, vr_ur) /\ Ahead(vr_ur, t) = vr_uh  BY <1>2, UpValue, UpAhead
<1>4. PICK c \in UmSn : c = Up(vr_ux, vr_ur) /\ Ahead(vr_ur, c) = vr_ux  BY <1>2, UpValue, UpAhead
<1>5. /\ 0 < c /\ c <= t /\ t <= rx_window_size /\ t \in 1 .. rx_mod /\ c \in 0 .. t
      /\ t - c <= rx_window_size
  <2>1. 0 < c /\ c <= t /\ t <= rx_window_size
    BY <1>3, <1>4, WindowFacts DEF um_timer_expired, UmInd
  <2> QED  BY <1>0, <2>1 DEF UmSn
<1>6. RX_MOD_BASE(vr_ux, vr_uh) - RX_MOD_BASE(vr_ur, vr_uh) = c
  <2>1. Up(vr_ur, vr_ur) = 0  BY <1>0, <1>2, UpValue DEF UmSn
  <2>2. RX_MOD_BASE(vr_ur, vr_uh) = IF 0 < t + rx_window_size THEN 0 - t + rx_window_size
                                    ELSE 0 - t - rx_window_size
    BY <1>2, <1>3, <1>5, <2>1, ModBaseFrom
  <2>3. RX_MOD_BASE(vr_ux, vr_uh) = IF c < t + rx_window_size THEN c - t + rx_window_size
                                    ELSE c - t - rx_window_size
    BY <1>2, <1>3, <1>4, <1>5, ModBaseFrom
  <2> QED  BY <1>0, <1>5, <2>2, <2>3 DEF UmSn
<1>7. PICK n \in 0 .. rx_mod - 1 :
        /\ take_stored(rx_window, vr_ux, n)
        /\ vr_ur' = Ahead(vr_ur, c + n) /\ rx_window' = Left(rx_window, vr_ur, c + n)
  <2>1. c > 0  BY <1>0, <1>5 DEF UmSn
  <2> QED  BY <1>6, <2>1 DEF um_timer_expired, reassemble_rx_sdus, Left
<1>8. /\ t_reordering' = (RX_MOD_BASE(vr_uh, vr_uh) > RX_MOD_BASE(vr_ur', vr_uh))
      /\ vr_ux' = IF t_reordering' THEN vr_uh ELSE vr_ux
  BY DEF um_timer_expired
<1>9. /\ \A q \in rx_window : q.sn \in UmSn /\ Up(q.sn, vr_ur) < t
      /\ Ahead(vr_ur, t) \notin Stored(rx_window)
      /\ Ahead(vr_ur, t - 1) \in Stored(rx_window)
  <2>1. \A q \in rx_window : q.sn \in UmSn /\ Up(q.sn, vr_ur) < t  BY <1>3, WindowFacts
  <2>2. ~ (t < t) /\ 0 < t  BY <1>0, <1>5
  <2>3. Ahead(vr_ur, t) \notin Stored(rx_window)  BY <1>3, <2>1, <2>2 DEF Stored
  <2>4. (vr_uh - 1) % rx_mod = Ahead(vr_ur, t - 1)  BY <1>2, <1>3, <1>5, BelowTop
  <2>5. (vr_uh - 1) % rx_mod \in Stored(rx_window)  BY <1>3, <2>2, WindowFacts
  <2> QED  BY <2>1, <2>3, <2>4, <2>5
<1>10. vr_ur' \in UmSn
  <2>1. c + n <= t  BY <1>2, <1>4, <1>5, <1>7, <1>9, WindowAfter
  <2>2. c + n \in 0 .. rx_mod  BY <1>0, <1>5, <2>1
  <2> QED  BY <1>2, <1>7, <2>2, AheadValue
<1>11. ASSUME Up(vr_uh', vr_ur') <= rx_window_size
       PROVE  /\ t_reordering' <=> Up(vr_uh', vr_ur') > 0
              /\ t_reordering' => 0 < Up(vr_ux', vr_ur') /\ Up(vr_ux', vr_ur') <= Up(vr_uh', vr_ur')
  <2>1. RX_MOD_BASE(vr_uh, vr_uh) > RX_MOD_BASE(vr_ur', vr_uh) <=> Up(vr_uh, vr_ur') > 0
    BY <1>1, <1>2, <1>10, <1>11, TimerTests
  <2>2. PICK top \in Int : top = Up(vr_uh, vr_ur')  BY <1>2, <1>10, UpValue DEF UmSn
  <2>3. top > 0 => 0 < top /\ top <= top  OBVIOUS
  <2> QED  BY <1>1, <1>8, <2>1, <2>2, <2>3
<1>12. Up(vr_uh', vr_ur') <= rx_window_size /\ UmWindowInv'
  BY <1>1, <1>2, <1>3, <1>4, <1>5, <1>7, <1>9, <1>11, Moved
<1>13. \A q \in um_air' \cup rx_window' : q.sn \in UmSn  BY <1>1, <1>7 DEF Left, UmInd
<1>14. vr_ux' \in UmSn /\ vr_uh' \in UmSn /\ vt_us' \in UmSn /\ t_reordering' \in BOOLEAN
  BY <1>1, <1>2, <1>8 DEF UmInd
<1> QED  BY <1>10, <1>12, <1>13, <1>14 DEF UmInd

(* The sender, a loss and a reset. *)
LEMMA SenderKeeps ==
  ASSUME UmInd
  PROVE  /\ um_write_sdu \/ um_reset \/ UNCHANGED umVars => UmInd'
         /\ \A grant \in UmGrants : um_build_data_pdu(grant) => UmInd'
         /\ \A p \in um_air : um_lose(p) => UmInd'
<1>0. rx_mod \in Nat /\ rx_window_size \in Nat /\ 0 < rx_mod  BY UmAssumption
<1>1. ASSUME UNCHANGED umRxVars, vt_us' \in UmSn, \A p \in um_air' : p.sn \in UmSn
      PROVE  UmInd'
  <2>1. UNCHANGED <<vr_ur, vr_ux, vr_uh, rx_window, t_reordering>>  BY <1>1 DEF umRxVars
  <2> QED  BY <1>1, <2>1 DEF UmInd, UmWindowInv
<1>2. ASSUME um_write_sdu PROVE UmInd'
  BY <1>1, <1>2 DEF um_write_sdu, UmInd
<1>3. ASSUME UNCHANGED umVars PROVE UmInd'
  BY <1>1, <1>3 DEF umVars, umTxVars, UmInd
<1>4. ASSUME um_reset PROVE UmInd'
  <2>1. /\ vr_ur' = 0 /\ vr_ux' = 0 /\ vr_uh' = 0 /\ vt_us' = 0 /\ rx_window' = {} /\ um_air' = {}
        /\ t_reordering' = FALSE
    BY <1>4 DEF um_reset
  <2>2. 0 \in UmSn  BY <1>0 DEF UmSn
  <2>3. Up(0, 0) = 0 /\ Up(0, 0) <= rx_window_size /\ ~ (0 > 0)  BY <1>0, <2>2, UpValue
  <2>4. UmWindowInv'  BY <2>1, <2>3 DEF UmWindowInv, Up, Stored
  <2> QED  BY <2>1, <2>2, <2>3, <2>4 DEF UmInd
<1>5. ASSUME NEW grant \in UmGrants, um_build_data_pdu(grant) PROVE UmInd'
  <2>1. \A p \in um_air' : p \in um_air \/ p.sn = vt_us
    <3>1. PICK segs, start, end :
            um_air' = um_air \cup {[nr |-> built, sn |-> vt_us, segs |-> segs, start |-> start,
                                   end |-> end]}
      BY <1>5, Zenon DEF um_build_data_pdu
    <3> QED  BY <3>1
  <2>2. vt_us' = Ahead(vt_us, 1)  BY <1>5 DEF um_build_data_pdu, NextSn, Ahead
  <2>3. vt_us' \in UmSn
    <3>1. 1 \in 0 .. rx_mod  BY <1>0
    <3> QED  BY <2>2, <3>1, AheadValue DEF UmInd
  <2>4. UNCHANGED umRxVars  BY <1>5 DEF um_build_data_pdu
  <2> QED  BY <1>1, <2>1, <2>3, <2>4 DEF UmInd
<1>6. ASSUME NEW p \in um_air, um_lose(p) PROVE UmInd'
  BY <1>1, <1>6 DEF um_lose, umTxVars, UmInd
<1> QED  BY <1>2, <1>3, <1>4, <1>5, <1>6

(* For every window size, and whatever is lost, delayed, reordered or      *)
(* repeated below: the edges of the window, what is stored and the         *)
(* reordering timer of rlc_um agree after every PDU, every expiry and      *)
(* every reset; so the loops that move vr_ur end, and something that is    *)
(* missing is always waited for.                                           *)
THEOREM UmWindowCorrect == UmSpec => []UmWindowInv
<1>1. UmInit => UmInd
  <2> SUFFICES ASSUME UmInit PROVE UmInd  OBVIOUS
  <2>0. rx_mod \in Nat /\ rx_window_size \in Nat /\ 0 < rx_mod  BY UmAssumption
  <2>1. 0 \in UmSn  BY <2>0 DEF UmSn
  <2>2. Up(0, 0) = 0 /\ Up(0, 0) <= rx_window_size /\ ~ (0 > 0)  BY <2>0, <2>1, UpValue
  <2>3. UmWindowInv  BY <2>2 DEF UmInit, UmWindowInv, Up, Stored
  <2> QED  BY <2>1, <2>2, <2>3 DEF UmInit, UmInd
<1>2. UmInd /\ [UmNext]_umVars => UmInd'
  BY ReceivedKeeps, ExpiryKeeps, SenderKeeps DEF UmNext
<1>3. UmInd => UmWindowInv  BY DEF UmInd
<1> QED  BY <1>1, <1>2, <1>3, PTL DEF UmSpec
=============================================================================
