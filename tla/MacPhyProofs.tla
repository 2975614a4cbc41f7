---------------------------- MODULE MacPhyProofs ----------------------------
(***************************************************************************)
(* The threads of the MAC and the PHY for every value of the constants:    *)
(* random access, buffer status reports, and the worker pool.              *)
(***************************************************************************)
EXTENDS MacRa, MacUl, PhyWorkers, WellFoundedInduction, TLAPS

(* The least of some numbers is one of them: find_finished_worker() takes  *)
(* the first worker that is idle.                                          *)
LEMMA MinIsMember ==
  ASSUME NEW S \in SUBSET Nat, S # {}
  PROVE  Min(S) \in S
<1>1. PICK x \in S : \A y \in S : ~ (<<y, x>> \in OpToRel(<, Nat))
  BY NatLessThanWellFounded, WFMin, Zenon
<1>2. \A y \in S : x <= y
  <2> SUFFICES ASSUME NEW y \in S PROVE x <= y
    OBVIOUS
  <2>1. ~ (y < x)
    BY <1>1, Zenon DEF OpToRel
  <2> QED  BY <2>1
<1> QED  BY <1>2, Zenon DEF Min

-----------------------------------------------------------------------------
(***************************************************************************)
(* The number of preambles of a random access procedure, for every cell    *)
(* configuration, window, timer and speed of the threads.                  *)
(***************************************************************************)
(* The states from which a preamble is armed without another look at       *)
(* preambleTransMax.                                                       *)
Committed == {"RESOURCE_SELECTION", "PREAMBLE_TRANSMISSION", "BACKOFF_WAIT"}

(* The bound alone is not inductive: that step_preamble_transmission()     *)
(* keeps it follows from the counter, which is ahead of the preambles      *)
(* whenever the procedure is committed to one more, and from the test that *)
(* the last committing step has made.                                      *)
PreambleInd ==
  /\ counter \in Nat /\ preambles \in Nat
  /\ preambles <= counter /\ PreamblesBounded
  /\ state \in Committed => preambles < counter /\ counter <= PreambleTransMax

(* No preamble was armed, or the one of a connection that is set up. *)
LEMMA PreambleInit == RaInit \/ RaConnected => PreambleInd
  BY RaAssumption DEF RaInit, RaConnected, PreambleInd, PreamblesBounded, Committed

(* A step that neither arms nor counts a preamble does no harm as long as  *)
(* it does not commit the procedure to one.                                *)
LEMMA Uncommitted ==
  ASSUME PreambleInd, UNCHANGED <<counter, preambles>>,
         state' = state \/ state' \notin Committed
  PROVE  PreambleInd'
  BY DEF PreambleInd, PreamblesBounded

(* The steps of the procedure, taken by the MAC thread (ra_proc::step()),  *)
(* keep the preambles behind the counter.                                  *)
LEMMA ProcedureStep ==
  ASSUME PreambleInd, MacStep
  PROVE  PreambleInd'
<1>1. CASE step_initialization
  BY <1>1, RaAssumption DEF step_initialization, Enters, PreambleInd, PreamblesBounded, Committed
<1>2. CASE step_resource_selection
  BY <1>2 DEF step_resource_selection, Enters, PreambleInd, PreamblesBounded, Committed
<1>3. CASE step_preamble_transmission
  <2>1. preambles < counter /\ counter <= PreambleTransMax
    BY <1>3 DEF step_preamble_transmission, PreambleInd, Committed
  <2> QED
    BY <1>3, <2>1, RaAssumption
    DEF step_preamble_transmission, Enters, PreambleInd, PreamblesBounded, Committed
<1>4. CASE step_pdcch_setup
  BY <1>4, Uncommitted DEF step_pdcch_setup, Enters, Committed
<1>5. CASE step_response_error
  <2>1. counter' = counter + 1 /\ preambles' = preambles
    BY <1>5 DEF step_response_error
  <2>2. counter + 1 >= PreambleTransMax + 1 => state' = "RA_PROBLEM"
    BY <1>5 DEF step_response_error, RaProblem, mac_reset
  <2> QED
    BY <2>1, <2>2, RaAssumption DEF PreambleInd, PreamblesBounded, Committed
<1>6. CASE step_backoff_wait
  BY <1>6 DEF step_backoff_wait, Enters, PreambleInd, PreamblesBounded, Committed
<1>7. CASE step_contention_resolution
  BY <1>7, Uncommitted DEF step_contention_resolution, Enters, Committed
<1>8. CASE step_completition
  BY <1>8, Uncommitted DEF step_completition, Enters, Committed
<1>9. CASE step_nothing
  BY <1>9, Uncommitted DEF step_nothing, procVars
<1> QED
  BY <1>1, <1>2, <1>3, <1>4, <1>5, <1>6, <1>7, <1>8, <1>9 DEF MacStep

(* So does every step of the workers, the timer and RRC. *)
LEMMA PreambleStep ==
  ASSUME PreambleInd, [RaNext]_raVars
  PROVE  PreambleInd'
<1>1. CASE MacStep
  BY <1>1, ProcedureStep
<1>2. CASE SendConRequest \/ ConSetup \/ RrcReleases
  BY <1>2, Uncommitted DEF SendConRequest, ConSetup, RrcReleases, mac_reset, procVars, Committed
<1>3. CASE start_mac_order \/ step_response_reception \/ step_all \/ timer_expired
  BY <1>3, Uncommitted
  DEF start_mac_order, step_response_reception, step_all, timer_expired, Enters, procVars,
      Committed
<1>4. CASE tti_clock \/ harq_retx \/ new_grant_msg4 \/ pdcch_to_crnti \/ rar_lost
  BY <1>4, Uncommitted DEF tti_clock, harq_retx, new_grant_msg4, pdcch_to_crnti, rar_lost, procVars
<1>5. CASE new_grant_rar
  BY <1>5, Uncommitted DEF new_grant_rar, Enters, Committed
<1>6. CASE rar_decoded_ok
  <2>1. state' \in {state, "CONTENTION_RESOLUTION"}
    BY <1>6 DEF rar_decoded_ok, Enters
  <2>2. UNCHANGED <<counter, preambles>>
    BY <1>6 DEF rar_decoded_ok
  <2> QED  BY <2>1, <2>2, Uncommitted DEF Committed
<1>7. CASE get_pending_rar
  BY <1>7, Uncommitted DEF get_pending_rar, procVars
<1>8. CASE contention_resolution_id_received
  BY <1>8, Uncommitted DEF contention_resolution_id_received, Enters, Committed
<1>9. CASE UNCHANGED raVars
  BY <1>9, Uncommitted DEF raVars, procVars
<1> QED
  BY <1>1, <1>2, <1>3, <1>4, <1>5, <1>6, <1>7, <1>8, <1>9 DEF RaNext, MacThread, RaWorkers

(* For every configuration: a procedure arms at most preambleTransMax      *)
(* preambles, although workers with a late response, a late Msg4 or a      *)
(* grant that is too long, the timer and a reset by RRC change the state   *)
(* under the thread that steps it.                                         *)
THEOREM PreamblesStayBounded == RaSpec => []PreamblesBounded
<1>1. PreambleInd => PreamblesBounded
  BY DEF PreambleInd
<1> QED  BY <1>1, PreambleInit, PreambleStep, PTL DEF RaSpec

-----------------------------------------------------------------------------
(*****************************************************************************)
(* The data of a random access procedure, for every configuration: the     *)
(* types, and the content of Msg3.                                         *)
(*****************************************************************************)
(* Whatever C-RNTI is in use and whatever was given out last, the base     *)
(* station has an RNTI left to give out.                                   *)
LEMMA SpareRnti ==
  ASSUME NEW a \in Rntis, NEW b \in Rntis
  PROVE  Min(TempRnti \ {a, b}) \in TempRnti
<1>1. TempRnti \ {a, b} # {} /\ TempRnti \ {a, b} \in SUBSET Nat
  BY RaAssumption DEF Rntis
<1>2. Min(TempRnti \ {a, b}) \in TempRnti \ {a, b}
  BY <1>1, MinIsMember
<1> QED  BY <1>2

(* The C-RNTI of a connection that is set up is one of the base station's. *)
LEMMA FirstRnti == Min(TempRnti) \in TempRnti
<1>1. TempRnti # {} /\ TempRnti \in SUBSET Nat
  BY RaAssumption
<1> QED  BY <1>1, MinIsMember

(* The ranges of the records of RaTypeOK. *)
RaRec == [rar_received : BOOLEAN,
             first_rar_received : BOOLEAN, transmitted_crnti : Rntis,
             transmitted_contention_id : {None, OwnId},
             pdcch_to_crnti_received : {"NOT_RECEIVED", "UL_GRANT", "DL_GRANT"},
             msg3_flushed : BOOLEAN,
             backoff_param : BackoffParams \cup {0},
             backoff : [start : 0 .. TtiMod - 1, interval : Nat]]
RntiRec == [crnti : Rntis, temp_rnti : Rntis, contention_id : {None, OwnId}]
MuxRec == [msg3 : {None, CrntiCe, OtherPdu, OwnId}, sent : BOOLEAN, pending_crnti_ce : Rntis]
AirRec == [id : {None, CrntiCe, OtherPdu, OwnId}, temp : Rntis, age : 0 .. Msg4Delay + 1]

(* RaTypeOK in parts, by what the actions leave unchanged together. *)
ProcType == state \in RaState /\ counter \in Nat /\ preambles \in Nat /\ ra \in RaRec
MacType ==
  /\ rntis \in RntiRec /\ timer \in -1 .. ContentionTimeout - 1 /\ mux \in MuxRec
  /\ ccch \in {None, OwnId}
AirType == on_air \in AirRec /\ ordered \in BOOLEAN
ClockType ==
  /\ tti \in 0 .. TtiMod - 1 /\ due \in 0 .. MaxLag
  /\ mac_pc \in {"wait", "step", "give_up", "timers", "expired"}
RrcType == rrc \in {"idle", "waiting", "connected"}
RaType == ProcType /\ MacType /\ AirType /\ ClockType /\ RrcType

(* The parts together are RaTypeOK. *)
LEMMA RaTypeSplit == RaTypeOK <=> RaType
  BY Zenon DEF RaTypeOK, RaType, ProcType, MacType, AirType, ClockType, RrcType, RaRec, RntiRec, MuxRec, AirRec

(* The values of a UE that has sent nothing are in their ranges. *)
LEMMA NoMsg3Type == NoMsg3 \in AirRec /\ None \in Rntis /\ TempRnti \subseteq Rntis
  BY RaAssumption DEF NoMsg3, AirRec, Rntis, None

(* The initial states are in the ranges: the UE switched on, or connected. *)
LEMMA RaTypeInit == RaInit \/ RaConnected => RaType
<1>0. /\ None \in Rntis /\ Min(TempRnti) \in Rntis /\ 0 \in 0 .. TtiMod - 1 /\ 0 \in Nat
      /\ 0 \in 0 .. Msg4Delay + 1 /\ Msg4Delay + 1 \in 0 .. Msg4Delay + 1
      /\ 1 \in 0 .. TtiMod - 1 /\ 0 \in 0 .. MaxLag /\ -1 \in -1 .. ContentionTimeout - 1 /\ 1 \in Nat
  BY RaAssumption, FirstRnti DEF Rntis, None
<1>1. ASSUME RaInit PROVE RaType
  <2>1. ProcType
    BY <1>0, <1>1 DEF RaInit, ProcType, RaRec, RaState, NoBackoff
  <2>2. MacType
    BY <1>0, <1>1 DEF RaInit, MacType, RntiRec, MuxRec
  <2>3. AirType
    BY <1>1, NoMsg3Type DEF RaInit, AirType
  <2>4. ClockType /\ RrcType
    BY <1>0, <1>1 DEF RaInit, ClockType, RrcType
  <2> QED  BY <2>1, <2>2, <2>3, <2>4 DEF RaType
<1>2. ASSUME RaConnected PROVE RaType
  <2>1. ProcType
    BY <1>0, <1>2 DEF RaConnected, ProcType, RaRec, RaState, NoBackoff
  <2>2. MacType
    BY <1>0, <1>2 DEF RaConnected, MacType, RntiRec, MuxRec
  <2>3. AirType
    BY <1>0, <1>2 DEF RaConnected, AirType, AirRec
  <2>4. ClockType /\ RrcType
    BY <1>0, <1>2 DEF RaConnected, ClockType, RrcType
  <2> QED  BY <2>1, <2>2, <2>3, <2>4 DEF RaType
<1> QED  BY <1>1, <1>2

(* The boundaries that the steps below need. *)
LEMMA RaBounds ==
  /\ None \in Rntis /\ TempRnti \subseteq Rntis /\ NoMsg3 \in AirRec
  /\ 0 \in 0 .. TtiMod - 1 /\ 0 \in -1 .. ContentionTimeout - 1
  /\ -1 \in -1 .. ContentionTimeout - 1
  /\ [msg3 |-> None, sent |-> FALSE, pending_crnti_ce |-> None] \in MuxRec
  BY RaAssumption, NoMsg3Type DEF Rntis, None, MuxRec

(* mac::reset() leaves every variable in its range. *)
LEMMA ResetType ==
  ASSUME NEW s \in RaState, NEW search, NEW id \in {None, OwnId}, mac_reset(s, search, id),
         ccch' \in {None, OwnId}
  PROVE  state' \in RaState /\ MacType' /\ AirType'
<1>1. rntis' \in RntiRec
  BY RaBounds DEF mac_reset, RntiRec
<1> QED  BY <1>1, RaBounds DEF mac_reset, MacType, AirType

(* msg3_flush() leaves a Msg3 buffer. *)
LEMMA FlushType == ASSUME mux \in MuxRec, msg3_flush PROVE mux' \in MuxRec
  BY DEF msg3_flush, MuxRec

(* timer::reset() leaves a timer that is stopped or in its range. *)
LEMMA RestartedType ==
  ASSUME timer \in -1 .. ContentionTimeout - 1 PROVE Restarted \in -1 .. ContentionTimeout - 1
  BY RaBounds DEF Restarted

(* The steps of the procedure (ra_proc::step()) keep the types. *)
LEMMA RaTypeProcedure ==
  ASSUME RaType, MacStep
  PROVE  ProcType' /\ MacType' /\ AirType' /\ RrcType'
<1> USE DEF RaType
<1>1. CASE step_initialization
  <2>1. ra' \in RaRec
    BY <1>1 DEF step_initialization, ProcType, MacType, RaRec, RntiRec
  <2>2. mux' \in MuxRec /\ timer' \in -1 .. ContentionTimeout - 1
    BY <1>1, FlushType, RestartedType DEF step_initialization, MacType
  <2>3. on_air' \in AirRec
    BY <1>1, RaBounds DEF step_initialization
  <2> QED
    BY <1>1, <2>1, <2>2, <2>3
    DEF step_initialization, Enters, ProcType, MacType, AirType, RrcType, RaState
<1>2. CASE step_resource_selection
  BY <1>2
  DEF step_resource_selection, Enters, ProcType, MacType, AirType, RrcType, RaState, macVars
<1>3. CASE step_preamble_transmission
  <2>1. ra' \in RaRec
    BY <1>3 DEF step_preamble_transmission, ProcType, RaRec
  <2> QED
    BY <1>3, <2>1
    DEF step_preamble_transmission, Enters, ProcType, MacType, AirType, RrcType, RaState, macVars
<1>4. CASE step_pdcch_setup
  BY <1>4
  DEF step_pdcch_setup, Enters, ProcType, MacType, AirType, RrcType, RaState, macVars
<1>5. CASE step_response_error
  <2>1. counter' \in Nat /\ preambles' \in Nat
    BY <1>5 DEF step_response_error, ProcType
  <2>2. CASE RaProblem /\ UNCHANGED ra
    <3>1. state' \in RaState /\ MacType' /\ AirType' /\ RrcType'
      BY <2>2, ResetType DEF RaProblem, RaState, RrcType
    <3> QED  BY <2>1, <2>2, <3>1 DEF ProcType
  <2>0. ra.backoff_param \in Nat
    <3>1. ra.backoff_param \in BackoffParams \cup {0}
      BY DEF ProcType, RaRec
    <3>2. BackoffParams \subseteq Nat /\ 0 \in Nat
      BY RaAssumption
    <3> QED  BY <3>1, <3>2, Zenon
  <2>3. ASSUME NEW i \in IF ra.backoff_param = 0 THEN {0} ELSE 0 .. ra.backoff_param - 1,
               ra' = IF i = 0 THEN ra ELSE
                       [ra EXCEPT !.backoff = [start |-> tti, interval |-> i]],
               Enters(IF i > 0 THEN "BACKOFF_WAIT" ELSE "RESOURCE_SELECTION"),
               UNCHANGED <<macVars, on_air, ordered, rrc>>
        PROVE  ProcType' /\ MacType' /\ AirType' /\ RrcType'
    <3>1. i \in Nat
      <4>1. \A n \in Nat : \A j \in 0 .. n - 1 : j \in Nat
        OBVIOUS
      <4> QED  BY <2>0, <4>1, Zenon
    <3>2. ra' \in RaRec
      BY <2>3, <3>1 DEF ProcType, RaRec, ClockType
    <3>3. state' \in RaState
      BY <2>3 DEF Enters, RaState
    <3> QED
      BY <2>1, <2>3, <3>2, <3>3 DEF ProcType, MacType, AirType, RrcType, macVars
  <2> QED  BY <1>5, <2>2, <2>3, Zenon DEF step_response_error
<1>6. CASE step_backoff_wait
  <2>1. ra' \in RaRec
    BY <1>6, RaBounds DEF step_backoff_wait, ProcType, RaRec, NoBackoff
  <2> QED
    BY <1>6, <2>1
    DEF step_backoff_wait, Enters, ProcType, MacType, AirType, RrcType, RaState, macVars
<1>7. CASE step_contention_resolution
  <2>1. ra' \in RaRec
    BY <1>7 DEF step_contention_resolution, ProcType, MacType, RaRec, RntiRec
  <2>2. rntis' \in RntiRec
    BY <1>7, RaBounds DEF step_contention_resolution, MacType, RntiRec
  <2>3. state' \in RaState /\ timer' \in -1 .. ContentionTimeout - 1
    BY <1>7, RaBounds, Zenon DEF step_contention_resolution, Enters, RaState, ProcType, MacType
  <2> QED
    BY <1>7, <2>1, <2>2, <2>3
    DEF step_contention_resolution, ProcType, MacType, AirType, RrcType
<1>8. CASE step_completition
  <2>1. mux' \in MuxRec
    BY <1>8, FlushType DEF step_completition, MacType
  <2>2. ra' \in RaRec
    BY <1>8 DEF step_completition, ProcType, RaRec
  <2> QED
    BY <1>8, <2>1, <2>2
    DEF step_completition, Enters, RaState, ProcType, MacType, AirType, RrcType
<1>9. CASE step_nothing
  BY <1>9 DEF step_nothing, ProcType, MacType, AirType, RrcType, procVars, macVars
<1> QED
  BY <1>1, <1>2, <1>3, <1>4, <1>5, <1>6, <1>7, <1>8, <1>9 DEF MacStep

(* So does every other step: of RRC, of the MAC thread and of the workers. *)
LEMMA RaTypeStep ==
  ASSUME RaType, [RaNext]_raVars
  PROVE  RaType'
<1> USE DEF RaType
<1>1. CASE MacStep
  <2>1. ClockType'
    <3>1. due' \in 0 .. MaxLag /\ tti' = tti
      BY <1>1, RaAssumption DEF MacStep, ClockType
    <3>2. mac_pc' \in {"wait", "step", "give_up", "timers", "expired"}
      BY <1>1, Zenon DEF MacStep
    <3> QED  BY <3>1, <3>2 DEF ClockType
  <2> QED  BY <1>1, <2>1, RaTypeProcedure
<1>2. CASE SendConRequest
  <2>1. rntis' \in RntiRec
    BY <1>2 DEF SendConRequest, MacType, RntiRec
  <2> QED
    BY <1>2, <2>1
    DEF SendConRequest, ProcType, MacType, AirType, ClockType, RrcType, procVars, workers, clock
<1>3. CASE ConSetup
  BY <1>3
  DEF ConSetup, ProcType, MacType, AirType, ClockType, RrcType, procVars, macVars, workers, clock
<1>4. CASE RrcReleases
  <2>1. state' \in RaState /\ MacType' /\ AirType'
    BY <1>4, ResetType DEF RrcReleases, RaState
  <2> QED  BY <1>4, <2>1 DEF RrcReleases, ProcType, ClockType, RrcType, clock
<1>5. CASE start_mac_order
  BY <1>5, RaAssumption
  DEF start_mac_order, ProcType, MacType, AirType, ClockType, RrcType, RaState, macVars, workers
<1>6. CASE step_response_reception
  BY <1>6
  DEF step_response_reception, Enters, ProcType, MacType, AirType, ClockType, RrcType, RaState,
      macVars, workers
<1>7. CASE step_all
  <2>1. timer' \in -1 .. ContentionTimeout - 1
    BY <1>7, RaAssumption DEF step_all, is_expired, MacType
  <2>2. ClockType'
    BY <1>7, Zenon DEF step_all, ClockType
  <2> QED
    BY <1>7, <2>1, <2>2 DEF step_all, ProcType, MacType, AirType, RrcType, procVars, workers
<1>8. CASE timer_expired
  <2>1. rntis' \in RntiRec
    BY <1>8, RaBounds DEF timer_expired, MacType, RntiRec
  <2> QED
    BY <1>8, <2>1
    DEF timer_expired, Enters, ProcType, MacType, AirType, ClockType, RrcType, RaState, workers
<1>9. CASE tti_clock
  <2>1. ClockType'
    BY <1>9, RaAssumption DEF tti_clock, ClockType
  <2>2. on_air' \in AirRec
    <3>1. \A n \in 0 .. Msg4Delay + 1 : n < Msg4Delay => n + 1 \in 0 .. Msg4Delay + 1
      BY RaAssumption
    <3> QED  BY <1>9, <3>1 DEF tti_clock, AirType, AirRec
  <2> QED
    BY <1>9, <2>1, <2>2 DEF tti_clock, ProcType, MacType, AirType, RrcType, procVars, macVars
<1>10. CASE new_grant_rar
  BY <1>10
  DEF new_grant_rar, Enters, ProcType, MacType, AirType, ClockType, RrcType, RaState, macVars, clock
<1>11. CASE rar_decoded_ok
  <2>0. AirType' /\ ClockType' /\ RrcType' /\ counter' \in Nat /\ preambles' \in Nat
        /\ ccch' \in {None, OwnId}
    BY <1>11 DEF rar_decoded_ok, ProcType, MacType, AirType, ClockType, RrcType, clock
  <2>1. ASSUME NEW backoff \in BackoffParams \cup {0},
               ra' = [ra EXCEPT !.backoff_param = backoff],
               UNCHANGED <<state, rntis, timer, mux>>
        PROVE  RaType'
    <3>1. ra' \in RaRec
      BY <2>1 DEF ProcType, RaRec
    <3> QED  BY <2>0, <2>1, <3>1 DEF ProcType, MacType
  <2>2. ASSUME NEW backoff \in BackoffParams \cup {0}, NEW temp, NEW with_crnti,
               temp = Min(TempRnti \ {rntis.crnti, on_air.temp}),
               ra' = [ra EXCEPT
                     !.backoff_param = backoff, !.rar_received = TRUE,
                     !.first_rar_received = FALSE,
                     !.transmitted_crnti = IF ra.first_rar_received THEN rntis.crnti ELSE @],
               rntis' = [rntis EXCEPT !.temp_rnti = temp],
               mux' = [mux EXCEPT !.pending_crnti_ce = IF with_crnti THEN rntis.crnti ELSE @],
               Enters("CONTENTION_RESOLUTION"), timer' = 0
        PROVE  RaType'
    <3>1. temp \in Rntis
      <4>1. rntis.crnti \in Rntis /\ on_air.temp \in Rntis
        BY DEF MacType, AirType, RntiRec, AirRec
      <4> QED  BY <2>2, <4>1, SpareRnti, RaBounds
    <3>2. ra' \in RaRec
      BY <2>2 DEF ProcType, MacType, RaRec, RntiRec
    <3>3. rntis' \in RntiRec
      BY <2>2, <3>1 DEF MacType, RntiRec
    <3>4. mux' \in MuxRec
      BY <2>2 DEF MacType, RntiRec, MuxRec
    <3>5. state' \in RaState /\ timer' \in -1 .. ContentionTimeout - 1
      BY <2>2, RaBounds DEF Enters, RaState
    <3> QED  BY <2>0, <3>2, <3>3, <3>4, <3>5 DEF ProcType, MacType
  <2> QED  BY <1>11, <2>1, <2>2, Zenon DEF rar_decoded_ok
<1>12. CASE rar_lost
  BY <1>12
  DEF rar_lost, ProcType, MacType, AirType, ClockType, RrcType, procVars, macVars, clock
<1>13. CASE get_pending_rar
  <2>1. mux' \in MuxRec /\ ccch' \in {None, OwnId}
    BY <1>13, RaBounds DEF get_pending_rar, msg3_get, MacType, MuxRec
  <2>2. on_air' \in AirRec
    <3>1. 0 \in 0 .. Msg4Delay + 1
      BY RaAssumption
    <3> QED  BY <1>13, <3>1 DEF get_pending_rar, msg3_get, MacType, MuxRec, RntiRec, AirRec
  <2> QED
    BY <1>13, <2>1, <2>2
    DEF get_pending_rar, ProcType, MacType, AirType, ClockType, RrcType, procVars, clock
<1>14. CASE harq_retx
  <2>1. timer' \in -1 .. ContentionTimeout - 1
    BY <1>14, RestartedType DEF harq_retx, MacType
  <2> QED
    BY <1>14, <2>1
    DEF harq_retx, ProcType, MacType, AirType, ClockType, RrcType, procVars, clock
<1>15. CASE pdcch_to_crnti
  <2>1. ra' \in RaRec
    BY <1>15 DEF pdcch_to_crnti, ProcType, RaRec
  <2> QED
    BY <1>15, <2>1
    DEF pdcch_to_crnti, ProcType, MacType, AirType, ClockType, RrcType, macVars, workers, clock
<1>16. CASE new_grant_msg4
  <2>1. on_air' \in AirRec
    BY <1>16, RaAssumption DEF new_grant_msg4, AirType, AirRec
  <2> QED
    BY <1>16, <2>1
    DEF new_grant_msg4, ProcType, MacType, AirType, ClockType, RrcType, procVars, macVars, clock
<1>17. CASE contention_resolution_id_received
  <2>1. rntis' \in RntiRec
    BY <1>17, RaBounds DEF contention_resolution_id_received, MacType, RntiRec
  <2>2. state' \in RaState /\ timer' \in -1 .. ContentionTimeout - 1
    BY <1>17, RaBounds DEF contention_resolution_id_received, Enters, RaState, ProcType, MacType
  <2> QED
    BY <1>17, <2>1, <2>2
    DEF contention_resolution_id_received, ProcType, MacType, AirType, ClockType, RrcType, clock
<1>18. CASE UNCHANGED raVars
  BY <1>18
  DEF raVars, ProcType, MacType, AirType, ClockType, RrcType, procVars, macVars, workers, clock
<1> QED
  BY <1>1, <1>2, <1>3, <1>4, <1>5, <1>6, <1>7, <1>8, <1>9, <1>10, <1>11, <1>12, <1>13, <1>14,
     <1>15, <1>16, <1>17, <1>18
  DEF RaNext, MacThread, RaWorkers

(* What the Msg3 buffer holds: until the buffer is flushed at the end of   *)
(* the procedure, the PDU that was sent last.                              *)
Msg3Kept == on_air.id # None /\ ~ ra.msg3_flushed => mux.msg3 = on_air.id

(* Nothing was sent, or the buffer was flushed after it. *)
LEMMA KeptInit == RaInit \/ RaConnected => Msg3Kept
<1>1. RaInit => on_air = NoMsg3
  BY Zenon DEF RaInit
<1>2. NoMsg3.id = None
  BY DEF NoMsg3
<1>3. RaConnected => ra.msg3_flushed
  BY DEF RaConnected
<1> QED  BY <1>1, <1>2, <1>3 DEF Msg3Kept

(* A step that flushes nothing and sends nothing. *)
LEMMA KeptByOthers ==
  ASSUME Msg3Kept, on_air'.id = on_air.id, mux'.msg3 = mux.msg3,
         ra'.msg3_flushed = ra.msg3_flushed
  PROVE  Msg3Kept'
  BY DEF Msg3Kept

(* A reset and a new procedure begin without a Msg3 on the air. *)
LEMMA KeptWithoutMsg3 == ASSUME on_air' = NoMsg3 PROVE Msg3Kept'
  BY DEF Msg3Kept, NoMsg3

(* Every step but a transmission leaves the PDU on the air, or there is    *)
(* none any more.                                                          *)
LEMMA KeptProcedure ==
  ASSUME RaType, Msg3Kept, MacStep
  PROVE  Msg3Kept' /\ (on_air' = on_air \/ on_air' = NoMsg3)
<1>1. CASE step_initialization
  BY <1>1, KeptWithoutMsg3 DEF step_initialization
<1>2. CASE step_resource_selection \/ step_pdcch_setup \/ step_nothing
  BY <1>2, KeptByOthers
  DEF step_resource_selection, step_pdcch_setup, step_nothing, procVars, macVars
<1>3. CASE step_preamble_transmission
  <2>1. ra'.msg3_flushed = ra.msg3_flushed
    BY <1>3 DEF step_preamble_transmission, RaType, ProcType, RaRec
  <2> QED  BY <1>3, <2>1, KeptByOthers DEF step_preamble_transmission, macVars
<1>4. CASE step_response_error
  <2>1. CASE RaProblem
    BY <2>1, KeptWithoutMsg3 DEF RaProblem, mac_reset
  <2>2. CASE UNCHANGED <<macVars, on_air>> /\ \E i, t :
               ra' = IF i = 0 THEN ra ELSE
                       [ra EXCEPT !.backoff = [start |-> t, interval |-> i]]
    <3>1. ra'.msg3_flushed = ra.msg3_flushed
      BY <2>2 DEF RaType, ProcType, RaRec
    <3> QED  BY <2>2, <3>1, KeptByOthers DEF macVars
  <2> QED  BY <1>4, <2>1, <2>2, Zenon DEF step_response_error
<1>5. CASE step_backoff_wait
  <2>1. ra'.msg3_flushed = ra.msg3_flushed
    BY <1>5 DEF step_backoff_wait, RaType, ProcType, RaRec
  <2> QED  BY <1>5, <2>1, KeptByOthers DEF step_backoff_wait, macVars
<1>6. CASE step_contention_resolution
  <2>1. ra'.msg3_flushed = ra.msg3_flushed
    BY <1>6 DEF step_contention_resolution, RaType, ProcType, RaRec
  <2> QED  BY <1>6, <2>1, KeptByOthers DEF step_contention_resolution
<1>7. CASE step_completition
  <2>1. ra'.msg3_flushed
    BY <1>7 DEF step_completition, RaType, ProcType, RaRec
  <2> QED  BY <1>7, <2>1 DEF step_completition, Msg3Kept
<1> QED  BY <1>1, <1>2, <1>3, <1>4, <1>5, <1>6, <1>7 DEF MacStep

(* A transmission puts on the air what is in the buffer, or fills it. *)
LEMMA SentIsKept ==
  ASSUME RaType, Msg3Kept, get_pending_rar
  PROVE  Msg3Kept' /\ (on_air.id # None /\ ~ ra.msg3_flushed => on_air'.id = on_air.id)
<1>1. on_air'.id = mux'.msg3
  BY DEF get_pending_rar, msg3_get
<1>2. mux.msg3 # None => on_air'.id = mux.msg3
  BY DEF get_pending_rar, msg3_get
<1> QED  BY <1>1, <1>2 DEF Msg3Kept

(* No step sends a Msg3 that differs from the one before it and from the   *)
(* buffer.                                                                 *)
LEMMA KeptStep ==
  ASSUME RaType, Msg3Kept, [RaNext]_raVars
  PROVE  /\ Msg3Kept'
         /\ on_air.id # None /\ on_air'.id # None /\ ~ ra.msg3_flushed => on_air'.id = on_air.id
<1>1. CASE MacStep
  BY <1>1, KeptProcedure DEF NoMsg3
<1>2. CASE get_pending_rar
  BY <1>2, SentIsKept
<1>3. CASE RrcReleases
  BY <1>3, KeptWithoutMsg3 DEF RrcReleases, mac_reset, NoMsg3
<1>4. CASE SendConRequest \/ ConSetup
  BY <1>4, KeptByOthers DEF SendConRequest, ConSetup, procVars, macVars, workers
<1>5. CASE start_mac_order \/ step_response_reception \/ step_all \/ timer_expired
  BY <1>5, KeptByOthers
  DEF start_mac_order, step_response_reception, step_all, timer_expired, procVars, macVars, workers
<1>6. CASE tti_clock \/ new_grant_msg4
  <2>1. on_air'.id = on_air.id
    BY <1>6 DEF tti_clock, new_grant_msg4, RaType, AirType, AirRec
  <2> QED  BY <1>6, <2>1, KeptByOthers DEF tti_clock, new_grant_msg4, procVars, macVars
<1>7. CASE new_grant_rar \/ rar_lost \/ harq_retx
  BY <1>7, KeptByOthers DEF new_grant_rar, rar_lost, harq_retx, procVars, macVars
<1>8. CASE rar_decoded_ok
  <2>1. ra'.msg3_flushed = ra.msg3_flushed
    BY <1>8 DEF rar_decoded_ok, RaType, ProcType, RaRec
  <2>2. mux'.msg3 = mux.msg3
    BY <1>8 DEF rar_decoded_ok, RaType, MacType, MuxRec
  <2> QED  BY <1>8, <2>1, <2>2, KeptByOthers DEF rar_decoded_ok
<1>9. CASE pdcch_to_crnti
  <2>1. ra'.msg3_flushed = ra.msg3_flushed
    BY <1>9 DEF pdcch_to_crnti, RaType, ProcType, RaRec
  <2> QED  BY <1>9, <2>1, KeptByOthers DEF pdcch_to_crnti, macVars, workers
<1>10. CASE contention_resolution_id_received
  BY <1>10, KeptByOthers DEF contention_resolution_id_received
<1>11. CASE UNCHANGED raVars
  BY <1>11, KeptByOthers DEF raVars, procVars, macVars, workers
<1> QED
  BY <1>1, <1>2, <1>3, <1>4, <1>5, <1>6, <1>7, <1>8, <1>9, <1>10, <1>11
  DEF RaNext, MacThread, RaWorkers

(* For every configuration: the variables of random access stay in their   *)
(* ranges; the contention timer stops before it passes its limit           *)
(* (timer::step()), the backoff is a number of TTIs, and there is a        *)
(* Temporal C-RNTI for every response.                                     *)
THEOREM RaTypesCorrect == RaSpec => []RaTypeOK
<1>1. RaType => RaTypeOK
  BY RaTypeSplit
<1> QED  BY <1>1, RaTypeInit, RaTypeStep, PTL DEF RaSpec

(* For every configuration and speed of the threads: until a procedure has *)
(* succeeded, each of its Msg3 has the content of the first one, although  *)
(* late responses, the timer and the MAC thread change the state while a   *)
(* worker takes Msg3 from the buffer (mux::msg3_get()).                    *)
THEOREM Msg3StaysTheSame == RaSpec => Msg3IsRepeated
<1>1. RaInit \/ RaConnected => RaType /\ Msg3Kept
  BY RaTypeInit, KeptInit
<1>2. RaType /\ Msg3Kept /\ [RaNext]_raVars => (RaType /\ Msg3Kept)'
  BY RaTypeStep, KeptStep
<1>3. RaType /\ Msg3Kept /\ [RaNext]_raVars =>
        [state = "CONTENTION_RESOLUTION" /\ ~ ra.msg3_flushed /\ on_air.id # None /\ on_air'.id # None
           => on_air'.id = on_air.id]_raVars
  BY KeptStep
<1> QED  BY <1>1, <1>2, <1>3, PTL DEF RaSpec, Msg3IsRepeated

-----------------------------------------------------------------------------
(***************************************************************************)
(* Buffer status reports for every configuration: however grants, timers   *)
(* and the MAC thread interleave, either a regular report is triggered or  *)
(* the timer runs that triggers one.                                       *)
(***************************************************************************)
(* The types that the argument needs. *)
ReportType ==
  /\ ul_tti \in Int /\ retx \in Int /\ retx >= -1
  /\ bsr \in [type : BsrType, sr_is_sent : BOOLEAN, reset_sr : BOOLEAN, next_tx_tti : Int]

(* The types and the property are inductive together. *)
ReportInd == ReportType /\ ReportGuarded

(* bsr_proc::step() may only raise the type of a report. *)
LEMMA StepKeepsRegular ==
  ASSUME NEW b \in [type : BsrType, sr_is_sent : BOOLEAN, reset_sr : BOOLEAN, next_tx_tti : Int]
  PROVE  /\ bsr_step(b) \in [type : BsrType, sr_is_sent : BOOLEAN, reset_sr : BOOLEAN,
                             next_tx_tti : Int]
         /\ b.type = "REGULAR" => bsr_step(b).type = "REGULAR"
  BY DEF bsr_step, BsrType

(* The timers: both may expire in one TTI, the one for retransmission      *)
(* leaves a regular report.                                                *)
LEMMA TimersKeepRegular ==
  ASSUME NEW b \in bsr_timers(bsr), ReportType
  PROVE  /\ b \in [type : BsrType, sr_is_sent : BOOLEAN, reset_sr : BOOLEAN, next_tx_tti : Int]
         /\ bsr.type = "REGULAR" => b.type = "REGULAR"
         /\ retx = RetxTimeout - 1 => b.type = "REGULAR"
<1> DEFINE c == IF retx = RetxTimeout - 1 THEN timer_expired_retx(bsr) ELSE bsr
<1>1. /\ c \in [type : BsrType, sr_is_sent : BOOLEAN, reset_sr : BOOLEAN, next_tx_tti : Int]
      /\ bsr.type = "REGULAR" => c.type = "REGULAR"
      /\ retx = RetxTimeout - 1 => c.type = "REGULAR"
  BY Zenon DEF timer_expired_retx, ReportType, BsrType
<1>2. b = c \/ b = timer_expired_periodic(c)
  BY DEF bsr_timers
<1> HIDE DEF c
<1> QED  BY <1>1, <1>2 DEF timer_expired_periodic, BsrType

(* When RRC has configured the timers, the one for retransmission runs. *)
LEMMA ReportInit == UlInit => ReportInd
<1> SUFFICES ASSUME UlInit PROVE ReportInd
  OBVIOUS
<1> QED  BY DEF UlInit, ReportInd, ReportType, ReportGuarded, BsrType

(* A TTI that has wrapped is a number. *)
LEMMA TtiIsInt == \A t \in Int : t % UlTtiMod \in Int
  BY UlAssumption

(* No step of the MAC thread, the workers or RLC gives a report up. *)
LEMMA ReportStep ==
  ASSUME ReportInd, [UlNext]_ulVars
  PROVE  ReportInd'
<1> USE DEF ReportInd, ReportType, ReportGuarded
<1>0. (ul_tti + TxDelay) % UlTtiMod \in Int /\ (ul_tti + 1) % UlTtiMod \in Int
  BY TtiIsInt, UlAssumption
<1>1. CASE ul_tti_clock
  <2>1. PICK b \in bsr_timers(bsr) : bsr' = bsr_step(b)
    BY <1>1 DEF ul_tti_clock
  <2>2. retx' = IF retx \in {-1, RetxTimeout - 1} THEN -1 ELSE retx + 1
    BY <1>1 DEF ul_tti_clock
  <2>3. ul_tti' \in Int
    BY <1>0, <1>1 DEF ul_tti_clock
  <2> QED  BY <2>1, <2>2, <2>3, TimersKeepRegular, StepKeepsRegular
<1>2. CASE need_to_send_sr
  BY <1>2 DEF need_to_send_sr, macUlVars
<1>3. CASE sr_start
  BY <1>3, Zenon DEF sr_start
<1>4. CASE sr_step
  BY <1>4, Zenon DEF sr_step, need_to_reset_sr
<1>5. CASE sr_send
  BY <1>5 DEF sr_send, macUlVars
<1>6. CASE late_worker
  BY <1>6 DEF late_worker, macUlVars
<1>7. ASSUME NEW l \in Lcids, write_sdu(l) PROVE ReportInd'
  BY <1>7 DEF write_sdu, macUlVars
<1>8. CASE new_grant_ul
  <2>1. (\E size \in GrantSizes : pdu_get(size)) /\ ul_tti' = ul_tti
    BY <1>8 DEF new_grant_ul
  <2>2. retx' = 0
    BY <2>1, SMTT(30) DEF pdu_get, restart_retx
  <2>3. PICK t \in {"PADDING", "NONE"}, n \in Int :
          bsr' = [bsr EXCEPT !.type = t, !.reset_sr = TRUE, !.next_tx_tti = n]
    BY <1>0, <2>1, Zenon DEF pdu_get
  <2>4. bsr' \in [type : BsrType, sr_is_sent : BOOLEAN, reset_sr : BOOLEAN, next_tx_tti : Int]
    BY <2>3, Zenon DEF BsrType
  <2> QED  BY <2>1, <2>2, <2>4
<1>9. CASE harq_ack
  BY <1>9 DEF harq_ack, macUlVars
<1>10. CASE harq_nack
  BY <1>10, <1>0 DEF harq_nack
<1>11. CASE sr_ra_completed
  BY <1>11 DEF sr_ra_completed
<1>12. CASE UNCHANGED ulVars
  BY <1>12 DEF ulVars, macUlVars
<1> QED
  BY <1>1, <1>2, <1>3, <1>4, <1>5, <1>6, <1>7, <1>8, <1>9, <1>10, <1>11, <1>12
  DEF UlNext, UlThread

(* For every number of channels, grant size and timer value: a report is   *)
(* never given up.  pdu_get() cancels what is triggered, but starts the    *)
(* timer; when the timer expires a regular report is triggered, and the    *)
(* MAC thread never lowers its type.                                       *)
THEOREM ReportsAreGuarded == UlSpec => []ReportGuarded
<1>1. ReportInd => ReportGuarded
  BY DEF ReportInd
<1> QED  BY <1>1, ReportInit, ReportStep, PTL DEF UlSpec

(* The ranges of the records of UlTypeOK. *)
BsrRec == [type : BsrType, sr_is_sent : BOOLEAN, reset_sr : BOOLEAN,
           next_tx_tti : 0 .. UlTtiMod - 1]
SrRec == [pending : BOOLEAN, counter : 0 .. DsrTransMax]
PhySrRec == [enabled : BOOLEAN, last : -1 .. UlTtiMod - 1]
HarqRec == [busy : BOOLEAN, nb : 0 .. MaxRetx, has_bsr : BOOLEAN, more : BOOLEAN]

(* What RLC has to send is part of what has arrived. *)
BufType ==
  /\ arrivals \in 0 .. MaxSdus
  /\ buf \in [Lcids -> 0 .. arrivals * SduSize]
  /\ last_pending_data \in [Lcids -> 0 .. arrivals * SduSize]
(* The rest of UlTypeOK in parts, by what the actions leave unchanged      *)
(* together.                                                               *)
ReqType == bsr \in BsrRec /\ sr \in SrRec /\ sr_ra \in BOOLEAN /\ retx \in -1 .. RetxTimeout - 1
UlPhyType == phy_sr \in PhySrRec /\ harq \in HarqRec /\ enb \in BOOLEAN
UlClockType ==
  ul_tti \in 0 .. UlTtiMod - 1 /\ ul_pc \in {"wait", "sr_test", "sr_start", "sr_step", "sr_sent"}
UlType == BufType /\ ReqType /\ UlPhyType /\ UlClockType

(* What SDUs bring fits into what all of them bring. *)
LEMMA ArrivalsFit ==
  ASSUME NEW n \in 0 .. MaxSdus
  PROVE  n * SduSize \in Nat /\ n * SduSize <= MaxArrivals /\ (n + 1) * SduSize = n * SduSize + SduSize
<1>1. SduSize \in Nat /\ n \in Nat
  BY UlAssumption
<1>2. PICK d \in Nat : MaxSdus = n + d
  <2>1. MaxSdus - n \in Nat /\ MaxSdus = n + (MaxSdus - n)
    BY UlAssumption
  <2> QED  BY <2>1
<1>3. \A a, b, c \in Nat : (a + b) * c = a * c + b * c
  OBVIOUS
<1>4. \A a \in Nat : 1 * a = a
  OBVIOUS
<1>5. \A a, b \in Nat : a * b \in Nat
  OBVIOUS
<1>6. MaxArrivals = n * SduSize + d * SduSize
  BY <1>1, <1>2, <1>3, Zenon DEF MaxArrivals
<1>7. n * SduSize \in Nat /\ d * SduSize \in Nat
  BY <1>1, <1>5
<1>8. (n + 1) * SduSize = n * SduSize + SduSize
  <2>1. 1 \in Nat
    OBVIOUS
  <2> QED  BY <1>1, <1>3, <1>4, <2>1
<1>9. \A a, b, c \in Nat : c = a + b => a <= c
  OBVIOUS
<1> QED  BY <1>6, <1>7, <1>8

(* The parts together imply UlTypeOK: the buffers are bounded by all       *)
(* arrivals.                                                               *)
LEMMA UlTypeImplies == UlType => UlTypeOK
<1> SUFFICES ASSUME UlType PROVE UlTypeOK
  OBVIOUS
<1>1. arrivals * SduSize \in Nat /\ arrivals * SduSize <= MaxArrivals
  BY ArrivalsFit DEF UlType, BufType
<1>2. MaxArrivals \in Nat
  <2>1. MaxSdus \in 0 .. MaxSdus
    BY UlAssumption
  <2> QED  BY <2>1, ArrivalsFit DEF MaxArrivals
<1>3. \A a, b \in Nat : a <= b => 0 .. a \subseteq 0 .. b
  OBVIOUS
<1>4. 0 .. arrivals * SduSize \subseteq 0 .. MaxArrivals
  BY <1>1, <1>2, <1>3
<1>5. \A f, S, T : S \subseteq T /\ f \in [Lcids -> S] => f \in [Lcids -> T]
  OBVIOUS
<1>6. /\ buf \in [Lcids -> 0 .. MaxArrivals] /\ last_pending_data \in [Lcids -> 0 .. MaxArrivals]
  BY <1>4, <1>5, Zenon DEF UlType, BufType
<1> QED
  BY <1>6, Zenon
  DEF UlType, ReqType, UlPhyType, UlClockType, UlTypeOK, BsrRec, SrRec, PhySrRec, HarqRec

(* Empty buffers and a stopped request are in the ranges. *)
LEMMA UlTypeInit == UlInit => UlType
<1> SUFFICES ASSUME UlInit PROVE UlType
  OBVIOUS
<1>1. /\ 0 \in 0 .. UlTtiMod - 1 /\ 1 \in 0 .. UlTtiMod - 1 /\ 0 \in 0 .. DsrTransMax
      /\ -1 \in -1 .. UlTtiMod - 1 /\ 0 \in 0 .. MaxRetx /\ 0 \in -1 .. RetxTimeout - 1
      /\ 0 \in 0 .. MaxSdus
  BY UlAssumption
<1>2. BufType
  <2>1. 0 * SduSize \in Nat
    BY <1>1, ArrivalsFit
  <2>2. 0 \in 0 .. 0 * SduSize
    BY <2>1
  <2> QED  BY <1>1, <2>2 DEF UlInit, BufType
<1>3. ReqType
  BY <1>1 DEF UlInit, ReqType, BsrRec, SrRec, BsrType
<1>4. UlPhyType
  BY <1>1 DEF UlInit, UlPhyType, PhySrRec, HarqRec, NoPdu
<1>5. UlClockType
  BY <1>1 DEF UlInit, UlClockType
<1> QED  BY <1>2, <1>3, <1>4, <1>5 DEF UlType

(* A TTI that has wrapped is below the modulus. *)
LEMMA TtiInRange == \A t \in Int : t % UlTtiMod \in 0 .. UlTtiMod - 1
  BY UlAssumption

(* A HARQ process without a PDU is in its range. *)
LEMMA NoPduType == NoPdu \in HarqRec
  BY UlAssumption DEF NoPdu, HarqRec

(* So are the next TTI and the one of a transmission. *)
LEMMA NextTtis ==
  ASSUME NEW t \in 0 .. UlTtiMod - 1
  PROVE  /\ (t + TxDelay) % UlTtiMod \in 0 .. UlTtiMod - 1
         /\ (t + 1) % UlTtiMod \in 0 .. UlTtiMod - 1
<1>1. t + TxDelay \in Int /\ t + 1 \in Int
  BY UlAssumption
<1> QED  BY <1>1, TtiInRange, Zenon

(* bsr_proc::step() leaves a report. *)
LEMMA BsrStepType == ASSUME NEW b \in BsrRec PROVE bsr_step(b) \in BsrRec
  BY DEF bsr_step, BsrRec, BsrType

(* So do the timers of the reports. *)
LEMMA BsrTimersType == ASSUME bsr \in BsrRec, NEW b \in bsr_timers(bsr) PROVE b \in BsrRec
<1> DEFINE c == IF retx = RetxTimeout - 1 THEN timer_expired_retx(bsr) ELSE bsr
<1>1. c \in BsrRec
  BY Zenon DEF timer_expired_retx, BsrRec, BsrType
<1>2. b = c \/ b = timer_expired_periodic(c)
  BY DEF bsr_timers
<1> HIDE DEF c
<1> QED  BY <1>1, <1>2 DEF timer_expired_periodic, BsrRec, BsrType

(* A subframe with a request, sent or missed, leaves the PHY in its range. *)
LEMMA UciType ==
  ASSUME UlPhyType, NEW now \in 0 .. UlTtiMod - 1, set_uci_sr(now), UNCHANGED harq
  PROVE  UlPhyType'
<1>1. (now + TxDelay) % UlTtiMod \in 0 .. UlTtiMod - 1
  BY NextTtis
<1>2. (now + TxDelay) % UlTtiMod \in -1 .. UlTtiMod - 1
  BY <1>1, UlAssumption
<1>3. phy_sr' \in PhySrRec
  <2>1. phy_sr' = phy_sr \/ phy_sr' = [enabled |-> FALSE, last |-> (now + TxDelay) % UlTtiMod]
    BY DEF set_uci_sr
  <2>2. \A at \in -1 .. UlTtiMod - 1 : [enabled |-> FALSE, last |-> at] \in PhySrRec
    BY DEF PhySrRec
  <2> QED  BY <1>2, <2>1, <2>2, Zenon DEF UlPhyType
<1>4. enb' \in BOOLEAN
  BY DEF set_uci_sr, Requested, UlPhyType
<1> QED  BY <1>3, <1>4 DEF UlPhyType

(* A step that takes and brings no data keeps the bounds of the buffers. *)
LEMMA BufSame ==
  ASSUME BufType, UNCHANGED <<buf, arrivals>>, last_pending_data' \in {last_pending_data, buf}
  PROVE  BufType'
  BY Zenon DEF BufType

(* Every step keeps the types: a request is counted only below             *)
(* dsr_transmax, a transmission only below max_harq_tx, and data only      *)
(* leaves a buffer that has it.                                            *)
LEMMA UlTypeStep ==
  ASSUME UlType, [UlNext]_ulVars
  PROVE  UlType'
<1> USE DEF UlType
<1>0. /\ (ul_tti + TxDelay) % UlTtiMod \in 0 .. UlTtiMod - 1
      /\ (ul_tti + 1) % UlTtiMod \in 0 .. UlTtiMod - 1
  BY NextTtis DEF UlClockType
<1>1. CASE ul_tti_clock
  <2>1. PICK b \in bsr_timers(bsr) : bsr' = bsr_step(b)
    BY <1>1 DEF ul_tti_clock
  <2>2. bsr' \in BsrRec
    BY <2>1, BsrTimersType, BsrStepType DEF ReqType
  <2>3. retx' \in -1 .. RetxTimeout - 1
    BY <1>1, UlAssumption DEF ul_tti_clock, ReqType
  <2>4. UlPhyType'
    BY <1>0, <1>1, UciType DEF ul_tti_clock
  <2>5. UlClockType'
    BY <1>0, <1>1 DEF ul_tti_clock, UlClockType, Goes
  <2>6. BufType'
    BY <1>1, BufSame DEF ul_tti_clock
  <2> QED  BY <1>1, <2>2, <2>3, <2>4, <2>5, <2>6 DEF ul_tti_clock, ReqType
<1>2. CASE need_to_send_sr
  <2>1. UlClockType'
    BY <1>2, Zenon DEF need_to_send_sr, UlClockType
  <2> QED  BY <1>2, <2>1, BufSame DEF need_to_send_sr, macUlVars, ReqType, UlPhyType
<1>3. CASE sr_start
  <2>1. bsr' \in BsrRec
    BY <1>3 DEF sr_start, ReqType, BsrRec
  <2>2. sr' \in SrRec
    <3>1. 0 \in 0 .. DsrTransMax
      BY UlAssumption
    <3> QED  BY <1>3, <3>1, Zenon DEF sr_start, ReqType, SrRec
  <2> QED
    BY <1>3, <2>1, <2>2, BufSame DEF sr_start, Goes, ReqType, UlPhyType, UlClockType
<1>4. CASE sr_step
  <2>1. bsr' \in BsrRec
    BY <1>4, Zenon DEF sr_step, need_to_reset_sr, ReqType, BsrRec
  <2>2. sr' \in SrRec
    <3>1. sr'.counter \in {sr.counter, sr.counter + 1}
          /\ (sr'.counter = sr.counter + 1 => sr'.counter = sr.counter \/ sr.counter < DsrTransMax)
      BY <1>4, Zenon DEF sr_step, Signals
    <3>2. sr.counter \in 0 .. DsrTransMax
      BY DEF ReqType, SrRec
    <3>3. sr'.counter \in 0 .. DsrTransMax
      BY <3>1, <3>2, UlAssumption
    <3>4. sr' = [pending |-> sr'.pending, counter |-> sr'.counter] /\ sr'.pending \in BOOLEAN
      BY <1>4, Zenon DEF sr_step
    <3> QED  BY <3>3, <3>4, Zenon DEF SrRec
  <2>3. phy_sr' \in PhySrRec
    BY <1>4, Zenon DEF sr_step, UlPhyType, PhySrRec
  <2>4. sr_ra' \in BOOLEAN
    BY <1>4, Zenon DEF sr_step, ReqType
  <2>5. ul_pc' \in {"wait", "sr_sent"}
    BY <1>4, Zenon DEF sr_step
  <2> QED
    BY <1>4, <2>1, <2>2, <2>3, <2>4, <2>5, BufSame DEF sr_step, ReqType, UlPhyType, UlClockType
<1>5. CASE sr_send
  <2>1. phy_sr' \in PhySrRec
    BY <1>5, UlAssumption DEF sr_send, UlPhyType, PhySrRec
  <2> QED
    BY <1>5, <2>1, BufSame DEF sr_send, Goes, macUlVars, ReqType, UlPhyType, UlClockType
<1>6. CASE late_worker
  <2>1. UlPhyType'
    BY <1>6, UciType DEF late_worker, UlClockType
  <2> QED  BY <1>6, <2>1, BufSame DEF late_worker, macUlVars, ReqType, UlClockType
<1>7. ASSUME NEW l \in Lcids, write_sdu(l) PROVE UlType'
  <2>1. arrivals \in Nat /\ arrivals' = arrivals + 1 /\ arrivals' \in 0 .. MaxSdus
    BY <1>7, UlAssumption DEF write_sdu, BufType
  <2> DEFINE n == arrivals * SduSize
             m == arrivals' * SduSize
  <2>2. n \in Nat /\ m = n + SduSize /\ m \in Nat
    BY <2>1, ArrivalsFit DEF BufType
  <2>3. buf \in [Lcids -> 0 .. n] /\ last_pending_data \in [Lcids -> 0 .. n]
    BY DEF BufType
  <2>4. buf' = [buf EXCEPT ![l] = @ + SduSize] /\ last_pending_data' = last_pending_data
    BY <1>7 DEF write_sdu, macUlVars
  <2> HIDE DEF n, m
  <2>5. SduSize \in Nat
    BY UlAssumption
  <2>6. buf' \in [Lcids -> 0 .. m] /\ last_pending_data' \in [Lcids -> 0 .. m]
    BY <2>2, <2>3, <2>4, <2>5
  <2>7. BufType'
    BY <2>1, <2>6 DEF BufType, m
  <2> QED  BY <1>7, <2>7 DEF write_sdu, macUlVars, ReqType, UlPhyType, UlClockType
<1>8. CASE new_grant_ul
  <2>1. PICK size \in GrantSizes : pdu_get(size)
    BY <1>8 DEF new_grant_ul
  <2>2. retx' = 0
    BY <2>1, SMTT(30) DEF pdu_get, restart_retx
  <2>3. PICK t \in {"PADDING", "NONE"}, n \in 0 .. UlTtiMod - 1 :
          bsr' = [bsr EXCEPT !.type = t, !.reset_sr = TRUE, !.next_tx_tti = n]
    <3>1. bsr.next_tx_tti \in 0 .. UlTtiMod - 1
      BY DEF ReqType, BsrRec
    <3> QED  BY <1>0, <2>1, <3>1, ZenonT(60) DEF pdu_get
  <2>4. bsr' \in BsrRec
    BY <2>3, Zenon DEF ReqType, BsrRec, BsrType
  <2>5. PICK h \in BOOLEAN, more \in BOOLEAN :
          harq' = [busy |-> TRUE, nb |-> 0, has_bsr |-> h, more |-> more]
    BY <2>1, Zenon DEF pdu_get
  <2>6. harq' \in HarqRec
    BY <2>5, UlAssumption DEF HarqRec
  <2>7. PICK room \in {size, size - 1} :
          \E sent \in Allocations(room) : buf' = [l \in Lcids |-> buf[l] - sent[l]]
    BY <2>1, Zenon DEF pdu_get
  <2>8. PICK sent \in Allocations(room) : buf' = [l \in Lcids |-> buf[l] - sent[l]]
    BY <2>7
  <2>9. BufType'
    <3>1. room \in Nat
      BY <2>1, <2>7, UlAssumption
    <3>2. \A l \in Lcids : sent[l] \in 0 .. room /\ sent[l] <= buf[l]
      BY <2>8 DEF Allocations
    <3> DEFINE m == arrivals * SduSize
    <3>3. m \in Nat /\ buf \in [Lcids -> 0 .. m]
      BY ArrivalsFit DEF BufType
    <3> HIDE DEF m
    <3>4. buf' \in [Lcids -> 0 .. m]
      BY <2>8, <3>1, <3>2, <3>3
    <3> QED  BY <1>8, <3>4, Zenon DEF new_grant_ul, BufType, m
  <2>10. 0 \in -1 .. RetxTimeout - 1
    BY UlAssumption
  <2> QED
    BY <1>8, <2>2, <2>4, <2>6, <2>9, <2>10 DEF new_grant_ul, ReqType, UlPhyType, UlClockType
<1>9. CASE harq_ack
  <2>1. harq' \in HarqRec
    BY <1>9, NoPduType DEF harq_ack
  <2>2. enb' \in BOOLEAN
    BY <1>9, Zenon DEF harq_ack
  <2> QED
    BY <1>9, <2>1, <2>2, BufSame DEF harq_ack, macUlVars, ReqType, UlPhyType, UlClockType
<1>10. CASE harq_nack
  <2>1. harq' \in HarqRec
    <3>1. harq.nb \in 0 .. MaxRetx
      BY DEF UlPhyType, HarqRec
    <3>2. harq' = NoPdu \/ (harq.nb + 1 < MaxRetx /\ harq' = [harq EXCEPT !.nb = @ + 1])
      BY <1>10, <3>1, UlAssumption DEF harq_nack
    <3>3. harq.nb + 1 < MaxRetx => harq.nb + 1 \in 0 .. MaxRetx
      BY <3>1, UlAssumption
    <3> QED  BY <3>2, <3>3, NoPduType DEF UlPhyType, HarqRec
  <2>2. bsr' \in BsrRec
    BY <1>0, <1>10 DEF harq_nack, ReqType, BsrRec
  <2>3. enb' \in BOOLEAN
    BY <1>10, Zenon DEF harq_nack, UlPhyType
  <2> QED
    BY <1>10, <2>1, <2>2, <2>3, BufSame DEF harq_nack, ReqType, UlPhyType, UlClockType
<1>11. CASE sr_ra_completed
  BY <1>11, BufSame DEF sr_ra_completed, ReqType, UlPhyType, UlClockType
<1>12. CASE UNCHANGED ulVars
  BY <1>12, BufSame DEF ulVars, macUlVars, ReqType, UlPhyType, UlClockType
<1> QED
  BY <1>1, <1>2, <1>3, <1>4, <1>5, <1>6, <1>7, <1>8, <1>9, <1>10, <1>11, <1>12
  DEF UlNext, UlThread

(* For every number of channels and SDUs, every limit and timer: the       *)
(* variables of the uplink stay in their ranges; sr_counter does not pass  *)
(* dsr_transmax, no channel sends more than it has (mux::pdu_get()), and a *)
(* HARQ process sends no more than max_harq_tx times.                      *)
THEOREM UlTypesCorrect == UlSpec => []UlTypeOK
  BY UlTypeInit, UlTypeStep, UlTypeImplies, PTL DEF UlSpec

-----------------------------------------------------------------------------
(***************************************************************************)
(* The worker pool for every number of workers and mutexes: the receiver   *)
(* writes into the buffer and the TTI of a worker only while that worker   *)
(* waits, although it looks at the status of the workers without their     *)
(* mutexes.                                                                *)
(***************************************************************************)
(* The types that the argument needs. *)
PoolType ==
  /\ rx \in [pc : {"find", "sleep", "take", "recv", "start", "release", "reset"},
             id : PhyThreads]
  /\ status \in [PhyThreads -> Status]
  /\ worker \in [PhyThreads -> [pc : {"wait", "work", "first", "lock", "tx", "unlock",
                                      "finish", "signal"}, slot : Slots]]
  /\ tx_mutex_cnt \in Slots

(* Where a worker is in its own code. *)
AtWork == {"work", "first", "lock", "tx", "unlock", "finish"}

(* The status is what tells the two apart: it is WORKING from the start    *)
(* of work_imp() to its end, and only the receiver changes it while it is  *)
(* IDLE or WORKER_READY.                                                   *)
PoolInd ==
  /\ PoolType
  /\ \A w \in PhyThreads : worker[w].pc \in AtWork => status[w] = "WORKING"
  /\ rx.pc = "take" => status[rx.id] = "IDLE"
  /\ rx.pc \in {"recv", "start", "release"} => status[rx.id] = "WORKER_READY"

(* The mutex after the last one is the first one. *)
LEMMA SlotsWrap == ASSUME NEW s \in Slots PROVE NextSlot(s) \in Slots
  BY PhyWorkersAssumption DEF NextSlot, Slots

(* All workers are idle, the receiver looks for one. *)
LEMMA PoolInit == PwInit => PoolInd
<1> SUFFICES ASSUME PwInit PROVE PoolInd
  OBVIOUS
<1>1. 0 \in PhyThreads /\ 0 \in Slots
  BY PhyWorkersAssumption DEF PhyThreads, Slots
<1> QED  BY <1>1 DEF PwInit, PoolInd, PoolType, Status, AtWork

(* No step of the receiver or of a worker breaks the tie between status    *)
(* and place.                                                              *)
LEMMA PoolStep == PoolInd /\ [PwNext]_pwVars => PoolInd'
<1> SUFFICES ASSUME PoolInd, [PwNext]_pwVars PROVE PoolInd'
  OBVIOUS
<1> USE DEF PoolInd, PoolType, AtWork, Status
<1>1. CASE wait_worker
  <2>1. Finished \in SUBSET Nat /\ Finished \subseteq PhyThreads
    BY PhyWorkersAssumption DEF Finished, PhyThreads
  <2>2. Finished # {} => Min(Finished) \in Finished
    BY <2>1, MinIsMember
  <2>3. Finished # {} => Min(Finished) \in PhyThreads /\ status[Min(Finished)] = "IDLE"
    BY <2>2 DEF Finished
  <2> QED  BY <1>1, <2>3 DEF wait_worker
<1>2. CASE take_worker
  BY <1>2 DEF take_worker, RxAt
<1>3. CASE set_tti
  BY <1>3, SlotsWrap DEF set_tti
<1>4. CASE start_worker
  BY <1>4 DEF start_worker, RxAt
<1>5. CASE sync_error
  BY <1>5 DEF sync_error, RxAt
<1>6. CASE release
  BY <1>6 DEF release, RxAt
<1>7. CASE reset_ul
  BY <1>7, SMTT(30) DEF reset_ul, RxAt
<1>8. ASSUME NEW w \in PhyThreads, Worker(w) PROVE PoolInd'
  <2>1. CASE wait_to_start(w)
    BY <2>1 DEF wait_to_start, At
  <2>2. CASE work_imp(w)
    BY <2>2 DEF work_imp, At
  <2>3. CASE first_tx(w)
    BY <2>3 DEF first_tx, At
  <2>4. CASE lock_tx(w)
    BY <2>4 DEF lock_tx, At
  <2>5. CASE tx(w)
    BY <2>5 DEF tx, At
  <2>6. CASE unlock_tx(w)
    BY <2>6 DEF unlock_tx, At
  <2>7. CASE finished(w)
    BY <2>7 DEF finished, At, Woken
  <2> QED  BY <1>8, <2>1, <2>2, <2>3, <2>4, <2>5, <2>6, <2>7 DEF Worker
<1>9. CASE UNCHANGED pwVars
  BY <1>9 DEF pwVars
<1> QED  BY <1>1, <1>2, <1>3, <1>4, <1>5, <1>6, <1>7, <1>8, <1>9 DEF PwNext, Receiver

(* For every number of workers: whatever the receiver, the workers and     *)
(* lost synchronisations do, a buffer that the receiver fills or a TTI     *)
(* that it sets belongs to a worker that is not in work_imp().             *)
THEOREM WorkersKeepBuffers == PwSpec => []BufferOwned
<1>1. PoolInd => BufferOwned
  BY DEF PoolInd, PoolType, AtWork, BufferOwned
<1> QED  BY <1>1, PoolInit, PoolStep, PTL DEF PwSpec

(* The mutexes and the count of lost synchronisations stay in their        *)
(* ranges.                                                                 *)
LEMMA FlagsStep ==
  ASSUME PoolInd, locked \in [Slots -> BOOLEAN], is_first_tx \in BOOLEAN,
         errors \in 0 .. MaxErrors, [PwNext]_pwVars
  PROVE  /\ locked' \in [Slots -> BOOLEAN] /\ is_first_tx' \in BOOLEAN
         /\ errors' \in 0 .. MaxErrors
<1>1. CASE wait_worker \/ take_worker \/ set_tti \/ start_worker \/ release
  BY <1>1 DEF wait_worker, take_worker, set_tti, start_worker, release
<1>2. CASE reset_ul
  BY <1>2, Zenon DEF reset_ul
<1>3. CASE sync_error
  BY <1>3, PhyWorkersAssumption DEF sync_error
<1>4. ASSUME NEW w \in PhyThreads, Worker(w)
      PROVE  /\ locked' \in [Slots -> BOOLEAN] /\ is_first_tx' \in BOOLEAN
             /\ errors' \in 0 .. MaxErrors
  <2>1. CASE wait_to_start(w) \/ work_imp(w) \/ tx(w) \/ finished(w)
    BY <2>1 DEF wait_to_start, work_imp, tx, finished
  <2>2. CASE first_tx(w)
    BY <2>2 DEF first_tx
  <2>3. CASE lock_tx(w)
    BY <2>3 DEF lock_tx
  <2>4. CASE unlock_tx(w)
    BY <2>4 DEF unlock_tx
  <2> QED  BY <1>4, <2>1, <2>2, <2>3, <2>4 DEF Worker
<1>5. CASE UNCHANGED pwVars
  BY <1>5 DEF pwVars
<1> QED  BY <1>1, <1>2, <1>3, <1>4, <1>5 DEF PwNext, Receiver

(* For every number of workers and mutexes and any number of lost          *)
(* synchronisations: the variables of the pipeline stay in their ranges.   *)
THEOREM PoolTypesCorrect == PwSpec => []PwTypeOK
<1> DEFINE Ind ==
      /\ PoolInd /\ locked \in [Slots -> BOOLEAN] /\ is_first_tx \in BOOLEAN
      /\ errors \in 0 .. MaxErrors
<1>1. PwInit => Ind
  <2> SUFFICES ASSUME PwInit PROVE Ind
    OBVIOUS
  <2>1. locked \in [Slots -> BOOLEAN] /\ is_first_tx \in BOOLEAN
    BY Zenon DEF PwInit
  <2>2. errors \in 0 .. MaxErrors
    BY PhyWorkersAssumption DEF PwInit
  <2> QED  BY <2>1, <2>2, PoolInit
<1>2. Ind /\ [PwNext]_pwVars => Ind'
  BY PoolStep, FlagsStep
<1>3. Ind => PwTypeOK
  BY DEF PwTypeOK, PoolInd, PoolType
<1> QED  BY <1>1, <1>2, <1>3, PTL DEF PwSpec
=============================================================================
