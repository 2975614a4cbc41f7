----------------------------- MODULE UpperKeys -----------------------------
(***************************************************************************)
(* Registration and keys: NAS (nas.cc) with the USIM (usim.cc), the        *)
(* security mode of RRC (rrc.cc) and the PDCP entity of SRB1               *)
(* (pdcp_entity.cc), against a core network and a base station that keep   *)
(* the rules.  A key of NAS is the number of the authentication vector     *)
(* that K_ASME comes from; a key of SRB1 is that number with the NAS count *)
(* that K_eNB comes from.  RLC AM delivers in order, but a connection may  *)
(* end at any time, and what is under way on it is lost.                   *)
(* Network authentication succeeds, since both sides know K.  On           *)
(* re-establishment no key is derived ("TODO" in handle_con_reest()); the  *)
(* base station here derives none either.                                  *)
(***************************************************************************)
EXTENDS Integers, Sequences

CONSTANTS
  MaxVectors,      \* authentication vectors of the network
  MaxConnections,  \* connections that are set up
  MaxReests,       \* re-establishments
  ServiceSnMod,    \* a service request carries the count modulo this; 32 in the code
  Eias             \* integrity algorithms that the network selects

ASSUME KeysAssumption ==
  /\ {MaxVectors, MaxConnections, MaxReests} \subseteq Nat
  /\ ServiceSnMod \in Nat \ {0} /\ Eias \subseteq {"EIA0", "EIA1", "EIA2"}

VARIABLES
  emm_state,
  count_ul,
  k_asme,          \* of the USIM; 0 before the first authentication
  k_nas,           \* k_nas_int with integ_algo
  srb1,            \* active, do_security, k_rrc_int and tx_count of PDCP
  ul_dcch, dl_dcch,  \* messages on SRB1 under way
  mme,             \* the network's vectors, context, NAS count and procedure
  k_enb,           \* the base station's key, <<>> before there is one
  protected, reused,  \* history: <<key, count>> of protected messages, and a repetition
  connections, reests

ueKeyVars == <<emm_state, count_ul, k_asme, k_nas, srb1>>
keyVars == <<ueKeyVars, ul_dcch, dl_dcch, mme, k_enb, protected, reused, connections, reests>>

NoBearer == [active |-> FALSE, do_security |-> FALSE, key |-> <<>>, tx_count |-> 0]

KeysInit ==
  /\ emm_state = "DEREGISTERED" /\ count_ul = 0 /\ k_asme = 0
  /\ k_nas = [key |-> 0, algo |-> "none"] /\ srb1 = NoBearer
  /\ ul_dcch = <<>> /\ dl_dcch = <<>>
  /\ mme = [vectors |-> 0, key |-> 0, count |-> -1, attaching |-> FALSE]
  /\ k_enb = <<>> /\ protected = {} /\ reused = FALSE
  /\ connections = 0 /\ reests = 0

-----------------------------------------------------------------------------
(***************************************************************************)
(* Messages of the UE.  A NAS message that is protected shows the key, the *)
(* algorithm and the count that its code was made from.                    *)
(***************************************************************************)
Plain(msg) == [msg |-> msg, key |-> 0, algo |-> "none", count |-> 0]
Protected(msg, key, count) == [msg |-> msg, key |-> key.key, algo |-> key.algo, count |-> count]

(* pdcp_entity::write_sdu() for every message, on the entity as it is then.*)
WriteSdus(bearer, msgs) ==
  LET n == Len(msgs)
      pdcp == IF bearer.do_security
              THEN {<<bearer.key, bearer.tx_count + i>> : i \in 0 .. n - 1} ELSE {}
      nas == {<<<<msgs[i].key>>, msgs[i].count>> :
                i \in {j \in 1 .. n : msgs[j].algo # "none"}}
  IN /\ srb1' = [bearer EXCEPT !.tx_count = @ + n]
     /\ ul_dcch' = ul_dcch \o msgs
     /\ protected' = protected \cup pdcp \cup nas
     /\ reused' = (reused \/ protected \cap (pdcp \cup nas) # {})

(* Mutant of pdcp_entity::init(): the count is kept. *)
init_keeps_count == [srb1 EXCEPT !.active = TRUE, !.do_security = FALSE]
pdcp_entity_init == [NoBearer EXCEPT !.active = TRUE]

(* Mutant of send_service_request(): the count is not incremented. *)
send_service_request_same ==
  /\ WriteSdus(pdcp_entity_init, <<Protected("service_request", k_nas, count_ul)>>)
  /\ UNCHANGED count_ul

send_service_request ==
  /\ WriteSdus(pdcp_entity_init, <<Protected("service_request", k_nas, count_ul + 1)>>)
  /\ count_ul' = count_ul + 1

send_attach_request ==
  WriteSdus(pdcp_entity_init, <<Plain("attach_request")>>) /\ UNCHANGED count_ul

(* A connection is set up, and NAS tells what for. *)
notify_connection_setup ==
  /\ ~ srb1.active /\ connections < MaxConnections
  /\ connections' = connections + 1
  /\ IF emm_state = "DEREGISTERED" THEN send_attach_request ELSE send_service_request
  /\ UNCHANGED <<emm_state, k_asme, k_nas, dl_dcch, mme, k_enb, reests>>

(* handle_con_reest(): PDCP has the bearer already, and keeps it. *)
send_con_restablish_complete ==
  /\ srb1.active /\ reests < MaxReests /\ reests' = reests + 1
  /\ WriteSdus(srb1, <<Plain("reestablishment_complete")>>)
  /\ UNCHANGED <<emm_state, count_ul, k_asme, k_nas, dl_dcch, mme, k_enb, connections>>

(* The connection ends, by a message or by a failure: pdcp::reset(). *)
pdcp_reset ==
  /\ srb1.active
  /\ srb1' = [srb1 EXCEPT !.active = FALSE]
  /\ ul_dcch' = <<>> /\ dl_dcch' = <<>> /\ k_enb' = <<>>
  /\ UNCHANGED <<emm_state, count_ul, k_asme, k_nas, mme, protected, reused, connections, reests>>

-----------------------------------------------------------------------------
(***************************************************************************)
(* The handlers of the PDU thread, for the first message under way.        *)
(***************************************************************************)
Receives(msg) ==
  /\ dl_dcch # <<>> /\ Head(dl_dcch).msg = msg
  /\ dl_dcch' = Tail(dl_dcch)
  /\ UNCHANGED <<mme, k_enb, connections, reests>>

parse_authentication_request ==
  /\ Receives("authentication_request")
  /\ k_asme' = Head(dl_dcch).key
  /\ WriteSdus(srb1, <<Plain("authentication_response")>>)
  /\ UNCHANGED <<emm_state, count_ul, k_nas>>

(* The algorithm is assigned before it is looked at: a reject leaves the   *)
(* old key with the new algorithm.                                         *)
parse_security_mode_command ==
  LET algo == Head(dl_dcch).algo
      rejected == algo \notin {"EIA1", "EIA2"}
  IN /\ Receives("security_mode_command")
     /\ k_nas' = [key |-> IF rejected THEN k_nas.key ELSE k_asme, algo |-> algo]
     /\ WriteSdus(srb1, IF rejected THEN <<Plain("security_mode_reject")>>
                        ELSE <<Protected("security_mode_complete", k_nas', count_ul)>>)
     /\ UNCHANGED <<emm_state, count_ul, k_asme>>

(* Mutant of usim::generate_as_keys(): K_eNB as it is for the first attach.*)
generate_as_keys_first == <<k_asme, 0>>
generate_as_keys == <<k_asme, count_ul>>

(* The security mode command of RRC. *)
rrc_security_mode_command ==
  /\ Receives("rrc_security_mode_command")
  /\ WriteSdus([srb1 EXCEPT !.do_security = TRUE, !.key = generate_as_keys],
               <<Plain("rrc_security_mode_complete")>>)
  /\ UNCHANGED <<emm_state, count_ul, k_asme, k_nas>>

(* handle_rrc_con_reconfig(), and parse_attach_accept() for what it        *)
(* carries: nothing, an accept, one for a combined attach, or an address   *)
(* that is not of IPv4, for which the handler returns.                     *)
con_reconfig ==
  LET carries == Head(dl_dcch).algo
      accepts == carries = "accept"
  IN /\ Receives("con_reconfig")
     /\ emm_state' = IF accepts THEN "REGISTERED"
                     ELSE IF carries = "combined" THEN "DEREGISTERED" ELSE emm_state
     /\ count_ul' = IF accepts THEN count_ul + 1 ELSE count_ul
     /\ WriteSdus(srb1, IF accepts THEN <<Plain("reconfig_complete"),
                                          Protected("attach_complete", k_nas, count_ul')>>
                        ELSE <<Plain("reconfig_complete")>>)
     /\ UNCHANGED <<k_asme, k_nas>>

(* parse_attach_reject() and parse_authentication_reject(). *)
parse_reject ==
  /\ Receives("reject") /\ emm_state' = "DEREGISTERED"
  /\ UNCHANGED <<count_ul, k_asme, k_nas, srb1, ul_dcch, protected, reused>>

(* parse_service_reject() and others are not written yet. *)
parse_todo ==
  /\ Receives("service_reject")
  /\ UNCHANGED <<ueKeyVars, ul_dcch, protected, reused>>

-----------------------------------------------------------------------------
(***************************************************************************)
(* The network, which is external: it authenticates every attach, may      *)
(* authenticate before it accepts a service request, and derives K_eNB     *)
(* from the count of the message that it accepts.                          *)
(***************************************************************************)
Answers(msg, key, algo) ==
  dl_dcch' = Append(dl_dcch, [msg |-> msg, key |-> key, algo |-> algo])

Authenticates(m) ==
  /\ m.vectors < MaxVectors
  /\ mme' = [m EXCEPT !.vectors = @ + 1]
  /\ Answers("authentication_request", m.vectors + 1, "none")
  /\ UNCHANGED k_enb

(* Integrity is checked with the count that fits the bits that are sent.   *)
Estimate(sn) == mme.count + 1 + ((sn - mme.count - 1) % ServiceSnMod)
Valid(m, count) == m.key = mme.key /\ m.algo \in {"EIA1", "EIA2"} /\ m.count = count

Accepts_service(m) ==
  /\ mme' = [mme EXCEPT !.count = m.count] /\ k_enb' = <<mme.key, m.count>>
  /\ Answers("rrc_security_mode_command", 0, "none")

Serves(m) ==
  \/ /\ m.msg = "attach_request"
     /\ \/ Authenticates([mme EXCEPT !.attaching = TRUE])
        \/ Answers("reject", 0, "none") /\ UNCHANGED <<mme, k_enb>>
  \/ /\ m.msg = "authentication_response"
     /\ \E a \in Eias : Answers("security_mode_command", mme.vectors, a)
     /\ UNCHANGED <<mme, k_enb>>
  \/ /\ m.msg = "security_mode_complete" /\ m.key = mme.vectors
     /\ mme' = [mme EXCEPT !.key = m.key, !.count = m.count] /\ k_enb' = <<m.key, m.count>>
     /\ Answers("rrc_security_mode_command", 0, "none")
  \/ /\ m.msg = "service_request"
     /\ LET valid == Valid(m, Estimate(m.count % ServiceSnMod))
        IN \/ valid /\ Accepts_service(m)
           \/ valid /\ Authenticates([mme EXCEPT !.count = m.count, !.attaching = FALSE])
           \/ ~ valid /\ Answers("service_reject", 0, "none") /\ UNCHANGED <<mme, k_enb>>
  \/ /\ m.msg = "rrc_security_mode_complete"
     /\ \E c \in IF mme.attaching THEN {"accept", "combined", "ipv6"} ELSE {"nothing"} :
          Answers("con_reconfig", 0, c)
     /\ mme' = [mme EXCEPT !.attaching = FALSE] /\ UNCHANGED k_enb
  \/ /\ m.msg = "attach_complete" /\ Valid(m, m.count) /\ m.count > mme.count
     /\ mme' = [mme EXCEPT !.count = m.count] /\ UNCHANGED <<dl_dcch, k_enb>>
  \/ /\ m.msg \in {"security_mode_reject", "reestablishment_complete", "reconfig_complete"}
     /\ UNCHANGED <<dl_dcch, mme, k_enb>>

network ==
  /\ ul_dcch # <<>> /\ Serves(Head(ul_dcch)) /\ ul_dcch' = Tail(ul_dcch)
  /\ UNCHANGED <<ueKeyVars, protected, reused, connections, reests>>

-----------------------------------------------------------------------------
KeysNext ==
  \/ notify_connection_setup \/ send_con_restablish_complete \/ pdcp_reset
  \/ parse_authentication_request \/ parse_security_mode_command \/ rrc_security_mode_command
  \/ con_reconfig \/ parse_reject \/ parse_todo \/ network

KeysSpec == KeysInit /\ [][KeysNext]_keyVars

(* A connection that attaches sends six messages, and others fewer. *)
MaxSrbCount == 6 + MaxReests

KeysTypeOK ==
  /\ emm_state \in {"DEREGISTERED", "REGISTERED"}
  /\ count_ul \in 0 .. 2 * MaxConnections /\ {k_asme, k_nas.key} \subseteq 0 .. MaxVectors
  /\ {srb1.active, srb1.do_security, reused} \subseteq BOOLEAN
  /\ srb1.tx_count \in 0 .. MaxSrbCount

(* generate_as_keys() derives the key of SRB1 from the K_ASME and the NAS  *)
(* count that the USIM and NAS have at that moment; nothing in the command *)
(* tells which ones the network has taken.  Wherever connections ended     *)
(* before, they are the same, as long as the last authentication was       *)
(* followed by its security mode command.  (If it was not, the USIM has    *)
(* the K_ASME of a context that the network does not use yet, and a        *)
(* service request is made with the old one.)                              *)
KeysAgree == srb1.active /\ srb1.do_security /\ k_nas.key = k_asme => srb1.key = k_enb

(* NAS and PDCP never protect two messages with the same key and count:    *)
(* NAS goes on counting when it registers again, and PDCP starts again     *)
(* only with another K_eNB.                                                *)
CountsFresh == ~ reused

=============================================================================
