------------------------------ MODULE MCParts ------------------------------
(***************************************************************************)
(* Six parts of the UE, each on a small instance of its own: random        *)
(* access, the uplink, the PHY workers, RRC with its neighbours, RLC in    *)
(* unacknowledged mode, and registration with its keys.  A behaviour runs  *)
(* one of them, chosen in the initial state, and leaves the variables of   *)
(* the others alone; so it is a behaviour of that part's own               *)
(* specification, with its fairness.                                       *)
(***************************************************************************)
EXTENDS MacRa, MacUl, PhyWorkers, RrcConn, RlcUm, UpperKeys

VARIABLE part
Parts == {"ra", "ul", "phy", "rrc", "um", "keys"}
partVars == <<part, raVars, ulVars, pwVars, rrcVars, umVars, keyVars>>

(* The initial states of a part that is not run are not told apart. *)
PartsInit ==
  /\ part \in Parts
  /\ RaInit \/ (part = "ra" /\ RaConnected)
  /\ UlInit /\ PwInit /\ UmInit /\ KeysInit
  /\ RrcInit /\ (part # "rrc" => n310_cnt = 0 /\ n311_cnt = 0)

PartsNext ==
  /\ UNCHANGED part
  /\ \/ part = "ra"   /\ RaNext   /\ UNCHANGED <<ulVars, pwVars, rrcVars, umVars, keyVars>>
     \/ part = "ul"   /\ UlNext   /\ UNCHANGED <<raVars, pwVars, rrcVars, umVars, keyVars>>
     \/ part = "phy"  /\ PwNext   /\ UNCHANGED <<raVars, ulVars, rrcVars, umVars, keyVars>>
     \/ part = "rrc"  /\ RrcNext  /\ UNCHANGED <<raVars, ulVars, pwVars, umVars, keyVars>>
     \/ part = "um"   /\ UmNext   /\ UNCHANGED <<raVars, ulVars, pwVars, rrcVars, keyVars>>
     \/ part = "keys" /\ KeysNext /\ UNCHANGED <<raVars, ulVars, pwVars, rrcVars, umVars>>

(* RaFairness, UlFairness, PwFairness and RrcFairness, each of the part    *)
(* that runs.                                                              *)
PartsFairness ==
  /\ WF_raVars(part = "ra" /\ tti_clock)
  /\ WF_raVars(part = "ra" /\ MacThread)
  /\ WF_raVars(part = "ra" /\ RaWorkers)
  /\ WF_ulVars(part = "ul" /\ UlThread)
  /\ WF_ulVars(part = "ul" /\ BaseStation)
  /\ WF_pwVars(part = "phy" /\ Receiver)
  /\ \A w \in PhyThreads : WF_pwVars(part = "phy" /\ Worker(w))
  /\ WF_rrcVars(part = "rrc" /\ RrcProgress)
  /\ WF_rrcVars(part = "rrc" /\ Gateway)

PartsSpec == PartsInit /\ [][PartsNext]_partVars /\ PartsFairness

(* SubframesGoOn where the workers run: the receiver gets subframes for    *)
(* ever, because no signal of finished() is lost and no worker waits for   *)
(* ever for its turn in worker_end().                                      *)
PhyGoesOn == part = "phy" => SubframesGoOn
=============================================================================
