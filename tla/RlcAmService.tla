---------------------------- MODULE RlcAmService ----------------------------
(***************************************************************************)
(* What an acknowledged-mode bearer promises in one direction: the PDUs    *)
(* that enter it come out once each and in order, and the sender forgets   *)
(* one (its buffer is deallocated) only after it has come out.             *)
(***************************************************************************)
EXTENDS Naturals, Sequences

VARIABLES submitted,   \* PDUs that entered the bearer, numbered from 0
          delivered,   \* the PDUs handed to the upper layer of the peer
          confirmed    \* PDUs the sender has released

serviceVars == <<submitted, delivered, confirmed>>

ServiceInit == submitted = 0 /\ delivered = << >> /\ confirmed = 0

Submit == /\ submitted' = submitted + 1
          /\ UNCHANGED <<delivered, confirmed>>

Deliver == /\ \E n \in 1 .. submitted - Len(delivered) :
                delivered' = delivered \o [i \in 1 .. n |-> Len(delivered) + i - 1]
           /\ UNCHANGED <<submitted, confirmed>>

Confirm == /\ confirmed' \in confirmed + 1 .. Len(delivered)
           /\ UNCHANGED <<submitted, delivered>>

ServiceSpec == ServiceInit /\ [][Submit \/ Deliver \/ Confirm]_serviceVars
=============================================================================
