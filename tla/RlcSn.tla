------------------------------- MODULE RlcSn -------------------------------
(***************************************************************************)
(* Sequence numbers of the acknowledged-mode RLC entity (rlc_am.cc) and    *)
(* the polled wall-clock timers it uses (timeout.h).  The code fixes       *)
(* MOD = 1024 and RLC_AM_WINDOW_SIZE = 512; both are parameters here.      *)
(***************************************************************************)
EXTENDS Integers, Sequences

CONSTANTS MOD,     \* sequence numbers are 0 .. MOD-1
          WINDOW,  \* RLC_AM_WINDOW_SIZE
          PduLen   \* bytes of data in a data PDU; a segment is part of them

ASSUME WindowAssumption == /\ MOD \in Nat /\ WINDOW \in Nat
                           /\ 0 < WINDOW /\ 2 * WINDOW <= MOD
ASSUME PduLenAssumption == PduLen \in Nat \ {0}

SN == 0 .. MOD - 1

(* RX_MOD_BASE and TX_MOD_BASE: the distance of x above the window's base. *)
(* The code subtracts in uint32_t; 1024 divides 2^32, so the result is the *)
(* mathematical remainder.                                                 *)
Dist(x, base) == (x - base) % MOD

Plus(x, n) == (x + n) % MOD

(* The n sequence numbers that start at x. *)
Run(x, n) == { Plus(x, i) : i \in 0 .. n - 1 }

(* n is the length of the run of members of S that starts at x: what the   *)
(* loops "while(found) x = (x+1)%MOD" of rlc_am.cc step over.              *)
IsRunLength(x, S, n) ==
  /\ \A i \in 0 .. n - 1 : Plus(x, i) \in S
  /\ Plus(x, n) \notin S

(* A queue without its i-th element. *)
RemoveAt(s, i) == SubSeq(s, 1, i - 1) \o SubSeq(s, i + 1, Len(s))

(* A timeout object: is_running() holds in both of the last two states,    *)
(* expired() in the last one only.                                         *)
Timeout == {"stopped", "running", "expired"}
=============================================================================
