---------------------------- MODULE RlcSnProofs ----------------------------
(***************************************************************************)
(* Arithmetic of sequence numbers: RX_MOD_BASE and TX_MOD_BASE without the *)
(* remainder, for every modulus, the loops that walk over a run of stored  *)
(* sequence numbers, and what a series of status reports tells.            *)
(***************************************************************************)
EXTENDS RlcSn, SequenceTheorems, TLAPS

(* The remainder of a number that is at most one modulus away from 0..m-1. *)
LEMMA ModNear ==
  ASSUME NEW m \in Nat, 0 < m, NEW a \in Int
  PROVE  /\ 0 <= a /\ a < m => a % m = a
         /\ m <= a /\ a < 2 * m => a % m = a - m
         /\ -m <= a /\ a < 0 => a % m = a + m
  BY SMT

(* What RX_MOD_BASE computes: the distance upwards from base to x. *)
LEMMA DistValue ==
  ASSUME NEW x \in SN, NEW base \in SN
  PROVE  /\ Dist(x, base) = IF base <= x THEN x - base ELSE x - base + MOD
         /\ Dist(x, base) \in SN
  BY WindowAssumption, ModNear DEF Dist, SN

(* Stepping n numbers up from x, as "(x + n) % MOD". *)
LEMMA PlusValue ==
  ASSUME NEW x \in SN, NEW n \in SN
  PROVE  /\ Plus(x, n) = IF x + n < MOD THEN x + n ELSE x + n - MOD
         /\ Plus(x, n) \in SN
  BY WindowAssumption, ModNear DEF Plus, SN

(* A number is reached from the base by its distance, and by no other. *)
LEMMA PlusDist ==
  ASSUME NEW base \in SN, NEW x \in SN, NEW i \in SN
  PROVE  /\ Plus(base, Dist(x, base)) = x
         /\ Dist(Plus(base, i), base) = i
         /\ Dist(base, base) = 0
<1> DEFINE d == Dist(x, base)
           p == Plus(base, i)
<1>1. /\ d = IF base <= x THEN x - base ELSE x - base + MOD
      /\ d \in SN
  BY DistValue
<1>2. Plus(base, d) = IF base + d < MOD THEN base + d ELSE base + d - MOD
  BY <1>1, PlusValue
<1>3. /\ p = IF base + i < MOD THEN base + i ELSE base + i - MOD
      /\ p \in SN
  BY PlusValue
<1>4. Dist(p, base) = IF base <= p THEN p - base ELSE p - base + MOD
  BY <1>3, DistValue
<1>5. Dist(base, base) = IF base <= base THEN base - base ELSE base - base + MOD
  BY DistValue
<1> HIDE DEF d, p
<1>6. MOD \in Nat  BY WindowAssumption
<1>7. Plus(base, d) = x  BY <1>1, <1>2, <1>6 DEF SN
<1>8. Dist(p, base) = i  BY <1>3, <1>4, <1>6 DEF SN
<1> QED  BY <1>5, <1>7, <1>8 DEF d, p, SN

(* Distances determine sequence numbers. *)
LEMMA DistInjective ==
  ASSUME NEW base \in SN, NEW x \in SN, NEW y \in SN, Dist(x, base) = Dist(y, base)
  PROVE  x = y
  BY PlusDist

(* Stepping up from x steps up the distance, up to the modulus. *)
LEMMA DistPlus ==
  ASSUME NEW base \in SN, NEW x \in SN, NEW i \in SN, Dist(x, base) + i < MOD
  PROVE  Dist(Plus(x, i), base) = Dist(x, base) + i
<1> DEFINE p == Plus(x, i)
<1>1. /\ p = IF x + i < MOD THEN x + i ELSE x + i - MOD
      /\ p \in SN
  BY PlusValue
<1>2. Dist(x, base) = IF base <= x THEN x - base ELSE x - base + MOD
  BY DistValue
<1>3. Dist(p, base) = IF base <= p THEN p - base ELSE p - base + MOD
  BY <1>1, DistValue
<1> HIDE DEF p
<1>4. MOD \in Nat  BY WindowAssumption
<1>5. Dist(p, base) = Dist(x, base) + i  BY <1>1, <1>2, <1>3, <1>4 DEF SN
<1> QED  BY <1>5 DEF p

(* Distances after the base has moved up by n. *)
LEMMA DistShift ==
  ASSUME NEW base \in SN, NEW x \in SN, NEW n \in SN
  PROVE  Dist(x, Plus(base, n)) =
           IF n <= Dist(x, base) THEN Dist(x, base) - n ELSE Dist(x, base) - n + MOD
<1> DEFINE p == Plus(base, n)
<1>1. /\ p = IF base + n < MOD THEN base + n ELSE base + n - MOD
      /\ p \in SN
  BY PlusValue
<1>2. Dist(x, base) = IF base <= x THEN x - base ELSE x - base + MOD
  BY DistValue
<1>3. Dist(x, p) = IF p <= x THEN x - p ELSE x - p + MOD
  BY <1>1, DistValue
<1> HIDE DEF p
<1>4. MOD \in Nat  BY WindowAssumption
<1>5. Dist(x, p) = IF n <= Dist(x, base) THEN Dist(x, base) - n
                   ELSE Dist(x, base) - n + MOD
  BY <1>1, <1>2, <1>3, <1>4 DEF SN
<1> QED  BY <1>5 DEF p

(* Two edges that move up together keep their distance. *)
LEMMA PlusCommutes ==
  ASSUME NEW x \in SN, NEW a \in SN, NEW b \in SN
  PROVE  Plus(Plus(x, a), b) = Plus(Plus(x, b), a)
<1>1. Plus(x, a) \in SN /\ Plus(x, b) \in SN  BY PlusValue
<1>2. Plus(x, a) = IF x + a < MOD THEN x + a ELSE x + a - MOD  BY PlusValue
<1>3. Plus(x, b) = IF x + b < MOD THEN x + b ELSE x + b - MOD  BY PlusValue
<1>4. Plus(Plus(x, a), b) = IF Plus(x, a) + b < MOD THEN Plus(x, a) + b ELSE Plus(x, a) + b - MOD
  BY <1>1, PlusValue
<1>5. Plus(Plus(x, b), a) = IF Plus(x, b) + a < MOD THEN Plus(x, b) + a ELSE Plus(x, b) + a - MOD
  BY <1>1, PlusValue
<1> QED  BY <1>2, <1>3, <1>4, <1>5, WindowAssumption DEF SN

(* A run of sequence numbers consists of sequence numbers. *)
LEMMA RunNumbers ==
  ASSUME NEW x \in SN, NEW n \in SN
  PROVE  Run(x, n) \subseteq SN
<1> SUFFICES ASSUME NEW i \in 0 .. n - 1 PROVE Plus(x, i) \in SN  BY DEF Run
<1>1. i \in SN  BY WindowAssumption DEF SN
<1> QED  BY <1>1, PlusValue

(* The run of n numbers from x holds those at a distance below n. *)
LEMMA RunMember ==
  ASSUME NEW x \in SN, NEW n \in SN, NEW s \in SN
  PROVE  s \in Run(x, n) <=> Dist(s, x) < n
<1>1. ASSUME s \in Run(x, n) PROVE Dist(s, x) < n
  <2>1. PICK i \in 0 .. n - 1 : s = Plus(x, i)  BY <1>1 DEF Run
  <2>2. i \in SN  BY WindowAssumption DEF SN
  <2> QED  BY <2>1, <2>2, PlusDist DEF SN
<1>2. ASSUME Dist(s, x) < n PROVE s \in Run(x, n)
  <2>1. Dist(s, x) \in 0 .. n - 1  BY <1>2, DistValue, WindowAssumption DEF SN
  <2>2. Plus(x, Dist(s, x)) = s  BY PlusDist
  <2> QED  BY <2>1, <2>2 DEF Run
<1> QED  BY <1>1, <1>2

(* A loop that walks from x while it meets members of S stays within k of  *)
(* the base when S does, and has met everything it passed.                 *)
LEMMA WalkBound ==
  ASSUME NEW base \in SN, NEW x \in SN, NEW m \in SN, NEW k \in SN,
         NEW S, \A s \in S : s \in SN /\ Dist(s, base) < k,
         Dist(x, base) <= k, IsRunLength(x, S, m)
  PROVE  /\ Dist(x, base) + m <= k
         /\ Dist(Plus(x, m), base) = Dist(x, base) + m
         /\ Plus(x, m) \in SN \ S
         /\ \A s \in SN : /\ Dist(x, base) <= Dist(s, base)
                          /\ Dist(s, base) < Dist(x, base) + m
                          => s \in S
<1> DEFINE d == Dist(x, base)
<1>0. d \in SN  BY DistValue
<1>1. d + m <= k
  <2> SUFFICES ASSUME k < d + m PROVE FALSE  BY <1>0, WindowAssumption DEF SN
  <2> DEFINE i == k - d
  <2>1. i \in 0 .. m - 1 /\ i \in SN /\ d + i = k  BY <1>0, WindowAssumption DEF SN
  <2> HIDE DEF i
  <2>2. Dist(Plus(x, i), base) = k  BY <2>1, DistPlus, WindowAssumption DEF SN
  <2>3. Plus(x, i) \in S  BY <2>1 DEF IsRunLength
  <2> QED  BY <2>2, <2>3, WindowAssumption DEF SN
<1>2. Dist(Plus(x, m), base) = d + m  BY <1>0, <1>1, DistPlus, WindowAssumption DEF SN
<1>3. Plus(x, m) \in SN \ S  BY PlusValue DEF IsRunLength
<1>4. ASSUME NEW s \in SN, d <= Dist(s, base), Dist(s, base) < d + m
      PROVE  s \in S
  <2> DEFINE i == Dist(s, base) - d
  <2>0. Dist(s, base) \in SN  BY DistValue
  <2>1. i \in 0 .. m - 1 /\ i \in SN /\ d + i = Dist(s, base)  BY <1>0, <1>4, <2>0, WindowAssumption DEF SN
  <2> HIDE DEF i
  <2>2. Dist(Plus(x, i), base) = Dist(s, base)  BY <2>0, <2>1, DistPlus, WindowAssumption DEF SN
  <2>3. Plus(x, i) = s  BY <2>1, <2>2, PlusValue, DistInjective, Zenon
  <2> QED  BY <2>1, <2>3 DEF IsRunLength
<1> QED  BY <1>1, <1>2, <1>3, <1>4
-----------------------------------------------------------------------------
(***************************************************************************)
(* Counts and their sequence numbers: x % MOD for counts x that grow       *)
(* without a bound.                                                        *)
(***************************************************************************)
LEMMA Division ==
  ASSUME NEW x \in Int
  PROVE  x % MOD \in SN /\ x \div MOD \in Int /\ x = (MOD * (x \div MOD)) + (x % MOD)
  BY WindowAssumption DEF SN

(* There is one remainder only. *)
LEMMA RemainderUnique ==
  ASSUME NEW x \in Int, NEW q \in Int, NEW r \in SN, x = (q * MOD) + r
  PROVE  x % MOD = r
<1> DEFINE d == (x \div MOD) - q
<1>0. MOD \in Nat /\ 0 < MOD  BY WindowAssumption
<1>1. x % MOD \in SN /\ x \div MOD \in Int /\ x = (MOD * (x \div MOD)) + (x % MOD)
  BY Division
<1>2. d \in Int /\ d * MOD = r - (x % MOD)  BY <1>0, <1>1 DEF SN
<1> HIDE DEF d
<1>3. d <= -1 => d * MOD <= -MOD  BY <1>0, <1>2
<1>4. d >= 1 => d * MOD >= MOD  BY <1>0, <1>2
<1>5. d = 0  BY <1>0, <1>1, <1>2, <1>3, <1>4 DEF SN
<1> QED  BY <1>0, <1>1, <1>2, <1>5 DEF SN

(* The number of the count n further on. *)
LEMMA CountPlus ==
  ASSUME NEW x \in Int, NEW n \in Int
  PROVE  (x + n) % MOD = Plus(x % MOD, n)
<1> DEFINE y == (x % MOD) + n
<1>0. MOD \in Nat /\ 0 < MOD  BY WindowAssumption
<1>1. x % MOD \in Int /\ x \div MOD \in Int /\ x = (MOD * (x \div MOD)) + (x % MOD)
  BY <1>0, Division DEF SN
<1>2. y \in Int /\ x + n = (MOD * (x \div MOD)) + y  BY <1>0, <1>1
<1> HIDE DEF y
<1>3. y % MOD \in SN /\ y \div MOD \in Int /\ y = (MOD * (y \div MOD)) + (y % MOD)
  BY <1>2, Division
<1>4. x + n = (((x \div MOD) + (y \div MOD)) * MOD) + (y % MOD)
  BY <1>0, <1>1, <1>2, <1>3 DEF SN
<1>5. (x \div MOD) + (y \div MOD) \in Int /\ x + n \in Int  BY <1>1, <1>3
<1>6. (x + n) % MOD = y % MOD  BY <1>3, <1>4, <1>5, RemainderUnique
<1> QED  BY <1>6 DEF y, Plus

(* How far apart two counts are can be told from their numbers as long as  *)
(* it is less than the modulus.                                            *)
LEMMA CountDist ==
  ASSUME NEW x \in Int, NEW n \in SN
  PROVE  Dist((x + n) % MOD, x % MOD) = n
<1>0. n \in Int  BY WindowAssumption DEF SN
<1>1. x % MOD \in SN  BY Division
<1>2. (x + n) % MOD = Plus(x % MOD, n)  BY <1>0, CountPlus
<1> QED  BY <1>1, <1>2, PlusDist

(* Two counts less than the modulus apart with one sequence number are     *)
(* equal.                                                                  *)
LEMMA CountUnique ==
  ASSUME NEW x \in Int, NEW y \in Int, x <= y, y - x < MOD, x % MOD = y % MOD
  PROVE  x = y
<1>0. MOD \in Nat /\ 0 < MOD  BY WindowAssumption
<1>1. y - x \in SN /\ x + (y - x) = y  BY <1>0 DEF SN
<1>2. Dist((x + (y - x)) % MOD, x % MOD) = y - x  BY <1>1, CountDist, Zenon
<1>3. x % MOD \in SN  BY Division
<1>4. Dist(x % MOD, x % MOD) = 0  BY <1>3, PlusDist
<1> QED  BY <1>1, <1>2, <1>4

(* The distance of two counts less than MOD apart. *)
LEMMA CountGap ==
  ASSUME NEW x \in Int, NEW y \in Int, y - x \in SN
  PROVE  Dist(y % MOD, x % MOD) = y - x
<1>1. \A n \in SN : Dist((x + n) % MOD, x % MOD) = n  BY CountDist
<1>2. PICK n \in SN : n = y - x  OBVIOUS
<1>3. x + n = y  BY <1>2
<1>4. Dist((x + n) % MOD, x % MOD) = n  BY <1>1
<1> QED  BY <1>2, <1>3, <1>4

-----------------------------------------------------------------------------
(***************************************************************************)
(* Status reports.  Report r tells that all PDUs below count x have been   *)
(* received: it acknowledges up to a count y, at most b, and if that is    *)
(* beyond x it NACKs x.                                                    *)
(***************************************************************************)
StatusPdu == [ack_sn : SN, nacks : SUBSET SN]

Tells(r, x, b) ==
  \E y \in Nat : /\ x <= y /\ y <= b /\ r.ack_sn = y % MOD
                 /\ y = x \/ x % MOD \in r.nacks

(* The reports q on their way and the one prepared last, st, tell what was *)
(* received at moments that follow one another: at least low and at most   *)
(* high PDUs.                                                              *)
Chain(q, st, lo, low, high, b) ==
  /\ q \in Seq(StatusPdu) /\ st \in StatusPdu /\ low \in Nat /\ high \in Nat
  /\ \A i \in 1 .. Len(q) + 1 : lo[i] \in Nat /\ low <= lo[i] /\ lo[i] <= high
  /\ \A i, j \in 1 .. Len(q) + 1 : i <= j => lo[i] <= lo[j]
  /\ \A i \in 1 .. Len(q) : Tells(q[i], lo[i], b)
  /\ Tells(st, lo[Len(q) + 1], b)

(* More is received and built, or less is left to be released. *)
LEMMA ChainGrows ==
  ASSUME NEW q, NEW st, NEW lo, NEW low, NEW high, NEW b \in Int,
         Chain(q, st, lo, low, high, b),
         NEW low2 \in Nat, low2 <= lo[1], NEW high2 \in Nat, high <= high2, NEW b2 \in Int, b <= b2
  PROVE  Chain(q, st, lo, low2, high2, b2)
<1>1. Len(q) \in Nat /\ q \in Seq(StatusPdu) /\ st \in StatusPdu /\ high \in Nat
  BY LenProperties DEF Chain
<1>2. 1 \in 1 .. Len(q) + 1 /\ \A i \in 1 .. Len(q) + 1 : 1 <= i  BY <1>1
<1>3. \A i \in 1 .. Len(q) + 1 : lo[i] \in Nat /\ lo[1] <= lo[i] /\ lo[i] <= high
  BY <1>2 DEF Chain
<1>4. \A i \in 1 .. Len(q) + 1 : low2 <= lo[i] /\ lo[i] <= high2  BY <1>1, <1>2, <1>3
<1>5. \A r, x : Tells(r, x, b) => Tells(r, x, b2)
  <2> SUFFICES ASSUME NEW r, NEW x, Tells(r, x, b) PROVE Tells(r, x, b2)  OBVIOUS
  <2>1. PICK y \in Nat : x <= y /\ y <= b /\ r.ack_sn = y % MOD /\ (y = x \/ x % MOD \in r.nacks)
    BY DEF Tells
  <2>2. y <= b2  BY <2>1
  <2> QED  BY <2>1, <2>2 DEF Tells
<1> QED  BY <1>1, <1>3, <1>4, <1>5 DEF Chain

(* prepare_status() writes a new report. *)
LEMMA ChainNew ==
  ASSUME NEW q, NEW st, NEW lo, NEW low, NEW high, NEW b, Chain(q, st, lo, low, high, b),
         NEW st2 \in StatusPdu, Tells(st2, high, b)
  PROVE  \E lo2 \in [1 .. Len(q) + 1 -> Nat] : Chain(q, st2, lo2, low, high, b)
<1> DEFINE n == Len(q)
           lo2 == [i \in 1 .. n + 1 |-> IF i = n + 1 THEN high ELSE lo[i]]
<1>1. n \in Nat /\ q \in Seq(StatusPdu) /\ low \in Nat /\ high \in Nat
  BY LenProperties DEF Chain
<1> HIDE DEF n
<1>2. /\ \A i \in 1 .. n + 1 : lo[i] \in Nat /\ low <= lo[i] /\ lo[i] <= high
      /\ \A i, j \in 1 .. n + 1 : i <= j => lo[i] <= lo[j]
      /\ \A i \in 1 .. n : Tells(q[i], lo[i], b)
  BY DEF Chain, n
<1>3. \A i \in 1 .. n + 1 : lo2[i] = IF i = n + 1 THEN high ELSE lo[i]  OBVIOUS
<1>4. lo2 \in [1 .. n + 1 -> Nat]  BY <1>1, <1>2
<1> HIDE DEF lo2
<1>5. \A i \in 1 .. n + 1 : lo2[i] \in Nat /\ low <= lo2[i] /\ lo2[i] <= high
  <2>1. 1 \in 1 .. n + 1  BY <1>1
  <2>2. low <= high  BY <1>1, <1>2, <2>1
  <2> QED  BY <1>1, <1>2, <1>3, <2>2
<1>6. \A i, j \in 1 .. n + 1 : i <= j => lo2[i] <= lo2[j]  BY <1>1, <1>2, <1>3
<1>7. \A i \in 1 .. n : Tells(q[i], lo2[i], b)
  <2>1. \A i \in 1 .. n : i \in 1 .. n + 1 /\ i # n + 1  BY <1>1
  <2> QED  BY <1>2, <1>3, <2>1
<1>8. Tells(st2, lo2[n + 1], b)
  <2>1. n + 1 \in 1 .. n + 1  BY <1>1
  <2> QED  BY <1>3, <2>1
<1>9. Chain(q, st2, lo2, low, high, b)  BY <1>1, <1>5, <1>6, <1>7, <1>8 DEF Chain, n
<1> QED  BY <1>4, <1>9 DEF n

(* build_status_pdu() sends the prepared report, which stays prepared. *)
LEMMA ChainSent ==
  ASSUME NEW q, NEW st, NEW lo, NEW low, NEW high, NEW b, Chain(q, st, lo, low, high, b)
  PROVE  \E lo2 \in [1 .. Len(Append(q, st)) + 1 -> Nat] :
           Chain(Append(q, st), st, lo2, low, high, b)
<1> DEFINE n == Len(q)
           q2 == Append(q, st)
           lo2 == [i \in 1 .. n + 2 |-> IF i = n + 2 THEN lo[n + 1] ELSE lo[i]]
<1>1. n \in Nat /\ q \in Seq(StatusPdu) /\ st \in StatusPdu /\ low \in Nat /\ high \in Nat
  BY LenProperties DEF Chain
<1>2. /\ q2 \in Seq(StatusPdu) /\ Len(q2) = n + 1
      /\ \A i \in 1 .. n : q2[i] = q[i]
      /\ q2[n + 1] = st
  BY <1>1, AppendProperties
<1> HIDE DEF n, q2
<1>3. /\ \A i \in 1 .. n + 1 : lo[i] \in Nat /\ low <= lo[i] /\ lo[i] <= high
      /\ \A i, j \in 1 .. n + 1 : i <= j => lo[i] <= lo[j]
      /\ \A i \in 1 .. n : Tells(q[i], lo[i], b)
      /\ Tells(st, lo[n + 1], b)
  BY DEF Chain, n
<1>4. \A i \in 1 .. n + 2 : lo2[i] = IF i = n + 2 THEN lo[n + 1] ELSE lo[i]  OBVIOUS
<1>5. n + 1 \in 1 .. n + 1 /\ n + 2 \in 1 .. n + 2 /\ n + 1 \in 1 .. n + 2 /\ n + 1 # n + 2
  BY <1>1
<1>6. \A i \in 1 .. n + 2 : i = n + 2 \/ i \in 1 .. n + 1  BY <1>1
<1>7. lo2 \in [1 .. n + 2 -> Nat]  BY <1>3, <1>5, <1>6
<1> HIDE DEF lo2
<1>8. \A i \in 1 .. n + 2 : lo2[i] \in Nat /\ low <= lo2[i] /\ lo2[i] <= high
  BY <1>3, <1>4, <1>5, <1>6
<1>9. ASSUME NEW i \in 1 .. n + 2, NEW j \in 1 .. n + 2, i <= j PROVE lo2[i] <= lo2[j]
  <2>1. CASE i = n + 2
    <3>1. j = n + 2  BY <1>1, <1>9, <2>1
    <3> QED  BY <1>8, <2>1, <3>1
  <2>2. CASE i # n + 2 /\ j = n + 2
    <3>1. i \in 1 .. n + 1 /\ i <= n + 1  BY <1>1, <2>2
    <3> QED  BY <1>3, <1>4, <1>5, <2>2, <3>1
  <2>3. CASE i # n + 2 /\ j # n + 2  BY <1>3, <1>4, <1>6, <1>9, <2>3
  <2> QED  BY <2>1, <2>2, <2>3
<1>10. ASSUME NEW i \in 1 .. n + 1 PROVE Tells(q2[i], lo2[i], b)
  <2>1. lo2[i] = lo[i]  BY <1>1, <1>4
  <2>2. i = n + 1 \/ i \in 1 .. n  BY <1>1
  <2> QED  BY <1>2, <1>3, <2>1, <2>2
<1>11. Tells(st, lo2[n + 2], b)  BY <1>3, <1>4, <1>5
<1>12. Len(q2) + 1 = n + 2  BY <1>1, <1>2
<1>13. Chain(q2, st, lo2, low, high, b)
  BY <1>1, <1>2, <1>8, <1>9, <1>10, <1>11, <1>12 DEF Chain
<1> QED  BY <1>7, <1>12, <1>13 DEF q2

(* A sequence without its k-th element. *)
LEMMA RemoveAtProperties ==
  ASSUME NEW T, NEW s \in Seq(T), NEW k \in 1 .. Len(s)
  PROVE  /\ RemoveAt(s, k) \in Seq(T) /\ Len(RemoveAt(s, k)) = Len(s) - 1
         /\ \A i \in 1 .. Len(s) - 1 : RemoveAt(s, k)[i] = IF i < k THEN s[i] ELSE s[i + 1]
<1> DEFINE a == SubSeq(s, 1, k - 1)
           c == SubSeq(s, k + 1, Len(s))
           n == Len(s)
<1>1. n \in Nat /\ k \in Nat /\ k <= n /\ 1 <= k  BY LenProperties
<1>2. /\ \A i \in 1 .. k - 1 : s[i] \in T
      /\ \A i \in k + 1 .. n : s[i] \in T
  <2>1. \A i \in 1 .. n : s[i] \in T  BY ElementOfSeq
  <2>2. \A i \in 1 .. k - 1 : i \in 1 .. n  BY <1>1
  <2>3. \A i \in k + 1 .. n : i \in 1 .. n  BY <1>1
  <2> QED  BY <2>1, <2>2, <2>3
<1>3. a \in Seq(T) /\ Len(a) = k - 1 /\ \A i \in 1 .. k - 1 : a[i] = s[i]
  <2>1. /\ a \in Seq(T) /\ Len(a) = IF 1 <= k - 1 THEN (k - 1) - 1 + 1 ELSE 0
        /\ \A i \in 1 .. (k - 1) - 1 + 1 : a[i] = s[1 + i - 1]
    BY <1>1, <1>2, SubSeqProperties
  <2> HIDE DEF a
  <2> QED  BY <1>1, <2>1
<1>4. c \in Seq(T) /\ Len(c) = n - k /\ \A i \in 1 .. n - k : c[i] = s[k + i]
  <2>1. /\ c \in Seq(T) /\ Len(c) = IF k + 1 <= n THEN n - (k + 1) + 1 ELSE 0
        /\ \A i \in 1 .. n - (k + 1) + 1 : c[i] = s[(k + 1) + i - 1]
    BY <1>1, <1>2, SubSeqProperties
  <2> HIDE DEF c
  <2>2. \A i \in 1 .. n - k : i \in 1 .. n - (k + 1) + 1 /\ (k + 1) + i - 1 = k + i  BY <1>1
  <2> QED  BY <1>1, <2>1, <2>2
<1> HIDE DEF a, c
<1>5. /\ a \o c \in Seq(T) /\ Len(a \o c) = n - 1
      /\ \A i \in 1 .. Len(a) + Len(c) : (a \o c)[i] = IF i <= Len(a) THEN a[i] ELSE c[i - Len(a)]
  <2>1. /\ a \o c \in Seq(T) /\ Len(a \o c) = Len(a) + Len(c)
        /\ \A i \in 1 .. Len(a) + Len(c) : (a \o c)[i] = IF i <= Len(a) THEN a[i] ELSE c[i - Len(a)]
    BY <1>3, <1>4, ConcatProperties, Zenon
  <2>2. Len(a) + Len(c) = n - 1  BY <1>1, <1>3, <1>4
  <2> QED  BY <2>1, <2>2
<1>6. ASSUME NEW i \in 1 .. n - 1
      PROVE  (a \o c)[i] = IF i < k THEN s[i] ELSE s[i + 1]
  <2>1. i \in 1 .. Len(a) + Len(c)  BY <1>1, <1>3, <1>4
  <2>2. CASE i < k
    <3>1. i <= Len(a) /\ i \in 1 .. k - 1  BY <1>1, <1>3, <2>2
    <3> QED  BY <1>3, <1>5, <2>1, <2>2, <3>1
  <2>3. CASE ~ (i < k)
    <3>1. ~ (i <= Len(a)) /\ i - (k - 1) \in 1 .. n - k /\ k + (i - (k - 1)) = i + 1
      BY <1>1, <1>3, <2>3
    <3> QED  BY <1>3, <1>4, <1>5, <2>1, <2>3, <3>1, ZenonT(30)
  <2> QED  BY <2>2, <2>3, Zenon
<1> QED  BY <1>5, <1>6, Zenon DEF RemoveAt, a, c

(* A report arrives or is lost. *)
LEMMA ChainGone ==
  ASSUME NEW q, NEW st, NEW lo, NEW low, NEW high, NEW b, Chain(q, st, lo, low, high, b),
         NEW k \in 1 .. Len(q)
  PROVE  \E lo2 \in [1 .. Len(RemoveAt(q, k)) + 1 -> Nat] :
           /\ Chain(RemoveAt(q, k), st, lo2, low, high, b)
           /\ lo[1] <= lo2[1]
<1> DEFINE n == Len(q)
           q2 == RemoveAt(q, k)
           lo2 == [i \in 1 .. n |-> IF i < k THEN lo[i] ELSE lo[i + 1]]
<1>1. n \in Nat /\ q \in Seq(StatusPdu) /\ st \in StatusPdu /\ k \in Nat /\ k <= n /\ 1 <= k
      /\ low \in Nat /\ high \in Nat
  BY LenProperties DEF Chain
<1>2. /\ q2 \in Seq(StatusPdu) /\ Len(q2) = n - 1
      /\ \A i \in 1 .. n - 1 : q2[i] = IF i < k THEN q[i] ELSE q[i + 1]
  BY <1>1, RemoveAtProperties
<1> HIDE DEF n, q2
<1>3. /\ \A i \in 1 .. n + 1 : lo[i] \in Nat /\ low <= lo[i] /\ lo[i] <= high
      /\ \A i, j \in 1 .. n + 1 : i <= j => lo[i] <= lo[j]
      /\ \A i \in 1 .. n : Tells(q[i], lo[i], b)
      /\ Tells(st, lo[n + 1], b)
  BY DEF Chain, n
<1>4. \A i \in 1 .. n : lo2[i] = IF i < k THEN lo[i] ELSE lo[i + 1]  OBVIOUS
<1>5. \A i \in 1 .. n : i \in 1 .. n + 1 /\ i + 1 \in 1 .. n + 1 /\ i <= i + 1  BY <1>1
<1>6. lo2 \in [1 .. n -> Nat]  BY <1>3, <1>5
<1> HIDE DEF lo2
<1>7. \A i \in 1 .. n : lo2[i] \in Nat /\ low <= lo2[i] /\ lo2[i] <= high
  BY <1>3, <1>4, <1>5
<1>8. ASSUME NEW i \in 1 .. n, NEW j \in 1 .. n, i <= j PROVE lo2[i] <= lo2[j]
  <2>1. i <= j + 1 /\ i + 1 <= j + 1 /\ (~ (i < k) => ~ (j < k))  BY <1>1, <1>8
  <2> QED  BY <1>3, <1>4, <1>5, <1>8, <2>1
<1>9. ASSUME NEW i \in 1 .. n - 1 PROVE Tells(q2[i], lo2[i], b)
  <2>1. i \in 1 .. n /\ i + 1 \in 1 .. n  BY <1>1
  <2> QED  BY <1>2, <1>3, <1>4, <2>1, SMTT(30)
<1>10. n \in 1 .. n /\ 1 \in 1 .. n /\ 1 \in 1 .. n + 1 /\ 1 <= 1 /\ ~ (n < k)  BY <1>1
<1>11. Tells(st, lo2[n], b)  BY <1>3, <1>4, <1>10
<1>12. lo[1] <= lo2[1]
  <2>1. \A i \in 1 .. n + 1 : 1 <= i  BY <1>1
  <2> QED  BY <1>3, <1>4, <1>5, <1>10, <2>1
<1>13. Len(q2) + 1 = n  BY <1>1, <1>2
<1>14. Chain(q2, st, lo2, low, high, b)
  BY <1>1, <1>2, <1>7, <1>8, <1>9, <1>11, <1>13 DEF Chain
<1> QED  BY <1>6, <1>12, <1>13, <1>14 DEF q2
=============================================================================
