----------------------------- MODULE BitLayout -----------------------------
(***************************************************************************)
(* Bit layouts: the common form of the pack and unpack functions of        *)
(* liblte.  Each of those functions is a straight walk over the fields of  *)
(* a structure, writing or reading so many bits per field, with branches   *)
(* on fields, loops over lists and calls for nested structures.  A layout  *)
(* is that walk as data: a sequence of items.  PackItem and UnpackItem say *)
(* what each item does, with liblte_value_2_bits and liblte_bits_2_value   *)
(* at the bottom.  A pack function and its unpack function are two         *)
(* separate layouts, each translated from its own C function; nothing      *)
(* makes them agree but the code.                                          *)
(*                                                                         *)
(* A structure is a function from field paths ("plmn_id[0].id.mcc") to     *)
(* integers; list indices start at 0 as in the C arrays.  Local variables  *)
(* of a C function are fields of the same function.  Pointer checks        *)
(* (x != NULL) and the error code of a successful call are left out.       *)
(***************************************************************************)
EXTENDS Integers, Sequences, TLC

--------------------------------------------------------------------------
(* Conditions: a field compared with constants.                            *)

On(f)       == [f |-> f, op |-> "on"]
Off(f)      == [f |-> f, op |-> "off"]
Some(f)     == [f |-> f, op |-> "some"]
Is(f, v)    == [f |-> f, op |-> "is", v |-> v]
Isnt(f, v)  == [f |-> f, op |-> "isnt", v |-> v]
Below(f, v) == [f |-> f, op |-> "below", v |-> v]
Above(f, v) == [f |-> f, op |-> "above", v |-> v]

Holds(c, v) == CASE c.op \in {"on", "some"} -> v # 0
                 [] c.op = "off"   -> v = 0
                 [] c.op = "is"    -> v = c.v
                 [] c.op = "isnt"  -> v # c.v
                 [] c.op = "below" -> v < c.v
                 [] c.op = "above" -> v > c.v

--------------------------------------------------------------------------
(* Items.  In w bits: Fld the value of f, Enum the same for an enumeration *)
(* of n members, Cnt and Bias the value plus k (Cnt for the length of a    *)
(* list), Scl the value of (f + a) / s + b, Fill a constant; Flags one bit *)
(* per name; Digits the decimal digits of f of the given weights; Opt one  *)
(* bit for a condition.  Skip drops bits, Put and Copy assign, Ext skips   *)
(* extension additions, Inherit takes the previous element's f.            *)
(* When, Case, Switch and Read branch (Read on w bits taken from the       *)
(* message), Each and Times repeat, Sub is a call for the structure f,     *)
(* Rest a call on a copy of the remaining bits, Sized and Octets a call    *)
(* behind an octet count, Fail the end of a function that gives up.        *)
(*                                                                         *)
(* The NAS functions work on octets and need some more. Mul: f * k + c;    *)
(* Part: w bits of f from bit k on; Add: decimal digits added to f; Plus   *)
(* and Quotient add or divide by a constant; Look: the w bits at distance  *)
(* o, not consumed; Peek branches on bits not consumed; Framed: an octet   *)
(* count and the octets of L, the last cut ones left to be overwritten;    *)
(* Counted: L, then to the octet k behind the counted ones; While repeats  *)
(* L up to k octets before the end of the counted octets; More reads the   *)
(* next element of the list f of length n, From takes a field of the       *)
(* structure that holds the list; Repeat: L as often as n says; Jump skips *)
(* f + k octets; Pairs: n decimal digits, two per octet; Septets: n        *)
(* characters of 7 bits.                                                   *)

Fld(f, w)            == [t |-> "fld", f |-> f, w |-> w]
Enum(f, w, n)        == [t |-> "enum", f |-> f, w |-> w, n |-> n]
Cnt(f, w, k)         == [t |-> "cnt", f |-> f, w |-> w, k |-> k]
Bias(f, w, k)        == [t |-> "bias", f |-> f, w |-> w, k |-> k]
Scl(f, w, a, s, b)   == [t |-> "scl", f |-> f, w |-> w, a |-> a, s |-> s, b |-> b]
Fill(v, w)           == [t |-> "fill", v |-> v, w |-> w]
Flags(fs)            == [t |-> "flags", fs |-> fs]
Digits(f, ds)        == [t |-> "digits", f |-> f, ds |-> ds]
Opt(c)               == [t |-> "opt", c |-> c]
Skip(w)              == [t |-> "skip", w |-> w]
Put(f, v)            == [t |-> "put", f |-> f, v |-> v]
Copy(f, g)           == [t |-> "copy", f |-> f, g |-> g]
Inherit(f, v)        == [t |-> "inherit", f |-> f, v |-> v]
Ext(f)               == [t |-> "ext", f |-> f]
Case(c, L, M)        == [t |-> "case", c |-> c, L |-> L, M |-> M]
When(c, L)           == Case(c, L, <<>>)
Arm(vs, L)           == [vs |-> vs, L |-> L]
Switch(f, arms, L)   == [t |-> "switch", f |-> f, arms |-> arms, L |-> L]
Read(w, v, L, M)     == [t |-> "read", w |-> w, v |-> v, L |-> L, M |-> M]
Each(n, f, L)        == [t |-> "each", n |-> n, f |-> f, L |-> L]
Times(k, f, L)       == [t |-> "times", k |-> k, f |-> f, L |-> L]
Sub(f, L)            == [t |-> "sub", f |-> f, L |-> L]
Rest(f, L)           == [t |-> "rest", f |-> f, L |-> L]
Sized(L)             == [t |-> "sized", L |-> L]
Octets(L)            == [t |-> "octets", L |-> L]
Fail                 == [t |-> "fail"]

Mul(f, w, k, c)      == [t |-> "mul", f |-> f, w |-> w, k |-> k, c |-> c]
Part(f, k, w)        == [t |-> "part", f |-> f, k |-> k, w |-> w]
Add(f, ds)           == [t |-> "add", f |-> f, ds |-> ds]
Plus(f, k)           == [t |-> "plus", f |-> f, k |-> k]
Quotient(f, k)       == [t |-> "quotient", f |-> f, k |-> k]
Look(f, o, w)        == [t |-> "look", f |-> f, o |-> o, w |-> w]
Peek(w, v, L, M)     == [t |-> "peek", w |-> w, v |-> v, L |-> L, M |-> M]
Framed(L, cut)       == [t |-> "framed", L |-> L, cut |-> cut]
Counted(k, L)        == [t |-> "counted", k |-> k, L |-> L]
While(k, L)          == [t |-> "while", k |-> k, L |-> L]
More(n, f, L)        == [t |-> "more", n |-> n, f |-> f, L |-> L]
From(f, g)           == [t |-> "from", f |-> f, g |-> g]
Repeat(n, L)         == [t |-> "repeat", n |-> n, L |-> L]
Jump(f, k)           == [t |-> "jump", f |-> f, k |-> k]
Pairs(n, f)          == [t |-> "pairs", n |-> n, f |-> f]
Septets(n, f)        == [t |-> "septets", n |-> n, f |-> f]

(* An optional information element: its tag of w bits, then its contents;  *)
(* f says whether it is there. *)
PutTagged(f, w, iei, L) == When(On(f), <<Fill(iei, w)>> \o L)
GetTagged(f, w, iei, L) ==
  Peek(w, iei, <<Skip(w)>> \o L \o <<Put(f, 1)>>, <<Put(f, 0)>>)

(* L when one of the fields fs is set, M otherwise. *)
RECURSIVE OneOf(_, _, _)
OneOf(fs, L, M) == IF fs = <<>> THEN M
                   ELSE <<Case(On(Head(fs)), L, OneOf(Tail(fs), L, M))>>

--------------------------------------------------------------------------
(* Paths.                                                                  *)

Key(p, f)     == CASE f = "" -> p [] p = "" -> f [] OTHER -> p \o "." \o f
Elem(p, f, i) == Key(p, f) \o "[" \o ToString(i) \o "]"

(* The layout a Switch selects: the first arm that lists the value. *)
RECURSIVE Chosen(_, _, _)
Chosen(arms, v, L) == IF arms = <<>> THEN L
                      ELSE IF v \in Head(arms).vs THEN Head(arms).L
                      ELSE Chosen(Tail(arms), v, L)

(* A layout of two items or more is walked half by half, which keeps the   *)
(* recursion shallow. *)
Half1(L) == SubSeq(L, 1, Len(L) \div 2)
Half2(L) == SubSeq(L, Len(L) \div 2 + 1, Len(L))

--------------------------------------------------------------------------
(* Bits and values.  Integers stay below 2^31: bits above the 31st are 0.  *)

value_2_bits(v, w) ==
  [i \in 1..w |-> IF w - i > 30 THEN 0 ELSE (v \div 2^(w - i)) % 2]

(* The value of the w bits of b behind position pos.  The code reads on    *)
(* behind the end of a message; the buffer holds zeros there.              *)
bits_2_value(b, pos, w) ==
  LET bit(i) == IF i <= Len(b) THEN b[i] ELSE 0
      acc[i \in 0..w] == IF i = 0 THEN 0 ELSE 2 * acc[i - 1] + bit(pos + i)
  IN  acc[w]

(* C division truncates towards zero. *)
Quot(x, s) == IF x >= 0 THEN x \div s ELSE -((-x) \div s)

(* Mutant of consume_noncrit_extension(): the count without its offset.    *)
consume_noncrit_extension_short(b, pos) ==
  LET n == bits_2_value(b, pos, 7)
      flag(i) == \E j \in 0..(n - 1) : j % 32 = i /\ bits_2_value(b, pos + 7 + j, 1) = 1
      skip(q) == CASE bits_2_value(b, q, 1) = 0 ->
                        q + 8 + 8 * bits_2_value(b, q + 1, 7)
                   [] bits_2_value(b, q, 2) = 2 ->
                        q + 16 + 8 * bits_2_value(b, q + 2, 14)
                   [] OTHER -> q + 2
      words == IF n < 32 THEN n ELSE 32
      end[i \in 0..words] == IF i = 0 THEN pos + 7 + n
                             ELSE IF flag(i - 1) THEN skip(end[i - 1])
                             ELSE end[i - 1]
  IN  end[words]

(* The position behind the extension additions that start at pos: a count, *)
(* one presence bit per addition, and an octet count before each addition  *)
(* that is present.  The presence bits are collected in a 32-bit word by   *)
(* 1 << i, which x86 takes modulo 32, and are shifted out one by one.      *)
consume_noncrit_extension(b, pos) ==
  LET n == bits_2_value(b, pos, 7) + 1
      flag(i) == \E j \in 0..(n - 1) : j % 32 = i /\ bits_2_value(b, pos + 7 + j, 1) = 1
      skip(q) == CASE bits_2_value(b, q, 1) = 0 ->
                        q + 8 + 8 * bits_2_value(b, q + 1, 7)
                   [] bits_2_value(b, q, 2) = 2 ->
                        q + 16 + 8 * bits_2_value(b, q + 2, 14)
                   [] OTHER -> q + 2
      words == IF n < 32 THEN n ELSE 32
      end[i \in 0..words] == IF i = 0 THEN pos + 7 + n
                             ELSE IF flag(i - 1) THEN skip(end[i - 1])
                             ELSE end[i - 1]
  IN  end[words]

Zeros(n) == [i \in 1..n |-> 0]

(* An octet count of the short or the long form. *)
length_determinant(n) ==
  IF n < 128 THEN <<0>> \o value_2_bits(n, 7)
  ELSE <<1, 0>> \o value_2_bits(n, 14)

(* The octet count of liblte_rrc_pack_sys_info_msg, whose long form starts *)
(* with two zeros. *)
sib_length(n) == IF n < 128 THEN <<0>> \o value_2_bits(n, 7)
                 ELSE <<0, 0>> \o value_2_bits(n, 14)

(* The characters of the 7-bit alphabet that the network name functions    *)
(* keep; the others are dropped. *)
Letter(c) == c \in {10, 13} \/ c \in 32..63 \/ c \in 65..90 \/ c \in 97..122

(* The network name: a character starts behind the last one, from the      *)
(* least significant bit of an octet upwards.  In front of the octets, the *)
(* count, and an octet with the country flag ci and the number of spare    *)
(* bits of the last octet. *)
pack_septets(cs, ci) ==
  LET kept   == SelectSeq(cs, Letter)
      used   == 7 * Len(kept)
      octets == (used + 7) \div 8
      bit(k) == IF k >= used THEN 0 ELSE (kept[(k \div 7) + 1] \div 2^(k % 7)) % 2
  IN  value_2_bits(octets + 1, 8)
      \o <<1, 0, 0, 0, ci>> \o value_2_bits((8 - (used % 8)) % 8, 3)
      \o [i \in 1..(8 * octets) |-> bit(8 * ((i - 1) \div 8) + 7 - ((i - 1) % 8))]

(* How the name is read: characters as long as the octet where the next    *)
(* one starts is not the last one (its index is the count), and one more   *)
(* when it fits into the last octet; then the octet read last is left      *)
(* behind. *)
unpack_septets(b, pos) ==
  LET n      == bits_2_value(b, pos, 8)
      spare  == bits_2_value(b, pos + 13, 3)
      bit(k) == bits_2_value(b, pos + 16 + 8 * (k \div 8) + 7 - (k % 8), 1)
      char(k) == LET acc[j \in 0..7] == IF j = 7 THEN 0 ELSE 2 * acc[j + 1] + bit(k + j)
                 IN  acc[0]
      at(i)  == 2 + ((7 * i) \div 8)
      full   == CHOOSE i \in 0..(2 * n + 2) : at(i) >= n /\ \A j \in 0..(i - 1) : at(j) < n
      again  == (7 * full) % 8 = 0 \/ ((7 * full) % 8 = 1 /\ spare = 0)
      all    == [i \in 1..(IF again THEN full + 1 ELSE full) |-> char(7 * (i - 1))]
  IN  [cs |-> SelectSeq(all, Letter), pos |-> pos + 8 * (at(full) + 1)]

--------------------------------------------------------------------------
(* Packing: s.m the structure, s.b the bits written so far, s.ok FALSE     *)
(* once the function has given up.                                         *)

Emit(s, bits) == [s EXCEPT !.b = @ \o bits]

RECURSIVE PackAll(_, _, _)
RECURSIVE PackElems(_, _, _, _, _, _)

Body(L, p, s) == PackAll(L, p, [s EXCEPT !.b = <<>>])

PackItem(x, p, s) ==
  LET v == s.m[Key(p, x.f)]
      test == Holds(x.c, s.m[Key(p, x.c.f)])
  IN
  CASE x.t \in {"fld", "enum"} -> Emit(s, value_2_bits(v, x.w))
    [] x.t \in {"cnt", "bias"} -> Emit(s, value_2_bits(v + x.k, x.w))
    [] x.t = "scl"    -> Emit(s, value_2_bits(Quot(v + x.a, x.s) + x.b, x.w))
    [] x.t = "fill"   -> Emit(s, value_2_bits(x.v, x.w))
    [] x.t = "flags"  -> Emit(s, [i \in DOMAIN x.fs |-> s.m[Key(p, x.fs[i])] % 2])
    [] x.t = "digits" -> PackAll([i \in DOMAIN x.ds |->
                           Fill((v % (10 * x.ds[i])) \div x.ds[i], 4)], p, s)
    [] x.t = "opt"    -> Emit(s, <<IF test THEN 1 ELSE 0>>)
    [] x.t = "put"    -> [s EXCEPT !.m = (Key(p, x.f) :> x.v) @@ @]
    [] x.t = "case"   -> PackAll(IF test THEN x.L ELSE x.M, p, s)
    [] x.t = "switch" -> PackAll(Chosen(x.arms, v, x.L), p, s)
    [] x.t = "each"   -> PackElems(x.L, p, x.f, 0, s.m[Key(p, x.n)], s)
    [] x.t = "times"  -> PackElems(x.L, p, x.f, 0, x.k, s)
    [] x.t = "sub"    -> PackAll(x.L, Key(p, x.f), s)
    [] x.t = "sized"  -> LET c == Body(x.L, p, s)
                             n == Len(c.b)
                             o == (n + 7) \div 8
                         IN  [c EXCEPT !.b = s.b \o sib_length(o) \o @ \o Zeros(n % 8)]
    [] x.t = "octets" -> LET c == Body(x.L, p, s)
                             pad == 8 - (Len(c.b) % 8)
                             o == (Len(c.b) + pad) \div 8
                         IN  [c EXCEPT !.b = s.b \o length_determinant(o) \o @ \o Zeros(pad)]
    [] x.t = "mul"    -> Emit(s, value_2_bits(v * x.k + x.c, x.w))
    [] x.t = "part"   -> Emit(s, value_2_bits(v \div 2^x.k, x.w))
    [] x.t = "framed" -> LET c == Body(x.L, p, s)
                             o == (Len(c.b) \div 8) - x.cut
                         IN  IF o < 0 THEN s
                             ELSE [c EXCEPT !.b = s.b \o value_2_bits(o, 8)
                                                      \o SubSeq(@, 1, 8 * o)]
    [] x.t = "pairs"  -> LET n == s.m[Key(p, x.n)]
                             digit(i) == IF i < n THEN s.m[Elem(p, x.f, i)] ELSE 15
                             half(k) == digit(IF k % 2 = 1 THEN k ELSE k - 2)
                         IN  PackAll([k \in 1..(n + (n % 2)) |-> Fill(half(k), 4)], p, s)
    [] x.t = "septets" -> Emit(s, pack_septets(
                           [i \in 1..s.m[Key(p, x.n)] |-> s.m[Elem(p, x.f, i - 1)]],
                           s.m[Key(p, "add_ci")]))
    [] x.t = "fail"   -> [s EXCEPT !.ok = FALSE]

PackAll(L, p, s) ==
  CASE L = <<>> \/ ~s.ok -> s
    [] Len(L) = 1 /\ s.ok -> PackItem(L[1], p, s)
    [] OTHER -> PackAll(Half2(L), p, PackAll(Half1(L), p, s))

PackElems(L, p, f, lo, hi, s) ==
  CASE lo >= hi \/ ~s.ok -> s
    [] lo + 1 = hi /\ s.ok -> PackAll(L, Elem(p, f, lo), s)
    [] OTHER -> LET mid == (lo + hi) \div 2
                IN  PackElems(L, p, f, mid, hi, PackElems(L, p, f, lo, mid, s))

Pack(L, m) == PackAll(L, "", [m |-> m, b |-> <<>>, ok |-> TRUE])

--------------------------------------------------------------------------
(* Unpacking: s.m the fields assigned so far, s.b the message, s.pos the   *)
(* number of bits read, s.end the end of the counted octets; q the path of *)
(* the previous element of a list, or (More) of the structure that holds   *)
(* it.  A field that is not assigned keeps the value it had; the structure *)
(* is cleared before the call, as rrc::parse_dl_ccch does it.              *)

Take(s, w) == [s EXCEPT !.pos = @ + w]
Val(s, f) == IF f \in DOMAIN s.m THEN s.m[f] ELSE 0
Set(s, f, v) == [s EXCEPT !.m = (f :> v) @@ @]

RECURSIVE UnpackAll(_, _, _, _)
RECURSIVE UnpackElems(_, _, _, _, _, _)
RECURSIVE UnpackWhile(_, _, _, _)
RECURSIVE UnpackTimes(_, _, _, _)

DigitSum(s, ds) ==
  LET part[i \in 0..Len(ds)] ==
        IF i = 0 THEN 0
        ELSE part[i - 1] + ds[i] * bits_2_value(s.b, s.pos + 4 * (i - 1), 4)
  IN  part[Len(ds)]

UnpackItem(x, p, q, s) ==
  LET key == Key(p, x.f)
      v == bits_2_value(s.b, s.pos, x.w)
  IN
  CASE x.t \in {"fld", "enum"} -> Take(Set(s, key, v), x.w)
    [] x.t \in {"cnt", "bias"} -> Take(Set(s, key, v - x.k), x.w)
    [] x.t = "scl"     -> Take(Set(s, key, (v - x.b) * x.s - x.a), x.w)
    [] x.t = "flags"   -> UnpackAll([i \in DOMAIN x.fs |-> Fld(x.fs[i], 1)], p, q, s)
    [] x.t = "digits"  -> Take(Set(s, key, DigitSum(s, x.ds)), 4 * Len(x.ds))
    [] x.t = "add"     -> Take(Set(s, key, Val(s, key) + DigitSum(s, x.ds)), 4 * Len(x.ds))
    [] x.t = "skip"    -> Take(s, x.w)
    [] x.t = "put"     -> Set(s, key, x.v)
    [] x.t = "copy"    -> Set(s, key, Val(s, Key(p, x.g)))
    [] x.t = "inherit" -> IF Val(s, key) = x.v /\ q # ""
                          THEN Set(s, key, Val(s, Key(q, x.f))) ELSE s
    [] x.t = "ext"     -> IF Val(s, key) = 0 THEN s
                          ELSE [s EXCEPT !.pos = consume_noncrit_extension(s.b, @)]
    [] x.t = "case"    -> UnpackAll(IF Holds(x.c, Val(s, Key(p, x.c.f)))
                                    THEN x.L ELSE x.M, p, q, s)
    [] x.t = "switch"  -> UnpackAll(Chosen(x.arms, Val(s, key), x.L), p, q, s)
    [] x.t = "read"    -> UnpackAll(IF v = x.v THEN x.L ELSE x.M, p, q, Take(s, x.w))
    [] x.t = "each"    -> UnpackElems(x.L, p, x.f, 0, Val(s, Key(p, x.n)), s)
    [] x.t = "times"   -> UnpackElems(x.L, p, x.f, 0, x.k, s)
    [] x.t = "sub"     -> UnpackAll(x.L, key, "", s)
    [] x.t = "rest"    -> [UnpackAll(x.L, key, "", s) EXCEPT !.pos = s.pos]
    [] x.t = "sized"   -> LET h == CASE bits_2_value(s.b, s.pos, 1) = 0 -> 8
                                     [] bits_2_value(s.b, s.pos, 2) = 2 -> 16
                                     [] OTHER -> 2
                              c == UnpackAll(x.L, p, q, Take(s, h))
                          IN  Take(c, (c.pos - s.pos - h) % 8)
    [] x.t = "mul"     -> Take(Set(s, key, Quot(v - x.c, x.k)), x.w)
    [] x.t = "plus"    -> Set(s, key, Val(s, key) + x.k)
    [] x.t = "quotient" -> Set(s, key, Val(s, key) \div x.k)
    [] x.t = "look"    -> Set(s, key, bits_2_value(s.b, s.pos + x.o, x.w))
    [] x.t = "peek"    -> UnpackAll(IF v = x.v THEN x.L ELSE x.M, p, q, s)
    [] x.t = "counted" -> LET n == bits_2_value(s.b, s.pos, 8)
                              c == UnpackAll(x.L, p, q, [s EXCEPT !.end = s.pos + 8 * (n + 1)])
                          IN  [c EXCEPT !.pos = s.pos + 8 * (n + x.k), !.end = s.end]
    [] x.t = "while"   -> UnpackWhile(x.L, x.k, p, s)
    [] x.t = "more"    -> LET n == Val(s, Key(p, x.n))
                              c == UnpackAll(x.L, Elem(p, x.f, n), p, s)
                          IN  Set(c, Key(p, x.n), n + 1)
    [] x.t = "from"    -> Set(s, key, Val(s, Key(q, x.g)))
    [] x.t = "repeat"  -> UnpackTimes(x.L, Val(s, Key(p, x.n)), p, s)
    [] x.t = "jump"    -> Take(s, 8 * (Val(s, key) + x.k))
    [] x.t = "pairs"   -> LET n == Val(s, Key(p, x.n))
                              half(k) == Fld(x.f \o "[" \o ToString(IF k % 2 = 1 THEN k ELSE k - 2) \o "]", 4)
                              c == UnpackAll([k \in 1..n |-> half(k)], p, q, s)
                          IN  IF n > 0 /\ Val(c, Elem(p, x.f, n - 1)) = 15
                              THEN Set(c, Key(p, x.n), n - 1) ELSE c
    [] x.t = "septets" -> LET r == unpack_septets(s.b, s.pos)
                              c == UnpackAll([i \in DOMAIN r.cs |->
                                     Put(x.f \o "[" \o ToString(i - 1) \o "]", r.cs[i])], p, q,
                                     Set(Set(s, Key(p, x.n), Len(r.cs)), Key(p, "add_ci"),
                                         bits_2_value(s.b, s.pos + 12, 1)))
                          IN  [c EXCEPT !.pos = r.pos]
    [] x.t = "fail"    -> [s EXCEPT !.ok = FALSE]

UnpackAll(L, p, q, s) ==
  CASE L = <<>> \/ ~s.ok -> s
    [] Len(L) = 1 /\ s.ok -> UnpackItem(L[1], p, q, s)
    [] OTHER -> UnpackAll(Half2(L), p, q, UnpackAll(Half1(L), p, q, s))

UnpackElems(L, p, f, lo, hi, s) ==
  CASE lo >= hi \/ ~s.ok -> s
    [] lo + 1 = hi /\ s.ok -> UnpackAll(L, Elem(p, f, lo),
                                IF lo = 0 THEN "" ELSE Elem(p, f, lo - 1), s)
    [] OTHER -> LET mid == (lo + hi) \div 2
                IN  UnpackElems(L, p, f, mid, hi, UnpackElems(L, p, f, lo, mid, s))

UnpackWhile(L, k, p, s) ==
  IF ~s.ok \/ s.pos + 8 * k >= s.end THEN s
  ELSE UnpackWhile(L, k, p, UnpackAll(L, p, "", s))

UnpackTimes(L, n, p, s) ==
  IF n = 0 \/ ~s.ok THEN s ELSE UnpackTimes(L, n - 1, p, UnpackAll(L, p, "", s))

Unpack(L, b) ==
  UnpackAll(L, "", "", [m |-> <<>>, b |-> b, pos |-> 0, end |-> 0, ok |-> TRUE])
============================================================================
