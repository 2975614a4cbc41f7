------------------------------- MODULE Codec -------------------------------
(***************************************************************************)
(* A structure is packed, its bits are carried to the peer, and the peer   *)
(* unpacks them with the unpack function of the same element.  The bits    *)
(* may pick up extension additions on the way: the peer may be of a later  *)
(* release that adds fields this code does not know.                       *)
(*                                                                         *)
(* Codecs has the elements: their name, their two layouts, whether they    *)
(* are a whole message (trailing spare bits are not read back), the fields *)
(* that the unpack function leaves to others (the NAS count is read by     *)
(* those who check the integrity), and fields given before the rest is     *)
(* sampled.  Seeds select the sampled structures.                          *)
(***************************************************************************)
EXTENDS BitLayout

CONSTANTS Codecs, Seeds

VARIABLES phase, codec, sent, bits, ext, got
vars == <<phase, codec, sent, bits, ext, got>>

--------------------------------------------------------------------------
(* Structures to pack: the fields a pack layout reads, each with a value   *)
(* in its range.  Seed 0 takes the least values, seed 1 the greatest (one  *)
(* or two elements per list), the others a mixture.                        *)

Pick(s, n) == CASE s.seed = 0 -> 0
                [] s.seed = 1 -> n - 1
                [] OTHER -> (s.seed * 7919 + s.c * s.c * 31 + s.c * s.seed * 17) % n
Width(w) == 2^(IF w > 30 THEN 30 ELSE w)

Have(s, key, v) ==
  IF key \in DOMAIN s.m THEN s
  ELSE [s EXCEPT !.m = (key :> v) @@ @, !.c = @ + 1]

Choices(c) == CASE c.op \in {"on", "off"}  -> 2
                [] c.op = "some"           -> 3
                [] c.op \in {"is", "isnt"} -> c.v + 1
                [] c.op = "below"          -> c.v + 2
                [] c.op = "above"          -> 1000

RECURSIVE SampleAll(_, _, _)
RECURSIVE SampleElems(_, _, _, _, _, _)

SampleItem(x, p, s) ==
  LET key == Key(p, x.f)
      cond == Have(s, Key(p, x.c.f), Pick(s, Choices(x.c)))
  IN
  CASE x.t = "fld"    -> Have(s, key, Pick(s, Width(x.w)))
    [] x.t = "enum"   -> Have(s, key, Pick(s, x.n))
    [] x.t = "cnt"    -> Have(s, key, Pick(s, IF x.k = 0 /\ x.w > 1 THEN 3 ELSE 2) - x.k)
    [] x.t = "bias"   -> Have(s, key, Pick(s, Width(x.w)) - x.k)
    [] x.t = "scl"    -> Have(s, key, (Pick(s, Width(x.w)) - x.b) * x.s - x.a)
    [] x.t = "flags"  -> SampleAll([i \in DOMAIN x.fs |-> Fld(x.fs[i], 1)], p, s)
    [] x.t = "digits" -> Have(s, key, Pick(s, 10 * x.ds[CHOOSE i \in DOMAIN x.ds :
                                        \A j \in DOMAIN x.ds : x.ds[j] <= x.ds[i]]))
    [] x.t = "fill"   -> s
    [] x.t = "fail"   -> [s EXCEPT !.ok = FALSE]
    [] x.t = "put"    -> [s EXCEPT !.m = (key :> x.v) @@ @]
    [] x.t = "opt"    -> cond
    [] x.t = "case"   -> SampleAll(IF Holds(x.c, cond.m[Key(p, x.c.f)])
                                   THEN x.L ELSE x.M, p, cond)
    [] x.t = "switch" -> LET c == Have(s, key, Pick(s, 1 + Len(x.arms)))
                         IN  SampleAll(Chosen(x.arms, c.m[key], x.L), p, c)
    [] x.t = "each"   -> LET c == Have(s, Key(p, x.n), Pick(s, 3))
                         IN  SampleElems(x.L, p, x.f, 0, c.m[Key(p, x.n)], c)
    [] x.t = "times"  -> SampleElems(x.L, p, x.f, 0, x.k, s)
    [] x.t = "sub"    -> SampleAll(x.L, key, s)
    [] x.t \in {"sized", "octets", "framed"} -> SampleAll(x.L, p, s)
    [] x.t = "mul"    -> Have(s, key, Pick(s, 3))
    [] x.t = "part"   -> Have(s, key, Pick(s, Width(x.k + x.w)))
    [] x.t = "pairs"  -> LET c == Have(s, Key(p, x.n), Pick(s, 4))
                         IN  SampleElems(<<Enum("", 4, 10)>>, p, x.f, 0, c.m[Key(p, x.n)], c)
    [] x.t = "septets" -> LET c == Have(Have(s, Key(p, "add_ci"), Pick(s, 2)),
                                        Key(p, x.n), 1 + (s.seed % 17))
                          IN  SampleElems(<<Bias("", 5, -32)>>, p, x.f, 0, c.m[Key(p, x.n)], c)

SampleAll(L, p, s) ==
  CASE L = <<>> \/ ~s.ok -> s
    [] Len(L) = 1 /\ s.ok -> SampleItem(L[1], p, s)
    [] OTHER -> SampleAll(Half2(L), p, SampleAll(Half1(L), p, s))

SampleElems(L, p, f, lo, hi, s) ==
  CASE lo >= hi \/ ~s.ok -> s
    [] lo + 1 = hi /\ s.ok -> SampleAll(L, Elem(p, f, lo), s)
    [] OTHER -> LET mid == (lo + hi) \div 2
                IN  SampleElems(L, p, f, mid, hi, SampleElems(L, p, f, lo, mid, s))

Sample(L, given, seed) ==
  SampleAll(L, "", [m |-> given, c |-> 1, seed |-> seed, ok |-> TRUE])

--------------------------------------------------------------------------
(* An element is extensible when the first bit its unpack function reads   *)
(* is the flag of the additions it skips at the end.                       *)
FirstFlag(L) == CASE L = <<>> -> ""
                  [] Head(L).t = "fld" /\ Head(L).w = 1 -> Head(L).f
                  [] Head(L).t = "flags" -> Head(L).fs[1]
                  [] OTHER -> ""
Extensible(c) == /\ ~c.whole
                 /\ FirstFlag(c.unpack) # ""
                 /\ \E i \in DOMAIN c.unpack :
                      c.unpack[i].t = "ext" /\ c.unpack[i].f = FirstFlag(c.unpack)

(* Two additions, the first one absent, the second one of two octets. *)
Additions == value_2_bits(1, 7) \o <<0, 1>> \o length_determinant(2)
             \o [i \in 1..16 |-> 1]

Nothing == [m |-> <<>>, b |-> <<>>, pos |-> 0, end |-> 0, ok |-> TRUE]
NoCodec == [name |-> "", pack |-> <<>>, unpack |-> <<>>, whole |-> FALSE,
            agree |-> FALSE, unread |-> {}, given |-> <<>>]

Init == /\ phase = "idle" /\ codec = NoCodec /\ sent = <<>> /\ bits = <<>>
        /\ ext = FALSE /\ got = Nothing

PackElement ==
  /\ phase = "idle"
  /\ \E c \in Codecs, seed \in Seeds :
       LET s == Sample(c.pack, c.given, seed)
       IN  /\ s.ok
           /\ codec' = c /\ sent' = s.m /\ bits' = Pack(c.pack, s.m).b
  /\ phase' = "packed"
  /\ UNCHANGED <<ext, got>>

ExtendElement ==
  /\ phase = "packed" /\ ~ext /\ Extensible(codec)
  /\ ext' = TRUE
  /\ bits' = [bits EXCEPT ![1] = 1] \o Additions
  /\ UNCHANGED <<phase, codec, sent, got>>

UnpackElement ==
  /\ phase = "packed"
  /\ got' = Unpack(codec.unpack, bits)
  /\ phase' = "unpacked"
  /\ UNCHANGED <<codec, sent, bits, ext>>

Forget ==
  /\ phase = "unpacked"
  /\ phase' = "idle" /\ codec' = NoCodec /\ sent' = <<>> /\ bits' = <<>>
  /\ ext' = FALSE /\ got' = Nothing

Next == PackElement \/ ExtendElement \/ UnpackElement \/ Forget
Spec == Init /\ [][Next]_vars

--------------------------------------------------------------------------
(* Every field that a pack function writes is read back with the same      *)
(* value by the unpack function of the element, and the unpack function    *)
(* does not give up.                                                       *)
RoundTrip ==
  phase = "unpacked" /\ codec.agree =>
    /\ got.ok
    /\ \A f \in DOMAIN sent \ codec.unread : Val(got, f) = sent[f]

(* The unpack function of an element reads exactly the bits that were      *)
(* written, the extension additions of a later release included, so that   *)
(* the element behind it starts where the code expects it.                 *)
ReadsItsBits ==
  phase = "unpacked" /\ codec.agree /\ ~codec.whole => got.pos = Len(bits)
============================================================================
