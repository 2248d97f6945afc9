------------------------------ MODULE MpzText -------------------------------
(***************************************************************************)
(* Conversion of mpz_t to and from strings and arrays of words.  A         *)
(* character is the value 0 .. 35 of the digit it stands for, in either    *)
(* case, or one of the classes below; a string is a sequence of them, its  *)
(* terminating NUL left out.                                               *)
(***************************************************************************)
EXTENDS MpzPow

CONSTANT CHAR_BIT

ASSUME CharBitAssumption == CHAR_BIT \in Nat /\ CHAR_BIT > 0 /\ LimbBits % CHAR_BIT = 0

LimbBytes == LimbBits \div CHAR_BIT    \* sizeof (mp_limb_t)

Space == -1
Minus == -2
Other == -3
LetterB == 11
LetterX == 33

-----------------------------------------------------------------------------

\* s and its NUL fit the 2 + size characters that were allocated.
StrFits(M, s, size) == [m |-> Assert_(M, Len(s) + 1 <= 2 + size), null |-> FALSE, out |-> s]

\* The digits in a base that is no power of two come from a copy.
OtherDigits(M, u, un, base) ==
    Let(gmp_xalloc_limbs(M, un), LAMBDA m :
    Let(mpn_get_str_other(mpn_copyi(m, <<m.ret, 0>>, Ptr(m, u), un), base, mpn_get_base_info(base),
                          <<m.ret, 0>>, un), LAMBDA t :
        [m |-> gmp_free(t.m, m.ret), out |-> t.out]))

StrOf(M, base, u, sign, bits, size) ==
    CASE Siz(M, u) = 0 -> StrFits(M, <<0>>, size)
      [] Siz(M, u) # 0 /\ bits # 0 ->
            StrFits(M, sign \o mpn_get_str_bits(M, bits, Ptr(M, u), Num(M, u)), size)
      [] OTHER -> Let(OtherDigits(M, u, Num(M, u), base), LAMBDA t : StrFits(t.m, sign \o t.out, size))

\* out is the string, null tells whether the function returned NULL.
mpz_get_str(M, base0, u) ==
    LET base == IF GMP_ABS(base0) <= 1 THEN 10 ELSE GMP_ABS(base0)
    IN  IF base > 36 THEN [m |-> M, null |-> TRUE, out |-> <<>>]
        ELSE Let(mpz_sizeinbase(M, u, base), LAMBDA m :
                 StrOf(m, base, u, IF Siz(m, u) < 0 THEN <<Minus>> ELSE <<>>,
                       mpn_base_power_of_two_p(base), m.ret))

\* Digits that were accepted, most significant first: the space they need, and
\* the limbs they make.
CeilDiv(x, y) == (x + y - 1) \div y

SetBits(M, r, dp, bits) ==
    Let(MPZ_REALLOC(M, r, CeilDiv(Len(dp) * bits, LimbBits)), LAMBDA m :
    Let(mpn_set_str_bits(m, Ptr(m, r), dp, bits), LAMBDA k :
        Assert_(k, k.ret <= CeilDiv(Len(dp) * bits, LimbBits))))

SetOther(M, r, dp, base, info) ==
    Let(MPZ_REALLOC(M, r, CeilDiv(Len(dp), info.exp)), LAMBDA m :
    Let(mpn_set_str_other(m, Ptr(m, r), dp, base, info), LAMBDA k :
    Let(Ret(Assert_(k, k.ret > 0), k.ret - Bit(Limb(k, r, k.ret - 1) = 0)), LAMBDA t :
        Assert_(t, t.ret <= CeilDiv(Len(dp), info.exp)))))

SetDigits(M, r, dp, base, neg) ==
    Let(mpn_base_power_of_two_p(base), LAMBDA bits :
    Let(IF bits > 0 THEN SetBits(M, r, dp, bits) ELSE SetOther(M, r, dp, base, mpn_get_base_info(base)),
        LAMBDA m : SetSize(m, r, Signed(neg, m.ret))))

\* ret is 0, or -1 when the string is no number of that base; r is then 0.
mpz_set_str(M, r, sp, base0) ==
    LET first == {k \in 1 .. Len(sp) : sp[k] # Space}
        s0   == IF first = {} THEN <<>> ELSE SubSeq(sp, Min(first), Len(sp))
        neg  == s0 # <<>> /\ Head(s0) = Minus
        s1   == IF neg THEN Tail(s0) ELSE s0
        zero == base0 = 0 /\ s1 # <<>> /\ Head(s1) = 0
        Prefix(c) == zero /\ Len(s1) >= 2 /\ s1[2] = c
        base == CASE base0 # 0        -> base0
                  [] Prefix(LetterX)  -> 16
                  [] Prefix(LetterB)  -> 2
                  [] base0 = 0 /\ ~Prefix(LetterX) /\ ~Prefix(LetterB) -> IF zero THEN 8 ELSE 10
        s2   == IF Prefix(LetterX) \/ Prefix(LetterB) THEN SubSeq(s1, 3, Len(s1)) ELSE s1
        dp   == SelectSeq(s2, LAMBDA c : c # Space)
    IN  IF dp = <<>> \/ \E k \in 1 .. Len(dp) : dp[k] \notin 0 .. base - 1
        THEN Ret(SetSize(M, r, 0), -1)
        ELSE Ret(SetDigits(M, r, dp, base, neg), 0)

-----------------------------------------------------------------------------
(* Words of size bytes, in the given order and byte order; 1 is most       *)
(* significant first.  The byte order 0 is that of the machine, little     *)
(* endian here.                                                            *)

gmp_detect_endian == -1

Endian(endian) == IF endian = 0 THEN gmp_detect_endian ELSE endian

\* The index of the k-th byte from the least significant one: the walk starts
\* at one end of one end word, and steps from word to word.
WalkStart(count, order, size, endian) ==
    (IF order = 1 THEN size * (count - 1) ELSE 0) + (IF endian = 1 THEN size - 1 ELSE 0)

WalkStep(k, order, size, endian) ==
    LET word_step == IF order # endian THEN 2 * size ELSE 0
        signed    == IF order = 1 THEN -word_step ELSE word_step
    IN  IF (k + 1) % size = 0 THEN signed - endian ELSE -endian

mpz_import(M, r, count, order, size, endian0, src) ==
    LET endian == Endian(endian0)
        rn == (size * count + LimbBytes - 1) \div LimbBytes
        Full(s, limb) == [s EXCEPT !.m = St(s.m, Ptr(s.m, r), s.i, limb), !.i = s.i + 1,
                                   !.bytes = 0, !.limb = 0]
        Gather(s, limb) == IF s.bytes + 1 = LimbBytes THEN Full(s, limb)
                           ELSE [s EXCEPT !.bytes = s.bytes + 1, !.limb = limb]
        Byte(s, k) == [Gather(s, s.limb | (src[s.p] * 2 ^ (s.bytes * CHAR_BIT)))
                       EXCEPT !.p = s.p + WalkStep(k, order, size, endian)]
        Finish(m, i, limb) == IF limb # 0 THEN SetSize(St(m, Ptr(m, r), i, limb), r, i + 1)
                              ELSE SetSize(m, r, mpn_normalized_size(m, Ptr(m, r), i))
    IN  Let(For(count * size, [m |-> MPZ_REALLOC(M, r, rn), i |-> 0, bytes |-> 0, limb |-> 0,
                               p |-> WalkStart(count, order, size, endian)], Byte),
            LAMBDA t : Finish(Assert_(t.m, t.i + Bit(t.bytes > 0) = rn), t.i, t.limb))

\* out is the array of bytes, count the number of words.
mpz_export(M, order, size, endian0, u) ==
    LET endian == Endian(endian0)
        un  == Num(M, u)
        top == Min({k \in 1 .. LimbBytes : Limb(M, u, un - 1) < 2 ^ (k * CHAR_BIT)})
        count == (top + (un - 1) * LimbBytes + size - 1) \div size
        \* above the highest limb the last one read has been shifted to 0
        Byte(s, k) ==
            LET next == s.bytes = 0
                limb == IF next /\ s.i < un THEN Limb(M, u, s.i) ELSE s.limb
            IN  [i |-> s.i + Bit(next /\ s.i < un),
                 bytes |-> (IF next THEN LimbBytes ELSE s.bytes) - 1,
                 out |-> [s.out EXCEPT ![s.p] = limb % 2 ^ CHAR_BIT],
                 limb |-> limb \div 2 ^ CHAR_BIT,
                 p |-> s.p + WalkStep(k, order, size, endian)]
        t == For(count * size, [i |-> 0, bytes |-> 0, limb |-> 0,
                                out |-> [k \in 0 .. count * size - 1 |-> M.junk],
                                p |-> WalkStart(count, order, size, endian)], Byte)
    IN  IF un = 0 THEN [m |-> M, count |-> 0, out |-> <<>>]
        ELSE [m |-> Assert_(M, Limb(M, u, un - 1) # 0 /\ t.i = un), count |-> count, out |-> t.out]
=============================================================================
