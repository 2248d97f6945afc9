------------------------------ MODULE MpzBits -------------------------------
(***************************************************************************)
(* Bit operations of mini-gmp.c.  Negative numbers stand for their two's   *)
(* complement, which is recomputed limb by limb from the absolute value.   *)
(* -1 as a bit count is ~(mp_bitcnt_t) 0.                                  *)
(***************************************************************************)
EXTENDS MpzDiv

mpz_tstbit(M, d, bit_index) ==
    LET i   == bit_index \div LimbBits
        w   == Limb(M, d, i)
        bit == Shr(w, bit_index % LimbBits) % 2
        low == w % 2 ^ (bit_index % LimbBits) # 0 \/ \E j \in 0 .. i - 1 : Limb(M, d, j) > 0
    IN  IF i >= Num(M, d) THEN Bit(Siz(M, d) < 0)
        ELSE IF Siz(M, d) < 0 /\ low THEN 1 - bit ELSE bit

mpz_abs_add_bit(M, d, bit_index) ==
    LET dn  == Num(M, d)
        i   == bit_index \div LimbBits
        bit == 2 ^ (bit_index % LimbBits)
        Sized(m, n) == SetSize(m, d, Signed(Siz(M, d) < 0, n))
        Grow(m) == For(i - dn, St(m, Ptr(m, d), i, bit), LAMBDA k, j : St(k, Ptr(k, d), dn + j, 0))
        Carry(m) == IF m.ret = 0 THEN Sized(m, dn)
                    ELSE Let(MPZ_REALLOC(m, d, dn + 1), LAMBDA k :
                             Sized(St(k, Ptr(k, d), dn, m.ret), dn + 1))
        p   == At(Ptr(M, d), i)
    IN  IF i >= dn THEN Sized(Grow(MPZ_REALLOC(M, d, i + 1)), i + 1)
        ELSE Carry(mpn_add_1(M, p, p, dn - i, bit))

mpz_abs_sub_bit(M, d, bit_index) ==
    LET dn == Num(M, d)
        i  == bit_index \div LimbBits
        p  == At(Ptr(M, d), i)
        Sized(m) == SetSize(gmp_assert_nocarry(m), d,
                            Signed(Siz(M, d) < 0, mpn_normalized_size(m, Ptr(m, d), dn)))
    IN  Sized(mpn_sub_1(Assert_(M, i < dn), p, p, dn - i, 2 ^ (bit_index % LimbBits)))

mpz_setbit(M, d, k) ==
    IF mpz_tstbit(M, d, k) = 1 THEN M
    ELSE IF Siz(M, d) >= 0 THEN mpz_abs_add_bit(M, d, k) ELSE mpz_abs_sub_bit(M, d, k)

mpz_clrbit(M, d, k) ==
    IF mpz_tstbit(M, d, k) = 0 THEN M
    ELSE IF Siz(M, d) >= 0 THEN mpz_abs_sub_bit(M, d, k) ELSE mpz_abs_add_bit(M, d, k)

mpz_combit(M, d, k) ==
    IF mpz_tstbit(M, d, k) # Bit(Siz(M, d) < 0) THEN mpz_abs_sub_bit(M, d, k)
                                               ELSE mpz_abs_add_bit(M, d, k)

mpz_com(M, r, u) == mpz_sub_ui(mpz_neg(M, r, u), r, r, 1)

-----------------------------------------------------------------------------
(* and, ior, xor: the two's complements of the operands are formed with a  *)
(* running carry while the result is turned back into an absolute value.   *)

\* (limb ^ mask) + carry, and the carry out.
Complement(x, neg, c) == Add1Step(IF neg THEN Com(x) ELSE x, c)

\* un >= vn >= 1; rn limbs are computed, those above vn from the sign of v.
LogicLoop(M, r, u, v, vn, rn, rneg, Op(_, _)) ==
    LET uneg == Siz(M, u) < 0
        vneg == Siz(M, v) < 0
        Put3(s, i, ul, vl, rl) ==
            [m |-> St(s.m, Ptr(s.m, r), i, rl.limb), uc |-> ul.cy, vc |-> vl.cy, rc |-> rl.cy]
        Combine(s, i, ul, vl) == Put3(s, i, ul, vl, Complement(Op(ul.limb, vl.limb), rneg, s.rc))
        Step(s, i) == Combine(s, i, Complement(Limb(s.m, u, i), uneg, s.uc),
                              IF i < vn THEN Complement(Limb(s.m, v, i), vneg, s.vc)
                                        ELSE [limb |-> Mask(vneg), cy |-> s.vc])
        Sized(m, rc) == IF rc = 1 THEN SetSize(St(m, Ptr(m, r), rn, 1), r, Signed(rneg, rn + 1))
                        ELSE SetSize(m, r, Signed(rneg, mpn_normalized_size(m, Ptr(m, r), rn)))
    IN  Let(For(rn, [m |-> MPZ_REALLOC(M, r, rn + Bit(rneg)),
                     uc |-> Bit(uneg), vc |-> Bit(vneg), rc |-> Bit(rneg)], Step),
            LAMBDA t : Sized(Assert_(t.m, t.vc = 0), t.rc))

mpz_and(M, r, u0, v0) ==
    LET u == Longer(M, u0, v0)
        v == Shorter(M, u0, v0)
        vneg == Siz(M, v) < 0
    IN  IF Num(M, v) = 0 THEN SetSize(M, r, 0)
        ELSE LogicLoop(M, r, u, v, Num(M, v), IF vneg THEN Num(M, u) ELSE Num(M, v),
                       Siz(M, u) < 0 /\ vneg, LAMBDA x, y : x & y)

mpz_ior(M, r, u0, v0) ==
    LET u == Longer(M, u0, v0)
        v == Shorter(M, u0, v0)
        vneg == Siz(M, v) < 0
    IN  IF Num(M, v) = 0 THEN mpz_set(M, r, u)
        ELSE LogicLoop(M, r, u, v, Num(M, v), IF vneg THEN Num(M, v) ELSE Num(M, u),
                       Siz(M, u) < 0 \/ vneg, LAMBDA x, y : x | y)

mpz_xor(M, r, u0, v0) ==
    LET u == Longer(M, u0, v0)
        v == Shorter(M, u0, v0)
    IN  IF Num(M, v) = 0 THEN mpz_set(M, r, u)
        ELSE LogicLoop(M, r, u, v, Num(M, v), Num(M, u),
                       ~SameSign(M, u, v), LAMBDA x, y : x ^^ y)

-----------------------------------------------------------------------------
(* Counting and scanning. *)

\* Neighbouring groups of bits are added, in 16 bits at a time.
gmp_popcount_limb(x) ==
    LET Pairs(w, k, mask) == (Shr(w, k) & mask) + (w & mask)
        Bytes(w) == Pairs(Pairs(Pairs(w, 1, \h5555), 2, \h3333), 4, \h0f0f)
    IN  While([x |-> x, c |-> 0], LAMBDA s : s.x > 0,
              LAMBDA s : [x |-> Shr(s.x, 16), c |-> s.c + Shr(Bytes(s.x), 8) + (Bytes(s.x) & \hff)]).c

mpn_popcount(M, p, n) == For(n, 0, LAMBDA c, i : c + gmp_popcount_limb(Ld(M, p, i)))

mpz_popcount(M, u) == IF Siz(M, u) < 0 THEN -1 ELSE mpn_popcount(M, Ptr(M, u), Siz(M, u))

mpz_hamdist(M, u0, v0) ==
    LET u == Longer(M, u0, v0)
        v == Shorter(M, u0, v0)
        neg == Siz(M, u) < 0
        Count(s, ul, vl) == [c |-> s.c + gmp_popcount_limb(ul.limb ^^ vl.limb), uc |-> ul.cy, vc |-> vl.cy]
        Step(s, i) == Count(s, Complement(Limb(M, u, i), neg, s.uc),
                            IF i < Num(M, v) THEN Complement(Limb(M, v, i), neg, s.vc)
                                             ELSE [limb |-> Mask(neg), cy |-> s.vc])
    IN  IF ~SameSign(M, u0, v0) THEN Ret(M, -1)
        ELSE Let(For(Num(M, u), [c |-> 0, uc |-> Bit(neg), vc |-> Bit(neg)], Step), LAMBDA s :
                 Ret(Assert_(M, (neg => Siz(M, v) < 0) /\ s.vc = 0), s.c))

mpz_scan1(M, u, start) ==
    LET i    == start \div LimbBits
        limb == Limb(M, u, i)
        \* two's complement of the limb: + 1 when every lower limb is zero
        low  == Bit(mpn_zero_p(M, Ptr(M, u), i))
        neg  == Wrap(Com(limb) + low)
    IN  CASE i >= Num(M, u) -> Ret(M, IF Siz(M, u) >= 0 THEN -1 ELSE start)
          [] i < Num(M, u) /\ start = 0 -> mpn_common_scan(M, limb, i, Ptr(M, u), Num(M, u), 0)
          [] i < Num(M, u) /\ start # 0 /\ Siz(M, u) >= 0 ->
                mpn_common_scan(M, From(limb, start), i, Ptr(M, u), Num(M, u), 0)
          [] OTHER -> mpn_common_scan(M, From(neg, start), i, Ptr(M, u), Num(M, u), Mask(neg >= low))

mpz_scan0(M, u, start) ==
    LET i    == start \div LimbBits
        pos  == Siz(M, u) >= 0
        limb == IF pos THEN Com(Limb(M, u, i))
                       ELSE Wrap(Limb(M, u, i) - Bit(mpn_zero_p(M, Ptr(M, u), i)))
    IN  IF i >= Num(M, u) THEN Ret(M, IF pos THEN start ELSE -1)
        ELSE mpn_common_scan(M, From(limb, start), i, Ptr(M, u), Num(M, u), Mask(pos))
=============================================================================
