-------------------------------- MODULE Mpn ---------------------------------
(***************************************************************************)
(* The mpn layer of mini-gmp.c: natural numbers as arrays of limbs, least  *)
(* significant first, in the memory of LimbMem.  Each loop loads and stores *)
(* in the order of the code, so that calls whose operands overlap do here  *)
(* what they do there.                                                     *)
(***************************************************************************)
EXTENDS LimbMem

mpn_copyi(M, d, s, n) == For(n, M, LAMBDA m, i : St(m, d, i, Ld(m, s, i)))

mpn_copyd(M, d, s, n) ==
    For(n, M, LAMBDA m, i : St(m, d, n - 1 - i, Ld(m, s, n - 1 - i)))

mpn_cmp(M, ap, bp, n) ==
    LET D == {i \in 0 .. n - 1 : Ld(M, ap, i) # Ld(M, bp, i)}
    IN  IF D = {} THEN 0
        ELSE IF Ld(M, ap, Max(D)) > Ld(M, bp, Max(D)) THEN 1 ELSE -1

mpn_cmp4(M, ap, an, bp, bn) ==
    IF an # bn THEN (IF an < bn THEN -1 ELSE 1) ELSE mpn_cmp(M, ap, bp, an)

mpn_normalized_size(M, xp, n) == Max({0} \cup {i \in 1 .. n : Ld(M, xp, i - 1) # 0})

mpn_zero_p(M, rp, n) == mpn_normalized_size(M, rp, n) = 0

mpn_zero(M, rp, n) == For(n, M, LAMBDA m, i : St(m, rp, n - 1 - i, 0))

-----------------------------------------------------------------------------
(* Addition, subtraction, multiplication.  ret is the carry. *)

\* Store what a step of a carry loop computed.
Put(M, p, i, s) == Ret(St(M, p, i, s.limb), s.cy)

mpn_add_1(M, rp, ap, n, b) ==
    For(n, Ret(Assert_(M, n > 0), b),
        LAMBDA m, i : Put(m, rp, i, Add1Step(Ld(m, ap, i), m.ret)))

mpn_add_n(M, rp, ap, bp, n) ==
    For(n, Ret(M, 0),
        LAMBDA m, i : Put(m, rp, i, AddStep(Ld(m, ap, i), Ld(m, bp, i), m.ret)))

mpn_add(M, rp, ap, an, bp, bn) ==
    Let(mpn_add_n(Assert_(M, an >= bn), rp, ap, bp, bn), LAMBDA m :
        IF an > bn THEN mpn_add_1(m, At(rp, bn), At(ap, bn), an - bn, m.ret) ELSE m)

mpn_sub_1(M, rp, ap, n, b) ==
    For(n, Ret(Assert_(M, n > 0), b),
        LAMBDA m, i : Put(m, rp, i, Sub1Step(Ld(m, ap, i), m.ret)))

mpn_sub_n(M, rp, ap, bp, n) ==
    For(n, Ret(M, 0),
        LAMBDA m, i : Put(m, rp, i, SubStep(Ld(m, ap, i), Ld(m, bp, i), m.ret)))

mpn_sub(M, rp, ap, an, bp, bn) ==
    Let(mpn_sub_n(Assert_(M, an >= bn), rp, ap, bp, bn), LAMBDA m :
        IF an > bn THEN mpn_sub_1(m, At(rp, bn), At(ap, bn), an - bn, m.ret) ELSE m)

mpn_mul_1(M, rp, up, n, vl) ==
    For(n, Ret(Assert_(M, n >= 1), 0),
        LAMBDA m, i : Put(m, rp, i, MulStep(Ld(m, up, i), vl, m.ret)))

mpn_addmul_1(M, rp, up, n, vl) ==
    For(n, Ret(Assert_(M, n >= 1), 0),
        LAMBDA m, i : Put(m, rp, i, AddmulStep(Ld(m, rp, i), Ld(m, up, i), vl, m.ret)))

mpn_submul_1(M, rp, up, n, vl) ==
    For(n, Ret(Assert_(M, n >= 1), 0),
        LAMBDA m, i : Put(m, rp, i, SubmulStep(Ld(m, rp, i), Ld(m, up, i), vl, m.ret)))

\* The carry becomes limb i.
PutTop(M, rp, i) == St(M, rp, i, M.ret)

mpn_mul(M, rp, up, un, vp, vn) ==
    For(vn - 1, PutTop(mpn_mul_1(Assert_(M, un >= vn /\ vn >= 1), rp, up, un, Ld(M, vp, 0)), rp, un),
        LAMBDA m, j : PutTop(mpn_addmul_1(m, At(rp, j + 1), up, un, Ld(m, vp, j + 1)), rp, un + j + 1))

-----------------------------------------------------------------------------
(* Shifts, scans and complements. *)

ShlStep(s, rp, i, low, cnt) ==
    [m |-> St(s.m, rp, i, s.high + Shr(low, LimbBits - cnt)), high |-> Shl(low, cnt)]

mpn_lshift(M, rp, up, n, cnt) ==
    Let(For(n - 1, [m |-> Assert_(M, n >= 1 /\ cnt \in 1 .. LimbBits - 1), high |-> Shl(Ld(M, up, n - 1), cnt)],
            LAMBDA s, i : ShlStep(s, rp, n - 1 - i, Ld(s.m, up, n - 2 - i), cnt)),
        LAMBDA t : Ret(St(t.m, rp, 0, t.high), Shr(Ld(M, up, n - 1), LimbBits - cnt)))

ShrStep(s, rp, i, high, cnt) ==
    [m |-> St(s.m, rp, i, s.low + Shl(high, LimbBits - cnt)), low |-> Shr(high, cnt)]

mpn_rshift(M, rp, up, n, cnt) ==
    Let(For(n - 1, [m |-> Assert_(M, n >= 1 /\ cnt \in 1 .. LimbBits - 1), low |-> Shr(Ld(M, up, 0), cnt)],
            LAMBDA s, i : ShrStep(s, rp, i, Ld(s.m, up, i + 1), cnt)),
        LAMBDA t : Ret(St(t.m, rp, n - 1, t.low), Shl(Ld(M, up, 0), LimbBits - cnt)))

\* ret is the index of the first bit of limb, up[i+1], ... that is not the bit of ux;
\* -1 stands for ~(mp_bitcnt_t) 0, "no such bit".
mpn_common_scan(M, limb0, i0, up, un, ux) ==
    Let(While([limb |-> limb0, i |-> i0, end |-> FALSE], LAMBDA t : t.limb = 0 /\ ~t.end,
              LAMBDA t : [limb |-> ux ^^ Ld(M, up, t.i + 1), i |-> t.i + 1, end |-> t.i + 1 = un]),
        LAMBDA s : Ret(Assert_(M, ux \in {0, B - 1} /\ i0 \in 0 .. un),
                       IF s.end THEN (IF ux = 0 THEN -1 ELSE un * LimbBits)
                                ELSE s.i * LimbBits + gmp_ctz(s.limb)))

\* Bits from the given one upwards of a limb.
From(x, bit) == x - (x % 2 ^ (bit % LimbBits))

mpn_scan1(M, ptr, bit) ==
    LET i == bit \div LimbBits
    IN  mpn_common_scan(M, From(Ld(M, ptr, i), bit), i, ptr, i, 0)

mpn_scan0(M, ptr, bit) ==
    LET i == bit \div LimbBits
    IN  mpn_common_scan(M, From(Com(Ld(M, ptr, i)), bit), i, ptr, i, B - 1)

mpn_com(M, rp, up, n) == For(n, M, LAMBDA m, i : St(m, rp, i, Com(Ld(m, up, i))))

\* Two's complement negation; ret is 1 unless the operand is zero.
mpn_neg(M, rp, up, n) ==
    Let(While([m |-> M, i |-> 0], LAMBDA t : t.i < n /\ Ld(t.m, up, t.i) = 0,
              LAMBDA t : [m |-> St(t.m, rp, t.i, 0), i |-> t.i + 1]),
        LAMBDA s : IF s.i = n THEN Ret(s.m, 0)
                   ELSE Ret(mpn_com(St(s.m, rp, s.i, Wrap(-Ld(s.m, up, s.i))),
                                    At(rp, s.i + 1), At(up, s.i + 1), n - s.i - 1), 1))
=============================================================================
