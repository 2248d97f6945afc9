------------------------------ MODULE LimbMem -------------------------------
(***************************************************************************)
(* The memory mini-gmp.c works on.  Arrays of limbs are blocks that malloc *)
(* and realloc hand out; a pointer is a block and an offset; an mpz_t is   *)
(* the struct of mini-gmp.h, whose d names the block of its limbs.  A C    *)
(* function is an operator from a memory to the memory it leaves, with the *)
(* value it returns in field ret.                                          *)
(*                                                                         *)
(* realloc always moves, so a pointer kept across it dangles; a load from  *)
(* outside a live block, or of a limb nobody wrote, gives junk, an         *)
(* arbitrary limb chosen once; a store outside a live block and a failing  *)
(* assert clear ok; gmp_die sets die.                                      *)
(***************************************************************************)
EXTENDS Limb, Bitwise, FiniteSetsExt, TLC

CONSTANT LimbBits

ASSUME LimbBitsAssumption == LimbBits \in Nat /\ 2 ^ LimbBits = B

GMP_LIMB_HIGHBIT == 2 ^ (LimbBits - 1)

\* The mask that "- (mp_limb_t) c" makes of a comparison, and ~.
Mask(c) == IF c THEN B - 1 ELSE 0
Com(x) == B - 1 - x
Shl(x, k) == Wrap(x * 2 ^ k)
Shr(x, k) == x \div 2 ^ k

-----------------------------------------------------------------------------
(* The C statements.  Let names the value of e in Rest; Then does so after *)
(* TLC has computed it to the end (it is compared).  For runs its body for *)
(* i = 0 .. n-1, While as long as its condition holds; both split the      *)
(* iterations in halves, which TLC evaluates in little depth.              *)

Let(e, Rest(_)) == Rest(e)

Then(e, Rest(_)) == CHOOSE x \in {Rest(v) : v \in {w \in {e} : w = w}} : TRUE

For(n, s0, Body(_, _)) ==
    LET RECURSIVE go(_, _, _)
        go(s, i, k) ==
            CASE k <= 0 -> s
              [] k = 1  -> Body(s, i)
              [] k > 1  -> CHOOSE x \in {go(t, i + (k \div 2), k - (k \div 2)) :
                                           t \in {go(s, i, k \div 2)}} : TRUE
    IN  go(s0, 0, n)

While(s0, Cond(_), Body(_)) ==
    LET RECURSIVE upto(_, _), go(_)
        \* at most 2^k iterations
        upto(s, k) == IF ~Cond(s) THEN s
                      ELSE IF k = 0 THEN Body(s)
                      ELSE CHOOSE x \in {upto(t, k - 1) : t \in {w \in {upto(s, k - 1)} : w = w}} : TRUE
        go(s) == IF Cond(s) THEN Then(upto(s, 5), go) ELSE s
    IN  Then(s0, go)

-----------------------------------------------------------------------------
(* Leading and trailing zeros of a limb that is not 0. *)

\* The 8 bits that gmp_clz skips at once: here half a limb.
ClzStep == LimbBits \div 2

gmp_clz(x) ==
    LET Skip(s, k) == [x |-> Shl(s.x, k), c |-> s.c + k]
        high == While([x |-> x, c |-> 0], LAMBDA s : Shr(s.x, LimbBits - ClzStep) = 0, LAMBDA s : Skip(s, ClzStep))
    IN  While(high, LAMBDA s : s.x < GMP_LIMB_HIGHBIT, LAMBDA s : Skip(s, 1)).c

gmp_ctz(x) == LimbBits - 1 - gmp_clz(x & Wrap(B - x))

-----------------------------------------------------------------------------
(* Memory. *)

BlockBound == 24
NoBlock == <<>>

NULL == <<0, 0>>
At(p, k) == <<p[1], p[2] + k>>

Live(M, p, i) == p[1] # 0 /\ p[2] + i \in DOMAIN M.blk[p[1]]
Ld(M, p, i) == IF Live(M, p, i) THEN M.blk[p[1]][p[2] + i] ELSE M.junk
St(M, p, i, x) ==
    IF Live(M, p, i) THEN [M EXCEPT !.blk[p[1]][p[2] + i] = x]
                     ELSE [M EXCEPT !.ok = FALSE]

Ret(M, x) == [M EXCEPT !.ret = x]
Assert_(M, c) == [M EXCEPT !.ok = @ /\ c]
gmp_assert_nocarry(M) == Assert_(M, M.ret = 0)
gmp_die(M) == [M EXCEPT !.die = TRUE]

FreshBlock(M) == CHOOSE k \in 1 .. BlockBound : M.blk[k] = NoBlock

\* malloc: ret is the block, its limbs are junk.
gmp_xalloc_limbs(M, size) ==
    Let(FreshBlock(M), LAMBDA k :
        [M EXCEPT !.blk[k] = [i \in 0 .. size - 1 |-> M.junk], !.ok = @ /\ size > 0, !.ret = k])

gmp_free(M, k) ==
    [M EXCEPT !.blk[k] = NoBlock, !.ok = @ /\ M.blk[k] # NoBlock]

\* realloc: a new block that starts with the old limbs.
gmp_xrealloc_limbs(M, old, size) ==
    Let(FreshBlock(M), LAMBDA k :
        Ret(gmp_free([M EXCEPT !.blk[k] = [i \in 0 .. size - 1 |-> Ld(M, <<old, 0>>, i)],
                               !.ok = @ /\ size > 0], old), k))

-----------------------------------------------------------------------------
(* The value of n limbs. *)

ValueN(M, p, n) == For(n, 0, LAMBDA v, i : v * B + Ld(M, p, n - 1 - i))
=============================================================================
