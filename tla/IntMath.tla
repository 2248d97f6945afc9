------------------------------ MODULE IntMath -------------------------------
(***************************************************************************)
(* The arithmetic that the mpz functions of mini-gmp stand for, on         *)
(* mathematical integers.                                                  *)
(***************************************************************************)
EXTENDS Integers, Sequences, FiniteSetsExt

Absolute(x) == IF x < 0 THEN -x ELSE x
Sign(x) == IF x > 0 THEN 1 ELSE IF x < 0 THEN -1 ELSE 0
Truth(c) == IF c THEN 1 ELSE 0
Compare(x, y) == Sign(x - y)

Quotient(n, d, mode) ==
    LET n1 == IF d < 0 THEN -n ELSE n
        floor == n1 \div Absolute(d)
    IN  IF n1 % Absolute(d) = 0 \/ mode = "FLOOR" \/ (mode = "TRUNC" /\ n1 >= 0)
        THEN floor ELSE floor + 1

Remainder(n, d, mode) == n - d * Quotient(n, d, mode)

Power(x, k) == IF k = 0 THEN 1 ELSE x ^ k

Divides(d, n) == IF d = 0 THEN n = 0 ELSE n % Absolute(d) = 0

RECURSIVE Euclid(_, _)
Euclid(x, y) == IF y = 0 THEN x ELSE Euclid(y, x % y)
Gcd(x, y) == Euclid(Absolute(x), Absolute(y))
Lcm(x, y) == IF x = 0 \/ y = 0 THEN 0 ELSE (Absolute(x) \div Gcd(x, y)) * Absolute(y)

RECURSIVE PowMod(_, _, _)
PowMod(x, e, m) == IF e = 0 THEN 1 % m
                   ELSE LET h == PowMod((x * x) % m, e \div 2, m)
                        IN  IF e % 2 = 1 THEN (h * x) % m ELSE h

RECURSIVE Falling(_, _)
Falling(n, k) == IF k = 0 THEN 1 ELSE n * Falling(n - 1, k - 1)

\* Bit k of the two's complement of x, which is infinite to the left.
BitOf(x, k) == (x \div 2 ^ k) % 2
Columns == 0 .. 30
Bitwise2(z, x, y, Op(_, _)) == \A k \in Columns : BitOf(z, k) = Op(BitOf(x, k), BitOf(y, k))

\* The first column from k on where the bit of x is b; -1 if there is none.
ScanBit(x, k, b) == LET hits == {i \in Columns : i >= k /\ BitOf(x, i) = b}
                    IN  IF hits = {} THEN -1 ELSE Min(hits)

\* In how many columns x and y differ; -1 if in infinitely many.
Distance(x, y) == IF (x < 0) # (y < 0) THEN -1
                  ELSE Cardinality({i \in Columns : BitOf(x, i) # BitOf(y, i)})

RECURSIVE Digits(_, _)
Digits(x, base) == IF x < base THEN <<x>> ELSE Append(Digits(x \div base, base), x % base)

RECURSIVE Number(_, _)
Number(ds, base) == IF ds = <<>> THEN 0
                    ELSE Number(SubSeq(ds, 1, Len(ds) - 1), base) * base + ds[Len(ds)]

-----------------------------------------------------------------------------
(* Texts and arrays of words.  A character is the value of a digit, -1 for *)
(* a space, -2 for a minus.                                                *)

Signed10(x, ds) == IF x < 0 THEN <<-2>> \o ds ELSE ds

\* The radix a text is in, given the base passed to mpz_set_str and its prefix.
Radix(base, pre) == CASE base # 0 -> base
                      [] base = 0 /\ pre = <<>>    -> 10
                      [] base = 0 /\ pre = <<0>>   -> 8
                      [] base = 0 /\ Len(pre) = 2 -> IF pre[2] = 33 THEN 16 ELSE 2

\* A way to write x: lead spaces first, and a space after every digit if gap.
Written(x, base, pre, lead, gap) ==
    LET ds == Digits(Absolute(x), Radix(base, pre))
        body == IF gap THEN [i \in 1 .. 2 * Len(ds) |-> IF i % 2 = 1 THEN ds[(i + 1) \div 2] ELSE -1]
                       ELSE ds
    IN  [i \in 1 .. lead |-> -1] \o Signed10(x, pre \o body)

\* Bytes, most significant first, as words of size bytes in the given order
\* (1: most significant word first) and byte order (1: most significant first).
Layout(bytes, order, size, endian) ==
    LET n == Len(bytes)
        Place(k) == LET w == k \div size
                        j == k % size
                        word == IF order = 1 THEN n \div size - 1 - w ELSE w
                    IN  word * size + (IF endian = 1 THEN size - 1 - j ELSE j)
    IN  [i \in 0 .. n - 1 |-> bytes[n - (CHOOSE k \in 0 .. n - 1 : Place(k) = i)]]
=============================================================================
