------------------------------- MODULE Mt19937 -------------------------------
(***************************************************************************)
(* The random numbers of the multiprecision tests (mt19937-64.c): a state  *)
(* of NN words from which NN numbers are made at one time, in place, and   *)
(* then handed out one by one.  Size and constants are parameters: NN is   *)
(* 312, MM 156, a word 64 bits, LowBits 31.                                *)
(***************************************************************************)
EXTENDS Integers, Sequences, Bitwise

CONSTANTS
  NN, MM,       \* words of the state, distance of the words combined
  WordBits,     \* bits of an unsigned long long
  LowBits,      \* the bits of LM; UM has the others
  MATRIX_A,
  Factors,      \* the three multipliers of the initialisations
  Shift,        \* by how much they shift right: 62
  Seeds,        \* seeds that the program may give
  InitKeys,     \* arrays that it may give
  MaxOutputs    \* bound: numbers drawn

Word == 2 ^ WordBits
UM(x) == x - (x % 2 ^ LowBits)
LM(x) == x % 2 ^ LowBits

VARIABLES
  mt,    \* the words 0 .. NN - 1
  mti,   \* the next word to hand out; NN + 1: no seed yet
  words  \* every word of the sequence since the seed: first the state, then
         \* the word behind each number drawn

mtVars == <<mt, mti, words>>

MtInit ==
    /\ mt = [i \in 0 .. NN - 1 |-> 0]
    /\ mti = NN + 1
    /\ words = <<>>

Mixed(w) == w ^^ shiftR(w, Shift)

init_genrand64(seed) ==
    LET S[i \in 0 .. NN - 1] == IF i = 0 THEN seed ELSE (Factors[1] * Mixed(S[i - 1]) + i) % Word
    IN S

\* One step of the loops of init_by_array64: s.mt[s.i] := word, i++, and j++
\* around the key.
Stir(s, word, key_length) ==
    LET m == [s.mt EXCEPT ![s.i] = word % Word] IN
    [mt |-> IF s.i + 1 >= NN THEN [m EXCEPT ![0] = m[NN - 1]] ELSE m,
     i |-> IF s.i + 1 >= NN THEN 1 ELSE s.i + 1,
     j |-> IF s.j + 1 >= key_length THEN 0 ELSE s.j + 1]

\* the state when the two loops of init_by_array64 have ended
Stirred(init_key, seed) ==
    LET key_length == Len(init_key)
        k == IF NN > key_length THEN NN ELSE key_length
        Old(s, f) == s.mt[s.i] ^^ ((Mixed(s.mt[s.i - 1]) * Factors[f]) % Word)
        First[n \in 0 .. k] ==
            IF n = 0 THEN [mt |-> init_genrand64(seed), i |-> 1, j |-> 0]
            ELSE LET s == First[n - 1] IN Stir(s, Old(s, 2) + init_key[s.j + 1] + s.j, key_length)
        Second[n \in 0 .. NN - 1] ==
            IF n = 0 THEN First[k]
            ELSE LET s == Second[n - 1] IN Stir(s, Old(s, 3) - s.i + Word, key_length)
    IN Second[NN - 1].mt

\* mutant: the first word stays what the loops have made of it
MutInitByArray(init_key, seed) == Stirred(init_key, seed)

init_by_array64(init_key, seed) == [Stirred(init_key, seed) EXCEPT ![0] = 2 ^ (WordBits - 1)]

\* how a word follows from the words 0, 1 and MM places after it
Twist(w0, w1, wm) ==
    LET x == UM(w0) + LM(w1) IN
    (wm ^^ (x \div 2)) ^^ (IF x % 2 = 1 THEN MATRIX_A ELSE 0)

\* mutant: the second loop goes on reading the words of the first
MutNextBlock(m) ==
    LET G[i \in 0 .. NN - 1] ==
          IF i < NN - MM THEN Twist(m[i], m[i + 1], m[i + MM])
          ELSE IF i < NN - 1 THEN Twist(m[i], m[i + 1], m[i + MM - NN])
          ELSE Twist(m[NN - 1], m[0], m[MM - 1])
    IN G

\* The three parts of the block generation.  It works in place: a word whose
\* index is smaller has been replaced already.
NextBlock(m) ==
    LET G[i \in 0 .. NN - 1] ==
          IF i < NN - MM THEN Twist(m[i], m[i + 1], m[i + MM])
          ELSE IF i < NN - 1 THEN Twist(m[i], m[i + 1], G[i + MM - NN])
          ELSE Twist(m[NN - 1], G[0], G[MM - 1])
    IN G

AsSequence(m) == [k \in 1 .. NN |-> m[k - 1]]

Seed(m) ==
    /\ mt' = m
    /\ mti' = NN
    /\ words' = AsSequence(m)

\* genrand64_int64 without the tempering of the word it hands out; the default
\* seed is one of Seeds.
genrand64_int64(default) ==
    LET fresh == mti = NN + 1
        m == IF fresh THEN init_genrand64(default) ELSE mt
        block == IF mti >= NN THEN NextBlock(m) ELSE mt
        at == IF mti >= NN THEN 0 ELSE mti
    IN /\ fresh \/ Len(words) < NN + MaxOutputs
       /\ mt' = block
       /\ mti' = at + 1
       /\ words' = Append(IF fresh THEN AsSequence(m) ELSE words, block[at])

MtNext ==
    \/ \E s \in Seeds : Seed(init_genrand64(s))
    \/ \E k \in InitKeys, s \in Seeds : Seed(init_by_array64(k, s))
    \/ \E s \in Seeds : genrand64_int64(s)

MtSpec == MtInit /\ [][MtNext]_mtVars

-----------------------------------------------------------------------------
(* Properties *)

\* The numbers are those of one linear recurrence, whatever the position at
\* which a block ends: making NN of them at one time, in place and in three
\* parts, changes nothing.
OneRecurrence ==
    \A k \in 1 .. Len(words) - NN : words[k + NN] = Twist(words[k], words[k + 1], words[k + MM])

\* The generator never gets stuck at zero: the bits that determine the words to
\* come, the upper bits of one word and NN - 1 further words, are not all zero.
NeverStuck ==
    mti # NN + 1 =>
        LET first == Len(words) - NN + 1 IN
        UM(words[first]) # 0 \/ \E k \in first + 1 .. Len(words) : words[k] # 0
=============================================================================
