------------------------------- MODULE Lines --------------------------------
(***************************************************************************)
(* What splitting a stream into lines means, for the two programs that do  *)
(* it: why3server (readbuf.c, handle_msg) and its OCaml client             *)
(* (Prove_client.read_lines).  The definitions of the lines speak of the   *)
(* whole stream and not of the pieces in which it arrives.                 *)
(***************************************************************************)
EXTENDS Integers, Sequences, FiniteSets

CONSTANTS
  NL,         \* the newline byte
  Letters,    \* the other bytes
  MaxStream   \* bound: bytes the writer sends

ASSUME LettersAssumption == NL \notin Letters

VARIABLE stream  \* every byte read so far

\* read returns between 1 and size bytes
Pieces(size) == UNION {[1 .. n -> Letters \cup {NL}] : n \in 1 .. size}

Arrives(piece) ==
  /\ Len(stream) + Len(piece) <= MaxStream
  /\ stream' = stream \o piece

Newlines(s) == {n \in DOMAIN s : s[n] = NL}

\* the position of the j-th newline
NewlineAt(s, j) ==
  CHOOSE n \in Newlines(s) : Cardinality({m \in Newlines(s) : m <= n}) = j

LineStart(s, j) == IF j = 1 THEN 1 ELSE NewlineAt(s, j - 1) + 1

\* the complete lines of s, without their newlines
LinesOf(s) ==
  [j \in 1 .. Cardinality(Newlines(s)) |-> SubSeq(s, LineStart(s, j), NewlineAt(s, j) - 1)]

\* what follows the last newline
RestOf(s) == SubSeq(s, LineStart(s, Cardinality(Newlines(s)) + 1), Len(s))

=============================================================================
