------------------------------ MODULE ReadLines ------------------------------
(***************************************************************************)
(* Prove_client.read_lines of the OCaml client: the answers of the server  *)
(* arrive in pieces of at most 1024 bytes; recv_buf keeps the incomplete   *)
(* line between two calls.                                                 *)
(***************************************************************************)
EXTENDS Lines

CONSTANT ReadSize  \* the size of the buffer of read_from_client

VARIABLES
  recv_buf,  \* the incomplete line
  lines      \* every line returned so far

lineVars == <<recv_buf, stream, lines>>

InitLines ==
  /\ recv_buf = <<>>
  /\ stream = <<>>
  /\ lines = <<>>

\* Strings.rev_split '\n', in the order of the string
RevSplit(s) ==
  LET aux[i \in 1 .. Len(s) + 1] ==
        LET found == {j \in i .. Len(s) : s[j] = NL}
            j == CHOOSE k \in found : \A m \in found : k <= m
        IN IF found = {} THEN <<SubSeq(s, i, Len(s))>>
                         ELSE <<SubSeq(s, i, j - 1)>> \o aux[j + 1]
  IN aux[1]

\* mutant: recv_buf is not put in front of the piece
MutSplitsPieceOnly(piece) ==
  /\ Arrives(piece)
  /\ IF \E n \in DOMAIN piece : piece[n] = NL
     THEN LET l == RevSplit(piece) IN
          /\ recv_buf' = l[Len(l)]
          /\ lines' = lines \o SubSeq(l, 1, Len(l) - 1)
     ELSE recv_buf' = recv_buf \o piece /\ UNCHANGED lines

\* read_lines for one piece; without a newline in it the code reads on
ReadPiece(piece) ==
  /\ Arrives(piece)
  /\ IF \E n \in DOMAIN piece : piece[n] = NL
     THEN LET l == RevSplit(recv_buf \o piece) IN
          /\ recv_buf' = l[Len(l)]
          /\ lines' = lines \o SubSeq(l, 1, Len(l) - 1)
     ELSE recv_buf' = recv_buf \o piece /\ UNCHANGED lines

LinesNext == \E piece \in Pieces(ReadSize) : ReadPiece(piece)

LinesSpec == InitLines /\ [][LinesNext]_lineVars

-----------------------------------------------------------------------------
\* However the stream is cut into pieces, the client gets the lines the server
\* has sent, once, in order and unchanged.
ClientLinesExact == lines = LinesOf(stream)

=============================================================================
