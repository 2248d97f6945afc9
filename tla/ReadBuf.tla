------------------------------- MODULE ReadBuf -------------------------------
(***************************************************************************)
(* src/server/readbuf.c and its use by read_on_client and handle_msg of    *)
(* server-unix.c: the bytes of a client arrive in pieces of at most        *)
(* READ_ONCE bytes, are gathered in a growing array, and the complete      *)
(* lines are handed to parse_request.  What a line then does is in         *)
(* ServerUnix.                                                             *)
(***************************************************************************)
EXTENDS Lines

CONSTANTS
  Unread,     \* contents of a cell never written
  READ_ONCE,  \* the largest read, and the initial capacity
  Copies      \* the orders in which memcpy may copy: "up", "down"

ASSUME ReadOnceAssumption == READ_ONCE \in Nat \ {0}
ASSUME UnreadAssumption == Unread \notin Letters \cup {NL}
ASSUME CopiesAssumption == Copies \subseteq {"up", "down"} /\ Copies # {}

VARIABLES
  rdata,     \* b->data, cells 0 .. rcapacity - 1
  rlen,      \* b->len
  rcapacity, \* b->capacity
  handled    \* the lines given to parse_request so far

readVars == <<rdata, rlen, rcapacity, stream, handled>>

InitReadbuf ==
  /\ rdata = [i \in 0 .. READ_ONCE - 1 |-> Unread]
  /\ rlen = 0
  /\ rcapacity = READ_ONCE
  /\ stream = <<>>
  /\ handled = <<>>

\* prepare_read: the capacity once there is room for READ_ONCE bytes
PreparedCapacity ==
  IF rlen + READ_ONCE > rcapacity THEN (rcapacity + READ_ONCE) * 2 ELSE rcapacity

\* read puts the chunk behind the len bytes already there; realloc keeps the
\* old cells
DataAfterRead(chunk) ==
  [i \in 0 .. PreparedCapacity - 1 |->
     IF i \in rlen .. rlen + Len(chunk) - 1 THEN chunk[i - rlen + 1]
     ELSE IF i < rcapacity THEN rdata[i]
     ELSE Unread]

\* the bytes of d from index a to index b
Piece(d, a, b) == [k \in 1 .. b - a + 1 |-> d[a + k - 1]]

\* mutant: the line starts where the scan of the last read stopped
MutScan(d, max) ==
  LET S[cur \in 0 .. max] ==
        IF cur = 0 THEN [old |-> 0, lines |-> <<>>]
        ELSE IF d[cur - 1] = NL
        THEN [old |-> cur,
              lines |-> Append(S[cur - 1].lines,
                               Piece(d, IF S[cur - 1].old = 0 THEN rlen ELSE S[cur - 1].old,
                                     cur - 2))]
        ELSE S[cur - 1]
  IN S[max]

\* the loop of handle_msg on the first max bytes of d: the lines found, and
\* where the first incomplete line starts
Scan(d, max) ==
  LET S[cur \in 0 .. max] ==
        IF cur = 0 THEN [old |-> 0, lines |-> <<>>]
        ELSE IF d[cur - 1] = NL
        THEN [old |-> cur, lines |-> Append(S[cur - 1].lines, Piece(d, S[cur - 1].old, cur - 2))]
        ELSE S[cur - 1]
  IN S[max]

\* memcpy(d, d + size, n).  The two areas overlap when size < n; the language
\* then leaves open what happens, and the result depends on the order in which
\* the bytes are copied.
Memcpy(d, size, n, order) ==
  LET Down[i \in 0 .. n - 1] == IF i + size < n THEN Down[i + size] ELSE d[i + size] IN
  [i \in DOMAIN d |->
     IF i >= n THEN d[i]
     ELSE IF order = "up" THEN d[i + size]
     ELSE Down[i]]

HaveTaken(d, max, size) ==
  /\ \E order \in Copies : rdata' = Memcpy(d, size, max - size, order)
  /\ rlen' = max - size

\* read_on_client when read returns a chunk, and handle_msg
ReadOnClient(chunk) ==
  LET d == DataAfterRead(chunk)
      max == rlen + Len(chunk)
      scan == Scan(d, max)
  IN /\ Arrives(chunk)
     /\ rcapacity' = PreparedCapacity
     /\ handled' = handled \o scan.lines
     /\ IF scan.old > 0 THEN HaveTaken(d, max, scan.old) ELSE rdata' = d /\ rlen' = max

ReadNext == \E chunk \in Pieces(READ_ONCE) : ReadOnClient(chunk)

ReadSpec == InitReadbuf /\ [][ReadNext]_readVars

-----------------------------------------------------------------------------
\* However the stream is cut into pieces by read, the server handles the lines
\* that the client has sent: each complete line once, in order and unchanged.
LinesExact == handled = LinesOf(stream)

\* The buffer holds exactly what follows the last newline.
\* readbuf.h says of have_taken that it is to "delete the first <size> byte of
\* the buffer": the others are kept.
BufferIsRest == Piece(rdata, 0, rlen - 1) = RestOf(stream)

=============================================================================
