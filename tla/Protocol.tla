------------------------------ MODULE Protocol ------------------------------
(***************************************************************************)
(* The text of the protocol between prove_client.ml and the prover server: *)
(* the lines that the client formats and parse_request (request.c) reads,  *)
(* and the answers that send_msg_to_client formats and read_answer reads.  *)
(*                                                                         *)
(* A line is a sequence of characters.  The command words are cut down to  *)
(* letters that keep what matters: "run" is a prefix of "runstdin" and no  *)
(* other word is a prefix of another.                                      *)
(***************************************************************************)
EXTENDS Integers, Sequences, FiniteSetsExt

CONSTANTS
  LineFields,   \* the fields of lines that any program may send
  MaxFields,    \* bound: fields in such a line
  Names,        \* commands, arguments and files of the client: no semicolon
  OutFiles,     \* files that answers name
  Numbers,      \* ids, memory limits, exit codes, numbers of provers
  TimeLimits,   \* time limits of proof attempts, in tenths of a second
  Times         \* CPU times in microseconds

SEMI == ";"
NUL == "NUL"
run == <<"r">>
runstdin == <<"r", "s">>
parallel_word == <<"p">>
interrupt == <<"i">>

VARIABLES
  parallel,  \* the global of the server
  req,       \* what parse_request has returned, NULL if nothing
  asked,     \* what the client meant by the line, NULL if another program sent it
  line,      \* the last line or answer
  told       \* what the client has understood of an answer

protocolVars == <<parallel, req, asked, line, told>>

NoRequest == [req_type |-> "NULL"]

ProtocolInit ==
    /\ parallel = 1
    /\ req = NoRequest /\ asked = NoRequest /\ told = NoRequest
    /\ line = <<>>

-----------------------------------------------------------------------------
(* Strings *)

Digits == <<"0", "1", "2", "3", "4", "5", "6", "7", "8", "9">>
Digit(c) == CHOOSE d \in 0 .. 9 : Digits[d + 1] = c
IsDigit(c) == \E d \in 1 .. 10 : Digits[d] = c

\* string_of_int, "%d"
Decimal(n) ==
    LET D[k \in 0 .. n] == (IF k < 10 THEN <<>> ELSE D[k \div 10]) \o <<Digits[(k % 10) + 1]>>
    IN D[n]

\* the number that the digits of s from position a to position b denote
Number(s, a, b) ==
    LET V[k \in a - 1 .. b] == IF k < a THEN 0 ELSE 10 * V[k - 1] + Digit(s[k]) IN V[b]

\* atoi reads the digits that s begins with
atoi(s) == Number(s, 1, Min({k \in DOMAIN s : ~IsDigit(s[k])} \cup {Len(s) + 1}) - 1)

Second == 10           \* in tenths

\* string_of_float of t tenths: a point, and the digit after it unless it is 0
FloatText(t) == Decimal(t \div Second) \o <<".">> \o (IF t % Second = 0 THEN <<>> ELSE Decimal(t % Second))

CharAt(s, k) == IF k <= Len(s) THEN s[k] ELSE NUL

\* mutant: the semicolon is not counted, so that a prefix is enough
MutStrncmp(s, word, n) == \A k \in 1 .. n - 1 : CharAt(s, k) = CharAt(word, k)

\* strncmp(s, word, n) == 0
Strncmp(s, word, n) == \A k \in 1 .. n : CharAt(s, k) = CharAt(word, k)

Join(fields) ==
    LET J[k \in 1 .. Len(fields)] == IF k = 1 THEN fields[1] ELSE J[k - 1] \o <<SEMI>> \o fields[k]
    IN J[Len(fields)]

\* Strings.split ';', and what a line means to a reader of README.server
Split(s) ==
    LET cuts == {0, Len(s) + 1} \cup {k \in DOMAIN s : s[k] = SEMI}
        next(k) == Min({j \in cuts : j > k})
        F[k \in cuts] == IF k = Len(s) + 1 THEN <<>> ELSE <<SubSeq(s, k + 1, next(k) - 1)>> \o F[next(k)]
    IN F[0]

-----------------------------------------------------------------------------
(* parse_request *)

count_semicolons(buf) == Cardinality({k \in DOMAIN buf : buf[k] = SEMI})

\* The field that starts at index begin, and the index after its semicolon or 0
\* when there is none.
copy_up_to_semicolon(buf, begin) ==
    LET i == Min({k \in begin .. Len(buf) - 1 : buf[k + 1] = SEMI} \cup {Len(buf)})
    IN [result |-> SubSeq(buf, begin + 1, i), pos |-> IF i = Len(buf) THEN 0 ELSE i + 1]

\* The results of copy_up_to_semicolon called again and again from the position
\* that the last call has returned.
FieldsRead(buf) ==
    LET C[k \in 1 .. count_semicolons(buf) + 1] ==
          copy_up_to_semicolon(buf, IF k = 1 THEN 0 ELSE C[k - 1].pos)
    IN C


RunRequest(tmp, usestdin) ==
    [req_type |-> "REQ_RUN", usestdin |-> usestdin, id |-> tmp[2].result,
     timeout |-> atoi(tmp[3].result), memlimit |-> atoi(tmp[4].result), cmd |-> tmp[5].result,
     args |-> [k \in 1 .. Len(tmp) - 5 |-> tmp[k + 5].result]]

parse_request(buf) ==
    LET semic == count_semicolons(buf)
        tmp == FieldsRead(buf)
        Is(word) == Strncmp(tmp[1].result, word, tmp[1].pos)
        keep == [req |-> NoRequest, parallel |-> parallel]
    IN CASE semic = 1 /\ Is(parallel_word) ->
              IF atoi(tmp[2].result) >= 1 THEN [keep EXCEPT !.parallel = atoi(tmp[2].result)] ELSE keep
         [] semic = 1 /\ ~Is(parallel_word) /\ Is(interrupt) ->
              [keep EXCEPT !.req = [req_type |-> "REQ_INTERRUPT", id |-> tmp[2].result]]
         [] semic >= 4 /\ Is(run) -> [keep EXCEPT !.req = RunRequest(tmp, FALSE)]
         [] semic >= 4 /\ ~Is(run) /\ Is(runstdin) -> [keep EXCEPT !.req = RunRequest(tmp, TRUE)]
         [] OTHER -> keep

Receive(buf) ==
    /\ line' = buf
    /\ req' = parse_request(buf).req
    /\ parallel' = parse_request(buf).parallel

\* Any program may send a line.
AnyLine(fields) ==
    /\ Receive(Join(fields))
    /\ asked' = NoRequest
    /\ UNCHANGED told

\* The time given to the process of a prover that may also stop by itself, at a
\* limit of steps or of time.
adapt_limits(limit_time, limit_steps, on_timelimit) ==
    CASE limit_time = 0 -> limit_time
      [] limit_time # 0 /\ limit_steps -> 2 * limit_time + Second
      [] limit_time # 0 /\ ~limit_steps /\ on_timelimit -> 4 * limit_time + Second
      [] OTHER -> limit_time

\* The file for stdin comes after the arguments.
send_request(id, timelimit, memlimit, cmd, use_stdin) ==
    /\ Receive(Join(<<IF use_stdin = <<>> THEN run ELSE runstdin, Decimal(id), FloatText(timelimit),
                      Decimal(memlimit)>> \o cmd \o use_stdin))
    /\ asked' = [req_type |-> "REQ_RUN", usestdin |-> use_stdin # <<>>, id |-> Decimal(id),
                 timeout |-> timelimit, memlimit |-> memlimit, cmd |-> Head(cmd),
                 args |-> Tail(cmd) \o use_stdin]
    /\ UNCHANGED told

send_interrupt(id) ==
    /\ Receive(Join(<<interrupt, Decimal(id)>>))
    /\ asked' = [req_type |-> "REQ_INTERRUPT", id |-> Decimal(id)]
    /\ UNCHANGED told

\* set_max_running_provers raises an exception below 1
set_max_running_provers(x) ==
    /\ x >= 1
    /\ Receive(Join(<<parallel_word, Decimal(x)>>))
    /\ asked' = [req_type |-> "parallel", arg |-> x]
    /\ UNCHANGED told

-----------------------------------------------------------------------------
(* Answers *)

\* "%.6f"
Fixed6(t) ==
    Decimal(t \div 1000000) \o <<".">>
      \o [k \in 1 .. 6 |-> Digits[((t \div 10^(6 - k)) % 10) + 1]]

\* float_of_string of such a text, in microseconds
Micros(s) == LET p == Len(s) - 6 IN 1000000 * Number(s, 1, p - 1) + Number(s, p + 1, Len(s))

Finished(id, exitcode, cpu_time, timeout, outfile) ==
    [req_type |-> "F", id |-> id, exit_code |-> exitcode, time |-> cpu_time, timeout |-> timeout,
     out_file |-> outfile]

Started(id) == [req_type |-> "S", id |-> id]

\* mutant: the file name is the field after the timeout
MutRestOfAnswer(fields) == fields[6]

\* Strings.join ";" rest: the file name may contain semicolons
RestOfAnswer(fields) == Join(SubSeq(fields, 6, Len(fields)))

read_answer(s) ==
    LET f == Split(s) IN
    CASE f[1] = <<"F">> /\ Len(f) >= 6 ->
           Finished(atoi(f[2]), atoi(f[3]), Micros(f[4]), f[5] = <<"1">>, RestOfAnswer(f))
      [] f[1] = <<"S">> /\ Len(f) = 2 -> Started(atoi(f[2]))
      [] OTHER -> [req_type |-> "InvalidAnswer"]

\* the length of msgbuf
RoomForAnswer(id, outfile) == Len(id) + 3 + 27 + Len(outfile) + 1

\* The newline counts in msgbuf; the client's reader takes it off.
send_msg_to_client(id, exitcode, cpu_time, timeout, outfile) ==
    LET text == Join(<< <<"F">>, Decimal(id), Decimal(exitcode), Fixed6(cpu_time),
                        IF timeout THEN <<"1">> ELSE <<"0">>, outfile>>)
    IN /\ line' = text
       /\ told' = IF Len(text) + 1 >= RoomForAnswer(Decimal(id), outfile)
                  THEN [req_type |-> "shutdown"] ELSE read_answer(text)
       /\ asked' = Finished(id, exitcode, cpu_time, timeout, outfile)
       /\ UNCHANGED <<parallel, req>>

send_started_msg_to_client(id) ==
    LET text == Join(<< <<"S">>, Decimal(id)>>) IN
    /\ line' = text
    /\ told' = read_answer(text)
    /\ asked' = Started(id)
    /\ UNCHANGED <<parallel, req>>

\* The reader goes on to the next line.
NextLine ==
    /\ line # <<>>
    /\ line' = <<>>
    /\ req' = NoRequest /\ asked' = NoRequest /\ told' = NoRequest
    /\ UNCHANGED parallel

Request ==
    \/ \E n \in 1 .. MaxFields : \E fields \in [1 .. n -> LineFields] : AnyLine(fields)
    \/ \E id, memlimit \in Numbers, limit_time \in TimeLimits, limit_steps, on_timelimit \in BOOLEAN,
          c \in Names, arg, stdin \in {<<>>} \cup {<<a>> : a \in Names} :
          send_request(id, adapt_limits(limit_time, limit_steps, on_timelimit), memlimit, <<c>> \o arg, stdin)
    \/ \E id \in Numbers : send_interrupt(id)
    \/ \E x \in Numbers : set_max_running_provers(x)

Answer ==
    \/ \E id, exitcode \in Numbers, t \in Times, timeout \in BOOLEAN, f \in OutFiles :
          send_msg_to_client(id, exitcode, t, timeout, f)
    \/ \E id \in Numbers : send_started_msg_to_client(id)

ProtocolNext == NextLine \/ (line = <<>> /\ (Request \/ Answer))

ProtocolSpec == ProtocolInit /\ [][ProtocolNext]_protocolVars

-----------------------------------------------------------------------------
(* Properties *)


\* parse_request takes a line for a request only if its first field is exactly a
\* command word and the line has two fields (parallel, interrupt) or at least
\* five (run, runstdin), and it takes nothing else from the line; any other line
\* has no effect at all.  For runstdin this is one field less than README.server
\* lists: the file for stdin may be missing, and args is then empty.
OnlyCommands ==
    [][asked' = NoRequest =>
         LET f == Split(line') IN
         /\ req'.req_type = "REQ_RUN" <=> Len(f) >= 5 /\ f[1] \in {run, runstdin}
         /\ req'.req_type = "REQ_INTERRUPT" <=> Len(f) = 2 /\ f[1] = interrupt
         /\ req'.req_type = "REQ_RUN" => SubSeq(f, 5, Len(f)) = <<req'.cmd>> \o req'.args /\ req'.id = f[2]
         /\ parallel' # parallel => Len(f) = 2 /\ f[1] = parallel_word /\ parallel' = atoi(f[2])
         /\ parallel' >= 1]_protocolVars

\* The client understands what the server answers, also when the name of the
\* output file contains semicolons; no answer is too long for the buffer that
\* it is formatted into, which would end the server.
AnswersArrive == [][asked'.req_type \in {"F", "S"} => told' = asked']_protocolVars
=============================================================================
