---------------------------- MODULE LineInput ----------------------------
(***************************************************************************)
(* The input side of one connection: reads of any size are cut into lines, *)
(* the lines wait in the receive queue, and parse_client_queued hands them *)
(* to the parser, at once or on a later flood_recalc.  A connection that   *)
(* is not registered is read in raw mode, since the next bytes may be      *)
(* those of a compressed or encrypted server link, which start_io hands to *)
(* the servlink process unread.                                            *)
(*                                                                         *)
(* A byte is its position in the stream, or EOL for CR and LF, which the   *)
(* code never tells apart.  The flood counters are left out: since         *)
(* parse_client_queued sets checkflood to 0, they decide nothing.          *)
(***************************************************************************)
EXTENDS Naturals, Sequences, FiniteSets, SequencesExt

CONSTANTS
    BUF_DATA_SIZE,
    MaxBytes,       \* bound on the stream
    MaxRead,        \* bytes one read returns at most
    client_flood    \* lines a user may have queued

ASSUME InputAssumption ==
    /\ BUF_DATA_SIZE \in Nat \ {0, 1} /\ client_flood \in Nat
    /\ MaxBytes \in Nat /\ MaxRead \in Nat \ {0}

EOL == 0
MaxLine == BUF_DATA_SIZE - 1

\* What the byte of readBuf behind the data of a read may be: an earlier read or an
\* earlier line left it there.
Stale == {"EOL", "other"}

VARIABLES
    heard,      \* the bytes read so far
    status,     \* unknown, client, server; slink: handed over; dead
    recvq,      \* the lines of buf_recvq
    data,       \* what linebuf_parse has not copied yet
    pc,         \* tail, new: in linebuf_parse; check; parse: in parse_client_queued
    parsed,     \* the lines handed to client_dopacket
    handed,     \* the bytes start_io passed on
    torn        \* history: after how many bytes a stale byte has ended a line

vars == <<heard, status, recvq, data, pc, parsed, handed, torn>>

\* len counts the terminating bytes an overflow cleared, text does not.
Line == [text : Seq(0..MaxBytes), len : 0..MaxLine, terminated : BOOLEAN, raw : BOOLEAN]

TypeOK ==
    /\ heard \in Seq(0..MaxBytes) /\ Len(heard) <= MaxBytes
    /\ status \in {"unknown", "client", "server", "slink", "dead"}
    /\ recvq \in Seq(Line)
    /\ \A i \in DOMAIN recvq : recvq[i].terminated \/ i = Len(recvq)
    /\ data \in Seq(0..MaxBytes)
    /\ pc \in {"idle", "tail", "new", "check", "parse"}
    /\ parsed \in Seq(Seq(0..MaxBytes)) /\ handed \in Seq(0..MaxBytes)
    /\ torn \subseteq DOMAIN heard

Init ==
    /\ heard = <<>> /\ status = "unknown" /\ recvq = <<>> /\ data = <<>>
    /\ pc = "idle" /\ parsed = <<>> /\ handed = <<>> /\ torn = {}

---------------------------------------------------------------------------
(* Cutting (linebuf.c).                                                    *)

EmptyLine == [text |-> <<>>, len |-> 0, terminated |-> FALSE, raw |-> FALSE]

\* How far s goes without an EOL, and then with nothing but EOL.
TextLen(s) == Cardinality({j \in DOMAIN s : \A i \in 1..j : s[i] # EOL})
EolLen(s) == Cardinality({j \in DOMAIN s : \A i \in 1..j : s[i] = EOL})
From(s, k) == SubSeq(s, k + 1, Len(s))

\* linebuf_skip_crlf
linebuf_skip_crlf(s) == TextLen(s) + EolLen(From(s, TextLen(s)))

NoEol(s) == SelectSeq(s, LAMBDA b : b # EOL)

\* Mutant: a line that has ended is continued.
linebuf_copy_line_Append(l, s) ==
    LET kept == NoEol(SubSeq(s, 1, linebuf_skip_crlf(s)))
    IN  [line |-> [text |-> l.text \o kept, len |-> l.len + Len(kept),
                   terminated |-> s[linebuf_skip_crlf(s)] = EOL, raw |-> FALSE],
         used |-> linebuf_skip_crlf(s)]

\* linebuf_copy_line: up to the end of the line, without its EOL; what is over
\* the size of the buffer is dropped, and the line then ends here even when its
\* end has not been read.
linebuf_copy_line(l, s) ==
    LET n == linebuf_skip_crlf(s)
        room == MaxLine - l.len
        kept == NoEol(SubSeq(s, 1, n))
    IN  IF l.terminated THEN [line |-> [l EXCEPT !.raw = FALSE], used |-> 0]
        ELSE IF n > room
        THEN [line |-> [text |-> l.text \o NoEol(SubSeq(s, 1, room)), len |-> MaxLine,
                        terminated |-> TRUE, raw |-> FALSE], used |-> n]
        ELSE [line |-> [text |-> l.text \o kept, len |-> l.len + Len(kept),
                        terminated |-> s[n] = EOL, raw |-> FALSE], used |-> n]

\* Mutant: no room is kept for the final NUL.
linebuf_copy_raw_Full(l, s, stale) ==
    LET room == BUF_DATA_SIZE - l.len
        left == IF Len(s) < room THEN Len(s) ELSE room
        text == TextLen(SubSeq(s, 1, left))
        ends == (text < Len(s) /\ s[text + 1] = EOL) \/ text >= room
        n == IF ends THEN text + EolLen(SubSeq(s, text + 1, left)) ELSE text
    IN  IF l.len = BUF_DATA_SIZE \/ l.terminated THEN [line |-> l, used |-> 0]
        ELSE [line |-> [text |-> l.text \o SubSeq(s, 1, n), len |-> l.len + n,
                        terminated |-> ends, raw |-> TRUE], used |-> n]

\* Mutant: the EOL bytes are eaten.
linebuf_copy_raw_Eat(l, s, stale) ==
    LET room == MaxLine - l.len
        left == IF Len(s) < room THEN Len(s) ELSE room
        text == TextLen(SubSeq(s, 1, left))
        ends == (text < Len(s) /\ s[text + 1] = EOL) \/ text >= room
        n == IF ends THEN text + EolLen(SubSeq(s, text + 1, left)) ELSE text
    IN  IF l.len = BUF_DATA_SIZE \/ l.terminated THEN [line |-> l, used |-> 0]
        ELSE [line |-> [text |-> l.text \o SubSeq(s, 1, text), len |-> l.len + text,
                        terminated |-> ends, raw |-> TRUE], used |-> n]

\* linebuf_copy_raw: the EOL bytes stay in the line.  Whether the line ends here
\* is read from the byte where copying stopped, which may be behind the data.
linebuf_copy_raw(l, s, stale) ==
    LET room == MaxLine - l.len
        left == IF Len(s) < room THEN Len(s) ELSE room
        text == TextLen(SubSeq(s, 1, left))
        eol == IF text < Len(s) THEN s[text + 1] = EOL ELSE stale = "EOL"
        ends == eol \/ text >= room
        n == IF ends THEN text + EolLen(SubSeq(s, text + 1, left)) ELSE text
    IN  IF l.len = BUF_DATA_SIZE \/ l.terminated THEN [line |-> l, used |-> 0]
        ELSE [line |-> [text |-> l.text \o SubSeq(s, 1, n), len |-> l.len + n,
                        terminated |-> ends, raw |-> TRUE], used |-> n]

\* The mode read_packet asks for.
Binary == status = "unknown"

Copy(l, stale) == IF Binary THEN linebuf_copy_raw(l, data, stale) ELSE linebuf_copy_line(l, data)

\* The stale byte decides when a raw line takes all the data.
TornBy(l, stale) ==
    IF Binary /\ ~l.terminated /\ stale = "EOL" /\ TextLen(data) = Copy(l, stale).used
              /\ Copy(l, stale).used = Len(data)
    THEN torn \cup {Len(heard)} ELSE torn

\* What linebuf_get returns: lines that were read raw lose the EOL bytes at
\* their ends.
Trimmed(s) ==
    LET t == From(s, EolLen(s))
    IN  SubSeq(t, 1, Len(t) - EolLen(Reverse(t)))

Cleaned(l) == IF l.raw THEN Trimmed(l.text) ELSE l.text

\* The length it returns.
CleanedLen(l) == IF l.raw THEN Len(Cleaned(l)) ELSE l.len

---------------------------------------------------------------------------
(* read_packet and parse_client_queued (packet.c).                         *)

\* read_packet: some bytes arrive.
Read(s) ==
    /\ pc = "idle" /\ status \notin {"slink", "dead"}
    /\ Len(heard) + Len(s) <= MaxBytes
    /\ LET numbered == [j \in DOMAIN s |-> IF s[j] = EOL THEN EOL ELSE Len(heard) + j]
       IN  heard' = heard \o numbered /\ data' = numbered
    /\ pc' = IF recvq = <<>> THEN "new" ELSE "tail"
    /\ UNCHANGED <<status, recvq, parsed, handed, torn>>

\* The read fails or finds the end of the stream: error_exit_client.
ReadError ==
    /\ pc = "idle" /\ status \notin {"slink", "dead"}
    /\ status' = "dead" /\ recvq' = <<>>
    /\ UNCHANGED <<heard, data, pc, parsed, handed, torn>>

\* linebuf_parse: first the last line of the queue.
CopyTail(stale) ==
    LET c == Copy(Last(recvq), stale)
    IN  /\ pc = "tail"
        /\ recvq' = [recvq EXCEPT ![Len(recvq)] = c.line]
        /\ data' = From(data, c.used)
        /\ pc' = "new" /\ torn' = TornBy(Last(recvq), stale)
        /\ UNCHANGED <<heard, status, parsed, handed>>

\* ... then new lines.
CopyNew(stale) ==
    LET c == Copy(EmptyLine, stale)
    IN  /\ pc = "new" /\ data # <<>>
        /\ recvq' = Append(recvq, c.line)
        /\ data' = From(data, c.used)
        /\ torn' = TornBy(EmptyLine, stale)
        /\ UNCHANGED <<heard, status, pc, parsed, handed>>

\* Excess Flood, or on to the parser.
CheckFlood ==
    /\ pc = "new" /\ data = <<>>
    /\ IF status = "client" /\ Len(recvq) > client_flood
       THEN status' = "dead" /\ recvq' = <<>> /\ pc' = "idle"
       ELSE pc' = "parse" /\ UNCHANGED <<status, recvq>>
    /\ UNCHANGED <<heard, data, parsed, handed, torn>>

\* What a command can make of a connection.
Becomes(s) ==
    CASE s = "unknown" -> {"unknown", "client", "server", "slink", "dead"}
      [] s = "client" -> {"client", "dead"}
      [] s = "server" -> {"server", "dead"}
      [] s \in {"slink", "dead"} -> {}

\* Mutant: an empty line is not taken off the queue.
Get_KeepEmpty(s) ==
    LET l == Head(recvq)
    IN  /\ pc = "parse" /\ recvq # <<>> /\ l.terminated /\ CleanedLen(l) # 0
        /\ parsed' = Append(parsed, Cleaned(l))
        /\ status' = s
        /\ recvq' = IF s \in {"dead", "slink"} THEN <<>> ELSE Tail(recvq)
        /\ handed' = IF s = "slink" THEN FlattenSeq([i \in 1..(Len(recvq) - 1) |-> recvq[i + 1].text])
                     ELSE handed
        /\ UNCHANGED <<heard, data, pc, torn>>

\* One line goes to client_dopacket, which may exit the client (its input is
\* flushed), register it, or make it a link that start_io hands over with all
\* that is queued.  An empty line ends the loop, whatever is behind it.
Get(s) ==
    LET l == Head(recvq)
    IN  /\ pc = "parse" /\ recvq # <<>> /\ l.terminated
        /\ IF CleanedLen(l) = 0
           THEN /\ s = status /\ pc' = "idle" /\ recvq' = Tail(recvq)
                /\ UNCHANGED <<parsed, handed>>
           ELSE /\ parsed' = Append(parsed, Cleaned(l))
                /\ recvq' = IF s \in {"dead", "slink"} THEN <<>> ELSE Tail(recvq)
                /\ handed' = IF s = "slink"
                             THEN FlattenSeq([i \in 1..(Len(recvq) - 1) |-> recvq[i + 1].text])
                             ELSE handed
                /\ UNCHANGED pc
        /\ status' = s
        /\ UNCHANGED <<heard, data, torn>>

\* Nothing complete is left.
NoLine ==
    /\ pc = "parse" /\ (recvq # <<>> => ~Head(recvq).terminated)
    /\ pc' = "idle"
    /\ UNCHANGED <<heard, status, recvq, data, parsed, handed, torn>>

\* flood_recalc, once a second: parse_client_queued again.
flood_recalc ==
    /\ pc = "idle" /\ status \notin {"slink", "dead"}
    /\ pc' = "parse"
    /\ UNCHANGED <<heard, status, recvq, data, parsed, handed, torn>>

Inside ==
    \/ \E b \in Stale : CopyTail(b) \/ CopyNew(b)
    \/ CheckFlood
    \/ \E s \in Becomes(status) : Get(s)
    \/ NoLine

Reads == UNION {[1..n -> {EOL, 1}] : n \in 1..MaxRead}

\* The connection is gone, or lives in another process.
Ended == pc = "idle" /\ status \in {"slink", "dead"} /\ UNCHANGED vars

Next == Inside \/ flood_recalc \/ (\E s \in Reads : Read(s)) \/ ReadError \/ Ended

\* Handlers run to their end, and comm_checktimeouts calls flood_recalc again
\* and again.
Spec == Init /\ [][Next]_vars /\ WF_vars(Inside) /\ WF_vars(flood_recalc)

---------------------------------------------------------------------------
(* Properties.                                                             *)

\* The stream cut at its EOL bytes, without the empty pieces: the reference.
Starts(s) == {i \in DOMAIN s : s[i] # EOL /\ (i = 1 \/ s[i - 1] = EOL)}
Pieces(s) ==
    LET first == SetToSortSeq(Starts(s), <)
    IN  [k \in 1..Len(first) |-> SubSeq(From(s, first[k] - 1), 1, TextLen(From(s, first[k] - 1)))]

\* The pieces that are complete.
WholeLines(s) ==
    LET p == Pieces(s)
    IN  IF s = <<>> \/ s[Len(s)] = EOL THEN p ELSE SubSeq(p, 1, Len(p) - 1)

\* The stream as linebuf_copy_raw sees it: a stale EOL behind the data of a read stands
\* for one in the stream.
Seen == FlattenSeq([i \in DOMAIN heard |-> IF i \in torn THEN <<heard[i], EOL>>
                                           ELSE <<heard[i]>>])

\* No line so far is too long for the buffer.
Short == \A p \in ToSet(Pieces(Seen)) : Len(p) < MaxLine

\* parse() returns at once from an empty line.  A line read raw that is still
\* queued when the connection registers can reach it with its EOL bytes: the next
\* read clears its raw flag.
Commands == SelectSeq([i \in DOMAIN parsed |-> Trimmed(parsed[i])], LAMBDA l : l # <<>>)

\* The parser gets the lines of the stream, whole and in order, however the stream is
\* cut into reads and whatever mode it was read in, but for one case: a line read raw
\* falls into two where a read ended inside it and readBuf had a CR or LF behind the
\* data.  Nothing else breaks, joins, drops or repeats a line.
LinesOfTheStream == Short => IsPrefix(Commands, WholeLines(Seen))

\* What the servlink process gets is what followed, to the byte: together with
\* the lines parsed it is the stream (but for the EOL bytes between them).
HandsOverRest ==
    status = "slink" =>
      /\ IsSuffix(handed, heard)
      /\ NoEol(FlattenSeq(parsed)) = NoEol(SubSeq(heard, 1, Len(heard) - Len(handed)))

\* A line that has been read, or the part of it before a stale EOL, is parsed, however many empty lines precede it,
\* unless the connection ends.
LinesAreParsed ==
    \A n \in 1..MaxBytes :
      (Short /\ Len(WholeLines(Seen)) >= n)
        ~> (status \in {"slink", "dead"} \/ Len(Commands) >= n \/ ~Short)
=============================================================================
