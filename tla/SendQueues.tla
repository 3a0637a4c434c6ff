---------------------------- MODULE SendQueues ----------------------------
(***************************************************************************)
(* The output side of one server: a line is made once and shared, with a   *)
(* reference count, by the send queues of all the links it goes to; each   *)
(* queue is written to its socket as far as the socket takes it and the    *)
(* rest waits for a write event; a queue over its limit, or an error,      *)
(* exits the link in the middle of whatever was being sent, and its exit   *)
(* sends lines of its own to the other links.                              *)
(*                                                                         *)
(* The server has one thread: calls is its stack, the innermost call       *)
(* first, and nothing else happens until it is empty.  Each write is one   *)
(* step, since the socket decides how much it takes.  Notices to local     *)
(* operators are left out; they are more lines of the same kind.           *)
(***************************************************************************)
EXTENDS Naturals, Sequences, FiniteSets, SequencesExt

CONSTANTS
    Links,          \* the linked servers
    End,            \* the NULL at the end of a list
    LineLens,       \* lengths of the lines commands send, in bytes
    NoteLen,        \* length of the lines exit_client sends
    SendqLimit,     \* get_sendq: a queue longer than this gets no more lines
    MaxAsked,       \* bound on the lines sent by commands
    MaxDrops        \* bound on the links that go for reasons from outside

ASSUME SendAssumption ==
    /\ IsFiniteSet(Links) /\ End \notin Links
    /\ LineLens \subseteq Nat \ {0} /\ NoteLen \in Nat \ {0}
    /\ SendqLimit \in Nat /\ MaxAsked \in Nat /\ MaxDrops \in Nat

VARIABLES
    line,       \* line[i]: the i-th buf_line made: len, refcount, flushing
    serv_list,  \* the walk order
    up,         \* the links whose descriptor is open
    dead,       \* IsDead
    sendq,      \* sendq[l]: buf_sendq.list, as numbers of lines
    qlen,       \* buf_sendq.len
    writeofs,   \* buf_sendq.writeofs
    wants,      \* the links with a write handler registered
    got,        \* got[l]: the bytes the peer of l has received, <<line, byte>>
    calls,      \* the calls in progress
    asked,      \* lines sent by commands so far
    drops       \* links gone for outside reasons so far

Lens == LineLens \cup {NoteLen}

vars == <<line, serv_list, up, dead, sendq, qlen, writeofs, wants, got, calls, asked, drops>>
queues == <<sendq, qlen, writeofs>>
conns == <<serv_list, up, dead, wants>>

\* A sendto_server loop at the node of link at; the same for the loop of
\* remove_dependents; one sendto_one; one send_queued_write (ready when the poll
\* said so); one exit_client after its flush.
Call ==
    [op : {"walk"}, line : Nat, at : Links \cup {End}, to : SUBSET Links, sent : BOOLEAN]
      \cup [op : {"quits"}, at : Links \cup {End}, sent : BOOLEAN]
      \cup [op : {"one"}, line : Nat, to : Links, sent : BOOLEAN]
      \cup [op : {"flush"}, to : Links, ready : BOOLEAN]
      \cup [op : {"exit"}, of : Links, sent : BOOLEAN]

TypeOK ==
    /\ line \in Seq([len : Lens, refcount : Nat, flushing : BOOLEAN])
    /\ serv_list \in Seq(Links) /\ IsInjective(serv_list)
    /\ up \subseteq Links /\ dead \subseteq Links
    /\ wants \subseteq up
    /\ sendq \in [Links -> Seq(1..Len(line))]
    /\ qlen \in [Links -> Nat] /\ writeofs \in [Links -> Nat]
    /\ got \in [Links -> Seq((1..Len(line)) \X Nat)]
    /\ calls \in Seq(Call)
    /\ asked \in 0..MaxAsked /\ drops \in 0..MaxDrops

Init ==
    /\ line = <<>>
    /\ serv_list = SetToSeq(Links) /\ up = Links /\ dead = {}
    /\ sendq = [l \in Links |-> <<>>]
    /\ qlen = [l \in Links |-> 0] /\ writeofs = [l \in Links |-> 0]
    /\ wants = {} /\ got = [l \in Links |-> <<>>]
    /\ calls = <<>> /\ asked = 0 /\ drops = 0

---------------------------------------------------------------------------
(* Lines and queues (linebuf.c).                                           *)

\* linebuf_new_line, in the buf_head of the function that sends it.
linebuf_new_line(n) == Append(line, [len |-> n, refcount |-> 1, flushing |-> FALSE])
NewLine == Len(line) + 1

\* One list less holds line i; at 0 it is freed.
Unref(ln, i) == [ln EXCEPT ![i].refcount = @ - 1]

\* The bytes of line i, and of the lines of a queue one after the other; the
\* length of a queue is the number of the latter.
Bytes(ln, i) == [j \in 1..ln[i].len |-> <<i, j>>]
Stream(ln, q) ==
    LET upto[k \in 0..Len(q)] ==
          IF k = 0 THEN <<>> ELSE upto[k - 1] \o Bytes(ln, q[k])
    IN  upto[Len(q)]

\* How often line i is on a queue.
Occurrences(i, q) == Cardinality({k \in DOMAIN q : q[k] = i})

\* Mutant: the lines of a queue that is dropped keep their reference.
linebuf_donebuf_NoUnref(l) ==
    /\ UNCHANGED line
    /\ sendq' = [sendq EXCEPT ![l] = <<>>]
    /\ qlen' = [qlen EXCEPT ![l] = @ - Len(Stream(line, sendq[l]))]

\* linebuf_donebuf: each line of the queue is let go; writeofs stays as it is.
linebuf_donebuf(l) ==
    /\ line' = [i \in DOMAIN line |->
                  [line[i] EXCEPT !.refcount = @ - Occurrences(i, sendq[l])]]
    /\ sendq' = [sendq EXCEPT ![l] = <<>>]
    /\ qlen' = [qlen EXCEPT ![l] = @ - Len(Stream(line, sendq[l]))]

\* Mutant: the length of the queue is not updated.
linebuf_attach_NoLen(l, i) ==
    /\ line' = [line EXCEPT ![i].refcount = @ + 1]
    /\ sendq' = [sendq EXCEPT ![l] = Append(@, i)]
    /\ UNCHANGED <<qlen, writeofs>>

\* linebuf_attach: the queue shares the line.
linebuf_attach(l, i) ==
    /\ line' = [line EXCEPT ![i].refcount = @ + 1]
    /\ sendq' = [sendq EXCEPT ![l] = Append(@, i)]
    /\ qlen' = [qlen EXCEPT ![l] = @ + line[i].len]
    /\ UNCHANGED writeofs

\* The write offset linebuf_flush starts from.  The flushing flag is in the
\* shared line, the offset in the queue.
WriteFrom(l) == IF line[Head(sendq[l])].flushing THEN writeofs[l] ELSE 0

\* Mutant: the offset survives the line it belongs to.
AfterWrite_KeepOffset(l, n) ==
    LET i == Head(sendq[l])
        o == WriteFrom(l) + n
        flushed == [line EXCEPT ![i].flushing = TRUE]
    IN  /\ writeofs' = [writeofs EXCEPT ![l] = o]
        /\ IF o = line[i].len
           THEN /\ line' = Unref(flushed, i)
                /\ sendq' = [sendq EXCEPT ![l] = Tail(@)]
                /\ qlen' = [qlen EXCEPT ![l] = @ - line[i].len]
           ELSE line' = flushed /\ UNCHANGED <<sendq, qlen>>

\* linebuf_flush once write has returned n > 0: the line goes when all of it has
\* been written (linebuf_done_line).
AfterWrite(l, n) ==
    LET i == Head(sendq[l])
        o == WriteFrom(l) + n
        flushed == [line EXCEPT ![i].flushing = TRUE]
    IN  IF o = line[i].len
        THEN /\ writeofs' = [writeofs EXCEPT ![l] = 0]
             /\ line' = Unref(flushed, i)
             /\ sendq' = [sendq EXCEPT ![l] = Tail(@)]
             /\ qlen' = [qlen EXCEPT ![l] = @ - line[i].len]
        ELSE /\ writeofs' = [writeofs EXCEPT ![l] = o]
             /\ line' = flushed
             /\ UNCHANGED <<sendq, qlen>>

---------------------------------------------------------------------------
(* Sending (send.c).                                                       *)

Flush(l, r) == [op |-> "flush", to |-> l, ready |-> r]
One(i, l) == [op |-> "one", line |-> i, to |-> l, sent |-> FALSE]
Exit(l) == [op |-> "exit", of |-> l, sent |-> FALSE]

\* dead_link: what is queued is dropped first, so that the flush in exit_client
\* has nothing to do.
dead_link(l, below) ==
    IF l \in dead
    THEN calls' = below /\ UNCHANGED <<line, queues, dead>>
    ELSE /\ linebuf_donebuf(l) /\ UNCHANGED writeofs
         /\ dead' = dead \cup {l}
         /\ calls' = <<Exit(l)>> \o below

\* _send_linebuf: refuse, give up the link, or attach and try to write.
_send_linebuf(l, i, below) ==
    \/ /\ l \notin up \/ l \in dead
       /\ calls' = below
       /\ UNCHANGED <<line, queues, dead>>
    \/ /\ l \in up \ dead /\ qlen[l] > SendqLimit
       /\ dead_link(l, below)
    \/ /\ l \in up \ dead /\ qlen[l] <= SendqLimit
       /\ linebuf_attach(l, i)
       /\ calls' = <<Flush(l, FALSE)>> \o below
       /\ UNCHANGED dead

First == IF serv_list = <<>> THEN End ELSE serv_list[1]

\* ptr->next.  The node of a link that has gone meanwhile was freed, after
\* dlinkDelete had cleared its next; so the loop ends there.  (The allocator may
\* have given the node away again: what it then holds is a client without a
\* descriptor or, until the next line, the end of a send queue.)
NextNode(l) ==
    IF l \notin ToSet(serv_list) \/ l = Last(serv_list) THEN End
    ELSE serv_list[(CHOOSE j \in DOMAIN serv_list : serv_list[j] = l) + 1]

Top == Head(calls)
Below == Tail(calls)
Running(o) == calls # <<>> /\ Top.op = o

\* sendto_one, called by a command.
sendto_one(l, n) ==
    /\ calls = <<>> /\ asked < MaxAsked /\ l \in ToSet(serv_list)
    /\ line' = linebuf_new_line(n)
    /\ calls' = <<One(NewLine, l)>>
    /\ asked' = asked + 1
    /\ UNCHANGED <<queues, conns, got, drops>>

\* sendto_server, called by a command; to are the links that one and the
\* capabilities leave.
sendto_server(to, n) ==
    /\ calls = <<>> /\ asked < MaxAsked /\ to \subseteq ToSet(serv_list) /\ to # {}
    /\ line' = linebuf_new_line(n)
    /\ calls' = <<[op |-> "walk", line |-> NewLine, at |-> First, to |-> to, sent |-> FALSE]>>
    /\ asked' = asked + 1
    /\ UNCHANGED <<queues, conns, got, drops>>

\* One iteration of the loop over serv_list.
Walk ==
    /\ Running("walk")
    /\ \/ /\ ~Top.sent /\ Top.at \in Top.to
          /\ _send_linebuf(Top.at, Top.line, <<[Top EXCEPT !.sent = TRUE]>> \o Below)
       \/ /\ Top.at # End /\ (Top.sent \/ Top.at \notin Top.to)
          /\ calls' = <<[Top EXCEPT !.at = NextNode(Top.at), !.sent = FALSE]>> \o Below
          /\ UNCHANGED <<line, queues, dead>>
       \/ /\ Top.at = End
          /\ line' = Unref(line, Top.line)
          /\ calls' = Below
          /\ UNCHANGED <<queues, dead>>
    /\ UNCHANGED <<serv_list, up, wants, got, asked, drops>>

\* The body of sendto_one.
SendOne ==
    /\ Running("one")
    /\ \/ /\ ~Top.sent
          /\ _send_linebuf(Top.to, Top.line, <<[Top EXCEPT !.sent = TRUE]>> \o Below)
       \/ /\ Top.sent
          /\ line' = Unref(line, Top.line)
          /\ calls' = Below
          /\ UNCHANGED <<queues, dead>>
    /\ UNCHANGED <<serv_list, up, wants, got, asked, drops>>

\* remove_dependents: each link that is left gets a SQUIT of its own.
Quits ==
    /\ Running("quits")
    /\ \/ /\ Top.at # End /\ ~Top.sent
          /\ line' = linebuf_new_line(NoteLen)
          /\ calls' = <<One(NewLine, Top.at), [Top EXCEPT !.sent = TRUE]>> \o Below
       \/ /\ Top.at # End /\ Top.sent
          /\ calls' = <<[Top EXCEPT !.at = NextNode(Top.at), !.sent = FALSE]>> \o Below
          /\ UNCHANGED line
       \/ /\ Top.at = End
          /\ calls' = Below
          /\ UNCHANGED line
    /\ UNCHANGED <<queues, conns, got, asked, drops>>

---------------------------------------------------------------------------
(* send_queued_write.                                                      *)

\* The socket takes n bytes; the loop goes on.
Write(n) ==
    LET l == Top.to  i == Head(sendq[l])  o == WriteFrom(l)
    IN  /\ Running("flush") /\ sendq[l] # <<>>
        /\ n <= line[i].len - o
        /\ got' = [got EXCEPT ![l] = @ \o [j \in 1..n |-> <<i, o + j>>]]
        /\ AfterWrite(l, n)
        /\ calls' = <<Flush(l, FALSE)>> \o Below
        /\ UNCHANGED <<conns, asked, drops>>

\* Nothing left to write.
Written ==
    /\ Running("flush") /\ sendq[Top.to] = <<>>
    /\ calls' = Below
    /\ UNCHANGED <<line, queues, conns, got, asked, drops>>

\* Mutant: the rest of the queue is not rescheduled.
WouldBlock_Forget ==
    /\ Running("flush") /\ sendq[Top.to] # <<>> /\ ~Top.ready
    /\ line' = [line EXCEPT ![Head(sendq[Top.to])].flushing = TRUE]
    /\ writeofs' = [writeofs EXCEPT ![Top.to] = WriteFrom(Top.to)]
    /\ calls' = Below
    /\ UNCHANGED <<sendq, qlen, conns, got, asked, drops>>

\* The socket takes no more: the rest waits for a write event.
WouldBlock ==
    /\ Running("flush") /\ sendq[Top.to] # <<>> /\ ~Top.ready
    /\ line' = [line EXCEPT ![Head(sendq[Top.to])].flushing = TRUE]
    /\ writeofs' = [writeofs EXCEPT ![Top.to] = WriteFrom(Top.to)]
    /\ wants' = IF qlen[Top.to] # 0 THEN wants \cup {Top.to} ELSE wants
    /\ calls' = Below
    /\ UNCHANGED <<sendq, qlen, serv_list, up, dead, got, asked, drops>>

\* write fails, or returns 0.
WriteError ==
    /\ Running("flush") /\ sendq[Top.to] # <<>>
    /\ dead_link(Top.to, Below)
    /\ UNCHANGED <<serv_list, up, wants, got, asked, drops>>

\* comm_select calls the handler, which it deregisters first.
WriteReady(l) ==
    /\ calls = <<>> /\ l \in wants
    /\ wants' = wants \ {l}
    /\ calls' = <<Flush(l, TRUE)>>
    /\ UNCHANGED <<line, queues, serv_list, up, dead, got, asked, drops>>

---------------------------------------------------------------------------
(* Exits.                                                                  *)

\* exit_client for a command (SQUIT, KILL): it flushes what it can.
Squit(l) ==
    /\ calls = <<>> /\ l \in ToSet(serv_list) /\ drops < MaxDrops
    /\ drops' = drops + 1
    /\ dead' = dead \cup {l}
    /\ calls' = <<Flush(l, FALSE), Exit(l)>>
    /\ UNCHANGED <<line, queues, serv_list, up, wants, got, asked>>

\* error_exit_client: the descriptor is closed before exit_client is called.
PeerClosed(l) ==
    /\ calls = <<>> /\ l \in ToSet(serv_list) /\ drops < MaxDrops
    /\ drops' = drops + 1
    /\ up' = up \ {l} /\ wants' = wants \ {l}
    /\ dead' = dead \cup {l}
    /\ calls' = <<Exit(l)>>
    /\ UNCHANGED <<line, queues, serv_list, got, asked>>

\* exit_client: off the list, and an ERROR line to whoever has a descriptor; the
\* link is marked dead already, so the line is refused.
ClosingLink ==
    LET l == Top.of
    IN  /\ Running("exit") /\ ~Top.sent
        /\ serv_list' = RemoveFirst(serv_list, l)
        /\ LET after == <<[Top EXCEPT !.sent = TRUE]>> \o Below
           IN  IF l \in up
               THEN /\ line' = linebuf_new_line(NoteLen)
                    /\ calls' = <<One(NewLine, l)>> \o after
               ELSE calls' = after /\ UNCHANGED line
        /\ UNCHANGED <<queues, up, dead, wants, got, asked, drops>>

\* close_connection, then remove_dependents.
Close ==
    LET l == Top.of
    IN  /\ Running("exit") /\ Top.sent
        /\ up' = up \ {l} /\ wants' = wants \ {l}
        /\ linebuf_donebuf(l) /\ UNCHANGED writeofs
        /\ calls' = <<[op |-> "quits", at |-> First, sent |-> FALSE]>> \o Below
        /\ UNCHANGED <<serv_list, dead, got, asked, drops>>

Inside ==
    \/ Walk \/ SendOne \/ Quits \/ Written \/ WouldBlock \/ WriteError
    \/ ClosingLink \/ Close
    \/ \E n \in UNION {1..k : k \in Lens} : Write(n)

Next ==
    \/ Inside
    \/ \E l \in Links : WriteReady(l) \/ Squit(l) \/ PeerClosed(l)
    \/ \E l \in Links, n \in LineLens : sendto_one(l, n)
    \/ \E S \in SUBSET Links, n \in LineLens : sendto_server(S, n)

\* The thread does not stop inside a call, and a link that waits for a write
\* event gets one: the peer reads, or the connection breaks.
Fairness == WF_vars(Inside) /\ \A l \in Links : WF_vars(WriteReady(l))

Spec == Init /\ [][Next]_vars /\ Fairness

---------------------------------------------------------------------------
(* Properties.                                                             *)

\* Every line has as many references as there are queues and calls that hold
\* it, and a queue's length is the length of its lines (linebuf_done_line's
\* assertions): a line is freed when its last holder lets go, never earlier.
RefcountsMatch ==
    /\ \A i \in DOMAIN line :
         line[i].refcount =
           Cardinality({l \in Links : i \in ToSet(sendq[l])})
             + Cardinality({k \in DOMAIN calls : calls[k].op \in {"walk", "one"} /\ calls[k].line = i})
    /\ \A l \in Links : qlen[l] = Len(Stream(line, sendq[l]))

\* What the socket of l has not taken yet: the lines of the queue, less the
\* bytes of the first that are written.
Pending(l) ==
    LET all == Stream(line, sendq[l])
    IN  IF sendq[l] = <<>> THEN <<>> ELSE SubSeq(all, WriteFrom(l) + 1, Len(all))

Fifo == INSTANCE FifoLinks
          WITH LineLens <- Lens, made <- Len(line), open <- Links \ dead,
               pending <- [l \in Links |-> Pending(l)], got <- got

\* The queues implement the streams of FifoLinks: with lines shared between
\* queues, offsets kept per queue and writes that stop anywhere, no byte is
\* repeated, skipped or out of order on any link.
StreamsAreFifo == Fifo!Spec

\* What is queued is sent, or the link is given up (send_queued_write asks for
\* another write event whenever it leaves something).
Drains == \A l \in Links : (sendq[l] # <<>>) ~> (sendq[l] = <<>>)
=============================================================================
