# ircd-hybrid: a TLA+ model of the server

This directory models the core of ircd-hybrid in TLA+: what the server keeps,
what each command does to it, and what must stay true while commands, events
and other servers' messages interleave.  TLC checks small instances; TLAPS
proves the most important facts for every instance.

## 1. The system

ircd is one process with one thread.  Its main loop (`src/src/ircd.c`,
`io_loop`) runs due events, reads and parses what sockets offer, and writes
queued lines.  A command handler runs to its end before anything else happens,
so inside one server the hard cases are not data races but *sequences*: state
that several handlers edit by hand, one step of several that gives up half way,
a loop that must end, a callback that arrives after what it was for has gone.
Between servers everything is concurrent: each link is a FIFO stream, servers
form a tree, and the commands of different servers cross.

### Inventory

| Part | State | Operations | What makes it correct |
|---|---|---|---|
| Channel membership (`channel.c`) | five member lists and five local twins per channel, `users`, `locusers`; per client `user->channel`, `joined`, `invited` | `add_user_to_channel`, `remove_user_from_channel`, `destroy_channel`, `add_invite`, `del_invite`, `cleanup_channels` | the copies of a membership agree; counters count; nothing points to a freed channel |
| Channel modes (`channel_mode.c`) | mode bits, key, limit, bans, member lists; the two lists of pending changes | `set_channel_mode` and the `chm_*` handlers, `send_mode_changes` | a receiver of the line ends with the same channel; levels are respected |
| SJOIN (`m_sjoin.c`) | channel timestamp | `ms_sjoin`, `remove_our_modes` | the older channel wins everywhere; servers converge |
| JOIN, PART, KICK, INVITE, KNOCK, TOPIC | as above | one handler each | limits and levels |
| Virtual channels (`vchannel.c`) | sub-channel lists and a map per client | `CJOIN`, vchan creation and removal | map and lists agree |
| LazyLinks (`s_serv.c`, `m_lljoin.c`, `m_llnick.c`, `m_cburst.c`, `m_drop.c`) | a bit per lazy leaf on every channel and client, `freeMask`, `lazylink_channels` | mask allocation and return, burst, `CBURST`, `LLJOIN`, `LLNICK`, `DROP`, introduction on demand | a bit belongs to a leaf that is there, and is set iff the leaf was told |
| Nicknames (`m_nick.c`, `m_kill.c`, `hash.c`, `whowas.c`) | nick table, `tsinfo`, history ring | NICK, collisions, KILL with history chase | one client per nick, the same on all servers |
| Server links (`s_serv.c`, `m_server.c`, `m_squit.c`) | server tree, `serv_list`, connect blocks | connect, burst, SQUIT, exit | a tree without duplicates; what is behind a lost link goes |
| Client lifecycle (`client.c`, `s_user.c`, `list.c`) | client lists, dead list, counts | accept, register, exit, free, ping | exit happens once; freed exactly once |
| Authentication (`s_auth.c`, `adns.c`, `ircdauth.c`) | `auth_poll_list`, pending queries, ident sockets | DNS and ident callbacks, timeout, abort | released exactly once, and eventually; no answer finds a freed request |
| I/O (`linebuf.c`, `send.c`, `packet.c`) | shared lines, send and receive queues, flood counters | put, attach, flush, get, parse, `flood_recalc`, hand-over to servlink | each link a FIFO stream of whole lines; lines freed once; what is queued is handled |
| Events (`event.c`, `io_loop`) | table, cached minimum | add, delete, run, set back | a due event runs |
| Configuration (`s_conf.c`, `class.c`, `listener.c`, `hostmask.c`) | items, classes and listeners with reference counts, a count per IP | rehash, attach, detach | freed when the last reference goes, not before; counts do not drift |
| G-lines, K-lines (`s_gline.c`, `m_gline.c`, `m_kline.c`, `m_unkline.c`, `kdparse.c`) | the address table, the temporary list, the file, pending votes | set, remove, vote, expire, `check_klines` | a ban acts on who is there; it ends when it should and not before; three different votes |
| Matching (`match.c`) | | `match`, `collapse` | the mask means what its comment says |
| RESV, accept lists, commands, hooks, modules, allocator | tables | lookup | |
| Socket engines, logging, MOTD, queries | | | not part of the core logic |

The components interact through calls (a QUIT calls `exit_client`, which calls
`remove_user_from_channel` for each channel), through shared lists, and between
servers through messages.  `PROJECT.json` lists every component with its status
and every hazard with the line where it bites.

## 2. Modules

| Module | Models |
|---|---|
| `ChannelDefs` | operators shared by the channel modules: the chains of `find_user_link`, `change_channel_membership`, the status decisions of `chm_op/halfop/voice`, `add_user_to_channel`'s switch, the TS rules of `ms_sjoin`, `remove_our_modes` |
| `ChannelMembers` | membership on one server; every handler that edits it |
| `ChannelMembers_proofs` | theorems about `ChannelMembers` |
| `ModeLine`, `ModeLine_proofs` | one MODE line: applied letter by letter, cancelled, reordered, split, sent, received |
| `Forest` | graphs in which there is one way between two servers |
| `ChannelNet`, `ChannelNet_proofs` | one channel on a tree of servers linked by FIFO streams; uses `Forest` |
| `NickNet`, `NickNet_proofs` | nicknames on a forest of servers: introductions, collisions, KILL, QUIT, SQUIT, umodes; uses `Forest` |
| `FifoLinks` | abstract: what the output side promises about each link, a FIFO stream of whole lines |
| `SendQueues` | shared, reference-counted lines, send queues, partial writes, links that exit in the middle of a broadcast; implements `FifoLinks` |
| `SendQueues_proofs` | what each effect of an action does to lines and queues; theorems about `SendQueues`, the refinement among them |
| `LineInput` | reads cut into lines, the receive queue, raw mode, flood control, the hand-over to servlink |
| `ConfItems` | classes, auth and operator blocks and a port, with their reference counts, as operators |
| `Connections`, `Connections_proofs` | a local connection from accept to free: DNS, ident, timeout, registration, OPER, detaching, rehash; uses `ConfItems` |
| `LazyLinks` | a hub and its lazy leaves: masks, bits, introductions on demand |
| `Events` | the event table, as operators |
| `Bans`, `Bans_proofs` | K-lines, temporary K-lines, G-lines and split mode, driven by the main loop's events; uses `Events` |
| `Match`, `Match_proofs` | `match()` turn by turn, and `collapse()` |
| `MC*` | instances for TLC |

**ChannelMembers.** `mem[c][u]` and `loc[c][u]` count the links of client `u` on
each of the member lists and local member lists of channel `c`; counts, and not
one list name, because the question is whether a client can be on two lists or
twice on one. `channel`, `joined`, `invited`, `users`, `locusers`, `ts`, `invites`
are the fields of the same names. Each command handler is one action (`Join`,
`Part`, `Kick`, `Invite`, `StatusChange`, `InviteOnlyChange`, `Sjoin`). JOIN 0,
QUIT and `cleanup_channels` are loops: `op` says which loop the server is in and
nothing else is enabled until it ends, as in the single-threaded code. The early
returns of `remove_user_from_channel` are kept, also the one that leaves the
global link removed and everything else as it was. Simple modes are represented by
`+i`, the only one that decides about a join here.

**ModeLine.** A line is a sequence of `Letter` steps, since the pending lists and
the access level persist between letters. `Send` replays what is left of the lists
on `peer`, a server that believes its source, splitting at `MAXMODEPARAMS`
parameters. A cancelled change is removed from its list; in the code its letter is
zeroed, which every reader skips.  `lost` is a history variable: it collects what
the code, by one of the four faults of §5, does here and does not tell the
receiver of (`Forgotten`, `StarFirst`).  The letters themselves are not restricted.

**ChannelNet.**  `conn` are the TCP connections, `serv_list[s]` the links a
server has accepted, `wire` the streams.  The messages are the ones a channel
depends on: NICK, QUIT (or SQUIT with the clients behind it), PART and SJOIN.
Whether a channel whose last member exits stays for a while depends on the
persistence test, which is left nondeterministic here.  A burst is the
concatenation of its SJOINs, one for each of the five member lists
(`ts_burst_channel`).  The connections that the configurations allow (`Edges`)
form a forest (`IsForest`).  The server keeps the links that are up one: a server
that is already on the network is refused when it connects, and when one is
introduced over a second path the younger link is exited (`m_server.c:181`,
`:285`).  Two links that close a cycle at the same time, until one is cut, are
not modelled.

**NickNet.**  `list[s]` is the `GlobalClientList` of server `s`, newest first,
with an entry per server and per registered client; `from` is the link an entry
was learnt through.  `conn`, `serv_list` and `wire` are as in `ChannelNet`, and the
links form a forest for the same reason.  What goes with a lost server are its
`Dependents`: the servers and clients that the table has on its side of the
network, which `recurse_remove_clients` visits through the lists each server
entry keeps.  A message is handled whole: `ReadNick` is `tsm_client` with the
collision rules of `perform_nick_collides` and the relaying of
`introduce_client_globally`.  The links have the capabilities they have by
default, UID among them, so that a client is introduced with an id (CLIENT) and
killed by it; a prefix still names the nick, and so does the KILL that answers an
unknown prefix (`ReadFakePrefix`,
`ReadKillNick`).  `ubuf[s]` is the static buffer of `ts_burst_client`.  While it
is empty the line lacks a parameter: the receiver takes the host for the user
name and refuses it when it is longer than `USERLEN` (`ReadBadUser`), or takes
the length of a missing parameter (`ReadShortNick`, after which the process is
`Restart`ed).  The timestamp of a registration is the clock of its server, and
clocks are independent.  Registration is one step, and clients do not change
their nick: on a linked server `change_local_nick` calls a protocol handler that
`p_ts5` does not set.  So the history chase of KILL finds nothing and is left
out.

**SendQueues.**  `line` are the shared lines with their reference counts,
`sendq[l]` and `writeofs` the queue of a link and how much of its head is
written.  The server has one thread, so `calls` is its stack: a broadcast that
exits a link makes the calls of that exit before it goes on with the next link,
and the exit sends lines of its own to the other links.  The loop over
`serv_list` keeps a pointer to a node; when the exit frees the node the loop
stands on, it ends there (§5).  `Write(n)` lets the socket take any number of
bytes.  The abstract specification `FifoLinks` knows none of this: a stream per
link, to which lines are added whole and in order, and from which the peer
reads.  `StreamsAreFifo` is the refinement, with the unsent bytes of the queue
as `pending`, the links not marked dead as `open` and the number of lines as
`made`, since lines are numbered in the order in which they are made.

**LineInput.**  A byte is its position in the stream, or `EOL`.  `Read` is one
`read()` of up to `MaxRead` bytes, `CopyTail` and `CopyNew` the two parts of
`linebuf_parse`, `Get` one turn of `parse_client_queued` including what the line
makes of the connection (`Becomes`), `flood_recalc` the timer.  `Stale` is the
byte that `linebuf_copy_raw` looks at behind the data: what it holds is whatever
an earlier read left, so every raw copy chooses between an end of line and another
byte.  Where it is an end of line, it tears the line in two; `torn` remembers after
how many bytes, and `Seen` is the stream as the parser is shown it, with an end of
line there.  When the connection becomes a server
behind servlink, `handed` is what `start_io` passes on.

**Connections** and **ConfItems.** The tables of the configuration are one record
`cf`, finite, with room for what the server starts with (`HasRoom`), and
`attach_conf`, `detach_conf`, `rehash`, `check_class` are operators on it. `calls`
is again the stack of the running callback: an authentication timeout unlinks the
request, releases the client, reads from its socket, and the read may exit the
client. Requests, queries, ident sockets, the lists of clients and the dead list
are sets of connections. Addresses of classes and items are finite sets, so that a
freed one can be allocated again while somebody still points to it. Four paths
end the process (§5): a request freed twice (`Unlink`), `exit_client` on `&me` by a
ban after `-o` (`VerifyBanned`), a write to `fd_table[-1]` (`Reclaims`), and closing
fd 0 for a client that `AcceptGone` left (`Exit`). They are modelled as `up`
becoming `FALSE`, after which nothing happens, so that the other behaviours can be
checked past them; a hazard that is one of these paths is therefore not caught by
the properties.

**LazyLinks.**  The hub is one record `hub`: free masks, the mask of each leaf,
the bits of each user and of the channel, the nodes of the channel on
`lazylink_channels`.  A leaf is a record of whom it knows and who is on the
channel.  Streams are `hub.out[l]` and `toHub[l]`.  Each message is read in one
action that makes all the calls of its handler.  A client of a linked leaf does not
register with the nick it asks for at once: the leaf sends NBURST and the client
waits, `life` being `"asking"`, until LLNICK answers (`LeafConnect`,
`HubReadsNburst`, `LeafReadsLlnick`); it may leave before (`LeafGivesUp`), or
register without the hub when the link is lost.  ISON, and a client that wants a
nick somebody has, ask with NBURST too (`LeafAsks`).  The dangling node of a channel
that is on the list twice (§5) ends the process, here too as a stop.

**Events** and **Bans.** Times are relative to the present, so that the table is
finite. `Turn(d)` is one turn of `io_loop` after `d` seconds: `eventRun` over the
table in slot order, a fold in which each event's function is called with the
table as the ones before left it (`eventRun`, `Aged`); `TurnBack` is the turn that
finds the clock set back and calls `set_back_events`. `rehash`, `check_klines`,
`check_splitmode` are operators on the one record `ircd`. `check_splitmode`
deletes its own event from inside `eventRun`, and a split adds it again while the
minimum is not known.

**Match.**  One `Turn` is one pass through the loop of `match`, with its locals
in `at` and the places it scans back over in `back`; `Matches` is the meaning of a mask written as a recursive function.

## 3. Runs

| Run | Result | Shows |
|---|---|---|
| `members_merge` | pass | lists, counters, invitations, TS rules, no pointer to a freed channel, and that JOIN 0, QUIT and the cleanup end |
| `mode_lines` | pass | the receiver of a mode line ends with the same channel, with four stated exceptions; a half-op cannot make ops |
| `net_merge` | pass | three servers in a row agree once quiet, over joins, parts and a lost link |
| `nick_merge` | pass | one client per nick on each server; quiet servers agree who has it; a server kills only the client that the rules make lose |
| `nick_hub` | violation of `KilledOverNick` | a new client of a server with two links is killed by its own introduction |
| `send_queues` | pass | the queues implement one FIFO stream per link (`StreamsAreFifo`, a refinement); references and lengths match; queued lines drain |
| `line_input` | pass | the parser gets the lines of the stream, a raw one in two parts where a stale byte tears it; servlink gets the rest to the byte, queued lines are parsed in the end |
| `connections` | pass | no callback finds a freed client or request; every reference count equals its references across rehashes; no connection is left half-way |
| `lazy_links` | pass | every bit belongs to a leaf that is there; a leaf is marked exactly if it was told |
| `bans` | pass | a ban in force has nobody on the server; a temporary one ends on time; a G-line takes three votes that stood together |
| `klines_stay` | violation of `KlinesStay` | KLINE, then REHASH: the K-line is gone |
| `match_masks` | pass | `match` reads nothing outside its strings but the byte before an empty mask, and means what a mask without escapes says; `collapse` keeps what a mask means |

Bounds.  `members_merge`: a local client and a remote one, two channels, so that
the loops have more than one iteration and `MaxChans = 1` bites; timestamps
0..2, so that an SJOIN may be older, equal, younger or without a timestamp, and
the clock may pass `persist_time`; members are introduced without status or with op,
the two between which the TS rules decide.  Voice is left out of this run: with it
`Integrity` fails, because of `remove_our_modes` (§5).
`mode_lines`: two clients, every line of three of all the letters, so that each
meets every other one, and longer lines of letters that work on the same thing:
four of `o`, `h`, `v`, of `b` and of `k`, `l`, seven of `o`, which exceed
`mode_limit` and need a second line.  `net_merge`: a row of three, the smallest tree with a relay; two
joins or parts, one lost link, a clock with two ticks.  `nick_merge`: the same
row, a client at each end, `Logins` that let them want the same nick: `u`
takes `n` at time 1; `v` takes it as the same user later, as an operator at the
same time or as a third user later, or takes `m` as an operator, so that he can
kill by nick (`v` being the earlier one is the mirror image, since the row has
two ends); one QUIT or KILL command and one lost link.  Restarts are not
bounded: a client registers once, so that there are finitely many.  The clients
are not at the hub, because of `nick_hub`, which needs one client only.

`send_queues`: two links, lines of two bytes and exit notes of one, a queue limit
of two bytes so that a second line exits the link, three lines from commands and
one link lost from outside.  Two links are enough for a line to be shared and for
a loop to lose the node it stands on.  `line_input`: seven bytes, a buffer of
five, so that three lines fit and one may be cut twice or be too long, with both
values of the stale byte; `client_flood` of two lines, so that `Excess Flood`
happens.  `connections`: two connections and three versions
of the configuration, with all blocks, with the auth block alone and with none;
three items and three class slots, the least with which an old and a new block
exist beside a third that is attached.  `lazy_links`: two leaves and two masks,
one message on the links when something new is done (`MaxLink`; reading is not
bounded), the channel on its list at most twice; whether an empty channel is kept is left
open (`Keeps`).  `bans`: one mask, a client it
matches and an exempt one, three operators on three servers, two of which are
interchangeable (`SYMMETRY`, no liveness is checked); the periods are one and two
seconds, a clock step back of one second.  `match_masks`: all masks of up to four
characters over two letters, `*`, `?` and the backslash, all names of up to five
over an upper-case and a lower-case letter; `MATCH_MAX_CALLS` is 12 instead of
512, so that the limit is reached.

What `NicksAgree` excludes.  `raced` collects nicks about which servers may
disagree for good, each for a reason the runs produced: the owner leaves, is
killed in a tie or is replaced by himself while an introduction of the nick
crosses (the other side has then already taken or ignored the newcomer for an
owner who is gone here); an introduction without umodes is refused; a KILL names
the nick rather than the client; an operator's KILL crosses the introduction that
follows a split, or its sender is unknown.  Everything else, the ordinary
collision between two users above all, must agree.  `KilledForCause` states the
rules of `README.TSora` from the victim's side.  It reads only the registrations
(`born`), not the tables, so a collision decided on a stale entry would show.

`CHECK_DEADLOCK FALSE` appears where a behaviour really ends: in the network,
`send_queues`, `lazy_links` runs when the bounds on joins, splits, lines and
links are used up and all is read; in `connections` and `lazy_links` where the
process has ended; in `match_masks` when `match` has returned.  The other runs
check for deadlocks.

Fairness.  `LoopsEnd` assumes weak fairness of `Loop`, the iterations of the
three loops: a single thread does not leave a loop in the middle of it.
`SendQueues` and `LineInput` assume the same of `Inside`, the calls of a
callback.  `SendQueues` adds that a link waiting for a write event gets one: a
peer that does not read is dropped by a ping timeout, which is one of the
outcomes of the write.  `LineInput` adds `flood_recalc`, which
`comm_checktimeouts` calls every second.  `Connections` assumes weak fairness of
`Calls(c)`, and strong fairness of the three events that end things
(`FreeExited`, `AuthTimeout`, `CheckUnknowns`): the event loop runs them
whatever connections keep coming, but a callback in progress makes them wait, so
they are not continuously enabled.  `Bans` assumes none: `TempBansEnd` bounds the
lateness instead, in seconds of the modelled clock, which is a safety property.

## 4. Proofs

TLAPS checks 25 theorems in eight modules, each for every value of the constants
that the `ASSUME`s of its module admit.  Those say that sets are finite, that
names differ and that bounds are numbers; besides that only `ChannelNet` and
`NickNet` (a forest of links, §2) and `ConfItems` with `Connections` (room in the tables for
the blocks the server starts with) assume something of substance.  A proof rests
on an invariant that TLC checked before, on the instance of the run or on one as
small; where it is larger than the run the number of states is given.

**`ChannelMembers_proofs`.**

* `TypeCorrect`.  The one point that is not immediate is that a link count never
  becomes negative: `Unlink` is applied only to the list `FindLink` returned.
* `TimestampMonotone`, `LosersDropped`, `WinnersKept`: the timestamp of an
  occupied channel never grows, an SJOIN that lowers it leaves nobody there with
  status, and one that does not lower it takes nothing from anybody.  They need
  that a channel that is not live has no users (`DeadEmpty`), since a channel
  created by SJOIN takes the timestamp it is given.
* `MembershipIntegrity`: `NoVoice => (Spec => []Integrity)`, where `NoVoice`
  says that neither `v` as a mode letter nor `+` as a prefix is used; with voice
  it is false (§5).  `Integrity` is not inductive: QUIT visits the channels of
  the client that were on its list when it started, and `FinishExit` takes the
  client off the server.  `MemberInv` adds `ExitVisitsAll`: every channel the
  leaving client is still on is on the loop's list.  Action by action, only the
  channel and the client it edits are looked at (`Well`).
* `CountersCorrect`, `NothingDangles`, under `NoVoice` too: `users`, `locusers`
  and `joined` are cardinalities, and a channel or client that is gone is named
  by no list, from `MemberInv` and how each edit changes the sets counted.

**`SendQueues_proofs`.**  `QueueTypes`, `ReferencesCounted` and `StreamsRefine` (`Spec => StreamsAreFifo`, the refinement of `FifoLinks`).
The lemmas show that whatever call an action belongs to, it does one of seven
things to the lines, queues and streams (`Effect`: nothing, make a line, let go
of one, put one on a queue, drop a queue, take bytes from a queue, block), and
what each keeps.  The proofs show that every action has one of these effects.
That needs `Stack`, the shape of the call stack: which calls may wait for which
others, that a line still to be put is newer than all that its queue and stream
hold (`Fresh`), and that an exit is off the list before it sends.  `Offsets` says
why the flag `flushing`, which all queues of a line share, does no harm.  TLC
checked the invariant on two links with three lines (145,947 states) and on
three links with two lines and two lost links (3.97 million states).

**`Match_proofs`.**  `StaysInBounds`: no turn of `match` leaves the mask or the
name, and its scan back over the mask stays in the mask too, except that with an
empty mask and a name that is not it reads the byte before the mask (§5).  The
invariant `Scan` says that since the last `*` the name has moved
on if the mask has, except just after a backslash; without it the restart one
character further on could pass the end.

**`ModeLine_proofs`.**  `OnlyOpsMakeOps`: no line of a half-op gives or takes op.
That the channel is a channel suffices as invariant: `+h` and `+v` move a member
between the two lists of ops or between the others.

**`Bans_proofs`.**  `TypeCorrect`, `BansEnforced`, `TempBansExpire` and
`ThreeVotesTogether`.  `Inv` has five parts: where each event and the cached
minimum of the table can be (`Timing`; the minimum may be stale, by as much as
the longest frequency and the seconds the clock went back), the temporary lines
are on their list (`Listed`) and have run out, if at all, since the last cleanup
(`Lasting`), the same of the votes (`Votes`), and nobody is on under a ban
(`Clean`).  `eventRun` is a fold over the slots of the table, and the invariant
passes from slot to slot by induction over their numbers.  The temporary line of
`TempBansExpire` ends within the frequency of its cleanup and the longest
lateness of an event, the bound of the property.  TLC checked `Inv` on 1,468,082
states.

**`Connections_proofs`.** `TypeCorrect`, `ListsAgree` (`[]NoDangling`) and
`ReferencesCounted` (`[]RefcountsMatch`). The invariant holds as long as the
process has not ended by one of the four paths of §5 (`up => Running`). `Kept`
says of the configuration that an item counts the clients attached to it and a
class the clients of its items, and that what has left the configuration is marked
and there as long as somebody refers to it; the lemmas follow it through each
operator of `ConfItems`. `CallsMeet` says what each running callback may count on:
at most two calls, about one client, and which lists and requests it stands on.
TLC checked it on the 38,583 states of `connections`.

**`ChannelNet_proofs`.**  `TypeCorrect` and `GhostsGone` (`[]NoGhosts`): no
member of a channel is unknown to its server, and when nothing is under way
linked servers know the same clients.  Three parts of the invariant are about
direction: the clients of a server behind one of its links are connected there
(`RightWay`), a message about a client only travels away from him (`Outward`),
and a server knows its own (`OwnClients`).  The fourth is about the future:
what a server will believe once it has read what is on the wire is what the
sender believes now (`WillAgree`).  With empty wires that is agreement.  They
rest on the links being a forest: what a server has behind one link does not
overlap what it has behind another, and grows by the sender when a message is
relayed (`BehindApart`, `BehindGrows`).  TLC checked it on 580,568 states.

**`NickNet_proofs`.**  `TypeCorrect`; `NoNickTwice` (`[]NicksUnique`): no server
ever has two entries for a client or two clients with one nick; `KillsHaveCause`
(`[]KilledForCause`): a server kills a client only because of somebody who must
not lose the nick to him, or over a nick that was raced for (§3);
`SteadyClientsKnown` (`[]SteadyKnown`, a property stated with the proof): when the
network is quiet, linked servers know the same servers and the same steady
clients.  A client is steady unless his nick was raced for or somebody registered
it whom the rules prefer, or hold equal, to him.

None of them is inductive: that no entry is doubled depends on being told of
each server and client once, so `IInv` says what is on the wire.

* `Lists`: an entry learnt over a link is about somebody on that side of the
  network (`RightWay`), with the nick, time and user he registered with; a server
  has itself and its neighbours on its list; no id and no nick is there twice.
* `Messages`: an introduction comes from the side its client or server is on and
  says what he registered with; an SQUIT is about a server further away than the
  sender; a KILL by id is about a client who is not steady (`Blamed`).
* `WillAgree`: over every link, for every server and steady client, the messages on
  the wire lead from what the receiver knows to what the sender has told it
  (`Tracks`), and each introduction on the way finds him unknown.  Of the others
  this is not so, since a collision may make the two sides drop different clients;
  for them the collision rules themselves keep the entries apart (`Collision`).
* `ForCause`: the killed are not steady.

An action keeps the four parts if the messages it sends over each link are about
the change it makes to the list (`StepAgrees`, `StepKeeps`); there is one lemma per action
(`QuitKeeps` ... `BurstKeeps`).  The longest are about sequences of messages:
`introduce_client_globally` with its buffer of umodes, the burst, and the loss of
several links at once.  As in `ChannelNet_proofs` they rest on the links being a
forest (`BehindApart`, `BehindGrows`): those who go with a lost server are those
learnt over the same link and behind it (`DependentsNear`, `DependentsFar`).  TLC
checked the invariant on the 486,225 states of `nick_merge`.

Only model-checked:

* liveness (`LoopsEnd`, `Drains`, `LinesAreParsed`, `Settles`), which the prover
  does not do;
* `TypeOK` and `PeerAgrees` of `ModeLine`: they are about the receiver of a line,
  over folds and filters that the library defines by recursion;
* `Converged` of `ChannelNet`, which has to follow status and timestamps through
  crossing bursts, where `GhostsGone` follows one bit per client;
* `MatchAgrees` and `CollapseKeeps` of `Match`, which compare `match` and
  `collapse` with recursive functions for every input;
* `NicksAgree` of `NickNet`: who keeps a contested nick depends on all who
  registered it, between whom the rules need not be transitive, and on when nicks
  were raced for; `SteadyClientsKnown` is the part about uncontested ones;
* everything about `LineInput` and `LazyLinks`.

## 5. Observations that are not runs

Points met while modelling, for whoever maintains the code.  The models have the
behaviour described; where a property would fail by it, the property or the
bounds say what is left out.

Channels and modes:

* `remove_our_modes` moves `locchanops_voiced` to `peons` instead of `locpeons`
  (`m_sjoin.c:786`), so a local client with op and voice is on the global list
  twice and on no local one; JOIN 0 then never ends for it.
* `add_user_to_channel` has no case for op and voice at once (`channel.c:109`):
  such a client is a peon on every server that learns of it by SJOIN, although
  "For mode +ov, both flags are used" (`README.TSora:211`).
* `chm_halfop` changes the membership only `if (!was_hopped)`
  (`channel_mode.c:1637`): in the line `-h+h` the second letter cancels the
  pending change but does not undo it.  A `+h` or `-h` also cancels a pending `-v`
  of the client (`:1619`, "-h+h or -v+h or +v+h should be wiped") and puts nothing
  in its place, so that after `+h-h` for a voiced client, or `-v+h-h`, the receiver
  still has the voice.  This is the first exception of `PeerAgrees`.
* `sub1_from_channel` and `cleanup_channels` destroy a channel while it is
  *younger* than `persist_time` (`channel.c:456`, `:544`); `example.conf:664`
  says it remains no less than that time.
* A PART that empties a channel while bursts cross (`m_part.c:200`) leaves linked
  servers with different status for the other member; `README.TSora:321` says the
  final state does not depend on the order.
* `-k+o nick` is sent as `-k+o * nick`, but `chm_key` does not take the `*` when
  it deletes a key, so the receiver ops `*`, and each further letter takes the
  parameter of the one before: the second exception of `PeerAgrees`.
* `+l 5-l` on a channel with a limit removes the limit and sends nothing: the third.
* `-b wide+b narrow+b wide` cancels the pending `-b`, and the receiver, which still
  has the wide ban, refuses the narrow one, which it covers: the fourth.
* `add_invite` deletes this channel's entry twice instead of the oldest entry
  (`channel.c:836`).
* `destroy_channel` does not walk the two `chanops_voiced` lists, and counts a
  local member's `joined` down twice; it is only reached with empty lists.
* `get_channel_access` believes every remote client.
* An SJOIN whose nicks are all unknown leaves an empty channel behind.
* `burst_all` bursts the root channel again for each of its virtual channels
  (`s_serv.c:1600`).
* `p_ts5` (`p_ts.c`) has no `change_nick`, which `change_local_nick`
  (`client.c:1685`) calls for every linked server.

Nicks and servers:

* `ts_burst_client` sends the static `ubuf` before `send_umode` fills it
  (`s_user.c:580`), so a CLIENT line carries the umodes of the client sent before.
* Two servers that collide a nick may end with a ghost: the owner quits while the
  introductions cross, and one side has killed or ignored the newcomer for him.
* With the rule for the same user (the younger stays) and the rule for different
  users (the older stays) a preference among three clients can be cyclic, so
  three-way collisions depend on the order of arrival.
* An operator's KILL that crosses the burst after a split leaves the victim on one
  side only.
* `remove_unknown` kills by nick (`parse.c:665`), so its KILL may hit a client
  that took the nick meanwhile.
* While another connection is not registered yet, its entry in the client list has
  no `servptr`, which `burst_all` dereferences through `ts_burst_client`
  (`s_serv.c:1576`, `s_user.c:586`); likewise `tsm_client` takes `strlen` of a
  missing `parv[9]` (`m_nick.c:431`).

LazyLinks:

* `burst_ll_members` introduces every member twice (`s_serv.c:1806`), so the leaf
  sees a collision of the client with itself and answers with a KILL.
* The reply to CBURST (`m_cburst.c:125`) neither introduces the members nor marks
  the leaf; the leaf kills the unknown nicks.  `LazyLinks.txt:45` says the leaf
  gets everything.
* A channel may be on `lazylink_channels` twice; `destroy_channel` removes one
  node (`channel.c:641`) and the other dangles.
* A mask taken in `mr_server` is not returned when `server_estab` exits early.
  When no mask is left the hub treats the leaf as a full one, while the leaf goes
  on as a lazy one.

Input and output:

* When a broadcast exits the link it stands on, the loop of `sendto_server`
  (`send.c:642`) goes on from a freed node and ends early: the links behind it
  miss the line.  The other `sendto_*` loops have the same form.
* `exit_client` marks the link dead before it sends `ERROR :Closing Link`, which
  is therefore never sent.
* `linebuf_copy_raw` looks at the byte behind the data (`linebuf.c:357`).  If an
  earlier read left a CR or LF there, a line of a connection that is not registered
  yet, cut by the read at that place, reaches the parser as two lines.  The rest of a line that is too long becomes a
  line of its own; the raw flag of a terminated raw line is cleared by the next
  read; an empty line ends the loop of `parse_client_queued`.
* `parse_client_queued` sets `checkflood` to 0, so the flood counters decide
  nothing.
* `start_io` hands a partly written line to servlink from its beginning
  (`s_serv.c:1276`).

Connections and configuration:

* An authentication timeout frees the request again when the release it makes
  reads an end of file (`s_auth.c:515`).
* `-o` with a ban exits `&me` (`s_user.c:948`, `s_conf.c:541`); CLIENT to take up
  a detached session sets the fd of a `LocalUser` that is shared to -1 and writes
  `fd_table[-1]`.
* TOO_FAST, and a refused `-o`, lower the count of an IP without having raised it.
  `find_or_add_ip` leaves `last_attempt` unset on one of its paths.
* `off_history` runs when a client is freed, not when it exits, so `get_history`
  (`whowas.c:123`) returns dead clients for up to four seconds, to KILL as well.
* The DNS query is not freed when a connect callback or the timeout cancels it.
  A failing `getpeername` leaves a client with fd 0, and its exit fails the
  assertion that fd 0 is open (`fdlist.c:120`).
* `free_exited_clients` frees a server before the users that name it.
* `delete_one_address_conf` sets `CONF_ILLEGAL` in `flags` instead of `status`.
* `initialize_global_set_options` exchanges `split_users` and `split_servers`.

Bans and events:

* Nothing calls `add_gline`: a G-line that is set never expires, UNGLINE and
  `find_gkill` do not know it, and its entry stays pending, so that the next vote
  sets it again.
* `find_user_host` takes `sizeof` of pointers and cuts local KLINE masks
  (`m_kline.c:745`); `mo_dline` calls `find_dline` with an address that was not
  set; the line of a D-line begins with a missing user.
* `find_address_conf` finds no K-line for a client whose auth block is gone.
* SPLITMODE ON and then AUTO during a split leaves the split mode on with no event
  to end it.
* `eventAdd` with an unknown minimum takes its own time for the minimum
  (`event.c:98`), and `set_back_events` leaves the minimum where it was
  (`event.c:284`): until it has passed no event runs.

Matching:

* A backslash that the search comes back to is lost: `*\*` matches `a`, and `x\*`
  matches `x*y`, although the comment says that escaping is back (`match.c:48`).
  `MatchAgrees` is therefore about masks without one.
* With 512 turns a mask with a long literal after its `*` misses a match in a name
  of 60 characters.
* `match("", name)` with a name that is not empty decrements `m` first and reads
  the byte before the mask (`match.c:122`); `InBounds` and `StaysInBounds` make
  this one exception.  What it reads decides nothing, since `m > mask` is false.

## 6. Plan

What is modelled is listed in `PROJECT.json`.  The order of what is left:

1. *Proofs about the leaves and the input*: `MasksMatch` of `LazyLinks`, from the
   masks that are free, held by leaves and set as bits; `LinesOfTheStream` of
   `LineInput`, whose invariant is that the receive queue, the tail of the read
   buffer and the parsed lines concatenate to the stream.
2. *Nicks that are contested*: `NicksAgree`, for which the invariant has to say
   which of the clients of a nick each server on the way has met.
3. *Outgoing connections* (`serv_connect_callback`), whowas and the history chase.

## 7. Not modelled

* In LazyLinks: a nick change that asks the hub (`m_nick.c:277`, answered by
  LLNICK with `change_local_nick`), as no nick changes are modelled.
* Virtual channels: another doubly stored relation of the kind `ChannelMembers`
  checks.
* KNOCK, TOPIC, LIST, NAMES, WHO, messages between users, server queries: they
  read state, or set one field after checks that are modelled elsewhere.
* Whowas: read by the history chase of KILL and by WHOWAS only.
* The allocator, the socket engines, logging, MOTD, formatting: no state the
  properties speak about, or system calls.  The callbacks the engines deliver are
  actions of the modules that handle them.
* `servlink`, `iauth`, `adns`, the cryptography and `contrib/`: helper programs,
  a bundled resolver and its build files, outside the server's own logic.  They
  are a third of the lines of the repository.
