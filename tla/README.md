# TLA+ models of ParaStation psmgmt

psmgmt is the process management of ParaStation: on every node of a cluster a
daemon, the *psid*, starts, supervises and signals the processes of parallel
jobs. This directory holds TLA+ modules for the parts of the psid that are
protocols, the TLC runs that check them, and proofs TLAPS checks. The code is
the reference; a comment in a module names the function a definition stands
for, and `PROJECT.json` the lines.

Contents: 1 inventory of the system, 2 modules and how they correspond to the
code, 3 properties and runs, 4 bounds, 5 fairness, 6 findings, 7 proofs,
8 what is not modelled, 9 plan, 10 how to run.

## 1 Inventory

A psid is one single-threaded process with an event loop (`Swait()` in
`lib/putil/selector.c`): it runs a handler for each file descriptor that is
readable or writable, to its end, and fires timers between handlers. So the
concurrency inside of a psid is *re-entrance* (handlers call back into other
components, which call the first one again), and the concurrency of the system
is that of many psids, clients and forwarders that exchange messages.

| Component | State it keeps | Operations | Talks to |
|---|---|---|---|
| Reliable datagrams, `lib/putil/rdp.c` | per peer: connection state, IDs, sequence numbers, window, queue of pending messages | `Rsendto`, `Rrecvfrom`, `handleRDP`, resend timer, ICMP errors, `closeConnRDP`, `RDP_updateNode` | UDP socket below; callbacks to `RDPCallBack()` in `psid.c` |
| Client connections and flow control, `psidclient.c`, `psidrdp.c`, `psidflowcontrol.c` | per client: stored messages, noted senders, `pendingACKs`, `FLUSH`; per peer: stored messages; per task: `activeStops` | send, flush, `SENDSTOP`/`SENDSTOPACK`/`SENDCONT`, connect, close | RDP, sockets of clients, message dispatch |
| Message dispatch, `psidcomm.c`, `psid.c` | tables of handlers and droppers | `sendMsg`, `PSID_handleMsg`, `PSID_dropMsg`, broadcast | every other component |
| Node status, `psidstatus.c`, `psidnodes.c` | nodes considered up, the master, round counters | `DAEMONCONNECT`/`DAEMONESTABLISHED`, `MASTER_IS`, `ACTIVE_NODES`, `DEAD_NODE`, status timer | RDP's callbacks, partitions, signals |
| Signals, release, inheritance, `psidsignal.c`, `psidtask.c` | per task: signals to send and to receive, child lists, `pendingReleaseRes` | `NOTIFYDEAD`, `RELEASE`, `NEWANCESTOR`, `ADOPTCHILDSET`, `INHERITDONE` | dispatch, node status, spawn |
| Plugins and hooks, `psidplugin.c`, `psidhook.c` | graph of dependencies, state per plugin, grace timer | load, finalize, unload, forced unload | all components, through hooks |
| Serialization, `lib/pscommon/psserial.c` | per sender: the fragments received | send fragments, receive, node down | dispatch; used by spawn, partitions and plugins |
| Spawning, `psidspawn.c` | delayed and obstinate tasks, requests | spawn request, `CHILDBORN`, `CHILDDEAD` | partitions, signals, forwarder |
| Partitions, `psidpartition.c`, `psidsession.c` | requests, reservations, hardware threads in use; sessions | create, get reservation, release resources | node status, spawn |
| Forwarder, `psidforwarder.c`, `pslog.c` | a client's process, its logger, buffered input | connect to the logger, forward, exit of the client | psid, client, logger |
| Shutdown, `psidstate.c` | phase of shutdown | shutdown, reset | tasks, plugins |
| Event loop and timers, `selector.c`, `timer.c` | registered descriptors and timers | register, enable, disable | all |
| Pools, `psitems.c`, `psidmsgbuf.c` | items in use | get, put, garbage collection | all |
| Client library, `lib/psi`, `lib/pse` | the client's end of the socket | blocking requests | psid |
| Key-value space and PMI, `kvs.c`, `pspmi`, `kvsprovider.c` | entries, barriers of a ring of services | put, get, barrier | forwarder, logger |

Multicast status, configuration, hardware and accounting, PMIx, front ends and
the Slurm integration complete the list in `PROJECT.json`.

**What is hard in it.** In RDP: every packet may be lost or overtaken, including the three
of the handshake; a node restarts with new random numbers while packets of its
former incarnation are under way; a send fails in the middle of a handler and
closes the connection its caller is working on; the upper layer is called back
from there and sends again. In flow control: one message may be stored at three
places, each with its own bookkeeping of who was stopped and must be continued;
stops, acknowledgments and continuations are themselves messages that get
stored; a receiver or a node disappears with messages stored for it. In node
status: views of different nodes differ while nodes come and go. In signals:
release, death and inheritance of the same task overtake each other. In
plugins: loops of dependencies. `PROJECT.json` lists these hazards by line.

**What makes the components correct**, in one line each.
RDP: messages arrive once and in order or are given back, slots do not leak,
the upper layer knows which peers can be reached.
Flow control: stops and continuations balance, no message is lost silently or
overtaken, nobody stays stopped.
Node status: once nothing changes any more all agree on the nodes and on the
master; at any time a psid follows the lowest node it knows.
Tasks: each release is answered once, parents and children know each other, no
task is kept for ever.
Plugins: what a plugin requires is there while it works, a forced unload ends.
Fragments: what a callback gets is one message, whole, per sender and across
failures. Partitions: a hardware thread belongs to at most one user and gets
back.

## 2 Modules

### `RDP`, `ReliableLink` (`lib/putil/rdp.c`)

`conn[n][m]` is `conntable[m]` of node `n`: `state`, `ConnID_out`, `ConnID_in`,
`frameToSend`, `ackExpected`, `frameExpected`, `window`, `ackPending`,
`msgPending`, `retrans`, `pendList`, and as Booleans the time-outs of the resend
and the closed timer, and whether the address is known. `cleanupReq[n]` is the
flag for deleted messages. `net` is UDP. `accepted`, `owed`, `refused`,
`told` and `delivered` record what crossed the interface, for the properties:
which messages `Rsendto()` took, which of them were neither delivered nor given
back by `RDP_PKT_UNDELIVERABLE`, which it returned -1 for, the last of
`RDP_NEW_CONNECTION` and `RDP_LOST_CONNECTION`, and what `Rrecvfrom()` returned.

A handler is a function of a *context* `h`: the connection it works on, the
packets sent so far, what the upper layer has been told, and the environment
chosen for this handler (`h.env`: which of its sends fails, whether that failure
closes the connection, and how the upper layer reacts to a callback). The
operators are those of the code (`MYsendto`, `sendSYN`, `closeConnection`,
`clearMsgQ`, `resendMsgs`, `updateState`, `doACK`, `Rrecvfrom`) and nest the way
the C functions call each other; an operator for the rest of a function behind
one of its calls has a name of its own (`SendAgain` in `MYsendto()`,
`UpdateOrACK` and `HandleRest` in `handleRDP()`). So a
send that fails inside of `resendMsgs()` inside of `updateState()` closes the
connection at just that place and the callers go on with what is left, and a
callback's `Rsendto()` (operator `Callback`) changes the connection below them.
`Finish` writes a context back. The actions:

| Action | Code |
|---|---|
| `Rsendto(n, m)` | `Rsendto()`: checks, `getMsg()`, queueing by state, send, its failure |
| `Receive(n, m)` | one readable packet: `handleRDP()`, for DATA up to `Rrecvfrom()` by the upper layer |
| `ReceiveUnknown(n, m)` | a packet from an address that is not in the table |
| `Timeout(n)` | `handleTimeoutRDP()`: resends of all connections, and `cleanupDeletedMsgs()` |
| `ElapseResend`, `ElapseClosed` | time passes for a connection's two time stamps |
| `SocketError(n, m)` | `handleErr()`: a connection to a known address refused by ICMP |
| `closeConnRDP`, `RDP_updateNode` | the calls of the upper layer of these names; that a peer not reported as connected is closed counts as a fault, so that it is bounded |
| `Lose(n, m)`, `Reorder(n, m)` | the network drops a packet, or swaps two |
| `Restart(n)` | a psid dies and `RDP_init()`s with new random numbers |

`ReliableLink` is what all of this promises, in the words of `include/rdp.h`: a
message accepted is owed until it is given back, the receiver gets messages in
the order of acceptance, none twice, and none ahead of an earlier one still
owed. It has one action per pair of nodes and no packets, numbers, windows or
timers. `RDP!ImplementsLink` is its specification over `RDP`'s history
variables (`Link`, an INSTANCE of `ReliableLink` with them substituted): each step
of `RDP` is a step of it or a stutter. TLC checks that on an instance, `RDPLinkProof`
proves it in general.

### `FlowControl` (`psidclient.c`, `psidrdp.c`, `psidflowcontrol.c`)

`task[t]` is a client's `PStask_t` (`activeStops`, its descriptor, whether its
socket is read), `client[n][f]` is `clients[f]` of `psidclient.c` (`msgs`,
`stops` noted in its hash, `pendingACKs`, `FLUSH`), `buf[n][m]` is
`node_bufs[m].list` of `psidrdp.c`, `sock` the stream socket to a client, `link`
the RDP connection (messages in its window, and how many of them have arrived),
`up` is `PSIDnodes_isUp()`. Clients are external: they send, read and exit.

Again a handler is a function of a context `c`, the state of one psid, built
from operators named like the functions: `sendRDP`, `flushRDPMsgs`,
`flushClientMsgs`, `sendStop`, `sendCont`, `sendAck`, `releaseACK`, `dropMsg`,
`closeConnection`. A psid's messages to its own clients or to itself are calls
within the handler, as in the code; so a `SENDCONT` to a local client takes
effect at once and one to a remote client travels, and may get stored.
Actions: `Connect`, `Submit` (a client's message is read and forwarded),
`Answer` (a message of the daemon itself), `Receive` (a message from RDP),
`Acked` (RDP's window gets room: `RDP_CAN_CONTINUE`, flush), `Flush` (a socket
is writable), `ClientGone`, `ChildDead` (the end of a client, seen at its socket
and reported by its forwarder), `Lost` (`RDP_LOST_CONNECTION` after giving back
what was pending), `Alive` (`RDP_NEW_CONNECTION`), and the client's `Read` and
`Exit`.

### `PsidStatus` (`psidstatus.c`, callbacks of RDP in `psid.c`)

`psid[n]` is the whole state of a psid's status part: the nodes it holds up
(`up`, `totNodes`), `known` and `master`, `stat` (the array `clientStat` a
master keeps: ping seen, `missCounter`, `wrongClients`), `bcasts`, `round`,
`untested` (the static `firstUntested`), and per peer its end of the RDP
connection with the messages accepted. Operators of the names of the C functions
map a psid to a psid and call each other as these do: `declareMaster` starts
pinging, `declareNodeAlive` takes over a new master and greets, `declareNodeDead`
elects and announces, `drop_DAEMONCONNECT` walks on to the next node, `sendRDP`
puts a `DAEMONCONNECT` first. Actions: `Start`, `Crash`, `PSID_shutdown`,
`ShutdownEnds`, `Ping` (the status timer, with `handleMasterTasks` if the node is
master), `Receive` (one message), and of RDP `Handshake`, `HandleForeign`,
`GiveUp`, `Cut`, `Fade`. RDP is taken as `ReliableLink` describes it: in order,
once, or given back; its handshake is one step. The loops of
`send_ACTIVENODES()` and `msg_ACTIVENODES()` are functions of the number of turns.

### `PsidTasks` (`psidsignal.c`, `psidtask.c`, parts of `psidspawn.c` and `psidstatus.c`)

`task[t]` is what the psid of `t` has in its task list (`ptid`, `childList`,
`keptChildren`, `releasedBefore`, `deadBefore`, `pendingReleaseRes`, `released`,
`removeIt`, ...), `client[t]` the process, `fwd[t]` what its forwarder has told,
`chan` the messages between psids, `up` who holds whom up. A handler is again a
function of the part of the state one psid may change; a message to a task of the
same node is handled inside of the handler that sends it, which makes them
recursive. Actions: a client asks for its release, exits, is deleted when its
socket is closed; a forwarder's messages are read; a child is born; a psid
receives a message (`RELEASE`, `RELEASERES`, `SIGNAL`, `NEWANCESTOR`,
`ADOPTCHILDSET`, `ADOPTFAILED`, `INHERITDONE`, `INHERITFAILED`, `CHILDDEAD`,
`SPAWNSUCCESS`); a node goes down, others lose it and get messages back
(`drop_ADOPTCHILDSET`, ...).

### `PsidPlugins` (`psidplugin.c`, phases 5 to 7 of `PSID_shutdown()`)

`plugins` has the list and the members of each plugin: `triggers`, `depends`,
`finalized`, `unload`, `grace`, `distance`, `cleared`. Loading is recursive
through the dependencies, with an `initialize` that may fail; `walkDepGraph`
walks up the triggers and finds loops, `findMaxDistPlugin` chooses a victim.
Everything runs in one thread, so an action is a request (load, remove, remove by
force), an event (a plugin is through, its grace is over), a pass of the main
loop over all plugins, or a phase of the shutdown. `requires` is fixed at the
start to any graph of `Graphs`. Loops over lists are functions of the number of
turns (`ForEach`); a recursive call is a function of the levels that may follow, and
one that would go deeper than there are plugins is `deep`: the recursion of the code
would not end, which makes `stuck` TRUE.

### `Fragments` (`lib/pscommon/psserial.c`)

`send[s]` is where a sender stands (`fragMsg`, `fragNum`), `chan[s][r]` the
fragments on their way, `buf[r][s]` the receiver's `recvBuf` for this sender,
`link[n][m]` whether `m` holds `n` up, `got[r][s]` what the callback got.
Actions: `SendFragment` (to all destinations set, of local ones only the last,
as in the code), `Receive` (`recvFragMsg()`), `Connect`, `Lost` (a connection
breaks, `nodeDownHandler()`), `Die` (a client ends in the middle of a message),
`Restart` (of a psid).

### How they fit together

    clients                    FlowControl      Fragments  PsidTasks  PsidStatus
                                    \               |          |          /
    promise of the connection     -----------   ReliableLink   -----------
                                                     |  refined by
    UDP packets                                     RDP

The modules above the line take RDP as a queue per pair of nodes: in order,
without duplicates, given back (`RDP_PKT_UNDELIVERABLE`) and reported
(`RDP_LOST_CONNECTION`) when the connection breaks; `FlowControl` also its
window. `ImplementsLink`, `NoSilentLoss`, `WindowAccounting` and `ActiveIsTold`
are what `RDP` shows for that; where the code falls short of it, section 6 says
so. `Fragments` further relies on `PsidStatus`: node-down hooks run only for nodes
that are up, so that `DAEMONCONNECT` must come before the first fragment, and
`sendRDP()` sees to it (`Connect`, `Reached`). `PsidTasks` takes `declareNodeDead`
of `PsidStatus` as one step per psid (`Lost`), and `PsidPlugins` the end of the
daemon.

`MCRDP`, `MCFlow`, `MCStatus`, `MCTasks`, `MCPlugins` and `MCFragments` hold the
instances for TLC. Theorems and proofs are in `RDPProof`, `RDPCalls`,
`RDPQueueProof` and `RDPLinkProof`, each of which extends the one before it, in
`FlowControlProof`, `PsidStatusProof`, `PsidPluginsProof` and `FragmentsProof`.

## 3 Properties and runs

| Property | Says | Run |
|---|---|---|
| `RDP!TypeOK` | types of all variables | `rdp_loss` |
| `WindowAccounting` | free slots and buffers, deleted ones included, make up the window | `rdp_loss` |
| `DeletedFirst` | deleted buffers precede live ones, so that freeing the front frees them all | `rdp_loss` |
| `PendingCounted` | `msgPending` counts what waits for a connection | `rdp_loss` |
| `SequenceNumbers` | live messages are numbered from `ackExpected` without a gap and carry the connection's ID | `rdp_loss` |
| `InStep` | the two ends of an established connection agree on the numbering | `rdp_loss` |
| `NoSilentLoss` | a message accepted and not given back is pending or delivered | `rdp_loss` |
| `ImplementsLink` | every step is one `ReliableLink` allows | `rdp_loss` |
| `InOrderOnce` | messages come out in the order of sending, never twice | `rdp_faults` |
| `ActiveIsTold` | no connection is in use the upper layer was not told of | `rdp_faults` |
| `Resolved` | each accepted message is delivered or given back in the end | `rdp_live` |
| `WindowReopens` | a full window gets room again | `rdp_live` |
| `StopsBalanced` | `activeStops` counts exactly the reasons to stop, wherever they are kept or travel; the socket is read just if there is none | `flow_socket` |
| `AcksCounted` | a client awaits as many `SENDSTOPACK`s as are to come | `flow_socket` |
| `InOrder` | messages of a pair stay in order through all buffers | `flow_socket` |
| `QuietMeansGoing` | when nothing is stored, under way or unread, nobody is stopped | `flow_socket` |
| `FlowControl!TypeOK` | types of all variables | `flow_lost` |
| `StoredOnlyIfFull` | messages wait for RDP only while the window is full, so that `RDP_CAN_CONTINUE` comes | `flow_lost` |
| `Accounted` | a message is read, under way, or reported to its sender by `PSP_CC_ERROR` | `flow_lost` |
| `Continued` | a stopped sender continues in the end, or is closed, unless a descriptor or task ID is inherited together with what was left of its former user (`FlushOver`, `AcksCounted`) | `flow_live` |
| `PsidStatus!TypeOK` | types: `totNodes`, counted up and down, stays within the number of nodes, `wrongClients` within its limit | `status_views` |
| `Converges` | when no node starts, dies or is cut off any more, all psids end up with the same, right view and one master | `status_views` |
| `MasterIsLowest` | a psid follows the lowest node it holds up | `status_stop` |
| `MasterHasSpace` | just the master has a `clientStat` | `status_stop` |
| `UnknownIsAlone` | who has no master yet knows no other node | `status_stop` |
| `PsidTasks!TypeOK` | types of all variables | `tasks` |
| `PendingCounted` | `pendingReleaseRes` is the number of answers still to come, along whichever way; it is one larger at most, and only if an ancestor that should have answered has gone | `tasks` |
| `AnsweredOnce` | a client that asks for its release is answered exactly once, but for such a lost answer | `tasks` |
| `Forgotten` | at rest, no task without a process is left but for its children, or such a lost answer | `tasks` |
| `FamilyAgrees` | at rest, `childList` and `ptid` of all tasks agree, but for a child whose death was reported to a former parent that had gone | `tasks` |
| `OrphansSignalled` | a doc's claim, violated | `tasks_orphans` |
| `PsidPlugins!TypeOK` | types, distances within their bound, no time limit marked and finalized | `plugins` |
| `RefsMatch` | `triggers` and `depends` mirror each other and lead to loaded plugins | `plugins` |
| `Provided` | a plugin at work finds at work what it requires, but for loops that were cut | `plugins` |
| `NeverStuck` | removing by force finds a victim, the shutdown's passes end | `plugins` |
| `ForcedOut` | what is removed by force goes away in the end | `plugins` |
| `ShutdownEnds` | a shutdown gets rid of all plugins and exits | `plugins` |
| `Fragments!TypeOK` | types; fragment numbers stay below the wrap | `fragments` |
| `Whole` | a callback gets one message from its first to its last fragment | `fragments` |
| `Delivered` | a message sent to the end arrives once and in order, unless the connection was lost meanwhile | `fragments` |
| `BuffersFreed` | a receiver keeps a buffer only for a message that goes on or whose sender has ended | `fragments` |

The runs:

* `rdp_loss`: two messages, window 2, a network that drops any packet, one resend
  before a connection is given up; the first or second send of a handler fails and
  closes the connection in the middle of it, or the upper layer answers
  `RDP_NEW_CONNECTION` or `RDP_CAN_CONTINUE` by another `Rsendto()` from within the
  callback, as `send_DAEMONCONNECT()` and `flushRDPMsgs()` do. 668 thousand states.
* `rdp_faults`: two messages, up to two faults at any moments: the crash and
  restart of a node, an ICMP error, a change of an address, `closeConnRDP()` for a
  peer that is not connected; and a plugin (dynIP) that forgets the address from
  within `RDP_LOST_CONNECTION`. 895 thousand states.
* `rdp_live`: liveness under `FairSpec` while the network drops packets and swaps
  two neighbours up to two times. 12 thousand states.
* `flow_socket`: a window that never fills and sockets that hold one message: a
  remote and a local sender, a receiver that sends itself. 290 thousand states.
* `flow_lost`: the connection breaks twice with messages of a client and of a
  daemon pending; a window of one. 220 thousand states.
* `flow_live`: liveness under `FairSpec`. A local client sends three messages to a
  client that may exit and connect again, on the same descriptor, and a remote
  one sends it a fourth. In this run both cases that the hypothesis of
  `Continued` excludes do happen: without either half of it TLC finds a client
  stopped for ever (section 6). 87 thousand states.
* `status_views`: three nodes that know each other; node 0 (the master) or node 1
  (the master to be) may die, and node 0's RDP may give up a peer that is alive.
  Views then differ and have to become equal again, by pings, `DEAD_NODE`,
  `ACTIVE_NODES` and `MASTER_IS`. 84 thousand states.
* `status_stop`: nodes 0 and 2 are up, node 1 starts and has to find the master
  while node 0 shuts down and node 2 may be elected.
* `tasks`: a family of four over three nodes (1 is the root and the parent of 2, 2
  has the children 3 and 4), 3 not yet born at first. 1, 2 and 3 may ask for their
  release and exit, at any moment; node 1, where 2 and 4 are, may go down. The
  `RELEASE` of 3 asks its parent on another node for an answer: it is answered by
  2, passed on to 1 if 2 has been released meanwhile, or given back by RDP when
  node 1 is down. 2.2 million states.
* `tasks_orphans`: a violation, section 6.
* `plugins`: every graph over three plugins whose loops are closed in themselves;
  one plugin whose `initialize` may fail, two that need time to finalize.
* `fragments`: two nodes, a psid and a client that send five messages of one to
  four fragments to one or both psids; numbers wrap after 2; two connections lost
  or psids restarted. 190 thousand states.

`StopsBalanced` is checked where the findings do not reach: with a socket that
fills, without lost connections. With restarts `NoSilentLoss` and
`ImplementsLink` do not hold, see section 6.

Each property of a passing run has a mutant in `PROJECT.json`: one definition
changed the way a bug would change the code, on which the property fails in that
run (for instance `doACK()` giving back one slot whatever it frees,
`declareNodeDead()` electing the next node whether it is up or not, a master that
keeps its `clientStat`, heirs that include released children, a plugin finalized
although it is triggered, fragment numbers that do not wrap).

## 4 Bounds

**RDP.** Two nodes: a connection is a matter of two ends, connections of one psid share
only the cleanup flag and the timer, which visits them one by one. One or two messages
in one direction (control packets and acknowledgments go both ways): two are needed for
order, gaps and a window of two; duplicates, resends and reconnects need one. `NetCap` 1
or 2 packets in flight per direction: two allow an old packet before a new one, the
pattern of every confusion of incarnations. `ConnId` has five values and a new one is
never an ID still held by a connection or by a packet under way; `random()` over 2^31
values makes that the normal case, and five values are always enough for such a choice.
`FirstToSend = {0}` and `FirstExpected = {7}`: the code starts with random numbers; only
differences matter, and the two constants differ so that a `frameExpected` that was
never synchronized cannot pass for a right one. `RDPMaxRetransCount` is 0 in place of
32: what matters is whether the limit has been reached. `RDPMaxAckPending` (4 in the
code) is 1, so every message is acknowledged explicitly. `MaxFault` is 2: the second
fault meets what the first one left behind. Larger instances were checked aside, too
long for a routine run: with a single swap of packets all properties of `rdp_loss` hold
with a quiet environment (881 thousand states), and those of `rdp_faults` with two swaps
or restarts and `NetCap = 2` (4.8 million states).

**FlowControl.** Up to three clients on two nodes give a local and a remote sender of
one receiver; a window of 1 and a socket of one message are the smallest that fill;
`Wide` is more than all messages of a run, i.e. never full. Two to four messages are
enough to fill a window or a socket and store one or two behind it; in `flow_live` the
four messages for one client, one of them from another node, also reach the descriptor
that is used again with `FLUSH` set. `MaxLost` is 2: one loss while messages of the
other are still stored.

**PsidStatus.** `N` is 3: a master, one that takes over, and one that may hold
either view. The assumption `N <= 11` is the code's: a round calls at most 10 nodes
that are down, the model calls them all. `DeadLimit` 1, `MAX_WRONG_CLIENTS` 0,
`ListLen` 1 (so that a list of nodes is split over several messages, which is where
`firstUntested` matters) and `Calls` 1 make each limit reached soon.
`PingCap = 0`: a status timer fires when all messages have been handled; pings
take seconds, messages do not. `missCounter` is unbounded in the code (240); with
`MissCap` 2 the timer of a master fires no more while a node that is well has
missed two pings, so a node is called at least once; with 3 (226 thousand states)
`Converges` holds as well. One psid dies, one connection is cut.

**PsidTasks.** Three generations on up to three psids: an adoption takes a
parent, a grandparent and two children; two children are needed for a set of
heirs of which one is dead or released. Three generations may ask for their release,
so that two releases cross each other, and a `RELEASE` that wants an answer goes to a
remote parent. One node dies, the one of the middle generation; for the others see
section 6.

**PsidPlugins.** Three plugins are the smallest loop that is not a pair and the
smallest graph with a plugin needed on two ways. All graphs whose loops are closed
in themselves are looked at, see section 6 for the others.

**Fragments.** `FragNums` is 3 in place of 2^16 and messages have up to four
fragments, so numbers wrap within a message, past 0. Two faults: one in the middle
of a message, one in the middle of what replaces it.

No run checks for deadlock: the number of messages, starts and requests is
bounded, so the system legitimately ends. Ending too early is what `Resolved`,
`WindowReopens`, `Continued`, `QuietMeansGoing`, `Converges`, `Forgotten`,
`ForcedOut` and `ShutdownEnds` exclude.

## 5 Fairness

`RDP!FairSpec`: weak fairness of `Timeout` (the psid's timer is periodic), of
reception per pair of nodes (`Swait()` serves every readable descriptor; the
network itself is not fair, `Lose` may drop every packet) and of the two
time-outs (time passes). Nothing is assumed of the sender, so both properties
hold because resends end: by success or by the limit on retransmissions.

`FlowControl!FairSpec`: weak fairness of each psid's main loop as a whole, of `ClientGone`, and
of the clients reading what they get. The three are written out as `[]<>` of
"nothing to do, or done", since TLC takes far too long for the ENABLED in `WF_vars`;
that the written conditions are ENABLED in every state was checked with two
clients on one node and on two. No fairness of `Submit`, `Exit`, `Lost` or
`ChildDead`. That a stopped sender's receiver does read is an assumption on
clients: one that never reads does keep its senders stopped, by design.

`PsidStatus!FairSpec`: weak fairness of the handshake, reception, giving up an
unreachable peer, and the phases of a shutdown. `Ping` is strongly fair: the timer is
periodic, and the bounds `PingCap` and `MissCap`, which belong to the model, must not be
what stops it. Where they do for good, strong fairness asks for nothing, and the
properties have to hold all the same. No fairness of `Start`, `Crash`, `Cut` and
`PSID_shutdown`.

`PsidPlugins!FairSpec`: weak fairness of the main loop's pass over the plugins,
of the shutdown's phases, and of the grace time running out; the first two are
written out with the conditions under which the steps do something. A plugin is
not assumed ever to call `PSIDplugin_unload()`.

## 6 Findings

One disagreement with the code's own documentation is a run that TLC ends with a
counterexample: `tasks_orphans`. If an adoption fails, `msg_ADOPTFAILED()` is to
signal the processes that stay behind (`psidsignal.c` 819), but of the tasks in
its message it looks at the first one only (843).

The others come from the same modules with one constant of a run changed, and are
worth knowing:

| Run | Change | Fails | Because |
|---|---|---|---|
| `rdp_loss` | `Environ <- EnvironLost` | `NoSilentLoss` | a `Rsendto()` from within `RDP_LOST_CONNECTION`, raised by `resendMsgs()` in `updateState()`, is counted as sent (`rdp.c` 1213, 1258); the next SYN skips its number and the peer takes it for a duplicate |
| `rdp_loss` | `Fault = {"restart"}`, `MaxFault = 1` | `NoSilentLoss` | replies of the handshake are not matched to their request (1253): a reply to a SYN of the former incarnation is adopted, and a message of the new one is acknowledged without being delivered |
| `rdp_loss` | window 4, `NetCap` 8, up to 3 messages, `Fault = {"icmp"}`, `MaxFault = 1` | `NoSilentLoss` | the second of two waiting messages fails in `resendMsgs()` and closes the connection before `frameToSend += msgPending` (1210, 1256); the first is on its way, its number is given to the next message, and a late ACK for it frees that one undelivered |
| `rdp_loss` | `Fault = {"reorder"}`, `MaxFault` and `RDPMaxRetransCount` 3, `NetCap` 4, invariant `InOrderOnce` | `InOrderOnce` | a SYN sent twice is overtaken by the first message; on an `ACTIVE` connection it sets `frameExpected` back to its own number whatever has been received (1311), and the message is delivered again |
| `rdp_loss` | invariant `ToldIsActive` | `ToldIsActive` | `updateState()` reports `RDP_NEW_CONNECTION` after `resendMsgs()` has closed the connection (1212, 1257): a peer counts as connected that is not |
| `rdp_loss` | `Environ <- EnvironRefuse`, invariant `RefusedNotDelivered` | `RefusedNotDelivered` | `Rsendto()` returns -1 for a message that stays in `pendList` and is delivered later (2215) |
| `flow_socket` | `Window <- OneSlot` | `StopsBalanced` | a `SENDSTOPACK` is stored without a stop, but each flushed message sends a `SENDCONT` (`psidrdp.c` 168), and `activeStops` gets negative |
| `flow_socket` | `MaxLost = 1` | `StopsBalanced` | the same for each message given back by RDP (`psid.c` 184) |
| `flow_socket` | `MaxMsg <- Two11Daemon2` | `AcksCounted` | daemons (and tasks that have gone) never acknowledge a `SENDSTOP` (`psidflowcontrol.c` 176), `SENDCONT`s are withheld |
| `flow_lost` | `Exits = {11, 21}` | `Accounted` | a `PSP_CC_ERROR` that RDP gives back, or that waits in `node_bufs`, when the connection is lost is dropped for good (only `PSP_CC_MSG` has a handler for drops, `psidclient.c` 1089): the sender of the message that was dropped first never learns of it |
| `flow_socket` | `MaxLost = 1` | `QuietMeansGoing` | stops noted for a sender on a node that is down for a moment are dropped (`psidflowcontrol.c` 116); after the reconnect it stays stopped |
| `flow_live` | invariant `FlushOver`, or `Continued` under `[]AcksCounted` only | both | after a failed write `flushClientMsgs()` returns with `FLUSH` set (`psidclient.c` 320) and `PSIDclient_register()` does not reset it (112-126): nothing is flushed to the next client on that descriptor, and who sends to it stays stopped for ever |
| `flow_live` | invariant `AcksCounted`, or `Continued` under `[]FlushOver` only | both | a `SENDSTOPACK` that was sent for a former process arrives when its task ID is in use again: `pendingACKs` becomes negative (`psidclient.c` 724), a later stop is never lifted |
| `status_views` | `Mortal = {0, 2}` | `Converges` | `msg_ACTIVENODES()` tests the nodes left out below and between those listed, never those behind the last one (`psidstatus.c` 1096): a node that has died unnoticed by the master stays up for ever in another view |
| `tasks` | `Mortal = {2}` | `PendingCounted` | `declareNodeDead()` empties `keptChildren` (`psidstatus.c` 596) but leaves `pendingReleaseRes`: the `NEWANCESTOR` to the child on that node is never answered, and so neither is the release |
| `tasks` | `Mortal = {0}` | `PendingCounted` | the grandparent's node goes down with its `INHERITDONE` under way; nothing takes the answer off `pendingReleaseRes` |
| `tasks` | `Mortal = {2}` | `FamilyAgrees` | when any node dies, `declareNodeDead()` removes a dead task that still waits for an `INHERITDONE` (`psidstatus.c` 588) without a `RELEASE` to its parent: it stays in the parent's `childList` |
| `plugins` | `Patient = FALSE` | `ForcedOut` | `cleared` is never reset (`psidplugin.c` 1019): a plugin asked for again after its forced removal is passed over by the next one |
| `plugins` | `Graphs <- AllGraphs` | `NeverStuck` | a member of a loop that fails to load keeps its triggers and asks for its eviction; `doUnload()` refuses, `PSIDplugin_finalizeAll()` repeats for ever (1192) |
| `plugins` | `PSIDplugin_unload` without the guard `finalized[p]` | `Provided`, `NeverStuck` | `unloadPlugin()` cleans up a plugin that is still triggered and marks it (`psidplugin.c` 622-633): plugins that need it go on without it, and `PSIDplugin_finalizeAll()` repeats for ever while what triggers it takes its time to finalize. No plugin of the repository calls it that early |
| `plugins` | four plugins, 1 requires 2, 3, 4; 2 requires 1, 3; 4 requires 3 | `Provided` | removing 3 by force chooses 4 as the victim, which is in no loop, although 1 needs it (1071) |
| `fragments` | `InPsid = {}` | `Whole` | a task outside of a psid has no hook that drops what came from a lost node, as a comment in `psserial.c` says |
| `fragments` | two local destinations of a message | `Delivered` | `sendFragment()` sends to the last local destination only (617) |

`send_DEADNODE()` allows one broadcast more per round than `maxStatusBcasts`
says (`psidstatus.c` 1125). Two losses do occur in the run `tasks`, and its properties
except them openly: a `RELEASE` is not answered if the parent it asks has gone
(`psidsignal.c` 1296, 1344; `Unanswered`), and the death of a child that is reported to
a former parent that has gone leaves the child in the `childList` of the grandparent
(`ReportLost`). Other orders the run excludes by its constants (`Fails`, more late
births): grandchildren handed over to a task that is only kept for its children, and
children stranded when two generations are released at the same time. The same read in
`msg_ADOPTFAILED()` that `tasks_orphans` is about (TIDs of 8 bytes out of entries of 9,
`psidsignal.c` 843) also has to find the end marker of the list, a TID of zero: with
five to seven heirs the shifted bytes do not yield it, so no `INHERITFAILED` is sent. The
model has heirs in a set of up to two, and does not show this.

## 7 Proofs

| Theorem | States | Besides the named assumptions |
|---|---|---|
| `RDPProof!TypeCorrect` | `Spec => []TypeOK` | |
| `RDPProof!SlotsAccounted` | `Spec => []WindowAccounting` | |
| `RDPProof!DeletedInFront` | `Spec => []DeletedFirst` | |
| `RDPQueueProof!UsableIsTold` | `Spec => []ActiveIsTold` | |
| `RDPQueueProof!NumbersConsecutive` | `Spec => []SequenceNumbers` | |
| `RDPQueueProof!WaitingCounted` | `Spec => []PendingCounted` | L |
| `RDPQueueProof!InOrder` | `Spec => []InOrderOnce` | L, O |
| `RDPLinkProof!NothingLost` | `Spec => []NoSilentLoss` | L, R, F |
| `RDPLinkProof!LinkImplemented` | `Spec => ImplementsLink` | L, R, F, O |
| `FlowControlProof!TypeCorrect` | `Spec => []TypeOK` | |
| `FlowControlProof!StoredIfFull` | `Spec => []StoredOnlyIfFull` | |
| `FlowControlProof!MessagesInOrder` | `Spec => []InOrder` | |
| `FragmentsProof!TypeCorrect` | `Spec => []TypeOK` | P |
| `FragmentsProof!MessagesWhole` | `Spec => []Whole` | P |
| `FragmentsProof!BuffersAreFreed` | `Spec => []BuffersFreed` | P |
| `FragmentsProof!MessagesArrive` | `Spec => []Delivered` | P, D |
| `PsidStatusProof!TypeCorrect` | `Spec => []TypeOK` | |
| `PsidStatusProof!CountedOnce` | `Spec => []NodesCounted` | |
| `PsidStatusProof!LowestLeads` | `Spec => []MasterIsLowest` | |
| `PsidStatusProof!SpaceForMaster` | `Spec => []MasterHasSpace` | |
| `PsidStatusProof!UnknownAlone` | `Spec => []UnknownIsAlone` | |
| `PsidPluginsProof!TypeCorrect` | `Spec => []TypeOK` | |
| `PsidPluginsProof!ReferencesMatch` | `Spec => []RefsMatch` | |
| `PsidPluginsProof!ForceEnds` | `Spec => [][ForceEndsStep]_vars` | |
| `PsidPluginsProof!NoLoopNeverStuck` | `Spec => []NeverStuck` | A |
| `PsidPluginsProof!NoLoopProvided` | `Spec => []Provided` | A |

The hypotheses stand in the theorems themselves:

* L: no environment has `react = "LOST"`, that is, the upper layer does not answer
  `RDP_LOST_CONNECTION` by a `Rsendto()` to the peer just lost. Without L,
  `PendingCounted` and `NoSilentLoss` are false (row `EnvironLost`); for `InOrderOnce`
  no counterexample is known (none in `rdp_loss` with `EnvironLost`).
* R: `"restart" \notin Fault`. A psid that restarts loses what it owes, and replies of
  the handshake are not matched to their request: `NoSilentLoss` is false (row
  `Fault = {"restart"}`). `InOrderOnce` is proved with restarts.
* F: `env.closes => env.fail <= 1`, the failure that closes a connection strikes the
  first send of a handler. Without F, `NoSilentLoss` is false (row "window 4"). Sends
  that fail without closing the connection may be any. L and F together are `Tame`.
* O: `"reorder" \notin Fault`, the network keeps the order of the packets of a
  direction, as UDP does on a single path. Without O, `InOrderOnce` is false (row
  `Fault = {"reorder"}`); `NoSilentLoss` is proved with reordering.
* P: `InPsid = Recv`, the receivers are within psids (row `InPsid = {}`).
* D: `AllReached`, a message has at most one local destination (row "two local
  destinations").
* A: `Acyclic`, no plugin depends on itself, directly or not. Without A, `NeverStuck`
  and `Provided` are false (rows `AllGraphs` and "four plugins").

### `RDP`

Assumptions, all named in `RDP` and as weak as the code allows:
`NodeAssumption` (finitely many nodes), `WindowAssumption` (at least one slot),
`AckAssumption`, `RetransAssumption`, `ConnIdAssumption`, `FirstAssumption`,
`BoundAssumption`, `FaultAssumption`, `EnvironAssumption`.

**`RDPProof`: one connection, its slots.** `SlotsAccounted` implies that `getMsg()`
cannot run out of the `nrOfNodes * MAX_WINDOW_SIZE` buffers allocated at the start;
`DeletedInFront` that releasing the front of a queue frees all its deleted buffers. The
inductive invariant `IInv` says that each of the tables is a table of its range and that
every connection is a `GoodConn`: a `ConnInfo` whose slots add up and whose deleted
buffers are in front. Why it is more than `TypeOK`: a handler works on a *copy* of the
connection that passes through up to a dozen operators, with the window changed in one
(`Enqueue`) and given back in another (`Drop`, `Reset`, `Cleanup`), and a failing send
or a re-entrant `Rsendto()` enters in between. So the accounting has to hold between the
operators, not just between actions. The proof therefore has a set `Context` of
well-formed contexts (good connection, typed output, typed history) and one lemma per
operator, "takes a `Context` to a `Context`", composed in the order in which the
operators call each other; then one lemma per action, `NextInvariant` that joins them,
and `InvariantImplies`. `Drop` needs a fact on `SubSeq` (`SubSeqInFront`), `Enqueue` one
on `Append` (`AppendInFront`) and the guard `CanSend`; `clearMsgQ` deletes all or
nothing (`AllDeleted`).

**`RDPCalls`: what a handler can do.** Whatever path a handler takes, it is made of
nine kinds of small steps on its context: packets are sent (`Sends`), a message is
queued (`Queues`), the connection is closed (`Closes`), requested (`Requests`) or
established (`Establishes`), deleted buffers are dropped (`Drops`), a SYN or SYNACK is
adopted (`Adopts`), messages are acknowledged (`Frees`), a message is taken
(`Advances`). The module proves that of each operator and of each action: a set of
contexts that no such step leaves (`ClosedUnder`, `ClosedFor` a packet, `Acknowledging`)
is left by no handler, and each step of `Next` changes one connection by a handler,
loses or swaps packets, or restarts a node (`StepIsPairStep`). The modules below
never look into a handler again: each takes for the set what its invariant says
about the connection at hand and goes through the nine kinds.

**`RDPQueueProof`: one end.** `Told` is `ActiveIsTold` of one connection.
`Consecutive`: the live messages of the queue are numbered from `ackExpected` on, up to
`frameToSend + msgPending`, all with the ID in use. It holds between the operators of
a handler too, which is where the hazard is: `updateState()` adds `msgPending` to
`frameToSend` only behind `resendMsgs()`, which may have closed the connection and
let a callback open the next one. The sum is what survives that, so `SequenceNumbers`
needs no hypothesis; a set of contexts that speaks of no more than that is
`Indifferent`. `Numbered` adds that all messages of the queue wait for a connection,
or none does.

*One direction*, in the same module: `Ordered` relates the sender's queue, the packets
under way, and what the receiver has got: whatever comes later in the queue or on the
net is a later message, unless it is sent again, and then either the receiver does not
take its number (`Over`) or a SYN ahead of it starts the numbers anew (`NoSync`).
`InOrderOnce` speaks of what was received only; the rest is needed because an old
packet is kept out by numbers, and numbers are adopted from SYNs.

**`RDPLinkProof`: both directions.** `Linked` says of a sender that a SYN under way
starts not beyond its queue, that messages under way are in the queue or behind it
(`Onward`), that all it has in its queue below the number the receiver expects, or
below a number acknowledged by a packet under way back, has been received (`Expects`,
`Back`), and that what is owed has been received or is in the queue (`Kept`).
`NothingLost` is a part of that. For the refinement, each of the steps of `RDPCalls` is
mapped: `Queues` to an acceptance, `Closes` to a return of the live messages,
`Advances` to a delivery in order, all others to a stutter; that nothing owed is
overtaken by a delivery needs `Ordered`, `Linked` and `Numbered` together.

### `FlowControl`

`FlowControlProof` proves, for any number of psids, clients and file descriptors, any
windows and sizes of sockets, whoever sends to whom, exits, connects again, and however
many connections are lost:

* `TypeCorrect`: `Spec => []TypeOK`;
* `StoredIfFull`: `Spec => []StoredOnlyIfFull`;
* `MessagesInOrder`: `Spec => []InOrder`.

Assumptions: `PlaceAssumption` (a task ID is not a node, and neither is -1),
`FdAssumption`, `StartAssumption` (two clients of a node have different file
descriptors), `CapAssumption`. The difficulty is that a handler hardly ever does one
thing: to forward a message is to flush what was stored before, to tell the senders of
what was flushed to continue, some of them through another node's buffer, which is
flushed in turn; to tell the sender of a stored message to stop; to drop a message that
is refused and answer it. The argument has four layers.

*Good contexts.* A handler works on a context of its psid, and operators pass it on to
each other in states that hold between actions only in part. `Good` says what they all
keep: RDP's queue is within the window and messages are stored only if it is full
(`Carried`, `Filled`), a descriptor and its client belong to each other (`Served`,
`Registered`), and what waits at a descriptor is for its client, what waits for a node
is for that node (`Letters`, `Mail`). The last two are needed because order is per pair:
if a descriptor could hold what was meant for its former client, a message would come
out at the wrong one. While `flushRDPMsgs()` has moved less than everything, `Filled`
fails for one node (`Nearly`).

*Rows.* What waits for a client, or is on its way to another psid, is a row, wherever
its parts are stored (`Inbox`, `Outbox`). All that handlers do to rows is of two kinds:
keep each or empty it (`Quiet`: what is stored moves on to the window or the socket; a
client's or a connection's messages are dropped), or add one message to the end of one
(`Posts`). A set of good contexts that no such step leaves, as long as the message added
is one of flow control or a `PSP_CC_ERROR`, is `Steady`, and each operator keeps it,
however often the others come back to it: there is one lemma per operator, and one per
loop (`LoopEnds`, `LoopKeeps`: there is no first turn that could leave it). Only the
message a handler is about can leave it, and does so at the end of its row.

*Order.* For a psid, `Ordered` says of chosen pairs of a sender and a receiver that
the row is in order behind all of a set of numbers and before all of another
(`Within`). It is `Steady`, so no proof about order looks into a handler.

*The invariant* `IInv`: all contexts are good, and `InStride`: for each pair, the row at
the receiver is in order behind what it has read and before all that is still on its way
from the sender's node, which is in order itself and before the next message. `InOrder`
alone is not inductive: that nothing sent later is added where it could overtake
depends on each message being in the one row its route leads to.

The proof made two things explicit that the model had left open: `-1` must not be a
task or a node, since `NoTask` stands for none, and a task that is not managed has no
descriptor (`TaskEntry`), or one that has gone could still be written to. TLC checked
`IInv` on the instances of the runs before it was proved.

### `Fragments`

`FragmentsProof` proves, for every set of nodes, tasks, scripts, width of fragment
numbers and number of faults, as long as the receivers are within psids
(`InPsid = Recv`; the comment in `psserial.c` says so, and section 6 shows that it
is needed):

* `TypeCorrect`: `Spec => []TypeOK`;
* `MessagesWhole`: `Spec => []Whole`;
* `BuffersAreFreed`: `Spec => []BuffersFreed`;
* `MessagesArrive`: `Spec => []Delivered`, with hypothesis D.

Assumptions: `TaskAssumption`, `ScriptAssumption`, `NumAssumption` (at least two
fragment numbers), `FaultAssumption`. The invariant `IInv` sees a sender and a
receiver as the ends of a *line*: what the buffer holds, the fragments on their
way, the one about to be sent. Each element of the line follows the one before it
or begins a message (`Follows`, `Continues`), the buffer holds the beginning of one
message (`Holds`), and a buffer for a task on another node exists only while this
node is held up, so that the hook will run when the connection is lost. `Whole`
alone is not inductive: it says nothing of what is still to come, and the
receiver cannot tell two messages apart but by number 0. A fault cuts the line
between the sender and the rest together with the buffer. `JInv` adds for
`BuffersFreed` that a message that breaks off in the line is one whose sender has
ended (`ShortOK`), that the last element goes on only if its message does
(`OpenOK`), and that a receiver has fragments of messages to itself only
(`MeantOK`).

The last one adds `LineOK` for each pair: what the callback has got,
the buffer, the fragments on their way and the sender's place are in the order of
composition (`Sorted`), and of a message no fault has struck, each fragment sent is in
the buffer or on its way (`Complies`). `Delivered` says of the end of a line what
`Complies` says of each moment: when a fragment begins a new message while the buffer
holds part of an old one, or is dropped because it does not fit, the old one must
have been struck, and this follows only from order and completeness together. TLC
checked the invariant (`DInv`) on the instance of `fragments` before it was proved.

### `PsidStatus`

`PsidStatusProof` proves, for every number of nodes up to the 11 that one round
of calls covers, every limit, and whichever nodes start, die, shut down or are cut
off, however often:

* `TypeCorrect`: `Spec => []TypeOK`;
* `CountedOnce`: `Spec => []NodesCounted`, `totNodes` is the number of nodes held up;
* `LowestLeads`: `Spec => []MasterIsLowest`;
* `SpaceForMaster`: `Spec => []MasterHasSpace`, so `handleMasterTasks()` and
  `msg_LOAD()` of a master find their `clientStat`;
* `UnknownAlone`: `Spec => []UnknownIsAlone`.

The assumptions are `SizeAssumption` and, for the counters, `LimitAssumption`.
`TypeOK` bounds `totNodes` by the number of nodes and `wrongClients` by its limit,
which the code resets them at; of `missCounter`, which `handleMasterTasks()` (240)
increments without a limit, it only says that it is a natural number. The last
three are proved together, as parts of the invariant `Sound` of one psid:
`declareNodeDead()` chooses the next master among the nodes between the dead one and
itself, which is the lowest left only because the dead one was the lowest;
`declareNodeAlive()` of the first node met compares it with itself only, which is right
because whoever has no master is `Alone`; a ping reads `clientStat`, which is there
because of `Led`. Handlers are functions of the state of a psid, so the proof has one
lemma per operator: those that send messages or count pings keep the *view* (`Kin`),
the others lead from a `Sound` state to a `Sound` one. Nothing is assumed of the
messages for that, so it holds however late or wrong they are.

`Right` adds the types and `Total`, that the nodes up are counted. Neither would be
inductive alone. `TypeOK` needs `Led`, because `handleMasterTasks()` counts in a
`clientStat` it takes for granted, and the type of the messages under way, because
what a node is told to declare, to call or to check comes from them. `totNodes` stays
within `0..N` only since it counts: `declareNodeDead()` and `declareNodeAlive()` change
it together with the set of nodes up or not at all. Loops over nodes and lists keep the
types by `LoopEnds` and `LoopKeeps`. `NodesCounted` has been checked by TLC on the
instances of both runs, aside from them.

### `PsidPlugins`

`PsidPluginsProof` proves, for every finite number of plugins, whichever of them fail to
initialize or need time to finalize, and every order of requests:

* `TypeCorrect`: `Spec => []TypeOK`;
* `ReferencesMatch`: `Spec => []RefsMatch`, so that `doUnload()` leaves no reference to
  what it frees;
* `ForceEnds`: a load ends at every loop of dependencies, a removal by force ends and
  finds a victim in every loop of triggers; only the first pass of the shutdown,
  `PSIDplugin_finalizeAll()`, can go on for ever (section 6);
* `NoLoopNeverStuck`: `Spec => []NeverStuck`, with hypothesis A;
* `NoLoopProvided`: `Spec => []Provided`, with hypothesis A.

The only assumption is `PluginsAssumption`. TLC checks `NeverStuck` and `Provided` for
graphs with tidy loops as well, where `Patient` holds; the theorems hold for graphs
without loops of any size, with any `Faulty`, `Async` and `Patient`.

*The state between two calls* is `Sound`: the list has each plugin once, references are
mirrored and lead to loaded plugins (`Linked`), and each plugin is as `newPlugin()` left
it or is in the list (`Mark`). An operator that works on references in a loop passes on
states in which one reference lacks its mirror (`Detached`, `CutBetween`), so there is a
lemma for one turn of each loop and one for the loop as a whole.

*That calls end* is an argument about how deep they go. A call of `PSIDplugin_load()`
registers the plugin before it loads what that one requires, so each level has one
plugin less that is not loaded. A call of `walkDepGraph()` gives its plugin a distance
one larger than its caller's and returns at a plugin met before, so distances cannot
exceed the number of plugins (`Goes`, `Near`). A round of `forceUnloadPlugin()` that
finds a loop leaves some plugin met but not cleared, so there is a victim, and takes
its triggers; one plugin less is uncleared (`Uncleared`) in the next round. The levels
are numbers and the provers cannot do induction with a formula as parameter; the
lemmas take the set of the levels at which the claim fails and look at its least
member (`LeastNumber`).

*Without loops* there are numbers that grow along the dependencies (`Ranked`); the
references follow them (`Climbs`). `Clean` says that a plugin on its way out is triggered
by nobody; it is kept because a plugin that fails to load has not been given to anyone
yet, so each pass of `PSIDplugin_finalizeAll()` that is repeated evicts a plugin.
`Provided` needs in addition that no plugin is met by a walk and left uncleared
(`Steady`): only such a plugin would be passed over when one it requires is removed
by force, and this is what loops do (row "four plugins"). With that, `Supplied` is
inductive: a plugin at work has its reference in all it requires.

### Only model-checked

* `RDP!InStep`. It needs beyond `Linked` that the IDs of connections are fresh, which
  is true of the 31 bits of `random()` with high probability only, and of a finite set of
  IDs not at all.
* `FlowControl!StopsBalanced`, `AcksCounted` and `QuietMeansGoing`, which are true only
  while no daemon sends, no connection is lost and no window fills (section 6), and
  `Accounted`. The first two count by sums over sets of psids and of rows (`FoldSet`),
  which recur with an operator as argument; the provers cannot expand them.
* `PsidTasks`, whose handlers are recursive operators, which the prover cannot reason
  about.
* `PsidPlugins!NeverStuck` and `Provided` for graphs with loops, which are true for some
  of them only.
* The liveness properties `Resolved`, `WindowReopens`, `Continued`, `Converges`,
  `ForcedOut` and `ShutdownEnds`: they rest on fairness and so on ENABLED, for which the prover has
  no rules.

## 8 Not modelled, and what the models leave out

**RDP.** Sequence numbers are unbounded integers, so the signed 32-bit subtraction of
`RSEQCMP()` and its wrap are left out. The network drops packets and swaps neighbours of
one direction, it duplicates nothing (resends do). A new connection ID is never one
still around. Timers are Booleans that may elapse at any time. `ENOBUFS` is the same as
a lost packet. In one handler at most one kind of callback is answered, and a send out
of a reaction does not fail; the upper layer does not send to the same node from within
`RDP_PKT_UNDELIVERABLE`, which the psid can do: dropping a message may answer a
congested local client with `PSP_CC_ERROR`, which makes a `SENDSTOP` go to the
destination of the dropped message, i.e. to the node being closed (`psid.c` 171-188,
`psidcomm.c` 226-237). Statistics, setters at run time, `RDP_finalize()` and
`RDP_clearMem()` are left out.

**FlowControl.** A message is written to a socket as a whole. Stops of tasks of
group `TG_LOGGER`, which go to the logger as messages of their own, the
`DAEMONCONNECT` that `sendRDP()` inserts, refused connects, signals to relatives
at exit and reconnects after `exec()` are left out. A client that has sent
something does not connect again; the task ID of one that has only received may be
used again by a later process. `Rsendto()` fails for a full window only, so it does
not fail in the middle of a flush either, and `sendRDP()` refuses nothing: the
`EHOSTUNREACH` of a node without address (`psidrdp.c` 186-194) does not occur, that
of `CLOSE` (205-209) concerns errors and control messages only, which `Lost` throws
away, and the message is not dropped because another error of `Rsendto()` (223)
came in between.
`seen` counts what a client leaves unread in its socket when it exits as read: its
psid cannot know better.

**PsidStatus.** Multicast is off (then status comes by another way), every node has
an address, load and memory values of a ping are left out, the handshake of RDP is
one step. Protocol versions, the hooks and the list of CPUs exchanged at
`DAEMONESTABLISHED` are left out.

**PsidTasks.** Registered signals (`NOTIFYDEAD`), forwarders that die, obsolete
tasks, groups whose tasks hand nothing over, delayed and obstinate signals. All heirs
travel in one `ADOPTCHILDSET`; the code splits them over several messages from about 150
on, the last of which alone is answered by `INHERITDONE` (`psidsignal.c` 666-675).

**PsidPlugins.** `dlopen()`, versions, path of plugins, key-value lists, errors of
`malloc()`. A plugin calls `PSIDplugin_unload()` only once it is finalized, as all
plugins of the repository do; the code (`psidplugin.c` 622-633) does not ask for it
(section 6). **Fragments.** Packing of data types, extra data, errors of `malloc()`,
garbage collection of buffers; a process composes one message at a time.

**Other components.** Not modelled yet: spawning (`psidspawn.c` beyond births and
deaths of children), partitions and reservations, forwarder and logger, the phases
of the shutdown that kill clients, event loop and timers, pools, the key-value
space. Not intended: configuration, hardware, accounting, scripts, front ends and
the Slurm plugins (input and output, interfaces to the kernel or to other systems),
PMIx (control flow of an external library), multicast (off by default), and the
client library (a client is external). The Slurm, PMIx and other plugins make up
most of the repository's lines; their bulk is packing, option parsing and
interfaces to other systems, so the share of lines that models can stand for
stays small, while the protocols all of them rest on are modelled.

## 9 Plan

1. `Partition`: requests, reservations and hardware threads in use; a thread
   belongs to one user and comes back, through node failures and
   `CHILDRESREL`. Then `Spawn`: spawn requests, their answers and delayed tasks.
2. `Forwarder`: connection to the logger, buffered input, the exit of the client.
3. `PsidTasks`: registered signals (`NOTIFYDEAD`, `RELEASE`) and dying forwarders.
4. Proofs: `InStep` in `RDP`, from connection IDs that are never used again;
   `InOrder` with a `Rsendto()` from within `RDP_LOST_CONNECTION`, or a counterexample;
   in `FlowControl` `StopsBalanced` and `AcksCounted`, with sums that are recursive
   functions; `PsidTasks` with handlers that are functions of the levels left, as
   those of `PsidPlugins` are.

## 10 Running

    tlc -workers 2 -config rdp_loss.cfg MCRDP
    tlc -workers 2 -config flow_socket.cfg MCFlow
    tlc -workers 2 -config status_views.cfg MCStatus
    tlc -workers 2 -config tasks.cfg MCTasks
    tlc -workers 2 -config plugins.cfg MCPlugins
    tlc -workers 2 -config fragments.cfg MCFragments
    tlapm RDPProof.tla
    tlapm RDPCalls.tla
    tlapm RDPQueueProof.tla
    tlapm RDPLinkProof.tla
    tlapm FlowControlProof.tla
    tlapm FragmentsProof.tla
    tlapm PsidStatusProof.tla
    tlapm PsidPluginsProof.tla

Each run takes less than three minutes, each of the proofs up to two.
