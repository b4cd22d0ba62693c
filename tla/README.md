# TLA+ models of the MPICH2 CH3 device

MPICH2 implements MPI in three layers: the MPI functions (`src/mpi`), an
abstract device (`src/mpid`, here the CH3 device `src/mpid/ch3`) and a channel
that moves packets between two processes (`src/mpid/ch3/channels`: sock,
nemesis, shm and others).  The algorithms and data structures of MPI itself are
mostly sequential.  What is hard is the device: every call of the program, every
packet of a peer and every completion event of the channel changes the same
requests, queues, windows and connections, in any order.  These models are about
that part.  Paths below are relative to the repository's root; a file named
without a directory is in `src/mpid/ch3/src`.

* [Inventory](#inventory)
* [The modules and the code](#the-modules-and-the-code)
* [What the runs check](#what-the-runs-check)
* [What is proved](#what-is-proved)
* [What the models found](#what-the-models-found)
* [What is not modelled](#what-is-not-modelled)
* [Plan](#plan)

## Inventory

The components of the system, the state each keeps, what changes it and what
makes it correct.  `PROJECT.json` lists all of them with their status, and the
hazards at the line where they bite.

| component | state | operations | hard behaviour | correct when |
|---|---|---|---|---|
| close protocol (`ch3u_handle_connection.c`) | `vc->state`, `MPIDI_Outstanding_close_ops` | `VC_SendClose`, close packet, TERMINATED event, re-activation | both ends close at once; data and closes cross | the assertions of the handler hold, nothing in flight is lost, the count is exact, both ends end inactive |
| point-to-point (`mpid_isend.c`, `mpid_send.c`, `mpid_issend.c`, `mpid_irecv.c`, `ch3u_eager*.c`, `ch3u_rndv.c`, cancels) | request objects, partner and sender handles, completion counters | sends and receives, nine kinds of packet, completion events, cancels | a receive posted while data of its message is still being read; a cancel crossing with the match, the ack or the clear-to-send; handles reused | messages are matched in order, at most once, with the right data; a cancelled send is withdrawn or received, never both; everything matched completes |
| matching queues (`ch3u_recvq.c`) | posted and unexpected queue | find-and-dequeue, find-or-append | wildcards; several entries with one handle | first in order among those that fit |
| requests (`ch3u_request.c`, `mpidimpl.h`, `mpidpost.h`, `handlemem.c`) | reference count, completion count, free list | create, complete, release, wait, free | completion and `MPI_Request_free` in any order; the memory is not cleared | one reference per holder; a handle in a packet names its request |
| RMA, passive target (`ch3u_rma_sync.c`, `ch3u_rma_ops.c`, handlers in `ch3u_handle_recv_pkt.c` and `ch3u_handle_recv_req.c`) | lock type, reader count, lock queue of a window; at an origin `lock_granted` | lock, lock-operation-unlock in one packet, operations, release | release re-entered from a response it writes; data arriving after the queue was scanned; one flag with two meanings | locks exclude, none is lost, every epoch ends, the count `MPI_Win_free` waits for is exact |
| RMA, active target (same files) | `my_counter`, `fence_cnt`, the list of operations | fence, post, start, complete, wait | operations that overtake the call that sets the counter; the next epoch begins while others are in the last one | the counter is exact, operations are done inside their epoch, every call returns |
| VCs, VC reference tables, process groups (`mpid_vc.c`, `mpidi_pg.c`, `mpid_finalize.c`, `mpid_comm_disconnect.c`) | three levels of reference counts | connect, dup, merge, free, disconnect, finalize | a free and a disconnect drop different numbers of references; packets still under way when a group is destroyed | freed once, after the last use; every call returns |
| sock connections (`src/mpid/ch3/util/sock/ch3u_connect_sock.c`, `channels/sock/src`) | connection state, per-VC send queue | connect, accept, open, write and read events | two processes connect to each other at once; messages wait for a connection that is refused | one connection survives, the same at both ends; packets in order; refused ones are closed |
| nemesis (`channels/nemesis`) | lock-free queues, fastboxes, sequence numbers | enqueue, dequeue, send, poll | enqueuer and dequeuer without a lock; two ways from one process to another; cells run out | every cell once, in order; messages in order; everything arrives |
| context ids (`src/mpi/comm/commutil.c`, `comm_create.c`, `comm_split.c`) | the mask, the owner of the mask, the two ids of a communicator | collective allocation by threads, exchange between two sides, free | threads race for the mask and retry; the mask is read before and changed after a collective operation | same id everywhere, no two communicators of a process receive on it, every call returns |
| dynamic processes, collectives, datatypes, attributes, process managers, ROMIO, MPE | | | | see `PROJECT.json` |

How they interact: the program's calls and the channel both run *handlers* of the
device.  A call may complete at once, or leave a request that a later packet
completes.  `MPIDI_CH3U_Handle_ordered_recv_pkt` dispatches a packet to its
handler; if its data is not all there, the handler returns a request and the
channel calls `MPIDI_CH3U_Handle_recv_req` when it is; `MPIDI_CH3U_Handle_send_req`
reports that data has been written.  The close protocol runs below all of them
on the same connection.  One process is single-threaded inside the device (a
global lock with threads), so a handler is one atomic step, and processes
interleave freely.

## The modules and the code

| module | code it stands for | content |
|---|---|---|
| `VCClose` | `ch3u_handle_connection.c` | both ends of every VC and the packets between them |
| `VCClose_proofs` | | the theorems about `VCClose` |
| `Teardown` | `mpid_vc.c`, `mpidi_pg.c`, `mpid_finalize.c`, `mpid_comm_disconnect.c` | two programs, their communicators and the reference counts; composed with `VCClose` |
| `Teardown_proofs` | | that the counts of `Teardown` are exact |
| `TeardownClose_proofs` | | that `Teardown` implements `VCClose`, and what that needs |
| `CH3Pt2Pt` | the point-to-point files, request objects | the device of every process, and the wires |
| `Recvq` | `ch3u_recvq.c` | the searches of the two queues, as operators |
| `MPIMatch` | (the promise of MPI, no code) | the abstract specification of matching; `CH3Pt2Pt` implements it |
| `RMALock` | `ch3u_rma_sync.c`, the RMA handlers | passive target: one window, its target and its origins |
| `RMAActive` | the same files | active target: one window, every process both origin and target |
| `InOrderChannel` | (what the device expects, no code) | the abstract specification of a channel |
| `SockConn` | `ch3u_connect_sock.c`, `channels/sock/src` | both ends of the connections of two processes; implements `InOrderChannel` |
| `SockConn_proofs` | | the safety properties and the refinement of `SockConn` |
| `NemChannel` | `channels/nemesis/src/ch3_progress.c`, `mpid_nem_inline.h`, `mpid_nem_fbox.h` | the shared-memory channel; implements `InOrderChannel` |
| `NemChannel_proofs` | | the safety properties and the refinement of `NemChannel` |
| `CellQueues` | (what `NemChannel` uses, no code) | the abstract specification of the queues of cells |
| `NemQueue` | `mpid_nem_queue.h` | the lock-free queues and their clients; implements `CellQueues` |
| `ContextAlloc` | (what an id is for, no code) | the abstract specification of the pools of ids |
| `ContextId` | `commutil.c`, `comm_create.c`, `comm_split.c` | threads that create and free communicators; implements `ContextAlloc` |
| `ContextId_proofs` | | the safety properties and the refinement of `ContextId` |
| `NemQueue_proofs` | | the type invariant and the refinement of `NemQueue` |
| `MCPt2Pt`, `MCRMALock`, `MCRMAActive`, `MCNemQueue`, `MCNemChannel`, `MCContextId` | | instances for TLC |

The layers meet as they do in the code.  `VCClose` and `CH3Pt2Pt` assume that a
channel delivers one direction in order; `SockConn` and `NemChannel` show that the
two channels do.  `NemChannel` assumes queues whose cells appear some time after
they were enqueued; `NemQueue` shows that its memory accesses amount to that.
`VCClose` leaves open when a program closes or opens a VC; in `Teardown` the
programs decide through reference counts, and `ImplementsClose` shows that every
step they make is one that `VCClose` allows, so that its theorems apply.
`SockConn` in turn uses the close protocol by contract: a connection is terminated
at both ends, after everything sent on it has arrived.

Actions carry the name of the function they model; `PROJECT.json` ("map") gives
the lines of each definition.  An operator with a suffix, as in
`Answers_unacked_only`, is a *mutant*: the definition below it with a plausible
mistake.  It is never used in a specification; replacing the definition by it must
break a property, which shows that the property depends on that code.

### VCClose

`vcState[p][q]` is `vc->state` of `p`'s VC to `q`, `wire[p][q]` the packets from
`p` that `q` has not handled.  A channel delivers one direction in order; the
order of handlers of different VCs is free.  `terminating` records that
`MPIDI_CH3_Connection_terminate` was called and its TERMINATED event is still to
come.  A failed assertion is a missing step: `PktHandler_Close` has the asserted
states as its guard, and `AssertionsHold` says that the guard is true whenever a
close packet is next.

Two guards are conditions of the environment rather than tests in the code.  A
VC is closed (`VC_SendClose`) from a state the function asserts.  A VC is
activated again only when the peer is not in the middle of the last close
(`vcState[q][p] # "CLOSE_ACKED"`): a communicator that reaches `q` again exists
only after the barrier of its creation (`SetupNewIntercomm` in `ch3u_port.c`), so
`q` has left the disconnect that waited for its closes.  `Teardown` has neither
assumption: there both follow from the calls of the programs.

### Teardown

Two programs that were started apart: each process is a process group of its own
and knows one other group, with one VC.  `pg[p]` is that group at `p`: whether it
is known, its `ref_count`, and the `ref_count` of its VC; `vcrt[p]` the counts of
the VC reference tables and `comm[p]` the table of every communicator.  The
variables of `VCClose` are shared with an `INSTANCE` of it, whose actions are used
as they are.  A call consists of the steps between which other handlers run:
`MPI_Comm_connect` and `MPI_Comm_accept` exchange the groups, make the
intercommunicator and synchronize; a dup or a merge exchanges messages for the
context id before it makes the communicator; a disconnect releases, then waits for
its closes; `MPI_Finalize` closes what is open (`MPIDI_PG_Close_VCs`), waits, and
destroys the groups.  The progress engine runs only inside calls, so `Progress`
is disabled between `Comm_get_vc` and the sending of the packet.  A packet for a
VC whose group was destroyed has no step, which `NothingForDestroyedGroup`
excludes.

`calls` is what the two programs do: MPI demands that both make the same
collective calls on a communicator in the same order and receive what is sent, so
they share one list; whoever reaches the end of it chooses the next call, and the
other one makes it at any later time.

### CH3Pt2Pt, Recvq, MPIMatch

`dev[p]` is the device of process `p`: its request objects, their LIFO free list,
the posted and unexpected queues and, for each peer, the receive whose data is
being read.  The fields of a request are those of `MPID_Request` that a handler
reads: `ref` (reference count), `cc` (completion counter), `pending`
(`recv_pending_count`), `sreq` (`sender_req_id`), `partner` (`partner_request`),
and flags.  `sreq` survives in a freed object because `MPIU_Handle_obj_alloc`
does not clear it.  The data of a message is its identity; a buffer is right when
it holds the identity of the message that was matched.  `sends` and `recvs` are
history: the state of the messages and receives as the program sees them.

One action is one call or one handler with everything it calls.  The kinds of
send are the branches of `MPID_Isend`, `MPID_Issend` and `MPID_Send`:

| mode | code path |
|---|---|
| `eager`, `empty` | `MPIDI_CH3_EagerContigIsend`, with data and without |
| `noncontig` | `MPIDI_CH3_EagerNoncontigSend` |
| `sync`, `syncempty` | `MPIDI_CH3_EagerSyncNoncontigSend`, `MPIDI_CH3_EagerSyncZero` |
| `rndv`, `srndv` | `MPIDI_CH3_RndvSend` from `MPID_Isend` and `MPID_Issend` |
| `send`, `sendempty` | `MPIDI_CH3_EagerContigSend` from `MPID_Send` |
| `sendshort` | `MPIDI_CH3_EagerContigShortSend`: the data is in the packet |

Abstractions.  Data arrives with its packet or later (`Handle_recv_req`), once:
further pieces of an IOV are no new case.  The requests that `iStartMsg` returns
for packets without data (request-to-send, acks, cancels) are released at once
and left out.  `partner` is set for self messages only; for all others the code leaves it NULL.  A
program with several threads may be inside `MPI_Send` and make other calls; a
blocking send is therefore no barrier to other actions of its process.
Truncation, errors and ready sends are left out.

`MPIMatch` is what MPI promises of `sends` and `recvs`: a match joins a pending
message and a posted receive that fit, and no older message of the same sender
fits the receive and no older receive fits the message; a pending message or
receive may be cancelled.  `MatchingInOrder` says that `CH3Pt2Pt` implements it:
every step of the device maps, on `sends` and `recvs`, to one step of `MPIMatch`
or to none.

### RMALock

One window at `Target`.  `tgt` is the target side: `type`
(`current_lock_type`), `cnt` (`shared_lock_ref_cnt`), the lock queue, `puts`
(`my_pt_rma_puts_accs`), `counter` (`my_counter`), what is still being received
(`recv`), get responses that are still to be written (`resp`) and the packets to
the origins (`out`).  `org[o]` is the origin side, with `granted` for
`lock_granted`.  `held`, the epochs that were granted the lock and have not
released it, is history.  A program (`Programs`) is an epoch: a lock type, the
sequence of its operations, and whether they fit in a single packet.

`MPI_Win_lock` at an origin and the operations only build a list, so they are part
of the step `Win_unlock`, which sends the first packet.  `Release_lock` is one
atomic step, as in the code: a `FoldLeft` over the lock queue for each pass of
its `do` loop.  `quick` is the set of origins to which a response is written
at once; only then is `Release_lock` re-entered from its own loop.  A loop that
does not end is modelled by `spins`: the target makes no further step.
The data of an operation, errors, lack of memory and zero-size operations (which
`MPIDI_Put` and its siblings never queue) are left out.  The requests of puts
complete at the origin without anybody waiting for the target, so they are left
out too.

### RMAActive

A program (`Plans`) is a sequence of rounds that all processes follow: a fence with
its assert, or an access, given by the pairs of an origin and a target, for which the
targets call post and wait and the origins start and complete.  A process may be
several rounds ahead of another.  `win[p]` is the window object (`fence_cnt`,
`my_counter`, the listed operations) and where the process is; `posts` are the empty
messages of `MPI_Win_post` that wait for the receive in `MPI_Win_complete`; `recv[q]`
is the operation of `q` whose data is still coming.  `MPI_Put`, `MPI_Get` and
`MPI_Accumulate` only list an operation, so the list is chosen in the step that sends
it, from `OpLists`.  `reduce[p]` are the contributions of `p` to the `Reduce_scatter` of
its fences: a fence passes it when all processes have entered theirs.

A get response on `wire` may be not yet `written`: `iSendv` left it on the send queue,
and its data will be read from the window when it is written.  Packets behind it are not
read before.  Every packet carries the round of its epoch, which only the properties
read.  With `MPI_MODE_NOCHECK` the program, not the code, must see to it that the
target has posted, so `Win_start` has that as a guard.  The waits for a passive-target
lock at the beginning of fence, post and start are left out: no process locks this
window.  An operation on the own window is done by the call itself, without a packet.

### SockConn

A connection is named by the process that made it and a number, and has a
structure `conn[p][i]` at both ends: its state (`CONN_STATE_*`), whether `conn->vc`
is set, whether `conn->send_active` is, which reads and writes are posted.  `vc[p]`
is the state and the connection of `p`'s VC, `sendq[p]` its send queue, `wire` the
bytes on the socket as packets.  One action is one event of the progress engine or
one call of the device.  The open request is read in two steps, as in the code:
the fixed part first, then the name of the process group, after which
`Accepts` decides.  Two processes of one group compare their ranks; those of
different groups compare the names of the groups with `strcmp`, which is another
total order and no other case.  A write that cannot take all of a message
leaves it at the head of the queue (`active`); this may happen only when the peer
has not read all that went before.

The messages from `p` that its peer has not got are those on the wires of `p`, behind a
control packet at most (`Messages`), and then those of the send queue, without the one
that is `active` and partly on the wire already.  That is `Chan`, the refinement mapping
to `InOrderChannel`.

`LateConnects` tells whether a VC may be closed while another attempt to connect is
still pending.  It is FALSE in the run, and an assumption of the theorems: see finding 9
under [What the models found](#what-the-models-found).

### NemQueue, CellQueues

`head`, `tail` and `my_head` are the fields of a queue, `next` the links of the
cells; every read or write of shared memory is a step of its own, the swap and the
compare-and-swap of the code are atomic steps.  The clients are those of the
channel: a process takes a cell off its free queue, puts it on the receive queue of
another process, which takes it off and returns it to the free queue of its home.
The code has no other use of the queues.  Steps take effect in the order of the
program: the model is about the algorithm, not about weak memory.

The refinement mapping recovers a sequence from the links and, where the link is
still to be written, from the `r_prev` that the enqueuer keeps: what is behind a
missing link is `arriving`, what the owner can reach is `ready`.

### NemChannel, InOrderChannel

`fbox[p][q]` is the fastbox from `p` to `q`; `arriving` and `ready` are the two
parts of the receive queue of a process as in `CellQueues`, `free` and `returning`
the same for its free queue, counted only (the cell that the code prefetches
counts as free).  `sendq[p]` is the one send queue of a process.  A message is a
header alone (`header`), fits one cell (`small`) or needs two (`large`); the three
pairs of send functions (`send_header`, `sendv_header` with `sendv`,
`send_seg_header` with `send_seg`) have the same cases except that a header that had
to wait no longer uses the fastbox (`Fits`).  The direct attempt of `iStartMsg` is
the step at `pc = "start"`.  `MPIDI_CH3I_Progress` is cut where the code decides:
the fastboxes of processes for which a receive is posted, the queue, one fastbox of
the others, then the sends.  Which receives are posted is abstracted to any set.
The progress engine is single-threaded here.

The channel that the model implements is made of items, messages with a place
(`Undelivered`): the message being received has place 0, the first parts in flight follow
by their distance from the receiver's sequence number (`Age`), wherever they are, then
come the entries of the send queue.  `InOrder` lists the messages by place, and
`InOrderChannel` says that this list only grows at its end and shrinks at its head.

### ContextId, ContextAlloc

`context_mask[p]`, `mask_in_use[p]` and `lowestContextId[p]` are the three shared
variables of a process; `thread[<<p, c>>]` is the thread of `p` that makes the calls on
the communicator `c`, with `own_mask` and its `local_mask`.  A thread holds the
global critical section except in a collective operation and in its yield, so these
are where its steps end.  The calls a program makes (`Programs`) are given by the
classes of processes that its colours or groups describe: MPI_Comm_create is
MPI_Comm_split with one class.  A thread frees its communicators at any time and
without a barrier, as `MPI_Comm_free` does.

For an intercommunicator, `c` and `Peer[c]` stand for the local communicators of the
two sides: each side agrees on an id, the leaders exchange them, and the new
communicator has two ids, one to send on and one to receive on.  The calls are
collective over both sides, so both make the same ones (`ProgramsAssumption`).

## What the runs check

Every bound is a CONSTANT with a value in the `.cfg`.  All runs say
`CHECK_DEADLOCK FALSE` because a bounded program comes to its end.

| run | instance | distinct states | what it shows |
|---|---|---|---|
| `vcclose` | two processes, opened twice from either end, 2 data packets in flight | 1,081 | no assertion fails, nothing is lost, the count is exact, closes terminate |
| `teardown` | two programs of up to 4 calls, connected up to twice | 48,787 | reference counts, when groups are destroyed, the rules of the close protocol, calls return |
| `pt2pt_mixed` | 2 messages of 2 kinds, cancelled and freed at any time, 4 handles | 511,590 | reference counts and handles stay right with reuse; cancels; matching in order |
| `pt2pt_live` | 1 message to self and 1 of 10 kinds from a peer, 1 receive, source wildcard, cancels on both sides, 4 handles | 47,154 | the data is right; synchronous sends wait; cancelled sends and matched requests complete |
| `rma_two` | 2 origins and the target itself, 1 or 2 epochs each, 18 programs | 78,572 | every property of the window, every kind of epoch |
| `rma_active` | 3 processes, 4 programs of 2 or 3 fences and accesses, up to 2 operations of a process in an epoch | 83,920 | the counter is exact, operations stay in their epoch, every call returns |
| `sockconn` | 2 processes, 2 attempts to connect and 2 messages each | 43,807 | crossing connects, reconnects, order of messages, everything settles |
| `nemqueue` | 3 processes, 4 cells, all 6 queues | 76,275 | the lock-free queues are queues, cells come back |
| `nemchannel` | 3 processes, 2 cells each, sequence numbers modulo 4, 2 + 1 or 3 messages of 1 or 2 packets | 43,768 | order between fastbox and cells, shortage of cells, wrap-around, everything arrives |
| `contextid` | 3 processes, 5 programs with 2 or 3 threads that compete | 55,056 | ids agree, are distinct, are taken and given back once; calls return |
| `rma_mixed` | 2 origins and the target, shared and exclusive locks | | violation: `Release_lock` spins |
| `rma_active_get` | the same programs, a get followed by a put to the same target | | violation: an epoch ends before its get is done |

Why the bounds are enough for the cases in question.

* A close needs two ends; a second activation shows that the first one left nothing
  behind; two data packets let one be in flight on either side of a close.  In
  `teardown`, four calls allow a connect, a dup or merge of it or a message, and two
  of free, disconnect and finalize, or a connect after the end of the first one; all
  orders of them occur.  `MaxOpen` and `MaxData` are large enough never to stop a call.
* In the point-to-point runs two messages and two receives are the fewest that can
  overtake each other, cross with a cancel, and meet a handle used before: after
  the first message is waited for its handle is free while the message is still
  unexpected.  Four handles hold the two receives and the two unexpected
  messages of the receiver at once, so nothing is missed for lack of a handle (an
  exhausted pool is a bound of the model, the code's pool grows).
* In `rma_two` the queue holds two entries when two processes wait for a third,
  with all orders of late data.  The programs are restricted to those for which the
  two defects of `Release_lock` below do not occur: the second origin has
  single-packet shared puts only, so that a shared lock granted in the loop never
  stays granted while the loop goes on.
* `pt2pt_live`: two messages race for one receive, so that one of them stays
  unexpected; a message to self needs two handles, the receive and the other message
  one each, so that a handle is always left for an arriving packet.
* `rma_active`: two origins and one target make the counter exceed one; an access in
  both directions follows, so that the next epoch begins at some while it ends at
  others; three fences let the operations of the second epoch meet the counter of the
  first; two operations are the fewest of which only the last is marked.
* `sockconn`: one attempt of either process crosses with one of the other, the
  second follows a close; two messages let one be written or partly written while
  the other waits.
* `nemqueue`: two senders have three cells for one receiver, so that two enqueuers
  meet on one queue while its owner empties it; a process with two cells puts both
  on one queue; `r` answers, so that its process is enqueuer and dequeuer at once.
* `nemchannel`: a message of two packets takes both cells of a process, so that the
  next one must wait or take the fastbox; four sequence numbers come
  again with the six packets of three messages of one sender.  They must only exceed
  the packets that can be under way between two processes (its cells and one
  fastbox, `NemChannelAssumption`); the code's numbers are `unsigned short` and its cells 64 or 128.
* `contextid`: three calls that meet at one process, two of them at another one too, so
  that each can have the mask the other one needs (the case in which everyone could
  wait for everyone); two calls in a row on each of two
  communicators; intercommunicators.  Nine bits in words of three make the search
  across words matter.

**Properties.**

* `VCClose`: `AssertionsHold`, `TerminateLosesNothing` (when a connection is
  terminated the peer has sent everything and it was handled), `OutstandingExact`
  (`WaitForClose` returns neither early nor never), `CloseTerminates`.
* `Teardown`: `RefsInv` (tables, VCs and groups count exactly what refers to them,
  a VC once more until its disconnect), `NothingForDestroyedGroup`,
  `ImplementsClose`, `CallsReturn`.
* `CH3Pt2Pt`: `RefExact` (the reference count is one for the holder and one
  for the device until completion), `HandlesValid` (a handle in a packet names
  the request it was sent for, still incomplete, whatever the program freed or
  cancelled), `DataRight`, `CancelExact` (a send reports "cancelled" iff its own
  message was withdrawn), `SyncMeansMatched`, `MatchingInOrder`,
  `CancelCompletes`, `MatchedCompletes`.
* `RMALock`: `LockInv` (epochs that hold the lock exclude each other, and lock
  type and reader count agree with them), `PutsExact`, `RepliesExpected` (a reply
  finds the origin in the wait it ends), `EpochsEnd`.
* `RMAActive`: `CounterInv` (`my_counter` is at every moment the number of processes
  that still have to finish here, and before the `Reduce_scatter` has told how many there
  are, the size of the communicator less those that have), `OpsInEpoch` (an operation is
  neither done before its target has entered the epoch nor after it left),
  `CallsReturn`.
* `SockConn`: `AssertionsHold`, `OneConnection`, `ImplementsChannel`, `Settles`.
* `NemQueue`: `ImplementsQueues`, `CellsReturn`.
* `NemChannel`: `AssertionsHold` (a fastbox holds a whole message and is only taken
  between messages), `ImplementsChannel`, `EverythingArrives`; its `TypeOK` counts
  the cells.
* `ContextId`: `IdsRight` (no process receives on one id for two communicators, and
  the members of one agree), `ImplementsAlloc`, `CallsReturn`.

**Fairness.**  `FairSpec` assumes weak fairness of the progress engine: of
the handlers of each channel, of the events of the channel below, and of the
continuation of a call whose wait is over.  The code justifies
it: a process with a close outstanding sits in `MPIDI_CH3U_VC_WaitForClose`; a
process that waits in `MPI_Win_unlock` or `MPI_Win_lock` calls
`MPID_Progress_wait` in a loop; and every process enters the progress engine
again at the latest in `MPI_Finalize`, `MPI_Win_free` or a barrier.  The target
of an RMA window also unlocks what it has locked itself.  `MPIDU_Sock_wait` returns
the events of all sockets in turn (`SockConn`).  In `NemQueue` the steps of an
operation under way are weakly fair, and the look at the receive queue strongly: it
is possible only between other operations of its process, and
`MPIDI_CH3I_Progress` looks there in every round.  In `ContextId` the scheduler runs
every thread, an `NMPI_Allreduce` that all members have entered ends, and programs
free what they create; strong fairness is not needed for the mask because
`lowestContextId` breaks the ties.  In `Teardown` a program follows the other one
into a call that has been chosen, and in `RMAActive` every process makes the calls of
its program in their order: the calls are collective or come in pairs, so that a call
cannot return unless its counterpart is made.  No fairness is assumed of starting
anything else: sends, receives, cancels, passive epochs, closes, connects.

## What is proved

TLAPS proves for every value of the constants, and so for every value of the bounds:

| module | theorem | statement | beyond the module's assumptions |
|---|---|---|---|
| `VCClose_proofs` | `InvariantHolds` | `Spec => []IInv` | |
| | `TypeCorrect` | `Spec => []TypeOK` | |
| | `AssertionsNeverFail` | `Spec => []AssertionsHold` | |
| | `NothingLost` | `Spec => []TerminateLosesNothing` | |
| | `CountExact` | `Spec => []OutstandingExact` | |
| `Teardown_proofs` | `RefsAlwaysExact` | `Spec => []RefsInv` | |
| `TeardownClose_proofs` | `LinksAlways` | `Spec => []CloseInv` | |
| | `TeardownImplementsClose` | `Spec => ImplementsClose` | |
| | `NoDestroyedGroupUsed` | `Spec => []NothingForDestroyedGroup` | |
| | `ProgramsCloseSafely` | `Spec => [](Close!AssertionsHold /\ Close!TerminateLosesNothing)` | |
| `ContextId_proofs` | `MaskLentToOne` | `Spec => []TypeOK` | |
| | `NewCommsAgree` | `Spec => []MembersAgree` | |
| | `IdsAlwaysRight` | `Spec => []IdsRight` | `NoClassBetween` |
| | `IdsAllocatedOnce` | `Spec => ImplementsAlloc` | `NoClassBetween` |
| `SockConn_proofs` | `HeldIsAllocated` | `Spec => []TypeOK` | `~LateConnects` |
| | `AssertionsAlwaysHold` | `Spec => []AssertionsHold` | `~LateConnects` |
| | `AlwaysOneConnection` | `Spec => []OneConnection` | `~LateConnects` |
| | `ChannelInOrder` | `Spec => ImplementsChannel` | `~LateConnects` |
| `NemChannel_proofs` | `ChanAlways` | `Spec => []ChanInv` | |
| | `NoCellLost` | `Spec => []TypeOK` | |
| | `ReceiveAssertions` | `Spec => []AssertionsHold` | |
| | `ChannelKeepsOrder` | `Spec => ImplementsChannel` | |
| `NemQueue_proofs` | `LinesAlways` | `Spec => []QueuesInv` | |
| | `NonemptyHasCell` | `Spec => []TypeOK` | |
| | `QueuesKeepCells` | `Spec => ImplementsQueues` | |

The assumptions of a module (`VCCloseAssumption`, `TeardownAssumption`,
`ContextIdAssumption`, `ProgramsAssumption`, `SockConnAssumption`, `NemChannelAssumption`,
`NemQueueAssumption`) only give the constants their types and say what the code relies
on: two processes in `Teardown` and `SockConn`, whose ranks differ; `Peer` its own inverse
in `ContextId`; in `NemChannel` more sequence numbers than the cells of a process and one
fastbox can hold; in `NemQueue` that each cell is one element of one process.  `BoundsAssumption` of
`Teardown` says that the bounds of `VCClose` do not stop a program that makes `MaxCalls`
calls; without it `SendData` of `Teardown`, which has no bound, would be no step of
`VCClose`.  The two others exclude programs for which the code is wrong, and nothing else: without
`NoClassBetween` (no class of a split spans the two sides of an intercommunicator)
finding 4 violates the statement, without `~LateConnects` finding 9 does.

### VCClose

None of the three safety properties is inductive: whether a close
packet is expected depends on what its sender was doing when it sent it and on
what else is on the two wires.  The inductive invariant is
`IInv == TypeOK /\ VCInv /\ OutstandingExact`.  `VCInv` is a relation `PairInv`
between the states `x`, `y` of the two ends and the two wires:

* `WireOrder`: `close(FALSE)` is followed by `close(TRUE)` at most, and
  `close(TRUE)` by nothing;
* `OpenFirst`: an inactive end hears of the connection first;
* `FalseInFlight`, `TrueInFlight`: in which states the two ends are while a close
  of either kind is on its way.  The central case is a crossing: both ends are in
  `LOCAL_CLOSE`, each with a `close(FALSE)` on its wire; whoever handles it first
  answers with `close(TRUE)`, which must come last;
* `EndInv`: what one end may conclude about the other from its own state, in
  particular that an end that is terminating has an empty wire towards it.

The proof has one lemma per action about one pair of ends (`ActivateStep`,
`SendDataStep`, `SendCloseStep`, `RecvOpenStep`, `RecvDataStep`, `RecvFalseStep`,
`RecvTrueStep`, `TerminatedStep`), stated on states and sequences without
tables.  `OnePair` lifts such a step of `p` and `q` to all processes: the
other pairs are untouched and the same pair read from the other end is covered by
`PairInv` in both directions.  `CountAdd` and `CountRemove` do the same for the
number of closing VCs.  `NextInv` combines them, one step per action.

`VCInv` is no property of a run any more: `InvariantHolds` proves it.

### Teardown

`RefsInv` compares counts with the tables that refer to them, but which tables there
are follows from the calls made so far, and a call has its effect before it returns.
`TeardownInv` therefore adds where a program is: `CallInv` (the programs name only
communicators that they have at that point: `Live` after the calls before), `PlaceInv`
(the phase fits the call, the communicators of a program are those of `Live` up to
`Done`), and `CountInv`, which is `RefsInv` for every phase: during `MPI_Finalize` the VC
and the group have already lost what their last table held (`Finalizing`).  `LiveStep`
and `LiveAppend` say how a call changes the live communicators; `NewTableRefs`,
`ShareTableRefs`, `LastRefs` and `ReleaseRefs` how a new communicator, a shared table and
a released one change the number of users of a table; `SetVC`, `GetVC`, `TerminateVC` and
the like what a step of the close protocol does to the VC.  Then one lemma per action.

`RefsInv` is about one program at a time; that the close protocol is used as it must be is
about both.  The guards of `VCClose` that have to be derived are that nobody opens a VC
whose other end is `CLOSE_ACKED`, that nobody sends on a VC it is closing, and that nobody
closes a VC that is not open.  `CloseInv` of `TeardownClose_proofs` adds to `TeardownInv` and
to the invariant of `VCClose`, for each program (`LinkInv`):

* `MessageInv`: the messages it has sent in its calls are those that the other one has
  received, has not yet received (`unread`) or has not yet seen (`Flying`).  The two
  programs may be many calls apart, so that this counts calls (`Messages`, with
  `MessagesGrow` for what two counts say of the calls between);
* `ConnectInv`: nobody leaves a connect before the other one has made its communicator;
* `SenderInv`, `OpenInv`: who has a VC in hand is about to send on it, and so every open
  request is followed by a message or by a sender that is about to send one;
* `UseInv`: an open VC is referred to, or has been closed by `MPI_Finalize`;
* `OpensInv`: a VC is opened once in a call at most.

The argument is `SentToCommunicator`: if `p` is in a call in which it sends, or before
which it has sent, and its peer `q` has not finished that call, then `q` has a communicator
(`HasComm`).  For `q` is not past the end of the communicator of the call, which is live for
both; and if `q` is still in an earlier call that makes it, that call is a connect that `p`
has left (`ConnectInv`) or one in which `q` has sent something that `p` received
(`MessageInv`).  A message under way, an unread one and a sender thus all find a
communicator at the other end (`MessageHasCommunicator`), which means a VC with references
that is not being closed (`CommunicatorUsesVC`).  The guards follow (`GetVCCloses`,
`SendDataCloses`), and so does that a packet never comes for a group that was destroyed
(`DestroyedUnused`): such a packet would be an open request, hence a message.  `LinkStep` does
the frame for every step of one program; the lemmas named `...Link` then give what the step
changes.  `ProgramsCloseSafely` is what follows from the theorems on `VCClose`.

### ContextId

Four inductive invariants, each using the ones before.

* `LendInv`: the mask of a process is lent to one thread at a time, and bits are at
  one place: in the mask, in the communicators, or in the thread that holds them.
  `FindBit` and `IdBits` are about the search for the lowest bit; `ContributeEffect` to
  `FreeEffect` give the effect of each step on one process, `OneThread` says that the
  other threads keep what they have.
* `AgreeInv`: the members of a communicator know the same results of the collective
  calls up to the one they are in (`Knows`, `KnownTo`, `Told`): all threads that have
  passed the n-th `NMPI_Allreduce` found the same bit in it.
* `DistinctInv`: the ids a process receives on, the bits its threads hold and the bits
  of its mask are disjoint.  Here `NoClassBetween` is needed.
* `IdsAllocatedOnce`: a step that finds a bit takes it at all members at once in the
  abstract specification, a free gives it back, everything else stutters
  (`TakeStep`, `GiveStep`, `QuietStep`, and one lemma per action that is not quiet).

### SockConn

`ConnInv` follows every attempt to connect through its stages (`Fresh`, `Asking`,
`Asked`, `Granted`, `Refused`, `Joined`, `Dropped`), each of which tells the state of both
ends and what is on the wire between them.  `AttemptInv` relates the stages to the
connections that the two VCs hold: who tries to connect holds its attempt or has yielded
to the higher rank, and an attempt that was granted is held by both.  While a connection
is being terminated (`closing` not empty) there is nothing else: one attempt is
`Ending`, the others are `Fresh` or over.  `OneGrant` is the heart of it, the decision of
a head-to-head connect: at most one of two crossing attempts is granted, whichever open
request is read first.  One lemma per action shows what stage it leads to; `QuietStep`,
`UpStep` and `MessageStep` do the frame for the actions that are alike.

The refinement: messages are only on the wires of the connection that the VC holds and
there are behind its control packet (`Wires`), so that `Undelivered` changes by exactly one
message at the end (`MessageAdded`) or the beginning (`MessageTaken`), and a control
packet changes nothing (`ControlFirst`).

### NemChannel

`PairInv` is about one pair of processes.  The packets in flight, in cells and in the
fastbox together, are exactly those with the sequence numbers from the receiver's counter
up to the sender's, one packet each (`Stream`): nothing tells the code more than the number
whether a cell or the fastbox comes next.  The two parts of a large message follow
each other, the second part of one whose first part was received is the next packet, and
what the fastbox holds is whole.  Numbers are modulo `SeqnoMod`, so that "from, up to" is a
distance (`Dist`), and a distance is only right while fewer packets are in flight than
there are numbers: `FewInFlight` counts them, which needs `CellInv` (the cells of a process
are in one place each) and the bound of `NemChannelAssumption`.  `Sent` and `Received` say
what a packet more at one end and a packet less at the other do to a stream; every send
and every receive is one of them (`SentInv`, `ReceivedInv`).

The refinement is about items and their places.  `Relabel` shows that the list of
messages depends on the order of the places only, `AddLast` and `DropFirst` that a new
last place appends and the first place removed is `Tail`.  A packet sent moves its item from
a place in the send queue to one behind all in flight (`PiecesSent`), a packet received moves
all in flight one place down (`PiecesReceived`), so neither changes the list, except that
the last part of a message drops the first item; starting a message adds the last one
(`PiecesStarted`).  What moves between queues changes no place (`QueueStep`).

### NemQueue

The fields of a queue say nothing simple of its cells: between the swap of the tail and
the link that follows it a cell is reachable from the tail only, and the head, the private
head and the cell of an owner that spins all may be the first one.  `QueuesInv` says that
there *is* a sequence of cells for each queue, those in the order of the swaps, such that
(`LineInv`) the link to each cell has been written, unless an enqueuer is at `link` with
that cell, in which case it is still null and `prev` is the cell before it
(`LinksInv`, `EnqueuersInv`); that the tail is the last cell; which of the two heads are
set at each step of the owner (`HeadsInv`); and that no cell is in two places.  A swap
appends to the sequence (`EnqueueStep`), the owner's taking a cell removes the first one
(`TakeStep`, which needs that a first cell with no successor is the tail unless some
enqueuer has still to link the second one), a link changes no sequence (`LinkStep`), and
neither do the owner's other steps (`OwnerQuiet`).

For the refinement, `PathIs` shows that `Path` returns a sequence whenever the links are
those of that sequence; its recursive function is characterised by a least-number argument
(`WalkUnique`), with no induction over data.  The owner sees the cells before the first
one that is not linked (`Seen`, `SeenPath`) and the rest is what `Arriving` collects along
the enqueuers (`SeenRest`), for whichever sequences satisfy `LineInv` (`LineView`).
`TailSeen`, `AppendSeen` and `LinkSeen` say how both parts change: a dequeue, an enqueue,
or any number of cells that appear at once, none if an earlier link is still missing.

### Not proved

Checked by TLC only, and why: liveness (`CloseTerminates`, `CallsReturn`,
`CancelCompletes`, `MatchedCompletes`, `EpochsEnd`, `Settles`, `CellsReturn`,
`EverythingArrives`), because fairness and ENABLED are beyond the prover;
`MatchingInOrder`, the refinement that remains;
and what is left of the safety properties, which is a matter of work: the invariants of
`CH3Pt2Pt`, `RMALock` and `RMAActive`.

## What the models found

Two of these are runs that expect a violation, with the reasoning in `PROJECT.json`
("findings"); the others are described here with the constants that show them.

1. `rma_mixed` (`ch3u_handle_recv_req.c:813`).  The loop of `Release_lock` neither
   leaves nor passes an entry that is ready but cannot be granted: after a shared
   grant, an exclusive request that follows makes the target spin.
2. `rma_active_get` (`ch3u_handle_recv_req.c:114`).  Only the last operation of an
   origin lowers `my_counter`.  When a get is followed by a put to the same target, its
   response may still be on the send queue when the put is done: fence and wait return
   at the target although they are to "wait for all operations from other processes to
   finish" (`ch3u_rma_sync.c:292` and 1218), and what the target stores into its window
   then may be what the origin gets.  In a passive epoch the last put releases
   the lock in the same situation.  `rma_active` therefore has no put behind a
   get to the same target.
3. `ch3u_rma_sync.c:82`.  `fence_cnt` is reset by post, start and lock of the own process
   only.  After an access in which not every process takes part, a fence without assert
   is the first one for some processes, which return at once, and a later one for the
   others, which enter the `Reduce_scatter`; the calls are then off by one, and the
   last one never returns.  The comment at lines 84-87 knows only two reasons for a
   count of 0.  `CallsReturn` fails in `rma_active` with `Plans <- Unclosed`.  On the same
   line `(assert & MPI_MODE_NOSUCCEED) != 1` is always true (the mode is 16384), so that
   a first fence with that mode counts as one that opens an epoch.
4. `src/mpi/comm/comm_split.c:355`, and `comm_create.c:236`.  Of an
   intercommunicator made by `MPI_Comm_split` or `MPI_Comm_create`, `context_id` is
   the id that the own side agreed on and `recvcontext_id` that of the other side,
   the opposite of `mpiimpl.h:1187-1188` and of every other place that makes an
   intercommunicator.  A process then receives on an id that only the others found
   free, and gives that one back when it frees the communicator.  `RecvIdsDistinct`
   fails in `contextid` with `Programs <- SplitBetween` and under `Spec`.
   Where no class spans the two sides nothing goes wrong, as `IdsAlwaysRight` shows.
5. `ch3u_handle_recv_req.c:795`.  The second pass of the loop of `Release_lock`, made
   because of a nested call, marks the window unlocked although the first pass
   granted a shared lock: `LockInv` fails when both origins of
   `rma_two` run single-packet shared gets (`Single("shared", {"get"})`) and shared epochs
   of two puts, and the target locks exclusively twice
   (`SelfLocks = {"exclusive"}`).
6. `mpid_cancel_send.c:234`.  Cancelling a rendezvous message that is still
   unexpected releases one of the two references of its receive request; the other
   one was for completion, which never comes.  `NoOrphans` fails in `pt2pt_mixed` with
   `Modes = {"eager", "rndv"}` and `Calls = {"cancel_send"}`.
7. `ch3u_eager.c:303`.  The handler of short messages does not assign
   `sender_req_id`.  The queued request keeps what an earlier message left there, and
   the cancel of another send may withdraw it: `CancelExact` fails in `pt2pt_mixed`
   with `Modes = {"eager", "sendshort"}` and `Calls = {"cancel_send"}`.
8. `ch3u_eager.c:102`.  The packet of a noncontiguous eager send carries
   `MPI_REQUEST_NULL` though its request can be cancelled: a cancel does not find the
   message, or finds an older one.  `CancelExact` fails in the same way with
   `Modes = {"eager", "noncontig"}`.
9. `ch3u_connect_sock.c:805`.  An attempt to connect that will be refused has its open
   request read only after the VC was closed again; it is then accepted, and the
   acknowledgement reaches an end whose VC has no such connection:
   `MPIU_Assert(vcch->conn == conn)` fails.  `AssertionsHold` of `SockConn` is violated
   with `LateConnects = TRUE` (one message, `MaxConnects = 2`, `MaxSends = 2`).  It needs
   a communicator freed or disconnected right after two processes connected to
   each other.
10. `ch3u_connect_sock.c:697-706`.  The last close event destroys the process group, and
   with it the VC whose fields are assigned after.  Noted while reading; the models
   have no freed memory.

## What is not modelled

* Point-to-point: ready sends, probe, persistent requests, truncation, errors,
  channels that refuse a packet.
* RMA: the data, `MPI_Win_create` and `MPI_Win_free` as steps, passive and active
  epochs on one window.
* Teardown: groups of several processes (a VC of each; the group counts its VCs),
  the exchange of group descriptions, port names, spawning; communicators whose free is
  deferred by pending requests.  What MPI demands of `MPI_Comm_disconnect` beyond the
  reference counts is not stated (`mpid_vc.c:148-153` says that its rule "is not quite
  what the MPI standard says").
* SockConn: failing connects and sockets (the code gives up), the connections of ports
  (`conn_accept` packets), the window that several threads open while the address of
  the peer is looked up.
* Nemesis: network modules and the polling of them, checkpointing, large message
  transfer, threads that block in the progress engine.  `MPID_nem_mpich2_test_recv_wait`,
  which dequeues without a look at the queue once its timeout is used up, is called
  only by `MPIDI_CH3_Progress_ipoke_with_matching`, which nothing calls.  A flood of
  cells that always match lets the fastbox of a process without posted receives wait
  for as long as the flood lasts; `Loads` bounds the flood.
* ContextId: the version without threads; exhaustion of the mask, for which the
  threaded loop has no end although the comment at `commutil.c:227` promises 0;
  `MPIR_Comm_copy` into a smaller size, whose processes outside keep the id
  (`commutil.c:613-616`); the reuse of an id while messages of the freed communicator
  are still under way, which the comment at `commutil.c:24-40` describes; the temporary
  id of `MPI_Intercomm_merge`; `MPI_Comm_create` on an intercommunicator
  gives the id of a process outside the group back before the exchange, the
  model after it as `MPI_Comm_split` does.
* Nothing is persisted and no process restarts in this code, so there is no
  recovery to model; a lost connection is a fatal error.
* Collective operations, datatypes, attributes, topologies, process managers, ROMIO
  and the logging libraries are sequential or outside the message-passing core.  They
  are by far the largest part of the tree.

## Plan

In this order; the first eight are done.

1. `VCClose` with its proofs.
2. `CH3Pt2Pt`, `Recvq`, `MPIMatch`.
3. `RMALock`.
4. `Teardown` over `VCClose`.
5. `NemQueue` and `NemChannel`.
6. `ContextId`.
7. `SockConn`.
8. Active-target RMA: `my_counter`, fence and post-start-complete-wait.
9. Ready sends and probe in `CH3Pt2Pt`.
10. The large message transfer of nemesis over shared copy buffers.

Theorems worth proving next: `CounterInv` of `RMAActive`; `LockInv` of `RMALock` for
programs without shared gets; the lemmas of
`Recvq` (what each search returns) and `RefExact` of `CH3Pt2Pt`; that the abstract
specifications are what they seem (`ContextAlloc`: no number is held twice by a group
without being taken twice).  No module declares a RECURSIVE operator, so that all of
them can be proved about.
