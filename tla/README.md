# Verification of usbws-lws

TLA+ models of the programs `usbws`, `usbwsd` and `usbwsa`, which carry USB/IP
over WebSocket with libwebsockets; TLC runs that check them on small instances,
and TLAPS proofs for every value of the constants. Paths are relative to the root
of the repository, whose C code is in `src/`.

- `*.tla` without prefix or suffix: a component and its properties
- `MC*.tla`: instances for TLC, symmetry, and statements of documents and comments
  that are held against the code
- `*Proofs.tla`: theorems and their proofs
- `*.cfg`: one run each
- `PROJECT.json`: components, runs, mutants, findings, hazards, theorems, and the
  source lines of every definition

`tlc -config X.cfg M` checks a run (the table below names its module), `tlapm
MProofs.tla` checks proofs.

## 1. The system

A client (`usbws list`, `attach`, `bind`, ...) opens a WebSocket connection to a
daemon and runs one exchange of the USB/IP protocol on it. A daemon accepts any
number of connections and runs one worker thread for each. The USB/IP protocol is
in an external library (`usbip`), the WebSocket protocol in libwebsockets; this
repository connects the two. The library wants blocking calls, libwebsockets is a
loop of callbacks in one thread: nearly all of the difficulty is there.

| component | source | state | operations | interacts with |
|---|---|---|---|---|
| receive queue | `usbws_session.c` 54-91, 120-146, 408-471 | `recv_queue`, `recv_offset`, `cont`, `recv_queue_lock`, `recv_queue_cond` | append a frame, read, wait for the reader at close, drop, discontinue | callbacks of the service thread against the thread in the USB/IP library |
| send and writable protocol | `usbws_session.c` 148-269, 376-406; `usbws_ctx.c` 39-46 | `send_buf`, `send_len`, `send_offset`, `writable`, `ping`, `writable_lock`, `send_cond` | send, request, writable callback, ping, pong | sender, senders of other sessions, service thread, poll of libwebsockets |
| health check | `usbws_session.c` 271-306; `usbws_ctx.c`; loop in `usbwsd.c` | `stamp`, `ping`, `cont` of every session, `ping_pong` | check after every `lws_service`, ping, give up, stamp on receipt | service thread, time, peer |
| client connection | `usbws_client.c` 27-202 | `started`, `wsi`, `tid`, context, sock | open, start, stop, loop, destroy | main thread, client thread, callbacks, SIGINT |
| daemon service | `usbwsd.c` 162-289 | `cont` and `context`, per session `tid` and sock | loop, start a worker, join it, destroy the context | service thread, workers, SIGINT |
| daemon process | `usbwsd.c` main | options, pid file, driver, working directory | parse, write pid, open driver, `daemon(3)`, serve, clean up | operating system, SIGINT |
| context | `usbws_ctx.[ch]` | `cont`, `context`, `ping_pong` | create, stop, destroy | inside the three above |
| client target, commands | `usbws.c`, `usbws_client.c` 211-309, one file per command | options, `url_work`, `proxy`, what is parsed from them | dispatch, one option, set target, library call, free, exit | the USB/IP library, the C library |
| linked list | `usbws_util.h` 58-105 | `next`, `prev` | add, delete, iterate | the receive queue |
| ports, version, log, Windows layer, help, build | `usbws_util.c`, `usbws_win32.h`, `usage` functions | none | | not modelled: no state |

### Hard behaviours, and what makes each component correct

*Receive queue.* `usbws_recv` copies in a loop under a lock that `cont` is not
part of; `recv_offset` keeps a frame that was read in part; the close callback
sleeps in the middle of its work. Correct means: bytes reach the caller once and
in order, a sleeping reader is woken up by data and by the end of the session, a
short read is the end of the session, the close comes to an end.

*Send.* A buffer is published without a lock, three kinds of threads may send its
next chunk, and the permission to write passes between `writable`, libwebsockets
and a running callback. Correct means: one permission, never lost; a sender comes
home with a true result; chunks are the buffers in order; a ping waits its turn
and gets it.

*Health check.* Limits are compared only when `lws_service` returns, in a thread
that also sleeps for closing sessions; a ping may wait for the socket, lose its place
to data, or fail to be written. Correct means: who is silent is sent a ping, again if
one was lost; who was not tried is not given up; who answers in time is kept.

*Client.* Two threads hand over through `started` and `wsi`; either side, an error
or SIGINT ends the connection at any moment. Correct means: an open that succeeds
gave a live session, an open that fails left nothing, both come to an end.

*Daemon.* The service thread joins workers that sleep in sends and reads; workers
walk over connections that the service thread frees. Correct means: no worker on
freed memory, no join of a sleeper, a clean end after SIGINT, and whatever `main`
set up is taken back.

*Linked list.* Two threads change it at its two ends, and its loops unlink and free
the block they stand at. Correct means: it always links the frames of the queue,
oldest first, in both directions; no step uses a freed block; none is lost.

*Commands.* Options may come in any order, be unknown, or be known to one table and
not to the other; a target is parsed in place from memory that several paths free.
Correct means: the library is called with what the command needs or not at all, the
exit status tells what can be told from it, and the memory is given back once.

`PROJECT.json` lists 40 hazards, each at its line with the properties that cover
it, or the reason why none does. A property that excepts a hazard is not listed
under it.

## 2. Modules and how they correspond to the code

| module | models | extended by |
|---|---|---|
| `ByteStream` | abstract: a reader and a byte stream | instantiated by `UsbwsRecvQueue` |
| `SleepingCall` | abstract: a call that sleeps and those that wake it up | instantiated by `UsbwsSend`, `UsbwsRecvQueue`, `UsbwsClientProofs` |
| `ContextLife` | abstract: the life of a context, its sessions and their workers | instantiated by `UsbwsService` |
| `UsbwsRecvQueue` | receive side of a session | `MCUsbwsRecvQueue`, `UsbwsRecvQueueProofs` |
| `UsbwsRecvList` | the receive queue in memory: blocks and links | `MCUsbwsRecvList`, `UsbwsRecvListProofs` |
| `UsbwsSend` | send side of a session, with the poll of libwebsockets | `MCUsbwsSend`, `UsbwsSendProofs` |
| `UsbwsHealthCheck` | health checks of all sessions of a context, with time | `UsbwsHealthCheckProofs` |
| `UsbwsClient` | a connection of the client, from open to end | `UsbwsClientProofs` |
| `UsbwsService` | the daemon's sessions, workers and their ends | `MCUsbwsService`, `UsbwsServiceProofs` |
| `UsbwsDaemon` | `main` of the daemons around the service | `UsbwsDaemonProofs`; instantiated by `UsbwsServiceProofs` |
| `UsbwsCommand` | `main` of `usbws`, its commands and their target | `UsbwsCommandProofs` |

The grain is chosen for each question. A critical section is one action, and each
read or store outside of a lock is an action of its own where another thread can
tell. `UsbwsSend` and `UsbwsRecvQueue` follow one session statement by statement;
`UsbwsService` keeps of them only that a worker may sleep there, what wakes it up
and in which two steps a session ends, and the visits of connections, and adds the other sessions; `UsbwsDaemon` keeps of
the service only how it ends.

**`UsbwsRecvQueue`.** A byte is its position among those that were queued, which is its
position in the peer's stream until a `malloc` fails; a frame is the interval `start ..
start + len - 1`. `HandleRecv` is `usbws_handle_recv`; `Closed`,
`WaitRecvSleep`, `WaitRecvDone`, `WaitRecvWarn` and `DropQueue` are
`usbws_session_close` with `usbws_wait_recv`; `Discontinue` and `SignalRecv` are
`usbws_session_discontinue`, whose store of `cont` is outside of the lock; `Recv` to
`DrainCopy` are `usbws_recv`, `SpuriousWakeup` is allowed by pthread. `CopyBytes`
and `CopyFrom` keep the arithmetic of `memcpy` in the loop as it is, including that
it starts at `recv_buf->buf`. `arrived`, `kept` (what was queued of it), `read_pos` and
`copied` are history.

**`UsbwsRecvList`** extends it. `ring` is the links of the list head and of every
block `malloc` may return; a block that was freed has none. `Enqueue`, `Drain` and
`DropOne` are the steps of the queue with what they do to the list: `ListAddTail`,
`ListDel` and the next cell of `list_for_each_safe` (`pos`), read before the block is
freed. The loop of `usbws_session_close` is one step per block under the lock, where
`UsbwsRecvQueue` drops the queue in one. `order` is history.

**`UsbwsSend`.** `pc[t]` is where a thread is, for the sender, the service thread
and `Foreign`, threads that send on other sessions and whose request visits this
one. `Send` and `Publish` are the stores of `usbws_send` one by one, in any order
the compiler may choose since no lock orders them; `CheckSendBuf` is the test
outside of `writable_lock`, `HandleSendRequest` and `SendChunk` what follows under
it; `HandleWritable`, `WritePing`, `ClearPing` are the writable callback;
`EnterPoll`, `PollWritable`, `PollCancelled`, `PollTimeout` are libwebsockets: what
`lws_callback_on_writable` asks for reaches a poll entered later (`armed`), and
`lws_cancel_service` ends the one going on. `Discontinue` and `SignalSend` are
`usbws_session_discontinue` of any thread: of the health check and the close callback for
the service thread. `calls`, `out`, `fails` and `raced` are history; `raced` says that a
chunk was once cut from a session without a complete send pending.

**`UsbwsHealthCheck`.** A step of `Tick` is a second. `age[s]` is the time since
`stamp`, `left` the time poll may still last. `PollSeconds` is the timeout the loop
of a daemon gives to `lws_service`; time passes while a session is being closed, too
(`Closed` ends that stage). `Expire`, `CheckSilent`, `CheckHealthy` are the branches of
`usbws_check_session`. `SendPing` is `usbws_send_ping`: the ping is written
(`PingWritten`), refused by `lws_write` (`PingFails`), or waits for the socket and then goes
out (`PendingPingGoes`) or gives way to data (`DataGoes`). `missed[s]`, history, is what became
of a ping that was not written since the last sign of life, and `Tried(s)` says that one is
out, waits, or was refused.

**`UsbwsClient`.** `main` is the thread of the command, `thread` the client thread;
actions carry the names of the functions. `MayFail` names the calls that may fail.

**`UsbwsService`.** One value of `worker` and one of `conn` per session; `current`
is the connection whose callback runs. `Visit` is one step of
`lws_callback_all_protocol`, over the connections it found when it began; `VisitFreed` the
one that comes to a session that was freed since, where anything may happen.
`usbws_session_discontinue` is two steps wherever it is called, `Discontinue(s)` (the
unlocked store of `cont`) and `Signal(s)` (the two signals under their locks): in the close
callback (`SessionClose`, `SessionCloseSignals`), in the health check (`CheckSignals`),
in a worker that shuts its connection down, and in the SIGINT handler, which breaks
all connections one by one (`BreakConnections` to `BreakEnds`) before it stops the context
(`SigintStop`).

**`UsbwsDaemon`.** Options are chosen in one step; the rest of `main` follows call
by call. A file name is absolute or relative, which is all that `chdir` of
`daemon(3)` can tell apart.

**`UsbwsCommand`.** An option is the letter `getopt_long` returns for it, given as a
letter or by name; each round of the loops of `handle_options` is a step, and a
record per command says which letters its `optstring`, its `longopts` and its `switch`
know and which it needs. Of a URL only how it parses is kept. `SetTarget` and
`SetProxy` give the outcomes of `usbws_client_set_target`, with the three blocks of
memory in it: a double free or an overrun may end the process at any later step
(`Abort`) or not. `aside`, history, tells apart what the code does not: text that was asked
for, an option that was mistaken, one that was refused. `Libusb` is the build of the device side, with other commands and
options.

### External code

libwebsockets, pthread, `daemon(3)` and the USB/IP library are not in the
repository. They are modelled by what the code relies on and marked external in
the map: callbacks of one context run in one thread except those of
`lws_callback_all_protocol`, which run in the caller's; a callback whose result is
not 0 closes the connection; `lws_context_destroy` runs the close callbacks, and
reports a connection that was not established as an error
(`ErrorOnDestroy`: without it an open in progress would sleep for ever); condition
variables may wake up spuriously. The workers of the library end when a read or a
send says that the session is over.

## 3. Abstract specification and composition

`ByteStream` says what a reader may rely on: it is given the bytes of the stream
in order, each once, until the stream ends; a stream that is broken promises nothing
any more, which is what a lost frame makes of it. `UsbwsRecvQueue!ReadsStream` is
`ByteStream!Spec` under a refinement mapping, checked by `recv_aligned` and proved
as `ReadsStreamCorrect`.

`UsbwsRecvList` is the detailed form of `UsbwsRecvQueue`: the same variables and the
list beside them. Every step of `ListNext` is a step of the queue or leaves it alone,
which is proved (`ListImplementsQueue`): all that holds of the queue holds of the list,
`ReadsStream` included.

`SleepingCall` says what a call that sleeps owes to its caller and to the threads that
end its session: it goes to sleep only while the session goes on and what it waits for is
not there, and whatever changes either wakes it up. Who keeps it abandons nobody
(`PromiseSuffices`). `usbws_send` and `usbws_recv` keep it statement by statement, for any
number of threads (`SleepsAsPromised` of `UsbwsSend` and `UsbwsRecvQueue`); the one wait
of `usbws_client_open` keeps it, too (`UsbwsClientProofs`).

`UsbwsService` composes the sessions of a daemon with the workers and the service
thread. Of a send and a read it keeps only the sleep: a worker goes to sleep while its session
goes on, which the detailed modules show, and may be ended by four threads at once, each in its
two steps. `NobodyLeftAsleep` says that no worker is left behind then, and that the service
thread, which waits in a join, does not wait for one that sleeps. That a call comes back when it
is awake is liveness, `ShortSendReturns` and `RecvReturns`.

`ContextLife` is what a daemon promises about memory: a session is there from its
establishment until it is freed, once; its worker begins at most once and has ended by
then; the context goes last. `KeepsContextLife` says that `UsbwsService` implements it.

`UsbwsDaemon` uses the service: it ends when stopped or failing, destroys its context, takes
SIGINT, and may crash. `ServesProcess` of `UsbwsServiceProofs` says that this is so: each
step of the service and of its threads is `ServiceEnds`, `DestroyContext`, `Sigint` or
`ServiceCrashes` of `UsbwsDaemon`, or nothing that `main` can tell. What the service leaves
behind is in `EndedIsClean`, that it ends at all in `StopEndsService`.

## 4. The runs

A run that ends with a violation checks one statement of a document or of a
comment that the code does not keep (section 7).

| run | module | states | question |
|---|---|---|---|
| `recv_free` | `MCUsbwsRecvList` | 670k | Any reads against any frames, two threads that discontinue, malloc may fail, the list in memory: accounting of every byte that was queued, how far a copy may run behind a buffer, the sleep of the reader as `SleepingCall` has it, short reads, whole links. |
| `recv_aligned` | `MCUsbwsRecvQueue` | 755k | A caller that reads up to the end of a message each time, malloc may fail: inside the buffer and in stream order until a frame is lost; read and close come to an end. |
| `send_safe` | `MCUsbwsSend` | 2.5M | Two sends of one or two chunks, a foreign thread, pings, a failing write: one permission to write, waiting pings, the sleep of the sender as `SleepingCall` has it, chunks in order and in frames of one message, success is true. |
| `send_live` | `MCUsbwsSend` | 68k | A send of one chunk returns even if poll has no timeout, a longer one if it has. |
| `send_stall` | `MCUsbwsSend` | violation | The rest of a buffer waits for a poll that nobody ends. |
| `health` | `UsbwsHealthCheck` | 76k | A prompt peer, and one whose pings may wait, be displaced or fail and whose pongs take any time: who is silent is sent a ping and given up in time, who is given up was tried, who is prompt is kept, who is over is closed. |
| `client` | `UsbwsClient` | 854 | Opens that fail anywhere, two SIGINTs: what open returns, what it leaves, what the thread uses at its end, and that both come to an end. |
| `client_return` | `UsbwsClient` | violation | A connection is over that nobody ended. |
| `service` | `MCUsbwsService` | 169k | Two sessions with workers, failing thread creation and service, a SIGINT: the order of `ContextLife`, nobody left asleep, an end after SIGINT and of every connection. |
| `daemon` | `UsbwsDaemon` | 538 | Any option, any failing call, two SIGINTs: `main` takes back what it did, but for the relative pid file of a daemon. |
| `daemon_pid` | `UsbwsDaemon` | violation | The pid file of a daemon in the background names its parent. |
| `command` | `UsbwsCommand` | 4.9k | Any command, up to four options, any failing call: complete calls of the library with every option taken, the exit status, the memory of the target. |

The client and the daemon process are small because little in them is parallel:
their state spaces are complete but for the number of SIGINTs, of which the second
is the last that does anything new (the context is gone or `cont` is already 0).

### Bounds, and why they are enough

- *Receive:* 4 to 6 bytes, frames of 1 and 2, reads of 1 to 3 (to 5 in `recv_aligned`), at
  most 3 or 4 frames queued. A read then ends inside a frame, at its end, in the next and
  behind it, and a queue holds a read frame, one being read and one that follows.
  Messages of 1, 3 and 2 bytes take one frame, two, and a full one; an aligned read takes
  one of them, the rest of one after a read that came back with part of it, or several.
- *Send:* chunks of one byte and buffers of one or two. A third chunk is handled as
  the second. Two calls in `send_safe`, since what a call may inherit is the state
  its predecessor left; one failed write. In `send_live` one call starts in every
  state that pings and foreign requests leave behind. One foreign thread: its
  requests are all alike, and `WritableTokenSafe` holds for any number.
- *Health:* interval 1 and timeout 4, which is `PingPong + 3 * MaxBusy + Rtt`, the
  least at which `PromptPeerKept` leaves no way out; the pong of the prompt peer takes less
  than a second (`Rtt` 0; the theorem holds for any). Ages count up to `MaxAge`, two intervals,
  the timeout and the longest close, which is more than a session that goes on can be silent
  for (`SilenceIsBounded`): the bound does not make the property true. Two sessions, both
  answering, one of them prompt: the other has its pings displaced or refused, and either
  keeps the service thread busy while the other waits.
- *List:* three blocks, one more than are needed for a block between two others: it is
  taken out at the front, appended at the end and freed memory comes back. The
  theorems hold for any number.
- *Commands:* four options are a URL, a bus id, a proxy and one more of any kind, or
  the same one again. The run is of the client build; the theorems hold for both.
- *Service:* two sessions are one that ends and one that is visited or goes on. One SIGINT
  is enough for a handler at any point of the life of the service, before or after it fails
  and up to the destroyed context; `cont` is cleared twice by others, too. The theorems hold
  for any number of both.

Each property has a mutant in `PROJECT.json`: a plausible mistake in the code, as an
operator next to the definition it replaces, under which the run fails.

### Fairness

Safety runs assume none. `FairSpec` of each module says:

- threads that can run do (`WF` of the steps of the sender, the receiver, the
  service thread, a worker inside a call); nobody is forced to send, to read, to
  ping, to shut down, to send SIGINT or to end a session;
- `UsbwsSend`: a peer that is connected drains its socket, so that a poll that asks
  for POLLOUT again and again gets it (`SF` of `PollWritable`). That poll times out is
  *not* assumed; `SendReturnsInTime` has it as its hypothesis;
- `UsbwsHealthCheck`: time passes, polls return when their time is over, pongs of
  peers that answer (`Answering`) arrive and are read. Their socket is writable again and
  again, and neither does data take the place of the ping every time (the sender has to wait
  between two buffers) nor `lws_write` refuse it every time (`SF` of the check or the
  callback that writes it);
- `UsbwsClient`: a connection under way is established or fails, since
  libwebsockets gives up after its timeout;
- `UsbwsService`: the SIGINT handler, once it runs, goes on; nothing is asked of a
  process that has crashed; `usbipd_recv_pdu` of the USB/IP library gives up when its session is
  over: it may run through any number of calls that fail, not for ever (`SF` of
  `WorkerEnds` with `cont` 0).

## 5. What is proved

The theorems hold for every value of the constants that satisfies the `ASSUME` of
the module: any number of threads, sessions and bytes, any frame size. Each
module states its inductive invariant as a conjunction of named parts; the proof
that a step keeps it has one step per action.

**`UsbwsRecvQueueProofs`**
- `TypeCorrect` from `TypeInv`: `TypeOK` and `DrainHasFrames` (a reader in the copying
  loop has a frame in front of it, or `Head` would have no meaning).
- `WaiterSafe`, `ShortReadSafe`: inductive as they stand.
- `AccountingSafe` from `QueueInv`: besides `Accounting` that `recv_offset` lies inside
  the first frame and that a dropped queue is empty. Without the first, a round of
  the loop could count more bytes than the frame holds. It holds across a failing `malloc`.
- `SleepsAsPromisedCorrect` from `WaiterNotAbandoned`: a queue that is filled or dropped is
  not so in front of a sleeping reader, unless it is woken up by the same step.
- `OverrunIsBoundedSafe` from `OverrunInv`: a call that goes on has less than it was asked
  for, so that the one round that goes beyond ends it. For every caller.
- `NoOverrunSafe`, `ReadsStreamCorrect` from `MessageInv`, which says where in a message
  the reader is, as long as no frame is lost. **They assume `Aligned`**: every read asks
  for bytes up to the end of a message of the peer, and no frame holds parts of two. It is an
  assumption on the USB/IP library, which is not in the repository: nothing in `usbws_recv`
  asks for it, which offers reads of part of a message. For other callers both theorems are
  false: `usbws_recv` copies from `recv_buf->buf` whatever `recv_offset` is
  (`usbws_session.c:439`) and clamps to `len`, not to what is left of it (438).

**`UsbwsSendProofs`**
- `TypeCorrect`: no `lws_write` is given more than `SEND_CONTENT` bytes.
- `WritableTokenSafe` from `TokenInv`: who holds `writable_lock`, what the holder has done
  with `writable`, and that an armed poll is one that was requested.
- `PingWaitsSafe`, `SenderSafe`: inductive with `TypeOK`.
- `SleepsAsPromisedCorrect` from `SenderNotAbandoned`, and `PromiseSuffices`, which says of any
  call that keeps `SleepingCall` that nobody sleeps in front of what it waits for.
- `SuccessSafe`, `ChunksInOrderSafe` from `SendInv`: a send is untouched, being
  published, unfinished up to `send_offset`, or finished, and `out` says the same.
  The second says also that a frame never holds bytes of two buffers or beyond the end of one,
  which is what the receive side assumes of its peer (`FrameFits`).
- `WildCopyIsRacedSafe` from the same: while the session goes on no chunk of negative length
  is cut before one was cut from a session without a complete send pending (`raced`). That a
  write fails, and moves the offset back, does not lead there.
  `SuccessSafe` is about the sends before `raced`, whichever writes fail;
  `ChunksInOrderSafe` also supposes that none does, since a byte is then sent twice.

**`UsbwsHealthCheckProofs`**
- `SilenceIsBoundedSafe` for `PingPong > 0`: by twice the interval a ping to a silent peer is
  out, waits or was refused, whatever displaced an earlier one, and the session is given up
  by `PongTimeout` later, as soon as the loop is back in poll. From `AskInv` and
  `ExpiryInv`: the longest silence a session may have reached, by stage of the loop
  (`SeenWithin`), for either limit.
- `AskedBeforeExpiredCorrect`, from `AskInv`: the longest silence of a peer on which no ping
  was tried, by stage of the loop. The property excepts a timeout shorter than the interval
  and the time spent closing.
- `PromptPeerKeptSafe` from `PromptInv`: the longest silence of a prompt peer that was sent
  a ping, by stage of the ping. A prompt peer is given up only if the timeout is shorter than
  `PingPong + 3 * MaxBusy + Rtt`. The defaults of 60 and 60 are, as soon as a session takes a
  second to close (`usbws_wait_recv` sleeps for one) or a pong to arrive.

**`UsbwsServiceProofs`**
- `OwnSessionAliveSafe` from `IInv`: a worker that is not over has its own session in
  memory and a `tid` to be joined by, and what the service thread has done with the
  connection in hand at each stage of its callbacks. Of the sessions of others that a sending
  worker visits it says nothing: these may be freed (`VisitFreed`).
- `NobodyLeftAsleepSafe` from `IInv`, one step per thread that ends sessions: the store of
  `cont` leaves a signal due, and only the signal takes that away.
- `EndedIsCleanSafe` from `IInv` and `EndedInv`.
- `KeepsContextLifeCorrect` from `IInv` and `ContextInv`, which says where the service
  thread is while the context is live, dying or destroyed: every step is one of
  `ContextLife` or leaves it alone.
- `ServesProcessCorrect` from `ContextInv`: the steps of `usbws_service` seen by `main`.

**`UsbwsRecvListProofs`**
- `ListImplementsQueue`, `ListHoldsQueueSafe` from `ListInv`: besides `ListHoldsQueue` the types
  of the cells and where a loop may stand while the reader or the close runs it. The ring is described
  by `order`, the sequence of blocks that were appended and not taken out: each block
  is in it once, so that `ListAddTail` and `ListDel` change no link but the two they
  mean (`AddTailRing`, `DelOldestRing`).

**`UsbwsCommandProofs`**
- All four invariants from `CommandInv`: `Course` (nothing is done before the library call
  and no memory is there before `set_target`), `Decided` (what the exit status is going
  to say) and `Target` (what may be freed already when `usbws_client_free` runs).

**`UsbwsClientProofs`**
- All four invariants from `IInv`: what the main thread has made where it stands
  (`MainInv`), that the thread destroys its context last (`ThreadInv`), and that `started`
  says what happened and `wsi` is gone before it says that it is over (`SessionInv`).
- `SleepsAsPromisedCorrect`: `started` is tested and set under one lock, and never set in front
  of a main thread asleep.

**`UsbwsDaemonProofs`**
- `TypeCorrect`, inductive as it stands.
- `ReturnTakesBackSafe` from `PlaceInv`: where in `main` the driver is open, the context is
  there and a pid file may be. The property names its one exception, the relative pid file
  of a daemon in the background that ends with success (section 7).

Only model-checked, on the instances above: all liveness (`RecvReturns`, `CloseEnds`,
`ShortSendReturns`, `SendReturnsInTime`, `OverIsClosed`, `OpenReturns`,
`StopEndsThread`, `StopEndsService`, `OverIsFreed`), since the prover has no rules for
fairness and ENABLED.

## 6. What is assumed

- Sequentially consistent memory, but for the stores of `usbws_send`, which may
  become visible in any order.
- One thread reads a session and one sends on it, as the USB/IP library does.
- The allocation of a frame, and those of a command, may fail at any time, those of
  `usbws_client_open` where `MayFail` says so.
- In `UsbwsService` the two signals of `usbws_session_discontinue` are one step, since a
  worker sleeps in one place; each with its lock is in `UsbwsSend` and `UsbwsRecvQueue`.
- A SIGINT handler runs beside the other threads. That it takes locks which the
  thread it interrupts may hold is outside of the models.
- What C leaves undefined is a choice: the missing return value of
  `usbws_client_start_session` closes the connection or does not; `tid` after a failing
  `pthread_create` is 0 or garbage, and a join of garbage ends the model (`crashed`); so
  does `lws_cancel_service` of a context that is gone (`usbws_ctx.c:53`), and the visit of
  a session that was freed may.

## 7. Where the code differs from what is said of it

Shown by a run:

- `send_stall`: `usbws_session.c:195-199` says that the service is cancelled, "otherwise
  writable will not happen until service timeout". It is not cancelled by a request
  that wrote the first of several chunks: the rest waits for up to the timeout.
  `SendReturnsInTime` shows that it goes out then.
- `client_return`: `usbws_client_start_session` has no return statement, and libwebsockets
  closes a connection whose callback returns anything but 0.
- `daemon_pid`: "Write process id to FILE" writes the id of the process that
  `daemon(3)` leaves behind.

Met while modelling, reachable in the models, without a run of their own:

- A sending worker walks over the table of connections, which nothing in this repository
  locks: the callback refuses a connection without a session (`usbws_session.c:319-321`) and cannot
  see that the session was freed since the walk found it (`VisitFreed` in `UsbwsService`).
  The SIGINT handler breaks connections in the same way.
- A request tests `send_buf` before it takes `writable_lock`, and may go on when the
  buffer is done (`raced` in `UsbwsSend`). The same happens to a buffer that is
  published while its length is not; `usbws_send` then reports success for nothing. Or while
  its offset is not: the second of two sends is then cut with the offset the first has left,
  and the length that is copied, `send_len - send_offset`, is negative if the second is
  shorter (`usbws_session.c:156-162`), while the session goes on.
- `usbws_send` of a session that is over leaves its buffer published. A second one then
  publishes over the first, and a chunk in flight moves the new offset or clears the new
  length: a negative length may be copied then, too (`WildCopyIsRaced` without `cont`
  is false in `UsbwsSend`).
- `usbws_wait_recv` warns of a queue that the reader emptied during the sleep.
- The client checks no health: its option `-i` (`doc/usbws.8:106-110`) only lengthens
  its poll.
- In the background the default key (`./cert/server.key`, `doc/usbwsd.8:56`) is looked for in
  `/`, and `main` exits with success without having served. A relative pid file is
  not removed, for the same reason: `daemon` uses absolute ones.
- With `-i` above `USBWS_PING_PONG_TIMEOUT` a session may be given up without a ping: the
  exception of `AskedBeforeExpired`. And at any setting one may be given up whose pings
  data displaced, or `lws_write` refused, each time: its peer never had one to answer.
- `usbws_client_set_target` frees `url_work` when it fails and keeps the pointer, and
  `usbws_client_free` frees it again (`usbws_client.c:305` and 228): `TargetReturned` says that this is the
  only double free. The copy of a proxy URL is written into two bytes too few (245), and
  never freed when the proxy is set.
- The commands take an option they do not know for `-h` (`usbws_connect_kind.c:136`), print
  help and exit with success: `ExitTellsOutcome` says that nothing was done then, and that the
  status does not tell it from that of a command that acted. So ends a command line written
  after the manual page or the help text: `--busid` (`doc/usbws.8:95` and its examples; the
  tables say `bus-id`), `-t` of `detach` (114), `-P` of `list` (126), `-o` (101), and
  `--debug-flags` of the help texts (the tables say `flag`).
- `list` knows the name `bus-id` and has no case for it (`usbws_list.c:73`): it fails before
  it acts (`ActsOnTarget`).
- A packet that malloc has no memory for is lost and the session goes on
  (`usbws_session.c:131`; nothing looks at the result). A reader that counts on whole messages then
  stands anywhere in one, and what is copied may be longer than what it asked for:
  `NoOverrun` and `ReadsStream` hold until then.
- `usbws_client_open` does not free `sock` when `pthread_create` fails.

## 8. Not modelled, and the plan

Not modelled: the text of help and version, log levels, choice of a default port, the
Windows layer, build files: no state, or no behaviour beyond output. `usbws_set_info`
fills a structure for libwebsockets. What a URL is made of belongs to
`lws_parse_uri`; how the size of a queue without flow control grows is not bounded by
the code and so by no property. That the USB/IP library and libwebsockets do what
section 2 assumes of them.

Left to do:

1. A bound on how long a session that is over stays open: `OverIsClosed` says that it is
   closed, not when, which would need a clock in what keeps the place of its ping.
2. `UsbwsCommand` takes the work of the library and of `UsbwsClient` for one call that
   succeeds or fails; that the latter is all of it is stated by `OpenMeansEstablished` and
   `FailedIsClean` and not by a refinement.
