# AsioLearn in TLA+

A verification project for the programs of AsioLearn: TLA+ modules translated
from the C++ source, TLC runs that check them on small instances, and theorems
about them that TLAPS proves for every value of the constants.

## 1. The system

AsioLearn is a set of programs over the (vendored, header-only) Asio library.
Two of them are classes with a life of their own, the rest are small servers,
clients and timer programs.

| Component | Source | State it keeps | Operations | Modelled by |
|---|---|---|---|---|
| **TcpClient**, a client that reconnects | `network/include/network/tcp_client.h`, `network/src/tcp_client.cpp`, driven by `tcp/tcp_client2.cpp` | `stopped_`, `current_status_`, `reconnect_delay_`, `write_msgs_`, `socket_`, `timer_` | `start`, `stop`, `send`, the posted functions, the handlers of connect, read, write and timer | `TcpClient`, `Outbox`, `MCTcpClient`, `TcpClientProofs`, `TcpClientStopProofs`, `TcpClientOutboxProofs` |
| **SerialPortSession**, a serial port with its own io thread | `serial_port/include/serial_port_session.h`, `serial_port/src/serial_port_session.cpp`, `serial_test.cpp` | `running_`, `serial_`, `io_`, `work_guard_`, `strand_`, `io_thread_`, its reference count | `start`, `open`, `stop`, `send`, the destructor, the handlers of read and write | `SerialPortSession`, `MCSerialPortSession`, `SerialPortSessionProofs` |
| Repeating timers | `timer/timer3.cpp`, `timer4.cpp`, `timer5.cpp` | `count_`, one or two timers, a strand | the timer handlers, two threads in `run()` | `PrinterTimers`, `SerialExecutor`, `PrinterTimersProofs` |
| Asynchronous daytime servers | `tcp/tcp_server_async.cpp`, `tcp_server_async2.cpp`, `udp/udp_server_async.cpp`, `udp/tcp_udp.cpp` | acceptor, connections, `remote_endpoint_` | accept, write, receive and send handlers | `DaytimeServers`, `DaytimeServersProofs` |
| Asio: scheduler and epoll reactor | `include/asio/detail/impl/scheduler.ipp`, `epoll_reactor.ipp`, `posix_event.hpp` | `op_queue_`, `outstanding_work_`, `stopped_`, `task_interrupted_`, the event, private queues, descriptor states | `run`, `post`, `stop`, `start_op`, `cancel_ops`, `deregister_descriptor`, `perform_io` | `Scheduler`, `EpollReactor`, `WorkPool`, `EpollReactorProofs` |
| Asio: timer queue and deadline timers | `include/asio/detail/timer_queue.hpp`, `deadline_timer_service.hpp`, `impl/epoll_reactor.hpp` | `heap_`, `timers_`, each timer's waits and index, the timerfd | `async_wait`, `cancel`, `cancel_one`, `expires_at`, move, `get_ready_timers` | `TimerQueue`, `WaitList`, `TimerQueueProofs` |
| Asio: socket, acceptor and descriptor services, composed connect and write | `reactive_socket_service_base.ipp`, `reactive_*_op.hpp`, `impl/connect.hpp`, `impl/write.hpp` | the pending operations | start, perform, complete, cancel by close | partly, as actions of `TcpClient`, `SerialPortSession` and `DaytimeServers` |
| Single waits | `timer/timer_async.cpp`, `timer_sync.cpp` | one timer | one wait | no (section 5) |
| Serial demo with a strand | `serial_port/serial_port_async.cpp` | the port, a strand | read handler, posted blocking write | no (section 5) |
| Synchronous demos, port listing | `tcp/tcp_client.cpp`, `tcp/tcp_server.cpp`, `udp/udp_server.cpp`, `udp/udp_client.cpp`, `serial_port/serial_port.cpp`, `serial_port_sync.cpp`, `list_serial_port.cpp` | locals | straight-line code | no (section 5) |
| The rest of Asio | `include/asio/**` | | | no (section 5) |

**Interactions.** Everything meets in an `io_context`. A thread that calls
`run()` takes completions from one FIFO queue and runs their handlers; a handler
starts further operations. Other threads only *post* functions to that queue and
read or write a few atomics (`stopped_`, `current_status_`, `running_`). The
epoll reactor moves operations that became ready to the queue; closing or
replacing a socket moves the ones still pending there as *aborted*; a timer's
expiry moves its wait there, after which it can no longer be cancelled.

**What is hard here.** The code is short, and nearly all of its difficulty is in
orders of events that no test would provoke: a handler of an operation that
belongs to a connection already replaced; a flag another thread sets between a
handler's check and what the handler does next; two failures of one connection
reported one after the other; `stop()` and `start()` again while completions of
the first life are queued; an `io.stop()` that overtakes a posted function.
`PROJECT.json` lists each of them under "hazards" with its line.

**What makes each component correct.**

- *TcpClient*: the reconnect loop neither dies nor forks; after the network
  recovers the client does too; `stop()` is final and lets the thread end; never
  two writes at once; messages leave in order and at most once; the status says
  what the connection is.
- *SerialPortSession*: `stop()` returns and leaves the port closed and the thread
  ended, and no callback runs afterwards; the session outlives every operation
  that uses it; an accepted message is written whole, once, and apart from the others
  (which the code does not see to, section 3); `start()` means that something will be
  received; whoever forgets `stop()` can rely on the destructor (also section 3).
- *Timers*: the handlers exclude each other, no increment is lost, no timer prints
  early, the counter ends at exactly its limit, and `run()` returns.
- *Servers*: the accept loop neither forks nor dies, a connection outlives its
  operations, every datagram is answered to its sender, and whoever stays is served.
- *Scheduler and reactor*: an operation is run at most once, and once if it is due; no
  wake-up is lost; `run()` returns when it should and not before; the reactor has one
  runner; nothing is in two of the intrusive queues.
- *Timer queue*: every wait ends exactly once, when its time has come or when it is
  cancelled; heap, indices and waits agree; the reactor is woken in time.

## 2. The modules

### TcpClient.tla

Two threads. The **io thread** is in a handler (`call`) or between two; between
two it takes the next entry of `ready`, the scheduler's queue. **main** follows
`tcp_client2.cpp`: `start()`, a thread for `io.run()`, a loop of `send()`, then
`stop()`, `io.stop()`, `join()`. Two things are added to the demo because the
class offers them: `main` may `stop()` and `start()` again (the second `start()`
posted to the io thread, since `do_connect()` touches what only that thread may
touch), and `io.stop()` may be left out.

| Code | Model |
|---|---|
| `stopped_`, `current_status_`, `reconnect_delay_` | `stopped`, `status`, `reconnectDelay` |
| `write_msgs_` | `writeMsgs`, messages being the numbers of the `send()` calls |
| `socket_` and its connection | `sock`: closed, connecting, established, eof (the peer has closed), broken (refused or reset) |
| pending `async_connect`, `async_read_some`, `async_write` | `connEp` (the endpoint being tried), `nReads`, `writes` (the messages); the last two can hold several, so that "at most one" is a result and not an assumption |
| pending `timer_.async_wait` | `timer` |
| completions and posted functions in the scheduler's queue | `ready`, a sequence of [op, ec, arg] |
| the handler being run | `call`; `checked` says that its `if (stopped_.load()) return;` has been passed |
| the threads | `io`, `main` |

One action per function or handler (`DoConnect`, `OnConnect`,
`ScheduleReconnect`, `OnTimer`, `DoRead`, `OnRead`, `OnSend`, `DoWrite`,
`OnWrite`, `OnClose`, `OnStart`), and one for the read of `stopped_`
(`CheckStopped`), because main may store to it in between. A function called at
the end of another is reached with `call' = Goto(...)`. Asio and the kernel are in
`CloseSocket`, `ConnectTo`, `ConnectOp` (the loop over endpoints inside
`async_connect`), `PerformIo`, `Report...`, `TimerExpires` and `IoExit`, translated
from the vendored `scheduler.ipp`, `epoll_reactor.ipp`,
`reactive_socket_service_base.ipp`, `timer_queue.hpp` and `impl/connect.hpp`: an
operation is tried at once and its completion queued, or it stays pending;
`socket_ = tcp::socket(...)` and `close()` queue what is pending as aborted, reads
first; the descriptor's queue entry performs connect, write and read in this order
and runs the first completion on the spot.

A read that fails with a reset of the connection is reported like the peer's close
(`Disconnected`), with any other error as `Error`; `sock = "broken"` stands for both, and
`ReadStatus` lets either come.

Left out: the bytes of messages, the texts given to the status callback, and the callbacks
themselves (they run inside the handler and change nothing of the client). Also partial
writes: `DoWrite` and `WriteResult` take a message whole or not at all. In the code the
composed `async_write` goes on after each piece (`asio/impl/write.hpp`:326-359), on
`socket_` as it then is: were the socket replaced (`tcp_client.cpp`:97) between the
completion of one piece and the start of the next, the rest of the message would go to the
new connection. No property here speaks of pieces; those of a serial port are in
`SerialPortSession`.

### Outbox.tla

What a sender relies on: a queue of accepted messages, of which a growing prefix
has been transmitted. `TcpClient` implements it (`OutboxSpec`) with
`accepted` and `wire`, the histories of both.

### SerialPortSession.tla

The owner, any number of threads that send, and the io thread that `start()` creates.

| Code | Model |
|---|---|
| `running_` | `running` |
| `serial_` | `open`; `lost` when the device is gone; pending operations in `reads` and `writes` (the messages) |
| `io_`, its queue and `io_.stop()` | `ready`, `ioStopped`; `work_guard_` is the absence of any other way out of `run()` (`IoExit`) |
| `strand_` | `locked`, `strandReady`, `strandWaiting`: the mutex-protected state of `strand_executor_service`; `inStrand` while its invoker runs |
| the function being run | `call` |
| the promise of `stop()` | `closed` |
| `io_thread_` | `io` |
| the reference count | `Held`: the owner, the senders, every queued or pending function and handler that captured `self`; `life` is the object's |
| the calling threads | `owner` and `sender[t]`, at their place in `start()`, `stop()` or `send()` |

`start()` is `Open` (with its three ways to fail, the one that leaves the port open
included), `SpawnThread` and `MarkRunning`: the first read starts before the thread,
and the thread runs before `running_` is set. `stop()` is `StopCheck`, `StopPost`,
`StopWait` and `StopJoin`, and `send()` is `SendCheck` and `SendPost`, so that every
place where another thread may come in between is a state. On the io thread
`RunInvoker`, `RunNext` and `InvokerExit` are the strand's invoker, `OnSend`, `OnRead`,
`StartRead` and `OnClose` the functions of the session, and `OnWrite` the loop of the
composed `async_write`, which goes on after a partial write. A callback (`Callback`: that of
received data, and that of errors of a read or a write) may send (its test of `running_`
and its post are one step, the threads in `Senders` show what may happen between the two)
and, if asked, call `stop()`.

A message is a number and is written in up to `Parts` pieces, in any division. Left
out: the bytes, the texts of reports, `list_serial_ports()`, and the race of two
threads that both call `stop()` (the documented use has one owner).

### Scheduler.tla, EpollReactor.tla, WorkPool.tla

The `io_context` under all of the above, with any number of threads in `run()`. An
action is one hold of the scheduler's mutex or one atomic step outside it.
`EpollReactor` EXTENDS `Scheduler` with the descriptors and closes the specification.

| Code | Model |
|---|---|
| `op_queue_`, with `task_operation_` in it | `queue`, of operations, descriptors and `Task` |
| `outstanding_work_`, `stopped_`, `task_interrupted_` | `work`, `stopped`, `interrupted` |
| `wakeup_event_` | `signalled` (bit 0 of `state_`), threads at "waiting" or "woken" (its waiters), `signalling`: between the unlock and `pthread_cond_signal()` |
| `private_op_queue`, `private_outstanding_work` | `priv`, `privWork` |
| the interrupter | `poked` |
| a thread inside `do_run_one()` | `pc`, with the entry in `hand` |
| a caller that has counted its operation and not yet queued it | `posting` |
| `descriptor_state` | `waiting` (its reads), `speculate` (`try_speculative_`), `open` |
| the kernel, and epoll, edge-triggered | `data` in the buffer, `ended` once the peer has closed, `edge` not yet reported |
| an operation's fate | `life` |

`TakeTask`, `TakeOp`, `Sleep` and `Leave` are the branches of `do_run_one()`; the queue a
thread brings back (`task_cleanup`, `work_cleanup`) is added by `Queued` when it takes the
mutex again. `Finish` is `work_cleanup`, `StopIdle` the `stop()` at zero. Handlers and
outside threads `Post`, `Stop`, `CancelOps`, `Close`, `Reuse` (a freed `descriptor_state`
given to the next socket) and start reads: `StartNow` is a `start_op()` that tries its
operation and succeeds, or finds the socket closed, and posts the completion (from a handler
perhaps as a continuation, `PostContinuation`); `StartWait` is one whose operation waits.
`Poll` is one call of
`epoll_reactor::run()`, `PerformIo` the `do_complete()` of a descriptor. A read takes a piece
of data, or, behind the last, the end of the stream (`Perform`): only that one is
`done_and_exhausted`, stops the loop of `perform_io()` and clears `try_speculative_`, so that
a later read waits, with nothing more to come, until it is cancelled. Spurious wake-ups
of the condition variable are included. `WorkPool` is what a program relies on, without
queue, event or reactor: `PoolSpec` shows that the rest implements it.

Left out: the `run_one`, `poll` and `wait` variants, `restart()`, `fork`, writes and
out-of-band data (they take the path of reads), and the timerfd, which is in `TimerQueue`.

### PrinterTimers.tla, SerialExecutor.tla

`timer5.cpp`: two timers whose handlers go through one strand, and two threads in
`run()`. The handler is taken apart into `Check`, `Read`, `Write` and `Rearm`, so that
without the strand increments would be lost; `count_` is `count`, its value in a
register `reg`. The strand is `locked`, `strandReady` and `strandWaiting`; `Enqueue` holds
its mutex, `Invoke` comes after it, `RunNext` and `InvokerExit` are the invoker. The
scheduler is abstracted to a set of `pending` functions (`Scheduler` shows what it does).
`SerialExecutor` is the strand's promise, a FIFO of functions that run one at a time,
implemented by `PrinterTimers` (`ExecutorSpec`). `timer3.cpp` and `timer4.cpp` are the case
of one timer and one thread.

### TimerQueue.tla, WaitList.tla

The heap as `timer_queue.hpp` keeps it: `heap` and `index` (`heap_`, `heap_index_`). The while
loops of `up_heap()`, `down_heap()` and `get_ready_timers()` are `UpHeap`, `DownHeap` and
`ReadyTimers`: `Loop` applies one turn of the loop (`UpTurn`, `DownTurn`, `ReadyTurn`) as often as
it can change anything, and a turn after the loop's end changes nothing. Each timer has its
`waits`, `active` (the linked list), `expiry` and `mightWait`; the timerfd is `alarm`. One action
per call of `deadline_timer_service` (`AsyncWait`, `Cancel`, `CancelOne`, `CancelByKey`,
`ExpiresAt`, `MoveTimer`) and one for the reactor's turn (`Report`). A wait is represented by the
time it was started for, so that a wait that ends at another time is seen. `WaitList` is the
same without a heap: waits start, are aborted and move, and the timers whose time has come
lose all their waits together, each reported once, the earlier first. `TimerQueue` implements
it (`WaitListSpec`).

### DaytimeServers.tla

`tcp_udp.cpp`: both servers on one `io_context` and one thread; `tcp_server_async.cpp`,
`tcp_server_async2.cpp` and `udp_server_async.cpp` are its halves.

| Code | Model |
|---|---|
| the queue of completions | `ready` |
| the pending `async_accept` and the connection it will open | `accepting` |
| `tcp_connection` objects | `objects`; `Release` frees what no pending operation and no handler owns |
| a connection's socket | `peer` |
| the pending `async_write_some` inside `async_write` | `writes`: connection, pieces left, and whether its handler owns the connection |
| `async_receive_from` and `remote_endpoint_` | `receiving`, `remote` |
| the pending `async_send_to` | `sends`, the destinations |
| kernel | `backlog`, `inbox`; the clients are `client` and `got` |

`HandleAccept`, `ContinueWrite`, `HandleReceive` and `HandleSend` are the handlers, whole:
`handle_receive()` starts its reply and the next receive, which may complete on the spot
and overwrite `remote`. Freed connection objects are used again, as an allocator may.
Accepts and receives may fail, and clients may go away, within `MaxFaults`. Left out: the
text of the time, failing replies (the handler ignores the result, so a reply counts as answered
when it has been handed to the socket), and an error of the accept that persists, such as no
descriptors left, with which the loop would accept again at once and for ever.

### The proof modules

`TcpClientProofs`, `TcpClientStopProofs`, `TcpClientOutboxProofs`, `SerialPortSessionProofs`,
`EpollReactorProofs`, `PrinterTimersProofs`, `TimerQueueProofs` and `DaytimeServersProofs` hold
the theorems and the lemmas they rest on (section 4).

### MC modules

One for each specification that TLC checks: `MCTcpClient` also
states what a reader of the header expects and the code does not do; `MCTimerQueue` gives the
timers their first expiry times and its symmetry sets, `MCScheduler` the one of the threads.

## 3. The runs

| Run | Constants of note | Checks |
|---|---|---|
| `client_reconnect` | no sends, 10 faults, 2 endpoints, delay capped at 30 | `TypeOK`, `OneLoop`, `ConnectedTruthful`, `Recovers`, `StopDrains` |
| `client_restart` | 2 sends, 2 starts, 2 faults, slow handlers, lookups may fail, `io.stop()` | `KeepsTrying`, `StopIsFinal`, `OneWrite`, `OutboxSpec` |
| `client_stuck_outbox` | 1 send, 1 fault | violates `QueueMeansWriting` |
| `client_send_livelock` | 1 send, 1 fault | violates `Recovers` |
| `serial_session` | 1 sender, 2 sends of 2 pieces, 1 read, 2 calls of `start()`, any failure | `TypeOK`, `BegunInOrder`, `EachInOneHand`, `Serving`, `Quiet`, `NoUseAfterFree`, `StopReturns` |
| `serial_stop_in_callback` | callbacks may call `stop()` | violates `StopReturns` |
| `serial_mixed_writes` | 1 sender, 2 sends of 2 pieces | violates `WritesDoNotOverlap` |
| `scheduler` | 2 threads, 1 outsider, 3 operations, 1 descriptor used twice, 2 arrivals, `stop()` | `TypeOK`, `CountsWork`, `OneReactor`, `EnqueuedOnce`, `PoolSpec` |
| `scheduler_live` | the same, 1 arrival, the descriptor used once | `EveryDueRuns`, `RunReturns` |
| `timers_strand` | 2 threads, 2 timers, 10 prints | `TypeOK`, `Exclusive`, `Paced`, `FinalCount`, `AllReturn`, `ExecutorSpec` |
| `timer_queue` | 6 timers, 2 times, 7 calls | `TypeOK`, `HeapAgrees`, `WaitsAtTheirTime`, `AlarmInTime`, `WaitListSpec` |
| `daytime_servers` | 2 clients, 2 peers, messages of 2 pieces, 2 datagrams, 2 faults | `TypeOK`, `OneAccept`, `NoUseAfterFree`, `RepliesMatch`, `Served`, `AllAnswered` |

**What the passing runs show.** A client that only receives and is started once
is correct: its loop never forks (`OneLoop`), the status is truthful, it recovers, and
`stop()` alone ends it. With sends the writes never overlap and messages leave in order
and at most once. With restarts, and a timer that may be faster than the handlers, the
loop never dies and a stopped client stays closed. A serial session used as its header
shows is correct too: `stop()` called at any moment returns and leaves nothing running,
whoever sends, no function is lost or overtaken in the strand and no message is lost, or
written twice, between two pieces of it (`EachInOneHand`), and the object outlives
its thread. The library below keeps what these programs take for granted: the scheduler
loses no wake-up and counts its work exactly while a descriptor is closed under it and
used again, the strand is a serial executor, and the timer queue does what a list of
waits would. The servers serve everyone who stays, whatever fails for the others.

**What the violations show.** (1) A message accepted by the client while the connection
is down is never written, and blocks every later one: `send()` takes a non-empty
`write_msgs_` for a write in progress. (2) A write aborted by the reconnect schedules
another reconnect, and from then on two loops tear down each other's connections for
ever. Of the serial session: (3) `stop()` in a callback waits for a function only its own
thread can run; so does a `stop()` of the owner that had read `running_` before the
callback's cleared it, while a later one returns at once and leaves the port open.
(4) Each `send()` starts an `async_write` of its own without waiting for the one before,
which `async_write` forbids: after a partial write the pieces of two messages mix on the
line.

The models have more such behaviour that no run is spent on. A `start()` of the client soon
after `stop()` makes the two loops of (2), since `stop()` cancels neither the timer nor the
completions in flight. The demo's `io.stop()` can overtake the `close()` that `stop()` has
posted (`CallIoStop`). A serial session's second `start()` reports success with a thread that
ends at once, for nothing restarts the `io_` that `stop()` stopped: with `MayRestart` set
`Serving` does not hold (the second `MarkRunning` comes after an `IoExit`). The header calls
`stop()` optional, for the destructor closes the port; but (`MayForgetStop`) the pending read
keeps the object alive, so that the destructor does not run and the port stays open, and once
a read error has ended the reads, the destructor's `stop()` throws from `shared_from_this()`
(`life = "crashed"`). A callback that sends or stops while `start()` has not yet set
`running_` is ignored (between `SpawnThread` and `MarkRunning`).

The serial violations use fewer sends and reads than `serial_session`, each as few as
its counterexample needs.

**Bounds.** `MaxSends`, `MaxStarts` and `MaxFaults` bound calls and network
failures; everything else is finite by itself. With two endpoints a failed connect
takes two faults, so ten bring the back-off to its cap (1, 2, 4, 8, 16, 30); two are enough for a read and a write of the same
connection to fail, for the reconnect to fail again, or for both endpoints to
refuse; two messages give one in progress and one behind it or after a failure; two starts are one restart. Two endpoints exercise the loop of
`async_connect`. `Prompt` (only in the violations) makes handlers
finish before a timer of whole seconds expires, which keeps the state space small and
the counterexamples free of that race. For the serial session two messages are one
in progress and one that overtakes, waits or follows; the sender's thread and the
receive callback are two senders at once; two pieces make one partial write; one
arriving piece of data and the pending read after it exercise both ways of a read; two
calls of `start()` are a failed one and its retry.

For the scheduler two threads are the least that can race for the task and the event, and
the outsider adds a caller that is in neither; three operations make a read, one that
waits behind it and a posted function; two arrivals are an edge that is reported and one
that comes while the first is handled, two pieces or a piece and the end of the stream; one reuse is a `descriptor_state` freed with its
entry still queued. `scheduler_live` leaves the reuse out and has one arrival, a piece of data
or the end of the stream, to keep its liveness graph small; the second arrival and the reuse
are in `scheduler`, which checks the safety of what they lead to and takes the two threads as
interchangeable (`ThreadSymmetry`).
Ten prints are those of `timer5.cpp`. Six timers, three due soon and three late, are the
least for which the entry that fills a gap in the heap must move *up*; `MaxCalls` counts
the owners' calls, and seven of them are six waits and a removal, or fewer waits
and a longer history of moves, cancellations and new expiry times. Timers with equal
expiry are interchangeable, which the symmetry sets say. For the servers two clients and
two peers are two at once; two pieces make one partial write; two faults end a client's write and
an accept or the receive loop; four connections are one to accept, one per client and
one that has just failed, and `ServerParameters` asks for that many.

**Fairness.** Weak fairness of the io thread (it runs what is queued), of epoll's
report of an event that cannot go away (an error, an end of file, a settled
connect), of the timer, of a connection attempt's end (the kernel's own time-out),
and of main's steps inside `start()`, `stop()` and `join()`. None for the peer: nothing
makes it read, answer or close, and none for main to send or stop. For the serial
session likewise: the io thread, the report of an error, the steps inside `start()` and
`stop()` once called, and the destructor of an object nobody holds; none for the device,
the senders, or the owner's decision to stop. Scheduler: every thread in `run()` steps when
it can, a handler returns and a call that has begun ends; no data need arrive, nobody need
call. Timers: time passes, timers expire, threads run. Servers: the thread runs, and what
the reactor can perform it performs (a text this short always fits a socket's buffer); the
accept is fair as a whole, so that it may fail, but only `MaxFaults` times; none for the clients.

**Deadlock** is checked in the runs of the client, of the serial session and of the timers.
It is not where stopping is right: the scheduler and the timer queue end when all threads
have returned or the bounds are used up, the servers when all that was asked is done, and
`serial_stop_in_callback` has the deadlock for its subject.

## 4. The theorems

Proved by TLAPS for every value of the constants, from the assumptions that the
bounds are natural numbers, that there is at least one endpoint, that the cap
of the delay is at least one, that the threads of the scheduler and the connections of the
servers are finitely many, and that the timers and their threads are at least one each.
A theorem with a hypothesis on the constants says so below.

- `TypeCorrect` (`Spec => []TypeOK`) and `OneWriteAtATime` (`Spec => []OneWrite`).
  `TypeOK` alone is not inductive: `DoWrite` takes the head of `write_msgs_`, which
  has a type only if the queue is not empty. `TypeInv` therefore adds that a write
  about to start, pending or completed and not yet handled has its message in the
  queue (`InProgress => writeMsgs # <<>>`); that is preserved when `OnWrite` pops the
  queue only because no second write is in progress, which is `OneWrite`. The two
  are proved together, one case per action (`TypeNext`).
- `LoopNeverDies` (`Spec => []KeepsTrying`). `KeepsTrying` is inductive given
  `TypeInv`: each action that consumes what keeps the loop going (a pending connect
  or read, the wait, a queue entry, a running handler) puts another in its place;
  the lemmas `Carried...` say so for closing a socket, for a step of
  `async_connect` and for the reactor's completions. The steps that do not are those
  that find `stopped_` set.

- `LoopNeverForks` (`OneLoop`) and `ConnectedIsTrue` (`ConnectedTruthful`) for a client that
  sends nothing and is started once (`Undisturbed`), as in `client_reconnect`; for any number
  of faults and endpoints and any cap of the delay. The hypothesis is not one of convenience:
  a write error schedules a reconnect of its own, and a restart leaves handlers of the life
  before (section 3), so with either the loop does fork and the second one closes the socket
  of the first while the status says `Connected`. `LoopInv` adds to
  `OneLoop` what such a client can have in its queue at all. `StatusInv` says why the status
  is true: while it is `Connected`, nothing that leads to a new connect is pending, queued or
  running (`Reconnects`), and a connect that has succeeded finds its socket still there when
  its handler runs, since the one loop is in that handler.
- `StopIsFinalAlways` (`Spec => []StopIsFinal`). `StopInv` adds what keeps it true:
  a closed socket has nothing pending; main is past `stop()` only with `stopped_` set
  and no posted `start()` left, of which there is never more than one; and once the
  close has run, a handler past its test of `stopped_` can only be that of
  `async_connect`, which looks at the socket again. Most of the proof is that no step
  but `stop()` and `start()` adds a close or a start to the queue and none loses one
  (`QueueKept`).
- `MessagesInOrder` (`Spec => OutboxSpec`): the refinement that `client_restart` checks, for
  any number of messages, faults and restarts. `FrontIsNext` relates three sequences:
  `write_msgs_` is what was accepted and not popped, and what the connection took is either
  just what was popped or one message more. It is ahead from the success of a write to the
  pop in its handler, and for good if that handler returns because `stopped_` is set: then
  `write_msgs_` is never empty again and nothing more is written, which is why no message is
  sent twice (and why `client_stuck_outbox` finds a queue that waits for nothing). The proof
  uses `OneWrite` throughout.
- `ThreadOutlived` (`Spec => []NoUseAfterFree`), for every use of the session, restarts
  and `stop()` in a callback included. `ThreadOwned` says why: while the thread runs, a
  session without an owner either still has `running_` set or is held by a callback
  that never returns.
- `ServesWhileRunning` (`Serving`, unless the session is restarted) and
  `StopLeavesQuiet` (`Quiet`, unless it is restarted or a callback stops it). The two
  hypotheses are needed: with `MayRestart` set TLC finds `Serving` violated (section 3), and
  `serial_stop_in_callback` shows what a callback's `stop()` does. The invariants follow `stop()` line by line: `running_` is
  cleared before `io_` is stopped, the promise is fulfilled only by a function that
  has shut the port, and nothing starts an operation on a closed port.
- `SendsBeginInOrder` (`BegunInOrder`, unless the session is restarted), for any number of
  sending threads. As long as the port is open, `InTurn` says that the messages accepted are
  split in three, in order: those begun, the one being sent, those that wait on the strand
  (`Lined`). Both ways onto the strand, locked or not, append to what waits on it. Once the
  close has run, messages are dropped and none begins, since nothing reopens the port.
- `TypeCorrect` of the session, for every use of it. What is hard in `TypeOK` is
  `reads <= 1`: no second read is started on the port. `Chain` says that of the chain of reads
  one link is about (a pending read, its completion, or the posted call that starts the
  next), until a close is on its way; `Dead`, that what is left of it after `stop()` never
  runs, because the `io_` of a stopped session stays stopped.
- `EveryMessageInOneHand` (`EachInOneHand`, unless the session is restarted), for any number of
  senders, messages and pieces. `Sole` says that what goes on with a message (the posted
  function, the write pending at the port, or a completion whose handler writes the rest) is
  about once, in the call, the queue or the strand, and that nothing goes on with a message
  that was never sent: so nothing is written twice. `Owed` says that on a port that works there is
  such a hand for each message that is not written whole: so nothing is lost. Both survive
  each step because a step moves one entry from place to place, or takes it out and puts its
  successor in.

- `ReactorHasOneRunner` (`OneReactor`) and `NothingLinkedTwice` (`EnqueuedOnce`), for any number
  of threads, outsiders, descriptors and operations. Neither is inductive alone. `RInv`
  adds, for each kind of list, that it holds no element twice and shares none with another
  (`Once`); that an operation in a list is pending (`PendingOnly`); that the task is in the
  queue or one thread has it (`OneRunner`); that what the reactor has reported is handled
  before it runs again: no descriptor is queued while a thread has the task, and the task
  stands behind those queued, because `task_cleanup` puts it last (`DescriptorsFirst`); and
  that the entry a thread holds is of the kind its place asks for (`InHand`).
- `WorkIsCounted` (`CountsWork`), `TypeCorrect` and `ContextIsWorkPool` (`PoolSpec`, a refinement
  with every step mapped), for as many. `outstanding_work_` is the number of operations that
  have begun and not ended, except those that a running handler has started on its own
  thread and still counts privately (`Kept`): that is `WInv`, and a thread's private count is
  the length of its private queue until `work_cleanup` settles the two (`PrivateCounts`). Each
  way a step may change the count (submit, begin, end, post from a handler, complete
  without a handler) is a lemma about the cardinality of that set. That `run()` returns only
  when nothing is left is its consequence: with `work` at zero nothing is unfinished, not even
  in a private queue, since the operation of a running handler is itself counted
  (`NothingCounted`).
- `HandlersExclude` (`Exclusive`), `StrandIsSerial` (`ExecutorSpec`, a refinement with every
  step mapped), `PrintsArePaced` (`Paced`) and `TypeCorrect` of the timers, for any number of
  threads, timers and prints. `IInv` says that the strand's lock, a thread inside it
  and a posted invoker are one thing (`OneHolder`), that the ready queue is never left
  behind without one (`NothingStranded`), and that the register of a thread between
  `Read` and `Write` is up to date (`NothingStale`), which is why no increment is lost; that
  `count` stays within its limit rests on all of them. `PInv` adds that a timer is in one
  place at a time and `expiry` has moved as often as it printed.
- `CountsEveryPrint` (`FinalCount`). `CInv` adds that `count_` is the number of lines printed but
  for the one whose increment is still in a register (`Counted`), that below the limit every timer
  is somewhere, so that none falls silent (`NoneForgotten`), and that a thread returns
  only when nothing is armed, queued or in a handler (`ReturnedLast`).
- `AcceptLoopGoesOn` (`OneAccept`), `ConnectionsOutliveTheirUse` (`NoUseAfterFree`) and
  `RepliesGoToTheSender` (`RepliesMatch`), for any number of clients, peers, connections and
  datagrams. The invariant says of each that the loop is in one place (`Accepts`), that
  every user of a connection owns it and it exists (`Owners`), and that at most one
  receive is unhandled, while `remote_endpoint_` belongs to it (`Replies`). It needs that
  the connections are finitely many and more than the clients.
- `TypeCorrect` of the servers, in particular that a client is never sent more than one message.
  `OneMessage` says that a connection is in one place at a time: being accepted, in a write,
  or with one completion (`Alone`); that what its client got and what is left for it are
  never more than the message (`Budget`); and that who waits in the backlog is there once
  and has not been served (`Arrivals`).

- `HeapStaysAHeap` (`HeapAgrees`), `WaitsStayAtTheirTime`, `AlarmIsInTime`, `TypeCorrect` of the
  timer queue and `ImplementsWaitList` (`WaitListSpec`, a refinement with every step mapped),
  for any number of timers, times and calls. The proof is in three layers.
  *Loops:* a `Loop` whose turn keeps a set of states and, unless it changes nothing, leaves
  less to do, ends in such a state, and one that a further turn would not change (`Terminates`).
  *The heap:* while an entry is on its way, the heap is in order but for it: `Rising` and `Sinking`
  say that only the pair above it, or those below it, may be wrong, and that its neighbours are
  in order across it. `RiseTurn` and `SinkTurn` keep that, `Removal` says that the entry put
  in a gap is either rising or sinking, which is the test at the end of `remove_timer()`, and
  `Indexed`, that indices and entries belong together, survives each swap.
  *The timers:* `IInv` adds to `TypeOK` that the heap holds exactly the timers with waits
  (`HeapHoldsActive`), that the time in a timer's entry is still its `expiry` and that of all its waits
  (`EntryIsCurrent`), without which a second `async_wait()` would join an entry of another
  time, and that the alarm is early enough for every timer (`AlarmBeforeAll`): what holds of the root holds
  of all, and a removal, which does not set the timerfd, may put any of them there next.
  For the refinement, `get_ready_timers()` lists the waits of the timers it removes, each once:
  the places in its output correspond one to one to those waits (`ListsMore`), and their times
  never decrease, because each comes from the root of a heap.

Model-checked only: liveness (`Recovers`, `StopDrains`, `StopReturns`, `EveryDueRuns`,
`RunReturns`, `AllReturn`, `Served`, `AllAnswered`), since fairness and ENABLED are beyond the
prover. Every safety invariant and every refinement that a passing run checks is a theorem, some
under the hypotheses on the constants named above.

## 5. Not modelled

- **Single waits, synchronous demos, port listing**: straight-line blocking programs, or one
  wait on one thread: there is nothing to interleave. The two threads of
  `serial_port_sync.cpp` share nothing but the descriptor.
- **`serial_port_async.cpp`**: one thread, a read loop and blocking writes posted to the strand;
  a write that fails throws out of `io.run()` on the io thread, which ends the process.
- **The rest of Asio.** The vendored library is more than nine tenths of the source.
  What the programs of this repository run is modelled: scheduler, epoll reactor, timer
  queue, strand, and the composed connect and write. The rest is code they do not use on the
  modelled platform (SSL, channels, coroutines, `thread_pool`, io_uring, the kqueue and Windows
  back ends) or has no state of its own (overloads, buffer adapters, executor
  type erasure, traits, wrappers of system calls); much of it is the same operation
  generated for another signature.
- **Data races** outside the documented use: `TcpClient::start()` while the io thread runs, and
  two threads in `SerialPortSession::stop()`.

## 6. What could follow

The write side of a descriptor, and two descriptors, in `EpollReactor`; `TcpClient` on top of
`TimerQueue` instead of its own single wait.
