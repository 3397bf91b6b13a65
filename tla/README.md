# TLA+ models of libcoroutin

libcoroutin is a C++20 coroutine library in the manner of cppcoro: awaitable
synchronisation objects, a work-stealing thread pool, cancellation, sequence
barriers and sequencers for ring buffers, an I/O service on kqueue, and the
coroutine types themselves. What is hard in it is its lock-free code: intrusive
lists pushed and taken with compare-exchange, words that pack several counters,
sleep and wake-up protocols, coroutines that are resumed on whatever thread
comes along, and frames that may be gone when a thread comes back to them. This
directory holds TLA+ models of that code, configurations that check them with
TLC, and proofs that TLAPS checks.

To check a model: `tlc -config X.cfg M` for a row of the table under *Runs*; to
check the proofs: `tlapm M.tla` for each module `...Proofs`.

## 1. Inventory

Paths are below `src/`: headers in `include/coro`, sources in `src/coro`.

| Component | State | Operations | What is hard | What makes it correct |
|---|---|---|---|---|
| `async_mutex` | a word (free, locked, or the newest waiter), a private list of older waiters | `try_lock`, `lock_async`, `scoped_lock_async`, `unlock` | waiters push while `unlock` decides; `unlock` runs the next owner inside itself | one owner, first come first served, no waiter lost |
| `async_auto_reset_event` | 64-bit word: set count and waiter count; two waiter lists; a reference count per waiter | `co_await`, `set`, `reset` | list and count are updated separately; anyone may become the resumer; resumption overtakes suspension | one resumer at a time, counts agree with lists, no set left beside a waiter |
| `async_manual_reset_event` | one word: set, or a waiter list | `co_await`, `set`, `reset` | `reset` and new waiters while `set` walks the old list | a gate: everyone waiting when it opens passes, once |
| `async_latch` | a counter, an event | `count_down`, `co_await` | decrements past zero; counter and event are two steps | opens exactly when the count is used up |
| `single_consumer_event`, `single_consumer_async_auto_reset_event` | one word: set, not set, or the waiter | `co_await`, `set`, `reset` | set and wait race; the auto-reset one reads the handle before it takes it | the handle is in one place, and resumed once (the auto-reset one does not keep that, section 5) |
| `thread_pool`, scheduling | per worker: queue, sleep flag, wake-up event; global queue; count of sleeping threads; stop flag | `schedule`, the worker loop, destructor | flag, count and queues are separate; wake-ups race with sleeps; shutdown finds workers anywhere | work never waits for a pool that sleeps; shutdown ends every worker, wherever it is |
| `thread_pool`, local queue | ring buffer, head, tail, mask, mutex | enqueue, pop, steal, grow | owner and thief at the last element; growth under thieves | no operation lost or taken twice; owner newest first, thieves oldest first |
| cancellation | flags and two reference counts in a word; lists of chunks of slots; the notifier | tokens, sources, registration, `request_cancellation` | registration, deregistration and notification race for a slot; destructors wait; the last reference deletes | a callback runs at most once, is never missed, never runs after the destructor; deletion exactly at the last reference |
| `sequence_barrier` | published number, waiter list | `publish`, `wait_until_published` | both sides take the list, divide it and put the rest back; numbers wrap | everyone whose number is published is resumed, once |
| `multi_producer_sequencer` | number to claim, one published number per slot, waiter list | claim, publish, wait | producers publish out of order; waiters look again after putting themselves back | a slot has one writer or readers, nobody sleeps on published numbers |
| `single_producer_sequencer`, `sequence_range` | number to claim, two barriers | claim, publish, wait | what is available, in numbers that wrap | the writer stays ahead of the readers by no more than the ring |
| `io_service` | stop flag and thread count, overflow list | `schedule`, `schedule_after`, four event loops, `stop`, `reset` | threads that peek, wait and sleep; stop at any time | a scheduled coroutine is resumed once |
| `message_queue` | two queues, stop flag, mutex and condition variable, kqueue | submit, worker loop, dequeue, stop | notifications and sleeps, timers and their removal | every submitted message is answered once |
| I/O operations, timers | one `io_message`, a state, a registration | `await_suspend`, completion, cancellation | the message is submitted a second time to cancel; the frame may go while `await_suspend` runs | one answer, none after the frame is gone |
| `shared_task` | waiter list, result, reference count | `co_await`, completion, destruction | awaiting and completing race; waiters drop the task while they are resumed | run once, everyone resumed, frame destroyed last |
| `when_all`, `when_all_ready`, `async_scope`, `sync_wait` | a counter, an awaiting coroutine or thread | start, spawn, completion, join | who brings the counter to zero resumes | resumed once, after all have ended |
| `task`, `generator`, `recursive_generator`, `async_generator` | a coroutine frame, who continues | `co_await`, iteration | hand-over between coroutines, nesting, exceptions | values in order, one coroutine of a row runs |
| addresses | bytes | `from_string`, `to_string` | the double colon | the texts of the grammar, and no others |
| files, sockets | descriptors | wrappers of system calls | | |
| `resume_on`, `schedule_on`, `fmap`, traits, utilities | none | | | |

Interaction: events and the latch resume coroutines by calling their handles on
the calling thread. `thread_pool` and `io_service` resume them on their own
threads. The sequencers use a `sequence_barrier` each, `async_latch` uses
`async_manual_reset_event`, timers and cancellable I/O use the cancellation
objects, and `io_service` is a layer over `message_queue`. The objects share no
other state.

The hazards found in this code are listed with their lines in `PROJECT.json`;
each names the properties that cover it, or says why none does.

## 2. How the models are built

**Granularity.** One action is one atomic operation of the code together with
the local computation around it, or one operation on a mutex, a queue of boost
or a condition variable. Where two such operations are one action, the
module's head comment says why no other thread can tell. Each action's name is
the function or the phase of the function it models.

**Memory.** Atomic operations interleave one after the other (sequential
consistency). What the weaker orders in the code allow beyond that is not
modelled. Weak compare-exchange may fail spuriously: a failed attempt leads
back to the state that a reload leads to, which the models allow at any time,
so it needs no action of its own.

**Lists.** An intrusive list (`m_next` pointers from a head) is a sequence of
coroutines. That is faithful as long as an operation object is on one list at a
time, which is itself one of the properties checked in each module
(`MutexSafe`, `SuspendedOnOneList`, `InOneList`, `TaskSafe`,
`InOnePlace`): if a model broke it, the check would say so.

**Coroutines.** A coroutine and the operation object in its frame are one model
value. In `AsyncMutex`, `SharedTask`, `WhenAll` and the generators resumption is
nested as in the code: the caller of `resume()` does not go on before the
coroutine it resumed suspends or ends. In the other modules a resumed coroutine
goes on concurrently with its resumer, which allows more interleavings than the code has and hence covers them.

**Words.** Counters that wrap or borrow keep a width: `W` is the number of
values (2^32 in the code, smaller in a run), and arithmetic is modulo `W`.

## 3. Modules

### Modules for TLC
`MCEvents`, `MCRings`, `MCCoroutines` and `MCIo` put several components beside
each other in one specification: a variable `object` (`ring`) is chosen in the initial state
and says which of them a behaviour is about, and the others keep their initial values. So
the components do not interact there, and the states add up instead of
multiplying. They extend the modules that proofs are about, so that a run checks
the very definitions that the theorems state, and have an instance of one other
(the addresses); where several modules are extended, all but one name their variables and actions after the
component (`eState`, `LatchInit`, `BarrierNext`, `ServiceInit`, `dequePc`, ...).
`MCCancellation` and `MCIoService` only define values of constants.

### AsyncMutex, AbstractMutex
`async_mutex`. `mState` is `m_state`, a record whose `list` is the intrusive
list the word points to, newest first; `mWaiters` is `m_waiters`, oldest first.
`TryLock`; `LockLoad`, `LockAcquire`, `LockEnqueue`, `LockRetry` are
`await_suspend()`; `UnlockFree`, `UnlockContended`, `UnlockTake`, `HandOff` and
`UnlockHandOff` are `unlock()`; `Leave` is the return of a `resume()` when the
coroutine it ran suspends or ends. `AbstractMutex` is a mutex with an owner and one
queue; the refinement maps its queue to `mWaiters \o Reverse(mState.list)`.

### AsyncAutoResetEvent
`async_auto_reset_event`, with the packed word as one number modulo `W * W`.
`AwaitLoad`, `AwaitCas` are `operator co_await`; `AwaitPush`, `AwaitCount`,
`AwaitRelease` are `await_suspend()`; `Set`; `ResetLoad`, `ResetCas`;
`ResumeMove`, `ResumeSubtract`, `ResumeWake` are `resume_waiters()`. The constant
`ConcurrentReset` says whether `reset()` runs beside other calls: the code breaks
there (section 5), so the passing run confines it to moments of rest, in
order to see what else the component does.

### AsyncManualResetEvent, AsyncLatch, AbstractGate
`async_manual_reset_event`: `eState` is `m_state`; `AwaitReady`, `AwaitSuspend`, `Set` (the
exchange), `ResumeNext` (one step of the walk over the taken list), `Reset`. `AbstractGate`
is what it promises: opening releases all who wait, at once and for good.
`AsyncLatch` extends the event: `CountDown` is the
decrement, `SignalEvent` the call of `set()` that may follow it.

### SingleConsumerEvent, SingleConsumerAutoResetEvent
The first is `SingleSet` and the `SingleResume` that may follow it, `SingleReset`, and
`SingleAwaitReady`, `SingleAwaitSuspend`; it implements `AbstractGate` for one coroutine. The second takes
apart what its `set()` does: `SetLoad`, `SetReadHandle`, `SetExchange`, `SetResume`;
`AwaitStore`, `AwaitFails`, `AwaitUsesUp` are the outcomes of the compare-exchange
of `co_await`. Any number of threads set it (`AutoSetters`). Two may read the same handle and
resume it twice; what is undefined then, the handle of a coroutine that has gone on or the `resume()` of one that
runs, is the value "undefined" of `aWaiter`. The history variable `sharedAddress` says that a call has loaded the
address while another held it. The consumer awaits in a loop, so that its awaiter is at the same address each time.
A `set()` before the waiter is forgotten, although the word has a value for it.

### ThreadPool
The worker loop, `schedule_impl`, `wake_threads`, the intent to sleep and
`shutdown`. Queues are counted here. A thread's `pc` is the place in the code
(`spin`, `announce`, `count`, `asleep`, ...). A worker that runs an operation
may schedule operations (into its own queue or, if that fails, the global one)
as a client thread does. The two functions that only give hints
(`approx_total_work`, `approx_has_queued_work`) read all queues at once; the
scan that decides about sleeping reads them one by one. `SpinStop`, `SpinLook`, `SpinAgain` and
`SpinEnd` are a turn of the spin loop: the look at `m_stop`, the look for work, and what comes
after. `Shutdown` begins at any time and whatever the workers do, with operations running and
queued; running operations may go on scheduling. It is a condition only that the
other threads have left the pool, since no object may be used while it is destroyed. The assertion at
`thread_pool.cpp:317` ends a debug build if an operation is in a local queue at that moment; the model goes on,
as other builds do. At the end of a round `WakeScan` reads `m_stop` and the count in one step.

### WorkStealingDeque, AbstractDeque
The local queue of a worker with its buffer slots, indices and mask, and the
mutex. `Enqueue...` are `try_local_enqueue` with growth and refusal, `Pop...`
`try_local_pop`, `Steal...` `try_steal`. `AbstractDeque` gives the owner the
newest and a thief the oldest operation. It is what allows `ThreadPool` to count.

### Cancellation
One `cancellation_state` with its tokens, sources and registrations. `entries`
and `free` are the chunks of each list and their counts of free slots;
`place` is `m_chunk` and `m_entry_id` of a registration. `Register` to
`Release` are the constructor (`register_callback`, `try_register_callback`,
`add_registration`), `Deregister` and `Wait` the destructor, `DeregisterInCallback`
the destructor in a callback; `Request` to `Finish` are `request_cancellation()`.
Chunk sizes and the threshold of the forced search are constants.

### SequenceBarrier
`sequence_barrier` with one producer. `Enqueue`, `Check`, `Take` are
`add_awaiter()`, `Suspend` and `Resume` the handshake on `m_ready_to_resume`,
`Publish` to `PublishReturn` are `publish()`. The division of a taken list by a number is
`Entries` of `AwaiterLists`, the entries of a list that are in a set, in order;
`MultiProducerSequencer` divides its lists with it too. Sequence numbers are modulo `W`
with the signed comparison of `sequence_traits`. `unseen` is a history variable:
the last `publish()` saw an empty list. (`publish()` names the member
`m_target_seq`, which the class calls `m_target_sequence`, at
`sequence_barrier.h:262`: it does not compile when it is instantiated. The model
takes the evident meaning.)

### SequenceTraits, MultiProducerSequencer, SingleProducerSequencer
`SequenceTraits` is the arithmetic of sequence numbers modulo `W`. In
`MultiProducerSequencer`, `nextToClaim` and `published` are `m_next_to_claim` and
`m_published`; `held` is what a producer has claimed and not published.
A producer claims by `fetch_add`, waits until the earliest of `consumed` leaves
it room, writes and publishes, looks for awaiters and resumes who is ready;
`resume_ready_awaiters()` and `add_awaiter()` go through the taken list with
the comparisons of the code, put back the rest, and look again (`Recheck`).
`SingleProducerSequencer` claims what its barrier's result leaves available,
publishes on its own barrier, and the consumer reads what it was told.

### IoService
`io_service` and `message_queue` for NOP messages. `Schedule`, `AddOverflow`;
`CheckStop` to `NotifyOne` are a worker of the message queue; `Enter` to `Leave`
an I/O thread in one of the four calls (`call` records whether it waits and
whether it returns after one event); `RequestStop`, `StopQueue`, `NotifyAll`, `Reset`.
The condition variable is modelled with its mutex, the gap between predicate and
sleep, `notify_one`, `notify_all` and spurious wake-ups. The queues are boost's, external
here, and they grow (`boost::lockfree::queue` without `fixed_sized`, `macos.h:156`): `push()`
does not fail, and the code's answers to a failure, the overflow list and the wait in
`enqueue()`, are not reached. The model has them because the code has: its queues hold `Capacity`
messages, and a `Capacity` of at least the number of coroutines gives the behaviours of the queues in use.
So what is proved for every `Capacity` is proved for those, and for queues of a fixed size.

### IoOperation
One operation (`kind`: a transfer, `connect`, `close` or a timer) from `co_await` to the
resumption, with or without a token. `submission`, `registered`, `completion` and
`worker` are where its one `io_message` is; `operation`, `result`, `canceled`,
`completed` are what is in it. `AwaitReady`, `TryStart`, `UseAgain`, `Emplace` are
`await_suspend()`; `RequestCancellation` and `Cancel` the callback; `Pop`, the
`EventSet...` actions, `Fire`, `ProcessOne` and `Enqueue` the workers; `Resume` and
`Finish` the I/O thread. The kernel is external: a registered event fires some
day, or its registration fails, with any result. `misused` ends a behaviour at the
first second resumption or use after the end, which the code allows when
there is a token and, for use after the end, for a timer (section 5).
A partial transfer, the accepted socket and the addresses are not in it.

### Ipv6Address
`from_string()` and `to_string()` on texts made of colons, groups and dotted
decimals. The reference is the grammar: `Meanings` are the addresses a text may
stand for, as the expansions of a list with at most one double colon.

### SharedTask
`mWaiters` is the word of the promise: not started, started with a list, or
ready. `try_await()` is `Load`, `Start` (the body runs inside it) and `Push`, or the
ready result (`TaskIsGate`: for its awaiters the task is an `AbstractGate` that opens once); `FinalSuspend` exchanges the word and `ResumeWaiter` walks over the list; copies,
moves and destructors change `refCount`, and the last one destroys the frame
wherever the body is. A body may suspend and go on on another thread.

### WhenAll, AsyncScope
`WhenAll` is `sync_wait(when_all(...))`: the main thread, the root coroutine, the
`when_all_task` of every task (`wrapper`), the counter with `TryAwait` and `Notify`,
and the event (`mIsSet`) under its mutex. `overload` is the `when_all()` that is called: that of a vector
takes the results in the order of the tasks (`when_all.h:42-73`); the variadic one takes them as the arguments of
`make_tuple()`, in an order that C++ leaves open (`:28-33`), so that any exception among them may be the one rethrown. `AsyncScope` is `spawn()`, by
the owner or inside the scope, `join()` and `on_work_finished()`.

### Generators, AsyncGenerator
`Generators` runs programs (values, nested generators, throws) on the promises of
`recursive_generator`: `mRoot` and `mNode` are `m_root` and `m_node`, whose meaning differs between
the root and the others; a generator over `fmap()` and the consumer iterate over it. The reference
is the depth-first traversal of the program (`DepthFirst`); that no coroutine is resumed which runs or is
done is `ResumesSuspended`. `AsyncGenerator` is a row of
`async_generator`s and its consumer, with symmetric transfer: at any time one of
them runs or waits for the outside (`OneRuns`). `SourceSuspend` and `SourceResume` are the last one's
`co_await` of something else.

## 4. Runs

| Run | Module, configuration | Instance | What it checks |
|---|---|---|---|
| mutex_and_events | MCEvents, Events | mutex: 4 coroutines; event: 3 awaiters, 2 callers; latch: counts -1..3, 4 calls by 1 or 2; 2 setters of each single-consumer event; barrier: 2 awaiters twice, W = 12 | safety of all six, refinements of `AbstractMutex` and `AbstractGate`, progress |
| auto_reset | AsyncAutoResetEvent | 3 coroutines that await, set and reset, W = 5 | counts, lists, resumer; a matched waiter runs |
| pool | ThreadPool | 2 workers, 1 client, 3 operations | sleep protocol; work is run; a shutdown that begins at any time ends |
| rings | MCRings, Rings | 2 producers, 2 consumers, 3 claims, ring of 2, W = 16 from 14; ranges of up to 3; deque: 2 thieves, 6 items, buffer of 2 growing | slots, nobody left behind, writer ahead, refinement of `AbstractDeque` |
| cancel_slots | MCCancellation, Cancellation_safety | 3 registrants, 2 cancellers, 2 lists | slots, nobody missed, deletion |
| cancel_calls | MCCancellation, Cancellation_live | 2 registrants twice, 1 canceller, 1 list | callbacks at most once, never late; every call returns |
| io | MCIo, IoService | 3 coroutines, 2 I/O threads, 1 worker, capacity 2, 2 stops, 1 reset; an operation of 4 kinds, 2 workers; texts of up to 17 tokens | nobody lost or doubled, no sleep on a message, nobody stranded by a cancellation, the grammar |
| coroutines | MCCoroutines, Coroutines | 3 coroutines on a task, 3 tasks in when_all, 3 spawned, 3 generators of up to 2 steps, a row of 3 | frames, waiters, results, counters, refinement of `AbstractGate` by the task, who is resumed, order, progress |
| auto_reset_reset | AsyncAutoResetEvent, _reset | 1 awaiter, 1 setter, W = 4 | *violation*: `reset()` |
| barrier_lost | SequenceBarrier, _lost | 1 awaiter, W = 8 | *violation*: the lost wake-up |
| late_cancel | IoOperation, _late | a read, 2 workers | *violation*: resumed twice |
| sequencer_early | MultiProducerSequencer, _target | 1 producer, 2 consumers | *violation*: resumed too early |

Several modules also state a type invariant, which the runs do not list; it is the
first part of the inductive invariant in the proofs (section 6).

**Bounds, and why they are enough.** The interesting cases need few actors. In
the mutex an owner, a waiter in the private list and two in the new one are four coroutines:
more only lengthen lists (and the proofs hold for any
number). The auto-reset event needs a resumer, one who is counted while it works and one
who is not counted yet: three coroutines, each of which also sets and resets; its word needs room for every awaiter and one set
(`W > Cardinality(Awaiters) + 1`, an assumption of the module). Two callers of
`set()` and three awaiters let a coroutine queue again behind a walk that is
still going on. Two callers of the auto-reset `set()` are what it takes to resume its consumer twice. In the pool two workers suffice for one to steal, wake and be
woken by the other; `MaxOps` bounds the operations scheduled in a behaviour, and with
three a thread that wants to wake two finds that another has claimed one of them, and a shutdown finds one running, one queued and one yet to be scheduled. Six items in a
buffer of two slots wrap around it and grow it twice. Three claims on a ring of two
make a producer wait for the consumers, let the second number be published before the
first, and cross the point where numbers wrap. With chunks of one and two
slots every third registration of a list has to append a chunk, search two, or
lose the race for one; `MaxRegs = 2` reuses slots, and a second canceller finds the request
already made. `W = 12` with
`Ahead = 2` starts the barrier next to the point where its numbers wrap and keeps
differences far below half of `W`. Queues of two messages and three coroutines let two messages
follow each other through each queue, past threads that peek and one that waits; the third
coroutine makes the code's answer to a full queue happen too.
An operation has its message in at most two places, the second by a cancellation, so two
workers can have one each. Seventeen tokens are eight groups with all colons, two of them
in a row or more: as long as a text may be, and longer by one. Three holders of a shared task are one that
runs the body, one that queues and one that lets go. Three
tasks have a first, a last and one between that may fail. Three generators of two
steps nest twice and return to a parent with a step left. Every bound is a constant of its module (`MaxOps`, `MaxItems`, `MaxRegs`,
`MaxCalls`, `MaxClaims`, `MaxCount`, `MaxPublished`, `MaxWaits`, `MaxSteps`, `MaxValues`, `MaxLength`,
`MaxSchedules`, `MaxStops`, `MaxResets`) and appears in
the guard of one action or in the initial states. Symmetry is used only in runs without temporal
properties under fairness (rings, io), on sets whose members no other definition
tells apart.

**Deadlock** is checked where the system can always do something. It is
switched off where behaviours end: bounded operations are used up, the pool is
shut down, all tokens and sources are gone, or every coroutine waits for an event that
nobody is left to set. That no call hangs short of that is what the progress properties
say (`WaitersAreServed`, `ReleasedRun`, `CallsReturn`, `MatchedWaiterRuns`,
`OpsRunUnlessMiscounted`, `ShutdownJoins`, `WaitersGoOn`); run io checks none, run rings states what
would be left behind as an invariant (`NobodyLeftBehind`).

**Fairness.** A thread in a call takes its next step (weak fairness of its
steps), as threads of a preemptive scheduler do; nobody has to begin a call.
For the mutex it is also assumed that a holder unlocks, for
`ThreadPool` that an operation that runs ends, and for `SharedTask` and `WhenAll` that a
coroutine which suspends for something else is resumed and does not do so for ever (strong fairness of
its end). `IoService` states `ServiceFairSpec`, used
by further configurations only (section 5): it assumes that a
resumed coroutine suspends again or ends, that threads
enter the event loop as long as it is not stopped, that a thread that
keeps trying gets `m_cqe_mutex` in the end, and that a worker that keeps trying
finds room in the completion queue in the end (strong fairness of `Lock`,
`NotifyOne` and `PushCompletion`); mutexes of the usual platforms and a bounded queue that is
emptied again and again justify that in practice, though no standard does.

**Every property can fail.** Beside the actions the modules hold mutants of
them (`UnlockTake_Lifo`, `Recheck_Never`, ...), each with the comment "Mutant" and
used by no specification: a dropped guard, a swapped order, a missing update.
`PROJECT.json` names for each property a mutant that breaks it.

## 5. Where the code departs from its documentation

The four runs marked *violation* check one sentence of a comment or an assertion
each, and TLC finds a behaviour of the code against it.

1. auto_reset_reset: `reset()` of the auto-reset event retries on stale counts and makes the word underflow (`async_auto_reset_event.cpp:54`); the assertion in the destructor (`async_auto_reset_event.h:25`) fails.
2. barrier_lost: `publish()` looks for awaiters before it stores the number and can leave one suspended (`sequence_barrier.h:239`), against `sequence_barrier.h:55`. `LeftBehindOnlyIfUnseen` shows that this test is the only cause.
3. late_cancel: a request for cancellation that comes when the operation has completed is not ignored, as `macos_io_operation.h:103` says, but enqueues the same message again: the coroutine is resumed twice. `NeverStranded` shows that the other way round is safe: no cancellation loses the message.
4. sequencer_early: `add_awaiter()` compares other awaiters with its own number (`multi_producer_sequencer.h:633`) and resumes them too early, against `:68`. `NobodyLeftBehind` shows that nobody is resumed too late.

Further configurations are kept beside the runs. Each checks a
sentence of the documentation or a promise of the interface too, and TLC finds it violated:

| Configuration | Module | What it shows |
|---|---|---|
| ThreadPool_stuck | ThreadPool | a worker that withdraws its intent to sleep leaves its own event set and is counted as sleeping twice (`thread_pool.cpp:517`); with the count too high, `wake_threads()` on a worker searches for sleepers that do not exist (`:583`), and an operation is never run |
| SingleConsumerAutoResetEvent_twice | SingleConsumerAutoResetEvent | two calls of `set()` that load the same handle both resume it (`single_consumer_async_auto_reset_event.h:20`); when the consumer has awaited again between the two, it runs with its address in the word, and the assertion of its next `co_await` fails (`:45`). `SuspendedOnceResumedOnce` shows that this order of the two calls is the only cause |
| Rings, with `SizeLimit` among the invariants | MCRings | the local queue's limit of 1 MB is never applied (`thread_pool.cpp:76`) |
| IoService_stop | MCIoService | `message_queue::stop()` notifies without the mutex and can leave a thread asleep (`macos.h:345`); with `MaxResets = 1` and `SubmittedIsResumed` as its property: `reset()` of `io_service` does not revive the message queue (`io_service.h:69`) |
| IoService_until | MCIoService | `process_events()` can return before `stop()` (`macos.h:383`) |
| IoOperation_offset | IoOperation | a file is read from where its descriptor stands and not from the offset given (`file_read_operation.cpp:10`) |
| Generators_throw | Generators | an exception a nested generator throws before its first value is lost (`recursive_generator.h:80`) |

`IoService_live` passes: with threads in event loops that wait and without
`reset()`, a submitted coroutine is resumed unless the service is stopped
(`SubmittedIsResumed`, under the `ServiceFairSpec` described above). It takes two coroutines,
two I/O threads and the two calls that wait.

Seen while reading and not checked: `m_message` of a timer is used before it is
initialised when cancellation comes first, and its token is tested after it was
moved away (`io_service.h:156`); `lightweight_manual_reset_event::set()` notifies
after it released the mutex, when the waiter may have destroyed the event
(`lightweight_manual_reset_event.cpp:12`); move assignment of `generator` leaks the old frame
(`generator.h:156`); `is_private_network()` tests the third byte of 192.168 (`ipv4_address.h:57`);
a file is closed twice when its lock fails (`file.cpp:143`); `back()` and `operator[]` of `sequence_range` return
references to temporaries (`sequence_range.h:85`); `ipv6_address::from_string()` reads past the end of a text
that breaks off in its dotted part (`ipv6_address.h:218`).

## 6. Proofs

Each theorem holds for every value of the constants that the modules' named
assumptions, or the assumption named in the theorem, allow. Every invariant that a
passing run checks on a small instance is the `property` of a theorem in
`PROJECT.json`, but for the two named below under *Only model-checked*;
`SingleImplementsGate` is proved and in no run. Each proof shows that an inductive
invariant holds at the start, that every action keeps it, one step of the proof per
action, and that it implies what the run checks. The invariants were tried on
the runs' instances with TLC before they were proved. `Lemmas` holds what several
proofs need about sequences, cardinalities, remainders and least numbers.

| Module | Theorems: properties | Assumptions | Inductive invariant |
|---|---|---|---|
| EventProofs | `MutexSafety`: `MutexSafe`; `MutexRefinement`: `FifoMutex` | `None` and the names of words are not coroutines | `MutexInv`: types and the five parts of `MutexSafe` |
| | `WaiterSafety`: `SuspendedOnOneList`; `EventRefinement`: `ImplementsGate` | none | `ListInv`: lists without repetitions, disjoint, of exactly the suspended |
| | `CountSafety`: `ReadyMeansCounted`; `LatchRefinement`: `ImplementsGate` | counts are integers | `LatchInv`: whoever is about to set the event has seen the count used up |
| | `HandleSafety`: `HandleIsInOnePlace`; `SingleRefinement`: `SingleImplementsGate` | the handle is none of the two other values of the word | `SingleInv`: the places the handle can be in |
| | `AutoHandleSafety`: `SuspendedOnceResumedOnce` | none | `AutoInv`: who knows the suspended coroutine; as long as no two calls held the address, one call is past its load and the word tells where the coroutine is (`OneCallInv`) |
| | `BarrierSafety`: `InOneList` | distinct names, numbers within half of their range | `BarrierInv`: who has which list, and who waits |
| | `BarrierFound`: `LeftBehindOnlyIfUnseen` | the same | `BarrierInv` and `LookInv`: numbers, targets, who will look |
| AutoResetProofs | `CountSafety`: `WordCountsWaiters`; `MatchSafety`: `NoStrandedWaiter`; `DestructorSafety`: `DestructorAsserts` | finitely many coroutines, room in the word; `reset()` at rest | `EventInv`: references, lists, resumer, set counts |
| CancellationProofs | `RegistrationSafety`: `RegistrationsAreServed`, of `SlotSafety` and `NotificationSafety`; `CallSafety`: `CalledOnceInTime`; `DeletionSafety`: `DeletedLast` | finitely many threads, at least one canceller | `CancelInv`: slots, calls, references |
| RingProofs | `ContentsSafety`: `ContentsAreIntact`; `DequeRefinement`: `ImplementsDeque` | none on the sizes | `DequeInv`: the contents from `Lo` to `Hi` |
| | `AheadSafety`: `WriterStaysAhead` | `2 * Size + 2 < W` | `SingleInv`: five numbers that do not wrap |
| | `SlotSafety`: `SlotsAreExclusive` | the same, room for `MaxClaims`, at least one consumer | `MultiInv`: distances, and what is known to be published |
| | `WaitSafety`: `NobodyLeftBehind` | the same | `MultiInv` and `WaitInv`: who has which list, who waits, who will look |
| PoolProofs | `SleepSafety`: `NoSleepOnWork` | `CountFits` throughout | `PoolInv`: flags, count, who will look again |
| IoProofs | `PlaceSafety`: `InOnePlace`; `WakeUpSafety`: `NoSleepOnMessage` | `None` is neither a coroutine nor a thread, finitely many threads | `PlaceInv`: six places; `WakeUpInv`: messages and those who will take them |
| | `NobodyStranded`: `NeverStranded`; `TokenlessSafety`: `WithoutToken` | the kinds are the four modelled | `IInv`, `IInvToken`: see below |
| CoroutineProofs | `TaskSafety`: `TaskSafe`, of `FrameSafety`, `QueueSafety`, `TaskResultSafety` | finitely many coroutines | `TaskInv`: word, phase of the body, its runner, holders and queue |
| | `TaskRefinement`: `TaskIsGate` | the same | `TaskInv` |
| | `RowSafety`: `OneRuns` | `Levels \in Nat \ {0}`, `MaxValues \in Nat` | `RowInv`: where control is, and what those before and after it hold |
| | `ResumeSafety`: `ResumesSuspended` | `Depth \in Nat \ {0}`, `MaxSteps \in Nat` | `RecursiveInv`: the chain of promises, and the `resume()` calls at its end |
| | `AllSafety`: `JoinsWithResult` | `N \in Nat` | `AllInv`: count = unfinished wrappers + the root's own share |
| | `JoinSafety`: `JoinedWhenDone` | finitely many coroutines | `ScopeInv`: count = coroutines in the scope + the owner's share |

*Mutex.* The argument goes through one operator, `Queue == mWaiters \o
Reverse(mState.list)`, all waiters in order of arrival. To show that
`unlock()` leaves one owner one must know that who it resumes is suspended and not
elsewhere in the queue (`SuspendedAreQueued`, `QueuedOnce`); to show that nobody is
queued twice one must know that a coroutine about to queue is not suspended and,
for the nesting, that the caller of a `resume()` is waiting in it and for
nobody else (`NestedResume`); that `UnlockTake` finds a list needs the agreement of
word and owner (`WordMatchesOwner`) and that only the owner empties it
(`UnlockAsserts`). Lists are dealt with once, in lemmas about `Reverse` and `Queue`;
after that a step does one of four things to the queue, each with a lemma.

*Events.* A list changes by a push in front, by being taken whole, or by losing its head
(`PushFront` and its companions). The refinement maps who is released to those
on a list that `set()` has taken, so that the exchange is the abstract step
that opens the gate, and each resumption is a stutter or a passage.
The property that is checked counts occurrences of a coroutine in places; the proof
goes from the three parts of `ListInv` to that count at the end. The latch takes each of its
steps as one of the event or leaves the event alone, so that `ListInv` holds of it too, and it
implements the same gate, which it never closes (`LatchRefinement`).

*Sequence barrier.* Lists are taken whole, so that the lists in hand and the
barrier's own are disjoint (`BarrierDistinct`, `BarrierExclusive`) and a coroutine that
waits is on exactly one of them (`BarrierHeld`). That gives `InOneList`. For
`LeftBehindOnlyIfUnseen` numbers are replaced by counts (`Upto`) that
do not wrap below `Top`; an awaiter that puts others back watches for the least of
their targets (`PutBackInv`, from the fact that the division of a list attains
its minimum); and an awaiter in the list whose number is published has a taker: another
awaiter that is about to take the list (`FoundInv`). `publish()` makes numbers published
without a taker, but takes the list itself after that, unless it looked before and saw none (`unseen`).

*Auto-reset event.* The packed word is two counts (`SetCount`, `WaiterCount`) as
long as neither borrows from the other; that it does not is part of the invariant:
every waiter counted in the word is in a list and every one in a list but not in the word is
about to count itself (`Counted`, `InLists`). One process is the resumer while both
counts are positive (`ResumerInv`), and it alone touches `mWaiters`.

*Cancellation.* `Located` follows a registration from its search for a slot to its
removal; a slot is taken and emptied by one compare-exchange each, so that it and its registration
always point at each other (`SlotInv`). For
`NobodyMissed` one must know what the walk of the notifier has still to see: a
registration that has not been called has its slot `Ahead` of the walk, also when the
list grows a chunk meanwhile; one that finds the request already made is not left to the walk. The two reference counts are cardinalities of the sets
of those that hold a reference. `DeletedLast` is false without any canceller, as TLC
showed: a state that nobody ever referred to has no last reference.

*Local queue.* The contents are the numbers from `Lo` to `Hi`, in which a thief that has
raised the tail and an owner that has lowered the head do not count, although the
code's own indices cross for a moment. Growth copies the cells (`Grown`); that distinct numbers
have distinct cells is a lemma about remainders.

*Sequencers.* For one producer the proof replaces the wrapping numbers by natural
ones (`Counts`): what is consumed, may be read, is published and is next to claim, `c <= r <= p < n`, with
`n - 1 - c <= Size`. The code's differences are theirs if `2 * Size + 2 < W`; at
equality `WriterStaysAhead` is false, as TLC found, which is why `SequenceAssumption`
is strict. For many producers the distance from the first number takes their place
(`Un`). What a thread is told is `Sound`: all numbers up to it that are not yet consumed are
published, and no number that a producer holds is before it. That is so even if it is resumed too early
(section 5), so that no slot is read before it is written; a producer holds a number without
writing until the consumers have left the slot (`HeldInv`).

*Awaiters of many producers.* An awaiter that sleeps is in one place: the shared
list, or one of the three lists (`taken`, `requeue`, `toResume`) of one thread (`WaitApart`,
`WaitHeld`); any number of threads may have such lists at once. A scan of the published numbers ends
where nobody has consumed further (`NobodyFurther`, `ScanInv`). A thread
that puts awaiters back looks again, and what it looks at next reaches from what they
had seen to the least of their numbers (`Looks`, `PutBackInv`). `FoundInv` says that an awaiter in the
list, all of whose numbers are published, has a thread that is about to take the
list or about to find that it has to: a producer that has stored, an awaiter that has put itself
there, or one that has put others back. The publication of a range stores its first number last,
so that nothing behind it counts as published before (`RestArrives`). At rest there is no such
thread, which is `NobodyLeftBehind`. That an awaiter may be resumed too early (section 5) does not
disturb this: the argument is about those who stay.

*Thread pool.* Work in a local queue has its worker awake (`LocalInv`). Work in the
global queue has a thread in `wake_threads()` or a worker that will look into that queue before
it sleeps, as long as nobody has called `shutdown()` (`LookInv`, `WillLook`); after that work left in a queue
has a worker that is not blocked (`StopInv`). A worker whose flag has been taken has its event set, or the
thread that took the flag is about to set it (`FlagInv`). What must not happen is that
`wake_threads()` finds the count at zero while all workers are flagged: the last
one that counted itself, and a thread that has claimed one and not yet found it, rule that
out (`CountInv`).
The hypothesis `CountFits` says that the count does not wrap. The
code does not bound the count: a worker that withdraws its announcement sets its own event and
counts itself again for one sleep (section 5); with a wrapped count
`NoSleepOnWork` is false, as TLC shows for one worker and `W = 4`.
With 2^32 values the count would have to be wrong four thousand million times.

*Auto-reset event for one consumer.* With any number of calls of `set()` the history variable splits the
invariant. A suspended coroutine is known to the word or to a call whatever happens. The rest, that it is resumed
once, follows from `OneCallInv` as long as `sharedAddress` is false: one call at most is past its load, and until it
has resumed the coroutine stays suspended, so that a second call finds no address in the word.

*I/O service.* `Spots` says that the six places of a coroutine in `schedule()` (overflow list, submission queue,
a worker's hands, completion queue, the list an I/O thread took from the overflow list, and
what a thread is about to resume) hold a suspended coroutine once, and no other. `WakeInv` counts: as long as
a thread sleeps, the completion queue has at most as many messages as there are notifications to
come and threads that are awake and will look.

*I/O operation.* `NeverStranded` is not inductive: a worker may drop the message
when it is cancelled (`canceled`) or found completed. `StrandInv` adds that a message
that was marked as completed is on its way to the completion queue, and `CancelInv` that a
cancelled timer has had its operation replaced. `WithoutToken` follows from `OnePlace`,
the five places of the message.

*Counters.* `when_all` and `async_scope` are proved by counting: the cardinality of a
set of coroutines that are not done, plus one for the coroutine that waits until
it has given up its share. A decrement to zero then says that the set is
empty. The result of `sync_wait()` needs in addition that a wrapper keeps what its task came to; which exception is rethrown
depends on the overload of `when_all()` (`Collected`).

*Shared task.* The list in the word and the list that `final_suspend()` walks over are one
`Queue`, since only one of them is in use at a time; `PhaseInv` ties the word to the place
of the body, `RunnerInv` says on whose thread the body is and that this thread
waits for it, and `HoldersInv` ties the count to those who hold the task. That the frame is not destroyed under a body needs
all of them: the thread that starts the body, or a waiter that is queued, holds it.
`TaskRefinement` maps the exchange in `final_suspend()` to the opening of the gate, and those on the list
it has taken to the released. An awaiter whose view of the word (`old`) is from before the exchange does not get
into the list: its compare-exchange needs the word to be what it has seen, and a word that is `Ready` stays so.

*Row of asynchronous generators.* Control is at one level, and those nearer the consumer wait, each with its
`mConsumerHandle` set by the next. It goes to the source (`Descends`), and then those beyond it are all at their beginning or
all at a co_yield; comes back with a value (`Ascends`), which they hold; or comes back with the end
(`Unwinds`), when they have ended with the exception of the source, if any. The numbers of values yielded
and received differ by one exactly on the way back with a value. A step moves control by one level or turns it round,
and only the levels at its ends have to be looked at.

*Recursive generators.* The promises form a chain from the active generator to the root (`ChainInv`), the parents
of which are not done; the `resume()` calls under way are a part of it that ends with the active one
(`StackInv`). To show that a generator which is yielded is not yet on the chain (`YieldFinds`) one must know that it
has not been linked before, and that follows from the program: a generator object is yielded in one place
(`OnePlace`), and the parent of a linked one is past that place (`LinkInv`). No recursion is needed, since a
parent has the smaller number. A child that ends inside the call that
started it (`CompleteKeeps`) and one that is found complete by `pull()` (`PullParentKeeps`) leave the chain in the same
way (`ParentActive`).

**Only model-checked:** `DepthFirst` and `ReadsTheGrammar`, since what they compare with is computed by
recursion on data, which is out of the prover's reach; and all progress properties, since
it does no liveness under fairness.

## 7. Not modelled

Weak memory orders (among them the relaxed failure order of `shared_task.h:81` and the relaxed accesses to
`m_stop`); a pool whose constructor fails half-way; allocation failure (`std::bad_alloc`, `nothrow` growth is
modelled as a refusal); exceptions of callbacks (the code terminates) and of thread
creation; the schedulers behind a resumption in the barrier and the sequencers; the work
count of `io_service`, which only decides who calls `stop()`; a timer cancelled before
it is submitted, which uses an uninitialised pointer; the queues of `IoService` and the
messages of `IoOperation` in one model, whose product is too large and whose only
interface is the place of a message; copies and assignments of tokens and sources beyond
what a registration does; assignment and early destruction of generators; a function of `fmap()` that throws over
an `async_generator`; `claim_up_to()` of no numbers; two operations on one descriptor, of which a cancellation
of one takes both registrations away (`macos.h:557`); a cancellation whose `commit()` fails, which
the queue in use never lets happen; system calls,
IPv4 addresses, endpoints and the wrappers of sockets and files, which have no control of their own;
`lock_free_queue`, which nothing uses; compile-time traits.

## 8. What the plan has left

1. **Proof**: `ImplementsDeque` used in `ThreadPool`, which counts; `NoSleepOnWork` in a form
   that says how far the count of sleeping threads may be wrong.
2. **Composition**: `IoOperation` with what `Cancellation` promises, stated as a small
   abstract module that `Cancellation` implements; the sequencers with `SequenceBarrier`
   in place of the results of its waits.
3. **Generators** that are assigned to or destroyed before their end.
