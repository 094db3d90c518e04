# BaseCoreLib in TLA+

BaseCoreLib (`src/BaseCoreLib`) is a C++ library of concurrency and I/O
building blocks for Linux, macOS, Android and Windows. Its centre is an
Android-style *looper*: a thread that takes delayed messages from a queue and
hands them to handlers. Around it are queues, locks, threads, timers,
coroutines and files.

This directory models the parts of the library whose correctness depends on
how threads interleave and on long sequences of calls. TLC checks the models
on small instances; TLAPS proves the most important properties for every value
of the constants. `PROJECT.json` maps each definition to the source lines it
models and lists runs, hazards, findings and theorems.

Paths below are relative to `src/BaseCoreLib`.

## 1. Inventory

| component | state | operations | interacts with |
|---|---|---|---|
| **Message queue** `src/looper/MessageQueue.cpp` | singly linked list `mMsgQueueHead/Tail/Size`, message pool, flags `mBlocked`, `mQuit`, `mNotEnqueMsg`, test timeout | `enqueueMessage`, `obtain`, `next`, 9 `removeMessage` overloads, `removeAllMessages`, `recycleMsg`, `quit`, `hasMessage`... | client threads, one looper thread; `mLock`, `mMsgPoolMutex`, `mWait` |
| **Message** `src/looper/Message.cpp` | contents, parameter and its deleter, target, due time, in-use flag | `obtain`, `makeInUse`, `recycle` | owned by `unique_ptr`s that move between clients, list, pool and looper |
| **Handler** `src/looper/MessageHandler.cpp` | callbacks, queue, looper | `sendMessage...`, `post...`, `remove...`, `dispatchMessage` | stamps messages and calls the queue; a message points back to it by a raw pointer |
| **Looper** `src/looper/MessageLooper.cpp` | `mExit`, `mPromoteThrLevel` (both unsynchronised), queue | `prepare`, `loop`, `quit` | runs `next`, `dispatchMessage`, `recycleMsg` |
| **Looper thread** `src/looper/LooperThread.cpp` | thread, looper, running flag | constructor, `getLooper`, `quit`, `quitSafely`, destructor | thread, semaphore, looper |
| **Condition, Mutex** `inc/os/Condition.hpp`, `Mutex.hpp` | waiters | `wait`, timed `wait`, `notifyAll` | two implementations, POSIX and Windows |
| **CircularQueue** `inc/os/CircularQueue.hpp` | ring buffer, indices, size | blocking and non-blocking `push`, `pop` | many threads, one mutex, two condition variables, `notify_one` |
| **RingQueue** `inc/os/CircularQueue.hpp` | ring buffer, two atomic indices | `push`, `pop` | one producer and one consumer, no lock |
| **Lock-free queue** `inc/os/LockFreeQueue.hpp` | list with a dummy node, `head`, `tail`, versions, a pool whose free nodes form a second list | `enqueue`, `dequeue`, `try_dequeue` | threads on both sides, compare-and-swap |
| **Fixed thread pool** `inc/os/SimpleFixedThreadpool.hpp` | task queue, map from arguments to tasks, shutdown flag | `execute`, destructor | detached worker threads, one mutex, a condition variable |
| **Semaphore, sync locks** `inc/os/Semaphore.hpp`, `CondSyncLock.hpp`, `SemSyncLock.hpp` | counter, flag | `wait`, `post`, `signal` | looper thread |
| **ThreadBase** `src/os/ThreadBase.cpp` | thread data shared with the new thread | `start`, `join`, `detach` | looper thread, pool |
| **TimerTask** `src/os/TimerTask.cpp` | thread-local looper and handler | constructor (runs the loop), `schedule` | message queue and looper |
| **Coroutines** `src/os/SimpleCoroutine.cpp` | list of coroutines and its counter, statuses, current one, saved contexts | `coro_create`, `coro_resume`, `coro_yield`, `coro_destroy` | one thread, `setjmp`/`longjmp`, `rand` |
| **File, FileUtil** `src/os/File.cpp` | `FILE*`, whether to close it, a place to read and one to write | constructors, copies, moves, `fopen`, `fclose`, `fread`, `fwrite`, `fgets`, `fprintf`, `size`, `getOneLine`, reading and saving by path | streams of the C library, shared by copies |
| **Asset files, utilities** `AssetFile.cpp`, `CAssetFile.cpp`, `FileUtil.cpp` | | directories, assets | operating system |
| **Logger, time** `src/os/Logger.cpp`, `src/base/TimeUtil.cpp` | | formatting, clock | vendored spdlog |

What is hard here, and what makes each part correct:

* *Message queue.* The list's tail pointer, size counter and pool are kept by
  hand in a dozen places; `next()` releases its lock between rounds and (on
  Windows) before it sleeps; quits, removals and sends race with it. Correct
  means: every message has one owner; list, tail, size and order agree;
  messages leave when due, earliest first, in arrival order for equal times;
  the looper never sleeps through work; a safe quit delivers all that was
  accepted; nothing is accepted after a quit.
* *Looper.* `quit()` and `loop()` share plain flags. Correct means: `mExit` is
  visible only behind a closed queue, the loop ends after every quit and not
  before its queue is drained, and the handler of a message exists when the
  message is dispatched.
* *CircularQueue, RingQueue.* Both promise a bounded FIFO queue; the first
  must also never leave a thread asleep next to work, the second never touch
  one slot from two threads.
* *Looper thread, ThreadBase.* A thread is started, handed its data, made known
  to its clients and joined while others call the object. Correct means:
  nobody gets a null looper, nobody reads freed start data, the object outlives
  its thread, and calls return.
* *Thread pool.* A task and its argument are kept in two containers and
  matched by function. Correct means: enough workers wake, no argument is used
  twice, tasks left when the pool is destroyed still run, and workers end.
* *Coroutines.* Global state is switched by hand and the next coroutine is
  chosen at random. Correct means: the counter is the length of the list, a
  switch continues the coroutine it names, nothing reachable is freed.
* *Lock-free queue.* Nodes are freed and reused while other threads still hold
  pointers to them. Correct means: no node is lost or in two lists, values come
  out in the order they went in, and no thread waits for another.
* *File.* Copies share a stream, moves and assignments hand it on, and each
  object reads and writes at places of its own. Correct means: a stream is
  closed once and not used afterwards, none is forgotten, and what one object
  does with a stream does not move the places of another.

The hazards, each at its line, are in `PROJECT.json`.

## 2. Modules

```
BoundedFifo ─┬── CircularQueue ── MCCircularQueue
             │        └── CircularQueueProofs
             ├── RingQueue ── RingQueueProofs
             └── LockFreeQueue ── LockFreeQueueProofs

MessageQueue ─┬── MCMessageQueue
              └── MessageLooper ─┬─ MCMessageLooper
                                 └─ MessageLooperProofs (of the queue, too)

LooperThread ── LooperThreadProofs
FixedThreadPool ── FixedThreadPoolProofs
SimpleCoroutine ── SimpleCoroutineProofs
CursorFile ── File ─┬── MCFile
                    └── FileProofs
```

### MessageQueue

The state is that of `MsgQueue` with the lists as sequences of message objects
(`mMsgQueue` for head and `mNext` pointers, `mMsgPool` likewise), the fields of
all `Msg` objects (`msg`), the objects the allocator has given out (`live`), who
owns the rest (`held`, `call`, `ret`), the looper's place in `next()` (`npc`)
and the clock. The *pointers* the code maintains by hand, `mMsgQueueTail`,
`mMsgQueueSize`, `mMsgPoolSize`, are separate variables, so they can be wrong.

*Granularity.* Code that holds `mLock` throughout is one action.
A send is two (`sendMessageAtTime` stamps the message, `enqueueMessage` takes
the lock later; other threads run in between). `next()` is split wherever it
gives `mLock` up: on POSIX at the end of a round and while it sleeps; on
Windows (constant `Windows`) also between its check of `mQuit`, its read of
`mBlocked`, the sleep and the second lock. A condition variable keeps one bit,
`notified`, set by `notifyAll` only while `next()` sleeps: a notification to
nobody is lost, and sleeps may end spuriously. `removeAllMessages` takes the
pool's mutex once per node and is one action per node (`sweep`) under `mLock`.

*Undefined behaviour.* `removeAllMessages` reads a node it has given away when
it removes the head, and dereferences a null head when called without a
handler. `SweepFault` stops the system (`status = "faulted"`) in exactly these
cases; where the read can also succeed (the node went into the pool), both
outcomes are possible.

*Data.* Times are milliseconds from the same clock as the code's; contents are
records of the five fields that `removeMessage` overloads compare; parameters
are opaque. `hasMessage`, `isIdle`, the dumps and idle handlers change nothing
that others read and are left out.

### MessageLooper

Extends the queue with the looper thread's place in `loop()` (`lpc`), each
quitter's place in `MsgLooper::quit` (`qpc`), the two flags, and the set of
handler objects that exist. Every access to a flag another thread writes is a
step. `Post` and `PostEnd` model `post`, `sendEmptyMessage` and
`postAtTime(runnable)`: they build a second owning pointer to `this`, which
deletes the handler when the call ends.

Every action that touches the queue is an action of `MessageQueue` with the
looper's part added, so what is shown of the queue holds under a looper
(lemma `LooperUsesQueue`).

### BoundedFifo, CircularQueue, RingQueue

`BoundedFifo` is the promise: calls, one atomic effect each, results; a
non-blocking call may be refused only if it cannot be served at that moment.
`CircularQueue` has one action per critical section, a set of sleepers per
condition variable, and `notify_one` as a choice of a sleeper; the woken thread
must compete for the mutex with newcomers. `RingQueue` has one action per
access of the other side's index or of a slot; acquire and release make such
interleavings the ones the program has. Mapping: the abstract `q` is the part
of the buffer between the indices (for the ring, with the value a pop has moved
out but not yet released in front).

### LooperThread

`LooperThread` with the parts of `ThreadBase` and `Semaphore` it uses, as built
on POSIX. Clients call `getLooper`, `quit` and `quitSafely`, one destroys the
object when no other client is in a call; who has the looper may also call its
`quit` directly. `mMutex` is a variable where it is held across steps (`start`
around `pthread_create`, the destructor around `join`), else a call under it is
one action. The thread's steps are those another thread can see: setting
`mLooper`, setting `mIsRunning`, the post, the loop's end, deleting the thread
data. The looper is one bit, `closed`; that a loop ends exactly when its queue
is closed is what the run `looper` shows. `Handler` is a message
handler that calls `quit` on the object. `pthread_create` may fail.

### FixedThreadPool

One action per critical section of a worker, `execute` and the destructor; the
notifications, which come after the unlock, are steps of their own. Callables
are functions, which `target<>` can compare, or opaque ones, which it cannot.
The search of the argument map may find any entry of the function (hash order).
A worker that finds none keeps the mutex and loops (`Spin`). The history
variable `misused` records that a caller passed an opaque callable or an
argument that was in use.

### SimpleCoroutine

The state is the library's (`g_co_list`, `g_co_cnt`, `g_cur_co`, statuses) and
what the machine really does: `exec`, whose code runs, and `ctx[c]`, whose code
the `jmp_buf` of `c` continues. Saving stores `exec`, jumping loads it, so a
wrong switch shows. `rand()` is a choice. Callers keep the library's asserts
and its rule that only the main coroutine resumes. A `coro_resume` that finds
no memory for a stack, or a coroutine that cannot be resumed, changes nothing
(`ResumeReturns`).

### LockFreeQueue

Every access of `head`, `tail`, `free_list` or a field of a node that another
thread may reach is an action; a `compare_exchange_weak` may fail for no reason.
Nodes are numbers, the pool has `size` of them and grows as `expand` does, and
both lists use the one field `next`, as in the code, so a stale pointer can walk
from one list into the other. `deallocate` counts the version up and then resets
it with the node, which is what the code does. A consumer's element leaves its
node (`MoveOut`) after the exchange of `head` (`TakeHead`). Memory is
sequentially consistent. There is one producer; consumers are a set.

The mapping to `BoundedFifo`: enqueue takes effect with the exchange of the
link, dequeue with the exchange of `head` or, when it returns false, with the
read of `next` that found nothing. A dequeue that has used up its attempts may
also return false of a queue that is not empty (`GivesUp`).

### CursorFile, File

`CursorFile` is what `File` offers: per object a place to read and a place to
write, per path the characters written and those that have reached the system.
`File` has the objects' fields, the streams (path, mode, position, end-of-file
flag, buffer, open or not), and the disk. The streams follow the C library on
POSIX: `fseek` and `fsetpos` write the buffer out and clear the flag, `fwrite`
of `File` flushes, its `fprintf` does not. `owned` and `lent` say who answers
for a stream: a File, or the client that has lent it; in neither is a stream
opened through a File whose `mNeedClosed` a move has cleared. Closing or using a closed
stream stops the program (`fault`); `shared` remembers the streams that a File
which closes them was copied with. A disk operation by path is used on files
that are not open, and a file has one open stream or several that only read.
The mapping to `CursorFile` is `Content` (the text on the disk with the stream's
buffer written over it) and `Cursor` (none, none open, or a path and two places).
Letting a stream go may take the file away from Files that share the stream, in
an assignment by move too: with two Files the only other File is the one moved
from, and the case of a third came out in the proof.

### Faulty variants

Definitions that a comment introduces as a "Faulty variant" are mistakes one
could make in the code: a forgotten notification, a tail not moved, an index
not wrapped. No specification uses them. `PROJECT.json` lists which property
each of them breaks; a property that no mistake breaks would say nothing.

## 3. Runs

| run | instance | shows |
|---|---|---|
| `queue_posix` | 3 messages, 2 handlers, 2 clients, pool of 2, delays -1 and 1, an absolute time, test timeouts, time up to 2; 0.95 M states | order, tail, delivery, removal and wakeups of the queue on POSIX; a safe quit drains the list *unless a test timeout is set*; `removeAllMessages` is complete *if its walk gets past the head* |
| `queue_windows` | 2 messages with different contents and parameters, 1 client, pool of 1, all removal overloads, Windows branch; 0.76 M states | ownership and pool survive every removal |
| `looper` | 1 message that is reused, 1 client, 1 poster, 2 concurrent quitters, safe or not, fair; 89 k states | `mExit` implies a closed queue, the loop ends drained *unless a test timeout is set*, every accepted message leaves the queue, every quit ends the loop |
| `looper_thread` | 3 clients, fair; 7.4 k states | no null looper, start data alive, object outlives thread; calls return *unless the thread could not be created (`getLooper` then waits for ever) or a handler calls `quit` while the destructor joins under `mMutex` (both hang)* |
| `circular_buffer` | 4 threads, 2 values, capacity 2; 0.48 M states | refinement of `BoundedFifo`; `notify_one` wakes enough threads |
| `ring` | ring of 3 values, 2 values | refinement, no slot race, blocking calls do not spin on each other |
| `pool` | 2 workers, 2 clients, 2 functions, 1 opaque callable, 3 arguments, queue up to 3, fair; 75 k states | enough wakeups, arguments used once; a worker spins with the mutex *only after an opaque callable (a lambda) or an argument given twice, and then it does*; the end of the pool |
| `coroutine` | 3 coroutines, main and two of them destroy, 1 yield each, fair; 11 k states | counter and list, no dangling coroutine; switches are right *if only the main coroutine calls `coro_resume`, which the code asks for (`SimpleCoroutine.cpp:103`) and does not check*; main's `coro_destroy` returns *unless two coroutines destroy each other* |
| `lockfree` | 1 producer, 1 consumer with 2 attempts, pool of 2 nodes that grows to 4, 2 values, at most 2 queued, producer fair; 0.20 M states | nodes in one place each, refinement of `BoundedFifo`, enqueue returns wherever the consumer stops |
| `file` | 2 objects, 1 file of up to 2 characters, 2 streams, modes r, r+ and w; 0.22 M states | refinement of `CursorFile`; streams closed once *unless a File that closes its stream was copied, which closes it twice*, and not lost *unless opened through a moved-from File, which never closes them* |
| `lost_wakeup_windows` | **violation** | finding 1 |
| `lockfree_two_consumers` | 1 producer, 2 consumers, pool of 4; **violation** | finding 2 |

*Bounds.* Three messages give a list with a head, a middle and a tail, which
are the cases `enqueueMessage` and `RECYCLEMIDDLE` distinguish; a pool of two
is reached, full and emptied with three messages. Two clients let two calls
race between stamping and locking. `MaxTime` stops sends, not the clock: time
goes on while a message is to become due, so sleeps do end. Delay -1 exercises
the clamp to 0, delay 1 a message that is not due yet. Two quitters are enough
for a safe and an unsafe quit to overlap; the proof of `ExitMeansClosed` covers
any number. Removals of
contents need two messages, one that matches and one that does not; a pool of
one is full after the first of them. Four threads on a buffer of two allow two sleepers and two
newcomers that overtake them. A ring of three wraps around at different
offsets. Three clients let one start the thread, one wait for it and one quit.
Three arguments for two functions give a function two entries in the pool's
map. Three coroutines, two of which destroy, reach a coroutine that waits for
one that waits. A pool of two nodes is exhausted by the second value, grows
once, and every node is then reused under a consumer that holds it; two values
in turn tell every neighbouring pair of elements apart. Two objects and two
streams give a copy, a move from one owner to another and a third owner's worth
of reopening; a file of two characters has a line end at its beginning, its end
or nowhere. `looper` has one message object that goes round through pool and
allocator, since the lists of several are the business of `queue_posix`; it has no front insertions, because they overtake by design
and a client that never stops sending them starves the rest.

*Fairness* (`looper`, `lockfree`, `ring`, `looper_thread`, `pool`, `coroutine`). The looper thread and a thread inside
`quit()` compete for `mLock` with clients that may take it again and again;
the operating system's mutex lets everyone in eventually, so these steps are
strongly fair. A thread that already owns `mLock` in `removeAllMessages` and
the clock need only weak fairness. Nothing is assumed about clients: they may
never obtain, send, remove or quit. In the ring, each side that is inside a
call runs on (weak fairness), and nobody is made to call again. The same holds
for the pool's workers and for a client that owes a notification. In
`looper_thread` calls and the thread run on (weak fairness); a loop whose queue
is closed runs out of messages, so its end is strongly fair against handlers
that call back. `rand()` chooses every coroutine again and again: strong
fairness of each choice. In `lockfree` only the producer is fair, and a
`compare_exchange_weak` whose values agree again and again succeeds in the end
(strong fairness): the hardware may fail it now and then, not always. The
consumer may stop for good at any step, as a lock-free queue must allow.

*Deadlock* is checked in every run but `file`, where use of a closed stream
ends the program. In the queue the clock and the clients can
go on for ever or the system stops in `Stopped` (destroyed or faulted), which
is a step of the model.

## 4. Proofs

All proofs are for arbitrary constants under the named `ASSUME`s of the
modules (`NULL` is no object, number, request or record; numbers are natural;
capacities may be 0). Where a theorem needs more, its statement says so.

**MessageLooperProofs, the queue.** For any number of messages, handlers,
clients and any pool, on POSIX and on Windows unless said otherwise.

* *Types and flags.* `TypeCorrect` proves the types with `TypeInv` (`TypeOK` and
  `ReturnedHasMessage`: `ret` is a message exactly while the looper dispatches;
  without it `recycleMsg(ret)` could be applied to null). `BlockedIsIdle` is
  inductive with `TypeInv`: `mBlocked` is raised only under `mLock` over an
  empty, open queue, and everything that links a message or closes the queue
  lowers it. `PosixNoLostWakeup` (assumption `~Windows`) adds `WakeupInv`: a
  sleeper that has not been notified still sees `mBlocked`, because whoever
  lowers it also notifies and no state exists between the check and the sleep;
  the Windows branch has such a state and TLC finds the violation.
  `ClosedStaysClosed` classifies each step by what it does to list and flags
  (`ListStep`).
* *Owners.* `OneOwner` shows that clients, calls, list, pool and looper
  partition the allocated messages (`Parts`). Every step takes a message from
  one part and puts it into another, so the proof is a handful of lemmas about
  partitions and one step per action.
* *The list.* `ListInv` has five parts that need one another: the tail is the
  last node (`TailPointsToLast`), the counter is the length until an unsafe quit
  (`SizeCounts`), the list is sorted (`SortedByWhen`), no time is negative
  (`TimesNat`: a message for time 0 is put in front without a comparison), and
  `removeAllMessages` has left nothing of its handler behind it (`Swept`).
  `ListEffect` says what a step can do to the list (nothing, link one message,
  unlink one, take the head, clear), and each part is shown for these effects
  rather than for every action. `LinkOrder` says where
  `enqueueMessage` puts a message, which its three branches and the walk do in
  different ways; it rests on the owners, since a message that is linked is in no
  list yet. `TailIsLast` and `ListIsSorted` follow.
* *What leaves the list.* `EarliestDueFirst`, `FifoForSameTime` and
  `RemovesAllBehindHead` are action properties over `QueueInv` (`TypeInv`,
  `SoleOwner`, `ListInv`): the head of a sorted list is the earliest message, an
  unlinking keeps the order of the rest, and a link goes behind equal times.
  `SafeQuitDelivers` follows the steps with which `next()` gives up: each of them
  has just seen the list empty, the queue quit unsafely, or a test timeout.
* *The pool.* `PoolStaysReady` does the same with `PoolEffect`: what goes into
  the pool has just been wiped, and nothing touches it there, because it has no
  other owner.

**MessageLooperProofs, the looper.** The lemma `LooperUsesQueue` carries the
queue's theorems over to a queue under a looper (`LooperNoLostWakeup`,
`LooperKeepsQueue`). `ExitImpliesClosed` needs `ExitInv`: a quitter past
`mQueue->quit()` has closed the queue or found it closed, and closing is for good.
`LoopEndsOnEmptyQueue` adds `DrainInv`: `loop()` looks at the size only after
`mExit`, so the size is one of a closed queue, and `next()` gives up only on a
closed and empty one. It assumes that a client does not set a test timeout back
to 0 (`0 \notin OutTimes`): `next()` may have returned because of the timeout,
and the loop then ends with it no longer set.

**CircularQueueProofs.** `TypeCorrect` proves that `tail_` is always `size_`
slots behind `head_`, modulo any capacity. `EnoughWakeups` shows
`WakeupsSuffice` inductive on its own types: counting awake and sleeping
callers, each push that leaves a sleeper unserved wakes one. `Implementation`
is the refinement of `BoundedFifo`.

**RingQueueProofs.** `RingInv` adds to the types what each side knows at its
program counter (`Guards`): the producer past its check has a free slot, the
consumer past its check a full one, and the other side can only make that more
true. `RaceFree` and `Implementation` follow, for every `N`.

**LooperThreadProofs.** For any number of clients. `IInv` says who holds
`mMutex` (`MutexInv`), what the thread has done by its place (`ThreadInv`), that
while `start()` is at work nobody has the looper and nothing is closed
(`StartInv`), and in which order object, thread and join come (`ObjectInv`).
`LiveStartData` rests on `StartInv`: every way to end the loop needs `mMutex` or
a looper that only `isRunning()` under `mMutex` gives out.

**FixedThreadPoolProofs.** For any number of workers and clients. `TypeCorrect`
includes that a worker has an argument exactly while it runs. `EnoughWakeups`
counts: a task without a notification under way has an awake worker, because a
worker goes to sleep only over an empty queue. `NoSharedArgument` is inductive
with the types. `LookupFinds` needs more than that every waiting task has an
argument: `Matched` asks for an injection from the tasks to the arguments of
their functions. A worker may take the argument meant for a later task of the
same function; that task then gets the first one's (`TakeKeepsMatched`), so a
lookup fails only after a misuse: an opaque callable or an argument in use.

**SimpleCoroutineProofs.** For any number of coroutines. The three properties
(`CounterIsLength`, `SwitchesAreRight`, `NoDanglingCoroutine`) are proved
together as `CoroInv`, for callers that resume from the main coroutine only: a switch continues the coroutine it names because what is
in the list has a saved context; what is freed is never active (`ActiveInv`); and
no two coroutines destroy the same one (`DestroyInv`), without which the second
would unlink a freed node. `UnlinkElements` says what unlinking does to a list
without repetitions.

**LockFreeQueueProofs.** For every size of the pool, every number of attempts and
at most one consumer (`OneConsumer`), whatever the other thread does between two
steps. `PoolInv` says that the links form two lists `q` and `f`, which with the
nodes in the threads' hands share out the pool (`Shared`), and what each thread
still knows of what it has read (`ProducerKnows`, `ConsumerKnows`). The main
points: only the producer takes nodes out of the free list, so the node it has
read there stays in it with the same link; only the producer brings nodes into
the queue, so the node it has read as `tail` is never ahead of `tail`
(`NotAhead`) and, if it is `tail` still, `tail` has not moved; only the consumer
moves `head`, so the one it has read is the one there is.
All steps but the two exchanges that append and take leave `q` alone
(`EnqueueKeeps`, `DequeueKeeps`). The properties speak of the list that a walk
along `next` finds, a recursive function; `Walk` and `ListIs` show that it is
`q`, by induction over the length. The induction is a lemma of the project
about sets of numbers, drawn from the library's theorem that `<` is
well-founded. `PoolSharedOut` is `NodesApart`. `QueueImplementsFifo` is the
refinement of `BoundedFifo`; it adds that each thread is in the call it made
(`CallInv`) and that the producer's node holds the call's value (`FlowInv`, with
the version of `head`, which makes a dequeue of an empty queue return at the
read that saw it empty). `WonValueIntact` follows from the refinement and
`AnswerInv`: what the abstract queue gives out are values. With two consumers
`PoolInv` is false (the second may free the first one's `head`) and TLC violates
`NodesApart` as well as `TakenIntact`, so the hypothesis is needed.

**FileProofs.** For any number of Files, paths and streams, whatever is read and
written. `FileInv` adds to `ClosedOnce` and `NoLeak` that the next stream is new
(`Ids`), that only a stream shared by a copy can be closed under a File
(`Behind`), and that of two Files with one stream neither is to close it unless
it was shared (`Sole`): without `Sole` a release could close the stream of
another File. `ReleaseStep` says what a File leaves behind that lets its stream
go; `fclose`, the destructor and both assignments are built on it.
`NoDoubleClose` and `StreamsKept` follow; the first excuses streams that a copy
shares, the second says nothing of streams opened through moved-from Files.

`FilesAreCursors` proves that `File` implements `CursorFile`, with two more
invariants. `StreamInv`: what is in a stream's buffer was written through it at a
place not behind the end of the file, and a file that is open for writing has no
second stream; otherwise a buffer could be written over a text it does not belong
to, and `Content` would depend on the stream one looks at. `PlacesInv`: no File is
to write behind the end of its file (a file never gets shorter under an open
stream, `RoomKept`), and a File without a stream is at the beginning, where
`fopen` takes for granted that it is. Both are proved by `StreamsAndPlaces`
together with the refinement, in four layers: what a piece and an overlay of a
text are, with the first line of a piece (`PieceFacts` to `OverlayFacts`); what a
step of one stream shows of all files (`StreamStep`, `FlushStep`, `OpenFileStep`,
`PathStep`); what Files offer that come, go or take the places of others
(`LifeStep`, `LikeOffers`); and one lemma per group of calls with the step of
`CursorFile` it is (`ReadIs` to `MoveIs`). The assumptions are that `Absent` is no
text, that `NULL` and `Unbound` are no cursors, and that what one call writes
fits into a file.

*Only model-checked.* Liveness
(`AcceptedIsHandled`, `QuitEndsLoop`, `OneSideReturns`, `CallsReturn`,
`LeftTasksStart`, `WorkersEnd`, `DestroyReturns`, `EnqueueReturns`), which needs
`ENABLED` and fairness and is beyond the prover.

## 5. Findings

1. *Lost wakeup on Windows* (`MessageQueue.cpp:731`). `next()` unlocks before
   it reads `mBlocked` and sleeps; a send or quit in between is lost and the
   looper sleeps on. The comment at `MessageLooper.cpp:113` calls the queue's
   operations atomic.
2. *A second consumer of the lock-free queue* (`LockFreeQueue.hpp:228`).
   dequeue moves the element out of the new dummy node after it has won `head`;
   another consumer may by then have dequeued and freed that node, and the first
   returns what is left of a destroyed element. The README calls the class a
   lock-free queue and its retries only make sense with rivals. With one
   consumer the queue is right: `lockfree` checks it, `QueueImplementsFifo` and
   `WonValueIntact` prove it for every pool.

Behaviours that are in the model without a run of their own. The first four
are defects that a property above excuses by name:

* Copies of a `File` that closes its stream share one `FILE*`, and each of them
  closes it: `fclose`, `release` and the destructor of the second close a
  stream that is closed (`File.cpp:269`, `File.cpp:466`). The copy constructor
  and copy assignment take `mNeedClosed` over; `ClosedOnce` shows that there is
  no other way to a second close.
* `LooperThread::start` ignores a failed `pthread_create` (`ThreadBase.cpp:242`),
  and `getLooper()` then waits for ever; the destructor joins under `mMutex`
  (`LooperThread.cpp:56`), and a handler that calls `quit` on the object waits
  for the mutex while the join waits for the handler (`CallsReturn`).
* A task whose callable is a lambda, or whose argument was given twice, leaves a
  worker of the pool looping with the mutex locked
  (`SimpleFixedThreadpool.hpp:32`, `SpinsOnlyIfMisused`).
* A moved-from or released `File` keeps `mNeedClosed == false` and never closes
  what it opens later (`File.cpp:162`, `NoLeak`).
* With a test timeout set, `next()` gives up at the end of a timed wait even if a
  message has arrived meanwhile (`MessageQueue.cpp:746`).
* `removeAllMessages(h)` ends after it has removed the head of the list
  (`MessageQueue.cpp:658`), reading a node it has recycled or deleted
  (`SweepRemove`, `SweepFault`); `RemovesBehindHead` is what still holds.
* `post()` and `sendEmptyMessage()` delete their handler
  (`MessageHandler.cpp:98`) while the message they queued points to it (`Post`,
  `PostEnd`, `LoopFault`).
* Between two rounds `next()` holds no lock on POSIX, so a message that arrives
  there may wait for the timeout of an older, later one (`MessageQueue.cpp:809`).
* A parameter without a deleter survives in the pool (`Message.cpp:167`).
* Messages sent to the front overtake all others, so a client that keeps sending
  them starves the rest (`MessageQueue.cpp:135`); a negative time given to
  `postAtTime` would become a time that never comes (`MessageHandler.cpp:128`,
  times are natural numbers here); a parameter's deleter runs under `mLock`
  (`MessageQueue.cpp:816`) and must not call the queue.
* `FileUtil::readFile(File*)` returns nothing while the stream's end-of-file
  flag is up, which `resetRead()` does not take down (`File.cpp:553`);
  `syncfile()` leaves what `fprintf` has put into the stream's buffer there
  (`File.cpp:375`); `FileUtil::getFileSize(FILE*)` seeks to the beginning twice,
  so it returns 0 and rewinds the stream (`File.cpp:531`); `getOneLine` reads where the last call on the stream, through any copy, has
  left it (`File.cpp:456`).

## 6. Not modelled, and what is left

*Not modelled.*

* Four fifths of the repository's C++ is the vendored spdlog with its bundled
  fmt: formatting code of another project, used here through a few logging
  macros. The library's own code is some 6600 lines; a third of that are
  declarations, platform macros, dumps, tests and the parts named next.
* Logger, time formatting, asset files and the directory utilities are pure I/O
  and formatting, without state that a second call could find wrong.
* `TimerTask`: its constructor runs `loop()` itself, so `schedule()` can only be
  called when the queue is closed; what it does is a `sendMessageDelayed`.
* `SemSyncLock`, `CondSyncLock`, `tryWait` and the semaphore's shadow counter:
  nothing in the repository uses them. (On Linux `SemSyncLock` takes an
  interrupted `sem_wait` for success and posts all the same.)
* The queries of the message queue (`hasMessage` and its overloads), which only
  read under `mLock`, and the choice of a callback in `dispatchMessage`.
* Several producers of the lock-free queue, whose free list then has the ABA
  problem, and its relaxed memory orders: out of TLC's reach here.
* In `File`: the buffer of `my_getline`, its allocation, growth and errors
  (`File.cpp:54` to `76`, `83` to `99`; `File.cpp:83` leaves no room for the
  terminator when a line is exactly as long as the buffer), results that are not
  data (`saveFile` returns true only for one byte, `File.cpp:659`), and other
  processes that change a file between `stat` and `fread` (`File.cpp:627`).

*Left to prove*: every safety property of the runs is stated by a theorem. An
abstract specification of the message queue (a bag of timed messages from which
the earliest due one leaves) would be worth stating on top of `ListIsSorted` and
`OneOwner`.
