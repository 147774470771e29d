# A TLA+ development of fs-portal

fs-portal copies files from a server to a client. The client asks for the list
of files, opens a download session for one of them, and fetches its chunks over
several connections at once; the server reads the file ahead of the requests,
the client puts the file together from chunks that come in any order. The
modules here model the parts of `libs/engine` where threads meet, the
configurations check them with TLC on small instances, and eight modules of
proofs hold for instances of any size, with TLAPS.

Paths below are relative to `src/`; `private/src/` is `libs/engine/private/src/`.

## 1. Inventory

| Part | State it keeps | Operations | Meets | What makes it correct |
|---|---|---|---|---|
| `file_cache` (file_read_cache.cpp) | queue of requests, cache, window position, worker thread | start, stop, read_chunk, read_data | io threads of the server, one worker | a call gets the bytes of the chunk it named, and gets them |
| `file_recombinator` (file_recombinator.cpp), `psx_file` | delivered chunks, batch, progress counter, the file | start, stop, write_chunk, wait | loader threads, one worker, the disk | an acknowledged chunk is durable; nobody waits for ever |
| `rt_event` (utils.cpp) | a mutex, a condition, a flag that is set and never reset | wait, signal, lock | all of the above | waits end; no safety rests on a wait |
| `client::sync`, `client_impl::worker_thread` | the loaders, each with its next chunk id and its deliveries | sync, the loop of a loader | server connections, the writer | the file is the server's, or the caller learns that it is not |
| `connection_session` (session.cpp) | `m_file_sessions`, a static counter of sessions | on_hello, on_download_file_request, on_chunk_request, error path | eight io threads | a session id names the cache of the file that was asked for |
| `message_bridge`, `communication_context`, `message_header` | header, fixed and dynamic buffer of a connection | send, receive, read, wait_for_msg | the socket, the pools of buffers | a message arrives whole, or the receiver learns that it did not |
| `secure_session` | key, cipher objects | encrypt, decrypt | the buffers of the bridge | the buffer has room for data and tag |
| `statistics` (stats.cpp) | three counters, a window of ten records | update, update_send, update_received | every thread | the sum of the window is what was counted in one span of time |
| `server`, `server_transport_context`, the life of a session | acceptor, io threads, pending reads, who holds whom | make, start, start_impl, stop, the destructors | the network library, `server_main` | one handler per connection, one accept; nothing runs on when the server is gone; `server_main` returns |
| `file_list`, `binary_stream` | none | init, pack, extract | the hello handler | the list arrives as it was made |
| configuration, command line programs | the settings | load, update_from_config, main | `server::make`, `client::make` | the command line wins over every config file |

What is hard here: the two workers hold a lock only in parts of a round, so
callers come in between; `rt_event` wakes for ever after its first signal; a
window of read-ahead, a cache and a batch all claim the same chunk; the client
is acknowledged chunk by chunk while it may be killed at any time; loaders fail
one by one and nobody looks at how they ended; sessions are opened by threads
that share a counter without a lock; eight threads run handlers without a
strand, and `stop` comes in the middle of them; nothing on the network has a
timeout.
`PROJECT.json` lists these hazards at their lines, with the properties that
would show them going wrong.

## 2. Modules

    ChunkService  <--implements--  FileCache        <--proofs--  FileCacheProofs
    ChunkStore    <--implements--  FileRecombinator <--proofs--  FileRecombinatorProofs
    ChunkStore    <--implements--  Transfer         <--proofs--  TransferProofs
                                     (uses both promises)
    MessageHeader, ChunkLayout
                  <--extends-----  Link             <--proofs--  LinkProofs
                                   SessionRegistry  <--proofs--  SessionRegistryProofs
                                   Server           <--proofs--  ServerProofs
                                   Statistics       <--proofs--  StatisticsProofs
                                   Configuration    <--proofs--  ConfigurationProofs

| Module | Models |
|---|---|
| `ChunkService` | the promise of a read service: a call names a chunk and is answered once, with its bytes |
| `FileCache` | `file_cache` and `request_result`: every critical section of `read_chunk`, `read_data`, `worker_thread`, `preload`, and `start`, `stop` |
| `ChunkStore` | the promise of a file put together from chunks: what was acknowledged is, and stays, on stable storage |
| `FileRecombinator` | `file_recombinator`, `write_result`, `psx_file`: loaders that deliver, wait or give up, the worker with its clean-up, failing I/O, restarts and power failures; the history variable `failed` names the calls that have failed in a session |
| `Transfer` | one `client::sync`: the loaders, their connections, the handlers on the server; the two components above are used by what they promise |
| `SessionRegistry` | `on_download_file_request` run by several threads: the static counter, the map, `file_cache::start` |
| `MessageHeader` | the size of an extra part in a header: what the sender sets and both sides compute, in 32 bits |
| `ChunkLayout` | offsets and sizes of the chunks in bytes, in 64 bits, as the server reads and the client writes them |
| `Link` | one connection: `write`, `send`, `receive`, `read`, `wait_for_msg`, the header that must be reset, the buffers that are swapped, grown and cut; the exchanges of `client::open`, `client::sync` and a loader, all handlers, the error path |
| `Server` | the life of a server program: `server_main`, `server::make`, `start`, `stop`, the destructors, the accepts, the threads of the `io_context`, the sessions with their reads and handlers, exceptions that nobody catches |
| `Configuration` | the two loops over the arguments of both programs, `generic_kv::load` and `update_from_config`, line by line, up to `make` or to a refusal |
| `Statistics` | the counters, the worker with its snapshots, its window and its sum, the destructor |
| `MC...` | for TLC: symmetry sets, the arguments and files that are tried |
| `...Proofs` | theorems |

How they correspond to the code:

* **Variables** have the names of the members and locals they stand for.
  Thread positions are `pc`, `wpc`, `lpc`, `spc`. A `std::map` from chunk ids is
  a function on `ChunkId` with a null value; the order of its iteration is the
  order of the ids, kept by `item`.
* **Bytes** of a chunk are represented by the index of the chunk they come from.
  File offsets are counted in chunks: all offsets the code computes are
  multiples of the chunk size.
* **Actions** are critical sections. What a thread does between two of them
  touches only its locals and is joined to one of its neighbours; the two reads
  of the atomic `m_is_running` and the two reads of the static `session_id` are
  steps of their own.
* **`rt_event`** is `m_signaled`, set by every signal and reset by nothing.
  `WorkerWait` is therefore only possible before the first signal; afterwards
  the workers go round without waiting.
* **A crash** of the client (`Crash` in `FileRecombinator`) leaves on stable
  storage any mixture of old, new and torn content of what was not synced.
* **Buffers** in `Link` are a size and a name for the bytes they begin with.
  Encryption in place leaves other bytes; a message that arrives decrypts to
  what was packed, unless the tag was put over it.
* **An operation** of the `io_context` in `Server` is "pending", "ready" or
  "failed" until a thread takes it; its handler is the position of that thread.
  A session lives as long as an operation or a handler holds it
  (`shared_from_this`, session.cpp:230), and so does the `server_impl`.
* **A counter** of `Statistics` is written with all that was ever added to it;
  what is loaded of it is that modulo `Word`.
* **Connections** in `Transfer` carry one message at a time (a loader only sends
  when it has its answer). A send on a broken connection fails or reports
  success: `send_bytes` returns the number of bytes that left, and any number
  but 0 passes for true.

## 3. What is checked

Every property has a mutation of a modelled definition that breaks it; the
mutated forms stand in the modules just before what they replace
(`EnqueueSilently`, `AddToCacheEvicting`, ...) and are used by nothing else.

| Run | Instance | Shows |
|---|---|---|
| `cache` | 3 calls, 5 chunks, windows of 3, fair threads | `ReadsAreRight`, `NoLostRequest`, `WindowAnswersItsItems`, `ImplementsChunkService`, `StopReturns` |
| `cache_repeat` | a chunk may be asked for again | finding: `ReadsAreRight` fails |
| `writer` | 2 deliveries, 2 chunks over an older file, every call to the system may fail, one restart or power failure, fair threads | `CompletedIsDurable`, `DoneIsWritten`, `NoLostWrite`, `ImplementsChunkStore`, `WaitReturns`, `StopReturns` |
| `writer_leftover` | a longer file is there already | finding: `FileIsTheServers` fails |
| `transfer` | 3 loaders, 5 chunks, failing connections, fair threads | `AskedOnce`, `FileIsRight`, `MissingMeansGaveUp`, `ImplementsChunkStore`, `SyncReturns` |
| `transfer_true` | failing connections | finding: `TrueMeansComplete` fails |
| `sessions_concurrent` | 3 requests, one after the other or at once | `SerialRequestsAreServed`, `LoneRequestIsServed` |
| `sessions_race` | 2 requests at once | finding: `SessionServesItsFile` fails |
| `link` | 3 chunks, each use of a connection, breaks, refusals, fair threads; every size of a header of up to 20 blocks and every file below 24 bytes | `ReplyIsWhole`, `FailureHasCause`, `ReceiveReturns`; `SizeSurvives`, `RoomForTag`; `ChunksAreTheFile` |
| `statistics` | a window of 2, counters that wrap at 3, a clock that is set | `AggregateIsExact`, `WindowWithinTotals`, `JoinReturns` |
| `server` | 2 threads, 2 clients, one file session, clients that leave at any time | `OneHandlerPerConnection`, `OneAccept`, `NothingOutlivesTheServer`, `RequestsAreAnswered`, `SessionsEnd`, `MainReturns` |
| `settings` | both programs, up to 3 arguments, 2 config files | `CommandLineWins` |

Every passing run but `transfer` and `settings`, whose modules' types are
theorems, checks the type invariant of its module as well.

### The read cache

`ReadsAreRight` is the property a reviewer would ask about. `preload` skips a
chunk that is cached with `continue` and leaves `offset` and the stream where
they are, so the next chunk it reads would be stored under the wrong id. The
property holds nevertheless as long as no chunk is asked for twice: chunks are
taken out of the cache when they are handed out, a window starts at a chunk that
is neither cached nor answered, and nothing behind it can be cached without
everything between being cached or asked for as well - so a window never meets a
cached chunk that is followed by one it has to read. `RepeatReads = TRUE`
drops that condition and TLC finds the wrong bytes within a few steps
(`cache_repeat`). That clients keep the condition is `AskedOnce` of `Transfer`.

`StopReturns` is conditional: `stop` does not signal `m_cache_event`, so the
worker of a cache that was never asked for anything waits for ever and `stop`
with it.

### The writer

The result of `flush` is not looked at, so after a failed fsync a chunk is
acknowledged that need not be durable. `CompletedIsDurable` holds until just
that happens: a file that cannot be opened, a seek or a write that fails do not
make the progress counter wrong. `ImplementsChunkStore` is about what was
acknowledged before any call failed: it is durable, and stays so through crashes
and whatever fails later. `DoneIsWritten` is what holds throughout.
`WaitReturns` excludes deliveries that arrive when the worker has left its
clean-up, which nobody takes: after a failed write the remaining loaders, and
`client::sync` with them, wait for ever.

### The transfer

`AskedOnce` discharges the assumption of the read cache, across failures.
`MissingMeansGaveUp` says how an incomplete file can come about at all;
`TrueMeansComplete` is refuted because `sync` does not look at how its loaders
ended. `ImplementsChunkStore` is what `sync` does keep of the promise of the
writer it uses: all that a loader fetched is in the file once the loader has
ended without giving up, and stays there whatever the others do. `SyncRequest` lets the session be missing when failures are allowed, as
`SessionRegistry` shows it may be; that a session id might name the cache of a
different file (`sessions_race`) is not carried over, so `FileIsRight` is about
a client whose id is its own.

`Transfer` takes the writes of `ChunkStore` not to fail: after a failed write a
loader may wait for ever (see the writer), and `sync` with it.

### The connection

A bridge writes only over a header that was reset, and every path of `send`,
`receive` and `read` must reset it: a path that does not makes the next send
fail, which on the server is silent (`on_chunk_request` ignores the result).
`FailureHasCause` excludes that. `ReplyIsWhole` follows the bytes through the
buffers: the server packs the chunk's own buffer in place of the connection's,
which has exactly the size of the chunk and must grow for the tag; the client
receives into a buffer of the writer's pool, of any size, and cuts it.
`ReceiveReturns` needs both sides to agree on the number of bytes: a sender that
sends fewer than its header says leaves the other side waiting. The sizes in the
header wrap at 2^32 blocks: `SizeSurvives` holds even where the number of blocks
is one more, but nothing would be sent for such a size, so `RoomForTag` is
stated for sizes that fit (64 GiB less one block). Both are about whatever
either side sends next, over the header it then has: a message without an extra
part does not set the size, so that a size left behind would be sent with it.

`ChunksAreTheFile` ties the two ends together: the server divides the file with
its numbers (`m_number_of_chunks`, `last_preload`, `size_to_read`), the client
writes at `id * chunk_size`, and `preload` seeks once and reads on. The chunks
must lie one behind the other for all of that to be the same file, also where a
size is close to 2^64. It is stated of a loader on its way through a file of any
size, with chunks of any size; the chunks that `Link` itself sends have fixed
sizes.

### The programs

Handlers run on eight threads without a strand or a lock. What keeps two of them
off one connection is that the next read is begun by the last line of the
handler of the one before (`OneHandlerPerConnection`); a handler that began it
earlier would put two threads on one bridge. `OneAccept` says the same of the
accepts. The server that the handlers refer to is on the stack of `server_main`,
so `stop` must have joined the threads before it goes
(`NothingOutlivesTheServer`); `MainReturns` says that it does so in the middle
of whatever there is to do, and names the one case in which it does not return:
a cache that was started and never asked for a chunk, whose `stop` hangs
(`FileCache!StopReturns` is conditional for the same reason). A server that is
stopped with clients connected is never destroyed: the pending reads hold the
sessions, these the `server_impl`, and that the `io_context` with the reads
(`Destroy`). The hang and the leak are what the code does and no property fails
on them: `MainReturns` leaves out the one, and `SessionsEnd`, a promise of a
server that serves, the other.

`remote_endpoint` (server.cpp:100) and `shutdown` (session.cpp:217) throw for a
connection that the client has already reset, and no handler catches: the
program ends (`terminated`). The liveness properties say what holds until then.

`CommandLineWins` compares where the two loops of each program end up with a
definition that looks at all arguments and files at once: the value of a setting
is that of the last option that names it, or else of the last line of the last
file that does; and `make` is reached just if nothing in them is wrong.

### Statistics

A snapshot loads one counter after the other while others add to both, the
difference of two snapshots wraps when a counter does or when the clock is set
back, and the sum is maintained by adding and dropping records.
`AggregateIsExact` is what makes the printed speeds right all the same: the sum
is exactly the difference of the snapshots at the two ends of the window, so
nothing is lost between loads and no wrong difference stays in it.

### Sessions

Handled one by one, requests get ids of their own and caches of their files
(`SerialRequestsAreServed`).
Handled by several threads they do not. `LoneRequestIsServed` is what remains:
the check of `m_is_running` refuses a client sooner than give it a session of
somebody else, provided its own request met no other one. It does not promise
that the id stays its own: with four requests, two that meet can set the counter
back to an id that was handed out before, and a later client that is handled
with others may be given it as well. Inserting into an
`unordered_map` while others use it is undefined; only outcomes in which the map
keeps its entries are modelled, and the result is bad enough.

### Bounds, and why they are enough

* Read cache: a window (`ReadInAdvance` = 2) must be able to reach over an item,
  end before another one and be cut at the end of the file, and a batch must
  hold several items, some beyond the window: three calls on five chunks give
  all of these.
* Writer: two chunks in batches of two let a batch be partial, full, and
  complete, and one of two chunks fail; `MaxRestarts` = 1 gives a session on the
  remains of another one. The theorems hold for the larger instances.
* Transfer: three loaders and five chunks give loaders of unequal shares, and
  one that has finished while others fail.
* Header and layout: a word must only be larger than a block; 20 values give
  every remainder with every number of blocks, and the wrap. All files and
  chunks below a largest number of 24 give every remainder and sums that wrap.
* Link: three chunks, the last shorter, let every reply follow one of another
  size; list, chunks and new buffers differ in their remainder modulo a block,
  and the buffer is smaller than what the tag makes of a chunk.
* Sessions: three requests are needed for a counter that is set back by a slow
  increment under a third request.
* Server: two threads run two handlers at once, two clients let one be handled
  while another connects or leaves; a third of either adds no new pair. One file
  session can be started, asked, or left unasked.
* Configuration: two files and three arguments put a config file before, between
  and after the options it competes with; two lines in one file let one of them
  overrule the other, or stand behind a wrong one.
* Statistics: with a window of two and counters of up to four in a word of
  three, records leave the window and the counters wrap in it.

### Fairness

Weak fairness of every thread: each has a step of its own when it holds what it
waits for, and the operating system schedules it. Nobody is obliged to start or
stop anything, to ask, to deliver or to give up. In `Link` one fairness for each
side, and nothing has to break. In `Transfer` also that the
server answers, or the connection is seen to break; the code has no timeouts, so
this is an assumption on the network. In `Server` the program starts and, once
told to stop, goes on to stop, but the timeout may be as long as one likes: no
fairness makes `server_main` call `stop`. A handler goes on, which stands for
three things outside the server: a cache answers, a client reads what it is sent
or leaves, and a thread is scheduled. Completed operations are handed out under
strong fairness, because the `io_context` keeps them in a queue: a connection is
not passed over for ever by threads that are busy with another. No client has to
connect, ask or leave. In `Statistics` the worker goes round (its sleep ends) and
a destructor that can go on does. The condition variables are used with a
predicate under the mutex, so that a signal is never missed (utils.cpp:43).

## 4. What is proved

For all values of the constants, by `tlapm` (SMT, Zenon and the PTL backend):

| Theorem | Assumes | Says |
|---|---|---|
| `FileCacheProofs!TypeCorrect`, `WindowAnswers` | - | types; the second look into the cache after a window finds the item answered |
| `ReadsAreRightCorrect`, `NoLostRequestCorrect` | `~RepeatReads` | the two safety properties of the read cache |
| `ImplementsChunkServiceSteps` | `~RepeatReads` | every step of the read cache is a step of `ChunkService` or none |
| `RoundsEndCorrect`, `StagesAreBoundedCorrect`, `WorkerIsAwakeCorrect` | - | a round of the cache's worker ends after boundedly many steps, and the worker never sleeps over a request |
| `RoundsLeaveNobodyCorrect` | `~RepeatReads` | between two rounds each call that waits is in the next batch |
| `FileRecombinatorProofs!TypeCorrect`, `NoLostWriteCorrect`, `DoneIsWrittenCorrect` | - | with any failures and crashes |
| `CompletedIsDurableCorrect`, `ImplementsChunkStoreCorrect` | - | durability until a sync fails; the refinement, whatever fails |
| `WorkerIsAwakeCorrect`, `RoundsEndCorrect`, `StagesAreBoundedCorrect`, `RoundsLeaveNobodyCorrect` | - | the same of the writer's worker and of the deliveries |
| `LinkProofs!TypeCorrect`, `ReplyIsWholeCorrect`, `FailureHasCauseCorrect` | sizes fit, the list fits into the buffer | any sizes and numbers of chunks, any breaks |
| `LinkProofs!SizeSurvivesCorrect`, `RoomForTagCorrect` | `Word > 16` too | every size, every width of the fields, whatever was sent before |
| `LinkProofs!ChunksAreTheFileCorrect` | `UInt64 > 1` too | every file and chunk size, every width |
| `LinkProofs!SomebodyGoesOnCorrect`, `EveryStepIsProgressCorrect`, `StagesAreBoundedCorrect` | as the first row of `Link` | a client that waits is never left alone, and a connection ends after boundedly many steps |
| `TransferProofs!TypeCorrect`, `AskedOnceCorrect`, `FileIsRightCorrect`, `MissingMeansGaveUpCorrect` | a loader at least | any number of chunks and loaders, any failures |
| `TransferProofs!ImplementsChunkStoreCorrect` | - | `sync` keeps the promise of a chunk store |
| `TransferProofs!EveryStepIsProgressCorrect`, `StagesAreBoundedCorrect`, `NobodyIsStuckCorrect` | - | `sync` takes boundedly many steps, and until its loaders have ended each of them, its handler or the writer has one to take |
| `SessionRegistryProofs!TypeCorrect`, `SerialRequestsCorrect`, `LoneRequestCorrect` | finitely many connections | any number of requests, however they overlap |
| `ServerProofs!TypeCorrect`, `OneHandlerCorrect`, `OneAcceptCorrect`, `NothingOutlivesCorrect` | - | any number of threads, clients and file sessions |
| `ServerProofs!RequestsAreHeldCorrect`, `SessionsEndOnceCorrect` | - | no request is forgotten between reads and handlers, no session comes back |
| `ServerProofs!StopGoesOnCorrect`, `JoinIsNotStuckCorrect` | - | after `stop` every step is one towards the end; and each thread the join waits for has such a step to take: `run` returns to it, or its handler alone has in hand what it works on |
| `StatisticsProofs!TypeCorrect`, `AggregateCorrect`, `WindowCorrect` | - | any word, any window, any traffic and clock |
| `StatisticsProofs!JoinGoesOnCorrect` | - | the destructor waits for the rest of one round, and nobody touches the object after it |
| `ConfigurationProofs!TypeCorrect`, `CommandLineWinsCorrect` | the files are sequences of lines | any arguments and config files |

Besides, each module assumes of its constants what it names (`...Assumption`):
numbers are numbers, at least one loader, a null value is none of the values it
stands beside.

**Read cache.** The inductive invariant (`ContentInv`, over the invariants of
types, of the calls and of the windows) ties down what the property leaves open:
where each request is according to the position of its caller; that the queue,
the batch and `to_read` hold different requests for different chunks; that a
chunk is cached only if it was not asked for or is still to be fetched by its
one caller; and that in a window `offset = from`, which is where the repeated
read breaks it. Each action has a lemma; `ContentNext` puts them together.

**Writer.** `DeliveryInv` says in whose hands a delivery is (its caller, the
map, the part of the batch ahead of `item`, the clean-up) and that what is done
is written. `DurableInv` adds that `disk` agrees with `file` wherever a delivery
was acknowledged as long as no sync has failed, and counts: the progress counter
is the number of acknowledged chunks, but for the one between `Done` and
`Count`. What fails is remembered in `failed`, because it is the past that
decides which promises count.

**Connection.** The first lemmas of `LinkProofs` split a size into blocks and remainder and put it
together again, with the wrap as a case of its own; and a file into chunks,
where the order of products gives that no offset leaves the file. `IInv` of
`LinkProofs` says that both headers are reset between operations, that a handler
works on the request the client waits for, and that a message on its way is that
request, its whole answer (by the lemmas on sizes), or an error that has a
cause. The types rest on it: a handler sends what the kind of its connection
calls for.

**Transfer.** That the shares of the loaders never meet is arithmetic: a chunk is
in one share only, and between a chunk of a share and the next there is none
(`OneShare`, `NotShared`, `NextOfShare`, `NoneBetween`). The rest is the
protocol: what was asked for of a share never goes beyond the chunk its loader
is at, and that one only while the loader has the answer still to come
(`Requests`); a loader has delivered exactly what is behind it in its share
(`Shares`), and until it gives up none of that is lost (`Deliveries`). Hence a
chunk that is missing when `sync` returns true was never delivered, and its
loader did not come to the end of its share. For the refinement, what a loader
that is done has delivered was written while it waited (`Deliveries`), and no
step takes a chunk out of the file.

**Sessions.** The invariant behind `LoneRequestIsServed` is that a cache which has
a file open and does not run yet is in the hands of a handler between opening
and running it (`Entries`); a handler that is alone therefore finds an entry
that is new or not started, or is refused. The counter is bounded by the number
of handlers that are past it (`Counts`), whatever increments are lost.

**Server.** The invariant has three parts: which phases of `server_main` go with
which states of the `server_impl` and of the threads (`Phases`), that the one
accept is either pending or with one thread (`Accepting`), and that a session
has at most one of a pending operation and a handler (`Handlers`).

**Statistics.** The sum of the window telescopes. To avoid induction over the
window the invariant speaks of the snapshots instead: each record is the
difference of two neighbours, and the sum that of the first and the last,
modulo the word.

**Configuration.** The reference definition looks at all arguments at once, the
program at one after the other. The invariant (`SettingsInv`) is the reference
cut off at the position of the loop: the last line, or option, before it that
names a key decides. `RefusalInv` says that everything before it was right. So
no induction over the arguments is needed: the loops of the program are it.

**Progress.** Liveness itself is out of the prover's reach, but what is left of
it after these theorems is only the scheduling. Each liveness property of a run
stands on two kinds of facts, which are proved: an action property that every
step raises a measure with a bound (or every step of the component that matters,
where others may go on for ever), so that nothing goes round in circles; and an
invariant that while somebody waits, somebody else has a step to take, so that
nobody waits for nothing.

| Liveness, checked by TLC | Measure, proved | Nobody waits for nothing, proved |
|---|---|---|
| cache: `StopReturns`, `ImplementsChunkService` | `RoundsEnd` | `WorkerIsAwake`, `RoundsLeaveNobody` |
| writer: `WaitReturns`, `StopReturns` | `RoundsEnd` | `WorkerIsAwake`, `RoundsLeaveNobody` |
| `SyncReturns` | `EveryStepIsProgress` of `TransferProofs` | `NobodyIsStuck` |
| `ReceiveReturns` | `EveryStepIsProgress` of `LinkProofs` | `SomebodyGoesOn` |
| `RequestsAreAnswered`, `SessionsEnd` | `SessionsEndOnce` (clients may go on asking, so there is no measure) | `RequestsAreHeld` |
| `MainReturns` | `StopGoesOn` | `JoinIsNotStuck` |
| `JoinReturns` | `JoinGoesOn` | the same |

The measures show how the code takes turns. A connection counts the requests,
and within one where its two ends are; that nothing is lost while it is up is an
invariant of its own (`Turns`), which needs the lemma that what is sent is there
as a whole, in a buffer that was made large enough. A round of a worker counts
the steps it has left; what it leaves behind for the next round is what arrived
meanwhile. After `stop` the measure of the server is where `server_main` and
each of the threads are; and that each thread of the join can raise it
(`ThreadCanGoOn`) rests on the same invariant as `OneHandlerPerConnection` and
`OneAccept`: its handler shares with nobody what it works on. That a thread of
which this is true has a step is the lemma `GoesOnAlone`, in place of `ENABLED`:
it shows a step of the handler that is nothing but assignments. An
`io_context` whose `run` returned only when it is out of work (`OutOfWork`, the
mutant of `MainReturns`) would violate `JoinIsNotStuck` as well.

All invariants and progress properties were model-checked before they were
proved.

Only model-checked: the step from those facts to liveness (`StopReturns` of both
workers, `WaitReturns`, `SyncReturns`, `ReceiveReturns`, `RequestsAreAnswered`,
`SessionsEnd`, `MainReturns`, `JoinReturns`, and that `FileCache` keeps the
fairness of `ChunkService`), which takes reasoning about fairness and
`ENABLED` that is beyond the prover. Every invariant of the passing runs, and
every action property, is a theorem as well.

## 5. What is not modelled

* Cryptography: a message that decrypts is the message that was sent.
* Short reads of the served file, and changes to it while it is served.
* The pools of free buffers, but for the sizes of what comes out of them (`Link`).
* The content of the file list (`file_list`, `binary_stream`: the walk over a
  directory and its serialisation), and one that is larger than the buffer of
  1 MiB it is packed into; a message of a type nobody sends;
  `on_download_session_end`, never dispatched; `sync_all`, which does nothing.
* The `.tmp` file of the writer: reading it leaves the stream failed, so nothing
  is ever written to it and nothing resumed.
* An empty file (`m_number_of_chunks - 1` wraps in `worker_thread`) and a chunk
  size of zero: no chunk is ever asked for in the first, the second ends the
  program when a session is opened.
* The results of reading a message that a handler ignores, and the growth of a
  server whose sessions are never removed: both are listed as hazards.
* The loop in which `client_main` reads commands, and what it does with the
  answer of `sync`; the resolver and the context of the client's transport:
  `Transfer` takes connecting as one step that succeeds or fails.
* `trim_eols` and `file_competition`, which only tests call; `fs_bytes` and the
  printing of statistics, which are layout.
* The tests themselves, the build files and the vendored libraries.

## 6. Plan

Done: every module of the table in section 2, and the proofs of section 4.

Left, in this order:

1. A composition of `Transfer` with `SessionRegistry` for two clients: what a
   client may find in its file when ids are mixed up.
2. `Link` shown to implement the connection that `Transfer` uses, with the
   steps of `Transfer` as the abstract ones.
3. The served file changing, or read short, under the read cache: a chunk would
   have a version, and what a client receives would be a mixture of them.
4. A measure for the server while it serves: that the reads of one client cannot
   be passed over depends on the queue of the `io_context`, which `Server` only
   has as fairness.
