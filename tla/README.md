# ADRIFT in TLA+

ADRIFT is a DNS relay: it answers queries from a hosts file and from a cache,
forwards the others to an upstream server and passes the answers on. This
directory specifies it, checks the specifications with TLC on small instances,
and proves the main results with TLAPS for all sizes. Paths below are relative
to the repository (`src/protocol/handle.c`, ...).

## The system

`event_loop` (handle.c:477) creates a thread, never joined, for every
datagram. `handle_stream` takes it for a query or for a response.

| Component | State | Operations | Interacts with |
|---|---|---|---|
| query and response handlers (handle.c) | `convert_table` (client id, client address, valid, semaphore), `buf1_len`, one timer per forwarded query | `handle_receive_query`, `handle_read_cache`, `handle_send_query`, `timer_handler`, `handle_receive_response`, `handle_send_response` | the network, the cache, the dispatch queue of timers; threads meet in the table |
| cache front (cache.c) | one lock, three tries, three hash maps | `cache_insert`, `cache_find` | handlers call it; it takes the lock |
| lists of records (ds/list.h) | a doubly linked list per type and name | `list_push_back`, `list_erase`, `list_update` | filled by `read_hosts_file` and by responses, refreshed and walked by `handle_read_cache` *outside* the lock |
| read-write lock (rwlock.c) | two counters, a mutex, two conditions | lock and unlock for reading and writing | cache.c |
| trie and hash map (ds/) | name to list | insert, find, shrink, delete | cache.c |
| message codec (protocol.c) | none | parse and dump | handlers |
| start and exit (main.c) | server socket, hosts file | `server_init`, `read_hosts_file`, `exit_handler` | everything |
| thread pool (thread/) | circular queue of tasks, counts of workers, slots of threads | create, add, worker, manager, destroy | nothing yet: it is commented out of the build (CMakeLists.txt:21) |
| command line, log | options, log file | | |

**What is hard.** No lock protects `convert_table` or `buf1_len`; the lists are
used after the lock is released; timers and answers race for a semaphore; upstream
answers come late, twice, out of order or never; one list node is a member of
three lists; a 16-bit id wraps; times to live are computed in one width and sent
in another; names change their form and length between datagram, string and
key; the pool's workers, callers and manager wake one another through two
conditions. `PROJECT.json` lists each hazard at its line.

**What makes each part correct.**

- Handlers: an answer reaches the client that asked, under that client's id; an
  id is valid only while somebody waits, and as long as somebody does; a thread
  is woken by its own timer or answer; every query ends; what is passed on means
  what came in.
- Lock: one writer or many readers, no lost wake-up, progress.
- Lists and records: the links, the tail and the size agree; entries leave only
  when they have expired; blocked names stay blocked; what is served is within
  its time to live and counted in the header; no node is used once it is freed,
  by one thread or by several.
- Trie, hash map: what is found under a name is what was stored under it.
- Codec: a reader of the format finds the same in what is written as in what came.
- Thread pool: tasks are started once, in order, and every one is; counts are
  exact; no caller is left blocked; destroying the pool ends.

## Modules

| Module | Models | Extends / instantiates |
|---|---|---|
| `Relay` | the handlers and the table of ids | `RelayPromise` as `Promise` |
| `RelayPromise` | what relaying promises a client | |
| `RelayProofs` | theorems for every interleaving and any number of ids | `Relay` |
| `RwLock` | rwlock.c | `RwLockPromise` as `Promise` |
| `RwLockPromise` | a read-write lock | |
| `RwLockProofs` | theorems for any finite set of threads | `RwLock` |
| `RecordCache` | list.h, what handle.c and main.c put in and take out | `TtlCache` as `Promise` |
| `TtlCache` | sequences of entries that expire | |
| `RecordCacheProofs` | theorems for any hosts file and any answers | `RecordCache`, `NumberFacts` |
| `CacheRace` | threads on one list, access by access | |
| `CacheRaceProofs` | for any number of threads and any list: no freed node is used, the list is whole, answers miss nothing | `CacheRace`, `NumberFacts` |
| `NumberFacts` | induction over sets of numbers | |
| `Codec` | protocol.c: octets to records and back | |
| `NameTable` | cache.c, trie.h, hash_map.h: names to lists | |
| `NameTableProofs` | what insertion and lookup do, for any hash and any names | `NameTable`, `NumberFacts` |
| `Messages` | what handle.c does with a datagram's octets | `Codec`, `NameTable`, `MessageMeaning` as `Format` |
| `MessageMeaning` | what a message means to a reader of the format | |
| `PlainMessages` | how names are written in the datagrams that the theorems are about | `Messages` |
| `MessagesProofs` | theorems for any datagrams and any hosts file | `PlainMessages`, `NameTableProofs` |
| `ThreadPool` | threadpool.c | `TaskPromise` as `Promise` |
| `TaskPromise` | tasks started once, in order | |
| `ThreadPoolProofs` | theorems for any numbers of threads and places | `ThreadPool` |
| `MCRelay`, `MCRecordCache`, `MCMessages` | values of the constants for TLC | |

Operators whose comment begins "A fault" are used by no specification. Each is a
wrong version of the definition after it; substituting it makes a property fail
(`mutants` in `PROJECT.json`).

### Relay

Variables have the names of the code: `buf1_len`, `buf_req_id`, `buf_sock`,
`valid` and `sem` are the fields of `convert_table`; `qpc` and `rpc` say where
each query's and each response's thread is; `old` and `hid` are the query
thread's loaded index and its `header->id`; `timer` is its dispatch timer; `sent`
and `replies` are the datagrams. Every access of shared state is an action:

| Code | Action |
|---|---|
| event_loop, handle_stream | `ReceiveQuery` (`ReceiveApart` in `ApartSpec`), `ReceiveResponse` |
| handle_receive_query, `qdcount != 1` | `RejectMalformed` |
| handle_read_cache returns 1, 0 | `AnswerFromCache`, `MissCache` |
| handle_send_query 186, 187 | `WriteReqId`, `WriteSock` |
| 188, 189 | `TestWrap`, `Reset` |
| 193 (the load, the store) | `TakeId`, `Increment` |
| 198, 212-233, 237, 242-243 | `SendQuery`, `ArmWait`, `WakeUp`, `ClearValid` |
| timer_handler | `TimerFires` |
| handle_receive_response 384-429, 433 | `WriteCache`, `CheckValid` |
| handle_send_response 301, 313 | `ReadReqId`, `SendResponse` |
| 451 | `PostSem` |

The branch of the semaphores that is modelled is the Apple one; the other does
not compile (`req_id` is not declared at handle.c:36), but its semaphores mean
the same. The network may deliver an answer to any query that was forwarded, any
number of times, at any later time, or never. A write past the table changes
memory that is not the table's and is modelled as no change of the table.

`Spec` is every interleaving. Queries whose registrations overlap, or that come
round to an id again, get mixed: `Mixed` are those of which another query had to
do with the same entry, or that took an id which is not that of the entry they
wrote. Two history variables tell: `req_at` and `sock_at`, where each query wrote
its id and its address. Most properties, and all theorems, are about `Spec`:
`RelayPromise` says that a query which is not mixed gets its own answer, and that
what goes wrong for the others stays among them. `ApartSpec` is the environment
in which the threads of two queries are never both between their start and the
taking of their id (`ReceiveApart`); everything else still interleaves. The code
needs that for `RightReply` and `WaitersDistinct`, and run `relay_overlap` shows what
happens without it.

### RwLock

The mutex is held from the first line of each function to its last, except in
`pthread_cond_wait`, so each stretch between waits is an action. `read_cond` and
`write_cond` are the sets of blocked threads; a signal picks one, a broadcast
empties the set, and `SpuriousWakeup` lets any blocked thread go on.

### RecordCache

A node is the index of its allocation; `list[t, n]` holds the first node, the tail
and the size of name `n` in cache `t`; `freed` and `misused` record deallocation
and uses of freed nodes. Once a freed node is used, nothing can be said of the
program: `malloc` (list.h:25) may have given its address to a node of any other
list, which the write changes. So the model ends there (`Outcome`): `misused` says
for which list it happened, and no further step is taken. Everything said about
`RecordCache` is about behaviours up to that point, which run `cache_lists` reaches. The head node of a list, which carries no record, is
implicit. `LoadHostsLine` is one line of the hosts file, `ReceiveResponse` the
caching of one answer, `ReadCache` one call of `handle_read_cache` with
its refresh, `Tick` a second. Each is one step: threads that use a list at the
same time are `CacheRace`. The loops over an answer (`CacheAnswer`), over a list
(`list_update`) and along the next pointers (`Walk`) are recursive functions over
the rounds made, which the proofs can reason about.

### CacheRace

One list, its head node and its records. `LockAndLink`, `LinkNext`, `LinkPrev` and
`SetTail` are `cache_insert` with the assignments of `list_push_back`, under the
write lock; `Find` is `cache_find`, after which the thread goes on without a lock:
`Keep` and `Erase` are the rounds of `list_update`, `UnlinkNext`, `UnlinkPrev`,
`UnlinkTail` and `Free` the assignments of `list_erase`, `Count`, `Test`, `Dump` and
`Send` the walks of `handle_read_cache`. The lock is the abstract one of
`RwLockPromise`, which `RwLockProofs` justifies; its readers hold it for one step
only. What happens after the use of a freed node is undefined, so the model stops
there (`misused`).

### Codec, NameTable, Messages

Datagrams are sequences of octets. `Codec` has an operator for each function of
protocol.c, with its name; `NameTable` has one for each function of the trie, of
the hash map and of cache.c that is called, on a table that is the pair of both
structures: the trie is a function from the path of a node to its list, the hash
map a sequence of chains of entries. `Messages` puts them together in three
actions, `ReceiveResponse`, `ReceiveQuery` and `RefuseMalformed`, each the whole
handling of a datagram; whether an answer is relayed is left open there, since
`Relay` says when an id is valid, and time stands still, since `RecordCache` has
the clock. `MessageMeaning` is a second, independent reader: it follows the
format of the messages and not protocol.c, and the properties of `Messages`
compare what it reads in what came with what it reads in what was sent. The loops
and recursions of the code, over labels, records, chains and lines, are
recursive functions, so that the proofs can go through them round by round.

### ThreadPool

A worker is its slot in `threadIDs`, a task its number. What a function does with
`mutexPool` held is one action, up to the unlock or to a wait; the test before a wait
and the wait are two, since `threadPoolDestroy` sets `shutdown` and signals without the
mutex. A thread between them is at "block" and holds the mutex (`MutexFree`). `notFull`
and `notEmpty` are the sets of blocked threads.

| Code | Action |
|---|---|
| threadPoolAdd 102, 105, 108, 111-115, 117-124 | `CallAdd`, `FindFull`, `WaitNotFull`, `RefuseTask`, `PutTask` |
| worker 149-151, 154, 156-168, 171-176, 178-187 | `FindEmpty`, `WaitNotEmpty`, `ExitSurplus`, `ExitForShutdown`, `TakeTask` |
| worker 189-192, 193-195, 197-200 | `CountBusy`, `RunTask`, `CountIdle` |
| threadExit | `ThreadExit` |
| manager 209, 214-218, 220-223 | `TestShutdown`, `LookAtQueue`, `LookAtBusy` |
| manager 225-243, 245-251, 252-257 | `CreateWorkers` or `CreateNone`, `AskToExit` or `AskNone`, `SignalToExit` |
| threadPoolDestroy 73, 75, 77-80, 81-92, 93-94 | `Shutdown`, `JoinManager`, `SignalWorker`, `FreePool`, `CondDestroyed` or `CondDestroyedAwaited` |

`EnterLoop` is the part of `worker` that its ways on share, the test of
`exitNum` after a wait among them. From `FreePool` on no other thread takes a step: what
those that are left do with freed memory is undefined. `threadPoolDestroy` itself
goes on to destroy the two conditions. Each call returns if nobody is blocked on
the condition (`CondDestroyed`); if somebody is, POSIX leaves it undefined and
current C libraries wait, so it may return (`CondDestroyedAwaited`) and need not: no
fairness is assumed of that step.

## Runs

All runs that pass are exhaustive for their constants. They switch TLC's deadlock
check off where the model ends because its bounds are used up (all queries and
responses handled, the clock at its bound); the runs of `RwLock`, where threads
may always call again, leave it on.

| Run | Bounds | Result |
|---|---|---|
| `relay_apart` | 3 queries, 2 responses, 4 ids, `ApartSpec` | right replies, waits apart |
| `relay_mixed` | 3 queries, at most 2 at once, 1 response, 3 ids, `Spec` | well-formed; no valid id without a waiter; waits reachable, wakings with a cause, `RelayPromise`, with mixed queries |
| `relay_wrap` | 3 queries and a malformed one, 1 response, 2 ids, `FairApartSpec` | no valid id without a waiter, over the reset of the index; every query ends |
| `relay_overlap` | 2 queries at once | violated: a client gets another's answer |
| `rwlock` | 4 threads, `FairSpec` | exclusion, counters, wake-ups, `RwLockPromise`; the lock moves, readers get in |
| `rwlock_writers_first` | 3 threads | violated: readers pass a blocked writer |
| `cache_lists` | 2 names, one blocked, 5 nodes, 5 seconds | lists intact, blocked names refused, entries kept, `TtlCache` |
| `cache_threads` | 2 threads, 2 records and 2 more | harm only from erasing beside another thread; until then the list is whole and answers miss nothing |
| `cache_race` | 2 threads, 2 records | violated: a freed node is used |
| `pool` | 2 callers, 3 tasks, 2 places, 1 to 2 workers, `FairSpec` | counts, wake-ups of callers, `TaskPromise`; destroying ends or awaits; tasks run while no worker is asked to exit |
| `pool_stranded` | 1 caller | violated: a task stays queued for ever |
| `messages` | 25 datagrams, 7 entries in the caches | what is stored is found; what is relayed, forwarded and answered means the same |

**Why the bounds are enough.** Two ids with three queries make two queries share
an id and take the index past the table and round; three queries on four ids
stay below it, as `RightReply` needs. In `relay_mixed` two queries at once overlap in
their registration in every way, and the third, after the first of them has ended,
comes round to an id again or finds the index that a lost increment has left; more
at once add only more of the same pairs, and the theorems are for any number. Two
responses are an answer and its duplicate, or answers in the wrong order. `SemBound` is the number
of tokens at which a timer holds back; one token of a timer and one of each
response already exceed what one waiter takes. Two readers and two writers give
every pattern of blocked threads in the lock. In the cache the limit of 180
seconds is 2, the grace of 10 is 1 and the clock runs past both; five nodes hold
a hosts file and an answer of three records, or two answers, so that a blocked name
has a record in two of its lists and one that outlives the other. `WordSize` stands
for 2^32 and exceeds every ttl. In `CacheRace` two records let a thread erase the
first, the last or both, and two more nodes let the list grow under a walk
twice. Two threads are every pair of roles, and the harm is done by pairs; the
theorem is for any number. In the pool, two callers fill a queue of two places
while a third task waits, two workers are one more than `minNum`, so that both
creating and ending happen, and `NUMBER`, 2, reaches past what there is to end. In
`messages` 2 octets stand for the 16 of the longest name in the trie and 5 for
the 48 that fit a key, so that names fall on both sides of both borders and on
the first; the hash map begins with 2 chains instead of 16 and grows; the hash
makes names collide. The datagrams hold pointers to the question and to the
name of another record, a name of two labels, the root, an alias,
records of the cached types and one of another type, an answer for a blocked
name, an error, names in the rdata of CNAME, NS, SOA and MX records, and a query
that brings a record.

**Fairness.** `Relay!FairApartSpec`: a thread that can run is run, and a timer fires
until it is cancelled (a dispatch source repeats with its interval,
handle.c:231). Nothing is assumed of clients or of the upstream server. `ReceiveApart`
only holds back the next query, never a thread, so it takes nothing from the
fairness; it keeps the liveness run small, and two queries still wait under one
id there.
`RwLock!FairSpec`: a thread inside a locking function goes on when it can, a
holder releases the lock (cache.c holds it over code that does not block). Weak
fairness per thread, none for calls or spurious wake-ups.
`ThreadPool!FairSpec`: every thread of the pool, and a caller inside `threadPoolAdd`,
goes on when it can, and a task ends; nobody need submit a task, destroy the
pool or be woken without a signal. A thread about to wait holds `mutexPool` between
two steps, so a step of another is not always enabled while it asks for the
mutex: the fairness of callers, workers and the manager is strong, which stands for
the usual assumption that a thread which asks for a mutex is given it if the mutex
is free again and again. `threadPoolDestroy` takes none, and weak fairness is
enough for it.

## Proofs

All theorems are for every value of the constants that meets the assumptions
(`RelayAssumption`, `ThreadAssumption`, `RecordCacheAssumption`,
`CacheRaceAssumption`, `PoolAssumption`, `MessagesAssumption`, `HashAssumption`,
`NamesAssumption`).
`MessagesAssumption` has the widths of the code's types (an id is 16 bits, a ttl
32, an address of the hosts file four octets) and that the longest name of the trie,
16, is shorter than the room of a key, 48; `HashAssumption` that a hash is a number;
`NamesAssumption` that the names which reach the trie have octets from 33 to 127, for
which its nodes have children, and those which reach the hash map end within the
entry, 64 octets. The code checks neither, and what it does with others is
undefined.

- `RwLockProofs`: `TypeCorrect`, `CountersCorrect`, `WriterAlone`, `WakeupsKept`,
  `LockKeepsPromise`. The inductive invariant `IInv` joins type correctness, exact
  counters, exclusion, `BlockedInside` (a blocked thread is in the function that
  blocked it) and `NoLostWakeup`. Exclusion is not inductive alone: the functions
  test the counters, so the counters must count the holders (`CountersTest`); a
  woken thread must still want the lock for the signal to be worth something,
  which is `BlockedInside`. `HoldersStep` says what each step does to the
  holders and gives the refinement.
- `RelayProofs`: `TypeCorrect`, `ValidOnlyWhileAwaited`, `WakingsCaused`,
  `WaitersStayReachable` and `RelayKeepsPromise`, all for `Spec`: every interleaving,
  any number of queries, ids and answers, any reuse of ids. The second needs
  that no thread starts twice (`IdleAhead`). The others rest on `RelayInv`, which
  follows entries rather than queries: an entry holds the zeroes of the start or
  what some query wrote to it (`EntriesWritten`, with `History`, how far each query's
  thread has come in its entry), so that the one query that had to do with an entry
  finds there what it wrote (`EntryHolds`); every message upstream, and every
  answer, is of a query that took its id (`SentOwned`, `ResponsesOwned`); and an
  id whose semaphore has tokens was taken by a query that is mixed, or whose timer has
  fired, or whose answer was sent (`TokensFounded`). Who is mixed stays mixed, which makes "unless mixed" an
  invariant; and a query becomes mixed only while its thread registers, which is
  `Mix` of the promise. An entry's mark is only taken off by a thread that has its
  id (`ReachableKept`). `RightReply` and `WaitersDistinct` are not among the theorems:
  they are false of `Spec`, and hold, as run `relay_apart` checks, if queries come one
  at a time.
- `ThreadPoolProofs`: `PoolTyped`, `BusyCount`, `LiveCount`, `AddersNotStranded` and
  `PoolKeepsPromise` for every number of callers, workers and places. The
  invariant joins the properties with six facts: calls are bounded
  (`CallsBounded`); a blocked thread is in the function that blocked it
  (`BlockedInside`), without which a signal could be spent on nobody; between a
  caller's look at the queue and its wait the queue stays full (`BlockFull`), since
  the caller holds the mutex;
  the queue holds, from `queueFront` on and around its end, the last `queueSize`
  tasks in order (`QueueOrder`), which gives both the refinement and the meaning
  of the indices; no two workers hold one task (`TasksApart`); and whether the
  pool is shut down is known from how far `threadPoolDestroy` is
  (`ShutdownKnown`), since the counts are only promised until then. That
  `ExitSurplus` and `CreateWorkers` move `liveNum` by as much as workers come
  and go is arithmetic on cardinalities, in lemmas of its own.
- `CacheRaceProofs`: `RaceTyped`, however the threads overlap, and
  `NoFreedNodeUsedApart`, as long as none is in `list_erase` beside another. The
  invariant does not follow the list from its head: `Members` are the nodes that
  are appended and neither removed nor freed, and it is enough that every link of
  a member leads to a member (`Forward`, `Backward`), but for the node just being
  linked and the one just being unlinked, that links back go to older nodes, that
  the tail is a member (`TailLinked`) and that every thread is at one (`Walkers`).
  `ListStaysWhole` and `AnswerMissesNothing`, under the same condition, are about
  what the way from the head meets. That it meets every member is shown by rounds:
  after k steps every member up to number k + 1 is met, because its link back is
  to an earlier member, whose next it is (`MetAll`). Nothing else is met, since
  links lead to members (`MetInside`). For the answers the invariant keeps, for
  each thread and stage of its walk, what lies behind it and what it owes
  (`Answering`): a record that is appended meanwhile only ever lies ahead.
- `RecordCacheProofs`: `RecordCacheTyped`, `ListsStayIntact`, `BlockedStayRefused`,
  `HostsStayKept`, `FreedStayUnused` and `RecordsKeepPromise`. The obstacle is the node
  that three lists share. All but `FreedStayUnused` speak of the behaviour up to the
  first use of freed memory, where the model ends. `CacheInv` says there is a map `own` of the nodes to
  families, a family being one list, or all lists of one blocked name, such that
  no pointer leaves its family, and next pointers lead to later nodes, prev
  pointers to earlier ones (`Linking`), so that every walk ends; and that no list
  leads to a freed node (`Solid`). What can be one is the tail of a
  blocked name's list, and its first use is the end of the model. The other
  lists are their live nodes, doubly linked (`Ordered`), from which the walk is these nodes in ascending
  order (`WalkIsList`). What is kept of a blocked name is weaker: no pointer passes
  over the entry of a line for 0.0.0.0, and each of its three lists begins at or
  before that entry and ends at or behind it (`Anchored`); a walk from the head
  therefore meets it (`WalkMeets`), which gives `HostsKept` and, since a list that is
  read then blocks, `BlockedRefused`. While the file is read, before anything can be
  erased, more is known of these lists (`Loading`), which the entries of later
  lines need. `FreedStayUnused`: where no name is blocked every list is such an intact
  one, so the shared node is the only cause of a use of freed memory in one thread.
  For the refinement, the walk after an insertion
  extends the one before (`WalkStays`, `GainsNew`), and the walk after
  `list_update` lists the places of the entries that have not expired (`UpdateDrops`);
  the promise allows it to drop more, those whose ttl less ten seconds is over.
- `NameTableProofs`: `CacheInsert`. After `cache_insert` the list of its name has one
  entry more, at its end, and the list of every other name that fits is as it was.
  `TableOK` keeps the paths of the trie closed under suffixes (`TrieOK`), every entry
  of the hash map in the chain of its hash, its size the number of places, and the
  load factor (`MapOK`). What the map holds is followed through the moves of
  a rehash as a bijection between the places before and after (`Holds`), since
  entries are neither in order nor told apart by their key: a name that is too long
  leaves one garbled entry after the other, which no lookup matches (`Sound`).
- `MessagesProofs`, for any datagrams and any hosts file: `MessagesTyped`, `FoundStaysStored`
  and `HashMapStaysSound` from the invariant `Inv`, that the tables are in order,
  that a lookup of a name that fits gives what was put for it, in order, and that each put is
  a line of the file or a record of a response (`Kept`). Termination and typing
  of the parsers and writers come first: a name's text is read from behind,
  and each recursive function is shown to exist and to have its values in
  the right sets, round by round.

  Then what is written back, octet for octet: `NameWrittenBack`, `RecordWrittenBack`,
  `QueryForwardedWhole`, `ResponseRelayedWhole` and `QuestionComesBack`. A name is plain
  (`PlainName`) if it is written as labels up to a zero, none longer than 191 octets or
  with a dot or a zero in it; `parse_qname` and `dump_name` undo one another on these,
  label by label from the last (`SuffixIs`).

  Last, what it means: `QueryKeepsMeaning`, `ResponseKeepsMeaning` and
  `AnswerKeepsMeaning`. A sequence that stands somewhere in another (`StandsIn`) is read
  there as the record or question it is (`QuestionMeant`, `RecordMeant`), because the
  reader of the format finds the labels of a name wherever its octets stand
  (`NameMeant`), of a name within rdata too (`NameInside`, `RdataMeant`); the body of a message whose records follow one another is those
  records (`BodySays`). An answer from the cache has records of several datagrams, and of
  the hosts file: `Named` says of each entry where its name was read, which gives what
  the record written for it means (`PutWritten`); which entries there are is
  `FoundFor`, and that the header's three counts are exact is `CountsAdd`.
  The hypotheses are `PlainQueries`, that clients write the one name of a query plainly;
  `PlainResponses`, that each name of a response is plain or, in front of a record, one
  pointer back to a plain name, below offset 256, and that the names in rdata are plain
  (`PlainRdata`); and, for answers, `FewStored`, that the caches hold fewer entries than
  the 16 bits of a count. The first two say where the code's reading of a name is the
  format's: what it does with other names is listed below, and with a
  pointer in rdata the theorem would be false. They stand in `PlainMessages`, and TLC
  evaluates them for the datagrams of run `messages` (`DatagramsPlain`).
- `NumberFacts`: every non-empty set of numbers has a least one, and what holds of 0
  and passes from each number to the next holds up to any bound. The library's
  induction takes the property as an operator, which the provers cannot
  instantiate; here it is a set, so that recursive functions can be shown to
  exist and to have a property round by round.

Only model-checked:

- liveness (`QueriesEnd`, `LockMoves`, `ReadersGetIn`, `DestroyEndsOrAwaits`,
  `TasksRunIfAllStay`), which is beyond the prover;
- `RightReply` and `WaitersDistinct`, which need that queries come one at a time.

## Met while modelling

The four runs marked "violated" show where the code does something else than
its comments say; `PROJECT.json` quotes them. Others follow from one line or one
call, and are part of the models without a run of their own:

- The entry is marked valid (handle.c:212) after the query was sent (198): an answer
  handled in between is dropped as late. `WaitersReachable` holds from the mark on.
- Nothing empties an entry's semaphore: a token of a timer and of an answer, or of
  two answers, wakes the next query that gets the id, which is mixed with the first
  by then. `WokenForCause` is about the queries that are not.
- handle.c:186-190 writes the entry before it tests the index: with `buf1_len` at
  `MAP_LEN` it writes past the table and goes on with the id 1, whose entry it
  has not written. The last entry, 0x10000, has the id 0 on the wire, and so
  finds the answers of entry 0, which no query writes.
- An address of the hosts file has the marks 0 and 0 (main.c:95), so handle.c:150
  sends the negative of the clock as its ttl, not the 180 seconds of main.c:87.
- list.h:131 keeps a record 10 seconds longer than its ttl; cache.h:9 says 10
  seconds less. In those seconds the ttl that is sent (handle.c:150)
  wraps below zero to about 2^32, though cache.h:8 limits it to 180. `KeepsPromise`
  says only that nothing is dropped before the last ten seconds of its ttl.
- A record that comes from upstream with the ttl 0 has the mark of the hosts file
  (handle.c:391) and is kept for ever.
- The aliases in front of an address come from a list that is not refreshed
  (handle.c:126), and the header does not count them (handle.c:62-74).
- The node that a blocked name's three lists share has one pair of links (main.c:96-100):
  appending to one list appends to the others without moving their tails and
  sizes, and a later append to another cuts the first off. A second line for such
  a name may be lost from its list, and after its records have expired a tail may
  be a freed node, which the next append uses: the answer to a query of a type
  that is not cached, such as MX, puts a record of the name into one of its lists;
  the refresh of another, which comes to that record through the shared node, frees
  it when it has expired, and leaves the first list's tail as it is. Until then
  `BlockedRefused` and `HostsKept` hold all the same; afterwards nothing is known of
  any list, of other names either.
- A record that is appended between the counting of the header and the writing of the
  body (handle.c:62, 143) is in the body and not in the counts.
- A name in a record that is labels and then a pointer is read as a label of 192
  octets; a pointer is followed to the offset in its second octet only
  (protocol.c:162), though it has 14 bits; names inside rdata are copied with their
  pointers, which mean something else in the message that is written, in
  relayed responses as in cached entries (README.md:17 speaks of these). The properties of `Messages` are otherwise about names that are
  whole labels or one whole pointer below offset 256, and rdata without pointers:
  `PlainMessages`, which `DatagramsPlain` checks of the datagrams.
- A query that brings records, as one with an OPT record does, is forwarded without
  them under a header that still counts them (handle.c:192-206): to a reader of the
  format it is cut short. `ForwardedSame` is about queries without records.
- A name of 48 characters or more runs over the pointer of its entry in the hash
  map, which is set afterwards (hash_map.h:27-28), so that key and name never
  compare equal: it is never found, and every insertion adds an entry.
  One of 64 characters or more runs over the whole entry.
- cache.c:29-33 tests the first octet of a key once for each octet; the others
  select a child of the trie unchecked, and an octet below 33 or above 127 selects
  one outside the node (trie.h:76). `NamesAssumption` excludes both kinds of names.
- A label of 256 octets or more, which only a line of the hosts file can have, is
  never asked for, so `dump_name` never writes it; if it did, it would copy as many
  octets as the length modulo 256 says (protocol.c:40-48), which `Codec!Measured`
  leaves out.
- Keys are compared as they are: names that differ in case are different.
- `trie_node_shrink` frees a node and leaves its parent's pointer; nothing calls it.
- `threadPoolDestroy` frees the pool under workers that it has only signalled, and
  that may not even have blocked when it did, since it sets `shutdown` without the
  mutex, between a worker's test and its wait; and under callers blocked on `notFull`,
  which it does not wake (threadpool.c:73-96). Where `pthread_cond_destroy` waits for
  those that are blocked, as in current C libraries, it does not return.
- Names that came compressed are written out in full into a buffer of 2048 octets
  without a test (handle.c:297-311).

## Not modelled

- Signals and exit: `exit_handler` frees everything and ends the process. Nothing is
  kept across a restart, and what running threads do with freed memory is
  undefined at the first access.
- Reading and validating lines of the hosts file, sockets, the command line, the
  log: they keep no state that the rest depends on after the start.
- Failures of `sendto` and `pthread_create`: to the client they are a lost datagram,
  which `Relay` allows for. Messages longer than a buffer.
- `trie_shrink`, `trie_delete`, `hash_map_shrink`, `is_list_empty`: nothing calls
  them. The destructors of lists, trie and hash map, which exit calls.
- The hash function: `NameTable` takes any.
- What follows the use of a freed node, or of the freed pool.

## Plan

What could come next, in this order:

1. `Adrift`: `Relay` with `RecordCache` in place of the set of cached questions, so
   that an answer that is cached after its query has timed out is served to the
   next one, with its ttl.
2. `RightReply` as a theorem for a table with a lock around handle.c:186-193 and an id
   that is not given out while somebody waits under it, and a version of `NoFreedNodeUsedApart` with the lock held over
   handle.c:56-153, once the code has them.
3. `ThreadPool` under `event_loop`, when main.c:168 is put into service: a task per
   datagram, with the waits of `Relay` as tasks that hold a worker.

The set of runs is kept small: a run that shows a disagreement already written
down above makes room for one that checks a new question.
