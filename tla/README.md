# SkyDrive: a verification development in TLA+

SkyDrive is an HTTP file server in C++ (`src/`): one thread accepts and
dispatches connections through epoll, a thread pool reads, answers and writes
them, files are served through a cache and uploaded, users register and log in.
These modules model that program, TLC checks them on small instances, and TLAPS
proves the properties named under *Proofs* for instances of any size.

## Inventory

Paths are under `src/`. "Hard" says what a unit test would hardly reach.

| Component | State | Operations | Hard | Correct when |
|---|---|---|---|---|
| Thread pool `src/core/threadpool.cpp` | `tasks_`, `stop_`, mutex, condition variable, threads | `enqueue`, `workerLoop`, destructor | `stop_` is written without the mutex; `notify_one` after the unlock; spurious wakeups | FIFO, each task run once, no task waits while the workers sleep, the destructor returns |
| Server main loop `src/core/server.cpp` | listening socket, `running_`, `connections_` by descriptor | `run`, `handleNewConnection`, `dispatchClient`, close callback | edge-triggered accept; descriptors reused between an event and its lookup; a signal before `epoll_wait` | no client is forgotten, an event reaches its own connection, a signal stops it |
| Epoll registrations `src/core/epoll_manager.cpp` | kernel interest list | `addFd`, `modFd`, `delFd`, `wait` | `EPOLLET` and `EPOLLONESHOT` together decide who may touch a connection | at most one driver of a connection, and never none |
| Connection `src/core/connection.cpp` | `client_fd_`, `request_buffer_`, `pending_buffer_`; no lock | `handleRead`, `tryParse`, `handleWrite`, close, destructor by the last `shared_ptr` | two workers on one object; partial sends; peers that close or reset at any point | answered once and whole; destroyed exactly when nothing refers to it |
| User manager `src/user/user_manager.cpp` | `users_`, `users.dat` | register, login, change password, logout, load, save | the file is truncated before the lock and written after it, with lines of different lengths; kills; saves that fail | an account is never given away, the file holds what was registered |
| Session manager `src/user/session_manager.cpp` | `sessions_` | create, look up, remove | check and removal are two critical sections | a session belongs to a registered user and ends by its own cookie |
| Static files and cache `src/core/static_file.cpp` | `cache_` with modification times | `serve`, `serveRaw`, `readFromCache`, `updateCache`, listings, `render` | time taken after the content was read; files and entries change under the reader; the session is looked up twice | a hit is the file as it is; a page names its reader; a listing is a snapshot whose links lead back |
| Upload `src/utils/upload_file.cpp` | none (the file system) | check the request, create its directory; check, create and write the parts | check and creation are two steps; stream state not tested | what was reported as stored is stored |
| Request parser `src/core/http_request.cpp` | header fields, lengths | `parseHeader`, `parseBody`, `totalExpectedLength` | lengths are `size_t` and wrap | a request is complete when all of it has arrived |
| Multipart, form, URL, cookie, MIME helpers | none | pure functions | fields of one part leak into the next; `decode` reads what `std::stoi` reads; names are escaped before they are encoded | decoding inverts encoding |
| Responses `src/core/http_response.cpp` | a response under construction | errors, alerts, redirects, templates | a cookie taken away too early, redirects that lead back | redirects end; a cookie goes with its session |
| Logger `src/utils/logger.cpp` | open file, its date | `log`, rotation | the file is tested outside the mutex | a line is written once, in the file of its day |
| Start and teardown `main.cpp` | locals of `main` | construction, destruction order, constructors that throw | the pool outlives what its tasks use; a queued task owns a connection | the logger and the pool are never used late, and nothing is when no task was left |
| Hashes and salts, configuration, addresses, pages | little or none | pure functions | an unlocked generator of salts | - |

How they interact: main calls `epoll_wait`, looks the connection up by
descriptor and enqueues a task that owns a `shared_ptr` to it. A worker runs
`handleRead` or `handleWrite`, which calls the static files, the uploads or the
user manager, and ends by arming the descriptor again or by erasing the
connection from the map. Shared state: the pool's queue, the connections map,
the interest list, users, sessions, cache, the file system.

`PROJECT.json` lists every hazard found with its line and the properties that
cover it.

## Modules

| Module | Models | Proofs |
|---|---|---|
| `TaskQueue` | what the pool promises: a FIFO queue, workers that take and finish tasks | |
| `ThreadPool` | the pool with its mutex and condition variable; implements `TaskQueue` | `ThreadPoolProofs` |
| `Teardown` | `main` around the pool: objects made, destroyed, and used meanwhile; extends `ThreadPool` | `TeardownProofs` |
| `SkyServer` | main loop, connections, epoll, sockets, clients; the pool is an instance of `TaskQueue` | `SkyServerProofs` |
| `AccountStore` | what the managers promise: accounts, sessions, and a durable copy | |
| `UserAccounts` | user manager, session manager, `users.dat`, crashes and restarts; implements `AccountStore` | `UserAccountsProofs`, `AccountStoreProofs` |
| `DriveFiles` | `serveRaw` with its cache, uploads, an administrator who edits files | `DriveFilesProofs` |
| `LogRotation` | the logger: its unlocked test, the rotation at midnight, files that fail to open | `LogRotationProofs` |
| `RequestParsing` | how a request is accumulated, measured (with the width of `size_t`) and its form taken apart | |
| `UrlCodec` | `htmlEscape`, `Url::encode`, `Url::decode` as operators | |
| `RequestHandling` | from the first segment of a request to its response: routing, sessions, pages, listings, uploads, browsers; extends `RequestParsing` and `UrlCodec` | `RequestHandlingProofs` |

`MCThreadPool`, `MCTeardown`, `MCSkyServer`, `MCUserAccounts`, `MCDriveFiles`,
`MCLogRotation` and `MCRequestHandling` instantiate them for TLC. Every definition that stands for code is mapped to its lines in
`PROJECT.json`; definitions that begin with the name of another and a
"mistake to be caught" comment are deliberate bugs that show each property
fails when the code is wrong; no specification uses them.

### ThreadPool and TaskQueue

`pc[w]` is the statement of `workerLoop` a worker is at. A wait on the
condition variable is three steps: `Test` evaluates the predicate with the
mutex held, `Block` releases the mutex and joins `waitSet`, `WakeUp` takes the
mutex again. They are separate because the destructor sets `stop_` without the
mutex. `Enqueue` is the critical section of `enqueue`, `NotifyOne` the call
after it; `NotifyOne` wakes any one waiter. `SpuriousWakeUp` may happen at any
time. Main is the only thread that enqueues and the one that destroys the
pool, so the `throw` for a stopped pool is unreachable and the guard is
`~stop`. A task ends the same way whether it returns or throws.

### Teardown

`built` counts the objects of `main` that are alive, in the order of their
declarations (`Declared`): logger, pool, sessions, static files, users, server.
`Construct` and `ConstructorThrows` are the start, `LeaveRun` the return of
`run()` or an exception out of it, `Destroy`, `DestroyPool` and `DropTasks` the
destructors. The pool is declared second, so its destructor runs after those of
the server, the users and the static files: until it has joined them, its
workers run on (`WorkerActs`, `TaskUses`), and the tasks it drops destroy the
connections they own (`DropTasks`). `touched` collects every object used after
its destruction. `LateUseIsConfined` says where that stays within bounds: never
the logger or the pool, and nothing at all if no task was queued or running when
the destruction began. The other case is real and is what the hazard at
`main.cpp:35` describes: the model reaches it, nothing in the repository denies
it, so the property excepts it instead of a run claiming the contrary. A thread
that cannot be started (the pool's own constructor throwing) is left out.

### SkyServer

A client connects once and so also names its `Connection`. A request is
`Pieces` segments and a response `RespSize` units; the kernel holds `SndCap`
units. A client in `Malformed` sends a header that is refused and answered
(400) before the rest arrives. `peer` distinguishes a FIN, an RST and an RST
after a FIN, because they make `recv` and `send` return different things. The
steps between which other threads may act are separate actions: `EpollWait`
(disarms what it reports), `FindClient`, `EnqueueTask`, `DropHand` on main;
`StartTask`, `Recv`, `TryParse`, `Arm`, `Send`, `RequestClose`, `EndTask` on a
worker. An object is destroyed by whoever drops the last reference (`Drop`),
which unregisters and closes the descriptor; `Accept` may reuse it at once.
`EpollWait` returns any nonempty set of the ready events, which covers
`MAX_EVENTS` and events that become ready during the call. `AcceptFails` is
EMFILE: the exception leaves `main`. The model ends when `run()` returns, when
that exception escapes or when SIGPIPE kills the process. Only one signal is
modelled, since the handler only clears a flag.

### UserAccounts

A request goes through the critical sections of its handler, one action each.
`saveUsers` is `OpenFile` (truncates, before the lock), `WriteBuffer` (the loop
under the lock), `FlushFile` (the stream's destructor, after the lock, at its
own offset 0). Workers call it, and so does main in `~UserManager` (`Shutdown`), with the
same steps and the same failures, while workers are still busy. `Restart` may come at
any point: the process is killed, or has ended, and the next one loads the file as
it is; `RestartUnread` is a start that cannot open it. A cookie is an id that was
issued, or none. A salted hash stands for the password it was made of.

The lines of `users.dat` begin with the base64 form of the name, so they differ in
length. A name is the sequence of its groups of four base64 characters, and a
line is a record with the number of characters that are missing at its beginning (`cut`).
`FlushFile` puts the bytes of a snapshot over those of the file (`Overwrite`), and what
is behind them stays (`Rest`): if another save had written a longer
snapshot in the meantime, that is a rest of a line, then whole lines. `Load` takes what
`loadUsers` takes: a line that still has three parts, under the name that its remaining
groups decode to. With users alice and bob the rest may be `Y2U=|salt|hash`, an account
"ce" with alice's password. If a group itself is cut, `Base64::decode` throws, the
constructor fails and the server does not start (`Readable`, and main is "down").

Assumed here: `Users` is closed under endings, since a torn line may name any of them
(the empty name included, which the code accepts); a snapshot fits the stream's buffer,
so that a flush is one write; the disk is not full. What a worker does with the managers
after main has destroyed them is undefined and left to `Teardown` (`Alive`); only its
stream is its own and is still flushed.

`AccountStore` is what a handler may rely on: atomic operations on accounts and
sessions, and a durable copy that is only promised to be the accounts while the
store is `settled`. The refinement (`AccountsAreAStore`) maps `accounts` to
`users_`, `durable` to what `loadUsers` would find in the file now, `settled`
to "no save is under way or due, and the last one opened its file, was not cut short and
had the file to itself" (`Settled`), and `torn` to "a save was begun during another one,
and none alone since" (`overlapped`). A truncation, a failed open, a kill in between and
the save at the end of the process (`Close`) leave the copy unsettled: it may have lost
accounts, but what it has was true once. Only a torn copy may also give a password to an
ending of its user's name, or be refused by the next process (`phase` "failed"). A
settled copy is touched by nothing but the next save.

### DriveFiles

Reading and writing go unit by unit; opening, the existence check, taking the
modification time and inserting into the cache are separate steps. With
`Coarse`, a modification may keep the time of the one before it, as it does when
the kernel's clock has not ticked; only times of one file are ever compared, so
each file counts its own. The cache cannot tell such modifications apart, and
`CleanHitIsCurrent` excepts the files concerned (`blurred`) until they are modified
at a later time: it says that a change while the entry was made, and a change within
a tick, are the only ways to a wrong answer, and that the second heals with the
next tick. `exists` and `last_write_time` in `readFromCache` are one step,
and an administrator does not remove a file that a worker has open. A part of an upload is
refused, stored, or ends the whole request, when the file system throws for its name.

### LogRotation

`log` is five steps of a thread: `IsOpen` reads `file_` without the mutex,
`MakeName` and `Compare` are `rotateIfNeeded` under it (with `Reopen` or
`ReopenFails` when the name has changed), `Stamp` takes the time between the
two critical sections, `Write` is the second one. While another thread is
closing or opening the file the unlocked read is a data race, and either answer
is possible. `Midnight` may come between any two steps. A file is the sequence
of its lines, a line is its thread and the number of its call; the level test
and the text are left out. After a failed `open` the stream stays closed and
`filename_` keeps the new name, so every later call returns at its first test:
the log is silent until the process restarts. The model has this state; no
document says the log recovers.

### RequestParsing

One connection, because one worker at a time drives it (`SkyServer`). The header
has `HeaderLen` units, blank line included, and the body one unit per section of
the form. `SendUnits` delivers any further part of what the client sends, which
may be shorter or longer than its `Content-Length`; `TryParse` is a pass of
`handleRead` over what has arrived. `totalExpectedLength` is computed modulo
`Wrap`, as in `size_t`. A length that wraps around makes the request complete
at once; the properties except it by name (`Fits`) since nothing says what the
server should answer. `Parse` is `MultipartParser`: the fields of a section are
merged into `headers_`, which is never cleared, so a section without a field
has an earlier one's. `SectionsAreRead` compares it with the reading of each
section by itself, for the bodies in which nothing leaks (`Uniform`).

### RequestHandling and UrlCodec

One worker takes a request from its bytes to its response; `phase` is where it
is. Each action is what the worker does between two looks at state that others
share: the session table (`CheckGet`, `CheckPost`, `Render`), the file system
(`ServeRaw`, `ServeFile`, `OpenDirectory`, one `ReadEntry` and one `StatEntry` per
entry, the three looks of `checkPath`), the cache (`ReadFromCache`, `ReadFile`).
In between, `EndSession` is another worker that handles a logout, and
`ChangeTree` another upload or an administrator. The response is a record of what
the properties tell apart: its status, the kind of its body, whose header was
rendered into it, the cookie it sets or takes away, the location it sends the
browser to. `Finish` sends it; a browser keeps the cookie in its `jar` and
follows the location (`Follow`) before anybody asks for anything else.

Paths are a few of the site (one for each row of the redirect maps that leads
elsewhere, a file, a directory, nothing, and one outside) and the drive, whose
single directory holds `Names`, some of which may be directories themselves
(empty). A path in the drive is a prefix and a segment, both as the client writes them:
the name is `Decode` of the segment, and `IsDriveUrl` asks whether `Decode` of the prefix is
`DriveUrl`. A prefix that is not stands for a path such as `/../data/files/x`: it
leads to a file of the drive and is served as a page of the site is, without login and
without listings, because `isPathSafe` allows what lies under the drive's directory; no
property is about who may read a file. The cache knows a file by its
`full_path` (`FileOf`), however it was asked for. Otherwise paths are taken as canonical:
`weakly_canonical` is the library's, and its verdict on a path that leaves both directories
is the page `/outside`. The steps inside a cached read and inside the parts of an
upload are those of `DriveFiles`, the steps inside a change of accounts those of
`UserAccounts`; here they are one step each, and their outcome is left open
(`CheckForm`, `Store`). A cached page is dropped as soon as its file changes, which
is what `readFromCache` amounts to when a file's times differ; `DriveFiles` has
the case in which they do not. The two sorts of a listing are `DirectoriesFirst`:
directories before files, each once, in an order (`SetToSeq`) that does not depend on
the one in which they were read; no property depends on which order of names it is.

`Link` is where an entry of a listing leads, prefix included: `serveRaw` takes as many
characters off the path as the client wrote it as `drive_url_` has, and the listing
puts what is left, between `drive_url_` and the encoded name. If the client wrote the
prefix as it is configured, nothing is left and the link is in the drive; for `/%66iles/`
it begins with `/fileses/`. The name was put through `htmlEscape` before it is encoded, so
one with `&`, `<`, `>` or a quote gets a link to another name. In both cases the model
agrees with the code and disagrees with `src/README.md:150-151`, by which a click on a directory
leads into it and every file can be downloaded: `LeadsBack` is false there. `LinksLeadBack`
says that there is no third case: in a listing asked for by the configured prefix, as
all redirects and links of the site ask for it, every entry whose name `htmlEscape` leaves
alone is linked by a path that `isDriveUrl` accepts, that decodes to it, and that ends in a
slash exactly for a directory.

`UrlCodec` computes on sequences of characters, so that this can ask whether `decode`
undoes `encode`. `HasValue` and `PairValue` are `std::stoi`: it takes a sign or a blank
before the digit and stops at what is no digit.

## Runs

| Run | Instance | Shows |
|---|---|---|
| `Pool` | 2 workers, 3 tasks, the whole life of `main`, fair (58,521 states) | no task is lost, repeated or reordered; no notification is missed; every task runs unless the pool is stopped; refinement of `TaskQueue`; what is used after its destruction is confined |
| `ServerSafety` | 2 clients, 2 workers, 2 descriptors, 2 segments | one driver per connection, none stranded, descriptors and objects agree, events reach their connection, no client forgotten |
| `ServerLiveness` | 2 clients (one refused), 1 worker, 1 descriptor, a response of 2 units through a buffer of 1, fair | answers come, once and whole; connections of clients that left are closed; the second client reuses or lacks the descriptor |
| `Accounts` | 2 users with lines of different length, 2 passwords, 2 session ids, 2 workers and main, 3 requests, 1 restart, files that may not open (751,197 states) | accounts and sessions change only by their own requests; what is loaded was once true unless saves overlapped; saves that succeed alone are complete; refinement of `AccountStore` |
| `Files` | 1 file and a path with a refused name, 2 workers, 3 requests, 1 edit or removal, coarse file times | uncontested uploads are intact; clean cache hits are current, up to changes within a tick |
| `Log` | 2 threads, 2 calls each, 2 midnights, files that may fail to open, fair | lines are in the file of their day and in order; past files stay closed; calls return |
| `Parsing` | 2 browsers, 3 session ids, a drive of 2 names, 1 request and 1 change after the first, every upload of up to 2 sections in every cut, `size_t` of 6 values, the drive's URL plain, encoded and avoided, fair (397,622 states) | the answer depends on the request alone; sections are read by their own header; whole requests are answered; pages name their reader; cookies go with their sessions; listings are snapshots; links of a listing by the drive's own URL lead back; redirects end |
| `PoolHang` | 1 worker suffices | **violation**: the destructor hangs |
| `ServerSignal` | 1 client, fair | **violation**: a signal before `epoll_wait` is lost |
| `ServerSigpipe` | 1 client | **violation**: SIGPIPE kills the server |
| `AccountsRace` | 2 workers, 2 registrations, names of different length | **violation**: overlapping saves lose a user, and leave the rest of a line that is read as another's |
| `FilesStale` | 1 upload, 1 download | **violation**: a part of a file is cached as the whole |

The violations are disagreements between the code and its own documentation;
`PROJECT.json` quotes both sides under "findings".

**Bounds.** Two actors of each kind are the smallest number at which they
interfere, and every hazard listed is between two: two workers on a
connection, two clients over a descriptor, two saves, a reader and a writer.
Three tasks against two workers make the queue non-empty while all are busy.
Two segments make a request incomplete in between, a response larger than the
send buffer makes `send` return EAGAIN. `ServerSafety` uses a response of one
unit (safety of drivers does not depend on the number of sends) and is reduced
by symmetry of clients, workers and descriptors; runs with liveness use no
symmetry. `MaxRequests`, `MaxRestarts` and `MaxEdits` bound histories: three
requests are two that race and one that observes or prepares. Two midnights let a
thread be late by a whole day. Two names of different
length, one an ending of the other, are enough for one line to be left of the other's
rest. `Accounts` has `TailLength = 3`, short enough for a torn line to lose anything from a
character to all of the longer line but its end, which in the code (135 characters behind
the name) takes names of a hundred characters; `AccountsRace` has the code's 135. Two sections are enough for a field to leak, and
`Wrap = 6` has lengths that fit, that exceed the body and that wrap around.
`Parsing` varies what is sent and what it meets one at a time: either any request
is handled with changes around it, or any message is uploaded to an empty drive.
Two requests are one that fills the cache, the jar or the drive and one that finds
it so, with any number of redirects after each; two names are one that escaping
changes and one that decoding twice would change.
Deadlock is not checked because the systems may stop: the pool is destroyed,
`run()` returns, bounds are used up.

**Fairness.** Weak fairness of main's steps and of each worker's steps: an
operating system schedules a thread that can run. Mutexes are weakly fair only
as far as the disjunction of a thread's steps is; no strong fairness is needed
because the mutex is free again and again for different threads and no
property depends on who gets it. (`CallsReturn` is about finitely many calls: that a
mutex never starves a thread for ever is a property of the mutex.) In `SkyServer` clients are fair in one thing, reading what
has arrived; they need not connect, send, or close. In `RequestHandling` the one
client sends what it declared and its browser follows a redirect it was given, and
the worker's handler runs on; sessions need not end and files need not change. Nothing obliges main to
submit or stop, a signal to come, or a wait to return spuriously.

**Mutants.** Each property of a passing run has a mutant of the code that
violates it, listed in `PROJECT.json`.

**Exceptions.** Some hazards are in the models but no property forbids them, because no
document or test of the repository does; the properties that come nearest except them by
name and say what holds otherwise. They are: a refused request whose answer is cut
(`connection.cpp:121`, `Malformed`), tasks dropped when the pool stops
(`threadpool.cpp:41`), objects used after their destruction while tasks are left
(`main.cpp:35`), accounts lost by a kill during a save, by a file that does not open or by
one that is not read (`user_manager.cpp:230`, `231`, `194`), a start that fails on a torn
file (`219`), a password changed before the session is created (`111`), uploads that
race or meet a full disk (`upload_file.cpp:113`, `189`), file times within a tick
(`static_file.cpp:386`), a log that stays silent (`logger.cpp:100`), lengths that wrap
(`http_request.cpp:68`), links of names with `&`, `<`, `>` or a quote and of listings asked
for by an encoded prefix (`static_file.cpp:290`), and fields that leak between sections (`multipart_parser.cpp:83`).
For these the checks show where the damage ends, not that there is none.

## Proofs

Every invariant and every action property that a passing run checks is also proved
by TLAPS, for every value of the constants that satisfies the named assumptions
(`PoolAssumption`, `ServerAssumption`, `AccountsAssumption`, `FilesAssumption`,
`LogAssumption`, `ParsingAssumption`, `HandlingAssumption`). They ask for little: sets
are finite where the code counts or lists their members, sizes are positive where the
program has something to send or receive, and a model value that stands for "none" is
none of the values it is used beside (`NoFd`, `NoTask`, `NoFile`, `None`). In
particular there is a worker and no worker is called `main` or `nobody`, the names of
the other driver; the names in a directory are sequences over `Alphabet`, of any
length; the drive's URL is one that `decode` leaves alone; the names of users are closed
under endings, and a line behind its name is three characters more than whole groups; and
a form may have at least the one part of the uploads `OneFile` stands for.

- `TypeCorrect`, `TasksAccounted`, `NoMissedNotification` and
  `PoolRefinesTaskQueue` in `ThreadPoolProofs`. The inductive invariant `IInv`
  says that a worker holds the mutex exactly at `test`, `block` and `take`,
  that `running[w]` is a task exactly at `run`, that only workers at `wait` are
  in `waitSet`, and that a worker about to block has seen an empty queue that
  is still empty. The last part is what the mutex buys and what no single step
  shows. `NoTaskLostOrRepeated` is then inductive by two lemmas about appending
  to and popping from a sequence without repetitions. `NoWorkerSleepsOverATask`
  is a counting argument: `Enqueue` adds a task and owes a notification,
  `NotifyOne` pays it by making a worker seek, `Take` removes one task and one
  seeker, and `Block` needs the empty queue of `IInv`. The refinement maps
  `Take` to `Start` and `Run` to `Finish`; every other step stutters.
- `AcceptLoopMissesNoClient`, `ServerTypes`, `OneDriverAtATime`, `NobodyIsStranded`,
  `DescriptorsAreOwned`, `EventsFindTheirConnection`, `ResponsesAreWhole` and
  `AnsweredAtMostOnce` in `SkyServerProofs`. For the first, main reaches
  `epoll_wait` only when it has handled the event of the listening socket, so that
  the next call cannot overwrite it. The others come from one invariant in layers,
  each inductive with those before it, because none of the properties is inductive
  alone:
  - `BaseOK`: types, and at which places main and a worker have a task.
  - `OwnInv`: a descriptor that is open belongs to one live connection and is
    registered exactly then; a connection lives exactly as long as something refers to
    it (map, queue, main's hand, a worker). `Drop` is the one place where an object
    dies, so its lemma counts the references that are left.
  - `DriveInv`: a connection is in the map, or on its way there, exactly while one
    thing drives it. "Exclusive" and "not stranded" hold up each other: a step
    passes the turn on, and may only pass it on because nobody else has it. That an
    event finds its connection follows here, since a descriptor can only be reused
    after the worker that closes it got its turn, which the event still has.
  - `AnswerInv`: what the turn is for. Before a response is made there is none of it
    in the buffers, afterwards all of it in `got`, `sndbuf` and `pending` together; a
    connection that is driven neither to read nor to write has an empty receive buffer
    and, if its client is there, has handed the whole response over. This bounds the counters,
    which `BaseOK` cannot, and shows that `tryParse` never makes a second response.
  - `FlagInv`: no response was destroyed. By the layer before, `close` comes when the
    receive buffer is empty, so the kernel sends a FIN and not an RST, which would
    throw away what the client has not read.

- `AccountTypes`, `SessionsBelongToUsers`, `FileLinesWereTrue`,
  `AccountsKeptByTheirPassword` and `SessionsKeptByTheirCookie` in
  `UserAccountsProofs`. A worker gives `users_mutex_` back between its steps, so
  three invariants, each on top of the one before, say what it may still rely
  on. `TInv` is about types: what a buffer or the file holds are lines, whole ones in
  a buffer, and what `Load` takes from them (the last line of each name, by the greatest
  index, which exists because the naturals are well-founded) is an account. `SInv`
  says that a user with a session, or with a request that is past its
  check, is registered: accounts are removed by a restart only, and then the
  worker is gone too. `KInv` says that every line is of an account in `known`, those that
  once were, and that while no saves overlapped every line is whole: then at most one
  thread is past its `OpenFile` (`Apart`), so that the file is empty when it flushes
  (`OverwriteEmpty`). In any case a line of the file is a line of the last flush or
  the rest of an older one (`OverwrittenLine`, `RestLine`, over the ends of lines by
  `EndsAreNumbers`), and the name in a rest is an ending of the line's (`EndingsAreNames`).
  The two action properties follow from what a worker knows of its own request at each
  step.
- `LogTypes`, `LinesInTheirFiles`, `LinesOrdered` and `PastFilesClosed` in
  `LogRotationProofs`. The invariant `LInv` says that the name is made with the
  mutex held, after the call began and not before `fileDay`, and that from the
  rotation to the write the name is at most `fileDay`: another thread may only
  move the log on. `FInv` says of each line that its file is of a day up to
  `fileDay` and that its call is not a later one than its thread's current call,
  and is an earlier one while the thread is inside `log`: the next line is the
  last of its thread and in the last file.
- `SavesAreComplete` and `AccountsRefineStore` in `AccountStoreProofs`, on top of
  the account invariants. The new part, `DInv`, follows the one save that runs
  alone, a worker's or main's: from `OpenFile` on the file is empty and stays so, its buffer
  lists every account and each once (`ListingIsComplete`), and what it flushes to an empty
  file at offset 0 is the buffer itself, which loads as `users_`. Any second save, failed
  open, later change or end of the process in between takes the promise back. The
  refinement then needs one lemma per step: what it does to `users`, to the sessions, to
  `Load(file)` and to the phase of main is an operation of the store or nothing; that
  a file which does not load is torn, and that what a torn one gives away is an ending, is
  `FileWasTrue`.
- `LateUse` and `ProcessIsPool` in `TeardownProofs`. Every step of the process is
  one of the pool's or leaves the pool alone, hence `ProcessSpec => Spec`, and the
  pool's theorems hold in the `Pool` run's specification. `PInv` says beside it how
  many objects are left at each place of `~ThreadPool`, that no worker acts before
  the pool is there, that all have exited when the logger goes, and that without
  tasks at the start of the destruction (`calm`) there is none later.
- `FilesTypes`, `UploadsAreIntact` and `CleanHitsAreCurrent` in `DriveFilesProofs`.
  `BaseInv` says what a worker at each place of its request works on. `UploadInv`: a
  path that is not contested has one upload past its existence check at most, what
  that one has written is what is on disk, and what has finished stays.
  `CacheInv`: while a worker's file stays unmodified (`steady`), what it has read is a
  prefix of the file, hence all of it at the end, and the time it stamps its entry
  with is the time of what it read; an entry made so matches the file's time only as
  long as the file is what was read, or was modified within a tick.
- `PagesOfReaders`, `ClearedAreDead`, `AnswersAreOfRequests`, `ParserTypes`,
  `SectionsRead`, `ListingsAreSnapshots`, `DecodeUndoesEncode` and `LinksLead` in
  `RequestHandlingProofs`. `HInv` says that a response is raw (no reader, no cookie)
  until `render`, that everything in the cache is raw, and that requests, cookies
  and locations are of their types; each action then ends in one of three ways
  (`GotoKeeps`, `RenderKeeps`, `FinishKeeps`). `AInv` says how far a message was
  sent and that a header with an error is never parsed; when `tryParse` answers and
  the lengths do not wrap, the buffer holds the whole declared body
  (`BodyIsDeclared`), whatever `Parse` makes of it. `LInv` says that every entry
  the iterator has passed is listed if it stood all the while, that whatever is listed
  was seen, and that the sort neither loses nor adds one (`SortingKeepsEntries`). `LinksLead` adds what a
  link is made of: nothing of a prefix is behind its own length (`NothingBehind`), `htmlEscape`
  leaves the name alone, and decoding undoes encoding.

**Induction over data.** What `Parse` makes of a body, `FlattenSeq` of its pieces or
`Decode` of a link is an induction over a length. The library's induction theorems
take an operator as a parameter, which the provers cannot instantiate. Here the
induction is over a set: `Smallest` (a nonempty set of numbers has a least one, by
the library's first-order `WFMin`) gives `AllUpTo` (a set that holds 0, and i + 1
whenever it holds i < n, holds 0..n), and what is to be shown of i goes into the
definition of the set. Recursive functions are `CHOOSE`n, so each comes with
a lemma that one exists (`IterationsExist`, `DecodingsExist`) and one that says what
it is (`ParseIsALoop`, `FlattenIsALoop`, `DecodeIsALoop`). `UniformBodiesAreRead` and
`DecodeUndoesEncode` are then inductions of the ordinary kind, the latter from the end
of the link to its beginning: `PiecesStay` says where each piece of the link is, and
`EscapesAreRead` that `std::stoi` reads the two digits encode wrote.

Only model-checked: the liveness properties `EveryTaskIsRun`, `EventuallyAnswered`,
`HungUpIsClosed`, `CallsReturn`, `WholeRequestIsAnswered` and `RedirectsEnd` (liveness
under fairness, and `ENABLED` with it, are beyond the prover), and the five
violations, which are counterexamples.

## Not modelled

The resolution of paths by the library (`weakly_canonical`, links, `..`), the text
of pages, templates, JSON and forms; footers and missing header templates (they
change no decision; a missing listing template is modelled); characters inside a group of base64; hashing
(an injective function; the salt generator's race is listed as a hazard);
configuration (read once, before any thread), addresses and assets. Descriptors
that run out are modelled for `accept`, and as a listing template that does not
open, not for every other file. See the components in `PROJECT.json` for each with
its reason.

## Plan

Done, in this order because each relies on the one before: the pool and its
abstract queue, the server over that queue, the accounts, the files, the logger,
the parsing of requests; then the process around the pool, the account store, the
URL codec and the handling of requests, and the coarse file times of `DriveFiles`; then
the proofs, which now reach every safety property the runs check. Left:

1. Lemmas that a liveness argument rests on: which action is possible at each place of
   a worker, as a state predicate, so that "somebody can always move it" is a theorem
   and only the fairness remains with TLC.
2. `SkyServer` with a worker of `RequestHandling` in the place of its abstract
   answer, if an instance small enough to check shows something the two do not.
