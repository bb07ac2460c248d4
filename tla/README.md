# Verification of networkfs

networkfs mounts a WebDAV server with FUSE. These TLA+ modules model the parts
of it that run concurrently or in several steps, TLC checks them on small
instances, and TLAPS proves the safety results for every instance. All names
of definitions follow the C source; `PROJECT.json` maps each definition to its
lines.

## 1. The system

| component | state | operations | interacts with |
|---|---|---|---|
| lock table (`proto/dav/method.c`) | `server->filelock_tree` (a tsearch tree of `struct FileLock`: path, token, atomic count), `filelock_tree_lock` (rwlock) | `dav_lock`, `dav_unlock`, `__dav_header_if` inside PUT, DELETE, MOVE, COPY, `dav_destory` | handle pool, exceptions, the server's own locks |
| FUSE handlers (`proto/dav/dav.c`) | none of their own; the thread-local exception `ex` survives a handler | one function per FUSE operation, each a sequence of methods with early returns | called by libfuse worker threads; call the methods |
| methods without table (`method.c`, `parser.c`) | answers being parsed | HEAD, GET, PROPFIND, PROPPATCH, OPTIONS | handle pool, buffers |
| curl handle pool (`common/wrapper/curl.c`) | `curl_handler_stack`, the options and the error buffer of each handle | `curl_easy_init_common`, `curl_easy_cleanup_common` around every `with_curl` block | stack, exceptions |
| stack and synchronized (`common/template/stack.c`, `common/grammar/synchronized.h`) | linked list, size, spinlock | `Stack_push`, `Stack_pop` | used by the pool |
| exceptions (`common/grammar/`) | `ex`: none, pending or being handled | throw, catch, destroy; `throwable` and `with_curl` skip code while one is pending | everything |
| start-up (`networkfs.c`, `proto/proto.c`, `emulator/`) | options, base URL, the text of `argv` | parse, `combine_url`, `replace_password`, choose protocol, `fuse_main`, `dav_init` with `dav_options` | the protocol's `getoper`, the server |
| buffers, strings, utilities | offset and size of a `Buffer` | `Buffer_append`, `Buffer_fetch` | GET and PUT |
| dummy protocol, logging, CRC-32, class macros | none that matters | | |

What is hard here: several FUSE threads use one table and one pool; both mix a
look under one lock with a change under another; nearly every function can be
left in the middle by a failed request, because `curl_easy_perform_or_die`
breaks out of its block; and an exception that nobody clears changes what the
next operation of the same thread does. The hazards are listed with their lines
in `PROJECT.json`.

What makes the components correct: the table never uses freed memory, has one
record per file that is open for writing and counts its handles; the server is
locked exactly as long as the file is open; each request under `use_lock`
carries the current token; the rwlock is always given back. The pool never
hands one handle to two threads, loses none, bounds their number by the number
of threads, and never lets a request see what an earlier one left behind. An
answer that libcurl delivers in pieces, cut off or in an unusual form is either
turned into the right result or into an error. What is mounted is what the
command line says, and the password disappears from the process list.

## 2. The modules

| module | content |
|---|---|
| `FileLocks` | the lock table, the rwlock, and the handlers of `dav.c` as sequences of methods |
| `FileLocksProofs` | invariants and theorems about `FileLocks` under all faults |
| `FileLocksHealthy` | invariant and theorems about `FileLocks` on a server that answers every request |
| `CurlPool` | the handle pool and the stack below it, one action per assignment |
| `HandlePool` | what the pool promises: the abstract specification `CurlPool` implements |
| `CurlPoolProofs` | who may have a handle: invariant and theorems about `CurlPool` |
| `CurlPoolRefinement` | that no handle is lost, and that `CurlPool` implements `HandlePool` |
| `DavFile` | the handlers of `dav.c` that take several requests, and what they do to the files of the server |
| `DavFileProofs` | invariant and theorems about `DavFile` |
| `Answers` | how `method.c` and `parser.c` turn the pieces of an answer into a result, with `Buffer` and `with_range` |
| `AnswersProofs` | invariant and theorems about `Answers` |
| `Recursion` | induction and recursion over the naturals, sequences and their joins, for `AnswersProofs` and `StartupProofs` |
| `Startup` | from the command line to the mounted file system and back |
| `StartupProofs` | invariant and theorems about `Startup` |
| `MCFileLocks`, `MCCurlPool`, `MCDavFile` | symmetry sets for TLC |
| `MCAnswers`, `MCStartup` | the requests, answers and command lines TLC enumerates |

### FileLocks

Variables. `tree` is the tsearch tree (path to address), `heap` the contents of
each address or `Freed`; `rdHold` and `wrHold` are the rwlock; `op`, `meth` and
`pc` say which handler a thread runs, which method the handler has reached, and
whether that method is at its beginning (`start`), waiting for the write lock
(`wr`) or has its request in flight (`req`); `fl` is the local variable
`filelock` of `dav_lock` and `dav_unlock`; `hdr` the tokens in the If header;
`ex` the class of the exception the thread has pending. `errs`, `missed` and
`fault` are history variables that record an error returned to an application,
a release that found no record, and the use of freed memory. An exception that a
release leaves pending is modelled: the next operation of the thread fails
without a request (`StaleFail`), or takes it for the answer that a file is
missing and goes on (`StaleHead`: the HEAD of mknod, the getattr of a copy).

Atomicity. A step ends where the code releases a lock or sends a request. A
section under `synchronized (rwlock, ...)` that sends nothing is one step; a
request made under the lock is two, the one that takes the lock and builds the
header and the one that gets the answer; `dav_unlock` is three. The count of a
record is an `atomic_int`, so counting under the read lock is a step of its own
kind and no data race.

Faults. `unapplied` (a request fails), `applied` (it took effect but its answer
is lost), `416`, `oom` (an allocation or a curl call fails) and `expire` (the
server drops a lock whose 600 s are over). A failing request leaves the rwlock
locked, as in the code: `RequestError` and `Request416` keep `rwVars`.

External. libfuse's path locks (`unlink` and `rename` exclude everything else on
their names; the kernel and libfuse keep `nopen`), the rwlock of glibc
(reader-preferring, no upgrade), and the server: a locked resource refuses a
request without its token, an If header must match something, LOCK of a locked
resource is refused, tokens are never reused. `Solo` strengthens the dispatcher:
during an operation in this set no other request names its paths. With
`Solo = {}` everything may overlap that libfuse lets overlap. The results that
need more say which operation must be alone: the release, because of the defect
`viol_uselock` shows, and, where no request may be refused, the create, whose
PROPPATCH carries no token and fails on a file that another open has locked.

Left out. Operations that never touch the table (readdir and read are in
`Answers`; mkdir, chown and readlink are single requests); symlink (in `DavFile`), which is a composition of HEAD, PUT, PROPPATCH and DELETE; a truncate
to a non-zero size. A mount without `-o use_lock` has no table.

### CurlPool

`head`, `size`, `lock`, `nxt` and `val` are the stack; `live` the handles that
exist; `opts` and `buf` what is set on each. The nodes of the stack (`Stacked`) are
those in every set that contains `head` and with a node the next one, which needs
no recursion. A pass through `with_curl` is:
trylock, look whether the stack is empty, and pop it in three assignments or
make a handle; reset; common options; own options and perform; allocate a node
and push it in three assignments. The look at `this->next` happens with or
without the spinlock, exactly as `ensure_synchronized` expands. Faults: `oom`,
`setopt` and `stale` (the thread enters with an exception pending, so the handle
it popped is closed at the first `throwable`).

### DavFile

`files` gives each name its contents and its `N:mode` property, or `NoFile`. One
handler runs, with its arguments in `op`, its next request in `pc`, its locals in
`real` (`real_size`) and `mode` (`st.st_mode`) and its result in `res`; `was`
remembers the files it found. Each request is one step; any of them may fail,
with its effect (`applied`) or without (`unapplied`). The kernel serialises the
handlers that change one file, so it is enough to start each handler once, from
every small set of files and with or without an exception that the thread's last
release left pending (`ex`, the fault `pending`). The bytes
of a file are told apart by their position, so that a moved, lost or overwritten
byte is seen. `(unsigned)` is `% 2^Width`, with `Width = 2` and files of up to
6 bytes, so that offsets on both sides of the limit occur. An array that was
never filled holds `Garbage`.

The server refuses a PUT beyond the end of the file with 416 (the behaviour
`dav_write` is written for); it answers HEAD of a missing file with 404 or 403,
and COPY copies contents and properties. Three more things can go wrong, and
`met` remembers which did:

* `403`: the HEAD of a file that is there is refused. To `dav_mknod` and
  `dav_symlink` that means that it is not there, and they go on to PUT.
* `length`: no header line begins with `Content-Length:` (HTTP/2 lines arrive in
  lower case), and `dav_head` reports the 0 it started with. The padding of
  `dav_write` after a 416 then covers the file from its beginning.
* `pending`: the first request is not sent and the old exception is taken for its
  failure (`Stale`); mknod and symlink take a 404 or 403 for a missing file, a
  copy takes a 404 for a missing target.

The properties say what remains true in these cases: `WriteExact` that
everything before the bytes written has become zero, `FailedWriteContained` that no byte
behind them has changed, `NoClobber` that an existing file is emptied in no
other case.

Some things follow from the code as modelled. Because `dav_read` returns a byte count and the callers take a non-zero result
for an error, a truncation to less than half the size returns that count and
changes nothing, and `dav_copy_file_range` with a non-zero offset goes on only if
the target is empty, in which case it writes back a buffer that was never filled. Other truncations to
a non-zero size set a property `size` without namespace, whereas `dav_getattr`
reads `N:size`: they return 0 and change nothing anybody sees. And if the first
HEAD of `dav_symlink` fails, the clean-up removes a file that was there before.

What dav_getattr returns is taken to be filled in: where it is not, which is the
subject of `GetattrFilled` in `Answers`, `dav_truncate` reads an uninitialised
struct.

### Answers

One request runs: `req` with its arguments, `ans` the whole answer, `left` what
libcurl has not yet handed over, `got` what the callbacks have taken. Each call
of a callback is a step, and the length of each piece is free, so every way to
cut an answer is explored. A pending exception makes each of these requests fail
unsent, like a lost one, except for `dav_get`, whose result is then never
assigned: `StaleGet` returns anything.

* `Get`, `Put`: `dav_get` and `dav_put` over `Buffer_append` and `Buffer_fetch`.
  The range text of `with_range` is built and cut like `snprintf` does it and read
  back the way a server reads it. Numbers have base `Base = 2` and the buffer room
  for `Digits = 2` digits per number, instead of ten decimal ones; with files
  and offsets up to `MaxLen = 7` the limit is crossed by the first number, by
  the second, and by both. An offset as such always fits: an `off_t` has at most
  19 digits and the buffer of 22 characters takes 21 (`RequestAssumption`). A
  server may ignore ranges, or an invalid range, or refuse it.
* `Header`, `HeadDone`, `LockDone`: the header callbacks, called for each answer of
  a chain of redirections, and the comparison of the token with the body. A
  token is a sequence of opaque parts, because `xmlStrscmp` only asks whether the
  href begins with it; an empty href is read through a null pointer.
* `ParseChunk`, `ParseDone`, `Response`: `curl_parse_xml` and `dav_propfind` with the
  fillers of `dav_readdir` and `dav_getattr`. A response is its href (the
  directory itself, a child, a foreign one, an empty one, none) and the states of
  its propstats; up to two responses of up to two propstats, or text that is no
  XML. The name in the listing is what follows the URL in the href up to the first
  slash, so when the URL the answer came from has no slash at its end (`slash`)
  every child is named `.`. A null pointer that is read ends in `CRASH`. Hrefs of
  siblings whose name begins with that of the directory are left out.
* `Lost`: the request fails, or the connection ends in the middle of a body that
  has no declared length.

The numbers, dates and names inside the properties are not modelled. `EIO`
stands for every error number.

### Startup

`argv` is the command line, `next` and `sub` the argument and the option in it
that fuse_opt_parse has reached, `opt` `struct _networkfs_opts`, `shown` what `ps`
prints for each argument, `fargs` what fuse_main gets, `base` and `meths` the
server as `dav_getoper` and `dav_options` leave it. `pc` follows main: parse one
option after the other, `combine_url`, `replace_password`, scheme and proxy,
the registry, the added arguments, `fuse_main`, the two requests of
`dav_options`, serving, unmount, clean-up. The text of an argument is a sequence
of marks (`"u" ":" "secret" "@" "host"`), as long as masking needs to see its
separators. `Secrets` are the marks that only passwords are made of:
`ArgsAssumption` and `SecretsAssumption` say that no name, user, scheme or other
value contains one, so that a secret in `shown` comes from a password; that the
user and the password of a URL end at its first `@`, which is how libcurl reads
them; and that an option with `=` has a value. `Matches` is the table lookup of
fuse_opt: a flag is a name alone, a string or a timeout has a value.

Two things depend on the build. fuse_opt stores a flag as an int although the
fields are bools, so a store clears the three flags behind it; `Offset` has the
layout of the two structures, and the machine is little-endian. And main reads
`options.scheme`, which `combine_url` has erased if it was given as an option,
through a null pointer: the model goes to `crash`.

With the fault `oom` the URL functions of libcurl fail, which ends main, and so do
the three calls of strdup in `combine_url`, whose result nobody checks: a lost
scheme ends in `crash`, a lost user or password is gone, from the URL too. `met`
remembers which copy failed, and a Server line without a version, so that the
properties can name exactly these causes.

External: fuse_opt (order of options, what is handed on), getopt and getsubopt
(where `replace_password` finds the password), the URL parser of libcurl and the
server. Options that are only stored and passed on (certificates, masks, network
timeouts, and the secrets in proxy_user and pass, which nothing masks) are left
out.

## 3. The runs

| run | instance | checks |
|---|---|---|
| `locks_memory` | 2 threads, 2 paths, all operations, all faults, `Solo = {"release"}` | `TypeOK`, `RecordsOwned` |
| `locks_basic` | 3 threads, 2 paths, no faults, up to 3 handles per file, `Solo = {"release", "create"}` | `LockedWhileOpen`, `CountMatches`, `NoStrayLock`, `NoSpuriousError` |
| `locks_table` | 2 threads overlapping on 3 paths, failing requests (open, release, write, truncate, rename) | `HeaderCurrent`, `RequestsHoldLock` |
| `locks_drain` | 2 threads overlapping on 3 paths, healthy server, open, write, rename and unlink | `IdleHoldsNothing`, `OpsDrain` (liveness) |
| `pool` | 3 threads, 4 handles, 4 nodes, all faults | `TypeOK`, `HandleExclusive`, `CleanRequest`, `PoolIntact`, `ImplementsPool` (refinement of `HandlePool`), `RequestsEnd` (liveness) |
| `file_contents` | 2 files of up to 6 bytes, every handler, at most one failing request, a server that answers 416, refuses a HEAD or leaves out the length, an exception pending or not | `TypeOK`, `HealthyWriteSucceeds`, `WriteExact`, `FailedWriteContained`, `TruncateEmpties`, `NoClobber`, `SymlinkAllOrNothing`, `CopyWhole` |
| `answers` | files of up to 7 bytes, reads and writes of up to 4, up to 2 header lines, up to 2 responses, every way to cut them | `TypeOK`, `ReadExact`, `ReadNeverWrong`, `PutExact`, `HeadExact`, `TokenExact`, `ListingExact`, `GetattrFilled` |
| `startup` | every command line of up to 3 of 38 arguments, with or without a mount point behind them | `TypeOK`, `PasswordMasked`, `CredentialsChosen`, `SchemeChosen`, `CrashCauses`, `UseLockKept` |

Four runs show where the code does not do what its texts say:

| run | shows |
|---|---|
| `viol_rename` | open, rename, release: the record is gone and "release cannot find file lock" is thrown |
| `viol_uselock` | an open that overlaps the last release: the file is open for writing, its lock released and its record freed |
| `viol_leak` | a PUT answered with 416 keeps the read lock, and the release of the same file waits for the write lock for ever |
| `viol_timeout` | a cache timeout given by the user is taken off the command line and never reaches fuse_main |

The properties of `Answers` and `Startup` name the inputs for which the code does
not give the best answer (a range beyond ten digits, a lower-case header, a
comma in a password, an option order that clears a flag); the runs show that
there are no others.

Each property of each passing run has a mutant of the modelled code that breaks
it (the operators commented "Mutant of ..." in the modules).

Bounds. The overlapping runs with a rename have three paths, since a rename
excludes every other request on its two names and another thread needs a third
one to work on. Two threads are enough for every race of the table, which is
between two holders of one record; three are used where the state space allows.
With `release` solo a path has at most one record in existence, so two
addresses do for two paths (a third one adds no states); the other runs have
three. Tokens: one per path, one in a stale record and one in flight.
`MaxOpen` (2, or 3 in `locks_basic`) makes a count go up and down more than once;
`locks_table` and `locks_drain`, which say nothing of counts, have 1.
`MaxHold` stops
giving work to a thread that has leaked more than that many read locks; it
bounds only the runs with faults. The pool needs no bound: its states are finite.
One more handle and node than threads are provided, so that exceeding one handle
per thread would be seen. In `pool` only addresses are permuted (`Addresses`): neither
the fairness nor `RequestsEnd` mentions one, and every step changes the `pc` of its
thread, so the reduction keeps the temporal properties; with 3 handles and 3 nodes the run also passes without it. Three arguments are enough for every pair of options
whose order matters together with a URL, and a mount point behind them makes the
mount succeed. `CHECK_DEADLOCK FALSE` stands where the leaked rwlock
really stops the system (`locks_memory`, `locks_table`, `viol_leak`).

Fairness. `WF_vars(Step(t))`: a worker thread whose next step is possible takes
it. The worker is an operating system thread. That a request in flight ends,
because the server answers or the connection fails, is an assumption about the
network: `-o timeout` has no default, so curl by itself may wait for ever.
Applications need not issue requests, so `Start` and `Request` have no fairness. The liveness properties
are of the form "if from some time on no new request starts, every thread
becomes idle". Neither the rwlock nor the trylock loop promises fairness among
threads, and none is assumed: under an endless stream of requests one thread
may starve.

## 4. The proofs

Every theorem holds for all values of the constants that satisfy the named
assumption of its module; TLC evaluates the assumptions in the runs. A theorem
that needs more (no faults, releases that overlap nothing) has it as a
hypothesis, and the text says why.

### The lock table under all faults: `FileLocksProofs`

For any sets of threads, paths, addresses and tokens and any subset of the
operations and faults (`ConstantsAssumption`):

* `TypeCorrect`: `Spec => []TypeOK`. That the read counts stay natural numbers
  is not a matter of types: `RwUnlock` subtracts one, so every step that unlocks
  must hold the lock. `Inv` therefore contains `RequestsHoldLock` and
  `RwExclusive` (a writer excludes readers), and, for the records that
  `dav_lock` fills in after its request, `NewRecord` and `TreeLive`.
* `HeadersAreCurrent`: `Spec => []HeaderCurrent`, from the same `Inv`: whoever
  changes the tree or a token holds the write lock, and a PUT or COPY in flight
  holds a read lock.
* `RequestsAreLocked`: `Spec => []RequestsHoldLock`, the part of `Inv` that says
  that every request made under the rwlock still has its lock, exclusively if
  it changes the table.
* `MemorySafe`: if a release overlaps no other request on its path
  (`ReleasesAlone`, which libfuse does not guarantee), `Spec => []RecordsOwned`;
  all other requests may overlap and fail. The
  inductive invariant `SerialInv` adds `Apart` (the names of a thread in an
  operation that excludes others are nobody else's) and `Releases` (`dav_unlock`
  is called by a release). From it follows `NoRival`: whoever touches a record
  has no rival with the same record in a local variable, either because it is in
  a release or because it has the rwlock, and a thread in `dav_lock` owns a
  record only while it has the write lock. The hypothesis is needed: without it
  `viol_uselock` also ends in the freeing of a record in use.

### The lock table on a healthy server: `FileLocksHealthy`

No fault (`Faults = {}`) and `ReleasesAlone`. The two further conditions are
where the code itself breaks the properties: `Steady` excludes the operations
that take the record of an open file away (truncation deletes the file and its
record, and a rename the record of its source: `viol_rename`), and `Served`
also excludes what changes the mode of a locked file, since PROPPATCH carries
no token.

* `LocksAreReturned`: `IdleHoldsNothing`, on a mount that is `Steady` or has no
  releases (`Orderly`).
* `OpenFilesAreLocked`, `CountsAreExact`, `NoLockIsLeftBehind`,
  `ReleasesFindTheirLock`: `LockedWhileOpen`, `CountMatches`, `NoStrayLock` and
  `ReleaseFindsLock` on a `Steady` mount.
* `ErrorsAreGenuine`: `NoSpuriousError` on a `Served` mount.

They support each other, so one invariant, `HealthyInv`, carries all of them: the
rwlock is given back because the server admits every request made under it; it
does because the table has the server's token (`Agree`); it has because a lock
goes only with its record and a record only when its count is zero; and the
count is right (`Counted`) because no thread is stopped between counting and
opening. `HealthyInv` is `SerialInv` with, for each thread, `Course` (it is at a method
of its handler and has no exception pending), `HoldExact`, `InFlight` and `Unopened`, and, for each
path, `Agree` and `Counted`. A release that has not counted down yet is part of
the count, so the invariant also holds between the sections of `dav_unlock`.

### The handle pool: `CurlPoolProofs`, `CurlPoolRefinement`

For any finite set of threads and any handles and nodes (`PoolAssumption`), under
all faults:

* `HandlesAreExclusive`: `Spec => []HandleExclusive`. The invariant `PoolInv`
  adds that the steps between lock and unlock hold the spinlock, that the nodes
  in the hands of threads are distinct, and that the list contains only nodes
  in nobody's hands, none pointed to twice; then unlinking the top leaves no
  second way to reach it.
* `RequestsAreClean`: `Spec => []CleanRequest`, since only the holder of a
  handle changes its options.
* `TypeCorrect`, `PoolStaysIntact`: `TypeOK` (the size is never negative) and
  `PoolIntact`. `PoolInv` bounds the stack from above; `StackInv` adds the other
  direction: `Linked` (every listed node is reached from the top), `Counted`
  (`size` counts them, one off between the link and its correction), `LiveHeld`
  (no handle is lost) and `Bounded` (the handles that exist and those about to
  be made are at most one per thread).
* `StackImplementsPool`: `Spec => ImplementsPool`. The initial state maps to the
  initial state of `HandlePool`; the step that links or unlinks a node, makes or
  closes a handle is a step of it and every other step leaves it alone.
  `Bounded` gives its limit on making handles.

### Contents of files: `DavFileProofs`

For any names, lengths, width of an unsigned int and number of failing requests
(`FileAssumption`): `TypeCorrect`, `WritesAreExact`, `HealthyWritesSucceed`,
`FailedWritesAreContained`, `TruncationEmpties`, `MknodNeverClobbers`,
`CopiesAreWhole`, and `SymlinksAreWhole` for at most one failing request (a second
one can hit the clean-up). `FileInv` says, for each handler and each of its
requests, what the file it works on has become since it started, and that all
others are as they were. For a write that is: untouched, padded with zeroes up
to the offset after a 416, or complete; a write that fails leaves one of the
three. The padding begins at the end of the file or, once `met` has `length`, at
its beginning. For mknod and symlink the invariant says that beyond the HEAD a
name that existed has cost `met` a `403` or a `pending`.

### Answers: `AnswersProofs`, `Recursion`

For any base, width of the range text, file lengths and sets of requests and
answers (`RangeAssumption`, `RequestAssumption`, `ReplyAssumption`; the last
says what a header line or a listing looks like): `TypeCorrect`,
`ReadsAreExact`, `ReadsAreNeverWrong`, `PutsAreExact`, `HeadsAreExact`,
`TokensAreExact`, `ListingsAreExact` and `AttributesAreFilled`. There are two
parts:

* What the operators compute. The text of a number has the number as its value,
  the first `-` ends the first number, and so a server reads the offset in every
  range text, and the last byte in one that was not cut (`RangeRead`); joining a
  sequence of names and one more appends its names (`FlattenAppend`). `Text`,
  `Value` and the join of SequencesExt are recursive functions. The library's
  theorems about induction and recursion have operators as parameters, which the
  provers cannot instantiate; `Recursion` states what is needed with a set or a
  function instead: a set of naturals that contains each number whose
  predecessors it contains is all of them, and a function given by its value at a
  smaller number exists and is unique.
* The invariant `AnswerInv`, by kind of request. Whatever the pieces, what was
  taken and what is left make up the answer (`GetInv`, `PutInv`); the last header
  line is still to come or counts (`HeadInv`); the parser has a prefix of the
  body, and once the body was found well-formed, all of it, because only its last
  part is the end tag (`ListInv`); and the filler was called for the responses
  that are no longer in `got` (`Filled`).

### Start-up: `StartupProofs`

For command lines of any length over any set of arguments (`ArgsAssumption`,
`SecretsAssumption`): `TypeCorrect`, `CredentialsAreChosen`, `SchemesAreChosen`,
`CrashesHaveCauses`, `LocksAreKept` and `PasswordsAreMasked`, each for the
property of `startup` of that name. The invariant `StartupInv` has these parts:

* `Done` is the set of the options parsed so far. `ReadInv`: each string in `opt`
  is the value of the last option in `Done` that gives it, `use_ssl` is set if
  there is one in `Done`, and the URL is the first plain argument.
* `HideInv`, `LockInv`: if a flag is off, an option in `Done` that cleared it came
  after the last one that set it. This rests on the layout: `StoreOption` says for
  each option which flags its store can clear.
* `LateInv`, `SchemeInv`, `BaseInv`: once everything is read, `Done` is all that was
  given (`DoneAll`), and the choice made by `combine_url`, the scheme without its
  `s`, and the URL of the server follow from it.
* `ShownInv`: `shown` is the text of the command line, or that text masked.

What a mask leaves is a matter of sequences. `UrlMasked` and `GroupMasked` say
that of a text with a password between two parts, only the parts are left, if
the password does not contain the separator the search stops at; `UrlWithPassword`
and `GroupHidden` bring the text of an argument into that form, with
`FlattenAround` of `Recursion` for a group of any number of options. A text
without a password consists of `Safe` marks and a mask adds only `*`. The
exceptions in `PasswordMasked` are the hypotheses of these lemmas, one each.

### Only model-checked

* `OpsDrain` and `RequestsEnd`: liveness under fairness, which these provers have
  no rules for.
* The four violations, which are counterexamples.

## 5. Plan

Every safety property of a passing run is proved. What could follow:

1. `DavFile`: a second client between two requests (the HEAD and PUT of mknod, the
   clean-up of symlink), and an abstract file store with atomic operations that
   the successful handlers implement.
2. `Startup`: the options that are stored and handed to libcurl, and libfuse's own
   parser as a module of its own.

## 6. Not modelled

* Logging, usage texts and the texts of the request bodies: output only.
* CRC-32: third-party table code no operation calls.
* Class and vtable macros, allocation wrappers: compile-time machinery; a failing
  allocation is a fault of the other modules. The exception macros appear as the
  control flow they expand to.
* The dummy protocol: a constant listing; `Startup` models its place in the
  registry. The emulator hands the table of operations on unchanged.
* mkdir, chown, readlink and the attributes inside a PROPFIND answer (dates,
  sizes, modes): single requests and conversions without control of their own.
* Stack overflow by the arrays of `dav_truncate`, `dav_write` and
  `dav_copy_file_range`, which are as long as the file or the gap.
* libcurl, libxml2, libfuse and the server beyond what the code relies on.
