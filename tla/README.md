# BNFS in TLA+

BNFS is an AFS-like network file system: a FUSE client (C over C++) that keeps
whole files in a local directory while they are open, and a gRPC server over
one POSIX directory. This directory holds a model of the protocol between
them, the configurations that check it with TLC, and proofs for TLAPS.
Unqualified file names are those of `src/unreliablefs/unreliablefs/`.

## The system

| Part | Source | State | Operations |
|---|---|---|---|
| File server | `afs_server.cc` | the exported directory, one mutex | GetAttr, ReadDir, Mkdir, Access, Rmdir, Open, PutFile, Unlink, Rename; gRPC runs them concurrently |
| Client | `afs_client.cc` | none of its own | Open (getOpenFlags, fetch, create), Flush, Unlink, Rename, forwarding of mkdir, rmdir, access, readdir, getattr |
| Cache helper | `cache_helper.cc` | temp directory (emptied on start), cache directory, set of dirty paths under a mutex | writeFileTo*, commitToCache, mark, unmark, deleteFromTemp |
| FUSE operations | `unreliablefs_ops.c`, `unreliablefs.c` | descriptors, `fi->fh` of open files | one function per FUSE call, run by the threads of libfuse: inject an error or do the call |
| Reordering queue | `afs_client.cc:74-169`, `unreliablefs.c:135` | a queue of delayed writes and closes, no lock | add and shuffle (FUSE threads), execute the head (a polling thread) |
| Error injection | `unreliablefs_errinj.c` | list of injections under a mutex, read again when the configuration file is touched | error_inject |
| INI parser | `conf.c` | section, name of the last option, line | ini_parse |
| Errno tables, protos, tests | | | tables, message layouts, drivers |

A process opens a file: the client asks the server for the file's time, fetches
the file into its temp directory unless it has a copy that is not older, and
opens that. Writes go to the temp file and mark the path dirty. Close streams a
dirty file to the server, which writes a temporary file and renames it into
place; the client gives its copy the time the server reports and erases the
mark. Clients learn of each other only through the times of files.

What is hard here: gRPC handlers that interleave around one mutex that does not
cover all of them; several processes, FUSE threads and clients that interleave
between RPCs; streams that break and are taken for complete; clients and servers
that die between two steps; times of whole seconds that stand for versions;
marks and copies that go stale; threads of one process that share its descriptors
and an unlocked queue. `PROJECT.json` lists these hazards at their lines.

What makes the parts correct:

* server: a file shows one upload, or a first part of it, never a mixture; a
  reader gets one version; times follow publication; the mutex is given back;
* client: a file that is held unmarked was published; every upload ends; a
  close uploads only what its process wrote and never brings back a replaced
  content; an open sees what was closed last;
* FUSE operations: a thread reads and writes its own file, whoever opens, renames
  and removes around it; every call gives its descriptors back;
* queue: a delayed operation is executed once, as what it was;
* INI parser: an option is what the file says, whatever stands around it;
* error injection: the injections in force are those the file enables, each with the
  value it gives last; nobody walks a list that was freed, the last injection that
  fires decides, every operation is answered.

## Modules

| Module | Models | Remarks |
|---|---|---|
| `FileStore` | what the server promises: a map from paths to a content and a time | abstract specification |
| `AfsServer` | `afs_server.cc`, system call by system call | implements `FileStore` (`ImplementsStore`) |
| `AfsServerProofs` | theorems about `AfsServer` | TLAPS |
| `SharedFiles` | what the whole promises to processes that share files: an open reads the file, a close replaces it | abstract specification |
| `Bnfs` | clients over a `FileStore`, RPC by RPC and file operation by file operation | extends `FileStore`; implements `SharedFiles` where processes take turns (`SharesFiles`) |
| `BnfsProofs`, `BnfsPublished`, `BnfsTurns` | theorems about `Bnfs`: its types, the recovery by dirty marks, processes that take turns | TLAPS |
| `BnfsCloseToOpen`, `BnfsLastWriter` | theorems about `Bnfs`: close-to-open consistency and the implementation of `SharedFiles`, no content comes back | TLAPS |
| `ErrInject` | `unreliablefs_errinj.c` and the head of every operation | on its own: it decides whether an operation of `Bnfs` happens |
| `ErrInjectProofs` | theorems about `ErrInject` | TLAPS |
| `IniParse` | `conf.c`, a fold over the lines of a file, and what a file means without a parser | `ErrInject` extends it: a reload parses the file |
| `FuseOps` | one client process: every operation of the table, its threads and descriptors, the reordering queue and its polling thread | what error injection makes of an operation is its constant `Injects` |
| `FuseOpsProofs` | theorems about `FuseOps` | TLAPS |
| `MCAfsServer`, `MCBnfs`, `MCErrInject`, `MCFuseOps` | instances for TLC | values of the constants, symmetry |

`Bnfs` uses `FileStore` where the program uses the server. That is sound for
what clients see because `AfsServer` implements `FileStore`; `FileStore` lets
`Publish` choose any time from the later of the start of the upload and the
last publication, which is what `PutTimesOrdered` says of the server.

### AfsServer

`names` is the directory (a name holds an inode, `Dir` or nothing), `disk` the
inodes with content and `st_mtime`, `lock` the `pthread_mutex_t`. `pc` says where
each PutFile and Open call is; `tmp` is what `random_string` will return to it
(`rand` is never seeded, so that names come back after a restart). A content is
the sequence of messages received. PutFile is `PutBegin` (first Read), `PutLock`
(mutex, `ios::trunc`), `PutRecv` per message, `PutEof` (a Read that returns false,
for whatever reason), `PutRename` or `PutRenameFails`, `PutUnlock`, `PutReply`
(lstat). Open is `GetBegin`, then `GetChunk` and `GetEof`, or `GetCreate`. Unlink,
Rename, Mkdir and Rmdir are one system call. `Crash` ends every running call and
leaves the directory as it is.

### Bnfs

`temp[c][p]` is the file in the temp directory of client `c` for `p`, `cached[c]`
the paths with a file in its cache directory (no path of the code reads such a
file back, so contents are left out), `dirty[c]` is `dirty_files`. `sess[t]` is the
call process `t` is in, or its open file. A file is written and read as a whole;
the n-th write of a run leaves content n. Open is `Open`, `GetAttr`, `Check`,
`Fetch`, `Clear`, `Fill`, `OpenTemp`, or `MakeLocal`, `MakeDirty`, `AskServer`,
`MakeOnServer` for a new file; a write is `Write` and `Mark`; close is `Flush`,
`Send`, `PutFile`, `Reply`, `Commit`, `Stamp`, `Clean`. `strays` are PutFile handlers
whose client gave up or died. With `Lossy` each RPC may fail, before or after its
effect. Removing a temp file and erasing its mark (`deleteFromTemp`) is one step.
The time of a copy that was never compared is reset when it is dead.

`Serial` makes processes take turns as `consistency_tests` do: whoever changes a
file starts in a later second than the last one ended in, which is what times of
whole seconds need. libfuse's locks and its hiding of open files are the guards
`Unlocked`, `InUse` and `InCall` (external).

`SharedFiles` is what a session is for: `Open` shows the file as it was closed last,
`Write` is seen by nobody else, `Close` replaces the file by what its process made of
it. It has no clients, copies, marks or times. The mapping: `file` is what the server
has (`Shown`); `view` is the temp file of a process from the open of its temp file (of
a new file: from the creation on the server) to the rename of its upload on the server
(`View`, `Works`), written to when the file is marked or about to be; `late` is the
uploads that a restart of their client left behind. So `OpenTemp` is the open,
`MakeOnServer` the creation and `PutFile` the close (for who wrote nothing, `Flush` is);
the RPCs, copies and marks between them are stutters. A restart is a `Crash`, and the
upload it leaves comes as a `CloseLate`, with its content or an empty file. A path
that a truncate changed unmarked, or that a rename put another file under, is
promised no more: `Truncate` and `Rename` take it out of the domain of `file`, as
`moved` takes it out of `OpenSeesLatestUnmoved`.

### ErrInject

`errors` is `conf.errors`, the list of injections. `Option` is the handler of the parser:
it makes the injection that a section names, once, and sets one value of it (`Keep`);
`Options` folds it over the options that `Parse` of `IniParse` reports, `LinesOf` gives the
lines of a configuration, `mutex` is `conf.mutex`. A regular expression is the
set of names it matches, `file` the configuration file, which anybody may edit.
A call is `Begin`, `Enter` (lock, and where to go), then `Delete` and `Load` when it
is about the configuration file, or `Pass` and `Hit` per injection, with `sleep` and
`Wake` in a slowdown, `WalkEnds`, `Leave` (unlock), `Act` (what the operation makes
of the return code) and `Return`. `gen` counts lists and `hits` remembers what
fired; both are for the properties only. The errno drawn may be 0: the index is
drawn up to one past the end of its table.

`Bnfs` is the case in which every injection passes. With an injection, an
operation is skipped, refused or queued instead: `Act` gives the four outcomes
that `FuseOps` lets each operation have.

### IniParse

A line is a string that `fgets` returned; `Line` gives what its characters make of
it (indented or not, blank, header, option or neither). `ParseLine` is the body of
the loop of `ini_parse_stream` as it is compiled here: an indented line continues the
option above it, and a header at the margin clears that name. `Written` says
what a file means by looking at lines and never at a state: which option each
line continues (`Continues`: the last one before it, if nothing in between ends it),
and which section it stands in. An option with an empty name counts as none.

### FuseOps

`fdt` is the descriptor table of one client process: what a descriptor refers to,
where a path means its file in the temp directory and `"gone"` a file that has lost
its name. `temp`, `cached` and `dirty` are sets of paths: contents and times are the
matter of `Bnfs`. `hand[t]` is the open file of a thread (path and `fi->fh`), `call[t]`
the operation it is in with the descriptors in its local variables (`cfd` and `tfd`
of `getOpenFlags`, `tfd` of `Flush`). open and create are `Open`, then `LookInCache`,
`LookInTemp`, `Decide` (getOpenFlags), `Fetch` and `Fill`, or `MakeTemp`, `MakeCache`
and `CreateOnServer`, then `OpenTemp`; flush is `Flush` (the dup), `Upload`, `Put`.
Operations that are one system call or one RPC are one step. An operation that
takes its path as it stands (readlink, symlink, link, ftruncate, fsyncdir) works in
the client's own tree and not in temp, as the code does.

`queue` is `op_queue`. `Enqueue` is addToQueue; `Drain` and `Refill` are the two loops
of shuffleQueue; `PollFront`, `PollPop` and `PollRun` are executeQueueHead, which takes
the front of the queue and removes it in two calls. Nothing locks the queue, so a
shuffle may fall between any two of these; `raced` remembers that one fell between
front and pop, `half` that a rename took place on one side only. Both, and `tickets`
and `ran`, are for the properties only.

Three leaks are as in the code and `GivesBack` names them: an fsyncdir whose fsync
fails, a rename whose rename(2) fails (the descriptor of the cache file), and a
release that is skipped or refused.

## Runs

All bounds are constants in the `.cfg` files.

| Run | Instance | Checks |
|---|---|---|
| `Server` | 2 uploads that may draw one temporary name, 1 Open, 2 paths, 2 messages, 2 seconds, broken streams, crashes | `TypeOK OneUpload ReadsOneVersion LockOwned NoStrayTemp PutTimesOrdered ImplementsStore` |
| `ServerServed` | 3 uploads, 1 path, fairness | `Served` |
| `ServerAtomic` | 1 upload of 2 messages | violated: `AtomicWrites` |
| `ServerRetry` | 2 uploads, fairness | violated: `RetryAnswered` |
| `BnfsFaults` | 2 concurrent clients, failing RPCs, unlink, restart, 2 writes, one content with a NUL | `BTypeOK CleanMeansPublished` |
| `BnfsConcurrent` | 2 concurrent clients, 3 writes, 3 seconds, restart | `NoResurrection` |
| `BnfsPaths` | 2 clients taking turns, 2 paths, 2 writes, 3 seconds, truncate, unlink, rename, restart | `OpenSeesLatestUnmoved SettledClean ReadersUploadNothing SharesFiles` |
| `BnfsRename` | 2 clients taking turns, 2 paths | violated: `OpenSeesLatest` |
| `BnfsLostUpdate` | 2 processes of one client | violated: `CleanMeansPublished` |
| `ErrInject` | 2 threads, 2 calls each, 2 configurations, a file that may vanish, fairness; all files of up to 4 lines out of 9 | `TypeOK ListAlive LastHitWins Answered ParsedAsWritten ConfiguredAsWritten` |
| `FuseOps` | 2 threads, 2 paths, 2 descriptors besides the standard one, 2 queued operations; one configuration that refuses and skips, one that skips opens and queues | `FTypeOK OneOwner OwnFile ExecutedOnce BadOnlyWhenFull GivesBack` |
| `FuseQueue` | the same, write and flush queued | violated: `ExecutedAsQueued` |

Why the bounds are enough: mixing two uploads, or losing the mutex, needs two
uploads and two messages; a third one shows waiting. A stale copy needs two
clients and a second of difference, bringing a content back needs a third write.
`BnfsFaults` allows no left-over upload (`MaxStray = 0`): one only ever adds a
published content and so cannot break its properties; `BnfsPaths` allows one. Its
invariants hold with three writes as well; with two it has 2.5 million states, where
clients and paths are interchangeable (`PathSymmetry`: nothing orders or chooses them).
`OpenSeesLatestUnmoved` leaves out the files that a rename or a truncate has
touched (`moved`), not the others of the same run. `ErrInject` needs one thread that
reloads and one that walks, and two calls of each so that a call finds what an
earlier one left. A fault of the parser needs an option, a header, an indented
line and something between them: four lines. In `FuseOps` two descriptors are
fewer than two opens need, so that the table is full at every step of some
behaviour, and a descriptor closed once too often is at once given to the other
thread; with three the run does not end in five minutes. Opens that are skipped
make most other steps dull, so they share a configuration with the queue: then
the state spaces add and do not multiply. Deadlock is not checked: a run stops when its calls, its
writes and its clock are used up.

Fairness is assumed in two places. `FairSpec` of `AfsServer`: a handler that can take a
step takes one (gRPC gives each call a thread), and a client that streams sends,
ends or is found gone. A handler that waits for the mutex is disabled, so weak
fairness does not promise it the mutex; it gets it because uploads are finite. `FairSpec` of `ErrInject`: a thread that has
begun a call goes on (the kernel schedules it, a sleep ends); that a process
calls at all is not assumed. There too the mutex comes because calls are finite.

The five violations are disagreements of the code with its README or manual page,
quoted in `PROJECT.json` under "findings": a broken stream is published, a failed rename
keeps the mutex, a rename hides newer content behind an older time, a write during a
flush loses its mark, and a queued write is executed as a close (the callers
number the operations the other way round than the queue).

## Proofs

`AfsServerProofs` proves, for any sets of paths, names and calls, any number of
messages and any bound of the clock, `TypeCorrect`, `MutexOwned`, `FilesAreVersions`,
`StreamsAreVersions`, `TimesFollowOrder`, `TempFilesAccounted` and `Refinement`. They assume
`AfsServerAssumption` and `NoneIsNoFile`: the sets of names are disjoint and the
special values are none of the others.

None of these is inductive. `IInv` adds: `LinkInv`, each inode has at most one name
and belongs to the call that created it; `WriteInv`, the upload that holds the
mutex writes an inode that only its temporary name reaches, and its content is
exactly what it received, so that a rename publishes one upload even when an old
temporary file was found and reused; `VersionInv`, every inode holds a first part
of one upload; `ReadOpen`, `ReadInv` and `GotInv`, an inode that is being read has
been visible, so no upload writes it any more, and what was streamed is a first
part of it until a truncating Open empties it. `Invariance` is `Spec => []IInv`.
For `Refinement`, a PutFile step shows nothing but for its rename (`PutShows`),
an Open shows a creation or a truncation (`GetShows`), and `TimesFollowOrder` gives
the range of `Publish`'s time. `NoStrayTemp` is inductive beside `IInv` (`NextStray`).

`BnfsProofs` proves `ClientsTypeCorrect`, for any number of clients, processes and
paths, failing RPCs or not. The types alone are not inductive: an upload reads
the file its descriptor was opened for, so `BInv` adds that an open file which still
has a name in temp has it there (`Linked`). There is one lemma per action.

`BnfsPublished` proves `CleanFilesWerePublished` (`CleanMeansPublished`) under `Alone`:
one process per client, and no operation but unlink and restart. Both are needed:
`BnfsLostUpdate` shows what two processes of one client do, and truncate and rename
change a copy without marking it. `CInv` says where a copy without a mark can come
from: what a session holds on its way from the server was shown by it (`Fits`), and
a copy is marked, was published, or its writer is about to mark it (`Safe`). The
invariant speaks of one process and its client at a time, so that a step of
another changes nothing of it (`OwnStep`).

`BnfsTurns` proves `ClosedFilesAreClean` and `OnlyWritersUpload`, for any number of
processes on any number of clients, under `Taking`: `Serial`, and no RPC fails (a
failed upload keeps its mark on purpose, for the next close to send it). `SInv` adds
that only readers overlap (`Turns`), what a step may rely on (`Role`), and that a
dirty mark has an owner, a writer that has not closed its file yet (`Owner`).

`BnfsCloseToOpen` proves `CloseToOpen` (`OpenSeesLatestUnmoved`), and
`CloseToOpenEverywhere` (`OpenSeesLatest`) where nothing is truncated or renamed:
`BnfsRename` needs a rename for its counterexample. Both hold for any number of clients under `Sharing`:
`Taking`, one process per client (the next process of a client may clear the copy that
one has open), and `NulData` empty (a fetch cuts such a content short). That a reader
may trust its copy rests on times: an open fetches unless it has a copy no older
than the server's file, so `KInv` must order the times. A writer works in a
later second than the copies of the others were made in (`Later`), no copy has a
time after the end of the last session (`Aged`), and so a copy without a mark is the
server's file or strictly older (`Fresh`). The rest is what a session knows of its file
(`KnowsFile`) and of its copy (`KnowsCopy`), and that an upload left behind by a
restart is over before the next session starts. Again there is one lemma per kind
of step: of one process (`OwnStep`), on its copies (`CopyStep`), on the server
(`RpcStep`), at the start of a session (`Begins`).

The same module proves the refinement: under `Sharing`, with unlink, truncate, rename,
restarts and uploads left behind, `Bnfs` implements `SharedFiles`
(`SessionsLookAtomic`, the property `SharesFiles`). The steps of the abstract
specification need what the invariants say: an open shows the server's file because
`KnowsCopy` says that the copy is the same, a close replaces the file by what is seen
because the upload holds the copy's content and its writer is alone, and a file is
removed or renamed only while nobody has it open. `EInv` adds what no property needed
before: a file that is about to be opened is unmarked unless it is new, a new one is
empty (`Begun`), and at most one upload is left behind. `BnfsAssumption` says for this
that what a path without a file holds (`NoFile`) is no content. One lemma per kind of step says
what that step shows (`OpenTempShows`, `PutFileShows`, `RestartShows`, ...); `Silent` is
for the steps that show nothing.

`BnfsLastWriter` proves `LastWriterWins` (`NoResurrection`) for any number of clients
that work at the same time, under `Solitary`: one process per client, no RPC fails, and
no operation but restart. Two processes of a client share a copy, a failed upload
keeps its mark for a later close, and an unlink can leave a mark behind; each of them
can send an old content again. Contents are numbered as they are written, so that a
new one is one the server cannot have shown (`Bounded`). `NInv` adds that a mark
belongs to a session (`Owner`), that a session which may still upload holds a content
the server has never shown and no upload left behind carries (`Unseen`), and that
two such sessions hold different ones (`Differ`).

`ErrInjectProofs` proves, for any number of threads and any configurations, that
nobody walks a freed or replaced list (`ListNeverFreedUnderWalk`) and that two
threads are never both inside `error_inject` (`OneInside`). `EInv` adds who holds the
mutex (`Holds`) and that a list is freed only while the holder reads its
replacement (`FreedInv`), without which a thread that enters could find one. With it
`LastInjectionWins` (`LastHitWins`) follows from `RcInv`, which says of every round of
the walk what the property says of its end; the list does not change under a walk
because whoever loads holds the mutex. Besides `ErrInjectAssumption` nothing is assumed.

The same module proves what the parser and its handler compute, for files of any
length. `ParserTellsWhatIsWritten` says that what `Parse` tells its handler, and the
line it complains of, are what `Written` says of the file. `PInv` is what the state of
the loop means after n lines, in terms of the lines alone: the name it keeps is
that of the option which the next line could continue (`KnowsName`), the section and
the first bad line are known (`KnowsSection`, `KnowsError`), and what was told is what the n
lines say (`HasTold`). One line keeps it (`ParseStep`). `ConfigurationMeansTheFile`
says the same of the handler and the list: an injection is in it if and only if
an option enables it, once, with the last value of each of its settings. Both are
folds, which `ParseFold` and `OptionFold` unfold as functions on the numbers of lines.
The induction over these numbers is `NatSetInduction`, about sets of numbers, because
the theorems of the library that take a predicate as a parameter cannot be
instantiated. From these follow `ParsedRight` and `ConfiguredRight`, that every configuration
file of a run, however edited, is understood so; and `TypeCorrect`, whose part about
`errors` is that a list of injections is what options make (`ConfigType`).

`FuseOpsProofs` proves, for any number of threads, paths and descriptors and any
configurations, `ClientTypeCorrect`, `DescriptorsOwned` (`OneOwner`),
`HandlesKeepTheirFile` (`OwnFile`), `BadDescriptorOnlyWhenFull` and `CallsGiveBack`. It
assumes `FuseOpsAssumption`: there is a descriptor besides the standard one, and paths
are none of the other things a descriptor may refer to. `TInv` adds to the types
that everything in the queue has a ticket (`Ticketed`), and what the place of a
thread says of its variables (`Shape`): a thread between two steps has a path, a
thread that opens has no open file, and descriptors are kept only in the steps that
use them. `OInv` adds that a thread that uploads has its file open twice
(`TwoDescriptors`), and that who has a file open by its name has the one that is in
temp (`NamedInTemp`): without it a rename on the server could rename a file that
is open under its old name. The steps fall into few kinds, and there is one lemma
for each: nothing opened or closed (`KeepStep`), a free descriptor taken (`TakeStep`),
descriptors closed and names lost (`LoseStep`), a file moved (`MoveStep`, `RemoteStep`).
`CallsGiveBack` needs `TInv` only.

`QueuedExecutedOnce` (`ExecutedOnce`) is about the queue alone, for any number of threads
and queued operations: while no shuffle has fallen between the front and the pop
of the polling thread, an operation is executed at most once, and one that has been
delayed is executed or still waits. `QInv` counts places: a ticket is in one place (the queue, the
vectors a shuffle fills and empties, the operation being executed) or in none, and
then it was executed (`NoTwice`, `Kept`); the operation whose pop is due is at
the head (`AtFront`). That a shuffle loses nothing is a fact about a permutation: an
enumeration of n entries without repetition by n numbers leaves none out.

Model-checked only: `Served` of `AfsServer` and `Answered` of `ErrInject`. Both are liveness
under fairness and need ENABLED. Every other property of a passing run is stated
by a theorem.

## Not modelled

* What ReadDir and Access read on the server: one system call each, nothing
  changes. What a client makes of their replies is in `FuseOps`.
* The errno tables (data), message layouts, option parsing of `main`, the drivers of
  the tests, `ini_parse_string` (no caller), and the functions of the cache helper
  that no path of the program reaches (`getCheckInTemp`, `isCacheOutOfDate`,
  `syncFileToCache`, `syncFileToTemp`).
* Parts of files: a write replaces the content. Modes and owners of files: an
  operation may fail at any time instead. Hash collisions of `getHashedPath`.
* What `std::queue` does to its memory when it is changed without a lock: the steps
  of the queue are whole calls and loops. What a queued entry points to after its
  call has returned: the polling thread opens or duplicates what it finds and closes it
  again.
* The probability of an injection: it may happen or not, as the draw allows.
* A rename after an open that was skipped: `Rename` tests its descriptor for `> 0`,
  so that a free descriptor 0 would count as none. In `FuseOps` descriptor 0 is
  given away only after such an open was released.

## Plan

1. Done: `FileStore`, `AfsServer`, its proofs; `Bnfs`, its proofs; `ErrInject` with
   `IniParse`, its proofs; `FuseOps` with the queue, its proofs; their runs.
2. Done: close-to-open consistency (`OpenSeesLatestUnmoved`) and `NoResurrection` proved,
   for one process per client.
3. Done: `SharedFiles`, an abstract file that an open reads and a close replaces, and
   `Bnfs` shown to implement it where processes take turns.
4. Left: several processes of one client in `SharedFiles`, whose promise is weaker: they
   share one copy, and the next open may clear it under another. The hazards that
   `PROJECT.json` lists without a property.
