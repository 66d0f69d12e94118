----------------------------- MODULE AfsServer -----------------------------
(***************************************************************************)
(* The file server, afs_server.cc: concurrent gRPC handlers over one POSIX *)
(* directory.  PutFile streams an upload into a temporary file next to its *)
(* target, under the server's only mutex, and renames it into place; Open  *)
(* streams a file out chunk by chunk, or creates it; Unlink, Rename, Mkdir *)
(* and Rmdir are one system call each.  GetAttr, ReadDir and Access change *)
(* nothing; what clients do with a GetAttr reply is in Bnfs.               *)
(*                                                                         *)
(* A call is used once.  The inode a call creates is named by the call, so *)
(* inodes are never reused; the k-th content message of upload u is <<u,k>>*)
(***************************************************************************)
EXTENDS Integers, Sequences

CONSTANTS
  Path,      \* client visible paths
  TempName,  \* values random_string(20) can return
  Put,       \* PutFile calls
  Get,       \* Open calls
  Chunks,    \* content messages of every upload
  MaxNow,    \* bound of the clock, in seconds
  Lossy,     \* may a client or its connection vanish in the middle of a call?
  Dir,       \* what a directory entry for a directory holds
  None       \* no inode, no owner, no path

Call == Put \cup Get
Temp == Path \X TempName           \* cache_path + random_string(20)
Name == Path \cup Temp

Part(u, n) == [i \in 1..n |-> <<u, i>>]     \* the first n messages of u
Version == {<<>>} \cup {Part(u, n) : u \in Put, n \in 0..Chunks}

ASSUME AfsServerAssumption ==
  /\ Put \cap Get = {}
  /\ Path \cap Temp = {}
  /\ Chunks \in Nat
  /\ MaxNow \in Nat
  /\ Lossy \in BOOLEAN
  /\ Dir # None
  /\ {Dir, None} \cap Call = {}
  /\ None \notin Path

ASSUME NoneIsNoFile == None \notin [data : Version, mtime : 0..MaxNow]

VARIABLES
  names,    \* directory: name -> inode, Dir or None
  disk,     \* inode -> content and modification time
  lock,     \* holder of FileServerServiceImpl::lock, or None
  pc,       \* where each call is
  path,     \* the path a call is about (None: the first Read failed)
  tmp,      \* the temporary name a PutFile call drew
  file,     \* the inode a call has open
  rcvd,     \* content messages a PutFile call has received
  got,      \* what an Open call has streamed to its client
  now,      \* the clock, in whole seconds
  lastPut   \* when the last PutFile rename happened (no state of the code)

calls == <<pc, path, tmp, file, rcvd, got>>
vars == <<names, disk, lock, calls, now, lastPut>>

\* Mutant: afs_server.cc:245, the line that is commented out.
TempInPlace(u) == path[u]

TempOf(u) == <<path[u], tmp[u]>>
IsFile(n) == names[n] \in Call

Receiving == {"recv", "closed", "renamed"}  \* holds the mutex
Running == {"named", "unlocked", "absent", "read"} \cup Receiving
Finished == {"done", "lost", "stuck", "aborted"}

\* Every write, creation and truncation stamps the file.
Written(i, d) == [disk EXCEPT ![i] = [data |-> d, mtime |-> now]]

Init ==
  /\ names = [n \in Name |-> None]
  /\ disk = [c \in Call |-> [data |-> <<>>, mtime |-> 0]]
  /\ lock = None
  /\ pc = [c \in Call |-> "idle"]
  /\ path = [c \in Call |-> None]
  /\ tmp \in [Put -> TempName]
  /\ file = [c \in Call |-> None]
  /\ rcvd = [u \in Put |-> 0]
  /\ got = [g \in Get |-> <<>>]
  /\ now = 0
  /\ lastPut = 0

----------------------------------------------------------------------------
(* PutFile                                                                 *)

\* The first Read returns the path, or fails and leaves all names empty.
PutBegin(u, p) ==
  /\ pc[u] = "idle"
  /\ p = None => Lossy
  /\ pc' = [pc EXCEPT ![u] = "named"]
  /\ path' = [path EXCEPT ![u] = p]
  /\ UNCHANGED <<names, disk, lock, tmp, file, rcvd, got, now, lastPut>>

\* Open the temporary file with ios::trunc; the empty name cannot be opened.
OpenTemp(u) ==
  IF path[u] = None
  THEN UNCHANGED <<names, disk, file>>
  ELSE LET i == IF IsFile(TempOf(u)) THEN names[TempOf(u)] ELSE u
       IN  /\ names' = [names EXCEPT ![TempOf(u)] = i]
           /\ disk' = Written(i, <<>>)
           /\ file' = [file EXCEPT ![u] = i]

\* Mutant: no pthread_mutex_lock.
PutLockWithoutWaiting(u) ==
  /\ pc[u] = "named"
  /\ lock' = u
  /\ pc' = [pc EXCEPT ![u] = "recv"]
  /\ OpenTemp(u)
  /\ UNCHANGED <<path, tmp, rcvd, got, now, lastPut>>

PutLock(u) ==
  /\ pc[u] = "named"
  /\ lock = None
  /\ lock' = u
  /\ pc' = [pc EXCEPT ![u] = "recv"]
  /\ OpenTemp(u)
  /\ UNCHANGED <<path, tmp, rcvd, got, now, lastPut>>

PutRecv(u) ==
  /\ pc[u] = "recv"
  /\ file[u] # None
  /\ rcvd[u] < Chunks
  /\ rcvd' = [rcvd EXCEPT ![u] = @ + 1]
  /\ disk' = Written(file[u], Append(disk[file[u]].data, <<u, rcvd[u] + 1>>))
  /\ UNCHANGED <<names, lock, pc, path, tmp, file, got, now, lastPut>>

\* Mutant: the time of the last write is rounded up to a whole second.
PutEofRoundsUp(u) ==
  /\ pc[u] = "recv"
  /\ rcvd[u] = Chunks \/ Lossy
  /\ pc' = [pc EXCEPT ![u] = "closed"]
  /\ file[u] # None /\ disk' = [disk EXCEPT ![file[u]].mtime = now + 1]
  /\ UNCHANGED <<names, lock, path, tmp, file, rcvd, got, now, lastPut>>

\* Read returns false at the end of the stream and when the stream breaks;
\* close may write a buffered tail, at the current second.
PutEof(u) ==
  /\ pc[u] = "recv"
  /\ rcvd[u] = Chunks \/ Lossy
  /\ pc' = [pc EXCEPT ![u] = "closed"]
  /\ \/ UNCHANGED disk
     \/ file[u] # None /\ disk' = Written(file[u], disk[file[u]].data)
  /\ UNCHANGED <<names, lock, path, tmp, file, rcvd, got, now, lastPut>>

CanReplace(u) ==
  path[u] # None /\ IsFile(TempOf(u)) /\ names[path[u]] # Dir

\* Mutant: the file is linked into place, its temporary name stays.
PutLinks(u) ==
  /\ pc[u] = "closed"
  /\ CanReplace(u)
  /\ pc' = [pc EXCEPT ![u] = "renamed"]
  /\ names' = [names EXCEPT ![path[u]] = names[TempOf(u)]]
  /\ lastPut' = now
  /\ UNCHANGED <<disk, lock, path, tmp, file, rcvd, got, now>>

PutRename(u) ==
  /\ pc[u] = "closed"
  /\ CanReplace(u)
  /\ pc' = [pc EXCEPT ![u] = "renamed"]
  /\ names' = [names EXCEPT ![path[u]] = names[TempOf(u)], ![TempOf(u)] = None]
  /\ lastPut' = now
  /\ UNCHANGED <<disk, lock, path, tmp, file, rcvd, got, now>>

\* The handler returns CANCELLED and keeps the mutex.
PutRenameFails(u) ==
  /\ pc[u] = "closed"
  /\ ~CanReplace(u)
  /\ pc' = [pc EXCEPT ![u] = "stuck"]
  /\ UNCHANGED <<names, disk, lock, path, tmp, file, rcvd, got, now, lastPut>>

\* Mutant: no pthread_mutex_unlock.
PutUnlockForgotten(u) ==
  /\ pc[u] = "renamed"
  /\ pc' = [pc EXCEPT ![u] = "unlocked"]
  /\ UNCHANGED <<names, disk, lock, path, tmp, file, rcvd, got, now, lastPut>>

PutUnlock(u) ==
  /\ pc[u] = "renamed"
  /\ pc' = [pc EXCEPT ![u] = "unlocked"]
  /\ lock' = None
  /\ UNCHANGED <<names, disk, path, tmp, file, rcvd, got, now, lastPut>>

\* lstat of whatever is at the path by now; CANCELLED when nothing is.
PutReply(u) ==
  /\ pc[u] = "unlocked"
  /\ pc' = [pc EXCEPT ![u] = IF names[path[u]] = None THEN "lost" ELSE "done"]
  /\ UNCHANGED <<names, disk, lock, path, tmp, file, rcvd, got, now, lastPut>>

----------------------------------------------------------------------------
(* Open                                                                    *)

\* The ifstream opens, or not; a directory opens but reads nothing.
GetBegin(g, p, isCreate) ==
  /\ pc[g] = "idle"
  /\ path' = [path EXCEPT ![g] = p]
  /\ file' = [file EXCEPT ![g] = IF IsFile(p) THEN names[p] ELSE None]
  /\ pc' = [pc EXCEPT ![g] =
              CASE IsFile(p) -> "read"
                [] names[p] = None /\ isCreate -> "absent"
                [] OTHER -> "done"]
  /\ UNCHANGED <<names, disk, lock, tmp, rcvd, got, now, lastPut>>

\* open(path, flags, 0777) with O_CREAT: the file may exist by now.
GetCreate(g, trunc) ==
  /\ pc[g] = "absent"
  /\ pc' = [pc EXCEPT ![g] = "done"]
  /\ \/ /\ names[path[g]] = None
        /\ names' = [names EXCEPT ![path[g]] = g]
        /\ disk' = Written(g, <<>>)
     \/ /\ IsFile(path[g]) /\ trunc
        /\ disk' = Written(names[path[g]], <<>>)
        /\ UNCHANGED names
     \/ /\ names[path[g]] = Dir \/ (IsFile(path[g]) /\ ~trunc)
        /\ UNCHANGED <<names, disk>>
  /\ UNCHANGED <<lock, path, tmp, file, rcvd, got, now, lastPut>>

GetChunk(g) ==
  /\ pc[g] = "read"
  /\ Len(got[g]) < Len(disk[file[g]].data)
  /\ got' = [got EXCEPT ![g] = Append(@, disk[file[g]].data[Len(@) + 1])]
  /\ UNCHANGED <<names, disk, lock, pc, path, tmp, file, rcvd, now, lastPut>>

GetEof(g) ==
  /\ pc[g] = "read"
  /\ Len(got[g]) >= Len(disk[file[g]].data)
  /\ pc' = [pc EXCEPT ![g] = "done"]
  /\ UNCHANGED <<names, disk, lock, path, tmp, file, rcvd, got, now, lastPut>>

\* Write fails: the client is gone.
GetCut(g) ==
  /\ Lossy
  /\ pc[g] = "read"
  /\ pc' = [pc EXCEPT ![g] = "aborted"]
  /\ UNCHANGED <<names, disk, lock, path, tmp, file, rcvd, got, now, lastPut>>

----------------------------------------------------------------------------
(* The handlers that are one system call; a call that fails changes        *)
(* nothing and is left out.                                                *)

Unlink(p) ==
  /\ IsFile(p)
  /\ names' = [names EXCEPT ![p] = None]
  /\ UNCHANGED <<disk, lock, calls, now, lastPut>>

\* A file replaces a file, a directory an empty directory (all are empty:
\* Path is flat).
Rename(p, q) ==
  /\ p # q
  /\ \/ IsFile(p) /\ names[q] # Dir
     \/ names[p] = Dir /\ ~IsFile(q)
  /\ names' = [names EXCEPT ![q] = names[p], ![p] = None]
  /\ UNCHANGED <<disk, lock, calls, now, lastPut>>

Mkdir(p) ==
  /\ names[p] = None
  /\ names' = [names EXCEPT ![p] = Dir]
  /\ UNCHANGED <<disk, lock, calls, now, lastPut>>

Rmdir(p) ==
  /\ names[p] = Dir
  /\ names' = [names EXCEPT ![p] = None]
  /\ UNCHANGED <<disk, lock, calls, now, lastPut>>

\* The process dies and is started again: a new mutex, no call survives,
\* the directory is as it was.
Crash ==
  /\ lock # None \/ \E c \in Call : pc[c] \in Running
  /\ lock' = None
  /\ pc' = [c \in Call |-> IF pc[c] \in Running THEN "aborted" ELSE pc[c]]
  /\ UNCHANGED <<names, disk, path, tmp, file, rcvd, got, now, lastPut>>

Tick ==
  /\ now < MaxNow
  /\ now' = now + 1
  /\ UNCHANGED <<names, disk, lock, calls, lastPut>>

PutStep(u) ==
  \/ PutLock(u) \/ PutRecv(u) \/ PutEof(u) \/ PutRename(u)
  \/ PutRenameFails(u) \/ PutUnlock(u) \/ PutReply(u)

GetStep(g) ==
  \/ \E trunc \in BOOLEAN : GetCreate(g, trunc)
  \/ GetChunk(g) \/ GetEof(g) \/ GetCut(g)

Next ==
  \/ \E u \in Put : PutStep(u) \/ \E p \in Path \cup {None} : PutBegin(u, p)
  \/ \E g \in Get :
       \/ GetStep(g)
       \/ \E p \in Path, isCreate \in BOOLEAN : GetBegin(g, p, isCreate)
  \/ \E p \in Path :
       \/ Unlink(p) \/ Mkdir(p) \/ Rmdir(p)
       \/ \E q \in Path : Rename(p, q)
  \/ Crash
  \/ Tick

Spec == Init /\ [][Next]_vars

\* A handler that can run does; a client that is streaming sends the next
\* message, ends the stream or is found gone.
FairSpec == Spec /\ \A u \in Put : WF_vars(PutStep(u))

----------------------------------------------------------------------------
(* Properties                                                              *)

TypeOK ==
  /\ names \in [Name -> Call \cup {Dir, None}]
  /\ disk \in [Call -> [data : Seq(Put \X (1..Chunks)), mtime : 0..MaxNow]]
  /\ lock \in Put \cup {None}
  /\ pc \in [Call -> Running \cup Finished \cup {"idle"}]
  /\ path \in [Call -> Path \cup {None}]
  /\ tmp \in [Put -> TempName]
  /\ file \in [Call -> Call \cup {None}]
  /\ rcvd \in [Put -> 0..Chunks]
  /\ got \in [Get -> Seq(Put \X (1..Chunks))]
  /\ now \in 0..MaxNow
  /\ lastPut \in 0..now
  /\ \A c \in Call : disk[c].mtime <= now

\* Whatever PutFile calls do to temporary files, even under equal names and
\* after a crash left an old one behind, the file at a path holds messages
\* of a single upload, from its first one on, in order.
OneUpload == \A p \in Path : IsFile(p) => disk[names[p]].data \in Version

\* An Open call streams out one version of the file, although uploads,
\* renames and truncations go on while it reads.
ReadsOneVersion == \A g \in Get : got[g] \in Version

\* The mutex is held by the call that is receiving, or by one whose rename
\* failed, and by nobody else.
LockOwned ==
  /\ \A u \in Put : pc[u] \in Receiving => lock = u
  /\ lock # None => pc[lock] \in Receiving \cup {"stuck"}

\* A temporary file is left behind only by a crash or by a failed rename.
NoStrayTemp ==
  \A n \in Temp : names[n] # None =>
    \E u \in Put : TempOf(u) = n /\ pc[u] \in {"recv", "closed", "stuck", "aborted"}

\* The file a PutFile publishes was last written no earlier than the second
\* of the PutFile before it: the times that clients compare follow the order
\* in which files were published.
PutTimesOrdered ==
  [][\A u \in Put : pc[u] = "closed" /\ pc'[u] = "renamed"
                      => disk[names'[path[u]]].mtime >= lastPut]_vars

\* To its clients the server is a FileStore: every step changes one path in
\* one of the ways FileStore allows, or nothing.
Shown == [p \in Path |-> IF IsFile(p) THEN disk[names[p]] ELSE None]
Store == INSTANCE FileStore WITH
  store <- Shown, Data <- Version, EmptyData <- <<>>, NoFile <- None
ImplementsStore == Store!Spec

\* A PutFile that waits for the mutex is served, unless a failed rename has
\* taken the mutex away for good.
Leaked == lock # None /\ pc[lock] = "stuck"
Served == \A u \in Put : pc[u] = "named" ~> (pc[u] \in Finished \/ Leaked)

\* README.md:5 "Atomic writes on server": a file shows a whole upload or is
\* empty.
AtomicWrites ==
  \A p \in Path : IsFile(p) =>
    \/ disk[names[p]].data = <<>>
    \/ \E u \in Put : disk[names[p]].data = Part(u, Chunks)

\* README.md:8 "Retry based recovery for clients. No state on server": a
\* PutFile that failed leaves nothing behind that keeps a retry from an answer.
RetryAnswered == \A u \in Put : pc[u] = "named" ~> pc[u] \in Finished
============================================================================
