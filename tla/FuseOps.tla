------------------------------ MODULE FuseOps ------------------------------
(***************************************************************************)
(* One client process: the operations of unreliablefs_ops.c, the threads   *)
(* of libfuse that run them, the descriptors they share and the thread     *)
(* that executes the reordering queue.  Bnfs follows contents and times    *)
(* over several clients; here a file is only there or not, and what counts *)
(* is which descriptor refers to it, what every operation answers, and     *)
(* what becomes of an operation that error injection skips, refuses or     *)
(* queues (Act of ErrInject).  Other clients change the server at any time *)
(* and modes are not kept, so that an RPC, and an open of a temp file, may *)
(* always fail.                                                            *)
(*                                                                         *)
(* A step is one RPC, one system call that keeps a descriptor, or one loop *)
(* over the queue.  Descriptors that a step opens and closes again only    *)
(* need a free slot.                                                       *)
(***************************************************************************)
EXTENDS Integers, SequencesExt

CONSTANTS
  Thread,      \* threads of libfuse, each with at most one open file
  Path,        \* paths below the mount
  MaxFd,       \* the largest descriptor the process may use
  Injects,     \* configurations: what error_inject may make of each operation
  MaxTickets,  \* bound on the operations queued
  None

Fd == 0..MaxFd
Std == {0}     \* standard descriptors; 0 is also fi->fh of an open that was skipped
NoFd == -1
Kinds == {"free", "std", "cache", "gone", "dir"}
Op == {"open", "read", "write", "flush", "release", "other"}

ASSUME FuseOpsAssumption ==
  /\ MaxFd \in Nat \ {0} /\ MaxTickets \in Nat
  /\ Injects \subseteq [Op -> SUBSET {"done", "skipped", "refused", "queued"}]
  /\ Path \cap Kinds = {} /\ None \notin Path

VARIABLES
  inject,   \* the configuration of error injection, read at the start
  fdt,      \* fdt[n]: what descriptor n refers to; a path is its file in temp
  temp,     \* paths with a file in the temp directory
  cached,   \* paths with a file in the cache directory
  dirty,    \* CacheHelper::dirty_files
  hand,     \* hand[t]: the open file of t, path and fi->fh
  call,     \* call[t]: the operation t is in
  ebadf,    \* did the last operation to end answer EBADF?
  queue,    \* op_queue
  poll,     \* the polling thread
  tickets,  \* operations put into the queue (no state of the code)
  ran,      \* tickets the polling thread has executed (no state of the code)
  raced,    \* was the queue shuffled under the polling thread? (same)
  half      \* has a rename happened on one side only? (same)

files == <<temp, cached, dirty>>
queued == <<inject, queue, poll, tickets, ran, raced>>
vars == <<fdt, files, hand, call, ebadf, queued, half>>

Closed == [path |-> None, fh |-> NoFd]
Idle == [pc |-> "idle", path |-> None, creat |-> FALSE, cfd |-> NoFd, tfd |-> NoFd, vec |-> <<>>]
Asleep == [pc |-> "sleep", head |-> None]

Init ==
  /\ inject \in Injects
  /\ fdt = [n \in Fd |-> IF n \in Std THEN "std" ELSE "free"]
  /\ temp = {}
  /\ cached \in SUBSET Path
  /\ dirty = {}
  /\ hand = [t \in Thread |-> Closed]
  /\ call = [t \in Thread |-> Idle]
  /\ ebadf = FALSE
  /\ queue = <<>> /\ poll = Asleep
  /\ tickets = 0 /\ ran = {} /\ raced = FALSE
  /\ half = FALSE

----------------------------------------------------------------------------
(* Descriptors, files and calls                                            *)

Unused == {n \in Fd : fdt[n] = "free"}
Full == Unused = {}

\* POSIX: the lowest free number.
Gets(n) == n \in Unused /\ \A m \in Unused : n <= m

\* The descriptors t is responsible for.
Held(t) == {hand[t].fh, call[t].cfd, call[t].tfd} \ {NoFd}

Close(f, S) == [n \in Fd |-> IF n \in S THEN "free" ELSE f[n]]

\* remove: who has the file open keeps a nameless one.
Nameless(f, p) == [n \in Fd |-> IF f[n] = p THEN "gone" ELSE f[n]]

\* CacheHelper::deleteFromTemp.
DropTemp(p) ==
  /\ temp' = temp \ {p}
  /\ dirty' = dirty \ {p}

\* Making a file, and closing it at once, needs a descriptor.
Made(dir, p) == IF Full THEN dir ELSE dir \cup {p}

Ready(t) == call[t].pc = "idle"
At(t, l) == call[t].pc = l
Goto(t, l) == call' = [call EXCEPT ![t].pc = l]
\* Of the answers the properties only tell EBADF apart.
Answer(a) == ebadf' = (a = "badf")
Ends(t, a) == call' = [call EXCEPT ![t] = Idle] /\ Answer(a)

\* error_inject returned 0.
Done(op) == "done" \in inject[op]

\* libfuse keeps rename and unlink of a path apart from other calls on it,
\* and hides a file in use instead of removing it.
InCall(p) == \E t \in Thread : call[t].path = p
InUse(p) == InCall(p) \/ \E t \in Thread : hand[t].path = p

----------------------------------------------------------------------------
(* open and create                                                         *)

\* getOpenFlags, the GetAttr RPC: code 3 for a create the server has no file
\* for; an RPC that fails answers 0 all the same.
AfterGetAttr(creat) == IF creat THEN {"look", "make"} ELSE {"look"}

\* The kernel calls create for a path it found nowhere.  A skipped open
\* answers 0 and leaves fi->fh as libfuse made it: 0.
Open(t, p, creat) ==
  /\ Ready(t) /\ hand[t] = Closed
  /\ \/ /\ Done("open")
        /\ \E l \in AfterGetAttr(creat) :
             call' = [call EXCEPT ![t] = [Idle EXCEPT !.pc = l, !.path = p, !.creat = creat]]
        /\ UNCHANGED <<hand, ebadf>>
     \/ /\ "skipped" \in inject["open"]
        /\ hand' = [hand EXCEPT ![t] = [path |-> p, fh |-> 0]]
        /\ Answer("ok") /\ UNCHANGED call
     \/ "refused" \in inject["open"] /\ Answer("fail") /\ UNCHANGED <<hand, call>>
  /\ UNCHANGED <<fdt, files, queued, half>>

\* isPresentInCache opens the file in the cache directory, ...
LookInCache(t) ==
  /\ At(t, "look")
  /\ \/ /\ call[t].path \in cached
        /\ \E n \in Fd :
             /\ Gets(n)
             /\ fdt' = [fdt EXCEPT ![n] = "cache"]
             /\ call' = [call EXCEPT ![t].pc = "lookTemp", ![t].cfd = n]
     \/ (call[t].path \notin cached \/ Full) /\ Goto(t, "lookTemp") /\ UNCHANGED fdt
  /\ UNCHANGED <<files, hand, ebadf, queued, half>>

\* ... isPresentInTemp the one in temp.
LookInTemp(t) ==
  /\ At(t, "lookTemp")
  /\ \/ /\ call[t].path \in temp
        /\ \E n \in Fd :
             /\ Gets(n)
             /\ fdt' = [fdt EXCEPT ![n] = call[t].path]
             /\ call' = [call EXCEPT ![t].pc = "decide", ![t].tfd = n]
     \/ Goto(t, "decide") /\ UNCHANGED fdt
  /\ UNCHANGED <<files, hand, ebadf, queued, half>>

\* A mutant that closes the temp file only.
DecideKeepsCache(t) ==
  /\ At(t, "decide")
  /\ \E l \in IF call[t].tfd > 0 THEN {"fetch", "open"} ELSE {"fetch"} :
       call' = [call EXCEPT ![t].pc = l, ![t].cfd = NoFd, ![t].tfd = NoFd]
  /\ fdt' = Close(fdt, {call[t].tfd})
  /\ UNCHANGED <<files, hand, ebadf, queued, half>>

\* The rest of getOpenFlags: close both (a cache file with descriptor 0 is
\* kept) and compare times if temp has a copy.  Code 4 is never returned:
\* without a copy in temp outOfDate stays true.
Decide(t) ==
  /\ At(t, "decide")
  /\ \E l \in IF call[t].tfd > 0 THEN {"fetch", "open"} ELSE {"fetch"} :
       call' = [call EXCEPT ![t].pc = l, ![t].cfd = NoFd, ![t].tfd = NoFd]
  /\ fdt' = Close(fdt, {call[t].tfd} \cup ({call[t].cfd} \ {0}))
  /\ UNCHANGED <<files, hand, ebadf, queued, half>>

\* fetchAndSyncServerFile: the RPC, whose failure is ignored, and
\* writeFileToCache, ...
Fetch(t) ==
  /\ At(t, "fetch")
  /\ \/ Goto(t, "open") /\ UNCHANGED cached
     \/ Goto(t, "fill") /\ cached' = Made(cached, call[t].path)
  /\ UNCHANGED <<fdt, temp, dirty, hand, ebadf, queued, half>>

\* ... then writeFileToTemp.
Fill(t) ==
  /\ At(t, "fill")
  /\ temp' = Made(temp, call[t].path)
  /\ Goto(t, "open")
  /\ UNCHANGED <<fdt, cached, dirty, hand, ebadf, queued, half>>

\* Open, code 3: an empty file in temp, ...
MakeTemp(t) ==
  /\ At(t, "make")
  /\ temp' = Made(temp, call[t].path)
  /\ Goto(t, "makeCache")
  /\ UNCHANGED <<fdt, cached, dirty, hand, ebadf, queued, half>>

\* ... one in the cache, and the mark, made or not.
MakeCache(t) ==
  /\ At(t, "makeCache")
  /\ cached' = Made(cached, call[t].path)
  /\ dirty' = dirty \cup {call[t].path}
  /\ Goto(t, "create")
  /\ UNCHANGED <<fdt, temp, hand, ebadf, queued, half>>

\* createOnServer: an RPC whose failure is ignored.
CreateOnServer(t) ==
  /\ At(t, "create")
  /\ Goto(t, "open")
  /\ UNCHANGED <<fdt, files, hand, ebadf, queued, half>>

\* A mutant that takes the cache path for the temp path.
OpenCacheFile(t) ==
  LET p == call[t].path IN
  /\ At(t, "open")
  /\ \E n \in Fd :
       /\ Gets(n)
       /\ fdt' = [fdt EXCEPT ![n] = "cache"]
       /\ hand' = [hand EXCEPT ![t] = [path |-> p, fh |-> n]]
  /\ Ends(t, "ok")
  /\ UNCHANGED <<files, queued, half>>

\* The last lines of Open.  create has O_CREAT in its flags; a failed open
\* drops file and mark.
OpenTemp(t) ==
  LET p == call[t].path IN
  /\ At(t, "open")
  /\ \/ /\ p \in temp \/ call[t].creat
        /\ \E n \in Fd :
             /\ Gets(n)
             /\ fdt' = [fdt EXCEPT ![n] = p]
             /\ hand' = [hand EXCEPT ![t] = [path |-> p, fh |-> n]]
        /\ temp' = temp \cup {p}
        /\ Ends(t, "ok") /\ UNCHANGED dirty
     \/ /\ DropTemp(p) /\ fdt' = Nameless(fdt, p)
        /\ Ends(t, "fail") /\ UNCHANGED hand
  /\ UNCHANGED <<cached, queued, half>>

----------------------------------------------------------------------------
(* Operations on an open file                                              *)

Rest(t) == Ready(t) /\ hand[t] # Closed

\* What a system call on fi->fh answers: EBADF if it is closed.
OnHandle(t) ==
  \E a \in IF fdt[hand[t].fh] = "free" THEN {"badf"} ELSE {"ok", "fail"} : Answer(a)

\* read: pread.  libfuse always gives a file, and a skipped open looks like
\* one with descriptor 0.
Read(t) ==
  /\ Rest(t) /\ Done("read") /\ OnHandle(t)
  /\ UNCHANGED <<fdt, files, hand, call, queued, half>>

\* fsync.
Fsync(t) ==
  /\ Rest(t) /\ Done("other") /\ OnHandle(t)
  /\ UNCHANGED <<fdt, files, hand, call, queued, half>>

\* fgetattr, lock, ioctl and flock.
Control(t) ==
  /\ Rest(t) /\ Done("other") /\ OnHandle(t)
  /\ UNCHANGED <<fdt, files, hand, call, queued, half>>

\* fallocate: no modes; it changes the file and marks nothing.
Fallocate(t) ==
  /\ Rest(t) /\ Done("other")
  /\ OnHandle(t) \/ Answer("fail")
  /\ UNCHANGED <<fdt, files, hand, call, queued, half>>

\* write: pwrite and, whatever it returned, Cache_markFileDirty.
Write(t) ==
  /\ Rest(t) /\ Done("write") /\ OnHandle(t)
  /\ dirty' = dirty \cup {hand[t].path}
  /\ UNCHANGED <<fdt, temp, cached, hand, call, queued, half>>

\* A mutant that counts the codes from 0.
CodeFromZero(op) == IF op = "write" THEN 1 ELSE 0

\* The code an operation is queued with.
Code(op) == IF op = "write" THEN 2 ELSE 1

\* write and flush, ERR_INSERT_TO_QUEUE: addToQueue, then shuffleQueue, and
\* the answer is that all is done.  The entry points to memory of the call.
Enqueue(t, op) ==
  /\ Rest(t) /\ "queued" \in inject[op]
  /\ tickets < MaxTickets
  /\ tickets' = tickets + 1
  /\ queue' = Append(queue, [id |-> tickets + 1, op |-> op, code |-> Code(op)])
  /\ Goto(t, "shuffle")
  /\ UNCHANGED <<inject, fdt, files, hand, ebadf, poll, ran, raced, half>>

\* A mutant that closes the descriptor itself, not a duplicate.
FlushCloses(t) ==
  /\ Rest(t) /\ Done("flush")
  /\ fdt[hand[t].fh] # "free"
  /\ fdt' = Close(fdt, {hand[t].fh})
  /\ call' = [call EXCEPT ![t].pc = "upload", ![t].path = hand[t].path]
  /\ UNCHANGED <<files, hand, ebadf, queued, half>>

\* flush: close(dup(fi->fh)), which at the descriptor limit is close(-1).
Flush(t) ==
  /\ Rest(t) /\ Done("flush")
  /\ IF fdt[hand[t].fh] = "free" \/ Full
     THEN Answer("badf") /\ UNCHANGED call
     ELSE call' = [call EXCEPT ![t].pc = "upload", ![t].path = hand[t].path] /\ UNCHANGED ebadf
  /\ UNCHANGED <<fdt, files, hand, queued, half>>

\* AFSClient::Flush opens the temp file and goes on if it is marked.
Upload(t) ==
  LET p == call[t].path IN
  /\ At(t, "upload")
  /\ \/ /\ p \in temp \cap dirty
        /\ \E n \in Fd :
             /\ Gets(n)
             /\ fdt' = [fdt EXCEPT ![n] = p]
             /\ call' = [call EXCEPT ![t].pc = "put", ![t].tfd = n]
        /\ UNCHANGED ebadf
     \/ Ends(t, "ok") /\ UNCHANGED fdt
  /\ UNCHANGED <<files, hand, queued, half>>

\* commitToCache: open, cp and the end of the mark; any of them may fail.
Commit(p) ==
  \/ /\ p \in temp /\ ~Full
     /\ cached' = cached \cup {p}
     /\ dirty' = dirty \ {p}
  \/ UNCHANGED <<cached, dirty>>

\* A mutant that closes the file of the process with the upload's own.
PutClosesHandle(t) ==
  /\ At(t, "put")
  /\ fdt' = Close(fdt, {call[t].tfd, hand[t].fh})
  /\ Commit(call[t].path)
  /\ Ends(t, "ok")
  /\ UNCHANGED <<temp, hand, queued, half>>

\* The PutFile RPC: acknowledged; or failed, with the file thrown away when
\* not even its name could be sent.  flush answers 0 in any case.
Put(t) ==
  LET p == call[t].path  closed == Close(fdt, {call[t].tfd}) IN
  /\ At(t, "put")
  /\ \/ fdt' = closed /\ Commit(p) /\ UNCHANGED temp
     \/ fdt' = Nameless(closed, p) /\ DropTemp(p) /\ UNCHANGED cached
  /\ Ends(t, "ok")
  /\ UNCHANGED <<hand, queued, half>>

\* release: the kernel drops the file whatever is answered; without the
\* close its descriptor stays.
Release(t) ==
  LET fh == hand[t].fh IN
  /\ Rest(t)
  /\ hand' = [hand EXCEPT ![t] = Closed]
  /\ \/ /\ Done("release")
        /\ Answer(IF fdt[fh] = "free" THEN "badf" ELSE "ok")
        /\ fdt' = Close(fdt, {fh})
     \/ "skipped" \in inject["release"] /\ Answer("ok") /\ UNCHANGED fdt
     \/ "refused" \in inject["release"] /\ Answer("fail") /\ UNCHANGED fdt
  /\ UNCHANGED <<files, call, queued, half>>

----------------------------------------------------------------------------
(* Operations on paths                                                     *)

Free(t) == Ready(t) /\ Done("other")

\* mknod makes the temp file and tells nobody.
Mknod(t, p) ==
  /\ Free(t)
  /\ \/ p \notin temp /\ temp' = temp \cup {p} /\ Answer("ok")
     \/ Answer("fail") /\ UNCHANGED temp
  /\ UNCHANGED <<fdt, cached, dirty, hand, call, queued, half>>

\* The operations that look at the temp file or change what only it has, a
\* length included, and mark nothing.
OnTemp(t, p) ==
  /\ Free(t)
  /\ (p \in temp /\ Answer("ok")) \/ Answer("fail")
  /\ UNCHANGED <<fdt, files, hand, call, queued, half>>

Chmod(t, p) == OnTemp(t, p)
Chown(t, p) == OnTemp(t, p)
Truncate(t, p) == OnTemp(t, p)
Statfs(t, p) == OnTemp(t, p)
Xattr(t, p) == OnTemp(t, p)

\* The ones that take the path as it is, in the client's own tree, which
\* nothing else here reads.
Literal(t) ==
  /\ Free(t)
  /\ \E a \in {"ok", "fail"} : Answer(a)
  /\ UNCHANGED <<fdt, files, hand, call, queued, half>>

Readlink(t) == Literal(t)
Symlink(t) == Literal(t)
Link(t) == Literal(t)
Ftruncate(t) == hand[t] # Closed /\ Literal(t)

\* fsyncdir opens the directory in that tree; after a failed fsync it returns
\* without closing it.
Fsyncdir(t) ==
  /\ Free(t)
  /\ Answer("fail")
  /\ \E n \in Fd : Gets(n) /\ fdt' = [fdt EXCEPT ![n] = "dir"]
  /\ UNCHANGED <<files, hand, call, queued, half>>

FsyncdirCloses(t) == Literal(t)

\* opendir and utimens do nothing; releasedir closes the directory opendir
\* did not open.
Opendir(t) == Free(t) /\ Answer("ok") /\ UNCHANGED <<fdt, files, hand, call, queued, half>>
Utimens(t) == Opendir(t)
Releasedir(t) == Free(t) /\ Answer("fail") /\ UNCHANGED <<fdt, files, hand, call, queued, half>>

\* The reply to an RPC; the client finds no error in one that never came.
\* "eperm" is -1, which readdir takes for the only error.
Replies == {"none", "eperm", "another", "lost"}
ErrorCode(reply) == IF reply = "lost" THEN "none" ELSE reply

\* The ones that only ask the server and hand on an error, ...
Asks(t) ==
  /\ Free(t)
  /\ \E r \in Replies : Answer(IF ErrorCode(r) = "none" THEN "ok" ELSE "fail")
  /\ UNCHANGED <<fdt, files, hand, call, queued, half>>

Getattr(t) == Asks(t)
Access(t) == Asks(t)
Mkdir(t) == Asks(t)
Rmdir(t) == Asks(t)

\* ... and readdir, which hands on one error only: after another error the directory
\* looks empty.
Readdir(t) ==
  /\ Free(t)
  /\ \E r \in Replies : Answer(IF ErrorCode(r) = "eperm" THEN "fail" ELSE "ok")
  /\ UNCHANGED <<fdt, files, hand, call, queued, half>>

\* unlink: deleteFromTemp, then the RPC.
Unlink(t, p) ==
  /\ Free(t) /\ ~InUse(p)
  /\ DropTemp(p) /\ fdt' = Nameless(fdt, p)
  /\ \E a \in {"ok", "fail"} : Answer(a)
  /\ UNCHANGED <<cached, hand, call, queued, half>>

\* After a rename that answered 0 libfuse calls the file by its new path.
Renamed(h, p, q) ==
  [t \in Thread |-> IF h[t].path = p THEN [h[t] EXCEPT !.path = q] ELSE h[t]]

\* rename, when the cache does not have the file or there is no descriptor to
\* look: only the server renames.
RenameRemote(t, p, q) ==
  /\ p \notin cached \/ Full
  /\ \/ hand' = Renamed(hand, p, q) /\ half' = (half \/ p \in temp) /\ Answer("ok")
     \/ Answer("fail") /\ UNCHANGED <<hand, half>>
  /\ UNCHANGED <<fdt, temp, dirty>>

\* Without a temp file rename(2) fails, and the early return forgets the
\* descriptor of the cache file.
RenameFails(t, p, q) ==
  /\ p \in cached \ temp
  /\ \E n \in Fd : Gets(n) /\ fdt' = [fdt EXCEPT ![n] = "cache"]
  /\ Answer("fail")
  /\ UNCHANGED <<temp, dirty, hand, half>>

\* Otherwise the temp file moves, the mark is copied, the descriptor closed
\* and the server asked.
RenameBoth(t, p, q) ==
  /\ p \in cached \cap temp /\ ~Full
  /\ temp' = (temp \ {p}) \cup {q}
  /\ fdt' = [n \in Fd |-> IF fdt[n] = p THEN q ELSE Nameless(fdt, q)[n]]
  /\ dirty' = IF p \in dirty THEN dirty \cup {q} ELSE dirty
  /\ \/ hand' = Renamed(hand, p, q) /\ Answer("ok") /\ UNCHANGED half
     \/ half' = TRUE /\ Answer("fail") /\ UNCHANGED hand

Rename(t, p, q) ==
  /\ Free(t) /\ p # q
  /\ ~InCall(p) /\ ~InUse(q)
  /\ RenameRemote(t, p, q) \/ RenameFails(t, p, q) \/ RenameBoth(t, p, q)
  /\ UNCHANGED <<cached, call, queued>>

\* error_inject skips or refuses an operation on which nothing else depends;
\* only write and flush know how to be queued.
Injected(t) ==
  /\ Ready(t)
  /\ \E op \in Op \ {"open", "release"} :
       \/ "skipped" \in inject[op] /\ Answer("ok")
       \/ "refused" \in inject[op] /\ Answer("fail")
       \/ op \notin {"write", "flush"} /\ "queued" \in inject[op] /\ Answer("fail")
  /\ UNCHANGED <<fdt, files, hand, call, queued, half>>

----------------------------------------------------------------------------
(* The reordering queue.  Nothing locks it: the loops of shuffleQueue and  *)
(* the two calls of executeQueueHead are steps of their own.               *)

\* shuffleQueue, the loop that empties the queue into a vector, ...
Drain(t) ==
  /\ At(t, "shuffle")
  /\ IF queue = <<>>
     THEN Ends(t, "ok") /\ UNCHANGED <<queue, raced>>
     ELSE /\ call' = [call EXCEPT ![t].pc = "refill", ![t].vec = queue]
          /\ queue' = <<>>
          /\ raced' = (raced \/ poll.pc = "pop")
          /\ UNCHANGED ebadf
  /\ UNCHANGED <<inject, fdt, files, hand, poll, tickets, ran, half>>

\* ... and the one that fills it again in any order.
Refill(t) ==
  /\ At(t, "refill")
  /\ \E s \in SetToSeqs(ToSet(call[t].vec)) : queue' = queue \o s
  /\ Ends(t, "ok")
  /\ UNCHANGED <<inject, fdt, files, hand, poll, tickets, ran, raced, half>>

\* executeQueueHead: front ...
PollFront ==
  /\ poll.pc = "sleep" /\ queue # <<>>
  /\ poll' = [pc |-> "pop", head |-> Head(queue)]
  /\ UNCHANGED <<inject, fdt, files, hand, call, ebadf, queue, tickets, ran, raced, half>>

\* A mutant that leaves the entry in the queue.
PollPopForgotten ==
  /\ poll.pc = "pop"
  /\ poll' = [poll EXCEPT !.pc = "run"]
  /\ UNCHANGED <<inject, fdt, files, hand, call, ebadf, queue, tickets, ran, raced, half>>

\* ... and pop: an entry of another order if the queue was shuffled in
\* between, and nothing if it is empty (undefined for std::queue).
PollPop ==
  /\ poll.pc = "pop"
  /\ poll' = [poll EXCEPT !.pc = "run"]
  /\ queue' = IF queue = <<>> THEN queue ELSE Tail(queue)
  /\ UNCHANGED <<inject, fdt, files, hand, call, ebadf, tickets, ran, raced, half>>

\* What executeQueueHead does for a code.
Executes(code) == IF code = 1 THEN "write" ELSE "close"

\* The rest of executeQueueHead.  Path and fi of the entry belong to a call
\* that has returned and hold anything: code 1 may open any file, and writes
\* the 0 bytes a flush was queued with; code 2 closes a duplicate of some
\* descriptor, or none.
PollRun ==
  /\ poll.pc = "run"
  /\ ran' = ran \cup {poll.head.id}
  /\ poll' = Asleep
  /\ UNCHANGED <<inject, fdt, files, hand, call, ebadf, queue, tickets, raced, half>>

----------------------------------------------------------------------------
OnFile(t) ==
  \/ Read(t) \/ Fsync(t) \/ Control(t) \/ Fallocate(t) \/ Write(t)
  \/ \E op \in {"write", "flush"} : Enqueue(t, op)
  \/ Drain(t) \/ Refill(t)
  \/ Flush(t) \/ Upload(t) \/ Put(t) \/ Release(t)

Opening(t) ==
  \/ LookInCache(t) \/ LookInTemp(t) \/ Decide(t) \/ Fetch(t) \/ Fill(t)
  \/ MakeTemp(t) \/ MakeCache(t) \/ CreateOnServer(t) \/ OpenTemp(t)

OnPath(t, p) ==
  \/ \E creat \in BOOLEAN : Open(t, p, creat)
  \/ Mknod(t, p) \/ Chmod(t, p) \/ Chown(t, p) \/ Truncate(t, p) \/ Statfs(t, p) \/ Xattr(t, p)
  \/ Unlink(t, p)
  \/ \E q \in Path : Rename(t, p, q)

Elsewhere(t) ==
  \/ Readlink(t) \/ Symlink(t) \/ Link(t) \/ Ftruncate(t)
  \/ Fsyncdir(t) \/ FsyncdirCloses(t) \/ Opendir(t) \/ Utimens(t) \/ Releasedir(t)
  \/ Getattr(t) \/ Access(t) \/ Mkdir(t) \/ Rmdir(t) \/ Readdir(t)
  \/ Injected(t)

Next ==
  \/ \E t \in Thread : OnFile(t) \/ Opening(t) \/ (\E p \in Path : OnPath(t, p)) \/ Elsewhere(t)
  \/ PollFront \/ PollPop \/ PollRun

Spec == Init /\ [][Next]_vars

----------------------------------------------------------------------------
(* Properties                                                              *)

Entry == [id : 1..MaxTickets, op : {"write", "flush"}, code : {1, 2}]

Step == {"idle", "look", "lookTemp", "decide", "fetch", "fill", "make", "makeCache", "create",
         "open", "upload", "put", "shuffle", "refill"}
Call == [pc : Step, path : Path \cup {None}, creat : BOOLEAN, cfd : Fd \cup {NoFd},
         tfd : Fd \cup {NoFd}, vec : Seq(Entry)]

\* Every descriptor refers to something the process opened, and what is queued
\* carries one of the two codes executeQueueHead knows.
FTypeOK ==
  /\ inject \in Injects
  /\ fdt \in [Fd -> Kinds \cup Path]
  /\ temp \subseteq Path /\ cached \subseteq Path /\ dirty \subseteq Path
  /\ hand \in [Thread -> [path : Path, fh : Fd] \cup {Closed}]
  /\ call \in [Thread -> Call]
  /\ ebadf \in BOOLEAN
  /\ queue \in Seq(Entry)
  /\ poll \in [pc : {"pop", "run"}, head : Entry] \cup {Asleep}
  /\ tickets \in 0..MaxTickets /\ ran \subseteq 1..tickets

\* A skipped open gives the file descriptor 0.
OpensAreReal == "skipped" \notin inject["open"]

\* The threads never mix up their descriptors: what one has open nobody else
\* has, nobody closes under it, and no standard descriptor is among them.
\* A descriptor that Open, Flush or the polling thread closed twice or one too
\* many would be given to another thread and break this.
OneOwner ==
  OpensAreReal =>
    \A t \in Thread :
      /\ \A n \in Held(t) : fdt[n] \notin {"free", "std", "dir"}
      /\ \A u \in Thread \ {t} : Held(t) \cap Held(u) = {}

\* What a process reads and writes through an open file is the file of its
\* path, or one that has lost its name, whatever is opened, renamed, removed
\* and refused around it; only a rename on one side only breaks it.
OwnFile ==
  OpensAreReal /\ ~half =>
    \A t \in Thread : hand[t] # Closed => fdt[hand[t].fh] \in {hand[t].path, "gone"}

\* EBADF, the answer of an operation whose descriptor somebody closed, is
\* given only by flush when there is no descriptor left for its dup.
BadOnlyWhenFull ==
  [][OpensAreReal /\ ebadf' => ebadf \/ Full]_vars

\* Descriptors no thread will close any more.
Leaked == {n \in Fd \ Std : fdt[n] # "free"} \ UNION {Held(t) : t \in Thread}

\* A call that ends gives its descriptors back on every path through it,
\* failed RPCs and a full table included.  The three that do not are an
\* fsyncdir whose fsync fails, a rename whose rename(2) fails, and a release
\* that is skipped or refused.
GivesBack ==
  [][Leaked' \subseteq Leaked
     \/ \E t \in Thread :
          \/ Fsyncdir(t)
          \/ \E p, q \in Path : RenameFails(t, p, q)
          \/ hand'[t] = Closed /\ hand[t] # Closed /\ UNCHANGED fdt]_vars

Waiting ==
  (UNION {ToSet(call[t].vec) : t \in Thread})
  \cup ToSet(IF poll.pc = "pop" /\ ~raced THEN Tail(queue) ELSE queue)
  \cup (IF poll = Asleep THEN {} ELSE {poll.head})

\* A queued operation is executed exactly once, however the queue is
\* shuffled, unless a shuffle fell between the front and the pop of the
\* polling thread.
ExecutedOnce ==
  ~raced => LET ids == {e.id : e \in Waiting}
            IN  ids \cap ran = {} /\ ids \cup ran = 1..tickets

\* afs_client.cc:77 "Use 1 for write, 2 for close": what the polling thread
\* executes is what was queued (a flush is a close).
ExecutedAsQueued ==
  poll.pc = "run" => Executes(poll.head.code) = (IF poll.head.op = "write" THEN "write" ELSE "close")
============================================================================
