-------------------------------- MODULE Bnfs --------------------------------
(***************************************************************************)
(* BNFS clients over one server: what unreliablefs_ops.c, afs_client.cc    *)
(* and cache_helper.cc do to a file between open and close.  The server is *)
(* FileStore, which afs_server.cc implements (AfsServerProofs!Refinement); *)
(* a step of a client is one RPC, one system call on the client's temp     *)
(* directory, or one critical section of CacheHelper::lock.                *)
(*                                                                         *)
(* A client keeps a temp directory (emptied when it starts), a persistent  *)
(* cache directory whose contents no code path reads back, so that only    *)
(* the presence of a file in it matters, and the set of dirty paths.       *)
(* Contents are numbers: 0 is the empty file, the n-th write of the run    *)
(* leaves content n.  A file is read and written as a whole.               *)
(***************************************************************************)
EXTENDS FileStore, FiniteSets

CONSTANTS
  Client,     \* mounted clients
  Thread,     \* application processes
  ClientOf,   \* the client a process works on
  Ops,        \* what processes do beyond open, read, write and close
  Lossy,      \* may an RPC fail?
  Serial,     \* do processes share files the way consistency_tests do?
  NulData,    \* contents that begin with a NUL byte
  MaxWrites,  \* bound on the contents written
  MaxStray,   \* bound on the uploads left behind by clients
  NoPath

ASSUME BnfsAssumption ==
  /\ ClientOf \in [Thread -> Client]
  /\ Ops \subseteq {"truncate", "unlink", "rename", "restart"}
  /\ Lossy \in BOOLEAN /\ Serial \in BOOLEAN
  /\ MaxWrites \in Nat /\ MaxStray \in Nat
  /\ Data = 0..MaxWrites /\ EmptyData = 0 /\ NulData \subseteq Data
  /\ NoPath \notin Path /\ NoFile \notin Data

VARIABLES
  temp,      \* temp[c][p]: the file in c's temp directory for p, or NoFile
  cached,    \* cached[c]: paths with a file in c's cache directory
  dirty,     \* dirty[c]: CacheHelper::dirty_files
  sess,      \* sess[t]: the operation process t is in, or its open file
  strays,    \* PutFile handlers whose client has given up or died
  wrote,     \* contents written so far
  moved,     \* paths truncated, or target of a rename (no state of the code)
  ever,      \* ever[p]: contents the server has shown at p (no state of the code)
  lastEnd    \* when the last session ended (no state of the code)

client == <<temp, cached, dirty>>
server == <<store, lastPut, ever>>
told == <<wrote, moved>>
allvars == <<store, now, lastPut, temp, cached, dirty, sess, strays, told, ever, lastEnd>>

Rest == [pc |-> "idle", mode |-> "r", path |-> NoPath, to |-> NoPath, at |-> NoPath,
         creat |-> "none", srv |-> 0, buf |-> EmptyData, began |-> 0]

Garbage == {0, MaxNow + 1}   \* what an uninitialised stat buffer may hold

HasTemp(c, p) == temp[c][p] # NoFile
Local(c, p, d, m) == temp' = [temp EXCEPT ![c][p] = [data |-> d, mtime |-> m]]

BInit ==
  /\ Init
  /\ temp = [c \in Client |-> [p \in Path |-> NoFile]]
  /\ cached = [c \in Client |-> {}]
  /\ dirty = [c \in Client |-> {}]
  /\ sess = [t \in Thread |-> Rest]
  /\ strays = {}
  /\ wrote = 0 /\ moved = {}
  /\ ever = [p \in Path |-> {EmptyData}]
  /\ lastEnd = 0

\* What the server shows after this step counts as published.
Remember ==
  ever' = [p \in Path |-> IF store'[p] = NoFile THEN ever[p]
                                                ELSE ever[p] \cup {store'[p].data}]

Goto(t, l) == sess' = [sess EXCEPT ![t].pc = l]
EndTime == lastEnd' = IF Serial THEN now ELSE lastEnd
Done(t) == sess' = [sess EXCEPT ![t] = Rest] /\ EndTime

\* consistency_tests: a process works on the file only while no other does,
\* except that readers may overlap, and whoever writes
\* starts in a later second than the one in which the last one ended.
MayStart(t, mode) ==
  Serial =>
    /\ strays = {}
    /\ \A u \in Thread : sess[u].pc # "idle" => mode = "r" /\ sess[u].mode = "r"
    /\ mode = "w" => now > lastEnd

\* libfuse keeps unlink and rename of a path apart from other operations on
\* it, and hides (renames) an open file instead of unlinking or replacing it.
Unlocked(c, p) ==
  ~ \E u \in Thread : ClientOf[u] = c /\ sess[u].pc \in {"rm", "mv"} /\ p \in {sess[u].path, sess[u].to}
InUse(c, p) == \E u \in Thread : ClientOf[u] = c /\ sess[u].pc # "idle" /\ sess[u].path = p
InCall(c, p) == \E u \in Thread :
  ClientOf[u] = c /\ sess[u].pc \notin {"idle", "opened"} /\ sess[u].path = p

\* CacheHelper::deleteFromTemp by t, which then is where s says: open
\* handles keep an inode that has no name any more.
DropTemp(t, p, s) ==
  LET c == ClientOf[t]
  IN  /\ temp' = [temp EXCEPT ![c][p] = NoFile]
      /\ dirty' = [dirty EXCEPT ![c] = @ \ {p}]
      /\ sess' = [u \in Thread |->
                    IF u = t THEN s
                    ELSE IF ClientOf[u] = c /\ sess[u].at = p
                    THEN [sess[u] EXCEPT !.at = NoPath] ELSE sess[u]]

----------------------------------------------------------------------------
(* Open: unreliable_open and unreliable_create over AFSClient::Open        *)

\* The kernel looks the path up and calls open for a file that exists and
\* create for one that does not.
Open(t, p, mode, creat) ==
  /\ sess[t].pc = "idle"
  /\ MayStart(t, mode)
  /\ Unlocked(ClientOf[t], p)
  /\ creat = "none" <=> Exists(p)
  /\ creat # "none" => mode = "w"
  /\ sess' = [sess EXCEPT ![t] =
       [Rest EXCEPT !.pc = "attr", !.mode = mode, !.path = p, !.creat = creat]]
  /\ UNCHANGED <<server, now, client, strays, told, lastEnd>>

\* getOpenFlags, the GetAttr: on a failed RPC getAttr returns 0, too.
GetAttr(t) ==
  LET s == sess[t] IN
  /\ s.pc = "attr"
  /\ \/ /\ Exists(s.path)
        /\ sess' = [sess EXCEPT ![t].pc = "check", ![t].srv = store[s.path].mtime]
     \/ ~Exists(s.path) /\ s.creat # "none" /\ Goto(t, "mkLocal")
     \/ /\ Lossy \/ (~Exists(s.path) /\ s.creat = "none")
        /\ \E x \in Garbage : sess' = [sess EXCEPT ![t].pc = "check", ![t].srv = x]
  /\ UNCHANGED <<server, now, client, strays, told, lastEnd>>

\* getOpenFlags, the decision: fetch unless temp has a copy no older than
\* the server's.  Without a copy in temp outOfDate is true: the cache is
\* not looked at.
OutOfDateSwapped(c, p, srv) == HasTemp(c, p) => srv < temp[c][p].mtime  \* mutant
OutOfDate(c, p, srv) == HasTemp(c, p) => srv > temp[c][p].mtime

Check(t) ==
  LET s == sess[t] IN
  /\ s.pc = "check"
  /\ sess' = [sess EXCEPT ![t].srv = 0,
       ![t].pc = IF OutOfDate(ClientOf[t], s.path, s.srv) THEN "fetch" ELSE "open"]
  /\ UNCHANGED <<server, now, client, strays, told, lastEnd>>

\* What fetchAndSyncServerFile installs of the content it received:
\* c_str and strlen end it at the first NUL.
Arrived(d) == IF d \in NulData THEN EmptyData ELSE d

\* fetchAndSyncServerFile, the Open RPC.  Its failure is ignored; a file that
\* is gone arrives as one empty message.
Fetch(t) ==
  LET s == sess[t] IN
  /\ s.pc = "fetch"
  /\ \/ Lossy /\ Goto(t, "open")
     \/ sess' = [sess EXCEPT ![t].pc = "clear",
          ![t].buf = IF Exists(s.path) THEN Arrived(store[s.path].data) ELSE EmptyData]
  /\ UNCHANGED <<server, now, client, strays, told, lastEnd>>

\* writeFileToCache, and writeFileToTemp in two steps: open with ios::trunc, ...
Clear(t) ==
  LET s == sess[t]  c == ClientOf[t] IN
  /\ s.pc = "clear"
  /\ cached' = [cached EXCEPT ![c] = @ \cup {s.path}]
  /\ Local(c, s.path, EmptyData, now)
  /\ sess' = [sess EXCEPT ![t].pc = "fill", ![t].at = s.path]
  /\ UNCHANGED <<server, now, dirty, strays, told, lastEnd>>

\* A mutant that takes the fetched file for a changed one.
FillMarks(t) ==
  LET s == sess[t] IN
  /\ s.pc = "fill"
  /\ IF s.at = NoPath THEN UNCHANGED temp ELSE Local(ClientOf[t], s.at, s.buf, now)
  /\ dirty' = [dirty EXCEPT ![ClientOf[t]] = @ \cup {s.path}]
  /\ sess' = [sess EXCEPT ![t].pc = "open", ![t].buf = EmptyData]
  /\ UNCHANGED <<server, now, cached, strays, told, lastEnd>>

\* ... write and close.
Fill(t) ==
  LET s == sess[t] IN
  /\ s.pc = "fill"
  /\ IF s.at = NoPath THEN UNCHANGED temp ELSE Local(ClientOf[t], s.at, s.buf, now)
  /\ sess' = [sess EXCEPT ![t].pc = "open", ![t].buf = EmptyData]
  /\ UNCHANGED <<server, now, cached, dirty, strays, told, lastEnd>>

\* Open on a path the server does not have: empty files in temp and cache ...
MakeLocal(t) ==
  LET s == sess[t]  c == ClientOf[t] IN
  /\ s.pc = "mkLocal"
  /\ cached' = [cached EXCEPT ![c] = @ \cup {s.path}]
  /\ Local(c, s.path, EmptyData, now)
  /\ Goto(t, "mkDirty")
  /\ UNCHANGED <<server, now, dirty, strays, told, lastEnd>>

\* ... markFileDirty ...
MakeDirty(t) ==
  LET s == sess[t] IN
  /\ s.pc = "mkDirty"
  /\ dirty' = [dirty EXCEPT ![ClientOf[t]] = @ \cup {s.path}]
  /\ Goto(t, "ask")
  /\ UNCHANGED <<server, now, temp, cached, strays, told, lastEnd>>

\* ... and createOnServer, whose result is ignored.  The server looks ...
AskServer(t) ==
  LET s == sess[t] IN
  /\ s.pc = "ask"
  /\ \/ Goto(t, IF Exists(s.path) THEN "open" ELSE "make")
     \/ Lossy /\ Goto(t, "open")
  /\ UNCHANGED <<server, now, client, strays, told, lastEnd>>

\* ... and, if there was no file, opens with the client's flags.
MakeOnServer(t) ==
  LET s == sess[t] IN
  /\ s.pc = "make"
  /\ \/ Create(s.path)
     \/ s.creat = "trunc" /\ Blank(s.path)
     \/ s.creat = "create" /\ Exists(s.path) /\ UNCHANGED <<store, now, lastPut>>
  /\ Remember
  /\ Goto(t, "open")
  /\ UNCHANGED <<client, strays, told, lastEnd>>

\* The open of the temp file, with the flags of the call; when it fails the
\* temp file and the dirty mark are dropped.
OpenTemp(t) ==
  LET s == sess[t]  c == ClientOf[t]
      opened == [s EXCEPT !.pc = "opened", !.at = s.path, !.creat = "none"]
  IN
  /\ s.pc = "open"
  /\ \/ /\ HasTemp(c, s.path) /\ s.creat # "trunc"
        /\ sess' = [sess EXCEPT ![t] = opened]
        /\ UNCHANGED <<temp, dirty, lastEnd>>
     \/ /\ IF HasTemp(c, s.path) THEN s.creat = "trunc" ELSE s.creat # "none"
        /\ Local(c, s.path, EmptyData, now)
        /\ sess' = [sess EXCEPT ![t] = opened]
        /\ UNCHANGED <<dirty, lastEnd>>
     \/ /\ ~HasTemp(c, s.path) /\ s.creat = "none"
        /\ DropTemp(t, s.path, Rest)
        /\ EndTime
  /\ UNCHANGED <<server, now, cached, strays, told>>

----------------------------------------------------------------------------
(* Work on the open file                                                   *)

\* unreliable_write: pwrite, ...
Write(t) ==
  LET s == sess[t] IN
  /\ s.pc = "opened" /\ s.mode = "w"
  /\ wrote < MaxWrites
  /\ wrote' = wrote + 1
  /\ IF s.at = NoPath THEN UNCHANGED temp ELSE Local(ClientOf[t], s.at, wrote + 1, now)
  /\ Goto(t, "mark")
  /\ UNCHANGED <<server, now, cached, dirty, strays, moved, lastEnd>>

\* A mutant that forgets the mark.
MarkForgotten(t) == sess[t].pc = "mark" /\ Goto(t, "opened")
                    /\ UNCHANGED <<server, now, client, strays, told, lastEnd>>

\* ... then Cache_markFileDirty.
Mark(t) ==
  LET s == sess[t] IN
  /\ s.pc = "mark"
  /\ dirty' = [dirty EXCEPT ![ClientOf[t]] = @ \cup {s.path}]
  /\ Goto(t, "opened")
  /\ UNCHANGED <<server, now, temp, cached, strays, told, lastEnd>>

----------------------------------------------------------------------------
(* Close: unreliable_flush over AFSClient::Flush, then release             *)

\* A mutant that uploads every file it closes.
FlushWithoutMark(t) ==
  LET s == sess[t]  c == ClientOf[t] IN
  /\ s.pc = "opened"
  /\ IF HasTemp(c, s.path)
     THEN /\ sess' = [sess EXCEPT ![t].pc = "send", ![t].at = s.path,
                                  ![t].buf = temp[c][s.path].data]
          /\ UNCHANGED lastEnd
     ELSE Done(t)
  /\ UNCHANGED <<server, now, client, strays, told>>

\* Open the temp file, ask isFileDirty, start PutFile.
Flush(t) ==
  LET s == sess[t]  c == ClientOf[t] IN
  /\ s.pc = "opened"
  /\ IF HasTemp(c, s.path) /\ s.path \in dirty[c]
     THEN /\ sess' = [sess EXCEPT ![t].pc = "send", ![t].at = s.path,
                                  ![t].buf = temp[c][s.path].data]
          /\ UNCHANGED lastEnd
     ELSE Done(t)
  /\ UNCHANGED <<server, now, client, strays, told>>

\* The first Write carries the path.  When it fails deleteFromTemp throws the
\* file away; otherwise the content follows.
Send(t) ==
  LET s == sess[t]  c == ClientOf[t] IN
  /\ s.pc = "send"
  /\ \/ /\ sess' = [sess EXCEPT ![t].pc = "put", ![t].began = now,
                      ![t].buf = IF s.at = NoPath THEN s.buf ELSE temp[c][s.at].data]
        /\ UNCHANGED <<temp, dirty, lastEnd>>
     \/ /\ Lossy
        /\ DropTemp(t, s.path, Rest)
        /\ EndTime
  /\ UNCHANGED <<server, now, cached, strays, told>>

\* The server writes its temporary file after the upload began, at second m,
\* and publishes it.  When the stream or the reply fails the client keeps its
\* file and its mark, and the handler may still publish, all or a part.
Stray(s) == [path |-> s.path, data |-> s.buf, began |-> s.began]

\* A mutant that commits whatever became of the upload.
PutFileIgnoresStatus(t) ==
  LET s == sess[t] IN
  /\ s.pc = "put"
  /\ \/ /\ \E m \in s.began..now : Publish(s.path, s.buf, m)
        /\ sess' = [sess EXCEPT ![t].pc = "stat", ![t].buf = EmptyData, ![t].began = 0]
        /\ Remember
     \/ /\ Lossy
        /\ sess' = [sess EXCEPT ![t].pc = "commit", ![t].buf = EmptyData, ![t].began = 0]
        /\ UNCHANGED <<server, now>>
  /\ UNCHANGED <<client, told, strays, lastEnd>>

PutFile(t) ==
  LET s == sess[t] IN
  /\ s.pc = "put"
  /\ \/ /\ \E m \in s.began..now : Publish(s.path, s.buf, m)
        /\ sess' = [sess EXCEPT ![t].pc = "stat", ![t].buf = EmptyData, ![t].began = 0]
        /\ Remember
        /\ UNCHANGED <<strays, lastEnd>>
     \/ /\ Lossy
        /\ Done(t)
        /\ \/ UNCHANGED strays
           \/ Cardinality(strays) < MaxStray /\ strays' = strays \cup {Stray(s)}
        /\ UNCHANGED <<server, now>>
  /\ UNCHANGED <<client, told>>

\* The lstat behind the reply: it sees what is at the path by now.
Reply(t) ==
  LET s == sess[t] IN
  /\ s.pc = "stat"
  /\ \/ /\ Exists(s.path)
        /\ sess' = [sess EXCEPT ![t].pc = "commit", ![t].srv = store[s.path].mtime]
        /\ UNCHANGED lastEnd
     \/ (~Exists(s.path) \/ Lossy) /\ Done(t)
  /\ UNCHANGED <<server, now, client, strays, told>>

\* commitToCache: cp to the cache unless the temp file is gone, ...
Commit(t) ==
  LET s == sess[t]  c == ClientOf[t] IN
  /\ s.pc = "commit"
  /\ IF HasTemp(c, s.path)
     THEN /\ cached' = [cached EXCEPT ![c] = @ \cup {s.path}]
          /\ Goto(t, "stamp")
          /\ UNCHANGED lastEnd
     ELSE Done(t) /\ UNCHANGED cached
  /\ UNCHANGED <<server, now, temp, dirty, strays, told>>

\* A mutant whose conversion of the time is off by one.
StampRoundsDown(t) ==
  LET s == sess[t]  c == ClientOf[t] IN
  /\ s.pc = "stamp"
  /\ IF HasTemp(c, s.path) THEN Local(c, s.path, temp[c][s.path].data, s.srv - 1)
                           ELSE UNCHANGED temp
  /\ Goto(t, "clean")
  /\ UNCHANGED <<server, now, cached, dirty, strays, told, lastEnd>>

\* ... give the temp file the server's time, ...
Stamp(t) ==
  LET s == sess[t]  c == ClientOf[t] IN
  /\ s.pc = "stamp"
  /\ IF HasTemp(c, s.path) THEN Local(c, s.path, temp[c][s.path].data, s.srv)
                           ELSE UNCHANGED temp
  /\ Goto(t, "clean")
  /\ UNCHANGED <<server, now, cached, dirty, strays, told, lastEnd>>

\* A mutant that leaves the mark.
CleanForgets(t) == sess[t].pc = "clean" /\ Done(t)
                   /\ UNCHANGED <<server, now, client, strays, told>>

\* ... and erase the dirty mark.
Clean(t) ==
  LET s == sess[t] IN
  /\ s.pc = "clean"
  /\ dirty' = [dirty EXCEPT ![ClientOf[t]] = @ \ {s.path}]
  /\ Done(t)
  /\ UNCHANGED <<server, now, temp, cached, strays, told>>

\* A handler whose client is gone publishes what it received.
StrayPut ==
  \E s \in strays : \E d \in {s.data, EmptyData}, m \in s.began..now :
    /\ Publish(s.path, d, m)
    /\ Remember
    /\ strays' = strays \ {s}
    /\ UNCHANGED <<client, sess, told, lastEnd>>

----------------------------------------------------------------------------
(* Operations on paths                                                     *)

\* unreliable_truncate changes the temp file and marks nothing.
Truncate(t, p) ==
  LET c == ClientOf[t] IN
  /\ "truncate" \in Ops
  /\ sess[t].pc = "idle"
  /\ MayStart(t, "w")
  /\ Exists(p) /\ HasTemp(c, p) /\ Unlocked(c, p)
  /\ wrote < MaxWrites
  /\ wrote' = wrote + 1
  /\ moved' = moved \cup {p}
  /\ Local(c, p, wrote + 1, now)
  /\ EndTime
  /\ UNCHANGED <<server, now, cached, dirty, sess, strays>>

\* AFSClient::Unlink: the temp file first, then the server's.
Unlink(t, p) ==
  LET c == ClientOf[t] IN
  /\ "unlink" \in Ops
  /\ sess[t].pc = "idle"
  /\ MayStart(t, "w")
  /\ Exists(p) /\ Unlocked(c, p) /\ ~InUse(c, p)
  /\ DropTemp(t, p, [Rest EXCEPT !.pc = "rm", !.mode = "w", !.path = p])
  /\ UNCHANGED <<server, now, cached, strays, told, lastEnd>>

UnlinkRpc(t) ==
  LET s == sess[t] IN
  /\ s.pc = "rm"
  /\ \/ Remove(s.path) /\ Remember
     \/ (~Exists(s.path) \/ Lossy) /\ UNCHANGED <<server, now>>
  /\ Done(t)
  /\ UNCHANGED <<client, strays, told>>

\* AFSClient::Rename: with a file in the cache the one in temp must be there
\* and is moved; a dirty mark is copied (unmarkFileDirty only removes the old
\* temp file, which has just moved away).
Rename(t, p, q) ==
  LET c == ClientOf[t]
      s == [Rest EXCEPT !.pc = "mv", !.mode = "w", !.path = p, !.to = q]
      Link(a) == IF a = p THEN q ELSE IF a = q THEN NoPath ELSE a
  IN
  /\ "rename" \in Ops
  /\ sess[t].pc = "idle"
  /\ MayStart(t, "w")
  /\ p # q /\ Exists(p)
  /\ Unlocked(c, p) /\ Unlocked(c, q) /\ ~InCall(c, p) /\ ~InUse(c, q)
  /\ IF p \in cached[c]
     THEN /\ HasTemp(c, p)
          /\ temp' = [temp EXCEPT ![c][q] = temp[c][p], ![c][p] = NoFile]
          /\ dirty' = [dirty EXCEPT ![c] = IF p \in @ THEN @ \cup {q} ELSE @]
          /\ sess' = [u \in Thread |->
               IF u = t THEN s
               ELSE IF ClientOf[u] = c THEN [sess[u] EXCEPT !.at = Link(@)] ELSE sess[u]]
     ELSE sess' = [sess EXCEPT ![t] = s] /\ UNCHANGED <<temp, dirty>>
  /\ UNCHANGED <<server, now, cached, strays, told, lastEnd>>

\* The server's rename; on success the kernel's open files follow.
RenameRpc(t) ==
  LET s == sess[t]
      Follow(u) == ClientOf[u] = ClientOf[t] /\ sess[u].pc = "opened" /\ sess[u].path = s.path
  IN
  /\ s.pc = "mv"
  /\ \/ /\ Move(s.path, s.to) /\ Remember
        /\ moved' = moved \cup {s.to}
        /\ sess' = [u \in Thread |->
             IF u = t THEN Rest
             ELSE IF Follow(u) THEN [sess[u] EXCEPT !.path = s.to] ELSE sess[u]]
        /\ EndTime
     \/ (~Exists(s.path) \/ Lossy) /\ Done(t) /\ UNCHANGED <<server, now, moved>>
  /\ UNCHANGED <<client, strays, wrote>>

\* The client dies and is mounted again: initCache empties temp, the cache
\* stays, dirty_files is memory.  Uploads in progress are left to the server.
Restart(c) ==
  LET cut == {t \in Thread : ClientOf[t] = c /\ sess[t].pc = "put"}
      left == strays \cup {Stray(sess[t]) : t \in cut}
  IN
  /\ "restart" \in Ops
  /\ Cardinality(left) <= MaxStray
  /\ temp' = [temp EXCEPT ![c] = [p \in Path |-> NoFile]]
  /\ dirty' = [dirty EXCEPT ![c] = {}]
  /\ sess' = [t \in Thread |-> IF ClientOf[t] = c THEN Rest ELSE sess[t]]
  /\ strays' = left
  /\ EndTime
  /\ UNCHANGED <<server, now, cached, told>>

Second == Tick /\ UNCHANGED <<client, sess, strays, told, ever, lastEnd>>

BNext ==
  \/ \E t \in Thread :
       \/ \E p \in Path :
            \/ \E mode \in {"r", "w"}, creat \in {"none", "create", "trunc"} :
                 Open(t, p, mode, creat)
            \/ Truncate(t, p) \/ Unlink(t, p)
            \/ \E q \in Path : Rename(t, p, q)
       \/ GetAttr(t) \/ Check(t) \/ Fetch(t) \/ Clear(t) \/ Fill(t)
       \/ MakeLocal(t) \/ MakeDirty(t) \/ AskServer(t) \/ MakeOnServer(t) \/ OpenTemp(t)
       \/ Write(t) \/ Mark(t)
       \/ Flush(t) \/ Send(t) \/ PutFile(t) \/ Reply(t) \/ Commit(t) \/ Stamp(t) \/ Clean(t)
       \/ UnlinkRpc(t) \/ RenameRpc(t)
  \/ \E c \in Client : Restart(c)
  \/ StrayPut
  \/ Second

BSpec == BInit /\ [][BNext]_allvars

----------------------------------------------------------------------------
(* Properties                                                              *)

Steps == {"idle", "attr", "check", "fetch", "clear", "fill", "mkLocal", "mkDirty", "ask",
          "make", "open", "opened", "mark", "send", "put", "stat", "commit", "stamp",
          "clean", "rm", "mv"}
Times == 0..MaxNow
AnyPath == Path \cup {NoPath}

\* The shape of the state of the clients of afs_client.cc: every time in it
\* is the server's or an uninitialised one.
BTypeOK ==
  /\ TypeOK
  /\ temp \in [Client -> [Path -> [data : Data, mtime : Times \cup Garbage] \cup {NoFile}]]
  /\ cached \in [Client -> SUBSET Path]
  /\ dirty \in [Client -> SUBSET Path]
  /\ sess \in [Thread -> [pc : Steps, mode : {"r", "w"}, path : AnyPath, to : AnyPath,
                         at : AnyPath, creat : {"none", "create", "trunc"},
                         srv : Times \cup Garbage, buf : Data, began : Times]]
  /\ strays \subseteq [path : Path, data : Data, began : Times]
  /\ wrote \in 0..MaxWrites /\ moved \subseteq Path
  /\ ever \in [Path -> SUBSET Data]
  /\ lastEnd \in 0..now

Idle(c) == \A t \in Thread : ClientOf[t] = c => sess[t].pc = "idle"

\* Retry-based recovery rests on the dirty mark: whatever RPC failed at
\* whatever point of open or close, a file that a client at rest holds in its
\* temp directory without a mark has been shown by the server.  AFSClient::
\* Flush must not reach commitToCache before the upload is acknowledged.
CleanMeansPublished ==
  \A c \in Client, p \in Path :
    Idle(c) /\ HasTemp(c, p) /\ p \notin dirty[c] => temp[c][p].data \in ever[p]

SeesLatest(t) ==
  LET p == sess[t].path  c == ClientOf[t]
  IN  sess[t].pc = "opened" /\ p \notin dirty[c] /\ Exists(p)
        => temp[c][p].data = store[p].data

\* Close-to-open consistency: a process that opens a file which nobody has
\* open for writing reads what the server has, from whichever client it was
\* closed.  getOpenFlags must fetch exactly the copies that are stale, and
\* the times in temp must be the server's.
OpenSeesLatest == \A t \in Thread : SeesLatest(t)

\* The same for files that no rename has given an older time and no truncate
\* has changed unmarked, next to files that were: the times of isOutOfDate
\* decide rightly through every unlink, recreation, rename of other files and
\* restart of a client.
OpenSeesLatestUnmoved == \A t \in Thread : sess[t].path \notin moved => SeesLatest(t)

\* What the clients show of a file to who opens, works on and closes it: the
\* open comes true with the open of the temp file, or of a new file with its
\* creation on the server; the close with the rename of the upload.
Shown == [p \in Path \ moved |-> IF Exists(p) THEN store[p].data ELSE NoFile]

Works(s) ==
  /\ s.pc \in {"opened", "mark", "send", "put"} \/ (s.pc = "open" /\ s.creat # "none")
  /\ s.path \notin moved

View == [t \in Thread |->
  LET s == sess[t]  c == ClientOf[t] IN
  IF Works(s)
  THEN [path |-> s.path, data |-> temp[c][s.path].data,
        wrote |-> s.path \in dirty[c] \/ s.pc = "mark"]
  ELSE [path |-> NoPath, data |-> EmptyData, wrote |-> FALSE]]

Late == {[path |-> x.path, data |-> x.data] : x \in {y \in strays : y.path \notin moved}}

Shared == INSTANCE SharedFiles WITH file <- Shown, view <- View, late <- Late

\* Open and close look like one step each: whatever RPCs, copies, marks and
\* times of several clients lie between, each process that opens a file gets
\* what was closed last, keeps to itself what it writes, and replaces
\* the file by just that; a file changes in no other way.
SharesFiles == Shared!Spec

\* Every upload ends: when all files are closed, no client has a file left
\* that it still owes the server.
SettledClean ==
  (\A c \in Client : Idle(c)) => \A c \in Client : dirty[c] = {}

\* A close sends what its own process wrote, never what the client read:
\* isFileDirty must not hold a path from an earlier session.
ReadersUploadNothing ==
  [][\A t \in Thread : sess[t].pc = "put" /\ sess'[t].pc = "stat" => sess[t].mode = "w"]_allvars

\* Last writer wins: a close does not bring back a content that the file had
\* and that a later close of another client has replaced.
NoResurrection ==
  [][\A t \in Thread :
       LET s == sess[t] IN
       s.pc = "put" /\ sess'[t].pc = "stat" /\ s.buf # EmptyData
         => s.buf \notin ever[s.path]]_allvars
=============================================================================
