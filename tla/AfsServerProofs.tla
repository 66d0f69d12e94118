-------------------------- MODULE AfsServerProofs --------------------------
(***************************************************************************)
(* Theorems about AfsServer for any number of paths, calls and messages.   *)
(***************************************************************************)
EXTENDS AfsServer, SequenceTheorems, TLAPS

----------------------------------------------------------------------------
(* Versions                                                                *)

\* An upload of which nothing has arrived is the empty file.
LEMMA PartEmpty == \A u : Part(u, 0) = <<>>
BY DEF Part

\* Receiving the next message extends the part of an upload that is there.
LEMMA PartAppend ==
  ASSUME NEW u, NEW n \in Nat
  PROVE  Append(Part(u, n), <<u, n + 1>>) = Part(u, n + 1)
<1>1. Part(u, n) \in Seq({u} \X Nat) /\ Len(Part(u, n)) = n
  <2>1. \A i \in 1..n : <<u, i>> \in {u} \X Nat
    OBVIOUS
  <2>2. Part(u, n) \in [1..n -> {u} \X Nat]
    BY <2>1 DEF Part
  <2>. QED  BY <2>2
<1>2. Append(Part(u, n), <<u, n + 1>>) \in Seq({u} \X Nat)
  BY <1>1
<1>3. Part(u, n + 1) \in Seq({u} \X Nat) /\ Len(Part(u, n + 1)) = n + 1
  <2>1. \A i \in 1..(n + 1) : <<u, i>> \in {u} \X Nat
    OBVIOUS
  <2>2. Part(u, n + 1) \in [1..(n + 1) -> {u} \X Nat]
    BY <2>1 DEF Part
  <2>. QED  BY <2>2
<1>4. \A i \in 1..(n + 1) :
        Append(Part(u, n), <<u, n + 1>>)[i] = Part(u, n + 1)[i]
  BY <1>1 DEF Part
<1>. QED  BY <1>1, <1>2, <1>3, <1>4, SeqEqual

\* Every version is a sequence of messages; the empty file is one.
LEMMA VersionType ==
  /\ Version \subseteq Seq(Put \X (1..Chunks))
  /\ \A u \in Put, n \in 0..Chunks :
       Len(Part(u, n)) = n /\ \A i \in 1..n : Part(u, n)[i] = <<u, i>>
<1>1. ASSUME NEW u \in Put, NEW n \in 0..Chunks
      PROVE  /\ Part(u, n) \in Seq(Put \X (1..Chunks))
             /\ Len(Part(u, n)) = n /\ \A i \in 1..n : Part(u, n)[i] = <<u, i>>
  <2>1. \A i \in 1..n : <<u, i>> \in Put \X (1..Chunks)
    BY AfsServerAssumption
  <2>2. Part(u, n) \in [1..n -> Put \X (1..Chunks)]
    BY <2>1 DEF Part
  <2>. QED  BY <2>2 DEF Part
<1>2. <<>> \in Seq(Put \X (1..Chunks))
  OBVIOUS
<1>3. Version \subseteq Seq(Put \X (1..Chunks))
  <2>. SUFFICES ASSUME NEW v \in Version
                PROVE  v \in Seq(Put \X (1..Chunks))
    OBVIOUS
  <2>1. CASE v = <<>>
    BY <1>2, <2>1
  <2>2. ASSUME NEW u \in Put, NEW n \in 0..Chunks, v = Part(u, n)
        PROVE  v \in Seq(Put \X (1..Chunks))
    BY <1>1, <2>2
  <2>. QED  BY <2>1, <2>2 DEF Version
<1>. QED  BY <1>1, <1>3

----------------------------------------------------------------------------
(* Type correctness                                                        *)

Chunk == Put \X (1..Chunks)

\* A write, creation or truncation of an inode keeps TypeOK for disk.
LEMMA WrittenType ==
  ASSUME TypeOK, NEW i \in Call, NEW d \in Seq(Chunk)
  PROVE  Written(i, d) \in [Call -> [data : Seq(Chunk), mtime : 0..MaxNow]]
         /\ \A c \in Call : Written(i, d)[c].mtime <= now
BY DEF TypeOK, Written, Chunk

\* TypeOK holds when the server starts.
LEMMA TypeInit == Init => TypeOK
<1>. SUFFICES ASSUME Init PROVE TypeOK
  OBVIOUS
<1>1. <<>> \in Seq(Chunk)
  OBVIOUS
<1>. QED  BY <1>1, AfsServerAssumption DEF Init, TypeOK, Chunk

\* A step of a PutFile handler preserves TypeOK.
LEMMA PutType ==
  ASSUME TypeOK, NEW u \in Put,
         PutStep(u) \/ \E p \in Path \cup {None} : PutBegin(u, p)
  PROVE  TypeOK'
<1>. USE DEF TypeOK, Chunk
<1>0. u \in Call /\ u \notin Get /\ Dir \notin Call /\ None \notin Call
  BY AfsServerAssumption DEF Call
<1>1. CASE \E p \in Path \cup {None} : PutBegin(u, p)
  BY <1>0, <1>1 DEF PutBegin, Running, calls
<1>2. CASE PutLock(u)
  <2>1. CASE path[u] = None
    BY <1>0, <1>2, <2>1 DEF PutLock, OpenTemp, Running, Receiving
  <2>2. CASE path[u] # None
    <3>. DEFINE i == IF IsFile(TempOf(u)) THEN names[TempOf(u)] ELSE u
    <3>1. i \in Call /\ TempOf(u) \in Name
      BY <1>0, <2>2 DEF IsFile, TempOf, Name, Temp
    <3>2. names' = [names EXCEPT ![TempOf(u)] = i] /\ disk' = Written(i, <<>>)
          /\ file' = [file EXCEPT ![u] = i]
      BY <1>2, <2>2 DEF PutLock, OpenTemp
    <3>4. <<>> \in Seq(Chunk)
      OBVIOUS
    <3>. HIDE DEF i
    <3>. QED  BY <1>0, <1>2, <3>1, <3>2, WrittenType, <3>4 DEF PutLock, Running, Receiving
  <2>. QED  BY <2>1, <2>2
<1>3. CASE PutRecv(u)
  <2>1. <<u, rcvd[u] + 1>> \in Chunk /\ file[u] \in Call
    BY <1>0, <1>3, AfsServerAssumption DEF PutRecv
  <2>2. Append(disk[file[u]].data, <<u, rcvd[u] + 1>>) \in Seq(Chunk)
    BY <2>1
  <2>3. rcvd' \in [Put -> 0..Chunks]
    BY <1>3, AfsServerAssumption DEF PutRecv
  <2>4. disk' \in [Call -> [data : Seq(Chunk), mtime : 0..MaxNow]]
        /\ \A c \in Call : disk'[c].mtime <= now
    BY <1>3, <2>1, <2>2, WrittenType DEF PutRecv
  <2>. QED  BY <1>3, <2>3, <2>4 DEF PutRecv
<1>4. CASE PutEof(u)
  <2>1. CASE UNCHANGED disk
    BY <1>0, <1>4, <2>1 DEF PutEof, Running, Receiving
  <2>2. CASE file[u] # None /\ disk' = Written(file[u], disk[file[u]].data)
    <3>1. file[u] \in Call /\ disk[file[u]].data \in Seq(Chunk)
      BY <1>0, <2>2
    <3>. QED  BY <1>0, <1>4, <2>2, <3>1, WrittenType DEF PutEof, Running, Receiving
  <2>. QED  BY <1>4, <2>1, <2>2 DEF PutEof
<1>5. CASE PutRename(u)
  <2>1. names[TempOf(u)] \in Call
    BY <1>5 DEF PutRename, CanReplace, IsFile
  <2>2. names' \in [Name -> Call \cup {Dir, None}]
    BY <1>5, <2>1 DEF PutRename
  <2>3. pc' \in [Call -> Running \cup Finished \cup {"idle"}]
    BY <1>0, <1>5 DEF PutRename, Running, Receiving
  <2>4. lastPut' \in 0..now'
    BY <1>5, AfsServerAssumption DEF PutRename
  <2>. QED  BY <1>5, <2>2, <2>3, <2>4 DEF PutRename
<1>6. CASE PutRenameFails(u)
  BY <1>0, <1>6 DEF PutRenameFails, Finished
<1>7. CASE PutUnlock(u)
  BY <1>0, <1>7 DEF PutUnlock, Running
<1>8. CASE PutReply(u)
  BY <1>0, <1>8 DEF PutReply, Finished
<1>. QED  BY <1>1, <1>2, <1>3, <1>4, <1>5, <1>6, <1>7, <1>8 DEF PutStep

(* The inductive invariant beside TypeOK and LockOwned.                    *)

\* Calls that have created their inode or never will.
Used(c) == pc[c] \notin {"idle", "named", "absent", "read"}

\* A directory entry names an inode that was created, and no inode has two.
LinkInv ==
  /\ \A n \in Name : IsFile(n) => Used(names[n])
  /\ \A m, n \in Name : IsFile(m) /\ names[m] = names[n] => m = n

Writing(u) == pc[u] \in {"recv", "closed"} /\ path[u] # None

\* The temporary file of an upload in progress holds what was received, and
\* was written since the last publication.
WriteOf(u) ==
  /\ pc[u] \in {"idle", "named"} => rcvd[u] = 0 /\ file[u] = None
  /\ pc[u] = "recv" /\ path[u] = None => file[u] = None
  /\ Writing(u) =>
       /\ file[u] \in Call
       /\ names[TempOf(u)] = file[u]
       /\ disk[file[u]].data = Part(u, rcvd[u])
       /\ disk[file[u]].mtime >= lastPut
WriteInv == \A u \in Put : WriteOf(u)

VersionInv == \A c \in Call : disk[c].data \in Version

\* An Open call that will create knows where, one that is reading has an
\* inode open, and no upload will write that.
ReadOpen ==
  \A g \in Get : /\ pc[g] = "absent" => path[g] \in Path
                 /\ pc[g] = "read" => file[g] \in Call
ReadInv ==
  \A g \in Get : pc[g] = "read" =>
    Used(file[g]) /\ \A n \in Temp : names[n] # file[g]

\* What was streamed is a beginning of what there is to stream, unless the
\* file was truncated meanwhile.
Streams(d, sent) ==
  \/ d = <<>>
  \/ \E u \in Put, n \in 0..Chunks : \E m \in 0..n : d = Part(u, n) /\ sent = Part(u, m)
GotInv ==
  \A g \in Get :
    /\ pc[g] = "idle" => got[g] = <<>>
    /\ got[g] \in Version
    /\ pc[g] = "read" => Streams(disk[file[g]].data, got[g])

IInv == /\ TypeOK /\ LockOwned /\ LinkInv /\ WriteInv
        /\ VersionInv /\ ReadOpen /\ ReadInv /\ GotInv

\* A step of an Open handler preserves TypeOK.
LEMMA GetType ==
  ASSUME TypeOK, ReadOpen, NEW g \in Get,
         \/ GetStep(g)
         \/ \E p \in Path, isCreate \in BOOLEAN : GetBegin(g, p, isCreate)
  PROVE  TypeOK'
<1>. USE DEF TypeOK, Chunk
<1>0. g \in Call /\ Get \subseteq Call /\ Dir \notin Call /\ None \notin Call
  BY AfsServerAssumption DEF Call
<1>1. CASE \E p \in Path, isCreate \in BOOLEAN : GetBegin(g, p, isCreate)
  <2>. PICK p \in Path, isCreate \in BOOLEAN : GetBegin(g, p, isCreate)
    BY <1>1
  <2>1. pc' \in [Call -> Running \cup Finished \cup {"idle"}]
    BY <1>0 DEF GetBegin, Running, Finished
  <2>2. file' \in [Call -> Call \cup {None}]
    BY <1>0 DEF GetBegin, IsFile
  <2>. QED  BY <1>0, <2>1, <2>2 DEF GetBegin
<1>2. CASE \E trunc \in BOOLEAN : GetCreate(g, trunc)
  <2>. PICK trunc \in BOOLEAN : GetCreate(g, trunc)
    BY <1>2
  <2>1. pc' \in [Call -> Running \cup Finished \cup {"idle"}]
    BY <1>0 DEF GetCreate, Finished
  <2>2. <<>> \in Seq(Chunk)
    OBVIOUS
  <2>3. CASE names' = [names EXCEPT ![path[g]] = g] /\ disk' = Written(g, <<>>)
    BY <1>0, <2>1, <2>2, <2>3, WrittenType DEF GetCreate
  <2>4. CASE /\ IsFile(path[g]) /\ disk' = Written(names[path[g]], <<>>)
             /\ UNCHANGED names
    <3>1. names[path[g]] \in Call
      BY <2>4 DEF IsFile
    <3>. QED  BY <1>0, <2>1, <2>2, <2>4, <3>1, WrittenType DEF GetCreate
  <2>5. CASE UNCHANGED <<names, disk>>
    BY <1>0, <2>1, <2>5 DEF GetCreate
  <2>. QED  BY <2>3, <2>4, <2>5 DEF GetCreate
<1>3. CASE GetChunk(g)
  <2>1. file[g] \in Call
    BY <1>3 DEF GetChunk, ReadOpen
  <2>2. disk[file[g]].data \in Seq(Chunk) /\ got[g] \in Seq(Chunk)
    BY <2>1
  <2>3. disk[file[g]].data[Len(got[g]) + 1] \in Chunk
    BY <1>3, <2>2 DEF GetChunk
  <2>4. Append(got[g], disk[file[g]].data[Len(got[g]) + 1]) \in Seq(Chunk)
    BY <2>2, <2>3
  <2>. QED  BY <1>3, <2>4 DEF GetChunk
<1>4. CASE GetEof(g)
  BY <1>0, <1>4 DEF GetEof, Finished
<1>5. CASE GetCut(g)
  BY <1>0, <1>5 DEF GetCut, Finished
<1>. QED  BY <1>1, <1>2, <1>3, <1>4, <1>5 DEF GetStep

\* Unlink, Rename, Mkdir and Rmdir preserve TypeOK.
LEMMA UnaryType ==
  ASSUME TypeOK, NEW p \in Path,
         Unlink(p) \/ Mkdir(p) \/ Rmdir(p) \/ \E q \in Path : Rename(p, q)
  PROVE  TypeOK'
<1>1. names' \in [Name -> Call \cup {Dir, None}]
  BY DEF TypeOK, Unlink, Mkdir, Rmdir, Rename, IsFile, Name
<1>. QED  BY <1>1 DEF TypeOK, Unlink, Mkdir, Rmdir, Rename, calls

\* Every step of the server preserves TypeOK.
LEMMA NextType ==
  ASSUME TypeOK, ReadOpen, [Next]_vars
  PROVE  TypeOK'
<1>1. CASE Crash
  BY <1>1, AfsServerAssumption DEF TypeOK, Crash, Finished
<1>2. CASE Tick
  BY <1>2, AfsServerAssumption DEF TypeOK, Tick, calls
<1>3. CASE UNCHANGED vars
  BY <1>3 DEF TypeOK, vars, calls
<1>. QED  BY <1>1, <1>2, <1>3, PutType, GetType, UnaryType DEF Next

----------------------------------------------------------------------------
(* The mutex                                                               *)

\* Only a waiting upload takes the mutex, only its holder gives it back.
LEMMA NextLock ==
  ASSUME TypeOK, LockOwned, [Next]_vars
  PROVE  LockOwned'
<1>. USE DEF TypeOK, LockOwned, Receiving
<1>0. Put \subseteq Call /\ Get \subseteq Call /\ None \notin Put /\ Put \cap Get = {}
  BY AfsServerAssumption DEF Call
<1>1. ASSUME NEW u \in Put, PutLock(u)
      PROVE  LockOwned'
  BY <1>0, <1>1 DEF PutLock
<1>2. ASSUME NEW u \in Put, PutUnlock(u)
      PROVE  LockOwned'
  BY <1>0, <1>2 DEF PutUnlock
<1>3. ASSUME NEW u \in Put, PutEof(u) \/ PutRename(u) \/ PutRenameFails(u)
      PROVE  LockOwned'
  BY <1>0, <1>3 DEF PutEof, PutRename, PutRenameFails
<1>4. ASSUME NEW u \in Put,
             PutReply(u) \/ \E p \in Path \cup {None} : PutBegin(u, p)
      PROVE  LockOwned'
  BY <1>0, <1>4 DEF PutReply, PutBegin
<1>5. ASSUME NEW u \in Put, PutRecv(u)
      PROVE  LockOwned'
  BY <1>5 DEF PutRecv
<1>6. ASSUME NEW g \in Get,
             \/ GetStep(g)
             \/ \E p \in Path, isCreate \in BOOLEAN : GetBegin(g, p, isCreate)
      PROVE  LockOwned'
  <2>1. lock' = lock /\ \A u \in Put : pc'[u] = pc[u]
    BY <1>0, <1>6 DEF GetStep, GetCreate, GetChunk, GetEof, GetCut, GetBegin
  <2>. QED  BY <2>1
<1>7. ASSUME NEW p \in Path,
             Unlink(p) \/ Mkdir(p) \/ Rmdir(p) \/ \E q \in Path : Rename(p, q)
      PROVE  LockOwned'
  BY <1>7 DEF Unlink, Mkdir, Rmdir, Rename, calls
<1>8. CASE Crash
  BY <1>0, <1>8 DEF Crash, Running
<1>9. CASE Tick \/ UNCHANGED vars
  BY <1>9 DEF Tick, vars, calls
<1>. QED
  BY <1>1, <1>2, <1>3, <1>4, <1>5, <1>6, <1>7, <1>8, <1>9 DEF Next, PutStep

\* No two uploads write at the same time.
LEMMA OneWriter ==
  ASSUME LockOwned, NEW u \in Put, NEW v \in Put,
         pc[u] \in Receiving, pc[v] \in Receiving
  PROVE  u = v
BY DEF LockOwned

----------------------------------------------------------------------------
(* The directory                                                           *)

\* A call that has created its inode never will again.
LEMMA UsedStays ==
  ASSUME TypeOK, [Next]_vars, NEW c \in Call, Used(c)
  PROVE  Used(c)'
<1>. USE DEF TypeOK, Used
<1>0. Put \subseteq Call /\ Get \subseteq Call /\ Put \cap Get = {}
  BY AfsServerAssumption DEF Call
<1>1. ASSUME NEW u \in Put, PutStep(u) \/ \E p \in Path \cup {None} : PutBegin(u, p)
      PROVE  Used(c)'
  BY <1>0, <1>1 DEF PutStep, PutLock, PutRecv, PutEof, PutRename, PutRenameFails,
                    PutUnlock, PutReply, PutBegin
<1>2. ASSUME NEW g \in Get,
             \/ GetStep(g)
             \/ \E p \in Path, isCreate \in BOOLEAN : GetBegin(g, p, isCreate)
      PROVE  Used(c)'
  BY <1>0, <1>2 DEF GetStep, GetCreate, GetChunk, GetEof, GetCut, GetBegin
<1>3. ASSUME NEW p \in Path,
             Unlink(p) \/ Mkdir(p) \/ Rmdir(p) \/ \E q \in Path : Rename(p, q)
      PROVE  Used(c)'
  BY <1>3 DEF Unlink, Mkdir, Rmdir, Rename, calls
<1>4. CASE Crash
  BY <1>4 DEF Crash
<1>5. CASE Tick \/ UNCHANGED vars
  BY <1>5 DEF Tick, vars, calls
<1>. QED  BY <1>1, <1>2, <1>3, <1>4, <1>5 DEF Next

\* A step that only moves entries, or drops them, keeps the directory sound.
LEMMA LinkMoves ==
  ASSUME TypeOK, LinkInv, \A c \in Call : Used(c) => Used(c)',
         \/ UNCHANGED names
         \/ \E n \in Name, v \in {Dir, None} : names' = [names EXCEPT ![n] = v]
         \/ \E m, n \in Name : m # n /\ names' = [names EXCEPT ![m] = names[n], ![n] = None]
  PROVE  LinkInv'
<1>0. Dir \notin Call /\ None \notin Call
  BY AfsServerAssumption
<1>1. CASE UNCHANGED names
  BY <1>1 DEF LinkInv, IsFile
<1>2. CASE \E n \in Name, v \in {Dir, None} : names' = [names EXCEPT ![n] = v]
  BY <1>0, <1>2 DEF TypeOK, LinkInv, IsFile
<1>3. ASSUME NEW m \in Name, NEW n \in Name, m # n,
             names' = [names EXCEPT ![m] = names[n], ![n] = None]
      PROVE  LinkInv'
  <2>1. \A x \in Name : names'[x] = IF x = n THEN None ELSE IF x = m THEN names[n] ELSE names[x]
    BY <1>3 DEF TypeOK
  <2>2. ASSUME NEW x \in Name, IsFile(x)'
        PROVE  Used(names[x])'
    BY <1>0, <2>1, <2>2 DEF LinkInv, IsFile
  <2>3. ASSUME NEW x \in Name, NEW y \in Name, IsFile(x)', names'[x] = names'[y]
        PROVE  x = y
    BY <1>0, <2>1, <2>3 DEF LinkInv, IsFile
  <2>. QED  BY <2>2, <2>3 DEF LinkInv
<1>. QED  BY <1>1, <1>2, <1>3

\* A new entry for the inode of a call that had none.
LEMMA LinkNew ==
  ASSUME TypeOK, LinkInv, \A d \in Call : Used(d) => Used(d)',
         NEW c \in Call, ~Used(c), Used(c)',
         NEW n \in Name, names' = [names EXCEPT ![n] = c]
  PROVE  LinkInv'
BY DEF TypeOK, LinkInv, IsFile

\* Every step keeps the directory sound: LinkInv is inductive.
LEMMA NextLink ==
  ASSUME TypeOK, LinkInv, [Next]_vars
  PROVE  LinkInv'
<1>. USE UsedStays
<1>0. /\ Put \subseteq Call /\ Get \subseteq Call /\ Path \subseteq Name
      /\ None \notin Call
  BY AfsServerAssumption DEF Call, Name
<1>1. ASSUME NEW u \in Put, PutLock(u)
      PROVE  LinkInv'
  <2>1. CASE path[u] = None
    BY <1>1, <2>1, LinkMoves DEF PutLock, OpenTemp
  <2>2. CASE path[u] # None /\ IsFile(TempOf(u))
    <3>1. names' = names
      BY <1>1, <2>2 DEF PutLock, OpenTemp, TypeOK
    <3>. QED  BY <3>1, LinkMoves
  <2>3. CASE path[u] # None /\ ~IsFile(TempOf(u))
    <3>1. TempOf(u) \in Name
      BY <1>0, <2>3 DEF TypeOK, TempOf, Temp, Name
    <3>2. names' = [names EXCEPT ![TempOf(u)] = u]
      BY <1>1, <2>3 DEF PutLock, OpenTemp
    <3>3. ~Used(u) /\ Used(u)'
      BY <1>0, <1>1 DEF PutLock, Used, TypeOK
    <3>. QED  BY <1>0, <3>1, <3>2, <3>3, LinkNew
  <2>. QED  BY <2>1, <2>2, <2>3
<1>2. ASSUME NEW u \in Put, PutRename(u)
      PROVE  LinkInv'
  <2>1. path[u] \in Path /\ IsFile(TempOf(u))
    BY <1>0, <1>2 DEF PutRename, CanReplace, TypeOK
  <2>2. TempOf(u) \in Name /\ TempOf(u) # path[u]
    <3>1. TempOf(u) \in Temp
      BY <2>1 DEF TypeOK, TempOf, Temp
    <3>. QED  BY <2>1, <3>1, AfsServerAssumption DEF Name
  <2>. QED  BY <1>0, <1>2, <2>1, <2>2, LinkMoves DEF PutRename
<1>3. ASSUME NEW u \in Put,
             \/ PutRecv(u) \/ PutEof(u) \/ PutRenameFails(u) \/ PutUnlock(u)
             \/ PutReply(u) \/ \E p \in Path \cup {None} : PutBegin(u, p)
      PROVE  LinkInv'
  BY <1>3, LinkMoves DEF PutRecv, PutEof, PutRenameFails, PutUnlock, PutReply, PutBegin
<1>4. ASSUME NEW g \in Get, NEW trunc \in BOOLEAN, GetCreate(g, trunc)
      PROVE  LinkInv'
  <2>1. CASE UNCHANGED names
    BY <2>1, LinkMoves
  <2>2. CASE names[path[g]] = None /\ names' = [names EXCEPT ![path[g]] = g]
    <3>1. ~Used(g) /\ Used(g)'
      BY <1>0, <1>4 DEF GetCreate, Used, TypeOK
    <3>2. CASE path[g] \in Name
      BY <1>0, <2>2, <3>1, <3>2, LinkNew
    <3>3. CASE path[g] \notin Name
      <4>1. names' = names
        BY <2>2, <3>3 DEF TypeOK
      <4>. QED  BY <4>1, LinkMoves
    <3>. QED  BY <3>2, <3>3
  <2>. QED  BY <1>4, <2>1, <2>2 DEF GetCreate
<1>5. ASSUME NEW g \in Get,
             \/ GetChunk(g) \/ GetEof(g) \/ GetCut(g)
             \/ \E p \in Path, isCreate \in BOOLEAN : GetBegin(g, p, isCreate)
      PROVE  LinkInv'
  BY <1>5, LinkMoves DEF GetChunk, GetEof, GetCut, GetBegin
<1>6. ASSUME NEW p \in Path, Unlink(p) \/ Mkdir(p) \/ Rmdir(p)
      PROVE  LinkInv'
  BY <1>0, <1>6, LinkMoves DEF Unlink, Mkdir, Rmdir
<1>7. ASSUME NEW p \in Path, NEW q \in Path, Rename(p, q)
      PROVE  LinkInv'
  BY <1>0, <1>7, LinkMoves DEF Rename
<1>8. CASE Crash \/ Tick \/ UNCHANGED vars
  BY <1>8, LinkMoves DEF Crash, Tick, vars
<1>. QED  BY <1>1, <1>2, <1>3, <1>4, <1>5, <1>6, <1>7, <1>8 DEF Next, PutStep, GetStep

----------------------------------------------------------------------------
(* Uploads in progress                                                     *)

\* A step that leaves alone an upload, and its temporary file if it is
\* writing one, keeps WriteOf.
LEMMA WriteFrame ==
  ASSUME TypeOK, NEW u \in Put, WriteOf(u),
         path'[u] = path[u], tmp' = tmp, rcvd'[u] = rcvd[u], file'[u] = file[u],
         pc'[u] \in {"idle", "named", "recv", "closed"} => pc'[u] = pc[u],
         Writing(u) => /\ names'[TempOf(u)] = names[TempOf(u)]
                       /\ disk'[file[u]] = disk[file[u]]
                       /\ lastPut' = lastPut
  PROVE  WriteOf(u)'
<1>1. TempOf(u)' = TempOf(u)
  BY DEF TempOf
<1>2. Writing(u)' => Writing(u)
  BY DEF Writing
<1>. QED  BY <1>1, <1>2 DEF WriteOf

\* The temporary files that are being written are not client visible, and
\* no two names lead to one of them.
LEMMA WriteApart ==
  ASSUME TypeOK, LinkInv, NEW u \in Put, WriteOf(u), Writing(u)
  PROVE  /\ TempOf(u) \in Temp /\ TempOf(u) \notin Path
         /\ file[u] \in Call /\ Used(file[u])
         /\ \A n \in Name : names[n] = file[u] => n = TempOf(u)
<1>1. TempOf(u) \in Temp
  BY DEF TypeOK, TempOf, Temp, Writing, Call
<1>2. TempOf(u) \in Name /\ TempOf(u) \notin Path
  BY <1>1, AfsServerAssumption DEF Name
<1>3. file[u] \in Call /\ names[TempOf(u)] = file[u]
  BY DEF WriteOf
<1>. QED  BY <1>1, <1>2, <1>3 DEF LinkInv, IsFile

\* Every step keeps what is known of the uploads being received: WriteInv
\* is inductive.
LEMMA NextWrite ==
  ASSUME TypeOK, LockOwned, LinkInv, WriteInv, ReadOpen, [Next]_vars
  PROVE  WriteInv'
<1>. SUFFICES ASSUME NEW v \in Put
              PROVE  WriteOf(v)'
  BY DEF WriteInv
<1>0. /\ Put \subseteq Call /\ Get \subseteq Call /\ Put \cap Get = {}
      /\ None \notin Call /\ Dir \notin Call /\ v \in Call /\ v \notin Get
      /\ Path \subseteq Name
  BY AfsServerAssumption DEF Call, Name
<1>a. WriteOf(v)
  BY DEF WriteInv
<1>b. Writing(v) => pc[v] \in Receiving
  BY DEF Writing, Receiving
<1>1. ASSUME NEW u \in Put, PutLock(u)
      PROVE  WriteOf(v)'
  <2>1. ~Writing(v)
    BY <1>1, <1>b, AfsServerAssumption DEF PutLock, LockOwned, Call
  <2>2. CASE u # v
    BY <1>0, <1>1, <1>a, <2>1, <2>2, WriteFrame DEF PutLock, TypeOK, OpenTemp
  <2>3. CASE u = v /\ path[u] = None
    BY <1>0, <1>1, <1>a, <2>3 DEF PutLock, TypeOK, OpenTemp, WriteOf, Writing
  <2>4. CASE u = v /\ path[u] # None
    <3>. DEFINE i == IF IsFile(TempOf(u)) THEN names[TempOf(u)] ELSE u
    <3>1. i \in Call /\ TempOf(u) \in Name
      BY <1>0, <2>4 DEF TypeOK, IsFile, TempOf, Temp, Name
    <3>2. names' = [names EXCEPT ![TempOf(u)] = i] /\ disk' = Written(i, <<>>)
          /\ file' = [file EXCEPT ![u] = i]
      BY <1>1, <2>4 DEF PutLock, OpenTemp
    <3>3. TempOf(u)' = TempOf(u)
      BY <1>1 DEF PutLock, TempOf
    <3>4. rcvd'[u] = 0 /\ pc'[u] = "recv" /\ path'[u] = path[u]
      BY <1>0, <1>1, <1>a, <2>4 DEF PutLock, TypeOK, WriteOf
    <3>. HIDE DEF i
    <3>5. file'[u] = i /\ names'[TempOf(u)] = i
      BY <1>0, <3>1, <3>2 DEF TypeOK
    <3>6. disk'[i].data = Part(u, 0) /\ disk'[i].mtime = now
      BY <3>1, <3>2, PartEmpty DEF TypeOK, Written
    <3>7. lastPut' = lastPut /\ lastPut <= now
      BY <1>1, AfsServerAssumption DEF PutLock, TypeOK
    <3>8. now \in Nat /\ lastPut \in Nat
      BY AfsServerAssumption DEF TypeOK
    <3>. QED  BY <2>4, <3>1, <3>3, <3>4, <3>5, <3>6, <3>7, <3>8 DEF WriteOf
  <2>. QED  BY <2>2, <2>3, <2>4
<1>2. ASSUME NEW u \in Put, PutRecv(u)
      PROVE  WriteOf(v)'
  <2>1. CASE u = v
    <3>1. Writing(v) /\ file[v] \in Call /\ disk[file[v]].data = Part(v, rcvd[v])
      BY <1>2, <1>a, <2>1 DEF PutRecv, WriteOf, Writing
    <3>2. disk'[file[v]] = [data |-> Part(v, rcvd[v] + 1), mtime |-> now]
      <4>1. rcvd[v] \in Nat
        BY AfsServerAssumption DEF TypeOK
      <4>2. Append(disk[file[v]].data, <<v, rcvd[v] + 1>>) = Part(v, rcvd[v] + 1)
        BY <3>1, <4>1, PartAppend
      <4>. QED  BY <1>2, <2>1, <3>1, <4>2 DEF PutRecv, Written, TypeOK
    <3>3. rcvd'[v] = rcvd[v] + 1 /\ names' = names /\ file' = file /\ pc' = pc
          /\ path' = path /\ TempOf(v)' = TempOf(v) /\ lastPut' = lastPut
      BY <1>2, <2>1 DEF PutRecv, TypeOK, TempOf
    <3>4. lastPut <= now /\ now \in Nat /\ lastPut \in Nat
      BY AfsServerAssumption DEF TypeOK
    <3>5. pc[v] = "recv"
      BY <1>2, <2>1 DEF PutRecv
    <3>. QED  BY <1>a, <3>1, <3>2, <3>3, <3>4, <3>5 DEF WriteOf, Writing
  <2>2. CASE u # v
    <3>1. ~Writing(v)
      BY <1>2, <1>b, <2>2, OneWriter DEF PutRecv, Receiving
    <3>. QED  BY <1>2, <1>a, <2>2, <3>1, WriteFrame DEF PutRecv, TypeOK
  <2>. QED  BY <2>1, <2>2
<1>3. ASSUME NEW u \in Put, PutEof(u)
      PROVE  WriteOf(v)'
  <2>1. CASE u = v
    <3>1. pc'[v] = "closed" /\ names' = names /\ file' = file /\ rcvd' = rcvd
          /\ path' = path /\ TempOf(v)' = TempOf(v) /\ lastPut' = lastPut
      BY <1>0, <1>3, <2>1 DEF PutEof, TypeOK, TempOf
    <3>2. lastPut <= now /\ now \in Nat /\ lastPut \in Nat
      BY AfsServerAssumption DEF TypeOK
    <3>3. CASE path[v] = None
      BY <3>1, <3>3 DEF WriteOf, Writing
    <3>4. CASE path[v] # None
      <4>1. Writing(v) /\ file[v] \in Call
        BY <1>3, <1>a, <2>1, <3>4 DEF PutEof, Writing, WriteOf
      <4>2. disk'[file[v]].data = disk[file[v]].data
            /\ (disk'[file[v]].mtime = disk[file[v]].mtime \/ disk'[file[v]].mtime = now)
        BY <1>3, <2>1, <4>1 DEF PutEof, Written, TypeOK
      <4>. QED  BY <1>a, <3>1, <3>2, <4>1, <4>2 DEF WriteOf, Writing
    <3>. QED  BY <3>3, <3>4
  <2>2. CASE u # v
    <3>1. ~Writing(v)
      BY <1>3, <1>b, <2>2, OneWriter DEF PutEof, Receiving
    <3>. QED  BY <1>3, <1>a, <2>2, <3>1, WriteFrame DEF PutEof, TypeOK
  <2>. QED  BY <2>1, <2>2
<1>4. ASSUME NEW u \in Put, PutRename(u)
      PROVE  WriteOf(v)'
  <2>1. CASE u = v
    BY <1>0, <1>4, <2>1 DEF PutRename, TypeOK, WriteOf, Writing
  <2>2. CASE u # v
    <3>1. ~Writing(v)
      BY <1>4, <1>b, <2>2, OneWriter DEF PutRename, Receiving
    <3>. QED  BY <1>4, <1>a, <2>2, <3>1, WriteFrame DEF PutRename, TypeOK
  <2>. QED  BY <2>1, <2>2
<1>5. ASSUME NEW u \in Put, PutRenameFails(u) \/ PutUnlock(u) \/ PutReply(u)
      PROVE  WriteOf(v)'
  BY <1>0, <1>5, <1>a, WriteFrame DEF PutRenameFails, PutUnlock, PutReply, TypeOK
<1>6. ASSUME NEW u \in Put, NEW p \in Path \cup {None}, PutBegin(u, p)
      PROVE  WriteOf(v)'
  <2>1. CASE u = v
    BY <1>0, <1>6, <1>a, <2>1 DEF PutBegin, TypeOK, WriteOf, Writing
  <2>2. CASE u # v
    BY <1>0, <1>6, <1>a, <2>2, WriteFrame DEF PutBegin, TypeOK
  <2>. QED  BY <2>1, <2>2
<1>7. ASSUME NEW g \in Get, NEW trunc \in BOOLEAN, GetCreate(g, trunc)
      PROVE  WriteOf(v)'
  <2>1. pc'[v] = pc[v] /\ path' = path /\ tmp' = tmp /\ rcvd' = rcvd
        /\ file' = file /\ lastPut' = lastPut
    BY <1>0, <1>7 DEF GetCreate, TypeOK
  <2>2. ASSUME Writing(v)
        PROVE  /\ names'[TempOf(v)] = names[TempOf(v)]
               /\ disk'[file[v]] = disk[file[v]]
    <3>1. /\ TempOf(v) \in Name /\ TempOf(v) \notin Path
          /\ Used(file[v]) /\ file[v] \in Call
          /\ \A n \in Name : names[n] = file[v] => n = TempOf(v)
      BY <1>a, <2>2, WriteApart DEF Name
    <3>2. ~Used(g) /\ g \in Call
      BY <1>0, <1>7 DEF GetCreate, Used
    <3>3. path[g] \in Path /\ path[g] # TempOf(v)
      BY <1>7, <3>1 DEF GetCreate, ReadOpen
    <3>4. names'[TempOf(v)] = names[TempOf(v)]
      BY <1>7, <3>1, <3>3 DEF GetCreate, TypeOK
    <3>5. IsFile(path[g]) => names[path[g]] # file[v] /\ names[path[g]] \in Call
      BY <1>0, <3>1, <3>3 DEF IsFile
    <3>6. g # file[v]
      BY <3>1, <3>2
    <3>7. disk'[file[v]] = disk[file[v]]
      BY <1>7, <3>1, <3>2, <3>5, <3>6 DEF GetCreate, Written, TypeOK
    <3>. QED  BY <3>4, <3>7
  <2>. QED  BY <1>a, <2>1, <2>2, WriteFrame
<1>8. ASSUME NEW g \in Get,
             \/ GetChunk(g) \/ GetEof(g) \/ GetCut(g)
             \/ \E p \in Path, isCreate \in BOOLEAN : GetBegin(g, p, isCreate)
      PROVE  WriteOf(v)'
  <2>1. pc'[v] = pc[v] /\ path'[v] = path[v] /\ tmp' = tmp /\ rcvd' = rcvd
        /\ file'[v] = file[v] /\ lastPut' = lastPut /\ disk' = disk /\ names' = names
    BY <1>0, <1>8 DEF GetChunk, GetEof, GetCut, GetBegin, TypeOK
  <2>. QED  BY <1>a, <2>1, WriteFrame
<1>9. ASSUME NEW p \in Path,
             Unlink(p) \/ Mkdir(p) \/ Rmdir(p) \/ \E q \in Path : Rename(p, q)
      PROVE  WriteOf(v)'
  <2>1. pc' = pc /\ path' = path /\ tmp' = tmp /\ rcvd' = rcvd
        /\ file' = file /\ lastPut' = lastPut /\ disk' = disk
    BY <1>9 DEF Unlink, Mkdir, Rmdir, Rename, calls
  <2>2. \A n \in Name : n \notin Path => names'[n] = names[n]
    BY <1>9 DEF Unlink, Mkdir, Rmdir, Rename, TypeOK
  <2>3. Writing(v) => TempOf(v) \in Name /\ TempOf(v) \notin Path
    BY <1>a, WriteApart DEF Name
  <2>. QED  BY <1>a, <2>1, <2>2, <2>3, WriteFrame
<1>10. CASE Crash
  <2>1. pc'[v] \in {"idle", "named", "recv", "closed"} => pc'[v] = pc[v]
    BY <1>0, <1>10 DEF Crash
  <2>. QED  BY <1>10, <1>a, <2>1, WriteFrame DEF Crash
<1>11. CASE Tick \/ UNCHANGED vars
  BY <1>11, <1>a, WriteFrame DEF Tick, vars, calls
<1>. QED
  BY <1>1, <1>2, <1>3, <1>4, <1>5, <1>6, <1>7, <1>8, <1>9, <1>10, <1>11
     DEF Next, PutStep, GetStep

----------------------------------------------------------------------------
(* Contents and streams                                                    *)

\* The steps that write files.
LEMMA WhoWrites ==
  ASSUME [Next]_vars
  PROVE  \/ UNCHANGED disk
         \/ \E u \in Put : PutLock(u) \/ PutRecv(u) \/ PutEof(u)
         \/ \E g \in Get, trunc \in BOOLEAN : GetCreate(g, trunc)
BY DEF Next, PutStep, GetStep, vars, PutRename, PutRenameFails, PutUnlock, PutReply,
       PutBegin, GetChunk, GetEof, GetCut, GetBegin, Unlink, Mkdir, Rmdir, Rename,
       Crash, Tick

\* Every step that writes a file empties it or extends a part of an upload.
LEMMA NextVersion ==
  ASSUME TypeOK, WriteInv, VersionInv, [Next]_vars
  PROVE  VersionInv'
<1>. SUFFICES ASSUME NEW c \in Call
              PROVE  disk'[c].data \in Version
  BY DEF VersionInv
<1>0. disk[c].data \in Version /\ <<>> \in Version
  BY DEF VersionInv, Version
<1>1. ASSUME NEW i, NEW d \in Version, disk' = Written(i, d)
      PROVE  disk'[c].data \in Version
  BY <1>0, <1>1 DEF Written, TypeOK
<1>2. ASSUME NEW u \in Put, PutLock(u)
      PROVE  disk'[c].data \in Version
  BY <1>0, <1>1, <1>2 DEF PutLock, OpenTemp
<1>3. ASSUME NEW u \in Put, PutRecv(u)
      PROVE  disk'[c].data \in Version
  <2>1. rcvd[u] \in Nat /\ rcvd[u] + 1 \in 0..Chunks
    BY <1>3, AfsServerAssumption DEF PutRecv, TypeOK
  <2>2. disk[file[u]].data = Part(u, rcvd[u])
    BY <1>3 DEF PutRecv, WriteInv, WriteOf, Writing
  <2>3. Append(disk[file[u]].data, <<u, rcvd[u] + 1>>) \in Version
    <3>1. Append(disk[file[u]].data, <<u, rcvd[u] + 1>>) = Part(u, rcvd[u] + 1)
      BY <2>1, <2>2, PartAppend
    <3>2. Part(u, rcvd[u] + 1) \in Version
      BY <2>1 DEF Version
    <3>. QED  BY <3>1, <3>2
  <2>. QED  BY <1>1, <1>3, <2>3 DEF PutRecv
<1>4. ASSUME NEW u \in Put, PutEof(u)
      PROVE  disk'[c].data \in Version
  <2>1. CASE file[u] # None /\ disk' = Written(file[u], disk[file[u]].data)
    <3>1. file[u] \in Call
      BY <2>1 DEF TypeOK, Call
    <3>. QED  BY <1>1, <2>1, <3>1 DEF VersionInv
  <2>. QED  BY <1>0, <1>4, <2>1 DEF PutEof
<1>5. ASSUME NEW g \in Get, NEW trunc \in BOOLEAN, GetCreate(g, trunc)
      PROVE  disk'[c].data \in Version
  BY <1>0, <1>1, <1>5 DEF GetCreate
<1>6. CASE UNCHANGED disk
  BY <1>0, <1>6
<1>. QED  BY <1>2, <1>3, <1>4, <1>5, <1>6, WhoWrites

\* The steps that change the directory.
LEMMA WhoRenames ==
  ASSUME [Next]_vars
  PROVE  \/ UNCHANGED names
         \/ \E u \in Put : PutLock(u) \/ PutRename(u)
         \/ \E g \in Get, trunc \in BOOLEAN : GetCreate(g, trunc)
         \/ \E p \in Path : Unlink(p) \/ Mkdir(p) \/ Rmdir(p) \/ \E q \in Path : Rename(p, q)
BY DEF Next, PutStep, GetStep, vars, PutRecv, PutEof, PutRenameFails, PutUnlock, PutReply,
       PutBegin, GetChunk, GetEof, GetCut, GetBegin, Crash, Tick

\* PutFile handlers do not touch Open calls.
LEMMA PutLeavesGets ==
  ASSUME TypeOK, NEW u \in Put,
         PutStep(u) \/ \E p \in Path \cup {None} : PutBegin(u, p),
         NEW g \in Get
  PROVE  pc'[g] = pc[g] /\ path'[g] = path[g] /\ file'[g] = file[g] /\ got' = got
<1>0. u \in Call /\ g \in Call /\ u # g
  BY AfsServerAssumption DEF Call
<1>1. CASE PutLock(u)
  BY <1>0, <1>1 DEF PutLock, OpenTemp, TypeOK
<1>2. CASE PutStep(u) /\ ~PutLock(u)
  BY <1>0, <1>2 DEF PutStep, PutRecv, PutEof, PutRename, PutRenameFails, PutUnlock,
                    PutReply, TypeOK
<1>3. CASE \E p \in Path \cup {None} : PutBegin(u, p)
  BY <1>0, <1>3 DEF PutBegin, TypeOK
<1>. QED  BY <1>1, <1>2, <1>3

\* An Open call that is reading has an inode open.
LEMMA NextOpen ==
  ASSUME TypeOK, ReadOpen, [Next]_vars
  PROVE  ReadOpen'
<1>0. Put \subseteq Call /\ Get \subseteq Call /\ Put \cap Get = {}
  BY AfsServerAssumption DEF Call
<1>1. ASSUME NEW u \in Put, PutStep(u) \/ \E p \in Path \cup {None} : PutBegin(u, p)
      PROVE  ReadOpen'
  <2>1. \A g \in Get : pc'[g] = pc[g] /\ path'[g] = path[g] /\ file'[g] = file[g]
    BY <1>1, PutLeavesGets
  <2>. QED  BY <2>1 DEF ReadOpen
<1>2. ASSUME NEW g \in Get, NEW p \in Path, NEW isCreate \in BOOLEAN,
             GetBegin(g, p, isCreate)
      PROVE  ReadOpen'
  BY <1>0, <1>2 DEF GetBegin, ReadOpen, IsFile, TypeOK
<1>3. ASSUME NEW g \in Get, GetStep(g)
      PROVE  ReadOpen'
  <2>1. path' = path /\ file' = file
        /\ \A h \in Get : pc'[h] \in {"absent", "read"} => pc'[h] = pc[h]
    BY <1>0, <1>3 DEF GetStep, GetCreate, GetChunk, GetEof, GetCut, TypeOK
  <2>. QED  BY <2>1 DEF ReadOpen
<1>4. ASSUME NEW p \in Path,
             Unlink(p) \/ Mkdir(p) \/ Rmdir(p) \/ \E q \in Path : Rename(p, q)
      PROVE  ReadOpen'
  BY <1>4 DEF Unlink, Mkdir, Rmdir, Rename, calls, ReadOpen
<1>5. CASE Crash
  BY <1>0, <1>5 DEF Crash, ReadOpen
<1>6. CASE Tick \/ UNCHANGED vars
  BY <1>6 DEF Tick, vars, calls, ReadOpen
<1>. QED  BY <1>1, <1>2, <1>3, <1>4, <1>5, <1>6 DEF Next

\* A stream survives a step that leaves its call alone and gives its inode
\* no temporary name.
LEMMA NextRead ==
  ASSUME TypeOK, LinkInv, ReadOpen, ReadInv, [Next]_vars
  PROVE  ReadInv'
<1>0. /\ Put \subseteq Call /\ Get \subseteq Call /\ Put \cap Get = {}
      /\ None \notin Call /\ Dir \notin Call /\ Temp \subseteq Name /\ Path \subseteq Name
      /\ Path \cap Temp = {}
  BY AfsServerAssumption DEF Call, Name
<1>1. SUFFICES ASSUME NEW g \in Get, pc'[g] = "read",
                      ~ \E p \in Path, isCreate \in BOOLEAN : GetBegin(g, p, isCreate)
               PROVE  Used(file[g])' /\ \A n \in Temp : names'[n] # file'[g]
  <2>1. ASSUME NEW g \in Get, NEW p \in Path, NEW isCreate \in BOOLEAN,
               GetBegin(g, p, isCreate), pc'[g] = "read"
        PROVE  Used(file[g])' /\ \A n \in Temp : names'[n] # file'[g]
    <3>1. IsFile(p) /\ file'[g] = names[p] /\ names' = names
      BY <1>0, <2>1 DEF GetBegin, TypeOK
    <3>2. names[p] \in Call /\ Used(names[p]) /\ p \in Name
      BY <1>0, <3>1 DEF LinkInv, IsFile
    <3>4. Used(file[g])'
      BY <3>1, <3>2, UsedStays DEF Used
    <3>3. \A n \in Temp : names[n] # names[p]
      BY <1>0, <3>2 DEF LinkInv, IsFile
    <3>. QED  BY <3>1, <3>3, <3>4
  <2>. QED  BY <2>1 DEF ReadInv
<1>2. pc[g] = "read" /\ file'[g] = file[g]
  <2>1. ASSUME NEW u \in Put, PutStep(u) \/ \E p \in Path \cup {None} : PutBegin(u, p)
        PROVE  pc[g] = pc'[g] /\ file'[g] = file[g]
    BY <2>1, PutLeavesGets
  <2>2. ASSUME NEW h \in Get, GetStep(h)
        PROVE  pc[g] = "read" /\ file'[g] = file[g]
    BY <1>0, <1>1, <2>2 DEF GetStep, GetCreate, GetChunk, GetEof, GetCut, TypeOK
  <2>6. ASSUME NEW h \in Get, NEW p \in Path, NEW isCreate \in BOOLEAN,
               GetBegin(h, p, isCreate)
        PROVE  pc[g] = "read" /\ file'[g] = file[g]
    <3>1. h # g
      BY <1>1, <2>6
    <3>. QED  BY <1>0, <1>1, <2>6, <3>1 DEF GetBegin, TypeOK
  <2>3. ASSUME NEW p \in Path,
               Unlink(p) \/ Mkdir(p) \/ Rmdir(p) \/ \E q \in Path : Rename(p, q)
        PROVE  pc[g] = pc'[g] /\ file'[g] = file[g]
    BY <2>3 DEF Unlink, Mkdir, Rmdir, Rename, calls
  <2>4. CASE Crash
    <3>1. g \in Call /\ pc'[g] # "aborted"
      BY <1>0, <1>1
    <3>2. pc'[g] = pc[g]
      BY <2>4, <3>1 DEF Crash
    <3>. QED  BY <1>1, <2>4, <3>2 DEF Crash
  <2>5. CASE Tick \/ UNCHANGED vars
    BY <1>1, <2>5 DEF Tick, vars, calls
  <2>. QED
    <3>1. pc[g] = pc'[g] => pc[g] = "read"
      BY <1>1
    <3>. QED  BY <1>1, <2>1, <2>2, <2>3, <2>4, <2>5, <2>6, <3>1 DEF Next
<1>3. /\ file[g] \in Call /\ Used(file[g]) /\ Used(file[g])'
      /\ \A n \in Temp : names[n] # file[g]
  <2>1. /\ file[g] \in Call /\ Used(file[g])
        /\ \A n \in Temp : names[n] # file[g]
    BY <1>2 DEF ReadInv, ReadOpen
  <2>. QED  BY <1>2, <2>1, UsedStays DEF Used
<1>4. ASSUME NEW n \in Temp
      PROVE  names'[n] # file[g]
  <2>1. ASSUME NEW u \in Put, PutLock(u)
        PROVE  names'[n] # file[g]
    <3>1. ~Used(u)
      BY <2>1 DEF PutLock, Used
    <3>2. u # file[g]
      BY <1>3, <3>1
    <3>3. CASE names' = names
      BY <1>3, <3>3
    <3>4. CASE names' = [names EXCEPT ![TempOf(u)] = IF IsFile(TempOf(u)) THEN names[TempOf(u)] ELSE u]
      BY <1>0, <1>3, <3>2, <3>4 DEF TypeOK
    <3>. QED  BY <2>1, <3>3, <3>4 DEF PutLock, OpenTemp
  <2>2. ASSUME NEW u \in Put, PutRename(u)
        PROVE  names'[n] # file[g]
    <3>1. path[u] \in Path
      BY <1>0, <2>2 DEF PutRename, CanReplace, TypeOK
    <3>2. n # path[u]
      BY <1>0, <3>1
    <3>. QED  BY <1>0, <1>3, <2>2, <3>2 DEF PutRename, TypeOK
  <2>3. ASSUME NEW h \in Get, NEW trunc \in BOOLEAN, GetCreate(h, trunc)
        PROVE  names'[n] # file[g]
    <3>1. path[h] \in Path /\ n # path[h]
      BY <1>0, <2>3 DEF GetCreate, ReadOpen
    <3>. QED  BY <1>0, <1>3, <2>3, <3>1 DEF GetCreate, TypeOK
  <2>4. ASSUME NEW p \in Path,
               Unlink(p) \/ Mkdir(p) \/ Rmdir(p) \/ \E q \in Path : Rename(p, q)
        PROVE  names'[n] # file[g]
    <3>1. names'[n] = names[n]
      BY <1>0, <2>4 DEF Unlink, Mkdir, Rmdir, Rename, TypeOK
    <3>. QED  BY <1>3, <3>1
  <2>5. CASE UNCHANGED names
    BY <1>3, <2>5
  <2>. QED  BY <2>1, <2>2, <2>3, <2>4, <2>5, WhoRenames
<1>. QED  BY <1>2, <1>3, <1>4

\* The file a stream comes from is the one at its path when it was opened;
\* only a truncating Open can change it, and only to the empty file.
LEMMA StreamSource ==
  ASSUME TypeOK, WriteInv, ReadOpen, ReadInv, [Next]_vars,
         NEW g \in Get, pc[g] = "read"
  PROVE  disk'[file[g]].data = disk[file[g]].data \/ disk'[file[g]].data = <<>>
<1>0. Put \subseteq Call /\ Get \subseteq Call /\ Temp \subseteq Name
  BY DEF Call, Name
<1>1. file[g] \in Call /\ Used(file[g]) /\ \A n \in Temp : names[n] # file[g]
  BY DEF ReadOpen, ReadInv
<1>2. ASSUME NEW i, i # file[g], NEW d, disk' = Written(i, d)
      PROVE  disk'[file[g]] = disk[file[g]]
  BY <1>1, <1>2 DEF Written, TypeOK
<1>3. ASSUME NEW u \in Put, PutLock(u)
      PROVE  disk'[file[g]].data = disk[file[g]].data \/ disk'[file[g]].data = <<>>
  <2>1. ASSUME NEW i, disk' = Written(i, <<>>)
        PROVE  disk'[file[g]].data = disk[file[g]].data \/ disk'[file[g]].data = <<>>
    BY <1>1, <2>1 DEF Written, TypeOK
  <2>. QED  BY <1>3, <2>1 DEF PutLock, OpenTemp
<1>4. ASSUME NEW u \in Put, PutRecv(u)
      PROVE  disk'[file[g]] = disk[file[g]]
  <2>1. names[TempOf(u)] = file[u] /\ TempOf(u) \in Temp
    BY <1>0, <1>4 DEF PutRecv, WriteInv, WriteOf, Writing, TypeOK, TempOf, Temp
  <2>. QED  BY <1>1, <1>2, <1>4, <2>1 DEF PutRecv
<1>5. ASSUME NEW u \in Put, PutEof(u)
      PROVE  disk'[file[g]].data = disk[file[g]].data
  <2>1. CASE UNCHANGED disk
    BY <2>1
  <2>2. CASE disk' = Written(file[u], disk[file[u]].data)
    <3>1. CASE file[u] = file[g]
      BY <1>1, <2>2, <3>1 DEF Written, TypeOK
    <3>2. CASE file[u] # file[g]
      BY <1>2, <2>2, <3>2
    <3>. QED  BY <3>1, <3>2
  <2>. QED  BY <1>5, <2>1, <2>2 DEF PutEof
<1>6. ASSUME NEW h \in Get, NEW trunc \in BOOLEAN, GetCreate(h, trunc)
      PROVE  disk'[file[g]].data = disk[file[g]].data \/ disk'[file[g]].data = <<>>
  <2>1. ASSUME NEW i, disk' = Written(i, <<>>)
        PROVE  disk'[file[g]].data = disk[file[g]].data \/ disk'[file[g]].data = <<>>
    BY <1>1, <2>1 DEF Written, TypeOK
  <2>. QED  BY <1>6, <2>1 DEF GetCreate
<1>. QED  BY <1>3, <1>4, <1>5, <1>6, WhoWrites

\* What a reader got is the beginning of the content it is reading, and the
\* next chunk extends it; an emptied file ends the stream.
LEMMA NextGot ==
  ASSUME TypeOK, WriteInv, VersionInv, ReadOpen, ReadInv, GotInv, [Next]_vars
  PROVE  GotInv'
<1>. SUFFICES ASSUME NEW g \in Get
              PROVE  /\ pc'[g] = "idle" => got'[g] = <<>>
                     /\ got'[g] \in Version
                     /\ pc'[g] = "read" => Streams(disk'[file'[g]].data, got'[g])
  BY DEF GotInv
<1>0. Put \subseteq Call /\ Get \subseteq Call /\ g \in Call
  BY DEF Call
<1>1. /\ pc[g] = "idle" => got[g] = <<>>
      /\ got[g] \in Version
      /\ pc[g] = "read" => Streams(disk[file[g]].data, got[g])
  BY DEF GotInv
<1>2. ASSUME got'[g] = got[g], file'[g] = file[g], pc'[g] = pc[g] \/ pc'[g] \notin {"idle", "read"}
      PROVE  /\ pc'[g] = "idle" => got'[g] = <<>>
             /\ got'[g] \in Version
             /\ pc'[g] = "read" => Streams(disk'[file'[g]].data, got'[g])
  BY <1>1, <1>2, StreamSource DEF Streams
<1>3. ASSUME NEW p \in Path, NEW isCreate \in BOOLEAN, GetBegin(g, p, isCreate)
      PROVE  /\ pc'[g] = "idle" => got'[g] = <<>>
             /\ got'[g] \in Version
             /\ pc'[g] = "read" => Streams(disk'[file'[g]].data, got'[g])
  <2>1. got'[g] = <<>> /\ pc'[g] # "idle" /\ disk' = disk
    BY <1>0, <1>1, <1>3 DEF GetBegin, TypeOK
  <2>2. pc'[g] = "read" => file'[g] \in Call
    BY <1>0, <1>3 DEF GetBegin, IsFile, TypeOK
  <2>3. pc'[g] = "read" => disk[file'[g]].data \in Version
    BY <2>2 DEF VersionInv
  <2>4. \A v \in Version : Streams(v, <<>>)
    BY PartEmpty, AfsServerAssumption DEF Version, Streams
  <2>. QED  BY <2>1, <2>3, <2>4 DEF Version
<1>4. CASE GetChunk(g)
  <2>1. pc[g] = "read" /\ pc' = pc /\ file' = file /\ disk' = disk
        /\ got'[g] = Append(got[g], disk[file[g]].data[Len(got[g]) + 1])
        /\ Len(got[g]) < Len(disk[file[g]].data)
    BY <1>4 DEF GetChunk, TypeOK
  <2>2. disk[file[g]].data # <<>>
    <3>1. got[g] \in Seq(Chunk)
      BY DEF TypeOK, Chunk
    <3>. QED  BY <2>1, <3>1
  <2>. PICK u \in Put, n \in 0..Chunks :
         \E m \in 0..n : disk[file[g]].data = Part(u, n) /\ got[g] = Part(u, m)
    BY <1>1, <2>1, <2>2 DEF Streams
  <2>3. PICK m \in 0..n : disk[file[g]].data = Part(u, n) /\ got[g] = Part(u, m)
    OBVIOUS
  <2>4. m \in Nat /\ m + 1 \in 0..n /\ m + 1 \in 0..Chunks /\ m \in 0..Chunks
    BY <2>1, <2>3, VersionType, AfsServerAssumption
  <2>5. got'[g] = Part(u, m + 1)
    <3>1. disk[file[g]].data[Len(got[g]) + 1] = <<u, m + 1>>
      BY <2>3, <2>4, VersionType
    <3>. QED  BY <2>1, <2>3, <2>4, <3>1, PartAppend
  <2>6. Streams(disk[file[g]].data, Part(u, m + 1))
    BY <2>3, <2>4 DEF Streams
  <2>7. Part(u, m + 1) \in Version
    BY <2>4 DEF Version
  <2>. QED  BY <2>1, <2>5, <2>6, <2>7
<1>5. ASSUME NEW h \in Get,
             \/ h # g /\ GetChunk(h)
             \/ h # g /\ \E p \in Path, isCreate \in BOOLEAN : GetBegin(h, p, isCreate)
             \/ GetEof(h) \/ GetCut(h) \/ \E trunc \in BOOLEAN : GetCreate(h, trunc)
      PROVE  got'[g] = got[g] /\ file'[g] = file[g]
             /\ (pc'[g] = pc[g] \/ pc'[g] \notin {"idle", "read"})
  BY <1>0, <1>5 DEF GetChunk, GetBegin, GetEof, GetCut, GetCreate, TypeOK
<1>6. ASSUME \/ \E p \in Path : Unlink(p) \/ Mkdir(p) \/ Rmdir(p) \/ \E q \in Path : Rename(p, q)
             \/ Tick \/ UNCHANGED vars
      PROVE  got' = got /\ file' = file /\ pc' = pc
  BY <1>6 DEF Unlink, Mkdir, Rmdir, Rename, Tick, vars, calls
<1>7. CASE Crash
  <2>1. pc'[g] = pc[g] \/ pc'[g] = "aborted"
    BY <1>0, <1>7 DEF Crash
  <2>. QED  BY <1>2, <1>7, <2>1 DEF Crash
<1>. QED  BY <1>2, <1>3, <1>4, <1>5, <1>6, <1>7, PutLeavesGets DEF Next, GetStep

\* PutRename shows at the path the inode the upload wrote.
LEMMA PublishedInode ==
  ASSUME TypeOK, LinkInv, WriteInv, NEW u \in Put, PutRename(u)
  PROVE  /\ path[u] \in Path /\ file[u] \in Call /\ rcvd[u] \in 0..Chunks
         /\ \A p \in Path : names'[p] = IF p = path[u] THEN file[u] ELSE names[p]
         /\ disk[file[u]].data = Part(u, rcvd[u])
         /\ disk[file[u]].mtime \in lastPut..now
<1>1. path[u] \in Path /\ Writing(u)
  BY DEF PutRename, CanReplace, Writing, TypeOK, Call
<1>2. /\ TempOf(u) \in Temp /\ TempOf(u) \notin Path /\ file[u] \in Call
  BY <1>1, WriteApart DEF WriteInv
<1>3. /\ names[TempOf(u)] = file[u] /\ disk[file[u]].data = Part(u, rcvd[u])
      /\ disk[file[u]].mtime >= lastPut
  BY <1>1 DEF WriteInv, WriteOf
<1>4. disk[file[u]].mtime \in lastPut..now
  <2>1. disk[file[u]].mtime \in 0..MaxNow /\ disk[file[u]].mtime <= now
    BY <1>2 DEF TypeOK
  <2>. QED  BY <1>3, <2>1, AfsServerAssumption DEF TypeOK
<1>5. \A p \in Path : names'[p] = IF p = path[u] THEN file[u] ELSE names[p]
  BY <1>1, <1>2, <1>3 DEF PutRename, TypeOK, Name
<1>. QED  BY <1>1, <1>2, <1>3, <1>4, <1>5 DEF TypeOK

----------------------------------------------------------------------------
(* The invariant, and the theorems                                         *)

\* The inductive invariant holds when the server starts.
LEMMA InitInv == Init => IInv
<1>. SUFFICES ASSUME Init PROVE IInv
  OBVIOUS
<1>0. Dir \notin Call /\ None \notin Call /\ Put \subseteq Call /\ Get \subseteq Call
  BY AfsServerAssumption DEF Call
<1>1. TypeOK
  BY TypeInit
<1>2. LockOwned
  BY <1>0 DEF Init, LockOwned, Receiving
<1>3. LinkInv
  BY <1>0 DEF Init, LinkInv, IsFile
<1>4. WriteInv
  BY <1>0 DEF Init, WriteInv, WriteOf, Writing
<1>5. VersionInv
  BY DEF Init, VersionInv, Version
<1>6. ReadOpen /\ ReadInv
  BY <1>0 DEF Init, ReadOpen, ReadInv
<1>7. GotInv
  BY <1>0 DEF Init, GotInv, Version
<1>. QED  BY <1>1, <1>2, <1>3, <1>4, <1>5, <1>6, <1>7 DEF IInv

\* Every step of every handler preserves the inductive invariant.
LEMMA NextInv == IInv /\ [Next]_vars => IInv'
BY NextType, NextLock, NextLink, NextWrite, NextVersion, NextOpen, NextRead, NextGot
   DEF IInv

\* The inductive invariant holds in every state of the server, whatever its
\* calls do and whenever it crashes.
THEOREM Invariance == Spec => []IInv
BY InitInv, NextInv, PTL DEF Spec

\* The state of the server always has the form TypeOK says.
THEOREM TypeCorrect == Spec => []TypeOK
BY Invariance, PTL DEF IInv

\* Nobody but the upload that is receiving, or one whose rename failed, holds
\* the mutex, however many uploads compete for it.
THEOREM MutexOwned == Spec => []LockOwned
BY Invariance, PTL DEF IInv

\* A client visible file never mixes two uploads, whatever temporary names
\* random_string draws.
THEOREM FilesAreVersions == Spec => []OneUpload
<1>1. IInv => OneUpload
  BY DEF IInv, VersionInv, OneUpload, IsFile
<1>. QED  BY <1>1, Invariance, PTL

\* An Open call never streams a mixture of two uploads.
THEOREM StreamsAreVersions == Spec => []ReadsOneVersion
<1>1. IInv => ReadsOneVersion
  BY DEF IInv, GotInv, ReadsOneVersion
<1>. QED  BY <1>1, Invariance, PTL

----------------------------------------------------------------------------
(* Temporary files                                                         *)

\* Who answers for a temporary file goes on doing so in a step that gives no
\* new temporary name and begins, renames and unlocks nothing.
LEMMA StrayFrame ==
  ASSUME NoStrayTemp, path' = path, tmp' = tmp,
         \A n \in Temp : names'[n] # None => names[n] # None,
         \A u \in Put : pc[u] \in {"recv", "closed", "stuck", "aborted"}
                          => pc'[u] \in {"recv", "closed", "stuck", "aborted"}
  PROVE  NoStrayTemp'
BY DEF NoStrayTemp, TempOf

\* Only a crash or a failed rename leaves a temporary file without an upload.
LEMMA NextStray ==
  ASSUME TypeOK, ReadOpen, NoStrayTemp, [Next]_vars
  PROVE  NoStrayTemp'
<1>0. Put \subseteq Call /\ Get \subseteq Call /\ Put \cap Get = {} /\ Path \cap Temp = {}
  BY AfsServerAssumption DEF Call
<1>1. ASSUME NEW u \in Put, NEW p \in Path \cup {None}, PutBegin(u, p)
      PROVE  NoStrayTemp'
  <2>1. ASSUME NEW n \in Temp, names'[n] # None
        PROVE  \E v \in Put : /\ <<path'[v], tmp'[v]>> = n
                              /\ pc'[v] \in {"recv", "closed", "stuck", "aborted"}
    <3>1. PICK v \in Put : /\ TempOf(v) = n
                           /\ pc[v] \in {"recv", "closed", "stuck", "aborted"}
      BY <1>1, <2>1 DEF PutBegin, NoStrayTemp
    <3>2. v # u
      BY <1>1, <3>1 DEF PutBegin
    <3>3. path'[v] = path[v] /\ tmp'[v] = tmp[v] /\ pc'[v] = pc[v]
      BY <1>0, <1>1, <3>2 DEF PutBegin, TypeOK
    <3>. QED  BY <3>1, <3>3 DEF TempOf
  <2>. QED  BY <2>1 DEF NoStrayTemp, TempOf
<1>2. ASSUME NEW u \in Put, PutLock(u)
      PROVE  NoStrayTemp'
  <2>1. path' = path /\ tmp' = tmp /\ pc'[u] = "recv"
        /\ \A v \in Put : v # u => pc'[v] = pc[v]
    BY <1>0, <1>2 DEF PutLock, TypeOK
  <2>2. \A n \in Temp : n # TempOf(u) => names'[n] = names[n]
    BY <1>2 DEF PutLock, OpenTemp, TypeOK, Name
  <2>3. pc[u] = "named"
    BY <1>2 DEF PutLock
  <2>4. ASSUME NEW n \in Temp, names'[n] # None
        PROVE  \E v \in Put : /\ <<path'[v], tmp'[v]>> = n
                              /\ pc'[v] \in {"recv", "closed", "stuck", "aborted"}
    <3>1. CASE n = TempOf(u)
      BY <2>1, <3>1 DEF TempOf
    <3>2. CASE n # TempOf(u)
      <4>1. PICK v \in Put : /\ TempOf(v) = n
                             /\ pc[v] \in {"recv", "closed", "stuck", "aborted"}
        BY <2>2, <2>4, <3>2 DEF NoStrayTemp
      <4>. QED  BY <2>1, <4>1, <2>3 DEF TempOf
    <3>. QED  BY <3>1, <3>2
  <2>. QED  BY <2>4 DEF NoStrayTemp, TempOf
<1>3. ASSUME NEW u \in Put, PutRecv(u) \/ PutEof(u) \/ PutRenameFails(u)
      PROVE  NoStrayTemp'
  <2>1. path' = path /\ tmp' = tmp /\ names' = names
    BY <1>3 DEF PutRecv, PutEof, PutRenameFails
  <2>2. \A v \in Put : pc[v] \in {"recv", "closed", "stuck", "aborted"}
                         => pc'[v] \in {"recv", "closed", "stuck", "aborted"}
    BY <1>0, <1>3 DEF PutRecv, PutEof, PutRenameFails, TypeOK
  <2>. QED  BY <2>1, <2>2, StrayFrame
<1>4. ASSUME NEW u \in Put, PutRename(u)
      PROVE  NoStrayTemp'
  <2>1. path' = path /\ tmp' = tmp /\ \A v \in Put : v # u => pc'[v] = pc[v]
    BY <1>0, <1>4 DEF PutRename, TypeOK
  <2>2. path[u] \in Path
    BY <1>0, <1>4 DEF PutRename, CanReplace, TypeOK
  <2>3. TempOf(u) \in Temp
    BY <2>2 DEF TempOf, Temp, TypeOK
  <2>4. names'[TempOf(u)] = None
        /\ \A n \in Temp : n # TempOf(u) => names'[n] = names[n]
    BY <1>0, <1>4, <2>2, <2>3 DEF PutRename, TypeOK, Name
  <2>5. ASSUME NEW n \in Temp, names'[n] # None
        PROVE  \E v \in Put : /\ <<path'[v], tmp'[v]>> = n
                              /\ pc'[v] \in {"recv", "closed", "stuck", "aborted"}
    <3>1. n # TempOf(u)
      BY <2>4, <2>5
    <3>2. PICK v \in Put : /\ TempOf(v) = n
                           /\ pc[v] \in {"recv", "closed", "stuck", "aborted"}
      BY <2>4, <2>5, <3>1 DEF NoStrayTemp
    <3>3. v # u
      BY <3>1, <3>2
    <3>. QED  BY <2>1, <3>2, <3>3 DEF TempOf
  <2>. QED  BY <2>5 DEF NoStrayTemp, TempOf
<1>5. ASSUME NEW u \in Put, PutUnlock(u) \/ PutReply(u)
      PROVE  NoStrayTemp'
  <2>1. path' = path /\ tmp' = tmp /\ names' = names
    BY <1>5 DEF PutUnlock, PutReply
  <2>2. \A v \in Put : pc[v] \in {"recv", "closed", "stuck", "aborted"}
                         => pc'[v] \in {"recv", "closed", "stuck", "aborted"}
    BY <1>0, <1>5 DEF PutUnlock, PutReply, TypeOK
  <2>. QED  BY <2>1, <2>2, StrayFrame
<1>6. ASSUME NEW g \in Get, NEW p \in Path, NEW isCreate \in BOOLEAN,
             GetBegin(g, p, isCreate)
      PROVE  NoStrayTemp'
  <2>1. tmp' = tmp /\ names' = names
        /\ \A v \in Put : pc'[v] = pc[v] /\ path'[v] = path[v]
    BY <1>0, <1>6 DEF GetBegin, TypeOK
  <2>. QED  BY <2>1 DEF NoStrayTemp, TempOf
<1>7. ASSUME NEW g \in Get, GetStep(g)
      PROVE  NoStrayTemp'
  <2>1. path' = path /\ tmp' = tmp /\ \A v \in Put : pc'[v] = pc[v]
    BY <1>0, <1>7 DEF GetStep, GetCreate, GetChunk, GetEof, GetCut, TypeOK
  <2>2. \A n \in Temp : names'[n] = names[n]
    <3>1. ASSUME NEW trunc \in BOOLEAN, GetCreate(g, trunc)
          PROVE  \A n \in Temp : names'[n] = names[n]
      BY <1>0, <3>1 DEF GetCreate, ReadOpen, TypeOK, Name
    <3>2. CASE GetChunk(g) \/ GetEof(g) \/ GetCut(g)
      BY <3>2 DEF GetChunk, GetEof, GetCut
    <3>. QED  BY <1>7, <3>1, <3>2 DEF GetStep
  <2>. QED  BY <2>1, <2>2, StrayFrame
<1>8. ASSUME NEW p \in Path,
             Unlink(p) \/ Mkdir(p) \/ Rmdir(p) \/ \E q \in Path : Rename(p, q)
      PROVE  NoStrayTemp'
  <2>1. path' = path /\ tmp' = tmp /\ pc' = pc
    BY <1>8 DEF Unlink, Mkdir, Rmdir, Rename, calls
  <2>2. \A n \in Temp : names'[n] = names[n]
    BY <1>0, <1>8 DEF Unlink, Mkdir, Rmdir, Rename, TypeOK, Name
  <2>. QED  BY <2>1, <2>2, StrayFrame
<1>9. CASE Crash
  <2>1. path' = path /\ tmp' = tmp /\ names' = names
    BY <1>9 DEF Crash
  <2>2. \A v \in Put : pc[v] \in {"recv", "closed", "stuck", "aborted"}
                         => pc'[v] \in {"recv", "closed", "stuck", "aborted"}
    BY <1>0, <1>9 DEF Crash
  <2>. QED  BY <2>1, <2>2, StrayFrame
<1>10. CASE Tick \/ UNCHANGED vars
  BY <1>10 DEF Tick, vars, calls, NoStrayTemp, TempOf
<1>. QED
  BY <1>1, <1>2, <1>3, <1>4, <1>5, <1>6, <1>7, <1>8, <1>9, <1>10
     DEF Next, PutStep

\* No interleaving of uploads leaves a temporary file behind: where there is
\* one, its upload is still going on, was cut off by a crash, or is the one
\* whose rename failed.
THEOREM TempFilesAccounted == Spec => []NoStrayTemp
<1>1. Init => NoStrayTemp
  BY AfsServerAssumption DEF Init, NoStrayTemp, Name
<1>2. IInv /\ NoStrayTemp /\ [Next]_vars => NoStrayTemp'
  BY NextStray DEF IInv
<1>. QED  BY <1>1, <1>2, Invariance, PTL DEF Spec

\* The modification times of published files follow the order of publication.
THEOREM TimesFollowOrder == Spec => PutTimesOrdered
<1>1. ASSUME IInv, [Next]_vars, NEW u \in Put, pc[u] = "closed", pc'[u] = "renamed"
      PROVE  disk[names'[path[u]]].mtime >= lastPut
  <2>0. Put \subseteq Call /\ Get \subseteq Call /\ Put \cap Get = {} /\ Path \subseteq Name
    BY AfsServerAssumption DEF Call, Name
  <2>1. PutRename(u)
    <3>1. ASSUME NEW v \in Put, PutStep(v) \/ \E p \in Path \cup {None} : PutBegin(v, p)
          PROVE  PutRename(u)
      <4>1. v = u
        BY <1>1, <2>0, <3>1 DEF IInv, TypeOK, PutStep, PutLock, PutRecv, PutEof,
           PutRename, PutRenameFails, PutUnlock, PutReply, PutBegin
      <4>. QED  BY <1>1, <2>0, <3>1, <4>1 DEF IInv, TypeOK, PutStep, PutLock, PutRecv,
              PutEof, PutRenameFails, PutUnlock, PutReply, PutBegin
    <3>2. ASSUME NEW g \in Get,
                 \/ GetStep(g)
                 \/ \E p \in Path, isCreate \in BOOLEAN : GetBegin(g, p, isCreate)
          PROVE  pc'[u] = pc[u]
      BY <1>1, <2>0, <3>2 DEF GetStep, GetCreate, GetChunk, GetEof, GetCut, GetBegin,
                              IInv, TypeOK
    <3>3. ASSUME NEW p \in Path,
                 Unlink(p) \/ Mkdir(p) \/ Rmdir(p) \/ \E q \in Path : Rename(p, q)
          PROVE  pc' = pc
      BY <3>3 DEF Unlink, Mkdir, Rmdir, Rename, calls
    <3>4. CASE Crash
      BY <1>1, <2>0, <3>4 DEF Crash
    <3>5. CASE Tick \/ UNCHANGED vars
      BY <1>1, <3>5 DEF Tick, vars, calls
    <3>. QED  BY <1>1, <3>1, <3>2, <3>3, <3>4, <3>5 DEF Next
  <2>2. /\ path[u] \in Path /\ names'[path[u]] = file[u]
        /\ disk[file[u]].mtime \in lastPut..now
    BY <1>1, <2>1, PublishedInode DEF IInv
  <2>. QED  BY <1>1, <2>2, AfsServerAssumption DEF IInv, TypeOK
<1>2. IInv /\ [Next]_vars
        => [\A u \in Put : pc[u] = "closed" /\ pc'[u] = "renamed"
              => disk[names'[path[u]]].mtime >= lastPut]_vars
  BY <1>1
<1>. QED  BY <1>2, Invariance, PTL DEF Spec, PutTimesOrdered

----------------------------------------------------------------------------
(* AfsServer implements FileStore                                          *)

\* Writing an inode that no path leads to shows nothing.
LEMMA ShownSame ==
  ASSUME \A p \in Path :
           /\ IsFile(p)' <=> IsFile(p)
           /\ IsFile(p) => names'[p] = names[p] /\ disk'[names[p]] = disk[names[p]]
  PROVE  Shown' = Shown
BY DEF Shown, IsFile

\* A file that is shown is never taken for a missing one.
LEMMA FileIsSome ==
  ASSUME TypeOK, VersionInv, NEW c \in Call
  PROVE  disk[c] # None
<1>1. disk[c] \in [data : Version, mtime : 0..MaxNow]
  BY DEF TypeOK, VersionInv
<1>. QED  BY <1>1, NoneIsNoFile

\* An empty directory shows an empty store.
LEMMA StoreInit == Init => Store!Init
<1>1. None \notin Call /\ Path \subseteq Name
  BY AfsServerAssumption DEF Name
<1>. QED  BY <1>1 DEF Init, Store!Init, Shown, IsFile

\* A step of a PutFile handler publishes a file or shows nothing new.
LEMMA PutShows ==
  ASSUME TypeOK, LockOwned, LinkInv, WriteInv, NEW u \in Put,
         PutStep(u) \/ \E p \in Path \cup {None} : PutBegin(u, p)
  PROVE  Store!Next \/ UNCHANGED Store!vars
<1>0. u \in Call /\ Path \subseteq Name /\ None \notin Call
  BY AfsServerAssumption DEF Call, Name
<1>1. CASE PutLock(u)
  <2>1. now' = now /\ lastPut' = lastPut
    BY <1>1 DEF PutLock
  <2>2. CASE path[u] = None
    <3>1. names' = names /\ disk' = disk
      BY <1>1, <2>2 DEF PutLock, OpenTemp
    <3>. QED  BY <2>1, <3>1, ShownSame DEF IsFile, Store!vars
  <2>3. CASE path[u] # None
    <3>. DEFINE i == IF IsFile(TempOf(u)) THEN names[TempOf(u)] ELSE u
    <3>1. TempOf(u) \in Temp
      BY <1>0, <2>3 DEF TypeOK, TempOf, Temp
    <3>2. TempOf(u) \in Name /\ TempOf(u) \notin Path
      BY <3>1, AfsServerAssumption DEF Name
    <3>3. i \in Call /\ \A p \in Path : names[p] # i
      <4>1. ~Used(u)
        BY <1>1 DEF PutLock, Used
      <4>. QED  BY <1>0, <3>2, <4>1 DEF LinkInv, IsFile
    <3>4. names' = [names EXCEPT ![TempOf(u)] = i] /\ disk' = Written(i, <<>>)
      BY <1>1, <2>3 DEF PutLock, OpenTemp
    <3>. HIDE DEF i
    <3>5. \A p \in Path : names'[p] = names[p]
      BY <1>0, <3>2, <3>4 DEF TypeOK
    <3>6. \A p \in Path : IsFile(p) => disk'[names[p]] = disk[names[p]]
      BY <3>3, <3>4 DEF Written, IsFile, TypeOK
    <3>7. Shown' = Shown
      BY <3>5, <3>6, ShownSame DEF IsFile
    <3>. QED  BY <2>1, <3>7 DEF Store!vars
  <2>. QED  BY <2>2, <2>3
<1>2. CASE PutRecv(u) \/ PutEof(u)
  <2>1. now' = now /\ lastPut' = lastPut /\ names' = names
    BY <1>2 DEF PutRecv, PutEof
  <2>2. CASE disk' = disk
    BY <2>1, <2>2, ShownSame DEF IsFile, Store!vars
  <2>3. ASSUME file[u] # None, NEW d, disk' = Written(file[u], d)
        PROVE  Store!Next \/ UNCHANGED Store!vars
    <3>1. Writing(u)
      BY <1>2, <2>3 DEF PutRecv, PutEof, Writing, WriteInv, WriteOf
    <3>2. file[u] \in Call /\ \A p \in Path : names[p] # file[u]
      BY <1>0, <3>1, WriteApart DEF WriteInv
    <3>3. \A p \in Path : IsFile(p) => disk'[names[p]] = disk[names[p]]
      BY <2>3, <3>2 DEF Written, IsFile, TypeOK
    <3>. QED  BY <2>1, <3>3, ShownSame DEF IsFile, Store!vars
  <2>. QED  BY <1>2, <2>2, <2>3 DEF PutRecv, PutEof
<1>3. CASE PutRename(u)
  <2>1. /\ path[u] \in Path /\ file[u] \in Call /\ rcvd[u] \in 0..Chunks
        /\ \A p \in Path : names'[p] = IF p = path[u] THEN file[u] ELSE names[p]
        /\ disk[file[u]].data = Part(u, rcvd[u])
        /\ disk[file[u]].mtime \in lastPut..now
    BY <1>3, PublishedInode
  <2>. DEFINE d == Part(u, rcvd[u])
              m == disk[file[u]].mtime
  <2>2. disk[file[u]] = [data |-> d, mtime |-> m]
    BY <2>1 DEF TypeOK
  <2>3. Shown' = [Shown EXCEPT ![path[u]] = [data |-> d, mtime |-> m]]
    <3>1. disk' = disk
      BY <1>3 DEF PutRename
    <3>. HIDE DEF d, m
    <3>. QED  BY <2>1, <2>2, <3>1 DEF Shown, IsFile
  <2>4. d \in Version
    BY <2>1 DEF Version
  <2>5. Store!Publish(path[u], d, m)
    BY <1>3, <2>1, <2>3 DEF Store!Publish, PutRename
  <2>. HIDE DEF d, m
  <2>6. m \in lastPut..now
    BY <2>1 DEF m
  <2>. QED  BY <2>1, <2>4, <2>5, <2>6 DEF Store!Next
<1>4. CASE \/ PutRenameFails(u) \/ PutUnlock(u) \/ PutReply(u)
           \/ \E p \in Path \cup {None} : PutBegin(u, p)
  <2>1. names' = names /\ disk' = disk /\ now' = now /\ lastPut' = lastPut
    BY <1>4 DEF PutRenameFails, PutUnlock, PutReply, PutBegin
  <2>. QED  BY <2>1, ShownSame DEF IsFile, Store!vars
<1>. QED  BY <1>1, <1>2, <1>3, <1>4 DEF PutStep

\* A step of an Open handler creates or empties a file or shows nothing new.
LEMMA GetShows ==
  ASSUME TypeOK, LinkInv, VersionInv, ReadOpen, NEW g \in Get,
         \/ GetStep(g)
         \/ \E p \in Path, isCreate \in BOOLEAN : GetBegin(g, p, isCreate)
  PROVE  Store!Next \/ UNCHANGED Store!vars
<1>0. /\ g \in Call /\ Path \subseteq Name /\ None \notin Call /\ Dir \notin Call
  BY AfsServerAssumption DEF Call, Name
<1>1. ASSUME NEW trunc \in BOOLEAN, GetCreate(g, trunc)
      PROVE  Store!Next \/ UNCHANGED Store!vars
  <2>. DEFINE p == path[g]
              e == [data |-> <<>>, mtime |-> now]
  <2>1. /\ p \in Path /\ now' = now /\ lastPut' = lastPut
        /\ ~Used(g)
    BY <1>1 DEF GetCreate, ReadOpen, Used
  <2>2. \A q \in Path : names[q] # g
    BY <1>0, <2>1 DEF LinkInv, IsFile
  <2>3. CASE names[p] = None /\ names' = [names EXCEPT ![p] = g] /\ disk' = Written(g, <<>>)
    <3>1. \A q \in Path : names'[q] = IF q = p THEN g ELSE names[q]
      BY <1>0, <2>1, <2>3 DEF TypeOK
    <3>2. disk'[g] = e /\ \A i \in Call : i # g => disk'[i] = disk[i]
      BY <1>0, <2>3 DEF Written, TypeOK
    <3>3. Shown' = [Shown EXCEPT ![p] = e]
      BY <1>0, <2>1, <2>2, <3>1, <3>2 DEF Shown, IsFile
    <3>4. Store!Create(p)
      BY <1>0, <2>1, <2>3, <3>3 DEF Store!Create, Store!Exists, Shown, IsFile
    <3>. QED  BY <2>1, <3>4 DEF Store!Next
  <2>4. CASE IsFile(p) /\ disk' = Written(names[p], <<>>) /\ UNCHANGED names
    <3>1. names[p] \in Call /\ \A q \in Path : names[q] = names[p] => q = p
      BY <1>0, <2>1, <2>4 DEF LinkInv, IsFile
    <3>2. disk'[names[p]] = e /\ \A i \in Call : i # names[p] => disk'[i] = disk[i]
      BY <2>4, <3>1 DEF Written, TypeOK
    <3>3. Shown' = [Shown EXCEPT ![p] = e]
      BY <2>1, <2>4, <3>1, <3>2 DEF Shown, IsFile
    <3>4. Shown[p] # None
      BY <2>1, <2>4, <3>1, FileIsSome DEF Shown
    <3>5. Store!Blank(p)
      BY <2>1, <3>3, <3>4 DEF Store!Blank, Store!Exists
    <3>. QED  BY <2>1, <3>5 DEF Store!Next
  <2>5. CASE UNCHANGED <<names, disk>>
    BY <2>1, <2>5, ShownSame DEF IsFile, Store!vars
  <2>. QED  BY <1>1, <2>3, <2>4, <2>5 DEF GetCreate
<1>2. CASE \/ GetChunk(g) \/ GetEof(g) \/ GetCut(g)
           \/ \E p \in Path, isCreate \in BOOLEAN : GetBegin(g, p, isCreate)
  <2>1. names' = names /\ disk' = disk /\ now' = now /\ lastPut' = lastPut
    BY <1>2 DEF GetChunk, GetEof, GetCut, GetBegin
  <2>. QED  BY <2>1, ShownSame DEF IsFile, Store!vars
<1>. QED  BY <1>1, <1>2 DEF GetStep

\* Unlink and Rename remove and move a file; Mkdir and Rmdir show nothing.
LEMMA UnaryShows ==
  ASSUME TypeOK, LinkInv, VersionInv, NEW p \in Path,
         Unlink(p) \/ Mkdir(p) \/ Rmdir(p) \/ \E q \in Path : Rename(p, q)
  PROVE  Store!Next \/ UNCHANGED Store!vars
<1>0. Path \subseteq Name /\ None \notin Call /\ Dir \notin Call /\ Dir # None
  BY AfsServerAssumption DEF Name
<1>1. disk' = disk /\ now' = now /\ lastPut' = lastPut
  BY DEF Unlink, Mkdir, Rmdir, Rename
<1>2. IsFile(p) => Shown[p] # None
  BY FileIsSome DEF Shown, IsFile
<1>3. CASE Unlink(p)
  <2>1. Shown' = [Shown EXCEPT ![p] = None]
    BY <1>0, <1>1, <1>3 DEF Shown, IsFile, Unlink, TypeOK
  <2>2. Store!Remove(p)
    BY <1>1, <1>2, <1>3, <2>1 DEF Store!Remove, Store!Exists, Unlink
  <2>. QED  BY <2>2 DEF Store!Next
<1>4. CASE Mkdir(p) \/ Rmdir(p)
  <2>1. Shown' = Shown
    <3>1. \A x \in Path : names'[x] = names[x] \/ (~IsFile(x) /\ ~IsFile(x)')
      <4>1. \A x \in Path : x # p => names'[x] = names[x]
        BY <1>0, <1>4 DEF Mkdir, Rmdir, TypeOK
      <4>2. names[p] \in {Dir, None} /\ names'[p] \in {Dir, None}
        BY <1>0, <1>4 DEF Mkdir, Rmdir, TypeOK
      <4>. QED  BY <1>0, <4>1, <4>2 DEF IsFile
    <3>2. \A x \in Path :
            /\ IsFile(x)' <=> IsFile(x)
            /\ IsFile(x) => names'[x] = names[x] /\ disk'[names[x]] = disk[names[x]]
      BY <1>1, <3>1 DEF IsFile
    <3>. QED  BY <3>2, ShownSame
  <2>. QED  BY <1>1, <2>1 DEF Store!vars
<1>5. ASSUME NEW q \in Path, Rename(p, q)
      PROVE  Store!Next \/ UNCHANGED Store!vars
  <2>0. p # q /\ \A x \in Path : names'[x] = IF x = p THEN None
                                            ELSE IF x = q THEN names[p] ELSE names[x]
    BY <1>0, <1>5 DEF Rename, TypeOK
  <2>1. CASE IsFile(p)
    <3>1. Shown' = [Shown EXCEPT ![q] = Shown[p], ![p] = None]
      BY <1>0, <1>1, <2>0, <2>1 DEF Shown, IsFile
    <3>2. Store!Move(p, q)
      BY <1>1, <1>2, <2>0, <2>1, <3>1 DEF Store!Move, Store!Exists
    <3>. QED  BY <3>2 DEF Store!Next
  <2>2. CASE names[p] = Dir /\ ~IsFile(q)
    <3>1. Shown' = Shown
      BY <1>0, <1>1, <2>0, <2>2 DEF Shown, IsFile
    <3>. QED  BY <1>1, <3>1 DEF Store!vars
  <2>. QED  BY <1>5, <2>1, <2>2 DEF Rename
<1>. QED  BY <1>3, <1>4, <1>5

\* Every step of the server is, to its clients, a step of FileStore.
LEMMA NextShows ==
  IInv /\ [Next]_vars => [Store!Next]_(Store!vars)
<1>. SUFFICES ASSUME IInv, [Next]_vars
              PROVE  Store!Next \/ UNCHANGED Store!vars
  OBVIOUS
<1>1. CASE Crash \/ UNCHANGED vars
  <2>1. names' = names /\ disk' = disk /\ now' = now /\ lastPut' = lastPut
    BY <1>1 DEF Crash, vars
  <2>. QED  BY <2>1, ShownSame DEF IsFile, Store!vars
<1>2. CASE Tick
  <2>1. Shown' = Shown
    BY <1>2, ShownSame DEF Tick, IsFile
  <2>2. Store!Tick
    BY <1>2, <2>1 DEF Store!Tick, Tick
  <2>. QED  BY <2>2 DEF Store!Next
<1>. QED  BY <1>1, <1>2, PutShows, GetShows, UnaryShows DEF Next, IInv

\* Every behaviour of the server is, to its clients, one of FileStore.
THEOREM Refinement == Spec => ImplementsStore
<1>1. Init => Store!Init
  BY StoreInit
<1>. QED  BY <1>1, NextShows, Invariance, PTL DEF Spec, ImplementsStore, Store!Spec
============================================================================
