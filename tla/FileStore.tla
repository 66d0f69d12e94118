----------------------------- MODULE FileStore -----------------------------
(***************************************************************************)
(* What the BNFS server promises its clients: a map from paths to files,   *)
(* each a content and a modification time in whole seconds.  PutFile       *)
(* replaces a file in one step; the files that successive PutFile calls    *)
(* publish carry times that never go back, because each was written after  *)
(* the previous one was published.  afs_server.cc implements it            *)
(* (AfsServer), the clients (Bnfs) run over it.                            *)
(***************************************************************************)
EXTENDS Integers

CONSTANTS
  Path,       \* paths of the exported tree
  Data,       \* contents a file can have
  EmptyData,  \* the content of an empty file
  NoFile,     \* what a path without a regular file shows
  MaxNow      \* bound of the clock, in seconds

ASSUME FileStoreAssumption ==
  /\ EmptyData \in Data
  /\ MaxNow \in Nat
  /\ NoFile \notin [data : Data, mtime : Nat]

VARIABLES
  store,    \* store[p]: the file at path p, or NoFile
  now,      \* the server's clock (st_mtime has whole seconds)
  lastPut   \* when the last PutFile published a file

vars == <<store, now, lastPut>>

File == [data : Data, mtime : 0..MaxNow]

Exists(p) == store[p] # NoFile

TypeOK ==
  /\ store \in [Path -> File \cup {NoFile}]
  /\ now \in 0..MaxNow
  /\ lastPut \in 0..now
  /\ \A p \in Path : Exists(p) => store[p].mtime <= now

Init ==
  /\ store = [p \in Path |-> NoFile]
  /\ now = 0
  /\ lastPut = 0

----------------------------------------------------------------------------
\* PutFile publishes content d, last written at second m, with one rename.
Publish(p, d, m) ==
  /\ m \in lastPut..now
  /\ store' = [store EXCEPT ![p] = [data |-> d, mtime |-> m]]
  /\ lastPut' = now
  /\ UNCHANGED now

\* Open with O_CREAT on a path that has no file.
Create(p) ==
  /\ ~Exists(p)
  /\ store' = [store EXCEPT ![p] = [data |-> EmptyData, mtime |-> now]]
  /\ UNCHANGED <<now, lastPut>>

\* Open with O_CREAT | O_TRUNC that finds a file published since it looked.
Blank(p) ==
  /\ Exists(p)
  /\ store' = [store EXCEPT ![p] = [data |-> EmptyData, mtime |-> now]]
  /\ UNCHANGED <<now, lastPut>>

Remove(p) ==
  /\ Exists(p)
  /\ store' = [store EXCEPT ![p] = NoFile]
  /\ UNCHANGED <<now, lastPut>>

\* Rename moves the inode: the content keeps its modification time.
Move(p, q) ==
  /\ Exists(p)
  /\ p # q
  /\ store' = [store EXCEPT ![q] = store[p], ![p] = NoFile]
  /\ UNCHANGED <<now, lastPut>>

Tick ==
  /\ now < MaxNow
  /\ now' = now + 1
  /\ UNCHANGED <<store, lastPut>>

Next ==
  \/ \E p \in Path :
       \/ \E d \in Data, m \in lastPut..now : Publish(p, d, m)
       \/ Create(p) \/ Blank(p) \/ Remove(p)
       \/ \E q \in Path : Move(p, q)
  \/ Tick

Spec == Init /\ [][Next]_vars
============================================================================
