---------------------------- MODULE SharedFiles ----------------------------
(***************************************************************************)
(* What BNFS promises to processes that share files, and AFS before it: an *)
(* open shows the file as it was closed last, what a process does to its   *)
(* open file is seen by nobody else, and a close replaces the file by what *)
(* the process made of it, all at once.  There are no clients, copies,     *)
(* marks or times here.  Bnfs implements it, where processes take turns.   *)
(***************************************************************************)
CONSTANTS
  Path,       \* paths of the shared tree
  Thread,     \* processes
  Data,       \* contents a file can have
  EmptyData,  \* the content of an empty file
  NoFile,     \* what a path without a file holds
  NoPath      \* the path of a process that has no file open

VARIABLES
  file,  \* file[p]: what is at p; the paths of its domain are promised
  view,  \* view[t]: the file t has open, as t sees it
  late   \* closes that were under way when their client died

vars == <<file, view, late>>

Promised == DOMAIN file

Closed == [path |-> NoPath, data |-> EmptyData, wrote |-> FALSE]

IsOpen(p) == \E t \in Thread : view[t].path = p

Init ==
  /\ file = [p \in Path |-> NoFile]
  /\ view = [t \in Thread |-> Closed]
  /\ late = {}

----------------------------------------------------------------------------
\* A process opens a file and sees what was closed last, ...
Open(t, p) ==
  /\ view[t] = Closed
  /\ p \in Promised /\ file[p] # NoFile
  /\ view' = [view EXCEPT ![t] = [path |-> p, data |-> file[p], wrote |-> FALSE]]
  /\ UNCHANGED <<file, late>>

\* ... or makes a new one, which its close will send.
Create(t, p) ==
  /\ view[t] = Closed
  /\ p \in Promised /\ file[p] = NoFile
  /\ view' = [view EXCEPT ![t] = [path |-> p, data |-> EmptyData, wrote |-> TRUE]]
  /\ file' = [file EXCEPT ![p] = EmptyData]
  /\ UNCHANGED late

Write(t, d) ==
  /\ view[t] # Closed
  /\ view' = [view EXCEPT ![t] = [path |-> @.path, data |-> d, wrote |-> TRUE]]
  /\ UNCHANGED <<file, late>>

\* Who wrote replaces the file, who only read leaves it alone.
Close(t) ==
  LET v == view[t] IN
  /\ v # Closed
  /\ file' = IF v.wrote THEN [file EXCEPT ![v.path] = v.data] ELSE file
  /\ view' = [view EXCEPT ![t] = Closed]
  /\ UNCHANGED late

Remove(p) ==
  /\ p \in Promised /\ file[p] # NoFile /\ ~IsOpen(p)
  /\ file' = [file EXCEPT ![p] = NoFile]
  /\ UNCHANGED <<view, late>>

\* The client of the processes in S dies.  Of a close that was under way
\* the server may have the content.
Crash(S) ==
  /\ view' = [t \in Thread |-> IF t \in S THEN Closed ELSE view[t]]
  /\ \E T \in SUBSET {t \in S : view[t].wrote} :
       late' = late \cup {[path |-> view[t].path, data |-> view[t].data] : t \in T}
  /\ UNCHANGED file

\* It publishes the content it has, or an empty file if it has none of it.
CloseLate(x) ==
  /\ x.path \in Promised
  /\ \E d \in {x.data, EmptyData} : file' = [file EXCEPT ![x.path] = d]
  /\ late' = late \ {x}
  /\ UNCHANGED view

\* Nothing is promised of a file that was truncated ...
Truncate(p) ==
  /\ p \in Promised /\ ~IsOpen(p)
  /\ file' = [r \in Promised \ {p} |-> file[r]]
  /\ UNCHANGED <<view, late>>

\* ... or has got its name by a rename; the old name has no file.
Rename(p, q) ==
  /\ p # q /\ ~IsOpen(p) /\ ~IsOpen(q)
  /\ file' = [r \in Promised \ {q} |-> IF r = p THEN NoFile ELSE file[r]]
  /\ UNCHANGED <<view, late>>

Next ==
  \/ \E S \in SUBSET Thread : Crash(S)
  \/ \E x \in late : CloseLate(x)
  \/ \E t \in Thread :
       \/ \E p \in Path : Open(t, p) \/ Create(t, p)
       \/ \E d \in Data : Write(t, d)
       \/ Close(t)
  \/ \E p \in Path :
       \/ Remove(p) \/ Truncate(p)
       \/ \E q \in Path : Rename(p, q)

Spec == Init /\ [][Next]_vars
============================================================================
