----------------------------- MODULE BnfsTurns -----------------------------
(***************************************************************************)
(* Processes that take turns, the way consistency_tests do, over a network *)
(* that loses nothing: every upload ends, and a close sends only what its  *)
(* own process wrote.                                                      *)
(***************************************************************************)
EXTENDS BnfsProofs

Taking == Serial /\ ~Lossy

Active(t) == sess[t].pc # "idle"

\* Only readers overlap.
Turns == \A t, u \in Thread : t # u /\ Active(t) /\ Active(u)
                                => sess[t].mode = "r" /\ sess[u].mode = "r"

Owing == {"ask", "make", "open", "opened", "mark", "send", "put", "stat", "commit", "stamp", "clean"}

\* What is left to writers, and what a writer may rely on.
Role(c, s) ==
  /\ s.pc \in {"mkLocal", "mkDirty", "ask", "make", "mark", "send", "put", "stat", "commit",
               "stamp", "clean", "rm", "mv"}
       => s.mode = "w"
  /\ s.pc # "idle" /\ s.creat # "none" => s.mode = "w"
  /\ s.mode = "w" /\ s.pc \in {"mkDirty", "opened", "mark"} => HasTemp(c, s.path)
  /\ s.pc = "stat" => Exists(s.path)

\* A dirty mark belongs to a writer that has not closed its file yet.
Owner(t, c, p) ==
  /\ ClientOf[t] = c /\ sess[t].path = p /\ sess[t].mode = "w" /\ HasTemp(c, p)
  /\ sess[t].pc \in Owing

SInv ==
  /\ Turns
  /\ \A t \in Thread : Role(ClientOf[t], sess[t])
  /\ \A c \in Client : \A p \in dirty[c] : \E t \in Thread : Owner(t, c, p)

\* While a process works, only its own file can be dirty.
LEMMA Solo ==
  ASSUME BInv, SInv, NEW t \in Thread, Active(t), NEW c \in Client, NEW p \in dirty[c]
  PROVE  Owner(t, c, p)
<1>1. PICK u \in Thread : Owner(u, c, p)
  BY DEF SInv
<1>2. Active(u) /\ sess[u].mode = "w"
  BY <1>1 DEF Owner, Owing, Active
<1>3. "w" # "r"
  OBVIOUS
<1>4. u = t
  BY <1>2, <1>3 DEF SInv, Turns
<1> QED
  BY <1>1, <1>4

\* Nobody works: nothing is dirty.
LEMMA NobodyDirty ==
  ASSUME BInv, SInv, \A t \in Thread : ~Active(t)
  PROVE  \A c \in Client : dirty[c] = {}
BY DEF SInv, Owner, Owing, Active

\* What a step of t leaves of the other sessions.
Others(t) ==
  \A u \in Thread \ {t} : /\ sess'[u].pc = sess[u].pc /\ sess'[u].mode = sess[u].mode
                          /\ sess'[u].path = sess[u].path /\ sess'[u].creat = sess[u].creat

\* A process goes on: its mode stays or it goes to rest, and what is dirty of
\* its client is its own file.
Leaves(t) ==
  /\ sess'[t].pc = "idle" \/ sess'[t].mode = sess[t].mode
  /\ \A c \in Client : c # ClientOf[t] => dirty'[c] = dirty[c]
  /\ \A p \in dirty'[ClientOf[t]] :
       /\ sess'[t].path = p /\ sess'[t].mode = "w" /\ sess'[t].pc \in Owing
       /\ temp'[ClientOf[t]][p] # NoFile

\* A call that goes on keeps the turn it has.
LEMMA TurnOn ==
  ASSUME BInv, SInv, NEW t \in Thread, Active(t), Others(t), Leaves(t),
         Role(ClientOf[t], sess[t])'
  PROVE  SInv'
<1>0. ClientOf \in [Thread -> Client]
  BY BnfsAssumption
<1>1. Turns'
  BY DEF SInv, Turns, Active, Others, Leaves
<1>2. ASSUME NEW u \in Thread PROVE Role(ClientOf[u], sess[u])'
  <2>1. CASE u = t
    BY <2>1
  <2>2. CASE u # t /\ ~Active(u)
    BY <2>2 DEF Others, Active, Role
  <2>3. CASE u # t /\ Active(u)
    <3>1. sess[u].mode = "r" /\ Role(ClientOf[u], sess[u])
      BY <2>3 DEF SInv, Turns
    <3>2. /\ sess'[u].pc = sess[u].pc /\ sess'[u].mode = sess[u].mode
          /\ sess'[u].creat = sess[u].creat
      BY <2>3 DEF Others
    <3> QED
      BY <3>1, <3>2 DEF Role
  <2> QED
    BY <2>1, <2>2, <2>3
<1>3. ASSUME NEW c \in Client, NEW p \in dirty'[c] PROVE \E u \in Thread : Owner(u, c, p)'
  <2>1. CASE c = ClientOf[t]
    BY <2>1 DEF Leaves, Owner, HasTemp
  <2>2. CASE c # ClientOf[t]
    <3>1. p \in dirty[c]
      BY <2>2 DEF Leaves
    <3>2. ClientOf[t] = c
      BY <3>1, Solo DEF Owner
    <3> QED
      BY <2>2, <3>2
  <2> QED
    BY <2>1, <2>2
<1> QED
  BY <1>1, <1>2, <1>3 DEF SInv

\* A step of t that keeps the files and the marks of its client.
LEMMA KeepsMarks ==
  ASSUME BInv, SInv, NEW t \in Thread, Active(t), UNCHANGED <<temp, dirty>>, Others(t),
         sess'[t].mode = sess[t].mode, sess'[t].path = sess[t].path,
         sess[t].pc \in Owing => sess'[t].pc \in Owing,
         Role(ClientOf[t], sess[t])'
  PROVE  SInv'
<1>1. ClientOf[t] \in Client
  BY BParts DEF BInv
<1>2. \A p \in dirty[ClientOf[t]] : Owner(t, ClientOf[t], p)
  BY <1>1, Solo
<1>3. Leaves(t)
  BY <1>1, <1>2 DEF Leaves, Owner, HasTemp
<1> QED
  BY <1>3, TurnOn

\* A step that ends the call or the session of t, with nothing dirty.
LEMMA Ends ==
  ASSUME BInv, SInv, NEW t \in Thread, Active(t), UNCHANGED <<temp>>, Done(t),
         \A c \in Client : c # ClientOf[t] => dirty'[c] = dirty[c],
         dirty'[ClientOf[t]] = {}
  PROVE  SInv'
<1>1. sess'[t] = Rest /\ Others(t)
  BY BParts DEF Others, BInv, Done
<1>2. Leaves(t)
  BY <1>1 DEF Leaves, Rest
<1>3. Role(ClientOf[t], sess[t])'
  BY <1>1 DEF Role, Rest
<1> QED
  BY <1>1, <1>2, <1>3, TurnOn

----------------------------------------------------------------------------
(* Beginnings                                                              *)

\* An operation on a path begins while nobody works.
LEMMA AllIdle ==
  ASSUME Taking, BInv, SInv, NEW t \in Thread, sess[t].pc = "idle", MayStart(t, "w")
  PROVE  (\A u \in Thread : ~Active(u)) /\ \A c \in Client : dirty[c] = {}
<1>1. \A u \in Thread : ~Active(u)
  BY DEF Taking, MayStart, Active
<1> QED
  BY <1>1, NobodyDirty

\* One process starts while nobody works.
LEMMA Starts ==
  ASSUME BInv, NEW t \in Thread,
         \A u \in Thread : u # t => sess'[u].pc = "idle",
         Role(ClientOf[t], sess[t])', \A c \in Client : dirty'[c] = {}
  PROVE  SInv'
<1>1. Turns'
  BY DEF Turns, Active
<1>2. \A u \in Thread : Role(ClientOf[u], sess[u])'
  BY DEF Role
<1> QED
  BY <1>1, <1>2 DEF SInv

\* A process whose turn it is opens a file.
LEMMA OpenTurn ==
  ASSUME Taking, BInv, SInv, NEW t \in Thread, NEW p \in Path, NEW mode \in {"r", "w"},
         NEW creat \in {"none", "create", "trunc"}, Open(t, p, mode, creat)
  PROVE  SInv'
<1> DEFINE r == [Rest EXCEPT !.pc = "attr", !.mode = mode, !.path = p, !.creat = creat]
<1>1. r.pc = "attr" /\ r.mode = mode /\ r.creat = creat
  BY DEF Rest
<1>2. /\ sess[t].pc = "idle" /\ MayStart(t, mode) /\ sess' = [sess EXCEPT ![t] = r]
      /\ UNCHANGED <<store, temp, dirty>>
      /\ creat # "none" => mode = "w"
  BY DEF Open, server, client
<1> HIDE DEF r
<1>3. sess'[t] = r /\ \A u \in Thread : u # t => sess'[u] = sess[u]
  BY <1>2, BParts DEF BInv
<1>4. Role(ClientOf[t], sess[t])'
  BY <1>1, <1>2, <1>3 DEF Role
<1>5. CASE mode = "w"
  <2>1. (\A u \in Thread : ~Active(u)) /\ \A c \in Client : dirty[c] = {}
    BY <1>2, <1>5, AllIdle
  <2> QED
    BY <1>2, <1>3, <1>4, <2>1, Starts DEF Active
<1>6. CASE mode = "r"
  <2>1. \A u \in Thread : Active(u) => sess[u].mode = "r"
    BY <1>2, <1>6 DEF Taking, MayStart, Active
  <2>2. Turns'
    BY <1>1, <1>2, <1>3, <1>6, <2>1 DEF Turns, Active
  <2>3. \A u \in Thread : Role(ClientOf[u], sess[u])'
    BY <1>2, <1>3, <1>4 DEF SInv, Role, HasTemp, Exists
  <2>4. \A c \in Client : dirty[c] = {}
    BY <2>1 DEF SInv, Owner, Owing, Active
  <2> QED
    BY <1>2, <2>2, <2>3, <2>4 DEF SInv
<1> QED
  BY <1>5, <1>6

\* A process whose turn it is begins an operation on paths.
LEMMA PathTurn ==
  ASSUME Taking, BInv, SInv, BInv', NEW t \in Thread, NEW p \in Path,
         \/ Truncate(t, p) \/ Unlink(t, p)
         \/ \E q \in Path : Rename(t, p, q)
  PROVE  SInv'
<1>1. sess[t].pc = "idle" /\ MayStart(t, "w")
  BY DEF Truncate, Unlink, Rename
<1>2. (\A u \in Thread : ~Active(u)) /\ \A c \in Client : dirty[c] = {}
  BY <1>1, AllIdle
<1>3. CASE Truncate(t, p)
  BY <1>2, <1>3, Starts DEF Truncate, Role, Active
<1>4. CASE Unlink(t, p)
  <2> DEFINE s == [Rest EXCEPT !.pc = "rm", !.mode = "w", !.path = p]
  <2>1. /\ \A u \in Thread : u # t => sess'[u].pc = sess[u].pc
        /\ sess'[t] = s
        /\ \A c \in Client : dirty'[c] = {}
    BY <1>2, <1>4, BParts DEF Unlink, DropTemp, BInv, Session
  <2>2. Role(ClientOf[t], sess[t])'
    BY <2>1 DEF Role, Rest
  <2> QED
    BY <1>2, <2>1, <2>2, Starts DEF Active
<1>5. ASSUME NEW q \in Path, Rename(t, p, q) PROVE SInv'
  <2> DEFINE s == [Rest EXCEPT !.pc = "mv", !.mode = "w", !.path = p, !.to = q]
             Link(a) == IF a = p THEN q ELSE IF a = q THEN NoPath ELSE a
  <2>1. /\ \A u \in Thread : u # t => sess'[u].pc = sess[u].pc
        /\ sess'[t] = s
    <3>1. CASE sess' = [sess EXCEPT ![t] = s]
      BY <3>1, BParts DEF BInv
    <3>2. CASE sess' = [u \in Thread |->
                 IF u = t THEN s
                 ELSE IF ClientOf[u] = ClientOf[t] THEN [sess[u] EXCEPT !.at = Link(@)]
                 ELSE sess[u]]
      BY <3>2, BParts DEF BInv, Session
    <3> QED
      BY <1>5, <3>1, <3>2 DEF Rename
  <2>2. \A c \in Client : dirty'[c] = {}
    BY <1>2, <1>5, BParts DEF Rename, BInv
  <2>3. Role(ClientOf[t], sess[t])'
    BY <2>1 DEF Role, Rest
  <2> QED
    BY <1>2, <2>1, <2>2, <2>3, Starts DEF Active
<1> QED
  BY <1>3, <1>4, <1>5

----------------------------------------------------------------------------
(* Open, write and close                                                   *)

\* The steps that look for a file.
LEMMA LookTurn ==
  ASSUME Taking, BInv, SInv, NEW t \in Thread,
         GetAttr(t) \/ Check(t) \/ Fetch(t) \/ AskServer(t) \/ Mark(t)
  PROVE  SInv'
<1> USE BParts DEF BInv
<1> DEFINE s == sess[t]  c == ClientOf[t]
<1>1. s \in Session /\ Active(t) /\ Role(c, s)
  BY DEF SInv, GetAttr, Check, Fetch, AskServer, Mark, Active
<1>2. UNCHANGED <<store, temp>>
  BY DEF GetAttr, Check, Fetch, AskServer, Mark, server, client
<1>3. Others(t) /\ sess'[t].mode = s.mode /\ sess'[t].path = s.path /\ sess'[t].creat = s.creat
  BY DEF Others, GetAttr, Check, Fetch, AskServer, Mark, Goto, Session
<1>4. CASE GetAttr(t)
  <2>1. s.pc = "attr" /\ UNCHANGED dirty
    BY <1>4 DEF GetAttr, client
  <2>2. sess'[t].pc \in {"check", "mkLocal"} /\ (sess'[t].pc = "mkLocal" => s.creat # "none")
    BY <1>4 DEF GetAttr, Goto, Session
  <2>3. Role(c, sess[t])'
    BY <1>1, <1>3, <2>1, <2>2 DEF Role
  <2> QED
    BY <1>1, <1>2, <1>3, <2>1, <2>3, KeepsMarks DEF Owing
<1>5. CASE Check(t) \/ Fetch(t)
  <2>1. s.pc \in {"check", "fetch"} /\ UNCHANGED dirty
    BY <1>5 DEF Check, Fetch, client
  <2>2. sess'[t].pc \in {"fetch", "open", "clear"}
    BY <1>5 DEF Check, Fetch, Goto, Session
  <2>3. Role(c, sess[t])'
    BY <1>1, <1>3, <2>1, <2>2 DEF Role
  <2> QED
    BY <1>1, <1>2, <1>3, <2>1, <2>3, KeepsMarks DEF Owing
<1>6. CASE AskServer(t)
  <2>1. s.pc = "ask" /\ UNCHANGED dirty
    BY <1>6 DEF AskServer, client
  <2>2. sess'[t].pc \in {"open", "make"}
    BY <1>6 DEF AskServer, Goto, Session
  <2>3. Role(c, sess[t])'
    BY <1>1, <1>3, <2>1, <2>2 DEF Role
  <2> QED
    BY <1>1, <1>2, <1>3, <2>1, <2>2, <2>3, KeepsMarks DEF Owing
<1>7. CASE Mark(t)
  <2>1. /\ s.pc = "mark" /\ s.mode = "w" /\ HasTemp(c, s.path) /\ sess'[t].pc = "opened"
        /\ c \in Client /\ s.path \in Path
    BY <1>1, <1>7, Busy DEF Mark, Role, Goto, Session
  <2>2. Role(c, sess[t])'
    BY <1>1, <1>2, <1>3, <2>1 DEF Role, HasTemp
  <2>3. dirty' = [dirty EXCEPT ![c] = @ \cup {s.path}]
    BY <1>7 DEF Mark
  <2>4. \A p \in dirty[c] : p = s.path
    BY <1>1, <2>1, Solo DEF Owner
  <2>5. Leaves(t)
    BY <1>2, <1>3, <2>1, <2>3, <2>4 DEF Leaves, HasTemp, Owing
  <2> QED
    BY <1>1, <1>3, <2>2, <2>5, TurnOn
<1> QED
  BY <1>4, <1>5, <1>6, <1>7

\* A file arrives in temp.
LEMMA FillsTurn ==
  ASSUME Taking, BInv, SInv, NEW t \in Thread,
         \/ Clear(t) \/ Fill(t) \/ MakeLocal(t) \/ MakeDirty(t) \/ MakeOnServer(t)
         \/ Write(t) \/ Stamp(t)
  PROVE  SInv'
<1> USE BParts DEF BInv
<1> DEFINE s == sess[t]  c == ClientOf[t]
<1>1. s \in Session /\ Active(t) /\ Role(c, s) /\ c \in Client /\ s.path \in Path
  BY Busy DEF SInv, Clear, Fill, MakeLocal, MakeDirty, MakeOnServer, Write, Stamp, Active
<1>2. Others(t) /\ sess'[t].mode = s.mode /\ sess'[t].path = s.path /\ sess'[t].creat = s.creat
  BY DEF Others, Clear, Fill, MakeLocal, MakeDirty, MakeOnServer, Write, Stamp, Goto, Session
<1>3. \A p \in Path : HasTemp(c, p) => temp'[c][p] # NoFile
  <2>1. CASE UNCHANGED temp
    BY <2>1 DEF HasTemp
  <2>2. CASE \E p \in Path, d \in Data, m \in Times \cup Garbage : Local(c, p, d, m)
    BY <1>1, <2>2, LocalGrows DEF HasTemp
  <2>3. now \in Times \cup Garbage /\ EmptyData \in Data /\ s.at \in AnyPath /\ s.buf \in Data
    BY <1>1, FileStoreAssumption DEF Session
  <2>4. Write(t) => wrote + 1 \in Data
    BY BnfsAssumption DEF Write
  <2>5. HasTemp(c, s.path) => temp[c][s.path].data \in Data
    BY <1>1 DEF HasTemp, Temps, Copy
  <2>6. s.srv \in Times \cup Garbage
    BY <1>1 DEF Session
  <2>7. CASE Clear(t) \/ MakeLocal(t)
    BY <1>1, <2>2, <2>3, <2>7 DEF Clear, MakeLocal
  <2>8. CASE Fill(t) \/ Write(t)
    BY <1>1, <2>1, <2>2, <2>3, <2>4, <2>8 DEF Fill, Write, AnyPath
  <2>9. CASE MakeDirty(t) \/ MakeOnServer(t)
    BY <2>1, <2>9 DEF MakeDirty, MakeOnServer, client
  <2>10. CASE Stamp(t)
    BY <1>1, <2>1, <2>2, <2>5, <2>6, <2>10 DEF Stamp
  <2> QED
    BY <2>7, <2>8, <2>9, <2>10
<1>4. \A p \in dirty[c] : p = s.path /\ s.mode = "w" /\ s.pc \in Owing /\ temp'[c][p] # NoFile
  BY <1>1, <1>3, Solo DEF Owner
<1>5. ASSUME NEW l, sess'[t].pc = l, UNCHANGED dirty, s.pc \in Owing => l \in Owing,
             Role(c, sess[t])'
      PROVE  SInv'
  <2>1. Leaves(t)
    BY <1>1, <1>2, <1>4, <1>5 DEF Leaves
  <2> QED
    BY <1>1, <1>2, <1>5, <2>1, TurnOn
<1>6. CASE Clear(t) \/ Fill(t)
  <2>1. s.pc \in {"clear", "fill"} /\ UNCHANGED dirty /\ sess'[t].pc \in {"fill", "open"}
    BY <1>6 DEF Clear, Fill, Session
  <2>2. Role(c, sess[t])'
    BY <1>1, <1>2, <2>1 DEF Role
  <2> QED
    BY <1>5, <2>1, <2>2 DEF Owing
<1>7. CASE MakeLocal(t)
  <2>1. s.pc = "mkLocal" /\ UNCHANGED dirty /\ sess'[t].pc = "mkDirty"
    BY <1>7 DEF MakeLocal, Goto, Session
  <2>2. temp'[c][s.path] # NoFile
    BY <1>1, <1>7, LocalGrows, FileStoreAssumption DEF MakeLocal
  <2>3. Role(c, sess[t])'
    BY <1>1, <1>2, <2>1, <2>2 DEF Role, HasTemp
  <2> QED
    BY <1>5, <2>1, <2>3 DEF Owing
<1>8. CASE MakeDirty(t)
  <2>1. /\ s.pc = "mkDirty" /\ s.mode = "w" /\ HasTemp(c, s.path) /\ sess'[t].pc = "ask"
        /\ dirty' = [dirty EXCEPT ![c] = @ \cup {s.path}]
    BY <1>1, <1>8 DEF MakeDirty, Role, Goto, Session
  <2>2. Role(c, sess[t])'
    BY <1>1, <1>2, <2>1 DEF Role
  <2>3. Leaves(t)
    BY <1>1, <1>2, <1>3, <1>4, <2>1 DEF Leaves, Owing
  <2> QED
    BY <1>1, <1>2, <2>2, <2>3, TurnOn
<1>9. CASE MakeOnServer(t)
  <2>1. s.pc = "make" /\ UNCHANGED dirty /\ sess'[t].pc = "open"
    BY <1>9 DEF MakeOnServer, Goto, Session, client
  <2>2. Role(c, sess[t])'
    BY <1>1, <1>2, <2>1 DEF Role
  <2> QED
    BY <1>5, <2>1, <2>2 DEF Owing
<1>10. CASE Write(t)
  <2>1. s.pc = "opened" /\ UNCHANGED dirty /\ sess'[t].pc = "mark" /\ s.mode = "w"
    BY <1>10 DEF Write, Goto, Session
  <2>2. temp'[c][s.path] # NoFile
    BY <1>1, <1>3, <2>1 DEF Role
  <2>3. Role(c, sess[t])'
    BY <1>1, <1>2, <2>1, <2>2 DEF Role, HasTemp
  <2> QED
    BY <1>5, <2>1, <2>3 DEF Owing
<1>11. CASE Stamp(t)
  <2>1. s.pc = "stamp" /\ UNCHANGED dirty /\ sess'[t].pc = "clean"
    BY <1>11 DEF Stamp, Goto, Session
  <2>2. Role(c, sess[t])'
    BY <1>1, <1>2, <2>1 DEF Role
  <2> QED
    BY <1>5, <2>1, <2>2 DEF Owing
<1> QED
  BY <1>6, <1>7, <1>8, <1>9, <1>10, <1>11

\* deleteFromTemp by a process whose file is not there.
LEMMA OpenTempTurn ==
  ASSUME Taking, BInv, SInv, NEW t \in Thread, OpenTemp(t)
  PROVE  SInv'
<1> USE BParts DEF BInv
<1> DEFINE s == sess[t]  c == ClientOf[t]
           opened == [s EXCEPT !.pc = "opened", !.at = s.path, !.creat = "none"]
<1>1. /\ s \in Session /\ Active(t) /\ Role(c, s) /\ c \in Client /\ s.path \in Path
      /\ s.pc = "open" /\ UNCHANGED store
  BY Busy DEF SInv, OpenTemp, Active, server
<1>2. \A p \in dirty[c] : p = s.path /\ s.mode = "w" /\ HasTemp(c, p)
  BY <1>1, Solo DEF Owner
<1>3. ASSUME sess' = [sess EXCEPT ![t] = opened], UNCHANGED dirty, temp'[c][s.path] # NoFile
      PROVE  SInv'
  <2>1. /\ Others(t) /\ sess'[t].mode = s.mode /\ sess'[t].path = s.path
        /\ sess'[t].creat = "none" /\ sess'[t].pc = "opened"
    BY <1>1, <1>3 DEF Others, Session
  <2>2. Role(c, sess[t])'
    BY <1>3, <2>1 DEF Role, HasTemp
  <2>3. Leaves(t)
    BY <1>2, <1>3, <2>1 DEF Leaves, Owing
  <2> QED
    BY <1>1, <2>1, <2>2, <2>3, TurnOn
<1>4. CASE HasTemp(c, s.path) /\ sess' = [sess EXCEPT ![t] = opened] /\ UNCHANGED <<temp, dirty>>
  BY <1>3, <1>4 DEF HasTemp
<1>5. CASE Local(c, s.path, EmptyData, now) /\ sess' = [sess EXCEPT ![t] = opened] /\ UNCHANGED dirty
  <2>1. temp'[c][s.path] # NoFile
    BY <1>1, <1>5, LocalGrows, FileStoreAssumption
  <2> QED
    BY <1>3, <1>5, <2>1
<1>6. CASE ~HasTemp(c, s.path) /\ DropTemp(t, s.path, Rest)
  <2>1. sess'[t] = Rest /\ Others(t)
    BY <1>6 DEF DropTemp, Others, Session
  <2>2. dirty'[c] = {} /\ \A b \in Client : b # c => dirty'[b] = dirty[b]
    BY <1>1, <1>2, <1>6 DEF DropTemp
  <2>3. Leaves(t)
    BY <2>1, <2>2 DEF Leaves, Rest
  <2>4. Role(c, sess[t])'
    BY <2>1 DEF Role, Rest
  <2> QED
    BY <1>1, <2>1, <2>3, <2>4, TurnOn
<1> QED
  BY <1>4, <1>5, <1>6 DEF OpenTemp

\* The end of a session or of a call: nothing of its client stays dirty.
LEMMA CloseTurn ==
  ASSUME Taking, BInv, SInv, NEW t \in Thread,
         Flush(t) \/ Send(t) \/ PutFile(t) \/ Reply(t) \/ Commit(t) \/ Clean(t)
  PROVE  SInv'
<1> USE BParts DEF BInv
<1> DEFINE s == sess[t]  c == ClientOf[t]
<1>1. s \in Session /\ Active(t) /\ Role(c, s) /\ c \in Client /\ s.path \in Path
  BY Busy DEF SInv, Flush, Send, PutFile, Reply, Commit, Clean, Active
<1>2. \A p \in dirty[c] : p = s.path /\ s.mode = "w" /\ s.pc \in Owing /\ HasTemp(c, p)
  BY <1>1, Solo DEF Owner
<1>3. ASSUME NEW l \in {"send", "put", "stat", "commit", "stamp"}, sess'[t].pc = l, s.mode = "w",
             Others(t), sess'[t].mode = s.mode, sess'[t].path = s.path, sess'[t].creat = s.creat,
             UNCHANGED <<temp, dirty>>, l = "stat" => store'[s.path] # NoFile
      PROVE  SInv'
  <2>1. Role(c, sess[t])'
    BY <1>3 DEF Role, Exists
  <2> QED
    BY <1>1, <1>3, <2>1, KeepsMarks DEF Owing
<1>4. CASE Flush(t)
  <2>1. CASE HasTemp(c, s.path) /\ s.path \in dirty[c]
    <3>1. /\ Others(t) /\ sess'[t].mode = s.mode /\ sess'[t].path = s.path
          /\ sess'[t].creat = s.creat /\ sess'[t].pc = "send"
      BY <1>1, <1>4, <2>1 DEF Flush, Others, Session
    <3> QED
      BY <1>2, <1>3, <1>4, <2>1, <3>1 DEF Flush, client
  <2>2. CASE ~(HasTemp(c, s.path) /\ s.path \in dirty[c])
    <3>1. dirty[c] = {}
      BY <1>2, <2>2
    <3> QED
      BY <1>1, <1>4, <2>2, <3>1, Ends DEF Flush, client
  <2> QED
    BY <2>1, <2>2
<1>5. CASE Send(t)
  <2>1. /\ Others(t) /\ sess'[t].mode = s.mode /\ sess'[t].path = s.path
        /\ sess'[t].creat = s.creat /\ sess'[t].pc = "put" /\ UNCHANGED <<temp, dirty>>
    BY <1>1, <1>5 DEF Send, Taking, Others, Session
  <2>2. s.mode = "w"
    BY <1>1, <1>5 DEF Send, Role
  <2> QED
    BY <1>3, <2>1, <2>2
<1>6. CASE PutFile(t)
  <2>1. /\ Others(t) /\ sess'[t].mode = s.mode /\ sess'[t].path = s.path
        /\ sess'[t].creat = s.creat /\ sess'[t].pc = "stat" /\ UNCHANGED <<temp, dirty>>
    BY <1>1, <1>6 DEF PutFile, Taking, Others, Session, client
  <2>2. s.mode = "w"
    BY <1>1, <1>6 DEF PutFile, Role
  <2>3. PICK m \in s.began..now : Publish(s.path, s.buf, m)
    BY <1>6 DEF PutFile, Taking
  <2>4. store'[s.path] # NoFile
    <3>1. m \in Nat /\ s.buf \in Data
      BY <1>1, FileStoreAssumption DEF Session, Times
    <3>2. [data |-> s.buf, mtime |-> m] # NoFile
      BY <3>1, FileStoreAssumption
    <3> QED
      BY <1>1, <2>3, <3>2 DEF Publish
  <2> QED
    BY <1>3, <2>1, <2>2, <2>4
<1>7. CASE Reply(t)
  <2>1. s.mode = "w" /\ Exists(s.path) /\ s.pc = "stat"
    BY <1>1, <1>7 DEF Reply, Role
  <2>2. /\ Others(t) /\ sess'[t].mode = s.mode /\ sess'[t].path = s.path
        /\ sess'[t].creat = s.creat /\ sess'[t].pc = "commit" /\ UNCHANGED <<temp, dirty>>
    BY <1>1, <1>7, <2>1 DEF Reply, Taking, Others, Session, client
  <2> QED
    BY <1>3, <2>1, <2>2
<1>8. CASE Commit(t)
  <2>1. s.mode = "w" /\ UNCHANGED <<temp, dirty>>
    BY <1>1, <1>8 DEF Commit, Role
  <2>2. CASE HasTemp(c, s.path)
    <3>1. /\ Others(t) /\ sess'[t].mode = s.mode /\ sess'[t].path = s.path
          /\ sess'[t].creat = s.creat /\ sess'[t].pc = "stamp"
      BY <1>1, <1>8, <2>2 DEF Commit, Goto, Others, Session
    <3> QED
      BY <1>3, <2>1, <3>1
  <2>3. CASE ~HasTemp(c, s.path)
    <3>1. dirty[c] = {}
      BY <1>2, <2>3
    <3> QED
      BY <1>1, <1>8, <2>1, <2>3, <3>1, Ends DEF Commit
  <2> QED
    BY <2>2, <2>3
<1>9. CASE Clean(t)
  <2>1. dirty'[c] = {} /\ \A b \in Client : b # c => dirty'[b] = dirty[b]
    BY <1>1, <1>2, <1>9 DEF Clean
  <2> QED
    BY <1>1, <1>9, <2>1, Ends DEF Clean
<1> QED
  BY <1>4, <1>5, <1>6, <1>7, <1>8, <1>9

\* The RPCs of unlink and rename.
LEMMA PathRpcTurn ==
  ASSUME Taking, BInv, SInv, NEW t \in Thread, UnlinkRpc(t) \/ RenameRpc(t)
  PROVE  SInv'
<1> USE BParts DEF BInv
<1> DEFINE s == sess[t]  c == ClientOf[t]
<1>1. Active(t) /\ s.mode = "w" /\ s.pc \in {"rm", "mv"} /\ c \in Client /\ UNCHANGED <<temp, dirty>>
  BY DEF SInv, Role, UnlinkRpc, RenameRpc, Active, client
<1>2. dirty[c] = {}
  BY <1>1, Solo DEF Owner, Owing
<1>3. CASE Done(t)
  BY <1>1, <1>2, <1>3, Ends
<1>4. CASE RenameRpc(t) /\ ~Done(t)
  <2>1. \A u \in Thread : u # t => ~Active(u)
    BY <1>1 DEF SInv, Turns
  <2>2. sess'[t] = Rest /\ \A u \in Thread : u # t => sess'[u] = sess[u]
    BY <1>4, <2>1 DEF RenameRpc, Active
  <2>3. Others(t) /\ Leaves(t) /\ Role(c, sess[t])'
    BY <1>1, <1>2, <2>2 DEF Others, Leaves, Role, Rest
  <2> QED
    BY <1>1, <2>3, TurnOn
<1> QED
  BY <1>3, <1>4 DEF UnlinkRpc

----------------------------------------------------------------------------
(* The server, the clock, a restart                                        *)

\* Steps of the server and of the clock.
LEMMA ServerTurn ==
  ASSUME BInv, SInv, StrayPut \/ Second
  PROVE  SInv'
<1> USE BParts DEF BInv
<1>1. UNCHANGED <<temp, dirty, sess>>
  BY DEF StrayPut, Second, client
<1>2. \A p \in Path : Exists(p) => store'[p] # NoFile
  <2>1. CASE Second
    BY <2>1 DEF Second, Tick, Exists
  <2>2. CASE StrayPut
    <3>1. PICK x \in strays, d \in Data, m \in Times : Publish(x.path, d, m)
      <4>1. PICK x \in strays : \E d \in {x.data, EmptyData}, m \in x.began..now : Publish(x.path, d, m)
        BY <2>2 DEF StrayPut
      <4>2. x.data \in Data /\ \A m \in x.began..now : m \in Times
        BY FileStoreAssumption DEF Times
      <4> QED
        BY <4>1, <4>2, FileStoreAssumption
    <3>2. [data |-> d, mtime |-> m] # NoFile
      BY FileStoreAssumption DEF Times
    <3> QED
      BY <3>1, <3>2 DEF Publish, Exists
  <2> QED
    BY <2>1, <2>2
<1>3. \A t \in Thread : Role(ClientOf[t], sess[t])'
  <2> SUFFICES ASSUME NEW t \in Thread PROVE Role(ClientOf[t], sess[t])'
    OBVIOUS
  <2>1. sess[t].pc = "stat" => sess[t].path \in Path
    BY Busy
  <2> QED
    BY <1>1, <1>2, <2>1 DEF SInv, Role, HasTemp, Exists
<1> QED
  BY <1>1, <1>3 DEF SInv, Turns, Active, Owner, HasTemp

\* A restart ends the calls of its client and empties its marks.
LEMMA RestartTurn ==
  ASSUME BInv, SInv, NEW c \in Client, Restart(c)
  PROVE  SInv'
<1> USE BParts DEF BInv
<1>1. /\ UNCHANGED store /\ dirty'[c] = {}
      /\ \A b \in Client \ {c} : temp'[b] = temp[b] /\ dirty'[b] = dirty[b]
      /\ \A t \in Thread : sess'[t] = IF ClientOf[t] = c THEN Rest ELSE sess[t]
  BY DEF Restart, server, Temps
<1>2. Turns'
  BY <1>1 DEF SInv, Turns, Active, Rest
<1>3. ASSUME NEW t \in Thread PROVE Role(ClientOf[t], sess[t])'
  <2>1. CASE ClientOf[t] = c
    BY <1>1, <2>1 DEF Role, Rest
  <2>2. CASE ClientOf[t] # c
    BY <1>1, <2>2 DEF SInv, Role, HasTemp, Exists
  <2> QED
    BY <2>1, <2>2
<1>4. ASSUME NEW b \in Client, NEW p \in dirty'[b] PROVE \E t \in Thread : Owner(t, b, p)'
  <2>1. b # c /\ p \in dirty[b]
    BY <1>1
  <2>2. PICK t \in Thread : Owner(t, b, p)
    BY <2>1 DEF SInv
  <2> QED
    BY <1>1, <2>1, <2>2 DEF Owner, HasTemp
<1> QED
  BY <1>2, <1>3, <1>4 DEF SInv

----------------------------------------------------------------------------

\* Everybody is at rest at the start.
LEMMA SInvInit == BInit => SInv
<1> SUFFICES ASSUME BInit PROVE SInv
  OBVIOUS
<1>1. (\A t \in Thread : sess[t] = Rest) /\ \A c \in Client : dirty[c] = {}
  BY DEF BInit
<1> QED
  BY <1>1 DEF SInv, Turns, Active, Role, Rest

\* Every step keeps the turns.
LEMMA SInvNext ==
  ASSUME Taking, BInv, SInv, BInv', [BNext]_allvars
  PROVE  SInv'
<1>1. CASE UNCHANGED allvars
  BY <1>1 DEF allvars, SInv, Turns, Active, Role, Owner, HasTemp, Exists
<1>2. CASE StrayPut \/ Second \/ \E c \in Client : Restart(c)
  BY <1>2, ServerTurn, RestartTurn
<1>3. CASE \E t \in Thread, p \in Path :
             \/ \E mode \in {"r", "w"}, creat \in {"none", "create", "trunc"} :
                  Open(t, p, mode, creat)
             \/ Truncate(t, p) \/ Unlink(t, p)
             \/ \E q \in Path : Rename(t, p, q)
  BY <1>3, OpenTurn, PathTurn
<1>4. CASE \E t \in Thread :
             \/ GetAttr(t) \/ Check(t) \/ Fetch(t) \/ Clear(t) \/ Fill(t)
             \/ MakeLocal(t) \/ MakeDirty(t) \/ AskServer(t) \/ MakeOnServer(t) \/ OpenTemp(t)
             \/ Write(t) \/ Mark(t)
  BY <1>4, LookTurn, FillsTurn, OpenTempTurn
<1>5. CASE \E t \in Thread :
             \/ Flush(t) \/ Send(t) \/ PutFile(t) \/ Reply(t) \/ Commit(t) \/ Stamp(t) \/ Clean(t)
             \/ UnlinkRpc(t) \/ RenameRpc(t)
  BY <1>5, CloseTurn, FillsTurn, PathRpcTurn
<1> QED
  BY <1>1, <1>2, <1>3, <1>4, <1>5 DEF BNext

\* Processes that take turns stay in turn: a writer is alone, and a dirty mark
\* belongs to the writer that has not closed its file yet.
THEOREM TurnsInvariance ==
  ASSUME Taking
  PROVE  BSpec => [](BInv /\ SInv)
<1>1. BInit => BInv /\ SInv
  BY BInvInit, SInvInit
<1>2. (BInv /\ SInv) /\ [BNext]_allvars => (BInv /\ SInv)'
  BY BInvNext, SInvNext
<1> QED
  BY <1>1, <1>2, PTL DEF BSpec

\* Every upload ends: once all files are closed no client has a dirty mark
\* left, whatever was truncated, renamed, unlinked or restarted meanwhile.
THEOREM ClosedFilesAreClean ==
  ASSUME Taking
  PROVE  BSpec => []SettledClean
<1>1. BInv /\ SInv => SettledClean
  <2> SUFFICES ASSUME BInv, SInv, \A c \in Client : Idle(c)
               PROVE  \A c \in Client : dirty[c] = {}
    BY DEF SettledClean
  <2>1. \A t \in Thread : ~Active(t)
    BY BnfsAssumption DEF Idle, Active
  <2> QED
    BY <2>1, NobodyDirty
<1> QED
  BY <1>1, TurnsInvariance, PTL

\* A process that only reads uploads nothing.
THEOREM OnlyWritersUpload ==
  ASSUME Taking
  PROVE  BSpec => ReadersUploadNothing
<1>1. BInv /\ SInv /\ [BNext]_allvars
        => [\A t \in Thread : sess[t].pc = "put" /\ sess'[t].pc = "stat" => sess[t].mode = "w"]_allvars
  BY DEF SInv, Role
<1> QED
  BY <1>1, TurnsInvariance, PTL DEF BSpec, ReadersUploadNothing
============================================================================
