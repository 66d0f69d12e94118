--------------------------- MODULE BnfsPublished ---------------------------
(***************************************************************************)
(* A file that a client with one process holds without a dirty mark was    *)
(* published: the recovery of BNFS rests on it.                            *)
(***************************************************************************)
EXTENDS BnfsProofs

\* One process on each client, and no operation that changes a file without
\* marking it (truncate) or moves one that the server need not move (rename).
Alone ==
  /\ \A t, u \in Thread : ClientOf[t] = ClientOf[u] => t = u
  /\ Ops \subseteq {"unlink", "restart"}

Published(c, p) == HasTemp(c, p) => temp[c][p].data \in ever[p]

Writing(c, p) == \E t \in Thread : ClientOf[t] = c /\ sess[t].pc = "mark" /\ sess[t].path = p

\* What a process holds on its way: a fetched content comes from the server;
\* from the upload on, the copy in temp is the content that was sent.
Fits(c, s) ==
  /\ s.pc # "mv"
  /\ s.at \in {NoPath, s.path}
  /\ s.pc \in {"clear", "fill"} => s.buf \in ever[s.path]
  /\ s.pc = "send" => s.at = s.path
  /\ s.pc = "put" /\ HasTemp(c, s.path) => temp[c][s.path].data = s.buf
  /\ s.pc \in {"stat", "commit", "stamp", "clean"} => Published(c, s.path)

StoreSeen == \A p \in Path : EmptyData \in ever[p] /\ (Exists(p) => store[p].data \in ever[p])

\* An unmarked copy is published, or its mark is the next step of its writer.
Safe(c, p) == p \notin dirty[c] => Published(c, p) \/ Writing(c, p)

CInv ==
  /\ StoreSeen
  /\ \A t \in Thread : Fits(ClientOf[t], sess[t])
  /\ \A c \in Client, p \in Path : Safe(c, p)

\* A step of one process concerns its session, ...
Own(t, r) ==
  /\ sess' = [sess EXCEPT ![t] = r]
  /\ \A c \in Client \ {ClientOf[t]} : temp'[c] = temp[c] /\ dirty'[c] = dirty[c]

\* ... and leaves the copies of its client marked, published or to be marked.
LeavesSafe(t, r) ==
  \A p \in Path : \/ p \in dirty'[ClientOf[t]]
                  \/ temp'[ClientOf[t]][p] = NoFile
                  \/ temp'[ClientOf[t]][p].data \in ever'[p]
                  \/ r.pc = "mark" /\ r.path = p

\* One process takes a step: it is enough to look at its session and at the
\* copies of its client.
LEMMA OwnStep ==
  ASSUME BInv, CInv, Alone, NEW t \in Thread, NEW r,
         StoreSeen', \A p \in Path : ever[p] \subseteq ever'[p],
         Own(t, r), Fits(ClientOf[t], sess[t])', LeavesSafe(t, r)
  PROVE  CInv'
<1> USE BParts DEF BInv, Own, LeavesSafe
<1>1. sess'[t] = r /\ \A u \in Thread \ {t} : sess'[u] = sess[u] /\ ClientOf[u] # ClientOf[t]
  BY DEF Alone
<1>2. ASSUME NEW u \in Thread PROVE Fits(ClientOf[u], sess[u])'
  <2>1. CASE u = t
    BY <2>1
  <2>2. CASE u # t
    <3>1. Fits(ClientOf[u], sess[u]) /\ sess'[u] = sess[u] /\ temp'[ClientOf[u]] = temp[ClientOf[u]]
      BY <1>1, <2>2 DEF CInv
    <3>2. sess[u].pc \in {"clear", "fill", "stat", "commit", "stamp", "clean"} => sess[u].path \in Path
      BY DEF Placed
    <3> QED
      BY <3>1, <3>2 DEF Fits, Published, HasTemp
  <2> QED
    BY <2>1, <2>2
<1>3. ASSUME NEW c \in Client, NEW p \in Path PROVE Safe(c, p)'
  <2>1. CASE c = ClientOf[t]
    BY <1>1, <2>1 DEF Safe, Published, HasTemp, Writing
  <2>2. CASE c # ClientOf[t]
    <3>1. Safe(c, p) /\ temp'[c] = temp[c] /\ dirty'[c] = dirty[c]
      BY <2>2 DEF CInv
    <3>2. Writing(c, p) => Writing(c, p)'
      BY <1>1, <2>2 DEF Writing
    <3> QED
      BY <3>1, <3>2 DEF Safe, Published, HasTemp
  <2> QED
    BY <2>1, <2>2
<1> QED
  BY <1>2, <1>3 DEF CInv

\* The same when the process moves on and no file changes.
LEMMA MoveOn ==
  ASSUME BInv, CInv, Alone, NEW t \in Thread, NEW r,
         UNCHANGED <<store, ever, temp, dirty>>, sess' = [sess EXCEPT ![t] = r],
         sess[t].pc # "mark", Fits(ClientOf[t], r)
  PROVE  CInv'
<1> USE BParts DEF BInv
<1>1. StoreSeen'
  BY DEF CInv, StoreSeen, Exists
<1>2. sess'[t] = r
  OBVIOUS
<1>3. Fits(ClientOf[t], sess[t])'
  BY <1>2 DEF Fits, Published, HasTemp
<1>4. ASSUME NEW p \in Path
      PROVE  \/ p \in dirty'[ClientOf[t]]
             \/ temp'[ClientOf[t]][p] = NoFile
             \/ temp'[ClientOf[t]][p].data \in ever'[p]
  <2>1. Safe(ClientOf[t], p) /\ ~Writing(ClientOf[t], p)
    BY DEF CInv, Writing, Alone
  <2> QED
    BY <2>1 DEF Safe, Published, HasTemp
<1>5. Own(t, r) /\ LeavesSafe(t, r)
  BY <1>4 DEF Own, LeavesSafe
<1> QED
  BY <1>1, <1>3, <1>5, OwnStep

\* And when it goes to rest.
LEMMA RestFits == ASSUME NEW c \in Client PROVE Fits(c, Rest)
BY DEF Fits, Rest

\* What the server shows is remembered.
LEMMA Remembered ==
  ASSUME BInv, CInv, Remember
  PROVE  /\ StoreSeen'
         /\ \A p \in Path : ever[p] \subseteq ever'[p]
         /\ \A p \in Path : store'[p] # NoFile => store'[p].data \in ever'[p]
BY BParts DEF Remember, CInv, StoreSeen, Exists, BInv

\* Steps of a process that only looks.
LEMMA LookSafe ==
  ASSUME BInv, CInv, Alone, NEW t \in Thread,
         GetAttr(t) \/ Check(t) \/ Fetch(t) \/ AskServer(t) \/ Flush(t) \/ Reply(t) \/ Commit(t)
  PROVE  CInv'
<1> USE BParts DEF BInv
<1> DEFINE s == sess[t]  c == ClientOf[t]
<1>1. s \in Session /\ c \in Client /\ s.path \in Path
  BY Busy DEF GetAttr, Check, Fetch, AskServer, Flush, Reply, Commit
<1>2. s.pc # "mark" /\ Fits(c, s)
  BY DEF CInv, GetAttr, Check, Fetch, AskServer, Flush, Reply, Commit
<1>3. UNCHANGED <<store, ever, temp, dirty>>
  BY DEF GetAttr, Check, Fetch, AskServer, Flush, Reply, Commit, server, client
<1>4. ASSUME NEW r, sess' = [sess EXCEPT ![t] = r], Fits(c, r)
      PROVE  CInv'
  BY <1>2, <1>3, <1>4, MoveOn
<1>5. CASE Done(t)
  BY <1>1, <1>4, <1>5, RestFits DEF Done
<1>6. ASSUME NEW l \in {"mkLocal", "open", "make"}, Goto(t, l) PROVE CInv'
  <2> DEFINE r == [s EXCEPT !.pc = l]
  <2>1. Fits(c, r) /\ sess' = [sess EXCEPT ![t] = r]
    BY <1>1, <1>2, <1>6 DEF Fits, Session, Goto
  <2> QED
    BY <1>4, <2>1
<1>7. CASE GetAttr(t)
  <2>1. ASSUME NEW x, sess' = [sess EXCEPT ![t].pc = "check", ![t].srv = x] PROVE CInv'
    <3> DEFINE r == [s EXCEPT !.pc = "check", !.srv = x]
    <3>1. Fits(c, r) /\ sess' = [sess EXCEPT ![t] = r]
      BY <1>1, <1>2, <2>1 DEF Fits, Session
    <3> QED
      BY <1>4, <3>1
  <2> QED
    BY <1>6, <1>7, <2>1 DEF GetAttr
<1>8. CASE Check(t)
  <2> DEFINE r == [s EXCEPT !.srv = 0, !.pc = IF OutOfDate(c, s.path, s.srv) THEN "fetch" ELSE "open"]
  <2>1. Fits(c, r) /\ sess' = [sess EXCEPT ![t] = r]
    BY <1>1, <1>2, <1>8 DEF Fits, Session, Check
  <2> QED
    BY <1>4, <2>1
<1>9. CASE Fetch(t)
  <2> DEFINE d == IF Exists(s.path) THEN Arrived(store[s.path].data) ELSE EmptyData
             r == [s EXCEPT !.pc = "clear", !.buf = d]
  <2>1. d \in ever[s.path]
    BY <1>1 DEF CInv, StoreSeen, Arrived
  <2>2. Fits(c, r)
    BY <1>1, <1>2, <2>1 DEF Fits, Session
  <2>3. sess' = [sess EXCEPT ![t] = r] \/ Goto(t, "open")
    BY <1>9 DEF Fetch
  <2> QED
    BY <1>4, <1>6, <2>2, <2>3
<1>10. CASE Flush(t)
  <2> DEFINE r == [s EXCEPT !.pc = "send", !.at = s.path, !.buf = temp[c][s.path].data]
  <2>1. Fits(c, r)
    BY <1>1, <1>2, <1>10 DEF Fits, Session, Flush
  <2>2. sess' = [sess EXCEPT ![t] = r] \/ Done(t)
    BY <1>10 DEF Flush
  <2> QED
    BY <1>4, <1>5, <2>1, <2>2
<1>11. CASE Reply(t)
  <2> DEFINE r == [s EXCEPT !.pc = "commit", !.srv = store[s.path].mtime]
  <2>1. Fits(c, r)
    BY <1>1, <1>2, <1>11 DEF Fits, Session, Reply
  <2>2. sess' = [sess EXCEPT ![t] = r] \/ Done(t)
    BY <1>11 DEF Reply
  <2> QED
    BY <1>4, <1>5, <2>1, <2>2
<1>12. CASE Commit(t)
  <2> DEFINE r == [s EXCEPT !.pc = "stamp"]
  <2>1. Fits(c, r)
    BY <1>1, <1>2, <1>12 DEF Fits, Session, Commit
  <2>2. sess' = [sess EXCEPT ![t] = r] \/ Done(t)
    BY <1>12 DEF Commit, Goto
  <2> QED
    BY <1>4, <1>5, <2>1, <2>2
<1> QED
  BY <1>6, <1>7, <1>8, <1>9, <1>10, <1>11, <1>12 DEF AskServer

\* Nothing but the session and the copies of the client of t changes.
LEMMA KeptStep ==
  ASSUME BInv, CInv, Alone, NEW t \in Thread, NEW r, UNCHANGED <<store, ever>>,
         sess' = [sess EXCEPT ![t] = r],
         \A c \in Client \ {ClientOf[t]} : temp'[c] = temp[c] /\ dirty'[c] = dirty[c],
         Fits(ClientOf[t], sess[t])',
         \A p \in Path : \/ p \in dirty'[ClientOf[t]]
                         \/ temp'[ClientOf[t]][p] = NoFile
                         \/ temp'[ClientOf[t]][p].data \in ever[p]
                         \/ r.pc = "mark" /\ r.path = p
  PROVE  CInv'
<1>1. StoreSeen'
  BY DEF CInv, StoreSeen, Exists
<1>2. Own(t, r) /\ LeavesSafe(t, r)
  BY DEF Own, LeavesSafe
<1> QED
  BY <1>1, <1>2, OwnStep

\* How the copies of a client stand before a step of its process.
LEMMA Before ==
  ASSUME BInv, CInv, Alone, NEW t \in Thread
  PROVE  /\ Fits(ClientOf[t], sess[t])
         /\ \A p \in Path : \/ p \in dirty[ClientOf[t]]
                            \/ temp[ClientOf[t]][p] = NoFile
                            \/ temp[ClientOf[t]][p].data \in ever[p]
                            \/ sess[t].pc = "mark" /\ sess[t].path = p
         /\ \A p \in Path : EmptyData \in ever[p]
<1>1. ClientOf[t] \in Client
  BY BParts DEF BInv
<1>2. \A p \in Path : Writing(ClientOf[t], p) => sess[t].pc = "mark" /\ sess[t].path = p
  BY DEF Writing, Alone
<1> QED
  BY <1>1, <1>2 DEF CInv, StoreSeen, Safe, Published, HasTemp

\* A published content, or one to be marked next, comes into temp.
LEMMA FileSafe ==
  ASSUME BInv, CInv, Alone, NEW t \in Thread, NEW p \in Path, NEW d \in Data,
         NEW m \in Times \cup Garbage, NEW r,
         sess[t].pc # "mark", UNCHANGED <<store, ever, dirty>>, Local(ClientOf[t], p, d, m),
         sess' = [sess EXCEPT ![t] = r],
         d \in ever[p] \/ p \in dirty[ClientOf[t]] \/ (r.pc = "mark" /\ r.path = p),
         Fits(ClientOf[t], sess[t])'
  PROVE  CInv'
<1>1. /\ temp'[ClientOf[t]][p].data = d
      /\ \A q \in Path \ {p} : temp'[ClientOf[t]][q] = temp[ClientOf[t]][q]
      /\ \A c \in Client \ {ClientOf[t]} : temp'[c] = temp[c]
  BY BParts DEF Local, Temps, BInv
<1>2. \A q \in Path : \/ q \in dirty'[ClientOf[t]]
                      \/ temp'[ClientOf[t]][q] = NoFile
                      \/ temp'[ClientOf[t]][q].data \in ever[q]
                      \/ r.pc = "mark" /\ r.path = q
  BY <1>1, BParts, Before DEF BInv
<1>3. \A c \in Client \ {ClientOf[t]} : temp'[c] = temp[c] /\ dirty'[c] = dirty[c]
  BY <1>1
<1>4. UNCHANGED <<store, ever>>
  OBVIOUS
<1> QED
  BY <1>2, <1>3, <1>4, KeptStep

\* The steps of open and write that fill the temp file.
LEMMA FillSafe ==
  ASSUME BInv, CInv, Alone, NEW t \in Thread,
         Clear(t) \/ Fill(t) \/ MakeLocal(t) \/ Write(t) \/ Stamp(t)
  PROVE  CInv'
<1> USE BParts DEF BInv
<1> DEFINE s == sess[t]  c == ClientOf[t]
<1>1. s \in Session /\ c \in Client /\ s.path \in Path
  BY Busy DEF Clear, Fill, MakeLocal, Write, Stamp
<1>2. s.pc # "mark" /\ Fits(c, s) /\ EmptyData \in ever[s.path]
  BY <1>1, Before DEF Clear, Fill, MakeLocal, Write, Stamp
<1>3. UNCHANGED <<store, ever, dirty>>
  BY DEF Clear, Fill, MakeLocal, Write, Stamp, server
<1>4. ASSUME NEW r, sess' = [sess EXCEPT ![t] = r], UNCHANGED temp, Fits(c, r)
      PROVE  CInv'
  BY <1>2, <1>3, <1>4, MoveOn
<1>5. now \in Times \cup Garbage /\ EmptyData \in Data
  BY FileStoreAssumption
<1>6. CASE Clear(t)
  <2> DEFINE r == [s EXCEPT !.pc = "fill", !.at = s.path]
  <2>1. sess' = [sess EXCEPT ![t] = r] /\ sess'[t] = r
    BY <1>6 DEF Clear
  <2>2. Fits(c, sess[t])'
    BY <1>1, <1>2, <1>3, <1>6, <2>1 DEF Fits, Session, Clear
  <2>3. Local(c, s.path, EmptyData, now)
    BY <1>6 DEF Clear
  <2> HIDE DEF r
  <2> QED
    BY <1>1, <1>2, <1>3, <1>5, <2>1, <2>2, <2>3, FileSafe
<1>7. CASE Fill(t)
  <2> DEFINE r == [s EXCEPT !.pc = "open", !.buf = EmptyData]
  <2>1. sess' = [sess EXCEPT ![t] = r] /\ sess'[t] = r
    BY <1>7 DEF Fill
  <2>2. Fits(c, r)
    BY <1>1, <1>2, <1>7 DEF Fits, Session, Fill
  <2>3. CASE s.at = NoPath
    BY <1>4, <1>7, <2>1, <2>2, <2>3 DEF Fill
  <2>4. CASE s.at # NoPath
    <3>1. s.at = s.path /\ s.buf \in ever[s.path] /\ s.buf \in Data
      BY <1>1, <1>2, <1>7, <2>4 DEF Fits, Fill, Session
    <3>2. Local(c, s.path, s.buf, now)
      BY <1>7, <2>4, <3>1 DEF Fill
    <3>3. Fits(c, sess[t])'
      BY <1>1, <1>2, <1>7, <2>1 DEF Fits, Session, Fill
    <3> HIDE DEF r
    <3> QED
      BY <1>1, <1>2, <1>3, <1>5, <2>1, <3>1, <3>2, <3>3, FileSafe
  <2> QED
    BY <2>3, <2>4
<1>8. CASE MakeLocal(t)
  <2> DEFINE r == [s EXCEPT !.pc = "mkDirty"]
  <2>1. sess' = [sess EXCEPT ![t] = r] /\ sess'[t] = r
    BY <1>8 DEF MakeLocal, Goto
  <2>2. Fits(c, sess[t])'
    BY <1>1, <1>2, <1>8, <2>1 DEF Fits, Session, MakeLocal
  <2>3. Local(c, s.path, EmptyData, now)
    BY <1>8 DEF MakeLocal
  <2> HIDE DEF r
  <2> QED
    BY <1>1, <1>2, <1>3, <1>5, <2>1, <2>2, <2>3, FileSafe
<1>9. CASE Write(t)
  <2> DEFINE r == [s EXCEPT !.pc = "mark"]
  <2>1. sess' = [sess EXCEPT ![t] = r] /\ sess'[t] = r
    BY <1>9 DEF Write, Goto
  <2>2. Fits(c, r) /\ r.path = s.path /\ r.pc = "mark"
    BY <1>1, <1>2, <1>9 DEF Fits, Session, Write
  <2>3. CASE s.at = NoPath
    BY <1>4, <1>9, <2>1, <2>2, <2>3 DEF Write
  <2>4. CASE s.at # NoPath
    <3>1. s.at = s.path /\ wrote + 1 \in Data
      BY <1>2, <1>9, <2>4, BnfsAssumption DEF Fits, Write
    <3>2. Local(c, s.path, wrote + 1, now)
      BY <1>9, <2>4, <3>1 DEF Write
    <3>3. Fits(c, sess[t])'
      BY <1>1, <1>2, <1>9, <2>1 DEF Fits, Session, Write
    <3> HIDE DEF r
    <3> QED
      BY <1>1, <1>2, <1>3, <1>5, <2>1, <2>2, <3>1, <3>2, <3>3, FileSafe
  <2> QED
    BY <2>3, <2>4
<1>10. CASE Stamp(t)
  <2> DEFINE r == [s EXCEPT !.pc = "clean"]
  <2>1. sess' = [sess EXCEPT ![t] = r] /\ sess'[t] = r
    BY <1>10 DEF Stamp, Goto
  <2>2. Fits(c, r)
    BY <1>1, <1>2, <1>10 DEF Fits, Session, Stamp
  <2>3. CASE ~HasTemp(c, s.path)
    BY <1>4, <1>10, <2>1, <2>2, <2>3 DEF Stamp
  <2>4. CASE HasTemp(c, s.path)
    <3> DEFINE d == temp[c][s.path].data
    <3>1. d \in ever[s.path] /\ d \in Data /\ s.srv \in Times \cup Garbage
      BY <1>1, <1>2, <1>10, <2>4 DEF Fits, Published, Stamp, Session
    <3>2. Local(c, s.path, d, s.srv)
      BY <1>10, <2>4 DEF Stamp
    <3>3. temp'[c][s.path].data = d
      BY <1>1, <3>2 DEF Local, Temps
    <3>4. Fits(c, sess[t])'
      BY <1>1, <1>2, <1>3, <1>10, <2>1, <3>1, <3>3 DEF Fits, Published, Session, Stamp
    <3> HIDE DEF d, r
    <3> QED
      BY <1>1, <1>2, <1>3, <2>1, <3>1, <3>2, <3>4, FileSafe
  <2> QED
    BY <2>3, <2>4
<1> QED
  BY <1>6, <1>7, <1>8, <1>9, <1>10

\* The steps that set or erase a mark.
LEMMA MarkSafe ==
  ASSUME BInv, CInv, Alone, NEW t \in Thread,
         MakeDirty(t) \/ Mark(t) \/ Clean(t)
  PROVE  CInv'
<1> USE BParts DEF BInv
<1> DEFINE s == sess[t]  c == ClientOf[t]
<1>1. s \in Session /\ c \in Client /\ s.path \in Path
  BY Busy DEF MakeDirty, Mark, Clean
<1>2. UNCHANGED <<store, ever, temp>> /\ Fits(c, s)
  BY Before DEF MakeDirty, Mark, Clean, server
<1>3. PICK r : /\ sess' = [sess EXCEPT ![t] = r]
               /\ r = Rest \/ r = [s EXCEPT !.pc = "ask"] \/ r = [s EXCEPT !.pc = "opened"]
  BY DEF MakeDirty, Mark, Clean, Goto, Done
<1>4. Fits(c, r)
  <2>1. Fits(c, Rest)
    BY <1>1, RestFits
  <2> QED
    BY <1>1, <1>2, <1>3, <2>1 DEF Fits, Session
<1>5. sess'[t] = r
  BY <1>3
<1>6. Fits(c, sess[t])'
  BY <1>2, <1>4, <1>5 DEF Fits, Published, HasTemp
<1>7. \A b \in Client \ {c} : temp'[b] = temp[b] /\ dirty'[b] = dirty[b]
  BY <1>2 DEF MakeDirty, Mark, Clean
<1>8. \A p \in Path : p \in dirty'[c] \/ temp'[c][p] = NoFile \/ temp'[c][p].data \in ever[p]
  <2>1. CASE MakeDirty(t) \/ Mark(t)
    <3>1. dirty'[c] = dirty[c] \cup {s.path}
      BY <1>1, <2>1 DEF MakeDirty, Mark
    <3> QED
      BY <1>2, <2>1, <3>1, Before
  <2>2. CASE Clean(t)
    <3>1. dirty'[c] = dirty[c] \ {s.path} /\ s.pc = "clean"
      BY <1>1, <2>2 DEF Clean
    <3>2. temp[c][s.path] = NoFile \/ temp[c][s.path].data \in ever[s.path]
      BY <1>2, <3>1 DEF Fits, Published, HasTemp
    <3> QED
      BY <1>2, <3>1, <3>2, Before
  <2> QED
    BY <2>1, <2>2
<1> QED
  BY <1>2, <1>3, <1>6, <1>7, <1>8, KeptStep

\* deleteFromTemp.
LEMMA DropSafe ==
  ASSUME BInv, CInv, Alone, NEW t \in Thread, NEW p \in Path, NEW s,
         sess[t].pc # "mark", UNCHANGED <<store, ever>>, DropTemp(t, p, s),
         s.pc \in {"idle", "rm"}, s.at = NoPath
  PROVE  CInv'
<1> USE BParts DEF BInv
<1> DEFINE c == ClientOf[t]
<1>1. c \in Client
  OBVIOUS
<1>2. /\ temp'[c][p] = NoFile /\ \A q \in Path \ {p} : temp'[c][q] = temp[c][q]
      /\ dirty'[c] = dirty[c] \ {p}
      /\ \A b \in Client \ {c} : temp'[b] = temp[b] /\ dirty'[b] = dirty[b]
  BY <1>1 DEF DropTemp, Temps
<1>3. sess' = [sess EXCEPT ![t] = s] /\ sess'[t] = s
  <2>1. \A u \in Thread : u # t => ClientOf[u] # c
    BY DEF Alone
  <2>2. sess' = [u \in Thread |-> IF u = t THEN s ELSE sess[u]]
    BY <2>1 DEF DropTemp
  <2> QED
    BY <2>2
<1>4. Fits(c, sess[t])'
  BY <1>3 DEF Fits
<1>5. \A q \in Path : q \in dirty'[c] \/ temp'[c][q] = NoFile \/ temp'[c][q].data \in ever[q]
  BY <1>2, Before
<1> QED
  BY <1>2, <1>3, <1>4, <1>5, KeptStep

\* The steps of an open that change no copy.
LEMMA OpenSafe ==
  ASSUME BInv, CInv, Alone, NEW t \in Thread, NEW p \in Path, NEW mode \in {"r", "w"},
         NEW creat \in {"none", "create", "trunc"}, Open(t, p, mode, creat)
  PROVE  CInv'
<1> DEFINE r == [Rest EXCEPT !.pc = "attr", !.mode = mode, !.path = p, !.creat = creat]
<1>1. Fits(ClientOf[t], r)
  BY DEF Fits, Rest
<1>2. /\ sess[t].pc # "mark" /\ sess' = [sess EXCEPT ![t] = r]
      /\ UNCHANGED <<store, ever, temp, dirty>>
  BY DEF Open, server, client
<1> HIDE DEF r
<1> QED
  BY <1>1, <1>2, MoveOn

\* Opening the file in temp, which may truncate it and marks it then.
LEMMA OpenTempSafe ==
  ASSUME BInv, CInv, Alone, NEW t \in Thread, OpenTemp(t)
  PROVE  CInv'
<1> DEFINE s == sess[t]  c == ClientOf[t]
           r == [s EXCEPT !.pc = "opened", !.at = s.path, !.creat = "none"]
<1>1. s \in Session /\ c \in Client /\ s.path \in Path
  BY Busy DEF OpenTemp, BInv
<1>2. s.pc = "open" /\ Fits(c, s) /\ EmptyData \in ever[s.path] /\ UNCHANGED <<store, ever>>
  BY <1>1, Before DEF OpenTemp, server
<1>3. Fits(c, r) /\ r.pc = "opened" /\ r.at = s.path /\ r.path = s.path
  BY <1>1, <1>2 DEF Fits, Session
<1> HIDE DEF r
<1>4. CASE sess' = [sess EXCEPT ![t] = r] /\ UNCHANGED <<temp, dirty>>
  BY <1>2, <1>3, <1>4, MoveOn
<1>5. CASE /\ Local(c, s.path, EmptyData, now)
           /\ sess' = [sess EXCEPT ![t] = r]
           /\ UNCHANGED dirty
  <2>1. now \in Times \cup Garbage /\ EmptyData \in Data
    BY BParts, FileStoreAssumption DEF BInv
  <2>2. sess'[t] = r
    BY <1>5, BParts DEF BInv
  <2>3. Fits(c, sess[t])'
    BY <1>3, <2>2 DEF Fits
  <2> QED
    BY <1>1, <1>2, <1>5, <2>1, <2>3, FileSafe
<1>6. CASE DropTemp(t, s.path, Rest)
  BY <1>1, <1>2, <1>6, DropSafe DEF Rest
<1> QED
  BY <1>4, <1>5, <1>6 DEF OpenTemp, r

\* The upload reads the file of its client, which nobody else writes.
LEMMA SendSafe ==
  ASSUME BInv, CInv, Alone, NEW t \in Thread, Send(t)
  PROVE  CInv'
<1> DEFINE s == sess[t]  c == ClientOf[t]
           b == IF s.at = NoPath THEN s.buf ELSE temp[c][s.at].data
           r == [s EXCEPT !.pc = "put", !.began = now, !.buf = b]
<1>1. s \in Session /\ c \in Client /\ s.path \in Path
  BY Busy DEF Send, BInv
<1>2. s.pc = "send" /\ Fits(c, s) /\ UNCHANGED <<store, ever>>
  BY Before DEF Send, server
<1>3. b = temp[c][s.path].data
  BY <1>1, <1>2, BnfsAssumption DEF Fits
<1>4. Fits(c, r)
  BY <1>1, <1>2, <1>3 DEF Fits, Session
<1>5. \/ sess' = [sess EXCEPT ![t] = r] /\ UNCHANGED <<temp, dirty>>
      \/ DropTemp(t, s.path, Rest)
  BY DEF Send
<1> HIDE DEF r
<1> QED
  BY <1>1, <1>2, <1>4, <1>5, MoveOn, DropSafe DEF Rest

\* A step of the server that a process of a client waits for.
LEMMA ServedSafe ==
  ASSUME BInv, CInv, Alone, NEW t \in Thread, NEW r, Remember, UNCHANGED client,
         sess' = [sess EXCEPT ![t] = r], sess[t].pc # "mark",
         Fits(ClientOf[t], sess[t])'
  PROVE  CInv'
<1>1. UNCHANGED <<temp, dirty>> /\ StoreSeen' /\ \A p \in Path : ever[p] \subseteq ever'[p]
  BY Remembered DEF client
<1>2. LeavesSafe(t, r)
  BY <1>1, Before DEF LeavesSafe
<1>3. Own(t, r)
  BY <1>1 DEF Own
<1> QED
  BY <1>1, <1>2, <1>3, OwnStep

\* A step of the server on its own, or of the clock.
LEMMA ServerSafe ==
  ASSUME BInv, CInv, StoreSeen', \A p \in Path : ever[p] \subseteq ever'[p],
         UNCHANGED <<temp, dirty, sess>>
  PROVE  CInv'
<1>1. ASSUME NEW t \in Thread PROVE Fits(ClientOf[t], sess[t])'
  <2>1. Fits(ClientOf[t], sess[t])
    BY DEF CInv
  <2>2. sess[t].pc \in {"clear", "fill", "stat", "commit", "stamp", "clean"} => sess[t].path \in Path
    BY BParts DEF BInv, Placed
  <2> QED
    BY <2>1, <2>2 DEF Fits, Published, HasTemp
<1>2. \A c \in Client, p \in Path : Safe(c, p)'
  BY DEF CInv, Safe, Published, HasTemp, Writing
<1> QED
  BY <1>1, <1>2 DEF CInv

\* A new file is published empty.
LEMMA MakeOnServerSafe ==
  ASSUME BInv, CInv, Alone, NEW t \in Thread, MakeOnServer(t)
  PROVE  CInv'
<1> DEFINE s == sess[t]  c == ClientOf[t]
           r == [s EXCEPT !.pc = "open"]
<1>1. s \in Session /\ s.pc = "make" /\ Fits(c, s)
  BY Busy, Before DEF MakeOnServer, BInv
<1>2. sess' = [sess EXCEPT ![t] = r] /\ Remember /\ UNCHANGED client
  BY DEF MakeOnServer, Goto
<1>3. sess'[t] = r
  BY <1>2, BParts DEF BInv
<1>4. Fits(c, sess[t])'
  BY <1>1, <1>3 DEF Fits, Session
<1> HIDE DEF r
<1> QED
  BY <1>1, <1>2, <1>4, ServedSafe

\* An upload publishes what was sent.
LEMMA PutFileSafe ==
  ASSUME BInv, CInv, Alone, NEW t \in Thread, PutFile(t)
  PROVE  CInv'
<1> DEFINE s == sess[t]  c == ClientOf[t]
           r == [s EXCEPT !.pc = "stat", !.buf = EmptyData, !.began = 0]
<1>1. s \in Session /\ c \in Client /\ s.path \in Path /\ s.pc = "put" /\ Fits(c, s)
  BY Busy, Before DEF PutFile, BInv
<1>2. UNCHANGED client
  BY DEF PutFile
<1>3. ASSUME NEW m, Publish(s.path, s.buf, m), Remember, sess' = [sess EXCEPT ![t] = r]
      PROVE  CInv'
  <2>1. store'[s.path] # NoFile /\ store'[s.path].data = s.buf
    <3>1. [data |-> s.buf, mtime |-> m] # NoFile
      <4>1. m \in lastPut..now
        BY <1>3 DEF Publish
      <4>2. m \in Nat
        BY <4>1, BParts DEF BInv, Times
      <4> QED
        BY <1>1, <4>2, FileStoreAssumption DEF Session
    <3> QED
      BY <1>1, <1>3, <3>1, BParts DEF Publish, BInv
  <2>2. s.buf \in ever'[s.path]
    BY <1>1, <1>3, <2>1, Remembered
  <2>3. HasTemp(c, s.path) => temp[c][s.path].data = s.buf
    BY <1>1 DEF Fits
  <2>4. sess'[t] = r
    BY <1>3, BParts DEF BInv
  <2>5. r.pc = "stat" /\ r.path = s.path /\ r.at = s.at
    BY <1>1 DEF Session
  <2>6. UNCHANGED temp
    BY <1>2 DEF client
  <2> HIDE DEF r
  <2>7. Fits(c, sess[t])'
    BY <1>1, <2>2, <2>3, <2>4, <2>5, <2>6 DEF Fits, Published, HasTemp
  <2> QED
    BY <1>1, <1>2, <1>3, <2>7, ServedSafe
<1>4. CASE Done(t) /\ UNCHANGED <<server, now>>
  <2>1. Fits(c, Rest) /\ UNCHANGED <<store, ever, temp, dirty>>
    BY <1>1, <1>2, <1>4, RestFits DEF server, client
  <2> QED
    BY <1>1, <1>4, <2>1, MoveOn DEF Done
<1> QED
  BY <1>3, <1>4 DEF PutFile

\* An unlink takes the copy away.
LEMMA UnlinkSafe ==
  ASSUME BInv, CInv, Alone, NEW t \in Thread, NEW p \in Path, Unlink(t, p)
  PROVE  CInv'
<1> DEFINE s == [Rest EXCEPT !.pc = "rm", !.mode = "w", !.path = p]
<1>1. s.pc = "rm" /\ s.at = NoPath
  BY DEF Rest
<1>2. sess[t].pc # "mark" /\ UNCHANGED <<store, ever>> /\ DropTemp(t, p, s)
  BY DEF Unlink, server
<1> HIDE DEF s
<1> QED
  BY <1>1, <1>2, DropSafe

\* The server's file goes; what it had shown is remembered.
LEMMA UnlinkRpcSafe ==
  ASSUME BInv, CInv, Alone, NEW t \in Thread, UnlinkRpc(t)
  PROVE  CInv'
<1>1. sess[t].pc = "rm" /\ UNCHANGED client /\ sess' = [sess EXCEPT ![t] = Rest]
  BY DEF UnlinkRpc, Done
<1>2. Fits(ClientOf[t], Rest) /\ sess'[t] = Rest
  BY <1>1, RestFits, BParts DEF BInv
<1>3. Fits(ClientOf[t], sess[t])'
  BY <1>2 DEF Fits, Rest
<1>4. CASE Remember
  BY <1>1, <1>3, <1>4, ServedSafe
<1>5. CASE UNCHANGED <<server, now>>
  BY <1>1, <1>2, <1>5, MoveOn DEF server, client
<1> QED
  BY <1>4, <1>5 DEF UnlinkRpc

\* A restart leaves no copy.
LEMMA RestartSafe ==
  ASSUME BInv, CInv, NEW c \in Client, Restart(c)
  PROVE  CInv'
<1> USE BParts DEF BInv
<1>1. /\ UNCHANGED <<store, ever>>
      /\ \A p \in Path : temp'[c][p] = NoFile
      /\ \A b \in Client \ {c} : temp'[b] = temp[b] /\ dirty'[b] = dirty[b]
      /\ \A t \in Thread : sess'[t] = IF ClientOf[t] = c THEN Rest ELSE sess[t]
  BY DEF Restart, server, Temps
<1>2. StoreSeen'
  BY <1>1 DEF CInv, StoreSeen, Exists
<1>3. ASSUME NEW t \in Thread PROVE Fits(ClientOf[t], sess[t])'
  <2>1. CASE ClientOf[t] = c
    BY <1>1, <2>1 DEF Fits, Rest
  <2>2. CASE ClientOf[t] # c
    <3>1. Fits(ClientOf[t], sess[t]) /\ sess'[t] = sess[t] /\ temp'[ClientOf[t]] = temp[ClientOf[t]]
      BY <1>1, <2>2 DEF CInv
    <3> QED
      BY <1>1, <3>1 DEF Fits, Published, HasTemp
  <2> QED
    BY <2>1, <2>2
<1>4. ASSUME NEW b \in Client, NEW p \in Path PROVE Safe(b, p)'
  <2>1. CASE b = c
    BY <1>1, <2>1 DEF Safe, Published, HasTemp
  <2>2. CASE b # c
    <3>1. Safe(b, p) /\ temp'[b] = temp[b] /\ dirty'[b] = dirty[b]
      BY <1>1, <2>2 DEF CInv
    <3>2. Writing(b, p) => Writing(b, p)'
      BY <1>1, <2>2 DEF Writing
    <3> QED
      BY <1>1, <3>1, <3>2 DEF Safe, Published, HasTemp
  <2> QED
    BY <2>1, <2>2
<1> QED
  BY <1>2, <1>3, <1>4 DEF CInv

\* The invariant of copies holds when the clients start.
LEMMA CInvInit == BInit => CInv
<1> SUFFICES ASSUME BInit PROVE CInv
  OBVIOUS
<1>1. StoreSeen
  BY DEF BInit, Init, StoreSeen, Exists
<1>2. \A t \in Thread : ClientOf[t] \in Client /\ sess[t] = Rest
  BY BnfsAssumption DEF BInit
<1>3. \A t \in Thread : Fits(ClientOf[t], sess[t])
  BY <1>2, RestFits
<1>4. \A c \in Client, p \in Path : ~HasTemp(c, p)
  BY DEF BInit, HasTemp
<1> QED
  BY <1>1, <1>3, <1>4 DEF CInv, Safe, Published

\* Every step keeps the invariant of copies.
LEMMA CInvNext ==
  ASSUME BInv, CInv, Alone, [BNext]_allvars
  PROVE  CInv'
<1>1. CASE UNCHANGED allvars
  BY <1>1 DEF allvars, CInv, StoreSeen, Exists, Fits, Published, HasTemp, Safe, Writing
<1>2. CASE StrayPut
  <2>1. Remember /\ UNCHANGED <<temp, dirty, sess>>
    BY <1>2 DEF StrayPut, client
  <2> QED
    BY <2>1, Remembered, ServerSafe
<1>3. CASE Second
  <2>1. UNCHANGED <<store, ever, temp, dirty, sess>>
    BY <1>3 DEF Second, Tick, client
  <2>2. StoreSeen'
    BY <2>1 DEF CInv, StoreSeen, Exists
  <2> QED
    BY <2>1, <2>2, ServerSafe
<1>4. CASE \E c \in Client : Restart(c)
  BY <1>4, RestartSafe
<1>5. CASE \E t \in Thread, p \in Path :
             \/ \E mode \in {"r", "w"}, creat \in {"none", "create", "trunc"} :
                  Open(t, p, mode, creat)
             \/ Unlink(t, p)
  BY <1>5, OpenSafe, UnlinkSafe
<1>6. ASSUME NEW t \in Thread, NEW p \in Path,
             Truncate(t, p) \/ \E q \in Path : Rename(t, p, q)
      PROVE  FALSE
  BY <1>6 DEF Alone, Truncate, Rename
<1>7. ASSUME NEW t \in Thread, RenameRpc(t) PROVE FALSE
  BY <1>7 DEF CInv, Fits, RenameRpc
<1>8. CASE \E t \in Thread :
             \/ GetAttr(t) \/ Check(t) \/ Fetch(t) \/ Clear(t) \/ Fill(t)
             \/ MakeLocal(t) \/ MakeDirty(t) \/ AskServer(t) \/ MakeOnServer(t) \/ OpenTemp(t)
             \/ Write(t) \/ Mark(t)
  BY <1>8, LookSafe, FillSafe, MarkSafe, MakeOnServerSafe, OpenTempSafe
<1>9. CASE \E t \in Thread :
             \/ Flush(t) \/ Send(t) \/ PutFile(t) \/ Reply(t) \/ Commit(t) \/ Stamp(t) \/ Clean(t)
             \/ UnlinkRpc(t)
  BY <1>9, LookSafe, SendSafe, PutFileSafe, FillSafe, MarkSafe, UnlinkRpcSafe
<1> QED
  BY <1>1, <1>2, <1>3, <1>4, <1>5, <1>6, <1>7, <1>8, <1>9 DEF BNext

\* Recovery by the dirty mark, for any number of clients with one process
\* each, any paths and contents, any failures and restarts: a file that a
\* client at rest holds without a mark has been shown by the server.
THEOREM CleanFilesWerePublished ==
  ASSUME Alone
  PROVE  BSpec => []CleanMeansPublished
<1>1. BInit => BInv /\ CInv
  BY BInvInit, CInvInit
<1>2. (BInv /\ CInv) /\ [BNext]_allvars => (BInv /\ CInv)'
  BY BInvNext, CInvNext
<1>3. BInv /\ CInv => CleanMeansPublished
  <2> SUFFICES ASSUME BInv, CInv, NEW c \in Client, NEW p \in Path,
                      Idle(c), HasTemp(c, p), p \notin dirty[c]
               PROVE  temp[c][p].data \in ever[p]
    BY DEF CleanMeansPublished
  <2>1. ~Writing(c, p)
    BY DEF Idle, Writing
  <2> QED
    BY <2>1 DEF CInv, Safe, Published
<1> QED
  BY <1>1, <1>2, <1>3, PTL DEF BSpec
============================================================================
