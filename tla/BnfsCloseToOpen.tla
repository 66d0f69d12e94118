--------------------------- MODULE BnfsCloseToOpen ---------------------------
(***************************************************************************)
(* Close-to-open consistency: a process that opens a file reads what was   *)
(* closed last, from whichever client, when processes take turns.  It      *)
(* rests on two clocks that agree: the times the server gives the files it *)
(* publishes, and the times of the copies in the temp directories.  From   *)
(* it follows that Bnfs implements SharedFiles (SessionsLookAtomic): the   *)
(* steps of a session look like one to open and one to close.              *)
(***************************************************************************)
EXTENDS BnfsTurns

\* One process on each client, and no content that a fetch cuts short.
Sharing ==
  /\ Taking
  /\ \A t, u \in Thread : ClientOf[t] = ClientOf[u] => t = u
  /\ NulData = {}

Before(c, p, m) == HasTemp(c, p) => temp[c][p].mtime < m

SameAsServer(c, p) == HasTemp(c, p) => temp[c][p].data = store[p].data

Creating == {"mkLocal", "mkDirty", "ask", "make"}
Closing == {"send", "put", "stat", "commit", "stamp", "clean"}

\* What a session knows of its file: whether the server has it, ...
KnowsFile(c, s) ==
  /\ s.pc # "idle" /\ s.creat = "none" => Exists(s.path)
  /\ s.creat # "none" => s.pc \in Creating \cup {"attr", "open"}
  /\ s.creat # "none" => (Exists(s.path) <=> s.pc = "open")
  /\ s.pc \in Creating => s.creat # "none"
  /\ s.pc \in {"fill", "opened", "mark", "send"} => s.at = s.path /\ HasTemp(c, s.path)
  /\ s.pc \in {"ask", "make"} \cup Closing => s.path \in dirty[c]
  /\ s.pc = "open" => IF s.creat = "none" THEN HasTemp(c, s.path) ELSE s.path \in dirty[c]

\* ... what it was told by the server and what its copy holds.
KnowsCopy(c, s) ==
  /\ s.pc = "check" => s.srv = store[s.path].mtime
  /\ s.pc \in {"clear", "fill"} => s.buf = store[s.path].data
  /\ \/ s.pc = "open" /\ s.creat = "none"
     \/ s.pc = "opened" /\ s.path \notin dirty[c]
     => s.path \in moved \/ SameAsServer(c, s.path)
  /\ s.pc = "put" => /\ HasTemp(c, s.path) => temp[c][s.path].data = s.buf
                     /\ s.began <= now
                     /\ \A b \in Client \ {c} : Before(b, s.path, s.began)
  /\ s.pc \in {"stat", "commit", "stamp", "clean"} => SameAsServer(c, s.path)
  /\ s.pc \in {"commit", "stamp"} => s.srv = store[s.path].mtime

\* A copy was made or stamped in a session that is over, or in the one that
\* is going on.
Aged(c, p) ==
  HasTemp(c, p) =>
    /\ temp[c][p].mtime <= now
    /\ \/ temp[c][p].mtime <= lastEnd
       \/ \E t \in Thread : ClientOf[t] = c /\ Active(t) /\ sess[t].path = p

\* A copy that is about to be filled or marked, or has just been renamed.
Between(c, p) ==
  \E t \in Thread : /\ ClientOf[t] = c
                    /\ \/ sess[t].pc \in {"fill", "mark"} /\ sess[t].path = p
                       \/ sess[t].pc = "mv" /\ sess[t].to = p

\* A copy without a mark is what the server has, or is older.
Fresh(c, p) ==
  HasTemp(c, p) /\ Exists(p) /\ p \notin moved \cup dirty[c] /\ ~Between(c, p) =>
    \/ temp[c][p].data = store[p].data
    \/ temp[c][p].mtime < store[p].mtime

\* Whoever may write works in a later second than the copies of the others
\* are from.
Later(t) ==
  Active(t) /\ sess[t].mode = "w" =>
    \A c \in Client, p \in Path :
      c # ClientOf[t] \/ p # sess[t].path => Before(c, p, now)

Left(x) == x.began <= now /\ \A c \in Client : Before(c, x.path, x.began)

KInv ==
  /\ strays # {} => \A t \in Thread : ~Active(t)
  /\ \A x \in strays : Left(x)
  /\ \A t \in Thread : KnowsFile(ClientOf[t], sess[t]) /\ KnowsCopy(ClientOf[t], sess[t])
  /\ \A t \in Thread : Later(t)
  /\ \A c \in Client, p \in Path : Aged(c, p) /\ Fresh(c, p)

----------------------------------------------------------------------------
(* What one step leaves of what the other sessions know                    *)

\* A process at rest knows nothing.
LEMMA RestKnows ==
  ASSUME NEW c, NEW s, s.pc = "idle", s.creat = "none"
  PROVE  KnowsFile(c, s) /\ KnowsCopy(c, s)
BY DEF KnowsFile, KnowsCopy, Creating, Closing

\* The parts of the invariant for one process.
LEMMA KParts ==
  ASSUME KInv, NEW t \in Thread
  PROVE  /\ KnowsFile(ClientOf[t], sess[t]) /\ KnowsCopy(ClientOf[t], sess[t]) /\ Later(t)
         /\ Active(t) => strays = {}
         /\ ~Active(t) => sess[t].creat = "none"
BY DEF KInv, KnowsFile, Creating, Active

\* A process that does nothing still knows what it knew, when its file and
\* its copy stay and the other copies of the file stay or go.
LEMMA Unmoved ==
  ASSUME BInv, KInv, NEW u \in Thread, sess'[u] = sess[u], now \in Nat, now' \in Nat, now' >= now,
         moved \subseteq moved',
         Active(u) =>
           /\ store'[sess[u].path] = store[sess[u].path]
           /\ temp'[ClientOf[u]][sess[u].path] = temp[ClientOf[u]][sess[u].path]
           /\ sess[u].path \in dirty'[ClientOf[u]] <=> sess[u].path \in dirty[ClientOf[u]]
           /\ sess[u].pc = "put" => \A b \in Client :
                temp'[b][sess[u].path] \in {temp[b][sess[u].path], NoFile}
  PROVE  KnowsFile(ClientOf[u], sess[u])' /\ KnowsCopy(ClientOf[u], sess[u])'
<1>1. CASE ~Active(u)
  BY <1>1, KParts DEF Active, KnowsFile, KnowsCopy, Creating, Closing
<1>2. CASE Active(u)
  <2>1. KnowsFile(ClientOf[u], sess[u])'
    BY <1>2, KParts DEF KnowsFile, Exists, HasTemp
  <2>2. KnowsCopy(ClientOf[u], sess[u])'
    <3>1. CASE sess[u].pc # "put"
      BY <1>2, <3>1, KParts DEF KnowsCopy, SameAsServer, HasTemp
    <3>2. CASE sess[u].pc = "put"
      <4>1. KnowsCopy(ClientOf[u], sess[u])
        BY KParts
      <4>2. sess[u].began <= now'
        <5>1. sess[u].began <= now
          BY <3>2, <4>1 DEF KnowsCopy
        <5>2. sess[u].began \in Nat /\ now' \in Nat
          BY BParts DEF BInv, Session, Times, BT, BTypeOK, TypeOK
        <5> QED
          BY <5>1, <5>2
      <4>3. \A b \in Client \ {ClientOf[u]} :
              temp'[b][sess[u].path] # NoFile => temp'[b][sess[u].path].mtime < sess[u].began
        BY <1>2, <3>2, <4>1 DEF KnowsCopy, Before, HasTemp
      <4> QED
        BY <1>2, <3>2, <4>1, <4>2, <4>3 DEF KnowsCopy, Before, HasTemp
    <3> QED
      BY <3>1, <3>2
  <2> QED
    BY <2>1, <2>2
<1> QED
  BY <1>1, <1>2

\* While a process works, another one is at rest or both only read.
LEMMA Reader ==
  ASSUME SInv, NEW t \in Thread, NEW u \in Thread, t # u, Active(t), Active(u)
  PROVE  /\ sess[t].mode = "r" /\ sess[u].mode = "r"
         /\ sess[u].pc \notin {"put", "mv", "rm", "mark"} /\ sess[t].pc \notin {"put", "mv", "rm", "mark"}
<1>1. Role(ClientOf[t], sess[t]) /\ Role(ClientOf[u], sess[u])
  BY DEF SInv
<1>2. sess[t].mode = "r" /\ sess[u].mode = "r"
  BY DEF SInv, Turns
<1> QED
  BY <1>1, <1>2 DEF Role

----------------------------------------------------------------------------
(* A process works on its own file                                         *)

Own(t, p) ==
  /\ \A u \in Thread \ {t} : sess'[u] = sess[u]
  /\ UNCHANGED <<store, now, strays, moved>>
  /\ \A b \in Client, q \in Path : b # ClientOf[t] \/ q # p =>
       temp'[b][q] = temp[b][q] /\ (q \in dirty'[b] <=> q \in dirty[b])
  /\ \/ sess'[t].pc = "idle" /\ lastEnd' = now
     \/ /\ sess'[t].pc \notin {"idle", "mv"} /\ lastEnd' = lastEnd
        /\ sess'[t].path = p /\ sess'[t].mode = sess[t].mode

\* Of such a step only the own file matters.
LEMMA OwnStep ==
  ASSUME Sharing, BInv, SInv, KInv, NEW t \in Thread, NEW p \in Path,
         Active(t), sess[t].pc # "mv", sess[t].path = p, Own(t, p),
         KnowsFile(ClientOf[t], sess[t])', KnowsCopy(ClientOf[t], sess[t])',
         temp'[ClientOf[t]][p] # NoFile => temp'[ClientOf[t]][p].mtime <= now,
         Fresh(ClientOf[t], p)'
  PROVE  KInv'
<1> USE BParts DEF BInv
<1> DEFINE c == ClientOf[t]
<1>0. strays = {} /\ strays' = {} /\ now \in Nat /\ now' = now /\ lastEnd \in Nat /\ lastEnd <= now
      /\ moved' = moved /\ store' = store /\ c \in Client
  BY KParts DEF Own, Times
<1>1. ASSUME NEW u \in Thread
      PROVE  KnowsFile(ClientOf[u], sess[u])' /\ KnowsCopy(ClientOf[u], sess[u])'
  <2>1. CASE u = t
    BY <2>1
  <2>2. CASE u # t
    <3>1. sess'[u] = sess[u] /\ ClientOf[u] # c /\ ClientOf[u] \in Client
      BY <2>2 DEF Own, Sharing
    <3>2. Active(u) => sess[u].path \in Path /\ sess[u].pc # "put"
      BY <2>2, Reader, Busy DEF Active
    <3>3. Active(u) => /\ temp'[ClientOf[u]][sess[u].path] = temp[ClientOf[u]][sess[u].path]
                       /\ sess[u].path \in dirty'[ClientOf[u]] <=> sess[u].path \in dirty[ClientOf[u]]
      BY <3>1, <3>2 DEF Own
    <3> QED
      BY <1>0, <3>1, <3>2, <3>3, Unmoved
  <2> QED
    BY <2>1, <2>2
<1>2. ASSUME NEW u \in Thread PROVE Later(u)'
  <2>1. CASE u = t
    <3>1. CASE sess'[t].pc = "idle"
      BY <2>1, <3>1 DEF Later, Active
    <3>2. CASE sess'[t].pc # "idle"
      <4>1. sess'[t].path = p /\ sess'[t].mode = sess[t].mode
        BY <3>2 DEF Own
      <4>2. ASSUME sess'[t].mode = "w", NEW b \in Client, NEW q \in Path, b # c \/ q # p,
                   temp'[b][q] # NoFile
            PROVE  temp'[b][q].mtime < now
        <5>1. Before(b, q, now)
          BY <4>1, <4>2, KParts DEF Later
        <5>2. temp'[b][q] = temp[b][q]
          BY <4>2 DEF Own
        <5> QED
          BY <4>2, <5>1, <5>2 DEF Before, HasTemp
      <4> QED
        BY <1>0, <2>1, <4>1, <4>2 DEF Later, Before, HasTemp
    <3> QED
      BY <3>1, <3>2
  <2>2. CASE u # t
    <3>1. sess'[u] = sess[u]
      BY <2>2 DEF Own
    <3>2. Active(u) => sess[u].mode # "w"
      BY <2>2, Reader
    <3> QED
      BY <3>1, <3>2 DEF Later, Active
  <2> QED
    BY <2>1, <2>2
<1>3. ASSUME NEW b \in Client, NEW q \in Path PROVE Aged(b, q)'
  <2>1. CASE b = c /\ q = p
    <3>1. CASE sess'[t].pc = "idle"
      BY <1>0, <2>1, <3>1 DEF Own, Aged, HasTemp
    <3>2. CASE sess'[t].pc # "idle"
      BY <1>0, <2>1, <3>2 DEF Own, Aged, HasTemp, Active
    <3> QED
      BY <3>1, <3>2
  <2>2. CASE b # c \/ q # p
    <3>1. temp'[b][q] = temp[b][q] /\ Aged(b, q) /\ lastEnd' \in {lastEnd, now}
      BY <2>2 DEF Own, KInv
    <3>2. \A u \in Thread : ClientOf[u] = b /\ Active(u) /\ sess[u].path = q => sess'[u] = sess[u]
      BY <2>2 DEF Own
    <3> SUFFICES ASSUME temp'[b][q] # NoFile
                 PROVE  /\ temp[b][q].mtime <= now
                        /\ \/ temp[b][q].mtime <= lastEnd'
                           \/ \E u \in Thread : ClientOf[u] = b /\ sess'[u].pc # "idle" /\ sess'[u].path = q
      BY <1>0, <3>1 DEF Aged, HasTemp, Active
    <3>3. temp[b][q].mtime <= now
      BY <3>1 DEF Aged, HasTemp
    <3>4. CASE temp[b][q].mtime <= lastEnd
      BY <1>0, <3>1, <3>3, <3>4
    <3>5. CASE \E u \in Thread : ClientOf[u] = b /\ Active(u) /\ sess[u].path = q
      BY <3>2, <3>3, <3>5 DEF Active
    <3> QED
      BY <3>1, <3>4, <3>5 DEF Aged, HasTemp
  <2> QED
    BY <2>1, <2>2
<1>4. ASSUME NEW b \in Client, NEW q \in Path PROVE Fresh(b, q)'
  <2>1. CASE b = c /\ q = p
    BY <2>1
  <2>2. CASE b # c \/ q # p
    <3>1. temp'[b][q] = temp[b][q] /\ (q \in dirty'[b] <=> q \in dirty[b]) /\ Fresh(b, q)
      BY <2>2 DEF Own, KInv
    <3>2. Between(b, q) => Between(b, q)'
      <4> SUFFICES ASSUME NEW u \in Thread, ClientOf[u] = b,
                          \/ sess[u].pc \in {"fill", "mark"} /\ sess[u].path = q
                          \/ sess[u].pc = "mv" /\ sess[u].to = q
                   PROVE  sess'[u] = sess[u]
        BY DEF Between
      <4> QED
        BY <2>2 DEF Own
    <3> QED
      BY <1>0, <3>1, <3>2 DEF Fresh, HasTemp, Exists
  <2> QED
    BY <2>1, <2>2
<1> QED
  BY <1>0, <1>1, <1>2, <1>3, <1>4 DEF KInv

\* Times are times.
LEMMA Clocked ==
  ASSUME BInv
  PROVE  /\ \A c \in Client, p \in Path : HasTemp(c, p) => temp[c][p].mtime \in Nat
         /\ \A p \in Path : Exists(p) => store[p].mtime \in Nat /\ store[p].mtime <= now
         /\ now \in Nat /\ lastEnd \in Nat /\ lastEnd <= now
<1> USE BParts DEF BInv
<1>1. ASSUME NEW c \in Client, NEW p \in Path, HasTemp(c, p) PROVE temp[c][p].mtime \in Nat
  <2>1. temp[c][p] \in Copy
    BY <1>1 DEF HasTemp, Temps
  <2>2. temp[c][p].mtime \in Times \cup Garbage
    BY <2>1 DEF Copy
  <2> QED
    BY <2>2, Clock
<1>2. ASSUME NEW p \in Path, Exists(p) PROVE store[p].mtime \in Nat /\ store[p].mtime <= now
  BY <1>2 DEF File, BT, BTypeOK, TypeOK
<1>3. now \in Nat /\ lastEnd \in Nat /\ lastEnd <= now
  BY Clock DEF Times
<1> QED
  BY <1>1, <1>2, <1>3

\* A step that changes no copy and no mark.
LEMMA MoveOn ==
  ASSUME Sharing, BInv, SInv, KInv, NEW t \in Thread, Active(t),
         sess[t].pc \notin {"mv", "fill", "mark"},
         UNCHANGED <<store, now, strays, moved, temp, dirty>>,
         \A u \in Thread \ {t} : sess'[u] = sess[u],
         \/ sess'[t].pc = "idle" /\ lastEnd' = now
         \/ /\ sess'[t].pc \notin {"idle", "mv"} /\ lastEnd' = lastEnd
            /\ sess'[t].path = sess[t].path /\ sess'[t].mode = sess[t].mode,
         KnowsFile(ClientOf[t], sess[t])', KnowsCopy(ClientOf[t], sess[t])'
  PROVE  KInv'
<1> USE BParts DEF BInv
<1> DEFINE c == ClientOf[t]
<1>0. PICK p \in Path : p = sess[t].path
  BY Busy DEF Active
<1>1. p \in Path /\ c \in Client /\ p = sess[t].path
  BY <1>0
<1>2. Own(t, p)
  BY <1>1 DEF Own
<1>3. temp'[c][p] # NoFile => temp'[c][p].mtime <= now
  BY <1>1 DEF KInv, Aged, HasTemp
<1>4. Fresh(c, p)'
  <2>1. ~Between(c, p)
    <3>1. \A u \in Thread : ClientOf[u] = c => u = t
      BY DEF Sharing
    <3> QED
      BY <3>1 DEF Between
  <2>2. Fresh(c, p)
    BY <1>1 DEF KInv
  <2> QED
    BY <2>1, <2>2 DEF Fresh, HasTemp, Exists
<1> QED
  BY <1>1, <1>2, <1>3, <1>4, OwnStep

\* A call that ends has no more to know.
LEMMA EndsKnowing ==
  ASSUME Taking, BInv, NEW t \in Thread, Done(t)
  PROVE  /\ sess'[t].pc = "idle" /\ lastEnd' = now
         /\ \A u \in Thread \ {t} : sess'[u] = sess[u]
         /\ KnowsFile(ClientOf[t], sess[t])' /\ KnowsCopy(ClientOf[t], sess[t])'
<1>1. /\ sess'[t] = Rest /\ lastEnd' = now
      /\ \A u \in Thread \ {t} : sess'[u] = sess[u]
  BY BParts DEF Done, EndTime, Taking, BInv
<1>2. sess'[t].pc = "idle" /\ sess'[t].creat = "none"
  BY <1>1 DEF Rest
<1> QED
  BY <1>1, <1>2 DEF KnowsFile, KnowsCopy, Creating, Closing

\* A call that goes on keeps its file and how it was opened.
Keeps(t) ==
  /\ \A u \in Thread \ {t} : sess'[u] = sess[u]
  /\ sess'[t].path = sess[t].path /\ sess'[t].mode = sess[t].mode

\* The steps that look for a file: what the server says is what it has, since
\* nobody changes it meanwhile.
LEMMA LookFresh ==
  ASSUME Sharing, BInv, SInv, KInv, NEW t \in Thread,
         GetAttr(t) \/ Check(t) \/ Fetch(t) \/ AskServer(t)
  PROVE  KInv'
<1> USE BParts DEF BInv
<1> DEFINE s == sess[t]  c == ClientOf[t]  p == sess[t].path
<1>1. s \in Session /\ p \in Path /\ c \in Client /\ Active(t)
      /\ KnowsFile(c, s) /\ KnowsCopy(c, s)
  BY Busy, KParts DEF GetAttr, Check, Fetch, AskServer, Active
<1>2. ~Lossy /\ NulData = {}
  BY DEF Sharing, Taking
<1>3. UNCHANGED <<store, now, strays, moved, temp, dirty, lastEnd>>
  BY DEF GetAttr, Check, Fetch, AskServer, server, client, told
<1>4. CASE GetAttr(t)
  <2>1. CASE Exists(p)
    <3>1. s.pc = "attr" /\ s.creat = "none"
      BY <1>1, <1>4, <2>1 DEF GetAttr, KnowsFile
    <3>2. sess' = [sess EXCEPT ![t].pc = "check", ![t].srv = store[p].mtime]
      BY <1>2, <1>4, <2>1, <3>1 DEF GetAttr
    <3>3. /\ Keeps(t) /\ sess'[t].creat = "none"
          /\ sess'[t].pc = "check" /\ sess'[t].srv = store[p].mtime
      BY <3>1, <3>2 DEF Keeps, Session
    <3>4. KnowsFile(c, sess[t])' /\ KnowsCopy(c, sess[t])'
      BY <1>3, <2>1, <3>3 DEF KnowsFile, KnowsCopy, Keeps, Exists, Creating, Closing
    <3> QED
      BY <1>1, <1>3, <3>1, <3>3, <3>4, MoveOn DEF Keeps
  <2>2. CASE ~Exists(p)
    <3>1. s.pc = "attr" /\ s.creat # "none"
      BY <1>1, <1>4, <2>2 DEF GetAttr, KnowsFile
    <3>2. sess' = [sess EXCEPT ![t].pc = "mkLocal"]
      BY <1>2, <1>4, <2>2, <3>1 DEF GetAttr, Goto
    <3>3. Keeps(t) /\ sess'[t].creat = s.creat /\ sess'[t].pc = "mkLocal"
      BY <3>1, <3>2 DEF Keeps, Session
    <3>4. KnowsFile(c, sess[t])' /\ KnowsCopy(c, sess[t])'
      BY <1>3, <2>2, <3>1, <3>3 DEF KnowsFile, KnowsCopy, Keeps, Exists, Creating, Closing
    <3> QED
      BY <1>1, <1>3, <3>1, <3>3, <3>4, MoveOn DEF Keeps
  <2> QED
    BY <2>1, <2>2
<1>5. CASE Check(t)
  <2>1. s.pc = "check" /\ s.creat = "none" /\ Exists(p) /\ s.srv = store[p].mtime
    BY <1>1, <1>5 DEF Check, KnowsFile, KnowsCopy, Creating
  <2>2. /\ Keeps(t) /\ sess'[t].creat = "none"
        /\ sess'[t].pc = IF OutOfDate(c, p, s.srv) THEN "fetch" ELSE "open"
    BY <1>5, <2>1 DEF Check, Keeps, Session
  <2>3. CASE OutOfDate(c, p, s.srv)
    <3>1. KnowsFile(c, sess[t])' /\ KnowsCopy(c, sess[t])'
      BY <1>3, <2>1, <2>2, <2>3 DEF KnowsFile, KnowsCopy, Keeps, Exists, Creating, Closing
    <3> QED
      BY <1>1, <1>3, <2>1, <2>2, <2>3, <3>1, MoveOn DEF Keeps
  <2>4. CASE ~OutOfDate(c, p, s.srv)
    <3>1. HasTemp(c, p) /\ ~(store[p].mtime > temp[c][p].mtime)
      BY <2>1, <2>4 DEF OutOfDate
    <3>2. temp[c][p].mtime \in Nat /\ store[p].mtime \in Nat
      BY <1>1, <2>1, <3>1, Clocked
    <3>3. p \in moved \/ temp[c][p].data = store[p].data
      <4>1. \A u \in Thread : ClientOf[u] = c => u = t
        BY DEF Sharing
      <4>2. ~Between(c, p)
        BY <2>1, <4>1 DEF Between
      <4>3. p \notin dirty[c]
        BY <1>1, <2>1, Solo DEF Owner, Owing
      <4>4. Fresh(c, p)
        BY <1>1 DEF KInv
      <4> QED
        BY <2>1, <3>1, <3>2, <4>2, <4>3, <4>4 DEF Fresh
    <3>4. KnowsFile(c, sess[t])'
      BY <1>3, <2>1, <2>2, <2>4, <3>1 DEF KnowsFile, Keeps, Exists, HasTemp, Creating, Closing
    <3>5. KnowsCopy(c, sess[t])'
      BY <1>3, <2>2, <2>4, <3>3 DEF KnowsCopy, Keeps, SameAsServer
    <3> QED
      BY <1>1, <1>3, <2>1, <2>2, <2>4, <3>4, <3>5, MoveOn DEF Keeps
  <2> QED
    BY <2>3, <2>4
<1>6. CASE Fetch(t)
  <2>1. s.pc = "fetch" /\ s.creat = "none" /\ Exists(p)
    BY <1>1, <1>6 DEF Fetch, KnowsFile, Creating
  <2>2. sess' = [sess EXCEPT ![t].pc = "clear", ![t].buf = store[p].data]
    BY <1>2, <1>6, <2>1 DEF Fetch, Arrived
  <2>3. /\ Keeps(t) /\ sess'[t].creat = "none"
        /\ sess'[t].pc = "clear" /\ sess'[t].buf = store[p].data
    BY <2>1, <2>2 DEF Keeps, Session
  <2>4. KnowsFile(c, sess[t])' /\ KnowsCopy(c, sess[t])'
    BY <1>3, <2>1, <2>3 DEF KnowsFile, KnowsCopy, Keeps, Exists, Creating, Closing
  <2> QED
    BY <1>1, <1>3, <2>1, <2>3, <2>4, MoveOn DEF Keeps
<1>7. CASE AskServer(t)
  <2>1. s.pc = "ask" /\ s.creat # "none" /\ ~Exists(p) /\ p \in dirty[c]
    BY <1>1, <1>7 DEF AskServer, KnowsFile, Creating
  <2>2. sess' = [sess EXCEPT ![t].pc = "make"]
    BY <1>2, <1>7, <2>1 DEF AskServer, Goto
  <2>3. Keeps(t) /\ sess'[t].creat = s.creat /\ sess'[t].pc = "make"
    BY <2>2 DEF Keeps, Session
  <2>4. KnowsFile(c, sess[t])' /\ KnowsCopy(c, sess[t])'
    BY <1>3, <2>1, <2>3 DEF KnowsFile, KnowsCopy, Keeps, Exists, Creating, Closing
  <2> QED
    BY <1>1, <1>3, <2>1, <2>3, <2>4, MoveOn DEF Keeps
<1> QED
  BY <1>4, <1>5, <1>6, <1>7

\* A step that gives the own copy a content and a time of now or before, and
\* may mark it: there must be a reason why nobody takes it for the server's.
LEMMA CopyStep ==
  ASSUME Sharing, BInv, SInv, KInv, NEW t \in Thread, Active(t), sess[t].pc # "mv",
         NEW p \in Path, p = sess[t].path, NEW d, NEW m \in Nat, m <= now,
         Local(ClientOf[t], p, d, m),
         UNCHANGED <<store, now, strays, moved, lastEnd>>,
         dirty' = dirty \/ dirty' = [dirty EXCEPT ![ClientOf[t]] = @ \cup {p}],
         Keeps(t), sess'[t].pc \notin {"idle", "mv"},
         KnowsFile(ClientOf[t], sess[t])', KnowsCopy(ClientOf[t], sess[t])',
         \/ p \in moved \cup dirty'[ClientOf[t]]
         \/ ~Exists(p)
         \/ d = store[p].data
         \/ sess'[t].pc \in {"fill", "mark"}
  PROVE  KInv'
<1> USE BParts DEF BInv
<1> DEFINE c == ClientOf[t]
<1>1. c \in Client
  OBVIOUS
<1>2. /\ temp'[c][p] = [data |-> d, mtime |-> m]
      /\ \A b \in Client, q \in Path : b # c \/ q # p => temp'[b][q] = temp[b][q]
  BY <1>1 DEF Local, Temps
<1>3. \A b \in Client, q \in Path : b # c \/ q # p => (q \in dirty'[b] <=> q \in dirty[b])
  BY <1>1
<1>4. Own(t, p)
  BY <1>2, <1>3 DEF Own, Keeps
<1>5. temp'[c][p] # NoFile => temp'[c][p].mtime <= now
  BY <1>2
<1>6. Fresh(c, p)'
  <2>1. sess'[t].pc \in {"fill", "mark"} => Between(c, p)'
    BY DEF Between, Keeps
  <2>2. temp'[c][p].data = d
    BY <1>2
  <2> QED
    BY <2>1, <2>2 DEF Fresh, Exists
<1> QED
  BY <1>1, <1>4, <1>5, <1>6, OwnStep

\* The steps of a fetch: the copy is cleared, then filled with what arrived.
LEMMA FetchFresh ==
  ASSUME Sharing, BInv, SInv, KInv, NEW t \in Thread, Clear(t) \/ Fill(t)
  PROVE  KInv'
<1> USE BParts DEF BInv
<1> DEFINE s == sess[t]  c == ClientOf[t]
<1>0. PICK p \in Path : p = sess[t].path
  BY Busy DEF Clear, Fill
<1>1. s \in Session /\ c \in Client /\ Active(t) /\ KnowsFile(c, s) /\ KnowsCopy(c, s)
      /\ now \in Nat /\ now <= now
  BY KParts, Clocked DEF Clear, Fill, Active
<1>2. UNCHANGED <<store, now, strays, moved, dirty, lastEnd>>
  BY DEF Clear, Fill, server, told
<1>3. s.pc \in {"clear", "fill"} /\ s.creat = "none" /\ Exists(p) /\ s.buf = store[p].data
  BY <1>0, <1>1 DEF Clear, Fill, KnowsFile, KnowsCopy, Creating
<1>4. CASE Clear(t)
  <2>1. Local(c, p, EmptyData, now)
    BY <1>0, <1>4 DEF Clear
  <2>2. /\ Keeps(t) /\ sess'[t].creat = "none" /\ sess'[t].pc = "fill" /\ sess'[t].at = p
        /\ sess'[t].buf = store[p].data
    BY <1>0, <1>3, <1>4 DEF Clear, Keeps, Session
  <2>3. temp'[c][p] # NoFile
    BY <1>1, <2>1, FileStoreAssumption, LocalGrows, BParts DEF Times
  <2>4. KnowsFile(c, sess[t])' /\ KnowsCopy(c, sess[t])'
    BY <1>0, <1>2, <1>3, <2>2, <2>3
       DEF KnowsFile, KnowsCopy, Keeps, Exists, HasTemp, Creating, Closing
  <2> QED
    BY <1>0, <1>1, <1>2, <1>3, <2>1, <2>2, <2>4, CopyStep
<1>5. CASE Fill(t)
  <2>0. s.pc = "fill" /\ s.at = p /\ s.at # NoPath
    BY <1>0, <1>1, <1>5, BnfsAssumption DEF Fill, KnowsFile
  <2>1. Local(c, p, store[p].data, now)
    BY <1>0, <1>3, <1>5, <2>0 DEF Fill
  <2>2. Keeps(t) /\ sess'[t].creat = "none" /\ sess'[t].pc = "open"
    BY <1>0, <1>3, <1>5 DEF Fill, Keeps, Session
  <2>3. temp'[c][p] # NoFile
    <3>1. store[p].data \in Data
      BY <1>3 DEF File
    <3> QED
      BY <1>1, <2>1, <3>1, LocalGrows DEF Times
  <2>4. temp'[c][p].data = store[p].data
    BY <1>1, <2>1 DEF Local, Temps
  <2>5. KnowsFile(c, sess[t])' /\ KnowsCopy(c, sess[t])'
    BY <1>0, <1>2, <1>3, <2>2, <2>3, <2>4
       DEF KnowsFile, KnowsCopy, Keeps, Exists, HasTemp, SameAsServer, Creating, Closing
  <2> QED
    BY <1>0, <1>1, <1>2, <1>3, <2>0, <2>1, <2>2, <2>5, CopyStep
<1> QED
  BY <1>4, <1>5

\* A new file: the empty copy is nobody's while the server has no file, and
\* marked when it gets one.
LEMMA MakeFresh ==
  ASSUME Sharing, BInv, SInv, KInv, NEW t \in Thread, MakeLocal(t) \/ MakeDirty(t)
  PROVE  KInv'
<1> USE BParts DEF BInv
<1> DEFINE s == sess[t]  c == ClientOf[t]
<1>0. PICK p \in Path : p = sess[t].path
  BY Busy DEF MakeLocal, MakeDirty
<1>1. s \in Session /\ c \in Client /\ Active(t) /\ KnowsFile(c, s) /\ KnowsCopy(c, s)
      /\ now \in Nat /\ now <= now
  BY KParts, Clocked DEF MakeLocal, MakeDirty, Active
<1>2. UNCHANGED <<store, now, strays, moved, lastEnd>>
  BY DEF MakeLocal, MakeDirty, server, told
<1>3. s.creat # "none" /\ ~Exists(p)
  BY <1>0, <1>1 DEF MakeLocal, MakeDirty, KnowsFile, Creating
<1>4. CASE MakeLocal(t)
  <2>1. s.pc = "mkLocal" /\ Local(c, p, EmptyData, now) /\ dirty' = dirty
    BY <1>0, <1>4 DEF MakeLocal
  <2>2. Keeps(t) /\ sess'[t].creat = s.creat /\ sess'[t].pc = "mkDirty"
    BY <1>4 DEF MakeLocal, Goto, Keeps, Session
  <2>3. KnowsFile(c, sess[t])' /\ KnowsCopy(c, sess[t])'
    BY <1>0, <1>2, <1>3, <2>1, <2>2
       DEF KnowsFile, KnowsCopy, Keeps, Exists, Creating, Closing
  <2> QED
    BY <1>0, <1>1, <1>2, <1>3, <2>1, <2>2, <2>3, CopyStep
<1>5. CASE MakeDirty(t)
  <2>1. s.pc = "mkDirty" /\ dirty' = [dirty EXCEPT ![c] = @ \cup {p}] /\ temp' = temp
    BY <1>0, <1>5 DEF MakeDirty
  <2>2. Keeps(t) /\ sess'[t].creat = s.creat /\ sess'[t].pc = "ask"
    BY <1>5 DEF MakeDirty, Goto, Keeps, Session
  <2>3. p \in dirty'[c] /\ \A b \in Client, q \in Path : b # c \/ q # p => (q \in dirty'[b] <=> q \in dirty[b])
    BY <1>1, <2>1
  <2>4. KnowsFile(c, sess[t])' /\ KnowsCopy(c, sess[t])'
    BY <1>0, <1>2, <1>3, <2>1, <2>2, <2>3
       DEF KnowsFile, KnowsCopy, Keeps, Exists, Creating, Closing
  <2>5. Own(t, p)
    BY <1>0, <1>2, <2>1, <2>2, <2>3 DEF Own, Keeps
  <2>6. temp'[c][p] # NoFile => temp'[c][p].mtime <= now
    BY <1>1, <2>1 DEF KInv, Aged, HasTemp
  <2>7. Fresh(c, p)'
    BY <2>3 DEF Fresh
  <2> QED
    BY <1>0, <1>1, <2>1, <2>4, <2>5, <2>6, <2>7, OwnStep
<1> QED
  BY <1>4, <1>5

\* Writing and marking.
LEMMA WriteFresh ==
  ASSUME Sharing, BInv, SInv, KInv, NEW t \in Thread, Write(t) \/ Mark(t)
  PROVE  KInv'
<1> USE BParts DEF BInv
<1> DEFINE s == sess[t]  c == ClientOf[t]
<1>0. PICK p \in Path : p = sess[t].path
  BY Busy DEF Write, Mark
<1>1. s \in Session /\ c \in Client /\ Active(t) /\ KnowsFile(c, s) /\ KnowsCopy(c, s)
      /\ now \in Nat /\ now <= now
  BY KParts, Clocked DEF Write, Mark, Active
<1>2. UNCHANGED <<store, now, strays, moved, lastEnd>>
  BY DEF Write, Mark, server, told
<1>3. s.creat = "none" /\ Exists(p) /\ HasTemp(c, p) /\ s.at = p /\ s.pc \in {"opened", "mark"}
  BY <1>0, <1>1 DEF Write, Mark, KnowsFile, Creating
<1>4. CASE Write(t)
  <2>1. s.pc = "opened" /\ Local(c, p, wrote + 1, now) /\ dirty' = dirty
    BY <1>0, <1>3, <1>4, BnfsAssumption DEF Write
  <2>2. Keeps(t) /\ sess'[t].creat = s.creat /\ sess'[t].pc = "mark" /\ sess'[t].at = p
    BY <1>3, <1>4 DEF Write, Goto, Keeps, Session
  <2>3. temp'[c][p] # NoFile
    <3>1. wrote + 1 \in Data
      BY <1>4, BnfsAssumption DEF Write
    <3> QED
      BY <1>1, <2>1, <3>1, LocalGrows DEF Times
  <2>4. KnowsFile(c, sess[t])' /\ KnowsCopy(c, sess[t])'
    BY <1>0, <1>2, <1>3, <2>1, <2>2, <2>3
       DEF KnowsFile, KnowsCopy, Keeps, Exists, HasTemp, Creating, Closing
  <2> QED
    BY <1>0, <1>1, <1>2, <1>3, <2>1, <2>2, <2>4, CopyStep
<1>5. CASE Mark(t)
  <2>1. s.pc = "mark" /\ dirty' = [dirty EXCEPT ![c] = @ \cup {p}] /\ temp' = temp
    BY <1>0, <1>5 DEF Mark
  <2>2. Keeps(t) /\ sess'[t].creat = s.creat /\ sess'[t].pc = "opened" /\ sess'[t].at = p
    BY <1>3, <1>5 DEF Mark, Goto, Keeps, Session
  <2>3. p \in dirty'[c] /\ \A b \in Client, q \in Path : b # c \/ q # p => (q \in dirty'[b] <=> q \in dirty[b])
    BY <1>1, <2>1
  <2>4. KnowsFile(c, sess[t])' /\ KnowsCopy(c, sess[t])'
    BY <1>0, <1>2, <1>3, <2>1, <2>2, <2>3
       DEF KnowsFile, KnowsCopy, Keeps, Exists, HasTemp, Creating, Closing
  <2>5. Own(t, p)
    BY <1>0, <1>2, <2>1, <2>2, <2>3 DEF Own, Keeps
  <2>6. temp'[c][p] # NoFile => temp'[c][p].mtime <= now
    BY <1>1, <2>1 DEF KInv, Aged, HasTemp
  <2>7. Fresh(c, p)'
    BY <2>3 DEF Fresh
  <2> QED
    BY <1>0, <1>1, <2>1, <2>4, <2>5, <2>6, <2>7, OwnStep
<1> QED
  BY <1>4, <1>5

\* The open of the copy: it is the server's, or new and marked.
LEMMA OpenTempFresh ==
  ASSUME Sharing, BInv, SInv, KInv, NEW t \in Thread, OpenTemp(t)
  PROVE  KInv'
<1> USE BParts DEF BInv
<1> DEFINE s == sess[t]  c == ClientOf[t]
           opened == [s EXCEPT !.pc = "opened", !.at = s.path, !.creat = "none"]
<1>0. PICK p \in Path : p = sess[t].path
  BY Busy DEF OpenTemp
<1>1. s \in Session /\ c \in Client /\ Active(t) /\ KnowsFile(c, s) /\ KnowsCopy(c, s)
      /\ now \in Nat /\ now <= now
  BY KParts, Clocked DEF OpenTemp, Active
<1>2. UNCHANGED <<store, now, strays, moved>> /\ s.pc = "open"
  BY DEF OpenTemp, server, told
<1>3. Exists(p) /\ IF s.creat = "none" THEN HasTemp(c, p) ELSE p \in dirty[c]
  BY <1>0, <1>1, <1>2 DEF KnowsFile
<1>4. ASSUME sess' = [sess EXCEPT ![t] = opened]
      PROVE  /\ Keeps(t) /\ sess'[t].pc = "opened" /\ sess'[t].at = p /\ sess'[t].creat = "none"
  BY <1>0, <1>4 DEF Keeps, Session
<1>5. CASE /\ HasTemp(c, p)
           /\ sess' = [sess EXCEPT ![t] = opened]
           /\ UNCHANGED <<temp, dirty, lastEnd>>
  <2>1. KnowsFile(c, sess[t])'
    BY <1>0, <1>2, <1>3, <1>4, <1>5 DEF KnowsFile, Keeps, Exists, HasTemp, Creating, Closing
  <2>2. p \notin dirty[c] => p \in moved \/ SameAsServer(c, p)
    BY <1>0, <1>1, <1>2, <1>3 DEF KnowsCopy
  <2>3. KnowsCopy(c, sess[t])'
    BY <1>0, <1>2, <1>4, <1>5, <2>2 DEF KnowsCopy, Keeps, SameAsServer, HasTemp
  <2> QED
    BY <1>1, <1>2, <1>4, <1>5, <2>1, <2>3, MoveOn DEF Keeps
<1>6. CASE /\ s.creat # "none" /\ Local(c, p, EmptyData, now)
           /\ sess' = [sess EXCEPT ![t] = opened]
           /\ UNCHANGED <<dirty, lastEnd>>
  <2>1. p \in dirty[c] /\ p \in moved \cup dirty'[c]
    BY <1>3, <1>6
  <2>2. temp'[c][p] # NoFile
    BY <1>1, <1>6, FileStoreAssumption, LocalGrows DEF Times
  <2>3. KnowsFile(c, sess[t])' /\ KnowsCopy(c, sess[t])'
    BY <1>0, <1>2, <1>3, <1>4, <1>6, <2>1, <2>2
       DEF KnowsFile, KnowsCopy, Keeps, Exists, HasTemp, Creating, Closing
  <2> QED
    BY <1>0, <1>1, <1>2, <1>4, <1>6, <2>1, <2>3, CopyStep
<1> QED
  BY <1>0, <1>2, <1>3, <1>5, <1>6 DEF OpenTemp

\* Flush and the first message of the upload: what is sent is the copy, and
\* the copies of the others are from earlier seconds.
LEMMA SendFresh ==
  ASSUME Sharing, BInv, SInv, KInv, NEW t \in Thread, Flush(t) \/ Send(t)
  PROVE  KInv'
<1> USE BParts DEF BInv
<1> DEFINE s == sess[t]  c == ClientOf[t]
<1>0. PICK p \in Path : p = sess[t].path
  BY Busy DEF Flush, Send
<1>1. s \in Session /\ c \in Client /\ Active(t) /\ KnowsFile(c, s) /\ KnowsCopy(c, s)
      /\ now \in Nat /\ now <= now /\ ~Lossy
  BY KParts, Clocked DEF Flush, Send, Active, Sharing, Taking
<1>2. UNCHANGED <<store, now, strays, moved>> /\ s.pc \in {"opened", "send"}
  BY DEF Flush, Send, server, told
<1>3. Exists(p) /\ s.creat = "none" /\ s.at = p /\ HasTemp(c, p)
  BY <1>0, <1>1, <1>2 DEF KnowsFile, Creating
<1>4. CASE Flush(t)
  <2>1. CASE p \in dirty[c]
    <3>1. /\ sess' = [sess EXCEPT ![t].pc = "send", ![t].at = p, ![t].buf = temp[c][p].data]
          /\ UNCHANGED <<temp, dirty, lastEnd>>
      BY <1>0, <1>3, <1>4, <2>1 DEF Flush, client
    <3>2. Keeps(t) /\ sess'[t].pc = "send" /\ sess'[t].at = p /\ sess'[t].creat = "none"
      BY <1>3, <3>1 DEF Keeps, Session
    <3>3. KnowsFile(c, sess[t])' /\ KnowsCopy(c, sess[t])'
      BY <1>0, <1>2, <1>3, <2>1, <3>1, <3>2
         DEF KnowsFile, KnowsCopy, Keeps, Exists, HasTemp, Creating, Closing
    <3> QED
      BY <1>1, <1>2, <3>1, <3>2, <3>3, MoveOn DEF Keeps
  <2>2. CASE p \notin dirty[c]
    <3>1. Done(t) /\ UNCHANGED <<temp, dirty>>
      BY <1>0, <1>4, <2>2 DEF Flush, client
    <3> QED
      BY <1>1, <1>2, <3>1, EndsKnowing, MoveOn DEF Sharing
  <2> QED
    BY <2>1, <2>2
<1>5. CASE Send(t)
  <2>1. s.pc = "send" /\ s.at # NoPath
    BY <1>3, <1>5, BnfsAssumption DEF Send
  <2>2. /\ sess' = [sess EXCEPT ![t].pc = "put", ![t].began = now, ![t].buf = temp[c][p].data]
        /\ UNCHANGED <<temp, dirty, lastEnd>>
    BY <1>1, <1>3, <1>5, <2>1 DEF Send
  <2>3. /\ Keeps(t) /\ sess'[t].pc = "put" /\ sess'[t].creat = "none"
        /\ sess'[t].began = now /\ sess'[t].buf = temp[c][p].data
    BY <1>3, <2>2 DEF Keeps, Session
  <2>4. p \in dirty[c]
    BY <1>0, <1>1, <2>1 DEF KnowsFile, Closing
  <2>5. s.mode = "w"
    BY <2>1 DEF SInv, Role
  <2>6. \A b \in Client \ {c} : Before(b, p, now)
    BY <1>1, <2>5, KParts DEF Later
  <2>7. KnowsFile(c, sess[t])'
    BY <1>0, <1>2, <1>3, <2>2, <2>3, <2>4 DEF KnowsFile, Keeps, Exists, Creating, Closing
  <2>8. KnowsCopy(c, sess[t])'
    BY <1>0, <1>1, <1>2, <2>2, <2>3, <2>6 DEF KnowsCopy, Keeps, HasTemp, Before
  <2> QED
    BY <1>1, <1>2, <2>1, <2>2, <2>3, <2>7, <2>8, MoveOn DEF Keeps
<1> QED
  BY <1>4, <1>5

\* After the upload: the copy is the server's, and gets its time.
LEMMA CommitFresh ==
  ASSUME Sharing, BInv, SInv, KInv, NEW t \in Thread, Reply(t) \/ Commit(t) \/ Stamp(t) \/ Clean(t)
  PROVE  KInv'
<1> USE BParts DEF BInv
<1> DEFINE s == sess[t]  c == ClientOf[t]
<1>0. PICK p \in Path : p = sess[t].path
  BY Busy DEF Reply, Commit, Stamp, Clean
<1>1. s \in Session /\ c \in Client /\ Active(t) /\ KnowsFile(c, s) /\ KnowsCopy(c, s)
      /\ now \in Nat /\ now <= now /\ ~Lossy
  BY KParts, Clocked DEF Reply, Commit, Stamp, Clean, Active, Sharing, Taking
<1>2. UNCHANGED <<store, now, strays, moved>> /\ s.pc \in {"stat", "commit", "stamp", "clean"}
  BY DEF Reply, Commit, Stamp, Clean, server, told
<1>3. Exists(p) /\ s.creat = "none" /\ p \in dirty[c] /\ SameAsServer(c, p)
  BY <1>0, <1>1, <1>2 DEF KnowsFile, KnowsCopy, Creating, Closing
<1>4. CASE Reply(t)
  <2>1. /\ sess' = [sess EXCEPT ![t].pc = "commit", ![t].srv = store[p].mtime]
        /\ UNCHANGED <<temp, dirty, lastEnd>> /\ s.pc = "stat"
    BY <1>0, <1>1, <1>3, <1>4 DEF Reply, client
  <2>2. /\ Keeps(t) /\ sess'[t].pc = "commit" /\ sess'[t].creat = "none"
        /\ sess'[t].srv = store[p].mtime
    BY <1>3, <2>1 DEF Keeps, Session
  <2>3. KnowsFile(c, sess[t])'
    BY <1>0, <1>2, <1>3, <2>1, <2>2 DEF KnowsFile, Keeps, Exists, Creating, Closing
  <2>4. KnowsCopy(c, sess[t])'
    BY <1>0, <1>2, <1>3, <2>1, <2>2 DEF KnowsCopy, Keeps, HasTemp, SameAsServer
  <2> QED
    BY <1>1, <1>2, <2>1, <2>2, <2>3, <2>4, MoveOn DEF Keeps
<1>5. CASE Commit(t)
  <2>1. s.pc = "commit" /\ s.srv = store[p].mtime /\ UNCHANGED <<temp, dirty>>
    BY <1>0, <1>1, <1>5 DEF Commit, KnowsCopy
  <2>2. CASE HasTemp(c, p)
    <3>1. sess' = [sess EXCEPT ![t].pc = "stamp"] /\ UNCHANGED lastEnd
      BY <1>0, <1>5, <2>2 DEF Commit, Goto
    <3>2. /\ Keeps(t) /\ sess'[t].pc = "stamp" /\ sess'[t].creat = "none"
          /\ sess'[t].srv = store[p].mtime
      BY <1>3, <2>1, <3>1 DEF Keeps, Session
    <3>3. KnowsFile(c, sess[t])'
      BY <1>0, <1>2, <1>3, <2>1, <3>2 DEF KnowsFile, Keeps, Exists, Creating, Closing
    <3>4. KnowsCopy(c, sess[t])'
      BY <1>0, <1>2, <1>3, <2>1, <3>2 DEF KnowsCopy, Keeps, HasTemp, SameAsServer
    <3> QED
      BY <1>1, <1>2, <2>1, <3>1, <3>2, <3>3, <3>4, MoveOn DEF Keeps
  <2>3. CASE ~HasTemp(c, p)
    <3>1. Done(t)
      BY <1>0, <1>5, <2>3 DEF Commit
    <3> QED
      BY <1>1, <1>2, <2>1, <3>1, EndsKnowing, MoveOn DEF Sharing
  <2> QED
    BY <2>2, <2>3
<1>6. CASE Stamp(t)
  <2>1. s.pc = "stamp" /\ s.srv = store[p].mtime /\ UNCHANGED <<dirty, lastEnd>>
    BY <1>0, <1>1, <1>6 DEF Stamp, KnowsCopy
  <2>2. Keeps(t) /\ sess'[t].pc = "clean" /\ sess'[t].creat = "none"
    BY <1>3, <1>6 DEF Stamp, Goto, Keeps, Session
  <2>3. KnowsFile(c, sess[t])'
    BY <1>0, <1>2, <1>3, <2>1, <2>2 DEF KnowsFile, Keeps, Exists, Creating, Closing
  <2>4. CASE HasTemp(c, p)
    <3>1. Local(c, p, store[p].data, store[p].mtime)
      BY <1>0, <1>3, <1>6, <2>1, <2>4 DEF Stamp, SameAsServer
    <3>2. store[p].mtime \in Nat /\ store[p].mtime <= now
      BY <1>3, Clocked
    <3>3. temp'[c][p].data = store[p].data
      BY <1>1, <3>1 DEF Local, Temps
    <3>4. KnowsCopy(c, sess[t])'
      BY <1>0, <1>2, <2>2, <3>3 DEF KnowsCopy, Keeps, SameAsServer
    <3> QED
      BY <1>0, <1>1, <1>2, <2>1, <2>2, <2>3, <3>1, <3>2, <3>4, CopyStep
  <2>5. CASE ~HasTemp(c, p)
    <3>1. temp' = temp
      BY <1>0, <1>6, <2>5 DEF Stamp
    <3>2. KnowsCopy(c, sess[t])'
      BY <1>0, <1>2, <1>3, <2>2, <3>1 DEF KnowsCopy, Keeps, HasTemp, SameAsServer
    <3> QED
      BY <1>1, <1>2, <2>1, <2>2, <2>3, <3>1, <3>2, MoveOn DEF Keeps
  <2> QED
    BY <2>4, <2>5
<1>7. CASE Clean(t)
  <2>1. Done(t) /\ temp' = temp /\ dirty' = [dirty EXCEPT ![c] = @ \ {p}] /\ s.pc = "clean"
    BY <1>0, <1>7 DEF Clean
  <2>2. Own(t, p)
    BY <1>1, <1>2, <2>1, EndsKnowing DEF Own, Sharing
  <2>3. temp'[c][p] # NoFile => temp'[c][p].mtime <= now
    BY <1>1, <2>1 DEF KInv, Aged, HasTemp
  <2>4. Fresh(c, p)'
    BY <1>2, <1>3, <2>1 DEF Fresh, SameAsServer, HasTemp
  <2> QED
    BY <1>0, <1>1, <2>1, <2>2, <2>3, <2>4, EndsKnowing, OwnStep DEF Sharing
<1> QED
  BY <1>4, <1>5, <1>6, <1>7

----------------------------------------------------------------------------
(* RPCs that change the server                                             *)

\* A writer works alone.
LEMMA WriterAlone ==
  ASSUME SInv, NEW t \in Thread, Active(t), sess[t].mode = "w"
  PROVE  \A u \in Thread \ {t} : ~Active(u)
<1>1. "w" # "r"
  OBVIOUS
<1> QED
  BY <1>1 DEF SInv, Turns

\* The writer's RPC changes the file of its session: what the copies of that
\* file are to the server's is all there is to see.
LEMMA RpcStep ==
  ASSUME Sharing, BInv, SInv, KInv, NEW t \in Thread, NEW p \in Path, p = sess[t].path,
         Active(t), sess[t].mode = "w", sess[t].pc \notin {"fill", "mark"},
         sess[t].pc = "mv" => sess[t].to \in moved',
         UNCHANGED <<now, strays, temp, dirty>>, moved \subseteq moved',
         \A u \in Thread \ {t} : sess'[u] = sess[u],
         \/ sess'[t].pc = "idle" /\ lastEnd' = now
         \/ /\ sess'[t].pc # "idle" /\ lastEnd' = lastEnd
            /\ sess'[t].path = p /\ sess'[t].mode = sess[t].mode,
         \A q \in Path \ {p} : q \in moved' \/ store'[q] = store[q],
         KnowsFile(ClientOf[t], sess[t])', KnowsCopy(ClientOf[t], sess[t])',
         \A b \in Client : Fresh(b, p)'
  PROVE  KInv'
<1> USE BParts DEF BInv
<1>0. /\ strays = {} /\ strays' = {} /\ now \in Nat /\ lastEnd \in Nat /\ lastEnd <= now
      /\ \A u \in Thread \ {t} : ~Active(u) /\ sess'[u] = sess[u]
  BY KParts, Clocked, WriterAlone
<1>1. ASSUME NEW u \in Thread
      PROVE  KnowsFile(ClientOf[u], sess[u])' /\ KnowsCopy(ClientOf[u], sess[u])'
  <2>1. CASE u = t
    BY <2>1
  <2>2. CASE u # t
    BY <1>0, <2>2, Unmoved
  <2> QED
    BY <2>1, <2>2
<1>2. ASSUME NEW u \in Thread PROVE Later(u)'
  <2>1. CASE u = t
    BY <2>1, KParts DEF Later, Active, Before, HasTemp
  <2>2. CASE u # t
    BY <1>0, <2>2 DEF Later, Active
  <2> QED
    BY <2>1, <2>2
<1>3. ASSUME NEW b \in Client, NEW q \in Path PROVE Aged(b, q)'
  <2>1. Aged(b, q)
    BY DEF KInv
  <2>2. CASE sess'[t].pc = "idle"
    BY <1>0, <2>1, <2>2 DEF Aged, HasTemp
  <2>3. CASE sess'[t].pc # "idle"
    <3>1. \A u \in Thread : Active(u) => sess'[u].pc # "idle" /\ sess'[u].path = sess[u].path
      BY <1>0, <2>3
    <3> QED
      BY <1>0, <2>1, <2>3, <3>1 DEF Aged, HasTemp, Active
  <2> QED
    BY <2>2, <2>3
<1>4. ASSUME NEW b \in Client, NEW q \in Path PROVE Fresh(b, q)'
  <2>1. CASE q = p
    BY <2>1
  <2>2. CASE q # p
    <3>1. Fresh(b, q) /\ (q \in moved' \/ store'[q] = store[q])
      BY <2>2 DEF KInv
    <3>2. q \notin moved' => ~Between(b, q)
      BY <1>0 DEF Between, Active
    <3> QED
      BY <3>1, <3>2 DEF Fresh, HasTemp, Exists
  <2> QED
    BY <2>1, <2>2
<1> QED
  BY <1>0, <1>1, <1>2, <1>3, <1>4 DEF KInv

\* The server creates the file: later than every copy of another client.
LEMMA MakeOnServerFresh ==
  ASSUME Sharing, BInv, SInv, KInv, NEW t \in Thread, MakeOnServer(t)
  PROVE  KInv'
<1> USE BParts DEF BInv
<1> DEFINE s == sess[t]  c == ClientOf[t]
<1>0. PICK p \in Path : p = sess[t].path
  BY Busy DEF MakeOnServer
<1>1. s \in Session /\ c \in Client /\ Active(t) /\ KnowsFile(c, s) /\ s.pc = "make" /\ s.mode = "w"
  BY KParts DEF MakeOnServer, Active, SInv, Role
<1>2. UNCHANGED <<strays, temp, dirty, lastEnd, moved>>
  BY DEF MakeOnServer, client, told
<1>3. s.creat # "none" /\ ~Exists(p) /\ p \in dirty[c]
  BY <1>0, <1>1 DEF KnowsFile, Creating
<1>4. Create(p)
  BY <1>0, <1>3 DEF MakeOnServer, Blank
<1>5. /\ store'[p] = [data |-> EmptyData, mtime |-> now] /\ now' = now
      /\ \A q \in Path \ {p} : store'[q] = store[q]
  BY <1>4 DEF Create
<1>6. store'[p] # NoFile /\ store'[p].mtime = now
  BY <1>5, FileStoreAssumption, Clocked
<1>7. /\ \A u \in Thread \ {t} : sess'[u] = sess[u]
      /\ sess'[t].pc = "open" /\ sess'[t].path = p /\ sess'[t].mode = s.mode /\ sess'[t].creat = s.creat
  BY <1>0, <1>1 DEF MakeOnServer, Goto, Session
<1>8. KnowsFile(c, sess[t])' /\ KnowsCopy(c, sess[t])'
  BY <1>2, <1>3, <1>6, <1>7 DEF KnowsFile, KnowsCopy, Exists, Creating, Closing
<1>9. ASSUME NEW b \in Client PROVE Fresh(b, p)'
  <2>1. CASE b = c
    BY <1>2, <1>3, <2>1 DEF Fresh
  <2>2. CASE b # c
    <3>1. Before(b, p, now)
      BY <1>0, <1>1, <2>2, KParts DEF Later
    <3> QED
      BY <1>2, <1>6, <3>1 DEF Fresh, Before, HasTemp
  <2> QED
    BY <2>1, <2>2
<1> QED
  BY <1>0, <1>1, <1>2, <1>5, <1>7, <1>8, <1>9, RpcStep

\* The server publishes the upload: later than every copy of another client.
LEMMA PutFileFresh ==
  ASSUME Sharing, BInv, SInv, KInv, NEW t \in Thread, PutFile(t)
  PROVE  KInv'
<1> USE BParts DEF BInv
<1> DEFINE s == sess[t]  c == ClientOf[t]
<1>0. PICK p \in Path : p = sess[t].path
  BY Busy DEF PutFile
<1>1. s \in Session /\ c \in Client /\ Active(t) /\ KnowsFile(c, s) /\ KnowsCopy(c, s)
      /\ s.pc = "put" /\ s.mode = "w" /\ ~Lossy
  BY KParts DEF PutFile, Active, SInv, Role, Sharing, Taking
<1>2. UNCHANGED <<strays, temp, dirty, lastEnd, moved>>
  BY <1>1 DEF PutFile, client, told
<1>3. s.creat = "none" /\ p \in dirty[c] /\ s.began \in Nat /\ s.began <= now /\ now \in Nat
      /\ (HasTemp(c, p) => temp[c][p].data = s.buf)
  <2>1. s.began \in Nat
    BY <1>1, Clock DEF Session
  <2> QED
    BY <1>0, <1>1, <2>1, Clocked DEF KnowsFile, KnowsCopy, Creating, Closing
<1>4. PICK m \in s.began..now : Publish(p, s.buf, m)
  BY <1>0, <1>1 DEF PutFile
<1>5. /\ store'[p] = [data |-> s.buf, mtime |-> m] /\ now' = now
      /\ \A q \in Path \ {p} : store'[q] = store[q]
  BY <1>4 DEF Publish
<1>6. store'[p] # NoFile /\ store'[p].mtime = m /\ store'[p].data = s.buf /\ m \in Nat /\ s.began <= m
  <2>1. s.buf \in Data
    BY <1>1 DEF Session
  <2> QED
    BY <1>3, <1>5, <2>1, FileStoreAssumption
<1>7. sess' = [sess EXCEPT ![t].pc = "stat", ![t].buf = EmptyData, ![t].began = 0]
  BY <1>1 DEF PutFile
<1>8. /\ \A u \in Thread \ {t} : sess'[u] = sess[u]
      /\ sess'[t].pc = "stat" /\ sess'[t].path = p /\ sess'[t].mode = s.mode /\ sess'[t].creat = "none"
  BY <1>0, <1>3, <1>7 DEF Session
<1>9. KnowsFile(c, sess[t])'
  BY <1>2, <1>3, <1>6, <1>8 DEF KnowsFile, Exists, Creating, Closing
<1>10. KnowsCopy(c, sess[t])'
  BY <1>2, <1>3, <1>6, <1>8 DEF KnowsCopy, SameAsServer, HasTemp
<1>11. ASSUME NEW b \in Client PROVE Fresh(b, p)'
  <2>1. CASE b = c
    BY <1>2, <1>3, <2>1 DEF Fresh
  <2>2. CASE b # c
    <3>1. Before(b, p, s.began)
      BY <1>0, <1>1, <2>2 DEF KnowsCopy
    <3>2. HasTemp(b, p) => temp[b][p].mtime < m
      BY <1>3, <1>6, <3>1, Clocked DEF Before
    <3> QED
      BY <1>2, <1>6, <3>2 DEF Fresh, HasTemp
  <2> QED
    BY <2>1, <2>2
<1> QED
  BY <1>0, <1>1, <1>2, <1>5, <1>8, <1>9, <1>10, <1>11, RpcStep

\* The server removes or moves the file: an old copy shows nothing there, and
\* the target of the move is given up.
LEMMA PathRpcFresh ==
  ASSUME Sharing, BInv, SInv, KInv, NEW t \in Thread, UnlinkRpc(t) \/ RenameRpc(t)
  PROVE  KInv'
<1> USE BParts DEF BInv
<1> DEFINE s == sess[t]  c == ClientOf[t]
<1>0. PICK p \in Path : p = sess[t].path
  BY Busy DEF UnlinkRpc, RenameRpc
<1>1. s \in Session /\ c \in Client /\ Active(t) /\ KnowsFile(c, s)
      /\ s.pc \in {"rm", "mv"} /\ s.mode = "w" /\ ~Lossy /\ Taking
  BY KParts DEF UnlinkRpc, RenameRpc, Active, SInv, Role, Sharing, Taking
<1>2. UNCHANGED <<strays, temp, dirty>> /\ now' = now
  BY DEF UnlinkRpc, RenameRpc, client, told, Remove, Move
<1>3. Exists(p)
  BY <1>0, <1>1 DEF KnowsFile, Creating
<1>4. CASE UnlinkRpc(t)
  <2>1. Remove(p) /\ Done(t) /\ moved' = moved /\ s.pc = "rm"
    BY <1>0, <1>1, <1>3, <1>4 DEF UnlinkRpc, told
  <2>2. store'[p] = NoFile /\ \A q \in Path \ {p} : store'[q] = store[q]
    BY <2>1 DEF Remove
  <2>3. \A b \in Client : Fresh(b, p)'
    BY <2>2 DEF Fresh, Exists
  <2> QED
    BY <1>0, <1>1, <1>2, <2>1, <2>2, <2>3, EndsKnowing, RpcStep
<1>5. CASE RenameRpc(t)
  <2> DEFINE Follow(u) == ClientOf[u] = ClientOf[t] /\ sess[u].pc = "opened" /\ sess[u].path = s.path
  <2>1. /\ Move(p, s.to) /\ moved' = moved \cup {s.to} /\ EndTime /\ s.pc = "mv"
        /\ sess' = [u \in Thread |->
             IF u = t THEN Rest
             ELSE IF Follow(u) THEN [sess[u] EXCEPT !.path = s.to] ELSE sess[u]]
    BY <1>0, <1>1, <1>3, <1>5 DEF RenameRpc
  <2>2. \A u \in Thread \ {t} : ~Follow(u)
    BY <1>1 DEF Sharing
  <2>3. sess'[t] = Rest /\ (\A u \in Thread \ {t} : sess'[u] = sess[u]) /\ lastEnd' = now
    BY <1>1, <2>1, <2>2 DEF EndTime, Taking
  <2>4. sess'[t].pc = "idle" /\ sess'[t].creat = "none"
    BY <2>3 DEF Rest
  <2>5. KnowsFile(c, sess[t])' /\ KnowsCopy(c, sess[t])'
    BY <2>4 DEF KnowsFile, KnowsCopy, Creating, Closing
  <2>6. store'[p] = NoFile /\ \A q \in Path \ {p} : q \in moved' \/ store'[q] = store[q]
    BY <2>1 DEF Move
  <2>7. \A b \in Client : Fresh(b, p)'
    BY <2>6 DEF Fresh, Exists
  <2>8. moved \subseteq moved' /\ (s.pc = "mv" => s.to \in moved')
    BY <2>1
  <2> HIDE DEF Follow
  <2> QED
    BY <1>0, <1>1, <1>2, <2>1, <2>3, <2>4, <2>5, <2>6, <2>7, <2>8, RpcStep
<1> QED
  BY <1>4, <1>5

----------------------------------------------------------------------------
(* Beginnings                                                              *)

\* While nobody works every copy is from a session that is over, and is the
\* server's or older.
LEMMA AtRest ==
  ASSUME BInv, SInv, KInv, \A t \in Thread : ~Active(t)
  PROVE  /\ \A c \in Client, p \in Path :
              HasTemp(c, p) => temp[c][p].mtime \in Nat /\ temp[c][p].mtime <= lastEnd
         /\ \A c \in Client, p \in Path :
              HasTemp(c, p) /\ Exists(p) /\ p \notin moved
                => temp[c][p].data = store[p].data \/ temp[c][p].mtime < store[p].mtime
         /\ \A c \in Client : dirty[c] = {}
         /\ \A t \in Thread : sess[t].pc = "idle" /\ sess[t].creat = "none"
<1>1. \A c \in Client, p \in Path :
        HasTemp(c, p) => temp[c][p].mtime \in Nat /\ temp[c][p].mtime <= lastEnd
  BY Clocked DEF KInv, Aged
<1>2. \A c \in Client : dirty[c] = {}
  BY NobodyDirty
<1>3. \A c \in Client, p \in Path : Fresh(c, p) /\ ~Between(c, p)
  BY DEF KInv, Between, Active
<1>4. \A t \in Thread : sess[t].pc = "idle" /\ sess[t].creat = "none"
  BY KParts DEF Active
<1> QED
  BY <1>1, <1>2, <1>3, <1>4 DEF Fresh

\* The only process to work begins in a later second than all copies are from.
LEMMA Begins ==
  ASSUME BInv, SInv, KInv, NEW t \in Thread, \A u \in Thread : ~Active(u),
         UNCHANGED <<now, lastEnd>>, lastEnd < now, strays' = {},
         \A u \in Thread \ {t} : sess'[u] = sess[u],
         KnowsFile(ClientOf[t], sess[t])', KnowsCopy(ClientOf[t], sess[t])',
         \A c \in Client, p \in Path :
           temp'[c][p] # NoFile => temp'[c][p].mtime \in Nat /\ temp'[c][p].mtime <= lastEnd,
         \A c \in Client, p \in Path : Fresh(c, p)'
  PROVE  KInv'
<1>1. now \in Nat /\ lastEnd \in Nat
  BY Clocked
<1>2. \A u \in Thread \ {t} : sess'[u].pc = "idle" /\ sess'[u].creat = "none"
  BY AtRest
<1>3. \A u \in Thread : KnowsFile(ClientOf[u], sess[u])' /\ KnowsCopy(ClientOf[u], sess[u])'
  BY <1>2 DEF KnowsFile, KnowsCopy, Creating, Closing
<1>4. \A c \in Client, p \in Path : temp'[c][p] # NoFile => temp'[c][p].mtime < now
  BY <1>1
<1>5. \A u \in Thread : Later(u)'
  BY <1>4 DEF Later, Before, HasTemp
<1>6. \A c \in Client, p \in Path : Aged(c, p)'
  BY <1>1, <1>4 DEF Aged, HasTemp
<1> QED
  BY <1>3, <1>5, <1>6 DEF KInv

\* A writer begins while nobody works.
LEMMA WriterBegins ==
  ASSUME Sharing, BInv, SInv, KInv, NEW t \in Thread, sess[t].pc = "idle", MayStart(t, "w")
  PROVE  (\A u \in Thread : ~Active(u)) /\ strays = {} /\ lastEnd < now
<1>1. (\A u \in Thread : ~Active(u)) /\ strays = {} /\ now > lastEnd
  BY AllIdle DEF Sharing, Taking, MayStart
<1> QED
  BY <1>1, Clocked

\* An open knows whether the server has the file, from the kernel's lookup.
LEMMA OpenFresh ==
  ASSUME Sharing, BInv, SInv, KInv, NEW t \in Thread, NEW p \in Path, NEW mode \in {"r", "w"},
         NEW creat \in {"none", "create", "trunc"}, Open(t, p, mode, creat)
  PROVE  KInv'
<1> USE BParts DEF BInv
<1> DEFINE r == [Rest EXCEPT !.pc = "attr", !.mode = mode, !.path = p, !.creat = creat]
           c == ClientOf[t]
<1>1. r.pc = "attr" /\ r.mode = mode /\ r.creat = creat /\ r.path = p
  BY DEF Rest
<1>2. /\ sess[t].pc = "idle" /\ MayStart(t, mode) /\ sess' = [sess EXCEPT ![t] = r]
      /\ UNCHANGED <<store, temp, dirty, now, strays, moved, lastEnd>>
      /\ creat = "none" <=> Exists(p)
  BY DEF Open, server, client, told
<1> HIDE DEF r
<1>3. sess'[t] = r /\ \A u \in Thread : u # t => sess'[u] = sess[u]
  BY <1>2
<1>4. KnowsFile(c, sess[t])' /\ KnowsCopy(c, sess[t])'
  BY <1>1, <1>2, <1>3 DEF KnowsFile, KnowsCopy, Exists, Creating, Closing
<1>5. \A b \in Client, q \in Path : Between(b, q) => Between(b, q)'
  <2> SUFFICES ASSUME NEW b \in Client, NEW q \in Path, NEW u \in Thread, ClientOf[u] = b,
                      \/ sess[u].pc \in {"fill", "mark"} /\ sess[u].path = q
                      \/ sess[u].pc = "mv" /\ sess[u].to = q
               PROVE  sess'[u] = sess[u]
    BY DEF Between
  <2> QED
    BY <1>2, <1>3
<1>6. \A b \in Client, q \in Path : Fresh(b, q)'
  BY <1>2, <1>5 DEF KInv, Fresh, HasTemp, Exists
<1>7. CASE mode = "w"
  <2>1. (\A u \in Thread : ~Active(u)) /\ strays = {} /\ lastEnd < now
    BY <1>2, <1>7, WriterBegins
  <2>2. \A b \in Client, q \in Path :
          temp'[b][q] # NoFile => temp'[b][q].mtime \in Nat /\ temp'[b][q].mtime <= lastEnd
    BY <1>2, <2>1, AtRest DEF HasTemp
  <2> QED
    BY <1>2, <1>3, <1>4, <1>6, <2>1, <2>2, Begins
<1>8. CASE mode = "r"
  <2>1. strays' = {}
    BY <1>2 DEF Sharing, Taking, MayStart
  <2>2. \A u \in Thread : KnowsFile(ClientOf[u], sess[u])' /\ KnowsCopy(ClientOf[u], sess[u])'
    <3> SUFFICES ASSUME NEW u \in Thread, u # t
                 PROVE  KnowsFile(ClientOf[u], sess[u])' /\ KnowsCopy(ClientOf[u], sess[u])'
      BY <1>4
    <3> QED
      BY <1>2, <1>3, Unmoved, Clocked
  <2>3. \A u \in Thread : Later(u)'
    <3> SUFFICES ASSUME NEW u \in Thread PROVE Later(u)'
      OBVIOUS
    <3>1. CASE u = t
      BY <1>1, <1>3, <1>8, <3>1 DEF Later
    <3>2. CASE u # t
      BY <1>2, <1>3, <3>2, KParts DEF Later, Active, Before, HasTemp
    <3> QED
      BY <3>1, <3>2
  <2>4. \A b \in Client, q \in Path : Aged(b, q)'
    <3> SUFFICES ASSUME NEW b \in Client, NEW q \in Path PROVE Aged(b, q)'
      OBVIOUS
    <3>1. \A u \in Thread : Active(u) => sess'[u] = sess[u]
      BY <1>2, <1>3 DEF Active
    <3> QED
      BY <1>2, <3>1 DEF KInv, Aged, HasTemp, Active
  <2> QED
    BY <1>6, <2>1, <2>2, <2>3, <2>4 DEF KInv
<1> QED
  BY <1>7, <1>8

\* truncate leaves an unmarked copy that the server does not have: its path is
\* given up.
LEMMA TruncateFresh ==
  ASSUME Sharing, BInv, SInv, KInv, NEW t \in Thread, NEW p \in Path, Truncate(t, p)
  PROVE  KInv'
<1> USE BParts DEF BInv
<1> DEFINE c == ClientOf[t]
<1>1. (\A u \in Thread : ~Active(u)) /\ strays = {} /\ lastEnd < now
  BY WriterBegins DEF Truncate
<1>2. /\ UNCHANGED <<store, now, dirty, sess, strays>> /\ lastEnd' = now
      /\ moved' = moved \cup {p} /\ Local(c, p, wrote + 1, now)
  BY DEF Truncate, server, EndTime, Sharing, Taking
<1>3. /\ temp'[c][p] = [data |-> wrote + 1, mtime |-> now]
      /\ \A b \in Client, q \in Path : b # c \/ q # p => temp'[b][q] = temp[b][q]
  BY <1>2 DEF Local, Temps
<1>4. now \in Nat /\ lastEnd \in Nat
  BY Clocked
<1>5. \A u \in Thread : KnowsFile(ClientOf[u], sess[u])' /\ KnowsCopy(ClientOf[u], sess[u])' /\ Later(u)'
  BY <1>1, <1>2, AtRest DEF KnowsFile, KnowsCopy, Later, Active, Creating, Closing
<1>6. ASSUME NEW b \in Client, NEW q \in Path PROVE Aged(b, q)' /\ Fresh(b, q)'
  <2>1. CASE b = c /\ q = p
    BY <1>2, <1>3, <1>4, <2>1 DEF Aged, Fresh
  <2>2. CASE b # c \/ q # p
    <3>1. temp'[b][q] = temp[b][q]
      BY <1>3, <2>2
    <3>2. HasTemp(b, q) => temp[b][q].mtime \in Nat /\ temp[b][q].mtime <= lastEnd
      BY <1>1, AtRest
    <3>3. HasTemp(b, q) /\ Exists(q) /\ q \notin moved
            => temp[b][q].data = store[q].data \/ temp[b][q].mtime < store[q].mtime
      BY <1>1, AtRest
    <3>4. Aged(b, q)'
      BY <1>2, <1>4, <3>1, <3>2 DEF Aged, HasTemp
    <3>5. Fresh(b, q)'
      BY <1>2, <3>1, <3>3 DEF Fresh, HasTemp, Exists
    <3> QED
      BY <3>4, <3>5
  <2> QED
    BY <2>1, <2>2
<1> QED
  BY <1>1, <1>2, <1>5, <1>6 DEF KInv

\* unlink drops the own copy before the server's file.
LEMMA UnlinkFresh ==
  ASSUME Sharing, BInv, SInv, KInv, NEW t \in Thread, NEW p \in Path, Unlink(t, p)
  PROVE  KInv'
<1> USE BParts DEF BInv
<1> DEFINE c == ClientOf[t]
           s == [Rest EXCEPT !.pc = "rm", !.mode = "w", !.path = p]
<1>1. (\A u \in Thread : ~Active(u)) /\ strays = {} /\ lastEnd < now
  BY WriterBegins DEF Unlink
<1>2. UNCHANGED <<store, now, strays, moved, lastEnd>> /\ DropTemp(t, p, s) /\ Exists(p)
  BY DEF Unlink, server, told
<1>3. s.pc = "rm" /\ s.creat = "none" /\ s.path = p
  BY DEF Rest
<1> HIDE DEF s
<1>4. sess'[t] = s /\ \A u \in Thread \ {t} : sess'[u] = sess[u]
  BY <1>2 DEF DropTemp, Sharing
<1>5. KnowsFile(c, sess[t])' /\ KnowsCopy(c, sess[t])'
  BY <1>2, <1>3, <1>4 DEF KnowsFile, KnowsCopy, Exists, Creating, Closing
<1>6. /\ temp'[c][p] = NoFile
      /\ \A b \in Client, q \in Path : b # c \/ q # p => temp'[b][q] = temp[b][q]
  BY <1>2 DEF DropTemp, Temps
<1>7. ASSUME NEW b \in Client, NEW q \in Path
      PROVE  /\ temp'[b][q] # NoFile => temp'[b][q].mtime \in Nat /\ temp'[b][q].mtime <= lastEnd
             /\ Fresh(b, q)'
  <2>1. CASE b = c /\ q = p
    BY <1>6, <2>1 DEF Fresh, HasTemp
  <2>2. CASE b # c \/ q # p
    BY <1>1, <1>2, <1>6, <2>2, AtRest DEF Fresh, HasTemp, Exists
  <2> QED
    BY <2>1, <2>2
<1> QED
  BY <1>1, <1>2, <1>4, <1>5, <1>7, Begins

\* rename moves the copy in temp before the server moves the file.
LEMMA RenameFresh ==
  ASSUME Sharing, BInv, SInv, KInv, NEW t \in Thread, NEW p \in Path, NEW q \in Path, Rename(t, p, q)
  PROVE  KInv'
<1> USE BParts DEF BInv
<1> DEFINE c == ClientOf[t]
           s == [Rest EXCEPT !.pc = "mv", !.mode = "w", !.path = p, !.to = q]
           Link(a) == IF a = p THEN q ELSE IF a = q THEN NoPath ELSE a
<1>1. (\A u \in Thread : ~Active(u)) /\ strays = {} /\ lastEnd < now
  BY WriterBegins DEF Rename
<1>2. UNCHANGED <<store, now, strays, moved, lastEnd>> /\ Exists(p) /\ p # q
  BY DEF Rename, server, told
<1>3. s.pc = "mv" /\ s.creat = "none" /\ s.path = p /\ s.to = q
  BY DEF Rest
<1>4. \/ /\ temp' = [temp EXCEPT ![c][q] = temp[c][p], ![c][p] = NoFile]
         /\ HasTemp(c, p)
         /\ sess' = [u \in Thread |->
               IF u = t THEN s
               ELSE IF ClientOf[u] = c THEN [sess[u] EXCEPT !.at = Link(@)] ELSE sess[u]]
      \/ sess' = [sess EXCEPT ![t] = s] /\ temp' = temp
  BY DEF Rename
<1> HIDE DEF s, Link
<1>5. sess'[t] = s /\ \A u \in Thread \ {t} : sess'[u] = sess[u]
  BY <1>4 DEF Sharing
<1>6. KnowsFile(c, sess[t])' /\ KnowsCopy(c, sess[t])'
  BY <1>2, <1>3, <1>5 DEF KnowsFile, KnowsCopy, Exists, Creating, Closing
<1>7. /\ temp'[c][p] \in {temp[c][p], NoFile} /\ temp'[c][q] \in {temp[c][q], temp[c][p]}
      /\ \A b \in Client, a \in Path : b # c \/ a \notin {p, q} => temp'[b][a] = temp[b][a]
  BY <1>2, <1>4 DEF Temps
<1>8. Between(c, q)'
  BY <1>3, <1>5 DEF Between
<1>9. ASSUME NEW b \in Client, NEW a \in Path
      PROVE  /\ temp'[b][a] # NoFile => temp'[b][a].mtime \in Nat /\ temp'[b][a].mtime <= lastEnd
             /\ Fresh(b, a)'
  <2>1. CASE b = c /\ a = q
    BY <1>1, <1>7, <1>8, <2>1, AtRest DEF Fresh, HasTemp
  <2>2. CASE b # c \/ a # q
    <3>1. temp'[b][a] \in {temp[b][a], NoFile}
      BY <1>7, <2>2
    <3> QED
      BY <1>1, <1>2, <3>1, AtRest DEF Fresh, HasTemp, Exists
  <2> QED
    BY <2>1, <2>2
<1> QED
  BY <1>1, <1>2, <1>5, <1>6, <1>9, Begins

----------------------------------------------------------------------------
(* The server, the clock, a restart                                        *)

\* A handler whose client died publishes while nobody works, and later than
\* all copies of the file.
LEMMA StrayFresh ==
  ASSUME Sharing, BInv, SInv, KInv, StrayPut
  PROVE  KInv'
<1> USE BParts DEF BInv
<1>1. PICK x \in strays : \E d \in {x.data, EmptyData}, m \in x.began..now :
        Publish(x.path, d, m) /\ strays' = strays \ {x} /\ UNCHANGED <<client, sess, told, lastEnd>>
  BY DEF StrayPut
<1>2. PICK d \in {x.data, EmptyData}, m \in x.began..now :
        Publish(x.path, d, m) /\ strays' = strays \ {x} /\ UNCHANGED <<client, sess, told, lastEnd>>
  BY <1>1
<1>3. /\ x.path \in Path /\ x.data \in Data /\ x.began \in Nat /\ now \in Nat /\ lastEnd \in Nat
      /\ lastEnd <= now /\ m \in Nat /\ x.began <= m
  <2>1. x.path \in Path /\ x.data \in Data /\ x.began \in Times
    OBVIOUS
  <2>2. x.began \in Nat /\ now \in Nat /\ lastEnd \in Nat /\ lastEnd <= now
    BY <2>1, Clocked, Clock
  <2> QED
    BY <2>1, <2>2
<1>4. (\A t \in Thread : ~Active(t)) /\ \A y \in strays : Left(y)
  BY DEF KInv
<1>5. /\ store'[x.path] = [data |-> d, mtime |-> m] /\ now' = now
      /\ \A q \in Path : q # x.path => store'[q] = store[q]
      /\ UNCHANGED <<temp, dirty, sess, moved, lastEnd>> /\ strays' \subseteq strays
  BY <1>2, <1>3 DEF Publish, client, told
<1>6. store'[x.path].mtime = m
  BY <1>5
<1>7. \A t \in Thread : KnowsFile(ClientOf[t], sess[t])' /\ KnowsCopy(ClientOf[t], sess[t])' /\ Later(t)'
  BY <1>4, <1>5, AtRest DEF KnowsFile, KnowsCopy, Later, Active, Creating, Closing
<1>8. \A y \in strays' : Left(y)'
  BY <1>4, <1>5 DEF Left, Before, HasTemp
<1>9. ASSUME NEW b \in Client, NEW q \in Path PROVE Aged(b, q)' /\ Fresh(b, q)'
  <2>1. HasTemp(b, q) => temp[b][q].mtime \in Nat /\ temp[b][q].mtime <= lastEnd
    BY <1>4, AtRest
  <2>2. Aged(b, q)'
    BY <1>3, <1>5, <2>1 DEF Aged, HasTemp
  <2>3. CASE q = x.path
    <3>1. HasTemp(b, q) => temp[b][q].mtime < x.began
      BY <1>4, <2>3 DEF Left, Before
    <3>2. HasTemp(b, q) => temp[b][q].mtime < m
      BY <1>3, <2>1, <3>1
    <3> QED
      BY <1>5, <1>6, <2>2, <2>3, <3>2 DEF Fresh, HasTemp
  <2>4. CASE q # x.path
    BY <1>4, <1>5, <2>2, <2>4, AtRest DEF Fresh, HasTemp, Exists
  <2> QED
    BY <2>3, <2>4
<1> QED
  BY <1>4, <1>5, <1>7, <1>8, <1>9 DEF KInv, Active

\* A later second makes nothing stale.
LEMMA SecondFresh ==
  ASSUME Sharing, BInv, SInv, KInv, Second
  PROVE  KInv'
<1>1. /\ now' = now + 1 /\ UNCHANGED <<store, temp, dirty, sess, strays, moved, lastEnd>>
  BY DEF Second, Tick, client, told
<1>2. now \in Nat /\ now' \in Nat /\ now' >= now /\ lastEnd \in Nat
  BY <1>1, Clocked
<1>3. ASSUME NEW t \in Thread
      PROVE  KnowsFile(ClientOf[t], sess[t])' /\ KnowsCopy(ClientOf[t], sess[t])'
  BY <1>1, <1>2, Unmoved
<1>4. ASSUME NEW t \in Thread PROVE Later(t)'
  <2>1. ASSUME NEW c \in Client, NEW p \in Path, Before(c, p, now) PROVE Before(c, p, now)'
    BY <1>1, <1>2, <2>1, Clocked DEF Before, HasTemp
  <2>2. Later(t)
    BY DEF KInv
  <2> QED
    BY <1>1, <2>1, <2>2 DEF Later, Active
<1>5. ASSUME NEW c \in Client, NEW p \in Path PROVE Aged(c, p)' /\ Fresh(c, p)'
  <2>1. Aged(c, p) /\ Fresh(c, p)
    BY DEF KInv
  <2>2. Aged(c, p)'
    BY <1>1, <1>2, <2>1, Clocked DEF Aged, HasTemp, Active
  <2>3. Fresh(c, p)'
    BY <1>1, <2>1 DEF Fresh, HasTemp, Exists, Between
  <2> QED
    BY <2>2, <2>3
<1>6. \A x \in strays' : Left(x)'
  <2> SUFFICES ASSUME NEW x \in strays PROVE Left(x)'
    BY <1>1
  <2>1. x.began \in Nat
    BY BParts, Clock DEF BInv
  <2> QED
    BY <1>1, <1>2, <2>1 DEF KInv, Left, Before, HasTemp
<1> QED
  BY <1>1, <1>3, <1>4, <1>5, <1>6 DEF KInv, Active

\* A restart loses copies and leaves an upload to the server, later than the
\* copies of the others.
LEMMA RestartFresh ==
  ASSUME Sharing, BInv, SInv, KInv, NEW c \in Client, Restart(c)
  PROVE  KInv'
<1> USE BParts DEF BInv
<1> DEFINE cut == {t \in Thread : ClientOf[t] = c /\ sess[t].pc = "put"}
<1>1. /\ UNCHANGED <<store, now, moved>> /\ lastEnd' = now
      /\ \A p \in Path : temp'[c][p] = NoFile
      /\ \A b \in Client : b # c => temp'[b] = temp[b] /\ dirty'[b] = dirty[b]
      /\ \A t \in Thread : sess'[t] = IF ClientOf[t] = c THEN Rest ELSE sess[t]
      /\ strays' = strays \cup {Stray(sess[t]) : t \in cut}
  BY DEF Restart, server, told, EndTime, Sharing, Taking, Temps
<1>2. now \in Nat /\ now >= now
  BY Clocked
<1>3. Rest.pc = "idle" /\ Rest.creat = "none"
  BY DEF Rest
<1>4. \A b \in Client, p \in Path : temp'[b][p] \in {temp[b][p], NoFile}
  BY <1>1
<1>5. ASSUME NEW t \in cut
      PROVE  \A u \in Thread : u # t => ~Active(u)
  BY WriterAlone DEF Active, SInv, Role
<1>6. ASSUME NEW t \in cut, NEW x, x = Stray(sess[t])
      PROVE  Left(x)'
  <2>1. PICK s : s = sess[t]
    OBVIOUS
  <2>2. s.pc = "put" /\ KnowsCopy(c, s)
    BY <2>1, KParts
  <2>3. s.began <= now /\ \A b \in Client \ {c} : Before(b, s.path, s.began)
    BY <2>2 DEF KnowsCopy
  <2>4. s.path \in Path
    BY <2>1, <2>2, Busy
  <2>5. \A b \in Client : temp'[b][s.path] # NoFile => temp'[b][s.path].mtime < s.began
    BY <1>1, <2>3, <2>4 DEF Before, HasTemp
  <2>6. x.path = s.path /\ x.began = s.began
    BY <1>6, <2>1 DEF Stray
  <2> QED
    BY <1>1, <2>3, <2>5, <2>6 DEF Left, Before, HasTemp
<1>7. \A x \in strays' : Left(x)'
  <2> SUFFICES ASSUME NEW x \in strays' PROVE Left(x)'
    OBVIOUS
  <2>1. CASE x \in strays
    <3>1. Left(x) /\ x.path \in Path
      BY <2>1 DEF KInv
    <3>2. \A b \in Client : temp'[b][x.path] # NoFile => temp'[b][x.path].mtime < x.began
      BY <1>4, <3>1 DEF Left, Before, HasTemp
    <3> QED
      BY <1>1, <3>1, <3>2 DEF Left, Before, HasTemp
  <2>2. CASE x \notin strays
    <3>1. PICK t \in cut : x = Stray(sess[t])
      BY <1>1, <2>2
    <3> QED
      BY <1>6, <3>1
  <2> QED
    BY <2>1, <2>2
<1>8. strays' # {} => \A t \in Thread : ~Active(t)'
  <2>1. CASE strays # {}
    BY <1>1, <1>3, <2>1 DEF KInv, Active
  <2>2. CASE strays = {}
    <3>1. strays' # {} => \E t \in cut : \A u \in Thread : u # t => ~Active(u)
      BY <1>1, <1>5, <2>2
    <3> QED
      BY <1>1, <1>3, <3>1 DEF Active
  <2> QED
    BY <2>1, <2>2
<1>9. ASSUME NEW t \in Thread
      PROVE  KnowsFile(ClientOf[t], sess[t])' /\ KnowsCopy(ClientOf[t], sess[t])' /\ Later(t)'
  <2>1. CASE ClientOf[t] = c
    BY <1>1, <1>3, <2>1 DEF KnowsFile, KnowsCopy, Later, Active, Creating, Closing
  <2>2. CASE ClientOf[t] # c
    <3>1. /\ sess'[t] = sess[t] /\ ClientOf[t] \in Client
          /\ temp'[ClientOf[t]] = temp[ClientOf[t]] /\ dirty'[ClientOf[t]] = dirty[ClientOf[t]]
      BY <1>1, <2>2
    <3>2. Active(t) => sess[t].path \in Path
      BY Busy DEF Active
    <3>3. KnowsFile(ClientOf[t], sess[t])' /\ KnowsCopy(ClientOf[t], sess[t])'
      BY <1>1, <1>2, <1>4, <3>1, <3>2, Unmoved
    <3>4. Later(t)'
      BY <1>1, <1>4, <3>1, KParts DEF Later, Active, Before, HasTemp
    <3> QED
      BY <3>3, <3>4
  <2> QED
    BY <2>1, <2>2
<1>10. ASSUME NEW b \in Client, NEW p \in Path PROVE Aged(b, p)' /\ Fresh(b, p)'
  <2>1. CASE b = c
    BY <1>1, <2>1 DEF Aged, Fresh, HasTemp
  <2>2. CASE b # c
    <3>1. Aged(b, p) /\ Fresh(b, p)
      BY DEF KInv
    <3>2. Aged(b, p)'
      BY <1>1, <2>2, <3>1 DEF Aged, HasTemp
    <3>3. \A t \in Thread : ClientOf[t] = b => sess'[t] = sess[t]
      BY <1>1, <2>2
    <3>4. Between(b, p) => Between(b, p)'
      BY <3>3 DEF Between
    <3> QED
      BY <1>1, <2>2, <3>1, <3>2, <3>4 DEF Fresh, HasTemp, Exists
  <2> QED
    BY <2>1, <2>2
<1> QED
  BY <1>7, <1>8, <1>9, <1>10 DEF KInv, Active

----------------------------------------------------------------------------

\* At the start there are no copies and no sessions.
LEMMA KInvInit == BInit => KInv
<1> SUFFICES ASSUME BInit PROVE KInv
  OBVIOUS
<1>1. /\ \A t \in Thread : sess[t] = Rest
      /\ \A c \in Client, p \in Path : temp[c][p] = NoFile
      /\ strays = {}
  BY DEF BInit
<1>2. Rest.pc = "idle" /\ Rest.creat = "none"
  BY DEF Rest
<1> QED
  BY <1>1, <1>2, RestKnows DEF KInv, Later, Active, Aged, Fresh, HasTemp

\* Every step keeps what the sessions and the times say.
LEMMA KInvNext ==
  ASSUME Sharing, BInv, SInv, KInv, [BNext]_allvars
  PROVE  KInv'
<1>1. CASE UNCHANGED allvars
  <2>1. UNCHANGED <<store, now, temp, dirty, sess, strays, moved, lastEnd>>
    BY <1>1 DEF allvars, told
  <2> QED
    BY <2>1 DEF KInv, KnowsFile, KnowsCopy, Later, Left, Aged, Fresh, Between, Before, HasTemp,
                Exists, SameAsServer, Active
<1>2. CASE StrayPut \/ Second \/ \E c \in Client : Restart(c)
  BY <1>2, StrayFresh, SecondFresh, RestartFresh
<1>3. CASE \E t \in Thread, p \in Path :
             \/ \E mode \in {"r", "w"}, creat \in {"none", "create", "trunc"} :
                  Open(t, p, mode, creat)
             \/ Truncate(t, p) \/ Unlink(t, p)
             \/ \E q \in Path : Rename(t, p, q)
  BY <1>3, OpenFresh, TruncateFresh, UnlinkFresh, RenameFresh
<1>4. CASE \E t \in Thread :
             \/ GetAttr(t) \/ Check(t) \/ Fetch(t) \/ Clear(t) \/ Fill(t)
             \/ MakeLocal(t) \/ MakeDirty(t) \/ AskServer(t) \/ MakeOnServer(t) \/ OpenTemp(t)
  BY <1>4, LookFresh, FetchFresh, MakeFresh, MakeOnServerFresh, OpenTempFresh
<1>5. CASE \E t \in Thread :
             \/ Write(t) \/ Mark(t)
             \/ Flush(t) \/ Send(t) \/ PutFile(t) \/ Reply(t) \/ Commit(t) \/ Stamp(t) \/ Clean(t)
             \/ UnlinkRpc(t) \/ RenameRpc(t)
  BY <1>5, WriteFresh, SendFresh, PutFileFresh, CommitFresh, PathRpcFresh
<1> QED
  BY <1>1, <1>2, <1>3, <1>4, <1>5 DEF BNext

\* Close-to-open consistency, for any number of clients and files: a process
\* that opens a file nobody has open for writing reads what was closed last,
\* through every unlink, recreation, restart and upload left behind, and next
\* to files that were renamed or truncated.
THEOREM CloseToOpen ==
  ASSUME Sharing
  PROVE  BSpec => []OpenSeesLatestUnmoved
<1>1. BInit => KInv
  BY KInvInit
<1>2. KInv /\ (BInv /\ SInv) /\ [BNext]_allvars => KInv'
  BY KInvNext
<1>3. BInv /\ SInv /\ KInv => OpenSeesLatestUnmoved
  <2> SUFFICES ASSUME BInv, SInv, KInv, NEW t \in Thread, sess[t].path \notin moved,
                      sess[t].pc = "opened", sess[t].path \notin dirty[ClientOf[t]]
               PROVE  temp[ClientOf[t]][sess[t].path].data = store[sess[t].path].data
    BY DEF OpenSeesLatestUnmoved, SeesLatest
  <2> QED
    BY KParts DEF KnowsFile, KnowsCopy, SameAsServer
<1>4. BSpec => [](BInv /\ SInv)
  BY TurnsInvariance DEF Sharing
<1> QED
  BY <1>1, <1>2, <1>3, <1>4, PTL DEF BSpec

\* Without rename and truncate no file is left out.
Still == moved = {} /\ \A t \in Thread : sess[t].pc # "mv"

\* No step renames or truncates.
LEMMA StillNext ==
  ASSUME Ops \cap {"truncate", "rename"} = {}, BInv, Still, [BNext]_allvars
  PROVE  Still'
<1> USE BParts DEF BInv, Still
<1>1. "truncate" \notin Ops /\ "rename" \notin Ops
  OBVIOUS
<1>2. CASE UNCHANGED allvars \/ StrayPut \/ Second
  BY <1>2 DEF allvars, told, StrayPut, Second
<1>3. CASE \E c \in Client : Restart(c)
  BY <1>3 DEF Restart, told, Rest
<1>4. ASSUME NEW t \in Thread, NEW p \in Path,
             \/ \E mode \in {"r", "w"}, creat \in {"none", "create", "trunc"} :
                  Open(t, p, mode, creat)
             \/ Truncate(t, p) \/ Unlink(t, p)
             \/ \E q \in Path : Rename(t, p, q)
      PROVE  Still'
  <2>1. CASE \E mode \in {"r", "w"}, creat \in {"none", "create", "trunc"} : Open(t, p, mode, creat)
    BY <2>1 DEF Open, told, Rest
  <2>2. CASE Unlink(t, p)
    BY <2>2 DEF Unlink, DropTemp, told, Rest, Session
  <2> QED
    BY <1>1, <1>4, <2>1, <2>2 DEF Truncate, Rename
<1>5. ASSUME NEW t \in Thread,
             \/ GetAttr(t) \/ Check(t) \/ Fetch(t) \/ Clear(t) \/ Fill(t)
             \/ MakeLocal(t) \/ MakeDirty(t) \/ AskServer(t) \/ MakeOnServer(t)
      PROVE  Still'
  <2>1. sess[t] \in Session
    OBVIOUS
  <2> QED
    BY <1>5, <2>1 DEF GetAttr, Check, Fetch, Clear, Fill, MakeLocal, MakeDirty, AskServer, MakeOnServer,
                      Goto, told, Session
<1>6. ASSUME NEW t \in Thread, OpenTemp(t) \/ Write(t) \/ Mark(t) \/ Flush(t) \/ Send(t)
      PROVE  Still'
  <2>1. CASE OpenTemp(t)
    <3>1. moved' = {}
      BY <2>1 DEF OpenTemp, told
    <3>2. CASE DropTemp(t, sess[t].path, Rest)
      BY <3>1, <3>2 DEF DropTemp, Rest, Session
    <3>3. CASE sess' = [sess EXCEPT ![t] =
                 [sess[t] EXCEPT !.pc = "opened", !.at = sess[t].path, !.creat = "none"]]
      <4>1. sess[t] \in Session
        OBVIOUS
      <4> QED
        BY <3>1, <3>3, <4>1 DEF Session
    <3> QED
      BY <2>1, <3>2, <3>3 DEF OpenTemp
  <2>2. CASE Write(t) \/ Mark(t)
    BY <2>2 DEF Write, Mark, Goto, told, Session
  <2>3. CASE Flush(t)
    BY <2>3 DEF Flush, Done, told, Rest, Session
  <2>4. CASE Send(t)
    <3>1. moved' = {}
      BY <2>4 DEF Send, told
    <3>2. CASE DropTemp(t, sess[t].path, Rest)
      BY <3>1, <3>2 DEF DropTemp, Rest, Session
    <3>3. CASE ~DropTemp(t, sess[t].path, Rest)
      BY <2>4, <3>1, <3>3 DEF Send, Session
    <3> QED
      BY <3>2, <3>3
  <2> QED
    BY <1>6, <2>1, <2>2, <2>3, <2>4
<1>7. ASSUME NEW t \in Thread,
             PutFile(t) \/ Reply(t) \/ Commit(t) \/ Stamp(t) \/ Clean(t) \/ UnlinkRpc(t) \/ RenameRpc(t)
      PROVE  Still'
  BY <1>7 DEF PutFile, Reply, Commit, Stamp, Clean, UnlinkRpc, RenameRpc, Done, Goto, told, Rest, Session
<1> QED
  BY <1>2, <1>3, <1>4, <1>5, <1>6, <1>7 DEF BNext

\* Where nothing is renamed or truncated, every process that opens a file which
\* nobody has open for writing reads what was closed last.
THEOREM CloseToOpenEverywhere ==
  ASSUME Sharing, Ops \cap {"truncate", "rename"} = {}
  PROVE  BSpec => []OpenSeesLatest
<1>1. BInit => Still
  BY DEF BInit, Rest, Still
<1>2. Still /\ (BInv /\ SInv) /\ [BNext]_allvars => Still'
  BY StillNext
<1>3. Still /\ OpenSeesLatestUnmoved => OpenSeesLatest
  BY DEF Still, OpenSeesLatestUnmoved, OpenSeesLatest
<1>4. BSpec => [](BInv /\ SInv)
  BY TurnsInvariance DEF Sharing
<1>5. BSpec => []OpenSeesLatestUnmoved
  BY CloseToOpen
<1> QED
  BY <1>1, <1>2, <1>3, <1>4, <1>5, PTL DEF BSpec

----------------------------------------------------------------------------
(* Sessions as one step to open and one to close: Bnfs implements          *)
(* SharedFiles.  A session shows something of itself from the open of its  *)
(* temp file, or the creation of its file, to the rename of its upload.    *)

\* A file that is about to be opened is not marked unless it is new, and a
\* new one is empty.
Begun(c, s) ==
  /\ s.pc = "open" /\ s.creat = "none" => s.path \notin dirty[c]
  /\ s.pc \in {"mkDirty", "ask", "make", "open"} /\ s.creat # "none" =>
       HasTemp(c, s.path) /\ temp[c][s.path].data = EmptyData

\* At most one upload is left behind: nobody starts before it is over.
EInv ==
  /\ \A x, y \in strays : x = y
  /\ \A t \in Thread : Begun(ClientOf[t], sess[t])

\* A step of t leaves the clients of the others alone.
Apart(t) ==
  \A u \in Thread \ {t} : /\ sess'[u] = sess[u]
                          /\ temp'[ClientOf[u]] = temp[ClientOf[u]]
                          /\ dirty'[ClientOf[u]] = dirty[ClientOf[u]]

\* What a step does to its own client.
LEMMA ApartBy ==
  ASSUME Sharing, BInv, NEW t \in Thread,
         \A u \in Thread \ {t} : ClientOf[u] # ClientOf[t] => sess'[u] = sess[u],
         \A b \in Client \ {ClientOf[t]} : temp'[b] = temp[b] /\ dirty'[b] = dirty[b]
  PROVE  Apart(t)
<1>1. \A u \in Thread \ {t} : ClientOf[u] # ClientOf[t] /\ ClientOf[u] \in Client
  BY BParts DEF Sharing, BInv
<1> QED
  BY <1>1 DEF Apart

\* Every step of a process is one of its client alone, ...
LEMMA CallApart ==
  ASSUME Sharing, BInv, NEW t \in Thread,
         \/ GetAttr(t) \/ Check(t) \/ Fetch(t) \/ Clear(t) \/ Fill(t)
         \/ MakeLocal(t) \/ MakeDirty(t) \/ AskServer(t) \/ MakeOnServer(t) \/ OpenTemp(t)
  PROVE  Apart(t)
<1> USE BParts DEF BInv
<1>1. CASE GetAttr(t) \/ Check(t) \/ Fetch(t) \/ AskServer(t) \/ MakeOnServer(t)
  BY <1>1, ApartBy DEF GetAttr, Check, Fetch, AskServer, MakeOnServer, Goto, client
<1>2. CASE Clear(t) \/ Fill(t) \/ MakeLocal(t)
  BY <1>2, ApartBy DEF Clear, Fill, MakeLocal, Goto, Local, Temps
<1>3. CASE MakeDirty(t)
  BY <1>3, ApartBy DEF MakeDirty, Goto
<1>4. CASE OpenTemp(t)
  BY <1>4, ApartBy DEF OpenTemp, Local, DropTemp, Temps
<1> QED
  BY <1>1, <1>2, <1>3, <1>4

\* ... the same for the rest of a session, ...
LEMMA WorkApart ==
  ASSUME Sharing, BInv, NEW t \in Thread,
         \/ Write(t) \/ Mark(t)
         \/ Flush(t) \/ Send(t) \/ PutFile(t) \/ Reply(t) \/ Commit(t) \/ Stamp(t) \/ Clean(t)
  PROVE  Apart(t)
<1> USE BParts DEF BInv
<1>1. CASE Write(t) \/ Stamp(t)
  BY <1>1, ApartBy DEF Write, Stamp, Goto, Local, Temps
<1>2. CASE Mark(t)
  BY <1>2, ApartBy DEF Mark, Goto
<1>3. CASE Flush(t) \/ PutFile(t) \/ Reply(t)
  BY <1>3, ApartBy DEF Flush, PutFile, Reply, Done, client
<1>4. CASE Send(t)
  <2>1. CASE DropTemp(t, sess[t].path, Rest)
    BY <2>1, ApartBy DEF DropTemp
  <2>2. CASE ~DropTemp(t, sess[t].path, Rest)
    BY <1>4, <2>2, ApartBy DEF Send
  <2> QED
    BY <2>1, <2>2
<1>5. CASE Commit(t) \/ Clean(t)
  BY <1>5, ApartBy DEF Commit, Clean, Done, Goto
<1> QED
  BY <1>1, <1>2, <1>3, <1>4, <1>5

\* ... and for operations on paths.
LEMMA PathApart ==
  ASSUME Sharing, BInv, NEW t \in Thread,
         \/ \E p \in Path :
              \/ \E mode \in {"r", "w"}, creat \in {"none", "create", "trunc"} :
                   Open(t, p, mode, creat)
              \/ Truncate(t, p) \/ Unlink(t, p)
              \/ \E q \in Path : Rename(t, p, q)
         \/ UnlinkRpc(t) \/ RenameRpc(t)
  PROVE  Apart(t)
<1> USE BParts DEF BInv
<1>1. ASSUME NEW p \in Path, NEW mode, NEW creat, Open(t, p, mode, creat) PROVE Apart(t)
  <2>1. \A u \in Thread \ {t} : sess'[u] = sess[u]
    BY <1>1 DEF Open
  <2>2. UNCHANGED <<temp, dirty>>
    BY <1>1 DEF Open, client
  <2> QED
    BY <2>1, <2>2, ApartBy
<1>2. ASSUME NEW p \in Path, Truncate(t, p) PROVE Apart(t)
  BY <1>2, ApartBy DEF Truncate, Local, Temps
<1>3. ASSUME NEW p \in Path, Unlink(t, p) PROVE Apart(t)
  <2> DEFINE s == [Rest EXCEPT !.pc = "rm", !.mode = "w", !.path = p]
  <2>1. DropTemp(t, p, s)
    BY <1>3 DEF Unlink
  <2> HIDE DEF s
  <2> QED
    BY <2>1, ApartBy DEF DropTemp
<1>6. ASSUME NEW p \in Path, NEW q \in Path, Rename(t, p, q) PROVE Apart(t)
  <2> DEFINE s == [Rest EXCEPT !.pc = "mv", !.mode = "w", !.path = p, !.to = q]
             Link(a) == IF a = p THEN q ELSE IF a = q THEN NoPath ELSE a
  <2>1. \/ sess' = [sess EXCEPT ![t] = s]
        \/ sess' = [u \in Thread |->
               IF u = t THEN s
               ELSE IF ClientOf[u] = ClientOf[t] THEN [sess[u] EXCEPT !.at = Link(@)] ELSE sess[u]]
    BY <1>6 DEF Rename
  <2>2. \A b \in Client \ {ClientOf[t]} : temp'[b] = temp[b] /\ dirty'[b] = dirty[b]
    <3>1. CASE UNCHANGED <<temp, dirty>>
      BY <3>1
    <3>2. CASE /\ temp' = [temp EXCEPT ![ClientOf[t]][q] = temp[ClientOf[t]][p], ![ClientOf[t]][p] = NoFile]
               /\ dirty' = [dirty EXCEPT ![ClientOf[t]] = IF p \in @ THEN @ \cup {q} ELSE @]
      <4>1. \A b \in Client \ {ClientOf[t]} : temp'[b] = temp[b]
        BY <3>2 DEF Temps
      <4>2. \A b \in Client \ {ClientOf[t]} : dirty'[b] = dirty[b]
        BY <3>2
      <4> QED
        BY <4>1, <4>2
    <3> QED
      BY <1>6, <3>1, <3>2 DEF Rename
  <2> HIDE DEF s, Link
  <2>3. \A u \in Thread \ {t} : ClientOf[u] # ClientOf[t] => sess'[u] = sess[u]
    BY <2>1
  <2> QED
    BY <2>2, <2>3, ApartBy
<1>4. CASE UnlinkRpc(t)
  BY <1>4, ApartBy DEF UnlinkRpc, Done, client
<1>5. CASE RenameRpc(t)
  BY <1>5, ApartBy DEF RenameRpc, Done, client
<1> QED
  BY <1>1, <1>2, <1>3, <1>4, <1>5, <1>6

----------------------------------------------------------------------------
(* The invariant                                                           *)

\* A step of t leaves what the others have begun.
LEMMA ApartBegun ==
  ASSUME NEW t \in Thread, Apart(t), EInv, NEW u \in Thread, u # t
  PROVE  Begun(ClientOf[u], sess[u])'
BY DEF Apart, EInv, Begun, HasTemp

\* What a process has begun is its own matter.
LEMMA BegunStep ==
  ASSUME EInv, NEW t \in Thread, Apart(t), UNCHANGED strays, Begun(ClientOf[t], sess[t])'
  PROVE  EInv'
BY ApartBegun DEF EInv

\* The open of a file.
LEMMA OpenBegun ==
  ASSUME Sharing, BInv, SInv, KInv, EInv, NEW t \in Thread,
         \/ GetAttr(t) \/ Check(t) \/ Fetch(t) \/ Clear(t) \/ Fill(t)
         \/ MakeLocal(t) \/ MakeDirty(t) \/ AskServer(t) \/ MakeOnServer(t) \/ OpenTemp(t)
  PROVE  EInv'
<1> USE BParts DEF BInv
<1> DEFINE s == sess[t]  c == ClientOf[t]
<1>0. PICK p \in Path : p = sess[t].path
  BY Busy DEF GetAttr, Check, Fetch, Clear, Fill, MakeLocal, MakeDirty, AskServer, MakeOnServer, OpenTemp
<1>1. /\ s \in Session /\ c \in Client /\ Active(t) /\ KnowsFile(c, s) /\ Begun(c, s)
      /\ ~Lossy /\ Apart(t)
  BY KParts, CallApart DEF EInv, Sharing, Taking, Active,
     GetAttr, Check, Fetch, Clear, Fill, MakeLocal, MakeDirty, AskServer, MakeOnServer, OpenTemp
<1>2. UNCHANGED strays
  BY DEF GetAttr, Check, Fetch, Clear, Fill, MakeLocal, MakeDirty, AskServer, MakeOnServer, OpenTemp
<1>3. s.pc \notin Owing => dirty[c] = {}
  BY <1>1, Solo DEF Owner
<1>4. CASE GetAttr(t) \/ Fetch(t) \/ Clear(t)
  <2>1. sess'[t].pc \in {"check", "mkLocal", "clear", "fill"}
    BY <1>1, <1>4 DEF GetAttr, Fetch, Clear, Goto, Session
  <2>2. Begun(c, sess[t])'
    BY <2>1 DEF Begun
  <2> QED
    BY <1>1, <1>2, <2>2, BegunStep
<1>5. CASE Check(t) \/ Fill(t)
  <2>1. s.creat = "none" /\ dirty[c] = {} /\ UNCHANGED dirty
    BY <1>1, <1>3, <1>5 DEF Check, Fill, KnowsFile, Creating, Owing, client
  <2>2. sess'[t].creat = "none"
    BY <1>1, <1>5, <2>1 DEF Check, Fill, Session
  <2>3. Begun(c, sess[t])'
    BY <2>1, <2>2 DEF Begun
  <2> QED
    BY <1>1, <1>2, <2>3, BegunStep
<1>6. CASE MakeLocal(t)
  <2>1. sess'[t].path = p /\ sess'[t].pc = "mkDirty"
    BY <1>0, <1>1, <1>6 DEF MakeLocal, Goto, Session
  <2>2. temp'[c][p] = [data |-> EmptyData, mtime |-> now]
    BY <1>0, <1>1, <1>6 DEF MakeLocal, Local, Temps
  <2>3. temp'[c][p] # NoFile /\ temp'[c][p].data = EmptyData
    BY <2>2, FileStoreAssumption, Clocked
  <2>4. Begun(c, sess[t])'
    BY <2>1, <2>3 DEF Begun, HasTemp
  <2> QED
    BY <1>1, <1>2, <2>4, BegunStep
<1>7. CASE MakeDirty(t) \/ AskServer(t) \/ MakeOnServer(t)
  <2>1. s.pc \in {"mkDirty", "ask", "make"} /\ s.creat # "none" /\ UNCHANGED temp
    BY <1>1, <1>7 DEF MakeDirty, AskServer, MakeOnServer, KnowsFile, Creating, client
  <2>2. sess'[t].creat = s.creat /\ sess'[t].path = s.path
    BY <1>1, <1>7 DEF MakeDirty, AskServer, MakeOnServer, Goto, Session
  <2>3. Begun(c, sess[t])'
    BY <1>1, <2>1, <2>2 DEF Begun, HasTemp
  <2> QED
    BY <1>1, <1>2, <2>3, BegunStep
<1>8. CASE OpenTemp(t)
  <2>1. sess'[t].pc \in {"opened", "idle"}
    <3> DEFINE opened == [s EXCEPT !.pc = "opened", !.at = s.path, !.creat = "none"]
    <3>1. \/ sess' = [sess EXCEPT ![t] = opened]
          \/ DropTemp(t, s.path, Rest)
      BY <1>8 DEF OpenTemp
    <3>2. CASE sess' = [sess EXCEPT ![t] = opened]
      BY <1>1, <3>2 DEF Session
    <3>3. CASE DropTemp(t, s.path, Rest)
      BY <3>3 DEF DropTemp, Rest
    <3> QED
      BY <3>1, <3>2, <3>3
  <2>2. Begun(c, sess[t])'
    BY <2>1 DEF Begun
  <2> QED
    BY <1>1, <1>2, <2>2, BegunStep
<1> QED
  BY <1>4, <1>5, <1>6, <1>7, <1>8

\* The rest of a session.
LEMMA WorkBegun ==
  ASSUME Sharing, BInv, SInv, KInv, EInv, NEW t \in Thread,
         \/ Write(t) \/ Mark(t)
         \/ Flush(t) \/ Send(t) \/ PutFile(t) \/ Reply(t) \/ Commit(t) \/ Stamp(t) \/ Clean(t)
  PROVE  EInv'
<1> USE BParts DEF BInv
<1>1. sess[t] \in Session /\ ~Lossy /\ Apart(t)
  BY WorkApart DEF Sharing, Taking
<1>2. UNCHANGED strays
  BY <1>1 DEF Write, Mark, Flush, Send, PutFile, Reply, Commit, Stamp, Clean
<1>3. CASE Write(t) \/ Mark(t) \/ Flush(t) \/ Send(t)
  <2>1. sess'[t].pc \in {"mark", "opened", "send", "put", "idle"}
    BY <1>1, <1>3 DEF Write, Mark, Flush, Send, Goto, Done, Rest, Session
  <2> QED
    BY <1>1, <1>2, <2>1, BegunStep DEF Begun
<1>4. CASE PutFile(t) \/ Reply(t) \/ Commit(t) \/ Stamp(t) \/ Clean(t)
  <2>1. sess'[t].pc \in {"stat", "commit", "stamp", "clean", "idle"}
    BY <1>1, <1>4 DEF PutFile, Reply, Commit, Stamp, Clean, Goto, Done, Rest, Session
  <2> QED
    BY <1>1, <1>2, <2>1, BegunStep DEF Begun
<1> QED
  BY <1>3, <1>4

\* Operations on paths.
LEMMA PathBegun ==
  ASSUME Sharing, BInv, SInv, KInv, EInv, NEW t \in Thread,
         \/ \E p \in Path :
              \/ \E mode \in {"r", "w"}, creat \in {"none", "create", "trunc"} :
                   Open(t, p, mode, creat)
              \/ Truncate(t, p) \/ Unlink(t, p)
              \/ \E q \in Path : Rename(t, p, q)
         \/ UnlinkRpc(t) \/ RenameRpc(t)
  PROVE  EInv'
<1> USE BParts DEF BInv
<1>1. Apart(t) /\ UNCHANGED strays
  BY PathApart DEF Open, Truncate, Unlink, Rename, UnlinkRpc, RenameRpc
<1>2. sess'[t].pc \in {"idle", "attr", "rm", "mv"}
  <2>1. ASSUME NEW p \in Path, NEW mode, NEW creat, Open(t, p, mode, creat) PROVE sess'[t].pc = "attr"
    BY <2>1 DEF Open, Rest
  <2>2. ASSUME NEW p \in Path, Truncate(t, p) PROVE sess'[t].pc = "idle"
    BY <2>2 DEF Truncate
  <2>3. ASSUME NEW p \in Path, Unlink(t, p) PROVE sess'[t].pc = "rm"
    BY <2>3 DEF Unlink, DropTemp, Rest
  <2>4. ASSUME NEW p \in Path, NEW q \in Path, Rename(t, p, q) PROVE sess'[t].pc = "mv"
    <3> DEFINE s == [Rest EXCEPT !.pc = "mv", !.mode = "w", !.path = p, !.to = q]
    <3>1. sess'[t] = s
      BY <2>4 DEF Rename
    <3> QED
      BY <3>1 DEF Rest
  <2>5. CASE UnlinkRpc(t) \/ RenameRpc(t)
    BY <2>5 DEF UnlinkRpc, RenameRpc, Done, Rest
  <2> QED
    BY <2>1, <2>2, <2>3, <2>4, <2>5
<1> QED
  BY <1>1, <1>2, BegunStep DEF Begun

\* What happens without a process: only the writer leaves an upload behind.
LEMMA OutsideBegun ==
  ASSUME Sharing, BInv, SInv, KInv, EInv,
         StrayPut \/ Second \/ \E c \in Client : Restart(c)
  PROVE  EInv'
<1> USE BParts DEF BInv
<1>1. CASE StrayPut \/ Second
  BY <1>1 DEF StrayPut, Second, EInv, Begun, HasTemp, client
<1>2. ASSUME NEW c \in Client, Restart(c) PROVE EInv'
  <2> DEFINE cut == {t \in Thread : ClientOf[t] = c /\ sess[t].pc = "put"}
             left == strays \cup {Stray(sess[t]) : t \in cut}
  <2>1. strays' = left /\ sess' = [t \in Thread |-> IF ClientOf[t] = c THEN Rest ELSE sess[t]]
        /\ temp' = [temp EXCEPT ![c] = [p \in Path |-> NoFile]]
        /\ dirty' = [dirty EXCEPT ![c] = {}]
    BY <1>2 DEF Restart
  <2>2. ASSUME NEW t \in Thread PROVE Begun(ClientOf[t], sess[t])'
    <3>1. CASE ClientOf[t] = c
      BY <2>1, <3>1 DEF Begun, Rest
    <3>2. CASE ClientOf[t] # c
      BY <2>1, <3>2 DEF EInv, Begun, HasTemp, Temps
    <3> QED
      BY <3>1, <3>2
  <2>3. \A t, u \in cut : t = u
    BY DEF Sharing
  <2>4. cut # {} => strays = {}
    BY DEF KInv, Active
  <2>5. \A x, y \in left : x = y
    BY <2>3, <2>4 DEF EInv
  <2> HIDE DEF left
  <2> QED
    BY <2>1, <2>2, <2>5 DEF EInv
<1> QED
  BY <1>1, <1>2

\* Every step keeps the invariant.
LEMMA EInvNext ==
  ASSUME Sharing, BInv, SInv, KInv, EInv, [BNext]_allvars
  PROVE  EInv'
<1>1. CASE UNCHANGED allvars
  <2>1. UNCHANGED <<temp, dirty, sess, strays>>
    BY <1>1 DEF allvars
  <2> QED
    BY <2>1 DEF EInv, Begun, HasTemp
<1>2. CASE StrayPut \/ Second \/ \E c \in Client : Restart(c)
  BY <1>2, OutsideBegun
<1>3. CASE \E t \in Thread :
             \/ \E p \in Path :
                \/ \E mode \in {"r", "w"}, creat \in {"none", "create", "trunc"} :
                     Open(t, p, mode, creat)
                \/ Truncate(t, p) \/ Unlink(t, p)
                \/ \E q \in Path : Rename(t, p, q)
             \/ UnlinkRpc(t) \/ RenameRpc(t)
  BY <1>3, PathBegun
<1>4. CASE \E t \in Thread :
             \/ GetAttr(t) \/ Check(t) \/ Fetch(t) \/ Clear(t) \/ Fill(t)
             \/ MakeLocal(t) \/ MakeDirty(t) \/ AskServer(t) \/ MakeOnServer(t) \/ OpenTemp(t)
  BY <1>4, OpenBegun
<1>5. CASE \E t \in Thread :
             \/ Write(t) \/ Mark(t)
             \/ Flush(t) \/ Send(t) \/ PutFile(t) \/ Reply(t) \/ Commit(t) \/ Stamp(t) \/ Clean(t)
  BY <1>5, WorkBegun
<1> QED
  BY <1>1, <1>2, <1>3, <1>4, <1>5 DEF BNext

----------------------------------------------------------------------------
(* What steps show                                                         *)

\* What a process shows that has a file open.
Seen(t) == [path |-> sess[t].path, data |-> temp[ClientOf[t]][sess[t].path].data,
            wrote |-> sess[t].path \in dirty[ClientOf[t]] \/ sess[t].pc = "mark"]

\* A process shows its open file or none, before a step and after it.
LEMMA ViewOf ==
  ASSUME NEW t \in Thread
  PROVE  /\ Works(sess[t]) => View[t] = Seen(t)
         /\ ~Works(sess[t]) => View[t] = Shared!Closed
         /\ Works(sess[t])' => View'[t] = Seen(t)'
         /\ ~Works(sess[t])' => View'[t] = Shared!Closed
BY DEF View, Seen, Shared!Closed

\* A process that works has a file open: it does not look closed.
LEMMA WorksOpen ==
  ASSUME BInv, NEW t \in Thread, Works(sess[t])
  PROVE  /\ sess[t].path \in Path /\ Active(t) /\ View[t] # Shared!Closed
         /\ View[t].path = sess[t].path
<1>1. sess[t].pc # "idle" /\ sess[t].pc \notin {"rm", "mv"}
  BY DEF Works
<1>2. sess[t].path \in Path
  BY <1>1, Busy DEF BInv
<1>3. View[t] = Seen(t)
  BY ViewOf
<1>4. View[t].path = sess[t].path
  BY <1>3 DEF Seen
<1>5. Shared!Closed.path = NoPath
  BY DEF Shared!Closed
<1> QED
  BY <1>1, <1>2, <1>4, <1>5, BnfsAssumption DEF Active

\* The others show what they showed, ...
LEMMA ApartView ==
  ASSUME NEW t \in Thread, Apart(t), NEW u \in Thread, u # t,
         moved' = moved \/ sess[u].pc = "idle"
  PROVE  View'[u] = View[u]
<1>1. /\ sess'[u] = sess[u] /\ temp'[ClientOf[u]] = temp[ClientOf[u]]
      /\ dirty'[ClientOf[u]] = dirty[ClientOf[u]]
  BY DEF Apart
<1>2. CASE sess[u].pc = "idle"
  BY <1>1, <1>2, ViewOf DEF Works
<1>3. CASE moved' = moved
  <2>1. Works(sess[u])' <=> Works(sess[u])
    BY <1>1, <1>3 DEF Works
  <2>2. Seen(u)' = Seen(u)
    BY <1>1 DEF Seen
  <2> QED
    BY <2>1, <2>2, ViewOf
<1> QED
  BY <1>2, <1>3

\* ... so that only the view of t changes.
LEMMA OneView ==
  ASSUME NEW t \in Thread, Apart(t),
         \A u \in Thread \ {t} : moved' = moved \/ sess[u].pc = "idle"
  PROVE  View' = [View EXCEPT ![t] = View'[t]]
<1>1. \A u \in Thread : u # t => View'[u] = View[u]
  BY ApartView
<1>2. View' = [u \in Thread |-> View'[u]] /\ View = [u \in Thread |-> View[u]]
  BY DEF View
<1> HIDE DEF View
<1> QED
  BY <1>1, <1>2

\* Where the server's files and the uploads left behind stay.
LEMMA SameFiles ==
  ASSUME UNCHANGED <<store, moved, strays>>
  PROVE  Shown' = Shown /\ Late' = Late
BY DEF Shown, Late, Exists

\* A step of t that changes nothing of what it shows.
LEMMA Silent ==
  ASSUME NEW t \in Thread, Apart(t), UNCHANGED <<store, moved, strays>>, View'[t] = View[t]
  PROVE  [Shared!Next]_Shared!vars
<1>1. View' = [View EXCEPT ![t] = View'[t]]
  BY OneView
<1>2. View = [u \in Thread |-> View[u]]
  BY DEF View
<1>3. View' = View
  <2> HIDE DEF View
  <2> QED
    BY <1>1, <1>2
<1> QED
  BY <1>3, SameFiles DEF Shared!vars

\* The steps that look for the file and fetch it show nothing.
LEMMA LookShows ==
  ASSUME Sharing, BInv, SInv, KInv, NEW t \in Thread,
         \/ GetAttr(t) \/ Check(t) \/ Fetch(t) \/ Clear(t) \/ Fill(t)
         \/ MakeLocal(t) \/ MakeDirty(t) \/ AskServer(t)
  PROVE  [Shared!Next]_Shared!vars
<1> USE BParts DEF BInv
<1> DEFINE s == sess[t]  c == ClientOf[t]
<1>1. s \in Session /\ Active(t) /\ KnowsFile(c, s) /\ ~Lossy /\ Apart(t)
  BY KParts, CallApart DEF Sharing, Taking, Active,
     GetAttr, Check, Fetch, Clear, Fill, MakeLocal, MakeDirty, AskServer
<1>2. UNCHANGED <<store, moved, strays>>
  BY DEF GetAttr, Check, Fetch, Clear, Fill, MakeLocal, MakeDirty, AskServer, server, told
<1>3. s.pc \notin {"opened", "mark", "send", "put", "open"}
  BY DEF GetAttr, Check, Fetch, Clear, Fill, MakeLocal, MakeDirty, AskServer
<1>4. /\ sess'[t].pc \notin {"opened", "mark", "send", "put"}
      /\ sess'[t].pc = "open" => sess'[t].creat = "none"
  <2>1. CASE GetAttr(t) \/ Fetch(t) \/ Clear(t)
    BY <1>1, <2>1 DEF GetAttr, Fetch, Clear, Goto, Session
  <2>2. CASE Check(t) \/ Fill(t)
    <3>1. s.creat = "none"
      BY <1>1, <2>2 DEF Check, Fill, KnowsFile, Creating
    <3> QED
      BY <1>1, <2>2, <3>1 DEF Check, Fill, Session
  <2>3. CASE MakeLocal(t) \/ MakeDirty(t)
    BY <1>1, <2>3 DEF MakeLocal, MakeDirty, Goto, Session
  <2>4. CASE AskServer(t)
    <3>1. ~Exists(s.path)
      BY <1>1, <2>4 DEF AskServer, KnowsFile, Creating
    <3> QED
      BY <1>1, <2>4, <3>1 DEF AskServer, Goto, Session
  <2> QED
    BY <2>1, <2>2, <2>3, <2>4
<1>5. ~Works(sess[t]) /\ ~Works(sess[t])'
  BY <1>3, <1>4 DEF Works
<1> QED
  BY <1>1, <1>2, <1>5, ViewOf, Silent

\* The server's content at a path that is promised.
LEMMA ShownOf ==
  ASSUME BInv, NEW p \in Path, p \notin moved
  PROVE  /\ p \in Shared!Promised
         /\ Exists(p) => Shown[p] = store[p].data /\ Shown[p] # NoFile
         /\ ~Exists(p) => Shown[p] = NoFile
<1>1. Exists(p) => store[p].data \in Data
  BY BParts DEF BInv, File
<1> QED
  BY <1>1, BnfsAssumption DEF Shown, Shared!Promised

\* The temp file is opened: from now on the process sees what was closed last.
LEMMA OpenTempShows ==
  ASSUME Sharing, BInv, SInv, KInv, EInv, NEW t \in Thread, OpenTemp(t)
  PROVE  [Shared!Next]_Shared!vars
<1> USE BParts DEF BInv
<1> DEFINE s == sess[t]  c == ClientOf[t]
           opened == [s EXCEPT !.pc = "opened", !.at = s.path, !.creat = "none"]
<1>0. PICK p \in Path : p = s.path
  BY Busy DEF OpenTemp
<1>1. /\ s \in Session /\ c \in Client /\ Active(t) /\ KnowsFile(c, s) /\ KnowsCopy(c, s)
      /\ Begun(c, s) /\ Apart(t) /\ s.pc = "open"
  BY KParts, CallApart DEF OpenTemp, Active, EInv
<1>2. UNCHANGED <<store, moved, strays>>
  BY DEF OpenTemp, server, told
<1>3. HasTemp(c, p)
  BY <1>0, <1>1 DEF KnowsFile, Begun
<1>4. sess' = [sess EXCEPT ![t] = opened] /\ UNCHANGED dirty
  BY <1>0, <1>3 DEF OpenTemp
<1>5. sess'[t].pc = "opened" /\ sess'[t].path = p
  BY <1>0, <1>1, <1>4 DEF Session
<1>6. CASE p \in moved
  <2>1. ~Works(sess[t]) /\ ~Works(sess[t])'
    BY <1>0, <1>2, <1>5, <1>6 DEF Works
  <2> QED
    BY <1>1, <1>2, <2>1, ViewOf, Silent
<1>7. CASE p \notin moved /\ s.creat = "none"
  <2>1. UNCHANGED temp
    BY <1>0, <1>3, <1>7 DEF OpenTemp
  <2>2. Exists(p) /\ p \notin dirty[c] /\ temp[c][p].data = store[p].data
    BY <1>0, <1>1, <1>3, <1>7 DEF KnowsFile, KnowsCopy, Begun, SameAsServer
  <2>3. View[t] = Shared!Closed /\ View'[t] = Seen(t)'
    BY <1>0, <1>1, <1>2, <1>5, <1>7, ViewOf DEF Works
  <2>4. Seen(t)' = [path |-> p, data |-> store[p].data, wrote |-> FALSE]
    BY <1>4, <1>5, <2>1, <2>2 DEF Seen
  <2>5. View' = [View EXCEPT ![t] = [path |-> p, data |-> Shown[p], wrote |-> FALSE]]
    BY <1>1, <1>2, <1>7, <2>2, <2>3, <2>4, OneView, ShownOf
  <2>6. Shared!Open(t, p)
    BY <1>2, <1>7, <2>2, <2>3, <2>5, ShownOf, SameFiles DEF Shared!Open
  <2> QED
    BY <2>6 DEF Shared!Next
<1>8. CASE p \notin moved /\ s.creat # "none"
  <2>1. temp[c][p].data = EmptyData
    BY <1>0, <1>1, <1>8 DEF Begun
  <2>2. temp'[c][p].data = EmptyData
    <3>1. CASE UNCHANGED temp
      BY <2>1, <3>1
    <3>2. CASE Local(c, p, EmptyData, now)
      BY <1>1, <3>2 DEF Local, Temps
    <3> QED
      BY <1>0, <1>3, <3>1, <3>2 DEF OpenTemp
  <2>3. p \in dirty[c]
    BY <1>0, <1>1, <1>8 DEF KnowsFile
  <2>4. Works(sess[t]) /\ Works(sess[t])'
    BY <1>0, <1>1, <1>2, <1>5, <1>8 DEF Works
  <2>5. Seen(t)' = Seen(t)
    BY <1>0, <1>4, <1>5, <2>1, <2>2, <2>3 DEF Seen
  <2> QED
    BY <1>1, <1>2, <2>4, <2>5, ViewOf, Silent
<1> QED
  BY <1>6, <1>7, <1>8

\* A process writes to its open file and marks it.
LEMMA WriteShows ==
  ASSUME Sharing, BInv, SInv, KInv, NEW t \in Thread, Write(t) \/ Mark(t)
  PROVE  [Shared!Next]_Shared!vars
<1> USE BParts DEF BInv
<1> DEFINE s == sess[t]  c == ClientOf[t]
<1>0. PICK p \in Path : p = s.path
  BY Busy DEF Write, Mark
<1>1. s \in Session /\ c \in Client /\ Active(t) /\ KnowsFile(c, s) /\ Apart(t)
  BY KParts, WorkApart DEF Write, Mark, Active
<1>2. UNCHANGED <<store, moved, strays>>
  BY DEF Write, Mark, server, told
<1>3. sess'[t].pc \in {"mark", "opened"} /\ sess'[t].path = p
  BY <1>0, <1>1 DEF Write, Mark, Goto, Session
<1>4. CASE p \in moved
  <2>1. ~Works(sess[t]) /\ ~Works(sess[t])'
    BY <1>0, <1>2, <1>3, <1>4 DEF Works
  <2> QED
    BY <1>1, <1>2, <2>1, ViewOf, Silent
<1>5. CASE p \notin moved
  <2>1. Works(sess[t]) /\ Works(sess[t])'
    BY <1>0, <1>2, <1>3, <1>5 DEF Works, Write, Mark
  <2>2. View[t] = Seen(t) /\ View'[t] = Seen(t)'
    BY <2>1, ViewOf
  <2>3. CASE Write(t)
    <3> DEFINE d == wrote + 1
    <3>1. d \in Data
      BY <2>3, BnfsAssumption DEF Write
    <3>2. s.at = p
      BY <1>0, <1>1, <2>3 DEF Write, KnowsFile
    <3>3. Local(c, p, d, now) /\ sess'[t].pc = "mark"
      BY <1>1, <2>3, <3>2, BnfsAssumption DEF Write, Goto, Session
    <3>4. temp'[c][p].data = d
      BY <1>1, <3>3 DEF Local, Temps
    <3>5. Seen(t)' = [path |-> p, data |-> d, wrote |-> TRUE]
      BY <1>3, <3>3, <3>4 DEF Seen
    <3>6. View' = [View EXCEPT ![t] = [path |-> p, data |-> d, wrote |-> TRUE]]
      BY <1>1, <1>2, <2>2, <3>5, OneView
    <3>7. View[t].path = p
      BY <1>0, <2>2 DEF Seen
    <3>8. Shared!Write(t, d)
      BY <1>2, <2>1, <3>6, <3>7, WorksOpen, SameFiles DEF Shared!Write
    <3> QED
      BY <3>1, <3>8 DEF Shared!Next
  <2>4. CASE Mark(t)
    <3>1. UNCHANGED temp /\ s.pc = "mark" /\ p \in dirty'[c]
      BY <1>0, <1>1, <2>4 DEF Mark
    <3>2. Seen(t)' = Seen(t)
      BY <1>0, <1>3, <3>1 DEF Seen
    <3> QED
      BY <1>1, <1>2, <2>2, <3>2, Silent
  <2> QED
    BY <2>3, <2>4
<1> QED
  BY <1>4, <1>5

\* A session that shows a file of its own ends, and shows what it made of it.
LEMMA Closes ==
  ASSUME Sharing, BInv, NEW t \in Thread, NEW p \in Path, sess[t].path = p, Apart(t),
         UNCHANGED <<moved, strays>>, Works(sess[t]), ~Works(sess[t])',
         Shown' = IF View[t].wrote THEN [Shown EXCEPT ![p] = View[t].data] ELSE Shown
  PROVE  [Shared!Next]_Shared!vars
<1>1. View[t] # Shared!Closed /\ View[t].path = p
  BY WorksOpen
<1>2. View' = [View EXCEPT ![t] = Shared!Closed]
  BY OneView, ViewOf
<1>3. Late' = Late
  BY DEF Late
<1>4. Shared!Close(t)
  BY <1>1, <1>2, <1>3 DEF Shared!Close
<1> QED
  BY <1>4 DEF Shared!Next

\* A file that was not written is closed without the server, one that was
\* goes on its way unchanged.
LEMMA FlushShows ==
  ASSUME Sharing, BInv, SInv, KInv, NEW t \in Thread, Flush(t) \/ Send(t)
  PROVE  [Shared!Next]_Shared!vars
<1> USE BParts DEF BInv
<1> DEFINE s == sess[t]  c == ClientOf[t]
<1>0. PICK p \in Path : p = s.path
  BY Busy DEF Flush, Send
<1>1. /\ s \in Session /\ c \in Client /\ Active(t) /\ KnowsFile(c, s) /\ Apart(t)
      /\ ~Lossy /\ s.pc \in {"opened", "send"}
  BY KParts, WorkApart DEF Flush, Send, Active, Sharing, Taking
<1>2. UNCHANGED <<store, moved, strays, temp, dirty>>
  BY <1>1 DEF Flush, Send, server, told, client
<1>3. CASE sess'[t].pc \in {"send", "put"} /\ sess'[t].path = p
  <2>1. Works(sess[t])' <=> Works(sess[t])
    BY <1>0, <1>1, <1>2, <1>3 DEF Works
  <2>2. Seen(t)' = Seen(t)
    BY <1>0, <1>1, <1>2, <1>3 DEF Seen
  <2> QED
    BY <1>1, <1>2, <2>1, <2>2, ViewOf, Silent
<1>4. CASE Flush(t) /\ p \notin dirty[c]
  <2>1. ~Works(sess[t])'
    BY <1>0, <1>4 DEF Flush, Done, Rest, Works
  <2>2. CASE p \in moved
    <3>1. ~Works(sess[t])
      BY <1>0, <2>2 DEF Works
    <3> QED
      BY <1>1, <1>2, <2>1, <3>1, ViewOf, Silent
  <2>3. CASE p \notin moved
    <3>1. Works(sess[t])
      BY <1>0, <1>4, <2>3 DEF Works, Flush
    <3>2. View[t] = [path |-> p, data |-> temp[c][p].data, wrote |-> FALSE]
      BY <1>0, <1>4, <3>1, ViewOf DEF Seen, Flush
    <3>3. ~View[t].wrote
      BY <3>2
    <3> QED
      BY <1>0, <1>1, <1>2, <2>1, <3>1, <3>3, Closes, SameFiles
  <2> QED
    BY <2>2, <2>3
<1>5. HasTemp(c, p) \/ Send(t)
  BY <1>0, <1>1 DEF Flush, KnowsFile
<1>6. Flush(t) /\ p \in dirty[c] => sess'[t].pc = "send" /\ sess'[t].path = p
  BY <1>0, <1>1, <1>5 DEF Flush, Send, Session
<1>7. Send(t) => sess'[t].pc = "put" /\ sess'[t].path = p
  BY <1>0, <1>1 DEF Send, Session
<1> QED
  BY <1>3, <1>4, <1>6, <1>7

\* The server publishes: the file is what the process made of it.
LEMMA PutFileShows ==
  ASSUME Sharing, BInv, SInv, KInv, NEW t \in Thread, PutFile(t)
  PROVE  [Shared!Next]_Shared!vars
<1> USE BParts DEF BInv
<1> DEFINE s == sess[t]  c == ClientOf[t]
<1>0. PICK p \in Path : p = s.path
  BY Busy DEF PutFile
<1>1. /\ s \in Session /\ c \in Client /\ Active(t) /\ KnowsFile(c, s) /\ KnowsCopy(c, s)
      /\ Apart(t) /\ ~Lossy /\ s.pc = "put"
  BY KParts, WorkApart DEF PutFile, Active, Sharing, Taking
<1>2. UNCHANGED <<moved, strays>>
  BY <1>1 DEF PutFile, told
<1>3. PICK m \in s.began..now : Publish(p, s.buf, m)
  BY <1>0, <1>1 DEF PutFile
<1>4. p \in dirty[c] /\ s.buf \in Data
  BY <1>0, <1>1 DEF KnowsFile, Closing, Session
<1>5. temp[c][p].data = s.buf
  <2>1. HasTemp(c, p)
    BY <1>1, <1>4, Solo DEF Owner
  <2> QED
    BY <1>0, <1>1, <2>1 DEF KnowsCopy
<1>6. /\ store'[p] # NoFile /\ store'[p].data = s.buf
      /\ \A q \in Path \ {p} : store'[q] = store[q]
  <2>1. store'[p] = [data |-> s.buf, mtime |-> m] /\ \A q \in Path \ {p} : store'[q] = store[q]
    BY <1>3 DEF Publish
  <2>2. m \in Nat
    <3>1. s.began \in Nat /\ now \in Nat
      BY <1>1, Clocked, Clock DEF Session
    <3> QED
      BY <1>3, <3>1
  <2> QED
    BY <1>4, <2>1, <2>2, FileStoreAssumption
<1>7. sess'[t].pc = "stat"
  BY <1>1 DEF PutFile, Session
<1>8. ~Works(sess[t])'
  BY <1>7 DEF Works
<1>9. CASE p \in moved
  <2>1. ~Works(sess[t])
    BY <1>0, <1>9 DEF Works
  <2>2. Shown' = Shown /\ Late' = Late
    BY <1>2, <1>6, <1>9 DEF Shown, Late, Exists
  <2>3. View' = View
    <3>1. View' = [View EXCEPT ![t] = Shared!Closed] /\ View[t] = Shared!Closed
      BY <1>1, <1>2, <1>8, <2>1, OneView, ViewOf
    <3>2. View = [u \in Thread |-> View[u]]
      BY DEF View
    <3> HIDE DEF View
    <3> QED
      BY <3>1, <3>2
  <2> QED
    BY <2>2, <2>3 DEF Shared!vars
<1>10. CASE p \notin moved
  <2>1. Works(sess[t])
    BY <1>0, <1>1, <1>10 DEF Works
  <2>2. View[t].wrote /\ View[t].data = s.buf
    <3>1. View[t] = [path |-> p, data |-> s.buf, wrote |-> TRUE]
      BY <1>0, <1>4, <1>5, <2>1, ViewOf DEF Seen
    <3> QED
      BY <3>1
  <2>3. Shown' = [Shown EXCEPT ![p] = s.buf]
    BY <1>2, <1>6, <1>10 DEF Shown, Exists
  <2> QED
    BY <1>0, <1>1, <1>2, <1>8, <2>1, <2>2, <2>3, Closes
<1> QED
  BY <1>9, <1>10

\* What follows the upload shows nothing more.
LEMMA CommitShows ==
  ASSUME Sharing, BInv, SInv, KInv, NEW t \in Thread,
         Reply(t) \/ Commit(t) \/ Stamp(t) \/ Clean(t)
  PROVE  [Shared!Next]_Shared!vars
<1> USE BParts DEF BInv
<1>1. sess[t] \in Session /\ Apart(t) /\ UNCHANGED <<store, moved, strays>>
  BY WorkApart DEF Reply, Commit, Stamp, Clean, server, told
<1>2. sess[t].pc \in {"stat", "commit", "stamp", "clean"}
  BY DEF Reply, Commit, Stamp, Clean
<1>3. sess'[t].pc \in {"idle", "commit", "stamp", "clean"}
  BY <1>1 DEF Reply, Commit, Stamp, Clean, Done, Goto, Rest, Session
<1>4. ~Works(sess[t]) /\ ~Works(sess[t])'
  BY <1>2, <1>3 DEF Works
<1> QED
  BY <1>1, <1>4, ViewOf, Silent

\* The server creates the file, and the process has it open.
LEMMA MakeShows ==
  ASSUME Sharing, BInv, SInv, KInv, EInv, NEW t \in Thread, MakeOnServer(t)
  PROVE  [Shared!Next]_Shared!vars
<1> USE BParts DEF BInv
<1> DEFINE s == sess[t]  c == ClientOf[t]
<1>0. PICK p \in Path : p = s.path
  BY Busy DEF MakeOnServer
<1>1. /\ s \in Session /\ c \in Client /\ Active(t) /\ KnowsFile(c, s) /\ Begun(c, s)
      /\ Apart(t) /\ s.pc = "make"
  BY KParts, CallApart DEF MakeOnServer, Active, EInv
<1>2. UNCHANGED <<moved, strays, temp, dirty>>
  BY DEF MakeOnServer, told, client
<1>3. s.creat # "none" /\ ~Exists(p) /\ p \in dirty[c] /\ temp[c][p].data = EmptyData
  BY <1>0, <1>1 DEF KnowsFile, Creating, Begun
<1>4. Create(p)
  BY <1>0, <1>3 DEF MakeOnServer, Blank
<1>5. /\ store'[p] # NoFile /\ store'[p].data = EmptyData
      /\ \A q \in Path \ {p} : store'[q] = store[q]
  BY <1>4, FileStoreAssumption, Clocked DEF Create
<1>6. sess'[t].pc = "open" /\ sess'[t].path = p /\ sess'[t].creat = s.creat
  BY <1>0, <1>1 DEF MakeOnServer, Goto, Session
<1>7. ~Works(sess[t]) /\ View[t] = Shared!Closed /\ Late' = Late
  BY <1>1, <1>2, ViewOf DEF Works, Late
<1>8. CASE p \in moved
  <2>1. View'[t] = View[t]
    BY <1>2, <1>6, <1>7, <1>8, ViewOf DEF Works
  <2>2. Shown' = Shown
    BY <1>2, <1>5, <1>8 DEF Shown, Exists
  <2>3. View' = View
    <3>1. View' = [View EXCEPT ![t] = View'[t]]
      BY <1>1, <1>2, OneView
    <3>2. View = [u \in Thread |-> View[u]]
      BY DEF View
    <3> HIDE DEF View
    <3> QED
      BY <2>1, <3>1, <3>2
  <2> QED
    BY <1>7, <2>2, <2>3 DEF Shared!vars
<1>9. CASE p \notin moved
  <2>1. View'[t] = Seen(t)'
    BY <1>2, <1>3, <1>6, <1>9, ViewOf DEF Works
  <2>2. Seen(t)' = [path |-> p, data |-> EmptyData, wrote |-> TRUE]
    BY <1>2, <1>3, <1>6 DEF Seen
  <2>3. View' = [View EXCEPT ![t] = [path |-> p, data |-> EmptyData, wrote |-> TRUE]]
    BY <1>1, <1>2, <2>1, <2>2, OneView
  <2>4. Shown' = [Shown EXCEPT ![p] = EmptyData]
    BY <1>2, <1>5, <1>9 DEF Shown, Exists
  <2>5. Shared!Create(t, p)
    BY <1>3, <1>7, <1>9, <2>3, <2>4, ShownOf DEF Shared!Create
  <2> QED
    BY <2>5 DEF Shared!Next
<1> QED
  BY <1>8, <1>9

\* While all sessions are hidden nothing is open.
LEMMA NothingSeen ==
  ASSUME BInv, \A u \in Thread : ~Works(sess[u]) /\ ~Works(sess[u])'
  PROVE  View' = View /\ \A p \in Path : ~Shared!IsOpen(p)
<1>1. \A u \in Thread : View'[u] = View[u] /\ View[u] = Shared!Closed
  BY ViewOf
<1>2. View' = [u \in Thread |-> View'[u]] /\ View = [u \in Thread |-> View[u]]
  BY DEF View
<1>3. \A p \in Path : ~Shared!IsOpen(p)
  BY <1>1, BnfsAssumption DEF Shared!IsOpen, Shared!Closed
<1> QED
  BY <1>1, <1>2, <1>3

\* The start of an operation shows nothing.
LEMMA BeginShows ==
  ASSUME Sharing, BInv, NEW t \in Thread, NEW p \in Path,
         \/ \E mode \in {"r", "w"}, creat \in {"none", "create", "trunc"} : Open(t, p, mode, creat)
         \/ Unlink(t, p)
         \/ \E q \in Path : Rename(t, p, q)
  PROVE  [Shared!Next]_Shared!vars
<1> USE BParts DEF BInv
<1>1. Apart(t) /\ UNCHANGED <<store, moved, strays>> /\ sess[t].pc = "idle"
  BY PathApart DEF Open, Unlink, Rename, server, told
<1>2. sess'[t].pc \in {"attr", "rm", "mv"}
  <2>1. ASSUME NEW mode, NEW creat, Open(t, p, mode, creat) PROVE sess'[t].pc = "attr"
    BY <2>1 DEF Open, Rest
  <2>2. CASE Unlink(t, p)
    BY <2>2 DEF Unlink, DropTemp, Rest
  <2>3. ASSUME NEW q \in Path, Rename(t, p, q) PROVE sess'[t].pc = "mv"
    <3> DEFINE s == [Rest EXCEPT !.pc = "mv", !.mode = "w", !.path = p, !.to = q]
    <3>1. sess'[t] = s
      BY <2>3 DEF Rename
    <3> QED
      BY <3>1 DEF Rest
  <2> QED
    BY <2>1, <2>2, <2>3
<1>3. ~Works(sess[t]) /\ ~Works(sess[t])'
  BY <1>1, <1>2 DEF Works
<1> QED
  BY <1>1, <1>3, ViewOf, Silent

\* A truncate gives the file up, while nobody has it open.
LEMMA TruncateShows ==
  ASSUME Sharing, BInv, SInv, KInv, NEW t \in Thread, NEW p \in Path, Truncate(t, p)
  PROVE  [Shared!Next]_Shared!vars
<1> USE BParts DEF BInv
<1>1. (\A u \in Thread : ~Active(u)) /\ strays = {}
  BY WriterBegins DEF Truncate
<1>2. UNCHANGED <<store, sess, strays>> /\ moved' = moved \cup {p}
  BY DEF Truncate, server
<1>3. View' = View /\ ~Shared!IsOpen(p)
  BY <1>1, <1>2, NothingSeen DEF Works, Active
<1>4. Late' = Late
  BY <1>1, <1>2 DEF Late
<1>5. CASE p \in moved
  BY <1>2, <1>3, <1>4, <1>5 DEF Shown, Exists, Shared!vars
<1>6. CASE p \notin moved
  <2>1. Shown' = [r \in Shared!Promised \ {p} |-> Shown[r]]
    BY <1>2 DEF Shown, Exists, Shared!Promised
  <2>2. Shared!Truncate(p)
    BY <1>3, <1>4, <1>6, <2>1, ShownOf DEF Shared!Truncate
  <2> QED
    BY <2>2 DEF Shared!Next
<1> QED
  BY <1>5, <1>6

\* The server removes or moves a file, while nobody has it open.
LEMMA PathRpcShows ==
  ASSUME Sharing, BInv, SInv, KInv, NEW t \in Thread, UnlinkRpc(t) \/ RenameRpc(t)
  PROVE  [Shared!Next]_Shared!vars
<1> USE BParts DEF BInv
<1> DEFINE s == sess[t]
<1>0. PICK p \in Path : p = sess[t].path
  BY Busy DEF UnlinkRpc, RenameRpc
<1>1. /\ Active(t) /\ KnowsFile(ClientOf[t], s) /\ s.pc \in {"rm", "mv"} /\ s.mode = "w" /\ ~Lossy
      /\ Apart(t) /\ strays = {}
  BY KParts, PathApart DEF UnlinkRpc, RenameRpc, Active, SInv, Role, Sharing, Taking
<1>2. UNCHANGED strays
  BY DEF UnlinkRpc, RenameRpc
<1>3. Exists(p)
  BY <1>0, <1>1 DEF KnowsFile, Creating
<1>4. \A u \in Thread \ {t} : ~Active(u) /\ sess'[u] = sess[u]
  BY <1>1, WriterAlone DEF Apart
<1>5. sess'[t].pc = "idle"
  BY DEF UnlinkRpc, RenameRpc, Done, Rest
<1>6. View' = View /\ \A q \in Path : ~Shared!IsOpen(q)
  <2>1. \A u \in Thread : ~Works(sess[u]) /\ ~Works(sess[u])'
    BY <1>1, <1>4, <1>5 DEF Works, Active
  <2> QED
    BY <2>1, NothingSeen
<1>7. Late' = Late
  BY <1>1, <1>2 DEF Late
<1>8. CASE UnlinkRpc(t)
  <2>1. Remove(p) /\ moved' = moved
    BY <1>0, <1>1, <1>3, <1>8 DEF UnlinkRpc, told
  <2>2. store'[p] = NoFile /\ \A q \in Path \ {p} : store'[q] = store[q]
    BY <2>1 DEF Remove
  <2>3. CASE p \in moved
    BY <1>6, <1>7, <2>1, <2>2, <2>3 DEF Shown, Exists, Shared!vars
  <2>4. CASE p \notin moved
    <3>1. Shown' = [Shown EXCEPT ![p] = NoFile]
      BY <2>1, <2>2, <2>4 DEF Shown, Exists
    <3>2. Shared!Remove(p)
      BY <1>3, <1>6, <1>7, <2>4, <3>1, ShownOf DEF Shared!Remove
    <3> QED
      BY <3>2 DEF Shared!Next
  <2> QED
    BY <2>3, <2>4
<1>9. CASE RenameRpc(t)
  <2>0. PICK q \in Path : q = s.to
    BY <1>9, Busy DEF RenameRpc, Placed
  <2>1. Move(p, q) /\ moved' = moved \cup {q}
    BY <1>0, <1>1, <1>3, <1>9, <2>0 DEF RenameRpc
  <2>2. store'[p] = NoFile /\ p # q /\ \A r \in Path \ {p, q} : store'[r] = store[r]
    BY <2>1 DEF Move
  <2>3. Shown' = [r \in Shared!Promised \ {q} |-> IF r = p THEN NoFile ELSE Shown[r]]
    BY <2>1, <2>2 DEF Shown, Exists, Shared!Promised
  <2>4. Shared!Rename(p, q)
    BY <1>6, <1>7, <2>2, <2>3 DEF Shared!Rename
  <2> QED
    BY <2>4 DEF Shared!Next
<1> QED
  BY <1>8, <1>9

\* An upload left behind is published, or an empty file.
LEMMA StrayShows ==
  ASSUME Sharing, BInv, KInv, EInv, StrayPut
  PROVE  [Shared!Next]_Shared!vars
<1> USE BParts DEF BInv
<1>1. PICK x \in strays : \E d \in {x.data, EmptyData}, m \in x.began..now :
        /\ Publish(x.path, d, m)
        /\ Remember
        /\ strays' = strays \ {x}
        /\ UNCHANGED <<client, sess, told, lastEnd>>
  BY DEF StrayPut
<1>2. PICK d \in {x.data, EmptyData}, m \in x.began..now :
        Publish(x.path, d, m) /\ strays' = strays \ {x} /\ UNCHANGED <<sess, moved, temp, dirty>>
  BY <1>1 DEF client, told
<1>3. PICK p \in Path : p = x.path /\ x.data \in Data /\ x.began \in Times
  OBVIOUS
<1>4. strays = {x} /\ strays' = {}
  BY <1>2 DEF EInv
<1>5. /\ store'[p] # NoFile /\ store'[p].data = d
      /\ \A q \in Path \ {p} : store'[q] = store[q]
  <2>1. store'[p] = [data |-> d, mtime |-> m] /\ \A q \in Path \ {p} : store'[q] = store[q]
    BY <1>2, <1>3 DEF Publish
  <2>2. m \in Nat /\ d \in Data
    <3>1. x.began \in Nat /\ now \in Nat
      BY <1>3, Clocked, Clock
    <3> QED
      BY <1>2, <1>3, <3>1, FileStoreAssumption
  <2> QED
    BY <2>1, <2>2, FileStoreAssumption
<1>6. View' = View
  BY <1>2 DEF View, Works
<1>7. Late' = {}
  BY <1>4 DEF Late
<1>8. CASE p \in moved
  <2>1. Late = {}
    BY <1>3, <1>4, <1>8 DEF Late
  <2>2. Shown' = Shown
    BY <1>2, <1>5, <1>8 DEF Shown, Exists
  <2> QED
    BY <1>6, <1>7, <2>1, <2>2 DEF Shared!vars
<1>9. CASE p \notin moved
  <2> DEFINE r == [path |-> p, data |-> x.data]
  <2>1. Late = {r}
    BY <1>3, <1>4, <1>9 DEF Late
  <2>2. Shown' = [Shown EXCEPT ![p] = d]
    BY <1>2, <1>5, <1>9 DEF Shown, Exists
  <2>3. r.path = p /\ r.data = x.data
    OBVIOUS
  <2> HIDE DEF r
  <2>4. Shared!CloseLate(r)
    BY <1>2, <1>6, <1>7, <1>9, <2>1, <2>2, <2>3, ShownOf DEF Shared!CloseLate
  <2> QED
    BY <2>1, <2>4 DEF Shared!Next
<1> QED
  BY <1>8, <1>9

\* A client dies: what its processes have open is gone, but for an upload
\* that has begun.
LEMMA RestartShows ==
  ASSUME Sharing, BInv, SInv, KInv, NEW c \in Client, Restart(c)
  PROVE  [Shared!Next]_Shared!vars
<1> USE BParts DEF BInv
<1> DEFINE S == {t \in Thread : ClientOf[t] = c}
           cut == {t \in Thread : ClientOf[t] = c /\ sess[t].pc = "put"}
           lost(T) == {[path |-> View[t].path, data |-> View[t].data] : t \in T}
<1>1. /\ UNCHANGED <<store, moved>>
      /\ \A b \in Client : b # c => temp'[b] = temp[b] /\ dirty'[b] = dirty[b]
      /\ \A t \in Thread : sess'[t] = IF ClientOf[t] = c THEN Rest ELSE sess[t]
      /\ strays' = strays \cup {Stray(sess[t]) : t \in cut}
  BY DEF Restart, server, told, Temps
<1>2. View' = [t \in Thread |-> IF t \in S THEN Shared!Closed ELSE View[t]]
  <2>1. ASSUME NEW t \in Thread PROVE View'[t] = IF t \in S THEN Shared!Closed ELSE View[t]
    <3>1. CASE t \in S
      <4>1. ~Works(sess[t])'
        BY <1>1, <3>1 DEF Works, Rest
      <4> QED
        BY <3>1, <4>1, ViewOf
    <3>2. CASE t \notin S
      <4>1. Works(sess[t])' <=> Works(sess[t])
        BY <1>1, <3>2 DEF Works
      <4>2. Seen(t)' = Seen(t)
        BY <1>1, <3>2 DEF Seen
      <4> QED
        BY <3>2, <4>1, <4>2, ViewOf
    <3> QED
      BY <3>1, <3>2
  <2>2. View' = [t \in Thread |-> View'[t]]
    BY DEF View
  <2> QED
    BY <2>1, <2>2
<1>3. Shown' = Shown
  BY <1>1 DEF Shown, Exists
<1>4. \E T \in SUBSET {t \in S : View[t].wrote} : Late' = Late \cup lost(T)
  <2>1. CASE cut = {}
    <3>1. Late' = Late \cup lost({})
      BY <1>1, <2>1 DEF Late
    <3> QED
      BY <3>1
  <2>2. CASE cut # {}
    <3>1. PICK t \in Thread : t \in cut
      BY <2>2
    <3>2. /\ KnowsFile(c, sess[t]) /\ KnowsCopy(c, sess[t]) /\ Active(t) /\ strays = {}
          /\ sess[t].path \in Path /\ sess[t].pc = "put" /\ ClientOf[t] = c
      BY <3>1, KParts, Busy DEF Active
    <3>3. strays' = {Stray(sess[t])} /\ Late = {}
      <4>1. cut = {t}
        BY <3>1 DEF Sharing
      <4> QED
        BY <1>1, <3>2, <4>1 DEF Late
    <3>4. CASE sess[t].path \in moved
      <4>1. Late' = {}
        BY <1>1, <3>3, <3>4 DEF Late, Stray
      <4>2. Late' = Late \cup lost({})
        BY <3>3, <4>1
      <4> QED
        BY <4>2
    <3>5. CASE sess[t].path \notin moved
      <4>1. sess[t].path \in dirty[c] /\ temp[c][sess[t].path].data = sess[t].buf
        BY <3>2, Solo DEF KnowsFile, KnowsCopy, Closing, Owner
      <4>2. Works(sess[t])
        BY <3>2, <3>5 DEF Works
      <4>3. View[t] = [path |-> sess[t].path, data |-> sess[t].buf, wrote |-> TRUE]
        BY <3>2, <4>1, <4>2, ViewOf DEF Seen
      <4>4. View[t].path = sess[t].path /\ View[t].data = sess[t].buf /\ View[t].wrote
        BY <4>3
      <4>5. Late' = {[path |-> sess[t].path, data |-> sess[t].buf]}
        <5>1. PICK y : y = Stray(sess[t])
          OBVIOUS
        <5>2. y.path = sess[t].path /\ y.data = sess[t].buf
          BY <5>1 DEF Stray
        <5>3. Late' = {[path |-> y.path, data |-> y.data]}
          <6>1. strays' = {y} /\ y.path \notin moved'
            BY <1>1, <3>3, <3>5, <5>1, <5>2
          <6> QED
            BY <6>1 DEF Late
        <5> QED
          BY <5>2, <5>3
      <4>6. Late' = Late \cup lost({t})
        BY <3>3, <4>4, <4>5
      <4>7. {t} \in SUBSET {u \in S : View[u].wrote}
        BY <3>2, <4>4
      <4> QED
        BY <4>6, <4>7
    <3> QED
      BY <3>4, <3>5
  <2> QED
    BY <2>1, <2>2
<1>5. Shared!Crash(S)
  BY <1>2, <1>3, <1>4 DEF Shared!Crash
<1>6. S \in SUBSET Thread
  OBVIOUS
<1> HIDE DEF S
<1> QED
  BY <1>5, <1>6 DEF Shared!Next

\* Every step of the clients is one of SharedFiles, or shows nothing.
LEMMA NextShows ==
  ASSUME Sharing, BInv, SInv, KInv, EInv, [BNext]_allvars
  PROVE  [Shared!Next]_Shared!vars
<1>1. CASE UNCHANGED allvars \/ Second
  <2>1. UNCHANGED <<store, temp, dirty, sess, strays, moved>>
    BY <1>1 DEF allvars, Second, Tick, told, client
  <2>2. View' = View
    BY <2>1 DEF View, Works
  <2> QED
    BY <2>1, <2>2, SameFiles DEF Shared!vars
<1>2. CASE StrayPut \/ \E c \in Client : Restart(c)
  BY <1>2, StrayShows, RestartShows
<1>3. CASE \E t \in Thread, p \in Path :
             \/ \E mode \in {"r", "w"}, creat \in {"none", "create", "trunc"} :
                  Open(t, p, mode, creat)
             \/ Truncate(t, p) \/ Unlink(t, p)
             \/ \E q \in Path : Rename(t, p, q)
  BY <1>3, BeginShows, TruncateShows
<1>4. CASE \E t \in Thread :
             \/ GetAttr(t) \/ Check(t) \/ Fetch(t) \/ Clear(t) \/ Fill(t)
             \/ MakeLocal(t) \/ MakeDirty(t) \/ AskServer(t) \/ MakeOnServer(t) \/ OpenTemp(t)
  BY <1>4, LookShows, MakeShows, OpenTempShows
<1>5. CASE \E t \in Thread :
             \/ Write(t) \/ Mark(t)
             \/ Flush(t) \/ Send(t) \/ PutFile(t) \/ Reply(t) \/ Commit(t) \/ Stamp(t) \/ Clean(t)
             \/ UnlinkRpc(t) \/ RenameRpc(t)
  BY <1>5, WriteShows, FlushShows, PutFileShows, CommitShows, PathRpcShows
<1> QED
  BY <1>1, <1>2, <1>3, <1>4, <1>5 DEF BNext

\* At the start there are no files and no sessions.
LEMMA InitShows == BInit => Shared!Init /\ EInv
<1> SUFFICES ASSUME BInit PROVE Shared!Init /\ EInv
  OBVIOUS
<1>1. /\ store = [p \in Path |-> NoFile] /\ moved = {} /\ strays = {}
      /\ \A t \in Thread : sess[t].pc = "idle"
  BY DEF BInit, Init, Rest
<1>2. Shown = [p \in Path |-> NoFile] /\ Late = {}
  BY <1>1 DEF Shown, Late, Exists
<1>3. View = [t \in Thread |-> Shared!Closed]
  <2>1. \A t \in Thread : ~Works(sess[t])
    BY <1>1 DEF Works
  <2> QED
    BY <2>1 DEF View, Shared!Closed
<1>4. EInv
  BY <1>1 DEF EInv, Begun
<1> QED
  BY <1>2, <1>3, <1>4 DEF Shared!Init

\* The whole of close-to-open consistency, for any number of clients and files:
\* where processes take turns, sessions look as if an open were one step
\* that reads the file and a close one step that replaces it by what its
\* process made of it.
THEOREM SessionsLookAtomic ==
  ASSUME Sharing
  PROVE  BSpec => SharesFiles
<1>1. BInit => KInv /\ EInv /\ Shared!Init
  BY KInvInit, InitShows
<1>2. KInv /\ EInv /\ (BInv /\ SInv) /\ [BNext]_allvars => KInv' /\ EInv' /\ [Shared!Next]_Shared!vars
  BY KInvNext, EInvNext, NextShows
<1>3. BSpec => [](BInv /\ SInv)
  BY TurnsInvariance DEF Sharing
<1> QED
  BY <1>1, <1>2, <1>3, PTL DEF BSpec, SharesFiles, Shared!Spec
=============================================================================
