--------------------------- MODULE BnfsLastWriter ---------------------------
(***************************************************************************)
(* Last writer wins: a close publishes what its own process wrote, never a *)
(* content that the file had before.  Every content that waits to be       *)
(* uploaded belongs to one session, and the server has never shown it.     *)
(***************************************************************************)
EXTENDS BnfsProofs

\* One process on each client, a network that loses nothing, and no operation
\* on paths.
Solitary ==
  /\ \A t, u \in Thread : ClientOf[t] = ClientOf[u] => t = u
  /\ ~Lossy
  /\ Ops \subseteq {"restart"}

Owing == {"ask", "make", "open", "opened", "mark", "send", "put", "stat", "commit", "stamp", "clean"}

\* A dirty mark belongs to a session that has not closed its file yet.
Owner(t, c, p) ==
  /\ ClientOf[t] = c /\ sess[t].path = p
  /\ HasTemp(c, p)
  /\ sess[t].pc \in Owing

\* A session whose copy may still be uploaded, and the content of that copy.
Held(t) ==
  \/ sess[t].pc \in {"mkDirty", "ask", "make", "mark", "send", "put"}
  \/ sess[t].pc \in {"open", "opened"} /\ sess[t].path \in dirty[ClientOf[t]]

Mine(t) == temp[ClientOf[t]][sess[t].path].data

\* Contents are numbered in the order in which they are written.
Bounded ==
  /\ \A p \in Path : \A d \in ever[p] : d <= wrote
  /\ \A c \in Client, p \in Path : HasTemp(c, p) => temp[c][p].data <= wrote
  /\ \A t \in Thread : sess[t].buf <= wrote
  /\ \A x \in strays : x.data <= wrote

StoreSeen == \A p \in Path : Exists(p) => store[p].data \in ever[p]

Knows(c, s) ==
  /\ s.pc \notin {"rm", "mv"}
  /\ s.pc \in {"mkDirty", "ask", "make"} => HasTemp(c, s.path)
  /\ s.pc \in {"fill", "opened", "mark", "send"} => s.at = s.path
  /\ s.pc = "put" => HasTemp(c, s.path) /\ temp[c][s.path].data = s.buf
  /\ s.pc = "stat" => Exists(s.path)

Unseen(t) ==
  Held(t) /\ Mine(t) # EmptyData =>
    /\ \A p \in Path : Mine(t) \notin ever[p]
    /\ \A x \in strays : x.data # Mine(t)

Differ(t, u) == Held(t) /\ Held(u) /\ Mine(t) # EmptyData => Mine(t) # Mine(u)

NInv ==
  /\ Bounded /\ StoreSeen
  /\ \A t \in Thread : Knows(ClientOf[t], sess[t])
  /\ \A c \in Client : \A p \in dirty[c] : \E t \in Thread : Owner(t, c, p)
  /\ \A t \in Thread : Unseen(t)
  /\ \A t, u \in Thread : t # u => Differ(t, u)

----------------------------------------------------------------------------
(* A step of one process                                                   *)

\* What the invariant says of one process: only its own file is dirty.
LEMMA NParts ==
  ASSUME Solitary, NInv, NEW t \in Thread, ClientOf[t] \in Client
  PROVE  /\ Knows(ClientOf[t], sess[t]) /\ Unseen(t)
         /\ \A p \in dirty[ClientOf[t]] :
              sess[t].path = p /\ HasTemp(ClientOf[t], p) /\ sess[t].pc \in Owing
BY DEF NInv, Owner, Solitary

\* A step of t leaves the sessions, the copies and the marks of the others.
Own(t) ==
  /\ \A u \in Thread \ {t} : sess'[u] = sess[u]
  /\ \A b \in Client \ {ClientOf[t]} : temp'[b] = temp[b] /\ dirty'[b] = dirty[b]

\* After it what is dirty of its client is its own file.
Marks(t) ==
  \A p \in dirty'[ClientOf[t]] : /\ sess'[t].path = p /\ sess'[t].pc \in Owing
                                 /\ temp'[ClientOf[t]][p] # NoFile

\* Files stay on the server, and its history is that of its files.
ServerOn ==
  /\ \A p \in Path : Exists(p) => store'[p] # NoFile
  /\ StoreSeen'

\* One process takes a step: it is enough to look at its own session, and at
\* what the step shows of the contents of the others.
LEMMA OwnStep ==
  ASSUME Solitary, BInv, NInv, NEW t \in Thread, Own(t), ServerOn, Bounded', Marks(t),
         Knows(ClientOf[t], sess[t])', Unseen(t)',
         \A u \in Thread \ {t} : Held(u) /\ Mine(u) # EmptyData =>
           /\ \A p \in Path : Mine(u) \notin ever'[p]
           /\ \A x \in strays' : x.data # Mine(u)
           /\ Held(t)' => Mine(t)' # Mine(u)
  PROVE  NInv'
<1> USE BParts DEF BInv
<1>1. ASSUME NEW u \in Thread \ {t}
      PROVE  /\ sess'[u] = sess[u] /\ ClientOf[u] \in Client \ {ClientOf[t]}
             /\ temp'[ClientOf[u]] = temp[ClientOf[u]] /\ dirty'[ClientOf[u]] = dirty[ClientOf[u]]
             /\ Held(u)' <=> Held(u)
             /\ Mine(u)' = Mine(u)
  <2>1. ClientOf[u] \in Client \ {ClientOf[t]}
    BY DEF Solitary
  <2> QED
    BY <2>1 DEF Own, Held, Mine
<1>2. ASSUME NEW u \in Thread PROVE Knows(ClientOf[u], sess[u])'
  <2>1. CASE u = t
    BY <2>1
  <2>2. CASE u # t
    <3>1. Knows(ClientOf[u], sess[u]) /\ sess'[u] = sess[u] /\ temp'[ClientOf[u]] = temp[ClientOf[u]]
      BY <1>1, <2>2 DEF NInv
    <3>2. sess[u].pc = "stat" => sess[u].path \in Path
      BY Busy
    <3> QED
      BY <3>1, <3>2 DEF Knows, HasTemp, ServerOn, Exists
  <2> QED
    BY <2>1, <2>2
<1>3. ASSUME NEW b \in Client, NEW p \in dirty'[b] PROVE \E u \in Thread : Owner(u, b, p)'
  <2>1. CASE b = ClientOf[t]
    BY <2>1 DEF Marks, Owner, HasTemp
  <2>2. CASE b # ClientOf[t]
    <3>1. temp'[b] = temp[b] /\ dirty'[b] = dirty[b]
      BY <2>2 DEF Own
    <3>2. PICK u \in Thread : Owner(u, b, p)
      BY <3>1 DEF NInv
    <3>3. sess'[u] = sess[u]
      BY <2>2, <3>2 DEF Own, Owner
    <3> QED
      BY <3>1, <3>2, <3>3 DEF Owner, HasTemp
  <2> QED
    BY <2>1, <2>2
<1>4. ASSUME NEW u \in Thread PROVE Unseen(u)'
  <2>1. CASE u = t
    BY <2>1
  <2>2. CASE u # t
    BY <1>1, <2>2 DEF Unseen
  <2> QED
    BY <2>1, <2>2
<1>5. ASSUME NEW u \in Thread, NEW v \in Thread, u # v PROVE Differ(u, v)'
  <2>1. CASE u # t /\ v # t
    <3>1. Differ(u, v)
      BY <1>5 DEF NInv
    <3> QED
      BY <1>1, <2>1, <3>1 DEF Differ
  <2>2. CASE u = t \/ v = t
    BY <1>1, <1>5, <2>2 DEF Differ
  <2> QED
    BY <2>1, <2>2
<1> QED
  BY <1>2, <1>3, <1>4, <1>5 DEF NInv, ServerOn

\* The server does not change, and nothing is written: what the process holds
\* afterwards it held before, or it is empty.
LEMMA QuietStep ==
  ASSUME Solitary, BInv, NInv, NEW t \in Thread, Own(t),
         UNCHANGED <<store, ever, strays, wrote>>, Bounded', Marks(t),
         Knows(ClientOf[t], sess[t])',
         Held(t)' => Mine(t)' = EmptyData \/ (Held(t) /\ Mine(t)' = Mine(t))
  PROVE  NInv'
<1> USE BParts DEF BInv
<1>1. ServerOn
  BY DEF NInv, ServerOn, StoreSeen, Exists
<1>2. Unseen(t)'
  BY DEF NInv, Unseen
<1>3. ASSUME NEW u \in Thread \ {t}, Held(u), Mine(u) # EmptyData
      PROVE  /\ \A p \in Path : Mine(u) \notin ever'[p]
             /\ \A x \in strays' : x.data # Mine(u)
             /\ Held(t)' => Mine(t)' # Mine(u)
  <2>1. Unseen(u) /\ Differ(u, t)
    BY DEF NInv
  <2> QED
    BY <1>3, <2>1 DEF Unseen, Differ
<1> QED
  BY <1>1, <1>2, <1>3, OwnStep

\* No content is written and no copy changes: the bounds stay.
LEMMA KeepsBounds ==
  ASSUME BInv, NInv, UNCHANGED <<ever, strays, wrote, temp>>, NEW t \in Thread,
         \A u \in Thread \ {t} : sess'[u] = sess[u], sess'[t].buf <= wrote
  PROVE  Bounded'
BY DEF NInv, Bounded, HasTemp

\* A copy gets a content that was written.
LEMMA CopyBounds ==
  ASSUME BInv, NInv, UNCHANGED <<ever, strays, wrote>>, NEW t \in Thread, NEW p \in Path,
         NEW d, NEW m, Local(ClientOf[t], p, d, m), d <= wrote,
         \A u \in Thread \ {t} : sess'[u] = sess[u], sess'[t].buf <= wrote
  PROVE  Bounded' /\ temp'[ClientOf[t]][p].data = d
<1> USE BParts DEF BInv
<1>1. temp'[ClientOf[t]][p].data = d
  BY DEF Local, Temps
<1>2. \A c \in Client, q \in Path : temp'[c][q] = temp[c][q] \/ temp'[c][q].data = d
  BY DEF Local, Temps
<1> QED
  BY <1>1, <1>2 DEF NInv, Bounded, HasTemp

\* A step that changes no copy: what is held afterwards was held before.
LEMMA MoveOn ==
  ASSUME Solitary, BInv, NInv, NEW t \in Thread, UNCHANGED <<store, ever, strays, wrote, temp>>,
         \A u \in Thread \ {t} : sess'[u] = sess[u],
         \A b \in Client \ {ClientOf[t]} : dirty'[b] = dirty[b],
         sess'[t].buf <= wrote, Marks(t), Knows(ClientOf[t], sess[t])',
         Held(t)' => Held(t) /\ sess'[t].path = sess[t].path
  PROVE  NInv'
<1>1. Own(t)
  BY DEF Own
<1>2. Bounded'
  BY KeepsBounds
<1>3. Held(t)' => Held(t) /\ Mine(t)' = Mine(t)
  BY DEF Mine
<1> QED
  BY <1>1, <1>2, <1>3, QuietStep

\* A call that ends leaves nothing dirty on its client.
LEMMA EndOn ==
  ASSUME Solitary, BInv, NInv, NEW t \in Thread, UNCHANGED <<store, ever, strays, wrote, temp>>,
         Done(t), dirty'[ClientOf[t]] = {},
         \A b \in Client \ {ClientOf[t]} : dirty'[b] = dirty[b]
  PROVE  NInv'
<1>1. sess'[t] = Rest /\ \A u \in Thread \ {t} : sess'[u] = sess[u]
  BY BParts DEF Done, BInv
<1>2. Rest.pc = "idle" /\ Rest.buf = EmptyData
  BY DEF Rest
<1>3. EmptyData <= wrote
  BY BParts, BnfsAssumption DEF BInv
<1> QED
  BY <1>1, <1>2, <1>3, MoveOn DEF Marks, Knows, Held

\* An open begins with nothing dirty on its client.
LEMMA OpenOn ==
  ASSUME Solitary, BInv, NInv, NEW t \in Thread, NEW p \in Path, NEW mode \in {"r", "w"},
         NEW creat \in {"none", "create", "trunc"}, Open(t, p, mode, creat)
  PROVE  NInv'
<1> USE BParts DEF BInv
<1> DEFINE r == [Rest EXCEPT !.pc = "attr", !.mode = mode, !.path = p, !.creat = creat]
<1>1. r.pc = "attr" /\ r.buf = EmptyData
  BY DEF Rest
<1>2. /\ sess[t].pc = "idle" /\ sess' = [sess EXCEPT ![t] = r]
      /\ UNCHANGED <<store, ever, strays, wrote, temp, dirty>>
  BY DEF Open, server, client, told
<1> HIDE DEF r
<1>3. sess'[t] = r /\ \A u \in Thread \ {t} : sess'[u] = sess[u]
  BY <1>2
<1>4. dirty[ClientOf[t]] = {}
  BY <1>2, NParts DEF Owing
<1>5. EmptyData <= wrote
  BY BnfsAssumption
<1> QED
  BY <1>1, <1>2, <1>3, <1>4, <1>5, MoveOn DEF Marks, Knows, Held

\* The steps that look for a file: nothing is held until a mark is set.
LEMMA LookOn ==
  ASSUME Solitary, BInv, NInv, NEW t \in Thread,
         GetAttr(t) \/ Check(t) \/ Fetch(t) \/ AskServer(t)
  PROVE  NInv'
<1> USE BParts DEF BInv
<1> DEFINE s == sess[t]  c == ClientOf[t]
<1>0. PICK p \in Path : p = sess[t].path
  BY Busy DEF GetAttr, Check, Fetch, AskServer
<1>1. s \in Session /\ c \in Client /\ Knows(c, s) /\ s.buf <= wrote /\ ~Lossy
      /\ \A q \in dirty[c] : p = q /\ HasTemp(c, q) /\ s.pc \in Owing
  BY <1>0, NParts DEF NInv, Bounded, Solitary
<1>2. UNCHANGED <<store, ever, strays, wrote, temp, dirty>>
  BY DEF GetAttr, Check, Fetch, AskServer, server, client, told
<1>3. ASSUME NEW l \in {"check", "mkLocal", "fetch", "open", "clear"}, dirty[c] = {},
             sess'[t].pc = l, sess'[t].buf <= wrote, \A u \in Thread \ {t} : sess'[u] = sess[u]
      PROVE  NInv'
  BY <1>1, <1>2, <1>3, MoveOn DEF Marks, Knows, Held
<1>4. CASE GetAttr(t)
  <2>1. dirty[c] = {} /\ s.pc = "attr"
    BY <1>1, <1>4 DEF GetAttr, Owing
  <2>2. sess'[t].pc \in {"check", "mkLocal"} /\ sess'[t].buf = s.buf
        /\ \A u \in Thread \ {t} : sess'[u] = sess[u]
    BY <1>1, <1>4 DEF GetAttr, Goto, Session
  <2> QED
    BY <1>1, <1>3, <2>1, <2>2
<1>5. CASE Check(t)
  <2>1. dirty[c] = {} /\ s.pc = "check"
    BY <1>1, <1>5 DEF Check, Owing
  <2>2. sess'[t].pc \in {"fetch", "open"} /\ sess'[t].buf = s.buf
        /\ \A u \in Thread \ {t} : sess'[u] = sess[u]
    BY <1>1, <1>5 DEF Check, Session
  <2> QED
    BY <1>1, <1>3, <2>1, <2>2
<1>6. CASE Fetch(t)
  <2>1. dirty[c] = {} /\ s.pc = "fetch"
    BY <1>1, <1>6 DEF Fetch, Owing
  <2>2. PICK d : d = IF Exists(p) THEN Arrived(store[p].data) ELSE EmptyData
    OBVIOUS
  <2>3. d <= wrote
    <3>1. Exists(p) => store[p].data <= wrote
      BY DEF NInv, StoreSeen, Bounded
    <3>2. EmptyData <= wrote
      BY BnfsAssumption
    <3> QED
      BY <2>2, <3>1, <3>2 DEF Arrived
  <2>4. sess' = [sess EXCEPT ![t].pc = "clear", ![t].buf = d]
    BY <1>0, <1>1, <1>6, <2>2 DEF Fetch
  <2>5. sess'[t].pc = "clear" /\ sess'[t].buf = d /\ \A u \in Thread \ {t} : sess'[u] = sess[u]
    BY <1>1, <2>4 DEF Session
  <2> QED
    BY <1>3, <2>1, <2>3, <2>5
<1>7. CASE AskServer(t)
  <2>1. s.pc = "ask" /\ HasTemp(c, p)
    BY <1>0, <1>1, <1>7 DEF AskServer, Knows
  <2>2. /\ sess'[t].pc \in {"open", "make"} /\ sess'[t].buf = s.buf /\ sess'[t].path = p
        /\ \A u \in Thread \ {t} : sess'[u] = sess[u]
    BY <1>0, <1>1, <1>7 DEF AskServer, Goto, Session
  <2>3. Marks(t)
    BY <1>1, <1>2, <2>2 DEF Marks, Owing, HasTemp
  <2>4. Knows(c, sess[t])'
    BY <1>2, <2>1, <2>2 DEF Knows, HasTemp
  <2>5. Held(t)
    BY <2>1 DEF Held
  <2> QED
    BY <1>0, <1>1, <1>2, <2>2, <2>3, <2>4, <2>5, MoveOn
<1> QED
  BY <1>4, <1>5, <1>6, <1>7

\* The steps that set a mark: its copy is held already.
LEMMA MarkOn ==
  ASSUME Solitary, BInv, NInv, NEW t \in Thread, MakeDirty(t) \/ Mark(t)
  PROVE  NInv'
<1> USE BParts DEF BInv
<1> DEFINE s == sess[t]  c == ClientOf[t]
<1>0. PICK p \in Path : p = sess[t].path
  BY Busy DEF MakeDirty, Mark
<1>1. s \in Session /\ c \in Client /\ Knows(c, s) /\ s.buf <= wrote
      /\ \A q \in dirty[c] : p = q /\ HasTemp(c, q) /\ s.pc \in Owing
  BY <1>0, NParts DEF NInv, Bounded
<1>2. UNCHANGED <<store, ever, strays, wrote, temp>> /\ s.pc \in {"mkDirty", "mark"}
  BY DEF MakeDirty, Mark, server, told
<1>3. HasTemp(c, p)
  BY <1>0, <1>1, <1>2, BnfsAssumption DEF Knows, Linked
<1>4. /\ sess'[t].pc \in {"ask", "opened"} /\ sess'[t].buf = s.buf /\ sess'[t].path = p
      /\ sess'[t].pc = "opened" => sess'[t].at = p
      /\ \A u \in Thread \ {t} : sess'[u] = sess[u]
  BY <1>0, <1>1 DEF MakeDirty, Mark, Goto, Session, Knows
<1>5. dirty' = [dirty EXCEPT ![c] = @ \cup {p}]
  BY <1>0 DEF MakeDirty, Mark
<1>6. Marks(t)
  BY <1>1, <1>2, <1>3, <1>4, <1>5 DEF Marks, Owing, HasTemp
<1>7. Knows(c, sess[t])'
  BY <1>2, <1>3, <1>4 DEF Knows, HasTemp
<1>8. Held(t)
  BY <1>2 DEF Held
<1>9. \A b \in Client \ {c} : dirty'[b] = dirty[b]
  BY <1>5
<1> QED
  BY <1>0, <1>1, <1>2, <1>4, <1>6, <1>7, <1>8, <1>9, MoveOn

\* Close: what is sent is the copy that was held; the mark goes at the end.
LEMMA CloseOn ==
  ASSUME Solitary, BInv, NInv, NEW t \in Thread,
         Flush(t) \/ Send(t) \/ Reply(t) \/ Commit(t) \/ Clean(t)
  PROVE  NInv'
<1> USE BParts DEF BInv
<1> DEFINE s == sess[t]  c == ClientOf[t]
<1>0. PICK p \in Path : p = sess[t].path
  BY Busy DEF Flush, Send, Reply, Commit, Clean
<1>1. s \in Session /\ c \in Client /\ Knows(c, s) /\ s.buf <= wrote /\ ~Lossy
      /\ (HasTemp(c, p) => temp[c][p].data <= wrote)
      /\ \A q \in dirty[c] : p = q /\ HasTemp(c, q) /\ s.pc \in Owing
  BY <1>0, NParts DEF NInv, Bounded, Solitary
<1>2. UNCHANGED <<store, ever, strays, wrote>>
  BY DEF Flush, Send, Reply, Commit, Clean, server, told
<1>3. CASE Flush(t)
  <2>1. s.pc = "opened" /\ HasTemp(c, p) /\ UNCHANGED <<temp, dirty>>
    BY <1>0, <1>1, <1>3, BnfsAssumption DEF Flush, client, Knows, Linked
  <2>2. CASE p \in dirty[c]
    <3>1. sess' = [sess EXCEPT ![t].pc = "send", ![t].at = p, ![t].buf = temp[c][p].data]
      BY <1>0, <1>3, <2>1, <2>2 DEF Flush
    <3>2. /\ sess'[t].pc = "send" /\ sess'[t].at = p /\ sess'[t].path = p
          /\ sess'[t].buf = temp[c][p].data
          /\ \A u \in Thread \ {t} : sess'[u] = sess[u]
      BY <1>0, <1>1, <3>1 DEF Session
    <3>3. Marks(t) /\ Knows(c, sess[t])'
      BY <1>1, <2>1, <3>2 DEF Marks, Owing, HasTemp, Knows
    <3>4. Held(t)
      BY <1>0, <2>1, <2>2 DEF Held
    <3> QED
      BY <1>0, <1>1, <1>2, <2>1, <3>2, <3>3, <3>4, MoveOn
  <2>3. CASE p \notin dirty[c]
    <3>1. dirty[c] = {} /\ Done(t)
      BY <1>0, <1>1, <1>3, <2>3 DEF Flush
    <3> QED
      BY <1>2, <2>1, <3>1, EndOn
  <2> QED
    BY <2>2, <2>3
<1>4. CASE Send(t)
  <2>1. s.pc = "send" /\ s.at = p /\ p # NoPath /\ HasTemp(c, p)
    BY <1>0, <1>1, <1>4, BnfsAssumption DEF Send, Knows, Linked
  <2>2. /\ sess' = [sess EXCEPT ![t].pc = "put", ![t].began = now, ![t].buf = temp[c][p].data]
        /\ UNCHANGED <<temp, dirty>>
    BY <1>1, <1>4, <2>1 DEF Send
  <2>3. /\ sess'[t].pc = "put" /\ sess'[t].path = p /\ sess'[t].buf = temp[c][p].data
        /\ \A u \in Thread \ {t} : sess'[u] = sess[u]
    BY <1>0, <1>1, <2>2 DEF Session
  <2>4. Marks(t) /\ Knows(c, sess[t])'
    BY <1>1, <2>1, <2>2, <2>3 DEF Marks, Owing, HasTemp, Knows
  <2>5. Held(t)
    BY <2>1 DEF Held
  <2> QED
    BY <1>0, <1>1, <1>2, <2>1, <2>2, <2>3, <2>4, <2>5, MoveOn
<1>5. ASSUME NEW l \in {"commit", "stamp"}, sess'[t].pc = l, sess'[t].path = p,
             sess'[t].buf = s.buf, \A u \in Thread \ {t} : sess'[u] = sess[u],
             UNCHANGED <<temp, dirty>>
      PROVE  NInv'
  <2>1. Marks(t) /\ Knows(c, sess[t])' /\ ~Held(t)'
    BY <1>1, <1>5 DEF Marks, Owing, HasTemp, Knows, Held
  <2> QED
    BY <1>1, <1>2, <1>5, <2>1, MoveOn
<1>6. CASE Reply(t)
  <2>1. Exists(p)
    BY <1>0, <1>1, <1>6 DEF Reply, Knows
  <2>2. sess' = [sess EXCEPT ![t].pc = "commit", ![t].srv = store[p].mtime]
    BY <1>0, <1>1, <1>6, <2>1 DEF Reply
  <2>3. /\ sess'[t].pc = "commit" /\ sess'[t].path = p /\ sess'[t].buf = s.buf
        /\ \A u \in Thread \ {t} : sess'[u] = sess[u]
    BY <1>0, <1>1, <2>2 DEF Session
  <2> QED
    BY <1>5, <1>6, <2>3 DEF Reply, client
<1>7. CASE Commit(t)
  <2>1. CASE HasTemp(c, p)
    <3>1. /\ sess'[t].pc = "stamp" /\ sess'[t].path = p /\ sess'[t].buf = s.buf
          /\ \A u \in Thread \ {t} : sess'[u] = sess[u]
      BY <1>0, <1>1, <1>7, <2>1 DEF Commit, Goto, Session
    <3> QED
      BY <1>5, <1>7, <3>1 DEF Commit
  <2>2. CASE ~HasTemp(c, p)
    <3>1. dirty[c] = {} /\ Done(t) /\ UNCHANGED <<temp, dirty>>
      BY <1>0, <1>1, <1>7, <2>2 DEF Commit
    <3> QED
      BY <1>2, <3>1, EndOn
  <2> QED
    BY <2>1, <2>2
<1>8. CASE Clean(t)
  <2>1. Done(t) /\ temp' = temp /\ dirty' = [dirty EXCEPT ![c] = @ \ {p}]
    BY <1>0, <1>8 DEF Clean
  <2>2. dirty'[c] = {} /\ \A b \in Client \ {c} : dirty'[b] = dirty[b]
    BY <1>1, <2>1
  <2> QED
    BY <1>2, <2>1, <2>2, EndOn
<1> QED
  BY <1>3, <1>4, <1>6, <1>7, <1>8

----------------------------------------------------------------------------
(* Steps that change a copy                                                *)

\* A copy gets a content that was written before: what is held of it is empty
\* or was held.
LEMMA CopyOn ==
  ASSUME Solitary, BInv, NInv, NEW t \in Thread, NEW p \in Path, NEW d \in Data,
         NEW m \in Times \cup Garbage, Local(ClientOf[t], p, d, m),
         UNCHANGED <<store, ever, strays, wrote, dirty>>,
         \A u \in Thread \ {t} : sess'[u] = sess[u],
         p = sess[t].path, d <= wrote, sess'[t].buf <= wrote, sess'[t].path = p,
         sess'[t].pc \in {"fill", "open", "mkDirty", "opened", "clean"},
         sess'[t].pc \in {"fill", "opened"} => sess'[t].at = p,
         dirty[ClientOf[t]] = {} \/ sess'[t].pc \in Owing,
         Held(t)' => d = EmptyData
  PROVE  NInv'
<1> USE BParts DEF BInv
<1> DEFINE c == ClientOf[t]
<1>1. Bounded' /\ temp'[c][p].data = d
  BY CopyBounds
<1>2. temp'[c][p] # NoFile /\ \A b \in Client, q \in Path : HasTemp(b, q) => temp'[b][q] # NoFile
  BY LocalGrows DEF HasTemp
<1>3. Own(t)
  BY DEF Own, Local
<1>4. Marks(t)
  <2>1. \A q \in dirty[c] : p = q /\ HasTemp(c, q)
    BY NParts
  <2> QED
    BY <1>2, <2>1 DEF Marks
<1>5. Knows(c, sess[t])'
  BY <1>2 DEF Knows, HasTemp
<1>6. Held(t)' => Mine(t)' = EmptyData
  BY <1>1 DEF Mine
<1> QED
  BY <1>1, <1>3, <1>4, <1>5, <1>6, QuietStep

\* A fetch, a new file and the stamp of a file that was uploaded.
LEMMA FillOn ==
  ASSUME Solitary, BInv, NInv, NEW t \in Thread, Clear(t) \/ Fill(t) \/ MakeLocal(t) \/ Stamp(t)
  PROVE  NInv'
<1> USE BParts DEF BInv
<1> DEFINE s == sess[t]  c == ClientOf[t]
<1>0. PICK p \in Path : p = sess[t].path
  BY Busy DEF Clear, Fill, MakeLocal, Stamp
<1>1. s \in Session /\ c \in Client /\ Knows(c, s) /\ s.buf <= wrote
      /\ (HasTemp(c, p) => temp[c][p].data <= wrote)
      /\ \A q \in dirty[c] : p = q /\ HasTemp(c, q) /\ s.pc \in Owing
  BY <1>0, NParts DEF NInv, Bounded
<1>2. UNCHANGED <<store, ever, strays, wrote, dirty>>
  BY DEF Clear, Fill, MakeLocal, Stamp, server, told
<1>3. EmptyData \in Data /\ EmptyData <= wrote /\ now \in Times \cup Garbage /\ p # NoPath
  BY FileStoreAssumption, BnfsAssumption
<1>4. CASE Clear(t)
  <2>1. s.pc = "clear" /\ Local(c, p, EmptyData, now) /\ dirty[c] = {}
    BY <1>0, <1>1, <1>4 DEF Clear, Owing
  <2>2. /\ sess'[t].pc = "fill" /\ sess'[t].at = p /\ sess'[t].path = p /\ sess'[t].buf = s.buf
        /\ \A u \in Thread \ {t} : sess'[u] = sess[u]
    BY <1>0, <1>1, <1>4 DEF Clear, Session
  <2>3. ~Held(t)'
    BY <2>2 DEF Held
  <2> QED
    BY <1>0, <1>1, <1>2, <1>3, <2>1, <2>2, <2>3, CopyOn
<1>5. CASE Fill(t)
  <2>1. s.pc = "fill" /\ s.at = p /\ dirty[c] = {} /\ s.buf \in Data
    BY <1>0, <1>1, <1>5 DEF Fill, Owing, Knows, Session
  <2>2. Local(c, p, s.buf, now)
    BY <1>3, <1>5, <2>1 DEF Fill
  <2>3. /\ sess'[t].pc = "open" /\ sess'[t].path = p /\ sess'[t].buf = EmptyData
        /\ \A u \in Thread \ {t} : sess'[u] = sess[u]
    BY <1>0, <1>1, <1>5 DEF Fill, Session
  <2>4. ~Held(t)'
    BY <1>2, <2>1, <2>3 DEF Held
  <2> QED
    BY <1>0, <1>1, <1>2, <1>3, <2>1, <2>2, <2>3, <2>4, CopyOn
<1>6. CASE MakeLocal(t)
  <2>1. s.pc = "mkLocal" /\ Local(c, p, EmptyData, now) /\ dirty[c] = {}
    BY <1>0, <1>1, <1>6 DEF MakeLocal, Owing
  <2>2. /\ sess'[t].pc = "mkDirty" /\ sess'[t].path = p /\ sess'[t].buf = s.buf
        /\ \A u \in Thread \ {t} : sess'[u] = sess[u]
    BY <1>0, <1>1, <1>6 DEF MakeLocal, Goto, Session
  <2> QED
    BY <1>0, <1>1, <1>2, <1>3, <2>1, <2>2, CopyOn
<1>7. CASE Stamp(t)
  <2>1. /\ s.pc = "stamp" /\ sess'[t].pc = "clean" /\ sess'[t].path = p /\ sess'[t].buf = s.buf
        /\ \A u \in Thread \ {t} : sess'[u] = sess[u]
    BY <1>0, <1>1, <1>7 DEF Stamp, Goto, Session
  <2>2. ~Held(t)'
    BY <2>1 DEF Held
  <2>3. CASE HasTemp(c, p)
    <3>1. PICK d \in Data : d = temp[c][p].data
      BY <1>1, <2>3 DEF HasTemp, Temps, Copy
    <3>2. Local(c, p, d, s.srv) /\ s.srv \in Times \cup Garbage
      BY <1>0, <1>1, <1>7, <2>3, <3>1 DEF Stamp, Session
    <3> QED
      BY <1>0, <1>1, <1>2, <2>1, <2>2, <2>3, <3>1, <3>2, CopyOn DEF Owing
  <2>4. CASE ~HasTemp(c, p)
    <3>1. temp' = temp /\ dirty[c] = {}
      BY <1>0, <1>1, <1>7, <2>4 DEF Stamp
    <3>2. Marks(t) /\ Knows(c, sess[t])'
      BY <1>2, <2>1, <3>1 DEF Marks, Knows
    <3> QED
      BY <1>1, <1>2, <2>1, <2>2, <3>1, <3>2, MoveOn
  <2> QED
    BY <2>3, <2>4
<1> QED
  BY <1>4, <1>5, <1>6, <1>7

\* The open of the copy.
LEMMA OpenTempOn ==
  ASSUME Solitary, BInv, NInv, NEW t \in Thread, OpenTemp(t)
  PROVE  NInv'
<1> USE BParts DEF BInv
<1> DEFINE s == sess[t]  c == ClientOf[t]
           opened == [s EXCEPT !.pc = "opened", !.at = s.path, !.creat = "none"]
<1>0. PICK p \in Path : p = sess[t].path
  BY Busy DEF OpenTemp
<1>1. s \in Session /\ c \in Client /\ Knows(c, s) /\ s.buf <= wrote /\ s.pc = "open"
      /\ \A q \in dirty[c] : p = q /\ HasTemp(c, q)
  BY <1>0, NParts DEF NInv, Bounded, OpenTemp
<1>2. UNCHANGED <<store, ever, strays, wrote>>
  BY DEF OpenTemp, server, told
<1>3. EmptyData \in Data /\ EmptyData <= wrote /\ now \in Times \cup Garbage
  BY FileStoreAssumption, BnfsAssumption
<1>4. ASSUME sess' = [sess EXCEPT ![t] = opened]
      PROVE  /\ sess'[t].pc = "opened" /\ sess'[t].at = p /\ sess'[t].path = p
             /\ sess'[t].buf = s.buf /\ \A u \in Thread \ {t} : sess'[u] = sess[u]
  BY <1>0, <1>1, <1>4 DEF Session
<1>5. CASE sess' = [sess EXCEPT ![t] = opened] /\ UNCHANGED <<temp, dirty>>
  <2>1. Marks(t) /\ Knows(c, sess[t])'
    BY <1>1, <1>4, <1>5 DEF Marks, Owing, HasTemp, Knows
  <2>2. Held(t)' => Held(t)
    BY <1>0, <1>1, <1>4, <1>5 DEF Held
  <2> QED
    BY <1>0, <1>1, <1>2, <1>4, <1>5, <2>1, <2>2, MoveOn
<1>6. CASE Local(c, p, EmptyData, now) /\ sess' = [sess EXCEPT ![t] = opened] /\ UNCHANGED dirty
  BY <1>0, <1>1, <1>2, <1>3, <1>4, <1>6, CopyOn DEF Owing
<1>7. CASE ~HasTemp(c, p) /\ DropTemp(t, p, Rest)
  <2>1. dirty[c] = {}
    BY <1>1, <1>7
  <2>2. \A u \in Thread : u # t => ClientOf[u] # c
    BY DEF Solitary
  <2>3. sess' = [sess EXCEPT ![t] = Rest]
    BY <1>7, <2>2 DEF DropTemp
  <2>4. temp' = temp
    BY <1>1, <1>7 DEF DropTemp, HasTemp, Temps
  <2>5. sess'[t] = Rest /\ \A u \in Thread \ {t} : sess'[u] = sess[u]
    BY <2>3
  <2>6. Rest.pc = "idle" /\ Rest.buf = EmptyData
    BY DEF Rest
  <2>7. dirty'[c] = {} /\ \A b \in Client \ {c} : dirty'[b] = dirty[b]
    BY <1>1, <1>7, <2>1 DEF DropTemp
  <2> QED
    BY <1>2, <1>3, <2>4, <2>5, <2>6, <2>7, MoveOn DEF Marks, Knows, Held
<1> QED
  BY <1>0, <1>5, <1>6, <1>7 DEF OpenTemp

\* A write makes a content that is new to everybody.
LEMMA WriteOn ==
  ASSUME Solitary, BInv, NInv, NEW t \in Thread, Write(t)
  PROVE  NInv'
<1> USE BParts DEF BInv
<1> DEFINE s == sess[t]  c == ClientOf[t]
<1>0. PICK p \in Path : p = sess[t].path
  BY Busy DEF Write
<1>1. s \in Session /\ c \in Client /\ Knows(c, s) /\ s.pc = "opened"
      /\ \A q \in dirty[c] : p = q /\ HasTemp(c, q)
  BY <1>0, NParts DEF Write
<1>2. UNCHANGED <<store, ever, strays, dirty>> /\ wrote' = wrote + 1
  BY DEF Write, server
<1>3. s.at = p /\ p # NoPath /\ wrote \in Nat /\ wrote + 1 \in Data
  BY <1>0, <1>1, BnfsAssumption DEF Knows, Write
<1>4. Local(c, p, wrote + 1, now)
  BY <1>3 DEF Write
<1>5. /\ sess'[t].pc = "mark" /\ sess'[t].at = p /\ sess'[t].path = p /\ sess'[t].buf = s.buf
      /\ \A u \in Thread \ {t} : sess'[u] = sess[u]
  BY <1>0, <1>1, <1>3 DEF Write, Goto, Session
<1>6. temp'[c][p].data = wrote + 1 /\ Own(t)
      /\ \A b \in Client, q \in Path : temp'[b][q] = temp[b][q] \/ temp'[b][q].data = wrote + 1
  BY <1>1, <1>2, <1>4, <1>5 DEF Local, Temps, Own
<1>7. temp'[c][p] # NoFile
  BY <1>1, <1>3, <1>4, LocalGrows
<1>8. /\ \A q \in Path : \A d \in ever[q] : d \in Nat /\ d <= wrote
      /\ \A b \in Client, q \in Path : HasTemp(b, q) => temp[b][q].data \in Nat /\ temp[b][q].data <= wrote
      /\ \A u \in Thread : sess[u].buf \in Nat /\ sess[u].buf <= wrote
      /\ \A x \in strays : x.data \in Nat /\ x.data <= wrote
  <2>1. Bounded /\ Data \subseteq Nat
    BY BnfsAssumption DEF NInv
  <2>2. \A b \in Client, q \in Path : HasTemp(b, q) => temp[b][q].data \in Data
    BY DEF HasTemp, Temps, Copy
  <2>3. \A u \in Thread : sess[u].buf \in Data
    BY DEF Session
  <2> QED
    BY <2>1, <2>2, <2>3 DEF Bounded
<1>9. Bounded'
  BY <1>2, <1>3, <1>5, <1>6, <1>8 DEF Bounded, HasTemp
<1>10. ServerOn
  BY <1>2 DEF NInv, ServerOn, StoreSeen, Exists
<1>11. Marks(t) /\ Knows(c, sess[t])'
  BY <1>1, <1>2, <1>5, <1>7 DEF Marks, Owing, Knows
<1>12. Mine(t)' = wrote + 1
  BY <1>5, <1>6 DEF Mine
<1>13. Unseen(t)'
  BY <1>2, <1>3, <1>8, <1>12 DEF Unseen
<1>14. ASSUME NEW u \in Thread \ {t}, Held(u), Mine(u) # EmptyData
       PROVE  /\ \A q \in Path : Mine(u) \notin ever'[q]
              /\ \A x \in strays' : x.data # Mine(u)
              /\ Held(t)' => Mine(t)' # Mine(u)
  <2>1. Unseen(u)
    BY DEF NInv
  <2>2. HasTemp(ClientOf[u], sess[u].path) /\ sess[u].path \in Path /\ ClientOf[u] \in Client
    <3>1. sess[u].path \in Path /\ ClientOf[u] \in Client
      BY <1>14, Busy DEF Held
    <3> QED
      BY <1>14, <3>1, NParts, BnfsAssumption DEF Held, Knows, Linked
  <2>3. Mine(u) # wrote + 1
    BY <1>3, <1>8, <2>2 DEF Mine
  <2> QED
    BY <1>2, <1>12, <1>14, <2>1, <2>3 DEF Unseen
<1> QED
  BY <1>6, <1>9, <1>10, <1>11, <1>13, <1>14, OwnStep

----------------------------------------------------------------------------
(* The server                                                              *)

\* The server shows one more content, which was sent to it or is empty.
LEMMA Shows ==
  ASSUME BInv, NInv, Remember, NEW p \in Path, NEW d, d <= wrote,
         \A q \in Path : Exists(q) => store'[q] # NoFile,
         \A q \in Path \ {p} : store'[q] = store[q], store'[p] # NoFile, store'[p].data = d
  PROVE  /\ ServerOn
         /\ \A q \in Path : ever'[q] \subseteq ever[q] \cup {d}
         /\ \A q \in Path : \A e \in ever'[q] : e <= wrote
<1>1. \A q \in Path : ever'[q] = IF store'[q] = NoFile THEN ever[q] ELSE ever[q] \cup {store'[q].data}
  BY DEF Remember
<1>2. StoreSeen'
  BY <1>1 DEF StoreSeen, Exists
<1>3. ASSUME NEW q \in Path PROVE ever'[q] \subseteq ever[q] \cup {d}
  <2>1. CASE q = p
    BY <1>1, <2>1
  <2>2. CASE q # p
    <3>1. store'[q] = store[q]
      BY <2>2
    <3>2. store[q] # NoFile => store[q].data \in ever[q]
      BY DEF NInv, StoreSeen, Exists
    <3> QED
      BY <1>1, <3>1, <3>2
  <2> QED
    BY <2>1, <2>2
<1> QED
  BY <1>2, <1>3 DEF ServerOn, NInv, Bounded

\* A server step for which a process waits, and after which it holds nothing
\* new, publishes what that process held or an empty file.
LEMMA ServedOn ==
  ASSUME Solitary, BInv, NInv, NEW t \in Thread, Remember,
         NEW p \in Path, p = sess[t].path, NEW d, d <= wrote,
         \A q \in Path : Exists(q) => store'[q] # NoFile,
         \A q \in Path \ {p} : store'[q] = store[q], store'[p] # NoFile, store'[p].data = d,
         UNCHANGED <<temp, dirty, strays, wrote>>,
         \A u \in Thread \ {t} : sess'[u] = sess[u],
         sess'[t].buf <= wrote, sess'[t].path = p, sess[t].pc \in Owing,
         sess'[t].pc \in {"open", "stat"},
         Held(t), d = EmptyData \/ (d = Mine(t) /\ sess'[t].pc = "stat")
  PROVE  NInv'
<1> USE BParts DEF BInv
<1>1. /\ ServerOn
      /\ \A q \in Path : ever'[q] \subseteq ever[q] \cup {d}
      /\ \A q \in Path : \A e \in ever'[q] : e <= wrote
  BY Shows
<1>2. Own(t) /\ Knows(ClientOf[t], sess[t])'
  BY DEF Own, Knows, Exists
<1>3. Marks(t)
  BY NParts DEF Marks, Owing, HasTemp
<1>4. Bounded'
  BY <1>1 DEF NInv, Bounded, HasTemp
<1>5. Held(t)' => Mine(t)' = Mine(t) /\ d = EmptyData
  BY DEF Held, Mine
<1>6. Unseen(t)'
  BY <1>1, <1>5 DEF NInv, Unseen
<1>7. ASSUME NEW u \in Thread \ {t}, Held(u), Mine(u) # EmptyData
      PROVE  /\ \A q \in Path : Mine(u) \notin ever'[q]
             /\ \A x \in strays' : x.data # Mine(u)
             /\ Held(t)' => Mine(t)' # Mine(u)
  <2>1. Unseen(u) /\ Differ(u, t)
    BY DEF NInv
  <2> QED
    BY <1>1, <1>5, <1>7, <2>1 DEF Unseen, Differ
<1> QED
  BY <1>1, <1>2, <1>3, <1>4, <1>6, <1>7, OwnStep

\* A new file is published empty.
LEMMA MakeOnServerOn ==
  ASSUME Solitary, BInv, NInv, NEW t \in Thread, MakeOnServer(t)
  PROVE  NInv'
<1> USE BParts DEF BInv
<1> DEFINE s == sess[t]  c == ClientOf[t]
<1>0. PICK p \in Path : p = sess[t].path
  BY Busy DEF MakeOnServer
<1>1. s \in Session /\ s.pc = "make" /\ Held(t) /\ s.buf <= wrote /\ Remember
      /\ UNCHANGED <<temp, dirty, strays, wrote>> /\ EmptyData <= wrote
  BY BnfsAssumption DEF MakeOnServer, Held, client, told, NInv, Bounded
<1>2. /\ sess'[t].pc = "open" /\ sess'[t].path = p /\ sess'[t].buf = s.buf
      /\ \A u \in Thread \ {t} : sess'[u] = sess[u]
  BY <1>0, <1>1 DEF MakeOnServer, Goto, Session
<1>3. CASE Create(p) \/ Blank(p)
  <2>1. store' = [store EXCEPT ![p] = [data |-> EmptyData, mtime |-> now]]
    BY <1>3 DEF Create, Blank
  <2>2. [data |-> EmptyData, mtime |-> now] # NoFile
    <3>1. now \in Nat
      BY Clock
    <3> QED
      BY <3>1, FileStoreAssumption
  <2>3. store'[p] # NoFile /\ store'[p].data = EmptyData /\ \A q \in Path \ {p} : store'[q] = store[q]
    BY <2>1, <2>2
  <2>4. \A q \in Path : Exists(q) => store'[q] # NoFile
    BY <2>3 DEF Exists
  <2> QED
    BY <1>0, <1>1, <1>2, <2>3, <2>4, ServedOn DEF Owing
<1>4. CASE Exists(p) /\ UNCHANGED <<store, now, lastPut>>
  <2>1. ever' = ever
    <3>1. \A q \in Path : ever'[q] = ever[q]
      BY <1>1, <1>4 DEF Remember, NInv, StoreSeen, Exists
    <3>2. ever' \in [Path -> SUBSET Data] /\ ever \in [Path -> SUBSET Data]
      <4>1. ever' = [q \in Path |-> ever'[q]]
        BY <1>1 DEF Remember
      <4> QED
        BY <3>1, <4>1
    <3> QED
      BY <3>1, <3>2
  <2>2. Marks(t) /\ Knows(c, sess[t])'
    BY <1>0, <1>1, <1>2, NParts DEF Marks, Owing, HasTemp, Knows
  <2> QED
    BY <1>0, <1>1, <1>2, <1>4, <2>1, <2>2, MoveOn
<1> QED
  BY <1>0, <1>3, <1>4 DEF MakeOnServer

\* An upload publishes what its process held.
LEMMA PutFileOn ==
  ASSUME Solitary, BInv, NInv, NEW t \in Thread, PutFile(t)
  PROVE  NInv'
<1> USE BParts DEF BInv
<1> DEFINE s == sess[t]  c == ClientOf[t]
<1>0. PICK p \in Path : p = sess[t].path
  BY Busy DEF PutFile
<1>1. s \in Session /\ c \in Client /\ s.pc = "put" /\ Held(t) /\ s.buf <= wrote /\ EmptyData <= wrote
      /\ Mine(t) = s.buf
  BY NParts, BnfsAssumption DEF PutFile, Held, NInv, Bounded, Knows, Mine
<1>2. UNCHANGED <<temp, dirty, strays, wrote>> /\ Remember
      /\ sess' = [sess EXCEPT ![t].pc = "stat", ![t].buf = EmptyData, ![t].began = 0]
  BY DEF PutFile, client, told, Solitary
<1>3. /\ sess'[t].pc = "stat" /\ sess'[t].path = p /\ sess'[t].buf = EmptyData
      /\ \A u \in Thread \ {t} : sess'[u] = sess[u]
  BY <1>0, <1>1, <1>2 DEF Session
<1>4. PICK m \in s.began..now : Publish(p, s.buf, m)
  BY <1>0 DEF PutFile, Solitary
<1>5. store' = [store EXCEPT ![p] = [data |-> s.buf, mtime |-> m]] /\ m \in Nat
  <2>1. s.began \in Nat
    BY <1>1, Clock DEF Session
  <2> QED
    BY <1>4, <2>1, Clock DEF Publish
<1>6. [data |-> s.buf, mtime |-> m] # NoFile
  BY <1>1, <1>5, FileStoreAssumption DEF Session
<1>7. store'[p] # NoFile /\ store'[p].data = s.buf /\ \A q \in Path \ {p} : store'[q] = store[q]
  BY <1>5, <1>6
<1>8. \A q \in Path : Exists(q) => store'[q] # NoFile
  BY <1>7 DEF Exists
<1> QED
  BY <1>0, <1>1, <1>2, <1>3, <1>7, <1>8, ServedOn DEF Owing

\* The sessions and copies stay while the server shows a content that no
\* session holds.
LEMMA ServerOnly ==
  ASSUME BInv, NInv, ServerOn, UNCHANGED <<temp, dirty, sess, wrote>>, strays' \subseteq strays,
         \A q \in Path : \A e \in ever'[q] : e <= wrote,
         \A u \in Thread : Held(u) /\ Mine(u) # EmptyData => \A q \in Path : Mine(u) \notin ever'[q]
  PROVE  NInv'
<1>1. Bounded'
  BY DEF NInv, Bounded, HasTemp
<1>2. \A u \in Thread : (Held(u)' <=> Held(u)) /\ Mine(u)' = Mine(u)
  BY DEF Held, Mine
<1>3. \A u \in Thread : Unseen(u)'
  BY <1>2 DEF NInv, Unseen
<1>4. \A u, v \in Thread : u # v => Differ(u, v)'
  BY <1>2 DEF NInv, Differ
<1>5. ASSUME NEW u \in Thread PROVE Knows(ClientOf[u], sess[u])'
  <2>1. sess[u].pc = "stat" => sess[u].path \in Path
    BY Busy DEF BInv
  <2> QED
    BY <2>1 DEF NInv, Knows, HasTemp, ServerOn, Exists
<1>6. \A c \in Client : \A p \in dirty'[c] : \E u \in Thread : Owner(u, c, p)'
  BY DEF NInv, Owner, HasTemp
<1> QED
  BY <1>1, <1>3, <1>4, <1>5, <1>6 DEF NInv, ServerOn

\* A handler whose client died publishes what was left to it.
LEMMA StrayOn ==
  ASSUME BInv, NInv, StrayPut
  PROVE  NInv'
<1> USE BParts DEF BInv
<1>1. PICK x \in strays : \E d \in {x.data, EmptyData}, m \in x.began..now :
        Publish(x.path, d, m) /\ Remember /\ strays' = strays \ {x} /\ UNCHANGED <<client, sess, told, lastEnd>>
  BY DEF StrayPut
<1>2. PICK d \in {x.data, EmptyData}, m \in x.began..now :
        Publish(x.path, d, m) /\ Remember /\ strays' = strays \ {x} /\ UNCHANGED <<client, sess, told, lastEnd>>
  BY <1>1
<1>3. x.path \in Path /\ d \in Data /\ m \in Nat /\ d <= wrote
  <2>1. x.path \in Path /\ x.data \in Data /\ x.began \in Nat /\ x.data <= wrote
    BY Clock DEF NInv, Bounded
  <2> QED
    BY <2>1, FileStoreAssumption, BnfsAssumption, Clock
<1>4. [data |-> d, mtime |-> m] # NoFile
  BY <1>3, FileStoreAssumption
<1>5. PICK p \in Path : p = x.path
  BY <1>3
<1>6. store'[p] # NoFile /\ store'[p].data = d /\ \A q \in Path \ {p} : store'[q] = store[q]
  BY <1>2, <1>4, <1>5 DEF Publish
<1>7. \A q \in Path : Exists(q) => store'[q] # NoFile
  BY <1>6 DEF Exists
<1>8. /\ ServerOn
      /\ \A q \in Path : ever'[q] \subseteq ever[q] \cup {d}
      /\ \A q \in Path : \A e \in ever'[q] : e <= wrote
  BY <1>2, <1>3, <1>6, <1>7, Shows
<1>9. ASSUME NEW u \in Thread, Held(u), Mine(u) # EmptyData
      PROVE  \A q \in Path : Mine(u) \notin ever'[q]
  BY <1>8, <1>9 DEF NInv, Unseen
<1>10. UNCHANGED <<temp, dirty, sess, wrote>> /\ strays' \subseteq strays
  BY <1>2 DEF client, told
<1> QED
  BY <1>8, <1>9, <1>10, ServerOnly

\* The clock changes no content.
LEMMA SecondOn ==
  ASSUME BInv, NInv, Second
  PROVE  NInv'
<1>1. UNCHANGED <<store, ever, temp, dirty, sess, strays, wrote>>
  BY DEF Second, Tick, client, told
<1>2. ServerOn /\ \A q \in Path : \A e \in ever'[q] : e <= wrote
  BY <1>1 DEF NInv, ServerOn, StoreSeen, Exists, Bounded
<1> QED
  BY <1>1, <1>2, ServerOnly DEF NInv, Unseen

\* A restart leaves the upload of its client, which nobody holds any more.
LEMMA RestartOn ==
  ASSUME Solitary, BInv, NInv, NEW c \in Client, Restart(c)
  PROVE  NInv'
<1> USE BParts DEF BInv
<1> DEFINE cut == {t \in Thread : ClientOf[t] = c /\ sess[t].pc = "put"}
<1>1. /\ UNCHANGED <<store, ever, wrote>> /\ dirty'[c] = {}
      /\ \A p \in Path : temp'[c][p] = NoFile
      /\ \A b \in Client : b # c => temp'[b] = temp[b] /\ dirty'[b] = dirty[b]
      /\ \A t \in Thread : sess'[t] = IF ClientOf[t] = c THEN Rest ELSE sess[t]
      /\ strays' = strays \cup {Stray(sess[t]) : t \in cut}
  BY DEF Restart, server, told, Temps
<1>2. Rest.pc = "idle" /\ Rest.buf = EmptyData /\ EmptyData <= wrote
  BY BnfsAssumption DEF Rest
<1>3. ASSUME NEW t \in Thread, ClientOf[t] # c
      PROVE  (Held(t)' <=> Held(t)) /\ Mine(t)' = Mine(t)
  BY <1>1, <1>3 DEF Held, Mine
<1>4. \A t \in Thread : ClientOf[t] = c => ~Held(t)'
  BY <1>1, <1>2 DEF Held
<1>5. ASSUME NEW x \in strays', x \notin strays
      PROVE  \E t \in cut : Held(t) /\ x.data = Mine(t) /\ x.data <= wrote
  <2>1. PICK t \in cut : x = Stray(sess[t])
    BY <1>1, <1>5
  <2>2. Knows(ClientOf[t], sess[t]) /\ sess[t].buf <= wrote
    BY NParts DEF NInv, Bounded
  <2>3. x.data = sess[t].buf
    BY <2>1 DEF Stray
  <2> QED
    BY <2>2, <2>3 DEF Knows, Held, Mine
<1>6. Bounded'
  BY <1>1, <1>2, <1>5 DEF NInv, Bounded, HasTemp
<1>7. StoreSeen'
  BY <1>1 DEF NInv, StoreSeen, Exists
<1>8. ASSUME NEW t \in Thread PROVE Knows(ClientOf[t], sess[t])'
  <2>1. CASE ClientOf[t] = c
    BY <1>1, <1>2, <2>1 DEF Knows
  <2>2. CASE ClientOf[t] # c
    BY <1>1, <2>2 DEF NInv, Knows, HasTemp, Exists
  <2> QED
    BY <2>1, <2>2
<1>9. ASSUME NEW b \in Client, NEW p \in dirty'[b] PROVE \E t \in Thread : Owner(t, b, p)'
  <2>1. b # c /\ p \in dirty[b]
    BY <1>1
  <2>2. PICK t \in Thread : Owner(t, b, p)
    BY <2>1 DEF NInv
  <2> QED
    BY <1>1, <2>1, <2>2 DEF Owner, HasTemp
<1>10. ASSUME NEW t \in Thread PROVE Unseen(t)'
  <2>1. CASE ClientOf[t] = c
    BY <1>4, <2>1 DEF Unseen
  <2>2. CASE ClientOf[t] # c
    <3>1. Unseen(t) /\ \A u \in cut : Differ(t, u)
      BY <2>2 DEF NInv
    <3>2. Held(t) /\ Mine(t) # EmptyData => \A x \in strays' : x.data # Mine(t)
      BY <1>5, <3>1 DEF Unseen, Differ
    <3> QED
      BY <1>1, <1>3, <2>2, <3>1, <3>2 DEF Unseen
  <2> QED
    BY <2>1, <2>2
<1>11. ASSUME NEW t \in Thread, NEW u \in Thread, t # u PROVE Differ(t, u)'
  BY <1>3, <1>4, <1>11 DEF NInv, Differ
<1> QED
  BY <1>6, <1>7, <1>8, <1>9, <1>10, <1>11 DEF NInv

----------------------------------------------------------------------------

\* At the start nothing is held and nothing but empty files was shown.
LEMMA NInvInit == BInit => NInv
<1> SUFFICES ASSUME BInit PROVE NInv
  OBVIOUS
<1>1. /\ \A t \in Thread : sess[t] = Rest
      /\ \A c \in Client : dirty[c] = {} /\ \A p \in Path : temp[c][p] = NoFile
      /\ \A p \in Path : ever[p] = {EmptyData} /\ store[p] = NoFile
      /\ strays = {} /\ wrote = 0
  BY DEF BInit, Init
<1>2. Rest.pc = "idle" /\ Rest.buf = EmptyData /\ EmptyData = 0
  BY BnfsAssumption DEF Rest
<1> QED
  BY <1>1, <1>2 DEF NInv, Bounded, StoreSeen, Exists, HasTemp, Knows, Unseen, Differ, Held

\* Every step keeps the contents apart.
LEMMA NInvNext ==
  ASSUME Solitary, BInv, NInv, [BNext]_allvars
  PROVE  NInv'
<1>1. CASE UNCHANGED allvars
  <2>1. UNCHANGED <<store, ever, temp, dirty, sess, strays, wrote>>
    BY <1>1 DEF allvars, told
  <2>2. ServerOn /\ \A q \in Path : \A e \in ever'[q] : e <= wrote
    BY <2>1 DEF NInv, ServerOn, StoreSeen, Exists, Bounded
  <2> QED
    BY <2>1, <2>2, ServerOnly DEF NInv, Unseen
<1>2. CASE StrayPut \/ Second \/ \E c \in Client : Restart(c)
  BY <1>2, StrayOn, SecondOn, RestartOn
<1>3. CASE \E t \in Thread, p \in Path, mode \in {"r", "w"}, creat \in {"none", "create", "trunc"} :
             Open(t, p, mode, creat)
  BY <1>3, OpenOn
<1>4. ASSUME NEW t \in Thread, NEW p \in Path,
             Truncate(t, p) \/ Unlink(t, p) \/ \E q \in Path : Rename(t, p, q)
      PROVE  FALSE
  BY <1>4 DEF Solitary, Truncate, Unlink, Rename
<1>5. ASSUME NEW t \in Thread, UnlinkRpc(t) \/ RenameRpc(t) PROVE FALSE
  BY <1>5 DEF NInv, Knows, UnlinkRpc, RenameRpc
<1>6. CASE \E t \in Thread :
             \/ GetAttr(t) \/ Check(t) \/ Fetch(t) \/ Clear(t) \/ Fill(t)
             \/ MakeLocal(t) \/ MakeDirty(t) \/ AskServer(t) \/ MakeOnServer(t) \/ OpenTemp(t)
             \/ Write(t) \/ Mark(t)
  BY <1>6, LookOn, FillOn, MarkOn, MakeOnServerOn, OpenTempOn, WriteOn
<1>7. CASE \E t \in Thread :
             Flush(t) \/ Send(t) \/ PutFile(t) \/ Reply(t) \/ Commit(t) \/ Stamp(t) \/ Clean(t)
  BY <1>7, CloseOn, PutFileOn, FillOn
<1> QED
  BY <1>1, <1>2, <1>3, <1>4, <1>5, <1>6, <1>7 DEF BNext

\* Last writer wins, for any number of concurrent clients with one process
\* each, restarts and uploads left behind: a close publishes a content that the
\* server has never shown, or an empty file.
THEOREM LastWriterWins ==
  ASSUME Solitary
  PROVE  BSpec => NoResurrection
<1>1. BInit => BInv /\ NInv
  BY BInvInit, NInvInit
<1>2. (BInv /\ NInv) /\ [BNext]_allvars => (BInv /\ NInv)'
  BY BInvNext, NInvNext
<1>3. BInv /\ NInv
        => \A t \in Thread :
             sess[t].pc = "put" /\ sess[t].buf # EmptyData => sess[t].buf \notin ever[sess[t].path]
  <2> SUFFICES ASSUME BInv, NInv, NEW t \in Thread, sess[t].pc = "put", sess[t].buf # EmptyData
               PROVE  sess[t].buf \notin ever[sess[t].path]
    OBVIOUS
  <2>1. Held(t) /\ Mine(t) = sess[t].buf /\ Unseen(t) /\ sess[t].path \in Path
    BY NParts, Busy DEF Held, Mine, NInv, Knows, BInv
  <2> QED
    BY <2>1 DEF Unseen
<1>4. BInv /\ NInv /\ [BNext]_allvars
        => [\A t \in Thread :
              LET s == sess[t] IN
              s.pc = "put" /\ sess'[t].pc = "stat" /\ s.buf # EmptyData => s.buf \notin ever[s.path]]_allvars
  BY <1>3
<1> QED
  BY <1>1, <1>2, <1>4, PTL DEF BSpec, NoResurrection
=============================================================================
