----------------------------- MODULE BnfsProofs -----------------------------
(***************************************************************************)
(* The state of the clients keeps its shape, whatever their number, the    *)
(* paths, the processes and the RPCs that fail.                            *)
(***************************************************************************)
EXTENDS Bnfs, TLAPS

Copy == [data : Data, mtime : Times \cup Garbage]
Temps == [Client -> [Path -> Copy \cup {NoFile}]]
Session == [pc : Steps, mode : {"r", "w"}, path : AnyPath, to : AnyPath,
            at : AnyPath, creat : {"none", "create", "trunc"},
            srv : Times \cup Garbage, buf : Data, began : Times]

\* A process in a call has a path, two of them in a rename.
Placed(s) ==
  /\ s.pc # "idle" => s.path \in Path
  /\ s.pc = "mv" => s.to \in Path

GoodSess == sess \in [Thread -> Session] /\ \A t \in Thread : Placed(sess[t])

BT == BTypeOK /\ GoodSess

\* An open file that still has a name in temp has it there.
Linked == \A t \in Thread : sess[t].at # NoPath => HasTemp(ClientOf[t], sess[t].at)

----------------------------------------------------------------------------
(* Types                                                                   *)

\* Times of the clock, and none of the values in temp is NoFile.
LEMMA Clock ==
  /\ Times \subseteq Nat /\ 0 \in Times /\ Garbage \subseteq Nat
  /\ NoFile \notin Copy /\ NoFile \notin File
BY FileStoreAssumption DEF Times, Garbage, Copy, File

\* What the type invariant says of each variable.
LEMMA BParts ==
  ASSUME BT
  PROVE  /\ store \in [Path -> File \cup {NoFile}] /\ now \in Times /\ lastPut \in 0..now
         /\ \A p \in Path : Exists(p) => store[p] \in File
         /\ temp \in Temps
         /\ cached \in [Client -> SUBSET Path] /\ dirty \in [Client -> SUBSET Path]
         /\ sess \in [Thread -> Session] /\ \A t \in Thread : Placed(sess[t])
         /\ strays \subseteq [path : Path, data : Data, began : Times]
         /\ wrote \in 0..MaxWrites /\ moved \subseteq Path
         /\ ever \in [Path -> SUBSET Data] /\ lastEnd \in 0..now
         /\ \A t \in Thread : ClientOf[t] \in Client
BY BnfsAssumption DEF BT, BTypeOK, TypeOK, Exists, Temps, Copy, GoodSess, Session, Times

\* A process at rest.
LEMMA RestType == Rest \in Session /\ Placed(Rest)
BY BnfsAssumption, Clock DEF Rest, Session, Placed, Steps, AnyPath

\* The clients start well typed.
LEMMA InitType == BInit => BT
<1> SUFFICES ASSUME BInit PROVE BT
  OBVIOUS
<1>1. TypeOK
  BY FileStoreAssumption DEF BInit, Init, TypeOK, Exists
<1>2. GoodSess
  BY RestType DEF BInit, GoodSess
<1>3. wrote \in 0..MaxWrites /\ lastEnd \in 0..now /\ ever \in [Path -> SUBSET Data]
  BY FileStoreAssumption, BnfsAssumption DEF BInit, Init
<1> QED
  BY <1>1, <1>2, <1>3 DEF BInit, BT, BTypeOK, GoodSess, Session

\* A step of the clients keeps the types if it keeps those of what it
\* changes.
LEMMA ClientStep ==
  ASSUME BT, UNCHANGED <<store, now, lastPut, ever>>,
         temp' \in Temps,
         cached' \in [Client -> SUBSET Path], dirty' \in [Client -> SUBSET Path],
         GoodSess',
         strays' \subseteq [path : Path, data : Data, began : Times],
         wrote' \in 0..MaxWrites, moved' \subseteq Path, lastEnd' \in 0..now
  PROVE  BT'
<1>1. TypeOK'
  BY DEF BT, BTypeOK, TypeOK, Exists
<1> QED
  BY <1>1 DEF BT, BTypeOK, GoodSess, Session, Temps, Copy, Times

\* A step of the server does so, too, if the file it leaves is one and not
\* from the future.
LEMMA ServerStep ==
  ASSUME BT, TypeOK', Remember,
         UNCHANGED <<client, wrote>>, GoodSess',
         strays' \subseteq [path : Path, data : Data, began : Times],
         moved' \subseteq Path, lastEnd' \in 0..now'
  PROVE  BT'
<1> USE BParts
<1>1. \A p \in Path : store'[p] # NoFile => store'[p].data \in Data
  BY DEF TypeOK, File
<1>2. ever' \in [Path -> SUBSET Data]
  BY <1>1 DEF Remember
<1>3. temp' \in Temps /\ cached' \in [Client -> SUBSET Path] /\ dirty' \in [Client -> SUBSET Path]
  BY DEF client
<1> QED
  BY <1>2, <1>3 DEF BT, BTypeOK, GoodSess, Session, Temps, Copy, Times

\* One process changes its session.
LEMMA SessStep ==
  ASSUME BT, NEW t \in Thread, NEW s \in Session, Placed(s), sess' = [sess EXCEPT ![t] = s]
  PROVE  GoodSess'
BY DEF BT, GoodSess

\* A call that goes on in another step stays well typed.
LEMMA GotoStep ==
  ASSUME BT, NEW t \in Thread, NEW l \in Steps \ {"mv"}, sess[t].pc # "idle", Goto(t, l)
  PROVE  GoodSess'
<1> DEFINE s == [sess[t] EXCEPT !.pc = l]
<1>1. s \in Session /\ Placed(s) /\ sess' = [sess EXCEPT ![t] = s]
  BY BParts DEF Goto, Session, Placed
<1> QED
  BY <1>1, SessStep

\* A call that ends leaves its process well typed.
LEMMA DoneStep ==
  ASSUME BT, NEW t \in Thread, Done(t)
  PROVE  GoodSess' /\ lastEnd' \in 0..now
<1>1. GoodSess'
  BY RestType, SessStep DEF Done
<1>2. lastEnd' \in 0..now
  BY BParts DEF Done, EndTime, Times
<1> QED
  BY <1>1, <1>2

\* A file of a client gets a content and a time.
LEMMA LocalStep ==
  ASSUME BT, NEW c \in Client, NEW p \in Path, NEW d \in Data, NEW m \in Times \cup Garbage,
         Local(c, p, d, m)
  PROVE  temp' \in Temps
BY BParts DEF Local, Temps, Copy

\* deleteFromTemp.
LEMMA DropStep ==
  ASSUME BT, NEW t \in Thread, NEW p \in Path, NEW s \in Session, Placed(s), DropTemp(t, p, s)
  PROVE  temp' \in Temps /\ dirty' \in [Client -> SUBSET Path] /\ GoodSess'
<1> USE BParts
<1>1. temp' \in Temps /\ dirty' \in [Client -> SUBSET Path]
  BY DEF DropTemp, Temps
<1>2. \A u \in Thread : /\ [sess[u] EXCEPT !.at = NoPath] \in Session
                        /\ Placed([sess[u] EXCEPT !.at = NoPath])
  BY DEF Session, AnyPath, Placed
<1>3. GoodSess'
  BY <1>2 DEF DropTemp, GoodSess
<1> QED
  BY <1>1, <1>3

\* A step that changes only sessions.
LEMMA SessOnly ==
  ASSUME BT, UNCHANGED <<server, now, client, strays, told, lastEnd>>, GoodSess'
  PROVE  BT'
BY BParts, ClientStep DEF server, client, told

\* Open, up to the fetch.
LEMMA OpenType ==
  ASSUME BT, NEW t \in Thread, NEW p \in Path, NEW mode \in {"r", "w"},
         NEW creat \in {"none", "create", "trunc"}, Open(t, p, mode, creat)
  PROVE  BT'
<1> DEFINE s == [Rest EXCEPT !.pc = "attr", !.mode = mode, !.path = p, !.creat = creat]
<1>1. s \in Session /\ Placed(s)
  BY RestType DEF Session, Placed, Steps, AnyPath, Rest
<1>2. sess' = [sess EXCEPT ![t] = s]
  BY DEF Open
<1>3. GoodSess'
  BY <1>1, <1>2, SessStep
<1> QED
  BY <1>3, SessOnly DEF Open

\* What a process in a call is.
LEMMA Busy ==
  ASSUME BT, NEW t \in Thread, sess[t].pc # "idle"
  PROVE  /\ sess[t] \in Session /\ Placed(sess[t]) /\ sess[t].path \in Path
         /\ ClientOf[t] \in Client
BY BParts DEF Placed

\* The steps of an open and of a write keep the types.
LEMMA GetAttrType == ASSUME BT, NEW t \in Thread, GetAttr(t) PROVE BT'
<1> DEFINE s == sess[t]
<1>1. s.pc # "idle" /\ s \in Session /\ Placed(s) /\ s.path \in Path
  BY Busy DEF GetAttr
<1>2. ASSUME NEW x \in Times \cup Garbage,
             sess' = [sess EXCEPT ![t].pc = "check", ![t].srv = x]
      PROVE  GoodSess'
  <2> DEFINE r == [s EXCEPT !.pc = "check", !.srv = x]
  <2>1. r \in Session /\ Placed(r)
    BY <1>1 DEF Session, Placed, Steps
  <2>2. sess' = [sess EXCEPT ![t] = r]
    BY <1>2
  <2> QED
    BY <2>1, <2>2, SessStep
<1>3. Exists(s.path) => store[s.path].mtime \in Times
  BY <1>1, BParts DEF File, Times
<1>4. Goto(t, "mkLocal") => GoodSess'
  BY <1>1, GotoStep DEF Steps
<1>5. GoodSess'
  BY <1>2, <1>3, <1>4 DEF GetAttr
<1> QED
  BY <1>5, SessOnly DEF GetAttr

\* The step Check keeps the types.
LEMMA CheckType == ASSUME BT, NEW t \in Thread, Check(t) PROVE BT'
<1> DEFINE s == sess[t]
           l == IF OutOfDate(ClientOf[t], s.path, s.srv) THEN "fetch" ELSE "open"
           r == [s EXCEPT !.srv = 0, !.pc = l]
<1>1. s \in Session /\ Placed(s) /\ s.path \in Path
  BY Busy DEF Check
<1>2. r \in Session /\ Placed(r)
  BY <1>1, Clock DEF Session, Placed, Steps
<1>3. sess' = [sess EXCEPT ![t] = r]
  BY DEF Check
<1>4. GoodSess'
  BY <1>2, <1>3, SessStep
<1> QED
  BY <1>4, SessOnly DEF Check

\* The step Fetch keeps the types.
LEMMA FetchType == ASSUME BT, NEW t \in Thread, Fetch(t) PROVE BT'
<1> DEFINE s == sess[t]
           d == IF Exists(s.path) THEN Arrived(store[s.path].data) ELSE EmptyData
           r == [s EXCEPT !.pc = "clear", !.buf = d]
<1>1. s.pc # "idle" /\ s \in Session /\ Placed(s) /\ s.path \in Path
  BY Busy DEF Fetch
<1>2. d \in Data
  BY <1>1, BParts, FileStoreAssumption DEF File, Arrived
<1>3. r \in Session /\ Placed(r)
  BY <1>1, <1>2 DEF Session, Placed, Steps
<1>4. Goto(t, "open") => GoodSess'
  BY <1>1, GotoStep DEF Steps
<1>5. sess' = [sess EXCEPT ![t] = r] => GoodSess'
  BY <1>3, SessStep
<1>6. GoodSess'
  BY <1>4, <1>5 DEF Fetch
<1> QED
  BY <1>6, SessOnly DEF Fetch

----------------------------------------------------------------------------
(* The files of a client                                                   *)

\* The step Clear keeps the types.
LEMMA ClearType == ASSUME BT, NEW t \in Thread, Clear(t) PROVE BT'
<1> DEFINE s == sess[t]
           r == [s EXCEPT !.pc = "fill", !.at = s.path]
<1>1. s \in Session /\ Placed(s) /\ s.path \in Path /\ ClientOf[t] \in Client
  BY Busy DEF Clear
<1>2. r \in Session /\ Placed(r) /\ sess' = [sess EXCEPT ![t] = r]
  BY <1>1 DEF Session, Placed, Steps, AnyPath, Clear
<1>3. GoodSess'
  BY <1>2, SessStep
<1>4. temp' \in Temps
  BY <1>1, BParts, LocalStep, FileStoreAssumption DEF Clear
<1>5. cached' \in [Client -> SUBSET Path]
  BY <1>1, BParts DEF Clear
<1> QED
  BY <1>3, <1>4, <1>5, BParts, ClientStep DEF Clear, server, told

\* The step Fill keeps the types.
LEMMA FillType == ASSUME BT, NEW t \in Thread, Fill(t) PROVE BT'
<1> DEFINE s == sess[t]
           r == [s EXCEPT !.pc = "open", !.buf = EmptyData]
<1>1. s \in Session /\ Placed(s) /\ ClientOf[t] \in Client /\ s.at \in AnyPath /\ s.buf \in Data
  BY Busy DEF Fill, Session
<1>2. r \in Session /\ Placed(r) /\ sess' = [sess EXCEPT ![t] = r]
  BY <1>1, Busy, FileStoreAssumption DEF Session, Placed, Steps, Fill
<1>3. GoodSess'
  BY <1>2, SessStep
<1>4. temp' \in Temps
  BY <1>1, BParts, LocalStep DEF Fill, AnyPath
<1> QED
  BY <1>3, <1>4, BParts, ClientStep DEF Fill, server, told

\* The step MakeLocal keeps the types.
LEMMA MakeLocalType == ASSUME BT, NEW t \in Thread, MakeLocal(t) PROVE BT'
<1>1. sess[t].pc # "idle" /\ sess[t].path \in Path /\ ClientOf[t] \in Client
  BY Busy DEF MakeLocal
<1>2. GoodSess'
  BY <1>1, GotoStep DEF MakeLocal, Steps
<1>3. temp' \in Temps
  BY <1>1, BParts, LocalStep, FileStoreAssumption DEF MakeLocal
<1>4. cached' \in [Client -> SUBSET Path]
  BY <1>1, BParts DEF MakeLocal
<1> QED
  BY <1>2, <1>3, <1>4, BParts, ClientStep DEF MakeLocal, server, told

\* The step MakeDirty keeps the types.
LEMMA MakeDirtyType == ASSUME BT, NEW t \in Thread, MakeDirty(t) PROVE BT'
<1>1. sess[t].pc # "idle" /\ sess[t].path \in Path /\ ClientOf[t] \in Client
  BY Busy DEF MakeDirty
<1>2. GoodSess'
  BY <1>1, GotoStep DEF MakeDirty, Steps
<1>3. dirty' \in [Client -> SUBSET Path]
  BY <1>1, BParts DEF MakeDirty
<1> QED
  BY <1>2, <1>3, BParts, ClientStep DEF MakeDirty, server, told

\* The step AskServer keeps the types.
LEMMA AskServerType == ASSUME BT, NEW t \in Thread, AskServer(t) PROVE BT'
<1>1. sess[t].pc # "idle"
  BY DEF AskServer
<1>2. \A l \in {"open", "make"} : Goto(t, l) => GoodSess'
  BY <1>1, GotoStep DEF Steps
<1>3. GoodSess'
  BY <1>2 DEF AskServer
<1> QED
  BY <1>3, SessOnly DEF AskServer

\* The step OpenTemp keeps the types.
LEMMA OpenTempType == ASSUME BT, NEW t \in Thread, OpenTemp(t) PROVE BT'
<1> DEFINE s == sess[t]
           r == [s EXCEPT !.pc = "opened", !.at = s.path, !.creat = "none"]
<1>1. s \in Session /\ Placed(s) /\ s.path \in Path /\ ClientOf[t] \in Client
  BY Busy DEF OpenTemp
<1>2. r \in Session /\ Placed(r)
  BY <1>1 DEF Session, Placed, Steps, AnyPath
<1>3. CASE sess' = [sess EXCEPT ![t] = r] /\ UNCHANGED <<temp, dirty, lastEnd>>
  <2>1. GoodSess'
    BY <1>2, <1>3, SessStep
  <2> QED
    BY <2>1, <1>3, SessOnly DEF OpenTemp, client
<1>4. CASE /\ Local(ClientOf[t], s.path, EmptyData, now)
           /\ sess' = [sess EXCEPT ![t] = r]
           /\ UNCHANGED <<dirty, lastEnd>>
  <2>1. GoodSess'
    BY <1>2, <1>4, SessStep
  <2>2. temp' \in Temps
    BY <1>1, <1>4, BParts, LocalStep, FileStoreAssumption
  <2> QED
    BY <1>4, <2>1, <2>2, BParts, ClientStep DEF OpenTemp, server, told
<1>5. CASE DropTemp(t, s.path, Rest) /\ EndTime
  <2>1. temp' \in Temps /\ dirty' \in [Client -> SUBSET Path] /\ GoodSess'
    BY <1>1, <1>5, RestType, DropStep
  <2>2. lastEnd' \in 0..now
    BY <1>5, BParts DEF EndTime, Times
  <2> QED
    BY <2>1, <2>2, BParts, ClientStep DEF OpenTemp, server, told
<1> QED
  BY <1>3, <1>4, <1>5 DEF OpenTemp

\* The step Write keeps the types.
LEMMA WriteType == ASSUME BT, NEW t \in Thread, Write(t) PROVE BT'
<1> DEFINE s == sess[t]
<1>1. s.pc # "idle" /\ s \in Session /\ ClientOf[t] \in Client /\ s.at \in AnyPath
  BY Busy DEF Write, Session
<1>2. GoodSess'
  BY <1>1, GotoStep DEF Write, Steps
<1>3. wrote + 1 \in Data /\ wrote' \in 0..MaxWrites
  BY BParts, BnfsAssumption DEF Write
<1>4. temp' \in Temps
  BY <1>1, <1>3, BParts, LocalStep DEF Write, AnyPath
<1> QED
  BY <1>2, <1>3, <1>4, BParts, ClientStep DEF Write, server

\* The step Mark keeps the types.
LEMMA MarkType == ASSUME BT, NEW t \in Thread, Mark(t) PROVE BT'
<1>1. sess[t].pc # "idle" /\ sess[t].path \in Path /\ ClientOf[t] \in Client
  BY Busy DEF Mark
<1>2. GoodSess'
  BY <1>1, GotoStep DEF Mark, Steps
<1>3. dirty' \in [Client -> SUBSET Path]
  BY <1>1, BParts DEF Mark
<1> QED
  BY <1>2, <1>3, BParts, ClientStep DEF Mark, server, told

----------------------------------------------------------------------------
(* Close                                                                   *)

\* The steps of a close keep the types.
LEMMA FlushType == ASSUME BT, NEW t \in Thread, Flush(t) PROVE BT'
<1> DEFINE s == sess[t]  c == ClientOf[t]
           r == [s EXCEPT !.pc = "send", !.at = s.path, !.buf = temp[c][s.path].data]
<1>1. s \in Session /\ Placed(s) /\ s.path \in Path /\ c \in Client
  BY Busy DEF Flush
<1>2. CASE HasTemp(c, s.path) /\ s.path \in dirty[c]
  <2>1. temp[c][s.path] \in Copy
    BY <1>1, <1>2, BParts DEF HasTemp, Temps
  <2>2. r \in Session /\ Placed(r)
    BY <1>1, <2>1 DEF Session, Placed, Steps, AnyPath, Copy
  <2>3. sess' = [sess EXCEPT ![t] = r] /\ UNCHANGED lastEnd
    BY <1>2 DEF Flush
  <2>4. GoodSess'
    BY <2>2, <2>3, SessStep
  <2> QED
    BY <2>3, <2>4, SessOnly DEF Flush
<1>3. CASE ~(HasTemp(c, s.path) /\ s.path \in dirty[c])
  <2>1. Done(t)
    BY <1>3 DEF Flush
  <2>2. GoodSess' /\ lastEnd' \in 0..now
    BY <2>1, DoneStep
  <2> QED
    BY <2>2, BParts, ClientStep DEF Flush, server, client, told
<1> QED
  BY <1>2, <1>3

\* An upload sends a file that is in temp: the descriptor it was opened by still has its name.
LEMMA SendType == ASSUME BT, Linked, NEW t \in Thread, Send(t) PROVE BT'
<1> DEFINE s == sess[t]  c == ClientOf[t]
           b == IF s.at = NoPath THEN s.buf ELSE temp[c][s.at].data
<1>1. s \in Session /\ Placed(s) /\ s.path \in Path /\ c \in Client
  BY Busy DEF Send
<1>2. CASE /\ sess' = [sess EXCEPT ![t].pc = "put", ![t].began = now, ![t].buf = b]
           /\ UNCHANGED <<temp, dirty, lastEnd>>
  <2> DEFINE r == [s EXCEPT !.pc = "put", !.began = now, !.buf = b]
  <2>1. b \in Data
    <3>1. s.buf \in Data /\ s.at \in AnyPath
      BY <1>1 DEF Session
    <3>2. s.at # NoPath => temp[c][s.at] \in Copy
      BY <1>1, <3>1, BParts DEF Linked, HasTemp, AnyPath, Temps
    <3> QED
      BY <3>1, <3>2 DEF Copy
  <2>2. r \in Session /\ Placed(r)
    BY <1>1, <2>1, BParts DEF Session, Placed, Steps
  <2>3. sess' = [sess EXCEPT ![t] = r]
    BY <1>2
  <2>4. GoodSess'
    BY <2>2, <2>3, SessStep
  <2> QED
    BY <1>2, <2>4, SessOnly DEF Send, client
<1>3. CASE DropTemp(t, s.path, Rest) /\ EndTime
  <2>1. temp' \in Temps /\ dirty' \in [Client -> SUBSET Path] /\ GoodSess'
    BY <1>1, <1>3, RestType, DropStep
  <2>2. lastEnd' \in 0..now
    BY <1>3, BParts DEF EndTime, Times
  <2> QED
    BY <2>1, <2>2, BParts, ClientStep DEF Send, server, told
<1> QED
  BY <1>2, <1>3 DEF Send

\* A file the server publishes or makes is one, and not from the future.
LEMMA PublishType ==
  ASSUME BT, NEW p \in Path, NEW d \in Data, NEW b \in Times, NEW m \in b..now, Publish(p, d, m)
  PROVE  TypeOK' /\ UNCHANGED now
<1>1. now \in Times /\ m \in Times /\ m <= now /\ now' = now /\ lastPut' = now
  <2>1. now \in Nat /\ now <= MaxNow /\ MaxNow \in Nat /\ b \in Nat
    BY BParts, FileStoreAssumption DEF Times
  <2>2. m \in Int /\ b <= m /\ m <= now
    BY <2>1
  <2> QED
    BY <2>1, <2>2 DEF Publish, Times
<1>2. store' = [store EXCEPT ![p] = [data |-> d, mtime |-> m]]
  BY DEF Publish
<1>3. [data |-> d, mtime |-> m] \in File
  BY <1>1 DEF File, Times
<1>4. store' \in [Path -> File \cup {NoFile}]
  BY <1>2, <1>3, BParts
<1>5. \A q \in Path : store'[q] # NoFile => store'[q].mtime <= now
  BY <1>1, <1>2, BParts DEF BT, BTypeOK, TypeOK, Exists
<1> QED
  BY <1>1, <1>4, <1>5 DEF TypeOK, Exists, Times

\* The other calls of the server.
LEMMA CallType ==
  ASSUME BT, NEW p \in Path, NEW q \in Path,
         Create(p) \/ Blank(p) \/ Remove(p) \/ Move(p, q)
  PROVE  TypeOK' /\ UNCHANGED now
<1> USE BParts
<1> DEFINE f == [data |-> EmptyData, mtime |-> now]
<1>1. f \in File /\ f.mtime <= now
  BY FileStoreAssumption DEF File, Times
<1>2. \A r \in Path : store[r] # NoFile => store[r].mtime <= now
  BY DEF BT, BTypeOK, TypeOK, Exists
<1>3. CASE store' = [store EXCEPT ![p] = f] /\ UNCHANGED <<now, lastPut>>
  <2>1. \A r \in Path : store'[r] \in {store[r], f}
    BY <1>3
  <2>2. store' \in [Path -> File \cup {NoFile}]
    BY <1>1, <1>3
  <2> QED
    BY <1>1, <1>2, <1>3, <2>1, <2>2 DEF TypeOK, Exists, Times
<1>4. CASE Remove(p)
  <2>1. \A r \in Path : store'[r] \in {store[r], NoFile}
    BY <1>4 DEF Remove
  <2>2. store' \in [Path -> File \cup {NoFile}]
    BY <1>4 DEF Remove
  <2> QED
    BY <1>2, <1>4, <2>1, <2>2 DEF TypeOK, Exists, Times, Remove
<1>5. CASE Move(p, q)
  <2>1. \A r \in Path : store'[r] \in {store[r], store[p], NoFile}
    BY <1>5 DEF Move
  <2>2. store' \in [Path -> File \cup {NoFile}]
    BY <1>5 DEF Move
  <2> QED
    BY <1>2, <1>5, <2>1, <2>2 DEF TypeOK, Exists, Times, Move
<1> QED
  BY <1>3, <1>4, <1>5 DEF Create, Blank

\* The RPCs keep the types: their times are the clock's.
LEMMA MakeOnServerType == ASSUME BT, NEW t \in Thread, MakeOnServer(t) PROVE BT'
<1> DEFINE s == sess[t]
<1>1. s.pc # "idle" /\ s.path \in Path
  BY Busy DEF MakeOnServer
<1>2. GoodSess'
  BY <1>1, GotoStep DEF MakeOnServer, Steps
<1>3. TypeOK' /\ UNCHANGED now
  <2>1. CASE Create(s.path) \/ Blank(s.path)
    BY <1>1, <2>1, CallType
  <2>2. CASE UNCHANGED <<store, now, lastPut>>
    BY <2>2 DEF BT, BTypeOK, TypeOK, Exists
  <2> QED
    BY <2>1, <2>2 DEF MakeOnServer
<1>4. UNCHANGED <<client, wrote, strays, moved, lastEnd>>
  BY DEF MakeOnServer, told
<1> QED
  BY <1>2, <1>3, <1>4, BParts, ServerStep DEF MakeOnServer

\* The step PutFile keeps the types.
LEMMA PutFileType == ASSUME BT, NEW t \in Thread, PutFile(t) PROVE BT'
<1> DEFINE s == sess[t]
           r == [s EXCEPT !.pc = "stat", !.buf = EmptyData, !.began = 0]
<1>1. /\ s.pc = "put" /\ s \in Session /\ s.path \in Path /\ s.buf \in Data
      /\ s.began \in Times /\ Placed(s)
  BY Busy DEF PutFile, Session
<1>2. UNCHANGED <<client, wrote, moved>>
  BY DEF PutFile, told
<1>3. ASSUME NEW m \in s.began..now, Publish(s.path, s.buf, m), Remember,
             sess' = [sess EXCEPT ![t] = r], UNCHANGED <<strays, lastEnd>>
      PROVE  BT'
  <2>1. r \in Session /\ Placed(r)
    BY <1>1, FileStoreAssumption, Clock DEF Session, Placed, Steps
  <2>2. GoodSess'
    BY <2>1, <1>3, SessStep
  <2>3. TypeOK' /\ UNCHANGED now
    BY <1>1, <1>3, PublishType
  <2> QED
    BY <1>2, <1>3, <2>2, <2>3, BParts, ServerStep
<1>4. CASE /\ Done(t)
           /\ strays' = strays \/ strays' = strays \cup {Stray(s)}
           /\ UNCHANGED <<server, now>>
  <2>1. GoodSess' /\ lastEnd' \in 0..now
    BY <1>4, DoneStep
  <2>2. strays' \subseteq [path : Path, data : Data, began : Times]
    BY <1>1, <1>4, BParts DEF Stray
  <2> QED
    BY <1>2, <1>4, <2>1, <2>2, BParts, ClientStep DEF client, server
<1> QED
  BY <1>3, <1>4 DEF PutFile

\* The step Reply keeps the types.
LEMMA ReplyType == ASSUME BT, NEW t \in Thread, Reply(t) PROVE BT'
<1> DEFINE s == sess[t]
           r == [s EXCEPT !.pc = "commit", !.srv = store[s.path].mtime]
<1>1. s \in Session /\ Placed(s) /\ s.path \in Path /\ s.pc = "stat"
  BY Busy DEF Reply
<1>2. CASE Exists(s.path) /\ sess' = [sess EXCEPT ![t] = r] /\ UNCHANGED lastEnd
  <2>1. store[s.path].mtime \in Times
    BY <1>1, <1>2, BParts DEF File, Times
  <2>2. r \in Session /\ Placed(r)
    BY <1>1, <2>1 DEF Session, Placed, Steps
  <2>3. GoodSess'
    BY <1>2, <2>2, SessStep
  <2> QED
    BY <1>2, <2>3, SessOnly DEF Reply
<1>3. CASE Done(t)
  <2>1. GoodSess' /\ lastEnd' \in 0..now
    BY <1>3, DoneStep
  <2> QED
    BY <2>1, BParts, ClientStep DEF Reply, server, client, told
<1> QED
  BY <1>2, <1>3 DEF Reply

\* The step Commit keeps the types.
LEMMA CommitType == ASSUME BT, NEW t \in Thread, Commit(t) PROVE BT'
<1>1. sess[t].pc # "idle" /\ sess[t].path \in Path /\ ClientOf[t] \in Client
  BY Busy DEF Commit
<1>2. GoodSess' /\ lastEnd' \in 0..now
  <2>1. Goto(t, "stamp") /\ UNCHANGED lastEnd => GoodSess' /\ lastEnd' \in 0..now
    BY <1>1, BParts, GotoStep DEF Steps
  <2> QED
    BY <2>1, DoneStep DEF Commit
<1>3. cached' \in [Client -> SUBSET Path]
  BY <1>1, BParts DEF Commit
<1> QED
  BY <1>2, <1>3, BParts, ClientStep DEF Commit, server, told

\* The step Stamp keeps the types.
LEMMA StampType == ASSUME BT, NEW t \in Thread, Stamp(t) PROVE BT'
<1> DEFINE s == sess[t]  c == ClientOf[t]
<1>1. s.pc # "idle" /\ s.path \in Path /\ c \in Client /\ s.srv \in Times \cup Garbage
  BY Busy DEF Stamp, Session
<1>2. GoodSess'
  BY <1>1, GotoStep DEF Stamp, Steps
<1>3. temp' \in Temps
  <2>1. CASE HasTemp(c, s.path)
    <3>1. temp[c][s.path].data \in Data
      BY <1>1, <2>1, BParts DEF HasTemp, Temps, Copy
    <3> QED
      BY <1>1, <2>1, <3>1, LocalStep DEF Stamp
  <2> QED
    BY <2>1, BParts DEF Stamp
<1> QED
  BY <1>2, <1>3, BParts, ClientStep DEF Stamp, server, told

\* The step Clean keeps the types.
LEMMA CleanType == ASSUME BT, NEW t \in Thread, Clean(t) PROVE BT'
<1>1. GoodSess' /\ lastEnd' \in 0..now
  BY DoneStep DEF Clean
<1>2. dirty' \in [Client -> SUBSET Path]
  BY BParts DEF Clean
<1> QED
  BY <1>1, <1>2, BParts, ClientStep DEF Clean, server, told

\* An upload without a client keeps the types.
LEMMA StrayPutType == ASSUME BT, StrayPut PROVE BT'
<1>1. PICK s \in strays : \E d \in {s.data, EmptyData}, m \in s.began..now :
        /\ Publish(s.path, d, m) /\ Remember /\ strays' = strays \ {s}
        /\ UNCHANGED <<client, sess, told, lastEnd>>
  BY DEF StrayPut
<1>2. s.path \in Path /\ s.data \in Data /\ s.began \in Times
  BY BParts
<1>3. TypeOK' /\ UNCHANGED now
  BY <1>1, <1>2, FileStoreAssumption, PublishType
<1>4. strays' \subseteq [path : Path, data : Data, began : Times]
  BY <1>1, BParts
<1>5. Remember /\ UNCHANGED <<client, wrote, moved, lastEnd>> /\ UNCHANGED sess
  BY <1>1 DEF told
<1>6. GoodSess'
  BY <1>5, BParts DEF GoodSess
<1> QED
  BY <1>3, <1>4, <1>5, <1>6, BParts, ServerStep

----------------------------------------------------------------------------
(* Operations on paths                                                     *)

\* The operations on paths keep the types.
LEMMA TruncateType == ASSUME BT, NEW t \in Thread, NEW p \in Path, Truncate(t, p) PROVE BT'
<1>1. wrote + 1 \in Data /\ wrote' \in 0..MaxWrites /\ ClientOf[t] \in Client
  BY BParts, BnfsAssumption DEF Truncate
<1>2. temp' \in Temps
  BY <1>1, BParts, LocalStep DEF Truncate
<1>3. GoodSess' /\ lastEnd' \in 0..now /\ moved' \subseteq Path
  BY BParts DEF Truncate, GoodSess, EndTime, Times
<1> QED
  BY <1>1, <1>2, <1>3, BParts, ClientStep DEF Truncate, server

\* The step Unlink keeps the types.
LEMMA UnlinkType == ASSUME BT, NEW t \in Thread, NEW p \in Path, Unlink(t, p) PROVE BT'
<1> DEFINE s == [Rest EXCEPT !.pc = "rm", !.mode = "w", !.path = p]
<1>1. s \in Session /\ Placed(s)
  BY RestType DEF Session, Placed, Steps, AnyPath
<1>2. temp' \in Temps /\ dirty' \in [Client -> SUBSET Path] /\ GoodSess'
  BY <1>1, DropStep DEF Unlink
<1> QED
  BY <1>2, BParts, ClientStep DEF Unlink, server, told

\* The step UnlinkRpc keeps the types.
LEMMA UnlinkRpcType == ASSUME BT, NEW t \in Thread, UnlinkRpc(t) PROVE BT'
<1>1. sess[t].path \in Path
  BY Busy DEF UnlinkRpc
<1>2. GoodSess' /\ lastEnd' \in 0..now
  BY DoneStep DEF UnlinkRpc
<1>3. UNCHANGED <<client, wrote, strays, moved>>
  BY DEF UnlinkRpc, told
<1>4. CASE Remove(sess[t].path) /\ Remember
  <2>1. TypeOK' /\ UNCHANGED now
    BY <1>1, <1>4, CallType
  <2> QED
    BY <1>2, <1>3, <1>4, <2>1, BParts, ServerStep
<1>5. CASE UNCHANGED <<server, now>>
  BY <1>2, <1>3, <1>5, BParts, ClientStep DEF server, client
<1> QED
  BY <1>4, <1>5 DEF UnlinkRpc

\* The step Rename keeps the types.
LEMMA RenameType ==
  ASSUME BT, NEW t \in Thread, NEW p \in Path, NEW q \in Path, Rename(t, p, q)
  PROVE  BT'
<1> USE BParts
<1> DEFINE c == ClientOf[t]
           s == [Rest EXCEPT !.pc = "mv", !.mode = "w", !.path = p, !.to = q]
           Link(a) == IF a = p THEN q ELSE IF a = q THEN NoPath ELSE a
<1>1. s \in Session /\ Placed(s)
  BY RestType DEF Session, Placed, Steps, AnyPath
<1>2. UNCHANGED <<store, now, lastPut, ever, cached, strays, wrote, moved, lastEnd>>
  BY DEF Rename, server, told
<1>3. CASE /\ temp' = [temp EXCEPT ![c][q] = temp[c][p], ![c][p] = NoFile]
           /\ dirty' = [dirty EXCEPT ![c] = IF p \in @ THEN @ \cup {q} ELSE @]
           /\ sess' = [u \in Thread |->
                IF u = t THEN s
                ELSE IF ClientOf[u] = c THEN [sess[u] EXCEPT !.at = Link(@)] ELSE sess[u]]
  <2>1. temp' \in Temps
    BY <1>3 DEF Temps
  <2>2. dirty' \in [Client -> SUBSET Path]
    BY <1>3
  <2>3. \A u \in Thread : LET r == [sess[u] EXCEPT !.at = Link(@)]
                          IN  r \in Session /\ Placed(r)
    BY DEF Session, AnyPath, Placed
  <2>4. GoodSess'
    BY <1>1, <1>3, <2>3 DEF GoodSess
  <2> QED
    BY <1>2, <2>1, <2>2, <2>4, ClientStep
<1>4. CASE sess' = [sess EXCEPT ![t] = s] /\ UNCHANGED <<temp, dirty>>
  <2>1. GoodSess'
    BY <1>1, <1>4, SessStep
  <2> QED
    BY <1>2, <1>4, <2>1, ClientStep
<1> QED
  BY <1>3, <1>4 DEF Rename

\* The step RenameRpc keeps the types.
LEMMA RenameRpcType == ASSUME BT, NEW t \in Thread, RenameRpc(t) PROVE BT'
<1> DEFINE s == sess[t]
           Follow(u) == ClientOf[u] = ClientOf[t] /\ sess[u].pc = "opened" /\ sess[u].path = s.path
<1>1. s.path \in Path /\ s.to \in Path
  BY Busy DEF RenameRpc, Placed
<1>2. UNCHANGED <<client, strays, wrote>>
  BY DEF RenameRpc
<1>3. CASE /\ Move(s.path, s.to) /\ Remember
           /\ moved' = moved \cup {s.to}
           /\ sess' = [u \in Thread |->
                IF u = t THEN Rest
                ELSE IF Follow(u) THEN [sess[u] EXCEPT !.path = s.to] ELSE sess[u]]
           /\ EndTime
  <2>1. TypeOK' /\ UNCHANGED now
    BY <1>1, <1>3, CallType
  <2>2. \A u \in Thread : LET r == [sess[u] EXCEPT !.path = s.to]
                          IN  r \in Session /\ Placed(r)
    BY <1>1, BParts DEF Session, AnyPath, Placed
  <2>3. GoodSess'
    BY <1>3, <2>2, RestType, BParts DEF GoodSess
  <2>4. lastEnd' \in 0..now /\ moved' \subseteq Path
    BY <1>1, <1>3, BParts DEF EndTime, Times
  <2> QED
    BY <1>2, <1>3, <2>1, <2>3, <2>4, BParts, ServerStep
<1>4. CASE Done(t) /\ UNCHANGED <<server, now, moved>>
  <2>1. GoodSess' /\ lastEnd' \in 0..now
    BY <1>4, DoneStep
  <2> QED
    BY <1>2, <1>4, <2>1, BParts, ClientStep DEF server, client
<1> QED
  BY <1>3, <1>4 DEF RenameRpc

\* A restart, which empties temp and ends every call, keeps the types.
LEMMA RestartType == ASSUME BT, NEW c \in Client, Restart(c) PROVE BT'
<1> USE BParts
<1>1. temp' \in Temps /\ dirty' \in [Client -> SUBSET Path]
  BY DEF Restart, Temps
<1>2. GoodSess'
  BY RestType DEF Restart, GoodSess
<1>3. \A t \in Thread : sess[t].pc = "put" =>
        Stray(sess[t]) \in [path : Path, data : Data, began : Times]
  BY Busy DEF Stray, Session
<1>4. strays' \subseteq [path : Path, data : Data, began : Times]
  BY <1>3 DEF Restart
<1>5. lastEnd' \in 0..now
  BY DEF Restart, EndTime, Times
<1> QED
  BY <1>1, <1>2, <1>4, <1>5, ClientStep DEF Restart, server, told

\* The clock keeps the types.
LEMMA SecondType == ASSUME BT, Second PROVE BT'
<1> USE BParts
<1>1. TypeOK'
  <2>1. now \in Nat /\ now < MaxNow /\ now' = now + 1 /\ UNCHANGED <<store, lastPut>>
    BY FileStoreAssumption DEF Second, Tick, Times
  <2>2. now' \in 0..MaxNow /\ lastPut' \in 0..now'
    BY <2>1, FileStoreAssumption
  <2>3. \A p \in Path : store[p] # NoFile => store[p].mtime <= now /\ store[p].mtime \in Nat
    BY FileStoreAssumption DEF BT, BTypeOK, TypeOK, Exists, File
  <2> QED
    BY <2>1, <2>2, <2>3 DEF TypeOK, Exists
<1>2. UNCHANGED <<client, wrote, moved, strays, sess, ever, lastEnd>> /\ now' = now + 1
  BY DEF Second, Tick, told
<1>3. lastEnd' \in 0..now'
  BY <1>2 DEF Times
<1> QED
  BY <1>1, <1>2, <1>3 DEF BT, BTypeOK, GoodSess, Session, client

\* Every step keeps the types.
LEMMA NextType == ASSUME BT, Linked, [BNext]_allvars PROVE BT'
<1>1. CASE UNCHANGED allvars
  BY <1>1 DEF allvars, told, BT, BTypeOK, TypeOK, Exists, GoodSess
<1>2. CASE StrayPut \/ Second \/ \E c \in Client : Restart(c)
  BY <1>2, StrayPutType, SecondType, RestartType
<1>3. CASE \E t \in Thread, p \in Path :
             \/ \E mode \in {"r", "w"}, creat \in {"none", "create", "trunc"} :
                  Open(t, p, mode, creat)
             \/ Truncate(t, p) \/ Unlink(t, p)
             \/ \E q \in Path : Rename(t, p, q)
  BY <1>3, OpenType, TruncateType, UnlinkType, RenameType
<1>4. CASE \E t \in Thread :
             \/ GetAttr(t) \/ Check(t) \/ Fetch(t) \/ Clear(t) \/ Fill(t)
             \/ MakeLocal(t) \/ MakeDirty(t) \/ AskServer(t) \/ MakeOnServer(t) \/ OpenTemp(t)
             \/ Write(t) \/ Mark(t)
  BY <1>4, GetAttrType, CheckType, FetchType, ClearType, FillType, MakeLocalType,
     MakeDirtyType, AskServerType, MakeOnServerType, OpenTempType, WriteType, MarkType
<1>5. CASE \E t \in Thread :
             \/ Flush(t) \/ Send(t) \/ PutFile(t) \/ Reply(t) \/ Commit(t) \/ Stamp(t) \/ Clean(t)
             \/ UnlinkRpc(t) \/ RenameRpc(t)
  BY <1>5, FlushType, SendType, PutFileType, ReplyType, CommitType, StampType, CleanType,
     UnlinkRpcType, RenameRpcType
<1> QED
  BY <1>1, <1>2, <1>3, <1>4, <1>5 DEF BNext

----------------------------------------------------------------------------
(* Open files                                                              *)

\* A step of one process that takes no file away leaves the handles linked.
LEMMA LinkStep ==
  ASSUME Linked, NEW t \in Thread, NEW s, sess' = [sess EXCEPT ![t] = s], GoodSess, GoodSess',
         \A c \in Client, p \in Path : HasTemp(c, p) => HasTemp(c, p)',
         s.at \in {NoPath, sess[t].at} \/ temp'[ClientOf[t]][s.at] # NoFile
  PROVE  Linked'
BY BnfsAssumption DEF Linked, HasTemp, GoodSess, Session, AnyPath

\* A step that takes no file out of temp and opens none loses no link.
LEMMA LocalGrows ==
  ASSUME BT, NEW c \in Client, NEW p \in Path, NEW d \in Data, NEW m \in Times \cup Garbage,
         Local(c, p, d, m)
  PROVE  /\ temp'[c][p] # NoFile
         /\ \A b \in Client, q \in Path : HasTemp(b, q) => HasTemp(b, q)'
<1>1. [data |-> d, mtime |-> m] # NoFile
  BY Clock DEF Copy
<1> QED
  BY <1>1, BParts DEF Local, HasTemp, Temps

\* Where a path was removed, who had it open has no name left.
LEMMA DropLinks ==
  ASSUME BT, Linked, NEW t \in Thread, NEW p \in Path, NEW s, s.at = NoPath, DropTemp(t, p, s)
  PROVE  Linked'
BY BParts DEF DropTemp, Linked, HasTemp, Temps, Session, AnyPath

\* The operations on paths and the restart keep open files linked.
LEMMA PathLinked ==
  ASSUME BT, Linked, BT', NEW t \in Thread, NEW p \in Path,
         \/ \E mode \in {"r", "w"}, creat \in {"none", "create", "trunc"} : Open(t, p, mode, creat)
         \/ Truncate(t, p) \/ Unlink(t, p)
         \/ \E q \in Path : Rename(t, p, q)
  PROVE  Linked'
<1> USE BParts
<1>g. GoodSess /\ GoodSess'
  BY DEF BT
<1>1. ASSUME NEW mode \in {"r", "w"}, NEW creat \in {"none", "create", "trunc"},
             Open(t, p, mode, creat)
      PROVE  Linked'
  <2> DEFINE s == [Rest EXCEPT !.pc = "attr", !.mode = mode, !.path = p, !.creat = creat]
  <2>1. s.at = NoPath /\ sess' = [sess EXCEPT ![t] = s] /\ temp' = temp
    BY <1>1 DEF Open, client, Rest
  <2>2. \A c \in Client, q \in Path : HasTemp(c, q) => HasTemp(c, q)'
    BY <2>1 DEF HasTemp
  <2> QED
    BY <1>g, <2>1, <2>2, LinkStep
<1>2. CASE Truncate(t, p)
  <2>1. wrote + 1 \in Data /\ ClientOf[t] \in Client
    BY <1>2, BnfsAssumption DEF Truncate
  <2>2. \A c \in Client, q \in Path : HasTemp(c, q) => HasTemp(c, q)'
    BY <1>2, <2>1, LocalGrows DEF Truncate
  <2> QED
    BY <1>2, <2>2 DEF Truncate, Linked, Session, AnyPath
<1>3. CASE Unlink(t, p)
  BY <1>3, DropLinks DEF Unlink, Rest
<1>4. ASSUME NEW q \in Path, Rename(t, p, q) PROVE Linked'
  <2> DEFINE c == ClientOf[t]
             s == [Rest EXCEPT !.pc = "mv", !.mode = "w", !.path = p, !.to = q]
             Link(a) == IF a = p THEN q ELSE IF a = q THEN NoPath ELSE a
  <2>1. s.at = NoPath /\ p # q
    BY <1>4 DEF Rename, Rest
  <2>2. CASE /\ HasTemp(c, p)
             /\ temp' = [temp EXCEPT ![c][q] = temp[c][p], ![c][p] = NoFile]
             /\ sess' = [u \in Thread |->
                  IF u = t THEN s
                  ELSE IF ClientOf[u] = c THEN [sess[u] EXCEPT !.at = Link(@)] ELSE sess[u]]
    <3>1. /\ temp'[c][q] # NoFile
          /\ \A r \in Path \ {p, q} : temp'[c][r] = temp[c][r]
          /\ \A b \in Client \ {c} : temp'[b] = temp[b]
      BY <2>1, <2>2 DEF HasTemp, Temps
    <3>2. \A u \in Thread : /\ u # t /\ ClientOf[u] = c => sess'[u].at = Link(sess[u].at)
                            /\ u # t /\ ClientOf[u] # c => sess'[u].at = sess[u].at
                            /\ u = t => sess'[u].at = NoPath
      BY <2>1, <2>2 DEF Session
    <3>3. \A u \in Thread : sess[u].at \in AnyPath
      BY DEF Session
    <3> HIDE DEF s
    <3> QED
      BY <3>1, <3>2, <3>3 DEF Linked, HasTemp, AnyPath
  <2>3. CASE sess' = [sess EXCEPT ![t] = s] /\ UNCHANGED temp
    <3>1. \A b \in Client, r \in Path : HasTemp(b, r) => HasTemp(b, r)'
      BY <2>3 DEF HasTemp
    <3> HIDE DEF s
    <3> QED
      BY <1>g, <2>1, <2>3, <3>1, LinkStep
  <2> QED
    BY <1>4, <2>2, <2>3 DEF Rename
<1> QED
  BY <1>1, <1>2, <1>3, <1>4

\* A step that keeps temp and only clears or keeps the links.
LEMMA SameTempLinked ==
  ASSUME Linked, UNCHANGED temp, \A t \in Thread : sess'[t].at \in {NoPath, sess[t].at}
  PROVE  Linked'
BY DEF Linked, HasTemp

\* The steps of an open and of a write keep open files linked.
LEMMA CallLinked ==
  ASSUME BT, Linked, BT', NEW t \in Thread,
         \/ GetAttr(t) \/ Check(t) \/ Fetch(t) \/ Clear(t) \/ Fill(t)
         \/ MakeLocal(t) \/ MakeDirty(t) \/ AskServer(t) \/ MakeOnServer(t) \/ OpenTemp(t)
         \/ Write(t) \/ Mark(t)
  PROVE  Linked'
<1> USE BParts
<1>g. GoodSess /\ GoodSess'
  BY DEF BT
<1>a. sess[t] \in Session /\ ClientOf[t] \in Client
  OBVIOUS
<1> DEFINE s == sess[t]  c == ClientOf[t]
<1>1. CASE GetAttr(t) \/ Check(t) \/ Fetch(t) \/ MakeDirty(t) \/ AskServer(t) \/ MakeOnServer(t) \/ Mark(t)
  <2>1. UNCHANGED temp
    BY <1>1 DEF GetAttr, Check, Fetch, MakeDirty, AskServer, MakeOnServer, Mark, client
  <2>2. \A u \in Thread : sess'[u].at = sess[u].at
    BY <1>1 DEF GetAttr, Check, Fetch, MakeDirty, AskServer, MakeOnServer, Mark, Goto, Session
  <2> QED
    BY <2>1, <2>2, SameTempLinked
<1>2. CASE Clear(t)
  <2>1. s.path \in Path
    BY <1>2, Busy DEF Clear
  <2>2. temp'[c][s.path] # NoFile /\ \A b \in Client, q \in Path : HasTemp(b, q) => HasTemp(b, q)'
    BY <1>2, <1>a, <2>1, LocalGrows, FileStoreAssumption DEF Clear
  <2>3. sess' = [sess EXCEPT ![t] = [s EXCEPT !.pc = "fill", !.at = s.path]]
    BY <1>2 DEF Clear
  <2>4. [s EXCEPT !.pc = "fill", !.at = s.path].at = s.path
    BY <1>a DEF Session
  <2> QED
    BY <1>g, <2>2, <2>3, <2>4, LinkStep
<1>3. CASE Fill(t) \/ Write(t)
  <2>1. s.at \in AnyPath /\ s.buf \in Data
    BY <1>a DEF Session
  <2>2. Write(t) => wrote + 1 \in Data
    BY BnfsAssumption DEF Write
  <2>3. \A b \in Client, q \in Path : HasTemp(b, q) => HasTemp(b, q)'
    <3>1. CASE UNCHANGED temp
      BY <3>1 DEF HasTemp
    <3>2. CASE \E d \in Data : s.at # NoPath /\ Local(c, s.at, d, now)
      BY <1>a, <2>1, <3>2, LocalGrows DEF AnyPath
    <3> QED
      BY <1>3, <2>1, <2>2, <3>1, <3>2 DEF Fill, Write
  <2>4. \A u \in Thread : sess'[u].at = sess[u].at
    BY <1>3 DEF Fill, Write, Goto, Session
  <2> QED
    BY <2>3, <2>4 DEF Linked, Session, AnyPath
<1>4. CASE MakeLocal(t)
  <2>1. s.path \in Path
    BY <1>4, Busy DEF MakeLocal
  <2>2. \A b \in Client, q \in Path : HasTemp(b, q) => HasTemp(b, q)'
    BY <1>4, <1>a, <2>1, LocalGrows, FileStoreAssumption DEF MakeLocal
  <2>3. \A u \in Thread : sess'[u].at = sess[u].at
    BY <1>4 DEF MakeLocal, Goto, Session
  <2> QED
    BY <2>2, <2>3 DEF Linked, Session, AnyPath
<1>5. CASE OpenTemp(t)
  <2> DEFINE r == [s EXCEPT !.pc = "opened", !.at = s.path, !.creat = "none"]
  <2>1. s.path \in Path /\ r.at = s.path
    BY <1>5, Busy DEF OpenTemp, Session
  <2> HIDE DEF r
  <2>2. CASE HasTemp(c, s.path) /\ sess' = [sess EXCEPT ![t] = r] /\ UNCHANGED temp
    <3>1. /\ temp'[c][s.path] # NoFile
          /\ \A b \in Client, q \in Path : HasTemp(b, q) => HasTemp(b, q)'
      BY <2>2 DEF HasTemp
    <3> QED
      BY <1>g, <1>a, <2>1, <2>2, <3>1, LinkStep
  <2>3. CASE Local(c, s.path, EmptyData, now) /\ sess' = [sess EXCEPT ![t] = r]
    <3>1. temp'[c][s.path] # NoFile /\ \A b \in Client, q \in Path : HasTemp(b, q) => HasTemp(b, q)'
      BY <1>a, <2>1, <2>3, LocalGrows, FileStoreAssumption
    <3> QED
      BY <1>g, <2>1, <2>3, <3>1, LinkStep
  <2>4. CASE DropTemp(t, s.path, Rest)
    BY <2>1, <2>4, DropLinks DEF Rest
  <2> QED
    BY <1>5, <2>2, <2>3, <2>4 DEF OpenTemp, r
<1> QED
  BY <1>1, <1>2, <1>3, <1>4, <1>5

\* The steps of a close keep open files linked.
LEMMA CloseLinked ==
  ASSUME BT, Linked, BT', NEW t \in Thread,
         \/ Flush(t) \/ Send(t) \/ PutFile(t) \/ Reply(t) \/ Commit(t) \/ Stamp(t) \/ Clean(t)
         \/ UnlinkRpc(t) \/ RenameRpc(t)
  PROVE  Linked'
<1> USE BParts
<1>g. GoodSess /\ GoodSess'
  BY DEF BT
<1>a. sess[t] \in Session /\ ClientOf[t] \in Client
  OBVIOUS
<1> DEFINE s == sess[t]  c == ClientOf[t]
<1>r. Rest.at = NoPath
  BY DEF Rest
<1>1. CASE PutFile(t) \/ Reply(t) \/ Commit(t) \/ Clean(t) \/ UnlinkRpc(t)
  <2>1. UNCHANGED temp
    BY <1>1 DEF PutFile, Reply, Commit, Clean, UnlinkRpc, client
  <2>2. \A u \in Thread : sess'[u].at \in {NoPath, sess[u].at}
    BY <1>1, <1>r DEF PutFile, Reply, Commit, Clean, UnlinkRpc, Goto, Done, Session
  <2> QED
    BY <2>1, <2>2, SameTempLinked
<1>2. CASE RenameRpc(t)
  <2>1. UNCHANGED temp
    BY <1>2 DEF RenameRpc, client
  <2>2. \A u \in Thread : sess'[u].at \in {NoPath, sess[u].at}
    BY <1>2, <1>r DEF RenameRpc, Done, Session
  <2> QED
    BY <2>1, <2>2, SameTempLinked
<1>3. CASE Flush(t)
  <2> DEFINE r == [s EXCEPT !.pc = "send", !.at = s.path, !.buf = temp[c][s.path].data]
  <2>1. r.at = s.path
    BY <1>a DEF Session
  <2>2. UNCHANGED temp /\ \A b \in Client, q \in Path : HasTemp(b, q) => HasTemp(b, q)'
    BY <1>3 DEF Flush, client, HasTemp
  <2>3. CASE HasTemp(c, s.path) /\ sess' = [sess EXCEPT ![t] = r]
    <3> HIDE DEF r
    <3>1. temp'[c][s.path] # NoFile
      BY <2>2, <2>3 DEF HasTemp
    <3> QED
      BY <1>g, <2>1, <2>2, <2>3, <3>1, LinkStep
  <2>4. CASE Done(t)
    BY <1>g, <1>r, <2>2, <2>4, LinkStep DEF Done
  <2> QED
    BY <1>3, <2>3, <2>4 DEF Flush
<1>4. CASE Send(t)
  <2>1. CASE UNCHANGED temp /\ \A u \in Thread : sess'[u].at = sess[u].at
    BY <2>1, SameTempLinked
  <2>2. CASE DropTemp(t, s.path, Rest)
    <3>1. s.path \in Path
      BY <1>4, Busy DEF Send
    <3> QED
      BY <1>r, <2>2, <3>1, DropLinks
  <2>3. Send(t) => \/ UNCHANGED temp /\ \A u \in Thread : sess'[u].at = sess[u].at
                   \/ DropTemp(t, s.path, Rest)
    BY DEF Send, Session
  <2> QED
    BY <1>4, <2>1, <2>2, <2>3
<1>5. CASE Stamp(t)
  <2>1. s.path \in Path /\ s.srv \in Times \cup Garbage
    BY <1>5, Busy DEF Stamp, Session
  <2>2. \A b \in Client, q \in Path : HasTemp(b, q) => HasTemp(b, q)'
    <3>1. CASE UNCHANGED temp
      BY <3>1 DEF HasTemp
    <3>2. CASE HasTemp(c, s.path) /\ Local(c, s.path, temp[c][s.path].data, s.srv)
      <4>1. temp[c][s.path].data \in Data
        BY <1>a, <2>1, <3>2 DEF HasTemp, Temps, Copy
      <4> QED
        BY <1>a, <2>1, <3>2, <4>1, LocalGrows
    <3> QED
      BY <1>5, <3>1, <3>2 DEF Stamp
  <2>3. \A u \in Thread : sess'[u].at = sess[u].at
    BY <1>5 DEF Stamp, Goto, Session
  <2> QED
    BY <2>2, <2>3 DEF Linked, Session, AnyPath
<1> QED
  BY <1>1, <1>2, <1>3, <1>4, <1>5

\* Every step keeps open files linked.
LEMMA NextLinked ==
  ASSUME BT, Linked, BT', [BNext]_allvars
  PROVE  Linked'
<1>1. CASE UNCHANGED allvars
  BY <1>1 DEF allvars, Linked, HasTemp
<1>2. CASE StrayPut \/ Second
  BY <1>2 DEF StrayPut, Second, Linked, HasTemp, client
<1>3. ASSUME NEW c \in Client, Restart(c) PROVE Linked'
  <2>1. \A t \in Thread : ClientOf[t] = c => sess'[t].at = NoPath
    BY <1>3 DEF Restart, Rest
  <2>2. \A t \in Thread : ClientOf[t] # c =>
          sess'[t] = sess[t] /\ temp'[ClientOf[t]] = temp[ClientOf[t]]
    BY <1>3, BParts DEF Restart, Temps
  <2> QED
    BY <2>1, <2>2 DEF Linked, HasTemp
<1> QED
  BY <1>1, <1>2, <1>3, PathLinked, CallLinked, CloseLinked DEF BNext

----------------------------------------------------------------------------

\* The inductive invariant of the types: what Send reads of a linked file is
\* a content only because the file is there.
BInv == BT /\ Linked

\* The invariant holds when the clients start.
LEMMA BInvInit == BInit => BInv
BY InitType DEF BInv, BInit, Linked, Rest

\* Every step keeps the invariant.
LEMMA BInvNext == BInv /\ [BNext]_allvars => BInv'
BY NextType, NextLinked DEF BInv

\* The types, and that an open file which still has a name in temp has it
\* there, hold whatever the clients do.
THEOREM ClientsInvariance == BSpec => []BInv
BY BInvInit, BInvNext, PTL DEF BSpec

\* The state of the clients keeps its shape whatever the number of clients,
\* processes and paths, the RPCs that fail and the operations they run.
THEOREM ClientsTypeCorrect == BSpec => []BTypeOK
BY ClientsInvariance, PTL DEF BInv, BT
============================================================================
