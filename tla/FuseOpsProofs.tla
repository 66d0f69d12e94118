--------------------------- MODULE FuseOpsProofs ---------------------------
(***************************************************************************)
(* The threads of a client never mix up their descriptors or files, for    *)
(* any number of threads, paths and descriptors and any configuration of   *)
(* error injection that skips no open.  Of the reordering queue: a queued  *)
(* operation is executed once.                                             *)
(***************************************************************************)
EXTENDS FuseOps, FiniteSetTheorems, SequenceTheorems, TLAPS

Handles == [path : Path, fh : Fd] \cup {Closed}

\* Entries whose tickets have been given out.
Known == [id : 1..tickets, op : {"write", "flush"}, code : {1, 2}]

\* FTypeOK is not inductive: that what was executed had a ticket needs that
\* everything in the queue, in a vector and in the hands of the polling
\* thread has one.
Ticketed ==
  /\ queue \in Seq(Known)
  /\ \A t \in Thread : call[t].vec \in Seq(Known)
  /\ poll \in [pc : {"pop", "run"}, head : Known] \cup {Asleep}

OpeningSteps == {"look", "lookTemp", "decide", "fetch", "fill", "make", "makeCache",
                 "create", "open"}

\* Nor does it say that a thread between two steps has a path, and keeps a
\* descriptor in a local variable only in the steps that use it.
Fits(c, h) ==
  /\ c.pc \in OpeningSteps \cup {"upload", "put"} => c.path \in Path
  /\ c.pc \in OpeningSteps => h = Closed
  /\ c.cfd # NoFd => c.pc \in {"lookTemp", "decide"}
  /\ c.tfd # NoFd => c.pc \in {"decide", "put"}

Shape == \A t \in Thread : Fits(call[t], hand[t])

TInv == FTypeOK /\ Ticketed /\ Shape

----------------------------------------------------------------------------
(* Types                                                                   *)

\* A thread at rest is well typed.
LEMMA IdleType == Idle \in Call /\ Idle.vec = <<>> /\ \A h : Fits(Idle, h)
<1>1. <<>> \in Seq(Entry)
  OBVIOUS
<1>2. Idle.vec = <<>>
  BY DEF Idle
<1>3. \A h : Fits(Idle, h)
  BY DEF Idle, Fits, OpeningSteps
<1> QED
  BY <1>1, <1>2, <1>3 DEF Idle, Call, Step

\* Tickets bound the numbers of what is known.
LEMMA KnownEntry == FTypeOK => Known \subseteq Entry
BY FuseOpsAssumption DEF Known, Entry, FTypeOK

\* The start of a client satisfies the types.
LEMMA InitType == Init => TInv
<1> SUFFICES ASSUME Init PROVE TInv
  OBVIOUS
<1>1. call \in [Thread -> Call] /\ \A t \in Thread : call[t].vec = <<>>
  BY IdleType DEF Init
<1>2. <<>> \in Seq(Entry) /\ <<>> \in Seq(Known)
  OBVIOUS
<1>3. fdt \in [Fd -> Kinds \cup Path]
  BY DEF Init, Kinds
<1>4. tickets \in 0..MaxTickets
  BY FuseOpsAssumption DEF Init
<1>5. Shape
  BY IdleType DEF Init, Shape
<1> QED
  BY <1>1, <1>2, <1>3, <1>4, <1>5 DEF Init, TInv, FTypeOK, Ticketed

\* A step that leaves the queue alone keeps the types if it keeps those of
\* descriptors, files and calls.
LEMMA FileStep ==
  ASSUME TInv, UNCHANGED queued,
         fdt' \in [Fd -> Kinds \cup Path],
         temp' \subseteq Path, cached' \subseteq Path, dirty' \subseteq Path,
         hand' \in [Thread -> Handles],
         call' \in [Thread -> Call],
         \A t \in Thread : call'[t].vec \in {<<>>, call[t].vec} /\ Fits(call'[t], hand'[t]),
         ebadf' \in BOOLEAN
  PROVE  TInv'
<1>1. FTypeOK'
  BY DEF TInv, FTypeOK, queued, Handles
<1>2. Known' = Known /\ <<>> \in Seq(Known)
  BY DEF Known, queued
<1>3. Ticketed'
  BY <1>2 DEF TInv, Ticketed, queued
<1>4. Shape'
  BY DEF Shape, Fits
<1> QED
  BY <1>1, <1>3, <1>4 DEF TInv

\* A step of one call.
LEMMA CallStep ==
  ASSUME TInv, UNCHANGED queued, NEW t \in Thread, NEW c \in Call,
         call' = [call EXCEPT ![t] = c], c.vec \in {<<>>, call[t].vec},
         fdt' \in [Fd -> Kinds \cup Path],
         temp' \subseteq Path, cached' \subseteq Path, dirty' \subseteq Path,
         hand' \in [Thread -> Handles], \A u \in Thread \ {t} : hand'[u] = hand[u],
         Fits(c, hand'[t]),
         ebadf' \in BOOLEAN
  PROVE  TInv'
<1>1. /\ call' \in [Thread -> Call]
      /\ \A u \in Thread : call'[u].vec \in {<<>>, call[u].vec} /\ Fits(call'[u], hand'[u])
  BY DEF TInv, FTypeOK, Shape
<1> QED
  BY <1>1, FileStep

\* The types of the parts, as the lemmas above ask for them.
LEMMA Parts ==
  ASSUME TInv
  PROVE  /\ fdt \in [Fd -> Kinds \cup Path]
         /\ temp \subseteq Path /\ cached \subseteq Path /\ dirty \subseteq Path
         /\ hand \in [Thread -> Handles]
         /\ call \in [Thread -> Call]
         /\ ebadf \in BOOLEAN
         /\ \A t \in Thread : Fits(call[t], hand[t])
BY DEF TInv, FTypeOK, Handles, Shape

\* Answers are Booleans.
LEMMA AnswerType == \A a : Answer(a) => ebadf' \in BOOLEAN
BY DEF Answer

\* The actions that only answer.
Quiet == UNCHANGED <<fdt, files, hand, call, queued, half>> /\ ebadf' \in BOOLEAN

\* They change no type.
LEMMA QuietType == TInv /\ Quiet => TInv'
<1> SUFFICES ASSUME TInv, Quiet PROVE TInv'
  OBVIOUS
<1> QED
  BY Parts, FileStep DEF Quiet, files

Quietly(t) ==
  \/ Read(t) \/ Fsync(t) \/ Control(t) \/ Fallocate(t)
  \/ \E p \in Path : Chmod(t, p) \/ Chown(t, p) \/ Truncate(t, p) \/ Statfs(t, p) \/ Xattr(t, p)
  \/ Readlink(t) \/ Symlink(t) \/ Link(t) \/ Ftruncate(t)
  \/ FsyncdirCloses(t) \/ Opendir(t) \/ Utimens(t) \/ Releasedir(t)
  \/ Getattr(t) \/ Access(t) \/ Mkdir(t) \/ Rmdir(t) \/ Readdir(t)
  \/ Injected(t)

\* Each of those is such an action.
LEMMA QuietActs == ASSUME NEW t \in Thread, Quietly(t) PROVE Quiet
<1> DEFINE Same == UNCHANGED <<fdt, files, hand, call, queued, half>>
<1>1. CASE Read(t) \/ Fsync(t) \/ Control(t) \/ Fallocate(t)
  BY <1>1, AnswerType DEF Read, Fsync, Control, Fallocate, OnHandle, Quiet
<1>2. ASSUME NEW p \in Path,
             Chmod(t, p) \/ Chown(t, p) \/ Truncate(t, p) \/ Statfs(t, p) \/ Xattr(t, p)
      PROVE  Quiet
  BY <1>2, AnswerType DEF Chmod, Chown, Truncate, Statfs, Xattr, OnTemp, Quiet
<1>3. CASE Readlink(t) \/ Symlink(t) \/ Link(t) \/ Ftruncate(t) \/ FsyncdirCloses(t)
  BY <1>3, AnswerType DEF Readlink, Symlink, Link, Ftruncate, FsyncdirCloses, Literal, Quiet
<1>4. CASE Opendir(t) \/ Utimens(t) \/ Releasedir(t)
  BY <1>4, AnswerType DEF Opendir, Utimens, Releasedir, Quiet
<1>5. CASE Getattr(t) \/ Access(t) \/ Mkdir(t) \/ Rmdir(t) \/ Readdir(t)
  BY <1>5, AnswerType DEF Getattr, Access, Mkdir, Rmdir, Readdir, Asks, Quiet
<1>6. CASE Injected(t)
  BY <1>6, AnswerType DEF Injected, Quiet
<1> QED
  BY <1>1, <1>2, <1>3, <1>4, <1>5, <1>6 DEF Quietly

\* The steps of an opening thread.
LEMMA OpeningType == ASSUME TInv, NEW t \in Thread, Opening(t) PROVE TInv'
<1> USE Parts
<1> DEFINE P == call[t].path
           To(l) == [call[t] EXCEPT !.pc = l]
<1>p. call[t].pc \in OpeningSteps => P \in Path /\ hand[t] = Closed
  BY DEF Fits
<1>c. /\ call[t] \in Call
      /\ \A l \in Step : To(l) \in Call /\ To(l).vec = call[t].vec
      /\ call[t].cfd = NoFd /\ call[t].tfd = NoFd /\ call[t].pc \in OpeningSteps =>
           \A l \in OpeningSteps : Fits(To(l), hand[t])
  BY DEF Call, Step, Fits, OpeningSteps
<1>g. \A l : Goto(t, l) => call' = [call EXCEPT ![t] = To(l)]
  BY DEF Goto
<1>i. \A a : Ends(t, a) => call' = [call EXCEPT ![t] = Idle] /\ ebadf' \in BOOLEAN
  BY AnswerType DEF Ends
<1>1. CASE LookInCache(t)
  <2>1. CASE Goto(t, "lookTemp") /\ UNCHANGED fdt
    BY <1>1, <2>1, <1>c, <1>g, CallStep DEF LookInCache, files, Step, At, Fits, OpeningSteps
  <2>2. CASE \E n \in Fd : /\ Gets(n)
                           /\ fdt' = [fdt EXCEPT ![n] = "cache"]
                           /\ call' = [call EXCEPT ![t].pc = "lookTemp", ![t].cfd = n]
    <3>1. PICK n \in Fd : /\ fdt' = [fdt EXCEPT ![n] = "cache"]
                          /\ call' = [call EXCEPT ![t].pc = "lookTemp", ![t].cfd = n]
      BY <2>2
    <3> DEFINE c == [call[t] EXCEPT !.pc = "lookTemp", !.cfd = n]
    <3>2. c \in Call /\ c.vec = call[t].vec /\ call' = [call EXCEPT ![t] = c]
      BY <3>1 DEF Call, Step
    <3>3. Fits(c, hand[t])
      BY <1>1, <1>p, <3>2 DEF LookInCache, At, Call, Fits, OpeningSteps
    <3>4. fdt' \in [Fd -> Kinds \cup Path]
      BY <3>1 DEF Kinds
    <3> QED
      BY <1>1, <3>2, <3>3, <3>4, CallStep DEF LookInCache, files
  <2> QED
    BY <1>1, <2>1, <2>2 DEF LookInCache
<1>2. CASE LookInTemp(t)
  <2>1. CASE Goto(t, "decide") /\ UNCHANGED fdt
    <3>1. Fits(To("decide"), hand[t])
      BY <1>2, <1>p DEF LookInTemp, At, Call, Fits, OpeningSteps
    <3> QED
      BY <1>2, <2>1, <3>1, <1>c, <1>g, CallStep DEF LookInTemp, files, Step
  <2>2. CASE /\ P \in temp
             /\ \E n \in Fd : /\ Gets(n)
                              /\ fdt' = [fdt EXCEPT ![n] = P]
                              /\ call' = [call EXCEPT ![t].pc = "decide", ![t].tfd = n]
    <3>1. PICK n \in Fd : /\ fdt' = [fdt EXCEPT ![n] = P]
                          /\ call' = [call EXCEPT ![t].pc = "decide", ![t].tfd = n]
      BY <2>2
    <3> DEFINE c == [call[t] EXCEPT !.pc = "decide", !.tfd = n]
    <3>2. c \in Call /\ c.vec = call[t].vec /\ call' = [call EXCEPT ![t] = c]
      BY <3>1 DEF Call, Step
    <3>3. Fits(c, hand[t])
      BY <1>2, <1>p, <3>2 DEF LookInTemp, At, Call, Fits, OpeningSteps
    <3>4. fdt' \in [Fd -> Kinds \cup Path]
      BY <2>2, <3>1
    <3> QED
      BY <1>2, <3>2, <3>3, <3>4, CallStep DEF LookInTemp, files
  <2> QED
    BY <1>2, <2>1, <2>2 DEF LookInTemp
<1>3. CASE Decide(t)
  <2>1. PICK l \in {"fetch", "open"} :
          call' = [call EXCEPT ![t].pc = l, ![t].cfd = NoFd, ![t].tfd = NoFd]
    BY <1>3 DEF Decide
  <2> DEFINE c == [call[t] EXCEPT !.pc = l, !.cfd = NoFd, !.tfd = NoFd]
  <2>2. c \in Call /\ c.vec = call[t].vec /\ call' = [call EXCEPT ![t] = c]
    BY <2>1 DEF Call, Step
  <2>3. Fits(c, hand[t])
    BY <1>3, <1>p, <2>2 DEF Decide, At, Call, Fits, OpeningSteps
  <2>4. fdt' \in [Fd -> Kinds \cup Path]
    BY <1>3 DEF Decide, Close, Kinds
  <2> QED
    BY <1>3, <2>2, <2>3, <2>4, CallStep DEF Decide, files
<1>4. ASSUME NEW l \in OpeningSteps, Goto(t, l), UNCHANGED <<fdt, hand, ebadf, queued>>,
             call[t].pc \in OpeningSteps \ {"lookTemp", "decide"},
             temp' \subseteq Path, cached' \subseteq Path, dirty' \subseteq Path
      PROVE  TInv'
  <2>1. Fits(To(l), hand[t]) /\ l \in Step
    BY <1>4, <1>c DEF Fits, OpeningSteps, Step
  <2> QED
    BY <1>4, <2>1, <1>c, <1>g, CallStep
<1>5. CASE Fetch(t) \/ Fill(t)
  BY <1>5, <1>4, <1>p DEF Fetch, Fill, At, Made, OpeningSteps
<1>6. CASE MakeTemp(t) \/ MakeCache(t) \/ CreateOnServer(t)
  BY <1>6, <1>4, <1>p DEF MakeTemp, MakeCache, CreateOnServer, At, Made, files, OpeningSteps
<1>7. CASE OpenTemp(t)
  <2>1. P \in Path
    BY <1>7, <1>p DEF OpenTemp, At, OpeningSteps
  <2>2. CASE /\ \E n \in Fd : /\ fdt' = [fdt EXCEPT ![n] = P]
                              /\ hand' = [hand EXCEPT ![t] = [path |-> P, fh |-> n]]
             /\ temp' = temp \cup {P} /\ Ends(t, "ok") /\ UNCHANGED dirty
    <3>1. PICK n \in Fd : /\ fdt' = [fdt EXCEPT ![n] = P]
                          /\ hand' = [hand EXCEPT ![t] = [path |-> P, fh |-> n]]
      BY <2>2
    <3>2. fdt' \in [Fd -> Kinds \cup Path]
      BY <2>1, <3>1
    <3>3. hand' \in [Thread -> Handles] /\ \A u \in Thread \ {t} : hand'[u] = hand[u]
      BY <2>1, <3>1 DEF Handles
    <3> QED
      BY <1>7, <2>1, <2>2, <3>2, <3>3, <1>i, IdleType, CallStep DEF OpenTemp
  <2>3. CASE /\ DropTemp(P) /\ fdt' = Nameless(fdt, P)
             /\ Ends(t, "fail") /\ UNCHANGED hand
    <3>1. fdt' \in [Fd -> Kinds \cup Path]
      BY <2>3 DEF Nameless, Kinds
    <3> QED
      BY <1>7, <2>3, <3>1, <1>i, IdleType, CallStep DEF OpenTemp, DropTemp
  <2> QED
    BY <1>7, <2>2, <2>3 DEF OpenTemp
<1> QED
  BY <1>1, <1>2, <1>3, <1>5, <1>6, <1>7 DEF Opening

\* The operations on an open file, but for the queue.
LEMMA OnFileType ==
  ASSUME TInv, NEW t \in Thread, Write(t) \/ Flush(t) \/ Upload(t) \/ Put(t) \/ Release(t)
  PROVE  TInv'
<1> USE Parts
<1> DEFINE P == call[t].path
<1>c. call[t] \in Call /\ (hand[t] # Closed => hand[t].path \in Path)
  BY DEF Handles
<1>i. \A a : Ends(t, a) => call' = [call EXCEPT ![t] = Idle] /\ ebadf' \in BOOLEAN
  BY AnswerType DEF Ends
<1>1. CASE Write(t)
  <2>1. ebadf' \in BOOLEAN /\ dirty' \subseteq Path
    BY <1>1, <1>c, AnswerType DEF Write, OnHandle, Rest
  <2> QED
    BY <1>1, <2>1, FileStep DEF Write
<1>2. CASE Flush(t)
  <2>1. CASE Answer("badf") /\ UNCHANGED call
    BY <1>2, <2>1, AnswerType, FileStep DEF Flush, files
  <2>2. CASE /\ call' = [call EXCEPT ![t].pc = "upload", ![t].path = hand[t].path]
             /\ UNCHANGED ebadf
    <3> DEFINE c == [call[t] EXCEPT !.pc = "upload", !.path = hand[t].path]
    <3>1. c \in Call /\ c.vec = call[t].vec /\ call' = [call EXCEPT ![t] = c]
      BY <1>2, <1>c, <2>2 DEF Flush, Rest, Call, Step
    <3>2. Fits(c, hand[t])
      BY <1>2, <1>c, <3>1 DEF Flush, Rest, Ready, Fits, Call, OpeningSteps
    <3> QED
      BY <1>2, <2>2, <3>1, <3>2, CallStep DEF Flush, files
  <2> QED
    BY <1>2, <2>1, <2>2 DEF Flush
<1>3. CASE Upload(t)
  <2>1. CASE Ends(t, "ok") /\ UNCHANGED fdt
    BY <1>3, <2>1, <1>i, IdleType, CallStep DEF Upload, files
  <2>2. CASE /\ P \in temp \cap dirty
             /\ \E n \in Fd : /\ fdt' = [fdt EXCEPT ![n] = P]
                              /\ call' = [call EXCEPT ![t].pc = "put", ![t].tfd = n]
             /\ UNCHANGED ebadf
    <3>1. PICK n \in Fd : /\ fdt' = [fdt EXCEPT ![n] = P]
                          /\ call' = [call EXCEPT ![t].pc = "put", ![t].tfd = n]
      BY <2>2
    <3> DEFINE c == [call[t] EXCEPT !.pc = "put", !.tfd = n]
    <3>2. c \in Call /\ c.vec = call[t].vec /\ call' = [call EXCEPT ![t] = c]
      BY <3>1 DEF Call, Step
    <3>3. Fits(c, hand[t])
      BY <1>3, <3>2 DEF Upload, At, Fits, Call, OpeningSteps
    <3>4. fdt' \in [Fd -> Kinds \cup Path]
      BY <2>2, <3>1
    <3> QED
      BY <1>3, <2>2, <3>2, <3>3, <3>4, CallStep DEF Upload, files
  <2> QED
    BY <1>3, <2>1, <2>2 DEF Upload
<1>4. CASE Put(t)
  <2>1. P \in Path
    BY <1>4 DEF Put, At, Fits
  <2>2. /\ fdt' \in [Fd -> Kinds \cup Path]
        /\ temp' \subseteq Path /\ cached' \subseteq Path /\ dirty' \subseteq Path
    BY <1>4, <2>1 DEF Put, Close, Nameless, Commit, DropTemp, Kinds
  <2>3. Ends(t, "ok") /\ UNCHANGED <<hand, queued>>
    BY <1>4 DEF Put
  <2> QED
    BY <2>2, <2>3, <1>i, IdleType, CallStep
<1>5. CASE Release(t)
  <2>1. fdt' \in [Fd -> Kinds \cup Path] /\ ebadf' \in BOOLEAN
    BY <1>5, AnswerType DEF Release, Close, Kinds
  <2>2. hand' \in [Thread -> Handles] /\ call' = call
    BY <1>5 DEF Release, Handles
  <2>3. \A u \in Thread : Fits(call'[u], hand'[u])
    BY <1>5 DEF Release, Rest, Fits
  <2> QED
    BY <1>5, <2>1, <2>2, <2>3, FileStep DEF Release, files
<1> QED
  BY <1>1, <1>2, <1>3, <1>4, <1>5

\* The operations on paths that do more than answer.
LEMMA OnPathType ==
  ASSUME TInv, NEW t \in Thread, NEW p \in Path,
         \/ \E creat \in BOOLEAN : Open(t, p, creat)
         \/ Mknod(t, p) \/ Unlink(t, p)
         \/ \E q \in Path : Rename(t, p, q)
  PROVE  TInv'
<1> USE Parts
<1>1. ASSUME NEW creat \in BOOLEAN, Open(t, p, creat) PROVE TInv'
  <2>1. ASSUME NEW l \in {"look", "make"},
               call' = [call EXCEPT ![t] = [Idle EXCEPT !.pc = l, !.path = p, !.creat = creat]],
               UNCHANGED <<hand, ebadf>>
        PROVE  TInv'
    <3> DEFINE c == [Idle EXCEPT !.pc = l, !.path = p, !.creat = creat]
    <3>1. c \in Call /\ c.vec = <<>>
      BY IdleType DEF Idle, Call, Step
    <3>2. Fits(c, hand[t])
      BY <1>1, <3>1 DEF Open, Idle, Fits
    <3> QED
      BY <1>1, <2>1, <3>1, <3>2, CallStep DEF Open, files
  <2>2. CASE /\ hand' = [hand EXCEPT ![t] = [path |-> p, fh |-> 0]]
             /\ Answer("ok") /\ UNCHANGED call
    <3>1. hand' \in [Thread -> Handles] /\ ebadf' \in BOOLEAN
      BY <2>2, FuseOpsAssumption, AnswerType DEF Handles, Fd
    <3>2. \A u \in Thread : Fits(call'[u], hand'[u])
      BY <1>1, <2>2 DEF Open, Ready, Fits, OpeningSteps
    <3> QED
      BY <1>1, <2>2, <3>1, <3>2, FileStep DEF Open, files
  <2>3. CASE Answer("fail") /\ UNCHANGED <<hand, call>>
    BY <1>1, <2>3, AnswerType, FileStep DEF Open, files
  <2> QED
    BY <1>1, <2>1, <2>2, <2>3 DEF Open, AfterGetAttr
<1>2. CASE Mknod(t, p)
  BY <1>2, AnswerType, FileStep DEF Mknod
<1>3. CASE Unlink(t, p)
  <2>1. fdt' \in [Fd -> Kinds \cup Path] /\ temp' \subseteq Path /\ dirty' \subseteq Path
    BY <1>3 DEF Unlink, Nameless, DropTemp, Kinds
  <2> QED
    BY <1>3, <2>1, AnswerType, FileStep DEF Unlink
<1>4. ASSUME NEW q \in Path, Rename(t, p, q) PROVE TInv'
  <2>1. /\ Renamed(hand, p, q) \in [Thread -> Handles]
        /\ \A u \in Thread : Fits(call[u], Renamed(hand, p, q)[u])
    <3>1. \A u \in Thread : hand[u].path = p => hand[u] # Closed /\ hand[u].fh \in Fd
      BY FuseOpsAssumption DEF Handles, Closed
    <3> QED
      BY <3>1 DEF Renamed, Handles, Fits
  <2>2. hand' \in {hand, Renamed(hand, p, q)} /\ ebadf' \in BOOLEAN
    BY <1>4, AnswerType DEF Rename, RenameRemote, RenameFails, RenameBoth
  <2>3. /\ fdt' \in [Fd -> Kinds \cup Path]
        /\ temp' \subseteq Path /\ dirty' \subseteq Path
    BY <1>4 DEF Rename, RenameRemote, RenameFails, RenameBoth, Nameless, Kinds
  <2> QED
    BY <1>4, <2>1, <2>2, <2>3, FileStep DEF Rename
<1> QED
  BY <1>1, <1>2, <1>3, <1>4

\* A directory that is never closed.
LEMMA FsyncdirType == ASSUME TInv, NEW t \in Thread, Fsyncdir(t) PROVE TInv'
<1> USE Parts
<1>1. fdt' \in [Fd -> Kinds \cup Path]
  BY DEF Fsyncdir, Kinds
<1> QED
  BY <1>1, AnswerType, FileStep DEF Fsyncdir, files

\* Sequences of fewer elements are sequences of more.
LEMMA SeqMonotone == ASSUME NEW S, NEW T, S \subseteq T PROVE Seq(S) \subseteq Seq(T)
OBVIOUS

\* A shuffled sequence is one.
LEMMA ShuffleType ==
  ASSUME NEW S, NEW v \in Seq(S), NEW s \in SetToSeqs(ToSet(v))
  PROVE  s \in Seq(S)
<1> DEFINE E == ToSet(v)
<1>1. IsFiniteSet(E)
  <2>1. v \in Surjection(1..Len(v), E)
    BY DEF Surjection, ToSet
  <2>2. IsFiniteSet(1..Len(v))
    BY FS_Interval
  <2> QED
    BY <2>1, <2>2, FS_Surjection
<1>2. Cardinality(E) \in Nat
  BY <1>1, FS_CardinalityType
<1>3. s \in [1..Cardinality(E) -> E]
  BY DEF SetToSeqs
<1>4. E \subseteq S
  BY DEF ToSet
<1>5. s \in [1..Cardinality(E) -> S]
  BY <1>3, <1>4
<1> QED
  BY <1>2, <1>5

\* A step of the queue changes none of the rest.
LEMMA QueueStep ==
  ASSUME TInv, UNCHANGED <<inject, fdt, files, hand>>,
         Shape', call' \in [Thread -> Call], ebadf' \in BOOLEAN,
         tickets' \in 0..MaxTickets, ran' \subseteq 1..tickets', Ticketed'
  PROVE  TInv'
<1>1. Known' \subseteq Entry
  BY FuseOpsAssumption DEF Known, Entry
<1>2. queue' \in Seq(Entry)
  BY <1>1, SeqMonotone DEF Ticketed
<1>3. poll' \in [pc : {"pop", "run"}, head : Entry] \cup {Asleep}
  BY <1>1 DEF Ticketed
<1>4. FTypeOK'
  BY <1>2, <1>3 DEF TInv, FTypeOK, files
<1> QED
  BY <1>4 DEF TInv

\* The operations that are queued, and the shuffle after them.
LEMMA QueueingType ==
  ASSUME TInv, NEW t \in Thread,
         (\E op \in {"write", "flush"} : Enqueue(t, op)) \/ Drain(t) \/ Refill(t)
  PROVE  TInv'
<1> USE Parts
<1>k. /\ tickets \in Nat /\ tickets <= MaxTickets /\ ran \subseteq 1..tickets
      /\ queue \in Seq(Known) /\ \A u \in Thread : call[u].vec \in Seq(Known)
      /\ poll \in [pc : {"pop", "run"}, head : Known] \cup {Asleep}
      /\ tickets \in 0..MaxTickets
  BY FuseOpsAssumption DEF TInv, FTypeOK, Ticketed
<1>i. \A a : Ends(t, a) => call' = [call EXCEPT ![t] = Idle] /\ ebadf' \in BOOLEAN
  BY AnswerType DEF Ends
<1>e. UNCHANGED tickets => Known' = Known /\ <<>> \in Seq(Known)
  BY DEF Known
<1>s. ASSUME NEW c \in Call, call' = [call EXCEPT ![t] = c], UNCHANGED hand, Fits(c, hand[t])
      PROVE  Shape' /\ call' \in [Thread -> Call]
  BY <1>s DEF Shape, Fits
<1>1. ASSUME NEW op \in {"write", "flush"}, Enqueue(t, op) PROVE TInv'
  <2> DEFINE c == [call[t] EXCEPT !.pc = "shuffle"]
             e == [id |-> tickets + 1, op |-> op, code |-> Code(op)]
  <2>1. c \in Call /\ call' = [call EXCEPT ![t] = c] /\ c.vec = call[t].vec
    BY <1>1 DEF Enqueue, Goto, Call, Step
  <2>2. Fits(c, hand[t])
    BY <1>1, <2>1 DEF Enqueue, Rest, Ready, Fits, Call, OpeningSteps
  <2>3. /\ tickets' = tickets + 1 /\ tickets' \in 0..MaxTickets
        /\ Known \subseteq Known'
    BY <1>1, <1>k, FuseOpsAssumption DEF Enqueue, Known
  <2>4. e \in Known'
    BY <1>k, <2>3 DEF Known, Code
  <2>5. Seq(Known) \subseteq Seq(Known')
    BY <2>3, SeqMonotone
  <2>6. queue' \in Seq(Known')
    BY <1>1, <1>k, <2>4, <2>5, AppendProperties DEF Enqueue
  <2>7. \A u \in Thread : call'[u].vec \in Seq(Known')
    BY <1>k, <2>1, <2>5
  <2>8. poll' \in [pc : {"pop", "run"}, head : Known'] \cup {Asleep}
    BY <1>1, <1>k, <2>3 DEF Enqueue
  <2>9. ran' \subseteq 1..tickets'
    BY <1>1, <1>k, <2>3 DEF Enqueue
  <2>10. Ticketed'
    BY <2>6, <2>7, <2>8 DEF Ticketed
  <2> QED
    BY <1>1, <1>s, <2>1, <2>2, <2>3, <2>9, <2>10, QueueStep DEF Enqueue
<1>2. CASE Drain(t)
  <2>1. CASE queue = <<>>
    <3>1. Ends(t, "ok") /\ UNCHANGED queued
      BY <1>2, <2>1 DEF Drain, queued
    <3> QED
      BY <1>2, <1>i, <3>1, IdleType, CallStep DEF Drain, files
  <2>2. CASE queue # <<>>
    <3> DEFINE c == [call[t] EXCEPT !.pc = "refill", !.vec = queue]
    <3>1. queue \in Seq(Entry)
      BY DEF TInv, FTypeOK
    <3>2. c \in Call /\ call' = [call EXCEPT ![t] = c] /\ c.vec = queue
      <4>1. call[t] \in Call /\ "refill" \in Step
        BY DEF Step
      <4>2. c \in Call /\ c.vec = queue
        BY <3>1, <4>1 DEF Call
      <4>3. call' = [call EXCEPT ![t].pc = "refill", ![t].vec = queue]
        BY <1>2, <2>2 DEF Drain
      <4> QED
        BY <4>2, <4>3
    <3>3. Fits(c, hand[t])
      BY <1>2, <3>2 DEF Drain, At, Fits, Call, OpeningSteps
    <3>4. Ticketed'
      BY <1>2, <2>2, <1>k, <1>e, <3>2 DEF Drain, Ticketed
    <3> QED
      BY <1>2, <2>2, <1>k, <1>s, <3>2, <3>3, <3>4, QueueStep DEF Drain
  <2> QED
    BY <2>1, <2>2
<1>3. CASE Refill(t)
  <2>1. PICK s \in SetToSeqs(ToSet(call[t].vec)) : queue' = queue \o s
    BY <1>3 DEF Refill
  <2>2. s \in Seq(Known)
    BY <1>k, <2>1, ShuffleType
  <2>3. queue' \in Seq(Known)
    BY <1>k, <2>1, <2>2, ConcatProperties
  <2>4. Ticketed'
    BY <1>3, <1>i, <1>k, <1>e, <2>3, IdleType DEF Refill, Ticketed
  <2> QED
    BY <1>3, <1>i, <1>k, <1>s, <2>4, IdleType, QueueStep DEF Refill
<1> QED
  BY <1>1, <1>2, <1>3

\* The polling thread.
LEMMA PollType == ASSUME TInv, PollFront \/ PollPop \/ PollRun PROVE TInv'
<1> USE Parts
<1>k. /\ queue \in Seq(Known) /\ \A u \in Thread : call[u].vec \in Seq(Known)
      /\ poll \in [pc : {"pop", "run"}, head : Known] \cup {Asleep}
      /\ tickets \in 0..MaxTickets /\ ran \subseteq 1..tickets /\ Shape
  BY DEF TInv, FTypeOK, Ticketed
<1>1. /\ Known' = Known /\ call' = call /\ tickets' = tickets /\ ebadf' = ebadf
      /\ UNCHANGED <<inject, fdt, files, hand>>
  BY DEF PollFront, PollPop, PollRun, Known
<1>2. Shape'
  BY <1>k, <1>1 DEF Shape, Fits
<1>3. queue' \in Seq(Known)
  BY <1>k, HeadTailProperties DEF PollFront, PollPop, PollRun
<1>4. poll' \in [pc : {"pop", "run"}, head : Known] \cup {Asleep}
  <2>1. CASE PollFront
    BY <1>k, <2>1, HeadTailProperties DEF PollFront
  <2>2. CASE PollPop
    BY <1>k, <2>2 DEF PollPop, Asleep
  <2>3. CASE PollRun
    BY <2>3 DEF PollRun
  <2> QED
    BY <2>1, <2>2, <2>3
<1>5. ran' \subseteq 1..tickets'
  <2>1. CASE PollRun
    <3>1. poll.head \in Known
      BY <1>k, <2>1 DEF PollRun, Asleep
    <3> QED
      BY <1>k, <1>1, <2>1, <3>1 DEF PollRun, Known
  <2> QED
    BY <1>k, <1>1, <2>1 DEF PollFront, PollPop
<1>6. Ticketed'
  BY <1>k, <1>1, <1>3, <1>4 DEF Ticketed
<1> QED
  BY <1>k, <1>1, <1>2, <1>5, <1>6, QueueStep

\* Every step is one of those.
LEMMA NextType == TInv /\ [Next]_vars => TInv'
<1> SUFFICES ASSUME TInv, [Next]_vars PROVE TInv'
  OBVIOUS
<1>1. CASE UNCHANGED vars
  <2>1. Quiet
    BY <1>1, Parts DEF vars, Quiet
  <2> QED
    BY <2>1, QuietType
<1>2. CASE PollFront \/ PollPop \/ PollRun
  BY <1>2, PollType
<1>3. ASSUME NEW t \in Thread,
             OnFile(t) \/ Opening(t) \/ (\E p \in Path : OnPath(t, p)) \/ Elsewhere(t)
      PROVE  TInv'
  <2>1. CASE Quietly(t)
    BY <2>1, QuietActs, QuietType
  <2>2. CASE OnFile(t)
    BY <2>1, <2>2, OnFileType, QueueingType DEF OnFile, Quietly
  <2>3. CASE \E p \in Path : OnPath(t, p)
    BY <2>1, <2>3, OnPathType DEF OnPath, Quietly
  <2>4. CASE Elsewhere(t)
    BY <2>1, <2>4, FsyncdirType DEF Elsewhere, Quietly
  <2> QED
    BY <1>3, <2>2, <2>3, <2>4, OpeningType
<1> QED
  BY <1>1, <1>2, <1>3 DEF Next

\* The state of a client always has its type: every descriptor refers to
\* something the process opened, what is queued has a code executeQueueHead
\* knows, and what it executed was queued.
THEOREM ClientTypeCorrect == Spec => []FTypeOK
<1>1. TInv => FTypeOK
  BY DEF TInv
<1> QED
  BY InitType, NextType, <1>1, PTL DEF Spec

----------------------------------------------------------------------------
(* Descriptors                                                             *)

Sound == \A t \in Thread : \A n \in Held(t) : fdt[n] \notin {"free", "std", "dir"}
Apart == \A t, u \in Thread : t # u => Held(t) \cap Held(u) = {}

\* A thread that uploads has the file open a second time.
TwoDescriptors == \A t \in Thread : hand[t] # Closed => call[t].tfd # hand[t].fh

\* A file that is removed from temp loses its name wherever it is open: who
\* has a named file open has the one in temp.
NamedInTemp == \A n \in Fd : fdt[n] \in Path => fdt[n] \in temp

Right == \A t \in Thread : hand[t] # Closed => fdt[hand[t].fh] \in {hand[t].path, "gone"}

\* OneOwner and OwnFile, with what they need to be inductive: a rename that
\* only the server has done must not find the old file open by name.
OInv ==
  /\ NamedInTemp
  /\ OpensAreReal => Sound /\ Apart /\ TwoDescriptors /\ (~half => Right)

\* What a thread holds are descriptors.
LEMMA HeldType == ASSUME TInv, NEW t \in Thread PROVE Held(t) \subseteq Fd
BY Parts DEF Held, Handles, Closed, Call

\* A start without open files.
LEMMA InitOwn == Init => OInv
<1> SUFFICES ASSUME Init PROVE OInv
  OBVIOUS
<1>1. \A t \in Thread : Held(t) = {} /\ hand[t] = Closed
  BY DEF Init, Held, Idle, Closed
<1>2. NamedInTemp
  BY FuseOpsAssumption DEF Init, NamedInTemp, Kinds
<1> QED
  BY <1>1, <1>2 DEF OInv, Sound, Apart, TwoDescriptors, Right

\* A step that neither opens nor closes anything.
LEMMA KeepStep ==
  ASSUME TInv, OInv, UNCHANGED <<inject, fdt, hand>>, temp \subseteq temp', half => half',
         \A t \in Thread : /\ call'[t].cfd \in {call[t].cfd, NoFd}
                           /\ call'[t].tfd \in {call[t].tfd, NoFd}
  PROVE  OInv'
<1>1. NamedInTemp'
  BY DEF OInv, NamedInTemp
<1>2. (OpensAreReal <=> OpensAreReal') /\ (~half' => ~half) /\ (Right => Right')
  BY DEF OpensAreReal, Right
<1>3. \A t \in Thread : Held(t)' \subseteq Held(t)
  BY DEF Held
<1>4. Sound => Sound'
  BY <1>3 DEF Sound
<1>5. Apart => Apart'
  BY <1>3 DEF Apart
<1>6. TwoDescriptors => TwoDescriptors'
  BY Parts DEF TwoDescriptors, Handles, NoFd, Fd
<1> QED
  BY <1>1, <1>2, <1>4, <1>5, <1>6 DEF OInv

\* A free descriptor is given to one thread, or to nobody.
LEMMA TakeStep ==
  ASSUME TInv, OInv, UNCHANGED inject, half => half',
         NEW t \in Thread, NEW n \in Fd, Gets(n),
         NEW k \in {"cache", "dir"} \cup Path, fdt' = [fdt EXCEPT ![n] = k],
         temp \subseteq temp', k \in Path => k \in temp',
         \A u \in Thread \ {t} : UNCHANGED <<hand[u], call[u]>>,
         Held(t)' \subseteq Held(t) \cup {n},
         k = "dir" => n \notin Held(t)',
         hand'[t] # Closed => call'[t].tfd # hand'[t].fh,
         hand'[t] # Closed =>
            \/ hand'[t] = hand[t]
            \/ hand'[t].fh = n /\ hand'[t].path = k
  PROVE  OInv'
<1> USE Parts
<1>1. fdt[n] = "free" /\ fdt \in [Fd -> Kinds \cup Path]
  BY DEF Gets, Unused
<1>2. NamedInTemp'
  BY <1>1, FuseOpsAssumption DEF OInv, NamedInTemp, Kinds
<1>3. (OpensAreReal <=> OpensAreReal') /\ (~half' => ~half)
  BY DEF OpensAreReal
<1>4. ASSUME Sound, Apart, TwoDescriptors
      PROVE  Sound' /\ Apart' /\ TwoDescriptors' /\ (Right => Right')
  <2>1. \A u \in Thread \ {t} : Held(u)' = Held(u)
    BY DEF Held
  <2>2. \A u \in Thread : n \notin Held(u) /\ Held(u) \subseteq Fd
    BY <1>1, <1>4, HeldType DEF Sound
  <2>3. Sound'
    <3> SUFFICES ASSUME NEW u \in Thread, NEW m \in Held(u)'
                 PROVE  fdt'[m] \notin {"free", "std", "dir"}
      BY DEF Sound
    <3>1. CASE m = n
      BY <1>1, <2>1, <2>2, <3>1, FuseOpsAssumption DEF Kinds
    <3>2. CASE m # n
      BY <1>4, <2>1, <2>2, <3>2 DEF Sound
    <3> QED
      BY <3>1, <3>2
  <2>4. Apart'
    BY <1>4, <2>1, <2>2 DEF Apart
  <2>5. TwoDescriptors'
    BY <1>4, <2>1 DEF TwoDescriptors
  <2>6. ASSUME Right PROVE Right'
    <3> SUFFICES ASSUME NEW u \in Thread, hand'[u] # Closed
                 PROVE  fdt'[hand'[u].fh] \in {hand'[u].path, "gone"}
      BY DEF Right
    <3>1. CASE hand'[u] = hand[u]
      <4>1. hand[u].fh \in Held(u)
        BY <3>1 DEF Held, Handles, NoFd, Fd
      <4> QED
        BY <1>1, <2>2, <2>6, <3>1, <4>1 DEF Right
    <3>2. CASE u = t /\ hand'[t].fh = n /\ hand'[t].path = k
      BY <1>1, <3>2
    <3> QED
      BY <3>1, <3>2
  <2> QED
    BY <2>3, <2>4, <2>5, <2>6
<1> QED
  BY <1>2, <1>3, <1>4 DEF OInv

\* Descriptors are closed that nobody holds afterwards, and files lose their
\* names.
LEMMA LoseStep ==
  ASSUME TInv, OInv, UNCHANGED <<inject, half>>, NEW S, NEW D \in SUBSET Path,
         fdt' = [n \in Fd |-> IF n \in S THEN "free" ELSE IF fdt[n] \in D THEN "gone" ELSE fdt[n]],
         temp \ D \subseteq temp',
         \A u \in Thread : /\ hand'[u] \in {hand[u], Closed}
                           /\ call'[u].cfd \in {call[u].cfd, NoFd}
                           /\ call'[u].tfd \in {call[u].tfd, NoFd},
         OpensAreReal => \A u \in Thread : Held(u)' \cap S = {}
  PROVE  OInv'
<1> USE Parts
<1>1. NamedInTemp'
  BY FuseOpsAssumption DEF OInv, NamedInTemp, Kinds
<1>2. OpensAreReal <=> OpensAreReal'
  BY DEF OpensAreReal
<1>3. ASSUME OpensAreReal, Sound, Apart, TwoDescriptors
      PROVE  Sound' /\ Apart' /\ TwoDescriptors' /\ (Right => Right')
  <2>1. \A u \in Thread : Held(u)' \subseteq Held(u) /\ Held(u) \subseteq Fd
    BY HeldType DEF Held, Closed
  <2>2. Sound'
    BY <1>3, <2>1 DEF Sound
  <2>3. Apart'
    BY <1>3, <2>1 DEF Apart
  <2>4. TwoDescriptors'
    BY <1>3 DEF TwoDescriptors, Handles, NoFd, Fd
  <2>5. ASSUME Right PROVE Right'
    <3> SUFFICES ASSUME NEW u \in Thread, hand'[u] # Closed
                 PROVE  fdt'[hand'[u].fh] \in {hand'[u].path, "gone"}
      BY DEF Right
    <3>1. hand'[u] = hand[u] /\ hand[u].fh \in Fd
      BY DEF Handles
    <3>2. hand[u].fh \in Held(u)'
      BY <3>1 DEF Held, NoFd, Fd
    <3>3. hand[u].fh \notin S
      BY <1>3, <3>2
    <3> QED
      BY <2>5, <3>1, <3>3 DEF Right
  <2> QED
    BY <2>2, <2>3, <2>4, <2>5
<1> QED
  BY <1>1, <1>2, <1>3 DEF OInv

\* The temp file of a path moves to another, and with it the open files.
LEMMA MoveStep ==
  ASSUME TInv, OInv, UNCHANGED <<inject, call>>, NEW p \in Path, NEW q \in Path, p # q,
         ~InUse(q), temp' = (temp \ {p}) \cup {q},
         fdt' = [n \in Fd |-> IF fdt[n] = p THEN q ELSE Nameless(fdt, q)[n]],
         \/ hand' = Renamed(hand, p, q) /\ UNCHANGED half
         \/ half' /\ UNCHANGED hand,
         temp' \subseteq Path, hand' \in [Thread -> Handles]
  PROVE  OInv'
<1> USE Parts
<1>1. \A n \in Fd : fdt'[n] = IF fdt[n] = p THEN q ELSE IF fdt[n] = q THEN "gone" ELSE fdt[n]
  BY DEF Nameless
<1>2. NamedInTemp'
  BY <1>1, FuseOpsAssumption DEF OInv, NamedInTemp, Kinds
<1>3. OpensAreReal <=> OpensAreReal'
  BY DEF OpensAreReal
<1>4. \A u \in Thread : /\ hand'[u].fh = hand[u].fh
                        /\ hand'[u] # Closed => hand[u] # Closed
  BY FuseOpsAssumption DEF Renamed, Handles, Closed
<1>5. \A u \in Thread : Held(u)' = Held(u) /\ Held(u) \subseteq Fd
  BY <1>4, HeldType DEF Held
<1>6. (Sound => Sound') /\ (Apart => Apart')
  BY <1>1, <1>5, FuseOpsAssumption DEF Sound, Apart, Kinds
<1>7. TwoDescriptors => TwoDescriptors'
  BY <1>4 DEF TwoDescriptors
<1>8. ASSUME ~half', ~half => Right PROVE Right'
  <2>1. hand' = Renamed(hand, p, q) /\ Right
    BY <1>8
  <2> SUFFICES ASSUME NEW u \in Thread, hand'[u] # Closed
               PROVE  fdt'[hand'[u].fh] \in {hand'[u].path, "gone"}
    BY DEF Right
  <2>2. hand[u] # Closed /\ hand[u].fh \in Fd /\ hand[u].path # q
    BY <1>4 DEF Handles, InUse
  <2>3. fdt[hand[u].fh] \in {hand[u].path, "gone"} /\ hand[u].path \in Path
    BY <2>1, <2>2 DEF Right, Handles
  <2>4. hand'[u].path = IF hand[u].path = p THEN q ELSE hand[u].path
    BY <2>1, <2>2 DEF Renamed, Handles
  <2> QED
    BY <1>1, <1>4, <2>2, <2>3, <2>4, FuseOpsAssumption DEF Kinds
<1> QED
  BY <1>2, <1>3, <1>6, <1>7, <1>8 DEF OInv

\* Only the server renames: nobody has the old file open by its name.
LEMMA RemoteStep ==
  ASSUME TInv, OInv, UNCHANGED <<inject, fdt, temp, call>>, NEW p \in Path, NEW q \in Path,
         hand' = Renamed(hand, p, q), half' = (half \/ p \in temp),
         hand' \in [Thread -> Handles]
  PROVE  OInv'
<1> USE Parts
<1>1. NamedInTemp' /\ (OpensAreReal <=> OpensAreReal')
  BY DEF OInv, NamedInTemp, OpensAreReal
<1>2. \A u \in Thread : /\ hand'[u].fh = hand[u].fh
                        /\ hand'[u] # Closed => hand[u] # Closed
  BY FuseOpsAssumption DEF Renamed, Handles, Closed
<1>3. \A u \in Thread : Held(u)' = Held(u)
  BY <1>2 DEF Held
<1>4. (Sound => Sound') /\ (Apart => Apart') /\ (TwoDescriptors => TwoDescriptors')
  BY <1>2, <1>3 DEF Sound, Apart, TwoDescriptors
<1>5. ASSUME ~half', ~half => Right PROVE Right'
  <2>1. Right /\ p \notin temp
    BY <1>5
  <2> SUFFICES ASSUME NEW u \in Thread, hand'[u] # Closed
               PROVE  fdt'[hand'[u].fh] \in {hand'[u].path, "gone"}
    BY DEF Right
  <2>2. /\ hand[u] # Closed /\ hand[u].fh \in Fd
        /\ fdt[hand[u].fh] \in {hand[u].path, "gone"}
    BY <1>2, <2>1 DEF Right, Handles
  <2>3. fdt[hand[u].fh] # p
    BY <2>1, <2>2 DEF OInv, NamedInTemp
  <2>4. hand'[u].path = IF hand[u].path = p THEN q ELSE hand[u].path
    BY <2>2 DEF Renamed, Handles
  <2> QED
    BY <1>2, <2>2, <2>3, <2>4
<1> QED
  BY <1>1, <1>4, <1>5 DEF OInv

\* The steps of an opening thread.
LEMMA OpeningOwn == ASSUME TInv, OInv, NEW t \in Thread, Opening(t) PROVE OInv'
<1> USE Parts
<1> DEFINE P == call[t].path
<1>p. call[t].pc \in OpeningSteps => P \in Path /\ hand[t] = Closed
  BY DEF Fits
<1>h. hand[t] = Closed => Held(t) = {call[t].cfd, call[t].tfd} \ {NoFd}
  BY DEF Held, Closed
<1>g. ASSUME NEW l, Goto(t, l)
      PROVE  \A u \in Thread : call'[u].cfd = call[u].cfd /\ call'[u].tfd = call[u].tfd
  BY <1>g DEF Goto, Call
<1>i. ASSUME NEW a, Ends(t, a)
      PROVE  /\ call' = [call EXCEPT ![t] = Idle]
             /\ call'[t].cfd = NoFd /\ call'[t].tfd = NoFd
  BY <1>i DEF Ends, Idle
<1>1. CASE LookInCache(t)
  <2>1. CASE Goto(t, "lookTemp") /\ UNCHANGED fdt
    BY <1>1, <2>1, <1>g, KeepStep DEF LookInCache, files, queued
  <2>2. CASE \E n \in Fd : /\ Gets(n)
                           /\ fdt' = [fdt EXCEPT ![n] = "cache"]
                           /\ call' = [call EXCEPT ![t].pc = "lookTemp", ![t].cfd = n]
    <3>1. PICK n \in Fd : /\ Gets(n)
                          /\ fdt' = [fdt EXCEPT ![n] = "cache"]
                          /\ call' = [call EXCEPT ![t].pc = "lookTemp", ![t].cfd = n]
      BY <2>2
    <3>2. /\ call'[t].cfd = n /\ call'[t].tfd = call[t].tfd
          /\ \A u \in Thread \ {t} : call'[u] = call[u]
      BY <3>1 DEF Call
    <3>3. hand[t] = Closed /\ hand' = hand /\ UNCHANGED <<inject, half, temp>>
      BY <1>1, <1>p DEF LookInCache, At, OpeningSteps, files, queued
    <3>4. Held(t)' \subseteq Held(t) \cup {n}
      BY <3>2, <3>3 DEF Held
    <3> QED
      BY <3>1, <3>2, <3>3, <3>4, FuseOpsAssumption, TakeStep DEF Kinds
  <2> QED
    BY <1>1, <2>1, <2>2 DEF LookInCache
<1>2. CASE LookInTemp(t)
  <2>1. CASE Goto(t, "decide") /\ UNCHANGED fdt
    BY <1>2, <2>1, <1>g, KeepStep DEF LookInTemp, files, queued
  <2>2. CASE /\ P \in temp
             /\ \E n \in Fd : /\ Gets(n)
                              /\ fdt' = [fdt EXCEPT ![n] = P]
                              /\ call' = [call EXCEPT ![t].pc = "decide", ![t].tfd = n]
    <3>1. PICK n \in Fd : /\ Gets(n)
                          /\ fdt' = [fdt EXCEPT ![n] = P]
                          /\ call' = [call EXCEPT ![t].pc = "decide", ![t].tfd = n]
      BY <2>2
    <3>2. /\ call'[t].tfd = n /\ call'[t].cfd = call[t].cfd
          /\ \A u \in Thread \ {t} : call'[u] = call[u]
      BY <3>1 DEF Call
    <3>3. hand[t] = Closed /\ hand' = hand /\ UNCHANGED <<inject, half, temp>>
      BY <1>2, <1>p DEF LookInTemp, At, OpeningSteps, files, queued
    <3>4. Held(t)' \subseteq Held(t) \cup {n}
      BY <3>2, <3>3 DEF Held
    <3>5. P \in Path /\ P # "dir"
      BY <2>2, FuseOpsAssumption DEF Kinds
    <3> QED
      BY <2>2, <3>1, <3>2, <3>3, <3>4, <3>5, TakeStep
  <2> QED
    BY <1>2, <2>1, <2>2 DEF LookInTemp
<1>3. CASE Decide(t)
  <2> DEFINE S == {call[t].tfd} \cup ({call[t].cfd} \ {0})
  <2>1. /\ hand[t] = Closed /\ UNCHANGED <<inject, half, temp, hand>>
        /\ fdt' = Close(fdt, S)
    BY <1>3, <1>p DEF Decide, At, OpeningSteps, files, queued
  <2>2. PICK l \in {"fetch", "open"} :
          call' = [call EXCEPT ![t].pc = l, ![t].cfd = NoFd, ![t].tfd = NoFd]
    BY <1>3 DEF Decide
  <2>3. /\ call'[t].cfd = NoFd /\ call'[t].tfd = NoFd
        /\ \A u \in Thread \ {t} : call'[u] = call[u]
    BY <2>2 DEF Call
  <2>4. ASSUME OpensAreReal, NEW u \in Thread PROVE Held(u)' \cap S = {}
    <3>1. Held(t)' = {}
      BY <2>1, <2>3 DEF Held, Closed
    <3>2. S \subseteq Held(t) \cup {NoFd} /\ NoFd \notin Fd
      BY DEF Held, NoFd, Fd
    <3>3. u # t => Held(u)' = Held(u)
      BY <2>1, <2>3 DEF Held
    <3>4. u # t => Held(u) \cap Held(t) = {}
      BY <2>4 DEF OInv, Apart
    <3>5. Held(u) \subseteq Fd
      BY HeldType
    <3> QED
      BY <3>1, <3>2, <3>3, <3>4, <3>5
  <2>5. fdt' = [n \in Fd |-> IF n \in S THEN "free" ELSE IF fdt[n] \in {} THEN "gone" ELSE fdt[n]]
    BY <2>1 DEF Close
  <2>6. \A u \in Thread : /\ call'[u].cfd \in {call[u].cfd, NoFd}
                          /\ call'[u].tfd \in {call[u].tfd, NoFd}
    BY <2>3
  <2>7. {} \in SUBSET Path /\ temp \ {} \subseteq temp'
    BY <2>1
  <2> HIDE DEF S
  <2> QED
    BY <2>1, <2>4, <2>5, <2>6, <2>7, LoseStep
<1>4. CASE Fetch(t) \/ Fill(t)
  BY <1>4, <1>g, KeepStep DEF Fetch, Fill, Made, files, queued
<1>5. CASE MakeTemp(t) \/ MakeCache(t) \/ CreateOnServer(t)
  BY <1>5, <1>g, KeepStep DEF MakeTemp, MakeCache, CreateOnServer, Made, files, queued
<1>6. CASE OpenTemp(t)
  <2>1. P \in Path /\ P # "dir" /\ hand[t] = Closed /\ UNCHANGED <<inject, half>>
    BY <1>6, <1>p, FuseOpsAssumption DEF OpenTemp, At, OpeningSteps, Kinds, queued
  <2>2. CASE /\ \E n \in Fd : /\ Gets(n)
                              /\ fdt' = [fdt EXCEPT ![n] = P]
                              /\ hand' = [hand EXCEPT ![t] = [path |-> P, fh |-> n]]
             /\ temp' = temp \cup {P} /\ Ends(t, "ok")
    <3>1. PICK n \in Fd : /\ Gets(n)
                          /\ fdt' = [fdt EXCEPT ![n] = P]
                          /\ hand' = [hand EXCEPT ![t] = [path |-> P, fh |-> n]]
      BY <2>2
    <3>2. /\ call'[t].cfd = NoFd /\ call'[t].tfd = NoFd
          /\ \A u \in Thread \ {t} : call'[u] = call[u] /\ hand'[u] = hand[u]
          /\ hand'[t].fh = n /\ hand'[t].path = P
      BY <2>2, <3>1, <1>i
    <3>3. Held(t)' \subseteq Held(t) \cup {n}
      BY <3>2 DEF Held
    <3>4. call'[t].tfd # hand'[t].fh
      BY <3>2 DEF NoFd, Fd
    <3>5. temp \subseteq temp' /\ P \in temp'
      BY <2>2
    <3> QED
      BY <2>1, <3>1, <3>2, <3>3, <3>4, <3>5, TakeStep
  <2>3. CASE /\ DropTemp(P) /\ fdt' = Nameless(fdt, P)
             /\ Ends(t, "fail") /\ UNCHANGED hand
    <3>1. fdt' = [n \in Fd |-> IF n \in {} THEN "free" ELSE IF fdt[n] \in {P} THEN "gone" ELSE fdt[n]]
      BY <2>3 DEF Nameless
    <3>2. \A u \in Thread : /\ call'[u].cfd \in {call[u].cfd, NoFd}
                            /\ call'[u].tfd \in {call[u].tfd, NoFd}
      BY <2>3, <1>i
    <3>3. {P} \in SUBSET Path /\ temp \ {P} \subseteq temp'
      BY <2>1, <2>3 DEF DropTemp
    <3>4. \A u \in Thread : hand'[u] = hand[u] /\ Held(u)' \cap {} = {}
      BY <2>3
    <3> QED
      BY <2>1, <3>1, <3>2, <3>3, <3>4, LoseStep
  <2> QED
    BY <1>6, <2>2, <2>3 DEF OpenTemp
<1> QED
  BY <1>1, <1>2, <1>3, <1>4, <1>5, <1>6 DEF Opening

\* The operations on an open file.
LEMMA OnFileOwn == ASSUME TInv, OInv, NEW t \in Thread, OnFile(t), ~Quietly(t) PROVE OInv'
<1> USE Parts
<1> DEFINE P == call[t].path
<1>h. hand[t] # Closed => hand[t].fh \in Fd
  BY DEF Handles
<1>i. ASSUME NEW a, Ends(t, a)
      PROVE  /\ call' = [call EXCEPT ![t] = Idle]
             /\ call'[t].cfd = NoFd /\ call'[t].tfd = NoFd
  BY <1>i DEF Ends, Idle
<1>q. ASSUME NEW l, Goto(t, l)
      PROVE  \A u \in Thread : call'[u].cfd = call[u].cfd /\ call'[u].tfd = call[u].tfd
  BY <1>q DEF Goto, Call
<1>n. NoFd \notin Fd
  BY DEF NoFd, Fd
<1>1. CASE Write(t)
  BY <1>1, KeepStep DEF Write, queued
<1>2. CASE \E op \in {"write", "flush"} : Enqueue(t, op)
  BY <1>2, <1>q, KeepStep DEF Enqueue, files
<1>3. CASE Drain(t)
  <2>1. CASE queue = <<>>
    BY <1>3, <2>1, <1>i, KeepStep DEF Drain, files
  <2>2. CASE queue # <<>>
    <3>1. call' = [call EXCEPT ![t].pc = "refill", ![t].vec = queue]
      BY <1>3, <2>2 DEF Drain
    <3>2. \A u \in Thread : call'[u].cfd = call[u].cfd /\ call'[u].tfd = call[u].tfd
      BY <3>1 DEF Call
    <3> QED
      BY <1>3, <3>2, KeepStep DEF Drain, files
  <2> QED
    BY <2>1, <2>2
<1>4. CASE Refill(t)
  BY <1>4, <1>i, KeepStep DEF Refill, files
<1>5. CASE Flush(t)
  <2>1. ASSUME call' = [call EXCEPT ![t].pc = "upload", ![t].path = hand[t].path]
        PROVE  \A u \in Thread : call'[u].cfd = call[u].cfd /\ call'[u].tfd = call[u].tfd
    BY <2>1 DEF Call
  <2>2. UNCHANGED call \/ call' = [call EXCEPT ![t].pc = "upload", ![t].path = hand[t].path]
    BY <1>5 DEF Flush
  <2>3. \A u \in Thread : call'[u].cfd = call[u].cfd /\ call'[u].tfd = call[u].tfd
    BY <2>1, <2>2
  <2> QED
    BY <1>5, <2>3, KeepStep DEF Flush, files, queued
<1>6. CASE Upload(t)
  <2>1. CASE Ends(t, "ok") /\ UNCHANGED fdt
    BY <1>6, <2>1, <1>i, KeepStep DEF Upload, files, queued
  <2>2. CASE /\ P \in temp \cap dirty
             /\ \E n \in Fd : /\ Gets(n)
                              /\ fdt' = [fdt EXCEPT ![n] = P]
                              /\ call' = [call EXCEPT ![t].pc = "put", ![t].tfd = n]
    <3>1. PICK n \in Fd : /\ Gets(n)
                          /\ fdt' = [fdt EXCEPT ![n] = P]
                          /\ call' = [call EXCEPT ![t].pc = "put", ![t].tfd = n]
      BY <2>2
    <3>2. /\ call'[t].tfd = n /\ call'[t].cfd = call[t].cfd
          /\ \A u \in Thread \ {t} : call'[u] = call[u]
      BY <3>1 DEF Call
    <3>3. UNCHANGED <<inject, half, temp, hand>> /\ P \in Path /\ P # "dir"
      BY <1>6, <2>2, FuseOpsAssumption DEF Upload, files, queued, Kinds
    <3>4. Held(t)' \subseteq Held(t) \cup {n}
      BY <3>2, <3>3 DEF Held
    <3>5. ASSUME hand[t] # Closed, ~OpensAreReal PROVE OInv'
      <4>1. NamedInTemp'
        BY <2>2, <3>1, <3>3, FuseOpsAssumption DEF OInv, NamedInTemp, Kinds
      <4> QED
        BY <3>3, <3>5, <4>1 DEF OInv, OpensAreReal
    <3>6. ASSUME OpensAreReal, hand[t] # Closed PROVE hand[t].fh # n
      <4>1. hand[t].fh \in Held(t)
        BY <3>6, <1>h, <1>n DEF Held
      <4>2. fdt[n] = "free"
        BY <3>1 DEF Gets, Unused
      <4> QED
        BY <3>6, <4>1, <4>2 DEF OInv, Sound
    <3>7. (OpensAreReal \/ hand[t] = Closed) => OInv'
      BY <2>2, <3>1, <3>2, <3>3, <3>4, <3>6, TakeStep
    <3> QED
      BY <3>5, <3>7
  <2> QED
    BY <1>6, <2>1, <2>2 DEF Upload
<1>7. CASE Put(t)
  <2> DEFINE S == {call[t].tfd}
  <2>1. /\ UNCHANGED <<inject, half, hand>> /\ P \in Path
        /\ call'[t].cfd = NoFd /\ call'[t].tfd = NoFd
        /\ \A u \in Thread \ {t} : call'[u] = call[u]
    BY <1>7, <1>i DEF Put, At, Fits, queued
  <2>2. ASSUME OpensAreReal, NEW u \in Thread PROVE Held(u)' \cap S = {}
    <3>1. Held(t)' = {hand[t].fh} \ {NoFd}
      BY <2>1 DEF Held
    <3>2. S \subseteq Held(t) \cup {NoFd}
      BY DEF Held
    <3>3. u # t => Held(u)' = Held(u)
      BY <2>1 DEF Held
    <3>4. u # t => Held(u) \cap Held(t) = {}
      BY <2>2 DEF OInv, Apart
    <3>5. Held(u) \subseteq Fd
      BY HeldType
    <3>6. hand[t] # Closed => call[t].tfd # hand[t].fh
      BY <2>2 DEF OInv, TwoDescriptors
    <3>7. hand[t] = Closed => hand[t].fh = NoFd
      BY DEF Closed
    <3> QED
      BY <3>1, <3>2, <3>3, <3>4, <3>5, <3>6, <3>7, <1>n
  <2>3. \A u \in Thread : /\ hand'[u] = hand[u]
                          /\ call'[u].cfd \in {call[u].cfd, NoFd}
                          /\ call'[u].tfd \in {call[u].tfd, NoFd}
    BY <2>1
  <2>4. PICK D \in {{}, {P}} :
          /\ fdt' = [n \in Fd |-> IF n \in S THEN "free"
                                  ELSE IF fdt[n] \in D THEN "gone" ELSE fdt[n]]
          /\ temp \ D \subseteq temp'
    <3>1. CASE fdt' = Close(fdt, S) /\ UNCHANGED temp
      <4>1. \A n \in Fd : fdt[n] \notin {}
        OBVIOUS
      <4> QED
        BY <3>1, <4>1 DEF Close
    <3>2. CASE fdt' = Nameless(Close(fdt, S), P) /\ DropTemp(P)
      <4>1. "free" # P
        BY <2>1, FuseOpsAssumption DEF Kinds
      <4>2. fdt' = [n \in Fd |-> IF n \in S THEN "free"
                                 ELSE IF fdt[n] \in {P} THEN "gone" ELSE fdt[n]]
        BY <3>2, <4>1 DEF Nameless, Close
      <4>3. temp \ {P} \subseteq temp'
        BY <3>2 DEF DropTemp
      <4> QED
        BY <4>2, <4>3
    <3> QED
      BY <1>7, <3>1, <3>2 DEF Put
  <2>5. D \in SUBSET Path
    BY <2>1, <2>4
  <2> HIDE DEF S
  <2> QED
    BY <2>1, <2>2, <2>3, <2>4, <2>5, LoseStep
<1>8. CASE Release(t)
  <2>1. /\ hand' = [hand EXCEPT ![t] = Closed] /\ UNCHANGED <<inject, half, temp, call>>
        /\ hand[t] # Closed /\ call[t].cfd = NoFd /\ call[t].tfd = NoFd
    BY <1>8 DEF Release, Rest, Ready, files, queued, Fits
  <2>2. PICK S \in {{}, {hand[t].fh}} : fdt' = Close(fdt, S)
    <3>1. fdt' = Close(fdt, {hand[t].fh}) \/ fdt' = fdt
      BY <1>8 DEF Release
    <3>2. fdt = Close(fdt, {})
      BY DEF Close
    <3> QED
      BY <3>1, <3>2
  <2>3. ASSUME OpensAreReal, NEW u \in Thread PROVE Held(u)' \cap S = {}
    <3>1. Held(t)' = {}
      BY <2>1 DEF Held, Closed
    <3>2. S \subseteq Held(t)
      BY <2>1, <2>2, <1>h, <1>n DEF Held
    <3>3. u # t => Held(u)' = Held(u)
      BY <2>1 DEF Held
    <3>4. u # t => Held(u) \cap Held(t) = {}
      BY <2>3 DEF OInv, Apart
    <3> QED
      BY <3>1, <3>2, <3>3, <3>4
  <2>4. fdt' = [n \in Fd |-> IF n \in S THEN "free" ELSE IF fdt[n] \in {} THEN "gone" ELSE fdt[n]]
    BY <2>2 DEF Close
  <2>5. {} \in SUBSET Path /\ temp \ {} \subseteq temp'
    BY <2>1
  <2>6. \A u \in Thread : /\ hand'[u] \in {hand[u], Closed}
                          /\ call'[u].cfd \in {call[u].cfd, NoFd}
                          /\ call'[u].tfd \in {call[u].tfd, NoFd}
    BY <2>1
  <2> QED
    BY <2>1, <2>3, <2>4, <2>5, <2>6, LoseStep
<1> QED
  BY <1>1, <1>2, <1>3, <1>4, <1>5, <1>6, <1>7, <1>8 DEF OnFile, Quietly

\* The operations on paths.
LEMMA OnPathOwn ==
  ASSUME TInv, TInv', OInv, NEW t \in Thread, NEW p \in Path, OnPath(t, p), ~Quietly(t)
  PROVE  OInv'
<1> USE Parts
<1>1. ASSUME NEW creat \in BOOLEAN, Open(t, p, creat) PROVE OInv'
  <2>1. ASSUME NEW l,
               call' = [call EXCEPT ![t] = [Idle EXCEPT !.pc = l, !.path = p, !.creat = creat]],
               UNCHANGED hand
        PROVE  OInv'
    <3>1. \A u \in Thread : /\ call'[u].cfd \in {call[u].cfd, NoFd}
                            /\ call'[u].tfd \in {call[u].tfd, NoFd}
      BY <2>1 DEF Idle
    <3> QED
      BY <1>1, <2>1, <3>1, KeepStep DEF Open, files, queued
  <2>2. CASE "skipped" \in inject["open"]
    BY <1>1, <2>2 DEF Open, OInv, NamedInTemp, OpensAreReal, files, queued
  <2>3. CASE UNCHANGED <<hand, call>>
    BY <1>1, <2>3, KeepStep DEF Open, files, queued
  <2> QED
    BY <1>1, <2>1, <2>2, <2>3 DEF Open
<1>2. CASE Mknod(t, p)
  BY <1>2, KeepStep DEF Mknod, queued
<1>3. CASE Unlink(t, p)
  <2>1. fdt' = [n \in Fd |-> IF n \in {} THEN "free" ELSE IF fdt[n] \in {p} THEN "gone" ELSE fdt[n]]
    BY <1>3 DEF Unlink, Nameless
  <2>2. {p} \in SUBSET Path /\ temp \ {p} \subseteq temp'
    BY <1>3 DEF Unlink, DropTemp
  <2>3. UNCHANGED <<inject, half, hand, call>>
    BY <1>3 DEF Unlink, queued
  <2>4. \A u \in Thread : Held(u)' \cap {} = {}
    OBVIOUS
  <2> QED
    BY <2>1, <2>2, <2>3, <2>4, LoseStep
<1>4. ASSUME NEW q \in Path, Rename(t, p, q) PROVE OInv'
  <2>1. UNCHANGED <<inject, call>> /\ p # q /\ ~InUse(q)
    BY <1>4 DEF Rename, queued
  <2>2. hand' \in [Thread -> Handles] /\ temp' \subseteq Path
    BY DEF TInv, FTypeOK, Handles
  <2>3. CASE RenameRemote(t, p, q)
    <3>1. CASE hand' = Renamed(hand, p, q) /\ half' = (half \/ p \in temp)
      BY <2>1, <2>2, <2>3, <3>1, RemoteStep DEF RenameRemote
    <3>2. CASE UNCHANGED <<hand, half>>
      BY <2>1, <2>3, <3>2, KeepStep DEF RenameRemote
    <3> QED
      BY <2>3, <3>1, <3>2 DEF RenameRemote
  <2>4. CASE RenameFails(t, p, q)
    <3>1. PICK n \in Fd : Gets(n) /\ fdt' = [fdt EXCEPT ![n] = "cache"]
      BY <2>4 DEF RenameFails
    <3>2. UNCHANGED <<hand, half, temp>> /\ Held(t)' = Held(t)
      BY <2>1, <2>4 DEF RenameFails, Held
    <3>3. "cache" \notin Path
      BY FuseOpsAssumption DEF Kinds
    <3>4. ASSUME OpensAreReal PROVE hand[t] # Closed => call[t].tfd # hand[t].fh
      BY <3>4 DEF OInv, TwoDescriptors
    <3>5. ~OpensAreReal => OInv'
      BY <2>1, <3>1, <3>2, <3>3 DEF OInv, NamedInTemp, OpensAreReal
    <3>6. OpensAreReal => OInv'
      BY <2>1, <3>1, <3>2, <3>3, <3>4, TakeStep
    <3> QED
      BY <3>5, <3>6
  <2>5. CASE RenameBoth(t, p, q)
    BY <2>1, <2>2, <2>5, MoveStep DEF RenameBoth
  <2> QED
    BY <1>4, <2>3, <2>4, <2>5 DEF Rename
<1> QED
  BY <1>1, <1>2, <1>3, <1>4 DEF OnPath, Quietly

\* A directory that is never closed is nobody's.
LEMMA FsyncdirOwn == ASSUME TInv, OInv, NEW t \in Thread, Fsyncdir(t) PROVE OInv'
<1> USE Parts
<1>1. PICK n \in Fd : Gets(n) /\ fdt' = [fdt EXCEPT ![n] = "dir"]
  BY DEF Fsyncdir
<1>2. UNCHANGED <<inject, hand, call, half, temp>> /\ Held(t)' = Held(t)
  BY DEF Fsyncdir, Held, files, queued
<1>3. "dir" \notin Path
  BY FuseOpsAssumption DEF Kinds
<1>4. ASSUME OpensAreReal
      PROVE  (hand[t] # Closed => call[t].tfd # hand[t].fh) /\ n \notin Held(t)
  BY <1>1, <1>4 DEF OInv, TwoDescriptors, Sound, Gets, Unused
<1>5. ~OpensAreReal => OInv'
  BY <1>1, <1>2, <1>3 DEF OInv, NamedInTemp, OpensAreReal
<1>6. OpensAreReal => OInv'
  BY <1>1, <1>2, <1>3, <1>4, TakeStep
<1> QED
  BY <1>5, <1>6

\* No step mixes up descriptors or files.
LEMMA NextOwn == TInv /\ TInv' /\ OInv /\ [Next]_vars => OInv'
<1> SUFFICES ASSUME TInv, TInv', OInv, [Next]_vars PROVE OInv'
  OBVIOUS
<1>q. ASSUME UNCHANGED <<inject, fdt, files, hand, call, half>> PROVE OInv'
  BY <1>q, KeepStep DEF files
<1>1. CASE UNCHANGED vars
  BY <1>1, <1>q DEF vars, queued
<1>2. CASE PollFront \/ PollPop \/ PollRun
  BY <1>2, <1>q DEF PollFront, PollPop, PollRun
<1>3. ASSUME NEW t \in Thread,
             OnFile(t) \/ Opening(t) \/ (\E p \in Path : OnPath(t, p)) \/ Elsewhere(t)
      PROVE  OInv'
  <2>1. CASE Quietly(t)
    BY <2>1, <1>q, QuietActs DEF Quiet, queued
  <2>2. CASE Elsewhere(t)
    BY <2>1, <2>2, FsyncdirOwn DEF Elsewhere, Quietly
  <2> QED
    BY <1>3, <2>1, <2>2, OnFileOwn, OpeningOwn, OnPathOwn
<1> QED
  BY <1>1, <1>2, <1>3 DEF Next

\* Both invariants hold in every state of a client.
THEOREM ClientInvariance == Spec => [](TInv /\ OInv)
BY InitType, InitOwn, NextType, NextOwn, PTL DEF Spec

\* The threads of a client never mix up their descriptors: what one of them
\* has open no other has, and nobody closes it under it.
THEOREM DescriptorsOwned == Spec => []OneOwner
<1>1. TInv /\ OInv => OneOwner
  BY DEF OInv, Sound, Apart, OneOwner
<1> QED
  BY ClientInvariance, <1>1, PTL

\* What is read and written through an open file is the file of its path, or
\* one that has lost its name.
THEOREM HandlesKeepTheirFile == Spec => []OwnFile
<1>1. TInv /\ OInv => OwnFile
  BY DEF OInv, Right, OwnFile
<1> QED
  BY ClientInvariance, <1>1, PTL

----------------------------------------------------------------------------
(* Answers                                                                 *)

\* EBADF is answered on purpose or not at all.
LEMMA Answers == \A a : Answer(a) => (ebadf' <=> a = "badf")
BY DEF Answer

\* A call that ends answers.
LEMMA EndAnswers == \A t, a : Ends(t, a) => Answer(a)
BY DEF Ends

\* The descriptor of an open file is open.
LEMMA HandleOpen ==
  ASSUME TInv, OInv, OpensAreReal, NEW t \in Thread, hand[t] # Closed
  PROVE  fdt[hand[t].fh] # "free"
<1>1. hand[t].fh \in Held(t)
  BY Parts DEF Handles, Held, NoFd, Fd
<1> QED
  BY <1>1 DEF OInv, Sound

\* Which steps answer EBADF.
LEMMA BadStep ==
  ASSUME TInv, OInv, OpensAreReal, [Next]_vars, ebadf'
  PROVE  ebadf \/ Full
<1> SUFFICES ASSUME ~ebadf PROVE Full
  OBVIOUS
<1>1. ~UNCHANGED ebadf
  OBVIOUS
<1>a. ~Answer("ok") /\ ~Answer("fail")
  BY Answers
<1>e. \A t : ~Ends(t, "ok") /\ ~Ends(t, "fail")
  BY <1>a, EndAnswers
<1>2. PICK t \in Thread :
        OnFile(t) \/ Opening(t) \/ (\E p \in Path : OnPath(t, p)) \/ Elsewhere(t)
  BY <1>1 DEF Next, vars, PollFront, PollPop, PollRun
<1>3. hand[t] # Closed => fdt[hand[t].fh] # "free"
  BY HandleOpen
<1>4. CASE OnFile(t)
  <2>1. hand[t] # Closed => ~OnHandle(t)
    BY <1>3, Answers DEF OnHandle
  <2>2. ~Read(t) /\ ~Fsync(t) /\ ~Control(t) /\ ~Fallocate(t) /\ ~Write(t)
    BY <2>1, Answers DEF Read, Fsync, Control, Fallocate, Write, Rest
  <2>3. ~(\E op \in {"write", "flush"} : Enqueue(t, op)) /\ ~Refill(t) /\ ~Drain(t)
    BY <1>1, <1>e, Zenon DEF Enqueue, Refill, Drain
  <2>4. ~Upload(t) /\ ~Put(t)
    BY <1>1, <1>e, Zenon DEF Upload, Put
  <2>5. ~Release(t)
    BY <1>3, Answers DEF Release, Rest
  <2>6. CASE Flush(t)
    BY <1>1, <1>3, <2>6 DEF Flush, Rest
  <2> QED
    BY <1>4, <2>2, <2>3, <2>4, <2>5, <2>6 DEF OnFile
<1>5. ~Opening(t)
  BY <1>1, <1>e, Zenon
     DEF Opening, LookInCache, LookInTemp, Decide, Fetch, Fill, MakeTemp, MakeCache,
         CreateOnServer, OpenTemp
<1>6. ASSUME NEW p \in Path, OnPath(t, p) PROVE FALSE
  <2>1. ~\E creat \in BOOLEAN : Open(t, p, creat)
    BY <1>1, <1>a, Zenon DEF Open
  <2>2. ~Mknod(t, p) /\ ~Unlink(t, p)
    BY Answers DEF Mknod, Unlink
  <2>3. ~OnTemp(t, p)
    BY Answers DEF OnTemp
  <2>4. ~\E q \in Path : Rename(t, p, q)
    BY Answers DEF Rename, RenameRemote, RenameFails, RenameBoth
  <2> QED
    BY <1>6, <2>1, <2>2, <2>3, <2>4 DEF OnPath, Chmod, Chown, Truncate, Statfs, Xattr
<1>7. ~Elsewhere(t)
  <2>1. ~Literal(t) /\ ~Fsyncdir(t)
    BY Answers DEF Literal, Fsyncdir
  <2>2. ~Opendir(t) /\ ~Releasedir(t)
    BY Answers DEF Opendir, Releasedir
  <2>3. ~Asks(t) /\ ~Readdir(t)
    BY Answers DEF Asks, Readdir
  <2>4. ~Injected(t)
    BY Answers DEF Injected
  <2> QED
    BY <2>1, <2>2, <2>3, <2>4
       DEF Elsewhere, Readlink, Symlink, Link, Ftruncate, FsyncdirCloses, Utimens,
           Getattr, Access, Mkdir, Rmdir
<1> QED
  BY <1>2, <1>4, <1>5, <1>6, <1>7

\* No operation on an open file finds its descriptor closed; only flush
\* answers EBADF, when there is none left for its dup.
THEOREM BadDescriptorOnlyWhenFull == Spec => BadOnlyWhenFull
<1>1. TInv /\ OInv /\ [Next]_vars => [OpensAreReal /\ ebadf' => ebadf \/ Full]_vars
  BY BadStep
<1> QED
  BY ClientInvariance, <1>1, PTL DEF Spec, BadOnlyWhenFull

----------------------------------------------------------------------------
(* Leaks                                                                   *)

\* Nothing leaks if what is opened is held, and what is held no more is
\* closed.
LEMMA NoLeak ==
  ASSUME \A n \in Fd \ Std :
           fdt'[n] # "free" => fdt[n] # "free" \/ \E u \in Thread : n \in Held(u)',
         \A u \in Thread : \A n \in Held(u) \ Std : n \in Held(u)' \/ fdt'[n] = "free"
  PROVE  Leaked' \subseteq Leaked
BY DEF Leaked

\* A step that keeps the descriptors and who holds them.
LEMMA KeepsAll ==
  ASSUME UNCHANGED fdt, \A u \in Thread : Held(u) \subseteq Held(u)'
  PROVE  Leaked' \subseteq Leaked
BY NoLeak

\* A step that only moves a thread on, or to rest when it has no descriptor in
\* a local variable.
LEMMA Moves ==
  ASSUME TInv, NEW t \in Thread, UNCHANGED <<fdt, hand>>,
         \/ \E l : Goto(t, l)
         \/ (\E a : Ends(t, a)) /\ call[t].pc \notin {"lookTemp", "decide", "put"}
  PROVE  Leaked' \subseteq Leaked
<1> USE Parts
<1>1. CASE \E l : Goto(t, l)
  <2>1. \A u \in Thread : call'[u].cfd = call[u].cfd /\ call'[u].tfd = call[u].tfd
    BY <1>1 DEF Goto, Call
  <2> QED
    BY <2>1, KeepsAll DEF Held
<1>2. CASE (\E a : Ends(t, a)) /\ call[t].pc \notin {"lookTemp", "decide", "put"}
  <2>1. call[t].cfd = NoFd /\ call[t].tfd = NoFd
    BY <1>2 DEF Fits
  <2>2. \A u \in Thread : call'[u].cfd = call[u].cfd /\ call'[u].tfd = call[u].tfd
    BY <1>2, <2>1 DEF Ends, Idle
  <2> QED
    BY <2>2, KeepsAll DEF Held
<1> QED
  BY <1>1, <1>2

\* A step that takes a descriptor and holds it.
LEMMA Takes ==
  ASSUME TInv, NEW t \in Thread, NEW n \in Fd, NEW k, fdt' = [fdt EXCEPT ![n] = k],
         n \in Held(t)', Gets(n), \A u \in Thread : Held(u) \ {n} \subseteq Held(u)'
  PROVE  Leaked' \subseteq Leaked
<1>1. \A m \in Fd : m # n => fdt'[m] = fdt[m]
  BY Parts
<1>2. \A u \in Thread : \A m \in Held(u) \ Std : m \in Held(u)' \/ fdt'[m] = "free" \/ m = n
  OBVIOUS
<1> SUFFICES ASSUME NEW m \in Leaked' PROVE m \in Leaked
  OBVIOUS
<1>3. m # n /\ m \in Fd \ Std /\ fdt'[m] # "free" /\ \A u \in Thread : m \notin Held(u)'
  BY DEF Leaked
<1> QED
  BY <1>1, <1>3 DEF Leaked

\* The steps of an opening thread.
LEMMA OpeningGives ==
  ASSUME TInv, NEW t \in Thread, Opening(t) PROVE Leaked' \subseteq Leaked
<1> USE Parts
<1> DEFINE P == call[t].path
<1>p. call[t].pc \in OpeningSteps => P \in Path /\ hand[t] = Closed
  BY DEF Fits
<1>1. CASE LookInCache(t)
  <2>1. CASE Goto(t, "lookTemp") /\ UNCHANGED fdt
    BY <1>1, <2>1, Moves DEF LookInCache
  <2>2. CASE \E n \in Fd : /\ Gets(n)
                           /\ fdt' = [fdt EXCEPT ![n] = "cache"]
                           /\ call' = [call EXCEPT ![t].pc = "lookTemp", ![t].cfd = n]
    <3>1. PICK n \in Fd : /\ Gets(n)
                          /\ fdt' = [fdt EXCEPT ![n] = "cache"]
                          /\ call' = [call EXCEPT ![t].pc = "lookTemp", ![t].cfd = n]
      BY <2>2
    <3>2. /\ call'[t].cfd = n /\ call'[t].tfd = call[t].tfd /\ hand' = hand
          /\ \A u \in Thread \ {t} : call'[u] = call[u]
      <4>1. hand' = hand
        BY <1>1 DEF LookInCache
      <4> QED
        BY <3>1, <4>1 DEF Call
    <3>3. call[t].cfd = NoFd /\ n # NoFd
      BY <1>1 DEF LookInCache, At, Fits, NoFd, Fd
    <3>4. n \in Held(t)' /\ \A u \in Thread : Held(u) \ {n} \subseteq Held(u)'
      BY <3>2, <3>3 DEF Held
    <3> QED
      BY <3>1, <3>4, Takes
  <2> QED
    BY <1>1, <2>1, <2>2 DEF LookInCache
<1>2. CASE LookInTemp(t)
  <2>1. CASE Goto(t, "decide") /\ UNCHANGED fdt
    BY <1>2, <2>1, Moves DEF LookInTemp
  <2>2. CASE \E n \in Fd : /\ Gets(n)
                           /\ fdt' = [fdt EXCEPT ![n] = P]
                           /\ call' = [call EXCEPT ![t].pc = "decide", ![t].tfd = n]
    <3>1. PICK n \in Fd : /\ Gets(n)
                          /\ fdt' = [fdt EXCEPT ![n] = P]
                          /\ call' = [call EXCEPT ![t].pc = "decide", ![t].tfd = n]
      BY <2>2
    <3>2. /\ call'[t].tfd = n /\ call'[t].cfd = call[t].cfd /\ hand' = hand
          /\ \A u \in Thread \ {t} : call'[u] = call[u]
      <4>1. hand' = hand
        BY <1>2 DEF LookInTemp
      <4> QED
        BY <3>1, <4>1 DEF Call
    <3>3. call[t].tfd = NoFd /\ n # NoFd
      BY <1>2 DEF LookInTemp, At, Fits, NoFd, Fd
    <3>4. n \in Held(t)' /\ \A u \in Thread : Held(u) \ {n} \subseteq Held(u)'
      BY <3>2, <3>3 DEF Held
    <3> QED
      BY <3>1, <3>4, Takes
  <2> QED
    BY <1>2, <2>1, <2>2 DEF LookInTemp
<1>3. CASE Decide(t)
  <2>1. PICK l \in {"fetch", "open"} :
          call' = [call EXCEPT ![t].pc = l, ![t].cfd = NoFd, ![t].tfd = NoFd]
    BY <1>3 DEF Decide
  <2>2. hand' = hand /\ \A u \in Thread \ {t} : call'[u] = call[u]
    BY <1>3, <2>1 DEF Decide
  <2>3. fdt' = Close(fdt, {call[t].tfd} \cup ({call[t].cfd} \ {0}))
    BY <1>3 DEF Decide
  <2>4. \A n \in Fd : fdt'[n] # "free" => fdt[n] # "free"
    BY <2>3 DEF Close
  <2>5. hand[t] = Closed /\ \A u \in Thread \ {t} : Held(u)' = Held(u)
    BY <1>3, <1>p, <2>2 DEF Decide, At, OpeningSteps, Held
  <2>6. \A n \in Held(t) \ Std : fdt'[n] = "free"
    BY <2>3, <2>5, HeldType DEF Close, Held, Std, Closed
  <2> QED
    BY <2>4, <2>5, <2>6, NoLeak
<1>4. CASE Fetch(t) \/ Fill(t)
  BY <1>4, Moves DEF Fetch, Fill
<1>5. CASE MakeTemp(t) \/ MakeCache(t) \/ CreateOnServer(t)
  BY <1>5, Moves DEF MakeTemp, MakeCache, CreateOnServer
<1>6. CASE OpenTemp(t)
  <2>1. /\ P \in Path /\ hand[t] = Closed
        /\ call' = [call EXCEPT ![t] = Idle] /\ call[t].cfd = NoFd /\ call[t].tfd = NoFd
    BY <1>6, <1>p DEF OpenTemp, At, Fits, OpeningSteps, Ends
  <2>2. \A u \in Thread : call'[u].cfd = call[u].cfd /\ call'[u].tfd = call[u].tfd
    BY <2>1 DEF Idle
  <2>3. CASE \E n \in Fd : /\ Gets(n)
                           /\ fdt' = [fdt EXCEPT ![n] = P]
                           /\ hand' = [hand EXCEPT ![t] = [path |-> P, fh |-> n]]
    <3>1. PICK n \in Fd : /\ Gets(n)
                          /\ fdt' = [fdt EXCEPT ![n] = P]
                          /\ hand' = [hand EXCEPT ![t] = [path |-> P, fh |-> n]]
      BY <2>3
    <3>2. hand'[t].fh = n /\ n # NoFd /\ \A u \in Thread \ {t} : hand'[u] = hand[u]
      BY <3>1 DEF NoFd, Fd
    <3>3. n \in Held(t)' /\ \A u \in Thread : Held(u) \ {n} \subseteq Held(u)'
      BY <2>1, <2>2, <3>2 DEF Held, Closed
    <3> QED
      BY <3>1, <3>3, Takes
  <2>4. CASE fdt' = Nameless(fdt, P) /\ UNCHANGED hand
    <3>1. \A n \in Fd : fdt'[n] # "free" => fdt[n] # "free"
      BY <2>1, <2>4, FuseOpsAssumption DEF Nameless, Kinds
    <3>2. \A u \in Thread : Held(u)' = Held(u)
      BY <2>2, <2>4 DEF Held
    <3> QED
      BY <3>1, <3>2, NoLeak
  <2> QED
    BY <1>6, <2>3, <2>4 DEF OpenTemp
<1> QED
  BY <1>1, <1>2, <1>3, <1>4, <1>5, <1>6 DEF Opening

\* The operations on an open file, but for a release that is skipped or
\* refused.
LEMMA OnFileGives ==
  ASSUME TInv, NEW t \in Thread, OnFile(t), ~Quietly(t),
         ~(hand'[t] = Closed /\ hand[t] # Closed /\ UNCHANGED fdt)
  PROVE  Leaked' \subseteq Leaked
<1> USE Parts
<1> DEFINE P == call[t].path
<1>1. CASE Write(t)
  BY <1>1, KeepsAll DEF Write, Held
<1>2. CASE \E op \in {"write", "flush"} : Enqueue(t, op)
  BY <1>2, Moves DEF Enqueue
<1>3. CASE Drain(t)
  <2>1. CASE queue = <<>>
    BY <1>3, <2>1, Moves DEF Drain, At
  <2>2. CASE queue # <<>>
    <3>1. call' = [call EXCEPT ![t].pc = "refill", ![t].vec = queue]
      BY <1>3, <2>2 DEF Drain
    <3>2. \A u \in Thread : call'[u].cfd = call[u].cfd /\ call'[u].tfd = call[u].tfd
      BY <3>1 DEF Call
    <3> QED
      BY <1>3, <3>2, KeepsAll DEF Drain, Held
  <2> QED
    BY <2>1, <2>2
<1>4. CASE Refill(t)
  BY <1>4, Moves DEF Refill, At
<1>5. CASE Flush(t)
  <2>1. ASSUME call' = [call EXCEPT ![t].pc = "upload", ![t].path = hand[t].path]
        PROVE  \A u \in Thread : call'[u].cfd = call[u].cfd /\ call'[u].tfd = call[u].tfd
    BY <2>1 DEF Call
  <2>2. UNCHANGED call \/ call' = [call EXCEPT ![t].pc = "upload", ![t].path = hand[t].path]
    BY <1>5 DEF Flush
  <2> QED
    BY <1>5, <2>1, <2>2, KeepsAll DEF Flush, Held
<1>6. CASE Upload(t)
  <2>1. CASE Ends(t, "ok") /\ UNCHANGED fdt
    BY <1>6, <2>1, Moves DEF Upload, At
  <2>2. CASE \E n \in Fd : /\ Gets(n)
                           /\ fdt' = [fdt EXCEPT ![n] = P]
                           /\ call' = [call EXCEPT ![t].pc = "put", ![t].tfd = n]
    <3>1. PICK n \in Fd : /\ Gets(n)
                          /\ fdt' = [fdt EXCEPT ![n] = P]
                          /\ call' = [call EXCEPT ![t].pc = "put", ![t].tfd = n]
      BY <2>2
    <3>2. /\ call'[t].tfd = n /\ call'[t].cfd = call[t].cfd /\ hand' = hand
          /\ \A u \in Thread \ {t} : call'[u] = call[u]
      <4>1. hand' = hand
        BY <1>6 DEF Upload
      <4> QED
        BY <3>1, <4>1 DEF Call
    <3>3. call[t].tfd = NoFd /\ n # NoFd
      BY <1>6 DEF Upload, At, Fits, NoFd, Fd
    <3>4. n \in Held(t)' /\ \A u \in Thread : Held(u) \ {n} \subseteq Held(u)'
      BY <3>2, <3>3 DEF Held
    <3> QED
      BY <3>1, <3>4, Takes
  <2> QED
    BY <1>6, <2>1, <2>2 DEF Upload
<1>7. CASE Put(t)
  <2>1. /\ hand' = hand /\ P \in Path /\ call[t].cfd = NoFd
        /\ call' = [call EXCEPT ![t] = Idle]
    BY <1>7 DEF Put, At, Fits, Ends
  <2>2. \A n \in Fd : /\ fdt'[n] # "free" => fdt[n] # "free"
                      /\ n = call[t].tfd => fdt'[n] = "free"
    BY <1>7, <2>1, FuseOpsAssumption DEF Put, Close, Nameless, Kinds
  <2>3. \A u \in Thread : Held(u) \ {call[t].tfd} \subseteq Held(u)' \/ u = t
    BY <2>1 DEF Held
  <2>4. Held(t) \ {call[t].tfd} \subseteq Held(t)'
    BY <2>1 DEF Held
  <2>5. \A u \in Thread : Held(u) \subseteq Fd
    BY HeldType
  <2> QED
    BY <2>2, <2>3, <2>4, <2>5, NoLeak
<1>8. CASE Release(t)
  <2>1. /\ hand' = [hand EXCEPT ![t] = Closed] /\ call' = call
        /\ fdt' = Close(fdt, {hand[t].fh}) /\ call[t].cfd = NoFd /\ call[t].tfd = NoFd
    BY <1>8 DEF Release, Rest, Ready, Fits
  <2>2. \A n \in Fd : /\ fdt'[n] # "free" => fdt[n] # "free"
                      /\ n = hand[t].fh => fdt'[n] = "free"
    BY <2>1 DEF Close
  <2>3. Held(t) \subseteq {hand[t].fh} /\ \A u \in Thread \ {t} : Held(u)' = Held(u)
    BY <2>1 DEF Held
  <2>4. \A u \in Thread : Held(u) \subseteq Fd
    BY HeldType
  <2> QED
    BY <2>2, <2>3, <2>4, NoLeak
<1> QED
  BY <1>1, <1>2, <1>3, <1>4, <1>5, <1>6, <1>7, <1>8 DEF OnFile, Quietly

\* The operations on paths, but for a rename whose rename(2) fails.
LEMMA OnPathGives ==
  ASSUME TInv, NEW t \in Thread, NEW p \in Path, OnPath(t, p), ~Quietly(t),
         ~\E q \in Path : RenameFails(t, p, q)
  PROVE  Leaked' \subseteq Leaked
<1> USE Parts
<1>1. ASSUME NEW creat \in BOOLEAN, Open(t, p, creat) PROVE Leaked' \subseteq Leaked
  <2>1. fdt' = fdt /\ hand[t] = Closed /\ call[t].cfd = NoFd /\ call[t].tfd = NoFd
    BY <1>1 DEF Open, Ready, Fits
  <2>2. \A u \in Thread \ {t} : hand'[u] = hand[u] /\ call'[u] = call[u]
    BY <1>1 DEF Open
  <2>3. \A u \in Thread : Held(u) \subseteq Held(u)'
    BY <2>1, <2>2 DEF Held, Closed
  <2> QED
    BY <2>1, <2>3, KeepsAll
<1>2. CASE Mknod(t, p)
  BY <1>2, KeepsAll DEF Mknod, Held
<1>3. CASE Unlink(t, p)
  <2>1. \A n \in Fd : fdt'[n] # "free" => fdt[n] # "free"
    BY <1>3, FuseOpsAssumption DEF Unlink, Nameless, Kinds
  <2>2. \A u \in Thread : Held(u)' = Held(u)
    BY <1>3 DEF Unlink, Held
  <2> QED
    BY <2>1, <2>2, NoLeak
<1>4. ASSUME NEW q \in Path, Rename(t, p, q) PROVE Leaked' \subseteq Leaked
  <2>1. call' = call /\ hand' \in {hand, Renamed(hand, p, q)}
    BY <1>4 DEF Rename, RenameRemote, RenameFails, RenameBoth
  <2>2. \A u \in Thread : hand'[u].fh = hand[u].fh
    BY <2>1 DEF Renamed, Handles, Closed
  <2>3. \A u \in Thread : Held(u)' = Held(u)
    BY <2>1, <2>2 DEF Held
  <2>4. \A n \in Fd : fdt'[n] # "free" => fdt[n] # "free"
    BY <1>4, FuseOpsAssumption DEF Rename, RenameRemote, RenameBoth, Nameless, Kinds
  <2> QED
    BY <2>3, <2>4, NoLeak
<1> QED
  BY <1>1, <1>2, <1>3, <1>4 DEF OnPath, Quietly

\* Every call gives its descriptors back, on every path through the client but
\* the three that GivesBack names.
THEOREM CallsGiveBack == Spec => GivesBack
<1> DEFINE Leaks(t) == \/ Fsyncdir(t)
                       \/ \E p, q \in Path : RenameFails(t, p, q)
                       \/ hand'[t] = Closed /\ hand[t] # Closed /\ UNCHANGED fdt
<1>k. ASSUME UNCHANGED <<fdt, hand, call>> PROVE Leaked' \subseteq Leaked
  BY <1>k, KeepsAll DEF Held
<1>1. ASSUME TInv, Next, \A t \in Thread : ~Leaks(t) PROVE Leaked' \subseteq Leaked
  <2>1. CASE PollFront \/ PollPop \/ PollRun
    BY <2>1, <1>k DEF PollFront, PollPop, PollRun
  <2>2. ASSUME NEW t \in Thread,
               OnFile(t) \/ Opening(t) \/ (\E p \in Path : OnPath(t, p)) \/ Elsewhere(t)
        PROVE  Leaked' \subseteq Leaked
    <3>1. CASE Quietly(t)
      BY <3>1, <1>k, QuietActs DEF Quiet
    <3>2. CASE Elsewhere(t)
      BY <1>1, <3>1, <3>2 DEF Elsewhere, Quietly
    <3> QED
      BY <1>1, <2>2, <3>1, <3>2, OnFileGives, OpeningGives, OnPathGives
  <2> QED
    BY <1>1, <2>1, <2>2 DEF Next
<1>2. TInv /\ [Next]_vars => [Leaked' \subseteq Leaked \/ \E t \in Thread : Leaks(t)]_vars
  BY <1>1
<1> QED
  BY InitType, NextType, <1>2, PTL DEF Spec, GivesBack

----------------------------------------------------------------------------
(* The queue.  A ticket is in one place: in the queue, in the vector of a  *)
(* thread that shuffles, in the hands of the polling thread or executed.   *)

IdsOf(s) == {s[i].id : i \in DOMAIN s}
NoTwice(s) == \A i, j \in DOMAIN s : s[i].id = s[j].id => i = j

\* A thread has a vector only between the two loops of shuffleQueue.
Vectors == \A t \in Thread : call[t].vec # <<>> => call[t].pc = "refill"

Vecs == UNION {IdsOf(call[t].vec) : t \in Thread}

\* Between front and pop the polling thread holds what is still the head of
\* the queue; then it holds what is nowhere else.
AtFront ==
  /\ poll.pc = "pop" => queue # <<>> /\ Head(queue) = poll.head
  /\ poll.pc = "run" => poll.head.id \notin IdsOf(queue) \cup Vecs \cup ran

Placed ==
  /\ NoTwice(queue) /\ \A t \in Thread : NoTwice(call[t].vec)
  /\ \A t, u \in Thread : t # u => IdsOf(call[t].vec) \cap IdsOf(call[u].vec) = {}
  /\ IdsOf(queue) \cap Vecs = {} /\ (IdsOf(queue) \cup Vecs) \cap ran = {}

Nowhere == 1..tickets \ (IdsOf(queue) \cup Vecs \cup ran)

\* No ticket is lost.
Kept == Nowhere \subseteq (IF poll.pc = "run" THEN {poll.head.id} ELSE {})

QInv == Vectors /\ (~raced => Placed /\ AtFront /\ Kept)


\* The ids of a sequence when one is appended, ...
LEMMA AppendIds ==
  ASSUME NEW S, NEW q \in Seq(S), NEW e \in S
  PROVE  /\ IdsOf(Append(q, e)) = IdsOf(q) \cup {e.id}
         /\ NoTwice(q) /\ e.id \notin IdsOf(q) => NoTwice(Append(q, e))
<1>1. /\ DOMAIN q = 1..Len(q) /\ Len(q) \in Nat /\ DOMAIN Append(q, e) = 1..(Len(q) + 1)
      /\ Append(q, e)[Len(q) + 1] = e /\ \A i \in 1..Len(q) : Append(q, e)[i] = q[i]
  BY AppendProperties
<1>2. \A i : i \in 1..(Len(q) + 1) <=> i \in 1..Len(q) \/ i = Len(q) + 1
  BY <1>1
<1> DEFINE r == Append(q, e)
<1> HIDE DEF r
<1>3. ASSUME NEW x PROVE x \in IdsOf(r) <=> x \in IdsOf(q) \/ x = e.id
  BY <1>1, <1>2 DEF IdsOf, r
<1>4. ASSUME NoTwice(q), e.id \notin IdsOf(q) PROVE NoTwice(r)
  BY <1>1, <1>2, <1>4 DEF IdsOf, NoTwice, r
<1> QED
  BY <1>3, <1>4 DEF r

\* ... when its head is taken, ...
LEMMA TailIds ==
  ASSUME NEW S, NEW q \in Seq(S), q # <<>>, NoTwice(q)
  PROVE  /\ IdsOf(q) = IdsOf(Tail(q)) \cup {Head(q).id}
         /\ NoTwice(Tail(q)) /\ Head(q).id \notin IdsOf(Tail(q))
<1>1. /\ DOMAIN q = 1..Len(q) /\ Len(q) \in Nat /\ Len(q) >= 1 /\ Head(q) = q[1]
      /\ DOMAIN Tail(q) = 1..(Len(q) - 1) /\ \A i \in 1..(Len(q) - 1) : Tail(q)[i] = q[i + 1]
  BY HeadTailProperties
<1> DEFINE r == Tail(q)
<1> HIDE DEF r
<1>2. /\ \A i \in DOMAIN r : i + 1 \in DOMAIN q /\ i + 1 # 1 /\ r[i] = q[i + 1]
      /\ \A i \in DOMAIN q : i = 1 \/ (i - 1 \in DOMAIN r /\ q[i] = r[i - 1])
      /\ 1 \in DOMAIN q /\ DOMAIN r \subseteq Nat
  BY <1>1 DEF r
<1>3. ASSUME NEW x PROVE x \in IdsOf(q) <=> x \in IdsOf(r) \/ x = Head(q).id
  BY <1>1, <1>2 DEF IdsOf
<1>4. ASSUME NEW i \in DOMAIN r, NEW j \in DOMAIN r, r[i].id = r[j].id PROVE i = j
  <2>1. i + 1 = j + 1
    BY <1>2, <1>4 DEF NoTwice
  <2> QED
    BY <1>2, <2>1
<1>5. Head(q).id \notin IdsOf(r)
  BY <1>1, <1>2 DEF IdsOf, NoTwice
<1> QED
  BY <1>3, <1>4, <1>5 DEF r, NoTwice

\* ... when another is put behind it, ...
LEMMA ConcatIds ==
  ASSUME NEW S, NEW q \in Seq(S), NEW s \in Seq(S), NoTwice(q), NoTwice(s),
         IdsOf(q) \cap IdsOf(s) = {}
  PROVE  IdsOf(q \o s) = IdsOf(q) \cup IdsOf(s) /\ NoTwice(q \o s)
<1> DEFINE r == q \o s  m == Len(q)  n == Len(s)
<1>1. /\ m \in Nat /\ n \in Nat /\ DOMAIN q = 1..m /\ DOMAIN s = 1..n /\ DOMAIN r = 1..(m + n)
      /\ \A i \in 1..(m + n) : r[i] = IF i <= m THEN q[i] ELSE s[i - m]
  BY ConcatProperties
<1> HIDE DEF r, m, n
<1>2. ASSUME NEW i \in DOMAIN r
      PROVE  \/ i \in DOMAIN q /\ r[i] = q[i]
             \/ i - m \in DOMAIN s /\ r[i] = s[i - m]
  BY <1>1
<1>3. /\ \A i \in DOMAIN q : i \in DOMAIN r /\ r[i] = q[i]
      /\ \A i \in DOMAIN s : i + m \in DOMAIN r /\ r[i + m] = s[i]
  <2>1. ASSUME NEW i \in DOMAIN s PROVE i + m \in 1..(m + n) /\ ~(i + m <= m) /\ (i + m) - m = i
    BY <1>1
  <2> QED
    BY <1>1, <2>1
<1>4. ASSUME NEW x PROVE x \in IdsOf(r) <=> x \in IdsOf(q) \/ x \in IdsOf(s)
  BY <1>2, <1>3 DEF IdsOf
<1>5. ASSUME NEW i \in DOMAIN r, NEW j \in DOMAIN r, r[i].id = r[j].id PROVE i = j
  <2>0. i \in Nat /\ j \in Nat /\ m \in Nat
    BY <1>1
  <2>1. CASE i \in DOMAIN q /\ r[i] = q[i]
    <3>1. CASE j \in DOMAIN q /\ r[j] = q[j]
      BY <1>5, <2>1, <3>1 DEF NoTwice
    <3>2. CASE j - m \in DOMAIN s /\ r[j] = s[j - m]
      BY <1>5, <2>1, <3>2 DEF IdsOf
    <3> QED
      BY <1>2, <3>1, <3>2
  <2>2. CASE i - m \in DOMAIN s /\ r[i] = s[i - m]
    <3>1. CASE j \in DOMAIN q /\ r[j] = q[j]
      BY <1>5, <2>2, <3>1 DEF IdsOf
    <3>2. CASE j - m \in DOMAIN s /\ r[j] = s[j - m]
      <4>1. i - m = j - m
        BY <1>5, <2>2, <3>2 DEF NoTwice
      <4> QED
        BY <2>0, <4>1
    <3> QED
      BY <1>2, <3>1, <3>2
  <2> QED
    BY <1>2, <2>1, <2>2
<1> QED
  BY <1>4, <1>5 DEF NoTwice, r

\* ... and when it is shuffled: an enumeration of its elements in which none
\* occurs twice leaves none out, since there are as many.
LEMMA ShuffleIds ==
  ASSUME NEW S, NEW v \in Seq(S), NoTwice(v), NEW s \in SetToSeqs(ToSet(v))
  PROVE  IdsOf(s) = IdsOf(v) /\ NoTwice(s)
<1> DEFINE E == ToSet(v)  D == 1..Cardinality(E)
<1>1. IsFiniteSet(E)
  <2>1. v \in Surjection(1..Len(v), E)
    BY DEF Surjection, ToSet
  <2>2. IsFiniteSet(1..Len(v))
    BY FS_Interval
  <2> QED
    BY <2>1, <2>2, FS_Surjection
<1>2. Cardinality(E) \in Nat
  BY <1>1, FS_CardinalityType
<1>3. s \in [D -> E] /\ \A i, j \in D : i # j => s[i] # s[j]
  BY DEF SetToSeqs
<1>4. IsFiniteSet(D) /\ Cardinality(D) = Cardinality(E)
  BY <1>2, FS_Interval
<1> HIDE DEF D
<1>5. s \in Injection(D, E)
  BY <1>3 DEF Injection, IsInjective
<1>6. s \in Surjection(D, E)
  BY <1>1, <1>4, <1>5, FS_Injection
<1>7. \A e \in E : \E i \in D : s[i] = e
  BY <1>6 DEF Surjection
<1>8. \A e : e \in E <=> \E i \in DOMAIN v : e = v[i]
  BY DEF ToSet
<1> HIDE DEF E
<1>9. DOMAIN s = D
  BY <1>3
<1>10. ASSUME NEW x PROVE x \in IdsOf(s) <=> x \in IdsOf(v)
  <2>1. x \in IdsOf(s) <=> \E e \in E : x = e.id
    BY <1>3, <1>7, <1>9 DEF IdsOf
  <2>2. x \in IdsOf(v) <=> \E e \in E : x = e.id
    BY <1>8 DEF IdsOf
  <2> QED
    BY <2>1, <2>2
<1>11. ASSUME NEW i \in D, NEW j \in D, s[i].id = s[j].id PROVE i = j
  <2>1. PICK a \in DOMAIN v : s[i] = v[a]
    BY <1>3, <1>8
  <2>2. PICK b \in DOMAIN v : s[j] = v[b]
    BY <1>3, <1>8
  <2>3. a = b
    BY <1>11, <2>1, <2>2 DEF NoTwice
  <2> QED
    BY <1>3, <2>1, <2>2, <2>3
<1> QED
  BY <1>9, <1>10, <1>11 DEF NoTwice


\* The steps that leave the queue and the vectors.
LEMMA Elsewise ==
  ASSUME QInv, UNCHANGED queued, Vectors', \A t \in Thread : call'[t].vec = call[t].vec
  PROVE  QInv'
<1>1. UNCHANGED <<queue, poll, tickets, ran, raced>>
  BY DEF queued
<1>2. Vecs' = Vecs
  BY DEF Vecs
<1>3. Placed => Placed'
  BY <1>1, <1>2 DEF Placed
<1>4. AtFront => AtFront'
  BY <1>1, <1>2 DEF AtFront
<1>5. Kept => Kept'
  BY <1>1, <1>2 DEF Kept, Nowhere
<1> QED
  BY <1>1, <1>3, <1>4, <1>5 DEF QInv

\* A step of a call that has no vector.
LEMMA OneCall ==
  ASSUME TInv, Vectors, NEW t \in Thread, call[t].pc # "refill", NEW c,
         call' = [call EXCEPT ![t] = c], c.vec \in {<<>>, call[t].vec}
  PROVE  Vectors' /\ \A u \in Thread : call'[u].vec = call[u].vec
<1>1. call[t].vec = <<>> /\ c.vec = <<>>
  BY DEF Vectors
<1>2. \A u \in Thread : call'[u] = IF u = t THEN c ELSE call[u]
  BY Parts
<1>3. \A u \in Thread : call'[u].vec = call[u].vec
  BY <1>1, <1>2
<1>4. ASSUME NEW u \in Thread, call'[u].vec # <<>> PROVE call'[u].pc = "refill"
  BY <1>1, <1>2, <1>3, <1>4 DEF Vectors
<1> QED
  BY <1>3, <1>4 DEF Vectors

\* The steps of an open.
LEMMA OpeningQueue == ASSUME TInv, QInv, NEW t \in Thread, Opening(t) PROVE QInv'
<1>1. call[t] \in Call /\ call \in [Thread -> Call] /\ Vectors
  BY Parts DEF QInv
<1>2. UNCHANGED queued /\ call[t].pc # "refill"
  BY DEF Opening, LookInCache, LookInTemp, Decide, Fetch, Fill, MakeTemp, MakeCache, CreateOnServer,
         OpenTemp, At
<1> DEFINE c == call'[t]
<1>3. call' = [call EXCEPT ![t] = c] /\ c.vec \in {<<>>, call[t].vec}
  <2>1. CASE LookInCache(t)
    BY <1>1, <2>1 DEF LookInCache, Goto, Call
  <2>2. CASE LookInTemp(t)
    BY <1>1, <2>2 DEF LookInTemp, Goto, Call
  <2>3. CASE Decide(t)
    <3>1. PICK l : call' = [call EXCEPT ![t].pc = l, ![t].cfd = NoFd, ![t].tfd = NoFd]
      BY <2>3 DEF Decide
    <3> QED
      BY <1>1, <3>1 DEF Call
  <2>4. CASE Fetch(t) \/ Fill(t) \/ MakeTemp(t) \/ MakeCache(t) \/ CreateOnServer(t)
    BY <1>1, <2>4 DEF Fetch, Fill, MakeTemp, MakeCache, CreateOnServer, Goto, Call
  <2>5. CASE OpenTemp(t)
    <3>1. call' = [call EXCEPT ![t] = Idle]
      BY <2>5 DEF OpenTemp, Ends
    <3> QED
      BY <1>1, <3>1, IdleType
  <2> QED
    BY <2>1, <2>2, <2>3, <2>4, <2>5 DEF Opening
<1> HIDE DEF c
<1> QED
  BY <1>1, <1>2, <1>3, OneCall, Elsewise

\* The steps of a call that do not change what threads are in.
LEMMA SameCalls == ASSUME QInv, UNCHANGED <<queued, call>> PROVE QInv'
BY Elsewise DEF QInv, Vectors

\* The operations on an open file that are not queued.
LEMMA OnFileQueue ==
  ASSUME TInv, QInv, NEW t \in Thread, Write(t) \/ Flush(t) \/ Upload(t) \/ Put(t) \/ Release(t)
  PROVE  QInv'
<1>1. call[t] \in Call /\ call \in [Thread -> Call] /\ Vectors
  BY Parts DEF QInv
<1>2. UNCHANGED queued
  BY DEF Write, Flush, Upload, Put, Release
<1>3. CASE UNCHANGED call
  BY <1>2, <1>3, SameCalls
<1>4. CASE ~UNCHANGED call
  <2>1. call[t].pc # "refill"
    BY <1>4 DEF Write, Flush, Upload, Put, Release, Rest, Ready, At
  <2> DEFINE c == call'[t]
  <2>2. call' = [call EXCEPT ![t] = c] /\ c.vec \in {<<>>, call[t].vec}
    <3>1. CASE Flush(t)
      BY <1>1, <1>4, <3>1 DEF Flush, Call
    <3>2. CASE Upload(t)
      <4>1. CASE Ends(t, "ok")
        BY <1>1, <4>1, IdleType DEF Ends
      <4>2. CASE ~Ends(t, "ok")
        BY <1>1, <3>2, <4>2 DEF Upload, Call
      <4> QED
        BY <4>1, <4>2
    <3>3. CASE Put(t)
      BY <1>1, <3>3, IdleType DEF Put, Ends
    <3> QED
      BY <1>4, <3>1, <3>2, <3>3 DEF Write, Release
  <2> HIDE DEF c
  <2> QED
    BY <1>1, <1>2, <2>1, <2>2, OneCall, Elsewise
<1> QED
  BY <1>3, <1>4

\* The operations on paths.
LEMMA OnPathQueue ==
  ASSUME TInv, QInv, NEW t \in Thread, NEW p \in Path, OnPath(t, p), ~Quietly(t)
  PROVE  QInv'
<1>1. call[t] \in Call /\ call \in [Thread -> Call] /\ Vectors
  BY Parts DEF QInv
<1>2. UNCHANGED queued
  BY DEF OnPath, Quietly, Open, Mknod, Unlink, Rename
<1>3. CASE UNCHANGED call
  BY <1>2, <1>3, SameCalls
<1>4. CASE ~UNCHANGED call
  <2>1. PICK creat \in BOOLEAN : Open(t, p, creat)
    BY <1>4 DEF OnPath, Quietly, Mknod, Unlink, Rename
  <2>2. PICK l : call' = [call EXCEPT ![t] = [Idle EXCEPT !.pc = l, !.path = p, !.creat = creat]]
    BY <1>4, <2>1 DEF Open
  <2>3. [Idle EXCEPT !.pc = l, !.path = p, !.creat = creat].vec = <<>>
    BY DEF Idle
  <2>4. call[t].pc # "refill"
    BY <2>1 DEF Open, Ready
  <2> QED
    BY <1>1, <1>2, <2>2, <2>3, <2>4, OneCall, Elsewise
<1> QED
  BY <1>3, <1>4

\* What Ticketed says of the places.
LEMMA Numbered ==
  ASSUME TInv
  PROVE  /\ queue \in Seq(Known) /\ \A t \in Thread : call[t].vec \in Seq(Known)
         /\ tickets \in Nat /\ IdsOf(queue) \subseteq 1..tickets /\ Vecs \subseteq 1..tickets
         /\ ran \subseteq 1..tickets
         /\ poll.pc \in {"pop", "run"} => poll.head \in Known /\ poll.head.id \in 1..tickets
         /\ poll.pc \in {"sleep", "pop", "run"} /\ (poll.pc = "sleep" => poll = Asleep)
<1>1. queue \in Seq(Known) /\ \A t \in Thread : call[t].vec \in Seq(Known)
  BY DEF TInv, Ticketed
<1>2. tickets \in Nat /\ ran \subseteq 1..tickets
  BY FuseOpsAssumption DEF TInv, FTypeOK
<1>3. ASSUME NEW s \in Seq(Known) PROVE IdsOf(s) \subseteq 1..tickets
  <2>1. \A i \in DOMAIN s : s[i] \in Known
    OBVIOUS
  <2> QED
    BY <2>1 DEF IdsOf, Known
<1>4. Vecs \subseteq 1..tickets
  BY <1>1, <1>3 DEF Vecs
<1>5. poll \in [pc : {"pop", "run"}, head : Known] \cup {Asleep}
  BY DEF TInv, Ticketed
<1>6. /\ poll.pc \in {"pop", "run"} => poll.head \in Known
      /\ poll.pc \in {"sleep", "pop", "run"} /\ (poll.pc = "sleep" => poll = Asleep)
  <2>1. CASE poll = Asleep
    BY <2>1 DEF Asleep
  <2>2. CASE poll \in [pc : {"pop", "run"}, head : Known]
    BY <2>2
  <2> QED
    BY <1>5, <2>1, <2>2
<1>7. \A e \in Known : e.id \in 1..tickets
  BY DEF Known
<1> QED
  BY <1>1, <1>2, <1>3, <1>4, <1>6, <1>7

\* A ticket is given out: it is in the queue and nowhere else.
LEMMA EnqueueQueue ==
  ASSUME TInv, TInv', QInv, NEW t \in Thread, NEW op \in {"write", "flush"}, Enqueue(t, op)
  PROVE  QInv'
<1>1. call[t] \in Call /\ call \in [Thread -> Call] /\ Vectors
  BY Parts DEF QInv
<1> DEFINE e == [id |-> tickets + 1, op |-> op, code |-> Code(op)]
           c == [call[t] EXCEPT !.pc = "shuffle"]
<1>2. /\ call[t].pc # "refill" /\ call' = [call EXCEPT ![t] = c]
      /\ tickets' = tickets + 1 /\ queue' = Append(queue, e) /\ UNCHANGED <<poll, ran, raced>>
  BY DEF Enqueue, Rest, Ready, Goto
<1>3. c.vec = call[t].vec /\ e.id = tickets + 1
  BY <1>1 DEF Call
<1> HIDE DEF c
<1>4. Vectors' /\ \A u \in Thread : call'[u].vec = call[u].vec
  BY <1>1, <1>2, <1>3, OneCall
<1>5. Vecs' = Vecs
  BY <1>4 DEF Vecs
<1>6. /\ IdsOf(queue') = IdsOf(queue) \cup {tickets + 1}
      /\ NoTwice(queue) /\ tickets + 1 \notin IdsOf(queue) => NoTwice(queue')
      /\ queue # <<>> => queue' # <<>> /\ Head(queue') = Head(queue)
  <2>1. queue \in Seq([id : Nat, op : {"write", "flush"}, code : {1, 2}])
    <3>1. Known \subseteq [id : Nat, op : {"write", "flush"}, code : {1, 2}]
      BY DEF Known
    <3> QED
      BY <3>1, SeqMonotone, Numbered
  <2>2. e \in [id : Nat, op : {"write", "flush"}, code : {1, 2}]
    BY Numbered DEF Code
  <2> HIDE DEF e
  <2>3. queue # <<>> => Append(queue, e) # <<>> /\ Head(Append(queue, e)) = Head(queue)
    BY <2>1, <2>2
  <2>4. /\ IdsOf(Append(queue, e)) = IdsOf(queue) \cup {e.id}
        /\ NoTwice(queue) /\ e.id \notin IdsOf(queue) => NoTwice(Append(queue, e))
    BY <2>1, <2>2, AppendIds
  <2> QED
    BY <1>2, <1>3, <2>3, <2>4
<1>7. /\ tickets + 1 \notin IdsOf(queue) /\ tickets + 1 \notin Vecs /\ tickets + 1 \notin ran
      /\ poll.pc = "run" => poll.head.id # tickets + 1
  BY Numbered
<1> HIDE DEF e
<1>8. ASSUME ~raced, Placed, AtFront, Kept PROVE Placed' /\ AtFront' /\ Kept'
  <2>1. Placed'
    BY <1>2, <1>4, <1>5, <1>6, <1>7, <1>8 DEF Placed
  <2>2. AtFront'
    BY <1>2, <1>5, <1>6, <1>7, <1>8 DEF AtFront
  <2>3. Nowhere' \subseteq Nowhere
    <3>1. \A k \in 1..(tickets + 1) : k \in 1..tickets \/ k = tickets + 1
      BY Numbered
    <3> QED
      BY <1>2, <1>5, <1>6, <3>1 DEF Nowhere
  <2>4. Kept'
    BY <1>2, <1>8, <2>3 DEF Kept
  <2> QED
    BY <2>1, <2>2, <2>4
<1> QED
  BY <1>2, <1>4, <1>8 DEF QInv


\* A shuffle takes the queue, unless the polling thread is between front and
\* pop: then raced is set.
LEMMA DrainQueue ==
  ASSUME TInv, QInv, NEW t \in Thread, Drain(t)
  PROVE  QInv'
<1>1. call[t] \in Call /\ call \in [Thread -> Call] /\ Vectors
  BY Parts DEF QInv
<1>2. call[t].pc = "shuffle" /\ call[t].vec = <<>> /\ UNCHANGED <<poll, tickets, ran>>
  BY <1>1 DEF Drain, At, Vectors
<1>3. CASE queue = <<>>
  <2>1. call' = [call EXCEPT ![t] = Idle] /\ UNCHANGED queued
    BY <1>3 DEF Drain, Ends, queued
  <2> QED
    BY <1>1, <1>2, <2>1, IdleType, OneCall, Elsewise
<1>4. CASE queue # <<>>
  <2>1. /\ call' = [call EXCEPT ![t].pc = "refill", ![t].vec = queue]
        /\ queue' = <<>> /\ raced' = (raced \/ poll.pc = "pop")
    BY <1>4 DEF Drain
  <2>2. call'[t].vec = queue /\ call'[t].pc = "refill"
    BY <1>1, <2>1 DEF Call
  <2>3. \A u \in Thread \ {t} : call'[u] = call[u]
    BY <1>1, <2>1
  <2>4. Vectors'
    BY <1>1, <2>2, <2>3 DEF Vectors
  <2>5. IdsOf(<<>>) = {} /\ NoTwice(<<>>)
    BY DEF IdsOf, NoTwice
  <2>6. ASSUME NEW x PROVE x \in Vecs' <=> x \in Vecs \/ x \in IdsOf(queue)
    <3>1. x \in Vecs' <=> \E u \in Thread : x \in IdsOf(call'[u].vec)
      BY DEF Vecs
    <3>2. x \in Vecs <=> \E u \in Thread : x \in IdsOf(call[u].vec)
      BY DEF Vecs
    <3>3. x \notin IdsOf(call[t].vec)
      BY <1>2, <2>5
    <3> QED
      BY <2>2, <2>3, <3>1, <3>2, <3>3
  <2>7. ASSUME ~raced, poll.pc # "pop", Placed, AtFront, Kept PROVE Placed' /\ AtFront' /\ Kept'
    <3>1. \A u \in Thread \ {t} : IdsOf(call[u].vec) \cap IdsOf(queue) = {}
      BY <2>7 DEF Placed, Vecs
    <3>2. NoTwice(queue') /\ \A u \in Thread : NoTwice(call'[u].vec)
      BY <2>1, <2>2, <2>3, <2>5, <2>7 DEF Placed
    <3>3. ASSUME NEW u \in Thread, NEW v \in Thread, u # v
          PROVE  IdsOf(call'[u].vec) \cap IdsOf(call'[v].vec) = {}
      <4>1. CASE u = t
        BY <2>2, <2>3, <3>1, <3>3, <4>1
      <4>2. CASE v = t
        BY <2>2, <2>3, <3>1, <3>3, <4>2
      <4>3. CASE u # t /\ v # t
        BY <2>3, <2>7, <3>3, <4>3 DEF Placed
      <4> QED
        BY <4>1, <4>2, <4>3
    <3>4. IdsOf(queue') \cap Vecs' = {} /\ (IdsOf(queue') \cup Vecs') \cap ran' = {}
      BY <1>2, <2>1, <2>5, <2>6, <2>7 DEF Placed
    <3>5. Placed'
      BY <3>2, <3>3, <3>4 DEF Placed
    <3>6. AtFront'
      BY <1>2, <2>1, <2>5, <2>6, <2>7 DEF AtFront
    <3>7. Nowhere' = Nowhere
      BY <1>2, <2>1, <2>5, <2>6 DEF Nowhere
    <3>8. Kept'
      BY <1>2, <2>7, <3>7 DEF Kept
    <3> QED
      BY <3>5, <3>6, <3>8
  <2> QED
    BY <2>1, <2>4, <2>7 DEF QInv
<1> QED
  BY <1>3, <1>4

\* The vector goes back behind what was queued meanwhile, all of it.
LEMMA RefillQueue ==
  ASSUME TInv, QInv, NEW t \in Thread, Refill(t)
  PROVE  QInv'
<1>1. call[t] \in Call /\ call \in [Thread -> Call] /\ Vectors
  BY Parts DEF QInv
<1>2. PICK s \in SetToSeqs(ToSet(call[t].vec)) : queue' = queue \o s
  BY DEF Refill
<1>3. call' = [call EXCEPT ![t] = Idle] /\ UNCHANGED <<poll, tickets, ran, raced>>
  BY DEF Refill, Ends
<1>4. call'[t].vec = <<>> /\ \A u \in Thread \ {t} : call'[u] = call[u]
  BY <1>1, <1>3, IdleType
<1>5. Vectors'
  BY <1>1, <1>4 DEF Vectors
<1>6. IdsOf(<<>>) = {} /\ NoTwice(<<>>)
  BY DEF IdsOf, NoTwice
<1>7. ASSUME NEW x PROVE x \in Vecs <=> x \in Vecs' \/ x \in IdsOf(call[t].vec)
  <2>1. x \in Vecs' <=> \E u \in Thread : x \in IdsOf(call'[u].vec)
    BY DEF Vecs
  <2>2. x \in Vecs <=> \E u \in Thread : x \in IdsOf(call[u].vec)
    BY DEF Vecs
  <2>3. x \notin IdsOf(call'[t].vec)
    BY <1>4, <1>6
  <2> QED
    BY <1>4, <2>1, <2>2, <2>3
<1>8. ASSUME ~raced, Placed, AtFront, Kept PROVE Placed' /\ AtFront' /\ Kept'
  <2>1. NoTwice(call[t].vec) /\ NoTwice(queue) /\ IdsOf(queue) \cap IdsOf(call[t].vec) = {}
    BY <1>8, <1>7 DEF Placed
  <2>2. queue \in Seq(Known) /\ call[t].vec \in Seq(Known)
    BY Numbered
  <2>3. s \in Seq(Known)
    BY <2>2, ShuffleType
  <2>4. IdsOf(s) = IdsOf(call[t].vec) /\ NoTwice(s)
    BY <2>1, <2>2, ShuffleIds
  <2>5. IdsOf(queue \o s) = IdsOf(queue) \cup IdsOf(s) /\ NoTwice(queue \o s)
    BY <2>1, <2>2, <2>3, <2>4, ConcatIds
  <2>6. queue # <<>> => queue \o s # <<>> /\ Head(queue \o s) = Head(queue)
    BY <2>2, <2>3
  <2>7. \A x : x \in IdsOf(queue') <=> x \in IdsOf(queue) \/ x \in IdsOf(call[t].vec)
    BY <1>2, <2>4, <2>5
  <2>8. \A u \in Thread \ {t} : IdsOf(call[u].vec) \cap IdsOf(call[t].vec) = {}
    BY <1>8 DEF Placed
  <2>9. \A x \in Vecs' : x \notin IdsOf(call[t].vec)
    <3>1. \A u \in Thread : IdsOf(call'[u].vec) \cap IdsOf(call[t].vec) = {}
      BY <1>4, <1>6, <2>8
    <3> QED
      BY <3>1 DEF Vecs
  <2>10. \A u \in Thread : NoTwice(call'[u].vec)
    BY <1>4, <1>6, <1>8 DEF Placed
  <2>11. \A u, v \in Thread : u # v => IdsOf(call'[u].vec) \cap IdsOf(call'[v].vec) = {}
    BY <1>4, <1>6, <1>8 DEF Placed
  <2>12. IdsOf(queue') \cap Vecs' = {} /\ (IdsOf(queue') \cup Vecs') \cap ran' = {}
    BY <1>3, <1>7, <1>8, <2>7, <2>9 DEF Placed
  <2>13. Placed'
    BY <1>2, <2>5, <2>10, <2>11, <2>12 DEF Placed
  <2>14. AtFront'
    BY <1>2, <1>3, <1>7, <1>8, <2>6, <2>7 DEF AtFront
  <2>15. Nowhere' = Nowhere
    BY <1>3, <1>7, <2>7 DEF Nowhere
  <2>16. Kept'
    BY <1>3, <1>8, <2>15 DEF Kept
  <2> QED
    BY <2>13, <2>14, <2>16
<1> QED
  BY <1>3, <1>5, <1>8 DEF QInv

\* The polling thread takes the head out and executes it.
LEMMA PollQueue ==
  ASSUME TInv, QInv, PollFront \/ PollPop \/ PollRun
  PROVE  QInv'
<1>1. UNCHANGED <<call, tickets, raced>> /\ Vectors' /\ Vecs' = Vecs
  BY DEF PollFront, PollPop, PollRun, QInv, Vectors, Vecs
<1> SUFFICES ASSUME ~raced, Placed, AtFront, Kept PROVE Placed' /\ AtFront' /\ Kept'
  BY <1>1 DEF QInv
<1>2. CASE PollFront
  <2>1. UNCHANGED <<queue, ran>> /\ queue # <<>> /\ poll'.pc = "pop" /\ poll'.head = Head(queue)
        /\ poll.pc = "sleep"
    BY <1>2 DEF PollFront
  <2>2. Placed'
    BY <1>1, <2>1 DEF Placed
  <2>3. AtFront'
    BY <2>1 DEF AtFront
  <2>4. Kept'
    BY <1>1, <2>1 DEF Kept, Nowhere
  <2> QED
    BY <2>2, <2>3, <2>4
<1>3. CASE PollPop
  <2>1. ran' = ran /\ poll.pc = "pop" /\ poll' = [poll EXCEPT !.pc = "run"]
    BY <1>3 DEF PollPop
  <2>2. poll \in [pc : {"pop", "run"}, head : Known] /\ queue \in Seq(Known)
    BY <2>1 DEF TInv, Ticketed, Asleep
  <2>3. poll'.pc = "run" /\ poll'.head = poll.head
    BY <2>1, <2>2
  <2>4. queue # <<>> /\ Head(queue) = poll.head /\ queue' = Tail(queue)
    BY <1>3, <2>1 DEF AtFront, PollPop
  <2>5. NoTwice(queue)
    BY DEF Placed
  <2>6. /\ IdsOf(queue) = IdsOf(queue') \cup {poll.head.id}
        /\ NoTwice(queue') /\ poll.head.id \notin IdsOf(queue')
    BY <2>2, <2>4, <2>5, TailIds
  <2>7. Placed'
    BY <1>1, <2>1, <2>6 DEF Placed
  <2>8. AtFront'
    BY <1>1, <2>1, <2>3, <2>6 DEF AtFront, Placed
  <2>9. Nowhere = {}
    BY <2>1 DEF Kept
  <2>10. Kept'
    BY <1>1, <2>1, <2>3, <2>6, <2>9 DEF Kept, Nowhere
  <2> QED
    BY <2>7, <2>8, <2>10
<1>4. CASE PollRun
  <2>1. queue' = queue /\ poll.pc = "run" /\ ran' = ran \cup {poll.head.id} /\ poll'.pc = "sleep"
    BY <1>4 DEF PollRun, Asleep
  <2>2. Placed'
    BY <1>1, <2>1 DEF Placed, AtFront
  <2>3. AtFront'
    BY <2>1 DEF AtFront
  <2>4. Kept'
    BY <1>1, <2>1 DEF Kept, Nowhere
  <2> QED
    BY <2>2, <2>3, <2>4
<1> QED
  BY <1>2, <1>3, <1>4

\* No step mixes up the tickets.
LEMMA NextQueue == TInv /\ TInv' /\ QInv /\ [Next]_vars => QInv'
<1> SUFFICES ASSUME TInv, TInv', QInv, [Next]_vars PROVE QInv'
  OBVIOUS
<1>1. CASE UNCHANGED vars
  BY <1>1, SameCalls DEF vars
<1>2. ASSUME NEW t \in Thread,
             OnFile(t) \/ Opening(t) \/ (\E p \in Path : OnPath(t, p)) \/ Elsewhere(t)
      PROVE  QInv'
  <2>1. CASE Quietly(t)
    BY <2>1, QuietActs, SameCalls DEF Quiet
  <2>2. CASE OnFile(t) /\ ~Quietly(t)
    BY <2>2, OnFileQueue, EnqueueQueue, DrainQueue, RefillQueue DEF OnFile, Quietly
  <2>3. CASE (\E p \in Path : OnPath(t, p)) /\ ~Quietly(t)
    BY <2>3, OnPathQueue
  <2>4. CASE Elsewhere(t) /\ ~Quietly(t)
    BY <2>4, SameCalls DEF Elsewhere, Quietly, Fsyncdir
  <2> QED
    BY <1>2, <2>1, <2>2, <2>3, <2>4, OpeningQueue
<1> QED
  BY <1>1, <1>2, PollQueue DEF Next

\* At the start there are no tickets.
LEMMA InitQueue == Init => QInv
<1> SUFFICES ASSUME Init PROVE QInv
  OBVIOUS
<1>1. \A t \in Thread : call[t].vec = <<>>
  BY IdleType DEF Init
<1>2. IdsOf(<<>>) = {} /\ NoTwice(<<>>)
  BY DEF IdsOf, NoTwice
<1>3. Vecs = {} /\ Vectors
  BY <1>1, <1>2 DEF Vecs, Vectors
<1>4. Placed /\ AtFront /\ Kept
  BY <1>1, <1>2, <1>3 DEF Init, Asleep, Placed, AtFront, Kept, Nowhere
<1> QED
  BY <1>3, <1>4 DEF QInv

\* A queued operation is executed exactly once, for any number of threads and
\* of queued operations, however they are shuffled, unless a shuffle falls
\* between the front and the pop of the polling thread.
THEOREM QueuedExecutedOnce == Spec => []ExecutedOnce
<1>1. TInv /\ QInv => ExecutedOnce
  <2> SUFFICES ASSUME TInv, QInv, ~raced
               PROVE  LET ids == {e.id : e \in Waiting}
                      IN  ids \cap ran = {} /\ ids \cup ran = 1..tickets
    BY DEF ExecutedOnce
  <2>1. Placed /\ AtFront /\ Kept
    BY DEF QInv
  <2> DEFINE ids == {e.id : e \in Waiting}
             q == IF poll.pc = "pop" /\ ~raced THEN Tail(queue) ELSE queue
             head == IF poll = Asleep THEN {} ELSE {poll.head.id}
  <2>2. ASSUME NEW x PROVE x \in ids <=> x \in Vecs \/ x \in IdsOf(q) \/ x \in head
    <3>1. \A e : e \in Waiting <=>
            \/ \E t \in Thread : e \in ToSet(call[t].vec)
            \/ e \in ToSet(q)
            \/ poll # Asleep /\ e = poll.head
      <4> DEFINE vecs == UNION {ToSet(call[t].vec) : t \in Thread}
                 last == IF poll = Asleep THEN {} ELSE {poll.head}
      <4>1. \A e : e \in vecs <=> \E t \in Thread : e \in ToSet(call[t].vec)
        OBVIOUS
      <4>2. \A e : e \in last <=> poll # Asleep /\ e = poll.head
        OBVIOUS
      <4>3. Waiting = vecs \cup ToSet(q) \cup last
        BY DEF Waiting
      <4> HIDE DEF vecs, last, q
      <4> QED
        BY <4>1, <4>2, <4>3
    <3> HIDE DEF q
    <3>2. \A s : x \in IdsOf(s) <=> \E e \in ToSet(s) : x = e.id
      BY DEF IdsOf, ToSet
    <3>3. x \in Vecs <=> \E t \in Thread : x \in IdsOf(call[t].vec)
      BY DEF Vecs
    <3> QED
      BY <3>1, <3>2, <3>3
  <2>3. ASSUME NEW x PROVE x \in IdsOf(q) \/ x \in head <=>
                             x \in IdsOf(queue) \/ (poll.pc = "run" /\ x = poll.head.id)
    <3>1. CASE poll.pc = "sleep"
      <4>1. poll = Asleep
        BY <3>1, Numbered
      <4> QED
        BY <3>1, <4>1
    <3>2. CASE poll.pc = "pop"
      <4>1. queue \in Seq(Known) /\ queue # <<>> /\ Head(queue) = poll.head /\ NoTwice(queue)
        BY <2>1, <3>2, Numbered DEF AtFront, Placed
      <4>2. IdsOf(queue) = IdsOf(Tail(queue)) \cup {Head(queue).id}
        BY <4>1, TailIds
      <4>3. poll # Asleep
        BY <3>2 DEF Asleep
      <4> QED
        BY <3>2, <4>1, <4>2, <4>3
    <3>3. CASE poll.pc = "run"
      <4>1. poll # Asleep
        BY <3>3 DEF Asleep
      <4> QED
        BY <3>3, <4>1
    <3> QED
      BY <3>1, <3>2, <3>3, Numbered
  <2> HIDE DEF ids, q, head
  <2>4. ids \cap ran = {}
    BY <2>1, <2>2, <2>3 DEF Placed, AtFront
  <2>5. ids \cup ran \subseteq 1..tickets
    BY <2>2, <2>3, Numbered
  <2>6. ASSUME NEW k \in 1..tickets PROVE k \in ids \cup ran
    <3>1. k \in IdsOf(queue) \cup Vecs \cup ran \/ k \in Nowhere
      BY DEF Nowhere
    <3>2. k \in Nowhere => poll.pc = "run" /\ k = poll.head.id
      BY <2>1 DEF Kept
    <3> QED
      BY <2>2, <2>3, <3>1, <3>2
  <2>7. ids \cup ran = 1..tickets
    BY <2>5, <2>6
  <2> QED
    BY <2>4, <2>7 DEF ids
<1> QED
  BY <1>1, InitType, NextType, InitQueue, NextQueue, PTL DEF Spec
============================================================================
