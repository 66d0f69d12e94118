-------------------------- MODULE ErrInjectProofs --------------------------
(***************************************************************************)
(* Nobody walks a freed list of injections, whatever the threads, the      *)
(* operations and the configuration files.  ListAlive is not inductive:    *)
(* that the walk is safe follows from who holds the mutex (Holds), and     *)
(* that nobody comes upon a freed list from where a thread is while the    *)
(* list is freed (FreedInv).                                               *)
(*                                                                         *)
(* The parser and conf_option_handler are folds over the lines of a file   *)
(* and the options it gives.  What they compute is proved for every file   *)
(* by induction over its lines: the induction is over a set of numbers     *)
(* (NatSetInduction), and a fold is a function whose value at 1..n is      *)
(* found from the one at 1..(n - 1) (ParseTrace, OptionTrace).             *)
(***************************************************************************)
EXTENDS ErrInject, TLAPS, FiniteSetTheorems, SequenceTheorems, WellFoundedInduction

Calls == [pc : Places, op : Op \cup {Null}, path : Path \cup {Null}, at : Nat,
          rc : Errno \cup Reserved, list : Nat, hits : Seq(Nat), calls : Nat]

CallType == gen \in Nat /\ call \in [Thread -> Calls]

Inside == {"delete", "load", "walk", "sleep", "leave"}

\* Whoever is between lock and unlock holds the mutex.
Holds == \A t \in Thread : call[t].pc \in Inside => mutex = t

\* The list is freed only while its replacement is being read.
FreedInv == freed => \E t \in Thread : mutex = t /\ call[t].pc = "load"

EInv == CallType /\ Holds /\ FreedInv /\ ListAlive

----------------------------------------------------------------------------

\* Every effect of an injection is a return code.
LEMMA EffectsType == \A type : Effects(type) \subseteq Errno \cup Reserved
BY DEF Effects, Reserved

\* A thread that does nothing is well typed.
LEMMA IdleType == Idle \in Calls /\ Idle.pc = "idle"
<1>1. <<>> \in Seq(Nat)
  OBVIOUS
<1> QED
  BY <1>1 DEF Idle, Calls, Places, Reserved, Places, Answers

\* The state main builds before it mounts satisfies the invariant.
LEMMA InitInv == Init => EInv
<1> SUFFICES ASSUME Init PROVE EInv
  OBVIOUS
<1>1. CallType
  BY IdleType DEF Init, CallType
<1>2. Holds /\ FreedInv /\ ListAlive
  BY DEF Init, Idle, Holds, FreedInv, ListAlive, Inside
<1> QED
  BY <1>1, <1>2 DEF EInv

\* One thread changes its place, and neither the mutex nor the list: enough
\* for every step that leaves a thread where it needs the mutex no more than
\* before, and enters no walk it was not in.
LEMMA MoveInv ==
  ASSUME EInv, NEW t \in Thread, NEW c \in Calls,
         call' = [call EXCEPT ![t] = c],
         UNCHANGED <<freed, gen, mutex>>,
         c.pc \in Inside => call[t].pc \in Inside,
         call[t].pc # "load",
         c.pc \in {"walk", "sleep"} =>
           call[t].pc \in {"walk", "sleep"} /\ c.list = call[t].list
  PROVE  EInv'
<1>1. CallType'
  BY DEF EInv, CallType
<1>2. Holds'
  BY DEF EInv, CallType, Holds
<1>3. FreedInv'
  BY DEF EInv, CallType, FreedInv
<1>4. ListAlive'
  BY DEF EInv, CallType, ListAlive
<1> QED
  BY <1>1, <1>2, <1>3, <1>4 DEF EInv

\* A call starts.
LEMMA BeginInv ==
  ASSUME EInv, NEW t \in Thread, NEW op \in Op, NEW path \in Path, Begin(t, op, path)
  PROVE  EInv'
<1> DEFINE c == [Idle EXCEPT !.pc = "enter", !.op = op, !.path = path,
                             !.calls = call[t].calls + 1]
<1>1. c \in Calls
  <2>1. call[t].calls + 1 \in Nat /\ "enter" \in Places
    BY DEF Calls, EInv, CallType, Places
  <2> QED
    BY <2>1, IdleType DEF Calls
<1>2. c.pc = "enter" /\ call[t].pc = "idle" /\ call' = [call EXCEPT ![t] = c]
      /\ UNCHANGED <<freed, gen, mutex>>
  BY DEF Begin, Idle
<1> QED
  BY <1>1, <1>2, MoveInv DEF Inside

\* The thread takes the mutex: nobody is inside, so nothing is freed, and
\* the list it may walk is the one of now.
LEMMA EnterInv ==
  ASSUME EInv, NEW t \in Thread, Enter(t)
  PROVE  EInv'
<1> USE ErrInjectAssumption
<1> DEFINE l == CASE call[t].path = ConfPath -> "delete"
                  [] call[t].path # ConfPath /\ errors = Null -> "leave"
                  [] OTHER -> "walk"
           c == [call[t] EXCEPT !.pc = l, !.at = 1, !.list = gen]
<1>1. l \in Inside \ {"load", "sleep"}
  BY DEF Inside
<1>2. call[t] \in Calls /\ gen \in Nat /\ call \in [Thread -> Calls]
  BY DEF EInv, CallType
<1>3. c \in Calls /\ c.pc = l /\ c.list = gen
  BY <1>1, <1>2 DEF Calls, Places, Inside
<1>4. call' = [call EXCEPT ![t] = c]
  BY <1>2 DEF Enter, Dispatch
<1> HIDE DEF l, c
<1>5. mutex = Null /\ mutex' = t /\ UNCHANGED <<freed, gen>>
  BY DEF Enter
<1>6. \A u \in Thread : call[u].pc \notin Inside
  BY <1>5 DEF EInv, Holds
<1>7. ~freed
  BY <1>6 DEF EInv, FreedInv, Inside
<1>8. CallType'
  BY <1>2, <1>3, <1>4, <1>5 DEF CallType
<1>9. Holds'
  BY <1>2, <1>4, <1>5, <1>6 DEF Holds
<1>10. FreedInv'
  BY <1>5, <1>7 DEF FreedInv
<1>11. ListAlive'
  BY <1>2, <1>3, <1>4, <1>5, <1>6, <1>7 DEF ListAlive, Inside
<1> QED
  BY <1>8, <1>9, <1>10, <1>11 DEF EInv

\* config_delete: the one inside is not walking, so nobody is.
LEMMA DeleteInv ==
  ASSUME EInv, NEW t \in Thread, Delete(t)
  PROVE  EInv'
<1>1. /\ call[t].pc = "delete" /\ mutex = t
      /\ call' = [call EXCEPT ![t].pc = "load"]
      /\ UNCHANGED <<gen, mutex>>
  BY DEF Delete, Goto, EInv, Holds, Inside
<1>2. \A u \in Thread \ {t} : call[u].pc \notin Inside
  BY <1>1 DEF EInv, Holds
<1>3. CallType'
  BY <1>1 DEF EInv, CallType, Calls, Places
<1>4. call'[t].pc = "load" /\ \A u \in Thread \ {t} : call'[u] = call[u]
  BY <1>1 DEF EInv, CallType, Calls, Places
<1>5. Holds' /\ FreedInv' /\ ListAlive'
  BY <1>1, <1>2, <1>4 DEF Holds, FreedInv, ListAlive, Inside
<1> QED
  BY <1>3, <1>5 DEF EInv

\* config_init: a new list, and nobody walks.
LEMMA LoadInv ==
  ASSUME EInv, NEW t \in Thread, Load(t)
  PROVE  EInv'
<1>1. /\ call[t].pc = "load" /\ mutex = t /\ ~freed'
      /\ call' = [call EXCEPT ![t].pc = "leave"]
      /\ gen' = gen + 1 /\ mutex' = mutex
  BY DEF Load, Goto, EInv, Holds, Inside
<1>2. \A u \in Thread \ {t} : call[u].pc \notin Inside
  BY <1>1 DEF EInv, Holds
<1>3. CallType'
  <2>1. gen + 1 \in Nat
    BY DEF EInv, CallType
  <2>2. call' \in [Thread -> Calls]
    BY <1>1 DEF EInv, CallType, Calls, Places
  <2> QED
    BY <1>1, <2>1, <2>2 DEF CallType
<1>4. call'[t].pc = "leave" /\ \A u \in Thread \ {t} : call'[u] = call[u]
  BY <1>1 DEF EInv, CallType, Calls, Places
<1>5. Holds' /\ FreedInv' /\ ListAlive'
  BY <1>1, <1>2, <1>4 DEF Holds, FreedInv, ListAlive, Inside
<1> QED
  BY <1>3, <1>5 DEF EInv

\* One round of the walk, and its end.
LEMMA WalkInv ==
  ASSUME EInv, NEW t \in Thread, Pass(t) \/ Hit(t) \/ Wake(t) \/ WalkEnds(t)
  PROVE  EInv'
<1>1. call[t] \in Calls /\ call \in [Thread -> Calls]
  BY DEF EInv, CallType
<1>2. UNCHANGED <<freed, gen, mutex>>
  BY DEF Pass, Hit, Wake, WalkEnds
<1>3. CASE Pass(t)
  <2> DEFINE c == [call[t] EXCEPT !.at = @ + 1, !.pc = "walk"]
  <2>0. call[t].at + 1 \in Nat /\ "walk" \in Places
    BY <1>1 DEF Calls, Places
  <2>1. c \in Calls /\ c.pc = "walk" /\ c.list = call[t].list
    BY <1>1, <2>0 DEF Calls
  <2>2. call[t].pc = "walk" /\ call' = [call EXCEPT ![t] = c]
    BY <1>3 DEF Pass, Step
  <2> QED
    BY <1>2, <2>1, <2>2, MoveInv DEF Inside
<1>4. CASE Hit(t)
  <2>1. call[t].pc = "walk" /\ call[t].at \in Nat /\ call[t].hits \in Seq(Nat)
    BY <1>1, <1>4 DEF Hit, Calls, Places
  <2> DEFINE h == Append(call[t].hits, call[t].at)
             next(rc, l) == [call[t] EXCEPT !.hits = h, !.rc = rc, !.at = @ + 1, !.pc = l]
  <2>2. h \in Seq(Nat)
    BY <2>1
  <2> HIDE DEF h
  <2>3. ASSUME NEW rc \in Errno \cup Reserved, NEW l \in {"walk", "sleep"}
        PROVE  /\ next(rc, l) \in Calls
               /\ next(rc, l).pc = l /\ next(rc, l).list = call[t].list
    <3>1. call[t].at + 1 \in Nat /\ l \in Places
      BY <2>1 DEF Places
    <3> QED
      BY <1>1, <2>2, <3>1 DEF Calls
  <2>4. \E rc \in Errno \cup Reserved, l \in {"walk", "sleep"} :
          call' = [call EXCEPT ![t] = next(rc, l)]
    <3> DEFINE e == Effects(Entry(t).type)
    <3>1. e \subseteq Errno \cup Reserved
      BY EffectsType
    <3>2. CASE e # {}
      <4>1. PICK rc \in e :
              Step(t, [[call[t] EXCEPT !.hits = Append(@, call[t].at)] EXCEPT !.rc = rc], "walk")
        BY <1>4, <3>2 DEF Hit
      <4>2. call' = [call EXCEPT ![t] = next(rc, "walk")]
        BY <4>1, <1>1 DEF Step, h, Calls, Places
      <4> QED
        BY <4>2, <3>1
    <3>3. CASE e = {}
      <4>1. PICK l \in {"walk", "sleep"} :
              Step(t, [call[t] EXCEPT !.hits = Append(@, call[t].at)], l)
        BY <1>4, <3>3 DEF Hit
      <4>2. call[t].rc \in Errno \cup Reserved
        BY <1>1 DEF Calls, Places
      <4>3. call' = [call EXCEPT ![t] = next(call[t].rc, l)]
        BY <4>1, <1>1 DEF Step, h, Calls, Places
      <4> QED
        BY <4>2, <4>3
    <3> QED
      BY <3>2, <3>3
  <2> HIDE DEF next
  <2> QED
    BY <1>2, <2>1, <2>3, <2>4, MoveInv DEF Inside
<1>5. CASE Wake(t) \/ WalkEnds(t)
  <2>1. PICK l \in {"walk", "leave"} :
          /\ call' = [call EXCEPT ![t].pc = l]
          /\ call[t].pc \in {"walk", "sleep"}
    BY <1>5 DEF Wake, WalkEnds, Goto
  <2> DEFINE c == [call[t] EXCEPT !.pc = l]
  <2>2. c \in Calls /\ c.pc = l /\ c.list = call[t].list /\ call' = [call EXCEPT ![t] = c]
    BY <1>1, <2>1 DEF Calls, Places
  <2> QED
    BY <1>2, <2>1, <2>2, MoveInv DEF Inside
<1> QED
  BY <1>3, <1>4, <1>5

\* The mutex is given back by the one inside.
LEMMA LeaveInv ==
  ASSUME EInv, NEW t \in Thread, Leave(t)
  PROVE  EInv'
<1>1. /\ call[t].pc = "leave" /\ mutex = t
      /\ call' = [call EXCEPT ![t].pc = "left"]
      /\ UNCHANGED <<gen, freed>>
  BY DEF Leave, Goto, EInv, Holds, Inside
<1>2. \A u \in Thread \ {t} : call[u].pc \notin Inside
  BY <1>1 DEF EInv, Holds
<1>3. ~freed
  BY <1>1 DEF EInv, FreedInv
<1>4. CallType'
  BY <1>1 DEF EInv, CallType, Calls, Places
<1>5. call'[t].pc = "left" /\ \A u \in Thread \ {t} : call'[u] = call[u]
  BY <1>1 DEF EInv, CallType, Calls, Places
<1>6. Holds' /\ FreedInv' /\ ListAlive'
  BY <1>1, <1>2, <1>3, <1>5 DEF Holds, FreedInv, ListAlive, Inside
<1> QED
  BY <1>4, <1>6 DEF EInv

\* The operation acts on what error_inject returned, and returns.
LEMMA OutsideInv ==
  ASSUME EInv, NEW t \in Thread, Act(t) \/ Return(t)
  PROVE  EInv'
<1>1. call[t] \in Calls /\ call \in [Thread -> Calls]
  BY DEF EInv, CallType
<1>2. UNCHANGED <<freed, gen, mutex>>
  BY DEF Act, Return
<1>3. CASE Act(t)
  <2> DEFINE l == Outcome(call[t].op, call[t].rc)
             c == [call[t] EXCEPT !.pc = l]
  <2>1. l \in Answers
    BY DEF Outcome, Answers
  <2>2. l \in Places /\ l \notin Inside
    BY <2>1 DEF Answers, Inside, Places
  <2> HIDE DEF l
  <2>3. c \in Calls /\ c.pc = l /\ call' = [call EXCEPT ![t] = c]
    BY <1>1, <1>3, <2>2 DEF Act, Goto, Calls, Places, l
  <2>4. call[t].pc = "left"
    BY <1>3 DEF Act
  <2> QED
    BY <1>2, <2>2, <2>3, <2>4, MoveInv DEF Inside
<1>4. CASE Return(t)
  <2> DEFINE c == [Idle EXCEPT !.calls = call[t].calls]
  <2>1. c \in Calls /\ c.pc = "idle"
    BY <1>1, IdleType DEF Calls, Places
  <2>2. call' = [call EXCEPT ![t] = c] /\ call[t].pc # "load"
    BY <1>4 DEF Return, Answers
  <2> QED
    BY <1>2, <2>1, <2>2, MoveInv DEF Inside
<1> QED
  BY <1>3, <1>4

\* Every step keeps the invariant.
LEMMA NextInv == EInv /\ [Next]_vars => EInv'
<1> SUFFICES ASSUME EInv, [Next]_vars PROVE EInv'
  OBVIOUS
<1>1. ASSUME NEW t \in Thread, Work(t) PROVE EInv'
  BY <1>1, EnterInv, DeleteInv, LoadInv, WalkInv, LeaveInv, OutsideInv DEF Work
<1>2. ASSUME NEW t \in Thread, NEW op \in Op, NEW path \in Path, Begin(t, op, path)
      PROVE  EInv'
  BY <1>2, BeginInv
<1>3. ASSUME UNCHANGED <<errors, freed, gen, mutex, call>> PROVE EInv'
  BY <1>3 DEF EInv, CallType, Holds, FreedInv, ListAlive
<1>4. ASSUME NEW f, Edit(f) PROVE EInv'
  BY <1>3, <1>4 DEF Edit
<1>5. CASE UNCHANGED vars
  BY <1>3, <1>5 DEF vars
<1> QED
  BY <1>1, <1>2, <1>4, <1>5 DEF Next

\* No operation walks a list of injections that config_delete has freed or
\* config_init has replaced (error_inject, lines 173 to 245), for any number
\* of threads and whatever the configuration file becomes.
THEOREM ListNeverFreedUnderWalk == Spec => []ListAlive
<1>1. EInv => ListAlive
  BY DEF EInv
<1> QED
  BY <1>1, InitInv, NextInv, PTL DEF Spec

\* The mutex covers error_inject from its first line to its last: two
\* operations are never both inside.
THEOREM OneInside ==
  Spec => [](\A t, u \in Thread : call[t].pc \in Inside /\ call[u].pc \in Inside => t = u)
<1>1. EInv => \A t, u \in Thread : call[t].pc \in Inside /\ call[u].pc \in Inside => t = u
  BY DEF EInv, Holds
<1> QED
  BY <1>1, InitInv, NextInv, PTL DEF Spec

----------------------------------------------------------------------------
(* What the walk returns.  LastHitWins speaks of the end of a walk; RcInv   *)
(* says the same of every round, and that a walk starts with no hit.        *)

RcInv ==
  \A t \in Thread :
    /\ call[t].pc = "enter" => call[t].hits = <<>> /\ call[t].rc = "ok"
    /\ call[t].pc \in {"walk", "sleep"} => LastWins(errors, call[t])

\* A hit that kills or sleeps leaves the decision with the ones before it.
LEMMA HitSetsNothing ==
  ASSUME NEW list, NEW c \in Calls, NEW d \in Calls, LastWins(list, c),
         d.hits = Append(c.hits, c.at), d.rc = c.rc, Effects(list[c.at].type) = {}
  PROVE  LastWins(list, d)
<1>1. c.hits \in Seq(Nat) /\ c.at \in Nat
  BY DEF Calls
<1>2. /\ DOMAIN c.hits = 1..Len(c.hits) /\ DOMAIN d.hits = 1..(Len(c.hits) + 1)
      /\ d.hits[Len(c.hits) + 1] = c.at
      /\ \A k \in DOMAIN c.hits : d.hits[k] = c.hits[k]
      /\ Len(c.hits) \in Nat
  BY <1>1
<1>3. Setters(list, d.hits) = Setters(list, c.hits)
  <2>1. ASSUME NEW k \in Setters(list, d.hits)
        PROVE  k \in Setters(list, c.hits)
    <3>1. k \in 1..(Len(c.hits) + 1) /\ Effects(list[d.hits[k]].type) # {}
      BY <1>2 DEF Setters
    <3>2. k # Len(c.hits) + 1
      BY <1>2, <3>1
    <3>3. k \in DOMAIN c.hits /\ d.hits[k] = c.hits[k]
      BY <1>2, <3>1, <3>2
    <3> QED
      BY <3>1, <3>3 DEF Setters
  <2>2. ASSUME NEW k \in Setters(list, c.hits)
        PROVE  k \in Setters(list, d.hits)
    <3>1. k \in DOMAIN c.hits /\ Effects(list[c.hits[k]].type) # {}
      BY DEF Setters
    <3>2. k \in DOMAIN d.hits /\ d.hits[k] = c.hits[k]
      BY <1>2, <3>1
    <3> QED
      BY <3>1, <3>2 DEF Setters
  <2> QED
    BY <2>1, <2>2
<1>4. \A k \in Setters(list, c.hits) : d.hits[k] = c.hits[k]
  BY <1>2 DEF Setters
<1> QED
  BY <1>3, <1>4 DEF LastWins

\* A hit that sets the return code decides.
LEMMA HitSets ==
  ASSUME NEW list, NEW c \in Calls, NEW d \in Calls,
         d.hits = Append(c.hits, c.at), d.rc \in Effects(list[c.at].type)
  PROVE  LastWins(list, d)
<1>1. c.hits \in Seq(Nat) /\ c.at \in Nat
  BY DEF Calls
<1>2. /\ DOMAIN d.hits = 1..(Len(c.hits) + 1)
      /\ d.hits[Len(c.hits) + 1] = c.at
      /\ Len(c.hits) \in Nat
  BY <1>1
<1>3. Len(c.hits) + 1 \in Setters(list, d.hits)
  <2>1. Effects(list[d.hits[Len(c.hits) + 1]].type) # {}
    BY <1>2
  <2>2. Len(c.hits) + 1 \in DOMAIN d.hits
    BY <1>2
  <2> QED
    BY <2>1, <2>2 DEF Setters
<1>4. \A j \in Setters(list, d.hits) : j <= Len(c.hits) + 1
  BY <1>2 DEF Setters
<1> QED
  BY <1>2, <1>3, <1>4 DEF LastWins

\* A walk of which nothing has fired lets the operation run.
LEMMA NoHit ==
  ASSUME NEW list, NEW c, c.hits = <<>>, c.rc = "ok"
  PROVE  LastWins(list, c)
BY DEF LastWins, Setters

\* A thread changes its own place and not the list: the others' walks go on
\* as they were.
LEMMA RcFrame ==
  ASSUME CallType, RcInv, NEW t \in Thread, NEW c,
         call' = [call EXCEPT ![t] = c], errors' = errors,
         c.pc = "enter" => c.hits = <<>> /\ c.rc = "ok",
         c.pc \in {"walk", "sleep"} => LastWins(errors, c)
  PROVE  RcInv'
<1>1. \A u \in Thread : call'[u] = IF u = t THEN c ELSE call[u]
  BY DEF CallType
<1>2. ASSUME NEW u \in Thread
      PROVE  /\ call'[u].pc = "enter" => call'[u].hits = <<>> /\ call'[u].rc = "ok"
             /\ call'[u].pc \in {"walk", "sleep"} => LastWins(errors', call'[u])
  <2>1. CASE u = t
    BY <1>1, <2>1
  <2>2. CASE u # t
    <3>1. call'[u] = call[u]
      BY <1>1, <2>2
    <3> QED
      BY <3>1 DEF RcInv
  <2> QED
    BY <2>1, <2>2
<1> QED
  BY <1>2 DEF RcInv

\* One round of the walk.
LEMMA HitRc ==
  ASSUME EInv, EInv', RcInv, NEW t \in Thread, Hit(t)
  PROVE  RcInv'
<1>1. call[t] \in Calls /\ call \in [Thread -> Calls] /\ call'[t] \in Calls
  BY DEF EInv, CallType
<1>2. call[t].pc = "walk" /\ errors' = errors
  BY DEF Hit
<1>3. LastWins(errors, call[t])
  BY <1>2 DEF RcInv
<1> DEFINE e == Effects(Entry(t).type)
           h == Append(call[t].hits, call[t].at)
<1>4. CASE e # {}
  <2>1. PICK rc \in e :
          Step(t, [[call[t] EXCEPT !.hits = Append(@, call[t].at)] EXCEPT !.rc = rc], "walk")
    BY <1>4 DEF Hit
  <2> DEFINE d == [call[t] EXCEPT !.hits = h, !.rc = rc, !.at = @ + 1, !.pc = "walk"]
  <2>2. call' = [call EXCEPT ![t] = d]
    BY <1>1, <2>1 DEF Step, Calls
  <2>3. d \in Calls
    BY <1>1, <2>2
  <2>4. d.hits = h /\ d.rc = rc /\ d.pc = "walk"
    BY <1>1 DEF Calls
  <2> HIDE DEF d
  <2>5. LastWins(errors, d)
    BY <1>1, <2>3, <2>4, HitSets DEF Entry
  <2> QED
    BY <1>2, <2>2, <2>4, <2>5, RcFrame DEF EInv
<1>5. CASE e = {}
  <2>1. PICK l \in {"walk", "sleep"} :
          Step(t, [call[t] EXCEPT !.hits = Append(@, call[t].at)], l)
    BY <1>5 DEF Hit
  <2> DEFINE d == [call[t] EXCEPT !.hits = h, !.at = @ + 1, !.pc = l]
  <2>2. call' = [call EXCEPT ![t] = d]
    BY <1>1, <2>1 DEF Step, Calls
  <2>3. d \in Calls
    BY <1>1, <2>2
  <2>4. d.hits = h /\ d.rc = call[t].rc /\ d.pc = l
    BY <1>1 DEF Calls
  <2> HIDE DEF d
  <2>5. LastWins(errors, d)
    BY <1>1, <1>3, <1>5, <2>3, <2>4, HitSetsNothing DEF Entry
  <2> QED
    BY <1>2, <2>1, <2>2, <2>4, <2>5, RcFrame DEF EInv
<1> QED
  BY <1>4, <1>5

\* The steps of a walk that fire nothing, and the ones outside of it.
LEMMA WorkRc ==
  ASSUME EInv, EInv', RcInv, NEW t \in Thread, Work(t)
  PROVE  RcInv'
<1>1. call[t] \in Calls /\ call \in [Thread -> Calls] /\ CallType
  BY DEF EInv, CallType
<1>2. CASE Enter(t)
  <2> DEFINE c == call'[t]
  <2>1. /\ call' = [call EXCEPT ![t] = c] /\ errors' = errors
        /\ c.hits = call[t].hits /\ c.rc = call[t].rc
        /\ c.pc \in {"delete", "leave", "walk"}
    BY <1>1, <1>2 DEF Enter, Dispatch, Calls
  <2>2. call[t].hits = <<>> /\ call[t].rc = "ok"
    BY <1>2 DEF Enter, RcInv
  <2> HIDE DEF c
  <2>3. LastWins(errors, c)
    BY <2>1, <2>2, NoHit
  <2> QED
    BY <1>1, <2>1, <2>3, RcFrame
<1>3. CASE Load(t)
  <2>1. mutex = t /\ call[t].pc = "load"
    BY <1>3 DEF Load, EInv, Holds, Inside
  <2>2. \A u \in Thread \ {t} : call'[u] = call[u] /\ call[u].pc \notin {"walk", "sleep"}
    BY <1>1, <1>3, <2>1 DEF Load, Goto, EInv, Holds, Inside
  <2>3. call'[t].pc = "leave"
    BY <1>1, <1>3 DEF Load, Goto, Calls
  <2> QED
    BY <2>2, <2>3 DEF RcInv
<1>4. CASE Pass(t)
  <2> DEFINE c == [call[t] EXCEPT !.at = @ + 1, !.pc = "walk"]
  <2>1. call' = [call EXCEPT ![t] = c] /\ errors' = errors /\ call[t].pc = "walk"
    BY <1>4 DEF Pass, Step
  <2>2. c.pc = "walk" /\ c.hits = call[t].hits /\ c.rc = call[t].rc
    BY <1>1 DEF Calls
  <2> HIDE DEF c
  <2>3. LastWins(errors, c)
    BY <2>1, <2>2 DEF RcInv, LastWins
  <2> QED
    BY <1>1, <2>1, <2>2, <2>3, RcFrame
<1>5. CASE Wake(t)
  <2> DEFINE c == [call[t] EXCEPT !.pc = "walk"]
  <2>1. call' = [call EXCEPT ![t] = c] /\ errors' = errors /\ call[t].pc = "sleep"
    BY <1>5 DEF Wake, Goto
  <2>2. c.pc = "walk" /\ c.hits = call[t].hits /\ c.rc = call[t].rc
    BY <1>1 DEF Calls
  <2> HIDE DEF c
  <2>3. LastWins(errors, c)
    BY <2>1, <2>2 DEF RcInv, LastWins
  <2> QED
    BY <1>1, <2>1, <2>2, <2>3, RcFrame
<1>6. CASE Delete(t) \/ WalkEnds(t) \/ Leave(t) \/ Act(t) \/ Return(t)
  <2> DEFINE c == call'[t]
  <2>1. /\ call' = [call EXCEPT ![t] = c] /\ errors' = errors
        /\ c.pc \in {"load", "leave", "left", "idle"} \cup Answers
    BY <1>1, <1>6 DEF Delete, WalkEnds, Leave, Act, Return, Goto, Outcome, Answers, Idle, Calls
  <2> HIDE DEF c
  <2> QED
    BY <1>1, <2>1, RcFrame DEF Answers
<1> QED
  BY <1>2, <1>3, <1>4, <1>5, <1>6, HitRc DEF Work

\* Every step keeps what the walks have found so far.
LEMMA NextRc == EInv /\ EInv' /\ RcInv /\ [Next]_vars => RcInv'
<1> SUFFICES ASSUME EInv, EInv', RcInv, [Next]_vars PROVE RcInv'
  OBVIOUS
<1>1. ASSUME NEW t \in Thread, NEW op \in Op, NEW path \in Path, Begin(t, op, path)
      PROVE  RcInv'
  <2> DEFINE c == [Idle EXCEPT !.pc = "enter", !.op = op, !.path = path,
                               !.calls = call[t].calls + 1]
  <2>1. call' = [call EXCEPT ![t] = c] /\ errors' = errors
    BY <1>1 DEF Begin
  <2>2. c.pc = "enter" /\ c.hits = <<>> /\ c.rc = "ok"
    BY DEF Idle
  <2> HIDE DEF c
  <2> QED
    BY <2>1, <2>2, RcFrame DEF EInv
<1>2. ASSUME UNCHANGED <<errors, call>> PROVE RcInv'
  BY <1>2 DEF RcInv, LastWins, Setters
<1>3. ASSUME NEW f, Edit(f) PROVE RcInv'
  BY <1>2, <1>3 DEF Edit
<1>4. CASE UNCHANGED vars
  BY <1>2, <1>4 DEF vars
<1> QED
  BY <1>1, <1>3, <1>4, WorkRc DEF Next

\* error_inject returns what the last injection that fired and sets a code
\* says, for any list of injections, any number of threads and whatever is
\* reloaded meanwhile.
THEOREM LastInjectionWins == Spec => []LastHitWins
<1>1. Init => RcInv
  BY NoHit DEF Init, Idle, RcInv
<1>2. RcInv => LastHitWins
  BY DEF RcInv, LastHitWins
<1> QED
  BY <1>1, <1>2, InitInv, NextInv, NextRc, PTL DEF Spec

----------------------------------------------------------------------------
(* Induction over the lines of a file and the options it gives.            *)

\* Induction, in the form a first-order prover can use: a set that holds 0
\* and the successor of each of its numbers holds all of them.
LEMMA NatSetInduction ==
  ASSUME NEW S, 0 \in S, \A n \in Nat : n \in S => n + 1 \in S
  PROVE  \A n \in Nat : n \in S
<1> SUFFICES ASSUME NEW m \in Nat, m \notin S PROVE FALSE
  OBVIOUS
<1> DEFINE T == {1..n : n \in Nat \ S}
<1>1. PICK x \in T : \A y \in T : <<y, x>> \notin StrictSubsetOrdering(Nat)
  <2>1. T \subseteq FiniteSubsetsOf(Nat)
    <3>1. \A n \in Nat : IsFiniteSet(1..n) /\ 1..n \subseteq Nat
      BY FS_Interval
    <3> QED
      BY <3>1 DEF FiniteSubsetsOf
  <2>2. T # {}
    OBVIOUS
  <2>3. IsWellFoundedOn(StrictSubsetOrdering(Nat), FiniteSubsetsOf(Nat))
    BY FS_StrictSubsetOrderingWellFounded
  <2> HIDE DEF T
  <2> QED
    BY <2>1, <2>2, <2>3, WFMin
<1>2. PICK n \in Nat \ S : x = 1..n
  OBVIOUS
<1>3. n - 1 \in Nat \ S
  BY <1>2
<1>4. 1..(n - 1) \in T
  BY <1>3
<1>5. <<1..(n - 1), 1..n>> \in StrictSubsetOrdering(Nat)
  <2>1. 1..(n - 1) \subseteq 1..n /\ n \in 1..n /\ n \notin 1..(n - 1) /\ 1..n \subseteq Nat
    BY <1>2, <1>3
  <2> QED
    BY <2>1 DEF StrictSubsetOrdering
<1> QED
  BY <1>1, <1>2, <1>4, <1>5

----------------------------------------------------------------------------
(* The parser.  ini_parse_stream keeps a section, the name of the option    *)
(* an indented line continues, and the first bad line; PInv says what they  *)
(* are after n lines, in terms of the lines alone, and that the handler was *)
(* told what those lines say.  It is kept by every line of every file       *)
(* (ParseStep), so that it holds at the end of all of them (ParseAll).      *)

\* No section and no option so far: a name of the empty string.
LEMMA EmptyName == "" \in Name
BY ErrInjectAssumption

\* A fold over 1..n takes the greatest index last.
LEMMA MaxOfInterval ==
  ASSUME NEW n \in Nat, NEW s \in SUBSET (1..n), n \in s
  PROVE  Max(s) = n
<1>1. \A x \in s : x \in 1..n
  OBVIOUS
<1>2. \A y \in s : n >= y
  BY <1>1
<1>3. \E x \in s : \A y \in s : x >= y
  BY <1>2
<1>4. Max(s) \in s /\ \A y \in s : Max(s) >= y
  BY <1>3 DEF Max
<1>5. Max(s) \in 1..n /\ Max(s) >= n
  BY <1>1, <1>4
<1> QED
  BY <1>5

\* The function that a fold over the first n lines is made of.
ParseFold(g, f, n) ==
  g = [s \in SUBSET (1..n) |-> IF s = {} THEN Start ELSE ParseLine(g[s \ {Max(s)}], f[Max(s)])]

\* There is such a function, whatever the lines.
LEMMA ParseFoldExists == \A f : \A n \in Nat : \E g : ParseFold(g, f, n)
<1> SUFFICES ASSUME NEW f PROVE \A n \in Nat : \E g : ParseFold(g, f, n)
  OBVIOUS
<1> DEFINE S == {n \in Nat : \E g : ParseFold(g, f, n)}
<1>1. 0 \in S
  <2>1. ParseFold([s \in SUBSET (1..0) |-> Start], f, 0)
    BY DEF ParseFold
  <2> QED
    BY <2>1
<1>2. ASSUME NEW n \in Nat, n \in S PROVE n + 1 \in S
  <2>1. PICK g : ParseFold(g, f, n)
    BY <1>2
  <2> DEFINE h == [s \in SUBSET (1..(n + 1)) |->
                     IF n + 1 \in s THEN ParseLine(g[s \ {n + 1}], f[n + 1]) ELSE g[s]]
  <2>2. ASSUME NEW s \in SUBSET (1..(n + 1))
        PROVE  h[s] = IF s = {} THEN Start ELSE ParseLine(h[s \ {Max(s)}], f[Max(s)])
    <3>1. CASE n + 1 \in s
      <4>1. Max(s) = n + 1
        BY <3>1, MaxOfInterval
      <4>2. h[s \ {n + 1}] = g[s \ {n + 1}] /\ h[s] = ParseLine(g[s \ {n + 1}], f[n + 1])
        BY <3>1
      <4> HIDE DEF h
      <4> QED
        BY <3>1, <4>1, <4>2
    <3>2. CASE n + 1 \notin s
      <4>1. s \in SUBSET (1..n) /\ s \ {Max(s)} \in SUBSET (1..n)
        <5>1. \A x \in s : x \in 1..(n + 1) /\ x # n + 1
          BY <3>2
        <5>2. \A x \in s : x \in 1..n
          BY <5>1
        <5> QED
          BY <5>2
      <4>2. g[s] = IF s = {} THEN Start ELSE ParseLine(g[s \ {Max(s)}], f[Max(s)])
        BY <2>1, <4>1 DEF ParseFold
      <4>3. h[s] = g[s] /\ h[s \ {Max(s)}] = g[s \ {Max(s)}]
        BY <3>2, <4>1
      <4> HIDE DEF h
      <4> QED
        BY <4>2, <4>3
    <3> QED
      BY <3>1, <3>2
  <2>3. ParseFold(h, f, n + 1)
    BY <2>2 DEF ParseFold
  <2> HIDE DEF h
  <2> QED
    BY <2>3
<1> HIDE DEF S
<1>3. \A n \in Nat : n \in S
  BY <1>1, <1>2, NatSetInduction
<1> QED
  BY <1>3 DEF S

\* The parser goes through its states one line at a time.
LEMMA ParseTrace ==
  ASSUME NEW L, NEW f \in Seq(L)
  PROVE  \E st : /\ st = [n \in 0..Len(f) |-> st[n]]
                 /\ st[0] = Start /\ Parse(f) = st[Len(f)]
                 /\ \A n \in 1..Len(f) : st[n] = ParseLine(st[n - 1], f[n])
<1> DEFINE N == Len(f)
<1>0. N \in Nat /\ DOMAIN f = 1..N
  OBVIOUS
<1>1. PICK g : ParseFold(g, f, N) /\ Parse(f) = g[1..N]
  <2>1. Parse(f) = (CHOOSE g : ParseFold(g, f, N))[1..N]
    BY <1>0 DEF ParseFold, Parse, FoldLeft, MapThenFoldSet
  <2> HIDE DEF N
  <2>2. \E g : ParseFold(g, f, N)
    BY <1>0, ParseFoldExists
  <2>3. ParseFold(CHOOSE g : ParseFold(g, f, N), f, N)
    BY <2>2
  <2> QED
    BY <2>1, <2>3
<1> HIDE DEF N
<1> DEFINE st == [n \in 0..N |-> g[1..n]]
<1>2. st[0] = Start /\ Parse(f) = st[N]
  <2>1. 1..0 = {} /\ {} \in SUBSET (1..N) /\ 0 \in 0..N /\ N \in 0..N
    BY <1>0
  <2>2. g[{}] = Start
    BY <1>1, <2>1 DEF ParseFold
  <2>3. st[0] = g[1..0] /\ st[N] = g[1..N]
    BY <2>1
  <2> HIDE DEF st
  <2> QED
    BY <1>1, <2>1, <2>2, <2>3
<1>3. ASSUME NEW n \in 1..N PROVE st[n] = ParseLine(st[n - 1], f[n])
  <2>1. 1..n \in SUBSET (1..N) /\ n \in 1..n /\ (1..n) \ {n} = 1..(n - 1) /\ 1..n # {}
    <3>1. n \in Nat /\ 1 <= n /\ n <= N
      BY <1>0
    <3> QED
      BY <1>0, <3>1
  <2>2. Max(1..n) = n
    BY MaxOfInterval
  <2>3. g[1..n] = ParseLine(g[1..(n - 1)], f[n])
    BY <1>1, <2>1, <2>2 DEF ParseFold
  <2> QED
    BY <1>0, <2>3
<1>4. st = [n \in 0..N |-> st[n]]
  OBVIOUS
<1> HIDE DEF st
<1> QED
  BY <1>2, <1>3, <1>4 DEF N

\* What the handler is told, and the states of the parser.
Told == [section : Name, key : Name, value : Value]
Parser == [section : Name, prev_name : Name, lineno : Nat, error : Nat, calls : Seq(Told)]

\* The lines ini_parse_stream takes for errors, and the place of a line among
\* those that say something.
Bad(f, i) == f[i].form = "bad" /\ ~Continues(f, i)
Place(f, i) == Cardinality(Saying(f, i))

\* After n lines: an option is open and prev_name is its name, ...
KnowsName(f, n, s) ==
  /\ s.prev_name # "" <=> OpenAfter(f, n)
  /\ s.prev_name # "" => /\ LastOf(f, n, "pair") # {}
                         /\ \A k \in LastOf(f, n, "pair") : s.prev_name = f[k].name
\* ... the section is the one the last header names, ...
KnowsSection(f, n, s) ==
  /\ LastOf(f, n, "section") = {} => s.section = ""
  /\ \A k \in LastOf(f, n, "section") : s.section = f[k].name
\* ... error is the first bad line, ...
KnowsError(f, n, s) ==
  \/ s.error = 0 /\ \A i \in 1..n : ~Bad(f, i)
  \/ s.error \in 1..n /\ Bad(f, s.error) /\ \A i \in 1..n : Bad(f, i) => s.error <= i
\* ... and the handler was told what the lines say, each at its place.
HasTold(f, n, s) ==
  /\ Len(s.calls) = Place(f, n)
  /\ \A i \in Saying(f, n) : /\ Place(f, i) \in 1..Place(f, n)
                             /\ s.calls[Place(f, i)] = Says(f, i)
  /\ \A k \in 1..Place(f, n) : \E i \in Saying(f, n) : Place(f, i) = k

PInv(f, n, s) ==
  /\ s \in Parser /\ s.lineno = n
  /\ KnowsName(f, n, s) /\ KnowsSection(f, n, s) /\ KnowsError(f, n, s) /\ HasTold(f, n, s)

\* At most one line is the last of a form.
LEMMA LastIsOne ==
  ASSUME NEW f, NEW n \in Nat, NEW form, NEW k \in LastOf(f, n, form), NEW l \in LastOf(f, n, form)
  PROVE  k = l
<1>1. k \in 1..n /\ l \in 1..n
  BY DEF LastOf
<1>2. k < l => FALSE
  BY <1>1 DEF LastOf
<1>3. l < k => FALSE
  BY <1>1 DEF LastOf
<1> QED
  BY <1>1, <1>2, <1>3

\* The last header or option, one line later.
LEMMA OneMoreLast ==
  ASSUME NEW f, NEW n \in Nat, NEW form
  PROVE  LastOf(f, n + 1, form) =
           IF f[n + 1].form = form /\ ~Continues(f, n + 1) THEN {n + 1} ELSE LastOf(f, n, form)
<1>1. CASE f[n + 1].form = form /\ ~Continues(f, n + 1)
  <2>1. n + 1 \in LastOf(f, n + 1, form)
    BY <1>1 DEF LastOf
  <2>2. \A k \in LastOf(f, n + 1, form) : k = n + 1
    BY <2>1, LastIsOne
  <2> QED
    BY <1>1, <2>1, <2>2
<1>2. CASE ~(f[n + 1].form = form /\ ~Continues(f, n + 1))
  <2>1. ASSUME NEW k \in LastOf(f, n + 1, form) PROVE k \in LastOf(f, n, form)
    <3>1. k \in 1..(n + 1) /\ f[k].form = form /\ ~Continues(f, k)
          /\ \A j \in (k + 1)..(n + 1) : f[j].form = form => Continues(f, j)
      BY <2>1 DEF LastOf
    <3>2. k # n + 1
      BY <1>2, <3>1
    <3>3. k \in 1..n /\ \A j \in (k + 1)..n : j \in (k + 1)..(n + 1)
      BY <3>1, <3>2
    <3> QED
      BY <3>1, <3>3 DEF LastOf
  <2>2. ASSUME NEW k \in LastOf(f, n, form) PROVE k \in LastOf(f, n + 1, form)
    <3>1. k \in 1..n /\ f[k].form = form /\ ~Continues(f, k)
          /\ \A j \in (k + 1)..n : f[j].form = form => Continues(f, j)
      BY <2>2 DEF LastOf
    <3>2. k \in 1..(n + 1) /\ \A j \in (k + 1)..(n + 1) : j = n + 1 \/ j \in (k + 1)..n
      BY <3>1
    <3> QED
      BY <1>2, <3>1, <3>2 DEF LastOf
  <2> QED
    BY <1>2, <2>1, <2>2
<1> QED
  BY <1>1, <1>2

\* Whether an indented line would continue an option, one line later: prev_name
\* is set by an option with a name, and emptied by what ends it.
LEMMA OneMoreOpen ==
  ASSUME NEW f, NEW n \in Nat
  PROVE  OpenAfter(f, n + 1) <=>
           \/ f[n + 1].form = "pair" /\ f[n + 1].name # ""
           \/ OpenAfter(f, n) /\ ~EndsOption(f, n + 1)
<1>1. ASSUME OpenAfter(f, n + 1), ~(f[n + 1].form = "pair" /\ f[n + 1].name # "")
      PROVE  OpenAfter(f, n) /\ ~EndsOption(f, n + 1)
  <2>1. PICK k \in 1..(n + 1) : f[k].form = "pair" /\ f[k].name # ""
                                /\ \A j \in (k + 1)..(n + 1) : ~EndsOption(f, j)
    BY <1>1 DEF OpenAfter
  <2>2. k # n + 1
    BY <1>1, <2>1
  <2>3. k \in 1..n /\ n + 1 \in (k + 1)..(n + 1) /\ \A j \in (k + 1)..n : j \in (k + 1)..(n + 1)
    BY <2>2
  <2> QED
    BY <2>1, <2>3 DEF OpenAfter
<1>2. ASSUME f[n + 1].form = "pair", f[n + 1].name # "" PROVE OpenAfter(f, n + 1)
  <2>1. n + 1 \in 1..(n + 1) /\ ((n + 1) + 1)..(n + 1) = {}
    OBVIOUS
  <2> QED
    BY <1>2, <2>1 DEF OpenAfter
<1>3. ASSUME OpenAfter(f, n), ~EndsOption(f, n + 1) PROVE OpenAfter(f, n + 1)
  <2>1. PICK k \in 1..n : f[k].form = "pair" /\ f[k].name # ""
                          /\ \A j \in (k + 1)..n : ~EndsOption(f, j)
    BY <1>3 DEF OpenAfter
  <2>2. k \in 1..(n + 1) /\ \A j \in (k + 1)..(n + 1) : j = n + 1 \/ j \in (k + 1)..n
    OBVIOUS
  <2> QED
    BY <1>3, <2>1, <2>2 DEF OpenAfter
<1> QED
  BY <1>1, <1>2, <1>3

\* The lines that say something, one line later.
LEMMA OneMoreSaying ==
  ASSUME NEW f, NEW n \in Nat
  PROVE  /\ IsFiniteSet(Saying(f, n)) /\ Place(f, n) \in Nat
         /\ f[n + 1].form = "pair" \/ Continues(f, n + 1) =>
              Saying(f, n + 1) = Saying(f, n) \cup {n + 1} /\ Place(f, n + 1) = Place(f, n) + 1
         /\ ~(f[n + 1].form = "pair" \/ Continues(f, n + 1)) =>
              Saying(f, n + 1) = Saying(f, n) /\ Place(f, n + 1) = Place(f, n)
<1>1. IsFiniteSet(Saying(f, n))
  <2>1. IsFiniteSet(1..n) /\ Saying(f, n) \in SUBSET (1..n)
    BY FS_Interval DEF Saying
  <2> QED
    BY <2>1, FS_Subset
<1>2. Place(f, n) \in Nat
  BY <1>1, FS_CardinalityType DEF Place
<1>3. \A i : i \in 1..(n + 1) <=> i \in 1..n \/ i = n + 1
  OBVIOUS
<1>4. ASSUME f[n + 1].form = "pair" \/ Continues(f, n + 1)
      PROVE  Saying(f, n + 1) = Saying(f, n) \cup {n + 1} /\ Place(f, n + 1) = Place(f, n) + 1
  <2>1. Saying(f, n + 1) = Saying(f, n) \cup {n + 1}
    BY <1>3, <1>4 DEF Saying
  <2>2. n + 1 \notin Saying(f, n)
    BY DEF Saying
  <2> QED
    BY <1>1, <2>1, <2>2, FS_AddElement DEF Place
<1>5. ASSUME ~(f[n + 1].form = "pair" \/ Continues(f, n + 1))
      PROVE  Saying(f, n + 1) = Saying(f, n)
  BY <1>3, <1>5 DEF Saying
<1> QED
  BY <1>1, <1>2, <1>4, <1>5 DEF Place

\* The handler is told what a line says that says something, ...
LEMMA ToldOneMore ==
  ASSUME NEW f, NEW n \in Nat, NEW calls \in Seq(Told), NEW c \in Told, NEW s, NEW s2,
         s.calls = calls, HasTold(f, n, s),
         f[n + 1].form = "pair" \/ Continues(f, n + 1),
         c = Says(f, n + 1), s2.calls = Append(calls, c)
  PROVE  HasTold(f, n + 1, s2)
<1>1. /\ Saying(f, n + 1) = Saying(f, n) \cup {n + 1} /\ Place(f, n + 1) = Place(f, n) + 1
      /\ Place(f, n) \in Nat
  BY OneMoreSaying
<1>2. /\ Len(s2.calls) = Len(calls) + 1 /\ s2.calls[Len(calls) + 1] = c
      /\ \A k \in 1..Len(calls) : s2.calls[k] = calls[k]
  BY AppendProperties
<1>3. Len(calls) = Place(f, n)
  BY DEF HasTold
<1>4. ASSUME NEW i \in Saying(f, n + 1)
      PROVE  Place(f, i) \in 1..Place(f, n + 1) /\ s2.calls[Place(f, i)] = Says(f, i)
  <2>1. CASE i = n + 1
    BY <1>1, <1>2, <1>3, <2>1
  <2>2. CASE i \in Saying(f, n)
    <3>1. Place(f, i) \in 1..Place(f, n) /\ calls[Place(f, i)] = Says(f, i)
      BY <2>2 DEF HasTold
    <3> QED
      BY <1>1, <1>2, <1>3, <3>1
  <2> QED
    BY <1>1, <2>1, <2>2
<1>5. ASSUME NEW k \in 1..Place(f, n + 1) PROVE \E i \in Saying(f, n + 1) : Place(f, i) = k
  <2>1. k \in 1..Place(f, n) \/ k = Place(f, n + 1)
    BY <1>1
  <2> QED
    BY <1>1, <2>1 DEF HasTold
<1> QED
  BY <1>1, <1>2, <1>3, <1>4, <1>5 DEF HasTold

\* ... and nothing by any other line.
LEMMA ToldNoMore ==
  ASSUME NEW f, NEW n \in Nat, NEW s, NEW s2, HasTold(f, n, s),
         ~(f[n + 1].form = "pair" \/ Continues(f, n + 1)), s2.calls = s.calls
  PROVE  HasTold(f, n + 1, s2)
<1>1. Saying(f, n + 1) = Saying(f, n) /\ Place(f, n + 1) = Place(f, n)
  BY OneMoreSaying
<1> QED
  BY <1>1 DEF HasTold

\* A line that is not bad leaves the number of the first bad one.
LEMMA NotBad ==
  ASSUME NEW f, NEW n \in Nat, NEW s, NEW s2, KnowsError(f, n, s),
         ~Bad(f, n + 1), s2.error = s.error
  PROVE  KnowsError(f, n + 1, s2)
<1>1. \A i : i \in 1..(n + 1) <=> i \in 1..n \/ i = n + 1
  OBVIOUS
<1> QED
  BY <1>1 DEF KnowsError

\* A line that says something: its section and key are what the parser knows.
LEMMA SpeaksOfSection ==
  ASSUME NEW f, NEW n \in Nat, NEW s, KnowsSection(f, n, s),
         f[n + 1].form # "section" \/ Continues(f, n + 1)
  PROVE  SectionAt(f, n + 1) = s.section
<1>1. LastOf(f, n + 1, "section") = LastOf(f, n, "section")
  BY OneMoreLast
<1>2. LastOf(f, n, "section") # {} =>
        (CHOOSE k \in LastOf(f, n, "section") : TRUE) \in LastOf(f, n, "section")
  OBVIOUS
<1> QED
  BY <1>1, <1>2 DEF KnowsSection, SectionAt

\* Every line of every file keeps what the parser knows.
LEMMA ParseStep ==
  ASSUME NEW f \in Seq(LinesOf(Name, Value)), NEW n \in Nat, n < Len(f), NEW s, PInv(f, n, s)
  PROVE  PInv(f, n + 1, ParseLine(s, f[n + 1]))
<1> DEFINE line == f[n + 1]
           s1 == [s EXCEPT !.lineno = @ + 1]
           s2 == ParseLine(s, line)
<1>1. line \in LinesOf(Name, Value)
  OBVIOUS
<1>2. /\ s \in Parser /\ s.lineno = n
      /\ KnowsName(f, n, s) /\ KnowsSection(f, n, s) /\ KnowsError(f, n, s) /\ HasTold(f, n, s)
  BY DEF PInv
<1>3. /\ s1 \in Parser /\ s1.lineno = n + 1 /\ s1.section = s.section
      /\ s1.prev_name = s.prev_name /\ s1.error = s.error /\ s1.calls = s.calls
  BY <1>2 DEF Parser
<1>4. (n + 1) - 1 = n
  OBVIOUS
<1>5. Continues(f, n + 1) <=> line.lead /\ line.form # "blank" /\ s.prev_name # ""
  BY <1>2, <1>4 DEF Continues, KnowsName
<1>6. CASE line.form = "blank"
  <2>1. s2 = s1
    BY <1>6 DEF ParseLine
  <2>2. ~Continues(f, n + 1) /\ ~EndsOption(f, n + 1) /\ ~Bad(f, n + 1)
    BY <1>5, <1>6 DEF EndsOption, Bad
  <2> HIDE DEF s1, s2
  <2>3. KnowsName(f, n + 1, s2)
    BY <1>2, <1>3, <1>6, <2>1, <2>2, OneMoreOpen, OneMoreLast DEF KnowsName
  <2>4. KnowsSection(f, n + 1, s2)
    BY <1>2, <1>3, <1>6, <2>1, OneMoreLast DEF KnowsSection
  <2>5. KnowsError(f, n + 1, s2) /\ HasTold(f, n + 1, s2)
    BY <1>2, <1>3, <1>6, <2>1, <2>2, NotBad, ToldNoMore
  <2> QED
    BY <1>3, <2>1, <2>3, <2>4, <2>5 DEF PInv, s2
<1>7. CASE Continues(f, n + 1)
  <2> DEFINE c == [section |-> s.section, key |-> s.prev_name, value |-> line.text]
  <2>1. line.form # "blank" /\ line.lead /\ s1.prev_name # ""
    BY <1>3, <1>5, <1>7
  <2>2. s2 = Report(s1, s1.prev_name, line.text)
    BY <2>1 DEF ParseLine
  <2>3. c \in Told
    BY <1>1, <1>2 DEF Told, Parser, LinesOf
  <2>4. /\ s2 \in Parser /\ s2.lineno = n + 1 /\ s2.section = s.section
        /\ s2.prev_name = s.prev_name /\ s2.error = s.error /\ s2.calls = Append(s.calls, c)
    <3>1. Append(s.calls, c) \in Seq(Told)
      BY <1>2, <2>3 DEF Parser
    <3> QED
      BY <1>3, <2>2, <3>1 DEF Report, Parser
  <2>5. c = Says(f, n + 1)
    <3>1. SectionAt(f, n + 1) = s.section
      BY <1>2, <1>7, SpeaksOfSection
    <3>2. LastOf(f, n + 1, "pair") = LastOf(f, n, "pair")
      BY <1>7, OneMoreLast
    <3>3. f[CHOOSE k \in LastOf(f, n + 1, "pair") : TRUE].name = s.prev_name
      BY <1>2, <2>1, <1>3, <3>2 DEF KnowsName
    <3> QED
      BY <1>7, <3>1, <3>3 DEF Says
  <2>6. ~Bad(f, n + 1) /\ ~EndsOption(f, n + 1)
    BY <1>7, <2>1 DEF Bad, EndsOption
  <2> HIDE DEF s1, s2, c
  <2>7. KnowsName(f, n + 1, s2)
    <3>1. LastOf(f, n + 1, "pair") = LastOf(f, n, "pair")
      BY <1>7, OneMoreLast
    <3>2. OpenAfter(f, n + 1) /\ OpenAfter(f, n)
      BY <1>2, <1>3, <2>1, <2>6, OneMoreOpen DEF KnowsName
    <3> QED
      BY <1>2, <2>4, <3>1, <3>2 DEF KnowsName
  <2>8. KnowsSection(f, n + 1, s2)
    BY <1>2, <1>7, <2>4, OneMoreLast DEF KnowsSection
  <2>9. KnowsError(f, n + 1, s2) /\ HasTold(f, n + 1, s2)
    <3>1. s.calls \in Seq(Told)
      BY <1>2 DEF Parser
    <3> QED
      BY <1>2, <1>7, <2>3, <2>4, <2>5, <2>6, <3>1, NotBad, ToldOneMore
  <2> QED
    BY <2>4, <2>7, <2>8, <2>9 DEF PInv, s2
<1>8. CASE line.form = "section" /\ ~Continues(f, n + 1)
  <2>1. s2 = [s1 EXCEPT !.section = line.name, !.prev_name = ""]
    BY <1>3, <1>5, <1>8 DEF ParseLine
  <2>2. /\ s2 \in Parser /\ s2.lineno = n + 1 /\ s2.section = line.name
        /\ s2.prev_name = "" /\ s2.error = s.error /\ s2.calls = s.calls
    BY <1>1, <1>3, <2>1, EmptyName DEF Parser, LinesOf
  <2>3. ~OpenAfter(f, n + 1)
    BY <1>1, <1>2, <1>5, <1>8, OneMoreOpen DEF EndsOption, KnowsName, LinesOf
  <2>4. ~Bad(f, n + 1)
    BY <1>8 DEF Bad
  <2> HIDE DEF s1, s2
  <2>5. KnowsName(f, n + 1, s2)
    BY <2>2, <2>3 DEF KnowsName
  <2>6. KnowsSection(f, n + 1, s2)
    BY <1>8, <2>2, OneMoreLast DEF KnowsSection
  <2>7. KnowsError(f, n + 1, s2) /\ HasTold(f, n + 1, s2)
    BY <1>2, <1>8, <2>2, <2>4, NotBad, ToldNoMore
  <2> QED
    BY <2>2, <2>5, <2>6, <2>7 DEF PInv, s2
<1>9. CASE line.form = "pair" /\ ~Continues(f, n + 1)
  <2> DEFINE c == [section |-> s.section, key |-> line.name, value |-> line.value]
  <2>1. s2 = Report([s1 EXCEPT !.prev_name = line.name], line.name, line.value)
    BY <1>3, <1>5, <1>9 DEF ParseLine
  <2>2. c \in Told
    BY <1>1, <1>2 DEF Told, Parser, LinesOf
  <2>3. /\ s2 \in Parser /\ s2.lineno = n + 1 /\ s2.section = s.section
        /\ s2.prev_name = line.name /\ s2.error = s.error /\ s2.calls = Append(s.calls, c)
    <3>1. Append(s.calls, c) \in Seq(Told)
      BY <1>2, <2>2 DEF Parser
    <3> QED
      BY <1>1, <1>3, <2>1, <3>1 DEF Report, Parser, LinesOf
  <2>4. c = Says(f, n + 1)
    <3>1. SectionAt(f, n + 1) = s.section
      BY <1>2, <1>9, SpeaksOfSection
    <3> QED
      BY <1>9, <3>1 DEF Says
  <2>5. ~Bad(f, n + 1)
    BY <1>9 DEF Bad
  <2>6. OpenAfter(f, n + 1) <=> line.name # ""
    BY <1>1, <1>2, <1>5, <1>9, OneMoreOpen DEF EndsOption, KnowsName, LinesOf
  <2> HIDE DEF s1, s2, c
  <2>7. KnowsName(f, n + 1, s2)
    BY <1>9, <2>3, <2>6, OneMoreLast DEF KnowsName
  <2>8. KnowsSection(f, n + 1, s2)
    BY <1>2, <1>9, <2>3, OneMoreLast DEF KnowsSection
  <2>9. KnowsError(f, n + 1, s2) /\ HasTold(f, n + 1, s2)
    <3>1. s.calls \in Seq(Told)
      BY <1>2 DEF Parser
    <3> QED
      BY <1>2, <1>9, <2>2, <2>3, <2>4, <2>5, <3>1, NotBad, ToldOneMore
  <2> QED
    BY <2>3, <2>7, <2>8, <2>9 DEF PInv, s2
<1>10. CASE line.form = "bad" /\ ~Continues(f, n + 1)
  <2>1. s2 = Fails(s1)
    BY <1>3, <1>5, <1>10 DEF ParseLine
  <2>2. /\ s2 \in Parser /\ s2.lineno = n + 1 /\ s2.section = s.section
        /\ s2.prev_name = s.prev_name /\ s2.calls = s.calls
        /\ s2.error = IF s.error = 0 THEN n + 1 ELSE s.error
    BY <1>3, <2>1 DEF Fails, Parser
  <2>3. ~EndsOption(f, n + 1) /\ Bad(f, n + 1)
    BY <1>10 DEF EndsOption, Bad
  <2> HIDE DEF s1, s2
  <2>4. KnowsName(f, n + 1, s2)
    BY <1>2, <1>10, <2>2, <2>3, OneMoreOpen, OneMoreLast DEF KnowsName
  <2>5. KnowsSection(f, n + 1, s2)
    BY <1>2, <1>10, <2>2, OneMoreLast DEF KnowsSection
  <2>6. KnowsError(f, n + 1, s2)
    <3>1. \A i : i \in 1..(n + 1) <=> i \in 1..n \/ i = n + 1
      OBVIOUS
    <3> QED
      BY <1>2, <2>2, <2>3, <3>1 DEF KnowsError
  <2>7. HasTold(f, n + 1, s2)
    BY <1>2, <1>10, <2>2, ToldNoMore
  <2> QED
    BY <2>2, <2>4, <2>5, <2>6, <2>7 DEF PInv, s2
<1> QED
  BY <1>1, <1>6, <1>7, <1>8, <1>9, <1>10 DEF LinesOf, Forms

\* At the end the parser knows all of the file.
LEMMA ParseAll ==
  ASSUME NEW f \in Seq(LinesOf(Name, Value))
  PROVE  PInv(f, Len(f), Parse(f))
<1> DEFINE N == Len(f)
<1>1. N \in Nat
  OBVIOUS
<1>2. PICK st : /\ st[0] = Start /\ Parse(f) = st[N]
                /\ \A n \in 1..N : st[n] = ParseLine(st[n - 1], f[n])
  BY ParseTrace
<1> DEFINE S == {n \in Nat : n <= N => PInv(f, n, st[n])}
<1>3. 0 \in S
  <2>1. PInv(f, 0, Start)
    <3>1. Start \in Parser
      <4>1. <<>> \in Seq(Told)
        OBVIOUS
      <4> QED
        BY <4>1, EmptyName DEF Start, Parser
    <3>2. Saying(f, 0) = {} /\ ~OpenAfter(f, 0) /\ LastOf(f, 0, "section") = {}
      BY DEF Saying, OpenAfter, LastOf
    <3>3. Place(f, 0) = 0
      BY <3>2, FS_EmptySet DEF Place
    <3>4. HasTold(f, 0, Start)
      BY <3>2, <3>3 DEF HasTold, Start
    <3>5. KnowsName(f, 0, Start) /\ KnowsSection(f, 0, Start) /\ KnowsError(f, 0, Start)
      <4>1. /\ Start.prev_name = "" /\ Start.section = "" /\ Start.error = 0
            /\ \A k : k \notin LastOf(f, 0, "section")
        BY <3>2 DEF Start
      <4>2. \A i \in 1..0 : FALSE
        OBVIOUS
      <4> QED
        BY <3>2, <4>1, <4>2 DEF KnowsName, KnowsSection, KnowsError
    <3> QED
      BY <3>1, <3>4, <3>5 DEF PInv, Start
  <2> QED
    BY <1>2, <2>1
<1>4. ASSUME NEW n \in Nat, n \in S PROVE n + 1 \in S
  <2> SUFFICES ASSUME n + 1 <= N PROVE PInv(f, n + 1, st[n + 1])
    OBVIOUS
  <2>1. n < N /\ n + 1 \in 1..N /\ (n + 1) - 1 = n
    BY <1>1
  <2>2. PInv(f, n, st[n])
    BY <1>4, <2>1
  <2>3. st[n + 1] = ParseLine(st[n], f[n + 1])
    BY <1>2, <2>1
  <2> QED
    BY <2>1, <2>2, <2>3, ParseStep
<1> HIDE DEF S
<1>5. \A n \in Nat : n \in S
  BY <1>3, <1>4, NatSetInduction
<1> QED
  BY <1>1, <1>2, <1>5 DEF S

\* Of two lines that say something the later has the greater place.
LEMMA PlacesGrow ==
  ASSUME NEW f, NEW n \in Nat, NEW i \in Saying(f, n), NEW j \in Saying(f, n), i < j
  PROVE  Place(f, i) < Place(f, j)
<1>1. i \in 1..n /\ j \in 1..n
  BY DEF Saying
<1>2. Saying(f, i) \in SUBSET Saying(f, j) /\ j \in Saying(f, j) /\ j \notin Saying(f, i)
  BY <1>1 DEF Saying
<1>3. IsFiniteSet(Saying(f, j)) /\ Place(f, j) \in Nat /\ Place(f, i) \in Nat
  BY <1>1, OneMoreSaying
<1>4. Place(f, i) <= Place(f, j) /\ (Place(f, i) = Place(f, j) => Saying(f, i) = Saying(f, j))
  BY <1>2, <1>3, FS_Subset DEF Place
<1> QED
  BY <1>2, <1>3, <1>4

\* What conf_option_handler is told is what the file says, for every file.
THEOREM ParserTellsWhatIsWritten ==
  \A f \in Seq(LinesOf(Name, Value)) : Parse(f).calls = Written(f) /\ Parse(f).error = FirstBad(f)
<1> SUFFICES ASSUME NEW f \in Seq(LinesOf(Name, Value))
             PROVE  Parse(f).calls = Written(f) /\ Parse(f).error = FirstBad(f)
  OBVIOUS
<1> DEFINE N == Len(f)  s == Parse(f)  said == Saying(f, N)
<1>1. N \in Nat /\ DOMAIN f = 1..N
  OBVIOUS
<1>2. s \in Parser /\ KnowsError(f, N, s) /\ HasTold(f, N, s)
  BY ParseAll DEF PInv
<1> HIDE DEF N, s
<1>3. s.calls = Written(f)
  <2> DEFINE w == [k \in 1..Cardinality(said) |->
                     Says(f, CHOOSE i \in said : Cardinality(Saying(f, i)) = k)]
  <2>1. Written(f) = w
    BY DEF Written, N
  <2>2. Len(s.calls) = Cardinality(said) /\ s.calls \in Seq(Told)
    BY <1>2 DEF HasTold, Place, Parser
  <2>3. ASSUME NEW k \in 1..Cardinality(said) PROVE s.calls[k] = w[k]
    <3>1. PICK i \in said : Place(f, i) = k
      BY <1>2 DEF HasTold, Place
    <3>2. ASSUME NEW j \in said, Place(f, j) = k PROVE j = i
      <4>1. i \in 1..N /\ j \in 1..N
        BY DEF Saying
      <4>2. Place(f, i) \in Nat
        BY <3>1
      <4> QED
        BY <1>1, <3>1, <3>2, <4>1, <4>2, PlacesGrow
    <3>3. (CHOOSE j \in said : Cardinality(Saying(f, j)) = k) = i
      BY <3>1, <3>2 DEF Place
    <3>4. s.calls[k] = Says(f, i)
      BY <1>2, <3>1 DEF HasTold
    <3> QED
      BY <3>3, <3>4
  <2>4. s.calls = [k \in 1..Cardinality(said) |-> s.calls[k]]
    BY <2>2
  <2> HIDE DEF said
  <2> QED
    BY <2>1, <2>3, <2>4
<1>4. s.error = FirstBad(f)
  <2> DEFINE bad == {i \in 1..N : f[i].form = "bad" /\ ~Continues(f, i)}
  <2>1. FirstBad(f) = IF bad = {} THEN 0 ELSE CHOOSE i \in bad : \A j \in bad : i <= j
    BY <1>1 DEF FirstBad
  <2>2. \A i \in 1..N : Bad(f, i) <=> i \in bad
    BY DEF Bad
  <2>3. CASE bad = {}
    BY <1>2, <2>1, <2>2, <2>3 DEF KnowsError
  <2>4. CASE bad # {}
    <3>1. s.error \in bad /\ \A j \in bad : s.error <= j
      BY <1>2, <2>2, <2>4 DEF KnowsError
    <3>2. ASSUME NEW i \in bad, \A j \in bad : i <= j PROVE i = s.error
      BY <1>1, <3>1, <3>2
    <3> HIDE DEF bad
    <3> QED
      BY <2>1, <2>4, <3>1, <3>2
  <2> QED
    BY <2>3, <2>4
<1> QED
  BY <1>3, <1>4 DEF s

----------------------------------------------------------------------------
(* What conf_option_handler makes of the options it is told.               *)

\* The function that the fold of Options is made of, over n options.
OptionFold(g, o, n) ==
  g = [s \in SUBSET (1..n) |-> IF s = {} THEN <<>> ELSE Option(g[s \ {Max(s)}], o[Max(s)])]

\* There is such a function, whatever the options.
LEMMA OptionFoldExists == \A o : \A n \in Nat : \E g : OptionFold(g, o, n)
<1> SUFFICES ASSUME NEW o PROVE \A n \in Nat : \E g : OptionFold(g, o, n)
  OBVIOUS
<1> DEFINE S == {n \in Nat : \E g : OptionFold(g, o, n)}
<1>1. 0 \in S
  <2>1. OptionFold([s \in SUBSET (1..0) |-> <<>>], o, 0)
    BY DEF OptionFold
  <2> QED
    BY <2>1
<1>2. ASSUME NEW n \in Nat, n \in S PROVE n + 1 \in S
  <2>1. PICK g : OptionFold(g, o, n)
    BY <1>2
  <2> DEFINE h == [s \in SUBSET (1..(n + 1)) |->
                     IF n + 1 \in s THEN Option(g[s \ {n + 1}], o[n + 1]) ELSE g[s]]
  <2>2. ASSUME NEW s \in SUBSET (1..(n + 1))
        PROVE  h[s] = IF s = {} THEN <<>> ELSE Option(h[s \ {Max(s)}], o[Max(s)])
    <3>1. CASE n + 1 \in s
      <4>1. Max(s) = n + 1
        BY <3>1, MaxOfInterval
      <4>2. h[s \ {n + 1}] = g[s \ {n + 1}] /\ h[s] = Option(g[s \ {n + 1}], o[n + 1])
        BY <3>1
      <4> HIDE DEF h
      <4> QED
        BY <3>1, <4>1, <4>2
    <3>2. CASE n + 1 \notin s
      <4>1. s \in SUBSET (1..n) /\ s \ {Max(s)} \in SUBSET (1..n)
        <5>1. \A x \in s : x \in 1..(n + 1) /\ x # n + 1
          BY <3>2
        <5>2. \A x \in s : x \in 1..n
          BY <5>1
        <5> QED
          BY <5>2
      <4>2. g[s] = IF s = {} THEN <<>> ELSE Option(g[s \ {Max(s)}], o[Max(s)])
        BY <2>1, <4>1 DEF OptionFold
      <4>3. h[s] = g[s] /\ h[s \ {Max(s)}] = g[s \ {Max(s)}]
        BY <3>2, <4>1
      <4> HIDE DEF h
      <4> QED
        BY <4>2, <4>3
    <3> QED
      BY <3>1, <3>2
  <2>3. OptionFold(h, o, n + 1)
    BY <2>2 DEF OptionFold
  <2> HIDE DEF h
  <2> QED
    BY <2>3
<1> HIDE DEF S
<1>3. \A n \in Nat : n \in S
  BY <1>1, <1>2, NatSetInduction
<1> QED
  BY <1>3 DEF S

\* The list of injections grows one option at a time.
LEMMA OptionTrace ==
  ASSUME NEW o \in Seq(Told)
  PROVE  \E st : /\ st[0] = <<>> /\ Options(o) = st[Len(o)]
                 /\ \A n \in 1..Len(o) : st[n] = Option(st[n - 1], o[n])
<1> DEFINE N == Len(o)
<1>0. N \in Nat /\ DOMAIN o = 1..N
  OBVIOUS
<1>1. PICK g : OptionFold(g, o, N) /\ Options(o) = g[1..N]
  <2>1. Options(o) = (CHOOSE g : OptionFold(g, o, N))[1..N]
    BY <1>0 DEF OptionFold, Options, FoldLeft, MapThenFoldSet
  <2> HIDE DEF N
  <2>2. \E g : OptionFold(g, o, N)
    BY <1>0, OptionFoldExists
  <2>3. OptionFold(CHOOSE g : OptionFold(g, o, N), o, N)
    BY <2>2
  <2> QED
    BY <2>1, <2>3
<1> HIDE DEF N
<1> DEFINE st == [n \in 0..N |-> g[1..n]]
<1>2. st[0] = <<>> /\ Options(o) = st[N]
  <2>1. 1..0 = {} /\ {} \in SUBSET (1..N) /\ 0 \in 0..N /\ N \in 0..N
    BY <1>0
  <2>2. g[{}] = <<>>
    BY <1>1, <2>1 DEF OptionFold
  <2>3. st[0] = g[1..0] /\ st[N] = g[1..N]
    BY <2>1
  <2> HIDE DEF st
  <2> QED
    BY <1>1, <2>1, <2>2, <2>3
<1>3. ASSUME NEW n \in 1..N PROVE st[n] = Option(st[n - 1], o[n])
  <2>1. 1..n \in SUBSET (1..N) /\ n \in 1..n /\ (1..n) \ {n} = 1..(n - 1) /\ 1..n # {}
    <3>1. n \in Nat /\ 1 <= n /\ n <= N
      BY <1>0
    <3> QED
      BY <1>0, <3>1
  <2>2. Max(1..n) = n
    BY MaxOfInterval
  <2>3. g[1..n] = Option(g[1..(n - 1)], o[n])
    BY <1>1, <2>1, <2>2 DEF OptionFold
  <2> QED
    BY <1>0, <2>3
<1> HIDE DEF st
<1> QED
  BY <1>2, <1>3 DEF N

\* The injections after the first n options.
OptInv(o, n, list) ==
  /\ list \in Seq(Entries) /\ OneEach(list)
  /\ \A i \in DOMAIN list : \E k \in 1..n : o[k].section = list[i].type
  /\ \A k \in 1..n : o[k].section \in Types => \E i \in DOMAIN list : list[i].type = o[k].section
  /\ \A i \in DOMAIN list : Means(o, n, list[i])

\* The last option that counts, one option later.
LEMMA OneMoreSet ==
  ASSUME NEW o, NEW n \in Nat, NEW type, NEW key
  PROVE  /\ o[n + 1].section = type /\ o[n + 1].key = key => LastSet(o, n + 1, type, key) = {n + 1}
         /\ o[n + 1].section # type \/ o[n + 1].key # key =>
              LastSet(o, n + 1, type, key) = LastSet(o, n, type, key)
<1>1. CASE o[n + 1].section = type /\ o[n + 1].key = key
  <2>1. n + 1 \in LastSet(o, n + 1, type, key)
    BY <1>1 DEF LastSet
  <2>2. ASSUME NEW k \in LastSet(o, n + 1, type, key), k # n + 1 PROVE FALSE
    <3>1. k \in 1..(n + 1) /\ n + 1 \in (k + 1)..(n + 1)
      BY <2>2 DEF LastSet
    <3> QED
      BY <1>1, <2>2, <3>1 DEF LastSet
  <2> QED
    BY <1>1, <2>1, <2>2
<1>2. CASE ~(o[n + 1].section = type /\ o[n + 1].key = key)
  <2>1. \A k : k \in 1..(n + 1) <=> k \in 1..n \/ k = n + 1
    OBVIOUS
  <2>2. \A k \in 1..n : \A j : j \in (k + 1)..(n + 1) <=> j \in (k + 1)..n \/ j = n + 1
    OBVIOUS
  <2>3. ASSUME NEW k PROVE k \in LastSet(o, n + 1, type, key) <=> k \in LastSet(o, n, type, key)
    BY <1>2, <2>1, <2>2 DEF LastSet
  <2> QED
    BY <1>2, <2>3
<1> QED
  BY <1>1, <1>2

\* An entry that an option is not about means what it meant.
LEMMA MeansStill ==
  ASSUME NEW o, NEW n \in Nat, NEW e, Means(o, n, e), o[n + 1].section # e.type
  PROVE  Means(o, n + 1, e)
<1>1. ASSUME NEW key PROVE LastSet(o, n + 1, e.type, key) = LastSet(o, n, e.type, key)
  BY OneMoreSet
<1> QED
  BY <1>1 DEF Means

\* The entry it is about has the value.
LEMMA KeepMeans ==
  ASSUME NEW o, NEW n \in Nat, NEW e \in Entries, Means(o, n, e), o[n + 1] \in Told,
         o[n + 1].section = e.type
  PROVE  /\ Keep(e, o[n + 1].key, o[n + 1].value) \in Entries
         /\ Keep(e, o[n + 1].key, o[n + 1].value).type = e.type
         /\ Means(o, n + 1, Keep(e, o[n + 1].key, o[n + 1].value))
<1>1. ASSUME NEW k
      PROVE  /\ o[n + 1].key = k => LastSet(o, n + 1, e.type, k) = {n + 1}
             /\ o[n + 1].key # k => LastSet(o, n + 1, e.type, k) = LastSet(o, n, e.type, k)
  <2>1. CASE o[n + 1].key = k
    <3>1. PICK m : m = {n + 1}
      OBVIOUS
    <3>2. \A type, key : o[n + 1].section = type /\ o[n + 1].key = key => LastSet(o, n + 1, type, key) = m
      BY <3>1, OneMoreSet
    <3> QED
      BY <2>1, <3>1, <3>2
  <2>2. CASE o[n + 1].key # k
    <3>1. LastSet(o, n + 1, e.type, k) = LastSet(o, n, e.type, k)
      BY <2>2, OneMoreSet
    <3> QED
      BY <2>2, <3>1
  <2> QED
    BY <2>1, <2>2
<1> DEFINE key == o[n + 1].key  v == o[n + 1].value  d == Keep(e, key, v)
<1>2. v \in Value
  BY DEF Told
<1>3. CASE key = "ops"
  <2>1. d = [e EXCEPT !.ops = v.ops]
    BY <1>3 DEF Keep
  <2>2. d \in Entries /\ d.type = e.type /\ d.ops = v.ops /\ d.paths = e.paths /\ d.prob = e.prob
    BY <1>2, <2>1 DEF Entries, Value
  <2>3. /\ LastSet(o, n + 1, d.type, "ops") = {n + 1}
        /\ LastSet(o, n + 1, d.type, "paths") = LastSet(o, n, e.type, "paths")
        /\ LastSet(o, n + 1, d.type, "prob") = LastSet(o, n, e.type, "prob")
    BY <1>1, <1>3, <2>2
  <2> HIDE DEF d
  <2>4. Means(o, n + 1, d)
    BY <2>2, <2>3 DEF Means
  <2> QED
    BY <2>2, <2>4 DEF d
<1>4. CASE key = "paths"
  <2>1. d = [e EXCEPT !.paths = v.paths]
    BY <1>4 DEF Keep
  <2>2. d \in Entries /\ d.type = e.type /\ d.ops = e.ops /\ d.paths = v.paths /\ d.prob = e.prob
    BY <1>2, <2>1 DEF Entries, Value
  <2>3. /\ LastSet(o, n + 1, d.type, "paths") = {n + 1}
        /\ LastSet(o, n + 1, d.type, "ops") = LastSet(o, n, e.type, "ops")
        /\ LastSet(o, n + 1, d.type, "prob") = LastSet(o, n, e.type, "prob")
    BY <1>1, <1>4, <2>2
  <2> HIDE DEF d
  <2>4. Means(o, n + 1, d)
    BY <2>2, <2>3 DEF Means
  <2> QED
    BY <2>2, <2>4 DEF d
<1>5. CASE key = "prob"
  <2>1. d = [e EXCEPT !.prob = v.prob]
    BY <1>5 DEF Keep
  <2>2. d \in Entries /\ d.type = e.type /\ d.ops = e.ops /\ d.paths = e.paths /\ d.prob = v.prob
    BY <1>2, <2>1 DEF Entries, Value
  <2>3. /\ LastSet(o, n + 1, d.type, "prob") = {n + 1}
        /\ LastSet(o, n + 1, d.type, "ops") = LastSet(o, n, e.type, "ops")
        /\ LastSet(o, n + 1, d.type, "paths") = LastSet(o, n, e.type, "paths")
    BY <1>1, <1>5, <2>2
  <2> HIDE DEF d
  <2>4. Means(o, n + 1, d)
    BY <2>2, <2>3 DEF Means
  <2> QED
    BY <2>2, <2>4 DEF d
<1>6. CASE key \notin {"ops", "paths", "prob"}
  <2>1. d = e
    BY <1>6 DEF Keep
  <2>2. \A k \in {"ops", "paths", "prob"} : LastSet(o, n + 1, e.type, k) = LastSet(o, n, e.type, k)
    BY <1>1, <1>6
  <2>3. Means(o, n + 1, e)
    BY <2>2 DEF Means
  <2> QED
    BY <2>1, <2>3
<1> QED
  BY <1>3, <1>4, <1>5, <1>6

\* One option more, and the list means what the options so far say.
LEMMA OptionStep ==
  ASSUME NEW o \in Seq(Told), NEW n \in Nat, n < Len(o), NEW list, OptInv(o, n, list)
  PROVE  OptInv(o, n + 1, Option(list, o[n + 1]))
<1> DEFINE c == o[n + 1]
<1>1. c \in Told
  <2>1. n + 1 \in 1..Len(o)
    OBVIOUS
  <2> QED
    BY <2>1
<1>2. list \in Seq(Entries) /\ OneEach(list)
  BY DEF OptInv
<1>3. DOMAIN list = 1..Len(list) /\ Len(list) \in Nat /\ \A i \in DOMAIN list : list[i] \in Entries
  BY <1>2
<1>4. /\ list \in Seq(Entries) /\ OneEach(list) /\ DOMAIN list = 1..Len(list) /\ Len(list) \in Nat
      /\ \A i \in DOMAIN list : list[i] \in Entries /\ Means(o, n, list[i])
      /\ \A i \in DOMAIN list : \E k \in 1..n : o[k].section = list[i].type
      /\ \A k \in 1..n : o[k].section \in Types => \E i \in DOMAIN list : list[i].type = o[k].section
  BY <1>2, <1>3 DEF OptInv
<1>5. \A k : k \in 1..(n + 1) <=> k \in 1..n \/ k = n + 1
  OBVIOUS
<1>6. CASE c.section \notin Types
  <2>1. Option(list, c) = list
    BY <1>6 DEF Option
  <2>2. \A i \in DOMAIN list : list[i].type # c.section
    BY <1>4, <1>6 DEF Entries
  <2>3. \A i \in DOMAIN list : Means(o, n + 1, list[i])
    BY <1>4, <2>2, MeansStill
  <2> HIDE DEF c
  <2> QED
    BY <1>4, <1>5, <1>6, <2>1, <2>3 DEF OptInv, c
<1>7. CASE c.section \in Types
  <2> DEFINE type == c.section
             found == \E e \in Range(list) : e.type = type
             longer == IF found THEN list ELSE Append(list, Fresh(type))
             i == CHOOSE j \in DOMAIN longer : longer[j].type = type
  <2>1. found <=> \E j \in DOMAIN list : list[j].type = type
    BY DEF Range
  <2>2. Fresh(type) \in Entries /\ Fresh(type).type = type
    BY <1>7 DEF Fresh, Entries
  <2>3. ASSUME ~found PROVE Means(o, n, Fresh(type))
    <3>1. \A k \in 1..n : o[k].section # type
      BY <1>4, <1>7, <2>1, <2>3
    <3>2. \A key : LastSet(o, n, type, key) = {}
      BY <3>1 DEF LastSet
    <3> QED
      BY <2>2, <3>2 DEF Means, Fresh
  <2>4. /\ longer \in Seq(Entries) /\ DOMAIN longer = 1..Len(longer) /\ Len(longer) \in Nat
        /\ DOMAIN list \subseteq DOMAIN longer /\ \A j \in DOMAIN list : longer[j] = list[j]
        /\ \A j \in DOMAIN longer \ DOMAIN list : longer[j] = Fresh(type) /\ ~found
        /\ \E j \in DOMAIN longer : longer[j].type = type
    <3>1. CASE found
      BY <1>4, <2>1, <3>1
    <3>2. CASE ~found
      <4>1. longer = Append(list, Fresh(type))
        BY <3>2
      <4> HIDE DEF longer, found
      <4>2. /\ longer \in Seq(Entries) /\ Len(longer) = Len(list) + 1 /\ DOMAIN longer = 1..(Len(list) + 1)
            /\ longer[Len(list) + 1] = Fresh(type) /\ \A j \in 1..Len(list) : longer[j] = list[j]
        BY <1>4, <2>2, <4>1
      <4> QED
        BY <1>4, <2>2, <3>2, <4>2
    <3> QED
      BY <3>1, <3>2
  <2>5. OneEach(longer)
    BY <1>4, <2>1, <2>2, <2>4 DEF OneEach
  <2>6. \A j \in DOMAIN longer : Means(o, n, longer[j]) /\ longer[j] \in Entries
    BY <1>4, <2>2, <2>3, <2>4
  <2>7. Option(list, c) = [longer EXCEPT ![i] = Keep(@, c.key, c.value)]
    BY <1>7 DEF Option
  <2> HIDE DEF longer, found
  <2>8. i \in DOMAIN longer /\ longer[i].type = type
    BY <2>4
  <2> HIDE DEF i
  <2> DEFINE d == Keep(longer[i], c.key, c.value)  after == [longer EXCEPT ![i] = d]
  <2>9. d \in Entries /\ d.type = type /\ Means(o, n + 1, d)
    BY <1>1, <2>6, <2>8, KeepMeans
  <2>10. Option(list, c) = after
    BY <2>7, <2>8
  <2> HIDE DEF d
  <2>11. /\ after \in Seq(Entries) /\ DOMAIN after = DOMAIN longer /\ after[i] = d
         /\ \A j \in DOMAIN longer \ {i} : after[j] = longer[j]
    BY <2>4, <2>8, <2>9
  <2> HIDE DEF after
  <2>12. \A j \in DOMAIN longer : after[j].type = longer[j].type
    BY <2>8, <2>9, <2>11
  <2>13. OneEach(after)
    BY <2>5, <2>11, <2>12 DEF OneEach
  <2>14. ASSUME NEW j \in DOMAIN after PROVE Means(o, n + 1, after[j])
    <3>1. CASE j = i
      BY <2>9, <2>11, <3>1
    <3>2. CASE j # i
      <4>1. after[j] = longer[j] /\ Means(o, n, longer[j])
        BY <2>6, <2>11, <2>14, <3>2
      <4>2. longer[j].type # type
        BY <2>5, <2>8, <2>11, <2>14, <3>2 DEF OneEach
      <4> QED
        BY <4>1, <4>2, MeansStill
    <3> QED
      BY <3>1, <3>2
  <2>15. ASSUME NEW j \in DOMAIN after PROVE \E k \in 1..(n + 1) : o[k].section = after[j].type
    <3>1. after[j].type = longer[j].type /\ j \in DOMAIN longer
      BY <2>11, <2>12, <2>15
    <3>2. CASE j \in DOMAIN list
      BY <1>4, <1>5, <2>4, <3>1, <3>2
    <3>3. CASE j \notin DOMAIN list
      BY <1>5, <2>2, <2>4, <3>1, <3>3
    <3> QED
      BY <3>2, <3>3
  <2>16. ASSUME NEW k \in 1..(n + 1), o[k].section \in Types
         PROVE  \E j \in DOMAIN after : after[j].type = o[k].section
    <3>1. CASE k = n + 1
      BY <2>8, <2>9, <2>11, <3>1
    <3>2. CASE k \in 1..n
      BY <1>4, <2>4, <2>11, <2>12, <2>16, <3>2
    <3> QED
      BY <1>5, <3>1, <3>2
  <2> HIDE DEF c
  <2> QED
    BY <2>10, <2>11, <2>13, <2>14, <2>15, <2>16 DEF OptInv, c
<1> QED
  BY <1>6, <1>7

\* The list means what all the options say.
LEMMA OptionsAll ==
  ASSUME NEW o \in Seq(Told)
  PROVE  OptInv(o, Len(o), Options(o))
<1> DEFINE N == Len(o)
<1>1. N \in Nat
  OBVIOUS
<1>2. PICK st : /\ st[0] = <<>> /\ Options(o) = st[N]
                /\ \A n \in 1..N : st[n] = Option(st[n - 1], o[n])
  BY OptionTrace
<1> DEFINE S == {n \in Nat : n <= N => OptInv(o, n, st[n])}
<1>3. 0 \in S
  <2>1. OptInv(o, 0, <<>>)
    <3>1. <<>> \in Seq(Entries) /\ DOMAIN <<>> = {} /\ 1..0 = {}
      OBVIOUS
    <3> QED
      BY <3>1 DEF OptInv, OneEach
  <2> QED
    BY <1>2, <2>1
<1>4. ASSUME NEW n \in Nat, n \in S PROVE n + 1 \in S
  <2> SUFFICES ASSUME n + 1 <= N PROVE OptInv(o, n + 1, st[n + 1])
    OBVIOUS
  <2>1. n < N /\ n + 1 \in 1..N /\ (n + 1) - 1 = n
    BY <1>1
  <2>2. OptInv(o, n, st[n])
    BY <1>4, <2>1
  <2>3. st[n + 1] = Option(st[n], o[n + 1])
    BY <1>2, <2>1
  <2> QED
    BY <2>1, <2>2, <2>3, OptionStep
<1> HIDE DEF S
<1>5. \A n \in Nat : n \in S
  BY <1>3, <1>4, NatSetInduction
<1> QED
  BY <1>1, <1>2, <1>5 DEF S

----------------------------------------------------------------------------
(* The list of injections is well formed, whatever is loaded and when.     *)

Lists == {list \in Seq(Entries) : OneEach(list)}

\* What config_init makes of a file is a well-formed list, or none.
LEMMA ConfigType ==
  ASSUME NEW f \in Confs \cup {Absent, Unreadable}
  PROVE  Config(f) \in Lists \cup {Null}
<1>1. CASE f = Absent
  <2>1. Config(f) = <<>>
    BY <1>1 DEF Config
  <2>2. <<>> \in Seq(Entries) /\ DOMAIN <<>> = {}
    OBVIOUS
  <2> QED
    BY <2>1, <2>2 DEF Lists, OneEach
<1>2. CASE f # Absent /\ f = Unreadable
  <2>1. ParseFile(f).error = -1
    BY <1>2 DEF ParseFile, Start
  <2> QED
    BY <1>2, <2>1 DEF Config
<1>3. CASE f # Absent /\ f # Unreadable
  <2>1. f \in Seq(LinesOf(Name, Value))
    BY <1>3, ErrInjectAssumption
  <2>2. Parse(f) \in Parser
    BY <2>1, ParseAll DEF PInv
  <2>3. Parse(f).error \in Nat /\ Parse(f).calls \in Seq(Told)
    BY <2>2 DEF Parser
  <2>4. ~(Parse(f).error < 0)
    BY <2>3
  <2>5. Config(f) = Options(Parse(f).calls)
    BY <1>3, <2>4 DEF Config, ParseFile
  <2>6. Options(Parse(f).calls) \in Lists
    BY <2>3, OptionsAll DEF OptInv, Lists
  <2> QED
    BY <2>5, <2>6
<1> QED
  BY <1>1, <1>2, <1>3

\* What the steps of the configuration and of the calls keep.
StateType ==
  /\ file \in Confs \cup {Absent}
  /\ errors \in Lists \cup {Null}
  /\ freed \in BOOLEAN
  /\ mutex \in Thread \cup {Null}
  /\ \A t \in Thread : call[t].calls \in 0..MaxCalls

\* A step that leaves the file and the list, and begins no call.
LEMMA TypeFrame ==
  ASSUME StateType, CallType, NEW t \in Thread, NEW c,
         call' = [call EXCEPT ![t] = c], c.calls = call[t].calls,
         UNCHANGED <<file, errors>>, freed' \in BOOLEAN, mutex' \in Thread \cup {Null}
  PROVE  StateType'
<1>1. \A u \in Thread : call'[u].calls = call[u].calls
  <2>1. \A u \in Thread : call'[u] = IF u = t THEN c ELSE call[u]
    BY DEF CallType
  <2> QED
    BY <2>1
<1> QED
  BY <1>1 DEF StateType

\* Every step of a call keeps the list well formed and the calls counted.
LEMMA WorkType ==
  ASSUME StateType, EInv, NEW t \in Thread, Work(t)
  PROVE  StateType'
<1>1. call[t] \in Calls /\ call \in [Thread -> Calls] /\ CallType
  BY DEF EInv, CallType
<1>2. CASE Load(t)
  <2>1. PICK f \in {file, Unreadable} : errors' = Config(f)
    BY <1>2 DEF Load
  <2>2. errors' \in Lists \cup {Null}
    BY <2>1, ConfigType DEF StateType
  <2>3. \A u \in Thread : call'[u].calls = call[u].calls
    BY <1>1, <1>2 DEF Load, Goto, Calls
  <2>4. file' = file /\ freed' \in BOOLEAN /\ mutex' = mutex
    BY <1>2 DEF Load
  <2> QED
    BY <2>2, <2>3, <2>4 DEF StateType
<1>3. CASE Hit(t)
  <2>1. UNCHANGED <<file, errors, freed, mutex>>
    BY <1>3 DEF Hit
  <2> DEFINE h == [call[t] EXCEPT !.hits = Append(@, call[t].at)]
  <2>2. PICK c, l : c.calls = call[t].calls /\ call' = [call EXCEPT ![t] = [c EXCEPT !.at = @ + 1, !.pc = l]]
                    /\ DOMAIN c = DOMAIN call[t]
    <3>1. h.calls = call[t].calls /\ DOMAIN h = DOMAIN call[t]
      BY <1>1 DEF Calls
    <3> DEFINE e == Effects(Entry(t).type)
    <3>2. CASE e # {}
      <4>1. PICK rc \in e : Step(t, [h EXCEPT !.rc = rc], "walk")
        BY <1>3, <3>2 DEF Hit
      <4>2. [h EXCEPT !.rc = rc].calls = call[t].calls /\ DOMAIN [h EXCEPT !.rc = rc] = DOMAIN call[t]
        BY <1>1 DEF Calls
      <4> QED
        BY <4>1, <4>2 DEF Step
    <3>3. CASE e = {}
      <4>1. PICK l \in {"walk", "sleep"} : Step(t, h, l)
        BY <1>3, <3>3 DEF Hit
      <4> QED
        BY <3>1, <4>1 DEF Step
    <3> QED
      BY <3>2, <3>3
  <2> DEFINE d == [c EXCEPT !.at = @ + 1, !.pc = l]
  <2>3. d.calls = call[t].calls
    BY <1>1, <2>2 DEF Calls
  <2> HIDE DEF d
  <2> QED
    BY <1>1, <2>1, <2>2, <2>3, TypeFrame DEF StateType, d
<1>4. CASE Enter(t) \/ Delete(t) \/ Pass(t) \/ Wake(t) \/ WalkEnds(t) \/ Leave(t) \/ Act(t) \/ Return(t)
  <2> DEFINE c == call'[t]
  <2>1. UNCHANGED <<file, errors>> /\ freed' \in BOOLEAN /\ mutex' \in Thread \cup {Null}
    BY <1>4 DEF Enter, Delete, Pass, Wake, WalkEnds, Leave, Act, Return, StateType
  <2>2. call' = [call EXCEPT ![t] = c] /\ c.calls = call[t].calls
    <3>1. CASE Enter(t)
      BY <1>1, <3>1 DEF Enter, Dispatch, Calls
    <3>2. CASE Delete(t) \/ Wake(t) \/ WalkEnds(t) \/ Leave(t)
      BY <1>1, <3>2 DEF Delete, Wake, WalkEnds, Leave, Goto, Calls
    <3>3. CASE Pass(t)
      BY <1>1, <3>3 DEF Pass, Step, Calls
    <3>4. CASE Act(t)
      BY <1>1, <3>4 DEF Act, Goto, Calls
    <3>5. CASE Return(t)
      BY <1>1, <3>5 DEF Return, Idle
    <3> QED
      BY <1>4, <3>1, <3>2, <3>3, <3>4, <3>5
  <2> HIDE DEF c
  <2> QED
    BY <1>1, <2>1, <2>2, TypeFrame
<1> QED
  BY <1>2, <1>3, <1>4 DEF Work

\* Every step keeps the list well formed and the calls counted.
LEMMA NextType == StateType /\ EInv /\ [Next]_vars => StateType'
<1> SUFFICES ASSUME StateType, EInv, [Next]_vars PROVE StateType'
  OBVIOUS
<1>1. ASSUME NEW t \in Thread, NEW op \in Op, NEW path \in Path, Begin(t, op, path)
      PROVE  StateType'
  <2>1. call[t].calls < MaxCalls /\ UNCHANGED <<file, errors, freed, mutex>>
    BY <1>1 DEF Begin
  <2> DEFINE c == [Idle EXCEPT !.pc = "enter", !.op = op, !.path = path, !.calls = call[t].calls + 1]
  <2>2. call' = [call EXCEPT ![t] = c]
    BY <1>1 DEF Begin
  <2>3. c.calls = call[t].calls + 1
    BY DEF Idle
  <2>4. c.calls \in 0..MaxCalls
    <3>1. call[t].calls \in 0..MaxCalls /\ MaxCalls \in Nat
      BY ErrInjectAssumption DEF StateType
    <3> QED
      BY <2>1, <2>3, <3>1
  <2> HIDE DEF c
  <2>5. \A u \in Thread : call'[u] = IF u = t THEN c ELSE call[u]
    BY <2>2 DEF EInv, CallType
  <2>6. \A u \in Thread : call'[u].calls \in 0..MaxCalls
    BY <2>4, <2>5 DEF StateType
  <2> QED
    BY <2>1, <2>6 DEF StateType
<1>2. ASSUME NEW f \in Confs \cup {Absent}, Edit(f) PROVE StateType'
  BY <1>2 DEF Edit, StateType
<1>3. CASE UNCHANGED vars
  BY <1>3 DEF vars, StateType
<1> QED
  BY <1>1, <1>2, <1>3, WorkType DEF Next

\* main builds a well-formed list before it mounts.
LEMMA InitType == Init => StateType
<1> SUFFICES ASSUME Init PROVE StateType
  OBVIOUS
<1>1. PICK f \in {file, Unreadable} : errors = Config(f)
  BY DEF Init
<1>2. errors \in Lists \cup {Null}
  BY <1>1, ConfigType DEF Init
<1>3. \A t \in Thread : call[t].calls \in 0..MaxCalls
  <2>1. \A t \in Thread : call[t].calls = 0
    BY DEF Init, Idle
  <2>2. MaxCalls \in Nat
    BY ErrInjectAssumption
  <2>3. 0 \in 0..MaxCalls
    BY <2>2
  <2> QED
    BY <2>1, <2>3
<1> QED
  BY <1>2, <1>3 DEF Init, StateType

\* The list error_inject walks is well typed with at most one injection of a
\* type, whatever files were loaded and whatever their sections repeat.
THEOREM TypeCorrect == Spec => []TypeOK
<1>1. StateType /\ EInv => TypeOK
  <2> SUFFICES ASSUME StateType, EInv PROVE TypeOK
    OBVIOUS
  <2>1. errors = Null \/ (errors \in Seq(Entries) /\ OneEach(errors))
    BY DEF StateType, Lists
  <2>2. \A t \in Thread : call[t].pc \in Places /\ call[t].rc \in Errno \cup Reserved
    BY DEF EInv, CallType, Calls
  <2>3. gen \in Nat
    BY DEF EInv, CallType
  <2> QED
    BY <2>1, <2>2, <2>3 DEF StateType, TypeOK
<1> QED
  BY <1>1, InitInv, NextInv, InitType, NextType, PTL DEF Spec

----------------------------------------------------------------------------
(* The parser and the handler together, for every file.                    *)

\* ini_parse_stream hands conf_option_handler what the file says, whatever
\* the contents asked about, in any state.
THEOREM ParsedRight == Spec => []ParsedAsWritten
<1>1. ParsedAsWritten
  <2>1. \A f \in Samples : f \in Seq(LinesOf(Name, Value))
    BY ErrInjectAssumption
  <2> QED
    BY <2>1, ParserTellsWhatIsWritten DEF ParsedAsWritten
<1> QED
  BY <1>1, PTL

\* The injections of a file are the ones it enables, one of a type, and each
\* has the values that stand last in the file, however often its sections and
\* options are repeated, and whatever else stands between them.
THEOREM ConfigurationMeansTheFile ==
  \A f \in Seq(LinesOf(Name, Value)) :
    LET list == Options(Parse(f).calls)
        options == Written(f)
    IN  /\ OneEach(list)
        /\ {e.type : e \in Range(list)} = {o.section : o \in Range(options)} \cap Types
        /\ \A e \in Range(list) : Means(options, Len(options), e)
<1> SUFFICES ASSUME NEW f \in Seq(LinesOf(Name, Value))
             PROVE  LET list == Options(Parse(f).calls)
                        options == Written(f)
                    IN  /\ OneEach(list)
                        /\ {e.type : e \in Range(list)} = {o.section : o \in Range(options)} \cap Types
                        /\ \A e \in Range(list) : Means(options, Len(options), e)
  OBVIOUS
<1> DEFINE options == Written(f)
           list == Options(options)
<1>1. Parse(f).calls = options
  BY ParserTellsWhatIsWritten
<1>2. options \in Seq(Told)
  <2>1. Parse(f) \in Parser
    BY ParseAll DEF PInv
  <2> QED
    BY <1>1, <2>1 DEF Parser
<1>3. OptInv(options, Len(options), list)
  BY <1>2, OptionsAll
<1> HIDE DEF options, list
<1>4. /\ list \in Seq(Entries) /\ OneEach(list)
      /\ DOMAIN options = 1..Len(options)
      /\ \A i \in DOMAIN list : Means(options, Len(options), list[i])
      /\ \A i \in DOMAIN list : \E k \in 1..Len(options) : options[k].section = list[i].type
      /\ \A k \in 1..Len(options) : options[k].section \in Types =>
           \E i \in DOMAIN list : list[i].type = options[k].section
  BY <1>2, <1>3 DEF OptInv
<1>5. \A i \in DOMAIN list : list[i].type \in Types
  <2>1. \A i \in DOMAIN list : list[i] \in Entries
    BY <1>4
  <2> QED
    BY <2>1 DEF Entries
<1>6. \A x : x \in {e.type : e \in Range(list)} <=> \E i \in DOMAIN list : x = list[i].type
  BY DEF Range
<1>7. \A x : x \in {o.section : o \in Range(options)} <=> \E k \in DOMAIN options : x = options[k].section
  BY DEF Range
<1>8. {e.type : e \in Range(list)} = {o.section : o \in Range(options)} \cap Types
  <2>1. ASSUME NEW i \in DOMAIN list PROVE list[i].type \in {o.section : o \in Range(options)} \cap Types
    BY <1>4, <1>5, <1>7
  <2>2. ASSUME NEW x \in {o.section : o \in Range(options)} \cap Types
        PROVE  \E i \in DOMAIN list : x = list[i].type
    <3>1. PICK k \in DOMAIN options : x = options[k].section
      BY <1>7
    <3> QED
      BY <1>4, <3>1
  <2> QED
    BY <1>6, <2>1, <2>2
<1>9. \A e \in Range(list) : Means(options, Len(options), e)
  BY <1>4 DEF Range
<1> QED
  BY <1>1, <1>4, <1>8, <1>9 DEF list, options

\* The same of the files a configuration of the checks asks about.
THEOREM ConfiguredRight == Spec => []ConfiguredAsWritten
<1>1. ConfiguredAsWritten
  <2>1. \A f \in Samples : f \in Seq(LinesOf(Name, Value))
    BY ErrInjectAssumption
  <2> QED
    BY <2>1, ConfigurationMeansTheFile DEF ConfiguredAsWritten
<1> QED
  BY <1>1, PTL
============================================================================
