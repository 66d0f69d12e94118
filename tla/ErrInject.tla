----------------------------- MODULE ErrInject -----------------------------
(***************************************************************************)
(* Error injection, unreliablefs_errinj.c, and what the operations of      *)
(* unreliablefs_ops.c make of it.  Every operation first calls             *)
(* error_inject, which takes the configuration mutex, reads the            *)
(* configuration again when the operation is about the configuration file, *)
(* and otherwise walks the list of injections; the operation is then done, *)
(* skipped, refused or put into the reordering queue.                      *)
(*                                                                         *)
(* A regular expression is the set of names it matches, and a text of the  *)
(* configuration is what it means as each kind of option.                  *)
(***************************************************************************)
EXTENDS IniParse

CONSTANTS
  Thread,    \* threads of libfuse
  Op,        \* operations
  QueueOps,  \* the ones that know the reordering queue: write and flush
  Path,      \* paths
  ConfPath,  \* the path of unreliablefs.conf
  Name,      \* names a file may give a section or an option
  Confs,     \* contents the configuration file may have
  Errno,     \* the errno values of the tables
  Samples,   \* further contents, for the parser alone
  MaxCalls,  \* bound on the calls of a thread
  Null       \* no list, no thread

Types == {"errno", "kill_caller", "noop", "slowdown", "alice_reorder", "alice_delay"}
Reserved == {"ok", "noop", "queue"}
Absent == <<"absent">>          \* there is no configuration file

\* What a text means as each of the options (atoi, stored without a sign).
Value == [ops : SUBSET Op, paths : SUBSET Path, prob : Nat]

ASSUME ErrInjectAssumption ==
  /\ "" \in Name /\ Confs \cup Samples \subseteq Seq(LinesOf(Name, Value))
  /\ QueueOps \subseteq Op /\ ConfPath \in Path
  /\ Errno \cap Reserved = {}
  /\ MaxCalls \in Nat
  /\ Null \notin Thread

VARIABLES
  file,    \* the configuration file
  errors,  \* conf.errors: a list of injections, or Null
  freed,   \* has config_delete freed the list conf.errors points to?
  gen,     \* how many lists there have been (no state of the code)
  mutex,   \* holder of conf.mutex, or Null
  call     \* call[t]: what thread t is doing

vars == <<file, errors, freed, gen, mutex, call>>

----------------------------------------------------------------------------
(* The configuration                                                       *)

Fresh(type) == [type |-> type, ops |-> Op, paths |-> Path, prob |-> 0]

Keep(e, key, value) ==
  CASE key = "ops" -> [e EXCEPT !.ops = value.ops]
    [] key = "paths" -> [e EXCEPT !.paths = value.paths]
    [] key = "prob" -> [e EXCEPT !.prob = value.prob]
    [] OTHER -> e

\* Mutant: the search for the type is forgotten.
OptionAppends(list, o) ==
  IF o.section \notin Types THEN list
  ELSE Append(list, Keep(Fresh(o.section), o.key, o.value))

\* Mutant: the search takes the first entry for a match.
OptionFindsFirst(list, o) ==
  IF o.section \notin Types THEN list
  ELSE LET longer == IF \E e \in Range(list) : e.type = o.section
                     THEN list ELSE Append(list, Fresh(o.section))
       IN  [longer EXCEPT ![1] = Keep(@, o.key, o.value)]

\* conf_option_handler: the entry of the section's type, made when there is
\* none, gets the value; an unknown section or key changes no value.
Option(list, o) ==
  IF o.section \notin Types THEN list
  ELSE LET longer == IF \E e \in Range(list) : e.type = o.section
                     THEN list ELSE Append(list, Fresh(o.section))
           i == CHOOSE j \in DOMAIN longer : longer[j].type = o.section
       IN  [longer EXCEPT ![i] = Keep(@, o.key, o.value)]

Options(calls) == FoldLeft(Option, <<>>, calls)

\* config_init: no file, no injections; a file that cannot be read, no list.
\* A bad line does not count.
Config(f) ==
  IF f = Absent THEN <<>>
  ELSE LET parsed == ParseFile(f)
       IN  IF parsed.error < 0 THEN Null ELSE Options(parsed.calls)

Idle == [pc |-> "idle", op |-> Null, path |-> Null, at |-> 0, rc |-> "ok",
         list |-> 0, hits |-> <<>>, calls |-> 0]

Init ==
  /\ file \in Confs \cup {Absent}
  /\ \E f \in {file, Unreadable} : errors = Config(f)
  /\ freed = FALSE
  /\ gen = 0
  /\ mutex = Null
  /\ call = [t \in Thread |-> Idle]

\* Somebody edits the file, in the directory below the mount or through it.
Edit(f) ==
  /\ file' = f
  /\ UNCHANGED <<errors, freed, gen, mutex, call>>

----------------------------------------------------------------------------
(* error_inject                                                            *)

Goto(t, l) == call' = [call EXCEPT ![t].pc = l]

Begin(t, op, path) ==
  /\ call[t].pc = "idle" /\ call[t].calls < MaxCalls
  /\ call' = [call EXCEPT ![t] =
       [Idle EXCEPT !.pc = "enter", !.op = op, !.path = path, !.calls = call[t].calls + 1]]
  /\ UNCHANGED <<file, errors, freed, gen, mutex>>

\* Where a thread goes that holds the mutex.
Dispatch(t) ==
  call' = [call EXCEPT
    ![t].pc = CASE call[t].path = ConfPath -> "delete"
                [] call[t].path # ConfPath /\ errors = Null -> "leave"
                [] OTHER -> "walk",
    ![t].at = 1,
    ![t].list = gen]

\* Mutant: no pthread_mutex_lock.
EnterWithoutMutex(t) ==
  /\ call[t].pc = "enter"
  /\ mutex' = t
  /\ Dispatch(t)
  /\ UNCHANGED <<file, errors, freed, gen>>

Enter(t) ==
  /\ call[t].pc = "enter"
  /\ mutex = Null
  /\ mutex' = t
  /\ Dispatch(t)
  /\ UNCHANGED <<file, errors, freed, gen>>

\* The file itself is touched: config_delete, ...
Delete(t) ==
  /\ call[t].pc = "delete"
  /\ freed' = (errors # Null)
  /\ Goto(t, "load")
  /\ UNCHANGED <<file, errors, gen, mutex>>

\* ... then config_init, which may fail.
Load(t) ==
  /\ call[t].pc = "load"
  /\ \E f \in {file, Unreadable} : errors' = Config(f)
  /\ freed' = FALSE
  /\ gen' = gen + 1
  /\ Goto(t, "leave")
  /\ UNCHANGED <<file, mutex>>

Entry(t) == errors[call[t].at]
Matches(t) == call[t].path \in Entry(t).paths /\ call[t].op \in Entry(t).ops

\* The p drawn for an entry is any of 0..100.
MayFire(e) == {p \in 0..100 : p <= e.prob} # {}
MayMiss(e) == {p \in 0..100 : p > e.prob} # {}

\* What an entry makes of rc.  The errno is drawn from a table by an index
\* that may lie one past its end: padding, or the next table.
Effects(type) ==
  CASE type = "noop" -> {"noop"}
    [] type \in {"alice_reorder", "alice_delay"} -> {"queue"}
    [] type = "errno" -> Errno \cup {"ok"}
    [] OTHER -> {}

Step(t, c, l) == call' = [call EXCEPT ![t] = [c EXCEPT !.at = @ + 1, !.pc = l]]

\* The entry is not drawn (p is above its probability), or does not match.
Pass(t) ==
  /\ call[t].pc = "walk"
  /\ call[t].at \in DOMAIN errors
  /\ \/ MayMiss(Entry(t))
     \/ ~Matches(t)
  /\ Step(t, call[t], "walk")
  /\ UNCHANGED <<file, errors, freed, gen, mutex>>

\* Mutant: the first entry that sets rc ends the walk.
FirstHit(t) ==
  /\ call[t].pc = "walk"
  /\ call[t].at \in DOMAIN errors
  /\ MayFire(Entry(t))
  /\ Matches(t)
  /\ LET c == [call[t] EXCEPT !.hits = Append(@, call[t].at)]
         e == Effects(Entry(t).type)
     IN  \/ e = {} /\ Step(t, c, "walk")
         \/ \E rc \in e : Step(t, [c EXCEPT !.rc = IF c.rc = "ok" THEN rc ELSE c.rc], "walk")
  /\ UNCHANGED <<file, errors, freed, gen, mutex>>

\* The entry is drawn and matches.  A killed caller changes nothing here; a
\* slowdown sleeps with the mutex held.
Hit(t) ==
  /\ call[t].pc = "walk"
  /\ call[t].at \in DOMAIN errors
  /\ MayFire(Entry(t))
  /\ Matches(t)
  /\ LET c == [call[t] EXCEPT !.hits = Append(@, call[t].at)]
         e == Effects(Entry(t).type)
     IN  \/ \E rc \in e : Step(t, [c EXCEPT !.rc = rc], "walk")
         \/ e = {} /\ Entry(t).type = "slowdown" /\ Step(t, c, "sleep")
         \/ e = {} /\ Entry(t).type # "slowdown" /\ Step(t, c, "walk")
  /\ UNCHANGED <<file, errors, freed, gen, mutex>>

Wake(t) ==
  /\ call[t].pc = "sleep"
  /\ Goto(t, "walk")
  /\ UNCHANGED <<file, errors, freed, gen, mutex>>

WalkEnds(t) ==
  /\ call[t].pc = "walk"
  /\ call[t].at \notin DOMAIN errors
  /\ Goto(t, "leave")
  /\ UNCHANGED <<file, errors, freed, gen, mutex>>

\* Mutant: a return that does not pass the label cleanup.
LeaveLocked(t) ==
  /\ call[t].pc = "leave"
  /\ Goto(t, "left")
  /\ UNCHANGED <<file, errors, freed, gen, mutex>>

Leave(t) ==
  /\ call[t].pc = "leave"
  /\ mutex' = Null
  /\ Goto(t, "left")
  /\ UNCHANGED <<file, errors, freed, gen>>

----------------------------------------------------------------------------
(* The operation                                                           *)

\* The first lines of every operation: 0 lets it run, ERRNO_NOOP answers 0
\* without it, ERR_INSERT_TO_QUEUE queues a write or a flush, and anything
\* else (ERR_INSERT_TO_QUEUE in the other operations) is the answer.
Outcome(op, rc) ==
  CASE rc = "ok" -> "done"
    [] rc = "noop" -> "skipped"
    [] rc = "queue" /\ op \in QueueOps -> "queued"
    [] OTHER -> "refused"

Act(t) ==
  /\ call[t].pc = "left"
  /\ Goto(t, Outcome(call[t].op, call[t].rc))
  /\ UNCHANGED <<file, errors, freed, gen, mutex>>

Answers == {"done", "skipped", "queued", "refused"}

Return(t) ==
  /\ call[t].pc \in Answers
  /\ call' = [call EXCEPT ![t] = [Idle EXCEPT !.calls = call[t].calls]]
  /\ UNCHANGED <<file, errors, freed, gen, mutex>>

Work(t) ==
  \/ Enter(t) \/ Delete(t) \/ Load(t)
  \/ Pass(t) \/ Hit(t) \/ Wake(t) \/ WalkEnds(t) \/ Leave(t)
  \/ Act(t) \/ Return(t)

Next ==
  \/ \E t \in Thread :
       \/ Work(t)
       \/ \E op \in Op, path \in Path : Begin(t, op, path)
  \/ \E f \in Confs \cup {Absent} : Edit(f)

Spec == Init /\ [][Next]_vars

\* A thread that can go on does; nothing makes a process call again.
FairSpec == Spec /\ \A t \in Thread : WF_vars(Work(t))

----------------------------------------------------------------------------
(* Properties                                                              *)

Places == {"idle", "enter", "delete", "load", "walk", "sleep", "leave", "left"} \cup Answers

Entries == [type : Types, ops : SUBSET Op, paths : SUBSET Path, prob : Nat]

\* At most one entry of a type.
OneEach(list) == \A i, j \in DOMAIN list : list[i].type = list[j].type => i = j

\* The list is one that conf_option_handler can build: at most one entry of a
\* type, whatever order and repetition of sections the file has.
TypeOK ==
  /\ errors = Null \/ errors \in Seq(Entries)
  /\ freed \in BOOLEAN /\ gen \in Nat
  /\ mutex \in Thread \cup {Null}
  /\ \A t \in Thread :
       /\ call[t].pc \in Places
       /\ call[t].rc \in Errno \cup Reserved
       /\ call[t].calls \in 0..MaxCalls
  /\ errors # Null => OneEach(errors)

\* Nobody walks a list that config_delete has freed or that is not the one
\* the walk began with, although any operation on the configuration file
\* replaces it.
ListAlive ==
  \A t \in Thread : call[t].pc \in {"walk", "sleep"} => ~freed /\ call[t].list = gen

\* The hits that set the return code.
Setters(list, hits) == {k \in DOMAIN hits : Effects(list[hits[k]].type) # {}}

LastWins(list, c) ==
  \/ Setters(list, c.hits) = {} /\ c.rc = "ok"
  \/ \E k \in Setters(list, c.hits) :
       /\ \A j \in Setters(list, c.hits) : j <= k
       /\ c.rc \in Effects(list[c.hits[k]].type)

\* The loop of error_inject returns what the last of the injections that
\* were triggered says, the ones that only kill or sleep left aside.
LastHitWins ==
  \A t \in Thread :
    call[t].pc = "walk" /\ call[t].at \notin DOMAIN errors => LastWins(errors, call[t])

\* Every operation is answered, whatever is injected into it and into the
\* others and whoever reloads the configuration.
Answered == \A t \in Thread : call[t].pc = "enter" ~> call[t].pc \in Answers

\* What the parser hands to conf_option_handler is what the file says: every
\* option of every section once, in order, the indented lines below it as
\* further values of the same option, whatever errors stand between them.  The
\* parser keeps nothing between two files, so that it is asked once, of every
\* file main may find before the first call.
ParsedAsWritten ==
  (\A t \in Thread : call[t].calls = 0) =>
    \A f \in Samples : Parse(f).calls = Written(f) /\ Parse(f).error = FirstBad(f)

\* The last of the first n options that gives the entry of a type a value.
LastSet(options, n, type, key) ==
  {i \in 1..n : /\ options[i].section = type /\ options[i].key = key
                /\ \A j \in (i + 1)..n : options[j].section # type \/ options[j].key # key}

Means(options, n, e) ==
  /\ LastSet(options, n, e.type, "ops") = {} => e.ops = Op
  /\ LastSet(options, n, e.type, "paths") = {} => e.paths = Path
  /\ LastSet(options, n, e.type, "prob") = {} => e.prob = 0
  /\ \A i \in LastSet(options, n, e.type, "ops") : e.ops = options[i].value.ops
  /\ \A i \in LastSet(options, n, e.type, "paths") : e.paths = options[i].value.paths
  /\ \A i \in LastSet(options, n, e.type, "prob") : e.prob = options[i].value.prob

\* The injections are the ones the file enables, one of a type, and each has
\* the values that stand last in the file, in whichever of the sections of
\* that name, or none: what another section says, and an unknown section or
\* option between them, changes nothing.
ConfiguredAsWritten ==
  (\A t \in Thread : call[t].calls = 0) =>
    \A f \in Samples :
      LET list == Options(Parse(f).calls)
          options == Written(f)
      IN  /\ OneEach(list)
          /\ {e.type : e \in Range(list)} = {o.section : o \in Range(options)} \cap Types
          /\ \A e \in Range(list) : Means(options, Len(options), e)
============================================================================
