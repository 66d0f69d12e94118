----------------------------- MODULE MCFuseOps -----------------------------
(* Small instances of FuseOps: configurations of injections, symmetry.     *)
EXTENDS FuseOps

\* Operations are done, skipped or refused; no open is skipped.
Errors == [op \in Op |-> IF op = "open" THEN {"done", "refused"} ELSE {"done", "skipped", "refused"}]

\* Opens are skipped; write and flush are queued as in the durability test,
\* and so are others, which that refuses.
SkipsAndQueues ==
  [op \in Op |-> CASE op = "open" -> {"skipped"}
                   [] op = "release" -> {"done"}
                   [] op = "read" -> {"done", "queued"}
                   [] OTHER -> {"queued"}]

\* Write and flush are queued, nothing else is injected.
Queues == [op \in Op |-> IF op \in {"write", "flush"} THEN {"queued"} ELSE {"done"}]

AllInjects == {Errors, SkipsAndQueues}
QueueInjects == {Queues}

Symmetry == Permutations(Thread) \cup Permutations(Path)
============================================================================
