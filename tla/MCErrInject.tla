---------------------------- MODULE MCErrInject ----------------------------
(* Configurations for ErrInject: one whose injections all fire, and one    *)
(* with a section twice, an unknown section, an unknown key, bad lines and *)
(* no probability; and all short files over a few lines for the parser.    *)
EXTENDS ErrInject

Word(w) == [ops |-> {w} \cap Op, paths |-> {w} \cap Path, prob |-> 0]
Number(n) == [ops |-> {}, paths |-> {}, prob |-> n]
None == Number(0)

Section(name) == Line("section", name, None, None)
Pair(key, value) == Line("pair", key, value, None)
Bad(text) == Line("bad", "", None, text)
Blank == Line("blank", "", None, None)

Mixed == <<
  Section("noop"), Pair("prob", Number(5)), Indented(Bad(Number(100))), Pair("paths", Word("a")),
  Blank, Section("slowdown"), Pair("prob", Number(50)),
  Section("errno"), Pair("ops", Word("write")), Pair("prob", Number(100)),
  Section("kill_caller"), Pair("prob", Number(10))>>

Untidy == <<
  Pair("prob", Number(7)), Section("errno"), Pair("prob", Number(4)),
  Section("typo"), Bad(None), Pair("prob", Number(100)), Indented(Section("noop")),
  Section("alice_delay"), Pair("speed", Number(1)),
  Section("noop"), Pair("ops", Word("open")), Section("errno"), Pair("paths", Word("a"))>>

AllConfs == {Mixed, Untidy}

AllNames == {"", "ops", "paths", "prob", "speed", "typo"} \cup Types

Header == Section("noop")
Other == Section("errno")
Some == Pair("prob", Number(1))
Nameless == Pair("", Number(3))
Another == Pair("ops", Word("open"))
Lines == {Header, Other, Some, Nameless, Blank} \cup {Indented(l) : l \in {Section("errno"), Another, Bad(Number(2))}}
         \cup {Bad(None)}

AllSamples == UNION {[1..n -> Lines] : n \in 0..4}
============================================================================
