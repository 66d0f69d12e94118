------------------------------ MODULE IniParse ------------------------------
(***************************************************************************)
(* The parser of unreliablefs.conf, conf.c, as it is compiled here: values *)
(* over several lines, comments in and before lines, a line buffer on the  *)
(* stack, parsing goes on after an error.                                  *)
(*                                                                         *)
(* A line is one string that fgets returned, so that a line too long for   *)
(* the buffer is two.  What its characters make of it is given: whether it *)
(* begins with a space, which of the forms it has, and its parts.  Names   *)
(* are shorter than MAX_SECTION and MAX_NAME.                              *)
(***************************************************************************)
EXTENDS Integers, SequencesExt

Unreadable == <<"unreadable">>  \* the file vanished before it was opened

\* "blank" is also a comment; "bad" a header without "]" or a line without
\* "=" and ":".  value is what stands behind the "=", text the whole line.
Forms == {"blank", "section", "pair", "bad"}

LinesOf(Name, Value) ==
  [lead : BOOLEAN, form : Forms, name : Name, value : Value, text : Value]

Line(form, name, value, text) ==
  [lead |-> FALSE, form |-> form, name |-> name, value |-> value, text |-> text]

Indented(line) == [line EXCEPT !.lead = TRUE]

----------------------------------------------------------------------------
\* What the parser knows between two lines, and what the handler was given.
Start == [section |-> "", prev_name |-> "", lineno |-> 0, error |-> 0, calls |-> <<>>]

Report(s, name, value) ==
  [s EXCEPT !.calls = Append(@, [section |-> s.section, key |-> name, value |-> value])]

Fails(s) == IF s.error = 0 THEN [s EXCEPT !.error = s.lineno] ELSE s

\* A mutant: the header does not clear the name.
ParseLineKeepsName(before, line) ==
  LET s == [before EXCEPT !.lineno = @ + 1] IN
  CASE line.form = "blank" -> s
    [] line.form # "blank" /\ line.lead /\ s.prev_name # "" -> Report(s, s.prev_name, line.text)
    [] OTHER ->
         CASE line.form = "section" -> [s EXCEPT !.section = line.name]
           [] line.form = "pair" -> Report([s EXCEPT !.prev_name = line.name], line.name, line.value)
           [] OTHER -> Fails(s)

\* The body of the loop: an indented line continues the option above it,
\* whatever it looks like; otherwise it is a header, an option or an error.
\* What the handler returns changes only the number of the first bad line,
\* which config_init does not look at.
ParseLine(before, line) ==
  LET s == [before EXCEPT !.lineno = @ + 1] IN
  CASE line.form = "blank" -> s
    [] line.form # "blank" /\ line.lead /\ s.prev_name # "" -> Report(s, s.prev_name, line.text)
    [] OTHER ->
         CASE line.form = "section" -> [s EXCEPT !.section = line.name, !.prev_name = ""]
           [] line.form = "pair" -> Report([s EXCEPT !.prev_name = line.name], line.name, line.value)
           [] OTHER -> Fails(s)

\* ini_parse_stream.
Parse(lines) == FoldLeft(ParseLine, Start, lines)

\* ini_parse: -1 if the file cannot be opened.
ParseFile(f) == IF f = Unreadable THEN [Start EXCEPT !.error = -1] ELSE Parse(f)

----------------------------------------------------------------------------
(* What a file says, line by line and without a state.                     *)

\* A header, or an option without a name, at the left margin ends every
\* option above it; what ends none is indented, a comment or bad.
EndsOption(f, i) ==
  ~f[i].lead /\ (f[i].form = "section" \/ (f[i].form = "pair" /\ f[i].name = ""))

\* After n lines an indented line would continue an option.
OpenAfter(f, n) ==
  \E k \in 1..n : /\ f[k].form = "pair" /\ f[k].name # ""
                  /\ \A j \in (k + 1)..n : ~EndsOption(f, j)

Continues(f, i) == f[i].lead /\ f[i].form # "blank" /\ OpenAfter(f, i - 1)

LastOf(f, i, form) ==
  {k \in 1..i : f[k].form = form /\ ~Continues(f, k)
                /\ \A j \in (k + 1)..i : f[j].form = form => Continues(f, j)}

SectionAt(f, i) == IF LastOf(f, i, "section") = {} THEN ""
                   ELSE f[CHOOSE k \in LastOf(f, i, "section") : TRUE].name

Says(f, i) ==
  IF Continues(f, i)
  THEN [section |-> SectionAt(f, i), value |-> f[i].text,
        key |-> f[CHOOSE k \in LastOf(f, i, "pair") : TRUE].name]
  ELSE [section |-> SectionAt(f, i), value |-> f[i].value, key |-> f[i].name]

\* The lines among the first n that say something.
Saying(f, n) == {i \in 1..n : f[i].form = "pair" \/ Continues(f, i)}

Written(f) ==
  LET said == Saying(f, Len(f))
  IN  [k \in 1..Cardinality(said) |->
         Says(f, CHOOSE i \in said : Cardinality(Saying(f, i)) = k)]

FirstBad(f) ==
  LET bad == {i \in DOMAIN f : f[i].form = "bad" /\ ~Continues(f, i)}
  IN  IF bad = {} THEN 0 ELSE CHOOSE i \in bad : \A j \in bad : i <= j
=============================================================================
