------------------------------- MODULE TableIds -------------------------------
(***************************************************************************)
(* lib.rs and py-arrow-bigquery/src/table_id.rs: table identifiers.        *)
(* A text is a sequence of tokens: "n" is a run of ordinary characters,    *)
(* the others are the characters that the parser tells apart.              *)
(***************************************************************************)
EXTENDS Integers, SequencesExt

Chars == {"n", ".", ":", "/", "tick"}

\* BigQueryTableId::new: nothing is checked.
NewTableId(project, dataset, table) ==
    [project |-> project, dataset |-> dataset, table |-> table]

\* Not an identifier: InvalidTableId.
Invalid == NewTableId(<<>>, <<>>, <<"invalid">>)

\* Display
Display(id) == id.project \o <<".">> \o id.dataset \o <<".">> \o id.table

TablePath(id) ==
    <<"projects", "/">> \o id.project \o <<"/", "datasets", "/">> \o id.dataset
        \o <<"/", "tables", "/">> \o id.table

-----------------------------------------------------------------------------

\* take_while: the first position from `from` on with a character of `stop`.
EndOf(s, from, stop) == Min({i \in from .. Len(s) : s[i] \in stop} \cup {Len(s) + 1})

\* Mutant: everything after the dataset is the table.
ParseTableIdFirstDot(s) ==
    LET colon == EndOf(s, 1, {":"})
        start == IF colon \in 2 .. Len(s) THEN colon + 1 ELSE 1
        dot == EndOf(s, start, {".", ":"})
        next == EndOf(s, dot + 1, {"."})
    IN  IF dot \in start + 1 .. Len(s) /\ s[dot] = "." /\ next \in dot + 2 .. Len(s) - 1
        THEN NewTableId(SubSeq(s, 1, dot - 1), SubSeq(s, dot + 1, next - 1), SubSeq(s, next + 1, Len(s)))
        ELSE Invalid

\* parse_table_id: an optional domain up to the first colon, the project up to
\* the first dot, then at least two non-empty parts, the last of which is the
\* table.
ParseTableId(s) ==
    LET colon == EndOf(s, 1, {":"})
        start == IF colon \in 2 .. Len(s) THEN colon + 1 ELSE 1
        dot == EndOf(s, start, {".", ":"})
        dots == {i \in dot + 1 .. Len(s) : s[i] = "."}
        nonEmpty == \A i \in dots \cup {dot} : i + 1 \notin dots \cup {Len(s) + 1}
    IN  IF /\ dot \in start + 1 .. Len(s)
           /\ s[dot] = "."
           /\ dots # {}
           /\ nonEmpty
        THEN NewTableId(SubSeq(s, 1, dot - 1),
                        SubSeq(s, dot + 1, Max(dots) - 1),
                        SubSeq(s, Max(dots) + 1, Len(s)))
        ELSE Invalid

\* Mutant: slashes are not refused.
FromStrWithSlashes(s) == IF Contains(s, "tick") THEN Invalid ELSE ParseTableId(s)

FromStr(s) == IF Contains(s, "tick") \/ Contains(s, "/") THEN Invalid ELSE ParseTableId(s)

-----------------------------------------------------------------------------
(* The Python class: parse() takes an identifier, a text, or any object    *)
(* with the attributes of a table reference.                               *)

Attributes == {"project", "project_id", "dataset_id", "table_id"}

\* What reading an attribute does: it is missing or None, it is a string or
\* something else, or its getter raises.
Getters == {"missing", "text", "other", "raises"}

\* get_optional_string_attr, as a result: a string, None, or an exception.
GetOptionalStringAttr(obj, attr) ==
    CASE obj[attr] = "missing" -> "None"
      [] obj[attr] = "text"    -> "Some"
      [] obj[attr] = "other"   -> "TypeError"
      [] obj[attr] = "raises"  -> "GetterError"

\* The attributes in the order in which parse reads them, project_id only if
\* there is no project.
AttributeOrder(obj) ==
    IF GetOptionalStringAttr(obj, "project") = "None"
    THEN <<"project_id", "dataset_id", "table_id">>
    ELSE <<"project", "dataset_id", "table_id">>

\* parse(object): the exception of the first getter that fails, TypeError if an
\* attribute is missing, otherwise "Some".
ParseObject(obj) ==
    LET order == AttributeOrder(obj)
        got == [i \in 1 .. 3 |-> GetOptionalStringAttr(obj, order[i])]
        failed == {i \in 1 .. 3 : got[i] \notin {"Some", "None"}}
    IN  CASE failed # {} -> got[Min(failed)]
          [] \E i \in 1 .. 3 : got[i] = "None" -> "TypeError"
          [] OTHER -> "Some"

-----------------------------------------------------------------------------
(* What a text means, as a grammar. *)

\* A project: a name, or a domain and a name.
IsProject(p) ==
    \E k \in 0 .. Len(p) :
        /\ k > 0 => k > 1 /\ p[k] = ":" /\ ~Contains(SubSeq(p, 1, k - 1), ":")
        /\ LET name == SubSeq(p, k + 1, Len(p))
           IN  name # <<>> /\ ~Contains(name, ":") /\ ~Contains(name, ".")

IsPart(p) == p # <<>> /\ ~Contains(p, ".")

\* Parts joined by dots.
IsDataset(d) ==
    /\ d # <<>> /\ d[1] # "." /\ d[Len(d)] # "."
    /\ \A i \in 1 .. Len(d) - 1 : ~(d[i] = "." /\ d[i + 1] = ".")

\* The parts of an identifier are parts of the grammar.  A colon after the
\* project would make a domain of all that is before it, unless there is one.
WellFormed(id) ==
    /\ IsProject(id.project) /\ IsDataset(id.dataset) /\ IsPart(id.table)
    /\ \A c \in {"tick", "/"} : ~Contains(Display(id), c)
    /\ Contains(Display(id), ":") => Contains(id.project, ":")

\* The ways to read a text as project.dataset.table.
Readings(s) ==
    LET dots == {i \in DOMAIN s : s[i] = "."}
    IN  {id \in {NewTableId(SubSeq(s, 1, a - 1), SubSeq(s, a + 1, b - 1), SubSeq(s, b + 1, Len(s))) :
                    a \in dots, b \in dots} : Display(id) = s /\ WellFormed(id)}
=============================================================================
