--------------------------- MODULE CodeRequirement ---------------------------
(***************************************************************************)
(* dovetail_privileged_daemon: what a compiled code requirement asks for,  *)
(* and whether that is enough for the privileged channel.                  *)
(*                                                                         *)
(* A blob is a sequence of words.  A length-prefixed, padded byte string   *)
(* is one word of at least Data: only its identity matters, so two strings *)
(* are two numbers.  A clause is a tuple that starts with its form.        *)
(***************************************************************************)
EXTENDS Naturals, Sequences

CONSTANT MaxDepth      \* MAX_DEPTH

Magic == 99
ExpressionForm == 1

Data == 100
EmptyData == Data
TeamField == Data + 1
AppStoreOid == Data + 2
DeveloperIdCaOid == Data + 3
DeveloperIdLeafOid == Data + 4

-----------------------------------------------------------------------------
(* requirement_blob: parse                                                 *)

Refused == [ok |-> FALSE, at |-> 0, clause |-> <<"other">>]
Read(at, clause) == [ok |-> TRUE, at |-> at, clause |-> clause]

IsWord(blob, at) == at <= Len(blob) /\ blob[at] < Data
IsData(blob, at) == at <= Len(blob) /\ blob[at] >= Data

\* Reader::comparison: <<match, value>>; 9..13 carry eight bytes of a date.
Comparison(blob, at) ==
    IF ~IsWord(blob, at) THEN Refused
    ELSE LET op == blob[at]
         IN  CASE op = 0 -> Read(at + 1, <<"exists", EmptyData>>)
               [] op = 1 /\ IsData(blob, at + 1) -> Read(at + 2, <<"equals", blob[at + 1]>>)
               [] op = 14 -> Read(at + 1, <<"other", EmptyData>>)
               [] op \in 2..8 /\ IsData(blob, at + 1) -> Read(at + 2, <<"other", EmptyData>>)
               [] op \in 9..13 /\ IsWord(blob, at + 1) /\ IsWord(blob, at + 2)
                    -> Read(at + 3, <<"other", EmptyData>>)
               [] OTHER -> Refused

\* The certificate clauses: slot, field or oid, comparison.
Certificate(op, slot, field, compared) ==
    CASE op = 11 /\ slot = 0 -> <<"leaf_field", field, compared>>
      [] op = 14 /\ slot = 0 -> <<"leaf_extension", field, compared>>
      [] op = 14 /\ slot = 1 -> <<"intermediate_extension", field, compared>>
      [] OTHER -> <<"other">>

\* Opcodes that are read over: what follows them, "w" for a word, "d" for data.
Skipped(op) ==
    CASE op \in {0, 3, 13, 21, 23} -> <<>>
      [] op \in {12, 20} -> <<"w">>
      [] op \in {18, 19} -> <<"d">>
      [] op = 4 -> <<"w", "d">>
      [] op = 5 -> <<"d", "d">>
Follows(blob, at, shape) ==
    \A i \in 1..Len(shape) :
      IF shape[i] = "w" THEN IsWord(blob, at + i) ELSE IsData(blob, at + i)

\* Reader::clause
RECURSIVE Clause(_, _, _)
Clause(blob, at, depth) ==
    IF depth >= MaxDepth \/ ~IsWord(blob, at) THEN Refused
    ELSE LET op == blob[at]
             left == Clause(blob, at + 1, depth + 1)
             right == Clause(blob, left.at, depth + 1)
             compared == Comparison(blob, at + 3)
             tested == Comparison(blob, at + 2)
         IN  CASE op = 1 -> Read(at + 1, <<"true">>)
               [] op = 2 /\ IsData(blob, at + 1) -> Read(at + 2, <<"identifier", blob[at + 1]>>)
               [] op = 8 /\ IsData(blob, at + 1) -> Read(at + 2, <<"cdhash", blob[at + 1]>>)
               [] op = 6 /\ left.ok /\ right.ok
                    -> Read(right.at, <<"and", left.clause, right.clause>>)
               [] op = 7 /\ left.ok /\ right.ok
                    -> Read(right.at, <<"or", left.clause, right.clause>>)
               [] op = 9 /\ left.ok -> Read(left.at, <<"not", left.clause>>)
               [] op = 15 -> Read(at + 1, <<"generic_anchor">>)
               [] op \in {11, 14, 17, 22} /\ IsWord(blob, at + 1) /\ IsData(blob, at + 2)
                    /\ compared.ok
                    -> Read(compared.at,
                            Certificate(op, blob[at + 1], blob[at + 2], compared.clause))
               [] op \in {10, 16} /\ IsData(blob, at + 1) /\ tested.ok
                    -> Read(tested.at, <<"other">>)
               [] op \in {0, 3, 4, 5, 12, 13, 18, 19, 20, 21, 23}
                    /\ Follows(blob, at, Skipped(op))
                    -> Read(at + 1 + Len(Skipped(op)), <<"other">>)
               [] OTHER -> Refused

Parse(blob) ==
    LET parsed == Clause(blob, 4, 0)
    IN  IF /\ Len(blob) >= 3 /\ blob[1] = Magic /\ blob[2] = Len(blob)
           /\ blob[3] = ExpressionForm
           /\ parsed.ok /\ parsed.at = Len(blob) + 1
          THEN parsed ELSE Refused

-----------------------------------------------------------------------------
(* requirement_strength                                                    *)

\* fact: the bit a clause sets, as a set.
Fact(c) ==
    CASE c[1] = "cdhash" -> {"pinned"}
      [] c[1] = "generic_anchor" -> {"anchored"}
      [] c[1] = "identifier" /\ c[2] # EmptyData -> {"named"}
      [] c[1] = "leaf_field" /\ c[2] = TeamField /\ c[3][1] = "equals"
           /\ c[3][2] # EmptyData -> {"team"}
      [] c[1] = "leaf_extension" /\ c[2] = AppStoreOid /\ c[3][1] = "exists" -> {"app_store"}
      [] c[1] = "leaf_extension" /\ c[2] = DeveloperIdLeafOid /\ c[3][1] = "exists"
           -> {"developer_id_leaf"}
      [] c[1] = "intermediate_extension" /\ c[2] = DeveloperIdCaOid /\ c[3][1] = "exists"
           -> {"developer_id_ca"}
      [] OTHER -> {}

DeveloperId == {"team", "developer_id_ca", "developer_id_leaf"}
AdmitsOnlyTheProduct(facts) ==
    \/ "pinned" \in facts
    \/ /\ {"anchored", "named"} \subseteq facts
       /\ DeveloperId \subseteq facts \/ "app_store" \in facts

\* alternatives: what each way to meet the clause is known to imply.
RECURSIVE Alternatives(_)
Alternatives(c) ==
    CASE c[1] = "and" -> {l \cup r : l \in Alternatives(c[2]), r \in Alternatives(c[3])}
      [] c[1] = "or" -> Alternatives(c[2]) \cup Alternatives(c[3])
      [] OTHER -> {Fact(c)}

RECURSIVE Loosened(_)
Loosened(c) ==
    CASE c[1] \in {"true", "not"} -> TRUE
      [] c[1] \in {"and", "or"} -> Loosened(c[2]) \/ Loosened(c[3])
      [] OTHER -> FALSE

IsStrong(c) ==
    ~Loosened(c) /\ \A facts \in Alternatives(c) : AdmitsOnlyTheProduct(facts)

-----------------------------------------------------------------------------
(* The reference: the compiler, and what the system does with a clause     *)

\* SecRequirementCopyData: the words of a clause.  <<"raw", words>> is a clause
\* of the language that the channel has no use for.
Compared(m) == IF m[1] = "exists" THEN <<0>> ELSE IF m[1] = "equals" THEN <<1, m[2]>> ELSE <<14>>
RECURSIVE Words(_)
Words(c) ==
    CASE c[1] = "true" -> <<1>>
      [] c[1] = "generic_anchor" -> <<15>>
      [] c[1] = "identifier" -> <<2, c[2]>>
      [] c[1] = "cdhash" -> <<8, c[2]>>
      [] c[1] = "and" -> <<6>> \o Words(c[2]) \o Words(c[3])
      [] c[1] = "or" -> <<7>> \o Words(c[2]) \o Words(c[3])
      [] c[1] = "not" -> <<9>> \o Words(c[2])
      [] c[1] = "leaf_field" -> <<11, 0, c[2]>> \o Compared(c[3])
      [] c[1] = "leaf_extension" -> <<14, 0, c[2]>> \o Compared(c[3])
      [] c[1] = "intermediate_extension" -> <<14, 1, c[2]>> \o Compared(c[3])
      [] OTHER -> c[2]
Compile(c) == <<Magic, Len(Words(c)) + 3, ExpressionForm>> \o Words(c)

\* ensure_strong: the text of clause c is compiled, parsed and judged.
NoCompile == <<"does not compile">>
EnsureStrong(c) ==
    /\ c # NoCompile
    /\ LET parsed == Parse(Compile(c))
       IN  parsed.ok /\ IsStrong(parsed.clause)

RECURSIVE Depth(_)
Depth(c) ==
    CASE c[1] \in {"and", "or"} ->
           LET l == Depth(c[2])  r == Depth(c[3]) IN 1 + (IF l > r THEN l ELSE r)
      [] c[1] = "not" -> 1 + Depth(c[2])
      [] OTHER -> 1

\* What may be true of the code at the other end: any of the facts, and two
\* more no fact stands for (a team of any kind, and everything else).
Codes ==
    {code \in SUBSET ({"pinned", "anchored", "named", "app_store", "some_team", "else"}
                        \cup DeveloperId) :
       "team" \in code => "some_team" \in code}

RECURSIVE Holds(_, _)
Holds(c, code) ==
    CASE c[1] = "true" -> TRUE
      [] c[1] = "not" -> ~Holds(c[2], code)
      [] c[1] = "and" -> Holds(c[2], code) /\ Holds(c[3], code)
      [] c[1] = "or" -> Holds(c[2], code) \/ Holds(c[3], code)
      [] c[1] = "cdhash" -> "pinned" \in code
      [] c[1] = "generic_anchor" -> "anchored" \in code
      [] c[1] = "identifier" -> (IF c[2] = EmptyData THEN "else" ELSE "named") \in code
      [] c[1] = "leaf_field" /\ c[2] = TeamField
           -> (CASE c[3] = <<"equals", EmptyData>> -> "else"
                 [] c[3][1] = "equals" /\ c[3][2] # EmptyData -> "team"
                 [] OTHER -> "some_team") \in code
      [] c[1] = "leaf_extension" /\ c[2] = AppStoreOid -> "app_store" \in code
      [] c[1] = "leaf_extension" /\ c[2] = DeveloperIdLeafOid -> "developer_id_leaf" \in code
      [] c[1] = "intermediate_extension" /\ c[2] = DeveloperIdCaOid
           -> "developer_id_ca" \in code
      [] OTHER -> "else" \in code

\* README of the daemon: pinned, Developer ID, or Mac App Store.
IsTheProduct(code) ==
    \/ "pinned" \in code
    \/ {"anchored", "named"} \cup DeveloperId \subseteq code
    \/ {"anchored", "named", "app_store"} \subseteq code

OnlyTheProductMeets(c) == \A code \in Codes : Holds(c, code) => IsTheProduct(code)

\* A requirement the README of the daemon allows: it compiles, asks for nothing
\* the parser does not know, is not nested too deep, has no always and no !, and
\* only the product's own code meets it.
RECURSIVE Plain(_)
Plain(c) ==
    CASE c[1] \in {"true", "not"} -> FALSE
      [] c[1] \in {"and", "or"} -> Plain(c[2]) /\ Plain(c[3])
      [] c[1] = "raw" -> c[2][1] < 24
      [] OTHER -> TRUE
IsSound(c) == c # NoCompile /\ OnlyTheProductMeets(c)
IsAcceptable(c) == IsSound(c) /\ Depth(c) <= MaxDepth /\ Plain(c)
=============================================================================
