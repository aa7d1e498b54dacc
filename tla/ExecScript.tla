------------------------------- MODULE ExecScript -------------------------------
(***************************************************************************)
(* Reading what a script of Codex' "exec" tool runs, without running it    *)
(* (codex/transcript.rs): its one tool, the command and the directory of   *)
(* the command it runs last, and the patch it applies.                     *)
(*                                                                         *)
(* The script is read as the words of JavaScript: names, strings and       *)
(* signs.  Only strings and the names of constants that are strings are    *)
(* understood; anything else is not known.  A string that cannot be        *)
(* decoded, as one with an expression in it, is "?".                       *)
(***************************************************************************)
EXTENDS Naturals, Sequences, FiniteSets, SequencesExt

CONSTANTS
    Statements,    \* what scripts are made of
    MaxStatements

VARIABLES
    script, words, \* its statements, and their words
    read           \* what is read of it: tool, workdir, cmd, patch

scriptVars == <<script, words, read>>

Unknown == "?"
Name(n) == [kind |-> "name", is |-> n]
Text(t) == [kind |-> "string", is |-> t, ends |-> FALSE]
TextAtEnd(t) == [kind |-> "string", is |-> t, ends |-> TRUE]   \* at the end of its line
Sign(c) == [kind |-> "sign", is |-> c]
-----------------------------------------------------------------------------
(* What a script looks like.  A value is written as a string, as the name  *)
(* of a constant, or as a call that computes it.                           *)

Written(value) ==
    IF value.as = "string" THEN <<Text(value.is)>>
    ELSE IF value.as = "constant" THEN <<Name(value.is)>>
    ELSE <<Name("join"), Sign("("), Text(value.is), Sign(")")>>

\* A property can be named like the constant it is given, which is then not written;
\* its value can be in an object of its own.
WrittenEntry(e) ==
    IF e.short THEN <<Name(e.key)>>
    ELSE IF e.inner THEN <<Name("env"), Sign(":"), Sign("{"), Text(e.key), Sign(":")>> \o Written(e.value) \o <<Sign("}")>>
    ELSE <<Text(e.key), Sign(":")>> \o Written(e.value)

WrittenEntries(entries) ==
    FoldLeft(LAMBDA all, e : (IF all = <<>> THEN <<>> ELSE all \o <<Sign(",")>>) \o WrittenEntry(e), <<>>, entries)

Call(tool) == <<Name("tools"), Sign("."), Name(tool), Sign("(")>>
Closed == <<Sign(")"), Sign(";")>>

\* A constant's declaration ends at a semicolon, at the end of the line, or goes on.
tokenize_javascript(statement) ==
    CASE statement.do = "const" ->
            LET value == statement.value.is
            IN  <<Name("const"), Name(statement.name), Sign("=")>>
                \o (CASE statement.end = ";" -> <<Text(value), Sign(";")>>
                      [] statement.end = "line" -> <<TextAtEnd(value)>>
                      [] statement.end = "more" -> <<Text(value), Sign("+"), Text("/sub"), Sign(";")>>)
      [] statement.do = "exec" ->
            Call("exec_command") \o <<Sign("{")>> \o WrittenEntries(statement.entries) \o <<Sign("}")>> \o Closed
      [] statement.do = "patch" -> Call("apply_patch") \o Written(statement.value) \o Closed
-----------------------------------------------------------------------------
(* Reading.                                                                *)

Word(tokens, i) == IF i \in DOMAIN tokens THEN tokens[i] ELSE [kind |-> "none", is |-> ""]
identifier_at(tokens, i, n) == Word(tokens, i) = Name(n)
is_punctuation(tokens, i, c) == Word(tokens, i) = Sign(c)

\* A string that cannot be decoded has no value.
decode_javascript_string(t) == IF t.is = Unknown THEN {} ELSE {t.is}

Highest(set) == CHOOSE i \in set : \A j \in set : j <= i
IfAny(set, Of(_)) == IF set = {} THEN {} ELSE Of(Highest(set))

\* Where a constant is declared that is a string and nothing more, and can be decoded.
const_string_bindings(tokens) ==
    LET complete(i) == \/ i + 4 > Len(tokens)
                       \/ is_punctuation(tokens, i + 4, ";") \/ is_punctuation(tokens, i + 4, ",")
                       \/ Word(tokens, i + 4).kind = "name" /\ Word(tokens, i + 3).ends
    IN  {i \in DOMAIN tokens :
            /\ identifier_at(tokens, i, "const") /\ Word(tokens, i + 1).kind = "name"
            /\ is_punctuation(tokens, i + 2, "=") /\ Word(tokens, i + 3).kind = "string" /\ complete(i)
            /\ decode_javascript_string(Word(tokens, i + 3)) # {}}

\* The value of a word, given what was declared before it.
ValueAt(tokens, i) ==
    LET declared == {j \in const_string_bindings(tokens) : j < i /\ Word(tokens, j + 1) = Word(tokens, i)}
        Of(j) == decode_javascript_string(Word(tokens, j + 3))
    IN  CASE Word(tokens, i).kind = "string" -> decode_javascript_string(Word(tokens, i))
          [] Word(tokens, i).kind = "name" -> IfAny(declared, Of)
          [] OTHER -> {}

Nesting(tokens, from, to, open, close) ==
    LET In(signs) == {i \in from..to : Word(tokens, i).kind = "sign" /\ Word(tokens, i).is \in signs}
    IN  Cardinality(In(open)) - Cardinality(In(close))

\* Mutant: the first closing brace ends an object.
find_first_brace(tokens, opening) ==
    {i \in opening..Len(tokens) : is_punctuation(tokens, i, "}") /\ \A j \in opening..(i - 1) : ~is_punctuation(tokens, j, "}")}

\* The brace that closes the one that opens.
find_object_end(tokens, opening) ==
    LET Closes(i) == is_punctuation(tokens, i, "}") /\ Nesting(tokens, opening, i, {"{"}, {"}"}) = 0
    IN  {i \in opening..Len(tokens) : Closes(i) /\ \A j \in opening..(i - 1) : ~Closes(j)}

\* What one of the names is given in the object itself: the last time it is, with a value
\* that ends there, or by a constant of that name.
extract_object_string_property(tokens, opening, closing, names) ==
    LET Ends(i) == i = closing \/ is_punctuation(tokens, i, ",")
        Key(i) == /\ i = opening + 1 \/ is_punctuation(tokens, i - 1, ",")
                  /\ Word(tokens, i).kind \in {"name", "string"} /\ Word(tokens, i).is \in names
                  /\ Nesting(tokens, opening + 1, i - 1, {"(", "[", "{"}, {")", "]", "}"}) = 0
        Valued(i) == is_punctuation(tokens, i + 1, ":")
        Gives(i) == IF Valued(i) THEN Ends(i + 3) ELSE Word(tokens, i).kind = "name" /\ Ends(i + 1)
        Of(i) == ValueAt(tokens, IF Valued(i) THEN i + 2 ELSE i)
    IN  IfAny({i \in (opening + 1)..(closing - 1) : Key(i) /\ Gives(i)}, Of)

CallAt(tokens, i, tool) ==
    /\ identifier_at(tokens, i, "tools") /\ is_punctuation(tokens, i + 1, ".")
    /\ identifier_at(tokens, i + 2, tool) /\ is_punctuation(tokens, i + 3, "(")

\* Of the commands that are run, the last of which it is known what the names are given.
extract_custom_exec(tokens, names) ==
    LET Of(i) == UNION {extract_object_string_property(tokens, i + 4, c, names) \ {""} : c \in find_object_end(tokens, i + 4)}
        calls == {i \in DOMAIN tokens : CallAt(tokens, i, "exec_command") /\ is_punctuation(tokens, i + 4, "{")}
    IN  IfAny({i \in calls : Of(i) # {}}, Of)

\* The last patch that is applied, if it is known.
extract_custom_apply_patch_input(tokens) ==
    LET Of(i) == ValueAt(tokens, i + 4) \ {""}
    IN  IfAny({i \in DOMAIN tokens : CallAt(tokens, i, "apply_patch")}, Of)

\* The tool a script uses, when it uses one only.
single_code_mode_tool(tokens) ==
    LET used == {Word(tokens, i + 2).is : i \in {j \in DOMAIN tokens :
                    Word(tokens, j + 2).kind = "name" /\ CallAt(tokens, j, Word(tokens, j + 2).is)}}
    IN  {t \in used : used = {t}}

Reading(tokens) ==
    [tool |-> single_code_mode_tool(tokens),
     workdir |-> extract_custom_exec(tokens, {"workdir"}),
     cmd |-> extract_custom_exec(tokens, {"cmd", "command"}),
     patch |-> extract_custom_apply_patch_input(tokens)]
-----------------------------------------------------------------------------
(* Scripts.  A name is declared once, and before it is used.               *)

Declares(name) == {i \in DOMAIN script : script[i].do = "const" /\ script[i].name = name}
Names(s) == CASE s.do = "const" -> {s.name}
              [] s.do = "exec" -> {s.entries[i].value.is : i \in {j \in DOMAIN s.entries : s.entries[j].value.as = "constant"}}
              [] s.do = "patch" -> IF s.value.as = "constant" THEN {s.value.is} ELSE {}

ScriptInit == script = <<>> /\ words = <<>> /\ read = Reading(words)

Add(statement) ==
    /\ Len(script) < MaxStatements
    /\ statement.do = "const" => \A i \in DOMAIN script : statement.name \notin Names(script[i])
    /\ script' = Append(script, statement)
    /\ words' = words \o tokenize_javascript(statement)
    /\ read' = Reading(words')

ScriptNext == \E statement \in Statements : Add(statement)
-----------------------------------------------------------------------------
(* Properties.                                                             *)

\* What a value is when the script runs, if that can be seen.
Evaluated(value) ==
    CASE value.as = "string" -> {value.is} \ {Unknown}
      [] value.as = "constant" -> {script[i].value.is : i \in {j \in Declares(value.is) : script[j].end # "more"}} \ {Unknown}
      [] value.as = "call" -> {}

Given(entries, names) ==
    UNION {Evaluated(entries[i].value) : i \in {j \in DOMAIN entries : entries[j].key \in names /\ ~entries[j].inner}} \ {""}

\* The command, its directory and the patch that are read of a script are those it
\* passes, wherever the constants and the objects of its arguments end
\* (extract_custom_exec_workdir, extract_custom_exec_command_args,
\* extract_custom_apply_patch_input, single_code_mode_tool).
ScriptIsRead ==
    LET Does(do) == {i \in DOMAIN script : script[i].do = do}
        Workdir(i) == Given(script[i].entries, {"workdir"})
        Cmd(i) == Given(script[i].entries, {"cmd", "command"})
        Patch(i) == Evaluated(script[i].value) \ {""}
        tools == {script[i].do : i \in DOMAIN script} \ {"const"}
    IN  /\ read.workdir = IfAny({i \in Does("exec") : Workdir(i) # {}}, Workdir)
        /\ read.cmd = IfAny({i \in Does("exec") : Cmd(i) # {}}, Cmd)
        /\ read.patch = IfAny(Does("patch"), Patch)
        /\ tools = {"exec"} <=> read.tool = {"exec_command"}
        /\ tools = {"patch"} <=> read.tool = {"apply_patch"}
=============================================================================
