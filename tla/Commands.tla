------------------------------ MODULE Commands ------------------------------
(***************************************************************************)
(* The restricted typed-command substrate of redco.env.commands: ten pure  *)
(* commands over JSON values, each of which returns a value or raises.     *)
(*                                                                         *)
(* A JSON value is a tagged pair: <<"bool", b>>, <<"int", n>>,             *)
(* <<"str", s>> with s a sequence of characters, <<"list", l>> with l a    *)
(* sequence of values, or <<"none">>.  The tag matters: Python's `==` and  *)
(* `in` identify True with 1, canonical JSON does not.  Floats and         *)
(* mappings are left out: no command takes either apart.                   *)
(*                                                                         *)
(* An artifact state (a Python dict) is a function whose domain is the set *)
(* of keys the dict holds.                                                 *)
(***************************************************************************)
EXTENDS Integers, Sequences, SequencesExt

JBool(b) == <<"bool", b>>
JInt(n) == <<"int", n>>
JStr(s)  == <<"str", s>>
JList(l) == <<"list", l>>
None    == <<"none">>

(* The outcome of a command that raises; no JSON value equals it. *)
Raised == <<"raised">>

IsBool(v) == v[1] = "bool"
IsInt(v)  == v[1] = "int"
IsStr(v)  == v[1] = "str"
IsList(v) == v[1] = "list"

(* Dicts: {}, dict[key] = value, and dict.update(other). *)
IsDict(d) == d = [k \in DOMAIN d |-> d[k]]

EmptyDict == [k \in {} |-> None]

Put(dict, key, value) ==
    [k \in DOMAIN dict \cup {key} |-> IF k = key THEN value ELSE dict[k]]

Update(dict, other) ==
    [k \in DOMAIN dict \cup DOMAIN other |->
        IF k \in DOMAIN other THEN other[k] ELSE dict[k]]

-----------------------------------------------------------------------------
(* Python equality: a bool is the integer 0 or 1, also inside a list. *)
ScalarOf(v) == IF IsBool(v) THEN JInt(IF v[2] THEN 1 ELSE 0) ELSE v

PyValue(v) == IF IsList(v) THEN JList([i \in DOMAIN v[2] |-> ScalarOf(v[2][i])])
                           ELSE ScalarOf(v)

PyEqual(u, v) == PyValue(u) = PyValue(v)

(* sequence[index], negative indices counting from the end. *)
InIndexRange(list, index) == -Len(list) <= index /\ index < Len(list)

ItemAt(list, index) ==
    list[IF index >= 0 THEN index + 1 ELSE Len(list) + index + 1]

(* range(0, len(text), size) slices the text; the last chunk may be short. *)
Chunks(text, size) ==
    [k \in 1..((Len(text) + size - 1) \div size) |->
        JStr(SubSeq(text, (k - 1) * size + 1,
                   IF k * size < Len(text) THEN k * size ELSE Len(text)))]

IsSubstring(needle, text) ==
    \E i \in 0..(Len(text) - Len(needle)) :
        SubSeq(text, i + 1, i + Len(needle)) = needle

(* separator.join(texts) *)
Join(separator, texts) ==
    FlattenSeq([i \in DOMAIN texts |->
        (IF i = 1 THEN <<>> ELSE separator) \o texts[i]])

Payloads(values) == [k \in DOMAIN values |-> values[k][2]]

Separator(command) == IF command.param = None THEN JStr(<<>>) ELSE command.param

-----------------------------------------------------------------------------
(* The arity and type checks of execute_command: FALSE where it raises. *)
Applicable(command, values) ==
    LET All(Test(_)) == \A k \in DOMAIN values : Test(values[k])
        Arity(n)     == Len(values) = n
    IN  \/ command.kind \in {"identity", "final", "verify"} /\ Arity(1)
        \/ /\ command.kind = "partition" /\ Arity(1) /\ IsStr(values[1])
           /\ IsInt(command.param) /\ command.param[2] >= 1
        \/ /\ command.kind = "select" /\ Arity(1) /\ IsList(values[1])
           /\ IsInt(command.param)
           /\ InIndexRange(values[1][2], command.param[2])
        \/ command.kind = "concat" /\ IsStr(Separator(command)) /\ All(IsStr)
        \/ command.kind = "list_concat" /\ All(IsList)
        \/ command.kind = "add" /\ All(IsInt)
        \/ /\ command.kind = "contains" /\ Arity(1)
           /\ \/ IsStr(values[1]) /\ IsStr(command.param)
              \/ IsList(values[1])
        \/ command.kind = "if_else" /\ Arity(3) /\ IsBool(values[1])

(* What an applicable command returns. *)
Result(command, values) ==
    CASE command.kind \in {"identity", "final"} -> values[1]
      [] command.kind = "partition" ->
            JList(Chunks(values[1][2], command.param[2]))
      [] command.kind = "select" -> ItemAt(values[1][2], command.param[2])
      [] command.kind = "concat" ->
            JStr(Join(Separator(command)[2], Payloads(values)))
      [] command.kind = "list_concat" -> JList(FlattenSeq(Payloads(values)))
      [] command.kind = "add" ->
            JInt(FoldLeft(LAMBDA x, y : x + y, 0, Payloads(values)))
      [] command.kind = "contains" ->
            JBool(IF IsStr(values[1])
                 THEN IsSubstring(command.param[2], values[1][2])
                 ELSE \E i \in DOMAIN values[1][2] :
                          PyEqual(values[1][2][i], command.param))
      [] command.kind = "if_else" -> IF values[1][2] THEN values[2] ELSE values[3]
      [] command.kind = "verify" -> JBool(PyEqual(values[1], command.param))

(***************************************************************************)
(* execute_command(command, state): look every input up, check arity and   *)
(* types, compute.  A missing input raises before anything is computed.    *)
(***************************************************************************)
ReadSet(command) == {command.inputs[k] : k \in DOMAIN command.inputs}

ExecuteCommand(command, state) ==
    LET values == [k \in DOMAIN command.inputs |-> state[command.inputs[k]]]
    IN  IF ReadSet(command) \subseteq DOMAIN state /\ Applicable(command, values)
        THEN Result(command, values)
        ELSE Raised
=============================================================================
