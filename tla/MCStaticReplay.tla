--------------------------- MODULE MCStaticReplay ---------------------------
(***************************************************************************)
(* A small instance of StaticReplay: the three-event programs over one     *)
(* initial artifact whose first command copies it and whose others copy or *)
(* verify any earlier artifact, or add any earlier artifact to the latest, *)
(* with at most one explicit dependency each; two programs that use the    *)
(* remaining commands; candidates that the constructor must reject; and    *)
(* campaigns over random programs.                                         *)
(***************************************************************************)
EXTENDS EquivalenceCampaign

Name == <<"a", "x1", "x2", "x3", "x4", "x5", "x6", "x7">>

Command(kind, param, inputs, output, dependencies) ==
    [kind |-> kind, param |-> param, inputs |-> inputs, output |-> output,
     dependencies |-> dependencies]

(* The commands event e may be; names up to Name[e] exist before it runs. *)
Operands(e) ==
    {<<"identity", None, <<Name[i]>>>> : i \in 1..e}
      \cup {<<"verify", JInt(1), <<Name[i]>>>> : i \in 1..e}
      \cup {<<"add", None, <<Name[i], Name[e]>>>> : i \in 1..e}

CommandsAt(e) ==
    {Command(o[1], o[2], o[3], Name[e + 1], deps) :
        o \in Operands(e), deps \in {{}} \cup {{d} : d \in 1..(e - 1)}}

SmallPrograms ==
    {[initial |-> [a |-> JInt(1)], commands |-> <<c1, c2, c3>>, terminal |-> "x3"] :
        c1 \in {c \in CommandsAt(1) : c.kind = "identity"}, c2 \in CommandsAt(2), c3 \in CommandsAt(3)}

Text == <<"l", "o", "n", "g">>

(* Chunk a text, take its last chunk, test it, choose, and join. *)
TextProgram ==
    [initial |-> [a |-> JStr(Text)],
     commands |->
       <<Command("partition", JInt(3), <<"a">>, "x1", {}),
         Command("select", JInt(-1), <<"x1">>, "x2", {1}),
         Command("contains", JStr(<<"g">>), <<"x2">>, "x3", {}),
         Command("if_else", None, <<"x3", "x2", "a">>, "x4", {}),
         Command("list_concat", None, <<"x1", "x1">>, "x5", {}),
         Command("concat", JStr(<<"-">>), <<"x4", "x2">>, "x6", {2}),
         Command("final", None, <<"x6">>, "x7", {5})>>,
     terminal |-> "x7"]

(* Membership in a list is decided by Python equality: True is 1. *)
ListProgram ==
    [initial |-> [a |-> JList(<<JInt(1), JStr(Text)>>)],
     commands |->
       <<Command("contains", JBool(TRUE), <<"a">>, "x1", {}),
         Command("if_else", None, <<"x1", "a", "x1">>, "x2", {}),
         Command("list_concat", None, <<"x2", "a">>, "x3", {}),
         Command("select", JInt(3), <<"x3">>, "x4", {})>>,
     terminal |-> "x4"]

(* Reads a later output; writes an initial artifact; depends on itself.     *)
RejectedPrograms ==
    {[initial |-> [a |-> JInt(1)], commands |-> <<c>>, terminal |-> "x1"] :
        c \in {Command("identity", None, <<"x1">>, "x1", {}),
               Command("identity", None, <<"a">>, "a", {}),
               Command("identity", None, <<"a">>, "x1", {1})}}

MCPrograms == SmallPrograms \cup {TextProgram, ListProgram} \cup RejectedPrograms \cup RandomPrograms

(* Two programs of two events in a campaign, the second reading two names. *)
MCInitialStates == {[p |-> JInt(1)]}
MCOutputs == <<"x1", "x2">>

MCReplacements == {JInt(1), JInt(2), JList(<<JStr(<<"g">>)>>)}
=============================================================================
