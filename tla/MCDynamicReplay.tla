--------------------------- MODULE MCDynamicReplay --------------------------
(***************************************************************************)
(* Small instances of DynamicReplay.  TopologyPrograms: a target, a check  *)
(* of it, and three templates that read, are guarded by, depend on or join *)
(* what came before.  PolicyPrograms: policy calls whose prompts are       *)
(* initial, the target's output, or another policy's action.               *)
(***************************************************************************)
EXTENDS DynamicReplay

Template(kind, param, inputs, output, dependencies, guard, policy) ==
    [kind |-> kind, param |-> param, inputs |-> inputs, output |-> output,
     dependencies |-> dependencies, guard |-> guard, policy |-> policy,
     role |-> IF policy = NoPolicy THEN "environment" ELSE "subcall_policy"]

Plain(kind, param, inputs, output) ==
    Template(kind, param, inputs, output, {}, NoGuard, NoPolicy)

Guard(artifact, value) == [artifact |-> artifact, equals |-> value]

One == JInt(1)
Two == JInt(2)

-----------------------------------------------------------------------------
Turn  == Plain("identity", None, <<"a">>, "route")
Check == Plain("verify", One, <<"route">>, "same")

ThirdTemplates ==
    {Template("identity", None, <<i>>, "x", {}, g, NoPolicy) :
        i \in {"a", "route"},
        g \in {NoGuard, Guard("same", JBool(TRUE)), Guard("same", JBool(FALSE))}}

FourthTemplates ==
    {Template("add", None, <<i, "a">>, o, gd[2], gd[1], NoPolicy) :
        i \in {"route", "x"}, o \in {"x", "y"},
        gd \in {<<NoGuard, {}>>, <<NoGuard, {3}>>, <<Guard("x", One), {}>>,
                <<Guard("same", JBool(FALSE)), {}>>}}

FifthTemplates ==
    {Template("final", None, <<"x">>, "z", {}, NoGuard, NoPolicy),
     Template("final", None, <<"a">>, "z", {3}, NoGuard, NoPolicy),
     Template("final", None, <<"a">>, "z", {}, Guard("same", JBool(TRUE)), NoPolicy)}

TopologyPrograms ==
    {[initial |-> [a |-> One], commands |-> <<Turn, Check, c3, c4, c5>>, terminal |-> "z"] :
        c3 \in ThirdTemplates, c4 \in FourthTemplates, c5 \in FifthTemplates}

-----------------------------------------------------------------------------
Policy(prompt, seed) == [prompt |-> prompt, config |-> "decode", seed |-> seed]

Call(prompt, seed, output, guard) ==
    Template("identity", None, <<prompt>>, output, {}, guard, Policy(prompt, seed))

FirstCalls == {Call("p", 1, "act", NoGuard), Plain("identity", None, <<"p">>, "act")}

Contains9 == Plain("contains", JInt(9), <<"act">>, "deep")

LaterCalls(prompts, seed, guards, output) ==
    {Call(p, seed, output, g) : p \in prompts, g \in guards}

Deep(b) == Guard("deep", JBool(b))

PolicyPrograms ==
    {[initial |-> [p |-> JList(<<One>>)], commands |-> <<c1, Contains9, c3, c4, c5>>,
      terminal |-> "answer"] :
        c1 \in FirstCalls,
        c3 \in LaterCalls({"p", "act"}, 1, {NoGuard, Deep(TRUE), Deep(FALSE)}, "sub"),
        c4 \in LaterCalls({"p", "act", "sub"}, 2, {NoGuard, Deep(FALSE)}, "answer"),
        c5 \in {Plain("list_concat", None, <<"answer", "act">>, "log"),
                Call("act", 2, "answer", Deep(TRUE)),
                Call("sub", 1, "log", NoGuard)}}

(* A guard, an input, a dependency and a prompt that do not exist yet, a   *)
(* policy call that is not a policy's event, a shadowed initial artifact   *)
(* and an unproduced terminal output.                                      *)
RejectedPrograms ==
    {[initial |-> [a |-> One], commands |-> <<c>>, terminal |-> "x"] :
        c \in {Template("identity", None, <<"a">>, "x", {}, Guard("x", One), NoPolicy),
               Template("identity", None, <<"a">>, "x", {1}, NoGuard, NoPolicy),
               Template("identity", None, <<"a">>, "x", {}, NoGuard, Policy("b", 1)),
               [Template("identity", None, <<"a">>, "x", {}, NoGuard, Policy("a", 1))
                   EXCEPT !.role = "judge"],
               Plain("identity", None, <<"x">>, "x"),
               Plain("identity", None, <<"a">>, "a"),
               Plain("identity", None, <<"a">>, "y")}}

-----------------------------------------------------------------------------
MCPrograms == TopologyPrograms \cup PolicyPrograms \cup RejectedPrograms

(* 1 and [1] are targets' own values; [9] flips Contains9; a list makes     *)
(* add raise, an integer makes a prompt raise.                             *)
MCReplacements == {One, Two, JList(<<One>>), JList(<<JInt(9)>>)}

(* Nothing, or one action recorded by an earlier run that the sampler      *)
(* would not give.                                                         *)
MCCaches ==
    {EmptyDict,
     [k \in {[prompt |-> JList(<<JInt(9)>>), config |-> "decode", seed |-> 1]} |-> <<Two>>]}

(* The prompt with the seed appended. *)
MCSampler(prompt, seed) == Append(prompt[2], JInt(seed))

-----------------------------------------------------------------------------
(* The producer of sub leaves the branch unless deep is FALSE; its readers, a *)
(* command and a policy call that has it as its prompt, are reused.           *)
VanishingInputPrograms ==
    {[initial |-> [p |-> JList(<<One>>)],
      commands |-> <<Call("p", 1, "act", NoGuard), Contains9,
                     Template("identity", None, <<"p">>, "sub", {}, Deep(FALSE), NoPolicy),
                     Plain("identity", None, <<"sub">>, "y"),
                     Call("sub", 2, "answer", NoGuard)>>,
      terminal |-> "answer"]}

(* Template 4 is new in the branch and reads y, whose producer in the      *)
(* original branch comes after it; the branch's own producer is inactive.  *)
LaterOutputPrograms ==
    {[initial |-> [a |-> One],
      commands |-> <<Turn, Check,
                     Template("identity", None, <<"a">>, "y", {}, Guard("route", JInt(3)),
                              NoPolicy),
                     Template("identity", None, <<"y">>, "x", {},
                              Guard("same", JBool(FALSE)), NoPolicy),
                     Template("identity", None, <<"route">>, "y", {}, Guard("route", One),
                              NoPolicy),
                     Plain("final", None, <<"a">>, "z")>>,
      terminal |-> "z"]}
=============================================================================
