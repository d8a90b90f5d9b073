----------------------------- MODULE RlmProgram -----------------------------
(***************************************************************************)
(* redco.analysis.rlm_raf: the recursive-language-model workload on which   *)
(* the repository's campaigns compare full with sliced dynamic replay.  A   *)
(* root turn decides between answering directly and calling children whose *)
(* outputs are joined before the root answers; both routes produce the     *)
(* same answer artifact, which a judge reads.                              *)
(*                                                                         *)
(* An artifact's name is a tuple of its stem and, for the artifacts of a   *)
(* child, the child's number.  The text is three characters in place of a  *)
(* hundred, and tokens that only tell programs apart are small numbers.    *)
(***************************************************************************)
EXTENDS DynamicReplay

CONSTANTS
    ProgramCount,    \* programs of a campaign
    Alternatives,    \* alternatives_per_program
    Draws            \* what the random source may give for one program

ASSUME CampaignAssumption ==
    /\ ProgramCount \in Nat \ {0}
    /\ Alternatives \in Nat \ {0}

Routes == {"direct", "recurse"}
Roles  == {"environment", "root_policy", "subcall_policy", "judge"}

(* A draw is what the generator takes from its random source: the tokens   *)
(* of the turns, of each child and of the judge.                           *)
ChildCalls(draw) == Len(draw.children)

Ints(numbers) == JList([i \in DOMAIN numbers |-> JInt(numbers[i])])

NoWork          == [cpu_units |-> 0, generated_tokens |-> 0, judge_calls |-> 0]
Cpu(units)      == [NoWork EXCEPT !.cpu_units = units]
Tokens(count)   == [NoWork EXCEPT !.generated_tokens = count]

-----------------------------------------------------------------------------
(* Templates.  Dependencies are positions; inspect-context is the fourth.  *)
InspectContext == 4

Step(kind, param, inputs, output, guard, work) ==
    [kind |-> kind, param |-> param, inputs |-> inputs, output |-> output,
     dependencies |-> {}, guard |-> guard, policy |-> NoPolicy,
     role |-> "environment", work |-> work]

Turn(prompt, output, seed, dependencies, guard, role, tokens) ==
    [kind |-> "identity", param |-> None, inputs |-> <<prompt>>, output |-> output,
     dependencies |-> dependencies, guard |-> guard,
     policy |-> [prompt |-> prompt, config |-> "sample-proxy", seed |-> seed],
     role |-> role, work |-> Tokens(tokens)]

When(recursive) == [artifact |-> <<"is_recursive">>, equals |-> JBool(recursive)]
Deep   == When(TRUE)
Direct == When(FALSE)

NeedleOfRecursion == 9

(* Mutant of RoutePrompt: a direct prompt is not kept clear of the needle. *)
RoutePromptUnshifted(index, route) ==
    IF route = "recurse" THEN Ints(<<NeedleOfRecursion, index % 101>>)
                         ELSE Ints(<<0, NeedleOfRecursion + (index % 101)>>)

RoutePrompt(index, route) ==
    IF route = "recurse" THEN Ints(<<NeedleOfRecursion, index % 101>>)
                         ELSE Ints(<<0, 100 + (index % 101)>>)

InitialState(index, route, draw) ==
    LET children == {<<"child_prompt", c>> : c \in 1..ChildCalls(draw)}
    IN  [name \in {<<"route_prompt">>, <<"task_text">>, <<"base_prompt">>} \cup children |->
            CASE name = <<"route_prompt">> -> RoutePrompt(index, route)
              [] name = <<"task_text">>    -> JStr(<<"t", "x", "t">>)
              [] name = <<"base_prompt">>  -> Ints(<<1, 20, index % 101>>)
              [] OTHER                     -> Ints(<<1, 29 + name[2], index % 101>>)]

Opening(index, draw) ==
    <<Turn(<<"route_prompt">>, <<"route">>, 10000 + index, {}, NoGuard, "root_policy",
           draw.target),
      Step("contains", JInt(NeedleOfRecursion), <<<<"route">>>>, <<"is_recursive">>, NoGuard,
           Cpu(1)),
      Step("partition", JInt(2), <<<<"task_text">>>>, <<"chunks">>, NoGuard, Cpu(3)),
      Step("select", JInt(0), <<<<"chunks">>>>, <<"first_chunk">>, NoGuard, Cpu(1)),
      Turn(<<"base_prompt">>, <<"answer">>, 20000 + index, {InspectContext}, Direct,
           "root_policy", draw.direct)>>

Child(index, draw, c) ==
    <<Turn(<<"child_prompt", c>>, <<"child", c>>, 30000 + index * 10 + c - 1,
           {InspectContext}, Deep, "subcall_policy", draw.children[c]),
      Step("identity", None, <<<<"child", c>>>>, <<"normalized", c>>, Deep, Cpu(2))>>

(* Mutant of Closing: the root's recursive answer is not guarded. *)
ClosingUnguarded(index, draw) ==
    LET calls == ChildCalls(draw)
    IN  <<Step("list_concat", None, [c \in 1..calls |-> <<"normalized", c>>],
               <<"aggregate">>, Deep, Cpu(calls)),
          Turn(<<"aggregate">>, <<"answer">>, 40000 + index, {}, NoGuard, "root_policy",
               draw.recursive),
          [Step("contains", JInt(1), <<<<"answer">>>>, <<"reward">>, NoGuard, NoWork)
              EXCEPT !.role = "judge",
                     !.work = [Tokens(draw.judge) EXCEPT !.judge_calls = 1]],
          Step("final", None, <<<<"reward">>>>, <<"final">>, NoGuard, Cpu(1))>>

Closing(index, draw) ==
    LET calls == ChildCalls(draw)
    IN  <<Step("list_concat", None, [c \in 1..calls |-> <<"normalized", c>>],
               <<"aggregate">>, Deep, Cpu(calls)),
          Turn(<<"aggregate">>, <<"answer">>, 40000 + index, {}, Deep, "root_policy",
               draw.recursive),
          [Step("contains", JInt(1), <<<<"answer">>>>, <<"reward">>, NoGuard, NoWork)
              EXCEPT !.role = "judge",
                     !.work = [Tokens(draw.judge) EXCEPT !.judge_calls = 1]],
          Step("final", None, <<<<"reward">>>>, <<"final">>, NoGuard, Cpu(1))>>

(* The templates of the children, a call and its normalisation in turn. *)
Subcalls(index, draw) ==
    [n \in 1..(2 * ChildCalls(draw)) |->
        Child(index, draw, (n + 1) \div 2)[IF n % 2 = 1 THEN 1 ELSE 2]]

(* _rlm_program *)
ProgramOf(index, route, draw) ==
    [initial  |-> InitialState(index, route, draw),
     commands |-> Opening(index, draw) \o Subcalls(index, draw) \o Closing(index, draw),
     terminal |-> <<"final">>]

-----------------------------------------------------------------------------
(* The intervention: even alternatives leave the route, odd ones keep it.  *)
Target == 1

Leaves(alternative) == alternative % 2 = 0

(* _replacement_action *)
ReplacementAction(route, alternative) ==
    LET recurses == (route = "recurse") # Leaves(alternative)
    IN  Ints(<<IF recurses THEN NeedleOfRecursion ELSE 0, 200 + alternative>>)

CampaignReplacements == {ReplacementAction(r, k) : r \in Routes, k \in 0..(Alternatives - 1)}

(* TopologyDivergence: the templates a branch adds and those it removes. *)
Added(outcome)    == outcome.active \ original.active
Removed(outcome)  == original.active \ outcome.active
Diverged(outcome) == outcome.active # original.active

(* A branch, or the original run, is recursive if the root asked children. *)
TakesRecursiveRoute(active) ==
    \E e \in active : Cmd(e).guard = Deep
=============================================================================
