------------------------ MODULE MCStochasticCampaign ------------------------
(***************************************************************************)
(* One program of each stratum, with one child or two.                     *)
(***************************************************************************)
EXTENDS StochasticCampaign

MCDraws ==
    {[children |-> c, target |-> 1, direct |-> 1, recursive |-> 1, judge |-> 1] :
        c \in {<<1>>, <<1, 1>>}}

NoCache == {EmptyDict}
=============================================================================
