--------------------------- MODULE MCRlmCampaign ----------------------------
(***************************************************************************)
(* Campaigns of two programs with one to three children each and three     *)
(* alternatives, of which the first and the third leave the route.         *)
(***************************************************************************)
EXTENDS RlmCampaign

Draw(children, target, direct, recursive, judge) ==
    [children |-> children, target |-> target, direct |-> direct,
     recursive |-> recursive, judge |-> judge]

MCDraws ==
    {Draw(<<2>>, 1, 3, 3, 1), Draw(<<1, 2>>, 1, 1, 2, 2), Draw(<<3, 1>>, 2, 3, 1, 1),
     Draw(<<1, 1, 2>>, 2, 1, 1, 1)}

NoCache == {EmptyDict}

(* What the theorems about campaigns assume of the constants holds here. *)
ASSUME SettingAssumption == CampaignSetting
=============================================================================
