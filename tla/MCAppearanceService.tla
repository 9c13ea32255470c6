------------------------ MODULE MCAppearanceService ------------------------
(* A user with two sub-profiles and one without, one or both in front, on  *)
(* a device that has a font weight of its own.                             *)
EXTENDS AppearanceService, TLC

TwoUsers == {100, 101}
ThreeContexts ==
    {[userId |-> 100, subProfileId |-> 1], [userId |-> 100, subProfileId |-> 2], Base(101)}
FirstSubProfile == (100 :> [userId |-> 100, subProfileId |-> 1]) @@ (101 :> Base(101))
SomeHaveParams == {{Base(100), [userId |-> 100, subProfileId |-> 1]}}
UpgradeOrSeveral ==
    {[active |-> {100}, first |-> TRUE], [active |-> {100, 101}, first |-> FALSE]}
=============================================================================
