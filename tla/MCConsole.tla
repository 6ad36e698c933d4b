------------------------------ MODULE MCConsole ------------------------------
(***************************************************************************)
(* Console for TLC: one forecast is created and edited, which takes three  *)
(* references when one attempt is repeated, and the repeated creation      *)
(* needs the second identifier.  Two reloads that overtake each other are  *)
(* under way at most, and a third can follow them.  One button of the      *)
(* detail is pressed, to submit or to review: an edit that is tried twice  *)
(* leaves no reference for another, and nothing is approved, returned or   *)
(* revised that was not submitted first.                                   *)
(***************************************************************************)
EXTENDS Console, TLC

CONSTANTS r1, r2, r3, i1, i2, t1, alice, org

MCRefs == {r1, r2, r3}
MCIds == {i1, i2}
MCTabs == {t1}
MCActors == {alice}
MCUser == [t \in MCTabs |-> alice]
MCContents == {"full"}
MCOrgs == {org}

MCActions == {"save", "submit", "review"}

MCCommands ==
  [ref : MCRefs, org : MCOrgs, action : MCActions,
   id : MCIds \cup {None}, content : MCContents, expected : 0 .. 3,
   actor : MCActors, canApprove : {TRUE}]

FewReloads == \A t \in Tabs : \A r, s \in reloads[t] : r.generation <= s.generation + 1

PressedOnce ==
  \A c, d \in published \cup {a.cmd : a \in UNION {attempts[t] : t \in Tabs}} :
    /\ c.action \in MCActions
    /\ c.action # "save" /\ d.action # "save" => c = d

Symmetry == Permutations(MCRefs) \cup Permutations(MCIds)
=============================================================================
