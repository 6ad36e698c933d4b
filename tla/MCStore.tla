------------------------------ MODULE MCStore ------------------------------
(***************************************************************************)
(* Store for TLC.  A command is written with the fields its action reads;  *)
(* the others are fixed.  alice is an organization administrator, bob is   *)
(* not.  Five references are the shortest way from nothing to a revised    *)
(* draft: save, submit, review, approve, revise.                           *)
(***************************************************************************)
EXTENDS Store, TLC

CONSTANTS r1, r2, r3, r4, r5, long, i1, i2, alice, bob, org, other

MCRefs == {r1, r2, r3, r4, r5}
MCLongRefs == {long}
MCIds == {i1, i2}
MCActors == {alice, bob}
MCOrgs == {org, other}

(* "bad" is refused, "partial" can be stored but not approved.             *)
MCContents == {"full", "partial", "bad"}
MCValid == {"full", "partial"}
MCApprovable == {"full"}

Make(ref, action, id, content, expected, actor) ==
  [ref |-> ref, org |-> org, action |-> action, id |-> id, content |-> content,
   expected |-> expected, actor |-> actor, canApprove |-> actor = alice]

(* Who edits and submits makes no difference, so bob does; what an         *)
(* administrator is needed for is tried by both.                           *)
CommandsFor(ref) ==
  {Make(ref, "save", None, content, 0, bob) : content \in MCContents}
  \cup {Make(ref, "save", id, content, n, bob) :
          id \in MCIds, content \in MCContents, n \in 1 .. 4}
  \cup {Make(ref, action, id, "bad", n, bob) :
          action \in {"submit", "revise"}, id \in MCIds, n \in 1 .. 4}
  \cup {Make(ref, action, id, "bad", n, actor) :
          action \in {"review", "approve", "return"},
          id \in MCIds, n \in 1 .. 4, actor \in MCActors}
  \cup {Make(ref, "submit", None, "bad", 0, bob),
        Make(ref, "other", i1, "bad", 1, alice),
        [Make(ref, "save", None, "full", 0, alice) EXCEPT !.org = other],
        [Make(ref, "save", None, "full", 0, alice) EXCEPT !.actor = None]}

MCCommands ==
  UNION {CommandsFor(ref) : ref \in MCRefs} \cup {Make(long, "save", None, "full", 0, alice)}

Symmetry == Permutations(MCRefs) \cup Permutations(MCIds)
=============================================================================
