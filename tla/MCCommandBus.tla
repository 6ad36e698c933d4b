---------------------------- MODULE MCCommandBus ----------------------------
(***************************************************************************)
(* CommandBus for TLC: alice (an administrator) and bob edit one forecast  *)
(* through the console while another program publishes on the same stream. *)
(* r2 and r3 were prepared on the same revision; r4 is used by alice, by   *)
(* bob and by a message that claims to be from alice.                      *)
(***************************************************************************)
EXTENDS CommandBus

CONSTANTS r1, r2, r3, r4, long, i1, alice, bob, bus, org, other

MCRefs == {r1, r2, r3, r4}
MCIds == {i1}
MCActors == {alice, bob, bus}
MCAdmins == {alice}
MCOrgs == {org, other}
MCContents == {"full", "edited", "bad", "altered"}
MCValid == {"full", "edited", "altered"}
MCApprovable == {"full"}
MCSealed == {"full", "edited", "bad"}

Make(ref, action, id, content, expected, actor) ==
  [ref |-> ref, org |-> org, action |-> action, id |-> id, content |-> content,
   expected |-> expected, actor |-> actor, canApprove |-> FALSE]

Create == Make(r1, "save", None, "full", 0, bob)
CreateAltered == Make(r1, "save", None, "altered", 0, bob)
Submit == Make(r2, "submit", i1, "bad", 1, bob)
Edit == Make(r3, "save", i1, "edited", 1, alice)
Review(actor) == Make(r4, "review", i1, "bad", 2, actor)

MCRequests == {Create, CreateAltered, Submit, Edit, Review(alice), Review(bob)}

Claimed(c) == [c EXCEPT !.canApprove = TRUE]

MCBusMessages ==
  {[cmd |-> Claimed(Review(alice)), sealed |-> FALSE, subject |-> "review"],
   [cmd |-> [Create EXCEPT !.org = other], sealed |-> FALSE, subject |-> "save"],
   [cmd |-> CreateAltered, sealed |-> FALSE, subject |-> "save"],
   [cmd |-> Submit, sealed |-> FALSE, subject |-> "other"]}

(* Every command the consumer can hand to Apply.                           *)
MCCommands ==
  LET sent == MCRequests \cup {m.cmd : m \in MCBusMessages}
  IN {[c EXCEPT !.actor = actor, !.canApprove = can] :
        c \in sent, actor \in MCActors, can \in BOOLEAN}

MCNoRefs == {}
MCLongRefs == {long}

(* A request under a reference the store refuses as too long.              *)
CreateLong == [Create EXCEPT !.ref = long]
MCLongRequest == {CreateLong}
MCAllRequests == MCRequests \cup {CreateLong}
MCAllCommands == MCCommands \cup {CreateLong}
MCNoMessages == {}
=============================================================================
