------------------------------ MODULE MCOutbox ------------------------------
(***************************************************************************)
(* Outbox for TLC: three commands, of which the first two can change the   *)
(* forecast and every one can be refused (r2 and r3 when they come before  *)
(* the forecast or after the revision they expect).                        *)
(***************************************************************************)
EXTENDS Outbox

CONSTANTS r1, r2, r3, i1, bob, org

MCRefs == {r1, r2, r3}
MCNoRefs == {}
MCIds == {i1}
MCActors == {bob}
MCContents == {"full"}
MCOrgs == {org}

Make(ref, action, id, expected) ==
  [ref |-> ref, org |-> org, action |-> action, id |-> id, content |-> "full",
   expected |-> expected, actor |-> bob, canApprove |-> FALSE]

MCCommands ==
  {Make(r1, "save", None, 0), Make(r2, "save", i1, 1), Make(r3, "submit", i1, 2)}
=============================================================================
