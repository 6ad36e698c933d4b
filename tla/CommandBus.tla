------------------------------ MODULE CommandBus ------------------------------
(***************************************************************************)
(* The durable write path: POST /api/commands (Server.command), the        *)
(* TAPROOT stream with its durable consumer guidance-writes, and the       *)
(* consumer goroutine of Server.StartBus, over the store of module Store.  *)
(*                                                                         *)
(* The stream is external: it stores a message, drops a publication whose  *)
(* MsgId it remembers, hands messages out at least once, redelivers what   *)
(* was not acknowledged within AckWait or was refused (Nak), and never     *)
(* redelivers what was acknowledged (Ack) or given up (Term).              *)
(*                                                                         *)
(* The goroutine fetches up to ten messages, and for each of them applies  *)
(* the command and then settles the message.  The process may stop between *)
(* any two of these steps; what it had fetched is lost with it, what Apply *)
(* committed is not (synchronous=FULL).                                    *)
(***************************************************************************)
EXTENDS Store, Sequences

CONSTANTS
  Admins,              \* the organization's administrators, a subset of Actors
  BusActor,            \* the actor given to unsigned commands, "bus:<source>"
  SealedContents,      \* contents whose imported movements carry our originMAC
  Requests,            \* bodies a signed-in user can post, with the user as actor
  BusMessages,         \* what other programs publish on tap.guidance.forecast.>
  BatchSize,           \* 10 in the code
  MaxMessages,         \* bound on the stream
  MaxFaults            \* bound on lost acknowledgements, storage errors, crashes

VARIABLES
  messages,            \* TAPROOT, in stream order
  delivery,            \* what the consumer guidance-writes knows of each message
  recent,              \* the MsgIds inside the stream's deduplication window
  batch,               \* fetched and not yet settled, as stream positions
  verdict,             \* how to settle the head of batch, once it is handled
  accepted,            \* the references a user was answered 202 "queued" for
  faults               \* the faults that happened so far

busVars == <<messages, delivery, recent, batch, verdict, accepted, faults>>
vars == <<storeVars, busVars>>

Message == [cmd : Command, sealed : BOOLEAN, subject : Actions]

ASSUME BusAssumption ==
  /\ Admins \subseteq Actors /\ BusActor \in Actors \ Admins
  /\ SealedContents \subseteq Contents
  /\ Requests \subseteq {c \in Commands : c.actor # None}
  /\ BusMessages \subseteq {m \in Message : ~m.sealed}
  /\ BatchSize \in Nat \ {0} /\ MaxMessages \in Nat /\ MaxFaults \in Nat

BusTypeOK ==
  /\ StoreTypeOK
  /\ messages \in Seq(Message)
  /\ delivery \in [DOMAIN messages -> {"new", "inflight", "retry", "settled"}]
  /\ recent \subseteq Refs \cup LongRefs
  /\ batch \in Seq(DOMAIN messages)
  /\ verdict \in {"none", "ack", "nak", "term"}
  /\ verdict # "none" => batch # <<>>
  /\ accepted \subseteq Refs \cup LongRefs
  /\ faults \in 0 .. MaxFaults

Init ==
  /\ StoreInit
  /\ messages = <<>> /\ delivery = <<>> /\ recent = {}
  /\ batch = <<>> /\ verdict = "none"
  /\ accepted = {} /\ faults = 0

Fault == faults < MaxFaults /\ faults' = faults + 1

-----------------------------------------------------------------------------
(***************************************************************************)
(* Publishing.                                                             *)
(***************************************************************************)

Append1(m) == messages' = Append(messages, m) /\ delivery' = Append(delivery, "new")

QueueableUnchecked(c) == TRUE

(* The checks of the handler: a save must be valid and its imported        *)
(* movements sealed, or it is answered 400 and nothing is queued.          *)
Queueable(c) == c.action = "save" => c.content \in ValidContents \cap SealedContents

(* The handler overwrites what the browser says of organization, actor and *)
(* authority with what the session says.                                   *)
Sealed(c) ==
  [cmd     |-> [c EXCEPT !.org = Org, !.canApprove = c.actor \in Admins],
   sealed  |-> TRUE,
   subject |-> c.action]

(* A publication with a MsgId the stream remembers is acknowledged and not *)
(* stored again.                                                           *)
Publish(m) ==
  IF m.cmd.ref \in recent
  THEN UNCHANGED <<messages, delivery, recent>>
  ELSE /\ Len(messages) < MaxMessages
       /\ Append1(m)
       /\ recent' = recent \cup {m.cmd.ref}

(* The publication is acknowledged: 202, status queued.                    *)
Queue(c) ==
  /\ Queueable(c)
  /\ Publish(Sealed(c))
  /\ accepted' = accepted \cup {c.ref}
  /\ UNCHANGED <<storeVars, batch, verdict, faults>>

(* The publication is stored and its acknowledgement lost: 503 although    *)
(* the command will be carried out.  (A publication that is not stored     *)
(* changes nothing.)                                                       *)
QueueUnanswered(c) ==
  /\ Queueable(c)
  /\ c.ref \notin recent
  /\ Publish(Sealed(c))
  /\ Fault
  /\ UNCHANGED <<storeVars, batch, verdict, accepted>>

(* Another program of the organization publishes, without a MsgId.         *)
BusPublish(m) ==
  /\ Len(messages) < MaxMessages
  /\ Append1(m)
  /\ UNCHANGED <<storeVars, recent, batch, verdict, accepted, faults>>

(* The deduplication window of the stream passes.                          *)
Forget(ref) ==
  /\ ref \in recent
  /\ recent' = recent \ {ref}
  /\ UNCHANGED <<storeVars, messages, delivery, batch, verdict, accepted, faults>>

-----------------------------------------------------------------------------
(***************************************************************************)
(* The consumer goroutine.                                                 *)
(***************************************************************************)

Waiting == {i \in DOMAIN messages : delivery[i] \in {"new", "retry"}}

(* New messages arrive in stream order; redelivered ones when they are due *)
(* again, before or after any of them.                                     *)
Deliverable(s) ==
  /\ \A j, k \in DOMAIN s : j # k => s[j] # s[k]
  /\ \A k \in DOMAIN s : delivery[s[k]] = "new" =>
       \A i \in 1 .. s[k] - 1 : delivery[i] = "new" => \E j \in 1 .. k - 1 : s[j] = i

Fetch ==
  /\ batch = <<>>
  /\ \E n \in 1 .. BatchSize : \E s \in [1 .. n -> Waiting] :
       /\ Deliverable(s)
       /\ batch' = s
       /\ delivery' = [i \in DOMAIN delivery |->
                         IF \E k \in 1 .. n : s[k] = i THEN "inflight" ELSE delivery[i]]
  /\ UNCHANGED <<storeVars, messages, recent, verdict, accepted, faults>>

UndeliverableHere(m) ==
  \/ m.subject # m.cmd.action
  \/ m.cmd.action = "save" /\ m.cmd.content \notin SealedContents

UndeliverableAnyOrigin(m) == m.cmd.org # Org \/ m.subject # m.cmd.action

(* What is given up for good: another organization's command, a command    *)
(* published on another action's subject, a save with altered provenance.  *)
Undeliverable(m) ==
  \/ m.cmd.org # Org
  \/ m.subject # m.cmd.action
  \/ m.cmd.action = "save" /\ m.cmd.content \notin SealedContents

ReceivedAsClaimed(m) ==
  IF m.cmd.actor # None THEN m.cmd ELSE [m.cmd EXCEPT !.actor = BusActor]

(* Only the console can seal a command; every other one loses the actor    *)
(* and the authority it claims.                                            *)
Received(m) ==
  IF m.sealed THEN m.cmd ELSE [m.cmd EXCEPT !.canApprove = FALSE, !.actor = BusActor]

(* Commands are the commands that can reach Apply.                         *)
ASSUME ReachAssumption ==
  /\ \A c \in Requests : Sealed(c).cmd \in Commands
  /\ \A m \in BusMessages : Received(m) \in Commands

Handling(m) ==
  /\ batch # <<>> /\ verdict = "none"
  /\ m = messages[Head(batch)]
  /\ UNCHANGED <<messages, delivery, recent, batch, accepted>>

GiveUp(m) ==
  /\ Handling(m)
  /\ Undeliverable(m)
  /\ verdict' = "term"
  /\ UNCHANGED <<storeVars, faults>>

HandleCommand(m) ==
  /\ Handling(m)
  /\ ~Undeliverable(m)
  /\ Apply(Received(m))
  /\ verdict' = "ack"
  /\ UNCHANGED faults

OnErrorAck == "ack"

(* How a message is settled whose command Apply could not decide.          *)
OnError == "nak"

(* Apply returns an error: it refuses the command outright ...             *)
Rejected(m) ==
  /\ Handling(m)
  /\ ~Undeliverable(m)
  /\ ~Accepts(Received(m))
  /\ verdict' = OnError
  /\ UNCHANGED <<storeVars, faults>>

(* ... or the database fails, and the transaction is rolled back.          *)
StorageError(m) ==
  /\ Handling(m)
  /\ ~Undeliverable(m)
  /\ Accepts(Received(m))
  /\ verdict' = OnError
  /\ Fault
  /\ UNCHANGED storeVars

NextKeepsVerdict == batch' = Tail(batch) /\ UNCHANGED verdict

(* Ack, Term or NakWithDelay; then the next message of the batch.          *)
NextInBatch == batch' = Tail(batch) /\ verdict' = "none"

Settle ==
  /\ verdict # "none"
  /\ delivery' = [delivery EXCEPT ![Head(batch)] =
                    IF verdict = "nak" THEN "retry" ELSE "settled"]
  /\ NextInBatch
  /\ UNCHANGED <<storeVars, messages, recent, accepted, faults>>

(* The acknowledgement, which nobody waits for, does not arrive.           *)
SettleLost ==
  /\ verdict # "none"
  /\ NextInBatch
  /\ Fault
  /\ UNCHANGED <<storeVars, messages, delivery, recent, accepted>>

InBatch(i) == \E k \in DOMAIN batch : batch[k] = i

(* AckWait passes for a message the process no longer knows of ...         *)
Expire(i) ==
  /\ delivery[i] = "inflight" /\ ~InBatch(i)
  /\ delivery' = [delivery EXCEPT ![i] = "retry"]
  /\ UNCHANGED <<storeVars, messages, recent, batch, verdict, accepted, faults>>

(* ... or for one it still holds, behind slow ones of the same batch.      *)
ExpireInBatch(i) ==
  /\ delivery[i] = "inflight" /\ InBatch(i)
  /\ delivery' = [delivery EXCEPT ![i] = "retry"]
  /\ Fault
  /\ UNCHANGED <<storeVars, messages, recent, batch, verdict, accepted>>

(* The process stops and is started again.                                 *)
Crash ==
  /\ batch # <<>>
  /\ batch' = <<>> /\ verdict' = "none"
  /\ Fault
  /\ UNCHANGED <<storeVars, messages, delivery, recent, accepted>>

-----------------------------------------------------------------------------

Handle == \E i \in DOMAIN messages : GiveUp(messages[i]) \/ HandleCommand(messages[i]) \/ Rejected(messages[i])

Next ==
  \/ \E c \in Requests : Queue(c) \/ QueueUnanswered(c)
  \/ \E m \in BusMessages : BusPublish(m)
  \/ \E ref \in recent : Forget(ref)
  \/ Fetch
  \/ Handle
  \/ \E i \in DOMAIN messages : StorageError(messages[i])
  \/ Settle \/ SettleLost
  \/ \E i \in DOMAIN messages : Expire(i) \/ ExpireInBatch(i)
  \/ Crash

(* The goroutine loops for as long as the process runs, a stopped process  *)
(* is restarted, and the stream redelivers what is due.  Nobody has to     *)
(* publish anything, and no fault has to happen.                           *)
Fairness ==
  /\ WF_vars(Fetch) /\ WF_vars(Handle) /\ WF_vars(Settle)
  /\ \A i \in 1 .. MaxMessages : WF_vars(i \in DOMAIN messages /\ Expire(i))

Spec == Init /\ [][Next]_vars

FairSpec == Spec /\ Fairness

-----------------------------------------------------------------------------
(***************************************************************************)
(* What the write path promises.                                           *)
(***************************************************************************)

Decided(ref) == ref \in Refs /\ commands[ref] # None

(* No command is lost between the stream and the store: a message leaves   *)
(* the stream's redelivery only when its command has a recorded outcome or *)
(* when it was one the consumer gives up on, through every crash, expiry   *)
(* and lost acknowledgement.                                               *)
NothingSettledUndecided ==
  \A i \in DOMAIN messages :
    delivery[i] = "settled" => Decided(messages[i].cmd.ref) \/ Undeliverable(messages[i])

(* A person is named in the audit trail only for what that person sent     *)
(* through the console, and only an administrator reviews, approves or     *)
(* returns a forecast: no redelivery, reuse of a reference or unsealed     *)
(* message lends anybody's name or rights to another command.              *)
AuthorityTraced ==
  \A a \in audit :
    /\ a.actor # BusActor =>
         \E i \in DOMAIN messages :
           /\ messages[i].sealed
           /\ messages[i].cmd.ref = a.ref
           /\ messages[i].cmd.actor = a.actor
           /\ messages[i].cmd.action = a.action
    /\ a.action \in {"review", "approve", "return"} => a.actor \in Admins

(* Imported figures are stored only with their provenance intact.          *)
ProvenanceKept == \A r \in revisions : r.data.content \in SealedContents

(* The outcome a user reads for a reference never changes, and a command   *)
(* that was decided changes nothing more, however often it is redelivered. *)
OutcomeFinal ==
  [][\A ref \in Refs : commands[ref] # None =>
       /\ commands'[ref] = commands[ref]
       /\ \A a \in audit' \ audit : a.ref # ref]_vars

(* No lost update: a forecast only ever changes on the strength of a       *)
(* message whose sender had seen the revision it replaces, even when       *)
(* redelivery reorders the messages of several editors.                    *)
NoLostUpdate ==
  [][\A id \in Ids :
       forecasts[id] # None /\ forecasts'[id] # forecasts[id] =>
         \E i \in DOMAIN messages :
           LET c == messages[i].cmd
           IN /\ ~Decided(c.ref) /\ Decided(c.ref)'
              /\ c.id = id
              /\ c.expected = forecasts[id].revision]_vars

(* Every queued message is decided or given up: none is redelivered        *)
(* forever and none is forgotten in flight.                                *)
EveryMessageSettled ==
  \A i \in 1 .. MaxMessages :
    i \in DOMAIN messages ~> i \in DOMAIN messages /\ delivery[i] = "settled"

(* Whoever was answered 202 "queued" eventually reads an outcome under     *)
(* that reference at GET /api/operations/{ref}.                            *)
AcceptedIsDecided ==
  \A ref \in Refs \cup LongRefs : ref \in accepted ~> Decided(ref)
=============================================================================
