------------------------------ MODULE BusProofs ------------------------------
(***************************************************************************)
(* Proofs about module CommandBus, for any number of messages, references, *)
(* users and faults, and for batches of any size.                          *)
(*                                                                         *)
(* The stream never changes a message, so that what the goroutine holds is *)
(* always something that was sent (Sent); a step of the write path is then *)
(* a step of the store, and the store's theorems hold of it.  The bus's    *)
(* own invariants follow from BusInv, which also says what the verdict on  *)
(* the head of the batch rests on.                                         *)
(***************************************************************************)
EXTENDS CommandBus, StoreProofs, SequenceTheorems

Sent == {Sealed(c) : c \in Requests} \cup BusMessages

MessagesSent ==
  /\ messages \in Seq(Sent)
  /\ delivery \in Seq({"new", "inflight", "retry", "settled"})
  /\ Len(delivery) = Len(messages)
  /\ batch \in Seq(DOMAIN messages)
  /\ verdict \in {"none", "ack", "nak", "term"}
  /\ verdict # "none" => batch # <<>>

(* An acknowledgement is decided on only when the command is, and giving   *)
(* up only on what is undeliverable.                                       *)
VerdictSound ==
  /\ verdict = "ack" => Decided(messages[Head(batch)].cmd.ref)
  /\ verdict = "term" => Undeliverable(messages[Head(batch)])

BusInv ==
  /\ StoreInv
  /\ MessagesSent
  /\ VerdictSound
  /\ NothingSettledUndecided
  /\ AuthorityTraced
  /\ ProvenanceKept

-----------------------------------------------------------------------------
(***************************************************************************)
(* Messages.                                                               *)
(***************************************************************************)

LEMMA SentIsMessage ==
  ASSUME NEW m \in Sent
  PROVE  /\ m \in Message
         /\ m.sealed => /\ m.cmd \in Commands
                        /\ m.cmd.canApprove <=> m.cmd.actor \in Admins
         /\ Received(m) \in Commands
<1>1. CASE m \in BusMessages
  BY <1>1, BusAssumption, ReachAssumption
<1>2. ASSUME NEW c \in Requests, m = Sealed(c)
      PROVE  /\ m \in Message
             /\ m.sealed /\ m.cmd \in Commands
             /\ m.cmd.canApprove <=> m.cmd.actor \in Admins
             /\ Received(m) = m.cmd
  <2>1. m = [cmd     |-> [c EXCEPT !.org = Org, !.canApprove = c.actor \in Admins],
             sealed  |-> TRUE,
             subject |-> c.action]
    BY <1>2 DEF Sealed
  <2>2. c \in Command /\ m.cmd \in Commands /\ m.cmd \in Command
    BY <1>2, BusAssumption, StoreAssumption, ReachAssumption
  <2>3. m.cmd = [c EXCEPT !.org = Org, !.canApprove = c.actor \in Admins]
    BY <2>1
  <2>4. m.cmd.canApprove = (c.actor \in Admins) /\ m.cmd.actor = c.actor
    BY <2>2, <2>3 DEF Command
  <2>5. m \in Message
    BY <2>1, <2>2, <2>3 DEF Message, Command
  <2> QED BY <2>1, <2>2, <2>4, <2>5 DEF Received
<1> QED BY <1>1, <1>2 DEF Sent

(* The goroutine changes the actor and the authority of a command at most. *)
LEMMA ReceivedFields ==
  ASSUME NEW m \in Sent
  PROVE  /\ m.cmd \in Command /\ Received(m) \in Command
         /\ Received(m).ref = m.cmd.ref
         /\ Received(m).action = m.cmd.action
         /\ Received(m).id = m.cmd.id
         /\ Received(m).content = m.cmd.content
         /\ Received(m).expected = m.cmd.expected
         /\ IF m.sealed THEN Received(m) = m.cmd
            ELSE Received(m).actor = BusActor /\ ~Received(m).canApprove
<1>1. m \in Message /\ Received(m) \in Command
  BY SentIsMessage, StoreAssumption
<1>2. m.cmd \in Command
  BY <1>1 DEF Message
<1> QED BY <1>1, <1>2 DEF Received, Command

-----------------------------------------------------------------------------
(***************************************************************************)
(* What a step does to the stream and to the batch.                        *)
(***************************************************************************)

MessagesKept ==
  \A i \in DOMAIN messages : i \in DOMAIN messages' /\ messages'[i] = messages[i]

LEMMA AppendKeeps ==
  ASSUME MessagesSent, NEW m \in Sent, Append1(m), UNCHANGED <<batch, verdict>>
  PROVE  /\ MessagesSent' /\ MessagesKept
         /\ \A i \in DOMAIN messages' :
              delivery'[i] = "settled" => i \in DOMAIN messages /\ delivery[i] = "settled"
<1> DEFINE n == Len(messages)
<1>1. /\ messages \in Seq(Sent) /\ messages' = Append(messages, m)
      /\ delivery \in Seq({"new", "inflight", "retry", "settled"})
      /\ delivery' = Append(delivery, "new") /\ Len(delivery) = n
  BY DEF MessagesSent, Append1
<1>2. /\ messages' \in Seq(Sent) /\ Len(messages') = n + 1
      /\ \A i \in 1 .. n : messages'[i] = messages[i]
  BY <1>1
<1>3. /\ delivery' \in Seq({"new", "inflight", "retry", "settled"}) /\ Len(delivery') = n + 1
      /\ \A i \in 1 .. n : delivery'[i] = delivery[i]
      /\ delivery'[n + 1] = "new"
  BY <1>1
<1>4. n \in Nat /\ DOMAIN messages = 1 .. n /\ DOMAIN messages' = 1 .. n + 1
  BY <1>1, <1>2
<1>5. batch' \in Seq(DOMAIN messages')
  <2>1. DOMAIN messages \subseteq DOMAIN messages'
    BY <1>4
  <2> QED BY <2>1, SeqMonotonic DEF MessagesSent
<1> QED BY <1>2, <1>3, <1>4, <1>5 DEF MessagesSent, MessagesKept

LEMMA HeadInStream ==
  ASSUME MessagesSent, batch # <<>>
  PROVE  /\ Head(batch) \in DOMAIN messages
         /\ messages[Head(batch)] \in Sent
         /\ Tail(batch) \in Seq(DOMAIN messages)
BY HeadTailProperties, ElementOfSeq DEF MessagesSent

(* Of all steps only the handling of a message touches the store ...       *)
LEMMA OnlyHandlingStores ==
  ASSUME [Next]_vars
  PROVE  UNCHANGED storeVars \/ \E i \in DOMAIN messages : HandleCommand(messages[i])
<1>1. CASE UNCHANGED vars
  BY <1>1 DEF vars, storeVars
<1>2. ASSUME NEW i \in DOMAIN messages,
             GiveUp(messages[i]) \/ Rejected(messages[i]) \/ StorageError(messages[i])
      PROVE  UNCHANGED storeVars
  BY <1>2 DEF GiveUp, Rejected, StorageError
<1>3. ASSUME NEW c \in Requests, Queue(c) \/ QueueUnanswered(c)
      PROVE  UNCHANGED storeVars
  BY <1>3 DEF Queue, QueueUnanswered
<1>4. ASSUME NEW m \in BusMessages, BusPublish(m)
      PROVE  UNCHANGED storeVars
  BY <1>4 DEF BusPublish
<1>5. ASSUME NEW ref \in recent, Forget(ref)
      PROVE  UNCHANGED storeVars
  BY <1>5 DEF Forget
<1>6. ASSUME Fetch \/ Settle \/ SettleLost \/ Crash
      PROVE  UNCHANGED storeVars
  BY <1>6 DEF Fetch, Settle, SettleLost, Crash
<1>7. ASSUME NEW i \in DOMAIN messages, Expire(i) \/ ExpireInBatch(i)
      PROVE  UNCHANGED storeVars
  BY <1>7 DEF Expire, ExpireInBatch
<1> QED BY <1>1, <1>2, <1>3, <1>4, <1>5, <1>6, <1>7 DEF Next, Handle

(* ... and what is handled is a command that can reach Apply.              *)
LEMMA HandledIsCommand ==
  ASSUME MessagesSent, NEW i \in DOMAIN messages, HandleCommand(messages[i])
  PROVE  /\ messages[i] \in Sent
         /\ Received(messages[i]) \in Commands
         /\ Apply(Received(messages[i]))
<1>1. messages[i] \in Sent
  BY ElementOfSeq DEF MessagesSent
<1> QED BY <1>1, SentIsMessage DEF HandleCommand

LEMMA NextStepsStore ==
  ASSUME MessagesSent, [Next]_vars
  PROVE  [StoreNext]_storeVars
BY OnlyHandlingStores, HandledIsCommand DEF StoreNext

LEMMA NextKeepsStoreInv ==
  ASSUME StoreInv, MessagesSent, [Next]_vars
  PROVE  StoreInv'
<1>1. [StoreNext]_storeVars
  BY NextStepsStore
<1> QED BY <1>1, ApplyKeepsInv, UnchangedKeepsInv DEF StoreNext

(* Messages are only ever appended, with what somebody sent.               *)
LEMMA NextKeepsMessages ==
  ASSUME MessagesSent, [Next]_vars
  PROVE  MessagesSent' /\ MessagesKept
<1>1. CASE UNCHANGED vars
  BY <1>1 DEF vars, busVars, MessagesSent, MessagesKept
<1>2. ASSUME NEW c \in Requests, Queue(c) \/ QueueUnanswered(c)
      PROVE  MessagesSent' /\ MessagesKept
  <2>1. Sealed(c) \in Sent
    BY DEF Sent
  <2>2. UNCHANGED <<batch, verdict>> /\ (UNCHANGED <<messages, delivery>> \/ Append1(Sealed(c)))
    BY <1>2 DEF Queue, QueueUnanswered, Publish
  <2> QED BY <2>1, <2>2, AppendKeeps DEF MessagesSent, MessagesKept
<1>3. ASSUME NEW m \in BusMessages, BusPublish(m)
      PROVE  MessagesSent' /\ MessagesKept
  BY <1>3, AppendKeeps DEF BusPublish, Sent
<1>4. ASSUME NEW ref \in recent, Forget(ref)
      PROVE  MessagesSent' /\ MessagesKept
  BY <1>4 DEF Forget, MessagesSent, MessagesKept
<1>5. CASE Fetch
  <2>1. PICK n \in 1 .. BatchSize : \E s \in [1 .. n -> Waiting] :
          /\ batch' = s
          /\ delivery' = [i \in DOMAIN delivery |->
                            IF \E k \in 1 .. n : s[k] = i THEN "inflight" ELSE delivery[i]]
    BY <1>5 DEF Fetch
  <2>2. PICK s \in [1 .. n -> Waiting] :
          /\ batch' = s
          /\ delivery' = [i \in DOMAIN delivery |->
                            IF \E k \in 1 .. n : s[k] = i THEN "inflight" ELSE delivery[i]]
    BY <2>1
  <2>3. n \in Nat /\ n >= 1
    BY BusAssumption
  <2>4. batch' \in Seq(DOMAIN messages)
    BY <2>2, <2>3 DEF Waiting
  <2>5. batch' # <<>>
    BY <2>2, <2>3
  <2>6. DOMAIN delivery = 1 .. Len(messages) /\ Len(messages) \in Nat
    BY DEF MessagesSent
  <2>7. /\ delivery' \in Seq({"new", "inflight", "retry", "settled"})
        /\ Len(delivery') = Len(messages)
    BY <2>2, <2>6 DEF MessagesSent
  <2> QED BY <1>5, <2>4, <2>5, <2>7 DEF Fetch, MessagesSent, MessagesKept
<1>6. ASSUME NEW i \in DOMAIN messages,
             \/ GiveUp(messages[i]) \/ HandleCommand(messages[i])
             \/ Rejected(messages[i]) \/ StorageError(messages[i])
      PROVE  MessagesSent' /\ MessagesKept
  <2>1. /\ batch # <<>> /\ verdict' \in {"ack", "nak", "term"}
        /\ UNCHANGED <<messages, delivery, batch>>
    BY <1>6 DEF GiveUp, HandleCommand, Rejected, StorageError, Handling, OnError
  <2> QED BY <2>1 DEF MessagesSent, MessagesKept
<1>7. CASE Settle \/ SettleLost
  <2>1. /\ batch # <<>> /\ batch' = Tail(batch) /\ verdict' = "none"
        /\ UNCHANGED messages
        /\ \/ UNCHANGED delivery
           \/ delivery' = [delivery EXCEPT ![Head(batch)] =
                             IF verdict = "nak" THEN "retry" ELSE "settled"]
    BY <1>7 DEF Settle, SettleLost, NextInBatch, MessagesSent
  <2>2. Head(batch) \in 1 .. Len(delivery)
    BY <2>1, HeadInStream DEF MessagesSent
  <2>3. PICK s \in {"retry", "settled"} :
           delivery' = delivery \/ delivery' = [delivery EXCEPT ![Head(batch)] = s]
    BY <2>1
  <2>4. /\ delivery' \in Seq({"new", "inflight", "retry", "settled"})
        /\ Len(delivery') = Len(messages)
    BY <2>2, <2>3, ExceptSeq DEF MessagesSent
  <2> QED BY <2>1, <2>4, HeadInStream DEF MessagesSent, MessagesKept
<1>8. ASSUME NEW i \in DOMAIN messages, Expire(i) \/ ExpireInBatch(i)
      PROVE  MessagesSent' /\ MessagesKept
  <2>1. /\ delivery' = [delivery EXCEPT ![i] = "retry"]
        /\ UNCHANGED <<messages, batch, verdict>>
    BY <1>8 DEF Expire, ExpireInBatch
  <2>2. i \in 1 .. Len(delivery)
    BY DEF MessagesSent
  <2>3. /\ delivery' \in Seq({"new", "inflight", "retry", "settled"})
        /\ Len(delivery') = Len(messages)
    BY <2>1, <2>2, ExceptSeq DEF MessagesSent
  <2> QED BY <2>1, <2>3 DEF MessagesSent, MessagesKept
<1>9. CASE Crash
  BY <1>9, EmptySeq DEF Crash, MessagesSent, MessagesKept
<1> QED BY <1>1, <1>2, <1>3, <1>4, <1>5, <1>6, <1>7, <1>8, <1>9 DEF Next, Handle
-----------------------------------------------------------------------------
(***************************************************************************)
(* What Apply does to the tables, as the write path sees it.               *)
(***************************************************************************)

(* What a commit stores was in the command or in the history before.       *)
LEMMA CommitContent ==
  ASSUME StoreInv, NEW c \in Commands, NEW id \in Ids, Commit(c, id)
  PROVE  \/ c.action = "save" /\ NextRevision(c).content = c.content
         \/ \E r \in revisions : NextRevision(c).content = r.data.content
<1>1. c \in Command /\ Permitted(c)
  BY StoreAssumption DEF Commit, Succeeds
<1>2. CASE c.action = "save" /\ c.id = None
  <2>1. Proposed(c) = NewDraft(c)
    BY <1>2 DEF Proposed
  <2> QED BY <1>2, <2>1 DEF NextRevision, NewDraft
<1>3. CASE c.action # "save" \/ c.id # None
  <2>1. Exists(c) /\ c.id \in Ids /\ forecasts[c.id] # None
    BY <1>1, <1>3, StoreAssumption DEF Permitted, Exists, Command
  <2>2. Old(c) \in Forecast /\ Old(c) = forecasts[c.id]
    BY <2>1, StoredForecast DEF Old
  <2>3. \E r \in revisions : r.data.content = Old(c).content
    BY <2>1, <2>2 DEF StoreInv, HistoryMatchesForecasts
  <2>4. CASE c.action = "save"
    BY <1>3, <2>2, <2>4 DEF NextRevision, Proposed, Forecast
  <2>5. CASE c.action # "save"
    <3>1. CASE c.action = "revise"
      <4>1. Proposed(c) = Revised(c)
        BY <3>1 DEF Proposed
      <4>2. NextRevision(c).content = Old(c).content
        BY <2>2, <4>1 DEF NextRevision, Revised, Forecast
      <4> QED BY <2>3, <4>2
    <3>2. CASE c.action = "approve"
      <4>1. NextRevision(c).content = Old(c).content
        BY <2>2, <3>2 DEF NextRevision, Proposed, Forecast
      <4> QED BY <2>3, <4>1
    <3>3. CASE c.action \notin {"revise", "approve"}
      <4>1. NextRevision(c).content = Old(c).content
        BY <2>2, <2>5, <3>3 DEF NextRevision, Proposed, Forecast
      <4> QED BY <2>3, <4>1
    <3> QED BY <3>1, <3>2, <3>3
  <2> QED BY <2>4, <2>5
<1> QED BY <1>2, <1>3

(* Apply adds to the audit trail only what the command names, and only if  *)
(* its reference was undecided and its sender had the right.               *)
LEMMA ApplyAudits ==
  ASSUME NEW c \in Commands, Apply(c)
  PROVE  /\ audit \subseteq audit'
         /\ \A a \in audit' \ audit :
              /\ a.ref = c.ref /\ a.actor = c.actor /\ a.action = c.action
              /\ commands[c.ref] = None
              /\ a.action \in {"review", "approve", "return"} => c.canApprove
<1>1. CASE Replay(c) \/ Refuse(c)
  BY <1>1 DEF Replay, Refuse, storeVars
<1>2. ASSUME NEW id \in Ids, Commit(c, id)
      PROVE  /\ audit \subseteq audit'
             /\ \A a \in audit' \ audit :
                  /\ a.ref = c.ref /\ a.actor = c.actor /\ a.action = c.action
                  /\ commands[c.ref] = None
                  /\ a.action \in {"review", "approve", "return"} => c.canApprove
  <2>1. c.action \in {"review", "approve", "return"} => c.canApprove
    BY <1>2 DEF Commit, Succeeds, Permitted, MayReview, MayApprove, MayReturn
  <2> QED BY <1>2, <2>1 DEF Commit, Undecided
<1> QED BY <1>1, <1>2 DEF Apply

(* What Apply adds to the history has the content of the command it saves, *)
(* or content that was in the history.                                     *)
LEMMA ApplyContent ==
  ASSUME StoreInv, NEW c \in Commands, Apply(c), NEW r \in revisions' \ revisions
  PROVE  \/ c.action = "save" /\ r.data.content = c.content
         \/ \E s \in revisions : r.data.content = s.data.content
<1>1. ~Replay(c) /\ ~Refuse(c)
  BY DEF Replay, Refuse, storeVars
<1>2. PICK id \in Ids : Commit(c, id)
  BY <1>1 DEF Apply
<1>3. r.data = NextRevision(c)
  BY <1>2 DEF Commit
<1> QED BY <1>2, <1>3, CommitContent
-----------------------------------------------------------------------------
(***************************************************************************)
(* Each invariant after a step.                                            *)
(***************************************************************************)

(* What was decided stays decided, with the same result.                   *)
LEMMA NextKeepsDecided ==
  ASSUME StoreInv, MessagesSent, [Next]_vars,
         NEW ref \in Refs, commands[ref] # None
  PROVE  commands'[ref] = commands[ref]
<1>1. CASE UNCHANGED storeVars
  BY <1>1 DEF storeVars
<1>2. ASSUME NEW i \in DOMAIN messages, HandleCommand(messages[i])
      PROVE  commands'[ref] = commands[ref]
  BY <1>2, HandledIsCommand, ApplyDecides
<1> QED BY <1>1, <1>2, OnlyHandlingStores

LEMMA NextKeepsVerdictSound ==
  ASSUME BusInv, [Next]_vars
  PROVE  VerdictSound'
<1>1. StoreInv /\ MessagesSent /\ MessagesSent' /\ MessagesKept /\ VerdictSound
  BY NextKeepsMessages DEF BusInv
<1>2. ASSUME UNCHANGED <<batch, verdict>>
      PROVE  VerdictSound'
  <2>1. SUFFICES ASSUME verdict # "none" PROVE VerdictSound'
    BY <1>2 DEF VerdictSound
  <2>2. Head(batch) \in DOMAIN messages
    BY <1>1, <2>1, HeadInStream DEF MessagesSent
  <2>3. messages'[Head(batch)] = messages[Head(batch)]
    BY <1>1, <2>2 DEF MessagesKept
  <2> QED BY <1>1, <1>2, <2>3, NextKeepsDecided DEF VerdictSound, Decided, Undeliverable
<1>3. ASSUME NEW i \in DOMAIN messages, GiveUp(messages[i])
      PROVE  VerdictSound'
  BY <1>3 DEF GiveUp, Handling, VerdictSound, Undeliverable
<1>4. ASSUME NEW i \in DOMAIN messages, HandleCommand(messages[i])
      PROVE  VerdictSound'
  <2>1. /\ messages[i] = messages'[Head(batch')] /\ verdict' = "ack"
    BY <1>4 DEF HandleCommand, Handling
  <2>2. Received(messages[i]).ref \in Refs /\ commands'[Received(messages[i]).ref] # None
    BY <1>1, <1>4, HandledIsCommand, ApplyDecides
  <2>3. Received(messages[i]).ref = messages[i].cmd.ref
    BY <1>1, <1>4, HandledIsCommand, ReceivedFields
  <2> QED BY <2>1, <2>2, <2>3 DEF VerdictSound, Decided
<1>5. ASSUME NEW i \in DOMAIN messages, Rejected(messages[i]) \/ StorageError(messages[i])
      PROVE  VerdictSound'
  BY <1>5 DEF Rejected, StorageError, OnError, VerdictSound
<1>6. CASE Fetch
  BY <1>1, <1>6 DEF Fetch, MessagesSent, VerdictSound
<1>7. CASE Settle \/ SettleLost \/ Crash
  BY <1>7 DEF Settle, SettleLost, Crash, NextInBatch, VerdictSound
<1>8. CASE UNCHANGED vars
  BY <1>2, <1>8 DEF vars, busVars
<1>9. ASSUME NEW c \in Requests, Queue(c) \/ QueueUnanswered(c)
      PROVE  VerdictSound'
  BY <1>2, <1>9 DEF Queue, QueueUnanswered
<1>10. ASSUME NEW m \in BusMessages, BusPublish(m)
       PROVE  VerdictSound'
  BY <1>2, <1>10 DEF BusPublish
<1>11. ASSUME NEW ref \in recent, Forget(ref)
       PROVE  VerdictSound'
  BY <1>2, <1>11 DEF Forget
<1>12. ASSUME NEW i \in DOMAIN messages, Expire(i) \/ ExpireInBatch(i)
       PROVE  VerdictSound'
  BY <1>2, <1>12 DEF Expire, ExpireInBatch
<1> QED BY <1>3, <1>4, <1>5, <1>6, <1>7, <1>8, <1>9, <1>10, <1>11, <1>12 DEF Next, Handle

(* A message is newly settled only at the head of the batch, on a verdict  *)
(* that is not to refuse it.                                               *)
LEMMA NewlySettled ==
  ASSUME MessagesSent, [Next]_vars,
         NEW i \in DOMAIN messages', delivery'[i] = "settled",
         ~(i \in DOMAIN messages /\ delivery[i] = "settled")
  PROVE  i \in DOMAIN messages /\ i = Head(batch) /\ verdict \in {"ack", "term"}
<1>1. DOMAIN delivery = DOMAIN messages
  BY DEF MessagesSent
<1>2. CASE UNCHANGED <<messages, delivery>>
  BY <1>2
<1>3. ASSUME NEW m \in Sent, Append1(m), UNCHANGED <<batch, verdict>>
      PROVE  FALSE
  BY <1>3, AppendKeeps
<1>4. CASE Fetch
  BY <1>1, <1>4 DEF Fetch
<1>5. CASE Settle
  BY <1>1, <1>5 DEF Settle, MessagesSent
<1>6. ASSUME NEW j \in DOMAIN messages, Expire(j) \/ ExpireInBatch(j)
      PROVE  FALSE
  BY <1>1, <1>6 DEF Expire, ExpireInBatch
<1>7. ASSUME NEW c \in Requests, Queue(c) \/ QueueUnanswered(c)
      PROVE  FALSE
  BY <1>2, <1>3, <1>7 DEF Queue, QueueUnanswered, Publish, Sent
<1>8. ASSUME NEW m \in BusMessages, BusPublish(m)
      PROVE  FALSE
  BY <1>3, <1>8 DEF BusPublish, Sent
<1>9. CASE Handle \/ SettleLost \/ Crash \/ UNCHANGED vars
  BY <1>2, <1>9 DEF Handle, GiveUp, HandleCommand, Rejected, Handling, SettleLost, Crash, vars, busVars
<1>10. ASSUME NEW j \in DOMAIN messages, StorageError(messages[j])
       PROVE  FALSE
  BY <1>2, <1>10 DEF StorageError, Handling
<1>11. ASSUME NEW ref \in recent, Forget(ref)
       PROVE  FALSE
  BY <1>2, <1>11 DEF Forget
<1> QED BY <1>4, <1>5, <1>6, <1>7, <1>8, <1>9, <1>10, <1>11 DEF Next

LEMMA NextKeepsSettledDecided ==
  ASSUME BusInv, [Next]_vars
  PROVE  NothingSettledUndecided'
<1>1. StoreInv /\ MessagesSent /\ MessagesKept /\ NothingSettledUndecided /\ VerdictSound
  BY NextKeepsMessages DEF BusInv
<1>2. SUFFICES ASSUME NEW i \in DOMAIN messages', delivery'[i] = "settled"
               PROVE  \/ messages'[i].cmd.ref \in Refs /\ commands'[messages'[i].cmd.ref] # None
                      \/ Undeliverable(messages'[i])
  BY DEF NothingSettledUndecided, Decided, Undeliverable
<1>3. i \in DOMAIN messages
  BY <1>1, <1>2, NewlySettled
<1>4. Decided(messages[i].cmd.ref) \/ Undeliverable(messages[i])
  <2>1. CASE delivery[i] = "settled"
    BY <1>1, <1>3, <2>1 DEF NothingSettledUndecided
  <2>2. CASE delivery[i] # "settled"
    <3>1. i = Head(batch) /\ verdict \in {"ack", "term"}
      BY <1>1, <1>2, <2>2, NewlySettled
    <3> QED BY <1>1, <3>1 DEF VerdictSound
  <2> QED BY <2>1, <2>2
<1>5. messages'[i] = messages[i]
  BY <1>1, <1>3 DEF MessagesKept
<1> QED BY <1>1, <1>4, <1>5, NextKeepsDecided DEF Decided

(* The row a of the audit trail is covered by AuthorityTraced.             *)
Traced(a) ==
  /\ a.actor # BusActor =>
       \E i \in DOMAIN messages :
         /\ messages[i].sealed
         /\ messages[i].cmd.ref = a.ref
         /\ messages[i].cmd.actor = a.actor
         /\ messages[i].cmd.action = a.action
  /\ a.action \in {"review", "approve", "return"} => a.actor \in Admins

(* A new row of the audit trail names the sender and the authority of the  *)
(* message that is being handled.                                          *)
LEMMA NextKeepsAuthority ==
  ASSUME BusInv, [Next]_vars
  PROVE  AuthorityTraced'
<1>1. MessagesSent /\ MessagesKept /\ AuthorityTraced
  BY NextKeepsMessages DEF BusInv
<1>2. ASSUME NEW a \in audit' \ audit
      PROVE  Traced(a)
  <2>1. PICK i \in DOMAIN messages : HandleCommand(messages[i])
    BY <1>2, OnlyHandlingStores DEF storeVars
  <2> DEFINE m == messages[i]
             c == Received(m)
  <2>2. /\ m \in Sent /\ c \in Commands
        /\ a.ref = c.ref /\ a.actor = c.actor /\ a.action = c.action
        /\ a.action \in {"review", "approve", "return"} => c.canApprove
    BY <1>1, <1>2, <2>1, HandledIsCommand, ApplyAudits
  <2>3. /\ c.ref = m.cmd.ref /\ c.action = m.cmd.action
        /\ IF m.sealed THEN c = m.cmd ELSE c.actor = BusActor /\ ~c.canApprove
    BY <2>2, ReceivedFields
  <2>4. CASE m.sealed
    <3>1. m.cmd.canApprove <=> m.cmd.actor \in Admins
      BY <2>2, <2>4, SentIsMessage
    <3> QED BY <2>2, <2>3, <2>4, <3>1 DEF Traced
  <2>5. CASE ~m.sealed
    BY <2>2, <2>3, <2>5 DEF Traced
  <2> QED BY <2>4, <2>5
<1>3. \A a \in audit' : Traced(a)
  BY <1>1, <1>2 DEF AuthorityTraced, Traced
<1>4. \A a \in audit' : Traced(a)'
  BY <1>1, <1>3 DEF MessagesKept, Traced
<1> QED BY <1>4 DEF AuthorityTraced, Traced

(* Content enters the history with a save that is not undeliverable.       *)
LEMMA NextKeepsProvenance ==
  ASSUME BusInv, [Next]_vars
  PROVE  ProvenanceKept'
<1>1. StoreInv /\ MessagesSent /\ ProvenanceKept
  BY DEF BusInv
<1>2. SUFFICES ASSUME NEW r \in revisions' \ revisions
               PROVE  r.data.content \in SealedContents
  BY <1>1 DEF ProvenanceKept
<1>3. PICK i \in DOMAIN messages : HandleCommand(messages[i])
  BY <1>2, OnlyHandlingStores DEF storeVars
<1> DEFINE m == messages[i]
           c == Received(m)
<1>4. /\ m \in Sent /\ c \in Commands
      /\ \/ c.action = "save" /\ r.data.content = c.content
         \/ \E s \in revisions : r.data.content = s.data.content
  BY <1>1, <1>2, <1>3, HandledIsCommand, ApplyContent
<1>5. c.action = m.cmd.action /\ c.content = m.cmd.content
  BY <1>4, ReceivedFields
<1>6. m.cmd.action = "save" => m.cmd.content \in SealedContents
  BY <1>3 DEF HandleCommand, Undeliverable
<1> QED BY <1>1, <1>4, <1>5, <1>6 DEF ProvenanceKept

-----------------------------------------------------------------------------
(***************************************************************************)
(* The theorems.                                                           *)
(***************************************************************************)

LEMMA InitEstablishesBusInv ==
  ASSUME Init
  PROVE  BusInv
<1>1. StoreInv
  BY InitEstablishesInv DEF Init
<1>2. MessagesSent
  BY EmptySeq DEF Init, MessagesSent
<1>3. VerdictSound /\ NothingSettledUndecided /\ AuthorityTraced /\ ProvenanceKept
  BY DEF Init, StoreInit, VerdictSound, NothingSettledUndecided, AuthorityTraced, ProvenanceKept
<1> QED BY <1>1, <1>2, <1>3 DEF BusInv

(* The invariants of the write path hold through every interleaving of     *)
(* publications, redeliveries, expiries, lost acknowledgements and         *)
(* restarts, of any number of messages.                                    *)
THEOREM BusCorrect == Spec => []BusInv
<1>1. Init => BusInv
  BY InitEstablishesBusInv
<1>2. BusInv /\ [Next]_vars => BusInv'
  BY NextKeepsStoreInv, NextKeepsMessages, NextKeepsVerdictSound, NextKeepsSettledDecided,
     NextKeepsAuthority, NextKeepsProvenance DEF BusInv
<1> QED BY <1>1, <1>2, PTL DEF Spec

(* The variables that no other invariant mentions.                         *)
Bounded ==
  /\ recent \subseteq Refs \cup LongRefs
  /\ accepted \subseteq Refs \cup LongRefs
  /\ faults \in 0 .. MaxFaults

LEMMA NextKeepsBounded ==
  ASSUME Bounded, [Next]_vars
  PROVE  Bounded'
<1>1. ASSUME Fault \/ UNCHANGED faults
      PROVE  faults' \in 0 .. MaxFaults
  BY <1>1, BusAssumption DEF Fault, Bounded
<1>2. ASSUME NEW c \in Requests, Queue(c) \/ QueueUnanswered(c)
      PROVE  Bounded'
  <2>1. c \in Command /\ c.ref \in Refs \cup LongRefs
    BY BusAssumption, StoreAssumption DEF Command
  <2>2. Sealed(c).cmd.ref \in Refs \cup LongRefs
    BY ReceivedFields DEF Sent, Command
  <2> QED BY <1>1, <1>2, <2>1, <2>2 DEF Queue, QueueUnanswered, Publish, Bounded
<1>3. ASSUME NEW m \in BusMessages, BusPublish(m)
      PROVE  Bounded'
  BY <1>3 DEF BusPublish, Bounded
<1>4. ASSUME NEW ref \in recent, Forget(ref)
      PROVE  Bounded'
  BY <1>4 DEF Forget, Bounded
<1>5. CASE Fetch \/ Settle \/ SettleLost \/ Crash \/ UNCHANGED vars
  BY <1>1, <1>5 DEF Fetch, Settle, SettleLost, Crash, vars, busVars, Bounded
<1>6. ASSUME NEW i \in DOMAIN messages, Expire(i) \/ ExpireInBatch(i)
      PROVE  Bounded'
  BY <1>1, <1>6 DEF Expire, ExpireInBatch, Bounded
<1>7. ASSUME NEW i \in DOMAIN messages,
             \/ GiveUp(messages[i]) \/ HandleCommand(messages[i])
             \/ Rejected(messages[i]) \/ StorageError(messages[i])
      PROVE  Bounded'
  BY <1>1, <1>7 DEF GiveUp, HandleCommand, Rejected, StorageError, Handling, Bounded
<1> QED BY <1>2, <1>3, <1>4, <1>5, <1>6, <1>7 DEF Next, Handle

(* The stream, the consumer's state and the goroutine's batch keep their   *)
(* shapes: what is settled is at the head of the batch and in the stream.  *)
THEOREM BusTyped == Spec => []BusTypeOK
<1>1. Init => Bounded
  BY BusAssumption DEF Init, Bounded
<1>2. Spec => []Bounded
  BY <1>1, NextKeepsBounded, PTL DEF Spec
<1>3. BusInv /\ Bounded => BusTypeOK
  <2> SUFFICES ASSUME BusInv, Bounded PROVE BusTypeOK
    OBVIOUS
  <2>1. Sent \subseteq Message
    BY SentIsMessage
  <2>2. messages \in Seq(Message)
    BY <2>1, SeqMonotonic DEF BusInv, MessagesSent
  <2>3. delivery \in [DOMAIN messages -> {"new", "inflight", "retry", "settled"}]
    BY DEF BusInv, MessagesSent
  <2> QED BY <2>2, <2>3 DEF BusInv, StoreInv, MessagesSent, Bounded, BusTypeOK
<1> QED BY <1>2, <1>3, BusCorrect, PTL

(* The write path uses the store only through Apply: whatever is delivered *)
(* in whatever order, the tables change as module Store says.              *)
THEOREM BusUsesStore == Spec => StoreSpec
<1>1. Init => StoreInit
  BY DEF Init
<1>2. BusInv /\ [Next]_vars => [StoreNext]_storeVars
  BY NextStepsStore DEF BusInv
<1> QED BY <1>1, <1>2, BusCorrect, PTL DEF Spec, StoreSpec

(* ... so what the users see of it is the workflow: a reference is decided *)
(* once however often it is delivered, and no redelivery, crash or delay   *)
(* moves a forecast along any other path.                                  *)
THEOREM BusImplementsWorkflow == Spec => ImplementsWorkflow
BY BusUsesStore, StoreImplementsWorkflow, PTL

(* A message leaves the stream's redelivery only when its command has a    *)
(* recorded outcome, or when it was one the consumer gives up on.          *)
THEOREM BusLosesNothing == Spec => []NothingSettledUndecided
<1>1. BusInv => NothingSettledUndecided
  BY DEF BusInv
<1> QED BY <1>1, BusCorrect, PTL

(* Nobody is named in the audit trail for what the console did not send in *)
(* that person's name, and only administrators review, approve or return.  *)
THEOREM BusTracesAuthority == Spec => []AuthorityTraced
<1>1. BusInv => AuthorityTraced
  BY DEF BusInv
<1> QED BY <1>1, BusCorrect, PTL

(* Imported figures are stored only with their provenance intact.          *)
THEOREM BusKeepsProvenance == Spec => []ProvenanceKept
<1>1. BusInv => ProvenanceKept
  BY DEF BusInv
<1> QED BY <1>1, BusCorrect, PTL

(* The outcome of a reference is final: redelivery neither replaces it nor *)
(* adds to the audit trail.                                                *)
THEOREM BusOutcomeFinal == Spec => OutcomeFinal
<1> DEFINE Final == \A ref \in Refs : commands[ref] # None =>
                       /\ commands'[ref] = commands[ref]
                       /\ \A a \in audit' \ audit : a.ref # ref
<1>1. BusInv /\ [Next]_vars => Final
  <2> SUFFICES ASSUME BusInv, [Next]_vars,
                      NEW ref \in Refs, commands[ref] # None
               PROVE  /\ commands'[ref] = commands[ref]
                      /\ \A a \in audit' \ audit : a.ref # ref
    OBVIOUS
  <2>1. commands'[ref] = commands[ref]
    BY NextKeepsDecided DEF BusInv
  <2>2. ASSUME NEW a \in audit' \ audit
        PROVE  a.ref # ref
    <3>1. PICK i \in DOMAIN messages : HandleCommand(messages[i])
      BY <2>2, OnlyHandlingStores DEF storeVars
    <3> QED BY <2>2, <3>1, HandledIsCommand, ApplyAudits DEF BusInv
  <2> QED BY <2>1, <2>2
<1>2. BusInv /\ [Next]_vars => [Final]_vars
  BY <1>1
<1>3. Spec => [][Final]_vars
  BY <1>2, BusCorrect, PTL DEF Spec
<1> QED BY <1>3 DEF OutcomeFinal

(* A forecast changes only by a message that is decided with that change   *)
(* and was written against the revision it replaces.                       *)
THEOREM BusLosesNoUpdate == Spec => NoLostUpdate
<1> DEFINE Seen ==
      \A id \in Ids :
        forecasts[id] # None /\ forecasts'[id] # forecasts[id] =>
          \E i \in DOMAIN messages :
            LET c == messages[i].cmd
            IN /\ ~Decided(c.ref) /\ Decided(c.ref)'
               /\ c.id = id
               /\ c.expected = forecasts[id].revision
<1>1. BusInv /\ [Next]_vars => Seen
  <2> SUFFICES ASSUME BusInv, [Next]_vars,
                      NEW id \in Ids, forecasts[id] # None, forecasts'[id] # forecasts[id]
               PROVE  \E i \in DOMAIN messages :
                        LET c == messages[i].cmd
                        IN /\ ~Decided(c.ref) /\ Decided(c.ref)'
                           /\ c.id = id
                           /\ c.expected = forecasts[id].revision
    OBVIOUS
  <2>1. PICK i \in DOMAIN messages : HandleCommand(messages[i])
    BY OnlyHandlingStores DEF storeVars
  <2> DEFINE c == Received(messages[i])
  <2>2. /\ messages[i] \in Sent /\ c \in Commands /\ Apply(c)
        /\ messages' = messages
    BY <2>1, HandledIsCommand DEF BusInv, HandleCommand, Handling
  <2>3. /\ c.id = id /\ c.expected = forecasts[id].revision
        /\ commands[c.ref] = None
        /\ c.ref \in Refs /\ commands'[c.ref] # None
    BY <2>2, ApplyIsCurrent, ApplyDecides DEF BusInv
  <2>4. /\ c.id = messages[i].cmd.id /\ c.ref = messages[i].cmd.ref
        /\ c.expected = messages[i].cmd.expected
    BY <2>2, ReceivedFields
  <2>5. /\ ~Decided(messages[i].cmd.ref) /\ Decided(messages[i].cmd.ref)'
        /\ messages[i].cmd.id = id
        /\ messages[i].cmd.expected = forecasts[id].revision
    BY <2>2, <2>3, <2>4 DEF Decided
  <2> QED BY <2>5
<1>2. BusInv /\ [Next]_vars => [Seen]_vars
  BY <1>1
<1>3. Spec => [][Seen]_vars
  BY <1>2, BusCorrect, PTL DEF Spec
<1> QED BY <1>3 DEF NoLostUpdate
=============================================================================
