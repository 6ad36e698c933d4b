-------------------------------- MODULE Outbox --------------------------------
(***************************************************************************)
(* Announcing outcomes: the goroutine Server.flushOutbox over the outbox   *)
(* table that Apply (module Store) fills.  Every outcome goes to the HUMUS *)
(* stream, every change of a forecast also to RIVER.  The row of outbox is *)
(* updated after the publication, so a crash or a lost acknowledgement in  *)
(* between publishes again; the streams (external) drop a MsgId they       *)
(* remember.                                                               *)
(***************************************************************************)
EXTENDS Store, Sequences, FiniteSets

CONSTANTS
  Limit,               \* LIMIT 50
  MaxFaults            \* bound on failed publications and updates, crashes

Streams == {"humus", "river"}

VARIABLES
  inserted,            \* the references in outbox, in rowid order
  rows,                \* the result of the SELECT, which holds the one connection
  items,               \* rows read by the last scan, still to be handled
  stage,               \* what is done next for the first of them
  stream,              \* the references announced on each stream
  seen,                \* the MsgIds each stream remembers
  down,                \* the streams that refuse every publication
  faults

flushVars == <<inserted, rows, items, stage, stream, seen, down, faults>>
vars == <<storeVars, flushVars>>

ASSUME OutboxAssumption ==
  /\ Limit \in Nat \ {0} /\ MaxFaults \in Nat

First == <<"humus", "publish">>

Item == [ref : Refs, sent : [Streams -> BOOLEAN]]

FlushTypeOK ==
  /\ StoreTypeOK
  /\ inserted \in Seq(Refs)
  /\ rows \in {"open", "closed"}
  /\ items \in Seq(Item)
  /\ \A k \in DOMAIN items : outbox[items[k].ref] # None
  /\ stage \in Streams \X {"publish", "update"}
  /\ items = <<>> => stage = First
  /\ stream \in [Streams -> Seq(Refs)]
  /\ seen \in [Streams -> SUBSET Refs]
  /\ down \subseteq Streams
  /\ faults \in 0 .. MaxFaults

Init ==
  /\ StoreInit
  /\ inserted = <<>> /\ rows = "closed" /\ items = <<>> /\ stage = First
  /\ stream = [t \in Streams |-> <<>>]
  /\ seen = [t \in Streams |-> {}]
  /\ down \in SUBSET Streams
  /\ faults = 0

Fault == faults < MaxFaults /\ faults' = faults + 1

-----------------------------------------------------------------------------

(* The pool has one connection: nobody else reads or writes the database   *)
(* while rows are open.                                                    *)
ConnectionFree == rows = "closed"

(* A command is decided; a row it adds to outbox is the last in rowid      *)
(* order, because no row is ever deleted.                                  *)
Decide(c) ==
  /\ ConnectionFree
  /\ Apply(c)
  /\ inserted' = IF outbox' = outbox THEN inserted ELSE Append(inserted, c.ref)
  /\ UNCHANGED <<rows, items, stage, stream, seen, down, faults>>

Sent(ref) == [humus |-> outbox[ref].humusSent, river |-> outbox[ref].riverSent]

Unsent(ref) == \E t \in Streams : ~Sent(ref)[t]

(* The positions, in rowid order, of the rows the SELECT matches.          *)
UnsentAt == {k \in DOMAIN inserted : Unsent(inserted[k])}

Waiting == Cardinality(UnsentAt)

NewestUnsent(n) ==
  {f \in [1 .. n -> UnsentAt] :
     /\ \A j, k \in 1 .. n : j < k => f[j] > f[k]
     /\ \A i \in UnsentAt : (\E j \in 1 .. n : f[j] = i) \/ (\A j \in 1 .. n : f[j] > i)}

(* The first n of them.  The SELECT names no order and no index serves it, *)
(* so SQLite scans by rowid.                                               *)
FirstUnsent(n) ==
  {f \in [1 .. n -> UnsentAt] :
     /\ \A j, k \in 1 .. n : j < k => f[j] < f[k]
     /\ \A i \in UnsentAt : (\E j \in 1 .. n : f[j] = i) \/ (\A j \in 1 .. n : f[j] < i)}

Row(k) == [ref |-> inserted[k], sent |-> Sent(inserted[k])]

(* A tick of the second: the SELECT opens its rows.                        *)
Query ==
  /\ items = <<>> /\ ConnectionFree
  /\ Waiting > 0
  /\ rows' = "open"
  /\ UNCHANGED <<storeVars, inserted, items, stage, stream, seen, down, faults>>

AfterReadDeferred == "open"

(* rows.Close() comes before the first UPDATE, which needs the connection. *)
AfterRead == "closed"

(* At most Limit rows with something to send are read.                     *)
Scan ==
  /\ items = <<>> /\ rows = "open"
  /\ LET n == IF Waiting < Limit THEN Waiting ELSE Limit
     IN \E f \in FirstUnsent(n) : items' = [k \in 1 .. n |-> Row(f[k])]
  /\ rows' = AfterRead
  /\ stage' = First
  /\ UNCHANGED <<storeVars, inserted, stream, seen, down, faults>>

NextTargetSkipsRiver(t) == stage' = First /\ items' = Tail(items)

(* On to the next stream, and after the last of them to the next row.      *)
NextTarget(t) ==
  IF t = "humus" THEN stage' = <<"river", "publish">> /\ UNCHANGED items
  ELSE stage' = First /\ items' = Tail(items)

At(t, step) == items # <<>> /\ stage = <<t, step>>

(* JetStream stores the event, unless it remembers its MsgId.              *)
Keep(t, ref) ==
  IF ref \in seen[t]
  THEN UNCHANGED <<stream, seen>>
  ELSE /\ stream' = [stream EXCEPT ![t] = Append(@, ref)]
       /\ seen' = [seen EXCEPT ![t] = @ \cup {ref}]

AlreadySent(t) ==
  /\ At(t, "publish") /\ Head(items).sent[t]
  /\ NextTarget(t)
  /\ UNCHANGED <<storeVars, inserted, rows, stream, seen, down, faults>>

Published(t) ==
  /\ At(t, "publish") /\ ~Head(items).sent[t] /\ t \notin down
  /\ Keep(t, Head(items).ref)
  /\ stage' = <<t, "update">>
  /\ UNCHANGED <<storeVars, inserted, rows, items, down, faults>>

(* The stream is down: an error, nothing is stored, the row stays unsent.  *)
Unavailable(t) ==
  /\ At(t, "publish") /\ ~Head(items).sent[t] /\ t \in down
  /\ NextTarget(t)
  /\ UNCHANGED <<storeVars, inserted, rows, stream, seen, down, faults>>

(* A passing error, before or after the stream stored the event.           *)
PublishError(t) ==
  /\ At(t, "publish") /\ ~Head(items).sent[t] /\ t \notin down
  /\ \/ Keep(t, Head(items).ref)
     \/ UNCHANGED <<stream, seen>>
  /\ NextTarget(t)
  /\ Fault
  /\ UNCHANGED <<storeVars, inserted, rows, down>>

MarkBothSent(t, row) == [row EXCEPT !.humusSent = TRUE, !.riverSent = TRUE]

MarkSent(t, row) ==
  IF t = "humus" THEN [row EXCEPT !.humusSent = TRUE] ELSE [row EXCEPT !.riverSent = TRUE]

Update(t) ==
  /\ At(t, "update") /\ ConnectionFree
  /\ outbox' = [outbox EXCEPT ![Head(items).ref] = MarkSent(t, @)]
  /\ NextTarget(t)
  /\ UNCHANGED <<forecasts, revisions, commands, audit, inserted, rows, stream, seen, down, faults>>

(* The result of the UPDATE is ignored.                                    *)
UpdateError(t) ==
  /\ At(t, "update") /\ ConnectionFree
  /\ NextTarget(t)
  /\ Fault
  /\ UNCHANGED <<storeVars, inserted, rows, stream, seen, down>>

Crash ==
  /\ items # <<>> \/ rows = "open"
  /\ rows' = "closed" /\ items' = <<>> /\ stage' = First
  /\ Fault
  /\ UNCHANGED <<storeVars, inserted, stream, seen, down>>

(* The deduplication window of a stream passes.                            *)
Forget(t, ref) ==
  /\ ref \in seen[t]
  /\ seen' = [seen EXCEPT ![t] = @ \ {ref}]
  /\ UNCHANGED <<storeVars, inserted, rows, items, stage, stream, down, faults>>

-----------------------------------------------------------------------------

Flush(t) == AlreadySent(t) \/ Published(t) \/ Unavailable(t) \/ Update(t)

Next ==
  \/ \E c \in Commands : Decide(c)
  \/ Query
  \/ Scan
  \/ \E t \in Streams :
       \/ Flush(t)
       \/ PublishError(t) \/ UpdateError(t)
       \/ \E ref \in Refs : Forget(t, ref)
  \/ Crash

(* The ticker ticks and the loop runs for as long as the process does.     *)
Fairness == WF_vars(Query \/ Scan) /\ WF_vars(\E t \in Streams : Flush(t))

Spec == Init /\ [][Next]_vars

FairSpec == Spec /\ Fairness

-----------------------------------------------------------------------------

Announced(t, ref) == \E k \in DOMAIN stream[t] : stream[t][k] = ref

Applied(ref) == commands[ref] # None /\ commands[ref].status = "applied"

(* The flags never run ahead of the streams: a row is marked only after    *)
(* the event is stored, so no crash, lost acknowledgement or failed update *)
(* can lose an announcement.                                               *)
SentWasAnnounced ==
  \A ref \in Refs : outbox[ref] # None =>
    /\ outbox[ref].humusSent => Announced("humus", ref)
    /\ outbox[ref].riverSent => Announced("river", ref) \/ ~Applied(ref)

(* River carries changed records only: nothing is announced before it is   *)
(* committed, and a refused command is never announced as a change.        *)
RiverShowsChanges ==
  /\ \A ref \in Refs : Announced("river", ref) => Applied(ref)
  /\ \A ref \in Refs : Announced("humus", ref) => commands[ref] # None

(* While nothing fails, the changes of a forecast reach River in the order *)
(* of its revisions and once each.  (After a failed publication a later    *)
(* revision may be announced before an earlier one.)                       *)
RiverInRevisionOrder ==
  faults = 0 =>
    \A j, k \in DOMAIN stream["river"] :
      LET first == commands[stream["river"][j]]
          second == commands[stream["river"][k]]
      IN j < k /\ first.id = second.id => first.revision < second.revision

(* A stream that is down keeps its rows unsent for good, and more of them  *)
(* than a scan reads shut out every later row.                             *)
Crowded == down # {} /\ Waiting > Limit

(* Every outcome is announced on Humus in the end, through crashes, failed *)
(* publications and failed updates, and although the scan and the updates  *)
(* share one database connection with the rest of the process.             *)
OutcomesReachHumus ==
  \A ref \in Refs :
    commands[ref] # None /\ "humus" \notin down ~> Announced("humus", ref) \/ Crowded

(* Every change is announced on River in the end, also while every         *)
(* publication on Humus fails, until more rows wait than a scan reads.     *)
ChangesReachRiver ==
  \A ref \in Refs :
    Applied(ref) /\ "river" \notin down ~> Announced("river", ref) \/ Crowded
=============================================================================
