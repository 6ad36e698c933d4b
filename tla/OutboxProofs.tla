----------------------------- MODULE OutboxProofs -----------------------------
(***************************************************************************)
(* Proofs about Outbox: a row is marked as sent only when its outcome is   *)
(* on the stream, and nothing but what was committed is announced, for any *)
(* number of commands, rows, failures and crashes.  While nothing fails,   *)
(* River has the changes of a forecast in the order of their revisions.    *)
(* The tables still implement Workflow.                                    *)
(***************************************************************************)
EXTENDS Outbox, StoreProofs, SequenceTheorems, FiniteSetTheorems

(* A row of outbox and the decision it announces are written together, and *)
(* the flag of River starts false for a change alone.                      *)
RowsDecided ==
  /\ \A ref \in Refs : outbox[ref] # None => commands[ref] # None
  /\ \A ref \in Refs : outbox[ref] # None /\ ~outbox[ref].riverSent => Applied(ref)
  /\ \A k \in DOMAIN inserted : outbox[inserted[k]] # None

(* What the flush holds in its hands.                                      *)
ItemsDecided ==
  \A k \in DOMAIN items : ~items[k].sent["river"] => Applied(items[k].ref)

Remembered ==
  \A t \in Streams, ref \in Refs : ref \in seen[t] => Announced(t, ref)

AboutToMark ==
  \A t \in Streams : At(t, "update") => Announced(t, Head(items).ref)

OutboxInv ==
  /\ StoreInv /\ FlushTypeOK
  /\ RowsDecided /\ ItemsDecided /\ Remembered /\ AboutToMark
  /\ SentWasAnnounced /\ RiverShowsChanges

-----------------------------------------------------------------------------
(* The parts of the step                                                   *)

LEMMA ItemRefs ==
  ASSUME FlushTypeOK
  PROVE  \A k \in DOMAIN items : items[k].ref \in Refs
<1>1. items \in Seq(Item) /\ DOMAIN items = 1 .. Len(items)
  BY DEF FlushTypeOK
<1>2. \A k \in 1 .. Len(items) : items[k] \in Item
  BY <1>1, ElementOfSeq
<1> QED BY <1>1, <1>2 DEF Item

LEMMA HeadIsItem ==
  ASSUME FlushTypeOK, items # <<>>
  PROVE  /\ Head(items) \in Item /\ Head(items).ref \in Refs
         /\ Head(items) = items[1] /\ 1 \in DOMAIN items
         /\ outbox[Head(items).ref] # None
         /\ Tail(items) \in Seq(Item)
         /\ \A k \in DOMAIN Tail(items) : k + 1 \in DOMAIN items /\ Tail(items)[k] = items[k + 1]
<1>1. items \in Seq(Item)
  BY DEF FlushTypeOK
<1>2. /\ Head(items) \in Item /\ Head(items) = items[1] /\ 1 \in DOMAIN items
      /\ Tail(items) \in Seq(Item)
      /\ Len(items) \in Nat \ {0} /\ DOMAIN items = 1 .. Len(items)
      /\ DOMAIN Tail(items) = 1 .. Len(items) - 1
      /\ \A k \in 1 .. Len(items) - 1 : Tail(items)[k] = items[k + 1]
  BY <1>1
<1>3. Head(items).ref \in Refs
  BY <1>2 DEF Item
<1>4. outbox[Head(items).ref] # None
  BY <1>2 DEF FlushTypeOK
<1> QED BY <1>2, <1>3, <1>4

(* Going on to the next stream or row: the items left are among those that *)
(* were there, and no update is due.                                       *)
LEMMA NextTargetFacts ==
  ASSUME FlushTypeOK, NEW t \in Streams, items # <<>>, NextTarget(t)
  PROVE  /\ items' \in Seq(Item)
         /\ stage' \in Streams \X {"publish"}
         /\ items' = <<>> => stage' = First
         /\ \A k \in DOMAIN items' : \E j \in DOMAIN items : items'[k] = items[j]
<1>1. CASE t = "humus"
  BY <1>1 DEF NextTarget, FlushTypeOK, Streams
<1>2. CASE t = "river"
  BY <1>2, HeadIsItem DEF NextTarget, Streams, First
<1> QED BY <1>1, <1>2 DEF Streams

LEMMA KeepFacts ==
  ASSUME FlushTypeOK, Remembered, NEW t \in Streams, NEW ref \in Refs, Keep(t, ref)
  PROVE  /\ stream' \in [Streams -> Seq(Refs)]
         /\ seen' \in [Streams -> SUBSET Refs]
         /\ Announced(t, ref)'
         /\ \A u \in Streams, q \in Refs : Announced(u, q) => Announced(u, q)'
         /\ \A u \in Streams, q \in Refs : Announced(u, q)' => Announced(u, q) \/ (u = t /\ q = ref)
         /\ Remembered'
<1>1. CASE ref \in seen[t]
  BY <1>1 DEF Keep, FlushTypeOK, Remembered, Announced
<1>2. CASE ref \notin seen[t]
  <2>1. /\ stream' = [stream EXCEPT ![t] = Append(stream[t], ref)]
        /\ seen' = [seen EXCEPT ![t] = seen[t] \cup {ref}]
    BY <1>2 DEF Keep
  <2>2. /\ stream[t] \in Seq(Refs) /\ stream[t] \in Seq(Refs)
        /\ stream'[t] = Append(stream[t], ref)
        /\ \A u \in Streams : u # t => stream'[u] = stream[u]
    BY <2>1 DEF FlushTypeOK
  <2>3. /\ Append(stream[t], ref) \in Seq(Refs)
        /\ DOMAIN Append(stream[t], ref) = 1 .. Len(stream[t]) + 1
        /\ DOMAIN stream[t] = 1 .. Len(stream[t]) /\ Len(stream[t]) \in Nat
        /\ Append(stream[t], ref)[Len(stream[t]) + 1] = ref
        /\ \A k \in DOMAIN stream[t] : Append(stream[t], ref)[k] = stream[t][k]
    BY <2>2
  <2>4. Announced(t, ref)'
    BY <2>2, <2>3 DEF Announced
  <2>5. \A u \in Streams, q \in Refs : Announced(u, q) => Announced(u, q)'
    BY <2>2, <2>3 DEF Announced
  <2>6. \A u \in Streams, q \in Refs : Announced(u, q)' => Announced(u, q) \/ (u = t /\ q = ref)
    BY <2>2, <2>3 DEF Announced
  <2>7. stream' \in [Streams -> Seq(Refs)] /\ seen' \in [Streams -> SUBSET Refs]
    BY <2>1, <2>3 DEF FlushTypeOK
  <2>8. Remembered'
    BY <2>1, <2>4, <2>5 DEF Remembered, FlushTypeOK
  <2> QED BY <2>4, <2>5, <2>6, <2>7, <2>8
<1> QED BY <1>1, <1>2

(* The rows a scan reads.                                                  *)
LEMMA ScanFacts ==
  ASSUME FlushTypeOK, RowsDecided, Scan
  PROVE  /\ items' \in Seq(Item)
         /\ \A k \in DOMAIN items' :
              /\ outbox[items'[k].ref] # None
              /\ ~items'[k].sent["river"] => Applied(items'[k].ref)
<1>1. IsFiniteSet(UnsentAt)
  <2>1. DOMAIN inserted = 1 .. Len(inserted) /\ Len(inserted) \in Nat
    BY DEF FlushTypeOK
  <2>2. IsFiniteSet(1 .. Len(inserted))
    BY <2>1, FS_Interval
  <2>3. UnsentAt \in SUBSET (1 .. Len(inserted))
    BY <2>1 DEF UnsentAt
  <2> QED BY <2>2, <2>3, FS_Subset
<1>2. PICK n \in Nat : \E f \in FirstUnsent(n) : items' = [k \in 1 .. n |-> Row(f[k])]
  BY <1>1, FS_CardinalityType, OutboxAssumption DEF Scan, Waiting
<1>3. PICK f \in [1 .. n -> UnsentAt] : items' = [k \in 1 .. n |-> Row(f[k])]
  BY <1>2 DEF FirstUnsent
<1>4. ASSUME NEW k \in 1 .. n
      PROVE  /\ Row(f[k]) \in Item
             /\ outbox[Row(f[k]).ref] # None
             /\ ~Row(f[k]).sent["river"] => Applied(Row(f[k]).ref)
  <2>1. f[k] \in DOMAIN inserted
    BY DEF UnsentAt
  <2>2. inserted[f[k]] \in Refs /\ outbox[inserted[f[k]]] # None
    BY <2>1 DEF FlushTypeOK, RowsDecided
  <2>3. outbox[inserted[f[k]]] \in OutboxRow
    BY <2>2 DEF FlushTypeOK, StoreTypeOK
  <2>4. Sent(inserted[f[k]]) \in [Streams -> BOOLEAN]
    BY <2>3 DEF Sent, Streams, OutboxRow
  <2>5. Sent(inserted[f[k]])["river"] = outbox[inserted[f[k]]].riverSent
    BY DEF Sent
  <2>6. Row(f[k]) \in Item /\ Row(f[k]).ref = inserted[f[k]] /\ Row(f[k]).sent = Sent(inserted[f[k]])
    BY <2>2, <2>4 DEF Row, Item
  <2> QED BY <2>2, <2>5, <2>6 DEF RowsDecided
<1>5. items' \in Seq(Item) /\ DOMAIN items' = 1 .. n
  BY <1>3, <1>4
<1> QED BY <1>3, <1>4, <1>5

(* What Apply leaves in outbox.                                            *)
LEMMA ApplyRows ==
  ASSUME StoreInv, NEW c \in Commands, Apply(c)
  PROVE  \/ UNCHANGED storeVars
         \/ /\ c.ref \in Refs /\ commands[c.ref] = None
            /\ \E r \in Result :
                 /\ commands' = [commands EXCEPT ![c.ref] = r]
                 /\ outbox' = [outbox EXCEPT ![c.ref] =
                      [result |-> r, humusSent |-> FALSE, riverSent |-> r.status # "applied"]]
<1>1. CASE Replay(c)
  BY <1>1 DEF Replay
<1>2. CASE Refuse(c)
  <2>1. c \in Command
    BY StoreAssumption
  <2>2. [id |-> c.id, revision |-> 0, status |-> "failed"] \in Result
    BY <2>1 DEF Result, Command
  <2> QED BY <1>2, <2>2 DEF Refuse, Accepts, Undecided, RecordResult
<1>3. ASSUME NEW id \in Ids, Commit(c, id)
      PROVE  /\ c.ref \in Refs /\ commands[c.ref] = None
             /\ \E r \in Result :
                  /\ commands' = [commands EXCEPT ![c.ref] = r]
                  /\ outbox' = [outbox EXCEPT ![c.ref] =
                       [result |-> r, humusSent |-> FALSE, riverSent |-> r.status # "applied"]]
  <2>1. NextRevision(c).revision \in Nat
    BY <1>3, CommitShape DEF Forecast
  <2>2. [id |-> id, revision |-> NextRevision(c).revision, status |-> "applied"] \in Result
    BY <2>1 DEF Result
  <2> QED BY <1>3, <2>2 DEF Commit, Accepts, Undecided, RecordResult
<1> QED BY <1>1, <1>2, <1>3 DEF Apply

-----------------------------------------------------------------------------
(* The step                                                                *)

LEMMA DecideKeepsInv ==
  ASSUME OutboxInv, NEW c \in Commands, Decide(c)
  PROVE  OutboxInv'
<1> USE DEF OutboxInv
<1>0. StoreInv' /\ StoreTypeOK'
  BY ApplyKeepsInv DEF Decide, StoreInv
<1>1. UNCHANGED <<rows, items, stage, stream, seen, down, faults>>
  BY DEF Decide
<1>2. CASE UNCHANGED storeVars
  <2>1. UNCHANGED inserted
    BY <1>2 DEF Decide, storeVars
  <2> QED
    BY <1>0, <1>1, <1>2, <2>1 DEF storeVars, FlushTypeOK, RowsDecided, ItemsDecided, Remembered,
       AboutToMark, At, SentWasAnnounced, RiverShowsChanges, Announced, Applied
<1>3. CASE /\ c.ref \in Refs /\ commands[c.ref] = None
           /\ \E r \in Result :
                /\ commands' = [commands EXCEPT ![c.ref] = r]
                /\ outbox' = [outbox EXCEPT ![c.ref] =
                     [result |-> r, humusSent |-> FALSE, riverSent |-> r.status # "applied"]]
  <2>1. PICK r \in Result :
          /\ commands' = [commands EXCEPT ![c.ref] = r]
          /\ outbox' = [outbox EXCEPT ![c.ref] =
               [result |-> r, humusSent |-> FALSE, riverSent |-> r.status # "applied"]]
    BY <1>3
  <2> DEFINE row == [result |-> r, humusSent |-> FALSE, riverSent |-> r.status # "applied"]
  <2>2. row \in OutboxRow
    BY DEF OutboxRow
  <2>3. row.humusSent = FALSE /\ (~row.riverSent => r.status = "applied")
    BY Zenon
  <2>4. row.riverSent => r.status # "applied"
    BY Zenon
  <2>5. outbox' = [outbox EXCEPT ![c.ref] = row]
    BY <2>1
  <2> HIDE DEF row
  <2>6. /\ commands \in [Refs -> Result \cup {None}] /\ outbox \in [Refs -> OutboxRow \cup {None}]
        /\ inserted \in Seq(Refs)
    BY DEF FlushTypeOK, StoreTypeOK
  <2>7. /\ row # None /\ r # None
        /\ outbox'[c.ref] = row /\ commands'[c.ref] = r
        /\ \A q \in Refs : q # c.ref => outbox'[q] = outbox[q] /\ commands'[q] = commands[q]
    BY <1>3, <2>1, <2>2, <2>5, <2>6, StoreAssumption
  <2>8. outbox[c.ref] = None
    BY <1>3 DEF RowsDecided
  <2>9. inserted' = Append(inserted, c.ref)
    BY <2>7, <2>8 DEF Decide
  <2>10. /\ inserted' \in Seq(Refs)
         /\ \A k \in DOMAIN inserted' : outbox'[inserted'[k]] # None
    <3>1. /\ DOMAIN inserted = 1 .. Len(inserted) /\ Len(inserted) \in Nat
          /\ DOMAIN inserted' = 1 .. Len(inserted) + 1
          /\ inserted'[Len(inserted) + 1] = c.ref
          /\ \A k \in DOMAIN inserted : inserted'[k] = inserted[k] /\ inserted[k] \in Refs
          /\ inserted' \in Seq(Refs)
      BY <1>3, <2>6, <2>9
    <3> QED BY <2>7, <3>1 DEF RowsDecided
  <2>11. FlushTypeOK'
    <3>1. \A k \in DOMAIN items : items[k].ref \in Refs
      BY ItemRefs
    <3> QED BY <1>0, <1>1, <2>7, <2>10, <3>1 DEF FlushTypeOK
  <2>12. \A q \in Refs : Applied(q) => Applied(q)'
    BY <1>3, <2>7 DEF Applied
  <2>13. Applied(c.ref)' <=> r.status = "applied"
    BY <2>7 DEF Applied
  <2>14. RowsDecided'
    BY <1>3, <2>3, <2>7, <2>10, <2>12, <2>13 DEF RowsDecided
  <2>15. ItemsDecided'
    <3>1. \A k \in DOMAIN items : items[k].ref \in Refs
      BY ItemRefs
    <3> QED BY <1>1, <2>12, <3>1 DEF ItemsDecided
  <2>16. Remembered' /\ AboutToMark'
    BY <1>1 DEF Remembered, AboutToMark, At, Announced
  <2>17. SentWasAnnounced'
    BY <1>1, <1>3, <2>3, <2>4, <2>7, <2>13 DEF SentWasAnnounced, Announced, Applied
  <2>18. RiverShowsChanges'
    BY <1>1, <2>7, <2>12 DEF RiverShowsChanges, Announced
  <2> QED BY <1>0, <2>11, <2>14, <2>15, <2>16, <2>17, <2>18
<1> QED BY <1>2, <1>3, ApplyRows DEF Decide

(* A row is done with, or a stream: what is left was read by the scan.     *)
LEMMA HandledItems ==
  ASSUME OutboxInv, NEW t \in Streams, items # <<>>, NextTarget(t),
         UNCHANGED commands,
         \A ref \in Refs : outbox[ref] # None => outbox'[ref] # None
  PROVE  /\ items' \in Seq(Item)
         /\ \A k \in DOMAIN items' : outbox'[items'[k].ref] # None
         /\ stage' \in Streams \X {"publish", "update"}
         /\ items' = <<>> => stage' = First
         /\ ItemsDecided' /\ AboutToMark'
<1>1. FlushTypeOK /\ ItemsDecided
  BY DEF OutboxInv
<1>2. /\ items' \in Seq(Item)
      /\ stage' \in Streams \X {"publish"}
      /\ items' = <<>> => stage' = First
      /\ \A k \in DOMAIN items' : \E j \in DOMAIN items : items'[k] = items[j]
  BY <1>1, NextTargetFacts
<1>3. \A j \in DOMAIN items : items[j].ref \in Refs /\ outbox[items[j].ref] # None
  BY <1>1, ItemRefs DEF FlushTypeOK
<1>4. \A k \in DOMAIN items' : outbox'[items'[k].ref] # None
  BY <1>2, <1>3
<1>5. ItemsDecided'
  BY <1>1, <1>2 DEF ItemsDecided, Applied
<1>6. AboutToMark'
  BY <1>2 DEF AboutToMark, At, First
<1> QED BY <1>2, <1>4, <1>5, <1>6

LEMMA SkippedKeepsInv ==
  ASSUME OutboxInv, NEW t \in Streams, items # <<>>, NextTarget(t),
         UNCHANGED <<storeVars, inserted, rows, stream, seen, down>>, faults' \in 0 .. MaxFaults
  PROVE  OutboxInv'
<1> USE DEF OutboxInv
<1>1. UNCHANGED <<commands, outbox>>
  BY DEF storeVars
<1>2. /\ items' \in Seq(Item)
      /\ \A k \in DOMAIN items' : outbox'[items'[k].ref] # None
      /\ stage' \in Streams \X {"publish", "update"}
      /\ items' = <<>> => stage' = First
      /\ ItemsDecided' /\ AboutToMark'
  BY <1>1, HandledItems
<1>3. StoreInv' /\ StoreTypeOK'
  BY UnchangedKeepsInv DEF StoreInv
<1>4. FlushTypeOK'
  BY <1>2, <1>3 DEF FlushTypeOK
<1>5. RowsDecided' /\ Remembered' /\ SentWasAnnounced' /\ RiverShowsChanges'
  BY <1>1 DEF RowsDecided, Remembered, SentWasAnnounced, RiverShowsChanges, Announced, Applied
<1> QED BY <1>2, <1>3, <1>4, <1>5

(* A publication that may have been stored.                                *)
LEMMA KeptAnnouncements ==
  ASSUME OutboxInv, NEW t \in Streams, At(t, "publish"), ~Head(items).sent[t],
         NEW ref \in Refs, ref = Head(items).ref,
         Keep(t, ref), UNCHANGED storeVars
  PROVE  /\ stream' \in [Streams -> Seq(Refs)]
         /\ seen' \in [Streams -> SUBSET Refs]
         /\ Announced(t, ref)'
         /\ Remembered' /\ SentWasAnnounced' /\ RiverShowsChanges'
<1> USE DEF OutboxInv
<1>1. outbox[ref] # None /\ 1 \in DOMAIN items /\ Head(items) = items[1]
  BY HeadIsItem DEF At
<1>2. /\ stream' \in [Streams -> Seq(Refs)]
      /\ seen' \in [Streams -> SUBSET Refs]
      /\ Announced(t, ref)'
      /\ \A u \in Streams, q \in Refs : Announced(u, q) => Announced(u, q)'
      /\ \A u \in Streams, q \in Refs : Announced(u, q)' => Announced(u, q) \/ (u = t /\ q = ref)
      /\ Remembered'
  BY KeepFacts
<1>3. UNCHANGED <<commands, outbox>>
  BY DEF storeVars
<1>4. "humus" \in Streams /\ "river" \in Streams
  BY DEF Streams
<1>5. SentWasAnnounced'
  BY <1>2, <1>3, <1>4 DEF SentWasAnnounced, Applied
<1>6. commands[ref] # None
  BY <1>1 DEF RowsDecided
<1>7. t = "river" => Applied(ref)
  BY <1>1 DEF ItemsDecided
<1>8. RiverShowsChanges'
  BY <1>2, <1>3, <1>4, <1>6, <1>7 DEF RiverShowsChanges, Applied
<1> QED BY <1>2, <1>5, <1>8

LEMMA PublishedKeepsInv ==
  ASSUME OutboxInv, NEW t \in Streams, Published(t)
  PROVE  OutboxInv'
<1> USE DEF OutboxInv
<1>1. PICK ref \in Refs : ref = Head(items).ref
  BY HeadIsItem DEF Published, At
<1>2. /\ stream' \in [Streams -> Seq(Refs)]
      /\ seen' \in [Streams -> SUBSET Refs]
      /\ Announced(t, ref)'
      /\ Remembered' /\ SentWasAnnounced' /\ RiverShowsChanges'
  BY <1>1, KeptAnnouncements DEF Published
<1>3. /\ UNCHANGED <<storeVars, inserted, rows, items, down, faults>>
      /\ stage' = <<t, "update">> /\ items # <<>>
  BY DEF Published, At
<1>4. StoreInv' /\ StoreTypeOK'
  BY <1>3, UnchangedKeepsInv DEF StoreInv
<1>5. UNCHANGED <<commands, outbox>>
  BY <1>3 DEF storeVars
<1>6. FlushTypeOK'
  BY <1>2, <1>3, <1>4, <1>5 DEF FlushTypeOK
<1>7. RowsDecided' /\ ItemsDecided'
  BY <1>3, <1>5 DEF RowsDecided, ItemsDecided, Applied
<1>8. AboutToMark'
  BY <1>1, <1>2, <1>3 DEF AboutToMark, At
<1> QED BY <1>2, <1>4, <1>6, <1>7, <1>8

LEMMA PublishErrorKeepsInv ==
  ASSUME OutboxInv, NEW t \in Streams, PublishError(t)
  PROVE  OutboxInv'
<1> USE DEF OutboxInv
<1>1. /\ items # <<>> /\ NextTarget(t) /\ faults' \in 0 .. MaxFaults
      /\ UNCHANGED <<storeVars, inserted, rows, down>>
  BY OutboxAssumption DEF PublishError, At, Fault, FlushTypeOK
<1>2. CASE UNCHANGED <<stream, seen>>
  BY <1>1, <1>2, SkippedKeepsInv
<1>3. CASE Keep(t, Head(items).ref)
  <2>1. PICK ref \in Refs : ref = Head(items).ref
    BY <1>1, HeadIsItem
  <2>2. /\ stream' \in [Streams -> Seq(Refs)]
        /\ seen' \in [Streams -> SUBSET Refs]
        /\ Remembered' /\ SentWasAnnounced' /\ RiverShowsChanges'
    BY <1>1, <1>3, <2>1, KeptAnnouncements DEF PublishError
  <2>3. UNCHANGED <<commands, outbox>>
    BY <1>1 DEF storeVars
  <2>4. /\ items' \in Seq(Item)
        /\ \A k \in DOMAIN items' : outbox'[items'[k].ref] # None
        /\ stage' \in Streams \X {"publish", "update"}
        /\ items' = <<>> => stage' = First
        /\ ItemsDecided' /\ AboutToMark'
    BY <1>1, <2>3, HandledItems
  <2>5. StoreInv' /\ StoreTypeOK'
    BY <1>1, UnchangedKeepsInv DEF StoreInv
  <2>6. FlushTypeOK'
    BY <1>1, <2>2, <2>4, <2>5 DEF FlushTypeOK
  <2>7. RowsDecided'
    BY <1>1, <2>3 DEF RowsDecided, Applied
  <2> QED BY <2>2, <2>4, <2>5, <2>6, <2>7
<1> QED BY <1>2, <1>3 DEF PublishError

(* The flag that is set is that of a stream the outcome is on.             *)
LEMMA UpdateKeepsInv ==
  ASSUME OutboxInv, NEW t \in Streams, Update(t)
  PROVE  OutboxInv'
<1> USE DEF OutboxInv
<1>1. PICK ref \in Refs : ref = Head(items).ref
  BY HeadIsItem DEF Update, At
<1>2. /\ items # <<>> /\ NextTarget(t)
      /\ outbox' = [outbox EXCEPT ![ref] = MarkSent(t, outbox[ref])]
      /\ UNCHANGED <<forecasts, revisions, commands, audit, inserted, rows, stream, seen, down, faults>>
  BY <1>1 DEF Update, At
<1>3. Announced(t, ref) /\ outbox[ref] # None
  BY <1>1, <1>2, HeadIsItem DEF Update, AboutToMark
<1>4. outbox \in [Refs -> OutboxRow \cup {None}] /\ outbox[ref] \in OutboxRow
  BY <1>3 DEF FlushTypeOK, StoreTypeOK
<1>5. /\ MarkSent(t, outbox[ref]) \in OutboxRow
      /\ MarkSent(t, outbox[ref]).humusSent => outbox[ref].humusSent \/ t = "humus"
      /\ MarkSent(t, outbox[ref]).riverSent => outbox[ref].riverSent \/ t = "river"
      /\ outbox[ref].riverSent => MarkSent(t, outbox[ref]).riverSent
  <2>1. CASE t = "humus"
    BY <1>4, <2>1 DEF MarkSent, OutboxRow
  <2>2. CASE t = "river"
    BY <1>4, <2>2 DEF MarkSent, OutboxRow
  <2> QED BY <2>1, <2>2 DEF Streams
<1> DEFINE row == MarkSent(t, outbox[ref])
<1>6. row # None
  BY <1>5, StoreAssumption
<1>7. /\ outbox' = [outbox EXCEPT ![ref] = row]
      /\ outbox'[ref] = row
      /\ \A q \in Refs : q # ref => outbox'[q] = outbox[q]
      /\ outbox' \in [Refs -> OutboxRow \cup {None}]
  BY <1>2, <1>4, <1>5
<1> HIDE DEF row
<1>8. \A q \in Refs : outbox'[q] # None <=> outbox[q] # None
  BY <1>3, <1>6, <1>7
<1>9. StoreTypeOK'
  BY <1>2, <1>7 DEF FlushTypeOK, StoreTypeOK
<1>10. StoreInv'
  BY <1>2, <1>9 DEF StoreInv, HistoryMatchesForecasts, EveryRevisionAudited, ApprovedWasReviewed,
     LineageSound, RowsOf
<1>11. /\ items' \in Seq(Item)
       /\ \A k \in DOMAIN items' : outbox'[items'[k].ref] # None
       /\ stage' \in Streams \X {"publish", "update"}
       /\ items' = <<>> => stage' = First
       /\ ItemsDecided' /\ AboutToMark'
  BY <1>2, <1>8, HandledItems
<1>12. FlushTypeOK'
  BY <1>2, <1>9, <1>11 DEF FlushTypeOK
<1>13. RowsDecided'
  <2>1. \A q \in Refs : outbox'[q] # None /\ ~outbox'[q].riverSent => Applied(q)
    BY <1>3, <1>5, <1>7, <1>8 DEF RowsDecided, row
  <2>2. \A k \in DOMAIN inserted : inserted[k] \in Refs
    BY DEF FlushTypeOK
  <2> QED BY <1>2, <1>8, <2>1, <2>2 DEF RowsDecided, Applied
<1>14. Remembered' /\ RiverShowsChanges'
  BY <1>2 DEF Remembered, RiverShowsChanges, Announced, Applied
<1>15. SentWasAnnounced'
  <2>1. \A q \in Refs : outbox[q] # None =>
          /\ outbox[q].humusSent => Announced("humus", q)
          /\ outbox[q].riverSent => Announced("river", q) \/ ~Applied(q)
    BY DEF SentWasAnnounced
  <2>2. \A q \in Refs : outbox'[q] # None =>
          /\ outbox'[q].humusSent => Announced("humus", q)
          /\ outbox'[q].riverSent => Announced("river", q) \/ ~Applied(q)
    BY <1>3, <1>5, <1>7, <2>1 DEF row
  <2> QED BY <1>2, <2>2 DEF SentWasAnnounced, Announced, Applied
<1> QED BY <1>10, <1>11, <1>12, <1>13, <1>14, <1>15

LEMMA ScanKeepsInv ==
  ASSUME OutboxInv, Scan
  PROVE  OutboxInv'
<1> USE DEF OutboxInv
<1>1. /\ UNCHANGED <<storeVars, inserted, stream, seen, down, faults>>
      /\ stage' = First /\ rows' = "closed"
  BY DEF Scan, AfterRead
<1>2. /\ items' \in Seq(Item)
      /\ \A k \in DOMAIN items' :
           /\ outbox[items'[k].ref] # None
           /\ ~items'[k].sent["river"] => Applied(items'[k].ref)
  BY ScanFacts
<1>3. UNCHANGED <<commands, outbox>>
  BY <1>1 DEF storeVars
<1>4. StoreInv' /\ StoreTypeOK'
  BY <1>1, UnchangedKeepsInv DEF StoreInv
<1>5. First \in Streams \X {"publish", "update"}
  BY DEF First, Streams
<1>6. FlushTypeOK'
  BY <1>1, <1>2, <1>3, <1>4, <1>5 DEF FlushTypeOK
<1>7. RowsDecided' /\ ItemsDecided'
  BY <1>1, <1>2, <1>3 DEF RowsDecided, ItemsDecided, Applied
<1>8. AboutToMark'
  BY <1>1 DEF AboutToMark, At, First
<1>9. Remembered' /\ SentWasAnnounced' /\ RiverShowsChanges'
  BY <1>1, <1>3 DEF Remembered, SentWasAnnounced, RiverShowsChanges, Announced, Applied
<1> QED BY <1>4, <1>6, <1>7, <1>8, <1>9

(* The steps that read and write no row.                                   *)
LEMMA QuietKeepsInv ==
  ASSUME OutboxInv, UNCHANGED <<storeVars, inserted, stream, down>>,
         rows' \in {"open", "closed"}, faults' \in 0 .. MaxFaults,
         \A t \in Streams : seen'[t] \subseteq seen[t], seen' \in [Streams -> SUBSET Refs],
         UNCHANGED <<items, stage>> \/ (items' = <<>> /\ stage' = First)
  PROVE  OutboxInv'
<1> USE DEF OutboxInv
<1>1. UNCHANGED <<commands, outbox>>
  BY DEF storeVars
<1>2. StoreInv' /\ StoreTypeOK'
  BY UnchangedKeepsInv DEF StoreInv
<1>3. First \in Streams \X {"publish", "update"} /\ <<>> \in Seq(Item) /\ DOMAIN <<>> = {}
  BY DEF First, Streams
<1>4. FlushTypeOK'
  BY <1>1, <1>2, <1>3 DEF FlushTypeOK
<1>5. RowsDecided' /\ SentWasAnnounced' /\ RiverShowsChanges'
  BY <1>1 DEF RowsDecided, SentWasAnnounced, RiverShowsChanges, Announced, Applied
<1>6. ItemsDecided' /\ AboutToMark'
  BY <1>1, <1>3 DEF ItemsDecided, AboutToMark, At, First, Announced, Applied
<1>7. Remembered'
  BY DEF Remembered, Announced
<1> QED BY <1>2, <1>4, <1>5, <1>6, <1>7

LEMMA StepKeepsOutboxInv ==
  ASSUME OutboxInv, [Next]_vars
  PROVE  OutboxInv'
<1>0. FlushTypeOK
  BY DEF OutboxInv
<1>1. CASE UNCHANGED vars
  BY <1>0, <1>1, QuietKeepsInv DEF vars, flushVars, FlushTypeOK
<1>2. CASE Query
  BY <1>0, <1>2, QuietKeepsInv DEF Query, FlushTypeOK
<1>3. CASE Crash
  BY <1>0, <1>3, QuietKeepsInv, OutboxAssumption DEF Crash, Fault, FlushTypeOK
<1>4. ASSUME NEW t \in Streams, NEW ref \in Refs, Forget(t, ref)
      PROVE  OutboxInv'
  BY <1>0, <1>4, QuietKeepsInv DEF Forget, FlushTypeOK
<1>5. ASSUME NEW t \in Streams, AlreadySent(t) \/ Unavailable(t)
      PROVE  OutboxInv'
  BY <1>0, <1>5, SkippedKeepsInv DEF AlreadySent, Unavailable, At, FlushTypeOK
<1>6. ASSUME NEW t \in Streams, UpdateError(t)
      PROVE  OutboxInv'
  BY <1>0, <1>6, SkippedKeepsInv, OutboxAssumption DEF UpdateError, Fault, At, FlushTypeOK
<1> QED
  BY <1>1, <1>2, <1>3, <1>4, <1>5, <1>6, DecideKeepsInv, ScanKeepsInv, PublishedKeepsInv,
     PublishErrorKeepsInv, UpdateKeepsInv DEF Next, Flush

LEMMA InitEstablishesOutboxInv ==
  ASSUME Init
  PROVE  OutboxInv
<1>1. StoreInv
  BY InitEstablishesInv DEF Init
<1>2. FlushTypeOK
  BY <1>1, OutboxAssumption DEF Init, FlushTypeOK, StoreInv, First, Streams
<1>3. RowsDecided /\ ItemsDecided /\ Remembered /\ AboutToMark
  BY DEF Init, StoreInit, RowsDecided, ItemsDecided, Remembered, AboutToMark, At
<1>4. SentWasAnnounced /\ RiverShowsChanges
  BY DEF Init, StoreInit, SentWasAnnounced, RiverShowsChanges, Announced, Streams
<1> QED BY <1>1, <1>2, <1>3, <1>4 DEF OutboxInv

LEMMA OutboxInvariant == Spec => []OutboxInv
BY InitEstablishesOutboxInv, StepKeepsOutboxInv, PTL DEF Spec

(* The tables, the rows in hand and the streams keep their types, and a    *)
(* row in hand is always one of the table.                                 *)
THEOREM OutboxTyped == Spec => []FlushTypeOK
<1>1. OutboxInv => FlushTypeOK
  BY DEF OutboxInv
<1> QED BY <1>1, OutboxInvariant, PTL

(* A row is marked as sent only after its outcome is on the stream, through*)
(* any sequence of failures and crashes.                                   *)
THEOREM OutboxMarksWhatIsSent == Spec => []SentWasAnnounced
<1>1. OutboxInv => SentWasAnnounced
  BY DEF OutboxInv
<1> QED BY <1>1, OutboxInvariant, PTL

(* River never carries a refused command, and no stream an outcome that    *)
(* was not committed.                                                      *)
THEOREM OutboxAnnouncesDecisions == Spec => []RiverShowsChanges
<1>1. OutboxInv => RiverShowsChanges
  BY DEF OutboxInv
<1> QED BY <1>1, OutboxInvariant, PTL

-----------------------------------------------------------------------------
(***************************************************************************)
(* The order on River.  A scan takes the due rows from the front, the loop *)
(* announces them in rowid order, and rowids follow revisions; so while    *)
(* nothing fails the stream is always behind every row still due.          *)
(***************************************************************************)

Numbered(ref) == \E p \in DOMAIN inserted : inserted[p] = ref

Earlier(a, b) == \E p, q \in DOMAIN inserted : p < q /\ inserted[p] = a /\ inserted[q] = b

River == stream["river"]

RiverDue(ref) == outbox[ref] # None /\ ~outbox[ref].riverSent

InHand(ref) == \E k \in DOMAIN items : items[k].ref = ref /\ ~items[k].sent["river"]

(* Every row has one rowid, and the changes of a forecast have them in the *)
(* order of its revisions.                                                 *)
RowsInOrder ==
  /\ \A p, q \in DOMAIN inserted : inserted[p] = inserted[q] => p = q
  /\ \A ref \in Refs : outbox[ref] # None => Numbered(ref)
  /\ \A a, b \in Refs :
       Earlier(a, b) /\ Applied(a) /\ Applied(b) /\ commands[a].id = commands[b].id
         => commands[a].revision < commands[b].revision

(* The rows in hand are in rowid order, and none was marked meanwhile.     *)
ItemsInOrder ==
  /\ \A j, k \in DOMAIN items : j < k => Earlier(items[j].ref, items[k].ref)
  /\ \A k \in DOMAIN items : ~items[k].sent["river"] => RiverDue(items[k].ref)

(* A row that is due is behind all of the stream, but for the one that is  *)
(* published and not yet marked; and it is in hand, or behind all in hand. *)
RiverCaughtUp ==
  /\ \A k \in DOMAIN River : Numbered(River[k])
  /\ "river" \in down => River = <<>>
  /\ faults = 0 =>
       /\ \A j, k \in DOMAIN River : j < k => Earlier(River[j], River[k])
       /\ \A ref \in Refs : RiverDue(ref) =>
            \/ At("river", "update") /\ ref = Head(items).ref
            \/ \A k \in DOMAIN River : Earlier(River[k], ref)
       /\ "river" \notin down => \A ref \in Refs : RiverDue(ref) =>
            InHand(ref) \/ \A k \in DOMAIN items : Earlier(items[k].ref, ref)

OrderInv == RowsInOrder /\ ItemsInOrder /\ RiverCaughtUp

LEMMA EarlierIsOrder ==
  ASSUME FlushTypeOK, RowsInOrder
  PROVE  /\ \A a, b, c : Earlier(a, b) /\ Earlier(b, c) => Earlier(a, c)
         /\ \A a, b : Earlier(a, b) => a # b /\ ~Earlier(b, a)
<1>1. DOMAIN inserted \subseteq Nat
  BY DEF FlushTypeOK
<1>2. ASSUME NEW a, NEW b, NEW c, Earlier(a, b), Earlier(b, c)
      PROVE  Earlier(a, c)
  <2>1. PICK p, q \in DOMAIN inserted : p < q /\ inserted[p] = a /\ inserted[q] = b
    BY <1>2 DEF Earlier
  <2>2. PICK u, v \in DOMAIN inserted : u < v /\ inserted[u] = b /\ inserted[v] = c
    BY <1>2 DEF Earlier
  <2>3. q = u
    BY <2>1, <2>2 DEF RowsInOrder
  <2>4. p < v
    BY <1>1, <2>1, <2>2, <2>3
  <2> QED BY <2>1, <2>2, <2>4 DEF Earlier
<1>3. ASSUME NEW a, NEW b, Earlier(a, b)
      PROVE  a # b /\ ~Earlier(b, a)
  <2>1. PICK p, q \in DOMAIN inserted : p < q /\ inserted[p] = a /\ inserted[q] = b
    BY <1>3 DEF Earlier
  <2>2. a # b
    BY <1>1, <2>1 DEF RowsInOrder
  <2>3. ASSUME Earlier(b, a)
        PROVE  FALSE
    <3>1. PICK u, v \in DOMAIN inserted : u < v /\ inserted[u] = b /\ inserted[v] = a
      BY <2>3 DEF Earlier
    <3>2. q = u /\ p = v
      BY <2>1, <3>1 DEF RowsInOrder
    <3> QED BY <1>1, <2>1, <3>1, <3>2
  <2> QED BY <2>2, <2>3
<1> QED BY <1>2, <1>3

(* What is on a forecast's row of commands is a stored revision of it.     *)
LEMMA AppliedIsStored ==
  ASSUME StoreInv, NEW ref \in Refs, Applied(ref)
  PROVE  /\ commands[ref].id \in Ids /\ commands[ref].revision \in Nat
         /\ forecasts[commands[ref].id] # None
         /\ forecasts[commands[ref].id].revision \in Nat
         /\ commands[ref].revision <= forecasts[commands[ref].id].revision
<1>1. PICK a \in audit : a.ref = ref
  BY DEF Applied, StoreInv, EveryRevisionAudited
<1>2. commands[ref] = [id |-> a.id, revision |-> a.revision, status |-> "applied"]
  BY <1>1 DEF StoreInv, EveryRevisionAudited
<1>3. PICK r \in revisions : r.id = a.id /\ r.revision = a.revision
  BY DEF StoreInv, EveryRevisionAudited
<1>4. r \in Revision
  BY DEF StoreInv, StoreTypeOK
<1>5. r.id \in Ids /\ r.revision \in Nat
  BY <1>4 DEF Revision
<1>6. forecasts[r.id] # None /\ r.revision \in 1 .. forecasts[r.id].revision
  BY DEF StoreInv, HistoryMatchesForecasts
<1>7. forecasts[r.id] \in Forecast
  BY <1>5, <1>6, StoredForecast
<1>8. forecasts[r.id].revision \in Nat
  BY <1>7 DEF Forecast
<1> QED BY <1>2, <1>3, <1>5, <1>6, <1>8

(* Rows, and what is due of them, while no row is added.                   *)
LEMMA RowsStayInOrder ==
  ASSUME RowsInOrder, UNCHANGED <<inserted, commands>>,
         \A ref \in Refs : outbox'[ref] # None => outbox[ref] # None
  PROVE  RowsInOrder'
BY DEF RowsInOrder, Numbered, Earlier, Applied

(* The first d rows in hand are done with.                                 *)
LEMMA ItemsStayInOrder ==
  ASSUME ItemsInOrder, FlushTypeOK, FlushTypeOK', UNCHANGED inserted, NEW d \in Nat,
         \A k \in DOMAIN items' : k + d \in DOMAIN items /\ items'[k] = items[k + d],
         \A k \in DOMAIN items' : RiverDue(items'[k].ref) => RiverDue(items[k].ref)'
  PROVE  ItemsInOrder'
<1>1. DOMAIN items \subseteq Nat /\ DOMAIN items' \subseteq Nat
  BY DEF FlushTypeOK
<1>2. ASSUME NEW j \in DOMAIN items', NEW k \in DOMAIN items', j < k
      PROVE  Earlier(items[j].ref, items[k].ref)'
  <2>1. j + d < k + d
    BY <1>1, <1>2
  <2>2. Earlier(items[j + d].ref, items[k + d].ref)
    BY <2>1 DEF ItemsInOrder
  <2>3. Earlier(items'[j].ref, items'[k].ref)
    BY <2>2
  <2> QED BY <2>3 DEF Earlier
<1>3. ASSUME NEW k \in DOMAIN items', ~items'[k].sent["river"]
      PROVE  RiverDue(items[k].ref)'
  BY <1>3 DEF ItemsInOrder
<1> QED BY <1>2, <1>3 DEF ItemsInOrder

(* The same for the stream, while nothing is announced on River.           *)
LEMMA RiverStaysCaughtUp ==
  ASSUME RiverCaughtUp, FlushTypeOK, UNCHANGED <<inserted, down>>,
         stream'["river"] = stream["river"], faults' = 0 => faults = 0,
         \A ref \in Refs : RiverDue(ref)' => RiverDue(ref),
         NEW d \in Nat,
         \A k \in DOMAIN items' : k + d \in DOMAIN items /\ items'[k] = items[k + d],
         faults' = 0 => \A ref \in Refs :
           RiverDue(ref)' /\ At("river", "update") /\ ref = Head(items).ref
             => At("river", "update")' /\ ref = Head(items)'.ref,
         faults' = 0 /\ "river" \notin down => \A ref \in Refs :
           RiverDue(ref)' /\ InHand(ref) => InHand(ref)'
  PROVE  RiverCaughtUp'
<1>1. River' = River /\ \A a, b : Earlier(a, b) <=> Earlier(a, b)'
  BY DEF River, Earlier
<1>2. \A k \in DOMAIN River' : Numbered(River[k])'
  BY <1>1 DEF RiverCaughtUp, Numbered
<1>3. "river" \in down' => River' = <<>>
  BY <1>1 DEF RiverCaughtUp
<1>4. ASSUME faults' = 0
      PROVE  /\ \A j, k \in DOMAIN River' : j < k => Earlier(River[j], River[k])'
             /\ \A ref \in Refs : RiverDue(ref)' =>
                  \/ At("river", "update")' /\ ref = Head(items)'.ref
                  \/ \A k \in DOMAIN River' : Earlier(River[k], ref)'
  BY <1>1, <1>4 DEF RiverCaughtUp
<1>5. ASSUME faults' = 0, "river" \notin down', NEW ref \in Refs, RiverDue(ref)'
      PROVE  InHand(ref)' \/ \A k \in DOMAIN items' : Earlier(items[k].ref, ref)'
  <2>1. InHand(ref) \/ \A k \in DOMAIN items : Earlier(items[k].ref, ref)
    BY <1>5 DEF RiverCaughtUp
  <2>2. CASE InHand(ref)
    BY <1>5, <2>2
  <2>3. CASE \A k \in DOMAIN items : Earlier(items[k].ref, ref)
    <3>1. ASSUME NEW k \in DOMAIN items'
          PROVE  Earlier(items'[k].ref, ref)
      BY <2>3
    <3> QED BY <1>1, <3>1
  <2> QED BY <2>1, <2>2, <2>3
<1> QED BY <1>1, <1>2, <1>3, <1>4, <1>5 DEF RiverCaughtUp

(* The rows in hand after NextTarget.                                      *)
LEMMA NextTargetShift ==
  ASSUME FlushTypeOK, items # <<>>, NEW t \in Streams, NextTarget(t)
  PROVE  \E d \in {0, 1} :
           /\ d = 1 <=> t = "river"
           /\ d = 0 => UNCHANGED items
           /\ d = 1 => items' = Tail(items)
           /\ \A k \in DOMAIN items' : k + d \in DOMAIN items /\ items'[k] = items[k + d]
<1>1. CASE t = "humus"
  <2>1. DOMAIN items \subseteq Nat /\ UNCHANGED items
    BY <1>1 DEF NextTarget, FlushTypeOK
  <2>2. \A k \in DOMAIN items' : k + 0 \in DOMAIN items /\ items'[k] = items[k + 0]
    BY <2>1
  <2> QED BY <1>1, <2>1, <2>2
<1>2. CASE t = "river"
  BY <1>2, HeadIsItem DEF NextTarget
<1> QED BY <1>1, <1>2 DEF Streams

(* The loop goes on without having announced anything on River; while      *)
(* nothing fails, a row it drops was not due.                              *)
LEMMA GoneOnKeepsOrder ==
  ASSUME OutboxInv, OutboxInv', OrderInv, NEW t \in Streams, items # <<>>, NextTarget(t),
         UNCHANGED <<commands, inserted, down>>, stream'["river"] = stream["river"],
         faults' = 0 => faults = 0,
         \A ref \in Refs : outbox[ref] # None <=> outbox'[ref] # None,
         \A ref \in Refs : RiverDue(ref)' => RiverDue(ref),
         \A ref \in Refs : RiverDue(ref) => RiverDue(ref)' \/ (t = "river" /\ ref = Head(items).ref),
         NEW head \in Refs, head = Head(items).ref,
         faults' = 0 /\ t = "river" /\ "river" \notin down /\ ~Head(items).sent["river"]
           => ~RiverDue(head)',
         faults' = 0 /\ At("river", "update") => ~RiverDue(head)'
  PROVE  OrderInv'
<1> USE DEF OrderInv
<1>1. FlushTypeOK /\ FlushTypeOK'
  BY DEF OutboxInv
<1>2. RowsInOrder'
  BY RowsStayInOrder
<1>3. PICK d \in {0, 1} :
        /\ d = 1 <=> t = "river"
        /\ d = 0 => UNCHANGED items
        /\ d = 1 => items' = Tail(items)
        /\ \A k \in DOMAIN items' : k + d \in DOMAIN items /\ items'[k] = items[k + d]
  BY <1>1, NextTargetShift
<1>4. d \in Nat
  OBVIOUS
<1>5. DOMAIN items = 1 .. Len(items) /\ Len(items) \in Nat /\ DOMAIN items' \subseteq 1 .. Len(items)
  <2>1. items \in Seq(Item) /\ items' \in Seq(Item)
    BY <1>1 DEF FlushTypeOK
  <2>2. /\ DOMAIN items = 1 .. Len(items) /\ Len(items) \in Nat
        /\ DOMAIN items' = 1 .. Len(items') /\ Len(items') \in Nat
    BY <2>1
  <2>3. ASSUME NEW k \in DOMAIN items'
        PROVE  k \in 1 .. Len(items)
    <3>1. k + d \in DOMAIN items
      BY <1>3
    <3>2. k + d <= Len(items) /\ k \in Nat \ {0}
      BY <2>2, <3>1
    <3> QED BY <1>4, <2>2, <3>2
  <2> QED BY <2>2, <2>3
<1>6. /\ Head(items) = items[1] /\ 1 \in DOMAIN items
      /\ \A k \in DOMAIN items : items[k].ref \in Refs
  BY <1>1, HeadIsItem, ItemRefs
<1>7. ASSUME NEW k \in DOMAIN items', RiverDue(items'[k].ref)
      PROVE  RiverDue(items[k].ref)'
  <2>1. items'[k].ref \in Refs
    BY <1>3, <1>6
  <2>2. CASE t = "river"
    <3>1. k + 1 \in DOMAIN items /\ items'[k] = items[k + 1] /\ 1 < k + 1
      BY <1>3, <1>5, <2>2
    <3>2. Earlier(items[1].ref, items[k + 1].ref)
      BY <1>6, <3>1 DEF ItemsInOrder
    <3>3. items[k + 1].ref # Head(items).ref
      BY <1>1, <1>6, <3>2, EarlierIsOrder
    <3> QED BY <1>7, <2>1, <3>1, <3>3
  <2>3. CASE t # "river"
    BY <1>7, <2>1, <2>3
  <2> QED BY <2>2, <2>3
<1>8. ItemsInOrder'
  BY <1>1, <1>3, <1>4, <1>7, ItemsStayInOrder
<1>9. ASSUME faults' = 0, "river" \notin down, NEW ref \in Refs, RiverDue(ref)', InHand(ref)
      PROVE  InHand(ref)'
  <2>1. PICK k \in DOMAIN items : items[k].ref = ref /\ ~items[k].sent["river"]
    BY <1>9 DEF InHand
  <2>2. CASE d = 0
    BY <1>3, <2>1, <2>2 DEF InHand
  <2>3. CASE d = 1
    <3>1. k # 1
      BY <1>3, <1>6, <1>9, <2>1, <2>3
    <3>2. /\ DOMAIN items' = 1 .. Len(items) - 1
          /\ k - 1 \in DOMAIN items' /\ items'[k - 1] = items[k]
      <4>1. items \in Seq(Item) /\ items' = Tail(items)
        BY <1>1, <1>3, <2>3 DEF FlushTypeOK
      <4>2. /\ DOMAIN items' = 1 .. Len(items) - 1
            /\ \A j \in 1 .. Len(items) - 1 : items'[j] = items[j + 1]
        BY <1>5, <4>1
      <4>3. k - 1 \in 1 .. Len(items) - 1 /\ (k - 1) + 1 = k
        BY <1>5, <3>1
      <4> QED BY <4>2, <4>3
    <3> QED BY <2>1, <3>2 DEF InHand
  <2> QED BY <2>2, <2>3
<1>10. faults' = 0 => \A ref \in Refs :
         RiverDue(ref)' /\ At("river", "update") /\ ref = Head(items).ref
           => At("river", "update")' /\ ref = Head(items)'.ref
  OBVIOUS
<1>11. faults' = 0 /\ "river" \notin down => \A ref \in Refs :
         RiverDue(ref)' /\ InHand(ref) => InHand(ref)'
  BY <1>9
<1>12. RiverCaughtUp'
  BY <1>1, <1>3, <1>4, <1>10, <1>11, RiverStaysCaughtUp
<1> QED BY <1>2, <1>8, <1>12

(* Nothing is announced and no row handled, or all of them are dropped by  *)
(* a crash.                                                                *)
LEMMA QuietKeepsOrder ==
  ASSUME OutboxInv, OutboxInv', OrderInv,
         UNCHANGED <<storeVars, inserted, stream, down>>,
         \/ UNCHANGED <<items, stage, faults>>
         \/ items' = <<>> /\ faults' # 0
  PROVE  OrderInv'
<1> USE DEF OrderInv
<1>1. FlushTypeOK /\ FlushTypeOK' /\ UNCHANGED <<commands, outbox>>
  BY DEF OutboxInv, storeVars
<1>2. DOMAIN items \subseteq Nat /\ (items' = <<>> => DOMAIN items' = {})
  BY <1>1 DEF FlushTypeOK
<1>3. \A k \in DOMAIN items' : k + 0 \in DOMAIN items /\ items'[k] = items[k + 0]
  BY <1>2
<1>4. \A ref \in Refs : RiverDue(ref)' <=> RiverDue(ref)
  BY <1>1 DEF RiverDue
<1>5. \A k \in DOMAIN items' : RiverDue(items'[k].ref) => RiverDue(items[k].ref)'
  BY <1>1 DEF RiverDue
<1>6. RowsInOrder'
  BY <1>1, RowsStayInOrder
<1>7. ItemsInOrder'
  BY <1>1, <1>3, <1>5, ItemsStayInOrder
<1>8. faults' = 0 => \A ref \in Refs :
        RiverDue(ref)' /\ At("river", "update") /\ ref = Head(items).ref
          => At("river", "update")' /\ ref = Head(items)'.ref
  BY DEF At
<1>9. faults' = 0 /\ "river" \notin down => \A ref \in Refs :
        RiverDue(ref)' /\ InHand(ref) => InHand(ref)'
  BY DEF InHand
<1>10. RiverCaughtUp'
  BY <1>1, <1>3, <1>4, <1>8, <1>9, RiverStaysCaughtUp
<1> QED BY <1>6, <1>7, <1>10

(* The row a decision adds is behind all the others, and carries a later   *)
(* revision than every row of its forecast.                                *)
LEMMA DecideKeepsOrder ==
  ASSUME OutboxInv, OutboxInv', OrderInv, NEW c \in Commands, Decide(c), ~UNCHANGED storeVars
  PROVE  OrderInv'
<1> USE DEF OrderInv
<1>1. FlushTypeOK /\ FlushTypeOK' /\ StoreInv /\ StoreTypeOK /\ RowsDecided
  BY DEF OutboxInv, FlushTypeOK
<1>2. UNCHANGED <<rows, items, stage, stream, seen, down, faults>>
  BY DEF Decide
<1>3. PICK r \in Result :
        /\ c.ref \in Refs /\ commands[c.ref] = None
        /\ commands' = [commands EXCEPT ![c.ref] = r]
        /\ outbox' = [outbox EXCEPT ![c.ref] =
             [result |-> r, humusSent |-> FALSE, riverSent |-> r.status # "applied"]]
  BY <1>1, ApplyRows DEF Decide
<1> DEFINE row == [result |-> r, humusSent |-> FALSE, riverSent |-> r.status # "applied"]
<1>4. row # None
  <2>1. row \in OutboxRow
    BY DEF OutboxRow
  <2> QED BY <2>1, StoreAssumption
<1>5. outbox' = [outbox EXCEPT ![c.ref] = row]
  BY <1>3
<1> HIDE DEF row
<1>6. /\ outbox[c.ref] = None /\ outbox'[c.ref] = row
      /\ commands'[c.ref] = r
      /\ \A q \in Refs : q # c.ref => outbox'[q] = outbox[q] /\ commands'[q] = commands[q]
  BY <1>1, <1>3, <1>5 DEF StoreTypeOK, RowsDecided
<1>7. inserted' = Append(inserted, c.ref)
  BY <1>4, <1>6 DEF Decide
<1> DEFINE n == Len(inserted)
<1>8. /\ n \in Nat /\ DOMAIN inserted = 1 .. n /\ DOMAIN inserted' = 1 .. n + 1
      /\ inserted'[n + 1] = c.ref
      /\ \A p \in 1 .. n : inserted'[p] = inserted[p] /\ inserted[p] \in Refs
  BY <1>1, <1>3, <1>7 DEF FlushTypeOK
<1> HIDE DEF n
<1>9. \A p \in 1 .. n : inserted[p] # c.ref
  BY <1>1, <1>6, <1>8 DEF RowsDecided
<1>10. \A a, b : Earlier(a, b) => Earlier(a, b)'
  BY <1>8 DEF Earlier
<1>11. \A a : Numbered(a) => Numbered(a)' /\ Earlier(a, c.ref)'
  <2>1. ASSUME NEW a, Numbered(a)
        PROVE  Numbered(a)' /\ Earlier(a, c.ref)'
    <3>1. PICK p \in 1 .. n : inserted[p] = a
      BY <1>8, <2>1 DEF Numbered
    <3>2. /\ p \in DOMAIN inserted' /\ n + 1 \in DOMAIN inserted' /\ p < n + 1
          /\ inserted'[p] = a /\ inserted'[n + 1] = c.ref
      BY <1>8, <3>1
    <3> QED BY <3>2 DEF Numbered, Earlier
  <2> QED BY <2>1
<1>12. \A a, b : Earlier(a, b)' => Earlier(a, b) \/ (b = c.ref /\ a # c.ref)
  <2>1. ASSUME NEW a, NEW b, Earlier(a, b)'
        PROVE  Earlier(a, b) \/ (b = c.ref /\ a # c.ref)
    <3>1. PICK p, q \in DOMAIN inserted' : p < q /\ inserted'[p] = a /\ inserted'[q] = b
      BY <2>1 DEF Earlier
    <3>2. p \in 1 .. n /\ a = inserted[p] /\ a # c.ref
      BY <1>8, <1>9, <3>1
    <3>3. CASE q = n + 1
      BY <1>8, <3>1, <3>2, <3>3
    <3>4. CASE q \in 1 .. n
      BY <1>8, <3>1, <3>2, <3>4 DEF Earlier
    <3> QED BY <1>8, <3>1, <3>3, <3>4
  <2> QED BY <2>1
<1>13. RowsInOrder'
  <2>1. \A p, q \in DOMAIN inserted' : inserted'[p] = inserted'[q] => p = q
    BY <1>8, <1>9 DEF RowsInOrder
  <2>2. \A ref \in Refs : outbox'[ref] # None => Numbered(ref)'
    <3>1. Numbered(c.ref)'
      BY <1>8 DEF Numbered
    <3> QED BY <1>6, <1>11, <3>1 DEF RowsInOrder
  <2>3. ASSUME NEW a \in Refs, NEW b \in Refs, Earlier(a, b)', Applied(a)', Applied(b)',
               commands'[a].id = commands'[b].id
        PROVE  commands'[a].revision < commands'[b].revision
    <3>1. CASE b = c.ref
      <4>1. a # c.ref /\ commands'[a] = commands[a]
        <5>1. a # c.ref
          <6>1. ~Earlier(c.ref, c.ref)
            BY <1>1, EarlierIsOrder
          <6> QED BY <1>12, <2>3, <3>1, <6>1
        <5> QED BY <1>6, <5>1
      <4>2. Applied(a)
        BY <2>3, <4>1 DEF Applied
      <4>3. /\ forecasts[commands[a].id] # None
            /\ commands[a].id \in Ids /\ commands[a].revision \in Nat
            /\ forecasts[commands[a].id].revision \in Nat
            /\ commands[a].revision <= forecasts[commands[a].id].revision
        BY <1>1, <4>2, AppliedIsStored
      <4>4. commands'[b] = r /\ r.status = "applied" /\ r.id = commands[a].id
        BY <1>6, <2>3, <3>1, <4>1 DEF Applied
      <4>5. r.revision = forecasts[r.id].revision + 1
        <5>1. ~Replay(c)
          BY DEF Replay
        <5>2. ~Refuse(c)
          BY <1>1, <1>3, <4>4 DEF Refuse, RecordResult, StoreTypeOK
        <5>3. PICK id \in Ids : Commit(c, id)
          BY <5>1, <5>2 DEF Decide, Apply
        <5>4. r = [id |-> id, revision |-> NextRevision(c).revision, status |-> "applied"]
          BY <1>1, <1>6, <5>3 DEF Commit, RecordResult, StoreTypeOK, Accepts
        <5>5. Continued(id, NextRevision(c))
          BY <1>1, <4>3, <4>4, <5>3, <5>4, CommitShape DEF Fresh
        <5> QED BY <5>4, <5>5 DEF Continued
      <4> QED BY <4>1, <4>3, <4>4, <4>5
    <3>2. CASE b # c.ref
      <4>1. Earlier(a, b)
        BY <1>12, <2>3, <3>2
      <4>2. a # c.ref
        BY <1>8, <1>9, <4>1 DEF Earlier
      <4>3. commands'[a] = commands[a] /\ commands'[b] = commands[b]
        BY <1>6, <3>2, <4>2
      <4> QED BY <2>3, <4>1, <4>3 DEF RowsInOrder, Applied
    <3> QED BY <3>1, <3>2
  <2> QED BY <2>1, <2>2, <2>3 DEF RowsInOrder
<1>14. /\ \A k \in DOMAIN items : items[k].ref \in Refs /\ Numbered(items[k].ref)
       /\ \A k \in DOMAIN items : items[k].ref # c.ref
  <2>1. \A k \in DOMAIN items : items[k].ref \in Refs
    BY <1>1, ItemRefs
  <2>2. \A k \in DOMAIN items : outbox[items[k].ref] # None
    BY <1>1 DEF FlushTypeOK
  <2> QED BY <1>6, <2>1, <2>2 DEF RowsInOrder
<1>15. ItemsInOrder'
  BY <1>2, <1>6, <1>10, <1>14 DEF ItemsInOrder, RiverDue
<1>16. RiverCaughtUp'
  <2>1. River' = River /\ \A ref \in Refs : InHand(ref)' <=> InHand(ref)
    BY <1>2 DEF River, InHand
  <2>2. ASSUME NEW ref \in Refs, RiverDue(ref)', ref # c.ref
        PROVE  RiverDue(ref)
    BY <1>6, <2>2 DEF RiverDue
  <2>3. \A k \in DOMAIN River' : Numbered(River[k])'
    BY <1>11, <2>1 DEF RiverCaughtUp
  <2>4. ASSUME faults' = 0
        PROVE  \A j, k \in DOMAIN River' : j < k => Earlier(River[j], River[k])'
    BY <1>2, <1>10, <2>1, <2>4 DEF RiverCaughtUp
  <2>5. ASSUME faults' = 0, NEW ref \in Refs, RiverDue(ref)'
        PROVE  \/ At("river", "update")' /\ ref = Head(items)'.ref
               \/ \A k \in DOMAIN River' : Earlier(River[k], ref)'
    <3>1. CASE ref = c.ref
      BY <1>11, <2>1, <3>1 DEF RiverCaughtUp
    <3>2. CASE ref # c.ref
      BY <1>2, <1>10, <2>1, <2>2, <2>5, <3>2 DEF RiverCaughtUp, At
    <3> QED BY <3>1, <3>2
  <2>6. ASSUME faults' = 0, "river" \notin down', NEW ref \in Refs, RiverDue(ref)'
        PROVE  InHand(ref)' \/ \A k \in DOMAIN items' : Earlier(items[k].ref, ref)'
    <3>1. CASE ref = c.ref
      BY <1>2, <1>11, <1>14, <3>1
    <3>2. CASE ref # c.ref
      BY <1>2, <1>10, <2>1, <2>2, <2>6, <3>2 DEF RiverCaughtUp
    <3> QED BY <3>1, <3>2
  <2> QED BY <1>2, <2>1, <2>3, <2>4, <2>5, <2>6 DEF RiverCaughtUp
<1> QED BY <1>13, <1>15, <1>16

(* A scan reads the due rows from the front.                               *)
LEMMA ScanKeepsOrder ==
  ASSUME OutboxInv, OutboxInv', OrderInv, Scan
  PROVE  OrderInv'
<1> USE DEF OrderInv
<1>1. FlushTypeOK /\ FlushTypeOK' /\ RowsDecided
  BY DEF OutboxInv
<1>2. /\ UNCHANGED <<commands, outbox, inserted, stream, seen, down, faults>>
      /\ items = <<>>
  BY DEF Scan, storeVars
<1>3. RowsInOrder'
  BY <1>2, RowsStayInOrder
<1>0. PICK n \in Nat : \E f \in FirstUnsent(n) : items' = [k \in 1 .. n |-> Row(f[k])]
  <2>1. DOMAIN inserted = 1 .. Len(inserted) /\ Len(inserted) \in Nat
    BY <1>1 DEF FlushTypeOK
  <2>2. IsFiniteSet(1 .. Len(inserted)) /\ UnsentAt \in SUBSET (1 .. Len(inserted))
    BY <2>1, FS_Interval DEF UnsentAt
  <2>3. Cardinality(UnsentAt) \in Nat
    BY <2>2, FS_Subset, FS_CardinalityType
  <2> QED BY <2>3, OutboxAssumption DEF Scan, Waiting
<1>4. PICK f \in FirstUnsent(n) : items' = [k \in 1 .. n |-> Row(f[k])]
  BY <1>0
<1>5. /\ f \in [1 .. n -> UnsentAt]
      /\ \A j, k \in 1 .. n : j < k => f[j] < f[k]
      /\ \A i \in UnsentAt : (\E j \in 1 .. n : f[j] = i) \/ (\A j \in 1 .. n : f[j] < i)
  BY <1>4 DEF FirstUnsent
<1>6. /\ DOMAIN items' = 1 .. n
      /\ \A k \in 1 .. n : /\ f[k] \in DOMAIN inserted
                           /\ items'[k].ref = inserted[f[k]]
                           /\ items'[k].sent["river"] = outbox[inserted[f[k]]].riverSent
  BY <1>4, <1>5 DEF UnsentAt, Row, Sent
<1>7. \A p \in DOMAIN inserted : inserted[p] \in Refs /\ outbox[inserted[p]] # None
  BY <1>1 DEF FlushTypeOK, RowsDecided
<1>8. ItemsInOrder'
  <2>1. ASSUME NEW j \in 1 .. n, NEW k \in 1 .. n, j < k
        PROVE  Earlier(items'[j].ref, items'[k].ref)
    BY <1>5, <1>6, <2>1 DEF Earlier
  <2>2. ASSUME NEW k \in 1 .. n, ~items'[k].sent["river"]
        PROVE  RiverDue(items'[k].ref)
    BY <1>6, <1>7, <2>2 DEF RiverDue
  <2> QED BY <1>2, <1>6, <2>1, <2>2 DEF ItemsInOrder, Earlier, RiverDue
<1>9. ASSUME NEW ref \in Refs, RiverDue(ref)
      PROVE  InHand(ref)' \/ \A k \in DOMAIN items' : Earlier(items'[k].ref, ref)
  <2>1. PICK p \in DOMAIN inserted : inserted[p] = ref
    BY <1>9 DEF RowsInOrder, RiverDue, Numbered
  <2>2. p \in UnsentAt
    BY <1>9, <2>1 DEF UnsentAt, Unsent, Sent, RiverDue, Streams
  <2>3. CASE \E j \in 1 .. n : f[j] = p
    BY <1>6, <1>9, <2>1, <2>3 DEF InHand, RiverDue
  <2>4. CASE \A j \in 1 .. n : f[j] < p
    BY <1>6, <2>1, <2>4 DEF Earlier
  <2> QED BY <1>5, <2>2, <2>3, <2>4
<1>10. River' = River /\ \A a, b : Earlier(a, b)' <=> Earlier(a, b)
  BY <1>2 DEF River, Earlier
<1>11. /\ \A k \in DOMAIN River' : Numbered(River[k])'
       /\ "river" \in down' => River' = <<>>
  BY <1>2, <1>10 DEF RiverCaughtUp, Numbered
<1>12. ~At("river", "update") /\ \A ref \in Refs : RiverDue(ref)' <=> RiverDue(ref)
  BY <1>2 DEF At, RiverDue
<1>13. faults' = 0 =>
         /\ \A j, k \in DOMAIN River' : j < k => Earlier(River[j], River[k])'
         /\ \A ref \in Refs : RiverDue(ref)' => \A k \in DOMAIN River' : Earlier(River[k], ref)'
  BY <1>2, <1>10, <1>12 DEF RiverCaughtUp
<1>14. \A ref \in Refs : RiverDue(ref)' =>
         InHand(ref)' \/ \A k \in DOMAIN items' : Earlier(items[k].ref, ref)'
  BY <1>9, <1>10, <1>12
<1>15. RiverCaughtUp'
  BY <1>11, <1>13, <1>14 DEF RiverCaughtUp
<1> QED BY <1>3, <1>8, <1>15

(* A publication on River, and whether the stream remembered it or not: it *)
(* was behind all of the stream, and no other due row is before it.        *)
LEMMA KeptOnRiver ==
  ASSUME OutboxInv, OutboxInv', OrderInv, At("river", "publish"), ~Head(items).sent["river"],
         "river" \notin down, NEW head \in Refs, head = Head(items).ref, Keep("river", head),
         UNCHANGED <<storeVars, inserted, down>>
  PROVE  /\ RowsInOrder'
         /\ \A k \in DOMAIN River' : Numbered(River[k])'
         /\ faults = 0 =>
              /\ \A j, k \in DOMAIN River' : j < k => Earlier(River[j], River[k])'
              /\ \A ref \in Refs : RiverDue(ref)' =>
                   ref = head \/ \A k \in DOMAIN River' : Earlier(River[k], ref)'
<1> USE DEF OrderInv
<1>1. FlushTypeOK /\ UNCHANGED <<commands, outbox, inserted>>
  BY DEF OutboxInv, storeVars
<1>2. RowsInOrder'
  BY <1>1, RowsStayInOrder
<1>3. /\ Head(items) = items[1] /\ 1 \in DOMAIN items /\ outbox[head] # None
      /\ DOMAIN items = 1 .. Len(items)
  BY <1>1, HeadIsItem DEF At, FlushTypeOK
<1>4. Numbered(head) /\ RiverDue(head)
  BY <1>3 DEF RowsInOrder, ItemsInOrder
<1>5. /\ \A a, b : Earlier(a, b)' <=> Earlier(a, b)
      /\ \A a : Numbered(a)' <=> Numbered(a)
      /\ \A ref \in Refs : RiverDue(ref)' <=> RiverDue(ref)
  BY <1>1 DEF Earlier, Numbered, RiverDue
<1>6. ~At("river", "update")
  BY DEF At
<1>7. CASE head \in seen["river"]
  <2>1. River' = River
    BY <1>7 DEF Keep, River
  <2> QED BY <1>2, <1>5, <1>6, <2>1 DEF RiverCaughtUp
<1>8. CASE head \notin seen["river"]
  <2> DEFINE m == Len(River)
  <2>1. /\ River \in Seq(Refs) /\ River' = Append(River, head)
    BY <1>1, <1>8 DEF Keep, River, FlushTypeOK, Streams
  <2>2. /\ m \in Nat /\ DOMAIN River = 1 .. m /\ DOMAIN River' = 1 .. m + 1
        /\ River'[m + 1] = head /\ \A k \in 1 .. m : River'[k] = River[k]
    BY <2>1
  <2> HIDE DEF m
  <2>3. \A k \in DOMAIN River' : Numbered(River[k])'
    <3>1. \A k \in DOMAIN River' : Numbered(River'[k])
      BY <1>4, <2>2 DEF RiverCaughtUp
    <3> QED BY <1>5, <3>1
  <2>4. ASSUME faults = 0
        PROVE  /\ \A j, k \in DOMAIN River' : j < k => Earlier(River[j], River[k])'
               /\ \A ref \in Refs : RiverDue(ref)' =>
                    ref = head \/ \A k \in DOMAIN River' : Earlier(River[k], ref)'
    <3>1. \A k \in 1 .. m : Earlier(River[k], head)
      BY <1>4, <1>6, <2>2, <2>4 DEF RiverCaughtUp
    <3>2. ASSUME NEW j \in DOMAIN River', NEW k \in DOMAIN River', j < k
          PROVE  Earlier(River'[j], River'[k])
      <4>1. j \in 1 .. m /\ River'[j] = River[j]
        BY <2>2, <3>2
      <4>2. CASE k = m + 1
        BY <2>2, <3>1, <4>1, <4>2
      <4>3. CASE k \in 1 .. m
        BY <2>2, <2>4, <3>2, <4>1, <4>3 DEF RiverCaughtUp
      <4> QED BY <2>2, <4>2, <4>3
    <3>3. ASSUME NEW ref \in Refs, RiverDue(ref), ref # head
          PROVE  \A k \in DOMAIN River' : Earlier(River'[k], ref)
      <4>1. Earlier(head, ref)
        <5>1. CASE InHand(ref)
          <6>1. PICK k \in DOMAIN items : items[k].ref = ref
            BY <5>1 DEF InHand
          <6>2. 1 < k
            BY <1>3, <3>3, <6>1
          <6> QED BY <1>3, <6>1, <6>2 DEF ItemsInOrder
        <5>2. CASE \A k \in DOMAIN items : Earlier(items[k].ref, ref)
          BY <1>3, <5>2
        <5> QED BY <2>4, <3>3, <5>1, <5>2 DEF RiverCaughtUp
      <4>2. \A k \in 1 .. m : Earlier(River[k], ref)
        BY <1>6, <2>2, <2>4, <3>3 DEF RiverCaughtUp
      <4> QED BY <2>2, <4>1, <4>2
    <3> QED BY <1>5, <3>2, <3>3
  <2> QED BY <1>2, <2>3, <2>4
<1> QED BY <1>7, <1>8

LEMMA PublishedKeepsOrder ==
  ASSUME OutboxInv, OutboxInv', OrderInv, NEW t \in Streams, Published(t)
  PROVE  OrderInv'
<1> USE DEF OrderInv
<1>1. FlushTypeOK /\ FlushTypeOK'
  BY DEF OutboxInv
<1>2. PICK head \in Refs : head = Head(items).ref
  BY <1>1, HeadIsItem DEF Published, At
<1>3. /\ UNCHANGED <<storeVars, commands, outbox, inserted, items, down, faults>>
      /\ At(t, "publish") /\ ~Head(items).sent[t] /\ t \notin down
      /\ Keep(t, head) /\ stage' = <<t, "update">> /\ items # <<>>
  BY <1>2 DEF Published, At, storeVars
<1>4. ItemsInOrder'
  BY <1>3 DEF ItemsInOrder, Earlier, RiverDue
<1>5. CASE t = "humus"
  <2>1. stream'["river"] = stream["river"]
    BY <1>1, <1>3, <1>5 DEF Keep, FlushTypeOK, Streams
  <2>2. \A k \in DOMAIN items' : k + 0 \in DOMAIN items /\ items'[k] = items[k + 0]
    BY <1>1, <1>3 DEF FlushTypeOK
  <2>3. RowsInOrder'
    BY <1>3, RowsStayInOrder
  <2>4. /\ ~At("river", "update")
        /\ \A ref \in Refs : RiverDue(ref)' <=> RiverDue(ref)
        /\ \A ref \in Refs : InHand(ref)' <=> InHand(ref)
    BY <1>3, <1>5 DEF At, RiverDue, InHand
  <2>5. RiverCaughtUp'
    BY <1>1, <1>3, <2>1, <2>2, <2>4, RiverStaysCaughtUp
  <2> QED BY <1>4, <2>3, <2>5
<1>6. CASE t = "river"
  <2>1. /\ RowsInOrder'
        /\ \A k \in DOMAIN River' : Numbered(River[k])'
        /\ faults = 0 =>
             /\ \A j, k \in DOMAIN River' : j < k => Earlier(River[j], River[k])'
             /\ \A ref \in Refs : RiverDue(ref)' =>
                  ref = head \/ \A k \in DOMAIN River' : Earlier(River[k], ref)'
    BY <1>2, <1>3, <1>6, KeptOnRiver
  <2>2. At("river", "update")' /\ head = Head(items)'.ref
    BY <1>2, <1>3, <1>6 DEF At
  <2>3. faults = 0 => \A ref \in Refs : RiverDue(ref) =>
          InHand(ref) \/ \A k \in DOMAIN items : Earlier(items[k].ref, ref)
    BY <1>3, <1>6 DEF RiverCaughtUp
  <2>4. faults' = 0 => \A ref \in Refs : RiverDue(ref)' =>
          InHand(ref)' \/ \A k \in DOMAIN items' : Earlier(items[k].ref, ref)'
    BY <1>3, <2>3 DEF RiverDue, InHand, Earlier
  <2> QED BY <1>3, <1>4, <1>6, <2>1, <2>2, <2>4 DEF RiverCaughtUp
<1> QED BY <1>5, <1>6 DEF Streams

LEMMA SkippedKeepsOrder ==
  ASSUME OutboxInv, OutboxInv', OrderInv, NEW t \in Streams, AlreadySent(t) \/ Unavailable(t)
  PROVE  OrderInv'
<1>1. PICK head \in Refs : head = Head(items).ref
  BY HeadIsItem DEF OutboxInv, AlreadySent, Unavailable, At
<1>2. /\ items # <<>> /\ NextTarget(t) /\ stage = <<t, "publish">>
      /\ UNCHANGED <<commands, outbox, inserted, stream, down, faults>>
      /\ Head(items).sent[t] \/ t \in down
  BY DEF AlreadySent, Unavailable, At, storeVars
<1>3. \A ref \in Refs : RiverDue(ref)' <=> RiverDue(ref)
  BY <1>2 DEF RiverDue
<1>4. ~At("river", "update")
  BY <1>2 DEF At
<1> QED BY <1>1, <1>2, <1>3, <1>4, GoneOnKeepsOrder

(* The row that is marked is the one that was the exception.               *)
LEMMA UpdateKeepsOrder ==
  ASSUME OutboxInv, OutboxInv', OrderInv, NEW t \in Streams, Update(t)
  PROVE  OrderInv'
<1>1. FlushTypeOK /\ StoreTypeOK
  BY DEF OutboxInv, FlushTypeOK
<1>2. PICK head \in Refs : head = Head(items).ref
  BY <1>1, HeadIsItem DEF Update, At
<1>3. /\ items # <<>> /\ NextTarget(t) /\ stage = <<t, "update">>
      /\ UNCHANGED <<commands, inserted, stream, down, faults>>
      /\ outbox' = [outbox EXCEPT ![head] = MarkSent(t, outbox[head])]
  BY <1>2 DEF Update, At
<1>4. outbox[head] # None /\ outbox[head] \in OutboxRow
  BY <1>1, <1>2, <1>3, HeadIsItem DEF StoreTypeOK
<1>5. /\ MarkSent(t, outbox[head]) \in OutboxRow
      /\ t = "humus" => MarkSent(t, outbox[head]).riverSent = outbox[head].riverSent
      /\ t = "river" => MarkSent(t, outbox[head]).riverSent
  <2>1. CASE t = "humus"
    BY <1>4, <2>1 DEF MarkSent, OutboxRow
  <2>2. CASE t = "river"
    BY <1>4, <2>2 DEF MarkSent, OutboxRow
  <2> QED BY <2>1, <2>2 DEF Streams
<1> DEFINE row == MarkSent(t, outbox[head])
<1>6. /\ row # None /\ outbox'[head] = row
      /\ \A q \in Refs : q # head => outbox'[q] = outbox[q]
  BY <1>1, <1>3, <1>5, StoreAssumption DEF StoreTypeOK
<1>7. /\ t = "humus" => row.riverSent = outbox[head].riverSent
      /\ t = "river" => row.riverSent
  BY <1>5
<1> HIDE DEF row
<1>8. \A ref \in Refs : outbox[ref] # None <=> outbox'[ref] # None
  BY <1>4, <1>6
<1>9. /\ \A ref \in Refs : RiverDue(ref)' => RiverDue(ref)
      /\ \A ref \in Refs : RiverDue(ref) => RiverDue(ref)' \/ (t = "river" /\ ref = Head(items).ref)
      /\ t = "river" => ~RiverDue(head)'
  BY <1>2, <1>4, <1>6, <1>7 DEF RiverDue, Streams
<1>10. At("river", "update") => t = "river"
  BY <1>3 DEF At
<1> QED BY <1>2, <1>3, <1>8, <1>9, <1>10, GoneOnKeepsOrder

(* After a failure nothing is claimed of the order; the rows still follow  *)
(* the revisions.                                                          *)
LEMMA FailedKeepsOrder ==
  ASSUME OutboxInv, OutboxInv', OrderInv, NEW t \in Streams, PublishError(t) \/ UpdateError(t)
  PROVE  OrderInv'
<1>1. FlushTypeOK /\ FlushTypeOK'
  BY DEF OutboxInv
<1>2. PICK head \in Refs : head = Head(items).ref
  BY <1>1, HeadIsItem DEF PublishError, UpdateError, At
<1>3. /\ items # <<>> /\ NextTarget(t)
      /\ UNCHANGED <<storeVars, commands, outbox, inserted, down>>
      /\ faults' # 0
  BY <1>1 DEF PublishError, UpdateError, At, Fault, storeVars, FlushTypeOK
<1>4. \A ref \in Refs : RiverDue(ref)' <=> RiverDue(ref)
  BY <1>3 DEF RiverDue
<1>5. CASE stream'["river"] = stream["river"]
  BY <1>2, <1>3, <1>4, <1>5, GoneOnKeepsOrder
<1>6. CASE stream'["river"] # stream["river"]
  <2>1. PublishError(t)
    BY <1>6 DEF PublishError, UpdateError
  <2>2. Keep(t, head) /\ At(t, "publish") /\ ~Head(items).sent[t] /\ t \notin down
    BY <1>2, <1>6, <2>1 DEF PublishError
  <2>3. t = "river"
    BY <1>1, <1>6, <2>2 DEF Keep, FlushTypeOK, Streams
  <2>4. /\ RowsInOrder'
        /\ \A k \in DOMAIN River' : Numbered(River[k])'
    BY <1>2, <1>3, <2>2, <2>3, KeptOnRiver
  <2>5. PICK d \in {0, 1} :
          \A k \in DOMAIN items' : k + d \in DOMAIN items /\ items'[k] = items[k + d]
    BY <1>1, <1>3, NextTargetShift
  <2>6. d \in Nat
    OBVIOUS
  <2>7. \A k \in DOMAIN items' : RiverDue(items'[k].ref) => RiverDue(items[k].ref)'
    BY <1>3 DEF RiverDue
  <2>8. ItemsInOrder'
    BY <1>1, <1>3, <2>5, <2>6, <2>7, ItemsStayInOrder DEF OrderInv
  <2>9. RiverCaughtUp'
    BY <1>3, <2>2, <2>3, <2>4 DEF RiverCaughtUp
  <2> QED BY <2>4, <2>8, <2>9 DEF OrderInv
<1> QED BY <1>5, <1>6

LEMMA StepKeepsOrder ==
  ASSUME OutboxInv, OutboxInv', OrderInv, [Next]_vars
  PROVE  OrderInv'
<1>1. CASE UNCHANGED vars
  BY <1>1, QuietKeepsOrder DEF vars, flushVars
<1>2. CASE Query
  BY <1>2, QuietKeepsOrder DEF Query
<1>3. CASE Crash
  <2>1. faults' # 0
    BY <1>3 DEF Crash, Fault, OutboxInv, FlushTypeOK
  <2> QED BY <1>3, <2>1, QuietKeepsOrder DEF Crash
<1>4. ASSUME NEW t \in Streams, NEW ref \in Refs, Forget(t, ref)
      PROVE  OrderInv'
  BY <1>4, QuietKeepsOrder DEF Forget
<1>5. ASSUME NEW c \in Commands, Decide(c)
      PROVE  OrderInv'
  <2>1. CASE UNCHANGED storeVars
    BY <1>5, <2>1, QuietKeepsOrder DEF Decide, storeVars
  <2> QED BY <1>5, <2>1, DecideKeepsOrder
<1> QED
  BY <1>1, <1>2, <1>3, <1>4, <1>5, ScanKeepsOrder, PublishedKeepsOrder, SkippedKeepsOrder,
     UpdateKeepsOrder, FailedKeepsOrder DEF Next, Flush

(* The streams follow the rows, the rows follow the revisions.             *)
LEMMA OrderOnRiver ==
  ASSUME OutboxInv, OrderInv
  PROVE  RiverInRevisionOrder
<1> SUFFICES ASSUME faults = 0, NEW j \in DOMAIN River, NEW k \in DOMAIN River, j < k,
                    commands[River[j]].id = commands[River[k]].id
             PROVE  commands[River[j]].revision < commands[River[k]].revision
  BY DEF RiverInRevisionOrder, River
<1>1. River[j] \in Refs /\ River[k] \in Refs
  <2>1. River \in Seq(Refs)
    BY DEF OutboxInv, FlushTypeOK, River, Streams
  <2> QED BY <2>1
<1>2. Applied(River[j]) /\ Applied(River[k])
  BY <1>1 DEF OutboxInv, RiverShowsChanges, Announced, River
<1>3. Earlier(River[j], River[k])
  BY DEF OrderInv, RiverCaughtUp
<1> QED BY <1>1, <1>2, <1>3 DEF OrderInv, RowsInOrder

(* While nothing fails, the changes of a forecast reach River in the order *)
(* of its revisions and once each, for any number of rows, scans and       *)
(* decisions made in between.                                              *)
THEOREM OutboxKeepsRevisionOrder == Spec => []RiverInRevisionOrder
<1>1. Init => OrderInv
  BY DEF Init, StoreInit, OrderInv, RowsInOrder, ItemsInOrder, RiverCaughtUp, Numbered, Earlier,
     River, RiverDue, Streams
<1>2. OutboxInv /\ OutboxInv' /\ OrderInv /\ [Next]_vars => OrderInv'
  BY StepKeepsOrder
<1>3. OutboxInv /\ OrderInv => RiverInRevisionOrder
  BY OrderOnRiver
<1> QED BY <1>1, <1>2, <1>3, OutboxInvariant, PTL DEF Spec

(* Announcing outcomes shares the tables with Apply and changes only the   *)
(* flags of outbox: forecasts and decisions still move as the workflow     *)
(* says.                                                                   *)
THEOREM OutboxImplementsWorkflow == Spec => ImplementsWorkflow
<1>1. Init => W!Init
  BY DEF Init, StoreInit, W!Init, DocOf
<1>2. ASSUME OutboxInv, [Next]_vars
      PROVE  [W!Next]_(W!vars)
  <2>1. ASSUME NEW c \in Commands, Decide(c)
        PROVE  [W!Next]_(W!vars)
    BY <1>2, <2>1, StoreStepsWorkflow DEF Decide, StoreNext, OutboxInv
  <2>2. CASE UNCHANGED <<forecasts, commands>>
    BY <2>2 DEF W!vars, DocOf
  <2>3. \/ \E c \in Commands : Decide(c)
        \/ UNCHANGED <<forecasts, commands>>
    BY <1>2, Zenon DEF Next, Query, Scan, Flush, AlreadySent, Published, Unavailable, Update,
       PublishError, UpdateError, Forget, Crash, vars, storeVars
  <2> QED BY <2>1, <2>2, <2>3
<1>3. Spec => W!Spec
  BY <1>1, <1>2, OutboxInvariant, PTL DEF Spec, W!Spec
<1> QED BY <1>3 DEF ImplementsWorkflow
=============================================================================
