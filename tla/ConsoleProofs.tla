---------------------------- MODULE ConsoleProofs ----------------------------
(***************************************************************************)
(* Proofs about Console: what a tab shows never goes back, and an editor   *)
(* of an existing forecast is applied at most once, for any number of      *)
(* tabs, editors, attempts, polls and reloads.                             *)
(***************************************************************************)
EXTENDS Console, StoreProofs

(* A list is as new as another, forecast by forecast.                      *)
Newer(x, y) ==
  \A id \in Ids : x[id] # None => y[id] # None /\ y[id].revision >= x[id].revision

(* A list has every forecast a tab has seen, as new as it saw it.          *)
AsSeen(x, known) ==
  \A id \in Ids : known[id] > 0 => x[id] # None /\ x[id].revision >= known[id]

(* An answer is behind the store, and the answer of the last reload is not *)
(* behind what the tab has seen, if the forecasts could be read.           *)
AnswerSound(r, t) ==
  IF r.unavailable THEN r.answer = NoList
  ELSE /\ Newer(r.answer, forecasts)
       /\ r.generation = generation[t] => AsSeen(r.answer, seen[t])

(* A tab shows what it has seen, or that it could not read it.             *)
AsShown(t) ==
  \A id \in Ids : seen[t][id] > 0 =>
    IF shown[t][id] = None THEN unread[t] ELSE shown[t][id].revision >= seen[t][id]

(* A reference drawn for an editor carries that editor's forecast and      *)
(* revision.                                                               *)
Honest(c) ==
  /\ c.ref \in Refs
  /\ origin[c.ref] # Closed =>
       c.action = "save" /\ c.id = origin[c.ref].id /\ c.expected = origin[c.ref].base

AttemptsHonest ==
  /\ \A t \in Tabs : \A a \in attempts[t] : Honest(a.cmd)
  /\ \A c \in published : Honest(c)

DecidedPublished ==
  \A ref \in Refs : commands[ref] # None => \E c \in published : c.ref = ref

(* Once an editor was applied, its revision is gone for good.              *)
Passed ==
  \A ref \in Refs :
    origin[ref] # Closed /\ origin[ref].id # None /\ Applied(ref) =>
      /\ forecasts[origin[ref].id] # None
      /\ forecasts[origin[ref].id].revision > origin[ref].base

-----------------------------------------------------------------------------
(* Types                                                                   *)

LEMMA ApplyMovesOn ==
  ASSUME StoreInv, NEW c \in Commands, Apply(c)
  PROVE  Newer(forecasts, forecasts')
<1>1. CASE Replay(c) \/ Refuse(c)
  <2>1. forecasts' = forecasts
    BY <1>1 DEF Replay, Refuse, storeVars
  <2> SUFFICES ASSUME NEW id \in Ids, forecasts[id] # None
               PROVE  forecasts[id].revision >= forecasts[id].revision
    BY <2>1 DEF Newer
  <2> QED BY StoredForecast DEF Forecast
<1>2. ASSUME NEW id \in Ids, Commit(c, id)
      PROVE  Newer(forecasts, forecasts')
  <2> DEFINE f == NextRevision(c)
  <2>1. f \in Forecast /\ (Fresh(id, f) \/ Continued(id, f))
    BY <1>2, CommitShape
  <2>2. forecasts' = [forecasts EXCEPT ![id] = f] /\ forecasts \in [Ids -> Forecast \cup {None}]
    BY <1>2 DEF Commit, StoreInv, StoreTypeOK
  <2> SUFFICES ASSUME NEW j \in Ids, forecasts[j] # None
               PROVE  forecasts'[j] # None /\ forecasts'[j].revision >= forecasts[j].revision
    BY DEF Newer
  <2>3. forecasts[j].revision \in Nat
    BY StoredForecast DEF Forecast
  <2>4. CASE j = id
    BY <2>1, <2>2, <2>3, <2>4, StoreAssumption DEF Fresh, Continued
  <2>5. CASE j # id
    BY <2>2, <2>3, <2>5
  <2> QED BY <2>4, <2>5
<1> QED BY <1>1, <1>2 DEF Apply

LEMMA StepStores ==
  ASSUME [Next]_vars
  PROVE  UNCHANGED storeVars \/ \E c \in published \cap Commands : Deliver(c)
<1>1. CASE UNCHANGED vars
  BY <1>1 DEF vars
<1>2. ASSUME NEW t \in Tabs, TabNext(t)
      PROVE  UNCHANGED storeVars
  BY <1>2, Zenon DEF TabNext, StartReload, OpenNew, OpenEditor, Open, CloseEditor, ReadList,
     ReadOthersOnly, Answered, ShowList, ReloadFails, EndReload, Save, Press, Queued, PostFails,
     Poll, GiveUp, LearnFailed, LearnApplied, Forget
<1> QED BY <1>1, <1>2 DEF Next

LEMMA StepKeepsStoreInv ==
  ASSUME StoreInv, [Next]_vars
  PROVE  StoreInv'
<1>1. CASE UNCHANGED storeVars
  BY <1>1, UnchangedKeepsInv
<1>2. ASSUME NEW c \in published \cap Commands, Deliver(c)
      PROVE  StoreInv'
  BY <1>2, ApplyKeepsInv DEF Deliver
<1> QED BY <1>1, <1>2, StepStores

LEMMA StepMovesOn ==
  ASSUME StoreInv, [Next]_vars
  PROVE  Newer(forecasts, forecasts')
<1>1. CASE UNCHANGED storeVars
  <2> SUFFICES ASSUME NEW id \in Ids, forecasts[id] # None
               PROVE  forecasts[id].revision >= forecasts[id].revision
    BY <1>1 DEF Newer, storeVars
  <2> QED BY StoredForecast DEF Forecast
<1>2. ASSUME NEW c \in published \cap Commands, Deliver(c)
      PROVE  Newer(forecasts, forecasts')
  BY <1>2, ApplyMovesOn DEF Deliver
<1> QED BY <1>1, <1>2, StepStores

-----------------------------------------------------------------------------
(* What a tab shows                                                        *)

(* The steps that have to do with lists, and the others.                   *)
ListSteps(t) ==
  \/ \E saving \in BOOLEAN : Ask(t, saving)
  \/ \E r \in reloads[t] :
       ReadList(t, r) \/ ReadOthersOnly(t, r) \/ ShowList(t, r) \/ ReloadFails(t, r)

(* What the lists of a tab are made of: the scope matters only when a list *)
(* is read.                                                                *)
shownVars == <<shown, unread, generation, reloads, seen>>

LEMMA StepLists ==
  ASSUME [Next]_vars
  PROVE  \/ UNCHANGED shownVars
         \/ UNCHANGED storeVars /\ \E t \in Tabs : ListSteps(t)
<1>1. CASE UNCHANGED vars
  BY <1>1 DEF vars, consoleVars, listVars, shownVars
<1>2. ASSUME NEW c \in published \cap Commands, Deliver(c)
      PROVE  UNCHANGED shownVars
  BY <1>2 DEF Deliver, consoleVars, listVars, shownVars
<1>3. ASSUME NEW t \in Tabs, TabNext(t)
      PROVE  \/ UNCHANGED shownVars
             \/ UNCHANGED storeVars /\ ListSteps(t)
  <2>1. CASE StartReload(t)
    BY <2>1 DEF StartReload, ListSteps
  <2>2. ASSUME NEW a \in attempts[t], LearnApplied(t, a)
        PROVE  UNCHANGED storeVars /\ ListSteps(t)
    <3>1. (a.cmd.action = "save") \in BOOLEAN
      OBVIOUS
    <3> QED BY <2>2, <3>1, Zenon DEF LearnApplied, ListSteps
  <2>3. ASSUME NEW r \in reloads[t],
               ReadList(t, r) \/ ReadOthersOnly(t, r) \/ ShowList(t, r) \/ ReloadFails(t, r)
        PROVE  UNCHANGED storeVars /\ ListSteps(t)
    BY <2>3, Zenon DEF ReadList, ReadOthersOnly, Answered, ShowList, ReloadFails, EndReload, ListSteps
  <2>4. CASE OpenNew(t) \/ CloseEditor(t) \/ \E id \in Ids : OpenEditor(t, id)
    BY <2>4, Zenon DEF OpenNew, CloseEditor, OpenEditor, Open, listVars, shownVars
  <2>5. CASE \/ \E ref \in Refs, content \in Contents : Save(t, ref, content)
             \/ \E ref \in Refs, id \in Ids, action \in Actions : Press(t, ref, id, action)
    BY <2>5, Zenon DEF Save, Press, listVars, shownVars
  <2>6. ASSUME NEW a \in attempts[t],
               Queued(t, a) \/ PostFails(t, a) \/ Poll(t, a) \/ GiveUp(t, a) \/ LearnFailed(t, a)
        PROVE  UNCHANGED shownVars
    BY <2>6, Zenon DEF Queued, PostFails, Poll, GiveUp, LearnFailed, Forget, listVars, shownVars
  <2> QED BY <1>3, <2>1, <2>2, <2>3, <2>4, <2>5, <2>6 DEF TabNext
<1> QED BY <1>1, <1>2, <1>3 DEF Next

Lists == [Ids -> Forecast \cup {None}]

LEMMA NewerTransitive ==
  ASSUME NEW x \in Lists, NEW y \in Lists, NEW z \in Lists, Newer(x, y), Newer(y, z)
  PROVE  Newer(x, z)
<1> USE DEF Lists
<1> SUFFICES ASSUME NEW id \in Ids, x[id] # None
             PROVE  z[id] # None /\ z[id].revision >= x[id].revision
  BY DEF Newer
<1>1. y[id] # None /\ z[id] # None
  BY DEF Newer
<1>2. x[id] \in Forecast /\ y[id] \in Forecast /\ z[id] \in Forecast
  BY <1>1
<1>3. x[id].revision \in Nat /\ y[id].revision \in Nat /\ z[id].revision \in Nat
  BY <1>2 DEF Forecast
<1>4. y[id].revision >= x[id].revision /\ z[id].revision >= y[id].revision
  BY <1>1 DEF Newer
<1> QED BY <1>1, <1>3, <1>4

LEMMA NewerReflexive ==
  ASSUME NEW x \in Lists
  PROVE  Newer(x, x)
<1> SUFFICES ASSUME NEW id \in Ids, x[id] # None
             PROVE  x[id].revision >= x[id].revision
  BY DEF Newer
<1>1. x[id] \in Forecast
  BY DEF Lists
<1> QED BY <1>1 DEF Forecast

LEMMA AsSeenByNewer ==
  ASSUME NEW x \in Lists, NEW y \in Lists, NEW known \in [Ids -> Nat],
         AsSeen(x, known), Newer(x, y)
  PROVE  AsSeen(y, known)
<1> SUFFICES ASSUME NEW id \in Ids, known[id] > 0
             PROVE  y[id] # None /\ y[id].revision >= known[id]
  BY DEF AsSeen
<1>1. x[id] # None /\ x[id].revision >= known[id]
  BY DEF AsSeen
<1>2. y[id] # None /\ y[id].revision >= x[id].revision
  BY <1>1 DEF Newer
<1>3. x[id].revision \in Nat /\ y[id].revision \in Nat /\ known[id] \in Nat
  <2>1. x[id] \in Forecast /\ y[id] \in Forecast
    BY <1>1, <1>2 DEF Lists
  <2> QED BY <2>1 DEF Forecast
<1> QED BY <1>1, <1>2, <1>3

(* The types of the variables that lists are made of.                      *)
ListTypes ==
  /\ forecasts \in Lists
  /\ shown \in [Tabs -> Lists]
  /\ unread \in [Tabs -> BOOLEAN]
  /\ generation \in [Tabs -> Nat]
  /\ reloads \in [Tabs -> SUBSET Reload]
  /\ seen \in [Tabs -> [Ids -> Nat]]

(* The parts of the invariant that speak of one tab.                       *)
TabSound(t) ==
  /\ \A r, s \in reloads[t] :
       /\ r.generation <= generation[t]
       /\ r.generation = s.generation => r = s
  /\ AsSeen(forecasts, seen[t])
  /\ \A r \in reloads[t] : r.answer # Pending => AnswerSound(r, t)
  /\ AsShown(t)

ListsSound == \A t \in Tabs : TabSound(t)

LEMMA AskKeepsLists ==
  ASSUME ListTypes, NEW t \in Tabs, TabSound(t), forecasts' = forecasts,
         NEW saving \in BOOLEAN, Ask(t, saving)
  PROVE  TabSound(t)' /\ ListTypes' /\ seen' = seen
<1> DEFINE asked == [generation |-> generation[t] + 1, saving |-> saving,
                     unavailable |-> FALSE, answer |-> Pending]
<1>1. /\ generation[t] \in Nat /\ generation' = [generation EXCEPT ![t] = @ + 1]
      /\ UNCHANGED <<shown, unread, seen>>
  BY DEF Ask, ListTypes
<1>2. generation'[t] = generation[t] + 1
  BY <1>1 DEF ListTypes
<1>3. reloads' = [reloads EXCEPT ![t] = @ \cup {asked}]
  BY <1>2 DEF Ask
<1>4. asked \in Reload /\ asked.generation = generation[t] + 1 /\ asked.answer = Pending
  BY <1>1 DEF Reload, Lists
<1> HIDE DEF asked
<1>5. reloads'[t] = reloads[t] \cup {asked}
  BY <1>3 DEF ListTypes
<1>6. ListTypes'
  BY <1>1, <1>3, <1>4 DEF ListTypes
<1>7. \A r \in reloads[t] : r.generation \in Nat /\ r.generation <= generation[t]
  BY DEF ListTypes, TabSound, Reload
<1>8. ASSUME NEW r \in reloads'[t], NEW s \in reloads'[t]
      PROVE  /\ r.generation <= generation'[t]
             /\ r.generation = s.generation => r = s
  BY <1>1, <1>2, <1>4, <1>5, <1>7 DEF TabSound
<1>9. ASSUME NEW r \in reloads'[t], r.answer # Pending
      PROVE  AnswerSound(r, t)'
  <2>1. r \in reloads[t] /\ r.generation # generation'[t]
    BY <1>1, <1>2, <1>4, <1>5, <1>7, <1>9
  <2>2. AnswerSound(r, t)
    BY <1>9, <2>1 DEF TabSound
  <2> QED BY <2>1, <2>2 DEF AnswerSound, Newer
<1>10. AsSeen(forecasts, seen[t])' /\ AsShown(t)'
  BY <1>1 DEF TabSound, AsSeen, AsShown
<1> QED BY <1>1, <1>6, <1>8, <1>9, <1>10 DEF TabSound

LEMMA AnswerKeepsLists ==
  ASSUME ListTypes, NEW t \in Tabs, TabSound(t), forecasts' = forecasts, NEW r \in reloads[t],
         ReadList(t, r) \/ ReadOthersOnly(t, r)
  PROVE  TabSound(t)' /\ ListTypes' /\ seen' = seen
<1>1. PICK answer \in Lists, b \in BOOLEAN :
        /\ (b /\ answer = NoList) \/ (~b /\ answer = forecasts)
        /\ Answered(t, r, answer, b)
  BY DEF ReadList, ReadOthersOnly, NoList, ListTypes, Lists
<1> DEFINE new == [r EXCEPT !.answer = answer, !.unavailable = b]
<1>2. r \in Reload
  BY DEF ListTypes
<1>3. new \in Reload /\ new.generation = r.generation /\ new.answer = answer /\ new.unavailable = b
  BY <1>2 DEF Reload, Lists
<1>4. /\ reloads' = [reloads EXCEPT ![t] = (@ \ {r}) \cup {new}]
      /\ UNCHANGED <<shown, unread, generation, seen>>
  BY <1>1 DEF Answered
<1> HIDE DEF new
<1>5. reloads'[t] = (reloads[t] \ {r}) \cup {new}
  BY <1>4 DEF ListTypes
<1>6. ListTypes'
  BY <1>3, <1>4 DEF ListTypes
<1>7. ASSUME NEW q \in reloads'[t], NEW s \in reloads'[t]
      PROVE  /\ q.generation <= generation'[t]
             /\ q.generation = s.generation => q = s
  BY <1>3, <1>4, <1>5 DEF TabSound
<1>8. ASSUME NEW q \in reloads'[t], q.answer # Pending
      PROVE  AnswerSound(q, t)'
  <2>1. CASE q = new
    <3>1. Newer(forecasts, forecasts)
      BY NewerReflexive DEF ListTypes
    <3> QED BY <1>1, <1>3, <1>4, <2>1, <3>1 DEF AnswerSound, TabSound
  <2>2. CASE q # new
    <3>1. AnswerSound(q, t)
      BY <1>5, <1>8, <2>2 DEF TabSound
    <3> QED BY <1>4, <3>1 DEF AnswerSound
  <2> QED BY <2>1, <2>2
<1>9. AsSeen(forecasts, seen[t])' /\ AsShown(t)'
  BY <1>4 DEF TabSound, AsSeen, AsShown
<1> QED BY <1>4, <1>6, <1>7, <1>8, <1>9 DEF TabSound

(* A reload that ends without being shown.                                 *)
LEMMA DropKeepsLists ==
  ASSUME ListTypes, NEW t \in Tabs, TabSound(t), forecasts' = forecasts, NEW r \in reloads[t],
         EndReload(t, r), UNCHANGED <<shown, unread, seen>>
  PROVE  TabSound(t)' /\ ListTypes'
<1>1. reloads' = [reloads EXCEPT ![t] = @ \ {r}] /\ UNCHANGED generation
  BY DEF EndReload
<1>2. reloads'[t] = reloads[t] \ {r}
  BY <1>1 DEF ListTypes
<1>3. ListTypes'
  BY <1>1 DEF ListTypes
<1>4. \A q \in reloads'[t] : q.answer # Pending => AnswerSound(q, t)'
  BY <1>1, <1>2 DEF TabSound, AnswerSound
<1>5. AsSeen(forecasts, seen[t])' /\ AsShown(t)'
  BY DEF TabSound, AsSeen, AsShown
<1> QED BY <1>1, <1>2, <1>3, <1>4, <1>5 DEF TabSound

LEMMA ShowKeepsLists ==
  ASSUME ListTypes, NEW t \in Tabs, TabSound(t), forecasts' = forecasts, NEW r \in reloads[t],
         ShowList(t, r)
  PROVE  /\ TabSound(t)' /\ ListTypes'
         /\ \A id \in Ids : seen'[t][id] >= seen[t][id]
         /\ \A u \in Tabs : u # t => UNCHANGED <<shown[u], unread[u], seen[u]>>
<1>0. \A id \in Ids : seen[t][id] \in Nat
  BY DEF ListTypes
<1>1. CASE ~Latest(t, r)
  <2>1. UNCHANGED <<shown, unread, seen>> /\ EndReload(t, r)
    BY <1>1 DEF ShowList
  <2>2. TabSound(t)' /\ ListTypes'
    BY <2>1, DropKeepsLists
  <2> QED BY <1>0, <2>1, <2>2
<1>2. CASE Latest(t, r)
  <2> DEFINE now == [id \in Ids |-> IF r.answer[id] = None THEN seen[t][id]
                                    ELSE r.answer[id].revision]
  <2>1. /\ r.answer # Pending /\ r \in Reload
        /\ reloads' = [reloads EXCEPT ![t] = @ \ {r}] /\ generation' = generation
        /\ shown' = [shown EXCEPT ![t] = r.answer]
        /\ unread' = [unread EXCEPT ![t] = r.unavailable]
        /\ seen' = [seen EXCEPT ![t] = now]
    BY <1>2 DEF ShowList, EndReload, ListTypes
  <2>2. r.answer \in Lists /\ r.unavailable \in BOOLEAN
    BY <2>1 DEF Reload, Lists
  <2>3. \A id \in Ids : r.answer[id] # None => r.answer[id].revision \in Nat
    BY <2>2 DEF Lists, Forecast
  <2>4. now \in [Ids -> Nat]
    BY <1>0, <2>3
  <2>5. \A id \in Ids : now[id] = IF r.answer[id] = None THEN seen[t][id]
                                  ELSE r.answer[id].revision
    OBVIOUS
  <2> HIDE DEF now
  <2>6. /\ reloads'[t] = reloads[t] \ {r} /\ shown'[t] = r.answer
        /\ unread'[t] = r.unavailable /\ seen'[t] = now
    BY <2>1 DEF ListTypes
  <2>7. ListTypes'
    BY <2>1, <2>2, <2>4 DEF ListTypes
  <2>8. AnswerSound(r, t) /\ r.generation = generation[t]
    BY <1>2, <2>1 DEF TabSound, Latest
  <2>9. /\ AsSeen(forecasts, now)
        /\ \A id \in Ids : now[id] >= seen[t][id]
        /\ \A id \in Ids : now[id] > 0 =>
             IF r.answer[id] = None THEN r.unavailable ELSE r.answer[id].revision >= now[id]
    <3>1. CASE r.unavailable
      <4>1. \A id \in Ids : r.answer[id] = None /\ now[id] = seen[t][id]
        BY <2>5, <2>8, <3>1 DEF AnswerSound, NoList
      <4> QED BY <1>0, <3>1, <4>1 DEF TabSound, AsSeen
    <3>2. CASE ~r.unavailable
      <4>1. Newer(r.answer, forecasts) /\ AsSeen(r.answer, seen[t])
        BY <2>8, <3>2 DEF AnswerSound
      <4>2. ASSUME NEW id \in Ids
            PROVE  /\ now[id] >= seen[t][id]
                   /\ now[id] > 0 => /\ r.answer[id] # None /\ r.answer[id].revision >= now[id]
                                     /\ forecasts[id] # None /\ forecasts[id].revision >= now[id]
        <5>1. CASE r.answer[id] = None
          <6>1. now[id] = seen[t][id] /\ ~(seen[t][id] > 0)
            BY <2>5, <4>1, <5>1 DEF AsSeen
          <6> QED BY <1>0, <6>1
        <5>2. CASE r.answer[id] # None
          <6>1. now[id] = r.answer[id].revision /\ r.answer[id].revision \in Nat
            BY <2>3, <2>5, <5>2
          <6>2. seen[t][id] > 0 => r.answer[id].revision >= seen[t][id]
            BY <4>1 DEF AsSeen
          <6>3. forecasts[id] # None /\ forecasts[id].revision >= r.answer[id].revision
            BY <4>1, <5>2 DEF Newer
          <6> QED BY <1>0, <5>2, <6>1, <6>2, <6>3
        <5> QED BY <5>1, <5>2
      <4> QED BY <4>2 DEF AsSeen
    <3> QED BY <2>2, <3>1, <3>2
  <2>10. \A q \in reloads'[t] : q.answer # Pending => AnswerSound(q, t)'
    <3> SUFFICES ASSUME NEW q \in reloads'[t], q.answer # Pending PROVE AnswerSound(q, t)'
      OBVIOUS
    <3>1. q \in reloads[t] /\ q # r
      BY <2>6
    <3>2. AnswerSound(q, t) /\ q.generation # generation'[t]
      BY <2>1, <2>8, <3>1 DEF TabSound
    <3> QED BY <3>2 DEF AnswerSound
  <2>11. AsSeen(forecasts, seen[t])' /\ AsShown(t)'
    BY <2>6, <2>9 DEF AsShown, AsSeen
  <2>12. \A q, s \in reloads'[t] :
           /\ q.generation <= generation'[t]
           /\ q.generation = s.generation => q = s
    BY <2>1, <2>6 DEF TabSound
  <2>13. \A u \in Tabs : u # t => UNCHANGED <<shown[u], unread[u], seen[u]>>
    BY <2>1 DEF ListTypes
  <2>14. TabSound(t)'
    BY <2>10, <2>11, <2>12 DEF TabSound
  <2>15. \A id \in Ids : seen'[t][id] >= seen[t][id]
    BY <2>6, <2>9
  <2> QED BY <2>7, <2>13, <2>14, <2>15
<1> QED BY <1>1, <1>2

(* A tab that shows nothing new keeps its part of the invariant.           *)
LEMMA OtherTabs ==
  ASSUME forecasts' = forecasts, NEW u \in Tabs, TabSound(u),
         UNCHANGED <<shown[u], unread[u], generation[u], reloads[u], seen[u]>>
  PROVE  TabSound(u)'
BY DEF TabSound, AnswerSound, AsSeen, AsShown, Newer

LEMMA ListsOfTab ==
  ASSUME ListTypes, ListsSound, UNCHANGED storeVars, NEW t \in Tabs, ListSteps(t)
  PROVE  /\ ListTypes' /\ ListsSound'
         /\ \A u \in Tabs, id \in Ids : seen'[u][id] >= seen[u][id]
<1>0. forecasts' = forecasts /\ TabSound(t) /\ \A u \in Tabs : \A id \in Ids : seen[u][id] >= seen[u][id]
  BY DEF storeVars, ListsSound, ListTypes
<1>1. TabSound(t)' /\ ListTypes' /\ \A id \in Ids : seen'[t][id] >= seen[t][id]
  <2>1. ASSUME NEW saving \in BOOLEAN, Ask(t, saving)
        PROVE  TabSound(t)' /\ ListTypes' /\ seen' = seen
    BY <1>0, <2>1, AskKeepsLists
  <2>2. ASSUME NEW r \in reloads[t], ReadList(t, r) \/ ReadOthersOnly(t, r)
        PROVE  TabSound(t)' /\ ListTypes' /\ seen' = seen
    BY <1>0, <2>2, AnswerKeepsLists
  <2>3. ASSUME NEW r \in reloads[t], ReloadFails(t, r)
        PROVE  TabSound(t)' /\ ListTypes' /\ seen' = seen
    BY <1>0, <2>3, DropKeepsLists DEF ReloadFails
  <2>4. ASSUME NEW r \in reloads[t], ShowList(t, r)
        PROVE  TabSound(t)' /\ ListTypes' /\ \A id \in Ids : seen'[t][id] >= seen[t][id]
    BY <1>0, <2>4, ShowKeepsLists
  <2> QED BY <1>0, <2>1, <2>2, <2>3, <2>4 DEF ListSteps
<1>2. ASSUME NEW u \in Tabs, u # t
      PROVE  UNCHANGED <<shown[u], unread[u], generation[u], reloads[u], seen[u]>>
  <2>1. UNCHANGED <<generation[u], reloads[u]>>
    BY <1>2 DEF ListSteps, Ask, ReadList, ReadOthersOnly, Answered, ShowList, ReloadFails, EndReload,
       ListTypes
  <2>2. UNCHANGED <<shown[u], unread[u], seen[u]>>
    <3>1. ASSUME NEW r \in reloads[t], ShowList(t, r)
          PROVE  UNCHANGED <<shown[u], unread[u], seen[u]>>
      BY <1>0, <1>2, <3>1, ShowKeepsLists
    <3>2. \/ UNCHANGED <<shown, unread, seen>>
          \/ \E r \in reloads[t] : ShowList(t, r)
      BY DEF ListSteps, Ask, ReadList, ReadOthersOnly, Answered, ReloadFails
    <3> QED BY <3>1, <3>2
  <2> QED BY <2>1, <2>2
<1>3. ListsSound'
  <2> SUFFICES ASSUME NEW u \in Tabs PROVE TabSound(u)'
    BY DEF ListsSound
  <2>1. CASE u # t
    BY <1>0, <1>2, <2>1, OtherTabs DEF ListsSound
  <2> QED BY <1>1, <2>1
<1>4. ASSUME NEW u \in Tabs, NEW id \in Ids PROVE seen'[u][id] >= seen[u][id]
  BY <1>0, <1>1, <1>2
<1> QED BY <1>1, <1>3, <1>4

(* The store moving on leaves every list behind it.                        *)
LEMMA StoreLeavesLists ==
  ASSUME StoreInv, ListTypes, ListsSound, [Next]_vars, UNCHANGED shownVars
  PROVE  ListTypes' /\ ListsSound'
<1>1. Newer(forecasts, forecasts') /\ StoreInv'
  BY StepMovesOn, StepKeepsStoreInv
<1>2. forecasts' \in Lists
  BY <1>1 DEF StoreInv, StoreTypeOK, Lists
<1>3. ListTypes'
  BY <1>2 DEF ListTypes, shownVars
<1>4. \A x \in Lists : Newer(x, forecasts) => Newer(x, forecasts')
  BY <1>1, <1>2, NewerTransitive DEF ListTypes
<1>5. ASSUME NEW t \in Tabs PROVE TabSound(t)'
  <2>1. TabSound(t)
    BY DEF ListsSound
  <2>2. AsSeen(forecasts', seen[t])
    <3>1. seen[t] \in [Ids -> Nat] /\ forecasts \in Lists
      BY DEF ListTypes
    <3> QED BY <1>1, <1>2, <2>1, <3>1, AsSeenByNewer DEF TabSound
  <2>3. ASSUME NEW r \in reloads[t], r.answer # Pending PROVE AnswerSound(r, t)'
    <3>1. r.answer \in Lists
      BY <2>3 DEF ListTypes, Reload, Lists
    <3>2. AnswerSound(r, t)
      BY <2>1, <2>3 DEF TabSound
    <3> QED BY <1>4, <3>1, <3>2 DEF AnswerSound, shownVars
  <2>4. AsShown(t)'
    BY <2>1 DEF TabSound, AsShown, shownVars
  <2> QED BY <2>1, <2>2, <2>3, <2>4 DEF TabSound, shownVars
<1> QED BY <1>3, <1>5 DEF ListsSound

LEMMA StepKeepsLists ==
  ASSUME StoreInv, ListTypes, ListsSound, [Next]_vars
  PROVE  /\ ListTypes' /\ ListsSound'
         /\ \A t \in Tabs, id \in Ids : seen'[t][id] >= seen[t][id]
<1>1. CASE UNCHANGED shownVars
  <2>1. \A t \in Tabs, id \in Ids : seen'[t][id] >= seen[t][id]
    BY <1>1 DEF ListTypes, shownVars
  <2> QED BY <1>1, <2>1, StoreLeavesLists
<1>2. ASSUME UNCHANGED storeVars, NEW t \in Tabs, ListSteps(t)
      PROVE  /\ ListTypes' /\ ListsSound'
             /\ \A u \in Tabs, id \in Ids : seen'[u][id] >= seen[u][id]
  BY <1>2, ListsOfTab
<1> QED BY <1>1, <1>2, StepLists

ListInvariant == StoreInv /\ ListTypes /\ ListsSound

LEMMA InitEstablishesLists == Init => ListInvariant
<1> SUFFICES ASSUME Init PROVE ListInvariant
  OBVIOUS
<1>1. StoreInv
  BY InitEstablishesInv DEF Init
<1>2. NoList \in Lists
  BY DEF NoList, Lists
<1>3. ListTypes
  <2>1. forecasts \in Lists
    BY <1>1 DEF StoreInv, StoreTypeOK, Lists
  <2> QED BY <1>2, <2>1 DEF Init, ListTypes
<1>4. ListsSound
  BY DEF Init, ListsSound, TabSound, AsSeen, AsShown, NoList
<1> QED BY <1>1, <1>3, <1>4 DEF ListInvariant

(* A tab never shows an older revision of a forecast than it ever showed,  *)
(* in whatever order the answers of its reloads arrive, and it says so     *)
(* when a portfolio without this organization takes one away.              *)
THEOREM ConsoleShowsNoOlder == Spec => ShownNeverOlder
<1> DEFINE A == \A t \in Tabs, id \in Ids : seen[t][id] > 0 =>
                  IF shown'[t][id] = None THEN unread'[t]
                  ELSE shown'[t][id].revision >= seen[t][id]
<1>1. ListInvariant /\ [Next]_vars => ListInvariant'
  BY StepKeepsLists, StepKeepsStoreInv DEF ListInvariant
<1>2. ASSUME ListInvariant, [Next]_vars PROVE A
  <2> SUFFICES ASSUME NEW t \in Tabs, NEW id \in Ids, seen[t][id] > 0
               PROVE  IF shown'[t][id] = None THEN unread'[t]
                      ELSE shown'[t][id].revision >= seen[t][id]
    OBVIOUS
  <2>1. ListTypes' /\ ListsSound' /\ seen'[t][id] >= seen[t][id]
    BY <1>2, StepKeepsLists DEF ListInvariant
  <2>2. /\ seen[t][id] \in Nat /\ seen'[t][id] \in Nat
        /\ shown'[t][id] # None => shown'[t][id].revision \in Nat
    <3>1. shown'[t][id] # None => shown'[t][id] \in Forecast
      BY <2>1 DEF ListTypes, Lists
    <3> QED BY <1>2, <2>1, <3>1 DEF ListInvariant, ListTypes, Forecast
  <2>3. seen'[t][id] > 0
    BY <2>1, <2>2
  <2>4. IF shown'[t][id] = None THEN unread'[t] ELSE shown'[t][id].revision >= seen'[t][id]
    BY <2>1, <2>3 DEF ListsSound, TabSound, AsShown
  <2> QED BY <2>1, <2>2, <2>4
<1>3. ListInvariant /\ [Next]_vars => [A]_vars
  BY <1>2
<1>4. Spec => [][A]_vars
  BY <1>1, <1>3, InitEstablishesLists, PTL DEF Spec
<1> QED BY <1>4 DEF ShownNeverOlder

-----------------------------------------------------------------------------
(* Attempts                                                                *)

EditTypes ==
  /\ published \subseteq Command
  /\ form \in [Tabs -> Form]
  /\ attempts \in [Tabs -> SUBSET Attempt]
  /\ origin \in [Refs -> Form]
  /\ shown \in [Tabs -> [Ids -> Forecast \cup {None}]]

(* The attempts of a tab change by one that is new, or to others with the  *)
(* same commands; what is published is what was attempted.                 *)
Attempted == {a.cmd : a \in UNION {attempts[t] : t \in Tabs}}

NewAttempt ==
  \E t \in Tabs, ref \in Refs : \E c \in Command :
    /\ Unused(ref) /\ c.ref = ref
    /\ published' = published
    /\ Wait(t, c)
    /\ \/ UNCHANGED origin
       \/ /\ form[t] # Closed
          /\ origin' = [origin EXCEPT ![ref] = form[t]]
          /\ c.action = "save" /\ c.id = form[t].id /\ c.expected = form[t].base

OldAttempts ==
  /\ Attempted' \subseteq Attempted
  /\ published' \subseteq published \cup Attempted
  /\ published \subseteq published'
  /\ UNCHANGED origin

LEMMA CommandTyped ==
  ASSUME NEW t \in Tabs, NEW ref \in Refs, NEW action \in Actions, NEW id \in Ids \cup {None},
         NEW content \in Contents, NEW n \in Nat
  PROVE  /\ CommandOf(t, ref, action, id, content, n) \in Command
         /\ CommandOf(t, ref, action, id, content, n).ref = ref
         /\ CommandOf(t, ref, action, id, content, n).action = action
         /\ CommandOf(t, ref, action, id, content, n).id = id
         /\ CommandOf(t, ref, action, id, content, n).expected = n
BY StoreAssumption, ConsoleAssumption DEF CommandOf, Command

LEMMA SaveAttempts ==
  ASSUME EditTypes, NEW t \in Tabs, NEW ref \in Refs, NEW content \in Contents,
         Save(t, ref, content)
  PROVE  NewAttempt
<1> DEFINE c == CommandOf(t, ref, "save", form[t].id, content, form[t].base)
<1>1. form[t] \in Form /\ form[t] # Closed
  BY DEF EditTypes, Save
<1>2. "save" \in Actions /\ form[t].id \in Ids \cup {None} /\ form[t].base \in Nat
  BY <1>1 DEF Form, Actions
<1>3. /\ c \in Command /\ c.ref = ref
      /\ c.action = "save" /\ c.id = form[t].id /\ c.expected = form[t].base
  BY <1>2, CommandTyped
<1>4. Unused(ref) /\ Wait(t, c) /\ published' = published /\ origin' = [origin EXCEPT ![ref] = form[t]]
  BY DEF Save, Base
<1> QED BY <1>1, <1>3, <1>4 DEF NewAttempt

LEMMA PressAttempts ==
  ASSUME EditTypes, NEW t \in Tabs, NEW ref \in Refs, NEW id \in Ids, NEW action \in Actions,
         Press(t, ref, id, action)
  PROVE  NewAttempt
<1>1. PICK content \in Contents : Wait(t, CommandOf(t, ref, action, id, content, shown[t][id].revision))
  BY DEF Press
<1> DEFINE c == CommandOf(t, ref, action, id, content, shown[t][id].revision)
<1>2. shown[t][id] \in Forecast
  BY DEF EditTypes, Press
<1>3. shown[t][id].revision \in Nat
  BY <1>2 DEF Forecast
<1>4. c \in Command /\ c.ref = ref
  BY <1>3, CommandTyped
<1>5. Unused(ref) /\ published' = published /\ UNCHANGED origin
  BY DEF Press
<1> QED BY <1>1, <1>4, <1>5 DEF NewAttempt

(* An attempt that is replaced by none, or by one with its command.        *)
LEMMA ReplacedAttempt ==
  ASSUME EditTypes, NEW t \in Tabs, NEW a \in attempts[t], NEW S \in SUBSET {b \in Attempt : b.cmd = a.cmd},
         attempts' = [attempts EXCEPT ![t] = (@ \ {a}) \cup S]
  PROVE  Attempted' \subseteq Attempted /\ a.cmd \in Attempted /\ attempts' \in [Tabs -> SUBSET Attempt]
<1>1. a.cmd \in Attempted
  BY DEF Attempted
<1>2. ASSUME NEW u \in Tabs, NEW b \in attempts'[u]
      PROVE  b.cmd \in Attempted
  <2>1. CASE u # t
    BY <1>2, <2>1 DEF EditTypes, Attempted
  <2>2. CASE u = t
    <3>1. b \in attempts[t] \/ b \in S
      BY <1>2, <2>2 DEF EditTypes
    <3> QED BY <3>1, <1>1 DEF Attempted
  <2> QED BY <2>1, <2>2
<1>3. Attempted' \subseteq Attempted
  BY <1>2 DEF Attempted
<1>4. attempts' \in [Tabs -> SUBSET Attempt]
  BY DEF EditTypes
<1> QED BY <1>1, <1>3, <1>4

LEMMA AttemptEnds ==
  ASSUME EditTypes, NEW t \in Tabs, NEW a \in attempts[t],
         Queued(t, a) \/ PostFails(t, a) \/ Poll(t, a) \/ GiveUp(t, a)
           \/ LearnFailed(t, a) \/ LearnApplied(t, a)
  PROVE  OldAttempts /\ attempts' \in [Tabs -> SUBSET Attempt]
<1>0. a \in Attempt
  BY DEF EditTypes
<1>1. CASE Queued(t, a)
  <2> DEFINE b == [a EXCEPT !.state = "queued"]
  <2>1. {b} \in SUBSET {d \in Attempt : d.cmd = a.cmd}
    BY <1>0 DEF Attempt
  <2>2. /\ attempts' = [attempts EXCEPT ![t] = (@ \ {a}) \cup {b}]
        /\ published' = published \cup {a.cmd} /\ UNCHANGED origin
    BY <1>1 DEF Queued
  <2> HIDE DEF b
  <2> QED BY <2>1, <2>2, ReplacedAttempt DEF OldAttempts
<1>2. CASE Poll(t, a)
  <2> DEFINE b == [a EXCEPT !.polls = a.polls + 1]
  <2>1. a.polls + 1 \in Nat
    BY <1>0 DEF Attempt
  <2>2. PICK n \in Nat : n = a.polls + 1
    BY <2>1
  <2>3. [a EXCEPT !.polls = n] \in Attempt /\ [a EXCEPT !.polls = n].cmd = a.cmd
    BY <1>0 DEF Attempt
  <2>4. {b} \in SUBSET {d \in Attempt : d.cmd = a.cmd}
    BY <2>2, <2>3
  <2>5. /\ attempts' = [attempts EXCEPT ![t] = (@ \ {a}) \cup {b}]
        /\ published' = published /\ UNCHANGED origin
    BY <1>2, Zenon DEF Poll
  <2> HIDE DEF b
  <2> QED BY <2>4, <2>5, ReplacedAttempt DEF OldAttempts
<1>3. CASE PostFails(t, a) \/ GiveUp(t, a) \/ LearnFailed(t, a) \/ LearnApplied(t, a)
  <2>1. attempts' = [attempts EXCEPT ![t] = (@ \ {a}) \cup {}]
    BY <1>3, Zenon DEF PostFails, GiveUp, LearnFailed, LearnApplied, Forget
  <2>2. (published' = published \/ published' = published \cup {a.cmd}) /\ UNCHANGED origin
    BY <1>3, Zenon DEF PostFails, GiveUp, LearnFailed, LearnApplied, Forget
  <2>3. {} \in SUBSET {b \in Attempt : b.cmd = a.cmd}
    OBVIOUS
  <2> QED BY <2>1, <2>2, <2>3, ReplacedAttempt DEF OldAttempts
<1> QED BY <1>1, <1>2, <1>3

(* Every step sends something new, goes on with something old, or does     *)
(* neither and may apply a command.                                        *)
LEMMA StepAttempts ==
  ASSUME EditTypes, [Next]_vars
  PROVE  \/ UNCHANGED storeVars /\ (NewAttempt \/ OldAttempts)
         \/ UNCHANGED <<published, attempts, origin>>
<1>1. CASE UNCHANGED vars
  BY <1>1 DEF vars, consoleVars, editVars
<1>2. ASSUME NEW c \in published \cap Commands, Deliver(c)
      PROVE  UNCHANGED <<published, attempts, origin>>
  BY <1>2 DEF Deliver, consoleVars, editVars
<1>3. ASSUME NEW t \in Tabs, TabNext(t)
      PROVE  \/ UNCHANGED storeVars /\ (NewAttempt \/ OldAttempts)
             \/ UNCHANGED <<published, attempts, origin>>
  <2>1. CASE StartReload(t) \/ OpenNew(t) \/ CloseEditor(t) \/ \E id \in Ids : OpenEditor(t, id)
    BY <2>1, Zenon DEF StartReload, OpenNew, CloseEditor, OpenEditor, Open, editVars
  <2>2. ASSUME NEW r \in reloads[t],
               ReadList(t, r) \/ ReadOthersOnly(t, r) \/ ShowList(t, r) \/ ReloadFails(t, r)
        PROVE  UNCHANGED <<published, attempts, origin>>
    BY <2>2, Zenon DEF ReadList, ReadOthersOnly, Answered, ShowList, ReloadFails, EndReload, editVars
  <2>3. ASSUME NEW ref \in Refs, NEW content \in Contents, Save(t, ref, content)
        PROVE  UNCHANGED storeVars /\ NewAttempt
    BY <2>3, SaveAttempts DEF Save
  <2>4. ASSUME NEW ref \in Refs, NEW id \in Ids, NEW action \in Actions, Press(t, ref, id, action)
        PROVE  UNCHANGED storeVars /\ NewAttempt
    BY <2>4, PressAttempts DEF Press
  <2>5. ASSUME NEW a \in attempts[t],
               Queued(t, a) \/ PostFails(t, a) \/ Poll(t, a) \/ GiveUp(t, a)
                 \/ LearnFailed(t, a) \/ LearnApplied(t, a)
        PROVE  UNCHANGED storeVars /\ OldAttempts
    <3>1. UNCHANGED storeVars
      BY <2>5, Zenon DEF Queued, PostFails, Poll, GiveUp, LearnFailed, LearnApplied, Forget
    <3> QED BY <2>5, <3>1, AttemptEnds
  <2> QED BY <1>3, <2>1, <2>2, <2>3, <2>4, <2>5 DEF TabNext
<1> QED BY <1>1, <1>2, <1>3 DEF Next

(* The other variables keep their types, too.                              *)
LEMMA StepKeepsTypes ==
  ASSUME ConsoleTypeOK, StoreTypeOK', ListTypes', [Next]_vars
  PROVE  ConsoleTypeOK'
<1> USE DEF ConsoleTypeOK
<1>0. EditTypes
  BY DEF EditTypes
<1>1. SUFFICES /\ published' \subseteq Command
               /\ scope' \in [Tabs -> Scopes]
               /\ form' \in [Tabs -> Form]
               /\ enabled' \in [Tabs -> BOOLEAN]
               /\ attempts' \in [Tabs -> SUBSET Attempt]
               /\ forms' \in Nat
               /\ origin' \in [Refs -> Form]
  BY DEF ListTypes, Lists
<1>2. CASE UNCHANGED consoleVars
  BY <1>2 DEF consoleVars, listVars, editVars
<1>3. ASSUME NEW t \in Tabs, StartReload(t)
      PROVE  scope' \in [Tabs -> Scopes] /\ UNCHANGED editVars
  BY <1>3 DEF StartReload
<1>4. ASSUME NEW t \in Tabs, NEW r \in reloads[t],
             ReadList(t, r) \/ ReadOthersOnly(t, r) \/ ShowList(t, r) \/ ReloadFails(t, r)
      PROVE  /\ UNCHANGED <<scope, published, form, attempts, forms, origin>>
             /\ enabled' \in [Tabs -> BOOLEAN]
  <2>1. CASE ReadList(t, r) \/ ReadOthersOnly(t, r)
    BY <2>1 DEF ReadList, ReadOthersOnly, Answered, editVars
  <2>2. CASE EndReload(t, r)
    BY <2>2 DEF EndReload
  <2> QED BY <1>4, <2>1, <2>2 DEF ShowList, ReloadFails
<1>5. Closed \in Form
  BY DEF Closed, Form
<1>6. ASSUME NEW t \in Tabs, NEW id \in Ids \cup {None}, NEW n \in Nat, Open(t, id, n)
      PROVE  form' \in [Tabs -> Form] /\ enabled' \in [Tabs -> BOOLEAN] /\ forms' \in Nat
             /\ UNCHANGED <<scope, published, attempts, origin>>
  <2>1. [n |-> forms + 1, id |-> id, base |-> n] \in Form
    BY DEF Form
  <2> QED BY <1>6, <2>1 DEF Open, listVars
<1>7. ASSUME NEW t \in Tabs, OpenNew(t) \/ CloseEditor(t) \/ \E id \in Ids : OpenEditor(t, id)
      PROVE  form' \in [Tabs -> Form] /\ enabled' \in [Tabs -> BOOLEAN] /\ forms' \in Nat
             /\ UNCHANGED <<scope, published, attempts, origin>>
  <2>1. CASE OpenNew(t)
    BY <1>6, <2>1 DEF OpenNew
  <2>2. CASE CloseEditor(t)
    BY <1>5, <2>2 DEF CloseEditor, listVars
  <2>3. ASSUME NEW id \in Ids, OpenEditor(t, id)
        PROVE  Open(t, id, shown[t][id].revision) /\ shown[t][id].revision \in Nat
    <3>1. shown[t][id] \in Forecast
      BY <2>3 DEF OpenEditor
    <3> QED BY <2>3, <3>1 DEF OpenEditor, Forecast
  <2> QED BY <1>6, <1>7, <2>1, <2>2, <2>3
<1>8. ASSUME NEW t \in Tabs, NEW ref \in Refs,
             \/ \E content \in Contents : Save(t, ref, content)
             \/ \E id \in Ids, action \in Actions : Press(t, ref, id, action)
      PROVE  /\ UNCHANGED <<scope, published, form, forms>>
             /\ enabled' \in [Tabs -> BOOLEAN]
             /\ attempts' \in [Tabs -> SUBSET Attempt]
             /\ origin' \in [Refs -> Form]
  <2>1. UNCHANGED <<scope, published, form, forms>> /\ enabled' \in [Tabs -> BOOLEAN]
    BY <1>8 DEF Save, Press, listVars
  <2>2. NewAttempt
    BY <1>0, <1>8, SaveAttempts, PressAttempts
  <2>3. PICK u \in Tabs, q \in Refs : \E c \in Command :
          Wait(u, c) /\ (UNCHANGED origin \/ origin' = [origin EXCEPT ![q] = form[u]])
    BY <2>2 DEF NewAttempt
  <2>4. PICK c \in Command : Wait(u, c)
    BY <2>3
  <2>5. [cmd |-> c, state |-> "posted", polls |-> 0] \in Attempt
    BY DEF Attempt
  <2>6. attempts' \in [Tabs -> SUBSET Attempt]
    BY <2>4, <2>5 DEF Wait
  <2>7. origin' \in [Refs -> Form]
    BY <2>3
  <2> QED BY <2>1, <2>6, <2>7
<1>9. ASSUME NEW t \in Tabs, NEW a \in attempts[t],
             Queued(t, a) \/ PostFails(t, a) \/ Poll(t, a) \/ GiveUp(t, a)
               \/ LearnFailed(t, a) \/ LearnApplied(t, a)
      PROVE  /\ published' \subseteq Command /\ attempts' \in [Tabs -> SUBSET Attempt]
             /\ form' \in [Tabs -> Form] /\ enabled' \in [Tabs -> BOOLEAN]
             /\ UNCHANGED <<scope, forms, origin>>
  <2>1. OldAttempts /\ attempts' \in [Tabs -> SUBSET Attempt]
    BY <1>0, <1>9, AttemptEnds
  <2>2. Attempted \subseteq Command
    BY DEF Attempted, Attempt
  <2>3. published' \subseteq Command
    BY <2>1, <2>2 DEF OldAttempts
  <2>4. UNCHANGED <<scope, forms, origin>>
    BY <1>9, Zenon DEF Queued, PostFails, Poll, GiveUp, LearnFailed, LearnApplied, Forget, listVars
  <2>5. \/ UNCHANGED form
        \/ form' = [form EXCEPT ![t] = Closed]
    BY <1>9, Zenon DEF Queued, PostFails, Poll, GiveUp, LearnFailed, LearnApplied, Forget
  <2>6. \/ UNCHANGED enabled
        \/ enabled' = [enabled EXCEPT ![t] = TRUE]
    BY <1>9, Zenon DEF Queued, PostFails, Poll, GiveUp, LearnFailed, LearnApplied, Forget
  <2> QED BY <1>5, <2>1, <2>3, <2>4, <2>5, <2>6
<1>10. ASSUME NEW t \in Tabs, TabNext(t)
       PROVE  /\ published' \subseteq Command
              /\ scope' \in [Tabs -> Scopes]
              /\ form' \in [Tabs -> Form]
              /\ enabled' \in [Tabs -> BOOLEAN]
              /\ attempts' \in [Tabs -> SUBSET Attempt]
              /\ forms' \in Nat
              /\ origin' \in [Refs -> Form]
  <2>1. CASE StartReload(t)
    BY <1>3, <2>1 DEF editVars
  <2>2. CASE \E r \in reloads[t] :
               ReadList(t, r) \/ ReadOthersOnly(t, r) \/ ShowList(t, r) \/ ReloadFails(t, r)
    BY <1>4, <2>2
  <2>3. CASE OpenNew(t) \/ CloseEditor(t) \/ \E id \in Ids : OpenEditor(t, id)
    BY <1>7, <2>3
  <2>4. CASE \/ \E ref \in Refs, content \in Contents : Save(t, ref, content)
             \/ \E ref \in Refs, id \in Ids, action \in Actions : Press(t, ref, id, action)
    BY <1>8, <2>4
  <2>5. CASE \E a \in attempts[t] :
               Queued(t, a) \/ PostFails(t, a) \/ Poll(t, a) \/ GiveUp(t, a)
                 \/ LearnFailed(t, a) \/ LearnApplied(t, a)
    BY <1>9, <2>5
  <2> QED BY <1>10, <2>1, <2>2, <2>3, <2>4, <2>5 DEF TabNext
<1>11. ASSUME NEW c \in published \cap Commands, Deliver(c)
       PROVE  UNCHANGED consoleVars
  BY <1>11 DEF Deliver
<1> QED BY <1>2, <1>10, <1>11 DEF Next, vars

ConsoleInv ==
  /\ StoreInv /\ ConsoleTypeOK
  /\ ListsSound
  /\ AttemptsHonest /\ DecidedPublished /\ Passed /\ EditAppliedOnce

LEMMA StepKeepsAttempts ==
  ASSUME ConsoleInv, [Next]_vars
  PROVE  AttemptsHonest'
<1> USE DEF ConsoleInv
<1>0. EditTypes /\ AttemptsHonest
  BY DEF EditTypes, ConsoleTypeOK
<1>1. CASE UNCHANGED <<published, attempts, origin>>
  BY <1>1 DEF AttemptsHonest, Honest
<1>2. CASE OldAttempts
  <2>1. \A c \in Attempted \cup published : Honest(c)
    BY DEF Attempted, AttemptsHonest
  <2>2. \A c \in Attempted' \cup published' : Honest(c)
    BY <1>2, <2>1 DEF OldAttempts
  <2>3. \A c \in Attempted' \cup published' : Honest(c)'
    BY <1>2, <2>2 DEF OldAttempts, Honest
  <2> QED BY <2>3 DEF AttemptsHonest, Attempted
<1>3. CASE NewAttempt
  <2>1. PICK t \in Tabs, ref \in Refs : \E c \in Command :
          /\ Unused(ref) /\ c.ref = ref
          /\ published' = published
          /\ Wait(t, c)
          /\ \/ UNCHANGED origin
             \/ /\ form[t] # Closed
                /\ origin' = [origin EXCEPT ![ref] = form[t]]
                /\ c.action = "save" /\ c.id = form[t].id /\ c.expected = form[t].base
    BY <1>3 DEF NewAttempt
  <2>2. PICK c \in Command :
          /\ Unused(ref) /\ c.ref = ref
          /\ published' = published
          /\ Wait(t, c)
          /\ \/ UNCHANGED origin
             \/ /\ form[t] # Closed
                /\ origin' = [origin EXCEPT ![ref] = form[t]]
                /\ c.action = "save" /\ c.id = form[t].id /\ c.expected = form[t].base
    BY <2>1
  <2>3. /\ \A u \in Tabs : \A a \in attempts[u] : a.cmd.ref # ref
        /\ \A d \in published : d.ref # ref
        /\ origin[ref] = Closed
    BY <2>2 DEF Unused, Used
  <2>4. \A q \in Refs : q # ref => origin'[q] = origin[q]
    BY <1>0, <2>2 DEF EditTypes
  <2>5. \A d : d.ref # ref /\ Honest(d) => Honest(d)'
    <3> SUFFICES ASSUME NEW d, d.ref # ref, Honest(d), origin'[d.ref] # Closed
                 PROVE  d.action = "save" /\ d.id = origin'[d.ref].id /\ d.expected = origin'[d.ref].base
      BY DEF Honest
    <3>1. origin'[d.ref] = origin[d.ref]
      BY <2>4 DEF Honest
    <3> QED BY <3>1 DEF Honest
  <2>6. Honest(c)'
    <3>1. CASE UNCHANGED origin
      BY <2>2, <2>3, <3>1 DEF Honest
    <3>2. CASE origin' = [origin EXCEPT ![ref] = form[t]] /\ c.action = "save"
               /\ c.id = form[t].id /\ c.expected = form[t].base
      BY <1>0, <2>2, <3>2 DEF Honest, EditTypes
    <3> QED BY <2>2, <3>1, <3>2
  <2>7. ASSUME NEW u \in Tabs, NEW a \in attempts'[u]
        PROVE  Honest(a.cmd)'
    <3>1. a \in attempts[u] \/ a.cmd = c
      BY <1>0, <2>2, <2>7 DEF Wait, EditTypes
    <3> QED BY <1>0, <2>3, <2>5, <2>6, <3>1 DEF AttemptsHonest
  <2>8. \A d \in published' : Honest(d)'
    BY <1>0, <2>2, <2>3, <2>5 DEF AttemptsHonest
  <2> QED BY <2>7, <2>8 DEF AttemptsHonest
<1> QED BY <1>0, <1>1, <1>2, <1>3, StepAttempts

-----------------------------------------------------------------------------
(* Edits                                                                   *)

LEMMA BecomesApplied ==
  ASSUME StoreInv, NEW c \in Commands, Apply(c),
         NEW ref \in Refs, ~Applied(ref), Applied(ref)'
  PROVE  ref = c.ref /\ \E id \in Ids : Commit(c, id)
<1>1. c \in Command /\ commands \in [Refs -> Result \cup {None}]
  BY StoreAssumption DEF StoreInv, StoreTypeOK
<1>2. commands' # commands
  BY DEF Applied
<1>3. ~Replay(c)
  BY <1>2 DEF Replay, storeVars
<1>4. ~Refuse(c)
  <2> SUFFICES ASSUME Refuse(c) PROVE FALSE
    OBVIOUS
  <2> DEFINE result == [id |-> c.id, revision |-> 0, status |-> "failed"]
  <2>1. commands' = [commands EXCEPT ![c.ref] = result]
    BY DEF Refuse, RecordResult
  <2>2. result.status # "applied"
    OBVIOUS
  <2> HIDE DEF result
  <2> QED BY <1>1, <2>1, <2>2 DEF Applied
<1>5. PICK id \in Ids : Commit(c, id)
  BY <1>3, <1>4 DEF Apply
<1>6. ref = c.ref
  <2> DEFINE result == [id |-> id, revision |-> NextRevision(c).revision, status |-> "applied"]
  <2>1. commands' = [commands EXCEPT ![c.ref] = result]
    BY <1>5 DEF Commit, RecordResult
  <2> HIDE DEF result
  <2> QED BY <1>1, <2>1 DEF Applied
<1> QED BY <1>5, <1>6

LEMMA OtherRefsKept ==
  ASSUME StoreInv, NEW c \in Commands, Apply(c), NEW ref \in Refs, commands'[ref] # commands[ref]
  PROVE  ref = c.ref
<1>1. commands \in [Refs -> Result \cup {None}]
  BY DEF StoreInv, StoreTypeOK
<1>2. ~Replay(c)
  BY DEF Replay, storeVars
<1>3. \E x : commands' = [commands EXCEPT ![c.ref] = x]
  BY <1>2 DEF Apply, Refuse, Commit, RecordResult
<1> QED BY <1>1, <1>3

(* An edit that is applied leaves the revision it was made on behind.      *)
LEMMA EditMovesOn ==
  ASSUME StoreInv, NEW c \in Commands, NEW id \in Ids, Commit(c, id),
         c.action = "save", c.id # None
  PROVE  /\ id = c.id
         /\ forecasts[id] # None /\ c.expected = forecasts[id].revision
         /\ forecasts'[id] # None /\ forecasts'[id].revision > c.expected
<1>1. ~CreatesForecast(c)
  BY DEF CreatesForecast
<1>2. id = c.id
  BY <1>1 DEF Commit, Targets
<1>3. forecasts[id] # None /\ c.expected = forecasts[id].revision
  BY <1>2 DEF Commit, Succeeds, Permitted, Exists, Current, Old
<1>4. NextRevision(c) \in Forecast /\ Continued(id, NextRevision(c))
  BY <1>3, CommitShape DEF Fresh
<1>5. forecasts'[id] = NextRevision(c)
  BY DEF Commit, StoreInv, StoreTypeOK
<1>6. forecasts[id].revision \in Nat
  BY <1>3, StoredForecast DEF Forecast
<1> QED BY <1>2, <1>3, <1>4, <1>5, <1>6, StoreAssumption DEF Continued

LEMMA DeliverKeepsEdits ==
  ASSUME ConsoleInv, NEW c \in published \cap Commands, Deliver(c)
  PROVE  DecidedPublished' /\ Passed' /\ EditAppliedOnce'
<1> USE DEF ConsoleInv
<1>1. Apply(c) /\ UNCHANGED <<published, origin>>
  BY DEF Deliver, consoleVars, editVars
<1>2. Honest(c)
  BY DEF AttemptsHonest
<1>3. DecidedPublished'
  <2> SUFFICES ASSUME NEW ref \in Refs, commands'[ref] # None
               PROVE  \E d \in published : d.ref = ref
    BY <1>1 DEF DecidedPublished
  <2>1. CASE commands[ref] # None
    BY <2>1 DEF DecidedPublished
  <2>2. CASE commands[ref] = None
    <3>1. ref = c.ref
      BY <1>1, <2>2, OtherRefsKept
    <3> QED BY <3>1
  <2> QED BY <2>1, <2>2
(* A reference that becomes applied for an editor of an existing forecast. *)
<1>4. ASSUME NEW ref \in Refs, ~Applied(ref), Applied(ref)',
             origin[ref] # Closed, origin[ref].id # None
      PROVE  /\ ref = c.ref /\ c.id = origin[ref].id /\ c.id \in Ids
             /\ forecasts[c.id] # None /\ origin[ref].base = forecasts[c.id].revision
             /\ forecasts'[c.id] # None /\ forecasts'[c.id].revision > origin[ref].base
  <2>1. ref = c.ref
    BY <1>1, <1>4, BecomesApplied
  <2>2. PICK id \in Ids : Commit(c, id)
    BY <1>1, <1>4, BecomesApplied
  <2>3. c.action = "save" /\ c.id = origin[ref].id /\ c.expected = origin[ref].base
    BY <1>2, <1>4, <2>1 DEF Honest
  <2> QED BY <1>4, <2>1, <2>2, <2>3, EditMovesOn
<1>5. origin \in [Refs -> Form]
  BY DEF ConsoleTypeOK
<1>6. Passed'
  <2> SUFFICES ASSUME NEW ref \in Refs, origin[ref] # Closed, origin[ref].id # None, Applied(ref)'
               PROVE  /\ forecasts'[origin[ref].id] # None
                      /\ forecasts'[origin[ref].id].revision > origin[ref].base
    BY <1>1 DEF Passed, Applied
  <2>1. CASE ~Applied(ref)
    BY <1>4, <2>1
  <2>2. CASE Applied(ref)
    <3>1. /\ origin[ref].id \in Ids /\ origin[ref].base \in Nat
          /\ forecasts[origin[ref].id] # None
          /\ forecasts[origin[ref].id].revision > origin[ref].base
      BY <1>5, <2>2 DEF Passed, Form
    <3>2. /\ forecasts'[origin[ref].id] # None
          /\ forecasts'[origin[ref].id].revision >= forecasts[origin[ref].id].revision
      BY <1>1, <3>1, ApplyMovesOn DEF Newer
    <3>3. StoreInv'
      BY <1>1, ApplyKeepsInv
    <3>4. forecasts'[origin[ref].id].revision \in Nat /\ forecasts[origin[ref].id].revision \in Nat
      BY <3>1, <3>2, <3>3 DEF StoreInv, StoreTypeOK, Forecast
    <3> QED BY <3>1, <3>2, <3>4
  <2> QED BY <2>1, <2>2
<1>7. EditAppliedOnce'
  <2> SUFFICES ASSUME NEW r \in Refs, NEW s \in Refs,
                      origin[r] # Closed, origin[r] = origin[s], origin[r].id # None,
                      Applied(r)', Applied(s)'
               PROVE  r = s
    BY <1>1 DEF EditAppliedOnce, Applied
  (* What was applied earlier went beyond the revision an edit needs now.  *)
  <2>1. ASSUME NEW p \in Refs, NEW q \in Refs,
               origin[p] # Closed, origin[p] = origin[q], origin[p].id # None,
               ~Applied(p), Applied(p)', Applied(q)
        PROVE  FALSE
    <3>1. forecasts[origin[p].id].revision > origin[p].base
      BY <2>1 DEF Passed
    <3>2. origin[p].base = forecasts[origin[p].id].revision
      BY <1>4, <2>1
    <3>3. origin[p].base \in Nat
      BY <1>5 DEF Form
    <3> QED BY <3>1, <3>2, <3>3
  <2>2. CASE Applied(r) /\ Applied(s)
    BY <2>2 DEF EditAppliedOnce
  <2>3. CASE ~Applied(r) /\ ~Applied(s)
    BY <1>4, <2>3
  <2>4. CASE Applied(r) /\ ~Applied(s)
    BY <2>1, <2>4
  <2>5. CASE ~Applied(r) /\ Applied(s)
    BY <2>1, <2>5
  <2> QED BY <2>2, <2>3, <2>4, <2>5
<1> QED BY <1>3, <1>6, <1>7

(* A tab draws a reference nothing was decided for.                        *)
LEMMA TabsKeepEdits ==
  ASSUME ConsoleInv, [Next]_vars, UNCHANGED storeVars
  PROVE  DecidedPublished' /\ Passed' /\ EditAppliedOnce'
<1> USE DEF ConsoleInv
<1>0. EditTypes
  BY DEF EditTypes, ConsoleTypeOK
<1>1. forecasts' = forecasts /\ commands' = commands
  BY DEF storeVars
<1>2. \A ref \in Refs : Applied(ref)' <=> Applied(ref)
  BY <1>1 DEF Applied
<1>3. CASE published \subseteq published' /\ UNCHANGED origin
  <2>1. DecidedPublished'
    BY <1>1, <1>3 DEF DecidedPublished
  <2>2. Passed' /\ EditAppliedOnce'
    BY <1>1, <1>2, <1>3 DEF Passed, EditAppliedOnce
  <2> QED BY <2>1, <2>2
<1>4. CASE NewAttempt
  <2>1. PICK ref \in Refs :
          /\ Unused(ref) /\ published' = published
          /\ UNCHANGED origin \/ \E t \in Tabs : origin' = [origin EXCEPT ![ref] = form[t]]
    BY <1>4, Zenon DEF NewAttempt
  <2>2. ~Applied(ref)
    <3>1. \A d \in published : d.ref # ref
      BY <2>1 DEF Unused, Used
    <3> QED BY <3>1 DEF DecidedPublished, Applied
  <2>3. \A q \in Refs : q # ref => origin'[q] = origin[q]
    BY <1>0, <2>1 DEF EditTypes
  <2>4. DecidedPublished'
    BY <1>1, <2>1 DEF DecidedPublished
  <2>5. Passed'
    BY <1>1, <1>2, <2>2, <2>3 DEF Passed
  <2>6. EditAppliedOnce'
    BY <1>2, <2>2, <2>3 DEF EditAppliedOnce
  <2> QED BY <2>4, <2>5, <2>6
<1> QED BY <1>0, <1>3, <1>4, StepAttempts DEF OldAttempts

LEMMA StepKeepsConsoleInv ==
  ASSUME ConsoleInv, [Next]_vars
  PROVE  ConsoleInv'
<1>1. StoreInv' /\ StoreTypeOK'
  BY StepKeepsStoreInv DEF ConsoleInv, StoreInv
<1>2. ListTypes' /\ ListsSound'
  <2>1. ListTypes
    BY DEF ConsoleInv, ConsoleTypeOK, StoreTypeOK, ListTypes, Lists
  <2> QED BY <2>1, StepKeepsLists DEF ConsoleInv
<1>3. ConsoleTypeOK'
  BY <1>1, <1>2, StepKeepsTypes DEF ConsoleInv
<1>4. AttemptsHonest'
  BY StepKeepsAttempts
<1>5. DecidedPublished' /\ Passed' /\ EditAppliedOnce'
  BY StepStores, TabsKeepEdits, DeliverKeepsEdits
<1> QED BY <1>1, <1>2, <1>3, <1>4, <1>5 DEF ConsoleInv

LEMMA InitEstablishesConsoleInv ==
  ASSUME Init
  PROVE  ConsoleInv
<1>1. ListInvariant
  BY InitEstablishesLists
<1>2. Closed \in Form
  BY DEF Closed, Form
<1>3. ConsoleTypeOK
  BY <1>1, <1>2 DEF Init, ConsoleTypeOK, ListInvariant, ListTypes, Lists, Scopes, StoreInv
<1>4. AttemptsHonest
  BY DEF Init, AttemptsHonest
<1>5. DecidedPublished
  BY DEF Init, StoreInit, DecidedPublished
<1>6. Passed /\ EditAppliedOnce
  BY DEF Init, Passed, EditAppliedOnce
<1> QED BY <1>1, <1>3, <1>4, <1>5, <1>6 DEF ConsoleInv, ListInvariant

LEMMA ConsoleInvariant == Spec => []ConsoleInv
BY InitEstablishesConsoleInv, StepKeepsConsoleInv, PTL DEF Spec

(* The variables of the console keep their types.                          *)
THEOREM ConsoleTyped == Spec => []ConsoleTypeOK
<1>1. ConsoleInv => ConsoleTypeOK
  BY DEF ConsoleInv
<1> QED BY <1>1, ConsoleInvariant, PTL

(* However often an editor of an existing forecast is saved, in whatever   *)
(* order and however often its commands are delivered, its changes are     *)
(* applied at most once.                                                   *)
THEOREM ConsoleEditsOnce == Spec => []EditAppliedOnce
<1>1. ConsoleInv => EditAppliedOnce
  BY DEF ConsoleInv
<1> QED BY <1>1, ConsoleInvariant, PTL

(* Whatever the tabs do, the store they share follows the workflow.        *)
THEOREM ConsoleImplementsWorkflow == Spec => ImplementsWorkflow
<1>1. Init => StoreInit
  BY DEF Init
<1>2. ASSUME [Next]_vars
      PROVE  [StoreNext]_storeVars
  BY <1>2, StepStores DEF Deliver, StoreNext
<1>3. Spec => StoreSpec
  BY <1>1, <1>2, PTL DEF Spec, StoreSpec
<1> QED BY <1>3, StoreImplementsWorkflow, PTL
=============================================================================
