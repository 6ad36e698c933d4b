---------------------------- MODULE StartupProofs ----------------------------
(***************************************************************************)
(* Proofs about Startup: the key that sealed the commands on the stream    *)
(* outlives every start, stop and failed start, for any number of them.    *)
(***************************************************************************)
EXTENDS Startup, TLAPS

(* Which steps of run have been done in each phase.                        *)
KeyLoaded ==
  /\ phase \in {"down", "key", "writeKey"} => key = None
  /\ phase \notin {"down", "key", "writeKey"} => key \in Keys /\ key = keyFile
  /\ phase = "writeKey" => keyFile = "short"

BusReady ==
  /\ phase \in {"jetStream", "pullSubscribe", "querySubscribe", "flush"} => nc # "nil"
  /\ phase \in {"pullSubscribe", "querySubscribe", "flush"} => js

(* Nothing was queued before there was a key to seal it with.              *)
NothingUnsealed == keyFile \notin Keys => \A ref \in Refs : queued[ref] = None

StartupInv == TypeOK /\ KeyLoaded /\ BusReady /\ NothingUnsealed /\ SealsSurviveRestarts

LEMMA InitEstablishesStartupInv ==
  ASSUME Init
  PROVE  StartupInv
<1>1. {js, consuming, flushing, failed} \subseteq BOOLEAN /\ durable \in BOOLEAN
  BY Zenon DEF Init
<1>2. TypeOK
  BY <1>1, StartupAssumption DEF Init, TypeOK, Phases
<1>3. KeyLoaded /\ BusReady /\ NothingUnsealed /\ SealsSurviveRestarts
  BY DEF Init, KeyLoaded, BusReady, NothingUnsealed, SealsSurviveRestarts
<1> QED BY <1>2, <1>3 DEF StartupInv

(* Wherever the process ends, what is left is sound.                       *)
LEMMA EndKeepsInv ==
  ASSUME StartupInv, NoProcess,
         UNCHANGED <<keyFile, durable, queued, decided, announced>>, faults' \in 0 .. MaxFaults
  PROVE  StartupInv'
<1> USE DEF StartupInv, NoProcess
<1>1. TypeOK'
  BY DEF TypeOK, Phases
<1>2. KeyLoaded' /\ BusReady' /\ NothingUnsealed' /\ SealsSurviveRestarts'
  BY DEF KeyLoaded, BusReady, NothingUnsealed, SealsSurviveRestarts
<1> QED BY <1>1, <1>2

LEMMA StepKeepsStartupInv ==
  ASSUME StartupInv, [Next]_vars
  PROVE  StartupInv'
<1> USE DEF StartupInv
<1>0. faults \in 0 .. MaxFaults /\ (Fault => faults' \in 0 .. MaxFaults)
  BY StartupAssumption DEF Fault, TypeOK
<1>1. CASE Start
  <2>1. phase = "down" /\ phase' = "key" /\ UNCHANGED <<nc, js, consuming, flushing, failed, key, world>>
    BY <1>1 DEF Start, Step
  <2> QED BY <2>1 DEF TypeOK, Phases, KeyLoaded, BusReady, NothingUnsealed, SealsSurviveRestarts, world
<1>2. CASE LoadKey
  <2>1. UNCHANGED <<nc, js, consuming, flushing, failed, durable, queued, decided, announced, faults>>
    BY <1>2 DEF LoadKey
  <2>2. phase = "key" /\ key = None
    BY <1>2 DEF LoadKey, ReadKey, Step, KeyLoaded
  <2>3. CASE keyFile \in Keys /\ phase' = "connect" /\ key' = keyFile /\ UNCHANGED keyFile
    BY <2>1, <2>2, <2>3, StartupAssumption
       DEF TypeOK, Phases, KeyLoaded, BusReady, NothingUnsealed, SealsSurviveRestarts
  <2>4. CASE keyFile = None /\ phase' = "writeKey" /\ keyFile' = "short" /\ UNCHANGED key
    BY <2>1, <2>2, <2>4, StartupAssumption
       DEF TypeOK, Phases, KeyLoaded, BusReady, NothingUnsealed, SealsSurviveRestarts
  <2> QED BY <1>2, <2>3, <2>4 DEF LoadKey, ReadKey, Step
<1>3. CASE WriteKey
  <2>1. /\ UNCHANGED <<nc, js, consuming, flushing, failed, durable, queued, decided, announced, faults>>
        /\ phase = "writeKey" /\ phase' = "connect" /\ key' \in Keys /\ keyFile' = key'
    BY <1>3 DEF WriteKey, Step
  <2>2. \A ref \in Refs : queued[ref] = None
    BY <2>1, StartupAssumption DEF KeyLoaded, NothingUnsealed
  <2> QED
    BY <2>1, <2>2, StartupAssumption
       DEF TypeOK, Phases, KeyLoaded, BusReady, NothingUnsealed, SealsSurviveRestarts
<1>4. CASE RefuseKey \/ RegisterFails \/ Stop \/ Restart
  BY <1>0, <1>4, EndKeepsInv DEF RefuseKey, RegisterFails, Stop, Restart, world
<1>5. CASE Connect \/ ConnectFails \/ JetStream
  <2>1. /\ UNCHANGED <<consuming, flushing, failed, key, keyFile, durable, queued, decided, announced>>
        /\ faults' \in 0 .. MaxFaults
    BY <1>0, <1>5 DEF Connect, ConnectFails, JetStream, world
  <2>2. \/ phase = "connect" /\ phase' = "jetStream" /\ nc' = "connected" /\ js' = js
        \/ phase = "connect" /\ phase' = "serve" /\ nc' = nc /\ js' = js
        \/ phase = "jetStream" /\ phase' = "pullSubscribe" /\ nc' = nc /\ js' = TRUE
    BY <1>5 DEF Connect, ConnectFails, JetStream, Step
  <2>3. TypeOK'
    BY <2>1, <2>2 DEF TypeOK, Phases
  <2>4. KeyLoaded' /\ BusReady' /\ NothingUnsealed' /\ SealsSurviveRestarts'
    BY <2>1, <2>2 DEF KeyLoaded, BusReady, NothingUnsealed, SealsSurviveRestarts
  <2> QED BY <2>3, <2>4
<1>6. CASE \/ PullSubscribe \/ PullSubscribeFails \/ QuerySubscribe \/ QuerySubscribeFails
           \/ StartFlush \/ FlushFails \/ Register
  <2>1. /\ UNCHANGED <<nc, js, key, keyFile, queued, decided, announced>>
        /\ faults' \in 0 .. MaxFaults
    BY <1>0, <1>6 DEF PullSubscribe, PullSubscribeFails, QuerySubscribe, QuerySubscribeFails,
       StartFlush, FlushFails, Register, world
  <2>2. durable' \in BOOLEAN /\ {consuming', flushing', failed'} \subseteq BOOLEAN
    BY <1>6, Zenon DEF TypeOK, PullSubscribe, PullSubscribeFails, QuerySubscribe, QuerySubscribeFails,
       StartFlush, FlushFails, Register, world
  <2>3. /\ phase \in {"pullSubscribe", "querySubscribe", "flush", "register"}
        /\ phase' \in {"querySubscribe", "flush", "register", "serve"}
        /\ phase = "register" => phase' = "serve"
    BY <1>6 DEF PullSubscribe, PullSubscribeFails, QuerySubscribe, QuerySubscribeFails,
       StartFlush, FlushFails, Register, Step
  <2>4. \/ UNCHANGED <<consuming, flushing>>
        \/ phase \in {"pullSubscribe", "flush"}
    BY <1>6 DEF PullSubscribe, PullSubscribeFails, QuerySubscribe, QuerySubscribeFails,
       StartFlush, FlushFails, Register, Step, world
  <2>5. TypeOK'
    BY <2>1, <2>2, <2>3, <2>4 DEF TypeOK, Phases, BusReady
  <2>6. KeyLoaded' /\ BusReady' /\ NothingUnsealed' /\ SealsSurviveRestarts'
    BY <2>1, <2>3 DEF KeyLoaded, BusReady, NothingUnsealed, SealsSurviveRestarts
  <2> QED BY <2>5, <2>6
<1>7. ASSUME NEW ref \in Refs, Accept(ref)
      PROVE  StartupInv'
  <2>1. /\ phase = "serve" /\ queued' = [queued EXCEPT ![ref] = key]
        /\ UNCHANGED <<process, keyFile, durable, decided, announced, faults>>
    BY <1>7 DEF Accept, Accepting
  <2>2. key \in Keys /\ key = keyFile
    BY <2>1 DEF KeyLoaded
  <2>3. TypeOK'
    BY <2>1, <2>2 DEF TypeOK, process
  <2>4. KeyLoaded' /\ BusReady' /\ NothingUnsealed'
    BY <2>1, <2>2 DEF KeyLoaded, BusReady, NothingUnsealed, process
  <2>5. SealsSurviveRestarts'
    BY <2>1, <2>2 DEF SealsSurviveRestarts, TypeOK, process
  <2> QED BY <2>3, <2>4, <2>5
<1>8. ASSUME NEW ref \in Refs, Decide(ref) \/ Announce(ref)
      PROVE  StartupInv'
  <2>1. UNCHANGED <<process, keyFile, durable, queued, faults>>
    BY <1>8 DEF Decide, Announce
  <2>2. decided' \subseteq Refs /\ announced' \subseteq decided'
    BY <1>8 DEF Decide, Announce, TypeOK
  <2>3. TypeOK'
    BY <2>1, <2>2 DEF TypeOK, process
  <2>4. KeyLoaded' /\ BusReady' /\ NothingUnsealed' /\ SealsSurviveRestarts'
    BY <2>1 DEF KeyLoaded, BusReady, NothingUnsealed, SealsSurviveRestarts, process
  <2> QED BY <2>3, <2>4
<1>9. CASE Disconnect \/ Reconnect
  <2>1. /\ UNCHANGED <<phase, js, consuming, flushing, failed, key, keyFile, durable, queued, decided, announced>>
        /\ nc # "nil" /\ nc' \in {"connected", "reconnecting"} /\ faults' \in 0 .. MaxFaults
    BY <1>0, <1>9 DEF Disconnect, Reconnect, FetchError, FlushError, world
  <2> QED BY <2>1 DEF TypeOK, KeyLoaded, BusReady, NothingUnsealed, SealsSurviveRestarts
<1>10. CASE UNCHANGED vars
  BY <1>10 DEF vars, process, world, TypeOK, KeyLoaded, BusReady, NothingUnsealed, SealsSurviveRestarts
<1> QED
  BY <1>1, <1>2, <1>3, <1>4, <1>5, <1>6, <1>7, <1>8, <1>9, <1>10 DEF Next, Begin

LEMMA StartupInvariant == Spec => []StartupInv
BY InitEstablishesStartupInv, StepKeepsStartupInv, PTL DEF Spec

(* The state of the process and of the world keeps its types, and neither  *)
(* goroutine runs before the connection it uses is set.                    *)
THEOREM StartupTyped == Spec => []TypeOK
<1>1. StartupInv => TypeOK
  BY DEF StartupInv
<1> QED BY <1>1, StartupInvariant, PTL

(* Every command on the stream can be verified by whichever process reads  *)
(* it, after any sequence of starts, failed starts and stops.              *)
THEOREM StartupKeepsSeals == Spec => []SealsSurviveRestarts
<1>1. StartupInv => SealsSurviveRestarts
  BY DEF StartupInv
<1> QED BY <1>1, StartupInvariant, PTL

-----------------------------------------------------------------------------
(***************************************************************************)
(* Finding 2 is the only way in which /health misleads.                    *)
(***************************************************************************)

(* Without an error of StartBus, /health is ok exactly while the process   *)
(* is connected, and both goroutines run then.                             *)
HealthIsTrue ==
  phase = "serve" /\ ~failed =>
    /\ Healthy <=> nc = "connected"
    /\ Healthy => consuming /\ flushing

(* How far StartBus has come.                                              *)
BusBegun ==
  /\ phase \in {"down", "key", "writeKey", "connect"} => nc = "nil" /\ ~js
  /\ phase = "jetStream" => ~js
  /\ js \/ phase = "jetStream" => nc # "nil"
  /\ nc # "nil" => js \/ phase = "jetStream"
  /\ phase \in {"pullSubscribe", "querySubscribe", "flush"} => js
  /\ phase \in {"down", "key", "writeKey", "connect", "jetStream", "pullSubscribe"} => ~failed
  /\ phase \in {"querySubscribe", "flush"} => consuming /\ durable
  /\ phase \in {"register", "serve"} /\ ~failed /\ js => consuming /\ durable /\ flushing
  /\ phase \in Phases

LEMMA StepKeepsBusBegun ==
  ASSUME BusBegun, [Next]_vars
  PROVE  BusBegun'
<1>1. CASE Start \/ LoadKey \/ WriteKey
  BY <1>1 DEF Start, LoadKey, ReadKey, WriteKey, Step, world, BusBegun, Phases
<1>2. CASE RefuseKey \/ RegisterFails \/ Stop \/ Restart
  BY <1>2 DEF RefuseKey, RegisterFails, Stop, Restart, NoProcess, BusBegun, Phases
<1>3. CASE Connect \/ ConnectFails \/ JetStream
  BY <1>3 DEF Connect, ConnectFails, JetStream, Step, world, BusBegun, Phases
<1>4. CASE PullSubscribe \/ PullSubscribeFails
  BY <1>4 DEF PullSubscribe, PullSubscribeFails, Step, world, BusBegun, Phases
<1>5. CASE QuerySubscribe \/ QuerySubscribeFails \/ StartFlush \/ FlushFails \/ Register
  BY <1>5 DEF QuerySubscribe, QuerySubscribeFails, StartFlush, FlushFails, Register, Step, world, BusBegun, Phases
<1>6. ASSUME NEW ref \in Refs, Accept(ref) \/ Decide(ref) \/ Announce(ref)
      PROVE  BusBegun'
  <2>1. UNCHANGED <<process, durable>>
    BY <1>6 DEF Accept, Decide, Announce
  <2> QED BY <2>1 DEF process, BusBegun
<1>7. CASE Disconnect \/ Reconnect
  <2>1. /\ UNCHANGED <<phase, js, consuming, flushing, failed, durable>>
        /\ nc # "nil" /\ nc' # "nil"
    BY <1>7 DEF Disconnect, Reconnect, FetchError, FlushError, world
  <2> QED BY <2>1 DEF BusBegun
<1>8. CASE UNCHANGED vars
  BY <1>8 DEF vars, process, world, BusBegun
<1> QED BY <1>1, <1>2, <1>3, <1>4, <1>5, <1>6, <1>7, <1>8 DEF Next, Begin

(* A start without an error is never reported as more or less than it is   *)
(* (server.go: /health, StartBus): no other order of connecting, failing,  *)
(* stopping and restarting has the effect of finding 2.                    *)
THEOREM StartupHealthIsTrue == Spec => []HealthIsTrue
<1>1. Init => BusBegun
  BY DEF Init, BusBegun, Phases
<1>2. BusBegun => HealthIsTrue
  BY DEF BusBegun, HealthIsTrue, Healthy, Accepting
<1> QED BY <1>1, <1>2, StepKeepsBusBegun, PTL DEF Spec
=============================================================================
