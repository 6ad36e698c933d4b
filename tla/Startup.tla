------------------------------- MODULE Startup -------------------------------
(***************************************************************************)
(* The life of the process: main.run, SigningKey, Server.StartBus and the  *)
(* "bus" check of /health, over starts, stops and lost connections.        *)
(*                                                                         *)
(* What the goroutines do with a command is module CommandBus and Outbox;  *)
(* here a command is queued, decided or announced.  Queued commands carry  *)
(* the key that sealed them, because the goroutine verifies them with the  *)
(* key of the process it runs in.                                          *)
(***************************************************************************)
EXTENDS Naturals

CONSTANTS
  Refs,                \* operation references
  Keys,                \* what NewID() + NewID() can draw
  None,                \* no key, no command
  MaxFaults            \* bound on failed calls, lost connections, stops

VARIABLES
  phase,               \* the next step of run
  nc,                  \* srv.NC: nil, connected or reconnecting
  js,                  \* srv.JS is set
  consuming,           \* the consumer goroutine runs
  flushing,            \* flushOutbox runs
  failed,              \* StartBus returned an error, which is logged
  key,                 \* srv.Key
  keyFile,             \* signing.key: absent (None), "short" or a key
  durable,             \* TAPROOT has the consumer guidance-writes
  queued,              \* the key each command on TAPROOT is sealed with
  decided,             \* the commands with a result
  announced,           \* the results on HUMUS
  faults

process == <<phase, nc, js, consuming, flushing, failed, key>>
world == <<keyFile, durable, queued, decided, announced, faults>>
vars == <<process, world>>

ASSUME StartupAssumption ==
  /\ None \notin Keys /\ "short" \notin Keys /\ None # "short"
  /\ MaxFaults \in Nat

Phases == {"down", "key", "writeKey", "connect", "jetStream", "pullSubscribe",
           "querySubscribe", "flush", "register", "serve"}

(* Both goroutines use srv.JS and srv.NC without looking whether they are  *)
(* set: they never run before them.                                        *)
TypeOK ==
  /\ phase \in Phases
  /\ nc \in {"nil", "connected", "reconnecting"}
  /\ {js, consuming, flushing, failed} \subseteq BOOLEAN
  /\ key \in Keys \cup {None}
  /\ keyFile \in Keys \cup {None, "short"}
  /\ durable \in BOOLEAN
  /\ queued \in [Refs -> Keys \cup {None}]
  /\ decided \subseteq Refs /\ announced \subseteq decided
  /\ faults \in 0 .. MaxFaults
  /\ consuming \/ flushing => js /\ nc # "nil"

NoProcess ==
  /\ phase' = "down" /\ nc' = "nil" /\ js' = FALSE /\ consuming' = FALSE
  /\ flushing' = FALSE /\ failed' = FALSE /\ key' = None

Init ==
  /\ phase = "down" /\ nc = "nil" /\ js = FALSE /\ consuming = FALSE
  /\ flushing = FALSE /\ failed = FALSE /\ key = None
  /\ keyFile = None /\ durable = FALSE
  /\ queued = [ref \in Refs |-> None]
  /\ decided = {} /\ announced = {} /\ faults = 0

Fault == faults < MaxFaults /\ faults' = faults + 1

Step(from, to) == phase = from /\ phase' = to

-----------------------------------------------------------------------------
(***************************************************************************)
(* run, up to the HTTP server.                                             *)
(***************************************************************************)

Start ==
  /\ Step("down", "key")
  /\ UNCHANGED <<nc, js, consuming, flushing, failed, key, world>>

(* Faults a change of the code could introduce stand before what they      *)
(* replace; see README, Mutants.                                           *)
ReadKeyRenewed ==
  /\ keyFile # "short"
  /\ Step("key", "writeKey")
  /\ keyFile' = "short"
  /\ UNCHANGED key

(* The file is read whole; one that does not exist is created and written. *)
ReadKey ==
  \/ /\ keyFile \in Keys
     /\ Step("key", "connect")
     /\ key' = keyFile
     /\ UNCHANGED keyFile
  \/ /\ keyFile = None
     /\ Step("key", "writeKey")
     /\ keyFile' = "short"
     /\ UNCHANGED key

LoadKey ==
  /\ ReadKey
  /\ UNCHANGED <<nc, js, consuming, flushing, failed, durable, queued, decided, announced, faults>>

WriteKey ==
  /\ Step("writeKey", "connect")
  /\ key' \in Keys
  /\ keyFile' = key'
  /\ UNCHANGED <<nc, js, consuming, flushing, failed, durable, queued, decided, announced, faults>>

(* "invalid signing key": the process ends, at this and every other start. *)
RefuseKey ==
  /\ phase = "key" /\ keyFile = "short"
  /\ NoProcess
  /\ UNCHANGED world

Connect ==
  /\ Step("connect", "jetStream")
  /\ nc' = "connected"
  /\ UNCHANGED <<js, consuming, flushing, failed, key, world>>

(* No connection at the start: "starting degraded", and never tried again. *)
ConnectFails ==
  /\ Step("connect", "serve")
  /\ Fault
  /\ UNCHANGED <<nc, js, consuming, flushing, failed, key>>
  /\ UNCHANGED <<keyFile, durable, queued, decided, announced>>

JetStream ==
  /\ Step("jetStream", "pullSubscribe")
  /\ js' = TRUE
  /\ UNCHANGED <<nc, consuming, flushing, failed, key, world>>

PullSubscribe ==
  /\ Step("pullSubscribe", "querySubscribe")
  /\ nc = "connected"
  /\ durable' = TRUE /\ consuming' = TRUE
  /\ UNCHANGED <<nc, js, flushing, failed, key, keyFile, queued, decided, announced, faults>>

(* The consumer may have been created although the answer got lost, or may *)
(* be there from an earlier start.                                         *)
PullSubscribeFails ==
  /\ Step("pullSubscribe", "register")
  /\ durable' \in {durable, TRUE}
  /\ failed' = TRUE
  /\ Fault
  /\ UNCHANGED <<nc, js, consuming, flushing, key, keyFile, queued, decided, announced>>

QuerySubscribe ==
  /\ Step("querySubscribe", "flush")
  /\ UNCHANGED <<nc, js, consuming, flushing, failed, key, world>>

QuerySubscribeFails ==
  /\ Step("querySubscribe", "register")
  /\ failed' = TRUE
  /\ Fault
  /\ UNCHANGED <<nc, js, consuming, flushing, key, keyFile, durable, queued, decided, announced>>

StartFlush ==
  /\ Step("flush", "register")
  /\ flushing' = TRUE
  /\ UNCHANGED <<nc, js, consuming, failed, key, world>>

(* The last flush of the connection fails: the start is degraded, although *)
(* both goroutines run.                                                    *)
FlushFails ==
  /\ Step("flush", "register")
  /\ flushing' = TRUE /\ failed' = TRUE
  /\ Fault
  /\ UNCHANGED <<nc, js, consuming, key, keyFile, durable, queued, decided, announced>>

Register ==
  /\ Step("register", "serve")
  /\ UNCHANGED <<nc, js, consuming, flushing, failed, key, world>>

(* Without a registration run returns, and the process ends.               *)
RegisterFails ==
  /\ phase = "register"
  /\ NoProcess
  /\ Fault
  /\ UNCHANGED <<keyFile, durable, queued, decided, announced>>

-----------------------------------------------------------------------------
(***************************************************************************)
(* The running process.                                                    *)
(***************************************************************************)

Accepting == phase = "serve" /\ js /\ nc = "connected"

Healthy == Accepting /\ durable

Accept(ref) ==
  /\ Accepting
  /\ queued[ref] = None
  /\ queued' = [queued EXCEPT ![ref] = key]
  /\ UNCHANGED <<process, keyFile, durable, decided, announced, faults>>

Decide(ref) ==
  /\ consuming /\ nc = "connected"
  /\ queued[ref] # None /\ ref \notin decided
  /\ decided' = decided \cup {ref}
  /\ UNCHANGED <<process, keyFile, durable, queued, announced, faults>>

Announce(ref) ==
  /\ flushing /\ nc = "connected"
  /\ ref \in decided \ announced
  /\ announced' = announced \cup {ref}
  /\ UNCHANGED <<process, keyFile, durable, queued, decided, faults>>

FetchErrorEndsLoop == consuming' = FALSE

FlushErrorEndsLoop == flushing' = FALSE

(* Fetch fails: after a second it is tried again.                          *)
FetchError == UNCHANGED consuming

(* Publish fails: the rows stay unsent for the next tick.                  *)
FlushError == UNCHANGED flushing

Disconnect ==
  /\ nc = "connected"
  /\ nc' = "reconnecting"
  /\ FetchError /\ FlushError
  /\ Fault
  /\ UNCHANGED <<phase, js, failed, key, keyFile, durable, queued, decided, announced>>

Reconnect ==
  /\ nc = "reconnecting"
  /\ nc' = "connected"
  /\ UNCHANGED <<phase, js, consuming, flushing, failed, key, world>>

(* SIGTERM or a crash, at any step.                                        *)
Stop ==
  /\ phase # "down"
  /\ NoProcess
  /\ Fault
  /\ UNCHANGED <<keyFile, durable, queued, decided, announced>>

(* The operator restarts a service whose log says it started degraded.     *)
Restart ==
  /\ phase = "serve"
  /\ nc = "nil" \/ failed
  /\ NoProcess
  /\ UNCHANGED world

-----------------------------------------------------------------------------

Begin ==
  \/ Start \/ LoadKey \/ WriteKey \/ RefuseKey \/ Connect \/ JetStream
  \/ PullSubscribe \/ QuerySubscribe \/ StartFlush \/ Register

Next ==
  \/ Begin
  \/ ConnectFails \/ PullSubscribeFails \/ QuerySubscribeFails \/ FlushFails \/ RegisterFails
  \/ \E ref \in Refs : Accept(ref) \/ Decide(ref) \/ Announce(ref)
  \/ Disconnect \/ Reconnect
  \/ Stop \/ Restart

Spec == Init /\ [][Next]_vars

(* A container that ended is started again, the client library reconnects  *)
(* for ever (MaxReconnects(-1)), the goroutines loop, and the operator     *)
(* restarts a service that logged a degraded start.                        *)
FairSpec ==
  /\ Spec
  /\ WF_vars(Begin) /\ WF_vars(Reconnect) /\ WF_vars(Restart)
  /\ \A ref \in Refs : WF_vars(Decide(ref)) /\ WF_vars(Announce(ref))

-----------------------------------------------------------------------------

(* A command waiting on the stream can be verified by whichever process    *)
(* reads it: no start, stop or failed start replaces the key it was sealed *)
(* with, and a running process uses the key that is on disk.               *)
SealsSurviveRestarts ==
  /\ \A ref \in Refs : queued[ref] # None => queued[ref] = keyFile
  /\ key # None => key = keyFile

(* A command that was queued is decided, over every failed start, lost     *)
(* connection and stop, provided degraded starts are followed by a restart *)
(* (README: "requires a service restart after the bus is ready").          *)
QueuedIsDecided == \A ref \in Refs : queued[ref] # None ~> ref \in decided

(* ... and its outcome is announced.                                       *)
DecidedIsAnnounced == \A ref \in Refs : ref \in decided ~> ref \in announced

(* After "durable guidance consumer unavailable; starting degraded"        *)
(* (main.go) the service reports degraded, as the README says of a service *)
(* without a bus: /health is not ok while no goroutine consumes what the   *)
(* console queues.                                                         *)
DegradedIsReported == phase = "serve" /\ failed => ~Healthy
=============================================================================
