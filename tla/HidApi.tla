------------------------------ MODULE HidApi ------------------------------
(***************************************************************************)
(* The process-wide hidapi handle of transport.rs: built on demand, once,  *)
(* by a thread of its own that never exits, while the callers race for it. *)
(* Using the handle after its thread has exited aborts the process on      *)
(* macOS, which is what the arrangement is for.                            *)
(***************************************************************************)
EXTENDS Integers, FiniteSets

CONSTANTS
  Caller,     \* threads that call api_lock
  NoThread,   \* a lock nobody holds, a OnceLock not set
  MaxErrors   \* bound of the model: initialisations that fail

ASSUME HidAssumption == NoThread \notin Caller /\ MaxErrors \in Nat

VARIABLES
  pc,        \* where each caller is
  initLock,  \* HIDAPI_INIT: its holder
  api,       \* HIDAPI: the caller whose thread built the handle
  apiLock,   \* the mutex around the handle: its holder
  poisoned,  \* a holder of that mutex has panicked
  builder,   \* builder[c]: the thread "catbus99-hid" that c spawned last
  channel,   \* channel[c]: what that thread has sent
  inits,     \* history: threads that have run hid_init with success
  errors     \* history: initialisations that failed

vars == <<pc, initLock, api, apiLock, poisoned, builder, channel, inits, errors>>

Init ==
  /\ pc = [c \in Caller |-> "idle"]
  /\ initLock = NoThread
  /\ api = NoThread
  /\ apiLock = NoThread
  /\ poisoned = FALSE
  /\ builder = [c \in Caller |-> "none"]
  /\ channel = [c \in Caller |-> "empty"]
  /\ inits = {}
  /\ errors = 0

Go(c, from, to) == pc[c] = from /\ pc' = [pc EXCEPT ![c] = to]

---------------------------------------------------------------------------
(* The caller. *)

(* HIDAPI.get().is_none(), outside the lock. *)
Look(c) ==
  /\ Go(c, "idle", IF api = NoThread THEN "init" ELSE "lock")
  /\ UNCHANGED <<initLock, api, apiLock, poisoned, builder, channel, inits, errors>>

(* Mutant: the guard is dropped on the spot, as `let _ =' does. *)
TakeInitDropped(c) ==
  /\ initLock = NoThread
  /\ Go(c, "init", "recheck")
  /\ UNCHANGED <<initLock, api, apiLock, poisoned, builder, channel, inits, errors>>

TakeInit(c) ==
  /\ initLock = NoThread
  /\ Go(c, "init", "recheck")
  /\ initLock' = c
  /\ UNCHANGED <<api, apiLock, poisoned, builder, channel, inits, errors>>

(* Mutant: no second look once the lock is held. *)
SpawnUnchecked(c) ==
  /\ Go(c, "recheck", "wait")
  /\ builder' = [builder EXCEPT ![c] = "building"]
  /\ channel' = [channel EXCEPT ![c] = "empty"]
  /\ UNCHANGED <<initLock, api, apiLock, poisoned, inits, errors>>

(* Still none: spawn the thread that builds it, and wait for its word. *)
Spawn(c) ==
  /\ api = NoThread
  /\ Go(c, "recheck", "wait")
  /\ builder' = [builder EXCEPT ![c] = "building"]
  /\ channel' = [channel EXCEPT ![c] = "empty"]
  /\ UNCHANGED <<initLock, api, apiLock, poisoned, inits, errors>>

SpawnFails(c) ==
  /\ api = NoThread
  /\ errors < MaxErrors
  /\ Go(c, "recheck", "idle")
  /\ initLock' = NoThread
  /\ errors' = errors + 1
  /\ UNCHANGED <<api, apiLock, poisoned, builder, channel, inits>>

(* Somebody else has built it between the two looks. *)
AlreadyBuilt(c) ==
  /\ api # NoThread
  /\ Go(c, "recheck", "lock")
  /\ initLock' = NoThread
  /\ UNCHANGED <<api, apiLock, poisoned, builder, channel, inits, errors>>

(* rx.recv(): success, failure, or a sender that is gone. *)
Receive(c) ==
  /\ channel[c] # "empty"
  /\ Go(c, "wait", IF channel[c] = "ok" THEN "lock" ELSE "idle")
  /\ initLock' = NoThread
  /\ UNCHANGED <<api, apiLock, poisoned, builder, channel, inits, errors>>

(* Mutant: lock().unwrap(), which a poisoned mutex makes panic. *)
TakeApiUnlessPoisoned(c) ==
  /\ api # NoThread
  /\ apiLock = NoThread
  /\ Go(c, "lock", IF poisoned THEN "idle" ELSE "use")
  /\ apiLock' = IF poisoned THEN NoThread ELSE c
  /\ UNCHANGED <<initLock, api, poisoned, builder, channel, inits, errors>>

(* HIDAPI.get().expect(..), then its mutex, poisoned or not. *)
TakeApi(c) ==
  /\ api # NoThread
  /\ apiLock = NoThread
  /\ Go(c, "lock", "use")
  /\ apiLock' = c
  /\ UNCHANGED <<initLock, api, poisoned, builder, channel, inits, errors>>

(* The enumeration is over, or panics; another call may take its place. *)
Release(c) ==
  /\ Go(c, "use", "idle")
  /\ apiLock' = NoThread
  /\ poisoned' \in {poisoned, TRUE}
  /\ UNCHANGED <<initLock, api, builder, channel, inits, errors>>

---------------------------------------------------------------------------
(* The thread that c spawned. *)

(* HidApi::new, HIDAPI.set if it is not set yet. *)
Build(c) ==
  /\ builder[c] = "building"
  /\ builder' = [builder EXCEPT ![c] = "sending"]
  /\ inits' = inits \cup {c}
  /\ api' = IF api = NoThread THEN c ELSE api
  /\ UNCHANGED <<pc, initLock, apiLock, poisoned, channel, errors>>

(* Mutant: the thread has done its work. *)
AnnounceAndExit(c) ==
  /\ builder[c] = "sending"
  /\ builder' = [builder EXCEPT ![c] = "exited"]
  /\ channel' = [channel EXCEPT ![c] = "ok"]
  /\ UNCHANGED <<pc, initLock, api, apiLock, poisoned, inits, errors>>

(* Says so, and parks for good. *)
Announce(c) ==
  /\ builder[c] = "sending"
  /\ builder' = [builder EXCEPT ![c] = "parked"]
  /\ channel' = [channel EXCEPT ![c] = "ok"]
  /\ UNCHANGED <<pc, initLock, api, apiLock, poisoned, inits, errors>>

(* HidApi::new failed or panicked; the thread exits. *)
BuildFails(c) ==
  /\ builder[c] = "building"
  /\ errors < MaxErrors
  /\ builder' = [builder EXCEPT ![c] = "exited"]
  /\ channel' = [channel EXCEPT ![c] = "failed"]
  /\ errors' = errors + 1
  /\ UNCHANGED <<pc, initLock, api, apiLock, poisoned, inits>>

Next ==
  \E c \in Caller :
    \/ Look(c) \/ TakeInit(c) \/ Spawn(c) \/ SpawnFails(c) \/ AlreadyBuilt(c)
    \/ Receive(c) \/ TakeApi(c) \/ Release(c)
    \/ Build(c) \/ Announce(c) \/ BuildFails(c)

(* Threads that can run do run, and HidApi::new and the enumeration return. *)
(* The mutexes of std promise no order, so nothing is assumed of them.      *)
Fairness ==
  \A c \in Caller :
    /\ WF_vars(Spawn(c) \/ SpawnFails(c) \/ AlreadyBuilt(c))
    /\ WF_vars(Receive(c))
    /\ WF_vars(TakeApi(c))
    /\ WF_vars(Release(c))
    /\ WF_vars(Build(c) \/ BuildFails(c))
    /\ WF_vars(Announce(c))

Spec == Init /\ [][Next]_vars

FairSpec == Spec /\ Fairness

---------------------------------------------------------------------------
(* Every variable has its type; each lock is held by the callers that are   *)
(* inside it, and the expect() finds a handle.                              *)
TypeOK ==
  /\ pc \in [Caller -> {"idle", "init", "recheck", "wait", "lock", "use"}]
  /\ initLock \in Caller \cup {NoThread}
  /\ api \in Caller \cup {NoThread}
  /\ apiLock \in Caller \cup {NoThread}
  /\ poisoned \in BOOLEAN
  /\ builder \in [Caller -> {"none", "building", "sending", "parked", "exited"}]
  /\ channel \in [Caller -> {"empty", "ok", "failed"}]
  /\ inits \subseteq Caller
  /\ errors \in Nat
  /\ \A c \in Caller : /\ initLock = c <=> pc[c] \in {"recheck", "wait"}
                       /\ apiLock = c <=> pc[c] = "use"

(* "Only one thread builds it": hidapi is initialised with success at most  *)
(* once in the life of the process, whatever fails before.                  *)
InitOnce == Cardinality(inits) <= 1

(* expect("initialised above") never panics: a caller that goes for the     *)
(* handle finds one, even if its own look was before it was built; and the  *)
(* thread that built it is alive whenever anyone can reach it, as macOS     *)
(* wants.                                                                   *)
HandleThere ==
  /\ \A c \in Caller : pc[c] \in {"lock", "use"} => api # NoThread
  /\ api # NoThread => builder[api] \in {"sending", "parked"}

(* The initialisation lock is always given back, whether the thread         *)
(* succeeds, fails or cannot be spawned.  A caller that panicked while it   *)
(* held the handle does not take it away from the others: when some wait    *)
(* for the mutex, one of them gets it.                                      *)
NobodyLockedOut ==
  /\ initLock # NoThread ~> initLock = NoThread
  /\ (\E c \in Caller : pc[c] = "lock") ~> apiLock # NoThread
============================================================================
