--------------------------- MODULE HidApi_proofs ---------------------------
(***************************************************************************)
(* What HidApi promises, for any set of callers and any number of failed   *)
(* initialisations.                                                        *)
(***************************************************************************)
EXTENDS HidApi, FiniteSetTheorems, TLAPS

(* Where a caller is waiting, its thread and its channel go through four    *)
(* stages together; nobody else's thread is at work then, because the       *)
(* waiting caller holds the initialisation lock.                            *)
Stages ==
  \A c \in Caller :
    /\ builder[c] \in {"building", "sending"} => pc[c] = "wait"
    /\ pc[c] = "wait" =>
         \/ builder[c] = "building" /\ channel[c] = "empty" /\ api = NoThread
         \/ builder[c] = "sending" /\ channel[c] = "empty" /\ api = c
         \/ builder[c] = "parked" /\ channel[c] = "ok" /\ api = c
         \/ builder[c] = "exited" /\ channel[c] = "failed" /\ api = NoThread

(* The only successful initialisation is that of the handle in place. *)
Inits == inits = IF api = NoThread THEN {} ELSE {api}

IInv == TypeOK /\ Stages /\ Inits /\ HandleThere

LEMMA Start == Init => IInv
<1> SUFFICES ASSUME Init PROVE IInv
  OBVIOUS
<1> USE HidAssumption DEF HidAssumption, Init
<1>1. TypeOK
  BY DEF TypeOK
<1>2. Stages
  BY DEF Stages
<1>3. Inits /\ HandleThere
  BY DEF Inits, HandleThere
<1> QED
  BY <1>1, <1>2, <1>3 DEF IInv

(* One step per action.  A spawn finds no other thread at work, because the *)
(* caller that waits for one holds the lock; so Build never meets a handle  *)
(* that is already there.                                                   *)
LEMMA Step == IInv /\ [Next]_vars => IInv'
<1> SUFFICES ASSUME IInv, [Next]_vars PROVE IInv'
  OBVIOUS
<1> USE HidAssumption DEF HidAssumption, IInv, TypeOK, Stages, Inits, HandleThere, Go
<1>1. ASSUME NEW c \in Caller, Look(c) PROVE IInv'
  BY <1>1 DEF Look
<1>2. ASSUME NEW c \in Caller, TakeInit(c) PROVE IInv'
  BY <1>2 DEF TakeInit
<1>3. ASSUME NEW c \in Caller, Spawn(c) PROVE IInv'
  BY <1>3 DEF Spawn
<1>4. ASSUME NEW c \in Caller, SpawnFails(c) PROVE IInv'
  BY <1>4 DEF SpawnFails
<1>5. ASSUME NEW c \in Caller, AlreadyBuilt(c) PROVE IInv'
  BY <1>5 DEF AlreadyBuilt
<1>6. ASSUME NEW c \in Caller, Receive(c) PROVE IInv'
  BY <1>6 DEF Receive
<1>7. ASSUME NEW c \in Caller, TakeApi(c) PROVE IInv'
  BY <1>7 DEF TakeApi
<1>8. ASSUME NEW c \in Caller, Release(c) PROVE IInv'
  BY <1>8, Zenon DEF Release
<1>9. ASSUME NEW c \in Caller, Build(c) PROVE IInv'
  BY <1>9 DEF Build
<1>10. ASSUME NEW c \in Caller, Announce(c) PROVE IInv'
  BY <1>10 DEF Announce
<1>11. ASSUME NEW c \in Caller, BuildFails(c) PROVE IInv'
  BY <1>11 DEF BuildFails
<1>12. CASE UNCHANGED vars
  BY <1>12 DEF vars
<1> QED
  BY <1>1, <1>2, <1>3, <1>4, <1>5, <1>6, <1>7, <1>8, <1>9, <1>10, <1>11, <1>12
     DEF Next

(* Types, and mutual exclusion of both locks. *)
THEOREM TypeCorrect == Spec => []TypeOK
<1>1. IInv => TypeOK
  BY DEF IInv
<1> QED
  BY <1>1, Start, Step, PTL DEF Spec

(* hidapi is initialised with success at most once. *)
THEOREM BuiltOnce == Spec => []InitOnce
<1>1. ASSUME IInv PROVE InitOnce
  <2>1. CASE inits = {}
    BY <2>1, FS_EmptySet DEF InitOnce
  <2>2. CASE inits = {api}
    <3>1. Cardinality({api}) = 1
      BY FS_Singleton, Zenon
    <3> QED
      BY <2>2, <3>1 DEF InitOnce
  <2> QED
    BY <1>1, <2>1, <2>2 DEF IInv, Inits
<1> QED
  BY <1>1, Start, Step, PTL DEF Spec

(* No caller finds the handle missing where it expects it, and the thread   *)
(* behind it never exits.                                                   *)
THEOREM AlwaysThere == Spec => []HandleThere
<1>1. IInv => HandleThere
  BY DEF IInv
<1> QED
  BY <1>1, Start, Step, PTL DEF Spec
============================================================================
