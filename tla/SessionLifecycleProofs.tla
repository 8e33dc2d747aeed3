---------------------- MODULE SessionLifecycleProofs ----------------------
(***************************************************************************)
(* Proofs about SessionLifecycle, for any sets of sessions, devices and    *)
(* handlers and any bounds: type correctness, then the inductive invariant *)
(* IndInv, and from it the safety properties it contains.                  *)
(***************************************************************************)
EXTENDS SessionLifecycle, FiniteSetTheorems, TLAPS

\* A handler past its lookup has a session.
HandlersTyped == \A h \in Handlers : hpc[h] # "idle" => hsess[h] \in Sessions

Typed == TypeOK /\ HandlersTyped

\* Init establishes the types.
LEMMA TypeInit == Init => Typed
<1> SUFFICES ASSUME Init PROVE Typed
  OBVIOUS
<1> USE ConstantsAssumption DEF Init
<1>1. closed \in BOOLEAN
  OBVIOUS
<1>2. launching \in [Devices -> Nat]
  OBVIOUS
<1> QED
  BY <1>1, <1>2 DEF Typed, TypeOK, HandlersTyped, Statuses, Generations

\* releaseLaunchSlotLocked never takes a device's count below zero.
LEMMA ReleaseType ==
    ASSUME NEW s \in Sessions, launching \in [Devices -> Nat], ReleaseLaunchSlot(s)
    PROVE  launching' \in [Devices -> Nat]
<1>1. CASE owner[s] \in Devices
  <2> DEFINE v == IF launching[owner[s]] <= 1 THEN 0 ELSE launching[owner[s]] - 1
  <2>1. v \in Nat
    BY <1>1
  <2>2. launching' = [launching EXCEPT ![owner[s]] = v]
    BY DEF ReleaseLaunchSlot
  <2> HIDE DEF v
  <2> QED
    BY <2>1, <2>2
<1>2. CASE owner[s] \notin Devices
  BY <1>2 DEF ReleaseLaunchSlot
<1> QED
  BY <1>1, <1>2

\* Every step keeps the types.
LEMMA TypeStep == Typed /\ [Next]_vars => Typed'
<1> SUFFICES ASSUME Typed, [Next]_vars PROVE Typed'
  OBVIOUS
<1> USE ConstantsAssumption
    DEF Typed, TypeOK, HandlersTyped, Statuses, Generations, sessionVars, pumpVars,
        procVars, closeVars, reaperVars, createVars, handlerVars, rowVars, RowIs, RowKept
<1>1. CASE \E s \in Sessions, d \in Devices, old \in Sessions \cup {None} : CreateReserve(s, d, old)
  BY <1>1 DEF CreateReserve
<1>2. CASE \E s \in Sessions : CreateLaunch(s)
  BY <1>2 DEF CreateLaunch
<1>3. ASSUME NEW s \in Sessions, CreateLaunchFails(s) PROVE Typed'
  <2>1. launching' \in [Devices -> Nat]
    BY <1>3, ReleaseType DEF CreateLaunchFails
  <2> QED
    BY <1>3, <2>1 DEF CreateLaunchFails
<1>4. CASE \E s \in Sessions : CreateSave(s)
  BY <1>4 DEF CreateSave
<1>5. ASSUME NEW s \in Sessions, CreateSaveFails(s) PROVE Typed'
  <2>1. launching' \in [Devices -> Nat]
    BY <1>5, ReleaseType DEF CreateSaveFails
  <2> QED
    BY <1>5, <2>1 DEF CreateSaveFails, Abandon, Stopped
<1>6. ASSUME NEW s \in Sessions, CreateRegister(s) PROVE Typed'
  <2>1. launching' \in [Devices -> Nat]
    BY <1>6, ReleaseType DEF CreateRegister
  <2> QED
    BY <1>6, <2>1 DEF CreateRegister
<1>7. ASSUME NEW s \in Sessions, CreateRefused(s) PROVE Typed'
  <2>1. launching' \in [Devices -> Nat]
    BY <1>7, ReleaseType DEF CreateRefused
  <2> QED
    BY <1>7, <2>1 DEF CreateRefused, Abandon, Stopped
<1>8. CASE \E s \in Sessions : ProcCrash(s)
  BY <1>8 DEF ProcCrash
<1>9. CASE \E s \in Sessions : WatchLoad(s)
  BY <1>9 DEF WatchLoad, ExitIntended
<1>10. ASSUME NEW s \in Sessions, WatchReclaim(s) PROVE Typed'
  <2>1. CASE Reclaimable(s)
    <3> USE <1>10, <2>1 DEF WatchReclaim
    <3>1. wpc' \in [Sessions -> {"none", "waiting", "loaded", "done"}]
      OBVIOUS
    <3>2. /\ status' \in [Sessions -> Statuses] /\ record' \in [Sessions -> Statuses]
          /\ unsaved' \subseteq Sessions
      OBVIOUS
    <3>3. pumpCancelled' \in [Sessions -> BOOLEAN]
      OBVIOUS
    <3>4. pushed' \in [Sessions -> BOOLEAN]
      <4>1. pushed' = pushed \/ pushed' = [pushed EXCEPT ![s] = TRUE]
        OBVIOUS
      <4> QED
        BY <4>1, Zenon
    <3>5. registry' \subseteq Sessions
      OBVIOUS
    <3>6. UNCHANGED <<owner, replaces, discAt, stopping, pumpClosed, connGen, client,
                      proc, intentional, exitRec, closeVars, reaperVars, createVars,
                      handlerVars, boots>>
      OBVIOUS
    <3> HIDE <1>10 DEF WatchReclaim
    <3> QED
      BY <3>1, <3>2, <3>3, <3>4, <3>5, <3>6
  <2>2. CASE ~Reclaimable(s)
    BY <1>10, <2>2 DEF WatchReclaim
  <2> QED
    BY <2>1, <2>2
<1>11. CASE \E s \in Sessions : PumpEnd(s)
  BY <1>11 DEF PumpEnd
<1>12. CASE \E s \in Sessions : CloseLookup(s)
  BY <1>12 DEF CloseLookup
<1>13. CASE \E s \in Sessions : CloseCAS(s)
  BY <1>13 DEF CloseCAS
<1>14. CASE \E s \in Sessions : CloseMark(s)
  BY <1>14 DEF CloseMark
<1>15. CASE \E s \in Sessions : CloseSave(s)
  BY <1>15 DEF CloseSave
<1>16. CASE \E s \in Sessions : CloseRemove(s)
  BY <1>16 DEF CloseRemove
<1>17. CASE \E s \in Sessions : CloseStop(s)
  BY <1>17 DEF CloseStop, Stopped
<1>18. CASE \E s \in Sessions : CloseDelete(s)
  BY <1>18 DEF CloseDelete
<1>19. CASE \E s \in Sessions : ReaperMeasure(s)
  BY <1>19 DEF ReaperMeasure
<1>20. ASSUME NEW s \in Sessions, ShutdownStop(s) PROVE Typed'
  <2>1. CASE stopping[s]
    BY <1>20, <2>1 DEF ShutdownStop
  <2>2. CASE ~stopping[s]
    <3>1. stopping' \in [Sessions -> BOOLEAN] /\ pumpCancelled' \in [Sessions -> BOOLEAN]
      <4>1. /\ stopping' = [stopping EXCEPT ![s] = TRUE]
            /\ pumpCancelled' = [pumpCancelled EXCEPT ![s] = TRUE]
        BY <1>20, <2>2 DEF ShutdownStop
      <4>2. stopping \in [Sessions -> BOOLEAN] /\ pumpCancelled \in [Sessions -> BOOLEAN]
        OBVIOUS
      <4> HIDE DEF Typed
      <4> QED
        BY <4>1, <4>2, Zenon
    <3>2. proc' \in [Sessions -> {"none", "running", "crashed", "stopped"}]
      BY <1>20, <2>2 DEF ShutdownStop, Stopped
    <3> QED
      BY <1>20, <2>2, <3>1, <3>2 DEF ShutdownStop
  <2> QED
    BY <2>1, <2>2
<1>21. CASE \E s \in Sessions : ClientOverflow(s)
  BY <1>21 DEF ClientOverflow
<1>22. CASE ReaperMark
  BY <1>22 DEF ReaperMark, StillExpired
<1>23. CASE ShutdownBegin
  BY <1>23 DEF ShutdownBegin
<1>24. CASE \E h \in Handlers, s \in Sessions : HValidate(h, s)
  BY <1>24 DEF HValidate
<1>25. CASE \E h \in Handlers : HClaim(h)
  BY <1>25 DEF HClaim
<1>26. CASE \E h \in Handlers : HRefused(h)
  BY <1>26 DEF HRefused, Idle
<1>27. CASE \E h \in Handlers : HSave(h)
  BY <1>27 DEF HSave
<1>28. CASE \E h \in Handlers : HSaveFails(h)
  BY <1>28 DEF HSaveFails, Idle
<1>29. CASE \E h \in Handlers : HBind(h)
  BY <1>29 DEF HBind, Current
<1>30. CASE \E h \in Handlers : HLeave(h)
  BY <1>30 DEF HLeave
<1>31. CASE \E h \in Handlers : HDetachLookup(h)
  BY <1>31 DEF HDetachLookup
<1>32. ASSUME NEW h \in Handlers, HDetachMark(h) PROVE Typed'
  <2>1. CASE Current(h)
    BY <1>32, <2>1, SMTT(20) DEF HDetachMark
  <2>2. CASE ~Current(h)
    BY <1>32, <2>2 DEF HDetachMark, Idle
  <2> QED
    BY <2>1, <2>2
<1>33. CASE \E h \in Handlers : HDetachSave(h)
  BY <1>33 DEF HDetachSave, StillRegistered, Idle
<1>34. CASE DaemonRestart
  <2>1. closed' \in BOOLEAN
    BY <1>34 DEF DaemonRestart
  <2>2. launching' \in [Devices -> Nat]
    BY <1>34 DEF DaemonRestart
  <2>3. record' \in [Sessions -> Statuses]
    BY <1>34 DEF DaemonRestart, Reconciled
  <2> QED
    BY <1>34, <2>1, <2>2, <2>3 DEF DaemonRestart
<1>35. CASE UNCHANGED vars
  BY <1>35 DEF vars
<1> HIDE DEF Typed
<1> QED
  BY <1>1, <1>2, <1>3, <1>4, <1>5, <1>6, <1>7, <1>8, <1>9, <1>10, <1>11, <1>12,
     <1>13, <1>14, <1>15, <1>16, <1>17, <1>18, <1>19, <1>20, <1>21, <1>22, <1>23, <1>24,
     <1>25, <1>26, <1>27, <1>28, <1>29, <1>30, <1>31, <1>32, <1>33, <1>34, <1>35
  DEF Next, CreateStep, WatchStep, TeardownStep, AttachStep, DetachStep

\* Every reachable state of the session registry is well typed.
THEOREM TypeCorrect == Spec => []TypeOK
<1>1. Init => Typed
  BY TypeInit
<1>2. Typed /\ [Next]_vars => Typed'
  BY TypeStep
<1>3. Typed => TypeOK
  BY DEF Typed
<1> QED
  BY <1>1, <1>2, <1>3, PTL DEF Spec
-----------------------------------------------------------------------------
(* The inductive invariant, in three parts: who owns a session and its     *)
(* process; what is said about the process; and the generation fence.      *)

OwnershipInv ==
    /\ UnregisteredUntouched /\ ReplacedWasRegistered /\ ProcessMatchesCreate
    /\ StoppingIsOwned /\ ClosingIsClosed /\ ReaperHoldsLock /\ ShutdownCloses

ProcessInv ==
    WatcherKnows /\ NoLeakedProcess /\ CrashReportsAreTrue /\ ExitLeavesNoSession

FenceInv ==
    (\A h \in Handlers : HandlerSound(h)) /\ GenerationsAreUnique /\ FenceHolds

\* The initial state satisfies the inductive invariant.
LEMMA IndInit == Init => IndInv
BY ConstantsAssumption
DEF Init, IndInv, UnregisteredUntouched, ReplacedWasRegistered, ProcessMatchesCreate,
    StoppingIsOwned, ClosingIsClosed, ReaperHoldsLock, ShutdownCloses, WatcherKnows, HandlerSound,
    GenerationsAreUnique, NoLeakedProcess, CrashReportsAreTrue, ExitLeavesNoSession,
    FenceHolds, Holds

\* Every step keeps the ownership part: create alone until registration, then the
\* CAS winner.
LEMMA OwnershipStep == Typed /\ IndInv /\ [Next]_vars => OwnershipInv'
<1> SUFFICES ASSUME Typed, IndInv, [Next]_vars PROVE OwnershipInv'
  OBVIOUS
<1> USE ConstantsAssumption
    DEF OwnershipInv, Typed, TypeOK, HandlersTyped, IndInv, sessionVars, pumpVars,
        procVars, closeVars, reaperVars, createVars, handlerVars, rowVars, RowIs, RowKept,
        UnregisteredUntouched, ReplacedWasRegistered, ProcessMatchesCreate,
        StoppingIsOwned, ClosingIsClosed, ReaperHoldsLock, ShutdownCloses,
        RegistryUnlocked, TearingDown, HandlerSound
<1>1. CASE \E s \in Sessions, d \in Devices, old \in Sessions \cup {None} : CreateReserve(s, d, old)
  BY <1>1 DEF CreateReserve
<1>2. CASE \E s \in Sessions : CreateLaunch(s)
  BY <1>2 DEF CreateLaunch
<1>3. CASE \E s \in Sessions : CreateLaunchFails(s)
  BY <1>3 DEF CreateLaunchFails, ReleaseLaunchSlot
<1>4. CASE \E s \in Sessions : CreateSave(s)
  BY <1>4 DEF CreateSave
<1>5. CASE \E s \in Sessions : CreateSaveFails(s)
  BY <1>5 DEF CreateSaveFails, ReleaseLaunchSlot, Abandon, Stopped
<1>6. CASE \E s \in Sessions : CreateRegister(s)
  BY <1>6 DEF CreateRegister, ReleaseLaunchSlot
<1>7. CASE \E s \in Sessions : CreateRefused(s)
  BY <1>7 DEF CreateRefused, ReleaseLaunchSlot, Abandon, Stopped
<1>8. CASE \E s \in Sessions : ProcCrash(s)
  BY <1>8 DEF ProcCrash
<1>9. CASE \E s \in Sessions : WatchLoad(s)
  BY <1>9 DEF WatchLoad, ExitIntended
<1>10. CASE \E s \in Sessions : WatchReclaim(s)
  BY <1>10 DEF WatchReclaim, Reclaimable
<1>11. CASE \E s \in Sessions : PumpEnd(s)
  BY <1>11 DEF PumpEnd
<1>12. CASE \E s \in Sessions : CloseLookup(s)
  BY <1>12 DEF CloseLookup
<1>13. CASE \E s \in Sessions : CloseCAS(s)
  BY <1>13 DEF CloseCAS
<1>14. CASE \E s \in Sessions : CloseMark(s)
  BY <1>14 DEF CloseMark
<1>15. CASE \E s \in Sessions : CloseSave(s)
  BY <1>15 DEF CloseSave
<1>16. CASE \E s \in Sessions : CloseRemove(s)
  BY <1>16 DEF CloseRemove
<1>17. CASE \E s \in Sessions : CloseStop(s)
  BY <1>17 DEF CloseStop, Stopped
<1>18. CASE \E s \in Sessions : CloseDelete(s)
  BY <1>18 DEF CloseDelete
<1>19. CASE \E s \in Sessions : ReaperMeasure(s)
  BY <1>19 DEF ReaperMeasure
<1>20. CASE \E s \in Sessions : ShutdownStop(s)
  BY <1>20 DEF ShutdownStop, Stopped
<1>21. CASE \E s \in Sessions : ClientOverflow(s)
  BY <1>21 DEF ClientOverflow
<1>22. CASE ReaperMark
  BY <1>22 DEF ReaperMark, StillExpired
<1>23. CASE ShutdownBegin
  BY <1>23 DEF ShutdownBegin
<1>24. CASE \E h \in Handlers, s \in Sessions : HValidate(h, s)
  BY <1>24 DEF HValidate
<1>25. CASE \E h \in Handlers : HClaim(h)
  BY <1>25 DEF HClaim
<1>26. CASE \E h \in Handlers : HRefused(h)
  BY <1>26 DEF HRefused, Idle
<1>27. CASE \E h \in Handlers : HSave(h)
  BY <1>27 DEF HSave
<1>28. CASE \E h \in Handlers : HSaveFails(h)
  BY <1>28 DEF HSaveFails, Idle
<1>29. CASE \E h \in Handlers : HBind(h)
  BY <1>29 DEF HBind, Current
<1>30. CASE \E h \in Handlers : HLeave(h)
  BY <1>30 DEF HLeave
<1>31. CASE \E h \in Handlers : HDetachLookup(h)
  BY <1>31 DEF HDetachLookup
<1>32. CASE \E h \in Handlers : HDetachMark(h)
  BY <1>32 DEF HDetachMark, Current, Idle
<1>33. CASE \E h \in Handlers : HDetachSave(h)
  BY <1>33 DEF HDetachSave, StillRegistered, Idle
<1>34. CASE DaemonRestart
  BY <1>34 DEF DaemonRestart, Reconciled
<1>35. CASE UNCHANGED vars
  BY <1>35 DEF vars
<1> HIDE DEF OwnershipInv
<1> QED
  BY <1>1, <1>2, <1>3, <1>4, <1>5, <1>6, <1>7, <1>8, <1>9, <1>10, <1>11, <1>12,
     <1>13, <1>14, <1>15, <1>16, <1>17, <1>18, <1>19, <1>20, <1>21, <1>22, <1>23,
     <1>24, <1>25, <1>26, <1>27, <1>28, <1>29, <1>30, <1>31, <1>32, <1>33, <1>34,
     <1>35
  DEF Next, CreateStep, WatchStep, TeardownStep, AttachStep, DetachStep

\* Every step keeps the part about the process and its reports.
LEMMA ProcessStep == Typed /\ IndInv /\ [Next]_vars => ProcessInv'
<1> SUFFICES ASSUME Typed, IndInv, [Next]_vars PROVE ProcessInv'
  OBVIOUS
<1> USE ConstantsAssumption
    DEF ProcessInv, Typed, TypeOK, HandlersTyped, IndInv, sessionVars, pumpVars,
        procVars, closeVars, reaperVars, createVars, handlerVars, rowVars, RowIs, RowKept,
        UnregisteredUntouched, ProcessMatchesCreate, StoppingIsOwned,
        ClosingIsClosed, ShutdownCloses, WatcherKnows, NoLeakedProcess,
        CrashReportsAreTrue, ExitLeavesNoSession, Creating, TearingDown,
        HandlerSound
<1>1. CASE \E s \in Sessions, d \in Devices, old \in Sessions \cup {None} : CreateReserve(s, d, old)
  BY <1>1 DEF CreateReserve
<1>2. CASE \E s \in Sessions : CreateLaunch(s)
  BY <1>2 DEF CreateLaunch
<1>3. CASE \E s \in Sessions : CreateLaunchFails(s)
  BY <1>3 DEF CreateLaunchFails, ReleaseLaunchSlot
<1>4. CASE \E s \in Sessions : CreateSave(s)
  BY <1>4 DEF CreateSave
<1>5. CASE \E s \in Sessions : CreateSaveFails(s)
  BY <1>5 DEF CreateSaveFails, ReleaseLaunchSlot, Abandon, Stopped
<1>6. CASE \E s \in Sessions : CreateRegister(s)
  BY <1>6 DEF CreateRegister, ReleaseLaunchSlot
<1>7. CASE \E s \in Sessions : CreateRefused(s)
  BY <1>7 DEF CreateRefused, ReleaseLaunchSlot, Abandon, Stopped
<1>8. CASE \E s \in Sessions : ProcCrash(s)
  BY <1>8 DEF ProcCrash
<1>9. CASE \E s \in Sessions : WatchLoad(s)
  BY <1>9 DEF WatchLoad, ExitIntended
<1>10. CASE \E s \in Sessions : WatchReclaim(s)
  BY <1>10 DEF WatchReclaim, Reclaimable
<1>11. CASE \E s \in Sessions : PumpEnd(s)
  BY <1>11 DEF PumpEnd
<1>12. CASE \E s \in Sessions : CloseLookup(s)
  BY <1>12 DEF CloseLookup
<1>13. CASE \E s \in Sessions : CloseCAS(s)
  BY <1>13 DEF CloseCAS
<1>14. CASE \E s \in Sessions : CloseMark(s)
  BY <1>14 DEF CloseMark
<1>15. CASE \E s \in Sessions : CloseSave(s)
  BY <1>15 DEF CloseSave
<1>16. CASE \E s \in Sessions : CloseRemove(s)
  BY <1>16 DEF CloseRemove
<1>17. CASE \E s \in Sessions : CloseStop(s)
  BY <1>17 DEF CloseStop, Stopped
<1>18. CASE \E s \in Sessions : CloseDelete(s)
  BY <1>18 DEF CloseDelete
<1>19. CASE \E s \in Sessions : ReaperMeasure(s)
  BY <1>19 DEF ReaperMeasure
<1>20. CASE \E s \in Sessions : ShutdownStop(s)
  BY <1>20 DEF ShutdownStop, Stopped
<1>21. CASE \E s \in Sessions : ClientOverflow(s)
  BY <1>21 DEF ClientOverflow
<1>22. CASE ReaperMark
  BY <1>22 DEF ReaperMark, StillExpired
<1>23. CASE ShutdownBegin
  <2>1. shutReq' = registry /\ registry' = {} /\ shutReq = {}
    BY <1>23 DEF ShutdownBegin
  <2>2. UNCHANGED <<proc, cpc, tpc, wpc, intentional, exitRec, pushed>>
    BY <1>23 DEF ShutdownBegin
  <2> QED
    BY <2>1, <2>2
<1>24. CASE \E h \in Handlers, s \in Sessions : HValidate(h, s)
  BY <1>24 DEF HValidate
<1>25. CASE \E h \in Handlers : HClaim(h)
  BY <1>25 DEF HClaim
<1>26. CASE \E h \in Handlers : HRefused(h)
  BY <1>26 DEF HRefused, Idle
<1>27. CASE \E h \in Handlers : HSave(h)
  BY <1>27 DEF HSave
<1>28. CASE \E h \in Handlers : HSaveFails(h)
  BY <1>28 DEF HSaveFails, Idle
<1>29. CASE \E h \in Handlers : HBind(h)
  BY <1>29 DEF HBind, Current
<1>30. CASE \E h \in Handlers : HLeave(h)
  BY <1>30 DEF HLeave
<1>31. CASE \E h \in Handlers : HDetachLookup(h)
  BY <1>31 DEF HDetachLookup
<1>32. CASE \E h \in Handlers : HDetachMark(h)
  BY <1>32 DEF HDetachMark, Current, Idle
<1>33. CASE \E h \in Handlers : HDetachSave(h)
  BY <1>33 DEF HDetachSave, StillRegistered, Idle
<1>34. CASE DaemonRestart
  BY <1>34 DEF DaemonRestart, Reconciled
<1>35. CASE UNCHANGED vars
  BY <1>35 DEF vars
<1> HIDE DEF ProcessInv
<1> QED
  BY <1>1, <1>2, <1>3, <1>4, <1>5, <1>6, <1>7, <1>8, <1>9, <1>10, <1>11, <1>12,
     <1>13, <1>14, <1>15, <1>16, <1>17, <1>18, <1>19, <1>20, <1>21, <1>22, <1>23,
     <1>24, <1>25, <1>26, <1>27, <1>28, <1>29, <1>30, <1>31, <1>32, <1>33, <1>34,
     <1>35
  DEF Next, CreateStep, WatchStep, TeardownStep, AttachStep, DetachStep

\* Every step keeps the generation fence.
LEMMA FenceStep == Typed /\ IndInv /\ [Next]_vars => FenceInv'
<1> SUFFICES ASSUME Typed, IndInv, [Next]_vars PROVE FenceInv'
  OBVIOUS
<1> USE ConstantsAssumption
    DEF FenceInv, Typed, TypeOK, HandlersTyped, IndInv, sessionVars, pumpVars,
        procVars, closeVars, reaperVars, createVars, handlerVars, rowVars, RowIs, RowKept,
        UnregisteredUntouched, HandlerSound, GenerationsAreUnique, FenceHolds,
        Holds, Generations
<1>1. CASE \E s \in Sessions, d \in Devices, old \in Sessions \cup {None} : CreateReserve(s, d, old)
  BY <1>1 DEF CreateReserve
<1>2. CASE \E s \in Sessions : CreateLaunch(s)
  BY <1>2 DEF CreateLaunch
<1>3. CASE \E s \in Sessions : CreateLaunchFails(s)
  BY <1>3 DEF CreateLaunchFails, ReleaseLaunchSlot
<1>4. CASE \E s \in Sessions : CreateSave(s)
  BY <1>4 DEF CreateSave
<1>5. CASE \E s \in Sessions : CreateSaveFails(s)
  BY <1>5 DEF CreateSaveFails, ReleaseLaunchSlot, Abandon, Stopped
<1>6. CASE \E s \in Sessions : CreateRegister(s)
  BY <1>6 DEF CreateRegister, ReleaseLaunchSlot
<1>7. CASE \E s \in Sessions : CreateRefused(s)
  BY <1>7 DEF CreateRefused, ReleaseLaunchSlot, Abandon, Stopped
<1>8. CASE \E s \in Sessions : ProcCrash(s)
  BY <1>8 DEF ProcCrash
<1>9. CASE \E s \in Sessions : WatchLoad(s)
  BY <1>9 DEF WatchLoad, ExitIntended
<1>10. CASE \E s \in Sessions : WatchReclaim(s)
  BY <1>10 DEF WatchReclaim, Reclaimable
<1>11. CASE \E s \in Sessions : PumpEnd(s)
  BY <1>11 DEF PumpEnd
<1>12. CASE \E s \in Sessions : CloseLookup(s)
  BY <1>12 DEF CloseLookup
<1>13. CASE \E s \in Sessions : CloseCAS(s)
  BY <1>13 DEF CloseCAS
<1>14. CASE \E s \in Sessions : CloseMark(s)
  BY <1>14 DEF CloseMark
<1>15. CASE \E s \in Sessions : CloseSave(s)
  BY <1>15 DEF CloseSave
<1>16. CASE \E s \in Sessions : CloseRemove(s)
  BY <1>16 DEF CloseRemove
<1>17. CASE \E s \in Sessions : CloseStop(s)
  BY <1>17 DEF CloseStop, Stopped
<1>18. CASE \E s \in Sessions : CloseDelete(s)
  BY <1>18 DEF CloseDelete
<1>19. CASE \E s \in Sessions : ReaperMeasure(s)
  BY <1>19 DEF ReaperMeasure
<1>20. CASE \E s \in Sessions : ShutdownStop(s)
  BY <1>20 DEF ShutdownStop, Stopped
<1>21. CASE \E s \in Sessions : ClientOverflow(s)
  BY <1>21 DEF ClientOverflow
<1>22. CASE ReaperMark
  BY <1>22 DEF ReaperMark, StillExpired
<1>23. CASE ShutdownBegin
  BY <1>23 DEF ShutdownBegin
<1>24. CASE \E h \in Handlers, s \in Sessions : HValidate(h, s)
  BY <1>24 DEF HValidate
<1>25. CASE \E h \in Handlers : HClaim(h)
  BY <1>25 DEF HClaim
<1>26. CASE \E h \in Handlers : HRefused(h)
  BY <1>26 DEF HRefused, Idle
<1>27. CASE \E h \in Handlers : HSave(h)
  BY <1>27 DEF HSave
<1>28. CASE \E h \in Handlers : HSaveFails(h)
  BY <1>28 DEF HSaveFails, Idle
<1>29. CASE \E h \in Handlers : HBind(h)
  BY <1>29, SMTT(20) DEF HBind, Current
<1>30. CASE \E h \in Handlers : HLeave(h)
  BY <1>30 DEF HLeave
<1>31. CASE \E h \in Handlers : HDetachLookup(h)
  BY <1>31 DEF HDetachLookup
<1>32. ASSUME NEW h \in Handlers, HDetachMark(h) PROVE FenceInv'
  <2>1. CASE Current(h)
    BY <1>32, <2>1, SMTT(20) DEF HDetachMark, Current
  <2>2. CASE ~Current(h)
    BY <1>32, <2>2 DEF HDetachMark, Current, Idle
  <2> QED
    BY <2>1, <2>2
<1>33. CASE \E h \in Handlers : HDetachSave(h)
  BY <1>33 DEF HDetachSave, StillRegistered, Idle
<1>34. CASE DaemonRestart
  BY <1>34 DEF DaemonRestart, Reconciled
<1>35. CASE UNCHANGED vars
  BY <1>35 DEF vars
<1> HIDE DEF FenceInv
<1> QED
  BY <1>1, <1>2, <1>3, <1>4, <1>5, <1>6, <1>7, <1>8, <1>9, <1>10, <1>11, <1>12,
     <1>13, <1>14, <1>15, <1>16, <1>17, <1>18, <1>19, <1>20, <1>21, <1>22, <1>23,
     <1>24, <1>25, <1>26, <1>27, <1>28, <1>29, <1>30, <1>31, <1>32, <1>33, <1>34,
     <1>35
  DEF Next, CreateStep, WatchStep, TeardownStep, AttachStep, DetachStep

\* Every step keeps the types and the inductive invariant.
LEMMA InvStep == Typed /\ IndInv /\ [Next]_vars => Typed' /\ IndInv'
<1>1. OwnershipInv' /\ ProcessInv' /\ FenceInv' => IndInv'
  BY DEF OwnershipInv, ProcessInv, FenceInv, IndInv
<1> QED
  BY <1>1, TypeStep, OwnershipStep, ProcessStep, FenceStep

\* The inductive invariant holds in every reachable state.
THEOREM Inductive == Spec => []IndInv
<1>1. Init => Typed /\ IndInv
  BY TypeInit, IndInit
<1>2. Typed /\ IndInv /\ [Next]_vars => Typed' /\ IndInv'
  BY InvStep
<1> QED
  BY <1>1, <1>2, PTL DEF Spec

\* No agent process is forgotten: while it runs, a create, the registry, a
\* teardown or Shutdown accounts for it.
THEOREM ProcessesAccountedFor == Spec => []NoLeakedProcess
<1>1. IndInv => NoLeakedProcess
  BY DEF IndInv
<1> QED
  BY <1>1, Inductive, PTL

\* A crash is recorded and pushed only for a process that died on its own.
THEOREM CrashReportsSound == Spec => []CrashReportsAreTrue
<1>1. IndInv => CrashReportsAreTrue
  BY DEF IndInv
<1> QED
  BY <1>1, Inductive, PTL

\* Once the exit watcher is done, a session still registered is being closed.
THEOREM NoSessionOutlivesItsAgent == Spec => []ExitLeavesNoSession
<1>1. IndInv => ExitLeavesNoSession
  BY DEF IndInv
<1> QED
  BY <1>1, Inductive, PTL

\* A superseded connection neither stays bound nor disconnects its successor.
THEOREM FenceSound == Spec => []FenceHolds
<1>1. IndInv => FenceHolds
  BY DEF IndInv
<1> QED
  BY <1>1, Inductive, PTL
-----------------------------------------------------------------------------
(* The rows.                                                               *)

\* Every step keeps what the rows rest on.
LEMMA RowStep == Typed /\ IndInv /\ RowInv /\ [Next]_vars => RowInv'
<1> SUFFICES ASSUME Typed, IndInv, RowInv, [Next]_vars PROVE RowInv'
  OBVIOUS
<1> USE ConstantsAssumption
    DEF RowInv, OpenRowsReconciled, Live, Typed, TypeOK, HandlersTyped, IndInv,
        UnregisteredUntouched, HandlerSound, sessionVars, pumpVars, procVars, closeVars,
        reaperVars, createVars, handlerVars, rowVars, RowIs, RowKept
<1>1. CASE UNCHANGED <<cpc, record, unsaved, registry, closed, tpc>>
  BY <1>1
<1>2. ASSUME NEW s \in Sessions,
             ProcCrash(s) \/ WatchLoad(s) \/ PumpEnd(s) \/ CloseLookup(s)
               \/ ReaperMeasure(s) \/ ShutdownStop(s) \/ ClientOverflow(s)
      PROVE  RowInv'
  BY <1>1, <1>2
  DEF ProcCrash, WatchLoad, PumpEnd, CloseLookup, ReaperMeasure, ShutdownStop, ClientOverflow
<1>3. CASE ReaperMark
  BY <1>1, <1>3 DEF ReaperMark
<1>4. ASSUME NEW h \in Handlers,
             (\E s \in Sessions : HValidate(h, s)) \/ HClaim(h) \/ HRefused(h)
               \/ HBind(h) \/ HLeave(h) \/ HDetachLookup(h) \/ HDetachMark(h)
      PROVE  RowInv'
  BY <1>1, <1>4 DEF HValidate, HClaim, HRefused, HBind, HLeave, HDetachLookup, HDetachMark
<1>5. CASE \E s \in Sessions, d \in Devices, old \in Sessions \cup {None} : CreateReserve(s, d, old)
  BY <1>5 DEF CreateReserve
<1>6. ASSUME NEW s \in Sessions, CreateLaunch(s) \/ CreateLaunchFails(s) PROVE RowInv'
  BY <1>6 DEF CreateLaunch, CreateLaunchFails
<1>7. ASSUME NEW s \in Sessions, CreateSave(s) PROVE RowInv'
  BY <1>7 DEF CreateSave
<1>8. ASSUME NEW s \in Sessions, CreateSaveFails(s) PROVE RowInv'
  BY <1>8 DEF CreateSaveFails
<1>9. ASSUME NEW s \in Sessions, CreateRegister(s) PROVE RowInv'
  BY <1>9 DEF CreateRegister
<1>10. ASSUME NEW s \in Sessions, CreateRefused(s) PROVE RowInv'
  BY <1>10 DEF CreateRefused
<1>11. ASSUME NEW s \in Sessions, WatchReclaim(s) PROVE RowInv'
  <2>1. CASE Reclaimable(s)
    BY <1>11, <2>1 DEF WatchReclaim, Reclaimable
  <2>2. CASE ~Reclaimable(s)
    BY <1>1, <1>11, <2>2 DEF WatchReclaim
  <2> QED
    BY <2>1, <2>2
<1>12. ASSUME NEW s \in Sessions, CloseCAS(s) \/ CloseMark(s) PROVE RowInv'
  BY <1>12 DEF CloseCAS, CloseMark, StoppingIsOwned
<1>13. ASSUME NEW s \in Sessions, CloseSave(s) PROVE RowInv'
  BY <1>13 DEF CloseSave
<1>14. ASSUME NEW s \in Sessions, CloseRemove(s) \/ CloseStop(s) PROVE RowInv'
  BY <1>14 DEF CloseRemove, CloseStop
<1>15. ASSUME NEW s \in Sessions, CloseDelete(s) PROVE RowInv'
  BY <1>15 DEF CloseDelete
<1>16. CASE ShutdownBegin
  BY <1>16 DEF ShutdownBegin
<1>17. ASSUME NEW h \in Handlers, HSave(h) \/ HSaveFails(h) PROVE RowInv'
  BY <1>17 DEF HSave, HSaveFails
<1>18. ASSUME NEW h \in Handlers, HDetachSave(h) PROVE RowInv'
  BY <1>18 DEF HDetachSave, StillRegistered
<1>19. CASE DaemonRestart
  BY <1>19 DEF DaemonRestart, Reconciled
<1>20. CASE UNCHANGED vars
  BY <1>1, <1>20 DEF vars
<1> HIDE DEF RowInv
<1> QED
  BY <1>2, <1>3, <1>4, <1>5, <1>6, <1>7, <1>8, <1>9, <1>10, <1>11, <1>12, <1>13, <1>14,
     <1>15, <1>16, <1>17, <1>18, <1>19, <1>20
  DEF Next, CreateStep, WatchStep, TeardownStep, AttachStep, DetachStep

\* A session whose writes the store took leaves no "disconnected" row when it is
\* over, and no row survives a restart of the daemon as reconnectable, whatever
\* attaches, detaches, closes, crashes and reaps interleave.
THEOREM RowsTellTheTruth == Spec => []RowsAreTrue
<1>1. Init => Typed /\ IndInv /\ RowInv
  <2>1. Init => RowInv
    BY DEF Init, RowInv, OpenRowsReconciled
  <2> QED
    BY <2>1, TypeInit, IndInit
<1>2. Typed /\ IndInv /\ [Next]_vars => Typed' /\ IndInv'
  BY InvStep
<1>3. Typed /\ IndInv /\ RowInv /\ [Next]_vars => RowInv'
  BY RowStep
<1>4. RowInv => RowsAreTrue
  BY DEF RowInv, RowsAreTrue, NoStaleDisconnectedRow, Settled
<1> QED
  BY <1>1, <1>2, <1>3, <1>4, PTL DEF Spec
-----------------------------------------------------------------------------
(* The handler of an active session.                                       *)

\* Every step keeps ActiveHasHandler.
LEMMA ActiveStep == Typed /\ IndInv /\ ActiveHasHandler /\ [Next]_vars => ActiveHasHandler'
<1> SUFFICES ASSUME Typed, IndInv, ActiveHasHandler, [Next]_vars PROVE ActiveHasHandler'
  OBVIOUS
<1> USE ConstantsAssumption
    DEF ActiveHasHandler, Holds, Typed, TypeOK, HandlersTyped, IndInv, HandlerSound,
        sessionVars, pumpVars, procVars, closeVars, reaperVars, createVars, handlerVars,
        rowVars, RowIs, RowKept
\* A step that moves no handler and makes no session active.
<1>1. CASE /\ registry' \subseteq registry /\ unsaved \subseteq unsaved'
           /\ UNCHANGED <<hpc, hsess, hgen, connGen>>
           /\ \A s \in Sessions : status'[s] = "active" => status[s] = "active"
  BY <1>1
<1>2. ASSUME NEW s \in Sessions,
             CreateLaunch(s) \/ CreateLaunchFails(s) \/ CreateSave(s) \/ CreateSaveFails(s)
               \/ CreateRefused(s) \/ ProcCrash(s) \/ WatchLoad(s) \/ PumpEnd(s)
               \/ CloseLookup(s) \/ CloseCAS(s) \/ ReaperMeasure(s) \/ ShutdownStop(s)
               \/ ClientOverflow(s)
      PROVE  ActiveHasHandler'
  BY <1>1, <1>2
  DEF CreateLaunch, CreateLaunchFails, CreateSave, CreateSaveFails, CreateRefused, ProcCrash,
      WatchLoad, PumpEnd, CloseLookup, CloseCAS, ReaperMeasure, ShutdownStop, ClientOverflow
<1>3. ASSUME NEW s \in Sessions, TeardownStep(s) PROVE ActiveHasHandler'
  BY <1>1, <1>3 DEF TeardownStep, CloseMark, CloseSave, CloseRemove, CloseStop, CloseDelete
<1>4. ASSUME NEW s \in Sessions, WatchReclaim(s) PROVE ActiveHasHandler'
  BY <1>1, <1>4 DEF WatchReclaim
<1>5. CASE \E s \in Sessions, d \in Devices, old \in Sessions \cup {None} : CreateReserve(s, d, old)
  BY <1>1, <1>5 DEF CreateReserve
<1>6. ASSUME NEW s \in Sessions, CreateRegister(s) PROVE ActiveHasHandler'
  BY <1>6 DEF CreateRegister
<1>7. CASE ReaperMark
  BY <1>1, <1>7 DEF ReaperMark
<1>8. CASE ShutdownBegin
  BY <1>8 DEF ShutdownBegin
<1>9. ASSUME NEW h \in Handlers, NEW s \in Sessions, HValidate(h, s) PROVE ActiveHasHandler'
  BY <1>9 DEF HValidate
<1>10. ASSUME NEW h \in Handlers, HClaim(h) PROVE ActiveHasHandler'
  <2>1. Holds(h, hsess[h])'
    BY <1>10 DEF HClaim, Generations
  <2>2. ASSUME NEW t \in registry \ unsaved, t # hsess[h], NEW k \in Handlers, Holds(k, t)
        PROVE  Holds(k, t)'
    BY <1>10, <2>2 DEF HClaim
  <2> QED
    BY <1>10, <2>1, <2>2 DEF HClaim
<1>11. ASSUME NEW h \in Handlers, HRefused(h) PROVE ActiveHasHandler'
  BY <1>11 DEF HRefused, Idle
<1>12. ASSUME NEW h \in Handlers, HSave(h) \/ HLeave(h) PROVE ActiveHasHandler'
  BY <1>12 DEF HSave, HLeave
<1>13. ASSUME NEW h \in Handlers, HSaveFails(h) PROVE ActiveHasHandler'
  BY <1>13 DEF HSaveFails, Idle
<1>14. ASSUME NEW h \in Handlers, HBind(h) PROVE ActiveHasHandler'
  BY <1>14 DEF HBind
<1>15. ASSUME NEW h \in Handlers, HDetachLookup(h) PROVE ActiveHasHandler'
  BY <1>15 DEF HDetachLookup
<1>16. ASSUME NEW h \in Handlers, HDetachMark(h) PROVE ActiveHasHandler'
  BY <1>16 DEF HDetachMark, Current, Idle
<1>17. ASSUME NEW h \in Handlers, HDetachSave(h) PROVE ActiveHasHandler'
  BY <1>17 DEF HDetachSave, Idle
<1>18. CASE DaemonRestart
  BY <1>18 DEF DaemonRestart
<1>19. CASE UNCHANGED vars
  BY <1>1, <1>19 DEF vars
<1> HIDE DEF ActiveHasHandler
<1> QED
  BY <1>2, <1>3, <1>4, <1>5, <1>6, <1>7, <1>8, <1>9, <1>10, <1>11, <1>12, <1>13, <1>14,
     <1>15, <1>16, <1>17, <1>18, <1>19
  DEF Next, CreateStep, WatchStep, AttachStep, DetachStep

\* A registered active session has a live handler that will detach it, unless a
\* write of its row failed.
THEOREM ActiveIsServed == Spec => []ActiveHasHandler
<1>1. Init => Typed /\ IndInv /\ ActiveHasHandler
  <2>1. Init => ActiveHasHandler
    BY DEF Init, ActiveHasHandler
  <2> QED
    BY <2>1, TypeInit, IndInit
<1>2. Typed /\ IndInv /\ [Next]_vars => Typed' /\ IndInv'
  BY InvStep
<1>3. Typed /\ IndInv /\ ActiveHasHandler /\ [Next]_vars => ActiveHasHandler'
  BY ActiveStep
<1> QED
  BY <1>1, <1>2, <1>3, PTL DEF Spec
-----------------------------------------------------------------------------
(* The quota: QuotaSide first, then what is counted.                       *)

\* The sets that are counted are finite.
LEMMA CountsFinite ==
    ASSUME TypeOK, NEW d
    PROVE  /\ IsFiniteSet(Creators(d)) /\ Cardinality(Creators(d)) \in Nat
           /\ IsFiniteSet(Counted(d)) /\ Cardinality(Counted(d)) \in Nat
<1>1. Creators(d) \in SUBSET Sessions /\ Counted(d) \in SUBSET Sessions
  BY DEF TypeOK, Creators, Counted
<1> QED
  BY <1>1, ConstantsAssumption, FS_Subset, FS_CardinalityType

\* A step that opens and settles no create, and makes no session count again,
\* keeps the quota.
LEMMA NobodyCountsMore ==
    ASSUME Typed, Typed', SlotsCounted, QuotaHeld,
           UNCHANGED <<launching, owner, replaces>>, registry' \subseteq registry,
           \A t \in Sessions : /\ Creating(t)' <=> Creating(t)
                               /\ cpc'[t] = "registered" <=> cpc[t] = "registered"
                               /\ stopping[t] => stopping'[t],
           \A t \in registry' : ~stopping'[t] /\ status'[t] \in Live => status[t] \in Live
    PROVE  SlotsCounted' /\ QuotaHeld'
<1>1. \A t \in Sessions : Replaced(t)' <=> Replaced(t)
  BY DEF Replaced
<1>2. ASSUME NEW d \in Devices
      PROVE  Creators(d)' = Creators(d) /\ Counted(d)' \subseteq Counted(d)
  BY <1>1 DEF Creators, Counted, Typed, TypeOK
<1>3. ASSUME NEW d \in Devices
      PROVE  Cardinality(Counted(d)') <= Cardinality(Counted(d))
  BY <1>2, CountsFinite, FS_Subset DEF Typed
<1>4. ASSUME NEW d \in Devices
      PROVE  Cardinality(Counted(d)') \in Nat /\ Cardinality(Counted(d)) \in Nat
  <2>1. Cardinality(Counted(d)) \in Nat /\ IsFiniteSet(Counted(d))
    BY CountsFinite DEF Typed
  <2> QED
    BY <1>2, <2>1, FS_Subset, FS_CardinalityType
<1>5. SlotsCounted'
  BY <1>2 DEF SlotsCounted
<1>6. QuotaHeld'
  BY <1>3, <1>4, ConstantsAssumption DEF QuotaHeld, Typed, TypeOK
<1> QED
  BY <1>5, <1>6

\* One element more makes a finite set larger by one at most.
LEMMA OneMore ==
    ASSUME NEW S, NEW x, IsFiniteSet(S)
    PROVE  IsFiniteSet(S \cup {x}) /\ Cardinality(S \cup {x}) <= Cardinality(S) + 1
<1>1. Cardinality(S) \in Nat /\ IsFiniteSet(S \cup {x})
  BY FS_CardinalityType, FS_AddElement
<1>2. \/ Cardinality(S \cup {x}) = Cardinality(S)
      \/ Cardinality(S \cup {x}) = Cardinality(S) + 1
  BY FS_AddElement
<1> QED
  BY <1>1, <1>2

\* A create that ends gives its slot up, and at most one session of its device
\* counts from then on: its own, or the one it was to replace.
LEMMA SlotGivenUp ==
    ASSUME Typed, Typed', SlotsCounted, QuotaHeld, QuotaSide,
           NEW s \in Sessions, NEW x, NEW o \in Devices, owner[s] = o, owner' = owner,
           Creating(s), ReleaseLaunchSlot(s), ~Creating(s)',
           \A t \in Sessions \ {s} : Creating(t)' <=> Creating(t),
           Counted(o)' \subseteq Counted(o) \cup {x},
           \A d \in Devices \ {o} : Counted(d)' \subseteq Counted(d)
    PROVE  SlotsCounted' /\ QuotaHeld'
<1>1. /\ Creators(o)' = Creators(o) \ {s} /\ s \in Creators(o)
      /\ \A d \in Devices \ {o} : Creators(d)' = Creators(d)
  BY DEF Creators
<1>2. \A d \in Devices : /\ IsFiniteSet(Creators(d)) /\ Cardinality(Creators(d)) \in Nat
                         /\ IsFiniteSet(Counted(d)) /\ Cardinality(Counted(d)) \in Nat
  BY CountsFinite DEF Typed
<1>3. Cardinality(Creators(o)') = Cardinality(Creators(o)) - 1
  BY <1>1, <1>2, FS_RemoveElement, ZenonT(30)
<1>4. Cardinality(Creators(o)) >= 1
  BY <1>1, <1>2, FS_EmptySet
<1>5. launching' = [launching EXCEPT ![o] = launching[o] - 1]
  <2>1. launching[o] \in Nat /\ launching[o] >= 1
    BY <1>4 DEF SlotsCounted, Typed, TypeOK
  <2>2. (IF launching[o] <= 1 THEN 0 ELSE launching[o] - 1) = launching[o] - 1
    BY <2>1
  <2> QED
    BY <2>2 DEF ReleaseLaunchSlot
<1>6. SlotsCounted'
  <2>1. launching'[o] = Cardinality(Creators(o)')
    BY <1>3, <1>5 DEF SlotsCounted, Typed, TypeOK
  <2>2. ASSUME NEW d \in Devices \ {o} PROVE launching'[d] = Cardinality(Creators(d)')
    BY <1>1, <1>5 DEF SlotsCounted, Typed, TypeOK
  <2> QED
    BY <2>1, <2>2 DEF SlotsCounted
<1>7. /\ Cardinality(Counted(o)') \in Nat
      /\ Cardinality(Counted(o)') <= Cardinality(Counted(o)) + 1
  <2>1. /\ IsFiniteSet(Counted(o) \cup {x})
        /\ Cardinality(Counted(o) \cup {x}) <= Cardinality(Counted(o)) + 1
    BY <1>2, OneMore
  <2>2. /\ IsFiniteSet(Counted(o)')
        /\ Cardinality(Counted(o)') <= Cardinality(Counted(o) \cup {x})
    BY <2>1, FS_Subset
  <2> QED
    BY <1>2, <2>1, <2>2, FS_CardinalityType
<1>8. ASSUME NEW d \in Devices \ {o}
      PROVE  /\ Cardinality(Counted(d)') \in Nat
             /\ Cardinality(Counted(d)') <= Cardinality(Counted(d))
  BY <1>2, FS_Subset, FS_CardinalityType
<1>9. QuotaHeld'
  <2>1. launching'[o] + Cardinality(Counted(o)') <= MaxPerDevice
    BY <1>2, <1>5, <1>7, ConstantsAssumption DEF QuotaHeld, Typed, TypeOK
  <2>2. ASSUME NEW d \in Devices \ {o}
        PROVE  launching'[d] + Cardinality(Counted(d)') <= MaxPerDevice
    <3>1. launching'[d] = launching[d] /\ launching[d] \in Nat
      BY <1>5 DEF Typed, TypeOK
    <3>2. launching[d] + Cardinality(Counted(d)) <= MaxPerDevice
      BY DEF QuotaHeld
    <3> QED
      BY <1>2, <1>8, <3>1, <3>2, ConstantsAssumption
  <2> QED
    BY <2>1, <2>2 DEF QuotaHeld
<1> QED
  BY <1>6, <1>9

\* Every step keeps the part of the quota's invariant that counts nothing.
LEMMA QuotaSideStep == Typed /\ IndInv /\ QuotaSide /\ [Next]_vars => QuotaSide'
<1> SUFFICES ASSUME Typed, IndInv, QuotaSide, [Next]_vars PROVE QuotaSide'
  OBVIOUS
<1> USE ConstantsAssumption
    DEF QuotaSide, Creating, Live, Holds, Typed, TypeOK, HandlersTyped, IndInv,
        UnregisteredUntouched, ReplacedWasRegistered, HandlerSound, sessionVars, pumpVars,
        procVars, closeVars, reaperVars, createVars, handlerVars, rowVars
\* A step of neither create nor handlers that marks no session.
<1>1. CASE /\ registry' \subseteq registry
           /\ UNCHANGED <<cpc, owner, replaces, connGen, hpc, hsess, hgen>>
           /\ \A t \in registry' : status'[t] = status[t] /\ (stopping[t] => stopping'[t])
  BY <1>1
<1>2. ASSUME NEW s \in Sessions,
             ProcCrash(s) \/ WatchLoad(s) \/ PumpEnd(s) \/ CloseLookup(s) \/ CloseCAS(s)
               \/ ReaperMeasure(s) \/ ShutdownStop(s) \/ ClientOverflow(s)
               \/ CloseSave(s) \/ CloseRemove(s) \/ CloseStop(s) \/ CloseDelete(s)
      PROVE  QuotaSide'
  BY <1>1, <1>2
  DEF ProcCrash, WatchLoad, PumpEnd, CloseLookup, CloseCAS, ReaperMeasure, ShutdownStop,
      ClientOverflow, CloseSave, CloseRemove, CloseStop, CloseDelete
<1>3. ASSUME NEW s \in Sessions, WatchReclaim(s) PROVE QuotaSide'
  BY <1>1, <1>3 DEF WatchReclaim
<1>4. CASE ShutdownBegin
  BY <1>1, <1>4 DEF ShutdownBegin
<1>5. ASSUME NEW s \in Sessions, CloseMark(s) PROVE QuotaSide'
  BY <1>5 DEF CloseMark, StoppingIsOwned
<1>6. CASE ReaperMark
  <2>1. CASE StillExpired(reaperAt)
    BY <1>6, <2>1 DEF ReaperMark, StillExpired
  <2>2. CASE ~StillExpired(reaperAt)
    BY <1>1, <1>6, <2>2 DEF ReaperMark
  <2> QED
    BY <2>1, <2>2
<1>7. ASSUME NEW s \in Sessions, NEW d \in Devices, NEW old \in Sessions \cup {None},
             CreateReserve(s, d, old)
      PROVE  QuotaSide'
  BY <1>7 DEF CreateReserve
<1>8. ASSUME NEW s \in Sessions,
             CreateLaunch(s) \/ CreateLaunchFails(s) \/ CreateSave(s) \/ CreateSaveFails(s)
               \/ CreateRefused(s)
      PROVE  QuotaSide'
  BY <1>8 DEF CreateLaunch, CreateLaunchFails, CreateSave, CreateSaveFails, CreateRefused
<1>9. ASSUME NEW s \in Sessions, CreateRegister(s) PROVE QuotaSide'
  BY <1>9 DEF CreateRegister
<1>10. ASSUME NEW h \in Handlers, NEW s \in Sessions, HValidate(h, s) PROVE QuotaSide'
  BY <1>10 DEF HValidate
<1>11. ASSUME NEW h \in Handlers, HClaim(h) PROVE QuotaSide'
  BY <1>11 DEF HClaim
<1>12. ASSUME NEW h \in Handlers,
              HRefused(h) \/ HSave(h) \/ HSaveFails(h) \/ HBind(h) \/ HLeave(h)
                \/ HDetachLookup(h) \/ HDetachSave(h)
       PROVE  QuotaSide'
  BY <1>12 DEF HRefused, HSave, HSaveFails, HBind, HLeave, HDetachLookup, HDetachSave, Idle
<1>13. ASSUME NEW h \in Handlers, HDetachMark(h) PROVE QuotaSide'
  <2>1. CASE Current(h)
    BY <1>13, <2>1 DEF HDetachMark
  <2>2. CASE ~Current(h)
    BY <1>13, <2>2 DEF HDetachMark, Idle
  <2> QED
    BY <2>1, <2>2
<1>14. CASE DaemonRestart
  BY <1>14 DEF DaemonRestart
<1>15. CASE UNCHANGED vars
  BY <1>1, <1>15 DEF vars
<1> HIDE DEF QuotaSide
<1> QED
  BY <1>2, <1>3, <1>4, <1>5, <1>6, <1>7, <1>8, <1>9, <1>10, <1>11, <1>12, <1>13, <1>14,
     <1>15
  DEF Next, CreateStep, WatchStep, TeardownStep, AttachStep, DetachStep

\* A create that is refused or fails: the session it was to replace may count
\* again, in the slot that is given up.
LEMMA RefusalKeepsQuota ==
    ASSUME Typed, Typed', IndInv, SlotsCounted, QuotaHeld, QuotaSide, NEW s \in Sessions,
           Creating(s), ReleaseLaunchSlot(s), cpc' = [cpc EXCEPT ![s] = "refused"],
           UNCHANGED sessionVars
    PROVE  SlotsCounted' /\ QuotaHeld'
<1>1. ~Creating(s)' /\ \A t \in Sessions \ {s} : Creating(t)' <=> Creating(t)
  BY DEF Creating, Typed, TypeOK
<1>2. \A t \in Sessions : Replaced(t) /\ t # replaces[s] => Replaced(t)'
  BY <1>1 DEF Replaced, sessionVars, Typed, TypeOK
<1>3. PICK o \in Devices : owner[s] = o
  BY DEF QuotaSide
<1>4. Counted(o)' \subseteq Counted(o) \cup {replaces[s]}
  BY <1>2 DEF Counted, sessionVars, Typed, TypeOK
<1>5. \A d \in Devices \ {o} : Counted(d)' \subseteq Counted(d)
  BY <1>2, <1>3, ConstantsAssumption DEF Counted, sessionVars, QuotaSide, Typed, TypeOK
<1> QED
  BY <1>1, <1>3, <1>4, <1>5, SlotGivenUp DEF sessionVars

\* Every step keeps the slots counted and the quota.
LEMMA QuotaStep ==
    ASSUME Typed, Typed', IndInv, SlotsCounted, QuotaHeld, QuotaSide, [Next]_vars
    PROVE  SlotsCounted' /\ QuotaHeld'
<1> USE ConstantsAssumption
    DEF Live, sessionVars, pumpVars, procVars, closeVars, reaperVars, createVars,
        handlerVars, rowVars
<1>1. ASSUME NEW s \in Sessions, NEW d \in Devices, NEW old \in Sessions \cup {None},
             CreateReserve(s, d, old)
      PROVE  SlotsCounted' /\ QuotaHeld'
  <2>1. /\ Creators(d)' = Creators(d) \cup {s} /\ s \notin Creators(d)
        /\ \A e \in Devices \ {d} : Creators(e)' = Creators(e)
    BY <1>1 DEF CreateReserve, Creators, Creating, Typed, TypeOK
  <2>2. \A e \in Devices : /\ IsFiniteSet(Creators(e)) /\ Cardinality(Creators(e)) \in Nat
                           /\ IsFiniteSet(Counted(e)) /\ Cardinality(Counted(e)) \in Nat
    BY CountsFinite DEF Typed
  <2>3. SlotsCounted'
    <3>1. Cardinality(Creators(d)') = Cardinality(Creators(d)) + 1
      BY <2>1, <2>2, FS_AddElement
    <3>2. launching'[d] = Cardinality(Creators(d)')
      BY <1>1, <3>1 DEF CreateReserve, SlotsCounted, Typed, TypeOK
    <3>3. ASSUME NEW e \in Devices \ {d} PROVE launching'[e] = Cardinality(Creators(e)')
      BY <1>1, <2>1 DEF CreateReserve, SlotsCounted, Typed, TypeOK
    <3> QED
      BY <3>2, <3>3 DEF SlotsCounted
  <2>4. \A t \in Sessions : Replaced(t) => Replaced(t)'
    BY <1>1 DEF CreateReserve, Replaced, Creating, Typed, TypeOK
  <2>5. old # None => Replaced(old)'
    BY <1>1 DEF CreateReserve, Replaced, Creating, Typed, TypeOK
  <2>6. Counted(d)' \subseteq LiveOf(d, old) /\ LiveOf(d, old) \in SUBSET Sessions
    BY <1>1, <2>5 DEF CreateReserve, Counted, LiveOf, IndInv, UnregisteredUntouched, Typed, TypeOK
  <2>7. /\ Cardinality(Counted(d)') \in Nat /\ Cardinality(LiveOf(d, old)) \in Nat
        /\ Cardinality(Counted(d)') <= Cardinality(LiveOf(d, old))
    BY <2>6, FS_Subset, FS_CardinalityType
  <2>8. launching'[d] + Cardinality(Counted(d)') <= MaxPerDevice
    BY <1>1, <2>7 DEF CreateReserve, LiveSessionsLocked, Typed, TypeOK
  <2>9. ASSUME NEW e \in Devices \ {d}
        PROVE  launching'[e] + Cardinality(Counted(e)') <= MaxPerDevice
    <3>1. Counted(e)' \in SUBSET Counted(e)
      BY <1>1, <2>4 DEF CreateReserve, Counted, IndInv, UnregisteredUntouched, Typed, TypeOK
    <3>2. /\ Cardinality(Counted(e)') \in Nat
          /\ Cardinality(Counted(e)') <= Cardinality(Counted(e))
      BY <2>2, <3>1, FS_Subset, FS_CardinalityType
    <3>3. launching'[e] = launching[e] /\ launching[e] \in Nat
      BY <1>1 DEF CreateReserve, Typed, TypeOK
    <3>4. launching[e] + Cardinality(Counted(e)) <= MaxPerDevice
      BY DEF QuotaHeld
    <3> QED
      BY <2>2, <3>2, <3>3, <3>4
  <2> QED
    BY <2>3, <2>8, <2>9 DEF QuotaHeld
<1>2. ASSUME NEW s \in Sessions, CreateLaunchFails(s) \/ CreateSaveFails(s) \/ CreateRefused(s)
      PROVE  SlotsCounted' /\ QuotaHeld'
  BY <1>2, RefusalKeepsQuota
  DEF CreateLaunchFails, CreateSaveFails, CreateRefused, Creating
<1>3. ASSUME NEW s \in Sessions, CreateRegister(s) PROVE SlotsCounted' /\ QuotaHeld'
  <2>1. Creating(s) /\ ~Creating(s)' /\ \A t \in Sessions \ {s} : Creating(t)' <=> Creating(t)
    BY <1>3 DEF CreateRegister, Creating, Typed, TypeOK
  <2>2. \A t \in Sessions : Replaced(t) => Replaced(t)'
    BY <1>3, <2>1 DEF CreateRegister, Replaced, Typed, TypeOK
  <2>3. PICK o \in Devices : owner[s] = o
    BY <2>1 DEF QuotaSide
  <2>4. Counted(o)' \subseteq Counted(o) \cup {s}
    BY <1>3, <2>2 DEF CreateRegister, Counted, Typed, TypeOK
  <2>5. \A d \in Devices \ {o} : Counted(d)' \subseteq Counted(d)
    BY <1>3, <2>2, <2>3 DEF CreateRegister, Counted, Typed, TypeOK
  <2> QED
    BY <1>3, <2>1, <2>3, <2>4, <2>5, SlotGivenUp DEF CreateRegister
<1>4. ASSUME NEW s \in Sessions, CreateLaunch(s) \/ CreateSave(s)
      PROVE  SlotsCounted' /\ QuotaHeld'
  BY <1>4, NobodyCountsMore DEF CreateLaunch, CreateSave, Creating, Typed, TypeOK
<1>5. ASSUME NEW s \in Sessions,
             ProcCrash(s) \/ WatchLoad(s) \/ PumpEnd(s) \/ CloseLookup(s) \/ CloseCAS(s)
               \/ ReaperMeasure(s) \/ ShutdownStop(s) \/ ClientOverflow(s)
      PROVE  SlotsCounted' /\ QuotaHeld'
  BY <1>5, NobodyCountsMore
  DEF ProcCrash, WatchLoad, PumpEnd, CloseLookup, CloseCAS, ReaperMeasure, ShutdownStop,
      ClientOverflow, Creating, Typed, TypeOK
<1>6. ASSUME NEW s \in Sessions, TeardownStep(s) \/ WatchReclaim(s)
      PROVE  SlotsCounted' /\ QuotaHeld'
  BY <1>6, NobodyCountsMore
  DEF TeardownStep, CloseMark, CloseSave, CloseRemove, CloseStop, CloseDelete, WatchReclaim,
      Creating, Typed, TypeOK
<1>7. CASE ReaperMark
  BY <1>7, NobodyCountsMore DEF ReaperMark, Creating, Typed, TypeOK
<1>8. CASE ShutdownBegin
  BY <1>8, NobodyCountsMore DEF ShutdownBegin, Creating, Typed, TypeOK
<1>9. ASSUME NEW h \in Handlers,
             (\E s \in Sessions : HValidate(h, s)) \/ HRefused(h) \/ HSave(h) \/ HSaveFails(h)
               \/ HBind(h) \/ HLeave(h) \/ HDetachLookup(h) \/ HDetachSave(h)
      PROVE  SlotsCounted' /\ QuotaHeld'
  BY <1>9, NobodyCountsMore
  DEF HValidate, HRefused, HSave, HSaveFails, HBind, HLeave, HDetachLookup, HDetachSave,
      Creating
<1>10. ASSUME NEW h \in Handlers, HClaim(h) PROVE SlotsCounted' /\ QuotaHeld'
  BY <1>10, NobodyCountsMore DEF HClaim, QuotaSide, Creating, Typed, TypeOK, HandlersTyped
<1>11. ASSUME NEW h \in Handlers, HDetachMark(h) PROVE SlotsCounted' /\ QuotaHeld'
  <2>1. CASE Current(h)
    <3>1. Holds(h, hsess[h])
      BY <1>11, <2>1 DEF HDetachMark, Current, Holds
    <3>2. \A t \in registry' : ~stopping'[t] /\ status'[t] \in Live => status[t] \in Live
      BY <1>11, <2>1, <3>1 DEF HDetachMark, QuotaSide, Typed, TypeOK, HandlersTyped
    <3> QED
      BY <1>11, <2>1, <3>2, NobodyCountsMore DEF HDetachMark, Creating
  <2>2. CASE ~Current(h)
    BY <1>11, <2>2, NobodyCountsMore DEF HDetachMark, Creating
  <2> QED
    BY <2>1, <2>2
<1>12. CASE DaemonRestart
  <2>1. \A d \in Devices : /\ launching'[d] = 0
                           /\ Creators(d)' = {} /\ Counted(d)' = {}
    BY <1>12 DEF DaemonRestart, Creators, Counted, Creating, Typed, TypeOK
  <2>2. \A d \in Devices : Cardinality(Creators(d)') = 0 /\ Cardinality(Counted(d)') = 0
    BY <2>1, FS_EmptySet
  <2>3. SlotsCounted'
    BY <2>1, <2>2 DEF SlotsCounted
  <2>4. QuotaHeld'
    BY <2>1, <2>2 DEF QuotaHeld
  <2> QED
    BY <2>3, <2>4
<1>13. CASE UNCHANGED vars
  BY <1>13, NobodyCountsMore DEF vars, Creating
<1> QED
  BY <1>1, <1>2, <1>3, <1>4, <1>5, <1>6, <1>7, <1>8, <1>9, <1>10, <1>11, <1>12, <1>13
  DEF Next, CreateStep, WatchStep, AttachStep, DetachStep

\* Launches in flight and live sessions of a device stay within MaxPerDevice,
\* for every number of devices, sessions, connects and restarts, with failing
\* launches and a failing store.
THEOREM QuotaIsKept == Spec => []QuotaHeld
<1>1. Init => Typed /\ IndInv /\ SlotsCounted /\ QuotaHeld /\ QuotaSide
  <2> SUFFICES ASSUME Init PROVE Typed /\ IndInv /\ SlotsCounted /\ QuotaHeld /\ QuotaSide
    OBVIOUS
  <2>1. Typed /\ IndInv
    BY TypeInit, IndInit
  <2>2. \A d \in Devices : launching[d] = 0 /\ Creators(d) = {} /\ Counted(d) = {}
    BY DEF Init, Creators, Counted, Creating
  <2>3. SlotsCounted /\ QuotaHeld
    BY <2>2, FS_EmptySet, ConstantsAssumption DEF SlotsCounted, QuotaHeld
  <2>4. QuotaSide
    BY DEF Init, QuotaSide, Creating
  <2> QED
    BY <2>1, <2>3, <2>4
<1>2. Typed /\ IndInv /\ [Next]_vars => Typed' /\ IndInv'
  BY InvStep
<1>3. Typed /\ IndInv /\ QuotaSide /\ [Next]_vars => QuotaSide'
  BY QuotaSideStep
<1>4. Typed /\ Typed' /\ IndInv /\ SlotsCounted /\ QuotaHeld /\ QuotaSide /\ [Next]_vars
        => SlotsCounted' /\ QuotaHeld'
  BY QuotaStep
<1> QED
  BY <1>1, <1>2, <1>3, <1>4, PTL DEF Spec
-----------------------------------------------------------------------------
(* The reaper.                                                             *)

\* A step that marks no session, sets no DisconnectedAt and attaches nobody.
LEMMA NobodyComes ==
    ASSUME ReapedIsIdle, UNCHANGED <<discAt, connGen, hpc, hsess, hgen>>,
           \A t \in Sessions : /\ client'[t] \in {0, client[t]}
                               /\ status'[t] = "closing" => status[t] = "closing" \/ stopping'[t]
                               /\ stopping[t] => stopping'[t]
    PROVE  ReapedIsIdle'
<1>1. ASSUME NEW t \in Sessions, discAt'[t] # 0 \/ (status'[t] = "closing" /\ ~stopping'[t])
      PROVE  client'[t] = 0 /\ \A h \in Handlers : ~Holds(h, t)'
  <2>1. /\ client'[t] \in {0, client[t]}
        /\ status'[t] = "closing" => status[t] = "closing" \/ stopping'[t]
        /\ stopping[t] => stopping'[t]
    OBVIOUS
  <2>2. discAt[t] # 0 \/ (status[t] = "closing" /\ ~stopping[t])
    <3>1. CASE discAt'[t] # 0
      BY <3>1
    <3>2. CASE status'[t] = "closing" /\ ~stopping'[t]
      BY <3>2, <2>1, Zenon
    <3> QED
      BY <1>1, <3>1, <3>2
  <2>3. client[t] = 0 /\ \A h \in Handlers : ~Holds(h, t)
    BY <2>2 DEF ReapedIsIdle
  <2> QED
    BY <2>1, <2>3 DEF Holds
<1> QED
  BY <1>1, Zenon DEF ReapedIsIdle

\* Every step keeps it: a claim takes DisconnectedAt back and is refused once the
\* session is closing, the one handler that holds it lets go when it sets
\* DisconnectedAt, and the reaper marks a session that is disconnected.
LEMMA ReapedIsIdleStep == Typed /\ IndInv /\ ReapedIsIdle /\ [Next]_vars => ReapedIsIdle'
<1> SUFFICES ASSUME Typed, IndInv, ReapedIsIdle, [Next]_vars PROVE ReapedIsIdle'
  OBVIOUS
<1> USE ConstantsAssumption
    DEF ReapedIsIdle, Holds, Typed, TypeOK, HandlersTyped, IndInv,
        UnregisteredUntouched, HandlerSound, FenceHolds, GenerationsAreUnique, sessionVars,
        pumpVars, procVars, closeVars, reaperVars, createVars, handlerVars, rowVars
<1>1. CASE /\ UNCHANGED <<discAt, connGen, hpc, hsess, hgen>>
           /\ \A t \in Sessions : /\ client'[t] \in {0, client[t]}
                                  /\ status'[t] = "closing" => status[t] = "closing" \/ stopping'[t]
                                  /\ stopping[t] => stopping'[t]
  BY <1>1, NobodyComes
<1>2. ASSUME NEW s \in Sessions,
             ProcCrash(s) \/ WatchLoad(s) \/ PumpEnd(s) \/ CloseLookup(s) \/ CloseCAS(s)
               \/ ReaperMeasure(s) \/ ShutdownStop(s) \/ ClientOverflow(s)
               \/ CloseSave(s) \/ CloseRemove(s) \/ CloseStop(s) \/ CloseDelete(s)
      PROVE  ReapedIsIdle'
  BY <1>1, <1>2
  DEF ProcCrash, WatchLoad, PumpEnd, CloseLookup, CloseCAS, ReaperMeasure, ShutdownStop,
      ClientOverflow, CloseSave, CloseRemove, CloseStop, CloseDelete
<1>3. ASSUME NEW s \in Sessions, WatchReclaim(s) PROVE ReapedIsIdle'
  BY <1>1, <1>3 DEF WatchReclaim
<1>4. CASE ShutdownBegin
  BY <1>1, <1>4 DEF ShutdownBegin
<1>5. ASSUME NEW s \in Sessions, CloseMark(s) PROVE ReapedIsIdle'
  BY <1>1, <1>5 DEF CloseMark, StoppingIsOwned
<1>6. CASE ReaperMark
  <2>1. CASE StillExpired(reaperAt)
    BY <1>6, <2>1 DEF ReaperMark, StillExpired
  <2>2. CASE ~StillExpired(reaperAt)
    BY <1>1, <1>6, <2>2 DEF ReaperMark
  <2> QED
    BY <2>1, <2>2
<1>7. ASSUME NEW s \in Sessions, NEW d \in Devices, NEW old \in Sessions \cup {None},
             CreateReserve(s, d, old)
      PROVE  ReapedIsIdle'
  BY <1>1, <1>7 DEF CreateReserve
<1>8. ASSUME NEW s \in Sessions,
             CreateLaunch(s) \/ CreateLaunchFails(s) \/ CreateSave(s) \/ CreateSaveFails(s)
               \/ CreateRefused(s)
      PROVE  ReapedIsIdle'
  BY <1>1, <1>8 DEF CreateLaunch, CreateLaunchFails, CreateSave, CreateSaveFails, CreateRefused
<1>9. ASSUME NEW s \in Sessions, CreateRegister(s) PROVE ReapedIsIdle'
  BY <1>9 DEF CreateRegister
<1>10. ASSUME NEW h \in Handlers, NEW s \in Sessions, HValidate(h, s) PROVE ReapedIsIdle'
  BY <1>10 DEF HValidate
<1>11. ASSUME NEW h \in Handlers, HClaim(h) PROVE ReapedIsIdle'
  BY <1>11 DEF HClaim
<1>12. ASSUME NEW h \in Handlers,
              HRefused(h) \/ HSave(h) \/ HSaveFails(h) \/ HBind(h) \/ HLeave(h)
                \/ HDetachLookup(h) \/ HDetachSave(h)
       PROVE  ReapedIsIdle'
  BY <1>12 DEF HRefused, HSave, HSaveFails, HBind, HLeave, HDetachLookup, HDetachSave, Idle, Current
<1>13. ASSUME NEW h \in Handlers, HDetachMark(h) PROVE ReapedIsIdle'
  <2>1. CASE Current(h)
    BY <1>13, <2>1 DEF HDetachMark, Current
  <2>2. CASE ~Current(h)
    BY <1>13, <2>2 DEF HDetachMark, Idle
  <2> QED
    BY <2>1, <2>2
<1>14. CASE DaemonRestart
  BY <1>14 DEF DaemonRestart
<1>15. CASE UNCHANGED vars
  BY <1>1, <1>15 DEF vars
<1> HIDE DEF ReapedIsIdle
<1> QED
  BY <1>2, <1>3, <1>4, <1>5, <1>6, <1>7, <1>8, <1>9, <1>10, <1>11, <1>12, <1>13, <1>14,
     <1>15
  DEF Next, CreateStep, WatchStep, TeardownStep, AttachStep, DetachStep

\* What the reaper measures and closes is attached to by nobody, for any number of
\* sessions, handlers and attaches and however they cross its look and its mark.
THEOREM ReaperSound == Spec => []ReapedIsIdle
<1>1. Init => Typed /\ IndInv /\ ReapedIsIdle
  BY TypeInit, IndInit DEF Init, ReapedIsIdle, Holds
<1>2. Typed /\ IndInv /\ [Next]_vars => Typed' /\ IndInv'
  BY InvStep
<1>3. Typed /\ IndInv /\ ReapedIsIdle /\ [Next]_vars => ReapedIsIdle'
  BY ReapedIsIdleStep
<1> QED
  BY <1>1, <1>2, <1>3, PTL DEF Spec
=============================================================================
