-------------------------- MODULE CoreBridgeProofs --------------------------
(***************************************************************************)
(* Proofs about CoreBridge, for any number of stopping threads and of      *)
(* cores launched one after the other in the process.                      *)
(***************************************************************************)
EXTENDS CoreBridge, TLAPS

Holding == {"launchCheck", "launchStart", "stopCheck", "stopRequest", "stopClear"}
Joining == {"launchJoin", "stopJoin", "stopFinish"}

(* g_lock belongs to the caller that is inside it.                         *)
LockInv == \A c \in Callers : gLock = c <=> pc[c] \in Holding

(* A thread that is not joined is g_xemu_thread or was taken out by one    *)
(* caller after its last line; the core that runs is g_xemu_thread.        *)
ThreadInv ==
    /\ \A c \in Callers : finished[c] # NoCore <=> pc[c] \in Joining
    /\ \A c \in Callers : finished[c] # NoCore => core[finished[c]] = "ended" /\ finished[c] # handle
    /\ \A c, d \in Callers : finished[c] # NoCore /\ finished[c] = finished[d] => c = d
    /\ \A i \in Cores : core[i] = "ended" => handle = i \/ \E c \in Callers : finished[c] = i
    /\ \A i \in Cores : core[i] \in Active => handle = i
    /\ handle # NoCore => core[handle] \in Live

(* The running flag, and what a launch and a stop know under g_lock.       *)
FlagInv ==
    /\ RunningIsExact
    /\ pc[UI] \in {"launchJoin", "launchStart"} => handle = NoCore
    /\ pc[UI] = "launchCheck" => running \/ handle = NoCore
    /\ \A c \in Callers : pc[c] = "stopRequest" => running

(* Cores are launched in order, and the first one initialises the BQL.     *)
StartInv ==
    /\ \A i, j \in Cores : j < i /\ core[i] # "none" => core[j] # "none"
    /\ ~bqlInitialized => \A i \in Cores : core[i] \in {"none", "created"}
    /\ \A c \in Callers : pc[c] \in {"request", "stopRequest"} => \E i \in Cores : core[i] # "none"
    /\ DiesOnlyInFirstStart

(* A request made in time is pending only while its core may still take it.*)
RequestInv ==
    /\ \A i \in Cores : core[i] \in {"init", "cleanup", "cleaned"} => bql = i
    /\ shutdownRequested /\ ~requestedIn.late =>
          requestedIn.core \in Cores /\ core[requestedIn.core] \in Starting

IInv == TypeOK /\ LockInv /\ ThreadInv /\ FlagInv /\ StartInv /\ RequestInv

-----------------------------------------------------------------------------
(* Types.                                                                  *)
LEMMA TypesKept ==
  ASSUME TypeOK, [Next]_vars
  PROVE  TypeOK'
<1> USE BridgeAssumption DEF TypeOK, Cores, NoCore, Callers, Active, Live, InMain, NoRequest, Goto, Becomes, request
<1>1. ASSUME NEW i \in Cores, CoreInit(i), UNCHANGED died PROVE TypeOK'
  BY <1>1 DEF CoreInit
<1>2. ASSUME NEW i \in Cores, CoreInitDone(i), UNCHANGED died PROVE TypeOK'
  BY <1>2 DEF CoreInitDone
<1>3. ASSUME NEW i \in Cores, CoreLoopEnds(i), UNCHANGED died PROVE TypeOK'
  BY <1>3, ZenonT(30) DEF CoreLoopEnds
<1>4. ASSUME NEW i \in Cores, CoreDrains(i), UNCHANGED died PROVE TypeOK'
  BY <1>4 DEF CoreDrains
<1>5. ASSUME NEW i \in Cores, CoreDrained(i), UNCHANGED died PROVE TypeOK'
  BY <1>5 DEF CoreDrained
<1>6. ASSUME NEW i \in Cores, CoreReturns(i), UNCHANGED died PROVE TypeOK'
  BY <1>6 DEF CoreReturns
<1>7. ASSUME NEW i \in Cores, CoreLeaves(i), UNCHANGED died PROVE TypeOK'
  BY <1>7, ZenonT(30) DEF CoreLeaves
<1>8. CASE LaunchEnter /\ UNCHANGED died
  BY <1>8 DEF LaunchEnter, JoinFinished, Finished
<1>9. CASE LaunchJoined /\ UNCHANGED died
  BY <1>9, ZenonT(60) DEF LaunchJoined, Joined
<1>10. CASE LaunchRefused /\ UNCHANGED died
  BY <1>10 DEF LaunchRefused
<1>11. CASE LaunchCheck /\ UNCHANGED died
  BY <1>11 DEF LaunchCheck
<1>12. CASE LaunchStart /\ UNCHANGED died
  BY <1>12 DEF LaunchStart
<1>13. CASE RequestCheck /\ UNCHANGED died
  BY <1>13 DEF RequestCheck
<1>14. CASE RequestServed /\ UNCHANGED died
  BY <1>14 DEF RequestServed
<1>15. ASSUME NEW c \in Callers, StopCalled(c), UNCHANGED died PROVE TypeOK'
  BY <1>15 DEF StopCalled
<1>16. ASSUME NEW c \in Callers, StopEnter(c), UNCHANGED died PROVE TypeOK'
  BY <1>16 DEF StopEnter, JoinFinished, Finished
<1>17. ASSUME NEW c \in Callers, StopJoined(c), UNCHANGED died PROVE TypeOK'
  BY <1>17, ZenonT(60) DEF StopJoined, Joined
<1>18. ASSUME NEW c \in Callers, StopCheck(c), UNCHANGED died PROVE TypeOK'
  BY <1>18 DEF StopCheck
<1>19. ASSUME NEW c \in Callers, StopRequest(c), UNCHANGED died PROVE TypeOK'
  BY <1>19 DEF StopRequest
<1>20. ASSUME NEW c \in Callers, StopWake(c), UNCHANGED died PROVE TypeOK'
  BY <1>20 DEF StopWake
<1>21. ASSUME NEW c \in Callers, StopClear(c), UNCHANGED died PROVE TypeOK'
  BY <1>21 DEF StopClear, Finished
<1>22. ASSUME NEW c \in Callers, StopFinish(c), UNCHANGED died PROVE TypeOK'
  <2>1. /\ core' = [core EXCEPT ![finished[c]] = "joined"]
        /\ finished' = [finished EXCEPT ![c] = NoCore]
        /\ pc' = [pc EXCEPT ![c] = "idle"]
        /\ UNCHANGED <<gLock, bql, bqlInitialized, running, handle, request, died>>
    BY <1>22 DEF StopFinish
  <2>2. core' \in [Cores -> Live \cup {"none", "joined"}]
    BY <2>1, ZenonT(30)
  <2> QED  BY <2>1, <2>2
<1>23. CASE Dies
  BY <1>23 DEF Dies
<1>24. CASE UNCHANGED vars
  BY <1>24 DEF vars
<1> HIDE BridgeAssumption DEF TypeOK, Cores, NoCore, Callers, Active, Live, InMain, NoRequest, Goto, Becomes, request
<1>25. QED
  BY <1>1, <1>2, <1>3, <1>4, <1>5, <1>6, <1>7, <1>8, <1>9, <1>10, <1>11, <1>12,
     <1>13, <1>14, <1>15, <1>16, <1>17, <1>18, <1>19, <1>20, <1>21, <1>22, <1>23, <1>24
  DEF Next, Step, CoreStep, UiStep, StopStep

(* g_lock.                                                                 *)
LEMMA LockKept ==
  ASSUME TypeOK, LockInv, [Next]_vars
  PROVE  LockInv'
<1> USE BridgeAssumption DEF TypeOK, Cores, NoCore, Callers, Active, Live, InMain, LockInv, Holding, Goto, Becomes, request
<1>1. ASSUME NEW i \in Cores, CoreInit(i), UNCHANGED died PROVE LockInv'
  BY <1>1 DEF CoreInit
<1>2. ASSUME NEW i \in Cores, CoreInitDone(i), UNCHANGED died PROVE LockInv'
  BY <1>2 DEF CoreInitDone
<1>3. ASSUME NEW i \in Cores, CoreLoopEnds(i), UNCHANGED died PROVE LockInv'
  BY <1>3 DEF CoreLoopEnds
<1>4. ASSUME NEW i \in Cores, CoreDrains(i), UNCHANGED died PROVE LockInv'
  BY <1>4 DEF CoreDrains
<1>5. ASSUME NEW i \in Cores, CoreDrained(i), UNCHANGED died PROVE LockInv'
  BY <1>5 DEF CoreDrained
<1>6. ASSUME NEW i \in Cores, CoreReturns(i), UNCHANGED died PROVE LockInv'
  BY <1>6 DEF CoreReturns
<1>7. ASSUME NEW i \in Cores, CoreLeaves(i), UNCHANGED died PROVE LockInv'
  BY <1>7 DEF CoreLeaves
<1>8. CASE LaunchEnter /\ UNCHANGED died
  BY <1>8 DEF LaunchEnter, JoinFinished, Finished
<1>9. CASE LaunchJoined /\ UNCHANGED died
  BY <1>9 DEF LaunchJoined, Joined
<1>10. CASE LaunchRefused /\ UNCHANGED died
  BY <1>10 DEF LaunchRefused
<1>11. CASE LaunchCheck /\ UNCHANGED died
  BY <1>11 DEF LaunchCheck
<1>12. CASE LaunchStart /\ UNCHANGED died
  BY <1>12 DEF LaunchStart
<1>13. CASE RequestCheck /\ UNCHANGED died
  BY <1>13 DEF RequestCheck
<1>14. CASE RequestServed /\ UNCHANGED died
  BY <1>14 DEF RequestServed
<1>15. ASSUME NEW c \in Callers, StopCalled(c), UNCHANGED died PROVE LockInv'
  BY <1>15 DEF StopCalled
<1>16. ASSUME NEW c \in Callers, StopEnter(c), UNCHANGED died PROVE LockInv'
  BY <1>16 DEF StopEnter, JoinFinished, Finished
<1>17. ASSUME NEW c \in Callers, StopJoined(c), UNCHANGED died PROVE LockInv'
  BY <1>17 DEF StopJoined, Joined
<1>18. ASSUME NEW c \in Callers, StopCheck(c), UNCHANGED died PROVE LockInv'
  BY <1>18 DEF StopCheck
<1>19. ASSUME NEW c \in Callers, StopRequest(c), UNCHANGED died PROVE LockInv'
  BY <1>19 DEF StopRequest
<1>20. ASSUME NEW c \in Callers, StopWake(c), UNCHANGED died PROVE LockInv'
  BY <1>20 DEF StopWake
<1>21. ASSUME NEW c \in Callers, StopClear(c), UNCHANGED died PROVE LockInv'
  BY <1>21 DEF StopClear, Finished
<1>22. ASSUME NEW c \in Callers, StopFinish(c), UNCHANGED died PROVE LockInv'
  BY <1>22 DEF StopFinish
<1>23. CASE Dies
  BY <1>23 DEF Dies
<1>24. CASE UNCHANGED vars
  BY <1>24 DEF vars
<1> HIDE BridgeAssumption DEF TypeOK, Cores, NoCore, Callers, Active, Live, InMain, LockInv, Holding, Goto, Becomes, request
<1>25. QED
  BY <1>1, <1>2, <1>3, <1>4, <1>5, <1>6, <1>7, <1>8, <1>9, <1>10, <1>11, <1>12,
     <1>13, <1>14, <1>15, <1>16, <1>17, <1>18, <1>19, <1>20, <1>21, <1>22, <1>23, <1>24
  DEF Next, Step, CoreStep, UiStep, StopStep

(* The threads and their owners.                                           *)
LEMMA ThreadKept ==
  ASSUME IInv, [Next]_vars
  PROVE  ThreadInv'
<1> USE BridgeAssumption DEF TypeOK, Cores, NoCore, Callers, Active, Live, InMain, IInv, LockInv, ThreadInv, FlagInv, RunningIsExact, Holding, Joining, Goto, Becomes, request
<1>1. ASSUME NEW i \in Cores, CoreInit(i), UNCHANGED died PROVE ThreadInv'
  BY <1>1 DEF CoreInit
<1>2. ASSUME NEW i \in Cores, CoreInitDone(i), UNCHANGED died PROVE ThreadInv'
  BY <1>2 DEF CoreInitDone
<1>3. ASSUME NEW i \in Cores, CoreLoopEnds(i), UNCHANGED died PROVE ThreadInv'
  BY <1>3 DEF CoreLoopEnds
<1>4. ASSUME NEW i \in Cores, CoreDrains(i), UNCHANGED died PROVE ThreadInv'
  BY <1>4 DEF CoreDrains
<1>5. ASSUME NEW i \in Cores, CoreDrained(i), UNCHANGED died PROVE ThreadInv'
  BY <1>5 DEF CoreDrained
<1>6. ASSUME NEW i \in Cores, CoreReturns(i), UNCHANGED died PROVE ThreadInv'
  BY <1>6 DEF CoreReturns
<1>7. ASSUME NEW i \in Cores, CoreLeaves(i), UNCHANGED died PROVE ThreadInv'
  BY <1>7 DEF CoreLeaves
<1>8. CASE LaunchEnter /\ UNCHANGED died
  BY <1>8 DEF LaunchEnter, JoinFinished, Finished
<1>9. CASE LaunchJoined /\ UNCHANGED died
  BY <1>9 DEF LaunchJoined, Joined
<1>10. CASE LaunchRefused /\ UNCHANGED died
  BY <1>10 DEF LaunchRefused
<1>11. CASE LaunchCheck /\ UNCHANGED died
  BY <1>11 DEF LaunchCheck
<1>12. CASE LaunchStart /\ UNCHANGED died
  BY <1>12 DEF LaunchStart
<1>13. CASE RequestCheck /\ UNCHANGED died
  BY <1>13 DEF RequestCheck
<1>14. CASE RequestServed /\ UNCHANGED died
  BY <1>14 DEF RequestServed
<1>15. ASSUME NEW c \in Callers, StopCalled(c), UNCHANGED died PROVE ThreadInv'
  BY <1>15 DEF StopCalled
<1>16. ASSUME NEW c \in Callers, StopEnter(c), UNCHANGED died PROVE ThreadInv'
  BY <1>16 DEF StopEnter, JoinFinished, Finished
<1>17. ASSUME NEW c \in Callers, StopJoined(c), UNCHANGED died PROVE ThreadInv'
  BY <1>17, SMTT(30) DEF StopJoined, Joined
<1>18. ASSUME NEW c \in Callers, StopCheck(c), UNCHANGED died PROVE ThreadInv'
  BY <1>18 DEF StopCheck
<1>19. ASSUME NEW c \in Callers, StopRequest(c), UNCHANGED died PROVE ThreadInv'
  BY <1>19, SMTT(30) DEF StopRequest
<1>20. ASSUME NEW c \in Callers, StopWake(c), UNCHANGED died PROVE ThreadInv'
  BY <1>20 DEF StopWake
<1>21. ASSUME NEW c \in Callers, StopClear(c), UNCHANGED died PROVE ThreadInv'
  BY <1>21 DEF StopClear, Finished
<1>22. ASSUME NEW c \in Callers, StopFinish(c), UNCHANGED died PROVE ThreadInv'
  BY <1>22, SMTT(30) DEF StopFinish
<1>23. CASE Dies
  BY <1>23 DEF Dies
<1>24. CASE UNCHANGED vars
  BY <1>24 DEF vars
<1> HIDE BridgeAssumption DEF TypeOK, Cores, NoCore, Callers, Active, Live, InMain, IInv, LockInv, ThreadInv, FlagInv, RunningIsExact, Holding, Joining, Goto, Becomes, request
<1>25. QED
  BY <1>1, <1>2, <1>3, <1>4, <1>5, <1>6, <1>7, <1>8, <1>9, <1>10, <1>11, <1>12,
     <1>13, <1>14, <1>15, <1>16, <1>17, <1>18, <1>19, <1>20, <1>21, <1>22, <1>23, <1>24
  DEF Next, Step, CoreStep, UiStep, StopStep

(* The running flag.                                                       *)
LEMMA FlagKept ==
  ASSUME IInv, [Next]_vars
  PROVE  FlagInv'
<1> USE BridgeAssumption DEF TypeOK, Cores, NoCore, Callers, Active, Live, InMain, IInv, LockInv, ThreadInv, FlagInv, RunningIsExact, Holding, Joining, Goto, Becomes, request
<1>1. ASSUME NEW i \in Cores, CoreInit(i), UNCHANGED died PROVE FlagInv'
  BY <1>1 DEF CoreInit
<1>2. ASSUME NEW i \in Cores, CoreInitDone(i), UNCHANGED died PROVE FlagInv'
  BY <1>2 DEF CoreInitDone
<1>3. ASSUME NEW i \in Cores, CoreLoopEnds(i), UNCHANGED died PROVE FlagInv'
  BY <1>3 DEF CoreLoopEnds
<1>4. ASSUME NEW i \in Cores, CoreDrains(i), UNCHANGED died PROVE FlagInv'
  BY <1>4 DEF CoreDrains
<1>5. ASSUME NEW i \in Cores, CoreDrained(i), UNCHANGED died PROVE FlagInv'
  BY <1>5 DEF CoreDrained
<1>6. ASSUME NEW i \in Cores, CoreReturns(i), UNCHANGED died PROVE FlagInv'
  BY <1>6 DEF CoreReturns
<1>7. ASSUME NEW i \in Cores, CoreLeaves(i), UNCHANGED died PROVE FlagInv'
  BY <1>7 DEF CoreLeaves
<1>8. CASE LaunchEnter /\ UNCHANGED died
  BY <1>8 DEF LaunchEnter, JoinFinished, Finished
<1>9. CASE LaunchJoined /\ UNCHANGED died
  BY <1>9 DEF LaunchJoined, Joined
<1>10. CASE LaunchRefused /\ UNCHANGED died
  BY <1>10 DEF LaunchRefused
<1>11. CASE LaunchCheck /\ UNCHANGED died
  BY <1>11 DEF LaunchCheck
<1>12. CASE LaunchStart /\ UNCHANGED died
  BY <1>12 DEF LaunchStart
<1>13. CASE RequestCheck /\ UNCHANGED died
  BY <1>13 DEF RequestCheck
<1>14. CASE RequestServed /\ UNCHANGED died
  BY <1>14 DEF RequestServed
<1>15. ASSUME NEW c \in Callers, StopCalled(c), UNCHANGED died PROVE FlagInv'
  BY <1>15 DEF StopCalled
<1>16. ASSUME NEW c \in Callers, StopEnter(c), UNCHANGED died PROVE FlagInv'
  BY <1>16 DEF StopEnter, JoinFinished, Finished
<1>17. ASSUME NEW c \in Callers, StopJoined(c), UNCHANGED died PROVE FlagInv'
  BY <1>17 DEF StopJoined, Joined
<1>18. ASSUME NEW c \in Callers, StopCheck(c), UNCHANGED died PROVE FlagInv'
  BY <1>18 DEF StopCheck
<1>19. ASSUME NEW c \in Callers, StopRequest(c), UNCHANGED died PROVE FlagInv'
  BY <1>19 DEF StopRequest
<1>20. ASSUME NEW c \in Callers, StopWake(c), UNCHANGED died PROVE FlagInv'
  BY <1>20 DEF StopWake
<1>21. ASSUME NEW c \in Callers, StopClear(c), UNCHANGED died PROVE FlagInv'
  BY <1>21 DEF StopClear, Finished
<1>22. ASSUME NEW c \in Callers, StopFinish(c), UNCHANGED died PROVE FlagInv'
  BY <1>22 DEF StopFinish
<1>23. CASE Dies
  BY <1>23 DEF Dies
<1>24. CASE UNCHANGED vars
  BY <1>24 DEF vars
<1> HIDE BridgeAssumption DEF TypeOK, Cores, NoCore, Callers, Active, Live, InMain, IInv, LockInv, ThreadInv, FlagInv, RunningIsExact, Holding, Joining, Goto, Becomes, request
<1>25. QED
  BY <1>1, <1>2, <1>3, <1>4, <1>5, <1>6, <1>7, <1>8, <1>9, <1>10, <1>11, <1>12,
     <1>13, <1>14, <1>15, <1>16, <1>17, <1>18, <1>19, <1>20, <1>21, <1>22, <1>23, <1>24
  DEF Next, Step, CoreStep, UiStep, StopStep

(* Launches in order.                                                      *)
LEMMA StartKept ==
  ASSUME IInv, [Next]_vars
  PROVE  StartInv'
<1> USE BridgeAssumption DEF TypeOK, Cores, NoCore, Callers, Active, Live, InMain, IInv, LockInv, FlagInv, StartInv, DiesOnlyInFirstStart, RunningIsExact, Holding, Goto, Becomes, request
<1>1. ASSUME NEW i \in Cores, CoreInit(i), UNCHANGED died PROVE StartInv'
  <2>1. bqlInitialized' /\ \A j \in Cores : core[j] # "none" <=> core'[j] # "none"
    BY <1>1 DEF CoreInit
  <2>2. pc' = pc /\ died' = died
    BY <1>1 DEF CoreInit
  <2>3. died = "no"
    BY <1>1 DEF Next, CoreInit, vars
  <2>4. QED
    BY <2>1, <2>2, <2>3
<1>2. ASSUME NEW i \in Cores, CoreInitDone(i), UNCHANGED died PROVE StartInv'
  BY <1>2 DEF CoreInitDone
<1>3. ASSUME NEW i \in Cores, CoreLoopEnds(i), UNCHANGED died PROVE StartInv'
  BY <1>3 DEF CoreLoopEnds
<1>4. ASSUME NEW i \in Cores, CoreDrains(i), UNCHANGED died PROVE StartInv'
  BY <1>4 DEF CoreDrains
<1>5. ASSUME NEW i \in Cores, CoreDrained(i), UNCHANGED died PROVE StartInv'
  BY <1>5 DEF CoreDrained
<1>6. ASSUME NEW i \in Cores, CoreReturns(i), UNCHANGED died PROVE StartInv'
  BY <1>6 DEF CoreReturns
<1>7. ASSUME NEW i \in Cores, CoreLeaves(i), UNCHANGED died PROVE StartInv'
  BY <1>7 DEF CoreLeaves
<1>8. CASE LaunchEnter /\ UNCHANGED died
  BY <1>8 DEF LaunchEnter, JoinFinished, Finished
<1>9. CASE LaunchJoined /\ UNCHANGED died
  BY <1>9 DEF LaunchJoined, Joined
<1>10. CASE LaunchRefused /\ UNCHANGED died
  BY <1>10 DEF LaunchRefused
<1>11. CASE LaunchCheck /\ UNCHANGED died
  BY <1>11 DEF LaunchCheck
<1>12. CASE LaunchStart /\ UNCHANGED died
  BY <1>12 DEF LaunchStart
<1>13. CASE RequestCheck /\ UNCHANGED died
  BY <1>13 DEF RequestCheck
<1>14. CASE RequestServed /\ UNCHANGED died
  BY <1>14 DEF RequestServed
<1>15. ASSUME NEW c \in Callers, StopCalled(c), UNCHANGED died PROVE StartInv'
  BY <1>15 DEF StopCalled
<1>16. ASSUME NEW c \in Callers, StopEnter(c), UNCHANGED died PROVE StartInv'
  BY <1>16 DEF StopEnter, JoinFinished, Finished
<1>17. ASSUME NEW c \in Callers, StopJoined(c), UNCHANGED died PROVE StartInv'
  BY <1>17 DEF StopJoined, Joined
<1>18. ASSUME NEW c \in Callers, StopCheck(c), UNCHANGED died PROVE StartInv'
  BY <1>18 DEF StopCheck
<1>19. ASSUME NEW c \in Callers, StopRequest(c), UNCHANGED died PROVE StartInv'
  BY <1>19 DEF StopRequest
<1>20. ASSUME NEW c \in Callers, StopWake(c), UNCHANGED died PROVE StartInv'
  BY <1>20 DEF StopWake
<1>21. ASSUME NEW c \in Callers, StopClear(c), UNCHANGED died PROVE StartInv'
  BY <1>21 DEF StopClear, Finished
<1>22. ASSUME NEW c \in Callers, StopFinish(c), UNCHANGED died PROVE StartInv'
  BY <1>22 DEF StopFinish
<1>23. CASE Dies
  BY <1>23 DEF Dies
<1>24. CASE UNCHANGED vars
  BY <1>24 DEF vars
<1> HIDE BridgeAssumption DEF TypeOK, Cores, NoCore, Callers, Active, Live, InMain, IInv, LockInv, FlagInv, StartInv, DiesOnlyInFirstStart, RunningIsExact, Holding, Goto, Becomes, request
<1>25. QED
  BY <1>1, <1>2, <1>3, <1>4, <1>5, <1>6, <1>7, <1>8, <1>9, <1>10, <1>11, <1>12,
     <1>13, <1>14, <1>15, <1>16, <1>17, <1>18, <1>19, <1>20, <1>21, <1>22, <1>23, <1>24
  DEF Next, Step, CoreStep, UiStep, StopStep

(* The shutdown request.                                                   *)
LEMMA RequestKept ==
  ASSUME IInv, [Next]_vars
  PROVE  RequestInv'
<1> USE BridgeAssumption DEF TypeOK, Cores, NoCore, Callers, Active, Live, InMain, IInv, ThreadInv, FlagInv, LockInv, RequestInv, RunningIsExact, Holding, Starting, NoRequest, Goto, Becomes, request
<1>1. ASSUME NEW i \in Cores, CoreInit(i), UNCHANGED died PROVE RequestInv'
  BY <1>1 DEF CoreInit
<1>2. ASSUME NEW i \in Cores, CoreInitDone(i), UNCHANGED died PROVE RequestInv'
  BY <1>2 DEF CoreInitDone
<1>3. ASSUME NEW i \in Cores, CoreLoopEnds(i), UNCHANGED died PROVE RequestInv'
  BY <1>3 DEF CoreLoopEnds
<1>4. ASSUME NEW i \in Cores, CoreDrains(i), UNCHANGED died PROVE RequestInv'
  BY <1>4 DEF CoreDrains
<1>5. ASSUME NEW i \in Cores, CoreDrained(i), UNCHANGED died PROVE RequestInv'
  BY <1>5 DEF CoreDrained
<1>6. ASSUME NEW i \in Cores, CoreReturns(i), UNCHANGED died PROVE RequestInv'
  BY <1>6 DEF CoreReturns
<1>7. ASSUME NEW i \in Cores, CoreLeaves(i), UNCHANGED died PROVE RequestInv'
  BY <1>7 DEF CoreLeaves
<1>8. CASE LaunchEnter /\ UNCHANGED died
  BY <1>8 DEF LaunchEnter, JoinFinished, Finished
<1>9. CASE LaunchJoined /\ UNCHANGED died
  BY <1>9 DEF LaunchJoined, Joined
<1>10. CASE LaunchRefused /\ UNCHANGED died
  BY <1>10 DEF LaunchRefused
<1>11. CASE LaunchCheck /\ UNCHANGED died
  BY <1>11 DEF LaunchCheck
<1>12. CASE LaunchStart /\ UNCHANGED died
  BY <1>12 DEF LaunchStart
<1>13. CASE RequestCheck /\ UNCHANGED died
  BY <1>13 DEF RequestCheck
<1>14. CASE RequestServed /\ UNCHANGED died
  BY <1>14 DEF RequestServed
<1>15. ASSUME NEW c \in Callers, StopCalled(c), UNCHANGED died PROVE RequestInv'
  BY <1>15 DEF StopCalled
<1>16. ASSUME NEW c \in Callers, StopEnter(c), UNCHANGED died PROVE RequestInv'
  BY <1>16 DEF StopEnter, JoinFinished, Finished
<1>17. ASSUME NEW c \in Callers, StopJoined(c), UNCHANGED died PROVE RequestInv'
  BY <1>17 DEF StopJoined, Joined
<1>18. ASSUME NEW c \in Callers, StopCheck(c), UNCHANGED died PROVE RequestInv'
  BY <1>18 DEF StopCheck
<1>19. ASSUME NEW c \in Callers, StopRequest(c), UNCHANGED died PROVE RequestInv'
  BY <1>19, SMTT(30) DEF StopRequest
<1>20. ASSUME NEW c \in Callers, StopWake(c), UNCHANGED died PROVE RequestInv'
  BY <1>20 DEF StopWake
<1>21. ASSUME NEW c \in Callers, StopClear(c), UNCHANGED died PROVE RequestInv'
  BY <1>21 DEF StopClear, Finished
<1>22. ASSUME NEW c \in Callers, StopFinish(c), UNCHANGED died PROVE RequestInv'
  BY <1>22, SMTT(30) DEF StopFinish
<1>23. CASE Dies
  BY <1>23 DEF Dies
<1>24. CASE UNCHANGED vars
  BY <1>24 DEF vars
<1> HIDE BridgeAssumption DEF TypeOK, Cores, NoCore, Callers, Active, Live, InMain, IInv, ThreadInv, FlagInv, LockInv, RequestInv, RunningIsExact, Holding, Starting, NoRequest, Goto, Becomes, request
<1>25. QED
  BY <1>1, <1>2, <1>3, <1>4, <1>5, <1>6, <1>7, <1>8, <1>9, <1>10, <1>11, <1>12,
     <1>13, <1>14, <1>15, <1>16, <1>17, <1>18, <1>19, <1>20, <1>21, <1>22, <1>23, <1>24
  DEF Next, Step, CoreStep, UiStep, StopStep

-----------------------------------------------------------------------------
(* The invariant holds initially and is kept.                              *)
LEMMA InitIInv == Init => IInv
<1> SUFFICES ASSUME Init PROVE IInv
  OBVIOUS
<1> USE BridgeAssumption
<1>1. pc \in [Callers -> {"idle"}] /\ core \in [Cores -> {"none"}] /\ finished \in [Callers -> {NoCore}]
  BY DEF Init
<1>2. requestedIn \in [core : Cores \cup {NoCore}, late : BOOLEAN]
  BY DEF Init, NoRequest
<1>3. TypeOK
  BY <1>1, <1>2, ZenonT(30) DEF Init, TypeOK
<1>4. LockInv /\ ThreadInv
  BY <1>1 DEF Init, LockInv, ThreadInv, Callers, Holding, Joining, Active, Live, InMain
<1>5. FlagInv /\ StartInv /\ RequestInv
  BY <1>1 DEF Init, FlagInv, StartInv, RequestInv, RunningIsExact, DiesOnlyInFirstStart, Callers, Active, InMain
<1>6. QED
  BY <1>3, <1>4, <1>5 DEF IInv

(* Every step of a launch, a stop, a request and the core preserves the    *)
(* whole invariant.                                                        *)
LEMMA NextIInv == IInv /\ [Next]_vars => IInv'
BY TypesKept, LockKept, ThreadKept, FlagKept, StartKept, RequestKept DEF IInv

(* The invariant holds in every state the bridge can get into.             *)
LEMMA Invariant == Spec => []IInv
BY InitIInv, NextIInv, PTL DEF Spec

(* Whatever launches, stops and endings of cores interleave, at most one   *)
(* core lives, every thread has one owner, the running flag is exact and a *)
(* join never waits for a live core (nativeLaunch, nativeStop,             *)
(* join_finished_core_locked, xemu_thread_main).                           *)
THEOREM BridgeConsistent == Spec => []BridgeInv
<1>1. IInv => BridgeInv
  <2> SUFFICES ASSUME IInv PROVE BridgeInv
    OBVIOUS
  <2> USE DEF IInv, ThreadInv, FlagInv
  <2>1. OneCore
    BY DEF OneCore
  <2>2. OneOwner
    <3> SUFFICES ASSUME NEW i \in Cores, core[i] \in Live
                 PROVE  \/ handle = i /\ \A c \in Callers : finished[c] # i
                        \/ handle # i /\ \E c \in Callers : \A d \in Callers : finished[d] = i <=> d = c
      BY DEF OneOwner
    <3>1. i # NoCore
      BY DEF Cores, NoCore
    <3>2. CASE handle = i
      BY <3>1, <3>2
    <3>3. CASE handle # i
      <4>1. core[i] = "ended"
        BY <3>3 DEF Live
      <4>2. PICK c \in Callers : finished[c] = i
        BY <3>3, <4>1
      <4>3. QED
        BY <3>1, <3>3, <4>2
    <3>4. QED
      BY <3>2, <3>3
  <2>3. JoinNeverWaits
    BY DEF JoinNeverWaits
  <2>4. QED
    BY <2>1, <2>2, <2>3 DEF BridgeInv
<1>2. QED
  BY <1>1, Invariant, PTL

(* No launch terminates the process, and no request finds the BQL          *)
(* uninitialised once the first core has been started.                     *)
THEOREM DeathsOnlyInFirstStart == Spec => []DiesOnlyInFirstStart
<1>1. IInv => DiesOnlyInFirstStart
  BY DEF IInv, StartInv
<1>2. QED
  BY <1>1, Invariant, PTL

(* A shutdown request that a core finds pending was posted to it, or too   *)
(* late for its predecessor to take it.                                    *)
THEOREM RequestsAreOurs == Spec => []RequestIsOurs
<1>1. IInv => RequestIsOurs
  <2> SUFFICES ASSUME IInv, NEW i \in Cores, shutdownRequested, core[i] \in Starting, ~requestedIn.late
               PROVE  requestedIn.core = i
    BY DEF RequestIsOurs
  <2>1. requestedIn.core \in Cores /\ core[requestedIn.core] \in Active
    BY DEF IInv, RequestInv, Starting, Active, InMain
  <2>2. core[i] \in Active
    BY DEF Starting, Active, InMain
  <2>3. QED
    BY <2>1, <2>2 DEF IInv, ThreadInv
<1>2. QED
  BY <1>1, Invariant, PTL
=============================================================================
