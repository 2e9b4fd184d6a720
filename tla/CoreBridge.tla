----------------------------- MODULE CoreBridge -----------------------------
(***************************************************************************)
(* The life of the emulator core as the JNI bridge manages it              *)
(* (android_backend.cpp): nativeLaunch on the Android UI thread,           *)
(* nativeStop on "xbox-core-stop" threads and, from onDestroy, on the UI   *)
(* thread, the unlocked running check of nativePause and nativeResume, and *)
(* the core thread from creation to its last line.                         *)
(*                                                                         *)
(* g_lock guards the thread handle and the running flag; the requests to   *)
(* the core take the BQL, in nativeStop with g_lock still held.            *)
(***************************************************************************)
EXTENDS Naturals, FiniteSets

CONSTANTS UI,           \* the Android UI thread
          Stoppers,     \* threads that stopCoreAsync may start
          MaxLaunches,  \* bound on the cores launched in one process
          NoOwner       \* no caller

ASSUME BridgeAssumption == 
    /\ UI \notin Stoppers /\ NoOwner \notin Stoppers \cup {UI}
    /\ MaxLaunches \in Nat

Callers == Stoppers \cup {UI}
Cores == 1..MaxLaunches
NoCore == 0

VARIABLES
    gLock,              \* owner of g_lock
    bql,                \* the core that holds the BQL
    bqlInitialized,     \* qemu_init_cpu_loop has run in this process
    running,            \* g_xemu_running
    handle,             \* the core g_xemu_thread is joinable for
    core,               \* where each core thread is
    shutdownRequested,  \* shutdown_requested, a global no launch resets
    requestedIn,        \* history: the core it was posted to, and if that had left its loop
    pc, finished,       \* each caller: where it is, the thread it took to join
    died                \* the process ended by std::terminate or an assertion

request == <<shutdownRequested, requestedIn>>
vars == <<gLock, bql, bqlInitialized, running, handle, core, request, pc, finished, died>>

InMain == {"init", "loop", "cleanup", "drain", "cleaned"}
Active == InMain \cup {"created", "leaving"}
Live == Active \cup {"ended"}
NoRequest == [core |-> NoCore, late |-> FALSE]

(* Types.                                                                  *)
TypeOK ==
    /\ gLock \in Callers \cup {NoOwner}
    /\ bql \in Cores \cup {NoCore}
    /\ bqlInitialized \in BOOLEAN /\ running \in BOOLEAN /\ shutdownRequested \in BOOLEAN
    /\ handle \in Cores \cup {NoCore}
    /\ core \in [Cores -> Live \cup {"none", "joined"}]
    /\ pc \in [Callers -> {"idle", "launchJoin", "launchCheck", "launchStart", "request",
                           "stopEnter", "stopJoin", "stopCheck", "stopRequest", "stopWait",
                           "stopClear", "stopFinish"}]
    /\ finished \in [Callers -> Cores \cup {NoCore}]
    /\ requestedIn \in [core : Cores \cup {NoCore}, late : BOOLEAN]
    /\ died \in {"no", "terminate", "assert"}

Init ==
    /\ gLock = NoOwner /\ bql = NoCore /\ bqlInitialized = FALSE
    /\ running = FALSE /\ handle = NoCore
    /\ core = [i \in Cores |-> "none"]
    /\ shutdownRequested = FALSE /\ requestedIn = NoRequest
    /\ pc = [c \in Callers |-> "idle"]
    /\ finished = [c \in Callers |-> NoCore]
    /\ died = "no"

Goto(c, label) == pc' = [pc EXCEPT ![c] = label]
Becomes(i, phase) == core' = [core EXCEPT ![i] = phase]

-----------------------------------------------------------------------------
(* The core thread: xemu_thread_main around xemu_android_main.             *)

CoreInit(i) ==
    /\ core[i] = "created" /\ bql = NoCore
    /\ Becomes(i, "init")
    /\ bql' = i /\ bqlInitialized' = TRUE
    /\ UNCHANGED <<gLock, running, handle, request, pc, finished>>

CoreInitDone(i) ==
    /\ core[i] = "init"
    /\ Becomes(i, "loop")
    /\ bql' = NoCore
    /\ UNCHANGED <<gLock, bqlInitialized, running, handle, request, pc, finished>>

(* Mutant: the request is looked at but not cleared.                       *)
CoreLoopEnds_KeepsRequest(i) ==
    /\ core[i] = "loop" /\ bql = NoCore
    /\ Becomes(i, "cleanup")
    /\ bql' = i
    /\ UNCHANGED <<gLock, bqlInitialized, running, handle, request, pc, finished>>

(* The main loop takes a shutdown request, or the guest powers off.        *)
CoreLoopEnds(i) ==
    /\ core[i] = "loop" /\ bql = NoCore
    /\ Becomes(i, "cleanup")
    /\ bql' = i
    /\ shutdownRequested' = FALSE /\ requestedIn' = NoRequest
    /\ UNCHANGED <<gLock, bqlInitialized, running, handle, pc, finished>>

(* qemu_cleanup drops the BQL while it waits for the vCPUs and devices.    *)
CoreDrains(i) ==
    /\ core[i] = "cleanup"
    /\ Becomes(i, "drain")
    /\ bql' = NoCore
    /\ UNCHANGED <<gLock, bqlInitialized, running, handle, request, pc, finished>>

CoreDrained(i) ==
    /\ core[i] = "drain" /\ bql = NoCore
    /\ Becomes(i, "cleaned")
    /\ bql' = i
    /\ UNCHANGED <<gLock, bqlInitialized, running, handle, request, pc, finished>>

(* Mutant: the running flag is cleared before the thread leaves.           *)
CoreReturns_ClearsEarly(i) ==
    /\ core[i] = "cleaned"
    /\ Becomes(i, "leaving")
    /\ bql' = NoCore /\ running' = FALSE
    /\ UNCHANGED <<gLock, bqlInitialized, handle, request, pc, finished>>

(* Mutant: the flag is cleared without g_lock.                             *)
CoreReturns_StoresUnlocked(i) ==
    /\ core[i] = "cleaned"
    /\ Becomes(i, "ended")
    /\ bql' = NoCore /\ running' = FALSE
    /\ UNCHANGED <<gLock, bqlInitialized, handle, request, pc, finished>>

(* Mutant: the BQL is kept past the end of xemu_android_main.              *)
CoreReturns_KeepsBql(i) ==
    /\ core[i] = "cleaned"
    /\ Becomes(i, "leaving")
    /\ UNCHANGED <<gLock, bql, bqlInitialized, running, handle, request, pc, finished>>

CoreReturns(i) ==
    /\ core[i] = "cleaned"
    /\ Becomes(i, "leaving")
    /\ bql' = NoCore
    /\ UNCHANGED <<gLock, bqlInitialized, running, handle, request, pc, finished>>

(* g_xemu_running is cleared under g_lock and the waiters are notified.    *)
CoreLeaves(i) ==
    /\ core[i] = "leaving" /\ gLock = NoOwner
    /\ Becomes(i, "ended")
    /\ running' = FALSE
    /\ UNCHANGED <<gLock, bql, bqlInitialized, handle, request, pc, finished>>

CoreStep(i) ==
    \/ CoreInit(i) \/ CoreInitDone(i) \/ CoreLoopEnds(i) \/ CoreDrains(i)
    \/ CoreDrained(i) \/ CoreReturns(i) \/ CoreLeaves(i)

-----------------------------------------------------------------------------
(* join_finished_core_locked, called by c with g_lock just taken: a core   *)
(* that has ended is moved out of g_xemu_thread and joined with the lock   *)
(* dropped; the caller goes on at label.                                   *)

Finished == ~running /\ handle # NoCore

JoinFinished(c, joining, label) ==
    \/ /\ Finished
       /\ finished' = [finished EXCEPT ![c] = handle]
       /\ handle' = NoCore
       /\ gLock' = NoOwner
       /\ Goto(c, joining)
    \/ /\ ~Finished
       /\ gLock' = c
       /\ Goto(c, label)
       /\ UNCHANGED <<handle, finished>>

(* The join returns when the thread has ended; g_lock is taken again.      *)
Joined(c, joining, label) ==
    /\ pc[c] = joining
    /\ core[finished[c]] = "ended"
    /\ gLock = NoOwner
    /\ gLock' = c
    /\ Becomes(finished[c], "joined")
    /\ finished' = [finished EXCEPT ![c] = NoCore]
    /\ Goto(c, label)
    /\ UNCHANGED <<bql, bqlInitialized, running, handle, request>>

-----------------------------------------------------------------------------
(* nativeLaunch, on the UI thread.                                         *)

LaunchEnter ==
    /\ pc[UI] = "idle" /\ gLock = NoOwner
    /\ JoinFinished(UI, "launchJoin", "launchCheck")
    /\ UNCHANGED <<bql, bqlInitialized, running, core, request>>

LaunchJoined == Joined(UI, "launchJoin", "launchCheck")

(* A missing file, a core already running or a failed dup: no launch.      *)
LaunchRefused ==
    /\ pc[UI] = "launchCheck"
    /\ gLock' = NoOwner
    /\ Goto(UI, "idle")
    /\ UNCHANGED <<bql, bqlInitialized, running, handle, core, request, finished>>

LaunchCheck ==
    /\ pc[UI] = "launchCheck" /\ ~running
    /\ \E i \in Cores : core[i] = "none"   \* bound: MaxLaunches
    /\ running' = TRUE
    /\ Goto(UI, "launchStart")
    /\ UNCHANGED <<gLock, bql, bqlInitialized, handle, core, request, finished>>

(* Assigning to a std::thread that is still joinable terminates.           *)
LaunchStart ==
    /\ pc[UI] = "launchStart" /\ handle = NoCore
    /\ \E i \in Cores :
          /\ core[i] = "none"
          /\ \A j \in Cores : j < i => core[j] # "none"
          /\ handle' = i
          /\ Becomes(i, "created")
    /\ gLock' = NoOwner
    /\ Goto(UI, "idle")
    /\ UNCHANGED <<bql, bqlInitialized, running, request, finished>>

-----------------------------------------------------------------------------
(* nativeStop, called by c.                                                *)

(* Stop and Quit in the activity start a thread; onDestroy calls it.       *)
StopCalled(c) ==
    /\ pc[UI] = "idle" /\ pc[c] = "idle"
    /\ Goto(c, "stopEnter")
    /\ UNCHANGED <<gLock, bql, bqlInitialized, running, handle, core, request, finished>>

StopEnter(c) ==
    /\ pc[c] = "stopEnter" /\ gLock = NoOwner
    /\ JoinFinished(c, "stopJoin", "stopCheck")
    /\ UNCHANGED <<bql, bqlInitialized, running, core, request>>

StopJoined(c) == Joined(c, "stopJoin", "stopCheck")

StopCheck(c) ==
    /\ pc[c] = "stopCheck"
    /\ Goto(c, IF running THEN "stopRequest" ELSE "stopClear")
    /\ UNCHANGED <<gLock, bql, bqlInitialized, running, handle, core, request, finished>>

(* xemu_android_request_shutdown, then the wait, which releases g_lock.    *)
StopRequest(c) ==
    /\ pc[c] = "stopRequest" /\ bqlInitialized /\ bql = NoCore
    /\ shutdownRequested' = TRUE
    /\ requestedIn' = [core |-> handle, late |-> core[handle] \in {"drain", "leaving"}]
    /\ gLock' = NoOwner
    /\ Goto(c, "stopWait")
    /\ UNCHANGED <<bql, bqlInitialized, running, handle, core, finished>>

(* Notified, or timed out with the core still running.                     *)
StopWake(c) ==
    /\ pc[c] = "stopWait" /\ gLock = NoOwner
    /\ gLock' = c
    /\ Goto(c, "stopClear")
    /\ UNCHANGED <<bql, bqlInitialized, running, handle, core, request, finished>>

(* Mutant: g_lock is kept.                                                 *)
StopClear_KeepsLock(c) ==
    /\ pc[c] = "stopClear"
    /\ Goto(c, "idle")
    /\ UNCHANGED <<gLock, bql, bqlInitialized, running, handle, core, request, finished>>

(* Input, GL and window are cleared; a finished core is taken to join.     *)
StopClear(c) ==
    /\ pc[c] = "stopClear"
    /\ gLock' = NoOwner
    /\ \/ /\ Finished
          /\ finished' = [finished EXCEPT ![c] = handle]
          /\ handle' = NoCore
          /\ Goto(c, "stopFinish")
       \/ /\ ~Finished
          /\ Goto(c, "idle")
          /\ UNCHANGED <<handle, finished>>
    /\ UNCHANGED <<bql, bqlInitialized, running, core, request>>

StopFinish(c) ==
    /\ pc[c] = "stopFinish"
    /\ core[finished[c]] = "ended"
    /\ Becomes(finished[c], "joined")
    /\ finished' = [finished EXCEPT ![c] = NoCore]
    /\ Goto(c, "idle")
    /\ UNCHANGED <<gLock, bql, bqlInitialized, running, handle, request>>

StopStep(c) ==
    \/ StopEnter(c) \/ StopJoined(c) \/ StopCheck(c) \/ StopRequest(c)
    \/ StopWake(c) \/ StopClear(c) \/ StopFinish(c)

-----------------------------------------------------------------------------
(* nativePause and nativeResume: the flag is read without g_lock.          *)
RequestCheck ==
    /\ pc[UI] = "idle" /\ running
    /\ Goto(UI, "request")
    /\ UNCHANGED <<gLock, bql, bqlInitialized, running, handle, core, request, finished>>

RequestServed ==
    /\ pc[UI] = "request" /\ bqlInitialized /\ bql = NoCore
    /\ Goto(UI, "idle")
    /\ UNCHANGED <<gLock, bql, bqlInitialized, running, handle, core, request, finished>>

(* The two ways this protocol can end the process.                         *)
Dies ==
    /\ \/ /\ pc[UI] = "launchStart" /\ handle # NoCore
          /\ died' = "terminate"
       \/ /\ \E c \in Callers : pc[c] \in {"request", "stopRequest"} /\ ~bqlInitialized
          /\ died' = "assert"
    /\ UNCHANGED <<gLock, bql, bqlInitialized, running, handle, core, request, pc, finished>>

UiStep == LaunchJoined \/ LaunchRefused \/ LaunchCheck \/ LaunchStart \/ RequestServed

Step ==
    \/ \E i \in Cores : CoreStep(i)
    \/ LaunchEnter \/ RequestCheck \/ UiStep
    \/ \E c \in Callers : StopCalled(c) \/ StopStep(c)

Next == died = "no" /\ ((Step /\ UNCHANGED died) \/ Dies)

Spec == Init /\ [][Next]_vars

(* Threads blocked on a contended lock get it in the end; the main loop    *)
(* takes a pending shutdown request.  Nothing makes the guest power off,   *)
(* the user act, or a launch succeed.                                      *)
FairSpec ==
    /\ Spec
    /\ \A i \in Cores :
          /\ WF_vars(died = "no" /\ (CoreInit(i) \/ CoreInitDone(i) \/ CoreDrains(i)
                                     \/ CoreDrained(i) \/ CoreReturns(i)) /\ UNCHANGED died)
          /\ WF_vars(died = "no" /\ shutdownRequested /\ CoreLoopEnds(i) /\ UNCHANGED died)
          /\ SF_vars(died = "no" /\ CoreLeaves(i) /\ UNCHANGED died)
    /\ \A c \in Callers : SF_vars(died = "no" /\ StopStep(c) /\ UNCHANGED died)
    /\ SF_vars(died = "no" /\ UiStep /\ UNCHANGED died)

-----------------------------------------------------------------------------
(* At most one core is between the creation of its thread and the end of   *)
(* qemu_cleanup: the emulator's globals belong to one core at a time.      *)
OneCore ==
    \A i, j \in Cores : {core[i], core[j]} \subseteq Active => i = j

(* Every core thread that has not been joined has exactly one owner,       *)
(* g_xemu_thread or one caller about to join it: none is joined twice and  *)
(* none is dropped while joinable.                                         *)
OneOwner ==
    \A i \in Cores : core[i] \in Live =>
        \/ handle = i /\ \A c \in Callers : finished[c] # i
        \/ handle # i /\ \E c \in Callers : \A d \in Callers : finished[d] = i <=> d = c

(* g_xemu_running says exactly whether a core has been started that has    *)
(* not finished its cleanup; pause, resume and stop act on it.             *)
RunningIsExact ==
    running <=> \/ pc[UI] = "launchStart"
                \/ \E i \in Cores : core[i] \in Active

(* A thread taken out for join has run its last line: neither nativeLaunch *)
(* nor nativeStop, whose wait is bounded, waits for a live core in a join. *)
JoinNeverWaits ==
    \A c \in Callers : finished[c] # NoCore => core[finished[c]] = "ended"

(* The bridge's state is consistent between any two steps of launches,     *)
(* stops and the core's own end (nativeLaunch, nativeStop,                 *)
(* join_finished_core_locked, xemu_thread_main).                           *)
BridgeInv == TypeOK /\ OneCore /\ OneOwner /\ RunningIsExact /\ JoinNeverWaits

(* nativeLaunch never assigns over a joinable g_xemu_thread, and a request *)
(* that locks the BQL before qemu_init_cpu_loop has initialised it, which  *)
(* the assertion in qemu_mutex_lock_impl forbids, can only be made while   *)
(* the first core of the process is being started.                         *)
DiesOnlyInFirstStart == died # "no" => died = "assert" /\ core[1] = "created"

Starting == {"created", "init", "loop"}

(* A core meets no shutdown request older than itself, although            *)
(* shutdown_requested outlives the cores, except one that was posted after *)
(* its predecessor had left the main loop (qemu_system_shutdown_request,   *)
(* main_loop_should_exit).                                                 *)
RequestIsOurs ==
    \A i \in Cores : shutdownRequested /\ core[i] \in Starting =>
        requestedIn.core = i \/ requestedIn.late

(* Every call of the bridge returns, although nativeStop waits for the BQL *)
(* with g_lock held and a leaving core needs g_lock.                       *)
CallsReturn == \A c \in Callers : pc[c] # "idle" ~> (pc[c] = "idle" \/ died # "no")

(* A shutdown request posted while a core is in its main loop ends it.     *)
StopEndsCore ==
    \A i \in Cores : (shutdownRequested /\ core[i] = "loop")
                        ~> (core[i] \in {"ended", "joined"} \/ died # "no")
====
