----------------------------- MODULE Presenter -----------------------------
(***************************************************************************)
(* The path from the Android surface to the screen: the activity's surface *)
(* callbacks (android_backend.cpp), the window they hand to the core       *)
(* (xemu-android-native.c) and the Vulkan presenter that draws into it on  *)
(* the PFIFO thread (pgraph/vk/display.c).                                 *)
(*                                                                         *)
(* A window is reference counted; it dies for the compositor as soon as    *)
(* its surface texture is destroyed.  The UI thread holds g_lock for a     *)
(* whole callback and window_lock only inside set_native_window, so a      *)
(* callback that sets a window is two steps.  The presenter is split at    *)
(* its Vulkan calls.                                                       *)
(***************************************************************************)
EXTENDS Integers

CONSTANTS Windows,       \* native windows the system may create
          NoWindow,      \* NULL
          Images,        \* images of a swapchain
          MaxSurfaces    \* bound on surface callbacks

ASSUME PresenterAssumption ==
    NoWindow \notin Windows /\ Images \in Nat \ {0} /\ MaxSurfaces \in Nat

VARIABLES
    refs,                 \* the reference count of each window
    texture,              \* the window of the activity's Surface
    bridge,               \* g_window
    uiPc, surfaces,       \* the surface callback, how many there were
    window, generation,   \* android_window, window_generation
    pc,                   \* the presenter
    recreate,             \* create_swapchain was called to recreate
    local,                \* its acquired window
    vkWindow,             \* the window of android_surface
    swapchain,            \* swapchain # VK_NULL_HANDLE
    ready, stamp,         \* swapchain_ready, swapchain_window_generation
    imagesHeld,           \* images acquired and not presented
    failures,             \* history: draws that failed on this swapchain
    raced,                \* history: the window changed while the swapchain was created
    shown                 \* history: the window of the last successful present

uiVars == <<texture, bridge, uiPc, surfaces, window, generation>>
images == <<imagesHeld, failures>>
chain == <<vkWindow, swapchain, ready, stamp, images>>
vars == <<refs, uiVars, pc, recreate, local, chain, raced, shown>>

Init ==
    /\ refs = [w \in Windows |-> 0]
    /\ texture = NoWindow /\ bridge = NoWindow /\ uiPc = "idle" /\ surfaces = 0
    /\ window = NoWindow /\ generation = 0
    /\ pc = "idle" /\ recreate = FALSE /\ local = NoWindow
    /\ vkWindow = NoWindow /\ swapchain = FALSE /\ ready = FALSE /\ stamp = 0
    /\ imagesHeld = 0 /\ failures = 0 /\ raced = FALSE
    /\ shown = NoWindow

(* refs after releasing and acquiring references, NULLs excepted.          *)
One(w, v) == IF w = v THEN 1 ELSE 0
Move(released, acquired) ==
    refs' = [w \in Windows |-> refs[w] - One(w, released) + One(w, acquired)]

Free(w) == refs[w] = 0

-----------------------------------------------------------------------------
(* The UI thread                                                           *)

(* A new texture, or a change of the current one's size: the bridge gives  *)
(* up its window and takes the surface's.                                  *)
SurfaceCreated(w) ==
    /\ uiPc = "idle" /\ surfaces < MaxSurfaces
    /\ w = texture \/ (texture = NoWindow /\ Free(w))
    /\ surfaces' = surfaces + 1
    /\ texture' = w /\ bridge' = w
    /\ refs' = [v \in Windows |-> refs[v] - One(v, texture) - One(v, bridge) + 2 * One(v, w)]
    /\ uiPc' = "set"
    /\ UNCHANGED <<window, generation, pc, recreate, local, chain, raced, shown>>

(* ANativeWindow_fromSurface returns NULL: the core keeps what it had.      *)
SurfaceCreatedFails(w) ==
    /\ uiPc = "idle" /\ surfaces < MaxSurfaces
    /\ w = texture \/ (texture = NoWindow /\ Free(w))
    /\ surfaces' = surfaces + 1
    /\ texture' = w /\ bridge' = NoWindow
    /\ refs' = [v \in Windows |-> refs[v] - One(v, texture) - One(v, bridge) + One(v, w)]
    /\ UNCHANGED <<uiPc, window, generation, pc, recreate, local, chain, raced, shown>>

Creating == pc \in {"surface", "swapchain", "stamp"}

(* Mutant: a change of window is not announced.                            *)
SetNativeWindow_NoGeneration ==
    /\ uiPc = "set"
    /\ Move(window, bridge) /\ window' = bridge
    /\ raced' = (raced \/ Creating)
    /\ uiPc' = "idle"
    /\ UNCHANGED <<generation, texture, bridge, surfaces, pc, recreate, local, chain, shown>>

SetNativeWindow ==
    /\ uiPc = "set"
    /\ Move(window, bridge) /\ window' = bridge
    /\ generation' = generation + 1
    /\ raced' = (raced \/ Creating)
    /\ uiPc' = "idle"
    /\ UNCHANGED <<texture, bridge, surfaces, pc, recreate, local, chain, shown>>

(* The core loses the window if the bridge holds one, then the bridge and  *)
(* the activity give up theirs.                                            *)
SurfaceDestroyed ==
    /\ uiPc = "idle" /\ texture # NoWindow
    /\ bridge' = NoWindow /\ texture' = NoWindow
    /\ IF bridge = NoWindow
       THEN Move(texture, NoWindow) /\ UNCHANGED <<window, generation, raced>>
       ELSE /\ refs' = [v \in Windows |-> refs[v] - One(v, window) - One(v, bridge) - One(v, texture)]
            /\ window' = NoWindow /\ generation' = generation + 1
            /\ raced' = (raced \/ Creating)
    /\ UNCHANGED <<uiPc, surfaces, pc, recreate, local, chain, shown>>

-----------------------------------------------------------------------------
(* The presenter                                                           *)

(* The images go with the swapchain.                                       *)
ForgetImages == imagesHeld' = 0 /\ failures' = 0

DestroySwapchain ==
    vkWindow' = NoWindow /\ swapchain' = FALSE /\ ready' = FALSE /\ ForgetImages /\ UNCHANGED stamp

(* A frame or the placeholder: a swapchain of an earlier window goes.      *)
PresentBegin ==
    /\ pc = "idle"
    /\ recreate' = FALSE
    /\ IF ready /\ stamp # generation
       THEN Move(vkWindow, NoWindow) /\ DestroySwapchain /\ pc' = "create"
       ELSE UNCHANGED <<refs, chain>> /\ pc' = IF ready THEN "acquire" ELSE "create"
    /\ UNCHANGED <<uiVars, local, raced, shown>>

(* Without a window the old swapchain, if any, is left as it is.  The      *)
(* Vulkan procedures are assumed to load: if they did not, the function    *)
(* would return with the acquired reference.                               *)
CreateSwapchain ==
    /\ pc = "create"
    /\ Move(NoWindow, window) /\ local' = window
    /\ raced' = IF window = NoWindow THEN raced ELSE FALSE
    /\ pc' = IF window = NoWindow THEN "idle" ELSE "surface"
    /\ UNCHANGED <<uiVars, recreate, chain, shown>>

(* The old swapchain and surface are destroyed, the new surface takes its  *)
(* own reference, and the acquired one is given back on either outcome.    *)
CreateSurface ==
    /\ pc = "surface"
    /\ local' = NoWindow
    /\ swapchain' = FALSE /\ ready' = FALSE /\ ForgetImages /\ UNCHANGED stamp
    /\ \/ /\ vkWindow' = local /\ pc' = "swapchain"
          /\ Move(vkWindow, NoWindow)
       \/ /\ vkWindow' = NoWindow /\ pc' = "idle"
          /\ refs' = [w \in Windows |-> refs[w] - One(w, vkWindow) - One(w, local)]
    /\ UNCHANGED <<uiVars, recreate, raced, shown>>

(* Mutant: a failure leaves the surface behind.                            *)
CreateImages_KeepsSurface ==
    /\ pc = "swapchain"
    /\ \/ swapchain' = TRUE /\ pc' = "stamp" /\ UNCHANGED <<refs, vkWindow, ready, stamp, images>>
       \/ vkWindow' = NoWindow /\ swapchain' = FALSE /\ ready' = FALSE /\ pc' = "idle" /\ UNCHANGED <<refs, stamp, images>>
    /\ UNCHANGED <<uiVars, recreate, local, raced, shown>>

(* Capabilities, formats and the swapchain itself; any of them may fail.   *)
CreateImages ==
    /\ pc = "swapchain"
    /\ \/ swapchain' = TRUE /\ pc' = "stamp" /\ UNCHANGED <<refs, vkWindow, ready, stamp, images>>
       \/ Move(vkWindow, NoWindow) /\ DestroySwapchain /\ pc' = "idle"
    /\ UNCHANGED <<uiVars, recreate, local, raced, shown>>

(* The generation is read when everything is done.                         *)
CreateDone ==
    /\ pc = "stamp"
    /\ ready' = TRUE /\ stamp' = generation
    /\ pc' = IF recreate THEN "idle" ELSE "acquire"
    /\ UNCHANGED <<refs, uiVars, recreate, local, vkWindow, swapchain, images, raced, shown>>

Alive(w) == w # NoWindow /\ w = texture

(* What the driver may answer for the swapchain's window.                  *)
Answers == IF Alive(vkWindow) THEN {"success", "suboptimal", "outOfDate"}
           ELSE {"outOfDate", "error"}

(* Mutant: an out-of-date swapchain is kept.                               *)
Acquire_KeepsOld(a) ==
    /\ pc = "acquire" /\ a \in Answers
    /\ IF a \in {"success", "suboptimal"}
       THEN imagesHeld < Images /\ imagesHeld' = imagesHeld + 1 /\ pc' = "draw"
       ELSE UNCHANGED imagesHeld /\ pc' = "idle"
    /\ UNCHANGED <<refs, uiVars, recreate, local, vkWindow, swapchain, ready, stamp, failures, raced, shown>>

(* The call has no timeout: with every image taken it waits.               *)
Acquire(a) ==
    /\ pc = "acquire" /\ a \in Answers
    /\ IF a \in {"success", "suboptimal"}
       THEN imagesHeld < Images /\ imagesHeld' = imagesHeld + 1 /\ pc' = "draw"
       ELSE UNCHANGED imagesHeld /\ pc' = IF a = "outOfDate" THEN "create" ELSE "idle"
    /\ recreate' = TRUE
    /\ UNCHANGED <<refs, uiVars, local, vkWindow, swapchain, ready, stamp, failures, raced, shown>>

(* The commands are recorded, submitted and waited for, or that fails and  *)
(* the image is kept.                                                      *)
Draw ==
    /\ pc = "draw"
    /\ \/ pc' = "present" /\ UNCHANGED failures
       \/ pc' = "idle" /\ failures' = failures + 1
    /\ UNCHANGED <<refs, uiVars, recreate, local, vkWindow, swapchain, ready, stamp, imagesHeld, raced, shown>>

(* Mutant: the image is not given back.                                    *)
QueuePresent_KeepsImage(a) ==
    /\ pc = "present" /\ a \in Answers
    /\ pc' = IF a \in {"outOfDate", "suboptimal"} THEN "create" ELSE "idle"
    /\ recreate' = TRUE
    /\ shown' = IF a \in {"success", "suboptimal"} THEN vkWindow ELSE shown
    /\ UNCHANGED <<refs, uiVars, local, chain, raced>>

QueuePresent(a) ==
    /\ pc = "present" /\ a \in Answers
    /\ pc' = IF a \in {"outOfDate", "suboptimal"} THEN "create" ELSE "idle"
    /\ recreate' = TRUE
    /\ imagesHeld' = imagesHeld - 1
    /\ shown' = IF a \in {"success", "suboptimal"} THEN vkWindow ELSE shown
    /\ UNCHANGED <<refs, uiVars, local, vkWindow, swapchain, ready, stamp, failures, raced>>

(* The core ends and the next one starts with a new renderer state.        *)
FinalizeDisplay ==
    /\ pc = "idle"
    /\ Move(vkWindow, NoWindow)
    /\ vkWindow' = NoWindow /\ swapchain' = FALSE /\ ready' = FALSE /\ stamp' = 0 /\ ForgetImages
    /\ UNCHANGED <<uiVars, pc, recreate, local, raced, shown>>

PresentStep ==
    \/ PresentBegin \/ CreateSwapchain \/ CreateSurface \/ CreateImages \/ CreateDone \/ Draw
    \/ \E a \in Answers : Acquire(a) \/ QueuePresent(a)

Next ==
    \/ \E w \in Windows : SurfaceCreated(w) \/ SurfaceCreatedFails(w)
    \/ SetNativeWindow \/ SurfaceDestroyed \/ PresentStep \/ FinalizeDisplay

Spec == Init /\ [][Next]_vars

(* Frames keep coming, callbacks finish, Vulkan calls on a live window     *)
(* that can succeed again and again do succeed, and a dead window is not   *)
(* reported as lost for ever without once being reported out of date.      *)
FairSpec ==
    /\ Spec
    /\ WF_vars(PresentStep) /\ WF_vars(SetNativeWindow)
    /\ SF_vars(CreateSurface /\ vkWindow' # NoWindow)
    /\ SF_vars(CreateImages /\ swapchain')
    /\ SF_vars(Acquire("success")) /\ SF_vars(Acquire("outOfDate") /\ ~Alive(vkWindow))
    /\ SF_vars(Draw /\ pc' = "present")
    /\ SF_vars(QueuePresent("success"))

-----------------------------------------------------------------------------
(* Types: reference counts never become negative.                          *)
TypeOK ==
    /\ refs \in [Windows -> Nat]
    /\ {texture, bridge, window, local, vkWindow, shown} \subseteq Windows \cup {NoWindow}
    /\ uiPc \in {"idle", "set"}
    /\ pc \in {"idle", "create", "surface", "swapchain", "stamp", "acquire", "draw", "present"}
    /\ {recreate, swapchain, ready, raced} \subseteq BOOLEAN
    /\ imagesHeld \in 0..Images /\ failures \in 0..Images

(* Every reference is accounted for by its holder: nothing leaks and no    *)
(* holder is left with a freed window, however the UI thread's changes     *)
(* interleave with the presenter's (xemu_android_set_native_window,        *)
(* xemu_android_acquire_native_window, pgraph_vk_android_create_swapchain).*)
RefsExact ==
    \A w \in Windows :
        refs[w] = One(w, texture) + One(w, bridge) + One(w, window) + One(w, local) + One(w, vkWindow)

(* The two together, between any two steps of either thread.               *)
WindowInv == TypeOK /\ RefsExact

(* An image is only acquired from a swapchain that exists, and a swapchain *)
(* that passes for current is on the core's window unless the window was   *)
(* replaced while it was being created (swapchain_window_generation).      *)
ReadyIsCurrent ==
    /\ (ready \/ pc \in {"acquire", "draw", "present"}) => swapchain /\ vkWindow # NoWindow
    /\ ready /\ stamp = generation /\ ~Creating /\ ~raced => vkWindow = window

(* An image that was acquired is given back by the present, except by a    *)
(* draw that failed: the images missing from the swapchain are exactly     *)
(* those (pgraph_vk_android_end_present_commands).                         *)
ImagesKept == imagesHeld = failures + (IF pc \in {"draw", "present"} THEN 1 ELSE 0)

(* The swapchain's window and images, between any two steps.               *)
ChainInv == ReadyIsCurrent /\ ImagesKept

(* When the surface no longer changes, frames reach it: also a swapchain   *)
(* created for a window that was replaced meanwhile is given up, if the    *)
(* driver reports it out of date.  Only failed draws can prevent it: each  *)
(* keeps an image, and with none left the presenter waits for ever         *)
(* (pgraph_vk_android_present, pgraph_vk_android_end_present_commands).    *)
FramesReachSurface ==
    \A w \in Windows :
        <>[](texture = w /\ bridge = w) => <>[](shown = w) \/ <>[](pc = "acquire" /\ imagesHeld = Images)

=============================================================================
