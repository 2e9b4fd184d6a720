--------------------------- MODULE SurfaceProofs ---------------------------
(***************************************************************************)
(* Proofs about the activity's surface: what is drawn into it and what is  *)
(* touched on it.                                                          *)
(*                                                                         *)
(* Presenter: for any set of windows, any number of images in a swapchain  *)
(* and any number of surface callbacks.                                    *)
(*                                                                         *)
(* TouchInput: for any number of pointers, sticks, buttons and places, the *)
(* view shows where the fingers are, a control the core sees held without  *)
(* anyone holding it was held when its release was cut off, and a stick    *)
(* keeps its finger.  The strengthening needed is what a pause leaves      *)
(* behind: while emulationPaused, all that the core sees held is carried   *)
(* over.                                                                   *)
(***************************************************************************)
EXTENDS Presenter, TouchInput, TLAPS

-----------------------------------------------------------------------------
(* The presenter                                                           *)

Types == TypeOK /\ generation \in Nat /\ stamp \in Nat

(* What the presenter has at each of its steps.                            *)
StepInv ==
    /\ local # NoWindow <=> pc = "surface"
    /\ pc \in {"swapchain", "stamp", "acquire", "draw", "present"} => vkWindow # NoWindow
    /\ pc \in {"stamp", "acquire", "draw", "present"} => swapchain
    /\ ready => swapchain
    /\ swapchain => vkWindow # NoWindow

(* While a swapchain is created for a window that stays, it is for that    *)
(* window; afterwards a change of window shows in the generation.          *)
CurrentInv ==
    /\ stamp <= generation
    /\ pc = "surface" /\ ~raced => local = window
    /\ pc \in {"swapchain", "stamp"} /\ ~raced => vkWindow = window
    /\ ready /\ stamp = generation /\ ~Creating /\ ~raced => vkWindow = window

IInv == Types /\ RefsExact /\ StepInv /\ ImagesKept /\ CurrentInv

-----------------------------------------------------------------------------
(* A count that is the number of holders is natural.                       *)
LEMMA CountsNatural ==
  ASSUME RefsExact', refs' = [w \in Windows |-> refs'[w]]
  PROVE  refs' \in [Windows -> Nat]
BY DEF RefsExact, One

(* Every step that takes or gives back a reference moves the count.        *)
LEMMA RefsKept ==
  ASSUME Types, RefsExact, StepInv, [Next]_vars
  PROVE  RefsExact'
<1> USE PresenterAssumption DEF Types, TypeOK, RefsExact, StepInv, Free, chain, images, uiVars, Move, One, DestroySwapchain, ForgetImages
<1>1. ASSUME NEW w \in Windows, SurfaceCreated(w) PROVE RefsExact'
  BY <1>1 DEF SurfaceCreated
<1>2. ASSUME NEW w \in Windows, SurfaceCreatedFails(w) PROVE RefsExact'
  <2> SUFFICES ASSUME NEW v \in Windows
               PROVE  refs'[v] = (One(v, texture) + One(v, bridge) + One(v, window) + One(v, local) + One(v, vkWindow))'
    BY DEF RefsExact
  <2>1. refs'[v] = refs[v] - One(v, texture) - One(v, bridge) + One(v, w)
    BY <1>2 DEF SurfaceCreatedFails
  <2>2. texture' = w /\ bridge' = NoWindow /\ UNCHANGED <<window, local, vkWindow>>
    BY <1>2 DEF SurfaceCreatedFails
  <2>3. refs[v] = One(v, texture) + One(v, bridge) + One(v, window) + One(v, local) + One(v, vkWindow)
    OBVIOUS
  <2>4. QED
    BY <2>1, <2>2, <2>3
<1>3. CASE SetNativeWindow
  BY <1>3 DEF SetNativeWindow
<1>4. CASE SurfaceDestroyed
  BY <1>4 DEF SurfaceDestroyed
<1>5. CASE PresentBegin
  BY <1>5 DEF PresentBegin
<1>6. CASE CreateSwapchain
  BY <1>6 DEF CreateSwapchain
<1>7. CASE CreateSurface
  BY <1>7 DEF CreateSurface
<1>8. CASE CreateImages
  BY <1>8 DEF CreateImages
<1>9. CASE CreateDone
  BY <1>9 DEF CreateDone
<1>10. CASE Draw
  BY <1>10 DEF Draw
<1>11. ASSUME NEW a \in Answers, Acquire(a) PROVE RefsExact'
  BY <1>11 DEF Acquire
<1>12. ASSUME NEW a \in Answers, QueuePresent(a) PROVE RefsExact'
  BY <1>12 DEF QueuePresent
<1>13. CASE FinalizeDisplay
  BY <1>13 DEF FinalizeDisplay
<1>14. CASE UNCHANGED vars
  BY <1>14 DEF vars
<1> HIDE PresenterAssumption DEF Types, TypeOK, RefsExact, StepInv, Free, chain, images, uiVars, Move, One, DestroySwapchain, ForgetImages
<1>15. QED
  BY <1>1, <1>2, <1>3, <1>4, <1>5, <1>6, <1>7, <1>8, <1>9, <1>10, <1>11, <1>12, <1>13, <1>14
  DEF Next, PresentStep

(* The types are kept: a count that is the number of holders is natural.   *)
LEMMA TypesKept ==
  ASSUME IInv, RefsExact', [Next]_vars
  PROVE  Types'
<1> USE PresenterAssumption DEF IInv, Types, TypeOK, RefsExact, StepInv, ImagesKept, chain, images, uiVars, Move, One, DestroySwapchain, ForgetImages
<1>1. ASSUME NEW w \in Windows, SurfaceCreated(w) PROVE Types'
  <2>1. refs' = [v \in Windows |-> refs'[v]]
    BY <1>1 DEF SurfaceCreated
  <2>2. refs' \in [Windows -> Nat]
    BY <2>1, CountsNatural
  <2> HIDE DEF Move, One
  <2>3. {texture, bridge, window, local, vkWindow, shown}' \subseteq Windows \cup {NoWindow}
    BY <1>1 DEF SurfaceCreated
  <2>4. {recreate, swapchain, ready, raced}' \subseteq BOOLEAN
    BY <1>1 DEF SurfaceCreated
  <2>5. imagesHeld' \in 0..Images /\ failures' \in 0..Images /\ generation' \in Nat /\ stamp' \in Nat
    BY <1>1 DEF SurfaceCreated
  <2>6. uiPc' \in {"idle", "set"}
    BY <1>1 DEF SurfaceCreated
  <2>7. pc' \in {"idle", "create", "surface", "swapchain", "stamp", "acquire", "draw", "present"}
    BY <1>1 DEF SurfaceCreated
  <2>8. QED
    BY <2>2, <2>3, <2>4, <2>5, <2>6, <2>7
<1>2. ASSUME NEW w \in Windows, SurfaceCreatedFails(w) PROVE Types'
  BY <1>2 DEF SurfaceCreatedFails
<1>3. CASE SetNativeWindow
  BY <1>3 DEF SetNativeWindow
<1>4. CASE SurfaceDestroyed
  <2>1. refs' = [v \in Windows |-> refs'[v]]
    BY <1>4 DEF SurfaceDestroyed
  <2>2. refs' \in [Windows -> Nat]
    BY <2>1, CountsNatural
  <2> HIDE DEF Move, One
  <2>3. {texture, bridge, window, local, vkWindow, shown}' \subseteq Windows \cup {NoWindow}
    BY <1>4 DEF SurfaceDestroyed
  <2>4. {recreate, swapchain, ready, raced}' \subseteq BOOLEAN
    BY <1>4, ZenonT(30) DEF SurfaceDestroyed
  <2>5. imagesHeld' \in 0..Images /\ failures' \in 0..Images /\ generation' \in Nat /\ stamp' \in Nat
    BY <1>4 DEF SurfaceDestroyed
  <2>6. uiPc' \in {"idle", "set"}
    BY <1>4 DEF SurfaceDestroyed
  <2>7. pc' \in {"idle", "create", "surface", "swapchain", "stamp", "acquire", "draw", "present"}
    BY <1>4 DEF SurfaceDestroyed
  <2>8. QED
    BY <2>2, <2>3, <2>4, <2>5, <2>6, <2>7
<1>5. CASE PresentBegin
  <2>1. refs' = [v \in Windows |-> refs'[v]]
    BY <1>5 DEF PresentBegin
  <2>2. refs' \in [Windows -> Nat]
    BY <2>1, CountsNatural
  <2> HIDE DEF Move, One
  <2>3. {texture, bridge, window, local, vkWindow, shown}' \subseteq Windows \cup {NoWindow}
    BY <1>5 DEF PresentBegin
  <2>4. {recreate, swapchain, ready, raced}' \subseteq BOOLEAN
    BY <1>5, ZenonT(30) DEF PresentBegin
  <2>5. imagesHeld' \in 0..Images /\ failures' \in 0..Images /\ generation' \in Nat /\ stamp' \in Nat
    BY <1>5 DEF PresentBegin
  <2>6. uiPc' \in {"idle", "set"}
    BY <1>5 DEF PresentBegin
  <2>7. pc' \in {"idle", "create", "surface", "swapchain", "stamp", "acquire", "draw", "present"}
    BY <1>5 DEF PresentBegin
  <2>8. QED
    BY <2>2, <2>3, <2>4, <2>5, <2>6, <2>7
<1>6. CASE CreateSwapchain
  <2>1. refs' = [v \in Windows |-> refs'[v]]
    BY <1>6 DEF CreateSwapchain
  <2>2. refs' \in [Windows -> Nat]
    BY <2>1, CountsNatural
  <2> HIDE DEF Move, One
  <2>3. {texture, bridge, window, local, vkWindow, shown}' \subseteq Windows \cup {NoWindow}
    BY <1>6 DEF CreateSwapchain
  <2>4. {recreate, swapchain, ready, raced}' \subseteq BOOLEAN
    BY <1>6, ZenonT(30) DEF CreateSwapchain
  <2>5. imagesHeld' \in 0..Images /\ failures' \in 0..Images /\ generation' \in Nat /\ stamp' \in Nat
    BY <1>6 DEF CreateSwapchain
  <2>6. uiPc' \in {"idle", "set"}
    BY <1>6 DEF CreateSwapchain
  <2>7. pc' \in {"idle", "create", "surface", "swapchain", "stamp", "acquire", "draw", "present"}
    BY <1>6 DEF CreateSwapchain
  <2>8. QED
    BY <2>2, <2>3, <2>4, <2>5, <2>6, <2>7
<1>7. CASE CreateSurface
  <2>1. refs' = [v \in Windows |-> refs'[v]]
    BY <1>7 DEF CreateSurface
  <2>2. refs' \in [Windows -> Nat]
    BY <2>1, CountsNatural
  <2> HIDE DEF Move, One
  <2>3. {texture, bridge, window, local, vkWindow, shown}' \subseteq Windows \cup {NoWindow}
    BY <1>7 DEF CreateSurface
  <2>4. {recreate, swapchain, ready, raced}' \subseteq BOOLEAN
    BY <1>7, ZenonT(30) DEF CreateSurface
  <2>5. imagesHeld' \in 0..Images /\ failures' \in 0..Images /\ generation' \in Nat /\ stamp' \in Nat
    BY <1>7 DEF CreateSurface
  <2>6. uiPc' \in {"idle", "set"}
    BY <1>7 DEF CreateSurface
  <2>7. pc' \in {"idle", "create", "surface", "swapchain", "stamp", "acquire", "draw", "present"}
    BY <1>7 DEF CreateSurface
  <2>8. QED
    BY <2>2, <2>3, <2>4, <2>5, <2>6, <2>7
<1>8. CASE CreateImages
  <2>1. refs' = [v \in Windows |-> refs'[v]]
    BY <1>8 DEF CreateImages
  <2>2. refs' \in [Windows -> Nat]
    BY <2>1, CountsNatural
  <2> HIDE DEF Move, One
  <2>3. {texture, bridge, window, local, vkWindow, shown}' \subseteq Windows \cup {NoWindow}
    BY <1>8 DEF CreateImages
  <2>4. {recreate, swapchain, ready, raced}' \subseteq BOOLEAN
    BY <1>8, ZenonT(30) DEF CreateImages
  <2>5. imagesHeld' \in 0..Images /\ failures' \in 0..Images /\ generation' \in Nat /\ stamp' \in Nat
    BY <1>8 DEF CreateImages
  <2>6. uiPc' \in {"idle", "set"}
    BY <1>8 DEF CreateImages
  <2>7. pc' \in {"idle", "create", "surface", "swapchain", "stamp", "acquire", "draw", "present"}
    BY <1>8 DEF CreateImages
  <2>8. QED
    BY <2>2, <2>3, <2>4, <2>5, <2>6, <2>7
<1>9. CASE CreateDone
  BY <1>9 DEF CreateDone
<1>10. CASE Draw
  BY <1>10 DEF Draw
<1>11. ASSUME NEW a \in Answers, Acquire(a) PROVE Types'
  BY <1>11 DEF Acquire
<1>12. ASSUME NEW a \in Answers, QueuePresent(a) PROVE Types'
  BY <1>12 DEF QueuePresent
<1>13. CASE FinalizeDisplay
  <2>1. refs' = [v \in Windows |-> refs'[v]]
    BY <1>13 DEF FinalizeDisplay
  <2>2. refs' \in [Windows -> Nat]
    BY <2>1, CountsNatural
  <2> HIDE DEF Move, One
  <2>3. {texture, bridge, window, local, vkWindow, shown}' \subseteq Windows \cup {NoWindow}
    BY <1>13 DEF FinalizeDisplay
  <2>4. {recreate, swapchain, ready, raced}' \subseteq BOOLEAN
    BY <1>13, ZenonT(30) DEF FinalizeDisplay
  <2>5. imagesHeld' \in 0..Images /\ failures' \in 0..Images /\ generation' \in Nat /\ stamp' \in Nat
    BY <1>13 DEF FinalizeDisplay
  <2>6. uiPc' \in {"idle", "set"}
    BY <1>13 DEF FinalizeDisplay
  <2>7. pc' \in {"idle", "create", "surface", "swapchain", "stamp", "acquire", "draw", "present"}
    BY <1>13 DEF FinalizeDisplay
  <2>8. QED
    BY <2>2, <2>3, <2>4, <2>5, <2>6, <2>7
<1>14. CASE UNCHANGED vars
  BY <1>14 DEF vars
<1> HIDE PresenterAssumption DEF IInv, Types, TypeOK, RefsExact, StepInv, ImagesKept, chain, images, uiVars, Move, One, DestroySwapchain, ForgetImages
<1>15. QED
  BY <1>1, <1>2, <1>3, <1>4, <1>5, <1>6, <1>7, <1>8, <1>9, <1>10, <1>11, <1>12, <1>13, <1>14
  DEF Next, PresentStep

(* The presenter's steps find what they need.                              *)
LEMMA StepKept ==
  ASSUME Types, StepInv, [Next]_vars
  PROVE  StepInv'
<1> USE PresenterAssumption DEF Types, TypeOK, StepInv, chain, images, uiVars, Move, One, DestroySwapchain, ForgetImages
<1>1. ASSUME NEW w \in Windows, SurfaceCreated(w) PROVE StepInv'
  BY <1>1 DEF SurfaceCreated
<1>2. ASSUME NEW w \in Windows, SurfaceCreatedFails(w) PROVE StepInv'
  BY <1>2 DEF SurfaceCreatedFails
<1>3. CASE SetNativeWindow
  BY <1>3 DEF SetNativeWindow
<1>4. CASE SurfaceDestroyed
  BY <1>4 DEF SurfaceDestroyed
<1>5. CASE PresentBegin
  BY <1>5 DEF PresentBegin
<1>6. CASE CreateSwapchain
  BY <1>6 DEF CreateSwapchain
<1>7. CASE CreateSurface
  BY <1>7 DEF CreateSurface
<1>8. CASE CreateImages
  BY <1>8 DEF CreateImages
<1>9. CASE CreateDone
  BY <1>9 DEF CreateDone
<1>10. CASE Draw
  BY <1>10 DEF Draw
<1>11. ASSUME NEW a \in Answers, Acquire(a) PROVE StepInv'
  BY <1>11 DEF Acquire
<1>12. ASSUME NEW a \in Answers, QueuePresent(a) PROVE StepInv'
  BY <1>12 DEF QueuePresent
<1>13. CASE FinalizeDisplay
  BY <1>13 DEF FinalizeDisplay
<1>14. CASE UNCHANGED vars
  BY <1>14 DEF vars
<1> HIDE PresenterAssumption DEF Types, TypeOK, StepInv, chain, images, uiVars, Move, One, DestroySwapchain, ForgetImages
<1>15. QED
  BY <1>1, <1>2, <1>3, <1>4, <1>5, <1>6, <1>7, <1>8, <1>9, <1>10, <1>11, <1>12, <1>13, <1>14
  DEF Next, PresentStep

(* Images are taken and given back in pairs, failures excepted.            *)
LEMMA ImagesStay ==
  ASSUME Types, ImagesKept, [Next]_vars
  PROVE  ImagesKept'
<1> USE PresenterAssumption DEF Types, TypeOK, ImagesKept, chain, images, uiVars, Move, One, DestroySwapchain, ForgetImages
<1>1. ASSUME NEW w \in Windows, SurfaceCreated(w) PROVE ImagesKept'
  BY <1>1 DEF SurfaceCreated
<1>2. ASSUME NEW w \in Windows, SurfaceCreatedFails(w) PROVE ImagesKept'
  BY <1>2 DEF SurfaceCreatedFails
<1>3. CASE SetNativeWindow
  BY <1>3 DEF SetNativeWindow
<1>4. CASE SurfaceDestroyed
  BY <1>4 DEF SurfaceDestroyed
<1>5. CASE PresentBegin
  BY <1>5 DEF PresentBegin
<1>6. CASE CreateSwapchain
  BY <1>6 DEF CreateSwapchain
<1>7. CASE CreateSurface
  BY <1>7 DEF CreateSurface
<1>8. CASE CreateImages
  BY <1>8 DEF CreateImages
<1>9. CASE CreateDone
  BY <1>9 DEF CreateDone
<1>10. CASE Draw
  BY <1>10 DEF Draw
<1>11. ASSUME NEW a \in Answers, Acquire(a) PROVE ImagesKept'
  BY <1>11 DEF Acquire
<1>12. ASSUME NEW a \in Answers, QueuePresent(a) PROVE ImagesKept'
  BY <1>12 DEF QueuePresent
<1>13. CASE FinalizeDisplay
  BY <1>13 DEF FinalizeDisplay
<1>14. CASE UNCHANGED vars
  BY <1>14 DEF vars
<1> HIDE PresenterAssumption DEF Types, TypeOK, ImagesKept, chain, images, uiVars, Move, One, DestroySwapchain, ForgetImages
<1>15. QED
  BY <1>1, <1>2, <1>3, <1>4, <1>5, <1>6, <1>7, <1>8, <1>9, <1>10, <1>11, <1>12, <1>13, <1>14
  DEF Next, PresentStep

(* The generation tells an old window from the current one.                *)
LEMMA CurrentKept ==
  ASSUME IInv, [Next]_vars
  PROVE  CurrentInv'
<1> USE PresenterAssumption DEF IInv, Types, TypeOK, StepInv, CurrentInv, Creating, chain, images, uiVars, Move, One, DestroySwapchain, ForgetImages
<1>1. ASSUME NEW w \in Windows, SurfaceCreated(w) PROVE CurrentInv'
  BY <1>1 DEF SurfaceCreated
<1>2. ASSUME NEW w \in Windows, SurfaceCreatedFails(w) PROVE CurrentInv'
  BY <1>2 DEF SurfaceCreatedFails
<1>3. CASE SetNativeWindow
  <2>1. generation' = generation + 1 /\ UNCHANGED <<pc, chain, local>>
    BY <1>3 DEF SetNativeWindow
  <2>2. Creating => raced'
    BY <1>3, ZenonT(30) DEF SetNativeWindow
  <2>3. QED
    BY <2>1, <2>2
<1>4. CASE SurfaceDestroyed
  <2>1. UNCHANGED <<pc, chain, local>>
    BY <1>4 DEF SurfaceDestroyed
  <2>2. CASE bridge = NoWindow
    BY <1>4, <2>1, <2>2 DEF SurfaceDestroyed
  <2>3. CASE bridge # NoWindow
    <3>1. generation' = generation + 1 /\ (Creating => raced')
      BY <1>4, <2>3, ZenonT(30) DEF SurfaceDestroyed
    <3>2. QED
      BY <2>1, <3>1
  <2>4. QED
    BY <2>2, <2>3
<1>5. CASE PresentBegin
  BY <1>5 DEF PresentBegin
<1>6. CASE CreateSwapchain
  BY <1>6 DEF CreateSwapchain
<1>7. CASE CreateSurface
  BY <1>7 DEF CreateSurface
<1>8. CASE CreateImages
  BY <1>8 DEF CreateImages
<1>9. CASE CreateDone
  BY <1>9 DEF CreateDone
<1>10. CASE Draw
  BY <1>10 DEF Draw
<1>11. ASSUME NEW a \in Answers, Acquire(a) PROVE CurrentInv'
  BY <1>11 DEF Acquire
<1>12. ASSUME NEW a \in Answers, QueuePresent(a) PROVE CurrentInv'
  BY <1>12 DEF QueuePresent
<1>13. CASE FinalizeDisplay
  BY <1>13 DEF FinalizeDisplay
<1>14. CASE UNCHANGED vars
  BY <1>14 DEF vars
<1> HIDE PresenterAssumption DEF IInv, Types, TypeOK, StepInv, CurrentInv, Creating, chain, images, uiVars, Move, One, DestroySwapchain, ForgetImages
<1>15. QED
  BY <1>1, <1>2, <1>3, <1>4, <1>5, <1>6, <1>7, <1>8, <1>9, <1>10, <1>11, <1>12, <1>13, <1>14
  DEF Next, PresentStep

-----------------------------------------------------------------------------
(* The invariant holds initially and is kept.                              *)
LEMMA InitIInv == Init => IInv
<1> SUFFICES ASSUME Init PROVE IInv
  OBVIOUS
<1> USE PresenterAssumption
<1>1. refs \in [Windows -> Nat] /\ \A w \in Windows : refs[w] = 0
  BY DEF Init
<1>2. Types
  <2>1. {texture, bridge, window, local, vkWindow, shown} \subseteq Windows \cup {NoWindow}
    BY DEF Init
  <2>2. {recreate, swapchain, ready, raced} \subseteq BOOLEAN
    BY ZenonT(30) DEF Init
  <2>3. imagesHeld \in 0..Images /\ failures \in 0..Images /\ generation \in Nat /\ stamp \in Nat
    BY DEF Init
  <2>4. QED
    BY <1>1, <2>1, <2>2, <2>3 DEF Init, Types, TypeOK
<1>3. RefsExact
  <2>1. texture = NoWindow /\ bridge = NoWindow /\ window = NoWindow /\ local = NoWindow /\ vkWindow = NoWindow
    BY DEF Init
  <2> SUFFICES ASSUME NEW w \in Windows
               PROVE  refs[w] = One(w, texture) + One(w, bridge) + One(w, window) + One(w, local) + One(w, vkWindow)
    BY ZenonT(30) DEF RefsExact
  <2>2. One(w, texture) = 0 /\ One(w, bridge) = 0 /\ One(w, window) = 0 /\ One(w, local) = 0
    BY <2>1 DEF One
  <2>3. One(w, vkWindow) = 0
    BY <2>1 DEF One
  <2>4. QED
    BY <1>1, <2>2, <2>3
<1>4. StepInv /\ ImagesKept /\ CurrentInv
  BY DEF Init, StepInv, ImagesKept, CurrentInv
<1>5. QED
  BY <1>2, <1>3, <1>4 DEF IInv

(* Every surface callback and every step of the presenter preserves the    *)
(* whole invariant.                                                        *)
LEMMA NextIInv == IInv /\ [Next]_vars => IInv'
<1> SUFFICES ASSUME IInv, [Next]_vars PROVE IInv'
  OBVIOUS
<1>1. RefsExact'
  BY RefsKept DEF IInv
<1>2. QED
  BY <1>1, TypesKept, StepKept, ImagesStay, CurrentKept DEF IInv

(* The invariant holds in every state the presenter can get into.          *)
LEMMA Invariant == Spec => []IInv
BY InitIInv, NextIInv, PTL DEF Spec

(* Whatever surface callbacks interleave with the presenter and whichever  *)
(* Vulkan calls fail, every reference to a window has its holder           *)
(* (xemu_android_set_native_window, pgraph_vk_android_create_swapchain).   *)
THEOREM WindowsAccounted == Spec => []WindowInv
<1>1. IInv => WindowInv
  BY DEF IInv, Types, WindowInv
<1>2. QED
  BY <1>1, Invariant, PTL

(* A swapchain that passes for current is on the core's window, unless the *)
(* window changed during its creation, and misses only the images of       *)
(* failed draws (swapchain_window_generation, pgraph_vk_android_present).  *)
THEOREM ChainsCurrent == Spec => []ChainInv
<1>1. IInv => ChainInv
  BY DEF IInv, StepInv, CurrentInv, ChainInv, ReadyIsCurrent
<1>2. QED
  BY <1>1, Invariant, PTL

-----------------------------------------------------------------------------
(* The touch controls                                                      *)

PauseCarries == emulationPaused => held \subseteq carried

TouchIInv == ViewExact /\ UntouchedIsReleased /\ PauseCarries

(***************************************************************************)
(* The buttons a gesture presses are buttons of the view.                  *)
(***************************************************************************)
LEMMA DownType ==
    ASSUME NEW fs, NEW st
    PROVE  Down(fs, st) \subseteq Buttons \cup {Pause}
  BY DEF Down

(***************************************************************************)
(* onTouchEvent: whatever the gesture and its sticks become, the event     *)
(* preserves the invariant, when every owned stick's finger is down.       *)
(***************************************************************************)
LEMMA DeliverIInv ==
    ASSUME TouchIInv,
           NEW fs \in [Pointers -> Places \cup {Off}],
           NEW st \in [Sticks -> Pointers \cup {Nobody}],
           \A s \in Engaged(st) : fs[st[s]] # Off,
           Deliver(fs, st)
    PROVE  TouchIInv'
  <1> DEFINE now == Down(fs, st)
  <1> DEFINE sentOn == Engaged(st) \cup ((now \ pressed) \ {Pause})
  <1> DEFINE sentOff == (Engaged(stick) \ Engaged(st))
                            \cup ((pressed \ now) \ {Pause})
  <1> DEFINE nowHeld == (held \ sentOff) \cup sentOn
  <1> DEFINE pauses == Pause \in now \ pressed /\ running
  <1>1. /\ fingers' = fs /\ stick' = st /\ pressed' = now
        /\ padKeys' = padKeys /\ padAxes' = padAxes
    BY DEF Deliver, pad
  <1>2. CASE emulationPaused
    <2>1. /\ held' = held /\ carried' = carried
          /\ emulationPaused' = emulationPaused
      BY <1>2 DEF Deliver
    <2> QED
      BY <1>1, <1>2, <2>1 DEF TouchIInv, ViewExact, UntouchedIsReleased,
         PauseCarries, Engaged
  <1>3. CASE ~emulationPaused
    <2>1. /\ held' = nowHeld
          /\ carried' = (carried \ (sentOn \cup sentOff))
                            \cup (IF pauses THEN nowHeld ELSE {})
          /\ emulationPaused' = pauses
      BY <1>3 DEF Deliver
    <2>2. now \subseteq Buttons \cup {Pause}
      BY DownType
    <2>3. Engaged(st)' = Engaged(st) /\ Engaged(stick)' = Engaged(st)
      BY <1>1 DEF Engaged
    <2> HIDE DEF now
    <2>4. nowHeld \subseteq Controls
      BY <2>2 DEF TouchIInv, ViewExact, Controls, Engaged
    <2>5. ViewExact'
      BY <1>1, <2>1, <2>3, <2>4 DEF TouchIInv, ViewExact, now
    <2>6. Pause \notin held
      BY TouchAssumption DEF TouchIInv, ViewExact, Controls
    <2>7. UntouchedIsReleased'
      <3>1. ASSUME NEW c \in nowHeld, c \notin sentOn
            PROVE  c \in now \cup Engaged(st) \cup padKeys \cup padAxes
                        \cup (carried \ (sentOn \cup sentOff))
        BY <2>6, <3>1 DEF TouchIInv, UntouchedIsReleased, Touched
      <3>2. nowHeld \subseteq now \cup Engaged(st) \cup padKeys \cup padAxes
                        \cup (carried \ (sentOn \cup sentOff))
        BY <3>1
      <3> QED
        BY <1>1, <2>1, <2>3, <3>2 DEF UntouchedIsReleased, Touched
    <2>8. PauseCarries'
      BY <2>1, ZenonT(30) DEF PauseCarries
    <2> QED
      BY <2>5, <2>7, <2>8 DEF TouchIInv
  <1> QED
    BY <1>2, <1>3

(***************************************************************************)
(* A write from the game pad while the game is not paused.                 *)
(***************************************************************************)
LEMMA WriteReleases ==
    ASSUME NEW on, NEW off, Write(on, off), UntouchedIsReleased,
           UNCHANGED view, on \subseteq padKeys' \cup padAxes',
           padKeys \cup padAxes \subseteq padKeys' \cup padAxes' \cup off
    PROVE  UntouchedIsReleased'
  BY DEF Write, UntouchedIsReleased, Touched, view, Engaged

(***************************************************************************)
(* Initially nothing is touched and nothing is held.                       *)
(***************************************************************************)
LEMMA TouchInitially == TouchInit => TouchIInv
  <1> SUFFICES ASSUME TouchInit PROVE TouchIInv
    OBVIOUS
  <1>1. Engaged(stick) = {}
    BY DEF TouchInit, Engaged, NoSticks
  <1>2. Down(fingers, stick) = {}
    BY DEF TouchInit, Down, NoFingers
  <1>3. fingers \in [Pointers -> Places \cup {Off}]
    BY DEF TouchInit, NoFingers
  <1>4. stick \in [Sticks -> Pointers \cup {Nobody}]
    BY DEF TouchInit, NoSticks
  <1> QED
    BY <1>1, <1>2, <1>3, <1>4
    DEF TouchInit, TouchIInv, ViewExact, UntouchedIsReleased, PauseCarries

(***************************************************************************)
(* Every step, one case per handler.                                       *)
(***************************************************************************)
LEMMA TouchStep == TouchIInv /\ [TouchNext]_touchVars => TouchIInv'
  <1> SUFFICES ASSUME TouchIInv, [TouchNext]_touchVars PROVE TouchIInv'
    OBVIOUS
  <1>a. /\ fingers \in [Pointers -> Places \cup {Off}]
        /\ stick \in [Sticks -> Pointers \cup {Nobody}]
        /\ \A s \in Engaged(stick) : fingers[stick[s]] # Off
    BY DEF TouchIInv, ViewExact
  <1>1. ASSUME NEW p \in Pointers, NEW q \in Places, PointerDown(p, q)
        PROVE  TouchIInv'
    <2> DEFINE fs == [fingers EXCEPT ![p] = q]
    <2> DEFINE st == [s \in Sticks |->
                         IF stick[s] = Nobody /\ s \in q THEN p ELSE stick[s]]
    <2>1. fs \in [Pointers -> Places \cup {Off}]
      BY <1>a
    <2>2. st \in [Sticks -> Pointers \cup {Nobody}]
      BY <1>a
    <2>3. ASSUME NEW s \in Engaged(st) PROVE fs[st[s]] # Off
      <3>1. s \in Sticks /\ st[s] # Nobody /\ st[s] \in Pointers
        BY <2>2 DEF Engaged
      <3>2. q # Off
        BY TouchAssumption
      <3>3. st[s] = IF stick[s] = Nobody /\ s \in q THEN p ELSE stick[s]
        BY <3>1
      <3>4. st[s] = p \/ (st[s] = stick[s] /\ stick[s] # Nobody)
        BY <3>1, <3>3
      <3>5. stick[s] # Nobody => s \in Engaged(stick)
        BY <3>1 DEF Engaged
      <3> QED
        BY <1>a, <3>1, <3>2, <3>4, <3>5
    <2>4. Deliver(fs, st)
      BY <1>1 DEF PointerDown
    <2> HIDE DEF fs, st
    <2> QED
      BY <2>1, <2>2, <2>3, <2>4, DeliverIInv
  <1>2. ASSUME NEW p \in Pointers, PointerUp(p)
        PROVE  TouchIInv'
    <2> DEFINE fs == [fingers EXCEPT ![p] = Off]
    <2> DEFINE st == [s \in Sticks |->
                         IF stick[s] = p THEN Nobody ELSE stick[s]]
    <2>1. fs \in [Pointers -> Places \cup {Off}]
      BY <1>a
    <2>2. st \in [Sticks -> Pointers \cup {Nobody}]
      BY <1>a
    <2>3. ASSUME NEW s \in Engaged(st) PROVE fs[st[s]] # Off
      <3>1. s \in Sticks /\ st[s] # Nobody
        BY DEF Engaged
      <3>2. stick[s] # p /\ st[s] = stick[s] /\ s \in Engaged(stick)
        BY <3>1 DEF Engaged
      <3> QED
        BY <1>a, <3>1, <3>2
    <2>4. Deliver(fs, st)
      BY <1>2 DEF PointerUp
    <2> HIDE DEF fs, st
    <2> QED
      BY <2>1, <2>2, <2>3, <2>4, DeliverIInv
  <1>3. ASSUME NEW fs \in [Pointers -> Places \cup {Off}], PointerMove(fs)
        PROVE  TouchIInv'
    <2>1. \A s \in Engaged(stick) : fs[stick[s]] # Off
      BY <1>a, <1>3 DEF PointerMove, Engaged
    <2>2. Deliver(fs, stick)
      BY <1>3 DEF PointerMove
    <2> QED
      BY <1>a, <2>1, <2>2, DeliverIInv
  <1>4. CASE Cancel
    <2>1. NoFingers \in [Pointers -> Places \cup {Off}]
      BY DEF NoFingers
    <2>2. NoSticks \in [Sticks -> Pointers \cup {Nobody}]
      BY DEF NoSticks
    <2>3. \A s \in Engaged(NoSticks) : NoFingers[NoSticks[s]] # Off
      BY DEF Engaged, NoSticks
    <2>4. Deliver(NoFingers, NoSticks)
      BY <1>4 DEF Cancel
    <2> QED
      BY <2>1, <2>2, <2>3, <2>4, DeliverIInv
  <1>5. ASSUME NEW b \in Buttons, PadKey(b)
        PROVE  TouchIInv'
    <2>1. UNCHANGED <<fingers, stick, pressed, padAxes, emulationPaused>>
      BY <1>5 DEF PadKey, view
    <2>2. padKeys' \subseteq Buttons
      BY <1>5 DEF PadKey, TouchIInv, ViewExact
    <2>3. CASE emulationPaused
      <3>1. held' = held /\ carried' = carried
        BY <1>5, <2>3 DEF PadKey
      <3> QED
        BY <2>1, <2>2, <2>3, <3>1 DEF TouchIInv, ViewExact, UntouchedIsReleased,
           PauseCarries, Engaged
    <2>4. CASE ~emulationPaused
      <3>1. Write({b} \cap padKeys', {b} \ padKeys')
        BY <1>5, <2>4 DEF PadKey
      <3>2. held' \subseteq Controls
        BY <3>1 DEF Write, TouchIInv, ViewExact, Controls
      <3>3. padKeys \subseteq padKeys' \cup {b}
        BY <1>5 DEF PadKey
      <3>4. UntouchedIsReleased'
        BY <2>1, <3>1, <3>3, WriteReleases DEF TouchIInv, view
      <3> QED
        BY <2>1, <2>2, <2>4, <3>2, <3>4 DEF TouchIInv, ViewExact, PauseCarries,
           Engaged
    <2> QED
      BY <2>3, <2>4
  <1>6. ASSUME NEW axes \in SUBSET (Sticks \cup Analog), PadMotion(axes)
        PROVE  TouchIInv'
    <2>1. /\ UNCHANGED <<fingers, stick, pressed, padKeys, emulationPaused>>
          /\ padAxes' = axes
      BY <1>6 DEF PadMotion, view
    <2>3. CASE emulationPaused
      <3>1. held' = held /\ carried' = carried
        BY <1>6, <2>3 DEF PadMotion
      <3> QED
        BY <2>1, <2>3, <3>1 DEF TouchIInv, ViewExact, UntouchedIsReleased,
           PauseCarries, Engaged
    <2>4. CASE ~emulationPaused
      <3>1. Write(axes, (Sticks \cup Analog) \ axes)
        BY <1>6, <2>4 DEF PadMotion
      <3>2. held' \subseteq Controls
        BY <3>1, TouchAssumption DEF Write, TouchIInv, ViewExact, Controls
      <3>3. padAxes \subseteq axes \cup ((Sticks \cup Analog) \ axes)
        BY DEF TouchIInv, ViewExact
      <3>4. UntouchedIsReleased'
        BY <2>1, <3>1, <3>3, WriteReleases DEF TouchIInv, view
      <3> QED
        BY <2>1, <2>4, <3>2, <3>4 DEF TouchIInv, ViewExact, PauseCarries, Engaged
    <2> QED
      BY <2>3, <2>4
  <1>7. CASE PausedByApp
    BY <1>7 DEF PausedByApp, view, pad, TouchIInv, ViewExact, UntouchedIsReleased,
       Touched, PauseCarries, Engaged
  <1>8. CASE Resume \/ StopAnswers
    BY <1>8 DEF Resume, StopAnswers, view, pad, TouchIInv, ViewExact,
       UntouchedIsReleased, Touched, PauseCarries, Engaged
  <1>9. CASE Launch
    BY <1>9 DEF Launch, view, pad, TouchIInv, ViewExact,
       UntouchedIsReleased, Touched, PauseCarries, Engaged
  <1>10. CASE StopResets
    BY <1>10 DEF StopResets, view, pad, TouchIInv, ViewExact,
       UntouchedIsReleased, Touched, PauseCarries, Engaged
  <1>11. CASE StopAsked \/ CoreEnds \/ UNCHANGED touchVars
    BY <1>11 DEF StopAsked, CoreEnds, touchVars, view, pad, TouchIInv, ViewExact,
       UntouchedIsReleased, Touched, PauseCarries, Engaged
  <1>12. CASE Recreate
    <2>1. /\ fingers' = NoFingers /\ stick' = NoSticks /\ pressed' = {}
          /\ padKeys' = padKeys /\ padAxes' = padAxes /\ held' = held
          /\ carried' = carried \cup held /\ emulationPaused' = FALSE
      BY <1>12 DEF Recreate, pad
    <2>2. Engaged(stick)' = {}
      BY <2>1 DEF Engaged, NoSticks
    <2>3. Down(fingers, stick)' = {}
      BY <2>1 DEF Down, NoFingers
    <2>4. fingers' \in [Pointers -> Places \cup {Off}]
      BY <2>1 DEF NoFingers
    <2>5. stick' \in [Sticks -> Pointers \cup {Nobody}]
      BY <2>1 DEF NoSticks
    <2> QED
      BY <2>1, <2>2, <2>3, <2>4, <2>5
      DEF TouchIInv, ViewExact, UntouchedIsReleased, PauseCarries
  <1> QED
    BY <1>1, <1>2, <1>3, <1>4, <1>5, <1>6, <1>7, <1>8, <1>9, <1>10, <1>11,
       <1>12 DEF TouchNext

(***************************************************************************)
(* The inductive invariant holds in every reachable state.                 *)
(***************************************************************************)
LEMMA TouchInductive == TouchSpec => []TouchIInv
  BY TouchInitially, TouchStep, PTL DEF TouchSpec

(***************************************************************************)
(* onTouchEvent keeps the pressed buttons and the owned sticks equal to    *)
(* where the fingers are, for any gesture.                                 *)
(***************************************************************************)
THEOREM ViewIsExact == TouchSpec => []ViewExact
  <1>1. TouchIInv => ViewExact
    BY DEF TouchIInv
  <1> QED
    BY <1>1, TouchInductive, PTL

(***************************************************************************)
(* The core sees a control held that nobody holds only when a pause or a   *)
(* new activity cut its release off.                                       *)
(***************************************************************************)
THEOREM StuckOnlyWhenCutOff == TouchSpec => []UntouchedIsReleased
  <1>1. TouchIInv => UntouchedIsReleased
    BY DEF TouchIInv
  <1> QED
    BY <1>1, TouchInductive, PTL

(***************************************************************************)
(* A touch event leaves a stick with the finger that is still down, and    *)
(* sends its position unless the game is paused.                           *)
(***************************************************************************)
THEOREM SticksKeepFingers == TouchSpec => StickKeepsFinger
  <1> DEFINE Keeps ==
        \A s \in Sticks :
          (stick[s] # Nobody /\ fingers' # fingers /\ fingers'[stick[s]] # Off)
              => /\ stick'[s] = stick[s]
                 /\ ~emulationPaused => s \in held'
  <1>1. ASSUME NEW fs, NEW st, Deliver(fs, st), TouchIInv,
               \A s \in Sticks : stick[s] # Nobody /\ fs[stick[s]] # Off
                                     => st[s] = stick[s]
        PROVE  Keeps
    <2>1. fingers' = fs /\ stick' = st
      BY <1>1 DEF Deliver
    <2>2. ~emulationPaused => Engaged(st) \subseteq held'
      BY <1>1 DEF Deliver
    <2> QED
      BY <1>1, <2>1, <2>2 DEF Engaged
  <1>2. ASSUME TouchIInv, TouchNext PROVE Keeps
    <2>a. /\ fingers \in [Pointers -> Places \cup {Off}]
          /\ stick \in [Sticks -> Pointers \cup {Nobody}]
      BY <1>2 DEF TouchIInv, ViewExact
    <2>1. ASSUME NEW p \in Pointers, NEW q \in Places, PointerDown(p, q)
          PROVE  Keeps
      BY <1>1, <1>2, <2>1 DEF PointerDown
    <2>2. ASSUME NEW p \in Pointers, PointerUp(p)
          PROVE  Keeps
      <3> DEFINE fs == [fingers EXCEPT ![p] = Off]
      <3> DEFINE st == [s \in Sticks |->
                           IF stick[s] = p THEN Nobody ELSE stick[s]]
      <3>1. Deliver(fs, st)
        BY <2>2 DEF PointerUp
      <3>2. fs[p] = Off
        BY <2>a
      <3>3. ASSUME NEW s \in Sticks, stick[s] # Nobody, fs[stick[s]] # Off
            PROVE  st[s] = stick[s]
        BY <3>2, <3>3
      <3> HIDE DEF fs, st
      <3> QED
        BY <1>1, <1>2, <3>1, <3>3
    <2>3. ASSUME NEW fs, PointerMove(fs) PROVE Keeps
      BY <1>1, <1>2, <2>3 DEF PointerMove
    <2>4. CASE Cancel
      <3>1. Deliver(NoFingers, NoSticks)
        BY <2>4 DEF Cancel
      <3>2. ASSUME NEW s \in Sticks, stick[s] # Nobody
            PROVE  NoFingers[stick[s]] = Off
        BY <2>a, <3>2 DEF NoFingers
      <3> QED
        BY <1>1, <1>2, <3>1, <3>2
    <2>5. CASE Recreate
      <3>1. fingers' = NoFingers
        BY <2>5 DEF Recreate
      <3> QED
        BY <2>a, <3>1 DEF NoFingers
    <2>6. ASSUME UNCHANGED view PROVE Keeps
      BY <2>6 DEF view
    <2> QED
      BY <1>2, <2>1, <2>2, <2>3, <2>4, <2>5, <2>6, ZenonT(30)
      DEF TouchNext, PadKey, PadMotion, PausedByApp, Resume, Launch, StopAsked,
          StopResets, StopAnswers, CoreEnds
  <1>3. TouchIInv /\ [TouchNext]_touchVars => [Keeps]_touchVars
    BY <1>2
  <1>4. TouchSpec => [][Keeps]_touchVars
    BY <1>3, TouchInductive, PTL DEF TouchSpec
  <1> QED
    BY <1>4 DEF StickKeepsFinger
=============================================================================
