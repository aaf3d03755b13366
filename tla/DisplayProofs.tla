-------------------------- MODULE DisplayProofs --------------------------
(* What holds of Display for any timeouts, any snapshots and any bound:    *)
(* its state is well typed, and the panel is never dark under a running    *)
(* worker.                                                                 *)
EXTENDS Display, TLAPS

(* Why no gesture darkens the screen: a gesture that the application could *)
(* not have seen when it read the clock has taken the only touch sample    *)
(* there is before the pause.                                              *)
UnseenGesture == gesture => sampled

IInv ==
  /\ LoopOK /\ PowerOK
  /\ DarkMeansPaused
  /\ app = "dark" => paused
  /\ app # "wait" /\ gesture /\ ~paused /\ idle > 0 => Window
  /\ app = "commit" /\ target = "off" => mode # "off" /\ (paused \/ UnseenGesture)
  /\ mode = "off" /\ ~paused => app \in {"pause", "pausing"} /\ UnseenGesture

(* Waking leaves no dark screen, and no running worker behind one. *)
Woken ==
  /\ idle' = 0 /\ mode' = "awake" /\ bright' \in {"full", "dim", "zero"}
  /\ asked' \in BOOLEAN /\ paused' \in BOOLEAN
  /\ bright' = "zero" => paused'
  /\ mode # "off" => paused' = paused
  /\ ~paused => ~paused'

LEMMA WakeIs == IInv /\ Wake => Woken
BY DEF IInv, PowerOK, DarkMeansPaused, Wake, Woken

(* Drawing wakes or leaves the power alone. *)
LEMMA DrawIs ==
  ASSUME NEW s, NEW p, Draw(s, p)
  PROVE  /\ drawn' = s /\ deferred' = Nothing /\ scrolling' = FALSE
         /\ p \in Pages => page' \in Pages
         /\ Wake \/ UNCHANGED power
BY DEF Draw, Pages

(* No idle time is idle time. *)
LEMMA ZeroIdle == 0 \in 0..MaxIdle
BY MaxIdleAssumption

(* A mode sets the brightness to zero only if it is "off". *)
LEMMA BrightnessIs ==
  ASSUME NEW m \in {"awake", "dimmed", "off"}
  PROVE  /\ Brightness(m) \in {"full", "dim", "zero"}
         /\ Brightness(m) = "zero" <=> m = "off"
BY DEF Brightness

(* The screen is to go off only after some idle time. *)
LEMMA TargetIs ==
  IInv => Target \in {"awake", "dimmed", "off"} /\ (Target = "off" => idle > 0)
<1>1. Keep \in BOOLEAN
  BY DEF Keep
<1>2. IInv => OffAt[Keep] \in 1..MaxIdle /\ idle \in Nat
  BY <1>1, OffAtAssumption, MaxIdleAssumption DEF IInv, PowerOK
<1>3. QED
  BY <1>2 DEF Target

(* A step that wakes, if it is the worker's while it runs, or leaves the   *)
(* power alone, and goes on in the loop to no place but the next.          *)
LEMMA WakingKeeps ==
  ASSUME IInv, Wake \/ UNCHANGED power,
         UNCHANGED target, UNCHANGED sampled, UNCHANGED gesture,
         \/ UNCHANGED app /\ (UNCHANGED power \/ ~paused)
         \/ app \in {"apply", "lock", "feed"} /\ app' \in {"lock", "feed", "power"}
         \/ app = "wait" /\ app' = "apply" /\ (gesture /\ ~paused => idle = 0)
  PROVE  IInv'
<1>0. Wake => Woken
  BY WakeIs
<1> USE DEF IInv, Woken, UnseenGesture, Window, LoopOK, PowerOK, DarkMeansPaused
<1>1. CASE Wake
  <2>1. Woken
    BY <1>0, <1>1
  <2>2. LoopOK'
    OBVIOUS
  <2>3. PowerOK'
    BY <2>1, ZeroIdle
  <2>4. app' = "dark" => paused'
    BY <1>1, <2>1 DEF power
  <2>5. QED
    BY <2>1, <2>2, <2>3, <2>4
<1>2. CASE UNCHANGED power
  BY <1>2 DEF power
<1>3. QED
  BY <1>1, <1>2

(* The application's loop but for update_power_save. *)
LEMMA LoopKeeps ==
  ASSUME IInv, ApplyTest \/ LockTimesOut \/ Apply \/ Feed \/ WaitEnds PROVE IInv'
<1> USE DEF Goto
<1>1. CASE ApplyTest \/ LockTimesOut
  BY <1>1, WakingKeeps DEF ApplyTest, LockTimesOut, touch
<1>2. CASE Apply
  <2>1. Wake \/ UNCHANGED power
    BY <1>2, DrawIs DEF Apply, power
  <2>2. QED
    BY <1>2, <2>1, WakingKeeps DEF Apply, touch
<1>3. CASE Feed
  BY <1>3, WakingKeeps DEF Feed, touch
<1>4. CASE WaitEnds
  BY <1>4, WakingKeeps DEF WaitEnds, touch
<1>5. QED
  BY <1>1, <1>2, <1>3, <1>4

(* update_power_save. *)
LEMMA PowerSaveKeeps == ASSUME IInv, PowerSave PROVE IInv'
<1>0. Wake => Woken
  BY WakeIs
<1>t. Target \in {"awake", "dimmed", "off"} /\ (Target = "off" => idle > 0)
  BY TargetIs
<1> USE DEF IInv, Woken, Goto, UnseenGesture, Window, LoopOK, PowerOK, DarkMeansPaused, touch
<1>1. CASE PowerRead
  <2>1. CASE mode = "off" /\ TouchLine
    BY <1>0, <1>1, <2>1, ZeroIdle DEF PowerRead
  <2>2. CASE ~(mode = "off" /\ TouchLine)
    BY <1>1, <1>t, <2>2 DEF PowerRead, power
  <2>3. QED
    BY <2>1, <2>2
<1>2. CASE PowerCommit
  <2>1. CASE target = "off"
    BY <1>2, <2>1 DEF PowerCommit
  <2>2. CASE target # "off"
    BY <1>2, <2>2, BrightnessIs DEF PowerCommit
  <2>3. QED
    BY <2>1, <2>2
<1>3. CASE Pause
  BY <1>3 DEF Pause
<1>4. CASE Paused
  BY <1>4 DEF Paused, power
<1>5. CASE PauseTimeout
  BY <1>5, ZeroIdle DEF PauseTimeout
<1>6. CASE Dark
  BY <1>6, BrightnessIs DEF Dark
<1>7. QED
  BY <1>1, <1>2, <1>3, <1>4, <1>5, <1>6 DEF PowerSave

(* The worker. *)
LEMMA WorkerKeeps ==
  ASSUME IInv, Acknowledge \/ Touch \/ ScrollEnd PROVE IInv'
<1>0. Wake => Woken
  BY WakeIs
<1>7. CASE ScrollEnd
  <2>1. PICK p \in Reachable :
          IF deferred # Nothing THEN Draw(deferred, p)
          ELSE /\ page' = p /\ scrolling' = FALSE /\ UNCHANGED <<drawn, deferred, power>>
    BY <1>7 DEF ScrollEnd
  <2>2. Wake \/ UNCHANGED power
    BY <2>1, DrawIs DEF Reachable
  <2>3. QED
    BY <1>7, <2>2, WakingKeeps DEF ScrollEnd, loop, touch
<1> USE DEF IInv, Woken, UnseenGesture, Window, LoopOK, PowerOK, DarkMeansPaused, loop
<1>1. CASE Acknowledge
  BY <1>1 DEF Acknowledge, touch
<1>2. CASE Press
  BY <1>0, <1>2, ZeroIdle DEF Press, Sample, Active
<1>3. CASE Hold
  BY <1>3, ZeroIdle DEF Hold, Sample, Active, touch
<1>4. CASE Swipe
  BY <1>4, ZeroIdle DEF Swipe, Sample, Active, power
<1>5. CASE Brighten
  <2>1. mode # "off"
    BY <1>5 DEF Brighten, BrightenRest, Sample
  <2>2. QED
    BY <1>5, <2>1, BrightnessIs, ZeroIdle DEF Brighten, BrightenRest, Sample
<1>6. CASE Release
  BY <1>6, ZeroIdle DEF Release, Sample, Active, power
<1>8. QED
  BY <1>1, <1>2, <1>3, <1>4, <1>5, <1>6, <1>7 DEF Touch

(* Time, the finger, the power supply and the news. *)
LEMMA WorldKeeps == ASSUME IInv, Tick \/ Finger \/ Plug \/ News \/ UNCHANGED vars PROVE IInv'
<1>1. CASE Tick
  BY <1>1, MaxIdleAssumption
  DEF Tick, IInv, UnseenGesture, Window, LoopOK, PowerOK, DarkMeansPaused, loop, touch
<1>2. CASE Finger \/ Plug \/ News \/ UNCHANGED vars
  <2>1. UNCHANGED <<loop, sampled, power, touch>>
    BY <1>2 DEF Finger, Plug, News, vars
  <2>2. QED
    BY <2>1, WakingKeeps DEF loop, touch
<1>3. QED
  BY <1>1, <1>2

(* The invariant, for every value of the constants. *)
LEMMA Inductive == Spec => []IInv
<1>1. Init => IInv
  BY ZeroIdle DEF Init, IInv, LoopOK, PowerOK, DarkMeansPaused, UnseenGesture, Window
<1>2. IInv /\ [Next]_vars => IInv'
  BY LoopKeeps, PowerSaveKeeps, WorkerKeeps, WorldKeeps DEF Next, Application
<1>3. QED
  BY <1>1, <1>2, PTL DEF Spec

(* DarkMeansPaused: update_power_save never leaves a running worker with a *)
(* dark panel, whatever the timeouts and whatever is touched meanwhile.    *)
THEOREM NeverDarkUnderWorker == Spec => []DarkMeansPaused
<1>1. IInv => DarkMeansPaused
  BY DEF IInv
<1>2. QED
  BY <1>1, Inductive, PTL

(* What the pager shows comes from what was to be shown. *)
LEMMA ViewKeeps ==
  ASSUME PagerOK, WorldOK, [Next]_vars PROVE PagerOK' /\ WorldOK'
<1> USE DEF PagerOK, WorldOK, pager, world
<1>1. CASE Apply
  <2>1. snap \in Shown /\ page \in Pages
    OBVIOUS
  <2>2. QED
    BY <1>1, <2>1, DrawIs DEF Apply
<1>2. CASE ScrollEnd
  <2>1. PICK p \in Reachable :
          IF deferred # Nothing THEN Draw(deferred, p)
          ELSE /\ page' = p /\ scrolling' = FALSE /\ UNCHANGED <<drawn, deferred, power>>
    BY <1>2 DEF ScrollEnd
  <2>2. p \in Pages
    BY DEF Reachable
  <2>3. CASE deferred # Nothing
    BY <1>2, <2>1, <2>2, <2>3, DrawIs DEF ScrollEnd
  <2>4. CASE deferred = Nothing
    BY <1>2, <2>1, <2>2, <2>4 DEF ScrollEnd
  <2>5. QED
    BY <2>3, <2>4
<1>3. CASE ApplyTest \/ LockTimesOut \/ Feed \/ PowerSave \/ WaitEnds \/ Acknowledge \/ Tick \/ UNCHANGED vars
  <2>1. UNCHANGED <<pager, world>>
    BY <1>3 DEF ApplyTest, LockTimesOut, Feed, PowerSave, PowerRead, PowerCommit, Pause, Paused,
                PauseTimeout, Dark, WaitEnds, Acknowledge, Tick, vars
  <2>2. QED
    BY <2>1
<1>4. CASE Touch
  BY <1>4 DEF Touch, Press, Hold, Swipe, Brighten, BrightenRest, Release
<1>5. CASE Finger \/ Plug
  BY <1>5 DEF Finger, Plug
<1>6. CASE News
  BY <1>6, MaxNewsAssumption DEF News
<1>7. QED
  BY <1>1, <1>2, <1>3, <1>4, <1>5, <1>6 DEF Next, Application

(* So do the touches. *)
LEMMA TouchKeeps == ASSUME TouchOK, [Next]_vars PROVE TouchOK'
<1> USE DEF TouchOK, touch, Window
<1>1. CASE Application
  BY <1>1 DEF Application, ApplyTest, LockTimesOut, Apply, Feed, PowerSave, PowerRead, PowerCommit,
              Pause, Paused, PauseTimeout, Dark, WaitEnds
<1>2. CASE Touch
  <2>1. sampled' \in BOOLEAN
    <3>1. Sample
      BY <1>2 DEF Touch, Press, Hold, Swipe, Brighten, BrightenRest, Release
    <3>2. QED
      BY <3>1 DEF Sample
  <2>2. pressed' \in BOOLEAN /\ gesture' \in BOOLEAN
    BY <1>2 DEF Touch, Press, Hold, Swipe, Brighten, BrightenRest, Release
  <2>3. drag' \in {"none", "swipe", "bright"}
    BY <1>2 DEF Touch, Press, Hold, Swipe, Brighten, BrightenRest, Release
  <2>4. QED
    BY <2>1, <2>2, <2>3
<1>3. CASE Acknowledge \/ ScrollEnd \/ Tick \/ Finger \/ Plug \/ News \/ UNCHANGED vars
  BY <1>3 DEF Acknowledge, ScrollEnd, Tick, Finger, Plug, News, vars
<1>4. QED
  BY <1>1, <1>2, <1>3 DEF Next

(* TypeOK: the state of the display is well typed. *)
THEOREM TypeCorrect == Spec => []TypeOK
<1>1. Init => TouchOK /\ PagerOK /\ WorldOK
  <2>1. 0 \in 0..MaxNews
    BY MaxNewsAssumption
  <2>2. QED
    BY <2>1 DEF Init, TouchOK, PagerOK, WorldOK, Pages
<1>2. TouchOK /\ PagerOK /\ WorldOK /\ [Next]_vars => (TouchOK /\ PagerOK /\ WorldOK)'
  BY ViewKeeps, TouchKeeps
<1>3. Spec => [](TouchOK /\ PagerOK /\ WorldOK)
  BY <1>1, <1>2, PTL DEF Spec
<1>4. IInv /\ TouchOK /\ PagerOK /\ WorldOK => TypeOK
  BY DEF IInv, TypeOK
<1>5. QED
  BY <1>3, <1>4, Inductive, PTL
=============================================================================
