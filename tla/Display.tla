------------------------------ MODULE Display ------------------------------
(***************************************************************************)
(* The screen and its power: ui.cpp with its two users, the application's  *)
(* loop and the LVGL worker.  The worker draws and handles touches; the    *)
(* application hands it snapshots under the LVGL lock and, without that    *)
(* lock, dims the screen, turns it off and wakes it.                       *)
(*                                                                         *)
(* The panel gives the tearing signal only while it is lit, and the worker *)
(* waits for that signal when it draws: a dark panel under a running       *)
(* worker blocks it for good (the comment in update_power_save).           *)
(*                                                                         *)
(* A step of the application is its code between two places where a step   *)
(* of the worker matters; a step of the worker is one event handler, which *)
(* runs under the LVGL lock.                                               *)
(***************************************************************************)
EXTENDS Naturals

CONSTANTS
  DimAt, OffAt,  \* idle time at which the screen dims and goes off, by "keep awake"
  Shown,         \* what may be to be shown
  MaxIdle,       \* bound: the longest idle time told apart
  MaxNews        \* bound: how often what is to be shown changes

ASSUME MaxIdleAssumption == MaxIdle \in Nat
ASSUME DimAtAssumption == DimAt \in [BOOLEAN -> 1..MaxIdle]
ASSUME OffAtAssumption == OffAt \in [BOOLEAN -> 1..MaxIdle]
ASSUME MaxNewsAssumption == MaxNews \in Nat

\* What is shown of a printer: idle, printing, or waiting for the user to
\* feed filament; and whether there is a camera page.
Statuses == {"idle", "printing", "feed"}
ASSUME ShownAssumption == Shown \subseteq [status : Statuses, camera : BOOLEAN]
Nothing == [status |-> "none", camera |-> FALSE]
Pages == {"select", "main", "camera"}

VARIABLES
  app,        \* where the application is in its loop
  target,     \* update_power_save: target_mode
  sampled,    \* the worker took a touch sample since update_power_save read the clock
  snap,       \* what the application would show now
  drawn,      \* what apply_snapshot_locked was last given
  deferred,   \* deferred_snapshot_, Nothing if none is pending
  mode,       \* screen_power_mode_
  bright,     \* applied_brightness_percent_
  idle,       \* the time since last_activity_tick_ms_
  battery,    \* power saving applies: on battery, or enabled on USB
  asked,      \* the worker is asked to pause
  paused,     \* the worker has paused
  finger,     \* the finger is on the screen, and the touch line low
  pressed,    \* LVGL has seen it
  gesture,    \* gesture_active_
  drag,       \* "swipe" is swipe_switched_, "bright" overlay_visible_ and pager_scroll_locked_
  scrolling,  \* scrolling_
  moving,     \* LVGL scrolls the pager, and will tell when it has
  page,       \* active_page_
  news        \* bound

loop == <<app, target>>
power == <<mode, bright, idle, asked, paused>>
touch == <<pressed, gesture, drag>>
pager == <<drawn, deferred, scrolling, moving, page>>
world == <<snap, battery, finger, news>>
vars == <<loop, sampled, power, touch, pager, world>>

(***************************************************************************)
(* Power.                                                                  *)
(***************************************************************************)
\* apply_brightness_policy
Brightness(m) ==
  CASE m = "awake" -> "full" [] m = "dimmed" -> "dim" [] m = "off" -> "zero"

\* Mutant: whether the screen was off is asked after it was set awake, so the
\* worker is not resumed.
WakeLeavesPause ==
  /\ idle' = 0
  /\ mode' = "awake"
  /\ bright' = IF mode = "awake" THEN bright ELSE "full"
  /\ UNCHANGED <<asked, paused>>

\* note_activity(true): wake_display does nothing to a screen that is awake.
Wake ==
  /\ idle' = 0
  /\ mode' = "awake"
  /\ bright' = IF mode = "awake" THEN bright ELSE "full"
  /\ asked' = (asked /\ mode # "off")
  /\ paused' = (paused /\ mode # "off")

\* note_activity(false)
Active ==
  /\ idle' = 0
  /\ UNCHANGED <<mode, bright, asked, paused>>

Keep == snap.status = "printing" \/ scrolling \/ page = "camera"

Target ==
  CASE battery /\ idle >= OffAt[Keep] -> "off"
    [] battery /\ idle < OffAt[Keep] /\ idle >= DimAt[Keep] -> "dimmed"
    [] OTHER -> "awake"

(***************************************************************************)
(* What is drawn.                                                          *)
(***************************************************************************)
\* Mutant: the screen is woken by every snapshot.
DrawWakesAlways(s, p) ==
  /\ drawn' = s /\ deferred' = Nothing
  /\ page' = IF p = "camera" /\ ~s.camera THEN "select" ELSE p
  /\ scrolling' = FALSE
  /\ Wake

\* apply_snapshot_locked with update_page_availability_locked, on page p: a
\* page that is gone is left for the first one, and a new status wakes.
Draw(s, p) ==
  /\ drawn' = s /\ deferred' = Nothing
  /\ page' = IF p = "camera" /\ ~s.camera THEN "select" ELSE p
  /\ scrolling' = FALSE
  /\ IF s.status # drawn.status THEN Wake ELSE UNCHANGED power

Goto(place) == app' = place /\ UNCHANGED target

\* apply_snapshot: the test without the lock.
ApplyTest ==
  /\ app = "apply"
  /\ Goto(IF scrolling THEN "feed" ELSE "lock")
  /\ UNCHANGED <<sampled, power, touch, pager, world>>

\* The lock is not had in time: the snapshot is dropped.
LockTimesOut ==
  /\ app = "lock"
  /\ Goto("feed")
  /\ UNCHANGED <<sampled, power, touch, pager, world>>

Apply ==
  /\ app = "lock"
  /\ Goto("feed")
  /\ \/ /\ scrolling
        /\ deferred' = snap
        /\ UNCHANGED <<drawn, scrolling, page, power>>
     \/ /\ ~scrolling
        /\ Draw(snap, page)
  /\ UNCHANGED moving
  /\ UNCHANGED <<sampled, touch, world>>

\* The printer waits for filament from the outer spool: request_wake_display.
Feed ==
  /\ app = "feed"
  /\ Goto("power")
  /\ IF snap.status = "feed" THEN Wake ELSE UNCHANGED power
  /\ UNCHANGED <<sampled, touch, pager, world>>

(***************************************************************************)
(* update_power_save, which is not under the lock.                         *)
(***************************************************************************)
\* gpio_get_level(BSP_LCD_TOUCH_INT) == 0
TouchLine == finger

PowerRead ==
  /\ app = "power"
  /\ sampled' = FALSE
  /\ IF mode = "off" /\ TouchLine
     THEN Wake /\ Goto("wait")
     ELSE /\ target' = Target
          /\ app' = IF mode = Target THEN "wait" ELSE "commit"
          /\ UNCHANGED power
  /\ UNCHANGED <<touch, pager, world>>

PowerCommit ==
  /\ app = "commit"
  /\ mode' = target
  /\ target' = "awake"
  /\ IF target = "off" /\ mode # "off"
     THEN app' = "pause" /\ UNCHANGED <<bright, asked, paused>>
     ELSE /\ app' = "wait"
          /\ bright' = Brightness(target)
          /\ asked' = (asked /\ mode # "off")
          /\ paused' = (paused /\ mode # "off")
  /\ UNCHANGED <<sampled, idle, touch, pager, world>>

\* esp_lv_adapter_pause asks the worker ...
Pause ==
  /\ app = "pause"
  /\ Goto("pausing")
  /\ asked' = ~paused
  /\ UNCHANGED <<sampled, mode, bright, idle, paused, touch, pager, world>>

\* ... and has its answer ...
Paused ==
  /\ app = "pausing" /\ paused
  /\ Goto("dark")
  /\ UNCHANGED <<sampled, power, touch, pager, world>>

\* Mutant: the screen goes dark though the worker goes on.
PauseTimeoutGoesDark ==
  /\ app = "pausing" /\ ~paused
  /\ Goto("dark")
  /\ asked' = FALSE
  /\ UNCHANGED <<sampled, mode, bright, idle, paused, touch, pager, world>>

\* ... or not in time.
PauseTimeout ==
  /\ app = "pausing" /\ ~paused
  /\ Goto("wait")
  /\ asked' = FALSE
  /\ idle' = 0 /\ mode' = "awake"
  /\ UNCHANGED <<sampled, bright, paused, touch, pager, world>>

Dark ==
  /\ app = "dark"
  /\ Goto("wait")
  /\ bright' = Brightness(mode)
  /\ UNCHANGED <<sampled, mode, idle, asked, paused, touch, pager, world>>

(***************************************************************************)
(* wait_for_next_iteration polls the touch line of a dark screen.  The     *)
(* wait is long enough for LVGL to sample a finger that is down.           *)
(***************************************************************************)
WaitEnds ==
  /\ app = "wait"
  /\ gesture /\ ~paused => idle = 0
  /\ Goto("apply")
  /\ IF mode = "off" /\ TouchLine THEN Wake ELSE UNCHANGED power
  /\ UNCHANGED <<sampled, touch, pager, world>>

(***************************************************************************)
(* The worker.  From the reading of the clock in update_power_save to the  *)
(* pause it takes at most one touch sample: samples are at least 10 ms     *)
(* apart, and it pauses at the end of the cycle it is in.                  *)
(***************************************************************************)
Window == app \in {"commit", "pause", "pausing"}

Sample ==
  /\ ~paused
  /\ ~(Window /\ sampled)
  /\ sampled' = Window

Acknowledge ==
  /\ asked /\ ~paused
  /\ paused' = TRUE /\ asked' = FALSE
  /\ UNCHANGED <<loop, sampled, mode, bright, idle, touch, pager, world>>

\* LV_EVENT_PRESSED: the first touch wakes, and is no gesture.
Press ==
  /\ finger /\ ~pressed
  /\ Sample
  /\ pressed' = TRUE /\ drag' = "none"
  /\ gesture' = (mode # "off")
  /\ IF mode = "off" THEN Wake ELSE Active
  /\ UNCHANGED <<loop, pager, world>>

\* LV_EVENT_PRESSING, the finger where it was
Hold ==
  /\ finger /\ pressed /\ gesture /\ idle > 0
  /\ Sample
  /\ Active
  /\ UNCHANGED <<loop, touch, pager, world>>

\* LV_EVENT_PRESSING and LV_EVENT_SCROLL_BEGIN, the finger moving sideways
Swipe ==
  /\ finger /\ pressed /\ drag = "none" /\ ~moving
  /\ Sample
  /\ moving' = TRUE /\ scrolling' = TRUE
  /\ drag' = IF gesture THEN "swipe" ELSE drag
  /\ IF gesture THEN Active ELSE UNCHANGED power
  /\ UNCHANGED <<loop, pressed, gesture, drawn, deferred, page, world>>

BrightenRest ==
  /\ finger /\ pressed /\ gesture /\ drag # "swipe"
  /\ Sample
  /\ idle' = 0
  /\ bright' = Brightness(mode)
  /\ drag' = "bright"
  /\ moving' = FALSE
  /\ UNCHANGED <<loop, mode, asked, paused, pressed, gesture, drawn, deferred, page, world>>

\* Mutant: the pager is held, and its scroll not forgotten.
BrightenLeavesScroll == BrightenRest /\ UNCHANGED scrolling

\* LV_EVENT_PRESSING, the finger moving up or down: set_brightness_percent,
\* and the pager is held at the active page.
Brighten == BrightenRest /\ scrolling' = FALSE

\* LV_EVENT_RELEASED
Release ==
  /\ ~finger /\ pressed
  /\ Sample
  /\ pressed' = FALSE /\ gesture' = FALSE /\ drag' = "none"
  /\ IF gesture THEN Active ELSE UNCHANGED power
  /\ UNCHANGED <<loop, pager, world>>

Reachable == {p \in Pages : p = "camera" => drawn.camera}

\* LV_EVENT_SCROLL_END: the pager rests on one of the pages there are, and
\* a snapshot that came meanwhile is drawn.
ScrollEnd ==
  /\ moving /\ ~pressed /\ ~paused
  /\ moving' = FALSE
  /\ \E p \in Reachable :
       IF deferred # Nothing
       THEN Draw(deferred, p)
       ELSE /\ page' = p /\ scrolling' = FALSE
            /\ UNCHANGED <<drawn, deferred, power>>
  /\ UNCHANGED <<loop, sampled, touch, world>>

(***************************************************************************)
(* The surroundings.  The application reads the power supply and what is   *)
(* to be shown once in an iteration.                                       *)
(***************************************************************************)
\* Time passes while the application waits; with the worker running, a scroll
\* is over before it tells, and a gesture under way is activity (Hold).
Tick ==
  /\ app = "wait" /\ idle < MaxIdle
  /\ scrolling \/ gesture => paused
  /\ idle' = idle + 1
  /\ UNCHANGED <<loop, sampled, mode, bright, asked, paused, touch, pager, world>>

Finger ==
  /\ finger' = ~finger
  /\ UNCHANGED <<loop, sampled, power, touch, pager, snap, battery, news>>

Plug ==
  /\ app = "wait"
  /\ battery' = ~battery
  /\ UNCHANGED <<loop, sampled, power, touch, pager, snap, finger, news>>

News ==
  /\ app = "wait" /\ news < MaxNews
  /\ snap' \in Shown
  /\ news' = news + 1
  /\ UNCHANGED <<loop, sampled, power, touch, pager, battery, finger>>

Init ==
  /\ app = "apply" /\ target = "awake" /\ sampled = FALSE
  /\ snap \in Shown /\ drawn = Nothing /\ deferred = Nothing
  /\ mode = "awake" /\ bright = "full" /\ idle = 0
  /\ battery \in BOOLEAN
  /\ asked = FALSE /\ paused = FALSE
  /\ finger = FALSE /\ pressed = FALSE /\ gesture = FALSE /\ drag = "none"
  /\ scrolling = FALSE /\ moving = FALSE /\ page = "main" /\ news = 0

PowerSave == PowerRead \/ PowerCommit \/ Pause \/ Paused \/ PauseTimeout \/ Dark
Application == ApplyTest \/ LockTimesOut \/ Apply \/ Feed \/ PowerSave \/ WaitEnds
Touch == Press \/ Hold \/ Swipe \/ Brighten \/ Release
Next == Application \/ Acknowledge \/ Touch \/ ScrollEnd \/ Tick \/ Finger \/ Plug \/ News

Spec == Init /\ [][Next]_vars

(***************************************************************************)
(* The application's loop goes on, with the lock and with the pause it     *)
(* asks for now and then; the worker, while it is not paused, samples the  *)
(* touch and lets a scroll end; time passes.  Nothing is assumed of the    *)
(* finger, of the power supply or of what is to be shown.                  *)
(***************************************************************************)
FairSpec ==
  /\ Spec
  /\ WF_vars(Application) /\ SF_vars(Apply) /\ SF_vars(Acknowledge)
  /\ WF_vars(Hold) /\ SF_vars(Release) /\ WF_vars(ScrollEnd) /\ SF_vars(Tick)

LoopOK ==
  /\ app \in {"apply", "lock", "feed", "power", "commit", "pause", "pausing", "dark", "wait"}
  /\ target \in {"awake", "dimmed", "off"}

PowerOK ==
  /\ mode \in {"awake", "dimmed", "off"} /\ bright \in {"full", "dim", "zero"}
  /\ idle \in 0..MaxIdle
  /\ asked \in BOOLEAN /\ paused \in BOOLEAN

TouchOK ==
  /\ sampled \in BOOLEAN /\ pressed \in BOOLEAN /\ gesture \in BOOLEAN
  /\ drag \in {"none", "swipe", "bright"}

PagerOK ==
  /\ drawn \in Shown \union {Nothing} /\ deferred \in Shown \union {Nothing}
  /\ scrolling \in BOOLEAN /\ moving \in BOOLEAN /\ page \in Pages

WorldOK ==
  /\ snap \in Shown /\ battery \in BOOLEAN /\ finger \in BOOLEAN
  /\ news \in 0..MaxNews

TypeOK == LoopOK /\ PowerOK /\ TouchOK /\ PagerOK /\ WorldOK

(***************************************************************************)
(* The panel is never dark while the worker runs, which would block it for *)
(* good: neither by the screen going off, nor by a gesture, a touch or a   *)
(* plug in the moment it does (update_power_save, set_brightness_percent). *)
(***************************************************************************)
DarkMeansPaused == bright = "zero" => paused

(***************************************************************************)
(* Once the finger is away, a screen that stays lit, by a worker that      *)
(* runs, comes to show what is to be shown: no snapshot is lost for good   *)
(* to a scroll or to a lock that was not had.                              *)
(***************************************************************************)
NewsDrawn == <>[](~finger /\ mode # "off" /\ ~paused) => <>[](drawn = snap)

LeftAlone == ~finger /\ battery /\ snap.status # "feed"

(***************************************************************************)
(* Left alone on battery, the screen goes off for good, whatever it shows: *)
(* neither failed pauses nor snapshots that repeat keep it awake.          *)
(***************************************************************************)
IdleGoesDark == <>[]LeftAlone => <>[](mode = "off" /\ bright = "zero")

(***************************************************************************)
(* A finger kept on a dark screen, whose worker sees no touches, lights it *)
(* and has the worker run again, whoever notices the finger first: the     *)
(* wait of the application, its update_power_save or a snapshot that wakes.*)
(***************************************************************************)
TouchWakes == finger /\ bright = "zero" ~> ~finger \/ (bright # "zero" /\ ~paused)
=============================================================================
