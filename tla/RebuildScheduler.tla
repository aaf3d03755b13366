----------------------------- MODULE RebuildScheduler -----------------------------
(* The rebuild scheduler of src/main/src/printer_client.cpp, one atomic access per *)
(* action: schedule_client_rebuild, cancel_client_rebuild, the backoff collapse of *)
(* notify_cloud_presence and set_network_ready, and the check in task_loop are     *)
(* short programs over four std::atomic members that four threads run with no     *)
(* lock between them.  PrinterClient models the same code with each of these       *)
(* programs as one step and the delays left out.                                   *)
(*                                                                                 *)
(* Time.  A tick is modelled by its age in ms, Unset is the value 0; an age moves  *)
(* to the next of the delays the code compares it with.                            *)
EXTENDS Integers

CONSTANTS MaxErrors, \* bound: consecutive_mqtt_errors_ saturates here
          MaxHints   \* bound: calls of notify_cloud_presence and set_network_ready

ASSUME BoundAssumption == MaxErrors \in Nat /\ MaxHints \in Nat

VARIABLES
  req,        \* client_rebuild_requested_
  force,      \* force_client_rebuild_
  age,        \* age of rebuild_request_tick_, or Unset
  delay,      \* rebuild_delay_ticks_, in ms
  connected,  \* mqtt_connected_
  session,    \* session_ever_established_
  established,\* history: a session was established since the profile was configured
  errs,       \* consecutive_mqtt_errors_, a plain uint32_t
  client,     \* client_ is not null: the esp-mqtt task runs
  pc,         \* the next access of each thread
  want,       \* the arguments of each thread's schedule_client_rebuild
  then,       \* where each thread goes on after its cancel_client_rebuild
  saw,        \* what a thread has read and not used yet: force and tick in the
              \* check of task_loop, the incremented error count in the handler
  hints       \* how much of MaxHints is used

vars == <<req, force, age, delay, connected, session, established, errs, client, pc, want, then,
          saw, hints>>
sched == <<req, force, age, delay>>
sessionVars == <<connected, session, established>>

(* The printer task, the esp-mqtt task of the local client, the task of the cloud  *)
(* client and the application task.                                                *)
Threads == {"printer", "mqtt", "cloud", "app"}

Unset == -1
kHintDelayMs == 250
kRebuildDelayMs == 1500
kEstablishedCapMs == 5000

(* The growing backoff after n consecutive errors (handle_mqtt_event, ERROR). *)
Backoff(n) == IF n <= 1 THEN 2000
              ELSE IF n <= 2 THEN 4000
              ELSE IF n <= 4 THEN 8000
              ELSE IF n <= 6 THEN 15000
              ELSE IF n <= 8 THEN 30000
              ELSE IF n <= 10 THEN 60000
              ELSE IF n <= 12 THEN 120000 ELSE 300000

(* The stall watchdog uses the same curve with kRebuildDelayMs at its foot. *)
StallBackoff(n) == IF n <= 1 THEN kRebuildDelayMs ELSE Backoff(n)

Delays == {0, kHintDelayMs, kRebuildDelayMs, kEstablishedCapMs}
            \cup {Backoff(n) : n \in 0..MaxErrors}

Request(ms, forced) == [ms |-> ms, forced |-> forced]
NoRequest == Request(0, FALSE)
Nothing == [force |-> FALSE, age |-> Unset, errs |-> 0]

Init == /\ req = FALSE /\ force = FALSE /\ age = Unset /\ delay = 0
        /\ connected = FALSE /\ session = FALSE /\ established = FALSE
        /\ errs = 0 /\ client = FALSE
        /\ pc = [t \in Threads |-> "idle"]
        /\ want = [t \in Threads |-> NoRequest]
        /\ then = [t \in Threads |-> "idle"]
        /\ saw = Nothing
        /\ hints = 0

Goto(t, label) == pc' = [pc EXCEPT ![t] = label]
At(t, label) == pc[t] = label

----------------------------------------------------------------------------------
(* schedule_client_rebuild, run by thread t with the arguments want[t].            *)

(* The delay of a session that was once established is capped. *)
ReadSession(t) ==
  /\ At(t, "cap")
  /\ want' = [want EXCEPT ![t].ms = IF session /\ @ > kEstablishedCapMs
                                    THEN kEstablishedCapMs ELSE @]
  /\ Goto(t, IF want[t].forced THEN "force" ELSE "exchange")
  /\ UNCHANGED <<sched, sessionVars, errs, client, then, saw, hints>>

SetForce(t) ==
  /\ At(t, "force")
  /\ force' = TRUE
  /\ Goto(t, "exchange")
  /\ UNCHANGED <<req, age, delay, sessionVars, errs, client, want, then, saw, hints>>

(* client_rebuild_requested_.exchange(true): a request that is not forced is        *)
(* absorbed by a pending one.                                                       *)
Exchange(t) ==
  /\ At(t, "exchange")
  /\ req' = TRUE
  /\ IF ~req \/ want[t].forced
     THEN Goto(t, "tick") /\ UNCHANGED want
     ELSE Goto(t, "idle") /\ want' = [want EXCEPT ![t] = NoRequest]
  /\ UNCHANGED <<force, age, delay, sessionVars, errs, client, then, saw, hints>>

SetTick(t) ==
  /\ At(t, "tick")
  /\ age' = 0
  /\ Goto(t, "delay")
  /\ UNCHANGED <<req, force, delay, sessionVars, errs, client, want, then, saw, hints>>

SetDelay(t) ==
  /\ At(t, "delay")
  /\ delay' = want[t].ms
  /\ want' = [want EXCEPT ![t] = NoRequest]
  /\ Goto(t, "idle")
  /\ UNCHANGED <<req, force, age, sessionVars, errs, client, then, saw, hints>>

ScheduleStep(t) == \/ ReadSession(t) \/ SetForce(t) \/ Exchange(t)
                   \/ SetTick(t) \/ SetDelay(t)

(* cancel_client_rebuild; stop_client makes the same four stores in the same order. *)
(* then[t] is where thread t goes on afterwards.                                    *)
BeginCancel(t, label) == /\ Goto(t, "unreq")
                         /\ then' = [then EXCEPT ![t] = label]

ClearRequest(t) ==
  /\ At(t, "unreq")
  /\ req' = FALSE
  /\ Goto(t, "unforce")
  /\ UNCHANGED <<force, age, delay, sessionVars, errs, client, want, then, saw, hints>>

(* Mutation: a cancel leaves force_client_rebuild_ alone. *)
ClearForceMutant(t) ==
  /\ At(t, "unforce")
  /\ Goto(t, "untick")
  /\ UNCHANGED <<sched, sessionVars, errs, client, want, then, saw, hints>>

ClearForce(t) ==
  /\ At(t, "unforce")
  /\ force' = FALSE
  /\ Goto(t, "untick")
  /\ UNCHANGED <<req, age, delay, sessionVars, errs, client, want, then, saw, hints>>

ClearTick(t) ==
  /\ At(t, "untick")
  /\ age' = Unset
  /\ Goto(t, "undelay")
  /\ UNCHANGED <<req, force, delay, sessionVars, errs, client, want, then, saw, hints>>

ClearDelay(t) ==
  /\ At(t, "undelay")
  /\ delay' = 0
  /\ Goto(t, then[t])
  /\ then' = [then EXCEPT ![t] = "idle"]
  /\ UNCHANGED <<req, force, age, sessionVars, errs, client, want, saw, hints>>

CancelStep(t) == ClearRequest(t) \/ ClearForce(t) \/ ClearTick(t) \/ ClearDelay(t)

----------------------------------------------------------------------------------
(* The esp-mqtt task: the handler of the events that touch the scheduler.           *)
MqttIdle == client /\ At("mqtt", "idle") /\ ~At("printer", "join")

(* CONNECTED cancels, then (Online) sets the flags.  SUBSCRIBED, and DATA with the  *)
(* first payload of a session, only cancel.                                         *)
MqttConnected ==
  /\ MqttIdle /\ ~connected
  /\ BeginCancel("mqtt", "online")
  /\ UNCHANGED <<sched, sessionVars, errs, client, want, saw, hints>>

Online ==
  /\ At("mqtt", "online")
  /\ connected' = TRUE /\ session' = TRUE /\ established' = TRUE
  /\ errs' = 0
  /\ Goto("mqtt", "idle")
  /\ UNCHANGED <<sched, client, want, then, saw, hints>>

MqttSubscribedOrFirstPayload ==
  /\ MqttIdle /\ connected
  /\ BeginCancel("mqtt", "idle")
  /\ UNCHANGED <<sched, sessionVars, errs, client, want, saw, hints>>

MqttDisconnected ==
  /\ MqttIdle /\ connected
  /\ connected' = FALSE
  /\ UNCHANGED <<sched, session, established, errs, client, pc, want, then, saw, hints>>

(* ERROR clears the flags and ends with ++consecutive_mqtt_errors_ - a load, and a  *)
(* store another thread's reset may come before - and a rebuild after the backoff.  *)
MqttError ==
  LET n == IF errs < MaxErrors THEN errs + 1 ELSE errs IN
  /\ MqttIdle
  /\ connected' = FALSE
  /\ want' = [want EXCEPT !["mqtt"] = Request(Backoff(n), FALSE)]
  /\ saw' = [saw EXCEPT !.errs = n]
  /\ Goto("mqtt", "count")
  /\ UNCHANGED <<sched, session, established, errs, client, then, hints>>

StoreErrors ==
  /\ At("mqtt", "count")
  /\ errs' = saw.errs
  /\ saw' = [saw EXCEPT !.errs = 0]
  /\ Goto("mqtt", "cap")
  /\ UNCHANGED <<sched, sessionVars, client, want, then, hints>>

----------------------------------------------------------------------------------
(* The hints, from the cloud task and from the application task.  Both reset the    *)
(* error count and, if a rebuild is pending, restart it with the shortest delay.    *)
Hint(t) ==
  /\ At(t, "idle") /\ hints < MaxHints
  /\ t = "cloud" => ~connected
  /\ hints' = hints + 1
  /\ errs' = 0
  /\ Goto(t, "pending")
  /\ UNCHANGED <<sched, sessionVars, client, want, then, saw>>

(* notify_cloud_presence also asks for a rebuild when none is pending. *)
ReadPending(t) ==
  LET asks == t = "cloud" /\ client /\ ~connected IN
  /\ At(t, "pending")
  /\ want' = [want EXCEPT ![t] = IF req \/ asks THEN Request(kHintDelayMs, FALSE) ELSE @]
  /\ Goto(t, IF req THEN "tick" ELSE IF asks THEN "cap" ELSE "idle")
  /\ UNCHANGED <<sched, sessionVars, errs, client, then, saw, hints>>

----------------------------------------------------------------------------------
(* The printer task: the check at the top of task_loop ...                          *)
ReadRequest ==
  /\ At("printer", "idle")
  /\ req
  /\ Goto("printer", "readForce")
  /\ UNCHANGED <<sched, sessionVars, errs, client, want, then, saw, hints>>

ReadForce ==
  /\ At("printer", "readForce")
  /\ saw' = [saw EXCEPT !.force = force]
  /\ Goto("printer", "readConnected")
  /\ UNCHANGED <<sched, sessionVars, errs, client, want, then, hints>>

(* ... a rebuild that is not forced is dropped when the session is up ... *)
ReadConnected ==
  /\ At("printer", "readConnected")
  /\ IF connected /\ ~saw.force
     THEN BeginCancel("printer", "idle")
     ELSE Goto("printer", "readTick") /\ UNCHANGED then
  /\ saw' = [saw EXCEPT !.force = FALSE]
  /\ UNCHANGED <<sched, sessionVars, errs, client, want, hints>>

ReadTick ==
  /\ At("printer", "readTick")
  /\ saw' = [saw EXCEPT !.age = age]
  /\ Goto("printer", "readDelay")
  /\ UNCHANGED <<sched, sessionVars, errs, client, want, then, hints>>

(* Mutation: a rebuild without a tick is not due. *)
DueMutant(tick, ms) == tick # Unset /\ tick >= ms

(* ... and executed when it has no tick or its delay is over; otherwise the task    *)
(* waits and checks again.                                                          *)
Due(tick, ms) == tick = Unset \/ tick >= ms

ReadDelay ==
  /\ At("printer", "readDelay")
  /\ Goto("printer", IF Due(saw.age, delay) THEN "stop" ELSE "idle")
  /\ saw' = [saw EXCEPT !.age = Unset]
  /\ UNCHANGED <<sched, sessionVars, errs, client, want, then, hints>>

(* stop_client clears the flags, then the request ... *)
StopClear ==
  /\ At("printer", "stop")
  /\ connected' = FALSE /\ session' = FALSE
  /\ BeginCancel("printer", "halt")
  /\ UNCHANGED <<sched, established, errs, client, want, saw, hints>>

(* ... tells the esp-mqtt task to end ... *)
StopHalt ==
  /\ At("printer", "halt")
  /\ Goto("printer", "join")
  /\ UNCHANGED <<sched, sessionVars, errs, client, want, then, saw, hints>>

(* ... and joins it; task_loop cancels once more. *)
StopJoin ==
  /\ At("printer", "join")
  /\ At("mqtt", "idle")
  /\ client' = FALSE
  /\ BeginCancel("printer", "idle")
  /\ UNCHANGED <<sched, sessionVars, errs, want, saw, hints>>

(* Without a request the task creates a missing client ... *)
CreateClient ==
  /\ At("printer", "idle")
  /\ ~req /\ ~client
  /\ client' = TRUE
  /\ UNCHANGED <<sched, sessionVars, errs, pc, want, then, saw, hints>>

(* ... or runs its watchdogs: a session without data, forced; a client that stays   *)
(* disconnected, after the backoff.                                                 *)
Watchdog ==
  /\ At("printer", "idle")
  /\ ~req /\ client
  /\ want' = [want EXCEPT !["printer"] =
               IF connected THEN Request(kRebuildDelayMs, TRUE)
                            ELSE Request(StallBackoff(errs), FALSE)]
  /\ Goto("printer", "cap")
  /\ UNCHANGED <<sched, sessionVars, errs, client, then, saw, hints>>

----------------------------------------------------------------------------------
(* Time. *)
Age ==
  /\ age # Unset
  /\ \E a \in Delays : /\ a > age
                      /\ \A b \in Delays : b > age => a <= b
                      /\ age' = a
  /\ UNCHANGED <<req, force, delay, sessionVars, errs, client, pc, want, then, saw,
                 hints>>

PrinterCheck == \/ ReadRequest \/ ReadForce \/ ReadConnected \/ ReadTick
                \/ ReadDelay \/ StopClear \/ StopHalt \/ StopJoin \/ CreateClient
Program(t) == ScheduleStep(t) \/ CancelStep(t)

(* The steps a thread takes without waiting for an event. *)
Busy(t) == \/ Program(t)
           \/ t = "printer" /\ PrinterCheck
           \/ t = "mqtt" /\ (Online \/ StoreErrors)
           \/ t \in {"cloud", "app"} /\ ReadPending(t)

MqttEvent == \/ MqttConnected \/ MqttSubscribedOrFirstPayload
             \/ MqttDisconnected \/ MqttError

Next == \/ \E t \in Threads : Busy(t)
        \/ MqttEvent
        \/ \E t \in {"cloud", "app"} : Hint(t)
        \/ Watchdog
        \/ Age

Spec == Init /\ [][Next]_vars

(* Every thread is scheduled and time passes; no event, hint or watchdog has to     *)
(* come.                                                                            *)
Fairness == /\ \A t \in Threads : WF_vars(Busy(t))
            /\ WF_vars(Age)

FairSpec == Spec /\ Fairness

----------------------------------------------------------------------------------
(* Properties. *)
Labels == {"idle", "cap", "force", "exchange", "tick", "delay", "unreq", "unforce",
           "untick", "undelay", "online", "count", "pending", "readForce",
           "readConnected", "readTick", "readDelay", "stop", "halt", "join"}

Requests == [ms : Nat, forced : BOOLEAN]

(* Type correctness of the scheduler's members and of the locals of its programs. *)
FlagsOK == /\ req \in BOOLEAN /\ force \in BOOLEAN
           /\ connected \in BOOLEAN /\ session \in BOOLEAN
           /\ established \in BOOLEAN /\ client \in BOOLEAN

DataOK == /\ age \in Nat \cup {Unset} /\ delay \in Nat
          /\ errs \in Nat /\ hints \in Nat
          /\ pc \in [Threads -> Labels]
          /\ want \in [Threads -> Requests]
          /\ then \in [Threads -> {"idle", "online", "halt"}]
          /\ saw \in [force : BOOLEAN, age : Nat \cup {Unset}, errs : Nat]

TypeOK == FlagsOK /\ DataOK

(* force_client_rebuild_ never outlives the request it belongs to: whenever it is   *)
(* set without a request, either the request is about to be set too, or a cancel is *)
(* about to clear it.  Otherwise the next ordinary request would tear down a        *)
(* session that is up.                                                              *)
NoOrphanForce ==
  force => \/ req
           \/ At("printer", "exchange")
           \/ \E t \in Threads : At(t, "unforce")

(* Every request is served: the rebuild is executed or cancelled, although errors   *)
(* and watchdogs repeat it and cancels interleave with it.                          *)
RequestServed == req ~> ~req
==================================================================================
