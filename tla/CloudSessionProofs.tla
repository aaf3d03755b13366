---------------------------- MODULE CloudSessionProofs ----------------------------
(* What holds of CloudSession for every set of accounts and every bound: the esp-mqtt *)
(* client and the cloud client use one token, and a refusal discards no other.        *)
EXTENDS CloudSession, TLAPS

(* While the token is about to be loaded nothing is left of the session of before. *)
FreshAtToken == pc = "token" => client = None /\ ~recovery

(* A refusal that waits to be handled, or is being handled, is of the token of now. *)
RefusalPending == (recovery \/ pc = "drop") => token \in {refused, None}

(* OneSession is not inductive: LoadToken changes the token, and Refused takes the   *)
(* token of the esp-mqtt client for the one that is to be discarded.                 *)
IInv == OneSession /\ FreshAtToken /\ RefusalPending

-----------------------------------------------------------------------------------
(* At the start there is no session. *)
LEMMA InitInv == Init => IInv
  BY DEF Init, IInv, OneSession, FreshAtToken, RefusalPending

(* The cloud task's steps up to the login keep the invariant. *)
LEMMA TaskStepsBefore ==
  ASSUME IInv, TaskConfigure \/ TaskReload \/ LoadToken \/ TaskRecover \/ TaskDrop
  PROVE  IInv'
<1> USE DEF IInv, OneSession, FreshAtToken, RefusalPending, session, mqtt, Stop
<1>1. CASE TaskConfigure
  BY <1>1 DEF TaskConfigure, Apply
<1>2. CASE TaskReload
  BY <1>2 DEF TaskReload, Apply
<1>3. CASE LoadToken
  BY <1>3 DEF LoadToken
<1>4. CASE TaskRecover
  BY <1>4 DEF TaskRecover
<1>5. CASE TaskDrop
  BY <1>5 DEF TaskDrop
<1>6. QED
  BY <1>1, <1>2, <1>3, <1>4, <1>5

(* So do the login, the live client and the requests of a round. *)
LEMMA TaskStepsAfter ==
  ASSUME IInv,
         \/ TaskGate \/ TaskLogin \/ LoginSucceeds \/ LoginFails \/ Persist \/ TaskMqtt
         \/ FetchEnds \/ FetchDenied
  PROVE  IInv'
<1> USE DEF IInv, OneSession, FreshAtToken, RefusalPending, session, mqtt, Stop
<1>1. CASE TaskGate
  BY <1>1 DEF TaskGate
<1>2. CASE TaskLogin
  BY <1>2 DEF TaskLogin
<1>3. CASE LoginSucceeds
  BY <1>3 DEF LoginSucceeds
<1>4. CASE LoginFails
  BY <1>4 DEF LoginFails
<1>5. CASE Persist
  BY <1>5 DEF Persist
<1>6. CASE TaskMqtt \/ FetchEnds
  BY <1>6 DEF TaskMqtt, FetchEnds, Started
<1>7. CASE FetchDenied
  BY <1>7 DEF FetchDenied
<1>8. QED
  BY <1>1, <1>2, <1>3, <1>4, <1>5, <1>6, <1>7

(* And so do all others: requests, the network, refusals, and a loss of power. *)
LEMMA OtherSteps ==
  ASSUME IInv,
         \/ PortalTask \/ SwitchLoad \/ SwitchConfigure \/ Network \/ Expire \/ Refused
         \/ RetryOver \/ Crash \/ UNCHANGED vars
  PROVE  IInv'
<1> USE DEF IInv, OneSession, FreshAtToken, RefusalPending, session, mqtt
<1>1. CASE PortalTask
  BY <1>1 DEF PortalTask, Connect, PortalSave, PortalReload, SubmitCode
<1>2. CASE SwitchLoad \/ SwitchConfigure \/ Network
  BY <1>2 DEF SwitchLoad, SwitchConfigure, Network
<1>3. CASE Expire \/ RetryOver
  BY <1>3 DEF Expire, RetryOver
<1>4. CASE Refused
  BY <1>4 DEF Refused
<1>5. CASE Crash
  BY <1>5 DEF Crash, Booted
<1>6. CASE UNCHANGED vars
  BY <1>6 DEF vars
<1>7. QED
  BY <1>1, <1>2, <1>3, <1>4, <1>5, <1>6

(* The invariant is inductive. *)
THEOREM Invariant == Spec => []IInv
<1>1. IInv /\ [Next]_vars => IInv'
  BY TaskStepsBefore, TaskStepsAfter, OtherSteps DEF Next, Task
<1>2. QED
  BY InitInv, <1>1, PTL DEF Spec

(* The types, one group of variables at a time. *)
LEMMA TypeInit == Init => TypeOK
<1> SUFFICES ASSUME Init PROVE TypeOK
  OBVIOUS
<1>1. StoreTypeOK
  BY SessionAssumption DEF Init, StoreTypeOK, Strings, Creds, PortalIdle
<1>2. SessionTypeOK
  BY SessionAssumption DEF Init, SessionTypeOK, Strings, PCs
<1>3. FlagsTypeOK
  BY Zenon DEF Init, FlagsTypeOK
<1>4. BoundsTypeOK
  BY SessionAssumption DEF Init, BoundsTypeOK
<1>5. QED
  BY <1>1, <1>2, <1>3, <1>4 DEF TypeOK

(* A step keeps what is in flash and on its way to it in its type. *)
LEMMA StoreStep == TypeOK /\ [Next]_vars => StoreTypeOK'
<1> SUFFICES ASSUME TypeOK, [Next]_vars PROVE StoreTypeOK'
  OBVIOUS
<1> USE SessionAssumption DEF TypeOK, StoreTypeOK, SessionTypeOK, Strings, Creds,
        flash, others, session, mqtt, bounds
<1>1. CASE Connect
  BY <1>1 DEF Connect
<1>2. CASE PortalSave
  BY <1>2 DEF PortalSave
<1>3. CASE PortalReload
  BY <1>3 DEF PortalReload, PortalIdle
<1>4. CASE SwitchLoad \/ SwitchConfigure \/ TaskConfigure
  BY <1>4 DEF SwitchLoad, SwitchConfigure, TaskConfigure, Apply
<1>5. CASE TaskDrop \/ FetchDenied
  BY <1>5 DEF TaskDrop, FetchDenied
<1>6. CASE Persist
  BY <1>6 DEF Persist
<1>7. CASE Crash
  BY <1>7 DEF Crash, Booted, PortalIdle
<1>8. CASE TaskReload \/ LoadToken \/ TaskRecover \/ TaskGate \/ TaskLogin \/
          LoginSucceeds \/ LoginFails \/ TaskMqtt \/ FetchEnds \/ SubmitCode \/
          Network \/ Expire \/ Refused \/ RetryOver
  BY <1>8 DEF TaskReload, Apply, LoadToken, TaskRecover, TaskGate, TaskLogin,
      LoginSucceeds, LoginFails, TaskMqtt, Started, FetchEnds, SubmitCode, Network,
      Expire, Refused, RetryOver
<1>9. CASE UNCHANGED vars
  BY <1>9 DEF vars
<1>10. QED
  BY <1>1, <1>2, <1>3, <1>4, <1>5, <1>6, <1>7, <1>8, <1>9 DEF Next, Task, PortalTask

(* A step keeps the session in its type. *)
LEMMA SessionStep == TypeOK /\ [Next]_vars => SessionTypeOK'
<1> SUFFICES ASSUME TypeOK, [Next]_vars PROVE SessionTypeOK'
  OBVIOUS
<1> USE SessionAssumption DEF TypeOK, StoreTypeOK, SessionTypeOK, BoundsTypeOK,
        Strings, Creds, PCs, flash, others, session, mqtt, bounds, Stop
<1>1. CASE TaskConfigure \/ TaskReload \/ LoadToken
  BY <1>1 DEF TaskConfigure, Apply, TaskReload, LoadToken
<1>2. CASE TaskRecover \/ TaskDrop
  BY <1>2 DEF TaskRecover, TaskDrop
<1>3. CASE TaskGate \/ TaskLogin
  BY <1>3 DEF TaskGate, TaskLogin
<1>4. CASE LoginSucceeds \/ LoginFails
  BY <1>4 DEF LoginSucceeds, LoginFails
<1>5. CASE Persist
  BY <1>5 DEF Persist
<1>6. CASE TaskMqtt \/ FetchEnds \/ FetchDenied
  BY <1>6 DEF TaskMqtt, Started, FetchEnds, FetchDenied
<1>7. CASE SubmitCode
  BY <1>7 DEF SubmitCode
<1>8. CASE Expire \/ Refused
  BY <1>8 DEF Expire, Refused
<1>9. CASE Crash
  BY <1>9 DEF Crash, Booted, PortalIdle
<1>10. CASE Connect \/ PortalSave \/ PortalReload \/ SwitchLoad \/ SwitchConfigure \/
          Network \/ RetryOver
  BY <1>10 DEF Connect, PortalSave, PortalReload, PortalIdle, SwitchLoad,
      SwitchConfigure, Network, RetryOver
<1>11. CASE UNCHANGED vars
  BY <1>11 DEF vars
<1>12. QED
  BY <1>1, <1>2, <1>3, <1>4, <1>5, <1>6, <1>7, <1>8, <1>9, <1>10, <1>11 DEF Next, Task, PortalTask

(* A step leaves the flags truth values. *)
LEMMA FlagsStep == TypeOK /\ [Next]_vars => FlagsTypeOK'
<1> SUFFICES ASSUME TypeOK, [Next]_vars PROVE FlagsTypeOK'
  OBVIOUS
<1> USE DEF TypeOK, FlagsTypeOK, session, mqtt, bounds, others
<1>1. CASE TaskConfigure
  BY <1>1, Zenon DEF TaskConfigure, Apply
<1>2. CASE TaskReload
  BY <1>2, Zenon DEF TaskReload, Apply
<1>3. CASE TaskRecover
  BY <1>3, Zenon DEF TaskRecover
<1>4. CASE LoginSucceeds
  BY <1>4, Zenon DEF LoginSucceeds
<1>5. CASE Persist
  BY <1>5, Zenon DEF Persist
<1>6. CASE PortalReload
  BY <1>6, Zenon DEF PortalReload, PortalIdle
<1>7. CASE Network
  BY <1>7, Zenon DEF Network
<1>8. CASE Refused
  BY <1>8, Zenon DEF Refused, CanLogin
<1>9. CASE RetryOver
  BY <1>9, Zenon DEF RetryOver
<1>10. CASE Crash
  BY <1>10, Zenon DEF Crash, Booted, PortalIdle
<1>11. CASE LoadToken \/ TaskDrop \/ TaskGate \/ TaskLogin \/ LoginFails \/ TaskMqtt
          \/ FetchEnds \/ FetchDenied \/ Connect \/ PortalSave \/ SubmitCode \/
          SwitchLoad \/ SwitchConfigure \/ Expire
  BY <1>11 DEF LoadToken, TaskDrop, TaskGate, TaskLogin, LoginFails, TaskMqtt,
      Started, FetchEnds, FetchDenied, Connect, PortalSave, SubmitCode, SwitchLoad,
      SwitchConfigure, Expire
<1>12. CASE UNCHANGED vars
  BY <1>12, Zenon DEF vars
<1>13. QED
  BY <1>1, <1>2, <1>3, <1>4, <1>5, <1>6, <1>7, <1>8, <1>9, <1>10, <1>11, <1>12 DEF Next, Task, PortalTask

(* A step keeps the counters in their bounds. *)
LEMMA BoundsStep == TypeOK /\ [Next]_vars => BoundsTypeOK'
<1> SUFFICES ASSUME TypeOK, [Next]_vars PROVE BoundsTypeOK'
  OBVIOUS
<1> USE SessionAssumption DEF TypeOK, BoundsTypeOK, bounds
<1>1. CASE Connect \/ SubmitCode \/ SwitchLoad
  BY <1>1 DEF Connect, SubmitCode, SwitchLoad
<1>2. CASE Network \/ Expire \/ Refused \/ FetchDenied
  BY <1>2 DEF Network, Expire, Refused, FetchDenied
<1>3. CASE Crash
  BY <1>3 DEF Crash, Booted, PortalIdle
<1>4. CASE TaskConfigure \/ TaskReload \/ LoadToken \/ TaskRecover \/ TaskDrop \/
          TaskGate \/ TaskLogin \/ LoginSucceeds \/ LoginFails \/ Persist \/ TaskMqtt
          \/ FetchEnds \/ PortalSave \/ PortalReload \/ SwitchConfigure \/ RetryOver
  BY <1>4 DEF TaskConfigure, Apply, TaskReload, LoadToken, TaskRecover, TaskDrop,
      TaskGate, TaskLogin, LoginSucceeds, LoginFails, Persist, TaskMqtt, Started,
      FetchEnds, PortalSave, PortalReload, PortalIdle, SwitchConfigure, RetryOver
<1>5. CASE UNCHANGED vars
  BY <1>5 DEF vars
<1>6. QED
  BY <1>1, <1>2, <1>3, <1>4, <1>5 DEF Next, Task, PortalTask

(* The variables keep their types. *)
THEOREM TypeCorrect == Spec => []TypeOK
<1>1. TypeOK /\ [Next]_vars => TypeOK'
  BY StoreStep, SessionStep, FlagsStep, BoundsStep DEF TypeOK
<1>2. QED
  BY TypeInit, <1>1, PTL DEF Spec

(* The esp-mqtt client never lives on with a token that the cloud client has not. *)
THEOREM SessionIsOne == Spec => []OneSession
<1>1. IInv => OneSession
  BY DEF IInv
<1>2. QED
  BY Invariant, <1>1, PTL

(* No refusal discards the token of a newer configuration or login. *)
THEOREM RefusalsHitTheirToken == Spec => RefusalIsCurrent
<1>1. IInv /\ [Next]_vars => [(pc = "drop" /\ token # None) => token = refused]_vars
  BY DEF IInv, RefusalPending
<1>2. QED
  BY Invariant, <1>1, PTL DEF Spec, RefusalIsCurrent

-----------------------------------------------------------------------------------
(* The portal is about to clear the token. *)
PortalClears == \/ portal.pc = "clear"
                \/ portal.pc \in {"email", "pass"} /\ portal.changed

(* What persist_access_token writes is the token of the credentials in RAM, and it is    *)
(* there, or has been cleared, until the e-mail has followed it.                         *)
TokenSaved == /\ pc = "persist" => token = email
              /\ pc \in {"previous", "email"} => sToken \in {email, None}

(* In between the token in flash is of the e-mail in flash, or about to be cleared.      *)
StoreOfOne == pc \notin {"previous", "email"} => sToken \in {sEmail, None} \/ PortalClears

(* A portal that has found no change still commits the e-mail that is there.             *)
PortalKnows == portal.pc = "email" /\ ~portal.changed => sEmail = portal.email

(* The token in RAM, and the one about to be loaded, is of the e-mail in RAM.            *)
TokenOfOne == ~old => /\ pc = "token" => sToken \in {email, None}
                      /\ token \in {email, None}

(* SessionOfAccount is not inductive: it says nothing of the steps between the commits.  *)
AccountInv == TokenSaved /\ (~torn => StoreOfOne /\ PortalKnows /\ TokenOfOne)

(* What the cloud task saves of its login. *)
LEMMA TokenSavedStep == TypeOK /\ TokenSaved /\ [Next]_vars => TokenSaved'
<1> SUFFICES ASSUME TypeOK, TokenSaved, [Next]_vars PROVE TokenSaved'
  OBVIOUS
<1> USE DEF TokenSaved, flash, others, session, mqtt, bounds
<1>1. CASE TaskConfigure \/ TaskReload
  BY <1>1 DEF TaskConfigure, TaskReload, Apply
<1>2. CASE LoadToken \/ TaskRecover \/ TaskDrop \/ TaskGate \/ TaskLogin
  BY <1>2 DEF LoadToken, TaskRecover, TaskDrop, TaskGate, TaskLogin
<1>3. CASE LoginSucceeds \/ LoginFails
  BY <1>3 DEF LoginSucceeds, LoginFails
<1>4. CASE Persist
  BY <1>4 DEF Persist
<1>5. CASE TaskMqtt \/ FetchEnds \/ FetchDenied
  BY <1>5 DEF TaskMqtt, FetchEnds, FetchDenied
<1>6. CASE PortalTask
  BY <1>6 DEF PortalTask, Connect, PortalSave, PortalReload, SubmitCode
<1>7. CASE SwitchLoad \/ SwitchConfigure \/ Network \/ Expire \/ Refused \/ RetryOver
  BY <1>7 DEF SwitchLoad, SwitchConfigure, Network, Expire, Refused, RetryOver
<1>8. CASE Crash
  BY <1>8 DEF Crash, Booted
<1>9. CASE UNCHANGED vars
  BY <1>9 DEF vars
<1>10. QED
  BY <1>1, <1>2, <1>3, <1>4, <1>5, <1>6, <1>7, <1>8, <1>9 DEF Next, Task

(* A tear is not forgotten; a loss of power that is none met neither save, and the task   *)
(* writes the e-mail of before while a portal that has found no change saves.             *)
LEMMA TornGrows ==
  ASSUME [Next]_vars, ~torn'
  PROVE  /\ ~torn
         /\ Crash => portal.pc = "idle" /\ pc \notin {"previous", "email", "pass", "clear"}
         /\ Persist /\ pc = "email" /\ portal.pc # "idle" /\ ~portal.changed => sEmail = email
<1> USE DEF others, session, mqtt, bounds
<1>1. ASSUME TaskConfigure \/ TaskReload \/ LoadToken \/ TaskRecover \/ TaskDrop PROVE ~torn
  BY <1>1, Zenon DEF TaskConfigure, TaskReload, LoadToken, TaskRecover, TaskDrop
<1>2. ASSUME TaskGate \/ TaskLogin \/ LoginSucceeds \/ LoginFails PROVE ~torn
  BY <1>2, Zenon DEF TaskGate, TaskLogin, LoginSucceeds, LoginFails
<1>3. ASSUME TaskMqtt \/ FetchEnds \/ FetchDenied PROVE ~torn
  BY <1>3, Zenon DEF TaskMqtt, FetchEnds, FetchDenied
<1>4. ASSUME PortalTask PROVE ~torn
  BY <1>4, Zenon DEF PortalTask, Connect, PortalSave, PortalReload, SubmitCode
<1>5. ASSUME SwitchLoad \/ SwitchConfigure \/ Network \/ Expire \/ Refused \/ RetryOver
      PROVE  ~torn
  BY <1>5, Zenon DEF SwitchLoad, SwitchConfigure, Network, Expire, Refused, RetryOver
<1>6. ASSUME UNCHANGED vars PROVE ~torn
  BY <1>6, Zenon DEF vars
<1>7. Persist => ~torn
  BY Zenon DEF Persist
<1>8. Persist /\ pc = "email" => ~(portal.pc # "idle" /\ ~portal.changed /\ sEmail # email)
  BY Zenon DEF Persist
<1>9. Crash => /\ ~torn /\ portal.pc = "idle"
               /\ pc \notin {"previous", "email", "pass", "clear"}
  BY Zenon DEF Crash
<1>10. ~torn
  BY <1>1, <1>2, <1>3, <1>4, <1>5, <1>6, <1>7, <1>9 DEF Next, Task
<1>11. QED
  BY <1>8, <1>9, <1>10

(* The credentials that the cloud task takes over are of now, or it is noted that they   *)
(* may not be.                                                                           *)
LEMMA ApplyStep ==
  ASSUME NEW c, Apply(c), pc \in {"top", "reload"}, StoreOfOne, PortalKnows,
         UNCHANGED flash, UNCHANGED others
  PROVE  StoreOfOne' /\ PortalKnows' /\ TokenOfOne'
<1>1. /\ pc' = "token" /\ email' = c.email /\ token' = None
      /\ UNCHANGED <<sEmail, sToken, portal>>
  BY DEF Apply, flash, others
<1>2. ~old' => c.email = sEmail /\ portal.pc = "idle"
  BY Zenon DEF Apply
<1>3. StoreOfOne' /\ PortalKnows'
  BY <1>1 DEF StoreOfOne, PortalKnows, PortalClears
<1>4. portal.pc = "idle" => sToken \in {sEmail, None}
  BY DEF StoreOfOne, PortalClears
<1>5. QED
  BY <1>1, <1>2, <1>3, <1>4 DEF TokenOfOne

(* The commits of the portal and of the cloud task, in whatever order. *)
LEMMA SavesStep ==
  ASSUME TypeOK, TokenSaved, StoreOfOne, PortalKnows, TokenOfOne, ~torn',
         PortalTask \/ Persist, [Next]_vars
  PROVE  StoreOfOne' /\ PortalKnows' /\ TokenOfOne'
<1>0. portal \in [pc : {"idle", "email", "pass", "clear", "reload"}, email : Strings,
                  pass : Strings, changed : BOOLEAN]
  BY DEF TypeOK, StoreTypeOK
<1> USE DEF StoreOfOne, PortalKnows, TokenOfOne, PortalClears, flash, others, session, mqtt
<1>1. CASE Connect
  <2>1. PICK a \in Accounts, p \in Strings :
          portal' = [pc |-> "email", email |-> a, pass |-> p,
                     changed |-> sEmail # a \/ (p # None /\ sPass # p)]
    BY <1>1 DEF Connect
  <2>2. /\ portal'.pc = "email" /\ portal'.email = a
        /\ portal'.changed = (sEmail # a \/ (p # None /\ sPass # p))
    BY <2>1, Zenon
  <2>3. PortalKnows'
    BY <1>1, <2>2 DEF Connect
  <2>4. portal.pc = "idle" /\ UNCHANGED <<sEmail, sToken, pc, email, token, old>>
    BY <1>1 DEF Connect
  <2>5. QED
    BY <2>3, <2>4
<1>2. CASE PortalSave
  <2>0. UNCHANGED <<pc, email, token, old>>
    BY <1>2 DEF PortalSave
  <2>1. CASE portal.pc = "email"
    <3>1. sEmail' = portal.email /\ UNCHANGED sToken /\ portal' = [portal EXCEPT !.pc = "pass"]
      BY <1>2, <2>1 DEF PortalSave
    <3>2. portal'.pc = "pass" /\ portal'.changed = portal.changed
      BY <1>0, <3>1, Zenon
    <3>3. CASE portal.changed
      BY <2>0, <3>1, <3>2, <3>3
    <3>4. CASE ~portal.changed
      BY <2>0, <2>1, <3>1, <3>2, <3>4
    <3>5. QED
      BY <3>3, <3>4
  <2>2. CASE portal.pc = "pass"
    <3>1. /\ UNCHANGED <<sEmail, sToken>>
          /\ portal' = [portal EXCEPT !.pc = IF portal.changed THEN "clear" ELSE "reload"]
      BY <1>2, <2>2 DEF PortalSave
    <3>2. portal'.pc = IF portal.changed THEN "clear" ELSE "reload"
      BY <1>0, <3>1
    <3>3. QED
      BY <2>0, <2>2, <3>1, <3>2
  <2>3. CASE portal.pc = "clear"
    <3>1. sToken' = None /\ portal' = [portal EXCEPT !.pc = "reload"]
      BY <1>2, <2>3 DEF PortalSave
    <3>2. portal'.pc = "reload"
      BY <1>0, <3>1
    <3>3. QED
      BY <2>0, <3>1, <3>2
  <2>4. QED
    BY <1>2, <2>1, <2>2, <2>3 DEF PortalSave
<1>3. CASE PortalReload
  BY <1>3 DEF PortalReload, PortalIdle
<1>4. CASE SubmitCode
  BY <1>4 DEF SubmitCode
<1>5. CASE Persist
  <2>0. UNCHANGED <<portal, email, token, old>>
    BY <1>5 DEF Persist
  <2>1. CASE pc = "email"
    <3>1. sEmail' = email /\ pc' = "pass" /\ UNCHANGED sToken /\ sToken \in {email, None}
      BY <1>5, <2>1 DEF Persist, TokenSaved
    <3>2. portal.pc = "email" /\ ~portal.changed => sEmail = email
      BY <1>5, <2>1, TornGrows
    <3>3. QED
      BY <2>0, <3>1, <3>2
  <2>2. CASE pc # "email"
    BY <1>5, <2>0, <2>2 DEF Persist
  <2>3. QED
    BY <2>1, <2>2
<1>6. QED
  BY <1>1, <1>2, <1>3, <1>4, <1>5 DEF PortalTask

(* All steps. *)
LEMMA AccountStep == TypeOK /\ AccountInv /\ [Next]_vars => AccountInv'
<1> SUFFICES ASSUME TypeOK, TokenSaved, StoreOfOne, PortalKnows, TokenOfOne, ~torn',
                    [Next]_vars
             PROVE  StoreOfOne' /\ PortalKnows' /\ TokenOfOne'
  BY TokenSavedStep, TornGrows DEF AccountInv
<1>1. CASE TaskConfigure
  <2>1. CASE pending # NotLoaded
    BY <1>1, <2>1, ApplyStep DEF TaskConfigure
  <2>2. CASE pending = NotLoaded
    BY <1>1, <2>2 DEF TaskConfigure, StoreOfOne, PortalKnows, TokenOfOne, PortalClears,
                      flash, others, session
  <2>3. QED
    BY <2>1, <2>2
<1>2. CASE TaskReload
  <2>1. CASE reload
    BY <1>2, <2>1, ApplyStep DEF TaskReload
  <2>2. CASE ~reload
    BY <1>2, <2>2 DEF TaskReload, StoreOfOne, PortalKnows, TokenOfOne, PortalClears,
                      flash, others, session
  <2>3. QED
    BY <2>1, <2>2
<1>3. CASE PortalTask \/ Persist
  BY <1>3, SavesStep
<1> USE DEF StoreOfOne, PortalKnows, TokenOfOne, PortalClears, flash, others, session, mqtt
<1>4. CASE LoadToken \/ TaskRecover \/ TaskDrop
  BY <1>4 DEF LoadToken, TaskRecover, TaskDrop
<1>5. CASE TaskGate \/ TaskLogin \/ LoginSucceeds \/ LoginFails
  BY <1>5 DEF TaskGate, TaskLogin, LoginSucceeds, LoginFails
<1>6. CASE TaskMqtt \/ FetchEnds \/ FetchDenied
  BY <1>6 DEF TaskMqtt, FetchEnds, FetchDenied
<1>7. CASE SwitchLoad \/ SwitchConfigure \/ Network \/ Expire \/ Refused \/ RetryOver
  BY <1>7 DEF SwitchLoad, SwitchConfigure, Network, Expire, Refused, RetryOver
<1>8. CASE Crash
  <2>1. portal.pc = "idle" /\ pc \notin {"previous", "email", "pass", "clear"}
    BY <1>8, TornGrows
  <2>2. QED
    BY <1>8, <2>1 DEF Crash, Booted, PortalIdle
<1>9. CASE UNCHANGED vars
  BY <1>9 DEF vars
<1>10. QED
  BY <1>1, <1>2, <1>3, <1>4, <1>5, <1>6, <1>7, <1>8, <1>9 DEF Next, Task

(* Two tasks save the session without a lock, and yet what is kept together is of one     *)
(* account: the portal clears the token after its e-mail if it has found a change, the     *)
(* cloud task commits the e-mail of its token right after the token.                       *)
THEOREM SessionIsOfAccount == Spec => []SessionOfAccount
<1>1. Init => AccountInv
  BY DEF Init, AccountInv, TokenSaved, StoreOfOne, PortalKnows, TokenOfOne, PortalIdle
<1>2. TypeOK /\ AccountInv /\ [Next]_vars => AccountInv'
  BY AccountStep
<1>3. AccountInv => SessionOfAccount
  BY DEF AccountInv, SessionOfAccount, StoreOfOne, TokenOfOne, PortalClears
<1>4. QED
  BY TypeCorrect, <1>1, <1>2, <1>3, PTL DEF Spec
=============================================================================
