------------------------------ MODULE PortalAccess ------------------------------
(* Who may use Web Config (setup_portal.cpp): provisioning, its grace period, the   *)
(* PIN on the display and the browser session, on top of the Wi-Fi manager.  Two      *)
(* tasks take part: the application loop, which passes the long press on and shows     *)
(* the PIN, and the HTTP server, which handles one request at a time.                  *)
(* An expiry is modelled by the time that is left; Unset is the code's 0.              *)
EXTENDS WifiManager, Integers

CONSTANTS Browsers,
          PinLife, SessionLife, ExtendLife, GraceLife,  \* kPortal...Ms, in ticks
          MaxPins, MaxExtends, MaxPath, MaxReboots      \* bounds

ASSUME BrowsersAssumption == Browsers # {}
ASSUME LivesAssumption == {PinLife, SessionLife, ExtendLife, GraceLife} \subseteq Nat \ {0}
ASSUME PortalBoundsAssumption == {MaxPins, MaxExtends, MaxPath, MaxReboots} \subseteq Nat

VARIABLES
  lockEnabled,         \* portal lock, in flash
  path,                \* the path that provisioning asks for works (by mode: cloud, local, either)
  grace,               \* provisioning_grace_expiry_ms_
  pin, pinLeft,        \* unlock_pin_ (0: empty) and its expiry
  token, sessionLeft,  \* session_token_ (0: empty) and its expiry
  cookie,              \* what each browser presents
  asked, shown,        \* display: portal_unlock_requested_, PIN on it
  app, http,           \* places of the two tasks, with what they carry
  pins, extends, paths, reboots

accessVars == <<grace, pin, pinLeft, token, sessionLeft>>
boundVars == <<pins, extends, paths, reboots>>
portalVars == <<accessVars, boundVars, lockEnabled, path, cookie, asked, shown, app, http>>
vars == <<wifiVars, portalVars>>

Unset == -1
AppTop == [at |-> "unlock", locked |-> FALSE, pin |-> 0]
Idle == [at |-> "idle", who |-> CHOOSE b \in Browsers : TRUE, pin |-> 0]

Init ==
  /\ WifiInit
  /\ lockEnabled \in BOOLEAN /\ path = FALSE
  /\ grace = Unset /\ pin = 0 /\ pinLeft = Unset /\ token = 0 /\ sessionLeft = Unset
  /\ cookie = [b \in Browsers |-> 0] /\ asked = FALSE /\ shown = 0
  /\ app = AppTop /\ http = Idle
  /\ pins = 0 /\ extends = 0 /\ paths = 0 /\ reboots = 0

---------------------------------------------------------------------------------
(* is_provisioning_complete, is_lock_required.  The first time that provisioning is  *)
(* found complete starts the grace period.                                            *)

Provisioned == ~ap /\ connected /\ path
GraceStarts == ~ap /\ lockEnabled /\ Provisioned /\ grace = Unset
Locked == ~ap /\ lockEnabled /\ Provisioned /\ grace = 0

(* Mutant: a grace period that is over counts as one that never started.              *)
LockReadRearms == grace' = IF GraceStarts \/ Locked THEN GraceLife ELSE grace

LockRead == grace' = IF GraceStarts THEN GraceLife ELSE grace

(* prune_access_state_locked, then what is left of PIN and session.                  *)
PrunedPin == IF pinLeft = 0 THEN 0 ELSE pin

(* Mutant: sessions are not pruned.                                                  *)
PrunedTokenMutant == token

PrunedToken == IF sessionLeft = 0 THEN 0 ELSE token

Prune ==
  /\ pin' = PrunedPin /\ pinLeft' = (IF pinLeft = 0 THEN Unset ELSE pinLeft)
  /\ token' = PrunedToken /\ sessionLeft' = (IF sessionLeft = 0 THEN Unset ELSE sessionLeft)

Clear == pin' = 0 /\ pinLeft' = Unset /\ token' = 0 /\ sessionLeft' = Unset

(* access_snapshot from a handler that read the lock just before.                    *)
Snapshot == IF Locked THEN Prune ELSE Clear

---------------------------------------------------------------------------------
(* The application loop.                                                            *)

AppRest == UNCHANGED <<wifiVars, lockEnabled, path, cookie, http, extends, paths, reboots>>

(* Mutant: the request is taken and dropped.                                         *)
AppUnlockMutant ==
  /\ app.at = "unlock" /\ app' = [app EXCEPT !.at = "access"] /\ asked' = FALSE
  /\ UNCHANGED <<accessVars, pins, shown>> /\ AppRest

(* request_unlock_pin *)
AppUnlock ==
  /\ app.at = "unlock" /\ app' = [app EXCEPT !.at = "access"]
  /\ asked' = FALSE
  /\ IF ~asked THEN UNCHANGED <<accessVars, pins>>
     ELSE /\ LockRead
          /\ IF Locked
             THEN /\ pins' = pins + 1 /\ pin' = pins' /\ pinLeft' = PinLife
                  /\ token' = PrunedToken
                  /\ sessionLeft' = (IF sessionLeft = 0 THEN Unset ELSE sessionLeft)
             ELSE Clear /\ UNCHANGED pins
  /\ UNCHANGED shown /\ AppRest

(* access_snapshot reads the lock before it takes the mutex ...                       *)
AppLock ==
  /\ app.at = "access" /\ app' = [app EXCEPT !.at = "clear", !.locked = Locked]
  /\ LockRead
  /\ UNCHANGED <<pin, pinLeft, token, sessionLeft, pins, asked, shown>> /\ AppRest

(* ... and clears or copies PIN and session under it.                                *)
AppAccess ==
  /\ app.at = "clear"
  /\ IF app.locked THEN Prune ELSE Clear
  /\ app' = [app EXCEPT !.at = "show", !.pin = IF app.locked THEN PrunedPin ELSE 0]
  /\ UNCHANGED <<grace, pins, asked, shown>> /\ AppRest

(* set_portal_access_state, shown with the next snapshot.                            *)
AppShow ==
  /\ app.at = "show" /\ app' = AppTop /\ shown' = app.pin
  /\ UNCHANGED <<accessVars, pins, asked>> /\ AppRest

App == AppUnlock \/ AppLock \/ AppAccess \/ AppShow

---------------------------------------------------------------------------------
(* The HTTP server.                                                                  *)

HttpRest == UNCHANGED <<wifiVars, lockEnabled, path, asked, shown, app, pins, paths, reboots>>
Goto(at) == http' = [http EXCEPT !.at = at]
Authorised(b) == Locked => cookie[b] # 0 /\ PrunedToken = cookie[b]

(* A request that is refused takes the browser's cookie; one that is admitted changes  *)
(* nothing here.                                                                     *)
Refuse(b) == Snapshot /\ cookie' = [cookie EXCEPT ![b] = 0]

Request(b) ==
  /\ http.at = "idle" /\ ~Authorised(b)
  /\ Refuse(b) /\ LockRead
  /\ UNCHANGED <<http, extends>> /\ HttpRest

(* handle_unlock, with the PIN that the user read from the display.                  *)
Unlock(b) ==
  /\ http.at = "idle" /\ shown # 0
  /\ http' = [at |-> "check", who |-> b, pin |-> shown]
  /\ UNCHANGED <<accessVars, cookie, extends>> /\ HttpRest

UnlockCheck ==
  /\ http.at = "check" /\ LockRead
  /\ IF Locked THEN Goto("match") /\ UNCHANGED <<pin, pinLeft, token, sessionLeft>>
               ELSE http' = Idle /\ Clear
  /\ UNCHANGED <<cookie, extends>> /\ HttpRest

UnlockMatch ==
  /\ http.at = "match"
  /\ IF PrunedPin # 0 /\ http.pin = PrunedPin
     THEN /\ token' = http.pin /\ sessionLeft' = SessionLife
          /\ pin' = 0 /\ pinLeft' = Unset /\ Goto("reply") /\ UNCHANGED cookie
     ELSE Refuse(http.who) /\ http' = Idle
  /\ LockRead /\ UNCHANGED extends /\ HttpRest

(* The token for the cookie is read again, outside the mutex.                        *)
UnlockReply ==
  /\ http.at = "reply" /\ http' = Idle
  /\ Snapshot /\ LockRead
  /\ cookie' = [cookie EXCEPT ![http.who] = token']
  /\ UNCHANGED extends /\ HttpRest

(* handle_session_extend *)
Extend(b) ==
  /\ http.at = "idle" /\ extends < MaxExtends /\ Authorised(b)
  /\ LockRead
  /\ http' = [at |-> "extend", who |-> b, pin |-> 0] /\ extends' = extends + 1
  /\ UNCHANGED <<pin, pinLeft, token, sessionLeft, cookie>> /\ HttpRest

(* Mutant: the expiry of a session is moved whether or not there is one.             *)
ExtendSessionMutant ==
  /\ http.at = "extend" /\ http' = Idle
  /\ pin' = PrunedPin /\ pinLeft' = (IF pinLeft = 0 THEN Unset ELSE pinLeft)
  /\ token' = PrunedToken /\ sessionLeft' = sessionLeft + ExtendLife
  /\ grace' = IF PrunedToken = 0 /\ grace > 0 THEN grace + ExtendLife ELSE grace
  /\ cookie' = IF PrunedToken # 0 THEN [cookie EXCEPT ![http.who] = token'] ELSE cookie
  /\ UNCHANGED extends /\ HttpRest

ExtendSession ==
  /\ http.at = "extend" /\ http' = Idle
  /\ pin' = PrunedPin /\ pinLeft' = (IF pinLeft = 0 THEN Unset ELSE pinLeft)
  /\ token' = PrunedToken
  /\ sessionLeft' = IF PrunedToken # 0 THEN sessionLeft + ExtendLife ELSE Unset
  /\ grace' = IF PrunedToken = 0 /\ grace > 0 THEN grace + ExtendLife ELSE grace
  /\ cookie' = IF PrunedToken # 0 THEN [cookie EXCEPT ![http.who] = token'] ELSE cookie
  /\ UNCHANGED extends /\ HttpRest

Http == UnlockCheck \/ UnlockMatch \/ UnlockReply \/ ExtendSession

---------------------------------------------------------------------------------
(* The rest: time, at most one tick per iteration of the loop; a long press; the path *)
(* to the printer; a reboot, which portal handlers ask for and which keeps flash only. *)

Passed(left) == IF left > 0 THEN left - 1 ELSE left

Tick ==
  /\ app.at = "unlock"
  /\ <<grace, pinLeft, sessionLeft>> # <<Passed(grace), Passed(pinLeft), Passed(sessionLeft)>>
  /\ grace' = Passed(grace) /\ pinLeft' = Passed(pinLeft)
  /\ sessionLeft' = Passed(sessionLeft)
  /\ UNCHANGED <<wifiVars, boundVars, lockEnabled, path, pin, token, cookie, asked, shown,
                 app, http>>

LongPress ==
  /\ ~asked /\ pins < MaxPins /\ asked' = TRUE
  /\ UNCHANGED <<wifiVars, accessVars, boundVars, lockEnabled, path, cookie, shown, app, http>>

PathChanges ==
  /\ paths < MaxPath /\ paths' = paths + 1 /\ path' = ~path
  /\ UNCHANGED <<wifiVars, accessVars, pins, extends, reboots, lockEnabled, cookie, asked,
                 shown, app, http>>

Reboot ==
  /\ reboots < MaxReboots /\ reboots' = reboots + 1
  /\ creds' \in {creds, TRUE} /\ lockEnabled' \in BOOLEAN
  /\ boot' = (IF creds' THEN "start" ELSE "done") /\ start' = TRUE /\ should' = FALSE
  /\ config' = "none" /\ link' = "idle" /\ connected' = FALSE /\ retries' = 0 /\ ap' = TRUE
  /\ grace' = Unset /\ Clear /\ asked' = FALSE /\ shown' = 0 /\ app' = AppTop /\ http' = Idle
  /\ path' = FALSE
  /\ UNCHANGED <<router, moves, cookie, pins, extends, paths>>

Next ==
  \/ WifiNext /\ UNCHANGED portalVars
  \/ App \/ Http \/ Tick \/ LongPress \/ PathChanges \/ Reboot
  \/ \E b \in Browsers : Request(b) \/ Unlock(b) \/ Extend(b)

Spec == Init /\ [][Next]_vars
(* The tasks run and time passes.  An attempt to connect ends, and a session without   *)
(* its router breaks; a router in reach accepts one now and then, and the driver         *)
(* accepts a change of mode now and then.                                               *)
FairSpec == /\ Spec /\ WF_vars(App) /\ WF_vars(Http) /\ SF_vars(Tick)
            /\ WF_vars(WifiBoot /\ UNCHANGED portalVars)
            /\ WF_vars(StaStart /\ UNCHANGED portalVars)
            /\ WF_vars(StaDisconnected /\ (link = "trying" \/ ~router) /\ UNCHANGED portalVars)
            /\ SF_vars(GotIp /\ UNCHANGED portalVars)
            /\ SF_vars(StaDisconnected /\ retries' >= Threshold /\ ap' /\ UNCHANGED portalVars)

---------------------------------------------------------------------------------
Pins == 0..MaxPins

AccessOK ==
  /\ grace \in Nat \cup {Unset}
  /\ pinLeft \in Nat \cup {Unset} /\ sessionLeft \in Nat \cup {Unset}
  /\ pin \in Pins /\ token \in Pins

TasksOK ==
  /\ asked \in BOOLEAN /\ shown \in Pins /\ cookie \in [Browsers -> Pins]
  /\ app \in [at : {"unlock", "access", "clear", "show"}, locked : BOOLEAN, pin : Pins]
  /\ http \in [at : {"idle", "check", "match", "reply", "extend"}, who : Browsers, pin : Pins]

WorldOK ==
  /\ lockEnabled \in BOOLEAN /\ path \in BOOLEAN
  /\ pins \in Pins /\ extends \in 0..MaxExtends /\ paths \in 0..MaxPath
  /\ reboots \in 0..MaxReboots

TypeOK == WifiTypeOK /\ AccessOK /\ TasksOK /\ WorldOK

(* A PIN or session never stays for ever because its expiry is not set, which the     *)
(* pruning takes for "nothing to expire"; nor does an expiry outlive what it is for.   *)
NothingWithoutExpiry == /\ pin = 0 <=> pinLeft = Unset
                        /\ token = 0 <=> sessionLeft = Unset

(* The device can always be set up again: with the station out for good, whether it   *)
(* was never connected, lost its router or has old credentials, the access point comes  *)
(* up and Web Config is open on it.                                                    *)
ReachableForSetup == <>[]~connected => <>[](ap /\ ~Locked)

(* A finished setup is locked in the end: the grace period starts once per boot and    *)
(* is not prolonged by requests that only look at it.                                  *)
LockComes == <>[](lockEnabled /\ Provisioned) => <>[]Locked

(* A long press on a locked device brings a PIN to the display, through the flag of    *)
(* the display, the application loop and the portal, unless the lock is lifted.         *)
PressServed == asked ~> (shown # 0 \/ ~Locked)

(* A session ends, however it is used.                                                 *)
SessionEnds == \A t \in 1..MaxPins : token = t ~> token # t
=================================================================================
