--------------------------- MODULE PortalAccessProofs ---------------------------
(* What holds of PortalAccess for any number of browsers, any lives and any bound:  *)
(* PIN, session and their expiries always come and go together.                      *)
EXTENDS PortalAccess, TLAPS

Numbers == /\ pin \in Nat /\ token \in Nat /\ pins \in Nat
           /\ pinLeft \in Nat \cup {Unset} /\ sessionLeft \in Nat \cup {Unset}

IInv == Numbers /\ NothingWithoutExpiry

(* Pruning and clearing keep PIN and session with their expiries. *)
LEMMA PruneKeeps == ASSUME IInv, Prune \/ Clear
                    PROVE  /\ pin' \in Nat /\ token' \in Nat
                           /\ pinLeft' \in Nat \cup {Unset} /\ sessionLeft' \in Nat \cup {Unset}
                           /\ NothingWithoutExpiry'
BY DEF IInv, Numbers, NothingWithoutExpiry, Prune, Clear, PrunedPin, PrunedToken, Unset

(* A request prunes or clears. *)
LEMMA SnapshotIs == Snapshot => Prune \/ Clear
BY DEF Snapshot

(* The application loop: a new PIN is not 0 and lives for a time. *)
LEMMA AppKeeps == ASSUME IInv, App PROVE IInv'
<1> USE DEF IInv, Numbers, NothingWithoutExpiry, AppRest, accessVars
<1>1. CASE AppUnlock
  <2>1. CASE ~asked
    BY <1>1, <2>1 DEF AppUnlock
  <2>2. CASE asked /\ Locked
    BY <1>1, <2>2, LivesAssumption DEF AppUnlock, PrunedToken, Unset
  <2>3. CASE asked /\ ~Locked
    BY <1>1, <2>3 DEF AppUnlock, Clear
  <2>4. QED
    BY <2>1, <2>2, <2>3
<1>2. CASE AppLock \/ AppShow
  BY <1>2 DEF AppLock, AppShow
<1>3. CASE AppAccess
  BY <1>3, PruneKeeps DEF AppAccess
<1>4. QED
  BY <1>1, <1>2, <1>3 DEF App

(* The handler of a PIN makes it the session; the one that extends moves the expiry  *)
(* of a session only.                                                                *)
LEMMA HttpKeeps == ASSUME IInv, Http PROVE IInv'
<1> USE DEF IInv, Numbers, NothingWithoutExpiry, HttpRest
<1>1. CASE UnlockCheck
  BY <1>1 DEF UnlockCheck, Clear
<1>2. CASE UnlockMatch
  <2>1. CASE PrunedPin # 0 /\ http.pin = PrunedPin
    BY <1>2, <2>1, LivesAssumption DEF UnlockMatch, PrunedPin, Unset
  <2>2. CASE ~(PrunedPin # 0 /\ http.pin = PrunedPin)
    BY <1>2, <2>2, SnapshotIs, PruneKeeps DEF UnlockMatch, Refuse
  <2>3. QED
    BY <2>1, <2>2
<1>3. CASE UnlockReply
  BY <1>3, SnapshotIs, PruneKeeps DEF UnlockReply
<1>4. CASE ExtendSession
  BY <1>4, LivesAssumption DEF ExtendSession, PrunedPin, PrunedToken, Unset
<1>5. QED
  BY <1>1, <1>2, <1>3, <1>4 DEF Http

(* What a browser starts: a refused request prunes or clears, the rest only begins.   *)
LEMMA BrowserKeeps ==
  ASSUME IInv, NEW b \in Browsers, Request(b) \/ Unlock(b) \/ Extend(b) PROVE IInv'
<1> USE DEF IInv, Numbers, NothingWithoutExpiry, HttpRest, accessVars
<1>1. CASE Request(b)
  BY <1>1, SnapshotIs, PruneKeeps DEF Request, Refuse
<1>2. CASE Unlock(b)
  BY <1>2 DEF Unlock
<1>3. CASE Extend(b)
  BY <1>3 DEF Extend
<1>4. QED
  BY <1>1, <1>2, <1>3

(* Time takes no expiry below 0, and the rest of the device leaves the portal alone, *)
(* but a reboot, which clears it.                                                    *)
LEMMA WorldKeeps ==
  ASSUME IInv, Tick \/ LongPress \/ PathChanges \/ Reboot \/ UNCHANGED portalVars PROVE IInv'
<1> USE DEF IInv, Numbers, NothingWithoutExpiry
<1>1. CASE Tick
  BY <1>1 DEF Tick, Passed, boundVars, Unset
<1>2. CASE LongPress \/ PathChanges
  BY <1>2 DEF LongPress, PathChanges, accessVars, boundVars
<1>3. CASE Reboot
  BY <1>3 DEF Reboot, Clear, Unset
<1>4. CASE UNCHANGED portalVars
  BY <1>4 DEF portalVars, accessVars, boundVars
<1>5. QED
  BY <1>1, <1>2, <1>3, <1>4

(* NothingWithoutExpiry: no PIN and no session stays for ever for want of an expiry,  *)
(* whatever the lives, the browsers and the order of requests.                        *)
THEOREM ExpiriesFit == Spec => []NothingWithoutExpiry
<1>1. Init => IInv
  BY DEF Init, IInv, Numbers, NothingWithoutExpiry, Unset
<1>2. IInv /\ [Next]_vars => IInv'
  <2> SUFFICES ASSUME IInv, [Next]_vars PROVE IInv'
    OBVIOUS
  <2>1. CASE Next
    BY <2>1, AppKeeps, HttpKeeps, BrowserKeeps, WorldKeeps DEF Next
  <2>2. CASE UNCHANGED vars
    BY <2>2, WorldKeeps DEF vars
  <2>3. QED
    BY <2>1, <2>2
<1>3. IInv => NothingWithoutExpiry
  BY DEF IInv
<1>4. QED
  BY <1>1, <1>2, <1>3, PTL DEF Spec

-----------------------------------------------------------------------------------
(* Types.  A long press is passed on only while there is a PIN left to give.         *)

TInv == TypeOK /\ (asked => pins < MaxPins)

(* The Wi-Fi manager keeps its types.                                                *)
LEMMA WifiKeeps == ASSUME WifiTypeOK, WifiNext \/ UNCHANGED wifiVars PROVE WifiTypeOK'
<1> USE DEF WifiTypeOK
<1>1. 0 \in 0..(RetryRange - 1) /\ (retries + 1) % RetryRange \in 0..(RetryRange - 1)
  BY ThresholdAssumption
<1>2. CASE ConnectStation \/ ScanDone \/ StaStart
  <2>1. CASE ConnectStation
    BY <1>1, <2>1 DEF ConnectStation
  <2>2. CASE ScanDone
    BY <2>2 DEF ScanDone
  <2>3. CASE StaStart
    BY <1>1, <2>3 DEF StaStart
  <2>4. QED
    BY <1>2, <2>1, <2>2, <2>3
<1>3. CASE StaDisconnected
  BY <1>1, <1>3 DEF StaDisconnected
<1>4. CASE GotIp
  BY <1>1, <1>4 DEF GotIp
<1>5. CASE RouterMoves
  BY <1>5, RouterAssumption DEF RouterMoves
<1>6. CASE UNCHANGED wifiVars
  BY <1>6 DEF wifiVars
<1>7. QED
  BY <1>2, <1>3, <1>4, <1>5, <1>6 DEF WifiNext, WifiBoot

(* Reading the lock, pruning and clearing keep the types of what they change.        *)
LEMMA ReadKeeps == ASSUME AccessOK, LockRead PROVE grace' \in Nat \cup {Unset}
BY LivesAssumption DEF AccessOK, LockRead

LEMMA SnapshotKeeps ==
  ASSUME AccessOK, Prune \/ Clear
  PROVE  /\ pinLeft' \in Nat \cup {Unset} /\ sessionLeft' \in Nat \cup {Unset}
         /\ pin' \in Pins /\ token' \in Pins
<1>1. 0 \in Pins
  BY PortalBoundsAssumption DEF Pins
<1>2. QED
  BY <1>1 DEF AccessOK, Prune, Clear, PrunedPin, PrunedToken, Unset

LEMMA AppTypes == ASSUME TInv, App PROVE TInv'
<1> USE DEF AppRest, AppTop
<1>1. WifiTypeOK'
  BY WifiKeeps DEF TInv, TypeOK, App, AppUnlock, AppLock, AppAccess, AppShow
<1>2. AccessOK' /\ pins' \in Pins /\ (asked' => pins' < MaxPins)
  <2> USE DEF TInv, TypeOK, AccessOK, WorldOK
  <2>1. CASE AppUnlock
    <3>1. CASE ~asked
      BY <2>1, <3>1 DEF AppUnlock, accessVars
    <3>2. CASE asked /\ Locked
      <4>1. grace' \in Nat \cup {Unset}
        BY <2>1, <3>2, ReadKeeps DEF AppUnlock
      <4>2. pins' = pins + 1 /\ pin' = pins' /\ pins' \in Pins
        BY <2>1, <3>2, PortalBoundsAssumption DEF AppUnlock, Pins
      <4>3. pinLeft' \in Nat /\ sessionLeft' \in Nat \cup {Unset} /\ ~asked'
        BY <2>1, <3>2, LivesAssumption DEF AppUnlock
      <4>4. token' \in Pins
        BY <2>1, <3>2, PortalBoundsAssumption DEF AppUnlock, PrunedToken, Pins
      <4>5. QED
        BY <4>1, <4>2, <4>3, <4>4
    <3>3. CASE asked /\ ~Locked
      BY <2>1, <3>3, ReadKeeps, SnapshotKeeps DEF AppUnlock
    <3>4. QED
      BY <3>1, <3>2, <3>3
  <2>2. CASE AppLock
    BY <2>2, ReadKeeps DEF AppLock
  <2>3. CASE AppAccess
    BY <2>3, SnapshotKeeps DEF AppAccess
  <2>4. CASE AppShow
    BY <2>4 DEF AppShow, accessVars
  <2>5. QED
    BY <2>1, <2>2, <2>3, <2>4 DEF App
<1>3. TasksOK'
  <2> USE DEF TInv, TypeOK, AccessOK, TasksOK
  <2>1. CASE AppUnlock
    BY <2>1 DEF AppUnlock
  <2>2. CASE AppLock
    BY <2>2 DEF AppLock, Locked, Provisioned
  <2>3. CASE AppAccess
    <3>1. 0 \in Pins /\ PrunedPin \in Pins
      BY PortalBoundsAssumption DEF PrunedPin, Pins
    <3>2. (IF app.locked THEN PrunedPin ELSE 0) \in Pins
      BY <3>1
    <3>3. QED
      BY <2>3, <3>2 DEF AppAccess
  <2>4. CASE AppShow
    BY <2>4, PortalBoundsAssumption DEF AppShow, Pins
  <2>5. QED
    BY <2>1, <2>2, <2>3, <2>4 DEF App
<1>4. UNCHANGED <<lockEnabled, path, extends, paths, reboots>>
  BY DEF App, AppUnlock, AppLock, AppAccess, AppShow
<1>5. QED
  BY <1>1, <1>2, <1>3, <1>4 DEF TInv, TypeOK, WorldOK

LEMMA HttpTypes == ASSUME TInv, NothingWithoutExpiry, Http PROVE TInv'
<1> USE DEF HttpRest, Goto
<1>1. WifiTypeOK'
  BY WifiKeeps DEF TInv, TypeOK, Http, UnlockCheck, UnlockMatch, UnlockReply, ExtendSession
<1>2. AccessOK'
  <2> USE DEF TInv, TypeOK, AccessOK, TasksOK
  <2>1. CASE UnlockCheck
    BY <2>1, ReadKeeps, SnapshotKeeps DEF UnlockCheck
  <2>2. CASE UnlockMatch
    <3>1. CASE PrunedPin # 0 /\ http.pin = PrunedPin
      BY <2>2, <3>1, ReadKeeps, LivesAssumption, PortalBoundsAssumption DEF UnlockMatch, Pins
    <3>2. CASE ~(PrunedPin # 0 /\ http.pin = PrunedPin)
      BY <2>2, <3>2, ReadKeeps, SnapshotIs, SnapshotKeeps DEF UnlockMatch, Refuse
    <3>3. QED
      BY <3>1, <3>2
  <2>3. CASE UnlockReply
    BY <2>3, ReadKeeps, SnapshotIs, SnapshotKeeps DEF UnlockReply
  <2>4. CASE ExtendSession
    <3>1. pin' \in Pins /\ token' \in Pins /\ pinLeft' \in Nat \cup {Unset}
      BY <2>4, PortalBoundsAssumption DEF ExtendSession, PrunedPin, PrunedToken, Pins
    <3>2. sessionLeft' \in Nat \cup {Unset}
      BY <2>4, LivesAssumption DEF ExtendSession, PrunedToken, NothingWithoutExpiry, Unset
    <3>3. grace' \in Nat \cup {Unset}
      BY <2>4, LivesAssumption DEF ExtendSession, Unset
    <3>4. QED
      BY <3>1, <3>2, <3>3
  <2>5. QED
    BY <2>1, <2>2, <2>3, <2>4 DEF Http
<1>3. TasksOK'
  <2>1. http' \in [at : {"idle", "check", "match", "reply", "extend"}, who : Browsers, pin : Pins]
    BY BrowsersAssumption, PortalBoundsAssumption
    DEF TInv, TypeOK, TasksOK, Http, UnlockCheck, UnlockMatch, UnlockReply, ExtendSession, Idle, Pins
  <2>2. cookie' \in [Browsers -> Pins]
    <3>1. 0 \in Pins /\ token' \in Pins
      BY <1>2, PortalBoundsAssumption DEF Pins, AccessOK
    <3>2. QED
      BY <3>1 DEF TInv, TypeOK, TasksOK, Http, UnlockCheck, UnlockMatch, UnlockReply, ExtendSession, Refuse
  <2>3. QED
    BY <2>1, <2>2 DEF TInv, TypeOK, TasksOK, Http, UnlockCheck, UnlockMatch, UnlockReply, ExtendSession
<1>4. UNCHANGED <<lockEnabled, path, asked, pins, extends, paths, reboots>>
  BY DEF Http, UnlockCheck, UnlockMatch, UnlockReply, ExtendSession
<1>5. QED
  BY <1>1, <1>2, <1>3, <1>4 DEF TInv, TypeOK, WorldOK

LEMMA BrowserTypes ==
  ASSUME TInv, NEW b \in Browsers, Request(b) \/ Unlock(b) \/ Extend(b) PROVE TInv'
<1> USE DEF HttpRest
<1>1. WifiTypeOK'
  BY WifiKeeps DEF TInv, TypeOK, Request, Unlock, Extend
<1>2. AccessOK'
  BY ReadKeeps, SnapshotIs, SnapshotKeeps
  DEF TInv, TypeOK, AccessOK, Request, Refuse, Unlock, Extend, accessVars
<1>3. 0 \in Pins
  BY PortalBoundsAssumption DEF Pins
<1>4. TasksOK'
  BY <1>3 DEF TInv, TypeOK, TasksOK, Request, Refuse, Unlock, Extend
<1>5. extends' \in 0..MaxExtends /\ UNCHANGED <<lockEnabled, path, asked, pins, paths, reboots>>
  BY PortalBoundsAssumption DEF TInv, TypeOK, WorldOK, Request, Unlock, Extend
<1>6. QED
  BY <1>1, <1>2, <1>4, <1>5 DEF TInv, TypeOK, WorldOK

LEMMA WorldTypes ==
  ASSUME TInv, \/ WifiNext /\ UNCHANGED portalVars
               \/ Tick \/ LongPress \/ PathChanges \/ Reboot \/ UNCHANGED vars
  PROVE  TInv'
<1> USE DEF portalVars, accessVars, boundVars
<1>1. CASE (WifiNext /\ UNCHANGED portalVars) \/ UNCHANGED vars
  BY <1>1, WifiKeeps DEF TInv, TypeOK, AccessOK, TasksOK, WorldOK, vars
<1>2. CASE Tick
  <2>1. WifiTypeOK' /\ UNCHANGED <<lockEnabled, path, pin, token, cookie, asked, shown, app, http, boundVars>>
    BY <1>2, WifiKeeps DEF Tick, TInv, TypeOK
  <2>2. AccessOK'
    BY <1>2 DEF Tick, TInv, TypeOK, AccessOK, Passed, Unset
  <2>3. QED
    BY <2>1, <2>2 DEF TInv, TypeOK, TasksOK, WorldOK
<1>3. CASE LongPress
  BY <1>3, WifiKeeps DEF LongPress, TInv, TypeOK, AccessOK, TasksOK, WorldOK
<1>4. CASE PathChanges
  BY <1>4, WifiKeeps, PortalBoundsAssumption DEF PathChanges, TInv, TypeOK, AccessOK, TasksOK, WorldOK
<1>5. CASE Reboot
  <2>1. 0 \in Pins
    BY PortalBoundsAssumption DEF Pins
  <2>2. WifiTypeOK'
    <3>1. 0 \in 0..(RetryRange - 1)
      BY ThresholdAssumption
    <3>2. creds' \in BOOLEAN /\ boot' \in {"start", "scan", "done"}
      BY <1>5 DEF Reboot, TInv, TypeOK, WifiTypeOK
    <3>3. QED
      BY <1>5, <3>1, <3>2 DEF Reboot, TInv, TypeOK, WifiTypeOK
  <2>3. AccessOK'
    BY <1>5, <2>1 DEF Reboot, Clear, AccessOK
  <2>4. TasksOK'
    BY <1>5, <2>1, BrowsersAssumption DEF Reboot, TInv, TypeOK, TasksOK, AppTop, Idle
  <2>5. WorldOK' /\ ~asked'
    <3>1. reboots' \in 0..MaxReboots /\ lockEnabled' \in BOOLEAN
      BY <1>5, PortalBoundsAssumption DEF Reboot, TInv, TypeOK, WorldOK
    <3>2. path' \in BOOLEAN /\ ~asked'
      BY <1>5 DEF Reboot
    <3>3. UNCHANGED <<pins, extends, paths>>
      BY <1>5 DEF Reboot
    <3>4. QED
      BY <3>1, <3>2, <3>3 DEF TInv, TypeOK, WorldOK
  <2>6. QED
    BY <2>2, <2>3, <2>4, <2>5 DEF TInv, TypeOK
<1>6. QED
  BY <1>1, <1>2, <1>3, <1>4, <1>5

(* TypeOK: the state of Wi-Fi manager and portal is well typed.                      *)
THEOREM TypeCorrect == Spec => []TypeOK
<1>1. Init => TInv
  <2>1. 0 \in Pins /\ 0 \in 0..MaxExtends /\ 0 \in 0..MaxPath /\ 0 \in 0..MaxReboots
    BY PortalBoundsAssumption DEF Pins
  <2>2. Init => WifiTypeOK
    <3>1. 0 \in 0..(RetryRange - 1) /\ 0 \in 0..MaxRouter
      BY ThresholdAssumption, RouterAssumption
    <3>2. QED
      BY <3>1 DEF Init, WifiInit, WifiTypeOK
  <2>3. Init => AccessOK /\ TasksOK /\ WorldOK /\ ~asked
    <3>1. Init => AccessOK /\ WorldOK /\ ~asked
      BY <2>1 DEF Init, AccessOK, WorldOK
    <3>2. Init => TasksOK
      <4>1. (CHOOSE b \in Browsers : TRUE) \in Browsers
        BY BrowsersAssumption
      <4>2. Idle \in [at : {"idle", "check", "match", "reply", "extend"}, who : Browsers, pin : Pins]
        BY <2>1, <4>1 DEF Idle
      <4>3. Init => cookie \in [Browsers -> Pins] /\ shown \in Pins /\ asked \in BOOLEAN
        BY <2>1 DEF Init
      <4>4. Init => app \in [at : {"unlock", "access", "clear", "show"}, locked : BOOLEAN, pin : Pins]
        BY <2>1 DEF Init, AppTop
      <4>5. QED
        BY <4>2, <4>3, <4>4 DEF Init, TasksOK
    <3>3. QED
      BY <3>1, <3>2
  <2>4. QED
    BY <2>2, <2>3 DEF TInv, TypeOK
<1>2. TInv /\ NothingWithoutExpiry /\ [Next]_vars => TInv'
  BY AppTypes, HttpTypes, BrowserTypes, WorldTypes DEF Next
<1>3. TInv => TypeOK
  BY DEF TInv
<1>4. QED
  BY <1>1, <1>2, <1>3, ExpiriesFit, PTL DEF Spec
=================================================================================
