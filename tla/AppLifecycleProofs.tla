------------------------- MODULE AppLifecycleProofs -------------------------
(* Proofs about AppLifecycle: types, and that tokens, token file and       *)
(* shutdown keep the invariants the run app_life checks, for any readers,  *)
(* files and bounds.                                                       *)
(*                                                                         *)
(* The types are kept in three groups: the flags, which Zenon handles, and *)
(* the state of the application and of the credentials, which SMT does.    *)
EXTENDS AppLifecycle, TLAPS

USE DEF vars, appVars, oauthVars, mountVars, openVars, credVars, svcVars,
        clientVars, fileVars, readVars

Flags ==
  /\ sig \in BOOLEAN
  /\ unreachable \in BOOLEAN
  /\ listening \in BOOLEAN
  /\ result \in BOOLEAN
  /\ server \in BOOLEAN
  /\ unmountErr \in BOOLEAN
  /\ streamOpen \in BOOLEAN
  /\ storeOpen \in BOOLEAN
  /\ missed \in BOOLEAN

AppTypes ==
  /\ main \in MainPc
  /\ token \in Pair
  /\ mounted \in {"none", "live", "stale"}
  /\ watcher \in {"off", "armed", "unmounting"}
  /\ loop \in {"off", "running", "stopped"}
  /\ starts \in 0 .. MaxStarts

CredTypes ==
  /\ accepted \subseteq Token \ {NoToken}
  /\ renewable \subseteq Token \ {NoToken}
  /\ issued \in Token
  /\ access \in Token
  /\ refresh \in Token
  /\ links \in [Files -> Token]
  /\ mu \in Readers \cup {"free"}
  /\ file \in Pair \cup {NoFile}
  /\ pc \in [Readers -> ReaderPc]
  /\ want \in [Readers -> Files]
  /\ tok \in [Readers -> Token]
  /\ try \in [Readers -> 0 .. 2]
  /\ faults \in 0 .. MaxFaults
  /\ main \in {"check", "rebind"} => file # NoFile

TypeInv == Flags /\ AppTypes /\ CredTypes

(* Steps that are not those of a download or of the service.               *)
AppAction ==
  \/ MainStep \/ WatcherStep \/ Start \/ Callback
  \/ UserUnmounts \/ Signal \/ Crash

-----------------------------------------------------------------------------
(* Types                                                                   *)

(* The flags are Booleans at first.                                        *)
LEMMA FlagsInit == Init => Flags
BY Zenon DEF Init, CredInit, NoProcess, Flags

(* So the application's state has its types,                               *)
LEMMA AppInit == Init => AppTypes
<1> SUFFICES ASSUME Init PROVE AppTypes
  OBVIOUS
<1>1. /\ main = "down" /\ token = NoPair /\ mounted = "none"
      /\ watcher = "off" /\ loop = "off" /\ starts = 0
  BY Zenon DEF Init, NoProcess
<1> QED
  BY <1>1, CredentialsAssumption, StartsAssumption
     DEF AppTypes, MainPc, NoPair, Pair, Token, NoToken

(* and so have the credentials.                                            *)
LEMMA CredTypesInit == Init => CredTypes
BY CredentialsAssumption
   DEF Init, NoProcess, CredInit, CredTypes, Token, NoToken, Pair, NoLinks,
       ReaderPc

(* What a grant does to the service's state.                               *)
LEMMA GrantTypes ==
  ASSUME TypeInv, NEW t, NEW rotates \in BOOLEAN, Grant(t, rotates)
  PROVE  /\ issued + 1 \in Token \ {NoToken}
         /\ issued' = issued + 1
         /\ accepted' \subseteq Token \ {NoToken}
         /\ renewable' \subseteq Token \ {NoToken}
<1>1. issued + 1 \in Token \ {NoToken} /\ issued' = issued + 1
  BY CredentialsAssumption DEF Grant, TypeInv, CredTypes, Token, NoToken
<1>2. accepted' \subseteq Token \ {NoToken}
  BY <1>1 DEF Grant, TypeInv, CredTypes
<1>3. renewable' \subseteq Token \ {NoToken}
  BY <1>1 DEF Grant, TypeInv, CredTypes
<1> QED
  BY <1>1, <1>2, <1>3

(* No step of the application makes a flag anything but a Boolean,         *)
LEMMA FlagsMain ==
  ASSUME TypeInv, AppAction
  PROVE  Flags'
<1> USE DEF TypeInv
<1>1. CASE Bind
  BY Zenon, <1>1 DEF Flags, Bind, BindClient
<1>2. CASE HealthCheck
  BY Zenon, <1>2 DEF Flags, HealthCheck, ListOk, ListRefused
<1>3. CASE Listen
  BY Zenon, <1>3 DEF Flags, Listen
<1>4. CASE Await
  BY Zenon, <1>4 DEF Flags, Await, Interrupted
<1>5. CASE Exchange
  BY Zenon, <1>5 DEF Flags, Exchange, Grant
<1>6. CASE SaveToken
  BY Zenon, <1>6 DEF Flags, SaveToken, Saved, SaveFails
<1>7. CASE Rebind
  BY Zenon, <1>7 DEF Flags, Rebind, BindAgain, BindClient
<1>8. CASE Preload
  BY Zenon, <1>8 DEF Flags, Preload, ListOk, ListRefused
<1>9. CASE Mount
  BY Zenon, <1>9 DEF Flags, Mount
<1>10. CASE Unserve
  BY Zenon, <1>10 DEF Flags, Unserve
<1>11. CASE Close
  BY Zenon, <1>11 DEF Flags, Close
<1>12. CASE Drain
  BY Zenon, <1>12 DEF Flags, Drain, Drained
<1>13. CASE CloseStore
  BY Zenon, <1>13 DEF Flags, CloseStore
<1>14. CASE Exit
  BY Zenon, <1>14 DEF Flags, Exit, Gone
<1>15. CASE WatcherWakes
  BY Zenon, <1>15 DEF Flags, WatcherWakes
<1>16. CASE Unmount
  BY Zenon, <1>16 DEF Flags, Unmount
<1>17. CASE Start
  BY Zenon, <1>17 DEF Flags, Start
<1>18. CASE Callback
  BY Zenon, <1>18 DEF Flags, Callback
<1>19. CASE UserUnmounts
  BY Zenon, <1>19 DEF Flags, UserUnmounts
<1>20. CASE Signal
  BY Zenon, <1>20 DEF Flags, Signal
<1>21. CASE Crash
  BY Zenon, <1>21 DEF Flags, Crash, Gone
<1> QED
  BY <1>1, <1>2, <1>3, <1>4, <1>5, <1>6, <1>7, <1>8, <1>9, <1>10, <1>11,
     <1>12, <1>13, <1>14, <1>15, <1>16, <1>17, <1>18, <1>19, <1>20, <1>21
  DEF AppAction, MainStep, WatcherStep

(* or leaves the types of its own state,                                   *)
LEMMA AppMain ==
  ASSUME TypeInv, AppAction
  PROVE  AppTypes'
<1> USE DEF TypeInv
<1>1. CASE Bind
  BY CredentialsAssumption, StartsAssumption, <1>1
     DEF AppTypes, MainPc, NoPair, Pair, Token, NoToken, NoLinks, Bind,
         BindClient
<1>2. CASE HealthCheck
  BY CredentialsAssumption, StartsAssumption, <1>2
     DEF AppTypes, MainPc, NoPair, Pair, Token, NoToken, NoLinks,
         HealthCheck, ListOk, ListRefused
<1>3. CASE Listen
  BY CredentialsAssumption, StartsAssumption, <1>3
     DEF AppTypes, MainPc, NoPair, Pair, Token, NoToken, NoLinks, Listen
<1>4. CASE Await
  BY CredentialsAssumption, StartsAssumption, <1>4
     DEF AppTypes, MainPc, NoPair, Pair, Token, NoToken, NoLinks, Await,
         Interrupted
<1>5. CASE Exchange
  <2>1. /\ main' \in {"save", "close", "hung"}
        /\ UNCHANGED <<mounted, watcher, loop, starts>>
    BY <1>5 DEF Exchange
  <2>2. \/ UNCHANGED token
        \/ /\ issued < MaxGrants
           /\ \E renews \in BOOLEAN :
                token' = [access |-> issued + 1,
                          refresh |-> IF renews THEN issued + 1 ELSE NoToken]
    BY Zenon, <1>5 DEF Exchange, Grant
  <2>3. token' \in Pair
    BY <2>2, CredentialsAssumption
       DEF AppTypes, CredTypes, Pair, Token, NoToken
  <2> QED
    BY <2>1, <2>3 DEF AppTypes, MainPc
<1>6. CASE SaveToken
  BY CredentialsAssumption, <1>6
     DEF AppTypes, MainPc, NoPair, Pair, Token, NoToken, SaveToken
<1>7. CASE Rebind
  BY CredentialsAssumption, StartsAssumption, <1>7
     DEF AppTypes, MainPc, NoPair, Pair, Token, NoToken, NoLinks, Rebind,
         BindAgain, BindClient
<1>8. CASE Preload
  BY CredentialsAssumption, StartsAssumption, <1>8
     DEF AppTypes, MainPc, NoPair, Pair, Token, NoToken, NoLinks, Preload,
         ListOk, ListRefused
<1>9. CASE Mount
  BY CredentialsAssumption, StartsAssumption, <1>9
     DEF AppTypes, MainPc, NoPair, Pair, Token, NoToken, NoLinks, Mount
<1>10. CASE Unserve
  BY CredentialsAssumption, StartsAssumption, <1>10
     DEF AppTypes, MainPc, NoPair, Pair, Token, NoToken, NoLinks, Unserve
<1>11. CASE Close
  BY CredentialsAssumption, StartsAssumption, <1>11
     DEF AppTypes, MainPc, NoPair, Pair, Token, NoToken, NoLinks, Close
<1>12. CASE Drain
  BY CredentialsAssumption, StartsAssumption, <1>12
     DEF AppTypes, MainPc, NoPair, Pair, Token, NoToken, NoLinks, Drain,
         Drained
<1>13. CASE CloseStore
  BY CredentialsAssumption, StartsAssumption, <1>13
     DEF AppTypes, MainPc, NoPair, Pair, Token, NoToken, NoLinks, CloseStore
<1>14. CASE Exit
  BY CredentialsAssumption, StartsAssumption, <1>14
     DEF AppTypes, MainPc, NoPair, Pair, Token, NoToken, NoLinks, Exit, Gone
<1>15. CASE WatcherWakes
  BY CredentialsAssumption, StartsAssumption, <1>15
     DEF AppTypes, MainPc, NoPair, Pair, Token, NoToken, NoLinks,
         WatcherWakes
<1>16. CASE Unmount
  BY CredentialsAssumption, StartsAssumption, <1>16
     DEF AppTypes, MainPc, NoPair, Pair, Token, NoToken, NoLinks, Unmount
<1>17. CASE Start
  BY CredentialsAssumption, StartsAssumption, <1>17
     DEF AppTypes, MainPc, NoPair, Pair, Token, NoToken, NoLinks, Start
<1>18. CASE Callback
  BY CredentialsAssumption, StartsAssumption, <1>18
     DEF AppTypes, MainPc, NoPair, Pair, Token, NoToken, NoLinks, Callback
<1>19. CASE UserUnmounts
  BY CredentialsAssumption, StartsAssumption, <1>19
     DEF AppTypes, MainPc, NoPair, Pair, Token, NoToken, NoLinks,
         UserUnmounts
<1>20. CASE Signal
  BY CredentialsAssumption, StartsAssumption, <1>20
     DEF AppTypes, MainPc, NoPair, Pair, Token, NoToken, NoLinks, Signal
<1>21. CASE Crash
  BY CredentialsAssumption, StartsAssumption, <1>21
     DEF AppTypes, MainPc, NoPair, Pair, Token, NoToken, NoLinks, Crash, Gone
<1> QED
  BY <1>1, <1>2, <1>3, <1>4, <1>5, <1>6, <1>7, <1>8, <1>9, <1>10, <1>11,
     <1>12, <1>13, <1>14, <1>15, <1>16, <1>17, <1>18, <1>19, <1>20, <1>21
  DEF AppAction, MainStep, WatcherStep

(* or of the credentials: it binds a client only when there is a token     *)
(* file.                                                                   *)
LEMMA CredMain ==
  ASSUME TypeInv, AppAction
  PROVE  CredTypes'
<1> USE DEF TypeInv
<1>1. CASE Bind
  BY CredentialsAssumption, NoFileAssumption, <1>1
     DEF CredTypes, Token, NoToken, Pair, NoLinks, ReaderPc, Fault, Bind,
         BindClient
<1>2. CASE HealthCheck
  BY CredentialsAssumption, NoFileAssumption, <1>2
     DEF CredTypes, Token, NoToken, Pair, NoLinks, ReaderPc, Fault,
         HealthCheck, ListOk, ListRefused
<1>3. CASE Listen
  BY CredentialsAssumption, NoFileAssumption, <1>3
     DEF CredTypes, Token, NoToken, Pair, NoLinks, ReaderPc, Fault, Listen
<1>4. CASE Await
  BY CredentialsAssumption, NoFileAssumption, <1>4
     DEF CredTypes, Token, NoToken, Pair, NoLinks, ReaderPc, Fault, Await,
         Interrupted
<1>5. CASE Exchange
  <2>1. /\ main' \notin {"check", "rebind"}
        /\ UNCHANGED <<clientVars, file, readVars>>
    BY <1>5 DEF Exchange
  <2>2. UNCHANGED svcVars \/ \E renews \in BOOLEAN : Grant(NoToken, renews)
    BY Zenon, <1>5 DEF Exchange
  <2>3. UNCHANGED faults \/ Fault
    BY Zenon, <1>5 DEF Exchange
  <2> QED
    BY <2>1, <2>2, <2>3, GrantTypes, CredentialsAssumption
       DEF CredTypes, Fault
<1>6. CASE SaveToken
  <2>1. \/ file' = token /\ UNCHANGED faults
        \/ UNCHANGED file /\ Fault /\ main' = "close"
    BY Zenon, <1>6 DEF SaveToken, Saved, SaveFails
  <2>2. /\ main' \in {"rebind", "close"}
        /\ UNCHANGED <<svcVars, clientVars, readVars>>
    BY <1>6 DEF SaveToken
  <2> QED
    BY <2>1, <2>2, CredentialsAssumption, NoFileAssumption
       DEF AppTypes, CredTypes, Fault
<1>7. CASE Rebind
  BY CredentialsAssumption, NoFileAssumption, <1>7
     DEF CredTypes, Token, NoToken, Pair, NoLinks, ReaderPc, Fault, Rebind,
         BindAgain, BindClient
<1>8. CASE Preload
  BY CredentialsAssumption, NoFileAssumption, <1>8
     DEF CredTypes, Token, NoToken, Pair, NoLinks, ReaderPc, Fault, Preload,
         ListOk, ListRefused
<1>9. CASE Mount
  BY CredentialsAssumption, NoFileAssumption, <1>9
     DEF CredTypes, Token, NoToken, Pair, NoLinks, ReaderPc, Fault, Mount
<1>10. CASE Unserve
  BY CredentialsAssumption, NoFileAssumption, <1>10
     DEF CredTypes, Token, NoToken, Pair, NoLinks, ReaderPc, Fault, Unserve
<1>11. CASE Close
  BY CredentialsAssumption, NoFileAssumption, <1>11
     DEF CredTypes, Token, NoToken, Pair, NoLinks, ReaderPc, Fault, Close
<1>12. CASE Drain
  BY CredentialsAssumption, NoFileAssumption, <1>12
     DEF CredTypes, Token, NoToken, Pair, NoLinks, ReaderPc, Fault, Drain,
         Drained
<1>13. CASE CloseStore
  BY CredentialsAssumption, NoFileAssumption, <1>13
     DEF CredTypes, Token, NoToken, Pair, NoLinks, ReaderPc, Fault,
         CloseStore
<1>14. CASE Exit
  BY CredentialsAssumption, NoFileAssumption, <1>14
     DEF CredTypes, Token, NoToken, Pair, NoLinks, ReaderPc, Fault, Exit,
         Gone
<1>15. CASE WatcherWakes
  BY CredentialsAssumption, NoFileAssumption, <1>15
     DEF CredTypes, Token, NoToken, Pair, NoLinks, ReaderPc, Fault,
         WatcherWakes
<1>16. CASE Unmount
  BY CredentialsAssumption, NoFileAssumption, <1>16
     DEF CredTypes, Token, NoToken, Pair, NoLinks, ReaderPc, Fault, Unmount
<1>17. CASE Start
  BY CredentialsAssumption, NoFileAssumption, <1>17
     DEF CredTypes, Token, NoToken, Pair, NoLinks, ReaderPc, Fault, Start
<1>18. CASE Callback
  BY CredentialsAssumption, NoFileAssumption, <1>18
     DEF CredTypes, Token, NoToken, Pair, NoLinks, ReaderPc, Fault, Callback
<1>19. CASE UserUnmounts
  BY CredentialsAssumption, NoFileAssumption, <1>19
     DEF CredTypes, Token, NoToken, Pair, NoLinks, ReaderPc, Fault,
         UserUnmounts
<1>20. CASE Signal
  BY CredentialsAssumption, NoFileAssumption, <1>20
     DEF CredTypes, Token, NoToken, Pair, NoLinks, ReaderPc, Fault, Signal
<1>21. CASE Crash
  BY CredentialsAssumption, NoFileAssumption, <1>21
     DEF CredTypes, Token, NoToken, Pair, NoLinks, ReaderPc, Fault, Crash,
         Gone
<1> QED
  BY <1>1, <1>2, <1>3, <1>4, <1>5, <1>6, <1>7, <1>8, <1>9, <1>10, <1>11,
     <1>12, <1>13, <1>14, <1>15, <1>16, <1>17, <1>18, <1>19, <1>20, <1>21
  DEF AppAction, MainStep, WatcherStep

(* What the actions of a download do, with their parameters named.         *)
ReaderAction(r) ==
  \/ LinkHit(r) \/ LinkMiss(r) \/ Metas(r) \/ Resolve(r) \/ Fetched(r)
  \/ Aborted(r)
  \/ \E rotates \in BOOLEAN : Renewed(r, rotates)
  \/ \E cancelled \in BOOLEAN :
       \/ Refused(r, cancelled) \/ CallFails(r, cancelled)
       \/ Lock(r, cancelled) \/ RenewRefused(r, cancelled)
       \/ SaveOk(r, cancelled) \/ SaveError(r, cancelled)
       \/ \E rotates \in BOOLEAN : AnswerLost(r, rotates, cancelled)

(* The steps of a download keep the types of the credentials,              *)
LEMMA CredReader ==
  ASSUME TypeInv, NEW r \in Readers, ReaderAction(r), UNCHANGED appVars
  PROVE  CredTypes'
<1> USE CredentialsAssumption, NoFileAssumption
    DEF TypeInv, CredTypes, Token, NoToken, Pair, NoLinks, ReaderPc
<1>1. CASE LinkHit(r)
  BY <1>1 DEF LinkHit, Goto
<1>2. CASE LinkMiss(r)
  BY <1>2 DEF LinkMiss, Goto
<1>3. CASE Metas(r)
  BY <1>3 DEF Metas, Goto
<1>4. CASE Resolve(r)
  BY <1>4 DEF Resolve, Goto
<1>5. CASE Fetched(r)
  BY <1>5 DEF Fetched, Done, Goto
<1>6. CASE \E rotates \in BOOLEAN : Renewed(r, rotates)
  <2>1. PICK rotates \in BOOLEAN : Renewed(r, rotates)
    BY <1>6
  <2>2. Grant(tok[r], rotates)
    BY <2>1 DEF Renewed
  <2> QED
    BY <2>1, <2>2, GrantTypes DEF Renewed, Goto
<1>7. CASE \E cancelled \in BOOLEAN : Refused(r, cancelled)
  BY <1>7 DEF Refused, Fails, Again, Done, Goto
<1>8. CASE \E cancelled \in BOOLEAN : Lock(r, cancelled)
  BY <1>8 DEF Lock, Again, Done, Goto
<1>9. CASE \E cancelled \in BOOLEAN : RenewRefused(r, cancelled)
  BY <1>9 DEF RenewRefused, Unlock, Again, Done, Goto, Fault
<1>10. CASE \E cancelled \in BOOLEAN : SaveOk(r, cancelled)
  BY <1>10 DEF SaveOk, SavedClient, Saved, Unlock, Again, Done, Goto
<1>11. CASE \E cancelled \in BOOLEAN : CallFails(r, cancelled)
  BY <1>11 DEF CallFails, Fails, Again, Done, Goto, Fault
<1>12. CASE Aborted(r)
  BY <1>12 DEF Aborted, Fails, Again, Done, Goto
<1>13. CASE \E cancelled \in BOOLEAN, rotates \in BOOLEAN :
             AnswerLost(r, rotates, cancelled)
  <2>1. PICK cancelled \in BOOLEAN, rotates \in BOOLEAN :
               AnswerLost(r, rotates, cancelled)
    BY <1>13
  <2>2. Grant(tok[r], rotates)
    BY <2>1 DEF AnswerLost
  <2> QED
    BY <2>1, <2>2, GrantTypes
       DEF AnswerLost, Unlock, Again, Done, Goto, Fault
<1>14. CASE \E cancelled \in BOOLEAN : SaveError(r, cancelled)
  BY <1>14 DEF SaveError, SaveFails, Unlock, Again, Done, Goto, Fault
<1> QED
  BY <1>1, <1>2, <1>3, <1>4, <1>5, <1>6, <1>7, <1>8, <1>9, <1>10, <1>11,
     <1>12, <1>13, <1>14
  DEF ReaderAction

(* and of the one flag they set.                                           *)
LEMMA FlagsReader ==
  ASSUME TypeInv, NEW r \in Readers, ReaderAction(r), UNCHANGED appVars
  PROVE  Flags'
<1> USE DEF TypeInv, Flags
<1>1. UNCHANGED fileVars \/ missed' = TRUE
      \/ \E pair \in {[access |-> access, refresh |-> refresh]} : Saved(pair)
  BY Zenon DEF ReaderAction, LinkHit, LinkMiss, Metas, Resolve, Fetched,
     Aborted, Renewed, Refused, CallFails, Fails, Lock, RenewRefused, SaveOk,
     SavedClient, SaveError, SaveFails, AnswerLost
<1>2. missed' \in BOOLEAN
  BY Zenon, <1>1 DEF Saved
<1> QED
  BY Zenon, <1>2

(* So do expiry, a new download and an invalidated link.                   *)
LEMMA TypeOther ==
  ASSUME TypeInv, UNCHANGED appVars,
         \/ \E t \in accepted : Expire(t)
         \/ \E r \in Readers, f \in Files, hedge \in BOOLEAN :
              StartDownload(r, f, hedge)
         \/ \E f \in Files : InvalidateDownloadLink(f)
  PROVE  TypeInv'
<1>1. Flags'
  <2>1. UNCHANGED missed
    BY DEF Expire, StartDownload, InvalidateDownloadLink
  <2> QED
    BY Zenon, <2>1 DEF TypeInv, Flags
<1>2. AppTypes'
  BY DEF TypeInv, AppTypes
<1>3. CredTypes'
  <2> USE CredentialsAssumption DEF TypeInv, CredTypes
  <2>1. CASE \E t \in accepted : Expire(t)
    BY <2>1 DEF Expire
  <2>2. CASE \E r \in Readers, f \in Files, hedge \in BOOLEAN :
               StartDownload(r, f, hedge)
    BY <2>2 DEF StartDownload, Goto, ReaderPc
  <2>3. CASE \E f \in Files : InvalidateDownloadLink(f)
    BY <2>3 DEF InvalidateDownloadLink, Token, NoToken
  <2> QED
    BY <2>1, <2>2, <2>3
<1> QED
  BY <1>1, <1>2, <1>3 DEF TypeInv

(* The steps of a download are reader actions.                             *)
LEMMA ReaderCases ==
  ASSUME NEW r \in Readers,
         DownloadStep(r, Cancelled) \/ DownloadFault(r, Cancelled)
  PROVE  ReaderAction(r)
<1>1. Cancelled \subseteq BOOLEAN
  BY Zenon DEF Cancelled
<1> QED
  BY Zenon, <1>1 DEF DownloadStep, DownloadFault, ReaderAction

(* The steps of Next, sorted by the state they may change.                 *)
LEMMA StepCases ==
  ASSUME Next
  PROVE  \/ AppAction
         \/ \E r \in Readers : ReaderAction(r) /\ UNCHANGED appVars
         \/ \E t \in accepted : Expire(t) /\ UNCHANGED appVars
         \/ \E r \in Readers, f \in Files, hedge \in BOOLEAN :
              Taking /\ StartDownload(r, f, hedge) /\ UNCHANGED appVars
         \/ \E f \in Files : InvalidateDownloadLink(f) /\ UNCHANGED appVars
BY Zenon, ReaderCases DEF Next, AppAction, Environment, ReaderStep

(* Every step keeps the types.                                             *)
LEMMA TypeStep == TypeInv /\ [Next]_vars => TypeInv'
<1> SUFFICES ASSUME TypeInv, [Next]_vars PROVE TypeInv'
  OBVIOUS
<1>1. CASE UNCHANGED vars
  <2>1. Flags'
    BY Zenon, <1>1 DEF TypeInv, Flags
  <2>2. AppTypes' /\ CredTypes'
    BY <1>1 DEF TypeInv, AppTypes, CredTypes
  <2> QED
    BY <2>1, <2>2 DEF TypeInv
<1>2. CASE AppAction
  BY Zenon, <1>2, FlagsMain, AppMain, CredMain DEF TypeInv, AppAction
<1>3. CASE \E r \in Readers : ReaderAction(r) /\ UNCHANGED appVars
  <2>1. AppTypes'
    BY <1>3 DEF TypeInv, AppTypes
  <2> QED
    BY Zenon, <1>3, <2>1, FlagsReader, CredReader DEF TypeInv
<1>4. CASE Next /\ ~AppAction
           /\ ~\E r \in Readers : ReaderAction(r) /\ UNCHANGED appVars
  BY Zenon, <1>4, StepCases, TypeOther
<1> QED
  BY Zenon, <1>1, <1>2, <1>3, <1>4

-----------------------------------------------------------------------------
(* Tokens                                                                  *)

(* RefreshAuth holds the lock from its request until the tokens are saved. *)
LockHeld ==
  \A r \in Readers : pc[r] \in {"renew", "save"} <=> mu = r

(* Downloads are under way only while the file system is served.           *)
OthersIdle ==
  main \notin {"serve", "close", "drain"} => \A r \in Readers : pc[r] = "idle"

NobodySaves == \A r \in Readers : pc[r] # "save"

(* What RefreshAuth sends, and what it is about to save.                   *)
RenewsOwn ==
  \A r \in Readers : pc[r] = "renew" => tok[r] = refresh /\ refresh # NoToken

NewestHeld ==
  \A r \in Readers :
    pc[r] = "save" => access = issued /\ refresh \in renewable

(* What saveOAuthToken is about to save.                                   *)
NewestTaken ==
  main = "save" =>
    /\ token.access = issued
    /\ token.refresh # NoToken => token.refresh \in renewable

(* The token file is never ahead of the service, and its refresh token     *)
(* works if it is from the newest grant.                                   *)
FileRenewable ==
  file # NoFile =>
    /\ file.access <= issued
    /\ file.access = issued /\ file.refresh # NoToken
         => file.refresh \in renewable

(* Unless it is being saved or was missed, the newest grant is in the file.*)
FileNewest ==
  ~missed /\ main # "save" /\ NobodySaves =>
    /\ file = NoFile => issued = 0
    /\ file # NoFile => file.access = issued

(* The client's refresh token works, and its tokens are those of the file. *)
ClientRenewable ==
  main # "rebind" /\ ~missed /\ refresh # NoToken => refresh \in renewable

ClientFile ==
  main # "rebind" /\ ~missed /\ access # NoToken /\ NobodySaves
    => file = [access |-> access, refresh |-> refresh]

CheckBound == main = "check" => access = file.access

AskedFor ==
  main \in {"listen", "await"} =>
    issued \notin accepted \/ missed \/ unreachable

TokenInv ==
  /\ LockHeld
  /\ OthersIdle
  /\ RenewsOwn
  /\ NewestHeld
  /\ NewestTaken
  /\ FileRenewable
  /\ FileNewest
  /\ ClientRenewable
  /\ ClientFile
  /\ CheckBound
  /\ AskedFor

Unmounted ==
  main # "serve" => mounted # "live" /\ ~server /\ loop # "running"

StreamShut == main \in {"closeStore", "exit"} => ~streamOpen

(* The steps of the application keep the token invariant,                  *)
LEMMA TokenMain ==
  ASSUME TypeInv, TokenInv, AppAction
  PROVE  TokenInv'
<1> USE CredentialsAssumption, NoFileAssumption
    DEF TypeInv, AppTypes, CredTypes, Token, NoToken, Pair, NoLinks,
        TokenInv,
        LockHeld, OthersIdle, NobodySaves, RenewsOwn, NewestHeld,
        NewestTaken, FileRenewable, FileNewest, ClientRenewable, ClientFile,
        CheckBound, AskedFor
<1>1. CASE Bind
  BY <1>1 DEF Bind, BindClient
<1>2. CASE HealthCheck
  BY <1>2 DEF HealthCheck, ListOk, ListRefused
<1>3. CASE Listen
  BY <1>3 DEF Listen
<1>4. CASE Await
  BY <1>4 DEF Await, Interrupted
<1>5. CASE Exchange
  BY <1>5 DEF Exchange, Grant
<1>6. CASE SaveToken
  <2>1. \/ Saved(token) /\ main' = "rebind"
        \/ missed' /\ UNCHANGED file /\ main' = "close"
    BY Zenon, <1>6 DEF SaveToken, SaveFails
  <2>2. Saved(token) => file' = token
    BY DEF Saved
  <2>3. main = "save" /\ UNCHANGED <<svcVars, clientVars, readVars>>
    BY <1>6 DEF SaveToken
  <2> QED
    BY <2>1, <2>2, <2>3
<1>7. CASE Rebind
  BY <1>7 DEF Rebind, BindAgain, BindClient
<1>8. CASE Preload
  BY <1>8 DEF Preload, ListOk, ListRefused
<1>9. CASE Mount
  BY <1>9 DEF Mount
<1>10. CASE Unserve
  BY <1>10 DEF Unserve
<1>11. CASE Close
  BY <1>11 DEF Close
<1>12. CASE Drain
  BY <1>12 DEF Drain, Drained
<1>13. CASE CloseStore
  BY <1>13 DEF CloseStore
<1>14. CASE Exit
  BY <1>14 DEF Exit, Gone
<1>15. CASE WatcherWakes
  BY <1>15 DEF WatcherWakes
<1>16. CASE Unmount
  BY <1>16 DEF Unmount
<1>17. CASE Start
  BY <1>17 DEF Start
<1>18. CASE Callback
  BY <1>18 DEF Callback
<1>19. CASE UserUnmounts
  BY <1>19 DEF UserUnmounts
<1>20. CASE Signal
  BY <1>20 DEF Signal
<1>21. CASE Crash
  <2>1. ~missed' => IF file = NoFile THEN ~(issued > 0)
                    ELSE file.access = issued
    BY Zenon, <1>21 DEF Crash
  <2>2. /\ main' = "down"
        /\ access' = NoToken /\ refresh' = NoToken /\ mu' = "free"
        /\ pc' = [q \in Readers |-> "idle"]
        /\ UNCHANGED <<svcVars, file>>
    BY <1>21 DEF Crash, Gone
  <2> QED
    BY <2>1, <2>2
<1> QED
  BY <1>1, <1>2, <1>3, <1>4, <1>5, <1>6, <1>7, <1>8, <1>9, <1>10, <1>11,
     <1>12, <1>13, <1>14, <1>15, <1>16, <1>17, <1>18, <1>19, <1>20, <1>21
  DEF AppAction, MainStep, WatcherStep

(* and so do the steps of a download.                                      *)
LEMMA TokenReader ==
  ASSUME TypeInv, TokenInv, NEW r \in Readers, ReaderAction(r),
         UNCHANGED appVars
  PROVE  TokenInv'
<1> USE CredentialsAssumption, NoFileAssumption
    DEF TypeInv, AppTypes, CredTypes, Token, NoToken, Pair, NoLinks,
        TokenInv,
        LockHeld, OthersIdle, NobodySaves, RenewsOwn, NewestHeld,
        NewestTaken, FileRenewable, FileNewest, ClientRenewable, ClientFile,
        CheckBound, AskedFor
<1>1. CASE LinkHit(r)
  BY <1>1 DEF LinkHit, Goto
<1>2. CASE LinkMiss(r)
  BY <1>2 DEF LinkMiss, Goto
<1>3. CASE Metas(r)
  BY <1>3 DEF Metas, Goto
<1>4. CASE Resolve(r)
  BY <1>4 DEF Resolve, Goto
<1>5. CASE Fetched(r)
  BY <1>5 DEF Fetched, Done, Goto
<1>6. CASE \E rotates \in BOOLEAN : Renewed(r, rotates)
  BY <1>6 DEF Renewed, Grant, Goto
<1>7. CASE \E cancelled \in BOOLEAN : Refused(r, cancelled)
  BY <1>7 DEF Refused, Fails, Again, Done, Goto
<1>8. CASE \E cancelled \in BOOLEAN : Lock(r, cancelled)
  <2>1. CASE refresh = NoToken
    BY <1>8, <2>1 DEF Lock, Again, Done, Goto
  <2>2. CASE refresh # NoToken
    <3>1. /\ mu = "free" /\ mu' = r /\ pc[r] = "lock"
          /\ pc' = [pc EXCEPT ![r] = "renew"]
          /\ tok' = [tok EXCEPT ![r] = refresh]
          /\ UNCHANGED <<svcVars, access, refresh, fileVars>>
      BY <1>8, <2>2 DEF Lock, LockFree, Goto
    <3> QED
      BY <2>2, <3>1
  <2> QED
    BY <2>1, <2>2
<1>9. CASE \E cancelled \in BOOLEAN : RenewRefused(r, cancelled)
  BY <1>9 DEF RenewRefused, Unlock, Again, Done, Goto, Fault
<1>10. CASE \E cancelled \in BOOLEAN : SaveOk(r, cancelled)
  BY <1>10 DEF SaveOk, SavedClient, Saved, Unlock, Again, Done, Goto
<1>11. CASE \E cancelled \in BOOLEAN : CallFails(r, cancelled)
  BY <1>11 DEF CallFails, Fails, Again, Done, Goto, Fault
<1>12. CASE Aborted(r)
  BY <1>12 DEF Aborted, Fails, Again, Done, Goto
<1>13. CASE \E cancelled \in BOOLEAN, rotates \in BOOLEAN :
             AnswerLost(r, rotates, cancelled)
  BY <1>13 DEF AnswerLost, Grant, Unlock, Again, Done, Goto, Fault
<1>14. CASE \E cancelled \in BOOLEAN : SaveError(r, cancelled)
  BY <1>14 DEF SaveError, SaveFails, Unlock, Again, Done, Goto, Fault
<1> QED
  BY <1>1, <1>2, <1>3, <1>4, <1>5, <1>6, <1>7, <1>8, <1>9, <1>10, <1>11,
     <1>12, <1>13, <1>14
  DEF ReaderAction

(* The token invariant holds at first.                                     *)
LEMMA TokenInit == Init => TokenInv
<1> SUFFICES ASSUME Init PROVE TokenInv
  OBVIOUS
<1>1. /\ main = "down" /\ access = NoToken /\ refresh = NoToken /\ mu = "free"
      /\ pc = [r \in Readers |-> "idle"]
  BY Zenon DEF Init, NoProcess, CredInit
<1>2. \/ file = NoFile /\ issued = 0
      \/ /\ file = [access |-> 1, refresh |-> 1]
         /\ issued = 1 /\ renewable = {1}
  BY Zenon DEF Init, CredInit
<1> QED
  BY <1>1, <1>2, CredentialsAssumption, NoFileAssumption
     DEF NoToken, Token, Pair, TokenInv, LockHeld, OthersIdle, NobodySaves,
         RenewsOwn, NewestHeld, NewestTaken, FileRenewable, FileNewest,
         ClientRenewable, ClientFile, CheckBound, AskedFor

(* Expiry, a new download and an invalidated link keep the token invariant.*)
LEMMA TokenOther ==
  ASSUME TypeInv, TokenInv, UNCHANGED appVars,
         \/ \E t \in accepted : Expire(t)
         \/ \E r \in Readers, f \in Files, hedge \in BOOLEAN :
              Taking /\ StartDownload(r, f, hedge)
         \/ \E f \in Files : InvalidateDownloadLink(f)
  PROVE  TokenInv'
<1> USE CredentialsAssumption
    DEF TypeInv, CredTypes, TokenInv, LockHeld, OthersIdle, NobodySaves,
        RenewsOwn, NewestHeld, NewestTaken, FileRenewable, FileNewest,
        ClientRenewable, ClientFile, CheckBound, AskedFor
<1>1. CASE \E t \in accepted : Expire(t)
  BY <1>1 DEF Expire
<1>2. CASE \E r \in Readers, f \in Files, hedge \in BOOLEAN :
             Taking /\ StartDownload(r, f, hedge)
  BY <1>2 DEF Taking, StartDownload, Goto
<1>3. CASE \E f \in Files : InvalidateDownloadLink(f)
  BY <1>3 DEF InvalidateDownloadLink
<1> QED
  BY <1>1, <1>2, <1>3

(* Every step keeps the token invariant.                                   *)
LEMMA TokenStep == TypeInv /\ TokenInv /\ [Next]_vars => TokenInv'
<1> SUFFICES ASSUME TypeInv, TokenInv, [Next]_vars PROVE TokenInv'
  OBVIOUS
<1>1. CASE UNCHANGED vars
  BY <1>1
     DEF TokenInv, LockHeld, OthersIdle, NobodySaves, RenewsOwn, NewestHeld,
         NewestTaken, FileRenewable, FileNewest, ClientRenewable, ClientFile,
         CheckBound, AskedFor
<1>2. CASE Next
  BY Zenon, <1>2, StepCases, TokenMain, TokenReader, TokenOther
<1> QED
  BY <1>1, <1>2

ShutInv == Unmounted /\ StreamShut

(* Every step keeps the order of shutdown.                                 *)
LEMMA ShutStep == TypeInv /\ ShutInv /\ [Next]_vars => ShutInv'
<1> SUFFICES ASSUME TypeInv, ShutInv, [Next]_vars PROVE ShutInv'
  OBVIOUS
<1> USE DEF ShutInv, Unmounted, StreamShut
<1>1. CASE AppAction
  <2>1. CASE Bind
    BY Zenon, <2>1 DEF Bind
  <2>2. CASE HealthCheck
    BY Zenon, <2>2 DEF HealthCheck
  <2>3. CASE Listen
    BY Zenon, <2>3 DEF Listen
  <2>4. CASE Await
    BY Zenon, <2>4 DEF Await
  <2>5. CASE Exchange
    BY Zenon, <2>5 DEF Exchange
  <2>6. CASE SaveToken
    BY Zenon, <2>6 DEF SaveToken
  <2>7. CASE Rebind
    BY Zenon, <2>7 DEF Rebind
  <2>8. CASE Preload
    BY Zenon, <2>8 DEF Preload
  <2>9. CASE Mount
    <3>1. main = "mount"
          /\ (main' = "serve" \/ UNCHANGED <<mounted, server, loop>>)
      BY <2>9 DEF Mount
    <3>2. main' \notin {"closeStore", "exit"}
      BY <2>9 DEF Mount
    <3> QED
      BY <3>1, <3>2
  <2>10. CASE Unserve
    BY Zenon, <2>10 DEF Unserve
  <2>11. CASE Close
    BY Zenon, <2>11 DEF Close
  <2>12. CASE Drain
    BY Zenon, <2>12 DEF Drain
  <2>13. CASE CloseStore
    BY Zenon, <2>13 DEF CloseStore
  <2>14. CASE Exit
    BY Zenon, <2>14 DEF Exit, Gone
  <2>15. CASE WatcherWakes
    BY Zenon, <2>15 DEF WatcherWakes
  <2>16. CASE Unmount
    BY Zenon, <2>16 DEF Unmount
  <2>17. CASE Start
    BY Zenon, <2>17 DEF Start
  <2>18. CASE Callback
    BY Zenon, <2>18 DEF Callback
  <2>19. CASE UserUnmounts
    BY Zenon, <2>19 DEF UserUnmounts
  <2>20. CASE Signal
    BY Zenon, <2>20 DEF Signal
  <2>21. CASE Crash
    BY Zenon, <2>21 DEF Crash, Gone
  <2> QED
    BY <1>1, <2>1, <2>2, <2>3, <2>4, <2>5, <2>6, <2>7, <2>8, <2>9, <2>10,
       <2>11, <2>12, <2>13, <2>14, <2>15, <2>16, <2>17, <2>18, <2>19, <2>20,
       <2>21
    DEF AppAction, MainStep, WatcherStep
<1>2. CASE UNCHANGED appVars
  BY Zenon, <1>2
<1> QED
  BY Zenon, <1>1, <1>2, StepCases

(* The inductive invariant.                                                *)
Inv == TypeInv /\ TokenInv /\ ShutInv

(* The inductive invariant holds of the program (Run, Close, RefreshAuth). *)
THEOREM Invariance == Spec => []Inv
<1>1. Init => Inv
  <2>1. Init => ShutInv
    BY Zenon DEF Init, NoProcess, ShutInv, Unmounted, StreamShut
  <2> QED
    BY <2>1, FlagsInit, AppInit, CredTypesInit, TokenInit DEF Inv, TypeInv
<1>2. Inv /\ [Next]_vars => Inv'
  BY TypeStep, TokenStep, ShutStep DEF Inv
<1> QED
  BY <1>1, <1>2, PTL DEF Spec

(* Every variable keeps its type: in particular a download makes at most   *)
(* two attempts.                                                           *)
THEOREM TypeCorrect == Spec => []TypeOK
<1>1. Inv => TypeOK
  BY Zenon DEF Inv, TypeInv, Flags, AppTypes, CredTypes, TypeOK, CredTypeOK
<1> QED
  BY <1>1, Invariance, PTL

(* The token file and the serving client agree outside RefreshAuth.        *)
THEOREM FileKeepsUp == Spec => []FileCurrent
<1>1. Inv => FileCurrent
  BY CredentialsAssumption
     DEF Inv, TypeInv, CredTypes, TokenInv, LockHeld, NobodySaves,
         ClientFile,
     FileCurrent
<1> QED
  BY <1>1, Invariance, PTL

(* RefreshAuth never sends a refresh token that the service has replaced.  *)
THEOREM KeysNotReused == Spec => []KeyNotReused
<1>1. Inv => KeyNotReused
  BY DEF Inv, TokenInv, OthersIdle, RenewsOwn, ClientRenewable, KeyNotReused
<1> QED
  BY <1>1, Invariance, PTL

(* Nobody is asked to authorize again while the newest access token works. *)
THEOREM RenewalsSurviveRestarts == Spec => []RenewalsSurvive
<1>1. Inv => RenewalsSurvive
  BY Zenon DEF Inv, TokenInv, AskedFor, RenewalsSurvive
<1> QED
  BY <1>1, Invariance, PTL

(* Close shuts everything down before the process ends.                    *)
THEOREM ClosedInOrder == Spec => []ClosedLast
<1>1. Inv => ClosedLast
  <2> SUFFICES ASSUME Inv, main = "exit" PROVE ClosedLast
    BY DEF ClosedLast
  <2>1. \A r \in Readers : pc[r] = "idle"
    BY DEF Inv, TokenInv, OthersIdle
  <2>2. mu = "free"
    BY <2>1 DEF Inv, TypeInv, CredTypes, TokenInv, LockHeld
  <2>3. mounted # "live" /\ ~server /\ loop # "running" /\ ~streamOpen
    BY DEF Inv, ShutInv, Unmounted, StreamShut
  <2> QED
    BY <2>1, <2>2, <2>3 DEF ClosedLast
<1> QED
  BY <1>1, Invariance, PTL
=============================================================================
