---------------------------- MODULE AppLifecycle ----------------------------
(* The life of the mount process (internal/app/app.go: Run, run,           *)
(* mountAndWait, Close): it binds the API client to the stored token,      *)
(* tries it, asks for authorization when it does not work, mounts, serves  *)
(* reads, and shuts down on a signal or when it is unmounted.  Downloads   *)
(* and tokens are those of Credentials.  The process may crash at any      *)
(* point and be started again: the token file is all that is left.         *)
EXTENDS Credentials

CONSTANT
  MaxStarts    \* bound on starts of the process

ASSUME StartsAssumption == MaxStarts \in Nat \ {0}

VARIABLES
  main,        \* where Run is; "down" when there is no process
  sig,         \* SIGINT or SIGTERM has come: ctx is done
  unreachable, \* run asks for authorization for want of a connection
  listening,   \* the OAuthServer takes callbacks
  result,      \* OAuthServer.result, or run's resultCh, holds a code
  token,       \* the token pair saveOAuthToken is saving
  mounted,     \* the kernel's mount: "none", "live", or "stale" after a crash
  server,      \* App.server is set
  watcher,     \* the goroutine that unmounts when ctx is done
  unmountErr,  \* Unmount has failed
  loop,        \* the refresh loop: "off", "running", or "stopped" by its
               \* cancel function
  streamOpen,  \* the stream manager is open
  storeOpen,   \* the SQLite store is open
  starts       \* starts of the process so far

oauthVars == <<listening, result, token>>
mountVars == <<mounted, server, watcher, unmountErr>>
openVars == <<streamOpen, storeOpen>>
appVars == <<main, sig, unreachable, oauthVars, mountVars, loop, openVars,
             starts>>
vars == <<credVars, appVars>>

MainPc == {"down", "bind", "check", "listen", "await", "exchange", "hung",
           "save", "rebind", "preload", "mount", "serve", "close", "drain",
           "closeStore", "exit"}

NoPair == [access |-> NoToken, refresh |-> NoToken]

TypeOK ==
  /\ CredTypeOK
  /\ main \in MainPc
  /\ sig \in BOOLEAN
  /\ unreachable \in BOOLEAN
  /\ listening \in BOOLEAN
  /\ result \in BOOLEAN
  /\ token \in Pair
  /\ mounted \in {"none", "live", "stale"}
  /\ server \in BOOLEAN
  /\ watcher \in {"off", "armed", "unmounting"}
  /\ unmountErr \in BOOLEAN
  /\ loop \in {"off", "running", "stopped"}
  /\ streamOpen \in BOOLEAN
  /\ storeOpen \in BOOLEAN
  /\ starts \in 0 .. MaxStarts

(* What a process holds before New, and after it has ended.                *)
NoProcess ==
  /\ main = "down"
  /\ sig = FALSE
  /\ unreachable = FALSE
  /\ listening = FALSE
  /\ result = FALSE
  /\ token = NoPair
  /\ server = FALSE
  /\ watcher = "off"
  /\ unmountErr = FALSE
  /\ loop = "off"
  /\ streamOpen = FALSE
  /\ storeOpen = FALSE

Init ==
  /\ CredInit
  /\ NoProcess
  /\ mounted = "none"
  /\ starts = 0

(* New opens the store and the stream manager, and Run begins.  While the  *)
(* mount of a process that crashed is left, New fails in MkdirAll.         *)
Start ==
  /\ main = "down"
  /\ mounted # "stale"
  /\ starts < MaxStarts
  /\ starts' = starts + 1
  /\ main' = "bind"
  /\ streamOpen' = TRUE
  /\ storeOpen' = TRUE
  /\ UNCHANGED <<credVars, sig, unreachable, oauthVars, mountVars, loop>>

-----------------------------------------------------------------------------
(* run                                                                     *)

(* bindRemoteClient makes a client from the token file.                    *)
BindClient ==
  /\ access' = file.access
  /\ refresh' = file.refresh
  /\ links' = NoLinks
  /\ UNCHANGED mu

ClientKept == UNCHANGED clientVars  \* mutant: the first client stays

(* bindRemoteClient once more, with the token just saved.                  *)
BindAgain == BindClient

Bind ==
  /\ main = "bind"
  /\ \/ file # NoFile /\ BindClient /\ main' = "check"
     \/ file = NoFile /\ UNCHANGED clientVars /\ main' = "listen"
  /\ UNCHANGED <<svcVars, fileVars, readVars, faults, sig, unreachable,
                 oauthVars, mountVars, loop, openVars, starts>>

(* A List call with the client's access token, in one step: it works, is   *)
(* refused or fails.  List never renews a token.                           *)
ListOk == access \in accepted /\ UNCHANGED faults
ListRefused == access \notin accepted /\ UNCHANGED faults

(* remoteHealthCheck: any error leads to a new authorization.              *)
HealthCheck ==
  /\ main = "check"
  /\ \/ ListOk /\ main' = "preload" /\ UNCHANGED unreachable
     \/ ListRefused /\ main' = "listen" /\ UNCHANGED unreachable
     \/ Fault /\ main' = "listen" /\ unreachable' = TRUE
  /\ UNCHANGED <<svcVars, clientVars, fileVars, readVars, sig, oauthVars,
                 mountVars, loop, openVars, starts>>

(* OAuthServer.Start, which fails when the port is taken.                  *)
Listen ==
  /\ main = "listen"
  /\ \/ listening' = TRUE /\ main' = "await" /\ UNCHANGED faults
     \/ Fault /\ main' = "close" /\ UNCHANGED listening
  /\ UNCHANGED <<svcVars, clientVars, fileVars, readVars, sig, unreachable,
                 result, token, mountVars, loop, openVars, starts>>

(* handleCallback delivers a code.  A request with another state or        *)
(* without a code is turned away, and a code beyond the one the channel    *)
(* holds is dropped.                                                       *)
Callback ==
  /\ listening
  /\ ~result
  /\ result' = TRUE
  /\ UNCHANGED <<credVars, main, sig, unreachable, listening, token,
                 mountVars, loop, openVars, starts>>

InterruptIgnored == FALSE  \* mutant: the wait does not look at ctx

Interrupted == sig

(* run waits for a code or for the signal; with the code it shuts the      *)
(* callback server down, which ends run if it takes more than five         *)
(* seconds.                                                                *)
Await ==
  /\ main = "await"
  /\ result' = FALSE
  /\ unreachable' = FALSE
  /\ \/ /\ result
        /\ listening' = FALSE
        /\ \/ main' = "exchange" /\ UNCHANGED faults
           \/ main' = "close" /\ Fault
     \/ Interrupted /\ main' = "close" /\ UNCHANGED <<listening, faults>>
  /\ UNCHANGED <<svcVars, clientVars, fileVars, readVars, sig, token,
                 mountVars, loop, openVars, starts>>

(* ExchangeToken: a grant with or without a refresh token, an error before *)
(* or after the grant, or no answer at all: its HTTP client has no timeout *)
(* and does not see ctx.                                                   *)
Exchange ==
  /\ main = "exchange"
  /\ \/ \E renews \in BOOLEAN :
          /\ Grant(NoToken, renews)
          /\ token' = [access |-> issued + 1,
                       refresh |-> IF renews THEN issued + 1 ELSE NoToken]
          /\ main' = "save"
          /\ UNCHANGED <<missed, faults>>
     \/ \E renews \in BOOLEAN :
          /\ Grant(NoToken, renews)
          /\ Fault
          /\ missed' = TRUE
          /\ main' = "close"
          /\ UNCHANGED token
     \/ /\ IF issued < MaxGrants THEN Fault ELSE UNCHANGED faults
        /\ main' = "close"
        /\ UNCHANGED <<svcVars, missed, token>>
     \/ /\ Fault
        /\ main' = "hung"
        /\ UNCHANGED <<svcVars, missed, token>>
  /\ UNCHANGED <<clientVars, file, readVars, sig, unreachable, listening,
                 result, mountVars, loop, openVars, starts>>

(* SaveOAuthTokenFromCallback saves the pair.                              *)
SaveToken ==
  /\ main = "save"
  /\ token' = NoPair
  /\ \/ Saved(token) /\ main' = "rebind" /\ UNCHANGED faults
     \/ SaveFails /\ main' = "close"
  /\ UNCHANGED <<svcVars, clientVars, readVars, sig, unreachable, listening,
                 result, mountVars, loop, openVars, starts>>

(* bindRemoteClient after the authorization.                               *)
Rebind ==
  /\ main = "rebind"
  /\ BindAgain
  /\ main' = "preload"
  /\ UNCHANGED <<svcVars, fileVars, readVars, faults, sig, unreachable,
                 oauthVars, mountVars, loop, openVars, starts>>

-----------------------------------------------------------------------------
(* mountAndWait                                                            *)

(* The mount root is listed before it is mounted.                          *)
Preload ==
  /\ main = "preload"
  /\ \/ ListOk /\ main' = "mount"
     \/ ListRefused /\ main' = "close"
     \/ Fault /\ main' = "close"
  /\ UNCHANGED <<svcVars, clientVars, fileVars, readVars, sig, unreachable,
                 oauthVars, mountVars, loop, openVars, starts>>

(* mountFunc, the refresh loop, and the goroutine that waits for ctx.      *)
Mount ==
  /\ main = "mount"
  /\ \/ /\ mounted' = "live"
        /\ server' = TRUE
        /\ watcher' = "armed"
        /\ loop' = "running"
        /\ main' = "serve"
        /\ UNCHANGED faults
     \/ /\ Fault
        /\ main' = "close"
        /\ UNCHANGED <<mounted, server, watcher, loop>>
  /\ UNCHANGED <<svcVars, clientVars, fileVars, readVars, sig, unreachable,
                 oauthVars, unmountErr, openVars, starts>>

(* The goroutine that waits for ctx calls unmountServer, which gives up    *)
(* App.server before it unmounts.                                          *)
WatcherWakes ==
  /\ watcher = "armed"
  /\ sig
  /\ watcher' = IF server THEN "unmounting" ELSE "off"
  /\ server' = FALSE
  /\ UNCHANGED <<credVars, main, sig, unreachable, oauthVars, mounted,
                 unmountErr, loop, openVars, starts>>

(* Unmount fails while files are open; nobody tries again.                 *)
Unmount ==
  /\ watcher = "unmounting"
  /\ watcher' = "off"
  /\ \/ mounted' = "none" /\ UNCHANGED <<unmountErr, faults>>
     \/ mounted = "live" /\ Fault /\ unmountErr' = TRUE /\ UNCHANGED mounted
  /\ UNCHANGED <<svcVars, clientVars, fileVars, readVars, main, sig,
                 unreachable, oauthVars, server, loop, openVars, starts>>

(* The user unmounts.                                                      *)
UserUnmounts ==
  /\ mounted # "none"
  /\ mounted' = "none"
  /\ UNCHANGED <<credVars, main, sig, unreachable, oauthVars, server, watcher,
                 unmountErr, loop, openVars, starts>>

(* server.Wait returns: the watcher is told, the refresh loop stopped and  *)
(* App.server given up.                                                    *)
Unserve ==
  /\ main = "serve"
  /\ mounted # "live"
  /\ main' = "close"
  /\ loop' = "stopped"
  /\ server' = FALSE
  /\ watcher' = IF watcher = "armed" THEN "off" ELSE watcher
  /\ UNCHANGED <<credVars, sig, unreachable, oauthVars, mounted, unmountErr,
                 openVars, starts>>

-----------------------------------------------------------------------------
(* Close, which Run defers                                                 *)

(* shutdownOAuth, and stream.Close: no more tasks are taken and those      *)
(* under way are cancelled.  The refresh loop has been stopped and         *)
(* App.server given up by then, if there were any.                         *)
Close ==
  /\ main = "close"
  /\ listening' = FALSE
  /\ main' = "drain"
  /\ UNCHANGED <<credVars, sig, unreachable, result, token, mountVars, loop,
                 openVars, starts>>

DrainedUnchecked == TRUE  \* mutant: Close does not wait for the workers

Drained == \A r \in Readers : pc[r] = "idle"

(* It waits for its workers and hedged requests.                           *)
Drain ==
  /\ main = "drain"
  /\ Drained
  /\ streamOpen' = FALSE
  /\ main' = "closeStore"
  /\ UNCHANGED <<credVars, sig, unreachable, oauthVars, mountVars, loop,
                 storeOpen, starts>>

(* The process is gone, and its memory with it.                            *)
Gone ==
  /\ main' = "down"
  /\ sig' = FALSE
  /\ unreachable' = FALSE
  /\ listening' = FALSE
  /\ result' = FALSE
  /\ token' = NoPair
  /\ server' = FALSE
  /\ watcher' = "off"
  /\ unmountErr' = FALSE
  /\ loop' = "off"
  /\ streamOpen' = FALSE
  /\ storeOpen' = FALSE
  /\ access' = NoToken
  /\ refresh' = NoToken
  /\ links' = NoLinks
  /\ mu' = "free"
  /\ pc' = [r \in Readers |-> "idle"]
  /\ tok' = [r \in Readers |-> NoToken]
  /\ try' = [r \in Readers |-> 0]

CloseStore ==
  /\ main = "closeStore"
  /\ storeOpen' = FALSE
  /\ main' = "exit"
  /\ UNCHANGED <<credVars, sig, unreachable, oauthVars, mountVars, loop,
                 streamOpen, starts>>

Exit ==
  /\ main = "exit"
  /\ Gone
  /\ UNCHANGED <<svcVars, fileVars, want, faults, mounted, starts>>

(* The process is killed.  Its mount stays behind, and a grant it had not  *)
(* saved is lost.                                                          *)
Crash ==
  /\ main # "down"
  /\ Gone
  /\ missed' = (missed \/ IF file = NoFile THEN issued > 0
                           ELSE file.access # issued)
  /\ mounted' = IF mounted = "live" THEN "stale" ELSE mounted
  /\ UNCHANGED <<svcVars, file, want, faults, starts>>

Signal ==
  /\ main # "down"
  /\ ~sig
  /\ sig' = TRUE
  /\ UNCHANGED <<credVars, main, unreachable, oauthVars, mountVars, loop,
                 openVars, starts>>

-----------------------------------------------------------------------------
(* Composition                                                             *)

(* Workers take tasks from the first read until the manager is closed.     *)
Taking ==
  main = "serve" \/ (main = "close" /\ loop = "stopped")

(* Whether the context of a download has ended: a seek or the winner of a  *)
(* hedge may cancel any of them, and Close has cancelled all.              *)
Cancelled == IF main = "drain" THEN {TRUE} ELSE BOOLEAN

MainStep ==
  \/ Bind \/ HealthCheck \/ Listen \/ Await \/ Exchange \/ SaveToken
  \/ Rebind \/ Preload \/ Mount \/ Unserve
  \/ Close \/ Drain \/ CloseStore \/ Exit

WatcherStep == WatcherWakes \/ Unmount

ReaderStep(r) == DownloadStep(r, Cancelled) /\ UNCHANGED appVars

Environment ==
  \/ Start \/ Callback \/ UserUnmounts \/ Signal \/ Crash
  \/ \E t \in accepted : Expire(t) /\ UNCHANGED appVars
  \/ \E r \in Readers, f \in Files, hedge \in BOOLEAN :
       Taking /\ StartDownload(r, f, hedge) /\ UNCHANGED appVars
  \/ \E r \in Readers : DownloadFault(r, Cancelled) /\ UNCHANGED appVars
  \/ \E f \in Files :
       Taking /\ InvalidateDownloadLink(f) /\ UNCHANGED appVars

Next ==
  \/ MainStep
  \/ WatcherStep
  \/ \E r \in Readers : ReaderStep(r)
  \/ Environment

Spec == Init /\ [][Next]_vars

(* Calls of the service have timeouts, but for the exchange of the code,   *)
(* and the goroutines of the process are scheduled.  Nothing is assumed of *)
(* the user, of signals or of faults.                                      *)
Fairness ==
  /\ WF_vars(MainStep)
  /\ WF_vars(WatcherStep)
  /\ \A r \in Readers : WF_vars(ReaderStep(r))

FairSpec == Spec /\ Fairness

-----------------------------------------------------------------------------
(* Properties                                                              *)

(* Outside RefreshAuth the token file holds what the serving client holds: *)
(* no renewal, and no authorization, leaves the two apart unless a save    *)
(* failed (RefreshAuth, onTokenUpdate, saveOAuthToken, bindRemoteClient).  *)
FileCurrent ==
  main \in {"preload", "mount", "serve", "close", "drain", "closeStore",
            "exit"} /\ access # NoToken /\ mu = "free" /\ ~missed
  => file = [access |-> access, refresh |-> refresh]

(* A refresh token that the service has replaced is never sent again,      *)
(* whatever number of downloads meet an expired token at once: RefreshAuth *)
(* holds the client's lock across the call.  Only a lost answer leaves the *)
(* client with a token the service has dropped.                            *)
KeyNotReused ==
  \A r \in Readers : pc[r] = "renew" => tok[r] \in renewable \/ missed

(* While the newest access token works, nobody is asked to authorize the   *)
(* program again: renewals reach the token file and survive restarts, up   *)
(* to a failure that kept one out of it or that kept the health check from *)
(* the service (run, RefreshAuth, FileStore.Save).  An access token that   *)
(* has expired does lead to a new authorization: see NeverExpires.         *)
RenewalsSurvive ==
  issued \in accepted /\ ~missed /\ ~unreachable => main # "await"

(* What the documentation says: tokens are renewed automatically, and a    *)
(* stored login never expires as long as its refresh token is valid.  The  *)
(* health check does not renew (run, remoteHealthCheck).                   *)
NeverExpires ==
  main = "await" /\ file # NoFile /\ ~missed /\ ~unreachable
    => file.refresh \notin renewable

(* When Close has closed the store nothing is mounted, the refresh loop    *)
(* has been told to stop, the stream manager is closed, and no download is *)
(* left that could still be saving tokens.                                 *)
ClosedLast ==
  main = "exit" =>
    /\ mounted # "live" /\ ~server /\ ~streamOpen
    /\ loop # "running"
    /\ mu = "free"
    /\ \A r \in Readers : pc[r] = "idle"

(* A signal ends the process, while it waits for an authorization, while   *)
(* it serves and while it shuts down, unless the kernel refused to unmount *)
(* or the exchange of the code hangs (Run, mountAndWait, unmountServer,    *)
(* ExchangeToken).                                                         *)
SignalEnds == sig ~> (main \in {"down", "hung"} \/ unmountErr)

(* What the documentation says: after an answer of 401 or 403 a download   *)
(* renews the tokens before it tries again (ReadStreamRange).              *)
RefusedRenews ==
  [][\A r \in Readers :
       (\E cancelled \in Cancelled : Refused(r, cancelled))
         => pc'[r] = "lock"]_vars
=============================================================================
