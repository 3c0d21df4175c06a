---------------------------- MODULE Credentials -----------------------------
(* The access token, the refresh token and the download links of the Baidu *)
(* API client, the token file they are saved to, and the downloads that    *)
(* use and renew them (internal/baidu/client.go, internal/auth and         *)
(* remote.Reader's ReadStreamRange).                                       *)
(*                                                                         *)
(* A token is the number of the grant that issued it; NoToken is the empty *)
(* string.  A link is the token it was resolved with.  The authorization   *)
(* service is outside the repository: it accepts some access tokens, and   *)
(* renews some refresh tokens, which a renewal may replace.                *)
EXTENDS Naturals

CONSTANTS
  Readers,     \* goroutines that download: stream workers and hedges
  Files,       \* file ids
  MaxGrants,   \* bound on the grants of the service
  MaxFaults,   \* bound on failed calls
  NoFile       \* there is no token file

ASSUME CredentialsAssumption ==
  /\ "free" \notin Readers
  /\ MaxGrants \in Nat \ {0}
  /\ MaxFaults \in Nat

VARIABLES
  accepted,    \* service: access tokens it accepts
  renewable,   \* service: refresh tokens it renews
  issued,      \* service: number of the last grant
  access,      \* APIClient.accessToken
  refresh,     \* APIClient.refreshToken
  links,       \* APIClient.links
  mu,          \* APIClient.mu while RefreshAuth holds it, else "free"
  file,        \* the token file
  missed,      \* a failure kept the newest grant out of the token file
  pc,          \* where each download is
  want,        \* the file it is of
  tok,         \* the token or the link it works with
  try,         \* attempts begun
  faults       \* failed calls so far

svcVars == <<accepted, renewable, issued>>
clientVars == <<access, refresh, links, mu>>
fileVars == <<file, missed>>
readVars == <<pc, want, tok, try>>
credVars == <<svcVars, clientVars, fileVars, readVars, faults>>

NoToken == 0
Token == 0 .. MaxGrants
Pair == [access : Token, refresh : Token]

ASSUME NoFileAssumption == NoFile \notin Pair

ReaderPc == {"idle", "lookup", "meta", "head", "get", "lock", "renew", "save"}

CredTypeOK ==
  /\ accepted \subseteq Token \ {NoToken}
  /\ renewable \subseteq Token \ {NoToken}
  /\ issued \in Token
  /\ access \in Token
  /\ refresh \in Token
  /\ links \in [Files -> Token]
  /\ mu \in Readers \cup {"free"}
  /\ file \in Pair \cup {NoFile}
  /\ missed \in BOOLEAN
  /\ pc \in [Readers -> ReaderPc]
  /\ want \in [Readers -> Files]
  /\ tok \in [Readers -> Token]
  /\ try \in [Readers -> 0 .. 2]
  /\ faults \in 0 .. MaxFaults

NoLinks == [f \in Files |-> NoToken]

(* The first start finds no token file, or one left by an earlier          *)
(* authorization whose access token may have expired.                      *)
CredInit ==
  /\ \/ file = NoFile /\ issued = 0 /\ accepted = {} /\ renewable = {}
     \/ /\ file = [access |-> 1, refresh |-> 1]
        /\ issued = 1
        /\ accepted \in {{}, {1}}
        /\ renewable = {1}
  /\ access = NoToken
  /\ refresh = NoToken
  /\ links = NoLinks
  /\ mu = "free"
  /\ missed = FALSE
  /\ pc = [r \in Readers |-> "idle"]
  /\ want \in [Readers -> Files]
  /\ tok = [r \in Readers |-> NoToken]
  /\ try = [r \in Readers |-> 0]
  /\ faults = 0

-----------------------------------------------------------------------------
(* The service                                                             *)

Fault == faults < MaxFaults /\ faults' = faults + 1

(* An access token expires.                                                *)
Expire(t) ==
  /\ t \in accepted
  /\ accepted' = accepted \ {t}
  /\ UNCHANGED <<renewable, issued, clientVars, fileVars, readVars, faults>>

(* The service grants a new access token against the refresh token t.  It  *)
(* may issue a new refresh token, and then no longer renews the old one.   *)
Grant(t, rotates) ==
  /\ issued < MaxGrants
  /\ issued' = issued + 1
  /\ accepted' = accepted \cup {issued + 1}
  /\ renewable' = IF rotates THEN (renewable \ {t}) \cup {issued + 1}
                  ELSE renewable

-----------------------------------------------------------------------------
(* The token file                                                          *)

(* FileStore.Save: a temporary file is written, synced and closed, and     *)
(* then renamed over the token file, in one step that nobody sees half     *)
(* done.  A failure before leaves the token file as it was.  The newest    *)
(* grant is no longer missed once it is there.                             *)
Saved(pair) ==
  /\ file' = pair
  /\ missed' = IF pair.access = issued THEN FALSE ELSE missed

SaveFails ==
  /\ Fault
  /\ missed' = TRUE
  /\ UNCHANGED file

-----------------------------------------------------------------------------
(* Downloads                                                               *)

Goto(r, label) == pc' = [pc EXCEPT ![r] = label]

(* The download returns.                                                   *)
Done(r) ==
  /\ Goto(r, "idle")
  /\ tok' = [tok EXCEPT ![r] = NoToken]
  /\ try' = [try EXCEPT ![r] = 0]

(* A worker takes a task and Manager.download makes the first of its two   *)
(* attempts; a hedged request makes only one, its last.                    *)
StartDownload(r, f, hedge) ==
  /\ pc[r] = "idle"
  /\ Goto(r, "lookup")
  /\ want' = [want EXCEPT ![r] = f]
  /\ try' = [try EXCEPT ![r] = IF hedge THEN 2 ELSE 1]
  /\ UNCHANGED <<svcVars, clientVars, fileVars, tok, faults>>

(* cachedDownloadLink finds a link in its ten minutes.                     *)
LinkHit(r) ==
  /\ pc[r] = "lookup"
  /\ mu = "free"
  /\ links[want[r]] # NoToken
  /\ Goto(r, "get")
  /\ tok' = [tok EXCEPT ![r] = links[want[r]]]
  /\ UNCHANGED <<svcVars, clientVars, fileVars, want, try, faults>>

(* cachedDownloadLink finds none, or one it deletes as too old, and        *)
(* GetDownloadLink takes the access token for the filemetas call.          *)
LinkMiss(r) ==
  /\ pc[r] = "lookup"
  /\ mu = "free"
  /\ links' = [links EXCEPT ![want[r]] = NoToken]
  /\ tok' = [tok EXCEPT ![r] = access]
  /\ Goto(r, "meta")
  /\ UNCHANGED <<svcVars, access, refresh, mu, fileVars, want, try, faults>>

(* filemetas names the link, and resolveDownloadURL takes the access token *)
(* anew.                                                                   *)
Metas(r) ==
  /\ pc[r] = "meta"
  /\ tok[r] \in accepted
  /\ mu = "free"
  /\ tok' = [tok EXCEPT ![r] = access]
  /\ Goto(r, "head")
  /\ UNCHANGED <<svcVars, clientVars, fileVars, want, try, faults>>

(* The HEAD request of resolveDownloadURL succeeds and cacheDownloadLink   *)
(* keeps the link, whatever happened to the tokens in the meantime.        *)
Resolve(r) ==
  /\ pc[r] = "head"
  /\ tok[r] \in accepted
  /\ mu = "free"
  /\ links' = [links EXCEPT ![want[r]] = tok[r]]
  /\ Goto(r, "get")
  /\ UNCHANGED <<svcVars, access, refresh, mu, fileVars, want, tok, try,
                 faults>>

(* The range request succeeds.  A signed link may outlive its token.       *)
Fetched(r) ==
  /\ pc[r] = "get"
  /\ Done(r)
  /\ UNCHANGED <<svcVars, clientVars, fileVars, want, faults>>

(* Mutant: the attempts are not counted.                                   *)
AgainWithoutEnd(r, cancelled) ==
  IF ~cancelled
  THEN /\ Goto(r, "lookup")
       /\ tok' = [tok EXCEPT ![r] = NoToken]
       /\ try' = [try EXCEPT ![r] = @ + 1]
  ELSE Done(r)

(* The second attempt of Manager.download, unless its context has ended.   *)
Again(r, cancelled) ==
  IF try[r] < 2 /\ ~cancelled
  THEN /\ Goto(r, "lookup")
       /\ tok' = [tok EXCEPT ![r] = NoToken]
       /\ try' = [try EXCEPT ![r] = @ + 1]
  ELSE Done(r)

(* What the error of a refused call may say: ReadRange passes on the       *)
(* status, doJSON and resolveDownloadURL only the body, in which the       *)
(* service may or may not use the word "unauthorized".                     *)
Refusals(label) ==
  IF label = "get" THEN {"status"} ELSE {"body", "unauthorized"}

(* ClassifyDownloadError looks for the status, or the word, in the error.  *)
ClassifyDownloadError(message) ==
  IF message \in {"status", "unauthorized"} THEN "auth" ELSE "other"

(* ReadStreamRange fails: it renews the tokens after an authorization      *)
(* error only.                                                             *)
Fails(r, message, cancelled) ==
  /\ IF ClassifyDownloadError(message) = "auth"
     THEN /\ Goto(r, "lock")
          /\ tok' = [tok EXCEPT ![r] = NoToken]
          /\ UNCHANGED try
     ELSE Again(r, cancelled)
  /\ UNCHANGED <<svcVars, clientVars, fileVars, want>>

(* The service refuses a token, or a link whose token it has dropped.      *)
Refused(r, cancelled) ==
  /\ pc[r] \in {"meta", "head", "get"}
  /\ tok[r] \notin accepted
  /\ \E message \in Refusals(pc[r]) : Fails(r, message, cancelled)
  /\ UNCHANGED faults

(* A call times out or is reset, or a link is refused for another reason   *)
(* than its token.                                                         *)
CallFails(r, cancelled) ==
  /\ pc[r] \in {"meta", "head", "get"}
  /\ Fault
  /\ \E message \in {"net"} \cup (Refusals("get") \cap Refusals(pc[r])) :
       Fails(r, message, cancelled)

(* The range request of a download whose context ends.                     *)
Aborted(r) ==
  /\ pc[r] = "get"
  /\ Fails(r, "net", TRUE)
  /\ UNCHANGED faults

-----------------------------------------------------------------------------
(* RefreshAuth: the mutex is held until it returns.                        *)

LockUnchecked == TRUE  \* mutant: the tokens are renewed without the lock

LockFree == mu = "free"

(* It takes the lock and sends the refresh token, if there is one.         *)
Lock(r, cancelled) ==
  /\ pc[r] = "lock"
  /\ LockFree
  /\ IF refresh = NoToken
     THEN Again(r, cancelled) /\ UNCHANGED mu
     ELSE /\ Goto(r, "renew")
          /\ mu' = r
          /\ tok' = [tok EXCEPT ![r] = refresh]
          /\ UNCHANGED try
  /\ UNCHANGED <<svcVars, access, refresh, links, fileVars, want, faults>>

(* The new tokens are kept and the links dropped.                          *)
Renewed(r, rotates) ==
  /\ pc[r] = "renew"
  /\ tok[r] \in renewable
  /\ Grant(tok[r], rotates)
  /\ access' = issued + 1
  /\ refresh' = IF rotates THEN issued + 1 ELSE refresh
  /\ links' = NoLinks
  /\ Goto(r, "save")
  /\ tok' = [tok EXCEPT ![r] = NoToken]
  /\ UNCHANGED <<mu, fileVars, want, try, faults>>

Unlock(r, cancelled) == Again(r, cancelled) /\ mu' = "free"

(* The service no longer renews the token, or cannot be reached; at the    *)
(* bound on grants it renews nothing.                                      *)
RenewRefused(r, cancelled) ==
  /\ pc[r] = "renew"
  /\ Unlock(r, cancelled)
  /\ IF tok[r] \in renewable /\ issued < MaxGrants
     THEN Fault ELSE UNCHANGED faults
  /\ UNCHANGED <<svcVars, access, refresh, links, fileVars, want>>

(* The service renews the token and its answer is lost.                    *)
AnswerLost(r, rotates, cancelled) ==
  /\ pc[r] = "renew"
  /\ tok[r] \in renewable
  /\ Grant(tok[r], rotates)
  /\ Fault
  /\ missed' = TRUE
  /\ Unlock(r, cancelled)
  /\ UNCHANGED <<access, refresh, links, file, want>>

SavedNot == UNCHANGED fileVars  \* mutant: the client has no onTokenUpdate

(* onTokenUpdate                                                           *)
SavedClient == Saved([access |-> access, refresh |-> refresh])

SaveOk(r, cancelled) ==
  /\ pc[r] = "save"
  /\ SavedClient
  /\ Unlock(r, cancelled)
  /\ UNCHANGED <<svcVars, access, refresh, links, want, faults>>

(* The save fails: the client keeps its new tokens.                        *)
SaveError(r, cancelled) ==
  /\ pc[r] = "save"
  /\ SaveFails
  /\ Unlock(r, cancelled)
  /\ UNCHANGED <<svcVars, access, refresh, links, want>>

-----------------------------------------------------------------------------
(* InvalidateDownloadLink, which the stream manager calls when hedging has *)
(* been needed for several chunks in a row.                                *)
InvalidateDownloadLink(f) ==
  /\ mu = "free"
  /\ links[f] # NoToken
  /\ links' = [links EXCEPT ![f] = NoToken]
  /\ UNCHANGED <<svcVars, access, refresh, mu, fileVars, readVars, faults>>

(* One step of a download under way; ends are the values of "its context   *)
(* has ended".                                                             *)
DownloadStep(r, ends) ==
  \/ LinkHit(r) \/ LinkMiss(r) \/ Metas(r) \/ Resolve(r) \/ Fetched(r)
  \/ \E rotates \in BOOLEAN : Renewed(r, rotates)
  \/ \E cancelled \in ends :
       \/ Refused(r, cancelled)
       \/ Lock(r, cancelled)
       \/ RenewRefused(r, cancelled)
       \/ SaveOk(r, cancelled)

DownloadFault(r, ends) ==
  \/ TRUE \in ends /\ Aborted(r)
  \/ \E cancelled \in ends :
       \/ CallFails(r, cancelled)
       \/ \E rotates \in BOOLEAN : AnswerLost(r, rotates, cancelled)
       \/ SaveError(r, cancelled)
=============================================================================
