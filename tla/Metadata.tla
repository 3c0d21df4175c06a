------------------------------ MODULE Metadata ------------------------------
(***************************************************************************)
(* The directory tree of the mount: rows of the netdisk's entries in       *)
(* SQLite (internal/store), the negative cache (internal/cache), the FUSE  *)
(* handlers that look entries up, list and delete them and refresh         *)
(* directories on demand (internal/fs), and the application's start and    *)
(* its refresh of the root every minute (internal/app).  FUSE handlers run *)
(* concurrently; other clients change the netdisk; the process may crash.  *)
(*                                                                         *)
(* Each query or transaction of SQLite and each call of the netdisk is an  *)
(* action; the two queries of ListChildren are one.  An entry's FSID is    *)
(* its path with the number of the change that created it, so an FSID of   *)
(* an old entry is never that of a new one at the same path.  Sizes, times *)
(* and modes are left out, expires_at is whether it is in the future, and  *)
(* statements of SQLite do not fail.  The refresh token is taken only by   *)
(* the application's own calls, which follow one another: it is always     *)
(* free.                                                                   *)
(***************************************************************************)
EXTENDS Naturals, FiniteSets

CONSTANTS Root,        \* the mount's root, RemoteRootPath
          Paths,       \* the paths below it
          Dirs,        \* those that are directories
          Parent,      \* the directory of each path
          Alike,       \* the paths that a path matches when it is read as a
                       \* LIKE pattern: _ and % in it, and the case of letters
          Stable,      \* entries nobody deletes
          Threads,     \* FUSE request handlers
          App,         \* the application's goroutine
          Events,      \* which disturbances happen
          MaxChanges,  \* how many
          None

ASSUME MetadataAssumption ==
  /\ Root \notin Paths
  /\ Dirs \subseteq Paths
  /\ Parent \in [Paths -> Dirs \cup {Root}]
  /\ Alike \in [Paths -> SUBSET Paths]
  /\ Stable \subseteq Paths
  /\ \A p \in Stable : Parent[p] \in Stable \cup {Root}
  /\ App \notin Threads
  /\ Events \subseteq {"change", "delete", "fail", "short", "crash"}
  /\ MaxChanges \in Nat

All == Paths \cup {Root}
Id == All \X (0..MaxChanges)
Rows == [fsid : Id, parent : Id \cup {None}, fresh : BOOLEAN]

(* NULL is neither a row nor an FSID.                                      *)
ASSUME NoneAssumption == None \notin Id /\ None \notin Rows

VARIABLES
  remote,    \* the netdisk: the FSID at each path
  changes,   \* how often it was changed, or a call or the process failed
  rows,      \* the table entries, by path
  negative,  \* the paths the negative cache calls missing
  inodes,    \* the directories the kernel has inodes of
  job,       \* what each goroutine does
  phase,     \* the life of the application
  todo,      \* the directories RefreshAll still has to refresh
  lost       \* the stable entries that a short listing has left out, or that
             \* a delete of a path like theirs has taken: a history variable

vars == <<remote, changes, rows, negative, inodes, job, phase, todo, lost>>

Procs == Threads \cup {App}
RootId == <<Root, 0>>
PathOf(id) == id[1]

Row(id, par, fresh) == [fsid |-> id, parent |-> par, fresh |-> fresh]

(* A goroutine in a handler: dir is the directory it works on, with the    *)
(* FSID its inode was made with.                                           *)
Jobs == [pc : {"idle", "check", "list", "replace", "parent", "upsert", "after",
               "delete", "forget"},
         op : {"read", "delete", "refresh", None},
         dir : Id \cup {None}, name : Paths \cup {None},
         seen : SUBSET Id, par : Id \cup {None}]
NoJob == [pc |-> "idle", op |-> None, dir |-> None, name |-> None,
          seen |-> {}, par |-> None]
Job(pc, op, dir, name, seen) ==
  [NoJob EXCEPT !.pc = pc, !.op = op, !.dir = dir, !.name = name, !.seen = seen]

(* An empty database and a netdisk with every entry.                       *)
Init ==
  /\ remote = [p \in Paths |-> <<p, 0>>]
  /\ changes = 0
  /\ rows = [p \in All |-> None]
  /\ negative = {}
  /\ inodes = {}
  /\ job = [t \in Procs |-> NoJob]
  /\ phase = "down"
  /\ todo = {}
  /\ lost = {}

Disturbed == changes < MaxChanges /\ changes' = changes + 1

-----------------------------------------------------------------------------
(* The store                                                               *)

(* ListChildren: the rows whose parent_fsid is the FSID of the row at p.   *)
ListChildren(p) ==
  IF rows[p] = None THEN {}
  ELSE {rows[q].fsid : q \in {c \in Paths : rows[c] # None /\ rows[c].parent = rows[p].fsid}}

DirsIn(S) == {id \in S : PathOf(id) \in Dirs}

(* Mutant: a directory nobody has listed counts as listed just now.        *)
ChildFreshAlways(p) == TRUE

(* childExpiresAt                                                          *)
ChildFresh(p) == p \notin Dirs

(* Mutant: the old children are not deleted.                               *)
UpsertedChildren(id, S) ==
  [p \in All |->
    IF \E c \in S : PathOf(c) = p
    THEN Row(CHOOSE c \in S : PathOf(c) = p, id, ChildFresh(p))
    ELSE rows[p]]

(* ReplaceChildren: the old children of id go, those of S are upserted by  *)
(* their path, in one transaction.                                         *)
ReplacedChildren(id, S) ==
  [p \in All |->
    IF \E c \in S : PathOf(c) = p
    THEN Row(CHOOSE c \in S : PathOf(c) = p, id, ChildFresh(p))
    ELSE IF rows[p] # None /\ rows[p].parent = id THEN None ELSE rows[p]]

(* p and what is below it: what is in every set that has p and, with a     *)
(* directory, its entries.                                                 *)
Below(p) ==
  {q \in Paths :
     \A S \in SUBSET Paths :
       p \in S /\ (\A c \in Paths : Parent[c] \in S => c \in S) => q \in S}

(* DeletePath's WHERE: p, and what is like p/%, which is below p or below  *)
(* a path that p is a pattern of.                                          *)
Matched(p) == {p} \cup UNION {Below(q) \ {q} : q \in Alike[p] \cup {p}}

-----------------------------------------------------------------------------
(* Refreshing a directory: refreshRoot and refreshDir                      *)

Entries(p) == {remote[q] : q \in {c \in Paths : Parent[c] = p /\ remote[c] # None}}
Exists(p) == IF p = Root THEN TRUE ELSE remote[p] # None

(* A refresh, or the handler around it, ends: with an error, or else it    *)
(* goes on.  An error of the preload ends the process, one of RefreshAll   *)
(* is logged.                                                              *)
Aborted(t) ==
  /\ job' = [job EXCEPT ![t] = NoJob]
  /\ phase' = CASE t = App /\ phase = "preload" -> "down"
                [] t = App /\ phase # "preload" -> "serve"
                [] OTHER -> phase
  /\ todo' = IF t = App THEN {} ELSE todo

(* Mutant: a listing that failed counts as an empty one.                   *)
ListFailsEmpty(t) ==
  /\ job[t].pc = "list"
  /\ "fail" \in Events /\ Disturbed
  /\ job' = [job EXCEPT ![t].pc = "replace", ![t].seen = {}]
  /\ UNCHANGED <<remote, rows, negative, inodes, phase, todo, lost>>

(* remote.List fails: no such directory, or no answer.                     *)
ListFails(t) ==
  /\ job[t].pc = "list"
  /\ \/ ~Exists(PathOf(job[t].dir)) /\ UNCHANGED changes
     \/ "fail" \in Events /\ Disturbed
  /\ Aborted(t)
  /\ UNCHANGED <<remote, rows, negative, inodes, lost>>

List(t) ==
  LET p == PathOf(job[t].dir) IN
  /\ job[t].pc = "list"
  /\ Exists(p)
  /\ job' = [job EXCEPT ![t].pc = "replace", ![t].seen = Entries(p)]
  /\ UNCHANGED <<remote, changes, rows, negative, inodes, phase, todo, lost>>

(* Error code 109 is no error, and the pages before it are the listing;    *)
(* an entry that moves from a page to one already read is left out too.    *)
ListShort(t) ==
  LET p == PathOf(job[t].dir) IN
  /\ job[t].pc = "list"
  /\ "short" \in Events /\ Disturbed
  /\ \E S \in SUBSET Entries(p) :
       /\ job' = [job EXCEPT ![t].pc = "replace", ![t].seen = S]
       /\ lost' = lost \cup {q \in Stable : Parent[q] = p /\ remote[q] \notin S}
  /\ UNCHANGED <<remote, rows, negative, inodes, phase, todo>>

Replace(t) ==
  /\ job[t].pc = "replace"
  /\ rows' = ReplacedChildren(job[t].dir, job[t].seen)
  /\ job' = [job EXCEPT ![t].pc = "parent", ![t].seen = {}]
  /\ UNCHANGED <<remote, changes, negative, inodes, phase, todo, lost>>

(* The parent the directory's own row is to have.  Without a row it is the *)
(* root.                                                                   *)
ParentOf(p) ==
  IF p = Root THEN None
  ELSE IF rows[p] = None THEN RootId ELSE rows[p].parent

ReadParent(t) ==
  /\ job[t].pc = "parent"
  /\ job' = [job EXCEPT ![t].pc = "upsert", ![t].par = ParentOf(PathOf(job[t].dir))]
  /\ UNCHANGED <<remote, changes, rows, negative, inodes, phase, todo, lost>>

(* UpsertEntry of the directory itself, fresh from now on.                 *)
Upsert(t) ==
  /\ job[t].pc = "upsert"
  /\ rows' = [rows EXCEPT ![PathOf(job[t].dir)] = Row(job[t].dir, job[t].par, TRUE)]
  /\ job' = [job EXCEPT ![t].pc = "after", ![t].par = None]
  /\ UNCHANGED <<remote, changes, negative, inodes, phase, todo, lost>>

RefreshStep(t) ==
  List(t) \/ ListFails(t) \/ ListShort(t) \/ Replace(t) \/ ReadParent(t) \/ Upsert(t)

-----------------------------------------------------------------------------
(* FUSE handlers                                                           *)

Serving == phase = "serve"

(* Lookup and Readdir (without a name): the negative cache, then the rows. *)
Begin(t, id, name) ==
  /\ Serving
  /\ job[t] = NoJob
  /\ name \notin negative
  /\ job' = [job EXCEPT ![t] = Job("check", "read", id, name, ListChildren(PathOf(id)))]
  /\ UNCHANGED <<remote, changes, rows, negative, inodes, phase, todo, lost>>

(* Mutant: Readdir, which has no name, remembers that it found none.       *)
AnswerNameless(t, S) ==
  LET name == job[t].name
      hit == {id \in S : PathOf(id) = name}
  IN
  /\ inodes' = inodes \cup DirsIn(hit)
  /\ negative' = IF hit = {} THEN negative \cup {name} ELSE negative
  /\ job' = [job EXCEPT ![t] = NoJob]
  /\ UNCHANGED <<remote, changes, rows, phase, todo, lost>>

(* The answer, from the children S: an inode, or ENOENT, remembered.       *)
Answer(t, S) ==
  LET name == job[t].name
      hit == {id \in S : PathOf(id) = name}
  IN
  /\ inodes' = inodes \cup DirsIn(hit)
  /\ negative' = IF name # None /\ hit = {} THEN negative \cup {name} ELSE negative
  /\ job' = [job EXCEPT ![t] = NoJob]
  /\ UNCHANGED <<remote, changes, rows, phase, todo, lost>>

(* shouldRefresh looks at the directory's row once more.                   *)
ShouldRefresh(p) == rows[p] = None \/ ~rows[p].fresh

Check(t) ==
  /\ job[t].pc = "check"
  /\ IF ShouldRefresh(PathOf(job[t].dir))
     THEN /\ job' = [job EXCEPT ![t].pc = "list", ![t].seen = {}]
          /\ UNCHANGED <<remote, changes, rows, negative, inodes, phase, todo, lost>>
     ELSE Answer(t, job[t].seen)

(* After a refresh the children are listed again.                          *)
Again(t) ==
  /\ t \in Threads
  /\ job[t].pc = "after"
  /\ Answer(t, ListChildren(PathOf(job[t].dir)))

(* Unlink and Rmdir: deleteChild finds the row.                            *)
BeginDelete(t, id, name) ==
  /\ "delete" \in Events
  /\ Serving
  /\ job[t] = NoJob
  /\ name \in Paths \ Stable
  /\ \E c \in ListChildren(PathOf(id)) : PathOf(c) = name
  /\ job' = [job EXCEPT ![t] = Job("delete", "delete", id, name, {})]
  /\ UNCHANGED <<remote, changes, rows, negative, inodes, phase, todo, lost>>

Without(p) == [q \in Paths |-> IF q \in Below(p) THEN None ELSE remote[q]]

DeleteRemote(t) ==
  LET p == job[t].name IN
  /\ job[t].pc = "delete"
  /\ remote[p] # None
  /\ remote' = Without(p)
  /\ job' = [job EXCEPT ![t].pc = "forget"]
  /\ UNCHANGED <<changes, rows, negative, inodes, phase, todo, lost>>

(* remote.Delete fails and ends the handler: no such entry, or no answer,  *)
(* whether the netdisk deleted it or not.                                  *)
DeleteFails(t) ==
  LET p == job[t].name IN
  /\ job[t].pc = "delete"
  /\ \/ remote[p] = None /\ UNCHANGED <<remote, changes>>
     \/ "fail" \in Events /\ Disturbed /\ remote' \in {remote, Without(p)}
  /\ job' = [job EXCEPT ![t] = NoJob]
  /\ UNCHANGED <<rows, negative, inodes, phase, todo, lost>>

(* DeletePath and markMissing.                                             *)
DeletePath(t) ==
  LET p == job[t].name IN
  /\ job[t].pc = "forget"
  /\ rows' = [q \in All |-> IF q \in Matched(p) THEN None ELSE rows[q]]
  /\ lost' = lost \cup (Stable \cap (Matched(p) \ Below(p)))
  /\ negative' = negative \cup {p}
  /\ job' = [job EXCEPT ![t] = NoJob]
  /\ UNCHANGED <<remote, changes, inodes, phase, todo>>

Request(t) ==
  \E id \in inodes \cup {RootId} :
    \/ \E name \in {c \in Paths : Parent[c] = PathOf(id)} \cup {None} : Begin(t, id, name)
    \/ \E name \in {c \in Paths : Parent[c] = PathOf(id)} : BeginDelete(t, id, name)

ThreadStep(t) ==
  RefreshStep(t) \/ Check(t) \/ Again(t) \/ DeleteRemote(t) \/ DeleteFails(t) \/ DeletePath(t)

-----------------------------------------------------------------------------
(* The application                                                         *)

Refreshing(id) == job' = [job EXCEPT ![App] = Job("list", "refresh", id, None, {})]

(* New makes sure of the root's row and expires it; RefreshRootOnly loads  *)
(* the root.                                                               *)
Start ==
  /\ phase = "down"
  /\ phase' = "preload"
  /\ rows' = [rows EXCEPT ![Root] = Row(RootId, None, FALSE)]
  /\ Refreshing(RootId)
  /\ UNCHANGED <<remote, changes, negative, inodes, todo, lost>>

(* Mount: OnAdd makes inodes of the rows and starts RefreshAll.            *)
Mount ==
  /\ phase = "preload"
  /\ job[App].pc = "after"
  /\ phase' = "all"
  /\ inodes' = DirsIn(ListChildren(Root))
  /\ Refreshing(RootId)
  /\ UNCHANGED <<remote, changes, rows, negative, todo, lost>>

(* refreshKnownDirectories: the directories below the one just refreshed   *)
(* are next, in some order.                                                *)
Known ==
  /\ phase = "all"
  /\ job[App].pc = "after"
  /\ todo' = (todo \ {job[App].dir}) \cup DirsIn(ListChildren(PathOf(job[App].dir)))
  /\ job' = [job EXCEPT ![App] = NoJob]
  /\ UNCHANGED <<remote, changes, rows, negative, inodes, phase, lost>>

Walk ==
  /\ phase = "all"
  /\ job[App] = NoJob
  /\ \/ \E id \in todo : Refreshing(id) /\ UNCHANGED phase
     \/ todo = {} /\ phase' = "serve" /\ UNCHANGED job
  /\ UNCHANGED <<remote, changes, rows, negative, inodes, todo, lost>>

(* The ticker of startRefreshLoop.                                         *)
Tick ==
  /\ Serving
  /\ job[App] = NoJob
  /\ Refreshing(RootId)
  /\ UNCHANGED <<remote, changes, rows, negative, inodes, phase, todo, lost>>

Ticked ==
  /\ Serving
  /\ job[App].pc = "after"
  /\ job' = [job EXCEPT ![App] = NoJob]
  /\ UNCHANGED <<remote, changes, rows, negative, inodes, phase, todo, lost>>

AppStep == Start \/ Mount \/ Known \/ Walk \/ Tick \/ Ticked \/ RefreshStep(App)

-----------------------------------------------------------------------------
(* The environment                                                         *)

(* Another client creates an entry or deletes one.                         *)
Change(p) ==
  /\ "change" \in Events
  /\ p \notin Stable
  /\ Disturbed
  /\ \/ /\ remote[p] = None /\ Exists(Parent[p])
        /\ remote' = [remote EXCEPT ![p] = <<p, changes'>>]
     \/ /\ remote[p] # None
        /\ remote' = Without(p)
  /\ UNCHANGED <<rows, negative, inodes, job, phase, todo, lost>>

(* A minute passes for a directory, half of one for a missing path.        *)
Expire(p) ==
  /\ p = Root \/ p \in Dirs
  /\ rows[p] # None /\ rows[p].fresh
  /\ rows' = [rows EXCEPT ![p].fresh = FALSE]
  /\ UNCHANGED <<remote, changes, negative, inodes, job, phase, todo, lost>>

ExpireMissing(p) ==
  /\ p \in negative
  /\ negative' = negative \ {p}
  /\ UNCHANGED <<remote, changes, rows, inodes, job, phase, todo, lost>>

(* The process ends; the rows stay.                                        *)
Crash ==
  /\ "crash" \in Events
  /\ phase # "down"
  /\ Disturbed
  /\ phase' = "down"
  /\ negative' = {} /\ inodes' = {} /\ todo' = {}
  /\ job' = [t \in Procs |-> NoJob]
  /\ UNCHANGED <<remote, rows, lost>>

Next ==
  \/ \E t \in Threads : Request(t) \/ ThreadStep(t)
  \/ AppStep
  \/ \E p \in Paths : Change(p) \/ ExpireMissing(p)
  \/ \E p \in All : Expire(p)
  \/ Crash

Spec == Init /\ [][Next]_vars

(* Handlers and the application go on, and the ticker ticks.  Requests and *)
(* the netdisk's changes are the environment's choice.                     *)
Fairness == WF_vars(AppStep) /\ \A t \in Threads : WF_vars(ThreadStep(t))

FairSpec == Spec /\ Fairness

-----------------------------------------------------------------------------
(* Properties                                                              *)

(* The type invariant of the metadata.                                     *)
TypeOK ==
  /\ remote \in [Paths -> Id \cup {None}]
  /\ changes \in 0..MaxChanges
  /\ rows \in [All -> Rows \cup {None}]
  /\ \A p \in All : rows[p] # None => PathOf(rows[p].fsid) = p
  /\ negative \subseteq Paths
  /\ \A id \in inodes \cup todo : id \in Id /\ PathOf(id) \in Dirs
  /\ job \in [Procs -> Jobs]
  /\ phase \in {"down", "preload", "all", "serve"}
  /\ lost \subseteq Stable

(* An entry that is on the netdisk all the time and has once been stored   *)
(* is lost only to a listing that left it out and counted as complete      *)
(* (error code 109, a page that moved) or to a delete whose LIKE pattern   *)
(* its path matches: not between the delete and the upserts of a refresh,  *)
(* not when a listing fails, nor when refreshes and other deletes overlap  *)
(* or the process dies in the middle of one.  The exception lasts: a       *)
(* directory whose row was missing when a refresh read its parent is put   *)
(* under the root, and the root's next refresh deletes it again.           *)
KnownStays == [][\A p \in Stable : rows[p] # None => rows'[p] # None \/ p \in lost']_vars

(* A directory whose row is fresh, and will not be listed again until it   *)
(* expires, has had its entries stored under its FSID, those lost in one   *)
(* of the two ways above apart.  A refresh of the parent makes a row for   *)
(* the directory that is not fresh yet.                                    *)
FreshLoaded ==
  \A p \in Stable \ lost :
    LET dir == rows[Parent[p]] IN
    dir # None /\ dir.fresh => rows[p] # None /\ rows[p].parent = dir.fsid

(* Once the netdisk has come to rest, the entries of the mount's root come *)
(* to be what the netdisk has, whatever stale listings, deletes and        *)
(* restarts were under way.                                                *)
RootConverges ==
  <>[](\A p \in Paths :
         Parent[p] = Root =>
           (remote[p] # None <=> rows[p] # None /\ rows[p].parent = RootId))

-----------------------------------------------------------------------------
(* What a document says and the code does not keep                         *)

(* "Only when the remote refresh succeeded and the target is really not    *)
(* found" is a path marked missing: an entry that is on the netdisk all    *)
(* the time never is.                                                      *)
MissingConfirmed == \A p \in Stable : p \notin negative
=============================================================================
