--------------------------- MODULE MetadataProofs ---------------------------
(***************************************************************************)
(* An entry that stays on the netdisk is lost only to a listing that came  *)
(* short or to the delete of a path like its own, and but for these a      *)
(* fresh directory has been loaded, for every value of the constants: an   *)
(* inductive invariant with one lemma for each step, then the theorems.    *)
(***************************************************************************)
EXTENDS Metadata, TLAPS

(* Deleting an entry that may be deleted spares the stable ones.           *)
LEMMA StableNotBelow ==
  ASSUME NEW p \in Paths \ Stable, NEW q \in Stable
  PROVE  q \notin Below(p)
<1> DEFINE S == Paths \ Stable
<1>1. S \in SUBSET Paths /\ p \in S /\ q \notin S
  OBVIOUS
<1>2. ASSUME NEW c \in Paths, Parent[c] \in S
      PROVE  c \in S
  BY <1>2, MetadataAssumption
<1> HIDE DEF S
<1>3. QED
  BY <1>1, <1>2 DEF Below

-----------------------------------------------------------------------------
(* The inductive invariant                                                 *)

(* An FSID that is, at the path of a stable entry or of the root, the one  *)
(* of that entry,                                                          *)
Genuine(id) ==
  id \in Id /\ (PathOf(id) \in Stable \cup {Root} => id = <<PathOf(id), 0>>)

(* and one that a table of rows knows, unless it is gone: left out by a    *)
(* short listing or taken by the delete of a path like it.                 *)
Stored(table, gone, id) ==
  Genuine(id) /\ (PathOf(id) \in Stable \ gone => table[PathOf(id)] # None)

(* A table loses no stable entry but those that go.                        *)
Stays(table, gone, new, more) ==
  /\ gone \subseteq more
  /\ \A p \in Stable \ more : table[p] # None => new[p] # None

(* The netdisk has each entry at its path, and the stable ones always.     *)
RemoteInv ==
  /\ remote \in [Paths -> Id \cup {None}]
  /\ changes \in 0..MaxChanges
  /\ \A p \in Paths : remote[p] # None => PathOf(remote[p]) = p
  /\ \A p \in Stable : remote[p] = <<p, 0>>

(* The rows of the stable entries and of the root are linked as the        *)
(* entries are.                                                            *)
RowsInv ==
  /\ rows \in [All -> Rows \cup {None}]
  /\ \A p \in All : rows[p] # None => PathOf(rows[p].fsid) = p
  /\ \A p \in Stable :
       rows[p] # None =>
         /\ rows[p].fsid = <<p, 0>>
         /\ p \notin lost => rows[p].parent = <<Parent[p], 0>>
  /\ rows[Root] # None => rows[Root].fsid = RootId /\ rows[Root].parent = None
  /\ lost \subseteq Stable
  /\ FreshLoaded

(* The kernel's inodes and the directories that wait for a refresh.        *)
IdsInv ==
  /\ negative \subseteq Paths
  /\ phase \in {"down", "preload", "all", "serve"}
  /\ \A id \in inodes \cup todo : PathOf(id) \in Dirs /\ Stored(rows, lost, id)

(* What a goroutine holds: a refresh that is about to replace the children *)
(* has seen every stable one, and one that is about to make the directory  *)
(* fresh has stored them.                                                  *)
JobOK(table, gone, j) ==
  /\ j \in Jobs
  /\ j.pc # "idle" => PathOf(j.dir) \in Dirs \cup {Root} /\ Stored(table, gone, j.dir)
  /\ j.pc \in {"delete", "forget"} => j.name \in Paths \ Stable
  /\ j.pc = "check" => \A c \in j.seen : PathOf(c) \in Paths /\ Stored(table, gone, c)
  /\ j.pc = "replace" =>
       /\ \A c \in j.seen :
            Genuine(c) /\ PathOf(c) \in Paths /\ Parent[PathOf(c)] = PathOf(j.dir)
       /\ \A p \in Stable \ gone :
            Parent[p] = PathOf(j.dir) => \E c \in j.seen : PathOf(c) = p
  /\ j.pc \in {"parent", "upsert"} =>
       \A p \in Stable \ gone : Parent[p] = PathOf(j.dir) => table[p] # None
  /\ j.pc = "upsert" =>
       /\ PathOf(j.dir) = Root => j.par = None
       /\ PathOf(j.dir) \in Stable \ gone => j.par = <<Parent[PathOf(j.dir)], 0>>

(* The same of all goroutines.                                             *)
JobsInv == job = [t \in Procs |-> job[t]] /\ \A t \in Procs : JobOK(rows, lost, job[t])

(* The inductive invariant.                                                *)
MetaInv == RemoteInv /\ RowsInv /\ IdsInv /\ JobsInv

-----------------------------------------------------------------------------
(* What a step that leaves a part alone keeps                              *)

(* A table that loses no stable entry knows the FSIDs it knew.             *)
LEMMA StoredStays ==
  ASSUME NEW table, NEW gone, NEW new, NEW more,
         Stays(table, gone, new, more), NEW id, Stored(table, gone, id)
  PROVE  Stored(new, more, id)
BY DEF Stays, Stored

(* What a goroutine holds stays right when others change the table,        *)
LEMMA JobStays ==
  ASSUME NEW table, NEW gone, NEW new, NEW more,
         Stays(table, gone, new, more), NEW j, JobOK(table, gone, j)
  PROVE  JobOK(new, more, j)
<1>1. \A id : Stored(table, gone, id) => Stored(new, more, id)
  BY StoredStays
<1>2. QED
  BY <1>1, Zenon DEF JobOK, Stays

(* for all goroutines,                                                     *)
LEMMA JobsStay ==
  ASSUME JobsInv, Stays(rows, lost, rows', lost'), UNCHANGED job
  PROVE  JobsInv'
<1>1. \A t \in Procs : JobOK(rows', lost', job[t])
  BY JobStays DEF JobsInv
<1>2. QED
  BY <1>1, Zenon DEF JobsInv

(* and when one of them goes on.                                           *)
LEMMA OneJobChanges ==
  ASSUME JobsInv, Stays(rows, lost, rows', lost'), NEW t \in Procs, NEW j,
         job' = [job EXCEPT ![t] = j], JobOK(rows', lost', j)
  PROVE  JobsInv'
<1>1. \A u \in Procs : JobOK(rows', lost', job[u])
  BY JobStays DEF JobsInv
<1>2. job' = [u \in Procs |-> job'[u]] /\ job'[t] = j
      /\ \A u \in Procs : u # t => job'[u] = job[u]
  BY DEF JobsInv
<1>3. \A u \in Procs : JobOK(rows', lost', job'[u])
  BY <1>1, <1>2
<1>4. QED
  BY <1>2, <1>3, Zenon DEF JobsInv

(* A part whose variables do not change keeps what it keeps.               *)
LEMMA PartsKept ==
  /\ RemoteInv /\ UNCHANGED <<remote, changes>> => RemoteInv'
  /\ RowsInv /\ UNCHANGED <<rows, lost>> => RowsInv' /\ Stays(rows, lost, rows', lost')
  /\ IdsInv /\ UNCHANGED <<negative, phase, inodes, todo>> /\ Stays(rows, lost, rows', lost')
       => IdsInv'
<1>1. RemoteInv /\ UNCHANGED <<remote, changes>> => RemoteInv'
  BY DEF RemoteInv
<1>2. RowsInv /\ UNCHANGED <<rows, lost>> => RowsInv' /\ Stays(rows, lost, rows', lost')
  BY DEF RowsInv, Stays, FreshLoaded
<1>3. IdsInv /\ UNCHANGED <<negative, phase, inodes, todo>> /\ Stays(rows, lost, rows', lost')
        => IdsInv'
  BY StoredStays DEF IdsInv
<1>4. QED
  BY <1>1, <1>2, <1>3

-----------------------------------------------------------------------------
(* What is read from the netdisk and from the table                        *)

(* The root's FSID is a fixed one.                                         *)
LEMMA RootStored == RootId \in Id /\ PathOf(RootId) = Root /\ Stored(rows, lost, RootId)
BY MetadataAssumption DEF RootId, PathOf, Stored, Genuine, Id, All

(* An FSID has a path.                                                     *)
LEMMA IdPath ==
  ASSUME NEW id \in Id
  PROVE  PathOf(id) \in All
BY DEF Id, PathOf

(* ListChildren returns what the table knows.                              *)
LEMMA ChildrenStored ==
  ASSUME RowsInv, NEW p \in All, NEW c \in ListChildren(p)
  PROVE  PathOf(c) \in Paths /\ Stored(rows, lost, c)
<1>1. PICK q \in Paths : rows[q] # None /\ c = rows[q].fsid
  BY DEF ListChildren
<1>2. rows[q] \in Rows /\ PathOf(rows[q].fsid) = q /\ q # Root
  BY <1>1, MetadataAssumption DEF RowsInv, All
<1>3. rows[q].fsid \in Id
  BY <1>2 DEF Rows
<1>4. q \in Stable => rows[q].fsid = <<q, 0>>
  BY <1>1 DEF RowsInv
<1>5. QED
  BY <1>1, <1>2, <1>3, <1>4 DEF Stored, Genuine

(* A listing of the netdisk has every stable entry of the directory.       *)
LEMMA EntriesSeen ==
  ASSUME RemoteInv, NEW p \in All
  PROVE  /\ Entries(p) \subseteq Id
         /\ \A c \in Entries(p) :
              Genuine(c) /\ PathOf(c) \in Paths /\ Parent[PathOf(c)] = p
         /\ \A q \in Stable : Parent[q] = p => \E c \in Entries(p) : PathOf(c) = q
<1>1. ASSUME NEW c \in Entries(p)
      PROVE  c \in Id /\ Genuine(c) /\ PathOf(c) \in Paths /\ Parent[PathOf(c)] = p
  <2>1. PICK q \in Paths : Parent[q] = p /\ remote[q] # None /\ c = remote[q]
    BY DEF Entries
  <2>2. c \in Id /\ PathOf(c) = q /\ q # Root
    BY <2>1, MetadataAssumption DEF RemoteInv
  <2>3. q \in Stable => c = <<q, 0>>
    BY <2>1 DEF RemoteInv
  <2>4. QED
    BY <2>1, <2>2, <2>3 DEF Genuine
<1>2. ASSUME NEW q \in Stable, Parent[q] = p
      PROVE  \E c \in Entries(p) : PathOf(c) = q
  <2>1. remote[q] = <<q, 0>> /\ q \in Paths
    BY MetadataAssumption DEF RemoteInv
  <2>2. <<q, 0>> \in Id
    BY <2>1, MetadataAssumption DEF Id, All
  <2>3. remote[q] # None
    BY <2>1, <2>2, NoneAssumption
  <2>4. remote[q] \in Entries(p)
    BY <2>1, <2>3, <1>2 DEF Entries
  <2>5. QED
    BY <2>1, <2>4 DEF PathOf
<1>3. QED
  BY <1>1, <1>2

-----------------------------------------------------------------------------
(* Refreshing a directory                                                  *)

(* A goroutine that does nothing holds nothing.                            *)
LEMMA NoJobOK ==
  ASSUME NEW table, NEW gone
  PROVE  JobOK(table, gone, NoJob)
BY DEF JobOK, NoJob, Jobs

(* The directory that a goroutine works on.                                *)
LEMMA BusyJob ==
  ASSUME MetaInv, NEW t \in Procs
  PROVE  /\ job[t] \in Jobs /\ JobOK(rows, lost, job[t])
         /\ job[t].pc # "idle" =>
              /\ job[t].dir \in Id /\ Genuine(job[t].dir)
              /\ PathOf(job[t].dir) \in Dirs \cup {Root}
              /\ PathOf(job[t].dir) \in All
              /\ Stored(rows, lost, job[t].dir)
BY IdPath DEF MetaInv, JobsInv, JobOK, Stored, Genuine

(* A refresh that ends with an error has stored nothing wrong.             *)
LEMMA AbortedKeeps ==
  ASSUME MetaInv, NEW t \in Procs, Aborted(t), UNCHANGED <<rows, negative, inodes, lost>>
  PROVE  RowsInv' /\ IdsInv' /\ JobsInv' /\ Stays(rows, lost, rows', lost')
<1> USE DEF MetaInv
<1>1. RowsInv' /\ Stays(rows, lost, rows', lost')
  BY PartsKept
<1>2. JobsInv'
  BY <1>1, NoJobOK, OneJobChanges DEF Aborted
<1>3. todo' \subseteq todo /\ phase' \in {"down", "preload", "all", "serve"}
  BY DEF Aborted, IdsInv
<1>4. \A id \in inodes \cup todo : Stored(rows', lost', id)
  BY <1>1, StoredStays DEF IdsInv
<1>5. IdsInv'
  BY <1>3, <1>4 DEF IdsInv
<1>6. QED
  BY <1>1, <1>2, <1>5

(* remote.List: the listing has the stable entries, and keeps them while   *)
(* it waits to be stored.                                                  *)
LEMMA ListKeeps ==
  ASSUME MetaInv, NEW t \in Procs, List(t)
  PROVE  MetaInv' /\ Stays(rows, lost, rows', lost')
<1>p. PICK p : p = PathOf(job[t].dir)
  OBVIOUS
<1>j. PICK j : j = [job[t] EXCEPT !.pc = "replace", !.seen = Entries(p)]
  OBVIOUS
<1>0. job[t].pc = "list"
  BY DEF List
<1>1. RemoteInv' /\ RowsInv' /\ IdsInv' /\ Stays(rows, lost, rows', lost')
  BY PartsKept DEF MetaInv, List
<1>2. job[t] \in Jobs /\ p \in Dirs \cup {Root} /\ p \in All /\ Stored(rows, lost, job[t].dir)
  BY <1>0, <1>p, BusyJob
<1>3. job' = [job EXCEPT ![t] = j]
  BY <1>p, <1>j DEF List
<1>4. /\ j \in Jobs /\ j.pc = "replace" /\ j.seen = Entries(p) /\ j.dir = job[t].dir
  BY <1>2, <1>j, EntriesSeen DEF Jobs, MetaInv
<1>5. JobOK(rows, lost, j)
  BY <1>4, <1>2, <1>p, EntriesSeen DEF JobOK, MetaInv
<1>6. JobOK(rows', lost', j)
  BY <1>1, <1>5, JobStays
<1>7. JobsInv'
  BY <1>1, <1>3, <1>6, OneJobChanges DEF MetaInv
<1>8. QED
  BY <1>1, <1>7 DEF MetaInv

(* The number of disturbances stays within its bound.                      *)
LEMMA DisturbedKeeps ==
  ASSUME RemoteInv, Disturbed
  PROVE  changes' \in 0..MaxChanges
BY MetadataAssumption DEF RemoteInv, Disturbed

(* A listing that fails ends the refresh before it replaces anything.      *)
LEMMA ListFailsKeeps ==
  ASSUME MetaInv, NEW t \in Procs, ListFails(t)
  PROVE  MetaInv' /\ Stays(rows, lost, rows', lost')
<1>1. RowsInv' /\ IdsInv' /\ JobsInv' /\ Stays(rows, lost, rows', lost')
  BY AbortedKeeps DEF ListFails
<1>2. changes' \in 0..MaxChanges /\ remote' = remote
  BY DisturbedKeeps DEF ListFails, MetaInv, RemoteInv
<1>3. RemoteInv'
  BY <1>2 DEF RemoteInv, MetaInv
<1>4. QED
  BY <1>1, <1>3 DEF MetaInv

(* A short listing, whose omissions count as gone.                         *)
LEMMA ListShortKeeps ==
  ASSUME MetaInv, NEW t \in Procs, ListShort(t)
  PROVE  MetaInv' /\ Stays(rows, lost, rows', lost')
<1>p. PICK p : p = PathOf(job[t].dir)
  OBVIOUS
<1>0. /\ job[t].pc = "list" /\ Disturbed
      /\ UNCHANGED <<remote, rows, negative, inodes, phase, todo>>
  BY DEF ListShort
<1>s. PICK S \in SUBSET Entries(p) :
        /\ job' = [job EXCEPT ![t].pc = "replace", ![t].seen = S]
        /\ lost' = lost \cup {q \in Stable : Parent[q] = p /\ remote[q] \notin S}
  BY <1>p DEF ListShort
<1>j. PICK j : j = [job[t] EXCEPT !.pc = "replace", !.seen = S]
  OBVIOUS
<1>1. Stays(rows, lost, rows', lost')
  BY <1>0, <1>s DEF Stays
<1>2. RowsInv'
  BY <1>0, <1>s DEF MetaInv, RowsInv, FreshLoaded
<1>3. RemoteInv'
  BY <1>0, DisturbedKeeps DEF MetaInv, RemoteInv
<1>4. IdsInv'
  BY <1>0, <1>1, PartsKept DEF MetaInv
<1>5. job[t] \in Jobs /\ p \in Dirs \cup {Root} /\ p \in All /\ Stored(rows, lost, job[t].dir)
  BY <1>0, <1>p, BusyJob
<1>6. /\ S \subseteq Id
      /\ \A c \in S : Genuine(c) /\ PathOf(c) \in Paths /\ Parent[PathOf(c)] = p
  BY <1>5, EntriesSeen DEF MetaInv
<1>7. j \in Jobs /\ j.pc = "replace" /\ j.seen = S /\ j.dir = job[t].dir
  BY <1>j, <1>5, <1>6 DEF Jobs
<1>8. ASSUME NEW q \in Stable \ lost', Parent[q] = p
      PROVE  \E c \in S : PathOf(c) = q
  <2>1. remote[q] \in S
    BY <1>8, <1>s
  <2>2. PathOf(remote[q]) = q
    BY DEF MetaInv, RemoteInv, PathOf
  <2>3. QED
    BY <2>1, <2>2
<1>9. Stored(rows', lost', j.dir)
  BY <1>1, <1>5, <1>7, StoredStays
<1>10. JobOK(rows', lost', j)
  BY <1>5, <1>6, <1>7, <1>8, <1>9, <1>p DEF JobOK
<1>11. job' = [job EXCEPT ![t] = j]
  BY <1>s, <1>j
<1>12. JobsInv'
  BY <1>1, <1>10, <1>11, OneJobChanges DEF MetaInv
<1>13. QED
  BY <1>1, <1>2, <1>3, <1>4, <1>12 DEF MetaInv

(* ReplaceChildren deletes no stable entry, though the listing may be old: *)
(* it has them all, and rows under another FSID are not touched.           *)
(* Directories it makes rows for are not fresh.                            *)
LEMMA ReplaceKeeps ==
  ASSUME MetaInv, NEW t \in Procs, Replace(t)
  PROVE  MetaInv' /\ Stays(rows, lost, rows', lost')
<1>d. PICK d : d = job[t].dir
  OBVIOUS
<1>s. PICK seen : seen = job[t].seen
  OBVIOUS
<1>0. job[t].pc = "replace" /\ rows' = ReplacedChildren(d, seen) /\ lost' = lost
  BY <1>d, <1>s DEF Replace
<1>1. /\ job[t] \in Jobs /\ d \in Id /\ PathOf(d) \in Dirs \cup {Root}
      /\ PathOf(d) \in All /\ Stored(rows, lost, d) /\ Genuine(d)
  BY <1>0, <1>d, BusyJob
<1>2. /\ \A c \in seen : Genuine(c) /\ PathOf(c) \in Paths /\ Parent[PathOf(c)] = PathOf(d)
      /\ \A p \in Stable \ lost : Parent[p] = PathOf(d) => \E c \in seen : PathOf(c) = p
  BY <1>0, <1>d, <1>s, BusyJob DEF JobOK
<1>3. /\ rows \in [All -> Rows \cup {None}]
      /\ \A p \in All : rows[p] # None => PathOf(rows[p].fsid) = p
      /\ \A p \in Stable :
           rows[p] # None =>
             /\ rows[p].fsid = <<p, 0>>
             /\ p \notin lost => rows[p].parent = <<Parent[p], 0>>
      /\ rows[Root] # None => rows[Root].fsid = RootId /\ rows[Root].parent = None
      /\ lost \subseteq Stable
      /\ FreshLoaded
  BY DEF MetaInv, RowsInv
<1>4. rows' = [p \in All |-> rows'[p]]
  BY <1>0 DEF ReplacedChildren
<1>5. ASSUME NEW p \in All, NEW c \in seen, PathOf(c) = p
      PROVE  \E e \in seen :
               PathOf(e) = p /\ rows'[p] = Row(e, d, ChildFresh(p)) /\ p \in Paths
               /\ Parent[p] = PathOf(d)
  <2>1. PICK e : e = CHOOSE x \in seen : PathOf(x) = p
    OBVIOUS
  <2>2. e \in seen /\ PathOf(e) = p
    BY <2>1, <1>5
  <2>3. rows'[p] = Row(e, d, ChildFresh(p))
    BY <2>1, <1>0, <1>5 DEF ReplacedChildren
  <2>4. QED
    BY <2>2, <2>3, <1>2
<1>6. ASSUME NEW p \in All, ~ \E c \in seen : PathOf(c) = p
      PROVE  IF rows[p] # None /\ rows[p].parent = d THEN rows'[p] = None
             ELSE rows'[p] = rows[p]
  BY <1>0, <1>6 DEF ReplacedChildren
<1>7. ASSUME NEW id \in Id, NEW p
      PROVE  /\ Row(id, d, ChildFresh(p)) \in Rows
             /\ Row(id, d, ChildFresh(p)) # None
             /\ Row(id, d, ChildFresh(p)).fsid = id
             /\ Row(id, d, ChildFresh(p)).parent = d
             /\ Row(id, d, ChildFresh(p)).fresh = ChildFresh(p)
  <2>1. Row(id, d, ChildFresh(p)) \in Rows
    BY <1>1 DEF Row, Rows, ChildFresh
  <2>2. QED
    BY <2>1, NoneAssumption DEF Row
<1>8. ASSUME NEW p \in Stable
      PROVE  /\ p \in All /\ p \in Paths /\ p # Root
             /\ Parent[p] \in Stable \cup {Root} /\ Parent[p] \in Dirs \cup {Root}
             /\ Parent[p] \in All
  BY MetadataAssumption DEF All
<1>9. \A p \in Stable : Parent[p] = PathOf(d) => d = <<Parent[p], 0>>
  BY <1>1, <1>8 DEF Genuine
<1>10. \A p \in Stable : <<Parent[p], 0>> = d => Parent[p] = PathOf(d)
  BY DEF PathOf
<1>11. ASSUME NEW p \in Stable
       PROVE  /\ rows'[p] # None => rows'[p].fsid = <<p, 0>>
              /\ p \notin lost =>
                   /\ rows'[p] # None => rows'[p].parent = <<Parent[p], 0>>
                   /\ rows[p] # None => rows'[p] # None
                   /\ Parent[p] = PathOf(d) => rows'[p] # None
  <2>1. CASE \E c \in seen : PathOf(c) = p
    <3>1. PICK e \in seen : PathOf(e) = p /\ rows'[p] = Row(e, d, ChildFresh(p))
                            /\ Parent[p] = PathOf(d)
      BY <2>1, <1>5, <1>8
    <3>2. e \in Id /\ e = <<p, 0>>
      BY <3>1, <1>2 DEF Genuine
    <3>3. QED
      BY <3>1, <3>2, <1>7, <1>9
  <2>2. CASE ~ \E c \in seen : PathOf(c) = p
    <3>1. p \notin lost => Parent[p] # PathOf(d)
      BY <2>2, <1>2
    <3>2. p \notin lost /\ rows[p] # None => rows[p].parent # d
      BY <3>1, <1>3, <1>10
    <3>3. /\ rows'[p] = None \/ rows'[p] = rows[p]
          /\ p \notin lost => rows'[p] = rows[p]
      BY <2>2, <3>2, <1>6, <1>8
    <3>4. QED
      BY <3>1, <3>3, <1>3
  <2>3. QED
    BY <2>1, <2>2
<1>12. ASSUME NEW p \in All
       PROVE  /\ rows'[p] \in Rows \cup {None}
              /\ rows'[p] # None => PathOf(rows'[p].fsid) = p
  <2>1. CASE \E c \in seen : PathOf(c) = p
    <3>1. PICK e \in seen : PathOf(e) = p /\ rows'[p] = Row(e, d, ChildFresh(p))
      BY <2>1, <1>5
    <3>2. e \in Id
      BY <3>1, <1>2 DEF Genuine
    <3>3. QED
      BY <3>1, <3>2, <1>7
  <2>2. CASE ~ \E c \in seen : PathOf(c) = p
    BY <2>2, <1>6, <1>3
  <2>3. QED
    BY <2>1, <2>2
<1>13. rows'[Root] = rows[Root]
  <2>1. ~ \E c \in seen : PathOf(c) = Root
    BY <1>2, MetadataAssumption
  <2>2. d # None
    BY <1>1, NoneAssumption
  <2>3. QED
    BY <2>1, <2>2, <1>6, <1>3 DEF All
<1>14. Stays(rows, lost, rows', lost')
  BY <1>0, <1>11 DEF Stays
<1>15. ASSUME NEW p \in Stable \ lost, rows'[Parent[p]] # None, rows'[Parent[p]].fresh
       PROVE  rows'[p] # None /\ rows'[p].parent = rows'[Parent[p]].fsid
  <2>q. PICK q : q = Parent[p]
    OBVIOUS
  <2>0. q \in All /\ q \in Dirs \cup {Root}
    BY <2>q, <1>8
  <2>1. ~ \E c \in seen : PathOf(c) = q
    <3>1. SUFFICES ASSUME \E c \in seen : PathOf(c) = q PROVE FALSE
      OBVIOUS
    <3>2. PICK e \in seen : PathOf(e) = q /\ rows'[q] = Row(e, d, ChildFresh(q))
                            /\ q \in Paths
      BY <3>1, <1>5, <2>0
    <3>3. e \in Id
      BY <3>2, <1>2 DEF Genuine
    <3>4. rows'[q].fresh = ChildFresh(q)
      BY <3>2, <3>3, <1>7
    <3>5. ~ ChildFresh(q)
      BY <3>2, <2>0, MetadataAssumption DEF ChildFresh
    <3>6. QED
      BY <3>4, <3>5, <1>15, <2>q
  <2>2. rows'[q] = rows[q]
    BY <2>1, <1>6, <1>15, <2>0, <2>q
  <2>3. rows[p] # None
    BY <2>2, <1>15, <2>q, <1>3 DEF FreshLoaded
  <2>4. rows'[q].fsid = <<q, 0>>
    <3>1. CASE q = Root
      BY <3>1, <2>2, <1>3, <1>15, <2>q DEF RootId
    <3>2. CASE q \in Stable
      BY <3>2, <1>11, <1>15, <2>q
    <3>3. QED
      BY <3>1, <3>2, <1>8, <2>q
  <2>5. QED
    BY <2>3, <2>4, <2>q, <1>11
<1>16. FreshLoaded'
  BY <1>0, <1>15 DEF FreshLoaded
<1>17. RowsInv'
  <2>1. rows' \in [All -> Rows \cup {None}]
    BY <1>4, <1>12
  <2>2. QED
    BY <2>1, <1>0, <1>3, <1>11, <1>12, <1>13, <1>16 DEF RowsInv
<1>18. RemoteInv' /\ IdsInv'
  BY <1>14, PartsKept DEF Replace, MetaInv
<1>j. PICK j : j = [job[t] EXCEPT !.pc = "parent", !.seen = {}]
  OBVIOUS
<1>19. job' = [job EXCEPT ![t] = j]
  BY <1>j DEF Replace
<1>20. j \in Jobs /\ j.pc = "parent" /\ j.dir = d
  BY <1>j, <1>d, <1>1 DEF Jobs
<1>21. Stored(rows', lost', d)
  BY <1>1, <1>14, StoredStays
<1>22. JobOK(rows', lost', j)
  BY <1>20, <1>21, <1>0, <1>1, <1>11 DEF JobOK
<1>23. JobsInv'
  BY <1>14, <1>19, <1>22, OneJobChanges DEF MetaInv
<1>24. QED
  BY <1>14, <1>17, <1>18, <1>23 DEF MetaInv

(* A refresh finds the row of a stable directory, and with it its parent.  *)
LEMMA ReadParentKeeps ==
  ASSUME MetaInv, NEW t \in Procs, ReadParent(t)
  PROVE  MetaInv' /\ Stays(rows, lost, rows', lost')
<1>d. PICK d : d = job[t].dir
  OBVIOUS
<1>q. PICK par : par = ParentOf(PathOf(d))
  OBVIOUS
<1>j. PICK j : j = [job[t] EXCEPT !.pc = "upsert", !.par = par]
  OBVIOUS
<1>0. job[t].pc = "parent" /\ job' = [job EXCEPT ![t] = j]
  BY <1>d, <1>q, <1>j DEF ReadParent
<1>1. RemoteInv' /\ RowsInv' /\ IdsInv' /\ Stays(rows, lost, rows', lost')
  BY PartsKept DEF MetaInv, ReadParent
<1>2. /\ job[t] \in Jobs /\ d \in Id /\ PathOf(d) \in Dirs \cup {Root}
      /\ PathOf(d) \in All /\ Stored(rows, lost, d)
  BY <1>0, <1>d, BusyJob
<1>3. RootId \in Id
  BY RootStored
<1>4. par \in Id \cup {None}
  BY <1>2, <1>3, <1>q DEF ParentOf, MetaInv, RowsInv, Rows
<1>5. PathOf(d) = Root => par = None
  BY <1>q DEF ParentOf
<1>6. PathOf(d) \in Stable \ lost => par = <<Parent[PathOf(d)], 0>>
  BY <1>2, <1>q, MetadataAssumption DEF ParentOf, MetaInv, RowsInv, Stored
<1>7. j \in Jobs /\ j.pc = "upsert" /\ j.dir = d /\ j.par = par
  BY <1>j, <1>d, <1>2, <1>4 DEF Jobs
<1>8. \A p \in Stable \ lost : Parent[p] = PathOf(d) => rows[p] # None
  BY <1>0, <1>d, BusyJob DEF JobOK
<1>9. JobOK(rows, lost, j)
  BY <1>2, <1>5, <1>6, <1>7, <1>8 DEF JobOK
<1>10. JobOK(rows', lost', j)
  BY <1>1, <1>9, JobStays
<1>11. JobsInv'
  BY <1>0, <1>1, <1>10, OneJobChanges DEF MetaInv
<1>12. QED
  BY <1>1, <1>11 DEF MetaInv

(* UpsertEntry makes a directory fresh only when its children are stored.  *)
LEMMA UpsertKeeps ==
  ASSUME MetaInv, NEW t \in Procs, Upsert(t)
  PROVE  MetaInv' /\ Stays(rows, lost, rows', lost')
<1>d. PICK d : d = job[t].dir
  OBVIOUS
<1>q. PICK q : q = PathOf(d)
  OBVIOUS
<1>a. PICK par : par = job[t].par
  OBVIOUS
<1>0. /\ job[t].pc = "upsert" /\ rows' = [rows EXCEPT ![q] = Row(d, par, TRUE)]
      /\ lost' = lost
  BY <1>d, <1>q, <1>a DEF Upsert
<1>1. /\ job[t] \in Jobs /\ d \in Id /\ q \in Dirs \cup {Root}
      /\ q \in All /\ Stored(rows, lost, d) /\ Genuine(d)
  BY <1>0, <1>d, <1>q, BusyJob
<1>2. /\ par \in Id \cup {None}
      /\ q = Root => par = None
      /\ q \in Stable \ lost => par = <<Parent[q], 0>>
      /\ \A p \in Stable \ lost : Parent[p] = q => rows[p] # None
  BY <1>0, <1>d, <1>q, <1>a, BusyJob DEF JobOK, Jobs
<1>3. q \in Stable \cup {Root} => d = <<q, 0>>
  BY <1>1, <1>q DEF Genuine
<1>r. PICK row : row = Row(d, par, TRUE)
  OBVIOUS
<1>4. row \in Rows /\ row.fsid = d /\ row.parent = par
  BY <1>1, <1>2, <1>r DEF Row, Rows
<1>5. row # None
  BY <1>4, NoneAssumption
<1>6. /\ rows \in [All -> Rows \cup {None}]
      /\ \A p \in All : rows[p] # None => PathOf(rows[p].fsid) = p
      /\ \A p \in Stable :
           rows[p] # None =>
             /\ rows[p].fsid = <<p, 0>>
             /\ p \notin lost => rows[p].parent = <<Parent[p], 0>>
      /\ rows[Root] # None => rows[Root].fsid = RootId /\ rows[Root].parent = None
      /\ lost \subseteq Stable
      /\ FreshLoaded
  BY DEF MetaInv, RowsInv
<1>7. /\ rows' \in [All -> Rows \cup {None}] /\ rows'[q] = row
      /\ \A p \in All : p # q => rows'[p] = rows[p]
  BY <1>0, <1>1, <1>4, <1>6, <1>r
<1>8. \A p \in Stable : p \in All /\ p # Root /\ Parent[p] \in All
                        /\ Parent[p] \in Stable \cup {Root}
  BY MetadataAssumption DEF All
<1>9. \A p \in All : rows'[p] # None => PathOf(rows'[p].fsid) = p
  BY <1>4, <1>6, <1>7, <1>q
<1>10. \A p \in Stable :
         rows'[p] # None =>
           /\ rows'[p].fsid = <<p, 0>>
           /\ p \notin lost => rows'[p].parent = <<Parent[p], 0>>
  BY <1>2, <1>3, <1>4, <1>6, <1>7, <1>8
<1>11. rows'[Root] # None => rows'[Root].fsid = RootId /\ rows'[Root].parent = None
  <2>1. CASE q = Root
    BY <2>1, <1>2, <1>3, <1>4, <1>7 DEF RootId
  <2>2. CASE q # Root
    BY <2>2, <1>6, <1>7 DEF All
  <2>3. QED
    BY <2>1, <2>2
<1>12. Stays(rows, lost, rows', lost')
  BY <1>0, <1>5, <1>7, <1>8 DEF Stays
<1>13. ASSUME NEW p \in Stable \ lost, rows'[Parent[p]] # None, rows'[Parent[p]].fresh
       PROVE  rows'[p] # None /\ rows'[p].parent = rows'[Parent[p]].fsid
  <2>1. rows[p] # None
    <3>1. CASE Parent[p] = q
      BY <3>1, <1>2
    <3>2. CASE Parent[p] # q
      <4>1. rows'[Parent[p]] = rows[Parent[p]]
        BY <3>2, <1>7, <1>8
      <4>2. QED
        BY <4>1, <1>6, <1>13 DEF FreshLoaded
    <3>3. QED
      BY <3>1, <3>2
  <2>2. rows'[p] # None
    BY <2>1, <1>0, <1>12 DEF Stays
  <2>3. rows'[Parent[p]].fsid = <<Parent[p], 0>>
    BY <1>8, <1>10, <1>11, <1>13 DEF RootId
  <2>4. QED
    BY <2>2, <2>3, <1>10
<1>14. FreshLoaded'
  BY <1>0, <1>13 DEF FreshLoaded
<1>15. RowsInv'
  BY <1>0, <1>6, <1>7, <1>9, <1>10, <1>11, <1>14 DEF RowsInv
<1>16. RemoteInv' /\ IdsInv'
  BY <1>12, PartsKept DEF Upsert, MetaInv
<1>j. PICK j : j = [job[t] EXCEPT !.pc = "after", !.par = None]
  OBVIOUS
<1>17. job' = [job EXCEPT ![t] = j]
  BY <1>j DEF Upsert
<1>18. j \in Jobs /\ j.pc = "after" /\ j.dir = d
  BY <1>j, <1>d, <1>1 DEF Jobs
<1>19. Stored(rows', lost', d)
  BY <1>1, <1>12, StoredStays
<1>20. JobOK(rows', lost', j)
  BY <1>18, <1>19, <1>1, <1>q DEF JobOK
<1>21. JobsInv'
  BY <1>12, <1>17, <1>20, OneJobChanges DEF MetaInv
<1>22. QED
  BY <1>12, <1>15, <1>16, <1>21 DEF MetaInv

(* The steps of refreshRoot and refreshDir keep the invariant.             *)
LEMMA RefreshKeeps ==
  ASSUME MetaInv, NEW t \in Procs, RefreshStep(t)
  PROVE  MetaInv' /\ Stays(rows, lost, rows', lost')
BY ListKeeps, ListFailsKeeps, ListShortKeeps, ReplaceKeeps, ReadParentKeeps, UpsertKeeps
   DEF RefreshStep

-----------------------------------------------------------------------------
(* FUSE handlers                                                           *)

(* What a handler or the application starts with.                          *)
LEMMA NewJob ==
  ASSUME NEW table, NEW gone, NEW pc \in {"check", "list", "delete"},
         NEW op \in {"read", "delete", "refresh"},
         NEW dir \in Id, PathOf(dir) \in Dirs \cup {Root}, Stored(table, gone, dir),
         NEW name \in Paths \cup {None}, pc = "delete" => name \in Paths \ Stable,
         NEW seen \in SUBSET Id,
         pc = "check" => \A c \in seen : PathOf(c) \in Paths /\ Stored(table, gone, c)
  PROVE  JobOK(table, gone, Job(pc, op, dir, name, seen))
<1>j. PICK j : j = Job(pc, op, dir, name, seen)
  OBVIOUS
<1>1. /\ j \in Jobs /\ j.pc = pc /\ j.dir = dir /\ j.name = name /\ j.seen = seen
  BY <1>j DEF Job, NoJob, Jobs
<1>2. JobOK(table, gone, j)
  BY <1>1 DEF JobOK
<1>3. QED
  BY <1>2, <1>j

(* Lookup, Readdir, Unlink and Rmdir begin with an inode the kernel has.   *)
LEMMA RequestKeeps ==
  ASSUME MetaInv, NEW t \in Threads, Request(t)
  PROVE  MetaInv' /\ Stays(rows, lost, rows', lost')
<1>1. PICK id \in inodes \cup {RootId} :
        \/ \E name \in {c \in Paths : Parent[c] = PathOf(id)} \cup {None} : Begin(t, id, name)
        \/ \E name \in {c \in Paths : Parent[c] = PathOf(id)} : BeginDelete(t, id, name)
  BY DEF Request
<1>2. id \in Id /\ PathOf(id) \in Dirs \cup {Root} /\ Stored(rows, lost, id) /\ PathOf(id) \in All
  BY RootStored, IdPath DEF MetaInv, IdsInv, Stored, Genuine
<1>3. UNCHANGED <<remote, changes, rows, negative, inodes, phase, todo, lost>>
  BY <1>1 DEF Begin, BeginDelete
<1>4. /\ RemoteInv' /\ RowsInv' /\ IdsInv' /\ Stays(rows, lost, rows', lost')
      /\ rows' = rows /\ lost' = lost
  BY <1>3, PartsKept DEF MetaInv
<1>5. t \in Procs
  BY DEF Procs
<1>6. ASSUME NEW name \in Paths \cup {None}, Begin(t, id, name)
      PROVE  JobsInv'
  <2>s. PICK seen : seen = ListChildren(PathOf(id))
    OBVIOUS
  <2>1. \A c \in seen : PathOf(c) \in Paths /\ Stored(rows, lost, c)
    BY <1>2, <2>s, ChildrenStored DEF MetaInv
  <2>2. seen \in SUBSET Id
    BY <2>1 DEF Stored, Genuine
  <2>3. JobOK(rows, lost, Job("check", "read", id, name, seen))
    BY <1>2, <2>1, <2>2, NewJob
  <2>4. job' = [job EXCEPT ![t] = Job("check", "read", id, name, seen)]
    BY <1>6, <2>s DEF Begin
  <2>5. QED
    BY <2>3, <2>4, <1>4, <1>5, OneJobChanges DEF MetaInv
<1>7. ASSUME NEW name \in Paths, BeginDelete(t, id, name)
      PROVE  JobsInv'
  <2>1. name \in Paths \ Stable
        /\ job' = [job EXCEPT ![t] = Job("delete", "delete", id, name, {})]
    BY <1>7 DEF BeginDelete
  <2>2. JobOK(rows, lost, Job("delete", "delete", id, name, {}))
    BY <1>2, <2>1, NewJob
  <2>3. QED
    BY <2>1, <2>2, <1>4, <1>5, OneJobChanges DEF MetaInv
<1>8. QED
  BY <1>1, <1>4, <1>6, <1>7 DEF MetaInv

(* The answer makes inodes of rows that exist.                             *)
LEMMA AnswerKeeps ==
  ASSUME MetaInv, NEW t \in Procs, NEW S, Answer(t, S),
         \A c \in S : PathOf(c) \in Paths /\ Stored(rows, lost, c)
  PROVE  MetaInv' /\ Stays(rows, lost, rows', lost')
<1>1. /\ RemoteInv' /\ RowsInv' /\ Stays(rows, lost, rows', lost')
      /\ rows' = rows /\ lost' = lost
  BY PartsKept DEF MetaInv, Answer
<1>2. JobsInv'
  BY <1>1, NoJobOK, OneJobChanges DEF Answer, MetaInv
<1>3. job[t].name \in Paths \cup {None}
  BY BusyJob DEF Jobs
<1>4. negative' \subseteq Paths
  BY <1>3 DEF Answer, MetaInv, IdsInv
<1>5. \A id \in inodes' : id \in inodes \/ (id \in S /\ PathOf(id) \in Dirs)
  BY DEF Answer, DirsIn
<1>6. todo' = todo /\ phase' = phase
  BY DEF Answer
<1>7. IdsInv'
  BY <1>1, <1>4, <1>5, <1>6 DEF IdsInv, MetaInv
<1>8. QED
  BY <1>1, <1>2, <1>7 DEF MetaInv

(* The decision to refresh, or to answer from the rows read before.        *)
LEMMA CheckKeeps ==
  ASSUME MetaInv, NEW t \in Procs, Check(t)
  PROVE  MetaInv' /\ Stays(rows, lost, rows', lost')
<1>0. job[t].pc = "check"
  BY DEF Check
<1>1. CASE ShouldRefresh(PathOf(job[t].dir))
  <2>j. PICK j : j = [job[t] EXCEPT !.pc = "list", !.seen = {}]
    OBVIOUS
  <2>1. /\ job' = [job EXCEPT ![t] = j]
        /\ UNCHANGED <<remote, changes, rows, negative, inodes, phase, todo, lost>>
    BY <1>1, <2>j DEF Check
  <2>2. RemoteInv' /\ RowsInv' /\ IdsInv' /\ Stays(rows, lost, rows', lost')
    BY <2>1, PartsKept DEF MetaInv
  <2>3. job[t] \in Jobs /\ PathOf(job[t].dir) \in Dirs \cup {Root} /\ Stored(rows, lost, job[t].dir)
    BY <1>0, BusyJob
  <2>4. j \in Jobs /\ j.pc = "list" /\ j.dir = job[t].dir
    BY <2>j, <2>3 DEF Jobs
  <2>5. JobOK(rows, lost, j)
    BY <2>3, <2>4 DEF JobOK
  <2>6. JobOK(rows', lost', j)
    BY <2>5, <2>2, JobStays
  <2>7. JobsInv'
    BY <2>1, <2>2, <2>6, OneJobChanges DEF MetaInv
  <2>8. QED
    BY <2>2, <2>7 DEF MetaInv
<1>2. CASE ~ ShouldRefresh(PathOf(job[t].dir))
  <2>1. Answer(t, job[t].seen)
    BY <1>2 DEF Check
  <2>2. \A c \in job[t].seen : PathOf(c) \in Paths /\ Stored(rows, lost, c)
    BY <1>0, BusyJob DEF JobOK
  <2>3. QED
    BY <2>1, <2>2, AnswerKeeps
<1>3. QED
  BY <1>1, <1>2

(* The second look at the rows, after a refresh.                           *)
LEMMA AgainKeeps ==
  ASSUME MetaInv, NEW t \in Procs, Again(t)
  PROVE  MetaInv' /\ Stays(rows, lost, rows', lost')
<1>s. PICK S : S = ListChildren(PathOf(job[t].dir))
  OBVIOUS
<1>1. job[t].pc = "after" /\ Answer(t, S)
  BY <1>s DEF Again
<1>2. PathOf(job[t].dir) \in All
  BY <1>1, BusyJob
<1>3. \A c \in S : PathOf(c) \in Paths /\ Stored(rows, lost, c)
  BY <1>2, <1>s, ChildrenStored DEF MetaInv
<1>4. QED
  BY <1>1, <1>3, AnswerKeeps

(* A deletion on the netdisk spares the stable entries.                    *)
LEMMA WithoutKeeps ==
  ASSUME RemoteInv, NEW p \in Paths \ Stable, remote' = Without(p),
         changes' \in 0..MaxChanges
  PROVE  RemoteInv'
<1>1. remote' \in [Paths -> Id \cup {None}]
  BY DEF Without, RemoteInv
<1>2. \A q \in Paths : remote'[q] # None => remote'[q] = remote[q]
  BY DEF Without
<1>3. \A q \in Stable : q \in Paths /\ q \notin Below(p)
  BY StableNotBelow, MetadataAssumption
<1>4. \A q \in Stable : remote'[q] = remote[q]
  BY <1>3 DEF Without
<1>5. QED
  BY <1>1, <1>2, <1>4 DEF RemoteInv

(* remote.Delete, answered or not.                                         *)
LEMMA DeleteKeeps ==
  ASSUME MetaInv, NEW t \in Procs, DeleteRemote(t) \/ DeleteFails(t)
  PROVE  MetaInv' /\ Stays(rows, lost, rows', lost')
<1>p. PICK p : p = job[t].name
  OBVIOUS
<1>0. job[t].pc = "delete"
  BY DEF DeleteRemote, DeleteFails
<1>1. /\ p \in Paths \ Stable /\ job[t] \in Jobs
      /\ PathOf(job[t].dir) \in Dirs \cup {Root} /\ Stored(rows, lost, job[t].dir)
  BY <1>0, <1>p, BusyJob DEF JobOK
<1>2. RowsInv' /\ Stays(rows, lost, rows', lost') /\ IdsInv'
  BY PartsKept DEF DeleteRemote, DeleteFails, MetaInv
<1>3. RemoteInv'
  <2>1. changes' \in 0..MaxChanges
    BY DisturbedKeeps DEF MetaInv, RemoteInv, DeleteRemote, DeleteFails
  <2>2. remote' = remote \/ remote' = Without(p)
    BY <1>p DEF DeleteRemote, DeleteFails
  <2>3. CASE remote' = remote
    BY <2>1, <2>3 DEF MetaInv, RemoteInv
  <2>4. CASE remote' = Without(p)
    BY <2>1, <2>4, <1>1, WithoutKeeps DEF MetaInv
  <2>5. QED
    BY <2>2, <2>3, <2>4
<1>4. JobsInv'
  <2>1. CASE DeleteFails(t)
    BY <2>1, <1>2, NoJobOK, OneJobChanges DEF DeleteFails, MetaInv
  <2>2. CASE DeleteRemote(t)
    <3>j. PICK j : j = [job[t] EXCEPT !.pc = "forget"]
      OBVIOUS
    <3>1. job' = [job EXCEPT ![t] = j]
      BY <2>2, <3>j DEF DeleteRemote
    <3>2. j \in Jobs /\ j.pc = "forget" /\ j.dir = job[t].dir /\ j.name = p
      BY <3>j, <1>1, <1>p DEF Jobs
    <3>3. JobOK(rows, lost, j)
      BY <3>2, <1>1 DEF JobOK
    <3>4. QED
      BY <3>1, <3>3, <1>2, JobStays, OneJobChanges DEF MetaInv
  <2>3. QED
    BY <2>1, <2>2
<1>5. QED
  BY <1>2, <1>3, <1>4 DEF MetaInv

(* DeletePath spares the rows of stable entries that its pattern does not  *)
(* match; those it matches are gone.                                       *)
LEMMA DeletePathKeeps ==
  ASSUME MetaInv, NEW t \in Procs, DeletePath(t)
  PROVE  MetaInv' /\ Stays(rows, lost, rows', lost')
<1>p. PICK p : p = job[t].name
  OBVIOUS
<1>0. /\ job[t].pc = "forget" /\ negative' = negative \cup {p}
      /\ rows' = [q \in All |-> IF q \in Matched(p) THEN None ELSE rows[q]]
      /\ lost' = lost \cup (Stable \cap (Matched(p) \ Below(p)))
      /\ UNCHANGED <<remote, changes, inodes, phase, todo>>
  BY <1>p DEF DeletePath
<1>1. p \in Paths \ Stable
  BY <1>0, <1>p, BusyJob DEF JobOK
<1>2. \A q \in Stable : q \in All /\ q # Root /\ (q \notin lost' => rows'[q] = rows[q])
  BY <1>0, <1>1, StableNotBelow, MetadataAssumption DEF All
<1>3. rows'[Root] = rows[Root]
  BY <1>0, <1>1, MetadataAssumption DEF Matched, Below, All
<1>4. \A q \in All : rows'[q] = None \/ rows'[q] = rows[q]
  BY <1>0
<1>5. rows' \in [All -> Rows \cup {None}]
  BY <1>0, <1>4 DEF MetaInv, RowsInv
<1>6. \A q \in Stable : Parent[q] \in All
  BY MetadataAssumption DEF All
<1>7. FreshLoaded'
  BY <1>0, <1>2, <1>4, <1>6 DEF FreshLoaded, MetaInv, RowsInv
<1>8. RowsInv'
  BY <1>0, <1>2, <1>3, <1>4, <1>5, <1>7 DEF MetaInv, RowsInv
<1>9. Stays(rows, lost, rows', lost')
  BY <1>0, <1>2 DEF Stays
<1>10. RemoteInv'
  BY <1>0, PartsKept DEF MetaInv
<1>11. IdsInv'
  BY <1>0, <1>1, <1>9, StoredStays DEF MetaInv, IdsInv
<1>12. JobsInv'
  BY <1>9, NoJobOK, OneJobChanges DEF DeletePath, MetaInv
<1>13. QED
  BY <1>8, <1>9, <1>10, <1>11, <1>12 DEF MetaInv

(* Every step of a FUSE handler keeps the invariant.                       *)
LEMMA ThreadKeeps ==
  ASSUME MetaInv, NEW t \in Threads, ThreadStep(t)
  PROVE  MetaInv' /\ Stays(rows, lost, rows', lost')
<1>1. t \in Procs
  BY DEF Procs
<1>2. QED
  BY <1>1, RefreshKeeps, CheckKeeps, AgainKeeps, DeleteKeeps, DeletePathKeeps
     DEF ThreadStep

-----------------------------------------------------------------------------
(* The application                                                         *)

(* The application starts to refresh a directory it knows.                 *)
LEMMA RefreshingOK ==
  ASSUME JobsInv, Stays(rows, lost, rows', lost'), NEW id \in Id, Refreshing(id),
         PathOf(id) \in Dirs \cup {Root}, Stored(rows, lost, id)
  PROVE  JobsInv'
<1>1. App \in Procs
  BY DEF Procs
<1>2. Stored(rows', lost', id)
  BY StoredStays
<1>3. JobOK(rows', lost', Job("list", "refresh", id, None, {}))
  BY <1>2, NewJob
<1>4. QED
  BY <1>1, <1>3, OneJobChanges DEF Refreshing

(* New expires the root's row.                                             *)
LEMMA StartKeeps ==
  ASSUME MetaInv, Start
  PROVE  MetaInv' /\ Stays(rows, lost, rows', lost')
<1>r. PICK row : row = Row(RootId, None, FALSE)
  OBVIOUS
<1>1. row \in Rows /\ row.fsid = RootId /\ row.parent = None /\ row.fresh = FALSE
  BY <1>r, RootStored DEF Row, Rows
<1>2. /\ rows' \in [All -> Rows \cup {None}] /\ rows'[Root] = row
      /\ lost' = lost /\ \A p \in All : p # Root => rows'[p] = rows[p]
  BY <1>1, <1>r DEF Start, MetaInv, RowsInv, All
<1>3. \A p \in Stable : p \in All /\ p # Root /\ Parent[p] \in All
  BY MetadataAssumption DEF All
<1>4. Stays(rows, lost, rows', lost')
  BY <1>2, <1>3 DEF Stays
<1>5. FreshLoaded'
  BY <1>1, <1>2, <1>3 DEF FreshLoaded, MetaInv, RowsInv
<1>6. RowsInv'
  BY <1>1, <1>2, <1>3, <1>5, RootStored DEF MetaInv, RowsInv
<1>7. RemoteInv'
  BY PartsKept DEF Start, MetaInv
<1>8. IdsInv'
  BY <1>4, StoredStays DEF Start, MetaInv, IdsInv
<1>9. JobsInv'
  BY <1>4, RootStored, RefreshingOK DEF Start, MetaInv
<1>10. QED
  BY <1>4, <1>6, <1>7, <1>8, <1>9 DEF MetaInv

(* The directories among the children are known ones.                      *)
LEMMA DirsStored ==
  ASSUME RowsInv, NEW p \in All, NEW id \in DirsIn(ListChildren(p))
  PROVE  PathOf(id) \in Dirs /\ Stored(rows, lost, id)
BY ChildrenStored DEF DirsIn

(* OnAdd makes inodes of rows.                                             *)
LEMMA MountKeeps ==
  ASSUME MetaInv, Mount
  PROVE  MetaInv' /\ Stays(rows, lost, rows', lost')
<1>1. /\ RemoteInv' /\ RowsInv' /\ Stays(rows, lost, rows', lost')
      /\ rows' = rows /\ lost' = lost
  BY PartsKept DEF Mount, MetaInv
<1>2. \A id \in inodes' : PathOf(id) \in Dirs /\ Stored(rows, lost, id)
  BY DirsStored DEF Mount, MetaInv, All
<1>3. IdsInv'
  BY <1>1, <1>2 DEF Mount, MetaInv, IdsInv
<1>4. JobsInv'
  BY <1>1, RootStored, RefreshingOK DEF Mount, MetaInv
<1>5. QED
  BY <1>1, <1>3, <1>4 DEF MetaInv

(* refreshKnownDirectories goes on with rows.                              *)
LEMMA KnownKeeps ==
  ASSUME MetaInv, Known
  PROVE  MetaInv' /\ Stays(rows, lost, rows', lost')
<1>1. /\ RemoteInv' /\ RowsInv' /\ Stays(rows, lost, rows', lost')
      /\ rows' = rows /\ lost' = lost
  BY PartsKept DEF Known, MetaInv
<1>2. App \in Procs /\ PathOf(job[App].dir) \in All
  BY BusyJob DEF Known, Procs
<1>3. \A id \in todo' : id \in todo \/ (PathOf(id) \in Dirs /\ Stored(rows, lost, id))
  BY <1>2, DirsStored DEF Known, MetaInv
<1>4. IdsInv'
  BY <1>1, <1>3 DEF Known, MetaInv, IdsInv
<1>5. JobsInv'
  BY <1>1, <1>2, NoJobOK, OneJobChanges DEF Known, MetaInv
<1>6. QED
  BY <1>1, <1>4, <1>5 DEF MetaInv

(* RefreshAll takes the next directory, or ends.                           *)
LEMMA WalkKeeps ==
  ASSUME MetaInv, Walk
  PROVE  MetaInv' /\ Stays(rows, lost, rows', lost')
<1>1. /\ RemoteInv' /\ RowsInv' /\ Stays(rows, lost, rows', lost')
      /\ rows' = rows /\ lost' = lost
  BY PartsKept DEF Walk, MetaInv
<1>2. IdsInv'
  BY <1>1 DEF Walk, MetaInv, IdsInv
<1>3. JobsInv'
  <2>1. ASSUME NEW id \in todo, Refreshing(id)
        PROVE  JobsInv'
    <3>1. id \in Id /\ PathOf(id) \in Dirs \cup {Root} /\ Stored(rows, lost, id)
      BY DEF MetaInv, IdsInv, Stored, Genuine
    <3>2. QED
      BY <2>1, <3>1, <1>1, RefreshingOK DEF MetaInv
  <2>2. CASE UNCHANGED job
    BY <2>2, <1>1, JobsStay DEF MetaInv
  <2>3. QED
    BY <2>1, <2>2 DEF Walk
<1>4. QED
  BY <1>1, <1>2, <1>3 DEF MetaInv

(* The ticker of startRefreshLoop.                                         *)
LEMMA TickKeeps ==
  ASSUME MetaInv, Tick \/ Ticked
  PROVE  MetaInv' /\ Stays(rows, lost, rows', lost')
<1>1. RemoteInv' /\ RowsInv' /\ Stays(rows, lost, rows', lost') /\ IdsInv'
  BY PartsKept DEF Tick, Ticked, MetaInv
<1>2. App \in Procs
  BY DEF Procs
<1>3. JobsInv'
  BY <1>1, <1>2, RootStored, RefreshingOK, NoJobOK, OneJobChanges DEF Tick, Ticked, MetaInv
<1>4. QED
  BY <1>1, <1>3 DEF MetaInv

(* Every step of the application keeps the invariant.                      *)
LEMMA AppKeeps ==
  ASSUME MetaInv, AppStep
  PROVE  MetaInv' /\ Stays(rows, lost, rows', lost')
<1>1. App \in Procs
  BY DEF Procs
<1>2. QED
  BY <1>1, StartKeeps, MountKeeps, KnownKeeps, WalkKeeps, TickKeeps, RefreshKeeps
     DEF AppStep

-----------------------------------------------------------------------------
(* The environment                                                         *)

(* Another client changes the netdisk.                                     *)
LEMMA ChangeKeeps ==
  ASSUME MetaInv, NEW p \in Paths, Change(p)
  PROVE  MetaInv' /\ Stays(rows, lost, rows', lost')
<1>1. RowsInv' /\ Stays(rows, lost, rows', lost') /\ IdsInv'
  BY PartsKept DEF Change, MetaInv
<1>2. JobsInv'
  BY <1>1, JobsStay DEF Change, MetaInv
<1>3. p \notin Stable /\ changes' \in 0..MaxChanges
  BY DisturbedKeeps DEF Change, MetaInv
<1>4. CASE remote' = Without(p)
  BY <1>1, <1>2, <1>3, <1>4, WithoutKeeps DEF MetaInv
<1>5. CASE remote' = [remote EXCEPT ![p] = <<p, changes'>>]
  <2>1. <<p, changes'>> \in Id
    BY <1>3 DEF Id, All
  <2>2. \A q \in Stable : q \in Paths /\ q # p
    BY <1>3, MetadataAssumption
  <2>3. RemoteInv'
    BY <2>1, <2>2, <1>3, <1>5 DEF MetaInv, RemoteInv, PathOf
  <2>4. QED
    BY <2>3, <1>1, <1>2 DEF MetaInv
<1>6. QED
  BY <1>4, <1>5 DEF Change

(* A row that expires stays linked.                                        *)
LEMMA ExpireKeeps ==
  ASSUME MetaInv, NEW p \in All, Expire(p)
  PROVE  MetaInv' /\ Stays(rows, lost, rows', lost')
<1>r. PICK row : row = [rows[p] EXCEPT !.fresh = FALSE]
  OBVIOUS
<1>1. rows[p] \in Rows /\ rows \in [All -> Rows \cup {None}]
  BY DEF Expire, MetaInv, RowsInv
<1>2. /\ row \in Rows /\ row.fsid = rows[p].fsid /\ row.parent = rows[p].parent
      /\ row.fresh = FALSE
  BY <1>1, <1>r DEF Rows
<1>3. row # None
  BY <1>2, NoneAssumption
<1>4. /\ rows' \in [All -> Rows \cup {None}] /\ rows'[p] = row
      /\ \A q \in All : q # p => rows'[q] = rows[q]
  BY <1>1, <1>2, <1>r DEF Expire
<1>5. /\ lost' = lost
      /\ \A q \in All : rows'[q] # None <=> rows[q] # None
      /\ \A q \in All : rows'[q] # None =>
           /\ rows'[q].fsid = rows[q].fsid /\ rows'[q].parent = rows[q].parent
           /\ rows'[q].fresh => rows[q].fresh
  BY <1>2, <1>3, <1>4 DEF Expire
<1>6. Root \in All /\ \A q \in Stable : q \in All /\ Parent[q] \in All
  BY MetadataAssumption DEF All
<1>7. FreshLoaded'
  BY <1>5, <1>6 DEF FreshLoaded, MetaInv, RowsInv
<1>8. RowsInv'
  BY <1>4, <1>5, <1>6, <1>7 DEF MetaInv, RowsInv
<1>9. Stays(rows, lost, rows', lost')
  BY <1>5, <1>6 DEF Stays
<1>10. RemoteInv' /\ IdsInv'
  BY <1>9, PartsKept DEF Expire, MetaInv
<1>11. JobsInv'
  BY <1>9, JobsStay DEF Expire, MetaInv
<1>12. QED
  BY <1>8, <1>9, <1>10, <1>11 DEF MetaInv

(* A path is no longer called missing.                                     *)
LEMMA ExpireMissingKeeps ==
  ASSUME MetaInv, NEW p \in Paths, ExpireMissing(p)
  PROVE  MetaInv' /\ Stays(rows, lost, rows', lost')
<1>1. /\ RemoteInv' /\ RowsInv' /\ Stays(rows, lost, rows', lost')
      /\ rows' = rows /\ lost' = lost
  BY PartsKept DEF ExpireMissing, MetaInv
<1>2. IdsInv'
  BY <1>1 DEF ExpireMissing, MetaInv, IdsInv
<1>3. JobsInv'
  BY <1>1, JobsStay DEF ExpireMissing, MetaInv
<1>4. QED
  BY <1>1, <1>2, <1>3 DEF MetaInv

(* A crash leaves the rows.                                                *)
LEMMA CrashKeeps ==
  ASSUME MetaInv, Crash
  PROVE  MetaInv' /\ Stays(rows, lost, rows', lost')
<1>1. RowsInv' /\ Stays(rows, lost, rows', lost')
  BY PartsKept DEF Crash, MetaInv
<1>2. changes' \in 0..MaxChanges
  BY DisturbedKeeps DEF Crash, MetaInv
<1>3. RemoteInv'
  BY <1>2 DEF Crash, MetaInv, RemoteInv
<1>4. IdsInv'
  BY DEF Crash, IdsInv
<1>5. JobsInv'
  BY NoJobOK DEF Crash, JobsInv
<1>6. QED
  BY <1>1, <1>3, <1>4, <1>5 DEF MetaInv

-----------------------------------------------------------------------------
(* The theorems                                                            *)

(* An empty database.                                                      *)
LEMMA MetaInitially == Init => MetaInv
<1>1. SUFFICES ASSUME Init PROVE MetaInv
  OBVIOUS
<1>2. RemoteInv
  <2>1. \A p \in Paths : <<p, 0>> \in Id
    BY MetadataAssumption DEF Id, All
  <2>2. QED
    BY <1>1, <2>1, MetadataAssumption DEF Init, RemoteInv, PathOf
<1>3. RowsInv
  <2>1. \A p \in All : rows[p] = None
    BY <1>1 DEF Init
  <2>2. \A p \in Stable : p \in All /\ Parent[p] \in All
    BY MetadataAssumption DEF All
  <2>3. QED
    BY <1>1, <2>1, <2>2 DEF Init, RowsInv, FreshLoaded, All
<1>4. IdsInv /\ JobsInv
  BY <1>1, NoJobOK DEF Init, IdsInv, JobsInv
<1>5. QED
  BY <1>2, <1>3, <1>4 DEF MetaInv

(* Every step keeps the invariant and every stable row.                    *)
LEMMA MetaStep ==
  ASSUME MetaInv, [Next]_vars
  PROVE  MetaInv' /\ Stays(rows, lost, rows', lost')
<1>1. CASE UNCHANGED vars
  BY <1>1, PartsKept, JobsStay DEF vars, MetaInv
<1>2. CASE Next
  BY <1>2, RequestKeeps, ThreadKeeps, AppKeeps, ChangeKeeps, ExpireMissingKeeps,
     ExpireKeeps, CrashKeeps DEF Next
<1>3. QED
  BY <1>1, <1>2

(* The inductive invariant holds of every execution of the store, the FUSE *)
(* handlers and the application's refreshes, for every tree, every number  *)
(* of handlers and every number of changes, failures and crashes.          *)
THEOREM MetadataInvariant == Spec => []MetaInv
<1>1. MetaInv /\ [Next]_vars => MetaInv'
  BY MetaStep
<1>2. QED
  BY <1>1, MetaInitially, PTL DEF Spec

(* The rows, the negative cache, the inodes and the handlers stay well     *)
(* typed; only directories come to have inodes or to be refreshed.         *)
THEOREM MetadataTypeCorrect == Spec => []TypeOK
<1>1. MetaInv => TypeOK
  <2>1. SUFFICES ASSUME MetaInv PROVE TypeOK
    OBVIOUS
  <2>2. job \in [Procs -> Jobs]
    BY <2>1 DEF MetaInv, JobsInv, JobOK
  <2>3. QED
    BY <2>1, <2>2 DEF MetaInv, RemoteInv, RowsInv, IdsInv, Stored, Genuine, TypeOK
<1>2. QED
  BY <1>1, MetadataInvariant, PTL

(* A directory whose row is fresh has had its entries stored under its     *)
(* FSID (refreshDir, ReplaceChildren), but for those that a listing        *)
(* counted as complete left out (error code 109) or that the LIKE pattern  *)
(* of DeletePath took, however the refreshes, deletes, failures and        *)
(* crashes interleave.                                                     *)
THEOREM FreshDirectoriesLoaded == Spec => []FreshLoaded
<1>1. MetaInv => FreshLoaded
  BY DEF MetaInv, RowsInv
<1>2. QED
  BY <1>1, MetadataInvariant, PTL

(* An entry that is on the netdisk all the time leaves the database, once  *)
(* it is there, only in those two ways: no refresh with an old listing, no *)
(* failed one, no delete of a path that is not like its own and no restart *)
(* removes its row.                                                        *)
THEOREM KnownEntriesStay == Spec => KnownStays
<1>1. MetaInv /\ [Next]_vars =>
        [\A p \in Stable : rows[p] # None => rows'[p] # None \/ p \in lost']_vars
  BY MetaStep DEF Stays
<1>2. QED
  BY <1>1, MetadataInvariant, PTL DEF Spec, KnownStays
=============================================================================
