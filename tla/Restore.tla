------------------------------- MODULE Restore --------------------------------
(***************************************************************************)
(* Backup and restore (backup.py): a bundle is built from a running        *)
(* service, and restore commands install it into an empty data directory   *)
(* with two renames, the artifact tree and then the database, under an     *)
(* authenticated recovery marker that a later run of the command resumes   *)
(* from.                                                                   *)
(*                                                                         *)
(* A step is one operation on the file system, and a process may crash     *)
(* between any two of them.  (A crash of the host is left out: the staging *)
(* directories are not synced.)  Restores take no lock: two of them, or a  *)
(* restore and the service, may run in the same directory.  A database is  *)
(* known by the bundle it comes from, an artifact tree by the digests of   *)
(* its files; signatures and digests tell whether they are unchanged.      *)
(***************************************************************************)
EXTENDS Integers

CONSTANTS
    Digests,    \* policy artifacts the service may write
    Bundles,    \* backup files
    Restorers,  \* restore processes
    MaxFaults,  \* bound on crashes and on errors raised by the file system
    None        \* an absent file or directory

ASSUME RestoreAssumption ==
    /\ MaxFaults \in Nat
    /\ None \notin Bundles \union {"fresh"}
    /\ \A tree \in SUBSET Digests : tree # None
    /\ "fresh" \notin Bundles

VARIABLES
    files,      \* artifact files of the backed-up service, by digest
    rows,       \* artifact rows of its database
    bk,         \* the backup command: the snapshot it works from
    bundle,     \* the finished bundles
    damaged,    \* the parts of bundles that were altered since
    db,         \* the database of the restore target
    arts,       \* its artifact tree
    marker,     \* its recovery marker
    rs,         \* the restore processes
    stage,      \* the staging directory each of them made
    faults,     \* crashes and errors so far
    torn,       \* a crash cut short the removal of the tree (ghost)
    leftover,   \* a roll-back could not remove the tree (ghost)
    overlap,    \* two restores ran at the same time (ghost)
    joined,     \* one of them was a resumption of a running one (ghost)
    replaced,   \* one put its tree over the empty one of another (ghost)
    intruded    \* the service was started without a database (ghost)

source    == <<files, rows, bk, bundle, damaged>>
target    == <<db, arts, marker>>
restoring == <<target, rs, stage>>
ghosts    == <<torn, leftover, overlap, joined, replaced, intruded>>
vars      == <<source, restoring, faults, ghosts>>

NoStage == [db |-> None, arts |-> None]

(* A marker is created empty ("torn") by the restore of its stage and then
   "written". *)
NoMarker == [state |-> "none", bundle |-> None, stage |-> None]

Torn(r) == [state |-> "torn", bundle |-> None, stage |-> r]

Idle == [pc |-> "idle", bundle |-> None, stage |-> None, installed |-> FALSE]

Init ==
    /\ files = {} /\ rows = {}
    /\ bk = None
    /\ bundle = [b \in Bundles |-> None]
    /\ damaged = {}
    /\ db = None /\ arts = None /\ marker = NoMarker
    /\ rs = [r \in Restorers |-> Idle]
    /\ stage = [r \in Restorers |-> NoStage]
    /\ faults = 0
    /\ torn = FALSE /\ leftover = FALSE /\ overlap = FALSE /\ joined = FALSE
    /\ replaced = FALSE /\ intruded = FALSE

-----------------------------------------------------------------------------
(* The service that is backed up, and the backup command *)

(* _persist_artifact: the file is complete under its name, *)
WriteArtifact(d) ==
    /\ files' = files \union {d}
    /\ UNCHANGED <<rows, bk, bundle, damaged, restoring, faults, ghosts>>

(* Mutant: the row may be committed before the file is in place. *)
RegisterArtifactEarly(d) ==
    /\ rows' = rows \union {d}
    /\ UNCHANGED <<files, bk, bundle, damaged, restoring, faults, ghosts>>

(* before the transaction that registers it commits. *)
RegisterArtifact(d) ==
    /\ d \in files
    /\ rows' = rows \union {d}
    /\ UNCHANGED <<files, bk, bundle, damaged, restoring, faults, ghosts>>

(* create_bundle takes an online snapshot of the database, *)
Snapshot(b) ==
    /\ bk = None /\ bundle[b] = None
    /\ bk' = [bundle |-> b, rows |-> rows]
    /\ UNCHANGED <<files, rows, bundle, damaged, restoring, faults, ghosts>>

(* reads the artifacts of its rows, which the service meanwhile adds to, signs
   the manifest and renames the finished archive into place. *)
Publish ==
    /\ bk # None
    /\ bk.rows \subseteq files
    /\ bundle' = [bundle EXCEPT ![bk.bundle] = bk.rows]
    /\ bk' = None
    /\ UNCHANGED <<files, rows, damaged, restoring, faults, ghosts>>

(* An artifact is missing or unreadable, or the command dies: no bundle. *)
BackupFails ==
    /\ bk # None /\ faults < MaxFaults
    /\ bk' = None
    /\ faults' = faults + 1
    /\ UNCHANGED <<files, rows, bundle, damaged, restoring, ghosts>>

(* A bundle changes in storage or in transfer: its manifest, its signature or
   its list of members ("listing"), or the data of a member. *)
Damage(b, part) ==
    /\ bundle[b] # None /\ faults < MaxFaults
    /\ damaged' = damaged \union {<<b, part>>}
    /\ faults' = faults + 1
    /\ UNCHANGED <<files, rows, bk, bundle, restoring, ghosts>>

-----------------------------------------------------------------------------
(* What the checks of backup.py establish *)

(* The manifest of a bundle has its signature and lists its members, *)
Listed(b) == bundle[b] # None /\ <<b, "listing">> \notin damaged

(* which are what the manifest says. *)
Verified(b) == Listed(b) /\ <<b, "data">> \notin damaged

(* They are copied and compared with their digests. *)
Unpacked(b) == [db |-> b, arts |-> bundle[b]]

(* The marker is complete and signed with a key of the keyring. *)
Authentic == marker.state = "written"

(* A database has the digest of the manifest and passes its inspection, a tree
   has the files of the rows. *)
Matches(file, tree, b) == file = b /\ tree = bundle[b]

-----------------------------------------------------------------------------
(* restore_bundle *)

Live == {r \in Restorers : rs[r].pc # "idle"}

Goto(r, pc) == rs' = [rs EXCEPT ![r].pc = pc]

Overlaps == overlap' = (overlap \/ Live # {})

(* No marker and nothing in the way: a staging directory is made. *)
Begin(r, b) ==
    /\ rs[r].pc = "idle" /\ bundle[b] # None
    /\ marker = NoMarker /\ db = None /\ arts = None
    /\ rs' = [rs EXCEPT ![r] = [pc |-> "staging", bundle |-> b, stage |-> r,
                                installed |-> FALSE]]
    /\ stage' = [stage EXCEPT ![r] = NoStage]
    /\ Overlaps
    /\ UNCHANGED <<source, target, faults, torn, leftover, joined, replaced,
                   intruded>>

(* The archive is verified and unpacked, its database inspected, the artifact
   tree laid out and compared with the rows; or one of these raises. *)
Stage(r) ==
    /\ rs[r].pc = "staging"
    /\ \/ /\ Verified(rs[r].bundle)
          /\ stage' = [stage EXCEPT ![r] = Unpacked(rs[r].bundle)]
          /\ Goto(r, "staged")
       \/ /\ ~Verified(rs[r].bundle)
          /\ Goto(r, "failing")
          /\ UNCHANGED stage
    /\ UNCHANGED <<source, target, faults, ghosts>>

(* The marker is created exclusively, *)
CreateMarker(r) ==
    /\ rs[r].pc = "staged"
    /\ \/ /\ marker = NoMarker
          /\ marker' = Torn(r)
          /\ Goto(r, "marking")
       \/ /\ marker # NoMarker
          /\ Goto(r, "failing")
          /\ UNCHANGED marker
    /\ UNCHANGED <<source, db, arts, stage, faults, ghosts>>

(* Mutant: the renames begin before the marker's contents are on disk. *)
WriteMarkerLate(r) ==
    /\ rs[r].pc = "marking"
    /\ UNCHANGED marker
    /\ Goto(r, "marked")
    /\ UNCHANGED <<source, db, arts, stage, faults, ghosts>>

(* written through its descriptor and synced; another restore may have
   unlinked its name, or taken it. *)
WriteMarker(r) ==
    /\ rs[r].pc = "marking"
    /\ marker' = IF marker = Torn(r)
                 THEN [state |-> "written", bundle |-> rs[r].bundle,
                       stage |-> r]
                 ELSE marker
    /\ Goto(r, "marked")
    /\ UNCHANGED <<source, db, arts, stage, faults, ghosts>>

(* os.replace of the artifact tree takes the place of no tree or of an empty
   one; it is refused by any other, and when a resumed run has already moved
   the stage. *)
InstallArtifacts(r) ==
    /\ rs[r].pc = "marked"
    /\ \/ /\ arts \in {None, {}} /\ stage[r].arts # None
          /\ arts' = stage[r].arts
          /\ stage' = [stage EXCEPT ![r].arts = None]
          /\ rs' = [rs EXCEPT ![r].pc = "installed", ![r].installed = TRUE]
          /\ replaced' = (replaced \/ arts = {})
       \/ /\ arts \notin {None, {}} \/ stage[r].arts = None
          /\ Goto(r, "failing")
          /\ UNCHANGED <<arts, stage, replaced>>
    /\ UNCHANGED <<source, db, marker, faults, torn, leftover, overlap, joined,
                   intruded>>

(* os.replace of the database: it would overwrite one without a word. *)
InstallDatabase(r) ==
    /\ rs[r].pc = "installed"
    /\ \/ /\ stage[r].db # None
          /\ db' = stage[r].db
          /\ stage' = [stage EXCEPT ![r].db = None]
          /\ Goto(r, "complete")
       \/ /\ stage[r].db = None
          /\ Goto(r, "failing")
          /\ UNCHANGED <<db, stage>>
    /\ UNCHANGED <<source, arts, marker, faults, ghosts>>

(* marker.unlink; the finally block then removes the stage. *)
Unmark(r) ==
    /\ rs[r].pc = "complete"
    /\ \/ /\ marker # NoMarker
          /\ marker' = NoMarker
          /\ rs' = [rs EXCEPT ![r] = Idle]
          /\ stage' = [stage EXCEPT ![r] = NoStage]
       \/ /\ marker = NoMarker
          /\ Goto(r, "failing")
          /\ UNCHANGED <<marker, stage>>
    /\ UNCHANGED <<source, db, arts, faults, ghosts>>

(* Any operation raises.  _write_private unlinks its torn file, if it can. *)
Raise(r) ==
    /\ rs[r].pc \in {"staging", "staged", "marking", "marked", "installed",
                     "complete"}
    /\ faults < MaxFaults
    /\ faults' = faults + 1
    /\ marker' \in {marker} \union
                  (IF rs[r].pc = "marking" THEN {NoMarker} ELSE {})
    /\ Goto(r, "failing")
    /\ UNCHANGED <<source, db, arts, stage, ghosts>>

(* Mutant: what was installed stays. *)
RollBackNothing(r) ==
    /\ rs[r].pc = "failing"
    /\ Goto(r, "unmarking")
    /\ UNCHANGED <<source, target, stage, faults, ghosts>>

(* The except block: its own artifact tree is removed file by file, unless
   the database is there, *)
RollBack(r) ==
    /\ rs[r].pc = "failing"
    /\ IF rs[r].installed /\ db = None
       THEN Goto(r, "removing")
       ELSE Goto(r, "unmarking")
    /\ UNCHANGED <<source, target, stage, faults, ghosts>>

RolledBack(r) ==
    /\ rs[r].pc = "removing"
    /\ \/ /\ arts \notin {None, {}}
          /\ \E d \in arts : arts' = arts \ {d}
          /\ UNCHANGED rs
       \/ /\ arts \in {None, {}}
          /\ arts' = None
          /\ Goto(r, "unmarking")
    /\ UNCHANGED <<source, db, marker, stage, faults, ghosts>>

(* and the marker is unlinked, whosever it is; the finally block removes the
   stage. *)
UnmarkFailed(r) ==
    /\ rs[r].pc = "unmarking"
    /\ marker' = NoMarker
    /\ rs' = [rs EXCEPT ![r] = Idle]
    /\ stage' = [stage EXCEPT ![r] = NoStage]
    /\ UNCHANGED <<source, db, arts, faults, ghosts>>

(* rmtree ignores an error and leaves what it could not remove; an error of
   marker.unlink ends the command with marker and stage in place. *)
RollBackRaise(r) ==
    /\ faults < MaxFaults
    /\ faults' = faults + 1
    /\ \/ /\ rs[r].pc = "removing" /\ arts # None
          /\ Goto(r, "unmarking")
          /\ leftover' = TRUE
       \/ /\ rs[r].pc = "unmarking" /\ marker # NoMarker
          /\ rs' = [rs EXCEPT ![r] = Idle]
          /\ UNCHANGED leftover
    /\ UNCHANGED <<source, target, stage, torn, overlap, joined, replaced,
                   intruded>>

-----------------------------------------------------------------------------
(* _resume_restore *)

(* The file in place, or else the staged one. *)
Candidate(file, staged) == IF file # None THEN file ELSE staged

(* Mutant: the file that is already in place is not compared. *)
ResumableUnchecked(b) ==
    /\ Authentic
    /\ Listed(b) /\ marker.bundle = b
    /\ Matches(Candidate(db, stage[marker.stage].db),
               IF arts # None THEN bundle[b] ELSE stage[marker.stage].arts, b)

(* The marker is authentic and for the manifest of this bundle, which lists the
   members of the archive (their data is not read again), and database and
   tree are what the manifest says. *)
Resumable(b) ==
    /\ Authentic
    /\ Listed(b) /\ marker.bundle = b
    /\ Matches(Candidate(db, stage[marker.stage].db),
               Candidate(arts, stage[marker.stage].arts), b)

(* A marker is there and everything checks out; otherwise it raises and
   changes nothing. *)
Resume(r, b) ==
    /\ rs[r].pc = "idle"
    /\ Resumable(b)
    /\ rs' = [rs EXCEPT ![r] = [pc |-> "resuming", bundle |-> b,
                                stage |-> marker.stage, installed |-> FALSE]]
    /\ Overlaps
    /\ joined' = (joined \/ Live # {})
    /\ UNCHANGED <<source, target, stage, faults, torn, leftover, replaced,
                   intruded>>

(* A missing stage raises: only another restore can have taken it. *)
GiveUp(r) == rs' = [rs EXCEPT ![r] = Idle]

ResumeArtifacts(r) ==
    LET s == rs[r].stage IN
    /\ rs[r].pc = "resuming"
    /\ \/ /\ arts # None
          /\ Goto(r, "resumed")
          /\ UNCHANGED <<arts, stage>>
       \/ /\ arts = None /\ stage[s].arts # None
          /\ arts' = stage[s].arts
          /\ stage' = [stage EXCEPT ![s].arts = None]
          /\ Goto(r, "resumed")
       \/ /\ arts = None /\ stage[s].arts = None
          /\ GiveUp(r)
          /\ UNCHANGED <<arts, stage>>
    /\ UNCHANGED <<source, db, marker, faults, ghosts>>

ResumeDatabase(r) ==
    LET s == rs[r].stage IN
    /\ rs[r].pc = "resumed"
    /\ \/ /\ db # None
          /\ Goto(r, "recovered")
          /\ UNCHANGED <<db, stage>>
       \/ /\ db = None /\ stage[s].db # None
          /\ db' = stage[s].db
          /\ stage' = [stage EXCEPT ![s].db = None]
          /\ Goto(r, "recovered")
       \/ /\ db = None /\ stage[s].db = None
          /\ GiveUp(r)
          /\ UNCHANGED <<db, stage>>
    /\ UNCHANGED <<source, arts, marker, faults, ghosts>>

(* The marker is unlinked (or is gone, which raises) and the stage removed. *)
ResumeUnmark(r) ==
    /\ rs[r].pc = "recovered"
    /\ marker' = NoMarker
    /\ stage' = [stage EXCEPT ![rs[r].stage] = NoStage]
    /\ GiveUp(r)
    /\ UNCHANGED <<source, db, arts, faults, ghosts>>

(* An operation of a resumed run raises: marker and stage stay. *)
ResumeRaise(r) ==
    /\ rs[r].pc \in {"resuming", "resumed", "recovered"}
    /\ faults < MaxFaults
    /\ faults' = faults + 1
    /\ GiveUp(r)
    /\ UNCHANGED <<source, target, stage, ghosts>>

-----------------------------------------------------------------------------
(* Crashes, and the service on the target *)

Crash(r) ==
    /\ r \in Live /\ faults < MaxFaults
    /\ faults' = faults + 1
    /\ rs' = [rs EXCEPT ![r] = Idle]
    /\ torn' = (torn \/ rs[r].pc = "removing")
    /\ UNCHANGED <<source, target, stage, leftover, overlap, joined, replaced,
                   intruded>>

(* The service starts between two runs of the command; it does not look for
   a marker and makes the database and the tree it does not find. *)
ServiceStart ==
    /\ Live = {} /\ db = None
    /\ db' = "fresh"
    /\ arts' = Candidate(arts, {})
    /\ intruded' = TRUE
    /\ UNCHANGED <<source, marker, rs, stage, faults, torn, leftover, overlap,
                   joined, replaced>>

Step(r) ==
    \/ Stage(r)
    \/ CreateMarker(r)
    \/ WriteMarker(r)
    \/ InstallArtifacts(r)
    \/ InstallDatabase(r)
    \/ Unmark(r)
    \/ RollBack(r)
    \/ RolledBack(r)
    \/ UnmarkFailed(r)
    \/ ResumeArtifacts(r)
    \/ ResumeDatabase(r)
    \/ ResumeUnmark(r)

Next ==
    \/ \E d \in Digests : WriteArtifact(d) \/ RegisterArtifact(d)
    \/ \E b \in Bundles :
         \/ Snapshot(b)
         \/ \E part \in {"listing", "data"} : Damage(b, part)
    \/ Publish
    \/ BackupFails
    \/ \E r \in Restorers :
         \/ \E b \in Bundles : Begin(r, b) \/ Resume(r, b)
         \/ Step(r)
         \/ Raise(r)
         \/ RollBackRaise(r)
         \/ ResumeRaise(r)
         \/ Crash(r)
    \/ ServiceStart

Spec == Init /\ [][Next]_vars

(* A process that does not crash goes on, and the operator reruns an
   interrupted restore with the same bundle, as the runbook says. *)
FairSpec ==
    /\ Spec
    /\ \A r \in Restorers :
         /\ WF_vars(Step(r))
         /\ WF_vars(\E b \in Bundles : Live = {} /\ Resume(r, b))

-----------------------------------------------------------------------------
(* Properties *)

(* Database and tree are there and from one bundle. *)
Whole == db \in Bundles /\ arts = bundle[db]

(* One restore at a time, no error or crash inside the removal of the tree by a
   roll-back, and no service started on an unfinished target. *)
Undisturbed == ~torn /\ ~leftover /\ ~overlap /\ ~intruded

(* At rest and without a marker the target is whole or has no database: an
   error after the first rename rolls it back, an error after the second
   leaves a complete restore, a crash anywhere in between leaves the marker.
   Without a database there is no tree either, unless the roll-back met an
   error of its own, which rmtree ignores. *)
AllOrNothing ==
    ~overlap /\ ~intruded /\ Live = {} /\ marker = NoMarker =>
        Whole \/ (db = None /\ (arts = None \/ leftover))

(* A database that is in place has the artifact tree of the same bundle, all
   of it, whatever failed or crashed and was rolled back or resumed, and also
   when restores of different bundles overlap and nothing else goes wrong.
   Two things that may go wrong with overlapping restores are not detected:
   one resumes another that still runs, while a third unlinks the marker it
   has just read; and the tree of a bundle without artifacts is an empty
   directory, over which os.replace puts the tree of another bundle. *)
NeverMixed ==
    /\ ~intruded
    /\ overlap => faults = 0 /\ ~joined /\ ~replaced
    /\ db # None
    => arts = bundle[db]

(* A bundle that is being written finds every artifact its snapshot names,
   whatever the service adds meanwhile. *)
SnapshotReadable ==
    bk # None => bk.rows \subseteq files

(* A restore that was interrupted between its two renames is completed by
   running the same command again (docs/RUNBOOK.md:313-317), also when the
   data of the bundle has been altered since, unless its manifest, signature
   or list of members has. *)
RestoreCompletes ==
    (Undisturbed /\ Live = {} /\ arts # None /\ db = None)
        ~> \/ Whole
           \/ ~Undisturbed
           \/ \E b \in Bundles : bundle[b] = arts /\ ~Listed(b)

-----------------------------------------------------------------------------
(* Strengthenings: what the code maintains so that the properties hold *)

Recovering == {"resuming", "resumed", "recovered"}

Before == {"staging", "staged", "marking", "marked"}

(* The states in which a restore will unlink the marker. *)
Owning == {"marking", "marked", "installed", "complete", "failing", "removing",
           "unmarking"}

Process ==
    [pc : Before \union Owning \union Recovering,
     bundle : Bundles, stage : Restorers, installed : BOOLEAN]

Staged == [db : Bundles \union {None}, arts : {None} \union SUBSET Digests]

(* The shape of the files and of the processes. *)
TypeOK ==
    /\ files \subseteq Digests /\ rows \subseteq Digests
    /\ db \in Bundles \union {None, "fresh"}
    /\ arts \in {None} \union SUBSET Digests
    /\ bundle \in [Bundles -> {None} \union SUBSET Digests]
    /\ marker \in {NoMarker} \union
                  [state : {"torn"}, bundle : {None}, stage : Restorers] \union
                  [state : {"written"}, bundle : Bundles, stage : Restorers]
    /\ rs \in [Restorers -> {Idle} \union Process]
    /\ stage \in [Restorers -> Staged]
    /\ faults \in Nat
    /\ {torn, leftover, overlap, joined, replaced, intruded} \subseteq BOOLEAN

(* Rows are committed after their files, and a snapshot is of such rows. *)
FilesFirst ==
    /\ rows \subseteq files
    /\ SnapshotReadable

(* A bundle is written once, and only a finished one is restored. *)
Finished ==
    /\ bk # None => bk.bundle \in Bundles /\ bundle[bk.bundle] = None
                    /\ bk.rows \subseteq Digests
    /\ db \in Bundles => bundle[db] # None
    /\ \A r \in Restorers :
         /\ rs[r].pc # "idle" => bundle[rs[r].bundle] # None
         /\ stage[r].db \in Bundles => bundle[stage[r].db] # None

(* What a restore that nobody resumes finds where it left it. *)
OwnStage(r) ==
    /\ rs[r].pc \in Before => ~rs[r].installed
    /\ rs[r].pc \in {"staged", "marking", "marked"} =>
         stage[r].db = rs[r].bundle /\ stage[r].arts = bundle[rs[r].bundle]
    /\ rs[r].pc = "installed" =>
         /\ rs[r].installed /\ stage[r].db = rs[r].bundle
         /\ arts = bundle[rs[r].bundle]
    /\ rs[r].pc = "complete" => db # None

(* What a restore that runs alone knows of the target at each step. *)
InPlace(r) ==
    /\ OwnStage(r)
    /\ rs[r].pc \in Before => db = None /\ arts = None
    /\ rs[r].pc \in {"marking", "marked", "resuming"} => marker # NoMarker
    /\ rs[r].pc = "failing" => rs[r].installed \/ db # None \/ arts = None
    /\ rs[r].pc = "removing" => db = None
    /\ rs[r].pc = "unmarking" => db # None \/ arts = None \/ leftover
    /\ rs[r].pc = "resuming" =>
         Candidate(arts, stage[rs[r].stage].arts) = bundle[rs[r].bundle]
    /\ rs[r].pc = "resumed" => arts = bundle[rs[r].bundle]
    /\ rs[r].pc \in {"resuming", "resumed"} =>
         Candidate(db, stage[rs[r].stage].db) = rs[r].bundle
    /\ rs[r].pc = "recovered" => db # None

(* Restores one at a time, with any faults: a database comes with its tree, and
   a tree without a database with a marker, unless its removal failed. *)
AloneInv ==
    ~overlap /\ ~intruded =>
        /\ \A r, q \in Live : r = q
        /\ db # None => db \in Bundles /\ arts = bundle[db]
        /\ db = None /\ arts # None => marker # NoMarker \/ leftover
        /\ \A r \in Restorers : InPlace(r)

(* Restores that overlap, without faults, resumptions and replaced trees: a
   tree in place stays, and it is that of the only restore that will install a
   database. *)
CleanInv ==
    faults = 0 /\ ~joined /\ ~replaced /\ ~intruded =>
        /\ db # None => db \in Bundles /\ arts = bundle[db]
        /\ marker # NoMarker => \E r \in Restorers : rs[r].pc \in Owning
        /\ \A r \in Restorers :
             /\ OwnStage(r)
             /\ rs[r].pc \notin Recovering \union {"removing"}
             /\ rs[r].pc \in {"failing", "unmarking"} /\ rs[r].installed =>
                  db # None

(* The inductive invariant of backup and restore. *)
RestoreInv == TypeOK /\ FilesFirst /\ Finished /\ AloneInv /\ CleanInv
=============================================================================
