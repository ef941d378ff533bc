------------------------------ MODULE RestoreProofs ------------------------------
(***************************************************************************)
(* Proofs about Restore for every number of bundles, restores and faults:  *)
(* the target is whole or empty, no two bundles are mixed, and a backup    *)
(* finds the artifacts its snapshot names.                                 *)
(***************************************************************************)
EXTENDS Restore, TLAPS

(* A restore under way has a bundle and a stage. *)
LEMMA RunningRestore ==
    ASSUME TypeOK, NEW r \in Restorers, rs[r].pc # "idle"
    PROVE  /\ rs[r].bundle \in Bundles /\ rs[r].stage \in Restorers
           /\ rs[r].installed \in BOOLEAN
           /\ rs[r] \in Process
BY DEF TypeOK, Idle, Process

(* A process that goes on keeps its bundle and its stage. *)
LEMMA Moved ==
    ASSUME TypeOK, NEW r \in Restorers, NEW pc, Goto(r, pc)
    PROVE  /\ rs'[r].pc = pc
           /\ rs'[r].bundle = rs[r].bundle /\ rs'[r].stage = rs[r].stage
           /\ rs'[r].installed = rs[r].installed
           /\ \A q \in Restorers : q # r => rs'[q] = rs[q]
BY DEF TypeOK, Idle, Goto

(* It stays a process. *)
LEMMA MovedProcess ==
    ASSUME TypeOK, NEW r \in Restorers, rs[r].pc # "idle",
           NEW pc \in Before \union Owning \union Recovering, Goto(r, pc)
    PROVE  rs' \in [Restorers -> {Idle} \union Process]
<1>1. rs[r] \in Process BY RunningRestore
<1>2. [rs[r] EXCEPT !.pc = pc] \in Process BY <1>1 DEF Process
<1> QED BY <1>2 DEF TypeOK, Goto

(* One that ends keeps nothing. *)
LEMMA Ended ==
    ASSUME TypeOK, NEW r \in Restorers, rs' = [rs EXCEPT ![r] = Idle]
    PROVE  /\ rs'[r].pc = "idle" /\ ~rs'[r].installed
           /\ \A q \in Restorers : q # r => rs'[q] = rs[q]
           /\ rs' \in [Restorers -> {Idle} \union Process]
BY DEF TypeOK, Idle

(* The files and processes keep their shape. *)
LEMMA TypeStep ==
    ASSUME TypeOK, Finished, [Next]_vars
    PROVE  TypeOK'
<1> USE DEF source, target, restoring, ghosts, Live
<1>1. ASSUME NEW d \in Digests, WriteArtifact(d) \/ RegisterArtifact(d)
      PROVE  TypeOK'
  BY <1>1 DEF WriteArtifact, RegisterArtifact, TypeOK
<1>2. ASSUME NEW b \in Bundles, NEW part, Snapshot(b) \/ Damage(b, part)
      PROVE  TypeOK'
  BY <1>2 DEF Snapshot, Damage, TypeOK
<1>3. CASE Publish \/ BackupFails
  BY <1>3 DEF Publish, BackupFails, TypeOK, Finished
<1>4. ASSUME NEW r \in Restorers, NEW b \in Bundles, Begin(r, b) PROVE TypeOK'
  <2>1. rs' \in [Restorers -> {Idle} \union Process]
    BY <1>4 DEF Begin, Before, Process, TypeOK
  <2>2. stage' \in [Restorers -> Staged] BY <1>4 DEF Begin, NoStage, Staged, TypeOK
  <2> QED BY <1>4, <2>1, <2>2 DEF Begin, Overlaps, TypeOK
<1>5. ASSUME NEW r \in Restorers, NEW b \in Bundles, Resume(r, b) PROVE TypeOK'
  <2>1. marker.state = "written"
    BY <1>5 DEF Resume, Resumable, Authentic
  <2>2. marker.stage \in Restorers BY <2>1 DEF NoMarker, TypeOK
  <2>3. rs' \in [Restorers -> {Idle} \union Process]
    BY <1>5, <2>2 DEF Resume, Recovering, Process, TypeOK
  <2> QED BY <1>5, <2>3 DEF Resume, Overlaps, TypeOK
<1>6. ASSUME NEW r \in Restorers, Stage(r) PROVE TypeOK'
  <2>1. rs[r].bundle \in Bundles /\ rs[r].pc = "staging"
    BY <1>6, RunningRestore DEF Stage
  <2>2. rs' \in [Restorers -> {Idle} \union Process]
    BY <1>6, <2>1, MovedProcess DEF Stage, Before, Owning
  <2>3. Unpacked(rs[r].bundle) \in Staged BY <2>1 DEF Unpacked, Staged, TypeOK
  <2>4. stage' \in [Restorers -> Staged] BY <1>6, <2>3 DEF Stage, TypeOK
  <2> QED BY <1>6, <2>2, <2>4 DEF Stage, TypeOK
<1>7. ASSUME NEW r \in Restorers, CreateMarker(r) PROVE TypeOK'
  <2>1. rs' \in [Restorers -> {Idle} \union Process]
    BY <1>7, MovedProcess DEF CreateMarker, Owning
  <2> QED BY <1>7, <2>1 DEF CreateMarker, Torn, TypeOK
<1>8. ASSUME NEW r \in Restorers, WriteMarker(r) PROVE TypeOK'
  <2>1. rs' \in [Restorers -> {Idle} \union Process]
    BY <1>8, MovedProcess DEF WriteMarker, Owning
  <2>2. rs[r].bundle \in Bundles BY <1>8, RunningRestore DEF WriteMarker
  <2> QED BY <1>8, <2>1, <2>2 DEF WriteMarker, TypeOK
<1>9. ASSUME NEW r \in Restorers, InstallArtifacts(r) PROVE TypeOK'
  <2>1. rs' \in [Restorers -> {Idle} \union Process]
    <3>1. rs[r] \in Process BY <1>9, RunningRestore DEF InstallArtifacts
    <3>2. [rs[r] EXCEPT !.pc = "installed", !.installed = TRUE] \in Process
      BY <3>1 DEF Process, Owning
    <3>3. CASE rs' = [rs EXCEPT ![r].pc = "installed", ![r].installed = TRUE]
      BY <3>2, <3>3 DEF TypeOK
    <3>4. CASE Goto(r, "failing")
      BY <1>9, <3>4, MovedProcess DEF InstallArtifacts, Owning
    <3> QED BY <1>9, <3>3, <3>4 DEF InstallArtifacts
  <2>2. stage[r] \in Staged BY DEF TypeOK
  <2>3. [stage[r] EXCEPT !.arts = None] \in Staged BY <2>2 DEF Staged
  <2>4. stage' \in [Restorers -> Staged]
    BY <1>9, <2>3 DEF InstallArtifacts, TypeOK
  <2>5. arts' \in {None} \union SUBSET Digests
    BY <1>9, <2>2 DEF InstallArtifacts, Staged, TypeOK
  <2>6. replaced' \in BOOLEAN
    BY <1>9, Zenon DEF InstallArtifacts, TypeOK
  <2> QED BY <1>9, <2>1, <2>4, <2>5, <2>6 DEF InstallArtifacts, TypeOK
<1>10. ASSUME NEW r \in Restorers, InstallDatabase(r) PROVE TypeOK'
  <2>1. rs' \in [Restorers -> {Idle} \union Process]
    BY <1>10, MovedProcess DEF InstallDatabase, Owning
  <2>2. stage[r] \in Staged BY DEF TypeOK
  <2>3. [stage[r] EXCEPT !.db = None] \in Staged BY <2>2 DEF Staged
  <2>4. stage' \in [Restorers -> Staged]
    BY <1>10, <2>3 DEF InstallDatabase, TypeOK
  <2>5. db' \in Bundles \union {None, "fresh"}
    BY <1>10, <2>2 DEF InstallDatabase, Staged, TypeOK
  <2> QED BY <1>10, <2>1, <2>4, <2>5 DEF InstallDatabase, TypeOK
<1>11. ASSUME NEW r \in Restorers, Unmark(r) \/ UnmarkFailed(r) PROVE TypeOK'
  <2>1. rs' \in [Restorers -> {Idle} \union Process]
    BY <1>11, MovedProcess, Ended DEF Unmark, UnmarkFailed, Owning
  <2>2. stage' \in [Restorers -> Staged]
    BY <1>11 DEF Unmark, UnmarkFailed, NoStage, Staged, TypeOK
  <2> QED BY <1>11, <2>1, <2>2 DEF Unmark, UnmarkFailed, TypeOK
<1>12. ASSUME NEW r \in Restorers, Raise(r) \/ RollBackRaise(r) PROVE TypeOK'
  <2>1. rs' \in [Restorers -> {Idle} \union Process]
    BY <1>12, MovedProcess, Ended DEF Raise, RollBackRaise, Owning
  <2>2. leftover' \in BOOLEAN BY <1>12 DEF Raise, RollBackRaise, TypeOK
  <2>3. marker' \in {marker, NoMarker} BY <1>12 DEF Raise, RollBackRaise
  <2>4. UNCHANGED <<files, rows, db, arts, bundle, stage, torn, overlap, joined,
                    replaced, intruded>> /\ faults' = faults + 1
    BY <1>12 DEF Raise, RollBackRaise
  <2> QED BY <2>1, <2>2, <2>3, <2>4 DEF TypeOK
<1>13. ASSUME NEW r \in Restorers, RollBack(r) PROVE TypeOK'
  <2>1. rs' \in [Restorers -> {Idle} \union Process]
    BY <1>13, MovedProcess DEF RollBack, Owning
  <2> QED BY <1>13, <2>1 DEF RollBack, TypeOK
<1>14. ASSUME NEW r \in Restorers, RolledBack(r) PROVE TypeOK'
  <2>1. rs' \in [Restorers -> {Idle} \union Process]
    BY <1>14, MovedProcess DEF RolledBack, Owning, TypeOK
  <2>2. arts' \in {None} \union SUBSET Digests BY <1>14 DEF RolledBack, TypeOK
  <2> QED BY <1>14, <2>1, <2>2 DEF RolledBack, TypeOK
<1>15. ASSUME NEW r \in Restorers, ResumeArtifacts(r) PROVE TypeOK'
  <2>1. rs[r].stage \in Restorers BY <1>15, RunningRestore DEF ResumeArtifacts
  <2>2. rs' \in [Restorers -> {Idle} \union Process]
    BY <1>15, MovedProcess, Ended DEF ResumeArtifacts, GiveUp, Recovering
  <2>3. stage[rs[r].stage] \in Staged BY <2>1 DEF TypeOK
  <2>4. [stage[rs[r].stage] EXCEPT !.arts = None] \in Staged BY <2>3 DEF Staged
  <2>5. stage' \in [Restorers -> Staged]
    BY <1>15, <2>1, <2>4 DEF ResumeArtifacts, TypeOK
  <2>6. arts' \in {None} \union SUBSET Digests
    BY <1>15, <2>3 DEF ResumeArtifacts, Staged, TypeOK
  <2> QED BY <1>15, <2>2, <2>5, <2>6 DEF ResumeArtifacts, TypeOK
<1>16. ASSUME NEW r \in Restorers, ResumeDatabase(r) PROVE TypeOK'
  <2>1. rs[r].stage \in Restorers BY <1>16, RunningRestore DEF ResumeDatabase
  <2>2. rs' \in [Restorers -> {Idle} \union Process]
    BY <1>16, MovedProcess, Ended DEF ResumeDatabase, GiveUp, Recovering
  <2>3. stage[rs[r].stage] \in Staged BY <2>1 DEF TypeOK
  <2>4. [stage[rs[r].stage] EXCEPT !.db = None] \in Staged BY <2>3 DEF Staged
  <2>5. stage' \in [Restorers -> Staged]
    BY <1>16, <2>1, <2>4 DEF ResumeDatabase, TypeOK
  <2>6. db' \in Bundles \union {None, "fresh"}
    BY <1>16, <2>3 DEF ResumeDatabase, Staged, TypeOK
  <2> QED BY <1>16, <2>2, <2>5, <2>6 DEF ResumeDatabase, TypeOK
<1>17. ASSUME NEW r \in Restorers, ResumeUnmark(r) PROVE TypeOK'
  <2>1. stage' \in [Restorers -> Staged]
    BY <1>17 DEF ResumeUnmark, NoStage, Staged, TypeOK
  <2>2. rs' \in [Restorers -> {Idle} \union Process]
    BY <1>17, Ended DEF ResumeUnmark, GiveUp
  <2> QED BY <1>17, <2>1, <2>2 DEF ResumeUnmark, TypeOK
<1>18. ASSUME NEW r \in Restorers, ResumeRaise(r) \/ Crash(r) PROVE TypeOK'
  <2>1. rs' \in [Restorers -> {Idle} \union Process]
    BY <1>18, Ended DEF ResumeRaise, Crash, GiveUp
  <2>2. torn' \in BOOLEAN BY <1>18 DEF ResumeRaise, Crash, TypeOK
  <2> QED BY <1>18, <2>1, <2>2 DEF ResumeRaise, Crash, TypeOK
<1>19. CASE ServiceStart BY <1>19 DEF ServiceStart, Candidate, TypeOK
<1>20. CASE UNCHANGED vars BY <1>20 DEF vars, TypeOK
<1> QED
  BY <1>1, <1>2, <1>3, <1>4, <1>5, <1>6, <1>7, <1>8, <1>9, <1>10, <1>11, <1>12,
     <1>13, <1>14, <1>15, <1>16, <1>17, <1>18, <1>19, <1>20 DEF Next, Step

(* Rows follow their files. *)
LEMMA FilesFirstStep ==
    ASSUME FilesFirst, [Next]_vars
    PROVE  FilesFirst'
<1> USE DEF source, FilesFirst, SnapshotReadable
<1>1. ASSUME NEW d \in Digests, WriteArtifact(d) \/ RegisterArtifact(d)
      PROVE  FilesFirst'
  BY <1>1 DEF WriteArtifact, RegisterArtifact
<1>2. ASSUME NEW b \in Bundles, Snapshot(b) PROVE FilesFirst'
  BY <1>2 DEF Snapshot
<1>3. CASE Publish \/ BackupFails BY <1>3 DEF Publish, BackupFails
<1>4. ASSUME UNCHANGED <<files, rows, bk>> PROVE FilesFirst' BY <1>4
<1>5. ASSUME NEW b \in Bundles, NEW part, Damage(b, part) PROVE FilesFirst'
  BY <1>4, <1>5 DEF Damage
<1>6. ASSUME NEW r \in Restorers, NEW b \in Bundles, Begin(r, b) \/ Resume(r, b)
      PROVE  FilesFirst'
  BY <1>4, <1>6 DEF Begin, Resume
<1>7. ASSUME NEW r \in Restorers, Step(r) PROVE UNCHANGED source
  BY <1>7 DEF Step, Stage, CreateMarker, WriteMarker, InstallArtifacts,
              InstallDatabase, Unmark, RollBack, RolledBack, UnmarkFailed,
              ResumeArtifacts, ResumeDatabase, ResumeUnmark
<1>8. ASSUME NEW r \in Restorers,
             Raise(r) \/ RollBackRaise(r) \/ ResumeRaise(r) \/ Crash(r)
      PROVE  UNCHANGED source
  BY <1>8 DEF Raise, RollBackRaise, ResumeRaise, Crash
<1>9. CASE ServiceStart BY <1>4, <1>9 DEF ServiceStart
<1>10. CASE UNCHANGED vars BY <1>4, <1>10 DEF vars
<1> QED
  BY <1>1, <1>2, <1>3, <1>4, <1>5, <1>6, <1>7, <1>8, <1>9, <1>10 DEF Next

(* A bundle is not written twice, and what is restored or staged is finished. *)
LEMMA FinishedStep ==
    ASSUME TypeOK, Finished, [Next]_vars
    PROVE  /\ Finished'
           /\ \A b \in Bundles : bundle[b] # None => bundle'[b] = bundle[b]
<1> USE DEF source, target, restoring, ghosts, Live
<1>1. ASSUME UNCHANGED <<bk, bundle>>,
             db' # db => db' \notin Bundles \/ bundle[db'] # None,
             NEW r \in Restorers,
             \A q \in Restorers \ {r} : rs'[q] = rs[q],
             rs'[r].pc = "idle" \/ bundle[rs'[r].bundle] # None,
             \A q \in Restorers : \/ stage'[q].db = stage[q].db
                                  \/ stage'[q].db \notin Bundles
                                  \/ bundle[stage'[q].db] # None
      PROVE  Finished'
  BY <1>1 DEF Finished
<1>2. ASSUME UNCHANGED <<db, rs, stage>>,
             \A b \in Bundles : bundle[b] # None => bundle'[b] = bundle[b],
             bk' # None => /\ bk'.bundle \in Bundles /\ bundle'[bk'.bundle] = None
                           /\ bk'.rows \subseteq Digests
      PROVE  Finished'
  BY <1>2, RunningRestore DEF Finished
<1>3. ASSUME NEW d \in Digests, WriteArtifact(d) \/ RegisterArtifact(d)
      PROVE  Finished' /\ UNCHANGED bundle
  BY <1>2, <1>3 DEF WriteArtifact, RegisterArtifact, Finished
<1>4. ASSUME NEW b \in Bundles, NEW part, Snapshot(b) \/ Damage(b, part)
      PROVE  Finished' /\ UNCHANGED bundle
  BY <1>2, <1>4 DEF Snapshot, Damage, Finished, TypeOK
<1>5. CASE Publish \/ BackupFails
  BY <1>2, <1>5 DEF Publish, BackupFails, Finished, TypeOK
<1>6. ASSUME NEW r \in Restorers, NEW b \in Bundles, Begin(r, b) \/ Resume(r, b)
      PROVE  Finished' /\ UNCHANGED bundle
  BY <1>1, <1>6, RestoreAssumption
  DEF Begin, Resume, Resumable, Listed, NoStage, TypeOK
<1>7. ASSUME NEW r \in Restorers, Step(r) PROVE Finished' /\ UNCHANGED bundle
  <2>1. rs[r].pc # "idle" /\ rs[r].bundle \in Bundles /\ rs[r].stage \in Restorers
    BY <1>7, RunningRestore
    DEF Step, Stage, CreateMarker, WriteMarker, InstallArtifacts,
        InstallDatabase, Unmark, RollBack, RolledBack, UnmarkFailed,
        ResumeArtifacts, ResumeDatabase, ResumeUnmark
  <2>2. UNCHANGED <<bk, bundle>>
    BY <1>7
    DEF Step, Stage, CreateMarker, WriteMarker, InstallArtifacts,
        InstallDatabase, Unmark, RollBack, RolledBack, UnmarkFailed,
        ResumeArtifacts, ResumeDatabase, ResumeUnmark
  <2>3. /\ \A q \in Restorers \ {r} : rs'[q] = rs[q]
        /\ rs'[r].pc = "idle" \/ rs'[r].bundle = rs[r].bundle
    <3>1. \/ UNCHANGED rs \/ rs' = [rs EXCEPT ![r] = Idle]
          \/ rs' = [rs EXCEPT ![r].pc = "installed", ![r].installed = TRUE]
          \/ \E pc \in {"staged", "failing", "marking", "marked", "complete",
                         "removing", "unmarking", "resumed", "recovered"} :
               Goto(r, pc)
      BY <1>7
      DEF Step, Stage, CreateMarker, WriteMarker, InstallArtifacts,
          InstallDatabase, Unmark, RollBack, RolledBack, UnmarkFailed,
          ResumeArtifacts, ResumeDatabase, ResumeUnmark, GiveUp
    <3>2. CASE rs' = [rs EXCEPT ![r].pc = "installed", ![r].installed = TRUE]
      BY <2>1, <3>2, RunningRestore DEF TypeOK, Process
    <3>3. CASE UNCHANGED rs \/ rs' = [rs EXCEPT ![r] = Idle] BY <3>3, Ended
    <3>4. ASSUME NEW pc, Goto(r, pc)
          PROVE  /\ \A q \in Restorers \ {r} : rs'[q] = rs[q]
                 /\ rs'[r].bundle = rs[r].bundle
      BY <3>4, Moved
    <3> QED BY <3>1, <3>2, <3>3, <3>4
  <2>4. db' # db => db' = stage[r].db \/ db' = stage[rs[r].stage].db
    BY <1>7
    DEF Step, Stage, CreateMarker, WriteMarker, InstallArtifacts,
        InstallDatabase, Unmark, RollBack, RolledBack, UnmarkFailed,
        ResumeArtifacts, ResumeDatabase, ResumeUnmark
  <2>5. \A q \in Restorers : \/ stage'[q].db \in {stage[q].db, None}
                             \/ stage'[q].db = rs[r].bundle
    <3>1. \/ UNCHANGED stage
          \/ \E q \in Restorers : \/ stage' = [stage EXCEPT ![q] = NoStage]
                                  \/ stage' = [stage EXCEPT ![q].db = None]
                                  \/ stage' = [stage EXCEPT ![q].arts = None]
          \/ stage' = [stage EXCEPT ![r] = Unpacked(rs[r].bundle)]
      BY <1>7, <2>1
      DEF Step, Stage, CreateMarker, WriteMarker, InstallArtifacts,
          InstallDatabase, Unmark, RollBack, RolledBack, UnmarkFailed,
          ResumeArtifacts, ResumeDatabase, ResumeUnmark
    <3> QED BY <3>1 DEF NoStage, Unpacked, TypeOK, Staged
  <2>6. bundle[rs[r].bundle] # None BY <2>1 DEF Finished
  <2>7. db' # db => db' \notin Bundles \/ bundle[db'] # None
    BY <2>1, <2>4 DEF Finished
  <2>8. \A q \in Restorers : \/ stage'[q].db = stage[q].db
                             \/ stage'[q].db \notin Bundles
                             \/ bundle[stage'[q].db] # None
    BY <2>5, <2>6, RestoreAssumption
  <2>9. rs'[r].pc = "idle" \/ bundle[rs'[r].bundle] # None BY <2>3, <2>6
  <2> QED BY <1>1, <2>2, <2>3, <2>7, <2>8, <2>9
<1>8. ASSUME NEW r \in Restorers,
             Raise(r) \/ RollBackRaise(r) \/ ResumeRaise(r) \/ Crash(r)
      PROVE  Finished' /\ UNCHANGED bundle
  <2>1. UNCHANGED <<bk, bundle, db, stage>>
    BY <1>8 DEF Raise, RollBackRaise, ResumeRaise, Crash
  <2>a. rs[r].pc # "idle" BY <1>8 DEF Raise, RollBackRaise, ResumeRaise, Crash
  <2>b. \/ rs' = [rs EXCEPT ![r] = Idle]
        \/ \E pc \in {"failing", "unmarking"} : Goto(r, pc)
    BY <1>8 DEF Raise, RollBackRaise, ResumeRaise, Crash, GiveUp
  <2>2. /\ \A q \in Restorers \ {r} : rs'[q] = rs[q]
        /\ rs'[r].pc = "idle" \/ rs'[r].bundle = rs[r].bundle
    <3>1. ASSUME NEW pc, Goto(r, pc)
          PROVE  /\ \A q \in Restorers \ {r} : rs'[q] = rs[q]
                 /\ rs'[r].bundle = rs[r].bundle
      BY <3>1, Moved
    <3>2. CASE rs' = [rs EXCEPT ![r] = Idle] BY <3>2 DEF TypeOK, Idle
    <3> QED BY <2>a, <2>b, <3>1, <3>2
  <2>3. rs'[r].pc = "idle" \/ bundle[rs'[r].bundle] # None
    BY <2>a, <2>2 DEF Finished
  <2> QED BY <1>1, <2>1, <2>2, <2>3
<1>9. CASE ServiceStart
  BY <1>9, RestoreAssumption DEF ServiceStart, Finished
<1>10. CASE UNCHANGED vars BY <1>10 DEF vars, Finished
<1> QED
  BY <1>3, <1>4, <1>5, <1>6, <1>7, <1>8, <1>9, <1>10
  DEF Next, Publish, BackupFails, ServiceStart, vars, TypeOK, Finished

(* An idle process claims nothing. *)
LEMMA IdleInPlace ==
    ASSUME NEW r \in Restorers
    PROVE  /\ rs[r].pc = "idle" => InPlace(r)
           /\ rs'[r].pc = "idle" => InPlace(r)'
BY DEF InPlace, OwnStage, Before

(* A step of the only restore under way is judged by what it knows itself. *)
LEMMA AloneMove ==
    ASSUME NEW r \in Restorers,
           \A q \in Restorers : q # r => rs'[q].pc = "idle",
           InPlace(r)',
           (db # None => db \in Bundles /\ arts = bundle[db])',
           (db = None /\ arts # None => marker # NoMarker \/ leftover)'
    PROVE  AloneInv'
<1>1. \A q \in Restorers : InPlace(q)' BY IdleInPlace
<1> QED BY <1>1 DEF AloneInv, Live

(* What the only restore under way relies on. *)
LEMMA AloneFacts ==
    ASSUME TypeOK, Finished, AloneInv, NEW r \in Live, ~overlap, ~intruded
    PROVE  /\ r \in Restorers
           /\ bundle[rs[r].bundle] # None
           /\ \A q \in Restorers : q # r => rs[q].pc = "idle"
           /\ InPlace(r)
           /\ db # None => db \in Bundles /\ arts = bundle[db]
           /\ db = None /\ arts # None => marker # NoMarker \/ leftover
           /\ rs[r].bundle \in Bundles /\ rs[r].stage \in Restorers
           /\ rs[r].installed \in BOOLEAN
BY RunningRestore DEF AloneInv, Live, Finished

(* A restore that runs alone knows, after each of its steps, what it has put in
   place; an error or a crash leaves no less. *)
LEMMA AloneStep ==
    ASSUME TypeOK, TypeOK', Finished, AloneInv, NEW r \in Live,
           Step(r) \/ Raise(r) \/ RollBackRaise(r) \/ ResumeRaise(r) \/ Crash(r)
    PROVE  AloneInv'
<1> SUFFICES ASSUME ~overlap', ~intruded' PROVE AloneInv'
  BY DEF AloneInv
<1> USE DEF source, target, restoring, ghosts
<1>c. r \in Restorers BY DEF Live
<1>d. ~overlap /\ ~intruded
  BY DEF Step, Raise, RollBackRaise, ResumeRaise, Crash, Stage,
         CreateMarker, WriteMarker, InstallArtifacts, InstallDatabase, Unmark,
         RollBack, RolledBack, UnmarkFailed, ResumeArtifacts, ResumeDatabase,
         ResumeUnmark
<1>e. UNCHANGED bundle
  BY DEF Step, Raise, RollBackRaise, ResumeRaise, Crash, Stage,
         CreateMarker, WriteMarker, InstallArtifacts, InstallDatabase, Unmark,
         RollBack, RolledBack, UnmarkFailed, ResumeArtifacts, ResumeDatabase,
         ResumeUnmark
<1>f. /\ \A q \in Restorers : q # r => rs[q].pc = "idle"
      /\ InPlace(r)
      /\ db # None => db \in Bundles /\ arts = bundle[db]
      /\ db = None /\ arts # None => marker # NoMarker \/ leftover
      /\ rs[r].bundle \in Bundles /\ rs[r].stage \in Restorers
      /\ bundle[rs[r].bundle] # None
  BY <1>d, AloneFacts
<1>1. CASE Stage(r)
  <2>1. rs[r].pc = "staging" /\ UNCHANGED <<db, arts, marker, leftover>>
    BY <1>1 DEF Stage
  <2>2. db = None /\ arts = None /\ ~rs[r].installed
    BY <1>f, <2>1 DEF InPlace, OwnStage, Before
  <2>3. \/ Goto(r, "staged") /\ stage'[r] = Unpacked(rs[r].bundle)
        \/ Goto(r, "failing")
    BY <1>1, <1>c DEF Stage, TypeOK
  <2>5. /\ ~rs'[r].installed /\ \A q \in Restorers : q # r => rs'[q] = rs[q]
        /\ \/ /\ rs'[r].pc = "staged" /\ stage'[r].db = rs'[r].bundle
              /\ stage'[r].arts = bundle'[rs'[r].bundle]
           \/ rs'[r].pc = "failing"
    BY <1>c, <1>e, <2>2, <2>3, Moved DEF Unpacked
  <2>6. InPlace(r)' BY <2>1, <2>2, <2>5 DEF InPlace, OwnStage, Before
  <2> QED BY <1>c, <1>f, <2>1, <2>2, <2>5, <2>6, AloneMove
<1>2. CASE CreateMarker(r)
  <2>1. rs[r].pc = "staged" /\ UNCHANGED <<db, arts, stage, leftover>>
    BY <1>2 DEF CreateMarker
  <2>2. /\ db = None /\ arts = None /\ ~rs[r].installed
        /\ stage[r].db = rs[r].bundle /\ stage[r].arts = bundle[rs[r].bundle]
    BY <1>f, <2>1 DEF InPlace, OwnStage, Before
  <2>3. \/ Goto(r, "marking") /\ marker' # NoMarker
        \/ Goto(r, "failing")
    BY <1>2 DEF CreateMarker, Torn, NoMarker
  <2>5. /\ ~rs'[r].installed /\ \A q \in Restorers : q # r => rs'[q] = rs[q]
        /\ \/ /\ rs'[r].pc = "marking" /\ marker' # NoMarker
              /\ stage'[r].db = rs'[r].bundle
              /\ stage'[r].arts = bundle'[rs'[r].bundle]
           \/ rs'[r].pc = "failing"
    BY <1>c, <1>e, <2>1, <2>2, <2>3, Moved
  <2>6. InPlace(r)' BY <2>1, <2>2, <2>5 DEF InPlace, OwnStage, Before, NoMarker
  <2> QED BY <1>c, <1>f, <2>1, <2>2, <2>5, <2>6, AloneMove
<1>3. CASE WriteMarker(r)
  <2>1. /\ rs[r].pc = "marking" /\ UNCHANGED <<db, arts, stage, leftover>>
        /\ Goto(r, "marked")
    BY <1>3 DEF WriteMarker
  <2>2. /\ db = None /\ arts = None /\ ~rs[r].installed
        /\ stage[r].db = rs[r].bundle
        /\ stage[r].arts = bundle[rs[r].bundle] /\ marker # NoMarker
    BY <1>f, <2>1 DEF InPlace, OwnStage, Before
  <2>3. marker' # NoMarker BY <1>3, <2>2 DEF WriteMarker, NoMarker
  <2>5. /\ ~rs'[r].installed /\ \A q \in Restorers : q # r => rs'[q] = rs[q]
        /\ rs'[r].pc = "marked" /\ stage'[r].db = rs'[r].bundle
        /\ stage'[r].arts = bundle'[rs'[r].bundle]
    BY <1>c, <1>e, <2>1, <2>2, Moved
  <2>6. InPlace(r)' BY <2>1, <2>2, <2>3, <2>5 DEF InPlace, OwnStage, Before, NoMarker
  <2> QED BY <1>c, <1>f, <2>1, <2>2, <2>5, <2>6, AloneMove
<1>4. CASE InstallArtifacts(r)
  <2>1. rs[r].pc = "marked" /\ UNCHANGED <<db, marker, leftover>>
    BY <1>4 DEF InstallArtifacts
  <2>2. /\ db = None /\ arts = None /\ ~rs[r].installed
        /\ stage[r].db = rs[r].bundle
        /\ stage[r].arts = bundle[rs[r].bundle] /\ marker # NoMarker
    BY <1>f, <2>1 DEF InPlace, OwnStage, Before
  <2>3. /\ rs' = [rs EXCEPT ![r].pc = "installed", ![r].installed = TRUE]
        /\ stage' = [stage EXCEPT ![r].arts = None]
        /\ arts' = bundle[rs[r].bundle]
    BY <1>4, <1>f, <2>2 DEF InstallArtifacts
  <2>4. /\ rs'[r].pc = "installed" /\ rs'[r].installed
        /\ rs'[r].bundle = rs[r].bundle
        /\ \A q \in Restorers : q # r => rs'[q] = rs[q]
        /\ arts' = bundle[rs[r].bundle] /\ stage'[r].db = rs[r].bundle
    BY <1>c, <2>2, <2>3, RunningRestore DEF TypeOK, Process, Staged
  <2>5. marker' # NoMarker BY <2>1, <2>2 DEF NoMarker
  <2>6. InPlace(r)' BY <1>e, <2>4 DEF InPlace, OwnStage, Before
  <2> QED BY <1>c, <1>f, <2>1, <2>2, <2>4, <2>5, <2>6, AloneMove
<1>5. CASE InstallDatabase(r)
  <2>1. rs[r].pc = "installed" /\ UNCHANGED <<arts, marker, leftover>>
    BY <1>5 DEF InstallDatabase
  <2>2. stage[r].db = rs[r].bundle /\ arts = bundle[rs[r].bundle]
    BY <1>f, <2>1 DEF InPlace, OwnStage
  <2>3. Goto(r, "complete") /\ db' = rs[r].bundle
    BY <1>5, <1>f, <2>2, RestoreAssumption DEF InstallDatabase
  <2>4. /\ rs'[r].pc = "complete" /\ db' # None
        /\ \A q \in Restorers : q # r => rs'[q] = rs[q]
    BY <1>c, <1>f, <2>3, Moved, RestoreAssumption
  <2>6. InPlace(r)' BY <2>4 DEF InPlace, OwnStage, Before
  <2> QED BY <1>c, <1>e, <1>f, <2>1, <2>2, <2>3, <2>4, <2>6, AloneMove
<1>6. CASE Unmark(r)
  <2>1. rs[r].pc = "complete" /\ UNCHANGED <<db, arts, leftover>>
    BY <1>6 DEF Unmark
  <2>2. db # None BY <1>f, <2>1 DEF InPlace, OwnStage
  <2>3. /\ rs'[r].pc \in {"idle", "failing"}
        /\ \A q \in Restorers : q # r => rs'[q] = rs[q]
    BY <1>6, <1>c, Moved, Ended DEF Unmark
  <2>6. InPlace(r)' BY <2>1, <2>2, <2>3 DEF InPlace, OwnStage, Before
  <2> QED BY <1>c, <1>e, <1>f, <2>1, <2>2, <2>3, <2>6, AloneMove
<1>7. CASE RollBack(r)
  <2>1. /\ rs[r].pc = "failing" /\ UNCHANGED <<db, arts, marker, leftover>>
        /\ \/ Goto(r, "removing") /\ db = None
           \/ Goto(r, "unmarking") /\ ~(rs[r].installed /\ db = None)
    BY <1>7 DEF RollBack
  <2>2. rs[r].installed \/ db # None \/ arts = None
    BY <1>f, <2>1 DEF InPlace
  <2>3. /\ \A q \in Restorers : q # r => rs'[q] = rs[q]
        /\ \/ rs'[r].pc = "removing" /\ db' = None
           \/ rs'[r].pc = "unmarking" /\ (db' # None \/ arts' = None)
    BY <1>c, <2>1, <2>2, Moved
  <2>5. marker' # NoMarker <=> marker # NoMarker BY <2>1 DEF NoMarker
  <2>6. InPlace(r)' BY <2>3 DEF InPlace, OwnStage, Before
  <2> QED BY <1>c, <1>e, <1>f, <2>1, <2>3, <2>5, <2>6, AloneMove
<1>8. CASE RolledBack(r)
  <2>1. /\ rs[r].pc = "removing" /\ UNCHANGED <<db, marker, leftover>>
        /\ \/ UNCHANGED rs /\ arts # None
           \/ Goto(r, "unmarking") /\ arts' = None
    BY <1>8 DEF RolledBack
  <2>2. db = None BY <1>f, <2>1 DEF InPlace
  <2>3. /\ \A q \in Restorers : q # r => rs'[q] = rs[q]
        /\ \/ rs'[r].pc = "removing" /\ arts # None
           \/ rs'[r].pc = "unmarking" /\ arts' = None
    BY <1>c, <2>1, Moved
  <2>5. marker' # NoMarker <=> marker # NoMarker BY <2>1 DEF NoMarker
  <2>6. InPlace(r)' BY <2>1, <2>2, <2>3 DEF InPlace, OwnStage, Before
  <2> QED BY <1>c, <1>f, <2>1, <2>2, <2>3, <2>5, <2>6, AloneMove
<1>9. CASE UnmarkFailed(r)
  <2>1. rs[r].pc = "unmarking" /\ UNCHANGED <<db, arts, leftover>>
    BY <1>9 DEF UnmarkFailed
  <2>2. db # None \/ arts = None \/ leftover BY <1>f, <2>1 DEF InPlace
  <2>3. /\ rs'[r].pc = "idle" /\ \A q \in Restorers : q # r => rs'[q] = rs[q]
    BY <1>9, <1>c, Ended DEF UnmarkFailed
  <2> QED BY <1>c, <1>e, <1>f, <2>1, <2>2, <2>3, IdleInPlace, AloneMove
<1>10. CASE ResumeArtifacts(r)
  <2>1. rs[r].pc = "resuming" /\ UNCHANGED <<db, marker, leftover>>
    BY <1>10 DEF ResumeArtifacts
  <2>2. /\ Candidate(arts, stage[rs[r].stage].arts) = bundle[rs[r].bundle]
        /\ Candidate(db, stage[rs[r].stage].db) = rs[r].bundle
        /\ marker # NoMarker
    BY <1>f, <2>1 DEF InPlace
  <2>3. Goto(r, "resumed") /\ arts' = bundle[rs[r].bundle]
    BY <1>10, <1>f, <2>2 DEF ResumeArtifacts, Candidate
  <2>4. stage'[rs[r].stage].db = stage[rs[r].stage].db
    BY <1>10, <1>f DEF ResumeArtifacts, TypeOK, Staged
  <2>5. /\ \A q \in Restorers : q # r => rs'[q] = rs[q]
        /\ rs'[r].pc = "resumed" /\ rs'[r].bundle = rs[r].bundle
        /\ rs'[r].stage = rs[r].stage
    BY <1>c, <2>3, Moved
  <2>6. InPlace(r)'
    BY <1>e, <2>1, <2>2, <2>3, <2>4, <2>5 DEF InPlace, OwnStage, Before, Candidate
  <2>7. marker' # NoMarker BY <2>1, <2>2 DEF NoMarker
  <2>8. db' # None => db' \in Bundles /\ arts' = bundle'[db']
    BY <1>e, <1>f, <2>1, <2>2, <2>3 DEF Candidate
  <2> QED BY <1>c, <1>f, <2>5, <2>6, <2>7, <2>8, AloneMove
<1>11. CASE ResumeDatabase(r)
  <2>1. rs[r].pc = "resumed" /\ UNCHANGED <<arts, marker, leftover>>
    BY <1>11 DEF ResumeDatabase
  <2>2. /\ arts = bundle[rs[r].bundle]
        /\ Candidate(db, stage[rs[r].stage].db) = rs[r].bundle
    BY <1>f, <2>1 DEF InPlace
  <2>3. Goto(r, "recovered") /\ db' = rs[r].bundle
    BY <1>11, <1>f, <2>2, RestoreAssumption DEF ResumeDatabase, Candidate
  <2>4. /\ rs'[r].pc = "recovered" /\ db' # None
        /\ \A q \in Restorers : q # r => rs'[q] = rs[q]
    BY <1>c, <1>f, <2>3, Moved, RestoreAssumption
  <2>6. InPlace(r)' BY <2>4 DEF InPlace, OwnStage, Before
  <2> QED BY <1>c, <1>e, <1>f, <2>1, <2>2, <2>3, <2>4, <2>6, AloneMove
<1>12. CASE ResumeUnmark(r)
  <2>1. rs[r].pc = "recovered" /\ UNCHANGED <<db, arts, leftover>>
    BY <1>12 DEF ResumeUnmark
  <2>2. db # None BY <1>f, <2>1 DEF InPlace
  <2>3. rs'[r].pc = "idle" /\ \A q \in Restorers : q # r => rs'[q] = rs[q]
    BY <1>12, <1>c, Ended DEF ResumeUnmark, GiveUp
  <2> QED BY <1>c, <1>e, <1>f, <2>1, <2>2, <2>3, IdleInPlace, AloneMove
<1>13. CASE Raise(r)
  <2>1. /\ UNCHANGED <<db, arts, leftover>> /\ Goto(r, "failing")
        /\ rs[r].pc = "marking" \/ marker' = marker
        /\ rs[r].pc \in Before \union {"installed", "complete"}
    BY <1>13 DEF Raise, Before
  <2>2. rs[r].installed \/ db # None \/ arts = None
    BY <1>f, <2>1 DEF InPlace, OwnStage, Before
  <2>3. rs[r].pc = "marking" => arts = None BY <1>f DEF InPlace, Before
  <2>4. /\ rs'[r].pc = "failing" /\ rs'[r].installed = rs[r].installed
        /\ \A q \in Restorers : q # r => rs'[q] = rs[q]
    BY <1>c, <2>1, Moved
  <2>5. arts = None \/ (marker' # NoMarker <=> marker # NoMarker)
    BY <2>1, <2>3 DEF NoMarker
  <2>6. InPlace(r)' BY <2>1, <2>2, <2>4 DEF InPlace, OwnStage, Before
  <2> QED BY <1>c, <1>e, <1>f, <2>1, <2>4, <2>5, <2>6, AloneMove
<1>14. CASE ResumeRaise(r) \/ Crash(r)
  <2>1. UNCHANGED <<db, arts, marker, leftover>>
    BY <1>14 DEF ResumeRaise, Crash
  <2>2. rs'[r].pc = "idle" /\ \A q \in Restorers : q # r => rs'[q] = rs[q]
    BY <1>14, <1>c, Ended DEF ResumeRaise, Crash, GiveUp
  <2>3. marker' # NoMarker <=> marker # NoMarker BY <2>1 DEF NoMarker
  <2> QED BY <1>c, <1>e, <1>f, <2>1, <2>2, <2>3, IdleInPlace, AloneMove
<1>15. CASE RollBackRaise(r)
  <2>1. /\ UNCHANGED <<db, arts, marker>>
        /\ \/ Goto(r, "unmarking") /\ leftover' = TRUE
           \/ rs' = [rs EXCEPT ![r] = Idle] /\ UNCHANGED leftover
    BY <1>15 DEF RollBackRaise
  <2>2. /\ \A q \in Restorers : q # r => rs'[q] = rs[q]
        /\ \/ rs'[r].pc = "unmarking" /\ leftover'
           \/ rs'[r].pc = "idle" /\ UNCHANGED leftover
    BY <1>c, <2>1, Moved, Ended
  <2>3. marker' # NoMarker <=> marker # NoMarker BY <2>1 DEF NoMarker
  <2>6. InPlace(r)' BY <2>2 DEF InPlace, OwnStage, Before
  <2> QED BY <1>c, <1>e, <1>f, <2>1, <2>2, <2>3, <2>6, AloneMove
<1> QED
  BY <1>1, <1>2, <1>3, <1>4, <1>5, <1>6, <1>7, <1>8, <1>9, <1>10, <1>11, <1>12,
     <1>13, <1>14, <1>15 DEF Step

(* A restore that starts alone finds an empty target, or what a marker names. *)
LEMMA AloneStart ==
    ASSUME TypeOK, AloneInv, NEW r \in Restorers, NEW b \in Bundles,
           Begin(r, b) \/ Resume(r, b)
    PROVE  AloneInv'
<1> SUFFICES ASSUME ~overlap', ~intruded' PROVE AloneInv'
  BY DEF AloneInv
<1>1. ~overlap /\ ~intruded /\ Live = {} /\ UNCHANGED <<target, bundle, leftover>>
  <2>1. /\ overlap' = (overlap \/ Live # {})
        /\ UNCHANGED <<target, bundle, leftover, intruded>>
    BY DEF Begin, Resume, Overlaps, source
  <2>2. ~overlap /\ Live = {} BY <2>1, Zenon
  <2> QED BY <2>1, <2>2
<1>2. \A q \in Restorers : q # r => rs'[q].pc = "idle"
  BY <1>1 DEF Begin, Resume, Live, TypeOK
<1>3. /\ (db # None => db \in Bundles /\ arts = bundle[db])'
      /\ (db = None /\ arts # None => marker # NoMarker \/ leftover)'
  BY <1>1 DEF AloneInv, target, NoMarker
<1>4. CASE Begin(r, b)
  <2>1. rs'[r].pc = "staging" /\ ~rs'[r].installed BY <1>4 DEF Begin, TypeOK
  <2>2. db' = None /\ arts' = None BY <1>4 DEF Begin, target
  <2>3. InPlace(r)' BY <2>1, <2>2 DEF InPlace, OwnStage, Before
  <2> QED BY <2>3, <1>2, <1>3, AloneMove
<1>5. CASE Resume(r, b)
  <2>1. /\ rs'[r].pc = "resuming" /\ rs'[r].bundle = b
        /\ rs'[r].stage = marker.stage
    BY <1>5 DEF Resume, TypeOK
  <2>2. UNCHANGED <<db, arts, marker, stage, bundle>>
    BY <1>5 DEF Resume, target, source
  <2>3. marker # NoMarker BY <1>5 DEF Resume, Resumable, Authentic, NoMarker
  <2>4. /\ Candidate(db, stage[marker.stage].db) = b
        /\ Candidate(arts, stage[marker.stage].arts) = bundle[b]
    BY <1>5 DEF Resume, Resumable, Matches
  <2>5. marker' # NoMarker BY <2>2, <2>3 DEF NoMarker
  <2>6. /\ Candidate(db', stage'[rs'[r].stage].db) = rs'[r].bundle
        /\ Candidate(arts', stage'[rs'[r].stage].arts) = bundle'[rs'[r].bundle]
    BY <2>1, <2>2, <2>4
  <2>7. InPlace(r)' BY <2>1, <2>5, <2>6 DEF InPlace, OwnStage, Before, Candidate
  <2> QED BY <2>7, <1>2, <1>3, AloneMove
<1> QED BY <1>4, <1>5

(* Restores that overlap without faults leave each other's stages alone, and
   only the owner of the tree in place goes on to the database. *)
LEMMA CleanStep ==
    ASSUME TypeOK, TypeOK', Finished, CleanInv, NEW r \in Restorers, Step(r)
    PROVE  CleanInv'
<1> SUFFICES ASSUME faults' = 0, ~joined', ~replaced', ~intruded' PROVE CleanInv'
  BY DEF CleanInv
<1> USE DEF source, target, restoring, ghosts
<1>e. ~replaced
  <2>1. UNCHANGED replaced \/ replaced' = (replaced \/ arts = {})
    BY DEF Step, Stage, CreateMarker, WriteMarker, InstallArtifacts,
           InstallDatabase, Unmark, RollBack, RolledBack, UnmarkFailed,
           ResumeArtifacts, ResumeDatabase, ResumeUnmark
  <2> QED BY <2>1, Zenon
<1>a. faults = 0 /\ ~joined /\ ~replaced /\ ~intruded /\ UNCHANGED bundle
  BY <1>e DEF Step, Stage, CreateMarker, WriteMarker, InstallArtifacts,
         InstallDatabase, Unmark, RollBack, RolledBack, UnmarkFailed,
         ResumeArtifacts, ResumeDatabase, ResumeUnmark
<1>b. /\ db # None => db \in Bundles /\ arts = bundle[db]
      /\ marker # NoMarker => \E q \in Restorers : rs[q].pc \in Owning
      /\ \A q \in Restorers :
           /\ OwnStage(q)
           /\ rs[q].pc \notin Recovering \union {"removing"}
           /\ rs[q].pc \in {"failing", "unmarking"} /\ rs[q].installed =>
                db # None
  BY <1>a DEF CleanInv
<1>c. rs[r].pc # "idle" /\ rs[r].bundle \in Bundles /\ bundle[rs[r].bundle] # None
  BY RunningRestore
  DEF Step, Stage, CreateMarker, WriteMarker, InstallArtifacts,
      InstallDatabase, Unmark, RollBack, RolledBack, UnmarkFailed,
      ResumeArtifacts, ResumeDatabase, ResumeUnmark, Finished
<1>d. ASSUME \A q \in Restorers : q # r => rs'[q] = rs[q] /\ stage'[q] = stage[q],
             OwnStage(r)',
             rs'[r].pc \notin Recovering \union {"removing"},
             rs'[r].pc \in {"failing", "unmarking"} /\ rs'[r].installed =>
               db' # None,
             db' # None => db' \in Bundles /\ arts' = bundle[db'],
             \/ marker' = NoMarker
             \/ marker' # NoMarker /\ rs'[r].pc \in Owning
             \/ UNCHANGED marker /\ rs[r].pc \notin Owning,
             db # None => db' # None,
             UNCHANGED arts \/ \A q \in Restorers : q # r => rs[q].pc # "installed"
      PROVE  CleanInv'
  <2>1. \A q \in Restorers : q # r => OwnStage(q)'
    BY <1>a, <1>b, <1>d DEF OwnStage
  <2>2. marker' # NoMarker => \E q \in Restorers : rs'[q].pc \in Owning
    BY <1>b, <1>d DEF NoMarker
  <2> QED BY <1>a, <1>b, <1>d, <2>1, <2>2 DEF CleanInv
<1>1. CASE Stage(r)
  <2>1. rs[r].pc = "staging" /\ UNCHANGED <<db, arts, marker>> BY <1>1 DEF Stage
  <2>2. ~rs[r].installed BY <1>b, <2>1 DEF OwnStage, Before
  <2>3. /\ \A q \in Restorers : q # r => rs'[q] = rs[q] /\ stage'[q] = stage[q]
        /\ ~rs'[r].installed
        /\ \/ /\ rs'[r].pc = "staged" /\ stage'[r].db = rs'[r].bundle
              /\ stage'[r].arts = bundle'[rs'[r].bundle]
           \/ rs'[r].pc = "failing"
    BY <1>1, <1>a, <2>2, Moved DEF Stage, Unpacked, TypeOK
  <2>4. OwnStage(r)' BY <2>3 DEF OwnStage, Before
  <2>5. rs[r].pc \notin Owning BY <2>1 DEF Owning
  <2> QED BY <1>b, <1>d, <2>1, <2>3, <2>4, <2>5 DEF Recovering
<1>2. CASE CreateMarker(r)
  <2>1. rs[r].pc = "staged" /\ UNCHANGED <<db, arts, stage>>
    BY <1>2 DEF CreateMarker
  <2>2. /\ ~rs[r].installed /\ stage[r].db = rs[r].bundle
        /\ stage[r].arts = bundle[rs[r].bundle]
    BY <1>b, <2>1 DEF OwnStage, Before
  <2>3. /\ \A q \in Restorers : q # r => rs'[q] = rs[q] /\ stage'[q] = stage[q]
        /\ ~rs'[r].installed
        /\ \/ /\ rs'[r].pc = "marking" /\ stage'[r].db = rs'[r].bundle
              /\ stage'[r].arts = bundle'[rs'[r].bundle]
           \/ rs'[r].pc = "failing"
    BY <1>2, <1>a, <2>1, <2>2, Moved DEF CreateMarker
  <2>4. marker' # NoMarker BY <1>2 DEF CreateMarker, Torn, NoMarker
  <2>5. OwnStage(r)' BY <2>3 DEF OwnStage, Before
  <2> QED BY <1>b, <1>d, <2>1, <2>3, <2>4, <2>5 DEF Recovering, Owning
<1>3. CASE WriteMarker(r)
  <2>1. /\ rs[r].pc = "marking" /\ UNCHANGED <<db, arts, stage>>
        /\ Goto(r, "marked")
    BY <1>3 DEF WriteMarker
  <2>2. /\ ~rs[r].installed /\ stage[r].db = rs[r].bundle
        /\ stage[r].arts = bundle[rs[r].bundle]
    BY <1>b, <2>1 DEF OwnStage, Before
  <2>3. /\ \A q \in Restorers : q # r => rs'[q] = rs[q] /\ stage'[q] = stage[q]
        /\ ~rs'[r].installed
        /\ rs'[r].pc = "marked" /\ stage'[r].db = rs'[r].bundle
        /\ stage'[r].arts = bundle'[rs'[r].bundle]
    BY <1>a, <2>1, <2>2, Moved
  <2>5. OwnStage(r)' BY <2>3 DEF OwnStage, Before
  <2> QED BY <1>b, <1>d, <2>1, <2>3, <2>5 DEF Recovering, Owning
<1>4. CASE InstallArtifacts(r)
  <2>1. rs[r].pc = "marked" /\ UNCHANGED <<db, marker>>
    BY <1>4 DEF InstallArtifacts
  <2>2. /\ ~rs[r].installed /\ stage[r].db = rs[r].bundle
        /\ stage[r].arts = bundle[rs[r].bundle]
    BY <1>b, <2>1 DEF OwnStage, Before
  <2>4. \A q \in Restorers : q # r => rs'[q] = rs[q] /\ stage'[q] = stage[q]
    BY <1>4, Moved DEF InstallArtifacts, TypeOK
  <2>5. CASE arts = None
    <3>a. /\ rs' = [rs EXCEPT ![r].pc = "installed", ![r].installed = TRUE]
          /\ stage' = [stage EXCEPT ![r].arts = None]
          /\ arts' = bundle[rs[r].bundle]
      BY <1>4, <1>c, <2>2, <2>5 DEF InstallArtifacts
    <3>1. /\ rs'[r].pc = "installed" /\ rs'[r].installed
          /\ rs'[r].bundle = rs[r].bundle
          /\ arts' = bundle[rs[r].bundle] /\ stage'[r].db = rs[r].bundle
      BY <1>c, <2>2, <3>a, RunningRestore DEF TypeOK, Process, Staged
    <3>2. OwnStage(r)' BY <1>a, <3>1 DEF OwnStage, Before
    <3>3. db = None BY <1>b, <2>5 DEF Finished
    <3>4. \A q \in Restorers : rs[q].pc # "installed"
      BY <1>b, <2>5 DEF OwnStage, Finished
    <3> QED BY <1>d, <2>1, <2>4, <3>1, <3>2, <3>3, <3>4 DEF Recovering, Owning
  <2>6. CASE arts # None
    <3>1. Goto(r, "failing") /\ UNCHANGED <<arts, stage>>
      <4>1. arts # {}
        <5>1. \/ replaced' = (replaced \/ arts = {})
              \/ arts \notin {None, {}} \/ stage[r].arts = None
          BY <1>4 DEF InstallArtifacts
        <5>2. stage[r].arts # None BY <1>c, <2>2
        <5> QED BY <5>1, <5>2, Zenon
      <4> QED BY <1>4, <2>6, <4>1 DEF InstallArtifacts
    <3>2. rs'[r].pc = "failing" /\ ~rs'[r].installed BY <2>2, <3>1, Moved
    <3>3. OwnStage(r)' BY <3>2 DEF OwnStage, Before
    <3> QED BY <1>b, <1>d, <2>1, <2>4, <3>1, <3>2, <3>3 DEF Recovering, Owning
  <2> QED BY <2>5, <2>6
<1>5. CASE InstallDatabase(r)
  <2>1. rs[r].pc = "installed" /\ UNCHANGED <<arts, marker>>
    BY <1>5 DEF InstallDatabase
  <2>2. stage[r].db = rs[r].bundle /\ arts = bundle[rs[r].bundle]
    BY <1>b, <2>1 DEF OwnStage
  <2>3. /\ Goto(r, "complete") /\ db' = rs[r].bundle
        /\ \A q \in Restorers : q # r => stage'[q] = stage[q]
    BY <1>5, <1>c, <2>2, RestoreAssumption DEF InstallDatabase, TypeOK
  <2>4. /\ rs'[r].pc = "complete" /\ db' # None
        /\ \A q \in Restorers : q # r => rs'[q] = rs[q]
    BY <1>c, <2>3, Moved, RestoreAssumption
  <2>5. OwnStage(r)' BY <2>4 DEF OwnStage, Before
  <2> QED BY <1>c, <1>d, <2>1, <2>2, <2>3, <2>4, <2>5 DEF Recovering, Owning
<1>6. CASE Unmark(r)
  <2>1. rs[r].pc = "complete" /\ UNCHANGED <<db, arts>> BY <1>6 DEF Unmark
  <2>2. db # None BY <1>b, <2>1 DEF OwnStage
  <2>3. /\ rs'[r].pc \in {"idle", "failing"} /\ marker' = NoMarker
        /\ \A q \in Restorers : q # r => rs'[q] = rs[q] /\ stage'[q] = stage[q]
    BY <1>6, Moved, Ended DEF Unmark, TypeOK
  <2>4. OwnStage(r)' BY <2>3 DEF OwnStage, Before
  <2> QED BY <1>b, <1>d, <2>1, <2>2, <2>3, <2>4 DEF Recovering
<1>7. CASE RollBack(r)
  <2>1. /\ rs[r].pc = "failing" /\ UNCHANGED <<db, arts, marker, stage>>
    BY <1>7 DEF RollBack
  <2>2. rs[r].installed => db # None BY <1>b, <2>1
  <2>3. Goto(r, "unmarking") BY <1>7, <2>2 DEF RollBack
  <2>4. /\ rs'[r].pc = "unmarking" /\ rs'[r].installed = rs[r].installed
        /\ \A q \in Restorers : q # r => rs'[q] = rs[q] /\ stage'[q] = stage[q]
    BY <2>1, <2>3, Moved
  <2>5. OwnStage(r)' BY <2>4 DEF OwnStage, Before
  <2> QED BY <1>b, <1>d, <2>1, <2>2, <2>4, <2>5 DEF Recovering, Owning
<1>8. CASE RolledBack(r) BY <1>8, <1>b DEF RolledBack
<1>9. CASE UnmarkFailed(r)
  <2>1. UNCHANGED <<db, arts>> /\ marker' = NoMarker BY <1>9 DEF UnmarkFailed
  <2>a. /\ rs' = [rs EXCEPT ![r] = Idle]
        /\ stage' = [stage EXCEPT ![r] = NoStage]
    BY <1>9 DEF UnmarkFailed
  <2>2. /\ rs'[r].pc = "idle"
        /\ \A q \in Restorers : q # r => rs'[q] = rs[q] /\ stage'[q] = stage[q]
    BY <2>a, Ended DEF TypeOK
  <2>3. OwnStage(r)' BY <2>2 DEF OwnStage, Before
  <2> QED BY <1>b, <1>d, <2>1, <2>2, <2>3 DEF Recovering
<1>10. CASE ResumeArtifacts(r) \/ ResumeDatabase(r) \/ ResumeUnmark(r)
  BY <1>10, <1>b DEF ResumeArtifacts, ResumeDatabase, ResumeUnmark, Recovering
<1> QED
  BY <1>1, <1>2, <1>3, <1>4, <1>5, <1>6, <1>7, <1>8, <1>9, <1>10 DEF Step

(* A restore that starts among others has not installed anything; a marker it
   finds belongs to one that still runs, so that resuming it is joining it. *)
LEMMA CleanStart ==
    ASSUME TypeOK, CleanInv, NEW r \in Restorers, NEW b \in Bundles,
           Begin(r, b) \/ Resume(r, b)
    PROVE  CleanInv'
<1> SUFFICES ASSUME faults' = 0, ~joined', ~replaced', ~intruded' PROVE CleanInv'
  BY DEF CleanInv
<1>1. CASE Begin(r, b)
  <2>1. rs[r].pc = "idle" /\ rs'[r].pc = "staging" /\ ~rs'[r].installed
    BY <1>1 DEF Begin, TypeOK
  <2>2. \A q \in Restorers : q # r => rs'[q] = rs[q] /\ stage'[q] = stage[q]
    BY <1>1 DEF Begin, TypeOK
  <2>3. UNCHANGED <<db, arts, marker, bundle, faults, joined, replaced, intruded>>
    BY <1>1 DEF Begin, target, source
  <2> QED
    BY <1>1, <2>1, <2>2, <2>3
    DEF Begin, CleanInv, OwnStage, Before, Owning, Recovering, NoMarker
<1>2. CASE Resume(r, b)
  <2>1. joined' = (joined \/ Live # {}) /\ UNCHANGED <<faults, replaced, intruded>>
    BY <1>2 DEF Resume
  <2>2. ~joined /\ Live = {} BY <2>1, Zenon
  <2>3. marker # NoMarker
    BY <1>2 DEF Resume, Resumable, Authentic, NoMarker
  <2>4. \E q \in Restorers : rs[q].pc \in Owning BY <2>1, <2>2, <2>3 DEF CleanInv
  <2> QED BY <2>2, <2>4 DEF Live, Owning
<1> QED BY <1>1, <1>2

(* The inductive invariant is inductive. *)
LEMMA RestoreStep ==
    ASSUME RestoreInv, [Next]_vars
    PROVE  RestoreInv'
<1> USE DEF RestoreInv
<1>1. TypeOK' BY TypeStep
<1>2. FilesFirst' BY FilesFirstStep
<1>b. /\ Finished'
      /\ \A b \in Bundles : bundle[b] # None => bundle'[b] = bundle[b]
  BY FinishedStep
<1> SUFFICES AloneInv' /\ CleanInv' BY <1>1, <1>2, <1>b
<1>3. ASSUME UNCHANGED <<restoring, ghosts>>, faults' = faults \/ faults' # 0
      PROVE  AloneInv' /\ CleanInv'
  <2> USE DEF restoring, target, ghosts
  <2>1. \A r \in Restorers : rs[r].pc # "idle" =>
          bundle'[rs[r].bundle] = bundle[rs[r].bundle]
    BY <1>b, <1>3, RunningRestore DEF Finished
  <2>2. db \in Bundles => bundle'[db] = bundle[db] BY <1>b DEF Finished
  <2>3. \A r \in Restorers : OwnStage(r) => OwnStage(r)'
    BY <1>3, <2>1 DEF OwnStage, Before
  <2>4. \A r \in Restorers : InPlace(r) => InPlace(r)'
    BY <1>3, <2>1, <2>3 DEF InPlace, Before, Candidate, NoMarker
  <2>5. AloneInv' BY <1>3, <2>2, <2>4 DEF AloneInv, Live, NoMarker
  <2>6. CleanInv' BY <1>3, <2>2, <2>3 DEF CleanInv, NoMarker
  <2> QED BY <2>5, <2>6
<1>4. ASSUME NEW d \in Digests, WriteArtifact(d) \/ RegisterArtifact(d)
      PROVE  AloneInv' /\ CleanInv'
  BY <1>3, <1>4 DEF WriteArtifact, RegisterArtifact
<1>5. ASSUME NEW b \in Bundles, NEW part, Snapshot(b) \/ Damage(b, part)
      PROVE  AloneInv' /\ CleanInv'
  BY <1>3, <1>5 DEF Snapshot, Damage, TypeOK
<1>6. CASE Publish \/ BackupFails
  BY <1>3, <1>6 DEF Publish, BackupFails, TypeOK
<1>7. ASSUME NEW r \in Restorers, NEW b \in Bundles, Begin(r, b) \/ Resume(r, b)
      PROVE  AloneInv' /\ CleanInv'
  BY <1>7, AloneStart, CleanStart
<1>8. ASSUME NEW r \in Restorers, Step(r)
      PROVE  AloneInv' /\ CleanInv'
  <2>1. r \in Live
    BY <1>8 DEF Live, Step, Stage, CreateMarker, WriteMarker, InstallArtifacts,
                InstallDatabase, Unmark, RollBack, RolledBack, UnmarkFailed,
                ResumeArtifacts, ResumeDatabase, ResumeUnmark
  <2> QED BY <1>1, <1>8, <2>1, AloneStep, CleanStep
<1>9. ASSUME NEW r \in Restorers,
             Raise(r) \/ RollBackRaise(r) \/ ResumeRaise(r) \/ Crash(r)
      PROVE  AloneInv' /\ CleanInv'
  <2>1. r \in Live BY <1>9 DEF Live, Raise, RollBackRaise, ResumeRaise, Crash
  <2>2. AloneInv' BY <1>1, <1>9, <2>1, AloneStep
  <2>3. faults' = faults + 1 /\ faults \in Nat
    BY <1>9 DEF Raise, RollBackRaise, ResumeRaise, Crash, TypeOK
  <2> QED BY <2>2, <2>3 DEF CleanInv
<1>10. CASE ServiceStart BY <1>10 DEF ServiceStart, AloneInv, CleanInv
<1>11. CASE UNCHANGED vars BY <1>3, <1>11 DEF vars
<1> QED
  BY <1>4, <1>5, <1>6, <1>7, <1>8, <1>9, <1>10, <1>11 DEF Next

(* Nothing is in place and nobody runs at the start. *)
LEMMA RestoreStart == Init => RestoreInv
<1> SUFFICES ASSUME Init PROVE RestoreInv OBVIOUS
<1>1. TypeOK BY DEF Init, TypeOK, NoStage, Staged
<1>7. Finished BY RestoreAssumption DEF Init, Finished, NoStage, Idle
<1>2. FilesFirst BY DEF Init, FilesFirst, SnapshotReadable
<1>3. \A r \in Restorers : rs[r].pc = "idle" /\ ~rs[r].installed
  BY DEF Init, Idle
<1>4. Live = {} BY <1>3 DEF Live
<1>5. AloneInv BY <1>3, <1>4, IdleInPlace DEF Init, AloneInv
<1>6. CleanInv
  BY <1>3 DEF Init, CleanInv, OwnStage, Before, Recovering
<1> QED BY <1>1, <1>2, <1>5, <1>6, <1>7 DEF RestoreInv

(* The inductive invariant always holds. *)
THEOREM RestoreAlways == Spec => []RestoreInv
BY RestoreStart, RestoreStep, PTL DEF Spec

(* A backup that works from a snapshot finds every artifact the snapshot names:
   the service puts the file in place before it commits the row. *)
THEOREM SnapshotsReadable == Spec => []SnapshotReadable
<1>1. RestoreInv => SnapshotReadable BY DEF RestoreInv, FilesFirst
<1> QED BY <1>1, RestoreAlways, PTL

(* Restores one at a time, whatever raises or crashes and wherever: a target at
   rest without a marker is whole or without a database, and without a tree
   too, unless the removal of the tree met an error. *)
THEOREM RestoreAtomic == Spec => []AllOrNothing
<1>1. RestoreInv => AllOrNothing
  BY DEF RestoreInv, AloneInv, AllOrNothing, Whole
<1> QED BY <1>1, RestoreAlways, PTL

(* A database in place has the tree of its own bundle: with any faults when one
   restore runs at a time, and with any number of overlapping restores when
   nothing fails, none of them resumes another and none puts its tree over the
   empty one of a bundle without artifacts. *)
THEOREM BundlesNeverMixed == Spec => []NeverMixed
<1>1. RestoreInv => NeverMixed
  BY DEF RestoreInv, AloneInv, CleanInv, NeverMixed
<1> QED BY <1>1, RestoreAlways, PTL
=============================================================================
