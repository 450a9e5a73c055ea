-------------------------- MODULE StateFilesProofs --------------------------
(***************************************************************************)
(* That the two files of an agent stay a pair, for any number of processes *)
(* that create, update, delete and read it, any secrets they add and drop, *)
(* short writes, stops at any step and a power loss.  The inductive        *)
(* invariant says who holds the lock, what the holder has already put on   *)
(* the disk at each of its steps, and which of it a power loss can undo.   *)
(***************************************************************************)
EXTENDS StateFiles, TLAPS

Saving == {"loaded", "write", "rename", "sync"}

\* The holder of the lock is exactly the process that is changing the files.
LockIsHeld == \A p \in Process : Stage(p) \in Writing <=> lock = p

\* Who does what: only a delete unlinks, only a create or an update saves, and
\* it has both parts in hand; a load that has read the state file has it whole.
Roles ==
  \A p \in Process :
    /\ Stage(p) = "unlink" => Kind[p] = "delete"
    /\ Stage(p) \in Saving =>
         Kind[p] \in {"create", "update"} /\ pub[p] # None /\ sec[p] # None
    /\ Stage(p) = "half" => pub[p] \in Part

\* What a save or a delete has done to the files by each of its steps.
StepsDone ==
  \A p \in Process :
    /\ pc[p] \in {<<"sync", "secret">>, <<"write", "state">>,
                  <<"rename", "state">>, <<"sync", "state">>} => disk["secret"] = sec[p]
    /\ pc[p] \in {<<"write", "state">>, <<"rename", "state">>, <<"sync", "state">>} =>
         durable["secret"] = sec[p]
    /\ pc[p] = <<"sync", "state">> => disk["state"] = pub[p]
    /\ pc[p] = <<"unlink", "secret">> => disk["state"] = None

\* A file that is there would survive a power loss, but for the one renamed last.
OnlyRenamedUnsynced ==
  ~interrupted => \A f \in File :
    disk[f] # None => durable[f] = disk[f] \/ \E p \in Process : pc[p] = <<"sync", f>>

\* Until a delete begins, whichever version of each file a power loss leaves,
\* the state file comes with a secrets file.
SecretSurvives ==
  ~interrupted /\ ~DeleteBegun => \A f \in {disk["state"], durable["state"]} :
    f # None => disk["secret"] # None /\ durable["secret"] # None

IInv ==
  /\ TypeOK /\ LockIsHeld /\ Roles /\ StepsDone /\ OnlyRenamedUnsynced /\ SecretSurvives
  /\ StateHasSecret /\ PairIsOneSave

-----------------------------------------------------------------------------
\* A step is its name alone, or the name of a write, rename, sync or unlink and
\* its file; its name is its first component.
LEMMA StepNames ==
  ASSUME TypeOK, NEW p \in Process
  PROVE  /\ Stage(p) \in {"start", "found", "half", "loaded"} \cup Ended \cup Writing
         /\ Stage(p) \in Writing => pc[p][2] \in File /\ pc[p] = <<Stage(p), pc[p][2]>>
         /\ Stage(p) \notin Writing => pc[p] = <<Stage(p)>>
BY DEF TypeOK, Steps, Stage, Writing, Ended

\* The invariant holds at the start.
LEMMA InitKeeps == Init => IInv
<1> SUFFICES ASSUME Init PROVE IInv
  OBVIOUS
<1>1. /\ disk \in [File -> Content] /\ durable = disk /\ disk["state"] = disk["secret"]
      /\ dir \in [File -> {"missing", "made", "there"}]
  <2>1. CASE disk = [f \in File |-> None] /\ dir \in [File -> {"missing", "there"}]
    BY <2>1 DEF Init, Content, File
  <2>2. ASSUME NEW s \in SUBSET Secret, disk = [f \in File |-> [changes |-> {}, secrets |-> s]],
               dir = [f \in File |-> "there"]
        PROVE  /\ disk \in [File -> Content] /\ disk["state"] = disk["secret"]
               /\ dir \in [File -> {"missing", "made", "there"}]
    BY <2>2 DEF Content, Part, File
  <2>3. QED BY <2>1, <2>2 DEF Init
<1>2. \A p \in Process : pc[p] = <<"start">> /\ Stage(p) = "start"
  BY DEF Init, Stage
<1>3. TypeOK
  <2>1. <<"start">> \in Steps /\ None \in Content
    BY DEF Steps, Content
  <2>2. QED BY <1>1, <2>1 DEF Init, TypeOK
<1>4. LockIsHeld /\ Roles /\ StepsDone
  BY <1>2, FilesAssumption DEF Init, LockIsHeld, Roles, StepsDone, Saving, Writing
<1>5. QED BY <1>1, <1>2, <1>3, <1>4
       DEF Init, IInv, OnlyRenamedUnsynced, SecretSurvives, StateHasSecret, PairIsOneSave, File


-----------------------------------------------------------------------------
(* The steps of a load touch only what the process has in hand. *)

\* What a load step changes, and where it leads.
LEMMA LoadStep ==
  ASSUME IInv, NEW p \in Process, Find(p) \/ ReadState(p) \/ ReadSecret(p)
  PROVE  /\ TypeOK'
         /\ Stage(p) \in {"start", "found", "half"}
         /\ Stage(p)' \in {"found", "half", "loaded", "absent", "failed", "done"}
         /\ Kind[p] = "delete" => Stage(p) # "start"
         /\ \A q \in Process \ {p} : Stage(q)' = Stage(q) /\ pc'[q] = pc[q]
                                     /\ pub'[q] = pub[q] /\ sec'[q] = sec[q]
         /\ UNCHANGED <<disk, durable, lock, dir, interrupted, undone>>
         /\ Stage(p)' = "half" => pub'[p] \in Part
         /\ Stage(p)' = "loaded" =>
              Kind[p] \in {"create", "update"} /\ pub'[p] # None /\ sec'[p] # None
         /\ Stage(p)' = "done" => pub'[p] = pub[p] /\ sec'[p] = disk["secret"]
<1> USE FilesAssumption, ContentAssumption
<1>1. /\ \A s \in {"start", "found", "half", "loaded"} \cup Ended : <<s>> \in Steps
      /\ \A f \in File : disk[f] \in Content
      /\ \A part \in Part : Changed(p, part) \in Part
      /\ Fresh \in Part /\ Part \subseteq Content
  BY DEF IInv, TypeOK, Steps, Content, Part, Changed, Fresh
<1>2. pc \in [Process -> Steps] /\ pub \in [Process -> Content] /\ sec \in [Process -> Content]
  BY DEF IInv, TypeOK
<1>3. CASE Find(p)
  <2>1. \/ pc' = [pc EXCEPT ![p] = <<"found">>] /\ UNCHANGED <<pub, sec>>
        \/ /\ pc' = [pc EXCEPT ![p] = <<"loaded">>] /\ Kind[p] = "create"
           /\ pub' = [pub EXCEPT ![p] = Changed(p, Fresh)]
           /\ sec' = [sec EXCEPT ![p] = Changed(p, Fresh)]
        \/ pc' = [pc EXCEPT ![p] = <<"absent">>] /\ UNCHANGED <<pub, sec>>
    BY <1>3 DEF Find, Goto
  <2>2. TypeOK'
    BY <1>1, <1>2, <1>3, <2>1 DEF Find, IInv, TypeOK, Ended, File
  <2>3. QED BY <1>1, <1>2, <1>3, <2>1, <2>2 DEF Find, Stage
<1>4. CASE ReadState(p)
  <2>1. \/ pc' = [pc EXCEPT ![p] = <<"failed">>] /\ UNCHANGED pub
        \/ /\ pc' = [pc EXCEPT ![p] = <<"half">>]
           /\ disk["state"] \in Part /\ pub' = [pub EXCEPT ![p] = disk["state"]]
    BY <1>1, <1>4 DEF ReadState, Goto, Content, File
  <2>2. TypeOK'
    BY <1>1, <1>2, <1>4, <2>1 DEF ReadState, IInv, TypeOK, Ended
  <2>3. QED BY <1>1, <1>2, <1>4, <2>1, <2>2 DEF ReadState, Stage
<1>5. CASE ReadSecret(p)
  <2>1. pub[p] \in Part
    BY <1>5 DEF ReadSecret, IInv, Roles, Stage
  <2>2. \/ pc' = [pc EXCEPT ![p] = <<"failed">>] /\ UNCHANGED <<pub, sec>>
        \/ /\ disk["secret"] \in Part /\ Covers(pub[p], disk["secret"])
           /\ Take(p)
    BY <1>1, <1>5 DEF ReadSecret, Goto, Content, File
  <2>3. CASE pc' = [pc EXCEPT ![p] = <<"failed">>] /\ UNCHANGED <<pub, sec>>
    BY <1>1, <1>2, <1>5, <2>3 DEF ReadSecret, Stage, IInv, TypeOK, Ended
  <2>4. CASE disk["secret"] \in Part /\ Covers(pub[p], disk["secret"]) /\ Take(p)
    <3>1. CASE Kind[p] = "update"
      <4>1. [pub[p] EXCEPT !.secrets = disk["secret"].secrets] \in Part
        BY <2>1, <2>4 DEF Part
      <4>2. PICK a \in Part, b \in Part :
              /\ pc' = [pc EXCEPT ![p] = <<"loaded">>]
              /\ sec' = [sec EXCEPT ![p] = a] /\ pub' = [pub EXCEPT ![p] = b]
        BY <1>1, <1>2, <2>4, <3>1, <4>1 DEF Take, Goto
      <4>3. TypeOK'
        BY <1>1, <1>2, <1>5, <4>2 DEF ReadSecret, IInv, TypeOK
      <4>4. QED BY <1>1, <1>2, <1>5, <3>1, <4>2, <4>3 DEF ReadSecret, Stage
    <3>2. CASE Kind[p] # "update"
      <4>1. /\ pc' = [pc EXCEPT ![p] = <<"done">>]
            /\ sec' = [sec EXCEPT ![p] = disk["secret"]] /\ pub' = pub
        BY <2>4, <3>2 DEF Take, Goto
      <4>2. TypeOK'
        BY <1>1, <1>2, <1>5, <4>1 DEF ReadSecret, IInv, TypeOK, Ended, File
      <4>3. QED BY <1>1, <1>2, <1>5, <2>4, <4>1, <4>2 DEF ReadSecret, Stage, Covers
    <3>3. QED BY <3>1, <3>2
  <2>5. QED BY <2>2, <2>3, <2>4
<1>6. QED BY <1>3, <1>4, <1>5

\* A load keeps the invariant.
LEMMA LoadKeeps ==
  ASSUME IInv, NEW p \in Process, Find(p) \/ ReadState(p) \/ ReadSecret(p)
  PROVE  IInv'
<1>1. /\ TypeOK'
      /\ Stage(p) \notin Writing \cup {"done"} /\ Stage(p)' \notin Writing
      /\ \A q \in Process \ {p} : Stage(q)' = Stage(q) /\ pc'[q] = pc[q]
                                  /\ pub'[q] = pub[q] /\ sec'[q] = sec[q]
      /\ UNCHANGED <<disk, durable, lock, dir, interrupted, undone>>
  BY LoadStep DEF Writing
<1>2. LockIsHeld'
  BY <1>1 DEF IInv, LockIsHeld
<1>3. Roles'
  BY <1>1, LoadStep DEF IInv, Roles, Saving
<1>4. \A q \in Process, f \in File, s \in Writing : pc'[q] = <<s, f>> <=> pc[q] = <<s, f>>
  BY <1>1 DEF Stage
<1>5. StepsDone'
  BY <1>1 DEF IInv, StepsDone, Stage, Writing
<1>6. OnlyRenamedUnsynced'
  BY <1>1, <1>4 DEF IInv, OnlyRenamedUnsynced, Writing
<1>7. SecretSurvives'
  <2>1. DeleteBegun => DeleteBegun'
    BY <1>1, LoadStep DEF DeleteBegun
  <2>2. QED BY <1>1, <2>1 DEF IInv, SecretSurvives
<1>8. StateHasSecret' /\ PairIsOneSave'
  BY <1>1 DEF IInv, StateHasSecret, PairIsOneSave, Saved, Stage
<1>10. QED BY <1>1, <1>2, <1>3, <1>5, <1>6, <1>7, <1>8 DEF IInv


-----------------------------------------------------------------------------
(* The steps of a save and of a delete: their process holds the lock. *)

\* Nobody else is changing the files, so nobody else's steps are disturbed.
LEMMA OthersAreOut ==
  ASSUME IInv, NEW p \in Process, lock = p
  PROVE  /\ Stage(p) \in Writing
         /\ \A q \in Process \ {p} : Stage(q) \notin Writing
         /\ \A q \in Process \ {p}, f \in File, s \in Writing : pc[q] # <<s, f>>
<1>1. \A q \in Process : Stage(q) \in Writing <=> lock = q
  BY DEF IInv, LockIsHeld
<1>2. \A q \in Process, f \in File, s \in Writing : pc[q] = <<s, f>> => Stage(q) = s
  BY DEF Stage
<1>3. QED BY <1>1, <1>2

\* What holds of a step that moves one process and leaves the parts others have
\* in hand alone: the parts of the invariant that are about one process.
LEMMA OneMoves ==
  ASSUME IInv, NEW p \in Process, NEW where \in Steps, Goto(p, where)
  PROVE  /\ pc' \in [Process -> Steps] /\ pc'[p] = where /\ Stage(p)' = where[1]
         /\ \A q \in Process \ {p} : pc'[q] = pc[q] /\ Stage(q)' = Stage(q)
         /\ (DeleteBegun /\ (where[1] # "start" \/ Kind[p] # "delete")) => DeleteBegun'
BY DEF Goto, Stage, DeleteBegun, IInv, TypeOK

\* Taking the lock keeps the invariant.
LEMMA LockKeeps ==
  ASSUME IInv, NEW p \in Process, Lock(p)
  PROVE  IInv'
<1> USE FilesAssumption
<1>1. \/ /\ pc[p] = <<"loaded">> /\ Stage(p) = "loaded"
         /\ Goto(p, <<"write", "secret">>)
      \/ /\ pc[p] = <<"start">> /\ Stage(p) = "start" /\ Kind[p] = "delete"
         /\ Goto(p, <<"unlink", "state">>)
  BY DEF Lock, Stage, FirstFile, FirstUnlinked
<1>2. /\ lock = None /\ lock' = p
      /\ UNCHANGED <<disk, durable, pub, sec, dir, interrupted, undone>>
  BY DEF Lock, Acquire
<1>3. <<"write", "secret">> \in Steps /\ <<"unlink", "state">> \in Steps
  BY DEF Steps, Writing, File
<1>4. /\ pc' \in [Process -> Steps]
      /\ pc'[p] \in {<<"write", "secret">>, <<"unlink", "state">>}
      /\ Stage(p)' \in {"write", "unlink"}
      /\ \A q \in Process \ {p} : pc'[q] = pc[q] /\ Stage(q)' = Stage(q)
      /\ DeleteBegun => DeleteBegun'
      /\ Stage(p)' = "unlink" => Kind[p] = "delete"
      /\ Stage(p)' = "write" => Stage(p) = "loaded"
  BY <1>1, <1>3, OneMoves
<1>5. \A q \in Process : Stage(q) \notin Writing
  BY <1>2 DEF IInv, LockIsHeld
<1>6. TypeOK'
  BY <1>2, <1>4 DEF IInv, TypeOK
<1>7. LockIsHeld'
  BY <1>2, <1>4, <1>5 DEF LockIsHeld, Writing
<1>8. Roles'
  BY <1>2, <1>4 DEF IInv, Roles, Saving
<1>9. StepsDone'
  BY <1>2, <1>4 DEF IInv, StepsDone
<1>10. OnlyRenamedUnsynced'
  <2>1. \A q \in Process, f \in File : pc[q] # <<"sync", f>>
    BY <1>5 DEF Stage, Writing
  <2>2. QED BY <1>2, <2>1 DEF IInv, OnlyRenamedUnsynced
<1>11. SecretSurvives' /\ StateHasSecret' /\ PairIsOneSave'
  BY <1>2, <1>4 DEF IInv, SecretSurvives, StateHasSecret, PairIsOneSave
<1>13. QED BY <1>6, <1>7, <1>8, <1>9, <1>10, <1>11 DEF IInv

\* Writing the temporary file keeps it, however short the file was written.
LEMMA WriteTmpKeeps ==
  ASSUME IInv, NEW p \in Process, WriteTmp(p)
  PROVE  IInv'
<1> USE FilesAssumption, ContentAssumption
<1>1. Stage(p) = "write" /\ Stage(p) \in Writing /\ lock = p
  BY DEF WriteTmp, Writing, IInv, LockIsHeld
<1>2. PICK f \in File : pc[p] = <<"write", f>> /\ Goto(p, <<"rename", f>>)
  BY <1>1, StepNames DEF WriteTmp, IInv
<1>3. /\ UNCHANGED <<disk, durable, lock, interrupted, undone>>
      /\ pub' \in {pub, [pub EXCEPT ![p] = Torn]} /\ sec' \in {sec, [sec EXCEPT ![p] = Torn]}
      /\ f = "state" => sec' = sec
  BY <1>2 DEF WriteTmp, File
<1>4. <<"rename", f>> \in Steps
  BY DEF Steps, Writing
<1>5. /\ pc' \in [Process -> Steps] /\ pc'[p] = <<"rename", f>> /\ Stage(p)' = "rename"
      /\ \A q \in Process \ {p} : pc'[q] = pc[q] /\ Stage(q)' = Stage(q)
      /\ DeleteBegun => DeleteBegun'
  BY <1>2, <1>4, OneMoves
<1>6. \A q \in Process \ {p} : pub'[q] = pub[q] /\ sec'[q] = sec[q]
  BY <1>3 DEF IInv, TypeOK
<1>7. TypeOK'
  <2>1. dir' \in [File -> {"missing", "made", "there"}]
    BY <1>2 DEF WriteTmp, MakeDir, IInv, TypeOK
  <2>2. QED BY <1>3, <1>5, <2>1 DEF IInv, TypeOK, Content
<1>8. LockIsHeld'
  BY <1>1, <1>3, <1>5 DEF IInv, LockIsHeld, Writing
<1>9. Roles'
  BY <1>1, <1>3, <1>5, <1>6 DEF IInv, TypeOK, Roles, Saving
<1>10. StepsDone'
  BY <1>1, <1>2, <1>3, <1>5, OthersAreOut DEF IInv, StepsDone, File, Writing
<1>11. OnlyRenamedUnsynced'
  <2>1. \A q \in Process, g \in File : pc[q] # <<"sync", g>>
    BY <1>1, <1>2, OthersAreOut DEF Writing
  <2>2. QED BY <1>3, <2>1 DEF IInv, OnlyRenamedUnsynced
<1>12. SecretSurvives' /\ StateHasSecret' /\ PairIsOneSave'
  BY <1>1, <1>3, <1>5 DEF IInv, SecretSurvives, StateHasSecret, PairIsOneSave
<1>14. QED BY <1>7, <1>8, <1>9, <1>10, <1>11, <1>12 DEF IInv

\* Renaming it over the file keeps it: the state file only after the secrets.
LEMMA RenameKeeps ==
  ASSUME IInv, NEW p \in Process, Rename(p)
  PROVE  IInv'
<1> USE FilesAssumption, ContentAssumption
<1>1. Stage(p) = "rename" /\ Stage(p) \in Writing /\ lock = p
  BY DEF Rename, Writing, IInv, LockIsHeld
<1>2. PICK f \in File :
        /\ pc[p] = <<"rename", f>> /\ Goto(p, <<"sync", f>>)
        /\ disk' = [disk EXCEPT ![f] = IF f = "secret" THEN sec[p] ELSE pub[p]]
  BY <1>1, StepNames DEF Rename, IInv
<1>3. UNCHANGED <<durable, lock, pub, sec, dir, interrupted, undone>>
  BY DEF Rename
<1>4. <<"sync", f>> \in Steps
  BY DEF Steps, Writing
<1>5. /\ pc' \in [Process -> Steps] /\ pc'[p] = <<"sync", f>> /\ Stage(p)' = "sync"
      /\ \A q \in Process \ {p} : pc'[q] = pc[q] /\ Stage(q)' = Stage(q)
      /\ DeleteBegun => DeleteBegun'
  BY <1>2, <1>4, OneMoves
<1>6. pub[p] \in Content \ {None} /\ sec[p] \in Content \ {None} /\ Kind[p] # "read"
  BY <1>1 DEF IInv, TypeOK, Roles, Saving
<1>7. /\ disk' \in [File -> Content] /\ \A g \in File \ {f} : disk'[g] = disk[g]
      /\ f = "secret" => disk'["secret"] = sec[p]
      /\ f = "state" => /\ disk'["state"] = pub[p]
                        /\ disk'["secret"] = sec[p] /\ durable["secret"] = sec[p]
  BY <1>2, <1>6 DEF IInv, TypeOK, File, StepsDone
<1>8. TypeOK'
  BY <1>3, <1>5, <1>7 DEF IInv, TypeOK
<1>9. LockIsHeld' /\ Roles'
  BY <1>1, <1>3, <1>5, <1>6 DEF IInv, LockIsHeld, Writing, Roles, Saving
<1>10. StepsDone'
  BY <1>1, <1>3, <1>5, <1>7, OthersAreOut DEF StepsDone, File, Writing
<1>11. OnlyRenamedUnsynced'
  <2>1. \A q \in Process, g \in File : pc[q] # <<"sync", g>>
    BY <1>1, <1>2, OthersAreOut DEF Writing
  <2>2. QED BY <1>3, <1>5, <1>7, <2>1 DEF IInv, OnlyRenamedUnsynced
<1>12. SecretSurvives' /\ StateHasSecret'
  BY <1>3, <1>5, <1>6, <1>7 DEF IInv, SecretSurvives, StateHasSecret, File
<1>13. PairIsOneSave'
  BY <1>1, <1>3 DEF PairIsOneSave
<1>15. QED BY <1>8, <1>9, <1>10, <1>11, <1>12, <1>13 DEF IInv


\* Syncing the directory keeps it; after the second file the save is whole.
LEMMA SyncDirKeeps ==
  ASSUME IInv, NEW p \in Process, SyncDir(p)
  PROVE  IInv'
<1> USE FilesAssumption, ContentAssumption
<1>1. Stage(p) = "sync" /\ Stage(p) \in Writing /\ lock = p
  BY DEF SyncDir, Writing, IInv, LockIsHeld
<1>2. /\ UNCHANGED <<disk, pub, sec, dir, interrupted, undone>>
      /\ \A q \in Process \ {p}, g \in File, s \in Writing : pc[q] # <<s, g>>
  BY <1>1, OthersAreOut DEF SyncDir
<1>3. Kind[p] \in {"create", "update"} /\ sec[p] # None /\ pub[p] # None
  BY <1>1 DEF IInv, Roles, Saving
<1>4. CASE pc[p] = <<"sync", "secret">>
  <2>1. /\ Goto(p, <<"write", "state">>) /\ lock' = lock
        /\ durable' = [durable EXCEPT !["secret"] = disk["secret"]]
    BY <1>4 DEF SyncDir, Synced, FirstFile, OtherFile
  <2>2. <<"write", "state">> \in Steps
    BY DEF Steps, Writing, File
  <2>3. /\ pc' \in [Process -> Steps] /\ pc'[p] = <<"write", "state">> /\ Stage(p)' = "write"
        /\ \A q \in Process \ {p} : pc'[q] = pc[q] /\ Stage(q)' = Stage(q)
        /\ DeleteBegun => DeleteBegun'
    BY <2>1, <2>2, OneMoves
  <2>4. /\ durable' \in [File -> Content] /\ durable'["secret"] = disk["secret"]
        /\ disk["secret"] = sec[p] /\ durable'["state"] = durable["state"]
    BY <1>4, <2>1 DEF IInv, TypeOK, File, StepsDone
  <2>5. TypeOK' /\ LockIsHeld' /\ Roles'
    BY <1>1, <1>2, <1>3, <2>1, <2>3, <2>4
       DEF IInv, TypeOK, LockIsHeld, Writing, Roles, Saving
  <2>6. StepsDone'
    BY <1>1, <1>2, <2>3, <2>4 DEF StepsDone, File, Writing
  <2>7. OnlyRenamedUnsynced'
    BY <1>1, <1>2, <1>4, <2>3, <2>4 DEF IInv, OnlyRenamedUnsynced, File, Writing
  <2>8. SecretSurvives' /\ StateHasSecret' /\ PairIsOneSave'
    BY <1>1, <1>2, <1>3, <2>1, <2>3, <2>4
       DEF IInv, SecretSurvives, StateHasSecret, PairIsOneSave
  <2>10. QED BY <2>5, <2>6, <2>7, <2>8 DEF IInv
<1>5. CASE pc[p] = <<"sync", "state">>
  <2>1. /\ Goto(p, <<"done">>) /\ lock' = None
        /\ durable' = [durable EXCEPT !["state"] = disk["state"]]
    BY <1>5 DEF SyncDir, Synced, FirstFile, Release
  <2>2. <<"done">> \in Steps
    BY DEF Steps, Ended
  <2>3. /\ pc' \in [Process -> Steps] /\ pc'[p] = <<"done">> /\ Stage(p)' = "done"
        /\ \A q \in Process \ {p} : pc'[q] = pc[q] /\ Stage(q)' = Stage(q)
        /\ DeleteBegun => DeleteBegun'
    BY <2>1, <2>2, OneMoves
  <2>4. /\ durable' \in [File -> Content] /\ durable'["state"] = disk["state"]
        /\ disk["secret"] = sec[p] /\ disk["state"] = pub[p]
        /\ durable'["secret"] = sec[p]
    BY <1>5, <2>1 DEF IInv, TypeOK, File, StepsDone
  <2>5. TypeOK' /\ LockIsHeld' /\ Roles'
    BY <1>1, <1>2, <1>3, <2>1, <2>3, <2>4, OthersAreOut
       DEF IInv, TypeOK, LockIsHeld, Writing, Roles, Saving
  <2>6. StepsDone'
    BY <1>1, <1>2, <2>3 DEF StepsDone, File, Writing
  <2>7. OnlyRenamedUnsynced'
    BY <1>2, <2>4 DEF OnlyRenamedUnsynced, File
  <2>8. SecretSurvives' /\ StateHasSecret'
    BY <1>2, <1>3, <2>3, <2>4 DEF IInv, SecretSurvives, StateHasSecret
  <2>9. Saved(p)'
    BY <1>2, <1>3, <2>3, <2>4 DEF Saved
  <2>10. PairIsOneSave'
    BY <2>9 DEF PairIsOneSave
  <2>12. QED BY <2>5, <2>6, <2>7, <2>8, <2>10 DEF IInv
<1>6. QED BY <1>1, <1>4, <1>5, StepNames DEF IInv, File

\* Removing a file keeps it: the secrets file goes last.
LEMMA UnlinkKeeps ==
  ASSUME IInv, NEW p \in Process, Unlink(p)
  PROVE  IInv'
<1> USE FilesAssumption, ContentAssumption
<1>1. Stage(p) = "unlink" /\ Stage(p) \in Writing /\ lock = p /\ Kind[p] = "delete"
  BY DEF Unlink, Writing, IInv, LockIsHeld, Roles
<1>2. /\ UNCHANGED <<durable, pub, sec, dir, interrupted, undone>>
      /\ \A q \in Process \ {p}, g \in File, s \in Writing : pc[q] # <<s, g>>
  BY <1>1, OthersAreOut DEF Unlink
<1>3. <<"unlink", "secret">> \in Steps /\ <<"done">> \in Steps
  BY DEF Steps, Writing, File, Ended
<1>4. \/ /\ pc[p] = <<"unlink", "state">> /\ lock' = lock
         /\ disk' = [disk EXCEPT !["state"] = None] /\ Goto(p, <<"unlink", "secret">>)
      \/ /\ pc[p] = <<"unlink", "secret">> /\ lock' = None /\ disk["state"] = None
         /\ disk' = [disk EXCEPT !["secret"] = None] /\ Goto(p, <<"done">>)
  BY <1>1, StepNames
     DEF IInv, StepsDone, Unlink, FirstUnlinked, OtherFile, Release, File
<1>5. /\ pc' \in [Process -> Steps] /\ Stage(p)' # "start"
      /\ pc'[p] = <<"unlink", "secret">> \/ pc'[p] = <<"done">>
      /\ \A q \in Process \ {p} : pc'[q] = pc[q] /\ Stage(q)' = Stage(q)
  BY <1>3, <1>4, OneMoves
<1>6. /\ disk' \in [File -> Content] /\ disk'["state"] = None
      /\ \A f \in File : disk'[f] # None => disk'[f] = disk[f]
      /\ pc'[p] = <<"done">> => disk'["secret"] = None /\ lock' = None
      /\ pc'[p] = <<"unlink", "secret">> => lock' = p /\ Stage(p)' = "unlink"
  BY <1>1, <1>4, <1>5 DEF IInv, TypeOK, Content, File, Stage, Goto
<1>7. TypeOK'
  BY <1>2, <1>4, <1>5, <1>6 DEF IInv, TypeOK
<1>8. LockIsHeld'
  BY <1>1, <1>5, <1>6, OthersAreOut DEF LockIsHeld, Writing, Stage
<1>9. Roles'
  BY <1>1, <1>2, <1>5 DEF IInv, Roles, Saving, Stage
<1>10. StepsDone'
  BY <1>2, <1>5, <1>6 DEF StepsDone, File, Writing
<1>11. OnlyRenamedUnsynced'
  <2>1. \A q \in Process, g \in File : pc[q] # <<"sync", g>>
    BY <1>1, <1>2 DEF Stage, Writing
  <2>2. QED BY <1>2, <1>6, <2>1 DEF IInv, OnlyRenamedUnsynced
<1>12. SecretSurvives' /\ StateHasSecret'
  BY <1>1, <1>5, <1>6 DEF SecretSurvives, StateHasSecret, DeleteBegun
<1>13. PairIsOneSave'
  BY <1>5, <1>6 DEF PairIsOneSave
<1>15. QED BY <1>7, <1>8, <1>9, <1>10, <1>11, <1>12, <1>13 DEF IInv

-----------------------------------------------------------------------------
(* What may happen at any time. *)

\* A process that stops keeps it: what it was changing counts as interrupted.
LEMMA StopKeeps ==
  ASSUME IInv, NEW p \in Process, Stop(p)
  PROVE  IInv'
<1> USE FilesAssumption
<1>1. /\ Stage(p) \notin Ended \cup {"start"} /\ Goto(p, <<"stopped">>)
      /\ lock' = (IF lock = p THEN None ELSE lock)
      /\ interrupted' = (interrupted \/ Stage(p) \in Writing)
      /\ UNCHANGED <<disk, durable, pub, sec, dir, undone>>
  BY DEF Stop
<1>2. <<"stopped">> \in Steps
  BY DEF Steps, Ended
<1>3. /\ pc' \in [Process -> Steps] /\ pc'[p] = <<"stopped">> /\ Stage(p)' = "stopped"
      /\ \A q \in Process \ {p} : pc'[q] = pc[q] /\ Stage(q)' = Stage(q)
      /\ DeleteBegun => DeleteBegun'
  BY <1>1, <1>2, OneMoves
<1>4. TypeOK'
  BY <1>1, <1>3 DEF IInv, TypeOK
<1>5. LockIsHeld'
  BY <1>1, <1>3 DEF IInv, LockIsHeld, Writing
<1>6. Roles' /\ StepsDone'
  BY <1>1, <1>3 DEF IInv, Roles, Saving, StepsDone
<1>7. ~interrupted' => ~interrupted /\ Stage(p) \notin Writing /\ lock' = lock
  BY <1>1 DEF IInv, LockIsHeld
<1>8. OnlyRenamedUnsynced'
  <2>1. Stage(p) \notin Writing => \A f \in File : pc[p] # <<"sync", f>>
    BY DEF Stage, Writing
  <2>2. QED BY <1>1, <1>3, <1>7, <2>1 DEF IInv, OnlyRenamedUnsynced
<1>9. SecretSurvives' /\ StateHasSecret'
  BY <1>1, <1>3, <1>7 DEF IInv, SecretSurvives, StateHasSecret
<1>10. PairIsOneSave'
  <2>1. pc[p] # <<"done">>
    BY <1>1 DEF Stage, Ended
  <2>2. QED BY <1>1, <1>3, <1>7, <2>1 DEF IInv, PairIsOneSave, Saved
<1>11. QED BY <1>4, <1>5, <1>6, <1>8, <1>9, <1>10 DEF IInv

\* A power loss keeps it, whichever version of each file is left.
LEMMA PowerLossKeeps ==
  ASSUME IInv, PowerLoss
  PROVE  IInv'
<1> USE FilesAssumption
<1> PICK lost \in SUBSET {f \in File : dir[f] = "made"} :
        /\ undone' = (IF DeleteBegun THEN {"delete"} ELSE {})
                       \cup (IF "secret" \in lost THEN {"directory"} ELSE {})
        /\ dir' = [f \in File |-> IF f \in lost THEN "missing"
                                   ELSE IF dir[f] = "made" THEN "there" ELSE dir[f]]
        /\ disk' \in [File -> Content]
        /\ \A f \in File : disk'[f] \in IF f \in lost THEN {None} ELSE {disk[f], durable[f]}
  BY DEF PowerLoss, Content
<1>1. /\ ~interrupted /\ interrupted' = TRUE /\ durable' = disk'
      /\ lock' = None /\ UNCHANGED <<pub, sec>>
  BY DEF PowerLoss
<1>2. /\ <<"stopped">> \in Steps /\ pc \in [Process -> Steps]
      /\ pc' = [p \in Process |->
                  IF Stage(p) \in Ended \cup {"start"} THEN pc[p] ELSE <<"stopped">>]
  BY DEF PowerLoss, IInv, TypeOK, Steps, Ended
<1>3. /\ pc' \in [Process -> Steps]
      /\ \A p \in Process : pc'[p] = pc[p] \/ pc'[p] = <<"stopped">>
      /\ \A p \in Process : Stage(p)' \in Ended \cup {"start"}
  BY <1>2 DEF Stage, Ended
<1>4. TypeOK'
  <2>1. dir' \in [File -> {"missing", "made", "there"}] /\ undone' \subseteq {"delete", "directory"}
    BY DEF IInv, TypeOK
  <2>2. QED BY <1>1, <1>3, <2>1 DEF IInv, TypeOK
<1>5. \A p \in Process : Stage(p)' \notin Writing \cup Saving \cup {"half"}
  BY <1>3 DEF Writing, Saving, Ended
<1>6. LockIsHeld' /\ Roles'
  BY <1>1, <1>5 DEF LockIsHeld, Roles, Writing
<1>7. StepsDone'
  <2>1. \A p \in Process, s \in Writing, f \in File : pc'[p] # <<s, f>>
    BY <1>5 DEF Stage
  <2>2. QED BY <2>1 DEF StepsDone, Writing, File
<1>8. OnlyRenamedUnsynced' /\ SecretSurvives' /\ PairIsOneSave'
  BY <1>1 DEF OnlyRenamedUnsynced, SecretSurvives, PairIsOneSave
<1>9. StateHasSecret'
  <2>1. CASE DeleteBegun \/ "secret" \in lost
    BY <2>1 DEF StateHasSecret
  <2>2. CASE ~DeleteBegun /\ "secret" \notin lost
    <3>1. disk'["state"] # None => disk'["state"] \in {disk["state"], durable["state"]}
      BY DEF File
    <3>2. disk'["secret"] \in {disk["secret"], durable["secret"]}
      BY <2>2 DEF File
    <3>3. QED BY <1>1, <2>2, <3>1, <3>2 DEF IInv, SecretSurvives, StateHasSecret
  <2>3. QED BY <2>1, <2>2
<1>11. QED BY <1>4, <1>6, <1>7, <1>8, <1>9 DEF IInv

\* Every step keeps the invariant.
LEMMA NextKeeps == IInv /\ [Next]_vars => IInv'
<1> SUFFICES ASSUME IInv, [Next]_vars PROVE IInv'
  OBVIOUS
<1>1. ASSUME NEW p \in Process, Work(p) PROVE IInv'
  BY <1>1, LoadKeeps, LockKeeps, WriteTmpKeeps, RenameKeeps, SyncDirKeeps, UnlinkKeeps DEF Work
<1>2. ASSUME NEW p \in Process, Stop(p) PROVE IInv'
  BY <1>2, StopKeeps
<1>3. CASE PowerLoss
  BY <1>3, PowerLossKeeps
<1>4. CASE UNCHANGED vars
  BY <1>4 DEF vars, IInv, TypeOK, LockIsHeld, Roles, StepsDone, OnlyRenamedUnsynced,
     SecretSurvives, StateHasSecret, PairIsOneSave, Saved, Stage, DeleteBegun
<1>5. QED BY <1>1, <1>2, <1>3, <1>4 DEF Next


-----------------------------------------------------------------------------
\* Whatever processes do and wherever they stop, the inductive invariant holds:
\* who is writing, how far it is and what of it is durable (state.py:124-145, 172-219,
\* atomic.py:37-64).
THEOREM InductiveInvariant == Spec => []IInv
<1>1. QED BY InitKeeps, NextKeeps, PTL DEF Spec

\* Each variable keeps its type: a file is absent, torn, or an object's part.
THEOREM TypeCorrect == Spec => []TypeOK
<1>1. IInv => TypeOK
  BY DEF IInv
<1>2. QED BY <1>1, InductiveInvariant, PTL

\* Only the holder of the community's flock changes its files, so there is one
\* at a time (state.py:173, 195, 215).
THEOREM OneWriterAtATime == Spec => []WritersHoldLock
<1>1. IInv => WritersHoldLock
  BY DEF IInv, LockIsHeld, WritersHoldLock
<1>2. QED BY <1>1, InductiveInvariant, PTL

\* A state file is never left without its secrets file, whatever stops wherever
\* (_write_split, state.py:124-145); only a power loss can leave one, after a
\* delete, which syncs no directory, or after a first save, whose new directory
\* nobody has synced (atomic.py:18-34).
THEOREM SecretsBesideState == Spec => []StateHasSecret
<1>1. IInv => StateHasSecret
  BY DEF IInv
<1>2. QED BY <1>1, InductiveInvariant, PTL

\* The two files never come from two saves while nobody is writing: the save
\* under one flock is a unit (state.py:172-200).
THEOREM SavesDoNotMix == Spec => []PairIsOneSave
<1>1. IInv => PairIsOneSave
  BY DEF IInv
<1>2. QED BY <1>1, InductiveInvariant, PTL

\* Once a save has returned, a power loss changes neither of its files
\* (atomic.py:1-6, 60-64), but for a file in a directory that was made for it
\* (atomic.py:18-34), which may be lost with its directory.
THEOREM FinishedSavesAreDurable == Spec => SavesSurvivePowerLoss
<1>1. ASSUME IInv, lock = None, ~interrupted, PowerLoss, NEW f \in File, disk[f] # None
      PROVE  disk'[f] = disk[f] \/ (dir[f] = "made" /\ disk'[f] = None)
  <2>1. \A p \in Process : pc[p] # <<"sync", f>>
    BY <1>1, FilesAssumption DEF IInv, LockIsHeld, Writing, Stage
  <2>2. durable[f] = disk[f]
    BY <1>1, <2>1 DEF IInv, OnlyRenamedUnsynced
  <2>3. QED BY <1>1, <2>2 DEF PowerLoss
<1>2. IInv /\ [Next]_vars =>
        [lock = None /\ ~interrupted /\ PowerLoss =>
           \A f \in File : disk[f] # None =>
             disk'[f] = disk[f] \/ (dir[f] = "made" /\ disk'[f] = None)]_vars
  BY <1>1
<1>3. QED BY <1>2, InductiveInvariant, PTL DEF Spec, SavesSurvivePowerLoss


-----------------------------------------------------------------------------
(* Loads and the saves they overlap.  A save writes what its process loaded    *)
(* before it took the lock, so the secrets only grow while no two processes    *)
(* create or update at a time and no update drops a secret.                    *)

OneChange ==
  /\ \A p, q \in Process : Kind[p] = Kind[q] /\ Kind[p] \in {"create", "update"} => p = q
  /\ \A p \in Process : Kind[p] = "update" => Drops[p] = {}

\* Part a declares no secret that part b, if it is whole, has no value for, and
\* b is of the save that a is of or of a later one.
Within(a, b) ==
  a \in Part /\ b \in Part => a.secrets \subseteq b.secrets /\ a.changes \subseteq b.changes

\* Which versions of a file may be read: also, while power can be lost, the one
\* a power loss would leave.
Versions(f) == {disk[f]} \cup (IF interrupted THEN {} ELSE {durable[f]})

\* Before its own state file is there, a create has found none.
CreatesAlone ==
  \A p \in Process : Kind[p] = "create" /\ Stage(p) \in Saving /\ pc[p] # <<"sync", "state">>
    => \A f \in Versions("state") : f = None

\* Until a delete begins there is a state file for everyone who has found one.
FoundStays ==
  \A p \in Process :
    (Stage(p) \in {"found", "half"} \/ (Stage(p) \in Saving /\ Kind[p] = "update"))
      => disk["state"] # None

\* A state file whose loss would go unnoticed is one that never was.
AbsentIsDurable == ~interrupted => \A f \in File : disk[f] = None => durable[f] = None

\* Each state file someone may read, and each one someone has read, is within
\* every secrets file that may be read next.
SecretsGrow ==
  \A b \in Versions("secret") :
    /\ \A a \in Versions("state") : Within(a, b)
    /\ \A p \in Process : Stage(p) = "half" => Within(pub[p], b)

\* An update that has not put its secrets on the disk has all that is there.
UpdateIsCurrent ==
  \A p \in Process :
    Kind[p] = "update" /\ pc[p] \in {<<"loaded">>, <<"write", "secret">>, <<"rename", "secret">>}
      => \A b \in Versions("secret") : b \in Part /\ Within(b, sec[p])

\* The two parts a process is about to save belong to each other.
PartsMatch ==
  \A p \in Process : Stage(p) \in Saving => Within(pub[p], sec[p])

\* What a load that ended well has in hand.
ReadsFit ==
  \A p \in Process :
    Kind[p] = "read" /\ pc[p] = <<"done">> => pub[p].changes \subseteq sec[p].changes

JParts ==
  /\ CreatesAlone /\ FoundStays /\ AbsentIsDurable /\ SecretsGrow /\ UpdateIsCurrent
  /\ PartsMatch /\ ReadsFit
JInv == ("delete" \in undone => DeleteBegun) /\ (~DeleteBegun => JParts)

\* A step that moves one process and neither a file nor the lock keeps what is
\* about the others; what is about the process that moves is left.
LEMMA MoveKeeps ==
  ASSUME IInv, JParts, NEW p \in Process,
         UNCHANGED <<disk, durable, interrupted>>,
         \A q \in Process \ {p} : pc'[q] = pc[q] /\ pub'[q] = pub[q] /\ sec'[q] = sec[q],
         Kind[p] = "create" /\ Stage(p)' \in Saving /\ pc'[p] # <<"sync", "state">>
           => \A f \in Versions("state") : f = None,
         Stage(p)' \in {"found", "half"} \/ (Stage(p)' \in Saving /\ Kind[p] = "update")
           => disk["state"] # None,
         Stage(p)' = "half" => \A b \in Versions("secret") : Within(pub'[p], b),
         Kind[p] = "update" /\ pc'[p] \in {<<"loaded">>, <<"write", "secret">>, <<"rename", "secret">>}
           => \A b \in Versions("secret") : b \in Part /\ Within(b, sec'[p]),
         Stage(p)' \in Saving => Within(pub'[p], sec'[p]),
         Kind[p] = "read" /\ pc'[p] = <<"done">> => pub'[p].changes \subseteq sec'[p].changes
  PROVE  JParts'
<1>1. \A f : Versions(f)' = Versions(f)
  BY DEF Versions
<1>2. \A q \in Process \ {p} : Stage(q)' = Stage(q)
  BY DEF Stage
<1>3. CreatesAlone' /\ FoundStays' /\ AbsentIsDurable'
  BY <1>1, <1>2 DEF JParts, CreatesAlone, FoundStays, AbsentIsDurable
<1>4. SecretsGrow'
  <2>1. \A b \in Versions("secret"), a \in Versions("state") : Within(a, b)
    BY DEF JParts, SecretsGrow
  <2>2. \A b \in Versions("secret"), q \in Process : Stage(q)' = "half" => Within(pub'[q], b)
    BY <1>2 DEF JParts, SecretsGrow
  <2>3. \A a, b : Within(a, b)' = Within(a, b)
    BY DEF Within
  <2>4. QED BY <1>1, <2>1, <2>2 DEF SecretsGrow, Within
<1>5. UpdateIsCurrent' /\ PartsMatch' /\ ReadsFit'
  BY <1>1, <1>2 DEF JParts, UpdateIsCurrent, PartsMatch, ReadsFit, Within
<1>6. QED BY <1>3, <1>4, <1>5 DEF JParts

\* A load keeps it: it finds the files as they are, and what an update loads
\* from is what a power loss would leave.
LEMMA LoadKeepsJ ==
  ASSUME OneChange, IInv, JParts, ~DeleteBegun,
         NEW p \in Process, Find(p) \/ ReadState(p) \/ ReadSecret(p)
  PROVE  JParts'
<1> USE FilesAssumption, ContentAssumption
<1>1. /\ UNCHANGED <<disk, durable, interrupted>>
      /\ Stage(p)' \in {"found", "half", "loaded", "absent", "failed", "done"}
      /\ \A q \in Process \ {p} : pc'[q] = pc[q] /\ pub'[q] = pub[q] /\ sec'[q] = sec[q]
  BY LoadStep
<1>2. /\ pc \in [Process -> Steps] /\ pub \in [Process -> Content] /\ sec \in [Process -> Content]
      /\ \A f \in File : disk[f] \in Content
  BY DEF IInv, TypeOK
<1>3. CASE Find(p)
  <2>1. CASE disk["state"] # None
    <3>1. Stage(p)' = "found"
      BY <1>2, <1>3, <2>1 DEF Find, Goto, Stage
    <3>2. QED BY <1>1, <2>1, <3>1, MoveKeeps DEF Stage, Saving
  <2>2. CASE disk["state"] = None /\ Kind[p] = "create"
    <3>1. /\ Stage(p)' = "loaded" /\ pub'[p] = sec'[p]
      BY <1>2, <1>3, <2>2 DEF Find, Goto, Stage
    <3>2. \A f \in Versions("state") : f = None
      BY <2>2 DEF Versions, JParts, AbsentIsDurable, File
    <3>3. Within(pub'[p], sec'[p])
      BY <3>1 DEF Within
    <3>4. QED BY <1>1, <2>2, <3>1, <3>2, <3>3, MoveKeeps DEF Stage
  <2>3. CASE disk["state"] = None /\ Kind[p] # "create"
    <3>1. Stage(p)' = "absent"
      BY <1>2, <1>3, <2>3 DEF Find, Goto, Stage
    <3>2. QED BY <1>1, <3>1, MoveKeeps DEF Stage, Saving
  <2>4. QED BY <2>1, <2>2, <2>3
<1>4. CASE ReadState(p)
  <2>1. \/ Stage(p)' = "failed"
        \/ Stage(p)' = "half" /\ pub'[p] = disk["state"] /\ disk["state"] # None
    BY <1>2, <1>4 DEF ReadState, Goto, Stage
  <2>2. CASE Stage(p)' = "failed"
    BY <1>1, <2>2, MoveKeeps DEF Stage, Saving
  <2>3. CASE Stage(p)' = "half" /\ pub'[p] = disk["state"] /\ disk["state"] # None
    <3>1. \A b \in Versions("secret") : Within(pub'[p], b)
      BY <2>3 DEF JParts, SecretsGrow, Versions
    <3>2. QED BY <1>1, <2>3, <3>1, MoveKeeps DEF Stage, Saving
  <2>4. QED BY <2>1, <2>2, <2>3
<1>5. CASE ReadSecret(p)
  <2>1. pub[p] \in Part /\ Stage(p) = "half" /\ disk["state"] # None
    BY <1>5 DEF ReadSecret, IInv, Roles, Stage, JParts, FoundStays
  <2>2. CASE Stage(p)' \in {"failed", "done"}
    <3>1. ASSUME Stage(p)' = "done" PROVE pub'[p].changes \subseteq sec'[p].changes
      <4>1. /\ pub'[p] = pub[p] /\ sec'[p] = disk["secret"]
            /\ disk["secret"] \in Part /\ disk["secret"] \in Versions("secret")
        BY <1>2, <1>5, <3>1, LoadStep DEF ReadSecret, Goto, Stage, Content, File, Versions
      <4>2. QED BY <2>1, <4>1 DEF JParts, SecretsGrow, Within
    <3>2. QED BY <1>1, <2>2, <3>1, MoveKeeps DEF Stage, Saving
  <2>3. CASE Stage(p)' \notin {"failed", "done"}
    <3>1. Kind[p] = "update" /\ disk["secret"] \in Part
      BY <1>2, <1>5, <2>3 DEF ReadSecret, Take, Goto, Stage, Content, File
    <3>2. [pub[p] EXCEPT !.secrets = disk["secret"].secrets] \in Part
      BY <2>1, <3>1 DEF Part
    <3>3. /\ Stage(p)' = "loaded"
          /\ sec'[p].secrets = disk["secret"].secrets \cup Adds[p]
          /\ pub'[p].secrets = disk["secret"].secrets \cup Adds[p]
          /\ sec'[p].changes = disk["secret"].changes \cup {p}
          /\ pub'[p].changes = pub[p].changes \cup {p}
      <4>1. Take(p)
        BY <1>2, <1>5, <2>3 DEF ReadSecret, Goto, Stage
      <4>2. sec'[p] = Changed(p, disk["secret"])
            /\ pub'[p] = Changed(p, [pub[p] EXCEPT !.secrets = disk["secret"].secrets])
            /\ pc'[p] = <<"loaded">>
        BY <1>2, <3>1, <4>1 DEF Take, Goto
      <4>3. QED BY <2>1, <3>1, <4>2 DEF Changed, OneChange, Stage, Part
    <3>4. \A b \in Versions("secret") : b = disk["secret"]
      <4>1. ASSUME ~interrupted PROVE durable["secret"] = disk["secret"]
        <5>1. \A q \in Process : pc[q] = <<"sync", "secret">> => q # p /\ Kind[q] \in {"create", "update"} /\ Stage(q) \in Saving /\ pc[q] # <<"sync", "state">>
          BY <2>1 DEF Stage, Saving, IInv, Roles
        <5>2. \A q \in Process : pc[q] # <<"sync", "secret">>
          BY <2>1, <3>1, <5>1 DEF OneChange, JParts, CreatesAlone, Versions
        <5>3. disk["secret"] # None
          BY <3>1
        <5>4. QED BY <4>1, <5>2, <5>3 DEF IInv, OnlyRenamedUnsynced, File
      <4>2. QED BY <4>1 DEF Versions
    <3>5. Within(pub'[p], sec'[p]) /\ Within(disk["secret"], sec'[p])
      <4>1. pub[p].changes \subseteq disk["secret"].changes
        BY <2>1, <3>1 DEF JParts, SecretsGrow, Versions, Within
      <4>2. QED BY <3>3, <4>1 DEF Within
    <3>6. QED BY <1>1, <2>1, <3>1, <3>3, <3>4, <3>5, MoveKeeps DEF Stage
  <2>4. QED BY <2>2, <2>3
<1>6. QED BY <1>3, <1>4, <1>5


\* Taking the lock and writing the temporary file keep it.
LEMMA PrepareKeepsJ ==
  ASSUME IInv, JParts, ~DeleteBegun, ~DeleteBegun', NEW p \in Process, Lock(p) \/ WriteTmp(p)
  PROVE  JParts'
<1> USE FilesAssumption, ContentAssumption
<1>1. /\ pc \in [Process -> Steps] /\ pub \in [Process -> Content] /\ sec \in [Process -> Content]
  BY DEF IInv, TypeOK
<1>2. CASE Lock(p)
  <2>1. Kind[p] = "delete" /\ Stage(p)' # "start" => DeleteBegun'
    BY DEF DeleteBegun
  <2>2. /\ pc[p] = <<"loaded">> /\ Stage(p) = "loaded"
        /\ pc' = [pc EXCEPT ![p] = <<"write", "secret">>]
        /\ UNCHANGED <<disk, durable, interrupted, pub, sec>>
    BY <1>1, <1>2, <2>1 DEF Lock, Goto, Stage, FirstFile, FirstUnlinked
  <2>3. /\ pc'[p] = <<"write", "secret">> /\ Stage(p)' = "write"
        /\ \A q \in Process \ {p} : pc'[q] = pc[q]
    BY <1>1, <2>2 DEF Stage
  <2>4. Stage(p) \in Saving /\ Stage(p)' \notin {"found", "half"}
    BY <2>2, <2>3 DEF Saving
  <2>5. Kind[p] = "create" => \A f \in Versions("state") : f = None
    BY <2>2, <2>4 DEF JParts, CreatesAlone
  <2>6. Kind[p] = "update" =>
          disk["state"] # None /\ \A b \in Versions("secret") : b \in Part /\ Within(b, sec[p])
    BY <2>2, <2>4 DEF JParts, FoundStays, UpdateIsCurrent
  <2>7. Within(pub[p], sec[p])
    BY <2>4 DEF JParts, PartsMatch
  <2>8. QED BY <2>2, <2>3, <2>4, <2>5, <2>6, <2>7, MoveKeeps
<1>3. CASE WriteTmp(p)
  <2>1. PICK f \in File : /\ pc[p] = <<"write", f>> /\ Stage(p) = "write"
                          /\ pc' = [pc EXCEPT ![p] = <<"rename", f>>]
    BY <1>3, StepNames DEF WriteTmp, IInv, Goto, Writing
  <2>2. /\ UNCHANGED <<disk, durable, interrupted>>
        /\ pub' \in {pub, [pub EXCEPT ![p] = Torn]} /\ sec' \in {sec, [sec EXCEPT ![p] = Torn]}
    BY <1>3 DEF WriteTmp
  <2>3. /\ pc'[p] = <<"rename", f>> /\ Stage(p)' = "rename"
        /\ \A q \in Process \ {p} : pc'[q] = pc[q] /\ pub'[q] = pub[q] /\ sec'[q] = sec[q]
        /\ pub'[p] \in {pub[p], Torn} /\ sec'[p] \in {sec[p], Torn}
    BY <1>1, <2>1, <2>2 DEF Stage
  <2>4. \A a : Within(a, sec[p]) => Within(a, sec'[p])
    BY <2>3 DEF Within
  <2>5. Within(pub'[p], sec'[p])
    BY <2>1, <2>3 DEF JParts, PartsMatch, Saving, Within
  <2>6. Kind[p] = "update" /\ f = "secret"
          => \A b \in Versions("secret") : b \in Part /\ Within(b, sec'[p])
    BY <2>1, <2>4 DEF JParts, UpdateIsCurrent
  <2>7. Stage(p) \in Saving /\ pc[p] # <<"sync", "state">>
    BY <2>1 DEF Saving
  <2>8. QED BY <2>1, <2>2, <2>3, <2>5, <2>6, <2>7, MoveKeeps
         DEF JParts, CreatesAlone, FoundStays
<1>4. QED BY <1>2, <1>3

\* Renaming a file keeps it: the secrets file grows, and the state file follows.
LEMMA RenameKeepsJ ==
  ASSUME OneChange, IInv, IInv', JParts, NEW p \in Process, Rename(p)
  PROVE  JParts'
<1> USE FilesAssumption, ContentAssumption
<1>1. Stage(p) = "rename" /\ Stage(p) \in Saving /\ Stage(p) \in Writing /\ lock = p
      /\ Kind[p] \in {"create", "update"} /\ pub[p] # None /\ sec[p] # None
  BY DEF Rename, Writing, Saving, IInv, LockIsHeld, Roles
<1>2. PICK f \in File :
        /\ pc[p] = <<"rename", f>> /\ pc' = [pc EXCEPT ![p] = <<"sync", f>>]
        /\ disk' = [disk EXCEPT ![f] = IF f = "secret" THEN sec[p] ELSE pub[p]]
  BY <1>1, StepNames DEF Rename, IInv, Goto
<1>3. UNCHANGED <<durable, lock, pub, sec, interrupted>>
  BY DEF Rename
<1>4. /\ pc'[p] = <<"sync", f>> /\ Stage(p)' = "sync"
      /\ \A q \in Process \ {p} : pc'[q] = pc[q] /\ Stage(q)' = Stage(q)
      /\ disk'[f] = (IF f = "secret" THEN sec[p] ELSE pub[p])
      /\ \A g \in File \ {f} : disk'[g] = disk[g]
  BY <1>2 DEF IInv, TypeOK, Stage
<1>5. Within(pub[p], sec[p])
  BY <1>1 DEF JParts, PartsMatch
<1>6. \A q \in Process \ {p} : Kind[q] = Kind[p] => Stage(q) \notin Saving
  BY <1>1 DEF OneChange, IInv, Roles
<1>7. CASE f = "secret"
  <2>1. /\ Versions("state")' = Versions("state")
        /\ Versions("secret")' \subseteq Versions("secret") \cup {sec[p]}
    BY <1>3, <1>4, <1>7 DEF Versions, File
  <2>2. CASE Kind[p] = "create"
    <3>1. \A a \in Versions("state") : a = None
      BY <1>1, <1>2, <1>7, <2>2 DEF JParts, CreatesAlone
    <3>2. disk["state"] = None
      BY <3>1 DEF Versions
    <3>3. \A q \in Process : Stage(q) \notin {"found", "half"}
                             /\ ~(Stage(q) \in Saving /\ Kind[q] = "update")
      BY <3>2 DEF JParts, FoundStays
    <3>4. CreatesAlone' /\ FoundStays'
      BY <1>4, <2>1, <2>2, <3>1, <3>3 DEF CreatesAlone, FoundStays
    <3>5. AbsentIsDurable'
      BY <1>1, <1>3, <1>4, <1>7 DEF JParts, AbsentIsDurable
    <3>6. SecretsGrow'
      BY <1>4, <2>1, <3>1, <3>3 DEF SecretsGrow, Within
    <3>7. UpdateIsCurrent'
      BY <1>4, <2>2, <3>3 DEF UpdateIsCurrent, Stage, Saving
    <3>8. PartsMatch' /\ ReadsFit'
      BY <1>1, <1>3, <1>4, <1>5 DEF JParts, PartsMatch, ReadsFit, Within, Stage
    <3>9. QED BY <3>4, <3>5, <3>6, <3>7, <3>8 DEF JParts
  <2>3. CASE Kind[p] = "update"
    <3>1. \A b \in Versions("secret") : b \in Part /\ Within(b, sec[p])
      BY <1>2, <1>7, <2>3 DEF JParts, UpdateIsCurrent
    <3>2. disk["state"] # None
      BY <1>1, <2>3 DEF JParts, FoundStays
    <3>3. CreatesAlone'
      BY <1>4, <2>1, <2>3 DEF JParts, CreatesAlone
    <3>4. FoundStays' /\ AbsentIsDurable'
      BY <1>1, <1>3, <1>4, <1>7, <3>2 DEF AbsentIsDurable, FoundStays, JParts, File
    <3>5. SecretsGrow'
      <4>1. disk["secret"] \in Versions("secret")
        BY DEF Versions
      <4>2. \A a : Within(a, disk["secret"]) => Within(a, sec[p])
        BY <3>1, <4>1 DEF Within
      <4>3. \A a \in Versions("state") : Within(a, sec[p])
        BY <4>1, <4>2 DEF JParts, SecretsGrow
      <4>4. \A q \in Process : Stage(q) = "half" => Within(pub[q], sec[p])
        BY <4>1, <4>2 DEF JParts, SecretsGrow
      <4>5. \A b \in Versions("secret")', a \in Versions("state") : Within(a, b)
        BY <2>1, <4>3 DEF JParts, SecretsGrow
      <4>6. \A b \in Versions("secret")', q \in Process : Stage(q)' = "half" => Within(pub'[q], b)
        BY <1>3, <1>4, <2>1, <4>4 DEF JParts, SecretsGrow
      <4>7. QED BY <2>1, <4>5, <4>6 DEF SecretsGrow, Within
    <3>6. UpdateIsCurrent'
      BY <1>1, <1>4, <1>6, <1>7, <2>3 DEF UpdateIsCurrent, Stage, Saving
    <3>7. PartsMatch' /\ ReadsFit'
      BY <1>1, <1>3, <1>4, <1>5 DEF JParts, PartsMatch, ReadsFit, Within, Stage
    <3>8. QED BY <3>3, <3>4, <3>5, <3>6, <3>7 DEF JParts
  <2>4. QED BY <1>1, <2>2, <2>3
<1>8. CASE f = "state"
  <2>1. disk["secret"] = sec[p] /\ durable["secret"] = sec[p]
    BY <1>2, <1>8 DEF IInv, StepsDone
  <2>2. /\ Versions("secret")' = Versions("secret")
        /\ \A b \in Versions("secret") : b = sec[p]
        /\ Versions("state")' \subseteq Versions("state") \cup {pub[p]}
    BY <1>3, <1>4, <1>8, <2>1 DEF Versions, File
  <2>3. CreatesAlone'
    <3>1. \A q \in Process : Kind[q] = "create" /\ q # p => Stage(q) \notin Saving
      <4>1. CASE Kind[p] = "create"
        BY <1>6, <4>1
      <4>2. CASE Kind[p] = "update"
        <5>1. disk["state"] # None
          BY <1>1, <4>2 DEF JParts, FoundStays
        <5>2. \A q \in Process : pc[q] = <<"sync", "state">> => Stage(q) \in Writing
          BY DEF Stage, Writing
        <5>3. \A q \in Process \ {p} : pc[q] # <<"sync", "state">>
          BY <1>1, <5>2, OthersAreOut
        <5>4. QED BY <4>2, <5>1, <5>3 DEF JParts, CreatesAlone, Versions
      <4>3. QED BY <1>1, <4>1, <4>2
    <3>2. QED BY <1>4, <1>8, <3>1 DEF CreatesAlone
  <2>4. FoundStays' /\ AbsentIsDurable'
    BY <1>1, <1>3, <1>4, <1>8 DEF FoundStays, AbsentIsDurable, JParts
  <2>5. SecretsGrow'
    <3>1. \A b \in Versions("secret"), a \in Versions("state")' : Within(a, b)
      BY <1>5, <2>2 DEF JParts, SecretsGrow
    <3>2. \A b \in Versions("secret"), q \in Process : Stage(q)' = "half" => Within(pub'[q], b)
      BY <1>3, <1>4 DEF JParts, SecretsGrow
    <3>3. QED BY <2>2, <3>1, <3>2 DEF SecretsGrow, Within
  <2>6. UpdateIsCurrent'
    BY <1>3, <1>4, <1>8, <2>2 DEF JParts, UpdateIsCurrent, Within
  <2>7. PartsMatch' /\ ReadsFit'
    BY <1>1, <1>3, <1>4, <1>5 DEF JParts, PartsMatch, ReadsFit, Within, Stage
  <2>8. QED BY <2>3, <2>4, <2>5, <2>6, <2>7 DEF JParts
<1>9. QED BY <1>7, <1>8 DEF File


\* Syncing the directory keeps it: one version of the file is left.
LEMMA SyncDirKeepsJ ==
  ASSUME IInv, JParts, NEW p \in Process, SyncDir(p)
  PROVE  JParts'
<1> USE FilesAssumption, ContentAssumption
<1>1. /\ Stage(p) = "sync" /\ Stage(p) \in Saving
      /\ UNCHANGED <<disk, pub, sec, interrupted>>
  BY DEF SyncDir, Saving
<1>2. PICK f \in File :
        /\ pc[p] = <<"sync", f>> /\ durable' = [durable EXCEPT ![f] = disk[f]]
        /\ \/ f = "secret" /\ Goto(p, <<"write", "state">>)
           \/ f = "state" /\ Goto(p, <<"done">>)
  BY <1>1, StepNames DEF SyncDir, Synced, FirstFile, OtherFile, IInv, Writing, File
<1>3. /\ pc'[p] \in {<<"write", "state">>, <<"done">>}
      /\ f = "state" => Stage(p)' = "done"
      /\ Stage(p)' \in {"write", "done"}
      /\ \A q \in Process \ {p} : pc'[q] = pc[q] /\ Stage(q)' = Stage(q)
      /\ durable'[f] = disk[f] /\ \A g \in File \ {f} : durable'[g] = durable[g]
  BY <1>2 DEF Goto, Stage, IInv, TypeOK
<1>4. \A g \in File : Versions(g)' \subseteq Versions(g)
  BY <1>1, <1>3 DEF Versions
<1>5. CreatesAlone'
  <2>1. \A g \in Versions("state")' : g \in Versions("state")
    BY <1>4 DEF File
  <2>2. Kind[p] = "create" /\ Stage(p)' \in Saving => pc[p] # <<"sync", "state">>
    BY <1>2, <1>3 DEF Saving
  <2>3. QED BY <1>1, <1>3, <2>1, <2>2 DEF JParts, CreatesAlone
<1>6. FoundStays' /\ AbsentIsDurable'
  BY <1>1, <1>3 DEF JParts, FoundStays, AbsentIsDurable, File
<1>7. SecretsGrow'
  <2>1. \A b \in Versions("secret")', a \in Versions("state")' : Within(a, b)
    BY <1>4 DEF JParts, SecretsGrow, File
  <2>2. \A b \in Versions("secret")', q \in Process : Stage(q)' = "half" => Within(pub'[q], b)
    BY <1>1, <1>3, <1>4 DEF JParts, SecretsGrow, File
  <2>3. QED BY <2>1, <2>2 DEF SecretsGrow, Within
<1>8. UpdateIsCurrent'
  BY <1>1, <1>3, <1>4 DEF JParts, UpdateIsCurrent, Within, File
<1>9. PartsMatch' /\ ReadsFit'
  <2>1. Kind[p] # "read"
    BY <1>1 DEF IInv, Roles
  <2>2. QED BY <1>1, <1>3, <2>1 DEF JParts, PartsMatch, ReadsFit, Within
<1>10. QED BY <1>5, <1>6, <1>7, <1>8, <1>9 DEF JParts

\* A process that stops, and a power loss, keep it: nobody reads a version they
\* did not leave.
LEMMA InterruptKeepsJ ==
  ASSUME IInv, JParts, ~DeleteBegun, PowerLoss \/ \E p \in Process : Stop(p)
  PROVE  JParts'
<1> USE FilesAssumption
<1>1. CASE PowerLoss
  <2>1. /\ ~interrupted /\ interrupted' = TRUE
        /\ \A f \in File : disk'[f] \in {disk[f], durable[f], None}
        /\ \A p \in Process : Stage(p)' \in Ended \cup {"start"}
        /\ \A p \in Process : pc'[p] \in {pc[p], <<"stopped">>}
        /\ durable' = disk' /\ UNCHANGED <<pub, sec>>
    <3>1. \A p \in Process : pc'[p] = IF Stage(p) \in Ended \cup {"start"}
                                        THEN pc[p] ELSE <<"stopped">>
      BY <1>1 DEF PowerLoss
    <3>2. \A f \in File : disk'[f] \in {disk[f], durable[f], None}
      BY <1>1 DEF PowerLoss
    <3>3. QED BY <1>1, <3>1, <3>2 DEF PowerLoss, Stage, Ended
  <2>2. \A f \in File : Versions(f)' \subseteq Versions(f) \cup {None}
    BY <2>1 DEF Versions
  <2>3. \A p \in Process : Stage(p)' \notin {"found", "half"} \cup Saving
    BY <2>1 DEF Saving, Ended
  <2>4. /\ CreatesAlone' /\ FoundStays' /\ AbsentIsDurable' /\ PartsMatch'
        /\ ReadsFit'
    BY <2>1, <2>3 DEF JParts, CreatesAlone, FoundStays, AbsentIsDurable, PartsMatch, ReadsFit
  <2>5. SecretsGrow'
    <3>1. \A b \in Versions("secret")', a \in Versions("state")' : Within(a, b)
      BY <2>2, ContentAssumption DEF JParts, SecretsGrow, File, Within
    <3>2. QED BY <2>3, <3>1 DEF SecretsGrow, Within
  <2>6. UpdateIsCurrent'
    BY <2>3 DEF UpdateIsCurrent, Stage, Saving
  <2>7. QED BY <2>4, <2>5, <2>6 DEF JParts
<1>2. ASSUME NEW p \in Process, Stop(p) PROVE JParts'
  <2>1. /\ UNCHANGED <<disk, durable, pub, sec>> /\ interrupted \in BOOLEAN
        /\ interrupted => interrupted' = TRUE
        /\ pc'[p] = <<"stopped">> /\ Stage(p)' = "stopped"
        /\ \A q \in Process \ {p} : pc'[q] = pc[q] /\ Stage(q)' = Stage(q)
    BY <1>2 DEF Stop, Goto, Stage, IInv, TypeOK
  <2>2. \A f \in File : Versions(f)' \subseteq Versions(f)
    BY <2>1 DEF Versions
  <2>3. CreatesAlone'
    BY <2>1, <2>2 DEF JParts, CreatesAlone, Saving, File
  <2>4. FoundStays' /\ AbsentIsDurable' /\ PartsMatch' /\ ReadsFit'
    BY <2>1 DEF JParts, FoundStays, AbsentIsDurable, PartsMatch, ReadsFit, Saving, Within
  <2>5. SecretsGrow'
    <3>1. \A b \in Versions("secret")', a \in Versions("state")' : Within(a, b)
      BY <2>2 DEF JParts, SecretsGrow, File
    <3>2. \A b \in Versions("secret")', q \in Process : Stage(q)' = "half" => Within(pub'[q], b)
      BY <2>1, <2>2 DEF JParts, SecretsGrow, File
    <3>3. QED BY <3>1, <3>2 DEF SecretsGrow, Within
  <2>6. UpdateIsCurrent'
    BY <2>1, <2>2 DEF JParts, UpdateIsCurrent, Within, File
  <2>7. QED BY <2>3, <2>4, <2>5, <2>6 DEF JParts
<1>3. QED BY <1>1, <1>2

\* A process that has started does not start again.
LEMMA StartedStays ==
  ASSUME IInv, [Next]_vars
  PROVE  \A p \in Process : Stage(p) # "start" => Stage(p)' # "start"
<1>1. CASE PowerLoss
  <2>1. \A p \in Process : pc'[p] = IF Stage(p) \in Ended \cup {"start"}
                                      THEN pc[p] ELSE <<"stopped">>
    BY <1>1 DEF PowerLoss
  <2>2. QED BY <2>1 DEF Stage
<1>2. ASSUME NEW q \in Process, Work(q) \/ Stop(q)
      PROVE  \A p \in Process : Stage(p) # "start" => Stage(p)' # "start"
  <2>1. pc \in [Process -> Steps]
    BY DEF IInv, TypeOK
  <2>2. CASE Find(q) \/ ReadState(q) \/ ReadSecret(q)
    BY <2>2, LoadStep
  <2>3. ASSUME NEW where, pc' = [pc EXCEPT ![q] = where], where[1] # "start"
        PROVE  \A p \in Process : Stage(p) # "start" => Stage(p)' # "start"
    BY <2>1, <2>3 DEF Stage
  <2>4. CASE Lock(q)
    BY <2>3, <2>4 DEF Lock, Goto
  <2>5. CASE WriteTmp(q) \/ Rename(q)
    BY <2>3, <2>5 DEF WriteTmp, Rename, Goto
  <2>6. CASE SyncDir(q) \/ Unlink(q)
    BY <2>3, <2>6 DEF SyncDir, Unlink, Goto
  <2>7. CASE Stop(q)
    BY <2>3, <2>7 DEF Stop, Goto
  <2>8. QED BY <1>2, <2>2, <2>4, <2>5, <2>6, <2>7 DEF Work
<1>3. CASE UNCHANGED vars
  BY <1>3 DEF vars, Stage
<1>4. QED BY <1>1, <1>2, <1>3 DEF Next

\* While one process creates and one updates, every step keeps it.
LEMMA NextKeepsJ ==
  ASSUME OneChange
  PROVE  IInv /\ IInv' /\ JInv /\ [Next]_vars => JInv'
<1> SUFFICES ASSUME IInv, IInv', JInv, [Next]_vars
             PROVE  ("delete" \in undone' => DeleteBegun') /\ (~DeleteBegun' => JParts')
  BY DEF JInv
<1>1. DeleteBegun => DeleteBegun'
  BY StartedStays DEF DeleteBegun
<1>2. "delete" \in undone' => DeleteBegun'
  <2>1. CASE PowerLoss
    BY <1>1, <2>1 DEF PowerLoss, DeleteBegun
  <2>2. CASE ~PowerLoss
    BY <1>1, <2>2 DEF JInv, Next, vars, Work, Find, ReadState, ReadSecret, Lock, WriteTmp, Rename,
                      SyncDir, Unlink, Stop
  <2>3. QED BY <2>1, <2>2
<1> SUFFICES ASSUME ~DeleteBegun' PROVE JParts'
  BY <1>2
<1>3. ~DeleteBegun /\ JParts
  BY <1>1 DEF JInv
<1>4. ASSUME NEW p \in Process, Work(p) PROVE JParts'
  <2>1. CASE Unlink(p)
    <3>1. Kind[p] = "delete" /\ Stage(p) # "start"
      BY <2>1 DEF Unlink, IInv, Roles
    <3>2. QED BY <1>3, <3>1 DEF DeleteBegun
  <2>2. CASE ~Unlink(p)
    BY <1>3, <1>4, <2>2, LoadKeepsJ, PrepareKeepsJ, RenameKeepsJ, SyncDirKeepsJ DEF Work
  <2>3. QED BY <2>1, <2>2
<1>5. CASE PowerLoss \/ \E p \in Process : Stop(p)
  BY <1>3, <1>5, InterruptKeepsJ
<1>6. CASE UNCHANGED vars
  BY <1>3, <1>6 DEF vars, JParts, CreatesAlone, FoundStays, AbsentIsDurable, SecretsGrow,
     UpdateIsCurrent, PartsMatch, ReadsFit, Versions, Within, Stage
<1>7. QED BY <1>4, <1>5, <1>6 DEF Next

\* It holds at the start.
LEMMA InitKeepsJ == Init => JInv
<1> SUFFICES ASSUME Init PROVE JParts
  BY DEF JInv, Init
<1>1. \A p \in Process : pc[p] = <<"start">> /\ Stage(p) = "start"
  BY DEF Init, Stage
<1>2. CreatesAlone /\ FoundStays /\ UpdateIsCurrent /\ PartsMatch /\ ReadsFit
  BY <1>1 DEF CreatesAlone, FoundStays, UpdateIsCurrent, PartsMatch, ReadsFit, Saving
<1>3. AbsentIsDurable
  BY DEF Init, AbsentIsDurable
<1>4. disk["state"] = disk["secret"] /\ durable = disk
  BY DEF Init, File
<1>5. SecretsGrow
  BY <1>1, <1>4 DEF SecretsGrow, Versions, Within
<1>6. QED BY <1>2, <1>3, <1>5 DEF JParts

\* A load is refused only after a delete has begun, when a file is torn, when
\* an MCP server appears between its two reads, or after a power loss took the
\* new directory of the secrets: neither a save it overlaps
\* nor one that stopped half-way is a reason (state.py:124-169), as long as
\* one process creates, one updates and the update drops no secret.
THEOREM LoadsFailOnlyForCause ==
  ASSUME OneChange
  PROVE  Spec => LoadsSucceed
<1> USE FilesAssumption, ContentAssumption
<1>1. ASSUME IInv, JInv, NEW p \in Process, Next, Stage(p) # "failed", Stage(p)' = "failed",
             ~DeleteBegun, "directory" \notin undone, \A f \in File : disk[f] # Torn
      PROVE  pc[p] = <<"half">> /\ disk["secret"] \in Part /\ ~Validates(pub[p], disk["secret"])
  <2>1. ReadState(p) \/ ReadSecret(p)
    <3>1. pc \in [Process -> Steps]
      BY <1>1 DEF IInv, TypeOK
    <3>2. ~PowerLoss
      <4>1. ASSUME PowerLoss PROVE pc'[p] \in {pc[p], <<"stopped">>}
        BY <4>1 DEF PowerLoss
      <4>2. QED BY <1>1, <4>1 DEF Stage
    <3>3. PICK q \in Process : Work(q) \/ Stop(q)
      BY <1>1, <3>2 DEF Next
    <3>4. ASSUME NEW where, Goto(q, where) PROVE q = p /\ where[1] = "failed"
      BY <1>1, <3>1, <3>4 DEF Goto, Stage
    <3>5. \A s \in {"found", "loaded", "absent", "done", "stopped"} : ~Goto(q, <<s>>)
      BY <3>4
    <3>6. \A s \in Writing : \A f : ~Goto(q, <<s, f>>)
      BY <3>4 DEF Writing
    <3>7. ~Find(q) /\ ~Lock(q) /\ ~WriteTmp(q) /\ ~Rename(q)
      BY <3>5, <3>6 DEF Find, Lock, WriteTmp, Rename, Writing
    <3>8. ~SyncDir(q) /\ ~Unlink(q) /\ ~Stop(q)
      BY <3>5, <3>6 DEF SyncDir, Unlink, Stop, Writing
    <3>9. (ReadState(q) => q = p) /\ (ReadSecret(q) => q = p)
      BY <3>4 DEF ReadState, ReadSecret, Take
    <3>10. QED BY <3>3, <3>7, <3>8, <3>9 DEF Work
  <2>2. JParts /\ pc \in [Process -> Steps]
    BY <1>1 DEF JInv, IInv, TypeOK
  <2>3. ~ReadState(p)
    <3>1. ASSUME ReadState(p) PROVE disk["state"] # None /\ disk["state"] # Torn
      BY <1>1, <2>2, <3>1 DEF ReadState, Stage, JParts, FoundStays, File
    <3>2. ASSUME ReadState(p) PROVE pc'[p] = <<"half">>
      BY <2>2, <3>1, <3>2 DEF ReadState, Goto
    <3>3. QED BY <1>1, <3>2 DEF Stage
  <2>4. pc[p] = <<"half">> /\ pub[p] \in Part /\ disk["state"] # None
    BY <1>1, <2>1, <2>2, <2>3 DEF ReadSecret, Stage, IInv, Roles, JParts, FoundStays
  <2>5. disk["secret"] \in Part
    <3>1. disk["secret"] # None
      <4>1. undone = {}
        BY <1>1 DEF JInv, IInv, TypeOK
      <4>2. QED BY <1>1, <2>4, <4>1 DEF IInv, StateHasSecret
    <3>2. QED BY <1>1, <3>1 DEF IInv, TypeOK, Content, File
  <2>6. Covers(pub[p], disk["secret"])
    BY <2>2, <2>4, <2>5 DEF JParts, SecretsGrow, Versions, Within, Covers, Stage
  <2>7. ~Validates(pub[p], disk["secret"])
    <3>1. ASSUME Validates(pub[p], disk["secret"]) PROVE pc'[p] \in {<<"loaded">>, <<"done">>}
      BY <1>1, <2>1, <2>2, <2>3, <2>5, <2>6, <3>1 DEF ReadSecret, Take, Goto, File
    <3>2. QED BY <1>1, <3>1 DEF Stage
  <2>8. QED BY <2>4, <2>5, <2>7
<1>2. IInv /\ JInv /\ [Next]_vars =>
        [\A p \in Process : Stage(p) = "failed" \/ Stage(p)' # "failed"
           \/ DeleteBegun \/ "directory" \in undone
           \/ (\E f \in File : disk[f] = Torn)
           \/ (pc[p] = <<"half">> /\ disk["secret"] \in Part
               /\ ~Validates(pub[p], disk["secret"]))]_vars
  BY <1>1
<1>3. QED BY <1>2, InitKeepsJ, NextKeepsJ, InductiveInvariant, PTL DEF Spec, LoadsSucceed

\* Until a delete begins, a load that ends well has secrets at least as new as
\* its state part (state.py:137-141), whatever saves it overlaps, however short
\* they were written and wherever they or the machine stop, as long as one
\* process creates and one updates at a time.
THEOREM SecretsKeepUp ==
  ASSUME OneChange
  PROVE  Spec => []SecretsAreAsNew
<1>1. JInv => SecretsAreAsNew
  BY DEF JInv, JParts, ReadsFit, SecretsAreAsNew
<1>2. QED BY <1>1, InitKeepsJ, NextKeepsJ, InductiveInvariant, PTL DEF Spec

=============================================================================
