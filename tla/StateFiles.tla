----------------------------- MODULE StateFiles -----------------------------
(***************************************************************************)
(* The two files of one agent (or community): state.py's split of an       *)
(* object into a state file, whose secrets are masked, and a secrets file, *)
(* each written by atomic.write_secure under the community's flock, and    *)
(* read by anyone without it.  Processes are runs of the program: they     *)
(* load, change what they loaded, save, delete or only read, and may stop  *)
(* at any step.                                                            *)
(*                                                                         *)
(* An object is known by the changes it holds (one per process that made   *)
(* one) and by the secrets it has besides the key every object has.        *)
(***************************************************************************)
EXTENDS FiniteSets

CONSTANTS
  Process,
  Kind,        \* what each process does: "create", "update", "delete", "read"
  Secret,      \* names of optional secrets (env entries, an MCP server's)
  Mcp,         \* those of an MCP server, whose other fields the state file has
  Adds, Drops, \* the optional secrets a process's change adds and removes
  MayTear,     \* whether os.write may write less than it was given
  MayLosePower,
  None, Torn   \* no file; a file that is not JSON

Kinds == {"create", "update", "delete", "read"}

ASSUME FilesAssumption ==
  /\ Kind \in [Process -> Kinds]
  /\ Adds \in [Process -> SUBSET Secret] /\ Drops \in [Process -> SUBSET Secret]
  /\ Mcp \subseteq Secret
  /\ MayTear \in BOOLEAN /\ MayLosePower \in BOOLEAN
  /\ None # Torn /\ None \notin Process

Part == [changes : SUBSET Process, secrets : SUBSET Secret]
ASSUME ContentAssumption == None \notin Part /\ Torn \notin Part

File == {"secret", "state"}

VARIABLES
  disk,        \* what each file holds
  durable,     \* what it holds after a power loss, if its directory's last
               \* change is lost
  lock,        \* the process that holds the community's lock
  pc,          \* where each process is: <<step>> or <<step, file>>
  pub, sec,    \* the state part and the secrets part each process has in hand
  dir,         \* each file's own directory: missing, made but not known to its
               \* parent on the disk, or there
  interrupted, \* history: a change stopped half-way, or power was lost
  undone       \* history: what a power loss can have undone besides: a delete
               \* that had begun, the making of the secrets' directory

vars == <<disk, durable, lock, pc, pub, sec, dir, interrupted, undone>>

Stage(p) == pc[p][1]
Ended == {"done", "absent", "failed", "stopped"}
Writing == {"write", "rename", "sync", "unlink"}

-----------------------------------------------------------------------------
Init ==
  /\ \/ /\ disk = [f \in File |-> None]
        /\ dir \in [File -> {"missing", "there"}]
     \/ /\ \E s \in SUBSET Secret : disk = [f \in File |-> [changes |-> {}, secrets |-> s]]
        /\ dir = [f \in File |-> "there"]
  /\ durable = disk
  /\ lock = None
  /\ pc = [p \in Process |-> <<"start">>]
  /\ pub = [p \in Process |-> None]
  /\ sec = [p \in Process |-> None]
  /\ interrupted = FALSE /\ undone = {}

Goto(p, where) == pc' = [pc EXCEPT ![p] = where]

\* The object a process saves: what it loaded, or nothing, and its change.
Changed(p, part) ==
  [changes |-> part.changes \cup {p}, secrets |-> (part.secrets \ Drops[p]) \cup Adds[p]]
Fresh == [changes |-> {}, secrets |-> {}]

\* glob("*.json"), or path.exists().
Find(p) ==
  /\ pc[p] = <<"start">> /\ Kind[p] # "delete"
  /\ IF disk["state"] # None
       THEN Goto(p, <<"found">>) /\ UNCHANGED <<pub, sec>>
       ELSE IF Kind[p] = "create"
         THEN /\ Goto(p, <<"loaded">>)
              /\ pub' = [pub EXCEPT ![p] = Changed(p, Fresh)]
              /\ sec' = [sec EXCEPT ![p] = Changed(p, Fresh)]
         ELSE Goto(p, <<"absent">>) /\ UNCHANGED <<pub, sec>>
  /\ UNCHANGED <<disk, durable, lock, dir, interrupted, undone>>

\* _read_merged: the state file first, then the secrets file.
ReadState(p) ==
  /\ pc[p] = <<"found">>
  /\ IF disk["state"] \in {None, Torn}
       THEN Goto(p, <<"failed">>) /\ UNCHANGED pub
       ELSE Goto(p, <<"half">>) /\ pub' = [pub EXCEPT ![p] = disk["state"]]
  /\ UNCHANGED <<disk, durable, lock, sec, dir, interrupted, undone>>

\* No mask is left over once the secrets are merged in.
Covers(state, secret) == state.secrets \subseteq secret.secrets

\* The merged object is valid: merging an MCP server's secrets into a state
\* without one leaves a server without name and command.
Validates(state, secret) == (secret.secrets \ state.secrets) \cap Mcp = {}

\* A new agent whose id is taken gets another id: it leaves this pair alone.
\* The merged object has every secret of the secrets file.
Take(p) ==
  IF Kind[p] = "update"
    THEN /\ Goto(p, <<"loaded">>)
         /\ sec' = [sec EXCEPT ![p] = Changed(p, disk["secret"])]
         /\ pub' = [pub EXCEPT ![p] =
                      Changed(p, [@ EXCEPT !.secrets = disk["secret"].secrets])]
    ELSE /\ Goto(p, <<"done">>)
         /\ sec' = [sec EXCEPT ![p] = disk["secret"]]
         /\ UNCHANGED pub

ReadSecret(p) ==
  /\ pc[p] = <<"half">>
  /\ IF \/ disk["secret"] \in {None, Torn}
        \/ ~Covers(pub[p], disk["secret"]) \/ ~Validates(pub[p], disk["secret"])
       THEN Goto(p, <<"failed">>) /\ UNCHANGED <<pub, sec>>
       ELSE Take(p)
  /\ UNCHANGED <<disk, durable, lock, dir, interrupted, undone>>

-----------------------------------------------------------------------------
(* Writing. *)

FirstFileSwapped == "state"       \* bug: the state file is written first
FirstFile == "secret"             \* of a save: the secrets file
OtherFile(f) == IF f = "secret" THEN "state" ELSE "secret"

FirstUnlinkedSwapped == "secret"  \* bug: the secrets file goes first
FirstUnlinked == "state"

LockIgnored(p) == lock' = p       \* bug: no lock is waited for
Acquire(p) == lock = None /\ lock' = p

ReleaseNot == UNCHANGED lock      \* bug: the lock outlives the change
Release == lock' = None

Lock(p) ==
  /\ \/ pc[p] = <<"loaded">> /\ Goto(p, <<"write", FirstFile>>)
     \/ /\ pc[p] = <<"start">> /\ Kind[p] = "delete"
        /\ Goto(p, <<"unlink", FirstUnlinked>>)
  /\ Acquire(p)
  /\ UNCHANGED <<disk, durable, pub, sec, dir, interrupted, undone>>

\* What _ensure_dir_mode makes: neither it nor anybody else syncs the directory
\* that the new one is entered in.  (A new state directory, made for the lock,
\* goes with both.)
MakeDir(f) == dir' = [dir EXCEPT ![f] = IF @ = "missing" THEN "made" ELSE @]

\* The missing directories; mkstemp, os.write, fchmod, fsync of the temporary
\* file.  os.write's count is not looked at.
WriteTmp(p) ==
  /\ Stage(p) = "write"
  /\ Goto(p, <<"rename", pc[p][2]>>)
  /\ MakeDir(pc[p][2])
  /\ \/ UNCHANGED <<pub, sec>>
     \/ /\ MayTear
        /\ IF pc[p][2] = "secret"
             THEN sec' = [sec EXCEPT ![p] = Torn] /\ UNCHANGED pub
             ELSE pub' = [pub EXCEPT ![p] = Torn] /\ UNCHANGED sec
  /\ UNCHANGED <<disk, durable, lock, interrupted, undone>>

Rename(p) ==
  /\ Stage(p) = "rename"
  /\ LET f == pc[p][2] IN
     /\ disk' = [disk EXCEPT ![f] = IF f = "secret" THEN sec[p] ELSE pub[p]]
     /\ Goto(p, <<"sync", f>>)
  /\ UNCHANGED <<durable, lock, pub, sec, dir, interrupted, undone>>

NotSynced(f) == UNCHANGED durable       \* bug: the directory is not synced
Synced(f) == durable' = [durable EXCEPT ![f] = disk[f]]

\* fsync of the directory; after the second file the lock is released.
SyncDir(p) ==
  /\ Stage(p) = "sync"
  /\ LET f == pc[p][2] IN
     /\ Synced(f)
     /\ IF f = FirstFile
          THEN Goto(p, <<"write", OtherFile(f)>>) /\ UNCHANGED lock
          ELSE Goto(p, <<"done">>) /\ Release
  /\ UNCHANGED <<disk, pub, sec, dir, interrupted, undone>>

\* delete_agent: two unlinks, no directory synced.
Unlink(p) ==
  /\ Stage(p) = "unlink"
  /\ LET f == pc[p][2] IN
     /\ disk' = [disk EXCEPT ![f] = None]
     /\ IF f = FirstUnlinked
          THEN Goto(p, <<"unlink", OtherFile(f)>>) /\ UNCHANGED lock
          ELSE Goto(p, <<"done">>) /\ Release
  /\ UNCHANGED <<durable, pub, sec, dir, interrupted, undone>>

\* A system call fails or the process is killed: the lock goes with it and a
\* temporary file is not anybody's to read.
Stop(p) ==
  /\ Stage(p) \notin Ended \cup {"start"}
  /\ Goto(p, <<"stopped">>)
  /\ lock' = IF lock = p THEN None ELSE lock
  /\ interrupted' = (interrupted \/ Stage(p) \in Writing)
  /\ UNCHANGED <<disk, durable, pub, sec, dir, undone>>

DeleteBegun == \E d \in Process : Kind[d] = "delete" /\ Stage(d) # "start"

\* Each directory keeps or loses what was not synced, and one that was made is
\* kept or lost with its file; every process is gone.
PowerLoss ==
  /\ MayLosePower /\ ~interrupted
  /\ interrupted' = TRUE
  /\ \E lost \in SUBSET {f \in File : dir[f] = "made"} :
       /\ undone' = (IF DeleteBegun THEN {"delete"} ELSE {})
                      \cup (IF "secret" \in lost THEN {"directory"} ELSE {})
       /\ dir' = [f \in File |-> IF f \in lost THEN "missing"
                                  ELSE IF dir[f] = "made" THEN "there" ELSE dir[f]]
       /\ disk' \in {d \in [File -> Part \cup {None, Torn}] :
                       \A f \in File : d[f] \in IF f \in lost THEN {None}
                                                  ELSE {disk[f], durable[f]}}
  /\ durable' = disk'
  /\ lock' = None
  /\ pc' = [p \in Process |-> IF Stage(p) \in Ended \cup {"start"} THEN pc[p] ELSE <<"stopped">>]
  /\ UNCHANGED <<pub, sec>>

Work(p) ==
  \/ Find(p) \/ ReadState(p) \/ ReadSecret(p) \/ Lock(p)
  \/ WriteTmp(p) \/ Rename(p) \/ SyncDir(p) \/ Unlink(p)

Next == PowerLoss \/ \E p \in Process : Work(p) \/ Stop(p)

\* Processes run; each takes the lock once, so whoever waits for it gets it.
Spec == Init /\ [][Next]_vars /\ \A p \in Process : WF_vars(Work(p))
-----------------------------------------------------------------------------
(* Properties. *)

Content == Part \cup {None, Torn}
Steps ==
  {<<s>> : s \in {"start", "found", "half", "loaded"} \cup Ended}
  \cup {<<s, f>> : s \in Writing, f \in File}

TypeOK ==
  /\ disk \in [File -> Content] /\ durable \in [File -> Content]
  /\ lock \in Process \cup {None}
  /\ pc \in [Process -> Steps]
  /\ pub \in [Process -> Content] /\ sec \in [Process -> Content]
  /\ dir \in [File -> {"missing", "made", "there"}]
  /\ interrupted \in BOOLEAN /\ undone \subseteq {"delete", "directory"}

\* Only the holder of the lock is between its first and its last change of the
\* files (state.py:173, 195, 215).
WritersHoldLock == \A p \in Process : Stage(p) \in Writing => lock = p

Saved(p) ==
  /\ pc[p] = <<"done">> /\ Kind[p] \in {"create", "update"}
  /\ disk["state"] = pub[p] /\ disk["secret"] = sec[p]

\* Saves do not mix: while nobody holds the lock and nothing was interrupted,
\* the two files are of one finished save (torn as they may be), both as at the
\* start, or both gone.
PairIsOneSave ==
  lock = None /\ ~interrupted =>
    (\E p \in Process : Saved(p)) \/ disk["state"] = disk["secret"]

\* Whatever stops wherever, a state file has a secrets file beside it: "the
\* corrupting case" of _write_split (state.py:128-137) and of delete_agent does
\* not arise.  Two power losses are the exceptions: one after a delete, which
\* syncs no directory, may bring back the one and not the other; one after a
\* first save may take the directory that was made for the secrets.
StateHasSecret == disk["state"] # None => disk["secret"] # None \/ undone # {}

\* A save never makes a load fail, an interrupted one included, as long as it
\* has every secret of the save before it (no update drops one, and no two
\* processes update at a time: each writes what it loaded without the lock): a
\* load reads the state file first and the writers write it last, so the secrets
\* it then finds are at least as new.  What can make it fail is a delete, a file
\* that was written short, an MCP server that appears between its reads, and a
\* power loss that took the new directory of the secrets.
LoadsSucceed ==
  [][\A p \in Process : Stage(p) = "failed" \/ Stage(p)' # "failed"
       \/ DeleteBegun \/ "directory" \in undone
       \/ (\E f \in File : disk[f] = Torn)
       \/ (pc[p] = <<"half">> /\ disk["secret"] \in Part /\ ~Validates(pub[p], disk["secret"]))]_vars

\* "an unlocked concurrent reader can only ever see the previous consistent
\* generation, never a new state file whose secret hasn't landed yet"
\* (state.py:137-141): until a delete begins, a load that ends well has secrets
\* of the save its state part is of, or of a later one.  (No mask tells the two
\* apart when an update replaces a value.)
SecretsAreAsNew ==
  \A p \in Process : Kind[p] = "read" /\ pc[p] = <<"done">> /\ ~DeleteBegun =>
    pub[p].changes \subseteq sec[p].changes

\* A finished save is durable: a power loss while nobody is writing changes no
\* file that is there (atomic.py:1-6, 60-64).  But a file whose directory had to
\* be made, which the directory's own parent may not know of (atomic.py:29-34),
\* can go with it.
SavesSurvivePowerLoss ==
  [][lock = None /\ ~interrupted /\ PowerLoss =>
       \A f \in File : disk[f] # None =>
         disk'[f] = disk[f] \/ (dir[f] = "made" /\ disk'[f] = None)]_vars

\* Every process that starts to work ends: nobody keeps the lock.
EveryoneEnds == \A p \in Process : Stage(p) # "start" ~> Stage(p) \in Ended

\* A save that stops half-way is "invisible and harmless" (state.py:131-137):
\* the pair can still be loaded.
InterruptedSaveIsHarmless ==
  lock = None /\ disk["state"] # None =>
    /\ disk["secret"] # None
    /\ Covers(disk["state"], disk["secret"]) /\ Validates(disk["state"], disk["secret"])
=============================================================================
