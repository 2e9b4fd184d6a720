----------------------------- MODULE FileImport -----------------------------
(***************************************************************************)
(* Importing a system file (MCPX, BIOS or HDD image) into the app's own    *)
(* directory, MainActivity.java: the picker's result starts a thread that  *)
(* copies the source to a ".part" file, checks its length, deletes the old *)
(* file and renames the copy.  Launching is refused while an import runs.  *)
(*                                                                         *)
(* One file name is modelled; every import aims at it.  A file is its      *)
(* inode, named after the import that created it, so that a name can be    *)
(* taken from under an open descriptor.  The activity may be created anew  *)
(* while the threads of the old one go on, and the process or the device   *)
(* may stop between any two steps: what was not synced may then be lost,   *)
(* while operations on names are taken to reach the disk in order.         *)
(***************************************************************************)
EXTENDS Integers, FiniteSets

CONSTANTS Imports,          \* the imports the user starts
          Blocks,           \* the length of every source
          MaxActivities,    \* bound on the instances of MainActivity
          NoFile

ASSUME ImportAssumption ==
    /\ NoFile \notin Imports
    /\ Blocks \in Nat \ {0} /\ MaxActivities \in Nat \ {0}

VARIABLES
    out, tmp,           \* the inodes under "hdd.img" and "hdd.img.part"
    data,               \* what an inode holds: for each block, the import it came from
    synced,             \* the inodes whose data is on the medium
    pc,                 \* the import threads
    fd, copied,         \* of an import: the inode it writes, the blocks written
    sizeKnown,          \* of an import: the provider told the size of the source
    owner,              \* of an import: the activity that started it
    result,             \* of an import: what it posts to the UI thread
    posted,             \* runOnUiThread: imports whose result is queued
    activity,           \* the current instance
    importInProgress,   \* a field of each instance
    known,              \* files.containsKey, in the current instance
    core, disk,         \* the core and the inode it has open
    touching,           \* imports started during this core's life, or left by an old activity
    overlapped,         \* two imports have been running at once
    finalizeFailed      \* renameTo has failed

disks == <<out, tmp, data, synced>>
threads == <<pc, fd, copied, sizeKnown, owner, result>>
ui == <<posted, activity, importInProgress, known>>
cores == <<core, disk, touching>>
history == <<overlapped, finalizeFailed>>
vars == <<disks, threads, ui, cores, history>>

Activities == 1..MaxActivities
Block == 1..Blocks
Empty == [b \in Block |-> NoFile]
Running == {"clean", "open", "copy", "check", "replace", "rename", "leave"}
Live == {i \in Imports : pc[i] \in Running}

Init ==
    /\ out = NoFile /\ tmp = NoFile
    /\ data = [i \in Imports |-> Empty] /\ synced = {}
    /\ pc = [i \in Imports |-> "idle"]
    /\ fd = [i \in Imports |-> NoFile] /\ copied = [i \in Imports |-> 0]
    /\ sizeKnown = [i \in Imports |-> FALSE]
    /\ owner = [i \in Imports |-> 1]
    /\ result = [i \in Imports |-> "none"]
    /\ posted = {} /\ activity = 1
    /\ importInProgress = [a \in Activities |-> FALSE]
    /\ known = FALSE
    /\ core = "none" /\ disk = NoFile /\ touching = {}
    /\ overlapped = FALSE /\ finalizeFailed = FALSE

-----------------------------------------------------------------------------
(* The import                                                              *)

Goto(i, from, to) == pc[i] = from /\ pc' = [pc EXCEPT ![i] = to]

(* onActivityResult, on the UI thread.                                     *)
Pick(i, knows) ==
    /\ ~importInProgress[activity]
    /\ importInProgress' = [importInProgress EXCEPT ![activity] = TRUE]
    /\ Goto(i, "idle", "clean")
    /\ owner' = [owner EXCEPT ![i] = activity]
    /\ sizeKnown' = [sizeKnown EXCEPT ![i] = knows]
    /\ touching' = IF core = "none" THEN touching ELSE touching \cup {i}
    /\ overlapped' = (overlapped \/ Live # {})
    /\ UNCHANGED <<disks, fd, copied, result, posted, activity, known, core, disk, finalizeFailed>>

(* copyToPrivateFile and copyViaFileDescriptor end in an exception, which  *)
(* the thread posts before its finally clause.                             *)
Throws(i) ==
    /\ pc' = [pc EXCEPT ![i] = "leave"]
    /\ result' = [result EXCEPT ![i] = "failed"]
    /\ posted' = posted \cup {i}

OnlyThread(i) == UNCHANGED <<fd, copied, sizeKnown, owner, activity, importInProgress, known, cores, overlapped>>

(* Mutant: the old file is deleted before the copy is made.                *)
Clean_DropsOld(i) ==
    /\ Goto(i, "clean", "open")
    /\ tmp' = NoFile /\ out' = NoFile
    /\ OnlyThread(i) /\ UNCHANGED <<data, synced, result, posted, finalizeFailed>>

(* The .part file an earlier import left behind is deleted.                *)
Clean(i) ==
    /\ Goto(i, "clean", "open")
    /\ tmp' = NoFile
    /\ OnlyThread(i) /\ UNCHANGED <<out, data, synced, result, posted, finalizeFailed>>

(* Creating the .part file truncates one that has appeared meanwhile.      *)
Open(i) ==
    /\ Goto(i, "open", "copy")
    /\ LET n == IF tmp = NoFile THEN i ELSE tmp
       IN  /\ tmp' = n
           /\ fd' = [fd EXCEPT ![i] = n]
           /\ data' = [data EXCEPT ![n] = Empty]
           /\ synced' = synced \ {n}
    /\ UNCHANGED <<out, copied, sizeKnown, owner, result, ui, cores, history>>

CopyBlock(i) ==
    /\ pc[i] = "copy" /\ copied[i] < Blocks
    /\ copied' = [copied EXCEPT ![i] = @ + 1]
    /\ data' = [data EXCEPT ![fd[i]][copied[i] + 1] = i]
    /\ synced' = synced \ {fd[i]}
    /\ UNCHANGED <<out, tmp, pc, fd, sizeKnown, owner, result, ui, cores, history>>

(* Mutant: the copy is not synced.                                         *)
CopyEnds_NoSync(i) ==
    /\ Goto(i, "copy", "check")
    /\ OnlyThread(i) /\ UNCHANGED <<disks, result, posted, finalizeFailed>>

(* The source ends, perhaps early; the copy is synced.                     *)
CopyEnds(i) ==
    /\ Goto(i, "copy", "check")
    /\ synced' = synced \cup {fd[i]}
    /\ OnlyThread(i) /\ UNCHANGED <<out, tmp, data, result, posted, finalizeFailed>>

(* An I/O error, or no descriptor for the source: the .part file stays.    *)
CopyFails(i) ==
    /\ pc[i] \in {"clean", "open", "copy"}
    /\ Throws(i)
    /\ OnlyThread(i) /\ UNCHANGED <<disks, finalizeFailed>>

LooksComplete(i) == copied[i] > 0 /\ (sizeKnown[i] => copied[i] = Blocks)

(* The length is compared with the provider's, where it told one.          *)
Check(i) ==
    /\ pc[i] = "check"
    /\ IF LooksComplete(i)
       THEN pc' = [pc EXCEPT ![i] = "replace"] /\ UNCHANGED <<tmp, result, posted>>
       ELSE Throws(i) /\ tmp' = NoFile
    /\ OnlyThread(i) /\ UNCHANGED <<out, data, synced, finalizeFailed>>

Replace(i) ==
    /\ Goto(i, "replace", "rename")
    /\ out' = NoFile
    /\ OnlyThread(i) /\ UNCHANGED <<tmp, data, synced, result, posted, finalizeFailed>>

ReplaceFails(i) ==
    /\ pc[i] = "replace" /\ out # NoFile
    /\ Throws(i) /\ tmp' = NoFile
    /\ OnlyThread(i) /\ UNCHANGED <<out, data, synced, finalizeFailed>>

Rename(i) ==
    /\ Goto(i, "rename", "leave") /\ tmp # NoFile
    /\ out' = tmp /\ tmp' = NoFile
    /\ result' = [result EXCEPT ![i] = "ok"]
    /\ posted' = posted \cup {i}
    /\ OnlyThread(i) /\ UNCHANGED <<data, synced, finalizeFailed>>

(* renameTo returns false, always so when the .part file is gone.          *)
RenameFails(i) ==
    /\ pc[i] = "rename"
    /\ Throws(i) /\ tmp' = NoFile
    /\ finalizeFailed' = TRUE
    /\ OnlyThread(i) /\ UNCHANGED <<out, data, synced>>

(* Mutant: the flag is cleared only after a success.                       *)
Leave_OnlyIfOk(i) ==
    /\ Goto(i, "leave", "done")
    /\ importInProgress' = [importInProgress EXCEPT ![owner[i]] = (result[i] # "ok")]
    /\ UNCHANGED <<disks, fd, copied, sizeKnown, owner, result, posted, activity, known, cores, history>>

(* The finally clause, perhaps before the posted result is handled.        *)
Leave(i) ==
    /\ Goto(i, "leave", "done")
    /\ importInProgress' = [importInProgress EXCEPT ![owner[i]] = FALSE]
    /\ UNCHANGED <<disks, fd, copied, sizeKnown, owner, result, posted, activity, known, cores, history>>

(* The posted result on the UI thread: an old activity's map is not ours.  *)
Deliver(i) ==
    /\ i \in posted
    /\ posted' = posted \ {i}
    /\ known' = (known \/ (result[i] = "ok" /\ owner[i] = activity))
    /\ UNCHANGED <<disks, threads, activity, importInProgress, cores, history>>

ImportStep(i) ==
    \/ Clean(i) \/ Open(i) \/ CopyBlock(i) \/ CopyEnds(i) \/ CopyFails(i) \/ Check(i)
    \/ Replace(i) \/ ReplaceFails(i) \/ Rename(i) \/ RenameFails(i) \/ Leave(i)

-----------------------------------------------------------------------------
(* Launching                                                               *)

(* Mutant: launching is not refused while an import runs.                  *)
CanLaunch_WhileImporting == known

CanLaunch == ~importInProgress[activity] /\ known

(* launchEmulator; the core's thread opens the file later.                 *)
Launch ==
    /\ core = "none" /\ CanLaunch
    /\ core' = "starting"
    /\ touching' = {i \in Live : owner[i] # activity}
    /\ UNCHANGED <<disks, threads, ui, disk, history>>

CoreOpens ==
    /\ core = "starting"
    /\ IF out = NoFile THEN core' = "none" ELSE core' = "running"
    /\ disk' = out
    /\ UNCHANGED <<disks, threads, ui, touching, history>>

CoreEnds ==
    /\ core = "running"
    /\ core' = "none" /\ disk' = NoFile
    /\ UNCHANGED <<disks, threads, ui, touching, history>>

-----------------------------------------------------------------------------
(* Activities and crashes                                                  *)

(* onCreate of a new instance: loadExistingFiles looks at the disk.        *)
NewActivity ==
    /\ activity < MaxActivities
    /\ activity' = activity + 1
    /\ known' = (out # NoFile)

(* The system creates the activity anew in the same process.               *)
Recreate ==
    /\ NewActivity
    /\ UNCHANGED <<disks, threads, posted, importInProgress, cores, history>>

(* The process is killed, or the device stops, and the app starts again.   *)
(* Of data that was not synced, any number of blocks may remain.           *)
Crash ==
    /\ \E keep \in [Imports \ synced -> 0..Blocks] :
          data' = [n \in Imports |->
                      IF n \in synced THEN data[n]
                      ELSE [b \in Block |-> IF b <= keep[n] THEN data[n][b] ELSE NoFile]]
    /\ synced' = Imports
    /\ pc' = [i \in Imports |-> IF pc[i] = "idle" THEN "idle" ELSE "done"]
    /\ posted' = {}
    /\ importInProgress' = [a \in Activities |-> FALSE]
    /\ core' = "none" /\ disk' = NoFile
    /\ NewActivity
    /\ UNCHANGED <<out, tmp, fd, copied, sizeKnown, owner, result, touching, history>>

Next ==
    \/ \E i \in Imports : ImportStep(i) \/ Deliver(i) \/ \E knows \in BOOLEAN : Pick(i, knows)
    \/ Launch \/ CoreOpens \/ CoreEnds
    \/ Recreate \/ Crash

Spec == Init /\ [][Next]_vars

(* Import threads and the UI thread run; providers answer their reads.     *)
FairSpec ==
    /\ Spec
    /\ \A i \in Imports : WF_vars(ImportStep(i)) /\ WF_vars(Deliver(i))

-----------------------------------------------------------------------------
Whole(n) == \E i \in Imports : data[n] = [b \in Block |-> i]

(* Types.                                                                  *)
TypeOK ==
    /\ {out, tmp, disk} \subseteq Imports \cup {NoFile}
    /\ data \in [Imports -> [Block -> Imports \cup {NoFile}]]
    /\ synced \subseteq Imports /\ posted \subseteq Imports /\ touching \subseteq Imports
    /\ pc \in [Imports -> Running \cup {"idle", "done"}]
    /\ fd \in [Imports -> Imports \cup {NoFile}] /\ copied \in [Imports -> 0..Blocks]
    /\ sizeKnown \in [Imports -> BOOLEAN] /\ owner \in [Imports -> Activities]
    /\ result \in [Imports -> {"none", "ok", "failed"}]
    /\ activity \in Activities /\ importInProgress \in [Activities -> BOOLEAN]
    /\ known \in BOOLEAN /\ core \in {"none", "starting", "running"}
    /\ overlapped \in BOOLEAN /\ finalizeFailed \in BOOLEAN

(* A file under its final name is the whole source, whatever errors, early *)
(* ends and crashes its import met, provided the provider told the size    *)
(* and no two activities imported at once (copyToPrivateFile).             *)
WholeFile ==
    TypeOK /\ (~overlapped /\ out # NoFile /\ sizeKnown[out] => Whole(out))

(* As whole as the app can tell: all of it, or what a provider that tells  *)
(* no size has given.                                                      *)
Good(n) == Whole(n) \/ (~sizeKnown[n] /\ data[n][1] # NoFile)

HasCopy == \E n \in {out, tmp} \ {NoFile} : Good(n) /\ n \in synced

(* Replacing never loses the last whole copy: at any point of an import,   *)
(* failures and crashes included, the old file or the synced new one is on *)
(* disk.  A copy is lost only where the final name was gone already: when  *)
(* renameTo fails, or when the next import cleans up after a crash between *)
(* delete and rename (copyToPrivateFile).                                  *)
KeepsACopy == [][HasCopy /\ ~HasCopy' /\ ~overlapped' => out = NoFile]_vars

(* The image a core was launched with is there when its thread opens it    *)
(* and keeps its name while the core runs, unless the user imports another *)
(* meanwhile or an old activity's import was still running: the `files`    *)
(* map launchEmulator trusts may be older than the disk.                   *)
CoreKeepsItsFile ==
    core # "none" /\ touching = {} /\ ~overlapped /\ ~finalizeFailed =>
        out # NoFile /\ (core = "running" => disk = out)

(* Every import ends, releases the launch button of its activity, and its  *)
(* success becomes known there (onActivityResult's thread).                *)
ImportIsSeen ==
    \A i \in Imports :
        pc[i] = "clean" ~>
            /\ pc[i] = "done"
            /\ owner[i] = activity =>
                  ~importInProgress[activity] /\ (result[i] = "ok" /\ out # NoFile => known)
=============================================================================
