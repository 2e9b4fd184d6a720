-------------------------- MODULE FileImportProofs --------------------------
(***************************************************************************)
(* Proofs about FileImport, for any number of imports, blocks and          *)
(* activities: what is under the final name, what an import may lose, and  *)
(* what a launched core finds.                                             *)
(***************************************************************************)
EXTENDS FileImport, TLAPS

Writing == {"copy", "check", "replace", "rename"}

(* The descriptor of a thread that writes denotes a file.                  *)
Types == TypeOK /\ \A i \in Imports : pc[i] \in Writing => fd[i] \in Imports

(* While imports do not overlap, the .part file belongs to the one that    *)
(* runs and holds what it has copied.                                      *)
PartIsMine ==
    /\ \A i, j \in Live : i = j
    /\ \A i \in Imports :
          /\ pc[i] = "idle" => copied[i] = 0
          /\ pc[i] \in {"clean", "open"} => copied[i] = 0
          /\ pc[i] = "open" => tmp = NoFile
          /\ pc[i] \in Writing =>
                /\ tmp = i /\ fd[i] = i
                /\ \A b \in Block : b <= copied[i] => data[i][b] = i
          /\ pc[i] \in {"check", "replace", "rename"} => i \in synced
          /\ pc[i] \in {"replace", "rename"} => LooksComplete(i)

(* A file under the final name is finished, synced and good.               *)
OutIsGood ==
    out # NoFile => pc[out] \in {"leave", "done"} /\ out \in synced /\ Good(out)

Renaming == \E i \in Imports : pc[i] = "rename"

(* Who believes the file is there is right, except in the middle of an     *)
(* import, which the flag of its activity shows.                           *)
BeliefIsRight ==
    /\ \A i \in Live : importInProgress[owner[i]]
    /\ ~finalizeFailed =>
          /\ known => out # NoFile \/ Renaming
          /\ \A i \in posted : result[i] = "ok" => out # NoFile \/ Renaming
          /\ core # "none" /\ touching = {} =>
                Live = {} /\ out # NoFile /\ (core = "running" => disk = out)

IInv == Types /\ (~overlapped => PartIsMine /\ OutIsGood /\ BeliefIsRight)

-----------------------------------------------------------------------------
(* The types are kept by every step.                                       *)
LEMMA TypesKept ==
  ASSUME Types, [Next]_vars
  PROVE  Types'
<1> USE ImportAssumption DEF Types, TypeOK, Writing, Running, Activities, Block, Empty, disks, threads, ui, cores, history
<1>1. ASSUME NEW i \in Imports, Clean(i) PROVE Types'
  BY <1>1 DEF Clean, Goto, OnlyThread
<1>2. ASSUME NEW i \in Imports, Open(i) PROVE Types'
  BY <1>2, SMTT(30) DEF Open, Goto
<1>3. ASSUME NEW i \in Imports, CopyBlock(i) PROVE Types'
  <2>1. fd[i] \in Imports /\ copied[i] + 1 \in Block /\ copied[i] + 1 \in 0..Blocks
    BY <1>3, SMTT(30) DEF CopyBlock
  <2>2. data' \in [Imports -> [Block -> Imports \cup {NoFile}]]
    BY <1>3, <2>1 DEF CopyBlock
  <2>3. QED
    BY <1>3, <2>1, <2>2 DEF CopyBlock
<1>4. ASSUME NEW i \in Imports, CopyEnds(i) PROVE Types'
  BY <1>4 DEF CopyEnds, Goto, OnlyThread
<1>5. ASSUME NEW i \in Imports, CopyFails(i) PROVE Types'
  BY <1>5 DEF CopyFails, Throws, OnlyThread
<1>6. ASSUME NEW i \in Imports, Check(i) PROVE Types'
  <2>1. UNCHANGED <<out, data, synced, finalizeFailed, fd, copied, sizeKnown, owner, activity>>
    BY <1>6 DEF Check, OnlyThread
  <2>2. UNCHANGED <<importInProgress, known, cores, overlapped>>
    BY <1>6 DEF Check, OnlyThread
  <2>3. pc[i] = "check" /\ (pc' = [pc EXCEPT ![i] = "replace"] \/ pc' = [pc EXCEPT ![i] = "leave"])
    BY <1>6 DEF Check, Throws
  <2>4. tmp' \in {tmp, NoFile} /\ posted' \in {posted, posted \cup {i}}
    BY <1>6 DEF Check, Throws
  <2>5. result' \in {result, [result EXCEPT ![i] = "failed"]}
    BY <1>6 DEF Check, Throws
  <2>6. pc' \in [Imports -> Running \cup {"idle", "done"}]
    <3>1. "replace" \in Running /\ "leave" \in Running /\ pc \in [Imports -> Running \cup {"idle", "done"}]
      OBVIOUS
    <3> HIDE DEF Types, TypeOK, Running
    <3> QED  BY <2>3, <3>1
  <2>7. result' \in [Imports -> {"none", "ok", "failed"}]
    BY <2>5, ZenonT(30)
  <2>8. \A j \in Imports : pc'[j] \in Writing => pc[j] \in Writing
    BY <2>3
  <2>9. {out, tmp, disk}' \subseteq Imports \cup {NoFile} /\ posted' \subseteq Imports
    BY <2>1, <2>2, <2>4
  <2> HIDE DEF Writing, Running
  <2>10. QED
    BY <2>1, <2>2, <2>6, <2>7, <2>8, <2>9
<1>7. ASSUME NEW i \in Imports, Replace(i) PROVE Types'
  BY <1>7 DEF Replace, Goto, OnlyThread
<1>8. ASSUME NEW i \in Imports, ReplaceFails(i) PROVE Types'
  BY <1>8, SMTT(30) DEF ReplaceFails, Throws, OnlyThread
<1>9. ASSUME NEW i \in Imports, Rename(i) PROVE Types'
  BY <1>9, SMTT(30) DEF Rename, Goto, OnlyThread
<1>10. ASSUME NEW i \in Imports, RenameFails(i) PROVE Types'
  BY <1>10, SMTT(30) DEF RenameFails, Throws, OnlyThread
<1>11. ASSUME NEW i \in Imports, Leave(i) PROVE Types'
  BY <1>11 DEF Leave, Goto
<1>12. ASSUME NEW i \in Imports, Deliver(i) PROVE Types'
  BY <1>12 DEF Deliver
<1>13. ASSUME NEW i \in Imports, NEW knows \in BOOLEAN, Pick(i, knows) PROVE Types'
  BY <1>13 DEF Pick, Goto, Live
<1>14. CASE Launch
  BY <1>14 DEF Launch, CanLaunch, Live
<1>15. CASE CoreOpens
  BY <1>15 DEF CoreOpens
<1>16. CASE CoreEnds
  BY <1>16 DEF CoreEnds
<1>17. CASE Recreate
  BY <1>17 DEF Recreate, NewActivity
<1>18. CASE Crash
  BY <1>18 DEF Crash, NewActivity
<1>19. CASE UNCHANGED vars
  BY <1>19 DEF vars
<1> HIDE ImportAssumption DEF Types, TypeOK, Writing, Running, Activities, Block, Empty, disks, threads, ui, cores, history
<1>20. QED
  BY <1>1, <1>2, <1>3, <1>4, <1>5, <1>6, <1>7, <1>8, <1>9, <1>10, <1>11, <1>12,
     <1>13, <1>14, <1>15, <1>16, <1>17, <1>18, <1>19
  DEF Next, ImportStep

(* So is the link between the running import and its .part file.           *)
LEMMA PartKept ==
  ASSUME IInv, ~overlapped', [Next]_vars
  PROVE  PartIsMine'
<1> USE ImportAssumption DEF IInv, PartIsMine, OutIsGood, Types, TypeOK, Writing, Running, Activities, Block, Empty, Live, LooksComplete, disks, threads, ui, cores, history
<1>1. ASSUME NEW i \in Imports, Clean(i) PROVE PartIsMine'
  BY <1>1 DEF Clean, Goto, OnlyThread
<1>2. ASSUME NEW i \in Imports, Open(i) PROVE PartIsMine'
  BY <1>2 DEF Open, Goto
<1>3. ASSUME NEW i \in Imports, CopyBlock(i) PROVE PartIsMine'
  BY <1>3 DEF CopyBlock
<1>4. ASSUME NEW i \in Imports, CopyEnds(i) PROVE PartIsMine'
  BY <1>4 DEF CopyEnds, Goto, OnlyThread
<1>5. ASSUME NEW i \in Imports, CopyFails(i) PROVE PartIsMine'
  BY <1>5 DEF CopyFails, Throws, OnlyThread
<1>6. ASSUME NEW i \in Imports, Check(i) PROVE PartIsMine'
  <2> USE <1>6 DEF Check, OnlyThread
  <2> HIDE DEF LooksComplete
  <2>1. CASE LooksComplete(i)
    <3>1. \A j \in Imports : LooksComplete(j)' <=> LooksComplete(j)
      BY DEF LooksComplete
    <3>2. QED
      BY <2>1, <3>1, SMTT(30)
  <2>2. CASE ~LooksComplete(i)
    <3>1. \A j \in Imports : pc'[j] \in Running => j = i
      BY <2>2 DEF Throws
    <3>2. QED
      BY <2>2, <3>1 DEF Throws
  <2>3. QED
    BY <2>1, <2>2
<1>7. ASSUME NEW i \in Imports, Replace(i) PROVE PartIsMine'
  BY <1>7 DEF Replace, Goto, OnlyThread
<1>8. ASSUME NEW i \in Imports, ReplaceFails(i) PROVE PartIsMine'
  BY <1>8, SMTT(30) DEF ReplaceFails, Throws, OnlyThread
<1>9. ASSUME NEW i \in Imports, Rename(i) PROVE PartIsMine'
  BY <1>9, SMTT(30) DEF Rename, Goto, OnlyThread
<1>10. ASSUME NEW i \in Imports, RenameFails(i) PROVE PartIsMine'
  BY <1>10 DEF RenameFails, Throws, OnlyThread
<1>11. ASSUME NEW i \in Imports, Leave(i) PROVE PartIsMine'
  BY <1>11 DEF Leave, Goto
<1>12. ASSUME NEW i \in Imports, Deliver(i) PROVE PartIsMine'
  BY <1>12 DEF Deliver
<1>13. ASSUME NEW i \in Imports, NEW knows \in BOOLEAN, Pick(i, knows) PROVE PartIsMine'
  <2>1. ~overlapped /\ Live = {}
    BY <1>13, ZenonT(30) DEF Pick
  <2>2. QED
    BY <1>13, <2>1 DEF Pick, Goto
<1>14. CASE Launch
  BY <1>14 DEF Launch, CanLaunch
<1>15. CASE CoreOpens
  BY <1>15 DEF CoreOpens
<1>16. CASE CoreEnds
  BY <1>16, SMTT(30) DEF CoreEnds
<1>17. CASE Recreate
  BY <1>17 DEF Recreate, NewActivity
<1>18. CASE Crash
  BY <1>18 DEF Crash, NewActivity
<1>19. CASE UNCHANGED vars
  BY <1>19 DEF vars
<1> HIDE ImportAssumption DEF IInv, PartIsMine, OutIsGood, Types, TypeOK, Writing, Running, Activities, Block, Empty, Live, LooksComplete, disks, threads, ui, cores, history
<1>20. QED
  BY <1>1, <1>2, <1>3, <1>4, <1>5, <1>6, <1>7, <1>8, <1>9, <1>10, <1>11, <1>12,
     <1>13, <1>14, <1>15, <1>16, <1>17, <1>18, <1>19
  DEF Next, ImportStep

(* The finished file stays as it is until the next one replaces it.        *)
LEMMA OutKept ==
  ASSUME IInv, ~overlapped', [Next]_vars
  PROVE  OutIsGood'
<1> USE ImportAssumption DEF IInv, PartIsMine, OutIsGood, Good, Whole, Types, TypeOK, Writing, Running, Activities, Block, Live, LooksComplete, disks, threads, ui, cores, history
<1>1. ASSUME NEW i \in Imports, Clean(i) PROVE OutIsGood'
  BY <1>1 DEF Clean, Goto, OnlyThread
<1>2. ASSUME NEW i \in Imports, Open(i) PROVE OutIsGood'
  BY <1>2 DEF Open, Goto
<1>3. ASSUME NEW i \in Imports, CopyBlock(i) PROVE OutIsGood'
  BY <1>3 DEF CopyBlock
<1>4. ASSUME NEW i \in Imports, CopyEnds(i) PROVE OutIsGood'
  BY <1>4 DEF CopyEnds, Goto, OnlyThread
<1>5. ASSUME NEW i \in Imports, CopyFails(i) PROVE OutIsGood'
  BY <1>5 DEF CopyFails, Throws, OnlyThread
<1>6. ASSUME NEW i \in Imports, Check(i) PROVE OutIsGood'
  BY <1>6 DEF Check, Throws, OnlyThread
<1>7. ASSUME NEW i \in Imports, Replace(i) PROVE OutIsGood'
  BY <1>7 DEF Replace, Goto, OnlyThread
<1>8. ASSUME NEW i \in Imports, ReplaceFails(i) PROVE OutIsGood'
  BY <1>8 DEF ReplaceFails, Throws, OnlyThread
<1>9. ASSUME NEW i \in Imports, Rename(i) PROVE OutIsGood'
  <2>1. out' = i /\ pc'[i] = "leave" /\ i \in synced' /\ LooksComplete(i)
    BY <1>9 DEF Rename, Goto, OnlyThread
  <2>2. \A b \in Block : b <= copied[i] => data[i][b] = i
    <3>1. ~overlapped /\ pc[i] = "rename"
      BY <1>9 DEF Rename, Goto, OnlyThread
    <3>2. QED
      BY <3>1
  <2>3. data' = data /\ sizeKnown' = sizeKnown
    BY <1>9 DEF Rename, OnlyThread
  <2>4. CASE sizeKnown[i]
    <3>1. data[i] = [b \in Block |-> i]
      BY <2>1, <2>2, <2>4
    <3>2. QED
      BY <2>1, <2>3, <3>1
  <2>5. CASE ~sizeKnown[i]
    BY <2>1, <2>2, <2>3, <2>5
  <2>6. QED
    BY <2>4, <2>5
<1>10. ASSUME NEW i \in Imports, RenameFails(i) PROVE OutIsGood'
  BY <1>10 DEF RenameFails, Throws, OnlyThread
<1>11. ASSUME NEW i \in Imports, Leave(i) PROVE OutIsGood'
  BY <1>11 DEF Leave, Goto
<1>12. ASSUME NEW i \in Imports, Deliver(i) PROVE OutIsGood'
  BY <1>12 DEF Deliver
<1>13. ASSUME NEW i \in Imports, NEW knows \in BOOLEAN, Pick(i, knows) PROVE OutIsGood'
  BY <1>13, SMTT(30) DEF Pick, Goto
<1>14. CASE Launch
  BY <1>14, SMTT(30) DEF Launch, CanLaunch
<1>15. CASE CoreOpens
  BY <1>15, SMTT(30) DEF CoreOpens
<1>16. CASE CoreEnds
  BY <1>16 DEF CoreEnds
<1>17. CASE Recreate
  BY <1>17 DEF Recreate, NewActivity
<1>18. CASE Crash
  BY <1>18 DEF Crash, NewActivity
<1>19. CASE UNCHANGED vars
  BY <1>19 DEF vars
<1> HIDE ImportAssumption DEF IInv, PartIsMine, OutIsGood, Good, Whole, Types, TypeOK, Writing, Running, Activities, Block, Live, LooksComplete, disks, threads, ui, cores, history
<1>20. QED
  BY <1>1, <1>2, <1>3, <1>4, <1>5, <1>6, <1>7, <1>8, <1>9, <1>10, <1>11, <1>12,
     <1>13, <1>14, <1>15, <1>16, <1>17, <1>18, <1>19
  DEF Next, ImportStep

(* The map of the current activity does not outlive the file.              *)
LEMMA BeliefKept ==
  ASSUME IInv, ~overlapped', [Next]_vars
  PROVE  BeliefIsRight'
<1> USE ImportAssumption DEF IInv, PartIsMine, BeliefIsRight, Renaming, Types, TypeOK, Writing, Running, Activities, Block, Live, disks, threads, ui, cores, history
<1>1. ASSUME NEW i \in Imports, Clean(i) PROVE BeliefIsRight'
  BY <1>1 DEF Clean, Goto, OnlyThread
<1>2. ASSUME NEW i \in Imports, Open(i) PROVE BeliefIsRight'
  BY <1>2 DEF Open, Goto
<1>3. ASSUME NEW i \in Imports, CopyBlock(i) PROVE BeliefIsRight'
  BY <1>3 DEF CopyBlock
<1>4. ASSUME NEW i \in Imports, CopyEnds(i) PROVE BeliefIsRight'
  BY <1>4 DEF CopyEnds, Goto, OnlyThread
<1>5. ASSUME NEW i \in Imports, CopyFails(i) PROVE BeliefIsRight'
  BY <1>5 DEF CopyFails, Throws, OnlyThread
<1>6. ASSUME NEW i \in Imports, Check(i) PROVE BeliefIsRight'
  BY <1>6, SMTT(30) DEF Check, LooksComplete, Throws, OnlyThread
<1>7. ASSUME NEW i \in Imports, Replace(i) PROVE BeliefIsRight'
  BY <1>7 DEF Replace, Goto, OnlyThread
<1>8. ASSUME NEW i \in Imports, ReplaceFails(i) PROVE BeliefIsRight'
  BY <1>8 DEF ReplaceFails, Throws, OnlyThread
<1>9. ASSUME NEW i \in Imports, Rename(i) PROVE BeliefIsRight'
  BY <1>9 DEF Rename, Goto, OnlyThread
<1>10. ASSUME NEW i \in Imports, RenameFails(i) PROVE BeliefIsRight'
  BY <1>10 DEF RenameFails, Throws, OnlyThread
<1>11. ASSUME NEW i \in Imports, Leave(i) PROVE BeliefIsRight'
  BY <1>11 DEF Leave, Goto
<1>12. ASSUME NEW i \in Imports, Deliver(i) PROVE BeliefIsRight'
  BY <1>12 DEF Deliver
<1>13. ASSUME NEW i \in Imports, NEW knows \in BOOLEAN, Pick(i, knows) PROVE BeliefIsRight'
  <2>1. ~overlapped /\ Live = {}
    BY <1>13 DEF Pick
  <2>2. BeliefIsRight /\ \A j \in Imports : pc[j] \notin Running
    BY <2>1
  <2>a. /\ pc' = [pc EXCEPT ![i] = "clean"] /\ owner' = [owner EXCEPT ![i] = activity]
        /\ importInProgress' = [importInProgress EXCEPT ![activity] = TRUE]
    BY <1>13 DEF Pick, Goto
  <2>b. /\ pc \in [Imports -> Running \cup {"idle", "done"}] /\ owner \in [Imports -> Activities]
        /\ importInProgress \in [Activities -> BOOLEAN] /\ activity \in Activities
    OBVIOUS
  <2>c. pc'[i] = "clean" /\ \A j \in Imports : j # i => pc'[j] = pc[j]
    <3> HIDE DEF IInv, Types, TypeOK, PartIsMine, BeliefIsRight, Renaming, Running
    <3> QED  BY <2>a, <2>b
  <2>3. \A j \in Imports : pc'[j] \in Running => j = i
    <3> HIDE DEF IInv, Types, TypeOK, PartIsMine, BeliefIsRight, Renaming, Running
    <3> QED  BY <2>2, <2>c
  <2>4. owner'[i] = activity /\ importInProgress'[activity]
    <3> HIDE DEF IInv, Types, TypeOK, PartIsMine, BeliefIsRight, Renaming, Running
    <3> QED  BY <2>a, <2>b
  <2>5. ~Renaming /\ ~Renaming'
    <3>1. "rename" \in Running
      OBVIOUS
    <3> HIDE DEF IInv, Types, TypeOK, PartIsMine, BeliefIsRight, Running
    <3> QED  BY <2>2, <2>c, <3>1
  <2>6. core' # "none" => touching' # {}
    BY <1>13 DEF Pick
  <2>7. UNCHANGED <<out, known, posted, result, finalizeFailed>>
    BY <1>13 DEF Pick
  <2> HIDE DEF Renaming
  <2>8. QED
    BY <2>2, <2>3, <2>4, <2>5, <2>6, <2>7
<1>14. CASE Launch
  BY <1>14, SMTT(30) DEF Launch, CanLaunch
<1>15. CASE CoreOpens
  BY <1>15, SMTT(30) DEF CoreOpens
<1>16. CASE CoreEnds
  BY <1>16 DEF CoreEnds
<1>17. CASE Recreate
  BY <1>17 DEF Recreate, NewActivity
<1>18. CASE Crash
  BY <1>18 DEF Crash, NewActivity
<1>19. CASE UNCHANGED vars
  BY <1>19 DEF vars
<1> HIDE ImportAssumption DEF IInv, PartIsMine, BeliefIsRight, Renaming, Types, TypeOK, Writing, Running, Activities, Block, Live, disks, threads, ui, cores, history
<1>20. QED
  BY <1>1, <1>2, <1>3, <1>4, <1>5, <1>6, <1>7, <1>8, <1>9, <1>10, <1>11, <1>12,
     <1>13, <1>14, <1>15, <1>16, <1>17, <1>18, <1>19
  DEF Next, ImportStep

-----------------------------------------------------------------------------
(* The invariant holds initially and is kept.                              *)
LEMMA InitIInv == Init => IInv
<1> SUFFICES ASSUME Init PROVE IInv
  OBVIOUS
<1> USE ImportAssumption
<1>a. Empty \in [Block -> Imports \cup {NoFile}]
  BY DEF Empty
<1>b. data \in [Imports -> [Block -> Imports \cup {NoFile}]]
  BY <1>a DEF Init
<1>c. pc \in [Imports -> Running \cup {"idle", "done"}] /\ result \in [Imports -> {"none", "ok", "failed"}]
  BY DEF Init
<1>d. activity \in Activities /\ owner \in [Imports -> Activities]
  BY DEF Init, Activities
<1>e. \A i \in Imports : pc[i] \notin Writing
  BY DEF Init, Writing
<1>f. fd \in [Imports -> Imports \cup {NoFile}] /\ copied \in [Imports -> 0..Blocks]
  BY DEF Init
<1>g. sizeKnown \in [Imports -> BOOLEAN] /\ importInProgress \in [Activities -> BOOLEAN]
  BY DEF Init
<1>h. {out, tmp, disk} \subseteq Imports \cup {NoFile} /\ core = "none"
  BY DEF Init
<1>i. synced = {} /\ posted = {} /\ touching = {} /\ known = FALSE /\ overlapped = FALSE /\ finalizeFailed = FALSE
  BY DEF Init
<1>1. Types
  BY <1>b, <1>c, <1>d, <1>e, <1>f, <1>g, <1>h, <1>i, ZenonT(30) DEF Types, TypeOK
<1>2. \A i \in Imports : pc[i] = "idle" /\ copied[i] = 0
  BY DEF Init
<1>3. PartIsMine /\ OutIsGood /\ BeliefIsRight
  BY <1>2 DEF Init, PartIsMine, OutIsGood, BeliefIsRight, Live, Running, Writing
<1>4. QED
  BY <1>1, <1>3 DEF IInv

(* Every step of an import, of the activity and of the core, and a crash,  *)
(* preserve the whole invariant.                                           *)
LEMMA NextIInv == IInv /\ [Next]_vars => IInv'
<1> SUFFICES ASSUME IInv, [Next]_vars PROVE IInv'
  OBVIOUS
<1>1. Types'
  BY TypesKept DEF IInv
<1>2. ASSUME ~overlapped' PROVE PartIsMine' /\ OutIsGood' /\ BeliefIsRight'
  BY <1>2, PartKept, OutKept, BeliefKept
<1>3. QED
  BY <1>1, <1>2 DEF IInv

(* The invariant holds in every state the imports can get into.            *)
LEMMA Invariant == Spec => []IInv
BY InitIInv, NextIInv, PTL DEF Spec

(* What copyToPrivateFile leaves under the final name is the whole source, *)
(* if the provider told its size and imports did not overlap, for any      *)
(* failures and crashes.                                                   *)
THEOREM FilesAreWhole == Spec => []WholeFile
<1>1. IInv => WholeFile
  BY DEF IInv, Types, OutIsGood, Good, WholeFile
<1>2. QED
  BY <1>1, Invariant, PTL

(* What launchEmulator believes is there when the core opens it, and stays *)
(* there while the core runs.                                              *)
THEOREM CoresKeepTheirFile == Spec => []CoreKeepsItsFile
<1>1. IInv => CoreKeepsItsFile
  BY DEF IInv, BeliefIsRight, CoreKeepsItsFile
<1>2. QED
  BY <1>1, Invariant, PTL

(* Only deleting the old file takes the final name away, and the synced    *)
(* .part file is good by then.                                             *)
LEMMA CopyStep ==
  ASSUME IInv, IInv', Next, ~overlapped', out # NoFile
  PROVE  HasCopy'
<1> USE ImportAssumption DEF IInv, Types, TypeOK
<1>1. CASE out' # NoFile
  BY <1>1 DEF OutIsGood, HasCopy
<1>2. CASE out' = NoFile
  <2>1. PICK i \in Imports : Replace(i)
    BY <1>2, ZenonT(30) DEF Next, ImportStep, Clean, Open, CopyBlock, CopyEnds, CopyFails, Check, ReplaceFails,
       Rename, RenameFails, Leave, Deliver, Pick, Launch, CoreOpens, CoreEnds, Recreate, Crash, disks
  <2>2. ~overlapped /\ pc[i] = "replace" /\ UNCHANGED <<tmp, data, synced, sizeKnown, copied>>
    BY <2>1 DEF Replace, Goto, OnlyThread
  <2>3. tmp = i /\ i \in synced /\ LooksComplete(i) /\ \A b \in Block : b <= copied[i] => data[i][b] = i
    BY <2>2 DEF PartIsMine, Writing
  <2>4. CASE sizeKnown[i]
    <3>1. data[i] = [b \in Block |-> i]
      BY <2>3, <2>4 DEF LooksComplete, Block
    <3>2. Whole(i)'
      BY <2>2, <3>1 DEF Whole
    <3>3. QED
      BY <2>2, <2>3, <3>2 DEF HasCopy, Good
  <2>5. CASE ~sizeKnown[i]
    <3>1. data[i][1] = i
      BY <2>3, <2>5, SMTT(30) DEF LooksComplete, Block
    <3>2. QED
      BY <2>2, <2>3, <2>5, <3>1, SMTT(30) DEF HasCopy, Good
  <2>6. QED
    BY <2>4, <2>5
<1>3. QED
  BY <1>1, <1>2

(* While the final name is there, no step of an import, no failure and no  *)
(* crash takes the last good copy from the disk (copyToPrivateFile).       *)
THEOREM CopiesAreKept == Spec => KeepsACopy
<1>1. IInv /\ IInv' /\ [Next]_vars => [HasCopy /\ ~HasCopy' /\ ~overlapped' => out = NoFile]_vars
  BY CopyStep
<1>2. QED
  BY <1>1, Invariant, PTL DEF Spec, KeepsACopy
=============================================================================
