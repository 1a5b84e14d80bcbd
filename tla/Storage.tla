------------------------------- MODULE Storage ------------------------------
(***************************************************************************)
(* The files of tscache/storage.go and the list of them, in memory and in  *)
(* metadata.dat: SavePartition, DeleteOldPartitions and Repair step by     *)
(* step.  The first and the last hold fileMu to their end, the middle one  *)
(* s.mu; all three replace metadata.dat through the same temporary file.   *)
(* What a partition file holds is left to TimeSeriesSync.                  *)
(***************************************************************************)
EXTENDS Integers

CONSTANTS
  StoreThreads,
  Files,      \* partition times, each with its file
  OldFiles,   \* those before the cutoff of the retention period
  NoFile, Torn

\* A torn file is no list of files, and not the same as none.
ASSUME StorageAssumption ==
  /\ OldFiles \subseteq Files
  /\ \A list \in (SUBSET Files) \union {NoFile} : list # Torn

VARIABLES
  onDisk,        \* partition files that exist
  partitionMap,  \* s.metadata.PartitionMap
  metaFile,      \* metadata.dat: the files it lists, Torn, or NoFile
  metaTemp,      \* metadata.dat.tmp, likewise
  fd,            \* per thread, the name that the metadata file it has open has by now
  storeOp,       \* the call each thread is in
  storePc,       \* ... and where
  subject,       \* the file it saves, or those a Repair found
  acked,         \* observer: files whose save succeeded, until they are deleted
  alone,         \* observer: threads whose save of the metadata met no other
  spoiled        \* observer: saves of the metadata overlapped, and none was alone since

dirVars == <<onDisk, partitionMap, acked>>
metaVars == <<metaFile, metaTemp, fd, alone, spoiled>>
callVars == <<storeOp, storePc, subject>>
storeVars == <<dirVars, metaVars, callVars>>

StoreTypeOK ==
  /\ onDisk \subseteq Files /\ partitionMap \subseteq Files /\ acked \subseteq Files
  /\ {metaFile, metaTemp} \subseteq (SUBSET Files) \union {NoFile, Torn}
  /\ fd \in [StoreThreads -> {"none", "metaTemp", "metaFile", "unlinked"}]
  /\ storeOp \in [StoreThreads -> {"none", "save", "delete", "repair"}]
  /\ storePc \in [StoreThreads -> {"idle", "rename", "list", "found", "delete",
                                   "open", "write", "swap", "remove"}]
  /\ subject \in [StoreThreads -> SUBSET Files]
  /\ alone \subseteq StoreThreads /\ spoiled \in BOOLEAN

\* What loadMetadata reads: an empty file is an empty list.
Listed == IF metaFile = NoFile THEN {} ELSE metaFile

NewStorage ==
  /\ onDisk = {} /\ partitionMap = {} /\ acked = {}
  /\ metaFile = NoFile /\ metaTemp = NoFile
  /\ fd = [t \in StoreThreads |-> "none"]
  /\ storeOp = [t \in StoreThreads |-> "none"]
  /\ storePc = [t \in StoreThreads |-> "idle"]
  /\ subject = [t \in StoreThreads |-> {}]
  /\ alone = {} /\ spoiled = FALSE

-----------------------------------------------------------------------------
FileMuFree == \A t \in StoreThreads : storeOp[t] \notin {"save", "repair"}
MetaMuFree == \A t \in StoreThreads : storeOp[t] # "delete"

StoreCall(t, op, first, files) ==
  /\ storeOp[t] = "none"
  /\ storeOp' = [storeOp EXCEPT ![t] = op]
  /\ storePc' = [storePc EXCEPT ![t] = first]
  /\ subject' = [subject EXCEPT ![t] = files]

Step(t, from, to) ==
  /\ storePc[t] = from
  /\ storePc' = [storePc EXCEPT ![t] = to]
  /\ UNCHANGED <<storeOp, subject>>

StoreReturn(t, from) ==
  /\ storePc[t] = from
  /\ storeOp' = [storeOp EXCEPT ![t] = "none"]
  /\ storePc' = [storePc EXCEPT ![t] = "idle"]
  /\ subject' = [subject EXCEPT ![t] = {}]

SavePartition(t) ==
  /\ FileMuFree
  /\ \E f \in Files : StoreCall(t, "save", "rename", {f})
  /\ UNCHANGED <<dirVars, metaVars>>

\* An error up to the rename: the temporary file is removed, nothing changed.
SavePartitionFails(t) ==
  /\ StoreReturn(t, "rename")
  /\ UNCHANGED <<dirVars, metaVars>>

RenameFile(t) ==
  /\ Step(t, "rename", "list")
  /\ onDisk' = onDisk \union subject[t]
  /\ UNCHANGED <<partitionMap, acked, metaVars>>

\* The map is updated under s.mu, the metadata is saved without.
ListFile(t) ==
  /\ MetaMuFree
  /\ Step(t, "list", "open")
  /\ partitionMap' = partitionMap \union subject[t]
  /\ UNCHANGED <<onDisk, acked, metaVars>>

DeleteOldPartitions(t) ==
  /\ MetaMuFree
  /\ StoreCall(t, "delete", "delete", {})
  /\ UNCHANGED <<dirVars, metaVars>>

DeleteFile(t) ==
  /\ storePc[t] = "delete"
  /\ \E f \in partitionMap \intersect OldFiles :
       /\ onDisk' = onDisk \ {f}
       /\ partitionMap' = partitionMap \ {f}
       /\ acked' = acked \ {f}
  /\ UNCHANGED <<callVars, metaVars>>

\* os.Remove fails: what was deleted stays deleted, the metadata is not saved.
DeleteFails(t) ==
  /\ partitionMap \intersect OldFiles # {}
  /\ StoreReturn(t, "delete")
  /\ UNCHANGED <<dirVars, metaVars>>

DeleteEnds(t) ==
  /\ partitionMap \intersect OldFiles = {}
  /\ Step(t, "delete", "open")
  /\ UNCHANGED <<dirVars, metaVars>>

\* Mutated form: the directory is read before fileMu is taken.
RepairUnlocked(t) ==
  /\ StoreCall(t, "repair", "found", onDisk)
  /\ UNCHANGED <<dirVars, metaVars>>

\* Repair reads the directory and the files in it...
Repair(t) ==
  /\ FileMuFree
  /\ StoreCall(t, "repair", "found", onDisk)
  /\ UNCHANGED <<dirVars, metaVars>>

\* ... and replaces the map, without s.mu.
ReplaceMap(t) ==
  /\ Step(t, "found", "open")
  /\ partitionMap' = subject[t]
  /\ UNCHANGED <<onDisk, acked, metaVars>>

-----------------------------------------------------------------------------
(* saveMetadata.                                                            *)

Saving == {t \in StoreThreads : fd[t] # "none"}

\* A save is alone while no other has a metadata file open.
Observe(t) ==
  /\ alone' = IF Saving = {} THEN {t} ELSE {}
  /\ spoiled' = (spoiled \/ Saving # {})

\* Mutated form: metadata.dat itself is opened and truncated.
OpenInPlace(t) ==
  /\ Step(t, "open", "write")
  /\ metaFile' = {}
  /\ fd' = [fd EXCEPT ![t] = "metaFile"]
  /\ Observe(t)
  /\ UNCHANGED <<dirVars, metaTemp>>

\* The temporary file is made, or truncated if there is one.
OpenTemp(t) ==
  /\ Step(t, "open", "write")
  /\ metaTemp' = {}
  /\ fd' = [fd EXCEPT ![t] = "metaTemp"]
  /\ Observe(t)
  /\ UNCHANGED <<dirVars, metaFile>>

\* It cannot be opened: the call returns the error before it defers the removal.
OpenTempFails(t) ==
  /\ StoreReturn(t, "open")
  /\ UNCHANGED <<dirVars, metaVars>>

\* What encoding the list leaves in the file the thread has open: with another
\* writer of the same file the two may mix.
Encoded(t) ==
  {partitionMap} \union (IF \E u \in Saving \ {t} : fd[u] = fd[t] THEN {Torn} ELSE {})

WriteList(t) ==
  /\ Step(t, "write", "swap")
  /\ \E list \in Encoded(t) :
       /\ metaTemp' = IF fd[t] = "metaTemp" THEN list ELSE metaTemp
       /\ metaFile' = IF fd[t] = "metaFile" THEN list ELSE metaFile
  /\ UNCHANGED <<dirVars, fd, alone, spoiled>>

\* Whatever has the name of the temporary file becomes metadata.dat, for those
\* who have it open too.
RenameMeta(t) ==
  /\ metaTemp # NoFile
  /\ Step(t, "swap", "remove")
  /\ metaFile' = metaTemp
  /\ metaTemp' = NoFile
  /\ fd' = [u \in StoreThreads |-> CASE fd[u] = "metaTemp" -> "metaFile"
                                    [] fd[u] = "metaFile" -> "unlinked"
                                    [] OTHER -> fd[u]]
  /\ acked' = IF storeOp[t] = "save" THEN acked \union (subject[t] \intersect onDisk) ELSE acked
  /\ spoiled' = (spoiled /\ t \notin alone)
  /\ UNCHANGED <<onDisk, partitionMap, alone>>

\* The write or the rename fails, which it does when the file is gone.
SaveMetaFails(t) ==
  /\ storePc[t] \in {"write", "swap"}
  /\ Step(t, storePc[t], "remove")
  /\ UNCHANGED <<dirVars, metaVars>>

\* The deferred os.Remove, and the return of the call.
RemoveTemp(t) ==
  /\ StoreReturn(t, "remove")
  /\ metaTemp' = NoFile
  /\ fd' = [u \in StoreThreads |-> IF u = t THEN "none"
                                   ELSE IF fd[u] = "metaTemp" THEN "unlinked" ELSE fd[u]]
  /\ alone' = alone \ {t}
  /\ UNCHANGED <<dirVars, metaFile, spoiled>>

\* The process ends, in a concurrent use of the map too, which is fatal in Go,
\* and NewStorage reads the list; it refuses a torn one.
CrashAndLoad ==
  /\ Listed # Torn
  /\ partitionMap' = Listed
  /\ fd' = [t \in StoreThreads |-> "none"]
  /\ storeOp' = [t \in StoreThreads |-> "none"]
  /\ storePc' = [t \in StoreThreads |-> "idle"]
  /\ subject' = [t \in StoreThreads |-> {}]
  /\ alone' = {}
  /\ acked' = IF spoiled THEN acked \intersect Listed ELSE acked
  /\ UNCHANGED <<onDisk, metaFile, metaTemp, spoiled>>

StoreNext ==
  \/ \E t \in StoreThreads :
       \/ SavePartition(t) \/ SavePartitionFails(t) \/ RenameFile(t) \/ ListFile(t)
       \/ DeleteOldPartitions(t) \/ DeleteFile(t) \/ DeleteFails(t) \/ DeleteEnds(t)
       \/ Repair(t) \/ ReplaceMap(t)
       \/ OpenTemp(t) \/ OpenTempFails(t) \/ WriteList(t) \/ RenameMeta(t) \/ SaveMetaFails(t)
       \/ RemoveTemp(t)
  \/ CrashAndLoad

StoreSpec == NewStorage /\ [][StoreNext]_storeVars

-----------------------------------------------------------------------------
(* A file whose save succeeded is found by the next NewStorage, through     *)
(* crashes, failing and repeated saves, deletions of others and repairs;    *)
(* nothing is claimed after two calls have written the metadata at once,    *)
(* which fileMu and s.mu do not exclude (storage.go:142, 214, 239).         *)
SavedIsListed ==
  ~spoiled => acked \subseteq Listed

(* Without such an overlap metadata.dat is a list that was in memory, so    *)
(* that NewStorage does not fail on it.                                     *)
MetadataIsWhole ==
  ~spoiled => /\ metaFile # Torn
              /\ \A t \in StoreThreads : storePc[t] \in {"write", "swap"} => fd[t] # "metaFile"
=============================================================================
