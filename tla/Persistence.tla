----------------------------- MODULE Persistence ----------------------------
(***************************************************************************)
(* The file of apicache/apicache.go: SaveToDisk, which truncates the file  *)
(* in place and encodes the map without its lock, among overlapping saves, *)
(* writes of the map, failures and crashes, and New, which loads the file  *)
(* and fails on one it cannot decode.                                      *)
(***************************************************************************)
EXTENDS Integers, FiniteSets

CONSTANTS
  Savers,      \* goroutines that call SaveToDisk
  CacheKeys,   \* not the empty one, which ApiCache has
  CacheValues,
  NoItem,
  MaxItems

ASSUME PersistenceAssumption ==
  /\ IsFiniteSet(CacheKeys)
  /\ NoItem \notin CacheValues
  /\ MaxItems \in Nat \ {0}

VARIABLES
  cacheUp,    \* New has returned and the process has not ended since
  cached,     \* c.items
  savePc,     \* per goroutine: no save, file created, encoding
  attached,   \* those that encode c.items itself, and not a map Clear replaced
  initially,  \* what the map held when the encoding began: its length comes first
  everHeld,   \* the keys and values it has held since
  alwaysHeld, \* the keys it has held all the time since
  fileState,  \* the value in the file: "none" (no file), "empty", "torn", "whole"
  fileItems,  \* ... the items in a whole one
  fileTypes,  \* the types stand before it, without which nothing is decoded
  intended,   \* observer: what the map held in the save that was the last to write
  disturbed,  \* observer: goroutines under whose encoding a Set or Invalidate came
  spoilt      \* observer: a save failed, was cut off or disturbed, and none began alone since

fileVars == <<fileState, fileItems, fileTypes, intended, spoilt>>
encodingVars == <<attached, initially, everHeld, alwaysHeld, disturbed>>
persistenceVars == <<cacheUp, cached, savePc, encodingVars, fileVars>>

Maps == [CacheKeys -> CacheValues \union {NoItem}]
Nothing == [k \in CacheKeys |-> NoItem]
KeysIn(map) == {k \in CacheKeys : map[k] # NoItem}
Pairs(map) == {<<k, map[k]>> : k \in KeysIn(map)}

Within(map) == Cardinality(KeysIn(map)) <= MaxItems

(* The types; and no map, saved or loaded, has more than MaxItems items.    *)
PersistenceTypeOK ==
  /\ cacheUp \in BOOLEAN /\ fileTypes \in BOOLEAN /\ spoilt \in BOOLEAN
  /\ {cached, fileItems, intended} \subseteq {map \in Maps : Within(map)}
  /\ savePc \in [Savers -> {"idle", "created", "encode"}]
  /\ attached \subseteq Savers /\ disturbed \subseteq Savers
  /\ initially \in [Savers -> {map \in Maps : Within(map)}]
  /\ everHeld \in [Savers -> SUBSET (CacheKeys \X CacheValues)]
  /\ alwaysHeld \in [Savers -> SUBSET CacheKeys]
  /\ fileState \in {"none", "empty", "torn", "whole"}

NobodySaves == \A s \in Savers : savePc[s] = "idle"

NewPersistence ==
  /\ cacheUp = TRUE /\ cached = Nothing
  /\ savePc = [s \in Savers |-> "idle"]
  /\ attached = {} /\ disturbed = {}
  /\ initially = [s \in Savers |-> Nothing]
  /\ everHeld = [s \in Savers |-> {}] /\ alwaysHeld = [s \in Savers |-> {}]
  /\ fileState = "none" /\ fileItems = Nothing /\ fileTypes = FALSE
  /\ intended = Nothing /\ spoilt = FALSE

-----------------------------------------------------------------------------
(* The map, under its lock, of which a save knows nothing.                  *)

\* A write of the map that removes keys first, as those who encode it meet it.
MapWritten(removed) ==
  /\ everHeld' = [s \in Savers |->
       IF s \in attached THEN everHeld[s] \union Pairs(cached') ELSE everHeld[s]]
  /\ alwaysHeld' = [s \in Savers |->
       IF s \in attached THEN alwaysHeld[s] \ removed ELSE alwaysHeld[s]]

\* Which key evict takes is left open here; ApiCache has the order of access.
Evicted ==
  IF Cardinality(KeysIn(cached)) < MaxItems THEN {{}} ELSE {{k} : k \in KeysIn(cached)}

SetItem ==
  /\ cacheUp
  /\ \E k \in CacheKeys, v \in CacheValues, out \in Evicted :
       /\ cached' = [j \in CacheKeys |-> IF j = k THEN v
                                       ELSE IF j \in out THEN NoItem ELSE cached[j]]
       /\ MapWritten(out)
  /\ disturbed' = disturbed \union attached
  /\ UNCHANGED <<cacheUp, savePc, attached, initially, fileVars>>

InvalidateItem ==
  /\ cacheUp
  /\ \E k \in KeysIn(cached) :
       /\ cached' = [cached EXCEPT ![k] = NoItem]
       /\ MapWritten({k})
  /\ disturbed' = disturbed \union attached
  /\ UNCHANGED <<cacheUp, savePc, attached, initially, fileVars>>

\* Mutated form: the keys are deleted from the map that is there.
ClearInPlace ==
  /\ cacheUp
  /\ cached' = Nothing
  /\ MapWritten(KeysIn(cached))
  /\ UNCHANGED <<cacheUp, savePc, attached, initially, disturbed, fileVars>>

\* The map is replaced: a save that encodes the old one goes on with that.
ClearItems ==
  /\ cacheUp
  /\ cached' = Nothing
  /\ attached' = {}
  /\ UNCHANGED <<cacheUp, savePc, initially, everHeld, alwaysHeld, disturbed, fileVars>>

-----------------------------------------------------------------------------
(* SaveToDisk.  One that cannot create the file is no step.                 *)

CreateFile(s) ==
  /\ cacheUp /\ savePc[s] = "idle"
  /\ savePc' = [savePc EXCEPT ![s] = "created"]
  /\ fileState' = "empty" /\ fileItems' = Nothing /\ fileTypes' = FALSE
  /\ spoilt' = (spoilt /\ ~NobodySaves)
  /\ UNCHANGED <<cacheUp, cached, encodingVars, intended>>

\* Encode has got the map, writes the types, and begins with the length.
EncodeBegins(s) ==
  /\ savePc[s] = "created"
  /\ savePc' = [savePc EXCEPT ![s] = "encode"]
  /\ attached' = attached \union {s}
  /\ initially' = [initially EXCEPT ![s] = cached]
  /\ everHeld' = [everHeld EXCEPT ![s] = Pairs(cached)]
  /\ alwaysHeld' = [alwaysHeld EXCEPT ![s] = KeysIn(cached)]
  /\ disturbed' = disturbed \ {s}
  /\ fileTypes' = TRUE
  /\ UNCHANGED <<cacheUp, cached, fileState, fileItems, intended, spoilt>>

\* The decoder takes as many items as the length says of those encoded...
EncodedItems(s) ==
  {map \in Maps : /\ Pairs(map) \subseteq everHeld[s]
                  /\ Cardinality(KeysIn(map)) = Cardinality(KeysIn(initially[s]))}

\* ... and fails when there are fewer.
MayMiss(s) == Cardinality(alwaysHeld[s]) < Cardinality(KeysIn(initially[s]))

SaveEnds(s) ==
  /\ savePc' = [savePc EXCEPT ![s] = "idle"]
  /\ attached' = attached \ {s} /\ disturbed' = disturbed \ {s}
  /\ initially' = [initially EXCEPT ![s] = Nothing]
  /\ everHeld' = [everHeld EXCEPT ![s] = {}]
  /\ alwaysHeld' = [alwaysHeld EXCEPT ![s] = {}]
  /\ UNCHANGED <<cacheUp, cached>>

\* The value is written in one piece, over what another save has written.
WriteItems(s) ==
  /\ savePc[s] = "encode"
  /\ \/ fileState' = "whole" /\ fileItems' \in EncodedItems(s)
     \/ MayMiss(s) /\ fileState' = "torn" /\ fileItems' = Nothing
  /\ intended' = initially[s]
  /\ spoilt' = (spoilt \/ s \in disturbed)
  /\ SaveEnds(s)
  /\ UNCHANGED fileTypes

\* Encoding or writing fails, with some of the value written or nothing.
SaveFails(s) ==
  /\ savePc[s] # "idle"
  /\ \/ fileState' = "torn" /\ fileItems' = Nothing
     \/ UNCHANGED <<fileState, fileItems>>
  /\ spoilt' = TRUE
  /\ SaveEnds(s)
  /\ UNCHANGED <<fileTypes, intended>>

-----------------------------------------------------------------------------
\* The process ends; Go itself ends it when it meets an iteration of the map
\* and a write of it at once.
ProcessEnds ==
  /\ cacheUp /\ cacheUp' = FALSE
  /\ cached' = Nothing
  /\ savePc' = [s \in Savers |-> "idle"]
  /\ attached' = {} /\ disturbed' = {}
  /\ initially' = [s \in Savers |-> Nothing]
  /\ everHeld' = [s \in Savers |-> {}] /\ alwaysHeld' = [s \in Savers |-> {}]
  /\ spoilt' = (spoilt \/ ~NobodySaves)
  /\ UNCHANGED <<fileState, fileItems, fileTypes, intended>>

\* No file is an empty cache; on a file it cannot decode New fails.
Loads == fileState = "none" \/ (fileState = "whole" /\ fileTypes)

NewLoads ==
  /\ ~cacheUp /\ Loads
  /\ cacheUp' = TRUE
  /\ cached' = fileItems
  /\ UNCHANGED <<savePc, encodingVars, fileVars>>

OperatorRemovesCacheFile ==
  /\ ~cacheUp /\ ~Loads
  /\ fileState' = "none" /\ fileItems' = Nothing /\ fileTypes' = FALSE
  /\ intended' = Nothing /\ spoilt' = FALSE
  /\ UNCHANGED <<cacheUp, cached, savePc, encodingVars>>

PersistenceNext ==
  \/ SetItem \/ InvalidateItem \/ ClearItems
  \/ \E s \in Savers : CreateFile(s) \/ EncodeBegins(s) \/ WriteItems(s) \/ SaveFails(s)
  \/ ProcessEnds \/ NewLoads \/ OperatorRemovesCacheFile

PersistenceSpec == NewPersistence /\ [][PersistenceNext]_persistenceVars

-----------------------------------------------------------------------------
(* Once all saves have returned, New loads what the map held when the last  *)
(* of them to write began to encode, whatever their overlap, and whether or *)
(* not a Clear came under them (apicache.go:247-259, 414-418); unless one   *)
(* failed, was cut off, or was overtaken by a Set or Invalidate: it then    *)
(* says nothing until a save begins alone.                                  *)
SavedIsLoaded ==
  NobodySaves /\ ~spoilt => Loads /\ fileItems = intended
=============================================================================
