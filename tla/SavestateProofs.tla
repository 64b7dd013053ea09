-------------------------- MODULE SavestateProofs ---------------------------
(***************************************************************************)
(* Proofs about savestates: StateCache, for any files, contents, slots and *)
(* times, and Pause, for any devices: no wake is lost, a request reaches   *)
(* the guest, a state answers the save that waits for it and, if every     *)
(* device looks at the pause before it works (the LateLookers do not), the *)
(* machine stands still while a state is written.                          *)
(***************************************************************************)
EXTENDS StateCache, Pause, TLAPS

-----------------------------------------------------------------------------
(***************************************************************************)
(* StateCache: what a save writes and a load restores.                     *)
(***************************************************************************)

(***************************************************************************)
(* The inductive invariant.                                                *)
(***************************************************************************)

(* What a state under way lists is in the store already.                   *)
ListStored == phase \in {"store", "write"} => Hashes(list) \subseteq blobs

(* The collection knows what the states it has read list.                  *)
RefsRead ==
  phase = "collect" => \A s \in saved \ unread : Hashes(files[s]) \subseteq refs

(* No entry is from after its file's last touch: a touch makes every entry *)
(* there is one of a file that changed.                                    *)
NotAhead == \A e \in index \cup g_idx : e.ctime <= ctime[e.file]

Safe == StatesLoadable /\ ListStored /\ RefsRead

CacheIInv == CacheTypeOK /\ Safe /\ NotAhead /\ IndexTruthful

-----------------------------------------------------------------------------
(* An entry set is the file's only one.                                    *)
LEMMA IndexSetOne ==
  ASSUME NEW i \in SUBSET Entries, OneEach(i), NEW e \in Entries
  PROVE  IndexSet(i, e) \subseteq Entries /\ OneEach(IndexSet(i, e))
  BY DEF IndexSet, OneEach

(* Every step keeps the types.                                             *)
LEMMA TypeStep ==
  ASSUME CacheTypeOK, [CacheNext]_cacheVars
  PROVE  CacheTypeOK'
<1>TitleWrites. ASSUME NEW f \in Files, NEW c \in Contents \cup {None}, NEW m \in Times, TitleWrites(f, c, m)
  PROVE  CacheTypeOK'
  BY <1>TitleWrites DEF CacheTypeOK, TitleWrites, Touch, store, work
<1>BeginSave. ASSUME NEW s \in Slots, BeginSave(s)
  PROVE  CacheTypeOK'
  BY <1>BeginSave DEF Walked, CacheTypeOK, BeginSave, Phases, disk, store
<1>ReadState. ASSUME NEW s \in Slots, ReadState(s)
  PROVE  CacheTypeOK'
  BY <1>ReadState DEF CacheTypeOK, ReadState, Hashes, disk, store
<1>ListUnchanged. ASSUME NEW f \in Files, ListUnchanged(f)
  PROVE  CacheTypeOK'
  BY <1>ListUnchanged DEF CacheTypeOK, ListUnchanged, Listed, Entries, disk, store
<1>StoreFile. ASSUME NEW f \in Files, StoreFile(f)
  PROVE  CacheTypeOK'
  <2>1. drive[f] \in Contents
    BY <1>StoreFile DEF CacheTypeOK, StoreFile
  <2>2. Entry(f, drive[f], mtime[f], ctime[f]) \in Entries
    BY <2>1 DEF CacheTypeOK, Entries, Entry
  <2>3. g_idx' \subseteq Entries /\ OneEach(g_idx')
    BY <1>StoreFile, <2>2, IndexSetOne DEF CacheTypeOK, StoreFile
  <2>4. list' \subseteq [file : Files, hash : Contents, mtime : Times]
    BY <1>StoreFile, <2>1 DEF CacheTypeOK, StoreFile, Listed
  <2>. QED
    BY <1>StoreFile, <2>1, <2>3, <2>4 DEF CacheTypeOK, StoreFile, disk
<1>StoreFails. CASE StoreFails
  BY <1>StoreFails DEF CacheTypeOK, Phases, StoreFails, disk, store, work, Ends, SaveIndex, OneEach
<1>Stored. CASE Stored
  BY <1>Stored DEF CacheTypeOK, Phases, Stored, disk, store, work, Ends, SaveIndex, OneEach
<1>WriteStateFile. CASE WriteStateFile
  BY <1>WriteStateFile DEF CacheTypeOK, Phases, WriteStateFile, disk, store, work
<1>WriteFails. CASE WriteFails
  BY <1>WriteFails DEF CacheTypeOK, Phases, WriteFails, disk, store, work, Ends, SaveIndex, OneEach
<1>ReadFails. CASE ReadFails
  BY <1>ReadFails DEF CacheTypeOK, Phases, ReadFails, disk, store, work, Ends, SaveIndex, OneEach
<1>Collected. CASE Collected
  BY <1>Collected DEF CacheTypeOK, Phases, Collected, disk, store, work, Ends, SaveIndex, OneEach
<1>RemoveBlob. ASSUME NEW c \in Contents, RemoveBlob(c)
  PROVE  CacheTypeOK'
  BY <1>RemoveBlob DEF CacheTypeOK, Phases, RemoveBlob, disk, store, work
<1>BeginLoad. ASSUME NEW s \in Slots, BeginLoad(s)
  PROVE  CacheTypeOK'
  BY <1>BeginLoad DEF Walked, CacheTypeOK, Phases, BeginLoad, disk, store, work
<1>RemoveFile. ASSUME NEW f \in Files, RemoveFile(f)
  PROVE  CacheTypeOK'
  BY <1>RemoveFile DEF CacheTypeOK, Phases, RemoveFile, disk, store, work
<1>LeaveFile. ASSUME NEW f \in Files, LeaveFile(f)
  PROVE  CacheTypeOK'
  BY <1>LeaveFile DEF CacheTypeOK, Phases, LeaveFile, disk, store, work
<1>KeepFile. ASSUME NEW f \in Files, NEW x \in list, KeepFile(f, x)
  PROVE  CacheTypeOK'
  BY <1>KeepFile DEF CacheTypeOK, Phases, KeepFile, disk, store, work
<1>RestoreFile. ASSUME NEW f \in Files, NEW x \in list, RestoreFile(f, x)
  PROVE  CacheTypeOK'
  <2>1. x.hash \in Contents /\ x.mtime \in Times /\ ctime'[f] \in Nat
    BY <1>RestoreFile DEF CacheTypeOK, RestoreFile, Touch
  <2>2. \A t \in {0, ctime'[f]} : Entry(f, x.hash, x.mtime, t) \in Entries
    BY <2>1 DEF Entries, Entry
  <2>3. g_idx' \subseteq Entries /\ OneEach(g_idx')
    BY <1>RestoreFile, <2>2, IndexSetOne DEF CacheTypeOK, RestoreFile
  <2>. QED
    BY <1>RestoreFile, <2>1, <2>3 DEF CacheTypeOK, RestoreFile, Touch, store
<1>RestoreFails. ASSUME NEW f \in Files, NEW x \in list, RestoreFails(f, x)
  PROVE  CacheTypeOK'
  BY <1>RestoreFails DEF CacheTypeOK, Phases, RestoreFails, disk, store, work, Ends, SaveIndex, OneEach
<1>Loaded. CASE Loaded
  BY <1>Loaded DEF CacheTypeOK, Phases, Loaded, disk, store, work, Ends, SaveIndex, OneEach
<1>Delete. ASSUME NEW s \in Slots, Delete(s)
  PROVE  CacheTypeOK'
  BY <1>Delete DEF CacheTypeOK, Delete, OneEach, disk, work
<1>Boot. CASE Boot
  BY <1>Boot DEF CacheTypeOK, Phases, Boot, disk, store, work
<1>Dies. CASE Dies
  BY <1>Dies DEF CacheTypeOK, Phases, Dies, disk, store, work, Ends, SaveIndex, OneEach
<1>Stutter. CASE UNCHANGED cacheVars
  BY <1>Stutter DEF CacheTypeOK, Phases, cacheVars, disk, store, work
<1>. QED
  BY <1>TitleWrites, <1>BeginSave, <1>ReadState, <1>ListUnchanged,
     <1>StoreFile, <1>StoreFails, <1>Stored, <1>WriteStateFile, <1>WriteFails,
     <1>ReadFails, <1>Collected, <1>RemoveBlob, <1>BeginLoad,
     <1>RemoveFile, <1>LeaveFile, <1>KeepFile, <1>RestoreFile, <1>RestoreFails,
     <1>Loaded, <1>Delete, <1>Boot, <1>Dies, <1>Stutter
  DEF CacheNext, SavingStep, LoadingStep

(* A list with one more file has one more content.                         *)
LEMMA OneMoreHash ==
  ASSUME NEW l, NEW r
  PROVE  Hashes(l \cup {r}) = Hashes(l) \cup {r.hash}
<1>1. \A h : h \in Hashes(l \cup {r}) <=> \E x \in l \cup {r} : h = x.hash
  BY DEF Hashes
<1>2. \A h : h \in Hashes(l) <=> \E x \in l : h = x.hash
  BY DEF Hashes
<1>. QED
  BY <1>1, <1>2

(* Listing a file under a content lists that content.                      *)
LEMMA ListedHashes ==
  ASSUME NEW f, NEW c
  PROVE  Hashes(Listed(f, c)) = Hashes(list) \cup {c}
  BY OneMoreHash DEF Listed

(* Every step keeps what the states list in the store.                     *)
LEMMA SafeStep ==
  ASSUME CacheTypeOK, Safe, [CacheNext]_cacheVars
  PROVE  Safe'
<1>TitleWrites. ASSUME NEW f \in Files, NEW c \in Contents \cup {None}, NEW m \in Times, TitleWrites(f, c, m)
  PROVE  Safe'
  BY <1>TitleWrites DEF CacheTypeOK, Safe, StatesLoadable, ListStored, RefsRead,
     TitleWrites, disk, store, work, Touch
<1>BeginSave. ASSUME NEW s \in Slots, BeginSave(s)
  PROVE  Safe'
  BY <1>BeginSave DEF Walked, CacheTypeOK, Safe, StatesLoadable, ListStored, RefsRead,
     BeginSave, disk, store, work, Hashes
<1>ReadState. ASSUME NEW s \in Slots, ReadState(s)
  PROVE  Safe'
  BY <1>ReadState DEF CacheTypeOK, Safe, StatesLoadable, ListStored, RefsRead,
     ReadState, disk, store, work
<1>ListUnchanged. ASSUME NEW f \in Files, ListUnchanged(f)
  PROVE  Safe'
  <2>1. PICK e \in g_idx : Known(e, f) /\ list' = Listed(f, e.hash)
    BY <1>ListUnchanged DEF ListUnchanged
  <2>2. Hashes(list') = Hashes(list) \cup {e.hash}
    BY <2>1, ListedHashes
  <2>3. e.hash \in blobs
    BY <2>1 DEF Known
  <2>. QED
    BY <1>ListUnchanged, <2>2, <2>3
    DEF ListUnchanged, Safe, StatesLoadable, ListStored, RefsRead, store
<1>StoreFile. ASSUME NEW f \in Files, StoreFile(f)
  PROVE  Safe'
  <2>1. Hashes(list') = Hashes(list) \cup {drive[f]}
    BY <1>StoreFile, ListedHashes DEF StoreFile
  <2>. QED
    BY <1>StoreFile, <2>1 DEF StoreFile, Safe, StatesLoadable, ListStored, RefsRead
<1>StoreFails. CASE StoreFails
  BY <1>StoreFails DEF CacheTypeOK, Safe, StatesLoadable, ListStored, RefsRead,
     StoreFails, disk, store, work, Ends
<1>Stored. CASE Stored
  BY <1>Stored DEF CacheTypeOK, Safe, StatesLoadable, ListStored, RefsRead,
     Stored, disk, store, work, Ends
<1>WriteStateFile. CASE WriteStateFile
  <2>1. \A s \in saved' : files'[s] = list \/ (s \in saved /\ files'[s] = files[s])
    BY <1>WriteStateFile DEF WriteStateFile, CacheTypeOK
  <2>2. Hashes(list) \subseteq blobs
    BY <1>WriteStateFile DEF WriteStateFile, Safe, ListStored
  <2>. QED
    BY <1>WriteStateFile, <2>1, <2>2 DEF WriteStateFile, Safe, StatesLoadable, ListStored, RefsRead
<1>WriteFails. CASE WriteFails
  BY <1>WriteFails DEF CacheTypeOK, Safe, StatesLoadable, ListStored, RefsRead,
     WriteFails, disk, store, work, Ends
<1>ReadFails. CASE ReadFails
  BY <1>ReadFails DEF CacheTypeOK, Safe, StatesLoadable, ListStored, RefsRead,
     ReadFails, disk, store, work, Ends
<1>Collected. CASE Collected
  BY <1>Collected DEF CacheTypeOK, Safe, StatesLoadable, ListStored, RefsRead,
     Collected, disk, store, work, Ends
<1>RemoveBlob. ASSUME NEW c \in Contents, RemoveBlob(c)
  PROVE  Safe'
  <2>1. \A s \in saved : Hashes(files[s]) \subseteq refs
    BY <1>RemoveBlob DEF RemoveBlob, Safe, RefsRead
  <2>. QED
    BY <1>RemoveBlob, <2>1
    DEF RemoveBlob, Safe, StatesLoadable, ListStored, RefsRead, work
<1>BeginLoad. ASSUME NEW s \in Slots, BeginLoad(s)
  PROVE  Safe'
  BY <1>BeginLoad DEF Walked, CacheTypeOK, Safe, StatesLoadable, ListStored, RefsRead,
     BeginLoad, disk, store, work
<1>RemoveFile. ASSUME NEW f \in Files, RemoveFile(f)
  PROVE  Safe'
  BY <1>RemoveFile DEF CacheTypeOK, Safe, StatesLoadable, ListStored, RefsRead,
     RemoveFile, disk, store, work
<1>LeaveFile. ASSUME NEW f \in Files, LeaveFile(f)
  PROVE  Safe'
  BY <1>LeaveFile DEF CacheTypeOK, Safe, StatesLoadable, ListStored, RefsRead,
     LeaveFile, disk, store, work
<1>KeepFile. ASSUME NEW f \in Files, NEW x \in list, KeepFile(f, x)
  PROVE  Safe'
  BY <1>KeepFile DEF CacheTypeOK, Safe, StatesLoadable, ListStored, RefsRead,
     KeepFile, disk, store, work
<1>RestoreFile. ASSUME NEW f \in Files, NEW x \in list, RestoreFile(f, x)
  PROVE  Safe'
  BY <1>RestoreFile DEF CacheTypeOK, Safe, StatesLoadable, ListStored, RefsRead,
     RestoreFile, disk, store, work, Touch
<1>RestoreFails. ASSUME NEW f \in Files, NEW x \in list, RestoreFails(f, x)
  PROVE  Safe'
  BY <1>RestoreFails DEF CacheTypeOK, Safe, StatesLoadable, ListStored, RefsRead,
     RestoreFails, disk, store, work, Ends
<1>Loaded. CASE Loaded
  BY <1>Loaded DEF CacheTypeOK, Safe, StatesLoadable, ListStored, RefsRead,
     Loaded, disk, store, work, Ends
<1>Delete. ASSUME NEW s \in Slots, Delete(s)
  PROVE  Safe'
  BY <1>Delete DEF CacheTypeOK, Safe, StatesLoadable, ListStored, RefsRead,
     Delete, disk, store, work
<1>Boot. CASE Boot
  BY <1>Boot DEF CacheTypeOK, Safe, StatesLoadable, ListStored, RefsRead,
     Boot, disk, store, work
<1>Dies. CASE Dies
  BY <1>Dies DEF CacheTypeOK, Safe, StatesLoadable, ListStored, RefsRead,
     Dies, disk, store, work, Ends
<1>Stutter. CASE UNCHANGED cacheVars
  BY <1>Stutter DEF CacheTypeOK, Safe, StatesLoadable, ListStored, RefsRead,
     cacheVars, disk, store, work
<1>. QED
  BY <1>TitleWrites, <1>BeginSave, <1>ReadState, <1>ListUnchanged,
     <1>StoreFile, <1>StoreFails, <1>Stored, <1>WriteStateFile, <1>WriteFails,
     <1>ReadFails, <1>Collected, <1>RemoveBlob, <1>BeginLoad,
     <1>RemoveFile, <1>LeaveFile, <1>KeepFile, <1>RestoreFile, <1>RestoreFails,
     <1>Loaded, <1>Delete, <1>Boot, <1>Dies, <1>Stutter
  DEF CacheNext, SavingStep, LoadingStep

(* A touch leaves every entry behind that file.                            *)
LEMMA Touched ==
  ASSUME CacheTypeOK, NotAhead, IndexTruthful,
         NEW f \in Files, NEW c \in Contents \cup {None}, NEW m \in Times,
         Touch(f, c, m), UNCHANGED << index, g_idx >>
  PROVE  NotAhead' /\ IndexTruthful'
<1>1. \A e \in index \cup g_idx : e.ctime <= ctime'[e.file] /\ ~Untouched(e, f)'
  BY DEF CacheTypeOK, Entries, NotAhead, Untouched, Touch
<1>2. \A e \in index \cup g_idx, g \in Files \ {f} : Untouched(e, g)' => Untouched(e, g)
  BY DEF CacheTypeOK, Untouched, Touch
<1>3. \A g \in Files \ {f} : drive'[g] = drive[g]
  BY DEF CacheTypeOK, Touch
<1>. QED
  BY <1>1, <1>2, <1>3 DEF NotAhead, IndexTruthful

(* Every step keeps the indexes truthful.                                  *)
LEMMA IndexStep ==
  ASSUME CacheTypeOK, NotAhead, IndexTruthful, [CacheNext]_cacheVars
  PROVE  NotAhead' /\ IndexTruthful'
<1>TitleWrites. ASSUME NEW f \in Files, NEW c \in Contents \cup {None}, NEW m \in Times, TitleWrites(f, c, m)
  PROVE  NotAhead' /\ IndexTruthful'
  BY <1>TitleWrites, Touched DEF CacheTypeOK, TitleWrites, store, work
<1>BeginSave. ASSUME NEW s \in Slots, BeginSave(s)
  PROVE  NotAhead' /\ IndexTruthful'
  BY <1>BeginSave DEF Walked, CacheTypeOK, NotAhead, IndexTruthful, Untouched,
     BeginSave, disk, store, work
<1>ReadState. ASSUME NEW s \in Slots, ReadState(s)
  PROVE  NotAhead' /\ IndexTruthful'
  BY <1>ReadState DEF CacheTypeOK, NotAhead, IndexTruthful, Untouched,
     ReadState, disk, store, work
<1>ListUnchanged. ASSUME NEW f \in Files, ListUnchanged(f)
  PROVE  NotAhead' /\ IndexTruthful'
  BY <1>ListUnchanged DEF CacheTypeOK, NotAhead, IndexTruthful, Untouched,
     ListUnchanged, disk, store, work
<1>StoreFile. ASSUME NEW f \in Files, StoreFile(f)
  PROVE  NotAhead' /\ IndexTruthful'
  <2>1. Entry(f, drive[f], mtime[f], ctime[f]) \in Entries
    BY <1>StoreFile DEF CacheTypeOK, StoreFile, Entries, Entry
  <2>. QED
    BY <1>StoreFile, <2>1
    DEF CacheTypeOK, NotAhead, IndexTruthful, Untouched, StoreFile, IndexSet, Entry, disk
<1>StoreFails. CASE StoreFails
  BY <1>StoreFails DEF CacheTypeOK, NotAhead, IndexTruthful, Untouched,
     StoreFails, disk, store, work, Ends, SaveIndex
<1>Stored. CASE Stored
  BY <1>Stored DEF CacheTypeOK, NotAhead, IndexTruthful, Untouched,
     Stored, disk, store, work, Ends, SaveIndex
<1>WriteStateFile. CASE WriteStateFile
  BY <1>WriteStateFile DEF CacheTypeOK, NotAhead, IndexTruthful, Untouched,
     WriteStateFile, disk, store, work
<1>WriteFails. CASE WriteFails
  BY <1>WriteFails DEF CacheTypeOK, NotAhead, IndexTruthful, Untouched,
     WriteFails, disk, store, work, Ends, SaveIndex
<1>ReadFails. CASE ReadFails
  BY <1>ReadFails DEF CacheTypeOK, NotAhead, IndexTruthful, Untouched,
     ReadFails, disk, store, work, Ends, SaveIndex
<1>Collected. CASE Collected
  BY <1>Collected DEF CacheTypeOK, NotAhead, IndexTruthful, Untouched,
     Collected, disk, store, work, Ends, SaveIndex
<1>RemoveBlob. ASSUME NEW c \in Contents, RemoveBlob(c)
  PROVE  NotAhead' /\ IndexTruthful'
  BY <1>RemoveBlob DEF CacheTypeOK, NotAhead, IndexTruthful, Untouched,
     RemoveBlob, disk, store, work
<1>BeginLoad. ASSUME NEW s \in Slots, BeginLoad(s)
  PROVE  NotAhead' /\ IndexTruthful'
  BY <1>BeginLoad DEF Walked, CacheTypeOK, NotAhead, IndexTruthful, Untouched,
     BeginLoad, disk, store, work
<1>RemoveFile. ASSUME NEW f \in Files, RemoveFile(f)
  PROVE  NotAhead' /\ IndexTruthful'
  BY <1>RemoveFile DEF CacheTypeOK, NotAhead, IndexTruthful, Untouched,
     RemoveFile, disk, store, work
<1>LeaveFile. ASSUME NEW f \in Files, LeaveFile(f)
  PROVE  NotAhead' /\ IndexTruthful'
  BY <1>LeaveFile DEF CacheTypeOK, NotAhead, IndexTruthful, Untouched,
     LeaveFile, disk, store, work
<1>KeepFile. ASSUME NEW f \in Files, NEW x \in list, KeepFile(f, x)
  PROVE  NotAhead' /\ IndexTruthful'
  BY <1>KeepFile DEF CacheTypeOK, NotAhead, IndexTruthful, Untouched,
     KeepFile, disk, store, work
<1>RestoreFile. ASSUME NEW f \in Files, NEW x \in list, RestoreFile(f, x)
  PROVE  NotAhead' /\ IndexTruthful'
  <2>1. \A e \in index \cup g_idx : e.ctime <= ctime'[e.file] /\ ~(e.file = f /\ Untouched(e, f)')
    BY <1>RestoreFile DEF CacheTypeOK, Entries, NotAhead, Untouched, RestoreFile, Touch
  <2>2. \A e \in index \cup g_idx, g \in Files : Untouched(e, g)' => e.hash = drive'[g]
    BY <1>RestoreFile, <2>1
    DEF CacheTypeOK, IndexTruthful, Untouched, RestoreFile, Touch
  <2>3. drive'[f] = x.hash /\ ctime'[f] \in Nat
    BY <1>RestoreFile DEF CacheTypeOK, RestoreFile, Touch
  <2>. QED
    BY <1>RestoreFile, <2>1, <2>2, <2>3
    DEF NotAhead, IndexTruthful, Untouched, RestoreFile, IndexSet, Entry, store
<1>RestoreFails. ASSUME NEW f \in Files, NEW x \in list, RestoreFails(f, x)
  PROVE  NotAhead' /\ IndexTruthful'
  BY <1>RestoreFails DEF CacheTypeOK, NotAhead, IndexTruthful, Untouched,
     RestoreFails, disk, store, work, Ends, SaveIndex
<1>Loaded. CASE Loaded
  BY <1>Loaded DEF CacheTypeOK, NotAhead, IndexTruthful, Untouched,
     Loaded, disk, store, work, Ends, SaveIndex
<1>Delete. ASSUME NEW s \in Slots, Delete(s)
  PROVE  NotAhead' /\ IndexTruthful'
  BY <1>Delete DEF CacheTypeOK, NotAhead, IndexTruthful, Untouched,
     Delete, disk, store, work
<1>Boot. CASE Boot
  BY <1>Boot DEF CacheTypeOK, NotAhead, IndexTruthful, Untouched,
     Boot, disk, store, work
<1>Dies. CASE Dies
  BY <1>Dies DEF CacheTypeOK, NotAhead, IndexTruthful, Untouched,
     Dies, disk, store, work, Ends, SaveIndex
<1>Stutter. CASE UNCHANGED cacheVars
  BY <1>Stutter DEF CacheTypeOK, NotAhead, IndexTruthful, Untouched,
     cacheVars, disk, store, work
<1>. QED
  BY <1>TitleWrites, <1>BeginSave, <1>ReadState, <1>ListUnchanged,
     <1>StoreFile, <1>StoreFails, <1>Stored, <1>WriteStateFile, <1>WriteFails,
     <1>ReadFails, <1>Collected, <1>RemoveBlob, <1>BeginLoad,
     <1>RemoveFile, <1>LeaveFile, <1>KeepFile, <1>RestoreFile, <1>RestoreFails,
     <1>Loaded, <1>Delete, <1>Boot, <1>Dies, <1>Stutter
  DEF CacheNext, SavingStep, LoadingStep

(* Nothing is stored, listed or indexed at the start.                      *)
LEMMA CacheInitially == CacheInit => CacheIInv
  BY DEF CacheInit, CacheIInv, CacheTypeOK, Phases, OneEach, Safe, StatesLoadable, ListStored, RefsRead,
         NotAhead, IndexTruthful

(* What a listed file says is in the store, and what an index says is so,  *)
(* however saves, loads, deletions and deaths of the process follow each   *)
(* other (cache.c).                                                        *)
THEOREM CacheInvariant == CacheSpec => []CacheIInv
<1>1. CacheIInv /\ [CacheNext]_cacheVars => CacheIInv'
  BY TypeStep, SafeStep, IndexStep DEF CacheIInv
<1>. QED
  BY CacheInitially, <1>1, PTL DEF CacheSpec

(* The states' blobs, the indexes and the types, for every instance.       *)
THEOREM StatesStayLoadable == CacheSpec => []StatesLoadable
<1>1. CacheIInv => StatesLoadable
  BY DEF CacheIInv, Safe
<1>. QED
  BY CacheInvariant, <1>1, PTL

(* An index entry whose time is the file's tells what the file holds, so   *)
(* a save that skips reading such a file lists it rightly (cache.c         *)
(* blob_find).                                                             *)
THEOREM IndexStaysTruthful == CacheSpec => []IndexTruthful
<1>1. CacheIInv => IndexTruthful
  BY DEF CacheIInv
<1>. QED
  BY CacheInvariant, <1>1, PTL

(* The store, the states and the indexes keep their types, and an index    *)
(* has one entry for a file (cache.c index_set).                           *)
THEOREM CacheTypesOK == CacheSpec => []CacheTypeOK
<1>1. CacheIInv => CacheTypeOK
  BY DEF CacheIInv
<1>. QED
  BY CacheInvariant, <1>1, PTL

(***************************************************************************)
(* The states are snapshots: the promise of SavedDrives is kept.           *)
(***************************************************************************)

(* A list has one entry for a file at most.                                *)
ListsOneEach == OneEach(list) /\ \A s \in Slots : OneEach(files[s])

(* One slot is saved or loaded.                                            *)
OneSlot == phase \in {"store", "write", "load"} => \E s \in Slots : slot = {s}

(* What is listed is what the drive holds, of the files seen to, but for   *)
(* those missed.                                                           *)
ListExact ==
  phase \in {"store", "write"} =>
    /\ \A x \in list : x.file \notin todo
    /\ \A f \in todo : f \notin missed
    /\ \A f \in Files \ todo : Snapshot(list)[f] = IF f \in missed THEN None ELSE drive[f]
    /\ phase = "write" => todo = {}

(* A load's files are the state's, of the files seen to, but for those     *)
(* missed that the state does not have.                                    *)
LoadExact ==
  phase = "load" =>
    /\ slot \subseteq saved /\ \A s \in slot : list = files[s]
    /\ \A f \in Files \ todo :
         Snapshot(list)[f] = drive[f] \/ (f \in missed /\ Snapshot(list)[f] = None)

Exact == ListsOneEach /\ OneSlot /\ ListExact /\ LoadExact

(* What a list says of a file is what its only entry for it says.          *)
LEMMA SnapshotOf ==
  ASSUME NEW l, OneEach(l), NEW f \in Files
  PROVE  /\ \A x \in l : x.file = f => Snapshot(l)[f] = x.hash
         /\ (~\E x \in l : x.file = f) => Snapshot(l)[f] = None
<1>1. CASE \E x \in l : x.file = f
  <2>1. PICK y \in l : y.file = f
    BY <1>1
  <2>2. (CHOOSE x \in l : x.file = f) = y
    BY <2>1 DEF OneEach
  <2>3. Snapshot(l)[f] = y.hash
    BY <1>1, <2>2 DEF Snapshot
  <2>. QED
    BY <2>1, <2>3 DEF OneEach
<1>2. CASE ~\E x \in l : x.file = f
  BY <1>2 DEF Snapshot
<1>. QED
  BY <1>1, <1>2

(* One file more in a list.                                                *)
LEMMA SnapshotAdded ==
  ASSUME NEW l, OneEach(l), NEW r, \A x \in l : x.file # r.file
  PROVE  /\ OneEach(l \cup {r})
         /\ \A f \in Files : Snapshot(l \cup {r})[f] =
                IF f = r.file THEN r.hash ELSE Snapshot(l)[f]
<1>1. OneEach(l \cup {r})
  BY DEF OneEach
<1>2. ASSUME NEW f \in Files, f = r.file PROVE Snapshot(l \cup {r})[f] = r.hash
  BY <1>1, <1>2, SnapshotOf
<1>3. ASSUME NEW f \in Files, f # r.file PROVE Snapshot(l \cup {r})[f] = Snapshot(l)[f]
  <2>1. CASE \E x \in l : x.file = f
    BY <1>1, <2>1, SnapshotOf
  <2>2. CASE ~\E x \in l : x.file = f
    BY <1>1, <1>3, <2>2, SnapshotOf
  <2>. QED
    BY <2>1, <2>2
<1>. QED
  BY <1>1, <1>2, <1>3

(* The list of a save with f's content in it.                              *)
LEMMA ListedExact ==
  ASSUME CacheTypeOK, Exact, phase = "store", NEW f \in todo,
         list' = Listed(f, drive[f]), todo' = todo \ {f},
         UNCHANGED << drive, phase, slot, saved, files, missed >>
  PROVE  Exact'
<1>. DEFINE r == [file |-> f, hash |-> drive[f], mtime |-> mtime[f]]
<1>1. r.file = f /\ r.hash = drive[f] /\ list' = list \cup {r}
  BY DEF Listed
<1>2. OneEach(list) /\ \A x \in list : x.file # r.file
  BY <1>1 DEF Exact, ListsOneEach, ListExact
<1>. HIDE DEF r
<1>3. /\ OneEach(list')
      /\ \A g \in Files : Snapshot(list')[g] = IF g = f THEN drive[f] ELSE Snapshot(list)[g]
  BY <1>1, <1>2, SnapshotAdded
<1>4. ListsOneEach' /\ OneSlot' /\ LoadExact'
  BY <1>3 DEF Exact, ListsOneEach, OneSlot, LoadExact
<1>5. \A x \in list' : x.file \notin todo'
  BY <1>1 DEF Exact, ListExact
<1>6. /\ \A g \in todo' : g \notin missed'
      /\ \A g \in Files \ todo' : Snapshot(list')[g] = IF g \in missed' THEN None ELSE drive'[g]
  BY <1>3 DEF Exact, ListExact
<1>. QED
  BY <1>4, <1>5, <1>6 DEF Exact, ListExact

(* A file of a load that now is as its list has it.                        *)
LEMMA FileRestored ==
  ASSUME CacheTypeOK, Exact, phase = "load", NEW f \in todo,
         todo' = todo \ {f}, UNCHANGED << phase, slot, saved, files, list, missed >>,
         drive' = [drive EXCEPT ![f] = Snapshot(list)[f]]
  PROVE  Exact'
<1>1. ListsOneEach' /\ OneSlot' /\ ListExact'
  BY DEF Exact, ListsOneEach, OneSlot, ListExact
<1>2. \A g \in Files : drive'[g] = IF g = f THEN Snapshot(list)[f] ELSE drive[g]
  BY DEF CacheTypeOK
<1>3. \A g \in Files \ todo' :
        Snapshot(list')[g] = drive'[g] \/ (g \in missed' /\ Snapshot(list')[g] = None)
  BY <1>2 DEF Exact, LoadExact
<1>4. LoadExact'
  BY <1>3 DEF Exact, LoadExact
<1>. QED
  BY <1>1, <1>4 DEF Exact

(* What the state lists of a file is its snapshot.                         *)
LEMMA ToRestoreIs ==
  ASSUME CacheTypeOK, Exact, NEW f \in Files, NEW x \in list, ToRestore(f, x)
  PROVE  Snapshot(list)[f] = x.hash
  BY SnapshotOf DEF Exact, ListsOneEach, ToRestore

(* Every step keeps the lists exact.                                       *)
LEMMA ExactStep ==
  ASSUME CacheTypeOK, IndexTruthful, Exact, [CacheNext]_cacheVars
  PROVE  Exact'
<1>TitleWrites. ASSUME NEW f \in Files, NEW c \in Contents \cup {None}, NEW m \in Times, TitleWrites(f, c, m)
  PROVE  Exact'
  BY <1>TitleWrites DEF CacheTypeOK, Exact, ListsOneEach, OneSlot, ListExact, LoadExact,
     TitleWrites, disk, store, work, Touch
<1>BeginSave. ASSUME NEW s \in Slots, BeginSave(s)
  PROVE  Exact'
  <2>1. OneEach(list')
    BY <1>BeginSave DEF Walked, BeginSave, OneEach
  <2>2. \A f \in Files \ todo' : Snapshot(list')[f] = None
    BY <1>BeginSave, <2>1, SnapshotOf DEF Walked, BeginSave
  <2>3. /\ \A f \in todo' : f \notin missed'
        /\ \A f \in Files \ todo' : f \in missed' \/ drive'[f] = None
    BY <1>BeginSave DEF Walked, BeginSave, disk
  <2>. QED
    BY <1>BeginSave, <2>1, <2>2, <2>3
    DEF Walked, BeginSave, Exact, ListsOneEach, OneSlot, ListExact, LoadExact, disk, store
<1>ReadState. ASSUME NEW s \in Slots, ReadState(s)
  PROVE  Exact'
  BY <1>ReadState DEF CacheTypeOK, Exact, ListsOneEach, OneSlot, ListExact, LoadExact,
     ReadState, disk, store, work
<1>ListUnchanged. ASSUME NEW f \in Files, ListUnchanged(f)
  PROVE  Exact'
  <2>1. PICK e \in g_idx : Known(e, f) /\ list' = Listed(f, e.hash)
    BY <1>ListUnchanged DEF ListUnchanged
  <2>2. e.hash = drive[f]
    BY <2>1 DEF IndexTruthful, Known
  <2>. QED
    BY <1>ListUnchanged, <2>1, <2>2, ListedExact DEF ListUnchanged, disk, store
<1>StoreFile. ASSUME NEW f \in Files, StoreFile(f)
  PROVE  Exact'
  BY <1>StoreFile, ListedExact DEF StoreFile, disk
<1>StoreFails. CASE StoreFails
  BY <1>StoreFails DEF CacheTypeOK, Exact, ListsOneEach, OneSlot, ListExact, LoadExact,
     StoreFails, disk, store, work, Ends, OneEach
<1>Stored. CASE Stored
  BY <1>Stored DEF CacheTypeOK, Exact, ListsOneEach, OneSlot, ListExact, LoadExact,
     Stored, disk, store, work, Ends, OneEach
<1>WriteStateFile. CASE WriteStateFile
  BY <1>WriteStateFile
  DEF WriteStateFile, CacheTypeOK, Exact, ListsOneEach, OneSlot, ListExact, LoadExact
<1>WriteFails. CASE WriteFails
  BY <1>WriteFails DEF CacheTypeOK, Exact, ListsOneEach, OneSlot, ListExact, LoadExact,
     WriteFails, disk, store, work, Ends, OneEach
<1>ReadFails. CASE ReadFails
  BY <1>ReadFails DEF CacheTypeOK, Exact, ListsOneEach, OneSlot, ListExact, LoadExact,
     ReadFails, disk, store, work, Ends, OneEach
<1>Collected. CASE Collected
  BY <1>Collected DEF CacheTypeOK, Exact, ListsOneEach, OneSlot, ListExact, LoadExact,
     Collected, disk, store, work, Ends, OneEach
<1>RemoveBlob. ASSUME NEW c \in Contents, RemoveBlob(c)
  PROVE  Exact'
  BY <1>RemoveBlob DEF CacheTypeOK, Exact, ListsOneEach, OneSlot, ListExact, LoadExact,
     RemoveBlob, disk, store, work
<1>BeginLoad. ASSUME NEW s \in Slots, BeginLoad(s)
  PROVE  Exact'
  BY <1>BeginLoad DEF Walked, CacheTypeOK, Exact, ListsOneEach, OneSlot, ListExact, LoadExact,
     BeginLoad, disk, store, work
<1>RemoveFile. ASSUME NEW f \in Files, RemoveFile(f)
  PROVE  Exact'
  <2>1. Snapshot(list)[f] = None
    BY <1>RemoveFile, SnapshotOf DEF RemoveFile, Lists, Exact, ListsOneEach
  <2>. QED
    BY <1>RemoveFile, <2>1, FileRestored DEF RemoveFile, store
<1>LeaveFile. ASSUME NEW f \in Files, LeaveFile(f)
  PROVE  Exact'
  <2>1. Snapshot(list)[f] = None
    BY <1>LeaveFile, SnapshotOf DEF LeaveFile, Lists, Exact, ListsOneEach
  <2>2. UNCHANGED << drive, phase, slot, saved, files, list >> /\ phase = "load"
    BY <1>LeaveFile DEF LeaveFile, disk, store
  <2>3. f \in missed' /\ missed \subseteq missed' /\ todo' = todo \ {f}
    BY <1>LeaveFile DEF LeaveFile
  <2>4. ListsOneEach' /\ OneSlot' /\ ListExact'
    BY <2>2 DEF Exact, ListsOneEach, OneSlot, ListExact
  <2>5. LoadExact'
    BY <2>1, <2>2, <2>3 DEF Exact, LoadExact
  <2>. QED
    BY <2>4, <2>5 DEF Exact
<1>KeepFile. ASSUME NEW f \in Files, NEW x \in list, KeepFile(f, x)
  PROVE  Exact'
  <2>1. Snapshot(list)[f] = x.hash
    BY <1>KeepFile, ToRestoreIs DEF KeepFile
  <2>2. drive[f] = x.hash
    BY <1>KeepFile DEF KeepFile, AsSaved, IndexTruthful
  <2>3. drive' = [drive EXCEPT ![f] = Snapshot(list)[f]]
    BY <1>KeepFile, <2>1, <2>2 DEF KeepFile, CacheTypeOK, disk
  <2>. QED
    BY <1>KeepFile, <2>3, FileRestored DEF KeepFile, ToRestore, store
<1>RestoreFile. ASSUME NEW f \in Files, NEW x \in list, RestoreFile(f, x)
  PROVE  Exact'
  <2>1. Snapshot(list)[f] = x.hash
    BY <1>RestoreFile, ToRestoreIs DEF RestoreFile
  <2>. QED
    BY <1>RestoreFile, <2>1, FileRestored DEF RestoreFile, ToRestore, Touch, store
<1>RestoreFails. ASSUME NEW f \in Files, NEW x \in list, RestoreFails(f, x)
  PROVE  Exact'
  BY <1>RestoreFails DEF CacheTypeOK, Exact, ListsOneEach, OneSlot, ListExact, LoadExact,
     RestoreFails, disk, store, work, Ends, OneEach
<1>Loaded. CASE Loaded
  BY <1>Loaded DEF CacheTypeOK, Exact, ListsOneEach, OneSlot, ListExact, LoadExact,
     Loaded, disk, store, work, Ends, OneEach
<1>Delete. ASSUME NEW s \in Slots, Delete(s)
  PROVE  Exact'
  BY <1>Delete DEF CacheTypeOK, Exact, ListsOneEach, OneSlot, ListExact, LoadExact,
     Delete, disk, store, work, OneEach
<1>Boot. CASE Boot
  BY <1>Boot DEF CacheTypeOK, Exact, ListsOneEach, OneSlot, ListExact, LoadExact,
     Boot, disk, store, work
<1>Dies. CASE Dies
  BY <1>Dies DEF CacheTypeOK, Exact, ListsOneEach, OneSlot, ListExact, LoadExact,
     Dies, disk, store, work, Ends, OneEach
<1>Stutter. CASE UNCHANGED cacheVars
  BY <1>Stutter DEF CacheTypeOK, Exact, ListsOneEach, OneSlot, ListExact, LoadExact,
     cacheVars, disk, store, work
<1>. QED
  BY <1>TitleWrites, <1>BeginSave, <1>ReadState, <1>ListUnchanged,
     <1>StoreFile, <1>StoreFails, <1>Stored, <1>WriteStateFile, <1>WriteFails,
     <1>ReadFails, <1>Collected, <1>RemoveBlob, <1>BeginLoad,
     <1>RemoveFile, <1>LeaveFile, <1>KeepFile, <1>RestoreFile, <1>RestoreFails,
     <1>Loaded, <1>Delete, <1>Boot, <1>Dies, <1>Stutter
  DEF CacheNext, SavingStep, LoadingStep

(* The abstract variables.                                                 *)
Snapshots == [s \in Slots |-> Snapshot(files[s])]
LoadingNow == IF phase = "load" THEN slot ELSE {}
RunningNow == phase \notin {"down", "load"}

(* A step that changes nothing the promise sees.                           *)
LEMMA Unseen ==
  ASSUME UNCHANGED << drive, saved, files, LoadingNow, RunningNow >>
  PROVE  [Promise!Next]_(Promise!vars)
  BY DEF Promise!vars, LoadingNow, RunningNow

(* The slot of a save or of a load.                                        *)
LEMMA TheSlot ==
  ASSUME OneSlot, phase \in {"store", "write", "load"}
  PROVE  \E s \in Slots : slot = {s}
  BY DEF OneSlot

(* Every step is one of the promise, or nothing it sees.                   *)
LEMMA PromiseStep ==
  ASSUME CacheTypeOK, Exact, [CacheNext]_cacheVars
  PROVE  [Promise!Next]_(Promise!vars)
<1>TitleWrites. ASSUME NEW f \in Files, NEW c \in Contents \cup {None}, NEW m \in Times, TitleWrites(f, c, m)
  PROVE  [Promise!Next]_(Promise!vars)
  <2>1. Promise!TitleWrites(f, c)
    BY <1>TitleWrites DEF TitleWrites, Touch, Promise!TitleWrites, store, work
  <2>. QED
    BY <2>1 DEF Promise!Next
<1>BeginSave. ASSUME NEW s \in Slots, BeginSave(s)
  PROVE  [Promise!Next]_(Promise!vars)
  BY <1>BeginSave, Unseen DEF Walked, BeginSave, LoadingNow, RunningNow, disk, store, work
<1>ReadState. ASSUME NEW s \in Slots, ReadState(s)
  PROVE  [Promise!Next]_(Promise!vars)
  BY <1>ReadState, Unseen DEF ReadState, LoadingNow, RunningNow, disk, store, work
<1>ListUnchanged. ASSUME NEW f \in Files, ListUnchanged(f)
  PROVE  [Promise!Next]_(Promise!vars)
  BY <1>ListUnchanged, Unseen DEF ListUnchanged, LoadingNow, RunningNow, disk, store, work
<1>StoreFile. ASSUME NEW f \in Files, StoreFile(f)
  PROVE  [Promise!Next]_(Promise!vars)
  BY <1>StoreFile, Unseen DEF StoreFile, LoadingNow, RunningNow, disk, store, work
<1>StoreFails. CASE StoreFails
  BY <1>StoreFails, Unseen DEF StoreFails, LoadingNow, RunningNow, Ends,
     disk, store, work
<1>Stored. CASE Stored
  BY <1>Stored, Unseen DEF Stored, LoadingNow, RunningNow, Ends,
     disk, store, work
<1>WriteStateFile. CASE WriteStateFile
  <2>1. PICK s \in Slots : slot = {s}
    BY <1>WriteStateFile, TheSlot DEF WriteStateFile, Exact
  <2>0. \A f \in Files : Snapshot(list)[f] = IF f \in missed THEN None ELSE drive[f]
    BY <1>WriteStateFile DEF WriteStateFile, Exact, ListExact
  <2>2. Snapshot(list) = [f \in Files |-> IF f \in missed THEN None ELSE drive[f]]
    BY <2>0 DEF Snapshot
  <2>3. files' = [files EXCEPT ![s] = list]
    BY <1>WriteStateFile, <2>1 DEF WriteStateFile, CacheTypeOK
  <2>4. Snapshots' = [Snapshots EXCEPT ![s] =
                          [f \in Files |-> IF f \in missed THEN None ELSE drive[f]]]
    BY <2>2, <2>3 DEF Snapshots, CacheTypeOK
  <2>5. Promise!Save(s)
    BY <1>WriteStateFile, <2>1, <2>4 DEF WriteStateFile, Promise!Save, Snapshots, disk
  <2>. QED
    BY <2>5 DEF Promise!Next
<1>WriteFails. CASE WriteFails
  BY <1>WriteFails, Unseen DEF WriteFails, LoadingNow, RunningNow, Ends,
     disk, store, work
<1>ReadFails. CASE ReadFails
  BY <1>ReadFails, Unseen DEF ReadFails, LoadingNow, RunningNow, Ends,
     disk, store, work
<1>Collected. CASE Collected
  BY <1>Collected, Unseen DEF Collected, LoadingNow, RunningNow, Ends,
     disk, store, work
<1>RemoveBlob. ASSUME NEW c \in Contents, RemoveBlob(c)
  PROVE  [Promise!Next]_(Promise!vars)
  BY <1>RemoveBlob, Unseen DEF RemoveBlob, LoadingNow, RunningNow, disk, store, work
<1>BeginLoad. ASSUME NEW s \in Slots, BeginLoad(s)
  PROVE  [Promise!Next]_(Promise!vars)
  <2>1. Promise!BeginLoad(s)
    BY <1>BeginLoad DEF Walked, BeginLoad, Promise!BeginLoad, disk, store
  <2>. QED
    BY <2>1 DEF Promise!Next
<1>RemoveFile. ASSUME NEW f \in Files, RemoveFile(f)
  PROVE  [Promise!Next]_(Promise!vars)
  <2>1. PICK s \in Slots : slot = {s}
    BY <1>RemoveFile, TheSlot DEF RemoveFile, Exact
  <2>2. Snapshot(list)[f] = drive'[f] /\ drive' = [drive EXCEPT ![f] = drive'[f]]
    <3>1. drive' = [drive EXCEPT ![f] = Snapshot(list)[f]]
      BY <1>RemoveFile, SnapshotOf DEF RemoveFile, Lists, Exact, ListsOneEach
    <3>. QED
      BY <3>1 DEF CacheTypeOK
  <2>3. list = files[s]
    BY <1>RemoveFile, <2>1 DEF RemoveFile, Exact, LoadExact
  <2>4. Promise!RestoreFile(s, f)
    BY <1>RemoveFile, <2>1, <2>2, <2>3 DEF RemoveFile, Promise!RestoreFile, store
  <2>. QED
    BY <2>4 DEF Promise!Next
<1>LeaveFile. ASSUME NEW f \in Files, LeaveFile(f)
  PROVE  [Promise!Next]_(Promise!vars)
  BY <1>LeaveFile, Unseen DEF LeaveFile, LoadingNow, RunningNow, disk, store, work
<1>KeepFile. ASSUME NEW f \in Files, NEW x \in list, KeepFile(f, x)
  PROVE  [Promise!Next]_(Promise!vars)
  BY <1>KeepFile, Unseen DEF KeepFile, LoadingNow, RunningNow, disk, store, work, ToRestore
<1>RestoreFile. ASSUME NEW f \in Files, NEW x \in list, RestoreFile(f, x)
  PROVE  [Promise!Next]_(Promise!vars)
  <2>1. PICK s \in Slots : slot = {s}
    BY <1>RestoreFile, TheSlot DEF RestoreFile, ToRestore, Exact
  <2>2. Snapshot(list)[f] = drive'[f] /\ drive' = [drive EXCEPT ![f] = drive'[f]]
    <3>1. drive' = [drive EXCEPT ![f] = Snapshot(list)[f]]
      BY <1>RestoreFile, ToRestoreIs DEF RestoreFile, Touch
    <3>. QED
      BY <3>1 DEF CacheTypeOK
  <2>3. list = files[s]
    BY <1>RestoreFile, <2>1 DEF RestoreFile, ToRestore, Exact, LoadExact
  <2>4. Promise!RestoreFile(s, f)
    BY <1>RestoreFile, <2>1, <2>2, <2>3 DEF RestoreFile, ToRestore, Promise!RestoreFile, store
  <2>. QED
    BY <2>4 DEF Promise!Next
<1>RestoreFails. ASSUME NEW f \in Files, NEW x \in list, RestoreFails(f, x)
  PROVE  [Promise!Next]_(Promise!vars)
  <2>1. Promise!Stop
    BY <1>RestoreFails DEF RestoreFails, Ends, Promise!Stop, disk, store
  <2>. QED
    BY <2>1 DEF Promise!Next
<1>Loaded. CASE Loaded
  <2>1. PICK s \in Slots : slot = {s}
    BY <1>Loaded, TheSlot DEF Loaded, Exact
  <2>2. \A f \in Files : \/ drive[f] = Snapshot(files[s])[f]
                         \/ f \in missed /\ Snapshot(files[s])[f] = None
    BY <1>Loaded, <2>1 DEF Loaded, Exact, LoadExact
  <2>3. Promise!Loaded(s)
    BY <1>Loaded, <2>1, <2>2 DEF Loaded, Ends, Promise!Loaded, disk
  <2>. QED
    BY <2>3 DEF Promise!Next
<1>Delete. ASSUME NEW s \in Slots, Delete(s)
  PROVE  [Promise!Next]_(Promise!vars)
  <2>1. Snapshot({}) = [f \in Files |-> None]
    BY DEF Snapshot
  <2>2. Snapshots' = [Snapshots EXCEPT ![s] = [f \in Files |-> None]]
    BY <1>Delete, <2>1 DEF Delete, Snapshots, CacheTypeOK
  <2>3. Promise!Delete(s)
    BY <1>Delete, <2>2 DEF Delete, Promise!Delete, Promise!Nothing, Snapshots, disk, work
  <2>. QED
    BY <2>3 DEF Promise!Next
<1>Boot. CASE Boot
  <2>1. Promise!Boot
    BY <1>Boot DEF Boot, Promise!Boot, disk, store, work
  <2>. QED
    BY <2>1 DEF Promise!Next
<1>Dies. CASE Dies
  <2>1. Promise!Stop
    BY <1>Dies DEF Dies, Ends, Promise!Stop, disk, store
  <2>. QED
    BY <2>1 DEF Promise!Next
<1>Stutter. CASE UNCHANGED cacheVars
  BY <1>Stutter, Unseen DEF cacheVars, LoadingNow, RunningNow, disk, store, work
<1>. QED
  BY <1>TitleWrites, <1>BeginSave, <1>ReadState, <1>ListUnchanged,
     <1>StoreFile, <1>StoreFails, <1>Stored, <1>WriteStateFile, <1>WriteFails,
     <1>ReadFails, <1>Collected, <1>RemoveBlob, <1>BeginLoad,
     <1>RemoveFile, <1>LeaveFile, <1>KeepFile, <1>RestoreFile, <1>RestoreFails,
     <1>Loaded, <1>Delete, <1>Boot, <1>Dies, <1>Stutter
  DEF CacheNext, SavingStep, LoadingStep

(* A state is the drive as it was, and a load that ends leaves the drive   *)
(* as the state has it, for every instance, but for the files the host     *)
(* hides or will not have removed (cache.c walk, restore_drive).           *)
THEOREM StatesAreSnapshots == CacheSpec => KeepsPromise
<1>1. CacheInit => Promise!Init /\ Exact
  BY DEF CacheInit, Promise!Init, Promise!Drives, Promise!Nothing, Snapshot,
         Exact, ListsOneEach, OneEach, OneSlot, ListExact, LoadExact
<1>2. CacheIInv /\ Exact /\ [CacheNext]_cacheVars => Exact'
  BY ExactStep DEF CacheIInv
<1>3. CacheIInv /\ Exact /\ [CacheNext]_cacheVars => [Promise!Next]_(Promise!vars)
  BY PromiseStep DEF CacheIInv
<1>. QED
  BY CacheInvariant, <1>1, <1>2, <1>3, PTL DEF CacheSpec, KeepsPromise, Promise!Spec

-----------------------------------------------------------------------------
(***************************************************************************)
(* Pause: the machine stands still for it.                                 *)
(***************************************************************************)

(***************************************************************************)
(* The inductive invariant, for any devices.                               *)
(***************************************************************************)

(* TypeOK in two parts: what is in the records, and who is where.          *)
Records ==
  /\ pause \in [on : BOOLEAN, cpuWork : BOOLEAN, parked : [Devices -> BOOLEAN]]
  /\ irq \in [line : BOOLEAN, work : BOOLEAN, request : BOOLEAN, idling : BOOLEAN]
  /\ entered \in {"call", "interrupt", "idle"}
  /\ ring \in [Posters -> {"done", "work", "request", "look", "wake"}]
  /\ save \in [pending : BOOLEAN, taking : BOOLEAN, done : BOOLEAN, was : BOOLEAN,
               decoder : BOOLEAN, early : BOOLEAN]

Places ==
  /\ DOMAIN at = Threads
  /\ \A d \in Devices : at[d] \in DevicePlaces
  /\ at[Cpu] \in CpuPlaces /\ at[App] \in Saving \cup {"plays", "menu"}
  /\ irq.idling <=> at[Cpu] \in {"idle_locks", "idle_asleep"}

(* The three sleeps of NobodySleepsThrough.                                *)
IdleWoken ==
  at[Cpu] = "idle_asleep" /\ Roused =>
    \E p \in Posters : ring[p] \in {"request", "look", "wake"}
PauseWoken == \A a \in Devices \cup {Cpu} : at[a] = "pause_asleep" => Stays(a)
QuiesceWoken == at[Cpu] = "quiesce_asleep" => ~AllParked

Wakes == IdleWoken /\ PauseWoken /\ QuiesceWoken /\ RequestReaches

(* Where the app is tells whether the emulation is paused, and what a save *)
(* has done so far.                                                        *)
AppInv ==
  /\ at[App] \in {"menu", "kicking", "awaits"} => pause.on
  /\ pause.on => at[App] \in {"menu", "kicking", "awaits", "unparking"}
  /\ at[App] \in Saving => save.was
  /\ at[App] \in {"asking", "pausing", "kicking", "awaits"} => save.decoder

(* Where the request is: with the app, with the CPU, or answered.          *)
Answering == {"quiesces", "quiesce_asleep", "drains", "writes", "answers"}
RequestInv ==
  /\ save.pending => at[App] \in {"pausing", "kicking", "awaits"} /\ ~save.done
  /\ save.taking => at[Cpu] \in Answering
  /\ at[Cpu] \in Answering =>
       at[App] \in {"pausing", "kicking", "awaits"} /\ save.taking /\ ~save.done
         /\ ~save.pending
  /\ at[Cpu] \in Answering /\ ~save.early => at[App] \in {"kicking", "awaits"}

SaveInv == AppInv /\ RequestInv
IInv == TypeOK /\ Wakes /\ SaveInv

(***************************************************************************)
(* What StillWhileWriting takes besides: a device that is counted as       *)
(* parked is where it does nothing, and from the count on nobody works who *)
(* looks first, if the request was taken in the pause.                     *)
(***************************************************************************)
ParkedStands ==
  \A d \in Devices : pause.parked[d] => at[d] \in {"idles", "pause_locks", "pause_asleep"}

StillInv ==
  /\ ParkedStands
  /\ at[Cpu] \in {"drains", "writes"} /\ ~save.early =>
       DevicesStill(Devices \ LateLookers)

-----------------------------------------------------------------------------
USE PauseAssumption DEF IInv, DevicePlaces, CpuPlaces, InPause, Saving, Posters

(* The parts are the type invariant and the property.                      *)
LEMMA TypeParts == TypeOK <=> Records /\ Places
  BY DEF TypeOK, Records, Places

(* The property of the runs in three parts, one for each place of sleep.   *)
LEMMA SleepParts == NobodySleepsThrough <=> IdleWoken /\ PauseWoken /\ QuiesceWoken
  BY DEF NobodySleepsThrough, IdleWoken, PauseWoken, QuiesceWoken

(* Who is where after a device has moved.                                  *)
LEMMA DeviceMoves ==
  ASSUME TypeOK, NEW d \in Devices, NEW from, NEW to, Moves(d, from, to)
  PROVE  /\ at[d] = from /\ at'[d] = to /\ DOMAIN at' = Threads
         /\ at'[Cpu] = at[Cpu] /\ at'[App] = at[App]
         /\ \A e \in Devices \ {d} : at'[e] = at[e]
  BY DEF Moves, TypeOK, Threads

(* After the CPU's thread has.                                             *)
LEMMA CpuMoves ==
  ASSUME TypeOK, NEW from, NEW to, Moves(Cpu, from, to)
  PROVE  /\ at[Cpu] = from /\ at'[Cpu] = to /\ DOMAIN at' = Threads
         /\ at'[App] = at[App]
         /\ \A e \in Devices : at'[e] = at[e]
  BY DEF Moves, TypeOK, Threads

(* What the broadcast does to a device and to the CPU; the app never       *)
(* sleeps on g_pause_cv.                                                   *)
Awake(place) == IF place = "pause_asleep" THEN "pause_locks" ELSE place
CpuAwake(place) == IF place = "quiesce_asleep" THEN "quiesces" ELSE Awake(place)

(* Who is where after a broadcast.                                         *)
LEMMA WokenPlaces ==
  ASSUME TypeOK
  PROVE  /\ DOMAIN Woken(at) = Threads
         /\ \A e \in Devices : Woken(at)[e] = Awake(at[e])
         /\ Woken(at)[Cpu] = CpuAwake(at[Cpu])
         /\ Woken(at)[App] = at[App]
<1>1. DOMAIN Woken(at) = Threads
  BY DEF Woken, TypeOK
<1>2. \A a \in Threads : Woken(at)[a] =
        CASE at[a] = "pause_asleep" -> "pause_locks"
          [] at[a] = "quiesce_asleep" -> "quiesces"
          [] OTHER -> at[a]
  BY DEF Woken, TypeOK
<1>3. \A a \in Threads : Woken(at)[a] = CpuAwake(at[a])
  BY <1>2 DEF Awake, CpuAwake
<1>. QED
  BY <1>1, <1>3 DEF TypeOK, Awake, CpuAwake, Threads

(* After a device has moved and broadcast.                                 *)
LEMMA DeviceMovesAndWakes ==
  ASSUME TypeOK, NEW d \in Devices, NEW from, NEW to, MovesAndWakes(d, from, to)
  PROVE  /\ at[d] = from /\ at'[d] = to /\ DOMAIN at' = Threads
         /\ at'[Cpu] = CpuAwake(at[Cpu]) /\ at'[App] = at[App]
         /\ \A e \in Devices \ {d} : at'[e] = Awake(at[e])
  BY WokenPlaces DEF MovesAndWakes, Threads

(* After the app has, which always broadcasts.                             *)
LEMMA AppMoves ==
  ASSUME TypeOK, NEW from, NEW to, AppAt(from, to)
  PROVE  /\ ring[App] = "done"
         /\ at[App] = from /\ at'[App] = to /\ DOMAIN at' = Threads
         /\ at'[Cpu] = CpuAwake(at[Cpu])
         /\ \A e \in Devices : at'[e] = Awake(at[e])
  BY WokenPlaces DEF AppAt, MovesAndWakes, Threads

-----------------------------------------------------------------------------
(* It holds at the start.                                                  *)
LEMMA InitPlaces ==
  ASSUME Init
  PROVE  /\ DOMAIN at = Threads /\ at[Cpu] = "guest" /\ at[App] = "plays"
         /\ \A d \in Devices : at[d] = "looks"
<1>1. \A a \in Threads : at[a] = CASE a = Cpu -> "guest" [] a = App -> "plays" [] OTHER -> "looks"
  BY DEF Init
<1>. QED
  BY <1>1 DEF Init, Threads

(* All threads start awake, nothing is posted, no save is under way.       *)
LEMMA InitInv ==
  ASSUME Init
  PROVE  IInv /\ StillInv
<1>1. Records
  BY DEF Init, Records
<1>2. Places
  BY InitPlaces DEF Init, Places
<1>3. Wakes
  BY InitPlaces DEF Init, Wakes, IdleWoken, PauseWoken, QuiesceWoken, RequestReaches, Roused
<1>4. SaveInv
  BY InitPlaces DEF Init, SaveInv, AppInv, RequestInv, Answering
<1>5. StillInv
  BY InitPlaces DEF Init, StillInv, ParkedStands
<1>. QED
  BY <1>1, <1>2, <1>3, <1>4, <1>5, TypeParts

(* The invariant after a step, part by part.                               *)
LEMMA InvParts ==
  ASSUME Records', Places', Wakes', SaveInv'
  PROVE  IInv'
  BY DEF TypeOK, Records, Places

(* A poster on its way to wake the CPU.                                    *)
LEMMA PostKeeps ==
  ASSUME IInv, NEW p \in Posters, PostStep(p)
  PROVE  IInv'
<1>1. CASE RequestInterrupt(p)
  <2>1. Records'
    BY <1>1 DEF TypeOK, RequestInterrupt, Records
  <2>2. Places'
    BY <1>1 DEF TypeOK, RequestInterrupt, Places
  <2>3. Wakes'
    BY <1>1 DEF TypeOK, RequestInterrupt, Wakes, IdleWoken, PauseWoken,
       QuiesceWoken, RequestReaches, Stays, Roused, AllParked
  <2>4. SaveInv'
    BY <1>1 DEF TypeOK, RequestInterrupt, SaveInv, AppInv, RequestInv,
       Answering
  <2>. QED
    BY <2>1, <2>2, <2>3, <2>4, InvParts
<1>2. CASE LookForIdle(p)
  <2>1. Records'
    BY <1>2 DEF TypeOK, LookForIdle, Records
  <2>2. Places'
    BY <1>2 DEF TypeOK, LookForIdle, Places
  <2>3. Wakes'
    BY <1>2 DEF TypeOK, LookForIdle, Wakes, IdleWoken, PauseWoken,
       QuiesceWoken, RequestReaches, Stays, Roused, AllParked
  <2>4. SaveInv'
    BY <1>2 DEF TypeOK, LookForIdle, SaveInv, AppInv, RequestInv, Answering
  <2>. QED
    BY <2>1, <2>2, <2>3, <2>4, InvParts
<1>3. CASE WakeIdle(p)
  <2>1. Records'
    BY <1>3 DEF TypeOK, WakeIdle, Threads, Records
  <2>2. Places'
    BY <1>3 DEF TypeOK, WakeIdle, Threads, Places
  <2>3. Wakes'
    BY <1>3 DEF TypeOK, WakeIdle, Threads, Wakes, IdleWoken, PauseWoken,
       QuiesceWoken, RequestReaches, Stays, Roused, AllParked
  <2>4. SaveInv'
    BY <1>3 DEF TypeOK, WakeIdle, Threads, SaveInv, AppInv, RequestInv,
       Answering
  <2>. QED
    BY <2>1, <2>2, <2>3, <2>4, InvParts
<1>. QED
  BY <1>1, <1>2, <1>3 DEF PostStep

(* A device.                                                               *)
LEMMA DeviceKeeps ==
  ASSUME IInv, NEW d \in Devices, DeviceStep(d)
  PROVE  IInv'
<1>1. CASE DeviceLooks(d)
  <2>1. Records'
    BY <1>1, DeviceMoves DEF TypeOK, DeviceLooks, Records
  <2>2. Places'
    BY <1>1, DeviceMoves DEF TypeOK, DeviceLooks, Places
  <2>3. Wakes'
    BY <1>1, DeviceMoves DEF TypeOK, DeviceLooks, Wakes, IdleWoken, PauseWoken,
       QuiesceWoken, RequestReaches, Stays, Roused, AllParked
  <2>4. SaveInv'
    BY <1>1, DeviceMoves DEF TypeOK, DeviceLooks, SaveInv, AppInv, RequestInv,
       Answering
  <2>. QED
    BY <2>1, <2>2, <2>3, <2>4, InvParts
<1>2. CASE DeviceRaises(d)
  <2>1. Records'
    BY <1>2, DeviceMoves DEF TypeOK, DeviceRaises, Records
  <2>2. Places'
    BY <1>2, DeviceMoves DEF TypeOK, DeviceRaises, Places
  <2>3. Wakes'
    BY <1>2, DeviceMoves DEF TypeOK, DeviceRaises, Wakes, IdleWoken,
       PauseWoken, QuiesceWoken, RequestReaches, Stays, Roused, AllParked
  <2>4. SaveInv'
    BY <1>2, DeviceMoves DEF TypeOK, DeviceRaises, SaveInv, AppInv, RequestInv,
       Answering
  <2>. QED
    BY <2>1, <2>2, <2>3, <2>4, InvParts
<1>3. CASE DeviceDone(d)
  <2>1. Records'
    BY <1>3, DeviceMoves DEF TypeOK, DeviceDone, Records
  <2>2. Places'
    BY <1>3, DeviceMoves DEF TypeOK, DeviceDone, Places
  <2>3. Wakes'
    BY <1>3, DeviceMoves DEF TypeOK, DeviceDone, Wakes, IdleWoken, PauseWoken,
       QuiesceWoken, RequestReaches, Stays, Roused, AllParked
  <2>4. SaveInv'
    BY <1>3, DeviceMoves DEF TypeOK, DeviceDone, SaveInv, AppInv, RequestInv,
       Answering
  <2>. QED
    BY <2>1, <2>2, <2>3, <2>4, InvParts
<1>4. CASE DeviceIdles(d)
  <2>1. Records'
    BY <1>4, DeviceMovesAndWakes DEF TypeOK, DeviceIdles, Parks, Awake,
       CpuAwake, Records
  <2>2. Places'
    BY <1>4, DeviceMovesAndWakes DEF TypeOK, DeviceIdles, Parks, Awake,
       CpuAwake, Places
  <2>3. Wakes'
    BY <1>4, DeviceMovesAndWakes DEF TypeOK, DeviceIdles, Parks, Awake,
       CpuAwake, Wakes, IdleWoken, PauseWoken, QuiesceWoken, RequestReaches,
       Stays, Roused, AllParked
  <2>4. SaveInv'
    BY <1>4, DeviceMovesAndWakes DEF TypeOK, DeviceIdles, Parks, Awake,
       CpuAwake, SaveInv, AppInv, RequestInv, Answering
  <2>. QED
    BY <2>1, <2>2, <2>3, <2>4, InvParts
<1>5. CASE DeviceStirs(d)
  <2>1. Records'
    BY <1>5, DeviceMovesAndWakes DEF TypeOK, DeviceStirs, Parks, Awake,
       CpuAwake, Records
  <2>2. Places'
    BY <1>5, DeviceMovesAndWakes DEF TypeOK, DeviceStirs, Parks, Awake,
       CpuAwake, Places
  <2>3. Wakes'
    BY <1>5, DeviceMovesAndWakes DEF TypeOK, DeviceStirs, Parks, Awake,
       CpuAwake, Wakes, IdleWoken, PauseWoken, QuiesceWoken, RequestReaches,
       Stays, Roused, AllParked
  <2>4. SaveInv'
    BY <1>5, DeviceMovesAndWakes DEF TypeOK, DeviceStirs, Parks, Awake,
       CpuAwake, SaveInv, AppInv, RequestInv, Answering
  <2>. QED
    BY <2>1, <2>2, <2>3, <2>4, InvParts
<1>6. CASE PauseWaitSleeps(d)
  <2>1. Records'
    BY <1>6, DeviceMoves, DeviceMovesAndWakes DEF TypeOK, PauseWaitSleeps,
       Parks, Awake, CpuAwake, Records
  <2>2. Places'
    BY <1>6, DeviceMoves, DeviceMovesAndWakes DEF TypeOK, PauseWaitSleeps,
       Parks, Awake, CpuAwake, Places
  <2>3. Wakes'
    BY <1>6, DeviceMoves, DeviceMovesAndWakes DEF TypeOK, PauseWaitSleeps,
       Parks, Awake, CpuAwake, Wakes, IdleWoken, PauseWoken, QuiesceWoken,
       RequestReaches, Stays, Roused, AllParked
  <2>4. SaveInv'
    BY <1>6, DeviceMoves, DeviceMovesAndWakes DEF TypeOK, PauseWaitSleeps,
       Parks, Awake, CpuAwake, SaveInv, AppInv, RequestInv, Answering
  <2>. QED
    BY <2>1, <2>2, <2>3, <2>4, InvParts
<1>7. CASE PauseWaitEnds(d)
  <2>1. Records'
    BY <1>7, DeviceMoves DEF TypeOK, PauseWaitEnds, Parks, Records
  <2>2. Places'
    BY <1>7, DeviceMoves DEF TypeOK, PauseWaitEnds, Parks, Places
  <2>3. Wakes'
    BY <1>7, DeviceMoves DEF TypeOK, PauseWaitEnds, Parks, Wakes, IdleWoken,
       PauseWoken, QuiesceWoken, RequestReaches, Stays, Roused, AllParked
  <2>4. SaveInv'
    BY <1>7, DeviceMoves DEF TypeOK, PauseWaitEnds, Parks, SaveInv, AppInv,
       RequestInv, Answering
  <2>. QED
    BY <2>1, <2>2, <2>3, <2>4, InvParts
<1>. QED
  BY <1>1, <1>2, <1>3, <1>4, <1>5, <1>6, <1>7 DEF DeviceStep

(* The CPU's thread.                                                       *)
LEMMA CpuKeeps ==
  ASSUME IInv, CpuStep
  PROVE  IInv'
<1>1. CASE EnterInterrupt
  <2>1. Records'
    BY <1>1, CpuMoves DEF TypeOK, EnterInterrupt, Records
  <2>2. Places'
    BY <1>1, CpuMoves DEF TypeOK, EnterInterrupt, Places
  <2>3. Wakes'
    BY <1>1, CpuMoves DEF TypeOK, EnterInterrupt, Wakes, IdleWoken, PauseWoken,
       QuiesceWoken, RequestReaches, Stays, Roused, AllParked
  <2>4. SaveInv'
    BY <1>1, CpuMoves DEF TypeOK, EnterInterrupt, SaveInv, AppInv, RequestInv,
       Answering
  <2>. QED
    BY <2>1, <2>2, <2>3, <2>4, InvParts
<1>2. CASE PausePoint
  <2>1. Records'
    BY <1>2, CpuMoves DEF TypeOK, PausePoint, Proceeds, Onward, Records
  <2>2. Places'
    BY <1>2, CpuMoves DEF TypeOK, PausePoint, Proceeds, Onward, Places
  <2>3. Wakes'
    BY <1>2, CpuMoves DEF TypeOK, PausePoint, Proceeds, Onward, Wakes,
       IdleWoken, PauseWoken, QuiesceWoken, RequestReaches, Stays, Roused,
       AllParked
  <2>4. SaveInv'
    BY <1>2, CpuMoves DEF TypeOK, PausePoint, Proceeds, Onward, SaveInv,
       AppInv, RequestInv, Answering
  <2>. QED
    BY <2>1, <2>2, <2>3, <2>4, InvParts
<1>3. CASE ClearInterrupt
  <2>1. Records'
    BY <1>3, CpuMoves DEF TypeOK, ClearInterrupt, Records
  <2>2. Places'
    BY <1>3, CpuMoves DEF TypeOK, ClearInterrupt, Places
  <2>3. Wakes'
    BY <1>3, CpuMoves DEF TypeOK, ClearInterrupt, Wakes, IdleWoken, PauseWoken,
       QuiesceWoken, RequestReaches, Stays, Roused, AllParked
  <2>4. SaveInv'
    BY <1>3, CpuMoves DEF TypeOK, ClearInterrupt, SaveInv, AppInv, RequestInv,
       Answering
  <2>. QED
    BY <2>1, <2>2, <2>3, <2>4, InvParts
<1>4. CASE Serve
  <2>1. Records'
    BY <1>4, CpuMoves DEF TypeOK, Serve, Taken, Records
  <2>2. Places'
    BY <1>4, CpuMoves DEF TypeOK, Serve, Taken, Places
  <2>3. Wakes'
    BY <1>4, CpuMoves DEF TypeOK, Serve, Taken, Wakes, IdleWoken, PauseWoken,
       QuiesceWoken, RequestReaches, Stays, Roused, AllParked
  <2>4. SaveInv'
    BY <1>4, CpuMoves DEF TypeOK, Serve, Taken, SaveInv, AppInv, RequestInv,
       Answering
  <2>. QED
    BY <2>1, <2>2, <2>3, <2>4, InvParts
<1>5. CASE ScheduleThread
  <2>1. Records'
    BY <1>5, CpuMoves DEF TypeOK, ScheduleThread, Taken, Records
  <2>2. Places'
    BY <1>5, CpuMoves DEF TypeOK, ScheduleThread, Taken, Places
  <2>3. Wakes'
    BY <1>5, CpuMoves DEF TypeOK, ScheduleThread, Taken, Wakes, IdleWoken,
       PauseWoken, QuiesceWoken, RequestReaches, Stays, Roused, AllParked
  <2>4. SaveInv'
    BY <1>5, CpuMoves DEF TypeOK, ScheduleThread, Taken, SaveInv, AppInv,
       RequestInv, Answering
  <2>. QED
    BY <2>1, <2>2, <2>3, <2>4, InvParts
<1>6. CASE ScheduleIdle
  <2>1. Records'
    BY <1>6, CpuMoves DEF TypeOK, ScheduleIdle, Taken, Records
  <2>2. Places'
    BY <1>6, CpuMoves DEF TypeOK, ScheduleIdle, Taken, Places
  <2>3. Wakes'
    BY <1>6, CpuMoves DEF TypeOK, ScheduleIdle, Taken, Wakes, IdleWoken,
       PauseWoken, QuiesceWoken, RequestReaches, Stays, Roused, AllParked
  <2>4. SaveInv'
    BY <1>6, CpuMoves DEF TypeOK, ScheduleIdle, Taken, SaveInv, AppInv,
       RequestInv, Answering
  <2>. QED
    BY <2>1, <2>2, <2>3, <2>4, InvParts
<1>7. CASE IdleWaitBegins
  <2>1. Records'
    BY <1>7, CpuMoves DEF TypeOK, IdleWaitBegins, Records
  <2>2. Places'
    BY <1>7, CpuMoves DEF TypeOK, IdleWaitBegins, Places
  <2>3. Wakes'
    BY <1>7, CpuMoves DEF TypeOK, IdleWaitBegins, Wakes, IdleWoken, PauseWoken,
       QuiesceWoken, RequestReaches, Stays, Roused, AllParked
  <2>4. SaveInv'
    BY <1>7, CpuMoves DEF TypeOK, IdleWaitBegins, SaveInv, AppInv, RequestInv,
       Answering
  <2>. QED
    BY <2>1, <2>2, <2>3, <2>4, InvParts
<1>8. CASE IdleWaitSleeps
  <2>1. Records'
    BY <1>8, CpuMoves DEF TypeOK, IdleWaitSleeps, Records
  <2>2. Places'
    BY <1>8, CpuMoves DEF TypeOK, IdleWaitSleeps, Places
  <2>3. Wakes'
    BY <1>8, CpuMoves DEF TypeOK, IdleWaitSleeps, Wakes, IdleWoken, PauseWoken,
       QuiesceWoken, RequestReaches, Stays, Roused, AllParked
  <2>4. SaveInv'
    BY <1>8, CpuMoves DEF TypeOK, IdleWaitSleeps, SaveInv, AppInv, RequestInv,
       Answering
  <2>. QED
    BY <2>1, <2>2, <2>3, <2>4, InvParts
<1>9. CASE IdleWaitEnds
  <2>1. Records'
    BY <1>9, CpuMoves DEF TypeOK, IdleWaitEnds, Records
  <2>2. Places'
    BY <1>9, CpuMoves DEF TypeOK, IdleWaitEnds, Places
  <2>3. Wakes'
    BY <1>9, CpuMoves DEF TypeOK, IdleWaitEnds, Wakes, IdleWoken, PauseWoken,
       QuiesceWoken, RequestReaches, Stays, Roused, AllParked
  <2>4. SaveInv'
    BY <1>9, CpuMoves DEF TypeOK, IdleWaitEnds, SaveInv, AppInv, RequestInv,
       Answering
  <2>. QED
    BY <2>1, <2>2, <2>3, <2>4, InvParts
<1>10. CASE PauseWaitSleepsCpu
  <2>1. Records'
    BY <1>10, CpuMoves DEF TypeOK, PauseWaitSleepsCpu, Records
  <2>2. Places'
    BY <1>10, CpuMoves DEF TypeOK, PauseWaitSleepsCpu, Places
  <2>3. Wakes'
    BY <1>10, CpuMoves DEF TypeOK, PauseWaitSleepsCpu, Wakes, IdleWoken,
       PauseWoken, QuiesceWoken, RequestReaches, Stays, Roused, AllParked
  <2>4. SaveInv'
    BY <1>10, CpuMoves DEF TypeOK, PauseWaitSleepsCpu, SaveInv, AppInv,
       RequestInv, Answering
  <2>. QED
    BY <2>1, <2>2, <2>3, <2>4, InvParts
<1>11. CASE PauseWaitReturns
  <2>1. Records'
    BY <1>11, CpuMoves DEF TypeOK, PauseWaitReturns, Records
  <2>2. Places'
    BY <1>11, CpuMoves DEF TypeOK, PauseWaitReturns, Places
  <2>3. Wakes'
    BY <1>11, CpuMoves DEF TypeOK, PauseWaitReturns, Wakes, IdleWoken,
       PauseWoken, QuiesceWoken, RequestReaches, Stays, Roused, AllParked
  <2>4. SaveInv'
    BY <1>11, CpuMoves DEF TypeOK, PauseWaitReturns, SaveInv, AppInv,
       RequestInv, Answering
  <2>. QED
    BY <2>1, <2>2, <2>3, <2>4, InvParts
<1>12. CASE PauseOver
  <2>1. Records'
    BY <1>12, CpuMoves DEF TypeOK, PauseOver, Proceeds, Onward, Records
  <2>2. Places'
    BY <1>12, CpuMoves DEF TypeOK, PauseOver, Proceeds, Onward, Places
  <2>3. Wakes'
    BY <1>12, CpuMoves DEF TypeOK, PauseOver, Proceeds, Onward, Wakes,
       IdleWoken, PauseWoken, QuiesceWoken, RequestReaches, Stays, Roused,
       AllParked
  <2>4. SaveInv'
    BY <1>12, CpuMoves DEF TypeOK, PauseOver, Proceeds, Onward, SaveInv,
       AppInv, RequestInv, Answering
  <2>. QED
    BY <2>1, <2>2, <2>3, <2>4, InvParts
<1>13. CASE PauseCpuWork
  <2>1. Records'
    BY <1>13, CpuMoves DEF TypeOK, PauseCpuWork, Records
  <2>2. Places'
    BY <1>13, CpuMoves DEF TypeOK, PauseCpuWork, Places
  <2>3. Wakes'
    BY <1>13, CpuMoves DEF TypeOK, PauseCpuWork, Wakes, IdleWoken, PauseWoken,
       QuiesceWoken, RequestReaches, Stays, Roused, AllParked
  <2>4. SaveInv'
    BY <1>13, CpuMoves DEF TypeOK, PauseCpuWork, SaveInv, AppInv, RequestInv,
       Answering
  <2>. QED
    BY <2>1, <2>2, <2>3, <2>4, InvParts
<1>14. CASE TakeRequest
  <2>1. Records'
    BY <1>14, CpuMoves DEF TypeOK, TakeRequest, Records
  <2>2. Places'
    BY <1>14, CpuMoves DEF TypeOK, TakeRequest, Places
  <2>3. Wakes'
    BY <1>14, CpuMoves DEF TypeOK, TakeRequest, Wakes, IdleWoken, PauseWoken,
       QuiesceWoken, RequestReaches, Stays, Roused, AllParked
  <2>4. SaveInv'
    BY <1>14, CpuMoves DEF TypeOK, TakeRequest, SaveInv, AppInv, RequestInv,
       Answering
  <2>. QED
    BY <2>1, <2>2, <2>3, <2>4, InvParts
<1>15. CASE Quiesce
  <2>1. Records'
    BY <1>15, CpuMoves DEF TypeOK, Quiesce, QuiesceTimesOut, Records
  <2>2. Places'
    BY <1>15, CpuMoves DEF TypeOK, Quiesce, QuiesceTimesOut, Places
  <2>3. Wakes'
    BY <1>15, CpuMoves DEF TypeOK, Quiesce, QuiesceTimesOut, Wakes, IdleWoken, PauseWoken,
       QuiesceWoken, RequestReaches, Stays, Roused, AllParked
  <2>4. SaveInv'
    BY <1>15, CpuMoves DEF TypeOK, Quiesce, QuiesceTimesOut, SaveInv, AppInv, RequestInv,
       Answering
  <2>. QED
    BY <2>1, <2>2, <2>3, <2>4, InvParts
<1>16. CASE Drain
  <2>1. Records'
    BY <1>16, CpuMoves DEF TypeOK, Drain, Records
  <2>2. Places'
    <3>1. CASE Moves(Cpu, "drains", "writes") /\ irq'.idling = irq.idling
      BY <3>1, CpuMoves DEF TypeOK, Places
    <3>2. CASE Moves(Cpu, "drains", "answers") /\ UNCHANGED irq
      BY <3>2, CpuMoves DEF TypeOK, Places
    <3>. QED
      BY <1>16, <3>1, <3>2 DEF Drain, TypeOK
  <2>3. Wakes'
    BY <1>16, CpuMoves DEF TypeOK, Drain, Wakes, IdleWoken, PauseWoken,
       QuiesceWoken, RequestReaches, Stays, Roused, AllParked
  <2>4. SaveInv'
    BY <1>16, CpuMoves DEF TypeOK, Drain, SaveInv, AppInv, RequestInv,
       Answering
  <2>. QED
    BY <2>1, <2>2, <2>3, <2>4, InvParts
<1>17. CASE WriteState
  <2>1. Records'
    BY <1>17, CpuMoves DEF TypeOK, WriteState, Records
  <2>2. Places'
    BY <1>17, CpuMoves DEF TypeOK, WriteState, Places
  <2>3. Wakes'
    BY <1>17, CpuMoves DEF TypeOK, WriteState, Wakes, IdleWoken, PauseWoken,
       QuiesceWoken, RequestReaches, Stays, Roused, AllParked
  <2>4. SaveInv'
    BY <1>17, CpuMoves DEF TypeOK, WriteState, SaveInv, AppInv, RequestInv,
       Answering
  <2>. QED
    BY <2>1, <2>2, <2>3, <2>4, InvParts
<1>18. CASE Answer
  <2>1. Records'
    BY <1>18, CpuMoves DEF TypeOK, Answer, Records
  <2>2. Places'
    BY <1>18, CpuMoves DEF TypeOK, Answer, Places
  <2>3. Wakes'
    BY <1>18, CpuMoves DEF TypeOK, Answer, Wakes, IdleWoken, PauseWoken,
       QuiesceWoken, RequestReaches, Stays, Roused, AllParked
  <2>4. SaveInv'
    BY <1>18, CpuMoves DEF TypeOK, Answer, SaveInv, AppInv, RequestInv,
       Answering
  <2>. QED
    BY <2>1, <2>2, <2>3, <2>4, InvParts
<1>. QED
  BY <1>1, <1>2, <1>3, <1>4, <1>5, <1>6, <1>7, <1>8, <1>9, <1>10, <1>11, <1>12,
     <1>13, <1>14, <1>15, <1>16, <1>17, <1>18 DEF CpuStep

(* The app, in a save.                                                     *)
LEMMA SaveKeeps ==
  ASSUME IInv, SaveStep
  PROVE  IInv'
<1>1. CASE ParkDecoder
  <2>1. Records'
    BY <1>1, AppMoves DEF TypeOK, ParkDecoder, Awake, CpuAwake, Records
  <2>2. Places'
    BY <1>1, AppMoves DEF TypeOK, ParkDecoder, Awake, CpuAwake, Places
  <2>3. Wakes'
    BY <1>1, AppMoves DEF TypeOK, ParkDecoder, Awake, CpuAwake, Wakes,
       IdleWoken, PauseWoken, QuiesceWoken, RequestReaches, Stays, Roused,
       AllParked
  <2>4. SaveInv'
    BY <1>1, AppMoves DEF TypeOK, ParkDecoder, Awake, CpuAwake, SaveInv,
       AppInv, RequestInv, Answering
  <2>. QED
    BY <2>1, <2>2, <2>3, <2>4, InvParts
<1>2. CASE AskForState
  <2>1. Records'
    BY <1>2, AppMoves DEF TypeOK, AskForState, Awake, CpuAwake, Records
  <2>2. Places'
    BY <1>2, AppMoves DEF TypeOK, AskForState, Awake, CpuAwake, Places
  <2>3. Wakes'
    BY <1>2, AppMoves DEF TypeOK, AskForState, Awake, CpuAwake, Wakes,
       IdleWoken, PauseWoken, QuiesceWoken, RequestReaches, Stays, Roused,
       AllParked
  <2>4. SaveInv'
    BY <1>2, AppMoves DEF TypeOK, AskForState, Awake, CpuAwake, SaveInv,
       AppInv, RequestInv, Answering
  <2>. QED
    BY <2>1, <2>2, <2>3, <2>4, InvParts
<1>3. CASE PauseForSave
  <2>1. Records'
    BY <1>3, AppMoves DEF TypeOK, PauseForSave, SetPaused, Awake, CpuAwake,
       Records
  <2>2. Places'
    BY <1>3, AppMoves DEF TypeOK, PauseForSave, SetPaused, Awake, CpuAwake,
       Places
  <2>3. Wakes'
    BY <1>3, AppMoves DEF TypeOK, PauseForSave, SetPaused, Awake, CpuAwake,
       Wakes, IdleWoken, PauseWoken, QuiesceWoken, RequestReaches, Stays,
       Roused, AllParked
  <2>4. SaveInv'
    BY <1>3, AppMoves DEF TypeOK, PauseForSave, SetPaused, Awake, CpuAwake,
       SaveInv, AppInv, RequestInv, Answering
  <2>. QED
    BY <2>1, <2>2, <2>3, <2>4, InvParts
<1>4. CASE Kick
  <2>1. Records'
    BY <1>4, AppMoves DEF TypeOK, Kick, Awake, CpuAwake, Records
  <2>2. Places'
    BY <1>4, AppMoves DEF TypeOK, Kick, Awake, CpuAwake, Places
  <2>3. Wakes'
    BY <1>4, AppMoves DEF TypeOK, Kick, Awake, CpuAwake, Wakes, IdleWoken,
       PauseWoken, QuiesceWoken, RequestReaches, Stays, Roused, AllParked
  <2>4. SaveInv'
    BY <1>4, AppMoves DEF TypeOK, Kick, Awake, CpuAwake, SaveInv, AppInv,
       RequestInv, Answering
  <2>. QED
    BY <2>1, <2>2, <2>3, <2>4, InvParts
<1>5. CASE Await
  <2>1. Records'
    BY <1>5, AppMoves DEF TypeOK, Await, GivesUp, Awake, CpuAwake, Records
  <2>2. Places'
    BY <1>5, AppMoves DEF TypeOK, Await, GivesUp, Awake, CpuAwake, Places
  <2>3. Wakes'
    BY <1>5, AppMoves DEF TypeOK, Await, GivesUp, Awake, CpuAwake, Wakes,
       IdleWoken, PauseWoken, QuiesceWoken, RequestReaches, Stays, Roused,
       AllParked
  <2>4. SaveInv'
    BY <1>5, AppMoves DEF TypeOK, Await, GivesUp, Awake, CpuAwake, SaveInv,
       AppInv, RequestInv, Answering
  <2>. QED
    BY <2>1, <2>2, <2>3, <2>4, InvParts
<1>6. CASE SaveEnds
  <2>1. Records'
    BY <1>6, AppMoves DEF TypeOK, SaveEnds, SetPaused, Awake, CpuAwake, Records
  <2>2. Places'
    BY <1>6, AppMoves DEF TypeOK, SaveEnds, SetPaused, Awake, CpuAwake, Places
  <2>3. Wakes'
    BY <1>6, AppMoves DEF TypeOK, SaveEnds, SetPaused, Awake, CpuAwake, Wakes,
       IdleWoken, PauseWoken, QuiesceWoken, RequestReaches, Stays, Roused,
       AllParked
  <2>4. SaveInv'
    BY <1>6, AppMoves DEF TypeOK, SaveEnds, SetPaused, Awake, CpuAwake,
       SaveInv, AppInv, RequestInv, Answering
  <2>. QED
    BY <2>1, <2>2, <2>3, <2>4, InvParts
<1>. QED
  BY <1>1, <1>2, <1>3, <1>4, <1>5, <1>6 DEF SaveStep

(* The steps nobody need take, the app's posting of work, the clock.       *)
LEMMA MenuKeeps ==
  ASSUME IInv, OpenMenu \/ CloseMenu \/ SaveBegins \/ PostWork \/ EnterCall \/ ClockAsks
  PROVE  IInv'
<1>1. CASE OpenMenu
  <2>1. Records'
    BY <1>1, AppMoves DEF TypeOK, OpenMenu, SetPaused, Awake, CpuAwake, Records
  <2>2. Places'
    BY <1>1, AppMoves DEF TypeOK, OpenMenu, SetPaused, Awake, CpuAwake, Places
  <2>3. Wakes'
    BY <1>1, AppMoves DEF TypeOK, OpenMenu, SetPaused, Awake, CpuAwake, Wakes,
       IdleWoken, PauseWoken, QuiesceWoken, RequestReaches, Stays, Roused,
       AllParked
  <2>4. SaveInv'
    BY <1>1, AppMoves DEF TypeOK, OpenMenu, SetPaused, Awake, CpuAwake,
       SaveInv, AppInv, RequestInv, Answering
  <2>. QED
    BY <2>1, <2>2, <2>3, <2>4, InvParts
<1>2. CASE CloseMenu
  <2>1. Records'
    BY <1>2, AppMoves DEF TypeOK, CloseMenu, SetPaused, Awake, CpuAwake,
       Records
  <2>2. Places'
    BY <1>2, AppMoves DEF TypeOK, CloseMenu, SetPaused, Awake, CpuAwake, Places
  <2>3. Wakes'
    BY <1>2, AppMoves DEF TypeOK, CloseMenu, SetPaused, Awake, CpuAwake, Wakes,
       IdleWoken, PauseWoken, QuiesceWoken, RequestReaches, Stays, Roused,
       AllParked
  <2>4. SaveInv'
    BY <1>2, AppMoves DEF TypeOK, CloseMenu, SetPaused, Awake, CpuAwake,
       SaveInv, AppInv, RequestInv, Answering
  <2>. QED
    BY <2>1, <2>2, <2>3, <2>4, InvParts
<1>3. CASE SaveBegins
  <2>1. Records'
    BY <1>3, AppMoves DEF TypeOK, SaveBegins, SetPaused, Awake, CpuAwake,
       Records
  <2>2. Places'
    BY <1>3, AppMoves DEF TypeOK, SaveBegins, SetPaused, Awake, CpuAwake,
       Places
  <2>3. Wakes'
    BY <1>3, AppMoves DEF TypeOK, SaveBegins, SetPaused, Awake, CpuAwake,
       Wakes, IdleWoken, PauseWoken, QuiesceWoken, RequestReaches, Stays,
       Roused, AllParked
  <2>4. SaveInv'
    BY <1>3, AppMoves DEF TypeOK, SaveBegins, SetPaused, Awake, CpuAwake,
       SaveInv, AppInv, RequestInv, Answering
  <2>. QED
    BY <2>1, <2>2, <2>3, <2>4, InvParts
<1>4. CASE PostWork
  <2>1. Records'
    BY <1>4 DEF TypeOK, PostWork, Records
  <2>2. Places'
    BY <1>4 DEF TypeOK, PostWork, Places
  <2>3. Wakes'
    BY <1>4 DEF TypeOK, PostWork, Wakes, IdleWoken, PauseWoken, QuiesceWoken,
       RequestReaches, Stays, Roused, AllParked
  <2>4. SaveInv'
    BY <1>4 DEF TypeOK, PostWork, SaveInv, AppInv, RequestInv, Answering
  <2>. QED
    BY <2>1, <2>2, <2>3, <2>4, InvParts
<1>5. CASE EnterCall
  <2>1. Records'
    BY <1>5, CpuMoves DEF TypeOK, EnterCall, Records
  <2>2. Places'
    BY <1>5, CpuMoves DEF TypeOK, EnterCall, Places
  <2>3. Wakes'
    BY <1>5, CpuMoves DEF TypeOK, EnterCall, Wakes, IdleWoken, PauseWoken,
       QuiesceWoken, RequestReaches, Stays, Roused, AllParked
  <2>4. SaveInv'
    BY <1>5, CpuMoves DEF TypeOK, EnterCall, SaveInv, AppInv, RequestInv,
       Answering
  <2>. QED
    BY <2>1, <2>2, <2>3, <2>4, InvParts
<1>6. CASE ClockAsks
  <2>1. Records'
    BY <1>6 DEF TypeOK, ClockAsks, Records
  <2>2. Places'
    BY <1>6 DEF TypeOK, ClockAsks, Places
  <2>3. Wakes'
    BY <1>6 DEF TypeOK, ClockAsks, Wakes, IdleWoken, PauseWoken, QuiesceWoken,
       RequestReaches, Stays, Roused, AllParked
  <2>4. SaveInv'
    BY <1>6 DEF TypeOK, ClockAsks, SaveInv, AppInv, RequestInv, Answering
  <2>. QED
    BY <2>1, <2>2, <2>3, <2>4, InvParts
<1>. QED
  BY <1>1, <1>2, <1>3, <1>4, <1>5, <1>6

(* Every step, and a step that changes nothing.                            *)
LEMMA NextKeeps ==
  ASSUME IInv, [Next]_vars
  PROVE  IInv'
<1>1. CASE UNCHANGED vars
  <2>1. Records' /\ Places'
    BY <1>1, TypeParts DEF vars, Records, Places
  <2>2. Wakes'
    BY <1>1 DEF vars, Wakes, IdleWoken, PauseWoken, QuiesceWoken, RequestReaches, Stays, Roused,
       AllParked
  <2>3. SaveInv'
    BY <1>1 DEF vars, SaveInv, AppInv, RequestInv
  <2>. QED
    BY <2>1, <2>2, <2>3, InvParts
<1>2. CASE Next
  BY <1>2, PostKeeps, DeviceKeeps, CpuKeeps, SaveKeeps, MenuKeeps DEF Next, Actors
<1>. QED
  BY <1>1, <1>2

-----------------------------------------------------------------------------
(* A poster on its way to wake the CPU.                                    *)
LEMMA PostStands ==
  ASSUME IInv, StillInv,
         NEW p \in Posters, PostStep(p)
  PROVE  StillInv'
<1>1. CASE RequestInterrupt(p)
  BY <1>1 DEF TypeOK, RequestInterrupt, StillInv, ParkedStands, SaveInv,
     AppInv, RequestInv, Answering, AllParked, Stays, DevicesStill
<1>2. CASE LookForIdle(p)
  BY <1>2 DEF TypeOK, LookForIdle, StillInv, ParkedStands, SaveInv, AppInv,
     RequestInv, Answering, AllParked, Stays, DevicesStill
<1>3. CASE WakeIdle(p)
  BY <1>3 DEF TypeOK, WakeIdle, Threads, StillInv, ParkedStands, SaveInv,
     AppInv, RequestInv, Answering, AllParked, Stays, DevicesStill
<1>. QED
  BY <1>1, <1>2, <1>3 DEF PostStep

(* A device.                                                               *)
LEMMA DeviceStands ==
  ASSUME IInv, StillInv,
         NEW d \in Devices, DeviceStep(d)
  PROVE  StillInv'
<1>1. CASE DeviceLooks(d)
  BY <1>1, DeviceMoves DEF TypeOK, DeviceLooks, StillInv, ParkedStands,
     SaveInv, AppInv, RequestInv, Answering, AllParked, Stays, DevicesStill
<1>2. CASE DeviceRaises(d)
  BY <1>2, DeviceMoves DEF TypeOK, DeviceRaises, StillInv, ParkedStands,
     SaveInv, AppInv, RequestInv, Answering, AllParked, Stays, DevicesStill
<1>3. CASE DeviceDone(d)
  BY <1>3, DeviceMoves DEF TypeOK, DeviceDone, StillInv, ParkedStands, SaveInv,
     AppInv, RequestInv, Answering, AllParked, Stays, DevicesStill
<1>4. CASE DeviceIdles(d)
  BY <1>4, DeviceMovesAndWakes DEF TypeOK, DeviceIdles, Parks, Awake, CpuAwake,
     StillInv, ParkedStands, SaveInv, AppInv, RequestInv, Answering, AllParked,
     Stays, DevicesStill
<1>5. CASE DeviceStirs(d)
  BY <1>5, DeviceMovesAndWakes DEF TypeOK, DeviceStirs, Parks, Awake, CpuAwake,
     StillInv, ParkedStands, SaveInv, AppInv, RequestInv, Answering, AllParked,
     Stays, DevicesStill
<1>6. CASE PauseWaitSleeps(d)
  BY <1>6, DeviceMoves, DeviceMovesAndWakes DEF TypeOK, PauseWaitSleeps, Parks,
     Awake, CpuAwake, StillInv, ParkedStands, SaveInv, AppInv, RequestInv,
     Answering, AllParked, Stays, DevicesStill
<1>7. CASE PauseWaitEnds(d)
  BY <1>7, DeviceMoves DEF TypeOK, PauseWaitEnds, Parks, StillInv,
     ParkedStands, SaveInv, AppInv, RequestInv, Answering, AllParked, Stays,
     DevicesStill
<1>. QED
  BY <1>1, <1>2, <1>3, <1>4, <1>5, <1>6, <1>7 DEF DeviceStep

(* The CPU's thread.                                                       *)
LEMMA CpuStands ==
  ASSUME IInv, StillInv,
         CpuStep
  PROVE  StillInv'
<1>1. CASE EnterInterrupt
  BY <1>1, CpuMoves DEF TypeOK, EnterInterrupt, StillInv, ParkedStands,
     SaveInv, AppInv, RequestInv, Answering, AllParked, Stays, DevicesStill
<1>2. CASE PausePoint
  BY <1>2, CpuMoves DEF TypeOK, PausePoint, Proceeds, Onward, StillInv,
     ParkedStands, SaveInv, AppInv, RequestInv, Answering, AllParked, Stays,
     DevicesStill
<1>3. CASE ClearInterrupt
  BY <1>3, CpuMoves DEF TypeOK, ClearInterrupt, StillInv, ParkedStands,
     SaveInv, AppInv, RequestInv, Answering, AllParked, Stays, DevicesStill
<1>4. CASE Serve
  BY <1>4, CpuMoves DEF TypeOK, Serve, Taken, StillInv, ParkedStands, SaveInv,
     AppInv, RequestInv, Answering, AllParked, Stays, DevicesStill
<1>5. CASE ScheduleThread
  BY <1>5, CpuMoves DEF TypeOK, ScheduleThread, Taken, StillInv, ParkedStands,
     SaveInv, AppInv, RequestInv, Answering, AllParked, Stays, DevicesStill
<1>6. CASE ScheduleIdle
  BY <1>6, CpuMoves DEF TypeOK, ScheduleIdle, Taken, StillInv, ParkedStands,
     SaveInv, AppInv, RequestInv, Answering, AllParked, Stays, DevicesStill
<1>7. CASE IdleWaitBegins
  BY <1>7, CpuMoves DEF TypeOK, IdleWaitBegins, StillInv, ParkedStands,
     SaveInv, AppInv, RequestInv, Answering, AllParked, Stays, DevicesStill
<1>8. CASE IdleWaitSleeps
  BY <1>8, CpuMoves DEF TypeOK, IdleWaitSleeps, StillInv, ParkedStands,
     SaveInv, AppInv, RequestInv, Answering, AllParked, Stays, DevicesStill
<1>9. CASE IdleWaitEnds
  BY <1>9, CpuMoves DEF TypeOK, IdleWaitEnds, StillInv, ParkedStands, SaveInv,
     AppInv, RequestInv, Answering, AllParked, Stays, DevicesStill
<1>10. CASE PauseWaitSleepsCpu
  BY <1>10, CpuMoves DEF TypeOK, PauseWaitSleepsCpu, StillInv, ParkedStands,
     SaveInv, AppInv, RequestInv, Answering, AllParked, Stays, DevicesStill
<1>11. CASE PauseWaitReturns
  BY <1>11, CpuMoves DEF TypeOK, PauseWaitReturns, StillInv, ParkedStands,
     SaveInv, AppInv, RequestInv, Answering, AllParked, Stays, DevicesStill
<1>12. CASE PauseOver
  BY <1>12, CpuMoves DEF TypeOK, PauseOver, Proceeds, Onward, StillInv,
     ParkedStands, SaveInv, AppInv, RequestInv, Answering, AllParked, Stays,
     DevicesStill
<1>13. CASE PauseCpuWork
  BY <1>13, CpuMoves DEF TypeOK, PauseCpuWork, StillInv, ParkedStands, SaveInv,
     AppInv, RequestInv, Answering, AllParked, Stays, DevicesStill
<1>14. CASE TakeRequest
  BY <1>14, CpuMoves DEF TypeOK, TakeRequest, StillInv, ParkedStands, SaveInv,
     AppInv, RequestInv, Answering, AllParked, Stays, DevicesStill
<1>15. CASE Quiesce
  BY <1>15, CpuMoves DEF TypeOK, Quiesce, QuiesceTimesOut, StillInv, ParkedStands, SaveInv,
     AppInv, RequestInv, Answering, AllParked, Stays, DevicesStill
<1>16. CASE Drain
  BY <1>16, CpuMoves DEF TypeOK, Drain, StillInv, ParkedStands, SaveInv,
     AppInv, RequestInv, Answering, AllParked, Stays, DevicesStill
<1>17. CASE WriteState
  BY <1>17, CpuMoves DEF TypeOK, WriteState, StillInv, ParkedStands, SaveInv,
     AppInv, RequestInv, Answering, AllParked, Stays, DevicesStill
<1>18. CASE Answer
  BY <1>18, CpuMoves DEF TypeOK, Answer, StillInv, ParkedStands, SaveInv,
     AppInv, RequestInv, Answering, AllParked, Stays, DevicesStill
<1>. QED
  BY <1>1, <1>2, <1>3, <1>4, <1>5, <1>6, <1>7, <1>8, <1>9, <1>10, <1>11, <1>12,
     <1>13, <1>14, <1>15, <1>16, <1>17, <1>18 DEF CpuStep

(* The app, in a save.                                                     *)
LEMMA SaveStands ==
  ASSUME IInv, StillInv,
         SaveStep
  PROVE  StillInv'
<1>1. CASE ParkDecoder
  BY <1>1, AppMoves DEF TypeOK, ParkDecoder, Awake, CpuAwake, StillInv,
     ParkedStands, SaveInv, AppInv, RequestInv, Answering, AllParked, Stays,
     DevicesStill
<1>2. CASE AskForState
  BY <1>2, AppMoves DEF TypeOK, AskForState, Awake, CpuAwake, StillInv,
     ParkedStands, SaveInv, AppInv, RequestInv, Answering, AllParked, Stays,
     DevicesStill
<1>3. CASE PauseForSave
  BY <1>3, AppMoves DEF TypeOK, PauseForSave, SetPaused, Awake, CpuAwake,
     StillInv, ParkedStands, SaveInv, AppInv, RequestInv, Answering, AllParked,
     Stays, DevicesStill
<1>4. CASE Kick
  BY <1>4, AppMoves DEF TypeOK, Kick, Awake, CpuAwake, StillInv, ParkedStands,
     SaveInv, AppInv, RequestInv, Answering, AllParked, Stays, DevicesStill
<1>5. CASE Await
  BY <1>5, AppMoves DEF TypeOK, Await, GivesUp, Awake, CpuAwake, StillInv,
     ParkedStands, SaveInv, AppInv, RequestInv, Answering, AllParked, Stays,
     DevicesStill
<1>6. CASE SaveEnds
  BY <1>6, AppMoves DEF TypeOK, SaveEnds, SetPaused, Awake, CpuAwake, StillInv,
     ParkedStands, SaveInv, AppInv, RequestInv, Answering, AllParked, Stays,
     DevicesStill
<1>. QED
  BY <1>1, <1>2, <1>3, <1>4, <1>5, <1>6 DEF SaveStep

(* The steps nobody need take, the app's posting of work, the clock.       *)
LEMMA MenuStands ==
  ASSUME IInv, StillInv,
         OpenMenu \/ CloseMenu \/ SaveBegins \/ PostWork \/ EnterCall \/ ClockAsks
  PROVE  StillInv'
<1>1. CASE OpenMenu
  BY <1>1, AppMoves DEF TypeOK, OpenMenu, SetPaused, Awake, CpuAwake, StillInv,
     ParkedStands, SaveInv, AppInv, RequestInv, Answering, AllParked, Stays,
     DevicesStill
<1>2. CASE CloseMenu
  BY <1>2, AppMoves DEF TypeOK, CloseMenu, SetPaused, Awake, CpuAwake,
     StillInv, ParkedStands, SaveInv, AppInv, RequestInv, Answering, AllParked,
     Stays, DevicesStill
<1>3. CASE SaveBegins
  BY <1>3, AppMoves DEF TypeOK, SaveBegins, SetPaused, Awake, CpuAwake,
     StillInv, ParkedStands, SaveInv, AppInv, RequestInv, Answering, AllParked,
     Stays, DevicesStill
<1>4. CASE PostWork
  BY <1>4 DEF TypeOK, PostWork, StillInv, ParkedStands, SaveInv, AppInv,
     RequestInv, Answering, AllParked, Stays, DevicesStill
<1>5. CASE EnterCall
  BY <1>5, CpuMoves DEF TypeOK, EnterCall, StillInv, ParkedStands, SaveInv,
     AppInv, RequestInv, Answering, AllParked, Stays, DevicesStill
<1>6. CASE ClockAsks
  BY <1>6 DEF TypeOK, ClockAsks, StillInv, ParkedStands, SaveInv, AppInv,
     RequestInv, Answering, AllParked, Stays, DevicesStill
<1>. QED
  BY <1>1, <1>2, <1>3, <1>4, <1>5, <1>6

(* Every step, if every device looks.                                      *)
LEMMA NextStands ==
  ASSUME IInv, StillInv, [Next]_vars
  PROVE  StillInv'
<1>1. CASE UNCHANGED vars
  BY <1>1 DEF vars, StillInv, ParkedStands, DevicesStill
<1>2. CASE Next
  BY <1>2, PostStands, DeviceStands, CpuStands, SaveStands, MenuStands DEF Next, Actors
<1>. QED
  BY <1>1, <1>2

-----------------------------------------------------------------------------
(***************************************************************************)
(* The theorems.                                                           *)
(***************************************************************************)

(* What is known of the threads that are stopped and woken (irq.c,         *)
(* kernel.c) and of a save's request (save.c) holds in every state.        *)
THEOREM Invariance == Spec => []IInv
<1>1. Init => IInv
  BY InitInv
<1>2. IInv /\ [Next]_vars => IInv'
  BY NextKeeps
<1>. QED
  BY <1>1, <1>2, PTL DEF Spec

(* Every variable has its type, and the idle flag is set exactly in the    *)
(* idle wait (irq.c).                                                      *)
THEOREM TypeCorrect == Spec => []TypeOK
<1>1. IInv => TypeOK
  OBVIOUS
<1>. QED
  BY <1>1, Invariance, PTL

(* No wake is lost: not the idle CPU's, not a parked thread's, not that of *)
(* the CPU that counts the parked (irq.c).                                 *)
THEOREM NobodySleepsThroughHolds == Spec => []NobodySleepsThrough
<1>1. IInv => NobodySleepsThrough
  BY SleepParts DEF Wakes
<1>. QED
  BY <1>1, Invariance, PTL

(* A line or work that comes while the guest runs its own code is not left *)
(* lying: it is asked into the kernel, or about to be (irq.c).             *)
THEOREM RequestReachesHolds == Spec => []RequestReaches
<1>1. IInv => RequestReaches
  BY DEF Wakes
<1>. QED
  BY <1>1, Invariance, PTL

(* A state is only written for a request the app has not given up, and     *)
(* which has no answer yet (save.c), whenever the saves before it were     *)
(* given up.                                                               *)
THEOREM AnswersTheAskerHolds == Spec => []AnswersTheAsker
<1>1. IInv => AnswersTheAsker
  BY DEF AnswersTheAsker, SaveInv, RequestInv, Answering
<1>. QED
  BY <1>1, Invariance, PTL

(* While a state is written the decoder is parked; if the request was      *)
(* taken in the pause, the emulation is paused and no device at work that  *)
(* looks at the pause after it has come out of nc_pause_idle.              *)
THEOREM StillWhileWritingHolds == Spec => []StillWhileWriting
<1>1. Init => IInv /\ StillInv
  BY InitInv
<1>2. IInv /\ StillInv /\ [Next]_vars => IInv' /\ StillInv'
  BY NextKeeps, NextStands
<1>3. IInv /\ StillInv => StillWhileWriting
  BY DEF StillWhileWriting, StillInv, SaveInv, AppInv, RequestInv, Answering
<1>. QED
  BY <1>1, <1>2, <1>3, PTL DEF Spec
=============================================================================
