----------------------------- MODULE StateCache -----------------------------
(***************************************************************************)
(* The title's cache drive in a savestate: native/state/cache.c, with the  *)
(* writing of the state's file (state.c), the request that saves (save.c), *)
(* the load at boot (core.c) and the app's deleting of a state             *)
(* (SaveStateStore.kt).  A state lists the drive's files, each with the    *)
(* hash of what it held; the contents lie next to the states, one blob per *)
(* content.  An index tells what each file hashed to, so that a save reads *)
(* and a load writes only the files that changed.                          *)
(*                                                                         *)
(* The process may die at any step, with what it wrote kept, and every     *)
(* write, rename, read, listing and removal may fail.  Contents are their  *)
(* own hashes, and all of one size; a file's change time counts the        *)
(* touches the kernel records; one partition; blobs and states appear      *)
(* under their names whole (written aside, then renamed).                  *)
(***************************************************************************)
EXTENDS Naturals

CONSTANTS
  Files,      \* the files the drive may have
  Contents,   \* what a file may hold
  Slots,      \* the app's slots
  None,       \* no file
  Times,      \* modification times: a title sets them as it likes
  TOUCHES     \* bound: how often a file is touched

ASSUME NoneAssumption == None \notin Contents

VARIABLES
  drive,      \* what each file holds, None: it is not there
  mtime,      \* each file's modification time
  ctime,      \* each file's change time
  blobs,      \* the contents in the store
  index,      \* blobs/index: entries [file, hash, mtime, ctime]
  saved,      \* the slots that have a state
  files,      \* what the state of each slot lists: [file, hash, mtime]
  phase,      \* what the process is at
  slot,       \* the slot it saves or loads, as a set: none or one
  todo,       \* the files a save or a load has to see to
  list,       \* what is listed by the state being saved, or loaded
  g_idx,      \* the index in memory
  unread,     \* the states the collection of blobs has to read
  refs,       \* the contents of those it has read
  missed      \* the files a save or a load did not list, or not remove

disk == << drive, mtime, ctime >>
store == << blobs, index, saved, files >>
work == << slot, todo, list, g_idx, unread, refs, missed >>
cacheVars == << disk, store, phase, work >>

Phases == {"down", "title", "store", "write", "collect", "load"}

CacheInit ==
  /\ drive \in [Files -> Contents \cup {None}]
  /\ mtime \in [Files -> Times]
  /\ ctime = [f \in Files |-> 0]
  /\ blobs = {} /\ index = {}
  /\ saved = {} /\ files = [s \in Slots |-> {}]
  /\ phase = "title"
  /\ slot = {} /\ todo = {} /\ list = {} /\ g_idx = {}
  /\ unread = {} /\ refs = {} /\ missed = {}

-----------------------------------------------------------------------------
Entry(f, c, m, t) == [file |-> f, hash |-> c, mtime |-> m, ctime |-> t]

IndexSet(i, e) == {x \in i : x.file # e.file} \cup {e}

(* The file is as it was when the entry was made: its size and both times. *)
Untouched(e, f) ==
  /\ drive[f] # None
  /\ e.file = f /\ e.mtime = mtime[f] /\ e.ctime = ctime[f]

Hashes(l) == {x.hash : x \in l}

Touch(f, c, m) ==
  /\ ctime[f] < TOUCHES
  /\ drive' = [drive EXCEPT ![f] = c]
  /\ mtime' = [mtime EXCEPT ![f] = m]
  /\ ctime' = [ctime EXCEPT ![f] = @ + 1]

(* The title writes a file, sets its time, makes or removes it.            *)
TitleWrites(f, c, m) ==
  /\ phase = "title"
  /\ Touch(f, c, m)
  /\ UNCHANGED << store, phase, work >>

(* The save or the load is over, and forgets what it had.                  *)
Ends(p) ==
  /\ phase' = p
  /\ slot' = {} /\ todo' = {} /\ list' = {} /\ g_idx' = {}
  /\ unread' = {} /\ refs' = {} /\ missed' = {}

-----------------------------------------------------------------------------
(* walk: the drive's files, without those of a folder that cannot be read  *)
(* or whose entries cannot be looked at, which are passed over in silence. *)
Walked == missed' \in SUBSET {f \in Files : drive[f] # None}

(* A save: the CPU, with every device still, stores what the drive holds,  *)
(* then writes the state.                                                  *)
BeginSave(s) ==
  /\ phase = "title" /\ Walked
  /\ phase' = "store" /\ slot' = {s}
  /\ todo' = {f \in Files : drive[f] # None} \ missed'
  /\ list' = {} /\ g_idx' = index
  /\ UNCHANGED << disk, store, unread, refs >>

Listed(f, c) == list \cup {[file |-> f, hash |-> c, mtime |-> mtime[f]]}

Known(e, f) == Untouched(e, f) /\ e.hash \in blobs

ListUnchanged(f) ==
  /\ phase = "store" /\ f \in todo
  /\ \E e \in g_idx : Known(e, f) /\ list' = Listed(f, e.hash)
  /\ todo' = todo \ {f}
  /\ UNCHANGED << disk, store, phase, slot, g_idx, unread, refs, missed >>

StoreFile(f) ==
  /\ phase = "store" /\ f \in todo
  /\ ~\E e \in g_idx : Known(e, f)
  /\ blobs' = blobs \cup {drive[f]}
  /\ list' = Listed(f, drive[f])
  /\ g_idx' = IndexSet(g_idx, Entry(f, drive[f], mtime[f], ctime[f]))
  /\ todo' = todo \ {f}
  /\ UNCHANGED << disk, index, saved, files, phase, slot, unread, refs, missed >>

(* The index is written aside and renamed, or stays what it was.           *)
SaveIndex == index' \in {index, g_idx}

(* A file cannot be stored, or there is no memory for the lists.           *)
StoreFails ==
  /\ phase = "store"
  /\ SaveIndex /\ Ends("title")
  /\ UNCHANGED << disk, blobs, saved, files >>

Stored ==
  /\ phase = "store" /\ todo = {}
  /\ SaveIndex /\ phase' = "write"
  /\ UNCHANGED << disk, blobs, saved, files, work >>

(* Fault: the states to read were listed before the new one was there.     *)
WriteStateUnlisted ==
  /\ phase = "write"
  /\ saved' = saved \cup slot
  /\ files' = [s \in Slots |-> IF s \in slot THEN list ELSE files[s]]
  /\ phase' = "collect" /\ unread' = saved /\ refs' = {}
  /\ UNCHANGED << disk, blobs, index, slot, todo, list, g_idx, missed >>

WriteStateFile ==
  /\ phase = "write"
  /\ saved' = saved \cup slot
  /\ files' = [s \in Slots |-> IF s \in slot THEN list ELSE files[s]]
  /\ phase' = "collect" /\ unread' = saved' /\ refs' = {}
  /\ UNCHANGED << disk, blobs, index, slot, todo, list, g_idx, missed >>

WriteFails ==
  /\ phase = "write"
  /\ Ends("title")
  /\ UNCHANGED << disk, store >>

(* Then the blobs no state lists are removed: every state is read first,   *)
(* and one that cannot be read keeps them all.                             *)
ReadState(s) ==
  /\ phase = "collect" /\ s \in unread
  /\ unread' = unread \ {s}
  /\ refs' = refs \cup Hashes(files[s])
  /\ UNCHANGED << disk, store, phase, slot, todo, list, g_idx, missed >>

ReadFails ==
  /\ phase = "collect" /\ unread # {}
  /\ Ends("title")
  /\ UNCHANGED << disk, store >>

RemoveBlob(c) ==
  /\ phase = "collect" /\ unread = {}
  /\ c \in blobs \ refs
  /\ blobs' = blobs \ {c}
  /\ UNCHANGED << disk, index, saved, files, phase, work >>

Collected ==
  /\ phase = "collect" /\ unread = {}
  /\ blobs \subseteq refs
  /\ Ends("title")
  /\ UNCHANGED << disk, store >>

-----------------------------------------------------------------------------
(* The app deletes a state, with the last one the store; not while its     *)
(* dialog waits for a save.                                                *)
Delete(s) ==
  /\ phase \in {"down", "title"}
  /\ saved' = saved \ {s}
  /\ blobs' = IF saved' = {} THEN {} ELSE blobs
  /\ index' = IF saved' = {} THEN {} ELSE index
  /\ files' = [files EXCEPT ![s] = {}]
  /\ UNCHANGED << disk, phase, work >>

(* The process starts, on the drive as it is or with a state to load.      *)
Boot ==
  /\ phase = "down" /\ phase' = "title"
  /\ UNCHANGED << disk, store, work >>

BeginLoad(s) ==
  /\ phase = "down" /\ s \in saved /\ Walked
  /\ phase' = "load" /\ slot' = {s}
  /\ todo' = Files /\ list' = files[s] /\ g_idx' = index
  /\ UNCHANGED << disk, store, unread, refs >>

Lists(f) == \E x \in list : x.file = f

RemoveFile(f) ==
  /\ phase = "load" /\ f \in todo \ missed /\ ~Lists(f)
  /\ drive' = [drive EXCEPT ![f] = None]
  /\ todo' = todo \ {f}
  /\ UNCHANGED << mtime, ctime, store, phase, slot, list, g_idx, unread, refs, missed >>

(* It was not listed, or cannot be removed, which nobody asks.             *)
LeaveFile(f) ==
  /\ phase = "load" /\ f \in todo /\ ~Lists(f) /\ drive[f] # None
  /\ missed' = missed \cup {f}
  /\ todo' = todo \ {f}
  /\ UNCHANGED << disk, store, phase, slot, list, g_idx, unread, refs >>

(* What the state does not list is seen to before anything is written back.*)
ToRestore(f, x) ==
  /\ phase = "load" /\ f \in todo
  /\ x \in list /\ x.file = f
  /\ \A g \in todo : Lists(g)

(* Fault: an untouched file is kept, whatever the state lists for it.      *)
AsIndexed(f, x) == f \notin missed /\ \E e \in g_idx : Untouched(e, f)

AsSaved(f, x) == f \notin missed /\ \E e \in g_idx : Untouched(e, f) /\ e.hash = x.hash

KeepFile(f, x) ==
  /\ ToRestore(f, x) /\ AsSaved(f, x)
  /\ todo' = todo \ {f}
  /\ UNCHANGED << disk, store, phase, slot, list, g_idx, unread, refs, missed >>

(* Its time may not be set, nor its change time be had (t).                *)
RestoreFile(f, x) ==
  /\ ToRestore(f, x) /\ ~AsSaved(f, x)
  /\ x.hash \in blobs
  /\ \E m \in Times : Touch(f, x.hash, m)
  /\ \E t \in {0, ctime'[f]} : g_idx' = IndexSet(g_idx, Entry(f, x.hash, x.mtime, t))
  /\ todo' = todo \ {f}
  /\ UNCHANGED << store, phase, slot, list, unread, refs, missed >>

(* Fault: the index is set before the file is written.                     *)
RestoreFailsIndexed(f, x) ==
  /\ ToRestore(f, x) /\ ~AsSaved(f, x)
  /\ index' = IndexSet(g_idx, Entry(f, x.hash, mtime[f], ctime[f])) /\ Ends("down")
  /\ UNCHANGED << disk, blobs, saved, files >>

(* A file cannot be written back: the boot fails, and the process ends.    *)
RestoreFails(f, x) ==
  /\ ToRestore(f, x) /\ ~AsSaved(f, x)
  /\ SaveIndex /\ Ends("down")
  /\ UNCHANGED << disk, blobs, saved, files >>

Loaded ==
  /\ phase = "load" /\ todo = {}
  /\ SaveIndex /\ Ends("title")
  /\ UNCHANGED << disk, blobs, saved, files >>

(* The process dies, wherever it is.                                       *)
Dies ==
  /\ phase # "down" /\ Ends("down")
  /\ UNCHANGED << disk, store >>

-----------------------------------------------------------------------------
SavingStep ==
  \/ \E s \in Slots : BeginSave(s) \/ ReadState(s)
  \/ \E f \in Files : ListUnchanged(f) \/ StoreFile(f)
  \/ StoreFails \/ Stored \/ WriteStateFile \/ WriteFails
  \/ ReadFails \/ Collected
  \/ \E c \in Contents : RemoveBlob(c)

LoadingStep ==
  \/ \E s \in Slots : BeginLoad(s)
  \/ \E f \in Files :
       \/ RemoveFile(f) \/ LeaveFile(f)
       \/ \E x \in list : KeepFile(f, x) \/ RestoreFile(f, x) \/ RestoreFails(f, x)
  \/ Loaded

CacheNext ==
  \/ \E f \in Files, c \in Contents \cup {None}, m \in Times : TitleWrites(f, c, m)
  \/ SavingStep \/ LoadingStep
  \/ \E s \in Slots : Delete(s)
  \/ Boot \/ Dies

CacheSpec == CacheInit /\ [][CacheNext]_cacheVars

-----------------------------------------------------------------------------
Entries == [file : Files, hash : Contents, mtime : Times, ctime : Nat]

OneEach(i) == \A x, y \in i : x.file = y.file => x = y

(* The types; either index has one entry for a file at most (cache.c       *)
(* index_set), and a save only stores files that are there (walk).         *)
CacheTypeOK ==
  /\ drive \in [Files -> Contents \cup {None}]
  /\ mtime \in [Files -> Times]
  /\ ctime \in [Files -> Nat]
  /\ blobs \subseteq Contents
  /\ saved \subseteq Slots
  /\ files \in [Slots -> SUBSET [file : Files, hash : Contents, mtime : Times]]
  /\ list \subseteq [file : Files, hash : Contents, mtime : Times]
  /\ phase \in Phases /\ slot \subseteq Slots
  /\ phase = "store" => \A f \in todo : drive[f] # None
  /\ todo \subseteq Files /\ missed \subseteq Files
  /\ unread \subseteq Slots /\ refs \subseteq Contents
  /\ index \subseteq Entries /\ OneEach(index)
  /\ g_idx \subseteq Entries /\ OneEach(g_idx)

(* Whatever a state lists is in the store, whole, so it can be loaded:     *)
(* whichever saves, deletions and collections came since, and wherever the *)
(* process died in them (cache.c nc_cache_state_save, nc_cache_gc).        *)
StatesLoadable == \A s \in saved : Hashes(files[s]) \subseteq blobs

(* An entry of either index that takes a file for unchanged names what the *)
(* file holds, though titles set modification times and a load writes      *)
(* files too (cache.c nc_cache_state_save, restore_drive).                 *)
IndexTruthful ==
  \A f \in Files : \A e \in index \cup g_idx : Untouched(e, f) => e.hash = drive[f]

(* The states are snapshots, taken at once and loaded whole, but for the   *)
(* files that the host would not list, or not remove.                      *)
Snapshot(l) ==
  [f \in Files |-> IF \E x \in l : x.file = f
                   THEN (CHOOSE x \in l : x.file = f).hash ELSE None]

Promise == INSTANCE SavedDrives WITH
  snapshot <- [s \in Slots |-> Snapshot(files[s])],
  loading <- IF phase = "load" THEN slot ELSE {},
  running <- phase \notin {"down", "load"}

KeepsPromise == Promise!Spec

(* A state that is written is not one "missing files" (cache.c:572): it    *)
(* lists whatever the drive holds.  The code does not keep that (README,   *)
(* Divergence 19).                                                         *)
StatesMissNothing ==
  [][\A s \in saved' : files'[s] # files[s] => Snapshot(files'[s]) = drive]_cacheVars

(* A load makes the drive what the state lists: "what isn't in it goes,    *)
(* what changed comes back from the store" (cache.c:635).  The code does   *)
(* not keep that either (README, Divergence 19).                           *)
LoadsLeaveNothing ==
  [][phase = "load" /\ phase' = "title" => drive = Snapshot(list)]_cacheVars
=============================================================================
