---------------------------- MODULE DiskStorage -----------------------------
(***************************************************************************)
(* The disk storage (storage/disk_storage.go): a folder of documents, one  *)
(* per trace, written through by Save and bounded by the prune that ends   *)
(* each write, under a ring in memory that serves every listing.           *)
(*                                                                         *)
(* Nothing coordinates the calls: a write, the listing of the folder and   *)
(* every removal are steps of their own, and calls of Save, Reset and      *)
(* Prune interleave between them. The ring is the bounded log of Retention *)
(* and has its own lock, so a call of it is one step.                      *)
(*                                                                         *)
(* Documents are numbered in the order of their names: the order in which  *)
(* the traces began, or any order where clients choose the IDs. Saves come *)
(* in the order the traces finish, each trace is saved once.               *)
(***************************************************************************)
EXTENDS Integers, Sequences, FiniteSets, FiniteSetsExt, Retention

CONSTANTS
  MaxTraces,    \* the documents are 1..MaxTraces
  Limit,        \* retention limit; zero or less is unbounded
  DiskMayFail,  \* whether operations on the folder can fail
  MaxResets,    \* bound on the calls of Reset
  MaxPrunes,    \* bound on the calls of Prune
  MaxCrashes    \* bound on the ends of the process

Docs == 1..MaxTraces

ASSUME DiskAssumption ==
  /\ MaxTraces \in Nat
  /\ Limit \in Int
  /\ DiskMayFail \in BOOLEAN
  /\ {MaxResets, MaxPrunes, MaxCrashes} \subseteq Nat

VARIABLES
  folder,       \* the documents in the folder
  aged,         \* those whose modification is longer ago than maxAge
  ring,         \* s.memory: what it lists, newest first
  wpc, doomed,  \* a Save's position, and the documents it has yet to remove
  rpc, rleft,   \* Reset's position, and the documents it has yet to remove
  rbound,       \* observer: the traces whose Save was over when it was called
  ppc, pleft,   \* Prune's position, and the entries it has yet to look at
  pbound,       \* observer: the documents it is to remove
  up,           \* whether the process has opened the storage
  resets, prunes, crashes   \* calls and crashes so far

saveVars  == <<wpc, doomed>>
resetVars == <<rpc, rleft, rbound, resets>>
pruneVars == <<ppc, pleft, pbound, prunes>>
vars == <<folder, aged, ring, saveVars, resetVars, pruneVars, up, crashes>>

(* The ring's size: an unbounded storage gets a ring of no slots.          *)
RingSize == IF Limit > 0 THEN Limit ELSE 0

(* What the ring keeps of a trace. A clone is in flight unless the trace   *)
(* is marked finished, and the mark is not part of a document.             *)
Recorded(i) == [of |-> i, inFlight |-> FALSE]
Decoded(i)  == [of |-> i, inFlight |-> TRUE]

InRing == {ring[n].of : n \in DOMAIN ring}

Move(w, from, to) == wpc[w] = from /\ wpc' = [wpc EXCEPT ![w] = to]

-----------------------------------------------------------------------------
Init ==
  /\ folder = {}
  /\ aged = {}
  /\ ring = << >>
  /\ wpc = [w \in Docs |-> "idle"]
  /\ doomed = [w \in Docs |-> {}]
  /\ rpc = "idle" /\ rleft = {} /\ rbound = {}
  /\ ppc = "idle" /\ pleft = {} /\ pbound = {}
  /\ up = TRUE
  /\ resets = 0 /\ prunes = 0 /\ crashes = 0

-----------------------------------------------------------------------------
(* Save. *)

(* The document is written under a temporary name and renamed.             *)
Write(w) ==
  /\ up
  /\ Move(w, "idle", "written")
  /\ folder' = folder \cup {w}
  /\ UNCHANGED <<aged, ring, doomed, resetVars, pruneVars, up, crashes>>

(* Mutant: a trace is kept in the ring although its document failed.       *)
KeepAnyway(w) == ring' = Saved(ring, Recorded(w), RingSize)

(* A disk failure returns before the ring is touched.                      *)
KeepNothing(w) == UNCHANGED ring

WriteFails(w) ==
  /\ up
  /\ DiskMayFail
  /\ Move(w, "idle", "failed")
  /\ KeepNothing(w)
  /\ UNCHANGED <<folder, aged, doomed, resetVars, pruneVars, up, crashes>>

(* Mutants: the newest documents are dropped, or one too few.              *)
NewestOver(names) == {i \in names : Cardinality({j \in names : j < i}) >= Limit}
AllButOneOver(names) ==
  {i \in names : Cardinality({j \in names : j > i}) > Limit}

(* The oldest names over the limit.                                        *)
Over(names) == {i \in names : Cardinality({j \in names : j > i}) >= Limit}

(* prune lists the folder.                                                 *)
ListToPrune(w) ==
  /\ Move(w, "written", "pruning")
  /\ doomed' = [doomed EXCEPT ![w] = IF Limit > 0 THEN Over(folder) ELSE {}]
  /\ UNCHANGED <<folder, aged, ring, resetVars, pruneVars, up, crashes>>

(* The oldest of them is removed; that it is gone already is no error.     *)
RemoveOver(w) ==
  /\ wpc[w] = "pruning"
  /\ doomed[w] # {}
  /\ LET i == Min(doomed[w])
     IN  /\ folder' = folder \ {i}
         /\ aged' = aged \ {i}
         /\ doomed' = [doomed EXCEPT ![w] = @ \ {i}]
  /\ UNCHANGED <<ring, wpc, resetVars, pruneVars, up, crashes>>

SaveFails(w) ==
  /\ DiskMayFail
  /\ Move(w, "written", "interrupted") \/ Move(w, "pruning", "interrupted")
  /\ doomed' = [doomed EXCEPT ![w] = {}]
  /\ KeepNothing(w)
  /\ UNCHANGED <<folder, aged, resetVars, pruneVars, up, crashes>>

(* Mutant: the newest entry goes last.                                     *)
KeptLast(w) == Newest(ring \o <<Recorded(w)>>, RingSize)

Kept(w) == Saved(ring, Recorded(w), RingSize)

(* s.memory.Save, after which Save has returned.                           *)
Keep(w) ==
  /\ doomed[w] = {}
  /\ Move(w, "pruning", "saved")
  /\ ring' = Kept(w)
  /\ UNCHANGED <<folder, aged, doomed, resetVars, pruneVars, up, crashes>>

-----------------------------------------------------------------------------
(* Reset: the ring, then every document the folder lists. *)

ResetRing ==
  /\ up
  /\ rpc \in {"idle", "returned"} /\ resets < MaxResets
  /\ rpc' = "listing"
  /\ rbound' = {w \in Docs : wpc[w] = "saved"}
  /\ resets' = resets + 1
  /\ ring' = << >>
  /\ UNCHANGED <<folder, aged, saveVars, rleft, pruneVars, up, crashes>>

(* Mutant: the documents within the retention limit stay.                  *)
ListOver == Over(folder)

ListAll == folder

ResetList ==
  /\ rpc = "listing"
  /\ rpc' = "removing"
  /\ rleft' = ListAll
  /\ UNCHANGED <<folder, aged, ring, saveVars, rbound, resets, pruneVars, up,
                 crashes>>

ResetRemove ==
  /\ rpc = "removing"
  /\ rleft # {}
  /\ folder' = folder \ {Min(rleft)}
  /\ aged' = aged \ {Min(rleft)}
  /\ rleft' = rleft \ {Min(rleft)}
  /\ UNCHANGED <<ring, saveVars, rpc, rbound, resets, pruneVars, up, crashes>>

ResetReturn ==
  /\ rpc = "removing"
  /\ rleft = {}
  /\ rpc' = "returned"
  /\ UNCHANGED <<folder, aged, ring, saveVars, rleft, rbound, resets, pruneVars,
                 up, crashes>>

ResetFails ==
  /\ DiskMayFail
  /\ rpc \in {"listing", "removing"}
  /\ rpc' = "idle"
  /\ rleft' = {}
  /\ rbound' = {}
  /\ UNCHANGED <<folder, aged, ring, saveVars, resets, pruneVars, up, crashes>>

-----------------------------------------------------------------------------
(* Prune: the documents older than maxAge, in the order of their names. *)

(* maxAge passes: what is in the folder is old, what is written later is   *)
(* not.                                                                    *)
GrowOld ==
  /\ prunes < MaxPrunes
  /\ aged' = folder
  /\ UNCHANGED <<folder, ring, saveVars, resetVars, pruneVars, up, crashes>>

PruneList ==
  /\ up
  /\ ppc # "looking" /\ prunes < MaxPrunes
  /\ ppc' = "looking"
  /\ pleft' = folder
  /\ pbound' = aged
  /\ prunes' = prunes + 1
  /\ UNCHANGED <<folder, aged, ring, saveVars, resetVars, up, crashes>>

(* Mutant: a look that fails ends the loop without an error.               *)
GoneEnds == "returned"

(* A look that fails is an error of the call.                              *)
GoneFails == "failed"

(* An entry is looked at and removed when it is old. The look fails when   *)
(* another call has removed the document meanwhile, and Prune returns.     *)
PruneLook ==
  /\ ppc = "looking"
  /\ pleft # {}
  /\ LET i == Min(pleft)
     IN  IF i \in folder
         THEN /\ pleft' = pleft \ {i}
              /\ folder' = IF i \in aged THEN folder \ {i} ELSE folder
              /\ aged' = aged \ {i}
              /\ UNCHANGED ppc
         ELSE /\ pleft' = {}
              /\ ppc' = GoneFails
              /\ UNCHANGED <<folder, aged>>
  /\ UNCHANGED <<ring, saveVars, resetVars, pbound, prunes, up, crashes>>

PruneReturn ==
  /\ ppc = "looking"
  /\ \/ pleft = {} /\ ppc' = "returned"
     \/ DiskMayFail /\ ppc' = "failed"
  /\ pleft' = {}
  /\ UNCHANGED <<folder, aged, ring, saveVars, resetVars, pbound, prunes, up,
                 crashes>>

-----------------------------------------------------------------------------
(* The process ends at any moment, and the next one opens the folder. *)

Crash ==
  /\ up
  /\ crashes < MaxCrashes
  /\ up' = FALSE
  /\ crashes' = crashes + 1
  /\ ring' = << >>
  /\ wpc' = [w \in Docs |-> IF wpc[w] \in {"written", "pruning"}
                            THEN "interrupted" ELSE wpc[w]]
  /\ doomed' = [w \in Docs |-> {}]
  /\ rpc' = "idle" /\ rleft' = {} /\ rbound' = {}
  /\ ppc' = "idle" /\ pleft' = {} /\ pbound' = {}
  /\ UNCHANGED <<folder, aged, resets, prunes>>

(* The documents Restore reads: the newest up to the limit.                *)
ToRestore == IF Limit > 0 THEN folder \ Over(folder) ELSE folder

(* The documents of a set, the newest first.                               *)
NewestFirst(names) ==
  [n \in 1..Cardinality(names) |->
     CHOOSE i \in names : Cardinality({j \in names : j > i}) = n - 1]

(* The ring after the documents were saved to it, the oldest first.        *)
RingOf(names) ==
  LET read == NewestFirst(names)
  IN  [n \in 1..Smaller(Len(read), RingSize) |-> Decoded(read[n])]

(* NewDiskStorage, and Restore when the process asks for it, before it     *)
(* records anything. A document that cannot be read is skipped.            *)
Restart ==
  /\ ~up
  /\ up' = TRUE
  /\ \/ UNCHANGED ring
     \/ \E bad \in SUBSET (IF DiskMayFail THEN folder ELSE {}) :
          ring' = RingOf(ToRestore \ bad)
  /\ UNCHANGED <<folder, aged, saveVars, resetVars, pruneVars, crashes>>

-----------------------------------------------------------------------------
Save(w) ==
  \/ Write(w) \/ WriteFails(w) \/ ListToPrune(w) \/ RemoveOver(w)
  \/ SaveFails(w) \/ Keep(w)

Reset == ResetRing \/ ResetList \/ ResetRemove \/ ResetReturn \/ ResetFails

Prune == PruneList \/ PruneLook \/ PruneReturn

Next ==
  \/ \E w \in Docs : Save(w)
  \/ Reset \/ GrowOld \/ Prune
  \/ Crash \/ Restart

Spec == Init /\ [][Next]_vars

-----------------------------------------------------------------------------
TypeOK ==
  /\ folder \subseteq Docs
  /\ aged \subseteq folder
  /\ ring \in Seq([of : Docs, inFlight : BOOLEAN])
  /\ Len(ring) <= RingSize
  /\ wpc \in [Docs -> {"idle", "failed", "written", "pruning", "interrupted",
                       "saved"}]
  /\ doomed \in [Docs -> SUBSET Docs]
  /\ rpc \in {"idle", "listing", "removing", "returned"}
  /\ rleft \subseteq Docs /\ rbound \subseteq Docs
  /\ ppc \in {"idle", "looking", "returned", "failed"}
  /\ pleft \subseteq Docs /\ pbound \subseteq Docs
  /\ up \in BOOLEAN
  /\ resets \in 0..MaxResets /\ prunes \in 0..MaxPrunes
  /\ crashes \in 0..MaxCrashes

NewerInFolder(i) == Cardinality({j \in folder : j > i})

(* The folder exceeds its limit by no more than the saves that are under   *)
(* way or were cut short: prunes that run concurrently, and a Reset or a   *)
(* Prune next to them, leave nothing behind for good                       *)
(* (disk_storage.go:141-143, 278-292).                                     *)
FolderBounded ==
  Limit > 0 =>
    Cardinality(folder) <= Limit
      + Cardinality({w \in Docs : wpc[w] \in {"written", "pruning", "interrupted"}})

(* What the ring serves is persisted (disk_storage.go:116-118), unless     *)
(* newer documents fill the folder; and a prune costs no document as long  *)
(* as there are older ones. Reset and Prune remove more and are left out.  *)
ServedIsPersistedOrOld ==
  Limit > 0 /\ resets = 0 /\ prunes = 0 =>
    \A i \in InRing \cup {w \in Docs : wpc[w] = "saved"} :
      i \in folder \/ NewerInFolder(i) >= Limit

(* A Reset that has returned dropped every trace whose Save was over when  *)
(* it was called, from the ring and from the folder, whatever Saves and    *)
(* prunes ran next to it (disk_storage.go:213-228).                        *)
ResetDropsSaved ==
  rpc = "returned" => rbound \cap (folder \cup InRing) = {}

(* A Prune that returned without an error dropped every document that was  *)
(* old when it was called, though saves and a Reset may have removed some  *)
(* of them first (disk_storage.go:230-257).                                *)
PruneDropsOld == ppc = "returned" => pbound \cap folder = {}

(* The traces of earlier processes come after those of this one, newest    *)
(* first, and none is listed twice (disk_storage.go:76-84).                *)
RestoredInOrder ==
  /\ \A m, n \in DOMAIN ring : ring[m].of = ring[n].of => m = n
  /\ \A m, n \in DOMAIN ring :
       m < n /\ ring[m].inFlight => ring[n].inFlight /\ ring[m].of > ring[n].of

-----------------------------------------------------------------------------
(* What the documentation states and this code does not always do. *)

(* "InFlight reports whether the trace was still running when it was       *)
(* copied" (model/trace.go:28): a retained trace is completed.             *)
RetainedIsCompleted == \A n \in DOMAIN ring : ~ring[n].inFlight
=============================================================================
