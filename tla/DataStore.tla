------------------------------ MODULE DataStore ------------------------------
(***************************************************************************)
(* The brew store of the daemon: datastore.c, and the request handlers of  *)
(* server.c that edit the store through its functions or through the       *)
(* pointer dataStoreGetBrews returns.  The daemon's main thread runs all   *)
(* of it, one request after the other.                                     *)
(*                                                                         *)
(* Memory is modelled as far as ownership goes: brewData is an array of    *)
(* slots, a slot's name is a pointer to a block of the heap.  The array    *)
(* block itself is freed or reallocated wherever it is replaced and is not *)
(* tracked.  Indices are the program's, from 0.                            *)
(*                                                                         *)
(* The file brew.db is written record by record and the process may die    *)
(* between any two writes; how stdio groups the writes only makes some of  *)
(* these files rarer.                                                      *)
(***************************************************************************)
EXTENDS Integers, Sequences

CONSTANTS
  Ptrs,     \* addresses of name blocks
  Names,    \* brew names
  NoName,   \* the empty name
  Abvs,     \* alcohol by volume, in tenths of a percent
  VolMod,   \* 2^64, width of mLRemaining
  Cap,      \* 2^8, width of numBrews
  Pours     \* volumes a pour may take off

ASSUME DataStoreAssumption ==
  /\ Cap \in Nat \ {0, 1}
  /\ VolMod \in Nat \ {0}
  /\ 0 \in Abvs
  /\ Pours \subseteq 0 .. (VolMod - 1)

Volumes == 0 .. (VolMod - 1)
Slots   == [name : Ptrs, abv : Abvs, mL : Volumes]
Brews   == [name : Names \cup {NoName}, abv : Abvs, mL : Volumes]

VARIABLES
  brewData,  \* the slots of the array
  isNull,    \* brewData is NULL: nothing was ever allocated
  numBrews,  \* the count byte
  heap,      \* live name blocks, with the name in them
  db,        \* brew.db: how far it is written, its count and its records
  phase      \* "down", "up", "saving", "quit": the main thread's progress

VARIABLES    \* history variables, read by no guard
  saved,     \* the list that the last complete save wrote
  torn,      \* a save was cut short since then
  request    \* the request served last, with its arguments

memory == <<brewData, isNull, numBrews, heap>>
vars   == <<memory, db, phase, saved, torn, request>>

-----------------------------------------------------------------------------
(* Helpers *)

\* Blocks a list of slots points to.
Pointers(slots) == {slots[i].name : i \in 1 .. Len(slots)}

Free(blocks) == [p \in DOMAIN heap \ blocks |-> heap[p]]
Alloc(h, p, n) == [q \in DOMAIN h \cup {p} |-> IF q = p THEN n ELSE h[q]]

\* The slots that count.
Stored == SubSeq(brewData, 1, numBrews)

\* What a reader of the store sees: the list of brews, names instead of
\* pointers.
View == [i \in 1 .. numBrews |->
           [name |-> heap[brewData[i].name], abv |-> brewData[i].abv,
            mL |-> brewData[i].mL]]

Without(s, i) == [k \in 1 .. (Len(s) - 1) |-> IF k < i THEN s[k] ELSE s[k + 1]]

\* mLRemaining -= ml
Less(volume, ml) == IF volume >= ml THEN volume - ml ELSE (volume - ml) + VolMod

Serve(r) ==
  /\ phase = "up"
  /\ request' = r
  /\ UNCHANGED <<db, phase, saved, torn>>

-----------------------------------------------------------------------------
(* Requests *)

\* dataStoreInsert: a new array with room for one more, the name copied to a
\* block of its own, and the count byte incremented.
AddBrew(n, abv, mL, p) ==
  /\ Serve([call |-> "add", brew |-> [name |-> n, abv |-> abv, mL |-> mL]])
  /\ p \notin DOMAIN heap
  /\ brewData' = Append(Stored, [name |-> p, abv |-> abv, mL |-> mL])
  /\ isNull' = FALSE
  /\ heap' = Alloc(heap, p, n)
  /\ numBrews' = (numBrews + 1) % Cap

\* Mutant of RemoveElement: the index is not checked.
RemoveElement_Unchecked(slots, index) ==
  /\ brewData' = Without(slots, index + 1)
  /\ numBrews' = numBrews - 1

\* dataStoreRemoveElement on the given slots: the later ones move down; the
\* name block of the removed one stays allocated.
RemoveElement(slots, index) ==
  IF index < numBrews
    THEN /\ brewData' = Without(slots, index + 1)
         /\ numBrews' = numBrews - 1
    ELSE /\ brewData' = slots
         /\ UNCHANGED numBrews

RemoveBrew(index) ==
  /\ Serve([call |-> "remove", index |-> index])
  /\ RemoveElement(brewData, index)
  /\ UNCHANGED <<isNull, heap>>

\* Mutant of RenameBrew: the name of one brew is freed and the new one stored in
\* the next.
RenameBrew_NextSlot(index, n, p, leftover) ==
  /\ Serve([call |-> "rename", index |-> index, name |-> n])
  /\ \/ /\ index + 1 < numBrews
        /\ LET old == brewData[index + 1].name
           IN  /\ p \notin DOMAIN heap \ {old}
               /\ heap' = Alloc(Free({old}), p, n)
        /\ RemoveElement([brewData EXCEPT ![index + 2].name = p], leftover)
     \/ /\ index >= numBrews
        /\ RemoveElement(brewData, leftover)
        /\ UNCHANGED heap
  /\ UNCHANGED isNull

\* DAEMON_RENAME_BREW falls through into DAEMON_REMOVE_BREW, whose read finds
\* no more bytes: what it takes for the index to remove is left over on the
\* stack.
RenameBrew(index, n, p, leftover) ==
  /\ Serve([call |-> "rename", index |-> index, name |-> n])
  /\ \/ /\ index < numBrews
        /\ LET old == brewData[index + 1].name
           IN  /\ p \notin DOMAIN heap \ {old}
               /\ heap' = Alloc(Free({old}), p, n)
        /\ RemoveElement([brewData EXCEPT ![index + 1].name = p], leftover)
     \/ /\ index >= numBrews
        /\ RemoveElement(brewData, leftover)
        /\ UNCHANGED heap
  /\ UNCHANGED isNull

\* Mutant of Pour: the tap's brew counted from 1.
Pour_NextSlot(ml) ==
  /\ Serve([call |-> "pour", mL |-> ml])
  /\ \/ /\ Len(brewData) > 1
        /\ brewData' = [brewData EXCEPT ![2].mL = Less(@, ml)]
     \/ /\ Len(brewData) <= 1 /\ ~isNull
        /\ UNCHANGED brewData
  /\ UNCHANGED <<isNull, numBrews, heap>>

\* The volume of a "zero" frame comes off brews[TAP_BREW_NUMBER], with no look
\* at the count.  Without that slot the write goes to a block with no room
\* for it: it faults if there is no block (see Crash), else it may be lost.
Pour(ml) ==
  /\ Serve([call |-> "pour", mL |-> ml])
  /\ \/ /\ brewData # <<>>
        /\ brewData' = [brewData EXCEPT ![1].mL = Less(@, ml)]
     \/ /\ brewData = <<>> /\ ~isNull
        /\ UNCHANGED brewData
  /\ UNCHANGED <<isNull, numBrews, heap>>

-----------------------------------------------------------------------------
(* Start: dataStoreInit, dataStoreLoad *)

\* The records of the file as fread delivers them: a record that is not there
\* leaves an empty name and zeros.  (The length of that name is then left over
\* on the stack; when calloc cannot have it the process faults and is down as
\* before.)
Record(i) ==
  IF i <= Len(db.records) THEN db.records[i]
                          ELSE [name |-> NoName, abv |-> 0, mL |-> 0]

Load(ps) ==
  /\ phase = "down"
  /\ phase' = "up"
  /\ numBrews' = db.count
  /\ isNull' = (db.bytes = "absent")
  /\ brewData' = [i \in 1 .. db.count |->
                    [name |-> ps[i], abv |-> Record(i).abv, mL |-> Record(i).mL]]
  /\ heap' = [p \in {ps[i] : i \in 1 .. db.count} |->
                Record(CHOOSE i \in 1 .. db.count : ps[i] = p).name]
  /\ UNCHANGED <<db, saved, torn, request>>

-----------------------------------------------------------------------------
(* Stop: dataStoreQuit, dataStoreSave *)

SaveOpen ==
  /\ phase = "up"
  /\ phase' = "saving"
  /\ db' = [bytes |-> "empty", count |-> 0, records |-> <<>>]
  /\ UNCHANGED <<memory, saved, torn, request>>

SaveCount ==
  /\ phase = "saving" /\ db.bytes = "empty"
  /\ db' = [bytes |-> "counted", count |-> numBrews, records |-> <<>>]
  /\ UNCHANGED <<memory, phase, saved, torn, request>>

\* A record: its name, then its two numbers.
SaveName ==
  /\ phase = "saving" /\ db.bytes = "counted"
  /\ Len(db.records) < numBrews
  /\ LET name == heap[brewData[Len(db.records) + 1].name]
     IN  db' = [db EXCEPT !.bytes = "named",
                          !.records = Append(@, [name |-> name, abv |-> 0, mL |-> 0])]
  /\ UNCHANGED <<memory, phase, saved, torn, request>>

\* Mutant of SaveNumbers: the volume is not written.
SaveNumbers_NoVolume ==
  /\ phase = "saving" /\ db.bytes = "named"
  /\ LET last == Len(db.records)
         data == brewData[last]
     IN  db' = [db EXCEPT !.bytes = "counted",
                          !.records[last] = [name |-> @.name, abv |-> data.abv, mL |-> 0]]
  /\ UNCHANGED <<memory, phase, saved, torn, request>>

SaveNumbers ==
  /\ phase = "saving" /\ db.bytes = "named"
  /\ LET last == Len(db.records)
         data == brewData[last]
     IN  db' = [db EXCEPT !.bytes = "counted",
                          !.records[last] = [name |-> @.name, abv |-> data.abv,
                                             mL |-> data.mL]]
  /\ UNCHANGED <<memory, phase, saved, torn, request>>

\* fclose, and the rest of dataStoreQuit: the names are freed, then the array.
SaveClose ==
  /\ phase = "saving" /\ db.bytes = "counted"
  /\ Len(db.records) = numBrews
  /\ phase' = "quit"
  /\ saved' = View
  /\ torn' = FALSE
  /\ heap' = Free(Pointers(Stored))
  /\ UNCHANGED <<brewData, isNull, numBrews, db, request>>

\* The process is gone and its memory with it.
Gone ==
  /\ phase' = "down"
  /\ brewData' = <<>> /\ isNull' = TRUE /\ numBrews' = 0
  /\ heap' = [p \in {} |-> NoName]
  /\ UNCHANGED <<db, saved, request>>

Exit ==
  /\ phase = "quit"
  /\ Gone
  /\ UNCHANGED torn

\* A kill, a fault (a pour without a brew, a file that cannot be opened for
\* writing), or a loss of power that loses no written file.
Crash ==
  /\ phase \in {"up", "saving"}
  /\ Gone
  /\ torn' = (torn \/ phase = "saving")

-----------------------------------------------------------------------------

Init ==
  /\ brewData = <<>> /\ isNull = TRUE /\ numBrews = 0
  /\ heap = [p \in {} |-> NoName]
  /\ db = [bytes |-> "absent", count |-> 0, records |-> <<>>]
  /\ phase = "down"
  /\ saved = <<>> /\ torn = FALSE /\ request = [call |-> "none"]

\* Blocks the allocator may hand out for n names.
Allocations(n) ==
  {ps \in [1 .. n -> Ptrs] : \A i, j \in 1 .. n : ps[i] = ps[j] => i = j}

Requests ==
  \/ \E n \in Names, abv \in Abvs, mL \in Volumes, p \in Ptrs : AddBrew(n, abv, mL, p)
  \/ \E index \in 0 .. (Cap - 1) : RemoveBrew(index)
  \/ \E index, leftover \in 0 .. (Cap - 1), n \in Names, p \in Ptrs :
        RenameBrew(index, n, p, leftover)
  \/ \E ml \in Pours : Pour(ml)

Next ==
  \/ Requests
  \/ \E ps \in Allocations(db.count) : Load(ps)
  \/ SaveOpen \/ SaveCount \/ SaveName \/ SaveNumbers \/ SaveClose
  \/ Exit \/ Crash

Spec == Init /\ [][Next]_vars

-----------------------------------------------------------------------------
(* Properties *)

TypeOK ==
  /\ brewData \in Seq(Slots)
  /\ isNull \in BOOLEAN
  /\ numBrews \in 0 .. (Cap - 1)
  /\ DOMAIN heap \subseteq Ptrs
  /\ \A p \in DOMAIN heap : heap[p] \in Names \cup {NoName}
  /\ db \in [bytes : {"absent", "empty", "counted", "named"},
             count : 0 .. (Cap - 1), records : Seq(Brews)]
  /\ phase \in {"down", "up", "saving", "quit"}
  /\ saved \in Seq(Brews)
  /\ torn \in BOOLEAN
  /\ request.call \in {"none", "add", "remove", "rename", "pour"}

\* While the daemon works on the store, every brew that counts owns a live name
\* block of its own.  So a rename, which frees the old block, and the loop of
\* dataStoreQuit never free a block twice or one that another brew still uses,
\* however adds, removes and renames were mixed before.
NamesOwned ==
  phase \in {"up", "saving"} =>
    /\ Len(Stored) = numBrews
    /\ Pointers(Stored) \subseteq DOMAIN heap
    /\ \A i, j \in 1 .. numBrews : brewData[i].name = brewData[j].name => i = j

\* A start of the daemon brings back the list of its last orderly stop, in order
\* and with every field, unless a crash fell into a later save: a crash at
\* any other moment costs the changes since that stop and nothing else.
RestartRestores == [][(phase = "down" /\ phase' = "up" /\ ~torn) => View' = saved]_vars

\* The store is the list of brews of module BrewList, pointers, count byte and
\* file format hidden.
Abstract == INSTANCE BrewList WITH
  brews   <- IF phase \in {"up", "saving"} THEN View ELSE <<>>,
  up      <- phase \in {"up", "saving"},
  damaged <- torn

ImplementsBrewList == Abstract!Spec

\* "--renamebrew [id] [newname]" (the usage text of main.c) gives a brew a new
\* name: it takes none off the list.
RenameRemovesNothing ==
  [][(\E index, leftover \in 0 .. (Cap - 1), n \in Names, p \in Ptrs :
        RenameBrew(index, n, p, leftover)) => numBrews' = numBrews]_vars

=============================================================================
