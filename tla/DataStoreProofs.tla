--------------------------- MODULE DataStoreProofs ---------------------------
(***************************************************************************)
(* Proofs about the brew store for any number of name blocks, any width of *)
(* the count byte and of the volumes, and any brews.                       *)
(***************************************************************************)
EXTENDS DataStore, SequenceTheorems, TLAPS

-----------------------------------------------------------------------------
(* Sequences *)

\* A function on 1 .. n into S is a sequence over S of length n.
LEMMA FunctionIsSeq ==
  ASSUME NEW S, NEW n \in Nat, NEW f \in [1 .. n -> S]
  PROVE  f \in Seq(S) /\ Len(f) = n
<1>1. f \in Seq(S)
  BY SeqDef
<1>2. Len(f) \in Nat /\ DOMAIN f = 1 .. Len(f)
  BY <1>1, LenProperties
<1>3. 1 .. Len(f) = 1 .. n
  BY <1>2
<1>4. \A i \in Nat : i \in 1 .. Len(f) <=> i \in 1 .. n
  BY <1>3
<1>5. Len(f) = n
  BY <1>2, <1>4, SMT
<1> QED
  BY <1>1, <1>5

\* The loop of dataStoreRemoveElement: what is left is one shorter, the slots
\* below the index stay, the others move down by one.
LEMMA WithoutProperties ==
  ASSUME NEW S, NEW s \in Seq(S), NEW i \in 1 .. Len(s)
  PROVE  /\ Without(s, i) \in Seq(S)
         /\ Len(Without(s, i)) = Len(s) - 1
         /\ \A k \in 1 .. (Len(s) - 1) :
              Without(s, i)[k] = IF k < i THEN s[k] ELSE s[k + 1]
<1>1. Len(s) \in Nat /\ \A k \in 1 .. Len(s) : s[k] \in S
  BY ElementOfSeq, LenProperties
<1>2. Len(s) - 1 \in Nat
  BY <1>1
<1>3. Without(s, i) \in [1 .. (Len(s) - 1) -> S]
  BY <1>1, <1>2 DEF Without
<1>4. Without(s, i) \in Seq(S) /\ Len(Without(s, i)) = Len(s) - 1
  BY <1>2, <1>3, FunctionIsSeq
<1> QED
  BY <1>4 DEF Without

\* The slots that count are as many as numBrews says.
LEMMA PrefixProperties ==
  ASSUME NEW S, NEW s \in Seq(S), NEW n \in 0 .. Len(s)
  PROVE  /\ SubSeq(s, 1, n) \in Seq(S)
         /\ Len(SubSeq(s, 1, n)) = n
         /\ \A k \in 1 .. n : SubSeq(s, 1, n)[k] = s[k]
<1>1. Len(s) \in Nat
  BY LenProperties
<1>2. n \in Nat /\ 1 \in Nat \ {0}
  BY <1>1
<1> QED
  BY <1>1, <1>2, SubSeqProperties

\* The count byte after an add.
LEMMA CountType ==
  ASSUME NEW n \in 0 .. (Cap - 1)
  PROVE  /\ (n + 1) % Cap \in 0 .. (Cap - 1)
         /\ (n + 1) % Cap <= n + 1
  BY DataStoreAssumption, SMT

-----------------------------------------------------------------------------
(* The inductive invariant *)

\* The first n slots own blocks of their own.
OwnedIn(slots, n, blocks) ==
  /\ n <= Len(slots)
  /\ \A i \in 1 .. n : slots[i].name \in blocks
  /\ \A i, j \in 1 .. n : slots[i].name = slots[j].name => i = j

Owned == phase \in {"up", "saving"} => OwnedIn(brewData, numBrews, DOMAIN heap)

\* How far a save is.
SaveInv ==
  /\ db.bytes = "named" => Len(db.records) > 0
  /\ phase = "saving" =>
       /\ Len(db.records) <= numBrews
       /\ db.bytes \in {"counted", "named"} => db.count = numBrews

\* The file holds the list last saved, or the first brews of the list that is
\* being saved, the last of them without its numbers.
FileInv ==
  /\ (phase # "saving" /\ ~torn) => (db.records = saved /\ db.count = Len(saved))
  /\ phase = "saving" =>
       \A i \in 1 .. Len(db.records) :
         /\ db.records[i].name = heap[brewData[i].name]
         /\ (i < Len(db.records) \/ db.bytes = "counted") =>
              db.records[i].abv = brewData[i].abv /\ db.records[i].mL = brewData[i].mL

IInv == TypeOK /\ Owned /\ SaveInv /\ FileInv

AllNames == Names \cup {NoName}

\* The invariant holds before the daemon is first started.
LEMMA InitEstablishes == Init => IInv
<1> SUFFICES ASSUME Init PROVE IInv
  OBVIOUS
<1>1. \A S : <<>> \in Seq(S) /\ Len(<<>>) = 0
  BY EmptySeq
<1>2. 0 \in 0 .. (Cap - 1)
  BY DataStoreAssumption
<1>3. DOMAIN heap = {}
  BY DEF Init
<1>4. TypeOK
  BY <1>1, <1>2, <1>3 DEF Init, TypeOK
<1>5. Owned /\ SaveInv /\ FileInv
  BY <1>1 DEF Init, Owned, SaveInv, FileInv
<1> QED
  BY <1>4, <1>5 DEF IInv

\* dataStoreRemoveElement keeps the slots that stay owners of their blocks.
LEMMA RemoveElementKeeps ==
  ASSUME NEW blocks, NEW slots \in Seq(Slots), NEW index \in Nat,
         numBrews \in 0 .. (Cap - 1),
         OwnedIn(slots, numBrews, blocks),
         RemoveElement(slots, index)
  PROVE  /\ brewData' \in Seq(Slots)
         /\ numBrews' \in 0 .. (Cap - 1)
         /\ OwnedIn(brewData', numBrews', blocks)
<1>1. CASE index < numBrews
  <2>1. /\ brewData' = Without(slots, index + 1)
        /\ numBrews' = numBrews - 1
    BY <1>1 DEF RemoveElement
  <2>2. Len(slots) \in Nat /\ numBrews <= Len(slots) /\ numBrews \in Nat
    BY LenProperties, DataStoreAssumption DEF OwnedIn
  <2>3. index + 1 \in 1 .. Len(slots)
    BY <1>1, <2>2
  <2>4. /\ Without(slots, index + 1) \in Seq(Slots)
        /\ Len(Without(slots, index + 1)) = Len(slots) - 1
        /\ \A k \in 1 .. (Len(slots) - 1) :
             Without(slots, index + 1)[k] = IF k < index + 1 THEN slots[k] ELSE slots[k + 1]
    BY <2>3, WithoutProperties
  <2>5. numBrews' \in 0 .. (Cap - 1)
    BY <1>1, <2>1, DataStoreAssumption
  <2>6. numBrews' <= Len(brewData')
    BY <2>1, <2>2, <2>4
  <2>7. \A i \in 1 .. numBrews' :
          /\ i \in 1 .. numBrews /\ i + 1 \in 1 .. numBrews
          /\ brewData'[i] = IF i < index + 1 THEN slots[i] ELSE slots[i + 1]
    BY <2>1, <2>2, <2>4
  <2>8. \A i \in 1 .. numBrews' : brewData'[i].name \in blocks
    BY <2>7 DEF OwnedIn
  <2>9. \A i, j \in 1 .. numBrews' : brewData'[i].name = brewData'[j].name => i = j
    <3> SUFFICES ASSUME NEW i \in 1 .. numBrews', NEW j \in 1 .. numBrews',
                        brewData'[i].name = brewData'[j].name
                 PROVE  i = j
      OBVIOUS
    <3> DEFINE from(k) == IF k < index + 1 THEN k ELSE k + 1
    <3>1. /\ from(i) \in 1 .. numBrews /\ from(j) \in 1 .. numBrews
          /\ brewData'[i] = slots[from(i)] /\ brewData'[j] = slots[from(j)]
      BY <2>7
    <3>2. from(i) = from(j)
      BY <3>1 DEF OwnedIn
    <3> QED
      BY <3>2, <2>2, <2>1
  <2> QED
    BY <2>1, <2>4, <2>5, <2>6, <2>8, <2>9 DEF OwnedIn
<1>2. CASE ~(index < numBrews)
  BY <1>2 DEF RemoveElement, OwnedIn
<1> QED
  BY <1>1, <1>2

\* A request leaves the file alone.
LEMMA ServeKeepsFile ==
  ASSUME IInv, NEW r, Serve(r)
  PROVE  /\ SaveInv' /\ FileInv'
         /\ phase' = "up" /\ phase = "up" /\ request' = r
         /\ db' = db /\ saved' = saved /\ torn' = torn
BY DEF IInv, Serve, SaveInv, FileInv

\* The part of the invariant that is about memory, after a request.
MemoryInv ==
  /\ brewData \in Seq(Slots)
  /\ isNull \in BOOLEAN
  /\ numBrews \in 0 .. (Cap - 1)
  /\ DOMAIN heap \subseteq Ptrs
  /\ \A p \in DOMAIN heap : heap[p] \in AllNames
  /\ OwnedIn(brewData, numBrews, DOMAIN heap)

\* In a daemon that serves, the invariant is about memory.
LEMMA ServesWith ==
  ASSUME IInv, phase = "up" PROVE MemoryInv
BY DEF IInv, TypeOK, Owned, MemoryInv, AllNames

\* A request preserves the invariant if it keeps memory in order.
LEMMA ServePreserves ==
  ASSUME IInv, NEW r, Serve(r), MemoryInv',
         r.call \in {"add", "remove", "rename", "pour"}
  PROVE  IInv'
<1>1. TypeOK'
  BY ServeKeepsFile DEF IInv, TypeOK, MemoryInv, AllNames
<1>2. Owned'
  BY DEF MemoryInv, Owned
<1> QED
  BY <1>1, <1>2, ServeKeepsFile DEF IInv

\* Adding a brew.
LEMMA AddPreserves ==
  ASSUME IInv, NEW n \in Names, NEW abv \in Abvs, NEW mL \in Volumes, NEW p \in Ptrs,
         AddBrew(n, abv, mL, p)
  PROVE  IInv'
<1> DEFINE slot == [name |-> p, abv |-> abv, mL |-> mL]
           r == [call |-> "add", brew |-> [name |-> n, abv |-> abv, mL |-> mL]]
<1>1. Serve(r) /\ phase = "up" /\ r.call = "add"
  BY DEF AddBrew, Serve
<1>2. MemoryInv
  BY <1>1, ServesWith
<1>3. /\ p \notin DOMAIN heap
      /\ brewData' = Append(Stored, slot)
      /\ isNull' = FALSE
      /\ heap' = Alloc(heap, p, n)
      /\ numBrews' = (numBrews + 1) % Cap
  BY DEF AddBrew
<1>4. slot \in Slots
  BY DEF Slots
<1>5. numBrews \in 0 .. Len(brewData)
  BY <1>2, LenProperties, DataStoreAssumption DEF MemoryInv, OwnedIn
<1>6. /\ Stored \in Seq(Slots)
      /\ Len(Stored) = numBrews
      /\ \A i \in 1 .. numBrews : Stored[i] = brewData[i]
  BY <1>2, <1>5, PrefixProperties DEF MemoryInv, Stored
<1> HIDE DEF slot, r
<1>7. /\ brewData' \in Seq(Slots)
      /\ Len(brewData') = numBrews + 1
      /\ \A i \in 1 .. numBrews : brewData'[i] = brewData[i]
      /\ brewData'[numBrews + 1] = slot
  BY <1>3, <1>4, <1>6, AppendProperties
<1>8. /\ numBrews' \in 0 .. (Cap - 1)
      /\ numBrews' <= numBrews + 1
  BY <1>2, <1>3, CountType DEF MemoryInv
<1>9. /\ DOMAIN heap' = DOMAIN heap \cup {p}
      /\ \A q \in DOMAIN heap' : heap'[q] = IF q = p THEN n ELSE heap[q]
  BY <1>3 DEF Alloc
<1>10. slot.name = p
  BY DEF slot
<1>11. \A i \in 1 .. numBrews' : i \in 1 .. numBrews \/ i = numBrews + 1
  BY <1>2, <1>8, DataStoreAssumption DEF MemoryInv
<1>12. OwnedIn(brewData', numBrews', DOMAIN heap')
  <2>1. \A i \in 1 .. numBrews : brewData[i].name \in DOMAIN heap
    BY <1>2 DEF MemoryInv, OwnedIn
  <2>2. \A i \in 1 .. numBrews' : brewData'[i].name \in DOMAIN heap'
    BY <2>1, <1>7, <1>9, <1>10, <1>11
  <2>3. \A i, j \in 1 .. numBrews' : brewData'[i].name = brewData'[j].name => i = j
    BY <2>1, <1>2, <1>3, <1>7, <1>10, <1>11 DEF MemoryInv, OwnedIn
  <2> QED
    BY <2>2, <2>3, <1>7, <1>8 DEF OwnedIn
<1>13. MemoryInv'
  BY <1>2, <1>3, <1>7, <1>8, <1>9, <1>12 DEF MemoryInv, AllNames
<1> QED
  BY <1>1, <1>13, ServePreserves

\* Removing a brew.
LEMMA RemovePreserves ==
  ASSUME IInv, NEW index \in Nat, RemoveBrew(index)
  PROVE  IInv'
<1> DEFINE r == [call |-> "remove", index |-> index]
<1>1. Serve(r) /\ phase = "up" /\ r.call = "remove"
  BY DEF RemoveBrew, Serve
<1>2. MemoryInv
  BY <1>1, ServesWith
<1>3. /\ brewData' \in Seq(Slots)
      /\ numBrews' \in 0 .. (Cap - 1)
      /\ OwnedIn(brewData', numBrews', DOMAIN heap)
  BY <1>2, RemoveElementKeeps DEF RemoveBrew, MemoryInv
<1>4. MemoryInv'
  BY <1>2, <1>3 DEF RemoveBrew, MemoryInv
<1> QED
  BY <1>1, <1>4, ServePreserves

\* Memory between the rename and the removal it falls through to.
Renamed(index, p) == [brewData EXCEPT ![index + 1].name = p]
RenamedHeap(index, n, p) == Alloc(Free({brewData[index + 1].name}), p, n)

\* The slot at the index has a new block with the new name, the others keep
\* theirs.
LEMMA RenamedSlots ==
  ASSUME MemoryInv, NEW index \in Nat, index < numBrews, NEW n \in Names, NEW p \in Ptrs,
         p \notin DOMAIN heap \ {brewData[index + 1].name}
  PROVE  LET slots == Renamed(index, p)
             h     == RenamedHeap(index, n, p)
         IN  /\ slots \in Seq(Slots)
             /\ DOMAIN h \subseteq Ptrs /\ \A q \in DOMAIN h : h[q] \in AllNames
             /\ OwnedIn(slots, numBrews, DOMAIN h)
             /\ h[slots[index + 1].name] = n
             /\ slots[index + 1].abv = brewData[index + 1].abv
             /\ slots[index + 1].mL = brewData[index + 1].mL
             /\ \A j \in 1 .. numBrews : j # index + 1 =>
                  slots[j] = brewData[j] /\ h[slots[j].name] = heap[slots[j].name]
<1> DEFINE slots == Renamed(index, p)
           h == RenamedHeap(index, n, p)
           old == brewData[index + 1].name
           slot == [name |-> p, abv |-> brewData[index + 1].abv, mL |-> brewData[index + 1].mL]
<1>1. /\ numBrews \in Nat /\ Len(brewData) \in Nat /\ numBrews <= Len(brewData)
      /\ index + 1 \in 1 .. numBrews /\ index + 1 \in 1 .. Len(brewData)
  BY LenProperties, DataStoreAssumption DEF MemoryInv, OwnedIn
<1>2. brewData[index + 1] \in Slots
  BY <1>1, ElementOfSeq DEF MemoryInv
<1>3. /\ slot \in Slots /\ slot.name = p
      /\ slot.abv = brewData[index + 1].abv /\ slot.mL = brewData[index + 1].mL
  BY <1>2 DEF Slots
<1>4. slots = [brewData EXCEPT ![index + 1] = slot]
  <2>1. [brewData[index + 1] EXCEPT !.name = p] = slot
    BY <1>2 DEF Slots
  <2> QED
    BY <2>1, Zenon DEF Renamed
<1>5. /\ DOMAIN h = (DOMAIN heap \ {old}) \cup {p}
       /\ \A q \in DOMAIN h : h[q] = IF q = p THEN n ELSE heap[q]
  BY DEF Alloc, Free, RenamedHeap
<1> HIDE DEF slot, slots, h
<1>6. /\ slots \in Seq(Slots)
      /\ Len(slots) = Len(brewData)
      /\ \A j \in 1 .. Len(brewData) :
           slots[j] = IF j = index + 1 THEN slot ELSE brewData[j]
  BY <1>1, <1>3, <1>4, ExceptSeq DEF MemoryInv
<1>7. slots[index + 1] = slot
  BY <1>1, <1>6
<1>8. \A j \in 1 .. numBrews : j # index + 1 =>
        /\ slots[j] = brewData[j]
        /\ slots[j].name \in DOMAIN heap \ {old} /\ slots[j].name # p
  <2> TAKE j \in 1 .. numBrews
  <2> HAVE j # index + 1
  <2>1. j \in 1 .. Len(brewData)
    BY <1>1
  <2>2. slots[j] = brewData[j]
    BY <2>1, <1>6
  <2>3. brewData[j].name \in DOMAIN heap \ {old}
    BY <1>1 DEF MemoryInv, OwnedIn
  <2> QED
    BY <2>2, <2>3
<1>9. \A j \in 1 .. numBrews : slots[j].name \in DOMAIN h
  BY <1>3, <1>5, <1>7, <1>8
<1>10. \A i, j \in 1 .. numBrews : slots[i].name = slots[j].name => i = j
  BY <1>3, <1>7, <1>8 DEF MemoryInv, OwnedIn
<1>11. OwnedIn(slots, numBrews, DOMAIN h)
  BY <1>1, <1>6, <1>9, <1>10 DEF OwnedIn
<1>12. DOMAIN h \subseteq Ptrs /\ \A q \in DOMAIN h : h[q] \in AllNames
  BY <1>5 DEF MemoryInv, AllNames
<1>13. h[slots[index + 1].name] = n
  BY <1>3, <1>5, <1>7
<1>14. \A j \in 1 .. numBrews : j # index + 1 => h[slots[j].name] = heap[slots[j].name]
  BY <1>5, <1>8
<1> QED
  BY <1>3, <1>6, <1>7, <1>8, <1>11, <1>12, <1>13, <1>14 DEF slots, h

\* Renaming a brew, and the removal it falls through to.
LEMMA RenamePreserves ==
  ASSUME IInv, NEW index \in Nat, NEW leftover \in Nat, NEW n \in Names, NEW p \in Ptrs,
         RenameBrew(index, n, p, leftover)
  PROVE  IInv'
<1> DEFINE r == [call |-> "rename", index |-> index, name |-> n]
<1>1. Serve(r) /\ phase = "up" /\ r.call = "rename" /\ isNull' = isNull
  BY DEF RenameBrew, Serve
<1>2. MemoryInv
  BY <1>1, ServesWith
<1>3. CASE index >= numBrews /\ RemoveElement(brewData, leftover) /\ heap' = heap
  <2>1. /\ brewData' \in Seq(Slots)
        /\ numBrews' \in 0 .. (Cap - 1)
        /\ OwnedIn(brewData', numBrews', DOMAIN heap)
    BY <1>2, <1>3, RemoveElementKeeps DEF MemoryInv
  <2>2. MemoryInv'
    BY <1>1, <1>2, <1>3, <2>1 DEF MemoryInv
  <2> QED
    BY <1>1, <2>2, ServePreserves
<1>4. CASE /\ index < numBrews
           /\ p \notin DOMAIN heap \ {brewData[index + 1].name}
           /\ heap' = Alloc(Free({brewData[index + 1].name}), p, n)
           /\ RemoveElement([brewData EXCEPT ![index + 1].name = p], leftover)
  <2> DEFINE slots == Renamed(index, p)
  <2>0. /\ index < numBrews /\ p \notin DOMAIN heap \ {brewData[index + 1].name}
        /\ heap' = RenamedHeap(index, n, p) /\ RemoveElement(slots, leftover)
    BY <1>4, Zenon DEF Renamed, RenamedHeap
  <2> HIDE DEF slots
  <2>1. /\ slots \in Seq(Slots)
        /\ DOMAIN heap' \subseteq Ptrs /\ \A q \in DOMAIN heap' : heap'[q] \in AllNames
        /\ OwnedIn(slots, numBrews, DOMAIN heap')
    BY <1>2, <2>0, RenamedSlots DEF slots
  <2>2. /\ brewData' \in Seq(Slots)
        /\ numBrews' \in 0 .. (Cap - 1)
        /\ OwnedIn(brewData', numBrews', DOMAIN heap')
    BY <1>2, <2>0, <2>1, RemoveElementKeeps DEF MemoryInv
  <2>3. MemoryInv'
    BY <1>1, <1>2, <2>1, <2>2 DEF MemoryInv
  <2> QED
    BY <1>1, <2>3, ServePreserves
<1> QED
  BY <1>3, <1>4 DEF RenameBrew

\* Unsigned subtraction stays in range.
LEMMA LessType ==
  ASSUME NEW volume \in Volumes, NEW ml \in Volumes
  PROVE  Less(volume, ml) \in Volumes
BY DataStoreAssumption DEF Volumes, Less

\* Pouring.
LEMMA PourPreserves ==
  ASSUME IInv, NEW ml \in Pours, Pour(ml)
  PROVE  IInv'
<1> DEFINE r == [call |-> "pour", mL |-> ml]
<1>1. /\ Serve(r) /\ phase = "up" /\ r.call = "pour"
      /\ isNull' = isNull /\ numBrews' = numBrews /\ heap' = heap
  BY DEF Pour, Serve
<1>2. MemoryInv
  BY <1>1, ServesWith
<1>3. CASE brewData # <<>> /\ brewData' = [brewData EXCEPT ![1].mL = Less(@, ml)]
  <2> DEFINE slot == [name |-> brewData[1].name, abv |-> brewData[1].abv,
                      mL |-> Less(brewData[1].mL, ml)]
  <2>1. Len(brewData) \in Nat \ {0}
    BY <1>2, <1>3, EmptySeq DEF MemoryInv
  <2>2. brewData[1] \in Slots
    BY <1>2, <2>1, ElementOfSeq DEF MemoryInv
  <2>3. slot \in Slots /\ slot.name = brewData[1].name
    BY <2>2, LessType, DataStoreAssumption DEF Slots, Volumes
  <2>4. brewData' = [brewData EXCEPT ![1] = slot]
    <3>1. [brewData[1] EXCEPT !.mL = Less(brewData[1].mL, ml)] = slot
      BY <2>2 DEF Slots
    <3> QED
      BY <1>3, <3>1, Zenon
  <2> HIDE DEF slot
  <2>5. /\ brewData' \in Seq(Slots)
        /\ Len(brewData') = Len(brewData)
        /\ \A j \in 1 .. Len(brewData) : brewData'[j] = IF j = 1 THEN slot ELSE brewData[j]
    BY <1>2, <2>1, <2>3, <2>4, ExceptSeq DEF MemoryInv
  <2>6. \A j \in 1 .. numBrews : brewData'[j].name = brewData[j].name
    BY <1>2, <2>1, <2>3, <2>5, DataStoreAssumption DEF MemoryInv, OwnedIn
  <2>7. OwnedIn(brewData', numBrews', DOMAIN heap')
    BY <1>1, <1>2, <2>5, <2>6 DEF MemoryInv, OwnedIn
  <2>8. MemoryInv'
    BY <1>1, <1>2, <2>5, <2>7 DEF MemoryInv
  <2> QED
    BY <1>1, <2>8, ServePreserves
<1>4. CASE brewData' = brewData
  <2>1. MemoryInv'
    BY <1>1, <1>2, <1>4 DEF MemoryInv
  <2> QED
    BY <1>1, <2>1, ServePreserves
<1> QED
  BY <1>3, <1>4 DEF Pour

-----------------------------------------------------------------------------
(* Start and stop *)

\* A record that dataStoreLoad reads is a brew, whether the file holds it or not.
LEMMA RecordType ==
  ASSUME TypeOK, NEW i \in Nat \ {0}
  PROVE  Record(i) \in Brews
<1>1. db.records \in Seq(Brews) /\ Len(db.records) \in Nat
  BY LenProperties DEF TypeOK
<1>2. CASE i <= Len(db.records)
  BY <1>1, <1>2, ElementOfSeq DEF Record
<1>3. CASE ~(i <= Len(db.records))
  BY <1>3, DataStoreAssumption DEF Record, Brews, Volumes
<1> QED
  BY <1>2, <1>3

\* What dataStoreLoad leaves in memory.
LEMMA LoadMemory ==
  ASSUME TypeOK, NEW ps \in Allocations(db.count), Load(ps)
  PROVE  /\ MemoryInv'
         /\ \A i \in 1 .. db.count :
              /\ brewData'[i] = [name |-> ps[i], abv |-> Record(i).abv, mL |-> Record(i).mL]
              /\ heap'[ps[i]] = Record(i).name
<1>1. /\ db.count \in 0 .. (Cap - 1) /\ db.count \in Nat
      /\ \A i \in 1 .. db.count : Record(i) \in Brews
  BY RecordType, DataStoreAssumption DEF TypeOK
<1>2. /\ \A i \in 1 .. db.count : ps[i] \in Ptrs
      /\ \A i, j \in 1 .. db.count : ps[i] = ps[j] => i = j
  BY DEF Allocations
<1>3. \A i \in 1 .. db.count :
        brewData'[i] = [name |-> ps[i], abv |-> Record(i).abv, mL |-> Record(i).mL]
  BY DEF Load
<1>4. brewData' \in [1 .. db.count -> Slots]
  BY <1>1, <1>2 DEF Load, Slots, Brews
<1>5. brewData' \in Seq(Slots) /\ Len(brewData') = db.count
  BY <1>1, <1>4, FunctionIsSeq
<1>6. DOMAIN heap' = {ps[i] : i \in 1 .. db.count}
  BY DEF Load
<1>7. ASSUME NEW i \in 1 .. db.count PROVE heap'[ps[i]] = Record(i).name
  <2>1. (CHOOSE j \in 1 .. db.count : ps[j] = ps[i]) = i
    BY <1>2
  <2>2. heap'[ps[i]] = Record(CHOOSE j \in 1 .. db.count : ps[j] = ps[i]).name
    BY DEF Load
  <2> QED
    BY <2>1, <2>2
<1>8. \A p \in DOMAIN heap' : heap'[p] \in AllNames
  BY <1>1, <1>6, <1>7 DEF Brews, AllNames
<1>9. OwnedIn(brewData', numBrews', DOMAIN heap')
  BY <1>1, <1>2, <1>3, <1>5, <1>6 DEF Load, OwnedIn
<1>10. isNull' \in BOOLEAN /\ numBrews' = db.count
  BY Zenon DEF Load
<1>11. DOMAIN heap' \subseteq Ptrs
  BY <1>2, <1>6
<1>12. MemoryInv'
  BY <1>1, <1>5, <1>8, <1>9, <1>10, <1>11 DEF MemoryInv
<1> QED
  BY <1>3, <1>7, <1>12

\* Starting the daemon.
LEMMA LoadPreserves ==
  ASSUME IInv, NEW ps \in Allocations(db.count), Load(ps)
  PROVE  IInv'
<1>1. MemoryInv' /\ phase' = "up" /\ phase = "down"
  BY LoadMemory DEF IInv, Load
<1>2. db' = db /\ saved' = saved /\ torn' = torn /\ request' = request
  BY DEF Load
<1>3. TypeOK'
  BY <1>1, <1>2 DEF IInv, TypeOK, MemoryInv, AllNames
<1>4. Owned'
  BY <1>1 DEF Owned, MemoryInv
<1>5. SaveInv' /\ FileInv'
  BY <1>1, <1>2 DEF IInv, SaveInv, FileInv
<1> QED
  BY <1>3, <1>4, <1>5 DEF IInv

\* Opening brew.db for writing.
LEMMA SaveOpenPreserves == IInv /\ SaveOpen => IInv'
<1> SUFFICES ASSUME IInv, SaveOpen PROVE IInv'
  OBVIOUS
<1>1. <<>> \in Seq(Brews) /\ Len(<<>>) = 0
  BY EmptySeq
<1>2. 0 \in 0 .. (Cap - 1)
  BY DataStoreAssumption
<1>3. TypeOK'
  BY <1>1, <1>2 DEF IInv, TypeOK, SaveOpen, memory
<1>4. Owned' /\ SaveInv' /\ FileInv'
  BY <1>1, DataStoreAssumption
     DEF IInv, TypeOK, SaveOpen, memory, Owned, OwnedIn, SaveInv, FileInv
<1> QED
  BY <1>3, <1>4 DEF IInv

\* Writing the count.
LEMMA SaveCountPreserves == IInv /\ SaveCount => IInv'
<1> SUFFICES ASSUME IInv, SaveCount PROVE IInv'
  OBVIOUS
<1>1. <<>> \in Seq(Brews) /\ Len(<<>>) = 0
  BY EmptySeq
<1>2. TypeOK'
  BY <1>1 DEF IInv, TypeOK, SaveCount, memory
<1>3. Owned' /\ SaveInv' /\ FileInv'
  BY <1>1, DataStoreAssumption
     DEF IInv, TypeOK, SaveCount, memory, Owned, OwnedIn, SaveInv, FileInv
<1> QED
  BY <1>2, <1>3 DEF IInv

\* Writing the name of the next record.
LEMMA SaveNamePreserves == IInv /\ SaveName => IInv'
<1> SUFFICES ASSUME IInv, SaveName PROVE IInv'
  OBVIOUS
<1> DEFINE n == Len(db.records)
           new == [name |-> heap[brewData[n + 1].name], abv |-> 0, mL |-> 0]
<1>1. /\ phase = "saving" /\ phase' = "saving" /\ db.bytes = "counted"
      /\ n < numBrews
      /\ db' = [db EXCEPT !.bytes = "named", !.records = Append(@, new)]
      /\ UNCHANGED <<memory, saved, torn, request>>
  BY DEF SaveName
<1>2. /\ db \in [bytes : {"absent", "empty", "counted", "named"},
                  count : 0 .. (Cap - 1), records : Seq(Brews)]
      /\ db.records \in Seq(Brews) /\ n \in Nat
  BY LenProperties DEF IInv, TypeOK
<1>3. /\ OwnedIn(brewData, numBrews, DOMAIN heap)
      /\ numBrews \in Nat /\ n + 1 \in 1 .. numBrews
      /\ \A p \in DOMAIN heap : heap[p] \in Names \cup {NoName}
  BY <1>1, <1>2, DataStoreAssumption DEF IInv, TypeOK, Owned
<1>4. new \in Brews /\ new.name = heap[brewData[n + 1].name]
  BY <1>3, DataStoreAssumption DEF OwnedIn, Brews, Volumes
<1> HIDE DEF new
<1>5. /\ Append(db.records, new) \in Seq(Brews)
      /\ Len(Append(db.records, new)) = n + 1
      /\ \A i \in 1 .. n : Append(db.records, new)[i] = db.records[i]
      /\ Append(db.records, new)[n + 1] = new
  BY <1>2, <1>4, AppendProperties
<1>6. /\ db'.bytes = "named" /\ db'.count = db.count
      /\ db'.records = Append(db.records, new)
      /\ db' \in [bytes : {"absent", "empty", "counted", "named"},
                   count : 0 .. (Cap - 1), records : Seq(Brews)]
  BY <1>1, <1>2, <1>5
<1>7. TypeOK'
  BY <1>1, <1>6 DEF IInv, TypeOK, memory
<1>8. Owned'
  BY <1>1, <1>3 DEF Owned, memory
<1>9. SaveInv'
  BY <1>1, <1>2, <1>3, <1>5, <1>6 DEF IInv, SaveInv, memory
<1>10. FileInv'
  <2>1. \A i \in 1 .. (n + 1) : i \in 1 .. n \/ i = n + 1
    BY <1>2
  <2> QED
    BY <2>1, <1>1, <1>2, <1>4, <1>5, <1>6 DEF IInv, FileInv, memory
<1> QED
  BY <1>7, <1>8, <1>9, <1>10 DEF IInv

\* Writing the numbers of that record.
LEMMA SaveNumbersPreserves == IInv /\ SaveNumbers => IInv'
<1> SUFFICES ASSUME IInv, SaveNumbers PROVE IInv'
  OBVIOUS
<1> DEFINE n == Len(db.records)
           new == [name |-> db.records[n].name, abv |-> brewData[n].abv,
                   mL |-> brewData[n].mL]
<1>1. /\ phase = "saving" /\ phase' = "saving" /\ db.bytes = "named"
      /\ db' = [db EXCEPT !.bytes = "counted", !.records[n] = new]
      /\ UNCHANGED <<memory, saved, torn, request>>
  BY DEF SaveNumbers
<1>2. /\ db \in [bytes : {"absent", "empty", "counted", "named"},
                  count : 0 .. (Cap - 1), records : Seq(Brews)]
      /\ db.records \in Seq(Brews) /\ n \in Nat
  BY LenProperties DEF IInv, TypeOK
<1>3. /\ OwnedIn(brewData, numBrews, DOMAIN heap)
      /\ brewData \in Seq(Slots)
      /\ Len(brewData) \in Nat /\ numBrews \in Nat /\ numBrews <= Len(brewData)
      /\ n \in 1 .. numBrews
  BY <1>1, <1>2, LenProperties, DataStoreAssumption
     DEF IInv, TypeOK, Owned, OwnedIn, SaveInv
<1>4. brewData[n] \in Slots /\ db.records[n] \in Brews
  BY <1>2, <1>3, ElementOfSeq
<1>5. /\ new \in Brews /\ new.name = db.records[n].name
      /\ new.abv = brewData[n].abv /\ new.mL = brewData[n].mL
  BY <1>4 DEF Slots, Brews
<1> HIDE DEF new
<1>6. /\ [db.records EXCEPT ![n] = new] \in Seq(Brews)
      /\ Len([db.records EXCEPT ![n] = new]) = n
      /\ \A i \in 1 .. n :
           [db.records EXCEPT ![n] = new][i] = IF i = n THEN new ELSE db.records[i]
  BY <1>2, <1>3, <1>5, ExceptSeq
<1>7. /\ db'.bytes = "counted" /\ db'.count = db.count
      /\ db'.records = [db.records EXCEPT ![n] = new]
      /\ db' \in [bytes : {"absent", "empty", "counted", "named"},
                   count : 0 .. (Cap - 1), records : Seq(Brews)]
  BY <1>1, <1>2, <1>6
<1>8. TypeOK'
  BY <1>1, <1>7 DEF IInv, TypeOK, memory
<1>9. Owned'
  BY <1>1, <1>3 DEF Owned, memory
<1>10. SaveInv'
  BY <1>1, <1>2, <1>3, <1>6, <1>7 DEF IInv, SaveInv, memory
<1>11. FileInv'
  <2>1. ASSUME NEW i \in 1 .. n
        PROVE  /\ db'.records[i].name = heap[brewData[i].name]
               /\ db'.records[i].abv = brewData[i].abv
               /\ db'.records[i].mL = brewData[i].mL
    <3>1. db.records[i].name = heap[brewData[i].name]
      BY <1>1 DEF IInv, FileInv
    <3>2. CASE i = n
      BY <3>1, <3>2, <1>5, <1>6, <1>7
    <3>3. CASE i # n
      <4>1. i < n
        BY <3>3, <1>2
      <4>2. db.records[i].abv = brewData[i].abv /\ db.records[i].mL = brewData[i].mL
        BY <4>1, <1>1 DEF IInv, FileInv
      <4> QED
        BY <3>1, <3>3, <4>2, <1>6, <1>7
    <3> QED
      BY <3>2, <3>3
  <2>2. Len(db'.records) = n
    BY <1>6, <1>7
  <2> QED
    BY <2>1, <2>2, <1>1 DEF FileInv, memory
<1> QED
  BY <1>8, <1>9, <1>10, <1>11 DEF IInv

\* The list a reader sees holds brews, as many as the count says.
LEMMA ViewType ==
  ASSUME IInv, phase \in {"up", "saving"}
  PROVE  View \in Seq(Brews) /\ Len(View) = numBrews /\ numBrews \in Nat
<1>1. /\ brewData \in Seq(Slots) /\ Len(brewData) \in Nat
      /\ numBrews \in Nat
      /\ \A p \in DOMAIN heap : heap[p] \in Names \cup {NoName}
      /\ OwnedIn(brewData, numBrews, DOMAIN heap)
  BY LenProperties, DataStoreAssumption DEF IInv, TypeOK, Owned
<1>2. \A i \in 1 .. numBrews : brewData[i] \in Slots
  BY <1>1, ElementOfSeq DEF OwnedIn
<1>3. View \in [1 .. numBrews -> Brews]
  BY <1>1, <1>2 DEF View, OwnedIn, Slots, Brews
<1> QED
  BY <1>1, <1>3, FunctionIsSeq

\* A brew is its three fields.
LEMMA BrewEqual ==
  ASSUME NEW b \in Brews PROVE b = [name |-> b.name, abv |-> b.abv, mL |-> b.mL]
BY DEF Brews

\* Closing the file and freeing the names.
LEMMA SaveClosePreserves == IInv /\ SaveClose => IInv'
<1> SUFFICES ASSUME IInv, SaveClose PROVE IInv'
  OBVIOUS
<1>1. /\ phase = "saving" /\ phase' = "quit" /\ db.bytes = "counted"
      /\ Len(db.records) = numBrews
      /\ saved' = View /\ torn' = FALSE
      /\ heap' = Free(Pointers(Stored))
      /\ UNCHANGED <<brewData, isNull, numBrews, db, request>>
  BY DEF SaveClose
<1>2. View \in Seq(Brews) /\ Len(View) = numBrews /\ numBrews \in Nat
  BY <1>1, ViewType
<1>3. db.records \in Seq(Brews)
  BY DEF IInv, TypeOK
<1>4. ASSUME NEW i \in 1 .. numBrews PROVE db.records[i] = View[i]
  <2>1. /\ db.records[i].name = heap[brewData[i].name]
        /\ db.records[i].abv = brewData[i].abv /\ db.records[i].mL = brewData[i].mL
    BY <1>1 DEF IInv, FileInv
  <2>2. db.records[i] \in Brews
    BY <1>1, <1>3, ElementOfSeq
  <2> QED
    BY <2>1, <2>2, BrewEqual DEF View
<1>5. db.records = View /\ db.count = numBrews
  BY <1>1, <1>2, <1>3, <1>4, SeqEqual DEF IInv, SaveInv
<1>6. DOMAIN heap' \subseteq DOMAIN heap /\ \A p \in DOMAIN heap' : heap'[p] = heap[p]
  BY <1>1 DEF Free
<1>7. TypeOK'
  BY <1>1, <1>2, <1>6 DEF IInv, TypeOK
<1>8. Owned' /\ SaveInv' /\ FileInv'
  BY <1>1, <1>2, <1>5 DEF IInv, Owned, SaveInv, FileInv
<1> QED
  BY <1>7, <1>8 DEF IInv

\* The process ends, in order or not.
LEMMA GonePreserves ==
  ASSUME IInv, Gone, torn' \in BOOLEAN,
         phase # "saving" => torn' = torn, phase = "saving" => torn'
  PROVE  IInv'
<1>1. \A S : <<>> \in Seq(S) /\ Len(<<>>) = 0
  BY EmptySeq
<1>2. /\ 0 \in 0 .. (Cap - 1)
      /\ DOMAIN heap' = {}
  BY DataStoreAssumption DEF Gone
<1>3. TypeOK'
  BY <1>1, <1>2 DEF IInv, TypeOK, Gone
<1>4. Owned' /\ SaveInv' /\ FileInv'
  BY DEF IInv, Gone, Owned, SaveInv, FileInv
<1> QED
  BY <1>3, <1>4 DEF IInv

\* Exit and Crash preserve the invariant.
LEMMA EndPreserves == IInv /\ (Exit \/ Crash) => IInv'
<1> SUFFICES ASSUME IInv, Exit \/ Crash PROVE IInv'
  OBVIOUS
<1>1. torn \in BOOLEAN
  BY DEF IInv, TypeOK
<1>2. CASE Exit
  BY <1>1, <1>2, GonePreserves DEF Exit
<1>3. CASE Crash
  <2>1. Gone /\ torn' = (torn \/ phase = "saving")
    BY <1>3 DEF Crash
  <2>2. torn' \in BOOLEAN /\ (phase = "saving" => torn')
    BY <2>1, Zenon
  <2>3. phase # "saving" => torn' = torn
    BY <2>1, <1>1, Zenon
  <2> QED
    BY <2>1, <2>2, <2>3, GonePreserves
<1> QED
  BY <1>2, <1>3

\* Every step preserves the invariant.
LEMMA NextPreserves == IInv /\ [Next]_vars => IInv'
<1> SUFFICES ASSUME IInv, [Next]_vars PROVE IInv'
  OBVIOUS
<1>1. 0 .. (Cap - 1) \subseteq Nat
  BY DataStoreAssumption
<1>2. CASE Requests
  BY <1>1, <1>2, AddPreserves, RemovePreserves, RenamePreserves, PourPreserves DEF Requests
<1>3. CASE \E ps \in Allocations(db.count) : Load(ps)
  BY <1>3, LoadPreserves
<1>4. CASE SaveOpen \/ SaveCount \/ SaveName \/ SaveNumbers \/ SaveClose
  BY <1>4, SaveOpenPreserves, SaveCountPreserves, SaveNamePreserves, SaveNumbersPreserves,
     SaveClosePreserves
<1>5. CASE Exit \/ Crash
  BY <1>5, EndPreserves
<1>6. CASE UNCHANGED vars
  BY <1>6 DEF vars, memory, IInv, TypeOK, Owned, OwnedIn, SaveInv, FileInv
<1> QED
  BY <1>2, <1>3, <1>4, <1>5, <1>6 DEF Next

\* The inductive invariant holds throughout.
THEOREM Invariance == Spec => []IInv
  BY InitEstablishes, NextPreserves, PTL DEF Spec

-----------------------------------------------------------------------------
(* The results *)

\* Every variable keeps its type: the count byte and the volumes never leave
\* their width, and every slot and record is well formed.
THEOREM TypeCorrect == Spec => []TypeOK
<1>1. IInv => TypeOK
  BY DEF IInv
<1> QED
  BY <1>1, Invariance, PTL

\* Every brew owns a live name block of its own, for any number of brews and any
\* sequence of requests: no double free and no use after free.
THEOREM OwnershipHolds == Spec => []NamesOwned
<1>1. ASSUME IInv PROVE NamesOwned
  <2>1. SUFFICES ASSUME phase \in {"up", "saving"}
                 PROVE  /\ Len(Stored) = numBrews
                        /\ Pointers(Stored) \subseteq DOMAIN heap
                        /\ \A i, j \in 1 .. numBrews :
                             brewData[i].name = brewData[j].name => i = j
    BY DEF NamesOwned
  <2>2. /\ brewData \in Seq(Slots) /\ numBrews \in 0 .. Len(brewData)
        /\ OwnedIn(brewData, numBrews, DOMAIN heap)
    BY <1>1, <2>1, LenProperties, DataStoreAssumption DEF IInv, TypeOK, Owned, OwnedIn
  <2>3. /\ Len(Stored) = numBrews
        /\ \A k \in 1 .. numBrews : Stored[k] = brewData[k]
    BY <2>2, PrefixProperties DEF Stored
  <2>4. Pointers(Stored) \subseteq DOMAIN heap
    BY <2>2, <2>3 DEF Pointers, OwnedIn
  <2> QED
    BY <2>2, <2>3, <2>4 DEF OwnedIn
<1> QED
  BY <1>1, Invariance, PTL

\* dataStoreLoad reads back what the last complete save wrote.
LEMMA LoadRestores ==
  ASSUME IInv, NEW ps \in Allocations(db.count), Load(ps)
  PROVE  ~torn => View' = saved
<1> SUFFICES ASSUME ~torn PROVE View' = saved
  OBVIOUS
<1>1. db.records = saved /\ db.count = Len(saved) /\ saved \in Seq(Brews)
  BY DEF IInv, FileInv, TypeOK, Load
<1>2. /\ numBrews' = Len(saved) /\ Len(saved) \in Nat
      /\ \A i \in 1 .. Len(saved) : Record(i) = saved[i] /\ saved[i] \in Brews
  BY <1>1, LenProperties, ElementOfSeq DEF Load, Record
<1>3. \A i \in 1 .. Len(saved) :
        /\ brewData'[i] = [name |-> ps[i], abv |-> saved[i].abv, mL |-> saved[i].mL]
        /\ heap'[ps[i]] = saved[i].name
  BY <1>1, <1>2, LoadMemory DEF IInv
<1>4. \A i \in 1 .. Len(saved) :
        [name |-> heap'[brewData'[i].name], abv |-> brewData'[i].abv,
         mL |-> brewData'[i].mL] = saved[i]
  <2> TAKE i \in 1 .. Len(saved)
  <2>1. /\ brewData'[i] = [name |-> ps[i], abv |-> saved[i].abv, mL |-> saved[i].mL]
        /\ heap'[ps[i]] = saved[i].name
    BY <1>3, Zenon
  <2>2. /\ brewData'[i].name = ps[i] /\ brewData'[i].abv = saved[i].abv
        /\ brewData'[i].mL = saved[i].mL
    BY <2>1
  <2>3. saved[i] = [name |-> saved[i].name, abv |-> saved[i].abv, mL |-> saved[i].mL]
    BY <1>2, BrewEqual
  <2> QED
    BY <2>1, <2>2, <2>3
<1>5. View' = [i \in 1 .. Len(saved) |-> saved[i]]
  BY <1>2, <1>4 DEF View
<1>6. saved = [i \in 1 .. Len(saved) |-> saved[i]]
  BY <1>1, LenProperties
<1> QED
  BY <1>5, <1>6

\* A start restores the list of the last complete save unless a later save was
\* cut short.
THEOREM RestartIsFaithful == Spec => RestartRestores
<1>1. ASSUME IInv, [Next]_vars
      PROVE  [(phase = "down" /\ phase' = "up" /\ ~torn) => View' = saved]_vars
  <2>1. SUFFICES ASSUME Next, phase = "down", phase' = "up", ~torn
                 PROVE  View' = saved
    BY <1>1
  <2>2. PICK ps \in Allocations(db.count) : Load(ps)
    BY <2>1 DEF Next, Requests, AddBrew, RemoveBrew, RenameBrew, Pour, Serve, SaveOpen,
                SaveCount, SaveName, SaveNumbers, SaveClose, Exit, Crash
  <2> QED
    BY <1>1, <2>1, <2>2, LoadRestores
<1> QED
  BY <1>1, Invariance, PTL DEF Spec, RestartRestores

=============================================================================
