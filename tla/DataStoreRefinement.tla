------------------------- MODULE DataStoreRefinement -------------------------
(***************************************************************************)
(* The proof that DataStore implements BrewList: the list a reader of the  *)
(* store sees changes as BrewList says, whatever blocks the names are in   *)
(* and however the file is written.                                        *)
(***************************************************************************)
EXTENDS DataStoreProofs

-----------------------------------------------------------------------------
(* Lists read from memory *)

ViewOf(slots, n, h) ==
  [i \in 1 .. n |-> [name |-> h[slots[i].name], abv |-> slots[i].abv, mL |-> slots[i].mL]]

\* Memory in order reads as a list of brews.
LEMMA ViewOfType ==
  ASSUME NEW slots \in Seq(Slots), NEW n \in Nat, NEW h,
         OwnedIn(slots, n, DOMAIN h), \A p \in DOMAIN h : h[p] \in AllNames
  PROVE  /\ ViewOf(slots, n, h) \in Seq(Brews)
         /\ Len(ViewOf(slots, n, h)) = n
<1>1. Len(slots) \in Nat
  BY LenProperties
<1>2. \A i \in 1 .. n : slots[i] \in Slots
  BY <1>1, ElementOfSeq DEF OwnedIn
<1>3. ViewOf(slots, n, h) \in [1 .. n -> Brews]
  BY <1>2 DEF ViewOf, OwnedIn, Slots, Brews, AllNames
<1> QED
  BY <1>3, FunctionIsSeq

\* The list before and after a request.
LEMMA RequestViews ==
  ASSUME IInv, IInv', phase = "up", phase' = "up"
  PROVE  /\ View = ViewOf(brewData, numBrews, heap)
         /\ View' = ViewOf(brewData', numBrews', heap')
         /\ View \in Seq(Brews) /\ Len(View) = numBrews
         /\ View' \in Seq(Brews) /\ Len(View') = numBrews'
         /\ numBrews \in Nat /\ numBrews' \in Nat
         /\ MemoryInv /\ MemoryInv'
<1>1. MemoryInv /\ MemoryInv'
  BY DEF IInv, TypeOK, Owned, MemoryInv, AllNames
<1>2. numBrews \in Nat /\ numBrews' \in Nat
  BY <1>1, DataStoreAssumption DEF MemoryInv
<1>3. View = ViewOf(brewData, numBrews, heap) /\ View' = ViewOf(brewData', numBrews', heap')
  BY DEF View, ViewOf
<1>4. View \in Seq(Brews) /\ Len(View) = numBrews
  BY <1>1, <1>2, <1>3, ViewOfType DEF MemoryInv
<1>5. View' \in Seq(Brews) /\ Len(View') = numBrews'
  BY <1>1, <1>2, <1>3, ViewOfType DEF MemoryInv
<1> QED
  BY <1>1, <1>2, <1>3, <1>4, <1>5

\* dataStoreRemoveElement takes the element at the index off the list.
LEMMA RemoveElementView ==
  ASSUME NEW slots \in Seq(Slots), NEW h, NEW index \in Nat,
         numBrews \in 0 .. (Cap - 1),
         OwnedIn(slots, numBrews, DOMAIN h), \A p \in DOMAIN h : h[p] \in AllNames,
         RemoveElement(slots, index), heap' = h
  PROVE  View' = Abstract!WithoutIndex(ViewOf(slots, numBrews, h), index)
<1>1. /\ Len(slots) \in Nat /\ numBrews \in Nat /\ numBrews <= Len(slots)
      /\ Len(ViewOf(slots, numBrews, h)) = numBrews
  BY LenProperties, ViewOfType, DataStoreAssumption DEF OwnedIn
<1>2. View' = ViewOf(brewData', numBrews', h)
  BY DEF View, ViewOf
<1>3. CASE index < numBrews
  <2>1. brewData' = Without(slots, index + 1) /\ numBrews' = numBrews - 1
    BY <1>3 DEF RemoveElement
  <2>2. index + 1 \in 1 .. Len(slots)
    BY <1>1, <1>3
  <2>3. \A k \in 1 .. (Len(slots) - 1) :
          brewData'[k] = IF k < index + 1 THEN slots[k] ELSE slots[k + 1]
    BY <2>1, <2>2, WithoutProperties
  <2>4. \A k \in 1 .. (numBrews - 1) :
          /\ k \in 1 .. numBrews /\ k + 1 \in 1 .. numBrews /\ k \in 1 .. (Len(slots) - 1)
          /\ k < index + 1 <=> k <= index
    BY <1>1
  <2> DEFINE old == ViewOf(slots, numBrews, h)
             expected == [k \in 1 .. (numBrews - 1) |->
                            IF k <= index THEN old[k] ELSE old[k + 1]]
  <2>5. Abstract!WithoutIndex(old, index) = expected
    BY <1>1, <1>3 DEF Abstract!WithoutIndex
  <2>6. \A k \in 1 .. numBrews :
          old[k] = [name |-> h[slots[k].name], abv |-> slots[k].abv, mL |-> slots[k].mL]
    BY DEF ViewOf
  <2>7. \A k \in 1 .. (numBrews - 1) :
          [name |-> h[brewData'[k].name], abv |-> brewData'[k].abv, mL |-> brewData'[k].mL]
            = IF k <= index THEN old[k] ELSE old[k + 1]
    <3> TAKE k \in 1 .. (numBrews - 1)
    <3> HIDE DEF old
    <3>1. CASE k <= index
      <4>1. brewData'[k] = slots[k]
        BY <3>1, <2>3, <2>4
      <4> QED
        BY <4>1, <3>1, <2>4, <2>6
    <3>2. CASE ~(k <= index)
      <4>1. brewData'[k] = slots[k + 1]
        BY <3>2, <2>3, <2>4
      <4> QED
        BY <4>1, <3>2, <2>4, <2>6
    <3> QED
      BY <3>1, <3>2
  <2> HIDE DEF old
  <2>8. View' = expected
    BY <1>2, <2>1, <2>7 DEF ViewOf
  <2> QED
    BY <2>5, <2>8 DEF old
<1>4. CASE ~(index < numBrews)
  BY <1>1, <1>2, <1>4 DEF RemoveElement, Abstract!WithoutIndex
<1> QED
  BY <1>3, <1>4

-----------------------------------------------------------------------------
(* Requests *)

\* Listed is the value BrewList's brews has in a daemon that serves.
Listed == IF phase \in {"up", "saving"} THEN View ELSE <<>>

\* Any request is served as BrewList serves it, as far as the list allows.
LEMMA ServeRefines ==
  ASSUME NEW r, Serve(r)
  PROVE  /\ Abstract!Serve(r)
         /\ phase = "up" /\ phase' = "up"
         /\ Listed = View /\ Listed' = View'
BY DEF Serve, Abstract!Serve, Listed

\* An add appends the brew, or empties the list at its limit.
LEMMA AddRefines ==
  ASSUME IInv, IInv', NEW n \in Names, NEW abv \in Abvs, NEW mL \in Volumes, NEW p \in Ptrs,
         AddBrew(n, abv, mL, p)
  PROVE  Abstract!Next
<1> DEFINE b == [name |-> n, abv |-> abv, mL |-> mL]
           slot == [name |-> p, abv |-> abv, mL |-> mL]
<1>1. Abstract!Serve([call |-> "add", brew |-> b]) /\ phase = "up" /\ phase' = "up"
      /\ Listed = View /\ Listed' = View'
  BY ServeRefines DEF AddBrew
<1>2. /\ View = ViewOf(brewData, numBrews, heap)
      /\ View' = ViewOf(brewData', numBrews', heap')
      /\ View \in Seq(Brews) /\ Len(View) = numBrews
      /\ View' \in Seq(Brews) /\ Len(View') = numBrews'
      /\ numBrews \in Nat /\ MemoryInv
  BY <1>1, RequestViews
<1>3. /\ p \notin DOMAIN heap
      /\ brewData' = Append(Stored, slot)
      /\ heap' = Alloc(heap, p, n)
      /\ numBrews' = (numBrews + 1) % Cap
  BY DEF AddBrew
<1>4. b \in Brews /\ slot \in Slots
      /\ slot.name = p /\ slot.abv = b.abv /\ slot.mL = b.mL /\ b.name = n
  BY DEF Brews, Slots
<1>5. numBrews \in 0 .. Len(brewData) /\ numBrews \in 0 .. (Cap - 1)
  BY <1>2, LenProperties DEF MemoryInv, OwnedIn
<1>6. numBrews' = IF numBrews + 1 < Cap THEN numBrews + 1 ELSE 0
  BY <1>3, <1>5, DataStoreAssumption
<1>7. Listed' = IF Len(Listed) + 1 < Cap THEN Append(Listed, b) ELSE <<>>
  <2>1. CASE numBrews + 1 < Cap
    <3>1. /\ Stored \in Seq(Slots) /\ Len(Stored) = numBrews
          /\ \A i \in 1 .. numBrews : Stored[i] = brewData[i]
      BY <1>2, <1>5, PrefixProperties DEF MemoryInv, Stored
    <3> HIDE DEF slot, b
    <3>2. /\ \A i \in 1 .. numBrews : brewData'[i] = brewData[i]
          /\ brewData'[numBrews + 1] = slot
      BY <1>3, <1>4, <3>1, AppendProperties
    <3>3. /\ Append(View, b) \in Seq(Brews)
          /\ Len(Append(View, b)) = numBrews + 1
          /\ \A i \in 1 .. numBrews : Append(View, b)[i] = View[i]
          /\ Append(View, b)[numBrews + 1] = b
      BY <1>2, <1>4, AppendProperties
    <3>4. /\ heap'[p] = n
          /\ \A q \in DOMAIN heap : heap'[q] = heap[q]
      BY <1>3 DEF Alloc
    <3>5. ASSUME NEW i \in 1 .. (numBrews + 1) PROVE View'[i] = Append(View, b)[i]
      <4>1. View'[i] = [name |-> heap'[brewData'[i].name], abv |-> brewData'[i].abv,
                        mL |-> brewData'[i].mL]
        BY <1>2, <1>6, <2>1 DEF ViewOf
      <4>2. CASE i = numBrews + 1
        <5>1. View'[i] = [name |-> b.name, abv |-> b.abv, mL |-> b.mL]
          BY <4>1, <4>2, <3>2, <3>4, <1>4
        <5>2. Append(View, b)[i] = b
          BY <4>2, <3>3
        <5> QED
          BY <5>1, <5>2, <1>4, BrewEqual
      <4>3. CASE i \in 1 .. numBrews
        <5>1. brewData'[i] = brewData[i] /\ brewData[i].name \in DOMAIN heap
          BY <4>3, <3>2, <1>2 DEF MemoryInv, OwnedIn
        <5>2. heap'[brewData[i].name] = heap[brewData[i].name]
          BY <5>1, <3>4
        <5>3. View[i] = [name |-> heap[brewData[i].name], abv |-> brewData[i].abv,
                         mL |-> brewData[i].mL]
          BY <4>3, <1>2 DEF ViewOf
        <5> QED
          BY <4>1, <4>3, <5>1, <5>2, <5>3, <3>3
      <4> QED
        BY <4>2, <4>3, <1>2
    <3>6. View' = Append(View, b)
      BY <3>3, <3>5, <1>2, <1>6, <2>1, SeqEqual
    <3> QED
      BY <3>6, <2>1, <1>1, <1>2
  <2>2. CASE ~(numBrews + 1 < Cap)
    <3>1. View' = <<>>
      BY <2>2, <1>2, <1>6, EmptySeq
    <3> QED
      BY <3>1, <2>2, <1>1, <1>2
  <2> QED
    BY <2>1, <2>2
<1>8. Abstract!Add(b)
  BY <1>1, <1>7 DEF Abstract!Add, Listed
<1>9. b \in Abstract!Brews
  BY <1>4 DEF Abstract!Brews, Abstract!Volumes, Brews, Volumes
<1> QED
  BY <1>8, <1>9 DEF Abstract!Next

\* A remove takes off the brew at the index.
LEMMA RemoveRefines ==
  ASSUME IInv, IInv', NEW index \in 0 .. (Cap - 1), RemoveBrew(index)
  PROVE  Abstract!Next
<1>1. Abstract!Serve([call |-> "remove", index |-> index]) /\ phase = "up" /\ phase' = "up"
      /\ Listed = View /\ Listed' = View'
  BY ServeRefines DEF RemoveBrew
<1>2. View = ViewOf(brewData, numBrews, heap) /\ MemoryInv
  BY <1>1, RequestViews
<1>3. index \in Nat
  BY DataStoreAssumption
<1>4. View' = Abstract!WithoutIndex(View, index)
  BY <1>2, <1>3, RemoveElementView DEF RemoveBrew, MemoryInv
<1>5. Abstract!Remove(index)
  BY <1>1, <1>4 DEF Abstract!Remove, Listed
<1> QED
  BY <1>5 DEF Abstract!Next

\* A rename changes the name at the index, then takes off what the leftover
\* index names.
LEMMA RenameRefines ==
  ASSUME IInv, IInv', NEW index \in 0 .. (Cap - 1), NEW leftover \in 0 .. (Cap - 1),
         NEW n \in Names, NEW p \in Ptrs,
         RenameBrew(index, n, p, leftover)
  PROVE  Abstract!Next
<1>1. /\ Abstract!Serve([call |-> "rename", index |-> index, name |-> n])
      /\ phase = "up" /\ phase' = "up"
      /\ Listed = View /\ Listed' = View'
  BY ServeRefines DEF RenameBrew
<1>2. /\ View = ViewOf(brewData, numBrews, heap) /\ MemoryInv
      /\ View \in Seq(Brews) /\ Len(View) = numBrews /\ numBrews \in Nat
  BY <1>1, RequestViews
<1>3. index \in Nat /\ leftover \in Nat
  BY DataStoreAssumption
<1> DEFINE renamed == IF index < Len(View) THEN [View EXCEPT ![index + 1].name = n] ELSE View
<1>4. View' = Abstract!WithoutIndex(renamed, leftover)
  <2>1. CASE index >= numBrews /\ RemoveElement(brewData, leftover) /\ heap' = heap
    <3>1. renamed = View
      BY <2>1, <1>2, <1>3
    <3>2. View' = Abstract!WithoutIndex(View, leftover)
      BY <2>1, <1>2, <1>3, RemoveElementView DEF MemoryInv
    <3> QED
      BY <3>1, <3>2
  <2>2. CASE /\ index < numBrews
             /\ p \notin DOMAIN heap \ {brewData[index + 1].name}
             /\ heap' = Alloc(Free({brewData[index + 1].name}), p, n)
             /\ RemoveElement([brewData EXCEPT ![index + 1].name = p], leftover)
    <3> DEFINE slots == Renamed(index, p)
    <3>0. /\ index < numBrews /\ p \notin DOMAIN heap \ {brewData[index + 1].name}
          /\ heap' = RenamedHeap(index, n, p) /\ RemoveElement(slots, leftover)
      BY <2>2, Zenon DEF Renamed, RenamedHeap
    <3> HIDE DEF slots
    <3>1. /\ slots \in Seq(Slots)
          /\ \A q \in DOMAIN heap' : heap'[q] \in AllNames
          /\ OwnedIn(slots, numBrews, DOMAIN heap')
          /\ heap'[slots[index + 1].name] = n
          /\ slots[index + 1].abv = brewData[index + 1].abv
          /\ slots[index + 1].mL = brewData[index + 1].mL
          /\ \A j \in 1 .. numBrews : j # index + 1 =>
               slots[j] = brewData[j] /\ heap'[slots[j].name] = heap[slots[j].name]
      BY <1>2, <1>3, <3>0, RenamedSlots DEF slots
    <3> DEFINE now == ViewOf(slots, numBrews, heap')
               brew == [name |-> n, abv |-> View[index + 1].abv, mL |-> View[index + 1].mL]
    <3>3. View' = Abstract!WithoutIndex(now, leftover)
      BY <1>2, <1>3, <3>0, <3>1, RemoveElementView DEF MemoryInv
    <3>4. now \in Seq(Brews) /\ Len(now) = numBrews
      BY <1>2, <3>1, ViewOfType
    <3>5. index + 1 \in 1 .. Len(View) /\ index < Len(View)
      BY <1>2, <1>3, <2>2
    <3>6. View[index + 1] \in Brews
      BY <1>2, <3>5, ElementOfSeq
    <3>7. renamed = [View EXCEPT ![index + 1] = brew]
      <4>1. [View[index + 1] EXCEPT !.name = n] = brew
        BY <3>6 DEF Brews
      <4> QED
        BY <3>5, <4>1, Zenon
    <3>8. brew \in Brews
      BY <3>6 DEF Brews
    <3>9. /\ renamed \in Seq(Brews) /\ Len(renamed) = numBrews
          /\ \A i \in 1 .. numBrews : renamed[i] = IF i = index + 1 THEN brew ELSE View[i]
      <4> HIDE DEF brew, renamed
      <4> QED
        BY <1>2, <3>5, <3>7, <3>8, ExceptSeq
    <3>10. ASSUME NEW i \in 1 .. numBrews PROVE renamed[i] = now[i]
      <4>1. /\ now[i] = [name |-> heap'[slots[i].name], abv |-> slots[i].abv,
                         mL |-> slots[i].mL]
            /\ View[i] = [name |-> heap[brewData[i].name], abv |-> brewData[i].abv,
                          mL |-> brewData[i].mL]
        BY <1>2 DEF ViewOf
      <4>2. CASE i = index + 1
        <5>1. View[i].abv = brewData[i].abv /\ View[i].mL = brewData[i].mL
          BY <4>1
        <5>2. brew = [name |-> n, abv |-> brewData[i].abv, mL |-> brewData[i].mL]
          BY <4>2, <5>1
        <5>3. now[i] = [name |-> n, abv |-> brewData[i].abv, mL |-> brewData[i].mL]
          BY <4>1, <4>2, <3>1
        <5> QED
          BY <4>2, <5>2, <5>3, <3>9
      <4>3. CASE i # index + 1
        BY <4>1, <4>3, <3>1, <3>9
      <4> QED
        BY <4>2, <4>3
    <3>11. renamed = now
      <4> HIDE DEF renamed, now
      <4> QED
        BY <3>4, <3>9, <3>10, SeqEqual
    <3> QED
      BY <3>3, <3>11
  <2> QED
    BY <2>1, <2>2 DEF RenameBrew
<1>5. Abstract!Rename(index, n)
  BY <1>1, <1>4 DEF Abstract!Rename, Listed
<1> QED
  BY <1>5 DEF Abstract!Next

\* A pour takes its volume off the first brew of the list, if there is one.
LEMMA PourRefines ==
  ASSUME IInv, IInv', NEW ml \in Pours, Pour(ml)
  PROVE  Abstract!Next
<1>1. /\ Abstract!Serve([call |-> "pour", mL |-> ml])
      /\ phase = "up" /\ phase' = "up"
      /\ Listed = View /\ Listed' = View'
      /\ numBrews' = numBrews /\ heap' = heap
  BY ServeRefines DEF Pour
<1>2. /\ View = ViewOf(brewData, numBrews, heap) /\ View' = ViewOf(brewData', numBrews, heap)
      /\ View \in Seq(Brews) /\ Len(View) = numBrews
      /\ View' \in Seq(Brews) /\ Len(View') = numBrews
      /\ numBrews \in Nat /\ MemoryInv
  BY <1>1, RequestViews
<1>3. ml \in Volumes
  BY DataStoreAssumption DEF Volumes
<1> DEFINE brew == [name |-> View[1].name, abv |-> View[1].abv, mL |-> Less(View[1].mL, ml)]
<1>4. ASSUME numBrews # 0, brewData # <<>>,
             brewData' = [brewData EXCEPT ![1].mL = Less(@, ml)]
      PROVE  View' = [View EXCEPT ![1] = brew]
  <2>1. /\ Len(brewData) \in Nat /\ numBrews <= Len(brewData)
        /\ 1 \in 1 .. Len(brewData) /\ 1 \in 1 .. numBrews /\ 1 \in 1 .. Len(View)
    BY <1>2, <1>4, LenProperties DEF MemoryInv, OwnedIn
  <2>2. brewData[1] \in Slots /\ View[1] \in Brews
    BY <1>2, <2>1, ElementOfSeq DEF MemoryInv
  <2> DEFINE slot == [name |-> brewData[1].name, abv |-> brewData[1].abv,
                      mL |-> Less(brewData[1].mL, ml)]
  <2>3. brewData' = [brewData EXCEPT ![1] = slot]
    <3>1. [brewData[1] EXCEPT !.mL = Less(brewData[1].mL, ml)] = slot
      BY <2>2 DEF Slots
    <3> QED
      BY <1>4, <3>1, Zenon
  <2>4. slot \in Slots /\ brew \in Brews
    BY <1>3, <2>2, LessType DEF Slots, Brews
  <2> HIDE DEF slot
  <2>5. \A j \in 1 .. Len(brewData) : brewData'[j] = IF j = 1 THEN slot ELSE brewData[j]
    BY <1>2, <2>1, <2>3, <2>4, ExceptSeq DEF MemoryInv
  <2> HIDE DEF brew
  <2>6. /\ [View EXCEPT ![1] = brew] \in Seq(Brews)
        /\ Len([View EXCEPT ![1] = brew]) = numBrews
        /\ \A j \in 1 .. numBrews :
             [View EXCEPT ![1] = brew][j] = IF j = 1 THEN brew ELSE View[j]
    BY <1>2, <2>1, <2>4, ExceptSeq
  <2>7. ASSUME NEW j \in 1 .. numBrews PROVE View'[j] = [View EXCEPT ![1] = brew][j]
    <3>1. /\ View'[j] = [name |-> heap[brewData'[j].name], abv |-> brewData'[j].abv,
                         mL |-> brewData'[j].mL]
          /\ View[j] = [name |-> heap[brewData[j].name], abv |-> brewData[j].abv,
                        mL |-> brewData[j].mL]
      BY <1>2 DEF ViewOf
    <3>2. j \in 1 .. Len(brewData)
      BY <1>2, <2>1
    <3>3. CASE j = 1
      <4>1. brewData'[1] = slot
        BY <2>1, <2>5
      <4>2. View'[1] = [name |-> heap[brewData[1].name], abv |-> brewData[1].abv,
                        mL |-> Less(brewData[1].mL, ml)]
        BY <3>1, <3>3, <4>1 DEF slot
      <4>3. brew = [name |-> heap[brewData[1].name], abv |-> brewData[1].abv,
                    mL |-> Less(brewData[1].mL, ml)]
        BY <3>1, <3>3 DEF brew
      <4> QED
        BY <3>3, <4>2, <4>3, <2>1, <2>6
    <3>4. CASE j # 1
      <4>1. brewData'[j] = brewData[j]
        BY <3>2, <3>4, <2>5
      <4> QED
        BY <3>1, <3>4, <4>1, <2>6
    <3> QED
      BY <3>3, <3>4
  <2> QED
    BY <1>2, <2>6, <2>7, SeqEqual
<1>5. Listed' = IF Listed = <<>> THEN <<>>
                ELSE [Listed EXCEPT ![1].mL = Abstract!Left(@, ml)]
  <2>1. CASE numBrews = 0
    BY <2>1, <1>1, <1>2, EmptySeq
  <2>2. CASE numBrews # 0
    <3>1. View # <<>> /\ brewData # <<>>
      BY <2>2, <1>2, EmptySeq, LenProperties DEF MemoryInv, OwnedIn
    <3>2. View' = [View EXCEPT ![1] = brew]
      BY <2>2, <3>1, <1>4 DEF Pour
    <3>3. 1 \in 1 .. Len(View)
      BY <2>2, <1>2
    <3>4. View[1] \in Brews
      BY <1>2, <3>3, ElementOfSeq
    <3>5. brew = [View[1] EXCEPT !.mL = Abstract!Left(View[1].mL, ml)]
      BY <3>4 DEF Brews, Abstract!Left, Less
    <3> HIDE DEF brew
    <3>6. View' = [View EXCEPT ![1].mL = Abstract!Left(@, ml)]
      BY <3>2, <3>5, Zenon
    <3> QED
      BY <3>1, <3>6, <1>1, Zenon
  <2> QED
    BY <2>1, <2>2
<1>6. Abstract!Pour(ml)
  BY <1>1, <1>5 DEF Abstract!Pour, Listed
<1> QED
  BY <1>3, <1>6 DEF Abstract!Next, Abstract!Volumes, Volumes

-----------------------------------------------------------------------------
(* Start and stop *)

\* A start lists what was saved, or anything once a save was cut short.
LEMMA LoadRefines ==
  ASSUME IInv, IInv', NEW ps \in Allocations(db.count), Load(ps)
  PROVE  Abstract!Next
<1>1. /\ phase = "down" /\ phase' = "up"
      /\ UNCHANGED <<saved, torn, request>>
  BY DEF Load
<1>2. Listed' = View'
  BY <1>1 DEF Listed
<1>3. View' \in Seq(Brews)
  <2>1. MemoryInv'
    BY <1>1 DEF IInv, TypeOK, Owned, MemoryInv, AllNames
  <2>2. View' = ViewOf(brewData', numBrews', heap') /\ numBrews' \in Nat
    BY <2>1, DataStoreAssumption DEF View, ViewOf, MemoryInv
  <2> QED
    BY <2>1, <2>2, ViewOfType DEF MemoryInv
<1>4. ~torn => View' = saved
  BY LoadRestores
<1>5. Abstract!Start
  BY <1>1, <1>2, <1>3, <1>4
     DEF Abstract!Start, Abstract!Brews, Abstract!Volumes, Brews, Volumes, Listed
<1> QED
  BY <1>5 DEF Abstract!Next

\* The steps of a save change nothing a user sees; its end is the stop.
LEMMA SaveRefines ==
  ASSUME IInv, SaveOpen \/ SaveCount \/ SaveName \/ SaveNumbers \/ SaveClose
  PROVE  Abstract!Next \/ UNCHANGED Abstract!vars
<1>1. CASE SaveOpen \/ SaveCount \/ SaveName \/ SaveNumbers
  <2>1. /\ phase \in {"up", "saving"} /\ phase' \in {"up", "saving"}
        /\ UNCHANGED <<memory, saved, torn, request>>
    BY <1>1 DEF SaveOpen, SaveCount, SaveName, SaveNumbers
  <2>2. View' = View
    BY <2>1 DEF View, memory
  <2> QED
    BY <2>1, <2>2 DEF Abstract!vars
<1>2. CASE SaveClose
  <2>1. /\ phase = "saving" /\ phase' = "quit"
        /\ saved' = View /\ torn' = FALSE /\ request' = request
    BY <1>2 DEF SaveClose
  <2>2. Abstract!Stop
    BY <2>1 DEF Abstract!Stop
  <2> QED
    BY <2>2 DEF Abstract!Next
<1> QED
  BY <1>1, <1>2

\* The end of the process is a crash for its users, or nothing new after a stop.
LEMMA EndRefines ==
  ASSUME IInv, Exit \/ Crash
  PROVE  Abstract!Next \/ UNCHANGED Abstract!vars
<1>1. CASE Exit
  BY <1>1 DEF Exit, Gone, Abstract!vars
<1>2. CASE Crash
  <2>1. /\ phase \in {"up", "saving"} /\ phase' = "down"
        /\ torn' = (torn \/ phase = "saving")
        /\ saved' = saved /\ request' = request
    BY <1>2 DEF Crash, Gone
  <2>2. torn \in BOOLEAN
    BY DEF IInv, TypeOK
  <2>3. torn' \in {torn, TRUE}
    BY <2>1, <2>2, Zenon
  <2>4. Abstract!Crash
    BY <2>1, <2>3 DEF Abstract!Crash
  <2> QED
    BY <2>4 DEF Abstract!Next
<1> QED
  BY <1>1, <1>2

-----------------------------------------------------------------------------

\* The brew store implements the abstract list, for any number of name blocks,
\* any width of the count and of the volumes, and any brews.
THEOREM StoreImplementsList == Spec => ImplementsBrewList
<1>1. Init => Abstract!Init
  BY DEF Init, Abstract!Init
<1>2. ASSUME IInv, IInv', [Next]_vars
      PROVE  [Abstract!Next]_(Abstract!vars)
  <2>1. CASE Requests
    BY <1>2, <2>1, AddRefines, RemoveRefines, RenameRefines, PourRefines DEF Requests
  <2>2. CASE \E ps \in Allocations(db.count) : Load(ps)
    BY <1>2, <2>2, LoadRefines
  <2>3. CASE SaveOpen \/ SaveCount \/ SaveName \/ SaveNumbers \/ SaveClose
    BY <1>2, <2>3, SaveRefines
  <2>4. CASE Exit \/ Crash
    BY <1>2, <2>4, EndRefines
  <2>5. CASE UNCHANGED vars
    BY <2>5 DEF vars, memory, View, Abstract!vars
  <2> QED
    BY <1>2, <2>1, <2>2, <2>3, <2>4, <2>5 DEF Next
<1> QED
  BY <1>1, <1>2, Invariance, PTL DEF Spec, ImplementsBrewList, Abstract!Spec

=============================================================================
