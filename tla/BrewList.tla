------------------------------- MODULE BrewList -------------------------------
(***************************************************************************)
(* What the brew store is for its users: a list of brews that add, remove, *)
(* rename and pour edit, kept across a stop and a start of the daemon.     *)
(* Pointers, the count byte and the file format of datastore.c are not     *)
(* here; module DataStore, which has them, is shown to implement this one. *)
(*                                                                         *)
(* Limits of the program that its users see are part of this               *)
(* specification: the list holds at most Cap - 1 brews and an add beyond   *)
(* that empties it, a rename may take a brew off the list too, and a pour  *)
(* larger than what is left wraps the volume around.                       *)
(***************************************************************************)
EXTENDS Integers, Sequences

CONSTANTS
  Names,    \* brew names
  NoName,   \* the empty name of a record the file does not hold
  Abvs,     \* alcohol by volume, in tenths of a percent; holds 0
  VolMod,   \* volumes are counted modulo VolMod, 2^64 in the build
  Cap       \* the count of brews is kept modulo Cap, 2^8 in the build

Volumes == 0 .. (VolMod - 1)
Brews   == [name : Names \cup {NoName}, abv : Abvs, mL : Volumes]

VARIABLES
  brews,    \* the list the daemon works on, empty while it is down
  saved,    \* the list the last complete save wrote
  up,       \* the daemon serves
  damaged,  \* a save was cut short since then: what is stored is unknown
  request   \* the request served last, for the reader of a behaviour

vars == <<brews, saved, up, damaged, request>>

\* The list without the element at an index, from 0; an index beyond the end
\* takes nothing off.
WithoutIndex(s, index) ==
  IF index < Len(s)
    THEN [k \in 1 .. (Len(s) - 1) |-> IF k <= index THEN s[k] ELSE s[k + 1]]
    ELSE s

\* Volume left after pouring ml.
Left(volume, ml) == IF volume >= ml THEN volume - ml ELSE (volume - ml) + VolMod

-----------------------------------------------------------------------------

Init ==
  /\ brews = <<>> /\ saved = <<>> /\ ~up /\ ~damaged
  /\ request = [call |-> "none"]

Start ==
  /\ ~up /\ up'
  /\ IF damaged THEN brews' \in Seq(Brews) ELSE brews' = saved
  /\ UNCHANGED <<saved, damaged, request>>

Serve(r) ==
  /\ up
  /\ request' = r
  /\ UNCHANGED <<saved, up, damaged>>

Add(b) ==
  /\ Serve([call |-> "add", brew |-> b])
  /\ brews' = IF Len(brews) + 1 < Cap THEN Append(brews, b) ELSE <<>>

Remove(index) ==
  /\ Serve([call |-> "remove", index |-> index])
  /\ brews' = WithoutIndex(brews, index)

Rename(index, n) ==
  /\ Serve([call |-> "rename", index |-> index, name |-> n])
  /\ LET renamed == IF index < Len(brews) THEN [brews EXCEPT ![index + 1].name = n]
                                          ELSE brews
     IN  \E other \in 0 .. (Cap - 1) : brews' = WithoutIndex(renamed, other)

\* The tap serves the first brew.
Pour(ml) ==
  /\ Serve([call |-> "pour", mL |-> ml])
  /\ brews' = IF brews = <<>> THEN <<>> ELSE [brews EXCEPT ![1].mL = Left(@, ml)]

Stop ==
  /\ up /\ ~up'
  /\ saved' = brews
  /\ brews' = <<>>
  /\ ~damaged'
  /\ UNCHANGED request

Crash ==
  /\ up /\ ~up'
  /\ brews' = <<>>
  /\ damaged' \in {damaged, TRUE}
  /\ UNCHANGED <<saved, request>>

Next ==
  \/ Start \/ Stop \/ Crash
  \/ \E b \in Brews : Add(b)
  \/ \E index \in 0 .. (Cap - 1) : Remove(index) \/ \E n \in Names : Rename(index, n)
  \/ \E ml \in Volumes : Pour(ml)

Spec == Init /\ [][Next]_vars

=============================================================================
