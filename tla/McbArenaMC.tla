----------------------------- MODULE McbArenaMC -----------------------------
(* Small instances of McbArena.                                            *)
EXTENDS McbArena, TLC

CONSTANTS p1, p2

(* Guest data, and guest data that reads as a header. *)
Raw   == [sig |-> "?", owner |-> Free, size |-> 0]
Alike == [sig |-> "M", owner |-> Free, size |-> 1]

Data     == {Raw}
DataMix  == {Raw, Alike}

(* Guests differ in nothing but their name. *)
GuestSymmetry == Permutations(Owners)
=============================================================================
