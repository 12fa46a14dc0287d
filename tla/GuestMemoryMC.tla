---------------------------- MODULE GuestMemoryMC ----------------------------
(* Three pages of two units, with a hole or without one. *)
EXTENDS GuestMemory

MapRange(base, length, usable) == [base |-> base, length |-> length, usable |-> usable]

(* A usable range with a reserved unit in page 2; and two usable ranges that overlap *)
(* and end inside a page.                                                            *)
MCMaps ==
  {{MapRange(1, 7, TRUE), MapRange(5, 1, FALSE)},
   {MapRange(2, 4, TRUE), MapRange(5, 4, TRUE)}}

(* Behaviours are followed for three leases, with one of EMS and the firmware shadow *)
(* besides XMS, with at most one unit after the first that holds something, and with *)
(* one service that has given up while memory is empty.  Steps out of these states   *)
(* are cut; steps into the states beyond them are checked.                           *)
Holding == {u \in Units : mem[u] # 0}
GivenUp == {f \in {"xms", "ems", "shadow"} :
              CASE f = "xms" -> xms.poisoned [] f = "ems" -> ems.poisoned
                [] OTHER -> shadow.poisoned}
EmsUnused == /\ \A h \in EmsHandles : ems.handles[h].generation = 0
             /\ \A v \in VcpiSlots : ems.vcpi[v].generation = 0
Interesting ==
  /\ MapThenSumSet(LAMBDA s : pm.leases[s].generation, LeaseSlots) <= 3
  /\ shadow.execution = 0 \/ EmsUnused
  /\ Cardinality(Holding \ {0}) <= 1
  /\ Cardinality(GivenUp) <= IF Holding = {} THEN 1 ELSE 0

=============================================================================
