----------------------------- MODULE GuestPages -----------------------------
(***************************************************************************)
(* The owner of the guest's physical pages (kernel/x86_vm/memory/): a page *)
(* map built from the firmware's memory map, and leases on runs of pages,  *)
(* named by a slot and a generation that never wraps.  XMS, EMS, VCPI and  *)
(* the firmware shadow all take their memory here.                         *)
(*                                                                         *)
(* Addresses count units of which PageUnits make a page; mem is what the   *)
(* units hold, conventional memory below the first page included.          *)
(***************************************************************************)
EXTENDS Integers, FiniteSets, FiniteSetsExt

CONSTANTS
  PageUnits,            \* X86_GUEST_PAGE_BYTES, in units
  FirstPage, LastPage,  \* X86_GUEST_MEMORY_BASE, X86_GUEST_MEMORY_APERTURE_LIMIT
  MemoryMaps,           \* the maps the firmware may hand over: sets of ranges
  LeaseCount,           \* X86_GUEST_MEMORY_LEASE_COUNT
  LeaseGenerationMax,   \* X86_GUEST_MEMORY_GENERATION_MAX
  ZeroResults,          \* what the zero operation may answer
  Values                \* contents of a unit, 0 among them

ASSUME PagesAssumption ==
  /\ PageUnits \in Nat \ {0} /\ FirstPage \in Nat \ {0} /\ LastPage \in Nat
  /\ FirstPage <= LastPage
  /\ LeaseCount \in Nat \ {0} /\ LeaseGenerationMax \in Nat \ {0}
  /\ ZeroResults \subseteq {"OK", "FAILED", "UNCERTAIN"} /\ "OK" \in ZeroResults
  /\ 0 \in Values
  /\ \A m \in MemoryMaps :
       IsFiniteSet(m) /\ m \subseteq [base : Nat, length : Nat, usable : BOOLEAN]

VARIABLES
  bootMap,   \* struct x86_boot_info: the ranges of the firmware's map
  pm,        \* struct x86_guest_memory_manager
  mem        \* contents of memory, by unit

Pages == FirstPage .. LastPage
Units == 0 .. (LastPage + 1) * PageUnits - 1   \* from 0: conventional memory
LowUnits == 0 .. FirstPage * PageUnits - 1
LeaseSlots == 1 .. LeaseCount
PageOwners == {"xms", "ems", "space", "nobody"}
NoPage == LastPage + 1
NoLease == [slot |-> 0, generation |-> 0]
Leases == [slot : 0 .. LeaseCount, generation : 0 .. LeaseGenerationMax]

LeaseSlot ==
  [generation : 0 .. LeaseGenerationMax, owner : PageOwners,
   first : 0 .. LastPage, count : 0 .. LastPage, state : {"FREE", "LIVE", "RETIRED"}]

PageManager ==
  [available : SUBSET Pages, allocated : SUBSET Pages,
   leases : [LeaseSlots -> LeaseSlot],
   allocatedPages : Nat, hint : 0 .. NoPage, poisoned : BOOLEAN]

-----------------------------------------------------------------------------
(* x86_memory_map_is_valid; the bytes of the handoff's header are not modelled. *)
MapIsValid(m) == m # {} /\ \A r \in m : r.length > 0

Usable(m) == {r \in m : r.usable}
Reserved(m) == {r \in m : ~r.usable}
Limit(r) == r.base + r.length
PageUp(u) == (u + PageUnits - 1) \div PageUnits

(* Fault: a reserved range is rounded inwards too. *)
RangePagesInwards(r) ==
  {p \in Pages : PageUp(r.base) <= p /\ p < Limit(r) \div PageUnits}

(* change_range_availability: usable ranges shrink to whole pages, *)
(* reserved ones grow to them.                                     *)
RangePages(r) ==
  IF r.usable
  THEN {p \in Pages : PageUp(r.base) <= p /\ p < Limit(r) \div PageUnits}
  ELSE {p \in Pages : r.base \div PageUnits <= p /\ p < PageUp(Limit(r))}

(* Reserved overlaps win, whatever the order of the entries. *)
AvailablePages(m) ==
  (UNION {RangePages(r) : r \in Usable(m)}) \ (UNION {RangePages(r) : r \in Reserved(m)})

(* x86_memory_map_range_is_usable, for the units base .. base + length - 1: the *)
(* cursor walks from one usable range into the next.                            *)
RangeIsUsable(m, base, length) ==
  LET Covered(cursor) ==
        Max({cursor} \cup {Limit(r) : r \in {s \in Usable(m) : s.base <= cursor}})
      cursor[n \in 0 .. Cardinality(m)] ==
        IF n = 0 THEN base ELSE Covered(cursor[n - 1])
  IN  /\ \A r \in Reserved(m) : ~(r.base < base + length /\ base < Limit(r))
      /\ cursor[Cardinality(m)] >= base + length

(* x86_memory_map_usable_limit *)
UsableLimit(m) == Max({0} \cup {Limit(r) : r \in Usable(m)})

(* x86_memory_map_query: units of the elementary intervals that some range *)
(* covers and that no other kind of range covers.                          *)
UsableUnits(m) ==
  LET Bounds == {r.base : r \in m} \cup {Limit(r) : r \in m}
      Next(b) == Min({c \in Bounds : c > b})
      Around(b) == {r \in m : r.base <= b /\ Next(b) <= Limit(r)}
      Good == {b \in Bounds : /\ \E c \in Bounds : c > b
                              /\ Around(b) # {} /\ \A r \in Around(b) : r.usable}
  IN  UNION {b .. Next(b) - 1 : b \in Good}

FreeSlot(generation) ==
  [generation |-> generation, owner |-> "nobody", first |-> 0, count |-> 0,
   state |-> "FREE"]

(* x86_guest_memory_construct and x86_guest_memory_initialize, which refuses *)
(* a map without a whole usable page.                                        *)
PagesInit ==
  /\ bootMap \in {m \in MemoryMaps : MapIsValid(m) /\ AvailablePages(m) # {}}
  /\ pm = [available |-> AvailablePages(bootMap), allocated |-> {},
           leases |-> [s \in LeaseSlots |-> FreeSlot(0)],
           allocatedPages |-> 0, hint |-> 0, poisoned |-> FALSE]
  /\ mem = [u \in Units |-> 0]

-----------------------------------------------------------------------------
PageFree(g, p) == p \in g.available /\ p \notin g.allocated
ManagedFirst(g) == Min(g.available)
ManagedLimit(g) == Max(g.available) + 1
FreePages(g) == Cardinality(g.available) - g.allocatedPages
RunIsFree(g, first, count) == \A p \in first .. first + count - 1 : PageFree(g, p)

(* find_free_run: from the hint to the last place a run fits, then from the *)
(* first managed page to the hint.                                          *)
FindFreeRun(g, count) ==
  LET first == ManagedFirst(g)
      last == ManagedLimit(g) - count
      start == IF g.hint <= last THEN Max({g.hint, first}) ELSE first
      Fits(from, to) == {p \in from .. to : p <= last /\ RunIsFree(g, p, count)}
      Late == Fits(start, last)
      Early == Fits(first, start - 1)
  IN  IF count = 0 \/ count > FreePages(g) \/ last < first \/ Late \cup Early = {}
      THEN NoPage
      ELSE IF Late # {} THEN Min(Late) ELSE Min(Early)

(* x86_guest_memory_query_snapshot *)
LargestFree(g) ==
  Max({n \in 0 .. Cardinality(g.available) :
         n = 0 \/ \E p \in ManagedFirst(g) .. ManagedLimit(g) - n : RunIsFree(g, p, n)})


-----------------------------------------------------------------------------
(* find_lease_slot: the first free slot that can still count; spent slots it *)
(* passes on the way are retired.                                            *)
Spent(s) == s.state = "FREE" /\ s.generation >= LeaseGenerationMax
UsableSlots(g) ==
  {s \in LeaseSlots : g.leases[s].state = "FREE" /\ ~Spent(g.leases[s])}
FindLeaseSlot(g) == IF UsableSlots(g) = {} THEN 0 ELSE Min(UsableSlots(g))
RetirePassed(g, slot) ==
  [g EXCEPT !.leases = [s \in LeaseSlots |->
     IF Spent(@[s]) /\ (slot = 0 \/ s < slot) THEN [@[s] EXCEPT !.state = "RETIRED"]
                                              ELSE @[s]]]

(* resolve_lease *)
LeaseIsLive(g, lease) ==
  /\ lease # NoLease
  /\ g.leases[lease.slot].state = "LIVE"
  /\ g.leases[lease.slot].generation = lease.generation

PageRun(s) == s.first .. s.first + s.count - 1
ZeroRun(m, first, count) ==
  [u \in Units |-> IF u \div PageUnits \in first .. first + count - 1 THEN 0 ELSE m[u]]

Answer(status, g, m, lease, page) ==
  [status |-> status, pm |-> g, mem |-> m, lease |-> lease, page |-> page]
Refuse(status, g, m) == Answer(status, g, m, NoLease, 0)

Hint(g, next) == IF next >= ManagedLimit(g) THEN ManagedFirst(g) ELSE next

TakeRun(g, m, owner, count, slot, first) ==
  LET next == g.leases[slot].generation + 1
  IN  Answer("OK",
        [g EXCEPT !.allocated = @ \cup (first .. first + count - 1),
                  !.leases[slot] = [generation |-> next, owner |-> owner, first |-> first,
                                    count |-> count, state |-> "LIVE"],
                  !.allocatedPages = @ + count, !.hint = Hint(g, first + count)],
        ZeroRun(m, first, count), [slot |-> slot, generation |-> next], first)

(* From the lease slot on; z is what the zero operation answers. *)
AllocateRun(g, m, owner, count, slot, first, z) ==
  CASE slot = 0 -> Refuse("NO_LEASE", g, m)
    [] slot # 0 /\ first = NoPage -> Refuse("NO_MEMORY", g, m)
    [] slot # 0 /\ first # NoPage /\ z = "FAILED" -> Refuse("ZERO_FAILED", g, m)
    [] slot # 0 /\ first # NoPage /\ z = "UNCERTAIN" ->
         Refuse("POISONED", [g EXCEPT !.poisoned = TRUE], ZeroRun(m, first, count))
    [] OTHER -> TakeRun(g, m, owner, count, slot, first)

(* x86_guest_memory_allocate *)
Allocate(g, m, owner, count, z) ==
  IF g.poisoned THEN Refuse("POISONED", g, m)
  ELSE IF count > FreePages(g) THEN Refuse("NO_MEMORY", g, m)
  ELSE AllocateRun(RetirePassed(g, FindLeaseSlot(g)), m, owner, count,
                   FindLeaseSlot(g), FindFreeRun(g, count), z)

(* The end of x86_guest_memory_release: the pages are zeroed before they are free. *)
ReleaseSlot(g, m, slot) ==
  Answer("OK",
    [g EXCEPT !.allocated = @ \ PageRun(g.leases[slot]),
              !.leases[slot] = FreeSlot(g.leases[slot].generation),
              !.allocatedPages = @ - g.leases[slot].count,
              !.hint = Min({@, g.leases[slot].first})],
    ZeroRun(m, g.leases[slot].first, g.leases[slot].count), NoLease, 0)

(* x86_guest_memory_release *)
Release(g, m, owner, lease, z) ==
  CASE g.poisoned -> Refuse("POISONED", g, m)
    [] ~g.poisoned /\ ~LeaseIsLive(g, lease) -> Refuse("STALE_LEASE", g, m)
    [] ~g.poisoned /\ LeaseIsLive(g, lease) /\ g.leases[lease.slot].owner # owner ->
         Refuse("OWNER_MISMATCH", g, m)
    [] OTHER ->
         IF ~(PageRun(g.leases[lease.slot]) \subseteq g.allocated) \/ z = "UNCERTAIN"
         THEN Refuse("POISONED", [g EXCEPT !.poisoned = TRUE], m)
         ELSE IF z = "FAILED" THEN Refuse("ZERO_FAILED", g, m)
         ELSE ReleaseSlot(g, m, lease.slot)

(* x86_guest_memory_inspect: the owner and the run of a live lease. *)
Inspect(g, lease) ==
  CASE g.poisoned -> [status |-> "POISONED", slot |-> FreeSlot(0)]
    [] ~g.poisoned /\ ~LeaseIsLive(g, lease) ->
         [status |-> "STALE_LEASE", slot |-> FreeSlot(0)]
    [] OTHER -> [status |-> "OK", slot |-> g.leases[lease.slot]]

PagesTypeOK ==
  /\ bootMap \in MemoryMaps
  /\ pm \in PageManager
  /\ mem \in [Units -> Values]

=============================================================================
