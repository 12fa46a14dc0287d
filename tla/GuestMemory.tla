----------------------------- MODULE GuestMemory -----------------------------
(***************************************************************************)
(* XMS, EMS, VCPI and the firmware shadow over one owner of physical pages *)
(* (kernel/x86_vm/memory/, dos/xms/, dos/ems/).                            *)
(***************************************************************************)
EXTENDS EmsManager, Sequences

vars == <<bootMap, pm, mem, shadow, pte, space, xms, ems, hwFrame>>

Init == PagesInit /\ ShadowInit /\ XmsInit /\ EmsInit

(* A call that is refused, or that happens to change nothing, is no step. *)
Next ==
  \/ ShadowNext /\ UNCHANGED <<xms, emsVars>> /\ vars' # vars
  \/ XmsNext /\ UNCHANGED <<shadowVars, emsVars>> /\ vars' # vars
  \/ EmsNext /\ UNCHANGED <<shadowVars, xms>> /\ vars' # vars

Spec == Init /\ [][Next]_vars

TypeOK ==
  PagesTypeOK /\ ShadowTypeOK /\ xms \in XmsManagerState /\ EmsTypeOK

-----------------------------------------------------------------------------
LiveLeases ==
  {[slot |-> s, generation |-> pm.leases[s].generation] :
     s \in {t \in LeaseSlots : pm.leases[t].state = "LIVE"}}

XmsUsers(l) == {<<"xms", h>> : h \in {k \in XmsHandles : xms.handles[k].lease = l}}
EmsUsers(l) ==
  {<<"ems", h>> : h \in {k \in EmsHandles : ems.handles[k].lease = l}}
  \cup {<<"vcpi", v>> : v \in {k \in VcpiSlots : ems.vcpi[k].lease = l}}
ShadowUsers(l) == {<<"space", i>> : i \in {k \in ShadowSlots : shadow.pages[k].lease = l}}
Users(l) == XmsUsers(l) \cup EmsUsers(l) \cup ShadowUsers(l)

Backed(lease, owner, page, count) ==
  /\ LeaseIsLive(pm, lease)
  /\ pm.leases[lease.slot].owner = owner
  /\ pm.leases[lease.slot].first = page /\ pm.leases[lease.slot].count = count

(* Every entry of a service that still answers names a live lease of its own, *)
(* with the page and the length it believes in, and every live lease has      *)
(* exactly one entry: however allocations, releases and their failures        *)
(* interleave, growing an XMS block included, no run of pages is lost, shared *)
(* or given back twice.  Only a service that has poisoned itself may have     *)
(* lost track.                                                                *)
LeasesAccounted ==
  /\ \A l \in LiveLeases :
       /\ Cardinality(Users(l)) <= 1
       /\ Users(l) = {} =>
            CASE pm.leases[l.slot].owner = "xms" -> xms.poisoned
              [] pm.leases[l.slot].owner = "ems" -> ems.poisoned
              [] OTHER -> shadow.poisoned
  /\ ~xms.poisoned => \A h \in XmsHandles : HandleIsAllocated(h) =>
       LET b == xms.handles[h]
       IN  Backed(b.lease, "xms", b.page, b.capacity \div PageUnits) /\ b.size <= b.capacity
  /\ ~ems.poisoned => \A b \in {ems.handles[h] : h \in EmsHandles} \cup {ems.vcpi[v] : v \in VcpiSlots} :
       InUse(b) => Backed(b.lease, "ems", b.page, b.capacity)
  /\ ~shadow.poisoned => \A i \in UsedPages(shadow) :
       Backed(shadow.pages[i].lease, "space", shadow.pages[i].page, 1)
  /\ pm.allocated = UNION {PageRun(pm.leases[l.slot]) : l \in LiveLeases}
  /\ pm.allocatedPages = Cardinality(pm.allocated)
  /\ \A k, l \in LiveLeases :
       k # l => PageRun(pm.leases[k.slot]) \cap PageRun(pm.leases[l.slot]) = {}

(* What the services tell a program they can give is what they can give: the *)
(* search of the bitmap with its moving hint finds a run exactly when the    *)
(* snapshot says that one is that long, and every page it may give out is    *)
(* usable memory of the firmware's map, reserved ranges taken out, by both   *)
(* of the map's own judgements (find_free_run, query_snapshot, map.c).       *)
QueryHonest ==
  /\ {n \in 1 .. Cardinality(Pages) : FindFreeRun(pm, n) # NoPage} = 1 .. LargestFree(pm)
  /\ {u \in Units : u \div PageUnits \in pm.available} \subseteq UsableUnits(bootMap)
  /\ \A p \in pm.available :
       /\ RangeIsUsable(bootMap, p * PageUnits, PageUnits)
       /\ (p + 1) * PageUnits <= UsableLimit(bootMap)

Leased(page, owner) ==
  \E l \in LiveLeases : pm.leases[l.slot].owner = owner /\ page \in PageRun(pm.leases[l.slot])

(* A program never looks through a mapping at memory that is not its own: what  *)
(* the EMS page frame shows and what the firmware entries alias are leased by   *)
(* EMS and by the guest space, also after a failure half way through a release; *)
(* EMS knows what its frame shows while it still answers, and an execution that *)
(* has ended leaves neither aliases nor leases (release_handle,                 *)
(* x86_firmware_shadow_execution_release).                                      *)
MappingsBacked ==
  /\ \A s \in FrameSlots : hwFrame[s] # 0 =>
       \A n \in 0 .. NativePerPage - 1 : Leased(hwFrame[s] + n, "ems")
  /\ ~ems.poisoned => EmsStateIsValid /\ \A s \in FrameSlots : hwFrame[s] = ems.frame[s].page
  /\ \A r \in RomPages : pte[r] \in Pages =>
       /\ Leased(pte[r], "space")
       /\ \E i \in ShadowSlots : shadow.pages[i].state = "ACTIVE" /\ shadow.pages[i].rom = r
                                 /\ shadow.pages[i].page = pte[r]
  /\ ~shadow.poisoned /\ ActiveClients(shadow) = {} =>
       UsedPages(shadow) = {} /\ \A r \in RomPages : pte[r] \notin Pages

-----------------------------------------------------------------------------
(* What the services' stores hold, for a program; nothing once one has poisoned itself. *)
ReadUnits(page, n) == [i \in 1 .. n |-> mem[page * PageUnits + i - 1]]
ReadPages(page, n) == [l \in 1 .. n |-> mem[(page + (l - 1) * NativePerPage) * PageUnits]]

LowContents == [u \in LowUnits |-> mem[u]]
XmsContents ==
  [h \in XmsHandles |->
     IF xms.poisoned THEN <<>> ELSE ReadUnits(xms.handles[h].page, xms.handles[h].size)]
EmsContents ==
  [h \in EmsHandles |->
     IF ems.poisoned THEN <<>> ELSE ReadPages(ems.handles[h].page, ems.handles[h].count)]

Store == INSTANCE ExtendedStore WITH
  LowSize <- FirstPage * PageUnits, XHandles <- XmsHandles, EHandles <- EmsHandles,
  low <- LowContents, xBlocks <- XmsContents, ePages <- EmsContents,
  xBroken <- xms.poisoned, eBroken <- ems.poisoned

(* XMS and EMS keep the stores they promise: contents survive growth, moves and *)
(* remapping, other programs' calls and every failed call; fresh memory is      *)
(* empty; overlapping moves copy what the source held (move_memory,             *)
(* XMS_FUNCTION_REALLOCATE, x86_guest_memory_allocate).                         *)
KeepsStore == Store!Spec

=============================================================================
