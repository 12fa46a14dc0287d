----------------------------- MODULE EmsManager -----------------------------
(***************************************************************************)
(* The EMS and VCPI services behind INT 67h (dos/ems/core.c, vcpi.c) over  *)
(* the guest's page owner (kernel/x86_vm/memory/ems.c).  The page frame is *)
(* mapped by an external mapper that may fail, or fail without telling     *)
(* what it did.  A call that is refused without an effect is no step.      *)
(***************************************************************************)
EXTENDS XmsManager

CONSTANTS
  EmsHandleCount,       \* DOS_EMS_HANDLE_COUNT
  VcpiCount,            \* DOS_VCPI_ALLOCATION_COUNT
  FrameSlotCount,       \* DOS_EMS_PAGE_FRAME_SLOTS
  NativePerPage,        \* DOS_EMS_NATIVE_PAGES_PER_PAGE
  EmsGenerationMax,     \* DOS_EMS_GENERATION_MAX
  EmsCounts,            \* page counts asked for
  FrameResults,         \* what the frame mapper may answer
  PlatformResults       \* what the VCPI platform may answer

ASSUME EmsAssumption ==
  /\ EmsHandleCount \in Nat \ {0} /\ VcpiCount \in Nat /\ FrameSlotCount \in Nat \ {0}
  /\ NativePerPage \in Nat \ {0} /\ EmsGenerationMax \in Nat \ {0}
  /\ EmsCounts \subseteq Nat \ {0}
  /\ FrameResults \subseteq {"OK", "FAULT", "UNCERTAIN"} /\ "OK" \in FrameResults
  /\ PlatformResults \subseteq {"OK", "UNSUPPORTED", "FAULT", "UNCERTAIN"}

VARIABLES
  ems,      \* struct dos_ems_manager
  hwFrame   \* the page each slot of the page frame shows; 0: none

emsVars == <<ems, hwFrame>>

EmsHandles == 1 .. EmsHandleCount
VcpiSlots == 1 .. VcpiCount
FrameSlots == 1 .. FrameSlotCount
FreeEms(generation) ==
  [lease |-> NoLease, generation |-> generation, page |-> 0, count |-> 0, capacity |-> 0]
Unmapped == [handle |-> 0, logical |-> 0, page |-> 0]

EmsBlock == [lease : Leases, generation : 0 .. EmsGenerationMax, page : 0 .. LastPage,
             count : 0 .. LastPage, capacity : 0 .. LastPage]
EmsManagerState ==
  [handles : [EmsHandles -> EmsBlock], vcpi : [VcpiSlots -> EmsBlock],
   frame : [FrameSlots -> [handle : 0 .. EmsHandleCount, logical : 0 .. LastPage,
                           page : 0 .. LastPage]],
   poisoned : BOOLEAN]

(* dos_ems_construct and dos_ems_initialize *)
EmsInit ==
  /\ ems = [handles |-> [h \in EmsHandles |-> FreeEms(0)],
            vcpi |-> [v \in VcpiSlots |-> FreeEms(0)],
            frame |-> [s \in FrameSlots |-> Unmapped], poisoned |-> FALSE]
  /\ hwFrame = [s \in FrameSlots |-> 0]

InUse(block) == block.lease # NoLease

(* handle_entry_is_valid, vcpi_entry_is_valid, frame_slot_is_valid and *)
(* manager_state_is_valid, which every call starts with.               *)
EntryIsValid(b, native) ==
  IF InUse(b) THEN b.generation > 0 /\ b.count > 0 /\ b.capacity >= b.count * native
              ELSE b = FreeEms(b.generation)
FrameSlotIsValid(f) ==
  f = Unmapped \/
  /\ f.handle # 0 /\ InUse(ems.handles[f.handle])
  /\ f.logical < ems.handles[f.handle].count
  /\ f.page = ems.handles[f.handle].page + f.logical * NativePerPage
EmsStateIsValid ==
  /\ \A h \in EmsHandles : EntryIsValid(ems.handles[h], NativePerPage)
  /\ \A v \in VcpiSlots : EntryIsValid(ems.vcpi[v], 1)
  /\ \A s \in FrameSlots : FrameSlotIsValid(ems.frame[s])

EmsReady == ~ems.poisoned /\ EmsStateIsValid

(* map_status of memory/ems.c and dos_ems_page_fault: what cannot be told apart *)
(* from damage poisons.                                                         *)
PageFault(s) == s \in {"STALE_LEASE", "OWNER_MISMATCH", "POISONED"}
PoisonEms(bad) == [ems EXCEPT !.poisoned = bad]

(* dos_ems_query_pages, behind the counts of EMS and VCPI. *)
EmsQuery ==
  /\ EmsReady /\ pm.poisoned
  /\ ems' = PoisonEms(TRUE)
  /\ UNCHANGED <<bootMap, pm, mem, hwFrame>>

-----------------------------------------------------------------------------
Allotted(b, answer, count, capacity) ==
  [lease |-> answer.lease, generation |-> b.generation + 1, page |-> answer.page,
   count |-> count, capacity |-> capacity]
Allottable(table) ==
  {i \in DOMAIN table : ~InUse(table[i]) /\ table[i].generation < EmsGenerationMax}

AllotHandle(h, count, answer) ==
  /\ pm' = answer.pm /\ mem' = answer.mem
  /\ ems' = IF answer.status = "OK"
            THEN [ems EXCEPT !.handles[h] = Allotted(@, answer, count, count * NativePerPage)]
            ELSE PoisonEms(PageFault(answer.status))

(* allocate_handle *)
EmsAllocate(count, z) ==
  /\ EmsReady /\ ~pm.poisoned
  /\ Allottable(ems.handles) # {}
  /\ count * NativePerPage <= LargestFree(pm)
  /\ AllotHandle(Min(Allottable(ems.handles)), count,
                 Allocate(pm, mem, "ems", count * NativePerPage, z))
  /\ UNCHANGED <<bootMap, hwFrame>>

AllotVcpi(v, answer) ==
  /\ pm' = answer.pm /\ mem' = answer.mem
  /\ ems' = IF answer.status = "OK" THEN [ems EXCEPT !.vcpi[v] = Allotted(@, answer, 1, 1)]
            ELSE PoisonEms(PageFault(answer.status))

(* vcpi_allocate_page *)
VcpiAllocate(z) ==
  /\ EmsReady /\ Allottable(ems.vcpi) # {}
  /\ AllotVcpi(Min(Allottable(ems.vcpi)), Allocate(pm, mem, "ems", 1, z))
  /\ UNCHANGED <<bootMap, hwFrame>>

ReturnVcpi(v, answer) ==
  /\ pm' = answer.pm /\ mem' = answer.mem
  /\ ems' = IF answer.status = "OK" THEN [ems EXCEPT !.vcpi[v] = FreeEms(@.generation)]
            ELSE PoisonEms(PageFault(answer.status))

(* vcpi_free_page: the page is named by its address. *)
VcpiFree(page, z) ==
  /\ EmsReady
  /\ \E v \in VcpiSlots :
       /\ InUse(ems.vcpi[v]) /\ ems.vcpi[v].page = page
       /\ ReturnVcpi(v, Release(pm, mem, "ems", ems.vcpi[v].lease, z))
  /\ UNCHANGED <<bootMap, hwFrame>>

(* The other VCPI calls reach the platform, whose doubt poisons. *)
VcpiPlatformCall(result) ==
  /\ EmsReady /\ result = "UNCERTAIN"
  /\ ems' = PoisonEms(TRUE)
  /\ UNCHANGED <<bootMap, pm, mem, hwFrame>>

-----------------------------------------------------------------------------
(* The mapper: done when OK, untouched when FAULT, either when UNCERTAIN. *)
MapperDid(result, s, page) ==
  \/ result \in {"OK", "UNCERTAIN"} /\ hwFrame' = [hwFrame EXCEPT ![s] = page]
  \/ result \in {"FAULT", "UNCERTAIN"} /\ UNCHANGED hwFrame

(* map_handle_page *)
EmsMap(s, h, logical, result) ==
  /\ EmsReady /\ InUse(ems.handles[h]) /\ logical < ems.handles[h].count
  /\ LET b    == ems.handles[h]
         page == b.page + logical * NativePerPage
     IN  IF (logical + 1) * NativePerPage > b.capacity
         THEN ems' = PoisonEms(TRUE) /\ UNCHANGED hwFrame
         ELSE /\ MapperDid(result, s, page)
              /\ ems' = IF result = "OK"
                        THEN [ems EXCEPT !.frame[s] =
                                [handle |-> h, logical |-> logical, page |-> page]]
                        ELSE PoisonEms(result = "UNCERTAIN")
  /\ UNCHANGED <<bootMap, pm, mem>>

(* unmap_frame_slot, for logical page FFFFh. *)
EmsUnmap(s, result) ==
  /\ EmsReady /\ ems.frame[s] # Unmapped
  /\ MapperDid(result, s, 0)
  /\ ems' = IF result = "OK" THEN [ems EXCEPT !.frame[s] = Unmapped]
            ELSE PoisonEms(result = "UNCERTAIN")
  /\ UNCHANGED <<bootMap, pm, mem>>

SlotsOf(h) == {s \in FrameSlots : ems.frame[s].handle = h}
Shows(slots, page(_)) == [s \in FrameSlots |-> IF s \in slots THEN page(s) ELSE hwFrame[s]]
NoneShown(s) == 0

(* restore_frame_slots, from the last slot down: the first failure ends it and *)
(* poisons.                                                                    *)
RestoreFrameSlots(out, back) ==
  LET failed  == {s \in out : back[s] # "OK"}
      shown   == {s \in out : \A t \in failed : t < s}
  IN  /\ hwFrame' = [s \in FrameSlots |-> IF s \in out \ shown THEN 0 ELSE hwFrame[s]]
      /\ ems' = PoisonEms(failed # {})

(* The pages go back after the frame no longer shows them. *)
ReturnHandle(h, back, answer) ==
  /\ pm' = answer.pm /\ mem' = answer.mem
  /\ CASE answer.status = "OK" ->
            /\ ems' = [ems EXCEPT !.handles[h] = FreeEms(@.generation),
                         !.frame = [s \in FrameSlots |->
                                      IF s \in SlotsOf(h) THEN Unmapped ELSE @[s]]]
            /\ hwFrame' = Shows(SlotsOf(h), NoneShown)
       [] answer.status # "OK" /\ PageFault(answer.status) ->
            ems' = PoisonEms(TRUE) /\ hwFrame' = Shows(SlotsOf(h), NoneShown)
       [] OTHER -> RestoreFrameSlots(SlotsOf(h), back)

(* release_handle: unmap[s] is what the mapper answers for slot s, back[s] what *)
(* it answers when the slot is put back, z the zero result of a release.        *)
EmsRelease(h, unmap, back, z) ==
  /\ EmsReady /\ InUse(ems.handles[h])
  /\ (\A s \in SlotsOf(h) : unmap[s] = "OK") \/ z = "OK"
  /\ (\A s \in SlotsOf(h) : back[s] = "OK") \/ z = "FAILED"
     \/ \E s \in SlotsOf(h) : unmap[s] = "FAULT"
  /\ LET failing == {s \in SlotsOf(h) : unmap[s] # "OK"}
         out     == {s \in SlotsOf(h) : \A t \in failing : s < t}
     IN  IF failing = {}
         THEN ReturnHandle(h, back, Release(pm, mem, "ems", ems.handles[h].lease, z))
         ELSE /\ UNCHANGED <<pm, mem>>
              /\ IF unmap[Min(failing)] = "UNCERTAIN"
                 THEN /\ ems' = PoisonEms(TRUE)
                      /\ \/ hwFrame' = Shows(out, NoneShown)
                         \/ hwFrame' = Shows(out \cup {Min(failing)}, NoneShown)
                 ELSE RestoreFrameSlots(out, back)
  /\ UNCHANGED bootMap

(* A write of the program to the first unit of what a slot shows. *)
WriteFrame(s, v) ==
  /\ hwFrame[s] # 0
  /\ mem' = [mem EXCEPT ![hwFrame[s] * PageUnits] = v]
  /\ UNCHANGED <<bootMap, pm, ems, hwFrame>>

EmsTypeOK == ems \in EmsManagerState /\ hwFrame \in [FrameSlots -> Pages \cup {0}]

EmsNext ==
  \/ EmsQuery
  \/ \E count \in EmsCounts, z \in ZeroResults : EmsAllocate(count, z)
  \/ \E z \in ZeroResults : VcpiAllocate(z)
  \/ \E page \in Pages, z \in ZeroResults : VcpiFree(page, z)
  \/ \E r \in PlatformResults : VcpiPlatformCall(r)
  \/ \E s \in FrameSlots, h \in EmsHandles, l \in 0 .. LastPage, r \in FrameResults :
       EmsMap(s, h, l, r)
  \/ \E s \in FrameSlots, r \in FrameResults : EmsUnmap(s, r)
  \/ \E h \in EmsHandles : \E z \in ZeroResults :
       \E unmap, back \in [SlotsOf(h) -> FrameResults] : EmsRelease(h, unmap, back, z)
  \/ \E s \in FrameSlots, v \in Values \ {0} : WriteFrame(s, v)

=============================================================================
