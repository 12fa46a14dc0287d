----------------------------- MODULE XmsManager -----------------------------
(***************************************************************************)
(* The XMS driver (dos/xms/manager.c) over the guest's page owner          *)
(* (kernel/x86_vm/memory/xms.c); the A20 gate and the HMA are not here.    *)
(* A call that is refused without an effect is no step.                    *)
(***************************************************************************)
EXTENDS FirmwareShadow

CONSTANTS
  XmsHandleCount,     \* DOS_XMS_HANDLE_COUNT
  LockMax,            \* 0xff: the lock count of a handle
  XmsSizes,           \* sizes asked for, in units
  ConventionalFaults  \* may an access to conventional memory fail?

ASSUME XmsAssumption ==
  /\ XmsHandleCount \in Nat \ {0} /\ LockMax \in Nat \ {0}
  /\ XmsSizes \subseteq Nat \ {0} /\ XmsSizes # {} /\ IsFiniteSet(XmsSizes)
  /\ ConventionalFaults \in BOOLEAN

VARIABLE xms   \* struct dos_xms_manager

XmsHandles == 1 .. XmsHandleCount
XmsBlock == [lease : Leases, size : Nat, capacity : Nat, page : 0 .. LastPage, locks : 0 .. LockMax]
NoBlock == [lease |-> NoLease, size |-> 0, capacity |-> 0, page |-> 0, locks |-> 0]

XmsManagerState ==
  [handles : [XmsHandles -> XmsBlock], poisoned : BOOLEAN]

(* dos_xms_construct and dos_xms_initialize; the map holds a free page. *)
XmsInit ==
  xms = [handles |-> [h \in XmsHandles |-> NoBlock], poisoned |-> FALSE]

HandleIsAllocated(h) == xms.handles[h].lease # NoLease
FreeHandles == {h \in XmsHandles : ~HandleIsAllocated(h)}

-----------------------------------------------------------------------------
(* map_status of memory/xms.c *)
XmsStatus(s) ==
  CASE s = "OK" -> "OK"
    [] s \in {"NO_MEMORY", "NO_LEASE"} -> "NO_MEMORY"
    [] s = "POISONED" -> "UNCERTAIN"
    [] OTHER -> "FAULT"

PagesFor(size) == PageUp(size)

(* allocate_memory and release_memory *)
AllocateMemory(g, m, size, z) == Allocate(g, m, "xms", PagesFor(size), z)
ReleaseMemory(g, m, lease, z) == Release(g, m, "xms", lease, z)

(* resolve_mapping: a live lease of XMS that holds the range. *)
MappingStatus(g, lease, offset, count) ==
  LET i == Inspect(g, lease)
  IN  IF i.status # "OK" THEN XmsStatus(i.status)
      ELSE IF i.slot.owner = "xms" /\ offset + count <= i.slot.count * PageUnits
           THEN "OK" ELSE "FAULT"

(* memory_fault: an uncertain answer poisons the driver. *)
MemoryFault(x, s) == IF XmsStatus(s) = "UNCERTAIN" THEN [x EXCEPT !.poisoned = TRUE] ELSE x

BlockOf(r, size) ==
  [lease |-> r.lease, size |-> size, capacity |-> PagesFor(size) * PageUnits,
   page |-> r.page, locks |-> 0]

(* XMS_FUNCTION_ALLOCATE(_EXTENDED) *)
XmsAllocateAnswer(r, h, size) ==
  /\ pm' = r.pm /\ mem' = r.mem
  /\ xms' = IF r.status = "OK" THEN [xms EXCEPT !.handles[h] = BlockOf(r, size)]
                               ELSE MemoryFault(xms, r.status)

XmsAllocate(size, z) ==
  /\ ~xms.poisoned /\ FreeHandles # {}
  /\ XmsAllocateAnswer(AllocateMemory(pm, mem, size, z), Min(FreeHandles), size)
  /\ UNCHANGED bootMap

XmsFreeAnswer(r, h) ==
  /\ pm' = r.pm /\ mem' = r.mem
  /\ xms' = IF r.status = "OK" THEN [xms EXCEPT !.handles[h] = NoBlock]
                               ELSE MemoryFault(xms, r.status)

(* XMS_FUNCTION_FREE *)
XmsFree(h, z) ==
  /\ ~xms.poisoned /\ HandleIsAllocated(h) /\ xms.handles[h].locks = 0
  /\ XmsFreeAnswer(ReleaseMemory(pm, mem, xms.handles[h].lease, z), h)
  /\ UNCHANGED bootMap

(* XMS_FUNCTION_LOCK and XMS_FUNCTION_UNLOCK *)
XmsLock(h) ==
  /\ ~xms.poisoned /\ HandleIsAllocated(h) /\ xms.handles[h].locks < LockMax
  /\ xms' = [xms EXCEPT !.handles[h].locks = @ + 1]
  /\ UNCHANGED <<bootMap, pm, mem>>

XmsUnlock(h) ==
  /\ ~xms.poisoned /\ HandleIsAllocated(h) /\ xms.handles[h].locks > 0
  /\ xms' = [xms EXCEPT !.handles[h].locks = @ - 1]
  /\ UNCHANGED <<bootMap, pm, mem>>

-----------------------------------------------------------------------------
(* Copying n units one after the other, upwards or downwards from the end of *)
(* a move of length units: later units read what earlier ones wrote.         *)
CopyUnits(m, from, to, length, backward, n) ==
  LET at(i) == IF backward THEN length - i ELSE i - 1
      copy[i \in 0 .. n] ==
        IF i = 0 THEN m ELSE [copy[i - 1] EXCEPT ![to + at(i)] = copy[i - 1][from + at(i)]]
  IN  copy[n]

(* copy_extended_block *)
CopyBlock(m, from, to, size) == CopyUnits(m, from * PageUnits, to * PageUnits, size, FALSE, size)

(* The last steps of a reallocation: the old block goes back, or the new one does *)
(* and a failure of that poisons the driver.                                      *)
SettleGrown(h, size, grown, copied, old, cleanup) ==
  IF copied = "OK" /\ old.status = "OK"
  THEN /\ xms' = [xms EXCEPT !.handles[h] = BlockOf(grown, size)]
       /\ pm' = old.pm /\ mem' = old.mem
  ELSE LET failed == IF copied = "OK" THEN XmsStatus(old.status) ELSE copied
       IN  /\ xms' = [xms EXCEPT !.poisoned = cleanup.status # "OK" \/ failed = "UNCERTAIN"]
           /\ pm' = cleanup.pm /\ mem' = cleanup.mem

(* Fault: a failed release of the old block leaves the handle on the new one. *)
GrowFromForgetful(h, size, grown, copied, z2, z3) ==
  LET data == CopyBlock(grown.mem, xms.handles[h].page, grown.page, xms.handles[h].size)
      old  == ReleaseMemory(grown.pm, data, xms.handles[h].lease, z2)
  IN  /\ z3 \in ZeroResults /\ copied \in {"OK", "UNCERTAIN", "FAULT"}
      /\ xms' = [xms EXCEPT !.handles[h] = BlockOf(grown, size)]
      /\ pm' = old.pm /\ mem' = old.mem

GrowFrom(h, size, grown, copied, z2, z3) ==
  LET data == CopyBlock(grown.mem, xms.handles[h].page, grown.page, xms.handles[h].size)
      old  == IF copied = "OK"
              THEN ReleaseMemory(grown.pm, data, xms.handles[h].lease, z2)
              ELSE Refuse("FAULT", grown.pm, grown.mem)
  IN  SettleGrown(h, size, grown, copied, old,
                  ReleaseMemory(old.pm, old.mem, grown.lease, z3))

(* XMS_FUNCTION_REALLOCATE(_EXTENDED) past the block's capacity: allocate, copy, *)
(* release.  z1, z2 and z3 are the zero results of the new block, the old one    *)
(* and, when that could not be released, the new one again.                      *)
XmsGrow(h, size, z1, z2, z3) ==
  /\ z1 # "OK" => z2 = "OK"
  /\ z2 = "OK" => z3 = "OK"
  /\ ~xms.poisoned /\ HandleIsAllocated(h) /\ xms.handles[h].locks = 0
  /\ size > xms.handles[h].capacity
  /\ LET grown == AllocateMemory(pm, mem, size, z1)
     IN  IF grown.status # "OK"
         THEN /\ pm' = grown.pm /\ mem' = grown.mem
              /\ xms' = MemoryFault(xms, grown.status)
         ELSE GrowFrom(h, size, grown,
                MappingStatus(grown.pm, xms.handles[h].lease, 0, xms.handles[h].size), z2, z3)
  /\ UNCHANGED bootMap

(* Within the capacity only the size changes. *)
XmsResize(h, size) ==
  /\ ~xms.poisoned /\ HandleIsAllocated(h) /\ xms.handles[h].locks = 0
  /\ size <= xms.handles[h].capacity
  /\ xms' = [xms EXCEPT !.handles[h].size = size]
  /\ UNCHANGED <<bootMap, pm, mem>>

-----------------------------------------------------------------------------
(* decode_endpoint: handle 0 is conventional memory. *)
EndpointFits(h, offset, length) ==
  IF h = 0 THEN offset + length <= Cardinality(LowUnits)
  ELSE HandleIsAllocated(h) /\ offset + length <= xms.handles[h].size
EndpointUnit(h, offset) == IF h = 0 THEN offset ELSE xms.handles[h].page * PageUnits + offset
EndpointStatus(h, offset, length) ==
  IF h = 0 THEN "OK" ELSE MappingStatus(pm, xms.handles[h].lease, offset, length)

(* identity_read and identity_write of the guest space *)
ConventionalAccess == SpaceActive /\ GuestTranslates

(* Fault: overlapping moves run upwards too. *)
MovesNeverBackward(source, sourceAt, target, targetAt, length) == FALSE

(* Overlap within one block, towards higher addresses, is moved from the end. *)
MovesBackward(source, sourceAt, target, targetAt, length) ==
  source = target /\ targetAt > sourceAt /\ targetAt < sourceAt + length

(* move_memory; done units are moved before an access to conventional memory fails *)
(* (a move that fails at once has no effect).                                      *)
XmsMove(source, sourceAt, target, targetAt, length, done) ==
  /\ ~xms.poisoned
  /\ EndpointFits(source, sourceAt, length) /\ EndpointFits(target, targetAt, length)
  /\ LET statuses == {EndpointStatus(source, sourceAt, length),
                      EndpointStatus(target, targetAt, length)}
     IN  IF statuses # {"OK"}
         THEN /\ xms' = [xms EXCEPT !.poisoned = "UNCERTAIN" \in statuses]
              /\ UNCHANGED mem
         ELSE /\ 0 \in {source, target} => ConventionalAccess
              /\ done = length \/ (ConventionalFaults /\ 0 \in {source, target})
              /\ mem' = CopyUnits(mem, EndpointUnit(source, sourceAt),
                          EndpointUnit(target, targetAt), length,
                          MovesBackward(source, sourceAt, target, targetAt, length), done)
              /\ UNCHANGED xms
  /\ UNCHANGED <<bootMap, pm>>

(* XMS_FUNCTION_QUERY_FREE(_EXTENDED): it fails only over poisoned pages. *)
XmsQueryFree ==
  /\ ~xms.poisoned /\ pm.poisoned
  /\ xms' = [xms EXCEPT !.poisoned = TRUE]
  /\ UNCHANGED <<bootMap, pm, mem>>

-----------------------------------------------------------------------------
(* A write of the program to its conventional memory. *)
WriteLow(u, v) ==
  /\ u \in LowUnits /\ mem' = [mem EXCEPT ![u] = v]
  /\ UNCHANGED <<bootMap, pm, xms>>

XmsNext ==
  \/ \E z \in ZeroResults : \E size \in XmsSizes : XmsAllocate(size, z)
  \/ \E z \in ZeroResults : \E h \in XmsHandles : XmsFree(h, z)
  \/ \E z1, z2, z3 \in ZeroResults : \E h \in XmsHandles : \E size \in XmsSizes :
       XmsGrow(h, size, z1, z2, z3)
  \/ \E h \in XmsHandles : \E size \in XmsSizes : XmsResize(h, size)
  \/ \E h \in XmsHandles : XmsLock(h)
  \/ \E h \in XmsHandles : XmsUnlock(h)
  \/ \E s, t \in {0} \cup (XmsHandles \ FreeHandles) : \E length \in 1 .. Max(XmsSizes) - 1 :
       \E a, b \in 0 .. Max(XmsSizes) - length : \E done \in 1 .. length :
         XmsMove(s, a, t, b, length, done)
  \/ XmsQueryFree
  \/ \E u \in LowUnits, v \in Values \ {0} : WriteLow(u, v)

=============================================================================
