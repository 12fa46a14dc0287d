-------------------------- MODULE GuestMemoryProofs --------------------------
(***************************************************************************)
(* The page owner and its clients for every memory map, every number of    *)
(* pages, leases and handles, and every way a zero, a mapping or a copy    *)
(* may fail: the invariants, and then that XMS and EMS implement           *)
(* ExtendedStore.                                                          *)
(***************************************************************************)
EXTENDS GuestMemory, FiniteSetTheorems, WellFoundedInduction, TLAPS

(* Slot lease.slot holds count pages from page on for owner, and answers to *)
(* the generation in lease.                                                 *)
Owned(g, owner, lease, page, count) ==
  /\ lease.slot \in LeaseSlots
  /\ g.leases[lease.slot] = [generation |-> lease.generation, owner |-> owner,
                             first |-> page, count |-> count, state |-> "LIVE"]

NameOf(g, s) == [slot |-> s, generation |-> g.leases[s].generation]
LiveOf(g, owner) ==
  {s \in LeaseSlots : g.leases[s].state = "LIVE" /\ g.leases[s].owner = owner}

(* The page owner by itself. *)
RunsHeld(g) ==
  /\ \A s \in LeaseSlots : g.leases[s].state = "LIVE" =>
       /\ g.leases[s].generation # 0 /\ g.leases[s].count # 0
       /\ g.leases[s].owner # "nobody"
       /\ PageRun(g.leases[s]) \subseteq g.allocated
  /\ \A s, t \in LeaseSlots :
       g.leases[s].state = "LIVE" /\ g.leases[t].state = "LIVE" /\ s # t =>
         PageRun(g.leases[s]) \cap PageRun(g.leases[t]) = {}
  /\ \A p \in g.allocated :
       \E s \in LeaseSlots : g.leases[s].state = "LIVE" /\ p \in PageRun(g.leases[s])

PagesHeld(g) ==
  /\ g \in PageManager /\ g.available # {}
  /\ RunsHeld(g)
  /\ g.allocated \subseteq g.available
  /\ g.allocatedPages = Cardinality(g.allocated)

(* The lease of slot s, if it is live before or after, is the same. *)
Unmoved(g, h, s) ==
  g.leases[s].state = "LIVE" \/ h.leases[s].state = "LIVE" => h.leases[s] = g.leases[s]
SameLive(g, h) == \A s \in LeaseSlots : Unmoved(g, h, s)

(* Between g and h one lease was taken, or one given up, and no other touched. *)
Taken(g, h, owner, lease, page, count) ==
  /\ lease \in Leases /\ lease # NoLease /\ Owned(h, owner, lease, page, count)
  /\ page \in Pages /\ page + count - 1 \in Pages
  /\ g.leases[lease.slot].state # "LIVE"
  /\ \A p \in page .. page + count - 1 : p \notin g.allocated
  /\ \A s \in LeaseSlots \ {lease.slot} : Unmoved(g, h, s)
Given(g, h, lease) ==
  /\ h.leases[lease.slot].state # "LIVE"
  /\ \A s \in LeaseSlots \ {lease.slot} : Unmoved(g, h, s)

(* The leases of an owner are unchanged, whatever happened to the others. *)
Foreign(g, h, owner) ==
  \A s \in LeaseSlots : s \in LiveOf(g, owner) \cup LiveOf(h, owner) => h.leases[s] = g.leases[s]

(* L, a table of leases, names live leases of owner, none of them twice; it is *)
(* exact when it names every one.                                              *)
Book(g, owner, L) ==
  /\ \A i \in DOMAIN L : L[i] # NoLease =>
       L[i].slot \in LiveOf(g, owner) /\ L[i] = NameOf(g, L[i].slot)
  /\ \A i, j \in DOMAIN L : i # j /\ L[i] # NoLease => L[i] # L[j]
Exact(g, owner, L) == \A s \in LiveOf(g, owner) : \E i \in DOMAIN L : L[i] = NameOf(g, s)

(* XMS: a handle is free, or its block is the run it leases. *)
XmsLeases(x) == [h \in XmsHandles |-> x.handles[h].lease]
XmsBacked(g, b) ==
  IF b.lease = NoLease THEN b = NoBlock
  ELSE LET s == g.leases[b.lease.slot]
       IN  s.first = b.page /\ b.capacity = s.count * PageUnits /\ b.size \in 1 .. b.capacity
XmsHeld(g, x) ==
  /\ x \in XmsManagerState
  /\ Book(g, "xms", XmsLeases(x)) /\ (~x.poisoned => Exact(g, "xms", XmsLeases(x)))
  /\ \A h \in XmsHandles : XmsBacked(g, x.handles[h])

(* EMS and VCPI share one owner: their leases are one table. *)
EmsKeys == ({"ems"} \X EmsHandles) \cup ({"vcpi"} \X VcpiSlots)
EmsLeases(e) ==
  [k \in EmsKeys |-> IF k[1] = "ems" THEN e.handles[k[2]].lease ELSE e.vcpi[k[2]].lease]
EmsBacked(g, b, native) ==
  IF b.lease = NoLease THEN b = FreeEms(b.generation)
  ELSE LET s == g.leases[b.lease.slot]
       IN  /\ s.first = b.page /\ s.count = b.capacity
           /\ b.capacity = b.count * native /\ b.count > 0 /\ b.generation > 0
EmsHeld(g, e) ==
  /\ e \in EmsManagerState
  /\ Book(g, "ems", EmsLeases(e)) /\ (~e.poisoned => Exact(g, "ems", EmsLeases(e)))
  /\ \A h \in EmsHandles : EmsBacked(g, e.handles[h], NativePerPage)
  /\ \A v \in VcpiSlots : EmsBacked(g, e.vcpi[v], 1)

(* The frame: what it shows is leased; EMS knows what that is until it gives up. *)
Held(g, owner, page) == \E s \in LiveOf(g, owner) : page \in PageRun(g.leases[s])
FrameEntry(e, f) ==
  f = Unmapped \/
  /\ f.handle \in EmsHandles /\ e.handles[f.handle].lease # NoLease
  /\ f.logical < e.handles[f.handle].count
  /\ f.page = e.handles[f.handle].page + f.logical * NativePerPage
FrameHeld(g, e, w) ==
  /\ w \in [FrameSlots -> Pages \cup {0}]
  /\ \A s \in FrameSlots : w[s] # 0 => \A n \in 0 .. NativePerPage - 1 : Held(g, "ems", w[s] + n)
  /\ ~e.poisoned => \A s \in FrameSlots : FrameEntry(e, e.frame[s]) /\ w[s] = e.frame[s].page

(* The firmware shadow: an entry is empty or has a page of its own, an alias is *)
(* an active entry's, and nothing is left when the last client has gone.        *)
ShadowLeases(w) == [i \in ShadowSlots |-> w.pages[i].lease]
ShadowBacked(g, p) ==
  IF p.lease = NoLease THEN p = EmptyPage
  ELSE /\ p.state # "EMPTY"
       /\ g.leases[p.lease.slot].first = p.page /\ g.leases[p.lease.slot].count = 1
Aliased(w, t) ==
  \A r \in RomPages : t[r] \in Pages =>
    \E i \in ShadowSlots : w.pages[i].state = "ACTIVE" /\ w.pages[i].rom = r /\ w.pages[i].page = t[r]
ShadowHeld(g, w, t) ==
  /\ w \in ShadowOwner /\ t \in [RomPages -> Pages \cup {Identity, StrayEntry}]
  /\ Book(g, "space", ShadowLeases(w)) /\ (~w.poisoned => Exact(g, "space", ShadowLeases(w)))
  /\ \A i \in ShadowSlots : ShadowBacked(g, w.pages[i])
  /\ Aliased(w, t)
  /\ ~w.poisoned /\ ActiveClients(w) = {} => UsedPages(w) = {}

(* The inductive invariant: the map and the pages it gives, the page owner, and *)
(* what each service holds of it.                                               *)
IndInv ==
  /\ bootMap \in MemoryMaps /\ MapIsValid(bootMap) /\ pm.available = AvailablePages(bootMap)
  /\ PagesHeld(pm) /\ mem \in [Units -> Values] /\ space \in [poisoned : BOOLEAN]
  /\ XmsHeld(pm, xms)
  /\ EmsHeld(pm, ems) /\ FrameHeld(pm, ems, hwFrame)
  /\ ShadowHeld(pm, shadow, pte)

-----------------------------------------------------------------------------
(* Least and greatest elements.                                            *)

(* A set of naturals has a least element. *)
LEMMA Least ==
  ASSUME NEW S \in SUBSET Nat, S # {}
  PROVE  \E i \in S : \A j \in S : i <= j
<1>1. PICK i \in S : \A j \in S : ~(<<j, i>> \in OpToRel(<, Nat))
  BY WFMin, NatLessThanWellFounded
<1>2. ASSUME NEW j \in S
      PROVE  i <= j
  <2>1. i \in Nat /\ j \in Nat
    BY <1>1
  <2>3. ~(j < i)
    BY <1>1, <2>1, Zenon DEF OpToRel
  <2> QED
    BY <2>1, <2>3
<1> QED
  BY <1>1, <1>2

(* Min finds it. *)
LEMMA MinIs ==
  ASSUME NEW S \in SUBSET Nat, S # {}
  PROVE  Min(S) \in S /\ Min(S) \in Nat /\ \A j \in S : Min(S) <= j
<1> QED
  BY Least, Zenon DEF Min

(* A bounded set of naturals has a greatest element, and Max finds it. *)
LEMMA MaxIs ==
  ASSUME NEW S \in SUBSET Nat, S # {}, NEW n \in Nat, \A i \in S : i <= n
  PROVE  Max(S) \in S /\ Max(S) \in Nat /\ \A j \in S : j <= Max(S)
<1> DEFINE T == {k \in 0 .. n : n - k \in S}
<1>1. T \in SUBSET Nat /\ T # {}
  <2>1. PICK i \in S : TRUE
    OBVIOUS
  <2>2. n - i \in T
    BY <2>1
  <2>3. T \subseteq Nat
    OBVIOUS
  <2> QED
    BY <2>2, <2>3
<1>2. PICK k \in T : \A j \in T : k <= j
  BY <1>1, Least
<1>3. n - k \in S /\ \A j \in S : n - k >= j
  BY <1>2
<1> QED
  BY <1>3, Zenon DEF Max

(* A set of naturals that contains 0 and with each number up to n its      *)
(* successor contains 0 .. n.                                              *)
LEMMA UpTo ==
  ASSUME NEW n \in Nat, NEW S, 0 \in S,
         \A k \in 0 .. n : k \in S /\ k < n => k + 1 \in S
  PROVE  0 .. n \subseteq S
<1> DEFINE T == {k \in 0 .. n : k \notin S}
<1> SUFFICES ASSUME T # {} PROVE FALSE
  OBVIOUS
<1>1. PICK k \in T : \A j \in T : k <= j
  <2>1. T \in SUBSET Nat
    OBVIOUS
  <2> QED
    BY <2>1, Least
<1> QED
  BY <1>1

(* A function on a finite set is bounded. *)
LEMMA Bounded ==
  ASSUME NEW S, IsFiniteSet(S), NEW f \in [S -> Nat]
  PROVE  \E n \in Nat : \A x \in S : f[x] <= n
<1> DEFINE B(T) == \E n \in Nat : \A x \in T : f[x] <= n
           K == {k \in Nat : \A T \in SUBSET S : Cardinality(T) = k => B(T)}
<1>1. 0 \in K
  BY FS_Subset, FS_EmptySet
<1>2. ASSUME NEW k \in Nat, k \in K
      PROVE  k + 1 \in K
  <2>1. ASSUME NEW T \in SUBSET S, Cardinality(T) = k + 1
        PROVE  B(T)
    <3>1. IsFiniteSet(T)
      BY FS_Subset
    <3>3. PICK x \in T : TRUE
      BY <2>1, FS_EmptySet
    <3>4. Cardinality(T \ {x}) = k
      <4>1. Cardinality(T \ {x}) = IF x \in T THEN Cardinality(T) - 1 ELSE Cardinality(T)
        BY <3>1, FS_RemoveElement
      <4> QED
        BY <2>1, <3>3, <4>1
    <3>5. PICK n \in Nat : \A y \in T \ {x} : f[y] <= n
      BY <1>2, <3>4
    <3>6. PICK m \in Nat : m >= n /\ m >= f[x]
      BY <3>3
    <3> QED
      BY <3>5, <3>6
  <2> QED
    BY <2>1
<1>3. PICK c \in Nat : c = Cardinality(S)
  BY FS_CardinalityType
<1>4. c \in K
  <2> HIDE DEF K
  <2> QED
    BY <1>1, <1>2, UpTo
<1> QED
  BY <1>3, <1>4

-----------------------------------------------------------------------------
(* Runs of pages.                                                          *)

(* The bounds of what the page map manages. *)
LEMMA Managed ==
  ASSUME NEW g, g.available \in SUBSET Pages, g.available # {}
  PROVE  /\ ManagedFirst(g) \in g.available /\ ManagedFirst(g) \in Nat \ {0}
         /\ ManagedLimit(g) - 1 \in g.available /\ ManagedLimit(g) \in Nat
         /\ ManagedLimit(g) <= LastPage + 1
         /\ \A p \in g.available : ManagedFirst(g) <= p /\ p < ManagedLimit(g)
<1>1. /\ FirstPage \in Nat \ {0} /\ LastPage \in Nat
      /\ g.available \in SUBSET Nat /\ \A p \in g.available : FirstPage <= p /\ p <= LastPage
  BY PagesAssumption DEF Pages
<1>3. /\ Max(g.available) \in g.available /\ Max(g.available) \in Nat
      /\ \A p \in g.available : p <= Max(g.available)
  BY <1>1, MaxIs
<1> QED
  BY <1>1, MinIs, <1>3 DEF ManagedLimit, ManagedFirst

(* How many pages are free. *)
LEMMA FreeCount ==
  ASSUME NEW g, PagesHeld(g)
  PROVE  /\ IsFiniteSet(g.available) /\ IsFiniteSet(g.allocated)
         /\ Cardinality(g.available) \in 0 .. LastPage
         /\ g.allocatedPages \in Nat /\ FreePages(g) \in 0 .. LastPage
<1>2. /\ IsFiniteSet(FirstPage .. LastPage)
      /\ Cardinality(FirstPage .. LastPage) \in 0 .. LastPage
  BY PagesAssumption, FS_Interval, SMTT(40)
<1> QED
  BY <1>2, FS_Subset, FS_CardinalityType, PagesAssumption
  DEF FreePages, PagesHeld, PageManager, Pages

(* What find_free_run returns is free, and inside the managed pages. *)
LEMMA RunFound ==
  ASSUME NEW g, PagesHeld(g), NEW c \in Nat, FindFreeRun(g, c) # NoPage
  PROVE  /\ c # 0 /\ c <= FreePages(g)
         /\ FindFreeRun(g, c) \in FirstPage .. LastPage
         /\ FindFreeRun(g, c) + c <= ManagedLimit(g)
         /\ RunIsFree(g, FindFreeRun(g, c), c)
<1>1. /\ ManagedFirst(g) \in Nat \ {0} /\ ManagedLimit(g) \in Nat
      /\ ManagedLimit(g) <= LastPage + 1 /\ ManagedFirst(g) >= FirstPage
  BY Managed, PagesAssumption DEF PagesHeld, PageManager, Pages
<1> DEFINE first == ManagedFirst(g)
           last == ManagedLimit(g) - c
           start == IF g.hint <= last THEN Max({g.hint, first}) ELSE first
           Fits(from, to) == {p \in from .. to : p <= last /\ RunIsFree(g, p, c)}
           Late == Fits(start, last)
           Early == Fits(first, start - 1)
<1>2. /\ c # 0 /\ c <= FreePages(g) /\ Late \cup Early # {}
      /\ FindFreeRun(g, c) = IF Late # {} THEN Min(Late) ELSE Min(Early)
  BY FreeCount DEF FindFreeRun
<1>3. start \in Nat /\ start >= first
  <2>2. PICK h \in Nat : h = g.hint
    BY PagesAssumption DEF PagesHeld, PageManager, NoPage
  <2>3. PICK f \in Nat : f = first
    BY <1>1
  <2>5. PICK n \in Nat : \A i \in {h, f} : i <= n
    OBVIOUS
  <2>6. Max({h, f}) \in Nat /\ Max({h, f}) >= f
    BY <2>5, MaxIs
  <2> QED
    BY <2>2, <2>3, <2>6
<1>4. \A S \in {Late, Early} : S \in SUBSET Nat /\ \A p \in S : p >= first
  BY <1>1, <1>3
<1>5. PICK S \in {Late, Early} : S # {} /\ FindFreeRun(g, c) = Min(S)
  BY <1>2
<1>6. FindFreeRun(g, c) \in S
  <2> HIDE DEF Late, Early
  <2> QED
    BY <1>4, <1>5, MinIs
<1>7. \A p \in S : p \in Nat /\ p >= first /\ p <= last /\ RunIsFree(g, p, c)
  BY <1>1, <1>3, <1>4
<1>8. PICK p \in Nat : p = FindFreeRun(g, c)
  BY <1>6, <1>7
<1>9. p >= first /\ p <= last /\ RunIsFree(g, p, c)
  <2> HIDE DEF first, last, Late, Early
  <2> QED
    BY <1>6, <1>7, <1>8
<1>10. p >= ManagedFirst(g) /\ p <= ManagedLimit(g) - c
  BY <1>9
<1>11. p \in FirstPage .. LastPage /\ p + c <= ManagedLimit(g)
  <2> HIDE DEF first, last, Late, Early
  <2> QED
    BY <1>1, <1>8, <1>10, <1>2, PagesAssumption
<1> HIDE DEF first, last, Late, Early
<1> QED
  BY <1>2, <1>8, <1>9, <1>11

-----------------------------------------------------------------------------
(* The two calls of the page owner.                                        *)

(* The record of the page owner with one of its parts replaced is one again. *)
LEMMA ManagerFields ==
  ASSUME NEW g \in PageManager
  PROVE  /\ g.available \in SUBSET Pages /\ g.allocated \in SUBSET Pages
         /\ g.leases \in [LeaseSlots -> LeaseSlot] /\ g.allocatedPages \in Nat
         /\ g.hint \in 0 .. NoPage /\ g.poisoned \in BOOLEAN
         /\ g = [available |-> g.available, allocated |-> g.allocated,
                 leases |-> g.leases, allocatedPages |-> g.allocatedPages,
                 hint |-> g.hint, poisoned |-> g.poisoned]
BY DEF PageManager

(* find_lease_slot finds a free slot that can still count. *)
LEMMA SlotFound ==
  ASSUME NEW g \in PageManager
  PROVE  \/ FindLeaseSlot(g) = 0
         \/ /\ FindLeaseSlot(g) \in LeaseSlots
            /\ g.leases[FindLeaseSlot(g)].state = "FREE"
            /\ g.leases[FindLeaseSlot(g)].generation < LeaseGenerationMax
<1>1. CASE UsableSlots(g) = {}
  BY <1>1 DEF FindLeaseSlot
<1>2. CASE UsableSlots(g) # {}
  <2>3. FindLeaseSlot(g) \in UsableSlots(g)
    BY <1>2, MinIs DEF FindLeaseSlot, UsableSlots, LeaseSlots
  <2> QED
    BY <2>3, PagesAssumption DEF UsableSlots, Spent, PageManager, LeaseSlot
<1> QED
  BY <1>1, <1>2

(* The runs are held as long as the live leases are the same. *)
LEMMA RunsKept ==
  ASSUME NEW g, NEW h, RunsHeld(g), h.allocated = g.allocated, SameLive(g, h)
  PROVE  RunsHeld(h)
<1>1. \A s \in LeaseSlots :
        /\ h.leases[s].state = "LIVE" <=> g.leases[s].state = "LIVE"
        /\ g.leases[s].state = "LIVE" => h.leases[s] = g.leases[s]
  BY DEF SameLive, Unmoved
<1>2. ASSUME NEW s \in LeaseSlots, h.leases[s].state = "LIVE"
      PROVE  /\ h.leases[s].generation # 0 /\ h.leases[s].count # 0
             /\ h.leases[s].owner # "nobody" /\ PageRun(h.leases[s]) \subseteq h.allocated
  BY <1>1, <1>2 DEF RunsHeld
<1>3. ASSUME NEW s \in LeaseSlots, NEW t \in LeaseSlots, s # t,
             h.leases[s].state = "LIVE", h.leases[t].state = "LIVE"
      PROVE  PageRun(h.leases[s]) \cap PageRun(h.leases[t]) = {}
  BY <1>1, <1>3 DEF RunsHeld
<1>4. ASSUME NEW p \in h.allocated
      PROVE  \E s \in LeaseSlots : h.leases[s].state = "LIVE" /\ p \in PageRun(h.leases[s])
  BY <1>4, <1>1 DEF RunsHeld
<1> QED
  BY <1>2, <1>3, <1>4 DEF RunsHeld

(* Retiring spent slots touches no live lease and not the slot that was found. *)
LEMMA Retired ==
  ASSUME NEW g, PagesHeld(g), NEW slot \in 0 .. LeaseCount
  PROVE  LET h == RetirePassed(g, slot)
         IN  /\ PagesHeld(h) /\ SameLive(g, h)
             /\ slot # 0 => h.leases[slot] = g.leases[slot]
             /\ h.available = g.available /\ h.allocated = g.allocated
             /\ h.allocatedPages = g.allocatedPages /\ h.hint = g.hint
             /\ h.poisoned = g.poisoned
<1> DEFINE h == RetirePassed(g, slot)
<1>1. g \in PageManager
  BY DEF PagesHeld
<1>2. \A s \in LeaseSlots : g.leases[s] \in LeaseSlot
  BY <1>1, ManagerFields
<1>3. /\ h.available = g.available /\ h.allocated = g.allocated
      /\ h.allocatedPages = g.allocatedPages /\ h.hint = g.hint
      /\ h.poisoned = g.poisoned
      /\ h.leases = [s \in LeaseSlots |->
           IF Spent(g.leases[s]) /\ (slot = 0 \/ s < slot)
           THEN [g.leases[s] EXCEPT !.state = "RETIRED"] ELSE g.leases[s]]
  BY <1>1, ManagerFields DEF RetirePassed
<1>4. h \in PageManager
  <2>2. h = [available |-> h.available, allocated |-> h.allocated,
             leases |-> h.leases, allocatedPages |-> h.allocatedPages,
             hint |-> h.hint, poisoned |-> h.poisoned]
    BY <1>1, <1>3, ManagerFields DEF RetirePassed
  <2> HIDE DEF h
  <2> QED
    BY <1>1, <1>3, <1>2, <2>2, ManagerFields DEF PageManager, LeaseSlot
<1>5. \A s \in LeaseSlots : Unmoved(g, h, s)
  <2> SUFFICES ASSUME NEW s \in LeaseSlots
               PROVE  Unmoved(g, h, s)
    OBVIOUS
  <2>1. h.leases[s] = g.leases[s] \/ (g.leases[s].state = "FREE" /\ h.leases[s].state = "RETIRED")
    <3> HIDE DEF h
    <3> QED
      BY <1>2, <1>3 DEF Spent, LeaseSlot
  <2> HIDE DEF h
  <2> QED
    BY <2>1 DEF Unmoved
<1>6. slot # 0 => h.leases[slot] = g.leases[slot]
  <2> HIDE DEF h
  <2> QED
    BY <1>3, PagesAssumption DEF LeaseSlots
<1>7. PagesHeld(h)
  <2> HIDE DEF h
  <2> QED
    BY <1>3, <1>4, <1>5, RunsKept DEF PagesHeld, SameLive
<1> QED
  BY <1>3, <1>5, <1>6, <1>7 DEF SameLive

(* Zeroing a run of pages writes zeros there and nothing elsewhere. *)
LEMMA ZeroedRun ==
  ASSUME NEW m \in [Units -> Values], NEW first, NEW count
  PROVE  /\ ZeroRun(m, first, count) \in [Units -> Values]
         /\ \A u \in Units : ZeroRun(m, first, count)[u] =
              IF u \div PageUnits \in first .. first + count - 1 THEN 0 ELSE m[u]
BY PagesAssumption DEF ZeroRun

(* A free run is counted once more in what is allocated. *)
LEMMA CountTaken ==
  ASSUME NEW g, PagesHeld(g), NEW p \in Nat, NEW c \in Nat \ {0}, RunIsFree(g, p, c)
  PROVE  /\ p .. p + c - 1 \subseteq g.available
         /\ (p .. p + c - 1) \cap g.allocated = {}
         /\ Cardinality(g.allocated \cup (p .. p + c - 1)) = g.allocatedPages + c
<1> DEFINE R == p .. p + c - 1
<1>1. R \subseteq g.available /\ R \cap g.allocated = {}
  BY DEF RunIsFree, PageFree
<1>2. IsFiniteSet(R) /\ Cardinality(R) = c
  BY FS_Interval
<1>3. IsFiniteSet(g.allocated) /\ g.allocatedPages = Cardinality(g.allocated)
  BY FreeCount DEF PagesHeld
<1>4. Cardinality(g.allocated \cap R) = 0
  BY <1>1, FS_EmptySet
<1> HIDE DEF R
<1>5. Cardinality(g.allocated \cup R) =
        Cardinality(g.allocated) + Cardinality(R) - Cardinality(g.allocated \cap R)
  BY <1>2, <1>3, FS_Union
<1> QED
  BY <1>1, <1>2, <1>3, <1>4, <1>5, FreeCount DEF R

(* Taking a free run for a free slot. *)
LEMMA RunTaken ==
  ASSUME NEW g, PagesHeld(g), NEW m, NEW owner \in PageOwners \ {"nobody"},
         NEW c \in Nat \ {0}, NEW s \in LeaseSlots, NEW p \in Pages,
         g.leases[s].state = "FREE", g.leases[s].generation < LeaseGenerationMax,
         p + c <= ManagedLimit(g), RunIsFree(g, p, c)
  PROVE  LET r == TakeRun(g, m, owner, c, s, p)
         IN  /\ PagesHeld(r.pm) /\ r.pm.available = g.available
             /\ r.pm.poisoned = g.poisoned
             /\ r.page = p /\ Taken(g, r.pm, owner, r.lease, p, c)
<1> DEFINE next == g.leases[s].generation + 1
           lease == [slot |-> s, generation |-> next]
           h == TakeRun(g, m, owner, c, s, p).pm
           new == [generation |-> next, owner |-> owner, first |-> p, count |-> c,
                   state |-> "LIVE"]
<1>1. g \in PageManager
  BY DEF PagesHeld
<1>2. g.leases[s] \in LeaseSlot /\ next \in 1 .. LeaseGenerationMax
  BY <1>1, ManagerFields, PagesAssumption DEF LeaseSlot
<1>3. /\ p \in Nat \ {0} /\ p + c - 1 <= LastPage /\ p + c - 1 >= FirstPage
      /\ FirstPage \in Nat /\ LastPage \in Nat /\ c <= LastPage
      /\ ManagedLimit(g) \in Nat /\ ManagedFirst(g) \in 0 .. LastPage
      /\ ManagedLimit(g) <= LastPage + 1
  BY <1>1, Managed, PagesAssumption DEF PageManager, PagesHeld, Pages
<1>4. new \in LeaseSlot
  BY <1>2, <1>3, PagesAssumption DEF LeaseSlot, Pages
<1>5. /\ h.available = g.available /\ h.poisoned = g.poisoned
      /\ h.allocated = g.allocated \cup (p .. p + c - 1)
      /\ h.leases = [g.leases EXCEPT ![s] = new]
      /\ h.allocatedPages = g.allocatedPages + c /\ h.hint = Hint(g, p + c)
      /\ h = [available |-> h.available, allocated |-> h.allocated,
              leases |-> h.leases, allocatedPages |-> h.allocatedPages,
              hint |-> h.hint, poisoned |-> h.poisoned]
      /\ TakeRun(g, m, owner, c, s, p).page = p
      /\ TakeRun(g, m, owner, c, s, p).lease = lease
  <2>1. h = [g EXCEPT !.allocated = @ \cup (p .. p + c - 1), !.leases[s] = new,
                      !.allocatedPages = @ + c, !.hint = Hint(g, p + c)]
    BY DEF TakeRun, Answer
  <2>2. /\ TakeRun(g, m, owner, c, s, p).page = p
        /\ TakeRun(g, m, owner, c, s, p).lease = lease
    BY DEF TakeRun, Answer
  <2> HIDE DEF h, new, lease
  <2> QED
    BY <2>2, <1>1, <2>1 DEF PageManager
<1>6. /\ p .. p + c - 1 \subseteq g.available
      /\ (p .. p + c - 1) \cap g.allocated = {}
      /\ Cardinality(g.allocated \cup (p .. p + c - 1)) = g.allocatedPages + c
  BY <1>3, CountTaken
<1>7. h.hint \in 0 .. NoPage
  BY <1>3, <1>5 DEF Hint, NoPage
<1>8. /\ h.leases[s] = new
      /\ \A t \in LeaseSlots \ {s} : h.leases[t] = g.leases[t]
  <2> HIDE DEF new, h
  <2> QED
    BY <1>5, <1>1, ManagerFields
<1>9. h \in PageManager
  <2>1. h.leases \in [LeaseSlots -> LeaseSlot]
    <3> HIDE DEF new, h
    <3> QED
      BY <1>1, <1>4, <1>5, ManagerFields
  <2>2. h.allocated \in SUBSET Pages
    <3> HIDE DEF new, h
    <3> QED
      BY <1>1, <1>5, <1>6, ManagerFields
  <2>3. h.allocatedPages \in Nat
    <3> HIDE DEF new, h
    <3> QED
      BY <1>1, <1>5, ManagerFields
  <2> HIDE DEF new, h
  <2> QED
    BY <1>1, <1>5, <1>7, <2>1, <2>2, <2>3, ManagerFields DEF PageManager
<1>10. PageRun(new) = p .. p + c - 1
  BY DEF PageRun
<1>11. RunsHeld(h)
  <2> HIDE DEF h
  <2> USE <1>5, <1>8 DEF PagesHeld
  <2>1. ASSUME NEW t \in LeaseSlots, h.leases[t].state = "LIVE"
        PROVE  /\ h.leases[t].generation # 0 /\ h.leases[t].count # 0
               /\ h.leases[t].owner # "nobody" /\ PageRun(h.leases[t]) \subseteq h.allocated
    <3>1. CASE t = s
      <4>1. new.generation # 0 /\ new.count # 0 /\ new.owner # "nobody"
        BY <1>2
      <4> HIDE DEF new
      <4> QED
        BY <1>10, <3>1, <4>1
    <3>2. CASE t # s
      <4>1. /\ g.leases[t].generation # 0 /\ g.leases[t].count # 0
            /\ g.leases[t].owner # "nobody" /\ PageRun(g.leases[t]) \subseteq g.allocated
        <5> HIDE DEF new
        <5> QED
          BY <2>1, <3>2 DEF RunsHeld
      <4> QED
        BY <3>2, <4>1
    <3> QED
      BY <3>1, <3>2
  <2>2. ASSUME NEW t \in LeaseSlots, NEW v \in LeaseSlots, t # v,
               h.leases[t].state = "LIVE", h.leases[v].state = "LIVE"
        PROVE  PageRun(h.leases[t]) \cap PageRun(h.leases[v]) = {}
    <3> HIDE DEF new
    <3>1. \A k \in LeaseSlots : k # s /\ h.leases[k].state = "LIVE" =>
            h.leases[k] = g.leases[k] /\ PageRun(g.leases[k]) \subseteq g.allocated
      BY DEF RunsHeld
    <3>2. CASE t = s
      BY <1>6, <1>10, <2>2, <3>1, <3>2
    <3>3. CASE v = s
      BY <1>6, <1>10, <2>2, <3>1, <3>3
    <3>4. CASE t # s /\ v # s
      BY <2>2, <3>1, <3>4 DEF RunsHeld
    <3> QED
      BY <3>2, <3>3, <3>4
  <2>3. ASSUME NEW q \in h.allocated
        PROVE  \E t \in LeaseSlots : h.leases[t].state = "LIVE" /\ q \in PageRun(h.leases[t])
    <3>1. CASE q \in p .. p + c - 1
      <4>1. new.state = "LIVE"
        OBVIOUS
      <4> HIDE DEF new
      <4> QED
        BY <1>10, <3>1, <4>1
    <3>2. CASE q \in g.allocated
      <4>1. PICK t \in LeaseSlots : g.leases[t].state = "LIVE" /\ q \in PageRun(g.leases[t])
        BY <3>2 DEF RunsHeld
      <4> HIDE DEF new
      <4> QED
        BY <4>1
    <3> QED
      BY <2>3, <3>1, <3>2
  <2> QED
    BY <2>1, <2>2, <2>3 DEF RunsHeld
<1>12. PagesHeld(h)
  <2> HIDE DEF h
  <2> QED
    BY <1>5, <1>6, <1>9, <1>11 DEF PagesHeld
<1>13. Taken(g, h, owner, lease, p, c)
  <2>1. lease \in Leases /\ lease # NoLease /\ lease.slot = s /\ lease.generation = next
    BY <1>2, PagesAssumption DEF Leases, NoLease, LeaseSlots
  <2>2. Owned(h, owner, lease, p, c)
    <3> HIDE DEF h
    <3> QED
      BY <1>8 DEF Owned
  <2> HIDE DEF h, new, next, lease
  <2> QED
    BY <1>6, <1>8, <2>1, <2>2, <1>3 DEF Taken, Unmoved, Pages
<1> QED
  BY <1>5, <1>12, <1>13

(* What the outcome of one call, and of two calls in a row, leave alone. *)
LEMMA UnmovedChain ==
  ASSUME NEW f, NEW g, NEW h, NEW s, Unmoved(f, g, s), Unmoved(g, h, s)
  PROVE  Unmoved(f, h, s)
BY DEF Unmoved

(* The parts of an answer. *)
LEMMA AnswerParts ==
  ASSUME NEW status, NEW g, NEW m, NEW lease, NEW page
  PROVE  /\ Answer(status, g, m, lease, page).status = status
         /\ Answer(status, g, m, lease, page).pm = g
         /\ Answer(status, g, m, lease, page).mem = m
         /\ Answer(status, g, m, lease, page).lease = lease
         /\ Answer(status, g, m, lease, page).page = page
         /\ Refuse(status, g, m).status = status
         /\ Refuse(status, g, m).pm = g /\ Refuse(status, g, m).mem = m
BY DEF Answer, Refuse

(* Marking the page owner as poisoned changes nothing else. *)
LEMMA PoisonedPages ==
  ASSUME NEW g, PagesHeld(g)
  PROVE  LET h == [g EXCEPT !.poisoned = TRUE]
         IN  /\ PagesHeld(h) /\ SameLive(g, h) /\ h.leases = g.leases
             /\ h.available = g.available /\ h.allocated = g.allocated
<1> DEFINE h == [g EXCEPT !.poisoned = TRUE]
<1> HIDE DEF h
<1> QED
  BY RunsKept DEF h, PagesHeld, SameLive, Unmoved, PageManager

(* x86_guest_memory_allocate takes a free run and a free slot, zeroed, or    *)
(* leaves the leases and every page that is not free alone.                  *)
LEMMA AllocateOutcome ==
  ASSUME NEW g, PagesHeld(g), NEW m \in [Units -> Values],
         NEW owner \in PageOwners \ {"nobody"}, NEW c \in Nat \ {0}, NEW z \in ZeroResults
  PROVE  LET r == Allocate(g, m, owner, c, z)
         IN  /\ PagesHeld(r.pm) /\ r.pm.available = g.available /\ r.mem \in [Units -> Values]
             /\ r.status \in {"OK", "POISONED", "NO_MEMORY", "NO_LEASE", "ZERO_FAILED"}
             /\ r.status = "OK" =>
                  /\ Taken(g, r.pm, owner, r.lease, r.page, c) /\ ~r.pm.poisoned
                  /\ \A u \in Units :
                       u \div PageUnits \in r.page .. r.page + c - 1 => r.mem[u] = 0
             /\ r.status # "OK" => SameLive(g, r.pm)
             /\ \A u \in Units :
                  u \div PageUnits \in g.allocated \/ u \div PageUnits \notin g.available =>
                    r.mem[u] = m[u]
<1> DEFINE r == Allocate(g, m, owner, c, z)
           slot == FindLeaseSlot(g)
           k == RetirePassed(g, slot)
           p == FindFreeRun(g, c)
           Good == /\ PagesHeld(r.pm) /\ r.pm.available = g.available
                   /\ r.mem \in [Units -> Values]
                   /\ r.status \in {"OK", "POISONED", "NO_MEMORY", "NO_LEASE", "ZERO_FAILED"}
                   /\ r.status = "OK" =>
                        /\ Taken(g, r.pm, owner, r.lease, r.page, c) /\ ~r.pm.poisoned
                        /\ \A u \in Units :
                             u \div PageUnits \in r.page .. r.page + c - 1 => r.mem[u] = 0
                   /\ r.status # "OK" => SameLive(g, r.pm)
                   /\ \A u \in Units :
                        u \div PageUnits \in g.allocated \/ u \div PageUnits \notin g.available =>
                          r.mem[u] = m[u]
<1> SUFFICES Good
  OBVIOUS
<1>1. g \in PageManager /\ SameLive(g, g)
  BY DEF PagesHeld, SameLive, Unmoved
<1>2. CASE g.poisoned \/ c > FreePages(g)
  <2>1. \E status \in {"POISONED", "NO_MEMORY"} : r = Refuse(status, g, m)
    BY <1>2 DEF Allocate
  <2> HIDE DEF r
  <2> QED
    BY <1>1, <2>1, AnswerParts
<1>3. CASE ~(g.poisoned \/ c > FreePages(g))
  <2>1. r = AllocateRun(k, m, owner, c, slot, p, z)
    BY <1>3 DEF Allocate
  <2>2. /\ slot \in 0 .. LeaseCount
        /\ slot # 0 => /\ slot \in LeaseSlots /\ g.leases[slot].state = "FREE"
                       /\ g.leases[slot].generation < LeaseGenerationMax
    BY <1>1, SlotFound, PagesAssumption DEF LeaseSlots
  <2>3. /\ PagesHeld(k) /\ SameLive(g, k)
        /\ slot # 0 => k.leases[slot] = g.leases[slot]
        /\ k.available = g.available /\ k.allocated = g.allocated /\ ~k.poisoned
    <3> HIDE DEF slot
    <3> QED
      BY <1>3, <2>2, Retired
  <2>4. p # NoPage => /\ p \in Pages /\ p + c <= ManagedLimit(g) /\ RunIsFree(g, p, c)
    BY RunFound DEF Pages
  <2> HIDE DEF r, slot, k, p
  <2>5. /\ ManagedLimit(k) = ManagedLimit(g)
        /\ RunIsFree(k, p, c) <=> RunIsFree(g, p, c)
    BY <2>3 DEF ManagedLimit, RunIsFree, PageFree
  <2>6. p # NoPage => \A u \in Units :
          u \div PageUnits \in g.allocated \/ u \div PageUnits \notin g.available =>
            u \div PageUnits \notin p .. p + c - 1
    BY <2>4 DEF RunIsFree, PageFree
  <2>7. CASE slot = 0 \/ p = NoPage
    BY <2>1, <2>7, <2>3, AnswerParts DEF AllocateRun
  <2>8. CASE slot # 0 /\ p # NoPage /\ z = "FAILED"
    BY <2>1, <2>8, <2>3, AnswerParts DEF AllocateRun
  <2>9. CASE slot # 0 /\ p # NoPage /\ z = "UNCERTAIN"
    <3>2. PICK h : h = [k EXCEPT !.poisoned = TRUE]
      OBVIOUS
    <3>5. r.status = "POISONED" /\ r.pm = h /\ r.mem = ZeroRun(m, p, c)
      BY <2>1, <2>9, <3>2, AnswerParts DEF AllocateRun
    <3> QED
      BY <2>6, <2>9, <2>3, <3>2, PoisonedPages, UnmovedChain, <3>5, ZeroedRun
      DEF SameLive
  <2>10. CASE slot # 0 /\ p # NoPage /\ z \notin {"FAILED", "UNCERTAIN"}
    <3>1. r = TakeRun(k, m, owner, c, slot, p)
      BY <2>1, <2>10 DEF AllocateRun
    <3>2. /\ PagesHeld(r.pm) /\ r.pm.available = k.available /\ r.pm.poisoned = k.poisoned
          /\ r.page = p /\ Taken(k, r.pm, owner, r.lease, p, c)
      BY <2>2, <2>3, <2>4, <2>5, <2>10, <3>1, RunTaken
    <3> QED
      BY <2>3, <2>6, <2>10, <3>2, <3>1, UnmovedChain, <2>2, ZeroedRun
      DEF SameLive, Taken, TakeRun, Answer
  <2> QED
    BY <2>7, <2>8, <2>9, <2>10
<1> QED
  BY <1>2, <1>3

(* Giving the run of a live slot back. *)
LEMMA RunGiven ==
  ASSUME NEW g, PagesHeld(g), NEW m, NEW s \in LeaseSlots, g.leases[s].state = "LIVE"
  PROVE  LET h == ReleaseSlot(g, m, s).pm
         IN  /\ PagesHeld(h) /\ h.available = g.available /\ h.poisoned = g.poisoned
             /\ h.leases[s].state # "LIVE"
             /\ \A t \in LeaseSlots \ {s} : h.leases[t] = g.leases[t]
<1> DEFINE h == ReleaseSlot(g, m, s).pm
           old == g.leases[s]
           new == FreeSlot(old.generation)
<1>1. g \in PageManager
  BY DEF PagesHeld
<1>2. old \in LeaseSlot /\ new \in LeaseSlot /\ new.state = "FREE"
  BY <1>1, ManagerFields, PagesAssumption DEF LeaseSlot, FreeSlot, PageOwners
<1>3. /\ old.first \in 0 .. LastPage /\ old.count \in Nat \ {0}
      /\ PageRun(old) = old.first .. old.first + old.count - 1
      /\ PageRun(old) \subseteq g.allocated
  BY <1>2, PagesAssumption DEF PagesHeld, RunsHeld, LeaseSlot, PageRun
<1>4. /\ h.available = g.available /\ h.poisoned = g.poisoned
      /\ h.allocated = g.allocated \ PageRun(old)
      /\ h.leases = [g.leases EXCEPT ![s] = new]
      /\ h.allocatedPages = g.allocatedPages - old.count
      /\ h.hint = Min({g.hint, old.first})
      /\ h \in [available : {h.available}, allocated : {h.allocated}, leases : {h.leases},
                allocatedPages : {h.allocatedPages}, hint : {h.hint}, poisoned : {h.poisoned}]
  <2>1. h = [g EXCEPT !.allocated = @ \ PageRun(old), !.leases[s] = new,
                      !.allocatedPages = @ - old.count, !.hint = Min({@, old.first})]
    BY DEF ReleaseSlot, Answer
  <2> HIDE DEF h, new, old
  <2> QED
    BY <1>1, <2>1 DEF PageManager
<1>5. /\ h.leases[s] = new
      /\ \A t \in LeaseSlots \ {s} : h.leases[t] = g.leases[t]
  <2> HIDE DEF new, h
  <2> QED
    BY <1>4, <1>1, ManagerFields
<1> HIDE DEF h, new, old
<1>6. h.allocatedPages = Cardinality(h.allocated) /\ h.allocatedPages \in Nat
  <2>1. IsFiniteSet(g.allocated) /\ g.allocatedPages = Cardinality(g.allocated)
    BY FreeCount DEF PagesHeld
  <2>2. IsFiniteSet(PageRun(old)) /\ Cardinality(PageRun(old)) = old.count
    <3>1. PICK a \in Nat : a = old.first
      BY <1>3
    <3>2. PICK c \in Nat \ {0} : c = old.count
      BY <1>3
    <3>4. IsFiniteSet(a .. a + c - 1) /\ Cardinality(a .. a + c - 1) = (a + c - 1) - a + 1
      BY FS_Interval
    <3> QED
      BY <1>3, <3>1, <3>2, <3>4
  <2>4. /\ IsFiniteSet(g.allocated \ PageRun(old))
        /\ Cardinality(g.allocated \ PageRun(old)) =
             Cardinality(g.allocated) - Cardinality(g.allocated \cap PageRun(old))
    BY <2>1, FS_Difference
  <2>6. Cardinality(h.allocated) = g.allocatedPages - old.count
    BY <1>4, <2>1, <2>2, <1>3, <2>4
  <2> QED
    BY <1>4, <2>4, FS_CardinalityType, <2>6
<1>7. h.hint \in 0 .. NoPage
  <2>1. g.hint \in 0 .. NoPage /\ NoPage \in Nat /\ old.first \in 0 .. NoPage
    BY <1>1, <1>3, ManagerFields, PagesAssumption DEF NoPage
  <2> QED
    BY <1>4, <2>1, MinIs
<1>9. RunsHeld(h)
  <2>1. \A t \in LeaseSlots : h.leases[t].state = "LIVE" => t # s /\ h.leases[t] = g.leases[t]
    BY <1>2, <1>5
  <2>2. ASSUME NEW t \in LeaseSlots, h.leases[t].state = "LIVE"
        PROVE  /\ h.leases[t].generation # 0 /\ h.leases[t].count # 0
               /\ h.leases[t].owner # "nobody" /\ PageRun(h.leases[t]) \subseteq h.allocated
    BY <2>1, <2>2, <1>4 DEF PagesHeld, RunsHeld, old
  <2>3. ASSUME NEW t \in LeaseSlots, NEW v \in LeaseSlots, t # v,
               h.leases[t].state = "LIVE", h.leases[v].state = "LIVE"
        PROVE  PageRun(h.leases[t]) \cap PageRun(h.leases[v]) = {}
    BY <2>1, <2>3 DEF PagesHeld, RunsHeld
  <2>4. ASSUME NEW q \in h.allocated
        PROVE  \E t \in LeaseSlots : h.leases[t].state = "LIVE" /\ q \in PageRun(h.leases[t])
    BY <1>4, <2>4, <1>5 DEF PagesHeld, RunsHeld, old
  <2> QED
    BY <2>2, <2>3, <2>4 DEF RunsHeld
<1> QED
  BY <1>2, <1>4, <1>5, <1>6, <1>1, ManagerFields, <1>7, <1>9
  DEF h, PagesHeld, PageManager

(* Between m and n only the units of a run of pages changed. *)
SameOutside(m, n, page, count) ==
  \A u \in Units : u \div PageUnits \notin page .. page + count - 1 => n[u] = m[u]

(* x86_guest_memory_release, for a lease that its caller owns: it is given    *)
(* back, zeroed, or everything stays as it was but for the poison.           *)
LEMMA ReleaseOutcome ==
  ASSUME NEW g, PagesHeld(g), NEW m \in [Units -> Values], NEW owner,
         NEW lease \in Leases, lease # NoLease, NEW page, NEW count,
         Owned(g, owner, lease, page, count), NEW z \in ZeroResults
  PROVE  LET r == Release(g, m, owner, lease, z)
         IN  /\ PagesHeld(r.pm) /\ r.pm.available = g.available /\ r.mem \in [Units -> Values]
             /\ r.status \in {"OK", "POISONED", "ZERO_FAILED"}
             /\ r.status = "OK" => Given(g, r.pm, lease) /\ ~g.poisoned
             /\ r.status # "OK" => SameLive(g, r.pm) /\ r.mem = m
             /\ r.status = "POISONED" => r.pm.poisoned
             /\ g.poisoned => r.status = "POISONED"
             /\ SameOutside(m, r.mem, page, count)
<1> DEFINE r == Release(g, m, owner, lease, z)
           slot == g.leases[lease.slot]
           Good == /\ PagesHeld(r.pm) /\ r.pm.available = g.available
                   /\ r.mem \in [Units -> Values]
                   /\ r.status \in {"OK", "POISONED", "ZERO_FAILED"}
                   /\ r.status = "OK" => Given(g, r.pm, lease) /\ ~g.poisoned
                   /\ r.status # "OK" => SameLive(g, r.pm) /\ r.mem = m
                   /\ r.status = "POISONED" => r.pm.poisoned
                   /\ g.poisoned => r.status = "POISONED"
                   /\ SameOutside(m, r.mem, page, count)
<1> SUFFICES Good
  OBVIOUS
<1>1. /\ g \in PageManager /\ SameLive(g, g) /\ g.poisoned \in BOOLEAN
      /\ SameOutside(m, m, page, count)
  BY DEF PagesHeld, SameLive, Unmoved, PageManager, SameOutside
<1>2. /\ lease.slot \in LeaseSlots /\ slot.state = "LIVE" /\ slot.owner = owner
      /\ slot.generation = lease.generation /\ slot.first = page /\ slot.count = count
  BY DEF Owned
<1>3. LeaseIsLive(g, lease) /\ PageRun(slot) \subseteq g.allocated
  BY <1>2 DEF LeaseIsLive, PagesHeld, RunsHeld
<1>4. CASE g.poisoned
  <2>1. r = Refuse("POISONED", g, m)
    BY <1>4 DEF Release
  <2> HIDE DEF r
  <2> QED
    BY <1>1, <1>4, <2>1, AnswerParts
<1>5. CASE ~g.poisoned /\ z = "UNCERTAIN"
  <2>1. r = Refuse("POISONED", [g EXCEPT !.poisoned = TRUE], m)
    BY <1>2, <1>3, <1>5 DEF Release
  <2>2. PICK h : h = [g EXCEPT !.poisoned = TRUE]
    OBVIOUS
  <2> HIDE DEF r
  <2>5. r.status = "POISONED" /\ r.pm = h /\ r.mem = m
    BY <2>1, <2>2, AnswerParts
  <2> QED
    BY <1>1, <1>5, <2>2, PoisonedPages, <2>5 DEF PageManager
<1>6. CASE ~g.poisoned /\ z = "FAILED"
  <2>1. r = Refuse("ZERO_FAILED", g, m)
    BY <1>2, <1>3, <1>6 DEF Release
  <2> HIDE DEF r
  <2> QED
    BY <1>1, <1>6, <2>1, AnswerParts
<1>7. CASE ~g.poisoned /\ z \notin {"UNCERTAIN", "FAILED"}
  <2>1. r = ReleaseSlot(g, m, lease.slot)
    BY <1>2, <1>3, <1>7 DEF Release
  <2> HIDE DEF r
  <2>3. /\ PagesHeld(r.pm) /\ r.pm.available = g.available
        /\ r.pm.leases[lease.slot].state # "LIVE"
        /\ \A t \in LeaseSlots \ {lease.slot} : r.pm.leases[t] = g.leases[t]
    BY <1>2, <2>1, RunGiven
  <2> QED
    BY <1>7, <1>2, <2>1, <2>3, ZeroedRun
    DEF SameOutside, ReleaseSlot, Answer, Given, Unmoved
<1> QED
  BY <1>1, <1>4, <1>5, <1>6, <1>7, PagesAssumption

-----------------------------------------------------------------------------
(* Tables of leases.                                                       *)

(* A call that leaves the live leases alone is foreign to every owner. *)
LEMMA ForeignSame ==
  ASSUME NEW g, NEW h, SameLive(g, h), NEW o
  PROVE  Foreign(g, h, o)
BY DEF SameLive, Unmoved, Foreign, LiveOf

(* A lease taken for one owner is foreign to every other. *)
LEMMA ForeignTaken ==
  ASSUME NEW g, NEW h, NEW o, NEW lease, NEW page, NEW c, Taken(g, h, o, lease, page, c),
         NEW q, q # o
  PROVE  Foreign(g, h, q)
BY DEF Taken, Owned, Unmoved, Foreign, LiveOf

(* So is a lease that one owner gives back. *)
LEMMA ForeignGiven ==
  ASSUME NEW g, NEW h, NEW o, NEW lease, lease.slot \in LiveOf(g, o), Given(g, h, lease),
         NEW q, q # o
  PROVE  Foreign(g, h, q)
BY DEF Given, Unmoved, Foreign, LiveOf

(* Two foreign calls in a row. *)
LEMMA ForeignChain ==
  ASSUME NEW f, NEW g, NEW h, NEW o, Foreign(f, g, o), Foreign(g, h, o)
  PROVE  Foreign(f, h, o)
<1> SUFFICES ASSUME NEW s \in LeaseSlots, s \in LiveOf(f, o) \cup LiveOf(h, o)
             PROVE  h.leases[s] = f.leases[s]
  BY DEF Foreign
<1>1. CASE s \in LiveOf(f, o)
  BY <1>1 DEF Foreign, LiveOf
<1>2. CASE s \in LiveOf(h, o)
  BY <1>2 DEF Foreign, LiveOf
<1> QED
  BY <1>1, <1>2

(* A table whose leases are still there is still a table of them. *)
LEMMA BookKept ==
  ASSUME NEW g, NEW h, NEW o, NEW I, NEW L \in [I -> Leases], Book(g, o, L),
         \A i \in I : L[i] # NoLease => h.leases[L[i].slot] = g.leases[L[i].slot]
  PROVE  Book(h, o, L)
BY DEF Book, LiveOf, NameOf

(* A foreign call leaves a table as it was, and as exact. *)
LEMMA BookForeign ==
  ASSUME NEW g, NEW h, NEW o, NEW I, NEW L \in [I -> Leases], Book(g, o, L),
         Foreign(g, h, o)
  PROVE  /\ Book(h, o, L) /\ (Exact(g, o, L) => Exact(h, o, L))
         /\ \A i \in I : L[i] # NoLease => h.leases[L[i].slot] = g.leases[L[i].slot]
<1>1. \A i \in I : L[i] # NoLease => h.leases[L[i].slot] = g.leases[L[i].slot]
  BY DEF Book, Foreign, LiveOf
<1>3. Exact(g, o, L) => Exact(h, o, L)
  BY Zenon DEF Exact, Foreign, LiveOf, NameOf
<1> QED
  BY <1>1, <1>3, BookKept

(* Two tables that differ in entry i only. *)
Differ(I, L, K, i) ==
  /\ L \in [I -> Leases] /\ K \in [I -> Leases] /\ i \in I
  /\ \A j \in I \ {i} : K[j] = L[j]

(* The entries but i have kept their leases, and the table is one of h. *)
Rebooked(g, h, o, I, L, K, i) ==
  /\ Book(h, o, K) /\ (Exact(g, o, L) => Exact(h, o, K))
  /\ \A j \in I \ {i} : L[j] # NoLease => h.leases[L[j].slot] = g.leases[L[j].slot]

(* A new lease in a free entry. *)
LEMMA BookTaken ==
  ASSUME NEW g, NEW h, NEW o, NEW I, NEW L, NEW K, NEW i, Differ(I, L, K, i), Book(g, o, L),
         L[i] = NoLease, NEW page, NEW c, Taken(g, h, o, K[i], page, c)
  PROVE  Rebooked(g, h, o, I, L, K, i)
<1> USE DEF Differ
<1> DEFINE lease == K[i]
<1>3. lease.slot \in LiveOf(h, o) /\ lease = NameOf(h, lease.slot)
  BY DEF Taken, Owned, LiveOf, NameOf, Leases
<1>5. ASSUME Exact(g, o, L)
      PROVE  Exact(h, o, K)
  <2> SUFFICES ASSUME NEW s \in LiveOf(h, o)
               PROVE  \E j \in I : K[j] = NameOf(h, s)
    BY DEF Exact
  <2>1. CASE s = lease.slot
    BY <1>3, <2>1
  <2>2. CASE s # lease.slot
    BY <2>2, <1>5, PagesAssumption
    DEF Taken, Unmoved, LiveOf, NameOf, Exact, NoLease, LeaseSlots
  <2> QED
    BY <2>1, <2>2
<1> QED
  BY <1>3, <1>5 DEF Rebooked, NameOf, Taken, Book, Unmoved, LiveOf

(* An entry whose lease was given back. *)
LEMMA BookGiven ==
  ASSUME NEW g, NEW h, NEW o, NEW I, NEW L, NEW K, NEW i, Differ(I, L, K, i), Book(g, o, L),
         L[i] # NoLease, Given(g, h, L[i]), K[i] = NoLease
  PROVE  Rebooked(g, h, o, I, L, K, i)
<1> USE DEF Differ
<1>1. \A j \in I : L[j] # NoLease => L[j].slot \in LiveOf(g, o) /\ L[j] = NameOf(g, L[j].slot)
  BY DEF Book
<1>2. \A j \in I \ {i} : L[j] # NoLease => L[j].slot # L[i].slot
  <2> SUFFICES ASSUME NEW j \in I \ {i}, L[j] # NoLease, L[j].slot = L[i].slot
               PROVE  FALSE
    OBVIOUS
  <2> QED
    BY <1>1 DEF Book
<1>5. ASSUME Exact(g, o, L)
      PROVE  Exact(h, o, K)
  <2> SUFFICES ASSUME NEW s \in LiveOf(h, o)
               PROVE  \E j \in I : K[j] = NameOf(h, s)
    BY DEF Exact
  <2>1. s # L[i].slot
    BY DEF Given, LiveOf
  <2>2. s \in LiveOf(g, o) /\ NameOf(h, s) = NameOf(g, s)
    BY <2>1 DEF Given, Unmoved, LiveOf, NameOf
  <2>3. PICK j \in I : L[j] = NameOf(g, s)
    BY <1>5, <2>2 DEF Exact
  <2> QED
    BY <2>2, <2>3, <2>1 DEF NameOf
<1> QED
  BY <1>1, <1>2, <1>5 DEF Rebooked, Book, NameOf, Given, Unmoved, LiveOf

(* An entry that moved to a new lease and gave its old one back. *)
LEMMA BookMoved ==
  ASSUME NEW g, NEW f, NEW h, NEW o, NEW I, NEW L, NEW K, NEW i, Differ(I, L, K, i),
         Book(g, o, L), L[i] # NoLease, Given(f, h, L[i]), NEW page, NEW c, Taken(g, f, o, K[i], page, c)
  PROVE  Rebooked(g, h, o, I, L, K, i)
<1> USE DEF Differ
<1> DEFINE lease == K[i]
<1>1. \A j \in I : L[j] # NoLease =>
        /\ L[j].slot \in LiveOf(g, o) /\ L[j] = NameOf(g, L[j].slot)
        /\ L[j].slot # lease.slot
        /\ L[j].slot \in LiveOf(f, o) /\ f.leases[L[j].slot] = g.leases[L[j].slot]
  BY DEF Book, Taken, Unmoved, LiveOf
<1>2. \A j \in I \ {i} : L[j] # NoLease => L[j].slot # L[i].slot
  <2> SUFFICES ASSUME NEW j \in I \ {i}, L[j] # NoLease, L[j].slot = L[i].slot
               PROVE  FALSE
    OBVIOUS
  <2> QED
    BY <1>1 DEF Book
<1>5. /\ lease.slot \in LiveOf(h, o) /\ lease = NameOf(h, lease.slot)
      /\ h.leases[lease.slot] = f.leases[lease.slot]
  BY <1>1 DEF Given, Unmoved, LiveOf, NameOf, Taken, Owned, Leases
<1>7. ASSUME Exact(g, o, L)
      PROVE  Exact(h, o, K)
  <2> SUFFICES ASSUME NEW s \in LiveOf(h, o)
               PROVE  \E j \in I : K[j] = NameOf(h, s)
    BY DEF Exact
  <2>1. CASE s = lease.slot
    BY <1>5, <2>1
  <2>2. CASE s # lease.slot
    BY <2>2, <1>7 DEF Given, LiveOf, Unmoved, Taken, NameOf, Exact
  <2> QED
    BY <2>1, <2>2
<1> QED
  BY <1>1, <1>2, <1>5, <1>7 DEF Rebooked, NameOf, Book, Given, Unmoved, LiveOf

(* A lease taken and, if it can be, given back again. *)
LEMMA TakenBack ==
  ASSUME NEW g, NEW f, NEW h, NEW o, NEW lease, NEW page, NEW c,
         Taken(g, f, o, lease, page, c), Given(f, h, lease)
  PROVE  SameLive(g, h)
<1> SUFFICES ASSUME NEW s \in LeaseSlots
             PROVE  Unmoved(g, h, s)
  BY DEF SameLive
<1>1. CASE s = lease.slot
  BY <1>1 DEF Taken, Given, Unmoved
<1>2. CASE s # lease.slot
  BY <1>2, UnmovedChain DEF Taken, Given
<1> QED
  BY <1>1, <1>2

-----------------------------------------------------------------------------
(* XMS.                                                                    *)

(* The pages for a size hold it. *)
LEMMA PagesForSize ==
  ASSUME NEW size \in Nat \ {0}
  PROVE  /\ PagesFor(size) \in Nat \ {0}
         /\ PagesFor(size) * PageUnits \in Nat /\ size <= PagesFor(size) * PageUnits
BY PagesAssumption DEF PagesFor, PageUp

(* The leases of the handles are leases. *)
LEMMA XmsTable ==
  ASSUME NEW x \in XmsManagerState
  PROVE  /\ XmsLeases(x) \in [XmsHandles -> Leases]
         /\ \A h \in XmsHandles : x.handles[h] \in XmsBlock /\ XmsLeases(x)[h] = x.handles[h].lease
         /\ x.poisoned \in BOOLEAN
BY DEF XmsManagerState, XmsLeases, XmsBlock

(* What other services do, and giving up, leaves the handles as they are. *)
LEMMA XmsKept ==
  ASSUME NEW g, NEW h, NEW x, NEW y \in XmsManagerState, XmsHeld(g, x),
         Foreign(g, h, "xms"), y.handles = x.handles, ~y.poisoned => ~x.poisoned
  PROVE  XmsHeld(h, y)
<1> QED
  BY XmsTable, BookForeign DEF XmsHeld, XmsBacked, XmsLeases

(* A block in a handle. *)
PutBlock(x, y, k, b) == y = [x EXCEPT !.handles[k] = b]

(* The other handles are the same. *)
LEMMA XmsPut ==
  ASSUME NEW x \in XmsManagerState, NEW k \in XmsHandles, NEW b \in XmsBlock,
         NEW y, PutBlock(x, y, k, b)
  PROVE  /\ y \in XmsManagerState /\ y.poisoned = x.poisoned
         /\ y.handles[k] = b /\ \A j \in XmsHandles \ {k} : y.handles[j] = x.handles[j]
         /\ XmsLeases(y)[k] = b.lease
         /\ \A j \in XmsHandles \ {k} : XmsLeases(y)[j] = XmsLeases(x)[j]
<1> QED
  BY DEF XmsLeases, XmsManagerState, PutBlock

(* A handle takes a block. *)
LEMMA XmsTaken ==
  ASSUME NEW g, NEW h, NEW x, XmsHeld(g, x), NEW b \in XmsBlock, NEW c,
         Taken(g, h, "xms", b.lease, b.page, c), b.capacity = c * PageUnits,
         b.size \in 1 .. b.capacity,
         NEW k \in XmsHandles, x.handles[k].lease = NoLease
  PROVE  XmsHeld(h, [x EXCEPT !.handles[k] = b])
<1>1. PICK y : PutBlock(x, y, k, b)
  BY DEF PutBlock
<1>2. x \in XmsManagerState
  BY DEF XmsHeld
<1>3. /\ y \in XmsManagerState /\ y.poisoned = x.poisoned
      /\ y.handles[k] = b /\ \A j \in XmsHandles \ {k} : y.handles[j] = x.handles[j]
      /\ XmsLeases(y)[k] = b.lease
      /\ \A j \in XmsHandles \ {k} : XmsLeases(y)[j] = XmsLeases(x)[j]
  BY <1>1, <1>2, XmsPut
<1>4. /\ Book(h, "xms", XmsLeases(y))
      /\ Exact(g, "xms", XmsLeases(x)) => Exact(h, "xms", XmsLeases(y))
      /\ \A j \in XmsHandles \ {k} : XmsLeases(x)[j] # NoLease =>
           h.leases[XmsLeases(x)[j].slot] = g.leases[XmsLeases(x)[j].slot]
  <2>2. Rebooked(g, h, "xms", XmsHandles, XmsLeases(x), XmsLeases(y), k)
    BY <1>2, <1>3, XmsTable, BookTaken DEF XmsHeld, Differ
  <2> QED
    BY <2>2 DEF Rebooked
<1>5. ASSUME NEW j \in XmsHandles
      PROVE  XmsBacked(h, y.handles[j])
  <2>1. CASE j = k
    BY <1>3, <2>1 DEF XmsBacked, Taken, Owned
  <2>2. CASE j # k
    <3>1. y.handles[j] = x.handles[j] /\ XmsBacked(g, x.handles[j])
      BY <1>3, <2>2 DEF XmsHeld
    <3> QED
      BY <3>1, <1>2, <1>4, <2>2, XmsTable DEF XmsBacked
  <2> QED
    BY <2>1, <2>2
<1> QED
  BY <1>1, <1>3, <1>4, <1>5 DEF XmsHeld, PutBlock

(* A handle gives its block back. *)
LEMMA XmsGiven ==
  ASSUME NEW g, NEW h, NEW x, XmsHeld(g, x), NEW k \in XmsHandles,
         x.handles[k].lease # NoLease, Given(g, h, x.handles[k].lease)
  PROVE  XmsHeld(h, [x EXCEPT !.handles[k] = NoBlock])
<1>1. PICK y : PutBlock(x, y, k, NoBlock)
  BY DEF PutBlock
<1>2. x \in XmsManagerState
  BY DEF XmsHeld
<1>3. NoBlock \in XmsBlock /\ NoBlock.lease = NoLease
  BY PagesAssumption, XmsAssumption DEF NoBlock, XmsBlock, NoLease, Leases
<1>4. /\ y \in XmsManagerState /\ y.poisoned = x.poisoned
      /\ y.handles[k] = NoBlock /\ \A j \in XmsHandles \ {k} : y.handles[j] = x.handles[j]
      /\ XmsLeases(y)[k] = NoLease
      /\ \A j \in XmsHandles \ {k} : XmsLeases(y)[j] = XmsLeases(x)[j]
  BY <1>1, <1>2, <1>3, XmsPut
<1>5. /\ Book(h, "xms", XmsLeases(y))
      /\ Exact(g, "xms", XmsLeases(x)) => Exact(h, "xms", XmsLeases(y))
      /\ \A j \in XmsHandles \ {k} : XmsLeases(x)[j] # NoLease =>
           h.leases[XmsLeases(x)[j].slot] = g.leases[XmsLeases(x)[j].slot]
  <2>2. Rebooked(g, h, "xms", XmsHandles, XmsLeases(x), XmsLeases(y), k)
    BY <1>4, <1>2, XmsTable, BookGiven DEF XmsHeld, Differ
  <2> QED
    BY <2>2 DEF Rebooked
<1>6. ASSUME NEW j \in XmsHandles
      PROVE  XmsBacked(h, y.handles[j])
  <2>1. CASE j = k
    BY <1>3, <1>4, <2>1 DEF XmsBacked
  <2>2. CASE j # k
    <3>1. y.handles[j] = x.handles[j] /\ XmsBacked(g, x.handles[j])
      BY <1>4, <2>2 DEF XmsHeld
    <3> QED
      BY <3>1, <1>2, <1>5, <2>2, XmsTable DEF XmsBacked
  <2> QED
    BY <2>1, <2>2
<1> QED
  BY <1>1, <1>4, <1>5, <1>6 DEF XmsHeld, PutBlock

(* A handle moves to a larger block. *)
LEMMA XmsMoved ==
  ASSUME NEW g, NEW f, NEW h, NEW x, XmsHeld(g, x), NEW b \in XmsBlock, NEW c,
         Taken(g, f, "xms", b.lease, b.page, c), b.capacity = c * PageUnits,
         b.size \in 1 .. b.capacity, NEW k \in XmsHandles,
         x.handles[k].lease # NoLease, Given(f, h, x.handles[k].lease)
  PROVE  XmsHeld(h, [x EXCEPT !.handles[k] = b])
<1>1. PICK y : PutBlock(x, y, k, b)
  BY DEF PutBlock
<1>2. x \in XmsManagerState
  BY DEF XmsHeld
<1>3. /\ y \in XmsManagerState /\ y.poisoned = x.poisoned
      /\ y.handles[k] = b /\ \A j \in XmsHandles \ {k} : y.handles[j] = x.handles[j]
      /\ XmsLeases(y)[k] = b.lease
      /\ \A j \in XmsHandles \ {k} : XmsLeases(y)[j] = XmsLeases(x)[j]
  BY <1>1, <1>2, XmsPut
<1>4. /\ Book(h, "xms", XmsLeases(y))
      /\ Exact(g, "xms", XmsLeases(x)) => Exact(h, "xms", XmsLeases(y))
      /\ h.leases[XmsLeases(y)[k].slot] = f.leases[XmsLeases(y)[k].slot]
      /\ \A j \in XmsHandles \ {k} : XmsLeases(x)[j] # NoLease =>
           h.leases[XmsLeases(x)[j].slot] = g.leases[XmsLeases(x)[j].slot]
  <2>1. /\ Differ(XmsHandles, XmsLeases(x), XmsLeases(y), k)
        /\ XmsLeases(x)[k] # NoLease /\ Given(f, h, XmsLeases(x)[k])
        /\ Book(g, "xms", XmsLeases(x))
        /\ Taken(g, f, "xms", XmsLeases(y)[k], b.page, c)
    BY <1>2, <1>3, XmsTable DEF XmsHeld, Differ
  <2>2. Rebooked(g, h, "xms", XmsHandles, XmsLeases(x), XmsLeases(y), k)
    BY <2>1, BookMoved
  <2> QED
    BY <2>2, <2>1 DEF Rebooked, Book, Taken, Owned, LiveOf, Differ, Given, Unmoved
<1>5. ASSUME NEW j \in XmsHandles
      PROVE  XmsBacked(h, y.handles[j])
  <2>1. CASE j = k
    BY <1>3, <1>4, <2>1 DEF XmsBacked, Taken, Owned
  <2>2. CASE j # k
    <3>1. y.handles[j] = x.handles[j] /\ XmsBacked(g, x.handles[j])
      BY <1>3, <2>2 DEF XmsHeld
    <3> QED
      BY <3>1, <1>2, <1>4, <2>2, XmsTable DEF XmsBacked
  <2> QED
    BY <2>1, <2>2
<1> QED
  BY <1>1, <1>3, <1>4, <1>5 DEF XmsHeld, PutBlock

-----------------------------------------------------------------------------
(* Moving units.                                                           *)

(* What has been written after n units of a move. *)
Window(to, length, backward, n) ==
  IF backward THEN to + length - n .. to + length - 1 ELSE to .. to + n - 1
MovedTo(m, from, to, length, backward, n) ==
  [u \in Units |-> IF u \in Window(to, length, backward, n) THEN m[from + (u - to)] ELSE m[u]]

(* The direction of a move is the one that reads every unit before it is written. *)
Clear(from, to, length, backward) ==
  IF backward THEN to > from ELSE to <= from \/ to >= from + length

(* The recursion of CopyUnits. *)
Copying(m, from, to, length, backward, n, a) ==
  a = [i \in 0 .. n |->
         IF i = 0 THEN m
         ELSE [a[i - 1] EXCEPT ![to + (IF backward THEN length - i ELSE i - 1)] =
                 a[i - 1][from + (IF backward THEN length - i ELSE i - 1)]]]

(* One more unit. *)
LEMMA MovedUnit ==
  ASSUME NEW m \in [Units -> Values], NEW from \in Nat, NEW to \in Nat, NEW length \in Nat,
         NEW backward \in BOOLEAN, Clear(from, to, length, backward),
         from + length <= (LastPage + 1) * PageUnits, to + length <= (LastPage + 1) * PageUnits,
         NEW i \in 1 .. length, NEW at, at = IF backward THEN length - i ELSE i - 1
  PROVE  [MovedTo(m, from, to, length, backward, i - 1) EXCEPT ![to + at] =
            MovedTo(m, from, to, length, backward, i - 1)[from + at]]
         = MovedTo(m, from, to, length, backward, i)
<1>1. PICK top \in Nat : top = (LastPage + 1) * PageUnits /\ Units = 0 .. top - 1
  BY PagesAssumption DEF Units
<1>2. at \in 0 .. length - 1 /\ to + at \in Units /\ from + at \in Units
  BY <1>1
<1> DEFINE A == MovedTo(m, from, to, length, backward, i - 1)
           B == MovedTo(m, from, to, length, backward, i)
           W == Window(to, length, backward, i - 1)
<1>5. \A u \in Units : u \in Window(to, length, backward, i) <=> u \in W \/ u = to + at
  BY <1>1, <1>2 DEF Window
<1>6. \A u \in Units : B[u] = IF u = to + at THEN m[from + at] ELSE A[u]
  <2> SUFFICES ASSUME NEW u \in Units
               PROVE  B[u] = IF u = to + at THEN m[from + at] ELSE A[u]
    OBVIOUS
  <2> QED
    BY <1>5, <1>2 DEF MovedTo
<1> HIDE DEF A, B
<1> QED
  BY <1>2, <1>6 DEF A, B, MovedTo, Window, Clear

(* A move of n units in a clear direction copies what the source held when it *)
(* began, overlap or not.                                                     *)
LEMMA CopyIs ==
  ASSUME NEW m \in [Units -> Values], NEW from \in Nat, NEW to \in Nat, NEW length \in Nat,
         NEW backward \in BOOLEAN, Clear(from, to, length, backward),
         from + length <= (LastPage + 1) * PageUnits, to + length <= (LastPage + 1) * PageUnits,
         NEW n \in 0 .. length
  PROVE  /\ CopyUnits(m, from, to, length, backward, n) = MovedTo(m, from, to, length, backward, n)
         /\ CopyUnits(m, from, to, length, backward, n) \in [Units -> Values]
<1> DEFINE M(i) == MovedTo(m, from, to, length, backward, i)
           at(i) == IF backward THEN length - i ELSE i - 1
<1>1. M(0) = m
  BY DEF Window, MovedTo
<1>2. \A i \in 1 .. length : [M(i - 1) EXCEPT ![to + at(i)] = M(i - 1)[from + at(i)]] = M(i)
  BY MovedUnit
<1> HIDE DEF M
<1>3. PICK a : a = [i \in 0 .. n |-> M(i)]
  OBVIOUS
<1>4. Copying(m, from, to, length, backward, n, a)
  BY <1>1, <1>3, <1>2 DEF Copying
<1>5. PICK c : c = CHOOSE x : Copying(m, from, to, length, backward, n, x)
  OBVIOUS
<1>6. Copying(m, from, to, length, backward, n, c)
  BY <1>4, <1>5
<1>8. \A i \in 0 .. n : c[i] = IF i = 0 THEN m
                        ELSE [c[i - 1] EXCEPT ![to + at(i)] = c[i - 1][from + at(i)]]
  BY <1>6 DEF Copying
<1>9. c[n] = M(n)
  <2> DEFINE S == {i \in 0 .. n : c[i] = M(i)}
  <2>1. 0 \in S
    <3>1. 0 \in 0 .. n
      OBVIOUS
    <3> QED
      BY <1>1, <3>1, <1>8, Zenon
  <2>2. ASSUME NEW i \in 0 .. n, i \in S, i < n
        PROVE  i + 1 \in S
    <3>1. i + 1 \in 0 .. n /\ i + 1 \in 1 .. length /\ (i + 1) - 1 = i /\ i + 1 # 0
      BY <2>2
    <3>3. [M(i) EXCEPT ![to + at(i + 1)] = M(i)[from + at(i + 1)]] = M(i + 1)
      BY <1>2, <3>1
    <3> QED
      BY <2>2, <3>1, <1>8, <3>3
  <2> HIDE DEF S
  <2>3. 0 .. n \subseteq S
    BY <2>1, <2>2, UpTo
  <2> QED
    BY <2>3 DEF S
<1>10. M(n) \in [Units -> Values]
  BY PagesAssumption DEF Units, Window, M, MovedTo
<1> QED
  BY <1>5, <1>9, <1>10 DEF M, CopyUnits, Copying

-----------------------------------------------------------------------------
(* The calls of XMS.                                                       *)

(* A call of owner's service left the page owner in order and touched no other *)
(* service's leases.                                                          *)
Served(g, h, n, owner) ==
  /\ PagesHeld(h) /\ h.available = g.available /\ n \in [Units -> Values]
  /\ \A q \in PageOwners \ {owner} : Foreign(g, h, q)

(* Allocations, releases and calls that leave the leases alone are served. *)
LEMMA ServedTaken ==
  ASSUME NEW g, NEW h, NEW n \in [Units -> Values], NEW o, NEW l, NEW p, NEW c,
         Taken(g, h, o, l, p, c), PagesHeld(h), h.available = g.available
  PROVE  Served(g, h, n, o)
BY ForeignTaken DEF Served

(* A release. *)
LEMMA ServedGiven ==
  ASSUME NEW g, NEW h, NEW n \in [Units -> Values], NEW o, NEW l, l.slot \in LiveOf(g, o),
         Given(g, h, l), PagesHeld(h), h.available = g.available
  PROVE  Served(g, h, n, o)
<1>1. ASSUME NEW q \in PageOwners \ {o}
      PROVE  Foreign(g, h, q)
  BY DEF Given, Unmoved, Foreign, LiveOf
<1> QED
  BY <1>1 DEF Served

(* A refusal. *)
LEMMA ServedSame ==
  ASSUME NEW g, NEW h, NEW n \in [Units -> Values], NEW o,
         SameLive(g, h), PagesHeld(h), h.available = g.available
  PROVE  Served(g, h, n, o)
BY ForeignSame DEF Served

(* Two calls in a row. *)
LEMMA ServedChain ==
  ASSUME NEW f, NEW g, NEW h, NEW m, NEW n, NEW o, Served(f, g, m, o), Served(g, h, n, o)
  PROVE  Served(f, h, n, o)
BY ForeignChain DEF Served

(* The lease of an allocated handle is the handle's own. *)
LEMMA XmsOwned ==
  ASSUME NEW g, PagesHeld(g), NEW x, XmsHeld(g, x), NEW k \in XmsHandles,
         x.handles[k].lease # NoLease
  PROVE  LET b == x.handles[k]
             c == g.leases[b.lease.slot].count
         IN  /\ b \in XmsBlock /\ b.lease \in Leases /\ b.lease.slot \in LiveOf(g, "xms")
             /\ Owned(g, "xms", b.lease, b.page, c) /\ c \in Nat \ {0}
             /\ b.capacity = c * PageUnits /\ b.size \in 1 .. b.capacity
             /\ b.page \in Pages /\ b.page + c - 1 \in Pages
             /\ PageRun(g.leases[b.lease.slot]) = b.page .. b.page + c - 1
<1> DEFINE b == x.handles[k]
           s == g.leases[b.lease.slot]
<1>1. /\ b \in XmsBlock /\ b.lease \in Leases /\ b.lease = XmsLeases(x)[k]
      /\ XmsLeases(x) \in [XmsHandles -> Leases]
  BY XmsTable DEF XmsHeld, XmsBlock
<1>4. s.first = b.page /\ b.capacity = s.count * PageUnits /\ b.size \in 1 .. b.capacity
  BY <1>1 DEF XmsHeld, XmsBacked
<1> HIDE DEF b, s
<1> QED
  BY <1>1, <1>4, PagesAssumption
  DEF b, s, PageRun, XmsBlock, PagesHeld, RunsHeld, PageManager, LeaseSlot, Owned,
      NameOf, LiveOf, XmsHeld, Book

(* The addresses of a run are memory. *)
LEMMA RunUnits ==
  ASSUME NEW p \in Pages, NEW c \in Nat \ {0}, p + c - 1 \in Pages, NEW size \in Nat,
         size <= c * PageUnits
  PROVE  /\ p * PageUnits \in Nat /\ p * PageUnits + size <= (LastPage + 1) * PageUnits
         /\ p * PageUnits >= FirstPage * PageUnits
         /\ \A i \in 0 .. size - 1 : /\ p * PageUnits + i \in Units
                                     /\ (p * PageUnits + i) \div PageUnits \in p .. p + c - 1
<1>1. /\ p \in Nat /\ p + c <= LastPage + 1 /\ p >= FirstPage /\ LastPage \in Nat
      /\ PageUnits \in Nat \ {0} /\ FirstPage \in Nat
  BY PagesAssumption DEF Pages
<1>2. p * PageUnits \in Nat /\ (p + c) * PageUnits <= (LastPage + 1) * PageUnits
  BY <1>1
<1>3. (p + c) * PageUnits = p * PageUnits + c * PageUnits
  BY <1>1
<1>4. c * PageUnits \in Nat /\ (LastPage + 1) * PageUnits \in Nat
  BY <1>1
<1>5. p * PageUnits + size <= (LastPage + 1) * PageUnits
  BY <1>2, <1>3, <1>4
<1>7. ASSUME NEW i \in 0 .. size - 1
      PROVE  /\ p * PageUnits + i \in Units
             /\ (p * PageUnits + i) \div PageUnits \in p .. p + c - 1
  BY <1>1, <1>2, <1>3, <1>4, <1>5 DEF Units
<1> QED
  BY <1>2, <1>5, <1>1, <1>7

(* memory_fault changes nothing but the poison. *)
LEMMA Faulted ==
  ASSUME NEW x \in XmsManagerState, NEW status
  PROVE  /\ MemoryFault(x, status) \in XmsManagerState
         /\ MemoryFault(x, status).handles = x.handles
         /\ ~MemoryFault(x, status).poisoned => ~x.poisoned
BY DEF MemoryFault, XmsManagerState

(* The block of a new lease. *)
LEMMA NewBlock ==
  ASSUME NEW g, NEW r, NEW size \in Nat \ {0},
         Taken(g, r.pm, "xms", r.lease, r.page, PagesFor(size))
  PROVE  LET b == BlockOf(r, size)
         IN  /\ b \in XmsBlock /\ b.lease = r.lease /\ b.page = r.page /\ b.size = size
             /\ b.capacity = PagesFor(size) * PageUnits /\ b.size \in 1 .. b.capacity
<1> QED
  BY PagesAssumption, XmsAssumption, PagesForSize DEF BlockOf, XmsBlock, Taken, Pages

(* XMS_FUNCTION_ALLOCATE *)
LEMMA XmsAllocateHeld ==
  ASSUME PagesHeld(pm), mem \in [Units -> Values], XmsHeld(pm, xms),
         NEW size \in XmsSizes, NEW z \in ZeroResults, XmsAllocate(size, z)
  PROVE  Served(pm, pm', mem', "xms") /\ XmsHeld(pm', xms')
<1>1. PICK r : r = AllocateMemory(pm, mem, size, z)
  OBVIOUS
<1>2. PICK k : k = Min(FreeHandles)
  OBVIOUS
<1>3. /\ pm' = r.pm /\ mem' = r.mem /\ FreeHandles # {}
      /\ xms' = IF r.status = "OK" THEN [xms EXCEPT !.handles[k] = BlockOf(r, size)]
                                   ELSE MemoryFault(xms, r.status)
  BY <1>1, <1>2 DEF XmsAllocate, XmsAllocateAnswer
<1>4. size \in Nat \ {0} /\ PagesFor(size) \in Nat \ {0}
  BY PagesForSize, XmsAssumption
<1>5. k \in XmsHandles /\ xms.handles[k].lease = NoLease
  <2>1. FreeHandles \in SUBSET Nat
    BY DEF FreeHandles, XmsHandles
  <2>2. k \in FreeHandles
    BY <1>2, <1>3, <2>1, MinIs
  <2> QED
    BY <2>2 DEF FreeHandles, HandleIsAllocated
<1>6. /\ PagesHeld(r.pm) /\ r.pm.available = pm.available /\ r.mem \in [Units -> Values]
      /\ r.status = "OK" => Taken(pm, r.pm, "xms", r.lease, r.page, PagesFor(size))
      /\ r.status # "OK" => SameLive(pm, r.pm)
  <2>1. "xms" \in PageOwners \ {"nobody"}
    BY DEF PageOwners
  <2> QED
    BY <1>1, <1>4, <2>1, AllocateOutcome DEF AllocateMemory
<1>7. CASE r.status = "OK"
  <2>1. PICK b : b = BlockOf(r, size)
    OBVIOUS
  <2>2. /\ b \in XmsBlock /\ b.lease = r.lease /\ b.page = r.page
        /\ b.capacity = PagesFor(size) * PageUnits /\ b.size \in 1 .. b.capacity
    BY <1>4, <1>6, <1>7, <2>1, NewBlock
  <2>3. Taken(pm, r.pm, "xms", b.lease, b.page, PagesFor(size))
    BY <1>6, <1>7, <2>2
  <2>4. XmsHeld(r.pm, [xms EXCEPT !.handles[k] = b])
    BY <1>5, <2>2, <2>3, XmsTaken
  <2>5. Served(pm, r.pm, r.mem, "xms")
    BY <1>6, <2>3, ServedTaken
  <2> QED
    BY <1>3, <1>7, <2>1, <2>4, <2>5
<1>8. CASE r.status # "OK"
  <2>1. SameLive(pm, r.pm) /\ Foreign(pm, r.pm, "xms")
    BY <1>6, <1>8, ForeignSame
  <2>2. xms \in XmsManagerState /\ xms' = MemoryFault(xms, r.status)
    BY <1>3, <1>8 DEF XmsHeld
  <2>3. /\ xms' \in XmsManagerState /\ xms'.handles = xms.handles
        /\ ~xms'.poisoned => ~xms.poisoned
    BY <2>2, Faulted
  <2>4. XmsHeld(r.pm, xms')
    BY <2>1, <2>3, XmsKept
  <2>5. Served(pm, r.pm, r.mem, "xms")
    BY <1>6, <2>1, ServedSame
  <2> QED
    BY <1>3, <2>4, <2>5
<1> QED
  BY <1>7, <1>8

(* XMS_FUNCTION_FREE *)
LEMMA XmsFreeHeld ==
  ASSUME PagesHeld(pm), mem \in [Units -> Values], XmsHeld(pm, xms),
         NEW k \in XmsHandles, NEW z \in ZeroResults, XmsFree(k, z)
  PROVE  Served(pm, pm', mem', "xms") /\ XmsHeld(pm', xms')
<1>1. PICK l : l = xms.handles[k].lease
  OBVIOUS
<1>2. PICK r : r = ReleaseMemory(pm, mem, l, z)
  OBVIOUS
<1>3. /\ pm' = r.pm /\ mem' = r.mem /\ l # NoLease
      /\ xms' = IF r.status = "OK" THEN [xms EXCEPT !.handles[k] = NoBlock]
                                   ELSE MemoryFault(xms, r.status)
  BY <1>1, <1>2 DEF XmsFree, XmsFreeAnswer, HandleIsAllocated
<1>4. PICK p, c : Owned(pm, "xms", l, p, c) /\ l.slot \in LiveOf(pm, "xms") /\ l \in Leases
  BY <1>1, <1>3, XmsOwned
<1>5. /\ PagesHeld(r.pm) /\ r.pm.available = pm.available /\ r.mem \in [Units -> Values]
      /\ r.status = "OK" => Given(pm, r.pm, l)
      /\ r.status # "OK" => SameLive(pm, r.pm)
  BY <1>2, <1>3, <1>4, ReleaseOutcome DEF ReleaseMemory
<1>6. CASE r.status = "OK"
  BY <1>1, <1>3, <1>5, <1>6, XmsGiven, <1>4, ServedGiven
<1>7. CASE r.status # "OK"
  BY <1>5, <1>7, ForeignSame, <1>3, Faulted, XmsKept, ServedSame DEF XmsHeld
<1> QED
  BY <1>6, <1>7

(* A taken lease stays taken while the live leases stay the same. *)
LEMMA TakenSame ==
  ASSUME NEW g, NEW f, NEW h, NEW o, NEW l, NEW p, NEW c, Taken(g, f, o, l, p, c),
         SameLive(f, h)
  PROVE  Taken(g, h, o, l, p, c)
<1> QED
  BY UnmovedChain DEF Taken, Owned, SameLive, Unmoved

(* A service that lost track of a lease keeps the ones that it knows. *)
LEMMA XmsLoose ==
  ASSUME NEW g, NEW h, NEW x, NEW y \in XmsManagerState, XmsHeld(g, x),
         NEW l, NEW p, NEW c, Taken(g, h, "xms", l, p, c), y.handles = x.handles, y.poisoned
  PROVE  XmsHeld(h, y)
<1>1. XmsLeases(y) = XmsLeases(x) /\ x \in XmsManagerState
  BY DEF XmsLeases, XmsHeld
<1>2. /\ XmsLeases(x) \in [XmsHandles -> Leases] /\ Book(g, "xms", XmsLeases(x))
      /\ \A k \in XmsHandles : XmsLeases(x)[k] = x.handles[k].lease
  BY <1>1, XmsTable DEF XmsHeld
<1>3. \A k \in XmsHandles : XmsLeases(x)[k] # NoLease =>
        h.leases[XmsLeases(x)[k].slot] = g.leases[XmsLeases(x)[k].slot]
  BY <1>2 DEF Book, Taken, Unmoved, LiveOf
<1> QED
  BY <1>1, <1>2, <1>3, BookKept DEF XmsHeld, XmsBacked

(* Growing a block, once its new run is taken: the old lease is still the      *)
(* handle's, the copy reads and writes memory of the two runs only, and the   *)
(* mapping the copy goes through is there.                                    *)
LEMMA GrownBlock ==
  ASSUME PagesHeld(pm), XmsHeld(pm, xms), NEW k \in XmsHandles,
         xms.handles[k].lease # NoLease, NEW g, PagesHeld(g), ~g.poisoned,
         NEW l, NEW p, NEW c \in Nat \ {0}, Taken(pm, g, "xms", l, p, c),
         NEW m \in [Units -> Values], xms.handles[k].size <= c * PageUnits
  PROVE  LET b == xms.handles[k]
             n == pm.leases[b.lease.slot].count
         IN  /\ Owned(g, "xms", b.lease, b.page, n)
             /\ b.lease.slot \in LiveOf(g, "xms")
             /\ (b.page .. b.page + n - 1) \cap (p .. p + c - 1) = {}
             /\ MappingStatus(g, b.lease, 0, b.size) = "OK"
             /\ CopyBlock(m, b.page, p, b.size) \in [Units -> Values]
             /\ CopyBlock(m, b.page, p, b.size) =
                  MovedTo(m, b.page * PageUnits, p * PageUnits, b.size, FALSE, b.size)
<1> DEFINE b == xms.handles[k]
           n == pm.leases[b.lease.slot].count
<1>1. /\ b \in XmsBlock /\ b.lease \in Leases /\ b.lease.slot \in LiveOf(pm, "xms")
      /\ Owned(pm, "xms", b.lease, b.page, n) /\ n \in Nat \ {0}
      /\ b.capacity = n * PageUnits /\ b.size \in 1 .. b.capacity
      /\ b.page \in Pages /\ b.page + n - 1 \in Pages
      /\ PageRun(pm.leases[b.lease.slot]) = b.page .. b.page + n - 1
  BY XmsOwned
<1> HIDE DEF b, n
<1>2. /\ b.lease.slot \in LeaseSlots /\ pm.leases[b.lease.slot].state = "LIVE"
      /\ b.lease.slot # l.slot /\ g.leases[b.lease.slot] = pm.leases[b.lease.slot]
  BY <1>1 DEF Taken, Unmoved, LiveOf
<1>3. Owned(g, "xms", b.lease, b.page, n) /\ b.lease.slot \in LiveOf(g, "xms")
  BY <1>1, <1>2 DEF Owned, LiveOf
<1>4. (b.page .. b.page + n - 1) \cap (p .. p + c - 1) = {}
  <2>1. b.page .. b.page + n - 1 \subseteq pm.allocated
    BY <1>1, <1>2 DEF PagesHeld, RunsHeld
  <2> QED
    BY <2>1 DEF Taken
<1>5. n * PageUnits \in Nat /\ b.size \in Nat /\ b.size <= n * PageUnits
  BY <1>1, PagesAssumption
<1>6. MappingStatus(g, b.lease, 0, b.size) = "OK"
  <2>1. LeaseIsLive(g, b.lease)
    BY <1>2, <1>3 DEF LeaseIsLive, Owned, b
  <2>2. Inspect(g, b.lease).status = "OK" /\ Inspect(g, b.lease).slot = g.leases[b.lease.slot]
    BY <2>1 DEF Inspect
  <2>3. g.leases[b.lease.slot].owner = "xms" /\ g.leases[b.lease.slot].count = n
    BY <1>3 DEF Owned
  <2>4. 0 + b.size <= n * PageUnits
    BY <1>5
  <2> QED
    BY <2>2, <2>3, <2>4 DEF MappingStatus
<1>7. /\ CopyBlock(m, b.page, p, b.size) \in [Units -> Values]
      /\ CopyBlock(m, b.page, p, b.size) =
           MovedTo(m, b.page * PageUnits, p * PageUnits, b.size, FALSE, b.size)
  <2>1. p \in Pages /\ p + c - 1 \in Pages
    BY DEF Taken
  <2>2. /\ b.page * PageUnits \in Nat
        /\ b.page * PageUnits + b.size <= (LastPage + 1) * PageUnits
    BY <1>1, <1>5, RunUnits
  <2>3. /\ p * PageUnits \in Nat /\ p * PageUnits + b.size <= (LastPage + 1) * PageUnits
    <3>1. b.size <= c * PageUnits
      BY DEF b
    <3> QED
      BY <1>5, <2>1, <3>1, RunUnits
  <2>4. Clear(b.page * PageUnits, p * PageUnits, b.size, FALSE)
    <3>1. p + c <= b.page \/ b.page + n <= p
      <4>1. b.page \in Nat /\ p \in Nat
        BY <1>1, <2>1, PagesAssumption DEF Pages
      <4>2. PICK a \in Nat : a = b.page
        BY <4>1
      <4>3. PICK d \in Nat \ {0} : d = n
        BY <1>1
      <4>4. ~(p \in a .. a + d - 1) /\ ~(a \in p .. p + c - 1)
        BY <1>4, <4>1, <4>2, <4>3
      <4>5. p + c <= a \/ a + d <= p
        BY <4>1, <4>4
      <4> QED
        BY <4>2, <4>3, <4>5
    <3>2. b.page \in Nat /\ p \in Nat /\ PageUnits \in Nat \ {0}
      BY <1>1, <2>1, PagesAssumption DEF Pages
    <3>3. CASE p + c <= b.page
      <4>1. p <= b.page
        BY <3>2, <3>3
      <4>2. p * PageUnits <= b.page * PageUnits
        BY <3>2, <4>1
      <4> QED
        BY <4>2 DEF Clear
    <3>4. CASE b.page + n <= p
      <4>1. (b.page + n) * PageUnits <= p * PageUnits
        BY <1>1, <3>2, <3>4
      <4>2. b.page * PageUnits + n * PageUnits = (b.page + n) * PageUnits
        BY <1>1, <3>2
      <4>3. b.page * PageUnits + b.size <= p * PageUnits
        BY <1>5, <2>2, <2>3, <4>1, <4>2
      <4> QED
        BY <4>3 DEF Clear
    <3> QED
      BY <3>1, <3>3, <3>4
  <2>5. b.size \in 0 .. b.size /\ FALSE \in BOOLEAN
    BY <1>5
  <2> QED
    <3>1. /\ CopyUnits(m, b.page * PageUnits, p * PageUnits, b.size, FALSE, b.size) =
               MovedTo(m, b.page * PageUnits, p * PageUnits, b.size, FALSE, b.size)
          /\ CopyUnits(m, b.page * PageUnits, p * PageUnits, b.size, FALSE, b.size)
               \in [Units -> Values]
      BY <1>5, <2>2, <2>3, <2>4, <2>5, CopyIs, Zenon
    <3> QED
      BY <3>1 DEF CopyBlock
<1> QED
  BY <1>3, <1>4, <1>6, <1>7 DEF b, n

(* A call that was refused, or that only gave the driver up. *)
LEMMA XmsRefused ==
  ASSUME PagesHeld(pm), XmsHeld(pm, xms), NEW g, NEW m \in [Units -> Values],
         PagesHeld(g), g.available = pm.available, SameLive(pm, g),
         NEW y \in XmsManagerState, y.handles = xms.handles, ~y.poisoned => ~xms.poisoned
  PROVE  Served(pm, g, m, "xms") /\ XmsHeld(g, y)
<1> QED
  BY ForeignSame, XmsKept, ServedSame

(* XMS_FUNCTION_REALLOCATE: whichever of its three calls of the page owner    *)
(* fails, the handle keeps its block or has its new one, and the driver that  *)
(* could not give a run back has given up.                                    *)
LEMMA XmsGrowHeld ==
  ASSUME PagesHeld(pm), mem \in [Units -> Values], XmsHeld(pm, xms),
         NEW k \in XmsHandles, NEW size \in XmsSizes, NEW z1 \in ZeroResults,
         NEW z2 \in ZeroResults, NEW z3 \in ZeroResults, XmsGrow(k, size, z1, z2, z3)
  PROVE  Served(pm, pm', mem', "xms") /\ XmsHeld(pm', xms')
<1>1. PICK a : a = AllocateMemory(pm, mem, size, z1)
  OBVIOUS
<1>2. PICK b : b = xms.handles[k]
  OBVIOUS
<1>3. PICK c : c = PagesFor(size)
  OBVIOUS
<1>4. /\ ~xms.poisoned /\ b.lease # NoLease /\ size > b.capacity /\ xms \in XmsManagerState
      /\ a.status # "OK" => pm' = a.pm /\ mem' = a.mem /\ xms' = MemoryFault(xms, a.status)
      /\ a.status = "OK" =>
           GrowFrom(k, size, a, MappingStatus(a.pm, b.lease, 0, b.size), z2, z3)
  BY <1>1, <1>2 DEF XmsGrow, HandleIsAllocated, XmsHeld
<1>5. size \in Nat \ {0} /\ c \in Nat \ {0} /\ size <= c * PageUnits /\ c * PageUnits \in Nat
  BY <1>3, PagesForSize, XmsAssumption
<1>6. /\ PagesHeld(a.pm) /\ a.pm.available = pm.available /\ a.mem \in [Units -> Values]
      /\ a.status = "OK" => Taken(pm, a.pm, "xms", a.lease, a.page, c) /\ ~a.pm.poisoned
      /\ a.status # "OK" => SameLive(pm, a.pm)
  BY <1>1, <1>3, <1>5, AllocateOutcome DEF PageOwners, AllocateMemory
<1>7. CASE a.status # "OK"
  BY <1>4, <1>7, Faulted, <1>6, XmsRefused
<1>8. CASE a.status = "OK"
  <2>1. Taken(pm, a.pm, "xms", a.lease, a.page, c) /\ ~a.pm.poisoned
    BY <1>6, <1>8
  <2>2. b.size <= c * PageUnits
    BY <1>2, <1>4, XmsOwned, <1>5 DEF XmsBlock
  <2>3. PICK data : data = CopyBlock(a.mem, b.page, a.page, b.size)
    OBVIOUS
  <2>4. PICK n : /\ Owned(a.pm, "xms", b.lease, b.page, n)
                 /\ b.lease.slot \in LiveOf(a.pm, "xms")
                 /\ MappingStatus(a.pm, b.lease, 0, b.size) = "OK"
                 /\ data \in [Units -> Values]
    BY <1>2, <1>4, <1>5, <1>6, <2>1, <2>2, <2>3, GrownBlock
  <2>6. PICK old : old = ReleaseMemory(a.pm, data, b.lease, z2)
    OBVIOUS
  <2>7. PICK back : back = ReleaseMemory(old.pm, old.mem, a.lease, z3)
    OBVIOUS
  <2>8. /\ old.status = "OK" => /\ xms' = [xms EXCEPT !.handles[k] = BlockOf(a, size)]
                                /\ pm' = old.pm /\ mem' = old.mem
        /\ old.status # "OK" =>
             /\ xms' = [xms EXCEPT !.poisoned =
                          back.status # "OK" \/ XmsStatus(old.status) = "UNCERTAIN"]
             /\ pm' = back.pm /\ mem' = back.mem
    BY <1>2, <1>4, <1>8, <2>3, <2>4, <2>6, <2>7 DEF GrowFrom, SettleGrown
  <2>9. /\ PagesHeld(old.pm) /\ old.pm.available = pm.available /\ old.mem \in [Units -> Values]
        /\ old.status = "OK" => Given(a.pm, old.pm, b.lease)
        /\ old.status # "OK" => SameLive(a.pm, old.pm)
    BY <1>4, <1>6, <2>4, <1>2, XmsOwned, <2>6, ReleaseOutcome DEF ReleaseMemory
  <2>10. Served(pm, a.pm, a.mem, "xms")
    BY <1>6, <2>1, ServedTaken
  <2>11. CASE old.status = "OK"
    <3>1. PICK new : new = BlockOf(a, size)
      OBVIOUS
    <3>2. /\ new \in XmsBlock /\ new.lease = a.lease /\ new.page = a.page
          /\ new.capacity = c * PageUnits /\ new.size \in 1 .. new.capacity
      BY <1>3, <1>5, <2>1, <3>1, NewBlock
    <3>4. XmsHeld(old.pm, [xms EXCEPT !.handles[k] = new])
      BY <1>2, <1>4, <3>2, <2>1, <2>9, <2>11, XmsMoved
    <3> QED
      BY <2>8, <2>11, <3>1, <3>4, <2>10, <1>6, <2>4, <2>9, ServedGiven, ServedChain
  <2>12. CASE old.status # "OK"
    <3>1. Taken(pm, old.pm, "xms", a.lease, a.page, c)
      BY <2>1, <2>9, <2>12, TakenSame
    <3>3. /\ PagesHeld(back.pm) /\ back.pm.available = pm.available
          /\ back.mem \in [Units -> Values]
          /\ back.status = "OK" => Given(old.pm, back.pm, a.lease)
          /\ back.status # "OK" => SameLive(old.pm, back.pm)
      BY <2>7, <2>9, <3>1, ReleaseOutcome DEF ReleaseMemory, Taken
    <3>4. /\ xms' \in XmsManagerState /\ xms'.handles = xms.handles
          /\ back.status # "OK" => xms'.poisoned
      BY <1>4, <2>8, <2>12 DEF XmsManagerState
    <3>5. CASE back.status = "OK"
      BY <3>1, <3>3, <3>5, TakenBack, <1>4, <3>4, XmsRefused, <2>8, <2>12
    <3>6. CASE back.status # "OK"
      BY <3>1, <3>3, <3>6, TakenSame, <3>4, XmsLoose, ServedTaken, <2>8, <2>12
    <3> QED
      BY <3>5, <3>6
  <2> QED
    BY <2>11, <2>12
<1> QED
  BY <1>7, <1>8

(* The largest size that is asked for. *)
LEMMA LargestSize == Max(XmsSizes) \in Nat
<1>1. XmsSizes \in SUBSET Nat /\ XmsSizes # {} /\ IsFiniteSet(XmsSizes)
  BY XmsAssumption
<1>2. PICK f : f = [x \in XmsSizes |-> x]
  OBVIOUS
<1>4. PICK n \in Nat : \A x \in XmsSizes : f[x] <= n
  BY <1>1, <1>2, Bounded
<1> QED
  BY <1>1, <1>2, <1>4, MaxIs

(* Runs of two leases have no page in common. *)
LEMMA RunsApart ==
  ASSUME NEW p \in Nat, NEW q \in Nat, NEW c \in Nat \ {0}, NEW d \in Nat \ {0},
         (p .. p + c - 1) \cap (q .. q + d - 1) = {}
  PROVE  p + c <= q \/ q + d <= p
<1> QED
  OBVIOUS

(* Two handles have different pages. *)
LEMMA BlocksApart ==
  ASSUME NEW g, PagesHeld(g), NEW x, XmsHeld(g, x), NEW j \in XmsHandles, NEW k \in XmsHandles,
         j # k, x.handles[j].lease # NoLease, x.handles[k].lease # NoLease
  PROVE  LET c == g.leases[x.handles[j].lease.slot].count
             d == g.leases[x.handles[k].lease.slot].count
         IN  \/ x.handles[j].page + c <= x.handles[k].page
             \/ x.handles[k].page + d <= x.handles[j].page
<1> DEFINE a == x.handles[j]
           b == x.handles[k]
           c == g.leases[a.lease.slot].count
           d == g.leases[b.lease.slot].count
<1>1. /\ a.lease.slot \in LiveOf(g, "xms") /\ c \in Nat \ {0} /\ a.page \in Pages
      /\ PageRun(g.leases[a.lease.slot]) = a.page .. a.page + c - 1
  BY XmsOwned, SMTT(40)
<1>2. /\ b.lease.slot \in LiveOf(g, "xms") /\ d \in Nat \ {0} /\ b.page \in Pages
      /\ PageRun(g.leases[b.lease.slot]) = b.page .. b.page + d - 1
  BY XmsOwned
<1>3. a.lease.slot # b.lease.slot
  BY XmsTable DEF XmsHeld, Book
<1> HIDE DEF a, b, c, d
<1>5. a.page \in Nat /\ b.page \in Nat
  BY <1>1, <1>2, PagesAssumption DEF Pages
<1> QED
  BY <1>1, <1>2, <1>3, <1>5, RunsApart DEF a, b, c, d, LiveOf, PagesHeld, RunsHeld

(* decode_endpoint: where a source or a target is. *)
LEMMA Endpoint ==
  ASSUME PagesHeld(pm), XmsHeld(pm, xms), NEW s \in {0} \cup XmsHandles,
         NEW offset \in Nat, NEW length \in Nat, EndpointFits(s, offset, length)
  PROVE  LET u == EndpointUnit(s, offset)
             b == xms.handles[s]
             c == pm.leases[b.lease.slot].count
         IN  /\ u \in Nat /\ u + length <= (LastPage + 1) * PageUnits
             /\ s = 0 => u = offset /\ u + length <= FirstPage * PageUnits
             /\ s # 0 => /\ b.lease # NoLease /\ b.page \in Nat \ {0} /\ c \in Nat \ {0}
                         /\ b.page >= FirstPage
                         /\ u = b.page * PageUnits + offset
                         /\ u + length <= (b.page + c) * PageUnits
<1>1. PageUnits \in Nat \ {0} /\ FirstPage \in Nat /\ LastPage \in Nat /\ FirstPage <= LastPage
  BY PagesAssumption
<1>2. CASE s = 0
  <2>1. offset + length <= FirstPage * PageUnits
    <3>1. PICK n \in Nat : n = FirstPage * PageUnits
      BY <1>1
    <3>2. Cardinality(0 .. n - 1) = n
      BY FS_Interval
    <3> QED
      BY <1>2, <3>1, <3>2 DEF EndpointFits, LowUnits
  <2> QED
    BY <1>2, <2>1, <1>1 DEF EndpointUnit
<1>3. CASE s # 0
  <2>1. PICK b : b = xms.handles[s]
    OBVIOUS
  <2>2. PICK c : c = pm.leases[b.lease.slot].count
    OBVIOUS
  <2>3. s \in XmsHandles /\ b.lease # NoLease /\ offset + length <= b.size
    BY <1>3, <2>1 DEF EndpointFits, HandleIsAllocated
  <2>4. /\ c \in Nat \ {0} /\ b.page \in Pages /\ b.page + c - 1 \in Pages
        /\ b.capacity = c * PageUnits /\ b.size \in 1 .. b.capacity
    BY <2>1, <2>2, <2>3, XmsOwned
  <2>7. b.page \in Nat \ {0} /\ b.page >= FirstPage
    BY <2>4, PagesAssumption DEF Pages
  <2>11. /\ b.page * PageUnits + offset \in Nat
         /\ b.page * PageUnits + offset + length <= (LastPage + 1) * PageUnits
         /\ b.page * PageUnits + offset + length <= (b.page + c) * PageUnits
    BY <2>3, <1>1, <2>4, RunUnits, <2>7
  <2> QED
    BY <1>3, <2>1, <2>2, <2>3, <2>4, <2>7, <2>11 DEF EndpointUnit
<1> QED
  BY <1>2, <1>3

(* move_memory goes in the direction that reads before it overwrites. *)
LEMMA MoveClear ==
  ASSUME PagesHeld(pm), XmsHeld(pm, xms), NEW s \in {0} \cup XmsHandles,
         NEW t \in {0} \cup XmsHandles, NEW a \in Nat, NEW b \in Nat, NEW length \in Nat \ {0},
         EndpointFits(s, a, length), EndpointFits(t, b, length)
  PROVE  /\ Clear(EndpointUnit(s, a), EndpointUnit(t, b), length, MovesBackward(s, a, t, b, length))
         /\ MovesBackward(s, a, t, b, length) \in BOOLEAN
<1>1. PICK u \in Nat : u = EndpointUnit(s, a)
  BY Endpoint
<1>2. PICK v \in Nat : v = EndpointUnit(t, b)
  BY Endpoint
<1>3. PageUnits \in Nat \ {0} /\ FirstPage \in Nat
  BY PagesAssumption
<1>4. MovesBackward(s, a, t, b, length) \in BOOLEAN
  BY DEF MovesBackward
<1>5. CASE s = t
  <2>1. PICK o \in Nat : u = o + a /\ v = o + b
    <3>1. CASE s = 0
      BY <1>1, <1>2, <1>5, <3>1 DEF EndpointUnit
    <3>2. CASE s # 0
      <4>1. xms.handles[s].page \in Nat \ {0}
        BY <3>2, Endpoint
      <4>2. xms.handles[s].page * PageUnits \in Nat
        BY <1>3, <4>1
      <4> QED
        BY <1>1, <1>2, <1>5, <3>2, <4>2 DEF EndpointUnit
    <3> QED
      BY <3>1, <3>2
  <2> QED
    BY <1>1, <1>2, <1>4, <1>5, <2>1 DEF Clear, MovesBackward
<1>6. CASE s # t
  <2>1. u + length <= v \/ v + length <= u
    <3>1. CASE s = 0
      <4>1. /\ u + length <= FirstPage * PageUnits /\ xms.handles[t].page \in Nat
            /\ xms.handles[t].page >= FirstPage /\ v = xms.handles[t].page * PageUnits + b
        BY <1>1, <1>2, <1>6, <3>1, Endpoint
      <4> QED
        BY <4>1, <1>3
    <3>2. CASE t = 0
      <4>1. /\ v + length <= FirstPage * PageUnits /\ xms.handles[s].page \in Nat
            /\ xms.handles[s].page >= FirstPage /\ u = xms.handles[s].page * PageUnits + a
        BY <1>1, <1>2, <1>6, <3>2, Endpoint
      <4> QED
        BY <4>1, <1>3
    <3>3. CASE s # 0 /\ t # 0
      <4>1. PICK p \in Nat : p = xms.handles[s].page
        BY <3>3, Endpoint
      <4>2. PICK q \in Nat : q = xms.handles[t].page
        BY <3>3, Endpoint
      <4>3. PICK c \in Nat \ {0} : c = pm.leases[xms.handles[s].lease.slot].count
        BY <3>3, Endpoint
      <4>4. PICK d \in Nat \ {0} : d = pm.leases[xms.handles[t].lease.slot].count
        BY <3>3, Endpoint
      <4>5. /\ u = p * PageUnits + a /\ u + length <= (p + c) * PageUnits
            /\ xms.handles[s].lease # NoLease
        BY <1>1, <3>3, <4>1, <4>3, Endpoint
      <4>6. /\ v = q * PageUnits + b /\ v + length <= (q + d) * PageUnits
            /\ xms.handles[t].lease # NoLease
        BY <1>2, <3>3, <4>2, <4>4, Endpoint
      <4>8. CASE p + c <= q
        BY <1>3, <4>8, <4>5, <4>6
      <4>9. CASE q + d <= p
        BY <1>3, <4>9, <4>5, <4>6
      <4> QED
        BY <1>6, <3>3, <4>1, <4>2, <4>3, <4>4, <4>5, <4>6, BlocksApart, <4>8, <4>9
    <3> QED
      BY <3>1, <3>2, <3>3
  <2> QED
    BY <1>1, <1>2, <1>4, <2>1, <1>6 DEF Clear, MovesBackward
<1> QED
  BY <1>5, <1>6

(* A step that leaves the pages alone. *)
LEMMA PagesUntouched ==
  ASSUME PagesHeld(pm), pm' = pm, mem' \in [Units -> Values], NEW o
  PROVE  Served(pm, pm', mem', o) /\ SameLive(pm, pm')
<1> QED
  BY ServedSame DEF SameLive, Unmoved

(* The rest of XMS. *)
LEMMA XmsOthersHeld ==
  ASSUME PagesHeld(pm), mem \in [Units -> Values], XmsHeld(pm, xms), UNCHANGED pm,
         \/ \E h \in XmsHandles : \E size \in XmsSizes : XmsResize(h, size)
         \/ \E h \in XmsHandles : XmsLock(h)
         \/ \E h \in XmsHandles : XmsUnlock(h)
         \/ XmsQueryFree
         \/ \E u \in LowUnits, v \in Values \ {0} : WriteLow(u, v)
  PROVE  Served(pm, pm', mem', "xms") /\ XmsHeld(pm', xms')
<1>1. xms \in XmsManagerState /\ \A h \in XmsHandles : xms.handles[h] \in XmsBlock
  BY XmsTable DEF XmsHeld
<1>2. ASSUME NEW h \in XmsHandles, NEW b \in XmsBlock, PutBlock(xms, xms', h, b), mem' = mem,
             b.lease = xms.handles[h].lease, XmsBacked(pm, b)
      PROVE  Served(pm, pm', mem', "xms") /\ XmsHeld(pm', xms')
  <2>1. /\ xms' \in XmsManagerState /\ xms'.poisoned = xms.poisoned
        /\ xms'.handles[h] = b /\ \A j \in XmsHandles \ {h} : xms'.handles[j] = xms.handles[j]
        /\ XmsLeases(xms')[h] = b.lease
        /\ \A j \in XmsHandles \ {h} : XmsLeases(xms')[j] = XmsLeases(xms)[j]
    BY <1>1, <1>2, XmsPut
  <2> QED
    BY <1>2, <2>1, PagesUntouched DEF XmsHeld, XmsLeases
<1>3. ASSUME NEW h \in XmsHandles, NEW size \in XmsSizes, XmsResize(h, size)
      PROVE  Served(pm, pm', mem', "xms") /\ XmsHeld(pm', xms')
  <2>1. PICK b : b = [xms.handles[h] EXCEPT !.size = size]
    OBVIOUS
  <2>2. /\ xms.handles[h].lease # NoLease /\ size <= xms.handles[h].capacity /\ mem' = mem
        /\ xms' = [xms EXCEPT !.handles[h].size = size] /\ size \in Nat \ {0}
    BY <1>3, XmsAssumption DEF XmsResize, HandleIsAllocated
  <2>4. /\ b \in XmsBlock /\ b.lease = xms.handles[h].lease /\ b.size = size
        /\ b.capacity = xms.handles[h].capacity /\ b.page = xms.handles[h].page
    BY <1>1, <2>1, <2>2 DEF XmsBlock
  <2>5. XmsBacked(pm, b)
    BY <1>1, <2>2, <2>4 DEF XmsBlock, XmsHeld, XmsBacked
  <2> QED
    BY <1>2, <2>2, <2>1, <2>4, <2>5 DEF PutBlock
<1>4. ASSUME NEW h \in XmsHandles, XmsLock(h) \/ XmsUnlock(h)
      PROVE  Served(pm, pm', mem', "xms") /\ XmsHeld(pm', xms')
  <2>1. PICK n \in 0 .. LockMax : xms' = [xms EXCEPT !.handles[h].locks = n] /\ mem' = mem
                                  /\ xms.handles[h].lease # NoLease
    <3>1. xms.handles[h].locks \in 0 .. LockMax /\ LockMax \in Nat
      BY <1>1, XmsAssumption DEF XmsBlock
    <3>2. CASE XmsLock(h)
      <4>1. xms.handles[h].locks + 1 \in 0 .. LockMax
        BY <3>1, <3>2 DEF XmsLock
      <4> QED
        BY <3>2, <4>1 DEF XmsLock, HandleIsAllocated
    <3>3. CASE XmsUnlock(h)
      BY <3>1, <3>3 DEF XmsUnlock, HandleIsAllocated
    <3> QED
      BY <1>4, <3>2, <3>3
  <2>2. PICK b : b = [xms.handles[h] EXCEPT !.locks = n]
    OBVIOUS
  <2> QED
    BY <1>2, <2>1, <2>2, <1>1 DEF XmsHeld, XmsBacked, XmsBlock, PutBlock
<1>5. ASSUME XmsQueryFree
      PROVE  Served(pm, pm', mem', "xms") /\ XmsHeld(pm', xms')
  <2>1. /\ xms' \in XmsManagerState /\ xms'.handles = xms.handles /\ xms'.poisoned
        /\ mem' = mem
    BY <1>1, <1>5 DEF XmsQueryFree, XmsManagerState
  <2> QED
    BY <2>1, XmsKept, PagesUntouched DEF Foreign
<1>6. ASSUME NEW u \in LowUnits, NEW v \in Values \ {0}, WriteLow(u, v)
      PROVE  Served(pm, pm', mem', "xms") /\ XmsHeld(pm', xms')
  BY <1>6, PagesUntouched DEF WriteLow
<1> QED
  BY <1>3, <1>4, <1>5, <1>6

(* move_memory *)
LEMMA XmsMoveHeld ==
  ASSUME PagesHeld(pm), mem \in [Units -> Values], XmsHeld(pm, xms),
         NEW s \in {0} \cup XmsHandles, NEW t \in {0} \cup XmsHandles,
         NEW length \in Nat \ {0}, NEW a \in Nat, NEW b \in Nat, NEW done \in 1 .. length,
         XmsMove(s, a, t, b, length, done)
  PROVE  Served(pm, pm', mem', "xms") /\ XmsHeld(pm', xms')
<1>1. EndpointFits(s, a, length) /\ EndpointFits(t, b, length) /\ pm' = pm
  BY DEF XmsMove
<1>2. \/ /\ \E q \in BOOLEAN : xms' = [xms EXCEPT !.poisoned = q]
         /\ mem' = mem /\ ~xms.poisoned
      \/ /\ mem' = CopyUnits(mem, EndpointUnit(s, a), EndpointUnit(t, b), length,
                             MovesBackward(s, a, t, b, length), done)
         /\ xms' = xms
  <2> DEFINE st == {EndpointStatus(s, a, length), EndpointStatus(t, b, length)}
  <2>1. CASE st # {"OK"}
    <3>1. xms' = [xms EXCEPT !.poisoned = "UNCERTAIN" \in st] /\ mem' = mem /\ ~xms.poisoned
      BY <2>1 DEF XmsMove
    <3>2. ("UNCERTAIN" \in st) \in BOOLEAN
      OBVIOUS
    <3> HIDE DEF st
    <3> QED
      BY <3>1, <3>2, Zenon
  <2>2. CASE st = {"OK"}
    BY <2>2 DEF XmsMove
  <2> QED
    BY <2>1, <2>2
<1>3. CASE /\ \E q \in BOOLEAN : xms' = [xms EXCEPT !.poisoned = q]
           /\ mem' = mem /\ ~xms.poisoned
  BY <1>3, XmsKept, <1>1, PagesUntouched DEF XmsHeld, XmsManagerState, Foreign
<1>4. CASE /\ mem' = CopyUnits(mem, EndpointUnit(s, a), EndpointUnit(t, b), length,
                               MovesBackward(s, a, t, b, length), done)
           /\ xms' = xms
  <2>1. PICK u : u = EndpointUnit(s, a)
    OBVIOUS
  <2>2. PICK v : v = EndpointUnit(t, b)
    OBVIOUS
  <2>5. PICK w \in BOOLEAN : w = MovesBackward(s, a, t, b, length)
    BY <1>1, MoveClear
  <2>6. Clear(u, v, length, w) /\ done \in 0 .. length
    BY <1>1, <2>1, <2>2, <2>5, MoveClear
  <2> QED
    BY <1>1, <1>4, <2>1, <2>2, <2>5, Endpoint, <2>6, CopyIs, PagesUntouched
<1> QED
  BY <1>2, <1>3, <1>4

-----------------------------------------------------------------------------
(* EMS and VCPI.                                                           *)

(* The leases of the handles and of the VCPI pages. *)
LEMMA EmsTable ==
  ASSUME NEW e \in EmsManagerState
  PROVE  /\ EmsLeases(e) \in [EmsKeys -> Leases]
         /\ \A h \in EmsHandles : /\ <<"ems", h>> \in EmsKeys
                                  /\ EmsLeases(e)[<<"ems", h>>] = e.handles[h].lease
                                  /\ e.handles[h] \in EmsBlock
         /\ \A v \in VcpiSlots : /\ <<"vcpi", v>> \in EmsKeys
                                 /\ EmsLeases(e)[<<"vcpi", v>>] = e.vcpi[v].lease
                                 /\ e.vcpi[v] \in EmsBlock
<1> QED
  BY DEF EmsLeases, EmsKeys, EmsManagerState, EmsBlock

(* Two managers with the same entries have the same leases, one entry changed *)
(* changes one.                                                               *)
LEMMA EmsHandleSet ==
  ASSUME NEW x \in EmsManagerState, NEW y \in EmsManagerState, y.vcpi = x.vcpi,
         NEW k \in EmsHandles, \A h \in EmsHandles \ {k} : y.handles[h] = x.handles[h]
  PROVE  \A j \in EmsKeys \ {<<"ems", k>>} : EmsLeases(y)[j] = EmsLeases(x)[j]
<1> SUFFICES ASSUME NEW j \in EmsKeys, j # <<"ems", k>>
             PROVE  EmsLeases(y)[j] = EmsLeases(x)[j]
  OBVIOUS
<1>1. CASE \E h \in EmsHandles : j = <<"ems", h>>
  BY <1>1, EmsTable
<1>2. CASE \E v \in VcpiSlots : j = <<"vcpi", v>>
  BY <1>2, EmsTable
<1> QED
  BY <1>1, <1>2 DEF EmsKeys

(* The same for a VCPI page. *)
LEMMA EmsVcpiSet ==
  ASSUME NEW x \in EmsManagerState, NEW y \in EmsManagerState, y.handles = x.handles,
         NEW k \in VcpiSlots, \A v \in VcpiSlots \ {k} : y.vcpi[v] = x.vcpi[v]
  PROVE  \A j \in EmsKeys \ {<<"vcpi", k>>} : EmsLeases(y)[j] = EmsLeases(x)[j]
<1> SUFFICES ASSUME NEW j \in EmsKeys, j # <<"vcpi", k>>
             PROVE  EmsLeases(y)[j] = EmsLeases(x)[j]
  OBVIOUS
<1>1. CASE \E h \in EmsHandles : j = <<"ems", h>>
  BY <1>1, EmsTable
<1>2. CASE \E v \in VcpiSlots : j = <<"vcpi", v>>
  BY <1>2, EmsTable
<1> QED
  BY <1>1, <1>2 DEF EmsKeys

(* What others do, and giving up, leaves the entries as they are. *)
LEMMA EmsKept ==
  ASSUME NEW g, NEW h, NEW x, NEW y \in EmsManagerState, EmsHeld(g, x), Foreign(g, h, "ems"),
         y.handles = x.handles, y.vcpi = x.vcpi, ~y.poisoned => ~x.poisoned
  PROVE  EmsHeld(h, y)
<1>1. EmsLeases(y) = EmsLeases(x) /\ x \in EmsManagerState
  BY DEF EmsLeases, EmsHeld
<1>3. /\ Book(h, "ems", EmsLeases(x))
      /\ Exact(g, "ems", EmsLeases(x)) => Exact(h, "ems", EmsLeases(x))
      /\ \A k \in EmsKeys : EmsLeases(x)[k] # NoLease =>
           h.leases[EmsLeases(x)[k].slot] = g.leases[EmsLeases(x)[k].slot]
  BY <1>1, EmsTable, BookForeign DEF EmsHeld
<1>4. ASSUME NEW k \in EmsHandles
      PROVE  EmsBacked(h, y.handles[k], NativePerPage)
  <2>2. x.handles[k].lease # NoLease =>
          h.leases[x.handles[k].lease.slot] = g.leases[x.handles[k].lease.slot]
    BY <1>3, <1>1, EmsTable
  <2> QED
    BY <2>2 DEF EmsHeld, EmsBacked
<1>5. ASSUME NEW v \in VcpiSlots
      PROVE  EmsBacked(h, y.vcpi[v], 1)
  <2>2. x.vcpi[v].lease # NoLease =>
          h.leases[x.vcpi[v].lease.slot] = g.leases[x.vcpi[v].lease.slot]
    BY <1>3, <1>1, EmsTable
  <2> QED
    BY <2>2 DEF EmsHeld, EmsBacked
<1> QED
  BY <1>1, <1>3, <1>4, <1>5 DEF EmsHeld

(* The entries whose leases are the same are backed as before. *)
LEMMA EmsBackedSame ==
  ASSUME NEW g, NEW h, NEW b, NEW n, EmsBacked(g, b, n),
         b.lease # NoLease => h.leases[b.lease.slot] = g.leases[b.lease.slot]
  PROVE  EmsBacked(h, b, n)
BY DEF EmsBacked

(* A handle takes pages. *)
LEMMA EmsHandleTaken ==
  ASSUME NEW g, NEW h, NEW x, NEW y \in EmsManagerState, EmsHeld(g, x), y.vcpi = x.vcpi,
         y.poisoned = x.poisoned,
         NEW k \in EmsHandles, \A i \in EmsHandles \ {k} : y.handles[i] = x.handles[i],
         x.handles[k].lease = NoLease, y.handles[k].lease # NoLease,
         EmsBacked(h, y.handles[k], NativePerPage), NEW p, NEW c,
         Taken(g, h, "ems", y.handles[k].lease, p, c)
  PROVE  EmsHeld(h, y)
<1>1. PICK L : L = EmsLeases(x)
  OBVIOUS
<1>2. PICK K : K = EmsLeases(y)
  OBVIOUS
<1>3. PICK a : a = <<"ems", k>>
  OBVIOUS
<1>4. x \in EmsManagerState
  BY DEF EmsHeld
<1>5. Differ(EmsKeys, L, K, a) /\ L[a] = NoLease /\ Book(g, "ems", L)
  BY <1>1, <1>2, <1>3, <1>4, EmsTable, EmsHandleSet DEF EmsHeld, Differ
<1>6. Taken(g, h, "ems", K[a], p, c)
  BY <1>2, <1>3, EmsTable
<1>7. /\ Book(h, "ems", K) /\ (Exact(g, "ems", L) => Exact(h, "ems", K))
      /\ \A j \in EmsKeys \ {a} : L[j] # NoLease => h.leases[L[j].slot] = g.leases[L[j].slot]
  <2>1. Rebooked(g, h, "ems", EmsKeys, L, K, a)
    BY <1>5, <1>6, BookTaken
  <2> QED
    BY <2>1 DEF Rebooked
<1>8. ASSUME NEW i \in EmsHandles
      PROVE  EmsBacked(h, y.handles[i], NativePerPage)
  <2>1. CASE i # k
    <3>2. <<"ems", i>> \in EmsKeys \ {a} /\ L[<<"ems", i>>] = x.handles[i].lease
      BY <1>1, <1>3, <1>4, <2>1, EmsTable
    <3> QED
      BY <1>7, <2>1, <3>2, EmsBackedSame DEF EmsHeld
  <2> QED
    BY <2>1
<1>9. ASSUME NEW v \in VcpiSlots
      PROVE  EmsBacked(h, y.vcpi[v], 1)
  <2>2. <<"vcpi", v>> \in EmsKeys \ {a} /\ L[<<"vcpi", v>>] = x.vcpi[v].lease
    BY <1>1, <1>3, <1>4, EmsTable
  <2> QED
    BY <1>7, <2>2, EmsBackedSame DEF EmsHeld
<1> QED
  BY <1>1, <1>2, <1>7, <1>8, <1>9 DEF EmsHeld

(* A handle gives its pages back. *)
LEMMA EmsHandleGiven ==
  ASSUME NEW g, NEW h, NEW x, NEW y \in EmsManagerState, EmsHeld(g, x), y.vcpi = x.vcpi,
         y.poisoned = x.poisoned,
         NEW k \in EmsHandles, \A i \in EmsHandles \ {k} : y.handles[i] = x.handles[i],
         x.handles[k].lease # NoLease, y.handles[k].lease = NoLease,
         EmsBacked(h, y.handles[k], NativePerPage), Given(g, h, x.handles[k].lease)
  PROVE  EmsHeld(h, y)
<1>1. PICK L : L = EmsLeases(x)
  OBVIOUS
<1>2. PICK K : K = EmsLeases(y)
  OBVIOUS
<1>3. PICK a : a = <<"ems", k>>
  OBVIOUS
<1>4. x \in EmsManagerState
  BY DEF EmsHeld
<1>5. Differ(EmsKeys, L, K, a) /\ Book(g, "ems", L)
  BY <1>1, <1>2, <1>3, <1>4, EmsTable, EmsHandleSet DEF EmsHeld, Differ
<1>6. Given(g, h, L[a]) /\ L[a] # NoLease /\ K[a] = NoLease
  BY <1>1, <1>2, <1>3, <1>4, EmsTable
<1>7. /\ Book(h, "ems", K) /\ (Exact(g, "ems", L) => Exact(h, "ems", K))
      /\ \A j \in EmsKeys \ {a} : L[j] # NoLease => h.leases[L[j].slot] = g.leases[L[j].slot]
  BY <1>5, <1>6, BookGiven DEF Rebooked
<1>8. ASSUME NEW i \in EmsHandles
      PROVE  EmsBacked(h, y.handles[i], NativePerPage)
  <2>1. CASE i # k
    <3>2. <<"ems", i>> \in EmsKeys \ {a} /\ L[<<"ems", i>>] = x.handles[i].lease
      BY <1>1, <1>3, <1>4, <2>1, EmsTable
    <3> QED
      BY <1>7, <2>1, <3>2, EmsBackedSame DEF EmsHeld
  <2> QED
    BY <2>1
<1>9. ASSUME NEW v \in VcpiSlots
      PROVE  EmsBacked(h, y.vcpi[v], 1)
  <2>2. <<"vcpi", v>> \in EmsKeys \ {a} /\ L[<<"vcpi", v>>] = x.vcpi[v].lease
    BY <1>1, <1>3, <1>4, EmsTable
  <2> QED
    BY <1>7, <2>2, EmsBackedSame DEF EmsHeld
<1> QED
  BY <1>1, <1>2, <1>7, <1>8, <1>9 DEF EmsHeld

(* A VCPI page is taken. *)
LEMMA EmsVcpiTaken ==
  ASSUME NEW g, NEW h, NEW x, NEW y \in EmsManagerState, EmsHeld(g, x), y.handles = x.handles,
         y.poisoned = x.poisoned,
         NEW k \in VcpiSlots, \A i \in VcpiSlots \ {k} : y.vcpi[i] = x.vcpi[i],
         x.vcpi[k].lease = NoLease, y.vcpi[k].lease # NoLease,
         EmsBacked(h, y.vcpi[k], 1), NEW p, NEW c,
         Taken(g, h, "ems", y.vcpi[k].lease, p, c)
  PROVE  EmsHeld(h, y)
<1>1. PICK L : L = EmsLeases(x)
  OBVIOUS
<1>2. PICK K : K = EmsLeases(y)
  OBVIOUS
<1>3. PICK a : a = <<"vcpi", k>>
  OBVIOUS
<1>4. x \in EmsManagerState
  BY DEF EmsHeld
<1>5. Differ(EmsKeys, L, K, a) /\ L[a] = NoLease /\ Book(g, "ems", L)
  BY <1>1, <1>2, <1>3, <1>4, EmsTable, EmsVcpiSet DEF EmsHeld, Differ
<1>6. Taken(g, h, "ems", K[a], p, c)
  BY <1>2, <1>3, EmsTable
<1>7. /\ Book(h, "ems", K) /\ (Exact(g, "ems", L) => Exact(h, "ems", K))
      /\ \A j \in EmsKeys \ {a} : L[j] # NoLease => h.leases[L[j].slot] = g.leases[L[j].slot]
  <2>1. Rebooked(g, h, "ems", EmsKeys, L, K, a)
    BY <1>5, <1>6, BookTaken
  <2> QED
    BY <2>1 DEF Rebooked
<1>8. ASSUME NEW i \in VcpiSlots
      PROVE  EmsBacked(h, y.vcpi[i], 1)
  <2>1. CASE i # k
    <3>2. <<"vcpi", i>> \in EmsKeys \ {a} /\ L[<<"vcpi", i>>] = x.vcpi[i].lease
      BY <1>1, <1>3, <1>4, <2>1, EmsTable
    <3> QED
      BY <1>7, <2>1, <3>2, EmsBackedSame DEF EmsHeld
  <2> QED
    BY <2>1
<1>9. ASSUME NEW v \in EmsHandles
      PROVE  EmsBacked(h, y.handles[v], NativePerPage)
  <2>2. <<"ems", v>> \in EmsKeys \ {a} /\ L[<<"ems", v>>] = x.handles[v].lease
    BY <1>1, <1>3, <1>4, EmsTable
  <2> QED
    BY <1>7, <2>2, EmsBackedSame DEF EmsHeld
<1> QED
  BY <1>1, <1>2, <1>7, <1>8, <1>9 DEF EmsHeld

(* A VCPI page is given back. *)
LEMMA EmsVcpiGiven ==
  ASSUME NEW g, NEW h, NEW x, NEW y \in EmsManagerState, EmsHeld(g, x), y.handles = x.handles,
         y.poisoned = x.poisoned,
         NEW k \in VcpiSlots, \A i \in VcpiSlots \ {k} : y.vcpi[i] = x.vcpi[i],
         x.vcpi[k].lease # NoLease, y.vcpi[k].lease = NoLease,
         EmsBacked(h, y.vcpi[k], 1), Given(g, h, x.vcpi[k].lease)
  PROVE  EmsHeld(h, y)
<1>1. PICK L : L = EmsLeases(x)
  OBVIOUS
<1>2. PICK K : K = EmsLeases(y)
  OBVIOUS
<1>3. PICK a : a = <<"vcpi", k>>
  OBVIOUS
<1>4. x \in EmsManagerState
  BY DEF EmsHeld
<1>5. Differ(EmsKeys, L, K, a) /\ Book(g, "ems", L)
  BY <1>1, <1>2, <1>3, <1>4, EmsTable, EmsVcpiSet DEF EmsHeld, Differ
<1>7. /\ Book(h, "ems", K) /\ (Exact(g, "ems", L) => Exact(h, "ems", K))
      /\ \A j \in EmsKeys \ {a} : L[j] # NoLease => h.leases[L[j].slot] = g.leases[L[j].slot]
  BY <1>5, <1>1, <1>2, <1>3, <1>4, EmsTable, BookGiven DEF Rebooked
<1>8. ASSUME NEW i \in VcpiSlots
      PROVE  EmsBacked(h, y.vcpi[i], 1)
  <2>1. CASE i # k
    <3>2. <<"vcpi", i>> \in EmsKeys \ {a} /\ L[<<"vcpi", i>>] = x.vcpi[i].lease
      BY <1>1, <1>3, <1>4, <2>1, EmsTable
    <3> QED
      BY <1>7, <2>1, <3>2, EmsBackedSame DEF EmsHeld
  <2> QED
    BY <2>1
<1>9. ASSUME NEW v \in EmsHandles
      PROVE  EmsBacked(h, y.handles[v], NativePerPage)
  <2>2. <<"ems", v>> \in EmsKeys \ {a} /\ L[<<"ems", v>>] = x.handles[v].lease
    BY <1>1, <1>3, <1>4, EmsTable
  <2> QED
    BY <1>7, <2>2, EmsBackedSame DEF EmsHeld
<1> QED
  BY <1>1, <1>2, <1>7, <1>8, <1>9 DEF EmsHeld

(* The lease of an entry in use is the entry's own. *)
LEMMA EmsOwned ==
  ASSUME NEW g, PagesHeld(g), NEW e, EmsHeld(g, e), NEW b, NEW native \in Nat \ {0},
         EmsBacked(g, b, native), b.lease # NoLease,
         \/ native = NativePerPage /\ \E h \in EmsHandles : b = e.handles[h]
         \/ native = 1 /\ \E v \in VcpiSlots : b = e.vcpi[v]
  PROVE  /\ b \in EmsBlock /\ b.lease \in Leases /\ b.lease.slot \in LiveOf(g, "ems")
         /\ Owned(g, "ems", b.lease, b.page, b.capacity)
         /\ b.capacity \in Nat \ {0} /\ b.count \in Nat \ {0} /\ b.capacity = b.count * native
         /\ b.page \in Pages /\ b.page + b.capacity - 1 \in Pages
         /\ PageRun(g.leases[b.lease.slot]) = b.page .. b.page + b.capacity - 1
<1>1. e \in EmsManagerState
  BY DEF EmsHeld
<1>2. PICK k \in EmsKeys : b.lease = EmsLeases(e)[k] /\ b \in EmsBlock
  <2>1. /\ \A h \in EmsHandles : /\ <<"ems", h>> \in EmsKeys
                                /\ EmsLeases(e)[<<"ems", h>>] = e.handles[h].lease
                                /\ e.handles[h] \in EmsBlock
        /\ \A v \in VcpiSlots : /\ <<"vcpi", v>> \in EmsKeys
                               /\ EmsLeases(e)[<<"vcpi", v>>] = e.vcpi[v].lease
                               /\ e.vcpi[v] \in EmsBlock
    BY <1>1, EmsTable
  <2>2. CASE \E h \in EmsHandles : b = e.handles[h]
    BY <2>1, <2>2, Zenon
  <2>3. CASE \E v \in VcpiSlots : b = e.vcpi[v]
    BY <2>1, <2>3, Zenon
  <2> QED
    BY <2>2, <2>3
<1>5. PICK s : s = g.leases[b.lease.slot]
  OBVIOUS
<1>7. /\ s.first = b.page /\ s.count = b.capacity
      /\ b.capacity = b.count * native /\ b.count > 0
  BY <1>5 DEF EmsBacked
<1> QED
  BY <1>2, <1>1, EmsTable, <1>5, <1>7, PagesAssumption
  DEF PageRun, PagesHeld, RunsHeld, PageManager, LeaseSlot, Owned, NameOf, LiveOf, Book,
      EmsHeld, EmsBlock

(* The same for a handle. *)
LEMMA EmsHandleOwned ==
  ASSUME NEW g, PagesHeld(g), NEW e, EmsHeld(g, e), NEW k \in EmsHandles,
         e.handles[k].lease # NoLease
  PROVE  LET b == e.handles[k]
         IN  /\ b \in EmsBlock /\ b.lease \in Leases /\ b.lease.slot \in LiveOf(g, "ems")
             /\ Owned(g, "ems", b.lease, b.page, b.capacity)
             /\ b.capacity \in Nat \ {0} /\ b.count \in Nat \ {0}
             /\ b.capacity = b.count * NativePerPage
             /\ b.page \in Pages /\ b.page + b.capacity - 1 \in Pages
             /\ PageRun(g.leases[b.lease.slot]) = b.page .. b.page + b.capacity - 1
<1> QED
  BY EmsAssumption, EmsOwned DEF EmsHeld

(* And for a VCPI page. *)
LEMMA EmsVcpiOwned ==
  ASSUME NEW g, PagesHeld(g), NEW e, EmsHeld(g, e), NEW v \in VcpiSlots,
         e.vcpi[v].lease # NoLease
  PROVE  LET b == e.vcpi[v]
         IN  /\ b \in EmsBlock /\ b.lease \in Leases /\ b.lease.slot \in LiveOf(g, "ems")
             /\ Owned(g, "ems", b.lease, b.page, b.capacity)
<1> QED
  BY EmsOwned DEF EmsHeld

(* What a frame entry shows is leased by EMS. *)
LEMMA EntryShown ==
  ASSUME NEW g, PagesHeld(g), NEW e, EmsHeld(g, e), NEW k \in EmsHandles,
         e.handles[k].lease # NoLease, NEW l \in Nat, l < e.handles[k].count
  PROVE  LET p == e.handles[k].page + l * NativePerPage
         IN  /\ p \in Pages /\ \A n \in 0 .. NativePerPage - 1 : Held(g, "ems", p + n)
             /\ (l + 1) * NativePerPage <= e.handles[k].capacity
<1>1. PICK b : b = e.handles[k]
  OBVIOUS
<1>2. /\ b.lease.slot \in LiveOf(g, "ems") /\ b.capacity \in Nat \ {0} /\ b.count \in Nat \ {0}
      /\ b.capacity = b.count * NativePerPage
      /\ b.page \in Pages /\ b.page + b.capacity - 1 \in Pages
      /\ PageRun(g.leases[b.lease.slot]) = b.page .. b.page + b.capacity - 1
  BY <1>1, EmsHandleOwned
<1>3. NativePerPage \in Nat \ {0} /\ b.page \in Nat
  BY <1>2, EmsAssumption, PagesAssumption DEF Pages
<1>4. l + 1 <= b.count
  BY <1>1, <1>2
<1>5. (l + 1) * NativePerPage <= b.count * NativePerPage
  <2>1. PICK c \in Nat, n \in Nat : c = b.count /\ n = NativePerPage
    BY <1>2, <1>3
  <2>2. PICK d \in Nat : c = l + 1 + d
    BY <1>4, <2>1
  <2> QED
    BY <2>1, <2>2
<1>6. (l + 1) * NativePerPage = l * NativePerPage + NativePerPage /\ l * NativePerPage \in Nat
  BY <1>3
<1>7. \A n \in 0 .. NativePerPage - 1 :
        b.page + l * NativePerPage + n \in b.page .. b.page + b.capacity - 1
  <2>1. PICK q \in Nat, p \in Nat, c \in Nat :
          q = l * NativePerPage /\ p = b.page /\ c = b.capacity
    BY <1>2, <1>3, <1>6
  <2>2. q + NativePerPage <= c
    BY <1>2, <1>5, <1>6, <2>1
  <2> QED
    BY <2>1, <1>3, <2>2
<1>9. b.page + l * NativePerPage \in Pages
  BY <1>3, <1>7, <1>2, <1>6, PagesAssumption DEF Pages
<1> QED
  BY <1>1, <1>2, <1>7, <1>9, <1>5 DEF Held

(* Entries that EMS knows make a frame that is held. *)
LEMMA FrameFromEntries ==
  ASSUME NEW g, PagesHeld(g), NEW e, EmsHeld(g, e), NEW w,
         w = [s \in FrameSlots |-> e.frame[s].page],
         \A s \in FrameSlots : FrameEntry(e, e.frame[s])
  PROVE  FrameHeld(g, e, w)
<1>1. ASSUME NEW s \in FrameSlots
      PROVE  \/ w[s] = 0
             \/ /\ w[s] \in Pages
                /\ \A n \in 0 .. NativePerPage - 1 : Held(g, "ems", w[s] + n)
  BY PagesAssumption, EntryShown DEF EmsHeld, EmsManagerState, Unmapped, FrameEntry
<1> QED
  BY <1>1 DEF FrameHeld

(* The frame that EMS knows is the one of its entries. *)
LEMMA FrameKnown ==
  ASSUME NEW g, NEW e, NEW w, FrameHeld(g, e, w), ~e.poisoned
  PROVE  /\ w = [s \in FrameSlots |-> e.frame[s].page]
         /\ \A s \in FrameSlots : FrameEntry(e, e.frame[s])
BY DEF FrameHeld

(* Held pages stay held while the leases of their owner are the same. *)
LEMMA HeldForeign ==
  ASSUME NEW g, NEW h, NEW o, Foreign(g, h, o), NEW p, Held(g, o, p)
  PROVE  Held(h, o, p)
<1>1. PICK s \in LiveOf(g, o) : p \in PageRun(g.leases[s])
  BY DEF Held
<1> QED
  BY <1>1 DEF Held, Foreign, LiveOf

(* A frame that shows less, of a service that has given up. *)
LEMMA FrameLess ==
  ASSUME NEW g, NEW h, NEW e, NEW w, FrameHeld(g, e, w), Foreign(g, h, "ems"),
         NEW y, y.poisoned, NEW v, v = [s \in FrameSlots |-> v[s]],
         \A s \in FrameSlots : v[s] \in {0, w[s]}
  PROVE  FrameHeld(h, y, v)
<1> QED
  BY HeldForeign DEF FrameHeld

(* A frame while others run. *)
LEMMA FrameKept ==
  ASSUME NEW g, NEW h, NEW e, NEW w, FrameHeld(g, e, w), Foreign(g, h, "ems"),
         NEW y, y.handles = e.handles, y.frame = e.frame, ~y.poisoned => ~e.poisoned
  PROVE  FrameHeld(h, y, w)
<1> QED
  BY HeldForeign DEF FrameHeld, FrameEntry

-----------------------------------------------------------------------------
(* The calls of EMS and VCPI.                                              *)

(* Giving up, or not, changes nothing else of the manager. *)
LEMMA EmsFlagged ==
  ASSUME NEW e \in EmsManagerState, NEW bad \in BOOLEAN
  PROVE  LET y == [e EXCEPT !.poisoned = bad]
         IN  /\ y \in EmsManagerState /\ y.handles = e.handles /\ y.vcpi = e.vcpi
             /\ y.frame = e.frame /\ y.poisoned = bad
BY DEF EmsManagerState

(* A call that left the leases alone. *)
LEMMA EmsRefused ==
  ASSUME PagesHeld(pm), EmsHeld(pm, ems), FrameHeld(pm, ems, hwFrame), ~ems.poisoned,
         NEW g, NEW m \in [Units -> Values], PagesHeld(g), g.available = pm.available,
         SameLive(pm, g), NEW bad \in BOOLEAN
  PROVE  /\ Served(pm, g, m, "ems") /\ EmsHeld(g, PoisonEms(bad))
         /\ FrameHeld(g, PoisonEms(bad), hwFrame)
<1>1. PICK y : y = PoisonEms(bad)
  OBVIOUS
<1>3. /\ y \in EmsManagerState /\ y.handles = ems.handles /\ y.vcpi = ems.vcpi
      /\ y.frame = ems.frame
  BY <1>1, EmsFlagged DEF PoisonEms, EmsHeld
<1> QED
  BY <1>1, <1>3, ForeignSame, EmsKept, FrameKept, ServedSame

(* What is free is at most what there is. *)
LEMMA LargestFreeBound ==
  ASSUME NEW g, PagesHeld(g)
  PROVE  LargestFree(g) \in 0 .. LastPage
<1>1. PICK S : S = {n \in 0 .. Cardinality(g.available) :
         n = 0 \/ \E p \in ManagedFirst(g) .. ManagedLimit(g) - n : RunIsFree(g, p, n)}
  OBVIOUS
<1>2. Cardinality(g.available) \in 0 .. LastPage /\ LastPage \in Nat
  BY FreeCount, PagesAssumption
<1>3. S \in SUBSET Nat /\ S # {} /\ \A i \in S : i <= LastPage
  BY <1>1, <1>2
<1> QED
  BY <1>1, <1>2, <1>3, MaxIs DEF LargestFree

(* The slot chosen for a new block is free and can still count. *)
LEMMA AllottableSlot ==
  ASSUME NEW n \in Nat, NEW table \in [1 .. n -> EmsBlock], Allottable(table) # {}
  PROVE  LET k == Min(Allottable(table))
         IN  /\ k \in 1 .. n /\ table[k].lease = NoLease
             /\ table[k].generation + 1 \in 1 .. EmsGenerationMax
<1>3. PICK k : k = Min(Allottable(table))
  OBVIOUS
<1>4. k \in 1 .. n /\ table[k].lease = NoLease /\ table[k].generation < EmsGenerationMax
  BY MinIs, <1>3 DEF Allottable, InUse
<1>5. table[k].generation \in 0 .. EmsGenerationMax /\ EmsGenerationMax \in Nat
  BY <1>4, EmsAssumption DEF EmsBlock
<1> QED
  BY <1>3, <1>4, <1>5

(* A request for count pages of native host pages each is one for c of these. *)
Sized(count, native, c) ==
  /\ count \in Nat \ {0} /\ native \in Nat \ {0} /\ c = count * native /\ c <= LastPage

(* What a new block records. *)
LEMMA AllottedBlock ==
  ASSUME NEW b, NEW r, NEW g, NEW count, NEW native, NEW c, Sized(count, native, c),
         b.generation + 1 \in 1 .. EmsGenerationMax,
         Taken(g, r.pm, "ems", r.lease, r.page, c)
  PROVE  LET y == Allotted(b, r, count, c)
         IN  /\ y \in EmsBlock /\ y.lease = r.lease /\ y.lease # NoLease
             /\ EmsBacked(r.pm, y, native)
<1>1. PICK y : y = Allotted(b, r, count, c)
  OBVIOUS
<1> QED
  BY <1>1, PagesAssumption, EmsAssumption
  DEF Owned, EmsBacked, EmsBlock, Pages, Taken, Sized, Allotted

(* A block put in a free handle: the table around it. *)
LEMMA EmsPutHandle ==
  ASSUME NEW e \in EmsManagerState, NEW k \in EmsHandles, NEW b \in EmsBlock
  PROVE  LET y == [e EXCEPT !.handles[k] = b]
         IN  /\ y \in EmsManagerState /\ y.vcpi = e.vcpi /\ y.poisoned = e.poisoned
             /\ y.frame = e.frame /\ y.handles[k] = b
             /\ \A i \in EmsHandles \ {k} : y.handles[i] = e.handles[i]
<1>1. PICK y : y = [e EXCEPT !.handles[k] = b]
  OBVIOUS
<1>2. PICK f : f = [e.handles EXCEPT ![k] = b]
  OBVIOUS
<1> QED
  BY <1>1, <1>2 DEF EmsManagerState

(* The same for a VCPI slot. *)
LEMMA EmsPutVcpi ==
  ASSUME NEW e \in EmsManagerState, NEW k \in VcpiSlots, NEW b \in EmsBlock
  PROVE  LET y == [e EXCEPT !.vcpi[k] = b]
         IN  /\ y \in EmsManagerState /\ y.handles = e.handles /\ y.poisoned = e.poisoned
             /\ y.frame = e.frame /\ y.vcpi[k] = b
             /\ \A i \in VcpiSlots \ {k} : y.vcpi[i] = e.vcpi[i]
<1>1. PICK y : y = [e EXCEPT !.vcpi[k] = b]
  OBVIOUS
<1>2. PICK f : f = [e.vcpi EXCEPT ![k] = b]
  OBVIOUS
<1> QED
  BY <1>1, <1>2 DEF EmsManagerState

(* The frame while a handle that it does not show changes. *)
LEMMA FrameOther ==
  ASSUME NEW e, NEW y, NEW k \in EmsHandles, e.handles[k].lease = NoLease,
         \A i \in EmsHandles \ {k} : y.handles[i] = e.handles[i],
         NEW f, FrameEntry(e, f)
  PROVE  FrameEntry(y, f)
BY DEF FrameEntry

(* allocate_handle *)
LEMMA EmsAllocateHeld ==
  ASSUME PagesHeld(pm), mem \in [Units -> Values], EmsHeld(pm, ems), FrameHeld(pm, ems, hwFrame),
         NEW count \in EmsCounts, NEW z \in ZeroResults, EmsAllocate(count, z)
  PROVE  Served(pm, pm', mem', "ems") /\ EmsHeld(pm', ems') /\ FrameHeld(pm', ems', hwFrame')
<1>1. PICK r : r = Allocate(pm, mem, "ems", count * NativePerPage, z)
  OBVIOUS
<1>2. PICK k : k = Min(Allottable(ems.handles))
  OBVIOUS
<1>3. /\ pm' = r.pm /\ mem' = r.mem /\ hwFrame' = hwFrame /\ ~ems.poisoned
      /\ Allottable(ems.handles) # {} /\ count * NativePerPage <= LargestFree(pm)
      /\ ems' = IF r.status = "OK"
                THEN [ems EXCEPT !.handles[k] =
                        Allotted(ems.handles[k], r, count, count * NativePerPage)]
                ELSE PoisonEms(PageFault(r.status))
  BY <1>1, <1>2 DEF EmsAllocate, AllotHandle, EmsReady
<1>4. ems \in EmsManagerState /\ ems.handles \in [1 .. EmsHandleCount -> EmsBlock]
  BY DEF EmsHeld, EmsManagerState, EmsHandles
<1>5. /\ k \in EmsHandles /\ ems.handles[k].lease = NoLease
      /\ ems.handles[k].generation + 1 \in 1 .. EmsGenerationMax
  BY <1>2, <1>3, <1>4, AllottableSlot, EmsAssumption DEF EmsHandles
<1>6. PICK c \in Nat \ {0} : c = count * NativePerPage
  BY EmsAssumption
<1>7. c <= LastPage /\ count \in Nat \ {0} /\ NativePerPage \in Nat \ {0}
  BY <1>3, <1>6, LargestFreeBound, EmsAssumption, PagesAssumption
<1>8. /\ PagesHeld(r.pm) /\ r.pm.available = pm.available /\ r.mem \in [Units -> Values]
      /\ r.status = "OK" => Taken(pm, r.pm, "ems", r.lease, r.page, c)
      /\ r.status # "OK" => SameLive(pm, r.pm)
  <2>1. "ems" \in PageOwners \ {"nobody"}
    BY DEF PageOwners
  <2> QED
    BY <1>1, <1>6, <2>1, AllocateOutcome
<1>9. CASE r.status = "OK"
  <2>1. PICK b : b = Allotted(ems.handles[k], r, count, c)
    OBVIOUS
  <2>2. Taken(pm, r.pm, "ems", r.lease, r.page, c)
    BY <1>8, <1>9
  <2>3. PICK a : a = ems.handles[k]
    OBVIOUS
  <2>4. b \in EmsBlock /\ b.lease = r.lease /\ b.lease # NoLease /\ EmsBacked(r.pm, b, NativePerPage)
    <3>1. a.generation + 1 \in 1 .. EmsGenerationMax /\ Sized(count, NativePerPage, c)
      BY <1>5, <1>6, <1>7, <2>3 DEF Sized
    <3> QED
      BY <2>1, <2>3, <2>2, <3>1, AllottedBlock
  <2>5. PICK y : y = [ems EXCEPT !.handles[k] = b]
    OBVIOUS
  <2>6. /\ y \in EmsManagerState /\ y.vcpi = ems.vcpi /\ y.poisoned = ems.poisoned
        /\ y.frame = ems.frame /\ y.handles[k] = b
        /\ \A i \in EmsHandles \ {k} : y.handles[i] = ems.handles[i]
    BY <1>4, <1>5, <2>4, <2>5, EmsPutHandle
  <2>9. EmsHeld(r.pm, y)
    BY <1>5, <2>6, <1>8, <1>9, <2>4, EmsHandleTaken
  <2>10. /\ hwFrame = [s \in FrameSlots |-> ems.frame[s].page]
         /\ \A s \in FrameSlots : FrameEntry(ems, ems.frame[s])
    BY <1>3, FrameKnown
  <2>12. FrameHeld(r.pm, y, hwFrame)
    BY <2>6, <2>10, <1>5, FrameOther, <1>8, <2>9, FrameFromEntries
  <2> QED
    BY <1>3, <1>6, <1>9, <2>1, <2>5, <2>9, <2>12, <1>8, <2>2, ServedTaken
<1>10. CASE r.status # "OK"
  <2>1. PageFault(r.status) \in BOOLEAN
    BY DEF PageFault
  <2>3. PICK bad \in BOOLEAN : bad = PageFault(r.status)
    BY <2>1
  <2> QED
    BY <1>3, <1>10, <2>3, <1>8, EmsRefused
<1> QED
  BY <1>9, <1>10

(* vcpi_allocate_page *)
LEMMA VcpiAllocateHeld ==
  ASSUME PagesHeld(pm), mem \in [Units -> Values], EmsHeld(pm, ems), FrameHeld(pm, ems, hwFrame),
         NEW z \in ZeroResults, VcpiAllocate(z)
  PROVE  Served(pm, pm', mem', "ems") /\ EmsHeld(pm', ems') /\ FrameHeld(pm', ems', hwFrame')
<1>1. PICK r : r = Allocate(pm, mem, "ems", 1, z)
  OBVIOUS
<1>2. PICK k : k = Min(Allottable(ems.vcpi))
  OBVIOUS
<1>3. /\ pm' = r.pm /\ mem' = r.mem /\ hwFrame' = hwFrame /\ ~ems.poisoned
      /\ Allottable(ems.vcpi) # {}
      /\ ems' = IF r.status = "OK"
                THEN [ems EXCEPT !.vcpi[k] = Allotted(ems.vcpi[k], r, 1, 1)]
                ELSE PoisonEms(PageFault(r.status))
  BY <1>1, <1>2 DEF VcpiAllocate, AllotVcpi, EmsReady
<1>4. ems \in EmsManagerState /\ ems.vcpi \in [1 .. VcpiCount -> EmsBlock]
  BY DEF EmsHeld, EmsManagerState, VcpiSlots
<1>5. /\ k \in VcpiSlots /\ ems.vcpi[k].lease = NoLease
      /\ ems.vcpi[k].generation + 1 \in 1 .. EmsGenerationMax
  BY <1>2, <1>3, <1>4, AllottableSlot, EmsAssumption DEF VcpiSlots
<1>6. /\ PagesHeld(r.pm) /\ r.pm.available = pm.available /\ r.mem \in [Units -> Values]
      /\ r.status = "OK" => Taken(pm, r.pm, "ems", r.lease, r.page, 1)
      /\ r.status # "OK" => SameLive(pm, r.pm)
  <2>1. "ems" \in PageOwners \ {"nobody"} /\ 1 \in Nat \ {0}
    BY DEF PageOwners
  <2> QED
    BY <1>1, <2>1, AllocateOutcome
<1>7. CASE r.status = "OK"
  <2>1. PICK a, b : a = ems.vcpi[k] /\ b = Allotted(a, r, 1, 1)
    OBVIOUS
  <2>2. Taken(pm, r.pm, "ems", r.lease, r.page, 1)
    BY <1>6, <1>7
  <2>3. a.generation + 1 \in 1 .. EmsGenerationMax /\ Sized(1, 1, 1)
    BY <1>5, <2>1, PagesAssumption DEF Sized
  <2>4. b \in EmsBlock /\ b.lease = r.lease /\ b.lease # NoLease /\ EmsBacked(r.pm, b, 1)
    BY <2>1, <2>2, <2>3, AllottedBlock
  <2>5. PICK y : y = [ems EXCEPT !.vcpi[k] = b]
    OBVIOUS
  <2>6. /\ y \in EmsManagerState /\ y.handles = ems.handles /\ y.poisoned = ems.poisoned
        /\ y.frame = ems.frame /\ y.vcpi[k] = b
        /\ \A i \in VcpiSlots \ {k} : y.vcpi[i] = ems.vcpi[i]
    BY <1>4, <1>5, <2>4, <2>5, EmsPutVcpi
  <2>9. EmsHeld(r.pm, y)
    BY <1>5, <2>6, <2>2, <2>4, EmsVcpiTaken
  <2>11. FrameHeld(r.pm, y, hwFrame)
    BY <2>6, <1>3, FrameKnown, <1>6, <2>9, FrameFromEntries DEF FrameEntry
  <2> QED
    BY <1>3, <1>7, <2>1, <2>5, <2>9, <2>11, <1>6, <2>2, ServedTaken
<1>8. CASE r.status # "OK"
  <2>1. PICK bad \in BOOLEAN : bad = PageFault(r.status)
    <3>1. PageFault(r.status) \in BOOLEAN
      BY DEF PageFault
    <3> QED
      BY <3>1
  <2> QED
    BY <1>3, <1>8, <2>1, <1>6, EmsRefused
<1> QED
  BY <1>7, <1>8

(* A block that is free again. *)
LEMMA FreedBlock ==
  ASSUME NEW b \in EmsBlock, NEW g, NEW native
  PROVE  LET y == FreeEms(b.generation)
         IN  y \in EmsBlock /\ y.lease = NoLease /\ EmsBacked(g, y, native)
<1> QED
  BY PagesAssumption DEF FreeEms, EmsBlock, EmsBacked, NoLease, Leases

(* vcpi_free_page *)
LEMMA VcpiFreeHeld ==
  ASSUME PagesHeld(pm), mem \in [Units -> Values], EmsHeld(pm, ems), FrameHeld(pm, ems, hwFrame),
         NEW page \in Pages, NEW z \in ZeroResults, VcpiFree(page, z)
  PROVE  Served(pm, pm', mem', "ems") /\ EmsHeld(pm', ems') /\ FrameHeld(pm', ems', hwFrame')
<1>1. PICK k \in VcpiSlots : /\ InUse(ems.vcpi[k])
                             /\ ReturnVcpi(k, Release(pm, mem, "ems", ems.vcpi[k].lease, z))
  BY DEF VcpiFree
<1>2. PICK l : l = ems.vcpi[k].lease
  OBVIOUS
<1>3. PICK r : r = Release(pm, mem, "ems", l, z)
  OBVIOUS
<1>4. /\ pm' = r.pm /\ mem' = r.mem /\ hwFrame' = hwFrame /\ ~ems.poisoned /\ l # NoLease
      /\ ems' = IF r.status = "OK"
                THEN [ems EXCEPT !.vcpi[k] = FreeEms(ems.vcpi[k].generation)]
                ELSE PoisonEms(PageFault(r.status))
  BY <1>1, <1>2, <1>3 DEF VcpiFree, ReturnVcpi, EmsReady, InUse
<1>5. PICK p, c : /\ Owned(pm, "ems", l, p, c) /\ l.slot \in LiveOf(pm, "ems") /\ l \in Leases
                  /\ ems.vcpi[k] \in EmsBlock
  BY <1>2, <1>4, EmsVcpiOwned
<1>6. /\ PagesHeld(r.pm) /\ r.pm.available = pm.available /\ r.mem \in [Units -> Values]
      /\ r.status = "OK" => Given(pm, r.pm, l)
      /\ r.status # "OK" => SameLive(pm, r.pm)
  BY <1>3, <1>4, <1>5, ReleaseOutcome
<1>7. CASE r.status = "OK"
  <2>1. PICK b : b = FreeEms(ems.vcpi[k].generation)
    OBVIOUS
  <2>2. b \in EmsBlock /\ b.lease = NoLease /\ EmsBacked(r.pm, b, 1)
    BY <1>5, <2>1, FreedBlock
  <2>3. PICK y : y = [ems EXCEPT !.vcpi[k] = b]
    OBVIOUS
  <2>5. /\ y \in EmsManagerState /\ y.handles = ems.handles /\ y.poisoned = ems.poisoned
        /\ y.frame = ems.frame /\ y.vcpi[k] = b
        /\ \A i \in VcpiSlots \ {k} : y.vcpi[i] = ems.vcpi[i]
    BY <2>2, <2>3, EmsPutVcpi DEF EmsHeld
  <2>7. EmsHeld(r.pm, y)
    BY <2>5, <1>2, <1>4, <1>6, <1>7, <2>2, EmsVcpiGiven
  <2>9. FrameHeld(r.pm, y, hwFrame)
    BY <2>5, <1>4, FrameKnown, <1>6, <2>7, FrameFromEntries DEF FrameEntry
  <2> QED
    BY <1>4, <1>7, <2>1, <2>3, <2>7, <2>9, <1>5, <1>6, ServedGiven
<1>8. CASE r.status # "OK"
  <2>1. PICK bad \in BOOLEAN : bad = PageFault(r.status)
    <3>1. PageFault(r.status) \in BOOLEAN
      BY DEF PageFault
    <3> QED
      BY <3>1
  <2> QED
    BY <1>4, <1>8, <2>1, <1>6, EmsRefused
<1> QED
  BY <1>7, <1>8

(* dos_ems_query_pages and the platform's calls *)
LEMMA EmsDoubtHeld ==
  ASSUME PagesHeld(pm), mem \in [Units -> Values], EmsHeld(pm, ems), FrameHeld(pm, ems, hwFrame),
         EmsQuery \/ \E result \in PlatformResults : VcpiPlatformCall(result)
  PROVE  Served(pm, pm', mem', "ems") /\ EmsHeld(pm', ems') /\ FrameHeld(pm', ems', hwFrame')
<1> QED
  BY EmsRefused DEF SameLive, Unmoved, EmsQuery, VcpiPlatformCall, EmsReady

(* A slot of the frame put to another entry. *)
LEMMA EmsPutFrame ==
  ASSUME NEW e \in EmsManagerState, NEW s \in FrameSlots, NEW f,
         f \in [handle : 0 .. EmsHandleCount, logical : 0 .. LastPage, page : 0 .. LastPage]
  PROVE  LET y == [e EXCEPT !.frame[s] = f]
         IN  /\ y \in EmsManagerState /\ y.handles = e.handles /\ y.vcpi = e.vcpi
             /\ y.poisoned = e.poisoned /\ y.frame[s] = f
             /\ \A i \in FrameSlots \ {s} : y.frame[i] = e.frame[i]
<1>1. PICK y : y = [e EXCEPT !.frame[s] = f]
  OBVIOUS
<1>2. PICK t : t = [e.frame EXCEPT ![s] = f]
  OBVIOUS
<1>3. PICK R : R = [handle : 0 .. EmsHandleCount, logical : 0 .. LastPage, page : 0 .. LastPage]
  OBVIOUS
<1> QED
  BY <1>1, <1>2, <1>3 DEF EmsManagerState

(* The mapper showed an entry that EMS records, or an entry that EMS gave up on. *)
LEMMA EmsShown ==
  ASSUME PagesHeld(pm), EmsHeld(pm, ems), FrameHeld(pm, ems, hwFrame), ~ems.poisoned,
         NEW s \in FrameSlots, NEW f,
         f \in [handle : 0 .. EmsHandleCount, logical : 0 .. LastPage, page : 0 .. LastPage],
         FrameEntry(ems, f), NEW w, w = [hwFrame EXCEPT ![s] = f.page]
  PROVE  /\ EmsHeld(pm, [ems EXCEPT !.frame[s] = f]) /\ FrameHeld(pm, [ems EXCEPT !.frame[s] = f], w)
         /\ EmsHeld(pm, PoisonEms(TRUE)) /\ FrameHeld(pm, PoisonEms(TRUE), w)
<1>1. PICK y : y = [ems EXCEPT !.frame[s] = f]
  OBVIOUS
<1>2. ems \in EmsManagerState
  BY DEF EmsHeld
<1>3. /\ y \in EmsManagerState /\ y.handles = ems.handles /\ y.vcpi = ems.vcpi
      /\ y.poisoned = ems.poisoned /\ y.frame[s] = f
      /\ \A i \in FrameSlots \ {s} : y.frame[i] = ems.frame[i]
  BY <1>1, <1>2, EmsPutFrame
<1>4. SameLive(pm, pm) /\ Foreign(pm, pm, "ems")
  BY DEF SameLive, Unmoved, Foreign
<1>5. EmsHeld(pm, y)
  BY <1>3, <1>4, EmsKept
<1>6. /\ hwFrame = [i \in FrameSlots |-> ems.frame[i].page]
      /\ \A i \in FrameSlots : FrameEntry(ems, ems.frame[i])
  BY FrameKnown
<1>7. \A i \in FrameSlots : FrameEntry(y, y.frame[i])
  BY <1>3, <1>6 DEF FrameEntry
<1>9. FrameHeld(pm, y, w)
  BY <1>5, <1>7, <1>3, <1>6, FrameFromEntries
<1>10. PICK z : z = PoisonEms(TRUE)
  OBVIOUS
<1> QED
  BY <1>1, <1>5, <1>9, <1>10, <1>4, <1>2, EmsFlagged, EmsKept DEF FrameHeld, PoisonEms

(* What may follow from the mapper's answer about one slot. *)
LEMMA EmsMapped ==
  ASSUME PagesHeld(pm), mem \in [Units -> Values], EmsHeld(pm, ems), FrameHeld(pm, ems, hwFrame),
         ~ems.poisoned, NEW s \in FrameSlots, NEW result \in FrameResults, NEW f,
         f \in [handle : 0 .. EmsHandleCount, logical : 0 .. LastPage, page : 0 .. LastPage],
         FrameEntry(ems, f), MapperDid(result, s, f.page), pm' = pm, mem' = mem,
         ems' = IF result = "OK" THEN [ems EXCEPT !.frame[s] = f] ELSE PoisonEms(result = "UNCERTAIN")
  PROVE  Served(pm, pm', mem', "ems") /\ EmsHeld(pm', ems') /\ FrameHeld(pm', ems', hwFrame')
<1>1. PICK w : w = [hwFrame EXCEPT ![s] = f.page]
  OBVIOUS
<1>2. /\ EmsHeld(pm, [ems EXCEPT !.frame[s] = f]) /\ FrameHeld(pm, [ems EXCEPT !.frame[s] = f], w)
      /\ EmsHeld(pm, PoisonEms(TRUE)) /\ FrameHeld(pm, PoisonEms(TRUE), w)
  BY <1>1, EmsShown
<1>3. SameLive(pm, pm) /\ TRUE \in BOOLEAN /\ FALSE \in BOOLEAN
  BY DEF SameLive, Unmoved
<1>4. /\ Served(pm, pm, mem, "ems") /\ EmsHeld(pm, PoisonEms(TRUE))
      /\ FrameHeld(pm, PoisonEms(TRUE), hwFrame)
  BY <1>3, EmsRefused
<1>7. CASE result = "OK"
  BY <1>1, <1>7, <1>2, <1>4 DEF MapperDid
<1>8. CASE result = "FAULT"
  BY <1>8, <1>4, <1>3, EmsRefused DEF MapperDid
<1>9. CASE result = "UNCERTAIN"
  BY <1>9, <1>1, <1>2, <1>4 DEF MapperDid
<1> QED
  BY EmsAssumption, <1>7, <1>8, <1>9

(* map_handle_page and unmap_frame_slot *)
LEMMA EmsMapHeld ==
  ASSUME PagesHeld(pm), mem \in [Units -> Values], EmsHeld(pm, ems), FrameHeld(pm, ems, hwFrame),
         NEW s \in FrameSlots, NEW k \in EmsHandles, NEW l \in 0 .. LastPage,
         NEW result \in FrameResults, EmsMap(s, k, l, result)
  PROVE  Served(pm, pm', mem', "ems") /\ EmsHeld(pm', ems') /\ FrameHeld(pm', ems', hwFrame')
<1>1. /\ ~ems.poisoned /\ ems.handles[k].lease # NoLease /\ l < ems.handles[k].count
      /\ pm' = pm /\ mem' = mem
  BY DEF EmsMap, EmsReady, InUse
<1>2. l \in Nat
  BY PagesAssumption
<1>3. PICK p : p = ems.handles[k].page + l * NativePerPage
  OBVIOUS
<1>4. p \in Pages /\ (l + 1) * NativePerPage <= ems.handles[k].capacity
  BY <1>1, <1>2, <1>3, EntryShown
<1>5. ~((l + 1) * NativePerPage > ems.handles[k].capacity)
  <2>1. PICK a \in Nat, b \in Nat : a = (l + 1) * NativePerPage /\ b = ems.handles[k].capacity
    <3>2. (l + 1) * NativePerPage \in Nat
      BY <1>2, EmsAssumption
    <3> QED
      BY <1>1, EmsHandleOwned, <3>2
  <2> QED
    BY <2>1, <1>4
<1>6. PICK f : f = [handle |-> k, logical |-> l, page |-> p]
  OBVIOUS
<1> QED
  BY <1>1, <1>3, <1>5, <1>6, <1>4, PagesAssumption, EmsAssumption, EmsMapped
  DEF EmsMap, Pages, EmsHandles, FrameEntry

(* unmap_frame_slot *)
LEMMA EmsUnmapHeld ==
  ASSUME PagesHeld(pm), mem \in [Units -> Values], EmsHeld(pm, ems), FrameHeld(pm, ems, hwFrame),
         NEW s \in FrameSlots, NEW result \in FrameResults, EmsUnmap(s, result)
  PROVE  Served(pm, pm', mem', "ems") /\ EmsHeld(pm', ems') /\ FrameHeld(pm', ems', hwFrame')
<1>1. PICK f : f = Unmapped
  OBVIOUS
<1> QED
  BY <1>1, PagesAssumption, EmsAssumption, EmsMapped
  DEF EmsUnmap, EmsReady, Unmapped, FrameEntry

(* EMS gives up after some slots of the frame were taken away. *)
LEMMA EmsLess ==
  ASSUME EmsHeld(pm, ems), FrameHeld(pm, ems, hwFrame), NEW g, SameLive(pm, g), NEW v,
         v = [s \in FrameSlots |-> v[s]], \A s \in FrameSlots : v[s] \in {0, hwFrame[s]}
  PROVE  EmsHeld(g, PoisonEms(TRUE)) /\ FrameHeld(g, PoisonEms(TRUE), v)
<1>1. PICK y : y = PoisonEms(TRUE)
  OBVIOUS
<1>4. Foreign(pm, g, "ems")
  BY ForeignSame
<1> QED
  BY <1>1, EmsFlagged, <1>4, EmsKept, FrameLess DEF PoisonEms, EmsHeld

(* restore_frame_slots *)
LEMMA RestoreHeld ==
  ASSUME PagesHeld(pm), EmsHeld(pm, ems), FrameHeld(pm, ems, hwFrame), ~ems.poisoned,
         NEW g, NEW m \in [Units -> Values], PagesHeld(g), g.available = pm.available,
         SameLive(pm, g), NEW out, NEW back, RestoreFrameSlots(out, back)
  PROVE  EmsHeld(g, ems') /\ FrameHeld(g, ems', hwFrame')
<1>1. PICK failed : failed = {s \in out : back[s] # "OK"}
  OBVIOUS
<1>2. PICK shown : shown = {s \in out : \A t \in failed : t < s}
  OBVIOUS
<1>3. /\ hwFrame' = [s \in FrameSlots |-> IF s \in out \ shown THEN 0 ELSE hwFrame[s]]
      /\ ems' = PoisonEms(failed # {})
  BY <1>1, <1>2 DEF RestoreFrameSlots
<1>4. CASE failed = {}
  BY <1>2, <1>4, <1>3, EmsRefused DEF FrameHeld
<1>5. CASE failed # {}
  <2>3. PICK v : v = hwFrame'
    OBVIOUS
  <2>4. v = [s \in FrameSlots |-> v[s]] /\ \A s \in FrameSlots : v[s] \in {0, hwFrame[s]}
    BY <1>3, <2>3
  <2> QED
    BY <1>3, <1>5, <2>3, <2>4, EmsLess
<1> QED
  BY <1>4, <1>5

(* Handle k is free and the frame no longer shows it. *)
Returned(k, y, w) ==
  /\ y = [handles |-> [ems.handles EXCEPT ![k] = FreeEms(ems.handles[k].generation)],
          vcpi |-> ems.vcpi,
          frame |-> [s \in FrameSlots |-> IF s \in SlotsOf(k) THEN Unmapped ELSE ems.frame[s]],
          poisoned |-> ems.poisoned]
  /\ w = [s \in FrameSlots |-> IF s \in SlotsOf(k) THEN 0 ELSE hwFrame[s]]

(* Both are in order. *)
LEMMA EmsReturned ==
  ASSUME PagesHeld(pm), EmsHeld(pm, ems), FrameHeld(pm, ems, hwFrame), ~ems.poisoned,
         NEW k \in EmsHandles, ems.handles[k].lease # NoLease, NEW g, PagesHeld(g),
         Given(pm, g, ems.handles[k].lease), NEW y, NEW w, Returned(k, y, w)
  PROVE  EmsHeld(g, y) /\ FrameHeld(g, y, w)
<1>1. PICK b : b = FreeEms(ems.handles[k].generation)
  OBVIOUS
<1>2. PICK t : t = [s \in FrameSlots |-> IF s \in SlotsOf(k) THEN Unmapped ELSE ems.frame[s]]
  OBVIOUS
<1>3. PICK f : f = [ems.handles EXCEPT ![k] = b]
  OBVIOUS
<1>4. PICK R : R = [handle : 0 .. EmsHandleCount, logical : 0 .. LastPage, page : 0 .. LastPage]
  OBVIOUS
<1>5. /\ ems \in EmsManagerState /\ ems.frame \in [FrameSlots -> R]
      /\ ems.handles \in [EmsHandles -> EmsBlock] /\ Unmapped \in R
  BY <1>4, PagesAssumption, EmsAssumption DEF Unmapped, EmsHeld, EmsManagerState
<1>6. b \in EmsBlock /\ b.lease = NoLease /\ EmsBacked(g, b, NativePerPage)
  BY <1>5, <1>1, FreedBlock
<1>7. f \in [EmsHandles -> EmsBlock] /\ f[k] = b /\ \A i \in EmsHandles \ {k} : f[i] = ems.handles[i]
  BY <1>3, <1>5, <1>6
<1>9. y = [handles |-> f, vcpi |-> ems.vcpi, frame |-> t, poisoned |-> ems.poisoned]
  BY <1>1, <1>2, <1>3 DEF Returned
<1>10. y.handles = f /\ y.vcpi = ems.vcpi /\ y.frame = t /\ y.poisoned = ems.poisoned
  BY <1>9
<1>11. y \in EmsManagerState
  BY <1>5, <1>4, <1>7, <1>2, <1>9 DEF EmsManagerState
<1>12. EmsHeld(g, y)
  BY <1>6, <1>7, <1>10, <1>11, EmsHandleGiven
<1>14. ASSUME NEW s \in FrameSlots
       PROVE  FrameEntry(y, t[s]) /\ w[s] = t[s].page
  BY <1>2, FrameKnown, <1>7, <1>10 DEF SlotsOf, Returned, FrameEntry, Unmapped
<1> QED
  BY <1>12, <1>10, <1>14, FrameFromEntries DEF Returned

(* The pages of a handle go back, or the frame is restored. *)
LEMMA ReturnHandleHeld ==
  ASSUME PagesHeld(pm), mem \in [Units -> Values], EmsHeld(pm, ems), FrameHeld(pm, ems, hwFrame),
         ~ems.poisoned, NEW k \in EmsHandles, ems.handles[k].lease # NoLease,
         NEW back, NEW z \in ZeroResults,
         ReturnHandle(k, back, Release(pm, mem, "ems", ems.handles[k].lease, z))
  PROVE  Served(pm, pm', mem', "ems") /\ EmsHeld(pm', ems') /\ FrameHeld(pm', ems', hwFrame')
<1>1. PICK l : l = ems.handles[k].lease
  OBVIOUS
<1>2. PICK r : r = Release(pm, mem, "ems", l, z)
  OBVIOUS
<1>3. ReturnHandle(k, back, r)
  BY <1>1, <1>2
<1>4. PICK p, c : Owned(pm, "ems", l, p, c) /\ l.slot \in LiveOf(pm, "ems") /\ l \in Leases
  BY <1>1, EmsHandleOwned
<1>5. /\ PagesHeld(r.pm) /\ r.pm.available = pm.available /\ r.mem \in [Units -> Values]
      /\ r.status \in {"OK", "POISONED", "ZERO_FAILED"}
      /\ r.status = "OK" => Given(pm, r.pm, l)
      /\ r.status # "OK" => SameLive(pm, r.pm)
  BY <1>1, <1>2, <1>4, ReleaseOutcome
<1>6. pm' = r.pm /\ mem' = r.mem
  BY <1>3 DEF ReturnHandle
<1>7. PICK w : w = [s \in FrameSlots |-> IF s \in SlotsOf(k) THEN 0 ELSE hwFrame[s]]
  OBVIOUS
<1>8. CASE r.status = "OK"
  BY <1>3, <1>7, <1>8, <1>1, <1>5, EmsReturned, <1>4, ServedGiven, <1>6
  DEF ReturnHandle, Shows, NoneShown, EmsHeld, Returned, EmsManagerState
<1>9. CASE r.status = "POISONED"
  BY <1>9, <1>3, <1>7, <1>5, EmsLess, ServedSame, <1>6
  DEF PageFault, ReturnHandle, Shows, NoneShown
<1>10. CASE r.status = "ZERO_FAILED"
  BY <1>10, <1>3, <1>5, RestoreHeld, ServedSame, <1>6 DEF PageFault, ReturnHandle
<1> QED
  BY <1>5, <1>8, <1>9, <1>10

(* release_handle *)
LEMMA EmsReleaseHeld ==
  ASSUME PagesHeld(pm), mem \in [Units -> Values], EmsHeld(pm, ems), FrameHeld(pm, ems, hwFrame),
         NEW k \in EmsHandles, NEW unmap, NEW back, NEW z \in ZeroResults,
         EmsRelease(k, unmap, back, z)
  PROVE  Served(pm, pm', mem', "ems") /\ EmsHeld(pm', ems') /\ FrameHeld(pm', ems', hwFrame')
<1>1. PICK failing : failing = {s \in SlotsOf(k) : unmap[s] # "OK"}
  OBVIOUS
<1>2. PICK out : out = {s \in SlotsOf(k) : \A t \in failing : s < t}
  OBVIOUS
<1>3. /\ ~ems.poisoned /\ ems.handles[k].lease # NoLease
      /\ failing = {} => ReturnHandle(k, back, Release(pm, mem, "ems", ems.handles[k].lease, z))
      /\ failing # {} => UNCHANGED <<pm, mem>>
  BY <1>1, <1>2 DEF EmsRelease, EmsReady, InUse
<1>4. CASE failing = {}
  BY <1>3, <1>4, ReturnHandleHeld
<1>5. CASE failing # {}
  <2>1. pm' = pm /\ mem' = mem
    BY <1>3, <1>5
  <2>2. SameLive(pm, pm)
    BY DEF SameLive, Unmoved
  <2>3. Served(pm, pm, mem, "ems")
    BY <2>2, ServedSame
  <2>4. CASE unmap[Min(failing)] = "UNCERTAIN"
    <3>2. PICK S : hwFrame' = [s \in FrameSlots |-> IF s \in S THEN 0 ELSE hwFrame[s]]
      BY <1>1, <1>2, <1>5, <2>4 DEF EmsRelease, Shows, NoneShown
    <3>3. PICK v : v = hwFrame'
      OBVIOUS
    <3> QED
      BY <2>1, <2>3, <1>1, <1>2, <1>5, <2>4, <3>3, <2>2, <3>2, EmsLess DEF EmsRelease
  <2>5. CASE unmap[Min(failing)] # "UNCERTAIN"
    BY <1>1, <1>2, <1>5, <2>5, <1>3, <2>2, RestoreHeld, <2>1, <2>3 DEF EmsRelease
  <2> QED
    BY <2>4, <2>5
<1> QED
  BY <1>4, <1>5

(* A program writes through the page frame. *)
LEMMA WriteFrameHeld ==
  ASSUME PagesHeld(pm), mem \in [Units -> Values], EmsHeld(pm, ems), FrameHeld(pm, ems, hwFrame),
         NEW s \in FrameSlots, NEW v \in Values, WriteFrame(s, v)
  PROVE  Served(pm, pm', mem', "ems") /\ EmsHeld(pm', ems') /\ FrameHeld(pm', ems', hwFrame')
<1> QED
  BY PagesUntouched DEF WriteFrame

-----------------------------------------------------------------------------
(* The firmware shadow.                                                    *)

(* The private pages by themselves. *)
ShadowPages(g, w) ==
  /\ w \in ShadowOwner
  /\ Book(g, "space", ShadowLeases(w)) /\ (~w.poisoned => Exact(g, "space", ShadowLeases(w)))
  /\ \A i \in ShadowSlots : ShadowBacked(g, w.pages[i])

(* The leases of the private pages are leases. *)
LEMMA ShadowTable ==
  ASSUME NEW w \in ShadowOwner
  PROVE  /\ ShadowLeases(w) \in [ShadowSlots -> Leases]
         /\ \A i \in ShadowSlots : w.pages[i] \in ShadowPage /\ ShadowLeases(w)[i] = w.pages[i].lease
         /\ w.poisoned \in BOOLEAN /\ w.pages \in [ShadowSlots -> ShadowPage]
BY DEF ShadowOwner, ShadowLeases, ShadowPage

(* An entry whose lease is as it was. *)
LEMMA ShadowBackedSame ==
  ASSUME NEW g, NEW h, NEW p, NEW q, ShadowBacked(g, p), q.lease = p.lease, q.page = p.page,
         q.state = "EMPTY" => p.state = "EMPTY", p.lease = NoLease => q = p,
         p.lease # NoLease => h.leases[p.lease.slot] = g.leases[p.lease.slot]
  PROVE  ShadowBacked(h, q)
BY DEF ShadowBacked

(* What other services do, a change of state of an entry, and giving up. *)
LEMMA ShadowKept ==
  ASSUME NEW g, NEW h, NEW w, NEW y \in ShadowOwner, ShadowPages(g, w), Foreign(g, h, "space"),
         \A i \in ShadowSlots :
           /\ y.pages[i].lease = w.pages[i].lease /\ y.pages[i].page = w.pages[i].page
           /\ y.pages[i].state = "EMPTY" => w.pages[i].state = "EMPTY"
           /\ w.pages[i].lease = NoLease => y.pages[i] = w.pages[i],
         ~y.poisoned => ~w.poisoned
  PROVE  ShadowPages(h, y)
<1>1. PICK L : L = ShadowLeases(w)
  OBVIOUS
<1>3. L \in [ShadowSlots -> Leases] /\ \A i \in ShadowSlots : L[i] = w.pages[i].lease
  BY <1>1, ShadowTable DEF ShadowPages
<1>6. /\ Book(h, "space", L) /\ (Exact(g, "space", L) => Exact(h, "space", L))
      /\ \A i \in ShadowSlots : L[i] # NoLease => h.leases[L[i].slot] = g.leases[L[i].slot]
  BY <1>3, <1>1, BookForeign DEF ShadowPages
<1>7. ASSUME NEW i \in ShadowSlots
      PROVE  ShadowBacked(h, y.pages[i])
  BY <1>3, <1>6, ShadowBackedSame DEF ShadowPages
<1> QED
  BY <1>1, <1>6, <1>7 DEF ShadowPages, ShadowLeases

(* A page taken for an empty entry. *)
LEMMA ShadowTaken ==
  ASSUME NEW g, NEW h, NEW w, NEW y \in ShadowOwner, ShadowPages(g, w), y.poisoned = w.poisoned,
         NEW k \in ShadowSlots, \A i \in ShadowSlots \ {k} : y.pages[i] = w.pages[i],
         w.pages[k].lease = NoLease, y.pages[k].lease # NoLease, ShadowBacked(h, y.pages[k]),
         NEW p, NEW c, Taken(g, h, "space", y.pages[k].lease, p, c)
  PROVE  ShadowPages(h, y)
<1>1. PICK L : L = ShadowLeases(w)
  OBVIOUS
<1>2. PICK K : K = ShadowLeases(y)
  OBVIOUS
<1>4. /\ L \in [ShadowSlots -> Leases] /\ K \in [ShadowSlots -> Leases]
      /\ \A i \in ShadowSlots : L[i] = w.pages[i].lease /\ K[i] = y.pages[i].lease
  BY <1>1, <1>2, ShadowTable DEF ShadowPages
<1>6. Book(g, "space", L) /\ (~w.poisoned => Exact(g, "space", L))
  BY <1>1 DEF ShadowPages
<1>8. Rebooked(g, h, "space", ShadowSlots, L, K, k)
  BY <1>4, <1>6, BookTaken DEF Differ
<1>9. ASSUME NEW i \in ShadowSlots \ {k}
      PROVE  ShadowBacked(h, y.pages[i])
  BY <1>4, <1>8, ShadowBackedSame DEF ShadowPages, Rebooked
<1> QED
  BY <1>2, <1>9, <1>6, <1>8 DEF ShadowPages, Rebooked

(* A page given back. *)
LEMMA ShadowGiven ==
  ASSUME NEW g, NEW h, NEW w, NEW y \in ShadowOwner, ShadowPages(g, w), y.poisoned = w.poisoned,
         NEW k \in ShadowSlots, \A i \in ShadowSlots \ {k} : y.pages[i] = w.pages[i],
         w.pages[k].lease # NoLease, y.pages[k] = EmptyPage, Given(g, h, w.pages[k].lease)
  PROVE  ShadowPages(h, y)
<1>1. PICK L : L = ShadowLeases(w)
  OBVIOUS
<1>2. PICK K : K = ShadowLeases(y)
  OBVIOUS
<1>4. /\ L \in [ShadowSlots -> Leases] /\ K \in [ShadowSlots -> Leases]
      /\ \A i \in ShadowSlots : L[i] = w.pages[i].lease /\ K[i] = y.pages[i].lease
  BY <1>1, <1>2, ShadowTable DEF ShadowPages
<1>6. Book(g, "space", L) /\ (~w.poisoned => Exact(g, "space", L))
  BY <1>1 DEF ShadowPages
<1>8. Rebooked(g, h, "space", ShadowSlots, L, K, k)
  BY <1>4, <1>6, BookGiven DEF EmptyPage, Differ
<1>9. ASSUME NEW i \in ShadowSlots \ {k}
      PROVE  ShadowBacked(h, y.pages[i])
  BY <1>4, <1>8, ShadowBackedSame DEF ShadowPages, Rebooked
<1> QED
  BY <1>2, <1>9, <1>6, <1>8 DEF ShadowPages, Rebooked, ShadowBacked, EmptyPage

(* y is w with entry k put to p. *)
Replaced(w, y, k, p, corrupted) ==
  y = [clients |-> w.clients, pages |-> [w.pages EXCEPT ![k] = p], execution |-> w.execution,
       poisoned |-> w.poisoned, corrupted |-> corrupted]

(* An entry of the owner's table put to another. *)
LEMMA ShadowPut ==
  ASSUME NEW w \in ShadowOwner, NEW k \in ShadowSlots, NEW p \in ShadowPage, NEW corrupted \in BOOLEAN,
         NEW y, Replaced(w, y, k, p, corrupted)
  PROVE  /\ y \in ShadowOwner /\ y.clients = w.clients /\ y.poisoned = w.poisoned
         /\ y.pages[k] = p /\ \A i \in ShadowSlots \ {k} : y.pages[i] = w.pages[i]
<1>1. PICK f : f = [w.pages EXCEPT ![k] = p]
  OBVIOUS
<1> QED
  BY <1>1, ShadowTable DEF ShadowOwner, Replaced

(* The pages of an execution on their way back: everything is in order but the *)
(* pages that are left.                                                        *)
Underway(st) ==
  /\ st = Step(st.shadow, st.pte, st.pm, st.mem, st.status)
  /\ Served(pm, st.pm, st.mem, "space") /\ ShadowPages(st.pm, st.shadow)
  /\ st.pte \in [RomPages -> Pages \cup {Identity, StrayEntry}] /\ Aliased(st.shadow, st.pte)
  /\ st.shadow.clients = shadow.clients /\ ~st.shadow.poisoned
  /\ st.status \in {"OK", "RETRY", "POISONED"}

(* The parts of a step. *)
LEMMA StepParts ==
  ASSUME NEW s, NEW t, NEW g, NEW m, NEW status
  PROVE  /\ Step(s, t, g, m, status).shadow = s /\ Step(s, t, g, m, status).pte = t
         /\ Step(s, t, g, m, status).pm = g /\ Step(s, t, g, m, status).mem = m
         /\ Step(s, t, g, m, status).status = status
BY DEF Step

(* The alias goes before the page does. *)
LEMMA TakenDown ==
  ASSUME NEW st, Underway(st), NEW k \in ShadowSlots, st.shadow.pages[k].state # "EMPTY"
  PROVE  LET d == TakeDown(st, k)
         IN  /\ Underway(d) /\ d.pm = st.pm /\ d.mem = st.mem /\ d.status = st.status
             /\ d.shadow.pages[k].state \notin {"ACTIVE", "EMPTY"}
             /\ d.shadow.pages[k].lease = st.shadow.pages[k].lease
             /\ \A i \in ShadowSlots \ {k} : d.shadow.pages[i] = st.shadow.pages[i]
<1>1. PICK w, p, t : w = st.shadow /\ p = w.pages[k] /\ t = st.pte
  OBVIOUS
<1>2. /\ w \in ShadowOwner /\ ShadowPages(st.pm, w) /\ Aliased(w, t)
      /\ t \in [RomPages -> Pages \cup {Identity, StrayEntry}]
  BY <1>1 DEF Underway, ShadowPages
<1>3. p \in ShadowPage /\ p.state # "EMPTY"
  BY <1>1, <1>2, ShadowTable
<1>4. PICK d : d = TakeDown(st, k)
  OBVIOUS
<1>5. CASE p.state # "ACTIVE"
  BY <1>1, <1>4, <1>5, <1>3 DEF TakeDown
<1>6. CASE p.state = "ACTIVE"
  <2>1. PICK q : q = [p EXCEPT !.state = "RESTORED"]
    OBVIOUS
  <2>2. /\ q \in ShadowPage /\ q.lease = p.lease /\ q.page = p.page /\ q.state = "RESTORED"
    BY <1>3, <2>1 DEF ShadowPage
  <2>3. PICK bad \in BOOLEAN : bad = (w.corrupted \/ ~RestoreIsClean(t, p.rom, p.page))
    OBVIOUS
  <2>4. PICK y : y = [st.shadow EXCEPT !.pages[k].state = "RESTORED",
                        !.corrupted = @ \/ ~RestoreIsClean(st.pte, st.shadow.pages[k].rom,
                                                           st.shadow.pages[k].page)]
    OBVIOUS
  <2>5. Replaced(w, y, k, q, bad)
    BY <1>1, <2>4, <1>2, <2>1, <2>3 DEF ShadowOwner, ShadowPage, Replaced
  <2>6. PICK u : u = Restored(st.pte, st.shadow.pages[k].rom)
    OBVIOUS
  <2>8. d = Step(y, u, st.pm, st.mem, st.status)
    BY <1>1, <1>6, <1>4, <2>4, <2>6, Zenon DEF Underway, Step, TakeDown
  <2>9. /\ y \in ShadowOwner /\ y.clients = w.clients /\ y.poisoned = w.poisoned
        /\ y.pages[k] = q /\ \A i \in ShadowSlots \ {k} : y.pages[i] = w.pages[i]
    BY <1>2, <2>2, <2>5, ShadowPut
  <2>10. p.lease # NoLease
    <3>1. ShadowBacked(st.pm, p)
      BY <1>1, <1>2 DEF ShadowPages
    <3> QED
      BY <1>3, <3>1 DEF ShadowBacked, EmptyPage
  <2>13. Aliased(y, u)
    <3>1. SUFFICES ASSUME NEW r \in RomPages, u[r] \in Pages
                   PROVE  \E i \in ShadowSlots : /\ y.pages[i].state = "ACTIVE" /\ y.pages[i].rom = r
                                                 /\ y.pages[i].page = u[r]
      BY DEF Aliased
    <3>3. r # p.rom /\ u[r] = t[r]
      BY <1>1, <1>2, <2>6, <3>1, PagesAssumption DEF Restored, Identity, Pages
    <3>4. PICK i \in ShadowSlots : w.pages[i].state = "ACTIVE" /\ w.pages[i].rom = r /\ w.pages[i].page = t[r]
      BY <1>2, <3>1, <3>3 DEF Aliased
    <3> QED
      BY <2>9, <3>3, <3>4, <1>1
  <2>14. /\ d.shadow = y /\ d.pte = u /\ d.pm = st.pm /\ d.mem = st.mem /\ d.status = st.status
    BY <2>8, StepParts
  <2>15. Underway(d)
    BY <1>1, <2>8, <2>9, <2>2, <2>10, <1>2, ShadowKept, <2>6, <2>13, <2>14
    DEF Underway, Restored, Foreign
  <2> QED
    BY <1>1, <1>4, <2>9, <2>14, <2>15, <2>2
<1> QED
  BY <1>5, <1>6

(* release_private_page *)
LEMMA PrivateReleased ==
  ASSUME NEW st, Underway(st), NEW k \in ShadowSlots, st.shadow.pages[k].state # "EMPTY",
         NEW z \in ZeroResults
  PROVE  LET b == ReleasePrivatePage(st, k, z)
         IN  /\ Underway(b)
             /\ b.status = "OK" => b.shadow.pages[k].state = "EMPTY"
             /\ \A i \in ShadowSlots \ {k} : b.shadow.pages[i] = st.shadow.pages[i]
<1>1. PICK d : d = TakeDown(st, k)
  OBVIOUS
<1>2. /\ Underway(d) /\ d.pm = st.pm /\ d.mem = st.mem
      /\ d.shadow.pages[k].state \notin {"ACTIVE", "EMPTY"}
      /\ d.shadow.pages[k].lease = st.shadow.pages[k].lease
      /\ \A i \in ShadowSlots \ {k} : d.shadow.pages[i] = st.shadow.pages[i]
  BY <1>1, TakenDown
<1>3. PICK w, p, g, m : w = d.shadow /\ p = w.pages[k] /\ g = d.pm /\ m = d.mem
  OBVIOUS
<1>4. /\ w \in ShadowOwner /\ ShadowPages(g, w) /\ Served(pm, g, m, "space") /\ Aliased(w, d.pte)
      /\ d.pte \in [RomPages -> Pages \cup {Identity, StrayEntry}]
      /\ w.clients = shadow.clients /\ ~w.poisoned
  BY <1>2, <1>3 DEF Underway, ShadowPages
<1>5. PagesHeld(g) /\ m \in [Units -> Values] /\ g.available = pm.available
  BY <1>4 DEF Served
<1>6. PICK l : l = p.lease
  OBVIOUS
<1>7. ShadowBacked(g, p) /\ p.state # "EMPTY" /\ p.state # "ACTIVE"
  BY <1>2, <1>3, <1>4 DEF ShadowPages
<1>8. l # NoLease
  BY <1>6, <1>7 DEF ShadowBacked, EmptyPage
<1>9. l \in Leases /\ l.slot \in LiveOf(g, "space") /\ Owned(g, "space", l, p.page, 1)
  <2>1. ShadowLeases(w) \in [ShadowSlots -> Leases] /\ ShadowLeases(w)[k] = l
    BY <1>3, <1>4, <1>6, ShadowTable
  <2> QED
    BY <2>1, <1>4, <1>8, <1>6, <1>7, <1>5, ManagerFields
    DEF Owned, LeaseSlot, ShadowBacked, PagesHeld, LiveOf, NameOf, ShadowPages, Book
<1>10. PICK r : r = Release(g, m, "space", l, z)
  OBVIOUS
<1>11. /\ PagesHeld(r.pm) /\ r.pm.available = g.available /\ r.mem \in [Units -> Values]
       /\ r.status \in {"OK", "POISONED", "ZERO_FAILED"}
       /\ r.status = "OK" => Given(g, r.pm, l)
       /\ r.status # "OK" => SameLive(g, r.pm)
  BY <1>5, <1>8, <1>9, <1>10, ReleaseOutcome
<1>13. PICK b : b = ReleasePrivatePage(st, k, z)
  OBVIOUS
<1>15. PICK y : y = [w EXCEPT !.pages[k] = IF r.status = "OK" THEN EmptyPage ELSE @]
  OBVIOUS
<1>16. PICK status : status = CASE r.status = "OK" -> "OK"
                                [] r.status = "ZERO_FAILED" -> "RETRY"
                                [] OTHER -> "POISONED"
  OBVIOUS
<1>17. b = Step(y, d.pte, r.pm, r.mem, status)
  BY <1>3, <1>1, <1>2, <1>6, <1>10, <1>13, <1>15, <1>16, Zenon
  DEF GiveBack, ReleasePrivatePage
<1>18. /\ status \in {"OK", "RETRY", "POISONED"} /\ (status = "OK" => r.status = "OK")
  BY <1>11, <1>16
<1>19. PICK q : q = IF r.status = "OK" THEN EmptyPage ELSE p
  OBVIOUS
<1>20. /\ y \in ShadowOwner /\ y.clients = w.clients /\ y.poisoned = w.poisoned
       /\ y.pages[k] = q /\ \A i \in ShadowSlots \ {k} : y.pages[i] = w.pages[i]
  <2>1. q \in ShadowPage
    BY PagesAssumption, <1>3, <1>4, <1>19, ShadowTable
    DEF NoLease, Leases, EmptyPage, ShadowPage
  <2>3. Replaced(w, y, k, q, w.corrupted)
    BY <1>3, <1>4, <1>15, <1>19 DEF ShadowOwner, Replaced
  <2> QED
    BY <1>4, <2>1, <2>3, ShadowPut DEF ShadowOwner
<1>22. Aliased(y, d.pte)
  <2>1. SUFFICES ASSUME NEW j \in RomPages, d.pte[j] \in Pages
                 PROVE  \E i \in ShadowSlots : /\ y.pages[i].state = "ACTIVE" /\ y.pages[i].rom = j
                                               /\ y.pages[i].page = d.pte[j]
    BY DEF Aliased
  <2>2. PICK i \in ShadowSlots : /\ w.pages[i].state = "ACTIVE" /\ w.pages[i].rom = j
                                 /\ w.pages[i].page = d.pte[j]
    BY <1>4, <2>1 DEF Aliased
  <2> QED
    BY <1>20, <2>2, <1>3, <1>7
<1>23. b.shadow = y /\ b.pte = d.pte /\ b.pm = r.pm /\ b.mem = r.mem /\ b.status = status
  BY <1>17, StepParts
<1>24. Underway(b)
  BY <1>4, <1>9, <1>11, ServedGiven, ServedSame, ServedChain, <1>17, <1>18, <1>20, <1>3,
     <1>6, <1>8, <1>19, ShadowGiven, ForeignSame, ShadowKept, <1>22, <1>23 DEF Underway
<1> QED
  BY <1>13, <1>24, <1>18, <1>19, <1>20, <1>23, <1>2, <1>3 DEF EmptyPage

(* The walk of ReleasePages: a[n] is where it stands after n slots. *)
WalkStep(a, z, i) ==
  IF a.status # "OK" \/ a.shadow.pages[i].state = "EMPTY" THEN a
  ELSE ReleasePrivatePage(a, i, z[i])
Walking(st, z, n, a) ==
  a = [j \in 0 .. n |-> IF j = 0 THEN st ELSE WalkStep(a[j - 1], z, ShadowCapacity - j + 1)]

(* There is such a walk. *)
LEMMA WalkExists ==
  ASSUME NEW st, NEW z, NEW n \in Nat
  PROVE  \E a : Walking(st, z, n, a)
<1> DEFINE S == {i \in 0 .. n : \E a : Walking(st, z, i, a)}
<1>1. 0 \in S
  <2>1. PICK a : a = [j \in 0 .. 0 |-> st]
    OBVIOUS
  <2> QED
    BY <2>1 DEF Walking
<1>2. ASSUME NEW i \in 0 .. n, i \in S, i < n
      PROVE  i + 1 \in S
  <2>1. PICK a : Walking(st, z, i, a)
    BY <1>2
  <2>2. PICK b : b = [j \in 0 .. i + 1 |->
                        IF j = i + 1 THEN WalkStep(a[i], z, ShadowCapacity - (i + 1) + 1) ELSE a[j]]
    OBVIOUS
  <2>3. ASSUME NEW j \in 0 .. i + 1
        PROVE  b[j] = IF j = 0 THEN st ELSE WalkStep(b[j - 1], z, ShadowCapacity - j + 1)
    BY <2>2, <2>1 DEF Walking
  <2>5. Walking(st, z, i + 1, b)
    BY <2>3, <2>2 DEF Walking
  <2> QED
    BY <1>2, <2>5
<1> HIDE DEF S
<1>3. 0 .. n \subseteq S
  BY <1>1, <1>2, UpTo
<1> QED
  BY <1>3 DEF S

(* The walk leaves everything in order and, when nothing stops it, no page. *)
LEMMA PagesReleased ==
  ASSUME NEW st, Underway(st), NEW z \in [ShadowSlots -> ZeroResults]
  PROVE  LET b == ReleasePages(st, z)
         IN  Underway(b) /\ (b.status = "OK" => UsedPages(b.shadow) = {})
<1>1. PICK c \in Nat : c = ShadowCapacity
  BY ShadowAssumption
<1>2. PICK a : a = CHOOSE x : Walking(st, z, c, x)
  OBVIOUS
<1>3. Walking(st, z, c, a)
  BY <1>2, WalkExists
<1>5. \A j \in 0 .. c : a[j] = IF j = 0 THEN st ELSE WalkStep(a[j - 1], z, c - j + 1)
  BY <1>1, <1>3 DEF Walking
<1> DEFINE Gone(j) == a[j].status = "OK" =>
                        \A i \in ShadowSlots : i > c - j => a[j].shadow.pages[i].state = "EMPTY"
           S == {j \in 0 .. c : Underway(a[j]) /\ Gone(j)}
<1>6. 0 \in S
  BY <1>5, <1>1 DEF ShadowSlots
<1>7. ASSUME NEW j \in 0 .. c, j \in S, j < c
      PROVE  j + 1 \in S
  <2>1. PICK k : k = c - j
    OBVIOUS
  <2>2. /\ j + 1 \in 0 .. c /\ j + 1 # 0 /\ (j + 1) - 1 = j /\ c - (j + 1) + 1 = k
        /\ k \in ShadowSlots /\ \A i \in ShadowSlots : i > c - (j + 1) => i = k \/ i > c - j
    BY <1>1, <1>7, <2>1 DEF ShadowSlots
  <2>3. a[j + 1] = WalkStep(a[j], z, k)
    BY <1>5, <2>2
  <2>4. Underway(a[j]) /\ Gone(j)
    BY <1>7
  <2>5. CASE a[j].status # "OK" \/ a[j].shadow.pages[k].state = "EMPTY"
    BY <2>3, <2>5, <2>2, <2>4 DEF WalkStep
  <2>6. CASE ~(a[j].status # "OK" \/ a[j].shadow.pages[k].state = "EMPTY")
    BY <2>2, <2>3, <2>6, <2>4, PrivateReleased DEF WalkStep
  <2> QED
    BY <2>5, <2>6
<1> HIDE DEF S
<1>8. 0 .. c \subseteq S
  BY <1>6, <1>7, UpTo
<1>9. Underway(a[c]) /\ Gone(c)
  BY <1>8 DEF S
<1>10. \A i \in ShadowSlots : i > c - c
  BY <1>1 DEF ShadowSlots
<1> QED
  BY <1>1, <1>2, <1>9, <1>10 DEF UsedPages, ReleasePages, Walking, WalkStep

(* The poison of the space is a flag. *)
LEMMA SpaceFlag ==
  ASSUME space \in [poisoned : BOOLEAN], NEW bad, Poisons(bad)
  PROVE  space' \in [poisoned : BOOLEAN]
BY DEF Poisons

(* Clients and flags of the owner change, its pages do not. *)
LEMMA ShadowTagged ==
  ASSUME NEW w \in ShadowOwner, NEW y, NEW execution \in 0 .. ShadowGenerationMax,
         NEW poisoned \in BOOLEAN, NEW clients,
         clients \in [Clients -> [generation : 0 .. ShadowGenerationMax,
                                  execution : 0 .. ShadowGenerationMax, active : BOOLEAN]],
         y = [clients |-> clients, pages |-> w.pages, execution |-> execution,
              poisoned |-> poisoned, corrupted |-> w.corrupted]
  PROVE  /\ y \in ShadowOwner /\ y.pages = w.pages /\ y.clients = clients
         /\ y.poisoned = poisoned
<1> QED
  BY DEF ShadowOwner

(* What an owner that differs in its clients and flags needs to be in order. *)
LEMMA ShadowSettled ==
  ASSUME NEW g, NEW w, ShadowPages(g, w), NEW t, Aliased(w, t),
         t \in [RomPages -> Pages \cup {Identity, StrayEntry}],
         NEW y \in ShadowOwner, y.pages = w.pages, ~y.poisoned => ~w.poisoned,
         ~y.poisoned /\ ActiveClients(y) = {} => UsedPages(w) = {}
  PROVE  ShadowHeld(g, y, t)
<1> QED
  BY ShadowKept DEF ShadowHeld, ShadowPages, UsedPages, Foreign, Aliased

(* The parts of what is held. *)
LEMMA ShadowParts ==
  ASSUME NEW g, NEW w, NEW t, ShadowHeld(g, w, t)
  PROVE  /\ ShadowPages(g, w) /\ Aliased(w, t) /\ w \in ShadowOwner
         /\ t \in [RomPages -> Pages \cup {Identity, StrayEntry}]
         /\ ~w.poisoned /\ ActiveClients(w) = {} => UsedPages(w) = {}
         /\ w.clients \in [Clients -> [generation : 0 .. ShadowGenerationMax,
                                       execution : 0 .. ShadowGenerationMax, active : BOOLEAN]]
         /\ w.execution \in 0 .. ShadowGenerationMax /\ w.poisoned \in BOOLEAN
<1> QED
  BY DEF ShadowHeld, ShadowPages, ShadowOwner

(* x86_firmware_shadow_execution_acquire *)
LEMMA AcquireHeld ==
  ASSUME PagesHeld(pm), mem \in [Units -> Values], space \in [poisoned : BOOLEAN],
         ShadowHeld(pm, shadow, pte), AcquireExecution
  PROVE  /\ Served(pm, pm', mem', "space") /\ ShadowHeld(pm', shadow', pte')
         /\ space' \in [poisoned : BOOLEAN]
<1>1. PICK T : T = [generation : 0 .. ShadowGenerationMax,
                    execution : 0 .. ShadowGenerationMax, active : BOOLEAN]
  OBVIOUS
<1>2. PICK first : first = (ActiveClients(shadow) = {})
  OBVIOUS
<1>3. PICK spent : spent = (first /\ (UsedPages(shadow) # {}
                                      \/ shadow.execution >= ShadowGenerationMax))
  OBVIOUS
<1>4. PICK e : e = IF first THEN shadow.execution + 1 ELSE shadow.execution
  OBVIOUS
<1>5. PICK free : free = AcquirableClients(shadow)
  OBVIOUS
<1>6. /\ shadow' =
           CASE spent -> [shadow EXCEPT !.poisoned = TRUE]
             [] ~spent /\ free = {} -> [shadow EXCEPT !.execution = e]
             [] OTHER ->
                  [shadow EXCEPT !.execution = e,
                     !.clients[Min(free)] = [generation |-> @.generation + 1,
                                             execution |-> e, active |-> TRUE]]
      /\ Poisons(spent) /\ pm' = pm /\ mem' = mem /\ pte' = pte /\ ~shadow.poisoned
  BY <1>2, <1>3, <1>4, <1>5 DEF AcquireExecution
<1>7. /\ ShadowPages(pm, shadow) /\ Aliased(shadow, pte) /\ shadow \in ShadowOwner
      /\ pte \in [RomPages -> Pages \cup {Identity, StrayEntry}]
      /\ ActiveClients(shadow) = {} => UsedPages(shadow) = {}
      /\ shadow.clients \in [Clients -> T]
      /\ shadow.execution \in 0 .. ShadowGenerationMax /\ shadow.poisoned = FALSE
  BY <1>1, <1>6, ShadowParts
<1>9. ~spent => e \in 0 .. ShadowGenerationMax
  <2>1. PICK x \in Nat, top \in Nat : x = shadow.execution /\ top = ShadowGenerationMax /\ x <= top
    BY <1>7, ShadowAssumption
  <2>2. ~spent /\ first => ~(x >= top)
    BY <1>3, <2>1
  <2> QED
    BY <2>1, <2>2, <1>4
<1>10. SUFFICES ShadowHeld(pm, shadow', pte)
  BY <1>6, PagesUntouched, SpaceFlag
<1>11. CASE spent
  BY <1>6, <1>7, <1>11, <1>1, ShadowTagged, ShadowSettled DEF ShadowOwner
<1>12. CASE ~spent /\ free = {}
  BY <1>6, <1>7, <1>12, <1>1, <1>9, ShadowTagged, ShadowSettled
  DEF ShadowOwner, ActiveClients
<1>13. CASE ~spent /\ free # {}
  <2>1. PICK c : c = Min(free)
    OBVIOUS
  <2>2. c \in Clients /\ shadow.clients[c].generation < ShadowGenerationMax
    BY <1>5, <1>13, <2>1, MinIs DEF AcquirableClients, Clients
  <2>3. PICK v : v = [generation |-> shadow.clients[c].generation + 1, execution |-> e, active |-> TRUE]
    OBVIOUS
  <2>4. v \in T /\ v.active
    BY <1>1, <1>7, <2>2, ShadowAssumption, <1>9, <1>13, <2>3
  <2>5. PICK clients : clients = [shadow.clients EXCEPT ![c] = v]
    OBVIOUS
  <2>6. clients \in [Clients -> T] /\ clients[c] = v
    BY <1>7, <2>2, <2>4, <2>5
  <2>8. /\ shadow' \in ShadowOwner /\ shadow'.pages = shadow.pages
        /\ shadow'.clients = clients
    BY <1>1, <1>7, <1>9, <1>13, <2>6, <1>6, <2>1, <2>3, <2>5, ShadowTagged
    DEF ShadowOwner
  <2> QED
    BY <1>6, <1>7, <2>8, <2>2, <2>4, <2>6, ShadowSettled DEF ActiveClients
<1> QED
  BY <1>11, <1>12, <1>13

(* y is w after a client stayed or left. *)
LeftBy(w, y, c, active, bad) ==
  y = [w EXCEPT !.clients[c].active = active, !.poisoned = bad]

(* The pages stay, and so do the other clients. *)
LEMMA ClientLeft ==
  ASSUME NEW w \in ShadowOwner, NEW c \in Clients, NEW active \in BOOLEAN, NEW bad \in BOOLEAN,
         NEW y, LeftBy(w, y, c, active, bad)
  PROVE  /\ y \in ShadowOwner /\ y.pages = w.pages /\ y.poisoned = bad
         /\ y.clients[c].active = active
         /\ \A d \in Clients \ {c} : y.clients[d] = w.clients[d]
<1>1. PICK T : T = [generation : 0 .. ShadowGenerationMax,
                    execution : 0 .. ShadowGenerationMax, active : BOOLEAN]
  OBVIOUS
<1>2. w.clients \in [Clients -> T] /\ w.execution \in 0 .. ShadowGenerationMax
  BY <1>1 DEF ShadowOwner
<1>3. PICK v, f : v = [w.clients[c] EXCEPT !.active = active] /\ f = [w.clients EXCEPT ![c] = v]
  OBVIOUS
<1>4. v \in T /\ v.active = active
  BY <1>1, <1>2, <1>3
<1>5. f \in [Clients -> T] /\ f[c] = v /\ \A d \in Clients \ {c} : f[d] = w.clients[d]
  BY <1>2, <1>3, <1>4
<1>7. y \in ShadowOwner /\ y.pages = w.pages /\ y.clients = f /\ y.poisoned = bad
  BY <1>1, <1>2, <1>5, <1>3, ShadowTagged DEF LeftBy, ShadowOwner
<1> QED
  BY <1>4, <1>5, <1>7

(* x86_firmware_shadow_execution_release *)
LEMMA ReleaseExecutionHeld ==
  ASSUME PagesHeld(pm), mem \in [Units -> Values], space \in [poisoned : BOOLEAN],
         ShadowHeld(pm, shadow, pte), NEW c \in Clients,
         NEW z \in [ShadowSlots -> ZeroResults], ReleaseExecution(c, z)
  PROVE  /\ Served(pm, pm', mem', "space") /\ ShadowHeld(pm', shadow', pte')
         /\ space' \in [poisoned : BOOLEAN]
<1>1. PICK T : T = [generation : 0 .. ShadowGenerationMax,
                    execution : 0 .. ShadowGenerationMax, active : BOOLEAN]
  OBVIOUS
<1>2. ~shadow.poisoned /\ shadow.clients[c].active
  BY DEF ReleaseExecution
<1>3. /\ ShadowPages(pm, shadow) /\ Aliased(shadow, pte) /\ shadow \in ShadowOwner
      /\ pte \in [RomPages -> Pages \cup {Identity, StrayEntry}]
      /\ shadow.clients \in [Clients -> T]
      /\ shadow.execution \in 0 .. ShadowGenerationMax /\ shadow.poisoned = FALSE
  BY <1>1, <1>2, ShadowParts
<1>5. CASE ActiveClients(shadow) # {c}
  <2>1. /\ shadow' = [shadow EXCEPT !.clients[c].active = FALSE]
        /\ pm' = pm /\ mem' = mem /\ pte' = pte /\ space' = space
    BY <1>5 DEF ReleaseExecution
  <2>2. PICK no \in BOOLEAN : no = FALSE
    OBVIOUS
  <2>9. LeftBy(shadow, shadow', c, no, no)
    BY <1>3, <2>1, <2>2 DEF ShadowOwner, LeftBy
  <2>5. PICK d \in Clients \ {c} : shadow.clients[d].active
    BY <1>5, <1>2 DEF ActiveClients
  <2> QED
    BY <2>1, <1>2, <1>3, <2>2, <2>9, ClientLeft, <2>5, ShadowSettled, PagesUntouched
    DEF ActiveClients
<1>6. CASE ActiveClients(shadow) = {c}
  <2>1. PICK b : b = ReleasePages(Step(shadow, pte, pm, mem, "OK"), z)
    OBVIOUS
  <2>3. Underway(Step(shadow, pte, pm, mem, "OK"))
    BY StepParts, <1>2, <1>3 DEF Served, Foreign, Underway
  <2>4. Underway(b) /\ (b.status = "OK" => UsedPages(b.shadow) = {})
    BY <2>1, <2>3, PagesReleased
  <2>5. PICK done \in BOOLEAN : done = (b.status = "OK")
    OBVIOUS
  <2>6. PICK bad \in BOOLEAN : bad = (b.status = "POISONED" \/ (done /\ b.shadow.corrupted))
    OBVIOUS
  <2>7. /\ shadow' = [b.shadow EXCEPT !.clients[c].active = ~done, !.poisoned = bad]
        /\ pte' = b.pte /\ pm' = b.pm /\ mem' = b.mem /\ Poisons(bad)
    BY <1>6, <2>1, <2>5, <2>6 DEF SettleRelease, ReleaseExecution
  <2>8. /\ Served(pm, b.pm, b.mem, "space") /\ ShadowPages(b.pm, b.shadow)
        /\ b.pte \in [RomPages -> Pages \cup {Identity, StrayEntry}] /\ Aliased(b.shadow, b.pte)
        /\ b.shadow.clients = shadow.clients /\ ~b.shadow.poisoned /\ b.shadow \in ShadowOwner
    BY <2>4 DEF Underway, ShadowPages
  <2>9. /\ shadow' \in ShadowOwner /\ shadow'.pages = b.shadow.pages
        /\ shadow'.clients[c].active = ~done
    <3>1. PICK active \in BOOLEAN : active = ~done
      OBVIOUS
    <3>2. LeftBy(b.shadow, shadow', c, active, bad)
      BY <2>7, <3>1 DEF LeftBy
    <3>3. /\ shadow' \in ShadowOwner /\ shadow'.pages = b.shadow.pages
          /\ shadow'.clients[c].active = active
      BY <2>8, <3>2, ClientLeft
    <3> QED
      BY <3>1, <3>3
  <2>11. ShadowHeld(b.pm, shadow', b.pte)
    BY <2>8, <2>9, <2>4, <2>5, ShadowSettled DEF ActiveClients
  <2> QED
    BY <2>7, <2>8, <2>11, SpaceFlag
<1> QED
  BY <1>5, <1>6

(* x86_firmware_shadow_execution_quarantine *)
LEMMA QuarantineHeld ==
  ASSUME PagesHeld(pm), mem \in [Units -> Values], space \in [poisoned : BOOLEAN],
         ShadowHeld(pm, shadow, pte), NEW c \in Clients, QuarantineExecution(c)
  PROVE  /\ Served(pm, pm', mem', "space") /\ ShadowHeld(pm', shadow', pte')
         /\ space' \in [poisoned : BOOLEAN]
<1>1. PICK f : f = [i \in ShadowSlots |->
                      IF shadow.pages[i].state = "ACTIVE"
                      THEN [shadow.pages[i] EXCEPT !.state = "RESTORED"] ELSE shadow.pages[i]]
  OBVIOUS
<1>2. /\ shadow' = [shadow EXCEPT !.pages = f, !.poisoned = TRUE]
      /\ pte' = [r \in RomPages |->
                   IF \E i \in ShadowSlots : shadow.pages[i].state = "ACTIVE" /\ shadow.pages[i].rom = r
                   THEN Identity ELSE pte[r]]
      /\ Poisons(TRUE) /\ pm' = pm /\ mem' = mem
  BY <1>1 DEF QuarantineExecution
<1>3. /\ ShadowPages(pm, shadow) /\ Aliased(shadow, pte) /\ shadow \in ShadowOwner
      /\ pte \in [RomPages -> Pages \cup {Identity, StrayEntry}]
  BY ShadowParts
<1>4. \A i \in ShadowSlots :
        /\ f[i] \in ShadowPage /\ f[i].lease = shadow.pages[i].lease /\ f[i].page = shadow.pages[i].page
        /\ f[i].state = "EMPTY" => shadow.pages[i].state = "EMPTY"
        /\ shadow.pages[i].lease = NoLease => f[i] = shadow.pages[i]
  <2>1. SUFFICES ASSUME NEW i \in ShadowSlots
                 PROVE  /\ f[i] \in ShadowPage /\ f[i].lease = shadow.pages[i].lease
                        /\ f[i].page = shadow.pages[i].page
                        /\ f[i].state = "EMPTY" => shadow.pages[i].state = "EMPTY"
                        /\ shadow.pages[i].lease = NoLease => f[i] = shadow.pages[i]
    OBVIOUS
  <2>2. PICK p : p = shadow.pages[i]
    OBVIOUS
  <2>3. p \in ShadowPage /\ ShadowBacked(pm, p)
    BY <1>3, <2>2, ShadowTable DEF ShadowPages
  <2>5. CASE p.state = "ACTIVE"
    BY <1>1, <2>2, <2>5, <2>3 DEF ShadowPage, ShadowBacked, EmptyPage
  <2>6. CASE p.state # "ACTIVE"
    BY <1>1, <2>2, <2>6, <2>3
  <2> QED
    BY <2>5, <2>6
<1>7. shadow' \in ShadowOwner /\ shadow'.pages = f /\ shadow'.poisoned
  BY <1>3, <1>1, <1>4, <1>2 DEF ShadowOwner
<1>8. ShadowPages(pm, shadow')
  BY <1>3, <1>4, <1>7, ShadowKept DEF Foreign
<1>11. ShadowHeld(pm, shadow', pte')
  BY <1>7, <1>8, <1>2, <1>3, PagesAssumption
  DEF ShadowHeld, ShadowPages, Aliased, Identity, Pages
<1> QED
  BY <1>2, <1>11, PagesUntouched, SpaceFlag

(* A page-table entry is overwritten. *)
LEMMA OverwriteHeld ==
  ASSUME PagesHeld(pm), mem \in [Units -> Values], ShadowHeld(pm, shadow, pte),
         NEW r \in RomPages, OverwriteEntry(r)
  PROVE  Served(pm, pm', mem', "space") /\ ShadowHeld(pm', shadow', pte') /\ space' = space
<1>1. /\ pte' = [pte EXCEPT ![r] = StrayEntry] /\ pm' = pm /\ mem' = mem /\ shadow' = shadow
      /\ space' = space
  BY DEF OverwriteEntry
<1>2. /\ ShadowPages(pm, shadow) /\ Aliased(shadow, pte) /\ shadow \in ShadowOwner
      /\ pte \in [RomPages -> Pages \cup {Identity, StrayEntry}]
      /\ ~shadow.poisoned /\ ActiveClients(shadow) = {} => UsedPages(shadow) = {}
  BY ShadowParts
<1>3. pte' \in [RomPages -> Pages \cup {Identity, StrayEntry}] /\ StrayEntry \notin Pages
  BY <1>1, <1>2, PagesAssumption DEF StrayEntry, Pages
<1>4. Aliased(shadow, pte')
  BY <1>1, <1>2, <1>3 DEF Aliased
<1> QED
  BY <1>1, <1>2, <1>3, <1>4, ShadowSettled, PagesUntouched

(* A fault on a page that has a record. *)
LEMMA KnownPageHeld ==
  ASSUME PagesHeld(pm), mem \in [Units -> Values], space \in [poisoned : BOOLEAN],
         ShadowHeld(pm, shadow, pte), NEW k \in ShadowSlots, shadow.pages[k].state # "EMPTY",
         FaultOnKnownPage(k)
  PROVE  /\ Served(pm, pm', mem', "space") /\ ShadowHeld(pm', shadow', pte')
         /\ space' \in [poisoned : BOOLEAN]
<1>1. PICK p : p = shadow.pages[k]
  OBVIOUS
<1>2. /\ shadow' = [shadow EXCEPT !.poisoned = TRUE,
                      !.pages[k].state = IF @ = "ACTIVE" THEN "RESTORED" ELSE @]
      /\ pte' = IF p.state = "ACTIVE" THEN Restored(pte, p.rom) ELSE pte
      /\ Poisons(TRUE) /\ pm' = pm /\ mem' = mem
  BY <1>1 DEF FaultOnKnownPage
<1>3. /\ ShadowPages(pm, shadow) /\ Aliased(shadow, pte) /\ shadow \in ShadowOwner
      /\ pte \in [RomPages -> Pages \cup {Identity, StrayEntry}]
  BY ShadowParts
<1>5. PICK q : q = [p EXCEPT !.state = IF p.state = "ACTIVE" THEN "RESTORED" ELSE p.state]
  OBVIOUS
<1>6. /\ q \in ShadowPage /\ q.lease = p.lease /\ q.page = p.page /\ q.rom = p.rom
      /\ q.state # "EMPTY" /\ q.state # "ACTIVE" /\ p.lease # NoLease
  BY <1>1, <1>3, ShadowTable, <1>5 DEF ShadowPage, ShadowBacked, EmptyPage, ShadowPages
<1>7. PICK y : Replaced(shadow, y, k, q, shadow.corrupted)
  BY DEF Replaced
<1>8. /\ y \in ShadowOwner /\ y.pages[k] = q
      /\ \A i \in ShadowSlots \ {k} : y.pages[i] = shadow.pages[i]
  BY <1>3, <1>6, <1>7, ShadowPut DEF ShadowOwner
<1>10. shadow' \in ShadowOwner /\ shadow'.pages = y.pages /\ shadow'.poisoned
  BY <1>8, <1>1, <1>2, <1>3, <1>5, <1>7, ShadowTagged DEF ShadowOwner, Replaced
<1>11. ShadowPages(pm, shadow')
  BY <1>1, <1>6, <1>8, <1>10, <1>3, ShadowKept DEF Foreign
<1>13. Aliased(shadow', pte')
  <2>1. SUFFICES ASSUME NEW j \in RomPages, pte'[j] \in Pages
                 PROVE  \E i \in ShadowSlots : /\ shadow'.pages[i].state = "ACTIVE"
                                               /\ shadow'.pages[i].rom = j
                                               /\ shadow'.pages[i].page = pte'[j]
    BY DEF Aliased
  <2>3. pte'[j] = pte[j] /\ (p.state = "ACTIVE" => j # p.rom)
    BY <1>2, <1>3, <2>1, PagesAssumption DEF Restored, Identity, Pages
  <2>4. PICK i \in ShadowSlots : /\ shadow.pages[i].state = "ACTIVE" /\ shadow.pages[i].rom = j
                                 /\ shadow.pages[i].page = pte[j]
    BY <1>3, <2>1, <2>3 DEF Aliased
  <2> QED
    BY <1>8, <1>10, <2>3, <2>4, <1>1
<1> QED
  BY <1>2, <1>10, <1>11, <1>3, <1>13, PagesUntouched, SpaceFlag
  DEF ShadowHeld, ShadowPages, Restored

(* The new page is published. *)
LEMMA PublishedHeld ==
  ASSUME NEW st, Underway(st), NEW c \in Clients, shadow.clients[c].active, NEW k \in ShadowSlots,
         NEW r \in RomPages, st.shadow.pages[k].state = "LEASED", st.shadow.pages[k].rom = r,
         st.shadow.pages[k].page \in Pages, NEW t, t = [st.pte EXCEPT ![r] = st.shadow.pages[k].page],
         st.pte[r] = Identity, NEW y,
         Replaced(st.shadow, y, k, [st.shadow.pages[k] EXCEPT !.state = "ACTIVE"], st.shadow.corrupted)
  PROVE  ShadowHeld(st.pm, y, t)
<1>1. PICK w, p : w = st.shadow /\ p = w.pages[k]
  OBVIOUS
<1>2. /\ ShadowPages(st.pm, w) /\ Aliased(w, st.pte) /\ w \in ShadowOwner
      /\ st.pte \in [RomPages -> Pages \cup {Identity, StrayEntry}]
      /\ w.clients = shadow.clients /\ ~w.poisoned
  BY <1>1 DEF Underway, ShadowPages
<1>3. p \in ShadowPage /\ ShadowBacked(st.pm, p) /\ p.state = "LEASED" /\ p.rom = r
  BY <1>1, <1>2, ShadowTable DEF ShadowPages
<1>4. PICK q : q = [p EXCEPT !.state = "ACTIVE"]
  OBVIOUS
<1>5. /\ q \in ShadowPage /\ q.lease = p.lease /\ q.page = p.page /\ q.rom = r
      /\ q.state = "ACTIVE" /\ p.lease # NoLease
  BY <1>3, <1>4 DEF ShadowPage, ShadowBacked, EmptyPage
<1>7. /\ y \in ShadowOwner /\ y.pages[k] = q /\ y.clients = w.clients /\ y.poisoned = w.poisoned
      /\ \A i \in ShadowSlots \ {k} : y.pages[i] = w.pages[i]
  BY <1>2, <1>5, <1>1, <1>4, ShadowPut DEF ShadowOwner
<1>10. Aliased(y, t)
  <2>1. SUFFICES ASSUME NEW j \in RomPages, t[j] \in Pages
                 PROVE  \E i \in ShadowSlots : /\ y.pages[i].state = "ACTIVE" /\ y.pages[i].rom = j
                                               /\ y.pages[i].page = t[j]
    BY DEF Aliased
  <2>2. CASE j = r
    BY <1>1, <1>2, <2>2, <1>5, <1>7
  <2>3. CASE j # r
    BY <1>2, <2>3, <2>1, <1>1, <1>3, <1>7 DEF Aliased
  <2> QED
    BY <2>2, <2>3
<1>11. ActiveClients(y) # {}
  BY <1>2, <1>7 DEF ActiveClients
<1> QED
  BY <1>7, <1>1, <1>5, <1>2, ShadowKept, <1>10, <1>11
  DEF ShadowHeld, ShadowPages, Foreign

(* A fault on a page that has no record. *)
LEMMA NewPageHeld ==
  ASSUME PagesHeld(pm), mem \in [Units -> Values], space \in [poisoned : BOOLEAN],
         ShadowHeld(pm, shadow, pte), ~shadow.poisoned, NEW c \in Clients,
         shadow.clients[c].active, UsedPages(shadow) # ShadowSlots, NEW r \in RomPages,
         NEW copied \in BOOLEAN, NEW z1 \in ZeroResults, NEW z2 \in ZeroResults,
         ShadowNewPage(r, Allocate(pm, mem, "space", 1, z1), copied, z2)
  PROVE  /\ Served(pm, pm', mem', "space") /\ ShadowHeld(pm', shadow', pte')
         /\ space' \in [poisoned : BOOLEAN]
<1>1. PICK a : a = Allocate(pm, mem, "space", 1, z1)
  OBVIOUS
<1>2. ShadowNewPage(r, a, copied, z2)
  BY <1>1
<1>3. /\ PagesHeld(a.pm) /\ a.pm.available = pm.available /\ a.mem \in [Units -> Values]
      /\ a.status = "OK" => Taken(pm, a.pm, "space", a.lease, a.page, 1)
      /\ a.status # "OK" => SameLive(pm, a.pm)
  BY <1>1, AllocateOutcome DEF PageOwners
<1>4. /\ ShadowPages(pm, shadow) /\ Aliased(shadow, pte) /\ shadow \in ShadowOwner
      /\ pte \in [RomPages -> Pages \cup {Identity, StrayEntry}]
      /\ shadow.clients \in [Clients -> [generation : 0 .. ShadowGenerationMax,
                                         execution : 0 .. ShadowGenerationMax, active : BOOLEAN]]
      /\ shadow.execution \in 0 .. ShadowGenerationMax
  BY ShadowParts
<1>5. c \in ActiveClients(shadow)
  BY DEF ActiveClients
<1>6. CASE a.status # "OK"
  <2>1. PICK bad \in BOOLEAN : bad = (a.status = "POISONED")
    OBVIOUS
  <2>2. /\ shadow' = [shadow EXCEPT !.poisoned = bad] /\ pm' = a.pm /\ mem' = a.mem
        /\ Poisons(bad) /\ pte' = pte
    BY <1>2, <1>6, <2>1 DEF ShadowNewPage
  <2> QED
    BY <2>2, <1>3, <1>6, ForeignSame, ServedSame, <1>4, ShadowTagged, <1>5, ShadowKept,
       ShadowSettled, SpaceFlag DEF ActiveClients, ShadowOwner
<1>7. CASE a.status = "OK"
  <2>1. PICK k : k = Min(ShadowSlots \ UsedPages(shadow))
    OBVIOUS
  <2>2. k \in ShadowSlots /\ shadow.pages[k].state = "EMPTY"
    BY <2>1, MinIs DEF ShadowSlots, UsedPages
  <2>3. PICK p : p = [state |-> "LEASED", lease |-> a.lease, rom |-> r, page |-> a.page]
    OBVIOUS
  <2>4. PICK w : w = [shadow EXCEPT !.pages[k] = p]
    OBVIOUS
  <2>5. PICK st : st = Step(w, pte, a.pm, a.mem, "OK")
    OBVIOUS
  <2>6. PICK clean \in BOOLEAN : clean = (copied /\ pte[r] = Identity)
    OBVIOUS
  <2>7. PublishPage(st, k, r, clean, z2)
    BY <1>2, <1>7, <2>1, <2>3, <2>4, <2>5, <2>6 DEF ShadowNewPage
  <2>8. /\ Taken(pm, a.pm, "space", a.lease, a.page, 1) /\ a.lease \in Leases
        /\ a.lease # NoLease /\ a.page \in Pages
    BY <1>3, <1>7 DEF Taken
  <2>9. p \in ShadowPage /\ p.lease = a.lease /\ p.page = a.page /\ p.state = "LEASED" /\ p.rom = r
    BY <2>8, PagesAssumption, <2>3 DEF Pages, ShadowPage
  <2>10. /\ w \in ShadowOwner /\ w.clients = shadow.clients /\ w.poisoned = shadow.poisoned
         /\ w.pages[k] = p /\ \A i \in ShadowSlots \ {k} : w.pages[i] = shadow.pages[i]
    <3>2. Replaced(shadow, w, k, p, shadow.corrupted)
      BY <1>4, <2>4 DEF Replaced, ShadowOwner
    <3> QED
      BY <1>4, <2>2, <2>9, <3>2, ShadowPut DEF ShadowOwner
  <2>11. ShadowPages(a.pm, w)
    <3>2. shadow.pages[k].lease = NoLease
      BY <2>2, <1>4 DEF ShadowBacked, ShadowPages
    <3>4. /\ ShadowBacked(a.pm, w.pages[k]) /\ w.pages[k].lease # NoLease
          /\ Taken(pm, a.pm, "space", w.pages[k].lease, a.page, 1)
      BY <2>8, <2>9, <2>10 DEF ShadowBacked, Taken, Owned
    <3> QED
      BY <1>4, <2>2, <2>10, <3>2, <3>4, ShadowTaken
  <2>13. st.shadow = w /\ st.pte = pte /\ st.pm = a.pm /\ st.mem = a.mem /\ st.status = "OK"
    BY <2>5, StepParts
  <2>14. Served(pm, a.pm, a.mem, "space")
    BY <1>3, <2>8, ServedTaken
  <2>15. Underway(st)
    BY <1>4, <2>5, <2>10, <2>11, <2>2, <2>13, <2>14 DEF Underway, Aliased
  <2>16. CASE clean
    <3>1. /\ shadow' = [st.shadow EXCEPT !.pages[k].state = "ACTIVE"]
          /\ pte' = [pte EXCEPT ![r] = st.shadow.pages[k].page] /\ pm' = st.pm
          /\ mem' = [u \in Units |->
                       IF u \div PageUnits = st.shadow.pages[k].page THEN RomValue ELSE st.mem[u]]
          /\ space' = space
      BY <2>7, <2>16 DEF PublishPage
    <3>2. Replaced(st.shadow, shadow', k, [st.shadow.pages[k] EXCEPT !.state = "ACTIVE"],
                   st.shadow.corrupted)
      BY <2>2, <2>10, <2>13, <3>1 DEF Replaced, ShadowOwner
    <3> QED
      BY <3>1, <2>2, <2>15, <3>2, <2>6, <2>8, <2>9, <2>10, <2>13, <2>16, PublishedHeld,
         <2>14, <1>3, ShadowAssumption DEF Served
  <2>17. CASE ~clean
    <3>1. PICK b : b = ReleasePrivatePage(st, k, z2)
      OBVIOUS
    <3>2. PICK bad \in BOOLEAN : bad = (b.status # "OK")
      OBVIOUS
    <3>6. /\ Served(pm, b.pm, b.mem, "space") /\ ShadowPages(b.pm, b.shadow)
          /\ b.pte \in [RomPages -> Pages \cup {Identity, StrayEntry}] /\ Aliased(b.shadow, b.pte)
          /\ b.shadow.clients = shadow.clients /\ ~b.shadow.poisoned /\ b.shadow \in ShadowOwner
      BY <2>2, <2>15, <3>1, <2>9, <2>10, <2>13, PrivateReleased
      DEF Underway, ShadowPages
    <3> QED
      BY <2>7, <2>17, <3>1, <3>2, <3>6, <1>4, ShadowTagged, <1>5, ShadowSettled,
         SpaceFlag DEF ActiveClients, ShadowOwner, PublishPage
  <2> QED
    BY <2>16, <2>17
<1> QED
  BY <1>6, <1>7

(* x86_firmware_shadow_write_fault *)
LEMMA WriteFaultHeld ==
  ASSUME PagesHeld(pm), mem \in [Units -> Values], space \in [poisoned : BOOLEAN],
         ShadowHeld(pm, shadow, pte), NEW c \in Clients, NEW r \in RomPages,
         NEW copied \in BOOLEAN, NEW z1 \in ZeroResults, NEW z2 \in ZeroResults,
         WriteFault(c, r, copied, z1, z2)
  PROVE  /\ Served(pm, pm', mem', "space") /\ ShadowHeld(pm', shadow', pte')
         /\ space' \in [poisoned : BOOLEAN]
<1>2. CASE FindPage(shadow, r) # {}
  BY <1>2, MinIs, KnownPageHeld DEF FindPage, UsedPages, ShadowSlots, WriteFault
<1>3. CASE FindPage(shadow, r) = {}
  BY <1>3, NewPageHeld DEF WriteFault
<1> QED
  BY <1>2, <1>3

-----------------------------------------------------------------------------
(* The invariant.                                                          *)

(* Who made a step: its own books and mappings are in order, and the others'. *)
LEMMA StepHeld ==
  ASSUME IndInv, NEW owner \in {"xms", "ems", "space"}, Served(pm, pm', mem', owner),
         UNCHANGED bootMap, space' \in [poisoned : BOOLEAN],
         IF owner = "xms" THEN XmsHeld(pm', xms') ELSE UNCHANGED xms,
         IF owner = "ems" THEN EmsHeld(pm', ems') /\ FrameHeld(pm', ems', hwFrame')
                          ELSE UNCHANGED emsVars,
         IF owner = "space" THEN ShadowHeld(pm', shadow', pte') ELSE UNCHANGED <<shadow, pte>>
  PROVE  IndInv'
<1>1. /\ PagesHeld(pm') /\ pm'.available = pm.available /\ mem' \in [Units -> Values]
      /\ \A q \in {"xms", "ems", "space"} \ {owner} : Foreign(pm, pm', q)
  BY DEF Served, PageOwners
<1>4. ShadowHeld(pm', shadow', pte')
  <2>1. CASE owner = "space"
    BY <2>1
  <2>2. CASE owner # "space"
    <3>1. /\ shadow' = shadow /\ pte' = pte /\ Foreign(pm, pm', "space")
          /\ ShadowHeld(pm, shadow, pte)
      BY <1>1, <2>2 DEF IndInv
    <3> QED
      BY <3>1, ShadowParts, ShadowKept, ShadowSettled
  <2> QED
    BY <2>1, <2>2
<1> QED
  BY <1>1, XmsKept, EmsKept, FrameKept, <1>4 DEF IndInv, EmsHeld, emsVars, XmsHeld

(* Steps of XMS. *)
LEMMA XmsStep ==
  ASSUME IndInv, XmsNext, UNCHANGED <<shadowVars, emsVars>>
  PROVE  IndInv'
<1>1. PagesHeld(pm) /\ mem \in [Units -> Values] /\ XmsHeld(pm, xms) /\ space \in [poisoned : BOOLEAN]
  BY DEF IndInv
<1>3. Served(pm, pm', mem', "xms") /\ XmsHeld(pm', xms')
  BY <1>1, XmsAllocateHeld, XmsFreeHeld, XmsGrowHeld, XmsOthersHeld, LargestSize,
     XmsMoveHeld DEF XmsResize, XmsLock, XmsUnlock, XmsQueryFree, WriteLow, XmsNext
<1> QED
  BY <1>1, <1>3, StepHeld
  DEF shadowVars, emsVars, XmsNext, XmsAllocate, XmsFree, XmsGrow, XmsMove, XmsResize,
      XmsLock, XmsUnlock, XmsQueryFree, WriteLow

(* Steps of EMS and VCPI. *)
LEMMA EmsStep ==
  ASSUME IndInv, EmsNext, UNCHANGED <<shadowVars, xms>>
  PROVE  IndInv'
<1>2. UNCHANGED bootMap
  BY DEF EmsNext, EmsQuery, EmsAllocate, VcpiAllocate, VcpiFree, VcpiPlatformCall, EmsMap,
         EmsUnmap, EmsRelease, WriteFrame
<1> QED
  BY <1>2, EmsDoubtHeld, EmsAllocateHeld, VcpiAllocateHeld, VcpiFreeHeld, EmsMapHeld,
     EmsUnmapHeld, EmsReleaseHeld, WriteFrameHeld, StepHeld
  DEF shadowVars, emsVars, EmsNext, IndInv

(* Steps of the firmware shadow. *)
LEMMA ShadowStep ==
  ASSUME IndInv, ShadowNext, UNCHANGED <<xms, emsVars>>
  PROVE  IndInv'
<1> QED
  BY AcquireHeld, ReleaseExecutionHeld, QuarantineHeld, WriteFaultHeld, OverwriteHeld,
     StepHeld
  DEF emsVars, ShadowNext, IndInv, AcquireExecution, ReleaseExecution,
      QuarantineExecution, WriteFault, OverwriteEntry

(* What the services start from. *)
LEMMA InitHeld ==
  ASSUME Init
  PROVE  IndInv
<1>1. NoLease \in Leases /\ LastPage \in Nat /\ 0 \in 0 .. LastPage
  BY PagesAssumption DEF NoLease, Leases
<1>2. /\ bootMap \in MemoryMaps /\ MapIsValid(bootMap) /\ AvailablePages(bootMap) # {}
      /\ pm = [available |-> AvailablePages(bootMap), allocated |-> {},
               leases |-> [s \in LeaseSlots |-> FreeSlot(0)],
               allocatedPages |-> 0, hint |-> 0, poisoned |-> FALSE]
      /\ mem = [u \in Units |-> 0]
  BY DEF Init, PagesInit
<1>3. /\ pm.available = AvailablePages(bootMap) /\ pm.allocated = {}
      /\ pm.leases = [s \in LeaseSlots |-> FreeSlot(0)] /\ pm.allocatedPages = 0
  BY <1>2
<1>4. \A s \in LeaseSlots : pm.leases[s].state = "FREE"
  BY <1>3 DEF FreeSlot
<1>5. PagesHeld(pm)
  BY <1>1, PagesAssumption, <1>2, <1>3, <1>4, FS_EmptySet
  DEF AvailablePages, RangePages, FreeSlot, LeaseSlot, PageOwners, PageManager, NoPage,
      RunsHeld, PagesHeld
<1>6. mem \in [Units -> Values]
  BY <1>2, PagesAssumption
<1>8. ASSUME NEW o, NEW I, NEW L, L = [i \in I |-> NoLease]
      PROVE  Book(pm, o, L) /\ Exact(pm, o, L)
  BY <1>4, <1>8 DEF Book, Exact, LiveOf
<1>9. XmsHeld(pm, xms)
  BY <1>1, XmsAssumption, <1>8
  DEF Init, XmsInit, NoBlock, XmsBlock, XmsManagerState, XmsLeases, XmsBacked, XmsHeld
<1>10. /\ ems = [handles |-> [h \in EmsHandles |-> FreeEms(0)],
                 vcpi |-> [v \in VcpiSlots |-> FreeEms(0)],
                 frame |-> [s \in FrameSlots |-> Unmapped], poisoned |-> FALSE]
       /\ hwFrame = [s \in FrameSlots |-> 0]
  BY DEF Init, EmsInit
<1>11. FreeEms(0) \in EmsBlock /\ FreeEms(0).lease = NoLease
  BY <1>1, EmsAssumption DEF FreeEms, EmsBlock
<1>12. /\ ems \in EmsManagerState /\ \A h \in EmsHandles : ems.handles[h] = FreeEms(0)
       /\ \A v \in VcpiSlots : ems.vcpi[v] = FreeEms(0)
       /\ \A s \in FrameSlots : ems.frame[s] = Unmapped
  BY <1>1, EmsAssumption, <1>10, <1>11 DEF Unmapped, EmsManagerState
<1>13. EmsHeld(pm, ems)
  BY <1>11, <1>12, <1>8, FreedBlock DEF EmsKeys, EmsLeases, EmsBacked, FreeEms, EmsHeld
<1>15. ShadowHeld(pm, shadow, pte) /\ space \in [poisoned : BOOLEAN]
  BY <1>1, ShadowAssumption, <1>8, PagesAssumption
  DEF Init, ShadowInit, EmptyPage, ShadowPage, ShadowOwner, ShadowLeases, ShadowBacked,
      UsedPages, Identity, Pages, Aliased, ShadowHeld
<1> QED
  BY <1>2, <1>3, <1>5, <1>6, <1>9, <1>13, <1>10, <1>12, FrameFromEntries, <1>15
  DEF IndInv, Unmapped, FrameEntry

(* Every step keeps the invariant. *)
LEMMA NextHeld ==
  ASSUME IndInv, [Next]_vars
  PROVE  IndInv'
<1>1. CASE Next
  BY <1>1, XmsStep, EmsStep, ShadowStep DEF Next
<1>2. CASE UNCHANGED vars
  BY <1>2 DEF vars, IndInv, PagesHeld, RunsHeld, XmsHeld, EmsHeld, FrameHeld, ShadowHeld
<1> QED
  BY <1>1, <1>2

(* In every state of every behaviour the page owner's records, the services' *)
(* books and the mappings agree.                                            *)
THEOREM Invariance == Spec => []IndInv
<1>1. Init => IndInv
  BY InitHeld
<1>2. IndInv /\ [Next]_vars => IndInv'
  BY NextHeld
<1> QED
  BY <1>1, <1>2, PTL DEF Spec

(* Every variable keeps its type, the generations of leases, handles and *)
(* clients at their limits included.                                     *)
THEOREM TypeCorrect == Spec => []TypeOK
<1>1. IndInv => TypeOK
  BY DEF IndInv, TypeOK, PagesHeld, PagesTypeOK, ShadowHeld, ShadowTypeOK, XmsHeld, EmsHeld,
         FrameHeld, EmsTypeOK
<1> QED
  BY <1>1, Invariance, PTL

(* A live lease, as the properties name it. *)
LEMMA LiveName ==
  ASSUME PagesHeld(pm), NEW l \in LiveLeases
  PROVE  /\ l.slot \in LeaseSlots /\ pm.leases[l.slot].state = "LIVE" /\ l = NameOf(pm, l.slot)
         /\ l # NoLease /\ pm.leases[l.slot].owner \in {"xms", "ems", "space"}
         /\ l.slot \in LiveOf(pm, pm.leases[l.slot].owner)
<1>1. PICK s \in LeaseSlots : /\ pm.leases[s].state = "LIVE"
                              /\ l = [slot |-> s, generation |-> pm.leases[s].generation]
  BY DEF LiveLeases
<1> QED
  BY <1>1, ManagerFields
  DEF LiveOf, LeaseSlot, PageOwners, PagesHeld, NoLease, NameOf, RunsHeld

(* An entry that names a lease is an entry of the lease's owner. *)
LEMMA BookUser ==
  ASSUME NEW g, NEW o, NEW I, NEW L \in [I -> Leases], Book(g, o, L), NEW i \in I, L[i] # NoLease
  PROVE  g.leases[L[i].slot].owner = o /\ \A j \in I : L[j] = L[i] => j = i
BY DEF Book, LiveOf

(* No lease has two users. *)
LEMMA OneUser ==
  ASSUME IndInv, NEW l \in LiveLeases, NEW a \in Users(l), NEW b \in Users(l)
  PROVE  a = b
<1>1. PagesHeld(pm) /\ XmsHeld(pm, xms) /\ EmsHeld(pm, ems) /\ ShadowHeld(pm, shadow, pte)
  BY DEF IndInv
<1>2. l # NoLease
  BY <1>1, LiveName
<1>3. /\ XmsLeases(xms) \in [XmsHandles -> Leases] /\ Book(pm, "xms", XmsLeases(xms))
      /\ \A h \in XmsHandles : XmsLeases(xms)[h] = xms.handles[h].lease
  BY <1>1, XmsTable DEF XmsHeld
<1>4. /\ EmsLeases(ems) \in [EmsKeys -> Leases] /\ Book(pm, "ems", EmsLeases(ems))
      /\ \A h \in EmsHandles : <<"ems", h>> \in EmsKeys /\ EmsLeases(ems)[<<"ems", h>>] = ems.handles[h].lease
      /\ \A v \in VcpiSlots : <<"vcpi", v>> \in EmsKeys /\ EmsLeases(ems)[<<"vcpi", v>>] = ems.vcpi[v].lease
  BY <1>1, EmsTable DEF EmsHeld
<1>5. /\ ShadowLeases(shadow) \in [ShadowSlots -> Leases] /\ Book(pm, "space", ShadowLeases(shadow))
      /\ \A i \in ShadowSlots : ShadowLeases(shadow)[i] = shadow.pages[i].lease
  BY <1>1, ShadowTable DEF ShadowHeld
<1>6. ASSUME NEW u \in Users(l)
      PROVE  \/ u \in XmsUsers(l) /\ pm.leases[l.slot].owner = "xms"
             \/ u \in EmsUsers(l) /\ pm.leases[l.slot].owner = "ems"
             \/ u \in ShadowUsers(l) /\ pm.leases[l.slot].owner = "space"
  BY <1>3, <1>2, BookUser, <1>4, <1>5, <1>6 DEF XmsUsers, EmsUsers, ShadowUsers, Users
<1>7. CASE a \in XmsUsers(l) /\ b \in XmsUsers(l)
  BY <1>3, <1>7, <1>2, BookUser DEF XmsUsers
<1>8. CASE a \in EmsUsers(l) /\ b \in EmsUsers(l)
  BY <1>4, <1>8, <1>2, BookUser DEF EmsUsers
<1>9. CASE a \in ShadowUsers(l) /\ b \in ShadowUsers(l)
  BY <1>5, <1>9, <1>2, BookUser DEF ShadowUsers
<1> QED
  BY <1>6, <1>7, <1>8, <1>9

(* A lease that nobody uses is one its owner has lost track of. *)
LEMMA NoUser ==
  ASSUME IndInv, NEW l \in LiveLeases, Users(l) = {}
  PROVE  CASE pm.leases[l.slot].owner = "xms" -> xms.poisoned
           [] pm.leases[l.slot].owner = "ems" -> ems.poisoned
           [] OTHER -> shadow.poisoned
<1>1. PagesHeld(pm) /\ XmsHeld(pm, xms) /\ EmsHeld(pm, ems) /\ ShadowHeld(pm, shadow, pte)
  BY DEF IndInv
<1>2. PICK o : o = pm.leases[l.slot].owner
  OBVIOUS
<1>3. o \in {"xms", "ems", "space"} /\ l.slot \in LiveOf(pm, o) /\ l = NameOf(pm, l.slot)
  BY <1>1, <1>2, LiveName
<1>4. CASE o = "xms"
  <2>1. SUFFICES xms.poisoned
    BY <1>2, <1>4
  <2>2. SUFFICES ASSUME ~xms.poisoned PROVE FALSE
    OBVIOUS
  <2>4. PICK h \in XmsHandles : XmsLeases(xms)[h] = l
    BY <1>3, <1>4, <1>1, <2>2 DEF Exact, XmsHeld, XmsLeases
  <2> QED
    BY <2>4 DEF Users, XmsUsers, XmsLeases
<1>5. CASE o = "ems"
  <2>1. SUFFICES ems.poisoned
    BY <1>2, <1>5
  <2>2. SUFFICES ASSUME ~ems.poisoned PROVE FALSE
    OBVIOUS
  <2>4. PICK k \in EmsKeys : EmsLeases(ems)[k] = l
    BY <1>3, <1>5, <1>1, <2>2 DEF Exact, EmsHeld, EmsLeases
  <2> QED
    BY <2>4 DEF Users, EmsUsers, EmsLeases, EmsKeys
<1>6. CASE o = "space"
  <2>1. SUFFICES shadow.poisoned
    BY <1>2, <1>6
  <2>2. SUFFICES ASSUME ~shadow.poisoned PROVE FALSE
    OBVIOUS
  <2>4. PICK i \in ShadowSlots : ShadowLeases(shadow)[i] = l
    BY <1>3, <1>6, <1>1, <2>2 DEF Exact, ShadowHeld, ShadowLeases
  <2> QED
    BY <2>4 DEF Users, ShadowUsers, ShadowLeases
<1> QED
  BY <1>3, <1>4, <1>5, <1>6

(* A lease that slot and generation name is live. *)
LEMMA OwnedBacked ==
  ASSUME PagesHeld(pm), NEW lease \in Leases, lease # NoLease, NEW o, NEW page, NEW n,
         Owned(pm, o, lease, page, n)
  PROVE  Backed(lease, o, page, n)
<1> QED
  BY DEF Backed, LeaseIsLive, Owned

(* The pages taken are those of the live leases, which share none. *)
LEMMA RunsCounted ==
  ASSUME IndInv
  PROVE  /\ pm.allocated = UNION {PageRun(pm.leases[l.slot]) : l \in LiveLeases}
         /\ pm.allocatedPages = Cardinality(pm.allocated)
         /\ \A k, l \in LiveLeases :
              k # l => PageRun(pm.leases[k.slot]) \cap PageRun(pm.leases[l.slot]) = {}
<1>1. PagesHeld(pm) /\ RunsHeld(pm)
  BY DEF IndInv, PagesHeld
<1>2. \A l \in LiveLeases : /\ l.slot \in LeaseSlots /\ pm.leases[l.slot].state = "LIVE"
                            /\ l = NameOf(pm, l.slot)
  BY <1>1, LiveName
<1>3. ASSUME NEW s \in LeaseSlots, pm.leases[s].state = "LIVE"
      PROVE  \E l \in LiveLeases : l.slot = s
  <2>2. NameOf(pm, s).slot = s
    BY DEF NameOf
  <2> QED
    BY <1>3, <2>2, Zenon DEF LiveLeases, NameOf
<1>4. ASSUME NEW p
      PROVE  p \in pm.allocated <=> \E l \in LiveLeases : p \in PageRun(pm.leases[l.slot])
  BY <1>1, <1>3, <1>2 DEF RunsHeld
<1>5. pm.allocated = UNION {PageRun(pm.leases[l.slot]) : l \in LiveLeases}
  BY <1>4, Zenon
<1>7. ASSUME NEW k \in LiveLeases, NEW l \in LiveLeases, k # l
      PROVE  PageRun(pm.leases[k.slot]) \cap PageRun(pm.leases[l.slot]) = {}
  BY <1>2, <1>7, <1>1 DEF RunsHeld
<1> QED
  BY <1>5, <1>1, <1>7 DEF PagesHeld

(* Every entry of a service that answers is the lease it believes it has. *)
LEMMA EntriesBacked ==
  ASSUME IndInv
  PROVE  /\ \A h \in XmsHandles : HandleIsAllocated(h) =>
              LET b == xms.handles[h]
              IN  Backed(b.lease, "xms", b.page, b.capacity \div PageUnits) /\ b.size <= b.capacity
         /\ \A b \in {ems.handles[h] : h \in EmsHandles} \cup {ems.vcpi[v] : v \in VcpiSlots} :
              InUse(b) => Backed(b.lease, "ems", b.page, b.capacity)
         /\ \A i \in UsedPages(shadow) :
              Backed(shadow.pages[i].lease, "space", shadow.pages[i].page, 1)
<1>1. PagesHeld(pm) /\ XmsHeld(pm, xms) /\ EmsHeld(pm, ems) /\ ShadowHeld(pm, shadow, pte)
  BY DEF IndInv
<1>2. ASSUME NEW h \in XmsHandles, HandleIsAllocated(h)
      PROVE  LET b == xms.handles[h]
             IN  Backed(b.lease, "xms", b.page, b.capacity \div PageUnits) /\ b.size <= b.capacity
  <2> DEFINE b == xms.handles[h]
             c == pm.leases[b.lease.slot].count
  <2>1. /\ b.lease \in Leases /\ b.lease # NoLease /\ Owned(pm, "xms", b.lease, b.page, c)
        /\ c \in Nat \ {0} /\ b.capacity = c * PageUnits /\ b.size \in 1 .. b.capacity
    BY <1>1, <1>2, XmsOwned DEF HandleIsAllocated
  <2>2. b.capacity \div PageUnits = c
    <3>1. PICK n \in Nat : n = c
      BY <2>1
    <3>2. PICK u \in Nat \ {0} : u = PageUnits
      BY PagesAssumption
    <3>3. (n * u) \div u = n
      BY <3>1, <3>2
    <3> QED
      BY <2>1, <3>1, <3>2, <3>3
  <2>4. b.size <= b.capacity
    <3>1. b.size \in 1 .. b.capacity
      BY <2>1, Zenon
    <3> QED
      BY <3>1
  <2> HIDE DEF c
  <2> QED
    BY <2>4, <2>2, <1>1, <2>1, OwnedBacked, Zenon
<1>3. ASSUME NEW b \in {ems.handles[h] : h \in EmsHandles} \cup {ems.vcpi[v] : v \in VcpiSlots},
             InUse(b)
      PROVE  Backed(b.lease, "ems", b.page, b.capacity)
  BY <1>3, <1>1, EmsHandleOwned, OwnedBacked, EmsVcpiOwned DEF InUse
<1>4. ASSUME NEW i \in UsedPages(shadow)
      PROVE  Backed(shadow.pages[i].lease, "space", shadow.pages[i].page, 1)
  <2> DEFINE p == shadow.pages[i]
  <2> QED
    BY <1>1, <1>4, ShadowTable
    DEF Backed, LeaseIsLive, LiveOf, NameOf, Book, ShadowHeld, ShadowBacked, EmptyPage,
        UsedPages
<1> QED
  BY <1>2, <1>3, <1>4

(* However allocations, releases, growth and their failures interleave, no run *)
(* of pages is lost, shared or given back twice, unless its service has given  *)
(* up: LeasesAccounted, for every map, handle table and failure.               *)
THEOREM LeasesCorrect == Spec => []LeasesAccounted
<1>1. ASSUME IndInv
      PROVE  LeasesAccounted
  <2>1. ASSUME NEW l \in LiveLeases
        PROVE  Cardinality(Users(l)) <= 1
    <3>1. CASE Users(l) = {}
      BY <3>1, FS_EmptySet
    <3>2. CASE Users(l) # {}
      BY <3>2, <1>1, <2>1, OneUser, FS_Singleton
    <3> QED
      BY <3>1, <3>2
  <2>2. ASSUME NEW l \in LiveLeases, Users(l) = {}
        PROVE  CASE pm.leases[l.slot].owner = "xms" -> xms.poisoned
                 [] pm.leases[l.slot].owner = "ems" -> ems.poisoned
                 [] OTHER -> shadow.poisoned
    BY <1>1, <2>2, NoUser
  <2> QED
    BY <2>1, <2>2, <1>1, EntriesBacked, RunsCounted, Zenon DEF LeasesAccounted
<1> QED
  BY <1>1, Invariance, PTL

(* What a service's lease covers is leased. *)
LEMMA HeldLeased ==
  ASSUME NEW o, NEW page, Held(pm, o, page)
  PROVE  Leased(page, o)
<1>1. PICK s \in LiveOf(pm, o) : page \in PageRun(pm.leases[s])
  BY DEF Held
<1>4. NameOf(pm, s).slot = s
  BY DEF NameOf
<1> QED
  BY <1>1, <1>4, Zenon DEF Leased, LiveLeases, NameOf, LiveOf

(* EMS's own check of its tables, with which every call starts, never fails. *)
LEMMA EmsValid ==
  ASSUME IndInv, ~ems.poisoned
  PROVE  EmsStateIsValid
<1>1. PagesHeld(pm) /\ EmsHeld(pm, ems) /\ FrameHeld(pm, ems, hwFrame)
  BY DEF IndInv
<1>2. /\ NativePerPage \in Nat \ {0} /\ 1 \in Nat \ {0}
      /\ \A h \in EmsHandles : ems.handles[h] \in EmsBlock
      /\ \A v \in VcpiSlots : ems.vcpi[v] \in EmsBlock
      /\ \A h \in EmsHandles : EmsBacked(pm, ems.handles[h], NativePerPage)
      /\ \A v \in VcpiSlots : EmsBacked(pm, ems.vcpi[v], 1)
  <2>2. /\ \A h \in EmsHandles : ems.handles[h] \in EmsBlock
        /\ \A v \in VcpiSlots : ems.vcpi[v] \in EmsBlock
    BY <1>1, EmsTable DEF EmsHeld
  <2>3. /\ \A h \in EmsHandles : EmsBacked(pm, ems.handles[h], NativePerPage)
        /\ \A v \in VcpiSlots : EmsBacked(pm, ems.vcpi[v], 1)
    BY <1>1, Zenon DEF EmsHeld
  <2> QED
    BY <2>2, <2>3, EmsAssumption
<1>3. ASSUME NEW b \in EmsBlock, NEW n \in Nat \ {0}, EmsBacked(pm, b, n)
      PROVE  EntryIsValid(b, n)
  BY <1>3 DEF EmsBacked, EntryIsValid, InUse, EmsBlock
<1>4. ASSUME NEW s \in FrameSlots
      PROVE  FrameSlotIsValid(ems.frame[s])
  BY <1>1 DEF FrameHeld, EmsHandles, FrameEntry, FrameSlotIsValid, InUse
<1> QED
  BY <1>2, <1>3, <1>4 DEF EmsStateIsValid

(* No mapping shows a program memory that is not its own, also after a failure *)
(* half way through a release, and an execution leaves nothing when it ends:   *)
(* MappingsBacked, for every frame, ROM and number of clients.                 *)
THEOREM MappingsCorrect == Spec => []MappingsBacked
<1>1. ASSUME IndInv
      PROVE  MappingsBacked
  <2>1. PagesHeld(pm) /\ FrameHeld(pm, ems, hwFrame) /\ ShadowHeld(pm, shadow, pte)
    BY <1>1 DEF IndInv
  <2>2. ASSUME NEW s \in FrameSlots, hwFrame[s] # 0, NEW n \in 0 .. NativePerPage - 1
        PROVE  Leased(hwFrame[s] + n, "ems")
    BY <2>1, <2>2, HeldLeased DEF FrameHeld
  <2>4. ASSUME NEW r \in RomPages, pte[r] \in Pages
        PROVE  /\ Leased(pte[r], "space")
               /\ \E i \in ShadowSlots : shadow.pages[i].state = "ACTIVE" /\ shadow.pages[i].rom = r
                                         /\ shadow.pages[i].page = pte[r]
    <3>1. PICK i \in ShadowSlots : /\ shadow.pages[i].state = "ACTIVE" /\ shadow.pages[i].rom = r
                                   /\ shadow.pages[i].page = pte[r]
      BY <2>1, <2>4 DEF ShadowHeld, Aliased
    <3>3. Backed(shadow.pages[i].lease, "space", pte[r], 1)
      BY <1>1, <3>1, EntriesBacked DEF UsedPages
    <3>4. PICK s : s = shadow.pages[i].lease.slot
      OBVIOUS
    <3>8. s \in LiveOf(pm, "space")
      BY <3>4, <2>1, <3>1, <3>3, ShadowTable
      DEF Book, ShadowHeld, ShadowPage, Backed, LeaseIsLive
    <3> QED
      BY <3>1, <3>8, <2>4, <3>3, <3>4, PagesAssumption, HeldLeased
      DEF Held, PageRun, Pages, Backed, LeaseIsLive
  <2>5. ASSUME ~shadow.poisoned, ActiveClients(shadow) = {}
        PROVE  UsedPages(shadow) = {} /\ \A r \in RomPages : pte[r] \notin Pages
    BY <2>1, <2>5, <2>4 DEF ShadowHeld, UsedPages
  <2> QED
    BY <2>2, <1>1, <2>1, EmsValid, <2>4, <2>5 DEF MappingsBacked, FrameHeld
<1> QED
  BY <1>1, Invariance, PTL

-----------------------------------------------------------------------------
(* What the services say they can give.                                    *)

(* Somewhere in the managed pages count pages in a row are free. *)
FitsAt(g, count, p) ==
  ManagedFirst(g) <= p /\ p <= ManagedLimit(g) - count /\ RunIsFree(g, p, count)
RunFits(g, count) == \E p \in Nat : FitsAt(g, count, p)

(* A free run is no longer than the number of free pages. *)
LEMMA FitsCounted ==
  ASSUME NEW g, PagesHeld(g), NEW n \in Nat \ {0}, RunFits(g, n)
  PROVE  n <= FreePages(g) /\ n <= Cardinality(g.available) /\ n <= Cardinality(Pages)
<1>1. PICK p \in Nat : RunIsFree(g, p, n)
  BY DEF RunFits, FitsAt
<1>3. PICK A : A = g.allocated \cup (p .. p + n - 1)
  OBVIOUS
<1>4. A \subseteq g.available /\ Cardinality(A) = g.allocatedPages + n
  BY <1>1, CountTaken, <1>3 DEF PagesHeld
<1>7. g.available \subseteq Pages /\ IsFiniteSet(Pages)
  BY PagesAssumption, FS_Interval DEF PagesHeld, PageManager, Pages
<1>8. Cardinality(g.available) <= Cardinality(Pages) /\ Cardinality(Pages) \in Nat
  BY <1>7, FS_Subset, FS_CardinalityType
<1> QED
  BY <1>4, PagesAssumption, FreeCount, FS_Subset, <1>8 DEF FreePages

(* find_free_run finds a run when there is one, wherever its hint points. *)
LEMMA RunIsFound ==
  ASSUME NEW g, PagesHeld(g), NEW c \in Nat \ {0}, RunFits(g, c)
  PROVE  FindFreeRun(g, c) # NoPage
<1>1. /\ ManagedFirst(g) \in Nat \ {0} /\ ManagedLimit(g) \in Nat
      /\ ManagedLimit(g) <= LastPage + 1 /\ LastPage \in Nat
  BY Managed, PagesAssumption DEF PagesHeld, PageManager, Pages
<1>2. PICK p \in Nat : FitsAt(g, c, p)
  BY DEF RunFits
<1> DEFINE first == ManagedFirst(g)
           last == ManagedLimit(g) - c
           start == IF g.hint <= last THEN Max({g.hint, first}) ELSE first
           Fits(from, to) == {q \in from .. to : q <= last /\ RunIsFree(g, q, c)}
           Late == Fits(start, last)
           Early == Fits(first, start - 1)
<1>3. start \in Nat
  <2>2. PICK h \in Nat : h = g.hint
    BY PagesAssumption DEF PagesHeld, PageManager, NoPage
  <2>3. PICK f \in Nat : f = first
    BY <1>1
  <2>5. PICK n \in Nat : \A i \in {h, f} : i <= n
    OBVIOUS
  <2> QED
    BY <2>2, <2>3, <2>5, MaxIs
<1>4. p \in Late \cup Early /\ ~(last < first)
  BY <1>3, <1>1, <1>2 DEF FitsAt
<1>5. ~(c = 0 \/ c > FreePages(g) \/ last < first \/ Late \cup Early = {})
  <2> HIDE DEF first, last, Late, Early
  <2> QED
    BY <1>4, FitsCounted, FreeCount, <1>1
<1>7. \A S \in {Late, Early} : S \in SUBSET Nat /\ \A q \in S : q <= last
  <2>1. last \in Int /\ first \in Nat
    BY <1>1
  <2> HIDE DEF start, first, last
  <2>2. Late \in SUBSET Nat /\ \A q \in Late : q <= last
    BY <1>3, <2>1
  <2>3. Early \in SUBSET Nat /\ \A q \in Early : q <= last
    BY <1>3, <2>1
  <2> HIDE DEF Late, Early
  <2> QED
    BY <2>2, <2>3
<1>8. PICK S \in {Late, Early} : S # {} /\ FindFreeRun(g, c) = Min(S)
  BY <1>5, Zenon DEF FindFreeRun
<1>9. FindFreeRun(g, c) \in S
  <2> HIDE DEF Late, Early
  <2> QED
    BY <1>7, <1>8, MinIs
<1>10. FindFreeRun(g, c) \in Nat /\ FindFreeRun(g, c) <= last
  <2> HIDE DEF Late, Early, last
  <2> QED
    BY <1>7, <1>8, <1>9
<1>11. PICK r \in Nat : r = FindFreeRun(g, c)
  BY <1>10
<1>12. r <= ManagedLimit(g) - c
  BY <1>10, <1>11
<1> HIDE DEF first, last, Late, Early
<1> QED
  BY <1>11, <1>1, <1>12 DEF NoPage

(* Where a run fits, a shorter one does; what is found fits. *)
LEMMA FitsShorter ==
  ASSUME NEW g, PagesHeld(g), NEW n \in Nat \ {0}
  PROVE  /\ \A k \in 1 .. n : RunFits(g, n) => RunFits(g, k)
         /\ FindFreeRun(g, n) # NoPage => RunFits(g, n)
<1>1. ManagedFirst(g) \in Nat \ {0} /\ ManagedLimit(g) \in Nat
      /\ \A p \in g.available : ManagedFirst(g) <= p
  BY Managed DEF PagesHeld, PageManager
<1>2. ASSUME NEW k \in 1 .. n, RunFits(g, n)
      PROVE  RunFits(g, k)
  BY <1>2, <1>1 DEF RunFits, FitsAt, RunIsFree
<1>3. ASSUME FindFreeRun(g, n) # NoPage
      PROVE  RunFits(g, n)
  BY <1>3, RunFound, PagesAssumption, <1>1 DEF RunIsFree, PageFree, FitsAt, RunFits
<1> QED
  BY <1>2, <1>3

(* The snapshot's largest free run is the longest that find_free_run finds. *)
LEMMA LargestFound ==
  ASSUME NEW g, PagesHeld(g)
  PROVE  {n \in 1 .. Cardinality(Pages) : FindFreeRun(g, n) # NoPage} = 1 .. LargestFree(g)
<1>1. ManagedFirst(g) \in Nat \ {0} /\ ManagedLimit(g) \in Nat
  BY Managed DEF PagesHeld, PageManager
<1>2. PICK c \in Nat : c = Cardinality(g.available)
  BY PagesAssumption, FreeCount
<1>3. PICK P \in Nat : P = Cardinality(Pages)
  BY PagesAssumption, FS_Interval, FS_CardinalityType DEF Pages
<1> DEFINE S == {n \in 0 .. c : n = 0 \/ \E p \in ManagedFirst(g) .. ManagedLimit(g) - n : RunIsFree(g, p, n)}
<1>4. LargestFree(g) = Max(S)
  BY <1>2, Zenon DEF LargestFree
<1>5. ASSUME NEW n \in Nat \ {0}
      PROVE  /\ n \in S <=> RunFits(g, n)
             /\ RunFits(g, n) => n <= c /\ n <= P
  <2>2. n \in S <=> n <= c /\ \E p \in ManagedFirst(g) .. ManagedLimit(g) - n : RunIsFree(g, p, n)
    OBVIOUS
  <2> HIDE DEF S
  <2> QED
    BY <1>2, <1>3, FitsCounted, <2>2, <1>1 DEF RunFits, FitsAt
<1>6. S \in SUBSET Nat /\ 0 \in S /\ \A i \in S : i <= c
  OBVIOUS
<1> HIDE DEF S
<1>7. PICK L \in Nat : L = Max(S) /\ L \in S /\ \A j \in S : j <= L
  BY <1>6, MaxIs
<1>8. ASSUME NEW n \in 1 .. P, FindFreeRun(g, n) # NoPage
      PROVE  n \in 1 .. L
  BY <1>5, <1>8, FitsShorter, <1>7
<1>9. ASSUME NEW n \in 1 .. L
      PROVE  n \in 1 .. P /\ FindFreeRun(g, n) # NoPage
  BY <1>7, <1>5, FitsShorter, RunIsFound
<1> QED
  BY <1>3, <1>4, <1>7, <1>8, <1>9

(* Whole pages and the units in them. *)
LEMMA UnitsOfPage ==
  ASSUME NEW a \in Nat, NEW p \in Nat
  PROVE  /\ p * PageUnits \in Nat /\ (p + 1) * PageUnits = p * PageUnits + PageUnits
         /\ PageUp(a) <= p <=> a <= p * PageUnits
         /\ p < a \div PageUnits <=> (p + 1) * PageUnits <= a
         /\ a \div PageUnits <= p <=> a < (p + 1) * PageUnits
         /\ p < PageUp(a) <=> p * PageUnits < a
<1>1. PICK u \in Nat \ {0} : u = PageUnits
  BY PagesAssumption
<1>2. PICK q \in Nat : q = a \div u /\ q * u <= a /\ a < q * u + u
  OBVIOUS
<1>3. PICK b \in Nat : b = a + u - 1
  OBVIOUS
<1>4. PICK t \in Nat : t = b \div u /\ t * u <= b /\ b < t * u + u
  OBVIOUS
<1>7. ASSUME NEW i \in Nat, NEW j \in Nat
      PROVE  i <= j <=> i * u <= j * u
  OBVIOUS
<1>8. ASSUME NEW i \in Nat, NEW j \in Nat
      PROVE  i < j <=> i * u + u <= j * u
  BY <1>7
<1> QED
  BY <1>1, <1>2, <1>3, <1>4, <1>7, <1>8 DEF PageUp

(* An available page lies inside one usable range and touches no reserved one. *)
OnUsable(m, p) ==
  /\ \E r \in Usable(m) : r.base <= p * PageUnits /\ (p + 1) * PageUnits <= Limit(r)
  /\ \A r \in Reserved(m) : Limit(r) <= p * PageUnits \/ (p + 1) * PageUnits <= r.base

(* What a page that may be given out is clear of. *)
LEMMA AvailableClear ==
  ASSUME NEW m \in MemoryMaps, NEW p \in AvailablePages(m)
  PROVE  p \in Nat /\ OnUsable(m, p)
<1>1. p \in Nat
  BY PagesAssumption DEF AvailablePages, RangePages, Pages
<1>2. \A r \in m : r.base \in Nat /\ Limit(r) \in Nat
  BY PagesAssumption DEF Limit
<1>3. PICK r \in Usable(m) : p \in RangePages(r)
  BY DEF AvailablePages
<1>4. r \in m /\ r.usable
  BY <1>3 DEF Usable
<1>7. ASSUME NEW s \in Reserved(m)
      PROVE  Limit(s) <= p * PageUnits \/ (p + 1) * PageUnits <= s.base
  <2>1. s \in m /\ ~s.usable /\ p \notin RangePages(s) /\ p \in Pages
    BY <1>7, <1>3, <1>4, Zenon DEF AvailablePages, RangePages, Reserved
  <2>3. PICK a \in Nat : a = s.base
    BY <1>2, <2>1
  <2>4. PICK b \in Nat : b = Limit(s)
    BY <1>2, <2>1
  <2>7. PICK w \in Nat : w = p * PageUnits
    BY <1>1, UnitsOfPage
  <2>8. PICK v \in Nat : v = (p + 1) * PageUnits
    BY <1>1, PagesAssumption
  <2>9. ~(a < v) \/ ~(w < b)
    BY <2>1, <2>3, <2>4, <1>1, UnitsOfPage, <2>7, <2>8 DEF RangePages
  <2> QED
    BY <2>3, <2>4, <2>7, <2>8, <2>9
<1> QED
  BY <1>1, <1>3, <1>2, <1>4, UnitsOfPage, <1>7 DEF OnUsable, RangePages

(* The limits of a map's ranges are bounded. *)
LEMMA LimitsBounded ==
  ASSUME NEW m \in MemoryMaps
  PROVE  \E n \in Nat : \A r \in m : r.base <= n /\ Limit(r) <= n
<1>1. IsFiniteSet(m) /\ \A r \in m : r.base \in Nat /\ r.length \in Nat /\ Limit(r) \in Nat
  BY PagesAssumption DEF Limit
<1>2. PICK f : f = [r \in m |-> Limit(r)]
  OBVIOUS
<1>4. PICK n \in Nat : \A r \in m : f[r] <= n
  BY <1>1, <1>2, Bounded
<1> QED
  BY <1>2, <1>4, <1>1 DEF Limit

(* x86_memory_map_query counts every unit of an available page as usable. *)
LEMMA UnitUsable ==
  ASSUME NEW m \in MemoryMaps, NEW u \in Nat, u \div PageUnits \in AvailablePages(m)
  PROVE  u \in UsableUnits(m)
<1> DEFINE Bounds == {r.base : r \in m} \cup {Limit(r) : r \in m}
           NextOf(b) == Min({c \in Bounds : c > b})
           Around(b) == {r \in m : r.base <= b /\ NextOf(b) <= Limit(r)}
           Good == {b \in Bounds : /\ \E c \in Bounds : c > b
                                   /\ Around(b) # {} /\ \A r \in Around(b) : r.usable}
<1>1. PICK p \in Nat : p = u \div PageUnits /\ OnUsable(m, p)
  BY AvailableClear
<1>2. PICK w \in Nat : w = p * PageUnits /\ w <= u
  BY PagesAssumption, <1>1
<1>3. PICK v \in Nat : v = (p + 1) * PageUnits /\ u < v
  <2>1. PICK k \in Nat \ {0} : k = PageUnits
    BY PagesAssumption
  <2>2. (p + 1) * k \in Nat /\ u < (p + 1) * k
    BY <1>1, <2>1
  <2> QED
    BY <2>1, <2>2
<1>4. PICK r \in m : r.usable /\ r.base <= w /\ v <= Limit(r)
  BY <1>1, <1>2, <1>3 DEF OnUsable, Usable
<1>6. \A s \in m : s.base \in Nat /\ Limit(s) \in Nat
  BY PagesAssumption DEF Limit
<1>7. Bounds \in SUBSET Nat /\ r.base \in Bounds /\ Limit(r) \in Bounds
  BY <1>4, <1>6
<1> HIDE DEF Bounds
<1>8. PICK b \in Bounds : b <= u /\ r.base <= b /\ \A c \in Bounds : c <= u => c <= b
  <2>1. PICK B : B = {c \in Bounds : c <= u}
    OBVIOUS
  <2>2. PICK d \in Nat : d = r.base /\ d \in Bounds /\ d <= w
    BY <1>4, <1>6, <1>7
  <2>4. r.base \in B
    BY <2>1, <2>2, <1>2
  <2> QED
    BY <2>1, <2>4, <1>7, MaxIs
<1>9. PICK n \in Nat : n = NextOf(b) /\ n \in Bounds /\ u < n /\ \A c \in Bounds : c > b => n <= c
  <2>1. PICK B : B = {c \in Bounds : c > b}
    OBVIOUS
  <2>2. B \in SUBSET Nat /\ Limit(r) \in B
    <3>1. PICK d \in Nat : d = Limit(r) /\ d \in Bounds /\ v <= d
      BY <1>4, <1>6, <1>7
    <3>3. d > b
      BY <1>3, <1>8, <3>1, <1>7
    <3> QED
      BY <1>7, <2>1, <3>1, <3>3
  <2>3. Min(B) \in B /\ Min(B) \in Nat /\ \A c \in B : Min(B) <= c
    BY <2>2, MinIs
  <2>4. ~(Min(B) <= u)
    BY <1>7, <1>8, <2>1, <2>3
  <2> QED
    BY <2>1, <2>3, <2>4, SMTT(40)
<1>10. \A s \in Around(b) : s.usable
  BY <1>6, <1>7, <1>8, <1>1, <1>2, <1>3, <1>9 DEF OnUsable, Reserved
<1>12. b \in Good
  BY <1>7, <1>8, <1>9, <1>10, <1>3, <1>4, <1>6
<1>13. u \in b .. NextOf(b) - 1
  BY <1>7, <1>8, <1>9
<1> HIDE DEF Good
<1>14. u \in UNION {c .. NextOf(c) - 1 : c \in Good}
  <2> HIDE DEF NextOf
  <2> QED
    BY <1>12, <1>13, Zenon
<1> QED
  BY <1>14, Zenon DEF Good, Bounds, UsableUnits

(* The cursor of x86_memory_map_range_is_usable from base on, over k ranges. *)
Onward(m, cursor) ==
  Max({cursor} \cup {Limit(r) : r \in {s \in Usable(m) : s.base <= cursor}})
Cursor(m, base, k, a) ==
  a = [n \in 0 .. k |-> IF n = 0 THEN base ELSE Onward(m, a[n - 1])]

(* It is defined. *)
LEMMA CursorExists ==
  ASSUME NEW m, NEW base, NEW k \in Nat
  PROVE  \E a : Cursor(m, base, k, a)
<1> DEFINE S == {i \in 0 .. k : \E a : Cursor(m, base, i, a)}
<1>1. 0 \in S
  <2>1. PICK a : a = [j \in 0 .. 0 |-> base]
    OBVIOUS
  <2> QED
    BY <2>1 DEF Cursor
<1>2. ASSUME NEW i \in 0 .. k, i \in S, i < k
      PROVE  i + 1 \in S
  <2>1. PICK a : Cursor(m, base, i, a)
    BY <1>2
  <2>2. PICK b : b = [j \in 0 .. i + 1 |-> IF j = i + 1 THEN Onward(m, a[i]) ELSE a[j]]
    OBVIOUS
  <2>3. ASSUME NEW j \in 0 .. i + 1
        PROVE  b[j] = IF j = 0 THEN base ELSE Onward(m, b[j - 1])
    BY <2>2, <2>1 DEF Cursor
  <2>5. Cursor(m, base, i + 1, b)
    BY <2>3, <2>2 DEF Cursor
  <2> QED
    BY <1>2, <2>5
<1> HIDE DEF S
<1>3. 0 .. k \subseteq S
  BY <1>1, <1>2, UpTo
<1> QED
  BY <1>3 DEF S

(* A step of the cursor goes at least to the limit of each usable range that *)
(* begins at or before it.                                                   *)
LEMMA OnwardIs ==
  ASSUME NEW m \in MemoryMaps, NEW c \in Nat
  PROVE  /\ Onward(m, c) \in Nat /\ Onward(m, c) >= c
         /\ \A r \in Usable(m) : r.base <= c => Limit(r) <= Onward(m, c)
<1>1. PICK S : S = {c} \cup {Limit(r) : r \in {s \in Usable(m) : s.base <= c}}
  OBVIOUS
<1>2. PICK n \in Nat : \A r \in m : Limit(r) <= n
  BY LimitsBounded
<1>4. S \in SUBSET Nat /\ c \in S /\ \A i \in S : i <= n + c
  BY <1>1, <1>2, PagesAssumption DEF Usable, Limit
<1>5. n + c \in Nat
  OBVIOUS
<1> QED
  BY <1>4, <1>5, MaxIs, <1>1 DEF Onward

(* An available page is usable by the judgement of the map's range check, and *)
(* lies below its usable limit.                                               *)
LEMMA PageUsable ==
  ASSUME NEW m \in MemoryMaps, m # {}, NEW p \in AvailablePages(m)
  PROVE  /\ RangeIsUsable(m, p * PageUnits, PageUnits)
         /\ (p + 1) * PageUnits <= UsableLimit(m)
<1>1. p \in Nat /\ OnUsable(m, p)
  BY AvailableClear
<1>2. PICK w \in Nat : w = p * PageUnits
  BY <1>1, UnitsOfPage
<1>3. PICK v \in Nat : v = (p + 1) * PageUnits /\ v = w + PageUnits
  <2>1. PageUnits \in Nat /\ (p + 1) * PageUnits = p * PageUnits + PageUnits
    BY <1>1, UnitsOfPage, PagesAssumption
  <2> QED
    BY <1>2, <2>1
<1>4. PICK r \in Usable(m) : r.base <= w /\ v <= Limit(r)
  BY <1>1, <1>2, <1>3 DEF OnUsable
<1>5. \A s \in m : s.base \in Nat /\ Limit(s) \in Nat
  BY PagesAssumption DEF Limit
<1>6. \A s \in Reserved(m) : ~(s.base < v /\ w < Limit(s))
  <2>1. ASSUME NEW s \in Reserved(m)
        PROVE  ~(s.base < v /\ w < Limit(s))
    <3>1. s.base \in Nat /\ Limit(s) \in Nat
      BY <1>5 DEF Reserved
    <3>2. Limit(s) <= w \/ v <= s.base
      BY <1>1, <1>2, <1>3 DEF OnUsable
    <3> QED
      BY <3>1, <3>2
  <2> QED
    BY <2>1
<1>7. PICK k \in Nat \ {0} : k = Cardinality(m)
  <2>1. IsFiniteSet(m)
    BY PagesAssumption
  <2>2. Cardinality(m) \in Nat /\ Cardinality(m) # 0
    BY <2>1, FS_CardinalityType, FS_EmptySet
  <2> QED
    BY <2>2
<1>8. PICK a : a = CHOOSE x : Cursor(m, w, k, x)
  OBVIOUS
<1>9. Cursor(m, w, k, a)
  BY <1>8, CursorExists
<1>10. RangeIsUsable(m, w, PageUnits) <=>
         /\ \A s \in Reserved(m) : ~(s.base < w + PageUnits /\ w < Limit(s))
         /\ a[k] >= w + PageUnits
  BY <1>7, <1>8 DEF RangeIsUsable, Cursor, Onward
<1>11. \A n \in 0 .. k : a[n] = IF n = 0 THEN w ELSE Onward(m, a[n - 1])
  BY <1>9 DEF Cursor
<1>12. a[k] >= v
  <2> DEFINE S == {n \in 0 .. k : a[n] \in Nat /\ a[n] >= w /\ (n # 0 => a[n] >= v)}
  <2>1. 0 \in S
    BY <1>11
  <2>2. ASSUME NEW n \in 0 .. k, n \in S, n < k
        PROVE  n + 1 \in S
    <3>1. n + 1 \in 0 .. k /\ n + 1 # 0 /\ (n + 1) - 1 = n
      BY <2>2
    <3>2. a[n + 1] = Onward(m, a[n])
      BY <1>11, <3>1
    <3>3. PICK c \in Nat : c = a[n] /\ c >= w
      BY <2>2
    <3>4. Onward(m, c) \in Nat /\ Onward(m, c) >= c /\ (r.base <= c => Limit(r) <= Onward(m, c))
      BY <1>4, OnwardIs
    <3>5. PICK d \in Nat : d = Onward(m, c) /\ d >= c
      BY <3>4
    <3>6. PICK x \in Nat, y \in Nat : x = r.base /\ y = Limit(r)
      BY <1>4, <1>5 DEF Usable
    <3>7. x <= c /\ y <= d
      BY <1>4, <3>3, <3>4, <3>5, <3>6
    <3>8. d >= v /\ d >= w
      BY <1>4, <3>3, <3>5, <3>6, <3>7
    <3>9. a[n + 1] = d
      BY <3>2, <3>3, <3>5
    <3> QED
      BY <3>1, <3>8, <3>9
  <2> HIDE DEF S
  <2>3. 0 .. k \subseteq S
    BY <2>1, <2>2, UpTo
  <2>4. k \in S
    BY <2>3
  <2> QED
    BY <2>4 DEF S
<1>13. RangeIsUsable(m, w, PageUnits)
  BY <1>3, <1>6, <1>10, <1>12
<1>14. v <= UsableLimit(m)
  <2>1. PICK S : S = {0} \cup {Limit(s) : s \in Usable(m)}
    OBVIOUS
  <2>2. PICK n \in Nat : \A s \in m : Limit(s) <= n
    BY LimitsBounded
  <2>3. S \in SUBSET Nat /\ S # {} /\ \A i \in S : i <= n
    BY <1>5, <2>1, <2>2 DEF Usable
  <2>4. Max(S) \in Nat /\ \A j \in S : j <= Max(S)
    BY <2>3, MaxIs
  <2>5. Limit(r) \in S /\ Limit(r) \in Nat
    BY <2>1, <2>3
  <2>6. v <= Max(S)
    BY <1>4, <2>4, <2>5
  <2> QED
    BY <2>1, <2>6 DEF UsableLimit
<1> QED
  BY <1>2, <1>3, <1>13, <1>14

(* What the services tell a program they can give is what they can give, and  *)
(* every page they may give is usable memory by both judgements of the map:   *)
(* QueryHonest, for every firmware map and wherever the search's hint points. *)
THEOREM QueryCorrect == Spec => []QueryHonest
<1>1. ASSUME IndInv
      PROVE  QueryHonest
  BY <1>1, LargestFound, UnitUsable, PageUsable
  DEF IndInv, MapIsValid, Units, QueryHonest
<1> QED
  BY <1>1, Invariance, PTL

-----------------------------------------------------------------------------
(* XMS and EMS keep the stores they promise: every step of GuestMemory is   *)
(* a step of ExtendedStore, or changes nothing that a program can see.      *)

(* The stores, of a state that is given. *)
Reading(m, page, n) == [i \in 1 .. n |-> m[page * PageUnits + i - 1]]
PageReading(m, page, n) == [l \in 1 .. n |-> m[(page + (l - 1) * NativePerPage) * PageUnits]]
LView(m) == [u \in LowUnits |-> m[u]]
XView(x, m) ==
  [h \in XmsHandles |->
     IF x.poisoned THEN <<>> ELSE Reading(m, x.handles[h].page, x.handles[h].size)]
EView(e, m) ==
  [h \in EmsHandles |->
     IF e.poisoned THEN <<>> ELSE PageReading(m, e.handles[h].page, e.handles[h].count)]

(* Between m and n the pages that owner leases, those of one slot excepted, *)
(* and conventional memory, hold the same.                                  *)
Untouched(g, owner, slot, m, n) ==
  \A u \in Units : \A s \in LiveOf(g, owner) \ {slot} :
    u \div PageUnits \in PageRun(g.leases[s]) => n[u] = m[u]
LowSame(m, n) == \A u \in LowUnits : n[u] = m[u]

-----------------------------------------------------------------------------
(* The stores of the specification. *)
LEMMA Views ==
  /\ LowContents = LView(mem) /\ LowContents' = LView(mem')
  /\ XmsContents = XView(xms, mem) /\ XmsContents' = XView(xms', mem')
  /\ EmsContents = EView(ems, mem) /\ EmsContents' = EView(ems', mem')
<1> QED
  BY DEF EmsContents, EView, ReadPages, PageReading, XmsContents, XView, ReadUnits,
      Reading, LowContents, LView

(* Conventional memory is memory, below the first page. *)
LEMMA LowAway ==
  ASSUME NEW u \in LowUnits
  PROVE  u \in Units /\ u \div PageUnits \notin Pages
<1>1. PICK k \in Nat \ {0} : k = PageUnits
  BY PagesAssumption
<1>2. PICK f \in Nat : f = FirstPage /\ f <= LastPage /\ LastPage \in Nat
  BY PagesAssumption
<1> QED
  BY <1>1, <1>2 DEF Units, Pages, LowUnits

(* What the allocator leaves alone: every lease and conventional memory. *)
LEMMA FreeTouched ==
  ASSUME NEW g, PagesHeld(g), NEW m, NEW n, NEW owner, NEW slot,
         \A u \in Units :
           u \div PageUnits \in g.allocated \/ u \div PageUnits \notin g.available => n[u] = m[u]
  PROVE  Untouched(g, owner, slot, m, n) /\ LowSame(m, n)
<1> QED
  BY LowAway DEF Untouched, PagesHeld, RunsHeld, LiveOf, LowSame, PageManager

(* What a change of the pages of one run leaves alone. *)
LEMMA RunTouched ==
  ASSUME NEW g, PagesHeld(g), NEW m, NEW n, NEW owner, NEW lease, NEW slot, NEW page, NEW count,
         Owned(g, owner, lease, page, count), page \in Nat, count \in Nat,
         SameOutside(m, n, page, count)
  PROVE  /\ LowSame(m, n) /\ Untouched(g, owner, lease.slot, m, n)
         /\ \A o : o # owner => Untouched(g, o, 0, m, n)
<1>1. /\ lease.slot \in LeaseSlots /\ g.leases[lease.slot].state = "LIVE"
      /\ g.leases[lease.slot].owner = owner
      /\ PageRun(g.leases[lease.slot]) = page .. page + count - 1
  BY DEF Owned, PageRun
<1>4. ASSUME NEW s \in LeaseSlots, s # lease.slot, g.leases[s].state = "LIVE"
      PROVE  \A p \in PageRun(g.leases[s]) : p \notin page .. page + count - 1
  BY <1>1, <1>4 DEF PagesHeld, RunsHeld
<1>6. ASSUME NEW o, o # owner
      PROVE  Untouched(g, o, 0, m, n)
  BY <1>1, <1>4, <1>6 DEF Untouched, LiveOf, SameOutside
<1> QED
  BY <1>1, LowAway, <1>4, <1>6
  DEF Untouched, LiveOf, SameOutside, LowSame, PagesHeld, RunsHeld, PageManager

(* What a release leaves alone. *)
LEMMA ReleaseTouched ==
  ASSUME NEW g, PagesHeld(g), NEW m \in [Units -> Values], NEW owner,
         NEW lease \in Leases, lease # NoLease, NEW page, NEW count,
         Owned(g, owner, lease, page, count), NEW z \in ZeroResults
  PROVE  LET r == Release(g, m, owner, lease, z)
         IN  /\ LowSame(m, r.mem) /\ Untouched(g, owner, lease.slot, m, r.mem)
             /\ \A o : o # owner => Untouched(g, o, 0, m, r.mem)
             /\ r.status # "OK" => r.mem = m
<1>1. PICK r : r = Release(g, m, owner, lease, z)
  OBVIOUS
<1>2. (r.status # "OK" => r.mem = m) /\ SameOutside(m, r.mem, page, count)
  BY <1>1, ReleaseOutcome
<1>3. page \in Nat /\ count \in Nat
  BY PagesAssumption DEF Owned, PagesHeld, PageManager, LeaseSlot
<1> QED
  BY <1>2, <1>3, RunTouched, <1>1

(* Untouched, from one change to the next, and for leases that are the same. *)
LEMMA UntouchedChain ==
  ASSUME NEW g, NEW o, NEW s, NEW m, NEW n, NEW k,
         Untouched(g, o, s, m, n), Untouched(g, o, s, n, k)
  PROVE  Untouched(g, o, s, m, k)
BY DEF Untouched

(* Who touches no lease of an owner touches none but one. *)
LEMMA UntouchedBut ==
  ASSUME NEW g, NEW o, NEW s, NEW m, NEW n, Untouched(g, o, 0, m, n)
  PROVE  Untouched(g, o, s, m, n)
<1> QED
  BY DEF Untouched, LiveOf, LeaseSlots

(* The leases of the owner are the same. *)
LEMMA UntouchedForeign ==
  ASSUME NEW g, NEW h, NEW o, NEW s, NEW m, NEW n, Foreign(g, h, o), Untouched(h, o, s, m, n)
  PROVE  Untouched(g, o, s, m, n)
<1> QED
  BY DEF Untouched, Foreign, LiveOf

(* Another lease was taken. *)
LEMMA UntouchedTaken ==
  ASSUME NEW g, NEW h, NEW o, NEW s, NEW m, NEW n, NEW q, NEW l, NEW p, NEW c,
         Taken(g, h, q, l, p, c), Untouched(h, o, s, m, n)
  PROVE  Untouched(g, o, s, m, n)
<1> QED
  BY DEF Untouched, Taken, Unmoved, LiveOf

(* Conventional memory, from one change to the next. *)
LEMMA LowChain ==
  ASSUME NEW m, NEW n, NEW k, LowSame(m, n), LowSame(n, k)
  PROVE  LowSame(m, k)
BY DEF LowSame

-----------------------------------------------------------------------------
(* What a program reads.                                                   *)

(* The units of an XMS block are memory of the block's lease. *)
LEMMA BlockUnits ==
  ASSUME NEW g, PagesHeld(g), NEW x, XmsHeld(g, x), NEW k \in XmsHandles,
         x.handles[k].lease # NoLease, NEW i \in 1 .. x.handles[k].size
  PROVE  LET b == x.handles[k]
             u == b.page * PageUnits + i - 1
         IN  u \in Units /\ u \div PageUnits \in PageRun(g.leases[b.lease.slot])
<1>1. PICK b : b = x.handles[k]
  OBVIOUS
<1>2. PICK c : c = g.leases[b.lease.slot].count
  OBVIOUS
<1>3. /\ c \in Nat \ {0} /\ b.capacity = c * PageUnits /\ b.size \in 1 .. b.capacity
      /\ b.page \in Pages /\ b.page + c - 1 \in Pages
      /\ PageRun(g.leases[b.lease.slot]) = b.page .. b.page + c - 1
  BY <1>1, <1>2, XmsOwned, SMTT(30)
<1>4. PICK p \in Pages : p = b.page
  BY <1>3
<1>5. PICK n \in Nat : n = b.size /\ n <= c * PageUnits
  BY <1>3, PagesAssumption
<1>6. i - 1 \in 0 .. n - 1
  BY <1>1, <1>5
<1> QED
  BY <1>1, <1>3, <1>4, <1>5, <1>6, RunUnits, PagesAssumption DEF Pages

(* The pages of an EMS handle, too. *)
LEMMA PageUnitsOf ==
  ASSUME NEW g, PagesHeld(g), NEW e, EmsHeld(g, e), NEW k \in EmsHandles,
         e.handles[k].lease # NoLease, NEW l \in 1 .. e.handles[k].count
  PROVE  LET b == e.handles[k]
             p == b.page + (l - 1) * NativePerPage
         IN  /\ p \in Nat /\ p * PageUnits \in Units /\ (p * PageUnits) \div PageUnits = p
             /\ p \in PageRun(g.leases[b.lease.slot])
<1>1. PICK b : b = e.handles[k]
  OBVIOUS
<1>2. /\ b.capacity \in Nat \ {0} /\ b.count \in Nat \ {0} /\ b.capacity = b.count * NativePerPage
      /\ b.page \in Pages /\ b.page + b.capacity - 1 \in Pages
      /\ PageRun(g.leases[b.lease.slot]) = b.page .. b.page + b.capacity - 1
  BY <1>1, EmsHandleOwned
<1>3. PICK q \in Nat : q = b.page /\ FirstPage <= q
  BY <1>2, PagesAssumption DEF Pages
<1>4. PICK c \in Nat \ {0} : c = b.count /\ l <= c
  BY <1>1, <1>2
<1>5. PICK k1 \in Nat \ {0} : k1 = NativePerPage
  BY EmsAssumption
<1>6. PICK d \in Nat : d = (l - 1) * k1 /\ d < c * k1
  BY <1>4
<1>7. PICK p \in Nat : p = q + d
  OBVIOUS
<1>8. p \in q .. q + c * k1 - 1
  BY <1>6, <1>7
<1>10. p <= LastPage
  BY <1>2, PagesAssumption, <1>4, <1>5, <1>3, <1>8 DEF Pages
<1>11. p * PageUnits \in Units /\ (p * PageUnits) \div PageUnits = p
  BY PagesAssumption, <1>10 DEF Units
<1> QED
  BY <1>1, <1>2, <1>3, <1>4, <1>5, <1>8, <1>11, <1>6, <1>7

(* A free handle holds nothing. *)
LEMMA FreeReading ==
  ASSUME NEW m
  PROVE  /\ \A g, x : \A k \in XmsHandles : XmsHeld(g, x) /\ x.handles[k].lease = NoLease =>
              Reading(m, x.handles[k].page, x.handles[k].size) = <<>>
         /\ \A g, e : \A k \in EmsHandles : EmsHeld(g, e) /\ e.handles[k].lease = NoLease =>
              PageReading(m, e.handles[k].page, e.handles[k].count) = <<>>
<1>1. \A p : Reading(m, p, 0) = <<>> /\ PageReading(m, p, 0) = <<>>
  BY DEF Reading, PageReading
<1>2. ASSUME NEW g, NEW x, NEW k \in XmsHandles, XmsHeld(g, x), x.handles[k].lease = NoLease
      PROVE  x.handles[k].size = 0
  BY <1>2 DEF XmsHeld, XmsBacked, NoBlock
<1>3. ASSUME NEW g, NEW e, NEW k \in EmsHandles, EmsHeld(g, e), e.handles[k].lease = NoLease
      PROVE  e.handles[k].count = 0
  <2>1. e.handles[k] = FreeEms(e.handles[k].generation)
    BY <1>3 DEF EmsHeld, EmsBacked
  <2> QED
    BY <2>1 DEF FreeEms
<1> QED
  BY <1>1, <1>2, <1>3

(* What nobody touches reads as it did. *)
LEMMA BlockReading ==
  ASSUME NEW g, PagesHeld(g), NEW x, XmsHeld(g, x), NEW k \in XmsHandles, NEW s, NEW m, NEW n,
         Untouched(g, "xms", s, m, n), x.handles[k].lease # NoLease => x.handles[k].lease.slot # s
  PROVE  Reading(n, x.handles[k].page, x.handles[k].size)
         = Reading(m, x.handles[k].page, x.handles[k].size)
<1>1. CASE x.handles[k].lease = NoLease
  BY <1>1, FreeReading
<1>2. CASE x.handles[k].lease # NoLease
  BY <1>2, XmsOwned, BlockUnits DEF Untouched, Reading
<1> QED
  BY <1>1, <1>2

(* The same for the pages of a handle. *)
LEMMA HandleReading ==
  ASSUME NEW g, PagesHeld(g), NEW e, EmsHeld(g, e), NEW k \in EmsHandles, NEW s, NEW m, NEW n,
         Untouched(g, "ems", s, m, n), e.handles[k].lease # NoLease => e.handles[k].lease.slot # s
  PROVE  PageReading(n, e.handles[k].page, e.handles[k].count)
         = PageReading(m, e.handles[k].page, e.handles[k].count)
<1>1. CASE e.handles[k].lease = NoLease
  BY <1>1, FreeReading
<1>2. CASE e.handles[k].lease # NoLease
  BY <1>2, EmsHandleOwned, PageUnitsOf DEF Untouched, PageReading
<1> QED
  BY <1>1, <1>2

(* Whole stores that nobody touches. *)
LEMMA SameViews ==
  ASSUME NEW g, PagesHeld(g), NEW m, NEW n
  PROVE  /\ LowSame(m, n) => LView(n) = LView(m)
         /\ \A x : XmsHeld(g, x) /\ Untouched(g, "xms", 0, m, n) => XView(x, n) = XView(x, m)
         /\ \A e : EmsHeld(g, e) /\ Untouched(g, "ems", 0, m, n) => EView(e, n) = EView(e, m)
<1>2. ASSUME NEW x, XmsHeld(g, x), Untouched(g, "xms", 0, m, n)
      PROVE  XView(x, n) = XView(x, m)
  BY <1>2, XmsOwned, BlockReading DEF LiveOf, LeaseSlots, XView
<1>3. ASSUME NEW e, EmsHeld(g, e), Untouched(g, "ems", 0, m, n)
      PROVE  EView(e, n) = EView(e, m)
  BY <1>3, EmsHandleOwned, HandleReading DEF LiveOf, LeaseSlots, EView
<1> QED
  BY <1>2, <1>3 DEF LowSame, LView

-----------------------------------------------------------------------------
(* Steps of the store.                                                     *)

(* Nothing a program can see has changed. *)
LEMMA Stutters ==
  ASSUME LView(mem') = LView(mem), XView(xms', mem') = XView(xms, mem),
         EView(ems', mem') = EView(ems, mem), xms'.poisoned = xms.poisoned,
         ems'.poisoned = ems.poisoned
  PROVE  UNCHANGED Store!vars
BY Views DEF Store!vars

(* XMS has given up. *)
LEMMA XmsBreaks ==
  ASSUME LView(mem') = LView(mem), EView(ems', mem') = EView(ems, mem),
         ems'.poisoned = ems.poisoned, xms'.poisoned
  PROVE  Store!Next
<1> QED
  BY Views DEF Store!Next, Store!XBreaks, Store!Nothing, XView

(* So has EMS. *)
LEMMA EmsBreaks ==
  ASSUME LView(mem') = LView(mem), XView(xms', mem') = XView(xms, mem),
         xms'.poisoned = xms.poisoned, ems'.poisoned
  PROVE  Store!Next
<1> QED
  BY Views DEF Store!Next, Store!EBreaks, Store!Nothing, EView

(* An XMS call leaves the pages of EMS alone. *)
LEMMA XmsQuiet ==
  ASSUME PagesHeld(pm), EmsHeld(pm, ems), ems' = ems, Untouched(pm, "ems", 0, mem, mem')
  PROVE  EView(ems', mem') = EView(ems, mem) /\ ems'.poisoned = ems.poisoned
BY SameViews

(* A call that failed: XMS answers as before, or has given up. *)
LEMMA XmsFailed ==
  ASSUME PagesHeld(pm), XmsHeld(pm, xms), EmsHeld(pm, ems), ems' = ems,
         Untouched(pm, "ems", 0, mem, mem'), Untouched(pm, "xms", 0, mem, mem'),
         LowSame(mem, mem'), xms'.handles = xms.handles, ~xms.poisoned, xms'.poisoned \in BOOLEAN
  PROVE  [Store!Next]_(Store!vars)
<1>1. EView(ems', mem') = EView(ems, mem) /\ ems'.poisoned = ems.poisoned
  BY XmsQuiet
<1>2. LView(mem') = LView(mem) /\ XView(xms, mem') = XView(xms, mem)
  BY SameViews
<1>3. CASE xms'.poisoned
  BY <1>1, <1>2, <1>3, XmsBreaks
<1>4. CASE ~xms'.poisoned
  BY XmsTable, <1>4, <1>1, <1>2, Stutters DEF XmsHeld, XView
<1> QED
  BY <1>3, <1>4

(* Two handles have two leases. *)
LEMMA OtherBlocks ==
  ASSUME NEW g, NEW x, XmsHeld(g, x), NEW j \in XmsHandles, NEW k \in XmsHandles,
         j # k, x.handles[j].lease # NoLease, x.handles[k].lease # NoLease
  PROVE  x.handles[j].lease.slot # x.handles[k].lease.slot
<1> QED
  BY XmsTable DEF XmsHeld, Book

(* A call that changed one block. *)
OneBlock(k) ==
  /\ DOMAIN XmsContents = XmsHandles /\ DOMAIN XmsContents' = XmsHandles
  /\ \A j \in XmsHandles \ {k} : XmsContents'[j] = XmsContents[j]
  /\ XmsContents[k] = Reading(mem, xms.handles[k].page, xms.handles[k].size)
  /\ XmsContents'[k] = Reading(mem', xms'.handles[k].page, xms'.handles[k].size)

(* It is one that touched no other lease. *)
LEMMA XmsChanged ==
  ASSUME PagesHeld(pm), XmsHeld(pm, xms), ~xms.poisoned, ~xms'.poisoned, NEW k \in XmsHandles,
         \A j \in XmsHandles \ {k} : xms'.handles[j] = xms.handles[j],
         NEW s, Untouched(pm, "xms", s, mem, mem'),
         s = 0 \/ (xms.handles[k].lease # NoLease /\ s = xms.handles[k].lease.slot)
  PROVE  OneBlock(k)
<1>2. ASSUME NEW j \in XmsHandles \ {k}
      PROVE  XmsContents'[j] = XmsContents[j]
  <2>1. xms.handles[j].lease # NoLease => xms.handles[j].lease.slot # s
    <3>1. CASE s = 0
      BY <3>1, XmsOwned DEF LiveOf, LeaseSlots
    <3>2. CASE xms.handles[k].lease # NoLease /\ s = xms.handles[k].lease.slot
      BY <3>2, OtherBlocks
    <3> QED
      BY <3>1, <3>2
  <2> QED
    BY <2>1, BlockReading, Views DEF XView
<1> QED
  BY Views, <1>2 DEF OneBlock, XView

(* What the block held before and holds now decides which step that is. *)
LEMMA TakeStep ==
  ASSUME NEW k \in XmsHandles, OneBlock(k), LView(mem') = LView(mem),
         EView(ems', mem') = EView(ems, mem), ems'.poisoned = ems.poisoned,
         xms'.poisoned = xms.poisoned,
         XmsContents[k] = <<>>, XmsContents'[k] # <<>>,
         \A i \in 1 .. Len(XmsContents'[k]) : XmsContents'[k][i] = 0
  PROVE  Store!Next
<1> QED
  BY Views DEF Store!Next, OneBlock, Store!Take, Store!Only, Store!Fresh, Store!Nothing

(* A block that is gone. *)
LEMMA DropStep ==
  ASSUME NEW k \in XmsHandles, OneBlock(k), LView(mem') = LView(mem),
         EView(ems', mem') = EView(ems, mem), ems'.poisoned = ems.poisoned,
         xms'.poisoned = xms.poisoned, XmsContents'[k] = <<>>
  PROVE  Store!Next
<1> QED
  BY Views DEF Store!Next, OneBlock, Store!Drop, Store!Only, Store!Nothing

(* A block of another size, with what it held. *)
LEMMA ResizeStep ==
  ASSUME NEW k \in XmsHandles, OneBlock(k), LView(mem') = LView(mem),
         EView(ems', mem') = EView(ems, mem), ems'.poisoned = ems.poisoned,
         xms'.poisoned = xms.poisoned, XmsContents[k] # <<>>, XmsContents'[k] # <<>>,
         \A i \in 1 .. Len(XmsContents[k]) :
           i <= Len(XmsContents'[k]) => XmsContents'[k][i] = XmsContents[k][i]
  PROVE  Store!Next
<1> QED
  BY Views DEF Store!Next, OneBlock, Store!Resize, Store!Only, Store!Nothing

-----------------------------------------------------------------------------
(* The calls of XMS.                                                       *)

(* What is read is as long as was asked for. *)
LEMMA ReadingIs ==
  ASSUME NEW m, NEW p, NEW n \in Nat
  PROVE  /\ Len(Reading(m, p, n)) = n /\ DOMAIN Reading(m, p, n) = 1 .. n
         /\ n # 0 => Reading(m, p, n) # <<>>
         /\ \A i \in 1 .. n : Reading(m, p, n)[i] = m[p * PageUnits + i - 1]
<1> DEFINE r == Reading(m, p, n)
<1> QED
  BY DEF Reading

(* The units of a run, in pages of the run. *)
LEMMA RunUnit ==
  ASSUME NEW p \in Pages, NEW c \in Nat \ {0}, p + c - 1 \in Pages, NEW n \in Nat,
         n <= c * PageUnits, NEW i \in 1 .. n
  PROVE  LET u == p * PageUnits + i - 1
         IN  u \in Units /\ u \div PageUnits \in p .. p + c - 1
<1>1. PICK j \in 0 .. n - 1 : j = i - 1
  OBVIOUS
<1> QED
  BY RunUnits, <1>1, PagesAssumption DEF Pages

(* A run that was zeroed reads as zeros. *)
LEMMA FreshRun ==
  ASSUME NEW p \in Pages, NEW c \in Nat \ {0}, p + c - 1 \in Pages, NEW n \in Nat \ {0},
         n <= c * PageUnits, NEW m,
         \A u \in Units : u \div PageUnits \in p .. p + c - 1 => m[u] = 0
  PROVE  \A i \in 1 .. Len(Reading(m, p, n)) : Reading(m, p, n)[i] = 0
<1>1. ASSUME NEW i \in 1 .. n
      PROVE  Reading(m, p, n)[i] = 0
  BY RunUnit, ReadingIs, SMTT(30)
<1> QED
  BY <1>1, ReadingIs

(* XMS_FUNCTION_ALLOCATE *)
LEMMA XmsAllocateStores ==
  ASSUME PagesHeld(pm), mem \in [Units -> Values], XmsHeld(pm, xms), EmsHeld(pm, ems),
         ems' = ems, NEW size \in XmsSizes, NEW z \in ZeroResults, XmsAllocate(size, z)
  PROVE  [Store!Next]_(Store!vars)
<1>1. PICK r : r = AllocateMemory(pm, mem, size, z)
  OBVIOUS
<1>2. PICK k : k = Min(FreeHandles)
  OBVIOUS
<1>3. /\ pm' = r.pm /\ mem' = r.mem /\ FreeHandles # {} /\ ~xms.poisoned
      /\ xms' = IF r.status = "OK" THEN [xms EXCEPT !.handles[k] = BlockOf(r, size)]
                                   ELSE MemoryFault(xms, r.status)
  BY <1>1, <1>2 DEF XmsAllocate, XmsAllocateAnswer
<1>4. size \in Nat \ {0} /\ PagesFor(size) \in Nat \ {0} /\ size <= PagesFor(size) * PageUnits
  BY PagesForSize, XmsAssumption
<1>5. k \in XmsHandles /\ xms.handles[k].lease = NoLease
  <2>1. FreeHandles \in SUBSET Nat
    BY DEF FreeHandles, XmsHandles
  <2>2. k \in FreeHandles
    BY <1>2, <1>3, <2>1, MinIs
  <2> QED
    BY <2>2 DEF FreeHandles, HandleIsAllocated
<1>6. /\ r.status = "OK" =>
           /\ Taken(pm, r.pm, "xms", r.lease, r.page, PagesFor(size))
           /\ \A u \in Units :
                u \div PageUnits \in r.page .. r.page + PagesFor(size) - 1 => r.mem[u] = 0
      /\ \A u \in Units :
           u \div PageUnits \in pm.allocated \/ u \div PageUnits \notin pm.available =>
             r.mem[u] = mem[u]
  <2>1. "xms" \in PageOwners \ {"nobody"}
    BY DEF PageOwners
  <2> QED
    BY <1>1, <1>4, <2>1, AllocateOutcome DEF AllocateMemory
<1>7. /\ Untouched(pm, "ems", 0, mem, mem') /\ Untouched(pm, "xms", 0, mem, mem')
      /\ LowSame(mem, mem')
  BY <1>3, <1>6, FreeTouched
<1>8. xms \in XmsManagerState
  BY DEF XmsHeld
<1>9. CASE r.status # "OK"
  <2>1. xms'.handles = xms.handles /\ xms'.poisoned \in BOOLEAN
    BY <1>3, <1>8, <1>9, Faulted, XmsTable
  <2> QED
    BY <1>3, <1>7, <2>1, XmsFailed
<1>10. CASE r.status = "OK"
  <2>1. PICK b : b = BlockOf(r, size)
    OBVIOUS
  <2>2. b.page = r.page /\ b.size = size
    <3>1. Taken(pm, r.pm, "xms", r.lease, r.page, PagesFor(size))
      BY <1>6, <1>10
    <3> QED
      BY <1>4, <2>1, <3>1, NewBlock
  <2>3. /\ xms'.poisoned = xms.poisoned /\ xms'.handles[k] = b
        /\ \A j \in XmsHandles \ {k} : xms'.handles[j] = xms.handles[j]
    BY <1>3, <1>5, <1>8, <1>10, <2>1 DEF XmsManagerState
  <2>4. OneBlock(k)
    BY <1>3, <1>5, <1>7, <2>3, XmsChanged
  <2>5. XmsContents[k] = <<>>
    BY <1>5, <2>4, FreeReading DEF OneBlock
  <2>6. XmsContents'[k] = Reading(mem', r.page, size)
    BY <2>2, <2>3, <2>4 DEF OneBlock
  <2>7. r.page \in Pages /\ r.page + PagesFor(size) - 1 \in Pages
    BY <1>6, <1>10 DEF Taken
  <2>8. \A i \in 1 .. Len(XmsContents'[k]) : XmsContents'[k][i] = 0
    BY <1>3, <1>4, <1>6, <1>10, <2>6, <2>7, FreshRun
  <2>9. XmsContents'[k] # <<>>
    BY <1>4, <2>6, ReadingIs
  <2>10. LView(mem') = LView(mem) /\ EView(ems', mem') = EView(ems, mem)
    BY <1>7, SameViews
  <2> QED
    BY <1>5, <2>3, <2>4, <2>5, <2>8, <2>9, <2>10, TakeStep
<1> QED
  BY <1>9, <1>10

(* XMS_FUNCTION_FREE *)
LEMMA XmsFreeStores ==
  ASSUME PagesHeld(pm), mem \in [Units -> Values], XmsHeld(pm, xms), EmsHeld(pm, ems),
         ems' = ems, NEW k \in XmsHandles, NEW z \in ZeroResults, XmsFree(k, z)
  PROVE  [Store!Next]_(Store!vars)
<1>1. PICK l : l = xms.handles[k].lease
  OBVIOUS
<1>2. PICK r : r = ReleaseMemory(pm, mem, l, z)
  OBVIOUS
<1>3. /\ pm' = r.pm /\ mem' = r.mem /\ l # NoLease /\ ~xms.poisoned
      /\ xms' = IF r.status = "OK" THEN [xms EXCEPT !.handles[k] = NoBlock]
                                   ELSE MemoryFault(xms, r.status)
  BY <1>1, <1>2 DEF XmsFree, XmsFreeAnswer, HandleIsAllocated
<1>4. PICK p, c : Owned(pm, "xms", l, p, c) /\ l \in Leases
  BY <1>1, <1>3, XmsOwned
<1>5. /\ Untouched(pm, "ems", 0, mem, mem') /\ Untouched(pm, "xms", l.slot, mem, mem')
      /\ LowSame(mem, mem') /\ (r.status # "OK" => mem' = mem)
  BY <1>2, <1>3, <1>4, ReleaseTouched DEF ReleaseMemory
<1>7. xms \in XmsManagerState
  BY DEF XmsHeld
<1>8. CASE r.status # "OK"
  BY <1>3, <1>7, <1>8, Faulted, XmsTable, <1>5, XmsFailed DEF Untouched
<1>9. CASE r.status = "OK"
  <2>1. /\ xms'.poisoned = xms.poisoned /\ xms'.handles[k] = NoBlock
        /\ \A j \in XmsHandles \ {k} : xms'.handles[j] = xms.handles[j]
    BY <1>3, <1>7, <1>9 DEF XmsManagerState
  <2>2. OneBlock(k)
    BY <1>1, <1>3, <1>5, <2>1, XmsChanged
  <2>4. XmsContents'[k] = <<>>
    BY <2>1, <2>2 DEF Reading, OneBlock, NoBlock
  <2> QED
    BY <2>1, <2>2, <2>4, <1>5, SameViews, DropStep
<1> QED
  BY <1>8, <1>9

(* A new lease is none of the old ones. *)
LEMMA UntouchedFresh ==
  ASSUME NEW g, NEW h, NEW o, NEW m, NEW n, NEW q, NEW l, NEW p, NEW c,
         Taken(g, h, q, l, p, c), Untouched(h, o, l.slot, m, n)
  PROVE  Untouched(g, o, 0, m, n)
<1>1. Untouched(g, o, l.slot, m, n)
  BY UntouchedTaken
<1> QED
  BY <1>1 DEF Untouched, Taken, LiveOf

(* What the run at page q held is what the run at page p holds now. *)
Copied(m, d, q, p, n) ==
  \A i \in 1 .. n : d[p * PageUnits + i - 1] = m[q * PageUnits + i - 1]

(* The copy of a block into its new run: nothing else is written, and the new *)
(* run begins with what the block held.                                       *)
LEMMA GrownCopy ==
  ASSUME NEW p \in Pages, NEW c \in Nat \ {0}, p + c - 1 \in Pages, NEW n \in Nat,
         n <= c * PageUnits, NEW q \in Pages, NEW m
  PROVE  LET d == MovedTo(m, q * PageUnits, p * PageUnits, n, FALSE, n)
         IN  SameOutside(m, d, p, c) /\ Copied(m, d, q, p, n)
<1>1. PICK d : d = MovedTo(m, q * PageUnits, p * PageUnits, n, FALSE, n)
  OBVIOUS
<1>2. PICK a \in Nat : a = p * PageUnits
  BY PagesAssumption DEF Pages
<1>3. PICK b \in Nat : b = q * PageUnits
  BY PagesAssumption DEF Pages
<1>4. /\ Window(a, n, FALSE, n) = a .. a + n - 1
      /\ d = [u \in Units |-> IF u \in a .. a + n - 1 THEN m[b + (u - a)] ELSE m[u]]
  BY <1>1, <1>2, <1>3 DEF Window, MovedTo
<1>5. ASSUME NEW u \in Units, u \in a .. a + n - 1
      PROVE  u \div PageUnits \in p .. p + c - 1
  <2>1. PICK i \in 1 .. n : i = u - a + 1
    BY <1>5
  <2>2. PICK v : v = p * PageUnits + i - 1 /\ v \div PageUnits \in p .. p + c - 1
    BY RunUnit
  <2> QED
    BY <2>2, <1>2, <1>5, <2>1
<1>7. ASSUME NEW i \in 1 .. n
      PROVE  d[p * PageUnits + i - 1] = m[q * PageUnits + i - 1]
  BY RunUnit, <1>2, <1>4, <1>3
<1> QED
  BY <1>1, <1>4, <1>5, <1>7 DEF Copied, SameOutside

(* A release by XMS, as XMS and EMS see it. *)
LEMMA XmsReleaseTouched ==
  ASSUME NEW g, PagesHeld(g), NEW m \in [Units -> Values], NEW l \in Leases, l # NoLease,
         NEW page, NEW count, Owned(g, "xms", l, page, count), NEW z \in ZeroResults
  PROVE  LET r == ReleaseMemory(g, m, l, z)
         IN  /\ LowSame(m, r.mem) /\ Untouched(g, "xms", l.slot, m, r.mem)
             /\ Untouched(g, "ems", 0, m, r.mem)
             /\ r.status # "OK" => r.mem = m
<1>1. PICK r : r = Release(g, m, "xms", l, z)
  OBVIOUS
<1> QED
  BY <1>1, ReleaseTouched DEF ReleaseMemory

(* XMS_FUNCTION_REALLOCATE into a larger run: the block keeps what it held,   *)
(* and when one of the calls fails everything does.                           *)
LEMMA XmsGrowStores ==
  ASSUME PagesHeld(pm), mem \in [Units -> Values], XmsHeld(pm, xms), EmsHeld(pm, ems),
         ems' = ems, NEW k \in XmsHandles, NEW size \in XmsSizes, NEW z1 \in ZeroResults,
         NEW z2 \in ZeroResults, NEW z3 \in ZeroResults, XmsGrow(k, size, z1, z2, z3)
  PROVE  [Store!Next]_(Store!vars)
<1>1. PICK a : a = AllocateMemory(pm, mem, size, z1)
  OBVIOUS
<1>2. PICK b : b = xms.handles[k]
  OBVIOUS
<1>3. PICK c : c = PagesFor(size)
  OBVIOUS
<1>4. /\ ~xms.poisoned /\ b.lease # NoLease /\ size > b.capacity /\ xms \in XmsManagerState
      /\ a.status # "OK" => pm' = a.pm /\ mem' = a.mem /\ xms' = MemoryFault(xms, a.status)
      /\ a.status = "OK" =>
           GrowFrom(k, size, a, MappingStatus(a.pm, b.lease, 0, b.size), z2, z3)
  BY <1>1, <1>2 DEF XmsGrow, HandleIsAllocated, XmsHeld
<1>5. size \in Nat \ {0} /\ c \in Nat \ {0} /\ size <= c * PageUnits /\ c * PageUnits \in Nat
  BY <1>3, PagesForSize, XmsAssumption
<1>6. /\ PagesHeld(a.pm) /\ a.mem \in [Units -> Values]
      /\ a.status = "OK" => Taken(pm, a.pm, "xms", a.lease, a.page, c) /\ ~a.pm.poisoned
      /\ \A u \in Units :
           u \div PageUnits \in pm.allocated \/ u \div PageUnits \notin pm.available =>
             a.mem[u] = mem[u]
  BY <1>1, <1>3, <1>5, AllocateOutcome DEF PageOwners, AllocateMemory
<1>7. /\ Untouched(pm, "ems", 0, mem, a.mem) /\ Untouched(pm, "xms", 0, mem, a.mem)
      /\ LowSame(mem, a.mem)
  BY <1>6, FreeTouched
<1>8. CASE a.status # "OK"
  BY <1>4, <1>8, Faulted, XmsTable, <1>7, XmsFailed
<1>9. CASE a.status = "OK"
  <2>1. Taken(pm, a.pm, "xms", a.lease, a.page, c) /\ ~a.pm.poisoned
    BY <1>6, <1>9
  <2>2. b.size \in Nat \ {0} /\ b.size < size /\ b.size <= c * PageUnits /\ b.page \in Pages
    BY <1>2, <1>4, XmsOwned, <1>5 DEF XmsBlock
  <2>3. PICK data : data = CopyBlock(a.mem, b.page, a.page, b.size)
    OBVIOUS
  <2>4. PICK n : /\ Owned(a.pm, "xms", b.lease, b.page, n)
                 /\ MappingStatus(a.pm, b.lease, 0, b.size) = "OK"
                 /\ data \in [Units -> Values]
                 /\ data = MovedTo(a.mem, b.page * PageUnits, a.page * PageUnits,
                                   b.size, FALSE, b.size)
    <3>1. /\ xms.handles[k].lease # NoLease /\ xms.handles[k].size <= c * PageUnits
          /\ c \in Nat \ {0} /\ PagesHeld(a.pm) /\ a.mem \in [Units -> Values]
      BY <1>2, <1>4, <1>5, <1>6, <2>2
    <3>2. PICK n : n = pm.leases[xms.handles[k].lease.slot].count
      OBVIOUS
    <3> QED
      BY <1>2, <2>1, <3>1, <3>2, GrownBlock, <2>3
  <2>5. PICK old : old = ReleaseMemory(a.pm, data, b.lease, z2)
    OBVIOUS
  <2>6. PICK back : back = ReleaseMemory(old.pm, old.mem, a.lease, z3)
    OBVIOUS
  <2>7. /\ old.status = "OK" => /\ xms' = [xms EXCEPT !.handles[k] = BlockOf(a, size)]
                                /\ mem' = old.mem
        /\ old.status # "OK" =>
             /\ xms' = [xms EXCEPT !.poisoned =
                          back.status # "OK" \/ XmsStatus(old.status) = "UNCERTAIN"]
             /\ mem' = back.mem
    BY <1>2, <1>4, <1>9, <2>3, <2>4, <2>5, <2>6 DEF GrowFrom, SettleGrown
  <2>8. a.page \in Pages /\ a.page + c - 1 \in Pages /\ Owned(a.pm, "xms", a.lease, a.page, c)
    BY <2>1 DEF Taken
  <2>9. /\ SameOutside(a.mem, data, a.page, c)
        /\ \A i \in 1 .. b.size :
             data[a.page * PageUnits + i - 1] = a.mem[b.page * PageUnits + i - 1]
    <3>1. PICK q \in Pages : q = b.page
      BY <2>2
    <3>2. PICK p \in Pages : p = a.page /\ p + c - 1 \in Pages
      BY <2>8
    <3>3. PICK v \in Nat : v = b.size /\ v <= c * PageUnits
      BY <2>2
    <3>5. SameOutside(a.mem, data, p, c) /\ Copied(a.mem, data, q, p, v)
      BY <1>5, <3>2, <3>3, <2>4, <3>1, GrownCopy
    <3> QED
      BY <3>1, <3>2, <3>3, <3>5 DEF Copied
  <2>10. /\ LowSame(mem, data) /\ Untouched(pm, "ems", 0, mem, data)
         /\ Untouched(pm, "xms", 0, mem, data)
    <3>1. /\ LowSame(a.mem, data) /\ Untouched(a.pm, "xms", a.lease.slot, a.mem, data)
          /\ \A o : o # "xms" => Untouched(a.pm, o, 0, a.mem, data)
      BY <1>5, <2>8, PagesAssumption, <1>6, <2>9, RunTouched DEF Pages
    <3> QED
      BY <1>7, <2>1, <3>1, UntouchedTaken, UntouchedChain, UntouchedFresh, LowChain
  <2>11. b.lease \in Leases /\ b.lease.slot \in LiveOf(pm, "xms")
    BY <1>2, <1>4, XmsOwned
  <2>12. /\ LowSame(data, old.mem) /\ Untouched(a.pm, "xms", b.lease.slot, data, old.mem)
         /\ Untouched(a.pm, "ems", 0, data, old.mem)
         /\ old.status # "OK" => old.mem = data
    BY <1>4, <1>6, <2>4, <2>5, <2>11, XmsReleaseTouched
  <2>13. CASE old.status = "OK"
    <3>1. /\ LowSame(mem, mem') /\ Untouched(pm, "ems", 0, mem, mem')
          /\ Untouched(pm, "xms", b.lease.slot, mem, mem')
      BY <2>1, <2>12, UntouchedTaken, <2>10, UntouchedBut, UntouchedChain, LowChain,
         <2>7, <2>13
    <3>2. PICK new : new = BlockOf(a, size)
      OBVIOUS
    <3>4. /\ xms'.poisoned = xms.poisoned /\ xms'.handles[k] = new
          /\ \A j \in XmsHandles \ {k} : xms'.handles[j] = xms.handles[j]
      BY <1>4, <2>7, <2>13, <3>2 DEF XmsManagerState
    <3>5. OneBlock(k)
      BY <1>2, <1>4, <3>1, <3>4, XmsChanged
    <3>6. /\ XmsContents[k] = Reading(mem, b.page, b.size)
          /\ XmsContents'[k] = Reading(old.mem, a.page, size)
      BY <1>2, <2>7, <2>13, <1>3, <1>5, <2>1, <3>2, NewBlock, <3>4, <3>5 DEF OneBlock
    <3>7. ASSUME NEW i \in 1 .. b.size
          PROVE  old.mem[a.page * PageUnits + i - 1] = mem[b.page * PageUnits + i - 1]
      <4>1. PICK u : u = a.page * PageUnits + i - 1
        OBVIOUS
      <4>2. PICK v : v = b.page * PageUnits + i - 1
        OBVIOUS
      <4>5. a.mem[v] = mem[v]
        BY <2>11, <1>7, <1>2, <1>4, <4>2, BlockUnits DEF LiveOf, LeaseSlots, Untouched
      <4> QED
        BY <4>1, <4>2, <4>5, <2>1, <2>8, <2>11, <2>12, <1>5, <2>2, RunUnit, <2>9
        DEF Taken, Owned, LiveOf, PageRun, Untouched
    <3>8. \A i \in 1 .. Len(XmsContents[k]) :
            i <= Len(XmsContents'[k]) => XmsContents'[k][i] = XmsContents[k][i]
      <4>2. ASSUME NEW i \in 1 .. b.size
            PROVE  XmsContents'[k][i] = XmsContents[k][i]
        <5>3. Reading(old.mem, a.page, size)[i] = old.mem[a.page * PageUnits + i - 1]
          BY <1>5, <2>2, ReadingIs
        <5> QED
          BY <3>6, <3>7, <2>2, ReadingIs, <5>3
      <4> QED
        BY <2>2, <3>6, ReadingIs, <4>2
    <3> QED
      BY <3>4, <3>5, <3>8, <1>5, <2>2, <3>6, ReadingIs, <3>1, SameViews, ResizeStep
  <2>14. CASE old.status # "OK"
    <3>1. /\ PagesHeld(old.pm) /\ old.mem \in [Units -> Values] /\ SameLive(a.pm, old.pm)
      BY <1>4, <1>6, <2>4, <2>5, <2>11, <2>14, ReleaseOutcome DEF ReleaseMemory
    <3>2. Taken(pm, old.pm, "xms", a.lease, a.page, c)
      BY <2>1, <3>1, TakenSame
    <3>4. /\ LowSame(data, back.mem) /\ Untouched(old.pm, "xms", a.lease.slot, data, back.mem)
          /\ Untouched(old.pm, "ems", 0, data, back.mem)
      BY <2>6, <2>12, <2>14, <3>1, <3>2, XmsReleaseTouched DEF Taken
    <3>8. Untouched(pm, "ems", 0, mem, back.mem)
      BY <2>10, <3>2, <3>4, UntouchedTaken, UntouchedChain
    <3>9. LowSame(mem, back.mem)
      BY <2>10, <3>4, LowChain
    <3> QED
      BY <1>4, <2>10, <3>2, <3>4, UntouchedFresh, UntouchedChain, <3>8, <3>9, <2>7,
         <2>14, XmsFailed DEF XmsManagerState
  <2> QED
    BY <2>13, <2>14
<1> QED
  BY <1>8, <1>9

(* A step that leaves memory alone leaves all of it alone. *)
LEMMA UntouchedSelf ==
  ASSUME NEW g, NEW o, NEW s, NEW m
  PROVE  Untouched(g, o, s, m, m) /\ LowSame(m, m)
BY DEF Untouched, LowSame

(* A change of conventional memory touches no lease. *)
LEMMA LowTouched ==
  ASSUME NEW g, PagesHeld(g), NEW o, NEW s, NEW m, NEW n,
         \A u \in Units : u \notin LowUnits => n[u] = m[u]
  PROVE  Untouched(g, o, s, m, n)
<1> QED
  BY LowAway DEF Untouched, PagesHeld, RunsHeld, LiveOf, PageManager

(* A resize within the capacity. *)
LEMMA XmsResizeStores ==
  ASSUME PagesHeld(pm), XmsHeld(pm, xms), EmsHeld(pm, ems), ems' = ems,
         NEW k \in XmsHandles, NEW size \in XmsSizes, XmsResize(k, size)
  PROVE  [Store!Next]_(Store!vars)
<1>1. /\ ~xms.poisoned /\ mem' = mem /\ xms.handles[k].lease # NoLease /\ xms \in XmsManagerState
      /\ xms' = [xms EXCEPT !.handles[k].size = size]
  BY DEF XmsResize, HandleIsAllocated, XmsHeld
<1>2. /\ xms'.poisoned = xms.poisoned /\ xms'.handles[k].page = xms.handles[k].page
      /\ xms'.handles[k].size = size
      /\ \A j \in XmsHandles \ {k} : xms'.handles[j] = xms.handles[j]
  BY <1>1 DEF XmsManagerState, XmsBlock
<1>4. OneBlock(k)
  BY <1>1, <1>2, UntouchedSelf, XmsChanged
<1>5. PICK p : p = xms.handles[k].page
  OBVIOUS
<1>6. PICK n : n = xms.handles[k].size /\ n \in Nat \ {0}
  BY <1>1, XmsOwned DEF XmsBlock
<1> QED
  BY <1>1, <1>2, <1>4, <1>6, XmsAssumption, <1>5, ReadingIs, ResizeStep DEF OneBlock

(* The calls that change no contents: locks, and a query over poisoned pages. *)
LEMMA XmsLockStores ==
  ASSUME XmsHeld(pm, xms), ems' = ems, NEW k \in XmsHandles, XmsLock(k) \/ XmsUnlock(k)
  PROVE  [Store!Next]_(Store!vars)
<1>1. /\ ~xms.poisoned /\ mem' = mem /\ xms \in XmsManagerState
      /\ \E n : xms' = [xms EXCEPT !.handles[k].locks = n]
  BY DEF XmsLock, XmsUnlock, XmsHeld
<1> QED
  BY <1>1, Stutters DEF XView, XmsManagerState, XmsBlock

(* XMS_FUNCTION_QUERY_FREE *)
LEMMA XmsQueryStores ==
  ASSUME XmsHeld(pm, xms), ems' = ems, XmsQueryFree
  PROVE  [Store!Next]_(Store!vars)
<1> QED
  BY XmsBreaks DEF XmsQueryFree, XmsHeld, XmsManagerState

(* A write of the program to conventional memory. *)
LEMMA WriteLowStores ==
  ASSUME PagesHeld(pm), mem \in [Units -> Values], XmsHeld(pm, xms), EmsHeld(pm, ems),
         ems' = ems, NEW u \in LowUnits, NEW v, WriteLow(u, v)
  PROVE  [Store!Next]_(Store!vars)
<1>1. xms' = xms /\ \A w \in Units : w # u => mem'[w] = mem[w]
  BY DEF WriteLow
<1>4. UNCHANGED <<XmsContents, EmsContents, xms.poisoned, ems.poisoned>>
  BY <1>1, LowTouched, SameViews, Views
<1> QED
  BY <1>4, <1>1, LowAway
  DEF Store!Next, Store!WriteLow, Store!Only, Store!Low, LowUnits, LowContents

(* A source or a target of a move: where it begins, and how long it is. *)
StorePage(x, s) == IF s = 0 THEN 0 ELSE x.handles[s].page
StoreSize(x, s) == IF s = 0 THEN FirstPage * PageUnits ELSE x.handles[s].size

(* It holds what a program reads there. *)
LEMMA StoreContents ==
  ASSUME NEW s \in {0} \cup XmsHandles, ~xms.poisoned, xms' = xms
  PROVE  /\ Store!Contents(s) = Reading(mem, StorePage(xms, s), StoreSize(xms, s))
         /\ Store!Contents(s)' = Reading(mem', StorePage(xms, s), StoreSize(xms, s))
<1>1. CASE s = 0
  BY PagesAssumption, <1>1
  DEF LowUnits, Store!Contents, LowContents, StorePage, StoreSize, Reading
<1>2. CASE s # 0
  BY <1>2, Views DEF Store!Contents, StorePage, StoreSize, XView
<1> QED
  BY <1>1, <1>2

(* The units of a source or of a target, as numbers. *)
LEMMA StoreUnit ==
  ASSUME PagesHeld(pm), XmsHeld(pm, xms), NEW s \in {0} \cup XmsHandles,
         NEW offset \in Nat, NEW length \in Nat, EndpointFits(s, offset, length)
  PROVE  /\ StorePage(xms, s) \in Nat /\ StoreSize(xms, s) \in Nat
         /\ StorePage(xms, s) * PageUnits \in Nat
         /\ EndpointUnit(s, offset) = StorePage(xms, s) * PageUnits + offset
         /\ offset + length <= StoreSize(xms, s)
<1>1. CASE s = 0
  BY PagesAssumption, <1>1, Endpoint DEF StorePage, StoreSize
<1>2. CASE s # 0
  BY <1>2, Endpoint, XmsTable, PagesAssumption
  DEF StorePage, StoreSize, EndpointFits, XmsHeld, XmsBlock
<1> QED
  BY <1>1, <1>2

(* What a move copied, in the terms of the store. *)
LEMMA MovedStore ==
  ASSUME NEW m, NEW p \in Nat, NEW q \in Nat, NEW x \in Nat, NEW y \in Nat,
         p * PageUnits \in Nat, q * PageUnits \in Nat,
         NEW a \in Nat, NEW b \in Nat, NEW length \in Nat \ {0}, a + length <= x, b + length <= y,
         NEW w \in BOOLEAN, NEW done \in 1 .. length, NEW n,
         n = MovedTo(m, p * PageUnits + a, q * PageUnits + b, length, w, done),
         \A i \in 1 .. y : q * PageUnits + i - 1 \in Units
  PROVE  Store!Moved(Reading(m, q, y), Reading(n, q, y), Reading(m, p, x), b, a, length)
<1>1. PICK P \in Nat : P = p * PageUnits
  OBVIOUS
<1>2. PICK Q \in Nat : Q = q * PageUnits
  OBVIOUS
<1>3. /\ Len(Reading(m, q, y)) = y /\ Len(Reading(n, q, y)) = y
      /\ \A i \in 1 .. y : Reading(m, q, y)[i] = m[Q + i - 1] /\ Reading(n, q, y)[i] = n[Q + i - 1]
  BY ReadingIs, <1>2 DEF Reading
<1>4. \A i \in 1 .. x : Reading(m, p, x)[i] = m[P + i - 1]
  BY <1>1 DEF Reading
<1>5. ASSUME NEW i \in 1 .. y
      PROVE  \/ n[Q + i - 1] = m[Q + i - 1]
             \/ i \in b + 1 .. b + length /\ n[Q + i - 1] = Reading(m, p, x)[a + (i - b)]
  <2>1. PICK u \in Units : u = Q + i - 1
    BY <1>2
  <2>2. n[u] = IF u \in Window(Q + b, length, w, done) THEN m[(P + a) + (u - (Q + b))] ELSE m[u]
    BY <1>1, <1>2 DEF MovedTo
  <2>3. CASE u \notin Window(Q + b, length, w, done)
    BY <2>1, <2>2, <2>3
  <2>4. CASE u \in Window(Q + b, length, w, done)
    <3>2. i \in b + 1 .. b + length
      BY <2>1, <2>4 DEF Window
    <3> QED
      BY <2>1, <3>2, <2>2, <2>4, <1>4
  <2> QED
    BY <2>3, <2>4
<1> QED
  BY <1>3, <1>5 DEF Store!Moved

(* What a move leaves alone: the window it writes is within its target. *)
LEMMA MoveTouched ==
  ASSUME PagesHeld(pm), XmsHeld(pm, xms), NEW t \in {0} \cup XmsHandles, NEW b \in Nat,
         NEW length \in Nat \ {0}, EndpointFits(t, b, length), NEW w \in BOOLEAN,
         NEW done \in 1 .. length, NEW u, NEW m
  PROVE  LET n == MovedTo(m, u, EndpointUnit(t, b), length, w, done)
         IN  /\ Untouched(pm, "ems", 0, m, n)
             /\ t = 0 => Untouched(pm, "xms", 0, m, n)
             /\ t # 0 => /\ xms.handles[t].lease # NoLease /\ LowSame(m, n)
                         /\ Untouched(pm, "xms", xms.handles[t].lease.slot, m, n)
<1>1. PICK n : n = MovedTo(m, u, EndpointUnit(t, b), length, w, done)
  OBVIOUS
<1>2. PICK v \in Nat : v = EndpointUnit(t, b)
  BY Endpoint
<1>3. \A x \in Units : x \notin v .. v + length - 1 => n[x] = m[x]
  BY <1>1, <1>2 DEF Window, MovedTo
<1>4. CASE t = 0
  BY <1>2, <1>4, Endpoint, PagesAssumption, <1>3, LowTouched, <1>1 DEF LowUnits
<1>5. CASE t # 0
  <2>1. PICK h : h = xms.handles[t]
    OBVIOUS
  <2>2. PICK c : c = pm.leases[h.lease.slot].count
    OBVIOUS
  <2>3. /\ h.lease # NoLease /\ h.page \in Nat /\ c \in Nat \ {0}
        /\ v = h.page * PageUnits + b /\ v + length <= (h.page + c) * PageUnits
    BY <1>2, <1>5, <2>1, <2>2, Endpoint
  <2>5. SameOutside(m, n, h.page, c)
    BY <2>3, PagesAssumption, <1>3 DEF SameOutside
  <2> QED
    BY <1>1, <1>5, <2>1, <2>3, <2>2, XmsOwned, <2>5, RunTouched
<1> QED
  BY <1>4, <1>5

(* The units of a source or of a target are memory. *)
LEMMA StoreInUnits ==
  ASSUME PagesHeld(pm), XmsHeld(pm, xms), NEW t \in {0} \cup XmsHandles,
         t # 0 => xms.handles[t].lease # NoLease, NEW i \in 1 .. StoreSize(xms, t)
  PROVE  StorePage(xms, t) * PageUnits + i - 1 \in Units
<1>1. CASE t = 0
  BY <1>1, PagesAssumption, LowAway DEF StoreSize, StorePage, LowUnits
<1>2. CASE t # 0
  BY <1>2, BlockUnits DEF StorePage, StoreSize
<1> QED
  BY <1>1, <1>2

(* move_memory: the target has, in part or in whole, what the source held. *)
LEMMA MoveStep ==
  ASSUME NEW s \in {0} \cup XmsHandles, NEW t \in {0} \cup XmsHandles, ~xms.poisoned,
         xms' = xms, ems' = ems, EView(ems', mem') = EView(ems, mem),
         NEW p, p = StorePage(xms, s), NEW q, q = StorePage(xms, t),
         NEW x \in Nat, x = StoreSize(xms, s), NEW y \in Nat, y = StoreSize(xms, t),
         NEW a \in Nat, NEW b \in Nat, NEW length \in Nat \ {0}, a + length <= x, b + length <= y,
         Store!Moved(Reading(mem, q, y), Reading(mem', q, y), Reading(mem, p, x), b, a, length),
         t = 0 => XView(xms', mem') = XView(xms, mem),
         t # 0 => OneBlock(t) /\ LView(mem') = LView(mem)
  PROVE  Store!Next
<1>1. /\ Store!Contents(s) = Reading(mem, p, x) /\ Store!Contents(t) = Reading(mem, q, y)
      /\ Store!Contents(t)' = Reading(mem', q, y)
  BY StoreContents
<1>2. Len(Reading(mem, p, x)) = x /\ Len(Reading(mem, q, y)) = y
  BY ReadingIs
<1>3. \E len \in 1 .. Len(Store!Contents(s)) :
        \E from \in 0 .. Len(Store!Contents(s)) - len :
          \E at \in 0 .. Len(Store!Contents(t)) - len :
            Store!Moved(Store!Contents(t), Store!Contents(t)', Store!Contents(s), at, from, len)
  <2>1. /\ length \in 1 .. Len(Store!Contents(s))
        /\ a \in 0 .. Len(Store!Contents(s)) - length
        /\ b \in 0 .. Len(Store!Contents(t)) - length
    BY <1>1, <1>2
  <2> QED
    BY <2>1, <1>1
<1> QED
  BY <1>3, Views DEF Store!Next, Store!Move, OneBlock, Store!Only

(* move_memory *)
LEMMA XmsMoveStores ==
  ASSUME PagesHeld(pm), mem \in [Units -> Values], XmsHeld(pm, xms), EmsHeld(pm, ems),
         ems' = ems, NEW s \in {0} \cup XmsHandles, NEW t \in {0} \cup XmsHandles,
         NEW length \in Nat \ {0}, NEW a \in Nat, NEW b \in Nat, NEW done \in 1 .. length,
         XmsMove(s, a, t, b, length, done)
  PROVE  [Store!Next]_(Store!vars)
<1>1. EndpointFits(s, a, length) /\ EndpointFits(t, b, length) /\ ~xms.poisoned
  BY DEF XmsMove
<1>2. \/ /\ \E q \in BOOLEAN : xms' = [xms EXCEPT !.poisoned = q]
         /\ mem' = mem
      \/ /\ mem' = CopyUnits(mem, EndpointUnit(s, a), EndpointUnit(t, b), length,
                             MovesBackward(s, a, t, b, length), done)
         /\ xms' = xms
  <2> DEFINE st == {EndpointStatus(s, a, length), EndpointStatus(t, b, length)}
  <2>1. CASE st # {"OK"}
    <3>1. xms' = [xms EXCEPT !.poisoned = "UNCERTAIN" \in st] /\ mem' = mem
      BY <2>1 DEF XmsMove
    <3>2. ("UNCERTAIN" \in st) \in BOOLEAN
      OBVIOUS
    <3> HIDE DEF st
    <3> QED
      BY <3>1, <3>2, Zenon
  <2>2. CASE st = {"OK"}
    BY <2>2 DEF XmsMove
  <2> QED
    BY <2>1, <2>2
<1>3. CASE (\E q \in BOOLEAN : xms' = [xms EXCEPT !.poisoned = q]) /\ mem' = mem
  <2>1. xms'.handles = xms.handles /\ xms'.poisoned \in BOOLEAN
    BY <1>3 DEF XmsHeld, XmsManagerState
  <2>2. /\ Untouched(pm, "ems", 0, mem, mem') /\ Untouched(pm, "xms", 0, mem, mem')
        /\ LowSame(mem, mem')
    BY <1>3, UntouchedSelf
  <2> QED
    BY <1>1, <2>1, <2>2, XmsFailed
<1>4. CASE /\ mem' = CopyUnits(mem, EndpointUnit(s, a), EndpointUnit(t, b), length,
                               MovesBackward(s, a, t, b, length), done)
           /\ xms' = xms
  <2>1. PICK u : u = EndpointUnit(s, a)
    OBVIOUS
  <2>2. PICK v : v = EndpointUnit(t, b)
    OBVIOUS
  <2>3. u \in Nat /\ u + length <= (LastPage + 1) * PageUnits
    BY <1>1, <2>1, Endpoint
  <2>4. v \in Nat /\ v + length <= (LastPage + 1) * PageUnits
    BY <1>1, <2>2, Endpoint
  <2>5. PICK w \in BOOLEAN : w = MovesBackward(s, a, t, b, length)
    BY <1>1, MoveClear
  <2>6. Clear(u, v, length, w) /\ done \in 0 .. length
    BY <1>1, <2>1, <2>2, <2>5, MoveClear
  <2>7. mem' = MovedTo(mem, u, v, length, w, done)
    <3>1. CopyUnits(mem, u, v, length, w, done) = MovedTo(mem, u, v, length, w, done)
      BY <2>3, <2>4, <2>6, CopyIs
    <3> QED
      BY <1>4, <2>1, <2>2, <2>5, <3>1
  <2>8. /\ Untouched(pm, "ems", 0, mem, mem')
        /\ t = 0 => Untouched(pm, "xms", 0, mem, mem')
        /\ t # 0 => /\ xms.handles[t].lease # NoLease /\ LowSame(mem, mem')
                    /\ Untouched(pm, "xms", xms.handles[t].lease.slot, mem, mem')
    BY <1>1, <2>2, <2>7, MoveTouched
  <2>9. PICK p \in Nat : /\ p = StorePage(xms, s) /\ p * PageUnits \in Nat
                         /\ u = p * PageUnits + a
    BY <1>1, <2>1, StoreUnit
  <2>10. PICK q \in Nat : /\ q = StorePage(xms, t) /\ q * PageUnits \in Nat
                          /\ v = q * PageUnits + b
    BY <1>1, <2>2, StoreUnit
  <2>11. PICK x \in Nat : x = StoreSize(xms, s) /\ a + length <= x
    BY <1>1, StoreUnit
  <2>12. PICK y \in Nat : y = StoreSize(xms, t) /\ b + length <= y
    BY <1>1, StoreUnit
  <2>13. \A i \in 1 .. y : q * PageUnits + i - 1 \in Units
    BY <2>8, <2>10, <2>12, StoreInUnits
  <2>14. Store!Moved(Reading(mem, q, y), Reading(mem', q, y), Reading(mem, p, x), b, a, length)
    <3>1. mem' = MovedTo(mem, p * PageUnits + a, q * PageUnits + b, length, w, done)
      BY <2>7, <2>9, <2>10
    <3> QED
      BY <2>9, <2>10, <2>11, <2>12, <2>13, <3>1, MovedStore
  <2>15. EView(ems', mem') = EView(ems, mem)
    BY <2>8, SameViews
  <2>16. t = 0 => XView(xms', mem') = XView(xms, mem)
    BY <1>4, <2>8, SameViews
  <2>17. t # 0 => OneBlock(t) /\ LView(mem') = LView(mem)
    <3> SUFFICES ASSUME t # 0
                 PROVE  OneBlock(t) /\ LView(mem') = LView(mem)
      OBVIOUS
    <3>1. LView(mem') = LView(mem)
      BY <2>8, SameViews
    <3>2. OneBlock(t)
      BY <1>1, <1>4, <2>8, XmsChanged
    <3> QED
      BY <3>1, <3>2
  <2> QED
    BY <1>1, <1>4, <2>9, <2>10, <2>11, <2>12, <2>14, <2>15, <2>16, <2>17, MoveStep
<1> QED
  BY <1>2, <1>3, <1>4

(* Every step of XMS, and a write of the program to its own memory. *)
LEMMA XmsStores ==
  ASSUME IndInv, XmsNext, ems' = ems
  PROVE  [Store!Next]_(Store!vars)
<1>1. PagesHeld(pm) /\ mem \in [Units -> Values] /\ XmsHeld(pm, xms) /\ EmsHeld(pm, ems)
  BY DEF IndInv
<1>2. CASE \E z \in ZeroResults : \E size \in XmsSizes : XmsAllocate(size, z)
  BY <1>1, <1>2, XmsAllocateStores
<1>3. CASE \E z \in ZeroResults : \E h \in XmsHandles : XmsFree(h, z)
  BY <1>1, <1>3, XmsFreeStores
<1>4. CASE \E z1, z2, z3 \in ZeroResults : \E h \in XmsHandles : \E size \in XmsSizes :
             XmsGrow(h, size, z1, z2, z3)
  BY <1>1, <1>4, XmsGrowStores
<1>5. CASE \E h \in XmsHandles : \E size \in XmsSizes : XmsResize(h, size)
  BY <1>1, <1>5, XmsResizeStores
<1>6. CASE \E h \in XmsHandles : XmsLock(h) \/ XmsUnlock(h)
  BY <1>1, <1>6, XmsLockStores
<1>7. CASE XmsQueryFree
  BY <1>1, <1>7, XmsQueryStores
<1>8. CASE \E u \in LowUnits, v \in Values \ {0} : WriteLow(u, v)
  BY <1>1, <1>8, WriteLowStores
<1>9. CASE \E s, t \in {0} \cup (XmsHandles \ FreeHandles) : \E length \in 1 .. Max(XmsSizes) - 1 :
             \E a, b \in 0 .. Max(XmsSizes) - length : \E done \in 1 .. length :
               XmsMove(s, a, t, b, length, done)
  BY <1>9, LargestSize, <1>1, XmsMoveStores
<1> QED
  BY <1>2, <1>3, <1>4, <1>5, <1>6, <1>7, <1>8, <1>9 DEF XmsNext

-----------------------------------------------------------------------------
(* The calls of EMS and VCPI.                                              *)

(* They leave the pages of XMS alone. *)
LEMMA EmsQuiet ==
  ASSUME PagesHeld(pm), XmsHeld(pm, xms), xms' = xms, Untouched(pm, "xms", 0, mem, mem')
  PROVE  XView(xms', mem') = XView(xms, mem) /\ xms'.poisoned = xms.poisoned
BY SameViews

(* The slot of no handle: not the one of a VCPI page, and no slot at all. *)
NoHandles(e, s) == \A k \in EmsHandles : e.handles[k].lease # NoLease => e.handles[k].lease.slot # s

(* Slot 0 is none. *)
LEMMA NoSlot ==
  ASSUME NEW g, PagesHeld(g), NEW e, EmsHeld(g, e)
  PROVE  NoHandles(e, 0)
<1> QED
  BY EmsHandleOwned DEF NoHandles, LiveOf, LeaseSlots

(* A call that changed no handle: EMS answers as before, or has given up. *)
LEMMA EmsSame ==
  ASSUME PagesHeld(pm), XmsHeld(pm, xms), EmsHeld(pm, ems), xms' = xms,
         Untouched(pm, "xms", 0, mem, mem'), NEW s, Untouched(pm, "ems", s, mem, mem'),
         NoHandles(ems, s), LowSame(mem, mem'), ems'.handles = ems.handles, ~ems.poisoned,
         ems'.poisoned \in BOOLEAN
  PROVE  [Store!Next]_(Store!vars)
<1>1. XView(xms', mem') = XView(xms, mem) /\ xms'.poisoned = xms.poisoned
  BY EmsQuiet
<1>2. LView(mem') = LView(mem)
  BY SameViews
<1>3. CASE ems'.poisoned
  BY <1>1, <1>2, <1>3, EmsBreaks
<1>4. CASE ~ems'.poisoned
  BY <1>4, HandleReading, <1>1, <1>2, Stutters
  DEF EmsHeld, EmsManagerState, NoHandles, EView
<1> QED
  BY <1>3, <1>4

(* Two entries have two leases. *)
LEMMA OtherHandles ==
  ASSUME NEW g, NEW e, EmsHeld(g, e), NEW k \in EmsHandles, e.handles[k].lease # NoLease
  PROVE  /\ \A j \in EmsHandles \ {k} : e.handles[j].lease # NoLease =>
              e.handles[j].lease.slot # e.handles[k].lease.slot
         /\ \A v \in VcpiSlots : e.vcpi[v].lease # NoLease =>
              e.handles[k].lease.slot # e.vcpi[v].lease.slot
<1>1. /\ EmsLeases(e) \in [EmsKeys -> Leases]
      /\ \A h \in EmsHandles : <<"ems", h>> \in EmsKeys /\ EmsLeases(e)[<<"ems", h>>] = e.handles[h].lease
      /\ \A v \in VcpiSlots : <<"vcpi", v>> \in EmsKeys /\ EmsLeases(e)[<<"vcpi", v>>] = e.vcpi[v].lease
  BY EmsTable DEF EmsHeld
<1>2. ASSUME NEW a \in EmsKeys, NEW b \in EmsKeys, a # b,
             EmsLeases(e)[a] # NoLease, EmsLeases(e)[b] # NoLease
      PROVE  EmsLeases(e)[a].slot # EmsLeases(e)[b].slot
  BY <1>1, <1>2 DEF EmsHeld, Book
<1>3. ASSUME NEW j \in EmsHandles \ {k}, e.handles[j].lease # NoLease
      PROVE  e.handles[j].lease.slot # e.handles[k].lease.slot
  BY <1>1, <1>2, <1>3
<1>4. ASSUME NEW v \in VcpiSlots, e.vcpi[v].lease # NoLease
      PROVE  e.handles[k].lease.slot # e.vcpi[v].lease.slot
  BY <1>1, <1>2, <1>4
<1> QED
  BY <1>3, <1>4

(* A call that changed the pages of one handle. *)
OneHandle(k) ==
  /\ DOMAIN EmsContents = EmsHandles /\ DOMAIN EmsContents' = EmsHandles
  /\ \A j \in EmsHandles \ {k} : EmsContents'[j] = EmsContents[j]
  /\ EmsContents[k] = PageReading(mem, ems.handles[k].page, ems.handles[k].count)
  /\ EmsContents'[k] = PageReading(mem', ems'.handles[k].page, ems'.handles[k].count)

(* It is one that touched no other lease. *)
LEMMA EmsChanged ==
  ASSUME PagesHeld(pm), EmsHeld(pm, ems), ~ems.poisoned, ~ems'.poisoned, NEW k \in EmsHandles,
         \A j \in EmsHandles \ {k} : ems'.handles[j] = ems.handles[j],
         NEW s, Untouched(pm, "ems", s, mem, mem'),
         s = 0 \/ (ems.handles[k].lease # NoLease /\ s = ems.handles[k].lease.slot)
  PROVE  OneHandle(k)
<1>2. ASSUME NEW j \in EmsHandles \ {k}
      PROVE  EmsContents'[j] = EmsContents[j]
  BY EmsHandleOwned, OtherHandles, HandleReading, Views DEF LiveOf, LeaseSlots, EView
<1> QED
  BY Views, <1>2 DEF OneHandle, EView

(* What the handle showed before and shows now decides which step that is: pages *)
(* that are new,                                                                 *)
LEMMA TakePagesStep ==
  ASSUME NEW k \in EmsHandles, OneHandle(k), LView(mem') = LView(mem),
         XView(xms', mem') = XView(xms, mem), ems'.poisoned = ems.poisoned,
         xms'.poisoned = xms.poisoned,
         EmsContents[k] = <<>>, EmsContents'[k] # <<>>,
         \A i \in 1 .. Len(EmsContents'[k]) : EmsContents'[k][i] = 0
  PROVE  Store!Next
<1> QED
  BY Views
  DEF Store!Next, OneHandle, Store!TakePages, Store!Only, Store!Fresh, Store!Nothing

(* pages that are gone, *)
LEMMA DropPagesStep ==
  ASSUME NEW k \in EmsHandles, OneHandle(k), LView(mem') = LView(mem),
         XView(xms', mem') = XView(xms, mem), ems'.poisoned = ems.poisoned,
         xms'.poisoned = xms.poisoned, EmsContents'[k] = <<>>
  PROVE  Store!Next
<1> QED
  BY Views DEF Store!Next, OneHandle, Store!DropPages, Store!Only, Store!Nothing

(* and a page that was written. *)
LEMMA WritePageStep ==
  ASSUME NEW k \in EmsHandles, OneHandle(k), LView(mem') = LView(mem),
         XView(xms', mem') = XView(xms, mem), ems'.poisoned = ems.poisoned,
         xms'.poisoned = xms.poisoned, Len(EmsContents'[k]) = Len(EmsContents[k]),
         NEW l \in 1 .. Len(EmsContents[k]),
         \A i \in DOMAIN EmsContents[k] \ {l} : EmsContents'[k][i] = EmsContents[k][i]
  PROVE  Store!Next
<1> QED
  BY Views DEF Store!Next, OneHandle, Store!WritePage, Store!Only

(* What is read is as many pages as were asked for. *)
LEMMA PageReadingIs ==
  ASSUME NEW m, NEW p, NEW n \in Nat
  PROVE  /\ Len(PageReading(m, p, n)) = n /\ DOMAIN PageReading(m, p, n) = 1 .. n
         /\ n # 0 => PageReading(m, p, n) # <<>>
         /\ \A l \in 1 .. n : PageReading(m, p, n)[l] = m[(p + (l - 1) * NativePerPage) * PageUnits]
<1> DEFINE r == PageReading(m, p, n)
<1> QED
  BY DEF PageReading

(* The pages of a handle whose run was zeroed. *)
LEMMA FreshPages ==
  ASSUME NEW g, PagesHeld(g), NEW e, EmsHeld(g, e), NEW k \in EmsHandles,
         e.handles[k].lease # NoLease, NEW m,
         \A u \in Units : u \div PageUnits \in PageRun(g.leases[e.handles[k].lease.slot]) => m[u] = 0
  PROVE  LET r == PageReading(m, e.handles[k].page, e.handles[k].count)
         IN  r # <<>> /\ \A i \in 1 .. Len(r) : r[i] = 0
<1>1. PICK b : b = e.handles[k]
  OBVIOUS
<1>3. ASSUME NEW l \in 1 .. b.count
      PROVE  m[(b.page + (l - 1) * NativePerPage) * PageUnits] = 0
  BY <1>1, PageUnitsOf
<1>4. PICK r : r = PageReading(m, b.page, b.count)
  OBVIOUS
<1> QED
  BY <1>1, <1>3, <1>4, EmsHandleOwned, PageReadingIs

(* allocate_handle *)
LEMMA EmsAllocateStores ==
  ASSUME PagesHeld(pm), mem \in [Units -> Values], XmsHeld(pm, xms), EmsHeld(pm, ems),
         FrameHeld(pm, ems, hwFrame), xms' = xms,
         NEW count \in EmsCounts, NEW z \in ZeroResults, EmsAllocate(count, z)
  PROVE  [Store!Next]_(Store!vars)
<1>1. PICK r : r = Allocate(pm, mem, "ems", count * NativePerPage, z)
  OBVIOUS
<1>2. PICK k : k = Min(Allottable(ems.handles))
  OBVIOUS
<1>3. /\ pm' = r.pm /\ mem' = r.mem /\ ~ems.poisoned /\ Allottable(ems.handles) # {}
      /\ ems' = IF r.status = "OK"
                THEN [ems EXCEPT !.handles[k] =
                        Allotted(ems.handles[k], r, count, count * NativePerPage)]
                ELSE PoisonEms(PageFault(r.status))
  BY <1>1, <1>2 DEF EmsAllocate, AllotHandle, EmsReady
<1>4. ems \in EmsManagerState /\ ems.handles \in [1 .. EmsHandleCount -> EmsBlock]
  BY DEF EmsHeld, EmsManagerState, EmsHandles
<1>5. k \in EmsHandles /\ ems.handles[k].lease = NoLease
  BY <1>2, <1>3, <1>4, AllottableSlot, EmsAssumption DEF EmsHandles
<1>6. PICK c \in Nat \ {0} : c = count * NativePerPage
  BY EmsAssumption
<1>7. /\ r.status = "OK" =>
           /\ Taken(pm, r.pm, "ems", r.lease, r.page, c)
           /\ \A u \in Units : u \div PageUnits \in r.page .. r.page + c - 1 => r.mem[u] = 0
      /\ \A u \in Units :
           u \div PageUnits \in pm.allocated \/ u \div PageUnits \notin pm.available =>
             r.mem[u] = mem[u]
  <2>1. "ems" \in PageOwners \ {"nobody"}
    BY DEF PageOwners
  <2> QED
    BY <1>1, <1>6, <2>1, AllocateOutcome
<1>8. /\ Untouched(pm, "ems", 0, mem, mem') /\ Untouched(pm, "xms", 0, mem, mem')
      /\ LowSame(mem, mem')
  BY <1>3, <1>7, FreeTouched
<1>9. CASE r.status # "OK"
  <2>1. PICK bad \in BOOLEAN : bad = PageFault(r.status)
    <3>1. PageFault(r.status) \in BOOLEAN
      BY DEF PageFault
    <3> QED
      BY <3>1
  <2>2. ems'.handles = ems.handles /\ ems'.poisoned \in BOOLEAN
    <3>1. ems' = [ems EXCEPT !.poisoned = bad]
      BY <1>3, <1>9, <2>1 DEF PoisonEms
    <3> QED
      BY <1>4, <3>1, EmsFlagged
  <2>3. NoHandles(ems, 0)
    BY NoSlot
  <2> QED
    BY <1>3, <1>8, <2>2, <2>3, EmsSame
<1>10. CASE r.status = "OK"
  <2>1. PICK b : b = Allotted(ems.handles[k], r, count, c)
    OBVIOUS
  <2>2. b.lease = r.lease
    BY <2>1 DEF Allotted
  <2>3. ems' = [ems EXCEPT !.handles[k] = b]
    BY <1>3, <1>6, <1>10, <2>1
  <2>4. /\ ems'.poisoned = ems.poisoned /\ ems'.handles[k] = b
        /\ \A j \in EmsHandles \ {k} : ems'.handles[j] = ems.handles[j]
    BY <1>4, <1>5, <2>3 DEF EmsManagerState
  <2>5. OneHandle(k)
    BY <1>3, <1>5, <1>8, <2>4, EmsChanged
  <2>6. EmsContents[k] = <<>>
    BY <1>5, <2>5, FreeReading DEF OneHandle
  <2>7. PagesHeld(r.pm) /\ EmsHeld(r.pm, ems')
    BY <1>3, EmsAllocateHeld DEF Served
  <2>8. b.lease # NoLease /\ PageRun(r.pm.leases[b.lease.slot]) = r.page .. r.page + c - 1
    BY <1>7, <1>10, <2>2 DEF Taken, Owned, PageRun
  <2>9. ems'.handles[k].lease # NoLease
        /\ \A u \in Units :
             u \div PageUnits \in PageRun(r.pm.leases[ems'.handles[k].lease.slot]) => r.mem[u] = 0
    BY <1>7, <1>10, <2>4, <2>8
  <2>10. PICK f : f = PageReading(r.mem, ems'.handles[k].page, ems'.handles[k].count)
    OBVIOUS
  <2>11. f # <<>> /\ \A i \in 1 .. Len(f) : f[i] = 0
    BY <1>5, <2>7, <2>9, <2>10, FreshPages
  <2>12. EmsContents'[k] = f
    BY <1>3, <2>5, <2>10 DEF OneHandle
  <2>13. LView(mem') = LView(mem) /\ XView(xms', mem') = XView(xms, mem)
    BY <1>8, SameViews
  <2> QED
    BY <1>5, <2>4, <2>5, <2>6, <2>11, <2>12, <2>13, TakePagesStep
<1> QED
  BY <1>9, <1>10

(* vcpi_allocate_page *)
LEMMA VcpiAllocateStores ==
  ASSUME PagesHeld(pm), mem \in [Units -> Values], XmsHeld(pm, xms), EmsHeld(pm, ems),
         xms' = xms, NEW z \in ZeroResults, VcpiAllocate(z)
  PROVE  [Store!Next]_(Store!vars)
<1>1. PICK r : r = Allocate(pm, mem, "ems", 1, z)
  OBVIOUS
<1>2. PICK k : k = Min(Allottable(ems.vcpi))
  OBVIOUS
<1>3. /\ mem' = r.mem /\ ~ems.poisoned
      /\ ems' = IF r.status = "OK"
                THEN [ems EXCEPT !.vcpi[k] = Allotted(ems.vcpi[k], r, 1, 1)]
                ELSE PoisonEms(PageFault(r.status))
  BY <1>1, <1>2 DEF VcpiAllocate, AllotVcpi, EmsReady
<1>5. \A u \in Units :
        u \div PageUnits \in pm.allocated \/ u \div PageUnits \notin pm.available =>
          r.mem[u] = mem[u]
  <2>1. "ems" \in PageOwners \ {"nobody"} /\ 1 \in Nat \ {0}
    BY DEF PageOwners
  <2> QED
    BY <1>1, <2>1, AllocateOutcome
<1>7. PICK bad \in BOOLEAN : bad = PageFault(r.status)
  <2>1. PageFault(r.status) \in BOOLEAN
    BY DEF PageFault
  <2> QED
    BY <2>1
<1> QED
  BY <1>3, <1>5, FreeTouched, <1>7, EmsFlagged, NoSlot, EmsSame
  DEF EmsManagerState, PoisonEms, EmsHeld

(* vcpi_free_page *)
LEMMA VcpiFreeStores ==
  ASSUME PagesHeld(pm), mem \in [Units -> Values], XmsHeld(pm, xms), EmsHeld(pm, ems),
         xms' = xms, NEW page \in Pages, NEW z \in ZeroResults, VcpiFree(page, z)
  PROVE  [Store!Next]_(Store!vars)
<1>1. PICK k \in VcpiSlots : /\ InUse(ems.vcpi[k])
                             /\ ReturnVcpi(k, Release(pm, mem, "ems", ems.vcpi[k].lease, z))
  BY DEF VcpiFree
<1>2. PICK l : l = ems.vcpi[k].lease
  OBVIOUS
<1>3. PICK r : r = Release(pm, mem, "ems", l, z)
  OBVIOUS
<1>4. /\ mem' = r.mem /\ ~ems.poisoned /\ l # NoLease
      /\ ems' = IF r.status = "OK"
                THEN [ems EXCEPT !.vcpi[k] = FreeEms(ems.vcpi[k].generation)]
                ELSE PoisonEms(PageFault(r.status))
  BY <1>1, <1>2, <1>3 DEF VcpiFree, ReturnVcpi, EmsReady, InUse
<1>5. PICK p, c : Owned(pm, "ems", l, p, c) /\ l \in Leases
  BY <1>2, <1>4, EmsVcpiOwned
<1>8. PICK bad \in BOOLEAN : bad = PageFault(r.status)
  <2>1. PageFault(r.status) \in BOOLEAN
    BY DEF PageFault
  <2> QED
    BY <2>1
<1>10. NoHandles(ems, l.slot)
  BY <1>2, <1>4, OtherHandles DEF NoHandles
<1> QED
  BY <1>4, <1>3, <1>5, ReleaseTouched, <1>8, EmsFlagged, <1>10, EmsSame
  DEF EmsManagerState, PoisonEms, EmsHeld

(* A call that touches neither memory nor a handle. *)
LEMMA EmsIdle ==
  ASSUME PagesHeld(pm), XmsHeld(pm, xms), EmsHeld(pm, ems), xms' = xms, mem' = mem,
         ems'.handles = ems.handles, ~ems.poisoned, ems'.poisoned \in BOOLEAN
  PROVE  [Store!Next]_(Store!vars)
<1> QED
  BY UntouchedSelf, NoSlot, EmsSame

(* The mark of an EMS that gives up, or does not. *)
LEMMA EmsMarked ==
  ASSUME ems \in EmsManagerState, NEW bad \in BOOLEAN, ems' = PoisonEms(bad)
  PROVE  ems'.handles = ems.handles /\ ems'.poisoned \in BOOLEAN
<1> QED
  BY EmsFlagged DEF PoisonEms

(* dos_ems_query_pages and the platform's calls *)
LEMMA EmsDoubtStores ==
  ASSUME PagesHeld(pm), XmsHeld(pm, xms), EmsHeld(pm, ems), xms' = xms,
         EmsQuery \/ \E result \in PlatformResults : VcpiPlatformCall(result)
  PROVE  [Store!Next]_(Store!vars)
<1> QED
  BY EmsMarked, EmsIdle DEF EmsHeld, EmsQuery, VcpiPlatformCall, EmsReady

(* map_handle_page and unmap_frame_slot: the handles stay. *)
LEMMA EmsMapStores ==
  ASSUME PagesHeld(pm), XmsHeld(pm, xms), EmsHeld(pm, ems), xms' = xms, NEW s, NEW result,
         (\E h, logical : EmsMap(s, h, logical, result)) \/ EmsUnmap(s, result)
  PROVE  [Store!Next]_(Store!vars)
<1>3. PICK f : \/ ems' = [ems EXCEPT !.frame[s] = f] \/ ems' = PoisonEms(TRUE)
               \/ ems' = PoisonEms(FALSE)
  BY DEF EmsUnmap, EmsMap
<1> QED
  BY EmsMarked, <1>3, EmsIdle DEF EmsMap, EmsUnmap, EmsReady, EmsManagerState, EmsHeld

(* restore_frame_slots *)
LEMMA RestoreMarks ==
  ASSUME ems \in EmsManagerState, NEW out, NEW back, RestoreFrameSlots(out, back)
  PROVE  ems'.handles = ems.handles /\ ems'.poisoned \in BOOLEAN
<1>1. PICK bad \in BOOLEAN : ems' = PoisonEms(bad)
  BY DEF RestoreFrameSlots
<1> QED
  BY <1>1, EmsMarked

(* release_handle, once the frame shows none of its pages. *)
LEMMA ReturnHandleStores ==
  ASSUME PagesHeld(pm), mem \in [Units -> Values], XmsHeld(pm, xms), EmsHeld(pm, ems),
         xms' = xms, ~ems.poisoned, NEW k \in EmsHandles, ems.handles[k].lease # NoLease,
         NEW back, NEW z \in ZeroResults,
         ReturnHandle(k, back, Release(pm, mem, "ems", ems.handles[k].lease, z))
  PROVE  [Store!Next]_(Store!vars)
<1>1. PICK l : l = ems.handles[k].lease
  OBVIOUS
<1>2. PICK r : r = Release(pm, mem, "ems", l, z)
  OBVIOUS
<1>3. ReturnHandle(k, back, r) /\ ems \in EmsManagerState
  BY <1>1, <1>2 DEF EmsHeld
<1>4. PICK p, c : Owned(pm, "ems", l, p, c) /\ l \in Leases /\ l # NoLease
  BY <1>1, EmsHandleOwned
<1>5. r.status \in {"OK", "POISONED", "ZERO_FAILED"} /\ mem' = r.mem
  BY <1>2, <1>3, <1>4, ReleaseOutcome DEF ReturnHandle
<1>6. /\ Untouched(pm, "xms", 0, mem, mem') /\ Untouched(pm, "ems", l.slot, mem, mem')
      /\ LowSame(mem, mem') /\ (r.status # "OK" => mem' = mem)
  BY <1>2, <1>4, ReleaseTouched, <1>5
<1>7. CASE r.status = "OK"
  <2>2. /\ ems'.poisoned = ems.poisoned
        /\ ems'.handles[k] = FreeEms(ems.handles[k].generation)
        /\ \A j \in EmsHandles \ {k} : ems'.handles[j] = ems.handles[j]
    BY <1>3, <1>7 DEF EmsManagerState, ReturnHandle
  <2>3. OneHandle(k)
    BY <1>1, <1>4, <1>6, <2>2, EmsChanged
  <2>5. EmsContents'[k] = <<>>
    BY <2>2, <2>3 DEF PageReading, OneHandle, FreeEms
  <2> QED
    BY <2>2, <2>3, <2>5, <1>6, SameViews, DropPagesStep
<1>8. CASE r.status = "POISONED"
  BY <1>8, <1>3, EmsMarked, <1>6, EmsIdle DEF PageFault, ReturnHandle
<1>9. CASE r.status = "ZERO_FAILED"
  BY <1>9, <1>3, RestoreMarks, <1>6, EmsIdle DEF PageFault, ReturnHandle
<1> QED
  BY <1>5, <1>7, <1>8, <1>9

(* release_handle *)
LEMMA EmsReleaseStores ==
  ASSUME PagesHeld(pm), mem \in [Units -> Values], XmsHeld(pm, xms), EmsHeld(pm, ems),
         xms' = xms, NEW k \in EmsHandles, NEW unmap, NEW back, NEW z \in ZeroResults,
         EmsRelease(k, unmap, back, z)
  PROVE  [Store!Next]_(Store!vars)
<1>1. PICK failing : failing = {s \in SlotsOf(k) : unmap[s] # "OK"}
  OBVIOUS
<1>2. PICK out : out = {s \in SlotsOf(k) : \A t \in failing : s < t}
  OBVIOUS
<1>3. /\ ~ems.poisoned /\ ems.handles[k].lease # NoLease
      /\ failing = {} => ReturnHandle(k, back, Release(pm, mem, "ems", ems.handles[k].lease, z))
      /\ failing # {} => UNCHANGED <<pm, mem>>
  BY <1>1, <1>2 DEF EmsRelease, EmsReady, InUse
<1>4. CASE failing = {}
  BY <1>3, <1>4, ReturnHandleStores
<1>5. CASE failing # {}
  BY <1>3, <1>5, <1>1, <1>2, EmsMarked, EmsIdle, RestoreMarks DEF EmsHeld, EmsRelease
<1> QED
  BY <1>4, <1>5

(* The first unit of a page. *)
LEMMA FirstUnit ==
  ASSUME NEW p \in Pages
  PROVE  p * PageUnits \in Units /\ (p * PageUnits) \div PageUnits = p
<1>1. PICK w \in Nat \ {0} : w = PageUnits
  BY PagesAssumption
<1>2. PICK t \in Nat : t = LastPage + 1 /\ p + 1 <= t /\ p \in Nat
  BY PagesAssumption DEF Pages
<1> QED
  BY <1>1, <1>2 DEF Units

(* What a change of one page of a lease leaves alone. *)
SamePages(m, n, page) == \A u \in Units : u \div PageUnits # page => n[u] = m[u]

(* The page belongs to one lease. *)
LEMMA PageTouched ==
  ASSUME NEW g, PagesHeld(g), NEW o, NEW t \in LiveOf(g, o), NEW page \in PageRun(g.leases[t]),
         NEW m, NEW n, SamePages(m, n, page)
  PROVE  /\ LowSame(m, n) /\ Untouched(g, o, t, m, n)
         /\ \A q : q # o => Untouched(g, q, 0, m, n)
<1>1. t \in LeaseSlots /\ g.leases[t].state = "LIVE" /\ g.leases[t].owner = o
  BY DEF LiveOf
<1>4. ASSUME NEW s \in LeaseSlots, s # t, g.leases[s].state = "LIVE"
      PROVE  page \notin PageRun(g.leases[s])
  BY <1>1, <1>4 DEF PagesHeld, RunsHeld
<1>6. ASSUME NEW q, q # o
      PROVE  Untouched(g, q, 0, m, n)
  BY <1>1, <1>4, <1>6 DEF Untouched, LiveOf, SamePages
<1> QED
  BY <1>1, LowAway, <1>4, <1>6
  DEF Untouched, LiveOf, SamePages, LowSame, PagesHeld, RunsHeld, PageManager

(* Two pages of a handle begin at two places. *)
LEMMA PagesApart ==
  ASSUME NEW q \in Nat, NEW i \in Nat, NEW j \in Nat, i # j
  PROVE  q + i * NativePerPage # q + j * NativePerPage
<1>1. PICK n \in Nat \ {0} : n = NativePerPage
  BY EmsAssumption
<1> QED
  BY <1>1

(* A program writes to what the page frame shows: to one page of one handle, or, when *)
(* EMS has given up, to a page that nobody reads as his.                              *)
LEMMA WriteFrameStores ==
  ASSUME PagesHeld(pm), mem \in [Units -> Values], XmsHeld(pm, xms), EmsHeld(pm, ems),
         FrameHeld(pm, ems, hwFrame), xms' = xms, NEW s \in FrameSlots, NEW v, WriteFrame(s, v)
  PROVE  [Store!Next]_(Store!vars)
<1>1. PICK w \in Pages : /\ w = hwFrame[s] /\ mem' = [mem EXCEPT ![w * PageUnits] = v]
                         /\ ems' = ems /\ w # 0
  BY DEF WriteFrame, FrameHeld
<1>2. w * PageUnits \in Units /\ (w * PageUnits) \div PageUnits = w /\ w \in Nat
  BY FirstUnit, PagesAssumption DEF Pages
<1>3. SamePages(mem, mem', w)
  BY <1>2, <1>1 DEF SamePages
<1>4. CASE ems.poisoned
  <2>1. PICK t \in LiveOf(pm, "ems") : w \in PageRun(pm.leases[t])
    BY EmsAssumption, <1>1, <1>2 DEF FrameHeld, Held
  <2>2. LowSame(mem, mem') /\ \A q : q # "ems" => Untouched(pm, q, 0, mem, mem')
    BY <1>3, <2>1, PageTouched
  <2>4. LView(mem') = LView(mem) /\ XView(xms', mem') = XView(xms, mem)
    BY <2>2, SameViews
  <2> QED
    BY <1>1, <2>4, <1>4, Stutters DEF EView
<1>5. CASE ~ems.poisoned
  <2>1. PICK f : f = ems.frame[s]
    OBVIOUS
  <2>3. PICK k \in EmsHandles, l \in Nat :
          /\ ems.handles[k].lease # NoLease /\ l < ems.handles[k].count
          /\ w = ems.handles[k].page + l * NativePerPage
    BY <2>1, PagesAssumption, <1>1, <1>5, FrameKnown
    DEF EmsHeld, EmsManagerState, FrameEntry, Unmapped
  <2>4. PICK b : b = ems.handles[k]
    OBVIOUS
  <2>5. b.lease.slot \in LiveOf(pm, "ems") /\ b.count \in Nat \ {0} /\ b.page \in Pages
    BY <2>3, <2>4, EmsHandleOwned
  <2>6. PICK q \in Nat, c \in Nat : q = b.page /\ c = b.count /\ l < c
    BY <2>3, <2>4, <2>5, PagesAssumption DEF Pages
  <2>7. l + 1 \in 1 .. c /\ (l + 1) - 1 = l
    BY <2>6
  <2>8. w \in PageRun(pm.leases[b.lease.slot])
    BY <2>4, <2>6, <2>7, <2>3, PageUnitsOf
  <2>9. /\ LowSame(mem, mem') /\ Untouched(pm, "ems", b.lease.slot, mem, mem')
        /\ \A o : o # "ems" => Untouched(pm, o, 0, mem, mem')
    BY <1>3, <2>5, <2>8, PageTouched
  <2>11. LView(mem') = LView(mem) /\ XView(xms', mem') = XView(xms, mem)
    BY <2>9, SameViews
  <2>12. OneHandle(k)
    BY <1>1, <1>5, <2>3, <2>4, <2>9, EmsChanged
  <2>13. EmsContents[k] = PageReading(mem, q, c) /\ EmsContents'[k] = PageReading(mem', q, c)
    BY <1>1, <2>4, <2>6, <2>12 DEF OneHandle
  <2>14. /\ Len(PageReading(mem, q, c)) = c /\ DOMAIN PageReading(mem, q, c) = 1 .. c
         /\ Len(PageReading(mem', q, c)) = c
         /\ \A i \in 1 .. c : PageReading(mem, q, c)[i] = mem[(q + (i - 1) * NativePerPage) * PageUnits]
         /\ \A i \in 1 .. c : PageReading(mem', q, c)[i] = mem'[(q + (i - 1) * NativePerPage) * PageUnits]
    BY PageReadingIs
  <2>15. ASSUME NEW i \in (1 .. c) \ {l + 1}
         PROVE  PageReading(mem', q, c)[i] = PageReading(mem, q, c)[i]
    <3>1. PICK j \in Nat : j = i - 1 /\ j # l
      OBVIOUS
    <3>2. PICK p : p = q + (i - 1) * NativePerPage
      OBVIOUS
    <3>5. PICK u \in Units : u = p * PageUnits /\ u \div PageUnits # w
      BY <2>3, <2>4, <2>6, <3>1, <3>2, PagesApart, PageUnitsOf
    <3> QED
      BY <2>14, <3>2, <3>5, <1>3 DEF SamePages
  <2> QED
    <3>1. PICK j : j = l + 1
      OBVIOUS
    <3>2. /\ Len(EmsContents'[k]) = Len(EmsContents[k]) /\ j \in 1 .. Len(EmsContents[k])
          /\ \A i \in DOMAIN EmsContents[k] \ {j} : EmsContents'[k][i] = EmsContents[k][i]
      BY <2>7, <2>13, <2>14, <2>15, <3>1
    <3> QED
      BY <2>11, <2>12, <3>2, <1>1, WritePageStep
<1> QED
  BY <1>4, <1>5

(* Every step of EMS and VCPI, and a write through the page frame. *)
LEMMA EmsStores ==
  ASSUME IndInv, EmsNext, xms' = xms
  PROVE  [Store!Next]_(Store!vars)
<1>1. /\ PagesHeld(pm) /\ mem \in [Units -> Values] /\ XmsHeld(pm, xms) /\ EmsHeld(pm, ems)
      /\ FrameHeld(pm, ems, hwFrame)
  BY DEF IndInv
<1>2. CASE EmsQuery \/ \E r \in PlatformResults : VcpiPlatformCall(r)
  BY <1>1, <1>2, EmsDoubtStores
<1>3. CASE \E count \in EmsCounts, z \in ZeroResults : EmsAllocate(count, z)
  BY <1>1, <1>3, EmsAllocateStores
<1>4. CASE \E z \in ZeroResults : VcpiAllocate(z)
  BY <1>1, <1>4, VcpiAllocateStores
<1>5. CASE \E page \in Pages, z \in ZeroResults : VcpiFree(page, z)
  BY <1>1, <1>5, VcpiFreeStores
<1>6. CASE \E s \in FrameSlots, h \in EmsHandles, l \in 0 .. LastPage, r \in FrameResults :
             EmsMap(s, h, l, r)
  BY <1>1, <1>6, EmsMapStores
<1>7. CASE \E s \in FrameSlots, r \in FrameResults : EmsUnmap(s, r)
  BY <1>1, <1>7, EmsMapStores
<1>8. CASE \E h \in EmsHandles : \E z \in ZeroResults :
             \E unmap, back \in [SlotsOf(h) -> FrameResults] : EmsRelease(h, unmap, back, z)
  BY <1>1, <1>8, EmsReleaseStores
<1>9. CASE \E s \in FrameSlots, v \in Values \ {0} : WriteFrame(s, v)
  BY <1>1, <1>9, WriteFrameStores
<1> QED
  BY <1>2, <1>3, <1>4, <1>5, <1>6, <1>7, <1>8, <1>9 DEF EmsNext

-----------------------------------------------------------------------------
(* The firmware shadow: a program sees none of its pages.                  *)

(* Conventional memory, the blocks and the pages hold the same. *)
Apart(m, n) == LowSame(m, n) /\ Untouched(pm, "xms", 0, m, n) /\ Untouched(pm, "ems", 0, m, n)

(* One change after another. *)
LEMMA ApartChain ==
  ASSUME NEW m, NEW n, NEW k, Apart(m, n), Apart(n, k)
  PROVE  Apart(m, k)
BY LowChain, UntouchedChain DEF Apart

(* A change of pages of the guest space alone, once its leases have changed. *)
LEMMA ApartServed ==
  ASSUME NEW g, NEW m, Served(pm, g, m, "space"), NEW a, NEW b, LowSame(a, b),
         \A o : o # "space" => Untouched(g, o, 0, a, b)
  PROVE  Apart(a, b)
<1> QED
  BY UntouchedForeign DEF Apart, Served, PageOwners

(* release_private_page *)
LEMMA PrivateApart ==
  ASSUME NEW st, Served(pm, st.pm, st.mem, "space"), NEW k, NEW z \in ZeroResults,
         NEW l \in Leases, l # NoLease, l = st.shadow.pages[k].lease, NEW p, NEW c,
         Owned(st.pm, "space", l, p, c)
  PROVE  Apart(st.mem, ReleasePrivatePage(st, k, z).mem)
<1>1. PICK g, m : g = st.pm /\ m = st.mem
  OBVIOUS
<1>2. PICK r : r = Release(g, m, "space", l, z)
  OBVIOUS
<1>6. Apart(m, r.mem)
  BY <1>1, <1>2, ReleaseTouched, ApartServed DEF Served
<1> QED
  BY <1>1, <1>2, StepParts, <1>6 DEF ReleasePrivatePage, GiveBack

(* The lease of a private page on its way back. *)
LEMMA PrivateOwned ==
  ASSUME NEW st, Underway(st), NEW k \in ShadowSlots, st.shadow.pages[k].state # "EMPTY"
  PROVE  LET l == st.shadow.pages[k].lease
         IN  l \in Leases /\ l # NoLease /\ \E p, c : Owned(st.pm, "space", l, p, c)
<1>1. PICK w, p, g, l : w = st.shadow /\ p = w.pages[k] /\ g = st.pm /\ l = p.lease
  OBVIOUS
<1>2. ShadowPages(g, w) /\ w \in ShadowOwner /\ PagesHeld(g)
  BY <1>1 DEF Underway, ShadowPages, Served
<1>3. ShadowBacked(g, p) /\ p.state # "EMPTY"
  BY <1>1, <1>2 DEF ShadowPages
<1>4. l # NoLease
  BY <1>1, <1>3, SMTT(30) DEF ShadowBacked, EmptyPage
<1>5. ShadowLeases(w) \in [ShadowSlots -> Leases] /\ ShadowLeases(w)[k] = l
  BY <1>1, <1>2, ShadowTable
<1>7. l.slot \in LiveOf(g, "space") /\ l = NameOf(g, l.slot)
  BY <1>2, <1>4, <1>5 DEF ShadowPages, Book
<1>10. l.generation = g.leases[l.slot].generation
  BY <1>7 DEF NameOf
<1>12. Owned(g, "space", l, p.page, 1)
  BY <1>1, <1>3, <1>4, <1>7, <1>10, <1>2, ManagerFields
  DEF Owned, LeaseSlot, ShadowBacked, PagesHeld, LiveOf
<1> QED
  BY <1>1, <1>4, <1>5, <1>12

(* The walk over the private pages. *)
LEMMA WalkApart ==
  ASSUME NEW st, Underway(st), NEW z \in [ShadowSlots -> ZeroResults]
  PROVE  Apart(st.mem, ReleasePages(st, z).mem)
<1>1. PICK c \in Nat : c = ShadowCapacity
  BY ShadowAssumption
<1>2. PICK a : a = CHOOSE x : Walking(st, z, c, x)
  OBVIOUS
<1>3. Walking(st, z, c, a)
  BY <1>2, WalkExists
<1>5. \A j \in 0 .. c : a[j] = IF j = 0 THEN st ELSE WalkStep(a[j - 1], z, c - j + 1)
  BY <1>1, <1>3 DEF Walking
<1> DEFINE S == {j \in 0 .. c : Underway(a[j]) /\ Apart(st.mem, a[j].mem)}
<1>6. 0 \in S
  BY <1>5, UntouchedSelf DEF Apart
<1>7. ASSUME NEW j \in 0 .. c, j \in S, j < c
      PROVE  j + 1 \in S
  <2>1. PICK k : k = c - j
    OBVIOUS
  <2>2. /\ j + 1 \in 0 .. c /\ j + 1 # 0 /\ (j + 1) - 1 = j /\ c - (j + 1) + 1 = k
        /\ k \in ShadowSlots
    BY <1>1, <1>7, <2>1 DEF ShadowSlots
  <2>3. a[j + 1] = WalkStep(a[j], z, k)
    BY <1>5, <2>2
  <2>4. Underway(a[j]) /\ Apart(st.mem, a[j].mem)
    BY <1>7
  <2>5. CASE a[j].status # "OK" \/ a[j].shadow.pages[k].state = "EMPTY"
    BY <2>3, <2>5, <2>2, <2>4 DEF WalkStep
  <2>6. CASE ~(a[j].status # "OK" \/ a[j].shadow.pages[k].state = "EMPTY")
    <3>1. PICK s, t : s = a[j] /\ t = a[j + 1]
      OBVIOUS
    <3>2. t = ReleasePrivatePage(s, k, z[k]) /\ z[k] \in ZeroResults
      BY <2>2, <2>3, <2>6, <3>1 DEF WalkStep
    <3>3. Underway(t)
      BY <2>2, <2>4, <2>6, <3>1, <3>2, PrivateReleased
    <3>4. PICK l, p, d : /\ l \in Leases /\ l = s.shadow.pages[k].lease /\ l # NoLease
                         /\ Owned(s.pm, "space", l, p, d)
      BY <2>2, <2>4, <2>6, <3>1, PrivateOwned
    <3>7. Apart(st.mem, t.mem)
      BY <2>4, <3>1, <3>2, <3>4, PrivateApart, ApartChain DEF Underway
    <3> QED
      BY <2>2, <3>1, <3>3, <3>7
  <2> QED
    BY <2>5, <2>6
<1> HIDE DEF S
<1>8. 0 .. c \subseteq S
  BY <1>6, <1>7, UpTo
<1> QED
  BY <1>1, <1>2, <1>8 DEF S, ReleasePages, Walking, WalkStep

(* x86_firmware_shadow_execution_release *)
LEMMA ReleaseExecutionApart ==
  ASSUME PagesHeld(pm), mem \in [Units -> Values], ShadowHeld(pm, shadow, pte), NEW c \in Clients,
         NEW z \in [ShadowSlots -> ZeroResults], ReleaseExecution(c, z)
  PROVE  Apart(mem, mem')
<1>1. CASE ActiveClients(shadow) # {c}
  BY <1>1, UntouchedSelf DEF ReleaseExecution, Apart
<1>2. CASE ActiveClients(shadow) = {c}
  BY StepParts, <1>2, ShadowParts, WalkApart
  DEF ReleaseExecution, SettleRelease, Served, Foreign, Underway
<1> QED
  BY <1>1, <1>2

(* A new private page, with the firmware's copy in it or on its way back. *)
LEMMA NewPageApart ==
  ASSUME PagesHeld(pm), mem \in [Units -> Values], shadow \in ShadowOwner,
         UsedPages(shadow) # ShadowSlots, NEW r, NEW copied \in BOOLEAN,
         NEW z1 \in ZeroResults, NEW z2 \in ZeroResults,
         ShadowNewPage(r, Allocate(pm, mem, "space", 1, z1), copied, z2)
  PROVE  Apart(mem, mem')
<1>1. PICK a : a = Allocate(pm, mem, "space", 1, z1)
  OBVIOUS
<1>2. ShadowNewPage(r, a, copied, z2)
  BY <1>1
<1>3. /\ PagesHeld(a.pm) /\ a.pm.available = pm.available /\ a.mem \in [Units -> Values]
      /\ a.status = "OK" => Taken(pm, a.pm, "space", a.lease, a.page, 1)
      /\ \A u \in Units :
           u \div PageUnits \in pm.allocated \/ u \div PageUnits \notin pm.available =>
             a.mem[u] = mem[u]
  <2>1. "space" \in PageOwners \ {"nobody"} /\ 1 \in Nat \ {0}
    BY DEF PageOwners
  <2> QED
    BY <1>1, <2>1, AllocateOutcome
<1>4. Apart(mem, a.mem)
  BY <1>3, FreeTouched DEF Apart
<1>5. CASE a.status # "OK"
  BY <1>2, <1>5, <1>4 DEF ShadowNewPage
<1>6. CASE a.status = "OK"
  <2>1. PICK k : k = Min(ShadowSlots \ UsedPages(shadow))
    OBVIOUS
  <2>2. k \in ShadowSlots
    BY <2>1, MinIs DEF ShadowSlots, UsedPages
  <2>3. PICK p : p = [state |-> "LEASED", lease |-> a.lease, rom |-> r, page |-> a.page]
    OBVIOUS
  <2>4. PICK w : w = [shadow EXCEPT !.pages[k] = p]
    OBVIOUS
  <2>5. PICK st : st = Step(w, pte, a.pm, a.mem, "OK")
    OBVIOUS
  <2>6. PICK clean \in BOOLEAN : clean = (copied /\ pte[r] = Identity)
    OBVIOUS
  <2>7. PublishPage(st, k, r, clean, z2)
    BY <1>2, <1>6, <2>1, <2>3, <2>4, <2>5, <2>6 DEF ShadowNewPage
  <2>8. /\ Taken(pm, a.pm, "space", a.lease, a.page, 1) /\ a.lease \in Leases
        /\ a.lease # NoLease /\ a.page \in Pages /\ Owned(a.pm, "space", a.lease, a.page, 1)
    BY <1>3, <1>6 DEF Taken
  <2>9. Served(pm, a.pm, a.mem, "space")
    BY <1>3, <2>8, ServedTaken
  <2>10. st.shadow = w /\ st.pm = a.pm /\ st.mem = a.mem /\ p.lease = a.lease /\ p.page = a.page
    BY <2>3, <2>5, StepParts
  <2>11. w.pages[k] = p
    BY <2>2, <2>4 DEF ShadowOwner
  <2>12. CASE clean
    <3>2. SamePages(a.mem, mem', a.page)
      BY <2>7, <2>10, <2>11, <2>12 DEF SamePages, PublishPage
    <3>3. a.lease.slot \in LiveOf(a.pm, "space") /\ a.page \in PageRun(a.pm.leases[a.lease.slot])
      BY <2>8, PagesAssumption DEF Owned, LiveOf, PageRun, Pages
    <3>4. LowSame(a.mem, mem') /\ \A o : o # "space" => Untouched(a.pm, o, 0, a.mem, mem')
      BY <1>3, <3>2, <3>3, PageTouched
    <3> QED
      BY <1>4, <2>9, <3>4, ApartServed, ApartChain
  <2>13. CASE ~clean
    BY <2>7, <2>13, <2>8, <2>9, <2>10, <2>11, PrivateApart, <1>4, ApartChain
    DEF PublishPage
  <2> QED
    BY <2>12, <2>13
<1> QED
  BY <1>5, <1>6

(* x86_firmware_shadow_write_fault *)
LEMMA WriteFaultApart ==
  ASSUME PagesHeld(pm), mem \in [Units -> Values], ShadowHeld(pm, shadow, pte), NEW c, NEW r,
         NEW copied \in BOOLEAN, NEW z1 \in ZeroResults, NEW z2 \in ZeroResults,
         WriteFault(c, r, copied, z1, z2)
  PROVE  Apart(mem, mem')
<1>1. CASE FindPage(shadow, r) # {}
  BY <1>1, UntouchedSelf DEF WriteFault, FaultOnKnownPage, Apart
<1>2. CASE FindPage(shadow, r) = {}
  BY <1>2, NewPageApart DEF WriteFault, ShadowHeld
<1> QED
  BY <1>1, <1>2

(* No step of the firmware shadow changes what a program can see. *)
LEMMA ShadowStores ==
  ASSUME IndInv, ShadowNext, xms' = xms, ems' = ems
  PROVE  UNCHANGED Store!vars
<1>1. /\ PagesHeld(pm) /\ mem \in [Units -> Values] /\ XmsHeld(pm, xms) /\ EmsHeld(pm, ems)
      /\ ShadowHeld(pm, shadow, pte)
  BY DEF IndInv
<1>3. Apart(mem, mem')
  BY UntouchedSelf, <1>1, ReleaseExecutionApart, WriteFaultApart
  DEF AcquireExecution, QuarantineExecution, OverwriteEntry, ShadowNext, Apart
<1> QED
  BY <1>1, <1>3, SameViews, Stutters DEF Apart

-----------------------------------------------------------------------------
(* The stores at the start. *)
LEMMA StoreInit ==
  ASSUME Init
  PROVE  Store!Init
<1>1. PICK f \in Nat : f = FirstPage * PageUnits
  BY PagesAssumption
<1> QED
  BY LowAway
  DEF Store!Init, Init, XmsInit, NoBlock, ReadUnits, XmsContents, Store!Nothing,
      EmsInit, FreeEms, ReadPages, EmsContents, LowContents, LowUnits, Store!Low,
      PagesInit

(* Nothing happens. *)
LEMMA StoreIdle ==
  ASSUME UNCHANGED vars
  PROVE  UNCHANGED Store!vars
<1> QED
  BY Stutters DEF vars

(* Every step keeps the stores. *)
LEMMA StoreStep ==
  ASSUME IndInv, [Next]_vars
  PROVE  [Store!Next]_(Store!vars)
<1>1. CASE ShadowNext /\ UNCHANGED <<xms, emsVars>>
  BY <1>1, ShadowStores DEF emsVars
<1>2. CASE XmsNext /\ UNCHANGED <<shadowVars, emsVars>>
  BY <1>2, XmsStores DEF emsVars
<1>3. CASE EmsNext /\ UNCHANGED <<shadowVars, xms>>
  BY <1>3, EmsStores
<1>4. CASE UNCHANGED vars
  BY <1>4, StoreIdle
<1> QED
  BY <1>1, <1>2, <1>3, <1>4 DEF Next

(* XMS and EMS keep the stores they promise, for every map of memory, every number *)
(* of handles and pages and every failure of the zeroing, the copy and the mapper: *)
(* contents survive growth, moves, remapping and other programs' calls, fresh      *)
(* memory is empty and an overlapping move copies what the source held.            *)
THEOREM StoreKept == Spec => KeepsStore
<1>1. Init => Store!Init
  BY StoreInit
<1>2. IndInv /\ [Next]_vars => [Store!Next]_(Store!vars)
  BY StoreStep
<1> QED
  BY <1>1, <1>2, Invariance, PTL DEF Spec, KeepsStore, Store!Spec
=============================================================================
