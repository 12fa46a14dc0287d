--------------------------- MODULE FirmwareShadow ---------------------------
(***************************************************************************)
(* Private writable copies of the firmware pages                           *)
(* (kernel/x86_vm/memory/firmware_shadow.c): the first write of a guest to *)
(* a read-only firmware page leases a page, copies the firmware into it    *)
(* and turns the guest's page-table entry to it.  The copies belong to the *)
(* execution, which all its clients share; the last client gives them up.  *)
(***************************************************************************)
EXTENDS GuestPages

CONSTANTS
  RomPages,              \* firmware pages, outside Pages
  ClientCapacity,        \* CONFIG_X86_GUEST_FIRMWARE_CLIENT_CAPACITY
  ShadowCapacity,        \* CONFIG_X86_GUEST_FIRMWARE_SHADOW_PAGE_CAPACITY
  ShadowGenerationMax,   \* X86_FIRMWARE_GENERATION_MAX
  RomValue,              \* what the firmware pages hold
  StrayEntries           \* may something else overwrite a page-table entry?

ASSUME ShadowAssumption ==
  /\ ClientCapacity \in Nat \ {0} /\ ShadowCapacity \in Nat \ {0}
  /\ ShadowGenerationMax \in Nat \ {0}
  /\ RomValue \in Values /\ StrayEntries \in BOOLEAN

VARIABLES
  shadow,   \* struct x86_firmware_shadow_owner
  pte,      \* the guest's entries for the firmware pages
  space     \* poisoned of the guest space (guest_space.c)

shadowVars == <<shadow, pte, space>>

Identity == 0              \* the firmware page itself, read-only
StrayEntry == LastPage + 2 \* anything but the identity or a private page
Clients == 1 .. ClientCapacity
ShadowSlots == 1 .. ShadowCapacity

ShadowPage ==
  [state : {"EMPTY", "LEASED", "ACTIVE", "RESTORED"}, lease : Leases,
   rom : RomPages \cup {Identity}, page : 0 .. LastPage]
EmptyPage == [state |-> "EMPTY", lease |-> NoLease, rom |-> Identity, page |-> 0]

ShadowOwner ==
  [clients : [Clients -> [generation : 0 .. ShadowGenerationMax,
                          execution : 0 .. ShadowGenerationMax, active : BOOLEAN]],
   pages : [ShadowSlots -> ShadowPage],
   execution : 0 .. ShadowGenerationMax, poisoned : BOOLEAN, corrupted : BOOLEAN]

(* x86_firmware_shadow_initialize *)
ShadowInit ==
  /\ shadow = [clients |-> [c \in Clients |->
                              [generation |-> 0, execution |-> 0, active |-> FALSE]],
               pages |-> [i \in ShadowSlots |-> EmptyPage],
               execution |-> 0, poisoned |-> FALSE, corrupted |-> FALSE]
  /\ pte = [r \in RomPages |-> Identity]
  /\ space = [poisoned |-> FALSE]

ActiveClients(s) == {c \in Clients : s.clients[c].active}       \* client_count
UsedPages(s) == {i \in ShadowSlots : s.pages[i].state # "EMPTY"} \* page_count
FindPage(s, r) == {i \in UsedPages(s) : s.pages[i].rom = r}      \* find_page

(* guest_space_is_active; firmware_shadow_status poisons the devices of the space. *)
SpaceActive == ~space.poisoned
Poisons(poisoned) == space' = [space EXCEPT !.poisoned = @ \/ poisoned]

-----------------------------------------------------------------------------
(* Fault (AcquirableClientsAny): a client slot counts past its last generation. *)
(* x86_firmware_shadow_execution_acquire.  The first client starts a new       *)
(* execution; a spent counter, or pages that an execution left, poison.        *)
AcquirableClientsAny(s) == {c \in Clients : ~s.clients[c].active}
AcquirableClients(s) ==
  {c \in Clients : ~s.clients[c].active /\ s.clients[c].generation < ShadowGenerationMax}

AcquireExecution ==
  /\ SpaceActive /\ ~shadow.poisoned
  /\ LET first == ActiveClients(shadow) = {}
         spent == first /\ (UsedPages(shadow) # {} \/ shadow.execution >= ShadowGenerationMax)
         e     == IF first THEN shadow.execution + 1 ELSE shadow.execution
         free  == AcquirableClients(shadow)
     IN  /\ shadow' =
              CASE spent -> [shadow EXCEPT !.poisoned = TRUE]
                [] ~spent /\ free = {} -> [shadow EXCEPT !.execution = e]
                [] OTHER ->
                     [shadow EXCEPT !.execution = e,
                        !.clients[Min(free)] = [generation |-> @.generation + 1,
                                                execution |-> e, active |-> TRUE]]
         /\ Poisons(spent)
  /\ UNCHANGED <<bootMap, pm, mem, pte>>

(* x86_paging_guest_shadow_restore: the saved entry goes back whatever is there. *)
Restored(t, r) == [t EXCEPT ![r] = Identity]
RestoreIsClean(t, r, page) == t[r] \in {Identity, page}

(* The pages of an execution on their way back, and what stopped them. *)
Step(s, t, g, m, status) == [shadow |-> s, pte |-> t, pm |-> g, mem |-> m, status |-> status]

(* Fault: the lease goes back before the alias is taken down. *)
TakeDownNothing(st, i) == st

(* The first half of release_private_page. *)
TakeDown(st, i) ==
  LET p == st.shadow.pages[i]
  IN  IF p.state # "ACTIVE" THEN st
      ELSE [st EXCEPT
              !.shadow = [st.shadow EXCEPT !.pages[i].state = "RESTORED",
                            !.corrupted = @ \/ ~RestoreIsClean(st.pte, p.rom, p.page)],
              !.pte = Restored(@, p.rom)]

(* The second half: the lease goes back. *)
GiveBack(st, i, answer) ==
  Step([st.shadow EXCEPT !.pages[i] = IF answer.status = "OK" THEN EmptyPage ELSE @],
       st.pte, answer.pm, answer.mem,
       CASE answer.status = "OK" -> "OK"
         [] answer.status = "ZERO_FAILED" -> "RETRY"
         [] OTHER -> "POISONED")

ReleasePrivatePage(st, i, z) ==
  GiveBack(TakeDown(st, i), i,
           Release(st.pm, st.mem, "space", st.shadow.pages[i].lease, z))

(* From the last slot down, until one of them stops the walk; z[i] is the zero *)
(* result of slot i.                                                           *)
ReleasePages(st, z) ==
  LET walk[n \in 0 .. ShadowCapacity] ==
        IF n = 0 THEN st
        ELSE LET i == ShadowCapacity - n + 1
             IN  IF walk[n - 1].status # "OK"
                    \/ walk[n - 1].shadow.pages[i].state = "EMPTY"
                 THEN walk[n - 1]
                 ELSE ReleasePrivatePage(walk[n - 1], i, z[i])
  IN  walk[ShadowCapacity]

(* A binding resolves as long as its execution runs and its slot is not reused. *)
ResolvesClient(c) ==
  /\ shadow.clients[c].generation > 0
  /\ shadow.clients[c].execution = shadow.execution

SettleRelease(c, st) ==
  LET done == st.status = "OK"
      bad  == st.status = "POISONED" \/ (done /\ st.shadow.corrupted)
  IN  /\ shadow' = [st.shadow EXCEPT !.clients[c].active = ~done,
                                     !.poisoned = bad]
      /\ pte' = st.pte /\ pm' = st.pm /\ mem' = st.mem
      /\ Poisons(bad)

(* x86_firmware_shadow_execution_release: clients leave; the last one takes the *)
(* private pages down first and stays when a page cannot be zeroed.             *)
ReleaseExecution(c, z) ==
  /\ ResolvesClient(c) /\ shadow.clients[c].active /\ ~shadow.poisoned
  /\ IF ActiveClients(shadow) # {c}
     THEN /\ shadow' = [shadow EXCEPT !.clients[c].active = FALSE]
          /\ UNCHANGED <<pm, mem, pte, space>>
     ELSE SettleRelease(c, ReleasePages(Step(shadow, pte, pm, mem, "OK"), z))
  /\ UNCHANGED bootMap

(* x86_firmware_shadow_execution_quarantine: the aliases go, the leases stay. *)
QuarantineExecution(c) ==
  /\ ResolvesClient(c)
  /\ shadow' = [shadow EXCEPT
       !.pages = [i \in ShadowSlots |->
                    IF @[i].state = "ACTIVE" THEN [@[i] EXCEPT !.state = "RESTORED"] ELSE @[i]],
       !.poisoned = TRUE]
  /\ pte' = [r \in RomPages |->
               IF \E i \in ShadowSlots : shadow.pages[i].state = "ACTIVE" /\ shadow.pages[i].rom = r
               THEN Identity ELSE pte[r]]
  /\ Poisons(TRUE)
  /\ UNCHANGED <<bootMap, pm, mem>>

-----------------------------------------------------------------------------
(* The copy is published, or the page goes back: rollback_private_page. *)
PublishPage(st, i, r, clean, z) ==
  IF clean
  THEN /\ shadow' = [st.shadow EXCEPT !.pages[i].state = "ACTIVE"]
       /\ pte' = [pte EXCEPT ![r] = st.shadow.pages[i].page]
       /\ pm' = st.pm
       /\ mem' = [u \in Units |->
                    IF u \div PageUnits = st.shadow.pages[i].page THEN RomValue ELSE st.mem[u]]
       /\ UNCHANGED space
  ELSE LET back == ReleasePrivatePage(st, i, z)
       IN  /\ shadow' = [back.shadow EXCEPT !.poisoned = back.status # "OK"]
           /\ pte' = back.pte /\ pm' = back.pm /\ mem' = back.mem
           /\ Poisons(back.status # "OK")

(* The allocation of a private page; NO_MEMORY is refused, poison is passed on. *)
ShadowNewPage(r, answer, copied, z) ==
  IF answer.status # "OK"
  THEN /\ shadow' = [shadow EXCEPT !.poisoned = answer.status = "POISONED"]
       /\ pm' = answer.pm /\ mem' = answer.mem
       /\ Poisons(answer.status = "POISONED")
       /\ UNCHANGED pte
  ELSE LET i == Min(ShadowSlots \ UsedPages(shadow))
           p == [state |-> "LEASED", lease |-> answer.lease, rom |-> r, page |-> answer.page]
       IN  PublishPage(Step([shadow EXCEPT !.pages[i] = p], pte, answer.pm, answer.mem, "OK"),
                       i, r, copied /\ pte[r] = Identity, z)

(* A fault on a page that has a record: only an intact alias is the guest's own *)
(* race with it; anything else takes it down and poisons.                       *)
FaultOnKnownPage(i) ==
  LET p == shadow.pages[i]
  IN  /\ ~(p.state = "ACTIVE" /\ pte[p.rom] = p.page)
      /\ shadow' = [shadow EXCEPT !.poisoned = TRUE,
                      !.pages[i].state = IF @ = "ACTIVE" THEN "RESTORED" ELSE @]
      /\ pte' = IF p.state = "ACTIVE" THEN Restored(pte, p.rom) ELSE pte
      /\ Poisons(TRUE)
      /\ UNCHANGED <<pm, mem>>

(* x86_firmware_shadow_write_fault, on a firmware page: z1 is the zero result of the *)
(* new page, z2 that of its return when the copy or the entry failed.                *)
WriteFault(c, r, copied, z1, z2) ==
  /\ z1 # "OK" => copied
  /\ copied /\ pte[r] = Identity => z2 = "OK"
  /\ SpaceActive /\ ~shadow.poisoned
  /\ ResolvesClient(c) /\ shadow.clients[c].active
  /\ IF FindPage(shadow, r) # {} THEN FaultOnKnownPage(Min(FindPage(shadow, r)))
     ELSE /\ UsedPages(shadow) # ShadowSlots
          /\ ShadowNewPage(r, Allocate(pm, mem, "space", 1, z1), copied, z2)
  /\ UNCHANGED bootMap

(* The environment: a page-table entry is overwritten. *)
OverwriteEntry(r) ==
  /\ StrayEntries /\ pte[r] # StrayEntry
  /\ pte' = [pte EXCEPT ![r] = StrayEntry]
  /\ UNCHANGED <<bootMap, pm, mem, shadow, space>>

(* x86_firmware_shadow_translate: conventional memory and intact aliases. *)
GuestTranslates == ~shadow.poisoned

ShadowTypeOK ==
  /\ shadow \in ShadowOwner
  /\ pte \in [RomPages -> Pages \cup {Identity, StrayEntry}]
  /\ space \in [poisoned : BOOLEAN]

ShadowNext ==
  \/ AcquireExecution
  \/ \E c \in Clients, z \in [ShadowSlots -> ZeroResults] : ReleaseExecution(c, z)
  \/ \E c \in Clients : QuarantineExecution(c)
  \/ \E c \in Clients, r \in RomPages, copied \in BOOLEAN, z1, z2 \in ZeroResults :
       WriteFault(c, r, copied, z1, z2)
  \/ \E r \in RomPages : OverwriteEntry(r)

=============================================================================
