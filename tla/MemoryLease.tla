---------------------------- MODULE MemoryLease ----------------------------
(***************************************************************************)
(* Leases on MCB blocks (dos/memory_lease.c): while an EXEC is prepared,   *)
(* the blocks of its environment and its program belong to slots of a      *)
(* fixed table, named by handles that carry the table's lifetime identity, *)
(* the slot and a generation that never wraps.  A lease ends by freeing    *)
(* its block (release, abort) or by leaving it to the guest (publish).     *)
(*                                                                         *)
(* The arena is what McbArena promises of it: blocks with owners, checked  *)
(* operations that happen, fault without effect, or poison the arena.  The *)
(* guest runs only while no lease is active ("an already-exclusive         *)
(* executor context must serialize the arena and table").                  *)
(***************************************************************************)
EXTENDS Integers, FiniteSets

CONSTANTS
  SlotCount,       \* DOS_MEMORY_LEASE_SLOT_COUNT
  GenerationMax,   \* DOS_MEMORY_LEASE_GENERATION_MAX
  Lifetimes,       \* bound on table constructions
  Generations,     \* bound on arena initialisations
  Blocks,          \* segments the arena can hand out
  Owners,          \* PSP segments
  Free,            \* MCB_OWNER_FREE
  Guest            \* origin of a block no lease answers for

ASSUME LeaseAssumption ==
  /\ SlotCount \in Nat \ {0} /\ GenerationMax \in Nat
  /\ Lifetimes \in Nat \ {0} /\ Generations \in Nat \ {0}
  /\ Free \notin Owners /\ Free \notin Blocks

VARIABLES
  table,    \* struct dos_memory_lease_table
  arena,    \* struct dos_memory_arena and the blocks it holds
  origin,   \* per block: the handle whose lease answers for it, or Guest
  plans,    \* struct dos_memory_lease_rebind_plan values EXEC holds
  issued    \* handles returned by an acquire

vars == <<table, arena, origin, plans, issued>>

Slots == 0 .. SlotCount - 1
SlotStates == {"VACANT", "ACTIVE", "RELEASED", "ABORTED", "PUBLISHED"}
Handles == [identity : 1 .. Lifetimes, slot : Slots, generation : 0 .. GenerationMax]
NoBlock == Free

(* clear_slot_identity keeps the generation. *)
Vacant(generation) ==
  [state |-> "VACANT", generation |-> generation, owner |-> Free,
   segment |-> NoBlock, arenaGeneration |-> 0]

Init ==
  /\ table = [identity |-> 1, slots |-> [i \in Slots |-> Vacant(0)]]
  /\ arena = [generation |-> 1, poisoned |-> FALSE,
              owner |-> [b \in Blocks |-> Free]]
  /\ origin = [b \in Blocks |-> Guest]
  /\ plans = {}
  /\ issued = {}

(* make_handle *)
HandleOf(i, generation) ==
  [identity |-> table.identity, slot |-> i, generation |-> generation]

(* decode_handle and find_slot: the handle names the slot's present        *)
(* generation in this lifetime of the table and of the arena.              *)
FindSlot(h, expectedOwner) ==
  /\ h.identity = table.identity
  /\ h.generation # 0
  /\ LET slot == table.slots[h.slot]
     IN  /\ slot.generation = h.generation
         /\ slot.state # "VACANT"
         /\ slot.arenaGeneration = arena.generation
         /\ slot.owner = expectedOwner

Reusable(slot) == slot.state \in {"VACANT", "RELEASED", "ABORTED", "PUBLISHED"}

(* Fault: a slot at the last generation is taken again. *)
ReservableWrapped == {i \in Slots : Reusable(table.slots[i])}

Reservable ==
  {i \in Slots : /\ Reusable(table.slots[i])
                 /\ table.slots[i].generation # GenerationMax}

NextGeneration(i) == table.slots[i].generation + 1

(* reserve_slot takes the first slot that can be reserved. *)
Reserves(i) == i \in Reservable /\ \A j \in Reservable : i <= j

WithSlot(i, slot) == [table EXCEPT !.slots[i] = slot]

(* acquire_common: the generation is spent even when the allocation fails; *)
(* a torn allocation poisons the arena.                                    *)
Acquire ==
  /\ ~arena.poisoned
  /\ \E i \in Slots, owner \in Owners :
       /\ Reserves(i)
       /\ LET generation == NextGeneration(i)
              h == HandleOf(i, generation)
          IN  \/ \E b \in Blocks :
                   /\ arena.owner[b] = Free
                   /\ table' = WithSlot(i,
                        [state |-> "ACTIVE", generation |-> generation,
                         owner |-> owner, segment |-> b,
                         arenaGeneration |-> arena.generation])
                   /\ arena' = [arena EXCEPT !.owner[b] = owner]
                   /\ origin' = [origin EXCEPT ![b] = h]
                   /\ issued' = issued \cup {h}
              \/ /\ table' = WithSlot(i, Vacant(generation))
                 /\ \/ arena' = arena
                    \/ arena' = [arena EXCEPT !.poisoned = TRUE]
                 /\ UNCHANGED <<origin, issued>>
  /\ UNCHANGED plans

(* The active lease that h and its owner resolve to. *)
Active(h, owner) ==
  /\ FindSlot(h, owner)
  /\ table.slots[h.slot].state = "ACTIVE"

Segment(h) == table.slots[h.slot].segment

Transferred(h, newOwner) == [table EXCEPT !.slots[h.slot].owner = newOwner]

(* transfer_owner_common: the MCB must still have the expected owner. *)
Transfer ==
  /\ ~arena.poisoned
  /\ \E h \in issued, owner \in Owners, newOwner \in Owners :
       /\ Active(h, owner)
       /\ arena.owner[Segment(h)] = owner
       /\ \/ /\ arena' = [arena EXCEPT !.owner[Segment(h)] = newOwner]
             /\ table' = Transferred(h, newOwner)
          \/ /\ arena' = [arena EXCEPT !.poisoned = TRUE]
             /\ UNCHANGED table
  /\ UNCHANGED <<origin, plans, issued>>

(* prepare_rebind_common reads the MCB and fixes its replacement, which    *)
(* EXEC writes through its journal in the same operation: a parent's block *)
(* is made the child's.                                                    *)
PrepareRebind ==
  /\ ~arena.poisoned
  /\ \E h \in issued, owner \in Owners, newOwner \in Owners :
       /\ Active(h, owner)
       /\ newOwner # owner
       /\ arena.owner[Segment(h)] = owner
       /\ \/ /\ plans' = plans \cup {[handle |-> h, expectedOwner |-> owner,
                                      newOwner |-> newOwner,
                                      segment |-> Segment(h)]}
             /\ arena' = [arena EXCEPT !.owner[Segment(h)] = newOwner]
          \/ /\ arena' = [arena EXCEPT !.poisoned = TRUE]
             /\ UNCHANGED plans
  /\ UNCHANGED <<table, origin, issued>>

(* An abort of the journal brings the old MCB back. *)
UnstageRebind ==
  /\ ~arena.poisoned
  /\ \E p \in plans :
       /\ arena' = [arena EXCEPT !.owner[p.segment] = p.expectedOwner]
       /\ plans' = plans \ {p}
  /\ UNCHANGED <<table, origin, issued>>

Published(h, owner) ==
  [table EXCEPT !.slots[h.slot].owner = owner,
                !.slots[h.slot].state = "PUBLISHED"]

RebindPublished(p) == Published(p.handle, p.newOwner)

(* dos_memory_lease_rebind_publish, once the replacement is in place.      *)
RebindPublish ==
  /\ ~arena.poisoned
  /\ \E p \in plans :
       /\ Active(p.handle, p.expectedOwner)
       /\ Segment(p.handle) = p.segment
       /\ table' = RebindPublished(p)
       /\ origin' = [origin EXCEPT ![p.segment] = Guest]
       /\ plans' = plans \ {p}
  /\ UNCHANGED <<arena, issued>>

(* dos_memory_lease_publish, for a lease whose owner does not change; a    *)
(* published lease answers OK again.                                       *)
Publish ==
  /\ ~arena.poisoned
  /\ \E h \in issued, owner \in Owners :
       /\ Active(h, owner)
       /\ \A p \in plans : p.handle # h
       /\ table' = Published(h, owner)
       /\ origin' = [origin EXCEPT ![Segment(h)] = Guest]
  /\ UNCHANGED <<arena, plans, issued>>

(* Fault: a lease that ended otherwise than by abort is freed again. *)
MayFinishAgain(h, owner) ==
  FindSlot(h, owner) /\ table.slots[h.slot].state \in {"ACTIVE", "PUBLISHED"}

(* finish_active_lease frees for an active lease only. *)
MayFinish(h, owner) == Active(h, owner)

(* Fault: a failed free ends the lease all the same. *)
FinishFailedEnded(h) == [table EXCEPT !.slots[h.slot].state = "ABORTED"]

(* A free that fails leaves the lease active. *)
FinishFailed(h) == [table EXCEPT !.slots[h.slot].state = "ACTIVE"]

Finish(ended) ==
  /\ \E h \in issued, owner \in Owners :
       /\ MayFinish(h, owner)
       /\ \/ /\ ~arena.poisoned
             /\ arena.owner[Segment(h)] = owner
             /\ arena' = [arena EXCEPT !.owner[Segment(h)] = Free]
             /\ table' = [table EXCEPT !.slots[h.slot].state = ended]
             /\ origin' = [origin EXCEPT ![Segment(h)] = Guest]
          \/ /\ table' = FinishFailed(h)
             /\ arena' \in {arena, [arena EXCEPT !.poisoned = TRUE]}
             /\ UNCHANGED origin
  /\ UNCHANGED <<plans, issued>>

Release == Finish("RELEASED")
Abort == Finish("ABORTED")

(* dos_memory_lease_table_is_drained *)
Drained == \A i \in Slots : Reusable(table.slots[i])

(* dos_memory_lease_table_construct and _initialize: "callers may reuse    *)
(* the storage only after every active lease has been drained".            *)
Construct ==
  /\ Drained
  /\ table.identity < Lifetimes
  /\ table' = [identity |-> table.identity + 1,
               slots |-> [i \in Slots |-> Vacant(0)]]
  /\ plans' = {}
  /\ UNCHANGED <<arena, origin, issued>>

(* The guest allocates and frees, and the arena starts a new generation,   *)
(* while nothing is leased.                                                *)
GuestMoves ==
  /\ Drained /\ plans = {} /\ ~arena.poisoned
  /\ \/ \E b \in Blocks, owner \in Owners \cup {Free} :
          arena' = [arena EXCEPT !.owner[b] = owner]
     \/ /\ arena.generation < Generations
        /\ arena' = [generation |-> arena.generation + 1, poisoned |-> FALSE,
                     owner |-> [b \in Blocks |-> Free]]
  /\ UNCHANGED <<table, origin, plans, issued>>

Next ==
  \/ Acquire \/ Transfer \/ PrepareRebind \/ UnstageRebind
  \/ RebindPublish \/ Publish \/ Release \/ Abort \/ Construct \/ GuestMoves

Spec == Init /\ [][Next]_vars

-----------------------------------------------------------------------------

(* The table, the arena and the plans keep their types; generations stay   *)
(* within the 28 bits a handle has for them.                               *)
TypeOK ==
  /\ table \in [identity : 1 .. Lifetimes,
                slots : [Slots -> [state : SlotStates,
                                   generation : 0 .. GenerationMax,
                                   owner : Owners \cup {Free},
                                   segment : Blocks \cup {NoBlock},
                                   arenaGeneration : 0 .. Generations]]]
  /\ arena \in [generation : 1 .. Generations, poisoned : BOOLEAN,
                owner : [Blocks -> Owners \cup {Free}]]
  /\ origin \in [Blocks -> Handles \cup {Guest}]
  /\ plans \subseteq [handle : Handles, expectedOwner : Owners,
                      newOwner : Owners, segment : Blocks]
  /\ issued \subseteq Handles

Leased(i) == table.slots[i].state = "ACTIVE"
Named(i) == HandleOf(i, table.slots[i].generation)

(* An active lease has a live block of its own: the slot's segment is      *)
(* allocated, answers to this handle and no other, and has the owner the   *)
(* slot says, or the one its staged rebind put there.                      *)
LiveBlocks ==
  ~arena.poisoned =>
    \A i \in Slots : Leased(i) =>
      LET b == table.slots[i].segment
      IN  /\ origin[b] = Named(i)
          /\ \/ arena.owner[b] = table.slots[i].owner
             \/ \E p \in plans : /\ p.handle = Named(i)
                                 /\ arena.owner[b] = p.newOwner

(* No block is lost: one that a lease allocated is either answered for by  *)
(* an active slot of the table or was handed to the guest or freed.  In    *)
(* particular a drained table owes nothing, which is what its caller       *)
(* relies on before it constructs the table anew.                          *)
NothingLeaked ==
  \A b \in Blocks : origin[b] # Guest =>
    \E i \in Slots : /\ Leased(i) /\ Named(i) = origin[b]
                     /\ table.slots[i].segment = b

(* Only the handle an acquire returned resolves to the lease it made: one  *)
(* of an earlier lease of the slot, or of an earlier table in the same     *)
(* storage, is refused even when slot and generation repeat.               *)
StaleRefused ==
  \A h \in issued, owner \in Owners :
    Active(h, owner) => origin[Segment(h)] = h

(* Leases and blocks correspond: every active lease has its block, every   *)
(* block that a lease allocated has its lease, and only the handle that    *)
(* acquired it gets there.                                                 *)
LeaseBacked == LiveBlocks /\ NothingLeaked /\ StaleRefused

(* A lease operation frees the block of the lease it ends and no other: a  *)
(* stale handle, a second abort or a handle of an earlier table never      *)
(* touches a block that now belongs to someone else.                       *)
FreedByItsLease ==
  \A b \in Blocks :
    arena.owner[b] # Free /\ arena'.owner[b] = Free =>
      \/ Drained /\ Drained'
      \/ \E i \in Slots : /\ Leased(i) /\ table.slots[i].segment = b
                          /\ origin[b] = Named(i)
                          /\ table'.slots[i].state \in {"RELEASED", "ABORTED"}

(* A lease is published under the owner its MCB names. *)
PublishedOwned ==
  \A i \in Slots :
    Leased(i) /\ table'.slots[i].state = "PUBLISHED" =>
      arena'.owner[table.slots[i].segment] = table'.slots[i].owner

(* Blocks and leases change hands only as their owners agreed: every step  *)
(* is both of the above.                                                   *)
OwnersRespected == [][FreedByItsLease /\ PublishedOwned]_vars
=============================================================================
