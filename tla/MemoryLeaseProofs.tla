------------------------- MODULE MemoryLeaseProofs -------------------------
(***************************************************************************)
(* MemoryLease for every number of slots, generations, blocks and owners:  *)
(* leases and blocks correspond, only the handle that acquired a block     *)
(* reaches it, and blocks are freed and published by their own lease.      *)
(***************************************************************************)
EXTENDS MemoryLease, TLAPS

SlotValues == [state : SlotStates, generation : 0 .. GenerationMax,
               owner : Owners \cup {Free}, segment : Blocks \cup {NoBlock},
               arenaGeneration : 0 .. Generations]

(* An active slot has a block and an owner, and its block answers to it;   *)
(* poisoning the arena does not change that.                               *)
Anchored ==
  \A i \in Slots : Leased(i) =>
    /\ table.slots[i].segment \in Blocks
    /\ table.slots[i].owner \in Owners
    /\ origin[table.slots[i].segment] = Named(i)

(* A plan outlives neither its lease nor the owner it replaces, and while  *)
(* the arena can be used its replacement is in place.                      *)
PlansHeld ==
  \A p \in plans :
    /\ Active(p.handle, p.expectedOwner)
    /\ Segment(p.handle) = p.segment
    /\ p.newOwner # p.expectedOwner
    /\ ~arena.poisoned => arena.owner[p.segment] = p.newOwner

(* The table once the lease of h is in another state. *)
Ended(h, state) == [table EXCEPT !.slots[h.slot].state = state]

(* The inductive invariant. *)
IndInv == TypeOK /\ Anchored /\ PlansHeld /\ LiveBlocks /\ NothingLeaked

-----------------------------------------------------------------------------
(* Facts about the table. *)

(* What the types need of a step that changes one slot and one block. *)
LEMMA TypeStep ==
  ASSUME TypeOK, NEW i \in Slots, NEW slot \in SlotValues,
         table' = WithSlot(i, slot),
         NEW b \in Blocks, NEW owner \in Owners \cup {Free},
         arena' = [arena EXCEPT !.owner[b] = owner],
         NEW answer \in Handles \cup {Guest},
         origin' = [origin EXCEPT ![b] = answer],
         plans' \subseteq plans, issued' = issued
  PROVE  TypeOK'
BY DEF TypeOK, SlotValues, WithSlot

(* A handle that resolves to an active lease is the name of its slot. *)
LEMMA ActiveNames ==
  ASSUME TypeOK, NEW h \in Handles, NEW owner, Active(h, owner)
  PROVE  /\ h.slot \in Slots /\ Leased(h.slot) /\ Named(h.slot) = h
         /\ table.slots[h.slot].owner = owner
BY DEF TypeOK, Handles, Active, FindSlot, Leased, Named, HandleOf

(* Two slots never share a name, so two active slots never share a block.  *)
LEMMA BlocksDisjoint ==
  ASSUME Anchored, NEW i \in Slots, NEW j \in Slots, Leased(i), Leased(j),
         table.slots[i].segment = table.slots[j].segment
  PROVE  i = j
<1>1. Named(i) = Named(j) BY DEF Anchored
<1>2. Named(i).slot = i /\ Named(j).slot = j BY DEF Named, HandleOf
<1> QED BY <1>1, <1>2

(* A block in the hands of an active lease is not free. *)
LEMMA LeasedNotFree ==
  ASSUME IndInv, ~arena.poisoned, NEW i \in Slots, Leased(i)
  PROVE  arena.owner[table.slots[i].segment] # Free
<1>1. table.slots[i].owner \in Owners BY DEF IndInv, Anchored
<1>2. \A p \in plans : p.newOwner \in Owners BY DEF IndInv, TypeOK
<1> QED BY <1>1, <1>2, LeaseAssumption DEF IndInv, LiveBlocks

(* A lease with a plan has the plan's new owner in its MCB, not its own:   *)
(* what is done to a lease whose MCB names its owner disturbs no plan.     *)
LEMMA NoPlanFor ==
  ASSUME IndInv, ~arena.poisoned, NEW h \in Handles, NEW owner,
         Active(h, owner), arena.owner[Segment(h)] = owner
  PROVE  \A p \in plans : p.handle # h
<1> SUFFICES ASSUME NEW p \in plans, p.handle = h PROVE FALSE
  OBVIOUS
<1>1. /\ table.slots[h.slot].owner = owner
      /\ table.slots[h.slot].owner = p.expectedOwner
  BY DEF IndInv, PlansHeld, Active, FindSlot
<1>2. arena.owner[Segment(h)] = p.newOwner /\ p.newOwner # p.expectedOwner
  BY DEF IndInv, PlansHeld
<1> QED BY <1>1, <1>2


(* A lease has at most one plan. *)
LEMMA OnePlan ==
  ASSUME IndInv, ~arena.poisoned, NEW p \in plans, NEW q \in plans,
         p.handle = q.handle
  PROVE  p = q
<1>1. /\ p \in [handle : Handles, expectedOwner : Owners, newOwner : Owners,
                segment : Blocks]
      /\ q \in [handle : Handles, expectedOwner : Owners, newOwner : Owners,
                segment : Blocks]
  BY DEF IndInv, TypeOK
<1>2. /\ p.expectedOwner = q.expectedOwner /\ p.segment = q.segment
      /\ p.newOwner = q.newOwner
  BY DEF IndInv, PlansHeld, Active, FindSlot
<1> QED BY <1>1, <1>2

(* A step that leaves the table alone leaves the slot of an active lease.  *)
LEMMA SameSlot ==
  ASSUME IndInv, NEW h \in Handles, NEW owner, Active(h, owner),
         table' = table
  PROVE  \E slot \in SlotValues :
           /\ slot.state = "ACTIVE" /\ slot.owner = owner
           /\ slot.segment = Segment(h)
           /\ slot.generation = table.slots[h.slot].generation
           /\ slot.arenaGeneration = table.slots[h.slot].arenaGeneration
           /\ table' = WithSlot(h.slot, slot)
<1>1. h.slot \in Slots BY ActiveNames DEF IndInv
<1>2. table.slots[h.slot] \in SlotValues BY <1>1 DEF IndInv, TypeOK, SlotValues
<1>3. table = WithSlot(h.slot, table.slots[h.slot])
  BY <1>1 DEF IndInv, TypeOK, WithSlot
<1> QED BY <1>2, <1>3 DEF Active, FindSlot, Segment

-----------------------------------------------------------------------------
(* The invariant holds initially. *)
LEMMA InitInv == Init => IndInv
<1> SUFFICES ASSUME Init PROVE IndInv OBVIOUS
<1>1. TypeOK
  BY LeaseAssumption DEF Init, TypeOK, Vacant, SlotStates, Handles, NoBlock
<1>2. \A i \in Slots : ~Leased(i) BY DEF Init, Leased, Vacant
<1> QED BY <1>1, <1>2 DEF Init, IndInv, Anchored, PlansHeld, LiveBlocks,
                          NothingLeaked

(* A step that changes nothing keeps the invariant. *)
LEMMA UnchangedInv == IndInv /\ UNCHANGED vars => IndInv'
BY DEF vars, IndInv, TypeOK, Anchored, PlansHeld, LiveBlocks, NothingLeaked,
       Leased, Named, HandleOf, Active, FindSlot, Segment

(* What an acquire does when the allocation succeeds. *)
LEMMA AcquiredInv ==
  ASSUME IndInv, ~arena.poisoned, NEW i \in Slots, NEW owner \in Owners,
         Reserves(i), NEW b \in Blocks, arena.owner[b] = Free,
         table' = WithSlot(i, [state |-> "ACTIVE",
                               generation |-> NextGeneration(i),
                               owner |-> owner, segment |-> b,
                               arenaGeneration |-> arena.generation]),
         arena' = [arena EXCEPT !.owner[b] = owner],
         origin' = [origin EXCEPT ![b] = HandleOf(i, NextGeneration(i))],
         issued' = issued \cup {HandleOf(i, NextGeneration(i))},
         plans' = plans
  PROVE  IndInv'
<1> DEFINE new == [state |-> "ACTIVE", generation |-> NextGeneration(i),
                   owner |-> owner, segment |-> b,
                   arenaGeneration |-> arena.generation]
           h == HandleOf(i, NextGeneration(i))
<1>1. ~Leased(i) /\ NextGeneration(i) \in 0 .. GenerationMax
  BY LeaseAssumption, SMTT(40) DEF IndInv, TypeOK, Reserves, Reservable, Reusable, Leased,
         NextGeneration
<1>2. new \in SlotValues /\ h \in Handles
  BY <1>1 DEF IndInv, TypeOK, SlotValues, SlotStates, Handles, HandleOf
<1>3. /\ table'.identity = table.identity
      /\ table'.slots[i] = new
      /\ \A j \in Slots \ {i} : table'.slots[j] = table.slots[j]
  BY DEF IndInv, TypeOK, WithSlot
<1>4. TypeOK'
  BY <1>2 DEF IndInv, TypeOK, WithSlot, SlotValues
<1>5. /\ Leased(i)' /\ Named(i)' = h
      /\ \A j \in Slots \ {i} : /\ Leased(j)' <=> Leased(j)
                                /\ Named(j)' = Named(j)
  BY <1>3 DEF Leased, Named, HandleOf
<1>6. \A j \in Slots : Leased(j) => j # i /\ table.slots[j].segment # b
  BY <1>1, LeasedNotFree
<1>7. /\ arena'.poisoned = arena.poisoned
      /\ arena'.generation = arena.generation
      /\ arena'.owner[b] = owner
      /\ \A c \in Blocks \ {b} : arena'.owner[c] = arena.owner[c]
      /\ origin'[b] = h
      /\ \A c \in Blocks \ {b} : origin'[c] = origin[c]
  BY DEF IndInv, TypeOK
<1> HIDE DEF new, h
<1>8. Anchored'
  BY <1>3, <1>5, <1>6, <1>7 DEF IndInv, Anchored, new
<1>9. PlansHeld'
  <2> SUFFICES ASSUME NEW p \in plans
               PROVE  /\ Active(p.handle, p.expectedOwner)'
                      /\ Segment(p.handle)' = p.segment
                      /\ p.newOwner # p.expectedOwner
                      /\ ~arena'.poisoned => arena'.owner[p.segment] = p.newOwner
    BY DEF PlansHeld
  <2>1. p.handle \in Handles /\ p.segment \in Blocks BY DEF IndInv, TypeOK
  <2>2. /\ Active(p.handle, p.expectedOwner) /\ Segment(p.handle) = p.segment
        /\ p.newOwner # p.expectedOwner
        /\ arena.owner[p.segment] = p.newOwner
    BY DEF IndInv, PlansHeld
  <2>3. p.handle.slot \in Slots /\ Leased(p.handle.slot)
    BY <2>1, <2>2, ActiveNames DEF IndInv
  <2>4. p.handle.slot # i /\ p.segment # b
    BY <1>6, <2>2, <2>3 DEF Segment
  <2> QED BY <1>3, <1>7, <2>1, <2>2, <2>3, <2>4 DEF Active, FindSlot, Segment
<1>10. LiveBlocks'
  <2> SUFFICES ASSUME NEW j \in Slots, Leased(j)'
               PROVE  LET c == table'.slots[j].segment
                      IN  /\ origin'[c] = Named(j)'
                          /\ \/ arena'.owner[c] = table'.slots[j].owner
                             \/ \E p \in plans' :
                                  /\ p.handle = Named(j)'
                                  /\ arena'.owner[c] = p.newOwner
    BY DEF LiveBlocks
  <2>1. CASE j = i BY <1>3, <1>5, <1>7, <2>1 DEF new
  <2>2. CASE j # i
    <3>1. Leased(j) /\ Named(j)' = Named(j) /\ table.slots[j].segment # b
      BY <1>5, <1>6, <2>2
    <3>2. table.slots[j].segment \in Blocks BY <3>1 DEF IndInv, Anchored
    <3> QED BY <1>3, <1>7, <2>2, <3>1, <3>2 DEF IndInv, LiveBlocks
  <2> QED BY <2>1, <2>2
<1>11. NothingLeaked'
  <2> SUFFICES ASSUME NEW c \in Blocks, origin'[c] # Guest
               PROVE  \E j \in Slots : /\ Leased(j)' /\ Named(j)' = origin'[c]
                                       /\ table'.slots[j].segment = c
    BY DEF NothingLeaked
  <2>1. CASE c = b BY <1>3, <1>5, <1>7, <2>1 DEF new
  <2>2. CASE c # b
    <3>1. PICK j \in Slots : /\ Leased(j) /\ Named(j) = origin[c]
                             /\ table.slots[j].segment = c
      BY <1>7, <2>2 DEF IndInv, NothingLeaked
    <3> QED BY <1>1, <1>3, <1>5, <1>7, <2>2, <3>1
  <2> QED BY <2>1, <2>2
<1> QED BY <1>4, <1>8, <1>9, <1>10, <1>11 DEF IndInv

(* What an acquire does when the allocation fails: the generation is spent.  *)
LEMMA SpentInv ==
  ASSUME IndInv, NEW i \in Slots, Reserves(i),
         table' = WithSlot(i, Vacant(NextGeneration(i))),
         arena' \in [generation : 1 .. Generations, poisoned : BOOLEAN,
                     owner : [Blocks -> Owners \cup {Free}]],
         arena'.owner = arena.owner, arena'.generation = arena.generation,
         arena.poisoned => arena'.poisoned,
         UNCHANGED <<origin, issued, plans>>
  PROVE  IndInv'
<1>1. ~Leased(i) /\ NextGeneration(i) \in 0 .. GenerationMax
  BY LeaseAssumption DEF IndInv, TypeOK, Reserves, Reservable, Reusable, Leased,
         NextGeneration
<1>2. Vacant(NextGeneration(i)) \in SlotValues
  BY <1>1, LeaseAssumption DEF SlotValues, SlotStates, Vacant, NoBlock
<1>3. /\ table'.identity = table.identity
      /\ table'.slots[i] = Vacant(NextGeneration(i))
      /\ \A j \in Slots \ {i} : table'.slots[j] = table.slots[j]
  BY DEF IndInv, TypeOK, WithSlot
<1>4. TypeOK'
  BY <1>2 DEF IndInv, TypeOK, WithSlot, SlotValues
<1>5. /\ arena'.owner = arena.owner /\ arena'.generation = arena.generation
       /\ arena.poisoned => arena'.poisoned
  OBVIOUS
<1>6. /\ ~Leased(i)'
      /\ \A j \in Slots \ {i} : /\ Leased(j)' <=> Leased(j)
                                /\ Named(j)' = Named(j)
  BY <1>3 DEF Leased, Named, HandleOf, Vacant
<1>7. Anchored' BY <1>3, <1>6 DEF IndInv, Anchored
<1>8. PlansHeld'
  <2>1. \A p \in plans : p.handle \in Handles BY DEF IndInv, TypeOK
  <2>2. \A p \in plans : p.handle.slot \in Slots /\ p.handle.slot # i
    BY <1>1, <2>1, ActiveNames DEF IndInv, PlansHeld
  <2> SUFFICES ASSUME NEW p \in plans
               PROVE  /\ Active(p.handle, p.expectedOwner)'
                      /\ Segment(p.handle)' = p.segment
                      /\ p.newOwner # p.expectedOwner
                      /\ ~arena'.poisoned => arena'.owner[p.segment] = p.newOwner
    BY DEF PlansHeld
  <2>3. /\ Active(p.handle, p.expectedOwner) /\ Segment(p.handle) = p.segment
        /\ p.newOwner # p.expectedOwner
        /\ ~arena.poisoned => arena.owner[p.segment] = p.newOwner
    BY DEF IndInv, PlansHeld
  <2>4. table'.slots[p.handle.slot] = table.slots[p.handle.slot]
    BY <1>3, <2>2
  <2> QED BY <1>3, <1>5, <2>3, <2>4 DEF Active, FindSlot, Segment
<1>9. LiveBlocks'
  <2>1. \A j \in Slots : Leased(j)' =>
          /\ Leased(j) /\ Named(j)' = Named(j)
          /\ table'.slots[j] = table.slots[j]
    BY <1>3, <1>6
  <2> QED BY <1>5, <2>1 DEF IndInv, LiveBlocks
<1>10. NothingLeaked' BY <1>1, <1>3, <1>6 DEF IndInv, NothingLeaked
<1> QED BY <1>4, <1>7, <1>8, <1>9, <1>10 DEF IndInv

(* A write to the arena that tears poisons it and changes nothing else. *)
LEMMA PoisonedInv ==
  ASSUME IndInv, arena' = [arena EXCEPT !.poisoned = TRUE],
         UNCHANGED <<table, origin, plans, issued>>
  PROVE  IndInv'
<1>1. /\ arena'.poisoned = TRUE /\ arena'.owner = arena.owner
      /\ arena'.generation = arena.generation
  BY DEF IndInv, TypeOK
<1>2. TypeOK' BY DEF IndInv, TypeOK
<1>3. /\ \A i \in Slots : Leased(i)' = Leased(i) /\ Named(i)' = Named(i)
      /\ \A h \in Handles, o \in Owners : Active(h, o)' <=> Active(h, o)
  BY <1>1 DEF Leased, Named, HandleOf, Active, FindSlot
<1>4. Anchored' BY <1>3 DEF IndInv, Anchored
<1>5. PlansHeld'
  <2>1. \A p \in plans : p.handle \in Handles /\ p.expectedOwner \in Owners
    BY DEF IndInv, TypeOK
  <2> QED BY <1>1, <1>3, <2>1 DEF IndInv, PlansHeld, Segment
<1>6. LiveBlocks' BY <1>1 DEF LiveBlocks
<1>7. NothingLeaked' BY <1>3 DEF IndInv, NothingLeaked
<1> QED BY <1>2, <1>4, <1>5, <1>6, <1>7 DEF IndInv

(* A lease ends: its slot stops being active, its block answers to nobody  *)
(* and its plan, if it had one, is gone.                                   *)
LEMMA EndedInv ==
  ASSUME IndInv, NEW h \in Handles, NEW owner, Active(h, owner),
         NEW slot \in SlotValues, slot.state # "ACTIVE",
         table' = WithSlot(h.slot, slot),
         NEW left \in Owners \cup {Free},
         arena' = [arena EXCEPT !.owner[Segment(h)] = left],
         origin' = [origin EXCEPT ![Segment(h)] = Guest],
         plans' = {p \in plans : p.handle # h},
         issued' = issued
  PROVE  IndInv'
<1> DEFINE i == h.slot
           b == Segment(h)
<1>1. i \in Slots /\ Leased(i) /\ Named(i) = h BY ActiveNames DEF IndInv
<1>2. b \in Blocks /\ b = table.slots[i].segment
  BY <1>1 DEF IndInv, Anchored, Segment
<1>3. /\ table'.identity = table.identity
      /\ table'.slots[i] = slot
      /\ \A j \in Slots \ {i} : table'.slots[j] = table.slots[j]
  BY <1>1 DEF IndInv, TypeOK, WithSlot
<1>4. TypeOK' BY <1>1, <1>2, TypeStep DEF IndInv
<1>5. /\ ~Leased(i)'
      /\ \A j \in Slots \ {i} : /\ Leased(j)' <=> Leased(j)
                                /\ Named(j)' = Named(j)
  BY <1>1, <1>3 DEF Leased, Named, HandleOf
<1>6. \A j \in Slots \ {i} : Leased(j) => table.slots[j].segment # b
  BY <1>1, <1>2, BlocksDisjoint DEF IndInv
<1>7. /\ arena'.poisoned = arena.poisoned
      /\ arena'.generation = arena.generation
      /\ \A c \in Blocks \ {b} : arena'.owner[c] = arena.owner[c]
      /\ origin'[b] = Guest
      /\ \A c \in Blocks \ {b} : origin'[c] = origin[c]
  BY <1>2 DEF IndInv, TypeOK
<1> HIDE DEF i, b
<1>8. Anchored' BY <1>3, <1>5, <1>6, <1>7 DEF IndInv, Anchored
<1>9. \A p \in plans' :
        /\ p \in plans /\ p.handle \in Handles /\ p.segment \in Blocks
        /\ p.handle.slot \in Slots \ {i} /\ p.segment # b
  <2> SUFFICES ASSUME NEW p \in plans, p.handle # h
               PROVE  /\ p.handle \in Handles /\ p.segment \in Blocks
                      /\ p.handle.slot \in Slots \ {i} /\ p.segment # b
    OBVIOUS
  <2>1. p.handle \in Handles /\ p.segment \in Blocks BY DEF IndInv, TypeOK
  <2>2. Active(p.handle, p.expectedOwner) /\ Segment(p.handle) = p.segment
    BY DEF IndInv, PlansHeld
  <2>3. /\ p.handle.slot \in Slots /\ Leased(p.handle.slot)
        /\ Named(p.handle.slot) = p.handle
    BY <2>1, <2>2, ActiveNames DEF IndInv
  <2>4. p.handle.slot # i BY <1>1, <2>3
  <2> QED BY <1>6, <2>1, <2>2, <2>3, <2>4 DEF Segment
<1>10. PlansHeld'
  <2> SUFFICES ASSUME NEW p \in plans'
               PROVE  /\ Active(p.handle, p.expectedOwner)'
                      /\ Segment(p.handle)' = p.segment
                      /\ p.newOwner # p.expectedOwner
                      /\ ~arena'.poisoned => arena'.owner[p.segment] = p.newOwner
    BY DEF PlansHeld
  <2>1. /\ Active(p.handle, p.expectedOwner) /\ Segment(p.handle) = p.segment
        /\ p.newOwner # p.expectedOwner
        /\ ~arena.poisoned => arena.owner[p.segment] = p.newOwner
    BY <1>9 DEF IndInv, PlansHeld
  <2> QED BY <1>3, <1>7, <1>9, <2>1 DEF Active, FindSlot, Segment
<1>11. LiveBlocks'
  <2> SUFFICES ASSUME ~arena.poisoned, NEW j \in Slots, Leased(j)'
               PROVE  LET c == table'.slots[j].segment
                      IN  /\ origin'[c] = Named(j)'
                          /\ \/ arena'.owner[c] = table'.slots[j].owner
                             \/ \E p \in plans' :
                                  /\ p.handle = Named(j)'
                                  /\ arena'.owner[c] = p.newOwner
    BY <1>7 DEF LiveBlocks
  <2>1. /\ j # i /\ Leased(j) /\ Named(j)' = Named(j)
        /\ table.slots[j].segment # b
    BY <1>5, <1>6
  <2>2. table.slots[j].segment \in Blocks BY <2>1 DEF IndInv, Anchored
  <2>3. Named(j) # h
    BY <1>1, <2>1 DEF Named, HandleOf
  <2>4. /\ table'.slots[j] = table.slots[j]
        /\ arena'.owner[table.slots[j].segment]
             = arena.owner[table.slots[j].segment]
        /\ origin'[table.slots[j].segment] = origin[table.slots[j].segment]
    BY <1>3, <1>7, <2>1, <2>2
  <2>5. /\ origin[table.slots[j].segment] = Named(j)
        /\ \/ arena.owner[table.slots[j].segment] = table.slots[j].owner
           \/ \E p \in plans' :
                /\ p.handle = Named(j)
                /\ arena.owner[table.slots[j].segment] = p.newOwner
    BY <2>1, <2>3 DEF IndInv, LiveBlocks
  <2> QED BY <2>1, <2>4, <2>5
<1>12. NothingLeaked'
  <2> SUFFICES ASSUME NEW c \in Blocks, origin'[c] # Guest
               PROVE  \E j \in Slots : /\ Leased(j)' /\ Named(j)' = origin'[c]
                                       /\ table'.slots[j].segment = c
    BY DEF NothingLeaked
  <2>1. c # b /\ origin'[c] = origin[c] BY <1>7
  <2>2. PICK j \in Slots : /\ Leased(j) /\ Named(j) = origin[c]
                           /\ table.slots[j].segment = c
    BY <2>1 DEF IndInv, NothingLeaked
  <2> QED BY <1>2, <1>3, <1>5, <2>1, <2>2
<1> QED BY <1>4, <1>8, <1>10, <1>11, <1>12 DEF IndInv

(* Only the owner in the block and, perhaps, in the slot of one lease      *)
(* change, and the plans of that lease: what a transfer, a staged rebind   *)
(* and its undoing have in common.                                         *)
LEMMA ReownedInv ==
  ASSUME IndInv, ~arena.poisoned, NEW h \in Handles, NEW owner,
         Active(h, owner),
         NEW new \in SlotValues,
         new.state = "ACTIVE", new.owner \in Owners, new.segment = Segment(h),
         new.generation = table.slots[h.slot].generation,
         new.arenaGeneration = table.slots[h.slot].arenaGeneration,
         table' = WithSlot(h.slot, new),
         NEW mcbOwner \in Owners,
         arena' = [arena EXCEPT !.owner[Segment(h)] = mcbOwner],
         plans' \subseteq [handle : Handles, expectedOwner : Owners,
                          newOwner : Owners, segment : Blocks],
         {p \in plans' : p.handle # h} = {p \in plans : p.handle # h},
         \A p \in plans' : p.handle = h =>
           /\ p.expectedOwner = new.owner /\ p.segment = Segment(h)
           /\ p.newOwner = mcbOwner /\ p.newOwner # p.expectedOwner,
         new.owner = mcbOwner \/ \E p \in plans' : p.handle = h,
         UNCHANGED <<origin, issued>>
  PROVE  IndInv'
<1> DEFINE i == h.slot
           b == Segment(h)
<1>1. i \in Slots /\ Leased(i) /\ Named(i) = h BY ActiveNames DEF IndInv
<1>2. b \in Blocks /\ b = table.slots[i].segment
  BY <1>1 DEF IndInv, Anchored, Segment
<1>3. /\ new.state = "ACTIVE" /\ new.segment = b
      /\ new.generation = table.slots[i].generation
      /\ new.arenaGeneration = table.slots[i].arenaGeneration
  OBVIOUS
<1>4. /\ table'.identity = table.identity
      /\ table'.slots[i] = new
      /\ \A j \in Slots \ {i} : table'.slots[j] = table.slots[j]
  BY <1>1 DEF IndInv, TypeOK, WithSlot
<1>5. TypeOK'
  BY <1>1, <1>2, <1>3 DEF IndInv, TypeOK, WithSlot, SlotValues
<1>6. \A j \in Slots : (Leased(j)' <=> Leased(j)) /\ Named(j)' = Named(j)
  <2>1. Leased(i)' /\ Named(i)' = Named(i)
    BY <1>3, <1>4 DEF Leased, Named, HandleOf
  <2>2. \A j \in Slots \ {i} : (Leased(j)' <=> Leased(j)) /\ Named(j)' = Named(j)
    BY <1>4 DEF Leased, Named, HandleOf
  <2> QED BY <1>1, <2>1, <2>2
<1>7. \A j \in Slots \ {i} : Leased(j) => table.slots[j].segment # b
  BY <1>1, <1>2, BlocksDisjoint DEF IndInv
<1>8. /\ arena'.poisoned = arena.poisoned
      /\ arena'.generation = arena.generation
      /\ arena'.owner[b] = mcbOwner
      /\ \A c \in Blocks \ {b} : arena'.owner[c] = arena.owner[c]
  BY <1>2 DEF IndInv, TypeOK
<1> HIDE DEF i, b
<1>9. Anchored'
  <2> SUFFICES ASSUME NEW j \in Slots, Leased(j)
               PROVE  /\ table'.slots[j].segment \in Blocks
                      /\ table'.slots[j].owner \in Owners
                      /\ origin[table'.slots[j].segment] = Named(j)
    BY <1>6 DEF Anchored
  <2>1. /\ table.slots[j].segment \in Blocks /\ table.slots[j].owner \in Owners
        /\ origin[table.slots[j].segment] = Named(j)
    BY DEF IndInv, Anchored
  <2>2. CASE j = i BY <1>2, <1>3, <1>4, <2>1, <2>2
  <2>3. CASE j # i BY <1>4, <2>1, <2>3
  <2> QED BY <2>2, <2>3
<1>10. PlansHeld'
  <2> SUFFICES ASSUME NEW p \in plans'
               PROVE  /\ Active(p.handle, p.expectedOwner)'
                      /\ Segment(p.handle)' = p.segment
                      /\ p.newOwner # p.expectedOwner
                      /\ ~arena'.poisoned => arena'.owner[p.segment] = p.newOwner
    BY DEF PlansHeld
  <2>1. CASE p.handle = h
    <3>1. Active(h, new.owner)'
      BY <1>1, <1>3, <1>4, <1>8 DEF Active, FindSlot, i
    <3>2. Segment(h)' = b BY <1>3, <1>4 DEF Segment, i
    <3> QED BY <1>8, <2>1, <3>1, <3>2 DEF b
  <2>2. CASE p.handle # h
    <3>1. p \in plans BY <2>2
    <3>2. /\ Active(p.handle, p.expectedOwner) /\ Segment(p.handle) = p.segment
          /\ p.newOwner # p.expectedOwner
          /\ arena.owner[p.segment] = p.newOwner
      BY <3>1 DEF IndInv, PlansHeld
    <3>3. p.handle \in Handles /\ p.segment \in Blocks
      BY <3>1 DEF IndInv, TypeOK
    <3>4. /\ p.handle.slot \in Slots /\ Leased(p.handle.slot)
          /\ Named(p.handle.slot) = p.handle
      BY <3>2, <3>3, ActiveNames DEF IndInv
    <3>5. p.handle.slot # i BY <1>1, <2>2, <3>4
    <3>6. p.segment # b BY <1>7, <3>2, <3>4, <3>5 DEF Segment
    <3>7. /\ table'.slots[p.handle.slot] = table.slots[p.handle.slot]
          /\ arena'.owner[p.segment] = arena.owner[p.segment]
      BY <1>4, <1>8, <3>3, <3>4, <3>5, <3>6
    <3> QED BY <1>4, <1>8, <3>2, <3>7 DEF Active, FindSlot, Segment
  <2> QED BY <2>1, <2>2
<1>11. LiveBlocks'
  <2> SUFFICES ASSUME NEW j \in Slots, Leased(j)
               PROVE  /\ origin[table'.slots[j].segment] = Named(j)
                      /\ \/ arena'.owner[table'.slots[j].segment]
                              = table'.slots[j].owner
                         \/ \E p \in plans' :
                              /\ p.handle = Named(j)
                              /\ arena'.owner[table'.slots[j].segment]
                                   = p.newOwner
    BY <1>6 DEF LiveBlocks
  <2>1. /\ table.slots[j].segment \in Blocks
        /\ origin[table.slots[j].segment] = Named(j)
    BY DEF IndInv, Anchored
  <2>2. CASE j = i
    BY <1>1, <1>2, <1>3, <1>4, <1>8, <2>1, <2>2
  <2>3. CASE j # i
    <3>1. /\ table'.slots[j] = table.slots[j]
          /\ arena'.owner[table.slots[j].segment]
               = arena.owner[table.slots[j].segment]
      BY <1>4, <1>7, <1>8, <2>1, <2>3
    <3>2. Named(j) # h BY <1>1, <2>3 DEF Named, HandleOf
    <3>3. \/ arena.owner[table.slots[j].segment] = table.slots[j].owner
          \/ \E p \in plans :
               /\ p.handle = Named(j)
               /\ arena.owner[table.slots[j].segment] = p.newOwner
      BY DEF IndInv, LiveBlocks
    <3>4. \A p \in plans : p.handle # h => p \in plans' OBVIOUS
    <3> QED BY <2>1, <3>1, <3>2, <3>3, <3>4
  <2> QED BY <2>2, <2>3
<1>12. NothingLeaked'
  <2>1. \A j \in Slots : table'.slots[j].segment = table.slots[j].segment
    BY <1>2, <1>3, <1>4
  <2> QED BY <1>6, <2>1 DEF IndInv, NothingLeaked
<1> QED BY <1>5, <1>9, <1>10, <1>11, <1>12 DEF IndInv

-----------------------------------------------------------------------------
(* Each action keeps the invariant. *)

(* dos_memory_lease_acquire, whatever the arena answers. *)
LEMMA AcquireInv == IndInv /\ Acquire => IndInv'
<1> SUFFICES ASSUME IndInv, Acquire PROVE IndInv' OBVIOUS
<1>1. ~arena.poisoned /\ plans' = plans BY DEF Acquire
<1>2. PICK i \in Slots, owner \in Owners :
        /\ Reserves(i)
        /\ LET generation == NextGeneration(i)
               h == HandleOf(i, generation)
           IN  \/ \E b \in Blocks :
                    /\ arena.owner[b] = Free
                    /\ table' = WithSlot(i,
                         [state |-> "ACTIVE", generation |-> generation,
                          owner |-> owner, segment |-> b,
                          arenaGeneration |-> arena.generation])
                    /\ arena' = [arena EXCEPT !.owner[b] = owner]
                    /\ origin' = [origin EXCEPT ![b] = h]
                    /\ issued' = issued \cup {h}
               \/ /\ table' = WithSlot(i, Vacant(generation))
                  /\ \/ arena' = arena
                     \/ arena' = [arena EXCEPT !.poisoned = TRUE]
                  /\ UNCHANGED <<origin, issued>>
  BY DEF Acquire
<1>3. ASSUME NEW b \in Blocks, arena.owner[b] = Free,
             table' = WithSlot(i, [state |-> "ACTIVE",
                                   generation |-> NextGeneration(i),
                                   owner |-> owner, segment |-> b,
                                   arenaGeneration |-> arena.generation]),
             arena' = [arena EXCEPT !.owner[b] = owner],
             origin' = [origin EXCEPT ![b] = HandleOf(i, NextGeneration(i))],
             issued' = issued \cup {HandleOf(i, NextGeneration(i))}
      PROVE  IndInv'
  BY <1>1, <1>2, <1>3, AcquiredInv
<1>4. ASSUME table' = WithSlot(i, Vacant(NextGeneration(i))), arena' = arena,
             UNCHANGED <<origin, issued>>
      PROVE  IndInv'
  <2>1. arena \in [generation : 1 .. Generations, poisoned : BOOLEAN,
                   owner : [Blocks -> Owners \cup {Free}]]
    BY DEF IndInv, TypeOK
  <2> QED BY <1>1, <1>2, <1>4, <2>1, SpentInv
<1>5. ASSUME table' = WithSlot(i, Vacant(NextGeneration(i))),
             arena' = [arena EXCEPT !.poisoned = TRUE],
             UNCHANGED <<origin, issued>>
      PROVE  IndInv'
  <2>1. /\ arena' \in [generation : 1 .. Generations, poisoned : BOOLEAN,
                       owner : [Blocks -> Owners \cup {Free}]]
        /\ arena'.owner = arena.owner /\ arena'.generation = arena.generation
        /\ arena.poisoned => arena'.poisoned
    BY <1>5 DEF IndInv, TypeOK
  <2> QED BY <1>1, <1>2, <1>5, <2>1, SpentInv
<1> QED BY <1>2, <1>3, <1>4, <1>5

(* The slot of an active lease, with another owner or another state. *)
LEMMA ActiveSlot ==
  ASSUME IndInv, NEW h \in Handles, NEW owner, Active(h, owner),
         NEW newOwner \in Owners, NEW state \in SlotStates
  PROVE  \E slot \in SlotValues :
           /\ slot.state = state /\ slot.owner = newOwner
           /\ slot.segment = Segment(h)
           /\ slot.generation = table.slots[h.slot].generation
           /\ slot.arenaGeneration = table.slots[h.slot].arenaGeneration
           /\ state = "PUBLISHED" =>
                Published(h, newOwner) = WithSlot(h.slot, slot)
           /\ state = "ACTIVE" => Transferred(h, newOwner) = WithSlot(h.slot, slot)
           /\ newOwner = owner => Ended(h, state) = WithSlot(h.slot, slot)
<1> DEFINE i == h.slot
           slot == [table.slots[i] EXCEPT !.owner = newOwner, !.state = state]
<1>1. /\ i \in Slots /\ table.slots[i].owner = owner
      /\ table.slots[i].state = "ACTIVE"
  BY ActiveNames DEF IndInv, Leased
<1>2. TypeOK /\ newOwner \in Owners \cup {Free} BY DEF IndInv
<1>3. /\ slot \in SlotValues
      /\ slot.state = state /\ slot.owner = newOwner
      /\ slot.segment = Segment(h)
      /\ slot.generation = table.slots[i].generation
      /\ slot.arenaGeneration = table.slots[i].arenaGeneration
  BY <1>1, <1>2, ZenonT(60) DEF TypeOK, SlotValues, Segment
<1>4. [table EXCEPT !.slots[i].owner = newOwner, !.slots[i].state = state]
        = WithSlot(i, slot)
  BY <1>1, <1>2 DEF TypeOK, WithSlot
<1>5. ASSUME owner = newOwner
      PROVE  Ended(h, state) = WithSlot(i, slot)
  <2>1. [table.slots[i] EXCEPT !.state = state] = slot
    BY <1>1, <1>2, <1>5 DEF TypeOK
  <2> QED BY <1>1, <1>2, <2>1 DEF TypeOK, WithSlot, Ended
<1>6. ASSUME state = "ACTIVE"
      PROVE  [table EXCEPT !.slots[i].owner = newOwner] = WithSlot(i, slot)
  <2>1. [table.slots[i] EXCEPT !.owner = newOwner] = slot
    BY <1>1, <1>2, <1>6 DEF TypeOK
  <2> QED BY <1>1, <1>2, <2>1 DEF TypeOK, WithSlot
<1>7. state = "PUBLISHED" => Published(h, newOwner) = WithSlot(i, slot)
  BY <1>4 DEF Published
<1>8. state = "ACTIVE" => Transferred(h, newOwner) = WithSlot(i, slot)
  BY <1>1, <1>6 DEF Transferred
<1> HIDE DEF slot
<1> QED BY <1>1, <1>3, <1>5, <1>7, <1>8

(* dos_memory_lease_transfer_owner. *)
LEMMA TransferInv == IndInv /\ Transfer => IndInv'
<1> SUFFICES ASSUME IndInv, Transfer PROVE IndInv' OBVIOUS
<1>1. ~arena.poisoned /\ UNCHANGED <<origin, plans, issued>> BY DEF Transfer
<1>2. PICK h \in issued, owner \in Owners, newOwner \in Owners :
        /\ Active(h, owner)
        /\ arena.owner[Segment(h)] = owner
        /\ \/ /\ arena' = [arena EXCEPT !.owner[Segment(h)] = newOwner]
              /\ table' = Transferred(h, newOwner)
           \/ /\ arena' = [arena EXCEPT !.poisoned = TRUE]
              /\ UNCHANGED table
  BY DEF Transfer
<1>3. h \in Handles BY DEF IndInv, TypeOK
<1>4. CASE arena' = [arena EXCEPT !.poisoned = TRUE] /\ UNCHANGED table
  BY <1>1, <1>4, PoisonedInv
<1>5. CASE /\ arena' = [arena EXCEPT !.owner[Segment(h)] = newOwner]
           /\ table' = Transferred(h, newOwner)
  <2>1. \A p \in plans : p.handle # h BY <1>1, <1>2, <1>3, NoPlanFor
  <2>2. "ACTIVE" \in SlotStates BY DEF SlotStates
  <2>3. PICK slot \in SlotValues :
          /\ slot.state = "ACTIVE" /\ slot.owner = newOwner
          /\ slot.segment = Segment(h)
          /\ slot.generation = table.slots[h.slot].generation
          /\ slot.arenaGeneration = table.slots[h.slot].arenaGeneration
          /\ Transferred(h, newOwner) = WithSlot(h.slot, slot)
    BY <1>2, <1>3, <2>2, ActiveSlot
  <2>4. plans' \subseteq [handle : Handles, expectedOwner : Owners,
                         newOwner : Owners, segment : Blocks]
    BY <1>1 DEF IndInv, TypeOK
  <2> QED BY <1>1, <1>2, <1>3, <1>5, <2>1, <2>3, <2>4, ReownedInv
<1> QED BY <1>2, <1>4, <1>5

(* dos_memory_lease_prepare_rebind and the staging of its replacement. *)
LEMMA PrepareRebindInv == IndInv /\ PrepareRebind => IndInv'
<1> SUFFICES ASSUME IndInv, PrepareRebind PROVE IndInv' OBVIOUS
<1>1. ~arena.poisoned /\ UNCHANGED <<table, origin, issued>>
  BY DEF PrepareRebind
<1>2. PICK h \in issued, owner \in Owners, newOwner \in Owners :
        /\ Active(h, owner) /\ newOwner # owner
        /\ arena.owner[Segment(h)] = owner
        /\ \/ /\ plans' = plans \cup {[handle |-> h, expectedOwner |-> owner,
                                       newOwner |-> newOwner,
                                       segment |-> Segment(h)]}
              /\ arena' = [arena EXCEPT !.owner[Segment(h)] = newOwner]
           \/ /\ arena' = [arena EXCEPT !.poisoned = TRUE]
              /\ UNCHANGED plans
  BY DEF PrepareRebind
<1>3. h \in Handles BY DEF IndInv, TypeOK
<1>4. CASE arena' = [arena EXCEPT !.poisoned = TRUE] /\ UNCHANGED plans
  BY <1>1, <1>4, PoisonedInv
<1>5. ASSUME NEW p, p = [handle |-> h, expectedOwner |-> owner,
                         newOwner |-> newOwner, segment |-> Segment(h)],
             plans' = plans \cup {p},
             arena' = [arena EXCEPT !.owner[Segment(h)] = newOwner]
      PROVE  IndInv'
  <2>1. \A q \in plans : q.handle # h BY <1>1, <1>2, <1>3, NoPlanFor
  <2>2. PICK slot \in SlotValues :
          /\ slot.state = "ACTIVE" /\ slot.owner = owner
          /\ slot.segment = Segment(h)
          /\ slot.generation = table.slots[h.slot].generation
          /\ slot.arenaGeneration = table.slots[h.slot].arenaGeneration
          /\ table' = WithSlot(h.slot, slot)
    BY <1>1, <1>2, <1>3, SameSlot
  <2>3. Segment(h) \in Blocks
    BY <1>2, <1>3, ActiveNames DEF IndInv, Anchored, Segment
  <2>4. plans' \subseteq [handle : Handles, expectedOwner : Owners,
                         newOwner : Owners, segment : Blocks]
    BY <1>3, <1>5, <2>3 DEF IndInv, TypeOK
  <2>5. /\ p \in plans' /\ p.handle = h /\ p.expectedOwner = owner
        /\ p.newOwner = newOwner /\ p.segment = Segment(h)
        /\ \A q \in plans' : q.handle = h => q = p
        /\ {q \in plans' : q.handle # h} = {q \in plans : q.handle # h}
    BY <1>5, <2>1
  <2> HIDE <1>5
  <2>6. arena' = [arena EXCEPT !.owner[Segment(h)] = newOwner] BY <1>5
  <2> QED BY <1>1, <1>2, <1>3, <2>2, <2>4, <2>5, <2>6, ReownedInv
<1> QED BY <1>2, <1>4, <1>5

(* A journal abort undoes a staged rebind. *)
LEMMA UnstageRebindInv == IndInv /\ UnstageRebind => IndInv'
<1> SUFFICES ASSUME IndInv, UnstageRebind PROVE IndInv' OBVIOUS
<1>1. ~arena.poisoned /\ UNCHANGED <<table, origin, issued>>
  BY DEF UnstageRebind
<1>2. PICK p \in plans :
        /\ arena' = [arena EXCEPT !.owner[p.segment] = p.expectedOwner]
        /\ plans' = plans \ {p}
  BY DEF UnstageRebind
<1> DEFINE h == p.handle
           owner == p.expectedOwner
<1>3. h \in Handles /\ owner \in Owners /\ Active(h, owner)
      /\ Segment(h) = p.segment
  BY DEF IndInv, TypeOK, PlansHeld
<1>4. \A q \in plans : q.handle = h => q = p BY <1>1, OnePlan
<1>5. PICK slot \in SlotValues :
        /\ slot.state = "ACTIVE" /\ slot.owner = owner
        /\ slot.segment = Segment(h)
        /\ slot.generation = table.slots[h.slot].generation
        /\ slot.arenaGeneration = table.slots[h.slot].arenaGeneration
        /\ table' = WithSlot(h.slot, slot)
  BY <1>1, <1>3, SameSlot
<1>6. plans' \subseteq [handle : Handles, expectedOwner : Owners,
                       newOwner : Owners, segment : Blocks]
  BY <1>2 DEF IndInv, TypeOK
<1>7. /\ \A q \in plans' : q.handle # h
      /\ {q \in plans' : q.handle # h} = {q \in plans : q.handle # h}
  BY <1>2, <1>4
<1> HIDE DEF h, owner
<1>8. arena' = [arena EXCEPT !.owner[Segment(h)] = owner]
  BY <1>2, <1>3 DEF owner
<1> QED BY <1>1, <1>3, <1>5, <1>6, <1>7, <1>8, ReownedInv

(* A lease that ends takes its block's answer and its plan with it. *)
LEMMA LeaseEnds ==
  ASSUME IndInv, NEW h \in Handles, NEW owner \in Owners, Active(h, owner),
         NEW newOwner \in Owners, NEW state \in SlotStates, state # "ACTIVE",
         \/ state = "PUBLISHED" /\ table' = Published(h, newOwner)
         \/ newOwner = owner /\ table' = Ended(h, state),
         NEW left \in Owners \cup {Free},
         arena' = [arena EXCEPT !.owner[Segment(h)] = left],
         origin' = [origin EXCEPT ![Segment(h)] = Guest],
         plans' = {p \in plans : p.handle # h}, issued' = issued
  PROVE  IndInv'
<1>1. PICK slot \in SlotValues :
        slot.state = state /\ table' = WithSlot(h.slot, slot)
  BY ActiveSlot
<1>2. slot.state # "ACTIVE" BY <1>1
<1> QED BY <1>1, <1>2, EndedInv

(* dos_memory_lease_rebind_publish. *)
LEMMA RebindPublishInv == IndInv /\ RebindPublish => IndInv'
<1> SUFFICES ASSUME IndInv, RebindPublish PROVE IndInv' OBVIOUS
<1>1. ~arena.poisoned /\ UNCHANGED <<arena, issued>> BY DEF RebindPublish
<1>2. PICK p \in plans :
        /\ Active(p.handle, p.expectedOwner)
        /\ Segment(p.handle) = p.segment
        /\ table' = RebindPublished(p)
        /\ origin' = [origin EXCEPT ![p.segment] = Guest]
        /\ plans' = plans \ {p}
  BY DEF RebindPublish
<1>3. /\ p.handle \in Handles /\ p.expectedOwner \in Owners
      /\ p.newOwner \in Owners /\ p.segment \in Blocks
  BY DEF IndInv, TypeOK
<1>4. plans' = {q \in plans : q.handle # p.handle} BY <1>1, <1>2, OnePlan
<1>5. arena' = [arena EXCEPT !.owner[Segment(p.handle)] = p.newOwner]
  <2>1. arena.owner[p.segment] = p.newOwner BY <1>1 DEF IndInv, PlansHeld
  <2> QED BY <1>1, <1>2, <1>3, <2>1 DEF IndInv, TypeOK
<1>6. table' = Published(p.handle, p.newOwner) BY <1>2 DEF RebindPublished
<1>7. "PUBLISHED" \in SlotStates BY DEF SlotStates
<1>8. origin' = [origin EXCEPT ![Segment(p.handle)] = Guest] BY <1>2
<1> QED BY <1>1, <1>2, <1>3, <1>4, <1>5, <1>6, <1>7, <1>8, LeaseEnds

(* dos_memory_lease_publish. *)
LEMMA PublishInv == IndInv /\ Publish => IndInv'
<1> SUFFICES ASSUME IndInv, Publish PROVE IndInv' OBVIOUS
<1>1. ~arena.poisoned /\ UNCHANGED <<arena, plans, issued>> BY DEF Publish
<1>2. PICK h \in issued, owner \in Owners :
        /\ Active(h, owner)
        /\ \A p \in plans : p.handle # h
        /\ table' = Published(h, owner)
        /\ origin' = [origin EXCEPT ![Segment(h)] = Guest]
  BY DEF Publish
<1>3. h \in Handles BY DEF IndInv, TypeOK
<1>4. Segment(h) \in Blocks
  BY <1>2, <1>3, ActiveNames DEF IndInv, Anchored, Segment
<1>5. /\ arena.owner[Segment(h)] \in Owners \cup {Free}
      /\ arena' = [arena EXCEPT !.owner[Segment(h)] = arena.owner[Segment(h)]]
  BY <1>1, <1>4 DEF IndInv, TypeOK
<1>6. plans' = {p \in plans : p.handle # h} BY <1>1, <1>2
<1>7. "PUBLISHED" \in SlotStates BY DEF SlotStates
<1> QED BY <1>1, <1>2, <1>3, <1>5, <1>6, <1>7, LeaseEnds

(* finish_active_lease: dos_memory_lease_release and _abort. *)
LEMMA FinishInv ==
  ASSUME NEW ended \in {"RELEASED", "ABORTED"}
  PROVE  IndInv /\ Finish(ended) => IndInv'
<1> SUFFICES ASSUME IndInv, Finish(ended) PROVE IndInv' OBVIOUS
<1>1. UNCHANGED <<plans, issued>> BY DEF Finish
<1>2. PICK h \in issued, owner \in Owners :
        /\ MayFinish(h, owner)
        /\ \/ /\ ~arena.poisoned
              /\ arena.owner[Segment(h)] = owner
              /\ arena' = [arena EXCEPT !.owner[Segment(h)] = Free]
              /\ table' = Ended(h, ended)
              /\ origin' = [origin EXCEPT ![Segment(h)] = Guest]
           \/ /\ table' = FinishFailed(h)
              /\ arena' \in {arena, [arena EXCEPT !.poisoned = TRUE]}
              /\ UNCHANGED origin
  BY DEF Finish, Ended
<1>3. h \in Handles /\ Active(h, owner) BY <1>2 DEF IndInv, TypeOK, MayFinish
<1>4. CASE /\ ~arena.poisoned
           /\ arena.owner[Segment(h)] = owner
           /\ arena' = [arena EXCEPT !.owner[Segment(h)] = Free]
           /\ table' = Ended(h, ended)
           /\ origin' = [origin EXCEPT ![Segment(h)] = Guest]
  <2>1. plans' = {p \in plans : p.handle # h} BY <1>1, <1>3, <1>4, NoPlanFor
  <2>2. ended \in SlotStates /\ ended # "ACTIVE" BY DEF SlotStates
  <2> QED BY <1>1, <1>3, <1>4, <2>1, <2>2, LeaseEnds
<1>5. CASE /\ table' = FinishFailed(h)
           /\ arena' \in {arena, [arena EXCEPT !.poisoned = TRUE]}
           /\ UNCHANGED origin
  <2>1. h.slot \in Slots /\ table.slots[h.slot].state = "ACTIVE"
    BY <1>3, ActiveNames DEF IndInv, Leased
  <2>2. FinishFailed(h) = table BY <2>1 DEF IndInv, TypeOK, FinishFailed
  <2>3. CASE arena' = arena
    BY <1>1, <1>5, <2>2, <2>3, UnchangedInv DEF vars
  <2>4. CASE arena' = [arena EXCEPT !.poisoned = TRUE]
    BY <1>1, <1>5, <2>2, <2>4, PoisonedInv
  <2> QED BY <1>5, <2>3, <2>4
<1> QED BY <1>2, <1>4, <1>5

(* A drained table has no active slot, no plan that counts and no block.   *)
LEMMA DrainedOwesNothing ==
  ASSUME IndInv, Drained
  PROVE  /\ \A i \in Slots : ~Leased(i)
         /\ \A b \in Blocks : origin[b] = Guest
<1>1. \A i \in Slots : ~Leased(i) BY DEF Drained, Reusable, Leased
<1> QED BY <1>1 DEF IndInv, NothingLeaked

(* dos_memory_lease_table_construct over drained storage. *)
LEMMA ConstructInv == IndInv /\ Construct => IndInv'
<1> SUFFICES ASSUME IndInv, Construct PROVE IndInv' OBVIOUS
<1>1. \A b \in Blocks : origin[b] = Guest
  BY DrainedOwesNothing DEF Construct
<1>2. /\ table' = [identity |-> table.identity + 1,
                   slots |-> [i \in Slots |-> Vacant(0)]]
      /\ table.identity < Lifetimes
      /\ plans' = {} /\ UNCHANGED <<arena, origin, issued>>
  BY DEF Construct
<1>3. Vacant(0) \in SlotValues
  BY LeaseAssumption DEF Vacant, SlotValues, SlotStates, NoBlock
<1>4. TypeOK' BY <1>2, <1>3, LeaseAssumption DEF IndInv, TypeOK, SlotValues
<1>5. \A i \in Slots : ~Leased(i)' BY <1>2 DEF Leased, Vacant
<1> QED BY <1>1, <1>2, <1>4, <1>5 DEF IndInv, Anchored, PlansHeld, LiveBlocks,
                                     NothingLeaked

(* The guest's own allocations, while nothing is leased. *)
LEMMA GuestMovesInv == IndInv /\ GuestMoves => IndInv'
<1> SUFFICES ASSUME IndInv, GuestMoves PROVE IndInv' OBVIOUS
<1>1. /\ \A i \in Slots : ~Leased(i)
      /\ \A b \in Blocks : origin[b] = Guest
  BY DrainedOwesNothing DEF GuestMoves
<1>2. plans = {} /\ UNCHANGED <<table, origin, plans, issued>>
  BY DEF GuestMoves
<1>3. arena' \in [generation : 1 .. Generations, poisoned : BOOLEAN,
                 owner : [Blocks -> Owners \cup {Free}]]
  <2>1. CASE \E b \in Blocks, owner \in Owners \cup {Free} :
               arena' = [arena EXCEPT !.owner[b] = owner]
    BY <2>1 DEF IndInv, TypeOK
  <2>2. CASE /\ arena.generation < Generations
             /\ arena' = [generation |-> arena.generation + 1,
                          poisoned |-> FALSE,
                          owner |-> [b \in Blocks |-> Free]]
    BY <2>2, LeaseAssumption DEF IndInv, TypeOK
  <2> QED BY <2>1, <2>2 DEF GuestMoves
<1>4. TypeOK' BY <1>2, <1>3 DEF IndInv, TypeOK
<1>5. \A i \in Slots : ~Leased(i)' BY <1>1, <1>2 DEF Leased
<1> QED BY <1>1, <1>2, <1>4, <1>5 DEF IndInv, Anchored, PlansHeld, LiveBlocks,
                                     NothingLeaked

(* Every step keeps the invariant. *)
LEMMA NextInv == IndInv /\ [Next]_vars => IndInv'
<1> SUFFICES ASSUME IndInv, [Next]_vars PROVE IndInv' OBVIOUS
<1>1. CASE Acquire BY <1>1, AcquireInv
<1>2. CASE Transfer BY <1>2, TransferInv
<1>3. CASE PrepareRebind BY <1>3, PrepareRebindInv
<1>4. CASE UnstageRebind BY <1>4, UnstageRebindInv
<1>5. CASE RebindPublish BY <1>5, RebindPublishInv
<1>6. CASE Publish BY <1>6, PublishInv
<1>7. CASE Release BY <1>7, FinishInv DEF Release
<1>8. CASE Abort BY <1>8, FinishInv DEF Abort
<1>9. CASE Construct BY <1>9, ConstructInv
<1>10. CASE GuestMoves BY <1>10, GuestMovesInv
<1>11. CASE UNCHANGED vars BY <1>11, UnchangedInv
<1> QED BY <1>1, <1>2, <1>3, <1>4, <1>5, <1>6, <1>7, <1>8, <1>9, <1>10,
           <1>11 DEF Next

-----------------------------------------------------------------------------
(* The lease table, the arena and the plans keep their types; a generation *)
(* never exceeds what reserve_slot lets a handle carry.                    *)
THEOREM TypeCorrect == Spec => []TypeOK
<1>1. IndInv => TypeOK BY DEF IndInv
<1> QED BY InitInv, NextInv, <1>1, PTL DEF Spec

(* Every active lease has its live block, every block a lease allocated    *)
(* has its lease, and find_slot resolves no handle but the one that        *)
(* acquired the block, whatever slots and generations repeat.              *)
THEOREM Backed == Spec => []LeaseBacked
<1>1. IndInv => LeaseBacked
  <2> SUFFICES ASSUME IndInv PROVE StaleRefused
    BY DEF IndInv, LeaseBacked
  <2> SUFFICES ASSUME NEW h \in issued, NEW owner \in Owners, Active(h, owner)
               PROVE  origin[Segment(h)] = h
    BY DEF StaleRefused
  <2>1. h \in Handles BY DEF IndInv, TypeOK
  <2>2. h.slot \in Slots /\ Leased(h.slot) /\ Named(h.slot) = h
    BY <2>1, ActiveNames DEF IndInv
  <2> QED BY <2>2 DEF IndInv, Anchored, Segment
<1> QED BY InitInv, NextInv, <1>1, PTL DEF Spec

(* A block becomes free only while nothing is leased, or by the end of its *)
(* own lease.                                                              *)
LEMMA FreeingStep ==
  ASSUME IndInv, Next, NEW b \in Blocks,
         arena.owner[b] # Free, arena'.owner[b] = Free
  PROVE  \/ Drained /\ Drained'
         \/ \E i \in Slots : /\ Leased(i) /\ table.slots[i].segment = b
                             /\ origin[b] = Named(i)
                             /\ table'.slots[i].state \in {"RELEASED", "ABORTED"}
<1>1. ASSUME NEW c, NEW owner \in Owners,
             arena' = [arena EXCEPT !.owner[c] = owner]
      PROVE  FALSE
  BY <1>1, LeaseAssumption DEF IndInv, TypeOK
<1>2. arena'.owner # arena.owner OBVIOUS
<1>3. arena' # arena /\ arena' # [arena EXCEPT !.poisoned = TRUE]
  BY <1>2 DEF IndInv, TypeOK
<1>4. CASE Acquire BY <1>1, <1>3, <1>4 DEF Acquire
<1>5. CASE Transfer BY <1>1, <1>3, <1>5 DEF Transfer
<1>6. CASE PrepareRebind BY <1>1, <1>3, <1>6 DEF PrepareRebind
<1>7. CASE UnstageRebind
  <2>1. PICK p \in plans :
          arena' = [arena EXCEPT !.owner[p.segment] = p.expectedOwner]
    BY <1>7 DEF UnstageRebind
  <2>2. p.expectedOwner \in Owners BY DEF IndInv, TypeOK
  <2> QED BY <1>1, <2>1, <2>2
<1>8. CASE RebindPublish \/ Publish \/ Construct
  BY <1>3, <1>8 DEF RebindPublish, Publish, Construct
<1>9. ASSUME NEW ended \in {"RELEASED", "ABORTED"}, Finish(ended)
      PROVE  \E i \in Slots : /\ Leased(i) /\ table.slots[i].segment = b
                              /\ origin[b] = Named(i)
                              /\ table'.slots[i].state \in {"RELEASED", "ABORTED"}
  <2>1. PICK h \in issued, owner \in Owners :
          /\ Active(h, owner)
          /\ arena' = [arena EXCEPT !.owner[Segment(h)] = Free]
          /\ table' = [table EXCEPT !.slots[h.slot].state = ended]
    BY <1>3, <1>9 DEF Finish, MayFinish
  <2>2. h \in Handles BY DEF IndInv, TypeOK
  <2>3. h.slot \in Slots /\ Leased(h.slot) BY <2>1, <2>2, ActiveNames DEF IndInv
  <2>4. Segment(h) = b BY <2>1 DEF IndInv, TypeOK
  <2>5. table.slots[h.slot].segment = b /\ origin[b] = Named(h.slot)
    BY <2>3, <2>4 DEF IndInv, Anchored, Segment
  <2>6. table'.slots[h.slot].state = ended
    BY <2>1, <2>3 DEF IndInv, TypeOK
  <2> QED BY <2>3, <2>5, <2>6
<1>10. CASE GuestMoves
  BY <1>10 DEF GuestMoves, Drained
<1> QED BY <1>4, <1>5, <1>6, <1>7, <1>8, <1>9, <1>10 DEF Next, Release, Abort

(* A lease is published under the owner its MCB names. *)
LEMMA PublishingStep ==
  ASSUME IndInv, Next, NEW i \in Slots,
         Leased(i), table'.slots[i].state = "PUBLISHED"
  PROVE  arena'.owner[table.slots[i].segment] = table'.slots[i].owner
<1>1. table.slots[i].state = "ACTIVE" BY DEF Leased
<1>2. table' # table BY <1>1
<1>3. ASSUME NEW h \in Handles, NEW owner, Active(h, owner),
             NEW newOwner \in Owners, table' = Published(h, newOwner)
      PROVE  i = h.slot /\ table'.slots[i].owner = newOwner
  <2>1. h.slot \in Slots BY <1>3, ActiveNames DEF IndInv
  <2> QED BY <1>1, <1>3, <2>1 DEF IndInv, TypeOK, Published
<1>4. CASE Acquire
  <2>1. PICK j \in Slots :
          \/ table' = WithSlot(j, Vacant(NextGeneration(j)))
          \/ \E owner \in Owners, b \in Blocks :
               table' = WithSlot(j, [state |-> "ACTIVE",
                                     generation |-> NextGeneration(j),
                                     owner |-> owner, segment |-> b,
                                     arenaGeneration |-> arena.generation])
    BY <1>4, Zenon DEF Acquire
  <2> QED BY <1>1, <2>1 DEF IndInv, TypeOK, WithSlot, Vacant
<1>5. CASE Transfer
  <2>1. PICK h \in issued, owner \in Owners, newOwner \in Owners :
          Active(h, owner) /\ table' = Transferred(h, newOwner)
    BY <1>2, <1>5 DEF Transfer
  <2> QED BY <1>1, <2>1 DEF IndInv, TypeOK, Transferred
<1>6. CASE RebindPublish
  <2>1. PICK p \in plans : /\ Active(p.handle, p.expectedOwner)
                           /\ Segment(p.handle) = p.segment
                           /\ table' = Published(p.handle, p.newOwner)
    BY <1>6 DEF RebindPublish, RebindPublished
  <2>2. p.handle \in Handles /\ p.newOwner \in Owners BY DEF IndInv, TypeOK
  <2>3. i = p.handle.slot /\ table'.slots[i].owner = p.newOwner
    BY <1>3, <2>1, <2>2
  <2>4. arena' = arena /\ arena.owner[p.segment] = p.newOwner
    BY <1>6 DEF RebindPublish, IndInv, PlansHeld
  <2> QED BY <2>1, <2>3, <2>4 DEF Segment
<1>7. CASE Publish
  <2>1. PICK h \in issued, owner \in Owners :
          /\ Active(h, owner) /\ table' = Published(h, owner)
          /\ \A p \in plans : p.handle # h
    BY <1>7 DEF Publish
  <2>2. h \in Handles BY DEF IndInv, TypeOK
  <2>3. i = h.slot /\ table'.slots[i].owner = owner BY <1>3, <2>1, <2>2
  <2>4. Named(i) = h /\ table.slots[i].owner = owner
    BY <2>1, <2>2, <2>3, ActiveNames DEF IndInv
  <2>5. arena' = arena /\ ~arena.poisoned BY <1>7 DEF Publish
  <2> QED BY <2>1, <2>3, <2>4, <2>5 DEF IndInv, LiveBlocks
<1>8. ASSUME NEW ended \in {"RELEASED", "ABORTED"}, Finish(ended)
      PROVE  FALSE
  <2>1. PICK h \in issued, state \in {"RELEASED", "ABORTED", "ACTIVE"} :
          table' = Ended(h, state)
    BY <1>8 DEF Finish, Ended, FinishFailed
  <2> QED BY <1>1, <2>1 DEF IndInv, TypeOK, Ended
<1>9. CASE Construct BY <1>9 DEF Construct, Vacant
<1>10. CASE PrepareRebind \/ UnstageRebind \/ GuestMoves
  BY <1>2, <1>10 DEF PrepareRebind, UnstageRebind, GuestMoves
<1> QED BY <1>4, <1>5, <1>6, <1>7, <1>8, <1>9, <1>10 DEF Next, Release, Abort

(* finish_active_lease frees the block of the lease it ends and no other,  *)
(* and a publish leaves the block under the owner its MCB names.           *)
THEOREM Respected == Spec => OwnersRespected
<1>1. IndInv /\ Next => FreedByItsLease
  BY FreeingStep DEF FreedByItsLease
<1>2. IndInv /\ Next => PublishedOwned
  BY PublishingStep DEF PublishedOwned
<1>3. IndInv /\ [Next]_vars => [FreedByItsLease /\ PublishedOwned]_vars
  BY <1>1, <1>2
<1> QED BY InitInv, NextInv, <1>3, PTL DEF Spec, OwnersRespected
=============================================================================
