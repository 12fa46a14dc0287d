---------------------------- MODULE SerioProofs ----------------------------
(***************************************************************************)
(* The serio bus for every set of ports and drivers, every queue capacity, *)
(* every limit of the sequence, generation and epoch numbers, and every    *)
(* depth of calls from callbacks.                                          *)
(***************************************************************************)
EXTENDS Serio, FiniteSetTheorems, SequenceTheorems, WellFoundedInduction, TLAPS

(* The calls and the points they can be at. *)
Stages(op) ==
  CASE op = "pump"    -> {"pump", "pumping"}
    [] op = "publish" -> {"attach", "connect", "publish", "open", "undo"}
    [] op = "bind"    -> {"connect", "publish", "open", "undo"}
    [] op = "register_driver" -> {"offer", "connect", "publish", "open", "undo"}
    [] op = "unbind"  -> {"reconnect", "detach", "disconnect", "attach",
                          "connect", "publish", "open", "undo"}
    [] op = "quiesce" -> {"detach", "disconnect", "stop"}
    [] op = "unregister_subtree" ->
         {"shut", "down", "detach", "disconnect", "clear"}
    [] op = "unregister_driver" ->
         {"examine", "detaching", "detach", "disconnect", "reattach",
          "attach", "connect", "publish", "open", "undo"}
    [] op = "recover" -> {"reconnecting"}
    [] op = "write"   -> {"writing"}

Ops == {"pump", "publish", "bind", "register_driver", "unbind", "quiesce",
        "unregister_subtree", "unregister_driver", "recover", "write"}

Points == {"pump", "pumping", "attach", "connect", "publish", "open", "undo",
           "offer", "reconnect", "detach", "disconnect", "stop", "shut",
           "down", "clear", "examine", "detaching", "reattach",
           "reconnecting", "writing"}

Portless == {"offer", "examine", "detaching", "reattach"}

FrameRecords ==
  [op : Ops, pc : Points, port : Ports \cup {None},
   driver : Drivers \cup {None}, slot : Nat \ {0}, index : Nat \ {0},
   epoch : 0 .. EpochMax, binding : 0 .. BindingMax,
   budget : 0 .. QueueCapacity, event : Bytes \cup Ports \cup {None}]

(* port_is_in_subtree, with the ports as an argument. *)
UpIn(ps, q) ==
  LET r == ps[q].parent
  IN IF r # None /\ ps[r].phase # "empty"
        /\ ps[q].parent_generation = ps[r].generation THEN r ELSE None

Above(ps, q) == IF q = None THEN None ELSE UpIn(ps, q)

ChainIn(ps, p) ==
  LET a[n \in 0 .. DepthMax] == IF n = 0 THEN p ELSE Above(ps, a[n - 1])
  IN  a

MembersIn(ps, root) ==
  {p \in Ports : /\ ps[p].phase # "empty"
                 /\ \E n \in 0 .. DepthMax : ChainIn(ps, p)[n] = root}

Childless(ps, p) ==
  \A c \in Ports : ps[c].phase # "empty" => ps[c].parent # p

(* What a callback in flight, and the call around it, rely on. *)
FlightHeld(f, ps) ==
  /\ f.driver \in Drivers
  /\ ps[f.port].driver = f.driver
  /\ ps[f.port].binding_generation = f.binding

PumpHeld(f, ps) ==
  /\ ps[f.port].queue # << >>
  /\ Head(ps[f.port].queue) = f.event
  /\ f.event.driver = f.driver /\ f.event.binding_generation = f.binding

RecoveryHeld(f, ps) ==
  /\ ps[f.port].phase = "active" /\ ps[f.port].recovery_required
  /\ ~ps[f.port].recovery_abandoned /\ ps[f.port].queue = << >>
  /\ ps[f.port].stream_loss_epoch = f.epoch /\ ps[f.port].in_flight = 1

(* What a call that binds relies on. *)
CandidateIn(f, sl) ==
  IF f.op \in {"bind", "register_driver"} THEN f.driver ELSE sl[f.slot]

CandidateHeld(f, sl) ==
  IF f.op \in {"bind", "register_driver"} THEN f.driver \in Drivers
  ELSE f.slot \in DOMAIN sl

PublishHeld(f, ps, ds, sl, cs) ==
  /\ CandidateIn(f, sl) \in Drivers /\ ds[CandidateIn(f, sl)].registered
  /\ cs[f.port] = CandidateIn(f, sl)
  /\ ps[f.port].driver = None
  /\ ps[f.port].phase \in {"active", "poisoned"}
  /\ ps[f.port].binding_generation < BindingMax

(* What a call that takes a port down relies on. *)
SubtreeHeld(f, ps) ==
  /\ f.event \in Ports
  /\ \A p \in MembersIn(ps, f.event) : ps[p].in_flight = 0

LeafHeld(f, ps) ==
  /\ ps[f.port].phase # "empty" /\ Childless(ps, f.port)
  /\ f.op = "quiesce" => ~ps[f.port].accepting

WithdrawalHeld(f, ps) ==
  /\ f.driver \in Drivers
  /\ f.pc \in {"detaching", "detach", "disconnect"} =>
       \A p \in Ports : ps[p].driver = f.driver => ps[p].in_flight = 0

FrameHeld(f, ps, ds, sl, cs) ==
  /\ f.pc \notin Portless => f.port \in Ports
  /\ f.pc \in Counted => FlightHeld(f, ps)
  /\ f.pc \in {"pump", "pumping"} => f.budget # 0
  /\ f.pc = "pumping" => PumpHeld(f, ps)
  /\ f.pc = "reconnecting" => RecoveryHeld(f, ps)
  /\ f.pc = "offer" => f.driver \in Drivers
  /\ f.pc \in {"connect", "publish", "open", "undo"} => CandidateHeld(f, sl)
  /\ f.pc = "publish" => PublishHeld(f, ps, ds, sl, cs)
  /\ f.pc \in {"open", "detach", "disconnect", "stop", "clear"} =>
       ps[f.port].in_flight = 0
  /\ f.pc \in {"undo", "disconnect", "stop"} => ps[f.port].driver = None
  /\ f.pc = "clear" =>
       ps[f.port].phase = "poisoned" \/ ps[f.port].driver = None
  /\ f.op = "unregister_subtree" => SubtreeHeld(f, ps)
  /\ f.op \in {"quiesce", "unregister_subtree"}
       /\ f.pc \in {"detach", "disconnect", "stop", "clear"} => LeafHeld(f, ps)
  /\ f.op = "unregister_driver" => WithdrawalHeld(f, ps)

StackHeld ==
  /\ stack \in Seq(FrameRecords) /\ Len(stack) <= MaxNesting
  /\ \A i \in DOMAIN stack :
       /\ stack[i].pc \in Stages(stack[i].op)
       /\ i < Len(stack) => stack[i].pc \in Counted
       /\ stack[i].op = "pump" => i = 1
       /\ FrameHeld(stack[i], ports, drivers, driverSlots, connected)

TallyRecords ==
  [offered : Nat, handled : Nat, rejected : Nat, unbound : Nat, stale : Nat,
   lost : Nat, discarded : Nat, closed : Nat, consumed : Nat, last : Nat]

(* What holds of a port, its counters and its connection by themselves. *)
LifeHeld(port, t, c) ==
  /\ port.phase = "empty" => port = Port(port.generation) /\ t = NoBytes
  /\ port.phase # "empty" => port.generation # 0
  /\ port.driver # None =>
       /\ port.phase \in {"active", "poisoned"}
       /\ c = port.driver /\ port.binding_generation # 0

Clean(port) ==
  /\ port.accepting => port.phase = "active" /\ ~port.recovery_required
  /\ port.phase = "poisoned" => port.stream_loss_epoch = EpochMax
  /\ port.phase = "prepared" => ~port.recovery_required

Sums(port, t) ==
  t.offered = t.handled + t.rejected + t.unbound + t.closed + t.lost
              + t.stale + t.discarded + t.consumed + Len(port.queue)

Ordered(port, t) ==
  /\ t.last <= port.next_sequence
  /\ \A i \in DOMAIN port.queue :
       /\ t.last < port.queue[i].sequence
       /\ port.queue[i].sequence <= port.next_sequence
  /\ \A i, j \in DOMAIN port.queue :
       i < j => port.queue[i].sequence < port.queue[j].sequence

PortsHeld ==
  /\ tally \in [Ports -> TallyRecords]
  /\ \A p \in Ports :
       /\ LifeHeld(ports[p], tally[p], connected[p])
       /\ Clean(ports[p])
       /\ Sums(ports[p], tally[p])
       /\ Ordered(ports[p], tally[p])

(* The slots hold the live ports, once each, and the registered drivers. *)
SlotsHeld ==
  /\ \A p \in Ports : ports[p].phase # "empty" <=>
                        \E i \in DOMAIN portSlots : portSlots[i] = p
  /\ \A i, j \in DOMAIN portSlots :
       portSlots[i] = portSlots[j] /\ portSlots[i] # None => i = j
  /\ \A d \in Drivers : drivers[d].registered <=>
                          \E i \in DOMAIN driverSlots : driverSlots[i] = d
  /\ \A p \in Ports : ports[p].driver # None =>
                        drivers[ports[p].driver].registered

IndInv ==
  TypeOK /\ StackHeld /\ PortsHeld /\ SlotsHeld /\ ConnectionsOwned /\ NoOrphans

-----------------------------------------------------------------------------
(* Least elements, and the induction they stand for.                       *)

(* A set of naturals has a least element. *)
LEMMA Least ==
  ASSUME NEW S \in SUBSET Nat, S # {}
  PROVE  \E i \in S : \A j \in S : i <= j
<1>1. PICK i \in S : \A j \in S : ~(<<j, i>> \in OpToRel(<, Nat))
  BY WFMin, NatLessThanWellFounded
<1>2. ASSUME NEW j \in S
      PROVE  i <= j
  <2>1. i \in Nat /\ j \in Nat
    BY <1>1
  <2>3. ~(j < i)
    BY <1>1, <2>1, Zenon DEF OpToRel
  <2> QED
    BY <2>1, <2>3
<1> QED
  BY <1>1, <1>2

(* Lowest finds it. *)
LEMMA LowestIn ==
  ASSUME NEW S \in SUBSET Nat, S # {}
  PROVE  Lowest(S) \in S
BY Least DEF Lowest

(* A set of naturals that contains 0 and with each number up to n its      *)
(* successor contains 0 .. n.                                              *)
LEMMA UpTo ==
  ASSUME NEW n \in Nat, NEW S, 0 \in S,
         \A k \in 0 .. n : k \in S /\ k < n => k + 1 \in S
  PROVE  0 .. n \subseteq S
<1> DEFINE T == {k \in 0 .. n : k \notin S}
<1> SUFFICES ASSUME T # {} PROVE FALSE
  OBVIOUS
<1>1. PICK k \in T : \A j \in T : k <= j
  <2>1. T \in SUBSET Nat
    OBVIOUS
  <2> QED
    BY <2>1, Least
<1>2. k # 0 /\ k - 1 \in 0 .. n /\ k - 1 < n
  BY <1>1
<1> QED
  BY <1>1, <1>2

-----------------------------------------------------------------------------
(* The call stack.                                                         *)

Flights(s, p) == {i \in DOMAIN s : s[i].port = p /\ s[i].pc \in Counted}
Flying(f, p) == f.port = p /\ f.pc \in Counted

(* A sequence under its last element. *)
LEMMA Parted ==
  ASSUME NEW F, NEW s \in Seq(F), s # << >>
  PROVE  /\ Front(s) \in Seq(F) /\ Last(s) \in F
         /\ s = Append(Front(s), Last(s))
         /\ Len(s) \in Nat \ {0} /\ Len(Front(s)) = Len(s) - 1
         /\ Last(s) = s[Len(s)]
         /\ \A i \in 1 .. Len(s) - 1 : Front(s)[i] = s[i]
<1>1. PICK n \in Nat \ {0} : n = Len(s)
  BY EmptySeq
<1>2. \A i \in 1 .. n : s[i] \in F
  BY <1>1, ElementOfSeq
<1>3. Last(s) = s[n] /\ Last(s) \in F
  BY <1>1, <1>2 DEF Last
<1>4. PICK r : r = SubSeq(s, 1, n - 1)
  OBVIOUS
<1>6. /\ r \in Seq(F) /\ Len(r) = n - 1
      /\ \A i \in 1 .. n - 1 : r[i] = s[i]
  BY <1>2, <1>4, SubSeqProperties
<1>7. PICK t \in F : t = Last(s)
  BY <1>3
<1>9. Append(r, t) = s
  BY <1>1, <1>6, AppendProperties, <1>3, <1>7, SeqEqual
<1> QED
  BY <1>1, <1>3, <1>4, <1>6, <1>7, <1>9 DEF Front

(* The stack under its top. *)
LEMMA Topped ==
  ASSUME NEW F, stack \in Seq(F), stack # << >>
  PROVE  /\ Front(stack) \in Seq(F) /\ Top \in F
         /\ stack = Append(Front(stack), Top)
         /\ Len(stack) \in DOMAIN stack /\ Len(Front(stack)) = Len(stack) - 1
         /\ Top = stack[Len(stack)]
         /\ \A i \in DOMAIN Front(stack) :
              i \in DOMAIN stack /\ i < Len(stack) /\ Front(stack)[i] = stack[i]
<1>1. /\ Front(stack) \in Seq(F) /\ Top \in F
      /\ stack = Append(Front(stack), Top)
      /\ Len(stack) \in Nat \ {0} /\ Len(Front(stack)) = Len(stack) - 1
      /\ Top = stack[Len(stack)]
      /\ \A i \in 1 .. Len(stack) - 1 : Front(stack)[i] = stack[i]
  BY Parted DEF Top
<1>2. /\ DOMAIN stack = 1 .. Len(stack)
      /\ DOMAIN Front(stack) = 1 .. Len(stack) - 1
  BY <1>1, LenProperties
<1>3. Len(stack) \in DOMAIN stack
  BY <1>1, <1>2
<1>4. \A i \in DOMAIN Front(stack) :
        i \in DOMAIN stack /\ i < Len(stack) /\ Front(stack)[i] = stack[i]
  BY <1>1, <1>2
<1> QED
  BY <1>1, <1>3, <1>4, Zenon

(* The callbacks in flight are finitely many, at most one to a frame. *)
LEMMA FlightsFinite ==
  ASSUME NEW F, NEW s \in Seq(F), NEW p
  PROVE  /\ IsFiniteSet(Flights(s, p))
         /\ Cardinality(Flights(s, p)) \in 0 .. Len(s)
         /\ Cardinality(Flights(s, p)) = 0 <=>
              \A i \in DOMAIN s : ~Flying(s[i], p)
<1>1. Flights(s, p) \in SUBSET (1 .. Len(s)) /\ Len(s) \in Nat
  BY DEF Flights
<1>2. IsFiniteSet(1 .. Len(s)) /\ Cardinality(1 .. Len(s)) = Len(s)
  <2>1. PICK n \in Nat : n = Len(s)
    BY <1>1
  <2>2. /\ IsFiniteSet(1 .. n)
        /\ Cardinality(1 .. n) = IF 1 > n THEN 0 ELSE n - 1 + 1
    BY FS_Interval
  <2> QED
    BY <2>1, <2>2
<1>3. IsFiniteSet(Flights(s, p)) /\ Cardinality(Flights(s, p)) <= Len(s)
  BY <1>1, <1>2, FS_Subset
<1>4. Cardinality(Flights(s, p)) \in Nat
  BY <1>3, FS_CardinalityType
<1>5. Cardinality(Flights(s, p)) = 0 <=> Flights(s, p) = {}
  BY <1>3, FS_EmptySet
<1> QED
  BY <1>1, <1>3, <1>4, <1>5 DEF Flights, Flying

(* A frame pushed on the stack counts for its port. *)
LEMMA Pushed ==
  ASSUME NEW F, NEW s \in Seq(F), NEW f \in F, NEW p
  PROVE  Cardinality(Flights(Append(s, f), p)) =
           Cardinality(Flights(s, p)) + IF Flying(f, p) THEN 1 ELSE 0
<1>1. Len(s) + 1 \notin Flights(s, p)
  BY DEF Flights
<1>2. IsFiniteSet(Flights(s, p)) /\ Cardinality(Flights(s, p)) \in Nat
  BY FlightsFinite
<1>3. Flights(Append(s, f), p) =
        IF Flying(f, p) THEN Flights(s, p) \cup {Len(s) + 1} ELSE Flights(s, p)
  BY DEF Flights, Flying
<1>4. Cardinality(Flights(s, p) \cup {Len(s) + 1}) =
        Cardinality(Flights(s, p)) + 1
  BY <1>1, <1>2, FS_AddElement
<1> QED
  BY <1>2, <1>3, <1>4

-----------------------------------------------------------------------------
(* The tree of ports.                                                       *)

Walk(ps, p, m, a) ==
  a = [n \in 0 .. m |-> IF n = 0 THEN p ELSE Above(ps, a[n - 1])]

(* Members, before and after a step, with the ports as an argument. *)
LEMMA MembersAre ==
  ASSUME NEW root
  PROVE  /\ Members(root) = MembersIn(ports, root)
         /\ Members(root)' = MembersIn(ports', root)
BY DEF Members, InSubtree, Ancestors, Parent, MembersIn, ChainIn, UpIn, Above

(* A walk of any length exists. *)
LEMMA WalkExists ==
  ASSUME NEW ps, NEW p, NEW m \in Nat
  PROVE  \E a : Walk(ps, p, m, a)
<1> DEFINE S == {k \in Nat : \E a : Walk(ps, p, k, a)}
<1>1. 0 \in S
  <2>1. Walk(ps, p, 0, [n \in 0 .. 0 |-> p])
    BY DEF Walk
  <2> QED
    BY <2>1
<1>2. ASSUME NEW k \in Nat, k \in S
      PROVE  k + 1 \in S
  <2>1. PICK a : Walk(ps, p, k, a)
    BY <1>2
  <2>2. PICK b : b = [n \in 0 .. k + 1 |->
                        IF n <= k THEN a[n] ELSE Above(ps, a[k])]
    OBVIOUS
  <2>3. \A n \in 0 .. k + 1 :
          b[n] = IF n = 0 THEN p ELSE Above(ps, b[n - 1])
    <3> SUFFICES ASSUME NEW n \in 0 .. k + 1
                 PROVE  b[n] = IF n = 0 THEN p ELSE Above(ps, b[n - 1])
      OBVIOUS
    <3>1. CASE n = 0
      BY <2>1, <2>2, <3>1 DEF Walk
    <3>2. CASE n # 0 /\ n <= k
      BY <2>2, <3>2, <2>1 DEF Walk
    <3>3. CASE n = k + 1
      BY <2>2, <3>3
    <3> QED
      BY <3>1, <3>2, <3>3
  <2> QED
    BY <2>2, <2>3 DEF Walk
<1>3. 0 .. m \subseteq S
  <2> HIDE DEF S
  <2> QED
    BY <1>1, <1>2, UpTo
<1> QED
  BY <1>3

(* So the chain of a port is what its definition says. *)
LEMMA ChainIs ==
  ASSUME NEW ps, NEW p
  PROVE  /\ ChainIn(ps, p)[0] = p
         /\ \A n \in 0 .. DepthMax :
              n # 0 => ChainIn(ps, p)[n] = Above(ps, ChainIn(ps, p)[n - 1])
<1>1. DepthMax \in Nat
  BY SerioAssumption
<1>2. PICK a : Walk(ps, p, DepthMax, a)
  BY <1>1, WalkExists
<1>3. PICK c : c = ChainIn(ps, p)
  OBVIOUS
<1>4. Walk(ps, p, DepthMax, c)
  BY <1>3, <1>2 DEF ChainIn, Walk
<1>5. c[0] = p
  BY <1>1, <1>4 DEF Walk
<1> QED
  BY <1>3, <1>5, <1>4 DEF Walk

(* Nothing below the root is outside a set that contains the root and the  *)
(* children of what it contains.                                           *)
LEMMA MembersWithin ==
  ASSUME NEW ps \in [Ports -> PortRecords], NEW root \in Ports, NEW S,
         root \in S,
         \A q \in Ports : ps[q].phase # "empty" /\ UpIn(ps, q) \in S => q \in S
  PROVE  MembersIn(ps, root) \subseteq S
<1> SUFFICES ASSUME NEW p \in Ports, ps[p].phase # "empty", p \notin S,
                    NEW m \in 0 .. DepthMax, ChainIn(ps, p)[m] = root
             PROVE  FALSE
  BY DEF MembersIn
<1>1. DepthMax \in Nat /\ None \notin Ports
  BY SerioAssumption
<1>2. PICK c : c = ChainIn(ps, p)
  OBVIOUS
<1> DEFINE T == {n \in 0 .. DepthMax :
                   \/ c[n] = None
                   \/ c[n] \in Ports \ S /\ ps[c[n]].phase # "empty"}
<1>3. 0 \in T
  BY <1>1, <1>2, ChainIs
<1>4. ASSUME NEW n \in 0 .. DepthMax, n \in T, n < DepthMax
      PROVE  n + 1 \in T
  <2>1. c[n + 1] = Above(ps, c[n])
    BY <1>1, <1>4, <1>2, ChainIs
  <2>2. CASE c[n] = None
    BY <1>1, <1>4, <2>1, <2>2 DEF Above
  <2>3. CASE c[n] # None
    <3>1. c[n] \in Ports \ S /\ ps[c[n]].phase # "empty"
      BY <1>4, <2>3
    <3>2. PICK q \in Ports : q = c[n]
      BY <3>1
    <3>4. /\ UpIn(ps, q) \notin S
          /\ \/ UpIn(ps, q) = None
             \/ UpIn(ps, q) \in Ports /\ ps[UpIn(ps, q)].phase # "empty"
      BY <3>1, <3>2 DEF UpIn, PortRecords
    <3> QED
      BY <1>1, <1>4, <3>4, <2>1, <2>3, <3>2 DEF Above
  <2> QED
    BY <2>2, <2>3
<1>5. 0 .. DepthMax \subseteq T
  <2> HIDE DEF T
  <2> QED
    BY <1>1, <1>3, <1>4, UpTo
<1> QED
  BY <1>1, <1>2, <1>5

(* NoOrphans, as far as the tree needs it. *)
Rooted(ps) ==
  \A p \in Ports : ps[p].phase # "empty" /\ ps[p].parent # None =>
    /\ ps[ps[p].parent].phase # "empty"
    /\ ps[ps[p].parent].generation = ps[p].parent_generation
    /\ ps[p].depth = ps[ps[p].parent].depth + 1

(* A live port is a member of the subtree it is the root of. *)
LEMMA RootMember ==
  ASSUME NEW ps, NEW root \in Ports, ps[root].phase # "empty"
  PROVE  root \in MembersIn(ps, root)
<1>2. ChainIn(ps, root)[0] = root
  BY ChainIs
<1> QED
  BY SerioAssumption, <1>2 DEF MembersIn

(* A child of a member is a member: its chain is not too long for the walk *)
(* because every step up is a step of the depth, which is bounded.         *)
LEMMA MembersClosed ==
  ASSUME NEW ps \in [Ports -> PortRecords], Rooted(ps), NEW root \in Ports,
         NEW p \in MembersIn(ps, root), NEW q \in Ports,
         ps[q].phase # "empty", UpIn(ps, q) = p
  PROVE  q \in MembersIn(ps, root)
<1>1. DepthMax \in Nat /\ None \notin Ports
  BY SerioAssumption
<1>2. \A r \in Ports : /\ ps[r].depth \in 0 .. DepthMax
                       /\ ps[r].parent \in Ports \cup {None}
  BY DEF PortRecords
<1>3. p \in Ports /\ ps[p].phase # "empty"
  BY DEF MembersIn
<1>4. PICK m \in 0 .. DepthMax : ChainIn(ps, p)[m] = root
  BY DEF MembersIn
<1>5. ps[q].depth = ps[p].depth + 1 /\ ps[p].depth < DepthMax
  BY <1>1, <1>3, <1>2 DEF UpIn, Rooted
<1>6. PICK a : a = ChainIn(ps, p)
  OBVIOUS
<1>7. PICK b : b = ChainIn(ps, q)
  OBVIOUS
<1>8. /\ a[0] = p /\ b[0] = q
      /\ \A n \in 0 .. DepthMax : n # 0 => /\ a[n] = Above(ps, a[n - 1])
                                          /\ b[n] = Above(ps, b[n - 1])
  BY <1>6, <1>7, ChainIs
<1> DEFINE Placed(n) ==
             \/ a[n] = None
             \/ /\ a[n] \in Ports /\ ps[a[n]].phase # "empty"
                /\ ps[a[n]].depth + n = ps[p].depth
           T == {n \in 0 .. DepthMax :
                   /\ n < DepthMax => b[n + 1] = a[n]
                   /\ Placed(n)}
<1>9. 0 \in T
  BY <1>1, <1>2, <1>3, <1>5, <1>8 DEF Above
<1>10. ASSUME NEW n \in 0 .. DepthMax, n \in T, n < DepthMax
       PROVE  n + 1 \in T
  <2>1. n + 1 \in 0 .. DepthMax /\ n + 1 # 0 /\ n + 1 - 1 = n
    BY <1>1, <1>10
  <2>2. a[n + 1] = Above(ps, a[n]) /\ b[n + 1] = a[n]
    BY <1>8, <1>10, <2>1
  <2>3. n + 1 < DepthMax => b[n + 1 + 1] = a[n + 1]
    <3> SUFFICES ASSUME n + 1 < DepthMax PROVE b[n + 1 + 1] = a[n + 1]
      OBVIOUS
    <3>2. b[n + 1 + 1] = Above(ps, b[n + 1])
      BY <1>8, <1>1
    <3> QED
      BY <2>2, <3>2
  <2>4. Placed(n + 1)
    <3>1. CASE a[n] = None
      BY <2>2, <3>1 DEF Above
    <3>2. CASE a[n] # None
      BY <1>10, <3>2, <2>2, <1>2, <1>1 DEF Above, UpIn, Rooted
    <3> QED
      BY <3>1, <3>2
  <2> HIDE DEF Placed
  <2> QED
    BY <2>1, <2>3, <2>4
<1>11. 0 .. DepthMax \subseteq T
  <2> HIDE DEF T
  <2> QED
    BY <1>1, <1>9, <1>10, UpTo
<1>13. m + 1 \in 0 .. DepthMax /\ b[m + 1] = root
  BY <1>1, <1>2, <1>4, <1>5, <1>6, <1>11
<1> QED
  BY <1>7, <1>13 DEF MembersIn

(* A step that adds no port to the tree and moves none adds no member to a *)
(* subtree.                                                                *)
Grafts(ps, qs) ==
  \A p \in Ports : qs[p].phase # "empty" =>
    /\ ps[p].phase # "empty"
    /\ qs[p].parent = ps[p].parent
    /\ qs[p].parent_generation = ps[p].parent_generation
    /\ qs[p].generation = ps[p].generation

(* When every live port was live before, under the same parent, no subtree *)
(* has a new member.                                                       *)
LEMMA MembersShrink ==
  ASSUME NEW ps \in [Ports -> PortRecords], NEW qs \in [Ports -> PortRecords],
         Rooted(ps), Grafts(ps, qs), NEW root \in Ports
  PROVE  MembersIn(qs, root) \subseteq MembersIn(ps, root)
<1>1. None \notin Ports
  BY SerioAssumption
<1>2. PICK S : S = MembersIn(ps, root) \cup {root}
  OBVIOUS
<1>4. ASSUME NEW q \in Ports, qs[q].phase # "empty", UpIn(qs, q) \in S
      PROVE  q \in S
  BY <1>2, <1>4, <1>1, RootMember, MembersClosed DEF UpIn, Grafts, MembersIn
<1>5. MembersIn(qs, root) \subseteq S
  BY <1>2, <1>4, MembersWithin
<1> QED
  BY <1>2, <1>5, RootMember DEF Grafts, MembersIn

-----------------------------------------------------------------------------
(* What a step owes to the calls on the stack.                             *)

Held(f) == FrameHeld(f, ports, drivers, driverSlots, connected)
HeldNext(f) == FrameHeld(f, ports', drivers', driverSlots', connected')

(* A port as the callbacks in flight on it left it. *)
Undisturbed(p) ==
  /\ ports'[p].driver = ports[p].driver
  /\ ports'[p].binding_generation = ports[p].binding_generation
  /\ ports[p].queue # << >> =>
       ports'[p].queue # << >> /\ Head(ports'[p].queue) = Head(ports[p].queue)
  /\ /\ ports[p].phase = "active" /\ ports[p].recovery_required
     /\ ~ports[p].recovery_abandoned /\ ports[p].queue = << >>
     /\ ports[p].in_flight = 1
     => /\ ports'[p].phase = "active" /\ ports'[p].recovery_required
        /\ ports'[p].in_flight = 1
        /\ ~ports'[p].recovery_abandoned /\ ports'[p].queue = << >>
        /\ ports'[p].stream_loss_epoch = ports[p].stream_loss_epoch

(* The operations that wait in a counted callback. *)
LEMMA CountedStages ==
  ASSUME NEW f \in FrameRecords, f.pc \in Stages(f.op), f.pc \in Counted
  PROVE  /\ f.op \in {"pump", "recover", "write"}
         /\ f.pc = "pumping" <=> f.op = "pump"
         /\ f.pc \in {"pumping", "reconnecting", "writing"}
BY DEF FrameRecords, Ops, Stages, Counted

(* A frame that waits in a callback keeps what it relies on when its port *)
(* is undisturbed.                                                        *)
LEMMA LowerKept ==
  ASSUME NEW f \in FrameRecords, f.pc \in Stages(f.op), f.pc \in Counted,
         Held(f), Undisturbed(f.port)
  PROVE  HeldNext(f)
<1>1. /\ f.op \in {"pump", "recover", "write"}
      /\ f.pc \in {"pumping", "reconnecting", "writing"}
  BY CountedStages
<1>2. /\ f.port \in Ports /\ FlightHeld(f, ports)
      /\ f.pc \in {"pump", "pumping"} => f.budget # 0
  BY <1>1 DEF Held, HeldNext, FrameHeld, Portless
<1>3. FlightHeld(f, ports')
  BY <1>2 DEF FlightHeld, Undisturbed
<1>4. f.pc = "pumping" => PumpHeld(f, ports')
  BY DEF Held, FrameHeld, PumpHeld, Undisturbed
<1> QED
  BY <1>1, <1>2, <1>3, <1>4
  DEF Held, HeldNext, FrameHeld, Portless, RecoveryHeld, Undisturbed

(* A stack of calls that all wait in a callback. *)
Waiting(base) ==
  /\ base \in Seq(FrameRecords)
  /\ \A i \in DOMAIN base :
       /\ base[i] \in FrameRecords
       /\ base[i].pc \in Stages(base[i].op) /\ base[i].pc \in Counted
       /\ base[i].op = "pump" => i = 1
       /\ Held(base[i])

(* Every frame below the top waits in a callback, and a pump is never *)
(* nested.                                                            *)
LEMMA WaitingBelow ==
  ASSUME StackHeld, stack # << >>
  PROVE  /\ Waiting(Front(stack)) /\ Len(Front(stack)) < MaxNesting
         /\ Top \in FrameRecords /\ Top.pc \in Stages(Top.op) /\ Held(Top)
         /\ Top.op = "pump" => Front(stack) = << >>
         /\ stack = Append(Front(stack), Top)
<1>1. stack \in Seq(FrameRecords) /\ Len(stack) <= MaxNesting
  BY DEF StackHeld
<1>2. /\ Front(stack) \in Seq(FrameRecords) /\ Top \in FrameRecords
      /\ stack = Append(Front(stack), Top)
      /\ Len(stack) \in DOMAIN stack /\ Len(Front(stack)) = Len(stack) - 1
      /\ Top = stack[Len(stack)]
      /\ \A i \in DOMAIN Front(stack) :
           i \in DOMAIN stack /\ i < Len(stack) /\ Front(stack)[i] = stack[i]
  BY <1>1, Topped
<1>4. Len(Front(stack)) < MaxNesting
  BY <1>1, <1>2, LenProperties, SerioAssumption
<1>6. Waiting(Front(stack))
  BY <1>2, <1>1 DEF Waiting, StackHeld, Held
<1>8. Top.op = "pump" => Front(stack) = << >>
  <2> SUFFICES ASSUME Top.op = "pump" PROVE Front(stack) = << >>
    OBVIOUS
  <2>2. Len(Front(stack)) = 0
    BY <1>2 DEF StackHeld
  <2> QED
    BY <1>2, <2>2, EmptySeq
<1> QED
  BY <1>2, <1>4, <1>6, <1>8 DEF StackHeld, Held

(* A new call may start only when every frame waits in a callback. *)
LEMMA WaitingAll ==
  ASSUME StackHeld, MayCall
  PROVE  Waiting(stack) /\ Len(stack) < MaxNesting
<1>1. /\ stack \in Seq(FrameRecords) /\ Len(stack) <= MaxNesting
      /\ MaxNesting \in Nat \ {0}
  BY SerioAssumption DEF StackHeld
<1>2. CASE stack = << >>
  BY <1>1, <1>2 DEF Waiting
<1>3. CASE stack # << >>
  BY <1>1, <1>3, Topped DEF MayCall, Waiting, StackHeld, Held
<1> QED
  BY <1>2, <1>3

(* With no call running, any call may start. *)
LEMMA IdleCalls ==
  ASSUME Idle
  PROVE  MayCall /\ stack = << >>
BY DEF Idle, MayCall

(* The call on top returns. *)
LEMMA Pops ==
  ASSUME NEW base, Waiting(base), Len(base) <= MaxNesting,
         \A i \in DOMAIN base : Undisturbed(base[i].port),
         stack' = base
  PROVE  StackHeld'
<1> QED
  BY LowerKept DEF StackHeld, Waiting, HeldNext

(* It goes on, or another call starts. *)
LEMMA Pushes ==
  ASSUME NEW base, Waiting(base), Len(base) < MaxNesting,
         \A i \in DOMAIN base : Undisturbed(base[i].port),
         NEW f \in FrameRecords, f.pc \in Stages(f.op), HeldNext(f),
         f.op = "pump" => base = << >>,
         stack' = Append(base, f)
  PROVE  StackHeld'
<1>2. base \in Seq(FrameRecords) /\ Len(base) \in Nat /\ MaxNesting \in Nat
  BY SerioAssumption, LenProperties DEF Waiting
<1>3. /\ stack' \in Seq(FrameRecords) /\ Len(stack') = Len(base) + 1
      /\ DOMAIN base = 1 .. Len(base) /\ DOMAIN stack' = 1 .. Len(base) + 1
      /\ \A i \in 1 .. Len(base) : stack'[i] = base[i]
      /\ stack'[Len(base) + 1] = f
  BY <1>2, AppendProperties, LenProperties
<1>4. ASSUME NEW i \in DOMAIN stack'
      PROVE  /\ stack'[i].pc \in Stages(stack'[i].op)
             /\ i < Len(stack') => stack'[i].pc \in Counted
             /\ stack'[i].op = "pump" => i = 1
             /\ HeldNext(stack'[i])
  BY LowerKept, <1>3, <1>2 DEF Waiting
<1> QED
  BY <1>3, <1>4, <1>2 DEF StackHeld, HeldNext

(* Callbacks in flight under the top, and in all. *)
LEMMA CountsBelow ==
  ASSUME TypeOK, StackHeld, stack # << >>, NEW p \in Ports
  PROVE  /\ Cardinality(Flights(Front(stack), p)) =
              ports[p].in_flight - IF Flying(Top, p) THEN 1 ELSE 0
         /\ Cardinality(Flights(Front(stack), p)) \in 0 .. Len(Front(stack))
<1>1. /\ Front(stack) \in Seq(FrameRecords) /\ Top \in FrameRecords
      /\ stack = Append(Front(stack), Top)
  BY WaitingBelow DEF Waiting
<1>2. ports[p].in_flight = Cardinality(Flights(stack, p))
  BY DEF TypeOK, Flights
<1>3. PICK r \in Seq(FrameRecords) : r = Front(stack)
  BY <1>1
<1>4. PICK t \in FrameRecords : t = Top
  BY <1>1
<1>6. Cardinality(Flights(r, p)) \in 0 .. Len(r)
  BY FlightsFinite
<1>7. PICK k \in Nat : k = Cardinality(Flights(r, p))
  BY LenProperties, <1>6
<1>8. Append(r, t) = stack
  BY <1>1, <1>3, <1>4
<1>9. ports[p].in_flight = k + IF Flying(Top, p) THEN 1 ELSE 0
  BY <1>2, <1>4, Pushed, <1>7, <1>8
<1> QED
  BY <1>3, <1>6, <1>7, <1>9

(* in_flight is the number of frames that wait in a callback of the port. *)
LEMMA CountsAll ==
  ASSUME TypeOK, StackHeld, NEW p \in Ports
  PROVE  /\ Cardinality(Flights(stack, p)) = ports[p].in_flight
         /\ ports[p].in_flight \in 0 .. Len(stack)
         /\ ports[p].in_flight = 0 <=>
              \A i \in DOMAIN stack : ~Flying(stack[i], p)
<1>1. stack \in Seq(FrameRecords)
  BY DEF StackHeld
<1>2. Cardinality(Flights(stack, p)) = ports[p].in_flight
  BY DEF TypeOK, Flights
<1> QED
  BY <1>1, <1>2, FlightsFinite

DriverRecords ==
  [registered : BOOLEAN, withdrawing : BOOLEAN, manual_bind : BOOLEAN]

(* The types, apart from the count of callbacks. *)
Shaped ==
  /\ ports \in [Ports -> PortRecords]
  /\ drivers \in [Drivers -> DriverRecords]
  /\ portSlots \in Seq(Ports \cup {None})
  /\ driverSlots \in Seq(Drivers \cup {None})
  /\ connected \in [Ports -> Drivers \cup {None, Abandoned}]
  /\ \A p \in Ports : Len(ports[p].queue) <= QueueCapacity

(* The types hold after a step when the records and in_flight do. *)
LEMMA TypeKept ==
  ASSUME Shaped',
         \A p \in Ports : ports'[p].in_flight = Cardinality(Flights(stack', p))
  PROVE  TypeOK'
BY DEF TypeOK, Shaped, DriverRecords, Flights

(* The part of the types that does not speak of the stack. *)
LEMMA TypeShaped ==
  ASSUME TypeOK
  PROVE  Shaped
BY DEF TypeOK, Shaped, DriverRecords

(* Connections that no call is busy with. *)
Owns(p) == connected[p] \notin {None, Abandoned} => ports[p].driver = connected[p]

Busy == {"publish", "undo", "disconnect"}

(* Where a call may start, no connection is in the hands of a running *)
(* call.                                                              *)
LEMMA OwnedAtRest ==
  ASSUME StackHeld, ConnectionsOwned, MayCall, NEW p \in Ports
  PROVE  Owns(p)
<1> QED
  BY WaitingAll DEF ConnectionsOwned, Owns, Counted, Waiting

(* Only the top frame can have a connection in its hands. *)
LEMMA OwnedBelow ==
  ASSUME StackHeld, ConnectionsOwned, stack # << >>, NEW p \in Ports,
         Top.pc \notin Busy \/ Top.port # p
  PROVE  Owns(p)
<1>2. /\ Len(stack) \in Nat /\ DOMAIN stack = 1 .. Len(stack)
      /\ Top = stack[Len(stack)]
  BY Topped, LenProperties DEF StackHeld
<1>3. ASSUME NEW i \in DOMAIN stack
      PROVE  ~(stack[i].port = p /\ stack[i].pc \in Busy)
  BY <1>2 DEF StackHeld, Counted, Busy
<1> QED
  BY <1>3 DEF ConnectionsOwned, Owns, Busy

(* Connections that the ports own suffice. *)
LEMMA OwnedKept ==
  ASSUME \A p \in Ports : Owns(p)'
  PROVE  ConnectionsOwned'
BY DEF ConnectionsOwned, Owns

(* A connection may also be in the hands of the new top frame. *)
LEMMA BusyKept ==
  ASSUME NEW base \in Seq(FrameRecords), NEW f \in FrameRecords,
         stack' = Append(base, f), f.pc \in Busy,
         \A p \in Ports : p = f.port \/ Owns(p)'
  PROVE  ConnectionsOwned'
<1> QED
  BY AppendProperties, LenProperties DEF ConnectionsOwned, Owns, Busy

-----------------------------------------------------------------------------
(* Putting a step together.                                                *)

Inflight(s, p) == Cardinality(Flights(s, p))

(* The calls under the one that takes the step, none of them disturbed. *)
Under(base) ==
  /\ Waiting(base) /\ Len(base) <= MaxNesting
  /\ \A i \in DOMAIN base : Undisturbed(base[i].port)

Standing == Shaped /\ PortsHeld /\ SlotsHeld /\ NoOrphans

(* The call on top returns, or the step is an interrupt's. *)
LEMMA Returns ==
  ASSUME NEW base, Under(base), stack' = base, Standing',
         \A p \in Ports : ports'[p].in_flight = Inflight(base, p),
         \A p \in Ports : Owns(p)'
  PROVE  IndInv'
<1>1. StackHeld'
  BY Pops DEF Under
<1>3. ConnectionsOwned'
  BY OwnedKept
<1> QED
  BY <1>1, TypeKept, <1>3 DEF IndInv, Standing, Inflight

(* A frame fit to be on top of the calls that wait. *)
Fit(base, f) ==
  /\ Len(base) < MaxNesting
  /\ f \in FrameRecords /\ f.pc \in Stages(f.op)
  /\ f.op = "pump" => base = << >>

(* The invariant after a step that leaves frame f on top of an undisturbed *)
(* stack.                                                                  *)
LEMMA Goes ==
  ASSUME NEW base, Under(base), NEW f, Fit(base, f), HeldNext(f),
         stack' = Append(base, f), Standing',
         \A p \in Ports : ports'[p].in_flight =
                            Inflight(base, p) + IF Flying(f, p) THEN 1 ELSE 0,
         \A p \in Ports : (p = f.port /\ f.pc \in Busy) \/ Owns(p)'
  PROVE  IndInv'
<1>1. base \in Seq(FrameRecords) /\ f \in FrameRecords
  BY DEF Under, Waiting, Fit
<1>2. StackHeld'
  BY Pushes DEF Under, Fit
<1>4. ConnectionsOwned'
  BY <1>1, BusyKept, OwnedKept
<1> QED
  BY <1>2, <1>1, Pushed, TypeKept, <1>4 DEF IndInv, Standing, Inflight

(* Where a call may start. *)
LEMMA AtCall ==
  ASSUME IndInv, MayCall
  PROVE  /\ Waiting(stack) /\ Len(stack) < MaxNesting /\ Len(stack) <= MaxNesting
         /\ \A p \in Ports : /\ ports[p].in_flight = Inflight(stack, p)
                             /\ Owns(p)
<1>1. Len(stack) \in Nat /\ MaxNesting \in Nat
  BY SerioAssumption DEF IndInv, StackHeld
<1>2. Waiting(stack) /\ Len(stack) < MaxNesting
  BY WaitingAll DEF IndInv
<1> QED
  BY <1>1, <1>2, CountsAll, OwnedAtRest DEF IndInv, Inflight

(* The call on top. *)
LEMMA AtTop ==
  ASSUME IndInv, stack # << >>
  PROVE  /\ Waiting(Front(stack)) /\ Len(Front(stack)) < MaxNesting
         /\ Len(Front(stack)) <= MaxNesting
         /\ Top \in FrameRecords /\ Top.pc \in Stages(Top.op) /\ Held(Top)
         /\ Top.op = "pump" => Front(stack) = << >>
         /\ stack = Append(Front(stack), Top)
         /\ \A p \in Ports :
              /\ Inflight(Front(stack), p) =
                   ports[p].in_flight - IF Flying(Top, p) THEN 1 ELSE 0
              /\ (p = Top.port /\ Top.pc \in Busy) \/ Owns(p)
<1>1. /\ Waiting(Front(stack)) /\ Len(Front(stack)) < MaxNesting
      /\ Top \in FrameRecords /\ Top.pc \in Stages(Top.op) /\ Held(Top)
      /\ Top.op = "pump" => Front(stack) = << >>
      /\ stack = Append(Front(stack), Top)
  BY WaitingBelow DEF IndInv
<1>2. Len(Front(stack)) <= MaxNesting
  BY <1>1, SerioAssumption DEF Waiting
<1>4. \A p \in Ports : (p = Top.port /\ Top.pc \in Busy) \/ Owns(p)
  BY OwnedBelow DEF IndInv
<1> QED
  BY <1>1, <1>2, CountsBelow, <1>4 DEF IndInv, Inflight

(* The parts of the invariant that do not speak of the stack. *)
LEMMA StandingNow ==
  ASSUME IndInv
  PROVE  Standing
BY TypeShaped DEF IndInv, Standing

-----------------------------------------------------------------------------
(* What a step owes to the ports.                                          *)

(* A port, its counters and its connection in order. *)
Good(port, t, c) ==
  /\ port \in PortRecords /\ t \in TallyRecords
  /\ Len(port.queue) <= QueueCapacity
  /\ LifeHeld(port, t, c) /\ Clean(port) /\ Sums(port, t) /\ Ordered(port, t)

(* One that stays in its place in the tree and the slots. *)
Kin(a, b) ==
  /\ b.phase = "empty" <=> a.phase = "empty"
  /\ b.generation = a.generation
  /\ b.parent = a.parent /\ b.parent_generation = a.parent_generation
  /\ b.depth = a.depth

Upright == {"active", "poisoned"}

(* The parts of the invariant that speak of one port. *)
LEMMA GoodNow ==
  ASSUME IndInv, NEW p \in Ports
  PROVE  /\ Good(ports[p], tally[p], connected[p])
         /\ ports[p].driver # None => drivers[ports[p].driver].registered
BY DEF IndInv, TypeOK, PortsHeld, SlotsHeld, Good

(* Ports may change in their place. *)
LEMMA StandingKept ==
  ASSUME IndInv,
         ports' = [p \in Ports |-> ports'[p]], tally' = [p \in Ports |-> tally'[p]],
         connected' \in [Ports -> Drivers \cup {None, Abandoned}],
         UNCHANGED registry,
         \A p \in Ports :
           /\ Kin(ports[p], ports'[p])
           /\ Good(ports'[p], tally'[p], connected'[p])
           /\ ports'[p].driver # None => drivers[ports'[p].driver].registered
           /\ ports[p].phase \in Upright =>
                ports'[p].phase \in Upright \/ Childless(ports, p)
  PROVE  Standing'
<1>2. PortsHeld'
  BY DEF Good, PortsHeld
<1>3. SlotsHeld'
  BY DEF IndInv, registry, SlotsHeld, Kin
<1>4. NoOrphans'
  <2> SUFFICES ASSUME NEW p \in Ports, ports'[p].phase # "empty",
                      ports'[p].parent # None, NEW q, q = ports'[p].parent
               PROVE  /\ ports'[q].phase \in {"active", "poisoned"}
                      /\ ports'[q].generation = ports'[p].parent_generation
                      /\ ports'[p].depth = ports'[q].depth + 1
    BY DEF NoOrphans
  <2>1. ports[p].phase # "empty" /\ q = ports[p].parent /\ q # None
    BY DEF Kin
  <2>2. q \in Ports
    BY <2>1 DEF IndInv, TypeOK, PortRecords
  <2>3. /\ ports[q].phase \in {"active", "poisoned"}
        /\ ports[q].generation = ports[p].parent_generation
        /\ ports[p].depth = ports[q].depth + 1
    BY <2>1 DEF IndInv, NoOrphans
  <2>5. ports'[q].phase \in {"active", "poisoned"}
    BY <2>2, <2>3, <2>1 DEF Upright, Childless
  <2> QED
    BY <2>2, <2>3, <2>5 DEF Kin
<1> QED
  BY TypeShaped, <1>2, <1>3, <1>4 DEF Standing, IndInv, Good, Shaped, registry

(* One port changes. *)
LEMMA OnePort ==
  ASSUME IndInv, NEW p \in Ports, NEW port, NEW t,
         ports' = [ports EXCEPT ![p] = port], tally' = [tally EXCEPT ![p] = t],
         connected' \in [Ports -> Drivers \cup {None, Abandoned}],
         \A q \in Ports : q # p => connected'[q] = connected[q],
         UNCHANGED registry,
         Kin(ports[p], port), Good(port, t, connected'[p]),
         port.driver # None => drivers[port.driver].registered,
         ports[p].phase \in Upright => port.phase \in Upright \/ Childless(ports, p)
  PROVE  /\ Standing'
         /\ ports'[p] = port /\ tally'[p] = t
         /\ \A q \in Ports : q # p => ports'[q] = ports[q] /\ tally'[q] = tally[q]
<1>1. ports \in [Ports -> PortRecords] /\ tally \in [Ports -> TallyRecords]
  BY DEF IndInv, TypeOK, PortsHeld
<1>2. /\ ports'[p] = port /\ tally'[p] = t
      /\ \A q \in Ports : q # p => ports'[q] = ports[q] /\ tally'[q] = tally[q]
  BY <1>1
<1>4. ASSUME NEW q \in Ports
      PROVE  /\ Kin(ports[q], ports'[q])
             /\ Good(ports'[q], tally'[q], connected'[q])
             /\ ports'[q].driver # None => drivers[ports'[q].driver].registered
             /\ ports[q].phase \in Upright =>
                  ports'[q].phase \in Upright \/ Childless(ports, q)
  BY <1>2, GoodNow DEF Kin
<1> QED
  BY <1>2, <1>1, <1>4, StandingKept

(* Nothing changes but the stack. *)
LEMMA NoPort ==
  ASSUME IndInv, UNCHANGED <<ports, tally, connected, portSlots, driverSlots>>,
         drivers' \in [Drivers -> DriverRecords],
         \A d \in Drivers : drivers'[d].registered = drivers[d].registered
  PROVE  /\ Standing'
         /\ \A p : Undisturbed(p)
         /\ \A p \in Ports : Owns(p) => Owns(p)'
         /\ \A f : Held(f) /\ f.pc # "publish" => HeldNext(f)
<1>1. Standing
  BY StandingNow
<1>4. SlotsHeld'
  BY <1>1 DEF Standing, SlotsHeld, IndInv, TypeOK, PortRecords
<1>5. \A p : Undisturbed(p)
  BY DEF Undisturbed
<1>6. \A p \in Ports : Owns(p) => Owns(p)'
  BY DEF Owns
<1>7. \A f : Held(f) /\ f.pc # "publish" => HeldNext(f)
  BY DEF Held, HeldNext, FrameHeld
<1> QED
  BY <1>1, <1>4, <1>5, <1>6, <1>7 DEF Standing, Shaped, PortsHeld, NoOrphans

(* A step of a call that leaves ports and slots alone. *)
Control ==
  /\ UNCHANGED <<ports, tally, connected, portSlots, driverSlots>>
  /\ drivers' \in [Drivers -> DriverRecords]
  /\ \A d \in Drivers : drivers'[d].registered = drivers[d].registered

Plain(f) ==
  /\ f \in FrameRecords /\ f.pc \in Stages(f.op)
  /\ f.pc \notin Counted /\ f.pc \notin Busy

(* A call that starts and changes nothing else keeps the invariant. *)
LEMMA ControlCalls ==
  ASSUME IndInv, Control, MayCall, NEW f, Plain(f), Held(f),
         f.op = "pump" => Idle, stack' = Append(stack, f)
  PROVE  IndInv'
<1>1. /\ Waiting(stack) /\ Len(stack) < MaxNesting /\ Len(stack) <= MaxNesting
      /\ \A p \in Ports : ports[p].in_flight = Inflight(stack, p) /\ Owns(p)
  BY AtCall
<1>2. /\ Standing' /\ \A p : Undisturbed(p)
      /\ \A p \in Ports : Owns(p) => Owns(p)'
      /\ HeldNext(f)
  BY NoPort DEF Control, Plain, Busy
<1>4. \A p \in Ports : ports'[p].in_flight =
                         Inflight(stack, p) + IF Flying(f, p) THEN 1 ELSE 0
  <2>1. \A p \in Ports : ports'[p] = ports[p] /\ ~Flying(f, p)
    BY DEF Control, Flying, Plain
  <2>2. \A p \in Ports : ports[p].in_flight \in Nat
    BY SerioAssumption DEF IndInv, TypeOK, PortRecords
  <2> QED
    BY <1>1, <2>1, <2>2
<1> QED
  BY <1>1, <1>2, <1>4, Goes DEF Under, Fit, Plain, Idle

(* A step that only moves or ends the running call keeps the invariant. *)
LEMMA ControlTops ==
  ASSUME IndInv, Control, stack # << >>,
         Top.pc \notin Counted, Top.pc \notin Busy,
         \/ stack' = Front(stack)
         \/ \E f : /\ Plain(f) /\ Held(f)
                   /\ f.op = "pump" => Top.op = "pump"
                   /\ stack' = Append(Front(stack), f)
  PROVE  IndInv'
<1>1. PICK base : base = Front(stack)
  OBVIOUS
<1>2. /\ Waiting(base) /\ Len(base) < MaxNesting /\ Len(base) <= MaxNesting
      /\ Top.op = "pump" => base = << >>
      /\ \A p \in Ports :
           /\ Inflight(base, p) = ports[p].in_flight - IF Flying(Top, p) THEN 1 ELSE 0
           /\ Owns(p)
  BY <1>1, AtTop
<1>3. /\ Standing' /\ \A p : Undisturbed(p)
      /\ \A p \in Ports : Owns(p) => Owns(p)'
      /\ \A f : Held(f) /\ f.pc # "publish" => HeldNext(f)
  BY NoPort DEF Control
<1>4. Under(base)
  BY <1>2, <1>3 DEF Under
<1>5. \A p \in Ports : ports'[p].in_flight = Inflight(base, p)
                         /\ Inflight(base, p) \in Nat
  <2>1. \A p \in Ports : ports'[p] = ports[p] /\ ~Flying(Top, p)
    BY DEF Control, Flying
  <2>2. \A p \in Ports : ports[p].in_flight \in Nat
    BY SerioAssumption DEF IndInv, TypeOK, PortRecords
  <2> QED
    BY <1>2, <2>1, <2>2
<1>6. CASE stack' = Front(stack)
  BY <1>1, <1>2, <1>3, <1>4, <1>5, <1>6, Returns
<1>7. ASSUME NEW f, Plain(f), Held(f), f.op = "pump" => Top.op = "pump",
             stack' = Append(Front(stack), f)
      PROVE  IndInv'
  BY <1>2, <1>7, <1>3, <1>5, <1>1, <1>4, Goes DEF Fit, Plain, Busy, Flying
<1> QED
  BY <1>6, <1>7

-----------------------------------------------------------------------------
(* The steps that move a call on and nothing else.                         *)

(* A step that leaves ports, registry, connections and counters alone is *)
(* one of control.                                                       *)
LEMMA ControlIs ==
  ASSUME IndInv, UNCHANGED <<ports, registry, connected, tally>>
  PROVE  Control
BY TypeShaped DEF Control, IndInv, Shaped, registry

(* The top frame of a step at pc. *)
LEMMA AtIs ==
  ASSUME NEW pc, At(pc)
  PROVE  stack # << >> /\ Top.pc = pc
BY DEF At

(* A call as it starts. *)
LEMMA FrameIs ==
  ASSUME NEW op \in Ops, NEW pc \in Points, NEW p \in Ports \cup {None}
  PROVE  /\ Frame(op, pc, p) \in FrameRecords
         /\ Frame(op, pc, p).op = op /\ Frame(op, pc, p).pc = pc
         /\ Frame(op, pc, p).port = p
<1> QED
  BY SerioAssumption DEF Frame, FrameRecords

(* serio_port_pump starts, outside any callback. *)
LEMMA PumpStep ==
  ASSUME IndInv, NEW p \in Ports, NEW budget \in 1 .. QueueCapacity,
         Pump(p, budget)
  PROVE  IndInv'
<1>1. PICK f : f = [Frame("pump", "pump", p) EXCEPT !.budget = budget]
  OBVIOUS
<1>2. Plain(f)
  BY FrameIs, <1>1 DEF Ops, Stages, Points, FrameRecords, Plain, Counted, Busy
<1>3. Held(f)
  BY <1>1 DEF Held, FrameHeld, Frame, Portless, Counted
<1>4. Idle /\ MayCall /\ stack' = Append(stack, f)
  BY <1>1, IdleCalls DEF Pump, Call
<1>5. Control
  BY ControlIs DEF Pump
<1> QED
  BY <1>2, <1>3, <1>4, <1>5, ControlCalls

(* serio_port_bind starts. *)
LEMMA BindStep ==
  ASSUME IndInv, NEW p \in Ports, NEW d \in Drivers, Bind(p, d)
  PROVE  IndInv'
<1>1. PICK f : f = [Frame("bind", "connect", p) EXCEPT !.driver = d]
  OBVIOUS
<1>2. Plain(f)
  BY FrameIs, <1>1 DEF Ops, Stages, Points, FrameRecords, Plain, Counted, Busy
<1>3. Held(f)
  BY <1>1 DEF Held, FrameHeld, Frame, Portless, Counted, CandidateHeld
<1>5. Control
  BY ControlIs DEF Bind
<1> QED
  BY <1>2, <1>3, <1>1, IdleCalls, <1>5, ControlCalls DEF Bind, Call, Frame

(* serio_port_unbind starts only with no callback in flight. *)
LEMMA UnbindStep ==
  ASSUME IndInv, NEW p \in Ports, Unbind(p)
  PROVE  IndInv'
<1>1. PICK f : f = Frame("unbind", "detach", p)
  OBVIOUS
<1>2. Plain(f)
  BY FrameIs, <1>1 DEF Ops, Stages, Points, Plain, Counted, Busy
<1>3. Held(f)
  BY <1>1 DEF Held, FrameHeld, Frame, Portless, Counted, Unbind, MayUnbind
<1>5. Control
  BY ControlIs DEF Unbind
<1> QED
  BY <1>2, <1>3, <1>1, <1>5, ControlCalls DEF Unbind, Call, Frame

(* serio_port_reconnect starts, outside any callback and with no loss *)
(* pending.                                                           *)
LEMMA ReconnectStep ==
  ASSUME IndInv, NEW p \in Ports, Reconnect(p)
  PROVE  IndInv'
<1>1. PICK f : f = Frame("unbind", "reconnect", p)
  OBVIOUS
<1>2. Plain(f)
  BY FrameIs, <1>1 DEF Ops, Stages, Points, Plain, Counted, Busy
<1>3. Held(f)
  BY <1>1 DEF Held, FrameHeld, Frame, Portless, Counted
<1>5. Control
  BY ControlIs DEF Reconnect
<1> QED
  BY <1>2, <1>3, <1>1, IdleCalls, <1>5, ControlCalls DEF Reconnect, Call, Frame

(* serio_port_unregister_subtree starts only with every member at rest. *)
LEMMA UnregisterSubtreeStep ==
  ASSUME IndInv, NEW p \in Ports, UnregisterSubtree(p)
  PROVE  IndInv'
<1>1. PICK f : f = [Frame("unregister_subtree", "shut", p) EXCEPT !.event = p]
  OBVIOUS
<1>2. Plain(f)
  BY FrameIs, <1>1 DEF Ops, Stages, Points, FrameRecords, Plain, Counted, Busy
<1>4. Held(f)
  BY <1>1, MembersAre
  DEF Held, FrameHeld, Frame, Portless, Counted, SubtreeHeld, UnregisterSubtree
<1>6. Control
  BY ControlIs DEF UnregisterSubtree
<1> QED
  BY <1>2, <1>4, <1>1, <1>6, ControlCalls DEF UnregisterSubtree, Call, Frame

(* serio_driver_unregister starts and marks the driver as withdrawing. *)
LEMMA UnregisterDriverStep ==
  ASSUME IndInv, NEW d \in Drivers, UnregisterDriver(d)
  PROVE  IndInv'
<1>1. PICK f : f = [Frame("unregister_driver", "examine", None) EXCEPT !.driver = d]
  OBVIOUS
<1>2. Plain(f)
  BY FrameIs, <1>1 DEF Ops, Stages, Points, FrameRecords, Plain, Counted, Busy
<1>3. Held(f)
  BY <1>1 DEF Held, FrameHeld, Frame, Portless, Counted, WithdrawalHeld
<1>5. Control
  BY TypeShaped DEF IndInv, Shaped, Control, UnregisterDriver, DriverRecords
<1> QED
  BY <1>2, <1>3, <1>1, <1>5, ControlCalls DEF UnregisterDriver, Call, Frame

(* Where a binding call goes once it is done with a port or a driver. *)
LEMMA Resting ==
  ASSUME NEW f, f.pc \in {"offer", "reattach", "attach"},
         f.op \notin {"unregister_subtree", "quiesce"},
         f.pc = "attach" => f.port \in Ports,
         f.pc = "offer" => f.driver \in Drivers,
         f.op = "unregister_driver" => f.driver \in Drivers
  PROVE  Held(f) /\ HeldNext(f)
BY DEF Held, HeldNext, FrameHeld, Portless, Counted, WithdrawalHeld

Rest ==
  \/ stack' = Front(stack)
  \/ \E f : /\ Plain(f) /\ f.op # "pump" /\ Held(f) /\ HeldNext(f)
            /\ stack' = Append(Front(stack), f)

Binding == {"attach", "connect", "open", "undo"}

(* Where a call goes on when the binding it asked for succeeded or failed. *)
LEMMA BindEnds ==
  ASSUME StackHeld, stack # << >>, Top.pc \in Binding,
         \/ Top.pc = "attach" /\ AttachDone(Top)
         \/ Top.pc # "attach" /\ (BindDone(Top) \/ BindFailed(Top))
  PROVE  Rest
<1>1. Top \in FrameRecords /\ Top.pc \in Stages(Top.op) /\ Held(Top)
  BY WaitingBelow
<1>2. PICK t \in FrameRecords : t = Top
  BY <1>1
<1>3. t.op \in {"publish", "bind", "register_driver", "unbind",
                "unregister_driver"}
  BY <1>1, <1>2 DEF FrameRecords, Ops, Stages, Binding
<1>4. /\ t.port \in Ports
      /\ t.op = "unregister_driver" => t.driver \in Drivers
      /\ t.op = "register_driver" /\ t.pc # "attach" => t.driver \in Drivers
  BY <1>1, <1>2 DEF Held, FrameHeld, Portless, Binding, WithdrawalHeld, CandidateHeld
<1>5. t.op = "register_driver" => t.pc # "attach"
  BY <1>1, <1>2 DEF Stages
<1>6. CASE stack' = Front(stack)
  BY <1>6 DEF Rest
<1>7. CASE stack' # Front(stack)
  <2>1. \/ t.op = "unregister_driver"
             /\ Become([t EXCEPT !.pc = "reattach", !.index = @ + 1])
        \/ t.op = "register_driver"
             /\ Become([t EXCEPT !.pc = "offer", !.index = @ + 1])
        \/ t.op \in {"publish", "unbind", "unregister_driver"}
             /\ Become([t EXCEPT !.pc = "attach", !.slot = @ + 1])
    BY <1>2, <1>3, <1>5, <1>7
      DEF AttachDone, BindDone, BindFailed, Return
  <2>2. PICK f \in FrameRecords :
          /\ stack' = Append(Front(stack), f) /\ f.op = t.op
          /\ f.port = t.port /\ f.driver = t.driver
          /\ \/ f.op = "unregister_driver" /\ f.pc = "reattach"
             \/ f.op = "register_driver" /\ f.pc = "offer"
             \/ f.op \in {"publish", "unbind", "unregister_driver"}
                  /\ f.pc = "attach"
    <3>1. CASE Become([t EXCEPT !.pc = "reattach", !.index = @ + 1])
                 /\ t.op = "unregister_driver"
      <4>1. PICK f : f = [t EXCEPT !.pc = "reattach", !.index = @ + 1]
        OBVIOUS
      <4>2. PICK e : e = [t EXCEPT !.pc = "reattach"]
        OBVIOUS
      <4>3. e \in FrameRecords /\ f = [e EXCEPT !.index = @ + 1]
        BY <4>1, <4>2 DEF FrameRecords, Points
      <4>4. /\ f \in FrameRecords /\ f.op = t.op /\ f.port = t.port
            /\ f.driver = t.driver /\ f.pc = "reattach"
        BY <4>1, <4>3 DEF FrameRecords
      <4> QED
        BY <3>1, <4>1, <4>4 DEF Become
    <3>2. CASE Become([t EXCEPT !.pc = "offer", !.index = @ + 1])
                 /\ t.op = "register_driver"
      <4>1. PICK f : f = [t EXCEPT !.pc = "offer", !.index = @ + 1]
        OBVIOUS
      <4>2. PICK e : e = [t EXCEPT !.pc = "offer"]
        OBVIOUS
      <4>3. e \in FrameRecords /\ f = [e EXCEPT !.index = @ + 1]
        BY <4>1, <4>2 DEF FrameRecords, Points
      <4>4. /\ f \in FrameRecords /\ f.op = t.op /\ f.port = t.port
            /\ f.driver = t.driver /\ f.pc = "offer"
        BY <4>1, <4>3 DEF FrameRecords
      <4> QED
        BY <3>2, <4>1, <4>4 DEF Become
    <3>3. CASE Become([t EXCEPT !.pc = "attach", !.slot = @ + 1])
                 /\ t.op \in {"publish", "unbind", "unregister_driver"}
      <4>1. PICK f : f = [t EXCEPT !.pc = "attach", !.slot = @ + 1]
        OBVIOUS
      <4>2. PICK e : e = [t EXCEPT !.pc = "attach"]
        OBVIOUS
      <4>3. e \in FrameRecords /\ f = [e EXCEPT !.slot = @ + 1]
        BY <4>1, <4>2 DEF FrameRecords, Points
      <4>4. /\ f \in FrameRecords /\ f.op = t.op /\ f.port = t.port
            /\ f.driver = t.driver /\ f.pc = "attach"
        BY <4>1, <4>3 DEF FrameRecords
      <4> QED
        BY <3>3, <4>1, <4>4 DEF Become
    <3> QED
      BY <2>1, <3>1, <3>2, <3>3
  <2>3. Plain(f)
    BY <2>2 DEF Plain, Stages, Counted, Busy
  <2> QED
    BY <2>2, <2>3, <1>4, <1>5, Resting DEF Rest
<1> QED
  BY <1>6, <1>7

(* A step of control to any of those places keeps the invariant. *)
LEMMA RestKeeps ==
  ASSUME IndInv, Control, stack # << >>,
         Top.pc \notin Counted, Top.pc \notin Busy, Rest
  PROVE  IndInv'
BY ControlTops DEF Rest

(* attach_first_driver tries the next slot, or gives up. *)
LEMMA AttachStep ==
  ASSUME IndInv, Attach
  PROVE  IndInv'
<1>1. stack # << >> /\ Top.pc = "attach"
  BY AtIs DEF Attach
<1>2. Control
  BY ControlIs DEF Attach
<1>3. Top \in FrameRecords /\ Top.pc \in Stages(Top.op) /\ Held(Top)
  BY <1>1, AtTop
<1>4. CASE AttachDone(Top)
  BY <1>1, <1>4, BindEnds, <1>2, RestKeeps DEF IndInv, Binding, Counted, Busy
<1>5. CASE ~AttachDone(Top)
  <2>1. PICK t \in FrameRecords : t = Top
    BY <1>3
  <2>2. PICK W \in SUBSET (t.slot .. Len(driverSlots)) :
          /\ W # {}
          /\ Become([t EXCEPT !.pc = "connect", !.slot = Lowest(W)])
    BY <1>5, <2>1 DEF Attach
  <2>3. /\ driverSlots \in Seq(Drivers \cup {None})
        /\ Len(driverSlots) \in Nat /\ DOMAIN driverSlots = 1 .. Len(driverSlots)
    BY DEF IndInv, TypeOK
  <2>4. t.slot \in Nat \ {0}
    BY DEF FrameRecords
  <2>6. PICK k \in W : k = Lowest(W)
    BY <2>2, <2>3, <2>4, LowestIn
  <2>7. k \in DOMAIN driverSlots /\ k \in Nat \ {0}
    BY <2>3, <2>4, <2>6
  <2>8. PICK f : f = [t EXCEPT !.pc = "connect", !.slot = k]
    OBVIOUS
  <2>9. /\ f \in FrameRecords /\ f.op = t.op /\ f.pc = "connect"
        /\ f.slot = k /\ f.port = t.port /\ f.driver = t.driver
    BY <2>7, <2>8 DEF FrameRecords, Points
  <2>10. t.op \in {"publish", "unbind", "unregister_driver"}
    BY <1>1, <1>3, <2>1 DEF FrameRecords, Ops, Stages
  <2>12. Plain(f)
    BY <2>9, <2>10 DEF Plain, Stages, Counted, Busy
  <2>13. Held(f)
    BY <2>7, <2>9, <2>10, <1>1, <1>3, <2>1
    DEF Held, FrameHeld, Portless, Counted, CandidateHeld, WithdrawalHeld
  <2>14. stack' = Append(Front(stack), f)
    BY <2>2, <2>6, <2>8 DEF Become
  <2> QED
    BY <1>1, <1>2, <2>12, <2>13, <2>14, <2>9, <2>10, ControlTops DEF Counted, Busy
<1> QED
  BY <1>4, <1>5

(* The driver's reconnect callback returns to serio_port_reconnect. *)
LEMMA ReconnectReturnStep ==
  ASSUME IndInv, ReconnectReturn
  PROVE  IndInv'
<1>1. stack # << >> /\ Top.pc = "reconnect"
  BY AtIs DEF ReconnectReturn
<1>2. Control
  BY ControlIs DEF ReconnectReturn
<1>4. Top.pc \notin Counted /\ Top.pc \notin Busy
  BY <1>1 DEF Counted, Busy
<1>5. CASE Return
  BY <1>1, <1>2, <1>4, <1>5, ControlTops DEF Return
<1>6. CASE MayUnbind(Top.port) /\ Goto("detach")
  BY <1>1, AtTop, <1>6, <1>2, <1>4, ControlTops
  DEF FrameRecords, Points, Ops, Stages, Held, FrameHeld, Portless, Plain, Counted,
      Busy, MayUnbind, Goto, Become
<1> QED
  BY <1>5, <1>6 DEF ReconnectReturn

(* serio_driver_register offers the driver to the next port. *)
LEMMA OfferStep ==
  ASSUME IndInv, Offer
  PROVE  IndInv'
<1>1. stack # << >> /\ Top.pc = "offer"
  BY AtIs DEF Offer
<1>2. Control
  BY ControlIs DEF Offer
<1>3. Top \in FrameRecords /\ Top.pc \in Stages(Top.op) /\ Held(Top)
  BY <1>1, AtTop
<1>4. Top.pc \notin Counted /\ Top.pc \notin Busy
  BY <1>1 DEF Counted, Busy
<1>5. CASE Return
  BY <1>1, <1>2, <1>4, <1>5, ControlTops DEF Return
<1>6. CASE ~Return
  <2>1. PICK t \in FrameRecords : t = Top
    BY <1>3
  <2>2. PICK W : /\ W = {i \in t.index .. Len(portSlots) :
                      LET p == portSlots[i]
                      IN /\ p # None
                         /\ ports[p].phase = "active" /\ ports[p].driver = None
                         /\ ~ports[p].manual_bind /\ <<t.driver, p>> \in Matches}
                 /\ W # {}
                 /\ Become([t EXCEPT !.pc = "connect", !.index = Lowest(W),
                                     !.port = portSlots[Lowest(W)]])
    BY <1>6, <2>1 DEF Offer
  <2>3. /\ portSlots \in Seq(Ports \cup {None})
        /\ Len(portSlots) \in Nat /\ DOMAIN portSlots = 1 .. Len(portSlots)
    BY DEF IndInv, TypeOK
  <2>4. t.index \in Nat \ {0}
    BY DEF FrameRecords
  <2>5. W \in SUBSET Nat
    BY <2>2, <2>3, <2>4
  <2>6. PICK k \in W : k = Lowest(W)
    BY <2>2, <2>5, LowestIn
  <2>7. k \in DOMAIN portSlots /\ k \in Nat \ {0} /\ portSlots[k] # None
    <3>1. k \in t.index .. Len(portSlots) /\ portSlots[k] # None
      BY <2>2, <2>6, Zenon
    <3> QED
      BY <2>3, <2>4, <3>1
  <2>8. PICK p \in Ports : p = portSlots[k]
    BY <2>3, <2>7
  <2>9. PICK f : f = [t EXCEPT !.pc = "connect", !.index = k, !.port = p]
    OBVIOUS
  <2>10. /\ f \in FrameRecords /\ f.op = t.op /\ f.pc = "connect"
         /\ f.port = p /\ f.driver = t.driver
    BY <2>7, <2>9 DEF FrameRecords, Points
  <2>11. t.op = "register_driver"
    BY <1>1, <1>3, <2>1 DEF FrameRecords, Ops, Stages
  <2>13. Plain(f)
    BY <2>10, <2>11 DEF Plain, Stages, Counted, Busy
  <2>14. Held(f)
    BY <2>10, <2>11, <1>1, <1>3, <2>1
    DEF Held, FrameHeld, Portless, Counted, CandidateHeld
  <2> QED
    BY <1>1, <1>2, <1>4, <2>10, <2>11, <2>13, <2>14, <2>2, <2>6, <2>8, <2>9, ControlTops
    DEF Become
<1> QED
  BY <1>5, <1>6

(* serio_driver_unregister offers the ports without a driver to the *)
(* drivers that remain.                                             *)
LEMMA ReattachStep ==
  ASSUME IndInv, Reattach
  PROVE  IndInv'
<1>1. stack # << >> /\ Top.pc = "reattach"
  BY AtIs DEF Reattach
<1>2. Control
  BY ControlIs DEF Reattach
<1>3. Top \in FrameRecords /\ Top.pc \in Stages(Top.op) /\ Held(Top)
  BY <1>1, AtTop
<1>4. Top.pc \notin Counted /\ Top.pc \notin Busy
  BY <1>1 DEF Counted, Busy
<1>5. CASE Return
  BY <1>1, <1>2, <1>4, <1>5, ControlTops DEF Return
<1>6. CASE ~Return
  <2>1. PICK t \in FrameRecords : t = Top
    BY <1>3
  <2>2. PICK W : /\ W = {i \in t.index .. Len(portSlots) :
                      LET p == portSlots[i]
                      IN p # None /\ ports[p].phase = "active" /\ ports[p].driver = None}
                 /\ W # {}
                 /\ Become([t EXCEPT !.pc = "attach", !.slot = 1,
                        !.index = Lowest(W), !.port = portSlots[Lowest(W)]])
    BY <1>6, <2>1 DEF Reattach
  <2>3. /\ portSlots \in Seq(Ports \cup {None})
        /\ Len(portSlots) \in Nat /\ DOMAIN portSlots = 1 .. Len(portSlots)
    BY DEF IndInv, TypeOK
  <2>4. t.index \in Nat \ {0}
    BY DEF FrameRecords
  <2>5. W \in SUBSET Nat
    BY <2>2, <2>3, <2>4
  <2>6. PICK k \in W : k = Lowest(W)
    BY <2>2, <2>5, LowestIn
  <2>7. k \in DOMAIN portSlots /\ k \in Nat \ {0} /\ portSlots[k] # None
    <3>1. k \in t.index .. Len(portSlots) /\ portSlots[k] # None
      BY <2>2, <2>6, Zenon
    <3> QED
      BY <2>3, <2>4, <3>1
  <2>8. PICK p \in Ports : p = portSlots[k]
    BY <2>3, <2>7
  <2>9. PICK f : f = [t EXCEPT !.pc = "attach", !.slot = 1, !.index = k, !.port = p]
    OBVIOUS
  <2>10. /\ f \in FrameRecords /\ f.op = t.op /\ f.pc = "attach"
         /\ f.port = p /\ f.driver = t.driver
    <3>1. PICK e : e = [t EXCEPT !.pc = "attach", !.slot = 1]
      OBVIOUS
    <3>2. 1 \in Nat \ {0} /\ "attach" \in Points
      BY DEF Points
    <3>3. e \in FrameRecords
      BY <3>1, <3>2 DEF FrameRecords
    <3> QED
      BY <2>7, <2>9, <3>3, <3>1 DEF FrameRecords
  <2>11. t.op = "unregister_driver"
    BY <1>1, <1>3, <2>1 DEF FrameRecords, Ops, Stages
  <2>13. Plain(f)
    BY <2>10, <2>11 DEF Plain, Stages, Counted, Busy
  <2>14. Held(f)
    BY <2>10, <2>11, <1>1, <1>3, <2>1, Resting DEF Held, FrameHeld, WithdrawalHeld
  <2> QED
    BY <1>1, <1>2, <1>4, <2>10, <2>11, <2>13, <2>14, <2>2, <2>6, <2>8, <2>9, ControlTops
    DEF Become
<1> QED
  BY <1>5, <1>6

(* The slots show every port a driver is bound to. *)
LEMMA BoundAre ==
  ASSUME IndInv, NEW d \in Drivers, NEW p \in Ports, ports[p].driver = d
  PROVE  \E i \in Bound(d) : portSlots[i] = p
<1>1. d # None /\ p # None
  BY SerioAssumption
<1>3. PICK i \in DOMAIN portSlots : portSlots[i] = p
  BY <1>1, GoodNow DEF IndInv, SlotsHeld, Good, LifeHeld
<1> QED
  BY <1>1, <1>3 DEF Bound

(* serio_driver_unregister backs out if a port of the driver is in use. *)
LEMMA ExamineStep ==
  ASSUME IndInv, Examine
  PROVE  IndInv'
<1>1. stack # << >> /\ Top.pc = "examine"
  BY AtIs DEF Examine
<1>2. Top \in FrameRecords /\ Top.pc \in Stages(Top.op) /\ Held(Top)
  BY <1>1, AtTop
<1>3. PICK t \in FrameRecords : t = Top
  BY <1>2
<1>4. t.op = "unregister_driver"
  BY <1>1, <1>2, <1>3 DEF FrameRecords, Ops, Stages
<1>5. t.driver \in Drivers
  BY <1>2, <1>3, <1>4 DEF Held, FrameHeld, WithdrawalHeld
<1>6. Top.pc \notin Counted /\ Top.pc \notin Busy
  BY <1>1 DEF Counted, Busy
<1>7. drivers \in [Drivers -> DriverRecords]
  BY TypeShaped DEF IndInv, Shaped
<1>8. Control
  <2>1. /\ UNCHANGED <<ports, portSlots, driverSlots, connected, tally>>
        /\ \/ drivers' = drivers
           \/ drivers' = [drivers EXCEPT ![t.driver].withdrawing = FALSE]
    BY <1>3 DEF Examine
  <2>2. PICK e : e = [drivers[t.driver] EXCEPT !.withdrawing = FALSE]
    OBVIOUS
  <2>3. e \in DriverRecords /\ e.registered = drivers[t.driver].registered
    BY <1>5, <1>7, <2>2 DEF DriverRecords
  <2>4. drivers' = drivers \/ drivers' = [drivers EXCEPT ![t.driver] = e]
    BY <2>1, <2>2
  <2>5. /\ drivers' \in [Drivers -> DriverRecords]
        /\ \A d \in Drivers : drivers'[d].registered = drivers[d].registered
    BY <1>5, <1>7, <2>3, <2>4
  <2> QED
    BY <2>1, <2>5 DEF Control
<1>9. CASE \E i \in Bound(Top.driver) : ports[portSlots[i]].in_flight # 0
  BY <1>1, <1>6, <1>8, <1>9, ControlTops DEF Examine, Return
<1>10. CASE ~ \E i \in Bound(Top.driver) : ports[portSlots[i]].in_flight # 0
  BY <1>4, <1>3, <1>5, <1>10, BoundAre, <1>1, <1>6, <1>8, ControlTops
  DEF FrameRecords, Points, Plain, Stages, Counted, Busy, WithdrawalHeld, Held,
      FrameHeld, Portless, Examine, Goto, Become
<1> QED
  BY <1>9, <1>10

(* serio_driver_unregister takes the driver from the next port, or removes *)
(* it.                                                                     *)
LEMMA DetachBoundStep ==
  ASSUME IndInv, DetachBound
  PROVE  IndInv'
<1>1. stack # << >> /\ Top.pc = "detaching"
  BY AtIs DEF DetachBound
<1>2. Top \in FrameRecords /\ Top.pc \in Stages(Top.op) /\ Held(Top)
  BY <1>1, AtTop
<1>3. PICK t \in FrameRecords : t = Top
  BY <1>2
<1>4. t.op = "unregister_driver"
  BY <1>1, <1>2, <1>3 DEF FrameRecords, Ops, Stages
<1>5. /\ t.driver \in Drivers
      /\ \A p \in Ports : ports[p].driver = t.driver => ports[p].in_flight = 0
  BY <1>1, <1>2, <1>3, <1>4 DEF Held, FrameHeld, WithdrawalHeld
<1>6. Top.pc \notin Counted /\ Top.pc \notin Busy
  BY <1>1 DEF Counted, Busy
<1>7. /\ portSlots \in Seq(Ports \cup {None}) /\ Len(portSlots) \in Nat
      /\ DOMAIN portSlots = 1 .. Len(portSlots)
      /\ driverSlots \in Seq(Drivers \cup {None})
      /\ drivers \in [Drivers -> DriverRecords]
  BY TypeShaped DEF IndInv, Shaped
<1>8. CASE Bound(Top.driver) # {}
  <2>2. Control
    BY <1>8, ControlIs DEF DetachBound, registry
  <2>3. PICK k \in Bound(Top.driver) : k = Lowest(Bound(Top.driver))
    <3>1. Bound(Top.driver) \in SUBSET Nat
      BY <1>7 DEF Bound
    <3> QED
      BY <1>8, <3>1, LowestIn
  <2>4. PICK p \in Ports : p = portSlots[k] /\ ports[p].driver = t.driver
    <3>1. /\ k \in DOMAIN portSlots /\ portSlots[k] # None
          /\ ports[portSlots[k]].driver = t.driver
      BY <1>3, <2>3, Zenon DEF Bound
    <3> QED
      BY <1>7, <3>1
  <2>5. PICK f : f = [t EXCEPT !.pc = "detach", !.port = p]
    OBVIOUS
  <2>6. /\ f \in FrameRecords /\ f.op = t.op /\ f.pc = "detach"
        /\ f.driver = t.driver /\ f.port = p
    BY <2>5 DEF FrameRecords, Points
  <2>7. Plain(f)
    BY <1>4, <2>6 DEF Plain, Stages, Counted, Busy
  <2>9. Held(f)
    BY <1>4, <1>5, <2>4, <2>6 DEF Held, FrameHeld, Portless, Counted, WithdrawalHeld
  <2> QED
    BY <1>1, <1>4, <1>6, <2>2, <2>6, <2>7, <2>9, <1>3, <1>8, <2>3, <2>4, <2>5,
       ControlTops DEF DetachBound, Become
<1>9. CASE Bound(Top.driver) = {}
  <2>1. /\ UNCHANGED <<ports, portSlots, poisoned, connected, tally>>
        /\ drivers' = [drivers EXCEPT ![t.driver] = Driver]
        /\ driverSlots' = [i \in DOMAIN driverSlots |->
                             IF driverSlots[i] = t.driver THEN None ELSE driverSlots[i]]
        /\ stack' = Append(Front(stack), [t EXCEPT !.pc = "reattach", !.index = 1])
    BY <1>3, <1>9 DEF DetachBound, Become
  <2>2. \A p \in Ports : ports[p].driver # t.driver
    BY <1>3, <1>5, <1>9, BoundAre
  <2>3. /\ drivers' \in [Drivers -> DriverRecords]
        /\ ~drivers'[t.driver].registered
        /\ \A d \in Drivers : d # t.driver => drivers'[d] = drivers[d]
    BY <1>5, <1>7, <2>1 DEF DriverRecords, Driver
  <2>4. /\ driverSlots' \in Seq(Drivers \cup {None})
        /\ DOMAIN driverSlots' = DOMAIN driverSlots
        /\ \A i \in DOMAIN driverSlots :
             driverSlots'[i] = IF driverSlots[i] = t.driver THEN None ELSE driverSlots[i]
    BY <1>7, <2>1
  <2>5. Shaped'
    BY <2>1, <2>3, <2>4, StandingNow DEF Standing, Shaped
  <2>6. PortsHeld' /\ NoOrphans'
    BY <2>1 DEF IndInv, PortsHeld, NoOrphans
  <2>7. SlotsHeld'
    <3>3. \A p \in Ports : ports'[p].driver # None =>
                             drivers'[ports'[p].driver].registered
      BY <2>1, <2>2, <2>3 DEF IndInv, SlotsHeld, TypeOK, PortRecords
    <3> QED
      BY <2>1, <1>5, <2>3, <2>4, SerioAssumption, <3>3 DEF IndInv, SlotsHeld
  <2>8. PICK f : f = [t EXCEPT !.pc = "reattach", !.index = 1]
    OBVIOUS
  <2>9. /\ f \in FrameRecords /\ f.op = t.op /\ f.pc = "reattach"
        /\ f.driver = t.driver
    <3>1. 1 \in Nat \ {0} /\ "reattach" \in Points
      BY DEF Points
    <3> QED
      BY <2>8, <3>1 DEF FrameRecords
  <2>10. HeldNext(f)
    BY <1>4, <1>5, <2>9, Resting
  <2>11. PICK base : base = Front(stack)
    OBVIOUS
  <2>12. /\ Waiting(base) /\ Len(base) < MaxNesting /\ Len(base) <= MaxNesting
         /\ \A p \in Ports :
              /\ Inflight(base, p) = ports[p].in_flight - IF Flying(Top, p) THEN 1 ELSE 0
              /\ Owns(p)
    BY <1>1, <1>6, <2>11, AtTop
  <2>13. Under(base) /\ Fit(base, f)
    BY <1>4, <2>1, <2>9, <2>12 DEF Under, Undisturbed, Fit, Stages
  <2>14. \A p \in Ports : ports'[p].in_flight =
                            Inflight(base, p) + IF Flying(f, p) THEN 1 ELSE 0
    <3>1. \A p \in Ports : ~Flying(Top, p) /\ ~Flying(f, p)
      BY <1>6, <2>9 DEF Flying, Counted
    <3>2. \A p \in Ports : ports[p].in_flight \in Nat /\ ports'[p] = ports[p]
      BY <2>1, SerioAssumption DEF IndInv, TypeOK, PortRecords
    <3> QED
      BY <2>12, <3>1, <3>2
  <2>15. \A p \in Ports : Owns(p)'
    BY <2>1, <2>12 DEF Owns
  <2> QED
    BY <2>1, <2>5, <2>6, <2>7, <2>8, <2>10, <2>11, <2>13, <2>14, <2>15, Goes
      DEF Standing
<1> QED
  BY <1>8, <1>9

-----------------------------------------------------------------------------
(* The steps that change ports.                                            *)

(* What the frames that stay need: ports undisturbed, or without a *)
(* callback of theirs.                                             *)
LEMMA UnderIs ==
  ASSUME NEW base, Waiting(base), Len(base) <= MaxNesting,
         \A p \in Ports : Undisturbed(p) \/ Inflight(base, p) = 0
  PROVE  Under(base)
<1>2. ASSUME NEW i \in DOMAIN base
      PROVE  Undisturbed(base[i].port)
  BY FlightsFinite DEF Waiting, Held, FrameHeld, Counted, Portless, Flying, Inflight
<1> QED
  BY <1>2 DEF Under

(* The call on top goes on or returns. *)
LEMMA TopMoves ==
  ASSUME IndInv, stack # << >>, Standing',
         \A p \in Ports :
           /\ ports'[p].in_flight = ports[p].in_flight - IF Flying(Top, p) THEN 1 ELSE 0
           /\ Undisturbed(p) \/ ports'[p].in_flight = 0,
         \/ stack' = Front(stack) /\ \A p \in Ports : Owns(p)'
         \/ \E f : /\ f \in FrameRecords /\ f.pc \in Stages(f.op)
                   /\ f.pc \notin Counted /\ HeldNext(f)
                   /\ f.op = "pump" => Top.op = "pump"
                   /\ stack' = Append(Front(stack), f)
                   /\ \A p \in Ports : (p = f.port /\ f.pc \in Busy) \/ Owns(p)'
  PROVE  IndInv'
<1>1. PICK base : base = Front(stack)
  OBVIOUS
<1>2. /\ Waiting(base) /\ Len(base) < MaxNesting /\ Len(base) <= MaxNesting
      /\ Top.op = "pump" => base = << >>
      /\ \A p \in Ports :
           Inflight(base, p) = ports[p].in_flight - IF Flying(Top, p) THEN 1 ELSE 0
  BY <1>1, AtTop
<1>3. \A p \in Ports : ports'[p].in_flight = Inflight(base, p)
                         /\ ports'[p].in_flight \in Nat
  BY SerioAssumption, <1>2 DEF Standing, Shaped, PortRecords
<1>4. Under(base)
  BY <1>2, <1>3, UnderIs
<1>5. CASE stack' = Front(stack) /\ \A p \in Ports : Owns(p)'
  BY <1>1, <1>3, <1>4, <1>5, Returns
<1>6. ASSUME NEW f, f \in FrameRecords, f.pc \in Stages(f.op),
             f.pc \notin Counted, HeldNext(f), f.op = "pump" => Top.op = "pump",
             stack' = Append(Front(stack), f),
             \A p \in Ports : (p = f.port /\ f.pc \in Busy) \/ Owns(p)'
      PROVE  IndInv'
  BY <1>2, <1>6, <1>3, <1>1, <1>4, Goes DEF Fit, Flying
<1> QED
  BY <1>5, <1>6

(* A call starts, or is answered at once. *)
LEMMA CallMoves ==
  ASSUME IndInv, MayCall, Standing', \A p \in Ports : Owns(p)',
         \A p \in Ports : Undisturbed(p) \/ ports[p].in_flight = 0,
         \/ /\ stack' = stack
            /\ \A p \in Ports : ports'[p].in_flight = ports[p].in_flight
         \/ \E f : /\ f \in FrameRecords /\ f.pc \in Stages(f.op)
                   /\ HeldNext(f)
                   /\ f.op = "pump" => Idle
                   /\ stack' = Append(stack, f)
                   /\ \A p \in Ports : ports'[p].in_flight =
                        ports[p].in_flight + IF Flying(f, p) THEN 1 ELSE 0
  PROVE  IndInv'
<1>1. /\ Waiting(stack) /\ Len(stack) < MaxNesting /\ Len(stack) <= MaxNesting
      /\ \A p \in Ports : ports[p].in_flight = Inflight(stack, p)
  BY AtCall
<1>2. Under(stack)
  BY <1>1, UnderIs
<1>3. CASE /\ stack' = stack
           /\ \A p \in Ports : ports'[p].in_flight = ports[p].in_flight
  BY <1>1, <1>2, <1>3, Returns
<1>4. ASSUME NEW f, f \in FrameRecords, f.pc \in Stages(f.op), HeldNext(f),
             f.op = "pump" => Idle, stack' = Append(stack, f),
             \A p \in Ports : ports'[p].in_flight =
               ports[p].in_flight + IF Flying(f, p) THEN 1 ELSE 0
      PROVE  IndInv'
  BY <1>1, <1>4, <1>2, Goes DEF Fit, Idle
<1> QED
  BY <1>3, <1>4

(* A frame moved to another point of its call keeps its other fields. *)
LEMMA MovesTo ==
  ASSUME NEW t \in FrameRecords, NEW pc \in Points, NEW f,
         f = [t EXCEPT !.pc = pc]
  PROVE  /\ f \in FrameRecords /\ f.pc = pc /\ f.op = t.op /\ f.port = t.port
         /\ f.driver = t.driver /\ f.slot = t.slot /\ f.event = t.event
         /\ f.budget = t.budget
BY DEF FrameRecords

(* A call that binds. *)
Binders == {"connect", "publish", "open", "undo"}

(* What a call in the middle of bind_driver has. *)
LEMMA BinderIs ==
  ASSUME NEW t \in FrameRecords, t.pc \in Stages(t.op), t.pc \in Binders, Held(t)
  PROVE  /\ t.op \in {"publish", "bind", "register_driver", "unbind",
                      "unregister_driver"}
         /\ t.port \in Ports /\ CandidateHeld(t, driverSlots)
         /\ t.op = "unregister_driver" => t.driver \in Drivers
         /\ t.pc = "publish" =>
              PublishHeld(t, ports, drivers, driverSlots, connected)
         /\ t.pc = "open" => ports[t.port].in_flight = 0
         /\ t.pc = "undo" => ports[t.port].driver = None
<1> QED
  BY DEF Held, FrameHeld, Portless, Binders, WithdrawalHeld, FrameRecords, Ops, Stages

(* What a call in the middle of bind_driver must have. *)
LEMMA BinderHeld ==
  ASSUME NEW f, f.pc \in Binders,
         f.op \in {"publish", "bind", "register_driver", "unbind",
                   "unregister_driver"},
         f.port \in Ports, CandidateHeld(f, driverSlots'),
         f.op = "unregister_driver" => f.driver \in Drivers,
         f.pc = "publish" =>
           PublishHeld(f, ports', drivers', driverSlots', connected'),
         f.pc = "open" => ports'[f.port].in_flight = 0,
         f.pc = "undo" => ports'[f.port].driver = None
  PROVE  /\ HeldNext(f) /\ f.pc \in Stages(f.op) /\ f.pc \notin Counted
         /\ f.op # "pump"
<1> QED
  BY DEF Stages, Counted, Binders, HeldNext, FrameHeld, Portless, WithdrawalHeld

(* A port without a driver has no callback in flight. *)
LEMMA UnboundIdle ==
  ASSUME IndInv, NEW p \in Ports, ports[p].driver = None
  PROVE  ports[p].in_flight = 0
<1>1. ASSUME NEW i \in DOMAIN stack
      PROVE  ~Flying(stack[i], p)
  BY SerioAssumption DEF IndInv, StackHeld, FrameHeld, FlightHeld, Flying
<1> QED
  BY <1>1, CountsAll DEF IndInv

(* The driver's connect callback accepts or refuses. *)
LEMMA ConnectStep ==
  ASSUME IndInv, Connect
  PROVE  IndInv'
<1>1. stack # << >> /\ Top.pc = "connect"
  BY AtIs DEF Connect
<1>2. /\ Top \in FrameRecords /\ Top.pc \in Stages(Top.op) /\ Held(Top)
      /\ \A p \in Ports : Owns(p)
  BY <1>1, AtTop DEF Busy
<1>3. PICK t \in FrameRecords : t = Top
  BY <1>2
<1>4. CASE BindFailed(Top) /\ UNCHANGED connected
  BY <1>4, ControlIs, <1>1, BindEnds, RestKeeps
  DEF Connect, IndInv, Binding, Counted, Busy
<1>5. CASE ~(BindFailed(Top) /\ UNCHANGED connected)
  <2>1. PICK d : d = CandidateIn(t, driverSlots)
    OBVIOUS
  <2>3. PICK p : p = t.port
    OBVIOUS
  <2>4. /\ ports[p].phase = "active" /\ ports[p].driver = None
        /\ Usable(d) /\ drivers[d].registered
        /\ ports[p].binding_generation < BindingMax
        /\ connected' = [connected EXCEPT ![p] = d]
        /\ Goto("publish")
        /\ UNCHANGED <<ports, registry, tally>>
    BY <1>3, <1>5, <2>1, <2>3 DEF Connect, Candidate, CandidateIn
  <2>5. /\ t.op \in {"publish", "bind", "register_driver", "unbind",
                     "unregister_driver"}
        /\ t.port \in Ports /\ CandidateHeld(t, driverSlots)
        /\ t.op = "unregister_driver" => t.driver \in Drivers
    BY <1>1, <1>2, <1>3, BinderIs DEF Binders
  <2>6. d \in Drivers
    BY <2>1, <2>5, <2>4 DEF IndInv, TypeOK, CandidateIn, CandidateHeld, Usable
  <2>8. /\ connected' \in [Ports -> Drivers \cup {None, Abandoned}]
        /\ connected'[p] = d
        /\ \A q \in Ports : q # p => connected'[q] = connected[q]
    BY <2>3, <2>4, <2>5, <2>6 DEF IndInv, TypeOK
  <2>9. Standing'
    <3>1. ports' = [ports EXCEPT ![p] = ports[p]] /\ tally' = [tally EXCEPT ![p] = tally[p]]
      BY <2>3, <2>4, <2>5 DEF IndInv, TypeOK, PortsHeld
    <3>2. Good(ports[p], tally[p], connected'[p])
      BY <2>3, <2>4, <2>5, GoodNow DEF Good, LifeHeld
    <3>3. Kin(ports[p], ports[p])
      BY DEF Kin
    <3> QED
      BY <2>3, <2>4, <2>5, <2>8, <3>1, <3>2, <3>3, OnePort, ZenonT(60) DEF Upright
  <2>10. PICK f : f = [t EXCEPT !.pc = "publish"]
    OBVIOUS
  <2>11. /\ f \in FrameRecords /\ f.pc = "publish" /\ f.op = t.op
         /\ f.port = t.port /\ f.driver = t.driver /\ f.slot = t.slot
    BY <2>10, MovesTo DEF Points
  <2>12. UNCHANGED <<ports, drivers, driverSlots>>
    BY <2>4 DEF registry
  <2>13. CandidateHeld(f, driverSlots') /\ CandidateIn(f, driverSlots') = d
    BY <2>1, <2>5, <2>11, <2>12 DEF CandidateHeld, CandidateIn
  <2>15. /\ HeldNext(f) /\ f.pc \in Stages(f.op) /\ f.pc \notin Counted
         /\ f.op # "pump"
    BY <2>5, <2>11, <2>13, <2>3, <2>4, <2>6, <2>8, <2>12, BinderHeld
    DEF Binders, PublishHeld
  <2>17. \A q \in Ports :
           /\ ports'[q].in_flight = ports[q].in_flight - IF Flying(Top, q) THEN 1 ELSE 0
           /\ Undisturbed(q)
    <3>1. \A q \in Ports : ~Flying(Top, q) /\ ports[q].in_flight \in Nat
      BY <1>1, SerioAssumption DEF Flying, Counted, IndInv, TypeOK, PortRecords
    <3> QED
      BY <2>12, <3>1 DEF Undisturbed
  <2>18. stack' = Append(Front(stack), f)
    BY <1>3, <2>4, <2>10 DEF Goto, Become
  <2> QED
    BY <1>1, <2>9, <2>11, <2>15, <1>2, <2>3, <2>8, <2>12, <2>17, <2>18, TopMoves
    DEF Owns, Busy
<1> QED
  BY <1>4, <1>5

(* A call that is in no callback changes one port that has none in flight, *)
(* or leaves what callbacks rely on.                                       *)
LEMMA OneCount ==
  ASSUME IndInv, stack # << >>, Top.pc \notin Counted, NEW p \in Ports,
         \A q \in Ports : q # p => ports'[q] = ports[q],
         ports'[p].in_flight = ports[p].in_flight,
         Undisturbed(p) \/ ports[p].in_flight = 0
  PROVE  \A q \in Ports :
           /\ ports'[q].in_flight = ports[q].in_flight - IF Flying(Top, q) THEN 1 ELSE 0
           /\ Undisturbed(q) \/ ports'[q].in_flight = 0
<1>1. \A q \in Ports : ~Flying(Top, q)
  BY DEF Flying
<1>2. \A q \in Ports : ports[q].in_flight \in Nat
  BY SerioAssumption DEF IndInv, TypeOK, PortRecords
<1>3. \A q \in Ports : q # p => Undisturbed(q)
  BY DEF Undisturbed
<1> QED
  BY <1>1, <1>2, <1>3

(* bind_driver publishes the binding under a new generation, or gives up. *)
LEMMA PublishStep ==
  ASSUME IndInv, Publish
  PROVE  IndInv'
<1>1. stack # << >> /\ Top.pc = "publish"
  BY AtIs DEF Publish
<1>2. /\ Top \in FrameRecords /\ Top.pc \in Stages(Top.op) /\ Held(Top)
      /\ \A q \in Ports : q = Top.port \/ Owns(q)
  BY <1>1, AtTop
<1>3. PICK t \in FrameRecords : t = Top
  BY <1>2
<1>4. PICK d : d = CandidateIn(t, driverSlots)
  OBVIOUS
<1>5. PICK p \in Ports : p = t.port
  BY <1>1, <1>2, <1>3, BinderIs DEF Binders
<1>6. /\ t.op \in {"publish", "bind", "register_driver", "unbind",
                   "unregister_driver"}
      /\ CandidateHeld(t, driverSlots)
      /\ t.op = "unregister_driver" => t.driver \in Drivers
      /\ PublishHeld(t, ports, drivers, driverSlots, connected)
  BY <1>1, <1>2, <1>3, BinderIs DEF Binders
<1>7. /\ d \in Drivers /\ drivers[d].registered /\ connected[p] = d
      /\ ports[p].driver = None /\ ports[p].phase \in Upright
      /\ ports[p].binding_generation < BindingMax
  BY <1>4, <1>5, <1>6 DEF PublishHeld, Upright
<1>8. PICK port : port = [ports[p] EXCEPT !.binding_generation = @ + 1, !.driver = d]
  OBVIOUS
<1>9. /\ ports' = [ports EXCEPT ![p] = port]
      /\ Goto("open") /\ UNCHANGED <<registry, connected, tally>>
  BY <1>3, <1>4, <1>5, <1>8 DEF Publish, Candidate, CandidateIn
<1>10. Good(ports[p], tally[p], connected[p]) /\ ports[p].in_flight = 0
  BY <1>7, GoodNow, UnboundIdle
<1>11. /\ Kin(ports[p], port) /\ port.driver = d /\ port.phase = ports[p].phase
       /\ port.in_flight = 0 /\ port.queue = ports[p].queue
       /\ port.next_sequence = ports[p].next_sequence
       /\ port.accepting = ports[p].accepting
       /\ port.recovery_required = ports[p].recovery_required
       /\ port.stream_loss_epoch = ports[p].stream_loss_epoch
       /\ port.binding_generation = ports[p].binding_generation + 1
  BY <1>8, <1>10 DEF Kin, Good, PortRecords
<1>12. port \in PortRecords /\ port.binding_generation # 0
  <2>1. BindingMax \in Nat /\ ports[p].binding_generation \in 0 .. BindingMax
    BY <1>10, SerioAssumption DEF Good, PortRecords
  <2>2. ports[p].binding_generation + 1 \in 0 .. BindingMax
          /\ ports[p].binding_generation + 1 # 0
    BY <1>7, <2>1
  <2>4. port \in PortRecords
    BY <2>2, <1>7, <1>8, <1>10, ZenonT(60) DEF PortRecords, Good
  <2> QED
    BY <1>11, <2>2, <2>4
<1>13. Good(port, tally[p], connected'[p])
  BY <1>7, <1>9, <1>10, <1>11, <1>12
  DEF Good, LifeHeld, Kin, Upright, Clean, Sums, Ordered
<1>14. /\ Standing' /\ ports'[p] = port
       /\ \A q \in Ports : q # p => ports'[q] = ports[q]
  BY <1>9, <1>7, <1>11, <1>13, OnePort DEF IndInv, PortsHeld, TypeOK
<1>15. PICK f : f = [t EXCEPT !.pc = "open"]
  OBVIOUS
<1>16. /\ f \in FrameRecords /\ f.pc = "open" /\ f.op = t.op
       /\ f.port = t.port /\ f.driver = t.driver /\ f.slot = t.slot
  BY <1>15, MovesTo DEF Points
<1>18. /\ HeldNext(f) /\ f.pc \in Stages(f.op) /\ f.pc \notin Counted
       /\ f.op # "pump"
  BY <1>5, <1>6, <1>11, <1>14, <1>16, <1>9, BinderHeld
  DEF Binders, CandidateHeld, registry
<1>19. \A q \in Ports : Owns(q)'
  BY <1>7, <1>9, <1>11, <1>14, <1>2, <1>3, <1>5 DEF Owns
<1>21. stack' = Append(Front(stack), f)
  BY <1>3, <1>9, <1>15 DEF Goto, Become
<1> QED
  BY <1>1, <1>14, <1>16, <1>18, <1>19, <1>10, <1>11, OneCount, <1>21, TopMoves
  DEF Counted

(* bind_driver disconnects after a failed open. *)
LEMMA UndoStep ==
  ASSUME IndInv, Undo
  PROVE  IndInv'
<1>1. stack # << >> /\ Top.pc = "undo"
  BY AtIs DEF Undo
<1>2. /\ Top \in FrameRecords /\ Top.pc \in Stages(Top.op) /\ Held(Top)
      /\ \A q \in Ports : q = Top.port \/ Owns(q)
  BY <1>1, AtTop
<1>3. PICK t \in FrameRecords : t = Top
  BY <1>2
<1>4. PICK p \in Ports : p = t.port /\ ports[p].driver = None
  BY <1>1, <1>2, <1>3, BinderIs DEF Binders
<1>5. /\ connected' = [connected EXCEPT ![p] = None]
      /\ UNCHANGED <<ports, registry, tally>> /\ BindFailed(Top)
  BY <1>3, <1>4 DEF Undo
<1>6. /\ connected' \in [Ports -> Drivers \cup {None, Abandoned}]
      /\ connected'[p] = None
      /\ \A q \in Ports : q # p => connected'[q] = connected[q]
  BY <1>5 DEF IndInv, TypeOK
<1>7. Standing' /\ \A q \in Ports : ports'[q] = ports[q]
  BY <1>5, <1>4, GoodNow, <1>6, OnePort
  DEF IndInv, TypeOK, PortsHeld, Good, LifeHeld, Kin
<1>8. \A q \in Ports : Owns(q)'
  BY <1>2, <1>3, <1>4, <1>6, <1>7 DEF Owns
<1>10. Rest
  BY <1>1, <1>5, BindEnds DEF IndInv, Binding
<1> QED
  BY <1>1, <1>7, <1>8, OneCount, <1>10, TopMoves DEF Rest, Plain, Undisturbed, Counted

(* What a teardown relies on outlives a change of ports in their place. *)
LEMMA TreeKept ==
  ASSUME IndInv, ports' \in [Ports -> PortRecords],
         \A q \in Ports :
           /\ Kin(ports[q], ports'[q]) /\ ports'[q].in_flight = ports[q].in_flight
           /\ ports'[q].accepting => ports[q].accepting
           /\ ports'[q].driver = ports[q].driver \/ ports'[q].driver = None
  PROVE  /\ \A f : SubtreeHeld(f, ports) => SubtreeHeld(f, ports')
         /\ \A f : f.port \in Ports /\ LeafHeld(f, ports) => LeafHeld(f, ports')
         /\ \A f : WithdrawalHeld(f, ports) => WithdrawalHeld(f, ports')
<1>1. ASSUME NEW f, SubtreeHeld(f, ports)
      PROVE  SubtreeHeld(f, ports')
  <2>1. PICK root \in Ports : root = f.event
    BY <1>1 DEF SubtreeHeld
  <2>3. Grafts(ports, ports')
    BY DEF Grafts, Kin
  <2>4. MembersIn(ports', root) \subseteq MembersIn(ports, root)
    BY <2>3, MembersShrink DEF IndInv, NoOrphans, Rooted, TypeOK
  <2> QED
    BY <1>1, <2>1, <2>4 DEF SubtreeHeld, MembersIn
<1>2. ASSUME NEW f, f.port \in Ports, LeafHeld(f, ports)
      PROVE  LeafHeld(f, ports')
  BY <1>2 DEF LeafHeld, Childless, Kin
<1>3. ASSUME NEW f, WithdrawalHeld(f, ports)
      PROVE  WithdrawalHeld(f, ports')
  BY <1>3, SerioAssumption DEF WithdrawalHeld
<1> QED
  BY <1>1, <1>2, <1>3

(* The driver of a port is withdrawn. *)
LEMMA DriverOff ==
  ASSUME IndInv, NEW p \in Ports, ports' = [ports EXCEPT ![p].driver = None],
         UNCHANGED <<registry, connected, tally>>
  PROVE  /\ Standing' /\ ports' \in [Ports -> PortRecords]
         /\ ports'[p].driver = None
         /\ \A q \in Ports :
              /\ Kin(ports[q], ports'[q]) /\ ports'[q].in_flight = ports[q].in_flight
              /\ ports'[q].accepting => ports[q].accepting
              /\ ports'[q].driver = ports[q].driver \/ ports'[q].driver = None
              /\ q # p => ports'[q] = ports[q]
<1>1. PICK port : port = [ports[p] EXCEPT !.driver = None]
  OBVIOUS
<1>2. ports' = [ports EXCEPT ![p] = port]
  BY <1>1
<1>3. Good(ports[p], tally[p], connected[p])
  BY GoodNow
<1>4. /\ port \in PortRecords /\ Kin(ports[p], port) /\ port.driver = None
      /\ port.phase = ports[p].phase /\ port.in_flight = ports[p].in_flight
      /\ port.queue = ports[p].queue /\ port.next_sequence = ports[p].next_sequence
      /\ port.accepting = ports[p].accepting
      /\ port.recovery_required = ports[p].recovery_required
      /\ port.stream_loss_epoch = ports[p].stream_loss_epoch
  BY <1>1, <1>3 DEF Good, PortRecords, Kin
<1>6. LifeHeld(port, tally[p], connected[p])
  BY <1>3, <1>1, <1>4 DEF Good, LifeHeld, Kin, PortRecords
<1>7. Good(port, tally[p], connected[p])
  BY <1>3, <1>4, <1>6 DEF Good, Clean, Sums, Ordered
<1>9. /\ Standing' /\ ports'[p] = port
      /\ \A q \in Ports : q # p => ports'[q] = ports[q]
  BY <1>2, <1>4, <1>7, OnePort DEF IndInv, PortsHeld, TypeOK
<1>11. ASSUME NEW q \in Ports
       PROVE  /\ Kin(ports[q], ports'[q]) /\ ports'[q].in_flight = ports[q].in_flight
              /\ ports'[q].accepting => ports[q].accepting
              /\ ports'[q].driver = ports[q].driver \/ ports'[q].driver = None
  BY <1>4, <1>9 DEF Kin
<1> QED
  BY <1>4, <1>9, <1>11 DEF Standing, Shaped

(* The port's open callback succeeds, or the binding is taken back. *)
LEMMA OpenStep ==
  ASSUME IndInv, Open
  PROVE  IndInv'
<1>1. stack # << >> /\ Top.pc = "open"
  BY AtIs DEF Open
<1>2. /\ Top \in FrameRecords /\ Top.pc \in Stages(Top.op) /\ Held(Top)
      /\ \A q \in Ports : Owns(q)
  BY <1>1, AtTop DEF Busy
<1>3. PICK t \in FrameRecords : t = Top
  BY <1>2
<1>4. CASE BindDone(Top) /\ UNCHANGED ports
  BY <1>4, ControlIs, <1>1, BindEnds, RestKeeps DEF Open, IndInv, Binding, Counted, Busy
<1>5. CASE ~(BindDone(Top) /\ UNCHANGED ports)
  BY <1>1, <1>2, <1>3, BinderIs, <1>5, DriverOff, MovesTo, BinderHeld, OneCount,
     TopMoves
  DEF Binders, Open, Points, CandidateHeld, registry, Owns, Busy, Counted, Goto, Become
<1> QED
  BY <1>4, <1>5

(* A call that detaches a driver. *)
LEMMA DetacherIs ==
  ASSUME NEW t \in FrameRecords, t.pc \in Stages(t.op),
         t.pc \in {"detach", "disconnect"}, Held(t)
  PROVE  /\ t.op \in {"unbind", "quiesce", "unregister_subtree", "unregister_driver"}
         /\ t.port \in Ports /\ ports[t.port].in_flight = 0
         /\ t.pc = "disconnect" => ports[t.port].driver = None
         /\ t.op = "unregister_subtree" => SubtreeHeld(t, ports)
         /\ t.op \in {"quiesce", "unregister_subtree"} => LeafHeld(t, ports)
         /\ t.op = "unregister_driver" => WithdrawalHeld(t, ports)
<1> QED
  BY DEF Held, FrameHeld, Portless, FrameRecords, Ops, Stages

(* detach_driver takes the driver out of the port. *)
LEMMA DetachStep ==
  ASSUME IndInv, Detach
  PROVE  IndInv'
<1>1. stack # << >> /\ Top.pc = "detach"
  BY AtIs DEF Detach
<1>2. /\ Top \in FrameRecords /\ Top.pc \in Stages(Top.op) /\ Held(Top)
      /\ \A q \in Ports : Owns(q)
  BY <1>1, AtTop DEF Busy
<1>3. PICK t \in FrameRecords : t = Top
  BY <1>2
<1>4. PICK p \in Ports : p = t.port /\ ports[p].in_flight = 0
  BY <1>1, <1>2, <1>3, DetacherIs
<1>5. /\ t.op \in {"unbind", "quiesce", "unregister_subtree", "unregister_driver"}
      /\ t.op = "unregister_subtree" => SubtreeHeld(t, ports)
      /\ t.op \in {"quiesce", "unregister_subtree"} => LeafHeld(t, ports)
      /\ t.op = "unregister_driver" => WithdrawalHeld(t, ports)
  BY <1>1, <1>2, <1>3, DetacherIs
<1>6. /\ ports' = [ports EXCEPT ![p].driver = None] /\ Goto("disconnect")
      /\ UNCHANGED <<registry, connected, tally>>
  BY <1>3, <1>4 DEF Detach
<1>7. /\ Standing' /\ ports' \in [Ports -> PortRecords] /\ ports'[p].driver = None
      /\ \A q \in Ports :
           /\ Kin(ports[q], ports'[q]) /\ ports'[q].in_flight = ports[q].in_flight
           /\ ports'[q].accepting => ports[q].accepting
           /\ ports'[q].driver = ports[q].driver \/ ports'[q].driver = None
           /\ q # p => ports'[q] = ports[q]
  BY <1>6, DriverOff
<1>8. PICK f : f = [t EXCEPT !.pc = "disconnect"]
  OBVIOUS
<1>9. /\ f \in FrameRecords /\ f.pc = "disconnect" /\ f.op = t.op
      /\ f.port = t.port /\ f.driver = t.driver /\ f.event = t.event
  BY <1>8, MovesTo DEF Points
<1>11. /\ f.op = "unregister_subtree" => SubtreeHeld(f, ports')
       /\ f.op \in {"quiesce", "unregister_subtree"} => LeafHeld(f, ports')
       /\ f.op = "unregister_driver" => WithdrawalHeld(f, ports')
  BY <1>4, <1>7, <1>9, <1>1, <1>3, <1>5, TreeKept
  DEF SubtreeHeld, LeafHeld, WithdrawalHeld
<1>12. HeldNext(f)
  BY <1>4, <1>5, <1>7, <1>9, <1>11 DEF HeldNext, FrameHeld, Portless, Counted
<1>13. f.pc \in Stages(f.op) /\ f.pc \notin Counted /\ f.op # "pump"
  BY <1>5, <1>9 DEF Stages, Counted
<1>14. \A q \in Ports : (q = f.port /\ f.pc \in Busy) \/ Owns(q)'
  BY <1>2, <1>4, <1>6, <1>7, <1>9 DEF Owns, Busy
<1>16. stack' = Append(Front(stack), f)
  BY <1>3, <1>6, <1>8 DEF Goto, Become
<1> QED
  BY <1>1, <1>7, <1>9, <1>12, <1>13, <1>14, <1>4, OneCount, <1>16, TopMoves DEF Counted

(* detach_driver calls disconnect and returns to the teardown around it. *)
LEMMA DisconnectStep ==
  ASSUME IndInv, Disconnect
  PROVE  IndInv'
<1>1. stack # << >> /\ Top.pc = "disconnect"
  BY AtIs DEF Disconnect
<1>2. /\ Top \in FrameRecords /\ Top.pc \in Stages(Top.op) /\ Held(Top)
      /\ \A q \in Ports : q = Top.port \/ Owns(q)
  BY <1>1, AtTop
<1>3. PICK t \in FrameRecords : t = Top
  BY <1>2
<1>4. PICK p \in Ports : /\ p = t.port /\ ports[p].in_flight = 0
                         /\ ports[p].driver = None
  BY <1>1, <1>2, <1>3, DetacherIs
<1>5. /\ t.op \in {"unbind", "quiesce", "unregister_subtree", "unregister_driver"}
      /\ t.op = "unregister_subtree" => SubtreeHeld(t, ports)
      /\ t.op \in {"quiesce", "unregister_subtree"} => LeafHeld(t, ports)
      /\ t.op = "unregister_driver" => WithdrawalHeld(t, ports)
  BY <1>1, <1>2, <1>3, DetacherIs
<1>6. /\ connected' = [connected EXCEPT ![p] = None]
      /\ UNCHANGED <<ports, registry, tally>>
  BY <1>3, <1>4 DEF Disconnect
<1>7. /\ connected' \in [Ports -> Drivers \cup {None, Abandoned}]
      /\ connected'[p] = None
      /\ \A q \in Ports : q # p => connected'[q] = connected[q]
  BY <1>6 DEF IndInv, TypeOK
<1>8. Standing' /\ \A q \in Ports : ports'[q] = ports[q]
  BY <1>6, <1>4, GoodNow, <1>7, OnePort
  DEF IndInv, TypeOK, PortsHeld, Good, LifeHeld, Kin
<1>9. \A q \in Ports : Owns(q)'
  BY <1>2, <1>3, <1>4, <1>7, <1>8 DEF Owns
<1>11. PICK f \in FrameRecords :
         /\ stack' = Append(Front(stack), f)
         /\ f.op = t.op /\ f.port = t.port /\ f.driver = t.driver
         /\ f.event = t.event
         /\ \/ f.op = "unbind" /\ f.pc = "attach"
            \/ f.op = "quiesce" /\ f.pc = "stop"
            \/ f.op = "unregister_subtree" /\ f.pc = "clear"
            \/ f.op = "unregister_driver" /\ f.pc = "detaching"
  <2>1. CASE t.op = "unbind"
    <3>1. PICK e : e = [t EXCEPT !.pc = "attach"]
      OBVIOUS
    <3>2. /\ e \in FrameRecords /\ e.op = t.op /\ e.port = t.port /\ e.pc = "attach"
          /\ e.driver = t.driver /\ e.event = t.event
      BY <3>1, MovesTo DEF Points
    <3>3. PICK f : f = [e EXCEPT !.slot = 1]
      OBVIOUS
    <3>5. /\ f \in FrameRecords /\ f.op = t.op /\ f.port = t.port /\ f.pc = "attach"
          /\ f.driver = t.driver /\ f.event = t.event
      BY <3>2, <3>3 DEF FrameRecords
    <3>6. stack' = Append(Front(stack), f)
      BY <1>3, <2>1, <3>1, <3>3 DEF Disconnect, Become, FrameRecords
    <3> QED
      BY <2>1, <3>5, <3>6
  <2>2. CASE t.op = "quiesce"
    BY <1>3, <2>2, MovesTo DEF Disconnect, Become, Goto, Points
  <2>3. CASE t.op = "unregister_subtree"
    BY <1>3, <2>3, MovesTo DEF Disconnect, Become, Goto, Points
  <2>4. CASE t.op = "unregister_driver"
    BY <1>3, <2>4, MovesTo DEF Disconnect, Become, Goto, Points
  <2> QED
    BY <1>5, <2>1, <2>2, <2>3, <2>4
<1>13. HeldNext(f)
  BY <1>4, <1>6, <1>11, <1>1, <1>3, <1>5
  DEF HeldNext, FrameHeld, Portless, Counted, SubtreeHeld, LeafHeld, WithdrawalHeld
<1>14. f.pc \in Stages(f.op) /\ f.pc \notin Counted /\ f.op # "pump"
  BY <1>11 DEF Stages, Counted
<1> QED
  BY <1>1, <1>8, <1>9, OneCount, <1>11, <1>13, <1>14, TopMoves DEF Undisturbed, Counted

(* The port a teardown takes next has no children left. *)
LEMMA DeepestIs ==
  ASSUME IndInv, NEW root \in Ports, Members(root) # {}
  PROVE  /\ NextDown(Members(root)) \in Members(root)
         /\ Childless(ports, NextDown(Members(root)))
<1>1. PICK S : S = Members(root) /\ S = MembersIn(ports, root)
  BY MembersAre
<1>2. \A q \in S : q \in Ports /\ ports[q].phase # "empty"
  BY <1>1 DEF MembersIn
<1>3. DepthMax \in Nat /\ \A q \in S : ports[q].depth \in 0 .. DepthMax
  BY <1>2, SerioAssumption DEF IndInv, TypeOK, PortRecords
<1>4. PICK D : D = {p \in S : \A q \in S : ports[q].depth <= ports[p].depth}
  OBVIOUS
<1>5. D # {}
  <2>1. PICK K : K = {DepthMax - ports[q].depth : q \in S}
    OBVIOUS
  <2>2. K \in SUBSET Nat /\ K # {}
    BY <1>1, <1>3, <2>1
  <2>3. PICK k \in K : \A j \in K : k <= j
    BY <2>2, Least
  <2>4. PICK p \in S : k = DepthMax - ports[p].depth
    BY <2>1, <2>3
  <2>5. ASSUME NEW q \in S
        PROVE  ports[q].depth <= ports[p].depth
    BY <2>1, <2>3, <1>3, <2>4
  <2> QED
    BY <1>4, <2>4, <2>5
<1>6. PICK T : T = {SlotOf(p) : p \in D}
  OBVIOUS
<1>8. \A p \in D : SlotOf(p) \in DOMAIN portSlots /\ portSlots[SlotOf(p)] = p
  BY <1>2, <1>4 DEF SlotOf, IndInv, SlotsHeld
<1>9. T \in SUBSET Nat /\ T # {}
  BY <1>5, <1>6, <1>8 DEF IndInv, TypeOK
<1>10. PICK p \in D : Lowest(T) = SlotOf(p)
  BY <1>6, <1>9, LowestIn
<1>12. Childless(ports, p)
  <2> SUFFICES ASSUME NEW c \in Ports, ports[c].phase # "empty", ports[c].parent = p
               PROVE  FALSE
    BY DEF Childless
  <2>1. p \in Ports /\ p \in S /\ ports[p].phase # "empty" /\ p # None
    BY <1>2, <1>4, SerioAssumption
  <2>2. /\ ports[p].generation = ports[c].parent_generation
        /\ ports[c].depth = ports[p].depth + 1
    BY <2>1 DEF IndInv, NoOrphans
  <2>3. UpIn(ports, c) = p
    BY <2>1, <2>2 DEF UpIn
  <2>5. c \in S
    BY <1>1, <2>1, <2>3, MembersClosed DEF IndInv, NoOrphans, Rooted, TypeOK
  <2> QED
    BY <1>3, <2>1, <2>2, <1>4, <2>5
<1> QED
  BY <1>1, <1>4, <1>6, <1>8, <1>10, <1>12 DEF NextDown

(* unregister_subtree picks the deepest member, which has no children. *)
LEMMA DownStep ==
  ASSUME IndInv, Down
  PROVE  IndInv'
<1>1. stack # << >> /\ Top.pc = "down"
  BY AtIs DEF Down
<1>2. Control
  BY ControlIs DEF Down
<1>3. Top \in FrameRecords /\ Top.pc \in Stages(Top.op) /\ Held(Top)
  BY <1>1, AtTop
<1>4. Top.pc \notin Counted /\ Top.pc \notin Busy
  BY <1>1 DEF Counted, Busy
<1>5. CASE Members(Top.event) = {}
  BY <1>1, <1>2, <1>4, <1>5, ControlTops DEF Down, Return
<1>6. CASE Members(Top.event) # {}
  <2>1. PICK t \in FrameRecords : t = Top
    BY <1>3
  <2>2. t.op = "unregister_subtree"
    BY <1>1, <1>3, <2>1 DEF FrameRecords, Ops, Stages
  <2>3. SubtreeHeld(t, ports)
    BY <1>3, <2>1, <2>2 DEF Held, FrameHeld
  <2>4. PICK root \in Ports : root = t.event
    BY <2>3 DEF SubtreeHeld
  <2>5. PICK p : p = NextDown(Members(root))
    OBVIOUS
  <2>6. p \in MembersIn(ports, root) /\ Childless(ports, p)
    BY <1>6, <2>1, <2>4, <2>5, DeepestIs, MembersAre
  <2>7. p \in Ports /\ ports[p].phase # "empty" /\ ports[p].in_flight = 0
    BY <2>3, <2>4, <2>6 DEF SubtreeHeld, MembersIn
  <2>8. PICK pc \in {"detach", "clear"} :
          /\ pc = IF ports[p].phase = "active" THEN "detach" ELSE "clear"
    OBVIOUS
  <2>9. PICK f : f = [t EXCEPT !.port = p, !.pc = pc]
    OBVIOUS
  <2>10. /\ f \in FrameRecords /\ f.op = t.op /\ f.pc = pc /\ f.port = p
         /\ f.event = root
    <3>1. pc \in Points
      BY <2>8 DEF Points
    <3> QED
      BY <2>4, <2>7, <2>9, <3>1 DEF FrameRecords
  <2>11. Plain(f)
    BY <2>2, <2>8, <2>10 DEF Plain, Stages, Counted, Busy
  <2>12. SubtreeHeld(f, ports) /\ LeafHeld(f, ports)
    BY <2>2, <2>3, <2>4, <2>6, <2>7, <2>10 DEF SubtreeHeld, LeafHeld
  <2>14. Held(f)
    BY <2>2, <2>7, <2>8, <2>10, <2>12, GoodNow
    DEF Held, FrameHeld, Portless, Counted, Good, LifeHeld
  <2>16. f.op # "pump"
    BY <2>2, <2>10
  <2> QED
    BY <1>1, <1>2, <1>4, <2>11, <2>14, <1>6, <2>1, <2>4, <2>5, <2>8, <2>9, <2>16,
       ControlTops DEF Down, Become
<1> QED
  BY <1>5, <1>6

-----------------------------------------------------------------------------
(* Ports come and go.                                                      *)

(* A port that is not there. *)
LEMMA EmptyGood ==
  ASSUME NEW g \in 0 .. GenerationMax, NEW c
  PROVE  /\ Good(Port(g), NoBytes, c)
         /\ Port(g).phase = "empty" /\ Port(g).driver = None
         /\ Port(g).in_flight = 0 /\ Port(g).generation = g
<1>1. /\ 0 \in 0 .. GenerationMax /\ 0 \in 0 .. BindingMax /\ 0 \in 0 .. SequenceMax
      /\ 0 \in 0 .. EpochMax /\ 0 \in 0 .. DepthMax /\ 0 \in 0 .. MaxNesting
      /\ QueueCapacity \in Nat
  BY SerioAssumption
<1>2. << >> \in Seq(Bytes) /\ Len(<< >>) = 0 /\ DOMAIN << >> = {}
  OBVIOUS
<1>3. Port(g) \in PortRecords
  BY <1>1, <1>2 DEF Port, PortRecords, Phases
<1>4. NoBytes \in TallyRecords
  BY DEF NoBytes, TallyRecords
<1>5. /\ Port(g).phase = "empty" /\ Port(g).driver = None
      /\ Port(g).in_flight = 0 /\ Port(g).generation = g
      /\ Port(g).queue = << >> /\ ~Port(g).accepting /\ Port(g).next_sequence = 0
  BY DEF Port
<1>7. Sums(Port(g), NoBytes)
  BY <1>2, <1>5 DEF Sums, NoBytes
<1>8. Ordered(Port(g), NoBytes)
  BY <1>2, <1>5 DEF Ordered, NoBytes
<1> QED
  BY <1>1, <1>2, <1>3, <1>4, <1>5, <1>7, <1>8 DEF Good, LifeHeld, Clean

(* A live port is in exactly one slot. *)
LEMMA SlotIs ==
  ASSUME IndInv, NEW p \in Ports, ports[p].phase # "empty"
  PROVE  /\ SlotOf(p) \in DOMAIN portSlots /\ portSlots[SlotOf(p)] = p
         /\ \A i \in DOMAIN portSlots : portSlots[i] = p => i = SlotOf(p)
<1>2. SlotOf(p) \in DOMAIN portSlots /\ portSlots[SlotOf(p)] = p
  BY DEF SlotOf, IndInv, SlotsHeld
<1> QED
  BY <1>2, SerioAssumption DEF IndInv, SlotsHeld

(* A childless port can be cleared: the rest of the registry stands. *)
LEMMA Cleared ==
  ASSUME IndInv, NEW p \in Ports, ports[p].phase # "empty", Childless(ports, p),
         ClearPort(p), portSlots' = [portSlots EXCEPT ![SlotOf(p)] = None],
         UNCHANGED <<drivers, driverSlots>>,
         connected' \in [Ports -> Drivers \cup {None, Abandoned}],
         \A q \in Ports : q # p => connected'[q] = connected[q]
  PROVE  /\ Standing'
         /\ ports'[p].phase = "empty" /\ ports'[p].driver = None
         /\ ports'[p].in_flight = 0
         /\ \A q \in Ports : q # p => ports'[q] = ports[q]
<1>1. PICK g \in 0 .. GenerationMax : g = ports[p].generation
  BY DEF IndInv, TypeOK, PortRecords
<1>2. PICK port : port = Port(g)
  OBVIOUS
<1>3. ports' = [ports EXCEPT ![p] = port] /\ tally' = [tally EXCEPT ![p] = NoBytes]
  BY <1>1, <1>2 DEF ClearPort
<1>4. /\ Good(port, NoBytes, connected'[p]) /\ port.phase = "empty"
      /\ port.driver = None /\ port.in_flight = 0
  BY <1>2, EmptyGood
<1>5. ports \in [Ports -> PortRecords] /\ tally \in [Ports -> TallyRecords]
  BY DEF IndInv, TypeOK, PortsHeld
<1>6. /\ ports'[p] = port /\ tally'[p] = NoBytes
      /\ \A q \in Ports : q # p => ports'[q] = ports[q] /\ tally'[q] = tally[q]
  BY <1>3, <1>5
<1>7. \A q \in Ports : Good(ports'[q], tally'[q], connected'[q])
  BY <1>4, <1>6, GoodNow
<1>8. PortsHeld'
  BY <1>3, <1>4, <1>5, <1>7 DEF Good, PortsHeld
<1>9. /\ portSlots \in Seq(Ports \cup {None})
      /\ SlotOf(p) \in DOMAIN portSlots /\ portSlots[SlotOf(p)] = p
      /\ \A i \in DOMAIN portSlots : portSlots[i] = p => i = SlotOf(p)
  BY SlotIs DEF IndInv, TypeOK
<1>10. PICK k \in DOMAIN portSlots : k = SlotOf(p)
  BY <1>9
<1>11. /\ portSlots' \in Seq(Ports \cup {None})
       /\ DOMAIN portSlots' = DOMAIN portSlots
       /\ portSlots'[k] = None
       /\ \A i \in DOMAIN portSlots : i # k => portSlots'[i] = portSlots[i]
  BY <1>9, <1>10
<1>13. SlotsHeld'
  <2>1. p # None
    BY SerioAssumption
  <2>2. \A q \in Ports : ports'[q].phase # "empty" <=>
                           \E i \in DOMAIN portSlots' : portSlots'[i] = q
    <3> SUFFICES ASSUME NEW q \in Ports
                 PROVE  ports'[q].phase # "empty" <=>
                          \E i \in DOMAIN portSlots' : portSlots'[i] = q
      OBVIOUS
    <3>1. q # None
      BY SerioAssumption
    <3>3. CASE q = p
      BY <1>4, <1>6, <1>9, <1>10, <1>11, <3>1, <3>3
    <3>4. CASE q # p
      BY <1>6, <1>9, <1>10, <1>11, <3>1, <3>4 DEF IndInv, SlotsHeld
    <3> QED
      BY <3>3, <3>4
  <2>4. \A q \in Ports : ports'[q].driver # None => drivers[ports'[q].driver].registered
    BY <1>4, <1>6 DEF IndInv, SlotsHeld
  <2> QED
    BY <2>2, <1>11, <2>4 DEF IndInv, SlotsHeld
<1>14. NoOrphans'
  <2> SUFFICES ASSUME NEW c \in Ports, ports'[c].phase # "empty",
                      ports'[c].parent # None, NEW q, q = ports'[c].parent
               PROVE  /\ ports'[q].phase \in {"active", "poisoned"}
                      /\ ports'[q].generation = ports'[c].parent_generation
                      /\ ports'[c].depth = ports'[q].depth + 1
    BY DEF NoOrphans
  <2>1. c # p /\ ports'[c] = ports[c]
    BY <1>4, <1>6
  <2>2. q # p /\ q \in Ports
    BY <1>5, <2>1 DEF Childless, PortRecords
  <2> QED
    BY <1>6, <2>1, <2>2 DEF IndInv, NoOrphans
<1> QED
  BY <1>4, <1>6, <1>8, <1>3, <1>5, <1>7, <1>11, StandingNow, <1>13, <1>14
  DEF Standing, Good, Shaped

(* An idle bus has no call to disturb. *)
LEMMA IdleMoves ==
  ASSUME IndInv, Idle, stack' = stack, Standing', \A p \in Ports : Owns(p)',
         \A p \in Ports : ports'[p].in_flight = 0
  PROVE  IndInv'
<1>2. stack = << >> /\ stack \in Seq(FrameRecords)
  BY DEF Idle, IndInv, StackHeld
<1>3. Under(stack)
  BY AtCall, IdleCalls, <1>2 DEF Under
<1>4. \A p \in Ports : Inflight(stack, p) = 0
  <2>1. DOMAIN stack = {}
    BY <1>2
  <2> QED
    BY <1>2, <2>1, FlightsFinite DEF Inflight
<1> QED
  BY <1>3, <1>4, Returns

(* With no call running, no callback is in flight and every connection is *)
(* owned.                                                                 *)
LEMMA IdleCounts ==
  ASSUME IndInv, Idle, NEW p \in Ports
  PROVE  ports[p].in_flight = 0 /\ Owns(p)
<1> QED
  BY CountsAll, AtCall, IdleCalls DEF IndInv, Idle, StackHeld

(* serio_port_abort and serio_port_unregister. *)
LEMMA GoneStep ==
  ASSUME IndInv, NEW p \in Ports, Abort(p) \/ Unregister(p)
  PROVE  IndInv'
<1>1. /\ Idle /\ ports[p].phase \in {"prepared", "quiesced"}
      /\ portSlots' = [portSlots EXCEPT ![SlotOf(p)] = None] /\ ClearPort(p)
      /\ UNCHANGED <<drivers, driverSlots, poisoned, stack, connected>>
  BY DEF Abort, Unregister
<1>2. Childless(ports, p)
  BY <1>1, SerioAssumption DEF Childless, IndInv, NoOrphans
<1>3. connected \in [Ports -> Drivers \cup {None, Abandoned}]
  BY DEF IndInv, TypeOK
<1>4. /\ Standing'
      /\ ports'[p].driver = None /\ ports'[p].in_flight = 0
      /\ \A q \in Ports : q # p => ports'[q] = ports[q]
  BY <1>1, <1>2, <1>3, Cleared
<1>5. \A q \in Ports : ports[q].in_flight = 0 /\ Owns(q)
  BY <1>1, IdleCounts
<1>8. \A q \in Ports : Owns(q)'
  BY <1>1, <1>4, <1>5, GoodNow DEF Owns, Good, LifeHeld
<1> QED
  BY <1>1, <1>4, <1>5, <1>8, IdleMoves

(* unregister_subtree clears a member, poisoned or detached. *)
LEMMA ClearStep ==
  ASSUME IndInv, Clear
  PROVE  IndInv'
<1>1. stack # << >> /\ Top.pc = "clear"
  BY AtIs DEF Clear
<1>2. /\ Top \in FrameRecords /\ Top.pc \in Stages(Top.op) /\ Held(Top)
      /\ \A q \in Ports : Owns(q)
  BY <1>1, AtTop DEF Busy
<1>3. PICK t \in FrameRecords : t = Top
  BY <1>2
<1>4. t.op = "unregister_subtree"
  BY <1>1, <1>2, <1>3 DEF FrameRecords, Ops, Stages
<1>5. PICK p \in Ports : p = t.port
  BY <1>1, <1>2, <1>3 DEF Held, FrameHeld, Portless
<1>6. /\ SubtreeHeld(t, ports) /\ LeafHeld(t, ports)
      /\ ports[p].phase = "poisoned" \/ ports[p].driver = None
      /\ ports[p].in_flight = 0
  BY <1>1, <1>2, <1>3, <1>4, <1>5 DEF Held, FrameHeld
<1>7. PICK c : c = IF ports[p].phase = "poisoned" /\ ports[p].driver # None
                   THEN Abandoned ELSE connected[p]
  OBVIOUS
<1>8. /\ portSlots' = [portSlots EXCEPT ![SlotOf(p)] = None] /\ ClearPort(p)
      /\ connected' = [connected EXCEPT ![p] = c]
      /\ UNCHANGED <<drivers, driverSlots>> /\ Goto("down")
  BY <1>3, <1>5, <1>7 DEF Clear
<1>10. /\ connected' \in [Ports -> Drivers \cup {None, Abandoned}]
       /\ connected'[p] = c
       /\ \A q \in Ports : q # p => connected'[q] = connected[q]
  BY <1>8, <1>7 DEF IndInv, TypeOK
<1>12. /\ Standing'
       /\ ports'[p].phase = "empty" /\ ports'[p].driver = None
       /\ ports'[p].in_flight = 0
       /\ \A q \in Ports : q # p => ports'[q] = ports[q]
  BY <1>8, <1>10, <1>5, <1>6, Cleared DEF LeafHeld
<1>13. \A q \in Ports : Owns(q)'
  BY <1>2, <1>6, <1>7, <1>10, <1>12 DEF Owns
<1>14. PICK f : f = [t EXCEPT !.pc = "down"]
  OBVIOUS
<1>15. /\ f \in FrameRecords /\ f.pc = "down" /\ f.op = t.op
       /\ f.port = t.port /\ f.event = t.event
  BY <1>14, MovesTo DEF Points
<1>16. SubtreeHeld(f, ports')
  <2>1. PICK root \in Ports : root = f.event
    BY <1>6, <1>15 DEF SubtreeHeld
  <2>3. Grafts(ports, ports')
    BY <1>12 DEF Grafts
  <2>4. ports' \in [Ports -> PortRecords]
    BY <1>12 DEF Standing, Shaped
  <2>5. MembersIn(ports', root) \subseteq MembersIn(ports, root)
    BY <2>3, <2>4, MembersShrink DEF IndInv, NoOrphans, Rooted, TypeOK
  <2> QED
    BY <1>6, <1>12, <1>15, <2>1, <2>5 DEF SubtreeHeld, MembersIn
<1>17. HeldNext(f)
  BY <1>4, <1>5, <1>15, <1>16 DEF HeldNext, FrameHeld, Portless, Counted
<1>18. f.pc \in Stages(f.op) /\ f.pc \notin Counted /\ f.op # "pump"
  BY <1>4, <1>15 DEF Stages, Counted
<1>20. stack' = Append(Front(stack), f)
  BY <1>3, <1>8, <1>14 DEF Goto, Become
<1> QED
  BY <1>1, <1>12, <1>13, <1>15, <1>17, <1>18, <1>6, OneCount, <1>20, TopMoves
  DEF Counted

(* Ports that stop accepting. *)
LEMMA Deafened ==
  ASSUME IndInv, NEW S \in SUBSET Ports,
         ports' = [p \in Ports |-> IF p \in S THEN [ports[p] EXCEPT !.accepting = FALSE]
                                   ELSE ports[p]],
         UNCHANGED <<registry, connected, tally>>
  PROVE  /\ Standing' /\ ports' \in [Ports -> PortRecords]
         /\ \A p \in S : ~ports'[p].accepting
         /\ \A q \in Ports :
              /\ Kin(ports[q], ports'[q]) /\ ports'[q].in_flight = ports[q].in_flight
              /\ ports'[q].accepting => ports[q].accepting
              /\ ports'[q].driver = ports[q].driver
              /\ Undisturbed(q)
<1>1. ASSUME NEW q \in Ports
      PROVE  /\ Kin(ports[q], ports'[q]) /\ ports'[q].in_flight = ports[q].in_flight
             /\ ports'[q].accepting => ports[q].accepting
             /\ q \in S => ~ports'[q].accepting
             /\ ports'[q].driver = ports[q].driver
             /\ ports'[q].phase = ports[q].phase
             /\ Undisturbed(q)
             /\ Good(ports'[q], tally'[q], connected'[q])
  <2>1. Good(ports[q], tally[q], connected[q])
    BY GoodNow
  <2>2. CASE q \notin S
    BY <2>1, <2>2 DEF Kin, Undisturbed
  <2>3. CASE q \in S
    <3>1. PICK port : port = [ports[q] EXCEPT !.accepting = FALSE]
      OBVIOUS
    <3>2. ports'[q] = port
      BY <2>3, <3>1
    <3>3. /\ port \in PortRecords /\ Kin(ports[q], port) /\ port.driver = ports[q].driver
          /\ port.phase = ports[q].phase /\ port.in_flight = ports[q].in_flight
          /\ port.queue = ports[q].queue /\ port.next_sequence = ports[q].next_sequence
          /\ ~port.accepting
          /\ port.recovery_required = ports[q].recovery_required
          /\ port.recovery_abandoned = ports[q].recovery_abandoned
          /\ port.stream_loss_epoch = ports[q].stream_loss_epoch
          /\ port.binding_generation = ports[q].binding_generation
          /\ port.generation = ports[q].generation
      BY <2>1, <3>1 DEF Good, PortRecords, Kin
    <3>4. LifeHeld(port, tally[q], connected[q])
      <4>1. CASE ports[q].phase = "empty"
        <5>1. ~ports[q].accepting
          BY <2>1, <4>1 DEF Good, LifeHeld, Port
        <5>2. port = ports[q]
          BY <2>1, <3>1, <5>1 DEF Good, PortRecords
        <5> QED
          BY <2>1, <5>2 DEF Good
      <4>2. CASE ports[q].phase # "empty"
        BY <2>1, <3>3, <4>2 DEF Good, LifeHeld
      <4> QED
        BY <4>1, <4>2
    <3>6. Undisturbed(q)
      BY <3>2, <3>3 DEF Undisturbed
    <3> QED
      BY <3>2, <3>3, <2>1, <3>4, <3>6 DEF Good, Clean, Sums, Ordered
  <2> QED
    BY <2>2, <2>3
<1>3. connected' \in [Ports -> Drivers \cup {None, Abandoned}]
  BY DEF IndInv, TypeOK
<1>4. \A q \in Ports : ports'[q].driver # None => drivers[ports'[q].driver].registered
  BY <1>1, GoodNow
<1>5. Standing'
  BY <1>1, <1>3, <1>4, StandingKept DEF IndInv, PortsHeld
<1> QED
  BY <1>1, <1>5 DEF Standing, Shaped

(* unregister_subtree closes every member. *)
LEMMA ShutStep ==
  ASSUME IndInv, Shut
  PROVE  IndInv'
<1>1. stack # << >> /\ Top.pc = "shut"
  BY AtIs DEF Shut
<1>2. /\ Top \in FrameRecords /\ Top.pc \in Stages(Top.op) /\ Held(Top)
      /\ \A q \in Ports : Owns(q)
  BY <1>1, AtTop DEF Busy
<1>3. PICK t \in FrameRecords : t = Top
  BY <1>2
<1>4. t.op = "unregister_subtree"
  BY <1>1, <1>2, <1>3 DEF FrameRecords, Ops, Stages
<1>5. SubtreeHeld(t, ports) /\ t.port \in Ports
  BY <1>1, <1>2, <1>3, <1>4 DEF Held, FrameHeld, Portless
<1>6. PICK S \in SUBSET Ports : S = Members(t.event)
  BY DEF Members
<1>7. /\ ports' = [p \in Ports |-> IF p \in S THEN [ports[p] EXCEPT !.accepting = FALSE]
                                   ELSE ports[p]]
      /\ Goto("down") /\ UNCHANGED <<registry, connected, tally>>
  BY <1>3, <1>6 DEF Shut
<1>8. /\ Standing' /\ ports' \in [Ports -> PortRecords]
      /\ \A q \in Ports :
           /\ Kin(ports[q], ports'[q]) /\ ports'[q].in_flight = ports[q].in_flight
           /\ ports'[q].accepting => ports[q].accepting
           /\ ports'[q].driver = ports[q].driver
           /\ Undisturbed(q)
  BY <1>7, Deafened
<1>9. PICK f : f = [t EXCEPT !.pc = "down"]
  OBVIOUS
<1>10. /\ f \in FrameRecords /\ f.pc = "down" /\ f.op = t.op
       /\ f.port = t.port /\ f.event = t.event
  BY <1>9, MovesTo DEF Points
<1>12. HeldNext(f)
  BY <1>4, <1>5, <1>10, <1>8, TreeKept
  DEF HeldNext, FrameHeld, Portless, Counted, SubtreeHeld
<1>14. \A q \in Ports : ports'[q].in_flight =
                          ports[q].in_flight - IF Flying(Top, q) THEN 1 ELSE 0
  <2>1. \A q \in Ports : ~Flying(Top, q)
    BY <1>1 DEF Flying, Counted
  <2>2. \A q \in Ports : ports[q].in_flight \in Nat
    BY SerioAssumption DEF IndInv, TypeOK, PortRecords
  <2> QED
    BY <1>8, <2>1, <2>2
<1>15. \A q \in Ports : Owns(q)'
  BY <1>2, <1>7, <1>8 DEF Owns
<1>16. stack' = Append(Front(stack), f)
  BY <1>3, <1>7, <1>9 DEF Goto, Become
<1> QED
  BY <1>1, <1>8, <1>10, <1>12, <1>4, <1>14, <1>15, <1>16, TopMoves DEF Stages, Counted

(* port_has_children looks at every live port. *)
LEMMA ChildlessIs ==
  ASSUME IndInv, NEW p \in Ports, ~HasChildren(p)
  PROVE  Childless(ports, p)
<1> SUFFICES ASSUME NEW c \in Ports, ports[c].phase # "empty", ports[c].parent = p
             PROVE  FALSE
  BY DEF Childless
<1>1. PICK i \in DOMAIN portSlots : portSlots[i] = c
  BY DEF IndInv, SlotsHeld
<1>2. c # None /\ p # None
  BY SerioAssumption
<1>4. ports[p].depth = ports[p].depth + 1
  BY <1>2, <1>1 DEF IndInv, NoOrphans, HasChildren
<1>5. ports[p].depth \in Nat
  BY SerioAssumption DEF IndInv, TypeOK, PortRecords
<1> QED
  BY <1>4, <1>5

(* serio_port_quiesce starts on a childless port at rest and closes it. *)
LEMMA QuiesceStep ==
  ASSUME IndInv, NEW p \in Ports, Quiesce(p)
  PROVE  IndInv'
<1>1. /\ MayCall /\ ports[p].phase = "active" /\ Childless(ports, p)
      /\ UNCHANGED <<registry, connected, tally>>
  BY ChildlessIs DEF Quiesce
<1>2. ports' = [q \in Ports |-> IF q \in {p} THEN [ports[q] EXCEPT !.accepting = FALSE]
                                ELSE ports[q]]
  BY DEF Quiesce, IndInv, TypeOK
<1>3. /\ Standing' /\ ports' \in [Ports -> PortRecords]
      /\ ~ports'[p].accepting
      /\ \A q \in Ports :
           /\ Kin(ports[q], ports'[q]) /\ ports'[q].in_flight = ports[q].in_flight
           /\ ports'[q].accepting => ports[q].accepting
           /\ ports'[q].driver = ports[q].driver
           /\ Undisturbed(q)
  BY <1>1, <1>2, Deafened
<1>4. \A q \in Ports : Owns(q)'
  BY <1>1, <1>3, AtCall DEF Owns
<1>5. CASE ports[p].in_flight # 0
  BY <1>5, <1>1, <1>3, <1>4, CallMoves DEF Quiesce
<1>6. CASE ports[p].in_flight = 0
  <2>1. PICK f : f = Frame("quiesce", "detach", p)
    OBVIOUS
  <2>2. /\ f \in FrameRecords /\ f.op = "quiesce" /\ f.pc = "detach"
        /\ f.port = p
    BY <2>1, FrameIs DEF Ops, Points
  <2>3. f.pc \in Stages(f.op) /\ f.op # "pump" /\ \A q \in Ports : ~Flying(f, q)
    BY <2>2 DEF Stages, Flying, Counted
  <2>5. HeldNext(f)
    BY <1>3, <1>6, <2>2, <1>1
    DEF HeldNext, FrameHeld, Portless, Counted, LeafHeld, Kin, Childless
  <2>7. \A q \in Ports : ports'[q].in_flight =
                           ports[q].in_flight + IF Flying(f, q) THEN 1 ELSE 0
    <3>1. \A q \in Ports : ports[q].in_flight \in Nat
      BY SerioAssumption DEF IndInv, TypeOK, PortRecords
    <3> QED
      BY <1>3, <2>3, <3>1
  <2> QED
    BY <1>1, <1>3, <1>4, <2>2, <2>3, <2>5, <1>6, <2>1, <2>7, CallMoves DEF Quiesce, Call
<1> QED
  BY <1>5, <1>6

(* serio_port_quiesce stops the hardware; the driver is gone. *)
LEMMA StopStep ==
  ASSUME IndInv, Stop
  PROVE  IndInv'
<1>1. stack # << >> /\ Top.pc = "stop"
  BY AtIs DEF Stop
<1>2. /\ Top \in FrameRecords /\ Top.pc \in Stages(Top.op) /\ Held(Top)
      /\ \A q \in Ports : Owns(q)
  BY <1>1, AtTop DEF Busy
<1>3. PICK t \in FrameRecords : t = Top
  BY <1>2
<1>4. t.op = "quiesce"
  BY <1>1, <1>2, <1>3 DEF FrameRecords, Ops, Stages
<1>5. PICK p \in Ports : p = t.port
  BY <1>1, <1>2, <1>3 DEF Held, FrameHeld, Portless
<1>6. LeafHeld(t, ports) /\ ports[p].driver = None /\ ports[p].in_flight = 0
  BY <1>1, <1>2, <1>3, <1>4, <1>5 DEF Held, FrameHeld
<1>7. ports[p].phase # "empty" /\ Childless(ports, p) /\ ~ports[p].accepting
  BY <1>4, <1>5, <1>6 DEF LeafHeld
<1>8. PICK port : port = [ports[p] EXCEPT !.phase = "quiesced"]
  OBVIOUS
<1>9. /\ ports' = [ports EXCEPT ![p] = port] /\ Return
      /\ UNCHANGED <<registry, connected, tally>>
  BY <1>3, <1>5, <1>8 DEF Stop
<1>10. Good(ports[p], tally[p], connected[p])
  BY GoodNow
<1>11. /\ port \in PortRecords /\ Kin(ports[p], port) /\ port.driver = None
       /\ port.phase = "quiesced" /\ port.in_flight = 0
       /\ port.queue = ports[p].queue /\ port.next_sequence = ports[p].next_sequence
       /\ ~port.accepting /\ port.generation = ports[p].generation
  BY <1>6, <1>7, <1>8, <1>10, SMTT(60) DEF Good, PortRecords, Phases, Kin
<1>12. Good(port, tally[p], connected[p])
  BY <1>7, <1>10, <1>11 DEF Good, LifeHeld, Clean, Sums, Ordered
<1>13. /\ Standing' /\ ports'[p] = port
       /\ \A q \in Ports : q # p => ports'[q] = ports[q]
  BY <1>9, <1>7, <1>11, <1>12, OnePort DEF IndInv, PortsHeld, TypeOK
<1>14. \A q \in Ports : Owns(q)'
  BY <1>2, <1>6, <1>9, <1>11, <1>13 DEF Owns
<1> QED
  BY <1>1, <1>9, <1>13, <1>14, <1>6, <1>11, OneCount, TopMoves DEF Return, Counted

(* serio_port_publish opens the port and looks for a driver. *)
LEMMA PublishPortStep ==
  ASSUME IndInv, NEW p \in Ports, PublishPort(p)
  PROVE  IndInv'
<1>1. PICK port : port = [ports[p] EXCEPT !.accepting = TRUE, !.phase = "active"]
  OBVIOUS
<1>2. /\ Idle /\ ports[p].phase = "prepared"
      /\ ports' = [ports EXCEPT ![p] = port]
      /\ Call(Frame("publish", "attach", p))
      /\ UNCHANGED <<registry, connected, tally>>
  BY <1>1 DEF PublishPort
<1>3. Good(ports[p], tally[p], connected[p])
  BY GoodNow
<1>4. /\ port \in PortRecords /\ Kin(ports[p], port) /\ port.driver = ports[p].driver
      /\ port.phase = "active" /\ port.in_flight = ports[p].in_flight
      /\ port.queue = ports[p].queue /\ port.next_sequence = ports[p].next_sequence
      /\ port.recovery_required = ports[p].recovery_required
      /\ port.generation = ports[p].generation
  BY <1>1, <1>2, <1>3 DEF Good, PortRecords, Phases, Kin
<1>5. ports[p].driver = None
  BY <1>2, <1>3 DEF Good, LifeHeld
<1>6. Good(port, tally[p], connected[p])
  BY <1>2, <1>3, <1>4, <1>5 DEF Good, LifeHeld, Clean, Sums, Ordered
<1>7. /\ Standing' /\ ports'[p] = port
      /\ \A q \in Ports : q # p => ports'[q] = ports[q]
  BY <1>2, <1>4, <1>5, <1>6, OnePort DEF IndInv, PortsHeld, TypeOK, Upright
<1>8. \A q \in Ports : ports[q].in_flight = 0 /\ Owns(q)
  BY <1>2, IdleCounts
<1>9. \A q \in Ports : Owns(q)' /\ ports'[q].in_flight = 0
  BY <1>2, <1>4, <1>7, <1>8 DEF Owns
<1>10. PICK f : f = Frame("publish", "attach", p)
  OBVIOUS
<1>11. /\ f \in FrameRecords /\ f.op = "publish" /\ f.pc = "attach"
       /\ f.port = p
  BY <1>10, FrameIs DEF Ops, Points
<1>12. f.pc \in Stages(f.op) /\ f.op # "pump" /\ \A q \in Ports : ~Flying(f, q)
  BY <1>11 DEF Stages, Flying, Counted
<1>13. HeldNext(f)
  BY <1>11, Resting
<1>14. stack' = Append(stack, f)
  BY <1>2, <1>10 DEF Call
<1>16. MayCall
  BY <1>2, IdleCalls
<1> QED
  BY <1>7, <1>8, <1>9, <1>11, <1>12, <1>13, <1>14, <1>16, CallMoves

(* The first free slot. *)
LEMMA FreeIs ==
  ASSUME NEW V, NEW slots \in Seq(V), Free(slots) # {}
  PROVE  Lowest(Free(slots)) \in DOMAIN slots /\ slots[Lowest(Free(slots))] = None
<1>2. Lowest(Free(slots)) \in Free(slots)
  BY LowestIn DEF Free
<1> QED
  BY <1>2 DEF Free

(* serio_port_prepare puts a port into a slot, under a live parent or *)
(* none.                                                              *)
LEMMA PrepareStep ==
  ASSUME IndInv, NEW p \in Ports, NEW parent \in Ports \cup {None},
         NEW manual \in BOOLEAN, Prepare(p, parent, manual)
  PROVE  IndInv'
<1>1. PICK g : g = ports[p].generation
  OBVIOUS
<1>2. PICK pg : pg = IF parent = None THEN 0 ELSE ports[parent].generation
  OBVIOUS
<1>3. PICK dp : dp = IF parent = None THEN 0 ELSE ports[parent].depth + 1
  OBVIOUS
<1>4. PICK port : port = [Port(g + 1) EXCEPT !.phase = "prepared",
         !.manual_bind = manual, !.parent = parent,
         !.parent_generation = pg, !.depth = dp]
  OBVIOUS
<1>5. PICK k : k = Lowest(Free(portSlots))
  OBVIOUS
<1>6. /\ Idle /\ ports[p].phase = "empty" /\ parent # p
      /\ parent # None => /\ ports[parent].phase = "active"
                          /\ ports[parent].depth < DepthMax
      /\ Free(portSlots) # {}
      /\ g < GenerationMax
      /\ ports' = [ports EXCEPT ![p] = port]
      /\ portSlots' = [portSlots EXCEPT ![k] = p]
      /\ UNCHANGED <<drivers, driverSlots, poisoned, stack, connected, tally>>
  BY <1>1, <1>2, <1>3, <1>4, <1>5 DEF Prepare
<1>7. /\ ports \in [Ports -> PortRecords] /\ tally \in [Ports -> TallyRecords]
      /\ portSlots \in Seq(Ports \cup {None})
  BY DEF IndInv, TypeOK, PortsHeld
<1>8. /\ g \in 0 .. GenerationMax /\ g + 1 \in 0 .. GenerationMax
      /\ g + 1 # 0 /\ pg \in 0 .. GenerationMax /\ dp \in 0 .. DepthMax
  <2>1. GenerationMax \in Nat /\ DepthMax \in Nat /\ 0 \in 0 .. GenerationMax
          /\ 0 \in 0 .. DepthMax
    BY SerioAssumption
  <2>2. \A q \in Ports : /\ ports[q].generation \in 0 .. GenerationMax
                         /\ ports[q].depth \in 0 .. DepthMax
    BY <1>7 DEF PortRecords
  <2>4. pg \in 0 .. GenerationMax /\ dp \in 0 .. DepthMax
    BY <1>2, <1>3, <1>6, <2>1, <2>2
  <2> QED
    BY <1>1, <1>6, <2>1, <2>2, <2>4
<1>9. Good(Port(g + 1), NoBytes, connected[p])
  BY <1>8, EmptyGood
<1>10. /\ port \in PortRecords /\ port.phase = "prepared" /\ port.driver = None
       /\ port.generation = g + 1 /\ port.parent = parent
       /\ port.parent_generation = pg /\ port.depth = dp
       /\ port.queue = << >> /\ port.next_sequence = 0 /\ ~port.accepting
       /\ ~port.recovery_required /\ port.in_flight = 0
  BY <1>9, <1>4, <1>8 DEF Good, PortRecords, Phases, Port
<1>12. Good(port, tally[p], connected[p])
  BY <1>8, <1>10, <1>9, <1>6, GoodNow DEF LifeHeld, Clean, Port, Good, Sums, Ordered
<1>13. /\ ports'[p] = port /\ \A q \in Ports : q # p => ports'[q] = ports[q]
  BY <1>6, <1>7
<1>14. \A q \in Ports : Good(ports'[q], tally'[q], connected'[q])
  BY <1>6, <1>12, <1>13, GoodNow
<1>15. PortsHeld'
  BY <1>6, <1>7, <1>14 DEF PortsHeld, Good
<1>16. k \in DOMAIN portSlots /\ portSlots[k] = None
  BY <1>5, <1>6, <1>7, FreeIs
<1>17. /\ portSlots' \in Seq(Ports \cup {None})
       /\ DOMAIN portSlots' = DOMAIN portSlots
       /\ portSlots'[k] = p
       /\ \A i \in DOMAIN portSlots : i # k => portSlots'[i] = portSlots[i]
  BY <1>6, <1>7, <1>16
<1>19. SlotsHeld'
  <2>2. \A q \in Ports : ports'[q].phase # "empty" <=>
                           \E i \in DOMAIN portSlots' : portSlots'[i] = q
    <3> SUFFICES ASSUME NEW q \in Ports
                 PROVE  ports'[q].phase # "empty" <=>
                          \E i \in DOMAIN portSlots' : portSlots'[i] = q
      OBVIOUS
    <3>1. q # None
      BY SerioAssumption
    <3>3. CASE q = p
      BY <1>10, <1>13, <1>16, <1>17, <3>3
    <3>4. CASE q # p
      BY <1>13, <1>16, <1>17, <3>1, <3>4 DEF IndInv, SlotsHeld
    <3> QED
      BY <3>3, <3>4
  <2>3. \A i, j \in DOMAIN portSlots' :
          portSlots'[i] = portSlots'[j] /\ portSlots'[i] # None => i = j
    BY <1>17, <1>6 DEF IndInv, SlotsHeld
  <2> QED
    BY <1>6, <2>2, <2>3, <1>10, <1>13 DEF IndInv, SlotsHeld
<1>20. NoOrphans'
  <2> SUFFICES ASSUME NEW c \in Ports, ports'[c].phase # "empty",
                      ports'[c].parent # None, NEW q, q = ports'[c].parent
               PROVE  /\ ports'[q].phase \in {"active", "poisoned"}
                      /\ ports'[q].generation = ports'[c].parent_generation
                      /\ ports'[c].depth = ports'[q].depth + 1
    BY DEF NoOrphans
  <2>1. CASE c = p
    BY <1>2, <1>3, <1>6, <1>10, <1>13, <2>1
  <2>2. CASE c # p
    <3>1. ports'[c] = ports[c]
      BY <1>13, <2>2
    <3>2. /\ ports[q].phase \in {"active", "poisoned"}
          /\ ports[q].generation = ports[c].parent_generation
          /\ ports[c].depth = ports[q].depth + 1
      BY <3>1 DEF IndInv, NoOrphans
    <3>3. q # p /\ q \in Ports
      BY <1>6, <1>7, <3>1, <3>2 DEF PortRecords
    <3> QED
      BY <1>13, <3>1, <3>2, <3>3
  <2> QED
    BY <2>1, <2>2
<1>22. ports[p].driver = None
  BY <1>6, GoodNow DEF Good, LifeHeld
<1>23. \A q \in Ports : ports'[q].in_flight = 0 /\ Owns(q)'
  BY <1>6, <1>10, <1>13, IdleCounts, <1>22 DEF Owns
<1> QED
  BY <1>6, <1>15, <1>7, <1>10, <1>14, <1>17, StandingNow, <1>19, <1>20, <1>23, IdleMoves
  DEF Standing, Shaped, Good

(* serio_driver_register puts a driver into a slot. *)
LEMMA RegisterDriverStep ==
  ASSUME IndInv, NEW d \in Drivers, NEW manual \in BOOLEAN,
         RegisterDriver(d, manual)
  PROVE  IndInv'
<1>1. PICK k : k = Lowest(Free(driverSlots))
  OBVIOUS
<1>2. PICK e : e = [Driver EXCEPT !.registered = TRUE, !.manual_bind = manual]
  OBVIOUS
<1>3. /\ Idle /\ ~drivers[d].registered /\ Free(driverSlots) # {}
      /\ drivers' = [drivers EXCEPT ![d] = e]
      /\ driverSlots' = [driverSlots EXCEPT ![k] = d]
      /\ IF manual THEN UNCHANGED stack
         ELSE Call([Frame("register_driver", "offer", None) EXCEPT !.driver = d])
      /\ UNCHANGED <<ports, portSlots, poisoned, connected, tally>>
  BY <1>1, <1>2 DEF RegisterDriver
<1>5. /\ driverSlots \in Seq(Drivers \cup {None})
      /\ drivers \in [Drivers -> DriverRecords]
  BY TypeShaped DEF IndInv, Shaped
<1>6. k \in DOMAIN driverSlots /\ driverSlots[k] = None
  BY <1>1, <1>3, <1>5, FreeIs
<1>7. /\ driverSlots' \in Seq(Drivers \cup {None})
      /\ DOMAIN driverSlots' = DOMAIN driverSlots /\ driverSlots'[k] = d
      /\ \A i \in DOMAIN driverSlots : i # k => driverSlots'[i] = driverSlots[i]
  BY <1>3, <1>5, <1>6
<1>8. /\ drivers' \in [Drivers -> DriverRecords] /\ drivers'[d].registered
      /\ \A c \in Drivers : c # d => drivers'[c] = drivers[c]
  BY <1>3, <1>2, <1>5 DEF DriverRecords, Driver
<1>9. Standing'
  <2>1. Shaped'
    BY <1>3, <1>7, <1>8, StandingNow DEF Standing, Shaped
  <2>3. ASSUME NEW c \in Drivers
        PROVE  drivers'[c].registered <=>
                 \E i \in DOMAIN driverSlots' : driverSlots'[i] = c
    BY SerioAssumption, <1>6, <1>7, <1>8 DEF IndInv, SlotsHeld
  <2>5. \A p \in Ports : ports'[p].driver # None =>
                           drivers'[ports'[p].driver].registered
    BY <1>3, <1>8 DEF IndInv, SlotsHeld, TypeOK, PortRecords
  <2>6. SlotsHeld'
    BY <1>3, <2>3, <2>5 DEF IndInv, SlotsHeld
  <2> QED
    BY <2>1, <1>3, <2>6 DEF Standing, IndInv, PortsHeld, NoOrphans
<1>10. \A p \in Ports : /\ ports[p].in_flight = 0 /\ ports'[p].in_flight = 0
                        /\ Owns(p)'
  BY <1>3, IdleCounts DEF Owns
<1>11. CASE manual
  BY <1>3, <1>11, <1>9, <1>10, IdleMoves
<1>12. CASE ~manual
  <2>1. PICK t \in FrameRecords : /\ t = Frame("register_driver", "offer", None)
                                  /\ t.op = "register_driver" /\ t.pc = "offer"
    BY FrameIs DEF Ops, Points
  <2>2. PICK f : f = [t EXCEPT !.driver = d]
    OBVIOUS
  <2>3. /\ f \in FrameRecords /\ f.op = "register_driver" /\ f.pc = "offer"
        /\ f.driver = d
    BY <2>1, <2>2 DEF FrameRecords
  <2>4. f.pc \in Stages(f.op) /\ f.op # "pump" /\ \A q \in Ports : ~Flying(f, q)
    BY <2>3 DEF Stages, Flying, Counted
  <2>5. HeldNext(f)
    BY <2>3, Resting
  <2>6. stack' = Append(stack, f)
    BY <1>3, <1>12, <2>1, <2>2 DEF Call
  <2>8. MayCall
    BY <1>3, IdleCalls
  <2> QED
    BY <1>9, <1>10, <2>3, <2>4, <2>5, <2>6, <2>8, CallMoves
<1> QED
  BY <1>11, <1>12

(* serio_registry_poison. *)
LEMMA PoisonRegistryStep ==
  ASSUME IndInv, PoisonRegistry
  PROVE  IndInv'
<1>1. Idle /\ UNCHANGED <<ports, drivers, portSlots, driverSlots, stack, connected, tally>>
  BY DEF PoisonRegistry
<1>2. Standing'
  BY <1>1, TypeShaped, NoPort DEF IndInv, Shaped
<1> QED
  BY <1>1, <1>2, IdleCounts, IdleMoves DEF Owns

(* A slot more. *)
LEMMA SlotMore ==
  ASSUME NEW V, NEW slots \in Seq(V \cup {None})
  PROVE  /\ Append(slots, None) \in Seq(V \cup {None})
         /\ \A v : v # None =>
              ((\E i \in DOMAIN Append(slots, None) : Append(slots, None)[i] = v)
               <=> \E i \in DOMAIN slots : slots[i] = v)
         /\ \A i \in DOMAIN Append(slots, None) :
              \/ i \in DOMAIN slots /\ Append(slots, None)[i] = slots[i]
              \/ Append(slots, None)[i] = None
         /\ \A i \in DOMAIN slots : /\ i \in DOMAIN Append(slots, None)
                                    /\ Append(slots, None)[i] = slots[i]
<1>1. PICK n \in Nat : n = Len(slots) /\ DOMAIN slots = 1 .. n
  BY LenProperties
<1>2. PICK s : s = Append(slots, None)
  OBVIOUS
<1>4. /\ s \in Seq(V \cup {None}) /\ Len(s) = n + 1
      /\ \A i \in 1 .. n : s[i] = slots[i]
      /\ s[n + 1] = None
  BY <1>1, <1>2, AppendProperties
<1>5. DOMAIN s = 1 .. n + 1
  BY <1>4, LenProperties
<1>6. \A i \in DOMAIN s : (i \in DOMAIN slots /\ s[i] = slots[i]) \/ s[i] = None
  BY <1>1, <1>4, <1>5
<1>7. \A i \in DOMAIN slots : i \in DOMAIN s /\ s[i] = slots[i]
  BY <1>1, <1>4, <1>5
<1> QED
  BY <1>2, <1>4, <1>6, <1>7

(* serio_registry_replace_storage copies the slots to larger arrays. *)
LEMMA ReplaceStorageStep ==
  ASSUME IndInv, ReplaceStorage
  PROVE  IndInv'
<1>1. /\ Idle /\ portSlots' = Append(portSlots, None)
      /\ driverSlots' = Append(driverSlots, None)
      /\ UNCHANGED <<ports, drivers, poisoned, stack, connected, tally>>
  BY DEF ReplaceStorage
<1>2. /\ portSlots \in Seq(Ports \cup {None}) /\ driverSlots \in Seq(Drivers \cup {None})
  BY DEF IndInv, TypeOK
<1>3. /\ portSlots' \in Seq(Ports \cup {None})
      /\ \A v : v # None => ((\E i \in DOMAIN portSlots' : portSlots'[i] = v)
                              <=> \E i \in DOMAIN portSlots : portSlots[i] = v)
      /\ \A i \in DOMAIN portSlots' :
           (i \in DOMAIN portSlots /\ portSlots'[i] = portSlots[i]) \/ portSlots'[i] = None
  BY <1>1, <1>2, SlotMore
<1>4. /\ driverSlots' \in Seq(Drivers \cup {None})
      /\ \A v : v # None => ((\E i \in DOMAIN driverSlots' : driverSlots'[i] = v)
                              <=> \E i \in DOMAIN driverSlots : driverSlots[i] = v)
  BY <1>1, <1>2, SlotMore
<1>5. Shaped'
  BY <1>1, <1>3, <1>4, StandingNow DEF Standing, Shaped
<1>6. PortsHeld' /\ NoOrphans'
  BY <1>1 DEF IndInv, PortsHeld, NoOrphans
<1>7. SlotsHeld'
  <2>1. None \notin Ports /\ None \notin Drivers
    BY SerioAssumption
  <2>2. \A i, j \in DOMAIN portSlots' :
          portSlots'[i] = portSlots'[j] /\ portSlots'[i] # None => i = j
    BY <1>3 DEF IndInv, SlotsHeld
  <2>3. \A p \in Ports : ports'[p].phase # "empty" <=>
                           \E i \in DOMAIN portSlots' : portSlots'[i] = p
    BY <1>3, <2>1, <1>1, Zenon DEF IndInv, SlotsHeld
  <2>5. \A p \in Ports : ports'[p].driver # None =>
                           drivers'[ports'[p].driver].registered
    BY <1>1 DEF IndInv, SlotsHeld
  <2> QED
    BY <2>2, <2>3, <1>4, <2>1, <1>1, <2>5, Zenon DEF SlotsHeld, IndInv
<1> QED
  BY <1>1, <1>5, <1>6, <1>7, IdleCounts, IdleMoves DEF Standing, Owns

-----------------------------------------------------------------------------
(* Bytes: what becomes of a port's queue and its counters.                 *)

(* Where the bytes offered to a port have gone, but for those that wait. *)
Spent(t) ==
  t.handled + t.rejected + t.unbound + t.closed + t.lost + t.stale
    + t.discarded + t.consumed

(* The counters of a port add up to what was offered. *)
LEMMA SpentIs ==
  ASSUME NEW t \in TallyRecords
  PROVE  /\ Spent(t) \in Nat /\ t.offered \in Nat /\ t.last \in Nat
         /\ \A port : Sums(port, t) <=> t.offered = Spent(t) + Len(port.queue)
<1>1. Spent(t) \in Nat /\ t.offered \in Nat /\ t.last \in Nat
  BY DEF TallyRecords, Spent
<1> QED
  BY <1>1 DEF Sums, Spent

(* One of the counters moves. *)
Ways == {"handled", "rejected", "unbound", "closed", "lost", "stale",
         "discarded", "consumed"}

Spend(t, way, n) == [t EXCEPT ![way] = @ + n]

(* n bytes are counted once, in one way. *)
LEMMA Spends ==
  ASSUME NEW t \in TallyRecords, NEW way \in Ways, NEW n \in Nat,
         NEW u, u = Spend(t, way, n)
  PROVE  /\ u \in TallyRecords /\ u.offered = t.offered /\ u.last = t.last
         /\ Spent(u) = Spent(t) + n
         /\ way # "lost" => u.lost = t.lost
<1> u = [t EXCEPT ![way] = @ + n]
  BY DEF Spend
<1>1. /\ t.handled \in Nat /\ t.rejected \in Nat /\ t.unbound \in Nat
      /\ t.closed \in Nat /\ t.lost \in Nat /\ t.stale \in Nat
      /\ t.discarded \in Nat /\ t.consumed \in Nat
  BY DEF TallyRecords
<1>2. Spent(t) = t.handled + t.rejected + t.unbound + t.closed + t.lost + t.stale
                   + t.discarded + t.consumed
  BY DEF Spent
<1>3. CASE way = "handled"
  <2>1. PICK k \in Nat : k = t.handled + n /\ u = [t EXCEPT !.handled = k]
    <3>1. t.handled + n \in Nat
      BY <1>1
    <3> QED
      BY <1>3, <3>1
  <2>2. /\ u \in TallyRecords /\ u.offered = t.offered /\ u.last = t.last
        /\ u.handled = t.handled + n
        /\ u.rejected = t.rejected /\ u.unbound = t.unbound /\ u.closed = t.closed
        /\ u.lost = t.lost /\ u.stale = t.stale /\ u.discarded = t.discarded
        /\ u.consumed = t.consumed
    BY <2>1 DEF TallyRecords
  <2>3. Spent(u) = (t.handled + n) + t.rejected + t.unbound + t.closed + t.lost
                     + t.stale + t.discarded + t.consumed
    BY <2>2, Zenon DEF Spent
  <2>4. Spent(u) = Spent(t) + n
    BY <1>1, <1>2, <2>3
  <2> QED
    BY <1>3, <2>2, <2>4
<1>4. CASE way = "rejected"
  <2>1. PICK k \in Nat : k = t.rejected + n /\ u = [t EXCEPT !.rejected = k]
    <3>1. t.rejected + n \in Nat
      BY <1>1
    <3> QED
      BY <1>4, <3>1
  <2>2. /\ u \in TallyRecords /\ u.offered = t.offered /\ u.last = t.last
        /\ u.rejected = t.rejected + n
        /\ u.handled = t.handled /\ u.unbound = t.unbound /\ u.closed = t.closed
        /\ u.lost = t.lost /\ u.stale = t.stale /\ u.discarded = t.discarded
        /\ u.consumed = t.consumed
    BY <2>1 DEF TallyRecords
  <2>3. Spent(u) = t.handled + (t.rejected + n) + t.unbound + t.closed + t.lost
                     + t.stale + t.discarded + t.consumed
    BY <2>2, Zenon DEF Spent
  <2> QED
    BY <1>1, <1>2, <1>4, <2>2, <2>3
<1>5. CASE way = "unbound"
  <2>1. PICK k \in Nat : k = t.unbound + n /\ u = [t EXCEPT !.unbound = k]
    <3>1. t.unbound + n \in Nat
      BY <1>1
    <3> QED
      BY <1>5, <3>1
  <2>2. /\ u \in TallyRecords /\ u.offered = t.offered /\ u.last = t.last
        /\ u.unbound = t.unbound + n
        /\ u.handled = t.handled /\ u.rejected = t.rejected /\ u.closed = t.closed
        /\ u.lost = t.lost /\ u.stale = t.stale /\ u.discarded = t.discarded
        /\ u.consumed = t.consumed
    BY <2>1 DEF TallyRecords
  <2>3. Spent(u) = t.handled + t.rejected + (t.unbound + n) + t.closed + t.lost
                     + t.stale + t.discarded + t.consumed
    BY <2>2, Zenon DEF Spent
  <2> QED
    BY <1>1, <1>2, <1>5, <2>2, <2>3
<1>6. CASE way = "closed"
  <2>1. PICK k \in Nat : k = t.closed + n /\ u = [t EXCEPT !.closed = k]
    <3>1. t.closed + n \in Nat
      BY <1>1
    <3> QED
      BY <1>6, <3>1
  <2>2. /\ u \in TallyRecords /\ u.offered = t.offered /\ u.last = t.last
        /\ u.closed = t.closed + n
        /\ u.handled = t.handled /\ u.rejected = t.rejected /\ u.unbound = t.unbound
        /\ u.lost = t.lost /\ u.stale = t.stale /\ u.discarded = t.discarded
        /\ u.consumed = t.consumed
    BY <2>1 DEF TallyRecords
  <2>3. Spent(u) = t.handled + t.rejected + t.unbound + (t.closed + n) + t.lost
                     + t.stale + t.discarded + t.consumed
    BY <2>2, Zenon DEF Spent
  <2> QED
    BY <1>1, <1>2, <1>6, <2>2, <2>3
<1>7. CASE way = "lost"
  <2>1. PICK k \in Nat : k = t.lost + n /\ u = [t EXCEPT !.lost = k]
    <3>1. t.lost + n \in Nat
      BY <1>1
    <3> QED
      BY <1>7, <3>1
  <2>2. /\ u \in TallyRecords /\ u.offered = t.offered /\ u.last = t.last
        /\ u.lost = t.lost + n
        /\ u.handled = t.handled /\ u.rejected = t.rejected /\ u.unbound = t.unbound
        /\ u.closed = t.closed /\ u.stale = t.stale /\ u.discarded = t.discarded
        /\ u.consumed = t.consumed
    BY <2>1 DEF TallyRecords
  <2>3. Spent(u) = t.handled + t.rejected + t.unbound + t.closed + (t.lost + n)
                     + t.stale + t.discarded + t.consumed
    BY <2>2, Zenon DEF Spent
  <2> QED
    BY <1>1, <1>2, <1>7, <2>2, <2>3
<1>8. CASE way = "stale"
  <2>1. PICK k \in Nat : k = t.stale + n /\ u = [t EXCEPT !.stale = k]
    <3>1. t.stale + n \in Nat
      BY <1>1
    <3> QED
      BY <1>8, <3>1
  <2>2. /\ u \in TallyRecords /\ u.offered = t.offered /\ u.last = t.last
        /\ u.stale = t.stale + n
        /\ u.handled = t.handled /\ u.rejected = t.rejected /\ u.unbound = t.unbound
        /\ u.closed = t.closed /\ u.lost = t.lost /\ u.discarded = t.discarded
        /\ u.consumed = t.consumed
    BY <2>1 DEF TallyRecords
  <2>3. Spent(u) = t.handled + t.rejected + t.unbound + t.closed + t.lost
                     + (t.stale + n) + t.discarded + t.consumed
    BY <2>2, Zenon DEF Spent
  <2> QED
    BY <1>1, <1>2, <1>8, <2>2, <2>3
<1>9. CASE way = "discarded"
  <2>1. PICK k \in Nat : k = t.discarded + n /\ u = [t EXCEPT !.discarded = k]
    <3>1. t.discarded + n \in Nat
      BY <1>1
    <3> QED
      BY <1>9, <3>1
  <2>2. /\ u \in TallyRecords /\ u.offered = t.offered /\ u.last = t.last
        /\ u.discarded = t.discarded + n
        /\ u.handled = t.handled /\ u.rejected = t.rejected /\ u.unbound = t.unbound
        /\ u.closed = t.closed /\ u.lost = t.lost /\ u.stale = t.stale
        /\ u.consumed = t.consumed
    BY <2>1 DEF TallyRecords
  <2>3. Spent(u) = t.handled + t.rejected + t.unbound + t.closed + t.lost
                     + t.stale + (t.discarded + n) + t.consumed
    BY <2>2, Zenon DEF Spent
  <2> QED
    BY <1>1, <1>2, <1>9, <2>2, <2>3
<1>10. CASE way = "consumed"
  <2>1. PICK k \in Nat : k = t.consumed + n /\ u = [t EXCEPT !.consumed = k]
    <3>1. t.consumed + n \in Nat
      BY <1>1
    <3> QED
      BY <1>10, <3>1
  <2>2. /\ u \in TallyRecords /\ u.offered = t.offered /\ u.last = t.last
        /\ u.consumed = t.consumed + n
        /\ u.handled = t.handled /\ u.rejected = t.rejected /\ u.unbound = t.unbound
        /\ u.closed = t.closed /\ u.lost = t.lost /\ u.stale = t.stale
        /\ u.discarded = t.discarded
    BY <2>1 DEF TallyRecords
  <2>3. Spent(u) = t.handled + t.rejected + t.unbound + t.closed + t.lost
                     + t.stale + t.discarded + (t.consumed + n)
    BY <2>2, Zenon DEF Spent
  <2> QED
    BY <1>1, <1>2, <1>10, <2>2, <2>3
<1> QED
  BY <1>3, <1>4, <1>5, <1>6, <1>7, <1>8, <1>9, <1>10 DEF Ways

(* A callback starts or ends. *)
LEMMA Recounted ==
  ASSUME NEW a, NEW t, NEW c, Good(a, t, c), a.phase # "empty",
         NEW n \in 0 .. MaxNesting, NEW b, b = [a EXCEPT !.in_flight = n]
  PROVE  /\ Good(b, t, c) /\ Kin(a, b) /\ b.in_flight = n
         /\ b.driver = a.driver /\ b.binding_generation = a.binding_generation
         /\ b.queue = a.queue /\ b.phase = a.phase
         /\ b.recovery_required = a.recovery_required
         /\ b.recovery_abandoned = a.recovery_abandoned
         /\ b.stream_loss_epoch = a.stream_loss_epoch
         /\ b.accepting = a.accepting /\ b.next_sequence = a.next_sequence
<1>1. /\ b \in PortRecords /\ Kin(a, b) /\ b.in_flight = n
      /\ b.driver = a.driver /\ b.binding_generation = a.binding_generation
      /\ b.queue = a.queue /\ b.phase = a.phase
      /\ b.recovery_required = a.recovery_required
      /\ b.recovery_abandoned = a.recovery_abandoned
      /\ b.stream_loss_epoch = a.stream_loss_epoch
      /\ b.accepting = a.accepting /\ b.next_sequence = a.next_sequence
      /\ b.generation = a.generation
  BY DEF Good, PortRecords, Kin
<1> QED
  BY <1>1 DEF Good, LifeHeld, Clean, Sums, Ordered

(* The queue behind its head. *)
LEMMA TailIs ==
  ASSUME NEW V, NEW s \in Seq(V), s # << >>
  PROVE  /\ Tail(s) \in Seq(V) /\ Len(s) \in Nat \ {0} /\ Len(Tail(s)) = Len(s) - 1
         /\ Head(s) = s[1] /\ Head(s) \in V /\ 1 \in DOMAIN s
         /\ \A i \in DOMAIN Tail(s) : i \in Nat \ {0} /\ i + 1 \in DOMAIN s
                                        /\ Tail(s)[i] = s[i + 1]
<1>1. PICK n \in Nat \ {0} : n = Len(s) /\ DOMAIN s = 1 .. n
  BY EmptySeq, LenProperties
<1>2. /\ Tail(s) \in Seq(V) /\ Len(Tail(s)) = n - 1
      /\ \A i \in 1 .. n - 1 : Tail(s)[i] = s[i + 1]
      /\ Head(s) = s[1] /\ Head(s) \in V
  BY <1>1, HeadTailProperties
<1> QED
  BY <1>1, <1>2, LenProperties

(* The record at the head leaves the queue. *)
LEMMA Popped ==
  ASSUME NEW a, NEW t, NEW c, Good(a, t, c), a.phase # "empty", a.queue # << >>,
         NEW b, b = [a EXCEPT !.queue = Tail(@)],
         NEW u \in TallyRecords, u.offered = t.offered, Spent(u) = Spent(t) + 1,
         u.last = t.last \/ u.last = Head(a.queue).sequence
  PROVE  /\ Good(b, u, c) /\ Kin(a, b) /\ b.in_flight = a.in_flight
         /\ b.driver = a.driver /\ b.binding_generation = a.binding_generation
         /\ b.queue = Tail(a.queue) /\ b.phase = a.phase
<1>1. a \in PortRecords /\ a.queue \in Seq(Bytes) /\ t \in TallyRecords
  BY DEF Good, PortRecords
<1>2. /\ Tail(a.queue) \in Seq(Bytes) /\ Len(a.queue) \in Nat \ {0}
      /\ Len(Tail(a.queue)) = Len(a.queue) - 1
      /\ Head(a.queue) = a.queue[1] /\ Head(a.queue) \in Bytes /\ 1 \in DOMAIN a.queue
      /\ \A i \in DOMAIN Tail(a.queue) : i \in Nat \ {0} /\ i + 1 \in DOMAIN a.queue
                                     /\ Tail(a.queue)[i] = a.queue[i + 1]
  BY <1>1, TailIs
<1>3. PICK q \in Seq(Bytes) : q = Tail(a.queue)
  BY <1>2
<1>4. /\ b \in PortRecords /\ Kin(a, b) /\ b.in_flight = a.in_flight
      /\ b.driver = a.driver /\ b.binding_generation = a.binding_generation
      /\ b.queue = q /\ b.phase = a.phase
      /\ b.recovery_required = a.recovery_required
      /\ b.stream_loss_epoch = a.stream_loss_epoch
      /\ b.accepting = a.accepting /\ b.next_sequence = a.next_sequence
      /\ b.generation = a.generation
  BY <1>1, <1>3 DEF PortRecords, Kin
<1>5. LifeHeld(b, u, c) /\ Clean(b)
  BY <1>4 DEF Good, LifeHeld, Clean
<1>6. Sums(b, u)
  <2>1. PICK k \in Nat : k = Spent(t)
    BY <1>1, SpentIs
  <2>2. PICK n \in Nat \ {0} : n = Len(a.queue)
    BY <1>2
  <2>4. Spent(u) = k + 1 /\ Len(b.queue) = n - 1 /\ u.offered = k + n
    BY <1>2, <1>3, <1>4, <2>1, <2>2, <1>1, SpentIs DEF Good
  <2>5. u.offered = Spent(u) + Len(b.queue)
    BY <2>4
  <2> QED
    BY <2>5, SpentIs
<1>7. Ordered(b, u)
  <2>1. a.next_sequence \in Nat /\ t.last \in Nat /\ \A e \in Bytes : e.sequence \in Nat
    <3>1. SequenceMax \in Nat
      BY SerioAssumption
    <3>3. \A e \in Bytes : e.sequence \in Nat
      BY <3>1 DEF Bytes
    <3> QED
      BY <1>1, <3>1, <3>3, SpentIs DEF PortRecords
  <2>3. u.last <= b.next_sequence
    BY <1>2, <1>4, <2>1, <1>1 DEF Good, Ordered
  <2>4. ASSUME NEW i \in DOMAIN q
        PROVE  u.last < q[i].sequence /\ q[i].sequence <= b.next_sequence
    BY <1>2, <1>3, <1>4 DEF Good, Ordered
  <2>5. ASSUME NEW i \in DOMAIN q, NEW j \in DOMAIN q, i < j
        PROVE  q[i].sequence < q[j].sequence
    <3>1. /\ i \in Nat \ {0} /\ i + 1 \in DOMAIN a.queue /\ q[i] = a.queue[i + 1]
          /\ j \in Nat \ {0} /\ j + 1 \in DOMAIN a.queue /\ q[j] = a.queue[j + 1]
          /\ i + 1 < j + 1
      BY <1>2, <1>3, <2>5
    <3> QED
      BY <3>1 DEF Good, Ordered
  <2> QED
    BY <1>4, <2>3, <2>4, <2>5 DEF Ordered
<1> QED
  BY <1>3, <1>4, <1>5, <1>6, <1>7, SerioAssumption, <1>2 DEF Good

(* The queue is thrown away. *)
LEMMA Drained ==
  ASSUME NEW a, NEW t, NEW c, Good(a, t, c), a.phase # "empty",
         NEW b \in PortRecords, b.queue = << >>, Kin(a, b), Clean(b),
         b.driver = a.driver, b.phase = a.phase, b.next_sequence = a.next_sequence,
         b.binding_generation = a.binding_generation,
         NEW u, u = [t EXCEPT !.discarded = @ + Len(a.queue)]
  PROVE  Good(b, u, c)
<1>1. t \in TallyRecords /\ a.queue \in Seq(Bytes) /\ Len(a.queue) \in Nat
  BY DEF Good, PortRecords
<1>2. /\ u \in TallyRecords /\ u.offered = t.offered /\ u.last = t.last
      /\ Spent(u) = Spent(t) + Len(a.queue)
  BY <1>1, Spends DEF Ways, Spend
<1>3. Len(b.queue) = 0 /\ DOMAIN b.queue = {} /\ QueueCapacity \in Nat
  BY SerioAssumption
<1>4. Sums(b, u)
  <2>1. Spent(u) \in Nat /\ Sums(a, t)
    BY <1>2, SpentIs DEF Good
  <2>3. u.offered = Spent(u) + Len(b.queue)
    BY <1>2, <1>3, <2>1, <1>1, SpentIs
  <2> QED
    BY <1>2, <2>3, SpentIs
<1>6. LifeHeld(b, u, c)
  BY DEF Good, LifeHeld, Kin
<1> QED
  BY <1>2, <1>3, <1>4, <1>6 DEF Good, Ordered

SpendLast(t, way, l) == [t EXCEPT ![way] = @ + 1, !.last = l]

(* One byte is counted once and becomes the last one delivered. *)
LEMMA SpendsLast ==
  ASSUME NEW t \in TallyRecords, NEW way \in Ways, NEW l \in Nat,
         NEW u, u = SpendLast(t, way, l)
  PROVE  /\ u \in TallyRecords /\ u.offered = t.offered /\ u.last = l
         /\ Spent(u) = Spent(t) + 1
         /\ way # "lost" => u.lost = t.lost
<1>1. PICK v : v = [t EXCEPT ![way] = @ + 1]
  OBVIOUS
<1>2. /\ v \in TallyRecords /\ v.offered = t.offered
      /\ Spent(v) = Spent(t) + 1
      /\ way # "lost" => v.lost = t.lost
  <2>1. 1 \in Nat /\ v = Spend(t, way, 1)
    BY <1>1 DEF Spend
  <2> QED
    BY <2>1, Spends
<1>4. /\ u \in TallyRecords /\ u.offered = v.offered /\ u.last = l
      /\ u.handled = v.handled /\ u.rejected = v.rejected /\ u.unbound = v.unbound
      /\ u.closed = v.closed /\ u.lost = v.lost /\ u.stale = v.stale
      /\ u.discarded = v.discarded /\ u.consumed = v.consumed
  BY <1>2, <1>1 DEF TallyRecords, SpendLast
<1> QED
  BY <1>2, <1>4, Zenon DEF Spent

(* The head of a queue. *)
LEMMA HeadIs ==
  ASSUME NEW a \in PortRecords, a.queue # << >>
  PROVE  Head(a.queue) \in Bytes /\ Head(a.queue).sequence \in Nat
<1>2. Head(a.queue) \in Bytes
  BY TailIs DEF PortRecords
<1> QED
  BY <1>2, SerioAssumption, SMTT(60) DEF Bytes

(* serio_port_consume takes the head of the queue. *)
LEMMA ConsumeStep ==
  ASSUME IndInv, NEW p \in Ports, NEW sequence, Consume(p, sequence)
  PROVE  IndInv'
<1>1. PICK a : a = ports[p]
  OBVIOUS
<1>2. PICK b : b = [a EXCEPT !.queue = Tail(@)]
  OBVIOUS
<1>3. PICK u : u = [tally[p] EXCEPT !.consumed = @ + 1, !.last = sequence]
  OBVIOUS
<1>4. /\ Idle /\ a.phase \in {"active", "quiesced"} /\ a.queue # << >>
      /\ Head(a.queue).sequence = sequence
      /\ ports' = [ports EXCEPT ![p] = b] /\ tally' = [tally EXCEPT ![p] = u]
      /\ UNCHANGED <<registry, stack, connected>>
  BY <1>1, <1>2, <1>3 DEF Consume
<1>5. Good(a, tally[p], connected[p])
        /\ (a.driver # None => drivers[a.driver].registered)
  BY <1>1, GoodNow
<1>6. sequence \in Nat
  BY <1>4, <1>5, HeadIs DEF Good
<1>7. /\ u \in TallyRecords /\ u.offered = tally[p].offered /\ u.last = sequence
      /\ Spent(u) = Spent(tally[p]) + 1
  <2>1. /\ "consumed" \in Ways /\ tally[p] \in TallyRecords
        /\ u = SpendLast(tally[p], "consumed", sequence)
    BY <1>3, <1>5 DEF Ways, Good, SpendLast
  <2> QED
    BY <1>6, <2>1, SpendsLast
<1>8. /\ Good(b, u, connected[p]) /\ Kin(a, b) /\ b.in_flight = a.in_flight
      /\ b.driver = a.driver /\ b.phase = a.phase
  BY <1>2, <1>4, <1>5, <1>7, Popped
<1>9. /\ Standing' /\ ports'[p] = b
      /\ \A q \in Ports : q # p => ports'[q] = ports[q]
  BY <1>4, <1>1, <1>5, <1>8, OnePort, ZenonT(60) DEF IndInv, TypeOK
<1>11. \A q \in Ports : ports'[q].in_flight = 0 /\ Owns(q)'
  BY <1>1, <1>4, <1>8, <1>9, IdleCounts DEF Owns
<1> QED
  BY <1>4, <1>9, <1>11, IdleMoves

(* serio_write enters the port's write callback. *)
LEMMA WriteStep ==
  ASSUME IndInv, NEW p \in Ports, Write(p)
  PROVE  IndInv'
<1>1. PICK a : a = ports[p]
  OBVIOUS
<1>2. PICK n : n = a.in_flight + 1
  OBVIOUS
<1>3. PICK b : b = [a EXCEPT !.in_flight = n]
  OBVIOUS
<1>4. PICK f : f = [Frame("write", "writing", p) EXCEPT !.driver = a.driver,
                     !.binding = a.binding_generation]
  OBVIOUS
<1>5. /\ MayCall /\ a.phase = "active" /\ a.driver # None /\ a.accepting
      /\ ports' = [ports EXCEPT ![p] = b] /\ stack' = Append(stack, f)
      /\ UNCHANGED <<registry, connected, tally>>
  BY <1>1, <1>2, <1>3, <1>4 DEF Write, Call
<1>6. Good(a, tally[p], connected[p])
        /\ (a.driver # None => drivers[a.driver].registered)
  BY <1>1, GoodNow
<1>7. /\ a.driver \in Drivers /\ a.binding_generation \in 0 .. BindingMax
      /\ a.in_flight \in Nat
  BY <1>5, <1>6, SerioAssumption DEF Good, PortRecords
<1>8. n \in 0 .. MaxNesting
  <2>1. a.in_flight \in 0 .. Len(stack)
    BY <1>1, CountsAll DEF IndInv
  <2>2. Len(stack) < MaxNesting
    BY <1>5, AtCall
  <2> QED
    BY <1>2, <2>1, <2>2, SerioAssumption DEF IndInv, StackHeld
<1>9. /\ Good(b, tally[p], connected[p]) /\ Kin(a, b) /\ b.in_flight = n
      /\ b.driver = a.driver /\ b.binding_generation = a.binding_generation
      /\ b.queue = a.queue /\ b.phase = a.phase
      /\ b.recovery_required = a.recovery_required
      /\ b.recovery_abandoned = a.recovery_abandoned
      /\ b.stream_loss_epoch = a.stream_loss_epoch
  BY <1>3, <1>5, <1>6, <1>8, Recounted
<1>10. /\ Standing' /\ ports'[p] = b
       /\ \A q \in Ports : q # p => ports'[q] = ports[q]
  BY <1>5, <1>1, <1>6, <1>9, OnePort, ZenonT(60) DEF IndInv, TypeOK, PortsHeld
<1>12. \A q \in Ports : Owns(q)'
  BY <1>1, <1>5, <1>9, <1>10, AtCall DEF Owns
<1>13. /\ f \in FrameRecords /\ f.op = "write" /\ f.pc = "writing" /\ f.port = p
       /\ f.driver = a.driver /\ f.binding = a.binding_generation
  <2>1. PICK e \in FrameRecords : /\ e = Frame("write", "writing", p)
                                  /\ e.op = "write" /\ e.pc = "writing" /\ e.port = p
    BY FrameIs DEF Ops, Points
  <2> QED
    BY <1>4, <1>7, <2>1 DEF FrameRecords
<1>14. f.pc \in Stages(f.op) /\ f.op # "pump"
  BY <1>13 DEF Stages
<1>15. HeldNext(f)
  BY <1>7, <1>9, <1>10, <1>13 DEF HeldNext, FrameHeld, FlightHeld, Portless
<1>16. \A q \in Ports : ports'[q].in_flight =
                          ports[q].in_flight + IF Flying(f, q) THEN 1 ELSE 0
  <2>1. \A q \in Ports : Flying(f, q) <=> q = p
    BY <1>13 DEF Flying, Counted
  <2>2. \A q \in Ports : ports[q].in_flight \in Nat
    BY SerioAssumption DEF IndInv, TypeOK, PortRecords
  <2> QED
    BY <1>1, <1>2, <1>9, <1>10, <2>1, <2>2
<1> QED
  BY <1>5, <1>10, <1>6, <1>1, <1>9, <1>12, <1>13, <1>14, <1>15, <1>16, CallMoves
  DEF Good, Clean, Undisturbed

(* The write callback returns. *)
LEMMA WriteReturnStep ==
  ASSUME IndInv, WriteReturn
  PROVE  IndInv'
<1>1. stack # << >> /\ Top.pc = "writing"
  BY AtIs DEF WriteReturn
<1>2. /\ Top \in FrameRecords /\ Top.pc \in Stages(Top.op) /\ Held(Top)
      /\ \A q \in Ports : Owns(q)
  BY <1>1, AtTop DEF Busy
<1>3. PICK p \in Ports : /\ p = Top.port /\ ports[p].driver \in Drivers
  BY <1>1, <1>2 DEF Held, FrameHeld, FlightHeld, Portless, Counted
<1>4. PICK a : a = ports[p]
  OBVIOUS
<1>5. PICK n : n = a.in_flight - 1
  OBVIOUS
<1>6. PICK b : b = [a EXCEPT !.in_flight = n]
  OBVIOUS
<1>7. /\ ports' = [ports EXCEPT ![p] = b] /\ stack' = Front(stack)
      /\ UNCHANGED <<registry, connected, tally>>
  BY <1>3, <1>4, <1>5, <1>6 DEF WriteReturn, Return
<1>8. /\ Good(a, tally[p], connected[p])
      /\ (a.driver # None => drivers[a.driver].registered)
      /\ a.phase # "empty"
  BY <1>3, <1>4, GoodNow, SerioAssumption DEF Good, LifeHeld
<1>9. n \in 0 .. MaxNesting
  BY <1>1, <1>3, <1>4, <1>5, AtTop, CountsBelow, SerioAssumption
  DEF Flying, Counted, IndInv, Inflight, Waiting
<1>10. /\ Good(b, tally[p], connected[p]) /\ Kin(a, b) /\ b.in_flight = n
       /\ b.driver = a.driver /\ b.binding_generation = a.binding_generation
       /\ b.queue = a.queue /\ b.phase = a.phase
       /\ b.recovery_required = a.recovery_required
       /\ b.recovery_abandoned = a.recovery_abandoned
       /\ b.stream_loss_epoch = a.stream_loss_epoch
  BY <1>6, <1>8, <1>9, Recounted
<1>11. /\ Standing' /\ ports'[p] = b
       /\ \A q \in Ports : q # p => ports'[q] = ports[q]
  BY <1>7, <1>4, <1>8, <1>10, OnePort, ZenonT(60) DEF IndInv, TypeOK, PortsHeld
<1>13. \A q \in Ports : Owns(q)'
  BY <1>2, <1>4, <1>7, <1>10, <1>11 DEF Owns
<1>14. \A q \in Ports : ports'[q].in_flight =
                          ports[q].in_flight - IF Flying(Top, q) THEN 1 ELSE 0
  <2>1. \A q \in Ports : Flying(Top, q) <=> q = p
    BY <1>1, <1>3 DEF Flying, Counted
  <2>2. \A q \in Ports : ports[q].in_flight \in Nat
    BY SerioAssumption DEF IndInv, TypeOK, PortRecords
  <2> QED
    BY <1>4, <1>5, <1>10, <1>11, <2>1, <2>2
<1> QED
  BY <1>1, <1>7, <1>11, <1>5, <1>10, <1>4, <1>13, <1>14, TopMoves DEF Undisturbed

(* The pump runs under no other call. *)
LEMMA PumpIs ==
  ASSUME IndInv, stack # << >>, Top.pc \in {"pump", "pumping"}
  PROVE  /\ Top.op = "pump" /\ Front(stack) = << >>
         /\ Top \in FrameRecords /\ Held(Top)
         /\ Top.port \in Ports /\ Top.budget # 0
         /\ Under(Front(stack)) /\ Len(Front(stack)) < MaxNesting
         /\ \A q \in Ports :
              /\ Owns(q) /\ Inflight(Front(stack), q) = 0
              /\ ports[q].in_flight = IF Flying(Top, q) THEN 1 ELSE 0
<1>1. /\ Top \in FrameRecords /\ Top.pc \in Stages(Top.op) /\ Held(Top)
      /\ Top.op = "pump" => Front(stack) = << >>
      /\ Waiting(Front(stack)) /\ Len(Front(stack)) < MaxNesting
      /\ Len(Front(stack)) <= MaxNesting
      /\ \A p \in Ports :
           /\ Inflight(Front(stack), p) =
                ports[p].in_flight - IF Flying(Top, p) THEN 1 ELSE 0
           /\ (p = Top.port /\ Top.pc \in Busy) \/ Owns(p)
  BY AtTop
<1>2. Top.op = "pump"
  BY <1>1 DEF FrameRecords, Ops, Stages
<1>3. Top.pc \notin Busy /\ Top.pc \notin Portless
  BY DEF Busy, Portless
<1>5. \A q \in Ports : Inflight(Front(stack), q) = 0
  <2>1. << >> \in Seq(FrameRecords) /\ DOMAIN << >> = {}
    OBVIOUS
  <2>2. \A q : Cardinality(Flights(<< >>, q)) = 0
    BY <2>1, FlightsFinite
  <2> QED
    BY <1>1, <1>2, <2>2 DEF Inflight
<1>6. \A q \in Ports : ports[q].in_flight = IF Flying(Top, q) THEN 1 ELSE 0
  <2>1. \A q \in Ports : ports[q].in_flight \in Nat
    BY SerioAssumption DEF IndInv, TypeOK, PortRecords
  <2> QED
    BY <1>1, <1>5, <2>1
<1>7. Under(Front(stack))
  BY <1>1, <1>5, UnderIs
<1> QED
  BY <1>1, <1>2, <1>3, <1>5, <1>6, <1>7 DEF Held, FrameHeld

(* serio_port_pump drops a stale head, calls the driver with a current *)
(* one, or ends.                                                       *)
LEMMA PumpNextStep ==
  ASSUME IndInv, PumpNext
  PROVE  IndInv'
<1>1. stack # << >> /\ Top.pc = "pump"
  BY AtIs DEF PumpNext
<1>2. /\ Top.op = "pump" /\ Front(stack) = << >>
      /\ Top \in FrameRecords /\ Held(Top) /\ Top.budget # 0
      /\ Under(Front(stack)) /\ Len(Front(stack)) < MaxNesting
      /\ \A q \in Ports :
           /\ Owns(q) /\ Inflight(Front(stack), q) = 0 /\ ports[q].in_flight = 0
  BY <1>1, PumpIs DEF Flying, Counted
<1>3. PICK p \in Ports : p = Top.port
  BY <1>1, PumpIs
<1>4. PICK a : a = ports[p]
  OBVIOUS
<1>5. /\ Good(a, tally[p], connected[p])
      /\ (a.driver # None => drivers[a.driver].registered)
      /\ a.in_flight = 0 /\ a.in_flight \in Nat
  BY <1>2, <1>4, GoodNow
<1>6. connected \in [Ports -> Drivers \cup {None, Abandoned}]
  BY DEF IndInv, TypeOK
<1>7. CASE Return /\ UNCHANGED <<ports, tally, registry, connected>>
  BY <1>7, ControlIs, <1>1, ControlTops DEF Counted, Busy, Return
<1>8. CASE /\ a.phase = "active" /\ a.queue # << >>
           /\ ports' = [ports EXCEPT ![p].queue = Tail(@)]
           /\ Count(p, "stale")
           /\ UNCHANGED <<stack, registry, connected>>
  <2>1. PICK b : b = [a EXCEPT !.queue = Tail(@)]
    OBVIOUS
  <2>2. PICK u : u = Spend(tally[p], "stale", 1)
    OBVIOUS
  <2>3. ports' = [ports EXCEPT ![p] = b] /\ tally' = [tally EXCEPT ![p] = u]
          /\ UNCHANGED registry /\ connected' = connected
    BY <1>4, <1>8, <2>1, <2>2 DEF Count, Spend
  <2>4. /\ u \in TallyRecords /\ u.offered = tally[p].offered
        /\ u.last = tally[p].last /\ Spent(u) = Spent(tally[p]) + 1
    <3>1. tally[p] \in TallyRecords /\ "stale" \in Ways /\ 1 \in Nat
      BY <1>5 DEF Good, Ways
    <3> QED
      BY <2>2, <3>1, Spends
  <2>5. /\ Good(b, u, connected[p]) /\ Kin(a, b) /\ b.in_flight = a.in_flight
        /\ b.driver = a.driver /\ b.phase = a.phase
    BY <1>5, <1>8, <2>1, <2>4, Popped
  <2>6. /\ Standing' /\ ports'[p] = b
        /\ \A q \in Ports : q # p => ports'[q] = ports[q]
    BY <1>4, <1>5, <1>6, <2>3, <2>5, OnePort
  <2>7. \A q \in Ports : ports'[q].in_flight = 0 /\ Owns(q)'
    BY <1>2, <1>4, <1>5, <1>8, <2>5, <2>6 DEF Owns
  <2>8. Fit(Front(stack), Top) /\ HeldNext(Top) /\ ~(Top.pc \in Counted)
    BY <1>1, <1>2, AtTop, <1>3 DEF Fit, HeldNext, FrameHeld, Counted, Portless
  <2>9. stack' = Append(Front(stack), Top)
    BY <1>1, <1>8, AtTop
  <2> QED
    BY <1>2, <2>6, <2>7, <2>8, <2>9, Goes DEF Flying
<1>9. CASE /\ a.phase = "active" /\ a.queue # << >> /\ Usable(a.driver)
           /\ ~Stale(Head(a.queue), a)
           /\ ports' = [ports EXCEPT ![p].in_flight = @ + 1]
           /\ Become([Top EXCEPT !.pc = "pumping", !.driver = a.driver,
                                 !.binding = a.binding_generation,
                                 !.event = Head(a.queue)])
           /\ UNCHANGED <<tally, registry, connected>>
  <2>1. PICK b : b = [a EXCEPT !.in_flight = 1]
    OBVIOUS
  <2>2. PICK f : f = [Top EXCEPT !.pc = "pumping", !.driver = a.driver,
                                 !.binding = a.binding_generation,
                                 !.event = Head(a.queue)]
    OBVIOUS
  <2>3. /\ ports' = [ports EXCEPT ![p] = b] /\ tally' = [tally EXCEPT ![p] = tally[p]]
        /\ stack' = Append(Front(stack), f)
        /\ UNCHANGED registry /\ connected' = connected
    <3>1. ports' = [ports EXCEPT ![p] = b]
      <4>2. 0 + 1 = 1
        OBVIOUS
      <4> QED
        BY <1>4, <2>1, <1>5, <1>9, <4>2
    <3>2. stack' = Append(Front(stack), f)
      BY <1>9, <2>2, Zenon DEF Become
    <3> QED
      BY <1>9, <3>1, <3>2 DEF IndInv, PortsHeld
  <2>4. 1 \in 0 .. MaxNesting
    BY SerioAssumption
  <2>5. /\ Good(b, tally[p], connected[p]) /\ Kin(a, b) /\ b.in_flight = 1
        /\ b.driver = a.driver /\ b.binding_generation = a.binding_generation
        /\ b.queue = a.queue /\ b.phase = a.phase
    BY <1>5, <1>9, <2>1, <2>4, Recounted
  <2>6. /\ Standing' /\ ports'[p] = b
        /\ \A q \in Ports : q # p => ports'[q] = ports[q]
    BY <1>4, <1>5, <1>6, <2>3, <2>5, OnePort, ZenonT(60)
  <2>7. \A q \in Ports : Owns(q)'
    BY <1>2, <1>4, <1>9, <2>5, <2>6 DEF Owns
  <2>8. /\ a.driver \in Drivers /\ a.binding_generation \in 0 .. BindingMax
        /\ Head(a.queue) \in Bytes
    BY <1>5, <1>9, HeadIs DEF Usable, Good, PortRecords
  <2>9. /\ f \in FrameRecords /\ f.op = "pump" /\ f.pc = "pumping" /\ f.port = p
        /\ f.driver = a.driver /\ f.binding = a.binding_generation
        /\ f.event = Head(a.queue) /\ f.budget # 0
    BY <1>2, <1>3, <2>2, <2>8 DEF Points, FrameRecords
  <2>10. Fit(Front(stack), f)
    BY <1>2, <2>9 DEF Fit, Stages
  <2>11. HeldNext(f)
    BY <1>9, <2>9, <2>5, <2>6, <2>8
    DEF Stale, HeldNext, FrameHeld, FlightHeld, PumpHeld, Portless
  <2>12. \A q \in Ports : ports'[q].in_flight =
                            Inflight(Front(stack), q) + IF Flying(f, q) THEN 1 ELSE 0
    BY <2>9, <1>2, <2>5, <2>6 DEF Flying, Counted
  <2> QED
    BY <1>2, <2>3, <2>6, <2>7, <2>10, <2>11, <2>12, Goes
<1> QED
  BY <1>3, <1>4, <1>7, <1>8, <1>9 DEF PumpNext

(* The driver takes or defers the byte it was pumped, which is still the *)
(* head.                                                                 *)
LEMMA PumpReturnStep ==
  ASSUME IndInv, PumpReturn
  PROVE  IndInv'
<1>1. stack # << >> /\ Top.pc = "pumping"
  BY AtIs DEF PumpReturn
<1>2. /\ Top.op = "pump" /\ Front(stack) = << >>
      /\ Top \in FrameRecords /\ Held(Top) /\ Top.budget # 0
      /\ Under(Front(stack)) /\ Len(Front(stack)) < MaxNesting
      /\ \A q \in Ports :
           /\ Owns(q) /\ Inflight(Front(stack), q) = 0
           /\ ports[q].in_flight = IF Flying(Top, q) THEN 1 ELSE 0
  BY <1>1, PumpIs
<1>3. PICK p \in Ports : p = Top.port
  BY <1>1, PumpIs
<1>4. PICK a : a = ports[p]
  OBVIOUS
<1>5. /\ Good(a, tally[p], connected[p])
      /\ (a.driver # None => drivers[a.driver].registered)
      /\ a.driver \in Drivers
  BY <1>1, <1>2, <1>3, <1>4, GoodNow DEF Held, FrameHeld, FlightHeld, Counted
<1>6. /\ a.in_flight = 1 /\ \A q \in Ports : q # p => ports[q].in_flight = 0
      /\ a.phase # "empty" /\ a.queue # << >> /\ Head(a.queue) = Top.event
  BY <1>1, <1>3, <1>2, <1>4, <1>5, SerioAssumption
  DEF Flying, Counted, Held, FrameHeld, PumpHeld, Good, LifeHeld
<1>7. connected \in [Ports -> Drivers \cup {None, Abandoned}]
  BY DEF IndInv, TypeOK
<1>8. PICK e : e = [a EXCEPT !.in_flight = 0]
  OBVIOUS
<1>9. /\ Good(e, tally[p], connected[p]) /\ Kin(a, e) /\ e.in_flight = 0
      /\ e.driver = a.driver /\ e.queue = a.queue /\ e.phase = a.phase
  BY SerioAssumption, <1>5, <1>6, <1>8, Recounted
<1>10. UNCHANGED registry /\ connected' = connected
  BY DEF PumpReturn
<1>11. CASE /\ ports' = [ports EXCEPT ![p].in_flight = @ - 1]
            /\ Return /\ UNCHANGED tally
  <2>1. ports' = [ports EXCEPT ![p] = e]
    <3>2. 1 - 1 = 0
      OBVIOUS
    <3> QED
      BY <1>4, <1>8, <1>6, <1>11, <3>2
  <2>2. tally' = [tally EXCEPT ![p] = tally[p]] /\ stack' = Front(stack)
    BY <1>11 DEF IndInv, PortsHeld, Return
  <2>3. /\ Standing' /\ ports'[p] = e
        /\ \A q \in Ports : q # p => ports'[q] = ports[q]
    BY <1>4, <1>5, <1>7, <1>9, <1>10, <2>1, <2>2, OnePort
  <2> QED
    BY <1>2, <2>2, <2>3, <1>4, <1>6, <1>9, <1>10, Returns DEF Owns
<1>12. ASSUME NEW answer \in {"handled", "rejected"},
              ports' = [ports EXCEPT ![p].in_flight = @ - 1, ![p].queue = Tail(@)],
              tally' = [tally EXCEPT ![p][answer] = @ + 1,
                                     ![p].last = Top.event.sequence],
              IF Top.budget = 1 THEN Return
              ELSE Become([Top EXCEPT !.pc = "pump", !.budget = @ - 1,
                           !.driver = None, !.binding = 0, !.event = None])
       PROVE  IndInv'
  <2>1. PICK b : b = [e EXCEPT !.queue = Tail(@)]
    OBVIOUS
  <2>2. PICK l \in Nat : l = Top.event.sequence
    BY <1>5, <1>6, HeadIs DEF Good
  <2>3. PICK u : u = SpendLast(tally[p], answer, l)
    OBVIOUS
  <2>4. ports' = [ports EXCEPT ![p] = b]
    <3>1. ports' = [ports EXCEPT ![p] = [a EXCEPT !.in_flight = @ - 1, !.queue = Tail(@)]]
      BY <1>4, <1>12
    <3>2. [a EXCEPT !.in_flight = @ - 1, !.queue = Tail(@)]
            = [a EXCEPT !.in_flight = 0, !.queue = Tail(@)]
      BY <1>6
    <3>3. [a EXCEPT !.in_flight = 0, !.queue = Tail(@)] = b
      BY <1>8, <2>1
    <3> QED
      BY <3>1, <3>2, <3>3
  <2>5. tally' = [tally EXCEPT ![p] = u]
    BY <1>12, <2>2, <2>3 DEF SpendLast
  <2>6. /\ u \in TallyRecords /\ u.offered = tally[p].offered
        /\ u.last = l /\ Spent(u) = Spent(tally[p]) + 1
    <3>1. tally[p] \in TallyRecords /\ answer \in Ways
      BY <1>5 DEF Good, Ways
    <3> QED
      BY <2>3, <3>1, SpendsLast
  <2>7. /\ Good(b, u, connected[p]) /\ Kin(e, b) /\ b.in_flight = 0
        /\ b.driver = a.driver /\ b.phase = a.phase
    BY <1>6, <1>9, <2>1, <2>2, <2>6, Popped
  <2>8. Kin(a, b)
    BY <1>9, <2>7 DEF Kin
  <2>9. /\ Standing' /\ ports'[p] = b
        /\ \A q \in Ports : q # p => ports'[q] = ports[q]
    BY <1>4, <1>5, <1>7, <1>10, <2>4, <2>5, <2>7, <2>8, OnePort
  <2>10. \A q \in Ports : Owns(q)' /\ ports'[q].in_flight = 0
    BY <1>2, <1>4, <1>6, <1>10, <2>7, <2>9 DEF Owns
  <2>11. CASE Top.budget = 1
    BY <1>12, <2>11, <1>2, <2>9, <2>10, Returns DEF Return
  <2>12. CASE Top.budget # 1
    <3>1. PICK k \in 0 .. QueueCapacity : k # 0 /\ k = Top.budget - 1
      BY <1>2, SerioAssumption, <2>12 DEF FrameRecords
    <3>2. PICK f : f = [Top EXCEPT !.pc = "pump", !.budget = k,
                           !.driver = None, !.binding = 0, !.event = None]
      OBVIOUS
    <3>3. stack' = Append(Front(stack), f)
      BY <1>12, <2>12, <3>1, <3>2 DEF Become
    <3>4. /\ f \in FrameRecords /\ f.op = "pump" /\ f.pc = "pump" /\ f.port = p
          /\ f.budget # 0
      <4>1. "pump" \in Points /\ 0 \in 0 .. BindingMax
        BY SerioAssumption DEF Points
      <4> QED
        BY <1>2, <1>3, <3>1, <3>2, <4>1 DEF FrameRecords
    <3>5. Fit(Front(stack), f)
      BY <1>2, <3>4 DEF Fit, Stages
    <3>6. HeldNext(f)
      BY <3>4 DEF HeldNext, FrameHeld, Counted, Portless
    <3> QED
      BY <1>2, <2>9, <2>10, <3>3, <3>5, <3>6, <3>4, Goes DEF Flying, Counted
  <2> QED
    BY <2>11, <2>12
<1> QED
  BY <1>3, <1>11, <1>12 DEF PumpReturn

-----------------------------------------------------------------------------
(* Loss, recovery and isolation.                                           *)

(* isolate_stream_locked counts every byte it discards and leaves the *)
(* binding alone.                                                     *)
LEMMA Isolating ==
  ASSUME NEW a, NEW t, NEW c, Good(a, t, c), a.phase # "empty",
         NEW b, b = Isolated(a),
         NEW u, u = [t EXCEPT !.discarded = @ + Len(a.queue)]
  PROVE  /\ Good(b, u, c) /\ Kin(a, b) /\ b.in_flight = a.in_flight
         /\ b.driver = a.driver /\ b.phase = a.phase
         /\ b.binding_generation = a.binding_generation
<1>1. a \in PortRecords /\ Clean(a)
  BY DEF Good
<1>2. << >> \in Seq(Bytes)
  OBVIOUS
<1>3. /\ b \in PortRecords /\ Kin(a, b) /\ b.in_flight = a.in_flight
      /\ b.driver = a.driver /\ b.phase = a.phase /\ b.queue = << >>
      /\ b.binding_generation = a.binding_generation
      /\ b.next_sequence = a.next_sequence /\ ~b.accepting
      /\ b.recovery_required = a.recovery_required
      /\ b.stream_loss_epoch = a.stream_loss_epoch
  BY <1>1, <1>2 DEF Isolated, PortRecords, Kin
<1>5. Good(b, u, c)
  BY <1>3, <1>1, Drained DEF Clean
<1> QED
  BY <1>3, <1>5

(* A port in no callback is isolated under the call that runs. *)
LEMMA IsolatesStep ==
  ASSUME IndInv, NEW p \in Ports, MayCall, ports[p].phase = "active",
         ports[p].in_flight = 0,
         ports' = [ports EXCEPT ![p] = Isolated(ports[p])], Discarded(p),
         UNCHANGED <<registry, stack, connected>>
  PROVE  IndInv'
<1>1. PICK a : a = ports[p]
  OBVIOUS
<1>2. PICK b : b = Isolated(a)
  OBVIOUS
<1>3. PICK u : u = [tally[p] EXCEPT !.discarded = @ + Len(a.queue)]
  OBVIOUS
<1>4. /\ ports' = [ports EXCEPT ![p] = b] /\ tally' = [tally EXCEPT ![p] = u]
      /\ UNCHANGED registry /\ connected' = connected /\ stack' = stack
  BY <1>1, <1>2, <1>3 DEF Discarded
<1>5. /\ Good(a, tally[p], connected[p])
      /\ (a.driver # None => drivers[a.driver].registered)
  BY <1>1, GoodNow
<1>6. /\ Good(b, u, connected[p]) /\ Kin(a, b) /\ b.in_flight = a.in_flight
      /\ b.driver = a.driver /\ b.phase = a.phase
  BY <1>1, <1>2, <1>3, <1>5, Isolating
<1>8. /\ Standing' /\ ports'[p] = b
      /\ \A q \in Ports : q # p => ports'[q] = ports[q]
  BY <1>1, <1>4, <1>5, <1>6, OnePort, ZenonT(60) DEF IndInv, TypeOK
<1>10. \A q \in Ports : Owns(q)'
  BY <1>1, <1>4, <1>6, <1>8, AtCall DEF Owns
<1> QED
  BY <1>4, <1>8, <1>1, <1>6, <1>10, CallMoves DEF Undisturbed

(* serio_port_isolate_stream. *)
LEMMA IsolateStreamStep ==
  ASSUME IndInv, NEW p \in Ports, NEW epoch, IsolateStream(p, epoch)
  PROVE  IndInv'
<1> QED
  BY IsolatesStep DEF IsolateStream

(* serio_port_recover_stream drains the queue and calls reconnect, alone *)
(* on its port.                                                          *)
LEMMA RecoverStreamStep ==
  ASSUME IndInv, NEW p \in Ports, NEW epoch \in 1 .. EpochMax, RecoverStream(p, epoch)
  PROVE  IndInv'
<1>1. PICK a : a = ports[p]
  OBVIOUS
<1>2. /\ MayCall /\ a.phase = "active" /\ a.in_flight = 0 /\ a.recovery_required
      /\ ~a.recovery_abandoned /\ a.stream_loss_epoch = epoch
      /\ Discarded(p) /\ UNCHANGED registry /\ connected' = connected
  BY <1>1 DEF RecoverStream, MayRecover
<1>3. /\ Good(a, tally[p], connected[p])
      /\ (a.driver # None => drivers[a.driver].registered)
  BY <1>1, GoodNow
<1>4. CASE ports' = [ports EXCEPT ![p] = Isolated(ports[p])] /\ UNCHANGED stack
  BY <1>1, <1>2, <1>4, IsolatesStep
<1>5. CASE /\ Usable(a.driver)
           /\ ports' = [ports EXCEPT ![p].queue = << >>, ![p].in_flight = @ + 1]
           /\ Call([Frame("recover", "reconnecting", p) EXCEPT !.epoch = epoch,
                      !.driver = a.driver, !.binding = a.binding_generation])
  <2>1. PICK b : b = [a EXCEPT !.queue = << >>, !.in_flight = 1]
    OBVIOUS
  <2>2. PICK u : u = [tally[p] EXCEPT !.discarded = @ + Len(a.queue)]
    OBVIOUS
  <2>3. PICK f : f = [Frame("recover", "reconnecting", p) EXCEPT !.epoch = epoch,
                       !.driver = a.driver, !.binding = a.binding_generation]
    OBVIOUS
  <2>4. ports' = [ports EXCEPT ![p] = b]
    <3>1. ports' = [ports EXCEPT ![p] = [a EXCEPT !.queue = << >>, !.in_flight = @ + 1]]
      BY <1>1, <1>5
    <3>3. 0 + 1 = 1
      OBVIOUS
    <3> QED
      BY <2>1, <3>1, <1>2, <3>3
  <2>5. tally' = [tally EXCEPT ![p] = u] /\ stack' = Append(stack, f)
    BY <1>1, <1>2, <1>5, <2>2, <2>3 DEF Discarded, Call
  <2>6. a \in PortRecords /\ Clean(a)
    BY <1>3 DEF Good
  <2>7. /\ b \in PortRecords /\ Kin(a, b) /\ b.in_flight = 1
        /\ b.driver = a.driver /\ b.phase = a.phase /\ b.queue = << >>
        /\ b.binding_generation = a.binding_generation
        /\ b.next_sequence = a.next_sequence /\ b.accepting = a.accepting
        /\ b.recovery_required = a.recovery_required
        /\ b.recovery_abandoned = a.recovery_abandoned
        /\ b.stream_loss_epoch = a.stream_loss_epoch
    <3>1. << >> \in Seq(Bytes) /\ 1 \in 0 .. MaxNesting
      BY SerioAssumption
    <3> QED
      BY <2>1, <2>6, <3>1 DEF PortRecords, Kin
  <2>9. /\ Standing' /\ ports'[p] = b
        /\ \A q \in Ports : q # p => ports'[q] = ports[q]
    BY <1>1, <1>2, <1>3, <2>7, <2>6, <2>2, Drained, <2>5, <2>4, OnePort
    DEF IndInv, TypeOK, Clean
  <2>11. /\ a.driver \in Drivers /\ a.binding_generation \in 0 .. BindingMax
         /\ epoch \in 0 .. EpochMax
    <3>1. EpochMax \in Nat
      BY SerioAssumption
    <3> QED
      BY <1>5, <2>6, <3>1 DEF Usable, PortRecords
  <2>12. /\ f \in FrameRecords /\ f.op = "recover" /\ f.pc = "reconnecting"
         /\ f.port = p /\ f.epoch = epoch
         /\ f.driver = a.driver /\ f.binding = a.binding_generation
    <3>1. PICK e \in FrameRecords : /\ e = Frame("recover", "reconnecting", p)
                                    /\ e.op = "recover" /\ e.pc = "reconnecting"
                                    /\ e.port = p
      BY FrameIs DEF Ops, Points
    <3> QED
      BY <2>3, <2>11, <3>1 DEF FrameRecords
  <2>13. f.pc \in Stages(f.op) /\ f.op # "pump"
    BY <2>12 DEF Stages
  <2>14. HeldNext(f)
    BY <1>2, <2>7, <2>9, <2>11, <2>12
    DEF HeldNext, FrameHeld, FlightHeld, RecoveryHeld, Portless
  <2>15. \A q \in Ports : ports'[q].in_flight =
                            ports[q].in_flight + IF Flying(f, q) THEN 1 ELSE 0
    <3>1. \A q \in Ports : Flying(f, q) <=> q = p
      BY <2>12 DEF Flying, Counted
    <3>2. \A q \in Ports : ports[q].in_flight \in Nat
      BY SerioAssumption DEF IndInv, TypeOK, PortRecords
    <3> QED
      BY <1>1, <1>2, <2>7, <2>9, <3>1, <3>2
  <2> QED
    BY <1>2, <2>5, <2>9, <1>1, <2>7, AtCall, <2>12, <2>13, <2>14, <2>15, CallMoves
    DEF Owns, Undisturbed
<1> QED
  BY <1>1, <1>4, <1>5 DEF RecoverStream

(* A recovery that has answered finds its port as it left it, in no other *)
(* callback.                                                              *)
LEMMA RecoveryIs ==
  ASSUME IndInv, stack # << >>, Top.pc = "reconnecting", NEW a, a = ports[Top.port]
  PROVE  /\ Top.port \in Ports /\ a.phase = "active" /\ a.recovery_required
         /\ ~a.recovery_abandoned /\ a.queue = << >> /\ a.in_flight = 1
         /\ a.stream_loss_epoch = Top.epoch /\ Top.epoch \in 0 .. EpochMax
         /\ a.driver = Top.driver /\ a.driver \in Drivers
         /\ a.binding_generation = Top.binding
         /\ \A q \in Ports : Owns(q)
<1>1. Top \in FrameRecords /\ Held(Top) /\ \A q \in Ports : Owns(q)
  BY AtTop DEF Busy
<1> QED
  BY <1>1 DEF FlightHeld, RecoveryHeld, FrameRecords, Held, FrameHeld, Portless, Counted

Reopen(e, epoch) ==
  [e EXCEPT !.stream_recovery_epoch = epoch, !.recovery_required = FALSE,
            !.recovery_abandoned = FALSE, !.accepting = TRUE]

(* A stream reopened under its latest loss is clean. *)
LEMMA Reopened ==
  ASSUME NEW e, NEW t, NEW c, Good(e, t, c), e.phase = "active",
         NEW epoch \in 0 .. EpochMax,
         NEW b, b = Reopen(e, epoch)
  PROVE  /\ Good(b, t, c) /\ Kin(e, b) /\ b.in_flight = e.in_flight
         /\ b.driver = e.driver /\ b.phase = e.phase /\ b.queue = e.queue
         /\ ~b.recovery_required /\ b.stream_recovery_epoch = epoch
<1>2. /\ b \in PortRecords /\ Kin(e, b) /\ b.in_flight = e.in_flight
      /\ b.driver = e.driver /\ b.phase = e.phase /\ b.queue = e.queue
      /\ b.binding_generation = e.binding_generation
      /\ b.next_sequence = e.next_sequence /\ b.generation = e.generation
      /\ ~b.recovery_required /\ b.stream_recovery_epoch = epoch
  BY DEF PortRecords, Kin, Reopen, Good
<1> QED
  BY <1>2 DEF Good, LifeHeld, Clean, Sums, Ordered

(* reconnect returns: the stream reopens, stays closed or is isolated. *)
LEMMA RecoverReturnStep ==
  ASSUME IndInv, RecoverReturn
  PROVE  IndInv'
<1>1. stack # << >> /\ Top.pc = "reconnecting"
  BY AtIs DEF RecoverReturn
<1>2. PICK p \in Ports : p = Top.port
  BY <1>1, RecoveryIs
<1>3. PICK a : a = ports[p]
  OBVIOUS
<1>4. /\ a.phase = "active" /\ a.recovery_required
      /\ a.queue = << >> /\ a.in_flight = 1
      /\ a.stream_loss_epoch = Top.epoch /\ Top.epoch \in 0 .. EpochMax
      /\ a.driver = Top.driver /\ a.driver \in Drivers
      /\ a.binding_generation = Top.binding
      /\ \A q \in Ports : Owns(q)
  BY <1>1, <1>2, <1>3, RecoveryIs
<1>5. PICK e : e = [a EXCEPT !.in_flight = 0]
  OBVIOUS
<1>6. /\ Good(a, tally[p], connected[p])
      /\ (a.driver # None => drivers[a.driver].registered)
  BY <1>3, GoodNow
<1>7. /\ Good(e, tally[p], connected[p]) /\ Kin(a, e) /\ e.in_flight = 0
      /\ e.driver = a.driver /\ e.binding_generation = a.binding_generation
      /\ e.queue = a.queue /\ e.phase = a.phase
      /\ e.recovery_required = a.recovery_required
      /\ e.stream_loss_epoch = a.stream_loss_epoch
  <2>2. a.phase # "empty"
    BY <1>4
  <2> QED
    BY <1>5, <1>6, SerioAssumption, <2>2, Recounted
<1>8. PICK r : r = Reopen(e, Top.epoch)
  OBVIOUS
<1>9. PICK u : u = [tally[p] EXCEPT !.discarded = @ + Len(a.queue)]
  OBVIOUS
<1>10. \/ ports' = [ports EXCEPT ![p] = r] /\ UNCHANGED tally
       \/ ports' = [ports EXCEPT ![p] = e] /\ UNCHANGED tally
       \/ ports' = [ports EXCEPT ![p] = Isolated(e)] /\ tally' = [tally EXCEPT ![p] = u]
  <2>2. \/ ports' = [ports EXCEPT ![p] = r] /\ UNCHANGED tally
        \/ ports' = [ports EXCEPT ![p] = e] /\ UNCHANGED tally
        \/ ports' = [ports EXCEPT ![p] = Isolated(e)] /\ Discarded(p)
    BY <1>2, <1>3, <1>4, <1>7, <1>8, <1>5 DEF RecoverReturn, Reopen
  <2> QED
    BY <1>3, <1>9, <2>2 DEF Discarded
<1>11. /\ stack' = Front(stack) /\ UNCHANGED registry /\ connected' = connected
  BY DEF RecoverReturn, Return
<1>12. PICK b, t : /\ ports' = [ports EXCEPT ![p] = b]
                   /\ tally' = [tally EXCEPT ![p] = t]
                   /\ Good(b, t, connected[p]) /\ Kin(e, b) /\ b.in_flight = 0
                   /\ b.driver = a.driver /\ b.phase = a.phase
  <2>1. tally = [tally EXCEPT ![p] = tally[p]]
    BY DEF IndInv, PortsHeld
  <2>2. CASE ports' = [ports EXCEPT ![p] = r] /\ UNCHANGED tally
    <3>1. /\ Good(r, tally[p], connected[p]) /\ Kin(e, r) /\ r.in_flight = 0
          /\ r.driver = a.driver /\ r.phase = a.phase
      BY <1>4, <1>7, <1>8, Reopened
    <3> QED
      BY <2>1, <2>2, <3>1
  <2>3. CASE ports' = [ports EXCEPT ![p] = e] /\ UNCHANGED tally
    BY <1>7, <2>1, <2>3 DEF Kin
  <2>4. CASE ports' = [ports EXCEPT ![p] = Isolated(e)]
             /\ tally' = [tally EXCEPT ![p] = u]
    <3>2. PICK i : i = Isolated(e)
      OBVIOUS
    <3>3. /\ Good(i, u, connected[p]) /\ Kin(e, i)
          /\ i.in_flight = e.in_flight
          /\ i.driver = e.driver /\ i.phase = e.phase
      BY <1>4, <1>7, <1>9, <3>2, Isolating
    <3> QED
      BY <1>7, <2>4, <3>2, <3>3
  <2> QED
    BY <1>10, <2>2, <2>3, <2>4
<1>14. /\ Standing' /\ ports'[p] = b
       /\ \A q \in Ports : q # p => ports'[q] = ports[q]
  BY <1>3, <1>6, <1>11, <1>12, <1>7, OnePort DEF IndInv, TypeOK, Kin
<1>16. \A q \in Ports :
         /\ ports'[q].in_flight = ports[q].in_flight - IF Flying(Top, q) THEN 1 ELSE 0
         /\ Undisturbed(q) \/ ports'[q].in_flight = 0
  <2>1. \A q \in Ports : Flying(Top, q) <=> q = p
    BY <1>1, <1>2 DEF Flying, Counted
  <2>2. \A q \in Ports : ports[q].in_flight \in Nat
    BY SerioAssumption DEF IndInv, TypeOK, PortRecords
  <2>3. \A q \in Ports : q # p => Undisturbed(q)
    BY <1>14 DEF Undisturbed
  <2> QED
    BY <1>3, <1>4, <1>12, <1>14, <2>1, <2>2, <2>3
<1> QED
  BY <1>1, <1>11, <1>14, <1>3, <1>4, <1>12, <1>16, TopMoves DEF Owns

-----------------------------------------------------------------------------
(* The hard interrupt.                                                     *)

(* What an interrupt may do to a port under whatever call it interrupts. *)
Calm(a, b) ==
  /\ Kin(a, b) /\ b.driver = a.driver /\ b.in_flight = a.in_flight
  /\ b.binding_generation = a.binding_generation
  /\ b.accepting => a.accepting
  /\ b.phase = a.phase \/ (a.phase = "active" /\ b.phase = "poisoned")
  /\ a.queue # << >> => b.queue # << >> /\ Head(b.queue) = Head(a.queue)
  /\ a.recovery_required => b = a

(* Calm is reflexive and transitive: an interrupt may do several things. *)
LEMMA CalmIs ==
  ASSUME NEW a, NEW b, NEW e
  PROVE  /\ Calm(a, a)
         /\ Calm(a, e) /\ Calm(e, b) => Calm(a, b)
<1>2. ASSUME Calm(a, e), Calm(e, b)
      PROVE  Calm(a, b)
  BY <1>2, Zenon DEF Calm, Kin
<1> QED
  BY <1>2 DEF Calm, Kin

(* A calm change of one port keeps the invariant under any call. *)
LEMMA Interrupted ==
  ASSUME IndInv, NEW p \in Ports, NEW b, NEW u,
         ports' = [ports EXCEPT ![p] = b], tally' = [tally EXCEPT ![p] = u],
         UNCHANGED <<registry, stack, connected>>,
         Good(b, u, connected[p]), Calm(ports[p], b)
  PROVE  IndInv'
<1>1. connected' = connected /\ UNCHANGED registry /\ stack' = stack
        /\ drivers' = drivers /\ driverSlots' = driverSlots
  BY DEF registry
<1>2. /\ Standing' /\ ports'[p] = b
      /\ \A q \in Ports : q # p => ports'[q] = ports[q]
  BY <1>1, GoodNow, OnePort DEF IndInv, TypeOK, Calm, Upright
<1>4. \A q \in Ports : Calm(ports[q], ports'[q])
  BY <1>2, CalmIs
<1>5. /\ \A f : SubtreeHeld(f, ports) => SubtreeHeld(f, ports')
      /\ \A f : f.port \in Ports /\ LeafHeld(f, ports) => LeafHeld(f, ports')
      /\ \A f : WithdrawalHeld(f, ports) => WithdrawalHeld(f, ports')
  BY <1>4, <1>2, TreeKept DEF Calm, Standing, Shaped
<1>6. ASSUME NEW f \in FrameRecords, Held(f)
      PROVE  HeldNext(f)
  <2>1. f.pc \notin Portless => f.port \in Ports
    BY <1>6 DEF Held, FrameHeld
  <2>2. f.pc \in Counted => FlightHeld(f, ports')
    <3>1. SUFFICES ASSUME f.pc \in Counted PROVE FlightHeld(f, ports')
      OBVIOUS
    <3> QED
      BY <1>4, <1>6, <3>1 DEF FlightHeld, Calm, Held, FrameHeld, Counted, Portless
  <2>3. f.pc = "pumping" => PumpHeld(f, ports')
    <3>1. SUFFICES ASSUME f.pc = "pumping" PROVE PumpHeld(f, ports')
      OBVIOUS
    <3> QED
      BY <1>4, <1>6, <3>1 DEF PumpHeld, Calm, Held, FrameHeld, Portless
  <2>4. f.pc = "reconnecting" => RecoveryHeld(f, ports')
    <3>1. SUFFICES ASSUME f.pc = "reconnecting" PROVE RecoveryHeld(f, ports')
      OBVIOUS
    <3> QED
      BY <1>4, <1>6, <3>1 DEF RecoveryHeld, Calm, Held, FrameHeld, Portless
  <2>5. f.pc = "publish" => PublishHeld(f, ports', drivers', driverSlots', connected')
    <3>1. SUFFICES ASSUME f.pc = "publish"
                   PROVE  PublishHeld(f, ports', drivers', driverSlots', connected')
      OBVIOUS
    <3>2. f.port \in Ports /\ PublishHeld(f, ports, drivers, driverSlots, connected)
      BY <1>6, <3>1 DEF Held, FrameHeld, Portless
    <3> QED
      BY <1>1, <3>2, <1>4 DEF PublishHeld, Calm
  <2>6. f.pc \in {"open", "detach", "disconnect", "stop", "clear"} =>
          f.port \in Ports /\ ports'[f.port].in_flight = 0
    BY <1>4, <1>6, <2>1 DEF Held, FrameHeld, Portless, Calm
  <2>7. f.pc \in {"undo", "disconnect", "stop"} => ports'[f.port].driver = None
    BY <1>4, <1>6, <2>1 DEF Held, FrameHeld, Portless, Calm
  <2>8. f.pc = "clear" =>
          ports'[f.port].phase = "poisoned" \/ ports'[f.port].driver = None
    BY <1>4, <1>6, <2>1 DEF Held, FrameHeld, Portless, Calm
  <2>9. /\ f.op = "unregister_subtree" => SubtreeHeld(f, ports')
        /\ f.op = "unregister_driver" => WithdrawalHeld(f, ports')
    BY <1>5, <1>6 DEF Held, FrameHeld
  <2>10. f.op \in {"quiesce", "unregister_subtree"}
          /\ f.pc \in {"detach", "disconnect", "stop", "clear"} => LeafHeld(f, ports')
    BY <1>5, <1>6, <2>6 DEF Held, FrameHeld
  <2> QED
    BY <2>1, <2>2, <2>3, <2>4, <2>5, <2>6, <2>7, <2>8, <2>9, <2>10, <1>1, <1>6
    DEF HeldNext, FrameHeld, Held
<1>7. StackHeld'
  <2>1. /\ stack \in Seq(FrameRecords) /\ Len(stack) <= MaxNesting
        /\ \A i \in DOMAIN stack :
             /\ stack[i] \in FrameRecords /\ stack[i].pc \in Stages(stack[i].op)
             /\ i < Len(stack) => stack[i].pc \in Counted
             /\ stack[i].op = "pump" => i = 1
             /\ Held(stack[i])
    BY DEF IndInv, StackHeld, Held
  <2> QED
    BY <1>1, <2>1, <1>6 DEF StackHeld, HeldNext
<1>9. ConnectionsOwned'
  BY <1>4, <1>1 DEF Calm, IndInv, ConnectionsOwned
<1> QED
  BY <1>2, <1>7, <1>1, <1>4, CountsAll, TypeKept, <1>9 DEF IndInv, Standing, Calm

(* A byte more is offered, and goes one way. *)
Offered(t) == [t EXCEPT !.offered = @ + 1]

(* A byte that arrives is offered and not yet spent. *)
LEMMA OfferedIs ==
  ASSUME NEW t \in TallyRecords, NEW u, u = Offered(t)
  PROVE  /\ u \in TallyRecords /\ u.offered = t.offered + 1 /\ u.last = t.last
         /\ Spent(u) = Spent(t) /\ u.lost = t.lost
<1>1. PICK k \in Nat : k = t.offered + 1 /\ u = [t EXCEPT !.offered = k]
  BY DEF TallyRecords, Offered
<1>2. /\ u \in TallyRecords /\ u.offered = t.offered + 1 /\ u.last = t.last
      /\ u.handled = t.handled /\ u.rejected = t.rejected /\ u.unbound = t.unbound
      /\ u.closed = t.closed /\ u.lost = t.lost /\ u.stale = t.stale
      /\ u.discarded = t.discarded /\ u.consumed = t.consumed
  BY <1>1 DEF TallyRecords
<1> QED
  BY <1>2, Zenon DEF Spent

(* A byte that arrives and is counted at once. *)
LEMMA OfferedSpent ==
  ASSUME NEW t \in TallyRecords, NEW way \in Ways, NEW u, u = Spend(Offered(t), way, 1)
  PROVE  /\ u \in TallyRecords /\ u.offered = t.offered + 1 /\ u.last = t.last
         /\ Spent(u) = Spent(t) + 1
         /\ way # "lost" => u.lost = t.lost
<1>1. PICK v \in TallyRecords : /\ v = Offered(t) /\ v.offered = t.offered + 1
                                /\ v.last = t.last /\ v.lost = t.lost
                                /\ Spent(v) = Spent(t)
  BY OfferedIs
<1>3. /\ u \in TallyRecords /\ u.offered = v.offered /\ u.last = v.last
      /\ Spent(u) = Spent(v) + 1
      /\ way # "lost" => u.lost = v.lost
  BY <1>1, Spends
<1> QED
  BY <1>1, <1>3

(* A byte that arrives and is delivered at once. *)
LEMMA OfferedSpentLast ==
  ASSUME NEW t \in TallyRecords, NEW way \in Ways, NEW l \in Nat,
         NEW u, u = SpendLast(Offered(t), way, l)
  PROVE  /\ u \in TallyRecords /\ u.offered = t.offered + 1 /\ u.last = l
         /\ Spent(u) = Spent(t) + 1
         /\ way # "lost" => u.lost = t.lost
<1>1. PICK v \in TallyRecords : /\ v = Offered(t) /\ v.offered = t.offered + 1
                                /\ v.lost = t.lost /\ Spent(v) = Spent(t)
  BY OfferedIs
<1>3. /\ u \in TallyRecords /\ u.offered = v.offered /\ u.last = l
      /\ Spent(u) = Spent(v) + 1
      /\ way # "lost" => u.lost = v.lost
  BY <1>1, SpendsLast
<1> QED
  BY <1>1, <1>3

(* The byte is not queued: the port keeps its queue. *)
LEMMA Passed ==
  ASSUME NEW a, NEW t, NEW c, Good(a, t, c), a.phase # "empty",
         NEW u \in TallyRecords, u.offered = t.offered + 1, Spent(u) = Spent(t) + 1,
         u.last = t.last
  PROVE  Good(a, u, c)
<1>1. t \in TallyRecords /\ Sums(a, t) /\ Len(a.queue) \in Nat
  BY DEF Good, PortRecords
<1>2. Sums(a, u)
  <2>1. /\ t.offered = Spent(t) + Len(a.queue) /\ Spent(t) \in Nat
        /\ t.offered \in Nat
    BY <1>1, SpentIs
  <2>2. u.offered = Spent(u) + Len(a.queue)
    BY <1>1, <2>1
  <2> QED
    BY <2>2, SpentIs
<1> QED
  BY <1>2 DEF Good, LifeHeld, Ordered

(* The byte takes a number. *)
LEMMA Numbered ==
  ASSUME NEW a, NEW t, NEW c, Good(a, t, c), a.phase = "active",
         ~a.recovery_required, a.next_sequence < SequenceMax,
         NEW e, e = [a EXCEPT !.next_sequence = a.next_sequence + 1]
  PROVE  /\ Good(e, t, c) /\ Calm(a, e) /\ e.phase = "active" /\ ~e.recovery_required
         /\ e.queue = a.queue /\ e.next_sequence = a.next_sequence + 1
         /\ e.driver = a.driver /\ e.accepting = a.accepting
         /\ e.next_sequence \in Nat
<1>1. a \in PortRecords /\ SequenceMax \in Nat
  BY SerioAssumption DEF Good
<1>2. PICK n \in 0 .. SequenceMax : n = a.next_sequence + 1
  BY <1>1 DEF PortRecords
<1>4. /\ e \in PortRecords /\ Kin(a, e) /\ e.phase = a.phase
      /\ e.in_flight = a.in_flight
      /\ e.recovery_required = a.recovery_required /\ e.queue = a.queue
      /\ e.next_sequence = n /\ e.driver = a.driver /\ e.accepting = a.accepting
      /\ e.binding_generation = a.binding_generation
      /\ e.stream_loss_epoch = a.stream_loss_epoch /\ e.generation = a.generation
  BY <1>1, <1>2 DEF PortRecords, Kin
<1>5. Calm(a, e)
  BY <1>4 DEF Calm
<1>7. Ordered(e, t)
  <2>1. a.next_sequence \in Nat /\ n = a.next_sequence + 1 /\ a.queue \in Seq(Bytes)
    BY <1>1, <1>2 DEF PortRecords
  <2>2. \A i \in DOMAIN a.queue : a.queue[i].sequence \in Nat
    <3>2. \A x \in Bytes : x.sequence \in Nat
      BY <1>1 DEF Bytes
    <3> QED
      BY <2>1, <3>2
  <2>3. t.last \in Nat
    BY SpentIs DEF Good
  <2> QED
    BY <1>4, <2>1, <2>2, <2>3 DEF Good, Ordered
<1> QED
  BY <1>2, <1>4, <1>5, <1>7 DEF Good, LifeHeld, Clean, Sums

(* mark_stream_loss closes the port, for recovery or for good. *)
LEMMA Marked ==
  ASSUME NEW e, NEW t, NEW c, Good(e, t, c), e.phase = "active",
         NEW b, b = MarkStreamLoss(e)
  PROVE  Good(b, t, c) /\ Calm(e, b) /\ b.phase # "empty"
<1>1. e \in PortRecords /\ EpochMax \in Nat /\ Clean(e)
        /\ e.stream_loss_epoch \in 0 .. EpochMax
  BY SerioAssumption DEF Good, PortRecords
<1>2. CASE e.recovery_required
  BY <1>2, CalmIs DEF MarkStreamLoss
<1>3. CASE ~e.recovery_required /\ e.stream_loss_epoch >= EpochMax
  <2>1. b = [e EXCEPT !.accepting = FALSE, !.recovery_abandoned = TRUE,
                      !.phase = "poisoned"]
    BY <1>3 DEF MarkStreamLoss
  <2>2. /\ b \in PortRecords /\ Kin(e, b) /\ b.phase = "poisoned" /\ ~b.accepting
        /\ b.in_flight = e.in_flight
        /\ b.recovery_required = e.recovery_required /\ b.queue = e.queue
        /\ b.next_sequence = e.next_sequence /\ b.driver = e.driver
        /\ b.binding_generation = e.binding_generation
        /\ b.stream_loss_epoch = EpochMax /\ b.generation = e.generation
    <3>1. "poisoned" \in Phases /\ e.stream_loss_epoch = EpochMax
      BY <1>1, <1>3 DEF Phases
    <3> QED
      BY <1>1, <2>1, <3>1, ZenonT(60) DEF PortRecords, Kin
  <2>3. Calm(e, b)
    BY <1>3, <2>2 DEF Calm
  <2> QED
    BY <2>2, <2>3 DEF Good, LifeHeld, Clean, Sums, Ordered
<1>4. CASE ~e.recovery_required /\ ~(e.stream_loss_epoch >= EpochMax)
  <2>2. PICK n \in 0 .. EpochMax : n = e.stream_loss_epoch + 1
    BY <1>1, <1>4
  <2>3. b = [e EXCEPT !.stream_loss_epoch = n, !.recovery_required = TRUE,
                      !.recovery_abandoned = FALSE, !.accepting = FALSE]
    BY <1>4, <2>2 DEF MarkStreamLoss
  <2>4. /\ b \in PortRecords /\ Kin(e, b) /\ b.phase = "active" /\ ~b.accepting
        /\ b.in_flight = e.in_flight /\ b.queue = e.queue
        /\ b.next_sequence = e.next_sequence /\ b.driver = e.driver
        /\ b.binding_generation = e.binding_generation
        /\ b.generation = e.generation
    BY <1>1, <2>3, ZenonT(60) DEF PortRecords, Kin
  <2>5. Calm(e, b)
    BY <1>4, <2>4 DEF Calm
  <2> QED
    BY <2>4, <2>5 DEF Good, LifeHeld, Clean, Sums, Ordered
<1> QED
  BY <1>2, <1>3, <1>4

(* The event of the byte an open port takes for its driver. *)
LEMMA EventIs ==
  ASSUME NEW a, NEW t, NEW c, Good(a, t, c), a.phase = "active",
         a.driver \in Drivers, a.next_sequence < SequenceMax
  PROVE  Event(a) \in Bytes /\ Event(a).sequence = a.next_sequence + 1
<1>1. /\ a \in PortRecords /\ a.generation # 0 /\ a.binding_generation # 0
  BY SerioAssumption DEF Good, LifeHeld
<1>2. /\ a.next_sequence \in 0 .. SequenceMax /\ a.generation \in 0 .. GenerationMax
      /\ a.binding_generation \in 0 .. BindingMax
      /\ SequenceMax \in Nat /\ GenerationMax \in Nat /\ BindingMax \in Nat
  BY <1>1, SerioAssumption DEF PortRecords
<1>3. /\ a.next_sequence + 1 \in 1 .. SequenceMax
      /\ a.generation \in 1 .. GenerationMax
      /\ a.binding_generation \in 1 .. BindingMax
  BY <1>1, <1>2
<1> QED
  BY <1>3 DEF Event, Bytes

(* queue_event behind what waits already. *)
Enqueue(a, event) ==
  [[a EXCEPT !.next_sequence = a.next_sequence + 1] EXCEPT !.queue = Append(@, event)]

(* A byte that is queued is the youngest, and the head stays. *)
LEMMA Queued ==
  ASSUME NEW a, NEW t, NEW c, Good(a, t, c), a.phase = "active",
         ~a.recovery_required, a.next_sequence < SequenceMax,
         Len(a.queue) < QueueCapacity,
         NEW event \in Bytes, event.sequence = a.next_sequence + 1,
         NEW b, b = Enqueue(a, event),
         NEW u, u = Offered(t)
  PROVE  Good(b, u, c) /\ Calm(a, b)
<1> PICK e : e = [a EXCEPT !.next_sequence = a.next_sequence + 1]
  OBVIOUS
<1> b = [e EXCEPT !.queue = Append(@, event)]
  BY DEF Enqueue
<1>1. /\ Good(e, t, c) /\ Calm(a, e) /\ e.phase = "active" /\ ~e.recovery_required
      /\ e.queue = a.queue /\ e.next_sequence = a.next_sequence + 1
      /\ e.next_sequence \in Nat
  BY Numbered
<1>2. /\ e \in PortRecords /\ a.queue \in Seq(Bytes) /\ QueueCapacity \in Nat
      /\ t \in TallyRecords /\ SequenceMax \in Nat /\ a.next_sequence \in Nat
  BY <1>1, SerioAssumption DEF Good, PortRecords
<1>3. PICK n \in Nat : n = Len(a.queue) /\ DOMAIN a.queue = 1 .. n
  BY <1>2, LenProperties
<1>4. PICK s : s = Append(a.queue, event)
  OBVIOUS
<1>5. /\ s \in Seq(Bytes) /\ Len(s) = n + 1 /\ DOMAIN s = 1 .. n + 1
      /\ \A i \in 1 .. n : s[i] = a.queue[i]
      /\ s[n + 1] = event /\ s # << >>
  BY <1>2, <1>3, <1>4, AppendProperties, LenProperties
<1>6. b = [e EXCEPT !.queue = s]
  BY <1>1, <1>4
<1>7. /\ b \in PortRecords /\ Kin(e, b) /\ b.phase = "active"
      /\ b.in_flight = e.in_flight /\ b.queue = s
      /\ b.accepting = e.accepting /\ b.recovery_required = e.recovery_required
      /\ b.next_sequence = e.next_sequence /\ b.driver = e.driver
      /\ b.binding_generation = e.binding_generation
      /\ b.stream_loss_epoch = e.stream_loss_epoch
      /\ b.generation = e.generation
  BY <1>1, <1>2, <1>5, <1>6 DEF PortRecords, Kin
<1>8. Calm(e, b)
  <2>1. e.queue # << >> => b.queue # << >> /\ Head(b.queue) = Head(e.queue)
    <3>1. SUFFICES ASSUME e.queue # << >> PROVE Head(s) = Head(a.queue)
      BY <1>1, <1>5, <1>7
    <3>2. Head(a.queue) = a.queue[1] /\ 1 \in DOMAIN a.queue
      BY <1>1, <1>2, <3>1, TailIs
    <3>3. Head(s) = s[1]
      BY <1>5, TailIs
    <3> QED
      BY <1>3, <1>5, <3>2, <3>3
  <2> QED
    BY <1>1, <1>7, <2>1 DEF Calm
<1>9. /\ u \in TallyRecords /\ u.offered = t.offered + 1 /\ u.last = t.last
      /\ Spent(u) = Spent(t)
  BY <1>2, OfferedIs
<1>10. Sums(b, u)
  <2>1. Spent(t) \in Nat /\ t.offered = Spent(t) + n
    BY <1>2, <1>3, SpentIs DEF Good
  <2>2. u.offered = Spent(u) + Len(b.queue)
    BY <1>5, <1>7, <1>9, <2>1
  <2> QED
    BY <1>9, <2>2, SpentIs
<1>11. Ordered(b, u)
  <2>1. /\ t.last \in Nat /\ t.last <= a.next_sequence
        /\ \A i \in 1 .. n : /\ a.queue[i].sequence \in Nat
                             /\ t.last < a.queue[i].sequence
                             /\ a.queue[i].sequence <= a.next_sequence
        /\ \A i, j \in 1 .. n : i < j => a.queue[i].sequence < a.queue[j].sequence
    <3>1. \A i \in 1 .. n : a.queue[i] \in Bytes
      BY <1>2, <1>3
    <3>3. \A i \in 1 .. n : a.queue[i].sequence \in Nat
      BY <3>1, <1>2 DEF Bytes
    <3> QED
      BY <1>2, <1>3, <3>3, SpentIs DEF Good, Ordered
  <2>2. ASSUME NEW i \in 1 .. n + 1
        PROVE  t.last < s[i].sequence /\ s[i].sequence <= a.next_sequence + 1
    BY <1>2, <1>5, <2>1, SMTT(60)
  <2>3. ASSUME NEW i \in 1 .. n + 1, NEW j \in 1 .. n + 1, i < j
        PROVE  s[i].sequence < s[j].sequence
    <3>1. i \in 1 .. n /\ (j \in 1 .. n \/ j = n + 1)
      BY <2>3
    <3>2. CASE j \in 1 .. n
      BY <2>1, <2>3, <3>1, <3>2, <1>5
    <3>3. CASE j = n + 1
      <4>1. s[j].sequence = a.next_sequence + 1 /\ s[i] = a.queue[i]
        BY <1>5, <3>1, <3>3
      <4> QED
        BY <1>2, <4>1, <2>1, <3>1
    <3> QED
      BY <3>1, <3>2, <3>3
  <2>4. u.last <= b.next_sequence
    BY <1>1, <1>2, <1>7, <1>9, <2>1
  <2> QED
    BY <1>1, <1>5, <1>7, <1>9, <2>2, <2>3, <2>4 DEF Ordered
<1>13. Len(b.queue) <= QueueCapacity
  BY <1>2, <1>3, <1>5, <1>7
<1>14. Calm(a, b)
  BY <1>1, <1>8, CalmIs
<1> QED
  BY <1>7, <1>9, <1>10, <1>11, <1>1, <1>13, <1>14 DEF Good, LifeHeld, Clean

(* The driver takes the byte in the interrupt. *)
LEMMA Delivered ==
  ASSUME NEW a, NEW t, NEW c, Good(a, t, c), a.phase = "active",
         ~a.recovery_required, a.next_sequence < SequenceMax, a.queue = << >>,
         NEW e, e = [a EXCEPT !.next_sequence = a.next_sequence + 1],
         NEW u \in TallyRecords, u.offered = t.offered + 1, Spent(u) = Spent(t) + 1,
         u.last = a.next_sequence + 1
  PROVE  Good(e, u, c) /\ Calm(a, e)
<1>1. /\ Good(e, t, c) /\ Calm(a, e) /\ e.phase = "active"
      /\ e.queue = << >> /\ e.next_sequence = a.next_sequence + 1
      /\ e.next_sequence \in Nat
  BY Numbered
<1>2. PICK v : v = [u EXCEPT !.last = t.last]
  OBVIOUS
<1>4. /\ v \in TallyRecords /\ v.offered = u.offered /\ v.last = t.last
      /\ u.handled = v.handled /\ u.rejected = v.rejected /\ u.unbound = v.unbound
      /\ u.closed = v.closed /\ u.lost = v.lost /\ u.stale = v.stale
      /\ u.discarded = v.discarded /\ u.consumed = v.consumed
  BY <1>2, SpentIs DEF TallyRecords, Good
<1>5. Spent(u) = Spent(v)
  BY <1>4, Zenon DEF Spent
<1>7. Sums(e, u)
  BY <1>1, <1>4, <1>5, Passed, SpentIs DEF Good
<1>8. Ordered(e, u)
  BY <1>1 DEF Ordered
<1> QED
  BY <1>1, <1>7, <1>8 DEF Good, LifeHeld

(* What serio_interrupt makes of one port. *)
Takes(p, b, u) ==
  /\ ports' = [ports EXCEPT ![p] = b] /\ tally' = [tally EXCEPT ![p] = u]
  /\ Good(b, u, connected[p]) /\ Calm(ports[p], b)
  /\ ReceivePreflight(ports[p]) = "ok" => u.lost = tally[p].lost

(* A byte with no room closes the stream or poisons the port, and is *)
(* counted as lost.                                                  *)
LEMMA LoseIs ==
  ASSUME IndInv, NEW p \in Ports, NEW e, Good(e, tally[p], connected[p]),
         e.phase = "active", Calm(ports[p], e), Lose(p, e),
         ReceivePreflight(ports[p]) # "ok"
  PROVE  \E b, u : Takes(p, b, u)
<1>1. PICK b : b = MarkStreamLoss(e)
  OBVIOUS
<1>2. PICK u : u = Spend(Offered(tally[p]), "lost", 1)
  OBVIOUS
<1>4. Good(b, tally[p], connected[p]) /\ Calm(e, b) /\ b.phase # "empty"
  BY <1>1, Marked
<1>5. /\ u \in TallyRecords /\ u.offered = tally[p].offered + 1
      /\ u.last = tally[p].last /\ Spent(u) = Spent(tally[p]) + 1
  BY <1>2, OfferedSpent DEF Ways, Good
<1>6. Good(b, u, connected[p])
  BY <1>4, <1>5, Passed
<1>7. Calm(ports[p], b)
  BY <1>4, CalmIs
<1> QED
  BY <1>1, <1>2, <1>6, <1>7 DEF Takes, Lose, Spend, Offered

(* Every branch of serio_interrupt. *)
LEMMA InterruptIs ==
  ASSUME IndInv, NEW p \in Ports, Interrupt(p)
  PROVE  \E b, u : Takes(p, b, u)
<1>1. PICK a : a = ports[p]
  OBVIOUS
<1>2. PICK t \in TallyRecords : t = tally[p] /\ Good(a, t, connected[p])
  BY <1>1, GoodNow DEF Good
<1>3. a.phase = "active" /\ Calm(ports[p], a)
  BY <1>1, CalmIs DEF Interrupt
<1>4. PICK e : e = [a EXCEPT !.next_sequence = Event(a).sequence]
  OBVIOUS
<1>5. Event(a).sequence = a.next_sequence + 1
  BY DEF Event
<1>6. CASE a.recovery_required /\ Lose(p, a)
  BY <1>1, <1>6, <1>2, <1>3, LoseIs DEF ReceivePreflight
<1>7. CASE /\ ~a.recovery_required /\ ~a.accepting
           /\ tally' = [tally EXCEPT ![p].offered = @ + 1, ![p].closed = @ + 1]
           /\ UNCHANGED ports
  <2>1. PICK u : u = Spend(Offered(t), "closed", 1)
    OBVIOUS
  <2>2. ports' = [ports EXCEPT ![p] = a] /\ tally' = [tally EXCEPT ![p] = u]
    BY <1>1, <1>7, <1>2, <2>1 DEF IndInv, TypeOK, Spend, Offered
  <2>3. /\ u \in TallyRecords /\ u.offered = t.offered + 1
        /\ u.last = t.last /\ Spent(u) = Spent(t) + 1 /\ u.lost = t.lost
    BY <2>1, OfferedSpent DEF Ways
  <2>4. Good(a, u, connected[p])
    BY <1>3, <1>2, <2>3, Passed
  <2> QED
    BY <1>2, <1>3, <2>2, <2>3, <2>4 DEF Takes
<1>8. CASE /\ ~a.recovery_required /\ a.accepting
           /\ a.next_sequence >= SequenceMax /\ Lose(p, a)
  BY <1>1, <1>8, <1>2, <1>3, LoseIs DEF ReceivePreflight
<1>9. ASSUME ~a.recovery_required, a.accepting, a.next_sequence < SequenceMax,
             \/ /\ ~Usable(a.driver)
                /\ ports' = [ports EXCEPT ![p] = e]
                /\ tally' = [tally EXCEPT ![p].offered = @ + 1, ![p].unbound = @ + 1]
             \/ Usable(a.driver) /\ QueueEvent(p, e, Event(a))
             \/ /\ Usable(a.driver) /\ a.queue = << >>
                /\ a.in_flight >= InFlightMax /\ Lose(p, e)
             \/ /\ Usable(a.driver) /\ a.queue = << >>
                /\ \E answer \in {"handled", "rejected"} :
                     /\ ports' = [ports EXCEPT ![p] = e]
                     /\ tally' = [tally EXCEPT ![p].offered = @ + 1,
                                  ![p][answer] = @ + 1,
                                  ![p].last = Event(a).sequence]
      PROVE  \E b, u : Takes(p, b, u)
  <2>1. e = [a EXCEPT !.next_sequence = a.next_sequence + 1]
    BY <1>4, <1>5
  <2>2. /\ Good(e, t, connected[p]) /\ Calm(a, e) /\ e.phase = "active"
        /\ ~e.recovery_required /\ e.queue = a.queue /\ e.next_sequence \in Nat
        /\ e.next_sequence = a.next_sequence + 1
    BY <1>2, <1>3, <1>9, <2>1, Numbered
  <2>3. CASE /\ ~Usable(a.driver)
             /\ ports' = [ports EXCEPT ![p] = e]
             /\ tally' = [tally EXCEPT ![p].offered = @ + 1, ![p].unbound = @ + 1]
    <3>1. PICK u : u = Spend(Offered(t), "unbound", 1)
      OBVIOUS
    <3>2. tally' = [tally EXCEPT ![p] = u]
      BY <1>2, <2>3, <3>1 DEF Spend, Offered
    <3>3. /\ u \in TallyRecords /\ u.offered = t.offered + 1
          /\ u.last = t.last /\ Spent(u) = Spent(t) + 1 /\ u.lost = t.lost
      BY <3>1, OfferedSpent DEF Ways
    <3>4. Good(e, u, connected[p])
      BY <2>2, <3>3, Passed
    <3> QED
      BY <1>1, <1>2, <2>2, <2>3, <3>2, <3>3, <3>4 DEF Takes
  <2>4. CASE Usable(a.driver) /\ QueueEvent(p, e, Event(a))
    <3>1. CASE Len(e.queue) >= QueueCapacity
      BY <2>4, <3>1, <1>1, <2>2, <1>2, LoseIs DEF QueueEvent, ReceivePreflight
    <3>2. CASE ~(Len(e.queue) >= QueueCapacity)
      <4>1. PICK b : b = [e EXCEPT !.queue = Append(@, Event(a))]
        OBVIOUS
      <4>2. PICK u : u = Offered(t)
        OBVIOUS
      <4>4. PICK event \in Bytes : /\ event = Event(a)
                                   /\ event.sequence = a.next_sequence + 1
        BY <1>2, <2>4, <1>3, <1>9, EventIs DEF Usable, Good, PortRecords
      <4>5. Len(a.queue) < QueueCapacity
        <5>1. Len(a.queue) \in Nat /\ QueueCapacity \in Nat
          BY <1>2, SerioAssumption DEF Good, PortRecords
        <5> QED
          BY <2>2, <3>2, <5>1
      <4>6. b = Enqueue(a, event)
        BY <2>1, <4>1, <4>4 DEF Enqueue
      <4>7. Good(b, u, connected[p]) /\ Calm(a, b)
        BY <1>2, <1>3, <1>9, <4>2, <4>4, <4>5, <4>6, Queued
      <4>8. u.lost = t.lost
        BY <4>2, OfferedIs
      <4> QED
        BY <1>1, <1>2, <2>4, <3>2, <4>1, <4>2, <4>7, <4>8 DEF Takes, QueueEvent, Offered
    <3> QED
      BY <3>1, <3>2
  <2>5. CASE a.in_flight >= InFlightMax
    <3>1. a.in_flight \in 0 .. MaxNesting
      BY <1>2 DEF Good, PortRecords
    <3> QED
      BY <2>5, <3>1, SerioAssumption
  <2>6. ASSUME NEW answer \in {"handled", "rejected"},
               Usable(a.driver), a.queue = << >>,
               ports' = [ports EXCEPT ![p] = e],
               tally' = [tally EXCEPT ![p].offered = @ + 1, ![p][answer] = @ + 1,
                                      ![p].last = Event(a).sequence]
        PROVE  \E b, u : Takes(p, b, u)
    <3>1. PICK u : u = SpendLast(Offered(t), answer, e.next_sequence)
      OBVIOUS
    <3>2. tally' = [tally EXCEPT ![p] = u]
      BY <1>2, <1>5, <2>2, <2>6, <3>1 DEF SpendLast, Offered
    <3>3. /\ u \in TallyRecords /\ u.offered = t.offered + 1
          /\ u.last = e.next_sequence /\ Spent(u) = Spent(t) + 1 /\ u.lost = t.lost
      <4>1. answer \in Ways /\ answer # "lost"
        BY <2>6 DEF Ways
      <4> QED
        BY <2>2, <3>1, <4>1, OfferedSpentLast
    <3>4. Good(e, u, connected[p]) /\ Calm(a, e)
      BY <2>2, <3>3, <1>2, <1>3, <1>9, <2>1, <2>6, Delivered
    <3> QED
      BY <1>1, <1>2, <2>6, <3>2, <3>3, <3>4 DEF Takes
  <2> QED
    BY <1>9, <2>3, <2>4, <2>5, <2>6
<1> QED
  BY <1>1, <1>4, <1>6, <1>7, <1>8, <1>9, Zenon DEF Interrupt

(* serio_interrupt at any point of any call. *)
LEMMA InterruptStep ==
  ASSUME IndInv, NEW p \in Ports, Interrupt(p)
  PROVE  IndInv'
<1>1. PICK b, u : Takes(p, b, u)
  BY InterruptIs
<1> QED
  BY <1>1, Interrupted DEF Takes, Interrupt

-----------------------------------------------------------------------------
(* The bus.                                                                *)

(* The steps that move neither a port nor its bytes. *)
Quiet ==
  \/ \E p \in Ports :
       \/ \E budget \in 1 .. QueueCapacity : Pump(p, budget)
       \/ UnregisterSubtree(p)
       \/ \E d \in Drivers : Bind(p, d)
       \/ Unbind(p) \/ Reconnect(p)
  \/ \E d \in Drivers :
       \/ \E manual \in ManualBind : RegisterDriver(d, manual)
       \/ UnregisterDriver(d)
  \/ PoisonRegistry \/ ReplaceStorage
  \/ ReconnectReturn \/ Attach \/ Connect \/ Undo \/ Disconnect \/ Down
  \/ Offer \/ Examine \/ DetachBound \/ Reattach

(* The steps that move a port and leave its bytes. *)
Unspent ==
  \/ \E p \in Ports :
       \/ \E parent \in Ports \cup {None}, manual \in ManualBind : Prepare(p, parent, manual)
       \/ PublishPort(p) \/ Quiesce(p) \/ Write(p)
  \/ WriteReturn \/ Publish \/ Open \/ Detach \/ Stop \/ Shut

(* The steps that move bytes that were offered before. *)
Moving ==
  \/ \E p \in Ports :
       \/ \E sequence \in 1 .. SequenceMax : Consume(p, sequence)
       \/ Abort(p) \/ Unregister(p)
       \/ \E epoch \in 1 .. EpochMax : RecoverStream(p, epoch) \/ IsolateStream(p, epoch)
  \/ PumpNext \/ PumpReturn \/ RecoverReturn \/ Clear

(* The steps by what they do to the bytes. *)
LEMMA NextIs ==
  ASSUME Next
  PROVE  Quiet \/ Unspent \/ Moving \/ \E p \in Ports : Interrupt(p)
BY Zenon DEF Next, Quiet, Unspent, Moving

(* The steps that leave the ports and their bytes alone keep the *)
(* invariant.                                                    *)
LEMMA QuietStep ==
  ASSUME IndInv, Quiet
  PROVE  IndInv'
<1>1. \A manual \in ManualBind : manual \in BOOLEAN
  BY SerioAssumption
<1> QED
  BY <1>1, PumpStep, UnregisterSubtreeStep, BindStep, UnbindStep, ReconnectStep,
     RegisterDriverStep, UnregisterDriverStep, PoisonRegistryStep,
     ReplaceStorageStep, ReconnectReturnStep, AttachStep, ConnectStep, UndoStep,
     DisconnectStep, DownStep, OfferStep, ExamineStep, DetachBoundStep,
     ReattachStep, Zenon DEF Quiet

(* So do the steps that move a port and leave its bytes. *)
LEMMA UnspentStep ==
  ASSUME IndInv, Unspent
  PROVE  IndInv'
<1> QED
  BY SerioAssumption, PrepareStep, PublishPortStep, QuiesceStep, WriteStep,
     WriteReturnStep, PublishStep, OpenStep, DetachStep, StopStep, ShutStep, Zenon
  DEF Unspent

(* And so do the steps that move bytes offered before. *)
LEMMA MovingStep ==
  ASSUME IndInv, Moving
  PROVE  IndInv'
BY ConsumeStep, GoneStep, RecoverStreamStep, IsolateStreamStep, PumpNextStep,
   PumpReturnStep, RecoverReturnStep, ClearStep, Zenon DEF Moving

(* An empty registry satisfies the invariant. *)
LEMMA InitHolds ==
  ASSUME Init
  PROVE  IndInv
<1>1. /\ ports = [p \in Ports |-> Port(0)] /\ drivers = [d \in Drivers |-> Driver]
      /\ portSlots = [i \in 1 .. PortCapacity |-> None]
      /\ driverSlots = [i \in 1 .. DriverCapacity |-> None]
      /\ stack = << >> /\ connected = [p \in Ports |-> None]
      /\ tally = [p \in Ports |-> NoBytes]
  BY DEF Init
<1>2. /\ PortCapacity \in Nat /\ DriverCapacity \in Nat
      /\ 0 \in 0 .. GenerationMax /\ None \notin Ports /\ None \notin Drivers
  BY SerioAssumption
<1>3. \A p \in Ports : /\ Good(ports[p], tally[p], connected[p])
                       /\ ports[p].phase = "empty" /\ ports[p].driver = None
                       /\ ports[p].in_flight = 0
  BY <1>1, <1>2, EmptyGood
<1>4. /\ portSlots \in Seq(Ports \cup {None}) /\ DOMAIN portSlots = 1 .. PortCapacity
      /\ driverSlots \in Seq(Drivers \cup {None}) /\ DOMAIN driverSlots = 1 .. DriverCapacity
  BY <1>1, <1>2, SeqDef
<1>5. /\ ports \in [Ports -> PortRecords] /\ tally \in [Ports -> TallyRecords]
      /\ connected \in [Ports -> Drivers \cup {None, Abandoned}]
  BY <1>3, <1>1 DEF Good
<1>6. drivers \in [Drivers -> [registered : BOOLEAN, withdrawing : BOOLEAN,
                               manual_bind : BOOLEAN]]
  BY <1>1 DEF Driver
<1>7. << >> \in Seq(FrameRecords) /\ DOMAIN << >> = {} /\ Len(<< >>) = 0
  OBVIOUS
<1>8. \A p \in Ports :
        /\ Len(ports[p].queue) <= QueueCapacity
        /\ ports[p].in_flight = Cardinality(Flights(stack, p))
  BY <1>1, <1>3, <1>7, FlightsFinite DEF Good
<1>9. TypeOK
  BY <1>4, <1>5, <1>6, <1>8 DEF TypeOK, Flights
<1>10. StackHeld
  BY <1>1, <1>7, SerioAssumption DEF StackHeld
<1>11. PortsHeld
  BY <1>3, <1>5 DEF PortsHeld, Good
<1>12. SlotsHeld
  BY <1>1, <1>4, <1>2, <1>3 DEF Driver, SlotsHeld
<1> QED
  BY <1>9, <1>10, <1>11, <1>12, <1>1, <1>3 DEF IndInv, ConnectionsOwned, NoOrphans

(* The invariant holds of every state the bus can reach: a call from a     *)
(* callback, a hard interrupt between any two steps of a call, and a       *)
(* teardown in the middle of either leave it in place.                     *)
THEOREM Inductive == Spec => []IndInv
<1>1. Init => IndInv
  BY InitHolds
<1>2. IndInv /\ [Next]_vars => IndInv'
  <2>1. ASSUME IndInv, Next
        PROVE  IndInv'
    BY <2>1, NextIs, QuietStep, UnspentStep, MovingStep, InterruptStep, Zenon
  <2>2. ASSUME IndInv, UNCHANGED vars
        PROVE  IndInv'
    BY <2>2
    DEF vars, IndInv, TypeOK, StackHeld, PortsHeld, SlotsHeld, ConnectionsOwned,
        NoOrphans
  <2> QED
    BY <2>1, <2>2
<1> QED
  BY <1>1, <1>2, PTL DEF Spec

(* The invariant implies that the registry's relations are whole. *)
LEMMA BindingsHere ==
  ASSUME IndInv
  PROVE  BindingsHeld
<1>1. \A i \in DOMAIN stack : /\ stack[i] \in FrameRecords /\ Held(stack[i])
                              /\ stack[i].pc \in Stages(stack[i].op)
  BY DEF IndInv, StackHeld, Held
<1>2. ASSUME NEW i \in DOMAIN stack, stack[i].pc \in Counted
      PROVE  /\ stack[i].port \in Ports /\ FlightHeld(stack[i], ports)
             /\ connected[stack[i].port] = stack[i].driver
             /\ stack[i].pc = "pumping" => PumpHeld(stack[i], ports)
  BY <1>1, <1>2, GoodNow, SerioAssumption
  DEF Held, FrameHeld, Counted, Portless, FlightHeld, Good, LifeHeld
<1>3. InUseStaysBound
  BY <1>2 DEF InUseStaysBound, FlightHeld
<1>4. PumpedIsHead
  BY <1>2 DEF Counted, PumpedIsHead, FlightHeld, PumpHeld
<1> QED
  BY <1>3, <1>4
  DEF BindingsHeld, IndInv, TypeOK, PortRecords, SlotsHeld, BoundIsRegistered

(* The invariant implies that bytes are accounted for and in order. *)
LEMMA BytesHere ==
  ASSUME IndInv
  PROVE  Accounted /\ Fifo
<1>2. Fifo
  BY DEF IndInv, PortsHeld, Ordered, Fifo
<1> QED
  BY <1>2 DEF IndInv, PortsHeld, Sums, Accounted

(* The invariant implies that an open port is clean. *)
LEMMA CleanHere ==
  ASSUME IndInv
  PROVE  OpenIsClean
BY DEF IndInv, PortsHeld, Clean, OpenIsClean

(* A quiet step. *)
LEMMA QuietIs ==
  ASSUME Quiet
  PROVE  ports' = ports /\ tally' = tally
<1>1. ASSUME NEW p \in Ports,
             \/ \E budget \in 1 .. QueueCapacity : Pump(p, budget)
             \/ UnregisterSubtree(p)
             \/ \E d \in Drivers : Bind(p, d)
             \/ Unbind(p) \/ Reconnect(p)
      PROVE  ports' = ports /\ tally' = tally
  BY <1>1 DEF Pump, UnregisterSubtree, Bind, Unbind, Reconnect
<1>2. ASSUME NEW d \in Drivers,
             \/ \E manual \in ManualBind : RegisterDriver(d, manual)
             \/ UnregisterDriver(d)
      PROVE  ports' = ports /\ tally' = tally
  BY <1>2 DEF RegisterDriver, UnregisterDriver
<1>3. ASSUME \/ PoisonRegistry \/ ReplaceStorage
             \/ ReconnectReturn \/ Attach \/ Connect \/ Undo \/ Disconnect
      PROVE  ports' = ports /\ tally' = tally
  BY <1>3 DEF PoisonRegistry, ReplaceStorage, ReconnectReturn, Attach, Connect,
              Undo, Disconnect
<1>4. ASSUME Down \/ Offer \/ Examine \/ DetachBound \/ Reattach
      PROVE  ports' = ports /\ tally' = tally
  BY <1>4 DEF Down, Offer, Examine, DetachBound, Reattach
<1> QED
  BY <1>1, <1>2, <1>3, <1>4, Zenon DEF Quiet

(* These steps leave the counters alone. *)
LEMMA UnspentIs ==
  ASSUME Unspent
  PROVE  tally' = tally
<1>1. ASSUME NEW p \in Ports,
             \/ \E parent \in Ports \cup {None}, manual \in ManualBind :
                  Prepare(p, parent, manual)
             \/ PublishPort(p) \/ Quiesce(p) \/ Write(p)
      PROVE  tally' = tally
  BY <1>1 DEF Prepare, PublishPort, Quiesce, Write
<1>2. ASSUME WriteReturn \/ Publish \/ Open \/ Detach \/ Stop \/ Shut
      PROVE  tally' = tally
  BY <1>2 DEF WriteReturn, Publish, Open, Detach, Stop, Shut
<1> QED
  BY <1>1, <1>2, Zenon DEF Unspent

(* Only an interrupt offers a byte. *)
LEMMA MovingIs ==
  ASSUME IndInv, Moving, NEW q \in Ports
  PROVE  ~(tally'[q].offered > tally[q].offered)
<1>1. tally \in [Ports -> TallyRecords] /\ tally[q] \in TallyRecords
  BY DEF IndInv, PortsHeld
<1>2. tally[q].offered \in Nat /\ ~(tally[q].offered > tally[q].offered)
        /\ ~(0 > tally[q].offered)
  BY <1>1 DEF TallyRecords
<1>3. ASSUME NEW p, ClearPort(p)
      PROVE  ~(tally'[q].offered > tally[q].offered)
  BY <1>1, <1>3, <1>2 DEF ClearPort, NoBytes
<1>4. ASSUME NEW p, Discarded(p)
      PROVE  ~(tally'[q].offered > tally[q].offered)
  BY <1>4, <1>1, <1>2 DEF Discarded, TallyRecords
<1>5. ASSUME NEW p \in Ports, NEW sequence, Consume(p, sequence)
      PROVE  ~(tally'[q].offered > tally[q].offered)
  BY <1>5, <1>1, <1>2 DEF Consume, TallyRecords
<1>6. ASSUME PumpNext
      PROVE  ~(tally'[q].offered > tally[q].offered)
  <2>2. ASSUME Count(Top.port, "stale")
        PROVE  tally'[q].offered = tally[q].offered
    BY <2>2, <1>1 DEF Count, TallyRecords
  <2> QED
    BY <1>2, <1>6, <2>2 DEF PumpNext
<1>7. ASSUME PumpReturn
      PROVE  ~(tally'[q].offered > tally[q].offered)
  <2>2. ASSUME NEW answer \in {"handled", "rejected"},
               tally' = [tally EXCEPT ![Top.port][answer] = @ + 1,
                                      ![Top.port].last = Top.event.sequence]
        PROVE  tally'[q].offered = tally[q].offered
    BY <2>2, <1>1 DEF TallyRecords
  <2> QED
    BY <1>2, <1>7, <2>2 DEF PumpReturn
<1>8. ASSUME RecoverReturn
      PROVE  ~(tally'[q].offered > tally[q].offered)
  BY <1>8, <1>2, <1>4 DEF RecoverReturn
<1>9. ASSUME NEW p \in Ports,
             \/ \E sequence \in 1 .. SequenceMax : Consume(p, sequence)
             \/ Abort(p) \/ Unregister(p)
             \/ \E epoch \in 1 .. EpochMax : RecoverStream(p, epoch) \/ IsolateStream(p, epoch)
      PROVE  ~(tally'[q].offered > tally[q].offered)
  BY <1>3, <1>4, <1>5, <1>9 DEF Abort, Unregister, RecoverStream, IsolateStream
<1> QED
  BY <1>3, <1>6, <1>7, <1>8, <1>9, Zenon DEF Moving, Clear

(* A byte the preflight let in is not lost. *)
LEMMA PreflightStep ==
  ASSUME IndInv, Next, NEW q \in Ports,
         ReceivePreflight(ports[q]) = "ok", tally'[q].offered > tally[q].offered
  PROVE  tally'[q].lost = tally[q].lost
<1>1. CASE Quiet \/ Unspent
  BY <1>1, QuietIs, UnspentIs
<1>2. CASE Moving
  BY <1>2, MovingIs
<1>3. ASSUME NEW p \in Ports, Interrupt(p)
      PROVE  tally'[q].lost = tally[q].lost
  BY <1>3, InterruptIs DEF IndInv, PortsHeld, Takes
<1> QED
  BY <1>1, <1>2, <1>3, NextIs

-----------------------------------------------------------------------------
(* What the bus keeps.                                                     *)

(* The records of ports, drivers and slots keep their shape, the counter   *)
(* port->in_flight is exactly the number of callbacks under way on the     *)
(* port, and no FIFO exceeds its capacity.                                 *)
THEOREM TypeCorrect == Spec => []TypeOK
<1>1. IndInv => TypeOK
  BY DEF IndInv
<1> QED
  BY <1>1, Inductive, PTL

(* For every set of ports and drivers and every nesting of calls: the      *)
(* driver under a running callback stays bound and connected, the pump     *)
(* pops the record it delivered, no connection is leaked, no port holds a  *)
(* driver that has left the registry, and no teardown orphans a child.     *)
THEOREM BindingsAlwaysHeld == Spec => []BindingsHeld
<1>1. IndInv => BindingsHeld
  BY BindingsHere
<1> QED
  BY <1>1, Inductive, PTL

(* Every byte offered is accounted for exactly once, in order, and is not  *)
(* lost once serio_port_receive_preflight has let it in.                   *)
THEOREM BytesAlwaysKept == Spec => BytesKept
<1>1. IndInv => Accounted /\ Fifo
  BY BytesHere
<1>2. IndInv /\ [Next]_vars =>
        [\A p \in Ports : ReceivePreflight(ports[p]) = "ok"
             /\ tally'[p].offered > tally[p].offered
           => tally'[p].lost = tally[p].lost]_vars
  BY PreflightStep
<1> QED
  BY <1>1, <1>2, Inductive, PTL DEF Spec, BytesKept, PreflightKeepsByte

(* A loss waits for its recovery, and an isolated stream for teardown. *)
Awaits(a, b) ==
  a.recovery_required =>
    b.recovery_required /\ (a.recovery_abandoned => b.recovery_abandoned)

(* A step that leaves the recovery flags alone leaves the stream waiting. *)
LEMMA SameAwaits ==
  ASSUME NEW a, NEW b, b.recovery_required = a.recovery_required,
         b.recovery_abandoned = a.recovery_abandoned
  PROVE  Awaits(a, b)
BY DEF Awaits

(* A step that moves no bytes. *)
LEMMA UnspentAwaits ==
  ASSUME IndInv, Unspent, NEW q \in Ports
  PROVE  Awaits(ports[q], ports'[q])
<1>1. ports \in [Ports -> PortRecords] /\ ports[q] \in PortRecords
  BY DEF IndInv, TypeOK
<1>2. ASSUME NEW p \in Ports, NEW parent \in Ports \cup {None},
             NEW manual \in ManualBind, Prepare(p, parent, manual)
      PROVE  Awaits(ports[q], ports'[q])
  <2>1. ports[p].phase = "empty"
    BY <1>2 DEF Prepare
  <2>3. ~ports[p].recovery_required
    <3>1. PICK g : ports[p] = Port(g)
      BY <2>1 DEF IndInv, PortsHeld, LifeHeld
    <3> QED
      BY <3>1 DEF Port
  <2> QED
    BY <1>1, <1>2, <2>3, SameAwaits DEF Awaits, Prepare
<1>3. ASSUME NEW p, PublishPort(p) \/ Quiesce(p) \/ Write(p)
      PROVE  Awaits(ports[q], ports'[q])
  <2>1. ASSUME ports' = [ports EXCEPT ![p].accepting = TRUE, ![p].phase = "active"]
        PROVE  Awaits(ports[q], ports'[q])
    <3>2. /\ ports'[q].recovery_required = ports[q].recovery_required
          /\ ports'[q].recovery_abandoned = ports[q].recovery_abandoned
      BY <1>1, <2>1 DEF PortRecords
    <3> QED
      BY <3>2, SameAwaits
  <2>2. ASSUME ports' = [ports EXCEPT ![p].accepting = FALSE]
        PROVE  Awaits(ports[q], ports'[q])
    BY <1>1, <2>2, SameAwaits DEF PortRecords
  <2>3. ASSUME NEW n, ports' = [ports EXCEPT ![p].in_flight = n]
        PROVE  Awaits(ports[q], ports'[q])
    BY <1>1, <2>3, SameAwaits DEF PortRecords
  <2> QED
    BY <1>3, <2>1, <2>2, <2>3 DEF PublishPort, Quiesce, Write
<1>4. ASSUME WriteReturn \/ Publish \/ Open
      PROVE  Awaits(ports[q], ports'[q])
  <2>1. ASSUME NEW n, ports' = [ports EXCEPT ![Top.port].in_flight = n]
        PROVE  Awaits(ports[q], ports'[q])
    BY <1>1, <2>1, SameAwaits DEF PortRecords
  <2>2. ASSUME NEW n, NEW d, ports' = [ports EXCEPT ![Top.port].binding_generation = n, ![Top.port].driver = d]
        PROVE  Awaits(ports[q], ports'[q])
    <3>2. /\ ports'[q].recovery_required = ports[q].recovery_required
          /\ ports'[q].recovery_abandoned = ports[q].recovery_abandoned
      BY <1>1, <2>2 DEF PortRecords
    <3> QED
      BY <3>2, SameAwaits
  <2>3. ASSUME ports' = [ports EXCEPT ![Top.port].accepting = FALSE, ![Top.port].phase = "poisoned"]
        PROVE  Awaits(ports[q], ports'[q])
    <3>2. /\ ports'[q].recovery_required = ports[q].recovery_required
          /\ ports'[q].recovery_abandoned = ports[q].recovery_abandoned
      BY <1>1, <2>3 DEF PortRecords
    <3> QED
      BY <3>2, SameAwaits
  <2>4. ASSUME ports' = [ports EXCEPT ![Top.port].driver = None]
        PROVE  Awaits(ports[q], ports'[q])
    BY <1>1, <2>4, SameAwaits DEF PortRecords
  <2>5. ports' = ports => Awaits(ports[q], ports'[q])
    BY SameAwaits
  <2> QED
    BY <2>1, <2>2, <2>3, <2>4, <2>5, <1>4 DEF WriteReturn, Publish, Open
<1>5. ASSUME Detach \/ Stop
      PROVE  Awaits(ports[q], ports'[q])
  <2>1. ASSUME ports' = [ports EXCEPT ![Top.port].driver = None]
        PROVE  Awaits(ports[q], ports'[q])
    BY <1>1, <2>1, SameAwaits DEF PortRecords
  <2>2. ASSUME ports' = [ports EXCEPT ![Top.port].phase = "quiesced"]
        PROVE  Awaits(ports[q], ports'[q])
    BY <1>1, <2>2, SameAwaits DEF PortRecords
  <2> QED
    BY <1>5, <2>1, <2>2 DEF Detach, Stop
<1>6. ASSUME Shut
      PROVE  Awaits(ports[q], ports'[q])
  BY <1>6, <1>1, SameAwaits DEF Shut, PortRecords
<1> QED
  BY <1>2, <1>3, <1>4, <1>5, <1>6, Zenon DEF Unspent

(* A step that moves bytes, but for the answer to a recovery. *)
LEMMA MovingAwaits ==
  ASSUME IndInv, Moving, ~RecoverReturn, NEW q \in Ports
  PROVE  Awaits(ports[q], ports'[q]) \/ ports'[q].phase = "empty"
<1>1. ports \in [Ports -> PortRecords] /\ ports[q] \in PortRecords
  BY DEF IndInv, TypeOK
<1>2. ASSUME NEW p, ClearPort(p)
      PROVE  Awaits(ports[q], ports'[q]) \/ ports'[q].phase = "empty"
  BY <1>1, <1>2, SameAwaits DEF ClearPort, Port
<1>3. ASSUME NEW p \in Ports, ports' = [ports EXCEPT ![p] = Isolated(ports[p])]
      PROVE  Awaits(ports[q], ports'[q])
  BY <1>1, <1>3, SameAwaits DEF Isolated, PortRecords, Awaits
<1>4. ASSUME NEW p \in Ports, NEW epoch,
             RecoverStream(p, epoch) \/ IsolateStream(p, epoch)
      PROVE  Awaits(ports[q], ports'[q])
  <2>2. ASSUME NEW n, ports' = [ports EXCEPT ![p].queue = << >>, ![p].in_flight = n]
        PROVE  Awaits(ports[q], ports'[q])
    <3>1. /\ ports'[q].recovery_required = ports[q].recovery_required
          /\ ports'[q].recovery_abandoned = ports[q].recovery_abandoned
      BY <1>1, <2>2 DEF PortRecords
    <3> QED
      BY <3>1, SameAwaits
  <2> QED
    BY <1>3, <1>4, <2>2 DEF RecoverStream, IsolateStream
<1>5. ASSUME NEW p \in Ports, NEW sequence, Consume(p, sequence)
      PROVE  Awaits(ports[q], ports'[q])
  <2>1. PICK s : ports' = [ports EXCEPT ![p].queue = s]
    BY <1>5 DEF Consume
  <2>2. /\ ports'[q].recovery_required = ports[q].recovery_required
        /\ ports'[q].recovery_abandoned = ports[q].recovery_abandoned
    BY <1>1, <2>1 DEF PortRecords
  <2> QED
    BY <2>2, SameAwaits
<1>6. ASSUME PumpNext \/ PumpReturn
      PROVE  Awaits(ports[q], ports'[q])
  <2>1. ASSUME NEW s, ports' = [ports EXCEPT ![Top.port].queue = s]
        PROVE  Awaits(ports[q], ports'[q])
    BY <1>1, <2>1, SameAwaits DEF PortRecords
  <2>2. ASSUME NEW n, ports' = [ports EXCEPT ![Top.port].in_flight = n]
        PROVE  Awaits(ports[q], ports'[q])
    BY <1>1, <2>2, SameAwaits DEF PortRecords
  <2>3. ASSUME NEW n, NEW s, ports' = [ports EXCEPT ![Top.port].in_flight = n, ![Top.port].queue = s]
        PROVE  Awaits(ports[q], ports'[q])
    BY <1>1, <2>3, SameAwaits DEF PortRecords
  <2>4. ports' = ports => Awaits(ports[q], ports'[q])
    BY SameAwaits
  <2> QED
    BY <2>1, <2>2, <2>3, <2>4, <1>6 DEF PumpNext, PumpReturn
<1>7. ASSUME NEW p \in Ports, Abort(p) \/ Unregister(p)
      PROVE  ClearPort(p)
  BY <1>7 DEF Abort, Unregister
<1> QED
  BY <1>2, <1>4, <1>5, <1>6, <1>7, Zenon DEF Moving, Clear

(* The answer to a recovery reopens the stream that was lost, if any. *)
LEMMA RecoverReturnIs ==
  ASSUME IndInv, RecoverReturn, NEW q \in Ports, ports[q].recovery_required
  PROVE  \/ Awaits(ports[q], ports'[q])
         \/ /\ ~ports[q].recovery_abandoned
            /\ ports'[q].stream_recovery_epoch = ports[q].stream_loss_epoch
            /\ ports'[q].queue = << >>
            /\ At("reconnecting") /\ Top.epoch = ports[q].stream_loss_epoch
<1>1. stack # << >> /\ Top.pc = "reconnecting" /\ At("reconnecting")
  BY AtIs DEF RecoverReturn
<1>2. PICK p \in Ports : p = Top.port
  BY <1>1, RecoveryIs
<1>3. PICK a \in PortRecords : a = ports[p]
  BY DEF IndInv, TypeOK
<1>4. /\ a.phase = "active" /\ a.recovery_required /\ ~a.recovery_abandoned
      /\ a.queue = << >> /\ a.stream_loss_epoch = Top.epoch
      /\ a.driver = Top.driver /\ a.binding_generation = Top.binding
  BY <1>1, <1>2, <1>3, RecoveryIs
<1>5. PICK n, e : n = a.in_flight - 1 /\ e = [a EXCEPT !.in_flight = n]
  OBVIOUS
<1>6. /\ e.phase = a.phase /\ e.recovery_required = a.recovery_required
      /\ e.recovery_abandoned = a.recovery_abandoned /\ e.queue = a.queue
      /\ e.stream_loss_epoch = a.stream_loss_epoch /\ e.driver = a.driver
      /\ e.binding_generation = a.binding_generation
  BY <1>3, <1>5 DEF PortRecords
<1>7. PICK r : r = Reopen(e, Top.epoch)
  OBVIOUS
<1>8. PICK i : i = Isolated(e)
  OBVIOUS
<1>9. \/ ports' = [ports EXCEPT ![p] = r]
      \/ ports' = [ports EXCEPT ![p] = e]
      \/ ports' = [ports EXCEPT ![p] = i]
  <2> QED
    BY <1>2, <1>3, <1>4, <1>6, <1>7, <1>8, <1>5 DEF RecoverReturn, Reopen
<1>10. ports \in [Ports -> PortRecords]
  BY DEF IndInv, TypeOK
<1>11. CASE q # p
  BY <1>9, <1>10, <1>11, SameAwaits
<1>12. CASE q = p
  <2>1. ports'[q] \in {r, e, i}
    BY <1>9, <1>10, <1>12
  <2>4. Awaits(a, e) /\ Awaits(a, i)
    BY <1>6, <1>3, <1>5, <1>8 DEF Awaits, Isolated, PortRecords
  <2> QED
    BY <1>1, <1>3, <1>4, <1>12, <2>1, <1>5, <1>7, <2>4 DEF Reopen, PortRecords
<1> QED
  BY <1>11, <1>12

(* A closed stream reopens only when the recovery of its latest loss *)
(* returns.                                                          *)
LEMMA RecoveryStep ==
  ASSUME IndInv, Next, NEW q \in Ports, ports[q].recovery_required,
         ports'[q].phase # "empty"
  PROVE  /\ ~ports'[q].recovery_required =>
              /\ ports'[q].stream_recovery_epoch = ports[q].stream_loss_epoch
              /\ ports'[q].queue = << >>
              /\ At("reconnecting") /\ Top.epoch = ports[q].stream_loss_epoch
         /\ ports[q].recovery_abandoned =>
              ports'[q].recovery_abandoned /\ ports'[q].recovery_required
<1>1. CASE Awaits(ports[q], ports'[q])
  BY <1>1 DEF Awaits
<1>2. CASE RecoverReturn
  BY <1>1, <1>2, RecoverReturnIs
<1>3. CASE ~RecoverReturn
  BY <1>1, QuietIs, SameAwaits, UnspentAwaits, <1>3, MovingAwaits, InterruptIs, NextIs
  DEF Takes, IndInv, TypeOK, Calm
<1> QED
  BY <1>2, <1>3

(* A closed stream reopens only through the recovery of its latest loss,   *)
(* with an empty FIFO; an isolated one stays closed until teardown; a port *)
(* accepts bytes only when active and whole; and only the exhaustion of    *)
(* the loss epochs poisons a port.                                         *)
THEOREM RecoveryAlwaysExact == Spec => RecoveryExact
<1>1. IndInv => OpenIsClean
  BY CleanHere
<1>2. IndInv /\ [Next]_vars =>
        [\A p \in Ports :
         ports[p].recovery_required /\ ports'[p].generation = ports[p].generation
         /\ ports'[p].phase # "empty" =>
           /\ ~ports'[p].recovery_required =>
                /\ ports'[p].stream_recovery_epoch = ports[p].stream_loss_epoch
                /\ ports'[p].queue = << >>
                /\ At("reconnecting") /\ Top.epoch = ports[p].stream_loss_epoch
           /\ ports[p].recovery_abandoned =>
                ports'[p].recovery_abandoned /\ ports'[p].recovery_required]_vars
  BY RecoveryStep
<1> QED
  BY <1>1, <1>2, Inductive, PTL DEF Spec, RecoveryExact
=============================================================================
