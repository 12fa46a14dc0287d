------------------------------ MODULE McbArena ------------------------------
(***************************************************************************)
(* The MCB arena of DOS-C32 (dos/memory.c): conventional memory as a chain *)
(* of memory control blocks, each one paragraph in front of the block it   *)
(* describes.  The chain lives in guest memory, so every header the C code *)
(* reads or replaces is one machine access that may fault, and a replace   *)
(* whose repair fails too ("torn") leaves unknown bytes and poisons the    *)
(* arena for ever.                                                         *)
(*                                                                         *)
(* One action is one loop iteration or one header write of the C code, so  *)
(* that every state between two machine accesses is visible.  `frame' is   *)
(* the C stack of the one call in progress; `held' records what the guest  *)
(* programs were promised by the calls that returned to them.              *)
(***************************************************************************)
EXTENDS Integers, FiniteSets

CONSTANTS
  Top,            \* highest 16-bit segment (0xffff)
  Head, End,      \* arguments of dos_memory_arena_initialize_checked
  Owners,         \* PSP segments that own blocks
  Free,           \* MCB_OWNER_FREE
  Foreign,        \* paragraph contents that are not the allocator's own
  MaxGeneration,  \* DOS_MEMORY_GENERATION_MAX
  Confined        \* guests keep to the blocks they were given

Seg == 0 .. Top

(* A paragraph read as an MCB: signature M, Z or anything else. *)
Record == [sig : {"M", "Z", "?"}, owner : Owners \cup {Free}, size : Seg]

ASSUME SegmentAssumption ==
  /\ Top \in Nat /\ Head \in Nat /\ End \in Nat
  /\ Head < End /\ End <= Top
ASSUME OwnerAssumption == Free \notin Owners
ASSUME ForeignAssumption == Foreign \subseteq Record /\ Foreign # {}
ASSUME BoundAssumption ==
  /\ MaxGeneration \in Nat
  /\ Confined \in BOOLEAN

VARIABLES
  mem,     \* guest memory, one record per paragraph
  arena,   \* struct dos_memory_arena
  frame,   \* locals of the call in progress
  held     \* blocks the guests were promised: [seg, size, owner]

vars == <<mem, arena, frame, held>>

Strategies == {"first", "best", "last"}
Outcomes == {"ok", "fault", "torn"}

NoRecord == [sig |-> "?", owner |-> Free, size |-> 0]
NoCandidates == [found |-> FALSE, first |-> 0, best |-> 0, bestSize |-> 0,
                 last |-> 0, maximum |-> 0]

Idle == [pc |-> "idle", op |-> "none", owner |-> Free, newOwner |-> Free,
         paras |-> 0, wanted |-> 0, cur |-> 0, rec |-> NoRecord,
         cand |-> NoCandidates, after |-> NoRecord, splitSeg |-> 0,
         splitBefore |-> NoRecord, splitAfter |-> NoRecord, changed |-> FALSE,
         status |-> "none", maximum |-> 0, block |-> 0,
         entry |-> [s \in Seg |-> NoRecord]]

-----------------------------------------------------------------------------
(* Header decoding and the two walk helpers.                               *)

ValidSignature(r) == r.sig \in {"M", "Z"}

(* read_mcb: a valid signature and an extent inside the 16-bit segments *)
ValidMcb(m, s) == ValidSignature(m[s]) /\ m[s].size <= Top - s

(* Fault: a step over the block that forgets its header. *)
NextSegmentOfData(s, r) == s + r.size

(* next_mcb_segment, before its range check.  The result is 32 bits wide,  *)
(* so the test for a wrapped value never applies, and since every step of  *)
(* a walk moves up (CallsProgress) MCB_MAXIMUM_WALK never does either.     *)
NextSegment(s, r) == s + r.size + 1

(* A block starts one paragraph above its header, in 16-bit arithmetic. *)
BlockOf(header) == (header + 1) % (Top + 1)
HeaderOf(block) == (block - 1) % (Top + 1)

(* Fault: the readiness check forgets the poison. *)
ReadyThoughPoisoned == arena.init

Ready == arena.init /\ ~arena.poisoned

(* What a replace leaves in guest memory: repaired, done or torn. *)
Replace(s, r, w) ==
  CASE w = "ok"    -> mem' = [mem EXCEPT ![s] = r]
    [] w = "fault" -> mem' = mem
    [] w = "torn"  -> \E g \in Foreign : mem' = [mem EXCEPT ![s] = g]

PoisonedBy(w) ==
  arena' = [arena EXCEPT !.poisoned = @ \/ w = "torn"]

(* BX: the maximum a call has already published when it returns. *)
Bx ==
  IF frame.pc \notin {"select", "low", "high", "hide", "publish", "unwind",
                      "single"}
    THEN 0
    ELSE IF frame.op = "resize" THEN frame.rec.size ELSE frame.cand.maximum

(* The call hands status, BX (maximum) and AX (block) to its caller. *)
ReturnFrom(f, status, maximum, block) ==
  frame' = [Idle EXCEPT !.pc = "done", !.op = f.op, !.owner = f.owner,
                        !.paras = f.paras, !.entry = f.entry,
                        !.status = status, !.maximum = maximum,
                        !.block = block]

Return(status, maximum, block) == ReturnFrom(frame, status, maximum, block)

(* The caller takes the results; the next call may start. *)
Finish ==
  /\ frame.pc = "done"
  /\ frame' = Idle
  /\ UNCHANGED <<mem, arena, held>>

Fail(status) == Return(status, Bx, 0) /\ UNCHANGED <<mem, arena, held>>

(* What the guests were promised, and guest memory at the start of a call, *)
(* are recorded only for guests that keep to their blocks.                 *)
Promise(blocks) == held' = IF Confined THEN blocks ELSE {}
Snapshot == IF Confined THEN mem ELSE Idle.entry

(* A call whose arguments are checked and whose arena is ready starts. *)
Enter(f) ==
  /\ frame.pc = "idle"
  /\ Ready
  /\ frame' = [f EXCEPT !.entry = Snapshot]
  /\ UNCHANGED <<mem, arena, held>>

-----------------------------------------------------------------------------
(* find_candidates and coalesce_forward.                                   *)

BeginAllocate(o, n) ==
  Enter([Idle EXCEPT !.pc = "find", !.op = "allocate", !.owner = o,
                     !.paras = n, !.cur = arena.head])

BeginQuery ==
  Enter([Idle EXCEPT !.pc = "find", !.op = "query", !.paras = Top,
                     !.cur = arena.head])

(* End of the walk, or its next header. *)
FindAdvance(f, r) ==
  IF r.sig = "Z"
    THEN IF f.op = "query"
           THEN Return("ok", f.cand.maximum, 0)
           ELSE frame' = [f EXCEPT !.pc = "select"]
    ELSE IF NextSegment(f.cur, r) > Top
           THEN Return("damaged", 0, 0)
           ELSE /\ frame' = [f EXCEPT !.pc = "find",
                                      !.cur = NextSegment(f.cur, r)]

FindStep ==
  /\ frame.pc = "find"
  /\ \/ Fail("fault")
     \/ ~ValidMcb(mem, frame.cur) /\ Fail("damaged")
     \/ /\ ValidMcb(mem, frame.cur)
        /\ IF mem[frame.cur].owner = Free
             THEN /\ frame' = [frame EXCEPT !.pc = "coalesce",
                                            !.rec = mem[frame.cur]]
             ELSE FindAdvance(frame, mem[frame.cur])
        /\ UNCHANGED <<mem, arena, held>>

(* Candidate bookkeeping for one free run of r.size paragraphs. *)
Tally(c, s, size, requested) ==
  LET seen == [c EXCEPT !.maximum = IF size > @ THEN size ELSE @]
  IN  IF size < requested THEN seen
      ELSE IF ~c.found
             THEN [seen EXCEPT !.found = TRUE, !.first = s, !.best = s,
                               !.bestSize = size, !.last = s]
             ELSE IF size < c.bestSize
                    THEN [seen EXCEPT !.best = s, !.bestSize = size,
                                      !.last = s]
                    ELSE [seen EXCEPT !.last = s]

(* The run is maximal: back to the caller of coalesce_forward. *)
Coalesced ==
  LET f == [frame EXCEPT !.cand = Tally(frame.cand, frame.cur,
                                        frame.rec.size, frame.paras)]
  IN  /\ IF frame.op = "resize"
           THEN IF frame.paras > frame.rec.size
                  THEN Return("nomem", frame.rec.size, 0)
                  ELSE /\ frame' = [frame EXCEPT !.pc = "low"]
           ELSE FindAdvance(f, frame.rec)
      /\ UNCHANGED <<mem, arena, held>>

Merged(r, following) ==
  [r EXCEPT !.size = r.size + following.size + 1, !.sig = following.sig]

CoalesceStep ==
  LET r == frame.rec
      n == NextSegment(frame.cur, r)
  IN
  /\ frame.pc = "coalesce"
  /\ \/ r.sig = "Z" /\ Coalesced
     \/ r.sig # "Z" /\ n > Top /\ Fail("damaged")
     \/ r.sig # "Z" /\ n <= Top /\ Fail("fault")
     \/ r.sig # "Z" /\ n <= Top /\ ~ValidMcb(mem, n) /\ Fail("damaged")
     \/ /\ r.sig # "Z" /\ n <= Top /\ ValidMcb(mem, n)
        /\ mem[n].owner # Free
        /\ Coalesced
     \/ /\ r.sig # "Z" /\ n <= Top /\ ValidMcb(mem, n)
        /\ mem[n].owner = Free
        /\ \E w \in Outcomes :
             /\ Replace(frame.cur, Merged(r, mem[n]), w)
             /\ PoisonedBy(w)
             /\ CASE w = "ok"    -> /\ frame' = [frame EXCEPT
                                         !.rec = Merged(r, mem[n])]
                  [] w = "fault" -> Return("fault", 0, 0)
                  [] w = "torn"  -> Return("poisoned", 0, 0)
        /\ UNCHANGED held

-----------------------------------------------------------------------------
(* allocate_checked_common, allocate_low, allocate_high, commit_split.     *)

Select ==
  /\ frame.pc = "select"
  /\ IF ~frame.cand.found
       THEN Return("nomem", Bx, 0)
       ELSE /\ frame' = [frame EXCEPT
                 !.pc = IF arena.strategy = "last" THEN "high" ELSE "low",
                 !.cur = CASE arena.strategy = "first" -> frame.cand.first
                           [] arena.strategy = "best"  -> frame.cand.best
                           [] arena.strategy = "last"  -> frame.cand.last]
  /\ UNCHANGED <<mem, arena, held>>

(* The whole block is taken: only its header is rewritten. *)
TakeWhole(r) ==
  frame' = [frame EXCEPT !.pc = "single",
                         !.after = [r EXCEPT !.owner = frame.owner]]

(* Faults: the cut-off part keeps the header's paragraph, or loses two. *)
RemainderWithHeader(r, n) == r.size - n
RemainderTwiceCut(r, n) == r.size - n - 2

(* What a cut of n paragraphs leaves of a block, behind its own header. *)
Remainder(r, n) == r.size - n - 1

AllocateLow ==
  LET r    == mem[frame.cur]
      rest == frame.cur + frame.paras + 1
  IN
  /\ frame.pc = "low"
  /\ \/ Fail("fault")
     \/ ~ValidMcb(mem, frame.cur) /\ Fail("damaged")
     \/ ValidMcb(mem, frame.cur) /\ frame.paras > r.size /\ Fail("damaged")
     \/ /\ ValidMcb(mem, frame.cur) /\ frame.paras = r.size
        /\ TakeWhole(r)
        /\ UNCHANGED <<mem, arena, held>>
     \/ /\ ValidMcb(mem, frame.cur) /\ frame.paras < r.size
        /\ frame' = [frame EXCEPT
             !.pc = "hide",
             !.after = [sig |-> "M", owner |-> frame.owner,
                        size |-> frame.paras],
             !.splitSeg = rest,
             !.splitBefore = mem[rest],
             !.splitAfter = [sig |-> r.sig, owner |-> Free,
                             size |-> Remainder(r, frame.paras)]]
        /\ UNCHANGED <<mem, arena, held>>

AllocateHigh ==
  LET r     == mem[frame.cur]
      upper == frame.cur + (r.size - frame.paras)
  IN
  /\ frame.pc = "high"
  /\ \/ Fail("fault")
     \/ ~ValidMcb(mem, frame.cur) /\ Fail("damaged")
     \/ ValidMcb(mem, frame.cur) /\ frame.paras > r.size /\ Fail("damaged")
     \/ /\ ValidMcb(mem, frame.cur) /\ frame.paras = r.size
        /\ TakeWhole(r)
        /\ UNCHANGED <<mem, arena, held>>
     \/ /\ ValidMcb(mem, frame.cur) /\ frame.paras < r.size
        /\ frame' = [frame EXCEPT
             !.pc = "hide",
             !.after = [sig |-> "M", owner |-> Free,
                        size |-> Remainder(r, frame.paras)],
             !.splitSeg = upper,
             !.splitBefore = mem[upper],
             !.splitAfter = [sig |-> r.sig, owner |-> frame.owner,
                             size |-> frame.paras]]
        /\ UNCHANGED <<mem, arena, held>>

(* The first write of commit_split creates a header the chain does not     *)
(* reach yet.                                                              *)
HideSplit ==
  /\ frame.pc = "hide"
  /\ \E w \in Outcomes :
       /\ Replace(frame.splitSeg, frame.splitAfter, w)
       /\ PoisonedBy(w)
       /\ CASE w = "ok"    -> /\ frame' = [frame EXCEPT !.pc = "publish"]
            [] w = "fault" -> Return("fault", Bx, 0)
            [] w = "torn"  -> Return("poisoned", Bx, 0)
  /\ UNCHANGED held

(* The block the completed allocation or resize hands out. *)
Granted ==
  IF frame.splitAfter.owner # Free
    THEN [seg |-> BlockOf(frame.splitSeg), size |-> frame.paras,
          owner |-> frame.owner]
    ELSE [seg |-> BlockOf(frame.cur), size |-> frame.paras,
          owner |-> frame.owner]

Grant ==
  /\ Promise({b \in held : b.seg # Granted.seg} \cup {Granted})
  /\ Return("ok", Bx, Granted.seg)

(* The second write makes the split reachable in one replace. *)
PublishSplit ==
  /\ frame.pc = "publish"
  /\ \E w \in Outcomes :
       /\ Replace(frame.cur, frame.after, w)
       /\ PoisonedBy(w)
       /\ IF w = "ok"
            THEN Grant
            ELSE /\ frame' = [frame EXCEPT !.pc = "unwind"]
                 /\ UNCHANGED held

(* Fault: a failed split is reported without the repair. *)
UnwindForgotten ==
  /\ frame.pc = "unwind"
  /\ Return(IF arena.poisoned THEN "poisoned" ELSE "fault", Bx, 0)
  /\ UNCHANGED <<mem, arena, held>>

UnwindSplit ==
  /\ frame.pc = "unwind"
  /\ \E w \in Outcomes :
       /\ Replace(frame.splitSeg, frame.splitBefore, w)
       /\ arena' = [arena EXCEPT !.poisoned = @ \/ w # "ok"]
       /\ Return(IF arena'.poisoned THEN "poisoned" ELSE "fault", Bx, 0)
  /\ UNCHANGED held

(* The last write of every operation that replaces one header. *)
WriteSingle ==
  /\ frame.pc = "single"
  /\ \E w \in Outcomes :
       /\ Replace(frame.cur, frame.after, w)
       /\ PoisonedBy(w)
       /\ CASE w = "ok" /\ frame.op \in {"allocate", "resize"} -> Grant
            [] w = "ok" /\ frame.op \in {"free", "freeOwned"} ->
                 /\ Promise({b \in held : b.seg # BlockOf(frame.cur)})
                 /\ Return("ok", Bx, 0)
            [] w = "ok" /\ frame.op = "transfer" ->
                 /\ Promise({IF b.seg = BlockOf(frame.cur)
                               THEN [b EXCEPT !.owner = frame.newOwner]
                               ELSE b : b \in held})
                 /\ Return("ok", Bx, 0)
            [] w = "fault" -> Return("fault", Bx, 0) /\ UNCHANGED held
            [] w = "torn"  -> Return("poisoned", Bx, 0) /\ UNCHANGED held

-----------------------------------------------------------------------------
(* free, resize, owner transfer and process teardown.                      *)

(* The block segments a guest passes: its own when it is confined. *)
BlockArguments(o) ==
  IF Confined THEN {b.seg : b \in {h \in held : h.owner = o}} ELSE Seg

(* dos_memory_free_checked reads the paragraph before the block, whatever  *)
(* the chain says.                                                         *)
BeginFree(o, block) ==
  LET h == HeaderOf(block)
      f == [Idle EXCEPT !.op = "free", !.cur = h, !.entry = Snapshot]
  IN
  /\ frame.pc = "idle" /\ Ready /\ block \in BlockArguments(o)
  /\ \/ /\ ValidSignature(mem[h])
        /\ frame' = [f EXCEPT !.pc = "single",
                              !.after = [mem[h] EXCEPT !.owner = Free]]
     \/ ~ValidSignature(mem[h]) /\ ReturnFrom(f, "invalid", 0, 0)
     \/ ReturnFrom(f, "fault", 0, 0)
  /\ UNCHANGED <<mem, arena, held>>

BeginFreeOwned(o, block) ==
  /\ block \in BlockArguments(o)
  /\ Enter([Idle EXCEPT !.pc = "locate", !.op = "freeOwned", !.owner = o,
                        !.wanted = HeaderOf(block), !.cur = arena.head])

BeginTransfer(o, block, new) ==
  /\ block \in BlockArguments(o)
  /\ Enter([Idle EXCEPT !.pc = "locate", !.op = "transfer", !.owner = o,
                        !.newOwner = new, !.wanted = HeaderOf(block),
                        !.cur = arena.head])

(* locate_mcb followed by the owner check of its two callers. *)
LocateStep ==
  LET r == mem[frame.cur]
  IN
  /\ frame.pc = "locate"
  /\ \/ Fail("fault")
     \/ ~ValidMcb(mem, frame.cur) /\ Fail("damaged")
     \/ /\ ValidMcb(mem, frame.cur) /\ frame.cur = frame.wanted
        /\ r.owner # frame.owner
        /\ Fail("mismatch")
     \/ /\ ValidMcb(mem, frame.cur) /\ frame.cur = frame.wanted
        /\ r.owner = frame.owner
        /\ frame' = [frame EXCEPT !.pc = "single",
                                  !.after = [r EXCEPT !.owner = frame.newOwner]]
        /\ UNCHANGED <<mem, arena, held>>
     \/ /\ ValidMcb(mem, frame.cur) /\ frame.cur # frame.wanted
        /\ frame.wanted < frame.cur \/ r.sig = "Z"
        /\ Fail("invalid")
     \/ /\ ValidMcb(mem, frame.cur) /\ frame.cur < frame.wanted
        /\ r.sig # "Z" /\ NextSegment(frame.cur, r) > Top
        /\ Fail("damaged")
     \/ /\ ValidMcb(mem, frame.cur) /\ frame.cur < frame.wanted
        /\ r.sig # "Z" /\ NextSegment(frame.cur, r) <= Top
        /\ frame' = [frame EXCEPT !.cur = NextSegment(frame.cur, r)]
        /\ UNCHANGED <<mem, arena, held>>

(* SETBLOCK: the header before ES is trusted, coalesced forward and re-    *)
(* owned by CurrentPDB.                                                    *)
BeginResize(o, block, n) ==
  LET h == HeaderOf(block)
      f == [Idle EXCEPT !.op = "resize", !.owner = o, !.paras = n,
                        !.cur = h, !.rec = mem[h], !.entry = Snapshot]
  IN
  /\ frame.pc = "idle" /\ Ready /\ block \in BlockArguments(o)
  /\ \/ ValidMcb(mem, h) /\ frame' = [f EXCEPT !.pc = "coalesce"]
     \/ ~ValidMcb(mem, h) /\ ReturnFrom(f, "damaged", 0, 0)
     \/ ReturnFrom(f, "fault", 0, 0)
  /\ UNCHANGED <<mem, arena, held>>

BeginFreeProcess(o) ==
  Enter([Idle EXCEPT !.pc = "process", !.op = "freeProcess", !.owner = o,
                     !.cur = arena.head])

(* Fault: a teardown that fails half-way leaves the arena in use. *)
ProcessFailInUse(status) ==
  /\ Return(status, 0, 0)
  /\ UNCHANGED <<mem, arena, held>>

(* A walk that already freed something cannot be undone: it poisons. *)
ProcessFail(status) ==
  /\ arena' = [arena EXCEPT !.poisoned = @ \/ frame.changed]
  /\ Return(IF frame.changed THEN "poisoned" ELSE status, 0, 0)
  /\ UNCHANGED <<mem, held>>

ProcessAdvance(r) ==
  IF r.sig = "Z"
    THEN /\ Promise({b \in held : b.owner # frame.owner})
         /\ Return("ok", 0, 0)
    ELSE IF NextSegment(frame.cur, r) > Top
           THEN /\ Return(IF frame.changed \/ r.owner = frame.owner
                            THEN "poisoned" ELSE "damaged", 0, 0)
                /\ UNCHANGED held
           ELSE /\ frame' = [frame EXCEPT
                       !.cur = NextSegment(frame.cur, r),
                       !.changed = @ \/ r.owner = frame.owner]
                /\ UNCHANGED held

FreeProcessStep ==
  LET r    == mem[frame.cur]
      mine == r.owner = frame.owner
      over == r.sig # "Z" /\ NextSegment(frame.cur, r) > Top
  IN
  /\ frame.pc = "process"
  /\ \/ ProcessFail("fault")
     \/ ~ValidMcb(mem, frame.cur) /\ ProcessFail("damaged")
     \/ /\ ValidMcb(mem, frame.cur) /\ ~mine
        /\ ProcessAdvance(r)
        /\ arena' = [arena EXCEPT !.poisoned = @ \/ (over /\ frame.changed)]
        /\ UNCHANGED mem
     \/ /\ ValidMcb(mem, frame.cur) /\ mine
        /\ Replace(frame.cur, [r EXCEPT !.owner = Free], "ok")
        /\ ProcessAdvance(r)
        /\ arena' = [arena EXCEPT !.poisoned = @ \/ over]
     \/ /\ ValidMcb(mem, frame.cur) /\ mine
        /\ \E g \in Foreign : mem' = [mem EXCEPT ![frame.cur] = g]
        /\ arena' = [arena EXCEPT !.poisoned = TRUE]
        /\ Return("poisoned", 0, 0)
        /\ UNCHANGED held

-----------------------------------------------------------------------------
(* Arena lifetime, strategy and the guests.                                *)

Initialize ==
  /\ frame.pc = "idle"
  /\ ~arena.poisoned
  /\ arena.generation < MaxGeneration
  /\ \E w \in Outcomes :
       /\ Replace(Head, [sig |-> "Z", owner |-> Free, size |-> End - Head - 1],
                  w)
       /\ CASE w = "ok" ->
                 /\ arena' = [arena EXCEPT !.generation = @ + 1, !.head = Head,
                                           !.strategy = "first", !.init = TRUE]
                 /\ Promise({})
            [] w = "fault" -> UNCHANGED <<arena, held>>
            [] w = "torn"  -> /\ arena' = [arena EXCEPT !.poisoned = TRUE]
                              /\ UNCHANGED held
  /\ UNCHANGED frame

SetStrategy(s) ==
  /\ frame.pc = "idle" /\ Ready
  /\ arena' = [arena EXCEPT !.strategy = s]
  /\ UNCHANGED <<mem, frame, held>>

(* dos_memory_arena_poison, called by an owner that lost track of a block *)
Poison ==
  /\ frame.pc = "idle" /\ arena.init
  /\ arena' = [arena EXCEPT !.poisoned = TRUE]
  /\ UNCHANGED <<mem, frame, held>>

(* Every entry point refuses a poisoned arena. *)
RefusePoisoned ==
  /\ frame.pc = "idle" /\ arena.poisoned
  /\ ReturnFrom(Idle, "poisoned", 0, 0)
  /\ UNCHANGED <<mem, arena, held>>

Payload(b) == b.seg .. (b.seg + b.size - 1)

(* A guest program stores one paragraph of its own data. *)
GuestWrite(s, r) ==
  /\ frame.pc = "idle"
  /\ Confined => \E b \in held : s \in Payload(b)
  /\ mem' = [mem EXCEPT ![s] = r]
  /\ UNCHANGED <<arena, frame, held>>

Init ==
  /\ mem \in [Seg -> Foreign]
  /\ arena = [head |-> 0, strategy |-> "first", init |-> FALSE,
              poisoned |-> FALSE, generation |-> 0]
  /\ frame = Idle
  /\ held = {}

(* The steps of a call that has started; they need no further request. *)
Step ==
  \/ FindStep \/ CoalesceStep \/ Select \/ AllocateLow \/ AllocateHigh
  \/ HideSplit \/ PublishSplit \/ UnwindSplit \/ WriteSingle
  \/ LocateStep \/ FreeProcessStep \/ Finish

Begin ==
  \/ Initialize \/ BeginQuery \/ Poison \/ RefusePoisoned
  \/ \E s \in Strategies : SetStrategy(s)
  \/ \E o \in Owners : BeginFreeProcess(o)
  \/ \E o \in Owners, n \in Seg : BeginAllocate(o, n)
  \/ \E o \in Owners, b \in Seg :
       \/ BeginFree(o, b)
       \/ BeginFreeOwned(o, b)
       \/ \E new \in Owners : BeginTransfer(o, b, new)
       \/ \E n \in Seg : BeginResize(o, b, n)
  \/ \E s \in Seg, r \in Foreign : GuestWrite(s, r)

Next == Step \/ Begin

Spec == Init /\ [][Next]_vars

-----------------------------------------------------------------------------
(* Correctness.                                                            *)

(* The locals of a call. *)
Frame ==
  [pc : {"idle", "find", "coalesce", "select", "low", "high", "hide",
         "publish", "unwind", "single", "locate", "process", "done"},
   op : {"none", "allocate", "query", "free", "freeOwned", "transfer",
         "resize", "freeProcess"},
   owner : Owners \cup {Free}, newOwner : Owners \cup {Free},
   paras : Seg, wanted : Seg, cur : Seg, rec : Record,
   cand : [found : BOOLEAN, first : Seg, best : Seg, bestSize : Seg,
           last : Seg, maximum : Seg],
   after : Record, splitSeg : Seg, splitBefore : Record,
   splitAfter : Record, changed : BOOLEAN,
   status : {"none", "ok", "fault", "damaged", "nomem", "invalid",
             "mismatch", "poisoned"},
   maximum : Seg, block : Seg, entry : [Seg -> Record]]

(* Types of the state: no step, on any guest bytes, leaves the 16-bit      *)
(* segment space or hands a block to nobody.                               *)
TypeOK ==
  /\ mem \in [Seg -> Record]
  /\ arena \in [head : Seg, strategy : Strategies, init : BOOLEAN,
                poisoned : BOOLEAN, generation : 0 .. MaxGeneration]
  /\ frame \in Frame
  /\ held \subseteq [seg : Seg, size : Seg, owner : Owners]

(* H is the set of headers of a chain that covers Head .. End-1 exactly:   *)
(* every header's block ends where the next header starts, the last one    *)
(* (and only it) is signed Z and ends at End, and no header lies inside    *)
(* another's block.                                                        *)
Tiles(m, H) ==
  /\ Head \in H
  /\ \A h \in H :
       /\ ValidSignature(m[h])
       /\ NextSegment(h, m[h]) <= End
       /\ m[h].sig = "Z" <=> NextSegment(h, m[h]) = End
       /\ m[h].sig = "M" => NextSegment(h, m[h]) \in H
       /\ \A k \in H : k <= h \/ k >= NextSegment(h, m[h])

(* ArenaTiled: between any two machine accesses, also in the middle of a   *)
(* split, a coalescing walk or the unwinding of a failed split             *)
(* (commit_split writes the hidden header first), an arena that is not     *)
(* poisoned is one chain without gap, overlap or lost tail.                *)
ArenaTiled == Ready => \E H \in SUBSET (Head .. End - 1) : Tiles(mem, H)

(* A block that free_process is tearing down is promised no longer. *)
TearingDown(b) == frame.op = "freeProcess" /\ b.owner = frame.owner

(* PromisesKept: what the calls told the guests agrees with the headers.   *)
(* Every promised block is a header of the chain with that owner and at    *)
(* least that size, and every owned header was promised to its owner: a    *)
(* failed call neither takes a block away nor leaks one.                   *)
PromisesKept ==
  Ready =>
    \E H \in SUBSET (Head .. End - 1) :
      /\ Tiles(mem, H)
      /\ \A b \in held :
           \/ TearingDown(b)
           \/ /\ b.seg - 1 \in H
              /\ mem[b.seg - 1].owner = b.owner
              /\ mem[b.seg - 1].size >= b.size
      /\ \A h \in H : mem[h].owner # Free =>
           \E b \in held : b.seg = h + 1 /\ b.owner = mem[h].owner

(* DataPreserved: when a call returns and the arena is not poisoned, every *)
(* paragraph of every block that is still promised holds what it held when *)
(* the call began, also when the call failed halfway and unwound.          *)
DataPreserved ==
  frame.pc = "done" /\ ~arena.poisoned =>
    \A b \in held : \A s \in Payload(b) : mem[s] = frame.entry[s]

(* The chain of a memory image, from the head on. *)
Chain(m) ==
  LET reached[s \in Seg] ==
        \/ s = Head
        \/ \E p \in Head .. s - 1 :
             reached[p] /\ m[p].sig = "M" /\ NextSegment(p, m[p]) = s
  IN  {s \in Head .. End - 1 : reached[s]}

(* The maximal runs of free blocks, each as its first header and the size  *)
(* it has once it is coalesced.                                            *)
FreeRuns(m) ==
  LET chain == Chain(m)
      free  == {h \in chain : m[h].owner = Free}
      first == {h \in free : \A p \in free : NextSegment(p, m[p]) # h}
      stop(h) == CHOOSE e \in (chain \ free) \cup {End} :
                   /\ e > h
                   /\ \A k \in (chain \ free) \cup {End} : k > h => k >= e
  IN  {[seg |-> h, size |-> stop(h) - h - 1] : h \in first}

(* The block first, best and last fit must hand out. *)
Placement(runs, strategy, n) ==
  LET fits == {r \in runs : r.size >= n}
      low(S) == CHOOSE r \in S : \A q \in S : r.seg <= q.seg
  IN  CASE strategy = "first" -> low(fits).seg + 1
        [] strategy = "best"  ->
             low({r \in fits : \A q \in fits : r.size <= q.size}).seg + 1
        [] strategy = "last"  ->
             LET r == CHOOSE r \in fits : \A q \in fits : r.seg >= q.seg
             IN  r.seg + r.size - n + 1

(* AllocationPlaced: the walk that coalesces while it looks for a          *)
(* candidate picks the block the strategy names on the memory as it was    *)
(* when the call began, and reports out of memory, with the largest run in *)
(* BX, only when no run is large enough.                                   *)
AllocationPlaced ==
  frame.pc = "done" /\ frame.op = "allocate" =>
    LET runs == FreeRuns(frame.entry)
        fits == {r \in runs : r.size >= frame.paras}
    IN /\ frame.status = "ok" =>
            /\ fits # {}
            /\ frame.block = Placement(runs, arena.strategy, frame.paras)
       /\ frame.status = "nomem" =>
            /\ fits = {}
            /\ runs # {} => \E r \in runs : r.size = frame.maximum
            /\ \A r \in runs : r.size <= frame.maximum

(* ProcessReleased: a process teardown that reports success left no header *)
(* of the chain to that process.                                           *)
ProcessReleased ==
  frame.pc = "done" /\ frame.op = "freeProcess" /\ frame.status = "ok" =>
    \A h \in Chain(mem) : mem[h].owner # frame.owner

(* CallsExact: what a returned call promises of its result, for all three  *)
(* questions above: data kept, the block the strategy asks for and, after  *)
(* a process teardown, no header of the process.                           *)
CallsExact == DataPreserved /\ AllocationPlaced /\ ProcessReleased

(* PoisonIsFinal: once a repair failed the arena is never usable again: no *)
(* call starts work on it or withdraws a promise, and nothing a call does  *)
(* changes guest memory any more, but for one paragraph: commit_split,     *)
(* whose second write tore, still tries to put back the header it had      *)
(* hidden.  What the guests store in their own blocks is theirs.           *)
PoisonIsFinal ==
  [][arena.poisoned =>
       /\ arena'.poisoned
       /\ frame.pc = "idle" => frame'.pc \in {"idle", "done"} /\ held' = held
       /\ \/ mem' = mem
          \/ /\ frame.pc = "unwind"
             /\ \A s \in Seg \ {frame.splitSeg} : mem'[s] = mem[s]
          \/ \E s \in Seg, r \in Foreign : GuestWrite(s, r)
    ]_vars

(* The stages of a call, in the order in which its code runs through them. *)
Stage(pc) ==
  CASE pc \in {"find", "coalesce", "locate", "process"} -> 0
    [] pc = "select" -> 1
    [] pc \in {"low", "high"} -> 2
    [] pc = "hide" -> 3
    [] pc = "publish" -> 4
    [] pc \in {"unwind", "single"} -> 5
    [] pc = "done" -> 6
    [] pc = "idle" -> 7

(* How far a walk has come: the header it stands on or, while it merges,   *)
(* the end of what it has merged so far.                                   *)
WalkedTo(f) ==
  IF f.pc = "coalesce" THEN 2 * NextSegment(f.cur, f.rec) - 1 ELSE 2 * f.cur

(* CallsProgress: every step of a call enters a later stage, or its walk   *)
(* moves up the segment space it cannot leave (TypeOK).  So each walk, the *)
(* coalescing included, comes to its end after a bounded number of         *)
(* accesses: also when a step merged blocks behind it, a write tore, or    *)
(* guests stored arbitrary bytes over the chain it follows.                *)
CallsProgress ==
  [][frame.pc # "idle" =>
       \/ Stage(frame'.pc) > Stage(frame.pc)
       \/ /\ Stage(frame'.pc) = 0 /\ Stage(frame.pc) = 0
          /\ WalkedTo(frame') > WalkedTo(frame)
    ]_vars
=============================================================================
