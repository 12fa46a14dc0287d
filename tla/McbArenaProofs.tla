--------------------------- MODULE McbArenaProofs ---------------------------
(***************************************************************************)
(* Proofs about the MCB arena for every segment space, every set of owners *)
(* and every guest data.  Type correctness needs no assumption on the      *)
(* guests; that the chain tiles the arena and that promises are kept needs *)
(* guests that stay inside their blocks, and so does what a returned call  *)
(* says of its result.                                                     *)
(***************************************************************************)
EXTENDS McbArena, WellFoundedInduction, TLAPS

(* Which operations may be at which point, and whom they act for. *)
Control ==
  /\ frame.pc = "find" => frame.op \in {"allocate", "query"}
  /\ frame.pc = "coalesce" => frame.op \in {"allocate", "query", "resize"}
  /\ frame.pc \in {"select", "high"} => frame.op = "allocate"
  /\ frame.pc \in {"low", "hide", "publish", "unwind"} =>
       frame.op \in {"allocate", "resize"}
  /\ frame.pc = "single" =>
       frame.op \in {"allocate", "resize", "free", "freeOwned", "transfer"}
  /\ frame.pc = "locate" => frame.op \in {"freeOwned", "transfer"}
  /\ frame.pc = "process" => frame.op = "freeProcess"
  /\ frame.op \in {"allocate", "resize", "freeProcess"} =>
       frame.pc = "done" \/ frame.owner \in Owners
  /\ frame.op = "transfer" => frame.pc = "done" \/ frame.newOwner \in Owners

TypeInv == TypeOK /\ Control

(* The candidates found so far lie behind the walk and are free. *)
CandidatesOf(H) ==
  frame.cand.found =>
    \A c \in {frame.cand.first, frame.cand.best, frame.cand.last} :
      /\ c \in H /\ mem[c].owner = Free
      /\ frame.pc # "select" => c < frame.cur

(* The two headers a split is about to write cut the block at cur in two,  *)
(* and one of the halves is the caller's.                                  *)
SplitOf(H) ==
  LET r == mem[frame.cur]
  IN  /\ frame.cur < frame.splitSeg
      /\ frame.splitSeg < NextSegment(frame.cur, r)
      /\ frame.after.sig = "M"
      /\ NextSegment(frame.cur, frame.after) = frame.splitSeg
      /\ frame.splitAfter.sig = r.sig
      /\ NextSegment(frame.splitSeg, frame.splitAfter) =
           NextSegment(frame.cur, r)
      /\ \/ /\ frame.after.owner = frame.owner
            /\ frame.after.size = frame.paras
            /\ frame.splitAfter.owner = Free
         \/ /\ frame.after.owner = Free
            /\ r.owner = Free
            /\ frame.splitAfter.owner = frame.owner
            /\ frame.splitAfter.size = frame.paras

(* Where the call in progress stands in the chain H. *)
FrameOf(H) ==
  /\ frame.pc \in {"find", "coalesce", "low", "high", "hide", "publish",
                   "unwind", "single", "locate", "process"} =>
       frame.cur \in H
  /\ frame.pc \in {"find", "coalesce", "select"} => CandidatesOf(H)
  /\ frame.pc \in {"find", "coalesce", "select", "low", "high", "single"} =>
       frame.splitAfter.owner = Free
  /\ frame.pc = "coalesce" =>
       /\ frame.rec = mem[frame.cur]
       /\ frame.op # "resize" => frame.rec.owner = Free
  /\ frame.pc = "high" => mem[frame.cur].owner = Free
  /\ frame.pc \in {"hide", "publish", "unwind"} => SplitOf(H)
  /\ frame.pc = "publish" => mem[frame.splitSeg] = frame.splitAfter
  /\ frame.pc = "single" =>
       /\ frame.after.sig = mem[frame.cur].sig
       /\ frame.after.size = mem[frame.cur].size
       /\ frame.op \in {"allocate", "resize"} =>
            /\ frame.after.owner = frame.owner
            /\ frame.after.size = frame.paras
       /\ frame.op \in {"free", "freeOwned"} => frame.after.owner = Free
       /\ frame.op = "transfer" =>
            /\ frame.after.owner = frame.newOwner
            /\ mem[frame.cur].owner # Free
  /\ frame.pc = "locate" =>
       /\ frame.owner # Free /\ frame.splitAfter.owner = Free
       /\ frame.op = "freeOwned" => frame.newOwner = Free
  /\ frame.pc = "process" =>
       \A h \in H : h < frame.cur => mem[h].owner # frame.owner

(* The promised blocks are the owned headers of H, except that a teardown  *)
(* frees headers before it withdraws the promises.                         *)
KeptIn(H) ==
  /\ \A b \in held :
       /\ b.seg - 1 \in H
       /\ mem[b.seg - 1].size >= b.size
       /\ \/ mem[b.seg - 1].owner = b.owner
          \/ /\ frame.pc = "process" /\ frame.changed
             /\ b.owner = frame.owner
  /\ \A h \in H : mem[h].owner # Free =>
       \E b \in held : b.seg = h + 1 /\ b.owner = mem[h].owner

Good(H) == Tiles(mem, H) /\ KeptIn(H) /\ FrameOf(H)

(* The inductive invariant. *)
IndInv ==
  /\ TypeInv
  /\ arena.init => arena.head = Head
  /\ ~arena.init /\ ~arena.poisoned => frame.pc = "idle"
  /\ Ready => \E H \in SUBSET (Head .. End - 1) : Good(H)

-----------------------------------------------------------------------------
(* What one header write does to a tiling.                                 *)

(* SegmentArithmetic: inside the arena, block and header addresses do not  *)
(* wrap around the 16-bit segment space.                                   *)
LEMMA SegmentArithmetic ==
  /\ Seg \subseteq Nat /\ Head .. End - 1 \subseteq Seg
  /\ \A h \in Seg : BlockOf(h) \in Seg /\ HeaderOf(h) \in Seg
  /\ \A h \in Head .. End - 1 : BlockOf(h) = h + 1 /\ HeaderOf(h + 1) = h
<1>2. \A a, n \in Nat : a < n => a % n = a
  OBVIOUS
<1> QED
  BY <1>2, SegmentAssumption DEF Seg, BlockOf, HeaderOf

(* RecordFields: what a paragraph read as a header holds. *)
LEMMA RecordFields ==
  ASSUME NEW r \in Record
  PROVE  r.sig \in {"M", "Z", "?"} /\ r.owner \in Owners \cup {Free}
         /\ r.size \in Seg
BY DEF Record

(* NextAbove: a header's successor is an integer above it. *)
LEMMA NextAbove ==
  ASSUME NEW s \in Seg, NEW r \in Record
  PROVE  /\ s \in Nat /\ NextSegment(s, r) \in Nat /\ s < NextSegment(s, r)
         /\ NextSegment(s, r) = s + r.size + 1
<1>1. s \in Nat /\ r.size \in Nat
  BY RecordFields, SegmentArithmetic
<1> QED
  BY <1>1 DEF NextSegment

(* OutsideWrite: a store that hits no header of the chain, into a block or *)
(* as the hidden half of a split, leaves the tiling as it is.              *)
LEMMA OutsideWrite ==
  ASSUME NEW m \in [Seg -> Record], NEW H \in SUBSET (Head .. End - 1),
         Tiles(m, H), NEW s \in Seg, s \notin H, NEW r \in Record
  PROVE  Tiles([m EXCEPT ![s] = r], H)
BY SegmentArithmetic DEF Tiles

(* InsideBlock: a paragraph strictly inside a block is no header. *)
LEMMA InsideBlock ==
  ASSUME NEW m \in [Seg -> Record], NEW H \in SUBSET (Head .. End - 1),
         Tiles(m, H), NEW h \in H, NEW s \in Seg, h < s,
         s < NextSegment(h, m[h])
  PROVE  s \notin H
<1>1. \A k \in H : k <= h \/ k >= NextSegment(h, m[h])
  BY DEF Tiles
<1> QED
  BY <1>1, SegmentArithmetic, NextAbove

(* Retag: rewriting a header's owner leaves the tiling as it is. *)
LEMMA Retag ==
  ASSUME NEW m \in [Seg -> Record], NEW H \in SUBSET (Head .. End - 1),
         Tiles(m, H), NEW h \in H, NEW r \in Record,
         r.sig = m[h].sig, r.size = m[h].size
  PROVE  Tiles([m EXCEPT ![h] = r], H)
<1> DEFINE n == [m EXCEPT ![h] = r]
<1>2. \A k \in H : n[k].sig = m[k].sig /\ n[k].size = m[k].size
  BY SegmentArithmetic
<1> HIDE DEF n
<1> QED
  BY <1>2 DEF Tiles, NextSegment, ValidSignature

(* Split: the second write of commit_split adds one header to the tiling. *)
LEMMA Split ==
  ASSUME NEW m \in [Seg -> Record], NEW H \in SUBSET (Head .. End - 1),
         Tiles(m, H), NEW c \in H, NEW s \in Seg, c < s,
         s < NextSegment(c, m[c]), m[s].sig = m[c].sig,
         NextSegment(s, m[s]) = NextSegment(c, m[c]),
         NEW a \in Record, a.sig = "M", NextSegment(c, a) = s
  PROVE  /\ H \cup {s} \in SUBSET (Head .. End - 1)
         /\ Tiles([m EXCEPT ![c] = a], H \cup {s})
<1> DEFINE n == [m EXCEPT ![c] = a]
<1>1. /\ c \in Seg /\ s # c /\ n[c] = a /\ n[s] = m[s]
      /\ \A k \in H : k # c => n[k] = m[k]
  BY SegmentArithmetic
<1>2. \A k \in H : k \in Int /\ NextSegment(k, m[k]) \in Int
  BY SegmentArithmetic, NextAbove
<1>3. H \cup {s} \in SUBSET (Head .. End - 1)
  BY <1>2, SegmentAssumption, SegmentArithmetic DEF Tiles
<1>4. \A k \in H : k <= c \/ k >= NextSegment(c, m[c])
  BY DEF Tiles
<1>5. s \in Int /\ c \in Int
  BY SegmentArithmetic
<1> HIDE DEF n
<1>6. Head \in H \cup {s}
  BY DEF Tiles
<1>7. ASSUME NEW h \in H \cup {s}
      PROVE  /\ ValidSignature(n[h])
             /\ NextSegment(h, n[h]) <= End
             /\ n[h].sig = "Z" <=> NextSegment(h, n[h]) = End
             /\ n[h].sig = "M" => NextSegment(h, n[h]) \in H \cup {s}
             /\ \A k \in H \cup {s} : k <= h \/ k >= NextSegment(h, n[h])
  <2>1. CASE h = s
    BY <2>1, <1>1, <1>2, <1>4, <1>5 DEF Tiles, ValidSignature
  <2>2. CASE h = c
    BY <2>2, <1>1, <1>2, <1>4, <1>5, SegmentAssumption
       DEF Tiles, ValidSignature
  <2>3. CASE h \in H /\ h # c
    <3>1. n[h] = m[h] /\ h \in Int
      BY <2>3, <1>1, <1>2
    <3>2. s <= h \/ s >= NextSegment(h, m[h])
      BY <2>3, <3>1, <1>2, <1>4, <1>5 DEF Tiles
    <3> QED
      BY <2>3, <3>1, <3>2 DEF Tiles
  <2> QED
    BY <2>1, <2>2, <2>3
<1> QED
  BY <1>3, <1>6, <1>7 DEF Tiles, n

(* Merge: one step of coalesce_forward removes one header. *)
LEMMA Merge ==
  ASSUME NEW m \in [Seg -> Record], NEW H \in SUBSET (Head .. End - 1),
         Tiles(m, H), NEW c \in H, m[c].sig # "Z",
         NEW a \in Record, a = Merged(m[c], m[NextSegment(c, m[c])])
  PROVE  LET x == NextSegment(c, m[c])
         IN  x \in H /\ c < x /\ Tiles([m EXCEPT ![c] = a], H \ {x})
<1> DEFINE n == [m EXCEPT ![c] = a]
           x == NextSegment(c, m[c])
<1>1. \A k \in H : /\ k \in Int /\ k \in Seg /\ NextSegment(k, m[k]) \in Int
                   /\ k < NextSegment(k, m[k])
  BY SegmentArithmetic, NextAbove
<1>2. x \in H /\ c < x
  BY <1>1 DEF Tiles, ValidSignature
<1>3. n[c] = a /\ \A k \in H : k # c => n[k] = m[k]
  BY <1>1
<1>4. a.sig = m[x].sig /\ NextSegment(c, a) = NextSegment(x, m[x])
  BY <1>1, <1>2, RecordFields, SegmentArithmetic DEF Merged, Record, NextSegment
<1> HIDE DEF n, x
<1>6. ASSUME NEW h \in H \ {x}
      PROVE  /\ ValidSignature(n[h])
             /\ NextSegment(h, n[h]) <= End
             /\ n[h].sig = "Z" <=> NextSegment(h, n[h]) = End
             /\ n[h].sig = "M" => NextSegment(h, n[h]) \in H \ {x}
             /\ \A k \in H \ {x} : k <= h \/ k >= NextSegment(h, n[h])
  BY <1>1, <1>2, <1>3, <1>4 DEF Tiles, ValidSignature, x
<1> QED
  BY <1>2, <1>1, SegmentAssumption, <1>6 DEF Tiles, n, x

-----------------------------------------------------------------------------
(* Type correctness.                                                       *)

(* IdleTyped: the empty frame is a frame. *)
LEMMA IdleTyped == Idle \in Frame /\ Idle.pc = "idle" /\ Idle.op = "none"
<1>1. 0 \in Seg
  BY SegmentAssumption DEF Seg
<1> QED
  BY <1>1 DEF Idle, Frame, NoCandidates, NoRecord, Record

(* ReplaceTyped: whatever a replace leaves is a memory of records. *)
LEMMA ReplaceTyped ==
  ASSUME mem \in [Seg -> Record], NEW s \in Seg, NEW r \in Record,
         NEW w \in Outcomes, Replace(s, r, w)
  PROVE  mem' \in [Seg -> Record]
BY ForeignAssumption DEF Replace, Outcomes

(* ReturnTyped: a call that returns leaves a typed frame. *)
LEMMA ReturnTyped ==
  ASSUME NEW f \in Frame, NEW maximum \in Seg, NEW block \in Seg,
         NEW status \in {"ok", "fault", "damaged", "nomem", "invalid",
                         "mismatch", "poisoned"},
         ReturnFrom(f, status, maximum, block)
  PROVE  frame' \in Frame /\ Control'
<1>1. frame' \in Frame
  BY IdleTyped, ZenonT(60) DEF ReturnFrom, Frame
<1> QED
  BY <1>1, IdleTyped DEF Control, ReturnFrom, Frame

(* BxTyped: the published maximum is a 16-bit paragraph count. *)
LEMMA BxTyped == frame \in Frame => Bx \in Seg
<1>1. 0 \in Seg
  BY SegmentAssumption DEF Seg
<1> QED
  BY <1>1 DEF Bx, Frame, Record

(* FailTyped: an early return changes nothing but the frame. *)
LEMMA FailTyped ==
  ASSUME TypeInv, Fail("fault") \/ Fail("damaged") \/ Fail("invalid")
                  \/ Fail("mismatch")
  PROVE  TypeInv'
<1> QED
  BY SegmentAssumption, BxTyped, ReturnTyped DEF Fail, Return, TypeInv, TypeOK, Seg

(* AdvanceTyped: following a header that was just validated stays in the   *)
(* segment space.                                                          *)
LEMMA AdvanceTyped ==
  ASSUME NEW f \in Frame, NEW r \in Record, FindAdvance(f, r),
         f.op = frame.op, f.op \in {"allocate", "query"}, frame \in Frame,
         f.op = "allocate" => f.owner \in Owners
  PROVE  frame' \in Frame /\ Control'
<1>1. 0 \in Seg /\ f.cand.maximum \in Seg
  BY SegmentAssumption DEF Seg, Frame
<1>2. CASE Return("ok", f.cand.maximum, 0) \/ Return("damaged", 0, 0)
  BY <1>1, <1>2, ReturnTyped DEF Return
<1>3. CASE f.op = "allocate" /\ frame' = [f EXCEPT !.pc = "select"]
  BY <1>3 DEF Frame, Control
<1>4. CASE /\ NextSegment(f.cur, r) <= Top
           /\ frame' = [f EXCEPT !.pc = "find", !.cur = NextSegment(f.cur, r)]
  <2>1. NextSegment(f.cur, r) \in Seg
    BY <1>4, NextAbove, SegmentAssumption DEF Seg, Frame
  <2>2. frame' \in Frame /\ frame'.pc = "find" /\ frame'.op = f.op
        /\ frame'.owner = f.owner
    BY <1>4, <2>1, ZenonT(60) DEF Frame
  <2> QED
    BY <2>2 DEF Control
<1> QED
  BY <1>2, <1>3, <1>4, NextAbove, SegmentAssumption DEF FindAdvance, Frame

(* FindStepTyped: one iteration of find_candidates keeps the types. *)
LEMMA FindStepTyped == TypeInv /\ FindStep => TypeInv'
<1> SUFFICES ASSUME TypeInv, FindStep PROVE TypeInv'
  OBVIOUS
<1>1. CASE Fail("fault") \/ Fail("damaged")
  BY <1>1, FailTyped
<1>2. CASE /\ frame' = [frame EXCEPT !.pc = "coalesce",
                                     !.rec = mem[frame.cur]]
           /\ UNCHANGED <<mem, arena, held>>
  BY <1>2, ZenonT(60) DEF TypeInv, TypeOK, Frame, FindStep, Control
<1>3. CASE FindAdvance(frame, mem[frame.cur]) /\ UNCHANGED <<mem, arena, held>>
  BY <1>3, AdvanceTyped DEF TypeInv, TypeOK, Frame, Control, FindStep
<1> QED
  BY <1>1, <1>2, <1>3 DEF FindStep

(* TallyTyped: the candidate bookkeeping stays in the segment space. *)
LEMMA TallyTyped ==
  ASSUME frame \in Frame
  PROVE  [frame EXCEPT !.cand = Tally(frame.cand, frame.cur, frame.rec.size,
                                      frame.paras)] \in Frame
<1>2. Tally(frame.cand, frame.cur, frame.rec.size, frame.paras) \in
        [found : BOOLEAN, first : Seg, best : Seg, bestSize : Seg,
         last : Seg, maximum : Seg]
  BY RecordFields DEF Frame, Tally
<1> QED
  BY <1>2 DEF Frame

(* CoalescedTyped: so does the return from coalesce_forward. *)
LEMMA CoalescedTyped ==
  ASSUME TypeInv, frame.pc = "coalesce", Coalesced
  PROVE  TypeInv'
<1>1. 0 \in Seg /\ frame.rec.size \in Seg /\ frame \in Frame
      /\ frame.rec \in Record
  BY SegmentAssumption, RecordFields DEF Seg, Frame, TypeInv, TypeOK
<1>2. CASE frame.op = "resize"
  BY <1>1, ReturnTyped, <1>2 DEF Return, Coalesced, TypeInv, TypeOK, Frame, Control
<1>3. CASE frame.op # "resize"
  <2> DEFINE f == [frame EXCEPT !.cand = Tally(frame.cand, frame.cur,
                                        frame.rec.size, frame.paras)]
  <2>1. f \in Frame /\ f.op = frame.op /\ f.owner = frame.owner
    BY <1>1, TallyTyped DEF Frame
  <2>2. FindAdvance(f, frame.rec) /\ UNCHANGED <<mem, arena, held>>
    BY <1>3 DEF Coalesced
  <2> HIDE DEF f
  <2> QED
    BY <1>1, <2>1, <2>2, <1>3, AdvanceTyped DEF TypeInv, TypeOK, Control
<1> QED
  BY <1>2, <1>3

(* MergedTyped: two validated neighbours merge within the segment space. *)
LEMMA MergedTyped ==
  ASSUME NEW r \in Record, NEW s \in Seg, mem \in [Seg -> Record],
         NextSegment(s, r) <= Top, ValidMcb(mem, NextSegment(s, r))
  PROVE  /\ NextSegment(s, r) \in Seg
         /\ Merged(r, mem[NextSegment(s, r)]) \in Record
<1> DEFINE n == NextSegment(s, r)
<1>1. n \in Seg
  BY NextAbove, SegmentAssumption DEF Seg
<1>2. mem[n] \in Record /\ mem[n].size <= Top - n
  BY <1>1 DEF ValidMcb
<1>3. r.size \in Nat /\ mem[n].size \in Nat /\ s \in Nat /\ n = s + r.size + 1
  BY <1>2, RecordFields, NextAbove, SegmentArithmetic
<1> HIDE DEF n
<1>4. r.size + mem[n].size + 1 \in Seg
  BY <1>1, <1>2, <1>3, SegmentAssumption, SMTT(40) DEF Seg
<1> QED
  BY <1>1, <1>2, <1>4 DEF n, Merged, Record

(* CoalesceStepTyped: and one iteration of it, whatever the write does. *)
LEMMA CoalesceStepTyped == TypeInv /\ CoalesceStep => TypeInv'
<1> SUFFICES ASSUME TypeInv, CoalesceStep PROVE TypeInv'
  OBVIOUS
<1> DEFINE r == frame.rec
           n == NextSegment(frame.cur, r)
<1>1. CASE Fail("fault") \/ Fail("damaged")
  BY <1>1, FailTyped
<1>2. CASE Coalesced
  BY <1>2, CoalescedTyped DEF CoalesceStep
<1>3. ASSUME n <= Top, ValidMcb(mem, n), NEW w \in Outcomes,
             Replace(frame.cur, Merged(r, mem[n]), w), PoisonedBy(w),
             CASE w = "ok"    -> /\ frame' = [frame EXCEPT
                                         !.rec = Merged(r, mem[n])]
               [] w = "fault" -> Return("fault", 0, 0)
               [] w = "torn"  -> Return("poisoned", 0, 0),
             UNCHANGED held
      PROVE  TypeInv'
  <2>1. /\ frame \in Frame /\ frame.cur \in Seg /\ r \in Record
        /\ mem \in [Seg -> Record]
    BY DEF TypeInv, TypeOK, Frame
  <2>2. Merged(r, mem[n]) \in Record
    BY <1>3, <2>1, MergedTyped
  <2>4. frame' \in Frame /\ Control'
    <3>1. CASE w = "ok"
      BY <1>3, <3>1, <2>1, <2>2 DEF Frame, TypeInv, Control
    <3>2. CASE w # "ok"
      <4>1. 0 \in Seg
        BY SegmentAssumption DEF Seg
      <4> QED
        BY <1>3, <2>1, <3>2, <4>1, ReturnTyped DEF Return, Outcomes
    <3> QED
      BY <3>1, <3>2
  <2> QED
    BY <1>3, <2>1, <2>2, ReplaceTyped, <2>4 DEF TypeInv, TypeOK, PoisonedBy
<1> QED
  BY <1>1, <1>2, <1>3 DEF CoalesceStep

(* SelectTyped: taking the candidate the strategy names keeps the types. *)
LEMMA SelectTyped == TypeInv /\ Select => TypeInv'
<1> SUFFICES ASSUME TypeInv, Select PROVE TypeInv'
  OBVIOUS
<1>1. 0 \in Seg /\ frame \in Frame /\ frame.op = "allocate"
      /\ frame.owner \in Owners
  BY SegmentAssumption DEF Seg, TypeInv, TypeOK, Control, Select
<1>2. CASE ~frame.cand.found
  BY <1>1, <1>2, BxTyped, ReturnTyped DEF Select, Return, TypeInv, TypeOK
<1>3. CASE frame.cand.found
  <2> DEFINE c == CASE arena.strategy = "first" -> frame.cand.first
                    [] arena.strategy = "best"  -> frame.cand.best
                    [] arena.strategy = "last"  -> frame.cand.last
             p == IF arena.strategy = "last" THEN "high" ELSE "low"
  <2>1. c \in Seg
    BY <1>1 DEF TypeInv, TypeOK, Strategies, Frame
  <2>2. frame' = [frame EXCEPT !.pc = p, !.cur = c]
    BY <1>3 DEF Select
  <2>3. p \in {"high", "low"}
    OBVIOUS
  <2> HIDE DEF c, p
  <2>4. frame' \in Frame /\ frame'.pc = p /\ frame'.op = "allocate"
        /\ frame'.owner \in Owners
    BY <1>1, <2>1, <2>2, <2>3 DEF Frame
  <2> QED
    BY <2>3, <2>4 DEF Select, TypeInv, TypeOK, Control
<1> QED
  BY <1>2, <1>3

(* TakeWholeTyped: taking a whole block only rewrites its owner. *)
LEMMA TakeWholeTyped ==
  ASSUME TypeInv, frame.pc \in {"low", "high"}, TakeWhole(mem[frame.cur]),
         UNCHANGED <<mem, arena, held>>
  PROVE  TypeInv'
<1>1. /\ frame \in Frame /\ mem[frame.cur] \in Record
      /\ frame.op \in {"allocate", "resize"} /\ frame.owner \in Owners
  BY DEF TypeInv, TypeOK, Control, Frame
<1>2. [mem[frame.cur] EXCEPT !.owner = frame.owner] \in Record
  BY <1>1 DEF Record
<1>3. frame' \in Frame /\ frame'.pc = "single" /\ frame'.op = frame.op
      /\ frame'.owner = frame.owner
  BY <1>1, <1>2 DEF TakeWhole, Frame
<1> QED
  BY <1>1, <1>3 DEF TypeInv, TypeOK, Control

(* SplitTyped: planning a split keeps the types. *)
LEMMA SplitTyped ==
  ASSUME TypeInv, frame.pc \in {"low", "high"}, UNCHANGED <<mem, arena, held>>,
         NEW a \in Record, NEW s \in Seg, NEW x \in Record,
         frame' = [frame EXCEPT !.pc = "hide", !.after = a, !.splitSeg = s,
                                !.splitBefore = mem[s], !.splitAfter = x]
  PROVE  TypeInv'
<1>1. /\ frame \in Frame /\ mem[s] \in Record
      /\ frame.op \in {"allocate", "resize"} /\ frame.owner \in Owners
  BY DEF TypeInv, TypeOK, Control
<1> QED
  BY <1>1, ZenonT(60) DEF TypeInv, TypeOK, Control, Frame

(* CutTyped: the two parts of a validated block that is larger than the    *)
(* request, cut low or high, are in the segment space.                     *)
LEMMA CutTyped ==
  ASSUME TypeInv, frame.pc \in {"low", "high"}, ValidMcb(mem, frame.cur),
         frame.paras < mem[frame.cur].size
  PROVE  LET r == mem[frame.cur]
         IN  /\ frame.cur + frame.paras + 1 \in Seg
             /\ frame.cur + (r.size - frame.paras) \in Seg
             /\ r.size - frame.paras - 1 \in Seg
             /\ \A sig \in {"M", r.sig}, o \in {Free, frame.owner},
                  size \in {frame.paras, r.size - frame.paras - 1} :
                  [sig |-> sig, owner |-> o, size |-> size] \in Record
<1> DEFINE r == mem[frame.cur]
<1>1. r \in Record /\ frame.cur \in Seg /\ frame.paras \in Seg
      /\ r.size \in Seg /\ r.size <= Top - frame.cur
      /\ frame.owner \in Owners \cup {Free}
  BY RecordFields DEF TypeInv, TypeOK, Frame, ValidMcb
<1>3. r.sig \in {"M", "Z", "?"}
  BY <1>1, RecordFields
<1> QED
  BY <1>1, SegmentAssumption, <1>3 DEF Record, Seg

(* AllocateLowTyped: cutting the low end of a block keeps the types. *)
LEMMA AllocateLowTyped == TypeInv /\ AllocateLow => TypeInv'
<1> SUFFICES ASSUME TypeInv, AllocateLow PROVE TypeInv'
  OBVIOUS
<1> DEFINE r == mem[frame.cur]
           a == [sig |-> "M", owner |-> frame.owner, size |-> frame.paras]
           s == frame.cur + frame.paras + 1
           x == [sig |-> r.sig, owner |-> Free,
                  size |-> r.size - frame.paras - 1]
<1>1. CASE Fail("fault") \/ Fail("damaged")
  BY <1>1, FailTyped
<1>2. CASE TakeWhole(r) /\ UNCHANGED <<mem, arena, held>>
  BY <1>2, TakeWholeTyped DEF AllocateLow
<1>3. CASE /\ ValidMcb(mem, frame.cur) /\ frame.paras < r.size
           /\ frame' = [frame EXCEPT !.pc = "hide", !.after = a,
                           !.splitSeg = s, !.splitBefore = mem[s],
                           !.splitAfter = x]
           /\ UNCHANGED <<mem, arena, held>>
  <2>1. a \in Record /\ s \in Seg /\ x \in Record
    BY <1>3, CutTyped DEF AllocateLow
  <2>2. frame.pc \in {"low", "high"}
    BY DEF AllocateLow
  <2> HIDE DEF a, s, x
  <2> QED
    BY <1>3, <2>1, <2>2, SplitTyped
<1> QED
  BY <1>1, <1>2, <1>3 DEF AllocateLow, Remainder

(* AllocateHighTyped: so does cutting its high end. *)
LEMMA AllocateHighTyped == TypeInv /\ AllocateHigh => TypeInv'
<1> SUFFICES ASSUME TypeInv, AllocateHigh PROVE TypeInv'
  OBVIOUS
<1> DEFINE r == mem[frame.cur]
           a == [sig |-> "M", owner |-> Free,
                  size |-> r.size - frame.paras - 1]
           s == frame.cur + (r.size - frame.paras)
           x == [sig |-> r.sig, owner |-> frame.owner, size |-> frame.paras]
<1>1. CASE Fail("fault") \/ Fail("damaged")
  BY <1>1, FailTyped
<1>2. CASE TakeWhole(r) /\ UNCHANGED <<mem, arena, held>>
  BY <1>2, TakeWholeTyped DEF AllocateHigh
<1>3. CASE /\ ValidMcb(mem, frame.cur) /\ frame.paras < r.size
           /\ frame' = [frame EXCEPT !.pc = "hide", !.after = a,
                           !.splitSeg = s, !.splitBefore = mem[s],
                           !.splitAfter = x]
           /\ UNCHANGED <<mem, arena, held>>
  <2>1. a \in Record /\ s \in Seg /\ x \in Record
    BY <1>3, CutTyped DEF AllocateHigh
  <2>2. frame.pc \in {"low", "high"}
    BY DEF AllocateHigh
  <2> HIDE DEF a, s, x
  <2> QED
    BY <1>3, <2>1, <2>2, SplitTyped
<1> QED
  BY <1>1, <1>2, <1>3 DEF AllocateHigh, Remainder

(* GrantTyped: what an allocation or resize hands out is a typed promise to  *)
(* a real owner.                                                            *)
LEMMA GrantTyped ==
  ASSUME TypeInv, frame.pc \in {"publish", "single"}, Grant,
         frame.op \in {"allocate", "resize"}
  PROVE  /\ frame' \in Frame /\ Control'
         /\ held' \subseteq [seg : Seg, size : Seg, owner : Owners]
<1>1. /\ frame \in Frame /\ frame.owner \in Owners /\ frame.paras \in Seg
      /\ frame.cur \in Seg /\ frame.splitSeg \in Seg
  BY DEF TypeInv, TypeOK, Control, Frame
<1>2. Granted \in [seg : Seg, size : Seg, owner : Owners]
  BY <1>1, SegmentArithmetic DEF Granted
<1>4. frame' \in Frame /\ Control'
  BY <1>1, <1>2, BxTyped, ReturnTyped DEF Grant, Return
<1> QED
  BY <1>4, <1>2 DEF Grant, Promise, TypeInv, TypeOK

(* HideSplitTyped: the first write of commit_split keeps the types. *)
LEMMA HideSplitTyped == TypeInv /\ HideSplit => TypeInv'
<1> SUFFICES ASSUME TypeInv, HideSplit PROVE TypeInv'
  OBVIOUS
<1>1. /\ frame \in Frame /\ frame.splitSeg \in Seg /\ frame.splitAfter \in Record
      /\ mem \in [Seg -> Record] /\ 0 \in Seg
      /\ frame.op \in {"allocate", "resize"} /\ frame.owner \in Owners
  BY SegmentAssumption DEF Seg, TypeInv, TypeOK, Control, Frame, HideSplit
<1>2. PICK w \in Outcomes :
        /\ Replace(frame.splitSeg, frame.splitAfter, w)
        /\ PoisonedBy(w)
        /\ CASE w = "ok"    -> /\ frame' = [frame EXCEPT !.pc = "publish"]
             [] w = "fault" -> Return("fault", Bx, 0)
             [] w = "torn"  -> Return("poisoned", Bx, 0)
  BY DEF HideSplit
<1>4. frame' \in Frame /\ Control'
  <2>1. CASE w = "ok"
    BY <1>1, <1>2, <2>1 DEF Frame, Control
  <2>2. CASE w # "ok"
    BY <1>1, <1>2, <2>2, BxTyped, ReturnTyped DEF Return, Outcomes
  <2> QED
    BY <2>1, <2>2
<1> QED
  BY <1>2, <1>1, ReplaceTyped, <1>4 DEF HideSplit, TypeInv, TypeOK, PoisonedBy

(* PublishSplitTyped: so does the second, and the grant after it. *)
LEMMA PublishSplitTyped == TypeInv /\ PublishSplit => TypeInv'
<1> SUFFICES ASSUME TypeInv, PublishSplit PROVE TypeInv'
  OBVIOUS
<1>1. /\ frame \in Frame /\ frame.cur \in Seg /\ frame.after \in Record
      /\ mem \in [Seg -> Record]
      /\ frame.op \in {"allocate", "resize"} /\ frame.owner \in Owners
  BY DEF TypeInv, TypeOK, Control, Frame, PublishSplit
<1>2. PICK w \in Outcomes :
        /\ Replace(frame.cur, frame.after, w)
        /\ PoisonedBy(w)
        /\ IF w = "ok"
             THEN Grant
             ELSE /\ frame' = [frame EXCEPT !.pc = "unwind"]
                  /\ UNCHANGED held
  BY DEF PublishSplit
<1>3. mem' \in [Seg -> Record]
  BY <1>1, <1>2, ReplaceTyped
<1>4. CASE w = "ok"
  BY <1>1, <1>2, <1>3, <1>4, GrantTyped
     DEF PublishSplit, TypeInv, TypeOK, PoisonedBy
<1>5. CASE w # "ok"
  <2>1. frame' \in Frame /\ frame'.pc = "unwind" /\ frame'.op = frame.op
        /\ frame'.owner = frame.owner
    BY <1>1, <1>2, <1>5 DEF Frame
  <2> QED
    BY <1>1, <1>2, <1>3, <1>5, <2>1 DEF TypeInv, TypeOK, PoisonedBy, Control
<1> QED
  BY <1>4, <1>5

(* UnwindSplitTyped: and the repair. *)
LEMMA UnwindSplitTyped == TypeInv /\ UnwindSplit => TypeInv'
<1> SUFFICES ASSUME TypeInv, UnwindSplit PROVE TypeInv'
  OBVIOUS
<1>1. /\ frame \in Frame /\ frame.splitSeg \in Seg
      /\ frame.splitBefore \in Record /\ mem \in [Seg -> Record] /\ 0 \in Seg
  BY SegmentAssumption DEF Seg, TypeInv, TypeOK, Frame
<1>2. PICK w \in Outcomes :
        /\ Replace(frame.splitSeg, frame.splitBefore, w)
        /\ arena' = [arena EXCEPT !.poisoned = @ \/ w # "ok"]
        /\ Return(IF arena'.poisoned THEN "poisoned" ELSE "fault", Bx, 0)
  BY DEF UnwindSplit
<1>3. mem' \in [Seg -> Record]
  BY <1>1, <1>2, ReplaceTyped
<1> QED
  BY <1>2, <1>3, <1>1, BxTyped, ReturnTyped DEF UnwindSplit, TypeInv, TypeOK, Return

(* WriteSingleTyped: the last write of a call keeps the types. *)
LEMMA WriteSingleTyped == TypeInv /\ WriteSingle => TypeInv'
<1> SUFFICES ASSUME TypeInv, WriteSingle PROVE TypeInv'
  OBVIOUS
<1>1. /\ frame \in Frame /\ frame.cur \in Seg /\ frame.after \in Record
      /\ mem \in [Seg -> Record] /\ 0 \in Seg /\ frame.pc = "single"
      /\ held \subseteq [seg : Seg, size : Seg, owner : Owners]
      /\ frame.op \in {"allocate", "resize", "free", "freeOwned", "transfer"}
      /\ frame.op = "transfer" => frame.newOwner \in Owners
  BY SegmentAssumption DEF Seg, TypeInv, TypeOK, Control, Frame, WriteSingle
<1>2. PICK w \in Outcomes :
        /\ Replace(frame.cur, frame.after, w)
        /\ PoisonedBy(w)
        /\ CASE w = "ok" /\ frame.op \in {"allocate", "resize"} -> Grant
             [] w = "ok" /\ frame.op \in {"free", "freeOwned"} ->
                  /\ Promise({b \in held : b.seg # BlockOf(frame.cur)})
                  /\ Return("ok", Bx, 0)
             [] w = "ok" /\ frame.op = "transfer" ->
                  /\ Promise({IF b.seg = BlockOf(frame.cur)
                                THEN [b EXCEPT !.owner = frame.newOwner]
                                ELSE b : b \in held})
                  /\ Return("ok", Bx, 0)
             [] w = "fault" -> Return("fault", Bx, 0) /\ UNCHANGED held
             [] w = "torn"  -> Return("poisoned", Bx, 0) /\ UNCHANGED held
  BY DEF WriteSingle
<1>4. /\ frame' \in Frame /\ Control'
      /\ held' \subseteq [seg : Seg, size : Seg, owner : Owners]
  <2>1. CASE w = "ok" /\ frame.op \in {"allocate", "resize"}
    BY <1>1, <1>2, <2>1, GrantTyped
  <2>2. CASE w = "ok" /\ frame.op \in {"free", "freeOwned"}
    BY <1>2, <2>2, <1>1, BxTyped, ReturnTyped DEF Return, Promise
  <2>3. CASE w = "ok" /\ frame.op = "transfer"
    BY <1>2, <2>3, <1>1, BxTyped, ReturnTyped DEF Return, Promise
  <2>4. CASE w # "ok"
    BY <1>1, <1>2, <2>4, BxTyped, ReturnTyped DEF Return, Outcomes
  <2> QED
    BY <1>1, <2>1, <2>2, <2>3, <2>4
<1> QED
  BY <1>2, <1>1, ReplaceTyped, <1>4 DEF WriteSingle, TypeInv, TypeOK, PoisonedBy

(* LocateStepTyped: one iteration of locate_mcb keeps the types. *)
LEMMA LocateStepTyped == TypeInv /\ LocateStep => TypeInv'
<1> SUFFICES ASSUME TypeInv, LocateStep PROVE TypeInv'
  OBVIOUS
<1> DEFINE r == mem[frame.cur]
<1>1. /\ frame \in Frame /\ r \in Record /\ frame.cur \in Seg
      /\ frame.pc = "locate" /\ frame.op \in {"freeOwned", "transfer"}
      /\ frame.op = "transfer" => frame.newOwner \in Owners
      /\ frame.newOwner \in Owners \cup {Free}
  BY DEF TypeInv, TypeOK, Control, Frame, LocateStep
<1>2. CASE Fail("fault") \/ Fail("damaged") \/ Fail("mismatch")
           \/ Fail("invalid")
  BY <1>2, FailTyped
<1>3. CASE /\ frame' = [frame EXCEPT !.pc = "single",
                                !.after = [r EXCEPT !.owner = frame.newOwner]]
           /\ UNCHANGED <<mem, arena, held>>
  <2>1. [r EXCEPT !.owner = frame.newOwner] \in Record
    BY <1>1 DEF Record
  <2>2. frame' \in Frame /\ frame'.pc = "single" /\ frame'.op = frame.op
        /\ frame'.newOwner = frame.newOwner
    BY <1>1, <1>3, <2>1 DEF Frame
  <2> QED
    BY <1>1, <1>3, <2>2 DEF TypeInv, TypeOK, Control
<1>4. CASE /\ NextSegment(frame.cur, r) <= Top
           /\ frame' = [frame EXCEPT !.cur = NextSegment(frame.cur, r)]
           /\ UNCHANGED <<mem, arena, held>>
  <2>1. NextSegment(frame.cur, r) \in Seg
    BY <1>1, <1>4, NextAbove, SegmentAssumption DEF Seg
  <2>2. frame' \in Frame /\ frame'.pc = frame.pc /\ frame'.op = frame.op
        /\ frame'.newOwner = frame.newOwner
    BY <1>1, <1>4, <2>1 DEF Frame
  <2> QED
    BY <1>1, <1>4, <2>2 DEF TypeInv, TypeOK, Control
<1> QED
  BY <1>2, <1>3, <1>4 DEF LocateStep

(* FreeProcessStepTyped: one iteration of a process teardown keeps the      *)
(* types.                                                                  *)
LEMMA FreeProcessStepTyped == TypeInv /\ FreeProcessStep => TypeInv'
<1> SUFFICES ASSUME TypeInv, FreeProcessStep PROVE TypeInv'
  OBVIOUS
<1> DEFINE r == mem[frame.cur]
<1>1. /\ frame \in Frame /\ r \in Record /\ frame.cur \in Seg /\ 0 \in Seg
      /\ frame.pc = "process" /\ frame.op = "freeProcess"
      /\ frame.owner \in Owners /\ mem \in [Seg -> Record]
      /\ held \subseteq [seg : Seg, size : Seg, owner : Owners]
  BY SegmentAssumption
     DEF Seg, TypeInv, TypeOK, Control, Frame, FreeProcessStep
<1>2. mem' \in [Seg -> Record]
  BY <1>1, ForeignAssumption DEF Record, FreeProcessStep, ProcessFail, Replace
<1>3. arena' \in [head : Seg, strategy : Strategies, init : BOOLEAN,
                  poisoned : BOOLEAN, generation : 0 .. MaxGeneration]
  BY DEF FreeProcessStep, ProcessFail, TypeInv, TypeOK
<1>4. CASE ProcessAdvance(r)
  <2>1. CASE NextSegment(frame.cur, r) <= Top
    <3>1. NextSegment(frame.cur, r) \in Seg
      BY <1>1, <2>1, NextAbove, SegmentAssumption DEF Seg
    <3>2. CASE /\ frame' = [frame EXCEPT
                       !.cur = NextSegment(frame.cur, r),
                       !.changed = @ \/ r.owner = frame.owner]
               /\ UNCHANGED held
      BY <1>1, <3>1, <3>2, <1>2, <1>3, ZenonT(60) DEF Frame, TypeInv, TypeOK, Control
    <3>3. CASE /\ Promise({b \in held : b.owner # frame.owner})
               /\ Return("ok", 0, 0)
      BY <1>1, <1>2, <1>3, <3>3, ReturnTyped
         DEF Return, Promise, TypeInv, TypeOK
    <3> QED
      BY <1>4, <3>2, <3>3, <2>1, <3>1, SegmentAssumption DEF ProcessAdvance, Seg
  <2>2. CASE ~(NextSegment(frame.cur, r) <= Top)
    BY <1>1, <2>2, NextAbove, SegmentAssumption, <1>2, <1>3, <1>4, ReturnTyped
    DEF Return, Promise, TypeInv, TypeOK, ProcessAdvance
  <2> QED
    BY <2>1, <2>2
<1>5. CASE ProcessFail("fault") \/ ProcessFail("damaged")
  BY <1>1, <1>2, <1>3, <1>5, ReturnTyped DEF ProcessFail, Return, TypeInv, TypeOK
<1>6. CASE Return("poisoned", 0, 0) /\ UNCHANGED held
  BY <1>1, <1>2, <1>3, <1>6, ReturnTyped DEF Return, TypeInv, TypeOK
<1> QED
  BY <1>4, <1>5, <1>6 DEF FreeProcessStep

(* EnterTyped: a request whose frame is well formed starts well formed. *)
LEMMA EnterTyped ==
  ASSUME TypeInv, NEW f \in Frame,
         frame' = [f EXCEPT !.entry = Snapshot] \/ frame' = f,
         UNCHANGED <<mem, arena, held>>,
         \/ f.pc = "find" /\ f.op = "query"
         \/ f.pc = "find" /\ f.op = "allocate" /\ f.owner \in Owners
         \/ f.pc = "coalesce" /\ f.op = "resize" /\ f.owner \in Owners
         \/ f.pc = "process" /\ f.op = "freeProcess" /\ f.owner \in Owners
         \/ f.pc = "locate" /\ f.op = "freeOwned"
         \/ f.pc = "locate" /\ f.op = "transfer" /\ f.newOwner \in Owners
         \/ f.pc = "single" /\ f.op = "free"
  PROVE  TypeInv'
<1>2. frame' \in Frame /\ frame'.pc = f.pc /\ frame'.op = f.op
      /\ frame'.owner = f.owner /\ frame'.newOwner = f.newOwner
  BY IdleTyped DEF Frame, Snapshot, TypeInv, TypeOK
<1> QED
  BY <1>2 DEF TypeInv, TypeOK, Control

(* RequestTyped: every request of a guest or of the kernel keeps the types. *)
LEMMA RequestTyped == TypeInv /\ Begin => TypeInv'
<1> SUFFICES ASSUME TypeInv, Begin PROVE TypeInv'
  OBVIOUS
<1>0. 0 \in Seg /\ Top \in Seg /\ Head \in Seg /\ End - Head - 1 \in Seg
  BY SegmentAssumption DEF Seg
<1>1. /\ mem \in [Seg -> Record] /\ arena.head \in Seg /\ frame \in Frame
      /\ Snapshot \in [Seg -> Record]
  BY IdleTyped DEF TypeInv, TypeOK, Snapshot, Frame
<1>a. arena.head \in Seg
  BY <1>1
<1>2. CASE Initialize
  <2>1. PICK w \in Outcomes :
          /\ Replace(Head, [sig |-> "Z", owner |-> Free,
                            size |-> End - Head - 1], w)
          /\ CASE w = "ok" ->
                    /\ arena' = [arena EXCEPT !.generation = @ + 1,
                                   !.head = Head, !.strategy = "first",
                                   !.init = TRUE]
                    /\ Promise({})
               [] w = "fault" -> UNCHANGED <<arena, held>>
               [] w = "torn"  -> /\ arena' = [arena EXCEPT !.poisoned = TRUE]
                                 /\ UNCHANGED held
    BY <1>2 DEF Initialize
  <2>3. mem' \in [Seg -> Record]
    BY <1>0, <1>1, <2>1, ReplaceTyped DEF Record
  <2>4. arena.generation + 1 \in 0 .. MaxGeneration
    BY <1>2, BoundAssumption DEF Initialize, TypeInv, TypeOK
  <2>5. arena' \in [head : Seg, strategy : Strategies, init : BOOLEAN,
                    poisoned : BOOLEAN, generation : 0 .. MaxGeneration]
    BY <1>0, <2>1, <2>4 DEF TypeInv, TypeOK, Outcomes, Strategies
  <2> QED
    BY <1>2, <2>3, <2>5, <2>1
    DEF Initialize, TypeInv, TypeOK, Control, Outcomes, Promise
<1>3. CASE BeginQuery
  <2> DEFINE f == [Idle EXCEPT !.pc = "find", !.op = "query", !.paras = Top,
                               !.cur = arena.head]
  <2>1. f \in Frame /\ f.pc = "find" /\ f.op = "query"
    BY <1>0, <1>a, IdleTyped DEF Frame
  <2>2. frame' = [f EXCEPT !.entry = Snapshot] /\ UNCHANGED <<mem, arena, held>>
    BY <1>3 DEF BeginQuery, Enter
  <2> HIDE DEF f
  <2> QED
    BY <2>1, <2>2, EnterTyped
<1>4. CASE Poison \/ \E s \in Strategies : SetStrategy(s)
  BY <1>4 DEF Poison, SetStrategy, TypeInv, TypeOK, Control
<1>5. CASE RefusePoisoned
  BY <1>0, <1>5, IdleTyped, ReturnTyped DEF RefusePoisoned, TypeInv, TypeOK
<1>6. ASSUME NEW o \in Owners, BeginFreeProcess(o) PROVE TypeInv'
  <2> DEFINE f == [Idle EXCEPT !.pc = "process", !.op = "freeProcess",
                               !.owner = o, !.cur = arena.head]
  <2>1. f \in Frame /\ f.pc = "process" /\ f.op = "freeProcess"
        /\ f.owner \in Owners
    BY <1>a, IdleTyped DEF Frame
  <2>2. frame' = [f EXCEPT !.entry = Snapshot] /\ UNCHANGED <<mem, arena, held>>
    BY <1>6 DEF BeginFreeProcess, Enter
  <2> HIDE DEF f
  <2> QED
    BY <2>1, <2>2, EnterTyped
<1>7. ASSUME NEW o \in Owners, NEW n \in Seg, BeginAllocate(o, n)
      PROVE  TypeInv'
  <2> DEFINE f == [Idle EXCEPT !.pc = "find", !.op = "allocate", !.owner = o,
                               !.paras = n, !.cur = arena.head]
  <2>1. f \in Frame /\ f.pc = "find" /\ f.op = "allocate"
        /\ f.owner \in Owners
    BY <1>a, IdleTyped DEF Frame
  <2>2. frame' = [f EXCEPT !.entry = Snapshot] /\ UNCHANGED <<mem, arena, held>>
    BY <1>7 DEF BeginAllocate, Enter
  <2> HIDE DEF f
  <2> QED
    BY <2>1, <2>2, EnterTyped
<1>8. ASSUME NEW o \in Owners, NEW b \in Seg, BeginFree(o, b)
      PROVE  TypeInv'
  <2> DEFINE h == HeaderOf(b)
             f == [Idle EXCEPT !.op = "free", !.cur = h, !.entry = Snapshot]
             a == [mem[h] EXCEPT !.owner = Free]
             g == [f EXCEPT !.pc = "single", !.after = a]
  <2>1. h \in Seg /\ a \in Record
    BY <1>1, SegmentArithmetic DEF Record
  <2>2. f \in Frame /\ f.op = "free"
    BY <1>1, <2>1, IdleTyped, ZenonT(60) DEF Frame
  <2> HIDE DEF f, a, h
  <2>3. g \in Frame /\ g.pc = "single" /\ g.op = "free"
    BY <2>1, <2>2 DEF Frame
  <2>4. /\ \/ frame' = g
           \/ ReturnFrom(f, "invalid", 0, 0)
           \/ ReturnFrom(f, "fault", 0, 0)
        /\ UNCHANGED <<mem, arena, held>>
    BY <1>8 DEF BeginFree, f, a, h
  <2> HIDE DEF g
  <2> QED
    BY <1>0, <2>2, <2>3, <2>4, EnterTyped, ReturnTyped DEF TypeInv, TypeOK
<1>9. ASSUME NEW o \in Owners, NEW b \in Seg, BeginFreeOwned(o, b)
      PROVE  TypeInv'
  <2> DEFINE f == [Idle EXCEPT !.pc = "locate", !.op = "freeOwned",
                               !.owner = o, !.wanted = HeaderOf(b),
                               !.cur = arena.head]
  <2>1. f \in Frame /\ f.pc = "locate" /\ f.op = "freeOwned"
    BY <1>a, IdleTyped, SegmentArithmetic DEF Frame
  <2>2. frame' = [f EXCEPT !.entry = Snapshot] /\ UNCHANGED <<mem, arena, held>>
    BY <1>9 DEF BeginFreeOwned, Enter
  <2> HIDE DEF f
  <2> QED
    BY <2>1, <2>2, EnterTyped
<1>10. ASSUME NEW o \in Owners, NEW b \in Seg, NEW new \in Owners,
              BeginTransfer(o, b, new)
       PROVE  TypeInv'
  <2> DEFINE f == [Idle EXCEPT !.pc = "locate", !.op = "transfer",
                               !.owner = o, !.newOwner = new,
                               !.wanted = HeaderOf(b), !.cur = arena.head]
  <2>1. f \in Frame /\ f.pc = "locate" /\ f.op = "transfer"
        /\ f.newOwner \in Owners
    BY <1>a, IdleTyped, SegmentArithmetic DEF Frame
  <2>2. frame' = [f EXCEPT !.entry = Snapshot] /\ UNCHANGED <<mem, arena, held>>
    BY <1>10 DEF BeginTransfer, Enter
  <2> HIDE DEF f
  <2> QED
    BY <2>1, <2>2, EnterTyped
<1>11. ASSUME NEW o \in Owners, NEW b \in Seg, NEW n \in Seg,
              BeginResize(o, b, n)
       PROVE  TypeInv'
  <2> DEFINE h == HeaderOf(b)
             f == [Idle EXCEPT !.op = "resize", !.owner = o, !.paras = n,
                               !.cur = h, !.rec = mem[h], !.entry = Snapshot]
             g == [f EXCEPT !.pc = "coalesce"]
  <2>2. f \in Frame /\ f.op = "resize" /\ f.owner = o
    BY <1>1, SegmentArithmetic, IdleTyped, ZenonT(60) DEF Frame
  <2> HIDE DEF f, h
  <2>3. g \in Frame /\ g.pc = "coalesce" /\ g.op = "resize" /\ g.owner = o
    BY <2>2 DEF Frame
  <2>4. /\ \/ frame' = g
           \/ ReturnFrom(f, "damaged", 0, 0)
           \/ ReturnFrom(f, "fault", 0, 0)
        /\ UNCHANGED <<mem, arena, held>>
    BY <1>11 DEF BeginResize, f, h
  <2> HIDE DEF g
  <2> QED
    BY <1>0, <2>2, <2>3, <2>4, EnterTyped, ReturnTyped DEF TypeInv, TypeOK
<1>12. ASSUME NEW s \in Seg, NEW r \in Foreign, GuestWrite(s, r)
       PROVE  TypeInv'
  BY <1>12, ForeignAssumption DEF GuestWrite, TypeInv, TypeOK, Control
<1> QED
  BY <1>2, <1>3, <1>4, <1>5, <1>6, <1>7, <1>8, <1>9, <1>10, <1>11, <1>12
     DEF Begin

(* TypeStep: every step of the arena keeps the types. *)
LEMMA TypeStep == TypeInv /\ [Next]_vars => TypeInv'
<1> SUFFICES ASSUME TypeInv, [Next]_vars PROVE TypeInv'
  OBVIOUS
<1>1. CASE Finish
  BY <1>1, IdleTyped DEF Finish, TypeInv, TypeOK, Control
<1>2. CASE UNCHANGED vars
  BY <1>2 DEF vars, TypeInv, TypeOK, Control
<1> QED
  BY <1>1, <1>2, FindStepTyped, CoalesceStepTyped, SelectTyped,
     AllocateLowTyped, AllocateHighTyped, HideSplitTyped, PublishSplitTyped,
     UnwindSplitTyped, WriteSingleTyped, LocateStepTyped,
     FreeProcessStepTyped, RequestTyped
     DEF Next, Step

(* TypeInit: the constructed arena is typed. *)
LEMMA TypeInit == Init => TypeInv
<1> SUFFICES ASSUME Init PROVE TypeInv
  OBVIOUS
<1>1. mem \in [Seg -> Record]
  BY ForeignAssumption DEF Init
<1> QED
  BY <1>1, SegmentAssumption, BoundAssumption, IdleTyped
  DEF Init, TypeInv, TypeOK, Control, Seg, Strategies

(* TypeCorrect: whatever the guests write over the chain, no call of the   *)
(* arena leaves the 16-bit segment space: every header it follows, every   *)
(* size it computes and every block it hands out is a segment.             *)
THEOREM TypeCorrect == Spec => []TypeOK
<1>1. TypeInv => TypeOK
  BY DEF TypeInv
<1> QED
  BY <1>1, TypeInit, TypeStep, PTL DEF Spec

-----------------------------------------------------------------------------
(* The chain and the promises, for guests that keep to their blocks.       *)

(* ChainTyped: the headers of a chain are segments with typed headers. *)
LEMMA ChainTyped ==
  ASSUME TypeInv, NEW H \in SUBSET (Head .. End - 1)
  PROVE  \A h \in H :
           /\ h \in Seg /\ h \in Int /\ mem[h] \in Record
           /\ mem[h].size \in Nat
           /\ NextSegment(h, mem[h]) \in Nat /\ h < NextSegment(h, mem[h])
           /\ NextSegment(h, mem[h]) = h + mem[h].size + 1
<1> SUFFICES ASSUME NEW h \in H
             PROVE  /\ h \in Seg /\ h \in Int /\ mem[h] \in Record
                    /\ mem[h].size \in Nat
                    /\ NextSegment(h, mem[h]) \in Nat
                    /\ h < NextSegment(h, mem[h])
                    /\ NextSegment(h, mem[h]) = h + mem[h].size + 1
  OBVIOUS
<1>1. h \in Seg /\ h \in Int
  BY SegmentArithmetic
<1>2. mem[h] \in Record
  BY <1>1 DEF TypeInv, TypeOK
<1> QED
  BY <1>1, <1>2, RecordFields, SegmentArithmetic, NextAbove

(* ReturnDone: a call that returned is done. *)
LEMMA ReturnDone ==
  ASSUME NEW f, NEW status, NEW maximum, NEW block,
         ReturnFrom(f, status, maximum, block)
  PROVE  frame'.pc = "done"
BY IdleTyped DEF ReturnFrom, Frame

(* HeldTyped: what the guests were promised. *)
LEMMA HeldTyped ==
  ASSUME TypeInv
  PROVE  \A b \in held : /\ b.seg \in Seg /\ b.seg \in Int /\ b.size \in Nat
                         /\ b.owner \in Owners /\ b.owner # Free
<1> SUFFICES ASSUME NEW b \in held
             PROVE  /\ b.seg \in Seg /\ b.seg \in Int /\ b.size \in Nat
                    /\ b.owner \in Owners /\ b.owner # Free
  OBVIOUS
<1>1. b.seg \in Seg /\ b.size \in Seg /\ b.owner \in Owners
  BY DEF TypeInv, TypeOK
<1>3. b.owner # Free
  BY <1>1, OwnerAssumption
<1> QED
  BY <1>1, SegmentAssumption, <1>3 DEF Seg

(* QuietReturn: a call that returns without a write and without a change   *)
(* of the promises leaves the chain good.                                  *)
LEMMA QuietReturn ==
  ASSUME NEW H \in SUBSET (Head .. End - 1), Good(H),
         mem' = mem, held' = held, frame'.pc \in {"done", "idle"},
         frame.pc = "process" => ~frame.changed
  PROVE  Good(H)'
BY DEF Good, KeptIn, FrameOf

(* FailQuiet: an early return is one. *)
LEMMA FailQuiet ==
  ASSUME NEW H \in SUBSET (Head .. End - 1), Good(H), frame.pc # "process",
         Fail("fault") \/ Fail("damaged") \/ Fail("invalid")
         \/ Fail("mismatch")
  PROVE  Good(H)'
<1> QED
  BY ReturnDone, QuietReturn DEF Fail, Return

(* AdvanceGood: the walk of find_candidates moves along the chain. *)
LEMMA AdvanceGood ==
  ASSUME TypeInv, NEW H \in SUBSET (Head .. End - 1), Good(H),
         NEW f \in Frame, frame.pc \in {"find", "coalesce"},
         f.cur \in H, f.splitAfter.owner = Free,
         f.cand.found =>
           \A c \in {f.cand.first, f.cand.best, f.cand.last} :
             c \in H /\ mem[c].owner = Free /\ c <= f.cur,
         FindAdvance(f, mem[f.cur]), mem' = mem, held' = held
  PROVE  Good(H)'
<1> DEFINE r == mem[f.cur]
           n == NextSegment(f.cur, r)
<1>1. CASE Return("ok", f.cand.maximum, 0) \/ Return("damaged", 0, 0)
  BY <1>1, ReturnDone, QuietReturn DEF Return
<1>2. CASE frame' = [f EXCEPT !.pc = "select"]
  BY <1>2 DEF Frame, Good, KeptIn, FrameOf, CandidatesOf
<1>3. CASE r.sig # "Z" /\ frame' = [f EXCEPT !.pc = "find", !.cur = n]
  <2>1. frame'.pc = "find" /\ frame'.cand = f.cand /\ frame'.cur = n
        /\ frame'.splitAfter = f.splitAfter
    BY <1>3 DEF Frame
  <2>2. n \in H
    BY <1>3 DEF Good, Tiles, ValidSignature
  <2>3. f.cur \in Int /\ n \in Nat /\ f.cur < n
    BY ChainTyped, Zenon
  <2> HIDE DEF n
  <2>5. f.cand.found =>
          \A c \in {f.cand.first, f.cand.best, f.cand.last} :
             c \in H /\ mem[c].owner = Free /\ c < n
    <3> SUFFICES ASSUME f.cand.found,
                        NEW c \in {f.cand.first, f.cand.best, f.cand.last}
                 PROVE  c \in H /\ mem[c].owner = Free /\ c < n
      OBVIOUS
    <3>1. c \in H /\ mem[c].owner = Free /\ c <= f.cur
      OBVIOUS
    <3> QED
      BY <2>3, <3>1, SegmentArithmetic
  <2>6. FrameOf(H)'
    BY <2>1, <2>2, <2>5 DEF FrameOf, CandidatesOf
  <2> QED
    BY <2>1, <2>6 DEF Good, KeptIn
<1> QED
  BY <1>1, <1>2, <1>3 DEF FindAdvance

(* FindStepGood: one iteration of find_candidates keeps the chain good. *)
LEMMA FindStepGood ==
  ASSUME TypeInv, NEW H \in SUBSET (Head .. End - 1), Good(H), FindStep
  PROVE  Good(H)'
<1>1. frame.pc = "find" /\ frame \in Frame /\ frame.cur \in H
      /\ CandidatesOf(H) /\ frame.splitAfter.owner = Free
  BY DEF FindStep, Good, FrameOf, TypeInv, TypeOK
<1>2. CASE Fail("fault") \/ Fail("damaged")
  BY <1>1, <1>2, FailQuiet
<1>3. CASE /\ mem[frame.cur].owner = Free
           /\ frame' = [frame EXCEPT !.pc = "coalesce",
                                     !.rec = mem[frame.cur]]
           /\ UNCHANGED <<mem, arena, held>>
  BY <1>1, <1>3 DEF Frame, Good, KeptIn, CandidatesOf, FrameOf
<1>4. CASE FindAdvance(frame, mem[frame.cur]) /\ UNCHANGED <<mem, arena, held>>
  <2>1. frame.cand.found =>
           \A c \in {frame.cand.first, frame.cand.best, frame.cand.last} :
             c \in H /\ mem[c].owner = Free /\ c <= frame.cur
    <3> SUFFICES ASSUME frame.cand.found,
                        NEW c \in {frame.cand.first, frame.cand.best,
                                   frame.cand.last}
                 PROVE  c \in H /\ mem[c].owner = Free /\ c <= frame.cur
      OBVIOUS
    <3>2. c \in H /\ mem[c].owner = Free /\ c < frame.cur
      BY <1>1 DEF CandidatesOf
    <3>4. c \in Int /\ frame.cur \in Int
      BY <1>1, <3>2, ChainTyped, Zenon
    <3> QED
      BY <3>2, <3>4
  <2> QED
    BY <1>1, <1>4, <2>1, AdvanceGood
<1> QED
  BY <1>2, <1>3, <1>4 DEF FindStep

(* TallyCandidates: the candidates after one free run are the candidates   *)
(* before it and the run itself.                                           *)
LEMMA TallyCandidates ==
  ASSUME NEW c \in [found : BOOLEAN, first : Seg, best : Seg, bestSize : Seg,
                    last : Seg, maximum : Seg],
         NEW s, NEW size, NEW requested
  PROVE  LET t == Tally(c, s, size, requested)
         IN  t.found =>
               /\ t.first \in {s, c.first} /\ t.best \in {s, c.best}
               /\ t.last \in {s, c.last}
               /\ c.found \/ (t.first = s /\ t.best = s /\ t.last = s)
<1>1. CASE size < requested
  BY <1>1 DEF Tally
<1>2. CASE ~(size < requested) /\ ~c.found
  BY <1>2 DEF Tally
<1>3. CASE ~(size < requested) /\ c.found
  BY <1>3 DEF Tally
<1> QED
  BY <1>1, <1>2, <1>3

(* CoalescedGood: the return from coalesce_forward keeps the chain good. *)
LEMMA CoalescedGood ==
  ASSUME TypeInv, NEW H \in SUBSET (Head .. End - 1), Good(H),
         frame.pc = "coalesce", Coalesced
  PROVE  Good(H)'
<1>1. /\ frame \in Frame /\ frame.cur \in H /\ frame.rec = mem[frame.cur]
      /\ CandidatesOf(H) /\ frame.splitAfter.owner = Free
      /\ frame.op # "resize" => mem[frame.cur].owner = Free
      /\ mem' = mem /\ held' = held
  BY DEF Coalesced, Good, FrameOf, TypeInv, TypeOK
<1>2. CASE Return("nomem", frame.rec.size, 0)
  BY <1>2, ReturnDone, <1>1, QuietReturn DEF Return
<1>3. CASE frame' = [frame EXCEPT !.pc = "low"]
  BY <1>1, <1>3 DEF Frame, Good, KeptIn, FrameOf
<1>4. CASE frame.op # "resize"
  <2> DEFINE t == Tally(frame.cand, frame.cur, frame.rec.size, frame.paras)
             f == [frame EXCEPT !.cand = t]
  <2>1. f \in Frame
    BY <1>1, TallyTyped
  <2>2. f.cur = frame.cur /\ f.cand = t /\ f.splitAfter = frame.splitAfter
    BY <1>1 DEF Frame
  <2>3. FindAdvance(f, mem[f.cur])
    BY <1>1, <1>4, <2>2 DEF Coalesced
  <2>4. t.found => /\ t.first \in {frame.cur, frame.cand.first}
                   /\ t.best \in {frame.cur, frame.cand.best}
                   /\ t.last \in {frame.cur, frame.cand.last}
                   /\ frame.cand.found \/ (/\ t.first = frame.cur
                                           /\ t.best = frame.cur
                                           /\ t.last = frame.cur)
    BY <1>1, TallyCandidates DEF Frame
  <2> HIDE DEF t, f
  <2>5. f.cand.found =>
          \A c \in {f.cand.first, f.cand.best, f.cand.last} :
             c \in H /\ mem[c].owner = Free /\ c <= f.cur
    <3> SUFFICES ASSUME t.found, NEW c \in {t.first, t.best, t.last}
                 PROVE  c \in H /\ mem[c].owner = Free /\ c <= frame.cur
      BY <2>2
    <3>1. CASE c = frame.cur
      <4>1. c \in Int
        BY <1>1, <3>1, ChainTyped
      <4> QED
        BY <1>1, <1>4, <3>1, <4>1
    <3>2. CASE c # frame.cur
      <4>2. c \in H /\ mem[c].owner = Free /\ c < frame.cur
        BY <1>1, <2>4, <3>2 DEF CandidatesOf
      <4> QED
        BY <4>2, <1>1, SegmentArithmetic
    <3> QED
      BY <3>1, <3>2
  <2> QED
    BY <1>1, <2>1, <2>2, <2>3, <2>5, AdvanceGood
<1> QED
  BY <1>2, <1>3, <1>4 DEF Coalesced

(* CoalesceStepGood: merging a free neighbour removes its header from the  *)
(* chain and touches no promise.                                           *)
LEMMA CoalesceStepGood ==
  ASSUME TypeInv, NEW H \in SUBSET (Head .. End - 1), Good(H), CoalesceStep,
         Ready'
  PROVE  \E G \in SUBSET (Head .. End - 1) : Good(G)'
<1> DEFINE r == frame.rec
           n == NextSegment(frame.cur, r)
<1>1. /\ frame.pc = "coalesce" /\ frame \in Frame /\ frame.cur \in H
      /\ r = mem[frame.cur] /\ CandidatesOf(H)
      /\ frame.splitAfter.owner = Free /\ mem \in [Seg -> Record]
      /\ frame.op # "resize" => r.owner = Free
  BY DEF CoalesceStep, Good, FrameOf, TypeInv, TypeOK
<1>2. CASE Fail("fault") \/ Fail("damaged")
  BY <1>1, <1>2, FailQuiet
<1>3. CASE Coalesced
  BY <1>1, <1>3, CoalescedGood
<1>4. ASSUME r.sig # "Z", n <= Top, ValidMcb(mem, n), mem[n].owner = Free,
             NEW w \in Outcomes,
             Replace(frame.cur, Merged(r, mem[n]), w), PoisonedBy(w),
             CASE w = "ok"    -> /\ frame' = [frame EXCEPT
                                         !.rec = Merged(r, mem[n])]
               [] w = "fault" -> Return("fault", 0, 0)
               [] w = "torn"  -> Return("poisoned", 0, 0),
             UNCHANGED held
      PROVE  \E G \in SUBSET (Head .. End - 1) : Good(G)'
  <2>1. CASE w = "ok"
    <3> DEFINE a == Merged(r, mem[n])
    <3>0. PICK G \in SUBSET (Head .. End - 1) : G = H \ {n}
      OBVIOUS
    <3>1. a \in Record /\ r \in Record /\ n \in Seg
      BY <1>1, <1>4, ChainTyped, MergedTyped
    <3>2. mem' = [mem EXCEPT ![frame.cur] = a]
      BY <1>4, <2>1 DEF Replace
    <3>3. n \in H /\ frame.cur < n /\ Tiles(mem', G)
      BY <1>1, <1>4, <3>0, <3>1, <3>2, Merge DEF Good
    <3>4. frame' = [frame EXCEPT !.rec = a]
      BY <1>4, <2>1
    <3>5. a.owner = r.owner /\ a.size >= r.size
      BY <3>1, <1>1, <3>3, ChainTyped DEF Merged, Record
    <3>6. frame.cur \in Seg /\ n \in Int /\ \A h \in H : h \in Seg /\ h \in Int
      BY <1>1, <3>3, ChainTyped
    <3> HIDE DEF a, n
    <3>7. /\ mem'[frame.cur] = a
          /\ \A h \in H : h # frame.cur => mem'[h] = mem[h]
      BY <1>1, <3>2, <3>6
    <3>8. /\ frame'.pc = "coalesce" /\ frame'.rec = a /\ frame'.cur = frame.cur
          /\ frame'.op = frame.op /\ frame'.cand = frame.cand
          /\ frame'.splitAfter = frame.splitAfter
      BY <1>1, <3>4 DEF Frame
    <3>9. KeptIn(G)'
      <4>1. ASSUME NEW b \in held
            PROVE  /\ b.seg - 1 \in G /\ mem'[b.seg - 1].size >= b.size
                   /\ mem'[b.seg - 1].owner = b.owner
        <5>1. /\ b.seg - 1 \in H /\ mem[b.seg - 1].size >= b.size
              /\ mem[b.seg - 1].owner = b.owner
          BY <1>1 DEF Good, KeptIn
        <5>2. b.owner \in Owners /\ b.size \in Nat
          BY HeldTyped
        <5>3. b.seg - 1 # n
          BY <1>4, <5>1, <5>2, OwnerAssumption
        <5>4. CASE b.seg - 1 = frame.cur
          <6>1. r.size \in Nat /\ a.size \in Nat
            BY <3>1, RecordFields, SegmentArithmetic DEF a
          <6>2. a.size >= b.size
            BY <1>1, <3>5, <5>1, <5>2, <5>4, <6>1
          <6> QED
            BY <1>1, <3>0, <3>5, <3>7, <5>1, <5>3, <5>4, <6>2
        <5>5. CASE b.seg - 1 # frame.cur
          BY <3>0, <3>7, <5>1, <5>3, <5>5
        <5> QED
          BY <5>4, <5>5
      <4>2. ASSUME NEW h \in G, mem'[h].owner # Free
            PROVE  \E b \in held : b.seg = h + 1 /\ b.owner = mem'[h].owner
        BY <1>1, <3>0, <3>5, <3>7, <4>2 DEF Good, KeptIn
      <4> QED
        BY <1>4, <4>1, <4>2 DEF KeptIn
    <3>10. CandidatesOf(G)'
      <4>1. \A c \in H : c < frame.cur =>
              c \in G /\ mem'[c].owner = mem[c].owner
        <5> SUFFICES ASSUME NEW c \in H, c < frame.cur
                     PROVE  c \in G /\ mem'[c].owner = mem[c].owner
          OBVIOUS
        <5>2. c # n /\ c # frame.cur
          BY <3>3, <1>1, <3>6
        <5> QED
          BY <3>0, <3>7, <5>2
      <4> QED
        BY <1>1, <3>8, <4>1, ZenonT(60) DEF CandidatesOf
    <3>12. FrameOf(G)'
      BY <1>1, <3>5, <3>7, <3>8, <3>10, <3>0, <3>3, <3>6 DEF FrameOf
    <3> QED
      BY <3>3, <3>9, <3>12 DEF Good
  <2>2. CASE w = "fault"
    BY <1>4, <2>2, ReturnDone, <1>1, QuietReturn DEF Replace, Return
  <2>3. CASE w = "torn"
    BY <1>4, <2>3 DEF PoisonedBy, Ready, TypeInv, TypeOK
  <2> QED
    BY <2>1, <2>2, <2>3 DEF Outcomes
<1> QED
  BY <1>2, <1>3, <1>4 DEF CoalesceStep

(* SelectGood: the chosen candidate is a free block of the chain. *)
LEMMA SelectGood ==
  ASSUME TypeInv, NEW H \in SUBSET (Head .. End - 1), Good(H), Select
  PROVE  Good(H)'
<1>1. /\ frame.pc = "select" /\ frame \in Frame /\ CandidatesOf(H)
      /\ frame.splitAfter.owner = Free /\ mem' = mem /\ held' = held
      /\ arena.strategy \in Strategies
  BY DEF Select, Good, FrameOf, TypeInv, TypeOK
<1>2. CASE ~frame.cand.found
  BY <1>2, ReturnDone, <1>1, QuietReturn DEF Select, Return
<1>3. CASE frame.cand.found
  <2> DEFINE c == CASE arena.strategy = "first" -> frame.cand.first
                    [] arena.strategy = "best"  -> frame.cand.best
                    [] arena.strategy = "last"  -> frame.cand.last
             p == IF arena.strategy = "last" THEN "high" ELSE "low"
  <2>1. c \in H /\ mem[c].owner = Free
    BY <1>1, <1>3 DEF CandidatesOf, Strategies
  <2>2. frame' = [frame EXCEPT !.pc = p, !.cur = c]
    BY <1>3 DEF Select
  <2>3. p \in {"high", "low"}
    OBVIOUS
  <2> HIDE DEF c, p
  <2>4. frame'.pc = p /\ frame'.cur = c /\ frame'.splitAfter = frame.splitAfter
    BY <1>1, <2>2 DEF Frame
  <2>6. FrameOf(H)'
    BY <1>1, <2>1, <2>3, <2>4 DEF FrameOf
  <2> QED
    BY <1>1, <2>3, <2>4, <2>6 DEF Good, KeptIn
<1> QED
  BY <1>2, <1>3

(* TakeWholeGood: a whole block is taken by one rewrite of its owner. *)
LEMMA TakeWholeGood ==
  ASSUME TypeInv, NEW H \in SUBSET (Head .. End - 1), Good(H),
         frame.pc \in {"low", "high"}, TakeWhole(mem[frame.cur]),
         frame.paras = mem[frame.cur].size, UNCHANGED <<mem, arena, held>>
  PROVE  Good(H)'
<1>1. /\ frame \in Frame /\ frame.cur \in H /\ mem[frame.cur] \in Record
      /\ frame.splitAfter.owner = Free
      /\ frame.op \in {"allocate", "resize"}
  BY ChainTyped DEF Good, FrameOf, TypeInv, TypeOK, Control
<1>2. /\ frame'.pc = "single" /\ frame'.cur = frame.cur
      /\ frame'.owner = frame.owner /\ frame'.op = frame.op
      /\ frame'.paras = frame.paras /\ frame'.splitAfter = frame.splitAfter
      /\ frame'.after = [mem[frame.cur] EXCEPT !.owner = frame.owner]
  BY <1>1 DEF TakeWhole, Frame
<1>5. FrameOf(H)'
  BY <1>1, <1>2 DEF FrameOf, Record
<1> QED
  BY <1>2, <1>5 DEF Good, KeptIn

(* PlanGood: a planned split cuts the block at cur. *)
LEMMA PlanGood ==
  ASSUME TypeInv, NEW H \in SUBSET (Head .. End - 1), Good(H),
         frame.pc \in {"low", "high"}, UNCHANGED <<mem, arena, held>>,
         NEW a \in Record, NEW s \in Seg, NEW x \in Record,
         frame' = [frame EXCEPT !.pc = "hide", !.after = a, !.splitSeg = s,
                                !.splitBefore = mem[s], !.splitAfter = x],
         frame.cur < s, s < NextSegment(frame.cur, mem[frame.cur]),
         a.sig = "M", NextSegment(frame.cur, a) = s,
         x.sig = mem[frame.cur].sig,
         NextSegment(s, x) = NextSegment(frame.cur, mem[frame.cur]),
         \/ a.owner = frame.owner /\ a.size = frame.paras /\ x.owner = Free
         \/ /\ a.owner = Free /\ mem[frame.cur].owner = Free
            /\ x.owner = frame.owner /\ x.size = frame.paras
  PROVE  Good(H)'
<1>1. frame \in Frame /\ frame.cur \in H
  BY DEF Good, FrameOf, TypeInv, TypeOK
<1>2. /\ frame'.pc = "hide" /\ frame'.cur = frame.cur
      /\ frame'.owner = frame.owner /\ frame'.paras = frame.paras
      /\ frame'.after = a /\ frame'.splitSeg = s /\ frame'.splitAfter = x
  BY <1>1 DEF Frame
<1>5. FrameOf(H)'
  BY <1>1, <1>2 DEF FrameOf, SplitOf
<1> QED
  BY <1>2, <1>5 DEF Good, KeptIn

(* AllocateLowGood: taking the low end of a block plans such a cut. *)
LEMMA AllocateLowGood ==
  ASSUME TypeInv, NEW H \in SUBSET (Head .. End - 1), Good(H), AllocateLow
  PROVE  Good(H)'
<1> DEFINE r == mem[frame.cur]
           a == [sig |-> "M", owner |-> frame.owner, size |-> frame.paras]
           s == frame.cur + frame.paras + 1
           x == [sig |-> r.sig, owner |-> Free,
                  size |-> r.size - frame.paras - 1]
<1>0. frame.pc = "low" /\ frame.cur \in H
  BY DEF AllocateLow, Good, FrameOf
<1>1. CASE Fail("fault") \/ Fail("damaged")
  BY <1>0, <1>1, FailQuiet
<1>2. CASE /\ TakeWhole(r) /\ frame.paras = r.size
           /\ UNCHANGED <<mem, arena, held>>
  BY <1>0, <1>2, TakeWholeGood
<1>3. CASE /\ ValidMcb(mem, frame.cur) /\ frame.paras < r.size
           /\ frame' = [frame EXCEPT !.pc = "hide", !.after = a,
                           !.splitSeg = s, !.splitBefore = mem[s],
                           !.splitAfter = x]
           /\ UNCHANGED <<mem, arena, held>>
  <2>1. a \in Record /\ s \in Seg /\ x \in Record
    BY <1>0, <1>3, CutTyped
  <2>2. /\ frame.cur \in Nat /\ r.size \in Nat /\ frame.paras \in Nat
        /\ NextSegment(frame.cur, r) = frame.cur + r.size + 1
    BY <1>0, ChainTyped, SegmentArithmetic DEF TypeInv, TypeOK, Frame
  <2>3. frame.cur < s /\ s < NextSegment(frame.cur, r)
    BY <1>3, <2>2
  <2>4. NextSegment(frame.cur, a) = s
        /\ NextSegment(s, x) = NextSegment(frame.cur, r)
    BY <1>3, <2>2 DEF NextSegment
  <2>5. /\ a.sig = "M" /\ x.sig = r.sig
        /\ a.owner = frame.owner /\ a.size = frame.paras /\ x.owner = Free
    BY <1>0 DEF Good, FrameOf
  <2> HIDE DEF a, s, x
  <2> QED
    BY <1>0, <1>3, <2>1, <2>3, <2>4, <2>5, PlanGood
<1> QED
  BY <1>1, <1>2, <1>3 DEF AllocateLow, Remainder

(* AllocateHighGood: so does taking its high end. *)
LEMMA AllocateHighGood ==
  ASSUME TypeInv, NEW H \in SUBSET (Head .. End - 1), Good(H), AllocateHigh
  PROVE  Good(H)'
<1> DEFINE r == mem[frame.cur]
           a == [sig |-> "M", owner |-> Free,
                  size |-> r.size - frame.paras - 1]
           s == frame.cur + (r.size - frame.paras)
           x == [sig |-> r.sig, owner |-> frame.owner, size |-> frame.paras]
<1>0. frame.pc = "high" /\ frame.cur \in H
  BY DEF AllocateHigh, Good, FrameOf
<1>1. CASE Fail("fault") \/ Fail("damaged")
  BY <1>0, <1>1, FailQuiet
<1>2. CASE /\ TakeWhole(r) /\ frame.paras = r.size
           /\ UNCHANGED <<mem, arena, held>>
  BY <1>0, <1>2, TakeWholeGood
<1>3. CASE /\ ValidMcb(mem, frame.cur) /\ frame.paras < r.size
           /\ frame' = [frame EXCEPT !.pc = "hide", !.after = a,
                           !.splitSeg = s, !.splitBefore = mem[s],
                           !.splitAfter = x]
           /\ UNCHANGED <<mem, arena, held>>
  <2>1. a \in Record /\ s \in Seg /\ x \in Record
    BY <1>0, <1>3, CutTyped
  <2>2. /\ frame.cur \in Nat /\ r.size \in Nat /\ frame.paras \in Nat
        /\ NextSegment(frame.cur, r) = frame.cur + r.size + 1
    BY <1>0, ChainTyped, SegmentArithmetic DEF TypeInv, TypeOK, Frame
  <2>3. frame.cur < s /\ s < NextSegment(frame.cur, r)
    BY <1>3, <2>2
  <2>4. NextSegment(frame.cur, a) = s
        /\ NextSegment(s, x) = NextSegment(frame.cur, r)
    BY <1>3, <2>2 DEF NextSegment
  <2>5. /\ a.sig = "M" /\ x.sig = r.sig
        /\ a.owner = Free /\ r.owner = Free /\ x.owner = frame.owner
        /\ x.size = frame.paras
    BY <1>0 DEF Good, FrameOf
  <2> HIDE DEF a, s, x
  <2> QED
    BY <1>0, <1>3, <2>1, <2>3, <2>4, <2>5, PlanGood
<1> QED
  BY <1>1, <1>2, <1>3 DEF AllocateHigh, Remainder

(* OutsideGood: a write that hits no header keeps chain and promises. *)
LEMMA OutsideGood ==
  ASSUME TypeInv, NEW H \in SUBSET (Head .. End - 1), Good(H),
         NEW s \in Seg, s \notin H, NEW r \in Record,
         mem' = [mem EXCEPT ![s] = r], held' = held, frame.pc # "process"
  PROVE  /\ Tiles(mem', H) /\ KeptIn(H)' /\ mem'[s] = r
         /\ \A h \in H : mem'[h] = mem[h]
<1>2. mem'[s] = r /\ \A h \in H : mem'[h] = mem[h]
  BY ChainTyped DEF TypeInv, TypeOK
<1>3. KeptIn(H)'
  BY <1>2 DEF Good, KeptIn
<1> QED
  BY OutsideWrite, <1>2, <1>3 DEF Good, TypeInv, TypeOK

(* SplitInside: the hidden half of a split lies inside the block at cur. *)
LEMMA SplitInside ==
  ASSUME TypeInv, NEW H \in SUBSET (Head .. End - 1), Good(H),
         frame.pc \in {"hide", "publish", "unwind"}
  PROVE  /\ frame.splitSeg \notin H /\ frame.cur \in H /\ SplitOf(H)
         /\ frame.splitSeg \in Seg /\ frame.splitAfter \in Record
         /\ frame.splitBefore \in Record /\ frame.after \in Record
         /\ frame \in Frame /\ mem \in [Seg -> Record]
<1>1. /\ frame.cur \in H /\ SplitOf(H) /\ Tiles(mem, H)
  BY DEF Good, FrameOf
<1>2. /\ frame.splitSeg \in Seg /\ frame.splitAfter \in Record
      /\ frame.splitBefore \in Record /\ frame.after \in Record
      /\ frame \in Frame /\ mem \in [Seg -> Record]
  BY DEF TypeInv, TypeOK, Frame
<1> QED
  BY <1>1, <1>2, InsideBlock DEF SplitOf

(* HideSplitGood: the hidden header is written where no header is. *)
LEMMA HideSplitGood ==
  ASSUME TypeInv, NEW H \in SUBSET (Head .. End - 1), Good(H), HideSplit,
         Ready'
  PROVE  Good(H)'
<1>0. frame.pc = "hide"
  BY DEF HideSplit
<1>1. /\ frame.splitSeg \notin H /\ frame.cur \in H /\ SplitOf(H)
      /\ frame.splitSeg \in Seg /\ frame.splitAfter \in Record
      /\ frame \in Frame
  BY <1>0, SplitInside
<1>2. PICK w \in Outcomes :
        /\ Replace(frame.splitSeg, frame.splitAfter, w)
        /\ PoisonedBy(w)
        /\ CASE w = "ok"    -> /\ frame' = [frame EXCEPT !.pc = "publish"]
             [] w = "fault" -> Return("fault", Bx, 0)
             [] w = "torn"  -> Return("poisoned", Bx, 0)
  BY DEF HideSplit
<1>3. held' = held
  BY DEF HideSplit
<1>4. CASE w = "ok"
  <2>1. mem' = [mem EXCEPT ![frame.splitSeg] = frame.splitAfter]
    BY <1>2, <1>4 DEF Replace
  <2>2. /\ Tiles(mem', H) /\ KeptIn(H)'
        /\ mem'[frame.splitSeg] = frame.splitAfter
        /\ \A h \in H : mem'[h] = mem[h]
    BY <1>0, <1>1, <1>3, <2>1, OutsideGood, ZenonT(60)
  <2>3. /\ frame'.pc = "publish" /\ frame'.cur = frame.cur
        /\ frame'.owner = frame.owner /\ frame'.paras = frame.paras
        /\ frame'.after = frame.after /\ frame'.splitSeg = frame.splitSeg
        /\ frame'.splitAfter = frame.splitAfter
    BY <1>1, <1>2, <1>4 DEF Frame
  <2>4. SplitOf(H)'
    <3>1. mem'[frame'.cur] = mem[frame.cur]
      BY <1>1, <2>2, <2>3
    <3> QED
      BY <1>1, <2>3, <3>1 DEF SplitOf
  <2>5. FrameOf(H)'
    BY <1>1, <2>2, <2>3, <2>4 DEF FrameOf
  <2> QED
    BY <2>2, <2>5 DEF Good
<1>5. CASE w = "fault"
  <2>1. mem' = mem /\ frame'.pc = "done"
    BY <1>2, <1>5, ReturnDone DEF Replace, Return
  <2> QED
    BY <1>0, <1>3, <2>1, QuietReturn
<1>6. CASE w = "torn"
  BY <1>2, <1>6 DEF PoisonedBy, Ready, TypeInv, TypeOK
<1> QED
  BY <1>4, <1>5, <1>6 DEF Outcomes

(* PublishSplitGood: the second write adds the hidden header to the chain, *)
(* and the promises afterwards are the ones before and the granted block.  *)
LEMMA PublishSplitGood ==
  ASSUME Confined, TypeInv, NEW H \in SUBSET (Head .. End - 1), Good(H),
         PublishSplit, Ready'
  PROVE  \E G \in SUBSET (Head .. End - 1) : Good(G)'
<1>0. frame.pc = "publish" /\ mem[frame.splitSeg] = frame.splitAfter
      /\ frame.op \in {"allocate", "resize"} /\ frame.owner \in Owners
  BY DEF PublishSplit, Good, FrameOf, TypeInv, Control
<1>1. /\ frame.splitSeg \notin H /\ frame.cur \in H /\ SplitOf(H)
      /\ frame.splitSeg \in Seg /\ frame.after \in Record
      /\ frame \in Frame /\ mem \in [Seg -> Record]
  BY <1>0, SplitInside
<1>2. PICK w \in Outcomes :
        /\ Replace(frame.cur, frame.after, w)
        /\ PoisonedBy(w)
        /\ IF w = "ok"
             THEN Grant
             ELSE /\ frame' = [frame EXCEPT !.pc = "unwind"]
                  /\ UNCHANGED held
  BY DEF PublishSplit
<1>3. CASE w = "ok"
  <2>1. mem' = [mem EXCEPT ![frame.cur] = frame.after]
    BY <1>2, <1>3 DEF Replace
  <2>a. /\ H \cup {frame.splitSeg} \in SUBSET (Head .. End - 1)
        /\ Tiles(mem', H \cup {frame.splitSeg})
    <3>1. /\ Tiles(mem, H) /\ frame.cur < frame.splitSeg
          /\ frame.splitSeg < NextSegment(frame.cur, mem[frame.cur])
          /\ mem[frame.splitSeg].sig = mem[frame.cur].sig
          /\ NextSegment(frame.splitSeg, mem[frame.splitSeg]) =
               NextSegment(frame.cur, mem[frame.cur])
          /\ frame.after.sig = "M"
          /\ NextSegment(frame.cur, frame.after) = frame.splitSeg
      BY <1>0, <1>1 DEF Good, SplitOf
    <3> QED
      BY <1>1, <2>1, <3>1, Split
  <2>2. PICK G \in SUBSET (Head .. End - 1) : G = H \cup {frame.splitSeg}
    BY <2>a
  <2>3. Tiles(mem', G)
    BY <2>a, <2>2
  <2>4. /\ held' = {b \in held : b.seg # Granted.seg} \cup {Granted}
        /\ frame'.pc = "done"
    BY <1>2, <1>3, ReturnDone DEF Grant, Promise, Return
  <2>5. /\ frame.cur \in Seg /\ mem'[frame.cur] = frame.after
        /\ \A h \in Seg : h # frame.cur => mem'[h] = mem[h]
        /\ \A h \in H : h \in Seg
        /\ frame.splitSeg # frame.cur
    BY <1>1, <2>1, ChainTyped
  <2>7. \A h \in G : h \in Int
    BY <2>2, SegmentArithmetic
  <2>8. frame.paras \in Nat
    BY <1>1, SegmentArithmetic DEF Frame
  <2>9. ASSUME NEW c \in {frame.cur, frame.splitSeg},
               Granted = [seg |-> c + 1, size |-> frame.paras,
                          owner |-> frame.owner],
               mem'[c].owner = frame.owner, mem'[c].size = frame.paras,
               c = frame.splitSeg => mem[frame.cur].owner = Free,
               \A k \in {frame.cur, frame.splitSeg} :
                 k # c => mem'[k].owner = Free
        PROVE  KeptIn(G)'
    BY <1>1, <2>2, <2>7, <2>9, <1>0, HeldTyped, OwnerAssumption, <2>5, <2>8, <2>4
    DEF Good, KeptIn
  <2>10. KeptIn(G)'
    BY <1>1, <1>0, <2>5, <2>2, SegmentArithmetic, <2>9, OwnerAssumption
    DEF SplitOf, Granted
  <2> QED
    BY <2>3, <2>10, <2>4 DEF Good, FrameOf
<1>4. CASE w = "fault"
  BY <1>2, <1>4, <1>1, <1>0 DEF Replace, Frame, Good, KeptIn, SplitOf, FrameOf
<1>5. CASE w = "torn"
  BY <1>2, <1>5 DEF PoisonedBy, Ready, TypeInv, TypeOK
<1> QED
  BY <1>3, <1>4, <1>5 DEF Outcomes

(* UnwindSplitGood: a failed split is taken back where no header is, or    *)
(* the arena is poisoned.                                                  *)
LEMMA UnwindSplitGood ==
  ASSUME TypeInv, NEW H \in SUBSET (Head .. End - 1), Good(H), UnwindSplit,
         Ready'
  PROVE  Good(H)'
<1>0. frame.pc = "unwind"
  BY DEF UnwindSplit
<1>2. PICK w \in Outcomes :
        /\ Replace(frame.splitSeg, frame.splitBefore, w)
        /\ arena' = [arena EXCEPT !.poisoned = @ \/ w # "ok"]
        /\ Return(IF arena'.poisoned THEN "poisoned" ELSE "fault", Bx, 0)
  BY DEF UnwindSplit
<1>4. mem' = [mem EXCEPT ![frame.splitSeg] = frame.splitBefore]
  BY <1>2 DEF Replace, Ready, TypeInv, TypeOK
<1>5. held' = held /\ frame'.pc = "done"
  BY <1>2, ReturnDone DEF UnwindSplit, Return
<1>6. Tiles(mem', H) /\ KeptIn(H)'
  BY <1>0, SplitInside, <1>4, <1>5, OutsideGood
<1> QED
  BY <1>6, <1>5 DEF Good, FrameOf

(* RetagGood: rewriting the owner of one header keeps the chain good when  *)
(* the promises follow it.                                                 *)
LEMMA RetagGood ==
  ASSUME TypeInv, NEW H \in SUBSET (Head .. End - 1), Good(H),
         frame.pc = "single", NEW c \in H, NEW r \in Record,
         r.sig = mem[c].sig, r.size = mem[c].size,
         mem' = [mem EXCEPT ![c] = r], frame'.pc = "done",
         \A b \in held' :
           \/ b \in held /\ b.seg # c + 1
           \/ b.seg = c + 1 /\ b.owner = r.owner /\ b.size \in Nat /\ b.size <= r.size,
         \A b \in held : b.seg # c + 1 => b \in held',
         r.owner # Free => \E b \in held' : b.seg = c + 1 /\ b.owner = r.owner
  PROVE  Good(H)'
<1>2. /\ c \in Int /\ mem'[c] = r /\ \A h \in H : h \in Int
      /\ \A h \in H : h # c => mem'[h] = mem[h]
  BY ChainTyped DEF TypeInv, TypeOK
<1>3. ASSUME NEW b \in held'
      PROVE  /\ b.seg - 1 \in H /\ mem'[b.seg - 1].size >= b.size
             /\ mem'[b.seg - 1].owner = b.owner
  BY HeldTyped, <1>2, RecordFields, SegmentAssumption DEF Good, KeptIn, Seg
<1>4. ASSUME NEW h \in H, mem'[h].owner # Free
      PROVE  \E b \in held' : b.seg = h + 1 /\ b.owner = mem'[h].owner
  BY <1>2, <1>4 DEF Good, KeptIn
<1>5. KeptIn(H)'
  BY <1>3, <1>4 DEF KeptIn
<1>6. FrameOf(H)'
  BY DEF FrameOf
<1> QED
  BY Retag, <1>5, <1>6 DEF Good, TypeInv, TypeOK

(* WriteSingleGood: the last write of an operation rewrites one owner, and *)
(* the promises change with it.                                            *)
LEMMA WriteSingleGood ==
  ASSUME Confined, TypeInv, NEW H \in SUBSET (Head .. End - 1), Good(H),
         WriteSingle, Ready'
  PROVE  Good(H)'
<1>0. /\ frame.pc = "single" /\ frame \in Frame /\ frame.cur \in H
      /\ frame.after \in Record /\ frame.after.sig = mem[frame.cur].sig
      /\ frame.after.size = mem[frame.cur].size
      /\ frame.splitAfter.owner = Free
      /\ frame.op \in {"allocate", "resize", "free", "freeOwned", "transfer"}
  BY DEF WriteSingle, Good, FrameOf, TypeInv, TypeOK, Control, Frame
<1>1. BlockOf(frame.cur) = frame.cur + 1
  BY <1>0, SegmentArithmetic
<1>2. PICK w \in Outcomes :
        /\ Replace(frame.cur, frame.after, w)
        /\ PoisonedBy(w)
        /\ CASE w = "ok" /\ frame.op \in {"allocate", "resize"} -> Grant
             [] w = "ok" /\ frame.op \in {"free", "freeOwned"} ->
                  /\ Promise({b \in held : b.seg # BlockOf(frame.cur)})
                  /\ Return("ok", Bx, 0)
             [] w = "ok" /\ frame.op = "transfer" ->
                  /\ Promise({IF b.seg = BlockOf(frame.cur)
                                THEN [b EXCEPT !.owner = frame.newOwner]
                                ELSE b : b \in held})
                  /\ Return("ok", Bx, 0)
             [] w = "fault" -> Return("fault", Bx, 0) /\ UNCHANGED held
             [] w = "torn"  -> Return("poisoned", Bx, 0) /\ UNCHANGED held
  BY DEF WriteSingle
<1>3. PICK c \in H : c = frame.cur
  BY <1>0
<1>4. PICK r \in Record : r = frame.after
  BY <1>0
<1>5. w = "ok" => mem' = [mem EXCEPT ![c] = r]
  BY <1>2, <1>3, <1>4 DEF Replace
<1>6. CASE w = "ok" /\ frame.op \in {"allocate", "resize"}
  <2>2. r.owner = frame.owner /\ r.size = frame.paras
    BY <1>0, <1>4, <1>6 DEF Good, FrameOf
  <2>3. frame.paras \in Nat
    BY <1>0, SegmentAssumption DEF Seg, Frame
  <2>5. Granted.seg = c + 1 /\ Granted.owner = r.owner
        /\ Granted.size \in Nat /\ Granted.size <= r.size
    BY <1>0, <1>1, <1>3, <2>2, <2>3 DEF Granted
  <2> QED
    BY <1>0, <1>3, <1>4, <1>5, <1>6, <1>2, ReturnDone, <2>5, RetagGood
    DEF Grant, Promise, Return
<1>7. CASE w = "ok" /\ frame.op \in {"free", "freeOwned"}
  <2>1. held' = {b \in held : b.seg # c + 1} /\ frame'.pc = "done"
    BY <1>1, <1>2, <1>3, <1>7, ReturnDone DEF Promise, Return
  <2>2. r.owner = Free
    BY <1>0, <1>4, <1>7 DEF Good, FrameOf
  <2> QED
    BY <1>0, <1>3, <1>4, <1>5, <1>7, <2>1, <2>2, RetagGood
<1>8. CASE w = "ok" /\ frame.op = "transfer"
  <2>1. /\ held' = {IF b.seg = c + 1 THEN [b EXCEPT !.owner = frame.newOwner]
                                     ELSE b : b \in held}
        /\ frame'.pc = "done"
    BY <1>1, <1>2, <1>3, <1>8, ReturnDone DEF Promise, Return
  <2>2. r.owner = frame.newOwner
    BY <1>0, <1>4, <1>8 DEF Good, FrameOf
  <2>3. ASSUME NEW b \in held'
        PROVE  \/ b \in held /\ b.seg # c + 1
               \/ b.seg = c + 1 /\ b.owner = r.owner /\ b.size \in Nat
                  /\ b.size <= r.size
    BY <2>1, <2>2, HeldTyped, ChainTyped, <1>0, <1>3, <1>4
    DEF TypeInv, TypeOK, Good, KeptIn
  <2>4. \A b \in held : b.seg # c + 1 => b \in held'
    BY <2>1
  <2>5. \E b \in held' : b.seg = c + 1 /\ b.owner = r.owner
    <3>2. PICK a \in held : a.seg = c + 1 /\ a.owner = mem[c].owner
      BY <1>0, <1>3, <1>8 DEF Good, KeptIn, FrameOf
    <3>4. PICK b : b = [a EXCEPT !.owner = frame.newOwner]
      OBVIOUS
    <3>6. b.seg = c + 1 /\ b.owner = r.owner
      BY <2>2, <3>2, <3>4 DEF TypeInv, TypeOK
    <3> QED
      BY <2>1, <3>2, <3>4, <3>6
  <2>7. \A b \in held' :
          \/ b \in held /\ b.seg # c + 1
          \/ b.seg = c + 1 /\ b.owner = r.owner /\ b.size \in Nat
             /\ b.size <= r.size
    BY <2>3
  <2> QED
    BY <2>4, <2>5, <1>0, <1>3, <1>4, <1>5, <1>8, <2>1, <2>7, RetagGood
<1>9. CASE w = "fault"
  BY <1>2, <1>9, ReturnDone, <1>0, QuietReturn DEF Replace, Return
<1>10. CASE w = "torn"
  BY <1>2, <1>10 DEF PoisonedBy, Ready, TypeInv, TypeOK
<1> QED
  BY <1>0, <1>6, <1>7, <1>8, <1>9, <1>10 DEF Outcomes

(* LocateStepGood: locate_mcb follows the chain to the owner's block. *)
LEMMA LocateStepGood ==
  ASSUME TypeInv, NEW H \in SUBSET (Head .. End - 1), Good(H), LocateStep
  PROVE  Good(H)'
<1> DEFINE r == mem[frame.cur]
<1>1. /\ frame.pc = "locate" /\ frame \in Frame /\ frame.cur \in H
      /\ frame.owner # Free /\ frame.splitAfter.owner = Free
      /\ frame.op \in {"freeOwned", "transfer"}
      /\ frame.op = "freeOwned" => frame.newOwner = Free
      /\ r \in Record
  BY ChainTyped DEF LocateStep, Good, FrameOf, TypeInv, TypeOK, Control
<1>2. CASE Fail("fault") \/ Fail("damaged") \/ Fail("mismatch")
           \/ Fail("invalid")
  BY <1>1, <1>2, FailQuiet
<1>3. CASE /\ r.owner = frame.owner
           /\ frame' = [frame EXCEPT !.pc = "single",
                                !.after = [r EXCEPT !.owner = frame.newOwner]]
           /\ UNCHANGED <<mem, arena, held>>
  BY <1>1, <1>3 DEF Frame, Record, Good, KeptIn, FrameOf
<1>4. CASE /\ r.sig # "Z"
           /\ frame' = [frame EXCEPT !.cur = NextSegment(frame.cur, r)]
           /\ UNCHANGED <<mem, arena, held>>
  BY <1>1, <1>4 DEF Good, Tiles, ValidSignature, Frame, KeptIn, FrameOf
<1> QED
  BY <1>2, <1>3, <1>4 DEF LocateStep

(* FreeProcessStepGood: a teardown frees headers along the chain and       *)
(* withdraws the process's promises when it reaches the end; if it cannot  *)
(* go on after a change, the arena is poisoned.                            *)
LEMMA FreeProcessStepGood ==
  ASSUME Confined, TypeInv, NEW H \in SUBSET (Head .. End - 1), Good(H),
         FreeProcessStep, Ready'
  PROVE  Good(H)'
<1> DEFINE r == mem[frame.cur]
           over == r.sig # "Z" /\ NextSegment(frame.cur, r) > Top
<1>1. /\ frame.pc = "process" /\ frame \in Frame /\ frame.cur \in H
      /\ frame.owner \in Owners /\ frame.owner # Free /\ r \in Record
      /\ frame.changed \in BOOLEAN
      /\ \A h \in H : h < frame.cur => mem[h].owner # frame.owner
  BY ChainTyped, OwnerAssumption
     DEF FreeProcessStep, Good, FrameOf, TypeInv, TypeOK, Control, Frame
<1>2. CASE ProcessFail("fault") \/ ProcessFail("damaged")
  BY <1>1, <1>2, ReturnDone, QuietReturn DEF ProcessFail, Ready, TypeInv, TypeOK, Return
<1>3. CASE \E g \in Foreign : /\ mem' = [mem EXCEPT ![frame.cur] = g]
                              /\ arena' = [arena EXCEPT !.poisoned = TRUE]
  BY <1>3 DEF Ready, TypeInv, TypeOK
<1>4. CASE /\ mem' = [mem EXCEPT ![frame.cur] =
                         IF r.owner = frame.owner
                           THEN [r EXCEPT !.owner = Free] ELSE r]
           /\ ProcessAdvance(r)
  <2>1. PICK c \in H : c = frame.cur
    BY <1>1
  <2>2. PICK x \in Record :
          x = IF r.owner = frame.owner THEN [r EXCEPT !.owner = Free] ELSE r
    BY <1>1 DEF Record
  <2>3. /\ x.sig = r.sig /\ x.size = r.size
        /\ x.owner = IF r.owner = frame.owner THEN Free ELSE r.owner
    BY <1>1, <2>2 DEF Record
  <2>4. mem' = [mem EXCEPT ![c] = x]
    BY <1>4, <2>1, <2>2
  <2>5. Tiles(mem', H)
    BY <2>1, <2>3, <2>4, Retag DEF Good, TypeInv, TypeOK
  <2>6. /\ mem'[c] = x /\ \A h \in H : h # c => mem'[h] = mem[h]
        /\ \A h \in H : h \in Int
    BY <2>4, ChainTyped DEF TypeInv, TypeOK
  <2>7. \A h \in H : /\ mem'[h].size = mem[h].size
                     /\ mem'[h].owner \in {Free, mem[h].owner}
                     /\ mem'[h].owner # mem[h].owner =>
                          h = c /\ mem[h].owner = frame.owner
    BY <2>1, <2>3, <2>6
  <2>8. \A h \in H : h <= c => mem'[h].owner # frame.owner
    <3> SUFFICES ASSUME NEW h \in H, h <= c PROVE mem'[h].owner # frame.owner
      OBVIOUS
    <3>1. CASE h = c
      BY <1>1, <2>3, <2>6, <3>1
    <3>2. CASE h # c
      BY <2>6, <3>2, <1>1, <2>1
    <3> QED
      BY <3>1, <3>2
  <2>9. \A b \in held : /\ b.seg - 1 \in H /\ mem[b.seg - 1].size >= b.size
                        /\ \/ mem[b.seg - 1].owner = b.owner
                           \/ b.owner = frame.owner /\ frame.changed
    BY DEF Good, KeptIn
  <2>10. CASE r.sig = "Z"
    <3>1. /\ held' = {b \in held : b.owner # frame.owner}
          /\ frame'.pc = "done"
      BY <1>4, <2>10, ReturnDone DEF ProcessAdvance, Promise, Return
    <3>2. \A h \in H : h <= c
      <4> SUFFICES ASSUME NEW h \in H PROVE h <= c
        OBVIOUS
      <4>2. h <= c \/ h >= End
        BY <2>1, <2>10 DEF Good, Tiles
      <4> QED
        BY <4>2, SegmentAssumption
    <3>3. ASSUME NEW b \in held'
          PROVE  /\ b.seg - 1 \in H /\ mem'[b.seg - 1].size >= b.size
                 /\ mem'[b.seg - 1].owner = b.owner
      BY <2>7, <2>9, <3>1
    <3>4. ASSUME NEW h \in H, mem'[h].owner # Free
          PROVE  \E b \in held' : b.seg = h + 1 /\ b.owner = mem'[h].owner
      BY <2>7, <2>8, <3>2, <3>4, <3>1 DEF Good, KeptIn
    <3> QED
      BY <2>5, <3>1, <3>3, <3>4 DEF Good, KeptIn, FrameOf
  <2>11. CASE r.sig # "Z"
    <3>1. PICK n \in H : n = NextSegment(frame.cur, r)
      BY <1>1, <2>11 DEF Good, Tiles, ValidSignature
    <3>3. /\ frame' = [frame EXCEPT !.cur = n,
                          !.changed = @ \/ r.owner = frame.owner]
          /\ held' = held
      BY <1>4, <2>11, <3>1, SegmentAssumption DEF ProcessAdvance
    <3>4. /\ frame'.pc = "process" /\ frame'.cur = n
          /\ frame'.owner = frame.owner
          /\ frame'.changed = (frame.changed \/ r.owner = frame.owner)
      BY <1>1, <3>3 DEF Frame
    <3>5. ASSUME NEW b \in held
          PROVE  /\ b.seg - 1 \in H /\ mem'[b.seg - 1].size >= b.size
                 /\ \/ mem'[b.seg - 1].owner = b.owner
                    \/ b.owner = frame.owner /\ frame'.changed
      BY <2>1, <2>7, <2>9, <3>4
    <3>6. ASSUME NEW h \in H, mem'[h].owner # Free
          PROVE  \E b \in held : b.seg = h + 1 /\ b.owner = mem'[h].owner
      BY <2>7, <3>6 DEF Good, KeptIn
    <3>8. \A h \in H : h < n => mem'[h].owner # frame.owner
      <4> SUFFICES ASSUME NEW h \in H, h < n PROVE mem'[h].owner # frame.owner
        OBVIOUS
      <4>2. h <= c
        BY <2>6, <2>1, <3>1 DEF Good, Tiles
      <4> QED
        BY <2>8, <4>2
    <3>9. FrameOf(H)'
      BY <3>4, <3>8 DEF FrameOf
    <3> QED
      BY <2>5, <3>3, <3>4, <3>5, <3>6, <3>9 DEF Good, KeptIn
  <2> QED
    BY <2>10, <2>11
<1>5. CASE mem' = mem /\ r.owner # frame.owner /\ ProcessAdvance(r)
  BY <1>5, <1>4 DEF TypeInv, TypeOK
<1>6. CASE /\ r.owner = frame.owner
           /\ Replace(frame.cur, [r EXCEPT !.owner = Free], "ok")
           /\ ProcessAdvance(r)
  BY <1>4, <1>6 DEF Replace
<1> QED
  BY <1>2, <1>3, <1>5, <1>6 DEF FreeProcessStep

(* StartGood: a call that starts at the head of the chain, or at a header  *)
(* of it, starts good.                                                     *)
LEMMA StartGood ==
  ASSUME TypeInv, NEW H \in SUBSET (Head .. End - 1), Good(H),
         frame.pc = "idle", mem' = mem, held' = held,
         frame'.cur \in H, ~frame'.cand.found, frame'.splitAfter.owner = Free,
         \/ frame'.pc = "find"
         \/ /\ frame'.pc = "coalesce" /\ frame'.op = "resize"
            /\ frame'.rec = mem[frame'.cur]
         \/ frame'.pc = "process" /\ frame'.cur = Head
         \/ /\ frame'.pc = "locate" /\ frame'.owner # Free
            /\ frame'.op = "freeOwned" => frame'.newOwner = Free
         \/ /\ frame'.pc = "single" /\ frame'.op = "free"
            /\ frame'.after.sig = mem[frame'.cur].sig
            /\ frame'.after.size = mem[frame'.cur].size
            /\ frame'.after.owner = Free
  PROVE  Good(H)'
<1>2. \A h \in H : ~(h < Head)
  BY SegmentAssumption
<1>4. FrameOf(H)'
  BY <1>2 DEF FrameOf, CandidatesOf
<1> QED
  BY <1>4 DEF Good, KeptIn

(* IdleFields: what a fresh frame holds. *)
LEMMA IdleFields == ~Idle.cand.found /\ Idle.splitAfter.owner = Free
                    /\ Idle.newOwner = Free
BY DEF Idle, NoCandidates, NoRecord

(* HeldHeader: the header of a block the guest was promised is on the chain. *)
LEMMA HeldHeader ==
  ASSUME Confined, TypeInv, NEW H \in SUBSET (Head .. End - 1), Good(H),
         NEW o, NEW block \in BlockArguments(o)
  PROVE  HeaderOf(block) \in H
<1>1. PICK b \in held : block = b.seg
  BY DEF BlockArguments
<1>2. b.seg - 1 \in H
  BY DEF Good, KeptIn
<1>4. b.seg - 1 \in Head .. End - 1 /\ (b.seg - 1) + 1 = b.seg
  BY <1>2, HeldTyped
<1> QED
  BY <1>1, <1>2, <1>4, SegmentArithmetic

(* RequestGood: every request starts from a good chain. *)
LEMMA RequestGood ==
  ASSUME Confined, TypeInv, arena.head = Head,
         NEW H \in SUBSET (Head .. End - 1), Good(H), Begin, ~Initialize,
         frame.pc = "idle"
  PROVE  Good(H)'
<1>0. Head \in H /\ arena.head \in Seg /\ mem \in [Seg -> Record]
  BY DEF Good, Tiles, TypeInv, TypeOK
<1>1. CASE BeginQuery
  BY <1>1, IdleTyped, <1>0, IdleFields, StartGood DEF BeginQuery, Enter, Frame
<1>2. CASE Poison \/ \E s \in Strategies : SetStrategy(s)
  BY <1>2, QuietReturn DEF Poison, SetStrategy
<1>3. CASE RefusePoisoned
  BY <1>3, ReturnDone, QuietReturn DEF RefusePoisoned
<1>4. ASSUME NEW o \in Owners, BeginFreeProcess(o) PROVE Good(H)'
  BY <1>4, IdleTyped, <1>0, IdleFields, StartGood DEF BeginFreeProcess, Enter, Frame
<1>5. ASSUME NEW o \in Owners, NEW n \in Seg, BeginAllocate(o, n)
      PROVE  Good(H)'
  BY <1>5, IdleTyped, <1>0, IdleFields, StartGood DEF BeginAllocate, Enter, Frame
<1>6. ASSUME NEW o \in Owners, NEW b \in Seg, BeginFree(o, b)
      PROVE  Good(H)'
  <2> DEFINE h == HeaderOf(b)
             f == [Idle EXCEPT !.op = "free", !.cur = h, !.entry = Snapshot]
             a == [mem[h] EXCEPT !.owner = Free]
  <2>1. h \in H
    BY <1>6, HeldHeader DEF BeginFree
  <2>2. mem' = mem /\ held' = held
    BY <1>6 DEF BeginFree
  <2>3. CASE ReturnFrom(f, "invalid", 0, 0) \/ ReturnFrom(f, "fault", 0, 0)
    BY <2>3, ReturnDone, <2>2, QuietReturn
  <2>4. CASE frame' = [f EXCEPT !.pc = "single", !.after = a]
    <3>2. a.sig = mem[h].sig /\ a.size = mem[h].size /\ a.owner = Free
      BY <2>1, ChainTyped DEF Record
    <3> HIDE DEF a, h
    <3> QED
      BY <2>1, <2>2, <3>2, <2>4, IdleTyped, IdleFields, StartGood DEF Frame
  <2> QED
    BY <1>6, <2>3, <2>4 DEF BeginFree
<1>7. ASSUME NEW o \in Owners, NEW b \in Seg, BeginFreeOwned(o, b)
      PROVE  Good(H)'
  BY <1>7, IdleTyped, <1>0, IdleFields, StartGood, OwnerAssumption
  DEF BeginFreeOwned, Enter, Frame
<1>8. ASSUME NEW o \in Owners, NEW b \in Seg, NEW new \in Owners,
             BeginTransfer(o, b, new)
      PROVE  Good(H)'
  BY <1>8, IdleTyped, <1>0, IdleFields, StartGood, OwnerAssumption
  DEF BeginTransfer, Enter, Frame
<1>9. ASSUME NEW o \in Owners, NEW b \in Seg, NEW n \in Seg,
             BeginResize(o, b, n)
      PROVE  Good(H)'
  <2> DEFINE h == HeaderOf(b)
             f == [Idle EXCEPT !.op = "resize", !.owner = o, !.paras = n,
                               !.cur = h, !.rec = mem[h], !.entry = Snapshot]
  <2>1. h \in H
    BY <1>9, HeldHeader DEF BeginResize
  <2>2. mem' = mem /\ held' = held
    BY <1>9 DEF BeginResize
  <2>3. CASE ReturnFrom(f, "damaged", 0, 0) \/ ReturnFrom(f, "fault", 0, 0)
    BY <2>3, ReturnDone, <2>2, QuietReturn
  <2>4. CASE frame' = [f EXCEPT !.pc = "coalesce"]
    <3> HIDE DEF h
    <3> QED
      BY <2>1, <2>2, <2>4, IdleTyped, IdleFields, StartGood DEF Frame
  <2> QED
    BY <1>9, <2>3, <2>4 DEF BeginResize
<1>10. ASSUME NEW s \in Seg, NEW r \in Foreign, GuestWrite(s, r)
       PROVE  Good(H)'
  <2>1. PICK b \in held : s \in Payload(b)
    BY <1>10 DEF GuestWrite
  <2>2. PICK h \in H : h = b.seg - 1
    BY DEF Good, KeptIn
  <2>3. mem[h].size >= b.size
    BY <2>2 DEF Good, KeptIn
  <2>4. /\ b.seg \in Int /\ b.size \in Nat /\ mem[h].size \in Nat
        /\ NextSegment(h, mem[h]) = h + mem[h].size + 1
    BY HeldTyped, ChainTyped
  <2>6. h < s /\ s < NextSegment(h, mem[h])
    BY <2>2, <2>3, <2>4, <2>1, SegmentAssumption DEF Payload, Seg
  <2>8. r \in Record /\ mem' = [mem EXCEPT ![s] = r] /\ held' = held
        /\ frame' = frame
    BY <1>10, ForeignAssumption DEF GuestWrite
  <2>9. Tiles(mem', H) /\ KeptIn(H)'
    BY <1>0, <2>6, InsideBlock, <2>8, OutsideGood DEF Good
  <2> QED
    BY <2>9, <2>8 DEF Good, FrameOf
<1> QED
  BY <1>1, <1>2, <1>3, <1>4, <1>5, <1>6, <1>7, <1>8, <1>9, <1>10 DEF Begin

(* ArenaFields: only dos_memory_arena_initialize_checked makes an arena    *)
(* usable, and nothing takes poison away.                                  *)
LEMMA ArenaFields ==
  ASSUME TypeInv, Next, ~Initialize
  PROVE  /\ arena'.init = arena.init /\ arena'.head = arena.head
         /\ arena.poisoned => arena'.poisoned
<1>1. arena \in [head : Seg, strategy : Strategies, init : BOOLEAN,
                 poisoned : BOOLEAN, generation : 0 .. MaxGeneration]
  BY DEF TypeInv, TypeOK
<1>2. CASE Step
  BY <1>1, <1>2
  DEF FindStep, CoalesceStep, Coalesced, Select, LocateStep, Finish, Fail, PoisonedBy,
      AllocateLow, AllocateHigh, HideSplit, PublishSplit, UnwindSplit, WriteSingle,
      FreeProcessStep, ProcessFail, Step
<1>3. CASE Begin
  BY <1>1, <1>3
  DEF Poison, SetStrategy, BeginQuery, RefusePoisoned, Enter, BeginFreeProcess,
      BeginAllocate, BeginFree, BeginFreeOwned, BeginTransfer, BeginResize, GuestWrite,
      Begin
<1> QED
  BY <1>2, <1>3 DEF Next

(* InitializeGood: a fresh arena is one free block. *)
LEMMA InitializeGood ==
  ASSUME Confined, IndInv, Initialize, Ready'
  PROVE  /\ arena'.head = Head
         /\ \E G \in SUBSET (Head .. End - 1) : Good(G)'
<1>0. arena \in [head : Seg, strategy : Strategies, init : BOOLEAN,
                 poisoned : BOOLEAN, generation : 0 .. MaxGeneration]
      /\ mem \in [Seg -> Record] /\ frame' = frame /\ frame.pc = "idle"
      /\ ~arena.poisoned
  BY DEF IndInv, TypeInv, TypeOK, Initialize
<1> DEFINE r == [sig |-> "Z", owner |-> Free, size |-> End - Head - 1]
<1>1. PICK w \in Outcomes :
        /\ Replace(Head, r, w)
        /\ CASE w = "ok" ->
                  /\ arena' = [arena EXCEPT !.generation = @ + 1,
                                 !.head = Head, !.strategy = "first",
                                 !.init = TRUE]
                  /\ Promise({})
             [] w = "fault" -> UNCHANGED <<arena, held>>
             [] w = "torn"  -> /\ arena' = [arena EXCEPT !.poisoned = TRUE]
                               /\ UNCHANGED held
  BY DEF Initialize
<1>2. CASE w = "ok"
  <2>1. arena'.head = Head /\ held' = {}
    BY <1>0, <1>1, <1>2 DEF Promise
  <2>3. mem'[Head] = r
    BY <1>0, <1>1, <1>2, SegmentAssumption DEF Seg, Replace
  <2>5. NextSegment(Head, r) = End
    BY SegmentAssumption DEF NextSegment
  <2>6. r.sig = "Z" /\ r.owner = Free
    OBVIOUS
  <2> HIDE DEF r
  <2>7. Tiles(mem', {Head})
    BY <2>3, <2>5, <2>6, SegmentAssumption DEF Tiles, ValidSignature
  <2>8. KeptIn({Head})'
    BY <2>1, <2>3, <2>6 DEF KeptIn
  <2>9. FrameOf({Head})'
    BY <1>0 DEF FrameOf
  <2> QED
    BY <2>1, SegmentAssumption, <2>7, <2>8, <2>9 DEF Good
<1>3. CASE w = "fault"
  BY <1>1, <1>3, <1>0, QuietReturn DEF Replace, IndInv, Ready
<1>4. CASE w = "torn"
  BY <1>0, <1>1, <1>4 DEF Ready
<1> QED
  BY <1>2, <1>3, <1>4 DEF Outcomes

(* InductiveStep: every step keeps the inductive invariant. *)
LEMMA InductiveStep ==
  ASSUME Confined, IndInv, [Next]_vars
  PROVE  IndInv'
<1>1. TypeInv'
  BY TypeStep DEF IndInv
<1>2. CASE UNCHANGED vars
  BY <1>2, <1>1 DEF vars, Good, KeptIn, FrameOf, CandidatesOf, SplitOf, IndInv, Ready
<1>3. CASE Initialize
  BY <1>3, InitializeGood, <1>1 DEF Ready, Initialize, Outcomes, IndInv, TypeInv, TypeOK
<1>4. CASE Next /\ ~Initialize
  <2>1. /\ arena'.init = arena.init /\ arena'.head = arena.head
        /\ arena.poisoned => arena'.poisoned
    BY <1>4, ArenaFields DEF IndInv
  <2>2. ~arena'.init /\ ~arena'.poisoned => frame'.pc = "idle"
    <3> SUFFICES ASSUME ~arena'.init, ~arena'.poisoned PROVE frame'.pc = "idle"
      OBVIOUS
    <3>1. ~arena.init /\ ~arena.poisoned /\ frame.pc = "idle"
      BY <2>1 DEF IndInv
    <3>3. Begin
      BY <1>4, <3>1
      DEF Next, Step, FindStep, CoalesceStep, Select, AllocateLow, AllocateHigh,
          HideSplit, PublishSplit, UnwindSplit, WriteSingle, LocateStep,
          FreeProcessStep, Finish
    <3> QED
      BY <1>4, <3>1, <3>3 DEF Begin, BeginQuery, Poison, RefusePoisoned,
         SetStrategy, BeginFreeProcess, BeginAllocate, BeginFree,
         BeginFreeOwned, BeginTransfer, BeginResize, GuestWrite, Enter, Ready
  <2>3. ASSUME Ready' PROVE \E G \in SUBSET (Head .. End - 1) : Good(G)'
    <3>1. Ready /\ TypeInv /\ arena.head = Head
      BY <2>1, <2>3 DEF Ready, IndInv
    <3>2. PICK H \in SUBSET (Head .. End - 1) : Good(H)
      BY <3>1 DEF IndInv
    <3>3. CASE FindStep
      BY <3>1, <3>2, <3>3, FindStepGood
    <3>4. CASE CoalesceStep
      BY <2>3, <3>1, <3>2, <3>4, CoalesceStepGood
    <3>5. CASE Select
      BY <3>1, <3>2, <3>5, SelectGood
    <3>6. CASE AllocateLow
      BY <3>1, <3>2, <3>6, AllocateLowGood
    <3>7. CASE AllocateHigh
      BY <3>1, <3>2, <3>7, AllocateHighGood
    <3>8. CASE HideSplit
      BY <2>3, <3>1, <3>2, <3>8, HideSplitGood
    <3>9. CASE PublishSplit
      BY <2>3, <3>1, <3>2, <3>9, PublishSplitGood
    <3>10. CASE UnwindSplit
      BY <2>3, <3>1, <3>2, <3>10, UnwindSplitGood
    <3>11. CASE WriteSingle
      BY <2>3, <3>1, <3>2, <3>11, WriteSingleGood
    <3>12. CASE LocateStep
      BY <3>1, <3>2, <3>12, LocateStepGood
    <3>13. CASE FreeProcessStep
      BY <2>3, <3>1, <3>2, <3>13, FreeProcessStepGood
    <3>14. CASE Finish
      BY <3>14, IdleTyped, <3>2, QuietReturn DEF Finish
    <3>15. CASE Begin
      BY <3>15, <1>4, <3>1, <3>2, RequestGood
      DEF Begin, Initialize, BeginQuery, Poison, RefusePoisoned, SetStrategy,
          BeginFreeProcess, BeginAllocate, BeginFree, BeginFreeOwned, BeginTransfer,
          BeginResize, GuestWrite, Enter
    <3> QED
      BY <1>4, <3>3, <3>4, <3>5, <3>6, <3>7, <3>8, <3>9, <3>10, <3>11, <3>12,
         <3>13, <3>14, <3>15 DEF Next, Step
  <2> QED
    BY <1>1, <2>1, <2>2, <2>3 DEF IndInv
<1> QED
  BY <1>2, <1>3, <1>4

(* InductiveInit: the constructed arena satisfies it. *)
LEMMA InductiveInit == Init => IndInv
<1> SUFFICES ASSUME Init PROVE IndInv
  OBVIOUS
<1>1. TypeInv
  BY TypeInit
<1> QED
  BY <1>1, IdleTyped DEF IndInv, Ready, Init

(* PromisesFollow: a good chain keeps the promises made to the guests. *)
LEMMA PromisesFollow == IndInv => ArenaTiled /\ PromisesKept
<1> SUFFICES ASSUME IndInv PROVE ArenaTiled /\ PromisesKept
  OBVIOUS
<1>1. CASE Ready
  BY <1>1
  DEF IndInv, Good, KeptIn, TearingDown, TypeInv, Control, ArenaTiled, PromisesKept
<1>2. CASE ~Ready
  BY <1>2 DEF ArenaTiled, PromisesKept
<1> QED
  BY <1>1, <1>2

(* Tiled: for every arena and every interleaving of faulting or torn       *)
(* header writes, an arena that is not poisoned is one chain of blocks     *)
(* from its first paragraph to its last, between any two machine accesses. *)
THEOREM Tiled == Confined => (Spec => []ArenaTiled)
<1> SUFFICES ASSUME Confined PROVE Spec => []ArenaTiled
  OBVIOUS
<1>1. IndInv /\ [Next]_vars => IndInv'
  BY InductiveStep
<1>2. IndInv => ArenaTiled
  BY PromisesFollow
<1> QED
  BY <1>1, <1>2, InductiveInit, PTL DEF Spec

(* Promises: and the blocks the calls told the guests about are exactly    *)
(* the owned blocks of that chain: no failed call takes a block away or    *)
(* leaks one.                                                              *)
THEOREM Promises == Confined => (Spec => []PromisesKept)
<1> SUFFICES ASSUME Confined PROVE Spec => []PromisesKept
  OBVIOUS
<1>1. IndInv /\ [Next]_vars => IndInv'
  BY InductiveStep
<1>2. IndInv => PromisesKept
  BY PromisesFollow
<1> QED
  BY <1>1, <1>2, InductiveInit, PTL DEF Spec

(* A poisoned arena has no call at work, but for the repair of a split. *)
PoisonStops == arena.poisoned => frame.pc \in {"idle", "done", "unwind"}

(* PoisonStopsStep: whichever write tears, its call returns or repairs. *)
LEMMA PoisonStopsStep ==
  ASSUME TypeInv, PoisonStops, [Next]_vars PROVE PoisonStops'
<1>1. arena \in [head : Seg, strategy : Strategies, init : BOOLEAN,
                 poisoned : BOOLEAN, generation : 0 .. MaxGeneration]
      /\ frame \in Frame
  BY DEF TypeInv, TypeOK
<1>2. CASE FindStep \/ Select \/ AllocateLow \/ AllocateHigh \/ LocateStep
           \/ Finish \/ UNCHANGED vars
  BY <1>1, <1>2, IdleTyped DEF PoisonStops, FindStep, Select, AllocateLow,
     AllocateHigh, LocateStep, Finish, Fail, vars
<1>3. CASE CoalesceStep
  <2>1. CASE arena' = arena
    BY <1>3, <2>1 DEF PoisonStops, CoalesceStep
  <2>2. CASE arena' # arena
    BY <1>1, <1>3, <2>2, ReturnDone
       DEF PoisonStops, CoalesceStep, Coalesced, Fail, PoisonedBy, Return, Outcomes
  <2> QED
    BY <2>1, <2>2
<1>4. CASE HideSplit \/ WriteSingle
  BY <1>1, <1>4, ReturnDone DEF PoisonStops, HideSplit, WriteSingle, PoisonedBy,
     Return, Outcomes, Grant
<1>5. CASE PublishSplit \/ UnwindSplit
  BY <1>1, <1>5, ReturnDone DEF PoisonStops, PublishSplit, UnwindSplit, PoisonedBy,
     Return, Outcomes, Grant, Frame
<1>6. CASE FreeProcessStep
  BY <1>1, <1>6, ReturnDone DEF PoisonStops, FreeProcessStep, ProcessFail,
     ProcessAdvance, Return
<1>7. CASE Begin
  <2>1. ASSUME arena' = arena, Ready PROVE PoisonStops'
    BY <2>1 DEF PoisonStops, Ready
  <2>2. ASSUME frame'.pc \in {"idle", "done"} PROVE PoisonStops'
    BY <2>2 DEF PoisonStops
  <2>3. CASE Initialize \/ Poison \/ (\E s \in Strategies : SetStrategy(s))
             \/ (\E s \in Seg, r \in Foreign : GuestWrite(s, r))
    BY <2>2, <2>3 DEF Initialize, Poison, SetStrategy, GuestWrite
  <2>4. CASE RefusePoisoned
    BY <2>2, <2>4, ReturnDone DEF RefusePoisoned
  <2>5. CASE \/ BeginQuery
             \/ \E o \in Owners : BeginFreeProcess(o)
             \/ \E o \in Owners, n \in Seg : BeginAllocate(o, n)
             \/ \E o \in Owners, b \in Seg :
                  \/ BeginFree(o, b)
                  \/ BeginFreeOwned(o, b)
                  \/ \E new \in Owners : BeginTransfer(o, b, new)
                  \/ \E n \in Seg : BeginResize(o, b, n)
    <3>1. arena' = arena /\ Ready
      BY <2>5, Zenon DEF BeginQuery, BeginFreeProcess, BeginAllocate, BeginFree,
         BeginFreeOwned, BeginTransfer, BeginResize, Enter
    <3> QED
      BY <2>1, <3>1
  <2> QED
    BY <1>7, <2>3, <2>4, <2>5 DEF Begin
<1> QED
  BY <1>2, <1>3, <1>4, <1>5, <1>6, <1>7 DEF Next, Step

(* Poisoned: no call takes poison away, starts work on a poisoned arena,   *)
(* changes what was promised or touches guest memory again, except for the *)
(* one header a torn split puts back; whatever the guests do.              *)
THEOREM Poisoned == Spec => PoisonIsFinal
<1> DEFINE A == arena.poisoned =>
                  /\ arena'.poisoned
                  /\ frame.pc = "idle" =>
                       frame'.pc \in {"idle", "done"} /\ held' = held
                  /\ \/ mem' = mem
                     \/ /\ frame.pc = "unwind"
                        /\ \A s \in Seg \ {frame.splitSeg} : mem'[s] = mem[s]
                     \/ \E s \in Seg, r \in Foreign : GuestWrite(s, r)
           I == TypeInv /\ PoisonStops
<1>1. ASSUME I, [Next]_vars PROVE [A]_vars
  <2>1. CASE Next /\ arena.poisoned
    <3>1. ~Initialize
      BY <2>1 DEF Initialize
    <3>2. mem \in [Seg -> Record] /\ frame.pc \in {"idle", "done", "unwind"}
      BY <1>1, <2>1 DEF TypeInv, TypeOK, PoisonStops
    <3>3. ASSUME frame.pc = "idle"
          PROVE  frame'.pc \in {"idle", "done"} /\ held' = held
      BY <3>3, <2>1, <3>1, ReturnDone
      DEF Step, FindStep, CoalesceStep, Select, AllocateLow, AllocateHigh, HideSplit,
          PublishSplit, UnwindSplit, WriteSingle, LocateStep, FreeProcessStep, Finish,
          Next, Begin, Enter, Ready, BeginQuery, SetStrategy, BeginFreeProcess,
          BeginAllocate, BeginFree, BeginFreeOwned, BeginTransfer, BeginResize,
          RefusePoisoned, Poison, GuestWrite
    <3>4. ASSUME UnwindSplit
          PROVE  /\ frame.pc = "unwind"
                 /\ \A s \in Seg \ {frame.splitSeg} : mem'[s] = mem[s]
      BY <3>2, <3>4 DEF UnwindSplit, Replace, Outcomes
    <3>6. ASSUME ~UnwindSplit, ~\E s \in Seg, r \in Foreign : GuestWrite(s, r)
          PROVE  mem' = mem
      <4>1. CASE Step
        BY <3>2, <3>6, <4>1
        DEF Step, FindStep, CoalesceStep, Select, AllocateLow, AllocateHigh,
            HideSplit, PublishSplit, WriteSingle, LocateStep, FreeProcessStep, Finish
      <4>2. CASE Begin
        BY <2>1, <3>1, <3>6, <4>2, Zenon
        DEF Begin, Enter, BeginQuery, SetStrategy, BeginFreeProcess, BeginAllocate,
            BeginFree, BeginFreeOwned, BeginTransfer, BeginResize, RefusePoisoned, Poison
      <4> QED
        BY <2>1, <4>1, <4>2 DEF Next
    <3>7. arena'.poisoned
      BY <1>1, <2>1, <3>1, ArenaFields
    <3> QED
      BY <3>3, <3>4, <3>6, <3>7
  <2> QED
    BY <1>1, <2>1
<1>2. Init => I
  BY TypeInit DEF Init, PoisonStops
<1>3. I /\ [Next]_vars => I'
  BY TypeStep, PoisonStopsStep
<1> QED
  BY <1>1, <1>2, <1>3, PTL DEF Spec, PoisonIsFinal

-----------------------------------------------------------------------------
(* Every walk comes to its end.                                            *)

(* ReturnAdvances: a call that returns has gone through its stages. *)
LEMMA ReturnAdvances ==
  ASSUME frame \in Frame, frame.pc \notin {"idle", "done"},
         frame'.pc = "done"
  PROVE  Stage(frame'.pc) > Stage(frame.pc)
BY DEF Stage, Frame

(* AdvanceUpwards: the search moves to the successor of the header it has  *)
(* read, or the walk is over.                                              *)
LEMMA AdvanceUpwards ==
  ASSUME NEW f \in Frame, NEW r \in Record, FindAdvance(f, r),
         frame \in Frame, frame.pc \in {"find", "coalesce"}
  PROVE  \/ Stage(frame'.pc) > Stage(frame.pc)
         \/ /\ frame'.pc = "find"
            /\ WalkedTo(frame') = 2 * NextSegment(f.cur, r)
<1>1. CASE frame'.pc = "done"
  BY <1>1, ReturnAdvances
<1>2. CASE frame' = [f EXCEPT !.pc = "select"]
  BY <1>2 DEF Frame, Stage
<1>3. CASE frame' = [f EXCEPT !.pc = "find", !.cur = NextSegment(f.cur, r)]
  <2>1. frame'.pc = "find" /\ frame'.cur = NextSegment(f.cur, r)
    BY <1>3 DEF Frame
  <2> QED
    BY <2>1 DEF WalkedTo
<1> QED
  BY <1>1, <1>2, <1>3, ReturnDone DEF FindAdvance, Return

(* Progress: whatever bytes the guests store over the chain, every step of *)
(* a call enters a later stage or moves its walk up the segment space.     *)
THEOREM Progress == Spec => CallsProgress
<1> DEFINE Walks == /\ Stage(frame'.pc) = 0 /\ Stage(frame.pc) = 0
                    /\ WalkedTo(frame') > WalkedTo(frame)
           A == frame.pc # "idle" =>
                  Stage(frame'.pc) > Stage(frame.pc) \/ Walks
<1>1. ASSUME TypeInv, Next, frame.pc # "idle"
      PROVE  Stage(frame'.pc) > Stage(frame.pc) \/ Walks
  <2>1. /\ frame \in Frame /\ frame.cur \in Seg /\ frame.rec \in Record
        /\ mem \in [Seg -> Record] /\ mem[frame.cur] \in Record
        /\ frame.cur \in Nat
    BY <1>1, SegmentArithmetic DEF TypeInv, TypeOK, Frame
  <2>2. ASSUME frame.pc # "done", frame'.pc = "done"
        PROVE  Stage(frame'.pc) > Stage(frame.pc)
    BY <1>1, <2>1, <2>2, ReturnAdvances
  <2>3. CASE Finish
    BY <2>3, IdleTyped DEF Finish, Stage
  <2>4. CASE FindStep
    <3>1. CASE frame' = [frame EXCEPT !.pc = "coalesce", !.rec = mem[frame.cur]]
      <4>1. /\ frame'.pc = "coalesce" /\ frame'.cur = frame.cur
            /\ frame'.rec = mem[frame.cur]
        BY <3>1, <2>1 DEF Frame
      <4>2. WalkedTo(frame') = 2 * NextSegment(frame.cur, mem[frame.cur]) - 1
        BY <4>1 DEF WalkedTo
      <4>3. WalkedTo(frame) = 2 * frame.cur
        BY <2>4 DEF WalkedTo, FindStep
      <4>4. /\ NextSegment(frame.cur, mem[frame.cur]) \in Nat
            /\ frame.cur < NextSegment(frame.cur, mem[frame.cur])
        BY <2>1, NextAbove
      <4>5. Stage(frame'.pc) = 0 /\ Stage(frame.pc) = 0
        BY <4>1, <2>4 DEF Stage, FindStep
      <4> QED
        BY <2>1, <4>2, <4>3, <4>4, <4>5
    <3>2. CASE FindAdvance(frame, mem[frame.cur])
      <4>1. /\ NextSegment(frame.cur, mem[frame.cur]) \in Nat
            /\ frame.cur < NextSegment(frame.cur, mem[frame.cur])
        BY <2>1, NextAbove
      <4>2. frame.pc = "find" /\ Stage(frame.pc) = 0
            /\ WalkedTo(frame) = 2 * frame.cur
        BY <2>4 DEF FindStep, Stage, WalkedTo
      <4>3. frame'.pc = "find" => Stage(frame'.pc) = 0
        BY DEF Stage
      <4> QED
        BY <2>1, <3>2, <4>1, <4>2, <4>3, AdvanceUpwards
    <3> QED
      BY <2>2, <2>4, <3>1, <3>2, ReturnDone DEF FindStep, Fail, Return
  <2>5. CASE CoalesceStep
    <3> DEFINE n == NextSegment(frame.cur, frame.rec)
    <3>1. /\ n \in Nat /\ frame.cur < n /\ n = frame.cur + frame.rec.size + 1
          /\ frame.rec.size \in Nat
      BY <2>1, NextAbove, RecordFields, SegmentArithmetic
    <3>2. frame.pc = "coalesce" /\ Stage(frame.pc) = 0
          /\ WalkedTo(frame) = 2 * n - 1
      BY <2>5 DEF CoalesceStep, Stage, WalkedTo
    <3>3. CASE Coalesced
      <4>1. CASE frame.op = "resize"
        BY <2>1, <2>2, <3>2, <3>3, <4>1, ReturnDone
           DEF Coalesced, Return, Stage, Frame
      <4>2. CASE frame.op # "resize"
        <5> DEFINE f == [frame EXCEPT !.cand = Tally(frame.cand, frame.cur,
                                          frame.rec.size, frame.paras)]
        <5>1. f \in Frame /\ f.cur = frame.cur
          BY <2>1, TallyTyped DEF Frame
        <5>2. FindAdvance(f, frame.rec)
          BY <3>3, <4>2 DEF Coalesced
        <5>3. frame'.pc = "find" => Stage(frame'.pc) = 0
          BY DEF Stage
        <5> HIDE DEF f
        <5>4. \/ Stage(frame'.pc) > Stage(frame.pc)
              \/ frame'.pc = "find" /\ WalkedTo(frame') = 2 * n
          BY <2>1, <3>2, <5>1, <5>2, AdvanceUpwards
        <5> HIDE DEF n
        <5> QED
          BY <3>1, <3>2, <5>3, <5>4
      <4> QED
        BY <4>1, <4>2
    <3>4. ASSUME n <= Top, ValidMcb(mem, n),
                 frame' = [frame EXCEPT !.rec = Merged(frame.rec, mem[n])]
          PROVE  Walks
      <4>1. n \in Seg /\ mem[n] \in Record /\ Merged(frame.rec, mem[n]) \in Record
        BY <2>1, <3>4, MergedTyped
      <4>2. mem[n].size \in Nat
        BY <4>1, RecordFields, SegmentArithmetic
      <4>3. /\ frame'.pc = "coalesce" /\ frame'.cur = frame.cur
            /\ frame'.rec = Merged(frame.rec, mem[n])
        BY <2>1, <3>2, <3>4 DEF Frame
      <4>4. Merged(frame.rec, mem[n]).size = frame.rec.size + mem[n].size + 1
        BY <2>1, <4>1 DEF Merged, Record
      <4>5. WalkedTo(frame') = 2 * (n + mem[n].size + 1) - 1
        <5>1. WalkedTo(frame') = 2 * NextSegment(frame.cur, Merged(frame.rec, mem[n])) - 1
          BY <4>3 DEF WalkedTo
        <5>2. NextSegment(frame.cur, Merged(frame.rec, mem[n])) = n + mem[n].size + 1
          BY <2>1, <3>1, <4>1, <4>2, <4>4, NextAbove
        <5> QED
          BY <5>1, <5>2
      <4>6. Stage(frame'.pc) = 0
        BY <4>3 DEF Stage
      <4> HIDE DEF n
      <4> QED
        BY <3>1, <3>2, <4>2, <4>5, <4>6
    <3> QED
      BY <2>2, <2>5, <3>2, <3>3, <3>4, ReturnDone
         DEF CoalesceStep, Fail, Return, Outcomes
  <2>6. CASE LocateStep
    <3>1. CASE frame' = [frame EXCEPT !.cur = NextSegment(frame.cur, mem[frame.cur])]
      <4>1. frame.pc = "locate" /\ frame'.pc = "locate"
            /\ frame'.cur = NextSegment(frame.cur, mem[frame.cur])
        BY <2>1, <2>6, <3>1 DEF Frame, LocateStep
      <4> QED
        BY <2>1, <4>1, NextAbove DEF WalkedTo, Stage
    <3>2. CASE frame'.pc = "single"
      BY <2>6, <3>2 DEF LocateStep, Stage
    <3>3. frame' = [frame EXCEPT !.pc = "single",
                         !.after = [mem[frame.cur] EXCEPT !.owner = frame.newOwner]]
          => frame'.pc = "single"
      BY <2>1 DEF Frame
    <3> QED
      BY <2>2, <2>6, <3>1, <3>2, <3>3, ReturnDone DEF LocateStep, Fail, Return
  <2>7. CASE FreeProcessStep
    <3>1. CASE frame'.pc = "done"
      BY <2>2, <2>7, <3>1 DEF FreeProcessStep
    <3>2. CASE frame' = [frame EXCEPT
                 !.cur = NextSegment(frame.cur, mem[frame.cur]),
                 !.changed = @ \/ mem[frame.cur].owner = frame.owner]
      <4>1. frame.pc = "process" /\ frame'.pc = "process"
            /\ frame'.cur = NextSegment(frame.cur, mem[frame.cur])
        BY <2>1, <2>7, <3>2 DEF Frame, FreeProcessStep
      <4> QED
        BY <2>1, <4>1, NextAbove DEF WalkedTo, Stage
    <3> QED
      BY <2>7, <3>1, <3>2, ReturnDone
         DEF FreeProcessStep, ProcessFail, ProcessAdvance, Return
  <2>8. CASE Select
    <3>1. frame.pc = "select" /\ frame'.pc \in {"low", "high", "done"}
      BY <2>1, <2>8, ReturnDone DEF Select, Return, Frame
    <3> QED
      BY <3>1 DEF Stage
  <2>9. CASE AllocateLow \/ AllocateHigh
    <3>1. frame.pc \in {"low", "high"}
      BY <2>9 DEF AllocateLow, AllocateHigh
    <3>4. frame'.pc \in {"single", "hide", "done"}
      <4>1. CASE AllocateLow
        <5> DEFINE r == mem[frame.cur]
                   a == [sig |-> "M", owner |-> frame.owner, size |-> frame.paras]
                   s == frame.cur + frame.paras + 1
                   x == [sig |-> r.sig, owner |-> Free,
                         size |-> r.size - frame.paras - 1]
        <5>1. CASE Fail("fault") \/ Fail("damaged")
          BY <5>1, ReturnDone DEF Fail, Return
        <5>2. CASE TakeWhole(r)
          BY <2>1, <5>2 DEF TakeWhole, Frame
        <5>3. CASE frame' = [frame EXCEPT !.pc = "hide", !.after = a,
                                !.splitSeg = s, !.splitBefore = mem[s],
                                !.splitAfter = x]
          BY <2>1, <5>3 DEF Frame
        <5> QED
          BY <4>1, <5>1, <5>2, <5>3 DEF AllocateLow, Remainder
      <4>2. CASE AllocateHigh
        <5> DEFINE r == mem[frame.cur]
                   a == [sig |-> "M", owner |-> Free,
                         size |-> r.size - frame.paras - 1]
                   s == frame.cur + (r.size - frame.paras)
                   x == [sig |-> r.sig, owner |-> frame.owner, size |-> frame.paras]
        <5>1. CASE Fail("fault") \/ Fail("damaged")
          BY <5>1, ReturnDone DEF Fail, Return
        <5>2. CASE TakeWhole(r)
          BY <2>1, <5>2 DEF TakeWhole, Frame
        <5>3. CASE frame' = [frame EXCEPT !.pc = "hide", !.after = a,
                                !.splitSeg = s, !.splitBefore = mem[s],
                                !.splitAfter = x]
          BY <2>1, <5>3 DEF Frame
        <5> QED
          BY <4>2, <5>1, <5>2, <5>3 DEF AllocateHigh, Remainder
      <4> QED
        BY <2>9, <4>1, <4>2
    <3> QED
      BY <3>1, <3>4 DEF Stage
  <2>10. CASE HideSplit \/ PublishSplit
    BY <2>1, <2>2, <2>10, ReturnDone
       DEF HideSplit, PublishSplit, Grant, Return, Stage, Frame, Outcomes
  <2>11. CASE UnwindSplit
    BY <2>2, <2>11, ReturnDone DEF UnwindSplit, Return
  <2>13. CASE WriteSingle
    <3>1. frame.op \in {"allocate", "resize", "free", "freeOwned", "transfer"}
      BY <1>1, <2>13 DEF TypeInv, Control, WriteSingle
    <3> QED
      BY <2>2, <2>13, <3>1, ReturnDone DEF WriteSingle, Grant, Return, Outcomes
  <2>12. ~Begin
    BY <1>1 DEF Begin, Initialize, BeginQuery, Poison, RefusePoisoned, SetStrategy,
       BeginFreeProcess, BeginAllocate, BeginFree, BeginFreeOwned, BeginTransfer,
       BeginResize, GuestWrite, Enter
  <2> QED
    BY <1>1, <2>3, <2>4, <2>5, <2>6, <2>7, <2>8, <2>9, <2>10, <2>11, <2>12, <2>13
       DEF Next, Step
<1>2. TypeInv /\ [Next]_vars => [A]_vars
  BY <1>1
<1> QED
  BY <1>2, TypeInit, TypeStep, PTL DEF Spec, CallsProgress

-----------------------------------------------------------------------------
(* The chain that a tiling is.                                             *)

(* LeastOf: a set of naturals has a least element. *)
LEMMA LeastOf ==
  ASSUME NEW S \in SUBSET Nat, S # {}
  PROVE  \E i \in S : \A j \in S : i <= j
<1>1. PICK i \in S : \A j \in S : ~(<<j, i>> \in OpToRel(<, Nat))
  BY WFMin, NatLessThanWellFounded
<1>2. ASSUME NEW j \in S PROVE i <= j
  <2>1. i \in Nat /\ j \in Nat
    BY <1>1
  <2>3. ~(j < i)
    BY <1>1, <2>1, Zenon DEF OpToRel
  <2> QED
    BY <2>1, <2>3
<1> QED
  BY <1>1, <1>2

(* GreatestBelow: and a greatest one below any bound. *)
LEMMA GreatestBelow ==
  ASSUME NEW S \in SUBSET Nat, NEW n \in Nat, NEW e \in S, e < n
  PROVE  \E i \in S : i < n /\ \A j \in S : j < n => j <= i
<1> DEFINE T == {k \in 0 .. n : n - k \in S /\ n - k < n}
<1>1. T \in SUBSET Nat /\ n - e \in T
  OBVIOUS
<1>2. PICK k \in T : \A j \in T : k <= j
  BY <1>1, LeastOf
<1>3. ASSUME NEW j \in S, j < n PROVE j <= n - k
  <2>1. n - j \in T
    BY <1>3
  <2>2. k <= n - j
    BY <1>2, <2>1
  <2>3. k \in 0 .. n
    BY <1>2
  <2> HIDE DEF T
  <2> QED
    BY <2>2, <2>3
<1> QED
  BY <1>3, <1>2

(* TileTyped: the headers of a tiling, in any memory. *)
LEMMA TileTyped ==
  ASSUME NEW m \in [Seg -> Record], NEW H \in SUBSET (Head .. End - 1)
  PROVE  \A h \in H :
           /\ h \in Seg /\ h \in Nat /\ m[h] \in Record /\ m[h].size \in Nat
           /\ NextSegment(h, m[h]) \in Nat /\ h < NextSegment(h, m[h])
           /\ NextSegment(h, m[h]) = h + m[h].size + 1
<1> SUFFICES ASSUME NEW h \in H
             PROVE  /\ h \in Seg /\ h \in Nat /\ m[h] \in Record
                    /\ m[h].size \in Nat
                    /\ NextSegment(h, m[h]) \in Nat /\ h < NextSegment(h, m[h])
                    /\ NextSegment(h, m[h]) = h + m[h].size + 1
  OBVIOUS
<1>1. h \in Seg /\ h \in Nat
  BY SegmentArithmetic
<1>2. m[h] \in Record
  BY <1>1
<1> QED
  BY <1>1, <1>2, RecordFields, SegmentArithmetic, NextAbove

(* Predecessor: every header of a tiling but the first follows another. *)
LEMMA Predecessor ==
  ASSUME NEW m \in [Seg -> Record], NEW H \in SUBSET (Head .. End - 1),
         Tiles(m, H), NEW h \in H, h # Head
  PROVE  \E p \in H : p < h /\ m[p].sig = "M" /\ NextSegment(p, m[p]) = h
<1>1. H \in SUBSET Nat /\ h \in Nat /\ Head \in H /\ Head < h
  BY SegmentAssumption DEF Tiles
<1>2. PICK p \in H : p < h /\ \A j \in H : j < h => j <= p
  BY <1>1, GreatestBelow
<1>3. PICK n \in Nat : n = NextSegment(p, m[p]) /\ p < n
  BY TileTyped
<1>4. n <= h
  BY <1>3, <1>1, <1>2 DEF Tiles
<1>5. m[p].sig = "M"
  BY <1>3, SegmentAssumption, <1>1, <1>4 DEF Tiles, ValidSignature
<1>7. ~(n < h)
  BY <1>2, <1>3, <1>5 DEF Tiles
<1> QED
  BY <1>1, <1>2, <1>3, <1>4, <1>5, <1>7

(* Reaches(m, f): f is a solution of the equation that Chain's function is *)
(* defined by.                                                             *)
Reaches(m, f) ==
  f = [s \in Seg |->
         \/ s = Head
         \/ \E p \in Head .. s - 1 :
              f[p] /\ m[p].sig = "M" /\ NextSegment(p, m[p]) = s]

(* ChainIs: the chain of a tiled memory is its tiling, which is therefore  *)
(* the only one.                                                           *)
LEMMA ChainIs ==
  ASSUME NEW m \in [Seg -> Record], NEW H \in SUBSET (Head .. End - 1),
         Tiles(m, H)
  PROVE  Chain(m) = H
<1> DEFINE e == [s \in Seg |-> s \in H]
<1>1. Head \in H /\ H \subseteq Seg
  BY SegmentArithmetic DEF Tiles
<1>2. ASSUME NEW s \in Seg
      PROVE  s \in H <=>
               \/ s = Head
               \/ \E p \in Head .. s - 1 :
                    p \in H /\ m[p].sig = "M" /\ NextSegment(p, m[p]) = s
  BY Predecessor, SegmentArithmetic, SegmentAssumption, <1>1 DEF Tiles
<1>3. ASSUME NEW s \in Seg, NEW p \in Head .. s - 1
      PROVE  p \in Seg /\ p < s
  BY SegmentAssumption DEF Seg
<1>4. Reaches(m, e)
  <2>1. \A s \in Seg : \A p \in Head .. s - 1 : e[p] = (p \in H)
    BY <1>3
  <2> DEFINE B(s) == \/ s = Head
                     \/ \E p \in Head .. s - 1 :
                          e[p] /\ m[p].sig = "M" /\ NextSegment(p, m[p]) = s
  <2>2. \A s \in Seg : s \in H <=> B(s)
    <3> TAKE s \in Seg
    <3> HIDE DEF e
    <3> QED
      BY <1>2, <2>1, Zenon
  <2>3. \A s \in Seg : B(s) \in BOOLEAN
    OBVIOUS
  <2>4. e = [s \in Seg |-> B(s)]
    <3> HIDE DEF B
    <3> QED
      BY <2>2, <2>3
  <2> QED
    BY <2>4, Zenon DEF Reaches
<1>5. PICK f : f = CHOOSE g : Reaches(m, g)
  OBVIOUS
<1>6. Reaches(m, f)
  BY <1>4, <1>5
<1>8. \A s \in Seg : f[s] <=> s \in H
  <2> DEFINE T == {s \in Seg : ~(f[s] <=> s \in H)}
  <2> SUFFICES ASSUME T # {} PROVE FALSE
    OBVIOUS
  <2>1. T \in SUBSET Nat
    BY SegmentArithmetic
  <2>2. PICK s \in T : \A t \in T : s <= t
    BY <2>1, LeastOf
  <2>3. s \in Seg /\ s \in Nat /\ ~(f[s] <=> s \in H)
    BY <2>1, <2>2
  <2>4. \A p \in Head .. s - 1 : f[p] <=> p \in H
    <3> SUFFICES ASSUME NEW p \in Head .. s - 1, ~(f[p] <=> p \in H)
                 PROVE  FALSE
      OBVIOUS
    <3>1. p \in Seg /\ p < s /\ p \in Nat
      BY <1>3, <2>3, SegmentArithmetic
    <3> QED
      BY <2>2, <2>3, <3>1
  <2>5. f[s] <=> \/ s = Head
                 \/ \E p \in Head .. s - 1 :
                      f[p] /\ m[p].sig = "M" /\ NextSegment(p, m[p]) = s
    BY <1>6, <2>3 DEF Reaches
  <2>6. f[s] <=> s \in H
    BY <1>2, <2>3, <2>4, <2>5
  <2> QED
    BY <2>3, <2>6
<1> QED
  BY <1>1, <1>5, <1>8, SegmentArithmetic DEF Chain, Reaches

-----------------------------------------------------------------------------
(* What a call in progress has done to the memory it began with.           *)

(* Since(H): outside the headers of the chain H the memory is as it was    *)
(* when the call began, but for the hidden half of a split; the walk has   *)
(* touched nothing ahead of it, and a split remembers what it covers.      *)
Since(H) ==
  /\ \A s \in Seg : \/ s \in H
                    \/ mem[s] = frame.entry[s]
                    \/ frame.pc \in {"publish", "unwind"} /\ s = frame.splitSeg
  /\ frame.pc = "find" =>
       \A s \in Seg : s >= frame.cur => mem[s] = frame.entry[s]
  /\ frame.pc = "coalesce" =>
       \A s \in Seg : s > frame.cur => mem[s] = frame.entry[s]
  /\ frame.pc \in {"hide", "publish", "unwind"} =>
       frame.splitBefore = frame.entry[frame.splitSeg]

DataInv ==
  /\ frame.pc \notin {"idle", "done", "unwind"} => Ready
  /\ Ready /\ frame.pc # "idle" => Since(Chain(mem))

(* Reached: the chain of a usable arena is good. *)
LEMMA Reached ==
  ASSUME IndInv, Ready
  PROVE  /\ Chain(mem) \in SUBSET (Head .. End - 1) /\ Good(Chain(mem))
         /\ TypeInv /\ mem \in [Seg -> Record] /\ Tiles(mem, Chain(mem))
         /\ frame \in Frame
<1>1. PICK H \in SUBSET (Head .. End - 1) : Good(H)
  BY DEF IndInv
<1>2. mem \in [Seg -> Record] /\ TypeInv /\ frame \in Frame
  BY DEF IndInv, TypeInv, TypeOK
<1> QED
  BY <1>1, <1>2, ChainIs DEF Good

(* ReturnFields: what a call hands back. *)
LEMMA ReturnFields ==
  ASSUME NEW f, NEW status, NEW maximum, NEW block,
         ReturnFrom(f, status, maximum, block)
  PROVE  /\ frame'.pc = "done" /\ frame'.op = f.op /\ frame'.owner = f.owner
         /\ frame'.paras = f.paras /\ frame'.entry = f.entry
         /\ frame'.status = status /\ frame'.maximum = maximum
         /\ frame'.block = block
BY IdleTyped DEF ReturnFrom, Frame

(* DoneSince: a call that returns without a write has kept the data. *)
LEMMA DoneSince ==
  ASSUME NEW H, Since(H), mem' = mem, frame'.entry = frame.entry,
         frame.pc \notin {"publish", "unwind"},
         frame'.pc \notin {"find", "coalesce", "hide", "publish", "unwind"}
  PROVE  Since(H)'
BY DEF Since

(* QuietData: neither has a step that only moves on. *)
LEMMA QuietData ==
  ASSUME IndInv, DataInv, mem' = mem, Ready' => Ready,
         frame'.entry = frame.entry,
         frame.pc \notin {"idle", "publish", "unwind"},
         \/ frame'.pc = "done"
         \/ Ready' /\ frame'.pc \in {"select", "low", "high", "single",
                                     "locate", "process"}
  PROVE  DataInv'
<1>2. ASSUME Ready' PROVE Since(Chain(mem))'
  BY <1>2, DoneSince DEF DataInv, Since
<1> QED
  BY <1>2 DEF DataInv

(* FailData: an early return. *)
LEMMA FailData ==
  ASSUME IndInv, DataInv, frame.pc \notin {"idle", "publish", "unwind"},
         Fail("fault") \/ Fail("damaged") \/ Fail("invalid")
         \/ Fail("mismatch")
  PROVE  DataInv'
<1>1. mem' = mem /\ arena' = arena
  BY DEF Fail
<1> QED
  BY <1>1, ReturnFields, QuietData DEF Ready, Fail, Return

(* AdvanceData: moving to the next header, with nothing written ahead. *)
LEMMA AdvanceData ==
  ASSUME IndInv, DataInv, frame.pc \in {"find", "coalesce"},
         NEW f \in Frame, f.cur = frame.cur, f.entry = frame.entry,
         f.op = frame.op,
         FindAdvance(f, mem[frame.cur]), mem' = mem, arena' = arena
  PROVE  DataInv'
<1> DEFINE n == NextSegment(frame.cur, mem[frame.cur])
<1>1. Ready /\ Ready'
  BY DEF DataInv, Ready
<1>2. CASE \/ Return("ok", f.cand.maximum, 0) \/ Return("damaged", 0, 0)
           \/ frame' = [f EXCEPT !.pc = "select"]
  BY <1>2, ReturnFields, <1>1, QuietData DEF Return, Frame
<1>3. CASE frame' = [f EXCEPT !.pc = "find", !.cur = n]
  <2>1. frame'.pc = "find" /\ frame'.cur = n /\ frame'.entry = frame.entry
    BY <1>3 DEF Frame
  <2>2. PICK H \in SUBSET (Head .. End - 1) :
          H = Chain(mem) /\ Good(H) /\ TypeInv
    BY <1>1, Reached
  <2>3. Since(H) /\ Chain(mem') = H
    BY <1>1, <2>2 DEF DataInv
  <2>5. frame.cur \in Int /\ n \in Int /\ frame.cur < n
    BY <2>2, ChainTyped DEF Good, FrameOf
  <2> HIDE DEF n
  <2>6. ASSUME NEW s \in Seg, s >= n PROVE s > frame.cur /\ s >= frame.cur
    BY <2>5, <2>6, SegmentArithmetic
  <2> QED
    BY <1>1, <2>1, <2>3, <2>6 DEF DataInv, Since
<1> QED
  BY <1>2, <1>3 DEF FindAdvance

(* FindStepData: one iteration of find_candidates. *)
LEMMA FindStepData ==
  ASSUME IndInv, DataInv, FindStep
  PROVE  DataInv'
<1>1. frame.pc = "find" /\ frame \in Frame /\ frame.cur \in Seg
  BY DEF FindStep, IndInv, TypeInv, TypeOK, Frame
<1>2. CASE Fail("fault") \/ Fail("damaged")
  BY <1>1, <1>2, FailData
<1>3. CASE /\ frame' = [frame EXCEPT !.pc = "coalesce",
                                     !.rec = mem[frame.cur]]
           /\ UNCHANGED <<mem, arena, held>>
  BY <1>1, <1>3 DEF Frame, DataInv, Ready, Seg, Since
<1>4. CASE FindAdvance(frame, mem[frame.cur]) /\ UNCHANGED <<mem, arena, held>>
  BY <1>1, <1>4, AdvanceData
<1> QED
  BY <1>2, <1>3, <1>4 DEF FindStep

(* CoalescedData: the return from coalesce_forward. *)
LEMMA CoalescedData ==
  ASSUME IndInv, DataInv, frame.pc = "coalesce", Coalesced
  PROVE  DataInv'
<1>1. /\ frame \in Frame /\ mem' = mem /\ arena' = arena
      /\ Ready /\ Ready'
  BY DEF Coalesced, IndInv, TypeInv, TypeOK, DataInv, Ready
<1>2. frame.rec = mem[frame.cur]
  BY <1>1, Reached DEF Good, FrameOf
<1>3. CASE frame.op = "resize"
  BY <1>1, <1>3, ReturnFields, QuietData DEF Coalesced, Return, Frame
<1>4. CASE frame.op # "resize"
  <2> DEFINE f == [frame EXCEPT !.cand = Tally(frame.cand, frame.cur,
                                        frame.rec.size, frame.paras)]
  <2>1. f \in Frame /\ f.op = frame.op /\ f.cur = frame.cur
        /\ f.entry = frame.entry
    BY <1>1, TallyTyped DEF Frame
  <2>2. FindAdvance(f, mem[frame.cur])
    BY <1>2, <1>4 DEF Coalesced
  <2> HIDE DEF f
  <2> QED
    BY <1>1, <2>1, <2>2, AdvanceData
<1> QED
  BY <1>3, <1>4

(* CoalesceStepData: the header that a merge drops from the chain is one   *)
(* the walk had not touched.                                               *)
LEMMA CoalesceStepData ==
  ASSUME IndInv, DataInv, CoalesceStep
  PROVE  DataInv'
<1> DEFINE r == frame.rec
           n == NextSegment(frame.cur, r)
<1>1. /\ frame.pc = "coalesce" /\ frame \in Frame /\ Ready /\ arena.init
      /\ ~arena.poisoned /\ mem \in [Seg -> Record]
  BY DEF CoalesceStep, IndInv, TypeInv, TypeOK, DataInv, Ready
<1>2. CASE Fail("fault") \/ Fail("damaged")
  BY <1>1, <1>2, FailData
<1>3. CASE Coalesced
  BY <1>1, <1>3, CoalescedData
<1>4. ASSUME r.sig # "Z", n <= Top, ValidMcb(mem, n), mem[n].owner = Free,
             NEW w \in Outcomes,
             Replace(frame.cur, Merged(r, mem[n]), w), PoisonedBy(w),
             CASE w = "ok"    -> /\ frame' = [frame EXCEPT
                                         !.rec = Merged(r, mem[n])]
               [] w = "fault" -> Return("fault", 0, 0)
               [] w = "torn"  -> Return("poisoned", 0, 0),
             UNCHANGED held
      PROVE  DataInv'
  <2>0. arena'.init = arena.init
        /\ (arena'.poisoned <=> (arena.poisoned \/ w = "torn"))
    BY <1>4 DEF PoisonedBy, IndInv, TypeInv, TypeOK
  <2>1. CASE w = "ok"
    <3>1. PICK H \in SUBSET (Head .. End - 1) :
            /\ H = Chain(mem) /\ Good(H) /\ TypeInv /\ Tiles(mem, H)
      BY <1>1, Reached
    <3>2. frame.cur \in H /\ r = mem[frame.cur] /\ Since(H)
      BY <1>1, <3>1 DEF Good, FrameOf, DataInv
    <3>3. frame.cur \in Seg /\ r \in Record /\ n \in Seg
          /\ Merged(r, mem[n]) \in Record
      BY <1>1, <1>4, <3>1, <3>2, ChainTyped, MergedTyped
    <3>4. mem' = [mem EXCEPT ![frame.cur] = Merged(r, mem[n])]
      BY <1>4, <2>1 DEF Replace
    <3>5. n \in H /\ frame.cur < n /\ Tiles(mem', H \ {n})
      BY <1>1, <1>4, <3>1, <3>2, <3>3, <3>4, Merge
    <3>7. Chain(mem') = H \ {n}
      BY <3>5, <1>1, <3>3, <3>4, ChainIs
    <3>8. frame'.pc = "coalesce" /\ frame'.cur = frame.cur
          /\ frame'.entry = frame.entry
      BY <1>1, <1>4, <2>1 DEF Frame
    <3> HIDE DEF n, r
    <3>9. PICK G : G = H \ {n}
      OBVIOUS
    <3>10. \A s \in Seg : s # frame.cur => mem'[s] = mem[s]
      BY <1>1, <3>3, <3>4
    <3>11. \A s \in Seg : s > frame.cur => s # frame.cur
      BY <3>3, SegmentArithmetic
    <3>12. \A s \in Seg : s \in H => s \in G \/ s = n
      BY <3>9
    <3>14. Since(G)'
      BY <1>1, <3>2, <3>8, <3>10, <3>11, <3>3, <3>5, <3>9, SegmentArithmetic, <3>12
      DEF Since
    <3> QED
      BY <3>7, <3>8, <3>9, <3>14, <1>1, <2>0, <2>1 DEF DataInv, Since, Ready
  <2>2. CASE w = "fault"
    BY <1>4, <2>2, ReturnFields, <1>1, QuietData DEF Replace, Return
  <2>3. CASE w = "torn"
    BY <1>4, <2>0, <2>3, ReturnFields DEF Return, Ready, DataInv
  <2> QED
    BY <2>1, <2>2, <2>3 DEF Outcomes
<1> QED
  BY <1>2, <1>3, <1>4 DEF CoalesceStep

(* SelectData: the choice of a candidate writes nothing. *)
LEMMA SelectData ==
  ASSUME IndInv, DataInv, Select
  PROVE  DataInv'
<1>1. /\ frame.pc = "select" /\ frame \in Frame /\ mem' = mem /\ arena' = arena
      /\ Ready /\ Ready'
  BY DEF Select, IndInv, TypeInv, TypeOK, DataInv, Ready
<1> QED
  BY <1>1, ReturnFields, QuietData DEF Select, Return, Frame

(* CutData: a planned split remembers the paragraph it will cover. *)
LEMMA CutData ==
  ASSUME IndInv, DataInv, frame.pc \in {"low", "high"},
         UNCHANGED <<mem, arena, held>>, NEW a, NEW s \in Seg, NEW x,
         frame' = [frame EXCEPT !.pc = "hide", !.after = a, !.splitSeg = s,
                                !.splitBefore = mem[s], !.splitAfter = x],
         frame.cur < s, s < NextSegment(frame.cur, mem[frame.cur])
  PROVE  DataInv'
<1>1. frame \in Frame /\ Ready /\ Ready' /\ mem' = mem
  BY DEF IndInv, TypeInv, TypeOK, DataInv, Ready
<1>2. PICK H \in SUBSET (Head .. End - 1) :
        /\ H = Chain(mem) /\ Good(H) /\ Tiles(mem, H)
        /\ mem \in [Seg -> Record]
  BY <1>1, Reached
<1>3. frame.cur \in H /\ Since(H) /\ Chain(mem') = H
  BY <1>1, <1>2 DEF Good, FrameOf, DataInv
<1>5. /\ frame'.pc = "hide" /\ frame'.splitSeg = s
      /\ frame'.splitBefore = mem[s] /\ frame'.entry = frame.entry
  BY <1>1 DEF Frame
<1>6. Since(H)'
  BY <1>1, <1>3, <1>2, InsideBlock, <1>5 DEF Since
<1> QED
  BY <1>1, <1>3, <1>5, <1>6 DEF DataInv, Since

(* AllocateLowData: the low end of a block is not written before the split *)
(* is.                                                                     *)
LEMMA AllocateLowData ==
  ASSUME IndInv, DataInv, AllocateLow
  PROVE  DataInv'
<1> DEFINE r == mem[frame.cur]
           a == [sig |-> "M", owner |-> frame.owner, size |-> frame.paras]
           s == frame.cur + frame.paras + 1
           x == [sig |-> r.sig, owner |-> Free,
                  size |-> Remainder(r, frame.paras)]
<1>1. frame.pc = "low" /\ frame \in Frame /\ Ready /\ TypeInv
  BY DEF AllocateLow, IndInv, TypeInv, TypeOK, DataInv
<1>2. CASE Fail("fault") \/ Fail("damaged")
  BY <1>1, <1>2, FailData
<1>3. CASE TakeWhole(r) /\ UNCHANGED <<mem, arena, held>>
  BY <1>1, <1>3, QuietData DEF TakeWhole, Frame, Ready
<1>4. CASE /\ ValidMcb(mem, frame.cur) /\ frame.paras < r.size
           /\ frame' = [frame EXCEPT !.pc = "hide", !.after = a,
                           !.splitSeg = s, !.splitBefore = mem[s],
                           !.splitAfter = x]
           /\ UNCHANGED <<mem, arena, held>>
  <2>0. PICK H \in SUBSET (Head .. End - 1) : frame.cur \in H
    BY <1>1, Reached DEF Good, FrameOf
  <2>1. s \in Seg
    BY <1>1, <1>4, CutTyped
  <2>3. frame.cur < s /\ s < NextSegment(frame.cur, r)
    BY <1>4, <1>1, <2>0, ChainTyped, SegmentArithmetic DEF Frame
  <2> HIDE DEF a, s, x
  <2> QED
    BY <1>1, <1>4, <2>1, <2>3, CutData
<1> QED
  BY <1>2, <1>3, <1>4 DEF AllocateLow

(* AllocateHighData: nor is its high end. *)
LEMMA AllocateHighData ==
  ASSUME IndInv, DataInv, AllocateHigh
  PROVE  DataInv'
<1> DEFINE r == mem[frame.cur]
           a == [sig |-> "M", owner |-> Free,
                  size |-> Remainder(r, frame.paras)]
           s == frame.cur + (r.size - frame.paras)
           x == [sig |-> r.sig, owner |-> frame.owner, size |-> frame.paras]
<1>1. frame.pc = "high" /\ frame \in Frame /\ Ready /\ TypeInv
  BY DEF AllocateHigh, IndInv, TypeInv, TypeOK, DataInv
<1>2. CASE Fail("fault") \/ Fail("damaged")
  BY <1>1, <1>2, FailData
<1>3. CASE TakeWhole(r) /\ UNCHANGED <<mem, arena, held>>
  BY <1>1, <1>3, QuietData DEF TakeWhole, Frame, Ready
<1>4. CASE /\ ValidMcb(mem, frame.cur) /\ frame.paras < r.size
           /\ frame' = [frame EXCEPT !.pc = "hide", !.after = a,
                           !.splitSeg = s, !.splitBefore = mem[s],
                           !.splitAfter = x]
           /\ UNCHANGED <<mem, arena, held>>
  <2>0. PICK H \in SUBSET (Head .. End - 1) : frame.cur \in H
    BY <1>1, Reached DEF Good, FrameOf
  <2>1. s \in Seg
    BY <1>1, <1>4, CutTyped
  <2>3. frame.cur < s /\ s < NextSegment(frame.cur, r)
    BY <1>4, <1>1, <2>0, ChainTyped, SegmentArithmetic DEF Frame
  <2> HIDE DEF a, s, x
  <2> QED
    BY <1>1, <1>4, <2>1, <2>3, CutData
<1> QED
  BY <1>2, <1>3, <1>4 DEF AllocateHigh

(* HideSplitData: the hidden half is the one paragraph that differs. *)
LEMMA HideSplitData ==
  ASSUME IndInv, DataInv, HideSplit
  PROVE  DataInv'
<1>1. /\ frame.pc = "hide" /\ frame \in Frame /\ Ready /\ arena.init
      /\ ~arena.poisoned /\ mem \in [Seg -> Record]
  BY DEF HideSplit, IndInv, TypeInv, TypeOK, DataInv, Ready
<1>2. PICK H \in SUBSET (Head .. End - 1) :
        /\ H = Chain(mem) /\ Good(H) /\ TypeInv /\ Tiles(mem, H)
  BY <1>1, Reached
<1>3. /\ frame.splitSeg \notin H /\ frame.splitSeg \in Seg
      /\ frame.splitAfter \in Record /\ Since(H)
  BY <1>1, <1>2, SplitInside DEF DataInv
<1>4. PICK w \in Outcomes :
        /\ Replace(frame.splitSeg, frame.splitAfter, w)
        /\ PoisonedBy(w)
        /\ CASE w = "ok"    -> /\ frame' = [frame EXCEPT !.pc = "publish"]
             [] w = "fault" -> Return("fault", Bx, 0)
             [] w = "torn"  -> Return("poisoned", Bx, 0)
  BY DEF HideSplit
<1>5. arena'.init = arena.init
      /\ (arena'.poisoned <=> (arena.poisoned \/ w = "torn"))
  BY <1>4 DEF PoisonedBy, IndInv, TypeInv, TypeOK
<1>6. CASE w = "ok"
  <2>1. mem' = [mem EXCEPT ![frame.splitSeg] = frame.splitAfter]
    BY <1>4, <1>6 DEF Replace
  <2>3. Chain(mem') = H
    BY <1>1, <1>2, <1>3, <2>1, OutsideWrite, ChainIs
  <2>4. /\ frame'.pc = "publish" /\ frame'.splitSeg = frame.splitSeg
        /\ frame'.splitBefore = frame.splitBefore
        /\ frame'.entry = frame.entry
    BY <1>1, <1>4, <1>6 DEF Frame
  <2>6. Since(H)'
    BY <1>1, <1>3, <2>4, <2>1 DEF Since
  <2> QED
    BY <2>3, <2>4, <2>6, <1>1, <1>5, <1>6 DEF DataInv, Since, Ready
<1>7. CASE w = "fault"
  BY <1>4, <1>7, ReturnFields, <1>1, QuietData DEF Replace, Return
<1>8. CASE w = "torn"
  BY <1>4, <1>5, <1>8, ReturnFields DEF Return, Ready, DataInv
<1> QED
  BY <1>6, <1>7, <1>8 DEF Outcomes

(* PublishSplitData: the hidden half becomes a header of the chain. *)
LEMMA PublishSplitData ==
  ASSUME IndInv, DataInv, PublishSplit
  PROVE  DataInv'
<1>1. /\ frame.pc = "publish" /\ frame \in Frame /\ Ready /\ arena.init
      /\ ~arena.poisoned /\ mem \in [Seg -> Record]
  BY DEF PublishSplit, IndInv, TypeInv, TypeOK, DataInv, Ready
<1>2. PICK H \in SUBSET (Head .. End - 1) :
        /\ H = Chain(mem) /\ Good(H) /\ TypeInv /\ Tiles(mem, H)
  BY <1>1, Reached
<1>3. /\ frame.splitSeg \notin H /\ frame.splitSeg \in Seg
      /\ frame.after \in Record /\ Since(H) /\ frame.cur \in H
      /\ mem[frame.splitSeg] = frame.splitAfter /\ SplitOf(H)
  BY <1>1, <1>2, SplitInside DEF DataInv, Good, FrameOf
<1>4. PICK w \in Outcomes :
        /\ Replace(frame.cur, frame.after, w)
        /\ PoisonedBy(w)
        /\ IF w = "ok"
             THEN Grant
             ELSE /\ frame' = [frame EXCEPT !.pc = "unwind"]
                  /\ UNCHANGED held
  BY DEF PublishSplit
<1>5. arena'.init = arena.init
      /\ (arena'.poisoned <=> (arena.poisoned \/ w = "torn"))
  BY <1>4 DEF PoisonedBy, IndInv, TypeInv, TypeOK
<1>6. CASE w = "ok"
  <2>1. mem' = [mem EXCEPT ![frame.cur] = frame.after]
    BY <1>4, <1>6 DEF Replace
  <2>2. frame.cur \in Seg /\ mem' \in [Seg -> Record]
    BY <1>1, <1>3, <2>1, SegmentArithmetic
  <2>3. /\ H \cup {frame.splitSeg} \in SUBSET (Head .. End - 1)
        /\ Tiles(mem', H \cup {frame.splitSeg})
    <3>1. /\ frame.cur < frame.splitSeg
          /\ frame.splitSeg < NextSegment(frame.cur, mem[frame.cur])
          /\ mem[frame.splitSeg].sig = mem[frame.cur].sig
          /\ NextSegment(frame.splitSeg, mem[frame.splitSeg]) =
               NextSegment(frame.cur, mem[frame.cur])
          /\ frame.after.sig = "M"
          /\ NextSegment(frame.cur, frame.after) = frame.splitSeg
      BY <1>3 DEF SplitOf
    <3> QED
      BY <1>1, <1>2, <1>3, <2>1, <3>1, Split
  <2>5. frame'.pc = "done" /\ frame'.entry = frame.entry
    BY <1>4, <1>6, ReturnFields DEF Grant, Return
  <2>7. PICK G : G = H \cup {frame.splitSeg}
    OBVIOUS
  <2>8. Since(G)'
    BY <1>1, <1>3, <2>5, <2>1, <2>2, <2>7 DEF Since
  <2> QED
    BY <2>2, <2>3, ChainIs, <2>5, <2>7, <2>8 DEF DataInv, Since
<1>7. CASE w # "ok"
  <2>1. frame'.pc = "unwind" /\ frame'.entry = frame.entry
        /\ frame'.splitSeg = frame.splitSeg
        /\ frame'.splitBefore = frame.splitBefore
    BY <1>1, <1>4, <1>7 DEF Frame
  <2>2. ASSUME Ready' PROVE Since(Chain(mem))'
    BY <1>4, <1>5, <1>7, <2>2, <1>1, <1>2, <1>3, <2>1
    DEF Replace, Ready, Outcomes, Since
  <2> QED
    BY <2>1, <2>2 DEF DataInv
<1> QED
  BY <1>6, <1>7

(* UnwindSplitData: a failed split puts the covered paragraph back. *)
LEMMA UnwindSplitData ==
  ASSUME IndInv, DataInv, UnwindSplit
  PROVE  DataInv'
<1>1. PICK w \in Outcomes :
        /\ Replace(frame.splitSeg, frame.splitBefore, w)
        /\ arena' = [arena EXCEPT !.poisoned = @ \/ w # "ok"]
        /\ Return(IF arena'.poisoned THEN "poisoned" ELSE "fault", Bx, 0)
  BY DEF UnwindSplit
<1>2. arena'.init = arena.init
      /\ (arena'.poisoned <=> (arena.poisoned \/ w # "ok"))
  BY <1>1 DEF IndInv, TypeInv, TypeOK
<1>3. frame.pc = "unwind" /\ frame'.pc = "done" /\ frame'.entry = frame.entry
  BY <1>1, ReturnFields DEF UnwindSplit, Return
<1>4. ASSUME Ready' PROVE Since(Chain(mem))'
  <2>1. w = "ok" /\ Ready
    BY <1>2, <1>4 DEF Ready
  <2>2. PICK H \in SUBSET (Head .. End - 1) :
          /\ H = Chain(mem) /\ Good(H) /\ TypeInv /\ Tiles(mem, H)
          /\ mem \in [Seg -> Record]
    BY <2>1, Reached
  <2>3. /\ frame.splitSeg \notin H /\ frame.splitSeg \in Seg
        /\ frame.splitBefore \in Record /\ Since(H)
    BY <1>3, <2>1, <2>2, SplitInside DEF DataInv
  <2>4. mem' = [mem EXCEPT ![frame.splitSeg] = frame.splitBefore]
    BY <1>1, <2>1 DEF Replace
  <2>6. Chain(mem') = H
    BY <2>2, <2>3, <2>4, OutsideWrite, ChainIs
  <2>8. Since(H)'
    BY <1>3, <2>3, <2>2, <2>4 DEF Since
  <2> QED
    BY <2>6, <2>8 DEF Since
<1> QED
  BY <1>3, <1>4 DEF DataInv

(* HeaderData: rewriting a header's owner touches no data. *)
LEMMA HeaderData ==
  ASSUME NEW H \in SUBSET (Head .. End - 1), mem \in [Seg -> Record],
         Tiles(mem, H), NEW h \in H, NEW r \in Record,
         r.sig = mem[h].sig, r.size = mem[h].size,
         mem' = [mem EXCEPT ![h] = r], Since(H), frame'.entry = frame.entry,
         frame.pc \in {"single", "process"}, frame'.pc \in {"done", "process"}
  PROVE  Chain(mem') = H /\ Since(H)'
<1>1. h \in Seg /\ mem' \in [Seg -> Record] /\ Tiles(mem', H)
  BY SegmentArithmetic, Retag
<1>4. Since(H)'
  BY <1>1 DEF Since
<1> QED
  BY <1>1, ChainIs, <1>4

(* WriteSingleData: the one write of a call that replaces one header. *)
LEMMA WriteSingleData ==
  ASSUME IndInv, DataInv, WriteSingle
  PROVE  DataInv'
<1>1. /\ frame.pc = "single" /\ frame \in Frame /\ Ready /\ arena.init
      /\ ~arena.poisoned
      /\ frame.op \in {"allocate", "resize", "free", "freeOwned", "transfer"}
  BY DEF WriteSingle, IndInv, TypeInv, TypeOK, DataInv, Ready, Control
<1>2. PICK H \in SUBSET (Head .. End - 1) :
        /\ H = Chain(mem) /\ Good(H) /\ TypeInv /\ Tiles(mem, H)
        /\ mem \in [Seg -> Record]
  BY <1>1, Reached
<1>4. PICK w \in Outcomes :
        /\ Replace(frame.cur, frame.after, w)
        /\ PoisonedBy(w)
        /\ CASE w = "ok" /\ frame.op \in {"allocate", "resize"} -> Grant
             [] w = "ok" /\ frame.op \in {"free", "freeOwned"} ->
                  /\ Promise({b \in held : b.seg # BlockOf(frame.cur)})
                  /\ Return("ok", Bx, 0)
             [] w = "ok" /\ frame.op = "transfer" ->
                  /\ Promise({IF b.seg = BlockOf(frame.cur)
                                THEN [b EXCEPT !.owner = frame.newOwner]
                                ELSE b : b \in held})
                  /\ Return("ok", Bx, 0)
             [] w = "fault" -> Return("fault", Bx, 0) /\ UNCHANGED held
             [] w = "torn"  -> Return("poisoned", Bx, 0) /\ UNCHANGED held
  BY DEF WriteSingle
<1>7. frame'.pc = "done" /\ frame'.entry = frame.entry
  BY <1>1, <1>4, ReturnFields DEF Return, Outcomes, Grant
<1>8. CASE w = "ok"
  BY <1>4, <1>8, <1>1, <1>2, <1>7, HeaderData
  DEF Replace, DataInv, Since, Good, FrameOf, Frame
<1>9. CASE w = "fault"
  BY <1>4, <1>9, <1>1, <1>7, QuietData DEF Replace
<1>10. CASE w = "torn"
  BY <1>4, <1>7, <1>10 DEF DataInv, Ready, PoisonedBy, IndInv, TypeInv, TypeOK
<1> QED
  BY <1>8, <1>9, <1>10 DEF Outcomes

(* LocateStepData: the search of locate_mcb writes nothing. *)
LEMMA LocateStepData ==
  ASSUME IndInv, DataInv, LocateStep
  PROVE  DataInv'
<1>1. /\ frame.pc = "locate" /\ frame \in Frame /\ Ready
  BY DEF LocateStep, IndInv, TypeInv, TypeOK, DataInv
<1>2. CASE Fail("fault") \/ Fail("damaged") \/ Fail("mismatch")
           \/ Fail("invalid")
  BY <1>1, <1>2, FailData
<1>3. CASE /\ \/ frame' = [frame EXCEPT !.pc = "single",
                             !.after = [mem[frame.cur] EXCEPT
                                          !.owner = frame.newOwner]]
              \/ frame' = [frame EXCEPT
                             !.cur = NextSegment(frame.cur, mem[frame.cur])]
           /\ UNCHANGED <<mem, arena, held>>
  BY <1>1, <1>3, QuietData DEF Frame, Ready
<1> QED
  BY <1>2, <1>3 DEF LocateStep

(* FreeProcessStepData: a process teardown writes headers only, and when   *)
(* it reports success the chain has none of the process's left.            *)
LEMMA FreeProcessStepData ==
  ASSUME IndInv, DataInv, FreeProcessStep
  PROVE  DataInv' /\ ProcessReleased'
<1> DEFINE r == mem[frame.cur]
           over == r.sig # "Z" /\ NextSegment(frame.cur, r) > Top
<1>1. /\ frame.pc = "process" /\ frame \in Frame /\ Ready /\ arena.init
      /\ ~arena.poisoned /\ frame.owner # Free
      /\ frame.changed \in BOOLEAN
  BY OwnerAssumption
     DEF FreeProcessStep, IndInv, TypeInv, TypeOK, DataInv, Ready, Control,
         Frame
<1>2. PICK H \in SUBSET (Head .. End - 1) :
        /\ H = Chain(mem) /\ Good(H) /\ TypeInv /\ Tiles(mem, H)
        /\ mem \in [Seg -> Record]
  BY <1>1, Reached
<1>3. /\ frame.cur \in H /\ r \in Record /\ Since(H)
      /\ \A h \in H : h < frame.cur => mem[h].owner # frame.owner
      /\ \A h \in H : h \in Int
  BY <1>1, <1>2, ChainTyped DEF Good, FrameOf, DataInv
<1>4. CASE ProcessFail("fault") \/ ProcessFail("damaged")
  BY <1>4, ReturnFields, <1>1, QuietData DEF ProcessFail, Return, ProcessReleased
<1>5. CASE /\ arena' = [arena EXCEPT !.poisoned = TRUE]
           /\ Return("poisoned", 0, 0)
  BY <1>5, ReturnFields
  DEF Return, Ready, IndInv, TypeInv, TypeOK, DataInv, ProcessReleased
<1>6. ASSUME mem' = [mem EXCEPT ![frame.cur] =
                        IF r.owner = frame.owner
                          THEN [r EXCEPT !.owner = Free] ELSE r],
             ProcessAdvance(r),
             arena' = arena \/ arena' = [arena EXCEPT !.poisoned = @ \/ over]
      PROVE  DataInv' /\ ProcessReleased'
  <2>1. PICK c \in H : c = frame.cur
    BY <1>3
  <2>2. PICK x \in Record :
          x = IF r.owner = frame.owner THEN [r EXCEPT !.owner = Free] ELSE r
    BY <1>3 DEF Record
  <2>3. /\ x.sig = r.sig /\ x.size = r.size
        /\ x.owner = IF r.owner = frame.owner THEN Free ELSE r.owner
    BY <1>3, <2>2 DEF Record
  <2>4. mem' = [mem EXCEPT ![c] = x]
    BY <1>6, <2>1, <2>2
  <2>5. mem'[c] = x /\ \A h \in H : h # c => mem'[h] = mem[h]
    BY <1>2, <2>4, SegmentArithmetic
  <2>6. CASE r.sig = "Z"
    <3>2. /\ frame'.pc = "done" /\ frame'.entry = frame.entry
          /\ frame'.owner = frame.owner
      BY <1>6, <2>6, ReturnFields DEF Return, ProcessAdvance
    <3>3. Chain(mem') = H /\ Since(H)'
      BY <1>1, <1>2, <1>3, <2>1, <2>3, <2>4, <3>2, HeaderData
    <3>4. ASSUME NEW h \in H PROVE mem'[h].owner # frame.owner
      BY <1>2, <2>1, <2>6, SegmentAssumption, <1>1, <2>3, <2>5, <1>3 DEF Tiles
    <3> QED
      BY <3>2, <3>3, <3>4 DEF DataInv, Since, ProcessReleased
  <2>7. CASE r.sig # "Z"
    <3>1. PICK n \in H : n = NextSegment(frame.cur, r)
      BY <1>2, <1>3, <2>7 DEF Tiles, ValidSignature
    <3>2. ~(n > Top)
      BY SegmentAssumption
    <3>4. frame'.pc = "process" /\ frame'.entry = frame.entry
      BY <1>1, <1>6, <2>7, <3>1, <3>2 DEF Frame, ProcessAdvance
    <3>6. Ready'
      <4>1. ~over
        BY <3>1, <3>2
      <4>2. PICK v \in BOOLEAN : v <=> over
        OBVIOUS
      <4> HIDE DEF over
      <4> QED
        BY <1>1, <4>1, <1>6 DEF Ready, IndInv, TypeInv, TypeOK
    <3> QED
      BY <3>4, <1>1, <1>2, <1>3, <2>1, <2>3, <2>4, HeaderData, <3>6
      DEF DataInv, Since, ProcessReleased
  <2> QED
    BY <2>6, <2>7
<1>7. CASE /\ r.owner # frame.owner /\ mem' = mem
           /\ ProcessAdvance(r)
           /\ arena' = [arena EXCEPT !.poisoned =
                                       @ \/ (over /\ frame.changed)]
  BY <1>2, <1>7, <1>1, <1>6 DEF IndInv, TypeInv, TypeOK
<1>8. CASE /\ r.owner = frame.owner
           /\ Replace(frame.cur, [r EXCEPT !.owner = Free], "ok")
           /\ ProcessAdvance(r)
           /\ arena' = [arena EXCEPT !.poisoned = @ \/ over]
  BY <1>8, <1>6 DEF Replace
<1> QED
  BY <1>4, <1>5, <1>7, <1>8 DEF FreeProcessStep

(* BeginEntry: a call that starts remembers the memory it finds; the other *)
(* requests leave the frame empty or are refused.                          *)
LEMMA BeginEntry ==
  ASSUME Confined, Begin
  PROVE  /\ frame.pc = "idle"
         /\ \/ frame' = frame
            \/ /\ arena.poisoned /\ arena' = arena
               /\ frame'.pc = "done" /\ frame'.op = "none"
            \/ /\ Ready /\ arena' = arena /\ mem' = mem /\ frame'.entry = mem
               /\ \/ /\ frame'.pc = "find" /\ frame'.op = "query"
                  \/ /\ frame'.pc = "find" /\ frame'.op = "allocate"
                     /\ frame'.cur = arena.head
                     /\ frame'.cand = NoCandidates
                  \/ /\ frame'.pc \in {"coalesce", "locate", "process",
                                       "single"}
                     /\ frame'.op \notin {"allocate", "none"}
                  \/ /\ frame'.pc = "done"
                     /\ frame'.op \in {"free", "resize"}
<1> DEFINE P == /\ Ready /\ arena' = arena /\ mem' = mem /\ frame'.entry = mem
                /\ \/ /\ frame'.pc = "find" /\ frame'.op = "query"
                   \/ /\ frame'.pc = "find" /\ frame'.op = "allocate"
                      /\ frame'.cur = arena.head
                      /\ frame'.cand = NoCandidates
                   \/ /\ frame'.pc \in {"coalesce", "locate", "process",
                                       "single"}
                      /\ frame'.op \notin {"allocate", "none"}
                   \/ /\ frame'.pc = "done"
                      /\ frame'.op \in {"free", "resize"}
<1>1. frame.pc = "idle"
  BY DEF Begin, Initialize, BeginQuery, Poison, RefusePoisoned,
     SetStrategy, BeginFreeProcess, BeginAllocate, BeginFree,
     BeginFreeOwned, BeginTransfer, BeginResize, GuestWrite, Enter
<1>2. Snapshot = mem
  BY DEF Snapshot
<1>3. CASE Initialize \/ Poison \/ (\E s \in Strategies : SetStrategy(s))
           \/ (\E s \in Seg, r \in Foreign : GuestWrite(s, r))
  BY <1>1, <1>3 DEF Initialize, Poison, SetStrategy, GuestWrite
<1>4. CASE RefusePoisoned
  BY <1>4, ReturnFields, IdleTyped, <1>1 DEF RefusePoisoned
<1>5. CASE BeginQuery
  BY <1>2, <1>5, IdleTyped, <1>1 DEF BeginQuery, Enter, Frame
<1>6. CASE \E o \in Owners, n \in Seg : BeginAllocate(o, n)
  BY <1>2, <1>6, IdleTyped, <1>1 DEF Idle, BeginAllocate, Enter, Frame
<1>7. CASE \E o \in Owners : BeginFreeProcess(o)
  BY <1>2, <1>7, IdleTyped, <1>1 DEF BeginFreeProcess, Enter, Frame
<1>8. ASSUME NEW o \in Owners, NEW b \in Seg, BeginFree(o, b) PROVE P
  <2> DEFINE f == [Idle EXCEPT !.op = "free", !.cur = HeaderOf(b),
                               !.entry = Snapshot]
  <2>1. f.op = "free" /\ f.entry = mem /\ f.cur = HeaderOf(b)
    BY <1>2, IdleTyped DEF Frame
  <2>2. Ready /\ mem' = mem /\ arena' = arena
    BY <1>8 DEF BeginFree
  <2>3. CASE ReturnFrom(f, "invalid", 0, 0) \/ ReturnFrom(f, "fault", 0, 0)
    BY <2>1, <2>2, <2>3, ReturnFields
  <2>4. CASE frame' = [f EXCEPT !.pc = "single",
                     !.after = [mem[HeaderOf(b)] EXCEPT !.owner = Free]]
    BY <1>2, <2>2, <2>4, IdleTyped DEF Frame
  <2> QED
    BY <1>8, <2>3, <2>4 DEF BeginFree
<1>9. ASSUME NEW o \in Owners, NEW b \in Seg, BeginFreeOwned(o, b) PROVE P
  BY <1>2, <1>9, IdleTyped DEF BeginFreeOwned, Enter, Frame
<1>10. ASSUME NEW o \in Owners, NEW b \in Seg, NEW new \in Owners,
              BeginTransfer(o, b, new)
       PROVE  P
  BY <1>2, <1>10, IdleTyped DEF BeginTransfer, Enter, Frame
<1>11. ASSUME NEW o \in Owners, NEW b \in Seg, NEW n \in Seg,
              BeginResize(o, b, n)
       PROVE  P
  <2> DEFINE f == [Idle EXCEPT !.op = "resize", !.owner = o, !.paras = n,
                        !.cur = HeaderOf(b), !.rec = mem[HeaderOf(b)],
                        !.entry = Snapshot]
  <2>1. f.op = "resize" /\ f.entry = mem
    BY <1>2, IdleTyped DEF Frame
  <2>2. Ready /\ mem' = mem /\ arena' = arena
    BY <1>11 DEF BeginResize
  <2>3. CASE ReturnFrom(f, "damaged", 0, 0) \/ ReturnFrom(f, "fault", 0, 0)
    BY <2>1, <2>2, <2>3, ReturnFields
  <2>4. CASE frame' = [f EXCEPT !.pc = "coalesce"]
    BY <1>2, <2>2, <2>4, IdleTyped DEF Frame
  <2> QED
    BY <1>11, <2>3, <2>4 DEF BeginResize
<1> HIDE DEF P
<1> QED
  BY <1>3, <1>4, <1>5, <1>6, <1>7, <1>8, <1>9, <1>10, <1>11, <1>1 DEF Begin, P

(* BeginData: a call begins with the memory it remembers. *)
LEMMA BeginData ==
  ASSUME Confined, Begin
  PROVE  DataInv'
<1>1. CASE frame' = frame
  BY <1>1, BeginEntry DEF DataInv
<1>2. CASE arena.poisoned /\ arena' = arena /\ frame'.pc = "done"
  BY <1>2 DEF DataInv, Ready
<1>3. CASE /\ Ready /\ arena' = arena /\ mem' = mem /\ frame'.entry = mem
           /\ frame'.pc \in {"find", "coalesce", "locate", "process",
                             "single", "done"}
  BY <1>3 DEF Since, DataInv, Ready
<1> QED
  BY <1>1, <1>2, <1>3, BeginEntry

(* DataStep: every step keeps the data invariant. *)
LEMMA DataStep ==
  ASSUME Confined, IndInv, DataInv, [Next]_vars
  PROVE  DataInv'
<1>1. CASE UNCHANGED vars
  BY <1>1 DEF vars, DataInv, Ready, Since
<1>2. CASE Begin
  BY <1>2, BeginData
<1>3. CASE Finish
  BY <1>3, IdleTyped DEF Finish, DataInv
<1> QED
  BY <1>1, <1>2, <1>3, FindStepData, CoalesceStepData, SelectData,
     AllocateLowData, AllocateHighData, HideSplitData, PublishSplitData,
     UnwindSplitData, WriteSingleData, LocateStepData, FreeProcessStepData
     DEF Next, Step

(* DataFollows: the payload of a promised block holds no header. *)
LEMMA DataFollows ==
  ASSUME IndInv, DataInv
  PROVE  DataPreserved
<1> SUFFICES ASSUME frame.pc = "done", ~arena.poisoned, NEW b \in held,
                    NEW s \in Payload(b)
             PROVE  mem[s] = frame.entry[s]
  BY DEF DataPreserved
<1>1. Ready
  BY DEF IndInv, Ready
<1>2. PICK H \in SUBSET (Head .. End - 1) :
        /\ H = Chain(mem) /\ Good(H) /\ TypeInv /\ Tiles(mem, H)
        /\ mem \in [Seg -> Record]
  BY <1>1, Reached
<1>3. Since(H)
  BY <1>1, <1>2 DEF DataInv
<1>4. PICK h \in H : /\ h = b.seg - 1 /\ mem[h].size >= b.size
  BY <1>2 DEF Good, KeptIn
<1>6. h \in Int /\ mem[h].size \in Nat
      /\ NextSegment(h, mem[h]) = h + mem[h].size + 1
      /\ NextSegment(h, mem[h]) <= End
  BY <1>2, ChainTyped DEF Tiles
<1>7. s \in Int /\ h < s /\ s < NextSegment(h, mem[h])
  BY <1>4, <1>2, HeldTyped, <1>6 DEF Payload
<1>8. s \in Seg
  BY SegmentAssumption, <1>6, <1>7 DEF Seg
<1> QED
  BY <1>3, <1>8, <1>2, <1>7, InsideBlock DEF Since

-----------------------------------------------------------------------------
(* The free runs of a tiled memory.                                        *)

(* IsRun(m, H, h, e): the free run that starts with the header h of H ends *)
(* before e.                                                               *)
IsRun(m, H, h, e) ==
  /\ m[h].owner = Free
  /\ \A p \in H : m[p].owner = Free => NextSegment(p, m[p]) # h
  /\ e > h
  /\ e = End \/ (e \in H /\ m[e].owner # Free)
  /\ \A k \in H : h <= k /\ k < e => m[k].owner = Free

RunOf(h, e) == [seg |-> h, size |-> e - h - 1]

(* OneEnd: a run has one end. *)
LEMMA OneEnd ==
  ASSUME NEW m, NEW H \in SUBSET (Head .. End - 1), NEW h \in H,
         NEW d \in H \cup {End}, NEW e \in H \cup {End},
         IsRun(m, H, h, d), IsRun(m, H, h, e)
  PROVE  d = e
<1>2. h \in Int /\ d \in Int /\ e \in Int
  BY SegmentAssumption
<1>3. ~(d < e)
  <2> SUFFICES ASSUME d < e PROVE FALSE
    OBVIOUS
  <2>1. d \in H
    BY <1>2, SegmentAssumption DEF IsRun
  <2> QED
    BY <2>1, <1>2, SegmentAssumption DEF IsRun
<1>4. ~(e < d)
  <2> SUFFICES ASSUME e < d PROVE FALSE
    OBVIOUS
  <2>1. e \in H
    BY <1>2, SegmentAssumption DEF IsRun
  <2> QED
    BY <2>1, <1>2, SegmentAssumption DEF IsRun
<1> QED
  BY <1>2, <1>3, <1>4

(* RunsAre: the free runs, without the choice of their ends. *)
LEMMA RunsAre ==
  ASSUME NEW m \in [Seg -> Record], NEW H \in SUBSET (Head .. End - 1),
         Tiles(m, H)
  PROVE  FreeRuns(m) = {r \in {RunOf(h, e) : h \in H, e \in H \cup {End}} :
                          \E h \in H, e \in H \cup {End} :
                            IsRun(m, H, h, e) /\ r = RunOf(h, e)}
<1> DEFINE free == {h \in H : m[h].owner = Free}
           B == (H \ free) \cup {End}
           first == {h \in free : \A p \in free : NextSegment(p, m[p]) # h}
           stop(h) == CHOOSE e \in B :
                        e > h /\ \A k \in B : k > h => k >= e
<1>2. FreeRuns(m) = {[seg |-> h, size |-> stop(h) - h - 1] : h \in first}
  BY ChainIs DEF FreeRuns
<1>3. ASSUME NEW h \in H
      PROVE  stop(h) \in B /\ stop(h) > h /\ \A k \in B : k > h => k >= stop(h)
  <2> DEFINE A == {e \in B : e > h}
  <2>1. A \in SUBSET Nat /\ End \in A
    <3>1. \A k \in H \cup {End} : k \in Nat
      BY SegmentAssumption
    <3>2. \A e \in B : e \in H \cup {End}
      OBVIOUS
    <3>3. End \in B /\ End > h
      BY SegmentAssumption
    <3> HIDE DEF B
    <3> QED
      BY <3>1, <3>2, <3>3
  <2>2. PICK e \in A : \A k \in A : e <= k
    BY <2>1, LeastOf
  <2>3. e \in B /\ e > h /\ \A k \in B : k > h => k >= e
    BY <2>1, <2>2
  <2> HIDE DEF B, A
  <2> QED
    BY <2>3
<1>4. \A k \in H \cup {End} : k \in Int
  BY SegmentAssumption
<1>5. ASSUME NEW h \in first PROVE IsRun(m, H, h, stop(h))
  <2>1. PICK e \in B : e = stop(h) /\ e > h /\ \A k \in B : k > h => k >= e
    BY <1>3
  <2>2. h \in H /\ m[h].owner = Free
    OBVIOUS
  <2>4. e = End \/ (e \in H /\ m[e].owner # Free)
    OBVIOUS
  <2>5. ASSUME NEW k \in H, h <= k, k < e PROVE m[k].owner = Free
    <3> SUFFICES ASSUME m[k].owner # Free PROVE FALSE
      OBVIOUS
    <3>1. k \in B /\ k # h
      BY <2>2
    <3>2. k \in Int /\ h \in Int /\ e \in Int
      BY <1>4
    <3> HIDE DEF B
    <3> QED
      BY <2>1, <2>5, <3>1, <3>2
  <2> QED
    BY <2>1, <2>2, <2>4, <2>5 DEF IsRun
<1>6. ASSUME NEW h \in first
      PROVE  \E e \in H \cup {End} :
               /\ IsRun(m, H, h, e)
               /\ [seg |-> h, size |-> stop(h) - h - 1] = RunOf(h, e)
  BY <1>3, <1>5 DEF RunOf
<1>7. ASSUME NEW h \in H, NEW e \in H \cup {End}, IsRun(m, H, h, e)
      PROVE  h \in first /\ RunOf(h, e) = [seg |-> h, size |-> stop(h) - h - 1]
  <2>1. h \in first
    BY <1>7 DEF IsRun
  <2>2. stop(h) \in H \cup {End}
    BY <1>3
  <2> HIDE DEF stop
  <2>4. e = stop(h)
    BY <1>7, <2>2, <1>5, <2>1, OneEnd
  <2> QED
    BY <2>1, <2>4 DEF RunOf
<1> HIDE DEF first, stop
<1> QED
  BY <1>2, <1>6, <1>7 DEF first

(* RunsBelow(m, c): the runs that start before c. *)
RunsBelow(m, c) == {r \in FreeRuns(m) : r.seg < c}

(* RunTyped: a run starts at a header and has a size. *)
LEMMA RunTyped ==
  ASSUME NEW m \in [Seg -> Record], NEW H \in SUBSET (Head .. End - 1),
         Tiles(m, H)
  PROVE  \A r \in FreeRuns(m) :
           /\ r.seg \in H /\ r.seg \in Int /\ r.seg < End /\ r.size \in Nat
           /\ m[r.seg].owner = Free
<1> SUFFICES ASSUME NEW r \in FreeRuns(m)
             PROVE  /\ r.seg \in H /\ r.seg \in Int /\ r.seg < End
                    /\ r.size \in Nat /\ m[r.seg].owner = Free
  OBVIOUS
<1>1. PICK h \in H, e \in H \cup {End} : IsRun(m, H, h, e) /\ r = RunOf(h, e)
  BY RunsAre
<1> QED
  BY <1>1, SegmentAssumption DEF RunOf, IsRun

(* NoRunAt: an owned header starts no run. *)
LEMMA NoRunAt ==
  ASSUME NEW m \in [Seg -> Record], NEW H \in SUBSET (Head .. End - 1),
         Tiles(m, H), NEW c \in H, m[c].owner # Free
  PROVE  RunsBelow(m, NextSegment(c, m[c])) = RunsBelow(m, c)
<1>1. PICK n \in Nat : n = NextSegment(c, m[c]) /\ c < n /\ c \in Nat
  BY TileTyped
<1>2. ASSUME NEW r \in FreeRuns(m) PROVE r.seg < n <=> r.seg < c
  BY RunTyped, <1>1 DEF Tiles
<1> QED
  BY <1>1, <1>2 DEF RunsBelow

(* FirstAfter: the header behind an owned one follows no free header. *)
LEMMA FirstAfter ==
  ASSUME NEW m \in [Seg -> Record], NEW H \in SUBSET (Head .. End - 1),
         Tiles(m, H), NEW c \in H, m[c].owner # Free, NEW p \in H,
         m[p].owner = Free
  PROVE  NextSegment(p, m[p]) # NextSegment(c, m[c])
<1>1. PICK n \in Nat : n = NextSegment(c, m[c]) /\ c < n /\ c \in Nat
  BY TileTyped
<1>2. PICK q \in Nat : q = NextSegment(p, m[p]) /\ p < q /\ p \in Nat
  BY TileTyped
<1>4. p # c
  OBVIOUS
<1> QED
  BY <1>1, <1>2, <1>4 DEF Tiles

(* RunAdded: a maximal free run from c to n is the one run that starts     *)
(* there.                                                                  *)
LEMMA RunAdded ==
  ASSUME NEW m \in [Seg -> Record], NEW H \in SUBSET (Head .. End - 1),
         Tiles(m, H), NEW c \in H, NEW n \in H \cup {End}, IsRun(m, H, c, n)
  PROVE  RunsBelow(m, n) = RunsBelow(m, c) \cup {RunOf(c, n)}
<1>1. c \in Int /\ n \in Int /\ c < n /\ c \in Nat
  BY SegmentAssumption DEF IsRun
<1>2. RunOf(c, n).seg = c
  BY DEF RunOf
<1>4. RunOf(c, n) \in RunsBelow(m, n)
  BY <1>1, <1>2, RunsAre DEF RunsBelow
<1>5. ASSUME NEW r \in FreeRuns(m), r.seg < c PROVE r.seg < n
  BY RunTyped, <1>1, <1>5
<1>6. ASSUME NEW r \in FreeRuns(m), r.seg < n, ~(r.seg < c)
      PROVE  r = RunOf(c, n)
  BY RunsAre, SegmentAssumption, OneEnd, <1>1, <1>6, Predecessor DEF RunOf, Tiles, IsRun
<1> QED
  BY <1>4, <1>5, <1>6 DEF RunsBelow

-----------------------------------------------------------------------------
(* The candidates sum the runs up.                                         *)

Fitting(R, n) == {r \in R : r.size >= n}

LargestIn(R, x) ==
  /\ \A r \in R : r.size <= x
  /\ IF R = {} THEN x = 0 ELSE \E r \in R : r.size = x

LowestIn(F, x) == \E r \in F : r.seg = x /\ \A q \in F : r.seg <= q.seg

HighestIn(F, x) == \E r \in F : r.seg = x /\ \A q \in F : r.seg >= q.seg

TightestIn(F, x, z) ==
  \E r \in F :
    /\ r.seg = x /\ r.size = z
    /\ \A q \in F : r.size < q.size \/ (r.size = q.size /\ r.seg <= q.seg)

(* Sums(c, R, n): c are the candidates for n paragraphs among the runs R. *)
Sums(c, R, n) ==
  /\ LargestIn(R, c.maximum)
  /\ c.found <=> Fitting(R, n) # {}
  /\ c.found => /\ LowestIn(Fitting(R, n), c.first)
                /\ TightestIn(Fitting(R, n), c.best, c.bestSize)
                /\ HighestIn(Fitting(R, n), c.last)

Candidate == [found : BOOLEAN, first : Seg, best : Seg, bestSize : Seg,
              last : Seg, maximum : Seg]

Runs(R) == \A r \in R : r.seg \in Int /\ r.size \in Nat

(* TallyFields: the five cases of the bookkeeping. *)
LEMMA TallyFields ==
  ASSUME NEW c \in Candidate, NEW s \in Seg, NEW z \in Seg, NEW n \in Seg
  PROVE  LET t == Tally(c, s, z, n)
         IN  /\ t.maximum = IF z > c.maximum THEN z ELSE c.maximum
             /\ z < n => /\ t.found = c.found /\ t.first = c.first
                         /\ t.best = c.best /\ t.bestSize = c.bestSize
                         /\ t.last = c.last
             /\ ~(z < n) => t.found /\ t.last = s
             /\ ~(z < n) /\ ~c.found =>
                  t.first = s /\ t.best = s /\ t.bestSize = z
             /\ ~(z < n) /\ c.found =>
                  /\ t.first = c.first
                  /\ z < c.bestSize => t.best = s /\ t.bestSize = z
                  /\ ~(z < c.bestSize) =>
                       t.best = c.best /\ t.bestSize = c.bestSize
<1>1. CASE z < n
  BY <1>1 DEF Tally, Candidate
<1>2. CASE ~(z < n) /\ ~c.found
  BY <1>2 DEF Tally, Candidate
<1>3. CASE ~(z < n) /\ c.found
  BY <1>3 DEF Tally, Candidate
<1> QED
  BY <1>1, <1>2, <1>3

(* TallySums: one more run, behind all the others. *)
LEMMA TallySums ==
  ASSUME NEW c \in Candidate, NEW s \in Seg, NEW z \in Seg, NEW n \in Seg,
         NEW R, Runs(R), \A r \in R : r.seg < s, Sums(c, R, n)
  PROVE  Sums(Tally(c, s, z, n), R \cup {[seg |-> s, size |-> z]}, n)
<1>1. PICK t : t = Tally(c, s, z, n)
  OBVIOUS
<1>2. PICK run : run = [seg |-> s, size |-> z]
  OBVIOUS
<1>3. run.seg = s /\ run.size = z
  BY <1>2
<1>4. /\ s \in Int /\ z \in Int /\ n \in Int /\ z \in Nat /\ c.maximum \in Nat
      /\ c.bestSize \in Int /\ c.first \in Int /\ c.best \in Int
      /\ c.last \in Int /\ c.found \in BOOLEAN
  BY DEF Candidate, Seg
<1>5. PICK Q : Q = R \cup {run}
  OBVIOUS
<1>6. PICK F : F = Fitting(R, n)
  OBVIOUS
<1>7. Runs(F) /\ \A r \in F : r.seg < s
  BY <1>6 DEF Runs, Fitting
<1>8. /\ LargestIn(R, c.maximum) /\ (c.found <=> F # {})
      /\ c.found => /\ LowestIn(F, c.first)
                    /\ TightestIn(F, c.best, c.bestSize)
                    /\ HighestIn(F, c.last)
  BY <1>6 DEF Sums
<1>9. LargestIn(Q, t.maximum)
  BY <1>1, TallyFields, <1>8, <1>4, <1>3, <1>5 DEF LargestIn, Runs
<1>10. CASE z < n
  <2>1. Fitting(Q, n) = F
    BY <1>3, <1>4, <1>5, <1>6, <1>10 DEF Fitting
  <2>3. Sums(t, Q, n)
    BY <1>8, <1>9, <2>1, <1>1, <1>10, TallyFields DEF Sums
  <2> QED
    BY <1>1, <1>2, <1>5, <2>3
<1>11. CASE ~(z < n)
  <2>1. Fitting(Q, n) = F \cup {run}
    BY <1>3, <1>4, <1>5, <1>6, <1>11 DEF Fitting
  <2>2. PICK G : G = F \cup {run}
    OBVIOUS
  <2>3. t.found /\ t.last = s
    BY <1>1, <1>11, TallyFields
  <2>4. \A r \in G : r.seg <= s /\ r.seg \in Int /\ r.size \in Nat
    BY <1>3, <1>4, <1>7, <2>2 DEF Runs
  <2>5. HighestIn(G, t.last)
    BY <1>3, <1>4, <2>4, <2>2, <2>3 DEF HighestIn
  <2>6. LowestIn(G, t.first) /\ TightestIn(G, t.best, t.bestSize)
    <3>1. CASE ~c.found
      BY <1>8, <2>2, <3>1, <1>1, <1>11, TallyFields, <1>3, <1>4 DEF LowestIn, TightestIn
    <3>2. CASE c.found
      <4>2. LowestIn(G, t.first)
        BY <1>8, <3>2, <1>3, <2>2, <2>4, <1>1, <1>11, TallyFields DEF LowestIn
      <4>3. PICK r \in F :
              /\ r.seg = c.best /\ r.size = c.bestSize
              /\ \A q \in F : \/ r.size < q.size
                              \/ r.size = q.size /\ r.seg <= q.seg
        BY <1>8, <3>2 DEF TightestIn
      <4>4. r \in G /\ r.size \in Nat
        BY <2>2, <2>4, <4>3
      <4>5. CASE z < c.bestSize
        BY <1>1, <1>11, <3>2, <4>5, TallyFields, <2>2, <2>4, <4>3, <1>3, <1>4, <4>4,
           <4>2 DEF TightestIn
      <4>6. CASE ~(z < c.bestSize)
        <5>3. \A q \in G : r.size < q.size
                           \/ (r.size = q.size /\ r.seg <= q.seg)
          BY <2>2, <4>3, <1>3, <1>4, <2>4, <4>4, <4>6
        <5> QED
          BY <4>2, <4>3, <4>4, <1>1, <1>11, <3>2, <4>6, TallyFields, <5>3 DEF TightestIn
      <4> QED
        BY <4>5, <4>6
    <3> QED
      BY <3>1, <3>2
  <2>7. Sums(t, Q, n)
    BY <1>9, <2>1, <2>2, <2>3, <2>5, <2>6 DEF Sums
  <2> QED
    BY <1>1, <1>2, <1>5, <2>7
<1> QED
  BY <1>10, <1>11

(* PlacementIs: the three candidates are where the three strategies place  *)
(* a block.                                                                *)
LEMMA PlacementIs ==
  ASSUME NEW R, Runs(R), NEW n \in Nat, NEW F, F = Fitting(R, n)
  PROVE  /\ \A x : LowestIn(F, x) => Placement(R, "first", n) = x + 1
         /\ \A x, z : TightestIn(F, x, z) => Placement(R, "best", n) = x + 1
         /\ \A x : HighestIn(F, x) =>
              \E r \in F : /\ r.seg = x
                           /\ Placement(R, "last", n) = r.seg + r.size - n + 1
<1>1. F = {r \in R : r.size >= n}
  BY DEF Fitting
<1>2. \A r \in F : r.seg \in Int /\ r.size \in Nat
  BY <1>1 DEF Runs
<1>3. ASSUME NEW x, LowestIn(F, x) PROVE Placement(R, "first", n) = x + 1
  BY <1>3, <1>2, <1>1 DEF LowestIn, Placement
<1>4. ASSUME NEW x, NEW z, TightestIn(F, x, z)
      PROVE  Placement(R, "best", n) = x + 1
  BY <1>4, <1>2, <1>1 DEF TightestIn, Placement
<1>5. ASSUME NEW x, HighestIn(F, x)
      PROVE  \E r \in F : /\ r.seg = x
                          /\ Placement(R, "last", n) = r.seg + r.size - n + 1
  <2>1. PICK r \in F : r.seg = x /\ \A q \in F : r.seg >= q.seg
    BY <1>5 DEF HighestIn
  <2>2. PICK l : l = CHOOSE a \in F : \A q \in F : a.seg >= q.seg
    OBVIOUS
  <2>3. l \in F /\ \A q \in F : l.seg >= q.seg
    BY <2>1, <2>2
  <2>4. l.seg = r.seg
    BY <1>2, <2>1, <2>3
  <2> QED
    BY <2>1, <2>3, <2>4, <1>1, <2>2 DEF Placement
<1> QED
  BY <1>3, <1>4, <1>5

-----------------------------------------------------------------------------
(* The allocating walk, on the memory as it was when the call began.       *)

(* Joined(R): each of these runs is one block by now. *)
Joined(R) == \A r \in R : mem[r.seg].size = r.size

(* FirstIn(m, H, c): the header before c is not free. *)
FirstIn(m, H, c) == \A p \in H : m[p].owner = Free => NextSegment(p, m[p]) # c

(* Behind(cand, c): the runs before c are coalesced and summed up in cand. *)
Behind(cand, c) ==
  /\ Sums(cand, RunsBelow(frame.entry, c), frame.paras)
  /\ Joined(RunsBelow(frame.entry, c))

(* Merging(E, n): everything from cur to n was free. *)
Merging(E, n) ==
  /\ n \in E \cup {End} /\ frame.cur < n
  /\ \A k \in E : frame.cur <= k /\ k < n => frame.entry[k].owner = Free

(* Chosen(block): this is the block that the strategy asks for. *)
Chosen(block) ==
  /\ Fitting(FreeRuns(frame.entry), frame.paras) # {}
  /\ block = Placement(FreeRuns(frame.entry), arena.strategy, frame.paras)

WalkOf(E) ==
  /\ frame.pc \in {"find", "coalesce"} =>
       /\ frame.cur \in E /\ Behind(frame.cand, frame.cur)
       /\ frame.entry[frame.cur].owner = Free =>
            FirstIn(frame.entry, E, frame.cur)
  /\ frame.pc = "coalesce" => Merging(E, NextSegment(frame.cur, frame.rec))
  /\ frame.pc = "select" => Behind(frame.cand, End)
  /\ frame.pc = "low" => Chosen(frame.cur + 1)
  /\ frame.pc = "high" =>
       Chosen(frame.cur + mem[frame.cur].size - frame.paras + 1)
  /\ frame.pc \in {"hide", "publish", "single"} => Chosen(Granted.seg)

WalkInv ==
  frame.op = "allocate" /\ frame.pc \notin {"idle", "done"} =>
    /\ Tiles(frame.entry, Chain(frame.entry))
    /\ WalkOf(Chain(frame.entry))

(* Walking: where an allocation that walks the chain stands. *)
LEMMA Walking ==
  ASSUME IndInv, DataInv, WalkInv, frame.op = "allocate",
         frame.pc \in {"find", "coalesce", "select", "low", "high", "hide",
                       "publish", "single"}
  PROVE  \E H, E \in SUBSET (Head .. End - 1) :
           /\ H = Chain(mem) /\ Tiles(mem, H) /\ Good(H) /\ Since(H)
           /\ E = Chain(frame.entry) /\ Tiles(frame.entry, E) /\ WalkOf(E)
<1>1. Ready
  BY DEF DataInv
<1>2. PICK H \in SUBSET (Head .. End - 1) :
        H = Chain(mem) /\ Good(H) /\ Tiles(mem, H)
  BY <1>1, Reached
<1>3. Since(H)
  BY <1>1, <1>2 DEF DataInv
<1>4. PICK E \in SUBSET (Head .. End - 1) : E = Chain(frame.entry)
  BY DEF Chain
<1> QED
  BY <1>2, <1>3, <1>4 DEF WalkInv

(* WalkTyped: the types that walk arguments need. *)
LEMMA WalkTyped ==
  ASSUME IndInv
  PROVE  /\ frame \in Frame /\ mem \in [Seg -> Record] /\ TypeInv
         /\ frame.entry \in [Seg -> Record] /\ frame.paras \in Seg
         /\ frame.paras \in Nat /\ frame.cand \in Candidate
         /\ frame.cur \in Seg /\ frame.rec \in Record
         /\ arena.strategy \in Strategies
<1>1. /\ frame \in Frame /\ mem \in [Seg -> Record] /\ TypeInv
      /\ arena.strategy \in Strategies
  BY DEF IndInv, TypeInv, TypeOK
<1> QED
  BY <1>1, SegmentArithmetic DEF Frame, Candidate

(* ReturnWalk: an allocation that fails for another reason than memory     *)
(* says nothing of its placement.                                          *)
LEMMA ReturnWalk ==
  ASSUME NEW status, status \notin {"ok", "nomem"}, NEW maximum, NEW block,
         Return(status, maximum, block)
  PROVE  WalkInv' /\ AllocationPlaced'
<1> QED
  BY ReturnFields DEF WalkInv, AllocationPlaced, Return

(* FailWalk: nor does an early return. *)
LEMMA FailWalk ==
  ASSUME Fail("fault") \/ Fail("damaged") \/ Fail("invalid")
         \/ Fail("mismatch")
  PROVE  WalkInv' /\ AllocationPlaced'
BY ReturnWalk DEF Fail

(* AdvanceWalk: moving to the next header, or to the selection behind the  *)
(* last one.                                                               *)
LEMMA AdvanceWalk ==
  ASSUME IndInv, DataInv, WalkInv, frame.op = "allocate",
         frame.pc \in {"find", "coalesce"}, NEW f \in Frame,
         f.cur = frame.cur, f.op = frame.op, f.entry = frame.entry,
         f.paras = frame.paras, NEW n, n = NextSegment(frame.cur, mem[frame.cur]),
         n \in Chain(frame.entry) \cup {End}, Behind(f.cand, n),
         n \in Chain(frame.entry) /\ frame.entry[n].owner = Free =>
           FirstIn(frame.entry, Chain(frame.entry), n),
         FindAdvance(f, mem[frame.cur]), mem' = mem, arena' = arena
  PROVE  WalkInv' /\ AllocationPlaced'
<1>1. PICK H, E \in SUBSET (Head .. End - 1) :
        /\ H = Chain(mem) /\ Tiles(mem, H) /\ Good(H)
        /\ E = Chain(frame.entry) /\ Tiles(frame.entry, E)
  BY Walking
<1>2. frame.cur \in H
  BY <1>1 DEF Good, FrameOf
<1>3. CASE mem[frame.cur].sig = "Z"
  BY <1>1, <1>2, <1>3
  DEF Tiles, FindAdvance, Frame, Behind, Joined, WalkOf, WalkInv, AllocationPlaced,
      Merging, Chosen, Granted
<1>4. CASE mem[frame.cur].sig # "Z"
  <2>2. n \in Int /\ n < End /\ ~(n > Top)
    BY <1>1, <1>2, <1>4, SegmentAssumption DEF Tiles, ValidSignature
  <2>3. n \in E
    BY <1>1, <2>2, SegmentAssumption
  <2>4. frame' = [f EXCEPT !.pc = "find", !.cur = n]
    BY <1>4, <2>2 DEF FindAdvance
  <2>5. /\ frame'.pc = "find" /\ frame'.cand = f.cand /\ frame'.cur = n
        /\ frame'.entry = frame.entry /\ frame'.paras = frame.paras
    BY <2>4 DEF Frame
  <2>7. WalkOf(E)'
    BY <1>1, <2>3, <2>5 DEF WalkOf, Behind, Joined
  <2> QED
    BY <1>1, <2>5, <2>7 DEF WalkInv, AllocationPlaced, WalkOf, Behind, Joined,
       Merging, Chosen, Granted
<1> QED
  BY <1>3, <1>4

(* FindStepWalk: one iteration of find_candidates. *)
LEMMA FindStepWalk ==
  ASSUME IndInv, DataInv, WalkInv, frame.op = "allocate", FindStep
  PROVE  WalkInv' /\ AllocationPlaced'
<1>1. /\ frame.pc = "find" /\ frame \in Frame /\ mem \in [Seg -> Record]
      /\ frame.entry \in [Seg -> Record] /\ frame.cur \in Seg
  BY WalkTyped DEF FindStep
<1>2. PICK H, E \in SUBSET (Head .. End - 1) :
        /\ H = Chain(mem) /\ Tiles(mem, H) /\ Good(H) /\ Since(H)
        /\ E = Chain(frame.entry) /\ Tiles(frame.entry, E) /\ WalkOf(E)
  BY <1>1, Walking
<1>3. /\ frame.cur \in E /\ Behind(frame.cand, frame.cur)
      /\ frame.entry[frame.cur].owner = Free =>
           FirstIn(frame.entry, E, frame.cur)
  BY <1>1, <1>2 DEF WalkOf
<1>4. mem[frame.cur] = frame.entry[frame.cur]
  BY <1>1, <1>2 DEF Seg, Since
<1>5. PICK n \in Nat : n = NextSegment(frame.cur, mem[frame.cur])
                       /\ frame.cur < n /\ frame.cur \in Nat
  BY <1>1, <1>2, <1>3, <1>4, TileTyped
<1>6. n \in E \cup {End}
  BY <1>2, <1>3, <1>4, <1>5 DEF Tiles, ValidSignature
<1>7. CASE Fail("fault") \/ Fail("damaged")
  BY <1>7, FailWalk
<1>8. CASE /\ mem[frame.cur].owner = Free
           /\ frame' = [frame EXCEPT !.pc = "coalesce",
                                     !.rec = mem[frame.cur]]
           /\ UNCHANGED <<mem, arena, held>>
  BY <1>1, <1>8, <1>2, <1>3, <1>4, <1>5, <1>6
  DEF Frame, Tiles, Merging, Behind, Joined, WalkOf, WalkInv, AllocationPlaced, Chosen,
      Granted
<1>9. CASE /\ mem[frame.cur].owner # Free
           /\ FindAdvance(frame, mem[frame.cur])
           /\ UNCHANGED <<mem, arena, held>>
  BY <1>1, <1>2, <1>3, <1>4, <1>5, <1>9, NoRunAt, FirstAfter, <1>6, AdvanceWalk
  DEF Behind, FirstIn
<1> QED
  BY <1>7, <1>8, <1>9 DEF FindStep

(* CoalescedWalk: a maximal run is summed up. *)
LEMMA CoalescedWalk ==
  ASSUME IndInv, DataInv, WalkInv, frame.op = "allocate",
         frame.pc = "coalesce", Coalesced,
         LET n == NextSegment(frame.cur, frame.rec)
         IN  frame.rec.sig = "Z" \/ (n <= Top /\ mem[n].owner # Free)
  PROVE  WalkInv' /\ AllocationPlaced'
<1>1. /\ frame \in Frame /\ mem \in [Seg -> Record]
      /\ frame.entry \in [Seg -> Record] /\ frame.cur \in Seg
      /\ frame.cand \in Candidate /\ frame.paras \in Seg
      /\ frame.rec \in Record
  BY WalkTyped
<1>2. PICK H, E \in SUBSET (Head .. End - 1) :
        /\ H = Chain(mem) /\ Tiles(mem, H) /\ Good(H) /\ Since(H)
        /\ E = Chain(frame.entry) /\ Tiles(frame.entry, E) /\ WalkOf(E)
  BY Walking
<1>3. /\ frame.cur \in H /\ frame.rec = mem[frame.cur] /\ frame.cur \in E
      /\ Behind(frame.cand, frame.cur)
      /\ frame.entry[frame.cur].owner = Free =>
           FirstIn(frame.entry, E, frame.cur)
      /\ Merging(E, NextSegment(frame.cur, frame.rec))
  BY <1>2 DEF WalkOf, Good, FrameOf
<1>4. PICK n \in Nat :
        /\ n = NextSegment(frame.cur, frame.rec) /\ frame.cur < n
        /\ frame.cur \in Nat /\ n = frame.cur + frame.rec.size + 1
        /\ frame.rec.size \in Nat
  BY <1>1, <1>2, <1>3, TileTyped
<1>5. PICK c \in E : c = frame.cur
  BY <1>3
<1>6. n \in E \cup {End}
  BY <1>3, <1>4 DEF Merging
<1>7. n = End \/ (n \in E /\ frame.entry[n].owner # Free)
  <2>1. CASE frame.rec.sig = "Z"
    BY <1>2, <1>3, <1>4, <2>1 DEF Tiles
  <2>2. CASE n <= Top /\ mem[n].owner # Free
    BY <1>4, <2>2, <1>2, <1>6 DEF Seg, Since
  <2> QED
    BY <1>4, <2>1, <2>2
<1>9. RunsBelow(frame.entry, n) =
        RunsBelow(frame.entry, c) \cup {RunOf(c, n)}
  BY <1>1, <1>2, <1>6, <1>3, <1>4, <1>5, <1>7, RunAdded DEF Merging, IsRun, FirstIn
<1>10. RunOf(c, n) = [seg |-> frame.cur, size |-> frame.rec.size]
  BY <1>4, <1>5 DEF RunOf
<1>11. PICK t : t = Tally(frame.cand, frame.cur, frame.rec.size, frame.paras)
  OBVIOUS
<1>12. Behind(t, n)
  <2>1. PICK R : R = RunsBelow(frame.entry, frame.cur)
    OBVIOUS
  <2>3. frame.rec.size \in Seg
    BY <1>1, RecordFields
  <2>4. Sums(t, RunsBelow(frame.entry, n), frame.paras)
    BY <1>1, <1>3, <1>5, <1>9, <1>10, <1>11, <2>1, <1>2, RunTyped, <2>3, TallySums
    DEF Behind, Runs, RunsBelow
  <2> QED
    BY <2>4, <1>3, <1>10, <1>5, <1>9 DEF Behind, Joined
<1>13. PICK f : f = [frame EXCEPT !.cand = t]
  OBVIOUS
<1>14. f \in Frame
  BY <1>1, <1>11, <1>13, TallyTyped
<1>16. FindAdvance(f, mem[frame.cur]) /\ mem' = mem /\ arena' = arena
  BY <1>3, <1>11, <1>13 DEF Coalesced
<1>17. n \in E /\ frame.entry[n].owner = Free => FirstIn(frame.entry, E, n)
  BY <1>7, <1>6, SegmentAssumption
<1> QED
  BY <1>2, <1>3, <1>4, <1>6, <1>12, <1>14, <1>1, <1>13, <1>16, <1>17, AdvanceWalk
  DEF Frame

(* CoalesceStepWalk: a merge takes the next free header into the run. *)
LEMMA CoalesceStepWalk ==
  ASSUME IndInv, DataInv, WalkInv, frame.op = "allocate", CoalesceStep
  PROVE  WalkInv' /\ AllocationPlaced'
<1>0. frame.pc = "coalesce"
  BY DEF CoalesceStep
<1>1. /\ frame \in Frame /\ mem \in [Seg -> Record]
      /\ frame.entry \in [Seg -> Record] /\ frame.cur \in Seg
      /\ frame.rec \in Record
  BY WalkTyped
<1>2. PICK H, E \in SUBSET (Head .. End - 1) :
        /\ H = Chain(mem) /\ Tiles(mem, H) /\ Good(H) /\ Since(H)
        /\ E = Chain(frame.entry) /\ Tiles(frame.entry, E) /\ WalkOf(E)
  BY <1>0, Walking
<1>3. /\ frame.cur \in H /\ frame.rec = mem[frame.cur] /\ frame.cur \in E
      /\ Behind(frame.cand, frame.cur)
      /\ frame.entry[frame.cur].owner = Free =>
           FirstIn(frame.entry, E, frame.cur)
      /\ Merging(E, NextSegment(frame.cur, frame.rec))
  BY <1>0, <1>2 DEF WalkOf, Good, FrameOf
<1>4. PICK n \in Nat :
        /\ n = NextSegment(frame.cur, frame.rec) /\ frame.cur < n
        /\ frame.cur \in Nat /\ n = frame.cur + frame.rec.size + 1
        /\ frame.rec.size \in Nat
  BY <1>1, <1>2, <1>3, TileTyped
<1>5. CASE Fail("fault") \/ Fail("damaged")
  BY <1>5, FailWalk
<1>6. CASE Coalesced /\ (frame.rec.sig = "Z"
                         \/ (n <= Top /\ mem[n].owner # Free))
  BY <1>0, <1>4, <1>6, CoalescedWalk
<1>7. ASSUME frame.rec.sig # "Z", n <= Top, mem[n].owner = Free,
             NEW w \in Outcomes,
             Replace(frame.cur, Merged(frame.rec, mem[n]), w), PoisonedBy(w),
             CASE w = "ok"    -> /\ frame' = [frame EXCEPT
                                         !.rec = Merged(frame.rec, mem[n])]
               [] w = "fault" -> Return("fault", 0, 0)
               [] w = "torn"  -> Return("poisoned", 0, 0)
      PROVE  WalkInv' /\ AllocationPlaced'
  <2>1. CASE w = "ok"
    <3>1. mem' = [mem EXCEPT ![frame.cur] = Merged(frame.rec, mem[n])]
      BY <1>7, <2>1 DEF Replace
    <3>2. /\ frame'.pc = "coalesce" /\ frame'.cur = frame.cur
          /\ frame'.rec = Merged(frame.rec, mem[n])
          /\ frame'.cand = frame.cand /\ frame'.entry = frame.entry
          /\ frame'.paras = frame.paras
      BY <1>0, <1>1, <1>7, <2>1 DEF Frame
    <3>3. n \in E
      BY <1>2, <1>3, <1>4, <1>7, SegmentAssumption DEF Tiles, ValidSignature, Merging
    <3>4. n \in Seg /\ mem[n] = frame.entry[n]
      BY <1>4, <1>7, <1>0, <1>2 DEF Seg, Since
    <3>5. PICK x \in Nat :
            /\ x = NextSegment(n, frame.entry[n]) /\ n < x
            /\ x = n + mem[n].size + 1 /\ mem[n].size \in Nat
      BY <1>1, <1>2, <3>3, <3>4, TileTyped
    <3>6. NextSegment(frame'.cur, frame'.rec) = x
      <4>1. frame'.rec.size = frame.rec.size + mem[n].size + 1
        BY <1>1, <3>2, <3>4 DEF Merged, Record
      <4> QED
        BY <1>4, <3>2, <3>5, <4>1 DEF NextSegment
    <3>8. ASSUME NEW k \in E, frame.cur <= k, k < x
          PROVE  frame.entry[k].owner = Free
      <4>2. k \in Nat
        BY SegmentAssumption
      <4>3. k < n \/ k = n
        BY <1>4, <3>5, <3>8, <1>2, <3>3, <4>2 DEF Tiles
      <4> QED
        BY <1>7, <3>4, <4>3, <1>3, <1>4, <3>8 DEF Merging
    <3>9. frame.cur < x
      BY <1>4, <3>5
    <3>10. Merging(E, x)'
      BY <3>2, <1>2, <3>3, <3>5, <3>8, <3>9 DEF Merging, Tiles, ValidSignature
    <3>11. Joined(RunsBelow(frame.entry, frame.cur))'
      <4> SUFFICES ASSUME NEW r \in RunsBelow(frame.entry, frame.cur)
                   PROVE  mem'[r.seg].size = r.size
        BY <3>2 DEF Joined
      <4>2. r.seg \in Seg /\ r.seg # frame.cur
        BY <1>4, <1>1, <1>2, RunTyped, SegmentArithmetic DEF RunsBelow
      <4> QED
        BY <1>3, <1>1, <3>1, <4>2 DEF Behind, Joined
    <3>12. Behind(frame.cand, frame.cur)'
      BY <1>3, <3>2, <3>11 DEF Behind, Joined
    <3>14. WalkOf(E)'
      BY <1>3, <3>2, <3>6, <3>10, <3>12 DEF WalkOf, Merging
    <3> QED
      BY <1>2, <3>2, <3>14 DEF WalkInv, AllocationPlaced, WalkOf, Behind,
         Joined, Merging, Chosen, Granted
  <2>2. CASE w # "ok"
    BY <1>7, <2>2, ReturnWalk DEF Outcomes
  <2> QED
    BY <2>1, <2>2
<1> QED
  BY <1>4, <1>5, <1>6, <1>7 DEF CoalesceStep

(* SelectWalk: out of memory is reported only when no run fits, and the    *)
(* candidate taken is the one the strategy names.                          *)
LEMMA SelectWalk ==
  ASSUME IndInv, DataInv, WalkInv, frame.op = "allocate", Select
  PROVE  WalkInv' /\ AllocationPlaced'
<1>0. frame.pc = "select" /\ mem' = mem /\ arena' = arena
  BY DEF Select
<1>1. /\ frame \in Frame /\ frame.entry \in [Seg -> Record]
      /\ frame.paras \in Nat /\ frame.cand \in Candidate
      /\ arena.strategy \in Strategies /\ frame.paras \in Seg
  BY WalkTyped
<1>2. PICK H, E \in SUBSET (Head .. End - 1) :
        /\ E = Chain(frame.entry) /\ Tiles(frame.entry, E) /\ WalkOf(E)
  BY <1>0, Walking
<1>3. PICK R : R = FreeRuns(frame.entry)
  OBVIOUS
<1>4. Runs(R) /\ \A r \in R : r.seg < End
  BY <1>1, <1>2, <1>3, RunTyped DEF Runs
<1>6. Sums(frame.cand, R, frame.paras) /\ Joined(R)
  BY <1>0, <1>2, <1>3, <1>4 DEF WalkOf, Behind, RunsBelow
<1>7. PICK F : F = Fitting(R, frame.paras)
  OBVIOUS
<1>8. CASE ~frame.cand.found
  BY <1>0, <1>8, ReturnFields, <1>6, <1>3
  DEF Select, Bx, Return, Sums, Fitting, LargestIn, WalkInv, AllocationPlaced
<1>9. CASE frame.cand.found
  <2>1. /\ F # {} /\ LowestIn(F, frame.cand.first)
        /\ TightestIn(F, frame.cand.best, frame.cand.bestSize)
        /\ HighestIn(F, frame.cand.last)
    BY <1>6, <1>7, <1>9 DEF Sums
  <2>2. PICK c : c = CASE arena.strategy = "first" -> frame.cand.first
                       [] arena.strategy = "best"  -> frame.cand.best
                       [] arena.strategy = "last"  -> frame.cand.last
    OBVIOUS
  <2>3. PICK p : p = IF arena.strategy = "last" THEN "high" ELSE "low"
    OBVIOUS
  <2>5. /\ frame'.pc = p /\ frame'.cur = c /\ frame'.entry = frame.entry
        /\ frame'.paras = frame.paras
    BY <1>1, <1>9, <2>2, <2>3 DEF Frame, Select
  <2>6. CASE arena.strategy \in {"first", "best"}
    BY <1>1, <1>4, <1>7, <2>1, <2>2, <2>3, PlacementIs, <2>6, <1>0, <1>3, <2>5, <1>2
    DEF Chosen, WalkOf, WalkInv, AllocationPlaced, Behind, Joined, Merging, Granted
  <2>7. CASE arena.strategy = "last"
    BY <2>2, <2>3, <2>7, <1>1, <1>4, <1>7, <2>1, PlacementIs, <1>6, <1>0, <1>3, <2>5,
       <1>2
    DEF Fitting, Joined, Chosen, WalkOf, WalkInv, AllocationPlaced, Behind, Merging,
        Granted
  <2> QED
    BY <1>1, <2>6, <2>7 DEF Strategies
<1> QED
  BY <1>8, <1>9

(* CutWalk: an allocation that goes on to write its headers has chosen its *)
(* block.                                                                  *)
LEMMA CutWalk ==
  ASSUME WalkInv, frame.op = "allocate", frame.pc \notin {"idle", "done"},
         frame'.op = "allocate", frame'.pc \in {"hide", "publish", "single"},
         frame'.entry = frame.entry, frame'.paras = frame.paras,
         arena'.strategy = arena.strategy, Chosen(Granted'.seg)
  PROVE  WalkInv' /\ AllocationPlaced'
<1>1. PICK E : E = Chain(frame.entry) /\ Tiles(frame.entry, E)
  BY DEF WalkInv
<1>3. WalkOf(E)'
  BY DEF WalkOf, Chosen
<1> QED
  BY <1>3, <1>1
  DEF WalkInv, AllocationPlaced, WalkOf, Behind, Joined, Merging, Chosen, Granted

(* TakeWholeWalk: the whole of the chosen block. *)
LEMMA TakeWholeWalk ==
  ASSUME IndInv, DataInv, WalkInv, frame.op = "allocate",
         frame.pc \in {"low", "high"}, TakeWhole(mem[frame.cur]),
         frame.paras = mem[frame.cur].size, UNCHANGED <<mem, arena, held>>
  PROVE  WalkInv' /\ AllocationPlaced'
<1>1. frame \in Frame /\ frame.paras \in Nat /\ frame.cur \in Seg
  BY WalkTyped
<1>2. PICK H, E \in SUBSET (Head .. End - 1) : Good(H) /\ WalkOf(E)
  BY Walking
<1>3. frame.cur \in H /\ frame.splitAfter.owner = Free
  BY <1>2 DEF Good, FrameOf
<1>4. frame.cur \in Nat /\ BlockOf(frame.cur) = frame.cur + 1
  BY <1>3, SegmentArithmetic
<1>5. Chosen(frame.cur + 1)
  BY <1>1, <1>4, <1>2 DEF WalkOf
<1>6. /\ frame'.pc = "single" /\ frame'.op = frame.op
      /\ frame'.cur = frame.cur /\ frame'.splitAfter = frame.splitAfter
      /\ frame'.entry = frame.entry /\ frame'.paras = frame.paras
  BY <1>1 DEF TakeWhole, Frame
<1> QED
  BY <1>5, <1>6, <1>3, <1>4, CutWalk DEF Granted

(* AllocateLowWalk: first and best fit cut the low end off.               *)
LEMMA AllocateLowWalk ==
  ASSUME IndInv, DataInv, WalkInv, frame.op = "allocate", AllocateLow
  PROVE  WalkInv' /\ AllocationPlaced'
<1> DEFINE r == mem[frame.cur]
           a == [sig |-> "M", owner |-> frame.owner, size |-> frame.paras]
           s == frame.cur + frame.paras + 1
           x == [sig |-> r.sig, owner |-> Free,
                  size |-> Remainder(r, frame.paras)]
<1>0. frame.pc = "low" /\ frame \in Frame
  BY WalkTyped DEF AllocateLow
<1>1. CASE Fail("fault") \/ Fail("damaged")
  BY <1>1, FailWalk
<1>2. CASE /\ TakeWhole(r) /\ frame.paras = r.size
           /\ UNCHANGED <<mem, arena, held>>
  BY <1>0, <1>2, TakeWholeWalk
<1>3. CASE /\ frame' = [frame EXCEPT !.pc = "hide", !.after = a,
                           !.splitSeg = s, !.splitBefore = mem[s],
                           !.splitAfter = x]
           /\ UNCHANGED <<mem, arena, held>>
  BY <1>0, Walking, SegmentArithmetic, <1>3, CutWalk
  DEF Good, FrameOf, WalkOf, Frame, Granted
<1> QED
  BY <1>1, <1>2, <1>3 DEF AllocateLow

(* AllocateHighWalk: last fit cuts the high end off. *)
LEMMA AllocateHighWalk ==
  ASSUME IndInv, DataInv, WalkInv, frame.op = "allocate", AllocateHigh
  PROVE  WalkInv' /\ AllocationPlaced'
<1> DEFINE r == mem[frame.cur]
           a == [sig |-> "M", owner |-> Free,
                  size |-> Remainder(r, frame.paras)]
           s == frame.cur + (r.size - frame.paras)
           x == [sig |-> r.sig, owner |-> frame.owner, size |-> frame.paras]
<1>0. /\ frame.pc = "high" /\ frame \in Frame /\ frame.paras \in Nat
      /\ TypeInv /\ frame.owner # Free
  BY WalkTyped, OwnerAssumption DEF AllocateHigh, TypeInv, Control
<1>1. CASE Fail("fault") \/ Fail("damaged")
  BY <1>1, FailWalk
<1>2. CASE /\ TakeWhole(r) /\ frame.paras = r.size
           /\ UNCHANGED <<mem, arena, held>>
  BY <1>0, <1>2, TakeWholeWalk
<1>3. CASE /\ frame.paras < r.size
           /\ frame' = [frame EXCEPT !.pc = "hide", !.after = a,
                           !.splitSeg = s, !.splitBefore = mem[s],
                           !.splitAfter = x]
           /\ UNCHANGED <<mem, arena, held>>
  <2>1. PICK H, E \in SUBSET (Head .. End - 1) :
          Good(H) /\ WalkOf(E) /\ Tiles(mem, H)
    BY <1>0, Walking
  <2>2. /\ frame.cur \in H
        /\ Chosen(frame.cur + r.size - frame.paras + 1)
    BY <1>0, <2>1 DEF Good, FrameOf, WalkOf
  <2>4. NextSegment(frame.cur, r) <= End /\ frame.cur >= Head
    <3>1. frame.cur \in Head .. End - 1
      BY <2>2
    <3> QED
      BY <3>1, <2>1, <2>2, SegmentAssumption DEF Tiles
  <2>5. s \in Head .. End - 1 /\ s + 1 = frame.cur + r.size - frame.paras + 1
    BY <1>0, <1>3, <2>2, ChainTyped, <2>4, SegmentAssumption
  <2> HIDE DEF s
  <2>7. /\ frame'.pc = "hide" /\ frame'.op = frame.op
        /\ frame'.splitSeg = s /\ frame'.splitAfter.owner = frame.owner
        /\ frame'.entry = frame.entry /\ frame'.paras = frame.paras
    BY <1>0, <1>3 DEF Frame
  <2>8. Granted'.seg = s + 1
    BY <1>0, <2>5, SegmentArithmetic, <2>7 DEF Granted
  <2> QED
    BY <1>0, <1>3, <2>2, <2>5, <2>7, <2>8, CutWalk
<1> QED
  BY <1>1, <1>2, <1>3 DEF AllocateHigh

(* GrantWalk: the block handed out is the one chosen. *)
LEMMA GrantWalk ==
  ASSUME frame.op = "allocate", Chosen(Granted.seg), Grant,
         arena'.strategy = arena.strategy
  PROVE  WalkInv' /\ AllocationPlaced'
<1> QED
  BY ReturnFields DEF WalkInv, AllocationPlaced, Chosen, Fitting, Grant, Return

(* WriteWalk: the header writes of an allocation. *)
LEMMA WriteWalk ==
  ASSUME IndInv, DataInv, WalkInv, frame.op = "allocate",
         HideSplit \/ PublishSplit \/ WriteSingle
  PROVE  WalkInv' /\ AllocationPlaced'
<1>0. frame.pc \in {"hide", "publish", "single"} /\ frame \in Frame
  BY WalkTyped DEF HideSplit, PublishSplit, WriteSingle
<1>1. Chosen(Granted.seg)
  BY <1>0, Walking DEF WalkOf
<1>2. \A w \in Outcomes : PoisonedBy(w) => arena'.strategy = arena.strategy
  BY DEF PoisonedBy, IndInv, TypeInv, TypeOK
<1>3. CASE HideSplit
  <2>1. PICK w \in Outcomes :
          /\ PoisonedBy(w)
          /\ CASE w = "ok"    -> /\ frame' = [frame EXCEPT !.pc = "publish"]
               [] w = "fault" -> Return("fault", Bx, 0)
               [] w = "torn"  -> Return("poisoned", Bx, 0)
    BY <1>3 DEF HideSplit
  <2>2. CASE frame' = [frame EXCEPT !.pc = "publish"]
    BY <1>0, <2>2, <1>1, <1>2, <2>1, CutWalk DEF Frame, Granted
  <2>3. CASE Return("fault", Bx, 0) \/ Return("poisoned", Bx, 0)
    BY <2>3, ReturnWalk
  <2> QED
    BY <2>1, <2>2, <2>3 DEF Outcomes
<1>4. CASE PublishSplit
  BY <1>4, <1>1, <1>2, GrantWalk, <1>0
  DEF PublishSplit, Frame, WalkInv, WalkOf, AllocationPlaced
<1>5. CASE WriteSingle
  BY <1>5, <1>1, <1>2, GrantWalk, ReturnWalk DEF WriteSingle, Outcomes
<1> QED
  BY <1>3, <1>4, <1>5

(* StepOperation: a step of a call is a step of the same call. *)
LEMMA StepOperation ==
  ASSUME TypeInv, Step, ~Finish
  PROVE  frame'.op = frame.op
<1>1. frame \in Frame
  BY DEF TypeInv, TypeOK
<1>2. ASSUME NEW status, NEW maximum, NEW block,
             Return(status, maximum, block)
      PROVE  frame'.op = frame.op
  BY <1>2, ReturnFields DEF Return
<1>3. ASSUME NEW status, Fail(status) \/ ProcessFail(status)
      PROVE  frame'.op = frame.op
  BY <1>2, <1>3 DEF Fail, ProcessFail
<1>4. ASSUME NEW f \in Frame, NEW r, f.op = frame.op, FindAdvance(f, r)
      PROVE  frame'.op = frame.op
  BY <1>2, <1>4 DEF FindAdvance, Frame
<1>5. ASSUME Coalesced PROVE frame'.op = frame.op
  <2> DEFINE f == [frame EXCEPT !.cand = Tally(frame.cand, frame.cur,
                                        frame.rec.size, frame.paras)]
  <2>2. FindAdvance(f, frame.rec) => frame'.op = frame.op
    BY <1>4, <1>1, TallyTyped DEF Frame
  <2> HIDE DEF f
  <2> QED
    BY <1>1, <1>2, <1>5, <2>2 DEF Coalesced, Frame, f
<1>6. ASSUME Grant PROVE frame'.op = frame.op
  BY <1>2, <1>6 DEF Grant
<1>7. ASSUME NEW r, ProcessAdvance(r) PROVE frame'.op = frame.op
  BY <1>1, <1>2, <1>7 DEF ProcessAdvance, Frame
<1>8. CASE FindStep
  BY <1>1, <1>3, <1>4, <1>8 DEF FindStep, Frame
<1>9. CASE CoalesceStep
  BY <1>1, <1>2, <1>3, <1>5, <1>9 DEF CoalesceStep, Frame, Outcomes
<1>10. CASE Select
  BY <1>1, <1>2, <1>10 DEF Select, Frame
<1>11. CASE AllocateLow
  BY <1>1, <1>3, <1>11 DEF AllocateLow, TakeWhole, Frame
<1>12. CASE AllocateHigh
  BY <1>1, <1>3, <1>12 DEF AllocateHigh, TakeWhole, Frame
<1>13. CASE HideSplit
  BY <1>1, <1>2, <1>13 DEF HideSplit, Frame, Outcomes
<1>14. CASE PublishSplit
  BY <1>1, <1>6, <1>14 DEF PublishSplit, Frame
<1>15. CASE UnwindSplit
  BY <1>2, <1>15 DEF UnwindSplit
<1>16. CASE WriteSingle
  BY <1>16, <1>2, <1>6 DEF WriteSingle, TypeInv, Control, Outcomes
<1>17. CASE LocateStep
  BY <1>1, <1>3, <1>17 DEF LocateStep, Frame
<1>18. CASE FreeProcessStep
  BY <1>2, <1>3, <1>7, <1>18 DEF FreeProcessStep
<1> QED
  BY <1>8, <1>9, <1>10, <1>11, <1>12, <1>13, <1>14, <1>15, <1>16, <1>17,
     <1>18 DEF Step

(* The second layer of the inductive invariant: what the call in progress  *)
(* has done, and what the returned one promises.                           *)
CallInv == DataInv /\ WalkInv /\ AllocationPlaced /\ ProcessReleased

(* PlacedStep: every step keeps the walk and the placement. *)
LEMMA PlacedStep ==
  ASSUME Confined, IndInv, CallInv, [Next]_vars
  PROVE  WalkInv' /\ AllocationPlaced'
<1>1. DataInv /\ WalkInv /\ AllocationPlaced /\ TypeInv
  BY DEF CallInv, IndInv
<1>2. CASE UNCHANGED vars
  BY <1>1, <1>2 DEF vars, WalkInv, AllocationPlaced, WalkOf, Behind, Joined,
     Merging, Chosen, Granted
<1>3. CASE Finish
  BY <1>3, IdleTyped DEF Finish, WalkInv, AllocationPlaced
<1>4. CASE Step /\ ~Finish /\ frame.op # "allocate"
  BY <1>1, <1>4, StepOperation DEF WalkInv, AllocationPlaced
<1>5. CASE Step /\ ~Finish /\ frame.op = "allocate"
  BY ReturnWalk, <1>1, <1>5, FindStepWalk, CoalesceStepWalk, SelectWalk,
     AllocateLowWalk, AllocateHighWalk, WriteWalk
  DEF UnwindSplit, LocateStep, FreeProcessStep, TypeInv, Control, Step
<1>6. CASE Begin
  <2>1. CASE frame' = frame
    BY <1>6, BeginEntry, <2>1 DEF WalkInv, AllocationPlaced
  <2>2. CASE frame'.op # "allocate"
    BY <2>2 DEF WalkInv, AllocationPlaced
  <2>3. CASE /\ Ready /\ mem' = mem /\ frame'.entry = mem
             /\ frame'.pc = "find" /\ frame'.cur = arena.head
             /\ frame'.cand = NoCandidates
    <3>1. PICK H \in SUBSET (Head .. End - 1) :
            H = Chain(mem) /\ Tiles(mem, H) /\ mem \in [Seg -> Record]
      BY <2>3, Reached
    <3>4. Behind(frame.cand, Head)'
      BY <2>3, <3>1, RunTyped, SegmentAssumption
      DEF Behind, Joined, Sums, LargestIn, Fitting, NoCandidates, RunsBelow
    <3>5. FirstIn(mem, H, Head)
      <4> SUFFICES ASSUME NEW p \in H PROVE NextSegment(p, mem[p]) # Head
        BY DEF FirstIn
      <4>1. p \in Nat /\ p >= Head
        BY SegmentAssumption
      <4> QED
        BY <4>1, <3>1, TileTyped, SegmentAssumption
    <3>6. WalkOf(H)'
      BY <2>3, <3>1, <3>4, <3>5 DEF WalkOf, Behind, Joined, IndInv, Ready, Tiles
    <3> QED
      BY <2>3, <3>6, <3>1
      DEF WalkInv, AllocationPlaced, WalkOf, Behind, Joined, Merging, Chosen, Granted
  <2> QED
    BY <1>6, <2>1, <2>2, <2>3, BeginEntry
<1> QED
  BY <1>2, <1>3, <1>4, <1>5, <1>6 DEF Next

(* ReleasedStep: every step keeps what a process teardown promises. *)
LEMMA ReleasedStep ==
  ASSUME Confined, IndInv, CallInv, [Next]_vars
  PROVE  ProcessReleased'
<1>1. DataInv /\ ProcessReleased /\ TypeInv
  BY DEF CallInv, IndInv
<1>2. CASE UNCHANGED vars
  BY <1>1, <1>2 DEF vars, ProcessReleased
<1>3. CASE Finish
  BY <1>3, IdleTyped DEF Finish, ProcessReleased
<1>4. CASE FreeProcessStep
  BY <1>1, <1>4, FreeProcessStepData
<1>5. CASE Step /\ ~Finish /\ ~FreeProcessStep
  BY <1>1, <1>5, StepOperation
  DEF Step, FindStep, CoalesceStep, Select, AllocateLow, AllocateHigh, HideSplit,
      PublishSplit, UnwindSplit, WriteSingle, LocateStep, TypeInv, Control,
      ProcessReleased
<1>6. CASE Begin
  BY <1>6, BeginEntry DEF ProcessReleased
<1> QED
  BY <1>2, <1>3, <1>4, <1>5, <1>6 DEF Next

(* CallInit: before the first call nothing was done or promised. *)
LEMMA CallInit == Init => CallInv
<1> SUFFICES ASSUME Init PROVE CallInv
  OBVIOUS
<1> QED
  BY IdleTyped DEF CallInv, DataInv, WalkInv, AllocationPlaced, ProcessReleased, Init

(* Exact: for every arena, every strategy and every interleaving of        *)
(* faulting, repaired or torn header writes, a returned call has kept the  *)
(* data of every block still promised; an allocation has handed out the    *)
(* block that first, best or last fit names on the memory it began with,   *)
(* or reported the largest run because none fits; and a process teardown   *)
(* that reports success has left the process no block.                     *)
THEOREM Exact == Confined => (Spec => []CallsExact)
<1> SUFFICES ASSUME Confined PROVE Spec => []CallsExact
  OBVIOUS
<1> DEFINE Inv == IndInv /\ CallInv
<1>1. Init => Inv
  BY InductiveInit, CallInit
<1>2. Inv /\ [Next]_vars => Inv'
  BY InductiveStep, DataStep, PlacedStep, ReleasedStep DEF CallInv
<1>3. Inv => CallsExact
  BY DataFollows DEF CallInv, CallsExact
<1> QED
  BY <1>1, <1>2, <1>3, PTL DEF Spec
=============================================================================
