---------------------------- MODULE ExtendedStore ----------------------------
(***************************************************************************)
(* What XMS and EMS promise to the programs that use them: conventional    *)
(* memory, XMS blocks and EMS pages are separate stores.  A fresh block    *)
(* holds nothing; a block keeps its contents, wherever it is moved to,     *)
(* until it is written, resized or given back; a move copies what the      *)
(* source held, overlap or not, and when it fails it has copied a part.  A *)
(* service that no longer answers has broken.                              *)
(***************************************************************************)
EXTENDS Integers, Sequences

CONSTANTS
  LowSize,    \* the units of conventional memory
  XHandles, EHandles
VARIABLES low, xBlocks, ePages, xBroken, eBroken

vars == <<low, xBlocks, ePages, xBroken, eBroken>>
Low == 0 .. LowSize - 1
Nothing == <<>>
Fresh(s) == \A i \in 1 .. Len(s) : s[i] = 0

Init ==
  /\ low = [u \in Low |-> 0]
  /\ xBlocks = [h \in XHandles |-> Nothing]
  /\ ePages = [h \in EHandles |-> Nothing]
  /\ ~xBroken /\ ~eBroken

Only(f, g, i) == \A j \in DOMAIN f \ {i} : g[j] = f[j]

WriteLow ==
  /\ \E u \in Low : Only(low, low', u)
  /\ UNCHANGED <<xBlocks, ePages, xBroken, eBroken>>

Take(h) ==
  /\ xBlocks[h] = Nothing /\ xBlocks'[h] # Nothing /\ Fresh(xBlocks'[h])
  /\ Only(xBlocks, xBlocks', h)
  /\ UNCHANGED <<low, ePages, xBroken, eBroken>>

Drop(h) ==
  /\ xBlocks'[h] = Nothing /\ Only(xBlocks, xBlocks', h)
  /\ UNCHANGED <<low, ePages, xBroken, eBroken>>

Resize(h) ==
  /\ xBlocks[h] # Nothing /\ xBlocks'[h] # Nothing /\ Only(xBlocks, xBlocks', h)
  /\ \A i \in 1 .. Len(xBlocks[h]) : i <= Len(xBlocks'[h]) => xBlocks'[h][i] = xBlocks[h][i]
  /\ UNCHANGED <<low, ePages, xBroken, eBroken>>

(* A source or a target: a block, or conventional memory. *)
Contents(h) == IF h = 0 THEN [i \in 1 .. LowSize |-> low[i - 1]] ELSE xBlocks[h]

Moved(old, new, source, at, from, length) ==
  /\ Len(new) = Len(old)
  /\ \A i \in 1 .. Len(old) :
       \/ new[i] = old[i]
       \/ i \in at + 1 .. at + length /\ new[i] = source[from + (i - at)]

Move(s, t) ==
  /\ \E length \in 1 .. Len(Contents(s)) :
       \E from \in 0 .. Len(Contents(s)) - length :
         \E at \in 0 .. Len(Contents(t)) - length :
           Moved(Contents(t), Contents(t)', Contents(s), at, from, length)
  /\ IF t = 0 THEN UNCHANGED xBlocks ELSE UNCHANGED low /\ Only(xBlocks, xBlocks', t)
  /\ UNCHANGED <<ePages, xBroken, eBroken>>

TakePages(h) ==
  /\ ePages[h] = Nothing /\ ePages'[h] # Nothing /\ Fresh(ePages'[h])
  /\ Only(ePages, ePages', h)
  /\ UNCHANGED <<low, xBlocks, xBroken, eBroken>>

DropPages(h) ==
  /\ ePages'[h] = Nothing /\ Only(ePages, ePages', h)
  /\ UNCHANGED <<low, xBlocks, xBroken, eBroken>>

WritePage(h) ==
  /\ Only(ePages, ePages', h) /\ Len(ePages'[h]) = Len(ePages[h])
  /\ \E l \in 1 .. Len(ePages[h]) : Only(ePages[h], ePages'[h], l)
  /\ UNCHANGED <<low, xBlocks, xBroken, eBroken>>

XBreaks ==
  /\ xBroken' /\ xBlocks' = [h \in XHandles |-> Nothing]
  /\ UNCHANGED <<low, ePages, eBroken>>

EBreaks ==
  /\ eBroken' /\ ePages' = [h \in EHandles |-> Nothing]
  /\ UNCHANGED <<low, xBlocks, xBroken>>

Next ==
  \/ WriteLow \/ XBreaks \/ EBreaks
  \/ \E h \in XHandles : Take(h) \/ Drop(h) \/ Resize(h)
  \/ \E s, t \in {0} \cup XHandles : Move(s, t)
  \/ \E h \in EHandles : TakePages(h) \/ DropPages(h) \/ WritePage(h)

Spec == Init /\ [][Next]_vars

=============================================================================
