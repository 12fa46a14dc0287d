------------------------------ MODULE FileStore ------------------------------
(***************************************************************************)
(* What the volume promises its callers: a tree of named files, each call  *)
(* taking effect at once or not at all, until a failure that could not be  *)
(* undone is reported and nothing more is promised.                        *)
(***************************************************************************)
EXTENDS Integers, Sequences

CONSTANTS Paths, FileSlots, Values, Times

VARIABLES
  store,  \* [Paths -> what the path names]
  open,   \* [FileSlots -> the path an open file belongs to], or Detached
  lost    \* the volume has reported that its contents are uncertain

vars == <<store, open, lost>>

NoPath           == <<>>
Detached         == <<"">>    \* open, but its file is gone: fit to be closed
None             == [kind |-> "none"]
Directory        == [kind |-> "dir"]
File(c, ro, t)   == [kind |-> "file", content |-> c, ro |-> ro, time |-> t]
IsFile(p)        == store[p].kind = "file"
Exists(p)        == store[p] # None
Up(p)            == SubSeq(p, 1, Len(p) - 1)
ParentExists(p)  == Len(p) = 1 \/ store[Up(p)] = Directory
Under(p, q)      == Len(q) > Len(p) /\ SubSeq(q, 1, Len(p)) = p

Init ==
  /\ store = [p \in Paths |-> None]
  /\ open = [h \in FileSlots |-> NoPath]
  /\ lost = FALSE

(* A created file is empty; a file that had the name is gone, also for     *)
(* those who have it open.                                                 *)
Create(h, p, ro) ==
  /\ open[h] = NoPath /\ ParentExists(p)
  /\ ~Exists(p) \/ (IsFile(p) /\ ~store[p].ro)
  /\ store' = [store EXCEPT ![p] = File(<<>>, ro, 0)]
  /\ open' = [g \in FileSlots |-> IF g = h THEN p
                                   ELSE IF open[g] = p THEN Detached ELSE open[g]]

OpenFile(h, p) ==
  /\ open[h] = NoPath /\ IsFile(p)
  /\ open' = [open EXCEPT ![h] = p] /\ UNCHANGED store

(* A write replaces one value of the file that was opened, or appends it. *)
Write(h, v) ==
  /\ open[h] \in Paths
  /\ \E i \in 1 .. Len(store[open[h]].content) + 1 :
       store' = [store EXCEPT ![open[h]].content =
                   IF i > Len(@) THEN Append(@, v) ELSE [@ EXCEPT ![i] = v]]
  /\ UNCHANGED open

SetTime(h, t) ==
  /\ open[h] \in Paths
  /\ store' = [store EXCEPT ![open[h]].time = t] /\ UNCHANGED open

MakeDirectory(p) ==
  /\ ParentExists(p) /\ ~Exists(p)
  /\ store' = [store EXCEPT ![p] = Directory] /\ UNCHANGED open

(* What a path is called after p became q. *)
Renamed(p, q, r) == IF r = p \/ Under(p, r) THEN q \o SubSeq(r, Len(p) + 1, Len(r)) ELSE r

(* A directory takes what it holds along, and open files stay open; those  *)
(* who have open a file that moves to another directory lose it.           *)
Rename(p, q) ==
  /\ Exists(p) /\ ~Exists(q) /\ ParentExists(q)
  /\ Up(p) = Up(q) \/ IsFile(p)
  /\ store' = [r \in Paths |->
                 IF \E s \in Paths : Exists(s) /\ Renamed(p, q, s) = r
                   THEN store[CHOOSE s \in Paths : Exists(s) /\ Renamed(p, q, s) = r]
                   ELSE None]
  /\ open' = [h \in FileSlots |-> IF open[h] \notin Paths THEN open[h]
                                  ELSE IF open[h] = p /\ Up(p) # Up(q) THEN Detached
                                  ELSE Renamed(p, q, open[h])]

Close(h) == open' = [open EXCEPT ![h] = NoPath] /\ UNCHANGED store

Restart == open' = [h \in FileSlots |-> NoPath] /\ UNCHANGED store

Lose == lost' = TRUE /\ store' = [p \in Paths |-> None]
                     /\ open' = [h \in FileSlots |-> NoPath]

(* A call that changes nothing the callers can see is no step. *)
Next ==
  /\ vars' # vars
  /\ \/ /\ ~lost /\ lost' = FALSE
        /\ \/ \E h \in FileSlots : \/ \E p \in Paths, ro \in BOOLEAN : Create(h, p, ro)
                                   \/ \E p \in Paths : OpenFile(h, p)
                                   \/ \E v \in Values : Write(h, v)
                                   \/ \E t \in Times : SetTime(h, t)
                                   \/ Close(h)
           \/ \E p \in Paths : MakeDirectory(p)
           \/ \E p, q \in Paths : Rename(p, q)
           \/ Restart
     \/ Lose

Spec == Init /\ [][Next]_vars
=============================================================================
