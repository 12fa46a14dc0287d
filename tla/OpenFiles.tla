----------------------------- MODULE OpenFiles -----------------------------
(* What DOS promises about handles, without tables that move, references,   *)
(* leases or batches: every process that exists has a table that says which *)
(* description each of its handles names, a description has one cursor      *)
(* whoever moves it, a child begins with the inheritable handles of its     *)
(* parent and takes only its own away when it ends.  Once the DOS domain    *)
(* has been poisoned nothing is promised.                                   *)
EXTENDS Integers, FiniteSets

CONSTANTS Process, Handle, Inherited, Description, Nothing

VARIABLES table,       \* table[p][j], for the processes that exist
          cursor,      \* the descriptions that are open, and their cursors
          inherit,     \* those of them a child inherits
          lost

vars == <<table, cursor, inherit, lost>>

Exists == DOMAIN table
Naming(n) == {x \in Exists \X Handle : table[x[1]][x[2]] = n}

TypeOK ==
  /\ table \in UNION {[ps -> [Handle -> Description \cup {Nothing}]]
                        : ps \in SUBSET Process}
  /\ cursor \in UNION {[ns -> Nat] : ns \in SUBSET Description}
  /\ inherit \subseteq DOMAIN cursor /\ lost \in BOOLEAN

Init ==
  /\ \E p \in Process, n \in Description :
       /\ table = [q \in {p} |-> [j \in Handle |-> IF j = 0 THEN n
                                                            ELSE Nothing]]
       /\ cursor = [m \in {n} |-> 0] /\ inherit = {n}
  /\ lost = FALSE

Open(p, j, n, shared) ==
  /\ table[p][j] = Nothing /\ n \notin DOMAIN cursor
  /\ table' = [table EXCEPT ![p][j] = n]
  /\ cursor' = [m \in DOMAIN cursor \cup {n} |->
                  IF m = n THEN 0 ELSE cursor[m]]
  /\ inherit' = IF shared THEN inherit \cup {n} ELSE inherit
  /\ UNCHANGED lost

(* The last handle that names a description takes it away. *)
Keep(ns) ==
  /\ cursor' = [m \in DOMAIN cursor \cap ns |-> cursor[m]]
  /\ inherit' = inherit \cap ns

Close(p, j) ==
  /\ table[p][j] # Nothing
  /\ table' = [table EXCEPT ![p][j] = Nothing]
  /\ Keep({n \in Description : Naming(n) \ {<<p, j>>} # {}})
  /\ UNCHANGED lost

Move(n) ==
  /\ n \in DOMAIN cursor
  /\ DOMAIN cursor' = DOMAIN cursor
  /\ \A m \in DOMAIN cursor \ {n} : cursor'[m] = cursor[m]
  /\ UNCHANGED <<table, inherit, lost>>

Spawn(p, c) ==
  /\ c \notin Exists
  /\ table' = [q \in Exists \cup {c} |->
                 IF q # c THEN table[q]
                 ELSE [j \in Handle |->
                         IF j \in Inherited /\ table[p][j] \in inherit
                           THEN table[p][j] ELSE Nothing]]
  /\ UNCHANGED <<cursor, inherit, lost>>

Exit(c) ==
  /\ table' = [q \in Exists \ {c} |-> table[q]]
  /\ Keep({n \in Description : \E x \in Naming(n) : x[1] # c})
  /\ UNCHANGED lost

Lose ==
  /\ lost' = TRUE
  /\ table' = << >> /\ cursor' = << >> /\ inherit' = {}

Next ==
  \/ \E p \in Exists, j \in Handle, n \in Description, shared \in BOOLEAN :
       Open(p, j, n, shared)
  \/ \E p \in Exists, j \in Handle : Close(p, j)
  \/ \E n \in Description : Move(n)
  \/ \E p \in Exists, c \in Process : Spawn(p, c)
  \/ \E c \in Exists : Exit(c)
  \/ Lose

Spec == Init /\ [][Next]_vars

=============================================================================
