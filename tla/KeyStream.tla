------------------------------ MODULE KeyStream ------------------------------
(* What the input path promises: while it is up, the keys of the keyboard   *)
(* reach the consumer that has the focus, all of them, once and in order.   *)
(* A change of focus may drop keys that were on their way, oldest first.    *)
(* A path that is not up promises nothing.                                  *)
EXTENDS Naturals, Sequences

CONSTANT Consumers

VARIABLES up,          \* the promise is in force
          pending,     \* keys on their way, oldest first
          focus,
          handed       \* what was handed over in the last step

vars == <<up, pending, focus, handed>>

From(s, n) == SubSeq(s, n + 1, Len(s))
Tagged(s, c) == [i \in 1 .. Len(s) |-> [to |-> c, key |-> s[i].key,
                                        up |-> s[i].up]]

Init == handed = <<>>

(* The keyboard reports a key. *)
Type(before, after) ==
  /\ after # <<>> /\ before = SubSeq(after, 1, Len(after) - 1)
  /\ UNCHANGED focus /\ handed' = <<>>

(* The consumer in focus takes the oldest keys. *)
Deliver(before, after) ==
  /\ Len(after) <= Len(before) /\ UNCHANGED focus
  /\ LET n == Len(before) - Len(after)
     IN /\ after = From(before, n)
        /\ handed' = Tagged(SubSeq(before, 1, n), focus)

Refocus(before, after) ==
  /\ focus' \in Consumers \ {focus} /\ handed' = <<>>
  /\ \E n \in 0 .. Len(before) : after = From(before, n)

Promised ==
  /\ up /\ up'
  /\ \E before \in {pending}, after \in {pending'} :
       \/ Type(before, after) \/ Deliver(before, after)
       \/ Refocus(before, after)

(* Up or down: nothing is promised of the step. *)
Break == up /\ ~ up'
Outage == ~ up

Next == Outage \/ Break \/ Promised
Spec == Init /\ [][Next]_vars
=============================================================================
