---------------------------- MODULE GuestMachine ----------------------------
(***************************************************************************)
(* Guest memory as dos/machine.c shows it to DOS: far addresses, whose     *)
(* offsets wrap within their segment and whose linear form wraps while A20 *)
(* is off, and dos_machine_replace_far, the only write DOS makes: it reads *)
(* the old bytes, writes the new ones and, when a write callback fails,    *)
(* writes the old ones back.                                               *)
(***************************************************************************)
EXTENDS Integers, Sequences

CONSTANTS
  Byte,           \* values of one guest byte
  ParagraphBytes, \* bytes per segment unit (16)
  OffsetWrap,     \* number of 16-bit offsets (2^16)
  A20Wrap,        \* DOS_A20_WRAP_ADDRESS (2^20)
  AddressLimit    \* machine->address_limit

ASSUME MachineAssumption ==
  /\ ParagraphBytes \in Nat \ {0} /\ OffsetWrap \in Nat \ {0}
  /\ A20Wrap \in Nat \ {0} /\ AddressLimit \in Nat \ {0}
  /\ OffsetWrap <= A20Wrap

Cells == 0 .. AddressLimit - 1
Memory == [Cells -> Byte]

dos_far_to_linear(segment, offset, a20) ==
  LET linear == segment * ParagraphBytes + offset
  IN  IF a20 THEN linear ELSE linear % A20Wrap

(* The cell of byte i (from 1) of a transfer that starts at segment:offset:*)
(* far_transfer_chunk restarts at every offset wrap and every A20 wrap.    *)
Cell(segment, offset, i, a20) ==
  dos_far_to_linear(segment, (offset + i - 1) % OffsetWrap, a20)

(* dos_machine_validate_far: no byte of the transfer leaves guest memory. *)
FarValid(segment, offset, count, a20) ==
  \A i \in 1 .. count : Cell(segment, offset, i, a20) \in Cells

Touches(segment, offset, count, a20, c) ==
  \E i \in 1 .. count : Cell(segment, offset, i, a20) = c

(* What a transfer of `bytes' brings to a cell it touches. *)
ByteFor(segment, offset, bytes, a20, c) ==
  bytes[CHOOSE i \in 1 .. Len(bytes) : Cell(segment, offset, i, a20) = c]

(* dos_machine_read_far and dos_machine_write_far, when every callback     *)
(* succeeds.                                                               *)
Peek(m, segment, offset, count, a20) ==
  [i \in 1 .. count |-> m[Cell(segment, offset, i, a20)]]

Patch(m, segment, offset, bytes, a20) ==
  [c \in Cells |-> IF Touches(segment, offset, Len(bytes), a20, c)
                     THEN ByteFor(segment, offset, bytes, a20, c)
                     ELSE m[c]]

(* A write whose repair failed too: any of its cells may keep the new byte.*)
Torn(m, segment, offset, bytes, a20) ==
  LET done == Patch(m, segment, offset, bytes, a20)
      hit  == {c \in Cells : m[c] # done[c]}
  IN  {[c \in Cells |-> IF c \in kept THEN done[c] ELSE m[c]] :
         kept \in SUBSET hit}
=============================================================================
