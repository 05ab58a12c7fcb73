------------------------------ MODULE Protocol ------------------------------
(***************************************************************************)
(* The words of the protocol: the 16-bit header that starts every message  *)
(* and the 16-bit word of an action, as protocol_header.c and              *)
(* protocol_client_messages.c write and read them.                         *)
(*                                                                         *)
(*   header:  CODEREQ, 13 bits, then ID, 2, then EQ, 1                     *)
(*   action:  NUM, 13 bits, then ACTION, 3                                 *)
(***************************************************************************)
EXTENDS Integers

NUMBERS == 8192   \* values of 13 bits
WORDS   == 65536  \* values of 16 bits

-----------------------------------------------------------------------------
(* The header *)

\* Mutant: the identifier is written one bit too far.
EncodeHeader_Shifted(codereq, id, eq) == (codereq % NUMBERS) * 8 + (id % 4)

\* encode_protocol_header clears the header, then sets the bits of each field that
\* are set in its value, the lowest ones when the value is wider than the field.
EncodeHeader(codereq, id, eq) ==
  (codereq % NUMBERS) * 8 + (id % 4) * 2 + (IF eq = 0 THEN 0 ELSE 1)

OrBit(a, b) == IF a = 1 \/ b = 1 THEN 1 ELSE 0

\* The two bits of an identifier are or-ed into what its variable, of 8 bits, holds.
IdOf(header, held) ==
  4 * (held \div 4)
    + 2 * OrBit(header \div 4 % 2, held \div 2 % 2) + OrBit(header \div 2 % 2, held % 2)

\* The handler decodes into variables that hold 0; eq is assigned, not or-ed.
CodeOf(header) == header \div 8
EqOf(header)   == header % 2

-----------------------------------------------------------------------------
(* The word of an action *)

\* num << 3 | action, in 16 bits; an action has no more than its three bits.
EncodeAction(num, action) == (num * 8 + action) % WORDS

NumOf(word) == word \div 8 % NUMBERS

\* Mutant: four bits are kept.
ActionOf_Wide(word) == word % 16

ActionOf(word) == word % 8
=============================================================================
