------------------------------ MODULE StateWord ------------------------------
(***************************************************************************)
(* The word a worker shows its state in (state/mod.rs): the code of its    *)
(* status in the two highest bits, the length of its batch below them.     *)
(***************************************************************************)
EXTENDS Integers

CONSTANTS
  LenRange,   (* the length bits hold 0 .. LenRange - 1: 2^62 in the code     *)
  U32Range    (* a snapshot's length is a u32: 2^32 in the code               *)

to_u8 == [Waiting |-> 0, Exit |-> 1, Running |-> 2, Crashed |-> 3]

from_u8(code) == CHOOSE s \in DOMAIN to_u8 : to_u8[s] = code

(* Mutant: the length bits are cleared with the status.                    *)
set_worker_state_only(word, s) == to_u8[s] * LenRange

(* The mask keeps the length bits, and the new code goes above them.       *)
set_worker_state(word, s) == (word % LenRange) + to_u8[s] * LenRange

(* fetch_add, in 64 bits.                                                  *)
increment_len(word) == (word + 1) % (4 * LenRange)

(* Mutant: only the length bits are cleared.                               *)
reset_len_only(word) == word - (word % LenRange)

reset_batch_len(word) == 0

(* The parts of a snapshot that come from the word.                        *)
worker_status(word) == from_u8(word \div LenRange)
batch_len(word)     == (word % LenRange) % U32Range
=============================================================================
