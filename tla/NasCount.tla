------------------------------ MODULE NasCount ------------------------------
(***************************************************************************)
(* types.Count of src/pkg/types/counter.go: the 32-bit word that holds     *)
(*   COUNT := 0x00 || NAS OVERFLOW (16 bits) || NAS SQN (8 bits).          *)
(* A Count is a natural number below 2^32; every mask and shift of the Go  *)
(* code is written out as the arithmetic it performs on that number.       *)
(* TLC's integers stop below 2^31, so no operator computes 2^32 itself.    *)
(***************************************************************************)
EXTENDS Naturals

\* counter.Count &= 0x00ffffff
MaskTo24Bits(c) == c % 2^24

\* counter.Count (the raw word)
Get(c) == c

\* Faulty variants of AddOne: the mask left out, and a mask of the wrong width.
AddOneNoMask(c) == c + 1
AddOneMask16(c) == (c + 1) % 2^16

\* counter.Count++ followed by MaskTo24Bits; the uint32 wrap of Count++ is
\* a multiple of 2^24 and vanishes under the mask.
AddOne(c) == MaskTo24Bits(c + 1)

\* uint8(counter.Count & 0x000000ff)
GetSQN(c) == c % 2^8

\* (counter.Count & 0xffffff00) | uint32(sqn)
SetSQN(c, sqn) == (c - (c % 2^8)) + sqn

\* uint16((counter.Count & 0x00ffff00) >> 8)
GetOverflow(c) == (c % 2^24) \div 2^8

\* (counter.Count & 0xff0000ff) | (uint32(overflow) << 8), overflow a uint16
SetOverflow(c, overflow) ==
    (c \div 2^24) * 2^24 + overflow * 2^8 + (c % 2^8)

\* SetOverflow then SetSQN
Set(c, overflow, sqn) == SetSQN(SetOverflow(c, overflow), sqn)

=============================================================================
