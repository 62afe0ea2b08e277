------------------------------ MODULE PfcpTypes ------------------------------
(***************************************************************************)
(* The PFCP IE codecs of src/free5gc/lib/pfcp/pfcpType: MAC Address,     *)
(* QFI and the Casa LBU slice id.                                          *)
(*                                                                         *)
(* A MAC Address IE is a record: the flags byte and, for each of the four addresses, *)
(* a net.HardwareAddr, which is nil or a byte sequence (its capacity taken *)
(* as its length).  The wire form is a byte sequence.  A codec call        *)
(* returns Done(v), Failed (io.ErrUnexpectedEOF) or PanicOut (a slice past *)
(* the capacity of an address).  Masks and shifts are the arithmetic they  *)
(* perform.                                                                *)
(***************************************************************************)
EXTENDS Naturals, Sequences, FiniteSets

\* The flag bits, in the order the addresses are laid out.
SOUR == 1
DEST == 2
USOU == 4
UDES == 8
AddressFields == <<SOUR, DEST, USOU, UDES>>

Done(v) == [out |-> "done", value |-> v]
Failed == [out |-> "error"]
PanicOut == [out |-> "panic"]

NilAddr == [isNil |-> TRUE, bytes |-> <<>>]
HardwareAddr(bytes) == [isNil |-> FALSE, bytes |-> bytes]

\* &MACAddress{}: flags 0 and four nil addresses.
ZeroMACAddress == [flags |-> 0, addr |-> [b \in {SOUR, DEST, USOU, UDES} |-> NilAddr]]

\* Faulty variant: HasUDES shifting by 2 instead of 3 (and the others as
\* they are).
HasShiftOff(flags, bit) ==
    IF bit = UDES THEN (flags % (2 * bit)) \div (bit \div 2) = 1
    ELSE (flags % (2 * bit)) \div bit = 1

\* HasSOUR, HasDEST, HasUSOU, HasUDES: (f.Flags & bit) >> k == 1.
Has(flags, bit) == (flags % (2 * bit)) \div bit = 1

\* The loop of UnmarshalBinary: each flagged address needs six more bytes.
\* copy into the nil address of the fresh IE copies nothing, so only the
\* flags come out of the bytes.
RECURSIVE UnmarshalFrom(_, _, _)
UnmarshalFrom(b, i, offset) ==
    IF i > Len(AddressFields) THEN Done([ZeroMACAddress EXCEPT !.flags = b[1]])
    ELSE IF ~Has(b[1], AddressFields[i]) THEN UnmarshalFrom(b, i + 1, offset)
    ELSE IF Len(b) < offset + 6 THEN Failed
    ELSE UnmarshalFrom(b, i + 1, offset + 6)

\* ParseMACAddress / UnmarshalBinary.
ParseMACAddress(b) == IF Len(b) < 2 THEN Failed ELSE UnmarshalFrom(b, 1, 1)

\* MarshalLen: one byte and six per non-nil address, whatever the flags say.
MarshalLen(f) == 1 + 6 * Cardinality({x \in {SOUR, DEST, USOU, UDES} : ~f.addr[x].isNil})

\* The loop of MarshalTo over a buffer b of zero bytes: each flagged
\* address is copied from its first six bytes, addr[:6] panicking when the
\* address holds fewer.
RECURSIVE MarshalFrom(_, _, _, _)
MarshalFrom(f, b, i, offset) ==
    IF i > Len(AddressFields) THEN Done(b)
    ELSE LET x == AddressFields[i]
         IN IF ~Has(f.flags, x) THEN MarshalFrom(f, b, i + 1, offset)
            ELSE IF Len(b) < offset + 6 THEN Failed
            ELSE IF Len(f.addr[x].bytes) < 6 THEN PanicOut
            ELSE MarshalFrom(f, [j \in DOMAIN b |->
                                   IF j \in offset + 1 .. offset + 6
                                   THEN f.addr[x].bytes[j - offset] ELSE b[j]],
                             i + 1, offset + 6)

\* MarshalBinary: a zeroed buffer of MarshalLen bytes, then MarshalTo.
MarshalBinary(f) ==
    LET b == [j \in 1 .. MarshalLen(f) |-> IF j = 1 THEN f.flags ELSE 0]
    IN MarshalFrom(f, b, 1, 1)

-----------------------------------------------------------------------------
\* QFI.MarshalBinary: the one octet.
MarshalQFI(q) == <<q>>

\* QFI.UnmarshalBinary: exactly one octet.
UnmarshalQFI(data) ==
    IF Len(data) < 1 \/ Len(data) # 1 THEN Failed ELSE Done(data[1])

\* casa_vendor_id, and binary.BigEndian on 16 bits.
CasaVendorId == 20858
BigEndian16(n) == <<n \div 256, n % 256>>
Uint16At(data, idx) == data[idx + 1] * 256 + data[idx + 2]

\* CasaLBUSliceID.MarshalBinary: the vendor id, then the slice id.
MarshalLBUSliceID(sliceId) == BigEndian16(CasaVendorId) \o BigEndian16(sliceId)

\* CasaLBUSliceID.UnmarshalBinary: Uint16(data[2:]) reads two bytes past the
\* vendor id whatever is left, and panics when fewer remain.
UnmarshalLBUSliceID(data) ==
    CASE Len(data) < 2 -> Failed
      [] Uint16At(data, 0) # CasaVendorId -> Failed
      [] Len(data) < 4 -> PanicOut
      [] Len(data) # 4 -> Failed
      [] OTHER -> Done(Uint16At(data, 2))

=============================================================================
