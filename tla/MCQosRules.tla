----------------------------- MODULE MCQosRules -----------------------------
(***************************************************************************)
(* Inputs for the QoS rules decoder.  A payload is built from whole rules  *)
(* (AddRule, through the reference encoder), and may then be damaged a     *)
(* bounded number of times: a byte overwritten or the last byte cut off,   *)
(* as a peer or a fuzzer controlling the bytes would.  The payload length  *)
(* handed to the decoder is the number of bytes, as the NAS IE decoder     *)
(* sets it.  Every state is one input; the properties judge the decoder's  *)
(* outcome on it.                                                          *)
(***************************************************************************)
EXTENDS QosRules

CONSTANTS Precedences,     \* precedence values a modify-only rule may carry
          CorruptBytes,    \* the byte values an overwrite may write
          MaxRules,        \* rules in a payload
          MaxCorruptions   \* damages applied to one payload

VARIABLES rules, wire, corruptions

vars == <<rules, wire, corruptions>>

Component(t, v) == [type |-> t, value |-> v]
Filter(d, id, cs) == [direction |-> d, identifier |-> id, components |-> cs]
Rule(id, op, dqr, fs, prec, seg, qfi) ==
    [identifier |-> id, operationCode |-> op, dqr |-> dqr,
     packetFilterList |-> fs, precedence |-> prec, segregation |-> seg,
     qfi |-> qfi]

\* The two rules of the AuthorizedQosRules buffer of build.go 397-404.
ExampleRule1 ==
    Rule(1, OperationCodeCreateNewQoSRule, 1,
         <<Filter(3, 1, <<Component(\h01, <<>>)>>)>>, 0, 0, \h3f)
ExampleRule2 ==
    Rule(2, OperationCodeCreateNewQoSRule, 0,
         <<Filter(3, 5, <<Component(\h10, <<\h12, \h23, \h34, \h45, \h56, \h67,
                                            \h78, \h89>>),
                          Component(\h30, <<\h24>>)>>)>>, 3, 0, \h12)

ASSUME EncodeAuthorizedQosRules(<<ExampleRule1, ExampleRule2>>) =
    << \h01, \h00, \h06, \h31, \h31, \h01, \h01, \h00,
       \h3f, \h02, \h00, \h10, \h21, \h35, \h0b, \h10,
       \h12, \h23, \h34, \h45, \h56, \h67, \h78, \h89,
       \h30, \h24, \h03, \h12 >>

\* One rule of every other operation code, with every component size.
RuleSet ==
    { ExampleRule1, ExampleRule2,
      Rule(3, OperationCodeModifyExistingQoSRuleAndDeletePacketFilters, 0,
           <<Filter(Nil, 2, <<>>), Filter(Nil, 7, <<>>)>>, Nil, Nil, Nil),
      Rule(4, OperationCodeDeleteExistingQoSRule, 0, <<>>, Nil, Nil, Nil),
      Rule(6, OperationCodeModifyExistingQoSRuleAndAddPacketFilters, 0,
           <<Filter(1, 2, <<Component(\h21, [i \in 1..17 |-> i]),
                            Component(\h41, <<0, 80, 0, 90>>)>>),
             Filter(2, 3, <<>>)>>, 255, 1, 0),
      Rule(7, OperationCodeModifyExistingQoSRuleAndReplaceAllPacketFilters, 1,
           <<Filter(0, 15, <<Component(\h81, <<1, 2, 3, 4, 5, 6>>),
                             Component(\h87, <<8, 0>>),
                             Component(\h60, <<9, 9, 9, 9>>),
                             Component(\h80, <<1, 2, 3>>)>>)>>, Nil, Nil, Nil) }
    \cup
    { Rule(5, OperationCodeModifyExistingQoSRuleWithoutModifyingPacketFilters,
           1, <<>>, p, 1, 9) : p \in Precedences }

Decoded == DecodeAuthorizedQosRules(Len(wire), wire)

Init ==
    /\ rules = <<>>
    /\ wire = <<>>
    /\ corruptions = 0

\* A payload of one more whole rule.
AddRule(r) ==
    /\ corruptions = 0
    /\ Len(rules) < MaxRules
    /\ rules' = Append(rules, r)
    /\ wire' = EncodeAuthorizedQosRules(rules')
    /\ UNCHANGED corruptions

\* One byte of the payload overwritten.
Overwrite(i, b) ==
    /\ corruptions < MaxCorruptions
    /\ wire[i] # b
    /\ wire' = [wire EXCEPT ![i] = b]
    /\ corruptions' = corruptions + 1
    /\ UNCHANGED rules

\* The payload cut short by one byte.
Truncate ==
    /\ corruptions < MaxCorruptions
    /\ wire # <<>>
    /\ wire' = Front(wire)
    /\ corruptions' = corruptions + 1
    /\ UNCHANGED rules

Next ==
    \/ \E r \in RuleSet : AddRule(r)
    \/ \E i \in DOMAIN wire, b \in CorruptBytes : Overwrite(i, b)
    \/ Truncate

Spec == Init /\ [][Next]_vars

-----------------------------------------------------------------------------
\* The decoder's outcome on any payload, whole or damaged, is one of its
\* three outcomes, and a decoded rule's fields are within the bit widths
\* DecodeAuthorizedQosRules extracts them with.
DecodedRuleType ==
    [identifier : 0..255, operationCode : 0..7, dqr : 0..1,
     packetFilterList : Seq([direction : 0..3 \cup {Nil}, identifier : 0..15,
                             components : Seq([type : DOMAIN ComponentSize,
                                               value : Seq(0..255)])]),
     precedence : 0..255 \cup {Nil}, segregation : 0..1 \cup {Nil},
     qfi : 0..63 \cup {Nil}]

TypeOK ==
    /\ corruptions \in 0..MaxCorruptions
    /\ Decoded \in {Panic, Rejected} \cup [kind : {"ok"}, val : Seq(DecodedRuleType)]

\* Round trip (spec.md section 8): an undamaged payload built from rules
\* decodes to exactly those rules, in order.  This is about the length
\* bookkeeping of DecodeAuthorizedQosRules: the rule loop's running total,
\* each filter's 2 + length, and the test that decides whether a
\* precedence byte follows the filters.
RoundTrip ==
    corruptions = 0 => Decoded = Ok(rules)

\* A damaged payload is either rejected as a whole or decoded exactly
\* (spec.md 4.3 and 7): the decoder never panics, and whatever it accepts
\* re-encodes to the payload, so no byte is skipped or read twice.  This is
\* about the unchecked indexing of DecodeAuthorizedQosRules, the nil packet
\* filter of DecodePacketFilterComponents' default case, and the rule loop
\* advancing by the declared length while the buffer advances by the bytes
\* read.
MalformedPayloadRejected ==
    /\ Decoded.kind # "panic"
    /\ Decoded.kind = "ok" => EncodeAuthorizedQosRules(Decoded.val) = wire

=============================================================================
