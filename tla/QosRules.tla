------------------------------ MODULE QosRules ------------------------------
(***************************************************************************)
(* The Authorized QoS rules decoder of                                     *)
(* src/pkg/types/authorized_qos_rules.go, as recursive operators over a    *)
(* byte sequence, and a reference encoder written from the rule grammar    *)
(* of spec.md sections 4.3 and 4.4.                                        *)
(*                                                                         *)
(* A Go slice b is a TLA+ sequence; b[i] is At(b, i) (Go indices start at  *)
(* 0) and b[k:] is Skip(b, k).  The buffer the decoder gets is taken to    *)
(* have no capacity beyond its length, so every index or reslice past the  *)
(* end of the bytes is the run-time panic it is in Go.  A component's      *)
(* value bytes are kept as they are; which field of which Go struct they   *)
(* land in is left out.                                                    *)
(*                                                                         *)
(* Every decoder returns one of three outcomes: Ok(v), Panic (a Go         *)
(* run-time panic: index out of range or nil dereference), and Rejected    *)
(* (DecodeAuthorizedQosRules returns nil).                                 *)
(***************************************************************************)
EXTENDS Naturals, Sequences, SequencesExt

CONSTANT Nil

Ok(v) == [kind |-> "ok", val |-> v]
Panic == [kind |-> "panic", val |-> Nil]
Rejected == [kind |-> "nil", val |-> Nil]

\* Go b[i] and b[k:]
At(b, i) == b[i + 1]
Skip(b, k) == SubSeq(b, k + 1, Len(b))

\* The operation codes of the rule header (OperationCode... constants).
OperationCodeCreateNewQoSRule == 1
OperationCodeDeleteExistingQoSRule == 2
OperationCodeModifyExistingQoSRuleAndAddPacketFilters == 3
OperationCodeModifyExistingQoSRuleAndReplaceAllPacketFilters == 4
OperationCodeModifyExistingQoSRuleAndDeletePacketFilters == 5
OperationCodeModifyExistingQoSRuleWithoutModifyingPacketFilters == 6

\* The operation codes whose rules carry full packet filters.
FilterListOperationCodes ==
    { OperationCodeCreateNewQoSRule,
      OperationCodeModifyExistingQoSRuleAndAddPacketFilters,
      OperationCodeModifyExistingQoSRuleAndReplaceAllPacketFilters }

\* For each component type the switch of DecodePacketFilterComponents
\* knows, the bytes its case consumes, the type byte included.
ComponentSize ==
    (\h01 :> 1) @@ (\h10 :> 9) @@ (\h11 :> 9) @@ (\h21 :> 18) @@
    (\h23 :> 18) @@ (\h30 :> 2) @@ (\h40 :> 3) @@ (\h41 :> 5) @@
    (\h50 :> 3) @@ (\h51 :> 5) @@ (\h60 :> 5) @@ (\h70 :> 3) @@
    (\h80 :> 4) @@ (\h81 :> 7) @@ (\h82 :> 7) @@ (\h83 :> 3) @@
    (\h84 :> 3) @@ (\h85 :> 3) @@ (\h86 :> 3) @@ (\h87 :> 3)

(***************************************************************************)
(* DecodePacketFilterComponents.  A known type whose case reads or         *)
(* reslices past the end of the components panics.  An unknown type sets  *)
(* the local packetFilter to nil, and the append after the switch          *)
(* dereferences it: a panic too.                                           *)
(***************************************************************************)
RECURSIVE DecodePacketFilterComponents(_)
DecodePacketFilterComponents(components) ==
    IF components = <<>> THEN Ok(<<>>)
    ELSE LET type == Head(components)
         IN IF type \notin DOMAIN ComponentSize
                  \/ Len(components) < ComponentSize[type]
            THEN Panic
            ELSE LET size == ComponentSize[type]
                     rest == DecodePacketFilterComponents(Skip(components, size))
                 IN IF rest.kind # "ok" THEN rest
                    ELSE Ok(<<[type |-> type,
                               value |-> SubSeq(components, 2, size)]>>
                            \o rest.val)

(***************************************************************************)
(* The filter loop of DecodeAuthorizedQosRules for the create, add and     *)
(* replace operation codes: n filters, each [dir|id][len][components].     *)
(* 2+len is a uint8 sum, and the decoded length a uint16 one.  Returns     *)
(* the filters, their byte length and the buffer after them.               *)
(***************************************************************************)
RECURSIVE DecodePacketFilterList(_, _)
DecodePacketFilterList(buffer, n) ==
    IF n = 0 THEN Ok([filters |-> <<>>, length |-> 0, buffer |-> buffer])
    ELSE IF Len(buffer) < 2 THEN Panic
    ELSE LET end == (2 + At(buffer, 1)) % 2^8
         IN IF end < 2 \/ end > Len(buffer) THEN Panic
            ELSE LET components ==
                         DecodePacketFilterComponents(SubSeq(buffer, 3, end))
                     rest == DecodePacketFilterList(Skip(buffer, end), n - 1)
                     filter == [direction  |-> (At(buffer, 0) % 64) \div 16,
                                identifier |-> At(buffer, 0) % 16,
                                components |-> components.val]
                 IN CASE components.kind # "ok" -> components
                      [] rest.kind # "ok"       -> rest
                      [] OTHER ->
                           Ok([filters |-> <<filter>> \o rest.val.filters,
                               length  |-> (end + rest.val.length) % 2^16,
                               buffer  |-> rest.val.buffer])

\* The loop for the delete-packet-filters operation code: n identifiers.
RECURSIVE DecodeDeletedPacketFilters(_, _)
DecodeDeletedPacketFilters(buffer, n) ==
    IF n = 0 THEN Ok([filters |-> <<>>, length |-> 0, buffer |-> buffer])
    ELSE IF buffer = <<>> THEN Panic
    ELSE LET rest == DecodeDeletedPacketFilters(Skip(buffer, 1), n - 1)
             filter == [direction  |-> Nil,
                        identifier |-> At(buffer, 0) % 16,
                        components |-> <<>>]
         IN IF rest.kind # "ok" THEN rest
            ELSE Ok([filters |-> <<filter>> \o rest.val.filters,
                     length  |-> n,
                     buffer  |-> rest.val.buffer])

\* Faulty variants: the DQR bit left unshifted, and a precedence read when
\* the declared length leaves exactly no room for it.
RuleDQRUnshifted(octet) == octet % 32
HasPrecedenceOnEqual(filterListLength, length) ==
    (filterListLength + 4) % 2^16 <= length

\* (buffer[3] & 16) >> 4
RuleDQR(octet) == (octet % 32) \div 16

\* decodedPacketFilterListLength + 4 < currentAuthorizedQosRulesLength,
\* a uint16 sum.
HasPrecedence(filterListLength, length) ==
    (filterListLength + 4) % 2^16 < length

(***************************************************************************)
(* One iteration of the rule loop of DecodeAuthorizedQosRules: the header, *)
(* the filter list its operation code calls for, and the precedence and    *)
(* QFI bytes when the declared length leaves room for them.  Returns the   *)
(* rule, its declared length 3 + RuleLen (a uint16 sum) and the buffer     *)
(* after the bytes actually read.                                          *)
(***************************************************************************)
DecodeQoSRule(buffer) ==
    IF Len(buffer) < 4 THEN Panic
    ELSE LET length == (3 + At(buffer, 1) * 2^8 + At(buffer, 2)) % 2^16
             opCode == At(buffer, 3) \div 32
             n == At(buffer, 3) % 16
             list ==
               CASE opCode = OperationCodeModifyExistingQoSRuleAndDeletePacketFilters
                        -> DecodeDeletedPacketFilters(Skip(buffer, 4), n)
                 [] opCode \in FilterListOperationCodes
                        -> DecodePacketFilterList(Skip(buffer, 4), n)
                 [] OTHER
                        -> Ok([filters |-> <<>>, length |-> 0,
                               buffer |-> Skip(buffer, 4)])
             rest == list.val.buffer
             rule(prec, seg, qfi) ==
                 [identifier       |-> At(buffer, 0),
                  operationCode    |-> opCode,
                  dqr              |-> RuleDQR(At(buffer, 3)),
                  packetFilterList |-> list.val.filters,
                  precedence |-> prec, segregation |-> seg, qfi |-> qfi]
         IN CASE list.kind # "ok" -> list
              [] ~HasPrecedence(list.val.length, length) ->
                   Ok([rule |-> rule(Nil, Nil, Nil), length |-> length,
                       buffer |-> rest])
              [] rest = <<>> -> Panic
              [] At(rest, 0) = 80 -> Rejected
              [] Len(rest) < 2 -> Panic
              [] OTHER ->
                   Ok([rule |-> rule(At(rest, 0), (At(rest, 1) % 128) \div 64,
                                     At(rest, 1) % 64),
                       length |-> length, buffer |-> Skip(rest, 2)])

\* The rule loop: runs while the uint16 sum of declared lengths is below
\* the payload's length.
RECURSIVE DecodeRulesFrom(_, _, _)
DecodeRulesFrom(buffer, decoded, total) ==
    IF decoded >= total THEN Ok(<<>>)
    ELSE LET r == DecodeQoSRule(buffer)
         IN IF r.kind # "ok" THEN r
            ELSE LET rest == DecodeRulesFrom(r.val.buffer,
                                             (decoded + r.val.length) % 2^16,
                                             total)
                 IN IF rest.kind # "ok" THEN rest
                    ELSE Ok(<<r.val.rule>> \o rest.val)

\* DecodeAuthorizedQosRules(payload): payload.GetLen() and GetQosRule().
DecodeAuthorizedQosRules(len, buffer) == DecodeRulesFrom(buffer, 0, len)

-----------------------------------------------------------------------------
(***************************************************************************)
(* Reference encoder, from the grammar of spec.md 4.3/4.4:                 *)
(*   [RuleId][RuleLen:2 BE][OpCode:3|DQR:1|#Filters:4][filters]            *)
(*   [Precedence][0|Segregation:1|QFI:6]?                                  *)
(* a filter [0 0|Dir:2|Id:4][CompLen][components] or, for delete-filters,  *)
(* [0000|Id:4]; a component [Type][Value].                                 *)
(***************************************************************************)
EncodeComponents(cs) ==
    FlattenSeq([i \in DOMAIN cs |-> <<cs[i].type>> \o cs[i].value])

EncodeFilter(opCode, f) ==
    IF opCode = OperationCodeModifyExistingQoSRuleAndDeletePacketFilters
    THEN <<f.identifier>>
    ELSE <<f.direction * 16 + f.identifier, Len(EncodeComponents(f.components))>>
            \o EncodeComponents(f.components)

EncodeRule(r) ==
    LET fs == r.packetFilterList
        content ==
            <<r.operationCode * 32 + r.dqr * 16 + Len(fs)>>
            \o FlattenSeq([i \in DOMAIN fs |-> EncodeFilter(r.operationCode, fs[i])])
            \o (IF r.precedence = Nil THEN <<>>
                ELSE <<r.precedence, r.segregation * 64 + r.qfi>>)
    IN <<r.identifier, Len(content) \div 2^8, Len(content) % 2^8>> \o content

EncodeAuthorizedQosRules(rules) ==
    FlattenSeq([i \in DOMAIN rules |-> EncodeRule(rules[i])])

=============================================================================
