------------------------------- MODULE Protobuf -------------------------------
(***************************************************************************)
(* The shape that all the generated codecs share.  A message type is the   *)
(* sequence of its fields in the order in which they are written, an       *)
(* object a record in whose domain an optional field that is not set is    *)
(* missing, and the bytes have for each field in turn the values that are  *)
(* written with its number.  A nested message is a value: each level is    *)
(* encoded and decoded by its own codec.                                   *)
(***************************************************************************)
EXTENDS Integers, Sequences, SequencesExt

\* No characters, no bytes, 0 and false alike: the value of a field that is not sent.
Zero == <<>>

Singular(id, name) == [id |-> id, name |-> name, label |-> "singular"]
Optional(id, name) == [id |-> id, name |-> name, label |-> "optional"]
Repeated(id, name) == [id |-> id, name |-> name, label |-> "repeated"]

\* The values that are written; a field without presence is left out when it is zero.
EncodeField(field, obj) ==
    IF field.name \notin DOMAIN obj THEN <<>>
    ELSE LET value == obj[field.name]
         IN CASE field.label = "singular" -> IF value = Zero THEN <<>> ELSE <<value>>
              [] field.label = "optional" -> <<value>>
              [] field.label = "repeated" -> value

Encode(type, obj) ==
    [i \in DOMAIN type |-> [id |-> type[i].id, values |-> EncodeField(type[i], obj)]]

\* The values of a field, in the order in which they come.
Values(field, bytes) ==
    FlattenSeq([i \in DOMAIN bytes |-> IF bytes[i].id = field.id THEN bytes[i].values ELSE <<>>])

\* The last value counts.
DecodeField(field, bytes) ==
    LET values == Values(field, bytes)
    IN CASE field.label = "repeated"                     -> values
         [] field.label # "repeated" /\ values = <<>>    -> Zero
         [] field.label # "repeated" /\ values # <<>>    -> Last(values)

\* A field of a number that the type does not have is skipped.
Decode(type, bytes) ==
    LET set  == {f \in ToSet(type) : f.label = "optional" => Values(f, bytes) # <<>>}
    IN [name \in {f.name : f \in set} |->
          DecodeField(CHOOSE f \in set : f.name = name, bytes)]
=============================================================================
