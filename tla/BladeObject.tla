---------------------------- MODULE BladeObject ----------------------------
(***************************************************************************)
(* A BladeObject and its way through the wire format: blade_object.cc,      *)
(* Opr::Encode and Opr::DecodeWithHeader in opr.cc, encoder.h, decoder.h,   *)
(* called by the sessions of blade_session.cc and sync_session.cc.          *)
(*                                                                          *)
(* An object keeps its fields twice: name_ says the kind of a field, and    *)
(* one table per kind holds the values.  The number of bytes of a field is  *)
(* written down three times: by the header (which the reader sizes its      *)
(* buffer by), by the encoders and by the decoder.  The program is right if *)
(* the two tables and the three lengths never part.                         *)
(*                                                                          *)
(* The bytes themselves are left out: the wire is the header and the        *)
(* sequence of fields written, with the lengths their bytes have.  The two  *)
(* lengths in an object's own header are computed anew before every use, so *)
(* the model keeps them in the header that is written only.                 *)
(***************************************************************************)
EXTENDS BladeForms, Sequences

CONSTANT Length     \* the number of characters of a name or a text

ASSUME LengthAssumption == Length \in [Field \cup Text -> Nat]

VARIABLES
    phase,      \* what is being done with the object
    obj,        \* the object in hand; while it travels, the sender's
    got,        \* the object the receiver is building
    left,       \* <<kind, field>> that Iterate has still to visit
    order,      \* the fields in the order Iterate visits them
    size,       \* UpdateHeaderField: the sum so far
    ret,        \* Encode: the number of bytes written so far
    wire,       \* the header and the fields written
    next,       \* the field Encode or DecodeWithHeader is at
    remain      \* Decoder::remain_length_

vars == <<phase, obj, got, left, order, size, ret, wire, next, remain>>

-----------------------------------------------------------------------------
(* The object: name_ and the member tables. *)

\* A default-constructed BladeObject: kBTRequest, no trace, no name.
Blank == [type |-> "request", trace |-> 0, service |-> None,
          names |-> [f \in Field |-> 0],
          members |-> [k \in Kind |-> [f \in Field |-> None]]]

Create(c, s, t, v) ==
    [type    |-> TypeOf(c), trace |-> t, service |-> s,
     names   |-> [f \in Field |-> IF f \in Form[c] THEN KindOf(f) ELSE 0],
     members |-> [k \in Kind |-> [f \in Field |->
                    IF f \in Form[c] /\ k = KindOf(f) THEN v[f] ELSE None]]]

Contains(o, f) == o.names[f] # 0

Add(o, f, k, v) ==
    IF Contains(o, f) THEN o
    ELSE [o EXCEPT !.names[f] = k, !.members[k][f] = v]

\* Mutant: name_ is erased before the kind of the field is looked up, so the
\* value stays in its table.
BugNameFirst(o, f) ==
    IF ~Contains(o, f) THEN o ELSE [o EXCEPT !.names[f] = 0]

Remove(o, f) ==
    IF ~Contains(o, f) THEN o
    ELSE [o EXCEPT !.names[f] = 0, !.members[o.names[f]][f] = None]

\* GetByte ... GetString; None where they throw NoSuchFieldException.
Get(o, f, k) == IF o.names[f] # k THEN None ELSE o.members[k][f]

-----------------------------------------------------------------------------
(* The three lengths of a field. *)

TagSize == 2        \* sizeof(FieldType)
WordSize == 4       \* sizeof(u32)
HeaderSize == 40    \* sizeof(RawBladeHeader): ten 32-bit words

ValueLength(k, v) == CASE k = Byte         -> 1
                       [] k = I32          -> 4
                       [] k \in {I64, F64} -> 8
                       [] k = String       -> WordSize + Length[v]

\* Mutant: sizeof(FieldType) is counted for the value, and not for the name.
BugOneTag(x) ==
    TagSize + WordSize + Length[x.name] + ValueLength(x.kind, x.value)

MeasuredLength(x) ==
    2 * TagSize + WordSize + Length[x.name] + ValueLength(x.kind, x.value)

EncodedLength(x) ==
    (TagSize + WordSize + Length[x.name]) + (TagSize + ValueLength(x.kind, x.value))

TakenLength(x) ==
    TagSize + (WordSize + Length[x.name]) + TagSize + ValueLength(x.kind, x.value)

ServiceLength(s) == WordSize + Length[s]

\* Mutant: the length of the service name's length is forgotten.
BugForgetsWord(fields, s) == fields + Length[s]

PayloadLength(fields, s) == fields + ServiceLength(s)

-----------------------------------------------------------------------------
(* The operations on an object in hand. *)

Idle == UNCHANGED <<phase, got, left, order, size, ret, wire, next, remain>>

New == /\ phase = "hand"
       /\ \E c \in Constructor, s \in Text, t \in Trace : \E v \in Arguments(c) :
             obj' = Create(c, s, t, v)
       /\ Idle

AddField == /\ phase = "hand"
            /\ \E f \in Extra, k \in Kind : \E v \in Value(k) :
                  obj' = Add(obj, f, k, v)
            /\ Idle

RemoveField == /\ phase = "hand"
               /\ \E f \in Extra : obj' = Remove(obj, f)
               /\ Idle

SetServiceName == /\ phase = "hand"
                  /\ \E s \in Text : obj' = [obj EXCEPT !.service = s]
                  /\ Idle

SetTraceId == /\ phase = "hand"
              /\ \E t \in Trace : obj' = [obj EXCEPT !.trace = t]
              /\ Idle

-----------------------------------------------------------------------------
(* Sending: GetEncodedSize, then Encode into a buffer of that size. *)

\* An empty buffer.
NoBytes == [type |-> "request", trace |-> 0, service |-> None,
            payload_length |-> 0, content_offset |-> 0, fields |-> <<>>]

\* Mutant: the line of the F64 table is missing in Iterate.
BugSkipsTable(o) ==
    {x \in (Kind \ {F64}) \X Field : o.members[x[1]][x[2]] # None}

\* Iterate walks the member tables, not name_.
Members(o) == {x \in Kind \X Field : o.members[x[1]][x[2]] # None}

\* GetEncodedSize: UpdateHeaderField starts to iterate.
GetEncodedSize ==
    /\ phase = "hand"
    /\ phase' = "measure"
    /\ left' = Members(obj)
    /\ UNCHANGED <<obj, got, order, size, ret, wire, next, remain>>

\* One field of UpdateHeaderField's Iterate: the tables one after the other,
\* each in the order its hash table happens to have.
Measure ==
    /\ phase = "measure"
    /\ \E x \in left :
          /\ \A y \in left : x[1] <= y[1]
          /\ LET field == [kind |-> x[1], name |-> x[2],
                           value |-> obj.members[x[1]][x[2]], at |-> size]
             IN  /\ order' = Append(order, field)
                 /\ size' = size + MeasuredLength(field)
          /\ left' = left \ {x}
    /\ UNCHANGED <<phase, obj, got, ret, wire, next, remain>>

\* UpdateHeaderField stores the sums, Encode writes the header and the service
\* name.  (Encode first measures the unchanged object once more.)
EncodeHeader ==
    /\ phase = "measure"
    /\ left = {}
    /\ phase' = "encode"
    /\ wire' = [type |-> obj.type, trace |-> obj.trace, service |-> obj.service,
                payload_length |-> PayloadLength(size, obj.service),
                content_offset |-> HeaderSize + ServiceLength(obj.service),
                fields |-> <<>>]
    /\ ret' = HeaderSize + ServiceLength(obj.service)
    /\ next' = 1
    /\ UNCHANGED <<obj, got, left, order, size, remain>>

\* What Encode compares a field with.  It is computed once, and not made
\* smaller as fields are written.
LengthRemain ==
    (HeaderSize + wire.payload_length) - (HeaderSize + ServiceLength(obj.service))

\* The place of the next table, where Iterate goes on after a callback that
\* returned 0.
NextTable(i) == CHOOSE j \in (i + 1) .. (Len(order) + 1) :
                   /\ j <= Len(order) => order[j].kind # order[i].kind
                   /\ \A l \in i .. (j - 1) : order[l].kind = order[i].kind

\* One field of Encode's Iterate, which visits the fields in the same order.
EncodeField ==
    /\ phase = "encode"
    /\ next <= Len(order)
    /\ LET field == order[next]
       IN  IF EncodedLength(field) > LengthRemain
           THEN next' = NextTable(next) /\ UNCHANGED <<wire, ret>>
           ELSE /\ next' = next + 1
                /\ wire' = [wire EXCEPT !.fields = Append(@, field)]
                /\ ret' = ret + EncodedLength(field)
    /\ UNCHANGED <<phase, obj, got, left, order, size, remain>>

-----------------------------------------------------------------------------
(* Receiving: read a header, read payload_length bytes, DecodeWithHeader. *)

\* SetRawHeader and the service name.  raw_length is the payload_length of the
\* header just read.
Receive ==
    /\ phase = "encode"
    /\ next > Len(order)
    /\ phase' = "decode"
    /\ got' = [Blank EXCEPT !.type = wire.type, !.trace = wire.trace,
                            !.service = wire.service]
    /\ remain' = wire.payload_length - ServiceLength(wire.service)
    /\ next' = 1
    /\ UNCHANGED <<obj, left, order, size, ret, wire>>

\* One turn of DecodeWithHeader's loop; a field that is longer than what
\* remains makes it return nullptr.
TakeField ==
    /\ phase = "decode"
    /\ remain > 0
    /\ next <= Len(wire.fields)
    /\ LET field == wire.fields[next]
       IN  IF TakenLength(field) > remain
           THEN phase' = "refused" /\ UNCHANGED <<got, remain, next>>
           ELSE /\ got' = Add(got, field.name, field.kind, field.value)
                /\ remain' = remain - TakenLength(field)
                /\ next' = next + 1
                /\ UNCHANGED phase
    /\ UNCHANGED <<obj, left, order, size, ret, wire>>

\* The loop ends: the receiver has the object, and both buffers are consumed.
Received ==
    /\ phase = "decode"
    /\ remain = 0
    /\ phase' = "hand"
    /\ obj' = got
    /\ got' = Blank
    /\ order' = <<>>
    /\ wire' = NoBytes
    /\ size' = 0 /\ ret' = 0 /\ next' = 0 /\ remain' = 0
    /\ UNCHANGED left

-----------------------------------------------------------------------------
Init == /\ phase = "hand"
        /\ \E c \in Constructor, s \in Text, t \in Trace : \E v \in Arguments(c) :
              obj = Create(c, s, t, v)
        /\ got = Blank
        /\ left = {} /\ order = <<>>
        /\ size = 0 /\ ret = 0 /\ next = 0 /\ remain = 0
        /\ wire = NoBytes

Next == \/ New \/ AddField \/ RemoveField \/ SetServiceName \/ SetTraceId
        \/ GetEncodedSize \/ Measure \/ EncodeHeader \/ EncodeField
        \/ Receive \/ TakeField \/ Received

Spec == Init /\ [][Next]_vars

-----------------------------------------------------------------------------
Objects == [type : {TypeOf(c) : c \in Constructor}, trace : Trace,
            service : Text \cup {None},
            names : [Field -> {0} \cup Kind],
            members : [Kind -> [Field -> Text \cup Number \cup {None}]]]

Placed == {x \in [kind : Kind, name : Field, value : Text \cup Number, at : Nat] :
             x.value \in Value(x.kind)}

Buffers == [type : {TypeOf(c) : c \in Constructor}, trace : Trace,
            service : Text \cup {None}, payload_length : Nat,
            content_offset : Nat, fields : Seq(Placed)]

\* Every table holds values of its own kind, and every length and place is a
\* natural number (blade_object.h, opr.cc).
TypeOK ==
    /\ phase \in {"hand", "measure", "encode", "decode", "refused"}
    /\ {obj, got} \subseteq Objects
    /\ \A o \in {obj, got}, k \in Kind, f \in Field :
          o.members[k][f] \in Value(k) \cup {None}
    /\ left \subseteq Kind \X Field
    /\ order \in Seq(Placed)
    /\ wire \in Buffers
    /\ {size, ret, next, remain} \subseteq Nat

\* name_ and the member tables always tell the same story: a field is in one
\* table, the one name_ says, or in none.  Iterate (and so the length and the
\* bytes of a message) follows the tables, while Contains and the getters
\* follow name_ (blade_object.cc:147-255).
TablesAgree ==
    \A o \in {obj, got}, k \in Kind, f \in Field :
       o.members[k][f] # None <=> o.names[f] = k

\* The three computations of the length of a message agree: Encode never writes
\* past the buffer that GetEncodedSize sized and fills it to the last byte,
\* content_offset is where the first field starts, and the decoder runs out of
\* bytes exactly when it runs out of fields, never inside one
\* (blade_object.cc:466-493, opr.cc:18-106).
LengthsAgree ==
    /\ phase = "encode" =>
          /\ ret <= HeaderSize + wire.payload_length
          /\ next = 1 => ret = wire.content_offset
          /\ next > Len(order) => ret = HeaderSize + wire.payload_length
    /\ phase = "decode" => (remain = 0 <=> next > Len(wire.fields))
    /\ phase # "refused"

\* The object keeps the promise of a message: what the getters of the receiver
\* return is what those of the sender returned when it was sent, after any
\* history of edits and hops (blade_object.cc, opr.cc).
Meaning == [type |-> obj.type, trace |-> obj.trace, service |-> obj.service,
            content |-> [f \in Field |-> [k \in Kind |-> Get(obj, f, k)]]]

Message == INSTANCE MessageSpec WITH
              message <- Meaning,
              where <- IF phase = "hand" THEN "hand" ELSE "way"

Arrives == Message!Spec
=============================================================================
