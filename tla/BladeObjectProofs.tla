------------------------- MODULE BladeObjectProofs -------------------------
(***************************************************************************)
(* Proofs about BladeObject: its two tables agree, its three lengths agree, *)
(* and it keeps the promise of MessageSpec, for every set of texts, names,  *)
(* numbers and traces and every assignment of lengths.                      *)
(***************************************************************************)
EXTENDS BladeObject, SequenceTheorems, TLAPS

\* Where field i starts, counted from the end of the service name.
At(i) == IF i <= Len(order) THEN order[i].at ELSE size

\* An object whose tables hold values of their kinds and agree with its names.
Good(o) ==
    /\ o \in Objects
    /\ \A k \in Kind, f \in Field :
          /\ o.members[k][f] \in Value(k) \cup {None}
          /\ o.members[k][f] # None <=> o.names[f] = k

Typed ==
    /\ phase \in {"hand", "measure", "encode", "decode"}
    /\ left \subseteq Kind \X Field
    /\ order \in Seq(Placed)
    /\ wire \in Buffers
    /\ size \in Nat /\ ret \in Nat /\ next \in Nat /\ remain \in Nat

\* The fields measured so far lie one after the other, in size bytes.
Laid ==
    /\ At(1) = 0
    /\ \A i \in 1 .. Len(order) :
          /\ At(i + 1) = order[i].at + MeasuredLength(order[i])
          /\ order[i].at + MeasuredLength(order[i]) <= size

\* The header on the wire is the sender's.
Headed ==
    /\ obj.service \in Text
    /\ phase = "hand" => order = <<>>
    /\ phase \in {"encode", "decode"} =>
          /\ left = {}
          /\ next \in 1 .. (Len(order) + 1)
          /\ wire.type = obj.type
          /\ wire.trace = obj.trace
          /\ wire.service = obj.service
          /\ wire.payload_length = PayloadLength(size, obj.service)
          /\ wire.content_offset = HeaderSize + ServiceLength(obj.service)

\* What Encode has written, and what the decoder has still to read.
Walked ==
    /\ phase = "encode" =>
          /\ Len(wire.fields) = next - 1
          /\ \A i \in 1 .. (next - 1) : wire.fields[i] = order[i]
          /\ ret = HeaderSize + ServiceLength(obj.service) + At(next)
    /\ phase = "decode" =>
          /\ wire.fields = order
          /\ remain = size - At(next)

Seen(k, f, i) == \E j \in 1 .. i : order[j].kind = k /\ order[j].name = f

\* Iterate has visited, or has still to visit, exactly the object's fields.
Covered ==
    phase # "hand" =>
       /\ \A k \in Kind, f \in Field :
             obj.members[k][f] # None <=> \/ <<k, f>> \in left
                                          \/ Seen(k, f, Len(order))
       /\ \A i \in 1 .. Len(order) :
             order[i].value = obj.members[order[i].kind][order[i].name]

\* The receiver's object holds the fields taken so far.
Decoded ==
    phase = "decode" =>
       /\ got.type = obj.type
       /\ got.trace = obj.trace
       /\ got.service = obj.service
       /\ \A k \in Kind, f \in Field :
             got.members[k][f] = IF Seen(k, f, next - 1)
                                 THEN obj.members[k][f] ELSE None

IInv == /\ Good(obj) /\ Good(got)
        /\ Typed /\ Laid /\ Headed /\ Walked /\ Covered /\ Decoded

-----------------------------------------------------------------------------
(* The lengths. *)

\* The header, the encoders and the decoder count the same bytes for a field,
\* and never none.
LEMMA Lengths ==
  ASSUME NEW x \in Placed
  PROVE  /\ MeasuredLength(x) \in Nat
         /\ MeasuredLength(x) > 0
         /\ EncodedLength(x) = MeasuredLength(x)
         /\ TakenLength(x) = MeasuredLength(x)
<1>1. Length[x.name] \in Nat
  BY LengthAssumption DEF Placed
<1>2. x.kind \in 1 .. 5 /\ x.value \in Value(x.kind)
  BY DEF Placed, Kind, Byte, String
<1>3. x.kind = 5 => Length[x.value] \in Nat
  BY <1>2, LengthAssumption DEF Value, String
<1>4. ValueLength(x.kind, x.value) \in Nat
  BY <1>2, <1>3 DEF ValueLength, Byte, I32, I64, F64, String, WordSize
<1> QED
  BY <1>1, <1>4 DEF MeasuredLength, EncodedLength, TakenLength, TagSize, WordSize

LEMMA ServiceLengths ==
  ASSUME NEW s \in Text
  PROVE  ServiceLength(s) \in Nat
BY LengthAssumption DEF ServiceLength, WordSize

-----------------------------------------------------------------------------
(* What the operations on an object keep. *)

LEMMA KindsAreKinds ==
  /\ 0 \notin Kind
  /\ \A f \in Field : KindOf(f) \in Kind
  /\ \A k \in Kind : Value(k) \subseteq Text \cup Number
BY DEF Kind, KindOf, Byte, I32, String, Value

LEMMA BlankGood == Good(Blank)
<1>1. "request" \in {TypeOf(c) : c \in Constructor}
  BY DEF TypeOf, Constructor, Form
<1>2. Blank \in Objects
  BY <1>1, TraceAssumption DEF Blank, Objects
<1> QED BY <1>2, KindsAreKinds DEF Blank, Good

LEMMA NoBytesTyped == NoBytes \in Buffers
<1>1. "request" \in {TypeOf(c) : c \in Constructor}
  BY DEF TypeOf, Constructor, Form
<1> QED BY <1>1, TraceAssumption DEF NoBytes, Buffers

LEMMA CreateGood ==
  ASSUME NEW c \in Constructor, NEW s \in Text, NEW t \in Trace,
         NEW v \in Arguments(c)
  PROVE  Good(Create(c, s, t, v)) /\ Create(c, s, t, v).service = s
<1> DEFINE o == Create(c, s, t, v)
<1>1. Form[c] \subseteq Field
  BY DEF Constructor, Form, Field
<1>2. \A f \in Form[c] : v[f] \in Value(KindOf(f))
  BY DEF Arguments
<1>3. /\ o.type = TypeOf(c) /\ o.trace = t /\ o.service = s
      /\ o.names = [f \in Field |-> IF f \in Form[c] THEN KindOf(f) ELSE 0]
      /\ o.members = [k \in Kind |-> [f \in Field |->
                        IF f \in Form[c] /\ k = KindOf(f) THEN v[f] ELSE None]]
      /\ o = [type |-> o.type, trace |-> o.trace, service |-> o.service,
              names |-> o.names, members |-> o.members]
  BY DEF Create
<1>4. \A k \in Kind, f \in Field :
        o.members[k][f] = IF f \in Form[c] /\ k = KindOf(f) THEN v[f] ELSE None
  BY <1>3
<1>5. \A f \in Form[c] : v[f] # None /\ v[f] \in Text \cup Number
  BY <1>1, <1>2, KindsAreKinds, NoneAssumption
<1>6. o.names \in [Field -> {0} \cup Kind]
  BY <1>3, KindsAreKinds
<1>7. o.members \in [Kind -> [Field -> Text \cup Number \cup {None}]]
  BY <1>3, <1>5
<1>8. o \in Objects
  BY <1>3, <1>6, <1>7 DEF Objects
<1>9. \A k \in Kind, f \in Field : o.members[k][f] \in Value(k) \cup {None}
  BY <1>2, <1>4
<1>10. \A k \in Kind, f \in Field : o.members[k][f] # None <=> o.names[f] = k
  BY <1>3, <1>4, <1>5, KindsAreKinds
<1> QED BY <1>3, <1>8, <1>9, <1>10 DEF Good

\* What Add changes: one entry of each table, and only of an absent field.
LEMMA AddEntry ==
  ASSUME NEW o, Good(o), NEW f \in Field, NEW k \in Kind, NEW v \in Value(k),
         ~Contains(o, f)
  PROVE  LET a == Add(o, f, k, v)
         IN  /\ a \in Objects
             /\ a.type = o.type /\ a.trace = o.trace /\ a.service = o.service
             /\ \A g \in Field : a.names[g] = IF g = f THEN k ELSE o.names[g]
             /\ \A j \in Kind, g \in Field :
                  a.members[j][g] = IF j = k /\ g = f THEN v ELSE o.members[j][g]
<1>1. /\ o \in Objects
      /\ o.names \in [Field -> {0} \cup Kind]
      /\ o.members \in [Kind -> [Field -> Text \cup Number \cup {None}]]
  BY DEF Good, Objects
<1>2. v \in Text \cup Number
  BY KindsAreKinds
<1> DEFINE n == [o.names EXCEPT ![f] = k]
           m == [o.members EXCEPT ![k] = [@ EXCEPT ![f] = v]]
<1>3. n \in [Field -> {0} \cup Kind]
  BY <1>1
<1>4. m \in [Kind -> [Field -> Text \cup Number \cup {None}]]
  BY <1>1, <1>2
<1>5. Add(o, f, k, v) = [o EXCEPT !.names = n, !.members = m]
  BY <1>1 DEF Add, Objects
<1>6. /\ Add(o, f, k, v) \in Objects
      /\ Add(o, f, k, v).type = o.type /\ Add(o, f, k, v).trace = o.trace
      /\ Add(o, f, k, v).service = o.service
      /\ Add(o, f, k, v).names = n /\ Add(o, f, k, v).members = m
  <2> HIDE DEF n, m
  <2> QED BY <1>1, <1>3, <1>4, <1>5 DEF Objects
<1> QED BY <1>1, <1>6

LEMMA AddGood ==
  ASSUME NEW o, Good(o), NEW f \in Field, NEW k \in Kind, NEW v \in Value(k)
  PROVE  Good(Add(o, f, k, v)) /\ Add(o, f, k, v).service = o.service
<1>1. CASE Contains(o, f)
  BY <1>1 DEF Add
<1>2. CASE ~Contains(o, f)
  <2> DEFINE a == Add(o, f, k, v)
  <2>1. /\ a \in Objects /\ a.service = o.service
        /\ \A g \in Field : a.names[g] = IF g = f THEN k ELSE o.names[g]
        /\ \A j \in Kind, g \in Field :
             a.members[j][g] = IF j = k /\ g = f THEN v ELSE o.members[j][g]
    BY <1>2, AddEntry
  <2>2. v # None
    BY KindsAreKinds, NoneAssumption
  <2>3. o.names[f] = 0
    BY <1>2 DEF Contains
  <2> HIDE DEF a
  <2>4. \A j \in Kind, g \in Field : /\ a.members[j][g] \in Value(j) \cup {None}
                                    /\ a.members[j][g] # None <=> a.names[g] = j
    BY <2>1, <2>2, <2>3, KindsAreKinds DEF Good
  <2> QED BY <2>1, <2>4 DEF Good, a
<1> QED BY <1>1, <1>2

LEMMA RemoveGood ==
  ASSUME NEW o, Good(o), NEW f \in Field
  PROVE  LET a == Remove(o, f)
         IN  /\ Good(a)
             /\ a.type = o.type /\ a.trace = o.trace /\ a.service = o.service
             /\ \A j \in Kind, g \in Field :
                  a.members[j][g] = IF g = f THEN None ELSE o.members[j][g]
<1> DEFINE a == Remove(o, f)
<1>1. /\ o \in Objects
      /\ o.names \in [Field -> {0} \cup Kind]
      /\ o.members \in [Kind -> [Field -> Text \cup Number \cup {None}]]
  BY DEF Good, Objects
<1>2. CASE ~Contains(o, f)
  <2>1. a = o
    BY <1>2 DEF Remove
  <2>2. \A j \in Kind : o.members[j][f] = None
    BY <1>2, KindsAreKinds DEF Good, Contains
  <2> QED BY <2>1, <2>2
<1>3. CASE Contains(o, f)
  <2>1. o.names[f] \in Kind
    BY <1>1, <1>3 DEF Contains
  <2> DEFINE n == [o.names EXCEPT ![f] = 0]
             m == [o.members EXCEPT ![o.names[f]] = [@ EXCEPT ![f] = None]]
  <2>2. n \in [Field -> {0} \cup Kind]
    BY <1>1
  <2>3. m \in [Kind -> [Field -> Text \cup Number \cup {None}]]
    BY <1>1, <2>1
  <2>4. a = [o EXCEPT !.names = n, !.members = m]
    BY <1>1, <1>3 DEF Remove, Objects
  <2>5. \A g \in Field : n[g] = IF g = f THEN 0 ELSE o.names[g]
    BY <1>1
  <2>6. \A j \in Kind, g \in Field :
           m[j][g] = IF j = o.names[f] /\ g = f THEN None ELSE o.members[j][g]
    BY <1>1, <2>1
  <2>7. \A j \in Kind : j # o.names[f] => o.members[j][f] = None
    BY DEF Good
  <2> HIDE DEF n, m
  <2>8. /\ a \in Objects
        /\ a.type = o.type /\ a.trace = o.trace /\ a.service = o.service
        /\ a.names = n /\ a.members = m
    BY <1>1, <2>2, <2>3, <2>4 DEF Objects
  <2> HIDE DEF a
  <2>9. \A j \in Kind, g \in Field :
           a.members[j][g] = IF g = f THEN None ELSE o.members[j][g]
    BY <2>6, <2>7, <2>8
  <2>10. \A j \in Kind, g \in Field :
            /\ a.members[j][g] \in Value(j) \cup {None}
            /\ a.members[j][g] # None <=> a.names[g] = j
    BY <2>5, <2>8, <2>9, KindsAreKinds DEF Good
  <2> QED BY <2>8, <2>9, <2>10 DEF Good, a
<1> QED BY <1>2, <1>3

-----------------------------------------------------------------------------
(* Every step keeps IInv. *)

LEMMA EditKeeps ==
  ASSUME IInv, phase = "hand", Idle, Good(obj'), obj'.service \in Text
  PROVE  IInv'
<1>1. Good(got)' /\ Good(obj)'
  BY DEF IInv, Idle, Good
<1>2. Typed' /\ Laid'
  BY DEF IInv, Idle, Typed, Laid, At
<1>3. Headed' /\ Walked' /\ Covered' /\ Decoded'
  BY DEF IInv, Idle, Headed, Walked, Covered, Decoded
<1> QED BY <1>1, <1>2, <1>3 DEF IInv

LEMMA NewKeeps ==
  ASSUME IInv, New
  PROVE  IInv'
<1>1. PICK c \in Constructor, s \in Text, t \in Trace : \E v \in Arguments(c) :
         obj' = Create(c, s, t, v)
  BY DEF New
<1>2. Good(obj') /\ obj'.service \in Text
  BY <1>1, CreateGood
<1> QED BY <1>2, EditKeeps DEF New

LEMMA AddFieldKeeps ==
  ASSUME IInv, AddField
  PROVE  IInv'
<1>1. PICK f \in Extra, k \in Kind : \E v \in Value(k) : obj' = Add(obj, f, k, v)
  BY DEF AddField
<1>2. Good(obj) /\ obj.service \in Text /\ f \in Field
  BY DEF IInv, Headed, Field
<1>3. Good(obj') /\ obj'.service \in Text
  BY <1>1, <1>2, AddGood
<1> QED BY <1>3, EditKeeps DEF AddField

LEMMA RemoveFieldKeeps ==
  ASSUME IInv, RemoveField
  PROVE  IInv'
<1>1. PICK f \in Extra : obj' = Remove(obj, f)
  BY DEF RemoveField
<1>2. Good(obj) /\ obj.service \in Text /\ f \in Field
  BY DEF IInv, Headed, Field
<1>3. Good(obj') /\ obj'.service \in Text
  BY <1>1, <1>2, RemoveGood
<1> QED BY <1>3, EditKeeps DEF RemoveField

LEMMA SetKeeps ==
  ASSUME IInv, SetServiceName \/ SetTraceId
  PROVE  IInv'
<1>1. Good(obj) /\ obj.service \in Text /\ obj \in Objects
  BY DEF IInv, Headed, Good
<1>2. CASE SetServiceName
  <2>1. PICK s \in Text : obj' = [obj EXCEPT !.service = s]
    BY <1>2 DEF SetServiceName
  <2>2. /\ obj' \in Objects /\ obj'.service \in Text
        /\ obj'.names = obj.names /\ obj'.members = obj.members
    BY <1>1, <2>1 DEF Objects
  <2>3. Good(obj')
    BY <1>1, <2>2 DEF Good
  <2> QED BY <1>2, <2>2, <2>3, EditKeeps DEF SetServiceName
<1>3. CASE SetTraceId
  <2>1. PICK t \in Trace : obj' = [obj EXCEPT !.trace = t]
    BY <1>3 DEF SetTraceId
  <2>2. /\ obj' \in Objects /\ obj'.service \in Text
        /\ obj'.names = obj.names /\ obj'.members = obj.members
    BY <1>1, <2>1 DEF Objects
  <2>3. Good(obj')
    BY <1>1, <2>2 DEF Good
  <2> QED BY <1>3, <2>2, <2>3, EditKeeps DEF SetTraceId
<1> QED BY <1>2, <1>3

LEMMA GetEncodedSizeKeeps ==
  ASSUME IInv, GetEncodedSize
  PROVE  IInv'
<1>1. /\ phase = "hand" /\ order = <<>>
      /\ phase' = "measure" /\ left' = Members(obj)
      /\ UNCHANGED <<obj, got, order, size, ret, wire, next, remain>>
  BY DEF IInv, Headed, GetEncodedSize
<1>2. Good(got)' /\ Good(obj)' /\ Laid'
  BY <1>1 DEF IInv, Good, Laid, At
<1>3. Typed'
  BY <1>1 DEF IInv, Typed, Members
<1>4. Headed' /\ Walked' /\ Decoded'
  BY <1>1 DEF IInv, Headed, Walked, Decoded
<1>5. Covered'
  BY <1>1 DEF Covered, Seen, Members
<1> QED BY <1>2, <1>3, <1>4, <1>5 DEF IInv

LEMMA MeasureKeeps ==
  ASSUME IInv, Measure
  PROVE  IInv'
<1>1. PICK x \in left :
        /\ LET field == [kind |-> x[1], name |-> x[2],
                         value |-> obj.members[x[1]][x[2]], at |-> size]
           IN  /\ order' = Append(order, field)
               /\ size' = size + MeasuredLength(field)
        /\ left' = left \ {x}
  BY DEF Measure
<1> DEFINE field == [kind |-> x[1], name |-> x[2],
                     value |-> obj.members[x[1]][x[2]], at |-> size]
<1>2. /\ phase = "measure"
      /\ UNCHANGED <<phase, obj, got, ret, wire, next, remain>>
  BY DEF Measure
<1>3. Typed /\ Good(obj) /\ Good(got)
  BY DEF IInv
<1>4. x[1] \in Kind /\ x[2] \in Field /\ x = <<x[1], x[2]>>
  BY <1>3 DEF Typed
<1>5. obj.members[x[1]][x[2]] # None
  BY <1>2, <1>4 DEF IInv, Covered
<1>6. obj.members[x[1]][x[2]] \in Value(x[1])
  BY <1>3, <1>4, <1>5 DEF Good
<1>7. field \in Placed
  BY <1>3, <1>4, <1>6, KindsAreKinds DEF Placed, Typed
<1>8. MeasuredLength(field) \in Nat
  BY <1>7, Lengths
<1>9. /\ order' = Append(order, field)
      /\ size' = size + MeasuredLength(field)
      /\ field.kind = x[1] /\ field.name = x[2] /\ field.at = size
      /\ field.value = obj.members[x[1]][x[2]]
  BY <1>1
<1> HIDE DEF field
<1>10. /\ order' \in Seq(Placed)
       /\ Len(order') = Len(order) + 1
       /\ \A i \in 1 .. Len(order) : order'[i] = order[i]
       /\ order'[Len(order) + 1] = field
       /\ Len(order) \in Nat
  BY <1>3, <1>7, <1>9 DEF Typed
<1>11. Typed'
  BY <1>1, <1>2, <1>3, <1>8, <1>9, <1>10 DEF Typed
<1>12. Laid'
  <2>1. \A i \in 1 .. Len(order) :
           /\ At(i + 1) = order[i].at + MeasuredLength(order[i])
           /\ order[i].at + MeasuredLength(order[i]) <= size
    BY DEF IInv, Laid
  <2>2. size \in Nat /\ size' \in Nat /\ size <= size'
    BY <1>3, <1>8, <1>9 DEF Typed
  <2>3. At(1)' = 0
    BY <1>9, <1>10 DEF IInv, Laid, At
  <2>4. \A i \in 1 .. Len(order) : At(i + 1)' = At(i + 1)
    BY <1>9, <1>10 DEF At
  <2>5. ASSUME NEW i \in 1 .. Len(order')
        PROVE  /\ At(i + 1)' = order'[i].at + MeasuredLength(order'[i])
               /\ order'[i].at + MeasuredLength(order'[i]) <= size'
    <3>1. CASE i \in 1 .. Len(order)
      <4>1. order[i].at + MeasuredLength(order[i]) \in Nat
        <5>1. order[i] \in Placed
          BY <1>3, <3>1 DEF Typed
        <5>2. order[i].at \in Nat
          BY <5>1 DEF Placed
        <5> QED BY <5>1, <5>2, Lengths
      <4> QED BY <1>10, <2>1, <2>2, <2>4, <3>1, <4>1
    <3>2. CASE i = Len(order) + 1
      <4>1. At(i + 1)' = size'
        BY <1>10, <3>2 DEF At
      <4>2. order'[i] = field
        BY <1>10, <3>2
      <4>3. size' = order'[i].at + MeasuredLength(order'[i])
        BY <1>9, <4>2
      <4> QED BY <2>2, <4>1, <4>3
    <3> QED BY <1>10, <3>1, <3>2
  <2> QED BY <2>3, <2>5 DEF Laid
<1>13. Covered'
  <2>1. ASSUME NEW k \in Kind, NEW f \in Field
        PROVE  Seen(k, f, Len(order))' <=> Seen(k, f, Len(order)) \/ <<k, f>> = x
    BY <1>4, <1>9, <1>10 DEF Seen
  <2>2. \A k \in Kind, f \in Field :
           obj'.members[k][f] # None <=> \/ <<k, f>> \in left'
                                         \/ Seen(k, f, Len(order))'
    BY <1>1, <1>2, <1>4, <1>5, <2>1 DEF IInv, Covered
  <2>3. \A i \in 1 .. Len(order') :
           order'[i].value = obj'.members[order'[i].kind][order'[i].name]
    BY <1>2, <1>9, <1>10 DEF IInv, Covered
  <2> QED BY <2>2, <2>3 DEF Covered
<1>14. Headed' /\ Walked' /\ Decoded'
  BY <1>2 DEF IInv, Headed, Walked, Decoded
<1>15. Good(obj)' /\ Good(got)'
  BY <1>2, <1>3 DEF Good
<1> QED BY <1>11, <1>12, <1>13, <1>14, <1>15 DEF IInv

LEMMA EncodeHeaderKeeps ==
  ASSUME IInv, EncodeHeader
  PROVE  IInv'
<1>1. /\ phase = "measure" /\ left = {} /\ phase' = "encode"
      /\ wire' = [type |-> obj.type, trace |-> obj.trace, service |-> obj.service,
                  payload_length |-> PayloadLength(size, obj.service),
                  content_offset |-> HeaderSize + ServiceLength(obj.service),
                  fields |-> <<>>]
      /\ ret' = HeaderSize + ServiceLength(obj.service)
      /\ next' = 1
      /\ UNCHANGED <<obj, got, left, order, size, remain>>
  BY DEF EncodeHeader
<1>2. Typed /\ Good(obj) /\ Good(got) /\ Laid /\ Headed /\ Covered
  BY DEF IInv
<1>3. ServiceLength(obj.service) \in Nat
  BY <1>2, ServiceLengths DEF Headed
<1>4. Good(obj)' /\ Good(got)'
  BY <1>1, <1>2 DEF Good
<1>5. /\ PayloadLength(size, obj.service) \in Nat
      /\ HeaderSize + ServiceLength(obj.service) \in Nat
  BY <1>2, <1>3 DEF Typed, PayloadLength, HeaderSize
<1>6. /\ obj.type \in {TypeOf(c) : c \in Constructor} /\ obj.trace \in Trace
      /\ obj.service \in Text \cup {None}
  BY <1>2 DEF Good, Objects
<1>7. wire' \in Buffers
  BY <1>1, <1>5, <1>6 DEF Buffers
<1>8. Typed'
  BY <1>1, <1>2, <1>5, <1>7 DEF Typed
<1>9. Laid'
  BY <1>1, <1>2 DEF Laid, At
<1>10. Headed'
  <2>1. Len(order) \in Nat
    BY <1>2 DEF Typed
  <2>2. wire'.payload_length = PayloadLength(size', obj'.service)
    BY <1>1
  <2> QED BY <1>1, <1>2, <2>1, <2>2 DEF Headed
<1>11. Walked'
  <2>1. At(next)' = At(1)
    BY <1>1 DEF At
  <2>2. ret' = HeaderSize + ServiceLength(obj'.service) + At(next)'
    BY <1>1, <1>2, <1>5, <2>1 DEF Laid
  <2>3. wire'.fields = <<>>
    BY <1>1
  <2> QED BY <1>1, <2>2, <2>3 DEF Walked
<1>12. Covered' /\ Decoded'
  BY <1>1, <1>2 DEF Covered, Decoded, Seen
<1> QED BY <1>4, <1>8, <1>9, <1>10, <1>11, <1>12 DEF IInv

\* A field that is not yet passed is one of the fields laid out, and fits in
\* the bytes that follow its start.
LEMMA FieldFits ==
  ASSUME IInv, NEW i \in 1 .. Len(order)
  PROVE  /\ order[i] \in Placed
         /\ MeasuredLength(order[i]) \in Nat /\ MeasuredLength(order[i]) > 0
         /\ At(i) \in Nat /\ At(i) = order[i].at
         /\ At(i + 1) = At(i) + MeasuredLength(order[i])
         /\ At(i) + MeasuredLength(order[i]) <= size
         /\ size \in Nat
<1>1. /\ order[i] \in Placed /\ size \in Nat
  BY DEF IInv, Typed
<1>2. order[i].at \in Nat
  BY <1>1 DEF Placed
<1>3. At(i) = order[i].at
  BY DEF At
<1>4. /\ At(i + 1) = order[i].at + MeasuredLength(order[i])
      /\ order[i].at + MeasuredLength(order[i]) <= size
  BY DEF IInv, Laid
<1> QED BY <1>1, <1>2, <1>3, <1>4, Lengths

LEMMA EncodeFieldKeeps ==
  ASSUME IInv, EncodeField
  PROVE  IInv'
<1> DEFINE field == order[next]
<1>1. /\ phase = "encode" /\ next \in 1 .. Len(order)
      /\ UNCHANGED <<phase, obj, got, left, order, size, remain>>
  BY DEF EncodeField, IInv, Typed, Headed
<1>2. Typed /\ Good(obj) /\ Good(got) /\ Laid /\ Headed /\ Walked /\ Covered
  BY DEF IInv
<1>3. /\ field \in Placed
      /\ MeasuredLength(field) \in Nat
      /\ At(next) \in Nat /\ size \in Nat
      /\ At(next + 1) = At(next) + MeasuredLength(field)
      /\ At(next) + MeasuredLength(field) <= size
  BY <1>1, FieldFits
<1>4. EncodedLength(field) = MeasuredLength(field)
  BY <1>3, Lengths
<1>5. ServiceLength(obj.service) \in Nat
  BY <1>2, ServiceLengths DEF Headed
<1>6. LengthRemain = size
  <2>1. wire.payload_length = size + ServiceLength(obj.service)
    BY <1>1, <1>2 DEF Headed, PayloadLength
  <2> QED BY <1>3, <1>5, <2>1 DEF LengthRemain, HeaderSize
<1>7. /\ next' = next + 1
      /\ wire' = [wire EXCEPT !.fields = Append(@, field)]
      /\ ret' = ret + MeasuredLength(field)
  <2> HIDE DEF field
  <2>1. ~(EncodedLength(field) > LengthRemain)
    BY <1>3, <1>4, <1>6
  <2> USE DEF field
  <2> QED BY <1>4, <2>1 DEF EncodeField
<1> HIDE DEF field
<1>8. wire.fields \in Seq(Placed) /\ wire \in Buffers
  BY <1>2 DEF Typed, Buffers
<1>9. /\ wire' \in Buffers
      /\ wire'.type = wire.type /\ wire'.trace = wire.trace
      /\ wire'.service = wire.service
      /\ wire'.payload_length = wire.payload_length
      /\ wire'.content_offset = wire.content_offset
      /\ wire'.fields = Append(wire.fields, field)
  <2>1. Append(wire.fields, field) \in Seq(Placed)
    BY <1>3, <1>8
  <2> QED BY <1>7, <1>8, <2>1 DEF Buffers
<1>10. Good(obj)' /\ Good(got)'
  BY <1>1, <1>2 DEF Good
<1>11. Typed'
  BY <1>1, <1>2, <1>3, <1>7, <1>9 DEF Typed
<1>12. Laid'
  BY <1>1, <1>2 DEF Laid, At
<1>13. Headed'
  BY <1>1, <1>2, <1>7, <1>9 DEF Headed
<1>14. Walked'
  <2>1. Len(wire.fields) = next - 1 /\ \A i \in 1 .. (next - 1) : wire.fields[i] = order[i]
    BY <1>1, <1>2 DEF Walked
  <2>2. /\ Len(wire'.fields) = next' - 1
        /\ \A i \in 1 .. (next' - 1) : wire'.fields[i] = order'[i]
    BY <1>1, <1>7, <1>8, <1>9, <2>1 DEF field
  <2>3. At(next)' = At(next + 1)
    BY <1>1, <1>7 DEF At
  <2>4. ret = HeaderSize + ServiceLength(obj.service) + At(next)
    BY <1>1, <1>2 DEF Walked
  <2>5. ret' = HeaderSize + ServiceLength(obj'.service) + At(next)'
    BY <1>1, <1>3, <1>5, <1>7, <2>3, <2>4 DEF HeaderSize
  <2> QED BY <1>1, <2>2, <2>5 DEF Walked
<1>15. Covered' /\ Decoded'
  BY <1>1, <1>2 DEF Covered, Decoded, Seen
<1> QED BY <1>10, <1>11, <1>12, <1>13, <1>14, <1>15 DEF IInv

LEMMA ReceiveKeeps ==
  ASSUME IInv, Receive
  PROVE  IInv'
<1>1. /\ phase = "encode" /\ phase' = "decode"
      /\ next = Len(order) + 1 /\ next' = 1
      /\ got' = [Blank EXCEPT !.type = wire.type, !.trace = wire.trace,
                              !.service = wire.service]
      /\ remain' = wire.payload_length - ServiceLength(wire.service)
      /\ UNCHANGED <<obj, left, order, size, ret, wire>>
  BY DEF Receive, IInv, Typed, Headed
<1>2. Typed /\ Good(obj) /\ Good(got) /\ Laid /\ Headed /\ Walked /\ Covered
  BY DEF IInv
<1>3. /\ wire.type = obj.type /\ wire.trace = obj.trace
      /\ wire.service = obj.service
      /\ wire.payload_length = PayloadLength(size, obj.service)
  BY <1>1, <1>2 DEF Headed
<1>4. ServiceLength(obj.service) \in Nat /\ size \in Nat
  BY <1>2, ServiceLengths DEF Headed, Typed
<1>5. remain' = size /\ remain' \in Nat
  BY <1>1, <1>3, <1>4 DEF PayloadLength
<1>6. /\ obj.type \in {TypeOf(c) : c \in Constructor} /\ obj.trace \in Trace
      /\ obj.service \in Text
  BY <1>2 DEF Good, Objects, Headed
<1>7. /\ got'.type = obj.type /\ got'.trace = obj.trace
      /\ got'.service = obj.service
      /\ got'.names = Blank.names /\ got'.members = Blank.members
      /\ got' \in Objects
  <2>1. Blank \in Objects
    BY BlankGood DEF Good
  <2> QED BY <1>1, <1>3, <1>6, <2>1 DEF Blank, Objects
<1>8. Good(got)' /\ Good(obj)'
  BY <1>1, <1>2, <1>7, BlankGood DEF Good
<1>9. Typed'
  BY <1>1, <1>2, <1>5 DEF Typed
<1>10. Laid'
  BY <1>1, <1>2 DEF Laid, At
<1>11. Headed'
  <2>1. Len(order) \in Nat
    BY <1>2 DEF Typed
  <2> QED BY <1>1, <1>2, <2>1 DEF Headed
<1>12. Walked'
  <2>1. wire.fields \in Seq(Placed) /\ order \in Seq(Placed)
    BY <1>2 DEF Typed, Buffers
  <2>2. Len(wire.fields) = Len(order)
    BY <1>1, <1>2, <2>1 DEF Walked
  <2>3. \A i \in 1 .. Len(order) : wire.fields[i] = order[i]
    BY <1>1, <1>2, <2>1 DEF Walked
  <2>4. wire.fields = order
    BY <2>1, <2>2, <2>3, SeqEqual
  <2>5. At(next)' = 0
    BY <1>1, <1>2 DEF Laid, At
  <2> QED BY <1>1, <1>4, <1>5, <2>4, <2>5 DEF Walked
<1>13. Covered'
  BY <1>1, <1>2 DEF Covered, Seen
<1>14. Decoded'
  <2>1. \A k \in Kind, f \in Field : got'.members[k][f] = None
    BY <1>7 DEF Blank
  <2>2. \A k \in Kind, f \in Field : ~Seen(k, f, next - 1)'
    BY <1>1 DEF Seen
  <2> QED BY <1>1, <1>7, <2>1, <2>2 DEF Decoded
<1> QED BY <1>8, <1>9, <1>10, <1>11, <1>12, <1>13, <1>14 DEF IInv

LEMMA TakeFieldKeeps ==
  ASSUME IInv, TakeField
  PROVE  IInv'
<1> DEFINE field == order[next]
<1>1. Typed /\ Good(obj) /\ Good(got) /\ Laid /\ Headed /\ Covered
  BY DEF IInv
<1>2. /\ phase = "decode" /\ next \in 1 .. Len(order)
      /\ wire.fields = order /\ remain = size - At(next)
      /\ UNCHANGED <<obj, left, order, size, ret, wire>>
  BY DEF TakeField, IInv, Typed, Walked, Headed
<1>3. /\ field \in Placed
      /\ MeasuredLength(field) \in Nat
      /\ At(next) \in Nat /\ size \in Nat
      /\ At(next + 1) = At(next) + MeasuredLength(field)
      /\ At(next) + MeasuredLength(field) <= size
  BY <1>2, FieldFits
<1>4. TakenLength(field) = MeasuredLength(field)
  BY <1>3, Lengths
<1>5. /\ got' = Add(got, field.name, field.kind, field.value)
      /\ remain' = remain - MeasuredLength(field)
      /\ next' = next + 1
      /\ phase' = phase
  <2> HIDE DEF field
  <2>1. ~(TakenLength(field) > remain)
    BY <1>2, <1>3, <1>4
  <2> USE DEF field
  <2> QED BY <1>2, <1>4, <2>1 DEF TakeField
<1> HIDE DEF field
<1>6. /\ field.kind \in Kind /\ field.name \in Field
      /\ field.value \in Value(field.kind) /\ field.value # None
  BY <1>3, NoneAssumption DEF Placed
<1>7. Good(got)' /\ Good(obj)'
  <2>1. Good(Add(got, field.name, field.kind, field.value))
    BY <1>1, <1>6, AddGood
  <2> QED BY <1>1, <1>2, <1>5, <2>1 DEF Good
<1>8. remain' \in Nat /\ remain' = size - At(next + 1)
  BY <1>2, <1>3, <1>5
<1>9. Typed'
  BY <1>1, <1>2, <1>5, <1>8 DEF Typed
<1>10. Laid'
  BY <1>1, <1>2 DEF Laid, At
<1>11. Headed'
  BY <1>1, <1>2, <1>5 DEF Headed
<1>12. Walked'
  <2>1. At(next)' = At(next + 1)
    BY <1>2, <1>5 DEF At
  <2> QED BY <1>2, <1>5, <1>8, <2>1 DEF Walked
<1>13. Covered'
  BY <1>1, <1>2, <1>5 DEF Covered, Seen
<1>14. Decoded'
  <2>1. /\ got.type = obj.type /\ got.trace = obj.trace
        /\ got.service = obj.service
        /\ \A k \in Kind, f \in Field :
              got.members[k][f] = IF Seen(k, f, next - 1)
                                  THEN obj.members[k][f] ELSE None
    BY <1>2 DEF IInv, Decoded
  <2>2. \A k \in Kind, f \in Field :
           Seen(k, f, next - 1)' <=> \/ Seen(k, f, next - 1)
                                     \/ k = field.kind /\ f = field.name
    BY <1>2, <1>5 DEF Seen, field
  <2>3. /\ field.value = obj.members[field.kind][field.name]
        /\ obj.members[field.kind][field.name] # None
    BY <1>1, <1>2, <1>6 DEF Covered, field
  <2>4. CASE Contains(got, field.name)
    <3>1. got.names[field.name] \in Kind
      BY <1>1, <1>6, <2>4 DEF Contains, Good, Objects
    <3>2. got.members[got.names[field.name]][field.name] # None
      BY <1>1, <1>6, <3>1 DEF Good
    <3>3. Seen(got.names[field.name], field.name, next - 1)
      BY <1>6, <2>1, <3>1, <3>2
    <3>4. obj.members[got.names[field.name]][field.name] # None
      BY <1>6, <2>1, <3>1, <3>2
    <3>5. got.names[field.name] = field.kind
      BY <1>1, <1>6, <2>3, <3>1, <3>4 DEF Good
    <3>6. \A k \in Kind, f \in Field :
             Seen(k, f, next - 1)' <=> Seen(k, f, next - 1)
      BY <2>2, <3>3, <3>5
    <3>7. got' = got
      BY <1>5, <2>4 DEF Add
    <3> QED BY <1>2, <2>1, <3>6, <3>7 DEF Decoded
  <2>5. CASE ~Contains(got, field.name)
    <3>1. /\ got'.type = got.type /\ got'.trace = got.trace
          /\ got'.service = got.service
          /\ \A k \in Kind, f \in Field :
               got'.members[k][f] = IF k = field.kind /\ f = field.name
                                    THEN field.value ELSE got.members[k][f]
      BY <1>1, <1>5, <1>6, <2>5, AddEntry
    <3>2. \A k \in Kind, f \in Field :
             got'.members[k][f] = IF Seen(k, f, next - 1)'
                                  THEN obj.members[k][f] ELSE None
      BY <2>1, <2>2, <2>3, <3>1
    <3> QED BY <1>2, <2>1, <3>1, <3>2 DEF Decoded
  <2> QED BY <2>4, <2>5
<1> QED BY <1>7, <1>9, <1>10, <1>11, <1>12, <1>13, <1>14 DEF IInv

LEMMA ReceivedKeeps ==
  ASSUME IInv, Received
  PROVE  IInv'
<1>1. /\ phase = "decode" /\ phase' = "hand"
      /\ obj' = got /\ got' = Blank /\ order' = <<>> /\ wire' = NoBytes
      /\ size' = 0 /\ ret' = 0 /\ next' = 0 /\ remain' = 0
      /\ UNCHANGED left
  BY DEF Received
<1>2. Typed /\ Good(got) /\ Headed /\ Decoded
  BY DEF IInv
<1>3. Good(obj)' /\ Good(got)'
  BY <1>1, <1>2, BlankGood DEF Good
<1>4. NoBytes \in Buffers
  BY NoBytesTyped
<1>5. Typed'
  BY <1>1, <1>2, <1>4 DEF Typed
<1>6. Laid'
  BY <1>1 DEF Laid, At
<1>7. obj'.service \in Text
  BY <1>1, <1>2 DEF Headed, Decoded
<1>8. Headed' /\ Walked' /\ Covered' /\ Decoded'
  BY <1>1, <1>7 DEF Headed, Walked, Covered, Decoded
<1> QED BY <1>3, <1>5, <1>6, <1>8 DEF IInv

LEMMA InitHolds == Init => IInv
<1> SUFFICES ASSUME Init PROVE IInv
  OBVIOUS
<1>1. PICK c \in Constructor, s \in Text, t \in Trace : \E v \in Arguments(c) :
         obj = Create(c, s, t, v)
  BY DEF Init
<1>2. Good(obj) /\ obj.service \in Text
  BY <1>1, CreateGood
<1>3. /\ phase = "hand" /\ got = Blank /\ left = {} /\ order = <<>>
      /\ size = 0 /\ ret = 0 /\ next = 0 /\ remain = 0 /\ wire = NoBytes
  BY DEF Init
<1>4. NoBytes \in Buffers
  BY NoBytesTyped
<1>5. Typed /\ Laid
  BY <1>3, <1>4 DEF Typed, Laid, At
<1>6. Headed /\ Walked /\ Covered /\ Decoded
  BY <1>2, <1>3 DEF Headed, Walked, Covered, Decoded
<1> QED BY <1>2, <1>3, <1>5, <1>6, BlankGood DEF IInv

LEMMA StepKeeps == IInv /\ [Next]_vars => IInv'
<1> SUFFICES ASSUME IInv, [Next]_vars PROVE IInv'
  OBVIOUS
<1>1. CASE UNCHANGED vars
  BY <1>1 DEF vars, IInv, Good, Typed, Laid, At, Headed, Walked, Covered,
              Decoded, Seen
<1> QED
  BY <1>1, NewKeeps, AddFieldKeeps, RemoveFieldKeeps, SetKeeps,
     GetEncodedSizeKeeps, MeasureKeeps, EncodeHeaderKeeps, EncodeFieldKeeps,
     ReceiveKeeps, TakeFieldKeeps, ReceivedKeeps DEF Next

-----------------------------------------------------------------------------
(* Safety. *)

LEMMA InvariantImplies == IInv => TypeOK /\ TablesAgree /\ LengthsAgree
<1> SUFFICES ASSUME IInv PROVE TypeOK /\ TablesAgree /\ LengthsAgree
  OBVIOUS
<1>1. Good(obj) /\ Good(got) /\ Typed /\ Headed /\ Walked /\ Laid
  BY DEF IInv
<1>2. TypeOK
  BY <1>1 DEF TypeOK, Typed, Good
<1>3. TablesAgree
  BY <1>1 DEF TablesAgree, Good
<1>4. LengthsAgree
  <2>1. Len(order) \in Nat /\ size \in Nat
    BY <1>1 DEF Typed
  <2>2. phase \in {"encode", "decode"} /\ next <= Len(order)
        => At(next) \in Nat /\ At(next) < size
    <3> SUFFICES ASSUME phase \in {"encode", "decode"}, next <= Len(order)
                 PROVE  At(next) \in Nat /\ At(next) < size
      OBVIOUS
    <3>1. next \in 1 .. Len(order)
      BY <1>1, <2>1 DEF Headed
    <3> QED BY <3>1, FieldFits
  <2>3. phase \in {"encode", "decode"} /\ next > Len(order) => At(next) = size
    BY <1>1, <2>1 DEF At, Headed
  <2>4. phase \in {"encode", "decode"} => next \in Nat
    BY <1>1 DEF Typed
  <2>5. phase = "encode" =>
          /\ ret <= HeaderSize + wire.payload_length
          /\ next = 1 => ret = wire.content_offset
          /\ next > Len(order) => ret = HeaderSize + wire.payload_length
    <3> SUFFICES ASSUME phase = "encode"
                 PROVE  /\ ret <= HeaderSize + wire.payload_length
                        /\ next = 1 => ret = wire.content_offset
                        /\ next > Len(order) => ret = HeaderSize + wire.payload_length
      OBVIOUS
    <3>1. ret = HeaderSize + ServiceLength(obj.service) + At(next)
      BY <1>1 DEF Walked
    <3>2. /\ wire.payload_length = size + ServiceLength(obj.service)
          /\ wire.content_offset = HeaderSize + ServiceLength(obj.service)
      BY <1>1 DEF Headed, PayloadLength
    <3>3. ServiceLength(obj.service) \in Nat
      BY <1>1, ServiceLengths DEF Headed
    <3>4. At(1) = 0
      BY <1>1 DEF Laid
    <3>5. At(next) \in Nat /\ At(next) <= size
      BY <2>1, <2>2, <2>3, <2>4
    <3>6. next = 1 => At(next) = 0
      BY <3>4
    <3> QED BY <2>1, <2>3, <3>1, <3>2, <3>3, <3>5, <3>6 DEF HeaderSize
  <2>6. phase = "decode" => (remain = 0 <=> next > Len(wire.fields))
    BY <1>1, <2>1, <2>2, <2>3, <2>4 DEF Walked
  <2>7. phase # "refused"
    BY <1>1 DEF Typed
  <2> QED BY <2>5, <2>6, <2>7 DEF LengthsAgree
<1> QED BY <1>2, <1>3, <1>4

\* Whatever the program does with an object, and however often it travels, its
\* name_ table and its value tables agree, Encode fills exactly the buffer that
\* GetEncodedSize asked for, and the decoder finds its fields and nothing else
\* in the bytes it is given (blade_object.cc, opr.cc).
THEOREM Safety == Spec => [](TypeOK /\ TablesAgree /\ LengthsAgree)
<1>1. Init => IInv
  BY InitHolds
<1>2. IInv /\ [Next]_vars => IInv'
  BY StepKeeps
<1>3. IInv => TypeOK /\ TablesAgree /\ LengthsAgree
  BY InvariantImplies
<1> QED BY <1>1, <1>2, <1>3, PTL DEF Spec

-----------------------------------------------------------------------------
(* The refinement of MessageSpec. *)

Content(o) == [f \in Field |-> [k \in Kind |-> o.members[k][f]]]

\* In an object whose tables agree the getters return the tables' entries.
LEMMA GettersRead ==
  ASSUME NEW o, Good(o)
  PROVE  [f \in Field |-> [k \in Kind |-> Get(o, f, k)]] = Content(o)
<1>1. \A f \in Field, k \in Kind : Get(o, f, k) = o.members[k][f]
  BY DEF Get, Good
<1> QED BY <1>1 DEF Content

\* What a holder of the object can ask of it.
View(o) == [type |-> o.type, trace |-> o.trace, service |-> o.service,
            content |-> Content(o)]

LEMMA MeaningOf ==
  /\ Good(obj) => Meaning = View(obj)
  /\ Good(obj') => Meaning' = View(obj')
<1>1. Good(obj) => Meaning = View(obj)
  BY GettersRead DEF Meaning, View
<1>2. Good(obj') => Meaning' = View(obj')
  BY GettersRead DEF Meaning, View
<1> QED BY <1>1, <1>2

\* MessageSpec speaks of the same kinds, fields and forms.
LEMMA SameWords ==
  /\ Message!Kind = Kind /\ Message!Field = Field
  /\ Message!Form = Form /\ Message!Constructor = Constructor
  /\ \A c \in Constructor : Message!Arguments(c) = Arguments(c)
  /\ \A k \in Kind : Message!Value(k) = Value(k)
  /\ Message!Nothing = [k \in Kind |-> None]
<1>1. Message!Kind = Kind /\ Message!Field = Field
  BY DEF Message!Kind, Message!Field, Kind, Field, Message!Byte, Message!String,
         Byte, String
<1>2. Message!Form = Form /\ Message!Constructor = Constructor
  BY DEF Message!Form, Message!Constructor, Form, Constructor
<1>3. \A c \in Constructor : Message!Arguments(c) = Arguments(c)
  BY DEF Message!Arguments, Arguments, Message!Form, Form, Message!Value, Value,
         Message!KindOf, KindOf, Message!Byte, Message!I32, Message!String,
         Byte, I32, String
<1>4. \A k \in Kind : Message!Value(k) = Value(k)
  BY DEF Message!Value, Value, Message!String, String
<1>5. Message!Nothing = [k \in Kind |-> None]
  BY <1>1 DEF Message!Nothing
<1> QED BY <1>1, <1>2, <1>3, <1>4, <1>5

LEMMA CreatedIs ==
  ASSUME NEW c \in Constructor, NEW s \in Text, NEW t \in Trace,
         NEW v \in Arguments(c)
  PROVE  View(Create(c, s, t, v)) = Message!Created(c, s, t, v)
<1> DEFINE o == Create(c, s, t, v)
<1>2. /\ o.type = TypeOf(c) /\ o.trace = t /\ o.service = s
      /\ \A k \in Kind, f \in Field :
           o.members[k][f] = IF f \in Form[c] /\ k = KindOf(f)
                             THEN v[f] ELSE None
  BY DEF Create
<1> HIDE DEF o
<1>3. Content(o) = [f \in Field |->
                        [k \in Kind |-> IF f \in Form[c] /\ k = KindOf(f)
                                        THEN v[f] ELSE None]]
  BY <1>2 DEF Content
<1>4. Message!Created(c, s, t, v) =
        [type |-> TypeOf(c), trace |-> t, service |-> s,
         content |-> [f \in Field |->
                        [k \in Kind |-> IF f \in Form[c] /\ k = KindOf(f)
                                        THEN v[f] ELSE None]]]
  BY DEF Message!Created, Message!TypeOf, TypeOf, Message!Form, Form,
         Message!Field, Field, Message!Kind, Kind, Message!KindOf, KindOf,
         Message!Byte, Message!I32, Message!String, Byte, I32, String
<1> QED BY <1>2, <1>3, <1>4 DEF View, o

LEMMA NewImplements ==
  ASSUME New
  PROVE  Message!Edit
<1>1. PICK c \in Constructor, s \in Text, t \in Trace : \E v \in Arguments(c) :
         obj' = Create(c, s, t, v)
  BY DEF New
<1>2. PICK v \in Arguments(c) : obj' = Create(c, s, t, v)
  BY <1>1
<1>3. Meaning' = Message!Created(c, s, t, v)
  <2>1. Good(obj')
    BY <1>2, CreateGood
  <2> QED BY <1>2, <2>1, CreatedIs, MeaningOf
<1> QED BY <1>3, SameWords DEF New, Idle, Message!Edit, Message!New

\* Where the tables agree, so do the contents.
LEMMA ContentAt ==
  ASSUME NEW o, NEW p, NEW g \in Field,
         \A k \in Kind : p.members[k][g] = o.members[k][g]
  PROVE  Content(p)[g] = Content(o)[g]
<1>1. [k \in Kind |-> p.members[k][g]] = [k \in Kind |-> o.members[k][g]]
  OBVIOUS
<1> QED BY <1>1 DEF Content

LEMMA AddFieldImplements ==
  ASSUME IInv, AddField
  PROVE  Message!Edit \/ UNCHANGED <<Meaning, phase>>
<1>1. PICK f \in Extra, k \in Kind : \E v \in Value(k) : obj' = Add(obj, f, k, v)
  BY DEF AddField
<1>2. PICK v \in Value(k) : obj' = Add(obj, f, k, v)
  BY <1>1
<1>3. Good(obj) /\ f \in Field
  BY DEF IInv, Field
<1>4. CASE Contains(obj, f)
  <2>1. obj' = obj
    BY <1>2, <1>4 DEF Add
  <2> QED BY <2>1 DEF AddField, Idle, Meaning, Get
<1>5. CASE ~Contains(obj, f)
  <2> DEFINE e == [[j \in Kind |-> None] EXCEPT ![k] = v]
  <2>1. Good(obj')
    BY <1>2, <1>3, AddGood
  <2>2. /\ obj'.type = obj.type /\ obj'.trace = obj.trace
        /\ obj'.service = obj.service
        /\ \A j \in Kind, g \in Field :
             obj'.members[j][g] = IF j = k /\ g = f THEN v ELSE obj.members[j][g]
    BY <1>2, <1>3, <1>5, AddEntry
  <2>3. \A j \in Kind : obj.members[j][f] = None
    BY <1>3, <1>5, KindsAreKinds DEF Good, Contains
  <2>4. \A j \in Kind, g \in Field : g # f => obj'.members[j][g] = obj.members[j][g]
    BY <2>2
  <2>5. Content(obj')[f] = e
    BY <1>3, <2>2, <2>3 DEF Content
  <2> HIDE DEF e
  <2>6. Content(obj') = [Content(obj) EXCEPT ![f] = e]
    <3>1. \A g \in Field : Content(obj')[g] = IF g = f THEN e ELSE Content(obj)[g]
      BY <2>4, <2>5, ContentAt
    <3> QED BY <3>1 DEF Content
  <2>7. Content(obj)[f] = Message!Nothing
    BY <1>3, <2>3, SameWords DEF Content
  <2>8. View(obj') = [View(obj) EXCEPT !.content[f] = e]
    BY <2>2, <2>6 DEF View
  <2>9. /\ Meaning.content[f] = Message!Nothing
        /\ Meaning' = [Meaning EXCEPT !.content[f] = [Message!Nothing EXCEPT ![k] = v]]
    <3>1. Meaning = View(obj) /\ Meaning' = View(obj')
      BY <1>3, <2>1, MeaningOf
    <3>2. Meaning.content[f] = Message!Nothing
      BY <2>7, <3>1 DEF View
    <3> QED BY <2>8, <3>1, <3>2, SameWords DEF e
  <2>10. Message!Add
    BY <1>2, <2>9, SameWords DEF Message!Add
  <2> QED BY <2>10 DEF AddField, Idle, Message!Edit
<1> QED BY <1>4, <1>5

LEMMA RemoveFieldImplements ==
  ASSUME IInv, RemoveField
  PROVE  Message!Edit
<1>1. PICK f \in Extra : obj' = Remove(obj, f)
  BY DEF RemoveField
<1>2. Good(obj) /\ f \in Field
  BY DEF IInv, Field
<1> DEFINE e == [j \in Kind |-> None]
<1>3. /\ Good(obj')
      /\ obj'.type = obj.type /\ obj'.trace = obj.trace
      /\ obj'.service = obj.service
      /\ \A j \in Kind, g \in Field :
           obj'.members[j][g] = IF g = f THEN None ELSE obj.members[j][g]
  BY <1>1, <1>2, RemoveGood
<1>4. \A j \in Kind, g \in Field : g # f => obj'.members[j][g] = obj.members[j][g]
  BY <1>3
<1>5. Content(obj')[f] = e
  BY <1>2, <1>3 DEF Content
<1> HIDE DEF e
<1>6. Content(obj') = [Content(obj) EXCEPT ![f] = e]
  <2>1. \A g \in Field : Content(obj')[g] = IF g = f THEN e ELSE Content(obj)[g]
    BY <1>4, <1>5, ContentAt
  <2> QED BY <2>1 DEF Content
<1>7. View(obj') = [View(obj) EXCEPT !.content[f] = e]
  BY <1>3, <1>6 DEF View
<1>8. Meaning' = [Meaning EXCEPT !.content[f] = Message!Nothing]
  BY <1>2, <1>3, <1>7, MeaningOf, SameWords DEF e
<1> QED BY <1>8 DEF RemoveField, Idle, Message!Edit, Message!Remove

LEMMA SetImplements ==
  ASSUME IInv, SetServiceName \/ SetTraceId
  PROVE  Message!Edit
<1>1. Good(obj) /\ obj \in Objects
  BY DEF IInv, Good
<1>2. CASE SetServiceName
  <2>1. PICK s \in Text : obj' = [obj EXCEPT !.service = s]
    BY <1>2 DEF SetServiceName
  <2>2. /\ obj'.type = obj.type /\ obj'.trace = obj.trace /\ obj'.service = s
        /\ obj'.names = obj.names /\ obj'.members = obj.members
    BY <1>1, <2>1 DEF Objects
  <2>3. Good(obj')
    BY <1>1, <2>1, <2>2 DEF Good, Objects
  <2>4. View(obj') = [View(obj) EXCEPT !.service = s]
    <3>1. Content(obj') = Content(obj)
      BY <2>2 DEF Content
    <3> QED BY <2>2, <3>1 DEF View
  <2>5. Meaning' = [Meaning EXCEPT !.service = s]
    BY <1>1, <2>3, <2>4, MeaningOf
  <2> QED BY <1>2, <2>5 DEF SetServiceName, Idle, Message!Edit, Message!SetServiceName
<1>3. CASE SetTraceId
  <2>1. PICK t \in Trace : obj' = [obj EXCEPT !.trace = t]
    BY <1>3 DEF SetTraceId
  <2>2. /\ obj'.type = obj.type /\ obj'.trace = t /\ obj'.service = obj.service
        /\ obj'.names = obj.names /\ obj'.members = obj.members
    BY <1>1, <2>1 DEF Objects
  <2>3. Good(obj')
    BY <1>1, <2>1, <2>2 DEF Good, Objects
  <2>4. View(obj') = [View(obj) EXCEPT !.trace = t]
    <3>1. Content(obj') = Content(obj)
      BY <2>2 DEF Content
    <3> QED BY <2>2, <3>1 DEF View
  <2>5. Meaning' = [Meaning EXCEPT !.trace = t]
    BY <1>1, <2>3, <2>4, MeaningOf
  <2> QED BY <1>3, <2>5 DEF SetTraceId, Idle, Message!Edit, Message!SetTraceId
<1> QED BY <1>2, <1>3

\* The object that arrives means what the one that was sent meant: when no byte
\* remains every field has been taken, and those are all the sender's fields.
LEMMA ReceivedImplements ==
  ASSUME IInv, Received
  PROVE  Message!Arrive
<1>1. /\ phase = "decode" /\ phase' = "hand" /\ remain = 0 /\ obj' = got
  BY DEF Received
<1>2. Good(obj) /\ Good(got) /\ Typed /\ Headed /\ Walked /\ Covered /\ Decoded
  BY DEF IInv
<1>3. next = Len(order) + 1
  <2>1. next > Len(wire.fields) /\ wire.fields = order
    BY <1>1, <1>2, InvariantImplies DEF LengthsAgree, Walked
  <2> QED BY <1>1, <1>2, <2>1 DEF Headed, Typed
<1>4. \A k \in Kind, f \in Field : got.members[k][f] = obj.members[k][f]
  <2>1. \A k \in Kind, f \in Field :
           obj.members[k][f] # None <=> Seen(k, f, Len(order))
    BY <1>1, <1>2 DEF Covered, Headed
  <2>2. next - 1 = Len(order)
    BY <1>2, <1>3 DEF Typed
  <2> QED BY <1>1, <1>2, <2>1, <2>2 DEF Decoded
<1>5. Content(obj') = Content(obj)
  BY <1>1, <1>4 DEF Content
<1>6. View(obj') = View(obj)
  BY <1>1, <1>2, <1>5 DEF View, Decoded
<1>7. Meaning' = Meaning
  BY <1>1, <1>2, <1>6, MeaningOf
<1> QED BY <1>1, <1>7 DEF Message!Arrive

\* What the getters return at the receiver is what they returned at the sender
\* when it began to send, after any edits and any number of hops: a BladeObject
\* implements the message of MessageSpec (blade_object.cc, opr.cc,
\* blade_session.cc, sync_session.cc).
THEOREM Refinement == Spec => Arrives
<1>1. Init => Message!Init
  <2> SUFFICES ASSUME Init PROVE Message!Init
    OBVIOUS
  <2>1. PICK c \in Constructor, s \in Text, t \in Trace : \E v \in Arguments(c) :
           obj = Create(c, s, t, v)
    BY DEF Init
  <2>2. PICK v \in Arguments(c) : obj = Create(c, s, t, v)
    BY <2>1
  <2>3. Meaning = Message!Created(c, s, t, v)
    BY <2>2, CreateGood, CreatedIs, MeaningOf
  <2> QED BY <2>3, SameWords DEF Init, Message!Init
<1>2. IInv /\ [Next]_vars
      => [Message!Next]_<<Meaning, IF phase = "hand" THEN "hand" ELSE "way">>
  <2> SUFFICES ASSUME IInv, [Next]_vars
               PROVE  [Message!Next]_<<Meaning, IF phase = "hand" THEN "hand" ELSE "way">>
    OBVIOUS
  <2>1. CASE UNCHANGED vars
    BY <2>1 DEF vars, Meaning, Get
  <2>2. CASE New \/ AddField \/ RemoveField \/ SetServiceName \/ SetTraceId
    BY <2>2, NewImplements, AddFieldImplements, RemoveFieldImplements,
       SetImplements DEF Message!Next
  <2>3. CASE GetEncodedSize
    <3>1. Message!Send
      BY <2>3 DEF GetEncodedSize, Message!Send, Meaning, Get
    <3> QED BY <3>1 DEF Message!Next
  <2>4. CASE Measure \/ EncodeHeader \/ EncodeField \/ Receive \/ TakeField
    <3>1. obj' = obj /\ phase # "hand" /\ phase' # "hand"
      BY <2>4 DEF Measure, EncodeHeader, EncodeField, Receive, TakeField
    <3> QED BY <3>1 DEF Meaning, Get
  <2>5. CASE Received
    BY <2>5, ReceivedImplements DEF Message!Next
  <2> QED BY <2>1, <2>2, <2>3, <2>4, <2>5 DEF Next
<1>3. Init => IInv
  BY InitHolds
<1>4. IInv /\ [Next]_vars => IInv'
  BY StepKeeps
<1> QED BY <1>1, <1>2, <1>3, <1>4, PTL DEF Spec, Arrives, Message!Spec

(* The parts of Safety by themselves: the types of object and buffer,      *)
THEOREM Typing == Spec => []TypeOK
BY Safety, PTL

(* and that the table of the kinds and the tables of the values name the   *)
(* same fields, whatever is added, removed, sent and received.             *)
THEOREM Agreement == Spec => []TablesAgree
BY Safety, PTL
=============================================================================
