----------------------------- MODULE BladeForms -----------------------------
(***************************************************************************)
(* The vocabulary of the messages blademesh exchanges: the kinds of value a *)
(* field can hold, the field names the constructors of BladeObject use, and *)
(* the fields each constructor puts in (blade/blade_object.cc,              *)
(* blmesh/common.h).                                                        *)
(***************************************************************************)
EXTENDS Integers

CONSTANTS Text,     \* the strings a field or a service name holds
          Number,   \* the values of the byte, i32, i64 and f64 fields
          Extra,    \* the field names the callers add and remove themselves
          Trace,    \* trace ids; 0 is the one of an untraced message
          None      \* no value

ASSUME TraceAssumption == 0 \in Trace
ASSUME NoneAssumption == None \notin Text \cup Number

\* enum class FieldType, numbered in the order Iterate walks the tables.
\* 0 stands for FieldType::None.
Byte == 1
I32 == 2
I64 == 3
F64 == 4
String == 5
Kind == Byte .. String

Value(k) == IF k = String THEN Text ELSE Number

\* The fields of a new message, by constructor.
Form == [request    |-> {"#CALL_NAME"},
         response   |-> {"#RESP_NAME"},
         register   |-> {"#REG_IP", "#REG_PORT", "#CALL_NAME"},
         deregister |-> {"#REG_IP", "#CALL_NAME"},
         keepalive  |-> {},
         query      |-> {"#CALL_NAME", "#QUERY"},
         answer     |-> {"#ANS_IP"},
         no_answer  |-> {"#NO_ANS"}]

Constructor == DOMAIN Form

\* The BladeType a constructor sets: both answers are kBTAnswer.
TypeOf(c) == IF c = "no_answer" THEN "answer" ELSE c

Field == {"#CALL_NAME", "#RESP_NAME", "#REG_IP", "#REG_PORT", "#QUERY",
          "#ANS_IP", "#NO_ANS"} \cup Extra

\* The port is added with AddI32, the no-answer mark with AddByte, and every
\* other field with AddString.
KindOf(f) == CASE f = "#REG_PORT" -> I32
               [] f = "#NO_ANS"   -> Byte
               [] OTHER           -> String

\* The arguments a constructor can be called with.
Arguments(c) == {v \in [Form[c] -> Text \cup Number] :
                    \A f \in Form[c] : v[f] \in Value(KindOf(f))}
=============================================================================
