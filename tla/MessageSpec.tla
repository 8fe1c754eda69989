---------------------------- MODULE MessageSpec ----------------------------
(***************************************************************************)
(* What a message promises to the programs that use it, whatever its tables *)
(* and its wire format are.  A field holds one value of one kind: adding it *)
(* again changes nothing, removing it forgets it.  A message that is sent   *)
(* arrives as it was when it left.                                          *)
(***************************************************************************)
EXTENDS BladeForms

VARIABLES message,  \* what the getters return, field by field and kind by kind
          where     \* "hand", or "way" between two hosts

Nothing == [k \in Kind |-> None]

Created(c, s, t, v) ==
    [type    |-> TypeOf(c),
     trace   |-> t,
     service |-> s,
     content |-> [f \in Field |->
                     [k \in Kind |-> IF f \in Form[c] /\ k = KindOf(f)
                                     THEN v[f] ELSE None]]]

New == \E c \in Constructor, s \in Text, t \in Trace : \E v \in Arguments(c) :
          message' = Created(c, s, t, v)

Add == \E f \in Extra, k \in Kind : \E v \in Value(k) :
          /\ message.content[f] = Nothing
          /\ message' = [message EXCEPT !.content[f] = [Nothing EXCEPT ![k] = v]]

Remove == \E f \in Extra :
             message' = [message EXCEPT !.content[f] = Nothing]

SetServiceName == \E s \in Text : message' = [message EXCEPT !.service = s]

SetTraceId == \E t \in Trace : message' = [message EXCEPT !.trace = t]

Edit == /\ where = "hand"
        /\ New \/ Add \/ Remove \/ SetServiceName \/ SetTraceId
        /\ UNCHANGED where

Send == where = "hand" /\ where' = "way" /\ UNCHANGED message

Arrive == where = "way" /\ where' = "hand" /\ UNCHANGED message

Init == /\ where = "hand"
        /\ \E c \in Constructor, s \in Text, t \in Trace : \E v \in Arguments(c) :
              message = Created(c, s, t, v)

Next == Edit \/ Send \/ Arrive

Spec == Init /\ [][Next]_<<message, where>>
=============================================================================
