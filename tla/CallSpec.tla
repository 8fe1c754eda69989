------------------------------ MODULE CallSpec ------------------------------
(***************************************************************************)
(* What a call promises to the process that makes it: that what it asks    *)
(* for is done at most once; that it was done, if the call is answered;    *)
(* that it was not done and never will be, if the call is refused.  If the *)
(* call breaks off, the caller cannot know.                                *)
(***************************************************************************)
EXTENDS Naturals

VARIABLES
  outcome,     \* what has become of the call, as the caller sees it
  ran          \* how often the party that was called did its part

vars == <<outcome, ran>>

Init == outcome = "none" /\ ran = 0

Ask == outcome = "none" /\ outcome' = "waiting" /\ UNCHANGED ran

\* The other party may be at work for a caller that is no longer there.
Run == outcome \in {"waiting", "broken"} /\ ran = 0 /\ ran' = 1 /\ UNCHANGED outcome

End(result) == outcome = "waiting" /\ outcome' = result /\ UNCHANGED ran

Answer == ran = 1 /\ End("answered")
Refuse == ran = 0 /\ End("refused")
Break == End("broken")

\* The caller goes on, and nothing of the call is left.
Return == outcome \notin {"none", "waiting"} /\ outcome' = "none" /\ ran' = 0

Next == Ask \/ Run \/ Answer \/ Refuse \/ Break \/ Return

Spec == Init /\ [][Next]_vars
=============================================================================
