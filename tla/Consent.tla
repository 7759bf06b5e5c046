------------------------------ MODULE Consent -------------------------------
(***************************************************************************)
(* What the confirmation dialog promises its callers: the user is asked    *)
(* one question at a time, and a consent authorises one caller, once, for  *)
(* the question that was asked, before another question is asked.          *)
(***************************************************************************)
CONSTANTS Callers, Questions, None

VARIABLES
  question,  \* what the user is being asked, or None
  consent,   \* the question the user consented to and nobody has used, or None
  holds      \* what each caller is authorised for, or None

vars == <<question, consent, holds>>

Init ==
  /\ question = None
  /\ consent = None
  /\ holds = [c \in Callers |-> None]

\* Asking makes the caller give up what it was authorised for before.
Ask(c, q) ==
  /\ question = None
  /\ consent = None
  /\ question' = q
  /\ holds' = [holds EXCEPT ![c] = None]
  /\ UNCHANGED consent

Grant ==
  /\ question # None
  /\ consent' = question
  /\ question' = None
  /\ UNCHANGED holds

Deny ==
  /\ question # None
  /\ question' = None
  /\ UNCHANGED <<consent, holds>>

Use(c) ==
  /\ consent # None
  /\ holds' = [holds EXCEPT ![c] = consent]
  /\ consent' = None
  /\ UNCHANGED question

Lapse ==
  /\ consent # None
  /\ consent' = None
  /\ UNCHANGED <<question, holds>>

Release(c) ==
  /\ holds' = [holds EXCEPT ![c] = None]
  /\ UNCHANGED <<question, consent>>

Next ==
  \/ \E c \in Callers, q \in Questions : Ask(c, q)
  \/ Grant \/ Deny \/ Lapse
  \/ \E c \in Callers : Use(c) \/ Release(c)

Spec == Init /\ [][Next]_vars
=============================================================================
