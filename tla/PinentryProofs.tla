--------------------------- MODULE PinentryProofs ---------------------------
(***************************************************************************)
(* What src/pinentry/pinentry.go guarantees for any number of callers,     *)
(* any parameters and any number of dialogs, one after the other.          *)
(***************************************************************************)
EXTENDS Pinentry, TLAPS

USE PinentryAssumption

\* Every variable keeps its type.
LEMMA TypeStep == TypeOK /\ [Next]_vars => TypeOK'
<1> SUFFICES ASSUME TypeOK, [Next]_vars PROVE TypeOK'
  OBVIOUS
<1> USE DEF TypeOK, RequestType, CallerType, Running, FreeRequest, NoCall
<1>1. ASSUME NEW c \in Callers, NEW params \in Params \cup {Generic}, ConfirmPresence(c, params)
      PROVE  TypeOK'
  <2>1. CASE Refuse(c, params)
    BY <2>1 DEF Refuse
  <2>2. CASE Join(c, params)
    <3> DEFINE q == activeRequest
               r == [requests[q] EXCEPT !.extenders = @ + 1]
    <3>1. q \in Requests
      BY <2>2 DEF Join
    <3>2. requests[q].extenders \in 0 .. MaxExtenders
      BY <3>1
    <3>3. requests[q].extenders + 1 \in 0 .. MaxExtenders
      BY <2>2, <3>2 DEF Join
    <3>4. r \in RequestType
      BY <3>1, <3>3
    <3>5. requests' = [requests EXCEPT ![q] = r]
      BY <2>2 DEF Join
    <3>6. callers' \in [Callers -> CallerType]
      BY <2>2, <3>1 DEF Join
    <3> QED
      BY <2>2, <3>1, <3>4, <3>5, <3>6 DEF Join
  <2>3. CASE Open(c, params)
    BY <2>3 DEF Open, NewRequest
  <2> QED
    BY <1>1, <2>1, <2>2, <2>3 DEF ConfirmPresence
<1>2. ASSUME NEW c \in Handlers, GiveUp(c) PROVE TypeOK'
  BY <1>2 DEF GiveUp, Callers
<1>3. ASSUME NEW p \in Requests, Dialog(p) PROVE TypeOK'
  BY <1>3 DEF Dialog, DialogFails, UserAnswers
<1>4. ASSUME NEW p \in Requests, SelectLoop(p) \/ ExtenderExpires(p) PROVE TypeOK'
  BY <1>4 DEF SelectLoop, Decide, TimerFires, Extend, ExtenderExpires
<1>5. ASSUME NEW p \in Requests, SendResult(p) PROVE TypeOK'
  <2>1. ASSUME NEW c \in Callers, Deliver(p, c) PROVE TypeOK'
    BY <2>1 DEF Deliver, Waiters
  <2>2. CASE SendExpires(p)
    BY <2>2 DEF SendExpires
  <2>3. CASE Clear(p)
    BY <2>3 DEF Clear, Ended
  <2> QED
    BY <1>5, <2>1, <2>2, <2>3 DEF SendResult
<1>6. CASE UNCHANGED vars
  BY <1>6 DEF vars
<1> QED
  BY <1>1, <1>2, <1>3, <1>4, <1>5, <1>6 DEF Next, Ask, ConfirmGeneric, Callers

\* The type invariant holds in every state.
THEOREM TypeCorrect == Spec => []TypeOK
<1>1. Init => TypeOK
  BY DEF Init, TypeOK, RequestType, CallerType, FreeRequest, NoCall, Params
<1> QED
  BY <1>1, TypeStep, PTL DEF Spec

-----------------------------------------------------------------------------
IInv == TypeOK /\ ChannelInv

\* At first no dialog is up and nobody waits.
LEMMA DialogInit == Init => IInv
<1>1. Init => TypeOK
  BY DEF Init, TypeOK, RequestType, CallerType, FreeRequest, NoCall, Params
<1>2. Init => ChannelInv
  BY DEF Init, ChannelInv, OneDialog, OneTaker, Waiters, FreeRequest, NoCall, Running
<1> QED
  BY <1>1, <1>2 DEF IInv

\* ConfirmPresence preserves the channel invariant: a caller that joins asked for
\* what the dialog shows, and a caller that opens one finds none open.
LEMMA ConfirmPresenceStep ==
  ASSUME IInv, NEW c \in Callers, NEW params \in Params \cup {Generic},
         ConfirmPresence(c, params)
  PROVE  ChannelInv'
<1> USE DEF IInv, TypeOK, RequestType, CallerType, ChannelInv, Waiters
<1>1. CASE Refuse(c, params)
  BY <1>1, ConfirmPresence(c, params) DEF ConfirmPresence, Refuse, OneDialog, OneTaker, NoCall
<1>2. CASE Join(c, params)
  <2>1. activeRequest \in Requests
    BY <1>2 DEF Join
  <2>2. OneDialog' /\ OneTaker'
    BY <1>2, <2>1 DEF Join, OneDialog, OneTaker
  <2>3. requests[activeRequest].params = params
    BY <1>2 DEF Join, Matches
  <2>4. ASSUME NEW p \in Requests, NEW d \in Waiters(p)', requests'[p].at \in Running
        PROVE  callers'[d].params = requests'[p].params
    BY <1>2, <2>1, <2>3, <2>4 DEF Join
  <2> QED
    BY <1>2, <2>1, <2>2, <2>4 DEF Join
<1>3. CASE Open(c, params)
  <2>1. PICK q \in Requests :
          /\ Unreferenced(q)
          /\ requests' = [requests EXCEPT ![q] = NewRequest(params)]
          /\ callers' = [callers EXCEPT ![c] = [params |-> params, at |-> "waiting", on |-> q]]
          /\ activeRequest' = q
    BY <1>3 DEF Open
  <2>2. \A p \in Requests : requests[p].at \notin Running
    BY <1>3 DEF Open, OneDialog
  <2>3. OneDialog' /\ OneTaker'
    BY <2>1, <2>2 DEF OneDialog, OneTaker, NewRequest, Running
  <2>4. ASSUME NEW p \in Requests, NEW d \in Waiters(p)', requests'[p].at \in Running
        PROVE  callers'[d].params = requests'[p].params
    BY <2>1, <2>2, <2>4 DEF NewRequest, Unreferenced
  <2> QED
    BY <2>1, <2>3, <2>4 DEF NewRequest, Running
<1> QED
  BY <1>1, <1>2, <1>3 DEF ConfirmPresence

\* The steps of the prompt goroutine preserve it too: only Clear resets
\* activeRequest, and it does so in the request that is active.
LEMMA PromptStep ==
  ASSUME IInv, NEW p \in Requests,
         Dialog(p) \/ SelectLoop(p) \/ SendResult(p) \/ ExtenderExpires(p)
  PROVE  ChannelInv'
<1> USE DEF IInv, TypeOK, RequestType, CallerType, ChannelInv, Waiters, OneDialog, OneTaker
<1>1. CASE Dialog(p)
  <2>1. CASE DialogFails(p)
    BY <2>1 DEF DialogFails, Running
  <2>2. ASSUME NEW answer \in {"yes", "no"}, UserAnswers(p, answer) PROVE ChannelInv'
    BY <2>2 DEF UserAnswers, Running
  <2> QED
    BY <1>1, <2>1, <2>2 DEF Dialog
<1>2. CASE SelectLoop(p) \/ ExtenderExpires(p)
  <2>1. CASE Decide(p)
    BY <2>1 DEF Decide, Running
  <2>2. CASE TimerFires(p)
    BY <2>2 DEF TimerFires, Running
  <2>3. CASE Extend(p) \/ ExtenderExpires(p)
    BY <2>3 DEF Extend, ExtenderExpires
  <2> QED
    BY <1>2, <2>1, <2>2, <2>3 DEF SelectLoop
<1>3. ASSUME NEW c \in Callers, Deliver(p, c) PROVE ChannelInv'
  BY <1>3 DEF Deliver, Running
<1>4. CASE SendExpires(p)
  BY <1>4 DEF SendExpires, Running
<1>5. CASE Clear(p)
  <2>1. requests' = [requests EXCEPT ![p] = Ended(p)] /\ activeRequest' = NoRequest
    BY <1>5 DEF Clear
  <2>2. /\ Ended(p).at = "free"
        /\ Ended(p).result = "none"
        /\ Ended(p).takers = {}
    BY DEF Ended, FreeRequest
  <2>3. activeRequest = p
    BY <1>5 DEF Clear, Running
  <2> HIDE DEF RequestType
  <2>4. callers' = callers
    BY <1>5 DEF Clear
  <2> QED
    BY <2>1, <2>2, <2>3, <2>4 DEF Running
<1> QED
  BY <1>1, <1>2, <1>3, <1>4, <1>5 DEF SendResult

\* The channel invariant is inductive.
LEMMA ChannelStep == IInv /\ [Next]_vars => ChannelInv'
<1> SUFFICES ASSUME IInv, [Next]_vars PROVE ChannelInv'
  OBVIOUS
<1>1. ASSUME NEW c \in Callers, NEW params \in Params \cup {Generic}, ConfirmPresence(c, params)
      PROVE  ChannelInv'
  BY <1>1, ConfirmPresenceStep
<1>2. ASSUME NEW c \in Handlers, GiveUp(c) PROVE ChannelInv'
  BY <1>2 DEF GiveUp, Callers, IInv, TypeOK, CallerType, ChannelInv, Waiters, NoCall,
              OneDialog, OneTaker
<1>3. ASSUME NEW p \in Requests,
             Dialog(p) \/ SelectLoop(p) \/ SendResult(p) \/ ExtenderExpires(p)
      PROVE  ChannelInv'
  BY <1>3, PromptStep
<1>4. CASE UNCHANGED vars
  BY <1>4 DEF vars, IInv, ChannelInv, Waiters, OneDialog, OneTaker
<1> QED
  BY <1>1, <1>2, <1>3, <1>4 DEF Next, Ask, ConfirmGeneric, Callers

\* The channel invariant holds in every state of every behaviour.
THEOREM ChannelCorrect == Spec => [](TypeOK /\ ChannelInv)
<1>1. TypeOK /\ ChannelInv /\ [Next]_vars => TypeOK' /\ ChannelInv'
  BY TypeStep, ChannelStep DEF IInv
<1>2. Init => TypeOK /\ ChannelInv
  BY DialogInit DEF IInv
<1> QED
  BY <1>1, <1>2, PTL DEF Spec

\* At most one dialog is up at any time, and it is the one activeRequest names.
THEOREM OneDialogAtATime == Spec => []OneDialog
<1>1. ChannelInv => OneDialog
  BY DEF ChannelInv
<1> QED
  BY <1>1, ChannelCorrect, PTL

\* The callers sharing a channel receive at most one result between them.
THEOREM OneResultPerDialog == Spec => []OneTaker
<1>1. ChannelInv => OneTaker
  BY DEF ChannelInv
<1> QED
  BY <1>1, ChannelCorrect, PTL

\* Every OK a caller receives is the user's answer to a dialog for its parameters.
THEOREM OkIsForTheAsker == Spec => OkIsForAsker
<1> DEFINE OkStep == \A c \in Callers :
       callers[c].at = "waiting" /\ callers'[c].at = "ok" =>
         /\ requests[callers[c].on].params = callers[c].params
         /\ requests[callers[c].on].answer = "yes"
<1>1. IInv /\ [Next]_vars => [OkStep]_vars
  <2> SUFFICES ASSUME IInv, Next, NEW c \in Callers,
                      callers[c].at = "waiting", callers'[c].at = "ok"
               PROVE  /\ requests[callers[c].on].params = callers[c].params
                      /\ requests[callers[c].on].answer = "yes"
    BY DEF OkStep
  <2> USE DEF IInv, TypeOK, CallerType, RequestType
  <2>1. PICK p \in Requests, d \in Callers : Deliver(p, d)
    <3>1. ASSUME NEW d \in Callers, NEW params \in Params \cup {Generic},
                 ConfirmPresence(d, params)
          PROVE  FALSE
      BY <3>1 DEF ConfirmPresence, Refuse, Join, Open, NoCall
    <3>2. ASSUME NEW d \in Handlers, GiveUp(d) PROVE FALSE
      BY <3>2 DEF GiveUp, NoCall, Callers
    <3>3. ASSUME NEW p \in Requests,
                 Dialog(p) \/ SelectLoop(p) \/ ExtenderExpires(p) \/ SendExpires(p) \/ Clear(p)
          PROVE  FALSE
      BY <3>3 DEF Dialog, DialogFails, UserAnswers, SelectLoop, Decide, TimerFires, Extend,
                  ExtenderExpires, SendExpires, Clear
    <3> QED
      BY <3>1, <3>2, <3>3 DEF Next, Ask, ConfirmGeneric, SendResult, Callers
  <2>2. c = d /\ callers[c].on = p /\ requests[p].result = "ok"
    BY <2>1 DEF Deliver, Waiters
  <2> QED
    BY <2>1, <2>2 DEF Deliver, Waiters, ChannelInv, Running
<1> QED
  BY <1>1, ChannelCorrect, PTL DEF Spec, IInv, OkIsForAsker

-----------------------------------------------------------------------------
(***************************************************************************)
(* The dialog implements Consent: one step lemma per kind of action.       *)
(***************************************************************************)

\* No question a caller can ask is the absent one.
LEMMA NoParamsIsNone == NoParams \notin Params \cup {Generic}
BY DEF NoParams, Params, Generic, Nonce, NoRequest

\* A call that opens a dialog asks a question; any other call at most makes the
\* caller give up what it was authorised for.
LEMMA ConfirmPresencePromise ==
  ASSUME IInv, NEW c \in Callers, NEW params \in Params \cup {Generic},
         ConfirmPresence(c, params)
  PROVE  [Promise!Next]_(Promise!vars)
<1> USE DEF IInv, TypeOK, RequestType, CallerType, holds, question, consent, Asking, Consented
<1>1. CASE Refuse(c, params)
  <2>1. holds' = [holds EXCEPT ![c] = NoParams]
    BY <1>1 DEF Refuse, NoCall
  <2>2. question' = question /\ consent' = consent
    BY <1>1 DEF Refuse
  <2> HIDE DEF holds, question, consent
  <2> QED
    BY <2>1, <2>2 DEF Promise!Next, Promise!Release
<1>2. CASE Join(c, params)
  <2>1. holds' = [holds EXCEPT ![c] = NoParams]
    BY <1>2 DEF Join
  <2>2. question' = question /\ consent' = consent
    BY <1>2 DEF Join
  <2> HIDE DEF holds, question, consent
  <2> QED
    BY <2>1, <2>2 DEF Promise!Next, Promise!Release
<1>3. CASE Open(c, params)
  <2>0. PICK q \in Requests :
          callers' = [callers EXCEPT ![c] = [params |-> params, at |-> "waiting", on |-> q]]
    BY <1>3 DEF Open
  <2>1. holds' = [holds EXCEPT ![c] = NoParams]
    BY <2>0
  <2>2. question = NoParams /\ consent = NoParams
    BY <1>3 DEF Open
  <2>3. question' = params /\ consent' = NoParams
    BY <1>3 DEF Open, NewRequest
  <2> HIDE DEF holds, question, consent
  <2> QED
    BY <2>1, <2>2, <2>3 DEF Promise!Next, Promise!Ask
<1> QED
  BY <1>1, <1>2, <1>3 DEF ConfirmPresence

\* The prompt goroutine grants, denies, lets lapse or hands over a consent.
LEMMA PromptPromise ==
  ASSUME IInv, NEW p \in Requests,
         Dialog(p) \/ SelectLoop(p) \/ SendResult(p) \/ ExtenderExpires(p)
  PROVE  [Promise!Next]_(Promise!vars)
<1> USE DEF IInv, TypeOK, RequestType, CallerType, question, consent, Asking, Consented
<1>0. \A q \in Requests : requests[q].at \in Running => activeRequest = q
  BY DEF ChannelInv, OneDialog
<1>n. requests[p].params # NoParams
  BY NoParamsIsNone
<1>1. CASE DialogFails(p)
  <2>1. activeRequest = p
    BY <1>0, <1>1 DEF DialogFails, Running
  <2>2. question # NoParams /\ question' = NoParams /\ consent = NoParams
    BY <1>1, <1>n, <2>1 DEF DialogFails
  <2>3. holds' = holds /\ consent' = NoParams
    BY <1>1, <2>1 DEF DialogFails, holds
  <2> HIDE DEF question, consent
  <2> QED
    BY <2>2, <2>3 DEF Promise!Next, Promise!Deny
<1>2. ASSUME NEW answer \in {"yes", "no"}, UserAnswers(p, answer)
      PROVE  [Promise!Next]_(Promise!vars)
  <2>1. activeRequest = p
    BY <1>0, <1>2 DEF UserAnswers, Running
  <2>2. question = requests[p].params /\ question' = NoParams /\ consent = NoParams
    BY <1>2, <2>1 DEF UserAnswers
  <2>3. holds' = holds
    BY <1>2 DEF UserAnswers, holds
  <2>4. consent' = IF answer = "yes" THEN requests[p].params ELSE NoParams
    BY <1>2, <2>1 DEF UserAnswers
  <2> HIDE DEF question, consent
  <2> QED
    BY <1>n, <2>2, <2>3, <2>4 DEF Promise!Next, Promise!Grant, Promise!Deny
<1>3. CASE SelectLoop(p) \/ ExtenderExpires(p)
  <2>1. holds' = holds
    BY <1>3 DEF SelectLoop, Decide, TimerFires, Extend, ExtenderExpires, holds
  <2>2. CASE Decide(p)
    <3>1. question' = question /\ consent' = consent
      BY <1>0, <2>2 DEF Decide, Running
    <3> HIDE DEF question, consent
    <3> QED
      BY <2>1, <3>1 DEF Promise!vars
  <2>3. CASE TimerFires(p)
    <3>1. question' = question /\ consent' = NoParams
      BY <1>0, <2>3 DEF TimerFires, Running
    <3> HIDE DEF question, consent
    <3> QED
      BY <2>1, <3>1 DEF Promise!Next, Promise!Lapse, Promise!vars
  <2>4. CASE Extend(p) \/ ExtenderExpires(p)
    <3>1. question' = question /\ consent' = consent
      BY <2>4 DEF Extend, ExtenderExpires
    <3> HIDE DEF question, consent
    <3> QED
      BY <2>1, <3>1 DEF Promise!vars
  <2> QED
    BY <1>3, <2>2, <2>3, <2>4 DEF SelectLoop
<1>4. ASSUME NEW c \in Callers, Deliver(p, c) PROVE [Promise!Next]_(Promise!vars)
  <2>1. activeRequest = p /\ callers[c].params = requests[p].params
    BY <1>0, <1>4 DEF Deliver, Running, ChannelInv
  <2>2. question' = question /\ question = NoParams /\ consent' = NoParams
    BY <1>4, <2>1 DEF Deliver
  <2>3. CASE requests[p].result = "ok"
    <3>1. consent = requests[p].params
      BY <1>4, <2>1, <2>3 DEF Deliver, ChannelInv
    <3>2. holds' = [holds EXCEPT ![c] = requests[p].params]
      <4>1. callers' = [callers EXCEPT ![c].at = "ok", ![c].on = NoRequest]
        BY <1>4, <2>3 DEF Deliver
      <4>2. /\ callers'[c].at = "ok" /\ callers'[c].params = requests[p].params
            /\ \A d \in Callers \ {c} : callers'[d] = callers[d]
        BY <1>0, <2>1, <4>1 DEF TypeOK
      <4> QED BY <4>2 DEF holds
    <3> HIDE DEF question, consent
    <3> QED
      BY <1>n, <2>2, <3>1, <3>2 DEF Promise!Next, Promise!Use
  <2>4. CASE requests[p].result # "ok"
    <3>1. consent = NoParams
      BY <1>4, <2>1, <2>4 DEF Deliver
    <3>2. holds' = holds
      BY <1>4, <2>4 DEF Deliver, Waiters, holds
    <3> HIDE DEF question, consent
    <3> QED
      BY <2>2, <3>1, <3>2 DEF Promise!vars
  <2> QED
    BY <2>3, <2>4
<1>5. CASE SendExpires(p) \/ Clear(p)
  <2>1. activeRequest = p
    BY <1>0, <1>5 DEF SendExpires, Clear, Running
  <2>2. question' = question /\ consent' = NoParams
    BY <1>5, <2>1 DEF SendExpires, Clear, Ended, FreeRequest
  <2>3. holds' = holds
    BY <1>5 DEF SendExpires, Clear, holds
  <2> HIDE DEF question, consent
  <2> QED
    BY <2>2, <2>3 DEF Promise!Next, Promise!Lapse, Promise!vars
<1> QED
  BY <1>1, <1>2, <1>3, <1>4, <1>5 DEF Dialog, SendResult

\* The mapping takes the initial states to the initial state of Consent,
LEMMA PromiseInit == Init => Promise!Init
BY DEF Init, Promise!Init, question, consent, holds, Asking, Consented, NoCall

\* and every step to a step of Consent, or to none.
LEMMA PromiseStep == IInv /\ [Next]_vars => [Promise!Next]_(Promise!vars)
<1> SUFFICES ASSUME IInv, [Next]_vars PROVE [Promise!Next]_(Promise!vars)
  OBVIOUS
<1>1. ASSUME NEW c \in Callers, NEW params \in Params \cup {Generic},
             ConfirmPresence(c, params)
      PROVE  [Promise!Next]_(Promise!vars)
  BY <1>1, ConfirmPresencePromise
<1>2. ASSUME NEW c \in Handlers, GiveUp(c) PROVE [Promise!Next]_(Promise!vars)
  <2>1. holds' = holds
    BY <1>2 DEF GiveUp, NoCall, holds, IInv, TypeOK, CallerType, Callers
  <2>2. question' = question /\ consent' = consent
    BY <1>2 DEF GiveUp, question, consent, Asking, Consented
  <2> QED
    BY <2>1, <2>2 DEF Promise!vars
<1>3. ASSUME NEW p \in Requests,
             Dialog(p) \/ SelectLoop(p) \/ SendResult(p) \/ ExtenderExpires(p)
      PROVE  [Promise!Next]_(Promise!vars)
  BY <1>3, PromptPromise
<1>4. CASE UNCHANGED vars
  BY <1>4 DEF vars, Promise!vars, question, consent, holds, Asking, Consented
<1> QED
  BY <1>1, <1>2, <1>3, <1>4 DEF Next, Ask, ConfirmGeneric, Callers

\* Every behaviour of the dialog is, through the mapping, a behaviour of Consent:
\* each yes of the user authorises at most one caller, for the question it asked.
THEOREM DialogImplementsConsent == Spec => ImplementsConsent
BY PromiseInit, PromiseStep, ChannelCorrect, PTL DEF Spec, IInv, ImplementsConsent, Promise!Spec
=============================================================================
