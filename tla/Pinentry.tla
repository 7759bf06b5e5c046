------------------------------ MODULE Pinentry ------------------------------
(***************************************************************************)
(* The confirmation dialog of linux-id (src/pinentry/pinentry.go).         *)
(*                                                                         *)
(* A CTAP1 browser repeats its request about every 750 ms until the user   *)
(* has answered, so ConfirmPresence lets a repetition of the request the   *)
(* dialog is open for wait on the same result channel, and refuses every   *)
(* other request while the dialog is open.  The goroutine "prompt" runs    *)
(* the dialog and hands its answer to one caller over an unbuffered        *)
(* channel, or drops it after two seconds without a caller.                *)
(*                                                                         *)
(* Callers come in two kinds.  A handler is handleAuthenticate or          *)
(* handleRegister: it waits 750 ms at most and may repeat its parameters.  *)
(* A verifier is the goroutine of pinentryVerifier.VerifyUser: it calls    *)
(* ConfirmGeneric, whose random nonce matches no other request, and waits  *)
(* for as long as it takes.                                                *)
(*                                                                         *)
(* Time is not modelled here: a timeout may strike whenever the code lets  *)
(* it; U2FServer adds the durations.                                       *)
(*                                                                         *)
(* Assumed: a caller that ConfirmPresence has let join listens from then   *)
(* on (its goroutine has only to return before it blocks on the channel,   *)
(* and is not held up there until the two seconds are over), and           *)
(* crypto/rand.Read returns no error (go.mod asks for Go 1.25; since 1.24  *)
(* it never does), so ConfirmGeneric has no failure of its own.            *)
(***************************************************************************)
EXTENDS Integers, FiniteSets

CONSTANTS
  Handlers,      \* callers of ConfirmPresence that give up after 750 ms
  Verifiers,     \* callers of ConfirmGeneric, which never give up
  Challenges,    \* values of challengeParam
  Applications,  \* values of applicationParam
  Requests,      \* addresses of *request; an unreferenced one may be reused
  MaxExtenders   \* bound on the goroutines waiting to extend one dialog

Callers == Handlers \cup Verifiers

(***************************************************************************)
(* A nonce is drawn afresh for every ConfirmGeneric, so it equals no       *)
(* parameter, not even the nonce of another call.                          *)
(***************************************************************************)
Nonce == "nonce"

NoRequest == "nil"

ASSUME PinentryAssumption ==
  /\ Handlers \cap Verifiers = {}
  /\ Nonce \notin Challenges
  /\ Nonce \notin Applications
  /\ NoRequest \notin Requests
  /\ NoRequest \notin Challenges
  /\ MaxExtenders \in Nat

Params == [challenge : Challenges, application : Applications]

Generic == [challenge |-> Nonce, application |-> Nonce]

VARIABLES
  activeRequest, \* Pinentry.activeRequest
  requests,      \* every request object, with the state of its prompt goroutine
  callers        \* what each caller asked, which channel it holds, what it got

vars == <<activeRequest, requests, callers>>

-----------------------------------------------------------------------------

(***************************************************************************)
(* Where the goroutine "prompt" of a request is: "dialog" until            *)
(* client.Confirm returns, "decide" in its select loop, "sending" and      *)
(* "clearing" in sendResult.  A result is OK or it is not: no caller tells *)
(* a refusal by the user from an error of the dialog.                      *)
(***************************************************************************)
Running == {"dialog", "decide", "sending", "clearing"}

RequestType ==
  [ params    : Params \cup {Generic},
    at        : {"free"} \cup Running,
    answer    : {"none", "yes", "no"},
    result    : {"none", "ok", "denied"},
    extenders : 0 .. MaxExtenders,   \* goroutines waiting to extend the timer
    takers    : SUBSET Callers ]     \* history: who received from pendingResult

CallerType ==
  [ params : Params \cup {Generic},
    at     : {"idle", "waiting", "ok", "denied", "refused", "gone"},
    on     : Requests \cup {NoRequest} ]

TypeOK ==
  /\ activeRequest \in Requests \cup {NoRequest}
  /\ requests \in [Requests -> RequestType]
  /\ callers \in [Callers -> CallerType]

FreeRequest ==
  [params |-> Generic, at |-> "free", answer |-> "none", result |-> "none",
   extenders |-> 0, takers |-> {}]

NoCall == [params |-> Generic, at |-> "idle", on |-> NoRequest]

Init ==
  /\ activeRequest = NoRequest
  /\ requests = [p \in Requests |-> FreeRequest]
  /\ callers = [c \in Callers |-> NoCall]

Waiters(p) == {c \in Callers : callers[c].at = "waiting" /\ callers[c].on = p}

NewRequest(params) ==
  [params |-> params, at |-> "dialog", answer |-> "none", result |-> "none",
   extenders |-> 0, takers |-> {}]

Unreferenced(p) ==
  /\ requests[p].at = "free"
  /\ requests[p].extenders = 0
  /\ Waiters(p) = {}

-----------------------------------------------------------------------------
(***************************************************************************)
(* ConfirmPresence, one critical section of pe.mu.                         *)
(***************************************************************************)

\* Seeded fault: only the application parameter is compared.
MatchesApplication(p, params) ==
  params # Generic /\ requests[p].params.application = params.application

\* Seeded fault: the nonce is the same for every call.
MatchesNonce(p, params) == requests[p].params = params

Matches(p, params) == params # Generic /\ requests[p].params = params

Refuse(c, params) ==
  /\ activeRequest # NoRequest
  /\ ~Matches(activeRequest, params)
  /\ callers' = [callers EXCEPT ![c] = [NoCall EXCEPT !.at = "refused"]]
  /\ UNCHANGED <<activeRequest, requests>>

Join(c, params) ==
  /\ activeRequest # NoRequest
  /\ Matches(activeRequest, params)
  /\ requests[activeRequest].extenders < MaxExtenders
  /\ requests' = [requests EXCEPT ![activeRequest].extenders = @ + 1]
  /\ callers' = [callers EXCEPT ![c] =
                   [params |-> params, at |-> "waiting", on |-> activeRequest]]
  /\ UNCHANGED activeRequest

Open(c, params) ==
  /\ activeRequest = NoRequest
  /\ \E p \in Requests :
       /\ Unreferenced(p)
       /\ requests' = [requests EXCEPT ![p] = NewRequest(params)]
       /\ callers' = [callers EXCEPT ![c] = [params |-> params, at |-> "waiting", on |-> p]]
       /\ activeRequest' = p

ConfirmPresence(c, params) ==
  /\ callers[c].at # "waiting"
  /\ Refuse(c, params) \/ Join(c, params) \/ Open(c, params)

ConfirmGeneric(c) == ConfirmPresence(c, Generic)

\* The goroutine a joining call leaves behind gets tired of waiting for the
\* select loop to take its extension.
ExtenderExpires(p) ==
  /\ requests[p].extenders > 0
  /\ requests' = [requests EXCEPT ![p].extenders = @ - 1]
  /\ UNCHANGED <<activeRequest, callers>>

\* A handler's 750 ms are over: it answers its client and forgets the channel.
GiveUp(c) ==
  /\ callers[c].at = "waiting"
  /\ callers' = [callers EXCEPT ![c] = [NoCall EXCEPT !.at = "gone"]]
  /\ UNCHANGED <<activeRequest, requests>>

-----------------------------------------------------------------------------
(***************************************************************************)
(* The goroutine prompt.                                                   *)
(***************************************************************************)

\* NewClient or client.Confirm returns an error.
DialogFails(p) ==
  /\ requests[p].at = "dialog"
  /\ requests' = [requests EXCEPT ![p].at = "sending", ![p].result = "denied"]
  /\ UNCHANGED <<activeRequest, callers>>

\* client.Confirm returns what the user chose, and the timer is started.
UserAnswers(p, answer) ==
  /\ requests[p].at = "dialog"
  /\ requests' = [requests EXCEPT ![p].at = "decide", ![p].answer = answer]
  /\ UNCHANGED <<activeRequest, callers>>

\* Seeded fault: the result says OK whatever the user chose.
DecideOK(p) ==
  /\ requests[p].at = "decide"
  /\ requests' = [requests EXCEPT ![p].at = "sending", ![p].result = "ok"]
  /\ UNCHANGED <<activeRequest, callers>>

\* The select loop: the user's choice is always ready to be received ...
Decide(p) ==
  /\ requests[p].at = "decide"
  /\ requests' = [requests EXCEPT ![p].at = "sending",
                    ![p].result = IF requests[p].answer = "yes" THEN "ok" ELSE "denied"]
  /\ UNCHANGED <<activeRequest, callers>>

\* ... but select may pick the timer, if the goroutine was held up that long,
TimerFires(p) ==
  /\ requests[p].at = "decide"
  /\ requests' = [requests EXCEPT ![p].at = "sending", ![p].result = "denied"]
  /\ UNCHANGED <<activeRequest, callers>>

\* ... or an extender, which only restarts the timer.
Extend(p) ==
  /\ requests[p].at = "decide"
  /\ requests[p].extenders > 0
  /\ requests' = [requests EXCEPT ![p].extenders = @ - 1]
  /\ UNCHANGED <<activeRequest, callers>>

\* Seeded fault: the result channel is closed instead, which wakes everyone.
DeliverToAll(p, c) ==
  /\ requests[p].at = "sending"
  /\ c \in Waiters(p)
  /\ callers' = [d \in Callers |-> IF d \in Waiters(p)
                   THEN [callers[d] EXCEPT !.at = requests[p].result, !.on = NoRequest]
                   ELSE callers[d]]
  /\ requests' = [requests EXCEPT ![p].at = "clearing", ![p].takers = Waiters(p)]
  /\ UNCHANGED activeRequest

\* sendResult, first half: the rendezvous on pendingResult picks one receiver ...
Deliver(p, c) ==
  /\ requests[p].at = "sending"
  /\ c \in Waiters(p)
  /\ callers' = [callers EXCEPT ![c].at = requests[p].result, ![c].on = NoRequest]
  /\ requests' = [requests EXCEPT ![p].at = "clearing", ![p].takers = @ \cup {c}]
  /\ UNCHANGED activeRequest

\* ... or two seconds pass without one.
SendExpires(p) ==
  /\ requests[p].at = "sending"
  /\ Waiters(p) = {}
  /\ requests' = [requests EXCEPT ![p].at = "clearing"]
  /\ UNCHANGED <<activeRequest, callers>>

\* The goroutine is over; a caller that joined since the rendezvous still holds
\* the channel, on which nobody will ever send, and an extender may live on.
Ended(p) == [FreeRequest EXCEPT !.extenders = requests[p].extenders]

\* Seeded fault: activeRequest is reset before the result is sent.
ClearEarly(p) ==
  /\ requests[p].at \in {"sending", "clearing"}
  /\ requests' = [requests EXCEPT ![p] = IF @.at = "clearing" THEN Ended(p) ELSE @]
  /\ activeRequest' = NoRequest
  /\ UNCHANGED callers

\* Seeded fault: activeRequest is not reset when the result is an error.
ClearOnOk(p) ==
  /\ requests[p].at = "clearing"
  /\ requests' = [requests EXCEPT ![p] = Ended(p)]
  /\ activeRequest' = IF requests[p].result = "ok" THEN NoRequest ELSE activeRequest
  /\ UNCHANGED callers

\* sendResult, second half, a critical section of pe.mu.
Clear(p) ==
  /\ requests[p].at = "clearing"
  /\ requests' = [requests EXCEPT ![p] = Ended(p)]
  /\ activeRequest' = NoRequest
  /\ UNCHANGED callers

-----------------------------------------------------------------------------
Ask ==
  \/ \E c \in Handlers, params \in Params : ConfirmPresence(c, params)
  \/ \E c \in Verifiers : ConfirmGeneric(c)
  \/ \E c \in Handlers : GiveUp(c)

Dialog(p) ==
  DialogFails(p) \/ UserAnswers(p, "yes") \/ UserAnswers(p, "no")

SelectLoop(p) == Decide(p) \/ TimerFires(p) \/ Extend(p)

SendResult(p) == (\E c \in Callers : Deliver(p, c)) \/ SendExpires(p) \/ Clear(p)

Next ==
  \/ Ask
  \/ \E p \in Requests :
       \/ Dialog(p)
       \/ SelectLoop(p)
       \/ SendResult(p)
       \/ ExtenderExpires(p)

(***************************************************************************)
(* Nobody has to call, and a handler may wait as long as it likes.  The    *)
(* user answers every dialog sooner or later; the prompt goroutine runs    *)
(* on; and select, which picks at random among what is ready, does not     *)
(* pass over the user's choice for ever.                                   *)
(***************************************************************************)
Fairness ==
  \A p \in Requests :
    /\ WF_vars(Dialog(p))
    /\ WF_vars(Decide(p))
    /\ WF_vars(SendResult(p))

Spec == Init /\ [][Next]_vars /\ Fairness

-----------------------------------------------------------------------------
\* At most one dialog is up, and activeRequest is the request whose prompt
\* goroutine runs: sendResult resets activeRequest without looking at whose it
\* is, which is right only because nobody else can have opened a dialog since.
OneDialog ==
  \A p \in Requests : requests[p].at \in Running <=> activeRequest = p

\* One answer authorises one operation: the callers that share a result channel
\* never receive more than one result between them.
OneTaker ==
  \A p \in Requests : \A c, d \in requests[p].takers : c = d

\* The inductive strengthening of the above: a channel is held by waiting callers
\* only; while its prompt goroutine runs they all asked for what the dialog shows;
\* an OK on its way is the user's; and nobody has received before the rendezvous.
ChannelInv ==
  /\ OneDialog
  /\ OneTaker
  /\ \A c \in Callers : callers[c].at = "waiting" <=> callers[c].on # NoRequest
  /\ \A p \in Requests :
       /\ requests[p].at \in Running =>
            \A c \in Waiters(p) : callers[c].params = requests[p].params
       /\ requests[p].result = "ok" => requests[p].answer = "yes"
       /\ requests[p].at # "clearing" => requests[p].takers = {}

\* A caller is told OK only by a dialog shown for exactly the parameters it asked
\* for, and only if the user confirmed that dialog: the deduplication of repeated
\* requests never lets one request use up the answer to another.
OkIsForAsker ==
  [][\A c \in Callers :
       callers[c].at = "waiting" /\ callers'[c].at = "ok" =>
         /\ requests[callers[c].on].params = callers[c].params
         /\ requests[callers[c].on].answer = "yes"]_vars

\* Whatever callers do, the dialog is given up after the user has answered it,
\* and the next request can open its own.
DialogEnds ==
  \A p \in Requests : activeRequest = p ~> activeRequest # p

\* A CTAP2 request that opened a dialog hears what the user answered: nobody can
\* share its channel, and it never stops listening.
VerifierHears ==
  \A c \in Verifiers : callers[c].at = "waiting" ~> callers[c].at # "waiting"

-----------------------------------------------------------------------------
(***************************************************************************)
(* The dialog implements Consent.  The question is what the dialog on the  *)
(* screen is about; the consent is the "yes" between client.Confirm and    *)
(* its reception, unless the select loop chose the timer instead.          *)
(***************************************************************************)
NoParams == [challenge |-> NoRequest, application |-> NoRequest]

Asking ==
  activeRequest # NoRequest /\ requests[activeRequest].at = "dialog"

Consented ==
  /\ activeRequest # NoRequest
  /\ requests[activeRequest].answer = "yes"
  /\ \/ requests[activeRequest].at = "decide"
     \/ requests[activeRequest].at = "sending" /\ requests[activeRequest].result = "ok"

question == IF Asking THEN requests[activeRequest].params ELSE NoParams

consent == IF Consented THEN requests[activeRequest].params ELSE NoParams

holds == [c \in Callers |-> IF callers[c].at = "ok" THEN callers[c].params ELSE NoParams]

Promise == INSTANCE Consent WITH
  Questions <- Params \cup {Generic},
  None <- NoParams

\* Under any interleaving of callers, dialogs and timeouts the component shows no
\* more than what Consent allows: one question at a time, each yes used at most
\* once, by a caller that asked exactly that.
ImplementsConsent == Promise!Spec
=============================================================================
