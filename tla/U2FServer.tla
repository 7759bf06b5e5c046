----------------------------- MODULE U2FServer ------------------------------
(***************************************************************************)
(* The server's event loop and its CTAP1/U2F handlers (src/main.go) over   *)
(* the confirmation dialog.                                                *)
(*                                                                         *)
(* One goroutine serves all events in order.  A handler that needs the     *)
(* user waits 750 ms for the dialog and then answers                       *)
(* ConditionsNotSatisfied, upon which the browser repeats its request.     *)
(* Whether the user's answer reaches a browser therefore depends on four   *)
(* durations, which this module adds to Pinentry: the handler's wait, the  *)
(* browser's pause, the two seconds prompt keeps an answer for, and the    *)
(* time a CTAP2 request may hold the server.                               *)
(*                                                                         *)
(* A tick is 250 ms.  A goroutine that can run does so before time passes, *)
(* so no goroutine is held up for two seconds and the select loop of       *)
(* prompt never finds its timer expired (TimerFires does not occur here).  *)
(*                                                                         *)
(* A CTAP2 request appears only as far as it uses the dialog and the       *)
(* server's time, without a cached verification: "ctap2" is one to a       *)
(* server with --auth=pinentry, which asks by the same dialog; "scan" one  *)
(* to a server with --auth=fprintd, where the dialog and the scan go on    *)
(* side by side.  The rest of it is in Ctap2Server.                        *)
(***************************************************************************)
EXTENDS Pinentry, Sequences

CONSTANTS
  Clients,      \* browser operations; each one repeats one request
  Asks,         \* the requests each client may be about
  PollGap,      \* most ticks a browser lets pass before it repeats a request
  Ctap2Wait,    \* ticks a CTAP2 handler waits for the user (35 s in the code)
  SignerFails   \* whether the signer may fail on what it could serve

(***************************************************************************)
(* What a client sends.  "known" says whether the key handle is one the    *)
(* signer made for this application.  A message that                       *)
(* DecodeAuthenticatorRequest rejects is "undecodable", and so is an       *)
(* authentication with an unknown control value: handleAuthenticate would  *)
(* answer it, but never sees it.                                           *)
(***************************************************************************)
RequestsOfClients ==
  [cmd : {"version", "unsupported", "undecodable", "ctap2", "scan"}]
    \cup [cmd : {"register"}, params : Params]
    \cup [cmd : {"authenticate"}, params : Params, known : BOOLEAN,
          ctrl : {"checkOnly", "enforce", "dontEnforce"}]

ASSUME U2FAssumption ==
  /\ \E h \in Handlers : Handlers = {h}
  /\ Asks \in [Clients -> SUBSET RequestsOfClients]
  /\ PollGap \in Nat
  /\ Ctap2Wait \in Nat
  /\ SignerFails \in BOOLEAN

\* The server goroutine is the one handler that calls ConfirmPresence.
Server == CHOOSE h \in Handlers : TRUE

NoClient == "none"

VARIABLES
  server,    \* which client is served, what is awaited, for how many ticks
  inbox,     \* token.Events(): clients whose request has not been taken yet
  clients,   \* each browser's request, where it is, its pause, its last status
  sendLeft,  \* ticks until prompt drops its result
  consented  \* history: parameters the user confirmed and nothing signed yet

serverVars == <<server, inbox, clients>>
allVars == <<activeRequest, requests, callers, server, inbox, clients, sendLeft, consented>>

\* Handler wait, 750 ms.
HandlerWait == 3

\* Seeded fault: sendResult gives up after 500 ms.
ShortSendTimeout == 2

\* sendResult waits req.timeout, two seconds.
SendTimeout == 8

Countdown == 0 .. HandlerWait + SendTimeout + PollGap + Ctap2Wait

U2FTypeOK ==
  /\ TypeOK
  /\ server \in [at : {"idle", "waiting", "dead"}, client : Clients \cup {NoClient},
                 caller : Callers, left : Countdown]
  /\ inbox \in Seq(Clients)
  /\ clients \in [Clients -> [request : RequestsOfClients,
                              at : {"new", "sent", "polling", "done", "hung"},
                              status : {"none", "NoError", "WrongData", "Ctap2",
                                        "ConditionsNotSatisfied", "ClaNotSupported"},
                              left : Countdown]]
  /\ sendLeft \in Countdown
  /\ consented \subseteq Params

Idle == [at |-> "idle", client |-> NoClient, caller |-> Server, left |-> 0]

U2FInit ==
  /\ Init
  /\ server = Idle
  /\ inbox = <<>>
  /\ \E r \in [Clients -> RequestsOfClients] :
       /\ \A c \in Clients : r[c] \in Asks[c]
       /\ ~\E c, d \in Clients : r[c].cmd = "ctap2" /\ r[d].cmd = "scan"
       /\ clients = [c \in Clients |->
                      [request |-> r[c], at |-> "new", status |-> "none", left |-> 0]]
  /\ sendLeft = 0
  /\ consented = {}

dialogVars == <<activeRequest, requests, callers>>

RequestOf(c) == clients[c].request

-----------------------------------------------------------------------------
(***************************************************************************)
(* The browsers.                                                           *)
(***************************************************************************)
\* A browser pauses for at least one tick between two requests.
Send(c) ==
  /\ \/ clients[c].at = "new"
     \/ clients[c].at = "polling" /\ clients[c].left < PollGap
  /\ clients' = [clients EXCEPT ![c] = [@ EXCEPT !.at = "sent", !.status = "none", !.left = 0]]
  /\ inbox' = Append(inbox, c)
  /\ UNCHANGED <<dialogVars, server, sendLeft, consented>>

\* The user closes the page, or the browser has heard enough.
Abandon(c) ==
  /\ clients[c].at = "polling"
  /\ clients' = [clients EXCEPT ![c].at = "done", ![c].left = 0]
  /\ UNCHANGED <<dialogVars, server, inbox, sendLeft, consented>>

\* A browser repeats a request that is waiting for the user.
NeedsUser(c) ==
  \/ RequestOf(c).cmd = "register"
  \/ RequestOf(c).cmd = "authenticate" /\ RequestOf(c).ctrl = "enforce"

Respond(c, status) ==
  clients' = [clients EXCEPT ![c] =
    IF status = "ConditionsNotSatisfied" /\ NeedsUser(c)
    THEN [@ EXCEPT !.at = "polling", !.status = status, !.left = PollGap]
    ELSE [@ EXCEPT !.at = "done", !.status = status]]

\* No response is written.
Silence(c) == clients' = [clients EXCEPT ![c].at = "hung"]

-----------------------------------------------------------------------------
(***************************************************************************)
(* The event loop takes the next event; a handler that needs no user       *)
(* answers it in the same step.                                            *)
(***************************************************************************)
Take(c) == server.at = "idle" /\ inbox # <<>> /\ c = Head(inbox) /\ inbox' = Tail(inbox)

Answer(c, status) ==
  /\ Respond(c, status)
  /\ server' = Idle
  /\ UNCHANGED <<dialogVars, sendLeft>>

\* log.Fatalf: the process is gone, and with it every later event.
Fatal == server' = [Idle EXCEPT !.at = "dead"]

\* Signing with a handle the signer made works, unless it fails today.
CanSign(c) == RequestOf(c).known
CanFail(c) == SignerFails \/ ~RequestOf(c).known

HandleOther(c) ==
  /\ Take(c)
  /\ \/ RequestOf(c).cmd = "version" /\ Answer(c, "NoError")
     \/ RequestOf(c).cmd = "unsupported" /\ Answer(c, "ClaNotSupported")
  /\ UNCHANGED consented

\* evt.Error is logged and the loop goes on.
HandleUndecodable(c) ==
  /\ Take(c)
  /\ RequestOf(c).cmd = "undecodable"
  /\ Silence(c)
  /\ UNCHANGED <<dialogVars, server, sendLeft, consented>>

\* ConfirmPresence refuses, or the handler waits for the dialog.
AskUser(c, caller, params, refusal, wait) ==
  /\ ConfirmPresence(caller, params)
  /\ IF callers'[caller].at = "refused"
     THEN Respond(c, refusal) /\ server' = Idle
     ELSE /\ server' = [at |-> "waiting", client |-> c, caller |-> caller, left |-> wait]
          /\ UNCHANGED clients
  /\ UNCHANGED sendLeft

\* The last part of handleAuthenticate: the signature proper.
Sign(c) ==
  \/ Respond(c, "NoError") /\ server' = Idle
  \/ SignerFails /\ Fatal /\ UNCHANGED clients

HandleAuthenticate(c) ==
  /\ Take(c)
  /\ RequestOf(c).cmd = "authenticate"
  /\ \/ CanFail(c) /\ Answer(c, "WrongData")
     \/ /\ CanSign(c)
        /\ \/ RequestOf(c).ctrl = "checkOnly" /\ Answer(c, "ConditionsNotSatisfied")
           \/ RequestOf(c).ctrl = "dontEnforce" /\ Sign(c) /\ UNCHANGED <<dialogVars, sendLeft>>
           \/ /\ RequestOf(c).ctrl = "enforce"
              /\ AskUser(c, Server, RequestOf(c).params, "ConditionsNotSatisfied", HandlerWait)
  /\ UNCHANGED consented

HandleRegister(c) ==
  /\ Take(c)
  /\ RequestOf(c).cmd = "register"
  /\ AskUser(c, Server, RequestOf(c).params, "ConditionsNotSatisfied", HandlerWait)
  /\ UNCHANGED consented

\* handleMakeCredential and handleGetAssertion, as far as they ask the user.
HandleCtap2(c) ==
  /\ Take(c)
  /\ RequestOf(c).cmd = "ctap2"
  /\ \E v \in Verifiers : AskUser(c, v, Generic, "Ctap2", Ctap2Wait)
  /\ UNCHANGED consented

\* The same with --auth=fprintd: VerifyPresence returns no error, and the handler
\* waits for a channel the dialog knows nothing of.
HandleScan(c) ==
  /\ Take(c)
  /\ RequestOf(c).cmd = "scan"
  /\ server' = [at |-> "waiting", client |-> c, caller |-> Server, left |-> Ctap2Wait]
  /\ UNCHANGED <<dialogVars, clients, sendLeft, consented>>

-----------------------------------------------------------------------------
(***************************************************************************)
(* The handler that waits hears from the dialog, or its time is over.      *)
(***************************************************************************)
Hears(c, result) ==
  /\ server.at = "waiting"
  /\ server.client = c
  /\ callers[server.caller].at = result
  /\ UNCHANGED <<dialogVars, inbox, sendLeft>>

\* registerSite: when RegisterKey fails, nothing is written.
RegisterSite(c) ==
  /\ Respond(c, "NoError") \/ (SignerFails /\ Silence(c))
  /\ server' = Idle

\* Seeded fault: the handler goes on whatever the result.
AcceptsAny(c) == {"ok", "denied"}

\* The results upon which the handler of a client signs or registers.
Accepts(c) == {"ok"}

HearsOk(c) ==
  /\ NeedsUser(c)
  /\ \E r \in Accepts(c) : Hears(c, r)
  /\ \/ RequestOf(c).cmd = "authenticate" /\ Sign(c)
     \/ RequestOf(c).cmd = "register" /\ RegisterSite(c)
  /\ consented' = consented \ {RequestOf(c).params}

HearsDenied(c) ==
  /\ NeedsUser(c)
  /\ Hears(c, "denied")
  /\ Respond(c, "WrongData")
  /\ server' = Idle
  /\ UNCHANGED consented

Ctap2Hears(c) ==
  /\ RequestOf(c).cmd = "ctap2"
  /\ Hears(c, "ok") \/ Hears(c, "denied")
  /\ Respond(c, "Ctap2")
  /\ server' = Idle
  /\ UNCHANGED consented

\* The scan comes to an end, whichever.
ScanEnds(c) ==
  /\ server.at = "waiting"
  /\ server.client = c
  /\ RequestOf(c).cmd = "scan"
  /\ Respond(c, "Ctap2")
  /\ server' = Idle
  /\ UNCHANGED <<dialogVars, inbox, sendLeft, consented>>

\* Seeded fault: a CTAP2 handler waits without a deadline.
Ctap2WaitsOn(c) == NeedsUser(c)

\* Every handler that asks the user has a deadline.
HasDeadline(c) == NeedsUser(c) \/ RequestOf(c).cmd \in {"ctap2", "scan"}

\* The handler that waits has a result of the dialog to receive.
Heard ==
  /\ RequestOf(server.client).cmd # "scan"
  /\ callers[server.caller].at \in {"ok", "denied"}

\* A U2F handler forgets the channel; the goroutine of a CTAP2 request lives on.
HandlerTimesOut(c) ==
  /\ server.at = "waiting"
  /\ server.client = c
  /\ server.left = 0
  /\ HasDeadline(c)
  /\ server' = Idle
  /\ \/ /\ RequestOf(c).cmd \in {"ctap2", "scan"}
        /\ ~Heard
        /\ Respond(c, "Ctap2")
        /\ UNCHANGED dialogVars
     \/ /\ NeedsUser(c)
        /\ GiveUp(Server)
        /\ Respond(c, "ConditionsNotSatisfied")
  /\ UNCHANGED <<inbox, sendLeft, consented>>

-----------------------------------------------------------------------------
(***************************************************************************)
(* The dialog, with the time sendResult allows.                            *)
(***************************************************************************)
TimedDialog(p) ==
  /\ Dialog(p)
  /\ sendLeft' = SendTimeout
  /\ consented' = IF requests'[p].answer = "yes" /\ requests[p].params # Generic
                  THEN consented \cup {requests[p].params} ELSE consented
  /\ UNCHANGED serverVars

TimedPrompt(p) ==
  /\ \/ Decide(p) /\ sendLeft' = SendTimeout
     \/ /\ \/ Extend(p) \/ ExtenderExpires(p) \/ Clear(p)
           \/ \E c \in Callers : Deliver(p, c)
           \/ sendLeft = 0 /\ SendExpires(p)
        /\ UNCHANGED sendLeft
  /\ UNCHANGED <<serverVars, consented>>

\* Something other than the user and the browsers can run now.
Urgent ==
  \/ server.at = "idle" /\ inbox # <<>>
  \/ server.at = "waiting" /\ (server.left = 0 \/ Heard)
  \/ \E c \in Clients : clients[c].at = "polling" /\ clients[c].left = 0
  \/ \E p \in Requests :
       \/ requests[p].at \in {"decide", "clearing"}
       \/ requests[p].at = "sending" /\ (sendLeft = 0 \/ Waiters(p) # {})

Down(n) == IF n = 0 THEN 0 ELSE n - 1

Tick ==
  /\ ~Urgent
  /\ server' = [server EXCEPT !.left = Down(@)]
  /\ clients' = [c \in Clients |-> [clients[c] EXCEPT !.left = Down(@)]]
  /\ sendLeft' = Down(sendLeft)
  /\ UNCHANGED <<dialogVars, inbox, consented>>

Handle(c) ==
  \/ HandleOther(c) \/ HandleUndecodable(c) \/ HandleAuthenticate(c)
  \/ HandleRegister(c) \/ HandleCtap2(c) \/ HandleScan(c)

Conclude(c) == HearsOk(c) \/ HearsDenied(c) \/ Ctap2Hears(c) \/ HandlerTimesOut(c)

U2FNext ==
  \/ \E c \in Clients : Send(c) \/ Abandon(c) \/ Handle(c) \/ Conclude(c) \/ ScanEnds(c)
  \/ server.at # "dead" /\ \E p \in Requests : TimedDialog(p) \/ TimedPrompt(p)
  \/ Tick

(***************************************************************************)
(* Time passes, goroutines run, and browsers repeat their requests in time *)
(* (time does not pass otherwise).  Nobody need be there to answer the     *)
(* dialog or to touch the sensor.                                          *)
(***************************************************************************)
ServerFairness ==
  /\ WF_allVars(Tick)
  /\ WF_allVars(\E c \in Clients : Handle(c) \/ Conclude(c))
  /\ \A c \in Clients : WF_allVars(clients[c].at = "polling" /\ Send(c))
  /\ \A p \in Requests : WF_allVars(TimedPrompt(p))

U2FSpec == U2FInit /\ [][U2FNext]_allVars /\ ServerFairness

\* The user answers every dialog, sooner or later.
UserIsThere == \A p \in Requests : WF_allVars(TimedDialog(p))

-----------------------------------------------------------------------------
\* A signature with the user-presence bit, and a registration, each use up one
\* confirmation that the user gave for these very parameters: dialogs, retries and
\* results that come too late never add up to a second one.
SignedWithConsent ==
  [][\A c \in Clients :
       /\ NeedsUser(c)
       /\ clients[c].status # "NoError" /\ clients'[c].status = "NoError"
       => RequestOf(c).params \in consented]_allVars

\* While a browser keeps repeating its request, the answer the user gave to its
\* dialog is not dropped: prompt offers it for longer than the browser pauses, and
\* nothing holds the server up in between.  With --auth=fprintd a scan does hold it
\* up, and the answer may be dropped while the browser's request waits for its turn.
AnswerReachesBrowser ==
  [][\A p \in Requests :
       /\ requests[p].at = "sending"
       /\ requests'[p].at = "clearing"
       /\ requests'[p].takers = {}
       => \A c \in Clients :
            /\ NeedsUser(c)
            /\ \/ clients[c].at = "polling"
               \/ clients[c].at = "sent" /\ \A d \in Clients : RequestOf(d).cmd # "scan"
            => RequestOf(c).params # requests[p].params
     ]_allVars

\* Every request that can be decoded is answered, even if the user never looks at
\* the dialog: no handler waits for the user without a deadline, and the loop comes
\* round to every event.
EveryRequestAnswered ==
  \A c \in Clients :
    clients[c].at = "sent" /\ RequestOf(c).cmd # "undecodable"
      ~> clients[c].at \in {"polling", "done"}

\* If the user answers the dialogs, no browser that keeps asking asks for ever: each
\* gets an answer that ends its operation (or asked what cannot be decoded), also when
\* a CTAP2 request and other sites compete for the one dialog, and when an answer was
\* dropped while a scan held the server up.
EveryOperationEnds ==
  UserIsThere => <>[](\A c \in Clients : clients[c].at \in {"new", "done", "hung"})
=============================================================================
