--------------------------- MODULE U2FServerProofs ---------------------------
(***************************************************************************)
(* Theorems about U2FServer, for any browsers and requests, any number of  *)
(* CTAP2 requests that gave up, and any durations: what PinentryProofs     *)
(* says of the dialog holds of the dialog as the server uses it, and a     *)
(* signature or a registration uses up one consent.                        *)
(***************************************************************************)
EXTENDS U2FServer, PinentryProofs

\* If the handler that waits needs the user, the one U2F caller has asked for exactly
\* what its client wants, and waits or has got a result.
WaitInv ==
  server.at = "waiting" =>
    /\ server.client \in Clients
    /\ NeedsUser(server.client) =>
         /\ server.caller = Server
         /\ callers[Server].params = RequestOf(server.client).params

\* No dialog is opened while the server waits: until the handler has got a result the
\* only dialog there may be is the one it waits for, and then there is none.
HolderInv ==
  server.at = "waiting" /\ RequestOf(server.client).cmd # "scan" =>
    /\ callers[server.caller].at \in {"waiting", "ok", "denied"}
    /\ callers[server.caller].at = "waiting" =>
         activeRequest \in {NoRequest, callers[server.caller].on}
    /\ callers[server.caller].at # "waiting" =>
         \A p \in Requests : requests[p].at \notin {"dialog", "decide", "sending"}

\* A result is sent only once there is one; and a yes that is on its way, or has reached
\* the handler, is a consent not used up yet.
ConsentInv ==
  /\ \A p \in Requests : requests[p].at = "sending" => requests[p].result # "none"
  /\ \A p \in Requests :
       /\ requests[p].at \in {"decide", "sending"}
       /\ requests[p].answer = "yes"
       /\ requests[p].params # Generic
       => requests[p].params \in consented
  /\ /\ server.at = "waiting"
     /\ NeedsUser(server.client)
     /\ callers[Server].at = "ok"
     => RequestOf(server.client).params \in consented

UInv == U2FTypeOK /\ ChannelInv /\ WaitInv /\ HolderInv /\ ConsentInv

-----------------------------------------------------------------------------
ServerType ==
  [at : {"idle", "waiting", "dead"}, client : Clients \cup {NoClient},
   caller : Callers, left : Countdown]

ClientType ==
  [request : RequestsOfClients,
   at : {"new", "sent", "polling", "done", "hung"},
   status : {"none", "NoError", "WrongData", "Ctap2", "ConditionsNotSatisfied", "ClaNotSupported"},
   left : Countdown]

Answers == {"NoError", "WrongData", "Ctap2", "ConditionsNotSatisfied", "ClaNotSupported"}

\* The parts of the type invariant.
LEMMA TypeParts ==
  U2FTypeOK <=> /\ TypeOK /\ server \in ServerType /\ inbox \in Seq(Clients)
                /\ clients \in [Clients -> ClientType] /\ sendLeft \in Countdown
                /\ consented \subseteq Params
BY DEF U2FTypeOK, ServerType, ClientType

\* The one handler.
LEMMA ServerIsCaller == Server \in Handlers /\ Server \in Callers /\ Handlers = {Server}
BY U2FAssumption DEF Server, Callers

\* The durations that count down.
LEMMA Durations ==
  /\ 0 \in Countdown /\ HandlerWait \in Countdown /\ SendTimeout \in Countdown
  /\ PollGap \in Countdown /\ Ctap2Wait \in Countdown
  /\ \A n \in Countdown : n \in Nat /\ Down(n) \in Countdown
BY U2FAssumption DEF Countdown, HandlerWait, SendTimeout, Down

\* A server that is idle, and one that is gone.
LEMMA IdleType == Idle \in ServerType /\ Idle.at = "idle" /\ [Idle EXCEPT !.at = "dead"] \in ServerType
BY ServerIsCaller, Durations DEF Idle, ServerType

\* A request that needs the user is about parameters of its own, none that a CTAP2
\* request would ask with.
LEMMA RequestFacts ==
  ASSUME NEW r \in RequestsOfClients
  PROVE  /\ r.cmd \in {"register", "authenticate"} => r.params \in Params /\ r.params # Generic
         /\ r.cmd = "authenticate" => r.ctrl \in {"checkOnly", "enforce", "dontEnforce"}
         /\ r.cmd \in {"version", "unsupported", "undecodable", "ctap2", "scan", "register",
                       "authenticate"}
BY PinentryAssumption DEF RequestsOfClients, Params, Generic

\* What is needed of a client's request.
LEMMA NeedsUserFacts ==
  ASSUME U2FTypeOK, NEW c \in Clients
  PROVE  /\ RequestOf(c) \in RequestsOfClients
         /\ NeedsUser(c) => RequestOf(c).params \in Params /\ RequestOf(c).params # Generic
         /\ NeedsUser(c) => RequestOf(c).cmd \notin {"scan", "ctap2"}
<1>1. clients[c] \in ClientType
  BY TypeParts
<1>2. RequestOf(c) \in RequestsOfClients
  BY <1>1 DEF ClientType, RequestOf
<1> QED BY <1>2, RequestFacts DEF NeedsUser

\* A response changes nothing but its client's place, status and pause.
LEMMA RespondType ==
  ASSUME U2FTypeOK, NEW c \in Clients, NEW status \in Answers, Respond(c, status)
  PROVE  /\ clients' \in [Clients -> ClientType]
         /\ \A d \in Clients : clients'[d].request = clients[d].request
         /\ \A d \in Clients \ {c} : clients'[d] = clients[d]
         /\ clients'[c].status = status
         /\ clients'[c].at = "done"
            \/ /\ clients'[c].at = "polling" /\ NeedsUser(c)
               /\ clients'[c].left = PollGap /\ status = "ConditionsNotSatisfied"
<1>1. clients \in [Clients -> ClientType] /\ clients[c] \in ClientType
  BY TypeParts
<1>2. CASE status = "ConditionsNotSatisfied" /\ NeedsUser(c)
  <2> DEFINE new == [clients[c] EXCEPT !.at = "polling", !.status = status, !.left = PollGap]
  <2>1. /\ new \in ClientType /\ new.request = clients[c].request /\ new.at = "polling"
        /\ new.left = PollGap /\ new.status = status
    BY <1>1, Durations DEF ClientType, Answers
  <2>2. clients' = [clients EXCEPT ![c] = new]
    BY <1>1, <1>2 DEF Respond
  <2> HIDE DEF new
  <2> QED BY <1>1, <1>2, <2>1, <2>2
<1>3. CASE ~(status = "ConditionsNotSatisfied" /\ NeedsUser(c))
  <2> DEFINE new == [clients[c] EXCEPT !.at = "done", !.status = status]
  <2>1. /\ new \in ClientType /\ new.request = clients[c].request /\ new.at = "done"
        /\ new.status = status
    BY <1>1 DEF ClientType, Answers
  <2>2. clients' = [clients EXCEPT ![c] = new]
    BY <1>1, <1>3 DEF Respond
  <2> HIDE DEF new
  <2> QED BY <1>1, <2>1, <2>2
<1> QED BY <1>2, <1>3

\* No response changes nothing but where its client is.
LEMMA SilenceType ==
  ASSUME U2FTypeOK, NEW c \in Clients, Silence(c)
  PROVE  /\ clients' \in [Clients -> ClientType]
         /\ \A d \in Clients : clients'[d].request = clients[d].request
         /\ \A d \in Clients \ {c} : clients'[d] = clients[d]
         /\ clients'[c].status = clients[c].status
         /\ clients'[c].at = "hung"
<1>1. clients \in [Clients -> ClientType] /\ clients[c] \in ClientType
  BY TypeParts
<1> DEFINE new == [clients[c] EXCEPT !.at = "hung"]
<1>2. /\ new \in ClientType /\ new.request = clients[c].request /\ new.at = "hung"
      /\ new.status = clients[c].status
  BY <1>1 DEF ClientType
<1>3. clients' = [clients EXCEPT ![c] = new]
  BY <1>1 DEF Silence
<1> HIDE DEF new
<1> QED BY <1>1, <1>2, <1>3

-----------------------------------------------------------------------------
(***************************************************************************)
(* Every step of the server is a step of the dialog or leaves it alone.    *)
(***************************************************************************)
LEMMA AskUserAsks ==
  ASSUME NEW c, NEW caller, NEW params, NEW refusal, NEW wait,
         AskUser(c, caller, params, refusal, wait)
  PROVE  ConfirmPresence(caller, params)
BY DEF AskUser

\* Whatever the server does is something its callers may do to the dialog, or nothing.
LEMMA DialogStep ==
  ASSUME U2FTypeOK, [U2FNext]_allVars
  PROVE  [Next]_vars
<1>1. ASSUME NEW c \in Clients, Handle(c)
      PROVE  [Next]_vars
  <2>1. CASE HandleOther(c) \/ HandleUndecodable(c) \/ HandleScan(c)
    BY <2>1 DEF HandleOther, HandleUndecodable, HandleScan, Answer, dialogVars, vars
  <2>2. CASE HandleAuthenticate(c)
    <3>1. CASE UNCHANGED dialogVars
      BY <3>1 DEF dialogVars, vars
    <3>2. CASE NeedsUser(c) /\ ConfirmPresence(Server, RequestOf(c).params)
      BY <3>2, ServerIsCaller, NeedsUserFacts DEF Next, Ask
    <3> QED BY <2>2, <3>1, <3>2, AskUserAsks DEF HandleAuthenticate, Answer, NeedsUser
  <2>3. CASE HandleRegister(c)
    <3>1. NeedsUser(c) /\ ConfirmPresence(Server, RequestOf(c).params)
      BY <2>3, AskUserAsks DEF HandleRegister, NeedsUser
    <3> QED BY <3>1, ServerIsCaller, NeedsUserFacts DEF Next, Ask
  <2>4. CASE HandleCtap2(c)
    BY <2>4, AskUserAsks DEF HandleCtap2, Next, Ask, ConfirmGeneric
  <2> QED BY <1>1, <2>1, <2>2, <2>3, <2>4 DEF Handle
<1>2. ASSUME NEW c \in Clients, Conclude(c)
      PROVE  [Next]_vars
  <2>1. CASE UNCHANGED dialogVars
    BY <2>1 DEF dialogVars, vars
  <2>2. CASE GiveUp(Server)
    BY <2>2, ServerIsCaller DEF Next, Ask
  <2> QED BY <1>2, <2>1, <2>2 DEF Conclude, HearsOk, HearsDenied, Ctap2Hears, HandlerTimesOut, Hears
<1>3. ASSUME NEW p \in Requests, TimedDialog(p) \/ TimedPrompt(p)
      PROVE  [Next]_vars
  BY <1>3 DEF TimedDialog, TimedPrompt, Next, SelectLoop, SendResult
<1>4. ASSUME NEW c \in Clients, Send(c) \/ Abandon(c) \/ ScanEnds(c)
      PROVE  [Next]_vars
  BY <1>4 DEF Send, Abandon, ScanEnds, dialogVars, vars
<1>5. CASE Tick \/ UNCHANGED allVars
  BY <1>5 DEF Tick, allVars, dialogVars, vars
<1> QED BY <1>1, <1>2, <1>3, <1>4, <1>5 DEF U2FNext

\* So the dialog keeps its invariant.
LEMMA DialogKept ==
  ASSUME UInv, [U2FNext]_allVars
  PROVE  TypeOK' /\ ChannelInv'
<1>1. [Next]_vars /\ TypeOK /\ ChannelInv
  BY DialogStep, TypeParts DEF UInv
<1> QED BY <1>1, TypeStep, ChannelStep DEF IInv

-----------------------------------------------------------------------------
\* The server stops waiting, or does not wait, and no dialog changes.
LEMMA NotWaiting ==
  ASSUME UInv, TypeOK', ChannelInv', UNCHANGED <<requests, sendLeft, consented>>,
         server' \in ServerType, server'.at # "waiting", inbox' \in Seq(Clients),
         clients' \in [Clients -> ClientType]
  PROVE  UInv'
<1>1. U2FTypeOK'
  BY TypeParts DEF UInv, U2FTypeOK, ServerType, ClientType
<1>2. WaitInv' /\ HolderInv'
  BY DEF WaitInv, HolderInv
<1>3. ConsentInv'
  BY DEF UInv, ConsentInv
<1> QED BY <1>1, <1>2, <1>3 DEF UInv

\* A handler asks the user: it is refused, or waits for the one dialog there is.
LEMMA AskUserStep ==
  ASSUME UInv, TypeOK', ChannelInv', NEW c \in Clients, NEW caller \in Callers,
         NEW params \in Params \cup {Generic}, NEW refusal \in Answers, NEW wait \in Countdown,
         server.at = "idle", AskUser(c, caller, params, refusal, wait),
         NeedsUser(c) => caller = Server /\ params = RequestOf(c).params,
         inbox' \in Seq(Clients), UNCHANGED consented
  PROVE  UInv'
<1>1. U2FTypeOK /\ TypeOK /\ clients \in [Clients -> ClientType] /\ UNCHANGED sendLeft
  BY TypeParts DEF UInv, AskUser
<1>2. ConfirmPresence(caller, params)
  BY DEF AskUser
<1>3. CASE callers'[caller].at = "refused"
  <2>1. UNCHANGED requests
    BY <1>1, <1>2, <1>3 DEF ConfirmPresence, Refuse, Join, Open, TypeOK
  <2>2. Respond(c, refusal) /\ server' = Idle
    BY <1>3 DEF AskUser
  <2> QED BY <1>1, <2>1, <2>2, NotWaiting, IdleType, RespondType
<1>4. CASE callers'[caller].at # "refused"
  <2>1. /\ server' = [at |-> "waiting", client |-> c, caller |-> caller, left |-> wait]
        /\ UNCHANGED clients
    BY <1>4 DEF AskUser
  <2>2. server' \in ServerType /\ server'.at = "waiting" /\ server'.client = c
        /\ server'.caller = caller
    BY <2>1 DEF ServerType
  <2>3. U2FTypeOK'
    BY <1>1, <2>1, <2>2, TypeParts DEF U2FTypeOK, ServerType, ClientType
  <2>4. Join(caller, params) \/ Open(caller, params)
    BY <1>1, <1>2, <1>4 DEF ConfirmPresence, Refuse, TypeOK, NoCall
  <2>5. /\ callers'[caller].params = params /\ callers'[caller].at = "waiting"
        /\ activeRequest' = callers'[caller].on
    BY <1>1, <2>4 DEF Join, Open, TypeOK
  <2>6. NeedsUser(c)' <=> NeedsUser(c)
    BY <2>1 DEF NeedsUser, RequestOf
  <2>7. WaitInv'
    BY <2>1, <2>2, <2>5, <2>6 DEF WaitInv, RequestOf
  <2>8. HolderInv'
    BY <2>2, <2>5 DEF HolderInv
  <2>9. ASSUME NEW p \in Requests, requests'[p].at \in {"decide", "sending"}
        PROVE  requests'[p].at = requests[p].at /\ requests'[p].answer = requests[p].answer
               /\ requests'[p].params = requests[p].params
               /\ requests'[p].result = requests[p].result
    <3>1. CASE Join(caller, params)
      <4>1. activeRequest \in Requests
        BY <1>1, <3>1 DEF Join, TypeOK
      <4> QED BY <1>1, <2>9, <3>1, <4>1 DEF Join, TypeOK, RequestType
    <3>2. CASE Open(caller, params)
      BY <1>1, <2>9, <3>2 DEF Open, TypeOK, NewRequest
    <3> QED BY <2>4, <3>1, <3>2
  <2>10. ConsentInv'
    BY <2>2, <2>5, <2>6, <2>9 DEF UInv, ConsentInv
  <2> QED BY <2>3, <2>7, <2>8, <2>10 DEF UInv
<1> QED BY <1>3, <1>4

\* The event loop takes an event.
LEMMA HandleStep ==
  ASSUME UInv, TypeOK', ChannelInv', NEW c \in Clients, Handle(c)
  PROVE  UInv'
<1>1. U2FTypeOK /\ inbox \in Seq(Clients) /\ clients \in [Clients -> ClientType]
      /\ server \in ServerType
  BY TypeParts DEF UInv
<1>2. Take(c) /\ server.at = "idle" /\ UNCHANGED consented
  BY DEF Handle, HandleOther, HandleUndecodable, HandleAuthenticate, HandleRegister, HandleCtap2,
         HandleScan, Take
<1>3. inbox' \in Seq(Clients)
  BY <1>1, <1>2 DEF Take
<1>4. ASSUME NEW status \in Answers, Answer(c, status)
      PROVE  UInv'
  BY <1>1, <1>2, <1>3, <1>4, NotWaiting, IdleType, RespondType DEF Answer, dialogVars
<1>5. {"NoError", "ClaNotSupported", "WrongData", "ConditionsNotSatisfied", "Ctap2"} \subseteq Answers
  BY DEF Answers
<1>6. CASE HandleOther(c)
  BY <1>4, <1>5, <1>6 DEF HandleOther
<1>7. CASE HandleUndecodable(c)
  BY <1>1, <1>2, <1>3, <1>7, NotWaiting, SilenceType DEF HandleUndecodable, dialogVars
<1>8. CASE HandleAuthenticate(c)
  <2>1. CASE Sign(c) /\ UNCHANGED <<dialogVars, sendLeft>>
    <3>1. CASE Respond(c, "NoError") /\ server' = Idle
      BY <1>1, <1>2, <1>3, <1>5, <2>1, <3>1, NotWaiting, IdleType, RespondType DEF dialogVars
    <3>2. CASE Fatal /\ UNCHANGED clients
      <4>1. server' \in ServerType /\ server'.at = "dead"
        BY <3>2, IdleType DEF Fatal, Idle
      <4> QED BY <1>1, <1>2, <1>3, <2>1, <3>2, <4>1, NotWaiting DEF dialogVars
    <3> QED BY <2>1, <3>1, <3>2 DEF Sign
  <2>2. CASE NeedsUser(c)
             /\ AskUser(c, Server, RequestOf(c).params, "ConditionsNotSatisfied", HandlerWait)
    BY <1>1, <1>2, <1>3, <1>5, <2>2, AskUserStep, ServerIsCaller, NeedsUserFacts, Durations
  <2> QED BY <1>4, <1>5, <1>8, <2>1, <2>2 DEF HandleAuthenticate, NeedsUser
<1>9. CASE HandleRegister(c)
  <2>1. NeedsUser(c)
        /\ AskUser(c, Server, RequestOf(c).params, "ConditionsNotSatisfied", HandlerWait)
    BY <1>9 DEF HandleRegister, NeedsUser
  <2> QED BY <1>1, <1>2, <1>3, <1>5, <2>1, AskUserStep, ServerIsCaller, NeedsUserFacts, Durations
<1>10. CASE HandleCtap2(c)
  <2>1. PICK v \in Verifiers : AskUser(c, v, Generic, "Ctap2", Ctap2Wait)
    BY <1>10 DEF HandleCtap2
  <2>2. ~NeedsUser(c) /\ v \in Callers
    BY <1>10 DEF HandleCtap2, NeedsUser, Callers
  <2> QED BY <1>1, <1>2, <1>3, <1>5, <2>1, <2>2, AskUserStep, Durations
<1>11. CASE HandleScan(c)
  <2>1. /\ server' = [at |-> "waiting", client |-> c, caller |-> Server, left |-> Ctap2Wait]
        /\ UNCHANGED <<activeRequest, requests, callers, clients, sendLeft>>
        /\ RequestOf(c).cmd = "scan"
    BY <1>11 DEF HandleScan, dialogVars
  <2>2. server' \in ServerType /\ server'.at = "waiting" /\ server'.client = c
    BY <2>1, ServerIsCaller, Durations DEF ServerType
  <2>3. U2FTypeOK'
    BY <1>1, <1>2, <1>3, <2>1, <2>2, TypeParts DEF U2FTypeOK, ServerType, ClientType
  <2>4. RequestOf(c)' = RequestOf(c) /\ (NeedsUser(c)' <=> FALSE)
    BY <2>1 DEF NeedsUser, RequestOf
  <2>5. WaitInv' /\ HolderInv'
    BY <2>1, <2>2, <2>4 DEF WaitInv, HolderInv
  <2>6. ConsentInv'
    BY <1>2, <2>1, <2>2, <2>4 DEF UInv, ConsentInv
  <2> QED BY <2>3, <2>5, <2>6 DEF UInv
<1> QED BY <1>6, <1>7, <1>8, <1>9, <1>10, <1>11 DEF Handle

\* What HearsOk does to its client and to the server.
LEMMA HearsOkEffect ==
  ASSUME U2FTypeOK, NEW c \in Clients, HearsOk(c)
  PROVE  /\ server' \in ServerType /\ server'.at # "waiting"
         /\ clients' \in [Clients -> ClientType]
         /\ \A d \in Clients \ {c} : clients'[d] = clients[d]
<1>1. "NoError" \in Answers
  BY DEF Answers
<1>2. server' = Idle \/ server' = [Idle EXCEPT !.at = "dead"]
  BY DEF HearsOk, Sign, RegisterSite, Fatal
<1>3. server' \in ServerType /\ server'.at # "waiting"
  <2>1. [Idle EXCEPT !.at = "dead"].at = "dead"
    BY DEF Idle
  <2> QED BY <1>2, <2>1, IdleType
<1>4. Respond(c, "NoError") \/ Silence(c) \/ UNCHANGED clients
  BY DEF HearsOk, Sign, RegisterSite
<1>5. clients \in [Clients -> ClientType]
  BY TypeParts
<1> QED BY <1>1, <1>3, <1>4, <1>5, RespondType, SilenceType

\* The handler that waits hears from the dialog, or gives up.
LEMMA ConcludeStep ==
  ASSUME UInv, TypeOK', ChannelInv', NEW c \in Clients, Conclude(c) \/ ScanEnds(c)
  PROVE  UInv'
<1>1. U2FTypeOK /\ inbox \in Seq(Clients) /\ inbox' = inbox
  BY TypeParts DEF UInv, Conclude, HearsOk, HearsDenied, Ctap2Hears, HandlerTimesOut, Hears, ScanEnds
<1>2. {"WrongData", "Ctap2", "ConditionsNotSatisfied"} \subseteq Answers
  BY DEF Answers
<1>3. ASSUME NEW status \in Answers, Respond(c, status), server' = Idle,
             UNCHANGED <<requests, sendLeft, consented>>
      PROVE  UInv'
  BY <1>1, <1>3, NotWaiting, IdleType, RespondType
<1>4. CASE HearsOk(c)
  <2>1. /\ server.at = "waiting" /\ server.client = c /\ callers[server.caller].at = "ok"
        /\ UNCHANGED <<activeRequest, requests, callers, sendLeft>>
        /\ NeedsUser(c) /\ consented' = consented \ {RequestOf(c).params}
    BY <1>4 DEF HearsOk, Hears, Accepts, dialogVars
  <2>2. RequestOf(c).cmd # "scan"
    BY <1>1, <2>1, NeedsUserFacts
  <2>3. \A p \in Requests : requests[p].at \notin {"dialog", "decide", "sending"}
    BY <2>1, <2>2 DEF UInv, HolderInv
  <2>4. /\ server' \in ServerType /\ server'.at # "waiting"
        /\ clients' \in [Clients -> ClientType]
    BY <1>1, <1>4, HearsOkEffect
  <2>5. consented' \subseteq Params /\ sendLeft' \in Countdown
    BY <1>1, <2>1, TypeParts
  <2>6. U2FTypeOK'
    BY <1>1, <2>4, <2>5 DEF U2FTypeOK, ServerType, ClientType
  <2>7. WaitInv' /\ HolderInv' /\ ConsentInv'
    BY <2>1, <2>3, <2>4 DEF WaitInv, HolderInv, ConsentInv
  <2> QED BY <2>6, <2>7 DEF UInv
<1>5. CASE HearsDenied(c)
  BY <1>2, <1>3, <1>5 DEF HearsDenied, Hears, dialogVars
<1>6. CASE Ctap2Hears(c)
  BY <1>2, <1>3, <1>6 DEF Ctap2Hears, Hears, dialogVars
<1>7. CASE HandlerTimesOut(c)
  BY <1>2, <1>3, <1>7 DEF HandlerTimesOut, GiveUp, dialogVars
<1>8. CASE ScanEnds(c)
  BY <1>2, <1>3, <1>8 DEF ScanEnds, dialogVars
<1> QED BY <1>4, <1>5, <1>6, <1>7, <1>8 DEF Conclude

-----------------------------------------------------------------------------
\* The goroutine of a dialog does something: it opens no dialog, it gives a caller a
\* result only as it leaves "sending", and it touches no parameters.
LEMMA PromptEffect ==
  ASSUME U2FTypeOK, ChannelInv, NEW p \in Requests, TimedDialog(p) \/ TimedPrompt(p)
  PROVE  /\ UNCHANGED <<server, inbox, clients>>
         /\ \A q \in Requests \ {p} : requests'[q] = requests[q]
         /\ activeRequest' \in {activeRequest, NoRequest}
         /\ requests'[p].at # "free" => requests'[p].params = requests[p].params
         /\ (requests'[p].at = "dialog" => requests[p].at = "dialog")
            /\ (requests'[p].at = "decide" => requests[p].at \in {"dialog", "decide"})
            /\ (requests'[p].at = "sending" => requests[p].at \in {"dialog", "decide", "sending"})
         /\ \/ UNCHANGED callers
            \/ \E c \in Waiters(p) :
                 /\ requests[p].at = "sending" /\ requests'[p].at = "clearing"
                 /\ callers' = [callers EXCEPT ![c].at = requests[p].result, ![c].on = NoRequest]
<1> USE DEF U2FTypeOK, TypeOK, RequestType
<1>1. CASE TimedDialog(p)
  BY <1>1 DEF TimedDialog, Dialog, DialogFails, UserAnswers, serverVars
<1>2. CASE TimedPrompt(p)
  <2>1. CASE Decide(p)
    BY <1>2, <2>1 DEF TimedPrompt, Decide, serverVars
  <2>2. CASE Extend(p)
    BY <1>2, <2>2 DEF TimedPrompt, Extend, serverVars
  <2>3. CASE ExtenderExpires(p)
    BY <1>2, <2>3 DEF TimedPrompt, ExtenderExpires, serverVars
  <2>4. CASE Clear(p)
    BY <1>2, <2>4 DEF TimedPrompt, Clear, Ended, FreeRequest, serverVars
  <2>5. ASSUME NEW c \in Callers, Deliver(p, c)
        PROVE  /\ UNCHANGED activeRequest
               /\ \A q \in Requests \ {p} : requests'[q] = requests[q]
               /\ requests'[p].at = "clearing" /\ requests'[p].params = requests[p].params
               /\ c \in Waiters(p) /\ requests[p].at = "sending"
               /\ callers' = [callers EXCEPT ![c].at = requests[p].result, ![c].on = NoRequest]
    BY <2>5 DEF Deliver
  <2>6. CASE SendExpires(p)
    BY <1>2, <2>6 DEF TimedPrompt, SendExpires, serverVars
  <2>7. CASE \E c \in Callers : Deliver(p, c)
    BY <1>2, <2>5, <2>7 DEF TimedPrompt, serverVars
  <2> QED BY <1>2, <2>1, <2>2, <2>3, <2>4, <2>6, <2>7 DEF TimedPrompt
<1> QED BY <1>1, <1>2

\* What the goroutine of a dialog does to results, consents and the time left for them.
LEMMA ConsentEffect ==
  ASSUME UInv, NEW p \in Requests, TimedDialog(p) \/ TimedPrompt(p)
  PROVE  /\ consented \subseteq consented' /\ consented' \subseteq Params
         /\ sendLeft' \in {sendLeft, SendTimeout}
         /\ requests'[p].at = "sending" => requests'[p].result # "none"
         /\ /\ requests'[p].at \in {"decide", "sending"}
            /\ requests'[p].answer = "yes"
            /\ requests'[p].params # Generic
            => requests'[p].params \in consented'
<1>1. requests \in [Requests -> RequestType] /\ consented \subseteq Params
  BY DEF UInv, U2FTypeOK, TypeOK
<1>2. CASE TimedDialog(p)
  <2>1. sendLeft' = SendTimeout
        /\ consented' = IF requests'[p].answer = "yes" /\ requests[p].params # Generic
                        THEN consented \cup {requests[p].params} ELSE consented
    BY <1>2 DEF TimedDialog
  <2>2. requests[p].params \in Params \cup {Generic}
    BY <1>1 DEF RequestType
  <2>3. requests'[p].params = requests[p].params
        /\ (requests'[p].at = "sending" => requests'[p].result = "denied")
    BY <1>1, <1>2 DEF TimedDialog, Dialog, DialogFails, UserAnswers, RequestType
  <2> QED BY <1>1, <2>1, <2>2, <2>3
<1>3. CASE TimedPrompt(p)
  <2>1. sendLeft' \in {sendLeft, SendTimeout} /\ consented' = consented
    BY <1>3 DEF TimedPrompt
  <2>2. ASSUME requests'[p].at \in {"decide", "sending"}
        PROVE  /\ requests[p].at \in {"decide", "sending"}
               /\ requests'[p].answer = requests[p].answer
               /\ requests'[p].params = requests[p].params
               /\ requests'[p].at = "sending" =>
                    \/ requests'[p].result \in {"ok", "denied"}
                    \/ requests[p].at = "sending" /\ requests'[p].result = requests[p].result
    <3>1. CASE Decide(p)
      BY <1>1, <3>1 DEF Decide, RequestType
    <3>2. CASE Extend(p)
      BY <1>1, <2>2, <3>2 DEF Extend, RequestType
    <3>3. CASE ExtenderExpires(p)
      BY <1>1, <2>2, <3>3 DEF ExtenderExpires, RequestType
    <3>4. CASE Clear(p)
      BY <1>1, <2>2, <3>4 DEF Clear, Ended, FreeRequest
    <3>5. ASSUME NEW c \in Callers, Deliver(p, c) PROVE FALSE
      BY <1>1, <2>2, <3>5 DEF Deliver
    <3>6. CASE SendExpires(p)
      BY <1>1, <2>2, <3>6 DEF SendExpires
    <3> QED BY <1>3, <3>1, <3>2, <3>3, <3>4, <3>5, <3>6 DEF TimedPrompt
  <2> QED BY <1>1, <2>1, <2>2 DEF UInv, ConsentInv
<1> QED BY <1>2, <1>3

\* The goroutine of a dialog keeps the invariant.
LEMMA PromptKeeps ==
  ASSUME UInv, TypeOK', ChannelInv', NEW p \in Requests, TimedDialog(p) \/ TimedPrompt(p)
  PROVE  UInv'
<1>1. U2FTypeOK /\ callers \in [Callers -> CallerType] /\ requests \in [Requests -> RequestType]
      /\ ChannelInv /\ server \in ServerType
  BY TypeParts DEF UInv, TypeOK
<1>2. /\ UNCHANGED <<server, inbox, clients>>
      /\ \A q \in Requests \ {p} : requests'[q] = requests[q]
      /\ activeRequest' \in {activeRequest, NoRequest}
      /\ requests'[p].at # "free" => requests'[p].params = requests[p].params
      /\ (requests'[p].at = "dialog" => requests[p].at = "dialog")
         /\ (requests'[p].at = "decide" => requests[p].at \in {"dialog", "decide"})
         /\ (requests'[p].at = "sending" => requests[p].at \in {"dialog", "decide", "sending"})
      /\ \/ UNCHANGED callers
         \/ \E c \in Waiters(p) :
              /\ requests[p].at = "sending" /\ requests'[p].at = "clearing"
              /\ callers' = [callers EXCEPT ![c].at = requests[p].result, ![c].on = NoRequest]
  BY <1>1, PromptEffect
<1>3. /\ consented \subseteq consented' /\ consented' \subseteq Params
      /\ sendLeft' \in {sendLeft, SendTimeout}
  BY ConsentEffect
<1>4. U2FTypeOK'
  BY <1>1, <1>2, <1>3, Durations DEF U2FTypeOK, ServerType, ClientType
<1>5. \A c \in Callers : callers'[c].params = callers[c].params
  <2>1. CASE UNCHANGED callers
    BY <2>1
  <2>2. ASSUME NEW d \in Callers,
               callers' = [callers EXCEPT ![d].at = requests[p].result, ![d].on = NoRequest]
        PROVE  \A c \in Callers : callers'[c].params = callers[c].params
    BY <1>1, <2>2 DEF CallerType
  <2>3. Waiters(p) \subseteq Callers
    BY DEF Waiters
  <2> QED BY <1>2, <2>1, <2>2, <2>3
<1>6. ASSUME NEW c \in Clients
      PROVE  RequestOf(c)' = RequestOf(c) /\ (NeedsUser(c)' <=> NeedsUser(c))
  BY <1>2 DEF RequestOf, NeedsUser
<1>7. WaitInv'
  BY <1>2, <1>5, <1>6, ServerIsCaller DEF UInv, WaitInv
<1>8. ASSUME NEW h \in Callers
      PROVE  \/ callers'[h] = callers[h]
             \/ /\ requests[p].at = "sending" /\ requests'[p].at = "clearing" /\ h \in Waiters(p)
                /\ callers'[h].at = requests[p].result
  BY <1>1, <1>2, <1>8 DEF Waiters, CallerType
<1>9. HolderInv'
  <2> DEFINE h == server.caller
  <2>1. SUFFICES ASSUME server.at = "waiting", RequestOf(server.client).cmd # "scan"
                 PROVE  /\ callers'[h].at \in {"waiting", "ok", "denied"}
                        /\ callers'[h].at = "waiting" =>
                             activeRequest' \in {NoRequest, callers'[h].on}
                        /\ callers'[h].at # "waiting" =>
                             \A q \in Requests : requests'[q].at \notin {"dialog", "decide", "sending"}
    <3>1. server.at = "waiting" => server.client \in Clients
      BY DEF UInv, WaitInv
    <3> QED BY <1>2, <1>6, <2>1, <3>1 DEF HolderInv
  <2>2. h \in Callers
    BY <1>1 DEF ServerType
  <2>3. /\ callers[h].at \in {"waiting", "ok", "denied"}
        /\ callers[h].at = "waiting" => activeRequest \in {NoRequest, callers[h].on}
        /\ callers[h].at # "waiting" =>
             \A q \in Requests : requests[q].at \notin {"dialog", "decide", "sending"}
    BY <2>1 DEF UInv, HolderInv
  <2>4. CASE callers'[h] = callers[h]
    <3>1. \A q \in Requests : requests'[q].at \in {"dialog", "decide", "sending"}
                              => requests[q].at \in {"dialog", "decide", "sending"}
      BY <1>2
    <3> HIDE DEF h
    <3> QED BY <1>2, <2>3, <2>4, <3>1
  <2>5. CASE /\ requests[p].at = "sending" /\ requests'[p].at = "clearing"
             /\ callers'[h].at = requests[p].result
    <3>1. requests[p].result \in {"ok", "denied"}
      BY <1>1, <2>5 DEF RequestType, UInv, ConsentInv
    <3>2. activeRequest = p
      BY <1>1, <2>5 DEF ChannelInv, OneDialog, Running
    <3>3. \A q \in Requests \ {p} : requests[q].at \notin {"dialog", "decide", "sending"}
      BY <1>1, <3>2 DEF ChannelInv, OneDialog, Running
    <3> QED BY <1>2, <2>5, <3>1, <3>3
  <2> QED BY <1>8, <2>2, <2>4, <2>5
<1>10. ConsentInv'
  <2>1. \A q \in Requests : requests'[q].at = "sending" => requests'[q].result # "none"
    BY <1>2, ConsentEffect DEF UInv, ConsentInv
  <2>2. ASSUME NEW q \in Requests, requests'[q].at \in {"decide", "sending"},
               requests'[q].answer = "yes", requests'[q].params # Generic
        PROVE  requests'[q].params \in consented'
    <3>1. CASE q = p
      BY <2>2, <3>1, ConsentEffect
    <3>2. CASE q # p
      BY <1>2, <1>3, <2>2, <3>2 DEF UInv, ConsentInv
    <3> QED BY <3>1, <3>2
  <2>3. ASSUME server.at = "waiting", NeedsUser(server.client), callers'[Server].at = "ok"
        PROVE  RequestOf(server.client).params \in consented'
    <3>1. CASE callers'[Server] = callers[Server]
      BY <1>3, <2>3, <3>1 DEF UInv, ConsentInv
    <3>2. CASE /\ requests[p].at = "sending" /\ Server \in Waiters(p)
               /\ callers'[Server].at = requests[p].result
      <4>1. requests[p].answer = "yes" /\ requests[p].params = callers[Server].params
        BY <1>1, <2>3, <3>2 DEF ChannelInv, Running
      <4>2. callers[Server].params = RequestOf(server.client).params /\ server.client \in Clients
        BY <2>3 DEF UInv, WaitInv
      <4>3. requests[p].params # Generic
        BY <1>1, <2>3, <4>1, <4>2, NeedsUserFacts
      <4> QED BY <1>3, <3>2, <4>1, <4>2, <4>3 DEF UInv, ConsentInv
    <3> QED BY <1>8, <3>1, <3>2, ServerIsCaller
  <2>4. server.at = "waiting" => server.client \in Clients
    BY DEF UInv, WaitInv
  <2> QED BY <1>2, <1>6, <2>1, <2>2, <2>3, <2>4 DEF ConsentInv
<1> QED BY <1>4, <1>7, <1>9, <1>10 DEF UInv

-----------------------------------------------------------------------------
\* The browsers and the clock leave the dialog, and what the server has to do, alone.
LEMMA SameServer ==
  ASSUME UInv, U2FTypeOK', UNCHANGED <<activeRequest, requests, callers, consented>>,
         server'.at = server.at, server'.client = server.client, server'.caller = server.caller,
         \A c \in Clients : clients'[c].request = clients[c].request
  PROVE  UInv'
<1>1. ASSUME NEW c \in Clients
      PROVE  RequestOf(c)' = RequestOf(c) /\ (NeedsUser(c)' <=> NeedsUser(c))
  BY DEF RequestOf, NeedsUser
<1>2. ChannelInv'
  BY DEF UInv, ChannelInv, OneDialog, OneTaker, Running, Waiters
<1>3. server.at = "waiting" => server.client \in Clients
  BY DEF UInv, WaitInv
<1>4. WaitInv' /\ HolderInv' /\ ConsentInv'
  BY <1>1, <1>3 DEF UInv, WaitInv, HolderInv, ConsentInv
<1> QED BY <1>2, <1>4 DEF UInv

\* A browser sends its request, again or for the first time.
LEMMA SendEffect ==
  ASSUME U2FTypeOK, NEW c \in Clients, Send(c)
  PROVE  /\ clients' \in [Clients -> ClientType]
         /\ \A d \in Clients : clients'[d].request = clients[d].request
         /\ \A d \in Clients \ {c} : clients'[d] = clients[d]
         /\ clients'[c].at = "sent" /\ clients'[c].status = "none"
         /\ inbox' = Append(inbox, c)
         /\ UNCHANGED <<activeRequest, requests, callers, server, sendLeft, consented>>
<1>1. clients \in [Clients -> ClientType] /\ clients[c] \in ClientType
  BY TypeParts
<1> DEFINE new == [clients[c] EXCEPT !.at = "sent", !.status = "none", !.left = 0]
<1>2. /\ new \in ClientType /\ new.request = clients[c].request /\ new.at = "sent"
      /\ new.status = "none"
  BY <1>1, Durations DEF ClientType
<1>3. clients' = [clients EXCEPT ![c] = new]
  BY <1>1 DEF Send
<1>4. /\ inbox' = Append(inbox, c)
      /\ UNCHANGED <<activeRequest, requests, callers, server, sendLeft, consented>>
  BY DEF Send, dialogVars
<1> HIDE DEF new
<1> QED BY <1>1, <1>2, <1>3, <1>4

\* A browser gives up.
LEMMA AbandonEffect ==
  ASSUME U2FTypeOK, NEW c \in Clients, Abandon(c)
  PROVE  /\ clients' \in [Clients -> ClientType]
         /\ \A d \in Clients : clients'[d].request = clients[d].request
         /\ \A d \in Clients \ {c} : clients'[d] = clients[d]
         /\ clients[c].at = "polling" /\ clients'[c].at = "done"
         /\ clients'[c].status = clients[c].status
         /\ UNCHANGED <<activeRequest, requests, callers, server, inbox, sendLeft, consented>>
<1>1. clients \in [Clients -> ClientType] /\ clients[c] \in ClientType
  BY TypeParts
<1> DEFINE new == [clients[c] EXCEPT !.at = "done", !.left = 0]
<1>2. /\ new \in ClientType /\ new.request = clients[c].request /\ new.at = "done"
      /\ new.status = clients[c].status
  BY <1>1, Durations DEF ClientType
<1>3. clients' = [clients EXCEPT ![c] = new]
  BY <1>1 DEF Abandon
<1>4. /\ clients[c].at = "polling"
      /\ UNCHANGED <<activeRequest, requests, callers, server, inbox, sendLeft, consented>>
  BY DEF Abandon, dialogVars
<1> HIDE DEF new
<1> QED BY <1>1, <1>2, <1>3, <1>4

\* Time passes: every pause and every wait that is not over gets shorter.
LEMMA TickEffect ==
  ASSUME U2FTypeOK, Tick
  PROVE  /\ clients' \in [Clients -> ClientType]
         /\ \A d \in Clients : /\ clients'[d].request = clients[d].request
                               /\ clients'[d].at = clients[d].at
                               /\ clients'[d].status = clients[d].status
                               /\ clients'[d].left = Down(clients[d].left)
         /\ server' \in ServerType
         /\ server'.at = server.at /\ server'.client = server.client
         /\ server'.caller = server.caller /\ server'.left = Down(server.left)
         /\ sendLeft' = Down(sendLeft) /\ sendLeft' \in Countdown
         /\ UNCHANGED <<activeRequest, requests, callers, inbox, consented>>
<1>1. clients \in [Clients -> ClientType] /\ server \in ServerType /\ sendLeft \in Countdown
  BY TypeParts
<1>2. clients' = [c \in Clients |-> [clients[c] EXCEPT !.left = Down(@)]]
  BY DEF Tick
<1>3. ASSUME NEW d \in Clients
      PROVE  /\ clients'[d] \in ClientType
             /\ clients'[d].request = clients[d].request
             /\ clients'[d].at = clients[d].at
             /\ clients'[d].status = clients[d].status
             /\ clients'[d].left = Down(clients[d].left)
  <2>1. clients[d] \in ClientType /\ clients'[d] = [clients[d] EXCEPT !.left = Down(@)]
    BY <1>1, <1>2
  <2>2. Down(clients[d].left) \in Countdown
    BY <2>1, Durations DEF ClientType
  <2> QED BY <2>1, <2>2 DEF ClientType
<1>4. clients' \in [Clients -> ClientType]
  BY <1>2, <1>3
<1>5. Down(server.left) \in Countdown /\ Down(sendLeft) \in Countdown
  BY <1>1, Durations DEF ServerType
<1>6. /\ server' \in ServerType
      /\ server'.at = server.at /\ server'.client = server.client
      /\ server'.caller = server.caller /\ server'.left = Down(server.left)
  BY <1>1, <1>5 DEF Tick, ServerType
<1>7. /\ sendLeft' = Down(sendLeft)
      /\ UNCHANGED <<activeRequest, requests, callers, inbox, consented>>
  BY DEF Tick, dialogVars
<1> QED BY <1>3, <1>4, <1>5, <1>6, <1>7

\* The invariant holds at first.
LEMMA UInvInit == U2FInit => UInv
<1> SUFFICES ASSUME U2FInit PROVE UInv
  OBVIOUS
<1>1. TypeOK /\ ChannelInv
  BY DialogInit DEF U2FInit, IInv
<1>2. server \in ServerType /\ server.at = "idle"
  BY IdleType DEF U2FInit
<1>3. PICK r \in [Clients -> RequestsOfClients] :
        clients = [c \in Clients |-> [request |-> r[c], at |-> "new", status |-> "none", left |-> 0]]
  BY DEF U2FInit
<1>4. clients \in [Clients -> ClientType]
  BY <1>3, Durations DEF ClientType
<1>5. inbox \in Seq(Clients) /\ sendLeft \in Countdown /\ consented \subseteq Params
  BY Durations DEF U2FInit
<1>6. U2FTypeOK
  BY <1>1, <1>2, <1>4, <1>5, TypeParts
<1>7. WaitInv /\ HolderInv /\ ConsentInv
  BY <1>2 DEF WaitInv, HolderInv, ConsentInv, U2FInit, Init, NewRequest, FreeRequest
<1> QED BY <1>1, <1>6, <1>7 DEF UInv

\* Every step keeps it.
LEMMA UStep == UInv /\ [U2FNext]_allVars => UInv'
<1> SUFFICES ASSUME UInv, [U2FNext]_allVars PROVE UInv'
  OBVIOUS
<1>1. TypeOK' /\ ChannelInv'
  BY DialogKept
<1>2. U2FTypeOK /\ inbox \in Seq(Clients) /\ TypeOK
  BY TypeParts DEF UInv
<1>3. ASSUME NEW c \in Clients, Send(c)
      PROVE  UInv'
  <2>1. inbox' \in Seq(Clients)
    BY <1>2, <1>3, SendEffect
  <2>2. U2FTypeOK'
    BY <1>1, <1>2, <1>3, <2>1, SendEffect, TypeParts DEF U2FTypeOK, ServerType, ClientType
  <2> QED BY <1>2, <1>3, <2>2, SendEffect, SameServer
<1>4. ASSUME NEW c \in Clients, Abandon(c)
      PROVE  UInv'
  <2>1. U2FTypeOK'
    BY <1>1, <1>2, <1>4, AbandonEffect, TypeParts DEF U2FTypeOK, ServerType, ClientType
  <2> QED BY <1>2, <1>4, <2>1, AbandonEffect, SameServer
<1>5. CASE Tick
  <2>1. U2FTypeOK'
    BY <1>1, <1>2, <1>5, TickEffect, TypeParts DEF U2FTypeOK, ServerType, ClientType
  <2> QED BY <1>2, <1>5, <2>1, TickEffect, SameServer
<1>6. CASE UNCHANGED allVars
  <2>1. UNCHANGED <<activeRequest, requests, callers, server, inbox, clients, sendLeft, consented>>
    BY <1>6 DEF allVars
  <2>2. U2FTypeOK'
    BY <1>1, <1>2, <2>1 DEF U2FTypeOK
  <2> QED BY <2>1, <2>2, SameServer
<1>7. ASSUME NEW p \in Requests, TimedDialog(p) \/ TimedPrompt(p)
      PROVE  UInv'
  BY <1>1, <1>7, PromptKeeps
<1>8. ASSUME NEW c \in Clients, Handle(c) \/ Conclude(c) \/ ScanEnds(c)
      PROVE  UInv'
  BY <1>1, <1>8, HandleStep, ConcludeStep
<1> QED BY <1>3, <1>4, <1>5, <1>6, <1>7, <1>8 DEF U2FNext

-----------------------------------------------------------------------------
\* The invariant of the server and its dialog.
THEOREM ServerCorrect == U2FSpec => []UInv
BY UInvInit, UStep, PTL DEF U2FSpec

\* The state of the server, of its queue and of its clients keeps its shape, and no
\* pause runs below zero.
THEOREM U2FTypeCorrect == U2FSpec => []U2FTypeOK
<1>1. UInv => U2FTypeOK
  BY DEF UInv
<1> QED BY <1>1, ServerCorrect, PTL

\* The dialog keeps its promise as the server uses it, with every duration and every
\* repetition: the refinement of Consent carries over to the composition.
THEOREM ServerImplementsConsent == U2FSpec => ImplementsConsent
<1>1. U2FInit => Promise!Init
  BY PromiseInit DEF U2FInit
<1>2. UInv /\ [U2FNext]_allVars => [Promise!Next]_(Promise!vars)
  BY DialogStep, PromiseStep, TypeParts DEF UInv, IInv
<1> QED BY <1>1, <1>2, ServerCorrect, PTL DEF U2FSpec, ImplementsConsent, Promise!Spec

-----------------------------------------------------------------------------
\* Only the handler that has heard an OK tells a client that needs the user NoError.
LEMMA NoErrorStep ==
  ASSUME UInv, U2FNext, NEW c \in Clients, NeedsUser(c),
         clients[c].status # "NoError", clients'[c].status = "NoError"
  PROVE  HearsOk(c)
<1>1. U2FTypeOK
  BY DEF UInv
<1>2. ASSUME NEW d \in Clients, NEW status \in Answers, Respond(d, status)
      PROVE  c = d /\ status = "NoError"
  BY <1>1, <1>2, RespondType
<1>3. ASSUME NEW d \in Clients, Silence(d)
      PROVE  FALSE
  BY <1>1, <1>3, SilenceType
<1>4. ASSUME UNCHANGED clients
      PROVE  FALSE
  BY <1>4
<1>5. {"ClaNotSupported", "WrongData", "ConditionsNotSatisfied", "Ctap2", "NoError"} \subseteq Answers
  BY DEF Answers
<1>6. ASSUME NEW d \in Clients, Send(d) \/ Abandon(d)
      PROVE  FALSE
  BY <1>1, <1>6, SendEffect, AbandonEffect
<1>7. ASSUME NEW d \in Clients, Handle(d)
      PROVE  FALSE
  <2>1. ASSUME NEW status \in Answers, Answer(d, status)
        PROVE  c = d /\ status = "NoError"
    BY <1>2, <2>1 DEF Answer
  <2>2. ASSUME NEW caller, NEW params, NEW refusal \in Answers, NEW wait,
               AskUser(d, caller, params, refusal, wait)
        PROVE  refusal = "NoError"
    BY <1>2, <1>4, <2>2 DEF AskUser
  <2>3. CASE HandleOther(d)
    BY <1>5, <2>1, <2>3, NeedsUser(c) DEF HandleOther, NeedsUser
  <2>4. CASE HandleUndecodable(d)
    BY <1>3, <2>4 DEF HandleUndecodable
  <2>5. CASE HandleAuthenticate(d)
    <3>1. CASE RequestOf(d).ctrl = "dontEnforce" /\ Sign(d)
      BY <1>2, <1>4, <1>5, <2>5, <3>1, NeedsUser(c) DEF Sign, NeedsUser, HandleAuthenticate
    <3> QED BY <1>5, <2>1, <2>2, <2>5, <3>1 DEF HandleAuthenticate
  <2>6. CASE HandleRegister(d)
    BY <1>5, <2>2, <2>6 DEF HandleRegister
  <2>7. CASE HandleCtap2(d)
    BY <1>5, <2>2, <2>7 DEF HandleCtap2
  <2>8. CASE HandleScan(d)
    BY <1>4, <2>8 DEF HandleScan
  <2> QED BY <1>7, <2>3, <2>4, <2>5, <2>6, <2>7, <2>8 DEF Handle
<1>8. ASSUME NEW d \in Clients, HearsOk(d)
      PROVE  HearsOk(c)
  BY <1>1, <1>8, HearsOkEffect
<1>9. ASSUME NEW d \in Clients, HearsDenied(d) \/ Ctap2Hears(d) \/ HandlerTimesOut(d) \/ ScanEnds(d)
      PROVE  FALSE
  BY <1>2, <1>5, <1>9 DEF HearsDenied, Ctap2Hears, HandlerTimesOut, ScanEnds
<1>10. ASSUME NEW p \in Requests, TimedDialog(p) \/ TimedPrompt(p)
       PROVE  FALSE
  BY <1>4, <1>10 DEF TimedDialog, TimedPrompt, serverVars
<1>11. CASE Tick
  BY <1>1, <1>11, TickEffect
<1> QED BY <1>6, <1>7, <1>8, <1>9, <1>10, <1>11 DEF U2FNext, Conclude

\* A signature with the user-presence bit, and a registration, each use up one consent
\* to exactly these parameters.
THEOREM SignedOnlyWithConsent == U2FSpec => SignedWithConsent
<1> DEFINE ConsentedStep == \A c \in Clients :
       /\ NeedsUser(c)
       /\ clients[c].status # "NoError" /\ clients'[c].status = "NoError"
       => RequestOf(c).params \in consented
<1>1. UInv /\ [U2FNext]_allVars => [ConsentedStep]_allVars
  <2> SUFFICES ASSUME UInv, U2FNext, NEW c \in Clients, NeedsUser(c),
                      clients[c].status # "NoError", clients'[c].status = "NoError"
               PROVE  RequestOf(c).params \in consented
    BY DEF ConsentedStep
  <2>1. HearsOk(c)
    BY NoErrorStep
  <2>2. server.at = "waiting" /\ server.client = c /\ callers[server.caller].at = "ok"
    BY <2>1 DEF HearsOk, Hears, Accepts
  <2> QED BY <2>2 DEF UInv, WaitInv, ConsentInv
<1> QED BY <1>1, ServerCorrect, PTL DEF U2FSpec, SignedWithConsent

-----------------------------------------------------------------------------
(***************************************************************************)
(* The answer reaches the browser.                                         *)
(***************************************************************************)
\* Every operation of a browser has a challenge of its own: the relying party draws
\* one for each.
OwnChallenges ==
  \A c, d \in Clients : \A q \in Asks[c], r \in Asks[d] :
    /\ q.cmd \in {"register", "authenticate"}
    /\ r.cmd \in {"register", "authenticate"}
    /\ q.params = r.params
    => c = d

\* The dialog that is open, or its result on the way, is about what the client wants.
DialogOf(p, c) ==
  NeedsUser(c) /\ requests[p].at \in Running /\ requests[p].params = RequestOf(c).params

\* Where the requests of the browsers are: queued or served once they are sent, and
\* no dialog is about one that was never sent.
BrowserInv ==
  /\ \A c \in Clients : RequestOf(c) \in Asks[c]
  /\ \A i \in DOMAIN inbox : clients[inbox[i]].at # "new"
  /\ \A c \in Clients : clients[c].at = "sent" =>
       \/ \E i \in DOMAIN inbox : inbox[i] = c
       \/ server.at = "waiting" /\ server.client = c
       \/ server.at = "dead"
  /\ \A c \in Clients : clients[c].at = "polling" => clients[c].left <= PollGap
  /\ \A p \in Requests, c \in Clients : DialogOf(p, c) => clients[c].at # "new"

\* How the clocks of the handler, of the browsers and of sendResult relate: a result
\* that a handler lets pass is new; the time sendResult has left is more than the pause
\* of the browser it is for; and time cannot pass while that browser's request is sent.
ClockInv ==
  /\ \A p \in Requests :
       /\ requests[p].at = "sending" /\ Waiters(p) # {}
       /\ server.at = "waiting" /\ NeedsUser(server.client) /\ server.left = 0
       => sendLeft = SendTimeout
  /\ \A p \in Requests, c \in Clients :
       requests[p].at = "sending" /\ DialogOf(p, c) =>
         /\ clients[c].at = "polling" => sendLeft >= clients[c].left + (SendTimeout - PollGap)
         /\ /\ clients[c].at = "sent" /\ server.at # "dead"
            /\ \A d \in Clients : RequestOf(d).cmd # "scan"
            => sendLeft > 0

TimeInv == UInv /\ BrowserInv /\ ClockInv

\* The invariant holds at first.
LEMMA TimeInit == U2FInit => TimeInv
<1> SUFFICES ASSUME U2FInit PROVE TimeInv
  OBVIOUS
<1>1. UInv
  BY UInvInit
<1>2. PICK r \in [Clients -> RequestsOfClients] :
        /\ \A c \in Clients : r[c] \in Asks[c]
        /\ clients = [c \in Clients |-> [request |-> r[c], at |-> "new", status |-> "none", left |-> 0]]
  BY DEF U2FInit
<1>3. \A c \in Clients : RequestOf(c) \in Asks[c] /\ clients[c].at = "new"
  BY <1>2 DEF RequestOf
<1>4. inbox = <<>> /\ \A p \in Requests : requests[p].at = "free"
  BY DEF U2FInit, Init, FreeRequest
<1>5. BrowserInv
  BY <1>3, <1>4 DEF BrowserInv, DialogOf, Running
<1>6. ClockInv
  BY <1>4 DEF ClockInv
<1> QED BY <1>1, <1>5, <1>6 DEF TimeInv

\* What a handler that takes an event does: it answers, or is silent, or sends its
\* client back with a refusal by the dialog, or waits, or ends the process.
LEMMA HandleEffect ==
  ASSUME U2FTypeOK, NEW c \in Clients, Handle(c)
  PROVE  /\ Take(c) /\ UNCHANGED sendLeft
         /\ \A d \in Clients : clients'[d].request = clients[d].request
         /\ \A d \in Clients \ {c} : clients'[d] = clients[d]
         /\ \/ clients'[c].at \in {"done", "hung"} /\ server'.at = "idle"
            \/ /\ clients'[c].at = "polling" /\ clients'[c].left = PollGap /\ server'.at = "idle"
               /\ NeedsUser(c) /\ Refuse(Server, RequestOf(c).params)
            \/ UNCHANGED clients /\ server'.at = "dead"
            \/ /\ UNCHANGED clients /\ server'.at = "waiting" /\ server'.client = c
               /\ NeedsUser(c) => server'.left = HandlerWait
         /\ \/ UNCHANGED requests
            \/ \E caller \in Callers : NeedsUser(c) /\ ConfirmPresence(caller, RequestOf(c).params)
            \/ \E caller \in Callers : ConfirmPresence(caller, Generic)
<1> DEFINE Effect ==
         /\ \A d \in Clients : clients'[d].request = clients[d].request
         /\ \A d \in Clients \ {c} : clients'[d] = clients[d]
         /\ \/ clients'[c].at \in {"done", "hung"} /\ server'.at = "idle"
            \/ /\ clients'[c].at = "polling" /\ clients'[c].left = PollGap /\ server'.at = "idle"
               /\ NeedsUser(c) /\ Refuse(Server, RequestOf(c).params)
            \/ UNCHANGED clients /\ server'.at = "dead"
            \/ /\ UNCHANGED clients /\ server'.at = "waiting" /\ server'.client = c
               /\ NeedsUser(c) => server'.left = HandlerWait
<1>1. Take(c) /\ UNCHANGED sendLeft
  BY DEF Handle, HandleOther, HandleUndecodable, HandleAuthenticate, HandleRegister, HandleCtap2,
         HandleScan, Answer, AskUser
<1>2. /\ {"NoError", "ClaNotSupported", "WrongData", "ConditionsNotSatisfied", "Ctap2"} \subseteq Answers
      /\ Idle.at = "idle" /\ [Idle EXCEPT !.at = "dead"].at = "dead"
  BY DEF Answers, Idle
<1>3. ASSUME NEW status \in Answers, Respond(c, status), server' = Idle,
             status = "ConditionsNotSatisfied" => ~NeedsUser(c)
      PROVE  Effect
  BY <1>2, <1>3, RespondType
<1>4. CASE HandleOther(c)
  BY <1>2, <1>3, <1>4 DEF HandleOther, Answer, dialogVars
<1>5. CASE HandleUndecodable(c)
  <2>1. server'.at = "idle" /\ UNCHANGED requests
    BY <1>5 DEF HandleUndecodable, Take, dialogVars
  <2> QED BY <1>1, <1>5, <2>1, SilenceType DEF HandleUndecodable
<1>6. ASSUME NEW caller \in Callers, NEW params, NEW refusal \in Answers, NEW wait,
             AskUser(c, caller, params, refusal, wait),
             \/ NeedsUser(c) /\ caller = Server /\ params = RequestOf(c).params /\ wait = HandlerWait
             \/ ~NeedsUser(c)
      PROVE  Effect
  <2>1. CASE callers'[caller].at = "refused"
    <3>1. Respond(c, refusal) /\ server' = Idle
      BY <1>6, <2>1 DEF AskUser
    <3>2. CASE refusal = "ConditionsNotSatisfied" /\ NeedsUser(c)
      <4>1. callers \in [Callers -> CallerType]
        BY DEF U2FTypeOK, TypeOK
      <4>2. Refuse(Server, RequestOf(c).params)
        BY <1>6, <2>1, <3>2, <4>1 DEF AskUser, ConfirmPresence, Join, Open
      <4> QED BY <1>2, <3>1, <3>2, <4>2, RespondType
    <3> QED BY <1>3, <3>1, <3>2
  <2>2. CASE callers'[caller].at # "refused"
    BY <1>6, <2>2 DEF AskUser
  <2> QED BY <2>1, <2>2
<1>7. CASE HandleAuthenticate(c)
  <2>1. CASE Sign(c) /\ UNCHANGED dialogVars
    BY <1>1, <1>2, <1>3, <2>1 DEF Sign, Fatal, dialogVars
  <2>2. CASE NeedsUser(c)
             /\ AskUser(c, Server, RequestOf(c).params, "ConditionsNotSatisfied", HandlerWait)
    <3>1. Effect
      BY <1>2, <1>6, <2>2, ServerIsCaller
    <3> QED BY <1>1, <2>2, <3>1, ServerIsCaller DEF AskUser
  <2>3. CASE RequestOf(c).ctrl = "checkOnly" /\ Answer(c, "ConditionsNotSatisfied")
    BY <1>1, <1>2, <1>3, <1>7, <2>3 DEF Answer, dialogVars, NeedsUser, HandleAuthenticate
  <2>4. CASE Answer(c, "WrongData")
    BY <1>1, <1>2, <1>3, <2>4 DEF Answer, dialogVars
  <2> QED BY <1>7, <2>1, <2>2, <2>3, <2>4 DEF HandleAuthenticate, NeedsUser
<1>8. CASE HandleRegister(c)
  <2>1. NeedsUser(c)
        /\ AskUser(c, Server, RequestOf(c).params, "ConditionsNotSatisfied", HandlerWait)
    BY <1>8 DEF HandleRegister, NeedsUser
  <2>2. Effect
    BY <1>2, <1>6, <2>1, ServerIsCaller
  <2> QED BY <1>1, <2>1, <2>2, ServerIsCaller DEF AskUser
<1>9. CASE HandleCtap2(c)
  <2>1. PICK v \in Verifiers : AskUser(c, v, Generic, "Ctap2", Ctap2Wait)
    BY <1>9 DEF HandleCtap2
  <2>2. ~NeedsUser(c) /\ v \in Callers
    BY <1>9 DEF HandleCtap2, NeedsUser, Callers
  <2>3. Effect
    BY <1>2, <1>6, <2>1, <2>2
  <2> QED BY <1>1, <2>1, <2>2, <2>3 DEF AskUser
<1>10. CASE HandleScan(c)
  <2>1. /\ server'.at = "waiting" /\ server'.client = c /\ UNCHANGED <<requests, clients>>
        /\ ~NeedsUser(c)
    BY <1>10 DEF HandleScan, dialogVars, NeedsUser
  <2> QED BY <1>1, <2>1
<1> QED BY <1>4, <1>5, <1>7, <1>8, <1>9, <1>10 DEF Handle

\* A call of ConfirmPresence opens a dialog about its parameters at most, and leaves
\* every other dialog about what it was about.
LEMMA DialogsAfterAsk ==
  ASSUME TypeOK, NEW caller \in Callers, NEW params, ConfirmPresence(caller, params),
         NEW p \in Requests
  PROVE  \/ requests'[p].at = requests[p].at /\ requests'[p].params = requests[p].params
         \/ requests'[p].at = "dialog" /\ requests'[p].params = params
<1>1. CASE Refuse(caller, params)
  BY <1>1 DEF Refuse
<1>2. CASE Join(caller, params)
  BY <1>2 DEF Join, TypeOK, RequestType
<1>3. CASE Open(caller, params)
  BY <1>3 DEF Open, TypeOK, NewRequest
<1> QED BY <1>1, <1>2, <1>3 DEF ConfirmPresence

\* What the client asks for does not change, and so neither whether it needs the user.
LEMMA SameRequests ==
  ASSUME \A d \in Clients : clients'[d].request = clients[d].request
  PROVE  \A d \in Clients : RequestOf(d)' = RequestOf(d) /\ (NeedsUser(d)' <=> NeedsUser(d))
BY DEF RequestOf, NeedsUser

\* The handlers.
LEMMA HandleTime ==
  ASSUME PollGap < SendTimeout, OwnChallenges, TimeInv, NEW c \in Clients, Handle(c)
  PROVE  BrowserInv' /\ ClockInv'
<1>1. U2FTypeOK /\ TypeOK /\ inbox \in Seq(Clients) /\ clients \in [Clients -> ClientType]
      /\ ChannelInv
  BY TypeParts DEF TimeInv, UInv
<1>2. /\ Take(c) /\ UNCHANGED sendLeft
      /\ \A d \in Clients : clients'[d].request = clients[d].request
      /\ \A d \in Clients \ {c} : clients'[d] = clients[d]
      /\ \/ clients'[c].at \in {"done", "hung"} /\ server'.at = "idle"
         \/ /\ clients'[c].at = "polling" /\ clients'[c].left = PollGap /\ server'.at = "idle"
            /\ NeedsUser(c) /\ Refuse(Server, RequestOf(c).params)
         \/ UNCHANGED clients /\ server'.at = "dead"
         \/ /\ UNCHANGED clients /\ server'.at = "waiting" /\ server'.client = c
            /\ NeedsUser(c) => server'.left = HandlerWait
      /\ \/ UNCHANGED requests
         \/ \E caller \in Callers : NeedsUser(c) /\ ConfirmPresence(caller, RequestOf(c).params)
         \/ \E caller \in Callers : ConfirmPresence(caller, Generic)
  BY <1>1, HandleEffect
<1>3. \A d \in Clients : RequestOf(d)' = RequestOf(d) /\ (NeedsUser(d)' <=> NeedsUser(d))
  BY <1>2, SameRequests
<1>4. /\ inbox # <<>> /\ c = Head(inbox) /\ inbox' = Tail(inbox) /\ server.at = "idle"
      /\ clients[c].at # "new"
  <2>1. inbox # <<>> /\ c = Head(inbox) /\ inbox' = Tail(inbox) /\ server.at = "idle"
    BY <1>2 DEF Take
  <2>2. 1 \in DOMAIN inbox /\ c = inbox[1]
    BY <1>1, <2>1
  <2> QED BY <2>1, <2>2 DEF TimeInv, BrowserInv
<1>5. \A d \in Clients : clients'[d].at = "new" => clients[d].at = "new"
  BY <1>2
<1>6. ASSUME NEW i \in DOMAIN inbox'
      PROVE  i + 1 \in DOMAIN inbox /\ inbox'[i] = inbox[i + 1] /\ inbox'[i] \in Clients
  BY <1>1, <1>4, <1>6
<1>7. ASSUME NEW i \in DOMAIN inbox, inbox[i] # c
      PROVE  i - 1 \in DOMAIN inbox' /\ inbox'[i - 1] = inbox[i]
  <2>1. inbox[1] = c /\ i # 1
    BY <1>1, <1>4, <1>7
  <2> QED BY <1>1, <1>4, <1>7, <2>1
<1>8. ASSUME NEW p \in Requests, requests'[p].at \in Running
      PROVE  \/ requests'[p].at = requests[p].at /\ requests'[p].params = requests[p].params
             \/ /\ requests'[p].at = "dialog"
                /\ \/ NeedsUser(c) /\ requests'[p].params = RequestOf(c).params
                   \/ requests'[p].params = Generic
  BY <1>1, <1>2, DialogsAfterAsk
<1>9. ASSUME NEW p \in Requests, NEW d \in Clients, DialogOf(p, d)'
      PROVE  d = c \/ (DialogOf(p, d) /\ requests'[p].at = requests[p].at)
  <2>1. NeedsUser(d) /\ requests'[p].at \in Running /\ requests'[p].params = RequestOf(d).params
    BY <1>3, <1>9 DEF DialogOf
  <2>2. CASE requests'[p].at = requests[p].at /\ requests'[p].params = requests[p].params
    BY <2>1, <2>2 DEF DialogOf
  <2>3. CASE NeedsUser(c) /\ requests'[p].params = RequestOf(c).params
    <3>1. RequestOf(c) \in Asks[c] /\ RequestOf(d) \in Asks[d]
      BY DEF TimeInv, BrowserInv
    <3>2. RequestOf(c).params = RequestOf(d).params
      BY <2>1, <2>3
    <3> QED BY <2>1, <2>3, <3>1, <3>2 DEF OwnChallenges, NeedsUser
  <2>4. RequestOf(d).params # Generic
    BY <1>1, <2>1, NeedsUserFacts
  <2> QED BY <1>8, <2>1, <2>2, <2>3, <2>4
<1>10. BrowserInv'
  <2>1. \A d \in Clients : RequestOf(d)' \in Asks[d]
    BY <1>3 DEF TimeInv, BrowserInv
  <2>2. ASSUME NEW i \in DOMAIN inbox'
        PROVE  clients'[inbox'[i]].at # "new"
    BY <1>5, <1>6 DEF TimeInv, BrowserInv
  <2>3. ASSUME NEW d \in Clients, clients'[d].at = "sent"
        PROVE  \/ \E i \in DOMAIN inbox' : inbox'[i] = d
               \/ server'.at = "waiting" /\ server'.client = d
               \/ server'.at = "dead"
    <3>1. CASE d = c
      BY <1>2, <2>3, <3>1
    <3>2. CASE d # c
      <4>1. PICK i \in DOMAIN inbox : inbox[i] = d
        BY <1>2, <1>4, <2>3, <3>2 DEF TimeInv, BrowserInv
      <4> QED BY <1>7, <3>2, <4>1
    <3> QED BY <3>1, <3>2
  <2>4. \A d \in Clients : clients'[d].at = "polling" => clients'[d].left <= PollGap
    BY <1>2, U2FAssumption DEF TimeInv, BrowserInv
  <2>5. \A p \in Requests, d \in Clients : DialogOf(p, d)' => clients'[d].at # "new"
    BY <1>4, <1>5, <1>9 DEF TimeInv, BrowserInv
  <2> QED BY <2>1, <2>2, <2>3, <2>4, <2>5 DEF BrowserInv
<1>11. ClockInv'
  <2>1. server'.at = "waiting" /\ NeedsUser(server.client)' => server'.left # 0
    BY <1>2 DEF HandlerWait, NeedsUser, RequestOf
  <2>2. ASSUME NEW p \in Requests, NEW d \in Clients, requests'[p].at = "sending", DialogOf(p, d)'
        PROVE  /\ requests[p].at = "sending" /\ DialogOf(p, d)
               /\ clients'[d].at = "polling" => clients'[d] = clients[d]
               /\ clients'[d].at = "sent" => clients[d].at = "sent"
    <3>1. requests[p].at = "sending" /\ requests'[p].params = requests[p].params
      BY <1>8, <2>2 DEF Running
    <3>2. DialogOf(p, d)
      BY <1>3, <2>2, <3>1 DEF DialogOf, Running
    <3>3. ~Refuse(Server, RequestOf(d).params)
      <4>1. activeRequest = p
        BY <1>1, <3>1 DEF ChannelInv, OneDialog, Running
      <4>2. RequestOf(d).params # Generic /\ requests[p].params = RequestOf(d).params
        BY <1>1, <3>2, NeedsUserFacts DEF DialogOf
      <4> QED BY <4>1, <4>2 DEF Refuse, Matches
    <3> QED BY <1>2, <3>1, <3>2, <3>3
  <2>3. ASSUME \A d \in Clients : RequestOf(d)'.cmd # "scan"
        PROVE  \A d \in Clients : RequestOf(d).cmd # "scan"
    BY <1>3, <2>3
  <2> QED BY <1>2, <1>4, <2>1, <2>2, <2>3 DEF TimeInv, ClockInv
<1> QED BY <1>10, <1>11

\* What becomes of the server and of its client when a handler has finished waiting.
LEMMA ConcludeEffect ==
  ASSUME U2FTypeOK, NEW c \in Clients, Conclude(c) \/ ScanEnds(c)
  PROVE  /\ server.at = "waiting" /\ server.client = c
         /\ UNCHANGED <<activeRequest, requests, inbox, sendLeft>>
         /\ server'.at \in {"idle", "dead"}
         /\ \A d \in Clients : clients'[d].request = clients[d].request
         /\ \A d \in Clients \ {c} : clients'[d] = clients[d]
         /\ \/ clients'[c].at \in {"done", "hung"}
            \/ /\ clients'[c].at = "polling" /\ clients'[c].left = PollGap
               /\ NeedsUser(c) /\ GiveUp(Server) /\ server.left = 0
            \/ UNCHANGED clients /\ server'.at = "dead"
<1>1. /\ server.at = "waiting" /\ server.client = c
      /\ UNCHANGED <<activeRequest, requests, inbox, sendLeft>>
  BY DEF Conclude, ScanEnds, HearsOk, HearsDenied, Ctap2Hears, HandlerTimesOut, Hears, GiveUp,
         dialogVars
<1>2. /\ {"NoError", "WrongData", "ConditionsNotSatisfied", "Ctap2"} \subseteq Answers
      /\ Idle.at = "idle" /\ [Idle EXCEPT !.at = "dead"].at = "dead"
  BY DEF Answers, Idle
<1>3. CASE HearsOk(c)
  <2>1. \/ Respond(c, "NoError") /\ server' = Idle
        \/ Silence(c) /\ server' = Idle
        \/ Fatal /\ UNCHANGED clients
    BY <1>3 DEF HearsOk, Sign, RegisterSite
  <2>2. CASE Respond(c, "NoError") /\ server' = Idle
    BY <1>1, <1>2, <2>2, RespondType
  <2>3. CASE Silence(c) /\ server' = Idle
    BY <1>1, <1>2, <2>3, SilenceType
  <2>4. CASE Fatal /\ UNCHANGED clients
    BY <1>1, <1>2, <2>4 DEF Fatal
  <2> QED BY <2>1, <2>2, <2>3, <2>4
<1>4. CASE HearsDenied(c)
  BY <1>1, <1>2, <1>4, RespondType DEF HearsDenied
<1>5. CASE Ctap2Hears(c) \/ ScanEnds(c)
  BY <1>1, <1>2, <1>5, RespondType DEF Ctap2Hears, ScanEnds
<1>6. CASE HandlerTimesOut(c)
  <2>1. \/ Respond(c, "Ctap2")
        \/ NeedsUser(c) /\ GiveUp(Server) /\ Respond(c, "ConditionsNotSatisfied")
    BY <1>6 DEF HandlerTimesOut
  <2> QED BY <1>1, <1>2, <1>6, <2>1, RespondType DEF HandlerTimesOut
<1> QED BY <1>3, <1>4, <1>5, <1>6 DEF Conclude

\* The handlers that have finished waiting.
LEMMA ConcludeTime ==
  ASSUME PollGap < SendTimeout, TimeInv, NEW c \in Clients, Conclude(c) \/ ScanEnds(c)
  PROVE  BrowserInv' /\ ClockInv'
<1>1. U2FTypeOK /\ TypeOK /\ inbox \in Seq(Clients) /\ ChannelInv
  BY TypeParts DEF TimeInv, UInv
<1>2. /\ server.at = "waiting" /\ server.client = c
      /\ UNCHANGED <<activeRequest, requests, inbox, sendLeft>>
      /\ server'.at \in {"idle", "dead"}
      /\ \A d \in Clients : clients'[d].request = clients[d].request
      /\ \A d \in Clients \ {c} : clients'[d] = clients[d]
      /\ \/ clients'[c].at \in {"done", "hung"}
         \/ /\ clients'[c].at = "polling" /\ clients'[c].left = PollGap
            /\ NeedsUser(c) /\ GiveUp(Server) /\ server.left = 0
         \/ UNCHANGED clients /\ server'.at = "dead"
  BY <1>1, ConcludeEffect
<1>3. \A d \in Clients : RequestOf(d)' = RequestOf(d) /\ (NeedsUser(d)' <=> NeedsUser(d))
  BY <1>2, SameRequests
<1>4. \A p \in Requests, d \in Clients : DialogOf(p, d)' <=> DialogOf(p, d)
  BY <1>2, <1>3 DEF DialogOf
<1>5. \A d \in Clients : clients'[d].at = "new" => clients[d].at = "new"
  BY <1>2
<1>6. BrowserInv'
  <2>1. \A i \in DOMAIN inbox : inbox[i] \in Clients
    BY <1>1
  <2>2. \A d \in Clients : clients'[d].at = "polling" => clients'[d].left <= PollGap
    BY <1>2, U2FAssumption DEF TimeInv, BrowserInv
  <2>3. ASSUME NEW d \in Clients, clients'[d].at = "sent"
        PROVE  (\E i \in DOMAIN inbox : inbox[i] = d) \/ server'.at = "dead"
    BY <1>2, <2>3 DEF TimeInv, BrowserInv
  <2> QED BY <1>2, <1>3, <1>4, <1>5, <2>1, <2>2, <2>3 DEF TimeInv, BrowserInv
<1>7. ASSUME NEW p \in Requests, requests[p].at = "sending", NeedsUser(c), GiveUp(Server),
             server.left = 0
      PROVE  sendLeft = SendTimeout
  <2>1. RequestOf(c).cmd # "scan" /\ server.caller = Server
    BY <1>1, <1>2, <1>7, NeedsUserFacts DEF TimeInv, UInv, WaitInv
  <2>2. callers[Server].at = "waiting"
    BY <1>7 DEF GiveUp
  <2>3. activeRequest = p /\ p # NoRequest
    BY <1>1, <1>7, PinentryAssumption DEF ChannelInv, OneDialog, Running
  <2>4. callers[Server].on = p
    BY <1>2, <2>1, <2>2, <2>3 DEF TimeInv, UInv, HolderInv
  <2>5. Server \in Waiters(p)
    BY <2>2, <2>4, ServerIsCaller DEF Waiters
  <2> QED BY <1>2, <1>7, <2>5 DEF TimeInv, ClockInv
<1>8. ClockInv'
  <2>1. ASSUME NEW p \in Requests, NEW d \in Clients, requests[p].at = "sending", DialogOf(p, d)
        PROVE  /\ clients'[d].at = "polling" => sendLeft >= clients'[d].left + (SendTimeout - PollGap)
               /\ /\ clients'[d].at = "sent" /\ server'.at # "dead"
                  /\ \A e \in Clients : RequestOf(e).cmd # "scan"
                  => sendLeft > 0
    <3>1. CASE d = c
      <4>1. CASE NeedsUser(c) /\ GiveUp(Server) /\ server.left = 0 /\ clients'[c].at = "polling"
                 /\ clients'[c].left = PollGap
        <5>1. sendLeft = SendTimeout
          BY <1>7, <2>1, <4>1
        <5> QED BY <3>1, <4>1, <5>1, U2FAssumption DEF SendTimeout
      <4>2. CASE UNCHANGED clients /\ server'.at = "dead"
        BY <2>1, <4>2 DEF TimeInv, ClockInv
      <4> QED BY <1>2, <3>1, <4>1, <4>2
    <3>2. CASE d # c
      BY <1>2, <2>1, <3>2 DEF TimeInv, ClockInv
    <3> QED BY <3>1, <3>2
  <2> QED BY <1>2, <1>3, <1>4, <2>1 DEF ClockInv
<1> QED BY <1>6, <1>8

-----------------------------------------------------------------------------
\* A dialog that runs was running, and a result that is sent is new or has the time it
\* had; nobody starts to wait.
LEMMA PromptSends ==
  ASSUME U2FTypeOK, ChannelInv, NEW p \in Requests, TimedDialog(p) \/ TimedPrompt(p)
  PROVE  /\ requests'[p].at \in Running =>
              requests[p].at \in Running /\ requests'[p].params = requests[p].params
         /\ requests'[p].at = "sending" =>
              sendLeft' = SendTimeout \/ (requests[p].at = "sending" /\ sendLeft' = sendLeft)
         /\ requests[p].at \in Running \/ sendLeft' = sendLeft
         /\ \A q \in Requests : Waiters(q)' \subseteq Waiters(q)
<1>1. requests \in [Requests -> RequestType] /\ callers \in [Callers -> CallerType]
  BY DEF U2FTypeOK, TypeOK
<1>2. \A q \in Requests : Waiters(q)' \subseteq Waiters(q)
  <2>1. CASE UNCHANGED callers
    BY <2>1 DEF Waiters
  <2>2. ASSUME NEW c \in Waiters(p),
               callers' = [callers EXCEPT ![c].at = requests[p].result, ![c].on = NoRequest]
        PROVE  \A q \in Requests : Waiters(q)' \subseteq Waiters(q)
    <3>1. c \in Callers
      BY DEF Waiters
    <3>2. callers'[c].on = NoRequest /\ \A d \in Callers \ {c} : callers'[d] = callers[d]
      BY <1>1, <2>2, <3>1 DEF CallerType
    <3> QED BY <3>1, <3>2, PinentryAssumption DEF Waiters
  <2> QED BY <2>1, <2>2, PromptEffect
<1>3. CASE TimedDialog(p)
  BY <1>1, <1>2, <1>3 DEF TimedDialog, Dialog, DialogFails, UserAnswers, RequestType, Running
<1>4. CASE Decide(p) /\ sendLeft' = SendTimeout
  BY <1>1, <1>2, <1>4 DEF Decide, RequestType, Running
<1>5. CASE (Extend(p) \/ ExtenderExpires(p)) /\ sendLeft' = sendLeft
  BY <1>1, <1>2, <1>5 DEF Extend, ExtenderExpires, RequestType
<1>6. CASE Clear(p) /\ sendLeft' = sendLeft
  BY <1>1, <1>2, <1>6 DEF Clear, Ended, FreeRequest, Running
<1>7. ASSUME NEW c \in Callers, Deliver(p, c), sendLeft' = sendLeft
      PROVE  /\ requests'[p].at = "clearing" /\ requests[p].at = "sending"
             /\ requests'[p].params = requests[p].params
  BY <1>1, <1>7 DEF Deliver, RequestType
<1>8. CASE SendExpires(p) /\ sendLeft' = sendLeft
  BY <1>1, <1>2, <1>8 DEF SendExpires, RequestType, Running
<1>9. CASE (\E c \in Callers : Deliver(p, c)) /\ sendLeft' = sendLeft
  BY <1>2, <1>7, <1>9 DEF Running
<1> QED BY <1>3, <1>4, <1>5, <1>6, <1>8, <1>9 DEF TimedPrompt

\* The dialogs.
LEMMA PromptTime ==
  ASSUME PollGap < SendTimeout, TimeInv, NEW p \in Requests, TimedDialog(p) \/ TimedPrompt(p)
  PROVE  BrowserInv' /\ ClockInv'
<1>1. U2FTypeOK /\ ChannelInv /\ clients \in [Clients -> ClientType]
  BY TypeParts DEF TimeInv, UInv
<1>2. UNCHANGED <<server, inbox, clients>> /\ \A q \in Requests \ {p} : requests'[q] = requests[q]
  BY <1>1, PromptEffect
<1>3. \A d \in Clients : RequestOf(d)' = RequestOf(d) /\ (NeedsUser(d)' <=> NeedsUser(d))
  BY <1>2 DEF RequestOf, NeedsUser
<1>4. ASSUME NEW q \in Requests, NEW d \in Clients, DialogOf(q, d)'
      PROVE  DialogOf(q, d)
  <2>1. CASE q = p
    BY <1>1, <1>3, <1>4, <2>1, PromptSends DEF DialogOf
  <2>2. CASE q # p
    BY <1>2, <1>3, <1>4, <2>2 DEF DialogOf
  <2> QED BY <2>1, <2>2
<1>5. BrowserInv'
  BY <1>2, <1>3, <1>4 DEF TimeInv, BrowserInv
<1>6. ASSUME NEW q \in Requests, requests'[q].at = "sending"
      PROVE  sendLeft' = SendTimeout \/ (requests[q].at = "sending" /\ sendLeft' = sendLeft)
  <2>1. CASE q = p
    BY <1>1, <1>6, <2>1, PromptSends
  <2>2. CASE q # p
    <3>1. requests[q].at = "sending"
      BY <1>2, <1>6, <2>2
    <3>2. requests[p].at \notin Running
      BY <1>1, <2>2, <3>1 DEF ChannelInv, OneDialog, Running
    <3> QED BY <1>1, <3>1, <3>2, PromptSends
  <2> QED BY <2>1, <2>2
<1>7. ClockInv'
  <2>1. ASSUME NEW q \in Requests, requests'[q].at = "sending", Waiters(q)' # {},
               server.at = "waiting", NeedsUser(server.client), server.left = 0
        PROVE  sendLeft' = SendTimeout
    <3>1. Waiters(q) # {}
      BY <1>1, <2>1, PromptSends
    <3> QED BY <1>6, <2>1, <3>1 DEF TimeInv, ClockInv
  <2>2. ASSUME NEW q \in Requests, NEW d \in Clients, requests'[q].at = "sending", DialogOf(q, d)'
        PROVE  /\ clients[d].at = "polling" => sendLeft' >= clients[d].left + (SendTimeout - PollGap)
               /\ /\ clients[d].at = "sent" /\ server.at # "dead"
                  /\ \A e \in Clients : RequestOf(e).cmd # "scan"
                  => sendLeft' > 0
    <3>1. CASE sendLeft' = SendTimeout
      <4>1. clients[d].at = "polling" => clients[d].left <= PollGap
        BY DEF TimeInv, BrowserInv
      <4>2. clients[d].left \in Nat
        BY <1>1, Durations DEF ClientType
      <4> QED BY <3>1, <4>1, <4>2, U2FAssumption DEF SendTimeout
    <3>2. CASE requests[q].at = "sending" /\ sendLeft' = sendLeft
      BY <1>4, <2>2, <3>2 DEF TimeInv, ClockInv
    <3> QED BY <1>6, <2>2, <3>1, <3>2
  <2>3. server.at = "waiting" => server.client \in Clients
    BY DEF TimeInv, UInv, WaitInv
  <2> QED BY <1>2, <1>3, <2>1, <2>2, <2>3 DEF ClockInv
<1> QED BY <1>5, <1>7

-----------------------------------------------------------------------------
\* A browser sends or gives up.
LEMMA BrowserTime ==
  ASSUME PollGap < SendTimeout, TimeInv, NEW c \in Clients, Send(c) \/ Abandon(c)
  PROVE  BrowserInv' /\ ClockInv'
<1>1. U2FTypeOK /\ inbox \in Seq(Clients) /\ clients \in [Clients -> ClientType]
  BY TypeParts DEF TimeInv, UInv
<1>2. /\ \A d \in Clients : clients'[d].request = clients[d].request
      /\ \A d \in Clients \ {c} : clients'[d] = clients[d]
      /\ UNCHANGED <<activeRequest, requests, callers, server, sendLeft>>
      /\ \/ clients'[c].at = "sent" /\ inbox' = Append(inbox, c)
            /\ clients[c].at \in {"new", "polling"}
         \/ clients'[c].at = "done" /\ inbox' = inbox
  BY <1>1, SendEffect, AbandonEffect DEF Send
<1>3. \A d \in Clients : RequestOf(d)' = RequestOf(d) /\ (NeedsUser(d)' <=> NeedsUser(d))
  BY <1>2, SameRequests
<1>4. \A p \in Requests, d \in Clients : DialogOf(p, d)' <=> DialogOf(p, d)
  BY <1>2, <1>3 DEF DialogOf
<1>5. \A d \in Clients : clients'[d].at = "new" => clients[d].at = "new"
  BY <1>2
<1>6. /\ \A i \in DOMAIN inbox : i \in DOMAIN inbox' /\ inbox'[i] = inbox[i] /\ inbox[i] \in Clients
      /\ \A i \in DOMAIN inbox' : i \in DOMAIN inbox \/ inbox'[i] = c
      /\ clients'[c].at = "sent" => \E i \in DOMAIN inbox' : inbox'[i] = c
  <2>1. CASE clients'[c].at = "done" /\ inbox' = inbox
    BY <1>1, <2>1
  <2>2. CASE inbox' = Append(inbox, c)
    <3>1. Len(inbox) + 1 \in DOMAIN inbox' /\ inbox'[Len(inbox) + 1] = c
      BY <1>1, <2>2
    <3> QED BY <1>1, <2>2, <3>1
  <2> QED BY <1>2, <2>1, <2>2
<1>7. BrowserInv'
  <2>1. \A i \in DOMAIN inbox' : clients'[inbox'[i]].at # "new"
    BY <1>2, <1>5, <1>6 DEF TimeInv, BrowserInv
  <2>2. ASSUME NEW d \in Clients, clients'[d].at = "sent"
        PROVE  \/ \E i \in DOMAIN inbox' : inbox'[i] = d
               \/ server.at = "waiting" /\ server.client = d
               \/ server.at = "dead"
    <3>1. CASE d = c
      BY <1>6, <2>2, <3>1
    <3>2. CASE d # c
      BY <1>2, <1>6, <2>2, <3>2 DEF TimeInv, BrowserInv
    <3> QED BY <3>1, <3>2
  <2>3. \A d \in Clients : clients'[d].at = "polling" => clients'[d].left <= PollGap
    BY <1>2 DEF TimeInv, BrowserInv
  <2> QED BY <1>2, <1>3, <1>4, <1>5, <2>1, <2>2, <2>3 DEF TimeInv, BrowserInv
<1>8. ClockInv'
  <2>1. ASSUME NEW p \in Requests, NEW d \in Clients, requests[p].at = "sending", DialogOf(p, d)
        PROVE  /\ clients'[d].at = "polling" => sendLeft >= clients'[d].left + (SendTimeout - PollGap)
               /\ /\ clients'[d].at = "sent" /\ server.at # "dead"
                  /\ \A e \in Clients : RequestOf(e).cmd # "scan"
                  => sendLeft > 0
    <3>1. CASE d = c /\ clients[c].at = "polling"
      <4>1. sendLeft >= clients[c].left + (SendTimeout - PollGap)
        BY <2>1, <3>1 DEF TimeInv, ClockInv
      <4>2. clients[c].left \in Nat /\ sendLeft \in Nat
        BY <1>1, TypeParts, Durations DEF ClientType
      <4>3. sendLeft > 0
        BY <4>1, <4>2, U2FAssumption DEF SendTimeout
      <4> QED BY <1>2, <3>1, <4>3
    <3>2. CASE d = c /\ clients[c].at = "new"
      BY <2>1, <3>2 DEF TimeInv, BrowserInv
    <3>3. CASE d = c /\ clients'[c].at = "done"
      BY <3>3
    <3>4. CASE d # c
      BY <1>2, <2>1, <3>4 DEF TimeInv, ClockInv
    <3> QED BY <1>2, <3>1, <3>2, <3>3, <3>4
  <2>2. \A p \in Requests : Waiters(p)' = Waiters(p)
    BY <1>2 DEF Waiters
  <2>3. server.at = "waiting" => server.client \in Clients
    BY DEF TimeInv, UInv, WaitInv
  <2>4. ASSUME NEW p \in Requests, requests'[p].at = "sending", Waiters(p)' # {},
               server'.at = "waiting", NeedsUser(server.client)', server'.left = 0
        PROVE  sendLeft' = SendTimeout
    BY <1>2, <1>3, <2>2, <2>3, <2>4 DEF TimeInv, ClockInv
  <2> QED BY <1>2, <1>3, <1>4, <2>1, <2>4 DEF ClockInv
<1> QED BY <1>7, <1>8

-----------------------------------------------------------------------------
\* Time does not pass while a result is sent that its client's request is there for: the
\* server takes the request, or has the result of another dialog to hear, or receives.
LEMMA SentIsUrgent ==
  ASSUME TimeInv, NEW p \in Requests, requests[p].at = "sending",
         NEW c \in Clients, clients[c].at = "sent", server.at # "dead",
         \A d \in Clients : RequestOf(d).cmd # "scan"
  PROVE  Urgent
<1>1. U2FTypeOK /\ ChannelInv /\ server \in ServerType /\ inbox \in Seq(Clients)
  BY TypeParts DEF TimeInv, UInv
<1>2. CASE server.at = "idle"
  <2>1. \E i \in DOMAIN inbox : inbox[i] = c
    BY <1>2 DEF TimeInv, BrowserInv
  <2> QED BY <1>1, <1>2, <2>1 DEF Urgent
<1>3. CASE server.at = "waiting"
  <2>1. server.client \in Clients /\ RequestOf(server.client).cmd # "scan"
    BY <1>3 DEF TimeInv, UInv, WaitInv
  <2>2. CASE callers[server.caller].at \in {"ok", "denied"}
    BY <1>3, <2>1, <2>2 DEF Urgent, Heard
  <2>3. CASE callers[server.caller].at = "waiting"
    <3>1. activeRequest = p /\ p # NoRequest
      BY <1>1, PinentryAssumption DEF ChannelInv, OneDialog, Running
    <3>2. callers[server.caller].on = p
      BY <1>3, <2>1, <2>3, <3>1 DEF TimeInv, UInv, HolderInv
    <3>3. server.caller \in Waiters(p)
      BY <1>1, <2>3, <3>2 DEF Waiters, ServerType
    <3> QED BY <3>3 DEF Urgent
  <2> QED BY <1>3, <2>1, <2>2, <2>3 DEF TimeInv, UInv, HolderInv
<1> QED BY <1>1, <1>2, <1>3 DEF ServerType

\* The clock.
LEMMA TickTime ==
  ASSUME PollGap < SendTimeout, TimeInv, Tick
  PROVE  BrowserInv' /\ ClockInv'
<1>1. /\ U2FTypeOK /\ server \in ServerType /\ clients \in [Clients -> ClientType]
      /\ sendLeft \in Nat /\ \A d \in Clients : clients[d].left \in Nat
      /\ inbox \in Seq(Clients) /\ server.left \in Nat
  BY TypeParts, Durations DEF TimeInv, UInv, ClientType, ServerType
<1>2. /\ ~Urgent
      /\ \A d \in Clients : /\ clients'[d].request = clients[d].request
                            /\ clients'[d].at = clients[d].at
                            /\ clients'[d].left = Down(clients[d].left)
      /\ server'.at = server.at /\ server'.client = server.client
      /\ server'.left = Down(server.left) /\ sendLeft' = Down(sendLeft)
      /\ UNCHANGED <<activeRequest, requests, callers, inbox>>
  BY <1>1, TickEffect DEF Tick
<1>3. \A d \in Clients : RequestOf(d)' = RequestOf(d) /\ (NeedsUser(d)' <=> NeedsUser(d))
  BY <1>2, SameRequests
<1>4. \A p \in Requests, d \in Clients : DialogOf(p, d)' <=> DialogOf(p, d)
  BY <1>2, <1>3 DEF DialogOf
<1>5. BrowserInv'
  <2>1. \A d \in Clients : clients'[d].left <= clients[d].left /\ clients'[d].left \in Nat
    BY <1>1, <1>2 DEF Down
  <2>2. \A d \in Clients : clients'[d].at = "polling" => clients'[d].left <= PollGap
    BY <1>1, <1>2, <2>1, U2FAssumption DEF TimeInv, BrowserInv
  <2>3. \A i \in DOMAIN inbox : inbox[i] \in Clients
    BY <1>1
  <2> QED BY <1>2, <1>3, <1>4, <2>2, <2>3 DEF TimeInv, BrowserInv
<1>6. ASSUME NEW p \in Requests, requests[p].at = "sending"
      PROVE  Waiters(p)' = {} /\ sendLeft > 0 /\ sendLeft' = sendLeft - 1
  <2>1. Waiters(p)' = Waiters(p)
    BY <1>2 DEF Waiters
  <2>2. Waiters(p) = {} /\ sendLeft # 0
    BY <1>2, <1>6 DEF Urgent
  <2> QED BY <1>1, <1>2, <2>1, <2>2 DEF Down
<1>7. ClockInv'
  <2>1. ASSUME NEW p \in Requests, NEW d \in Clients, requests[p].at = "sending", DialogOf(p, d)
        PROVE  /\ clients[d].at = "polling" => sendLeft' >= clients'[d].left + (SendTimeout - PollGap)
               /\ /\ clients[d].at = "sent" /\ server.at # "dead"
                  /\ \A e \in Clients : RequestOf(e).cmd # "scan"
                  => sendLeft' > 0
    <3>1. CASE clients[d].at = "polling"
      <4>1. clients[d].left # 0
        BY <1>2, <3>1 DEF Urgent
      <4>2. clients'[d].left = clients[d].left - 1
        BY <1>1, <1>2, <4>1 DEF Down
      <4>3. sendLeft >= clients[d].left + (SendTimeout - PollGap)
        BY <2>1, <3>1 DEF TimeInv, ClockInv
      <4> QED BY <1>1, <1>6, <2>1, <3>1, <4>2, <4>3, U2FAssumption DEF SendTimeout
    <3>2. CASE /\ clients[d].at = "sent" /\ server.at # "dead"
               /\ \A e \in Clients : RequestOf(e).cmd # "scan"
      BY <1>2, <2>1, <3>2, SentIsUrgent
    <3> QED BY <3>1, <3>2
  <2> QED BY <1>2, <1>3, <1>4, <1>6, <2>1 DEF ClockInv
<1> QED BY <1>5, <1>7

\* Every step keeps the clocks as they must be.
LEMMA TimeStep ==
  ASSUME PollGap < SendTimeout, OwnChallenges, TimeInv, [U2FNext]_allVars
  PROVE  TimeInv'
<1>1. UInv'
  BY UStep DEF TimeInv
<1>2. CASE UNCHANGED allVars
  <2>1. UNCHANGED <<activeRequest, requests, callers, server, inbox, clients, sendLeft>>
    BY <1>2 DEF allVars
  <2>2. BrowserInv' /\ ClockInv'
    BY <2>1 DEF TimeInv, BrowserInv, ClockInv, DialogOf, NeedsUser, RequestOf, Waiters
  <2> QED BY <1>1, <2>2 DEF TimeInv
<1>3. CASE U2FNext
  BY <1>1, <1>3, HandleTime, ConcludeTime, PromptTime, BrowserTime, TickTime DEF U2FNext, TimeInv
<1> QED BY <1>2, <1>3

\* If browsers repeat their requests before sendResult gives up, and each operation has
\* a challenge of its own, no browser that keeps asking loses the user's answer.
THEOREM AnswersReachBrowsers ==
  ASSUME PollGap < SendTimeout, OwnChallenges
  PROVE  U2FSpec => AnswerReachesBrowser
<1> DEFINE Reaches == \A p \in Requests :
       /\ requests[p].at = "sending"
       /\ requests'[p].at = "clearing"
       /\ requests'[p].takers = {}
       => \A c \in Clients :
            /\ NeedsUser(c)
            /\ \/ clients[c].at = "polling"
               \/ clients[c].at = "sent" /\ \A d \in Clients : RequestOf(d).cmd # "scan"
            => RequestOf(c).params # requests[p].params
<1>1. U2FInit => TimeInv
  BY TimeInit
<1>2. TimeInv /\ [U2FNext]_allVars => TimeInv'
  BY TimeStep
<1>3. TimeInv /\ [U2FNext]_allVars => [Reaches]_allVars
  <2> SUFFICES ASSUME TimeInv, U2FNext, NEW p \in Requests, NEW c \in Clients,
                      requests[p].at = "sending", requests'[p].at = "clearing",
                      requests'[p].takers = {}, NeedsUser(c),
                      \/ clients[c].at = "polling"
                      \/ clients[c].at = "sent" /\ \A d \in Clients : RequestOf(d).cmd # "scan",
                      RequestOf(c).params = requests[p].params
               PROVE  FALSE
    BY DEF Reaches
  <2>1. /\ U2FTypeOK /\ TypeOK /\ ChannelInv /\ requests \in [Requests -> RequestType]
        /\ sendLeft \in Nat /\ clients[c].left \in Nat
    BY TypeParts, Durations DEF TimeInv, UInv, TypeOK, ClientType
  <2>2. server.at # "dead" /\ sendLeft = 0
    <3>1. PICK q \in Requests : server.at # "dead" /\ (TimedDialog(q) \/ TimedPrompt(q))
      <4>1. ASSUME NEW d \in Clients, Handle(d)
            PROVE  FALSE
        <5>1. \/ UNCHANGED requests
              \/ \E caller \in Callers, params \in {Generic, RequestOf(d).params} :
                   ConfirmPresence(caller, params)
          BY <2>1, <4>1, HandleEffect
        <5> QED BY <2>1, <5>1, DialogsAfterAsk
      <4>2. ASSUME NEW d \in Clients, Conclude(d) \/ ScanEnds(d)
            PROVE  FALSE
        BY <2>1, <4>2, ConcludeEffect
      <4>3. ASSUME NEW d \in Clients, Send(d) \/ Abandon(d)
            PROVE  FALSE
        BY <2>1, <4>3, SendEffect, AbandonEffect
      <4>4. ~Tick
        BY <2>1, TickEffect
      <4> QED BY <4>1, <4>2, <4>3, <4>4 DEF U2FNext
    <3>2. q = p
      BY <2>1, <3>1, PromptEffect
    <3>3. ~TimedDialog(p)
      BY <2>1 DEF TimedDialog, Dialog, DialogFails, UserAnswers
    <3>4. ~Decide(p) /\ ~Extend(p) /\ ~ExtenderExpires(p) /\ ~Clear(p)
      BY <2>1 DEF Decide, Extend, ExtenderExpires, Clear, RequestType
    <3>5. ASSUME NEW d \in Callers, Deliver(p, d)
          PROVE  FALSE
      BY <2>1, <3>5 DEF Deliver, RequestType
    <3> QED BY <3>1, <3>2, <3>3, <3>4, <3>5 DEF TimedPrompt
  <2>3. DialogOf(p, c)
    BY DEF DialogOf, Running
  <2>4. clients[c].at = "polling" => sendLeft >= clients[c].left + (SendTimeout - PollGap)
    BY <2>3 DEF TimeInv, ClockInv
  <2>5. clients[c].at = "polling"
    BY <2>1, <2>2, <2>3 DEF TimeInv, ClockInv
  <2> QED BY <2>1, <2>2, <2>4, <2>5, U2FAssumption DEF SendTimeout
<1> QED BY <1>1, <1>2, <1>3, PTL DEF U2FSpec, AnswerReachesBrowser
=============================================================================
