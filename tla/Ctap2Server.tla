---------------------------- MODULE Ctap2Server -----------------------------
(***************************************************************************)
(* The CTAP2 handlers of src/main.go with what they rest on: the caching   *)
(* verifier and the verifier inside it, the signer, the resident store.    *)
(*                                                                         *)
(* The handlers run one after the other on the server's goroutine; each    *)
(* VerifyUser leaves a goroutine behind that outlives a handler which gave *)
(* up waiting for it, and that still updates the cache when its result     *)
(* comes in.  With --auth=pinentry a prompt that is up makes VerifyUser    *)
(* fail.  With --auth=fprintd it makes VerifyUser share the prompt's one   *)
(* result, which the receiver that has waited longest takes.               *)
(*                                                                         *)
(* A tick is a fraction of the five seconds a verification is cached for;  *)
(* a goroutine that can run does so before time passes.  The user may take *)
(* any time.                                                               *)
(*                                                                         *)
(* The process may die and be started again at any time.  The store        *)
(* survives, and so do the keys of the TPM; those of the in-memory signer  *)
(* do not.                                                                 *)
(***************************************************************************)
EXTENDS Naturals, Sequences, SequencesExt

CONSTANTS
  Setups,       \* flags the server may run with, and what may fail
  RPs,          \* relying parties, by rpIdHash
  Users,        \* user entities
  Calls,        \* goroutines of VerifyUser alive at a time
  MaxCreds,     \* bound on the keys the signer makes
  TTL,          \* uvCacheTTL in ticks
  HandlerWait   \* the handlers' 35 s in ticks

\* "signer" in failing: the signer may fail on what it could serve; "store": reading
\* and writing the store may fail.
SetupType ==
  [auth : {"pinentry", "fprintd"}, backend : {"tpm", "memory"},
   failing : SUBSET {"signer", "store"}]

ASSUME Ctap2Assumption ==
  /\ Setups \subseteq SetupType
  /\ "none" \notin Calls    \* NoCall is no goroutine
  /\ MaxCreds \in Nat
  /\ TTL \in Nat \ {0}
  /\ HandlerWait \in Nat \ {0}

VARIABLES
  setup,     \* chosen when the server is first started
  prompt,    \* the inner verifier: is a dialog or a scan going on
  waiters,   \* goroutines receiving from its result channel, oldest first
  calls,     \* the goroutine of each VerifyUser
  cacheAge,  \* ticks since lastOK; TTL means expired or never set
  touchAge,  \* history: ticks since the user last consented, up to TTL
  server,    \* the handler at work
  created,   \* the keys made so far: who for, and whether the site heard of it
  lost,      \* keys up to this number died with a process
  store,     \* creds.json
  response   \* the response to the current or the last request

volatile == <<prompt, waiters, calls, cacheAge, server, response>>
vars == <<setup, volatile, touchAge, created, lost, store>>

PerformsUV == setup.auth = "fprintd"

SignerFails == "signer" \in setup.failing
StoreFails == "store" \in setup.failing

CredIDs == 1 .. MaxCreds

Lists == {<<>>} \cup {<<i>> : i \in CredIDs} \cup {<<i, j>> : i, j \in CredIDs}

MakeCredential ==
  [cmd : {"makeCredential"}, rp : RPs, user : Users, uv : BOOLEAN, rk : BOOLEAN,
   exclude : Lists]

GetAssertion == [cmd : {"getAssertion"}, rp : RPs, uv : BOOLEAN, allow : Lists]

\* "invalid" stands for what does not decode, "noES256" for a registration that
\* offers no algorithm the token has.
OtherRequest == [cmd : {"getInfo", "invalid", "noES256", "unsupported"}]

CtapRequests == MakeCredential \cup GetAssertion \cup OtherRequest

NoCall == "none"

Statuses ==
  {"OK", "InvalidCbor", "NotAllowed", "UnsupportedAlg", "InvalidOption", "OperationDenied",
   "UVInvalid", "UserActionTimeout", "CredentialExcluded", "NoCredentials"}

\* A response names a credential, and the user entity if it came from the store.
NoCred == 0
Pending == [status |-> "pending", cred |-> NoCred, user |-> "none", uv |-> FALSE]

TypeOK ==
  /\ setup \in SetupType
  /\ prompt \in {"none", "shown", "closing"}
  /\ waiters \in Seq(Calls)
  /\ calls \in [Calls -> {"free", "waiting", "ok", "denied", "noMatch",
                          "gotOk", "gotDenied", "gotNoMatch"}]
  /\ cacheAge \in 0 .. TTL
  /\ touchAge \in 0 .. TTL
  /\ server.at \in {"idle", "handling", "waiting", "verified"}
  /\ server.at # "idle" => server.request \in CtapRequests
  /\ server.call \in Calls \cup {NoCall}
  /\ server.left \in 0 .. HandlerWait
  /\ server.cred \in CredIDs \cup {NoCred}
  /\ server.user \in Users \cup {"none"}
  /\ created \in Seq([rp : RPs, user : Users, rk : BOOLEAN, heard : BOOLEAN])
  /\ lost \in 0 .. Len(created)
  /\ store \in Seq([cred : CredIDs, rp : RPs, user : Users])
  /\ response \in [status : Statuses \cup {"pending"}, cred : CredIDs \cup {NoCred},
                   user : Users \cup {"none"}, uv : BOOLEAN]

NoRequest == [cmd |-> "none"]

Idle ==
  [at |-> "idle", request |-> NoRequest, call |-> NoCall, left |-> 0,
   cred |-> NoCred, user |-> "none", asked |-> FALSE]

\* A process that has just been started.
Started ==
  [prompt |-> "none", waiters |-> <<>>, calls |-> [k \in Calls |-> "free"],
   cacheAge |-> TTL, server |-> Idle, response |-> Pending]

Init ==
  /\ setup \in Setups
  /\ prompt = Started.prompt
  /\ waiters = Started.waiters
  /\ calls = Started.calls
  /\ cacheAge = Started.cacheAge
  /\ server = Started.server
  /\ response = Started.response
  /\ touchAge = TTL
  /\ created = <<>>
  /\ lost = 0
  /\ store = <<>>

-----------------------------------------------------------------------------
(***************************************************************************)
(* The signer.  SignASN1 succeeds only with a key handle made for the      *)
(* application parameter given, by this process if the keys are in memory. *)
(***************************************************************************)

\* Seeded fault: a key handle is taken for any application parameter.
OwnAnyRP(id, rp) == id \in DOMAIN created

Owns(id, rp) == id \in DOMAIN created /\ id > lost /\ created[id].rp = rp

RegisterKey(r, heard) ==
  created' = Append(created, [rp |-> r.rp, user |-> r.user, rk |-> r.rk, heard |-> heard])

\* What SignASN1 may return for a key handle, TRUE meaning a signature.
SignASN1(id, rp) ==
  IF ~Owns(id, rp) THEN {FALSE} ELSE IF SignerFails THEN BOOLEAN ELSE {TRUE}

\* The handlers try the entries of a list in turn until one signs.
TrialOutcomes(list, rp) ==
  {ok \in [DOMAIN list -> BOOLEAN] : \A i \in DOMAIN list : ok[i] \in SignASN1(list[i], rp)}

\* Seeded fault: only the first entry is tried.
HeadSigning(list, ok) == IF list # <<>> /\ ok[1] THEN list[1] ELSE NoCred

First(places) == CHOOSE i \in places : \A j \in places : i <= j

FirstSigning(list, ok) ==
  LET hits == {i \in DOMAIN list : ok[i]} IN
  IF hits = {} THEN NoCred ELSE list[First(hits)]

-----------------------------------------------------------------------------
(***************************************************************************)
(* The store.                                                              *)
(***************************************************************************)

\* Seeded fault: the replacement is decided by the relying party.
SaveByRP(entry) ==
  IF \E i \in DOMAIN store : store[i].rp = entry.rp
  THEN [i \in DOMAIN store |-> IF store[i].rp = entry.rp THEN entry ELSE store[i]]
  ELSE Append(store, entry)

Save(entry) ==
  IF \E i \in DOMAIN store : store[i].cred = entry.cred
  THEN [i \in DOMAIN store |-> IF store[i].cred = entry.cred THEN entry ELSE store[i]]
  ELSE Append(store, entry)

\* Seeded fault: the entries of all relying parties are returned.
FindAll(rp) == DOMAIN store

\* The places in the store of the site's entries, in the order they are returned.
FindByRPID(rp) == {i \in DOMAIN store : store[i].rp = rp}

-----------------------------------------------------------------------------
(***************************************************************************)
(* The verifier.                                                           *)
(***************************************************************************)
CacheHit == cacheAge < TTL

Respond(status) ==
  /\ response' = [Pending EXCEPT !.status = status]
  /\ server' = Idle

Free(k) ==
  \/ calls[k] = "free"
  \/ calls[k] = "waiting" /\ k \notin ToSet(waiters) /\ k # server.call

\* Seeded fault: a second VerifyUser waits on the channel of the dialog that is up.
SharesDialog == FALSE

\* The inner verifier returns an error: pinentry has one dialog.
InnerRefuses == setup.auth = "pinentry" /\ prompt # "none"

\* The handler calls VerifyUser, with what it has resolved so far in s.
VerifyUser(s) ==
  \/ /\ CacheHit
     /\ server' = [s EXCEPT !.at = "verified"]
     /\ UNCHANGED <<prompt, waiters, calls, response>>
  \/ /\ ~CacheHit
     /\ InnerRefuses
     /\ Respond("OperationDenied")
     /\ UNCHANGED <<prompt, waiters, calls>>
  \/ /\ ~CacheHit
     /\ ~InnerRefuses
     /\ \E k \in Calls :
          /\ Free(k)
          /\ calls' = [calls EXCEPT ![k] = "waiting"]
          /\ waiters' = Append(waiters, k)
          /\ server' = [s EXCEPT !.at = "waiting", !.call = k, !.left = HandlerWait,
                                 !.asked = TRUE]
     /\ prompt' = "shown"
     /\ UNCHANGED response

\* The user answers the dialog, or the scan is over: one receiver gets the result,
\* the others hold a channel on which nothing will be sent.
PromptEnds(result) ==
  /\ prompt = "shown"
  /\ result = "noMatch" => setup.auth = "fprintd"
  /\ calls' = [calls EXCEPT ![Head(waiters)] = result]
  /\ waiters' = <<>>
  /\ prompt' = IF setup.auth = "pinentry" THEN "closing" ELSE "none"
  /\ touchAge' = IF result = "ok" THEN 0 ELSE touchAge
  /\ UNCHANGED <<cacheAge, server, created, store, response>>

\* The dialog's request is forgotten only after its result has been taken.
DialogCleared ==
  /\ prompt = "closing"
  /\ prompt' = "none"
  /\ UNCHANGED <<waiters, calls, cacheAge, touchAge, server, created, store, response>>

\* Seeded fault: a failed verification opens the cache too.
CacheAny(result) == TRUE

Caches(result) == result = "ok"

Got(result) ==
  CASE result = "ok" -> "gotOk" [] result = "denied" -> "gotDenied"
    [] result = "noMatch" -> "gotNoMatch"

\* The goroutine of the call, whether or not its handler still waits.
GoroutineEnds(k) ==
  /\ calls[k] \in {"ok", "denied", "noMatch"}
  /\ cacheAge' = IF Caches(calls[k]) THEN 0 ELSE cacheAge
  /\ calls' = [calls EXCEPT ![k] = IF server.call = k THEN Got(@) ELSE "free"]
  /\ UNCHANGED <<prompt, waiters, touchAge, server, created, store, response>>

-----------------------------------------------------------------------------
(***************************************************************************)
(* The handlers, up to the call of VerifyUser.                             *)
(***************************************************************************)
Receive(request) ==
  /\ server.at = "idle"
  /\ request.cmd = "makeCredential" => Len(created) < MaxCreds
  /\ \E k \in Calls : Free(k)
  /\ server' = [Idle EXCEPT !.at = "handling", !.request = request]
  /\ response' = Pending
  /\ UNCHANGED <<prompt, waiters, calls, cacheAge, touchAge, created, store>>

Handling(cmd) ==
  /\ server.at = "handling"
  /\ server.request.cmd = cmd
  /\ UNCHANGED <<cacheAge, touchAge, created, store>>

HandleOther ==
  /\ \/ Handling("getInfo") /\ Respond("OK")
     \/ Handling("invalid") /\ Respond("InvalidCbor")
     \/ Handling("noES256") /\ Respond("UnsupportedAlg")
     \/ Handling("unsupported") /\ Respond("NotAllowed")
  /\ UNCHANGED <<prompt, waiters, calls>>

RejectsUV == server.request.uv /\ ~PerformsUV

HandleMakeCredential ==
  /\ Handling("makeCredential")
  /\ \/ RejectsUV /\ Respond("InvalidOption") /\ UNCHANGED <<prompt, waiters, calls>>
     \/ ~RejectsUV /\ VerifyUser(server)

HandleGetAssertion ==
  LET r == server.request IN
  /\ Handling("getAssertion")
  /\ \/ RejectsUV /\ Respond("InvalidOption") /\ UNCHANGED <<prompt, waiters, calls>>
     \/ /\ ~RejectsUV /\ r.allow # <<>>
        /\ \E ok \in TrialOutcomes(r.allow, r.rp) :
             LET cred == FirstSigning(r.allow, ok) IN
             IF cred = NoCred
             THEN Respond("NoCredentials") /\ UNCHANGED <<prompt, waiters, calls>>
             ELSE VerifyUser([server EXCEPT !.cred = cred])
     \/ /\ ~RejectsUV /\ r.allow = <<>>
        /\ \/ StoreFails /\ Respond("OperationDenied") /\ UNCHANGED <<prompt, waiters, calls>>
           \/ /\ FindByRPID(r.rp) = {}
              /\ Respond("NoCredentials")
              /\ UNCHANGED <<prompt, waiters, calls>>
           \/ /\ FindByRPID(r.rp) # {}
              /\ LET entry == store[First(FindByRPID(r.rp))] IN
                 VerifyUser([server EXCEPT !.cred = entry.cred, !.user = entry.user])

-----------------------------------------------------------------------------
(***************************************************************************)
(* The handlers, from the result of the verification on.                   *)
(***************************************************************************)
Hear(result) ==
  /\ server.at = "waiting"
  /\ calls[server.call] = result
  /\ calls' = [calls EXCEPT ![server.call] = "free"]
  /\ UNCHANGED <<prompt, waiters, cacheAge, touchAge, created, store>>

HearsOk ==
  /\ Hear("gotOk")
  /\ server' = [server EXCEPT !.at = "verified", !.call = NoCall, !.left = 0]
  /\ UNCHANGED response

\* statusForFailure
HearsFailure ==
  \/ Hear("gotDenied") /\ Respond("OperationDenied")
  \/ Hear("gotNoMatch") /\ Respond("UVInvalid")

TimesOut ==
  /\ server.at = "waiting"
  /\ server.left = 0
  /\ Respond("UserActionTimeout")
  /\ calls' = [calls EXCEPT ![server.call] =
                 IF @ \in {"gotOk", "gotDenied", "gotNoMatch"} THEN "free" ELSE @]
  /\ UNCHANGED <<prompt, waiters, cacheAge, touchAge, created, store>>

Verified(cmd) ==
  /\ server.at = "verified"
  /\ server.request.cmd = cmd
  /\ UNCHANGED <<prompt, waiters, calls, cacheAge, touchAge>>

RespondOK(cred) ==
  /\ response' = [status |-> "OK", cred |-> cred, user |-> server.user, uv |-> PerformsUV]
  /\ server' = Idle

\* Seeded fault: the entry is saved under the number of the key before.
RegisterLast(r) ==
  LET id == Len(created)
      entry == [cred |-> id, rp |-> r.rp, user |-> r.user]
  IN /\ RegisterKey(r, TRUE)
     /\ store' = IF r.rk THEN Save(entry) ELSE store
     /\ RespondOK(id)

\* RegisterKey, and Save if the site wants a resident credential.  An error of
\* Save is logged; the registration goes on all the same.
KeyAndEntry(r, heard) ==
  LET entry == [cred |-> Len(created) + 1, rp |-> r.rp, user |-> r.user]
  IN /\ RegisterKey(r, heard)
     /\ \/ r.rk /\ store' = Save(entry)
        \/ (r.rk => StoreFails) /\ UNCHANGED store

Register(r) == KeyAndEntry(r, TRUE) /\ RespondOK(Len(created) + 1)

FinishMakeCredential ==
  LET r == server.request IN
  /\ Verified("makeCredential")
  /\ \E ok \in TrialOutcomes(r.exclude, r.rp) :
       IF FirstSigning(r.exclude, ok) # NoCred
       THEN Respond("CredentialExcluded") /\ UNCHANGED <<created, store>>
       ELSE \/ Register(r)
            \/ SignerFails /\ Respond("OperationDenied") /\ UNCHANGED <<created, store>>

FinishGetAssertion ==
  /\ Verified("getAssertion")
  /\ \E signed \in SignASN1(server.cred, server.request.rp) :
       IF signed THEN RespondOK(server.cred) ELSE Respond("OperationDenied")
  /\ UNCHANGED <<created, store>>

-----------------------------------------------------------------------------
(***************************************************************************)
(* The process dies and is started again.  A prompt dies with it, and so   *)
(* does a response that has not been written.                              *)
(***************************************************************************)
Dies ==
  /\ prompt' = Started.prompt
  /\ waiters' = Started.waiters
  /\ calls' = Started.calls
  /\ cacheAge' = Started.cacheAge
  /\ server' = Started.server
  /\ response' = Started.response
  /\ lost' = IF setup.backend = "memory" THEN Len(created') ELSE lost
  /\ UNCHANGED touchAge

Restart == UNCHANGED <<created, store>> /\ Dies

\* After RegisterKey, before or after Save, and before the response.
DiesRegistering ==
  LET r == server.request IN
  /\ server.at = "verified" /\ r.cmd = "makeCredential"
  /\ \E ok \in TrialOutcomes(r.exclude, r.rp) : FirstSigning(r.exclude, ok) = NoCred
  /\ \/ KeyAndEntry(r, FALSE)
     \/ RegisterKey(r, FALSE) /\ UNCHANGED store
  /\ Dies

-----------------------------------------------------------------------------
Urgent ==
  \/ server.at \in {"handling", "verified"}
  \/ server.at = "waiting" /\ server.left = 0
  \/ server.at = "waiting" /\ calls[server.call] \in {"gotOk", "gotDenied", "gotNoMatch"}
  \/ \E k \in Calls : calls[k] \in {"ok", "denied", "noMatch"}
  \/ prompt = "closing"

Older(age) == IF age = TTL THEN TTL ELSE age + 1

Tick ==
  /\ ~Urgent
  /\ cacheAge' = Older(cacheAge)
  /\ touchAge' = Older(touchAge)
  /\ server' = IF server.at = "waiting" THEN [server EXCEPT !.left = @ - 1] ELSE server
  /\ UNCHANGED <<prompt, waiters, calls, created, store, response>>

Serve ==
  \/ \E request \in CtapRequests : Receive(request)
  \/ HandleOther \/ HandleMakeCredential \/ HandleGetAssertion
  \/ HearsOk \/ HearsFailure \/ TimesOut
  \/ FinishMakeCredential \/ FinishGetAssertion
  \/ \E result \in {"ok", "denied", "noMatch"} : PromptEnds(result)
  \/ DialogCleared
  \/ \E k \in Calls : GoroutineEnds(k)
  \/ Tick

Next ==
  /\ UNCHANGED setup
  /\ \/ Serve /\ UNCHANGED lost
     \/ Restart \/ DiesRegistering

Spec == Init /\ [][Next]_vars

-----------------------------------------------------------------------------
Answers(status) == response.status = "pending" /\ response'.status = status

Answering(cmd) == server.request.cmd = cmd

\* A credential is made, an assertion is signed, and the existence of an excluded
\* credential is admitted, only within five seconds of a consent of the user, be it
\* given to this request or to another one, in time or too late for it.
PresenceIsFresh ==
  [][\/ Answers("CredentialExcluded")
     \/ Answers("OK") /\ server.request.cmd \in {"makeCredential", "getAssertion"}
     => touchAge < TTL]_vars

\* An assertion is made with a credential made for the site that asks, and comes
\* with the user entity of that credential or with none.
CredentialIsTheRPs ==
  [][Answers("OK") /\ Answering("getAssertion") =>
       LET made == created[response'.cred] IN
       /\ made.rp = server.request.rp
       /\ response'.user \in {made.user, "none"}]_vars

\* With a signer that does not fail, no site gets a second credential where it
\* excluded one of its own, and none of its own credentials in an allow list goes
\* unrecognised, at whatever place of the list it is.
ListsAreSearched ==
  [][LET r == server.request
         owned(list) == {i \in DOMAIN list : Owns(list[i], r.rp)}
     IN ~SignerFails =>
          /\ Answers("OK") /\ Answering("makeCredential") => owned(r.exclude) = {}
          /\ Answers("NoCredentials") /\ r.allow # <<>> => owned(r.allow) = {}]_vars

\* With a store that can be read and written, the first resident credential a site
\* was told of answers every later request without an allow list, or an older one
\* that the site never heard of because the process died: no later registration, of
\* this site or another, and no restart hides it.
FirstResidentAnswers ==
  [][Answering("getAssertion") /\ server.request.allow = <<>> /\ ~StoreFails =>
       LET own == {i \in DOMAIN created : created[i].rk /\ created[i].rp = server.request.rp}
           heard == {i \in own : created[i].heard}
       IN /\ Answers("NoCredentials") => heard = {}
          /\ Answers("OK") => response'.cred \in own /\ \A i \in heard : response'.cred <= i]_vars

\* The user is asked in vain, for an assertion that is then refused, only if the
\* signer fails, or if the store holds a credential of an earlier process whose keys
\* were in its memory.
ConsentIsNotWasted ==
  [][Answers("OperationDenied") /\ Answering("getAssertion") /\ server.at = "verified" =>
       \/ SignerFails
       \/ server.request.allow = <<>> /\ server.cred <= lost]_vars

PromptGoesUnheard ==
  /\ prompt = "shown" /\ prompt' # "shown"
  /\ server.at = "waiting" /\ server'.at = "waiting"
  /\ calls'[server.call] = "waiting"

\* With --auth=pinentry a handler that waits for the user hears what the dialog comes to,
\* also if the dialog before it was left behind by a handler that gave up: nobody shares
\* the channel of a dialog.
DialogReachesHandler == [][setup.auth = "pinentry" => ~PromptGoesUnheard]_vars

-----------------------------------------------------------------------------
\* fprintd.go:47 "If one is already in progress, returns the same result channel
\* (deduplication for browser retries)": a handler waiting for the user hears what the
\* prompt it waits for comes to.
HandlerHearsItsPrompt == [][~PromptGoesUnheard]_vars

\* main_test.go:397 "User Presence MUST be obtained for every GetAssertion. The
\* verifier (or pinentry presence dialog) must always be invoked, regardless of whether
\* the RP requested user verification.": the user has been asked on behalf of every
\* assertion that succeeds.  (main_test.go:435 demands of the cache the contrary.)
AssertionAsksUser ==
  [][Answers("OK") /\ Answering("getAssertion") => server.asked]_vars

\* README.md:66 "When a site requests rk=true (resident key), linux-id stores the
\* credential locally": a registration with rk that succeeds is in the store.
ResidentIsStored ==
  [][Answers("OK") /\ Answering("makeCredential") /\ server.request.rk =>
       \E i \in DOMAIN store' : store'[i].cred = response'.cred]_vars
=============================================================================
