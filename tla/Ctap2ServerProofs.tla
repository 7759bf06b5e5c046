-------------------------- MODULE Ctap2ServerProofs --------------------------
(***************************************************************************)
(* Theorems about Ctap2Server, for any sites, users and credentials, any   *)
(* number of goroutines left behind, any durations and any faults.         *)
(***************************************************************************)
EXTENDS Ctap2Server, NumberFacts, TLAPS

\* What TypeOK leaves out: the record of the handler at work.
ServerType ==
  [at : {"idle", "handling", "waiting", "verified"}, request : CtapRequests \cup {NoRequest},
   call : Calls \cup {NoCall}, left : 0 .. HandlerWait, cred : CredIDs \cup {NoCred},
   user : Users \cup {"none"}, asked : BOOLEAN]

\* A handler has a request, waits for a call if and only if it says so, starts with
\* nothing resolved, and has room for the key it may make.
HandlerInv ==
  /\ server \in ServerType
  /\ server.at # "idle" => server.request \in CtapRequests
  /\ server.at = "waiting" <=> server.call # NoCall
  /\ server.at = "handling" => server.user = "none"
  /\ server.at # "idle" /\ server.request.cmd = "makeCredential" => Len(created) < MaxCreds

\* The cache never makes a consent younger than it is, a positive result that is still
\* on its way to the cache or to the handler is of this very tick, and the handler goes
\* on only while the consent it heard of, or found in the cache, is fresh.
FreshInv ==
  /\ touchAge <= cacheAge
  /\ \A k \in Calls : calls[k] = "ok" => touchAge = 0
  /\ \A k \in Calls : calls[k] = "gotOk" => touchAge = 0 /\ server.call = k
  /\ server.at = "verified" => touchAge < TTL

\* What the store says of a credential is what it was made for; its entries are in the
\* order the credentials were made in, and if it can be written none is missing.
StoreInv ==
  /\ \A i \in DOMAIN store :
       /\ store[i].cred \in DOMAIN created
       /\ created[store[i].cred].rk
       /\ created[store[i].cred].rp = store[i].rp
       /\ created[store[i].cred].user = store[i].user
  /\ \A i, j \in DOMAIN store : i < j => store[i].cred < store[j].cred
  /\ ~StoreFails =>
       \A c \in DOMAIN created : created[c].rk /\ created[c].heard =>
         \E i \in DOMAIN store : store[i].cred = c

\* The credential that s has resolved answers its request: it is one of the allow list
\* that the signer owns, or the site's first in the store.
Chosen(s) ==
  s.request.cmd = "getAssertion" =>
    /\ s.request.allow # <<>> => Owns(s.cred, s.request.rp) /\ s.user = "none"
    /\ s.request.allow = <<>> =>
         /\ s.cred \in DOMAIN created
         /\ created[s.cred].rk
         /\ created[s.cred].rp = s.request.rp
         /\ created[s.cred].user = s.user
         /\ ~StoreFails =>
              \A c \in DOMAIN created :
                created[c].rk /\ created[c].heard /\ created[c].rp = s.request.rp => s.cred <= c

\* It still does, however long the user has taken.
ChosenInv == server.at \in {"waiting", "verified"} => Chosen(server)

IInv == TypeOK /\ HandlerInv /\ FreshInv /\ StoreInv /\ ChosenInv

CallStates == {"free", "waiting", "ok", "denied", "noMatch", "gotOk", "gotDenied", "gotNoMatch"}

ResponseType ==
  [status : Statuses \cup {"pending"}, cred : CredIDs \cup {NoCred},
   user : Users \cup {"none"}, uv : BOOLEAN]

-----------------------------------------------------------------------------
\* First names the least place of a set of places.
LEMMA FirstIsLeast ==
  ASSUME NEW S \in SUBSET Nat, S # {}
  PROVE  First(S) \in S /\ \A n \in S : First(S) <= n
BY LeastNumber DEF First

\* The entries of a list name credentials.
LEMMA ListFacts ==
  ASSUME NEW list \in Lists
  PROVE  /\ DOMAIN list \subseteq Nat
         /\ \A i \in DOMAIN list : list[i] \in CredIDs
<1>1. CASE list = <<>>
  BY <1>1
<1>2. CASE \E i \in CredIDs : list = <<i>>
  BY <1>2
<1>3. CASE \E i, j \in CredIDs : list = <<i, j>>
  BY <1>3
<1> QED BY <1>1, <1>2, <1>3 DEF Lists

\* A request has the fields of its command.
LEMMA RequestFacts ==
  ASSUME NEW r \in CtapRequests
  PROVE  /\ r.cmd = "makeCredential" =>
              r.rp \in RPs /\ r.user \in Users /\ r.rk \in BOOLEAN /\ r.exclude \in Lists
         /\ r.cmd = "getAssertion" => r.rp \in RPs /\ r.allow \in Lists
BY DEF CtapRequests, MakeCredential, GetAssertion, OtherRequest

\* FirstSigning returns the first entry that signs, and nothing only if none does.
LEMMA FirstSigningFinds ==
  ASSUME NEW list \in Lists, NEW ok \in [DOMAIN list -> BOOLEAN]
  PROVE  \/ FirstSigning(list, ok) = NoCred /\ \A i \in DOMAIN list : ~ok[i]
         \/ /\ FirstSigning(list, ok) \in CredIDs
            /\ \E i \in DOMAIN list : ok[i] /\ FirstSigning(list, ok) = list[i]
<1> DEFINE hits == {i \in DOMAIN list : ok[i]}
<1>1. CASE hits = {}
  BY <1>1 DEF FirstSigning
<1>2. CASE hits # {}
  <2>1. hits \in SUBSET Nat
    BY ListFacts
  <2>2. First(hits) \in hits
    BY <1>2, <2>1, FirstIsLeast
  <2>3. FirstSigning(list, ok) = list[First(hits)]
    BY <1>2 DEF FirstSigning
  <2> QED BY <2>2, <2>3, ListFacts
<1> QED BY <1>1, <1>2

\* The entry of an allow list that signs is owned by the signer.
LEMMA SignsIfOwned ==
  ASSUME NEW id, NEW rp, TRUE \in SignASN1(id, rp)
  PROVE  Owns(id, rp)
BY DEF SignASN1

\* The idle server is well-typed,
LEMMA IdleType == Idle \in ServerType
BY Ctap2Assumption DEF Idle, ServerType, NoRequest

\* and so is a response that is still open.
LEMMA PendingType == ASSUME NEW status \in Statuses PROVE [Pending EXCEPT !.status = status] \in ResponseType
BY DEF Pending, ResponseType

-----------------------------------------------------------------------------
\* TypeOK says of the server what HandlerInv says of it.
LEMMA TypeFromParts ==
  ASSUME TypeOK, HandlerInv', UNCHANGED setup, prompt' \in {"none", "shown", "closing"},
         waiters' \in Seq(Calls), calls' \in [Calls -> CallStates],
         cacheAge' \in 0 .. TTL, touchAge' \in 0 .. TTL,
         created' \in Seq([rp : RPs, user : Users, rk : BOOLEAN, heard : BOOLEAN]),
         lost' \in 0 .. Len(created'),
         store' \in Seq([cred : CredIDs, rp : RPs, user : Users]),
         response' \in ResponseType
  PROVE  TypeOK'
<1>1. /\ server'.at \in {"idle", "handling", "waiting", "verified"}
      /\ server'.at # "idle" => server'.request \in CtapRequests
      /\ server'.call \in Calls \cup {NoCall}
      /\ server'.left \in 0 .. HandlerWait
      /\ server'.cred \in CredIDs \cup {NoCred}
      /\ server'.user \in Users \cup {"none"}
  <2>1. server' \in ServerType /\ (server'.at # "idle" => server'.request \in CtapRequests)
    BY DEF HandlerInv
  <2> QED BY <2>1 DEF ServerType
<1>2. /\ calls' \in [Calls -> {"free", "waiting", "ok", "denied", "noMatch",
                               "gotOk", "gotDenied", "gotNoMatch"}]
      /\ response' \in [status : Statuses \cup {"pending"}, cred : CredIDs \cup {NoCred},
                        user : Users \cup {"none"}, uv : BOOLEAN]
  BY DEF CallStates, ResponseType
<1> QED BY <1>1, <1>2 DEF TypeOK

\* What the signer and the store hold is said without the server.
LEMMA StoreStays ==
  ASSUME StoreInv, UNCHANGED <<setup, created, store>>
  PROVE  StoreInv'
BY DEF StoreInv, StoreFails

\* What a handler has chosen stays as it was when nothing it depends on changes.
LEMMA ChosenStays ==
  ASSUME NEW s, Chosen(s), UNCHANGED <<setup, created, lost>>
  PROVE  Chosen(s)'
BY DEF Chosen, StoreFails, Owns

\* The server goes idle, with or without an answer.
LEMMA IdleStep ==
  ASSUME IInv, server' = Idle, response' \in ResponseType, calls' \in [Calls -> CallStates],
         \A k \in Calls : calls'[k] # "gotOk" /\ (calls'[k] = "ok" => calls[k] = "ok"),
         UNCHANGED <<setup, prompt, waiters, cacheAge, touchAge, created, lost, store>>
  PROVE  IInv'
<1>1. Idle.at = "idle" /\ Idle.call = NoCall
  BY DEF Idle
<1>2. HandlerInv'
  BY <1>1, IdleType DEF HandlerInv
<1>3. TypeOK'
  BY <1>2, TypeFromParts DEF IInv, TypeOK
<1>4. FreshInv'
  BY <1>1 DEF IInv, FreshInv
<1>5. StoreInv'
  BY StoreStays DEF IInv
<1>6. ChosenInv'
  BY <1>1 DEF ChosenInv
<1> QED BY <1>2, <1>3, <1>4, <1>5, <1>6 DEF IInv

\* The server answers while it has no call under way.
LEMMA RespondStep ==
  ASSUME IInv, NEW status \in Statuses, Respond(status), server.at # "waiting",
         UNCHANGED <<setup, prompt, waiters, calls, cacheAge, touchAge, created, lost, store>>
  PROVE  IInv'
<1>1. server' = Idle /\ response' \in ResponseType
  BY PendingType DEF Respond
<1>2. calls' \in [Calls -> CallStates]
  BY DEF IInv, TypeOK, CallStates
<1>3. \A k \in Calls : calls'[k] # "gotOk" /\ (calls'[k] = "ok" => calls[k] = "ok")
  BY Ctap2Assumption DEF IInv, HandlerInv, FreshInv, NoCall
<1> QED BY <1>1, <1>2, <1>3, IdleStep

\* The server goes on with s, without a change to what it rests on.
LEMMA GoesOn ==
  ASSUME IInv, NEW s, server' = s, s \in ServerType, s.at # "idle" => s.request \in CtapRequests,
         s.at = "waiting" <=> s.call # NoCall,
         s.at = "handling" => s.user = "none",
         s.at # "idle" /\ s.request.cmd = "makeCredential" => Len(created) < MaxCreds,
         s.at \in {"waiting", "verified"} => Chosen(s),
         UNCHANGED <<setup, created, lost, store>>
  PROVE  HandlerInv' /\ StoreInv' /\ ChosenInv'
<1>1. HandlerInv'
  BY DEF HandlerInv
<1>2. StoreInv'
  BY StoreStays DEF IInv
<1>3. ChosenInv'
  BY ChosenStays DEF ChosenInv
<1> QED BY <1>1, <1>2, <1>3

\* VerifyUser, on behalf of a handler that has resolved what s says.
LEMMA VerifyUserStep ==
  ASSUME IInv, server.at = "handling", NEW s \in ServerType, VerifyUser(s), Chosen(s),
         s.at = "handling", s.call = NoCall, s.request \in CtapRequests,
         s.request.cmd = "makeCredential" => Len(created) < MaxCreds,
         UNCHANGED <<setup, cacheAge, touchAge, created, lost, store>>
  PROVE  IInv'
<1>1. CASE CacheHit /\ server' = [s EXCEPT !.at = "verified"]
           /\ UNCHANGED <<prompt, waiters, calls, response>>
  <2> DEFINE t == [s EXCEPT !.at = "verified"]
  <2>1. /\ t \in ServerType /\ t.at = "verified" /\ t.call = NoCall /\ t.request = s.request
        /\ t.cred = s.cred /\ t.user = s.user
    BY DEF ServerType
  <2>2. server' = t
    BY <1>1
  <2> HIDE DEF t
  <2>3. Chosen(t)
    BY <2>1 DEF Chosen
  <2>4. HandlerInv' /\ StoreInv' /\ ChosenInv'
    BY <2>1, <2>2, <2>3, GoesOn
  <2>5. TypeOK'
    BY <1>1, <2>4, TypeFromParts DEF IInv, TypeOK, CallStates, ResponseType
  <2>6. touchAge' < TTL
    BY <1>1, Ctap2Assumption DEF IInv, TypeOK, FreshInv, CacheHit
  <2>7. \A k \in Calls : calls[k] # "gotOk"
    BY Ctap2Assumption DEF IInv, HandlerInv, FreshInv, NoCall
  <2>8. FreshInv'
    BY <1>1, <2>6, <2>7 DEF IInv, FreshInv
  <2> QED BY <2>4, <2>5, <2>8 DEF IInv
<1>2. CASE Respond("OperationDenied") /\ UNCHANGED <<prompt, waiters, calls>>
  <2>1. "OperationDenied" \in Statuses
    BY DEF Statuses
  <2> QED BY <1>2, <2>1, RespondStep
<1>3. ASSUME NEW k \in Calls, calls' = [calls EXCEPT ![k] = "waiting"],
             waiters' = Append(waiters, k),
             server' = [s EXCEPT !.at = "waiting", !.call = k, !.left = HandlerWait,
                                 !.asked = TRUE],
             prompt' = "shown", UNCHANGED response
      PROVE  IInv'
  <2> DEFINE t == [s EXCEPT !.at = "waiting", !.call = k, !.left = HandlerWait, !.asked = TRUE]
  <2>1. /\ t \in ServerType /\ t.at = "waiting" /\ t.call = k /\ t.request = s.request
        /\ t.cred = s.cred /\ t.user = s.user
    <3>1. HandlerWait \in 0 .. HandlerWait
      BY Ctap2Assumption
    <3> QED BY <3>1 DEF ServerType
  <2>2. server' = t /\ k # NoCall
    BY <1>3, Ctap2Assumption DEF NoCall
  <2> HIDE DEF t
  <2>3. Chosen(t)
    BY <2>1 DEF Chosen
  <2>4. HandlerInv' /\ StoreInv' /\ ChosenInv'
    BY <2>1, <2>2, <2>3, GoesOn
  <2>5. calls' \in [Calls -> CallStates] /\ waiters' \in Seq(Calls)
    BY <1>3 DEF IInv, TypeOK, CallStates
  <2>6. TypeOK'
    BY <1>3, <2>4, <2>5, TypeFromParts DEF IInv, TypeOK, ResponseType
  <2>7. \A j \in Calls : calls[j] # "gotOk"
    BY Ctap2Assumption DEF IInv, HandlerInv, FreshInv, NoCall
  <2>8. \A j \in Calls : calls'[j] # "gotOk" /\ (calls'[j] = "ok" => calls[j] = "ok")
    BY <1>3, <2>7 DEF IInv, TypeOK
  <2>9. server'.at # "verified"
    BY <2>1, <2>2
  <2>10. FreshInv'
    BY <2>8, <2>9 DEF IInv, FreshInv
  <2> QED BY <2>4, <2>6, <2>10 DEF IInv
<1> QED BY <1>1, <1>2, <1>3 DEF VerifyUser

-----------------------------------------------------------------------------
\* The actions up to the call of VerifyUser.
LEMMA ReceiveStep ==
  ASSUME IInv, UNCHANGED <<setup, lost>>, NEW r \in CtapRequests, Receive(r)
  PROVE  IInv'
<1> DEFINE t == [Idle EXCEPT !.at = "handling", !.request = r]
<1>1. /\ t \in ServerType /\ t.at = "handling" /\ t.call = NoCall /\ t.request = r
      /\ t.user = "none"
  BY IdleType DEF ServerType, Idle
<1>2. server' = t
  BY DEF Receive
<1> HIDE DEF t
<1>3. HandlerInv' /\ StoreInv' /\ ChosenInv'
  BY <1>1, <1>2, GoesOn DEF Receive
<1>4. response' \in ResponseType
  BY DEF Receive, Pending, ResponseType
<1>5. TypeOK'
  BY <1>3, <1>4, TypeFromParts DEF Receive, IInv, TypeOK, CallStates
<1>6. \A k \in Calls : calls[k] # "gotOk"
  BY Ctap2Assumption DEF Receive, IInv, HandlerInv, FreshInv, NoCall
<1>7. FreshInv'
  BY <1>1, <1>2, <1>6 DEF Receive, IInv, FreshInv
<1> QED BY <1>3, <1>5, <1>7 DEF IInv

\* Commands that need no user are answered at once.
LEMMA HandleOtherStep ==
  ASSUME IInv, UNCHANGED <<setup, lost>>, HandleOther
  PROVE  IInv'
<1>1. PICK status \in Statuses : Respond(status)
  BY DEF HandleOther, Statuses
<1>2. server.at = "handling" /\ UNCHANGED <<prompt, waiters, calls, cacheAge, touchAge, created, store>>
  BY DEF HandleOther, Handling
<1> QED BY <1>1, <1>2, RespondStep

\* What a handler knows of its request when it starts.
LEMMA HandlingFacts ==
  ASSUME IInv, NEW cmd, Handling(cmd)
  PROVE  /\ server \in ServerType /\ server.at = "handling" /\ server.call = NoCall
         /\ server.request \in CtapRequests /\ server.request.cmd = cmd
         /\ server.user = "none"
         /\ server.request.cmd = "makeCredential" => Len(created) < MaxCreds
BY DEF IInv, HandlerInv, Handling

\* A registration is answered at once, or the handler waits for the user,
LEMMA HandleMakeCredentialStep ==
  ASSUME IInv, UNCHANGED <<setup, lost>>, HandleMakeCredential
  PROVE  IInv'
<1>1. CASE Respond("InvalidOption") /\ UNCHANGED <<prompt, waiters, calls>>
  <2>1. "InvalidOption" \in Statuses
    BY DEF Statuses
  <2> QED BY <1>1, <2>1, RespondStep DEF HandleMakeCredential, Handling
<1>2. CASE VerifyUser(server)
  <2>1. Chosen(server)
    BY HandlingFacts DEF HandleMakeCredential, Chosen
  <2> QED BY <1>2, <2>1, HandlingFacts, VerifyUserStep DEF HandleMakeCredential, Handling
<1> QED BY <1>1, <1>2 DEF HandleMakeCredential

\* An entry of the store has the fields of one.
LEMMA StoreEntry ==
  ASSUME IInv, NEW i \in DOMAIN store
  PROVE  i \in Nat /\ store[i].cred \in CredIDs /\ store[i].cred \in Nat /\ store[i].user \in Users
<1> DEFINE Entry == [cred : CredIDs, rp : RPs, user : Users]
<1>1. store \in Seq(Entry)
  BY DEF IInv, TypeOK
<1>2. i \in Nat /\ store[i] \in Entry
  <2> HIDE DEF Entry
  <2> QED BY <1>1
<1>3. CredIDs \subseteq Nat
  BY DEF CredIDs
<1> QED BY <1>2, <1>3

\* The site's first entry in the store is the one that FindByRPID returns first.
LEMMA FirstFound ==
  ASSUME IInv, NEW rp, FindByRPID(rp) # {}
  PROVE  LET i == First(FindByRPID(rp)) IN
         /\ i \in DOMAIN store /\ store[i].rp = rp
         /\ \A j \in DOMAIN store : store[j].rp = rp => store[i].cred <= store[j].cred
<1> DEFINE hits == FindByRPID(rp)
           i == First(hits)
<1>1. hits \in SUBSET Nat /\ DOMAIN store \subseteq Nat
  BY DEF FindByRPID, IInv, TypeOK
<1>2. i \in hits /\ \A j \in hits : i <= j
  BY <1>1, FirstIsLeast
<1>3. i \in DOMAIN store /\ store[i].rp = rp
  BY <1>2 DEF FindByRPID
<1>4. \A j \in DOMAIN store : store[j].cred \in Nat
  BY StoreEntry
<1>5. ASSUME NEW j \in DOMAIN store, store[j].rp = rp
      PROVE  store[i].cred <= store[j].cred
  <2>1. i <= j /\ i \in Nat /\ j \in Nat
    BY <1>1, <1>2, <1>5 DEF FindByRPID
  <2>2. i < j => store[i].cred < store[j].cred
    BY <1>3 DEF IInv, StoreInv
  <2>3. store[i].cred \in Nat /\ store[j].cred \in Nat
    BY <1>3, <1>4
  <2> HIDE DEF i
  <2> QED BY <2>1, <2>2, <2>3
<1> QED BY <1>3, <1>5

\* and so is an assertion, for a credential that has been chosen.
LEMMA HandleGetAssertionStep ==
  ASSUME IInv, UNCHANGED <<setup, lost>>, HandleGetAssertion
  PROVE  IInv'
<1> DEFINE r == server.request
<1>1. Handling("getAssertion") /\ UNCHANGED <<cacheAge, touchAge, created, store>>
  BY DEF HandleGetAssertion, Handling
<1>2. /\ server \in ServerType /\ server.at = "handling" /\ server.call = NoCall
      /\ r \in CtapRequests /\ r.cmd = "getAssertion" /\ server.user = "none"
      /\ r.allow \in Lists
  BY <1>1, HandlingFacts, RequestFacts
<1>3. ASSUME NEW status \in Statuses, Respond(status), UNCHANGED <<prompt, waiters, calls>>
      PROVE  IInv'
  BY <1>1, <1>2, <1>3, RespondStep
<1>4. {"InvalidOption", "NoCredentials", "OperationDenied"} \subseteq Statuses
  BY DEF Statuses
<1>5. ASSUME r.allow # <<>>, NEW ok \in TrialOutcomes(r.allow, r.rp),
             FirstSigning(r.allow, ok) # NoCred,
             VerifyUser([server EXCEPT !.cred = FirstSigning(r.allow, ok)])
      PROVE  IInv'
  <2> DEFINE cred == FirstSigning(r.allow, ok)
             s == [server EXCEPT !.cred = cred]
  <2>1. ok \in [DOMAIN r.allow -> BOOLEAN]
        /\ \A i \in DOMAIN r.allow : ok[i] \in SignASN1(r.allow[i], r.rp)
    BY DEF TrialOutcomes
  <2>2. PICK i \in DOMAIN r.allow : ok[i] /\ cred = r.allow[i]
    BY <1>2, <1>5, <2>1, FirstSigningFinds
  <2>3. cred \in CredIDs
    BY <1>2, <2>2, ListFacts
  <2>4. ok[i] = TRUE /\ TRUE \in SignASN1(cred, r.rp)
    BY <2>1, <2>2
  <2>5. Owns(cred, r.rp)
    BY <2>4, SignsIfOwned
  <2>6. /\ s \in ServerType /\ s.at = "handling" /\ s.call = NoCall /\ s.request = r
        /\ s.cred = cred /\ s.user = "none"
    BY <1>2, <2>3 DEF ServerType
  <2>7. VerifyUser(s)
    BY <1>5
  <2> HIDE DEF s, cred
  <2>8. Chosen(s)
    BY <1>5, <2>5, <2>6 DEF Chosen
  <2> QED BY <1>1, <1>2, <2>6, <2>7, <2>8, VerifyUserStep
<1>6. ASSUME r.allow = <<>>, FindByRPID(r.rp) # {},
             VerifyUser([server EXCEPT !.cred = store[First(FindByRPID(r.rp))].cred,
                                       !.user = store[First(FindByRPID(r.rp))].user])
      PROVE  IInv'
  <2> DEFINE i == First(FindByRPID(r.rp))
             s == [server EXCEPT !.cred = store[i].cred, !.user = store[i].user]
  <2>1. /\ i \in DOMAIN store /\ store[i].rp = r.rp
        /\ \A j \in DOMAIN store : store[j].rp = r.rp => store[i].cred <= store[j].cred
    BY <1>6, FirstFound
  <2>2. VerifyUser(s)
    BY <1>6
  <2> HIDE DEF i
  <2>3. store[i].cred \in CredIDs /\ store[i].user \in Users
    BY <2>1, StoreEntry
  <2>4. /\ s \in ServerType /\ s.at = "handling" /\ s.call = NoCall /\ s.request = r
        /\ s.cred = store[i].cred /\ s.user = store[i].user
    BY <1>2, <2>3 DEF ServerType
  <2> HIDE DEF s
  <2>5. /\ s.cred \in DOMAIN created
        /\ created[s.cred].rk
        /\ created[s.cred].rp = r.rp
        /\ created[s.cred].user = s.user
    BY <2>1, <2>4 DEF IInv, StoreInv
  <2>6. ASSUME ~StoreFails, NEW c \in DOMAIN created, created[c].rk, created[c].heard,
               created[c].rp = r.rp
        PROVE  s.cred <= c
    <3>1. PICK j \in DOMAIN store : store[j].cred = c
      BY <2>6 DEF IInv, StoreInv
    <3>2. store[j].rp = r.rp
      BY <2>6, <3>1 DEF IInv, StoreInv
    <3> QED BY <2>1, <2>4, <3>1, <3>2
  <2>7. Chosen(s)
    BY <1>6, <2>4, <2>5, <2>6 DEF Chosen
  <2> QED BY <1>1, <1>2, <2>2, <2>4, <2>7, VerifyUserStep
<1>7. CASE RejectsUV /\ Respond("InvalidOption") /\ UNCHANGED <<prompt, waiters, calls>>
  BY <1>3, <1>4, <1>7
<1>8. CASE /\ r.allow # <<>>
           /\ \E ok \in TrialOutcomes(r.allow, r.rp) :
                LET cred == FirstSigning(r.allow, ok) IN
                IF cred = NoCred
                THEN Respond("NoCredentials") /\ UNCHANGED <<prompt, waiters, calls>>
                ELSE VerifyUser([server EXCEPT !.cred = cred])
  BY <1>3, <1>4, <1>5, <1>8
<1>9. CASE /\ r.allow = <<>>
           /\ \/ Respond("OperationDenied") /\ UNCHANGED <<prompt, waiters, calls>>
              \/ Respond("NoCredentials") /\ UNCHANGED <<prompt, waiters, calls>>
              \/ /\ FindByRPID(r.rp) # {}
                 /\ LET entry == store[First(FindByRPID(r.rp))] IN
                    VerifyUser([server EXCEPT !.cred = entry.cred, !.user = entry.user])
  BY <1>3, <1>4, <1>6, <1>9
<1> QED BY <1>7, <1>8, <1>9 DEF HandleGetAssertion

-----------------------------------------------------------------------------
\* The verifier.
LEMMA PromptEndsStep ==
  ASSUME IInv, UNCHANGED <<setup, lost>>, NEW result \in {"ok", "denied", "noMatch"},
         PromptEnds(result)
  PROVE  IInv'
<1>1. server' = server /\ created' = created /\ store' = store
  BY DEF PromptEnds
<1>2. HandlerInv' /\ StoreInv' /\ ChosenInv'
  BY <1>1, GoesOn DEF IInv, HandlerInv, ChosenInv
<1>3. calls' \in [Calls -> CallStates]
  BY DEF PromptEnds, IInv, TypeOK, CallStates
<1>4. waiters' \in Seq(Calls) /\ prompt' \in {"none", "shown", "closing"}
  BY DEF PromptEnds
<1>5. touchAge' \in {0, touchAge} /\ touchAge \in 0 .. TTL /\ cacheAge \in 0 .. TTL
  BY DEF PromptEnds, IInv, TypeOK
<1>6. touchAge' \in 0 .. TTL /\ 0 <= cacheAge
  BY <1>5, Ctap2Assumption
<1>7. TypeOK'
  BY <1>2, <1>3, <1>4, <1>6, TypeFromParts DEF PromptEnds, IInv, TypeOK, ResponseType
<1>8. \A k \in Calls : calls'[k] = calls[k] \/ calls'[k] = result
  BY DEF PromptEnds, IInv, TypeOK
<1>9. ASSUME NEW k \in Calls, calls'[k] = "ok"
      PROVE  touchAge' = 0
  BY <1>5, <1>8, <1>9 DEF PromptEnds, IInv, FreshInv
<1>10. ASSUME NEW k \in Calls, calls'[k] = "gotOk"
       PROVE  touchAge' = 0 /\ server'.call = k
  BY <1>1, <1>5, <1>8, <1>10 DEF IInv, FreshInv
<1>11. touchAge' <= cacheAge' /\ (server'.at = "verified" => touchAge' < TTL)
  BY <1>1, <1>5, <1>6, Ctap2Assumption DEF PromptEnds, IInv, FreshInv
<1>12. FreshInv'
  BY <1>9, <1>10, <1>11 DEF FreshInv
<1> QED BY <1>2, <1>7, <1>12 DEF IInv

\* The dialog is free again.
LEMMA DialogClearedStep ==
  ASSUME IInv, UNCHANGED <<setup, lost>>, DialogCleared
  PROVE  IInv'
<1>1. HandlerInv' /\ StoreInv' /\ ChosenInv'
  BY GoesOn DEF DialogCleared, IInv, HandlerInv, ChosenInv
<1>2. TypeOK'
  BY <1>1, TypeFromParts DEF DialogCleared, IInv, TypeOK, CallStates, ResponseType
<1>3. FreshInv'
  BY DEF DialogCleared, IInv, FreshInv
<1> QED BY <1>1, <1>2, <1>3 DEF IInv

\* A verification ends.
LEMMA GoroutineEndsStep ==
  ASSUME IInv, UNCHANGED <<setup, lost>>, NEW k \in Calls, GoroutineEnds(k)
  PROVE  IInv'
<1>1. server' = server /\ created' = created /\ store' = store /\ touchAge' = touchAge
  BY DEF GoroutineEnds
<1>2. HandlerInv' /\ StoreInv' /\ ChosenInv'
  BY <1>1, GoesOn DEF IInv, HandlerInv, ChosenInv
<1>3. /\ calls[k] = "ok" => calls'[k] \in {"free", "gotOk"}
      /\ calls'[k] \in {"free", "gotOk", "gotDenied", "gotNoMatch"}
      /\ calls'[k] = "gotOk" => calls[k] = "ok" /\ server.call = k
      /\ \A j \in Calls \ {k} : calls'[j] = calls[j]
      /\ DOMAIN calls' = Calls
  BY DEF GoroutineEnds, IInv, TypeOK, Got
<1>4. calls' = [j \in Calls |-> calls'[j]]
  BY DEF GoroutineEnds, IInv, TypeOK
<1>5. \A j \in Calls : calls'[j] \in CallStates
  BY <1>3 DEF IInv, TypeOK, CallStates
<1>6. calls' \in [Calls -> CallStates]
  BY <1>4, <1>5
<1>7. cacheAge' \in {0, cacheAge} /\ (cacheAge' # cacheAge => calls[k] = "ok")
  BY DEF GoroutineEnds, Caches
<1>8. cacheAge \in 0 .. TTL /\ touchAge \in 0 .. TTL /\ 0 \in 0 .. TTL
  BY Ctap2Assumption DEF IInv, TypeOK
<1>9. TypeOK'
  BY <1>1, <1>2, <1>6, <1>7, <1>8, TypeFromParts DEF GoroutineEnds, IInv, TypeOK, ResponseType
<1>10. touchAge' <= cacheAge'
  <2>1. CASE cacheAge' = cacheAge
    BY <1>1, <2>1 DEF IInv, FreshInv
  <2>2. CASE cacheAge' = 0 /\ calls[k] = "ok"
    BY <1>1, <2>2 DEF IInv, FreshInv
  <2> QED BY <1>7, <2>1, <2>2
<1>11. \A j \in Calls : calls'[j] = "ok" => touchAge' = 0
  BY <1>1, <1>3 DEF IInv, FreshInv
<1>12. \A j \in Calls : calls'[j] = "gotOk" => touchAge' = 0 /\ server'.call = j
  BY <1>1, <1>3 DEF IInv, FreshInv
<1>13. server'.at = "verified" => touchAge' < TTL
  BY <1>1 DEF IInv, FreshInv
<1>14. FreshInv'
  BY <1>10, <1>11, <1>12, <1>13 DEF FreshInv
<1> QED BY <1>2, <1>9, <1>14 DEF IInv

\* Ages grow up to the time the cache keeps a verification for, and in step.
LEMMA OlderFacts ==
  ASSUME NEW age \in 0 .. TTL
  PROVE  Older(age) \in 0 .. TTL /\ (\A n \in 0 .. TTL : n <= age => Older(n) <= Older(age))
BY Ctap2Assumption DEF Older

\* Time passes only when no positive result is on its way and no handler is at work, so
\* that none of them grows older than a tick.
LEMMA TickStep ==
  ASSUME IInv, UNCHANGED <<setup, lost>>, Tick
  PROVE  IInv'
<1>1. /\ server.at \notin {"handling", "verified"}
      /\ server.at = "waiting" => server.left # 0
      /\ server.at = "waiting" => calls[server.call] # "gotOk"
      /\ \A k \in Calls : calls[k] # "ok"
  BY DEF Tick, Urgent
<1>2. server \in ServerType /\ (server.at # "idle" => server.request \in CtapRequests)
      /\ (server.at = "waiting" <=> server.call # NoCall)
  BY DEF IInv, HandlerInv
<1>3. HandlerInv' /\ StoreInv' /\ ChosenInv'
  <2>1. CASE server.at = "waiting"
    <3> DEFINE t == [server EXCEPT !.left = server.left - 1]
    <3>1. server.left \in 0 .. HandlerWait /\ server.left # 0
      BY <1>1, <1>2, <2>1 DEF ServerType
    <3>2. server.left - 1 \in 0 .. HandlerWait
      BY <3>1, Ctap2Assumption
    <3>3. /\ t \in ServerType /\ t.at = "waiting" /\ t.call = server.call
          /\ t.request = server.request /\ t.cred = server.cred /\ t.user = server.user
      BY <1>2, <2>1, <3>2 DEF ServerType
    <3>4. server' = t
      BY <2>1 DEF Tick
    <3> HIDE DEF t
    <3>5. Chosen(t)
      BY <2>1, <3>3 DEF IInv, ChosenInv, Chosen
    <3>6. t.request.cmd = "makeCredential" => Len(created) < MaxCreds
      BY <2>1, <3>3 DEF IInv, HandlerInv
    <3> QED BY <1>2, <2>1, <3>3, <3>4, <3>5, <3>6, GoesOn DEF Tick
  <2>2. CASE server.at # "waiting"
    BY <2>2, GoesOn DEF Tick, IInv, HandlerInv, ChosenInv
  <2> QED BY <2>1, <2>2
<1>4. cacheAge \in 0 .. TTL /\ touchAge \in 0 .. TTL /\ touchAge <= cacheAge
  BY DEF IInv, TypeOK, FreshInv
<1>5. cacheAge' \in 0 .. TTL /\ touchAge' \in 0 .. TTL /\ touchAge' <= cacheAge'
  BY <1>4, OlderFacts DEF Tick
<1>6. TypeOK'
  BY <1>3, <1>5, TypeFromParts DEF Tick, IInv, TypeOK, CallStates, ResponseType
<1>7. \A k \in Calls : calls[k] # "gotOk"
  BY <1>1, <1>2, Ctap2Assumption DEF IInv, FreshInv, NoCall
<1>8. server'.at # "verified"
  BY <1>1, <1>2 DEF Tick, ServerType
<1>9. FreshInv'
  BY <1>1, <1>5, <1>7, <1>8 DEF Tick, FreshInv
<1> QED BY <1>3, <1>6, <1>9 DEF IInv

-----------------------------------------------------------------------------
\* The result of the verification reaches its handler, or does not.
LEMMA HearsOkStep ==
  ASSUME IInv, UNCHANGED <<setup, lost>>, HearsOk
  PROVE  IInv'
<1> DEFINE t == [server EXCEPT !.at = "verified", !.call = NoCall, !.left = 0]
<1>1. /\ server.at = "waiting" /\ server \in ServerType /\ server.request \in CtapRequests
      /\ server.call \in Calls /\ calls[server.call] = "gotOk"
  <2>1. server.at = "waiting" /\ server \in ServerType /\ calls[server.call] = "gotOk"
    BY DEF HearsOk, Hear, IInv, HandlerInv
  <2>2. server.call \in Calls
    BY <2>1 DEF IInv, HandlerInv, ServerType
  <2> QED BY <2>1, <2>2 DEF IInv, HandlerInv
<1>2. /\ t \in ServerType /\ t.at = "verified" /\ t.call = NoCall
      /\ t.request = server.request /\ t.cred = server.cred /\ t.user = server.user
  <2>1. 0 \in 0 .. HandlerWait
    BY Ctap2Assumption
  <2> QED BY <1>1, <2>1 DEF ServerType
<1>3. server' = t /\ calls' = [calls EXCEPT ![server.call] = "free"]
  BY DEF HearsOk, Hear
<1> HIDE DEF t
<1>4. Chosen(t)
  BY <1>1, <1>2 DEF IInv, ChosenInv, Chosen
<1>5. t.request.cmd = "makeCredential" => Len(created) < MaxCreds
  BY <1>1, <1>2 DEF IInv, HandlerInv
<1>6. HandlerInv' /\ StoreInv' /\ ChosenInv'
  BY <1>1, <1>2, <1>3, <1>4, <1>5, GoesOn DEF HearsOk, Hear
<1>7. calls' \in [Calls -> CallStates]
  BY <1>3 DEF IInv, TypeOK, CallStates
<1>8. TypeOK'
  BY <1>6, <1>7, TypeFromParts DEF HearsOk, Hear, IInv, TypeOK, ResponseType
<1>9. touchAge = 0
  BY <1>1 DEF IInv, FreshInv
<1>10. \A k \in Calls : calls'[k] # "gotOk"
  BY <1>1, <1>3 DEF IInv, FreshInv, TypeOK
<1>11. FreshInv'
  BY <1>9, <1>10, Ctap2Assumption DEF HearsOk, Hear, IInv, FreshInv
<1> QED BY <1>6, <1>8, <1>11 DEF IInv

\* The handler hears that the user was not verified,
LEMMA HearsFailureStep ==
  ASSUME IInv, UNCHANGED <<setup, lost>>, HearsFailure
  PROVE  IInv'
<1>1. PICK status \in Statuses : Respond(status)
  BY DEF HearsFailure, Statuses
<1>2. /\ calls' = [calls EXCEPT ![server.call] = "free"] /\ server.at = "waiting"
      /\ UNCHANGED <<prompt, waiters, cacheAge, touchAge, created, store>>
  BY DEF HearsFailure, Hear
<1>3. server' = Idle /\ response' \in ResponseType
  BY <1>1, PendingType DEF Respond
<1>4. calls' \in [Calls -> CallStates]
  BY <1>2 DEF IInv, TypeOK, CallStates
<1>5. \A k \in Calls : calls'[k] # "gotOk" /\ (calls'[k] = "ok" => calls[k] = "ok")
  BY <1>2 DEF IInv, TypeOK, FreshInv
<1> QED BY <1>2, <1>3, <1>4, <1>5, IdleStep

\* or hears nothing in time.
LEMMA TimesOutStep ==
  ASSUME IInv, UNCHANGED <<setup, lost>>, TimesOut
  PROVE  IInv'
<1>1. "UserActionTimeout" \in Statuses
  BY DEF Statuses
<1>2. server' = Idle /\ response' \in ResponseType
  BY <1>1, PendingType DEF TimesOut, Respond
<1>3. calls' \in [Calls -> CallStates]
  BY DEF TimesOut, IInv, TypeOK, CallStates
<1>4. \A k \in Calls : calls'[k] # "gotOk" /\ (calls'[k] = "ok" => calls[k] = "ok")
  <2>1. ASSUME NEW k \in Calls
        PROVE  /\ k # server.call => calls'[k] = calls[k]
               /\ k = server.call => calls'[k] = (IF calls[k] \in {"gotOk", "gotDenied", "gotNoMatch"}
                                                 THEN "free" ELSE calls[k])
    BY DEF TimesOut, IInv, TypeOK
  <2>2. \A k \in Calls : calls[k] = "gotOk" => server.call = k
    BY DEF IInv, FreshInv
  <2> QED BY <2>1, <2>2
<1> QED BY <1>2, <1>3, <1>4, IdleStep DEF TimesOut

-----------------------------------------------------------------------------
\* A key is made, and its entry is saved or is not: the store goes on telling the truth
\* about it, and misses it only if the site does not know of it or the store fails.
LEMMA KeyIsMade ==
  ASSUME IInv, UNCHANGED setup, Len(created) < MaxCreds,
         NEW r \in CtapRequests, r.cmd = "makeCredential", NEW heard \in BOOLEAN,
         RegisterKey(r, heard),
         \/ store' = Save([cred |-> Len(created) + 1, rp |-> r.rp, user |-> r.user]) /\ r.rk
         \/ UNCHANGED store /\ (r.rk /\ heard => StoreFails)
  PROVE  /\ StoreInv'
         /\ created' \in Seq([rp : RPs, user : Users, rk : BOOLEAN, heard : BOOLEAN])
         /\ Len(created') = Len(created) + 1
         /\ store' \in Seq([cred : CredIDs, rp : RPs, user : Users])
         /\ Len(created) + 1 \in CredIDs
<1> DEFINE Key == [rp : RPs, user : Users, rk : BOOLEAN, heard : BOOLEAN]
           Entry == [cred : CredIDs, rp : RPs, user : Users]
           key == [rp |-> r.rp, user |-> r.user, rk |-> r.rk, heard |-> heard]
           id == Len(created) + 1
           entry == [cred |-> id, rp |-> r.rp, user |-> r.user]
<1>1. created \in Seq(Key) /\ store \in Seq(Entry)
  BY DEF IInv, TypeOK
<1>2. r.rp \in RPs /\ r.user \in Users /\ r.rk \in BOOLEAN
  BY RequestFacts
<1>3. /\ key \in Key /\ key.rp = r.rp /\ key.user = r.user /\ key.rk = r.rk /\ key.heard = heard
  BY <1>2
<1>4. Len(created) \in Nat /\ id \in CredIDs
  BY <1>1, Ctap2Assumption DEF CredIDs
<1>5. entry \in Entry /\ entry.cred = id /\ entry.rp = r.rp /\ entry.user = r.user
  BY <1>2, <1>4
<1>6. created' = Append(created, key)
  BY DEF RegisterKey
<1>7. \A i \in DOMAIN store : store[i].cred \in DOMAIN created /\ store[i].cred # id
  <2>1. DOMAIN created = 1 .. Len(created)
    BY <1>1
  <2> QED BY <1>4, <2>1 DEF IInv, StoreInv
<1>8. \/ store' = Append(store, entry) /\ r.rk
      \/ UNCHANGED store /\ (r.rk /\ heard => StoreFails)
  BY <1>7 DEF Save
<1> HIDE DEF Key, Entry, key, entry
<1>9. created' \in Seq(Key) /\ Len(created') = id
  BY <1>1, <1>3, <1>6
<1>10. store' \in Seq(Entry)
  BY <1>1, <1>5, <1>8
<1>11. /\ DOMAIN created' = DOMAIN created \cup {id}
       /\ \A c \in DOMAIN created : created'[c] = created[c]
       /\ created'[id] = key
  BY <1>1, <1>3, <1>6
<1>12. ASSUME NEW i \in DOMAIN store'
       PROVE  \/ i \in DOMAIN store /\ store'[i] = store[i]
              \/ i = Len(store) + 1 /\ store'[i] = entry /\ r.rk
  BY <1>1, <1>5, <1>8, <1>12
<1>13. ASSUME NEW i \in DOMAIN store'
       PROVE  /\ store'[i].cred \in DOMAIN created'
              /\ created'[store'[i].cred].rk
              /\ created'[store'[i].cred].rp = store'[i].rp
              /\ created'[store'[i].cred].user = store'[i].user
  <2>1. CASE i \in DOMAIN store /\ store'[i] = store[i]
    BY <2>1, <1>11 DEF IInv, StoreInv
  <2>2. CASE store'[i] = entry /\ r.rk
    BY <2>2, <1>3, <1>5, <1>11
  <2> QED BY <1>12, <2>1, <2>2
<1>14. ASSUME NEW i \in DOMAIN store', NEW j \in DOMAIN store', i < j
       PROVE  store'[i].cred < store'[j].cred
  <2>1. /\ DOMAIN store = 1 .. Len(store) /\ Len(store) \in Nat
        /\ DOMAIN created = 1 .. Len(created)
        /\ DOMAIN store' \subseteq 1 .. Len(store) + 1
    BY <1>1, <1>8
  <2>2. i \in DOMAIN store /\ store'[i] = store[i]
    BY <1>12, <1>14, <2>1
  <2>3. CASE j \in DOMAIN store /\ store'[j] = store[j]
    BY <1>14, <2>2, <2>3 DEF IInv, StoreInv
  <2>4. CASE store'[j] = entry
    <3>1. store[i].cred \in 1 .. Len(created)
      BY <1>7, <2>1, <2>2
    <3> QED BY <1>4, <1>5, <2>2, <2>4, <3>1
  <2> QED BY <1>12, <2>3, <2>4
<1>15. ASSUME ~StoreFails, NEW c \in DOMAIN created', created'[c].rk, created'[c].heard
       PROVE  \E i \in DOMAIN store' : store'[i].cred = c
  <2>1. CASE c \in DOMAIN created
    <3>1. PICK i \in DOMAIN store : store[i].cred = c
      BY <1>11, <1>15, <2>1 DEF IInv, StoreInv
    <3>2. CASE store' = Append(store, entry)
      <4>1. i \in DOMAIN store' /\ store'[i] = store[i]
        BY <1>1, <1>5, <3>2
      <4> QED BY <3>1, <4>1
    <3> QED BY <1>8, <3>1, <3>2
  <2>2. CASE c = id
    <3>1. store' = Append(store, entry)
      BY <1>3, <1>8, <1>11, <1>15, <2>2
    <3>2. Len(store) + 1 \in DOMAIN store' /\ store'[Len(store) + 1] = entry
      BY <1>1, <1>5, <3>1
    <3> QED BY <1>5, <2>2, <3>2
  <2> QED BY <1>11, <2>1, <2>2
<1>16. StoreInv'
  <2>1. StoreFails' <=> StoreFails
    BY DEF StoreFails
  <2> QED BY <1>13, <1>14, <1>15, <2>1 DEF StoreInv
<1> QED BY <1>4, <1>9, <1>10, <1>16 DEF Key, Entry

\* The handler has been told of a consent and makes a credential,
LEMMA FinishMakeCredentialStep ==
  ASSUME IInv, UNCHANGED <<setup, lost>>, FinishMakeCredential
  PROVE  IInv'
<1> DEFINE r == server.request
<1>1. /\ server.at = "verified" /\ r.cmd = "makeCredential"
      /\ UNCHANGED <<prompt, waiters, calls, cacheAge, touchAge>>
  BY DEF FinishMakeCredential, Verified
<1>2. r \in CtapRequests /\ Len(created) < MaxCreds /\ server.user \in Users \cup {"none"}
  BY <1>1 DEF IInv, HandlerInv, ServerType
<1>3. ASSUME NEW status \in Statuses, Respond(status), UNCHANGED <<created, store>>
      PROVE  IInv'
  BY <1>1, <1>3, RespondStep
<1>4. {"CredentialExcluded", "OperationDenied"} \subseteq Statuses
  BY DEF Statuses
<1>5. CASE Register(r)
  <2>1. RegisterKey(r, TRUE) /\ server' = Idle
    BY <1>5 DEF Register, KeyAndEntry, RespondOK
  <2>2. \/ store' = Save([cred |-> Len(created) + 1, rp |-> r.rp, user |-> r.user]) /\ r.rk
        \/ UNCHANGED store /\ (r.rk /\ TRUE => StoreFails)
    BY <1>5 DEF Register, KeyAndEntry
  <2>3. /\ StoreInv'
        /\ created' \in Seq([rp : RPs, user : Users, rk : BOOLEAN, heard : BOOLEAN])
        /\ Len(created') = Len(created) + 1
        /\ store' \in Seq([cred : CredIDs, rp : RPs, user : Users])
        /\ Len(created) + 1 \in CredIDs
    BY <1>1, <1>2, <2>1, <2>2, KeyIsMade
  <2>4. Idle.at = "idle" /\ Idle.call = NoCall
    BY DEF Idle
  <2>5. HandlerInv'
    BY <2>1, <2>4, IdleType DEF HandlerInv
  <2>6. response' \in ResponseType
    BY <1>2, <1>5, <2>3 DEF Register, RespondOK, ResponseType, Statuses, PerformsUV
  <2>7. lost' \in 0 .. Len(created')
    BY <2>3 DEF IInv, TypeOK
  <2>8. TypeOK'
    BY <1>1, <2>3, <2>5, <2>6, <2>7, TypeFromParts DEF IInv, TypeOK, CallStates
  <2>9. \A k \in Calls : calls[k] # "gotOk"
    BY <1>1, Ctap2Assumption DEF IInv, HandlerInv, FreshInv, NoCall
  <2>10. FreshInv'
    BY <1>1, <2>1, <2>4, <2>9 DEF IInv, FreshInv
  <2>11. ChosenInv'
    BY <2>1, <2>4 DEF ChosenInv
  <2> QED BY <2>3, <2>5, <2>8, <2>10, <2>11 DEF IInv
<1> QED BY <1>3, <1>4, <1>5 DEF FinishMakeCredential

\* or signs.
LEMMA FinishGetAssertionStep ==
  ASSUME IInv, UNCHANGED <<setup, lost>>, FinishGetAssertion
  PROVE  IInv'
<1>1. /\ server.at = "verified"
      /\ UNCHANGED <<prompt, waiters, calls, cacheAge, touchAge, created, store>>
  BY DEF FinishGetAssertion, Verified
<1>2. CASE RespondOK(server.cred)
  <2>1. server.cred \in CredIDs \cup {NoCred} /\ server.user \in Users \cup {"none"}
    BY DEF IInv, TypeOK
  <2>2. server' = Idle /\ response' \in ResponseType
    BY <1>2, <2>1 DEF RespondOK, ResponseType, Statuses, PerformsUV
  <2>3. calls' \in [Calls -> CallStates]
    BY <1>1 DEF IInv, TypeOK, CallStates
  <2>4. \A k \in Calls : calls'[k] # "gotOk" /\ (calls'[k] = "ok" => calls[k] = "ok")
    BY <1>1, Ctap2Assumption DEF IInv, HandlerInv, FreshInv, NoCall
  <2> QED BY <1>1, <2>2, <2>3, <2>4, IdleStep
<1>3. CASE Respond("OperationDenied")
  <2>1. "OperationDenied" \in Statuses
    BY DEF Statuses
  <2> QED BY <1>1, <1>3, <2>1, RespondStep
<1> QED BY <1>2, <1>3 DEF FinishGetAssertion

-----------------------------------------------------------------------------
\* The process dies, whatever has become of the keys and the store in the same step.
LEMMA DiesStep ==
  ASSUME IInv, UNCHANGED setup, Dies, StoreInv',
         created' \in Seq([rp : RPs, user : Users, rk : BOOLEAN, heard : BOOLEAN]),
         Len(created') >= Len(created),
         store' \in Seq([cred : CredIDs, rp : RPs, user : Users])
  PROVE  IInv'
<1>1. /\ prompt' = "none" /\ waiters' = <<>> /\ calls' = [k \in Calls |-> "free"]
      /\ cacheAge' = TTL /\ server' = Idle /\ response' = Pending /\ touchAge' = touchAge
  BY DEF Dies, Started
<1>2. Idle.at = "idle" /\ Idle.call = NoCall
  BY DEF Idle
<1>3. HandlerInv'
  BY <1>1, <1>2, IdleType DEF HandlerInv
<1>4. response' \in ResponseType
  BY <1>1 DEF Pending, ResponseType
<1>5. calls' \in [Calls -> CallStates]
  BY <1>1 DEF CallStates
<1>6. lost' \in 0 .. Len(created')
  BY DEF Dies, IInv, TypeOK
<1>7. touchAge \in 0 .. TTL /\ TTL \in 0 .. TTL
  BY Ctap2Assumption DEF IInv, TypeOK
<1>8. TypeOK'
  BY <1>1, <1>3, <1>4, <1>5, <1>6, <1>7, TypeFromParts DEF IInv
<1>9. FreshInv'
  BY <1>1, <1>2, <1>7 DEF FreshInv
<1>10. ChosenInv'
  BY <1>1, <1>2 DEF ChosenInv
<1> QED BY <1>3, <1>8, <1>9, <1>10 DEF IInv

\* The process starts afresh.
LEMMA RestartStep ==
  ASSUME IInv, UNCHANGED setup, Restart
  PROVE  IInv'
<1>1. StoreInv'
  BY StoreStays DEF Restart, IInv
<1> QED BY <1>1, DiesStep DEF Restart, IInv, TypeOK

\* It dies between storing a credential and answering.
LEMMA DiesRegisteringStep ==
  ASSUME IInv, UNCHANGED setup, DiesRegistering
  PROVE  IInv'
<1> DEFINE r == server.request
<1>1. r \in CtapRequests /\ r.cmd = "makeCredential" /\ Len(created) < MaxCreds
  BY DEF DiesRegistering, IInv, HandlerInv
<1>2. RegisterKey(r, FALSE) /\ Dies
  BY DEF DiesRegistering, KeyAndEntry
<1>3. \/ store' = Save([cred |-> Len(created) + 1, rp |-> r.rp, user |-> r.user]) /\ r.rk
      \/ UNCHANGED store /\ (r.rk /\ FALSE => StoreFails)
  BY DEF DiesRegistering, KeyAndEntry
<1>4. /\ StoreInv'
      /\ created' \in Seq([rp : RPs, user : Users, rk : BOOLEAN, heard : BOOLEAN])
      /\ Len(created') = Len(created) + 1
      /\ store' \in Seq([cred : CredIDs, rp : RPs, user : Users])
  BY <1>1, <1>2, <1>3, KeyIsMade
<1>5. Len(created) \in Nat
  BY DEF IInv, TypeOK
<1> QED BY <1>2, <1>4, <1>5, DiesStep

-----------------------------------------------------------------------------
\* The invariant holds at first,
LEMMA IInvInit == Init => IInv
<1> SUFFICES ASSUME Init PROVE IInv
  OBVIOUS
<1>1. /\ prompt = "none" /\ waiters = <<>> /\ calls = [k \in Calls |-> "free"]
      /\ cacheAge = TTL /\ server = Idle /\ response = Pending
  BY DEF Init, Started
<1>2. Idle.at = "idle" /\ Idle.call = NoCall /\ Idle \in ServerType
  BY IdleType DEF Idle
<1>3. HandlerInv
  BY <1>1, <1>2 DEF HandlerInv
<1>4. /\ server.call \in Calls \cup {NoCall} /\ server.left \in 0 .. HandlerWait
      /\ server.cred \in CredIDs \cup {NoCred} /\ server.user \in Users \cup {"none"}
  BY <1>1, <1>2 DEF ServerType
<1>5. setup \in SetupType /\ TTL \in 0 .. TTL /\ touchAge = TTL
  BY Ctap2Assumption DEF Init
<1>6. TypeOK
  BY <1>1, <1>2, <1>4, <1>5 DEF Init, TypeOK, Pending
<1>7. FreshInv
  BY <1>1, <1>2, <1>5 DEF FreshInv
<1>8. StoreInv
  BY DEF Init, StoreInv
<1>9. ChosenInv
  BY <1>1, <1>2 DEF ChosenInv
<1> QED BY <1>3, <1>6, <1>7, <1>8, <1>9 DEF IInv

\* and every step keeps it.
LEMMA IInvStep == IInv /\ [Next]_vars => IInv'
<1> SUFFICES ASSUME IInv, [Next]_vars PROVE IInv'
  OBVIOUS
<1>1. CASE UNCHANGED setup /\ Serve /\ UNCHANGED lost
  <2>1. UNCHANGED <<setup, lost>>
    BY <1>1
  <2>2. CASE \E request \in CtapRequests : Receive(request)
    BY <2>1, <2>2, ReceiveStep
  <2>3. CASE HandleOther
    BY <2>1, <2>3, HandleOtherStep
  <2>4. CASE HandleMakeCredential
    BY <2>1, <2>4, HandleMakeCredentialStep
  <2>5. CASE HandleGetAssertion
    BY <2>1, <2>5, HandleGetAssertionStep
  <2>6. CASE HearsOk
    BY <2>1, <2>6, HearsOkStep
  <2>7. CASE HearsFailure
    BY <2>1, <2>7, HearsFailureStep
  <2>8. CASE TimesOut
    BY <2>1, <2>8, TimesOutStep
  <2>9. CASE FinishMakeCredential
    BY <2>1, <2>9, FinishMakeCredentialStep
  <2>10. CASE FinishGetAssertion
    BY <2>1, <2>10, FinishGetAssertionStep
  <2>11. CASE \E result \in {"ok", "denied", "noMatch"} : PromptEnds(result)
    BY <2>1, <2>11, PromptEndsStep
  <2>12. CASE DialogCleared
    BY <2>1, <2>12, DialogClearedStep
  <2>13. CASE \E k \in Calls : GoroutineEnds(k)
    BY <2>1, <2>13, GoroutineEndsStep
  <2>14. CASE Tick
    BY <2>1, <2>14, TickStep
  <2> QED BY <1>1, <2>2, <2>3, <2>4, <2>5, <2>6, <2>7, <2>8, <2>9, <2>10, <2>11, <2>12,
             <2>13, <2>14 DEF Serve
<1>2. CASE UNCHANGED setup /\ Restart
  BY <1>2, RestartStep
<1>3. CASE UNCHANGED setup /\ DiesRegistering
  BY <1>3, DiesRegisteringStep
<1>4. CASE UNCHANGED vars
  <2>1. UNCHANGED <<setup, prompt, waiters, calls, cacheAge, touchAge, server, created, lost,
                    store, response>>
    BY <1>4 DEF vars, volatile
  <2>2. HandlerInv' /\ StoreInv' /\ ChosenInv'
    BY <2>1, GoesOn DEF IInv, HandlerInv, ChosenInv
  <2>3. TypeOK'
    BY <2>1, <2>2, TypeFromParts DEF IInv, TypeOK, CallStates, ResponseType
  <2>4. FreshInv'
    BY <2>1 DEF IInv, FreshInv
  <2> QED BY <2>2, <2>3, <2>4 DEF IInv
<1> QED BY <1>1, <1>2, <1>3, <1>4 DEF Next

\* The inductive invariant.
THEOREM ServerCorrect == Spec => []IInv
BY IInvInit, IInvStep, PTL DEF Spec

\* The type invariant.
THEOREM TypeCorrect == Spec => []TypeOK
<1>1. IInv => TypeOK
  BY DEF IInv
<1> QED BY <1>1, ServerCorrect, PTL

-----------------------------------------------------------------------------
\* Which action an answer comes from.
LEMMA AnswerComesFrom ==
  ASSUME [Next]_vars, NEW status, Answers(status), status # "pending"
  PROVE  /\ UNCHANGED <<setup, lost>>
         /\ \/ HandleOther
            \/ HandleMakeCredential /\ status \in {"InvalidOption", "OperationDenied"}
            \/ HandleGetAssertion /\ status \in {"InvalidOption", "NoCredentials", "OperationDenied"}
            \/ HearsFailure /\ status \in {"OperationDenied", "UVInvalid"}
            \/ TimesOut /\ status = "UserActionTimeout"
            \/ FinishMakeCredential /\ status \in {"OK", "CredentialExcluded", "OperationDenied"}
            \/ FinishGetAssertion /\ status \in {"OK", "OperationDenied"}
<1>1. Pending.status = "pending" /\ response.status = "pending" /\ response'.status = status
  BY DEF Pending, Answers
<1>2. ~UNCHANGED response /\ response' # Pending
  BY <1>1
<1>3. ASSUME NEW st, Respond(st) PROVE status = st
  BY <1>1, <1>3 DEF Respond, Pending
<1>4. ASSUME NEW cred, RespondOK(cred) PROVE status = "OK"
  BY <1>1, <1>4 DEF RespondOK
<1>5. ASSUME NEW s, VerifyUser(s) PROVE status = "OperationDenied"
  BY <1>2, <1>3, <1>5 DEF VerifyUser
<1>6. \A request \in CtapRequests : ~Receive(request)
  BY <1>2 DEF Receive
<1>7. /\ ~HearsOk /\ ~(\E result \in {"ok", "denied", "noMatch"} : PromptEnds(result))
      /\ ~DialogCleared /\ ~(\E k \in Calls : GoroutineEnds(k)) /\ ~Tick
  BY <1>2 DEF HearsOk, PromptEnds, DialogCleared, GoroutineEnds, Tick
<1>8. ~Restart /\ ~DiesRegistering /\ ~UNCHANGED vars
  BY <1>2 DEF Restart, DiesRegistering, Dies, Started, vars, volatile
<1>9. HandleMakeCredential => status \in {"InvalidOption", "OperationDenied"}
  BY <1>3, <1>5 DEF HandleMakeCredential
<1>10. HandleGetAssertion => status \in {"InvalidOption", "NoCredentials", "OperationDenied"}
  BY <1>3, <1>5 DEF HandleGetAssertion
<1>11. HearsFailure => status \in {"OperationDenied", "UVInvalid"}
  BY <1>3 DEF HearsFailure
<1>12. TimesOut => status = "UserActionTimeout"
  BY <1>3 DEF TimesOut
<1>13. FinishMakeCredential => status \in {"OK", "CredentialExcluded", "OperationDenied"}
  BY <1>3, <1>4 DEF FinishMakeCredential, Register
<1>14. FinishGetAssertion => status \in {"OK", "OperationDenied"}
  BY <1>3, <1>4 DEF FinishGetAssertion
<1>15. UNCHANGED setup /\ Serve /\ UNCHANGED lost
  BY <1>8 DEF Next
<1> QED BY <1>6, <1>7, <1>9, <1>10, <1>11, <1>12, <1>13, <1>14, <1>15 DEF Serve

\* A success of the two CTAP2 commands comes from the end of their handlers.
LEMMA SuccessComesFrom ==
  ASSUME [Next]_vars, Answers("OK")
  PROVE  /\ Answering("makeCredential") => FinishMakeCredential /\ Register(server.request)
         /\ Answering("getAssertion") =>
              FinishGetAssertion /\ RespondOK(server.cred)
              /\ TRUE \in SignASN1(server.cred, server.request.rp)
<1>1. response'.status = "OK"
  BY DEF Answers
<1>2. ASSUME NEW st, Respond(st) PROVE st = "OK"
  BY <1>1, <1>2 DEF Respond, Pending
<1>3. HandleOther \/ FinishMakeCredential \/ FinishGetAssertion
  BY AnswerComesFrom
<1>4. HandleOther => ~Answering("makeCredential") /\ ~Answering("getAssertion")
  BY DEF HandleOther, Handling, Answering
<1>5. FinishMakeCredential => ~Answering("getAssertion") /\ Register(server.request)
  BY <1>2 DEF FinishMakeCredential, Verified, Answering
<1>6. ASSUME FinishGetAssertion
      PROVE  /\ ~Answering("makeCredential") /\ RespondOK(server.cred)
             /\ TRUE \in SignASN1(server.cred, server.request.rp)
  <2>1. PICK signed \in SignASN1(server.cred, server.request.rp) :
          IF signed THEN RespondOK(server.cred) ELSE Respond("OperationDenied")
    BY <1>6 DEF FinishGetAssertion
  <2>2. signed \in BOOLEAN
    BY DEF SignASN1
  <2>3. signed = TRUE
    BY <1>2, <2>1, <2>2
  <2> QED BY <1>6, <2>1, <2>3 DEF FinishGetAssertion, Verified, Answering
<1> QED BY <1>3, <1>4, <1>5, <1>6

\* Nothing is made, signed or admitted but within the time of a consent.
THEOREM Presence == Spec => PresenceIsFresh
<1>1. ASSUME IInv, [Next]_vars,
             \/ Answers("CredentialExcluded")
             \/ Answers("OK") /\ server.request.cmd \in {"makeCredential", "getAssertion"}
      PROVE  touchAge < TTL
  <2>1. CASE Answers("CredentialExcluded")
    <3>1. HandleOther \/ FinishMakeCredential
      BY <2>1, <1>1, AnswerComesFrom
    <3>2. ~HandleOther
      BY <2>1 DEF HandleOther, Respond, Answers, Pending
    <3> QED BY <1>1, <3>1, <3>2 DEF FinishMakeCredential, Verified, IInv, FreshInv
  <2>2. CASE Answers("OK") /\ server.request.cmd \in {"makeCredential", "getAssertion"}
    <3>1. FinishMakeCredential \/ FinishGetAssertion
      BY <1>1, <2>2, SuccessComesFrom DEF Answering
    <3> QED BY <1>1, <3>1 DEF FinishMakeCredential, FinishGetAssertion, Verified, IInv, FreshInv
  <2> QED BY <1>1, <2>1, <2>2
<1>2. IInv /\ [Next]_vars =>
        [\/ Answers("CredentialExcluded")
         \/ Answers("OK") /\ server.request.cmd \in {"makeCredential", "getAssertion"}
         => touchAge < TTL]_vars
  BY <1>1
<1> QED BY <1>2, ServerCorrect, PTL DEF Spec, PresenceIsFresh

\* An assertion is made with a credential of the site, and names its user or none.
THEOREM RightCredential == Spec => CredentialIsTheRPs
<1>1. ASSUME IInv, [Next]_vars, Answers("OK"), Answering("getAssertion")
      PROVE  LET made == created[response'.cred] IN
             made.rp = server.request.rp /\ response'.user \in {made.user, "none"}
  <2>1. /\ FinishGetAssertion /\ RespondOK(server.cred) /\ Owns(server.cred, server.request.rp)
        /\ server.at = "verified" /\ server.request.cmd = "getAssertion"
    BY <1>1, SuccessComesFrom, SignsIfOwned DEF FinishGetAssertion, Verified
  <2>2. response'.cred = server.cred /\ response'.user = server.user
    BY <2>1 DEF RespondOK
  <2>3. created[server.cred].rp = server.request.rp
    BY <2>1 DEF Owns
  <2>4. server.user \in {created[server.cred].user, "none"}
    BY <1>1, <2>1 DEF IInv, ChosenInv, Chosen
  <2> QED BY <2>2, <2>3, <2>4
<1>2. IInv /\ [Next]_vars =>
        [Answers("OK") /\ Answering("getAssertion") =>
           LET made == created[response'.cred] IN
           /\ made.rp = server.request.rp
           /\ response'.user \in {made.user, "none"}]_vars
  BY <1>1
<1> QED BY <1>2, ServerCorrect, PTL DEF Spec, CredentialIsTheRPs

\* The handlers go through the whole of an exclude list and of an allow list.
THEOREM Searched == Spec => ListsAreSearched
<1> DEFINE owned(list) == {i \in DOMAIN list : Owns(list[i], server.request.rp)}
<1>1. ASSUME ~SignerFails, NEW list \in Lists, NEW ok \in TrialOutcomes(list, server.request.rp),
             FirstSigning(list, ok) = NoCred
      PROVE  owned(list) = {}
  <2>1. ok \in [DOMAIN list -> BOOLEAN]
        /\ \A i \in DOMAIN list : ok[i] \in SignASN1(list[i], server.request.rp)
    BY DEF TrialOutcomes
  <2>2. \A i \in DOMAIN list : ok[i] = FALSE
    <3>1. NoCred \notin CredIDs
      BY DEF NoCred, CredIDs
    <3> QED BY <1>1, <2>1, <3>1, FirstSigningFinds
  <2> QED BY <1>1, <2>1, <2>2 DEF SignASN1
<1>2. ASSUME IInv, [Next]_vars, ~SignerFails, Answers("OK"), Answering("makeCredential")
      PROVE  owned(server.request.exclude) = {}
  <2>1. FinishMakeCredential
    BY <1>2, SuccessComesFrom
  <2>2. server.request.exclude \in Lists
    BY <2>1, <1>2, RequestFacts DEF FinishMakeCredential, Verified, IInv, HandlerInv
  <2>3. PICK ok \in TrialOutcomes(server.request.exclude, server.request.rp) :
          FirstSigning(server.request.exclude, ok) # NoCred => Respond("CredentialExcluded")
    BY <2>1 DEF FinishMakeCredential
  <2>4. ~Respond("CredentialExcluded")
    BY <1>2 DEF Respond, Answers, Pending
  <2> QED BY <1>1, <1>2, <2>2, <2>3, <2>4
<1>3. ASSUME IInv, [Next]_vars, ~SignerFails, Answers("NoCredentials"),
             server.request.allow # <<>>
      PROVE  owned(server.request.allow) = {}
  <2>1. HandleGetAssertion
    <3>1. ~HandleOther
      BY <1>3 DEF HandleOther, Respond, Answers, Pending
    <3> QED BY <1>3, <3>1, AnswerComesFrom
  <2>2. ASSUME NEW st, Respond(st) PROVE st = "NoCredentials"
    BY <1>3, <2>2 DEF Respond, Answers, Pending
  <2>3. ASSUME NEW s PROVE ~VerifyUser(s)
    BY <1>3, <2>2 DEF VerifyUser, Answers
  <2>4. PICK ok \in TrialOutcomes(server.request.allow, server.request.rp) :
          FirstSigning(server.request.allow, ok) = NoCred
    BY <1>3, <2>1, <2>2, <2>3 DEF HandleGetAssertion
  <2>5. server.request.allow \in Lists
    BY <1>3, <2>1, HandlingFacts, RequestFacts DEF HandleGetAssertion
  <2> QED BY <1>1, <1>3, <2>4, <2>5
<1>4. IInv /\ [Next]_vars =>
        [~SignerFails =>
           /\ Answers("OK") /\ Answering("makeCredential") => owned(server.request.exclude) = {}
           /\ Answers("NoCredentials") /\ server.request.allow # <<>> =>
                owned(server.request.allow) = {}]_vars
  BY <1>2, <1>3
<1> QED BY <1>4, ServerCorrect, PTL DEF Spec, ListsAreSearched

\* Nothing that happens later hides the first resident credential of a site.
THEOREM FirstResident == Spec => FirstResidentAnswers
<1> DEFINE own == {i \in DOMAIN created : created[i].rk /\ created[i].rp = server.request.rp}
           heard == {i \in own : created[i].heard}
           Asked == Answering("getAssertion") /\ server.request.allow = <<>> /\ ~StoreFails
<1>1. ASSUME IInv, [Next]_vars, Asked, Answers("NoCredentials")
      PROVE  heard = {}
  <2>1. HandleGetAssertion
    <3>1. ~HandleOther
      BY <1>1 DEF HandleOther, Respond, Answers, Pending
    <3> QED BY <1>1, <3>1, AnswerComesFrom
  <2>2. ASSUME NEW st, Respond(st) PROVE st = "NoCredentials"
    BY <1>1, <2>2 DEF Respond, Answers, Pending
  <2>3. ASSUME NEW s PROVE ~VerifyUser(s)
    BY <1>1, <2>2 DEF VerifyUser, Answers
  <2>4. FindByRPID(server.request.rp) = {}
    BY <1>1, <2>1, <2>2, <2>3 DEF HandleGetAssertion
  <2>5. ASSUME NEW c \in heard PROVE FALSE
    <3>1. PICK i \in DOMAIN store : store[i].cred = c
      BY <1>1 DEF IInv, StoreInv
    <3>2. store[i].rp = server.request.rp
      BY <1>1, <3>1 DEF IInv, StoreInv
    <3> QED BY <2>4, <3>1, <3>2 DEF FindByRPID
  <2> QED BY <2>5
<1>2. ASSUME IInv, [Next]_vars, Asked, Answers("OK")
      PROVE  response'.cred \in own /\ \A i \in heard : response'.cred <= i
  <2>1. FinishGetAssertion /\ RespondOK(server.cred)
    BY <1>2, SuccessComesFrom
  <2>2. response'.cred = server.cred
    BY <2>1 DEF RespondOK
  <2>3. Chosen(server)
    BY <1>2, <2>1 DEF IInv, ChosenInv, FinishGetAssertion, Verified
  <2> QED BY <1>2, <2>2, <2>3 DEF Chosen, Answering
<1>3. IInv /\ [Next]_vars =>
        [Asked =>
           /\ Answers("NoCredentials") => heard = {}
           /\ Answers("OK") => response'.cred \in own /\ \A i \in heard : response'.cred <= i]_vars
  BY <1>1, <1>2
<1> QED BY <1>3, ServerCorrect, PTL DEF Spec, FirstResidentAnswers

\* Once the user has consented, an assertion fails only with the signer, or with the
\* keys of a process that is gone.
THEOREM NoConsentWasted == Spec => ConsentIsNotWasted
<1>1. ASSUME IInv, [Next]_vars, Answers("OperationDenied"), Answering("getAssertion"),
             server.at = "verified", ~SignerFails
      PROVE  server.request.allow = <<>> /\ server.cred <= lost
  <2>1. FinishGetAssertion
    BY <1>1, AnswerComesFrom DEF HandleOther, HandleMakeCredential, HandleGetAssertion, Handling,
       HearsFailure, Hear, TimesOut, FinishMakeCredential, Verified, Answering
  <2>2. FALSE \in SignASN1(server.cred, server.request.rp)
    <3>1. PICK signed \in SignASN1(server.cred, server.request.rp) :
            IF signed THEN RespondOK(server.cred) ELSE Respond("OperationDenied")
      BY <2>1 DEF FinishGetAssertion
    <3>2. signed \in BOOLEAN
      BY DEF SignASN1
    <3>3. ~RespondOK(server.cred)
      BY <1>1 DEF RespondOK, Answers
    <3> QED BY <3>1, <3>2, <3>3
  <2>3. ~Owns(server.cred, server.request.rp)
    BY <1>1, <2>2 DEF SignASN1
  <2>4. Chosen(server) /\ server.request.cmd = "getAssertion"
    BY <1>1 DEF IInv, ChosenInv, Answering
  <2>5. server.request.allow = <<>>
    BY <2>3, <2>4 DEF Chosen
  <2>6. server.cred \in DOMAIN created /\ created[server.cred].rp = server.request.rp
    BY <2>4, <2>5 DEF Chosen
  <2>7. ~(server.cred > lost)
    BY <2>3, <2>6 DEF Owns
  <2>8. server.cred \in Nat /\ lost \in Nat
    BY <1>1, <2>6 DEF IInv, TypeOK
  <2> QED BY <2>5, <2>7, <2>8
<1>2. IInv /\ [Next]_vars =>
        [Answers("OperationDenied") /\ Answering("getAssertion") /\ server.at = "verified" =>
           \/ SignerFails
           \/ server.request.allow = <<>> /\ server.cred <= lost]_vars
  BY <1>1
<1> QED BY <1>2, ServerCorrect, PTL DEF Spec, ConsentIsNotWasted

-----------------------------------------------------------------------------
(* Who hears what a dialog comes to. *)

\* The handler waits for a result that is not there yet.
Awaits == server.at = "waiting" /\ calls[server.call] = "waiting"

\* Nobody listens but to a prompt; with pinentry the prompt a handler waits for is up, and
\* nobody listens to it but the goroutine of that handler.
DialogInv ==
  /\ prompt # "shown" => waiters = <<>>
  /\ setup.auth = "pinentry" /\ Awaits => prompt = "shown" /\ waiters = <<server.call>>

\* The first goroutine that listens is the only one.
LEMMA AppendToNone == ASSUME NEW k PROVE Append(<<>>, k) = <<k>>
<1>1. <<>> \in Seq({k}) /\ Len(<<>>) = 0
  OBVIOUS
<1>2. DOMAIN Append(<<>>, k) = {1} /\ Append(<<>>, k)[1] = k /\ Append(<<>>, k) \in Seq({k})
  BY <1>1
<1> QED BY <1>2

\* VerifyUser opens a dialog of its own, or none.
LEMMA VerifyUserDialog ==
  ASSUME IInv, DialogInv, UNCHANGED setup, NEW s, VerifyUser(s), server.at = "handling",
         \/ s = server
         \/ \E cred : s = [server EXCEPT !.cred = cred]
         \/ \E cred, user : s = [server EXCEPT !.cred = cred, !.user = user]
  PROVE  DialogInv'
<1>1. server \in ServerType /\ Idle.at = "idle"
  BY DEF IInv, HandlerInv, Idle
<1>2. DOMAIN s = DOMAIN server /\ s = [f \in DOMAIN server |-> s[f]]
      /\ {"at", "call", "left", "asked"} \subseteq DOMAIN server
  BY <1>1 DEF ServerType
<1>3. CASE server' = [s EXCEPT !.at = "verified"] /\ UNCHANGED <<prompt, waiters, calls>>
  <2>1. server'.at = "verified"
    BY <1>2, <1>3
  <2> QED BY <1>3, <2>1 DEF DialogInv, Awaits
<1>4. CASE Respond("OperationDenied") /\ UNCHANGED <<prompt, waiters, calls>>
  BY <1>1, <1>4 DEF Respond, DialogInv, Awaits
<1>5. ASSUME NEW k \in Calls, ~InnerRefuses, waiters' = Append(waiters, k), prompt' = "shown",
             server' = [s EXCEPT !.at = "waiting", !.call = k, !.left = HandlerWait,
                                 !.asked = TRUE]
      PROVE  DialogInv'
  <2>1. server'.call = k
    BY <1>2, <1>5
  <2>2. setup.auth = "pinentry" => waiters' = <<k>>
    <3>1. setup.auth = "pinentry" => waiters = <<>>
      BY <1>5 DEF InnerRefuses, DialogInv
    <3> QED BY <1>5, <3>1, AppendToNone
  <2> QED BY <1>5, <2>1, <2>2 DEF DialogInv
<1> QED BY <1>3, <1>4, <1>5 DEF VerifyUser

\* Each step keeps DialogInv.
LEMMA DialogStep == IInv /\ DialogInv /\ [Next]_vars => DialogInv'
<1> SUFFICES ASSUME IInv, DialogInv, [Next]_vars PROVE DialogInv'
  OBVIOUS
<1>0. /\ UNCHANGED setup /\ server \in ServerType /\ calls \in [Calls -> CallStates]
      /\ server.at = "waiting" => server.call \in Calls
      /\ Idle.at = "idle"
  BY DEF Next, vars, IInv, TypeOK, HandlerInv, ServerType, CallStates, Idle
<1>a. ASSUME UNCHANGED <<prompt, waiters>>, Awaits' => Awaits /\ server'.call = server.call
      PROVE  DialogInv'
  BY <1>0, <1>a DEF DialogInv
<1>b. ASSUME UNCHANGED <<prompt, waiters>>, server'.at # "waiting"
      PROVE  DialogInv'
  BY <1>a, <1>b DEF Awaits
<1>1. CASE \E request \in CtapRequests : Receive(request)
  <2>1. server'.at = "handling" /\ UNCHANGED <<prompt, waiters>>
    BY <1>1 DEF Receive, Idle
  <2> QED BY <1>b, <2>1
<1>2. CASE HandleOther
  BY <1>0, <1>2, <1>b DEF HandleOther, Respond
<1>3. CASE HandleMakeCredential
  <2>1. CASE VerifyUser(server)
    BY <1>0, <1>3, <2>1, VerifyUserDialog DEF HandleMakeCredential, Handling
  <2>2. CASE Respond("InvalidOption") /\ UNCHANGED <<prompt, waiters, calls>>
    BY <1>0, <1>b, <2>2 DEF Respond
  <2> QED BY <1>3, <2>1, <2>2 DEF HandleMakeCredential
<1>4. CASE HandleGetAssertion
  <2>1. server.at = "handling"
    BY <1>4 DEF HandleGetAssertion, Handling
  <2>2. CASE \E cred : VerifyUser([server EXCEPT !.cred = cred])
    BY <1>0, <2>1, <2>2, VerifyUserDialog
  <2>3. CASE \E cred, user : VerifyUser([server EXCEPT !.cred = cred, !.user = user])
    BY <1>0, <2>1, <2>3, VerifyUserDialog
  <2>4. CASE \E status : Respond(status) /\ UNCHANGED <<prompt, waiters, calls>>
    BY <1>0, <1>b, <2>4 DEF Respond
  <2> QED BY <1>4, <2>2, <2>3, <2>4 DEF HandleGetAssertion
<1>5. CASE HearsOk
  <2>1. server'.at = "verified"
    BY <1>0, <1>5 DEF HearsOk, ServerType
  <2> QED BY <1>5, <1>b, <2>1 DEF HearsOk, Hear
<1>6. CASE HearsFailure \/ TimesOut
  BY <1>0, <1>6, <1>b DEF HearsFailure, TimesOut, Hear, Respond
<1>7. CASE FinishMakeCredential
  <2>1. server' = Idle
    BY <1>7 DEF FinishMakeCredential, Register, RespondOK, Respond
  <2> QED BY <1>0, <1>7, <1>b, <2>1 DEF FinishMakeCredential, Verified
<1>8. CASE FinishGetAssertion
  <2>1. server' = Idle
    BY <1>8 DEF FinishGetAssertion, RespondOK, Respond
  <2> QED BY <1>0, <1>8, <1>b, <2>1 DEF FinishGetAssertion, Verified
<1>9. CASE \E result \in {"ok", "denied", "noMatch"} : PromptEnds(result)
  <2>1. PICK result \in {"ok", "denied", "noMatch"} : PromptEnds(result)
    BY <1>9
  <2>2. waiters' = <<>> /\ server' = server /\ prompt = "shown"
        /\ calls' = [calls EXCEPT ![Head(waiters)] = result]
    BY <2>1 DEF PromptEnds
  <2>3. setup.auth = "pinentry" => ~Awaits'
    <3>1. ASSUME setup.auth = "pinentry", Awaits' PROVE FALSE
      <4>1. server.call \in Calls /\ calls'[server.call] = "waiting"
        BY <1>0, <2>2, <3>1 DEF Awaits
      <4>2. Awaits
        BY <1>0, <2>2, <3>1, <4>1 DEF Awaits
      <4>3. Head(waiters) = server.call
        BY <3>1, <4>2 DEF DialogInv
      <4> QED BY <1>0, <2>2, <4>1, <4>3
    <3> QED BY <3>1
  <2> QED BY <1>0, <2>2, <2>3 DEF DialogInv
<1>10. CASE DialogCleared
  <2>1. prompt = "closing" /\ prompt' = "none" /\ UNCHANGED <<waiters, calls, server>>
    BY <1>10 DEF DialogCleared
  <2> QED BY <1>0, <2>1 DEF DialogInv, Awaits
<1>11. CASE \E k \in Calls : GoroutineEnds(k)
  <2>1. PICK k \in Calls : GoroutineEnds(k)
    BY <1>11
  <2>2. /\ server' = server /\ UNCHANGED <<prompt, waiters>>
        /\ calls[k] \in {"ok", "denied", "noMatch"}
        /\ calls' = [calls EXCEPT ![k] = IF server.call = k THEN Got(@) ELSE "free"]
    BY <2>1 DEF GoroutineEnds
  <2>3. Got(calls[k]) # "waiting"
    BY <2>2 DEF Got
  <2>4. Awaits' => Awaits
    BY <1>0, <2>2, <2>3 DEF Awaits
  <2> QED BY <1>a, <2>2, <2>4
<1>12. CASE Tick
  <2>1. server'.at = server.at /\ server'.call = server.call
    BY <1>0, <1>12 DEF Tick, ServerType
  <2> QED BY <1>12, <1>a, <2>1 DEF Tick, Awaits
<1>13. CASE Restart \/ DiesRegistering
  <2>1. waiters' = <<>> /\ server' = Idle
    BY <1>13 DEF Restart, DiesRegistering, Dies, Started
  <2> QED BY <1>0, <2>1 DEF DialogInv, Awaits
<1>14. CASE UNCHANGED vars
  BY <1>14, <1>a DEF vars, volatile, Awaits
<1> QED BY <1>1, <1>2, <1>3, <1>4, <1>5, <1>6, <1>7, <1>8, <1>9, <1>10, <1>11, <1>12, <1>13,
           <1>14 DEF Next, Serve

\* At first there is no dialog.
LEMMA DialogInit == Init => DialogInv
BY DEF Init, Started, Idle, DialogInv, Awaits

\* With --auth=pinentry a handler that waits hears what the dialog comes to, however many
\* dialogs were left behind before it.
THEOREM DialogIsHeard == Spec => DialogReachesHandler
<1>1. ASSUME IInv, DialogInv, Next, setup.auth = "pinentry" PROVE ~PromptGoesUnheard
  <2> SUFFICES ASSUME PromptGoesUnheard PROVE FALSE
    OBVIOUS
  <2>1. /\ prompt = "shown" /\ prompt' # "shown" /\ server.at = "waiting"
        /\ server'.at = "waiting" /\ calls'[server.call] = "waiting"
    BY DEF PromptGoesUnheard
  <2>2. calls \in [Calls -> CallStates] /\ server.call \in Calls
    <3>1. TypeOK /\ HandlerInv
      BY <1>1 DEF IInv
    <3> QED BY <2>1, <3>1 DEF TypeOK, HandlerInv, CallStates
  <2>3. server' # Idle
    BY <2>1 DEF Idle
  <2>4. PICK result \in {"ok", "denied", "noMatch"} : PromptEnds(result)
    <3>1. Serve
      BY <1>1, <2>3 DEF Next, Restart, DiesRegistering, Dies, Started
    <3>2. ~\E request \in CtapRequests : Receive(request)
      BY <2>1 DEF Receive
    <3>3. ~(HandleOther \/ HandleMakeCredential \/ HandleGetAssertion)
      BY <2>1 DEF HandleOther, HandleMakeCredential, HandleGetAssertion, Handling
    <3>4. ~(HearsOk \/ HearsFailure \/ TimesOut)
      BY <2>1 DEF HearsOk, HearsFailure, TimesOut, Hear
    <3>5. ~(FinishMakeCredential \/ FinishGetAssertion)
      BY <2>1 DEF FinishMakeCredential, FinishGetAssertion, Verified
    <3>6. ~(DialogCleared \/ Tick \/ \E k \in Calls : GoroutineEnds(k))
      BY <2>1 DEF DialogCleared, Tick, GoroutineEnds
    <3> QED BY <3>1, <3>2, <3>3, <3>4, <3>5, <3>6 DEF Serve
  <2>5. calls' = [calls EXCEPT ![Head(waiters)] = result]
    BY <2>4 DEF PromptEnds
  <2>6. calls[server.call] = "waiting"
    BY <2>1, <2>2, <2>5
  <2>7. Head(waiters) = server.call
    BY <1>1, <2>1, <2>6 DEF DialogInv, Awaits
  <2> QED BY <2>1, <2>2, <2>5, <2>7
<1>2. IInv /\ DialogInv /\ [Next]_vars => [setup.auth = "pinentry" => ~PromptGoesUnheard]_vars
  BY <1>1
<1> QED BY <1>2, IInvInit, IInvStep, DialogInit, DialogStep, PTL DEF Spec, DialogReachesHandler
=============================================================================
