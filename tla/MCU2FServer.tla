---------------------------- MODULE MCU2FServer -----------------------------
(***************************************************************************)
(* Two or three browser operations, each with a challenge of its own.      *)
(*                                                                         *)
(* Addresses of requests are interchangeable, but symmetry cannot be used  *)
(* where liveness is checked: FirstFree lets ConfirmPresence take the      *)
(* first free address only.                                                *)
(***************************************************************************)
EXTENDS U2FServer, TLC

CONSTANTS h1, v1, v2, p1, p2, p3, p4, c1, c2, c3

OneHandler == {h1}
OneVerifier == {v1}
TwoVerifiers == {v1, v2}
TwoChallenges == {"ch1", "ch2"}
OneApplication == {"app"}
TwoRequests == {p1, p2}
FourRequests == {p1, p2, p3, p4}
TwoClients == {c1, c2}
ThreeClients == {c1, c2, c3}

P(ch) == [challenge |-> ch, application |-> "app"]
Auth(ch, ctrl, known) ==
  [cmd |-> "authenticate", params |-> P(ch), known |-> known, ctrl |-> ctrl]
Register(ch) == [cmd |-> "register", params |-> P(ch)]
Other(cmd) == [cmd |-> cmd]

\* A sign-in and a registration compete with a CTAP2 request, which uses the same
\* dialog or another prompt.
Competing ==
  c1 :> {Auth("ch1", "enforce", TRUE)}
    @@ c2 :> {Register("ch2")}
    @@ c3 :> {Other("ctap2"), Other("scan")}

\* Every kind of request, two at a time.
Everything ==
  [c \in {c1, c2} |->
     LET ch == IF c = c1 THEN "ch1" ELSE "ch2" IN
     {Auth(ch, ctrl, known) :
        ctrl \in {"checkOnly", "enforce", "dontEnforce"}, known \in BOOLEAN}
     \cup {Register(ch)}
     \cup {Other(cmd) : cmd \in {"version", "unsupported", "undecodable", "ctap2", "scan"}}]

Place == p1 :> 1 @@ p2 :> 2

FirstFree ==
  activeRequest' \in Requests \ {activeRequest} =>
    \A p \in Requests : Unreferenced(p) => Place[activeRequest'] <= Place[p]

SpecFirstFree == U2FInit /\ [][U2FNext /\ FirstFree]_allVars /\ ServerFairness
=============================================================================
