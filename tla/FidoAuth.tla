------------------------------ MODULE FidoAuth ------------------------------
(***************************************************************************)
(* DecodeAuthenticatorRequest of src/fidoauth/fidoauth.go, as a function   *)
(* of the bytes of a message; and how browsers build those (external).     *)
(***************************************************************************)
EXTENDS Bytes

CONSTANT HashLen  \* 32, the length of both parameters

ASSUME FidoAuthAssumption == HashLen \in Nat \ {0}

CmdRegister == 1
CmdAuthenticate == 2
CtrlCheckOnly == 7
CtrlEnforce == 3
CtrlDontEnforce == 8

Refused == [cmd |-> "refused"]

HeaderLen == 7

Header(ins, p1) == <<0, ins, p1, 0, 0, 0, 0>>

\* The Le bytes at the end are there or not.
Ends == {<<>>, <<0, 0>>}

RegisterMessage(challenge, app, end) == Header(CmdRegister, CtrlEnforce) \o challenge \o app \o end

AuthMessage(ctrl, challenge, app, handle, end) ==
  Header(CmdAuthenticate, ctrl) \o challenge \o app \o <<Len(handle)>> \o handle \o end

DecodeRegister(data) ==
  IF Len(data) < 2 * HashLen THEN Refused
  ELSE [cmd |-> "register", challenge |-> Upto(data, HashLen),
        app |-> SubSeq(data, HashLen + 1, 2 * HashLen)]

\* Seeded fault: what follows the length is taken for the key handle as it is.
HandleToEnd(data) == From(data, 2)

\* The bytes that the length at the beginning of data counts.
HandleIn(data) == SubSeq(data, 2, 1 + data[1])

DecodeAuthenticate(ctrl, data) ==
  IF \/ Len(data) < 2 * HashLen + 2
     \/ ctrl \notin {CtrlCheckOnly, CtrlEnforce, CtrlDontEnforce}
     \/ Len(data) - 2 * HashLen - 1 < data[2 * HashLen + 1]
  THEN Refused
  ELSE [cmd |-> "authenticate", ctrl |-> ctrl, challenge |-> Upto(data, HashLen),
        app |-> SubSeq(data, HashLen + 1, 2 * HashLen),
        handle |-> HandleIn(From(data, 2 * HashLen + 1))]

\* Other commands are passed on with their data.
DecodeAuthenticatorRequest(raw) ==
  IF Len(raw) < HeaderLen THEN Refused
  ELSE LET data == From(raw, HeaderLen + 1) IN
       CASE raw[2] = CmdRegister -> DecodeRegister(data)
         [] raw[2] = CmdAuthenticate -> DecodeAuthenticate(raw[3], data)
         [] OTHER -> [cmd |-> "other", data |-> data]
=============================================================================
