----------------------------- MODULE KeyHandles -----------------------------
(***************************************************************************)
(* The way of a key handle: RegisterKey of src/tpm/tpm.go packs three      *)
(* parts into it, registerSite sends it to the site, the site sends a      *)
(* handle back in a U2F message, and SignASN1 unpacks it for the TPM.      *)
(* Lencode, Framing and FidoAuth model the three encodings on this way.    *)
(*                                                                         *)
(* A site may send other handles than its own, and a message may be        *)
(* shorter than it should be.  The TPM itself is external.                 *)
(***************************************************************************)
EXTENDS Lencode, Framing, FidoAuth

CONSTANTS
  Parts,  \* what may be a part of a key handle: byte sequences
  Hashes, \* challenge and application parameters
  Status  \* the status word at the end of a response

VARIABLES
  stage, \* how far the handle has come
  parts, \* OutPrivate, OutPublic and randSeed, in this order
  app,   \* the application parameter of the site
  enc,   \* the encoder of RegisterKey
  sent,  \* the U2F message on its way, and if it is all there
  req,   \* what DecodeAuthenticatorRequest made of it
  dec    \* the decoder of SignASN1

vars == <<stage, parts, app, enc, sent, req, dec, writer, host>>

\* Parameters are arrays of 32 bytes, a status word has two, and control codes are bytes.
ASSUME KeyHandleAssumption ==
  /\ Parts \subseteq Bytes
  /\ Hashes \subseteq [1 .. HashLen -> 0 .. MaxByte]
  /\ Status \in [1 .. 2 -> 0 .. MaxByte]
  /\ CtrlDontEnforce <= MaxByte

Prefixes(bytes) == {Upto(bytes, n) : n \in 0 .. Len(bytes)}

Sends(message, raw, handle) == sent' = [raw |-> raw, message |-> message, handle |-> handle]

\* The site registers: its message, perhaps cut, is on its way.
Init ==
  /\ stage = "asked"
  /\ parts \in [1 .. 3 -> Parts]
  /\ app \in Hashes
  /\ \E end \in Ends, challenge \in Hashes :
       LET message == RegisterMessage(challenge, app, end) IN
       \E raw \in Prefixes(message) :
         sent = [raw |-> raw, message |-> message, handle |-> <<>>]
  /\ req = Refused
  /\ enc = NewEncoder
  /\ dec = NewDecoder(<<>>)
  /\ FramingInit

-----------------------------------------------------------------------------
\* The message is decoded, and not answered if it cannot be.
TakeRegister ==
  /\ stage = "asked"
  /\ req' = DecodeAuthenticatorRequest(sent.raw)
  /\ stage' = IF req' = Refused THEN "silent" ELSE "encoding"
  /\ UNCHANGED <<parts, app, enc, sent, dec, writer, host>>

\* RegisterKey's three Encodes, whose errors are not looked at.
RegisterKey ==
  /\ stage = "encoding"
  /\ enc' = Encode(Encode(Encode(enc, parts[1]), parts[2]), parts[3])
  /\ stage' = "answering"
  /\ UNCHANGED <<parts, app, sent, req, dec, writer, host>>

\* registerSite: no answer if the handle is too long for the byte that counts it.
RegisterSite ==
  /\ stage = "answering" /\ writer = NoWriter
  /\ \/ Len(enc.out) > MaxByte /\ stage' = "silent" /\ UNCHANGED writer
     \/ /\ Len(enc.out) <= MaxByte
        /\ WriteResponse(<<5, Len(enc.out)>> \o enc.out, Status)
        /\ UNCHANGED stage
  /\ UNCHANGED <<parts, app, enc, sent, req, dec, host>>

Response == <<5, Len(enc.out)>> \o enc.out \o Status

Respond ==
  /\ stage = "answering"
  /\ WriteFrame
  /\ stage' = IF writer'.data # <<>> THEN stage ELSE IF host'.bad THEN "garbled" ELSE "stored"
  /\ UNCHANGED <<parts, app, enc, sent, req, dec>>

\* The site's handle, a part of it, more than it, or it twice.
HandlesLike(handle) ==
  Prefixes(handle) \cup
  {longer \in {handle \o <<0>>, handle \o Separator \o <<0>>, handle \o handle} : Len(longer) <= MaxByte}

\* The browser signs in at the site; the message may be cut.
Authenticate ==
  /\ stage = "stored"
  /\ \E handle \in HandlesLike(SubSeq(host.data, 3, 2 + host.data[2])), end \in Ends,
        ctrl \in {CtrlCheckOnly, CtrlEnforce}, challenge \in Hashes :
       LET message == AuthMessage(ctrl, challenge, app, handle, end) IN
       \E raw \in Prefixes(message) : Sends(message, raw, handle)
  /\ stage' = "returned"
  /\ UNCHANGED <<parts, app, enc, req, dec, writer, host>>

TakeAuthenticate ==
  /\ stage = "returned"
  /\ req' = DecodeAuthenticatorRequest(sent.raw)
  /\ IF req' = Refused THEN stage' = "silent" /\ UNCHANGED dec
     ELSE stage' = "decoding" /\ dec' = NewDecoder(req'.handle)
  /\ UNCHANGED <<parts, app, enc, sent, writer, host>>

\* Seeded fault: what comes after the third part is not looked at.
AcceptsMore(d) == d.err = "none" \/ d.err = "EOF"

\* After the third part there must be nothing.
AtEnd(d) == d.err = "EOF"

\* SignASN1's Decodes: three parts, and then EOF.
SignASN1 ==
  /\ stage = "decoding"
  /\ dec' = Decode(dec)
  /\ stage' =
       IF Len(dec.got) < 3
       THEN (IF dec'.err = "none" THEN "decoding" ELSE "rejected")
       ELSE (IF AtEnd(dec') THEN "accepted" ELSE "rejected")
  /\ UNCHANGED <<parts, app, enc, sent, req, writer, host>>

Next ==
  \/ TakeRegister \/ RegisterKey \/ RegisterSite \/ Respond
  \/ Authenticate \/ TakeAuthenticate \/ SignASN1

Spec == Init /\ [][Next]_vars

-----------------------------------------------------------------------------
\* The TPM is only ever given the three parts it made: no shorter or longer handle passes
\* SignASN1's checks, and none for which an Encode failed without a word, unless the site
\* adds to it.
KeyIsTheRegistered ==
  stage = "accepted" =>
    IF enc.err THEN sent.handle \notin Prefixes(enc.out) ELSE dec.got = parts

\* The handle the site was sent is accepted when it comes back, whatever bytes it holds,
\* if every part could be encoded; and no handle makes Decode run into the comparison of
\* DecodeInto, which panics on a short slice.
KeyComesBack ==
  /\ stage = "rejected" => sent.handle # enc.out \/ enc.err
  /\ dec.err \notin {"small", "panic"}

\* A response that is short enough arrives as it was sent: padding, numbers and sizes
\* agree on both sides.
ResponseArrives ==
  /\ stage = "stored" => host.data = Response
  /\ stage = "garbled" => Len(Response) > LongestMessage

\* A message is refused or means what was sent, also when its end is missing: a key
\* handle is never cut.
MessageMeansWhatWasSent ==
  req # Refused /\ stage \in {"encoding", "decoding"} =>
    LET whole == DecodeAuthenticatorRequest(sent.message) IN
    /\ req = whole
    /\ req.cmd = "authenticate" => req.handle = sent.handle
    /\ req.app = app

=============================================================================
