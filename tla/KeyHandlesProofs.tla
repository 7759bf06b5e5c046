-------------------------- MODULE KeyHandlesProofs --------------------------
(***************************************************************************)
(* Theorems about KeyHandles, for any bytes, parts, hashes and lengths.    *)
(***************************************************************************)
EXTENDS KeyHandles, SequenceTheorems, TLAPS

Numbers == Seq(Nat)

\* A challenge or a site is a sequence of HashLen numbers.
LEMMA HashesAreNumbers ==
  ASSUME NEW hash \in Hashes
  PROVE  hash \in Numbers /\ Len(hash) = HashLen
<1>1. hash \in [1 .. HashLen -> 0 .. MaxByte] /\ HashLen \in Nat
  BY KeyHandleAssumption, FidoAuthAssumption
<1>2. hash \in [1 .. HashLen -> Nat]
  BY <1>1, ByteAssumption
<1> QED BY <1>1, <1>2 DEF Numbers

\* A handle that is cut agrees with the whole as far as it goes.
LEMMA PrefixBytes ==
  ASSUME NEW bytes \in Numbers, NEW prefix \in Prefixes(bytes)
  PROVE  /\ prefix \in Numbers /\ Len(prefix) <= Len(bytes)
         /\ \A i \in 1 .. Len(prefix) : prefix[i] = bytes[i]
<1>1. PICK n \in 0 .. Len(bytes) : prefix = SubSeq(bytes, 1, n)
  BY DEF Prefixes, Upto
<1>2. n \in Nat /\ n <= Len(bytes) /\ Len(bytes) \in Nat
  BY <1>1 DEF Numbers
<1>3. \A i \in 1 .. n : bytes[i] \in Nat
  BY <1>2 DEF Numbers
<1> QED BY <1>1, <1>2, <1>3, SubSeqProperties DEF Numbers

\* A handle may be returned whole.
LEMMA WholeIsPrefix ==
  ASSUME NEW bytes \in Numbers
  PROVE  bytes \in Prefixes(bytes)
<1>1. Upto(bytes, Len(bytes)) = bytes /\ Len(bytes) \in 0 .. Len(bytes)
  BY SubSeqFull DEF Numbers, Upto
<1> QED BY <1>1 DEF Prefixes

HasAt(bytes, before, part) == \A i \in 1 .. Len(part) : bytes[before + i] = part[i]

\* A slice inside a sequence is the sequence that is found there.
LEMMA SliceFound ==
  ASSUME NEW bytes \in Numbers, NEW part \in Numbers, NEW before \in Nat,
         HasAt(bytes, before, part), before + Len(part) <= Len(bytes)
  PROVE  SubSeq(bytes, before + 1, before + Len(part)) = part
<1> DEFINE first == before + 1
           last == before + Len(part)
           slice == SubSeq(bytes, first, last)
<1>0. Len(part) \in Nat /\ Len(bytes) \in Nat
  BY DEF Numbers
<1>1. /\ Len(part) \in Nat /\ Len(bytes) \in Nat /\ last \in Int /\ first \in Int
      /\ first = before + 1 /\ last = before + Len(part)
  BY <1>0
<1> HIDE DEF first, last
<1>2. \A i \in first .. last : bytes[i] \in Nat
  <2> SUFFICES ASSUME NEW i \in first .. last PROVE bytes[i] \in Nat
    OBVIOUS
  <2>1. i \in 1 .. Len(bytes)
    BY <1>1
  <2> QED BY <2>1, ElementOfSeq DEF Numbers
<1>3. /\ slice \in Seq(Nat) /\ Len(slice) = IF first <= last THEN last - first + 1 ELSE 0
      /\ \A i \in 1 .. last - first + 1 : slice[i] = bytes[first + i - 1]
  BY <1>1, <1>2, SubSeqProperties
<1>4. Len(slice) = Len(part)
  BY <1>1, <1>3
<1>5. \A i \in 1 .. Len(slice) : slice[i] = part[i]
  <2> SUFFICES ASSUME NEW i \in 1 .. Len(slice) PROVE slice[i] = part[i]
    OBVIOUS
  <2>1. i \in 1 .. last - first + 1 /\ i \in 1 .. Len(part) /\ first + i - 1 = before + i
    BY <1>1, <1>3, <1>4
  <2> QED BY <1>3, <2>1 DEF HasAt
<1> HIDE DEF slice
<1>6. slice = part
  BY <1>3, <1>4, <1>5, SeqEqual DEF Numbers
<1> QED BY <1>6 DEF slice, first, last

\* SliceFound with the ends computed by the code.
LEMMA SliceIs ==
  ASSUME NEW bytes \in Numbers, NEW part \in Numbers, NEW before \in Nat,
         HasAt(bytes, before, part), before + Len(part) <= Len(bytes),
         NEW first, first = before + 1, NEW last, last = before + Len(part)
  PROVE  SubSeq(bytes, first, last) = part
BY SliceFound

\* What bytes[n-1:] is in Go.
LEMMA FromBytes ==
  ASSUME NEW bytes \in Numbers, NEW n \in 1 .. Len(bytes) + 1
  PROVE  /\ From(bytes, n) \in Numbers /\ Len(From(bytes, n)) = Len(bytes) - n + 1
         /\ \A i \in 1 .. Len(bytes) - n + 1 : From(bytes, n)[i] = bytes[n - 1 + i]
<1>1. Len(bytes) \in Nat /\ n \in Nat \ {0} /\ n <= Len(bytes) + 1
  BY DEF Numbers
<1>2. \A i \in n .. Len(bytes) : bytes[i] \in Nat
  BY <1>1 DEF Numbers
<1>3. /\ From(bytes, n) \in Seq(Nat)
      /\ Len(From(bytes, n)) = IF n <= Len(bytes) THEN Len(bytes) - n + 1 ELSE 0
      /\ \A i \in 1 .. Len(bytes) - n + 1 : From(bytes, n)[i] = bytes[n + i - 1]
  BY <1>1, <1>2, SubSeqProperties DEF From
<1> QED BY <1>1, <1>3 DEF Numbers

\* What appending two sequences of bytes is.
LEMMA ConcatBytes ==
  ASSUME NEW left \in Numbers, NEW right \in Numbers
  PROVE  /\ left \o right \in Numbers
         /\ Len(left \o right) = Len(left) + Len(right)
         /\ \A i \in 1 .. Len(left) : (left \o right)[i] = left[i]
         /\ \A i \in 1 .. Len(right) : (left \o right)[Len(left) + i] = right[i]
<1>1. Len(left) \in Nat /\ Len(right) \in Nat
  BY DEF Numbers
<1>2. /\ left \o right \in Seq(Nat)
      /\ Len(left \o right) = Len(left) + Len(right)
      /\ \A i \in 1 .. Len(left) + Len(right) :
           (left \o right)[i] = IF i <= Len(left) THEN left[i] ELSE right[i - Len(left)]
  BY ConcatProperties DEF Numbers
<1> QED BY <1>1, <1>2 DEF Numbers

-----------------------------------------------------------------------------
(* U2F messages. *)

\* The bytes of a message: a header, the two parameters, and what follows them.
Carries(message, challenge, site) ==
  /\ \A i \in 1 .. HashLen : message[HeaderLen + i] = challenge[i]
  /\ \A i \in 1 .. HashLen : message[HeaderLen + HashLen + i] = site[i]

ReadsAs(message, header, challenge, site, more) ==
  /\ message \in Numbers
  /\ Len(message) = HeaderLen + 2 * HashLen + Len(more)
  /\ \A i \in 1 .. HeaderLen : message[i] = header[i]
  /\ Carries(message, challenge, site)
  /\ \A i \in 1 .. Len(more) : message[HeaderLen + 2 * HashLen + i] = more[i]

\* Header, challenge, site and the rest are found where the decoder slices.
LEMMA MessageBytes ==
  ASSUME NEW header \in Numbers, Len(header) = HeaderLen,
         NEW challenge \in Hashes, NEW site \in Hashes, NEW more \in Numbers
  PROVE  ReadsAs(((header \o challenge) \o site) \o more, header, challenge, site, more)
<1> DEFINE one == header \o challenge
           two == one \o site
           message == two \o more
<1>0. /\ challenge \in Numbers /\ Len(challenge) = HashLen
      /\ site \in Numbers /\ Len(site) = HashLen /\ HashLen \in Nat
      /\ Len(more) \in Nat /\ HeaderLen \in Nat
  BY HashesAreNumbers, FidoAuthAssumption DEF Numbers, HeaderLen
<1>1. /\ one \in Numbers /\ Len(one) = HeaderLen + HashLen
      /\ \A i \in 1 .. HeaderLen : one[i] = header[i]
      /\ \A i \in 1 .. HashLen : one[HeaderLen + i] = challenge[i]
  <2>1. /\ one \in Numbers /\ Len(one) = Len(header) + Len(challenge)
        /\ \A i \in 1 .. Len(header) : one[i] = header[i]
        /\ \A i \in 1 .. Len(challenge) : one[Len(header) + i] = challenge[i]
    BY <1>0, ConcatBytes
  <2> HIDE DEF one
  <2> QED BY <1>0, <2>1
<1> HIDE DEF one
<1>2. /\ two \in Numbers /\ Len(two) = HeaderLen + HashLen + HashLen
      /\ \A i \in 1 .. HeaderLen + HashLen : two[i] = one[i]
      /\ \A i \in 1 .. HashLen : two[HeaderLen + HashLen + i] = site[i]
  <2>1. /\ two \in Numbers /\ Len(two) = Len(one) + Len(site)
        /\ \A i \in 1 .. Len(one) : two[i] = one[i]
        /\ \A i \in 1 .. Len(site) : two[Len(one) + i] = site[i]
    BY <1>0, <1>1, ConcatBytes
  <2> HIDE DEF two
  <2> QED BY <1>0, <1>1, <2>1
<1> HIDE DEF two
<1>3. /\ message \in Numbers /\ Len(message) = HeaderLen + HashLen + HashLen + Len(more)
      /\ \A i \in 1 .. HeaderLen + HashLen + HashLen : message[i] = two[i]
      /\ \A i \in 1 .. Len(more) : message[HeaderLen + HashLen + HashLen + i] = more[i]
  <2>1. /\ message \in Numbers /\ Len(message) = Len(two) + Len(more)
        /\ \A i \in 1 .. Len(two) : message[i] = two[i]
        /\ \A i \in 1 .. Len(more) : message[Len(two) + i] = more[i]
    BY <1>2, ConcatBytes
  <2> HIDE DEF message
  <2> QED BY <1>0, <1>2, <2>1
<1> HIDE DEF message
<1>4. HeaderLen + HashLen + HashLen = HeaderLen + 2 * HashLen
  BY <1>0
<1>5. \A i \in 1 .. HeaderLen : message[i] = header[i]
  BY <1>0, <1>1, <1>2, <1>3
<1>6. \A i \in 1 .. HashLen : message[HeaderLen + i] = challenge[i]
  <2> SUFFICES ASSUME NEW i \in 1 .. HashLen PROVE message[HeaderLen + i] = challenge[i]
    OBVIOUS
  <2>1. HeaderLen + i \in 1 .. HeaderLen + HashLen
        /\ HeaderLen + i \in 1 .. HeaderLen + HashLen + HashLen
    BY <1>0
  <2> QED BY <1>1, <1>2, <1>3, <2>1
<1>7. \A i \in 1 .. HashLen : message[HeaderLen + HashLen + i] = site[i]
  <2> SUFFICES ASSUME NEW i \in 1 .. HashLen PROVE message[HeaderLen + HashLen + i] = site[i]
    OBVIOUS
  <2>1. HeaderLen + HashLen + i \in 1 .. HeaderLen + HashLen + HashLen
    BY <1>0
  <2> QED BY <1>2, <1>3, <2>1
<1>8. ReadsAs(message, header, challenge, site, more)
  BY <1>3, <1>4, <1>5, <1>6, <1>7 DEF ReadsAs, Carries
<1> QED BY <1>8 DEF message, two, one

\* The command and the control value are the second and third byte.
LEMMA HeaderBytes ==
  ASSUME NEW ins \in Nat, NEW p1 \in Nat
  PROVE  /\ Header(ins, p1) \in Numbers /\ Len(Header(ins, p1)) = HeaderLen
         /\ Header(ins, p1)[2] = ins /\ Header(ins, p1)[3] = p1
<1> DEFINE header == <<0, ins, p1, 0, 0, 0, 0>>
<1>1. header \in Seq(Nat)
  OBVIOUS
<1>2. Len(header) = 7 /\ header[2] = ins /\ header[3] = p1
  OBVIOUS
<1>3. Header(ins, p1) = header
  BY DEF Header
<1> HIDE DEF header
<1> QED BY <1>1, <1>2, <1>3 DEF HeaderLen, Numbers

\* Concatenation may be bracketed either way.
LEMMA ConcatAssoc ==
  ASSUME NEW a \in Numbers, NEW b \in Numbers, NEW c \in Numbers
  PROVE  (a \o b) \o c = a \o (b \o c)
<1>1. a \in Seq(Nat) /\ b \in Seq(Nat) /\ c \in Seq(Nat)
  BY DEF Numbers
<1> QED BY <1>1, ConcatAssociative

\* The Le bytes at the end of a message are bytes.
LEMMA EndBytes ==
  ASSUME NEW end \in Ends
  PROVE  end \in Numbers /\ Len(end) \in Nat
<1>1. <<>> \in Seq(Nat) /\ <<0, 0>> \in Seq(Nat)
  OBVIOUS
<1>2. end \in Numbers
  BY <1>1 DEF Ends, Numbers
<1> QED BY <1>2 DEF Numbers

RegisterReads(message, challenge, site) ==
  /\ message \in Numbers /\ Len(message) >= HeaderLen + 2 * HashLen
  /\ message[2] = CmdRegister
  /\ Carries(message, challenge, site)

\* A whole registration message is decoded to the challenge and the site it
\* was built from.
LEMMA RegisterBytes ==
  ASSUME NEW challenge \in Hashes, NEW site \in Hashes, NEW end \in Ends
  PROVE  RegisterReads(RegisterMessage(challenge, site, end), challenge, site)
<1> DEFINE header == Header(CmdRegister, CtrlEnforce)
           message == RegisterMessage(challenge, site, end)
<1>1. header \in Numbers /\ Len(header) = HeaderLen /\ header[2] = CmdRegister
  BY HeaderBytes DEF CmdRegister, CtrlEnforce
<1>2. end \in Numbers /\ Len(end) \in Nat /\ HashLen \in Nat
  BY EndBytes, FidoAuthAssumption
<1>3. message = ((header \o challenge) \o site) \o end
  BY DEF RegisterMessage
<1> HIDE DEF header, message
<1>4. ReadsAs(message, header, challenge, site, end)
  BY <1>1, <1>2, <1>3, MessageBytes
<1>5. RegisterReads(message, challenge, site)
  BY <1>1, <1>2, <1>4 DEF ReadsAs, RegisterReads, HeaderLen
<1> QED BY <1>5 DEF message

AuthReads(message, ctrl, challenge, site, handle) ==
  /\ message \in Numbers /\ Len(message) >= HeaderLen + 2 * HashLen + 1 + Len(handle)
  /\ message[2] = CmdAuthenticate /\ message[3] = ctrl
  /\ Carries(message, challenge, site)
  /\ message[HeaderLen + 2 * HashLen + 1] = Len(handle)
  /\ \A i \in 1 .. Len(handle) : message[HeaderLen + 2 * HashLen + 1 + i] = handle[i]

\* A whole authentication message is decoded to what it was built from.
LEMMA AuthBytes ==
  ASSUME NEW ctrl \in Nat, NEW challenge \in Hashes, NEW site \in Hashes,
         NEW handle \in Numbers, NEW end \in Ends
  PROVE  AuthReads(AuthMessage(ctrl, challenge, site, handle, end), ctrl, challenge, site, handle)
<1> DEFINE header == Header(CmdAuthenticate, ctrl)
           before == (header \o challenge) \o site
           size == <<Len(handle)>>
           sized == size \o handle
           more == sized \o end
           message == AuthMessage(ctrl, challenge, site, handle, end)
<1>1. /\ header \in Numbers /\ Len(header) = HeaderLen
      /\ header[2] = CmdAuthenticate /\ header[3] = ctrl
  BY HeaderBytes DEF CmdAuthenticate
<1>2. /\ end \in Numbers /\ Len(end) \in Nat /\ HashLen \in Nat
      /\ Len(handle) \in Nat /\ challenge \in Numbers /\ site \in Numbers
  BY EndBytes, FidoAuthAssumption, HashesAreNumbers DEF Numbers
<1> HIDE DEF header
<1>3. size \in Numbers /\ Len(size) = 1 /\ size[1] = Len(handle)
  BY <1>2 DEF Numbers
<1>4. before \in Numbers
  <2>1. header \o challenge \in Numbers
    BY <1>1, <1>2, ConcatBytes
  <2> QED BY <1>2, <2>1, ConcatBytes
<1>5. message = (((before \o size) \o handle) \o end)
  BY DEF AuthMessage, header
<1> HIDE DEF size, before, message
<1>6. /\ sized \in Numbers /\ Len(sized) = 1 + Len(handle)
      /\ sized[1] = Len(handle) /\ \A i \in 1 .. Len(handle) : sized[1 + i] = handle[i]
  <2>1. /\ sized \in Numbers /\ Len(sized) = Len(size) + Len(handle)
        /\ \A i \in 1 .. Len(size) : sized[i] = size[i]
        /\ \A i \in 1 .. Len(handle) : sized[Len(size) + i] = handle[i]
    BY <1>3, ConcatBytes
  <2> HIDE DEF sized
  <2> QED BY <1>2, <1>3, <2>1
<1>7. message = before \o more
  <2>1. sized = size \o handle
    OBVIOUS
  <2> HIDE DEF sized
  <2>2. (before \o size) \o handle = before \o sized
    BY <1>3, <1>4, <2>1, ConcatAssoc
  <2>3. (before \o sized) \o end = before \o (sized \o end)
    BY <1>2, <1>4, <1>6, ConcatAssoc
  <2> QED BY <1>5, <2>2, <2>3
<1>8. /\ more \in Numbers /\ Len(more) = Len(sized) + Len(end)
      /\ \A i \in 1 .. Len(sized) : more[i] = sized[i]
  <2> HIDE DEF sized
  <2> QED BY <1>2, <1>6, ConcatBytes
<1> HIDE DEF sized, more
<1>9. /\ more[1] = Len(handle) /\ \A i \in 1 .. Len(handle) : more[1 + i] = handle[i]
      /\ Len(more) >= 1 + Len(handle) /\ Len(more) \in Nat
  <2>1. \A i \in 1 .. Len(handle) : 1 + i \in 1 .. Len(sized)
    BY <1>2, <1>6
  <2>2. 1 \in 1 .. Len(sized)
    BY <1>2, <1>6
  <2> QED BY <1>2, <1>6, <1>8, <2>1, <2>2
<1>10. ReadsAs(message, header, challenge, site, more)
  BY <1>1, <1>7, <1>8, MessageBytes DEF before
<1>11. AuthReads(message, ctrl, challenge, site, handle)
  <2> DEFINE params == HeaderLen + 2 * HashLen
  <2>1. params \in Nat
    BY <1>2 DEF HeaderLen
  <2>2. message[2] = CmdAuthenticate /\ message[3] = ctrl
    BY <1>1, <1>10 DEF ReadsAs, HeaderLen
  <2>3. /\ message \in Numbers /\ Len(message) = params + Len(more)
        /\ Carries(message, challenge, site)
        /\ \A i \in 1 .. Len(more) : message[params + i] = more[i]
    BY <1>10 DEF ReadsAs
  <2> HIDE DEF params
  <2>4. \A m, n \in Nat : m >= 1 + n =>
          1 \in 1 .. m /\ \A i \in 1 .. n : 1 + i \in 1 .. m /\ params + 1 + i = params + (1 + i)
    BY <2>1
  <2>5. 1 \in 1 .. Len(more)
        /\ \A i \in 1 .. Len(handle) :
             1 + i \in 1 .. Len(more) /\ params + 1 + i = params + (1 + i)
    BY <1>2, <1>9, <2>4
  <2>6. message[params + 1] = Len(handle)
    BY <1>9, <2>3, <2>5
  <2>7. \A i \in 1 .. Len(handle) : message[params + 1 + i] = handle[i]
    BY <1>9, <2>3, <2>5
  <2>8. Len(message) >= params + 1 + Len(handle)
    BY <1>2, <1>9, <2>1, <2>3
  <2> QED BY <2>2, <2>3, <2>6, <2>7, <2>8 DEF AuthReads, params
<1> QED BY <1>11 DEF message

\* The bytes after the header of a message that may be cut.
LEMMA DataBytes ==
  ASSUME NEW message \in Numbers, NEW raw \in Prefixes(message), Len(raw) >= HeaderLen
  PROVE  LET data == From(raw, HeaderLen + 1) IN
         /\ raw \in Numbers /\ Len(raw) <= Len(message) /\ Len(raw) \in Nat
         /\ \A i \in 1 .. Len(raw) : raw[i] = message[i]
         /\ data \in Numbers /\ Len(data) = Len(raw) - HeaderLen
         /\ \A i \in 1 .. Len(data) : data[i] = message[HeaderLen + i]
<1> DEFINE data == From(raw, HeaderLen + 1)
<1>1. /\ raw \in Numbers /\ Len(raw) <= Len(message)
      /\ \A i \in 1 .. Len(raw) : raw[i] = message[i]
  BY PrefixBytes
<1>2. Len(raw) \in Nat /\ HeaderLen + 1 \in 1 .. Len(raw) + 1
  BY <1>1 DEF Numbers, HeaderLen
<1>3. /\ data \in Numbers /\ Len(data) = Len(raw) - (HeaderLen + 1) + 1
      /\ \A i \in 1 .. Len(raw) - (HeaderLen + 1) + 1 : data[i] = raw[(HeaderLen + 1) - 1 + i]
  BY <1>1, <1>2, FromBytes
<1> HIDE DEF data
<1>4. Len(data) = Len(raw) - HeaderLen
  BY <1>2, <1>3 DEF HeaderLen
<1>5. ASSUME NEW i \in 1 .. Len(data) PROVE data[i] = message[HeaderLen + i]
  <2>1. /\ i \in 1 .. Len(raw) - (HeaderLen + 1) + 1 /\ (HeaderLen + 1) - 1 + i = HeaderLen + i
        /\ HeaderLen + i \in 1 .. Len(raw)
    BY <1>2, <1>4 DEF HeaderLen
  <2> QED BY <1>1, <1>3, <2>1
<1> QED BY <1>1, <1>2, <1>3, <1>4, <1>5 DEF data

\* The two parameters are found where they were put.
LEMMA ParameterSlices ==
  ASSUME NEW data \in Numbers, NEW challenge \in Hashes, NEW site \in Hashes,
         Len(data) >= 2 * HashLen,
         \A i \in 1 .. HashLen : data[i] = challenge[i],
         \A i \in 1 .. HashLen : data[HashLen + i] = site[i]
  PROVE  /\ Upto(data, HashLen) = challenge
         /\ SubSeq(data, HashLen + 1, 2 * HashLen) = site
<1>1. /\ challenge \in Numbers /\ Len(challenge) = HashLen
      /\ site \in Numbers /\ Len(site) = HashLen
      /\ HashLen \in Nat /\ Len(data) \in Nat
  BY HashesAreNumbers, FidoAuthAssumption DEF Numbers
<1>2. SubSeq(data, 1, HashLen) = challenge
  <2>1. /\ HasAt(data, 0, challenge) /\ 0 + Len(challenge) <= Len(data) /\ 1 = 0 + 1
        /\ HashLen = 0 + Len(challenge) /\ 0 \in Nat
    BY <1>1 DEF HasAt
  <2> QED BY <1>1, <2>1, SliceIs
<1>3. SubSeq(data, HashLen + 1, 2 * HashLen) = site
  <2>1. /\ HasAt(data, HashLen, site) /\ HashLen + Len(site) <= Len(data)
        /\ 2 * HashLen = HashLen + Len(site)
    BY <1>1 DEF HasAt
  <2> QED BY <1>1, <2>1, SliceIs
<1> QED BY <1>2, <1>3 DEF Upto

\* A registration that may be cut.
LEMMA RegisterDecoded ==
  ASSUME NEW message, NEW challenge \in Hashes, NEW site \in Hashes,
         RegisterReads(message, challenge, site), NEW raw \in Prefixes(message)
  PROVE  DecodeAuthenticatorRequest(raw) =
           IF Len(raw) >= HeaderLen + 2 * HashLen
           THEN [cmd |-> "register", challenge |-> challenge, app |-> site]
           ELSE Refused
<1>1. HashLen \in Nat /\ HeaderLen = 7 /\ message \in Numbers /\ message[2] = CmdRegister
      /\ Carries(message, challenge, site) /\ Len(raw) \in Nat
  BY FidoAuthAssumption, PrefixBytes DEF HeaderLen, RegisterReads, Numbers
<1>2. CASE Len(raw) < HeaderLen
  BY <1>1, <1>2 DEF DecodeAuthenticatorRequest
<1>3. CASE Len(raw) >= HeaderLen
  <2> DEFINE data == From(raw, HeaderLen + 1)
  <2>1. /\ \A i \in 1 .. Len(raw) : raw[i] = message[i]
        /\ data \in Numbers /\ Len(data) = Len(raw) - HeaderLen
        /\ \A i \in 1 .. Len(data) : data[i] = message[HeaderLen + i]
    BY <1>1, <1>3, DataBytes
  <2>2. raw[2] = CmdRegister
    BY <1>1, <1>3, <2>1
  <2>3. DecodeAuthenticatorRequest(raw) = DecodeRegister(data)
    BY <1>1, <1>3, <2>2 DEF DecodeAuthenticatorRequest, CmdRegister, CmdAuthenticate
  <2> HIDE DEF data
  <2>4. CASE Len(raw) < HeaderLen + 2 * HashLen
    BY <1>1, <2>1, <2>3, <2>4 DEF DecodeRegister
  <2>5. CASE Len(raw) >= HeaderLen + 2 * HashLen
    <3>1. Len(data) >= 2 * HashLen /\ Len(data) \in Nat
      BY <1>1, <2>1, <2>5 DEF Numbers
    <3>2. \A i \in 1 .. HashLen : data[i] = challenge[i]
      <4>1. \A i \in 1 .. HashLen : i \in 1 .. Len(data)
        BY <1>1, <3>1
      <4> QED BY <1>1, <2>1, <4>1 DEF Carries
    <3>3. \A i \in 1 .. HashLen : data[HashLen + i] = site[i]
      <4> SUFFICES ASSUME NEW i \in 1 .. HashLen PROVE data[HashLen + i] = site[i]
        OBVIOUS
      <4>1. HashLen + i \in 1 .. Len(data) /\ HeaderLen + (HashLen + i) = HeaderLen + HashLen + i
        BY <1>1, <3>1
      <4> QED BY <1>1, <2>1, <4>1 DEF Carries
    <3>4. Upto(data, HashLen) = challenge /\ SubSeq(data, HashLen + 1, 2 * HashLen) = site
      BY <2>1, <3>1, <3>2, <3>3, ParameterSlices
    <3>5. DecodeRegister(data) = [cmd |-> "register", challenge |-> challenge, app |-> site]
      BY <1>1, <3>1, <3>4 DEF DecodeRegister
    <3> QED BY <2>3, <2>5, <3>5
  <2> QED BY <1>1, <2>4, <2>5
<1> QED BY <1>1, <1>2, <1>3

\* A request to sign that may be cut.
LEMMA AuthDecoded ==
  ASSUME NEW message, NEW ctrl \in {CtrlCheckOnly, CtrlEnforce}, NEW challenge \in Hashes,
         NEW site \in Hashes, NEW handle \in Numbers,
         AuthReads(message, ctrl, challenge, site, handle), NEW raw \in Prefixes(message)
  PROVE  DecodeAuthenticatorRequest(raw) =
           IF /\ Len(raw) >= HeaderLen + 2 * HashLen + 2
              /\ Len(raw) >= HeaderLen + 2 * HashLen + 1 + Len(handle)
           THEN [cmd |-> "authenticate", ctrl |-> ctrl, challenge |-> challenge, app |-> site,
                 handle |-> handle]
           ELSE Refused
<1>1. HashLen \in Nat /\ HeaderLen = 7 /\ message \in Numbers /\ message[2] = CmdAuthenticate
      /\ message[3] = ctrl /\ Carries(message, challenge, site) /\ Len(raw) \in Nat
      /\ Len(handle) \in Nat
  <2>1. message \in Numbers
    BY DEF AuthReads
  <2>2. Len(raw) \in Nat /\ Len(handle) \in Nat
    BY <2>1, PrefixBytes DEF Numbers
  <2> QED BY <2>1, <2>2, FidoAuthAssumption DEF HeaderLen, AuthReads
<1>2. CASE Len(raw) < HeaderLen
  BY <1>1, <1>2 DEF DecodeAuthenticatorRequest
<1>3. CASE Len(raw) >= HeaderLen
  <2> DEFINE data == From(raw, HeaderLen + 1)
             sized == From(data, 2 * HashLen + 1)
  <2>1. /\ \A i \in 1 .. Len(raw) : raw[i] = message[i]
        /\ data \in Numbers /\ Len(data) = Len(raw) - HeaderLen
        /\ \A i \in 1 .. Len(data) : data[i] = message[HeaderLen + i]
    BY <1>1, <1>3, DataBytes
  <2>2. raw[2] = CmdAuthenticate /\ raw[3] = ctrl
    BY <1>1, <1>3, <2>1
  <2>3. DecodeAuthenticatorRequest(raw) = DecodeAuthenticate(ctrl, data)
    BY <1>1, <1>3, <2>2 DEF DecodeAuthenticatorRequest, CmdRegister, CmdAuthenticate
  <2> HIDE DEF data
  <2>4. CASE Len(raw) < HeaderLen + 2 * HashLen + 2
    BY <1>1, <2>1, <2>3, <2>4 DEF DecodeAuthenticate
  <2>5. CASE Len(raw) >= HeaderLen + 2 * HashLen + 2
    <3>1. Len(data) >= 2 * HashLen + 2 /\ Len(data) \in Nat
      <4>1. Len(data) \in Nat
        BY <2>1 DEF Numbers
      <4> QED BY <1>1, <2>1, <2>5, <4>1
    <3>2. \A i \in 1 .. HashLen : data[i] = challenge[i]
      BY <1>1, <2>1, <3>1 DEF Carries
    <3>3. \A i \in 1 .. HashLen : data[HashLen + i] = site[i]
      <4> SUFFICES ASSUME NEW i \in 1 .. HashLen PROVE data[HashLen + i] = site[i]
        OBVIOUS
      <4>1. HashLen + i \in 1 .. Len(data) /\ HeaderLen + (HashLen + i) = HeaderLen + HashLen + i
        BY <1>1, <3>1
      <4> QED BY <1>1, <2>1, <4>1 DEF Carries
    <3>4. Upto(data, HashLen) = challenge /\ SubSeq(data, HashLen + 1, 2 * HashLen) = site
      BY <1>1, <2>1, <3>1, <3>2, <3>3, ParameterSlices
    <3>5. data[2 * HashLen + 1] = Len(handle)
      <4>1. 2 * HashLen + 1 \in 1 .. Len(data)
            /\ HeaderLen + (2 * HashLen + 1) = HeaderLen + 2 * HashLen + 1
        BY <1>1, <3>1
      <4> QED BY <2>1, <4>1 DEF AuthReads
    <3>6. CASE Len(raw) < HeaderLen + 2 * HashLen + 1 + Len(handle)
      BY <1>1, <2>1, <2>3, <3>5, <3>6 DEF DecodeAuthenticate
    <3>7. CASE Len(raw) >= HeaderLen + 2 * HashLen + 1 + Len(handle)
      <4>1. /\ sized \in Numbers /\ Len(sized) = Len(data) - 2 * HashLen
            /\ \A i \in 1 .. Len(sized) : sized[i] = data[2 * HashLen + i]
        <5> DEFINE n == 2 * HashLen + 1
        <5>1. /\ n \in 1 .. Len(data) + 1 /\ Len(data) - n + 1 = Len(data) - 2 * HashLen
              /\ n - 1 = 2 * HashLen /\ sized = From(data, n)
          BY <1>1, <3>1
        <5> HIDE DEF sized, n
        <5>2. /\ sized \in Numbers /\ Len(sized) = Len(data) - n + 1
              /\ \A i \in 1 .. Len(data) - n + 1 : sized[i] = data[n - 1 + i]
          BY <2>1, <5>1, FromBytes
        <5> QED BY <5>1, <5>2
      <4> HIDE DEF sized
      <4>2. sized[1] = Len(handle)
        <5>1. 1 \in 1 .. Len(sized)
          BY <1>1, <3>1, <4>1
        <5> QED BY <3>5, <4>1, <5>1
      <4>3. \A i \in 1 .. Len(handle) : sized[1 + i] = handle[i]
        <5> SUFFICES ASSUME NEW i \in 1 .. Len(handle) PROVE sized[1 + i] = handle[i]
          OBVIOUS
        <5>1. /\ 1 + i \in 1 .. Len(sized) /\ 2 * HashLen + (1 + i) \in 1 .. Len(data)
              /\ HeaderLen + (2 * HashLen + (1 + i)) = HeaderLen + 2 * HashLen + 1 + i
          BY <1>1, <2>1, <3>1, <3>7, <4>1
        <5>2. sized[1 + i] = data[2 * HashLen + (1 + i)]
          BY <4>1, <5>1
        <5>3. data[2 * HashLen + (1 + i)] = message[HeaderLen + (2 * HashLen + (1 + i))]
          BY <2>1, <5>1
        <5>4. message[HeaderLen + 2 * HashLen + 1 + i] = handle[i]
          BY DEF AuthReads
        <5> QED BY <5>1, <5>2, <5>3, <5>4
      <4>4. HandleIn(sized) = handle
        <5> DEFINE last == 1 + Len(handle)
        <5>1. /\ HasAt(sized, 1, handle) /\ 1 + Len(handle) <= Len(sized) /\ 2 = 1 + 1 /\ 1 \in Nat
          BY <1>1, <2>1, <3>1, <3>7, <4>1, <4>3 DEF HasAt
        <5>2. last = 1 + Len(handle)
          OBVIOUS
        <5> HIDE DEF last
        <5>3. SubSeq(sized, 2, last) = handle
          BY <4>1, <5>1, <5>2, SliceIs
        <5> QED BY <4>2, <5>3 DEF HandleIn, last
      <4>5. ~(Len(data) - 2 * HashLen - 1 < data[2 * HashLen + 1]) /\ ~(Len(data) < 2 * HashLen + 2)
        BY <1>1, <2>1, <3>1, <3>5, <3>7
      <4>6. DecodeAuthenticate(ctrl, data) =
              [cmd |-> "authenticate", ctrl |-> ctrl, challenge |-> challenge, app |-> site,
               handle |-> handle]
        BY <3>4, <4>4, <4>5 DEF DecodeAuthenticate, sized
      <4> QED BY <2>3, <2>5, <3>7, <4>6
    <3> QED BY <1>1, <3>6, <3>7
  <2> QED BY <1>1, <2>4, <2>5
<1> QED BY <1>1, <1>2, <1>3

-----------------------------------------------------------------------------
(* Key handles: what Encode writes. *)

\* What a part becomes.
Piece(part) == (Separator \o <<Len(part)>>) \o part

\* A prefix is the separator and one byte for the length.
LEMMA PrefixNumbers ==
  /\ Separator \in Numbers /\ Len(Separator) \in Nat /\ PrefixLen = Len(Separator) + 1
  /\ PrefixLen \in Nat \ {0}
<1>1. Separator \in Seq(0 .. MaxByte) /\ 0 .. MaxByte \subseteq Nat
  BY LencodeAssumption, ByteAssumption DEF Bytes
<1>2. Separator \in Seq(Nat)
  BY <1>1, SeqMonotonic
<1> QED BY <1>2 DEF Numbers, PrefixLen

\* A piece is the separator, the length, and the part.
LEMMA PieceBytes ==
  ASSUME NEW part \in Numbers
  PROVE  /\ Piece(part) \in Numbers /\ Len(Piece(part)) = PrefixLen + Len(part)
         /\ \A i \in 1 .. Len(Separator) : Piece(part)[i] = Separator[i]
         /\ Piece(part)[PrefixLen] = Len(part)
         /\ \A i \in 1 .. Len(part) : Piece(part)[PrefixLen + i] = part[i]
<1> DEFINE size == <<Len(part)>>
           prefix == Separator \o size
           piece == prefix \o part
<1>1. /\ Separator \in Numbers /\ Len(Separator) \in Nat /\ PrefixLen = Len(Separator) + 1
      /\ Len(part) \in Nat
  BY PrefixNumbers DEF Numbers
<1>2. size \in Numbers /\ Len(size) = 1 /\ size[1] = Len(part)
  BY <1>1 DEF Numbers
<1> HIDE DEF size
<1>3. /\ prefix \in Numbers /\ Len(prefix) = PrefixLen
      /\ \A i \in 1 .. Len(Separator) : prefix[i] = Separator[i]
      /\ prefix[PrefixLen] = Len(part)
  <2>1. /\ prefix \in Numbers /\ Len(prefix) = Len(Separator) + Len(size)
        /\ \A i \in 1 .. Len(Separator) : prefix[i] = Separator[i]
        /\ \A i \in 1 .. Len(size) : prefix[Len(Separator) + i] = size[i]
    BY <1>1, <1>2, ConcatBytes
  <2> HIDE DEF prefix
  <2> QED BY <1>1, <1>2, <2>1
<1> HIDE DEF prefix
<1>4. /\ piece \in Numbers /\ Len(piece) = Len(prefix) + Len(part)
      /\ \A i \in 1 .. Len(prefix) : piece[i] = prefix[i]
      /\ \A i \in 1 .. Len(part) : piece[Len(prefix) + i] = part[i]
  BY <1>3, ConcatBytes
<1>5. piece = Piece(part)
  BY DEF Piece, prefix, size
<1> HIDE DEF piece
<1>6. \A i \in 1 .. Len(Separator) : i \in 1 .. Len(prefix)
  BY <1>1, <1>3
<1>7. PrefixLen \in 1 .. Len(prefix)
  BY <1>1, <1>3
<1> QED BY <1>3, <1>4, <1>5, <1>6, <1>7

\* Where the n-th part ends.
Start(n) ==
  (IF n >= 1 THEN PrefixLen + Len(parts[1]) ELSE 0) +
  (IF n >= 2 THEN PrefixLen + Len(parts[2]) ELSE 0) +
  (IF n >= 3 THEN PrefixLen + Len(parts[3]) ELSE 0)

PartsOK == parts \in [1 .. 3 -> Parts]

\* Each of the three parts is a sequence of numbers.
LEMMA PartNumbers ==
  ASSUME PartsOK, NEW n \in 1 .. 3
  PROVE  parts[n] \in Numbers /\ Len(parts[n]) \in Nat
<1>1. parts[n] \in Seq(0 .. MaxByte) /\ 0 .. MaxByte \subseteq Nat
  BY KeyHandleAssumption, ByteAssumption DEF PartsOK, Bytes
<1>2. parts[n] \in Seq(Nat)
  BY <1>1, SeqMonotonic
<1> QED BY <1>2 DEF Numbers

\* Where a piece ends the next begins.
LEMMA StartSteps ==
  ASSUME PartsOK
  PROVE  /\ Start(0) = 0 /\ \A n \in 0 .. 3 : Start(n) \in Nat
         /\ \A n \in 1 .. 3 : Start(n) = Start(n - 1) + PrefixLen + Len(parts[n])
<1> DEFINE one == Len(parts[1])
           two == Len(parts[2])
           three == Len(parts[3])
<1>1. one \in Nat /\ two \in Nat /\ three \in Nat /\ PrefixLen \in Nat
  BY PartNumbers, PrefixNumbers
<1>2. /\ Start(0) = (IF 0 >= 1 THEN PrefixLen + one ELSE 0) +
                    (IF 0 >= 2 THEN PrefixLen + two ELSE 0) +
                    (IF 0 >= 3 THEN PrefixLen + three ELSE 0)
      /\ Start(1) = (IF 1 >= 1 THEN PrefixLen + one ELSE 0) +
                    (IF 1 >= 2 THEN PrefixLen + two ELSE 0) +
                    (IF 1 >= 3 THEN PrefixLen + three ELSE 0)
      /\ Start(2) = (IF 2 >= 1 THEN PrefixLen + one ELSE 0) +
                    (IF 2 >= 2 THEN PrefixLen + two ELSE 0) +
                    (IF 2 >= 3 THEN PrefixLen + three ELSE 0)
      /\ Start(3) = (IF 3 >= 1 THEN PrefixLen + one ELSE 0) +
                    (IF 3 >= 2 THEN PrefixLen + two ELSE 0) +
                    (IF 3 >= 3 THEN PrefixLen + three ELSE 0)
  BY DEF Start
<1> HIDE DEF one, two, three
<1>3. /\ Start(0) = 0 /\ Start(1) \in Nat /\ Start(2) \in Nat /\ Start(3) \in Nat
  BY <1>1, <1>2
<1>4. /\ Start(1) = Start(0) + PrefixLen + one
      /\ Start(2) = Start(1) + PrefixLen + two
      /\ Start(3) = Start(2) + PrefixLen + three
  BY <1>1, <1>2
<1>5. ASSUME NEW n \in 0 .. 3 PROVE Start(n) \in Nat
  <2>1. CASE n = 0
    BY <1>3, <2>1
  <2>2. CASE n = 1
    BY <1>3, <2>2
  <2>3. CASE n = 2
    BY <1>3, <2>3
  <2>4. CASE n = 3
    BY <1>3, <2>4
  <2> QED BY <2>1, <2>2, <2>3, <2>4
<1>6. ASSUME NEW n \in 1 .. 3 PROVE Start(n) = Start(n - 1) + PrefixLen + Len(parts[n])
  <2>1. CASE n = 1
    BY <1>4, <2>1 DEF one
  <2>2. CASE n = 2
    BY <1>4, <2>2 DEF two
  <2>3. CASE n = 3
    BY <1>4, <2>3 DEF three
  <2> QED BY <2>1, <2>2, <2>3
<1> QED BY <1>3, <1>5, <1>6

\* StartSteps in terms of the piece.
LEMMA PieceAfter ==
  ASSUME PartsOK, NEW n \in 1 .. 3
  PROVE  /\ Piece(parts[n]) \in Numbers /\ Len(Piece(parts[n])) \in Nat
         /\ Start(n - 1) \in Nat /\ Start(n) \in Nat
         /\ Start(n) = Start(n - 1) + Len(Piece(parts[n]))
<1> DEFINE size == Len(parts[n])
           whole == Len(Piece(parts[n]))
<1>1. parts[n] \in Numbers /\ size \in Nat /\ PrefixLen \in Nat
  BY PartNumbers, PrefixNumbers
<1>2. Piece(parts[n]) \in Numbers /\ whole = PrefixLen + size
  BY <1>1, PieceBytes
<1>3. n - 1 \in 0 .. 3 /\ n \in 0 .. 3
  OBVIOUS
<1>4. Start(n - 1) \in Nat /\ Start(n) \in Nat /\ Start(n) = Start(n - 1) + PrefixLen + size
  BY <1>3, StartSteps
<1> HIDE DEF size, whole
<1>5. whole \in Nat /\ Start(n) = Start(n - 1) + whole
  BY <1>1, <1>2, <1>4
<1> QED BY <1>2, <1>4, <1>5 DEF whole

\* Later pieces begin later.
LEMMA StartGrows ==
  ASSUME PartsOK, NEW n \in 0 .. 3, NEW m \in n .. 3
  PROVE  Start(n) <= Start(m)
<1>1. Start(0) \in Nat /\ Start(1) \in Nat /\ Start(2) \in Nat /\ Start(3) \in Nat
  BY StartSteps
<1>2. \A k \in 1 .. 3 : Start(k - 1) <= Start(k)
  <2> SUFFICES ASSUME NEW k \in 1 .. 3 PROVE Start(k - 1) <= Start(k)
    OBVIOUS
  <2> DEFINE size == Len(Piece(parts[k]))
  <2>1. size \in Nat /\ Start(k - 1) \in Nat /\ Start(k) = Start(k - 1) + size
    BY PieceAfter
  <2> HIDE DEF size
  <2> QED BY <2>1
<1>3. Start(0) <= Start(1) /\ Start(1) <= Start(2) /\ Start(2) <= Start(3)
  <2>1. 1 \in 1 .. 3 /\ 2 \in 1 .. 3 /\ 3 \in 1 .. 3 /\ 1 - 1 = 0 /\ 2 - 1 = 1 /\ 3 - 1 = 2
    OBVIOUS
  <2> QED BY <1>2, <2>1
<1>4. Start(0) <= Start(2) /\ Start(0) <= Start(3) /\ Start(1) <= Start(3)
  BY <1>1, <1>3
<1>5. CASE m = n
  <2>1. Start(n) \in Nat
    BY StartSteps
  <2> QED BY <1>5, <2>1
<1>6. CASE m # n
  <2>1. CASE n = 0
    <3>1. m = 1 \/ m = 2 \/ m = 3
      BY <1>6, <2>1
    <3> QED BY <1>3, <1>4, <2>1, <3>1
  <2>2. CASE n = 1
    <3>1. m = 2 \/ m = 3
      BY <1>6, <2>2
    <3> QED BY <1>3, <1>4, <2>2, <3>1
  <2>3. CASE n = 2
    <3>1. m = 3
      BY <1>6, <2>3
    <3> QED BY <1>3, <2>3, <3>1
  <2>4. n = 0 \/ n = 1 \/ n = 2
    BY <1>6
  <2> QED BY <2>1, <2>2, <2>3, <2>4
<1> QED BY <1>5, <1>6

\* The bytes are the first m pieces.
Laid(bytes, m) ==
  /\ bytes \in Numbers /\ Len(bytes) = Start(m)
  /\ \A n \in 1 .. m : HasAt(bytes, Start(n - 1), Piece(parts[n]))

\* Appending the next piece to pieces laid one after another lays one more.
LEMMA LaidNext ==
  ASSUME PartsOK, NEW bytes, NEW m \in 1 .. 3, Laid(bytes, m - 1)
  PROVE  Laid(bytes \o Piece(parts[m]), m)
<1> DEFINE piece == Piece(parts[m])
           longer == bytes \o piece
           size == Len(piece)
<1>1. /\ piece \in Numbers /\ size \in Nat
      /\ bytes \in Numbers /\ Len(bytes) = Start(m - 1) /\ Start(m - 1) \in Nat
      /\ Start(m) = Start(m - 1) + size
  BY PieceAfter DEF Laid
<1> HIDE DEF piece
<1>2. /\ longer \in Numbers /\ Len(longer) = Len(bytes) + Len(piece)
      /\ \A i \in 1 .. Len(bytes) : longer[i] = bytes[i]
      /\ \A i \in 1 .. Len(piece) : longer[Len(bytes) + i] = piece[i]
  BY <1>1, ConcatBytes
<1> HIDE DEF longer
<1>3. HasAt(longer, Start(m - 1), Piece(parts[m])) /\ Len(longer) = Start(m)
  BY <1>1, <1>2 DEF HasAt, piece
<1>4. ASSUME NEW n \in 1 .. m - 1 PROVE HasAt(longer, Start(n - 1), Piece(parts[n]))
  <2> DEFINE before == Start(n - 1)
             old == Piece(parts[n])
             oldSize == Len(old)
  <2>1. HasAt(bytes, before, old)
    BY DEF Laid
  <2>2. n \in 1 .. 3 /\ n \in 0 .. 3 /\ m - 1 \in n .. 3
    OBVIOUS
  <2>3. before \in Nat /\ oldSize \in Nat /\ Start(n) = before + oldSize
    BY <2>2, PieceAfter
  <2>4. Start(n) <= Start(m - 1)
    BY <2>2, StartGrows
  <2> HIDE DEF before, old
  <2>5. ASSUME NEW i \in 1 .. oldSize PROVE longer[before + i] = old[i]
    <3> HIDE DEF oldSize
    <3>1. before + i \in 1 .. Start(m - 1)
      BY <1>1, <2>3, <2>4
    <3>2. longer[before + i] = bytes[before + i]
      BY <1>1, <1>2, <3>1
    <3> QED BY <2>1, <3>2 DEF HasAt, oldSize
  <2> QED BY <2>5 DEF HasAt, before, old
<1>5. \A n \in 1 .. m : n = m \/ n \in 1 .. m - 1
  OBVIOUS
<1>6. Laid(longer, m)
  BY <1>2, <1>3, <1>4, <1>5 DEF Laid
<1> QED BY <1>6 DEF longer, piece

EncoderType == [out : Numbers, err : BOOLEAN]

\* Encode appends one piece, or nothing once it has failed or if the part is
\* too long.
LEMMA EncodeOf ==
  ASSUME NEW e \in EncoderType, NEW part \in Numbers
  PROVE  /\ Encode(e, part) \in EncoderType
         /\ e.err \/ Len(part) > MaxByte => Encode(e, part).out = e.out /\ Encode(e, part).err
         /\ ~e.err /\ ~(Len(part) > MaxByte) =>
              Encode(e, part).out = e.out \o Piece(part) /\ ~Encode(e, part).err
<1>1. e.out \in Numbers /\ e.err \in BOOLEAN
  BY DEF EncoderType
<1>2. CASE e.err
  BY <1>1, <1>2 DEF Encode
<1>3. CASE ~e.err /\ Len(part) > MaxByte
  <2>1. Encode(e, part) = [e EXCEPT !.err = TRUE]
    BY <1>3 DEF Encode
  <2> QED BY <1>1, <1>3, <2>1 DEF EncoderType
<1>4. CASE ~e.err /\ ~(Len(part) > MaxByte)
  <2> DEFINE size == <<Len(part)>>
             longer == ((e.out \o Separator) \o size) \o part
  <2>1. Encode(e, part) = [e EXCEPT !.out = longer]
    BY <1>4 DEF Encode
  <2>2. /\ Separator \in Numbers /\ size \in Numbers
        /\ Separator \o size \in Numbers
    <3>1. Separator \in Numbers
      BY PrefixNumbers
    <3>2. Len(part) \in Nat
      BY DEF Numbers
    <3>3. size \in Numbers
      BY <3>2 DEF Numbers
    <3> HIDE DEF size
    <3> QED BY <3>1, <3>3, ConcatBytes
  <2>3. longer = e.out \o Piece(part)
    <3>1. Piece(part) = (Separator \o size) \o part
      BY DEF Piece
    <3> HIDE DEF size
    <3>2. (e.out \o Separator) \o size = e.out \o (Separator \o size)
      BY <1>1, <2>2, ConcatAssoc
    <3>3. (e.out \o (Separator \o size)) \o part = e.out \o ((Separator \o size) \o part)
      <4> DEFINE before == Separator \o size
                 written == e.out
      <4>1. before \in Numbers /\ written \in Numbers
        BY <1>1, <2>2
      <4> HIDE DEF before, written
      <4>2. (written \o before) \o part = written \o (before \o part)
        BY <4>1, ConcatAssoc
      <4> QED BY <4>2 DEF before, written
    <3> QED BY <3>1, <3>2, <3>3
  <2>4. e.out \o Piece(part) \in Numbers
    BY <1>1, PieceBytes, ConcatBytes
  <2> HIDE DEF longer
  <2> QED BY <1>1, <1>4, <2>1, <2>3, <2>4 DEF EncoderType
<1> QED BY <1>2, <1>3, <1>4

TooLong(n) == Len(parts[n]) > MaxByte

\* How many parts are encoded before one is too long.
Encoded == IF TooLong(1) THEN 0 ELSE IF TooLong(2) THEN 1 ELSE IF TooLong(3) THEN 2 ELSE 3

\* The encoder has written the parts before the first that is too long.
WrittenBy(e) == e \in EncoderType /\ Laid(e.out, Encoded) /\ (e.err <=> Encoded # 3)

\* The three calls of RegisterKey lay the pieces up to the first part that is
\* too long.
LEMMA KeyWritten ==
  ASSUME PartsOK
  PROVE  WrittenBy(Encode(Encode(Encode(NewEncoder, parts[1]), parts[2]), parts[3]))
<1> DEFINE first == Encode(NewEncoder, parts[1])
           second == Encode(first, parts[2])
           third == Encode(second, parts[3])
<1>0. parts[1] \in Numbers /\ parts[2] \in Numbers /\ parts[3] \in Numbers
  BY PartNumbers
<1>1. NewEncoder \in EncoderType /\ Laid(NewEncoder.out, 0) /\ ~NewEncoder.err
  <2>1. <<>> \in Numbers /\ Len(<<>>) = 0
    BY DEF Numbers
  <2>2. Start(0) = 0
    BY StartSteps
  <2>3. Laid(<<>>, 0)
    BY <2>1, <2>2 DEF Laid
  <2> QED BY <2>1, <2>3 DEF NewEncoder, EncoderType
<1>2. first \in EncoderType
      /\ IF TooLong(1) THEN Laid(first.out, 0) /\ first.err ELSE Laid(first.out, 1) /\ ~first.err
  <2>1. Laid(NewEncoder.out \o Piece(parts[1]), 1)
    BY <1>1, LaidNext
  <2> QED BY <1>0, <1>1, <2>1, EncodeOf DEF TooLong
<1> HIDE DEF first
<1>3. /\ second \in EncoderType
      /\ TooLong(1) => Laid(second.out, 0) /\ second.err
      /\ ~TooLong(1) /\ TooLong(2) => Laid(second.out, 1) /\ second.err
      /\ ~TooLong(1) /\ ~TooLong(2) => Laid(second.out, 2) /\ ~second.err
  <2>1. CASE TooLong(1)
    BY <1>0, <1>2, <2>1, EncodeOf
  <2>2. CASE ~TooLong(1)
    <3>1. Laid(first.out, 1) /\ ~first.err /\ first \in EncoderType
      BY <1>2, <2>2
    <3>2. Laid(first.out \o Piece(parts[2]), 2)
      <4>1. 2 \in 1 .. 3 /\ Laid(first.out, 2 - 1)
        BY <3>1
      <4> QED BY <4>1, LaidNext
    <3>3. CASE TooLong(2)
      BY <1>0, <2>2, <3>1, <3>3, EncodeOf DEF TooLong
    <3>4. CASE ~TooLong(2)
      <4>1. second.out = first.out \o Piece(parts[2]) /\ ~second.err /\ second \in EncoderType
        BY <1>0, <3>1, <3>4, EncodeOf DEF TooLong
      <4> HIDE DEF second
      <4> QED BY <2>2, <3>2, <3>4, <4>1
    <3> QED BY <3>3, <3>4
  <2> QED BY <2>1, <2>2
<1> HIDE DEF second
<1>4. WrittenBy(third)
  <2>1. CASE TooLong(1)
    <3>1. Laid(second.out, 0) /\ second.err /\ second \in EncoderType
      BY <1>3, <2>1
    <3>2. third.out = second.out /\ third.err /\ third \in EncoderType
      BY <1>0, <3>1, EncodeOf
    <3>3. Encoded = 0
      BY <2>1 DEF Encoded
    <3> HIDE DEF third
    <3> QED BY <3>1, <3>2, <3>3 DEF WrittenBy
  <2>2. CASE ~TooLong(1) /\ TooLong(2)
    <3>1. Laid(second.out, 1) /\ second.err /\ second \in EncoderType
      BY <1>3, <2>2
    <3>2. third.out = second.out /\ third.err /\ third \in EncoderType
      BY <1>0, <3>1, EncodeOf
    <3>3. Encoded = 1
      BY <2>2 DEF Encoded
    <3> HIDE DEF third
    <3> QED BY <3>1, <3>2, <3>3 DEF WrittenBy
  <2>3. CASE ~TooLong(1) /\ ~TooLong(2)
    <3>1. Laid(second.out, 2) /\ ~second.err /\ second \in EncoderType
      BY <1>3, <2>3
    <3>2. Laid(second.out \o Piece(parts[3]), 3)
      <4>1. 3 \in 1 .. 3 /\ Laid(second.out, 3 - 1)
        BY <3>1
      <4> QED BY <4>1, LaidNext
    <3>3. CASE TooLong(3)
      <4>1. third.out = second.out /\ third.err /\ third \in EncoderType
        BY <1>0, <3>1, <3>3, EncodeOf DEF TooLong
      <4>2. Encoded = 2
        BY <2>3, <3>3 DEF Encoded
      <4> HIDE DEF third
      <4> QED BY <3>1, <4>1, <4>2 DEF WrittenBy
    <3>4. CASE ~TooLong(3)
      <4>1. third.out = second.out \o Piece(parts[3]) /\ ~third.err /\ third \in EncoderType
        BY <1>0, <3>1, <3>4, EncodeOf DEF TooLong
      <4>2. Encoded = 3
        BY <2>3, <3>4 DEF Encoded
      <4> HIDE DEF third
      <4> QED BY <3>2, <4>1, <4>2 DEF WrittenBy
    <3> QED BY <3>3, <3>4
  <2> QED BY <2>1, <2>2, <2>3
<1> QED BY <1>4 DEF third, second, first

-----------------------------------------------------------------------------
(* Key handles: what Decode reads. *)

\* A decoder that has not failed, between two messages.
DecoderType == [in : Numbers, pending : {NoPrefix}, err : {"none"}, got : Seq(Numbers)]

\* A whole message is at hand, behind its separator and its size.
Readable(d) ==
  /\ Len(d.in) >= PrefixLen /\ Upto(d.in, Len(Separator)) = Separator
  /\ Len(d.in) >= PrefixLen + d.in[PrefixLen]

\* Decode takes the next message if its prefix and its bytes are there, and
\* fails otherwise; it never panics.
LEMMA DecodeOf ==
  ASSUME NEW d \in DecoderType
  PROVE  LET rest == From(d.in, PrefixLen + 1)
             size == d.in[PrefixLen]
         IN
         /\ Decode(d).err \notin {"small", "panic"}
         /\ Readable(d) =>
              Decode(d) = [in |-> From(rest, size + 1), pending |-> NoPrefix, err |-> "none",
                           got |-> Append(d.got, Upto(rest, size))]
         /\ ~Readable(d) => Decode(d).err # "none" /\ Decode(d).got = d.got
         /\ d.in = <<>> => Decode(d).err = "EOF"
<1> DEFINE rest == From(d.in, PrefixLen + 1)
           size == d.in[PrefixLen]
           known == ReadPrefix(d)
<1>0. /\ d.in \in Numbers /\ d.pending = NoPrefix /\ d.err = "none" /\ d.got \in Seq(Numbers)
      /\ Len(d.in) \in Nat /\ PrefixLen \in Nat \ {0}
      /\ d = [in |-> d.in, pending |-> d.pending, err |-> d.err, got |-> d.got]
  BY PrefixNumbers DEF DecoderType, Numbers
<1>1. Decode(d) = ReadInto(ReadPrefix(known), known.pending)
  BY DEF Decode, DecodeInto
<1>2. CASE d.in = <<>>
  <2>1. known = Fails(d, "EOF")
    BY <1>0, <1>2 DEF ReadPrefix
  <2>2. known.err = "EOF" /\ known.got = d.got
    BY <1>0, <2>1 DEF Fails
  <2> HIDE DEF known
  <2>3. ReadPrefix(known) = known
    BY <2>2 DEF ReadPrefix
  <2>4. Decode(d) = known
    BY <1>1, <2>2, <2>3 DEF ReadInto
  <2>5. ~Readable(d)
    BY <1>0, <1>2 DEF Readable
  <2> QED BY <2>2, <2>4, <2>5
<1>3. CASE d.in # <<>> /\ Len(d.in) < PrefixLen
  <2>1. known = Fails([d EXCEPT !.in = <<>>], "UnexpectedEOF")
    BY <1>0, <1>3 DEF ReadPrefix
  <2>2. known.err = "UnexpectedEOF" /\ known.got = d.got
    BY <1>0, <2>1 DEF Fails
  <2> HIDE DEF known
  <2>3. ReadPrefix(known) = known
    BY <2>2 DEF ReadPrefix
  <2>4. Decode(d) = known
    BY <1>1, <2>2, <2>3 DEF ReadInto
  <2>5. ~Readable(d)
    BY <1>0, <1>3 DEF Readable
  <2> QED BY <1>3, <2>2, <2>4, <2>5
<1>4. CASE Len(d.in) >= PrefixLen /\ Upto(d.in, Len(Separator)) # Separator
  <2>1. d.in # <<>> /\ ~(Len(d.in) < PrefixLen)
    BY <1>0, <1>4
  <2>2. known = Fails([d EXCEPT !.in = rest], "mismatch")
    BY <1>0, <1>4, <2>1 DEF ReadPrefix
  <2>3. known.err = "mismatch" /\ known.got = d.got
    BY <1>0, <2>2 DEF Fails
  <2> HIDE DEF known
  <2>4. ReadPrefix(known) = known
    BY <2>3 DEF ReadPrefix
  <2>5. Decode(d) = known
    BY <1>1, <2>3, <2>4 DEF ReadInto
  <2>6. ~Readable(d)
    BY <1>4 DEF Readable
  <2> QED BY <2>1, <2>3, <2>5, <2>6
<1>5. CASE Len(d.in) >= PrefixLen /\ Upto(d.in, Len(Separator)) = Separator
  <2>1. d.in # <<>> /\ ~(Len(d.in) < PrefixLen)
    BY <1>0, <1>5
  <2>2. size \in Nat
    <3>1. PrefixLen \in 1 .. Len(d.in)
      BY <1>0, <1>5
    <3> QED BY <1>0, <3>1, ElementOfSeq DEF Numbers
  <2>3. rest \in Numbers /\ Len(rest) = Len(d.in) - PrefixLen
    <3>1. PrefixLen + 1 \in 1 .. Len(d.in) + 1 /\ Len(d.in) - (PrefixLen + 1) + 1 = Len(d.in) - PrefixLen
      BY <1>0, <1>5
    <3> QED BY <1>0, <3>1, FromBytes
  <2>4. known = [[d EXCEPT !.in = rest] EXCEPT !.pending = size]
    BY <1>0, <1>5, <2>1 DEF ReadPrefix
  <2> HIDE DEF rest, size
  <2>5. known = [in |-> rest, pending |-> size, err |-> "none", got |-> d.got]
    BY <1>0, <2>4
  <2> HIDE DEF known
  <2>6. ReadPrefix(known) = known
    BY <2>2, <2>5 DEF ReadPrefix, NoPrefix
  <2>7. Decode(d) = ReadInto(known, size)
    BY <1>1, <2>5, <2>6
  <2>8. CASE Len(rest) < size
    <3>1. Decode(d) = Fails([known EXCEPT !.in = <<>>], "UnexpectedEOF")
      BY <2>2, <2>5, <2>7, <2>8 DEF ReadInto
    <3>2. Decode(d).err = "UnexpectedEOF" /\ Decode(d).got = d.got
      BY <2>5, <3>1 DEF Fails
    <3>3. ~Readable(d)
      BY <1>0, <2>2, <2>3, <2>8 DEF Readable, size
    <3> QED BY <2>1, <3>2, <3>3
  <2>9. CASE ~(Len(rest) < size)
    <3>1. Decode(d) = [known EXCEPT !.in = From(rest, size + 1), !.pending = NoPrefix,
                                    !.got = Append(d.got, Upto(rest, size))]
      BY <2>2, <2>5, <2>7, <2>9 DEF ReadInto
    <3>2. Decode(d) = [in |-> From(rest, size + 1), pending |-> NoPrefix, err |-> "none",
                       got |-> Append(d.got, Upto(rest, size))]
      BY <2>5, <3>1
    <3>3. Readable(d)
      <4>1. Len(rest) >= size
        BY <1>0, <2>2, <2>3, <2>9
      <4> QED BY <1>0, <1>5, <2>2, <2>3, <4>1 DEF Readable, size
    <3>4. Decode(d).err = "none"
      BY <3>2
    <3> QED BY <2>1, <3>2, <3>3, <3>4 DEF rest, size
  <2> QED BY <2>8, <2>9
<1>6. Upto(d.in, Len(Separator)) = Separator \/ Upto(d.in, Len(Separator)) # Separator
  OBVIOUS
<1>7. Len(d.in) < PrefixLen \/ Len(d.in) >= PrefixLen
  BY <1>0
<1> QED BY <1>2, <1>3, <1>4, <1>5, <1>6, <1>7

\* Two slices to the end, one after the other, are one.
LEMMA FromFrom ==
  ASSUME NEW bytes \in Numbers, NEW a \in Nat, NEW b \in Nat, a + b <= Len(bytes)
  PROVE  From(From(bytes, a + 1), b + 1) = From(bytes, a + b + 1)
<1> DEFINE once == From(bytes, a + 1)
           twice == From(once, b + 1)
           straight == From(bytes, a + b + 1)
           size == Len(bytes)
<1>1. size \in Nat
  BY DEF Numbers
<1>2. a + 1 \in 1 .. size + 1 /\ a + b + 1 \in 1 .. size + 1
  BY <1>1
<1>3. /\ once \in Numbers /\ Len(once) = size - a
      /\ \A i \in 1 .. size - a : once[i] = bytes[a + i]
  <2>1. /\ once \in Numbers /\ Len(once) = size - (a + 1) + 1
        /\ \A i \in 1 .. size - (a + 1) + 1 : once[i] = bytes[(a + 1) - 1 + i]
    BY <1>2, FromBytes
  <2> HIDE DEF once, size
  <2>2. size - (a + 1) + 1 = size - a /\ (a + 1) - 1 = a
    BY <1>1
  <2> QED BY <2>1, <2>2
<1>4. /\ straight \in Numbers /\ Len(straight) = size - a - b
      /\ \A i \in 1 .. size - a - b : straight[i] = bytes[a + b + i]
  <2>1. /\ straight \in Numbers /\ Len(straight) = size - (a + b + 1) + 1
        /\ \A i \in 1 .. size - (a + b + 1) + 1 : straight[i] = bytes[(a + b + 1) - 1 + i]
    BY <1>2, FromBytes
  <2> HIDE DEF straight, size
  <2>2. size - (a + b + 1) + 1 = size - a - b /\ (a + b + 1) - 1 = a + b
    BY <1>1
  <2> QED BY <2>1, <2>2
<1> HIDE DEF once, straight, size
<1>5. /\ twice \in Numbers /\ Len(twice) = size - a - b
      /\ \A i \in 1 .. size - a - b : twice[i] = once[b + i]
  <2>1. b + 1 \in 1 .. Len(once) + 1
    BY <1>1, <1>3 DEF size
  <2>2. /\ twice \in Numbers /\ Len(twice) = Len(once) - (b + 1) + 1
        /\ \A i \in 1 .. Len(once) - (b + 1) + 1 : twice[i] = once[(b + 1) - 1 + i]
    BY <1>3, <2>1, FromBytes
  <2> HIDE DEF twice
  <2>3. Len(once) - (b + 1) + 1 = size - a - b /\ (b + 1) - 1 = b
    BY <1>1, <1>3
  <2> QED BY <2>2, <2>3
<1> HIDE DEF twice
<1>6. \A i \in 1 .. Len(twice) : twice[i] = straight[i]
  <2> SUFFICES ASSUME NEW i \in 1 .. size - a - b PROVE twice[i] = straight[i]
    BY <1>5
  <2>1. b + i \in 1 .. size - a /\ a + (b + i) = a + b + i
    BY <1>1
  <2> QED BY <1>3, <1>4, <1>5, <2>1
<1>7. twice = straight
  BY <1>4, <1>5, <1>6, SeqEqual DEF Numbers
<1> QED BY <1>7 DEF twice, once, straight

\* The bytes from s on, where the piece of a part is expected, as far as they go.
Expected(bytes, s, part) ==
  \A i \in 1 .. Len(Piece(part)) : s + i <= Len(bytes) => bytes[s + i] = Piece(part)[i]

\* What Decode makes of a decoder that is s bytes into a handle.
Takes(d, bytes, s, part) ==
  /\ s + Len(Piece(part)) <= Len(bytes)
  /\ Decode(d) \in DecoderType
  /\ Decode(d).got = Append(d.got, part)
  /\ Decode(d).in = From(bytes, s + Len(Piece(part)) + 1)

\* A decoder that reads a message is as ready for the next one.
LEMMA DecodeReads ==
  ASSUME NEW d \in DecoderType, Readable(d)
  PROVE  LET size == d.in[PrefixLen] IN
         /\ size \in Nat /\ PrefixLen + size <= Len(d.in)
         /\ Decode(d) \in DecoderType
         /\ Decode(d).in = From(d.in, PrefixLen + size + 1)
         /\ \E taken \in Numbers : Decode(d).got = Append(d.got, taken)
         /\ Decode(d).got = Append(d.got, SubSeq(d.in, PrefixLen + 1, PrefixLen + size))
<1> DEFINE rest == From(d.in, PrefixLen + 1)
           size == d.in[PrefixLen]
           taken == Upto(rest, size)
           left == From(rest, size + 1)
<1>1. /\ d.in \in Numbers /\ Len(d.in) \in Nat /\ d.got \in Seq(Numbers)
      /\ PrefixLen \in Nat \ {0}
  BY PrefixNumbers DEF DecoderType, Numbers
<1>2. size \in Nat /\ PrefixLen + size <= Len(d.in)
  <2>1. PrefixLen \in 1 .. Len(d.in)
    BY <1>1 DEF Readable
  <2>2. size \in Nat
    BY <1>1, <2>1, ElementOfSeq DEF Numbers
  <2> QED BY <1>1, <2>2 DEF Readable
<1>3. Decode(d) = [in |-> left, pending |-> NoPrefix, err |-> "none",
                   got |-> Append(d.got, taken)]
  BY DecodeOf
<1>4. left = From(d.in, PrefixLen + size + 1)
  <2> HIDE DEF size
  <2> QED BY <1>1, <1>2, FromFrom
<1>5. rest \in Numbers /\ Len(rest) = Len(d.in) - PrefixLen
  <2>1. PrefixLen + 1 \in 1 .. Len(d.in) + 1
    BY <1>1, <1>2
  <2>2. rest \in Numbers /\ Len(rest) = Len(d.in) - (PrefixLen + 1) + 1
    BY <1>1, <2>1, FromBytes
  <2> HIDE DEF rest
  <2> QED BY <1>1, <2>2
<1>6. left \in Numbers
  <2> HIDE DEF rest, size
  <2>1. size + 1 \in 1 .. Len(rest) + 1
    BY <1>1, <1>2, <1>5
  <2> QED BY <1>5, <2>1, FromBytes
<1>7. taken \in Numbers
  <2> HIDE DEF rest, size
  <2>1. size \in 0 .. Len(rest)
    BY <1>1, <1>2, <1>5
  <2>2. taken \in Prefixes(rest)
    BY <2>1 DEF Prefixes
  <2> QED BY <1>5, <2>2, PrefixBytes
<1>8. taken = SubSeq(d.in, PrefixLen + 1, PrefixLen + size)
  <2> DEFINE slice == SubSeq(d.in, PrefixLen + 1, PrefixLen + size)
  <2>1. taken = SubSeq(rest, 1, size)
    BY DEF Upto
  <2>2. Len(taken) = size
    <3> HIDE DEF rest, size
    <3>1. size <= Len(rest)
      BY <1>1, <1>2, <1>5
    <3> QED BY <1>2, <1>5, <2>1, <3>1, SubSeqProperties DEF Numbers
  <2>3. ASSUME NEW i \in 1 .. size PROVE d.in[PrefixLen + i] = taken[i]
    <3>1. PrefixLen + 1 \in 1 .. Len(d.in) + 1
      BY <1>1, <1>2
    <3>2. \A k \in 1 .. Len(d.in) - (PrefixLen + 1) + 1 : rest[k] = d.in[(PrefixLen + 1) - 1 + k]
      BY <1>1, <3>1, FromBytes
    <3> HIDE DEF rest, size
    <3>3. i \in 1 .. Len(d.in) - (PrefixLen + 1) + 1 /\ (PrefixLen + 1) - 1 + i = PrefixLen + i
      BY <1>1, <1>2
    <3>4. rest[i] = d.in[PrefixLen + i]
      BY <3>2, <3>3
    <3>5. size <= Len(rest)
      BY <1>1, <1>2, <1>5
    <3>6. taken[i] = rest[1 + i - 1]
      BY <1>2, <1>5, <2>1, <3>5, SubSeqProperties DEF Numbers
    <3> QED BY <1>2, <3>4, <3>6
  <2> HIDE DEF taken, size
  <2>4. HasAt(d.in, PrefixLen, taken)
    BY <2>2, <2>3 DEF HasAt
  <2>5. PrefixLen + Len(taken) <= Len(d.in) /\ PrefixLen \in Nat
    BY <1>1, <1>2, <2>2
  <2>6. SubSeq(d.in, PrefixLen + 1, PrefixLen + Len(taken)) = taken
    <3> DEFINE whole == d.in
               ahead == PrefixLen
    <3>1. whole \in Numbers /\ ahead \in Nat /\ HasAt(whole, ahead, taken)
      BY <1>1, <2>4
    <3>2. ahead + Len(taken) <= Len(whole)
      BY <2>5
    <3> HIDE DEF whole, ahead
    <3>3. SubSeq(whole, ahead + 1, ahead + Len(taken)) = taken
      BY <1>7, <3>1, <3>2, SliceFound
    <3> QED BY <3>3 DEF whole, ahead
  <2> QED BY <2>2, <2>6
<1>9. Append(d.got, taken) \in Seq(Numbers)
  BY <1>1, <1>7
<1> HIDE DEF taken, left
<1>10. Decode(d) \in DecoderType
  BY <1>3, <1>6, <1>9 DEF DecoderType
<1>11. Decode(d).in = left /\ Decode(d).got = Append(d.got, taken)
  BY <1>3
<1> HIDE DEF size
<1> QED BY <1>2, <1>4, <1>7, <1>8, <1>10, <1>11 DEF size

\* Where the piece of a part is expected, Decode takes the part, if it is all there.
LEMMA PieceTaken ==
  ASSUME NEW d \in DecoderType, NEW bytes \in Numbers, NEW s \in Nat, s <= Len(bytes),
         NEW part \in Numbers, d.in = From(bytes, s + 1), Expected(bytes, s, part)
  PROVE  /\ s + Len(Piece(part)) <= Len(bytes) => Readable(d)
         /\ Readable(d) => Takes(d, bytes, s, part)
<1> DEFINE size == Len(part)
           in == d.in
           piece == Piece(part)
           far == Len(bytes)
<1>1. /\ size \in Nat /\ far \in Nat /\ in \in Numbers /\ Len(in) \in Nat
      /\ PrefixLen \in Nat \ {0} /\ PrefixLen = Len(Separator) + 1 /\ Len(Separator) \in Nat
      /\ Separator \in Numbers /\ piece \in Numbers /\ Len(piece) = PrefixLen + size
  <2>1. in \in Numbers
    BY DEF DecoderType
  <2>2. size \in Nat /\ far \in Nat /\ Len(in) \in Nat
    BY <2>1 DEF Numbers
  <2>3. piece \in Numbers /\ Len(piece) = PrefixLen + size
    BY PieceBytes
  <2> QED BY <2>1, <2>2, <2>3, PrefixNumbers
<1>2. Len(in) = far - s /\ \A i \in 1 .. far - s : in[i] = bytes[s + i]
  <2>1. s + 1 \in 1 .. far + 1
    BY <1>1
  <2>2. /\ Len(in) = far - (s + 1) + 1
        /\ \A i \in 1 .. far - (s + 1) + 1 : in[i] = bytes[(s + 1) - 1 + i]
    BY <2>1, FromBytes
  <2> HIDE DEF in, far
  <2>3. far - (s + 1) + 1 = far - s /\ (s + 1) - 1 = s
    BY <1>1
  <2> QED BY <2>2, <2>3
<1>3. \A i \in 1 .. Len(piece) : i <= Len(in) => in[i] = piece[i]
  <2> SUFFICES ASSUME NEW i \in 1 .. Len(piece), i <= Len(in) PROVE in[i] = piece[i]
    OBVIOUS
  <2>1. s + i <= Len(bytes) => bytes[s + i] = piece[i]
    BY DEF Expected
  <2> HIDE DEF in, piece
  <2>2. i \in 1 .. far - s /\ s + i <= far
    BY <1>1, <1>2
  <2> QED BY <1>2, <2>1, <2>2
<1>4. ASSUME Len(in) >= PrefixLen PROVE Upto(in, Len(Separator)) = Separator /\ in[PrefixLen] = size
  <2>1. /\ \A i \in 1 .. Len(Separator) : piece[i] = Separator[i]
        /\ piece[PrefixLen] = size
    BY PieceBytes
  <2> HIDE DEF in, piece, size
  <2>2. \A i \in 1 .. Len(Separator) : in[0 + i] = Separator[i]
    BY <1>1, <1>3, <1>4, <2>1
  <2>3. HasAt(in, 0, Separator) /\ 0 + Len(Separator) <= Len(in) /\ 0 \in Nat
    BY <1>1, <1>4, <2>2 DEF HasAt
  <2>4. SubSeq(in, 1, Len(Separator)) = Separator
    <3>1. SubSeq(in, 0 + 1, 0 + Len(Separator)) = Separator
      BY <1>1, <2>3, SliceFound
    <3>2. 0 + 1 = 1 /\ 0 + Len(Separator) = Len(Separator)
      BY <1>1
    <3> QED BY <3>1, <3>2
  <2>5. PrefixLen \in 1 .. Len(piece) /\ PrefixLen <= Len(in)
    BY <1>1, <1>4
  <2> QED BY <1>3, <2>1, <2>4, <2>5 DEF Upto
<1>5. ASSUME s + Len(piece) <= far PROVE Readable(d)
  <2>1. Len(in) >= PrefixLen + size
    <3> HIDE DEF in, piece, size, far
    <3> QED BY <1>1, <1>2, <1>5
  <2>2. Len(in) >= PrefixLen
    <3> HIDE DEF in, size
    <3> QED BY <1>1, <2>1
  <2> QED BY <1>4, <2>1, <2>2 DEF Readable
<1>6. ASSUME Readable(d) PROVE Takes(d, bytes, s, part)
  <2>1. in[PrefixLen] = size /\ Len(in) >= PrefixLen
    <3>1. Len(in) >= PrefixLen
      BY <1>6 DEF Readable
    <3> QED BY <1>4, <3>1
  <2>2. /\ PrefixLen + size <= Len(in) /\ Decode(d) \in DecoderType
        /\ Decode(d).in = From(in, PrefixLen + size + 1)
        /\ Decode(d).got = Append(d.got, SubSeq(in, PrefixLen + 1, PrefixLen + size))
    BY <1>6, <2>1, DecodeReads
  <2>3. SubSeq(in, PrefixLen + 1, PrefixLen + size) = part
    <3>1. ASSUME NEW i \in 1 .. size PROVE in[PrefixLen + i] = part[i]
      <4>1. piece[PrefixLen + i] = part[i]
        BY PieceBytes
      <4> HIDE DEF in, piece, size
      <4>2. PrefixLen + i \in 1 .. Len(piece) /\ PrefixLen + i <= Len(in)
        BY <1>1, <2>2
      <4> QED BY <1>3, <4>1, <4>2
    <3>2. HasAt(in, PrefixLen, part)
      BY <3>1 DEF HasAt
    <3> DEFINE ahead == PrefixLen
    <3>3. ahead \in Nat /\ HasAt(in, ahead, part) /\ ahead + Len(part) <= Len(in)
      BY <1>1, <2>2, <3>2
    <3> HIDE DEF ahead, in
    <3>4. SubSeq(in, ahead + 1, ahead + Len(part)) = part
      BY <1>1, <3>3, SliceFound
    <3> QED BY <3>4 DEF ahead
  <2>4. From(in, PrefixLen + size + 1) = From(bytes, s + Len(piece) + 1)
    <3> DEFINE jump == PrefixLen + size
    <3>1. jump \in Nat /\ jump = Len(piece) /\ s + jump <= Len(bytes)
      <4> HIDE DEF in, piece, size
      <4> QED BY <1>1, <1>2, <2>2
    <3> HIDE DEF jump
    <3>2. From(From(bytes, s + 1), jump + 1) = From(bytes, s + jump + 1)
      BY <3>1, FromFrom
    <3>3. From(in, jump + 1) = From(bytes, s + Len(piece) + 1)
      BY <3>1, <3>2
    <3> QED BY <3>3 DEF jump
  <2>5. s + Len(piece) <= Len(bytes)
    <3> HIDE DEF in, piece, size
    <3> QED BY <1>1, <1>2, <2>2
  <2> QED BY <2>2, <2>3, <2>4, <2>5 DEF Takes
<1> QED BY <1>5, <1>6

-----------------------------------------------------------------------------
(* The invariant: how far the handle is, and what is known of it by then. *)

\* The site's message says what the site means.
Asked ==
  /\ \E challenge \in Hashes, end \in Ends : sent.message = RegisterMessage(challenge, app, end)
  /\ sent.raw \in Prefixes(sent.message)

Returned ==
  /\ \E ctrl \in {CtrlCheckOnly, CtrlEnforce}, challenge \in Hashes, end \in Ends :
       sent.message = AuthMessage(ctrl, challenge, app, sent.handle, end)
  /\ sent.raw \in Prefixes(sent.message)

\* The parts that have been taken are the first ones that were encoded, and the decoder
\* stands behind them.
Decoding(d) ==
  LET taken == Len(d.got) IN
  /\ d \in DecoderType /\ taken <= 3
  /\ taken <= Encoded =>
       Start(taken) <= Len(sent.handle) /\ d.in = From(sent.handle, Start(taken) + 1)
  /\ \A k \in 1 .. 3 : k <= taken /\ k <= Encoded => d.got[k] = parts[k]
  /\ sent.handle \in Prefixes(enc.out) => taken <= Encoded

KeyInv ==
  /\ PartsOK /\ app \in Hashes
  /\ stage \in {"asked", "encoding"} => enc = NewEncoder
  /\ stage \in {"answering", "stored", "returned", "decoding"} => WrittenBy(enc)
  /\ stage \in {"returned", "decoding"} => sent.handle \in HandlesLike(enc.out)
  /\ stage \notin {"decoding", "accepted", "rejected"} => dec.err = "none"
  /\ stage = "asked" => Asked
  /\ stage = "returned" => Returned
  /\ stage = "decoding" => Decoding(dec)

FrameType ==
  /\ writer \in [data : Numbers, initial : BOOLEAN, seqNo : Nat, total : Nat]
  /\ host \in [data : Numbers, total : Nat, next : Nat, bad : BOOLEAN]

\* The host has the first bytes and the writer the others; or the numbers have run out.
Midway ==
  /\ ~writer.initial /\ host.total = Len(Response)
  /\ \E had \in 1 .. Len(Response) - 1 :
       /\ writer.data = From(Response, had + 1)
       /\ host.bad => Len(Response) > LongestMessage
       /\ ~host.bad => /\ host.data = Upto(Response, had) /\ host.next = writer.seqNo
                       /\ had = InitData + writer.seqNo * ContData

Unwritten == writer = NoWriter /\ host = NoMessage

Fresh ==
  /\ writer = [data |-> Response, initial |-> TRUE, seqNo |-> 0, total |-> Len(Response)]
  /\ host = NoMessage

FrameInv ==
  /\ FrameType
  /\ stage \in {"asked", "encoding"} => Unwritten
  /\ stage = "answering" => Unwritten \/ (Len(enc.out) <= MaxByte /\ (Fresh \/ Midway))
  /\ ResponseArrives

HandleInv ==
  KeyInv /\ FrameInv /\ KeyIsTheRegistered /\ KeyComesBack /\ MessageMeansWhatWasSent

-----------------------------------------------------------------------------
(* The decoding. *)

\* A handle that comes back holds the bytes of the one that was sent, as far as both go.
LEMMA HandleBytes ==
  ASSUME NEW bytes \in Numbers, NEW handle \in HandlesLike(bytes)
  PROVE  /\ handle \in Numbers /\ Len(handle) \in Nat
         /\ \A i \in 1 .. Len(handle) : i <= Len(bytes) => handle[i] = bytes[i]
         /\ handle \in Prefixes(bytes) => Len(handle) <= Len(bytes)
<1>1. CASE handle \in Prefixes(bytes)
  <2>1. /\ handle \in Numbers /\ Len(handle) <= Len(bytes)
        /\ \A i \in 1 .. Len(handle) : handle[i] = bytes[i]
    BY <1>1, PrefixBytes
  <2> QED BY <2>1 DEF Numbers
<1>2. CASE handle \notin Prefixes(bytes)
  <2> DEFINE zero == <<0>>
             spaced == bytes \o Separator
  <2>1. handle = bytes \o zero \/ handle = spaced \o zero \/ handle = bytes \o bytes
    BY <1>2 DEF HandlesLike
  <2>2. zero \in Numbers
    BY DEF Numbers
  <2> HIDE DEF zero
  <2>3. /\ spaced \in Numbers /\ Len(spaced) = Len(bytes) + Len(Separator)
        /\ \A i \in 1 .. Len(bytes) : spaced[i] = bytes[i]
    BY PrefixNumbers, ConcatBytes
  <2> HIDE DEF spaced
  <2>4. Len(bytes) \in Nat /\ Len(Separator) \in Nat /\ Len(spaced) \in Nat
    BY <2>3, PrefixNumbers DEF Numbers
  <2>5. /\ handle \in Numbers /\ \A i \in 1 .. Len(bytes) : handle[i] = bytes[i]
    <3>1. CASE handle = bytes \o zero
      BY <2>2, <3>1, ConcatBytes
    <3>2. CASE handle = spaced \o zero
      <4>1. handle \in Numbers /\ \A i \in 1 .. Len(spaced) : handle[i] = spaced[i]
        BY <2>2, <2>3, <3>2, ConcatBytes
      <4>2. \A i \in 1 .. Len(bytes) : i \in 1 .. Len(spaced)
        BY <2>3, <2>4
      <4> QED BY <2>3, <4>1, <4>2
    <3>3. CASE handle = bytes \o bytes
      BY <3>3, ConcatBytes
    <3> QED BY <2>1, <3>1, <3>2, <3>3
  <2>6. Len(handle) \in Nat
    BY <2>5 DEF Numbers
  <2>7. \A i \in 1 .. Len(handle) : i <= Len(bytes) => i \in 1 .. Len(bytes)
    BY <2>4, <2>6
  <2> QED BY <1>2, <2>5, <2>6, <2>7
<1> QED BY <1>1, <1>2

\* The number of parts that were written.
LEMMA EncodedNumber ==
  /\ Encoded \in 0 .. 3
  /\ \A n \in 0 .. 3 : n < 3 \/ n <= Encoded \/ Encoded # 3
BY DEF Encoded

\* Where a part was encoded it is expected in the handle that comes back.
LEMMA ExpectedThere ==
  ASSUME PartsOK, WrittenBy(enc), NEW handle \in HandlesLike(enc.out), NEW n \in 1 .. Encoded
  PROVE  Expected(handle, Start(n - 1), parts[n])
<1>1. enc.out \in Numbers /\ Len(enc.out) = Start(Encoded)
      /\ HasAt(enc.out, Start(n - 1), Piece(parts[n]))
  BY DEF WrittenBy, Laid
<1>2. /\ handle \in Numbers /\ Len(handle) \in Nat
      /\ \A i \in 1 .. Len(handle) : i <= Len(enc.out) => handle[i] = enc.out[i]
  BY <1>1, HandleBytes
<1>3. n \in 1 .. 3 /\ n \in 0 .. 3 /\ Encoded \in n .. 3
  BY EncodedNumber
<1> DEFINE piece == Piece(parts[n])
           before == Start(n - 1)
<1>4. before \in Nat /\ Len(piece) \in Nat /\ Start(n) = before + Len(piece)
  BY <1>3, PieceAfter
<1>5. Start(n) <= Start(Encoded) /\ Start(Encoded) \in Nat
  <2>1. Start(n) <= Start(Encoded)
    BY <1>3, StartGrows
  <2>2. Start(Encoded) \in Nat
    BY EncodedNumber, StartSteps
  <2> QED BY <2>1, <2>2
<1> SUFFICES ASSUME NEW i \in 1 .. Len(piece), before + i <= Len(handle)
             PROVE  handle[before + i] = piece[i]
  BY DEF Expected
<1>6. enc.out[before + i] = piece[i]
  BY <1>1 DEF HasAt
<1> HIDE DEF piece, before
<1>7. before + i \in 1 .. Len(handle) /\ before + i <= Len(enc.out)
  BY <1>1, <1>2, <1>4, <1>5
<1> QED BY <1>2, <1>6, <1>7

\* What is known when SignASN1 decodes.
Signing ==
  PartsOK /\ WrittenBy(enc) /\ sent.handle \in HandlesLike(enc.out) /\ Decoding(dec)

\* The types of what SignASN1 works on.
LEMMA SigningNumbers ==
  ASSUME Signing
  PROVE  /\ dec \in DecoderType /\ Len(dec.got) \in 0 .. 3 /\ dec.in \in Numbers
         /\ enc.out \in Numbers /\ Len(enc.out) = Start(Encoded) /\ Start(Encoded) \in Nat
         /\ Encoded \in 0 .. 3
         /\ sent.handle \in Numbers /\ Len(sent.handle) \in Nat
<1>1. dec \in DecoderType /\ Len(dec.got) <= 3
  BY DEF Signing, Decoding
<1>2. Len(dec.got) \in 0 .. 3 /\ dec.in \in Numbers
  <2>1. dec.got \in Seq(Numbers) /\ dec.in \in Numbers
    BY <1>1 DEF DecoderType
  <2>2. Len(dec.got) \in Nat
    BY <2>1
  <2> DEFINE n == Len(dec.got)
  <2>3. n \in Nat /\ n <= 3
    BY <1>1, <2>2
  <2> HIDE DEF n
  <2>4. n \in 0 .. 3
    BY <2>3
  <2> QED BY <2>1, <2>4 DEF n
<1>3. enc.out \in Numbers /\ Len(enc.out) = Start(Encoded)
  BY DEF Signing, WrittenBy, Laid
<1>4. Encoded \in 0 .. 3 /\ Start(Encoded) \in Nat
  BY EncodedNumber, StartSteps DEF Signing
<1>5. sent.handle \in Numbers /\ Len(sent.handle) \in Nat
  BY <1>3, HandleBytes DEF Signing
<1> QED BY <1>1, <1>2, <1>3, <1>4, <1>5

\* While a part is left that was encoded, and all its bytes are there, it is the next one.
LEMMA NextPart ==
  ASSUME Signing, Len(dec.got) < Encoded
  PROVE  LET next == Len(dec.got) + 1 IN
         /\ next \in 1 .. 3 /\ next \in 1 .. Encoded
         /\ Start(next) <= Len(sent.handle) => Readable(dec)
         /\ Readable(dec) => /\ Start(next) <= Len(sent.handle)
                             /\ Decode(dec) \in DecoderType
                             /\ Decode(dec).got = Append(dec.got, parts[next])
                             /\ Decode(dec).in = From(sent.handle, Start(next) + 1)
<1> DEFINE n == Len(dec.got)
           next == n + 1
           part == parts[next]
           handle == sent.handle
           s == Start(n)
           size == Len(Piece(part))
<1>1. /\ n \in 0 .. 3 /\ Encoded \in 0 .. 3 /\ n < Encoded
      /\ handle \in Numbers /\ Len(handle) \in Nat /\ dec \in DecoderType
  BY SigningNumbers
<1>2. s <= Len(handle) /\ dec.in = From(handle, s + 1)
  <2>1. n <= Encoded
    <3> HIDE DEF n
    <3> QED BY <1>1
  <2> QED BY <2>1 DEF Signing, Decoding
<1> HIDE DEF n
<1>3. next \in 1 .. 3 /\ next \in 1 .. Encoded /\ next - 1 = n
  BY <1>1
<1> HIDE DEF next
<1>4. s \in Nat /\ size \in Nat /\ Start(next) = s + size
  BY <1>3, PieceAfter DEF Signing
<1>5. Expected(handle, s, part)
  BY <1>3, ExpectedThere DEF Signing
<1>6. part \in Numbers
  BY <1>3, PartNumbers DEF Signing
<1> HIDE DEF part, s, handle
<1>7. /\ s + Len(Piece(part)) <= Len(handle) => Readable(dec)
      /\ Readable(dec) => Takes(dec, handle, s, part)
  BY <1>1, <1>2, <1>4, <1>5, <1>6, PieceTaken
<1>8. Start(next) <= Len(handle) => Readable(dec)
  BY <1>4, <1>7
<1>9. ASSUME Readable(dec)
      PROVE  /\ Start(next) <= Len(handle) /\ Decode(dec) \in DecoderType
             /\ Decode(dec).got = Append(dec.got, part)
             /\ Decode(dec).in = From(handle, Start(next) + 1)
  <2>1. Takes(dec, handle, s, part)
    BY <1>7, <1>9
  <2> QED BY <1>4, <2>1 DEF Takes
<1> QED BY <1>3, <1>8, <1>9 DEF next, n, part, handle

\* Behind the last part that was encoded, the handle that was sent has ended.
LEMMA HandleEnds ==
  ASSUME Signing, sent.handle \in Prefixes(enc.out), Len(dec.got) = Encoded
  PROVE  dec.in = <<>>
<1> DEFINE far == Len(sent.handle)
           s == Start(Encoded)
<1>1. far <= Len(enc.out)
  BY SigningNumbers, HandleBytes DEF Signing
<1>2. s <= far /\ dec.in = From(sent.handle, s + 1)
  BY SigningNumbers DEF Signing, Decoding
<1>3. s \in Nat /\ far \in Nat /\ Len(enc.out) = s /\ dec.in \in Numbers
  BY SigningNumbers
<1> HIDE DEF s
<1>4. s = far /\ s + 1 \in 1 .. far + 1 /\ far - (s + 1) + 1 = 0
  <2> HIDE DEF far
  <2> QED BY <1>1, <1>2, <1>3
<1>5. Len(dec.in) = 0
  <2>1. Len(From(sent.handle, s + 1)) = far - (s + 1) + 1
    BY <1>4, SigningNumbers, FromBytes
  <2> QED BY <1>2, <1>4, <2>1
<1> QED BY <1>3, <1>5, EmptySeq DEF Numbers

\* At the end of the handle Decode says EOF.
LEMMA NothingReadable ==
  ASSUME Signing, dec.in = <<>>
  PROVE  ~Readable(dec) /\ Decode(dec).err = "EOF"
<1>1. Decode(dec).err = "EOF"
  BY SigningNumbers, DecodeOf
<1>2. Len(dec.in) = 0 /\ PrefixLen \in Nat \ {0}
  BY PrefixNumbers
<1> QED BY <1>1, <1>2 DEF Readable

\* Another part is decoded.
LEMMA SignGoesOn ==
  ASSUME Signing, Len(dec.got) < 3, Readable(dec)
  PROVE  Decoding(Decode(dec))
<1> DEFINE n == Len(dec.got)
           d == Decode(dec)
           next == n + 1
<1>1. n \in 0 .. 2 /\ Encoded \in 0 .. 3 /\ dec \in DecoderType /\ dec.got \in Seq(Numbers)
  <2>1. n \in 0 .. 3 /\ Encoded \in 0 .. 3 /\ dec \in DecoderType
    BY SigningNumbers
  <2>2. dec.got \in Seq(Numbers)
    BY <2>1 DEF DecoderType
  <2> HIDE DEF n
  <2>3. n < 3
    BY DEF n
  <2> QED BY <2>1, <2>2, <2>3
<1>2. PICK taken \in Numbers : d.got = Append(dec.got, taken)
  BY <1>1, DecodeReads
<1>3. d \in DecoderType
  BY <1>1, DecodeReads
<1>4. /\ Len(d.got) = next /\ d.got[next] = taken
      /\ \A k \in 1 .. n : d.got[k] = dec.got[k]
  BY <1>1, <1>2, AppendProperties
<1>5. next \in 1 .. 3
  <2> HIDE DEF n
  <2> QED BY <1>1
<1>6. CASE n < Encoded
  <2>1. /\ next \in 1 .. Encoded /\ Start(next) <= Len(sent.handle)
        /\ d.got = Append(dec.got, parts[next]) /\ d.in = From(sent.handle, Start(next) + 1)
    BY <1>6, NextPart
  <2>2. d.got[next] = parts[next]
    BY <1>1, <2>1, AppendProperties
  <2>3. ASSUME NEW k \in 1 .. 3, k <= next, k <= Encoded PROVE d.got[k] = parts[k]
    <3>1. CASE k = next
      BY <2>2, <3>1
    <3>2. CASE k # next
      <4>1. k \in 1 .. n
        <5> HIDE DEF n
        <5> QED BY <1>1, <2>3, <3>2
      <4>2. k <= n
        BY <4>1
      <4>3. dec.got[k] = parts[k]
        BY <2>3, <4>2 DEF Signing, Decoding
      <4> QED BY <1>4, <4>1, <4>3
    <3> QED BY <3>1, <3>2
  <2>4. next <= 3 /\ next <= Encoded
    <3> HIDE DEF next
    <3> QED BY <1>5, <1>1, <2>1
  <2> HIDE DEF n, d, next
  <2> QED BY <1>3, <1>4, <2>1, <2>3, <2>4 DEF Decoding, d
<1>7. CASE ~(n < Encoded)
  <2>1. ~(next <= Encoded) /\ n >= Encoded /\ next <= 3
    <3> HIDE DEF n
    <3> QED BY <1>1, <1>7
  <2>2. sent.handle \notin Prefixes(enc.out)
    <3> SUFFICES ASSUME sent.handle \in Prefixes(enc.out) PROVE FALSE
      OBVIOUS
    <3>1. n <= Encoded
      BY DEF Signing, Decoding
    <3>2. n = Encoded
      <4> HIDE DEF n
      <4> QED BY <1>1, <2>1, <3>1
    <3> QED BY <3>2, HandleEnds, NothingReadable
  <2>3. ASSUME NEW k \in 1 .. 3, k <= next, k <= Encoded PROVE d.got[k] = parts[k]
    <3>1. k \in 1 .. n /\ k <= n
      <4> HIDE DEF n
      <4> QED BY <1>1, <2>1, <2>3
    <3>2. dec.got[k] = parts[k]
      BY <2>3, <3>1 DEF Signing, Decoding
    <3> QED BY <1>4, <3>1, <3>2
  <2> HIDE DEF n, d, next
  <2> QED BY <1>3, <1>4, <2>1, <2>2, <2>3 DEF Decoding, d
<1> QED BY <1>6, <1>7

\* A handle that was sent and holds all parts is not refused.
LEMMA WholeReadable ==
  ASSUME Signing, sent.handle = enc.out, ~enc.err
  PROVE  IF Len(dec.got) < 3 THEN Readable(dec) ELSE Decode(dec).err = "EOF"
<1> DEFINE n == Len(dec.got)
<1>1. Encoded = 3 /\ n \in 0 .. 3 /\ enc.out \in Numbers /\ Len(enc.out) = Start(3)
  BY SigningNumbers DEF Signing, WrittenBy
<1>2. CASE n < 3
  <2> DEFINE next == n + 1
  <2>1. next \in 1 .. 3 /\ (Start(next) <= Len(sent.handle) => Readable(dec))
    BY <1>1, <1>2, NextPart
  <2> HIDE DEF next
  <2>2. next \in 0 .. 3 /\ 3 \in next .. 3
    BY <2>1
  <2>3. Start(next) <= Start(3)
    BY <2>2, StartGrows DEF Signing
  <2> QED BY <1>1, <1>2, <2>1, <2>3
<1>3. CASE ~(n < 3)
  <2>1. n = 3
    <3> HIDE DEF n
    <3> QED BY <1>1, <1>3
  <2>2. sent.handle \in Prefixes(enc.out)
    BY <1>1, WholeIsPrefix
  <2>3. Len(dec.got) = Encoded
    BY <1>1, <2>1
  <2>4. dec.in = <<>>
    BY <2>2, <2>3, HandleEnds
  <2> QED BY <1>3, <2>4, NothingReadable
<1> QED BY <1>2, <1>3

\* Three parts that are all there were are the parts.
LEMMA AllParts ==
  ASSUME Signing, Len(dec.got) = 3
  PROVE  IF enc.err THEN sent.handle \notin Prefixes(enc.out) ELSE dec.got = parts
<1>1. Encoded \in 0 .. 3 /\ (enc.err <=> Encoded # 3)
  BY SigningNumbers DEF Signing, WrittenBy
<1>2. CASE enc.err
  <2>1. ~(3 <= Encoded)
    BY <1>1, <1>2
  <2> QED BY <1>2, <2>1 DEF Signing, Decoding
<1>3. CASE ~enc.err
  <2>1. \A k \in 1 .. 3 : dec.got[k] = parts[k]
    <3>1. \A k \in 1 .. 3 : k <= 3 /\ k <= Encoded
      BY <1>1, <1>3
    <3> QED BY <3>1 DEF Signing, Decoding
  <2>2. dec.got \in Seq(Numbers)
    BY SigningNumbers DEF DecoderType
  <2> DEFINE got == dec.got
  <2>3. got \in [1 .. 3 -> Numbers]
    <3>1. got \in Seq(Numbers) /\ Len(got) = 3
      BY <2>2
    <3> HIDE DEF got
    <3> QED BY <3>1, LenProperties
  <2>4. parts \in [1 .. 3 -> Parts]
    BY DEF Signing, PartsOK
  <2>5. dec.got = parts
    BY <2>1, <2>3, <2>4
  <2> QED BY <1>3, <2>5
<1> QED BY <1>2, <1>3

-----------------------------------------------------------------------------
(* The messages. *)

LEMMA ResponseBytes ==
  ASSUME enc.out \in Numbers
  PROVE  /\ Response \in Numbers /\ Len(Response) = Len(enc.out) + 4 /\ Len(Response) \in Nat
         /\ HasAt(Response, 2, enc.out) /\ Response[2] = Len(enc.out)
<1> DEFINE handle == enc.out
           size == Len(handle)
           head == <<5, size>>
           counted == head \o handle
           answer == counted \o Status
<1>1. size \in Nat
  BY DEF Numbers
<1>2. Status \in Numbers /\ Len(Status) = 2
  <2> DEFINE two == 2
  <2>1. Status \in [1 .. two -> 0 .. MaxByte] /\ two \in Nat
    BY KeyHandleAssumption
  <2>2. Status \in [1 .. two -> Nat]
    BY <2>1, ByteAssumption
  <2> HIDE DEF two
  <2>3. Status \in Numbers /\ Len(Status) = two
    BY <2>1, <2>2 DEF Numbers
  <2> QED BY <2>3 DEF two
<1> HIDE DEF size
<1>3. head \in Numbers /\ Len(head) = 2 /\ head[2] = size
  BY <1>1 DEF Numbers
<1> HIDE DEF head
<1>4. /\ counted \in Numbers /\ Len(counted) = Len(head) + Len(handle)
      /\ \A i \in 1 .. Len(head) : counted[i] = head[i]
      /\ \A i \in 1 .. Len(handle) : counted[Len(head) + i] = handle[i]
  BY <1>3, ConcatBytes
<1> HIDE DEF counted
<1>5. /\ answer \in Numbers /\ Len(answer) = Len(counted) + Len(Status)
      /\ \A i \in 1 .. Len(counted) : answer[i] = counted[i]
  BY <1>2, <1>4, ConcatBytes
<1> HIDE DEF answer
<1>6. Len(handle) = size
  BY DEF size
<1>7. Len(answer) = size + 4 /\ Len(counted) = size + 2
  BY <1>1, <1>2, <1>3, <1>4, <1>5, <1>6
<1>8. answer[2] = size
  <2>1. 2 \in 1 .. Len(head) /\ 2 \in 1 .. Len(counted)
    BY <1>1, <1>3, <1>7
  <2> QED BY <1>3, <1>4, <1>5, <2>1
<1>9. ASSUME NEW i \in 1 .. Len(handle) PROVE answer[2 + i] = handle[i]
  <2>1. counted[2 + i] = handle[i]
    BY <1>3, <1>4
  <2>2. 2 + i \in 1 .. Len(counted)
    BY <1>1, <1>6, <1>7
  <2> QED BY <1>5, <2>1, <2>2
<1>10. answer = Response
  BY DEF answer, counted, head, size, Response
<1>11. HasAt(answer, 2, handle)
  BY <1>9 DEF HasAt
<1>12. Len(answer) \in Nat
  BY <1>1, <1>7
<1> QED BY <1>5, <1>6, <1>7, <1>8, <1>10, <1>11, <1>12

\* What the site takes from the response is the handle.
LEMMA HandleInResponse ==
  ASSUME enc.out \in Numbers
  PROVE  SubSeq(Response, 3, 2 + Response[2]) = enc.out
<1> DEFINE handle == enc.out
           answer == Response
<1>1. /\ answer \in Numbers /\ Len(answer) = Len(handle) + 4 /\ Len(handle) \in Nat
      /\ HasAt(answer, 2, handle) /\ answer[2] = Len(handle)
  BY ResponseBytes DEF Numbers
<1> HIDE DEF answer, handle
<1>2. handle \in Numbers
  BY DEF handle
<1>3. 2 + Len(handle) <= Len(answer) /\ 2 + 1 = 3
  BY <1>1
<1>4. SubSeq(answer, 2 + 1, 2 + Len(handle)) = handle
  BY <1>1, <1>2, <1>3, SliceFound
<1> QED BY <1>1, <1>3, <1>4 DEF answer, handle

\* A registration is refused or read as it was meant.
LEMMA AskedMeans ==
  ASSUME Asked, app \in Hashes, NEW request, request = DecodeAuthenticatorRequest(sent.raw),
         request # Refused
  PROVE  /\ request = DecodeAuthenticatorRequest(sent.message)
         /\ request.cmd = "register" /\ request.app = app
<1> DEFINE message == sent.message
           raw == sent.raw
           needed == HeaderLen + 2 * HashLen
<1>1. PICK challenge \in Hashes, end \in Ends : message = RegisterMessage(challenge, app, end)
  BY DEF Asked
<1>2. RegisterReads(message, challenge, app) /\ raw \in Prefixes(message)
  BY <1>1, RegisterBytes DEF Asked
<1>3. message \in Numbers
  BY <1>2 DEF RegisterReads
<1> DEFINE read == [cmd |-> "register", challenge |-> challenge, app |-> app]
<1> HIDE DEF message, raw
<1>4. DecodeAuthenticatorRequest(raw) = IF Len(raw) >= needed THEN read ELSE Refused
  BY <1>2, RegisterDecoded
<1>5. message \in Prefixes(message)
  BY <1>3, WholeIsPrefix
<1>6. DecodeAuthenticatorRequest(message) = IF Len(message) >= needed THEN read ELSE Refused
  BY <1>2, <1>5, RegisterDecoded
<1>7. Len(raw) <= Len(message) /\ Len(raw) \in Nat /\ Len(message) \in Nat /\ needed \in Nat
  <2>1. raw \in Numbers /\ Len(raw) <= Len(message)
    BY <1>2, <1>3, PrefixBytes
  <2>2. needed \in Nat
    BY FidoAuthAssumption DEF HeaderLen
  <2> QED BY <1>3, <2>1, <2>2 DEF Numbers
<1>8. request = read /\ Len(raw) >= needed
  BY <1>4 DEF raw
<1> HIDE DEF needed
<1>9. Len(message) >= needed
  BY <1>7, <1>8
<1> QED BY <1>6, <1>8, <1>9 DEF message

\* An authentication is refused or read as it was meant, with the whole handle.
LEMMA ReturnedMeans ==
  ASSUME Returned, app \in Hashes, sent.handle \in Numbers,
         NEW request, request = DecodeAuthenticatorRequest(sent.raw), request # Refused
  PROVE  /\ request = DecodeAuthenticatorRequest(sent.message)
         /\ request.cmd = "authenticate" /\ request.handle = sent.handle /\ request.app = app
<1> DEFINE message == sent.message
           raw == sent.raw
           handle == sent.handle
           least == HeaderLen + 2 * HashLen + 2
           needed == HeaderLen + 2 * HashLen + 1 + Len(handle)
<1>1. PICK ctrl \in {CtrlCheckOnly, CtrlEnforce}, challenge \in Hashes, end \in Ends :
        message = AuthMessage(ctrl, challenge, app, handle, end)
  BY DEF Returned
<1>2. AuthReads(message, ctrl, challenge, app, handle) /\ raw \in Prefixes(message)
  <2>1. ctrl \in Nat
    BY DEF CtrlCheckOnly, CtrlEnforce
  <2> QED BY <1>1, <2>1, AuthBytes DEF Returned
<1>3. message \in Numbers
  BY <1>2 DEF AuthReads
<1> DEFINE read == [cmd |-> "authenticate", ctrl |-> ctrl, challenge |-> challenge, app |-> app,
                    handle |-> handle]
<1> HIDE DEF message, raw
<1>4. DecodeAuthenticatorRequest(raw) =
        IF Len(raw) >= least /\ Len(raw) >= needed THEN read ELSE Refused
  BY <1>2, AuthDecoded
<1>5. message \in Prefixes(message)
  BY <1>3, WholeIsPrefix
<1>6. DecodeAuthenticatorRequest(message) =
        IF Len(message) >= least /\ Len(message) >= needed THEN read ELSE Refused
  BY <1>2, <1>5, AuthDecoded
<1>7. /\ Len(raw) <= Len(message) /\ Len(raw) \in Nat /\ Len(message) \in Nat
      /\ least \in Nat /\ needed \in Nat
  <2>1. raw \in Numbers /\ Len(raw) <= Len(message)
    BY <1>2, <1>3, PrefixBytes
  <2>2. Len(handle) \in Nat
    BY DEF Numbers
  <2> HIDE DEF handle
  <2>3. least \in Nat /\ needed \in Nat
    BY <2>2, FidoAuthAssumption DEF HeaderLen
  <2>4. Len(raw) \in Nat /\ Len(message) \in Nat
    BY <1>3, <2>1 DEF Numbers
  <2> HIDE DEF least, needed
  <2> QED BY <2>1, <2>3, <2>4
<1>8. request = read /\ Len(raw) >= least /\ Len(raw) >= needed
  <2> HIDE DEF least, needed
  <2> QED BY <1>4 DEF raw
<1> HIDE DEF needed, least
<1>9. Len(message) >= needed /\ Len(message) >= least
  BY <1>7, <1>8
<1> QED BY <1>6, <1>8, <1>9 DEF message

-----------------------------------------------------------------------------
(* Key handles come back, step by step. *)

LEMMA SamePieces ==
  ASSUME parts' = parts
  PROVE  /\ PartsOK' <=> PartsOK
         /\ Encoded' = Encoded
         /\ \A n : Start(n)' = Start(n)
BY DEF PartsOK, Encoded, TooLong, Start

\* What has been written stays, if neither the parts nor the encoder change.
LEMMA WrittenKept ==
  ASSUME parts' = parts, WrittenBy(enc')
  PROVE  WrittenBy(enc)'
BY DEF WrittenBy, Laid, Encoded, TooLong, Start

\* What has been decoded stays, if nothing it depends on changes.
LEMMA DecodingKept ==
  ASSUME parts' = parts, sent' = sent, enc' = enc, Decoding(dec')
  PROVE  Decoding(dec)'
BY DEF Decoding, Encoded, TooLong, Start

KeySafe == KeyInv /\ KeyIsTheRegistered /\ KeyComesBack /\ MessageMeansWhatWasSent

\* Taking a registration keeps KeySafe: the decoded message means what was
\* sent.
LEMMA TakeRegisterKeeps ==
  ASSUME KeySafe, TakeRegister
  PROVE  KeySafe'
<1>1. /\ stage = "asked" /\ req' = DecodeAuthenticatorRequest(sent.raw)
      /\ stage' = IF req' = Refused THEN "silent" ELSE "encoding"
      /\ UNCHANGED <<parts, app, enc, sent, dec>>
      /\ PartsOK /\ app \in Hashes /\ enc = NewEncoder /\ dec.err = "none" /\ Asked
  BY DEF TakeRegister, KeySafe, KeyInv
<1>2. PartsOK'
  BY <1>1, SamePieces
<1>3. CASE req' = Refused
  <2>1. stage' = "silent"
    BY <1>1, <1>3
  <2> QED BY <1>1, <1>2, <2>1
          DEF KeySafe, KeyInv, KeyIsTheRegistered, KeyComesBack, MessageMeansWhatWasSent
<1>4. CASE req' # Refused
  <2>1. stage' = "encoding"
    BY <1>1, <1>4
  <2> DEFINE request == req'
  <2>2. /\ request = DecodeAuthenticatorRequest(sent.message)
        /\ request.cmd = "register" /\ request.app = app
    <3>1. request = DecodeAuthenticatorRequest(sent.raw) /\ request # Refused
      BY <1>1, <1>4
    <3> HIDE DEF request
    <3> QED BY <1>1, <3>1, AskedMeans
  <2>3. MessageMeansWhatWasSent'
    BY <1>1, <2>2 DEF MessageMeansWhatWasSent
  <2> QED BY <1>1, <1>2, <2>1, <2>3 DEF KeySafe, KeyInv, KeyIsTheRegistered, KeyComesBack
<1> QED BY <1>3, <1>4

\* RegisterKey keeps KeySafe: it writes the pieces and begins no frame.
LEMMA RegisterKeyKeeps ==
  ASSUME KeySafe, RegisterKey
  PROVE  KeySafe'
<1>1. /\ stage = "encoding" /\ stage' = "answering"
      /\ enc' = Encode(Encode(Encode(enc, parts[1]), parts[2]), parts[3])
      /\ UNCHANGED <<parts, app, sent, req, dec>>
      /\ PartsOK /\ app \in Hashes /\ enc = NewEncoder /\ dec.err = "none"
  BY DEF RegisterKey, KeySafe, KeyInv
<1>2. WrittenBy(enc)'
  BY <1>1, KeyWritten, WrittenKept
<1>3. PartsOK'
  BY <1>1, SamePieces
<1> QED BY <1>1, <1>2, <1>3
        DEF KeySafe, KeyInv, KeyIsTheRegistered, KeyComesBack, MessageMeansWhatWasSent

\* The frames of the response: only the stage changes.
LEMMA AnswerKeeps ==
  ASSUME KeySafe, RegisterSite \/ Respond
  PROVE  KeySafe'
<1>1. /\ stage = "answering" /\ stage' \in {"answering", "silent", "garbled", "stored"}
      /\ UNCHANGED <<parts, app, enc, sent, req, dec>>
      /\ PartsOK /\ app \in Hashes /\ WrittenBy(enc) /\ dec.err = "none"
  BY DEF RegisterSite, Respond, KeySafe, KeyInv
<1>2. WrittenBy(enc)' /\ PartsOK'
  BY <1>1, WrittenKept, SamePieces
<1> QED BY <1>1, <1>2
        DEF KeySafe, KeyInv, KeyIsTheRegistered, KeyComesBack, MessageMeansWhatWasSent

\* A site that authenticates keeps KeySafe: the handle it has is the one
\* written.
LEMMA AuthenticateKeeps ==
  ASSUME KeySafe, ResponseArrives, Authenticate
  PROVE  KeySafe'
<1>1. /\ stage = "stored" /\ stage' = "returned"
      /\ UNCHANGED <<parts, app, enc, req, dec>>
      /\ PartsOK /\ app \in Hashes /\ WrittenBy(enc) /\ dec.err = "none"
  BY DEF Authenticate, KeySafe, KeyInv
<1>2. PICK handle \in HandlesLike(SubSeq(host.data, 3, 2 + host.data[2])), end \in Ends,
           ctrl \in {CtrlCheckOnly, CtrlEnforce}, challenge \in Hashes :
        LET message == AuthMessage(ctrl, challenge, app, handle, end) IN
        \E raw \in Prefixes(message) : Sends(message, raw, handle)
  BY DEF Authenticate
<1>3. handle \in HandlesLike(enc.out)
  <2>1. host.data = Response
    BY <1>1 DEF ResponseArrives
  <2>2. enc.out \in Numbers
    BY <1>1 DEF WrittenBy, EncoderType
  <2> QED BY <1>2, <2>1, <2>2, HandleInResponse
<1> DEFINE message == AuthMessage(ctrl, challenge, app, handle, end)
<1>4. PICK raw \in Prefixes(message) : sent' = [raw |-> raw, message |-> message, handle |-> handle]
  BY <1>2 DEF Sends
<1>5. Returned'
  <2>1. /\ sent'.message = AuthMessage(ctrl, challenge, app', sent'.handle, end)
        /\ sent'.raw \in Prefixes(sent'.message)
    <3>1. app' = app
      BY <1>1
    <3> HIDE DEF message
    <3>2. sent'.message = message /\ sent'.handle = handle /\ sent'.raw = raw
      BY <1>4
    <3> QED BY <1>4, <3>1, <3>2 DEF message
  <2> QED BY <1>2, <2>1 DEF Returned
<1>6. sent'.handle \in HandlesLike(enc'.out)
  <2> HIDE DEF message
  <2> QED BY <1>1, <1>3, <1>4
<1>7. WrittenBy(enc)' /\ PartsOK'
  BY <1>1, WrittenKept, SamePieces
<1> QED BY <1>1, <1>5, <1>6, <1>7
        DEF KeySafe, KeyInv, KeyIsTheRegistered, KeyComesBack, MessageMeansWhatWasSent

\* Taking an authentication keeps KeySafe: the decoder begins at the start of
\* the handle.
LEMMA TakeAuthenticateKeeps ==
  ASSUME KeySafe, TakeAuthenticate
  PROVE  KeySafe'
<1>1. /\ stage = "returned" /\ req' = DecodeAuthenticatorRequest(sent.raw)
      /\ IF req' = Refused THEN stage' = "silent" /\ UNCHANGED dec
         ELSE stage' = "decoding" /\ dec' = NewDecoder(req'.handle)
      /\ UNCHANGED <<parts, app, enc, sent>>
      /\ PartsOK /\ app \in Hashes /\ WrittenBy(enc) /\ dec.err = "none"
      /\ Returned /\ sent.handle \in HandlesLike(enc.out)
  BY DEF TakeAuthenticate, KeySafe, KeyInv
<1>2. WrittenBy(enc)' /\ PartsOK'
  BY <1>1, WrittenKept, SamePieces
<1>3. CASE req' = Refused
  <2>1. stage' = "silent" /\ dec' = dec
    BY <1>1, <1>3
  <2> QED BY <1>1, <1>2, <2>1
          DEF KeySafe, KeyInv, KeyIsTheRegistered, KeyComesBack, MessageMeansWhatWasSent
<1>4. CASE req' # Refused
  <2>1. stage' = "decoding" /\ dec' = NewDecoder(req'.handle)
    BY <1>1, <1>4
  <2> DEFINE request == req'
             handle == sent.handle
             d == NewDecoder(handle)
  <2>2. handle \in Numbers /\ Len(handle) \in Nat
    BY <1>1, HandleBytes DEF WrittenBy, EncoderType
  <2>3. /\ request = DecodeAuthenticatorRequest(sent.message)
        /\ request.cmd = "authenticate" /\ request.handle = handle /\ request.app = app
    <3>1. request = DecodeAuthenticatorRequest(sent.raw) /\ request # Refused
      BY <1>1, <1>4
    <3> HIDE DEF request
    <3> QED BY <1>1, <2>2, <3>1, ReturnedMeans
  <2>4. MessageMeansWhatWasSent'
    BY <1>1, <2>3 DEF MessageMeansWhatWasSent
  <2>5. d.in = handle /\ d.pending = NoPrefix /\ d.err = "none" /\ d.got = <<>>
    BY DEF NewDecoder
  <2>6. d \in DecoderType
    <3>1. <<>> \in Seq(Numbers)
      OBVIOUS
    <3> HIDE DEF handle
    <3> QED BY <2>2, <3>1 DEF NewDecoder, DecoderType
  <2> HIDE DEF d
  <2>7. Decoding(d)
    <3>1. Len(d.got) = 0 /\ Start(0) = 0 /\ Encoded \in 0 .. 3
      BY <1>1, <2>5, StartSteps, EncodedNumber
    <3>2. d.in = From(handle, 0 + 1)
      BY <2>2, <2>5, SubSeqFull DEF From, Numbers
    <3>3. Start(0) <= Len(handle) /\ 0 <= 3 /\ 0 <= Encoded
      BY <2>2, <3>1
    <3>4. \A k \in 1 .. 3 : ~(k <= 0)
      OBVIOUS
    <3> QED BY <2>6, <3>1, <3>2, <3>3, <3>4 DEF Decoding
  <2>8. dec' = d
    BY <2>1, <2>3 DEF d
  <2>9. Decoding(dec)'
    BY <1>1, <2>7, <2>8, DecodingKept
  <2> QED BY <1>1, <1>2, <2>1, <2>4, <2>5, <2>8, <2>9
          DEF KeySafe, KeyInv, KeyIsTheRegistered, KeyComesBack
<1> QED BY <1>3, <1>4

\* SignASN1 keeps KeySafe: it accepts three parts with nothing after them.
LEMMA SignKeeps ==
  ASSUME KeySafe, SignASN1
  PROVE  KeySafe'
<1> DEFINE n == Len(dec.got)
<1>1. /\ stage = "decoding" /\ dec' = Decode(dec)
      /\ stage' = IF n < 3 THEN (IF dec'.err = "none" THEN "decoding" ELSE "rejected")
                  ELSE (IF AtEnd(dec') THEN "accepted" ELSE "rejected")
      /\ UNCHANGED <<parts, app, enc, sent, req>>
      /\ PartsOK /\ app \in Hashes /\ WrittenBy(enc)
      /\ sent.handle \in HandlesLike(enc.out) /\ Decoding(dec) /\ Signing
  BY DEF SignASN1, KeySafe, KeyInv, Signing
<1>2. WrittenBy(enc)' /\ PartsOK'
  BY <1>1, WrittenKept, SamePieces
<1>3. dec \in DecoderType /\ n \in 0 .. 3
  BY <1>1, SigningNumbers
<1>4. /\ dec'.err \notin {"small", "panic"}
      /\ Readable(dec) => dec'.err = "none"
      /\ ~Readable(dec) => dec'.err # "none" /\ dec'.got = dec.got
  <2>1. Readable(dec) => dec' \in DecoderType
    BY <1>1, <1>3, DecodeReads
  <2>2. Readable(dec) => dec'.err = "none"
    BY <2>1 DEF DecoderType
  <2> QED BY <1>1, <1>3, <2>2, DecodeOf
<1>5. CASE n < 3 /\ Readable(dec)
  <2>1. stage' = "decoding"
    BY <1>1, <1>4, <1>5
  <2>2. Decoding(dec)'
    BY <1>1, <1>5, SignGoesOn, DecodingKept
  <2>3. MessageMeansWhatWasSent'
    BY <1>1, <2>1 DEF KeySafe, MessageMeansWhatWasSent
  <2> QED BY <1>1, <1>2, <1>4, <2>1, <2>2, <2>3
          DEF KeySafe, KeyInv, KeyIsTheRegistered, KeyComesBack
<1>6. CASE n < 3 /\ ~Readable(dec)
  <2>1. stage' = "rejected"
    BY <1>1, <1>4, <1>6
  <2>2. sent.handle # enc.out \/ enc.err
    BY <1>1, <1>6, WholeReadable
  <2>3. KeyComesBack'
    BY <1>1, <1>4, <2>2 DEF KeyComesBack
  <2> QED BY <1>1, <1>2, <2>1, <2>3
          DEF KeySafe, KeyInv, KeyIsTheRegistered, MessageMeansWhatWasSent
<1>7. CASE ~(n < 3) /\ dec'.err = "EOF"
  <2>1. stage' = "accepted"
    BY <1>1, <1>7 DEF AtEnd
  <2>2. n = 3
    <3> HIDE DEF n
    <3> QED BY <1>3, <1>7
  <2>3. dec'.got = dec.got
    BY <1>4, <1>7
  <2>4. KeyIsTheRegistered'
    BY <1>1, <2>1, <2>2, <2>3, AllParts DEF KeyIsTheRegistered
  <2> QED BY <1>1, <1>2, <1>4, <2>1, <2>4
          DEF KeySafe, KeyInv, KeyComesBack, MessageMeansWhatWasSent
<1>8. CASE ~(n < 3) /\ dec'.err # "EOF"
  <2>1. stage' = "rejected"
    BY <1>1, <1>8 DEF AtEnd
  <2>2. sent.handle # enc.out \/ enc.err
    BY <1>1, <1>8, WholeReadable
  <2>3. KeyComesBack'
    BY <1>1, <1>4, <2>2 DEF KeyComesBack
  <2> QED BY <1>1, <1>2, <2>1, <2>3
          DEF KeySafe, KeyInv, KeyIsTheRegistered, MessageMeansWhatWasSent
<1> QED BY <1>5, <1>6, <1>7, <1>8

\* At first nothing is registered.
LEMMA KeySafeInit == Init => KeySafe
<1> SUFFICES ASSUME Init PROVE KeySafe
  OBVIOUS
<1>1. /\ stage = "asked" /\ parts \in [1 .. 3 -> Parts] /\ app \in Hashes
      /\ enc = NewEncoder /\ dec = NewDecoder(<<>>) /\ req = Refused
  BY DEF Init
<1>2. PICK end \in Ends, challenge \in Hashes :
        LET message == RegisterMessage(challenge, app, end) IN
        \E raw \in Prefixes(message) : sent = [raw |-> raw, message |-> message, handle |-> <<>>]
  BY DEF Init
<1> DEFINE message == RegisterMessage(challenge, app, end)
<1>3. PICK raw \in Prefixes(message) : sent = [raw |-> raw, message |-> message, handle |-> <<>>]
  BY <1>2
<1>4. Asked
  <2>1. sent.message = message
    BY <1>3
  <2>2. sent.raw \in Prefixes(sent.message)
    <3> HIDE DEF message
    <3> QED BY <1>3
  <2> QED BY <1>2, <2>1, <2>2 DEF Asked
<1>5. dec.err = "none"
  BY <1>1 DEF NewDecoder
<1> QED BY <1>1, <1>4, <1>5
        DEF KeySafe, KeyInv, PartsOK, KeyIsTheRegistered, KeyComesBack, MessageMeansWhatWasSent

\* Each step keeps KeySafe.
LEMMA KeySafeStep ==
  ASSUME KeySafe, ResponseArrives, [Next]_vars
  PROVE  KeySafe'
<1>1. CASE TakeRegister
  BY <1>1, TakeRegisterKeeps
<1>2. CASE RegisterKey
  BY <1>2, RegisterKeyKeeps
<1>3. CASE RegisterSite \/ Respond
  BY <1>3, AnswerKeeps
<1>4. CASE Authenticate
  BY <1>4, AuthenticateKeeps
<1>5. CASE TakeAuthenticate
  BY <1>5, TakeAuthenticateKeeps
<1>6. CASE SignASN1
  BY <1>6, SignKeeps
<1>7. CASE UNCHANGED vars
  <2>1. UNCHANGED <<stage, parts, app, enc, sent, req, dec>>
    BY <1>7 DEF vars
  <2> QED BY <2>1
          DEF KeySafe, KeyInv, KeyIsTheRegistered, KeyComesBack, MessageMeansWhatWasSent, PartsOK,
              WrittenBy, Laid, Encoded, TooLong, Start, Asked, Returned, Decoding
<1> QED BY <1>1, <1>2, <1>3, <1>4, <1>5, <1>6, <1>7 DEF Next

-----------------------------------------------------------------------------
(* Frames. *)

LEMMA UptoBytes ==
  ASSUME NEW bytes \in Numbers, NEW n \in 0 .. Len(bytes)
  PROVE  /\ Upto(bytes, n) \in Numbers /\ Len(Upto(bytes, n)) = n /\ n \in Nat
         /\ \A i \in 1 .. n : Upto(bytes, n)[i] = bytes[i]
<1>1. n \in Nat /\ n <= Len(bytes) /\ Len(bytes) \in Nat
  BY DEF Numbers
<1>2. \A i \in 1 .. n : bytes[i] \in Nat
  BY <1>1 DEF Numbers
<1> QED BY <1>1, <1>2, SubSeqProperties DEF Numbers, Upto

\* The frame a report carries: the next bytes, filled up with zeroes.
Frame(data, room) == Padded(Upto(data, Least(room, Len(data))), room)

\* A frame has the bytes it has room for, and zeros after the last.
LEMMA FrameBytes ==
  ASSUME NEW data \in Numbers, NEW room \in Nat
  PROVE  /\ Frame(data, room) \in Numbers /\ Len(Frame(data, room)) = room
         /\ \A i \in 1 .. room : i <= Len(data) => Frame(data, room)[i] = data[i]
<1> DEFINE size == Least(room, Len(data))
           chunk == Upto(data, size)
           frame == Frame(data, room)
<1>1. /\ Len(data) \in Nat /\ size \in 0 .. Len(data) /\ size <= room
      /\ \A i \in 1 .. room : i <= Len(data) => i \in 1 .. size
  <2>1. Len(data) \in Nat
    BY DEF Numbers
  <2> QED BY <2>1 DEF Least
<1> HIDE DEF size
<1>2. chunk \in Numbers /\ Len(chunk) = size /\ \A i \in 1 .. size : chunk[i] = data[i]
  BY <1>1, UptoBytes
<1> HIDE DEF chunk
<1>3. DOMAIN chunk = 1 .. size
  BY <1>2, LenProperties DEF Numbers
<1>4. frame = [i \in 1 .. room |-> IF i \in 1 .. size THEN chunk[i] ELSE 0]
  BY <1>3 DEF Frame, Padded, chunk, size
<1> HIDE DEF frame
<1>5. \A i \in 1 .. size : chunk[i] \in Nat
  BY <1>2, ElementOfSeq DEF Numbers
<1>6. frame \in [1 .. room -> Nat]
  BY <1>4, <1>5
<1>7. frame \in Numbers /\ Len(frame) = room
  BY <1>6 DEF Numbers
<1>8. \A i \in 1 .. room : i <= Len(data) => frame[i] = data[i]
  BY <1>1, <1>2, <1>4
<1> QED BY <1>7, <1>8 DEF frame

\* A host appends a frame and cuts at the length of the message.
LEMMA JoinedBytes ==
  ASSUME NEW data \in Numbers, NEW more \in Numbers, NEW total \in Nat
  PROVE  /\ Joined(data, more, total) \in Numbers
         /\ Joined(data, more, total) = Upto(data \o more, Least(total, Len(data) + Len(more)))
<1> DEFINE both == data \o more
           last == Least(total, Len(both))
<1>1. both \in Numbers /\ Len(both) = Len(data) + Len(more)
  BY ConcatBytes
<1> HIDE DEF both
<1>2. Len(both) \in Nat
  BY <1>1 DEF Numbers
<1>3. last \in 0 .. Len(both)
  BY <1>2 DEF Least
<1>4. Joined(data, more, total) = Upto(both, last)
  BY DEF Joined, both
<1> HIDE DEF last
<1>5. Upto(both, last) \in Numbers
  BY <1>1, <1>3, UptoBytes
<1> QED BY <1>1, <1>4, <1>5 DEF last, both

\* A frame that holds the next bytes of a message brings the host that much further.
LEMMA FrameJoins ==
  ASSUME NEW bytes \in Numbers, NEW had \in 0 .. Len(bytes), NEW room \in Nat
  PROVE  Joined(Upto(bytes, had), Frame(From(bytes, had + 1), room), Len(bytes)) =
           Upto(bytes, Least(had + room, Len(bytes)))
<1> DEFINE left == Upto(bytes, had)
           rest == From(bytes, had + 1)
           frame == Frame(rest, room)
           total == Len(bytes)
           whole == left \o frame
           last == Least(had + room, total)
<1>0. total \in Nat /\ had \in Nat /\ had <= total
  BY DEF Numbers
<1>1. left \in Numbers /\ Len(left) = had /\ \A i \in 1 .. had : left[i] = bytes[i]
  BY UptoBytes
<1>2. /\ rest \in Numbers /\ Len(rest) = total - had
      /\ \A i \in 1 .. total - had : rest[i] = bytes[had + i]
  <2>1. had + 1 \in 1 .. total + 1
    BY <1>0
  <2>2. /\ rest \in Numbers /\ Len(rest) = total - (had + 1) + 1
        /\ \A i \in 1 .. total - (had + 1) + 1 : rest[i] = bytes[(had + 1) - 1 + i]
    BY <2>1, FromBytes
  <2> HIDE DEF rest, total
  <2>3. total - (had + 1) + 1 = total - had /\ (had + 1) - 1 = had
    BY <1>0
  <2> QED BY <2>2, <2>3
<1> HIDE DEF rest
<1>3. /\ frame \in Numbers /\ Len(frame) = room
      /\ \A i \in 1 .. room : i <= Len(rest) => frame[i] = rest[i]
  BY <1>2, FrameBytes
<1> HIDE DEF left, frame
<1>4. /\ whole \in Numbers /\ Len(whole) = had + room
      /\ \A i \in 1 .. had : whole[i] = left[i]
      /\ \A i \in 1 .. room : whole[had + i] = frame[i]
  BY <1>1, <1>3, ConcatBytes
<1>5. last \in 0 .. total /\ last \in 0 .. had + room
  <2> HIDE DEF total
  <2> QED BY <1>0 DEF Least
<1>6. Joined(left, frame, total) = Upto(whole, last)
  <2>1. Joined(left, frame, total) = Upto(whole, Least(total, Len(left) + Len(frame)))
    BY <1>0, <1>1, <1>3, JoinedBytes
  <2> HIDE DEF total, whole
  <2>2. Least(total, had + room) = Least(had + room, total)
    BY <1>0 DEF Least
  <2> QED BY <1>1, <1>3, <2>1, <2>2
<1> HIDE DEF whole, last
<1>7. /\ Upto(whole, last) \in Numbers /\ Len(Upto(whole, last)) = last
      /\ \A i \in 1 .. last : Upto(whole, last)[i] = whole[i]
  BY <1>4, <1>5, UptoBytes
<1>8. /\ Upto(bytes, last) \in Numbers /\ Len(Upto(bytes, last)) = last
      /\ \A i \in 1 .. last : Upto(bytes, last)[i] = bytes[i]
  BY <1>5, UptoBytes
<1>9. ASSUME NEW i \in 1 .. last PROVE whole[i] = bytes[i]
  <2> HIDE DEF total
  <2>1. CASE i <= had
    <3>1. i \in 1 .. had
      BY <1>0, <1>5, <2>1
    <3> QED BY <1>1, <1>4, <3>1
  <2>2. CASE ~(i <= had)
    <3> DEFINE j == i - had
    <3>1. j \in 1 .. room /\ j \in 1 .. total - had /\ had + j = i /\ j <= Len(rest)
      BY <1>0, <1>2, <1>5, <2>2
    <3> HIDE DEF j
    <3>2. whole[had + j] = frame[j] /\ frame[j] = rest[j] /\ rest[j] = bytes[had + j]
      BY <1>2, <1>3, <1>4, <3>1
    <3> QED BY <3>1, <3>2
  <2> QED BY <2>1, <2>2
<1>10. Upto(whole, last) = Upto(bytes, last)
  BY <1>7, <1>8, <1>9, SeqEqual DEF Numbers
<1> QED BY <1>6, <1>10 DEF left, frame, rest, last

\* The beginning and the end of a sequence, at their limits.
LEMMA WholeUpto ==
  ASSUME NEW bytes \in Numbers
  PROVE  Upto(bytes, 0) = <<>> /\ Upto(bytes, Len(bytes)) = bytes /\ From(bytes, 0 + 1) = bytes
<1>1. Len(bytes) \in Nat
  BY DEF Numbers
<1>2. 0 \in 0 .. Len(bytes)
  BY <1>1
<1>3. Upto(bytes, 0) \in Numbers /\ Len(Upto(bytes, 0)) = 0
  BY <1>2, UptoBytes
<1>4. Upto(bytes, 0) = <<>>
  BY <1>3, EmptySeq DEF Numbers
<1>5. Upto(bytes, Len(bytes)) = bytes /\ From(bytes, 1) = bytes
  BY SubSeqFull DEF Numbers, Upto, From
<1> QED BY <1>4, <1>5

\* Numbers of frames, and the size of a response.
LEMMA FrameNumbers ==
  /\ FrameTypeInit \in Nat /\ FrameTypeInit + 1 <= MaxByte + 1 /\ FrameTypeInit <= MaxByte
  /\ InitData \in Nat \ {0} /\ ContData \in Nat \ {0} /\ MaxByte \in Nat \ {0}
  /\ \A n \in Nat : n <= MaxByte => n % (MaxByte + 1) = n
  /\ \A n \in Nat : n <= MaxByte + 4 => Size(n) = n
<1>1. MaxByte \in Nat \ {0} /\ 8 <= MaxByte
  BY ByteAssumption, KeyHandleAssumption DEF CtrlDontEnforce
<1>2. FrameTypeInit \in Nat /\ FrameTypeInit <= MaxByte
  BY <1>1 DEF FrameTypeInit
<1>3. ASSUME NEW n \in Nat, NEW m \in Nat, n < m PROVE n % m = n
  BY <1>3
<1>4. \A n \in Nat : n <= MaxByte => n % (MaxByte + 1) = n
  <2> SUFFICES ASSUME NEW n \in Nat, n <= MaxByte PROVE n % (MaxByte + 1) = n
    OBVIOUS
  <2> DEFINE m == MaxByte + 1
  <2>1. m \in Nat /\ n < m
    BY <1>1
  <2> HIDE DEF m
  <2>2. n % m = n
    BY <1>3, <2>1
  <2> QED BY <2>2 DEF m
<1>5. \A n \in Nat : n <= MaxByte + 4 => Size(n) = n
  <2> SUFFICES ASSUME NEW n \in Nat, n <= MaxByte + 4 PROVE Size(n) = n
    OBVIOUS
  <2> DEFINE side == MaxByte + 1
             m == side * side
  <2>1. side \in Nat /\ 9 <= side /\ n < 9 * side
    BY <1>1
  <2> HIDE DEF side
  <2>2. m \in Nat /\ 9 * side <= m
    BY <2>1
  <2> HIDE DEF m
  <2>3. n < m
    BY <2>1, <2>2
  <2>4. n % m = n
    BY <1>3, <2>2, <2>3
  <2> QED BY <2>4 DEF m, side, Size
<1> QED BY <1>1, <1>2, <1>4, <1>5, FramingAssumption

\* After a frame: all has been written and the host has it, or the frames go on.
Written ==
  IF writer.data = <<>>
  THEN IF host.bad THEN Len(Response) > LongestMessage ELSE host.data = Response
  ELSE Midway

\* What is left to write after the bytes that were written and the next frame: the bytes
\* behind it, or nothing if the message ends in it.
Leaves(bytes, had, room, data) ==
  LET size == Least(room, Len(data))
      left == From(data, size + 1)
  IN
  /\ data \in Numbers /\ Len(data) = Len(bytes) - had
  /\ left \in Numbers /\ size \in Nat
  /\ left = <<>> => Least(had + room, Len(bytes)) = Len(bytes)
  /\ left # <<>> => /\ size = room /\ Least(had + room, Len(bytes)) = had + room
                    /\ left = From(bytes, had + room + 1)
                    /\ had + room \in 1 .. Len(bytes) - 1

\* One frame takes its room from what is left, and the host has that much
\* more.
LEMMA LeftToWrite ==
  ASSUME NEW bytes \in Numbers, NEW had \in 0 .. Len(bytes) - 1, NEW room \in Nat \ {0},
         NEW data, data = From(bytes, had + 1)
  PROVE  Leaves(bytes, had, room, data)
<1> DEFINE total == Len(bytes)
           size == Least(room, Len(data))
           left == From(data, size + 1)
<1>1. total \in Nat /\ had \in Nat /\ had < total
  BY DEF Numbers
<1>2. data \in Numbers /\ Len(data) = total - had
  <2>1. had + 1 \in 1 .. total + 1
    BY <1>1
  <2>2. data \in Numbers /\ Len(data) = total - (had + 1) + 1
    BY <2>1, FromBytes
  <2> HIDE DEF total
  <2> QED BY <1>1, <2>2
<1> HIDE DEF total
<1>3. size \in Nat /\ had + size <= total /\ size + 1 \in 1 .. Len(data) + 1
  BY <1>1, <1>2 DEF Least
<1> HIDE DEF size
<1>4. left \in Numbers /\ Len(left) = total - had - size
  <2>1. left \in Numbers /\ Len(left) = Len(data) - (size + 1) + 1
    BY <1>2, <1>3, FromBytes
  <2> HIDE DEF left
  <2> QED BY <1>1, <1>2, <1>3, <2>1
<1>5. left = From(bytes, had + size + 1)
  BY <1>1, <1>3, FromFrom DEF total
<1> HIDE DEF left
<1>6. left = <<>> => had + size = total
  <2>1. left = <<>> => Len(left) = 0
    OBVIOUS
  <2> HIDE DEF left
  <2> QED BY <1>1, <1>3, <1>4, <2>1
<1>7. left # <<>> => had + size < total
  <2>1. left # <<>> => Len(left) # 0
    BY <1>4, EmptySeq DEF Numbers
  <2> QED BY <1>1, <1>3, <1>4, <2>1
<1>8. CASE left = <<>>
  <2>1. Least(had + room, total) = total
    BY <1>1, <1>2, <1>3, <1>6, <1>8 DEF Least, size
  <2> QED BY <1>2, <1>3, <1>4, <1>8, <2>1 DEF Leaves, total, left, size
<1>9. CASE left # <<>>
  <2>1. size = room /\ Least(had + room, total) = had + room /\ had + room \in 1 .. total - 1
    BY <1>1, <1>2, <1>3, <1>7, <1>9 DEF Least, size
  <2> QED BY <1>2, <1>3, <1>4, <1>5, <1>9, <2>1 DEF Leaves, total, left, size
<1> QED BY <1>8, <1>9

\* The initial frame leaves the writer where the host stops.
LEMMA WriteInitStep ==
  ASSUME enc.out \in Numbers, enc' = enc, FrameType, Fresh, WriteInit
  PROVE  FrameType' /\ Written'
<1> DEFINE answer == Response
           total == Len(answer)
           size == Least(InitData, total)
           left == From(answer, size + 1)
           frame == Frame(answer, InitData)
           read == Joined(<<>>, frame, total)
<1>1. answer \in Numbers /\ total \in Nat /\ 0 \in 0 .. total - 1
  <2>1. answer \in Numbers /\ total = Len(enc.out) + 4 /\ total \in Nat
    BY ResponseBytes
  <2>2. Len(enc.out) \in Nat
    BY DEF Numbers
  <2> HIDE DEF total
  <2> QED BY <2>1, <2>2
<1>2. /\ writer = [data |-> answer, initial |-> TRUE, seqNo |-> 0, total |-> total]
      /\ host' = [NoMessage EXCEPT !.data = read, !.total = total]
      /\ writer' = [writer EXCEPT !.initial = FALSE, !.data = left]
  <2>1. writer = [data |-> answer, initial |-> TRUE, seqNo |-> 0, total |-> total]
    BY DEF Fresh
  <2>2. writer.data = answer /\ writer.total = total
    BY <2>1
  <2> QED BY <2>1, <2>2 DEF WriteInit, HostReadsInit, Frame
<1>3. InitData \in Nat \ {0} /\ ContData \in Nat
  BY FrameNumbers
<1>4. Response' = answer
  BY DEF Response
<1>5. answer = From(answer, 0 + 1) /\ Upto(answer, 0) = <<>> /\ Upto(answer, total) = answer
  BY <1>1, WholeUpto
<1> HIDE DEF answer
<1>6. /\ size \in Nat /\ left \in Numbers
      /\ left = <<>> => Least(0 + InitData, total) = total
      /\ left # <<>> => /\ size = InitData /\ Least(0 + InitData, total) = 0 + InitData
                        /\ left = From(answer, 0 + InitData + 1)
                        /\ 0 + InitData \in 1 .. total - 1
  <2>1. Leaves(answer, 0, InitData, answer)
    BY <1>1, <1>3, <1>5, LeftToWrite
  <2> QED BY <2>1 DEF Leaves
<1>7. read = Upto(answer, Least(0 + InitData, total)) /\ read \in Numbers
  <2>1. 0 \in 0 .. Len(answer)
    BY <1>1
  <2>2. Joined(Upto(answer, 0), Frame(From(answer, 0 + 1), InitData), Len(answer)) =
          Upto(answer, Least(0 + InitData, Len(answer)))
    BY <1>1, <1>3, <2>1, FrameJoins
  <2>3. frame \in Numbers
    BY <1>1, <1>3, FrameBytes
  <2>4. <<>> \in Numbers
    BY DEF Numbers
  <2> HIDE DEF frame, total
  <2>5. read \in Numbers
    BY <1>1, <2>3, <2>4, JoinedBytes
  <2> QED BY <1>5, <2>2, <2>5 DEF frame, total
<1> HIDE DEF left, read, total, size
<1>8. /\ writer' = [data |-> left, initial |-> FALSE, seqNo |-> 0, total |-> total]
      /\ host' = [data |-> read, total |-> total, next |-> 0, bad |-> FALSE]
  BY <1>2 DEF NoMessage
<1>9. FrameType'
  BY <1>1, <1>6, <1>7, <1>8 DEF FrameType
<1>10. 0 + InitData = InitData /\ InitData + 0 * ContData = InitData
  BY <1>3
<1>11. CASE left = <<>>
  <2>1. host'.data = Response' /\ ~host'.bad /\ writer'.data = <<>>
    BY <1>4, <1>5, <1>6, <1>7, <1>8, <1>11
  <2> QED BY <1>9, <2>1 DEF Written
<1>12. CASE left # <<>>
  <2>1. /\ InitData \in 1 .. Len(Response') - 1 /\ writer'.data = From(Response', InitData + 1)
        /\ host'.data = Upto(Response', InitData) /\ host'.next = writer'.seqNo
        /\ InitData = InitData + writer'.seqNo * ContData
    BY <1>4, <1>6, <1>7, <1>8, <1>10, <1>12 DEF total
  <2>2. ~host'.bad /\ ~writer'.initial /\ host'.total = Len(Response') /\ writer'.data # <<>>
    BY <1>4, <1>8, <1>12 DEF total
  <2>3. Midway'
    BY <2>1, <2>2 DEF Midway
  <2> QED BY <1>9, <2>2, <2>3 DEF Written
<1> QED BY <1>11, <1>12

\* A further frame leaves the writer where the host stops, while the numbers
\* last.
LEMMA WriteContStep ==
  ASSUME enc.out \in Numbers, Len(enc.out) <= MaxByte, enc' = enc, FrameType, Midway, WriteCont
  PROVE  FrameType' /\ Written'
<1> DEFINE answer == Response
           total == Len(answer)
           data == writer.data
           seqNo == writer.seqNo
           size == Least(ContData, Len(data))
           left == From(data, size + 1)
           frame == Frame(data, ContData)
           read == Joined(host.data, frame, total)
           number == (seqNo + 1) % (MaxByte + 1)
           lost == seqNo >= FrameTypeInit \/ seqNo # host.next
<1>1. answer \in Numbers /\ total \in Nat
  BY ResponseBytes
<1>2. /\ host.total = total /\ ~writer.initial
      /\ host' = IF lost THEN [host EXCEPT !.bad = TRUE]
                 ELSE [host EXCEPT !.data = read, !.next = host.next + 1]
      /\ writer' = [writer EXCEPT !.data = left, !.seqNo = number]
  BY DEF WriteCont, HostReadsCont, Frame, Midway
<1>3. PICK had \in 1 .. total - 1 :
        /\ data = From(answer, had + 1)
        /\ host.bad => total > LongestMessage
        /\ ~host.bad => /\ host.data = Upto(answer, had) /\ host.next = seqNo
                        /\ had = InitData + seqNo * ContData
  BY DEF Midway
<1>4. InitData \in Nat \ {0} /\ ContData \in Nat \ {0}
      /\ FrameTypeInit \in Nat /\ FrameTypeInit <= MaxByte /\ MaxByte \in Nat \ {0}
  BY FrameNumbers
<1>5. Response' = answer
  BY DEF Response
<1> HIDE DEF answer
<1>6. /\ seqNo \in Nat /\ host.data \in Numbers /\ host.next \in Nat /\ host.bad \in BOOLEAN
      /\ writer = [data |-> data, initial |-> FALSE, seqNo |-> seqNo, total |-> writer.total]
      /\ writer.total \in Nat
      /\ host = [data |-> host.data, total |-> host.total, next |-> host.next, bad |-> host.bad]
  BY <1>2 DEF FrameType
<1> HIDE DEF seqNo, data
<1>7. /\ data \in Numbers /\ left \in Numbers
      /\ left = <<>> => Least(had + ContData, total) = total
      /\ left # <<>> => /\ Least(had + ContData, total) = had + ContData
                        /\ left = From(answer, had + ContData + 1)
                        /\ had + ContData \in 1 .. total - 1
  <2>1. had \in 0 .. Len(answer) - 1 /\ data = From(answer, had + 1) /\ ContData \in Nat \ {0}
    BY <1>1, <1>3, <1>4
  <2>2. Leaves(answer, had, ContData, data)
    BY <1>1, <2>1, LeftToWrite
  <2> QED BY <2>2 DEF Leaves
<1>8. read \in Numbers /\ (~host.bad => read = Upto(answer, Least(had + ContData, total)))
  <2>1. frame \in Numbers
    BY <1>4, <1>7, FrameBytes
  <2>2. read \in Numbers
    <3> HIDE DEF frame, total
    <3> QED BY <1>1, <1>6, <2>1, JoinedBytes
  <2>3. had \in 0 .. Len(answer)
    BY <1>1
  <2>4. Joined(Upto(answer, had), Frame(From(answer, had + 1), ContData), Len(answer)) =
          Upto(answer, Least(had + ContData, Len(answer)))
    BY <1>1, <1>4, <2>3, FrameJoins
  <2> QED BY <1>3, <2>2, <2>4
<1>9. number \in Nat
  BY <1>4, <1>6
<1>10. seqNo < FrameTypeInit => number = seqNo + 1
  <2> DEFINE next == seqNo + 1
  <2>1. next \in Nat /\ (seqNo < FrameTypeInit => next <= MaxByte)
    BY <1>4, <1>6
  <2> HIDE DEF next
  <2>2. seqNo < FrameTypeInit => next % (MaxByte + 1) = next
    BY <2>1, FrameNumbers
  <2> QED BY <2>2 DEF next
<1> HIDE DEF left, read, total, size, number, frame
<1>11. writer' = [data |-> left, initial |-> FALSE, seqNo |-> number, total |-> writer.total]
  <2>1. writer' = [writer EXCEPT !.data = left, !.seqNo = number]
    BY <1>2
  <2> DEFINE given == writer.total
  <2>2. writer = [data |-> data, initial |-> FALSE, seqNo |-> seqNo, total |-> given]
    BY <1>6
  <2> HIDE DEF given
  <2>3. writer' = [data |-> left, initial |-> FALSE, seqNo |-> number, total |-> given]
    BY <2>1, <2>2
  <2> QED BY <2>3 DEF given
<1>12. CASE lost
  <2>1. host' = [data |-> host.data, total |-> total, next |-> host.next, bad |-> TRUE]
    BY <1>2, <1>6, <1>12
  <2>2. total > LongestMessage
    <3>1. CASE host.bad
      BY <1>3, <3>1
    <3>2. CASE ~host.bad
      <4>1. seqNo >= FrameTypeInit /\ had = InitData + seqNo * ContData
        BY <1>3, <1>12, <3>2
      <4>2. seqNo * ContData >= FrameTypeInit * ContData
        BY <1>4, <1>6, <4>1
      <4> DEFINE there == seqNo * ContData
                 longest == FrameTypeInit * ContData
      <4>3. there \in Nat /\ longest \in Nat
        BY <1>4, <1>6
      <4> HIDE DEF there, longest
      <4>4. had = InitData + there /\ there >= longest
        BY <4>1, <4>2 DEF there, longest
      <4>5. total > InitData + longest
        BY <1>1, <1>4, <4>3, <4>4
      <4> QED BY <4>5 DEF LongestMessage, longest
    <3> QED BY <3>1, <3>2
  <2>3. FrameType'
    BY <1>1, <1>6, <1>7, <1>9, <1>11, <2>1 DEF FrameType, total
  <2>4. CASE left = <<>>
    <3>1. host'.bad /\ writer'.data = <<>> /\ Len(Response') > LongestMessage
      BY <1>5, <1>11, <2>1, <2>2, <2>4 DEF total
    <3> QED BY <2>3, <3>1 DEF Written
  <2>5. CASE left # <<>>
    <3> DEFINE now == had + ContData
    <3>1. now \in 1 .. Len(Response') - 1 /\ writer'.data = From(Response', now + 1)
      BY <1>5, <1>7, <1>11, <2>5 DEF total
    <3>2. /\ host'.bad /\ ~writer'.initial /\ host'.total = Len(Response')
          /\ Len(Response') > LongestMessage /\ writer'.data # <<>>
      BY <1>5, <1>11, <2>1, <2>2, <2>5 DEF total
    <3> HIDE DEF now
    <3>3. Midway'
      BY <3>1, <3>2 DEF Midway
    <3> QED BY <2>3, <3>2, <3>3 DEF Written
  <2> QED BY <2>4, <2>5
<1>13. CASE ~lost
  <2>1. /\ host' = [data |-> read, total |-> total, next |-> host.next + 1, bad |-> host.bad]
        /\ seqNo < FrameTypeInit /\ host.next = seqNo /\ number = seqNo + 1
    <3>1. host' = [host EXCEPT !.data = read, !.next = host.next + 1]
      BY <1>2, <1>13
    <3> DEFINE heard == host.data
               next == host.next
               bad == host.bad
    <3>2. host = [data |-> heard, total |-> total, next |-> next, bad |-> bad]
      BY <1>2, <1>6
    <3>3. seqNo < FrameTypeInit /\ host.next = seqNo
      BY <1>4, <1>6, <1>13
    <3>4. host' = [host EXCEPT !.data = read, !.next = next + 1]
      BY <3>1
    <3> HIDE DEF lost, heard, next, bad
    <3>5. host' = [data |-> read, total |-> total, next |-> next + 1, bad |-> bad]
      BY <3>2, <3>4
    <3> QED BY <1>10, <3>3, <3>5 DEF next, bad
  <2>2. FrameType'
    BY <1>1, <1>6, <1>7, <1>8, <1>9, <1>11, <2>1 DEF FrameType, total
  <2>3. CASE left = <<>>
    <3>1. Least(had + ContData, total) = Len(answer)
      BY <1>7, <2>3 DEF total
    <3>2. ~host.bad => read = answer
      BY <1>1, <1>8, <3>1, WholeUpto
    <3>3. writer'.data = <<>> /\ (host'.bad <=> host.bad) /\ host'.data = read
      BY <1>11, <2>1, <2>3
    <3>4. host.bad => Len(Response') > LongestMessage
      BY <1>3, <1>5 DEF total
    <3> QED BY <1>5, <2>2, <3>2, <3>3, <3>4 DEF Written
  <2>4. CASE left # <<>>
    <3> DEFINE now == had + ContData
    <3>1. now \in 1 .. Len(Response') - 1 /\ writer'.data = From(Response', now + 1)
      BY <1>5, <1>7, <1>11, <2>4 DEF total
    <3>2. /\ ~writer'.initial /\ host'.total = Len(Response') /\ writer'.data # <<>>
          /\ (host'.bad <=> host.bad) /\ host'.next = writer'.seqNo /\ writer'.seqNo = seqNo + 1
      BY <1>5, <1>11, <2>1, <2>4 DEF total
    <3>3. host.bad => Len(Response') > LongestMessage
      BY <1>3, <1>5 DEF total
    <3>4. ~host.bad => host'.data = Upto(Response', now)
      BY <1>5, <1>7, <1>8, <2>1, <2>4
    <3>5. ~host.bad => now = InitData + writer'.seqNo * ContData
      <4>1. (seqNo + 1) * ContData = seqNo * ContData + ContData
        BY <1>4, <1>6
      <4> DEFINE there == seqNo * ContData
      <4>2. there \in Nat
        BY <1>4, <1>6
      <4> HIDE DEF there
      <4>3. ~host.bad => had = InitData + there
        BY <1>3 DEF there
      <4>4. writer'.seqNo * ContData = there + ContData
        BY <3>2, <4>1 DEF there
      <4> QED BY <1>4, <4>2, <4>3, <4>4
    <3> HIDE DEF now
    <3>6. Midway'
      BY <3>1, <3>2, <3>3, <3>4, <3>5 DEF Midway
    <3> QED BY <2>2, <3>2, <3>6 DEF Written
  <2> QED BY <2>3, <2>4
<1> QED BY <1>12, <1>13

\* A response is handed to the writer whole.
LEMMA RegisterSiteFrames ==
  ASSUME WrittenBy(enc), FrameInv, RegisterSite
  PROVE  FrameInv'
<1>1. /\ stage = "answering" /\ writer = NoWriter /\ enc' = enc /\ host' = host
      /\ FrameType /\ enc.out \in Numbers
  BY DEF RegisterSite, FrameInv, WrittenBy, EncoderType
<1>2. host = NoMessage
  <2>1. ~Midway
    BY <1>1 DEF Midway, NoWriter
  <2> QED BY <1>1, <2>1 DEF FrameInv, Unwritten, Fresh
<1>3. CASE stage' = "silent" /\ writer' = writer
  BY <1>1, <1>3 DEF FrameInv, FrameType, ResponseArrives
<1>4. CASE Len(enc.out) <= MaxByte /\ WriteResponse(<<5, Len(enc.out)>> \o enc.out, Status)
           /\ stage' = stage
  <2> DEFINE answer == Response
             total == Len(answer)
  <2>1. answer \in Numbers /\ total \in Nat /\ total = Len(enc.out) + 4
    BY <1>1, ResponseBytes
  <2>2. writer' = [NoWriter EXCEPT !.data = answer, !.total = Size(total)]
    BY <1>4 DEF WriteResponse, Response
  <2>3. Response' = answer
    BY <1>1 DEF Response
  <2>4. Size(total) = total
    <3>1. Len(enc.out) \in Nat
      BY <1>1 DEF Numbers
    <3> HIDE DEF total
    <3>2. total <= MaxByte + 4
      BY <1>4, <2>1, <3>1, FrameNumbers
    <3> QED BY <2>1, <3>2, FrameNumbers
  <2> HIDE DEF answer
  <2>5. writer' = [data |-> answer, initial |-> TRUE, seqNo |-> 0, total |-> total]
    BY <2>2, <2>4 DEF NoWriter
  <2>6. Fresh'
    BY <1>1, <1>2, <2>3, <2>5 DEF Fresh
  <2>7. FrameType'
    BY <1>1, <2>1, <2>5 DEF FrameType
  <2> QED BY <1>1, <1>4, <2>6, <2>7 DEF FrameInv, ResponseArrives
<1> QED BY <1>3, <1>4 DEF RegisterSite

\* Writing a frame keeps FrameInv.
LEMMA RespondFrames ==
  ASSUME WrittenBy(enc), FrameInv, Respond
  PROVE  FrameInv'
<1>1. /\ stage = "answering" /\ WriteFrame /\ enc' = enc
      /\ stage' = IF writer'.data # <<>> THEN stage
                  ELSE IF host'.bad THEN "garbled" ELSE "stored"
      /\ FrameType /\ enc.out \in Numbers
  BY DEF Respond, FrameInv, WrittenBy, EncoderType
<1>2. ~Unwritten
  BY <1>1 DEF WriteFrame, WriteInit, WriteCont, Unwritten, NoWriter
<1>3. Len(enc.out) <= MaxByte /\ (Fresh \/ Midway)
  BY <1>1, <1>2 DEF FrameInv
<1>4. FrameType' /\ Written'
  <2>1. CASE Fresh
    <3>1. writer.initial
      BY <2>1 DEF Fresh
    <3>2. WriteInit
      BY <1>1, <3>1 DEF WriteFrame, WriteCont
    <3> QED BY <1>1, <2>1, <3>2, WriteInitStep
  <2>2. CASE Midway
    <3>1. WriteCont
      BY <1>1, <2>2 DEF WriteFrame, WriteInit, Midway
    <3> QED BY <1>1, <1>3, <2>2, <3>1, WriteContStep
  <2> QED BY <1>3, <2>1, <2>2
<1>5. CASE writer'.data # <<>>
  <2>1. Midway' /\ stage' = "answering"
    BY <1>1, <1>4, <1>5 DEF Written
  <2> QED BY <1>1, <1>3, <1>4, <2>1 DEF FrameInv, ResponseArrives
<1>6. CASE writer'.data = <<>>
  <2>1. IF host'.bad THEN stage' = "garbled" /\ Len(Response') > LongestMessage
        ELSE stage' = "stored" /\ host'.data = Response'
    BY <1>1, <1>4, <1>6 DEF Written
  <2> QED BY <1>4, <2>1 DEF FrameInv, ResponseArrives
<1> QED BY <1>5, <1>6

\* Each step keeps FrameInv.
LEMMA FrameStep ==
  ASSUME KeySafe, FrameInv, [Next]_vars
  PROVE  FrameInv'
<1>1. CASE TakeRegister \/ RegisterKey
  <2>1. /\ stage \in {"asked", "encoding"} /\ stage' \in {"silent", "encoding", "answering"}
        /\ UNCHANGED <<writer, host>>
    BY <1>1 DEF TakeRegister, RegisterKey
  <2>2. FrameType /\ Unwritten
    BY <2>1 DEF FrameInv
  <2> QED BY <2>1, <2>2 DEF FrameInv, FrameType, Unwritten, ResponseArrives
<1>2. CASE RegisterSite \/ Respond
  <2>1. WrittenBy(enc)
    BY <1>2 DEF RegisterSite, Respond, KeySafe, KeyInv
  <2> QED BY <1>2, <2>1, RegisterSiteFrames, RespondFrames
<1>3. CASE Authenticate \/ TakeAuthenticate \/ SignASN1
  <2>1. /\ stage' \in {"returned", "silent", "decoding", "rejected", "accepted"}
        /\ UNCHANGED <<writer, host>>
    BY <1>3 DEF Authenticate, TakeAuthenticate, SignASN1
  <2> QED BY <2>1 DEF FrameInv, FrameType, ResponseArrives
<1>4. CASE UNCHANGED vars
  BY <1>4 DEF vars, FrameInv, FrameType, Unwritten, Fresh, Midway, Response, ResponseArrives
<1> QED BY <1>1, <1>2, <1>3, <1>4 DEF Next

\* At first nothing is being written.
LEMMA FrameInit ==
  ASSUME Init
  PROVE  FrameInv
<1>1. /\ stage = "asked"
      /\ writer = [data |-> <<>>, initial |-> TRUE, seqNo |-> 0, total |-> 0]
      /\ host = [data |-> <<>>, total |-> 0, next |-> 0, bad |-> FALSE]
      /\ Unwritten
  BY DEF Init, FramingInit, Unwritten, NoWriter, NoMessage
<1>2. <<>> \in Numbers
  BY DEF Numbers
<1>3. FrameType
  BY <1>1, <1>2 DEF FrameType
<1> QED BY <1>1, <1>3 DEF FrameInv, ResponseArrives

\* The invariant holds: what the encoder wrote, what the host has put together and what the
\* decoder has left fit together in every reachable state.
THEOREM HandlesCorrect == Spec => []HandleInv
<1>1. Init => HandleInv
  BY KeySafeInit, FrameInit DEF HandleInv, KeySafe
<1>2. HandleInv /\ [Next]_vars => HandleInv'
  <2>1. HandleInv => KeySafe /\ FrameInv /\ ResponseArrives
    BY DEF HandleInv, KeySafe, FrameInv
  <2>2. KeySafe' /\ FrameInv' => HandleInv'
    BY DEF HandleInv, KeySafe
  <2> QED BY <2>1, <2>2, KeySafeStep, FrameStep
<1> QED BY <1>1, <1>2, PTL DEF Spec

\* RegisterKey's three Encodes and SignASN1's four Decodes agree: what the TPM is given is
\* what it made, for handles of any length, with any bytes in them.
THEOREM RegisteredKey == Spec => []KeyIsTheRegistered
<1>1. HandleInv => KeyIsTheRegistered
  BY DEF HandleInv
<1> QED BY <1>1, HandlesCorrect, PTL

\* No handle that RegisterKey made whole is refused by SignASN1, and none makes Decode panic.
THEOREM KeyReturns == Spec => []KeyComesBack
<1>1. HandleInv => KeyComesBack
  BY DEF HandleInv
<1> QED BY <1>1, HandlesCorrect, PTL

\* What writeRespose cuts into frames, the host puts together again, for reports of any
\* size; it cannot only when the numbers of the frames run out.
THEOREM ResponsesArrive == Spec => []ResponseArrives
<1>1. HandleInv => ResponseArrives
  BY DEF HandleInv, FrameInv
<1> QED BY <1>1, HandlesCorrect, PTL

\* DecodeAuthenticatorRequest refuses a message or reads it as it was sent, wherever it is cut.
THEOREM MessagesMean == Spec => []MessageMeansWhatWasSent
<1>1. HandleInv => MessageMeansWhatWasSent
  BY DEF HandleInv
<1> QED BY <1>1, HandlesCorrect, PTL
=============================================================================
