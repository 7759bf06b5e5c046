# A verification of linux-id

linux-id emulates a FIDO security key: a HID device that browsers talk to, keys
kept by the TPM, and a dialog or a fingerprint scan to ask the user. This
directory holds TLA+ models of its parts, TLC configurations that check them on
small instances, and proofs that hold for instances of any size: of every safety
property the runs check, whether an invariant or an action property, of the type
invariants, and of both refinements. Liveness is model-checked only. Every definition is
translated from the code; the `map` of `PROJECT.json` says from which lines.

## The system

| part | code | state | operations |
|---|---|---|---|
| HID transport | `fidohid/fidohid.go` | allocated channel ids, the message being assembled | `Run` assembles packets, answers INIT, hands messages to the server; `WriteResponse`, `WriteCtap2Response` |
| event loop | `main.go` `run` | none of its own; one goroutine | takes one event at a time and runs its handler to the end |
| U2F handlers | `main.go` `handleVersion`, `handleAuthenticate`, `handleRegister` | none | check the key handle, ask the user for 750 ms, sign |
| CTAP2 handlers | `main.go` `handleCtap2` ... `handleGetAssertion` | none | resolve the credential, ask the user for 35 s, sign or register |
| verifier and cache | `main.go` `cachingVerifier`, `pinentryVerifier`, `fprintdVerifier` | `lastOK`; a goroutine per call | `VerifyUser`, `PerformsUV` |
| confirmation dialog | `pinentry/pinentry.go` | `activeRequest`, a goroutine and two channels per request | `ConfirmPresence`, `ConfirmGeneric`, `prompt` |
| fingerprint verifier | `fprintd/fprintd.go` | `active` result channel, one scan | `VerifyPresence`, `verifyFingerprint` |
| resident store | `ctap2/credstore.go` | `creds.json` | `Save`, `FindByRPID` |
| signers | `tpm/tpm.go`, `memory/memory.go` | keys inside their handles; a counter | `RegisterKey`, `SignASN1`, `Counter` |
| decoding | `fidoauth/fidoauth.go`, `internal/lencode` | none | `DecodeAuthenticatorRequest`, `Encode`, `Decode` |
| tables, installer | `sitesignatures`, `attestation`, `statuscode`, `install.sh` | none | none |

Browsers write packets to the device. `Run` passes each complete message over an
unbuffered channel to the event loop, which runs one handler at a time. A U2F
handler calls `ConfirmPresence` and listens on the result channel for 750 ms; when
that is over it answers *ConditionsNotSatisfied* and the browser repeats the
request, which then listens on the same channel. A CTAP2 handler calls
`VerifyUser`, which answers from the cache or starts a goroutine on a dialog
(`ConfirmGeneric`) or a scan (`VerifyPresence`), and listens for 35 s. The goroutine
outlives a handler that gave up.

What is hard here: the dialog is shared by an event loop with deadlines,
goroutines without, and a user without any; answers arrive after the one who
asked has gone and must reach the retry, once, or nobody; a cache carries a consent
from one request to the next; a signer, a store or the process may fail between
two steps. `PROJECT.json` lists these hazards at their lines, with the property
that covers each or the reason none does yet.

What makes each part correct:

- dialog: one at a time; one answer, one receiver, one question; it is always
  given up again;
- U2F handlers: a signature needs a confirmation of its own parameters; an answer
  given while the browser asks is not lost; every request is answered in time;
- CTAP2 handlers: nothing is made, signed or admitted without a fresh consent; a
  credential serves the site it was made for; lists are searched to the end; the
  resident credential that answers does not change;
- transport: no message contains the remains of another; a response reaches the
  host that asked, and is not taken for that to a later request; no two hosts share a
  channel;
- store: a crash leaves the old or the new contents; what was acknowledged stays;
- fingerprint verifier: a result means what the sensor said of this attempt; one scan
  at a time; the sensor is given back;
- codecs: what comes back from a site is the registered key handle or refused; a
  message means what was sent or is refused; a response arrives as it was written;
- signers: a handle signs for its own application only, and not for a later process of
  the in-memory signer.

## Modules

`Consent` is the abstract promise of the dialog: a question, a consent, and what
each caller holds. A consent authorises one caller, once, for the question that
was asked, before another question is asked.

`Pinentry` models `pinentry.go` without durations. `activeRequest` is the field of
that name. `requests` maps the address of a request to its parameters and to the
place its `prompt` goroutine has reached: `dialog` until `client.Confirm` returns,
`decide` in the select loop, `sending` and `clearing` in `sendResult`, then `free`.
`callers` says for each caller which channel it listens on and what it heard. One
action per critical section or channel operation: `Refuse`, `Join` and `Open` are
the three ways through `ConfirmPresence`, `Deliver` is the rendezvous on
`pendingResult`, `Clear` the reset of `activeRequest`. A caller that joins between
`Deliver` and `Clear` keeps a channel on which nobody will ever send; the model has
that state, and the 750 ms of the handlers are what resolves it. The three
branches of the select loop are separate actions because Go picks any that is
ready.

`U2FServer` puts the event loop and the U2F handlers over `Pinentry` and adds time,
in ticks of 250 ms: the handler's wait (3), `sendResult`'s wait (8), the pause of a
browser between requests (`PollGap`), and the wait of a CTAP2 request
(`Ctap2Wait`), which uses the same dialog (`HandleCtap2`) or, with `--auth=fprintd`, a
scan beside it (`HandleScan`). `Take` is the reception of the next event; `Handle...` are the
handlers up to where they wait, `Hears...` and `HandlerTimesOut` what follows. The
bytes of a response are reduced to its status. An authentication with an unknown
control value appears as `undecodable`, because `DecodeAuthenticatorRequest` rejects
it before `handleAuthenticate`, which has an answer for it, is called.

`Ctap2Server` models the CTAP2 handlers with the cache, either verifier, the signer
and the store. `prompt` and `waiters` are the dialog or scan and the goroutines that
listen to it in the order they began, which is the order in which Go serves the
receivers of a channel; `calls` are the goroutines of `VerifyUser`; `cacheAge` is the
time since `lastOK`, `touchAge` (a history variable) the time since the user last
consented; `created` lists what the signer made keys for, and a key handle is a
position in it; `store` is `creds.json`; `setup` is the flags the server runs with. A
request is taken, resolved (`Handle...`), waits, and is finished (`Finish...`). The
process may die between any two steps, and between registering a key, saving it and
answering (`Restart`, `DiesRegistering`): what it kept in memory is gone, the store is
not, and keys only if they were the in-memory signer's (`lost`). The loops that search
a list for the first entry that fits are a choice of the least place (`First`).

`HidTransport` models `fidohid.go` in units of packets. `queue` is what the kernel has
taken from the hosts and `parsePackets` has not yet passed on; `run` the loop
variables of `Run` (`innerMsg`, `needSize`, `reqChanID`, `cmd`) and whether it reads,
answers, or offers a message to the server; `channels` the map in `Run`; `server` the
event loop, reduced to taking an event, working on it for any time, and writing the
frames of a response one by one, or none; `hosts` the processes that hold the
device, which follow the protocol as the FIDO standard has it, but may stop at any
point. `Receive` is one turn of the inner loop with the cut that may follow it;
`AllocateChan`, `Unsupported` and `TakeEvent` are the branches of the switch. The data
of a packet is the name of its place in a message, so that a message shows what it
was made of. Sequence numbers are left out: `Run` does not look at them.

`AtomicStore` is the abstract promise of the store: a list that a call of `Save`
changes in one step or not at all, and that `FindByRPID` reads in one step.
`CredStore` models `credstore.go` with the file, its temporary copy and the calls of the
operating system between them, for several processes: `Load`, `Open` (which truncates),
`Write`, `Rename` are the steps of `Save`, each of which may fail, and `Dies` may come
between and in the middle of them. `overlapped` says whether two `Save`s have ever been
under way at once. There is no lock, so the promises are made for the time before;
`NothingInvented` holds after it as well.

`FingerprintScan` models `fprintd.go`. `scans` holds for each call of
`verifyFingerprint` the step it has reached, the attempt, the signals in its channel and
the result channel; `active` is the field of that name. `device` is the sensor as the
daemon sees it. A call of the daemon may fail before it had an effect or after. The
deferred calls are the steps `stop`, `release`, `close`. `SensorReports`, `Phantom` and
`OtherStep` are what may come over the bus at any time. `reports` records what the
sensor said to whom, to compare results with.

`KeyHandles` follows a key handle through the four pieces of code that pack and unpack
it: `RegisterKey` of the TPM signer packs three parts (`Lencode`), `registerSite` sends
them in a response cut into frames (`Framing`), the site sends a handle back in a
message (`FidoAuth`, which also has the messages browsers build), and `SignASN1`
unpacks it. `Lencode` has the encoder and decoder as records with an error that
stays, as in the code; `Framing` the loop of `writeRespose` and a host that puts the
frames together; both work on sequences of bytes (`Bytes`), with small sizes.
`LencodeReader` is a caller that uses every method of the decoder; the repository has
none.

`PinentryProofs`, `U2FServerProofs`, `Ctap2ServerProofs`, `HidTransportProofs`,
`CredStoreProofs`, `FingerprintScanProofs` and `KeyHandlesProofs` hold the theorems about
the modules they are named after; `U2FServerProofs` extends `PinentryProofs` as
`U2FServer` extends `Pinentry`. `NumberFacts` has the two facts about numbers that
replace inductions. The modules beginning with
`MC` give the constants their values. Operators marked "Seeded fault" stand beside a
definition that `PROJECT.json` replaces by them to see that a property notices; no
specification uses them.

## Runs

| run | configuration | instance | shows |
|---|---|---|---|
| `dialog` | `Pinentry.cfg` | 2 handlers, 1 verifier, 2 challenges | `OneDialog`, `OneTaker`, `ChannelInv`, `OkIsForAsker`; the dialog implements `Consent`; `DialogEnds`, `VerifierHears` |
| `operations` | `U2FServer.cfg` | a sign-in, a registration and a CTAP2 request or scan at once; the user may be away | `EveryRequestAnswered`; if the user answers, `EveryOperationEnds` |
| `u2f_failures` | `U2FFailures.cfg` | 2 clients, every kind of request, failing signer; browsers pause up to 750 ms | `SignedWithConsent`, `AnswerReachesBrowser` |
| `ctap2` | `Ctap2Server.cfg` | 2 sites, 2 users, 2 keys; four setups of prompt, signer and failures; restarts | types; `PresenceIsFresh`, `CredentialIsTheRPs`, `ListsAreSearched`, `FirstResidentAnswers`, `ConsentIsNotWasted`, `DialogReachesHandler` |
| `transport` | `HidTransport.cfg` | 2 hosts with 3 messages each, of 1 or 2 packets; a queue of 2; 2 ids | types; `OneHostPerChannel`, `MessageIsWhole`, `OwnResponse`, `ShortMessageAnswered` |
| `store` | `CredStore.cfg` | 2 processes; 3 credentials and one that replaces another | `StoreIsReadable`, `AckedSurvives`, `NothingInvented`; the store implements `AtomicStore` |
| `scan` | `FingerprintScan.cfg` | 2 callers, 2 scans of 3 attempts, 1 signal too many, another program | types; `MatchIsOwn`, `NoMatchEachTime`, `MatchIsBelieved`, `OneScanAtATime`, `SensorIsReturned`, `EveryScanIsHeard` |
| `key_handles` | `KeyHandles.cfg` | 4 parts, bytes up to 11, frames of 1 and 2 bytes | `KeyIsTheRegistered`, `KeyComesBack`, `ResponseArrives`, `MessageMeansWhatWasSent` |
| `assertion_asks_user` | `AssertionAsksUser.cfg` | 1 site | violated: the cache answers for the user |
| `resident_is_stored` | `ResidentIsStored.cfg` | 1 site, failing store | violated: a failed `Save` is not reported |
| `fprintd_retry` | `FprintdRetry.cfg` | 1 site, `--auth=fprintd` | violated: a retry that shares a scan hears nothing |
| `decode_into` | `DecodeInto.cfg` | streams of two messages and parts of them | violated: `DecodeInto` refuses a slice that is large enough |

What the transport does not promise shows in what these properties leave out. The
packets of two hosts that send longer messages at the same time are mixed into one
message, or one message is dropped, and a request dropped or mixed is not answered or
answered with an error of the decoder. `MessageIsWhole` speaks of messages without
such a mixture, `ShortMessageAnswered` of those that cannot suffer one. Nothing in the
repository says otherwise. A U2F message is left out of `ShortMessageAnswered` because
the server may not respond to it (`main.go:245`), and a packet the kernel's full queue did
not take is not answered either.

What the other parts do not promise shows in the same way. Two `Save`s at once may lose
an entry and even leave a file that cannot be read: `StoreIsReadable` and
`AckedSurvives` stop at `overlapped`. With `--auth=fprintd` an answer to a U2F dialog may
be dropped while a scan holds the event loop: `AnswerReachesBrowser` excepts that case,
and `EveryOperationEnds` shows that the user is then asked again. A match that the
sensor reports within the settle delay is dropped and the scan goes on to its deadline:
`MatchIsBelieved` says that a match which was waited for is believed, and that one which
was dropped is at least not turned into a refusal. A signer that fails while an exclude
list is tried lets a site make a second credential, because the code takes the failure for
a foreign handle: `ListsAreSearched` is about signers that do not fail. A resident
credential whose site never heard of it, because the process died before the response,
hides the later ones: `FirstResidentAnswers` permits it. For a stored credential whose
keys an earlier in-memory signer had the user is asked in vain: `ConsentIsNotWasted`
excepts it. A key handle with a part that
is too long lacks this part and every later one, unnoticed by `RegisterKey`:
`KeyIsTheRegistered` then says that it is not accepted. A response of more than 129
frames cannot be put together: `ResponseArrives` says that shorter ones can.

### What the violated runs show

Four statements of the repository do not hold of the code.

- `main_test.go:397-399` says "User Presence MUST be obtained for every GetAssertion. The
  verifier (or pinentry presence dialog) must always be invoked, regardless of whether
  the RP requested user verification." The server installs `cachingVerifier`, which for
  five seconds after any success answers in its stead, for any site. The repository
  disagrees with itself here: `TestCachingVerifier_CachesRecentSuccess`
  (`main_test.go:435-460`) demands that a second call within that time does not invoke
  the verifier, and the test under the quoted comment runs without the cache.
  `PresenceIsFresh` is what does hold: a consent of the last five seconds, to whichever
  request.
- `README.md:66` says a resident key is stored locally when a site asks for one. An
  error of `Save` is only logged, and the site is told the registration succeeded.
- `fprintd.go:47` describes the sharing of a scan as "deduplication for browser
  retries". The channel carries one result, and the goroutine of the request that
  gave up is the first to receive it. The retry hears nothing and times out too.
  For that the first request must give up while its scan is on: its 35 s include
  the D-Bus calls before the scan, which nothing bounds, the scan's 30 s do not.
- `lencode.go:129` says of `DecodeInto` "Use NextLen() to ensure the slice is large
  enough for the message". The comparison is the wrong way round: a larger slice is
  refused as not large enough, and a smaller one makes the code panic. `Decode`, which
  the signer uses, passes a slice of the exact length.

### Bounds

- Request objects: `ConfirmPresence` in the code makes a new one; here it takes a free
  one, and waits if there is none. A caller refers to one at most; the fourth in
  `u2f_failures` leaves room for the extender of an earlier dialog. In `operations` two
  do: the one whose dialog is up, and one that an extender or a late goroutine still
  refers to. An address is reused once nothing refers to it. `operations` takes the first free
  one (`FirstFree`), as symmetry cannot be used with liveness.
- `MaxExtenders` is 1: extenders do nothing but restart a timer. The bound refuses a
  join while one is left over, which only delays it.
- Two callers of the kind that shares and one of the kind that does not are enough
  to see a channel shared, refused and stranded.
- `Ctap2Wait` is 9 ticks in place of 140. It must be longer than the 8 ticks of
  `sendResult`, so that an answer can be dropped while a CTAP2 handler waits, and it is.
- `PollGap` is 3 ticks (750 ms) in `u2f_failures`, where it decides whether an answer
  is dropped, and 1 in `operations`, where it only delays. At 750 ms two seconds
  suffice; a wait of 500 ms, the seeded fault, does not.
- Two keys, two sites and lists of up to two handles give every case of the lists:
  own and foreign in either order, none, an unused number. `TTL` is 2 ticks and
  `HandlerWait` 3: a verification may come in before and after a handler gives up,
  and the cache may expire or not between two requests. `Setups` are four of the
  possible combinations, chosen so that each prompt meets each signer, with nothing
  failing, the store alone, or store and signer.
- Two goroutines of `VerifyUser`: the handler's own and one that outlived its
  handler.
- Transport: three messages per host are an INIT, a message left unfinished and a
  second INIT, or an INIT and two messages, of which one may be answered late. Two
  packets are a first and a last one; a middle one is treated by the code as a last one
  that is not yet enough. A queue of 2 overflows. Two ids run out at the third INIT. All
  ids of the code are 2^32 - 2; the theorems hold for any number.
- Store: two processes, of which each may be in any step while the other is; each entry
  is saved once, so that a history can tell what should be there. Three credentials and
  a replacement give a list with the replaced one first, last or in the middle.
- Scan: the second scan begins while the callers of the first may still wait. `MaxExtra`
  is one signal beyond the final one of each attempt: a retry, a phantom, or another
  program's. Three attempts are the code's.
- Key handles: a byte has 12 values, so that lengths reach the limit of a byte and
  frame numbers the bit of initial frames; frames hold 1 and 2 bytes, hashes 1; parts
  are empty, look like a separator or like a whole message, or are too long.

Symmetry is used in the runs `ctap2` and `store`, over sites, users, goroutines and
processes, none of which the specifications tell apart, and never with liveness.

### Fairness

- The prompt goroutine runs on (`SendResult`), and the select loop does not for ever
  choose an extension over the user's answer (`Decide`): select chooses at random,
  and every extension is used up.
- In `Pinentry` `client.Confirm` returns (`Dialog`): the user answers. In `U2FServer`
  this is no part of the specification but a premise (`UserIsThere`) of
  `EveryOperationEnds` alone; `EveryRequestAnswered` does without it.
- In `U2FServer` the event loop's goroutine handles events and concludes handlers while it
  can; goroutines run before time passes (`Urgent`), which is to say that no
  goroutine is held up for a tick; with it the timer branch of the select loop
  cannot fire, which `Pinentry` covers. A browser repeats its request within
  `PollGap`: `pinentry.go:86` relies on "requests to come in every ~750ms". It may
  also stop at any time. That a scan ends is not assumed.
- In `HidTransport` the goroutines `Run` and the event loop go on while they can (`RunStep`,
  `ServerStep`): neither has a wait but for the other and for the next packet. That
  a handler ends is what `EveryRequestAnswered` shows in `U2FServer`, and in the CTAP2
  handlers the 35 s. Hosts and kernel owe nothing.
- In `FingerprintScan` the goroutine of each scan goes on while it can, which includes
  that the daemon and the bus answer a call, be it with an error; the timer of the
  deadline fires; and a goroutine blocked on a channel with a result receives it. The
  sensor, the user and other programs owe nothing.
- `CHECK_DEADLOCK FALSE` is said where the system may stop: `U2FFailures.cfg` and
  `HidTransport.cfg`, because `log.Fatalf` ends the process on a failed signature or
  when no id is left and the hosts have sent all that the bound `Sends` allows;
  `KeyHandles.cfg`, where a handle has arrived or been refused; `DecodeInto.cfg`, where
  a panic ends the program.

## Proofs

`PinentryProofs` proves, for any set of handlers, verifiers, challenges, applications
and request addresses, under `PinentryAssumption` (handlers and verifiers differ, a
nonce equals no parameter, nil is no address):

| theorem | property |
|---|---|
| `TypeCorrect` | `TypeOK` |
| `ChannelCorrect` | `TypeOK /\ ChannelInv` |
| `OneDialogAtATime` | `OneDialog` |
| `OneResultPerDialog` | `OneTaker` |
| `OkIsForTheAsker` | `OkIsForAsker` |
| `DialogImplementsConsent` | `ImplementsConsent` |

None of `OneDialog`, `OneTaker` and `OkIsForAsker` is inductive. That a second answer
is not received needs that nobody has received before the rendezvous; that the
receiver asked what was shown needs that all who listen on the channel of a running
request asked for it, which in turn needs that a waiting caller holds a channel, and
that a free address is on nobody's channel when it is used again. `ChannelInv` collects
these and is inductive together with `TypeOK`. The refinement maps the question to
the dialog on the screen and the consent to the "yes" between `client.Confirm` and its
reception; each action of `Pinentry` then is an action of `Consent` or a stutter,
which is shown per action from `ChannelInv`. In particular `Open` maps to `Ask` because
with no active request no dialog runs, and so no consent is outstanding.

`U2FServerProofs` proves, for any clients, requests, durations and verifiers, under
`U2FAssumption` (there is one U2F handler, the durations are numbers) and
`PinentryAssumption`:

| theorem | property |
|---|---|
| `U2FTypeCorrect` | `U2FTypeOK` |
| `SignedOnlyWithConsent` | `SignedWithConsent` |
| `AnswersReachBrowsers` | `AnswerReachesBrowser`, if `PollGap < SendTimeout` and `OwnChallenges` |
| `ServerImplementsConsent` | `ImplementsConsent`, of the server |

`ChannelInv` of the dialog carries over: each step of the server is a step of `Pinentry`
or leaves the dialog alone, and so does the refinement of `Consent`. `SignedWithConsent`
speaks of a consent that has been used up; `ConsentInv` says where a consent is
meanwhile: a "yes" that is on its way, or that the handler holds, is one not used up yet.
That the handler's answer is to its own question is `WaitInv`; that no other dialog has
been answered since is `HolderInv`. The two hypotheses of `AnswersReachBrowsers` are what
the code relies on: browsers ask again "every ~750ms" (`pinentry.go:86`), less than the
two seconds `sendResult` waits, and relying parties draw a new challenge for each
operation, which `ConfirmPresence` tells questions apart by (`pinentry.go:52`). Both hold
in `u2f_failures`. `ClockInv` relates the clocks: the time `sendResult` has left exceeds
the browser's pause by what it exceeded it at first, so a request with the same
parameters comes in before the time is over; and while that request is queued the
handler before it takes no time, because no other dialog can be opened, unless a scan
holds the loop.

`Ctap2ServerProofs` proves, for any sites, users, requests, lists, calls, keys and
durations and any set of setups, under `Ctap2Assumption` (the bounds are numbers, a tick
passes before a cached consent or a handler's wait is over, and no goroutine is the mark
for none):

| theorem | property |
|---|---|
| `TypeCorrect` | `TypeOK` |
| `Presence` | `PresenceIsFresh` |
| `RightCredential` | `CredentialIsTheRPs` |
| `Searched` | `ListsAreSearched` |
| `FirstResident` | `FirstResidentAnswers` |
| `NoConsentWasted` | `ConsentIsNotWasted` |
| `DialogIsHeard` | `DialogReachesHandler` |

Five parts make the invariant. `FreshInv` follows a consent through the goroutines to the
cache and to the handler: the cache is never younger than the consent, and a result not
yet heard is of this very tick. `StoreInv` relates the store to what was made: an entry
says what its key was made for, the entries are in the order of their keys, and while the
store can be written none is missing; so the first entry of a site is its first key.
`ChosenInv` carries what a handler resolved over its wait, in which other verifications,
failures and restarts may come. `HandlerInv` and `TypeOK` are the shape of the state.
`DialogIsHeard` has an invariant of its own, `DialogInv`: nobody listens but to a prompt,
and with `--auth=pinentry` the dialog a handler waits for is up and has no listener but
the goroutine of that handler. It holds because `VerifyUser` is refused from the opening
of a dialog until its result was taken, also when the handler that opened it is gone; with
`--auth=fprintd`, which shares the scan instead, the run `fprintd_retry` violates it.

`HidTransportProofs` proves, for any hosts, sizes, queue length, number of ids and number
of messages, under `HidAssumption` (these are numbers; a message of one packet exists):

| theorem | property |
|---|---|
| `TypeCorrect` | `TypeOK` |
| `NoSharedChannel` | `OneHostPerChannel` |
| `WholeMessages` | `MessageIsWhole` |
| `OwnResponses` | `OwnResponse` |

`TypeOK` becomes inductive with `Progress`: a host that is sending has packets left and a
command to send them with, a server that is writing has frames left. `OneHostPerChannel`
becomes inductive with the fact that every channel a host holds is in `channels`; an
id outside `channels` is then nobody's, and the nonce in the response tells one host
only. Frames leave every host on its channel (`WriteFrameType`), and a host that stops
gives its channel up, which nobody gets again.

The other two rest on an invariant of the stream of packets: those that `Run` has put
together followed by those in the queue. `Run` only ever drops a beginning of it
(`ReceiveDrops`), hosts only append to it (`WriteAppends`). What follows the first packet
of a message and comes from the same host, up to the next first packet of that host,
belongs to this message and has increasing places, none beyond the announced size
(`WholeInv`). A message made up of one host's packets then has as many increasing places
as there are places: it is the message (`Consecutive`). `OwnResponse` needs to know that whatever `Run` or the server answers is
what its host still waits for, or on a channel that nobody holds any more: `ServerInv`
says so of the server, `HostInv` and `StreamInv` of what is still in the stream.

`CredStoreProofs` proves, for any processes and entries, under `CredStoreAssumption`
(entries have a CredID and a site, and the marks for no file and for broken files are
no lists):

| theorem | property |
|---|---|
| `TypeCorrect` | `TypeOK` |
| `AlwaysReadable` | `StoreIsReadable` |
| `AckedSurvivesAlways` | `AckedSurvives` |
| `NothingInventedAlways` | `NothingInvented` |
| `Atomic` | `ImplementsAtomicStore` |

Readability is not inductive: that the renamed file is a whole list needs that the
temporary file holds just what the process prepared, and that what it prepared is the
store as it still is, with the entry put in. `SaverInv` says so of the one process that
is saving, as long as no two have overlapped. With it `Rename` is the step in which
the abstract `Save` succeeds, every other step a stutter or a failure. For
`NothingInvented`, which does not depend on overlapping, the invariant says of every list
in sight (in the store, in the temporary file, prepared by a process) that it holds
given entries only and no CredID twice.

`FingerprintScanProofs` proves, for any callers, scans, number of attempts and of extra
signals, under `ScanAssumption` (scans are numbers from 1, and the other program is
none of them):

| theorem | property |
|---|---|
| `TypeCorrect` | `TypeOK` |
| `OneScan` | `OneScanAtATime` |
| `Returned` | `SensorIsReturned` |
| `OwnMatch` | `MatchIsOwn` |
| `EachTimeNoMatch` | `NoMatchEachTime` |
| `BelievedMatch` | `MatchIsBelieved` |

Five inductive invariants carry them. `ActiveInv`: `active` names the scan that runs.
`HoldInv`: a scan holds the sensor from `Claim` to the end of its connection at the
latest, and always while it may be verifying. `SignalInv`: in the channel of a scan that
waits every final status was reported of its own attempt; an attempt that was gone
past was refused; a conclusion rests on a report. `SignalInv` needs `HoldInv`, because
another program's signals can only come in while that program holds the sensor, and
needs the drain after the settle delay, which empties the channel of everything older.
`BelievedInv`: from the report of a match that was waited for until the scan ends, the
match is in the scan's channel with nothing but retries before it, or has been taken from
it; the sensor reports no second final status of an attempt, which is what could come
first. `DeniedInv` says the same of a match that was dropped: the sensor is done until the
next `VerifyStart`, which only a refusal leads to, so nothing but retries and that match
can be in the channel of the scan while it waits.

`KeyHandlesProofs` proves, for any parts, hashes, separator, sizes of frames and values
of a byte, under `KeyHandleAssumption` (parts, hashes and status are made of bytes, and a
byte can hold the control values) and the assumptions of `Bytes`, `Lencode`, `Framing`
and `FidoAuth`:

| theorem | property |
|---|---|
| `RegisteredKey` | `KeyIsTheRegistered` |
| `KeyReturns` | `KeyComesBack` |
| `ResponsesArrive` | `ResponseArrives` |
| `MessagesMean` | `MessageMeansWhatWasSent` |

Handles: the encoder lays pieces, of separator, length and part, one after another, up to
the first part that is too long (`WrittenBy`). A handle that comes back agrees with what
was written as far as both go. So `Decode`, which stands at the start of a piece, takes
just that piece or fails, and a handle that was cut can end at the start of a piece, but
not in three pieces (`Decoding`). Frames: the host has the first `had` bytes of the
response, the writer has the bytes from `had + 1`, and the number of the frame follows
from `had` (`Midway`); they part only when the numbers run out. Messages: decoding undoes
building for any bytes, and a message that is cut is refused or has the same fields. No
induction over the data is needed, since `RegisterKey` writes three parts and the frames
are written one step at a time.

`NumberFacts`: a non-empty set of numbers has a least one (`LeastNumber`), from the
library's theorem on well-founded relations, and increasing numbers from 1 to n, n of
them, are their own places (`Consecutive`). An argument that would be an induction, which
the provers cannot instantiate, takes the least counterexample.

The type invariants of `Pinentry`, `U2FServer` and `CredStore` are proved because the
other theorems rest on them; the runs leave them out, as they say nothing that the other
properties do not.

Assumed, not proved: that 256 random bits never repeat, that a mutex excludes, and
that a channel hands a value to one receiver. Only model-checked: liveness
(`DialogEnds`, `VerifierHears`, `EveryRequestAnswered`, `EveryOperationEnds`,
`ShortMessageAnswered`, `EveryScanIsHeard`), which is beyond the prover, and the four
properties the code violates.

## Not modelled

- The counters of the signers. `Counter` of the TPM signer is the clock; nothing in the
  code keeps or compares its values, so a model could only repeat assumptions about the
  clock.
- CBOR, ASN.1, TPM commands, the cipher of the in-memory signer: library calls. That a
  handle signs only for the application and process it was made for is assumed where
  they are used.
- What a loss of power leaves of the store: nothing is synced, and the file system
  decides. A text that was written in part is taken not to be JSON; the text is written
  with one call, as `os.WriteFile` does.
- A restart of the fingerprint daemon or the bus in the middle of a scan: what the D-Bus
  library does with the channels of a dead connection is not in this repository.
- A failed write to the HID device, the choice of a pinentry binary, logging.
- An error of `crypto/rand.Read` in `ConfirmGeneric` (`pinentry.go:149`): `go.mod` asks for
  Go 1.25, and since Go 1.24 the function never returns one. To the caller it would be a
  refusal.
- A caller of `ConfirmPresence` that has joined a dialog and is held up for two seconds
  before it blocks on the channel. `SendExpires` takes a caller to listen from the
  critical section on; in the code nothing but the return lies between.
- Site names, attestation certificate and status codes, which are tables, and the
  installer, a shell script.

## Plan

Done: dialog, event loop, CTAP2 handlers with restarts, transport, store, scan, codecs;
the refinements of the dialog and the store; every safety property as a theorem. Left, in
this order:

1. `CredStore`: what still holds once two `Save`s have overlapped, beyond
   `NothingInvented`.
2. `LencodeReader`: that `Decode` alone never panics, for a caller that mixes it with
   `NextLen`.
3. `HidTransport`: what a message that mixes the packets of two hosts can contain.
