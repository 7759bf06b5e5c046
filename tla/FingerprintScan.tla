-------------------------- MODULE FingerprintScan ---------------------------
(***************************************************************************)
(* The fingerprint verifier, src/fprintd/fprintd.go: VerifyPresence and    *)
(* the goroutine that claims the sensor, tries three times and cleans up.  *)
(*                                                                         *)
(* The daemon and the bus are external.  Any call may fail, before it had  *)
(* an effect or after; a VerifyStatus is broadcast to every connection     *)
(* that subscribed, also when it belongs to the verification of another    *)
(* program.  Assumed: a signal takes less than the settle delay to arrive, *)
(* none is lost (one that finds sigCh full waits for room), and the daemon *)
(* does not forget who holds the sensor.                                   *)
(***************************************************************************)
EXTENDS Naturals, Sequences

CONSTANTS
  Callers,      \* goroutines of requests
  Scans,        \* scans, numbered 1, 2, ...
  MaxAttempts,  \* maxAttempts
  Other,        \* another program that uses the sensor
  MaxExtra      \* bound: signals beyond the last one of each attempt

VARIABLES
  callers, \* each: not asking, waiting for a scan, told its result
  active,  \* the scan whose channel a new caller joins, 0 for nil
  scans,   \* each: step of its goroutine, attempt, sigCh, outcome, result channel
  device,  \* who holds the sensor, whether it verifies and has come to a result
  extra,   \* bound: signals beyond the last one of each attempt
  reports  \* history: what the sensor reported to a running scan, and if it was waited for

vars == <<callers, active, scans, device, extra, reports>>

ASSUME ScanAssumption ==
  /\ Scans \subseteq Nat \ {0} /\ Other \notin Scans \cup {0}
  /\ MaxAttempts \in Nat \ {0} /\ MaxExtra \in Nat

Nobody == 0

Final == {"match", "no-match", "failed"}

Signals ==
  [status : Final \cup {"retry"}, of : Scans \cup {Other}, attempt : 0 .. MaxAttempts]

Outcomes == {"none", "ok", "no-match", "failed", "timeout", "error"}

\* The steps between VerifyStart and the deferred calls.
Trying == {"settle", "wait", "restop", "gap", "restart"}

Steps ==
  {"off", "connect", "devices", "subscribe", "claim", "start", "stop", "release",
   "close", "ended", "report", "done"} \cup Trying

ScanType ==
  [step : Steps, attempt : 1 .. MaxAttempts, expired : BOOLEAN,
   outcome : Outcomes, ch : Outcomes, sigCh : Seq(Signals)]

TypeOK ==
  /\ callers \in [Callers -> [at : {"idle", "waits", "told"}, scan : Scans \cup {0}]]
  /\ \A c \in Callers : callers[c].at # "idle" => callers[c].scan \in Scans
  /\ active \in Scans \cup {0}
  /\ scans \in [Scans -> ScanType]
  /\ device \in [by : Scans \cup {Nobody, Other}, verifying : BOOLEAN, done : BOOLEAN]
  /\ extra \in 0 .. MaxExtra
  /\ reports \subseteq [scan : Scans, attempt : 1 .. MaxAttempts, status : Final, waited : BOOLEAN]

NewScan ==
  [step |-> "off", attempt |-> 1, expired |-> FALSE, outcome |-> "none", ch |-> "none",
   sigCh |-> <<>>]

Free == [by |-> Nobody, verifying |-> FALSE, done |-> FALSE]

Init ==
  /\ callers = [c \in Callers |-> [at |-> "idle", scan |-> 0]]
  /\ active = 0
  /\ scans = [i \in Scans |-> NewScan]
  /\ device = Free
  /\ extra = 0
  /\ reports = {}

-----------------------------------------------------------------------------
(* VerifyPresence and the callers. *)

Starts(c, i) ==
  /\ scans[i].step = "off" /\ \A j \in Scans : j < i => scans[j].step # "off"
  /\ scans' = [scans EXCEPT ![i].step = "connect"]
  /\ active' = i
  /\ callers' = [callers EXCEPT ![c] = [at |-> "waits", scan |-> i]]

\* Seeded fault: a scan under way is not looked at.
AlwaysStarts(c) ==
  /\ callers[c].at # "waits"
  /\ \E i \in Scans : Starts(c, i)
  /\ UNCHANGED <<device, extra, reports>>

VerifyPresence(c) ==
  /\ callers[c].at # "waits"
  /\ \/ active = 0 /\ \E i \in Scans : Starts(c, i)
     \/ /\ active # 0
        /\ callers' = [callers EXCEPT ![c] = [at |-> "waits", scan |-> active]]
        /\ UNCHANGED <<active, scans>>
  /\ UNCHANGED <<device, extra, reports>>

\* One of those who share the channel takes the result.
Receive(c) ==
  /\ callers[c].at = "waits"
  /\ scans[callers[c].scan].ch # "none"
  /\ callers' = [callers EXCEPT ![c].at = "told"]
  /\ scans' = [scans EXCEPT ![callers[c].scan].ch = "none"]
  /\ UNCHANGED <<active, device, extra, reports>>

-----------------------------------------------------------------------------
(* verifyFingerprint. *)

Goes(i, step) == scans' = [scans EXCEPT ![i].step = step]

Returns(i, outcome, step) == scans' = [scans EXCEPT ![i].step = step, ![i].outcome = outcome]

Local == UNCHANGED <<callers, active, extra, reports>>

Connect(i) ==
  /\ scans[i].step = "connect"
  /\ Goes(i, "devices") \/ Returns(i, "error", "ended")
  /\ UNCHANGED device /\ Local

\* GetDevices, and AddMatchSignal with conn.Signal.
Prepare(i) ==
  /\ \/ scans[i].step = "devices" /\ Goes(i, "subscribe")
     \/ scans[i].step = "subscribe" /\ Goes(i, "claim")
     \/ scans[i].step \in {"devices", "subscribe"} /\ Returns(i, "error", "close")
  /\ UNCHANGED device /\ Local

Holds(i) == device.by = i

ClaimBy(i) == Holds(Nobody) /\ device' = [Free EXCEPT !.by = i]

\* Seeded fault: the connection is closed only by those who got the sensor.
ClaimLeaks(i) ==
  /\ scans[i].step = "claim"
  /\ \/ ClaimBy(i) /\ Goes(i, "start")
     \/ (ClaimBy(i) \/ UNCHANGED device) /\ Returns(i, "error", "ended")
  /\ Local

\* Claim.  The error may hide that the sensor was claimed.
Claim(i) ==
  /\ scans[i].step = "claim"
  /\ \/ ClaimBy(i) /\ Goes(i, "start")
     \/ (ClaimBy(i) \/ UNCHANGED device) /\ Returns(i, "error", "close")
  /\ Local

StartOf(i) ==
  /\ Holds(i) /\ ~device.verifying
  /\ device' = [device EXCEPT !.verifying = TRUE, !.done = FALSE]

\* VerifyStart, of the first attempt and of the others.
VerifyStart(i) ==
  /\ \/ scans[i].step \in {"start", "restart"} /\ StartOf(i) /\ Goes(i, "settle")
     \/ /\ StartOf(i) \/ UNCHANGED device
        /\ \/ scans[i].step = "start" /\ Returns(i, "error", "release")
           \/ scans[i].step = "restart" /\ Returns(i, "error", "stop")
  /\ Local

\* The 30 s, which begin when the first VerifyStart has returned.
Deadline(i) ==
  /\ scans[i].step \in Trying
  /\ ~scans[i].expired
  /\ scans' = [scans EXCEPT ![i].expired = TRUE]
  /\ UNCHANGED device /\ Local

\* ctx.Done in each of the three selects, which choose at random if the other is ready too.
GivesUp(i) ==
  /\ scans[i].step \in {"settle", "wait", "gap"} /\ scans[i].expired
  /\ Returns(i, "timeout", "stop")
  /\ UNCHANGED device /\ Local

\* Seeded fault: signals are not drained.
SettleKeeps(i) ==
  /\ scans[i].step = "settle"
  /\ Goes(i, "wait")
  /\ UNCHANGED device /\ Local

\* settleDelay is over: drainSignals.
Settle(i) ==
  /\ scans[i].step = "settle"
  /\ scans' = [scans EXCEPT ![i].step = "wait", ![i].sigCh = <<>>]
  /\ UNCHANGED device /\ Local

\* Seeded fault: the second no-match is the last.
NoneLeft(attempt) == attempt + 1 >= MaxAttempts

\* Seeded fault: there is one attempt more.
OneMore(attempt) == attempt > MaxAttempts

Exhausted(attempt) == attempt = MaxAttempts

\* Seeded fault: a status with done = false ends the attempt.
JudgedAlways(scan, status) ==
  CASE status = "match" -> [scan EXCEPT !.step = "stop", !.outcome = "ok"]
    [] status = "no-match" /\ ~Exhausted(scan.attempt) ->
         [scan EXCEPT !.step = "restop", !.attempt = @ + 1]
    [] status = "no-match" /\ Exhausted(scan.attempt) ->
         [scan EXCEPT !.step = "stop", !.outcome = "no-match"]
    [] OTHER -> [scan EXCEPT !.step = "stop", !.outcome = "failed"]

\* processVerifyStatus, and what the loops do with its result.
Judged(scan, status) ==
  CASE status = "retry" -> scan
    [] status = "match" -> [scan EXCEPT !.step = "stop", !.outcome = "ok"]
    [] status = "no-match" /\ ~Exhausted(scan.attempt) ->
         [scan EXCEPT !.step = "restop", !.attempt = @ + 1]
    [] status = "no-match" /\ Exhausted(scan.attempt) ->
         [scan EXCEPT !.step = "stop", !.outcome = "no-match"]
    [] status = "failed" -> [scan EXCEPT !.step = "stop", !.outcome = "failed"]

WaitForVerifyResult(i) ==
  /\ scans[i].step = "wait" /\ scans[i].sigCh # <<>>
  /\ LET judged == Judged(scans[i], Head(scans[i].sigCh).status) IN
       scans' = [scans EXCEPT ![i] = [judged EXCEPT !.sigCh = Tail(scans[i].sigCh)]]
  /\ UNCHANGED device /\ Local

\* VerifyStop, between attempts and deferred; its error is not looked at.
VerifyStop(i) ==
  /\ \/ scans[i].step = "restop" /\ Goes(i, "gap")
     \/ scans[i].step = "stop" /\ Goes(i, "release")
  /\ \/ UNCHANGED device
     \/ Holds(i) /\ device' = [device EXCEPT !.verifying = FALSE]
  /\ Local

\* attemptGap is over.
NextAttempt(i) ==
  /\ scans[i].step = "gap"
  /\ Goes(i, "restart")
  /\ UNCHANGED device /\ Local

Release(i) ==
  /\ scans[i].step = "release"
  /\ Goes(i, "close")
  /\ UNCHANGED device \/ (Holds(i) /\ device' = Free)
  /\ Local

\* conn.Close: the daemon takes the sensor from a client that is gone.
Close(i) ==
  /\ scans[i].step = "close"
  /\ scans' = [scans EXCEPT ![i].step = "ended", ![i].sigCh = <<>>]
  /\ device' = IF Holds(i) THEN Free ELSE device
  /\ Local

\* f.active = nil, and the result into the channel.
Ends(i) ==
  /\ scans[i].step = "ended"
  /\ Goes(i, "report")
  /\ active' = 0
  /\ UNCHANGED <<callers, device, extra, reports>>

\* Seeded fault: only a match is reported.
ReportMatch(i) ==
  /\ scans[i].step = "report"
  /\ scans' = [scans EXCEPT ![i] = [NewScan EXCEPT !.step = "done",
                 !.ch = IF scans[i].outcome = "ok" THEN "ok" ELSE "none"]]
  /\ reports' = {r \in reports : r.scan # i}
  /\ UNCHANGED <<callers, active, device, extra>>

\* With the goroutine end its variables, and the history of the scan.
Report(i) ==
  /\ scans[i].step = "report"
  /\ scans' = [scans EXCEPT ![i] = [NewScan EXCEPT !.step = "done", !.ch = scans[i].outcome]]
  /\ reports' = {r \in reports : r.scan # i}
  /\ UNCHANGED <<callers, active, device, extra>>

-----------------------------------------------------------------------------
(* The sensor and another program. *)

Subscribed(i) == scans[i].step \in Trying \cup {"claim", "start", "stop", "release", "close"}

Broadcast(signal) ==
  scans' = [i \in Scans |->
              IF Subscribed(i) THEN [scans[i] EXCEPT !.sigCh = Append(@, signal)]
              ELSE scans[i]]

Signal(status, of, attempt) == [status |-> status, of |-> of, attempt |-> attempt]

\* The last status of a verification of ours, and those before it.
SensorReports(i, status) ==
  /\ Holds(i) /\ device.verifying /\ ~device.done
  /\ Broadcast(Signal(status, i, scans[i].attempt))
  /\ IF status = "retry"
     THEN /\ extra < MaxExtra /\ extra' = extra + 1
          /\ UNCHANGED <<device, reports>>
     ELSE /\ device' = [device EXCEPT !.done = TRUE]
          /\ reports' = reports \cup
               {[scan |-> i, attempt |-> scans[i].attempt, status |-> status,
                 waited |-> scans[i].step = "wait"]}
          /\ UNCHANGED extra
  /\ UNCHANGED <<callers, active>>

\* The phantom of an attempt: its status once more, before the next one has settled.
Phantom(i) ==
  /\ scans[i].step \in {"gap", "restart", "settle"} /\ scans[i].attempt > 1
  /\ extra < MaxExtra /\ extra' = extra + 1
  /\ scans' = [scans EXCEPT ![i].sigCh =
                 Append(@, Signal("no-match", i, scans[i].attempt - 1))]
  /\ UNCHANGED <<callers, active, device, reports>>

OtherStarts ==
  /\ Holds(Nobody)
  /\ device' = [by |-> Other, verifying |-> TRUE, done |-> FALSE]
  /\ UNCHANGED <<scans, extra>>

OtherStops == Holds(Other) /\ device' = Free /\ UNCHANGED <<scans, extra>>

OtherReports(status) ==
  /\ Holds(Other)
  /\ extra < MaxExtra /\ extra' = extra + 1
  /\ Broadcast(Signal(status, Other, 0))
  /\ UNCHANGED device

OtherStep ==
  /\ OtherStarts \/ OtherStops \/ \E status \in {"match", "no-match"} : OtherReports(status)
  /\ UNCHANGED <<callers, active, reports>>

ScanStep(i) ==
  \/ Connect(i) \/ Prepare(i) \/ Claim(i) \/ VerifyStart(i)
  \/ GivesUp(i) \/ Settle(i) \/ WaitForVerifyResult(i) \/ VerifyStop(i) \/ NextAttempt(i)
  \/ Release(i) \/ Close(i) \/ Ends(i) \/ Report(i)

Next ==
  \/ \E c \in Callers : VerifyPresence(c) \/ Receive(c)
  \/ \E i \in Scans : ScanStep(i) \/ Deadline(i) \/ Phantom(i)
  \/ \E i \in Scans, status \in Final \cup {"retry"} : SensorReports(i, status)
  \/ OtherStep

\* The scheduler runs the goroutines, the daemon answers calls, the timer fires.
Fairness ==
  /\ \A c \in Callers : WF_vars(Receive(c))
  /\ \A i \in Scans : WF_vars(ScanStep(i)) /\ WF_vars(Deadline(i))

Spec == Init /\ [][Next]_vars /\ Fairness

-----------------------------------------------------------------------------
Reported(i, attempt, status) ==
  \E r \in reports : r.scan = i /\ r.attempt = attempt /\ r.status = status

\* A scan succeeds only if the sensor matched a finger in the attempt it was in: neither
\* the match of another program nor the remains of an earlier attempt will do.
MatchIsOwn ==
  \A i \in Scans : scans[i].outcome = "ok" => Reported(i, scans[i].attempt, "match")

\* ErrNoMatch means that the sensor refused a finger in every one of the three attempts.
NoMatchEachTime ==
  \A i \in Scans : scans[i].outcome = "no-match" =>
    \A attempt \in 1 .. MaxAttempts : Reported(i, attempt, "no-match")

\* A match the scan has waited for is not lost: it succeeds, if it is not out of time.  A
\* match that came while it did not wait may be lost, with the signals of the settle
\* delay, but never to a refusal: no phantom and no later status takes its place.
MatchIsBelieved ==
  \A r \in reports : r.status = "match" =>
    /\ scans[r.scan].outcome \notin {"no-match", "failed"}
    /\ r.waited => scans[r.scan].outcome \in {"none", "ok", "timeout"}

\* At most one scan is between its first call of the daemon and its last: two would claim
\* the sensor from each other.
OneScanAtATime ==
  \A i, j \in Scans :
    scans[i].step \notin {"off", "report", "done"} /\ scans[j].step \notin {"off", "report", "done"}
      => i = j

\* A scan that has ended does not hold the sensor, whatever failed on the way.
SensorIsReturned ==
  \A i \in Scans : scans[i].step \in {"report", "done"} => ~Holds(i)

\* Every scan comes to a result that one of its callers receives.
EveryScanIsHeard ==
  \A i \in Scans :
    scans[i].step = "connect" ~> \E c \in Callers : callers[c] = [at |-> "told", scan |-> i]
=============================================================================
