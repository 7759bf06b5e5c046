----------------------- MODULE FingerprintScanProofs ------------------------
(***************************************************************************)
(* Theorems about FingerprintScan, for any callers, scans and attempts.    *)
(***************************************************************************)
EXTENDS FingerprintScan, TLAPS

\* The record of scan i, and nothing of the others, becomes new.
Becomes(i, new) == scans' = [scans EXCEPT ![i] = new]

\* A step that gives scan i a new value leaves all other scans as they are.
LEMMA BecomesType ==
  ASSUME TypeOK, NEW i \in Scans, NEW new \in ScanType, Becomes(i, new)
  PROVE  /\ scans' \in [Scans -> ScanType]
         /\ scans'[i] = new
         /\ \A j \in Scans \ {i} : scans'[j] = scans[j]
BY DEF TypeOK, Becomes

\* A step of a goroutine that only moves on.
LEMMA GoesOn ==
  ASSUME TypeOK, NEW i \in Scans, NEW step \in Steps, Goes(i, step)
  PROVE  /\ scans' \in [Scans -> ScanType]
         /\ \A j \in Scans \ {i} : scans'[j] = scans[j]
         /\ scans'[i].step = step /\ scans'[i].attempt = scans[i].attempt
         /\ scans'[i].outcome = scans[i].outcome /\ scans'[i].sigCh = scans[i].sigCh
<1> DEFINE new == [scans[i] EXCEPT !.step = step]
<1>1. scans[i] \in ScanType
  BY DEF TypeOK
<1>2. /\ new \in ScanType /\ new.step = step /\ new.attempt = scans[i].attempt
      /\ new.outcome = scans[i].outcome /\ new.sigCh = scans[i].sigCh
  BY <1>1 DEF ScanType
<1>3. Becomes(i, new)
  BY DEF Goes, Becomes
<1> HIDE DEF new
<1> QED BY <1>2, <1>3, BecomesType

\* A step of a goroutine that fixes its outcome.
LEMMA ReturnsWith ==
  ASSUME TypeOK, NEW i \in Scans, NEW step \in Steps, NEW outcome \in Outcomes,
         Returns(i, outcome, step)
  PROVE  /\ scans' \in [Scans -> ScanType]
         /\ \A j \in Scans \ {i} : scans'[j] = scans[j]
         /\ scans'[i].step = step /\ scans'[i].attempt = scans[i].attempt
         /\ scans'[i].outcome = outcome /\ scans'[i].sigCh = scans[i].sigCh
<1> DEFINE new == [scans[i] EXCEPT !.step = step, !.outcome = outcome]
<1>1. scans[i] \in ScanType
  BY DEF TypeOK
<1>2. /\ new \in ScanType /\ new.step = step /\ new.attempt = scans[i].attempt
      /\ new.outcome = outcome /\ new.sigCh = scans[i].sigCh
  BY <1>1 DEF ScanType
<1>3. Becomes(i, new)
  BY <1>1 DEF Returns, Becomes, TypeOK
<1> HIDE DEF new
<1> QED BY <1>2, <1>3, BecomesType

\* What a status does to a scan that waits for it.
LEMMA JudgedScan ==
  ASSUME NEW scan \in ScanType, NEW status \in Final \cup {"retry"}, scan.step = "wait"
  PROVE  /\ Judged(scan, status) \in ScanType
         /\ Judged(scan, status).sigCh = scan.sigCh
         /\ status = "retry" => Judged(scan, status) = scan
         /\ status # "retry" =>
              /\ Judged(scan, status).step \in {"stop", "restop"}
              /\ Judged(scan, status).step = "restop" =>
                   /\ status = "no-match" /\ Judged(scan, status).outcome = scan.outcome
                   /\ Judged(scan, status).attempt = scan.attempt + 1
              /\ Judged(scan, status).step = "stop" =>
                   /\ Judged(scan, status).attempt = scan.attempt
                   /\ Judged(scan, status).outcome = (IF status = "match" THEN "ok" ELSE status)
                   /\ status = "no-match" => scan.attempt = MaxAttempts
<1> USE ScanAssumption DEF ScanType, Exhausted
<1>1. CASE status = "retry"
  BY <1>1 DEF Judged
<1>2. CASE status = "match"
  <2>1. Judged(scan, status) = [scan EXCEPT !.step = "stop", !.outcome = "ok"]
    BY <1>2 DEF Judged
  <2> QED BY <1>2, <2>1 DEF Steps, Outcomes
<1>3. CASE status = "failed"
  <2>1. Judged(scan, status) = [scan EXCEPT !.step = "stop", !.outcome = "failed"]
    BY <1>3 DEF Judged
  <2> QED BY <1>3, <2>1 DEF Steps, Outcomes
<1>4. CASE status = "no-match" /\ ~Exhausted(scan.attempt)
  <2>1. Judged(scan, status) = [scan EXCEPT !.step = "restop", !.attempt = scan.attempt + 1]
    BY <1>4 DEF Judged
  <2>2. scan.attempt + 1 \in 1 .. MaxAttempts
    BY <1>4
  <2> QED BY <1>4, <2>1, <2>2 DEF Steps, Trying
<1>5. CASE status = "no-match" /\ Exhausted(scan.attempt)
  <2>1. Judged(scan, status) = [scan EXCEPT !.step = "stop", !.outcome = "no-match"]
    BY <1>5 DEF Judged
  <2> QED BY <1>5, <2>1 DEF Steps, Outcomes
<1> QED BY <1>1, <1>2, <1>3, <1>4, <1>5 DEF Final

-----------------------------------------------------------------------------
(* Types, and the scan that active names. *)

Running(i) == scans[i].step \notin {"off", "report", "done"}

\* Only scan i may change, to a scan; it goes on, ends or reports.
Moves(i) ==
  /\ scans' \in [Scans -> ScanType]
  /\ \A j \in Scans \ {i} : scans'[j] = scans[j]
  /\ callers' = callers
  /\ \/ Running(i) /\ Running(i)' /\ active' = active
     \/ scans[i].step = "ended" /\ scans'[i].step = "report" /\ active' = 0
     \/ scans[i].step = "report" /\ scans'[i].step = "done" /\ active' = active

\* Every step of a scan changes that scan only, in the ways Moves lists.
LEMMA ScanMoves ==
  ASSUME TypeOK, NEW i \in Scans, ScanStep(i) \/ Deadline(i)
  PROVE  Moves(i)
<1> USE DEF Moves, Running, Local
<1>0. scans[i] \in ScanType /\ <<>> \in Seq(Signals)
  BY DEF TypeOK
<1>a. /\ {"devices", "subscribe", "claim", "start", "stop", "release", "close", "ended"} \subseteq Steps
      /\ {"report", "done", "settle", "wait", "restop", "gap", "restart"} \subseteq Steps
      /\ {"none", "error", "timeout"} \subseteq Outcomes
  BY DEF Steps, Trying, Outcomes
<1> USE <1>a
<1>1. CASE Connect(i)
  BY <1>1, GoesOn, ReturnsWith DEF Connect
<1>2. CASE Prepare(i)
  BY <1>2, GoesOn, ReturnsWith DEF Prepare
<1>3. CASE Claim(i)
  BY <1>3, GoesOn, ReturnsWith DEF Claim
<1>4. CASE VerifyStart(i)
  BY <1>4, GoesOn, ReturnsWith DEF VerifyStart
<1>5. CASE GivesUp(i)
  BY <1>5, ReturnsWith DEF GivesUp
<1>6. CASE Settle(i)
  <2> DEFINE new == [scans[i] EXCEPT !.step = "wait", !.sigCh = <<>>]
  <2>1. new \in ScanType /\ new.step = "wait"
    BY <1>0 DEF ScanType
  <2>2. Becomes(i, new)
    BY <1>0, <1>6 DEF Settle, Becomes, TypeOK
  <2> HIDE DEF new
  <2>3. scans' \in [Scans -> ScanType] /\ scans'[i] = new /\ \A j \in Scans \ {i} : scans'[j] = scans[j]
    BY <2>1, <2>2, BecomesType
  <2> QED BY <1>6, <2>1, <2>3 DEF Settle
<1>7. CASE WaitForVerifyResult(i)
  <2> DEFINE status == Head(scans[i].sigCh).status
             judged == Judged(scans[i], status)
             new == [judged EXCEPT !.sigCh = Tail(scans[i].sigCh)]
  <2>1. scans[i].step = "wait" /\ scans[i].sigCh # <<>> /\ scans[i].sigCh \in Seq(Signals)
    BY <1>0, <1>7 DEF WaitForVerifyResult, ScanType
  <2>2. status \in Final \cup {"retry"} /\ Tail(scans[i].sigCh) \in Seq(Signals)
    <3>1. Head(scans[i].sigCh) \in Signals /\ Tail(scans[i].sigCh) \in Seq(Signals)
      BY <2>1
    <3> QED BY <3>1 DEF Signals
  <2>3. judged \in ScanType /\ judged.sigCh = scans[i].sigCh /\ judged.step \in {"wait", "stop", "restop"}
    BY <1>0, <2>1, <2>2, JudgedScan
  <2>4. new \in ScanType /\ new.step = judged.step
    BY <2>2, <2>3 DEF ScanType
  <2>5. Becomes(i, new)
    BY <1>7 DEF WaitForVerifyResult, Becomes
  <2> HIDE DEF new, judged, status
  <2>6. scans' \in [Scans -> ScanType] /\ scans'[i] = new /\ \A j \in Scans \ {i} : scans'[j] = scans[j]
    BY <2>4, <2>5, BecomesType
  <2> QED BY <1>7, <2>1, <2>3, <2>4, <2>6 DEF WaitForVerifyResult
<1>8. CASE VerifyStop(i)
  BY <1>8, GoesOn DEF VerifyStop
<1>9. CASE NextAttempt(i)
  BY <1>9, GoesOn DEF NextAttempt
<1>10. CASE Release(i)
  BY <1>10, GoesOn DEF Release
<1>11. CASE Close(i)
  <2> DEFINE new == [scans[i] EXCEPT !.step = "ended", !.sigCh = <<>>]
  <2>1. new \in ScanType /\ new.step = "ended"
    BY <1>0 DEF ScanType
  <2>2. Becomes(i, new)
    BY <1>0, <1>11 DEF Close, Becomes, TypeOK
  <2> HIDE DEF new
  <2>3. scans' \in [Scans -> ScanType] /\ scans'[i] = new /\ \A j \in Scans \ {i} : scans'[j] = scans[j]
    BY <2>1, <2>2, BecomesType
  <2> QED BY <1>11, <2>1, <2>3 DEF Close
<1>12. CASE Ends(i)
  BY <1>12, GoesOn DEF Ends
<1>13. CASE Report(i)
  <2> DEFINE new == [NewScan EXCEPT !.step = "done", !.ch = scans[i].outcome]
  <2>1. new \in ScanType /\ new.step = "done"
    <3>1. 1 \in 1 .. MaxAttempts /\ scans[i].outcome \in Outcomes
      BY <1>0, ScanAssumption DEF ScanType
    <3>2. "off" \in Steps
      BY DEF Steps
    <3>3. NewScan \in ScanType
      BY <1>0, <3>1, <3>2 DEF NewScan, ScanType
    <3> QED BY <3>1, <3>3 DEF ScanType
  <2>2. Becomes(i, new)
    BY <1>13 DEF Report, Becomes
  <2> HIDE DEF new
  <2>3. scans' \in [Scans -> ScanType] /\ scans'[i] = new /\ \A j \in Scans \ {i} : scans'[j] = scans[j]
    BY <2>1, <2>2, BecomesType
  <2> QED BY <1>13, <2>1, <2>3 DEF Report
<1>14. CASE Deadline(i)
  <2> DEFINE new == [scans[i] EXCEPT !.expired = TRUE]
  <2>1. new \in ScanType /\ new.step = scans[i].step
    BY <1>0 DEF ScanType
  <2>2. Becomes(i, new)
    BY <1>14 DEF Deadline, Becomes, Trying
  <2> HIDE DEF new
  <2>3. scans' \in [Scans -> ScanType] /\ scans'[i] = new /\ \A j \in Scans \ {i} : scans'[j] = scans[j]
    BY <2>1, <2>2, BecomesType
  <2> QED BY <1>14, <2>1, <2>3 DEF Deadline, Trying
<1> QED BY <1>1, <1>2, <1>3, <1>4, <1>5, <1>6, <1>7, <1>8, <1>9, <1>10, <1>11, <1>12, <1>13, <1>14
        DEF ScanStep

-----------------------------------------------------------------------------
(* Who holds the sensor. *)

DeviceType == [by : Scans \cup {Nobody, Other}, verifying : BOOLEAN, done : BOOLEAN]

\* A scan holds the sensor from Claim until Release or the end of its connection, and
\* all the while it is verifying.
HoldOk(i) ==
  /\ Holds(i) => scans[i].step \in {"start", "stop", "release", "close"} \cup Trying
  /\ scans[i].step \in {"start", "stop", "release"} \cup Trying => Holds(i)

HoldInv == \A i \in Scans : HoldOk(i)

\* The sensor stays where it is, or goes between nobody and scan i.
HandsOver(i) ==
  /\ device' \in DeviceType
  /\ device'.by = device.by \/ {device.by, device'.by} \subseteq {Nobody, i}
  /\ extra' = extra
  /\ IF scans[i].step = "report" THEN reports' = {r \in reports : r.scan # i}
                                 ELSE reports' = reports

\* The sensor is claimed from nobody.
LEMMA ClaimedBy ==
  ASSUME TypeOK, NEW i \in Scans, ClaimBy(i)
  PROVE  device' \in DeviceType /\ device.by = Nobody /\ device'.by = i
BY DEF TypeOK, ClaimBy, Holds, Free, DeviceType, Nobody

\* A verification is started by the one that holds the sensor.
LEMMA StartedBy ==
  ASSUME TypeOK, NEW i \in Scans, StartOf(i)
  PROVE  device' \in DeviceType /\ device.by = i /\ device'.by = i
BY DEF TypeOK, StartOf, Holds, DeviceType

\* The sensor changes hands only as HandsOver says.
LEMMA ScanHandsOver ==
  ASSUME TypeOK, NEW i \in Scans, ScanStep(i) \/ Deadline(i)
  PROVE  HandsOver(i)
<1> USE DEF HandsOver, Local
<1>0. device \in DeviceType /\ Free \in DeviceType /\ Free.by = Nobody
  BY DEF TypeOK, DeviceType, Free
<1>1. CASE Connect(i) \/ Prepare(i) \/ GivesUp(i) \/ Settle(i) \/ WaitForVerifyResult(i)
             \/ NextAttempt(i) \/ Ends(i) \/ Deadline(i)
  BY <1>0, <1>1 DEF Connect, Prepare, GivesUp, Settle, WaitForVerifyResult, NextAttempt, Ends,
                    Deadline, Trying
<1>2. CASE Claim(i)
  BY <1>0, <1>2, ClaimedBy DEF Claim
<1>3. CASE VerifyStart(i)
  BY <1>0, <1>3, StartedBy DEF VerifyStart
<1>4. CASE VerifyStop(i)
  <2>1. device' = device \/ device' = [device EXCEPT !.verifying = FALSE]
    BY <1>4 DEF VerifyStop
  <2>2. device' \in DeviceType /\ device'.by = device.by
    BY <1>0, <2>1 DEF DeviceType
  <2> QED BY <1>4, <2>2 DEF VerifyStop
<1>5. CASE Release(i) \/ Close(i)
  BY <1>0, <1>5 DEF Release, Close, Holds
<1>6. CASE Report(i)
  BY <1>0, <1>6 DEF Report
<1> QED BY <1>1, <1>2, <1>3, <1>4, <1>5, <1>6 DEF ScanStep

\* A scan's own steps keep the order of claim, verification, release and
\* close.
LEMMA ScanHolds ==
  ASSUME TypeOK, NEW i \in Scans, HoldOk(i), ScanStep(i) \/ Deadline(i)
  PROVE  HoldOk(i)'
<1> USE DEF HoldOk, Holds, Local, Trying
<1>0. i # Nobody /\ scans[i] \in ScanType /\ "none" \in Outcomes
  BY ScanAssumption DEF Nobody, TypeOK, Outcomes
<1>a. /\ {"devices", "subscribe", "claim", "start", "stop", "release", "close", "ended"} \subseteq Steps
      /\ {"report", "done", "settle", "wait", "restop", "gap", "restart"} \subseteq Steps
      /\ {"error", "timeout"} \subseteq Outcomes
  BY DEF Steps, Trying, Outcomes
<1>1. CASE Connect(i)
  BY <1>a, <1>1, GoesOn, ReturnsWith DEF Connect
<1>2. CASE Prepare(i)
  BY <1>a, <1>2, GoesOn, ReturnsWith DEF Prepare
<1>3. CASE Claim(i)
  BY <1>a, <1>3, GoesOn, ReturnsWith, ClaimedBy DEF Claim
<1>4. CASE VerifyStart(i)
  BY <1>a, <1>4, GoesOn, ReturnsWith, StartedBy DEF VerifyStart
<1>5. CASE GivesUp(i)
  BY <1>a, <1>5, ReturnsWith DEF GivesUp
<1>6. CASE Settle(i) \/ WaitForVerifyResult(i) \/ Deadline(i)
  <2>1. device' = device /\ scans[i].step \in Trying
    BY <1>6 DEF Settle, WaitForVerifyResult, Deadline
  <2>2. scans'[i].step \in {"stop"} \cup Trying
    <3>1. CASE Settle(i)
      BY <1>0, <3>1 DEF Settle, TypeOK, ScanType
    <3>2. CASE Deadline(i)
      BY <1>0, <2>1, <3>2 DEF Deadline, TypeOK, ScanType
    <3>3. CASE WaitForVerifyResult(i)
      <4> DEFINE status == Head(scans[i].sigCh).status
                 judged == Judged(scans[i], status)
      <4>1. scans[i].step = "wait" /\ Head(scans[i].sigCh) \in Signals
        BY <1>0, <3>3 DEF WaitForVerifyResult, ScanType
      <4>2. judged \in ScanType /\ judged.step \in {"wait", "stop", "restop"}
        BY <1>0, <4>1, JudgedScan DEF Signals
      <4>3. scans'[i] = [judged EXCEPT !.sigCh = Tail(scans[i].sigCh)]
        BY <3>3 DEF WaitForVerifyResult, TypeOK
      <4> HIDE DEF judged
      <4>4. scans'[i].step = judged.step
        BY <4>2, <4>3 DEF ScanType
      <4> QED BY <4>2, <4>4
    <3> QED BY <1>6, <3>1, <3>2, <3>3
  <2> QED BY <2>1, <2>2
<1>7. CASE VerifyStop(i)
  <2>1. device' = device \/ device' = [device EXCEPT !.verifying = FALSE]
    BY <1>7 DEF VerifyStop
  <2>2. device'.by = device.by
    BY <2>1 DEF TypeOK
  <2> QED BY <1>a, <1>7, <2>2, GoesOn DEF VerifyStop
<1>8. CASE NextAttempt(i)
  BY <1>a, <1>8, GoesOn DEF NextAttempt
<1>9. CASE Release(i)
  BY <1>a, <1>9, GoesOn DEF Release
<1>10. CASE Close(i)
  <2>1. scans'[i].step = "ended"
    BY <1>0, <1>10 DEF Close, TypeOK, ScanType
  <2>2. device'.by # i
    BY <1>0, <1>10 DEF Close, Free
  <2> QED BY <2>1, <2>2
<1>11. CASE Ends(i)
  BY <1>a, <1>11, GoesOn DEF Ends
<1>12. CASE Report(i)
  <2>1. scans'[i].step = "done"
    BY <1>0, <1>12 DEF Report, TypeOK, NewScan
  <2> QED BY <1>12, <2>1 DEF Report
<1> QED BY <1>1, <1>2, <1>3, <1>4, <1>5, <1>6, <1>7, <1>8, <1>9, <1>10, <1>11, <1>12 DEF ScanStep

-----------------------------------------------------------------------------
(* The steps of the others, and the types. *)

\* A caller that takes a result leaves alone what the invariants look at.
LEMMA ReceiveSteps ==
  ASSUME TypeOK, NEW c \in Callers, Receive(c)
  PROVE  /\ TypeOK'
         /\ \A j \in Scans : /\ scans'[j].step = scans[j].step
                             /\ scans'[j].attempt = scans[j].attempt
                             /\ scans'[j].outcome = scans[j].outcome
                             /\ scans'[j].sigCh = scans[j].sigCh
<1> DEFINE i == callers[c].scan
           new == [scans[i] EXCEPT !.ch = "none"]
<1>1. i \in Scans /\ scans[i] \in ScanType /\ "none" \in Outcomes
  BY DEF TypeOK, Receive, Outcomes
<1>2. /\ new \in ScanType /\ new.step = scans[i].step /\ new.attempt = scans[i].attempt
      /\ new.outcome = scans[i].outcome /\ new.sigCh = scans[i].sigCh
  BY <1>1 DEF ScanType
<1>3. Becomes(i, new)
  BY DEF Receive, Becomes
<1> HIDE DEF new
<1>4. scans' \in [Scans -> ScanType] /\ scans'[i] = new /\ \A j \in Scans \ {i} : scans'[j] = scans[j]
  BY <1>1, <1>2, <1>3, BecomesType
<1>5. TypeOK'
  BY <1>4 DEF TypeOK, Receive
<1> QED BY <1>2, <1>4, <1>5

\* VerifyPresence begins a scan only when none is active.
LEMMA CallSteps ==
  ASSUME TypeOK, NEW c \in Callers, VerifyPresence(c)
  PROVE  /\ TypeOK'
         /\ \/ active' = active /\ scans' = scans
            \/ /\ active = 0
               /\ \E i \in Scans : /\ scans[i].step = "off" /\ active' = i
                                   /\ Goes(i, "connect")
<1>1. CASE active = 0 /\ \E i \in Scans : Starts(c, i)
  <2>1. PICK i \in Scans : Starts(c, i)
    BY <1>1
  <2>2. scans' \in [Scans -> ScanType]
    BY <2>1, GoesOn DEF Starts, Goes, Steps
  <2> QED BY <1>1, <2>1, <2>2 DEF TypeOK, Starts, Goes, VerifyPresence
<1>2. CASE active # 0 /\ UNCHANGED <<active, scans>>
  BY <1>2 DEF TypeOK, VerifyPresence, Starts
<1> QED BY <1>1, <1>2 DEF VerifyPresence

\* What the sensor and the other program may do to a scan.
Hears(j, signal) ==
  /\ scans'[j].step = scans[j].step
  /\ scans'[j].attempt = scans[j].attempt
  /\ scans'[j].outcome = scans[j].outcome
  /\ \/ scans'[j].sigCh = scans[j].sigCh
     \/ scans'[j].sigCh = Append(scans[j].sigCh, signal)

\* A signal on the bus reaches each scan that listens, as one more in its
\* channel.
LEMMA BroadcastHeard ==
  ASSUME TypeOK, NEW signal \in Signals, Broadcast(signal)
  PROVE  scans' \in [Scans -> ScanType] /\ \A j \in Scans : Hears(j, signal)
<1>1. ASSUME NEW j \in Scans
      PROVE  scans'[j] \in ScanType /\ Hears(j, signal)
  <2> DEFINE new == [scans[j] EXCEPT !.sigCh = Append(scans[j].sigCh, signal)]
  <2>1. scans[j] \in ScanType /\ scans[j].sigCh \in Seq(Signals)
    BY DEF TypeOK, ScanType
  <2>2. Append(scans[j].sigCh, signal) \in Seq(Signals)
    BY <2>1
  <2>3. /\ new \in ScanType /\ new.step = scans[j].step /\ new.attempt = scans[j].attempt
        /\ new.outcome = scans[j].outcome /\ new.sigCh = Append(scans[j].sigCh, signal)
    BY <2>1, <2>2 DEF ScanType
  <2>4. scans'[j] = new \/ scans'[j] = scans[j]
    BY DEF Broadcast
  <2> HIDE DEF new
  <2> QED BY <2>1, <2>3, <2>4 DEF Hears
<1>2. scans' = [j \in Scans |-> scans'[j]]
  BY DEF Broadcast
<1> QED BY <1>1, <1>2

\* A report of the sensor is recorded, and heard with the attempt it is
\* about.
LEMMA SensorSteps ==
  ASSUME TypeOK, NEW i \in Scans, NEW status \in Final \cup {"retry"}, SensorReports(i, status)
  PROVE  /\ TypeOK'
         /\ \A j \in Scans : Hears(j, Signal(status, i, scans[i].attempt))
         /\ device'.by = device.by /\ device.by = i
         /\ reports \subseteq reports'
         /\ status \in Final => Reported(i, scans[i].attempt, status)'
<1>1. scans[i].attempt \in 1 .. MaxAttempts
  BY DEF TypeOK, ScanType
<1>2. Signal(status, i, scans[i].attempt) \in Signals
  BY <1>1, ScanAssumption DEF Signal, Signals
<1>3. scans' \in [Scans -> ScanType] /\ \A j \in Scans : Hears(j, Signal(status, i, scans[i].attempt))
  BY <1>2, BroadcastHeard DEF SensorReports
<1>4. /\ device' \in DeviceType /\ device'.by = device.by /\ device.by = i
      /\ extra' \in 0 .. MaxExtra
  <2>1. device \in DeviceType /\ device.by = i
    BY DEF SensorReports, Holds, TypeOK, DeviceType
  <2>2. device' = device \/ device' = [device EXCEPT !.done = TRUE]
    BY DEF SensorReports
  <2>3. device' \in DeviceType /\ device'.by = device.by
    BY <2>1, <2>2 DEF DeviceType
  <2>4. extra' \in 0 .. MaxExtra
    BY ScanAssumption DEF SensorReports, TypeOK
  <2> QED BY <2>1, <2>3, <2>4
<1> DEFINE report == [scan |-> i, attempt |-> scans[i].attempt, status |-> status,
                      waited |-> scans[i].step = "wait"]
<1>5. CASE status = "retry"
  BY <1>3, <1>4, <1>5 DEF SensorReports, TypeOK, DeviceType, Final
<1>6. CASE status # "retry"
  <2>1. reports' = reports \cup {report} /\ status \in Final
    BY <1>6 DEF SensorReports
  <2>2. report \in [scan : Scans, attempt : 1 .. MaxAttempts, status : Final, waited : BOOLEAN]
    BY <1>1, <2>1
  <2>3. Reported(i, scans[i].attempt, status)'
    <3>1. scans'[i].attempt = scans[i].attempt
      BY <1>3 DEF Hears
    <3>2. /\ report \in reports' /\ report.scan = i /\ report.attempt = scans[i].attempt
          /\ report.status = status
      BY <2>1
    <3> HIDE DEF report
    <3> QED BY <3>1, <3>2 DEF Reported
  <2> HIDE DEF report
  <2> QED BY <1>3, <1>4, <2>1, <2>2, <2>3 DEF SensorReports, TypeOK, DeviceType
<1> QED BY <1>5, <1>6

\* The no-match that follows a restart comes during the settle delay only, of
\* an earlier attempt.
LEMMA PhantomSteps ==
  ASSUME TypeOK, NEW i \in Scans, Phantom(i)
  PROVE  /\ TypeOK' /\ device' = device /\ scans[i].step # "wait"
         /\ \A j \in Scans \ {i} : scans'[j] = scans[j]
         /\ Hears(i, Signal("no-match", i, scans[i].attempt - 1))
<1> DEFINE signal == Signal("no-match", i, scans[i].attempt - 1)
           new == [scans[i] EXCEPT !.sigCh = Append(scans[i].sigCh, signal)]
<1>1. scans[i] \in ScanType /\ scans[i].sigCh \in Seq(Signals)
  BY DEF TypeOK, ScanType
<1>2. scans[i].attempt - 1 \in 0 .. MaxAttempts
  BY <1>1, ScanAssumption DEF ScanType, Phantom
<1>3. signal \in Signals
  BY <1>2 DEF Signal, Signals, Final
<1> HIDE DEF signal
<1>4. Append(scans[i].sigCh, signal) \in Seq(Signals)
  BY <1>1, <1>3
<1>5. /\ new \in ScanType /\ new.step = scans[i].step /\ new.attempt = scans[i].attempt
      /\ new.outcome = scans[i].outcome /\ new.sigCh = Append(scans[i].sigCh, signal)
  BY <1>1, <1>4 DEF ScanType
<1>6. Becomes(i, new)
  BY DEF Phantom, Becomes, signal
<1> HIDE DEF new
<1>7. scans' \in [Scans -> ScanType] /\ scans'[i] = new /\ \A j \in Scans \ {i} : scans'[j] = scans[j]
  BY <1>5, <1>6, BecomesType
<1>8. Hears(i, signal)
  BY <1>5, <1>7 DEF Hears
<1>9. TypeOK' /\ device' = device /\ scans[i].step # "wait"
  <2>1. extra' \in 0 .. MaxExtra
    BY ScanAssumption DEF TypeOK, Phantom
  <2> QED BY <1>7, <2>1 DEF TypeOK, Phantom
<1> QED BY <1>7, <1>8, <1>9 DEF signal

\* The other program takes the sensor from nobody, gives it back, or its signals come in.
LEMMA OtherSteps ==
  ASSUME TypeOK, OtherStep
  PROVE  /\ TypeOK' /\ reports' = reports
         /\ {device.by, device'.by} \subseteq {Nobody, Other}
         /\ scans' = scans \/ \E signal \in Signals : \A j \in Scans : Hears(j, signal)
<1>1. CASE OtherStarts \/ OtherStops
  <2>1. device' \in DeviceType /\ {device.by, device'.by} \subseteq {Nobody, Other}
    <3>1. CASE OtherStarts
      BY <3>1 DEF OtherStarts, Holds, DeviceType
    <3>2. CASE OtherStops
      BY <3>2 DEF OtherStops, Holds, Free, DeviceType
    <3> QED BY <1>1, <3>1, <3>2
  <2> QED BY <1>1, <2>1 DEF OtherStep, OtherStarts, OtherStops, TypeOK, DeviceType
<1>2. CASE \E status \in {"match", "no-match"} : OtherReports(status)
  <2>1. PICK status \in {"match", "no-match"} : OtherReports(status)
    BY <1>2
  <2>2. Signal(status, Other, 0) \in Signals
    BY ScanAssumption DEF Signal, Signals, Final
  <2>3. /\ scans' \in [Scans -> ScanType]
        /\ \A j \in Scans : Hears(j, Signal(status, Other, 0))
    BY <2>1, <2>2, BroadcastHeard DEF OtherReports
  <2>4. extra' \in 0 .. MaxExtra /\ device' = device /\ device.by = Other
    BY <2>1, ScanAssumption DEF OtherReports, TypeOK, Holds
  <2> QED BY <2>2, <2>3, <2>4 DEF OtherStep, TypeOK
<1> QED BY <1>1, <1>2 DEF OtherStep

\* The initial state has its types.
LEMMA TypeInit == Init => TypeOK
<1> SUFFICES ASSUME Init PROVE TypeOK
  OBVIOUS
<1>1. NewScan \in ScanType
  <2>1. "off" \in Steps /\ "none" \in Outcomes /\ 1 \in 1 .. MaxAttempts
    BY ScanAssumption DEF Steps, Outcomes
  <2> QED BY <2>1 DEF NewScan, ScanType
<1>2. Free \in DeviceType
  BY DEF Free, DeviceType
<1> QED BY <1>1, <1>2, ScanAssumption DEF Init, TypeOK, DeviceType

\* Each step keeps the types.
LEMMA TypeStep == TypeOK /\ [Next]_vars => TypeOK'
<1> SUFFICES ASSUME TypeOK, [Next]_vars PROVE TypeOK'
  OBVIOUS
<1>1. ASSUME NEW c \in Callers, VerifyPresence(c) \/ Receive(c) PROVE TypeOK'
  BY <1>1, CallSteps, ReceiveSteps
<1>2. ASSUME NEW i \in Scans, ScanStep(i) \/ Deadline(i) PROVE TypeOK'
  <2>1. Moves(i) /\ HandsOver(i)
    BY <1>2, ScanMoves, ScanHandsOver
  <2> QED BY <2>1 DEF Moves, HandsOver, TypeOK, DeviceType
<1>3. ASSUME NEW i \in Scans, Phantom(i) PROVE TypeOK'
  BY <1>3, PhantomSteps
<1>4. ASSUME NEW i \in Scans, NEW status \in Final \cup {"retry"}, SensorReports(i, status)
      PROVE  TypeOK'
  BY <1>4, SensorSteps
<1>5. CASE OtherStep
  BY <1>5, OtherSteps
<1>6. CASE UNCHANGED vars
  BY <1>6 DEF vars, TypeOK
<1> QED BY <1>1, <1>2, <1>3, <1>4, <1>5, <1>6 DEF Next

\* Every variable keeps its type.
THEOREM TypeCorrect == Spec => []TypeOK
BY TypeInit, TypeStep, PTL DEF Spec

-----------------------------------------------------------------------------
(* One scan at a time. *)

\* active is reset by the last step of a scan that is not reporting, and set only when
\* it was nil: it names the one scan that runs.
ActiveInv == \A i \in Scans : Running(i) <=> active = i

\* The active channel is replaced only after its scan has ended.
LEMMA ActiveStep == TypeOK /\ ActiveInv /\ [Next]_vars => ActiveInv'
<1> SUFFICES ASSUME TypeOK, ActiveInv, [Next]_vars PROVE ActiveInv'
  OBVIOUS
<1> USE DEF ActiveInv, Running
<1>0. 0 \notin Scans
  BY ScanAssumption
<1>1. ASSUME NEW c \in Callers, VerifyPresence(c) PROVE ActiveInv'
  <2>1. CASE active' = active /\ scans' = scans
    BY <2>1
  <2>2. CASE active = 0 /\ \E i \in Scans : active' = i /\ Goes(i, "connect")
    <3>1. PICK i \in Scans : active' = i /\ Goes(i, "connect")
      BY <2>2
    <3>2. scans'[i].step = "connect" /\ \A j \in Scans \ {i} : scans'[j] = scans[j]
      BY <3>1, GoesOn DEF Steps
    <3> QED BY <1>0, <2>2, <3>1, <3>2
  <2> QED BY <1>1, <2>1, <2>2, CallSteps
<1>2. ASSUME NEW c \in Callers, Receive(c) PROVE ActiveInv'
  BY <1>2, ReceiveSteps DEF Receive
<1>3. ASSUME NEW i \in Scans, ScanStep(i) \/ Deadline(i) PROVE ActiveInv'
  BY <1>0, <1>3, ScanMoves DEF Moves
<1>4. ASSUME NEW i \in Scans, Phantom(i) PROVE ActiveInv'
  BY <1>4, PhantomSteps DEF Phantom, Hears
<1>5. ASSUME NEW i \in Scans, NEW status \in Final \cup {"retry"}, SensorReports(i, status)
      PROVE  ActiveInv'
  BY <1>5, SensorSteps DEF SensorReports, Hears
<1>6. CASE OtherStep
  BY <1>6, OtherSteps DEF OtherStep, Hears
<1>7. CASE UNCHANGED vars
  BY <1>7 DEF vars
<1> QED BY <1>1, <1>2, <1>3, <1>4, <1>5, <1>6, <1>7 DEF Next

\* At most one scan is between its first call of the daemon and its last.
THEOREM OneScan == Spec => []OneScanAtATime
<1>1. Init => ActiveInv
  BY ScanAssumption DEF Init, ActiveInv, Running, NewScan
<1>2. ActiveInv => OneScanAtATime
  BY DEF ActiveInv, OneScanAtATime, Running
<1> QED BY <1>1, <1>2, ActiveStep, TypeInit, TypeStep, PTL DEF Spec

-----------------------------------------------------------------------------
(* The sensor is returned. *)

LEMMA HoldStep == TypeOK /\ HoldInv /\ [Next]_vars => HoldInv'
<1> SUFFICES ASSUME TypeOK, HoldInv, [Next]_vars, NEW j \in Scans PROVE HoldOk(j)'
  BY DEF HoldInv
<1>0. j # Nobody /\ j # Other /\ HoldOk(j)
  BY ScanAssumption DEF Nobody, HoldInv
<1>1. ASSUME NEW c \in Callers, VerifyPresence(c) PROVE HoldOk(j)'
  <2>1. device' = device
    BY <1>1 DEF VerifyPresence
  <2>2. CASE scans' = scans
    BY <1>0, <2>1, <2>2 DEF HoldOk, Holds
  <2>3. CASE \E i \in Scans : scans[i].step = "off" /\ Goes(i, "connect")
    <3>1. PICK i \in Scans : scans[i].step = "off" /\ Goes(i, "connect")
      BY <2>3
    <3>2. scans'[i].step = "connect" /\ \A k \in Scans \ {i} : scans'[k] = scans[k]
      BY <3>1, GoesOn DEF Steps
    <3> QED BY <1>0, <2>1, <3>1, <3>2 DEF HoldOk, Holds, Trying
  <2> QED BY <1>1, <2>2, <2>3, CallSteps
<1>2. ASSUME NEW c \in Callers, Receive(c) PROVE HoldOk(j)'
  BY <1>0, <1>2, ReceiveSteps DEF HoldOk, Holds, Receive
<1>3. ASSUME NEW i \in Scans, ScanStep(i) \/ Deadline(i) PROVE HoldOk(j)'
  <2>1. CASE i = j
    BY <1>0, <1>3, <2>1, ScanHolds
  <2>2. CASE i # j
    <3>1. scans'[j] = scans[j] /\ (Holds(j)' <=> Holds(j))
      BY <1>0, <1>3, <2>2, ScanMoves, ScanHandsOver DEF Moves, HandsOver, Holds
    <3> QED BY <1>0, <3>1 DEF HoldOk
  <2> QED BY <2>1, <2>2
<1>4. ASSUME NEW i \in Scans, Phantom(i) PROVE HoldOk(j)'
  <2>1. scans'[j].step = scans[j].step /\ (Holds(j)' <=> Holds(j))
    BY <1>4, PhantomSteps DEF Hears, Holds
  <2> QED BY <1>0, <2>1 DEF HoldOk
<1>5. ASSUME NEW i \in Scans, NEW status \in Final \cup {"retry"}, SensorReports(i, status)
      PROVE  HoldOk(j)'
  <2>1. scans'[j].step = scans[j].step /\ (Holds(j)' <=> Holds(j))
    BY <1>5, SensorSteps DEF Hears, Holds
  <2> QED BY <1>0, <2>1 DEF HoldOk
<1>6. CASE OtherStep
  <2>1. scans'[j].step = scans[j].step /\ ~Holds(j)' /\ ~Holds(j)
    BY <1>0, <1>6, OtherSteps DEF Hears, Holds
  <2> QED BY <1>0, <2>1 DEF HoldOk
<1>7. CASE UNCHANGED vars
  BY <1>0, <1>7 DEF vars, HoldOk, Holds
<1> QED BY <1>1, <1>2, <1>3, <1>4, <1>5, <1>6, <1>7 DEF Next

\* At first nobody holds the sensor.
LEMMA HoldInit == Init => HoldInv
BY ScanAssumption DEF Init, HoldInv, HoldOk, Holds, Free, Nobody, NewScan, Trying

\* A scan that has ended does not hold the sensor.
THEOREM Returned == Spec => []SensorIsReturned
<1>1. HoldInv => SensorIsReturned
  BY DEF HoldInv, HoldOk, SensorIsReturned, Trying
<1> QED BY <1>1, HoldInit, HoldStep, TypeInit, TypeStep, PTL DEF Spec

-----------------------------------------------------------------------------
(* What a scan believes. *)

After == {"stop", "release", "close", "ended", "report"}

\* A scan that waits has only statuses of its own attempt in its channel; what it has
\* concluded, and each attempt it has gone past, rests on a report of the sensor.
SignalOk(i) ==
  /\ scans[i].step = "wait" =>
       \A n \in DOMAIN scans[i].sigCh : scans[i].sigCh[n].status \in Final =>
         Reported(i, scans[i].attempt, scans[i].sigCh[n].status)
  /\ scans[i].outcome # "none" => scans[i].step \in After
  /\ scans[i].outcome = "ok" => Reported(i, scans[i].attempt, "match")
  /\ \A attempt \in 1 .. scans[i].attempt - 1 : Reported(i, attempt, "no-match")
  /\ scans[i].outcome = "no-match" =>
       scans[i].attempt = MaxAttempts /\ Reported(i, scans[i].attempt, "no-match")

SignalInv == \A i \in Scans : SignalOk(i)

KeepsReports(i) == \A r \in reports : r.scan = i => r \in reports'

ReportedThen(i, attempt, status) ==
  \E r \in reports' : r.scan = i /\ r.attempt = attempt /\ r.status = status

\* A report stays reported while no scan forgets its own.
LEMMA ReportedStays ==
  ASSUME NEW i, NEW attempt, NEW status, KeepsReports(i), Reported(i, attempt, status)
  PROVE  ReportedThen(i, attempt, status)
BY DEF KeepsReports, Reported, ReportedThen

\* A step in which scan i stays in its attempt and draws no conclusion of the sensor's.
LEMMA SignalFrame ==
  ASSUME TypeOK, NEW i \in Scans, SignalOk(i), KeepsReports(i),
         scans'[i].attempt = scans[i].attempt,
         scans'[i].outcome \in {scans[i].outcome, "error", "timeout"},
         scans'[i].outcome # "none" => scans'[i].step \in After,
         scans'[i].step = "wait" =>
           \A n \in DOMAIN scans'[i].sigCh : scans'[i].sigCh[n].status \in Final =>
             ReportedThen(i, scans[i].attempt, scans'[i].sigCh[n].status)
  PROVE  SignalOk(i)'
<1>1. scans'[i].outcome = "ok" => ReportedThen(i, scans'[i].attempt, "match")
  BY ReportedStays DEF SignalOk
<1>2. \A attempt \in 1 .. scans'[i].attempt - 1 : ReportedThen(i, attempt, "no-match")
  BY ReportedStays DEF SignalOk
<1>3. scans'[i].outcome = "no-match" =>
        scans'[i].attempt = MaxAttempts /\ ReportedThen(i, scans'[i].attempt, "no-match")
  BY ReportedStays DEF SignalOk
<1> QED BY <1>1, <1>2, <1>3 DEF SignalOk, Reported, ReportedThen

\* A signal that comes in keeps SignalOk, if a final one is reported of the
\* attempt that waits.
LEMMA SignalHeard ==
  ASSUME TypeOK, NEW i \in Scans, SignalOk(i), KeepsReports(i),
         NEW signal \in Signals, Hears(i, signal),
         scans[i].step = "wait" /\ signal.status \in Final =>
           ReportedThen(i, scans[i].attempt, signal.status)
  PROVE  SignalOk(i)'
<1>1. ASSUME scans[i].step = "wait", NEW n \in DOMAIN scans'[i].sigCh,
             scans'[i].sigCh[n].status \in Final
      PROVE  ReportedThen(i, scans[i].attempt, scans'[i].sigCh[n].status)
  <2>1. scans[i].sigCh \in Seq(Signals)
    BY DEF TypeOK, ScanType
  <2>2. \/ n \in DOMAIN scans[i].sigCh /\ scans'[i].sigCh[n] = scans[i].sigCh[n]
        \/ scans'[i].sigCh[n] = signal
    BY <1>1, <2>1 DEF Hears
  <2>3. CASE n \in DOMAIN scans[i].sigCh /\ scans'[i].sigCh[n] = scans[i].sigCh[n]
    <3>1. Reported(i, scans[i].attempt, scans[i].sigCh[n].status)
      BY <1>1, <2>3 DEF SignalOk
    <3> QED BY <2>3, <3>1, ReportedStays
  <2>4. CASE scans'[i].sigCh[n] = signal
    BY <1>1, <2>4
  <2> QED BY <2>2, <2>3, <2>4
<1> QED BY <1>1, SignalFrame DEF Hears, SignalOk

\* A scan's own steps keep SignalOk: the drain before a wait empties its
\* channel.
LEMMA ScanSignals ==
  ASSUME TypeOK, NEW i \in Scans, SignalOk(i), ScanStep(i) \/ Deadline(i)
  PROVE  SignalOk(i)'
<1>0. scans[i] \in ScanType /\ scans[i].sigCh \in Seq(Signals)
  BY DEF TypeOK, ScanType
<1>a. /\ {"devices", "subscribe", "claim", "start", "stop", "release", "close", "ended"} \subseteq Steps
      /\ {"report", "done", "settle", "wait", "restop", "gap", "restart"} \subseteq Steps
      /\ {"error", "timeout"} \subseteq Outcomes
  BY DEF Steps, Trying, Outcomes
<1>b. scans[i].step \notin After => scans[i].outcome = "none"
  BY DEF SignalOk
<1>c. ASSUME reports' = reports PROVE KeepsReports(i)
  BY <1>c DEF KeepsReports
<1> DEFINE Moved ==
      /\ reports' = reports
      /\ scans'[i].attempt = scans[i].attempt
      /\ scans'[i].outcome \in {scans[i].outcome, "error", "timeout"}
      /\ scans'[i].outcome # "none" => scans'[i].step \in After
      /\ scans'[i].step # "wait"
<1>d. Moved => SignalOk(i)'
  BY <1>c, SignalFrame
<1>1. CASE Connect(i) \/ Prepare(i)
  <2>1. Moved
    BY <1>1, <1>a, <1>b, GoesOn, ReturnsWith DEF Connect, Prepare, Local, After
  <2> QED BY <1>d, <2>1
<1>2. CASE Claim(i) \/ VerifyStart(i)
  <2>1. Moved
    BY <1>2, <1>a, <1>b, GoesOn, ReturnsWith DEF Claim, VerifyStart, Local, After
  <2> QED BY <1>d, <2>1
<1>3. CASE GivesUp(i) \/ VerifyStop(i) \/ NextAttempt(i)
  <2>1. Moved
    BY <1>3, <1>a, <1>b, GoesOn, ReturnsWith DEF GivesUp, VerifyStop, NextAttempt, Local, After
  <2> QED BY <1>d, <2>1
<1>4. CASE Release(i) \/ Ends(i)
  <2>1. Moved
    BY <1>4, <1>a, <1>b, GoesOn DEF Release, Ends, Local, After
  <2> QED BY <1>d, <2>1
<1>5. CASE Close(i)
  <2>1. /\ scans'[i].step = "ended" /\ scans'[i].attempt = scans[i].attempt
        /\ scans'[i].outcome = scans[i].outcome /\ reports' = reports
    BY <1>0, <1>5 DEF Close, Local, TypeOK, ScanType
  <2>2. Moved
    BY <2>1 DEF After
  <2> QED BY <1>d, <2>2
<1>6. CASE Settle(i)
  <2>1. /\ scans'[i].attempt = scans[i].attempt /\ scans'[i].outcome = scans[i].outcome
        /\ scans'[i].sigCh = <<>> /\ reports' = reports /\ scans[i].outcome = "none"
    BY <1>0, <1>b, <1>6 DEF Settle, Local, TypeOK, ScanType, After
  <2>2. DOMAIN scans'[i].sigCh = {}
    BY <2>1
  <2> QED BY <1>c, <2>1, <2>2, SignalFrame
<1>7. CASE Deadline(i)
  <2>1. /\ scans'[i].attempt = scans[i].attempt /\ scans'[i].outcome = scans[i].outcome
        /\ scans'[i].sigCh = scans[i].sigCh /\ scans'[i].step = scans[i].step
        /\ reports' = reports
    BY <1>0, <1>7 DEF Deadline, Local, TypeOK, ScanType
  <2> QED BY <2>1 DEF SignalOk, Reported
<1>8. CASE Report(i)
  <2>1. scans'[i].step = "done" /\ scans'[i].outcome = "none" /\ scans'[i].attempt = 1
    BY <1>0, <1>8 DEF Report, TypeOK, NewScan
  <2> QED BY <2>1 DEF SignalOk
<1>9. CASE WaitForVerifyResult(i)
  <2> DEFINE status == Head(scans[i].sigCh).status
             judged == Judged(scans[i], status)
  <2>1. scans[i].step = "wait" /\ scans[i].sigCh # <<>> /\ reports' = reports
    BY <1>9 DEF WaitForVerifyResult, Local
  <2>2. /\ Head(scans[i].sigCh) = scans[i].sigCh[1] /\ 1 \in DOMAIN scans[i].sigCh
        /\ scans[i].sigCh[1] \in Signals
    BY <1>0, <2>1
  <2>3. status \in Final \cup {"retry"}
    BY <2>2 DEF Signals
  <2>4. status \in Final => ReportedThen(i, scans[i].attempt, status)
    BY <1>c, <2>1, <2>2, ReportedStays DEF SignalOk
  <2>5. judged \in ScanType
    BY <1>0, <2>1, <2>3, JudgedScan
  <2>6. scans'[i] = [judged EXCEPT !.sigCh = Tail(scans[i].sigCh)]
    BY <1>9 DEF WaitForVerifyResult, TypeOK
  <2> HIDE DEF judged
  <2>7. /\ scans'[i].step = judged.step /\ scans'[i].attempt = judged.attempt
        /\ scans'[i].outcome = judged.outcome /\ scans'[i].sigCh = Tail(scans[i].sigCh)
    BY <2>5, <2>6 DEF ScanType
  <2> HIDE DEF status
  <2>8. CASE status = "retry"
    <3>1. judged = scans[i]
      BY <1>0, <2>1, <2>3, <2>8, JudgedScan DEF judged
    <3>2. \A n \in DOMAIN scans'[i].sigCh :
            n + 1 \in DOMAIN scans[i].sigCh /\ scans'[i].sigCh[n] = scans[i].sigCh[n + 1]
      BY <1>0, <2>1, <2>7
    <3>3. \A n \in DOMAIN scans'[i].sigCh : scans'[i].sigCh[n].status \in Final =>
            ReportedThen(i, scans[i].attempt, scans'[i].sigCh[n].status)
      BY <1>c, <2>1, <3>2, ReportedStays DEF SignalOk
    <3> QED BY <1>c, <2>1, <2>7, <3>1, <3>3, SignalFrame DEF SignalOk
  <2>9. CASE status # "retry"
    <3>1. /\ judged.step \in {"stop", "restop"}
          /\ judged.step = "restop" =>
               /\ status = "no-match" /\ judged.outcome = scans[i].outcome
               /\ judged.attempt = scans[i].attempt + 1
          /\ judged.step = "stop" =>
               /\ judged.attempt = scans[i].attempt
               /\ judged.outcome = (IF status = "match" THEN "ok" ELSE status)
               /\ status = "no-match" => scans[i].attempt = MaxAttempts
      BY <1>0, <2>1, <2>3, <2>9, JudgedScan DEF judged
    <3>2. ReportedThen(i, scans[i].attempt, status)
      BY <2>3, <2>4, <2>9
    <3>3. \A attempt \in 1 .. scans[i].attempt - 1 : ReportedThen(i, attempt, "no-match")
      BY <1>c, <2>1, ReportedStays DEF SignalOk
    <3>4. scans[i].attempt \in Nat
      BY <1>0, ScanAssumption DEF ScanType
    <3>5. CASE judged.step = "restop"
      <4>1. \A attempt \in 1 .. scans'[i].attempt - 1 : ReportedThen(i, attempt, "no-match")
        BY <2>7, <3>1, <3>2, <3>3, <3>4, <3>5
      <4>2. scans'[i].step = "restop" /\ scans'[i].outcome = "none"
        BY <1>b, <2>1, <2>7, <3>1, <3>5 DEF After
      <4> QED BY <4>1, <4>2 DEF SignalOk, Reported, ReportedThen
    <3>6. CASE judged.step = "stop"
      <4>1. /\ scans'[i].step = "stop" /\ scans'[i].attempt = scans[i].attempt
            /\ scans'[i].outcome = (IF status = "match" THEN "ok" ELSE status)
            /\ status = "no-match" => scans[i].attempt = MaxAttempts
        BY <2>7, <3>1, <3>6
      <4> QED BY <2>3, <2>9, <3>2, <3>3, <4>1 DEF SignalOk, Reported, ReportedThen, After, Final
    <3> QED BY <3>1, <3>5, <3>6
  <2> QED BY <2>8, <2>9
<1> QED BY <1>1, <1>2, <1>3, <1>4, <1>5, <1>6, <1>7, <1>8, <1>9 DEF ScanStep

\* Each step keeps SignalInv.
LEMMA SignalStep == TypeOK /\ HoldInv /\ SignalInv /\ [Next]_vars => SignalInv'
<1> SUFFICES ASSUME TypeOK, HoldInv, SignalInv, [Next]_vars, NEW j \in Scans
             PROVE  SignalOk(j)'
  BY DEF SignalInv
<1>0. /\ SignalOk(j) /\ j # Nobody /\ j # Other
      /\ scans[j].step = "wait" => device.by = j
  BY ScanAssumption DEF SignalInv, HoldInv, HoldOk, Holds, Trying, Nobody
<1>a. ASSUME reports' = reports, scans'[j].step = scans[j].step,
             scans'[j].attempt = scans[j].attempt, scans'[j].outcome = scans[j].outcome,
             scans'[j].sigCh = scans[j].sigCh
      PROVE  SignalOk(j)'
  BY <1>0, <1>a DEF SignalOk, Reported
<1>1. ASSUME NEW c \in Callers, VerifyPresence(c) PROVE SignalOk(j)'
  <2>1. reports' = reports
    BY <1>1 DEF VerifyPresence
  <2>2. CASE scans' = scans
    BY <1>a, <2>1, <2>2
  <2>3. CASE \E i \in Scans : scans[i].step = "off" /\ Goes(i, "connect")
    <3>1. PICK i \in Scans : scans[i].step = "off" /\ Goes(i, "connect")
      BY <2>3
    <3>2. /\ \A k \in Scans \ {i} : scans'[k] = scans[k]
          /\ scans'[i].step = "connect" /\ scans'[i].attempt = scans[i].attempt
          /\ scans'[i].outcome = scans[i].outcome
      BY <3>1, GoesOn DEF Steps
    <3>3. CASE i # j
      BY <1>a, <2>1, <3>2, <3>3
    <3>4. CASE i = j
      BY <1>0, <2>1, <3>1, <3>2, <3>4 DEF SignalOk, Reported, After
    <3> QED BY <3>3, <3>4
  <2> QED BY <1>1, <2>2, <2>3, CallSteps
<1>2. ASSUME NEW c \in Callers, Receive(c) PROVE SignalOk(j)'
  BY <1>2, <1>a, ReceiveSteps DEF Receive
<1>3. ASSUME NEW i \in Scans, ScanStep(i) \/ Deadline(i) PROVE SignalOk(j)'
  <2>1. CASE i = j
    BY <1>0, <1>3, <2>1, ScanSignals
  <2>2. CASE i # j
    <3>1. scans'[j] = scans[j] /\ KeepsReports(j)
      BY <1>3, <2>2, ScanMoves, ScanHandsOver DEF Moves, HandsOver, KeepsReports
    <3>2. scans[j].step = "wait" =>
            \A n \in DOMAIN scans[j].sigCh : scans[j].sigCh[n].status \in Final =>
              ReportedThen(j, scans[j].attempt, scans[j].sigCh[n].status)
      BY <1>0, <3>1, ReportedStays DEF SignalOk
    <3>3. scans[j].outcome # "none" => scans[j].step \in After
      BY <1>0 DEF SignalOk
    <3> QED BY <1>0, <3>1, <3>2, <3>3, SignalFrame
  <2> QED BY <2>1, <2>2
<1>4. ASSUME NEW i \in Scans, Phantom(i) PROVE SignalOk(j)'
  <2>1. reports' = reports
    BY <1>4 DEF Phantom
  <2>2. CASE i # j
    BY <1>4, <1>a, <2>1, <2>2, PhantomSteps
  <2>3. CASE i = j
    <3>1. scans[j].step # "wait" /\ scans'[j].step = scans[j].step
          /\ scans'[j].attempt = scans[j].attempt /\ scans'[j].outcome = scans[j].outcome
      BY <1>4, <2>3, PhantomSteps DEF Hears
    <3> QED BY <1>0, <2>1, <3>1 DEF SignalOk, Reported
  <2> QED BY <2>2, <2>3
<1>5. ASSUME NEW i \in Scans, NEW status \in Final \cup {"retry"}, SensorReports(i, status)
      PROVE  SignalOk(j)'
  <2> DEFINE signal == Signal(status, i, scans[i].attempt)
  <2>1. Hears(j, signal) /\ device.by = i /\ KeepsReports(j)
    BY <1>5, SensorSteps DEF KeepsReports
  <2>2. signal \in Signals /\ signal.status = status
    BY <1>5, ScanAssumption DEF Signals, Signal, TypeOK, ScanType
  <2>3. scans[j].step = "wait" /\ status \in Final => ReportedThen(j, scans[j].attempt, status)
    <3>1. ASSUME scans[j].step = "wait", status \in Final
          PROVE  ReportedThen(j, scans[j].attempt, status)
      <4>1. i = j
        BY <1>0, <2>1, <3>1
      <4>2. Reported(i, scans[i].attempt, status)' /\ scans'[i].attempt = scans[i].attempt
        BY <1>5, <2>1, <3>1, <4>1, SensorSteps DEF Hears
      <4> QED BY <4>1, <4>2 DEF Reported, ReportedThen
    <3> QED BY <3>1
  <2> HIDE DEF signal
  <2> QED BY <1>0, <2>1, <2>2, <2>3, SignalHeard
<1>6. CASE OtherStep
  <2>1. reports' = reports /\ scans[j].step # "wait" /\ KeepsReports(j)
    BY <1>0, <1>6, OtherSteps DEF KeepsReports
  <2>2. CASE scans' = scans
    BY <1>a, <2>1, <2>2
  <2>3. CASE \E signal \in Signals : Hears(j, signal)
    BY <1>0, <2>1, <2>3, SignalHeard
  <2> QED BY <1>6, <2>2, <2>3, OtherSteps
<1>7. CASE UNCHANGED vars
  BY <1>a, <1>7 DEF vars
<1> QED BY <1>1, <1>2, <1>3, <1>4, <1>5, <1>6, <1>7 DEF Next

\* At first no signal has come in.
LEMMA SignalInit == Init => SignalInv
BY DEF Init, SignalInv, SignalOk, NewScan

\* A scan succeeds only on a match that the sensor reported of its own attempt, whatever
\* other programs and earlier attempts leave in its channel.
THEOREM OwnMatch == Spec => []MatchIsOwn
<1>1. SignalInv => MatchIsOwn
  BY DEF SignalInv, SignalOk, MatchIsOwn
<1> QED BY <1>1, SignalInit, SignalStep, HoldInit, HoldStep, TypeInit, TypeStep, PTL DEF Spec

\* ErrNoMatch takes a refusal by the sensor in every attempt.
THEOREM EachTimeNoMatch == Spec => []NoMatchEachTime
<1>1. TypeOK /\ SignalInv => NoMatchEachTime
  <2> SUFFICES ASSUME TypeOK, SignalInv, NEW i \in Scans, scans[i].outcome = "no-match",
                      NEW attempt \in 1 .. MaxAttempts
               PROVE  Reported(i, attempt, "no-match")
    BY DEF NoMatchEachTime
  <2>1. attempt \in 1 .. scans[i].attempt - 1 \/ attempt = scans[i].attempt
    BY ScanAssumption DEF SignalInv, SignalOk
  <2> QED BY <2>1 DEF SignalInv, SignalOk
<1> QED BY <1>1, SignalInit, SignalStep, HoldInit, HoldStep, TypeInit, TypeStep, PTL DEF Spec

-----------------------------------------------------------------------------
(* A match that was waited for. *)

\* The sensor matched a finger while the scan was waiting.
WaitedMatch(i) == \E r \in reports : r.scan = i /\ r.status = "match" /\ r.waited

\* The first status that ends an attempt is a match.
MatchIsNext(signals) ==
  \E k \in DOMAIN signals :
    signals[k].status = "match" /\ \A n \in 1 .. k - 1 : signals[n].status = "retry"

\* The sensor comes to one result in an attempt: before it, a scan that waits finds only
\* retries; a match is found behind retries alone, and is the outcome unless time runs out.
BelievedOk(i) ==
  /\ scans[i].step = "wait" =>
       \A n \in DOMAIN scans[i].sigCh : scans[i].sigCh[n].status \in Final => device.done
  /\ WaitedMatch(i) =>
       \/ scans[i].step \in After /\ scans[i].outcome \in {"ok", "timeout"}
       \/ scans[i].step = "wait" /\ MatchIsNext(scans[i].sigCh)

BelievedInv == \A i \in Scans : BelievedOk(i)

\* A retry taken from the channel leaves the match behind it next.
LEMMA NextAfterRetry ==
  ASSUME NEW signals \in Seq(Signals), signals # <<>>, signals[1].status = "retry",
         MatchIsNext(signals)
  PROVE  MatchIsNext(Tail(signals))
<1>1. PICK k \in DOMAIN signals :
        signals[k].status = "match" /\ \A n \in 1 .. k - 1 : signals[n].status = "retry"
  BY DEF MatchIsNext
<1>2. k # 1 /\ k \in 1 .. Len(signals)
  BY <1>1
<1>3. k - 1 \in DOMAIN Tail(signals) /\ Tail(signals)[k - 1] = signals[k]
  BY <1>2
<1>4. ASSUME NEW n \in 1 .. (k - 1) - 1 PROVE Tail(signals)[n].status = "retry"
  <2>1. n + 1 \in 1 .. k - 1 /\ Tail(signals)[n] = signals[n + 1]
    BY <1>2
  <2> QED BY <1>1, <2>1
<1> QED BY <1>1, <1>3, <1>4 DEF MatchIsNext

\* If a match is next, a status that ends the attempt and comes first is that match.
LEMMA NextIsFirst ==
  ASSUME NEW signals \in Seq(Signals), signals # <<>>, signals[1].status # "retry",
         MatchIsNext(signals)
  PROVE  signals[1].status = "match"
<1>1. PICK k \in DOMAIN signals :
        signals[k].status = "match" /\ \A n \in 1 .. k - 1 : signals[n].status = "retry"
  BY DEF MatchIsNext
<1>2. k \in 1 .. Len(signals) /\ 1 \notin 1 .. k - 1
  BY <1>1
<1> QED BY <1>1, <1>2

\* A match stays next when a signal comes in, and becomes so behind retries.
LEMMA NextWithSignal ==
  ASSUME NEW signals \in Seq(Signals), NEW signal \in Signals,
         \/ MatchIsNext(signals)
         \/ /\ signal.status = "match"
            /\ \A n \in DOMAIN signals : signals[n].status = "retry"
  PROVE  MatchIsNext(Append(signals, signal))
<1> DEFINE longer == Append(signals, signal)
<1>1. /\ DOMAIN longer = 1 .. Len(signals) + 1 /\ DOMAIN signals = 1 .. Len(signals)
      /\ Len(signals) \in Nat
      /\ longer[Len(signals) + 1] = signal
      /\ \A n \in 1 .. Len(signals) : longer[n] = signals[n]
  OBVIOUS
<1> HIDE DEF longer
<1>2. CASE MatchIsNext(signals)
  <2>1. PICK k \in DOMAIN signals :
          signals[k].status = "match" /\ \A n \in 1 .. k - 1 : signals[n].status = "retry"
    BY <1>2 DEF MatchIsNext
  <2>2. k \in DOMAIN longer /\ longer[k] = signals[k]
        /\ \A n \in 1 .. k - 1 : longer[n] = signals[n]
    BY <1>1, <2>1
  <2>3. MatchIsNext(longer)
    BY <2>1, <2>2 DEF MatchIsNext
  <2> QED BY <2>3 DEF longer
<1>3. CASE signal.status = "match" /\ \A n \in DOMAIN signals : signals[n].status = "retry"
  <2> DEFINE k == Len(signals) + 1
  <2>1. k \in DOMAIN longer /\ longer[k].status = "match"
    BY <1>1, <1>3
  <2>2. \A n \in 1 .. k - 1 : longer[n].status = "retry"
    BY <1>1, <1>3
  <2> HIDE DEF k
  <2>3. MatchIsNext(longer)
    BY <2>1, <2>2 DEF MatchIsNext
  <2> QED BY <2>3 DEF longer
<1> QED BY <1>2, <1>3

\* What the goroutine of scan i itself does with a match it has waited for.
LEMMA ScanBelieves ==
  ASSUME TypeOK, NEW i \in Scans, SignalOk(i), BelievedOk(i), ScanStep(i) \/ Deadline(i)
  PROVE  BelievedOk(i)'
<1>0. scans[i] \in ScanType /\ scans[i].sigCh \in Seq(Signals)
  BY DEF TypeOK, ScanType
<1>a. /\ {"devices", "subscribe", "claim", "start", "stop", "release", "close", "ended"} \subseteq Steps
      /\ {"report", "done", "settle", "wait", "restop", "gap", "restart"} \subseteq Steps
      /\ {"error", "timeout"} \subseteq Outcomes
  BY DEF Steps, Trying, Outcomes
<1> DEFINE Passes ==
      /\ reports' = reports /\ scans'[i].step # "wait"
      /\ scans[i].step \in After =>
           scans'[i].step \in After /\ scans'[i].outcome = scans[i].outcome
      /\ scans[i].step = "wait" => scans'[i].step \in After /\ scans'[i].outcome = "timeout"
<1>b. Passes => BelievedOk(i)'
  BY DEF BelievedOk, WaitedMatch
<1>1. CASE Connect(i) \/ Prepare(i)
  <2>1. Passes
    BY <1>1, <1>a, GoesOn, ReturnsWith DEF Connect, Prepare, Local, After
  <2> QED BY <1>b, <2>1
<1>2. CASE Claim(i) \/ VerifyStart(i)
  <2>1. Passes
    BY <1>2, <1>a, GoesOn, ReturnsWith DEF Claim, VerifyStart, Local, After
  <2> QED BY <1>b, <2>1
<1>3. CASE GivesUp(i) \/ VerifyStop(i) \/ NextAttempt(i)
  <2>1. Passes
    BY <1>3, <1>a, GoesOn, ReturnsWith DEF GivesUp, VerifyStop, NextAttempt, Local, After
  <2> QED BY <1>b, <2>1
<1>4. CASE Release(i) \/ Ends(i)
  <2>1. Passes
    BY <1>4, <1>a, GoesOn DEF Release, Ends, Local, After
  <2> QED BY <1>b, <2>1
<1>5. CASE Close(i)
  <2>1. /\ scans[i].step = "close" /\ scans'[i].step = "ended"
        /\ scans'[i].outcome = scans[i].outcome /\ reports' = reports
    BY <1>0, <1>5 DEF Close, Local, TypeOK, ScanType
  <2>2. Passes
    BY <2>1 DEF After
  <2> QED BY <1>b, <2>2
<1>6. CASE Settle(i)
  <2>1. scans[i].step = "settle" /\ scans'[i].sigCh = <<>> /\ reports' = reports
    BY <1>0, <1>6 DEF Settle, Local, TypeOK, ScanType
  <2>2. DOMAIN scans'[i].sigCh = {} /\ ~WaitedMatch(i)
    BY <2>1 DEF BelievedOk, After
  <2>3. ~WaitedMatch(i)'
    BY <2>1, <2>2 DEF WaitedMatch
  <2> QED BY <2>2, <2>3 DEF BelievedOk
<1>7. CASE Deadline(i)
  <2>1. /\ scans'[i].outcome = scans[i].outcome /\ scans'[i].step = scans[i].step
        /\ scans'[i].sigCh = scans[i].sigCh /\ reports' = reports /\ device' = device
    BY <1>0, <1>7 DEF Deadline, Local, TypeOK, ScanType
  <2> QED BY <2>1 DEF BelievedOk, WaitedMatch
<1>8. CASE Report(i)
  <2>1. scans'[i].step = "done" /\ reports' = {r \in reports : r.scan # i}
    BY <1>0, <1>8 DEF Report, TypeOK, NewScan
  <2>2. ~WaitedMatch(i)'
    BY <2>1 DEF WaitedMatch
  <2> QED BY <2>1, <2>2 DEF BelievedOk
<1>9. CASE WaitForVerifyResult(i)
  <2> DEFINE signals == scans[i].sigCh
             status == Head(signals).status
             judged == Judged(scans[i], status)
  <2>1. /\ scans[i].step = "wait" /\ signals # <<>> /\ signals \in Seq(Signals)
        /\ reports' = reports /\ device' = device
    BY <1>0, <1>9 DEF WaitForVerifyResult, Local
  <2>2. Head(signals) = signals[1] /\ signals[1] \in Signals
    BY <2>1
  <2>3. status \in Final \cup {"retry"}
    BY <2>2 DEF Signals
  <2>4. judged \in ScanType
    BY <1>0, <2>1, <2>3, JudgedScan
  <2>5. scans'[i] = [judged EXCEPT !.sigCh = Tail(signals)]
    BY <1>9 DEF WaitForVerifyResult, TypeOK
  <2> HIDE DEF judged
  <2>6. /\ scans'[i].step = judged.step /\ scans'[i].outcome = judged.outcome
        /\ scans'[i].sigCh = Tail(signals)
    BY <2>4, <2>5 DEF ScanType
  <2>7. WaitedMatch(i)' <=> WaitedMatch(i)
    BY <2>1 DEF WaitedMatch
  <2>8. WaitedMatch(i) => MatchIsNext(signals)
    BY <2>1 DEF BelievedOk, After
  <2>9. CASE status = "retry"
    <3>1. judged = scans[i]
      BY <1>0, <2>1, <2>3, <2>9, JudgedScan DEF judged
    <3>2. \A n \in DOMAIN Tail(signals) :
            n + 1 \in DOMAIN signals /\ Tail(signals)[n] = signals[n + 1]
      BY <2>1
    <3>3. \A n \in DOMAIN Tail(signals) : Tail(signals)[n].status \in Final => device.done
      BY <2>1, <3>2 DEF BelievedOk
    <3>4. WaitedMatch(i) => MatchIsNext(Tail(signals))
      BY <2>1, <2>2, <2>8, <2>9, NextAfterRetry
    <3> HIDE DEF signals
    <3> QED BY <2>1, <2>6, <2>7, <3>1, <3>3, <3>4 DEF BelievedOk
  <2>10. CASE status # "retry"
    <3>1. /\ judged.step \in {"stop", "restop"}
          /\ judged.step = "restop" => status = "no-match"
          /\ judged.step = "stop" => judged.outcome = (IF status = "match" THEN "ok" ELSE status)
      BY <1>0, <2>1, <2>3, <2>10, JudgedScan DEF judged
    <3>2. WaitedMatch(i) => status = "match"
      BY <2>1, <2>2, <2>8, <2>10, NextIsFirst
    <3> HIDE DEF signals, status
    <3> QED BY <2>6, <2>7, <3>1, <3>2 DEF BelievedOk, After
  <2> QED BY <2>9, <2>10
<1> QED BY <1>1, <1>2, <1>3, <1>4, <1>5, <1>6, <1>7, <1>8, <1>9 DEF ScanStep

\* A scan does not touch the sensor that another holds.
LEMMA OthersSensor ==
  ASSUME TypeOK, NEW i \in Scans, ScanStep(i) \/ Deadline(i), device.by \notin {Nobody, i}
  PROVE  device' = device
<1> USE DEF Holds
<1>1. CASE Connect(i) \/ Prepare(i) \/ GivesUp(i) \/ Settle(i) \/ WaitForVerifyResult(i)
             \/ NextAttempt(i) \/ Ends(i) \/ Report(i) \/ Deadline(i)
  BY <1>1 DEF Connect, Prepare, GivesUp, Settle, WaitForVerifyResult, NextAttempt, Ends, Report,
              Deadline
<1>2. CASE Claim(i) \/ VerifyStart(i) \/ VerifyStop(i) \/ Release(i) \/ Close(i)
  BY <1>2 DEF Claim, ClaimBy, VerifyStart, StartOf, VerifyStop, Release, Close
<1> QED BY <1>1, <1>2 DEF ScanStep

\* What the sensor reports to a scan that waits.
LEMMA SensorBelieved ==
  ASSUME TypeOK, NEW i \in Scans, BelievedOk(i), scans[i].step = "wait",
         NEW status \in Final \cup {"retry"}, SensorReports(i, status)
  PROVE  BelievedOk(i)'
<1> DEFINE signal == Signal(status, i, scans[i].attempt)
           signals == scans[i].sigCh
           new == [scans[i] EXCEPT !.sigCh = Append(signals, signal)]
<1>1. /\ scans[i] \in ScanType /\ signals \in Seq(Signals)
      /\ device \in DeviceType /\ ~device.done
  BY DEF TypeOK, ScanType, DeviceType, SensorReports
<1>2. signal \in Signals /\ signal.status = status
  <2>1. scans[i].attempt \in 0 .. MaxAttempts
    BY <1>1, ScanAssumption DEF ScanType
  <2> QED BY <2>1 DEF Signal, Signals
<1> HIDE DEF signal
<1>3. scans'[i] = new
  BY DEF SensorReports, Broadcast, Subscribed, Trying, signal
<1>4. scans'[i].step = "wait" /\ scans'[i].sigCh = Append(signals, signal)
  <2>1. Append(signals, signal) \in Seq(Signals)
    BY <1>1, <1>2
  <2> QED BY <1>1, <1>3, <2>1 DEF ScanType
<1>5. \A n \in DOMAIN signals : signals[n].status = "retry"
  <2>1. \A n \in DOMAIN signals : signals[n] \in Signals
    BY <1>1
  <2> QED BY <1>1, <2>1 DEF BelievedOk, Signals
<1>6. ~WaitedMatch(i)
  <2>1. WaitedMatch(i) => MatchIsNext(signals)
    BY DEF BelievedOk, After
  <2> QED BY <1>5, <2>1 DEF MatchIsNext
<1>7. CASE status = "retry"
  <2>1. reports' = reports
    BY <1>7 DEF SensorReports
  <2>2. ~WaitedMatch(i)'
    BY <1>6, <2>1 DEF WaitedMatch
  <2>3. \A n \in DOMAIN Append(signals, signal) : Append(signals, signal)[n].status = "retry"
    <3>1. \A n \in DOMAIN Append(signals, signal) :
            \/ n \in DOMAIN signals /\ Append(signals, signal)[n] = signals[n]
            \/ Append(signals, signal)[n] = signal
      BY <1>1, <1>2
    <3> QED BY <1>2, <1>5, <1>7, <3>1
  <2> QED BY <1>4, <2>2, <2>3 DEF BelievedOk, Final
<1>8. CASE status # "retry"
  <2> DEFINE report == [scan |-> i, attempt |-> scans[i].attempt, status |-> status,
                        waited |-> scans[i].step = "wait"]
  <2>1. device' = [device EXCEPT !.done = TRUE] /\ reports' = reports \cup {report}
    BY <1>8 DEF SensorReports
  <2>2. device'.done = TRUE
    BY <1>1, <2>1 DEF DeviceType
  <2>3. report.status = status
    OBVIOUS
  <2> HIDE DEF report
  <2>4. WaitedMatch(i)' => status = "match"
    BY <1>6, <2>1, <2>3 DEF WaitedMatch
  <2>5. status = "match" => MatchIsNext(Append(signals, signal))
    BY <1>1, <1>2, <1>5, NextWithSignal
  <2> HIDE DEF signals
  <2> QED BY <1>4, <2>2, <2>4, <2>5 DEF BelievedOk
<1> QED BY <1>7, <1>8

\* Each step keeps BelievedInv.
LEMMA BelievedStep ==
  TypeOK /\ HoldInv /\ SignalInv /\ BelievedInv /\ [Next]_vars => BelievedInv'
<1> SUFFICES ASSUME TypeOK, HoldInv, SignalInv, BelievedInv, [Next]_vars, NEW j \in Scans
             PROVE  BelievedOk(j)'
  BY DEF BelievedInv
<1>0. /\ SignalOk(j) /\ BelievedOk(j) /\ j # Nobody /\ j # Other
      /\ scans[j].step = "wait" => device.by = j
  BY ScanAssumption DEF SignalInv, BelievedInv, HoldInv, HoldOk, Holds, Trying, Nobody
<1>a. ASSUME WaitedMatch(j)' => WaitedMatch(j),
             scans'[j].step = scans[j].step, scans'[j].outcome = scans[j].outcome,
             scans[j].step = "wait" => device' = device /\ scans'[j].sigCh = scans[j].sigCh
      PROVE  BelievedOk(j)'
  BY <1>0, <1>a DEF BelievedOk
<1>b. reports' = reports => (WaitedMatch(j)' => WaitedMatch(j))
  BY DEF WaitedMatch
<1>1. ASSUME NEW c \in Callers, VerifyPresence(c) PROVE BelievedOk(j)'
  <2>1. reports' = reports /\ device' = device
    BY <1>1 DEF VerifyPresence
  <2>2. CASE scans' = scans
    BY <1>a, <1>b, <2>1, <2>2
  <2>3. CASE \E i \in Scans : scans[i].step = "off" /\ Goes(i, "connect")
    <3>1. PICK i \in Scans : scans[i].step = "off" /\ Goes(i, "connect")
      BY <2>3
    <3>2. /\ \A k \in Scans \ {i} : scans'[k] = scans[k]
          /\ scans'[i].step = "connect"
      BY <3>1, GoesOn DEF Steps
    <3>3. CASE i # j
      BY <1>a, <1>b, <2>1, <3>2, <3>3
    <3>4. CASE i = j
      BY <1>0, <1>b, <2>1, <3>1, <3>2, <3>4 DEF BelievedOk, After
    <3> QED BY <3>3, <3>4
  <2> QED BY <1>1, <2>2, <2>3, CallSteps
<1>2. ASSUME NEW c \in Callers, Receive(c) PROVE BelievedOk(j)'
  BY <1>2, <1>a, <1>b, ReceiveSteps DEF Receive
<1>3. ASSUME NEW i \in Scans, ScanStep(i) \/ Deadline(i) PROVE BelievedOk(j)'
  <2>1. CASE i = j
    BY <1>0, <1>3, <2>1, ScanBelieves
  <2>2. CASE i # j
    <3>1. scans'[j] = scans[j] /\ reports' \subseteq reports
      BY <1>3, <2>2, ScanMoves, ScanHandsOver DEF Moves, HandsOver
    <3>2. WaitedMatch(j)' => WaitedMatch(j)
      BY <3>1 DEF WaitedMatch
    <3>3. scans[j].step = "wait" => device' = device
      BY <1>0, <1>3, <2>2, OthersSensor
    <3> QED BY <1>a, <3>1, <3>2, <3>3
  <2> QED BY <2>1, <2>2
<1>4. ASSUME NEW i \in Scans, Phantom(i) PROVE BelievedOk(j)'
  <2>1. reports' = reports /\ device' = device
    BY <1>4 DEF Phantom
  <2>2. CASE i # j
    BY <1>4, <1>a, <1>b, <2>1, <2>2, PhantomSteps
  <2>3. CASE i = j
    BY <1>4, <1>a, <1>b, <2>1, <2>3, PhantomSteps DEF Hears
  <2> QED BY <2>2, <2>3
<1>5. ASSUME NEW i \in Scans, NEW status \in Final \cup {"retry"}, SensorReports(i, status)
      PROVE  BelievedOk(j)'
  <2>1. Hears(j, Signal(status, i, scans[i].attempt)) /\ device.by = i
    BY <1>5, SensorSteps
  <2>2. CASE scans[j].step = "wait"
    BY <1>0, <1>5, <2>1, <2>2, SensorBelieved
  <2>3. CASE scans[j].step # "wait"
    <3>1. \A r \in reports' : r \in reports \/ r.scan # j \/ ~r.waited
      <4> DEFINE report == [scan |-> i, attempt |-> scans[i].attempt, status |-> status,
                            waited |-> scans[i].step = "wait"]
      <4>1. report.scan # j \/ ~report.waited
        BY <2>3
      <4>2. reports' \subseteq reports \cup {report}
        BY <1>5 DEF SensorReports
      <4> HIDE DEF report
      <4> QED BY <4>1, <4>2
    <3>2. WaitedMatch(j)' => WaitedMatch(j)
      BY <3>1 DEF WaitedMatch
    <3> QED BY <1>a, <2>1, <2>3, <3>2 DEF Hears
  <2> QED BY <2>2, <2>3
<1>6. CASE OtherStep
  <2>1. reports' = reports /\ scans[j].step # "wait"
    BY <1>0, <1>6, OtherSteps
  <2>2. scans'[j].step = scans[j].step /\ scans'[j].outcome = scans[j].outcome
    BY <1>6, OtherSteps DEF Hears
  <2> QED BY <1>a, <1>b, <2>1, <2>2
<1>7. CASE UNCHANGED vars
  BY <1>a, <1>b, <1>7 DEF vars
<1> QED BY <1>1, <1>2, <1>3, <1>4, <1>5, <1>6, <1>7 DEF Next

\* At first nothing has matched.
LEMMA BelievedInit == Init => BelievedInv
BY DEF Init, BelievedInv, BelievedOk, WaitedMatch, NewScan

-----------------------------------------------------------------------------
(* A match that was not waited for. *)

Matched(i) == \E r \in reports : r.scan = i /\ r.status = "match"

\* The scan has come to a refusal.
SaidNo(i) == scans[i].outcome \in {"no-match", "failed"}

\* Once a scan has a status that ends an attempt, its sensor reports no other before the
\* next VerifyStart; so after a match there is none to judge, be it dropped or waiting.
DeniedOk(i) ==
  /\ scans[i].step = "start" => ~device.verifying
  /\ scans[i].step \in {"restop", "gap", "restart"} => device.done
  /\ SaidNo(i) /\ Holds(i) => device.done
  /\ Matched(i) =>
       /\ ~SaidNo(i)
       /\ scans[i].step \in {"settle", "wait"} \cup After
       /\ scans[i].step \in {"settle", "wait"} => device.done
       /\ scans[i].step = "wait" =>
            \A n \in DOMAIN scans[i].sigCh : scans[i].sigCh[n].status \in {"retry", "match"}

DeniedInv == \A i \in Scans : DeniedOk(i)

\* What the goroutine of scan i itself does after a match.
LEMMA ScanDenies ==
  ASSUME TypeOK, NEW i \in Scans, HoldOk(i), SignalOk(i), BelievedOk(i), DeniedOk(i),
         ScanStep(i) \/ Deadline(i)
  PROVE  DeniedOk(i)'
<1>0. /\ scans[i] \in ScanType /\ scans[i].sigCh \in Seq(Signals)
      /\ device \in DeviceType /\ i # Nobody
  BY ScanAssumption DEF TypeOK, ScanType, DeviceType, Nobody
<1>a. /\ {"devices", "subscribe", "claim", "start", "stop", "release", "close", "ended"} \subseteq Steps
      /\ {"report", "done", "settle", "wait", "restop", "gap", "restart"} \subseteq Steps
      /\ {"error", "timeout"} \subseteq Outcomes
  BY DEF Steps, Trying, Outcomes
<1> DEFINE Passes ==
      /\ reports' = reports /\ scans'[i].step \notin {"start", "settle", "wait"}
      /\ scans'[i].step \in {"restop", "gap", "restart"} => device'.done
      /\ SaidNo(i)' /\ Holds(i)' => device'.done
      /\ Matched(i) => ~SaidNo(i)' /\ scans'[i].step \in After
<1>b. Passes => DeniedOk(i)'
  BY DEF DeniedOk, Matched
<1>c. SaidNo(i) => scans[i].step \in After
  BY DEF SignalOk, SaidNo
<1>1. CASE Connect(i) \/ Prepare(i) \/ GivesUp(i) \/ NextAttempt(i) \/ Ends(i)
  <2>1. device' = device /\ reports' = reports
    BY <1>1 DEF Connect, Prepare, GivesUp, NextAttempt, Ends, Local
  <2>2. \/ scans'[i].outcome = scans[i].outcome
        \/ scans'[i].outcome \in {"error", "timeout"}
    BY <1>1, <1>a, GoesOn, ReturnsWith DEF Connect, Prepare, GivesUp, NextAttempt, Ends
  <2>3. \/ scans[i].step \in {"connect", "devices", "subscribe"}
           /\ scans'[i].step \in {"devices", "subscribe", "claim", "ended", "close"}
        \/ scans[i].step \in {"settle", "wait", "gap"} /\ scans'[i].step = "stop"
        \/ scans[i].step = "gap" /\ scans'[i].step = "restart"
        \/ scans[i].step = "ended" /\ scans'[i].step = "report"
    BY <1>1, <1>a, GoesOn, ReturnsWith DEF Connect, Prepare, GivesUp, NextAttempt, Ends
  <2>4. Passes
    BY <2>1, <2>2, <2>3 DEF DeniedOk, SaidNo, Holds, After
  <2> QED BY <1>b, <2>4
<1>2. CASE Claim(i)
  <2>1. scans[i].step = "claim" /\ reports' = reports /\ ~Matched(i)
    BY <1>2 DEF Claim, Local, DeniedOk, After
  <2>2. \/ scans'[i].step = "start" /\ device'.verifying = FALSE
           /\ scans'[i].outcome = scans[i].outcome
        \/ scans'[i].step = "close" /\ scans'[i].outcome = "error"
    <3>1. [Free EXCEPT !.by = i].verifying = FALSE
      BY DEF Free
    <3> QED BY <1>2, <1>a, <3>1, GoesOn, ReturnsWith DEF Claim, ClaimBy
  <2>3. ~SaidNo(i)'
    BY <1>c, <2>1, <2>2 DEF SaidNo, After
  <2> QED BY <2>1, <2>2, <2>3 DEF DeniedOk, Matched
<1>3. CASE VerifyStart(i)
  <2>1. scans[i].step \in {"start", "restart"} /\ reports' = reports /\ ~Matched(i)
    BY <1>3 DEF VerifyStart, Local, DeniedOk, After
  <2>2. \/ scans'[i].step = "settle" /\ scans'[i].outcome = scans[i].outcome
        \/ scans'[i].step \in {"release", "stop"} /\ scans'[i].outcome = "error"
    BY <1>3, <1>a, GoesOn, ReturnsWith DEF VerifyStart
  <2>3. ~SaidNo(i)'
    BY <1>c, <2>1, <2>2 DEF SaidNo, After
  <2> QED BY <2>1, <2>2, <2>3 DEF DeniedOk, Matched
<1>4. CASE VerifyStop(i)
  <2>1. device' = device \/ device' = [device EXCEPT !.verifying = FALSE]
    BY <1>4 DEF VerifyStop
  <2>2. device'.done = device.done /\ device'.by = device.by
    BY <1>0, <2>1 DEF DeviceType
  <2>3. /\ scans'[i].outcome = scans[i].outcome /\ reports' = reports
        /\ \/ scans[i].step = "restop" /\ scans'[i].step = "gap"
           \/ scans[i].step = "stop" /\ scans'[i].step = "release"
    BY <1>4, <1>a, GoesOn DEF VerifyStop, Local
  <2>4. Passes
    BY <2>2, <2>3 DEF DeniedOk, SaidNo, Holds, After
  <2> QED BY <1>b, <2>4
<1>5. CASE Release(i) \/ Close(i)
  <2>1. device' = device \/ ~Holds(i)'
    BY <1>0, <1>5 DEF Release, Close, Free, Holds
  <2>2. /\ scans'[i].outcome = scans[i].outcome /\ reports' = reports
        /\ scans'[i].step \in {"close", "ended"}
    <3>1. CASE Release(i)
      BY <1>a, <3>1, GoesOn DEF Release, Local
    <3>2. CASE Close(i)
      BY <1>0, <3>2 DEF Close, Local, TypeOK, ScanType
    <3> QED BY <1>5, <3>1, <3>2
  <2>3. Passes
    BY <2>1, <2>2 DEF DeniedOk, SaidNo, Holds, After
  <2> QED BY <1>b, <2>3
<1>6. CASE Settle(i) \/ Deadline(i)
  <2>1. device' = device /\ reports' = reports
    BY <1>6 DEF Settle, Deadline, Local
  <2>2. /\ scans'[i].outcome = scans[i].outcome
        /\ \/ scans'[i].step = scans[i].step /\ scans'[i].sigCh = scans[i].sigCh
           \/ scans[i].step = "settle" /\ scans'[i].step = "wait" /\ scans'[i].sigCh = <<>>
    BY <1>0, <1>6 DEF Settle, Deadline, TypeOK, ScanType
  <2>3. DOMAIN <<>> = {}
    OBVIOUS
  <2> QED BY <2>1, <2>2, <2>3 DEF DeniedOk, Matched, SaidNo, Holds
<1>7. CASE Report(i)
  <2>1. scans'[i].step = "done" /\ scans'[i].outcome = "none"
        /\ reports' = {r \in reports : r.scan # i}
    BY <1>0, <1>7 DEF Report, TypeOK, NewScan
  <2>2. ~Matched(i)'
    BY <2>1 DEF Matched
  <2> QED BY <2>1, <2>2 DEF DeniedOk, SaidNo
<1>8. CASE WaitForVerifyResult(i)
  <2> DEFINE signals == scans[i].sigCh
             status == Head(signals).status
             judged == Judged(scans[i], status)
  <2>1. /\ scans[i].step = "wait" /\ signals # <<>> /\ signals \in Seq(Signals)
        /\ reports' = reports /\ device' = device
    BY <1>0, <1>8 DEF WaitForVerifyResult, Local
  <2>2. Head(signals) = signals[1] /\ 1 \in DOMAIN signals /\ signals[1] \in Signals
    BY <2>1
  <2>3. status \in Final \cup {"retry"}
    BY <2>2 DEF Signals
  <2>4. judged \in ScanType
    BY <1>0, <2>1, <2>3, JudgedScan
  <2>5. scans'[i] = [judged EXCEPT !.sigCh = Tail(signals)]
    BY <1>8 DEF WaitForVerifyResult, TypeOK
  <2> HIDE DEF judged
  <2>6. /\ scans'[i].step = judged.step /\ scans'[i].outcome = judged.outcome
        /\ scans'[i].sigCh = Tail(signals)
    BY <2>4, <2>5 DEF ScanType
  <2>7. status # "retry" => device.done
    BY <2>1, <2>2, <2>3 DEF BelievedOk
  <2>8. Matched(i) => status \in {"retry", "match"}
    BY <2>1, <2>2 DEF DeniedOk
  <2>9. CASE status = "retry"
    <3>1. judged = scans[i]
      BY <1>0, <2>1, <2>3, <2>9, JudgedScan DEF judged
    <3>2. \A n \in DOMAIN Tail(signals) :
            n + 1 \in DOMAIN signals /\ Tail(signals)[n] = signals[n + 1]
      BY <2>1
    <3>3. Matched(i) => \A n \in DOMAIN Tail(signals) : Tail(signals)[n].status \in {"retry", "match"}
      BY <2>1, <3>2 DEF DeniedOk
    <3> HIDE DEF signals
    <3> QED BY <2>1, <2>6, <3>1, <3>3 DEF DeniedOk, Matched, SaidNo, Holds
  <2>10. CASE status # "retry"
    <3>1. /\ judged.step \in {"stop", "restop"}
          /\ judged.step = "restop" => status = "no-match"
          /\ judged.step = "stop" => judged.outcome = (IF status = "match" THEN "ok" ELSE status)
      BY <1>0, <2>1, <2>3, <2>10, JudgedScan DEF judged
    <3> HIDE DEF signals, status
    <3>2. Passes
      BY <2>1, <2>6, <2>7, <2>8, <2>10, <3>1 DEF SaidNo, After
    <3> QED BY <1>b, <3>2
  <2> QED BY <2>9, <2>10
<1> QED BY <1>1, <1>2, <1>3, <1>4, <1>5, <1>6, <1>7, <1>8 DEF ScanStep

\* What the sensor reports to its scan: it has matched no finger yet, or is done with it.
LEMMA SensorDenies ==
  ASSUME TypeOK, NEW i \in Scans, HoldOk(i), BelievedOk(i), DeniedOk(i),
         NEW status \in Final \cup {"retry"}, SensorReports(i, status)
  PROVE  DeniedOk(i)'
<1> DEFINE signal == Signal(status, i, scans[i].attempt)
           signals == scans[i].sigCh
<1>1. /\ signals \in Seq(Signals) /\ device \in DeviceType
      /\ device.by = i /\ device.verifying /\ ~device.done
  BY DEF TypeOK, ScanType, DeviceType, SensorReports, Holds
<1>2. signal \in Signals /\ signal.status = status
  BY ScanAssumption DEF Signals, Signal, TypeOK, ScanType
<1>3. /\ scans'[i].step = scans[i].step /\ scans'[i].outcome = scans[i].outcome
      /\ scans'[i].sigCh = signals \/ scans'[i].sigCh = Append(signals, signal)
  BY SensorSteps DEF Hears
<1> HIDE DEF signal
<1>4. /\ ~SaidNo(i) /\ scans[i].step \in {"settle", "wait", "stop", "release", "close"}
      /\ scans[i].step \in {"settle", "wait"} => ~Matched(i)
  BY <1>1 DEF HoldOk, Holds, DeniedOk, Trying
<1>5. CASE status = "retry"
  <2>1. reports' = reports
    BY <1>5 DEF SensorReports
  <2> QED BY <1>3, <1>4, <2>1 DEF DeniedOk, Matched, SaidNo, After
<1>6. CASE status # "retry"
  <2> DEFINE report == [scan |-> i, attempt |-> scans[i].attempt, status |-> status,
                        waited |-> scans[i].step = "wait"]
  <2>1. device' = [device EXCEPT !.done = TRUE] /\ reports' = reports \cup {report}
    BY <1>6 DEF SensorReports
  <2>2. device'.done = TRUE
    BY <1>1, <2>1 DEF DeviceType
  <2>3. report.status = status
    OBVIOUS
  <2> HIDE DEF report
  <2>4. Matched(i)' => Matched(i) \/ status = "match"
    BY <2>1, <2>3 DEF Matched
  <2>5. ASSUME scans[i].step = "wait", Matched(i)', NEW n \in DOMAIN scans'[i].sigCh
        PROVE  scans'[i].sigCh[n].status \in {"retry", "match"}
    <3>1. status = "match"
      BY <1>4, <2>4, <2>5
    <3>2. \A m \in DOMAIN signals : signals[m] \in Signals /\ signals[m].status \notin Final
      BY <1>1, <2>5 DEF BelievedOk
    <3>3. \A m \in DOMAIN signals : signals[m].status = "retry"
      BY <3>2 DEF Signals
    <3>4. \/ n \in DOMAIN signals /\ scans'[i].sigCh[n] = signals[n]
          \/ scans'[i].sigCh[n] = signal
      BY <1>1, <1>2, <1>3, <2>5
    <3> QED BY <1>2, <3>1, <3>3, <3>4
  <2> HIDE DEF signals
  <2> QED BY <1>3, <1>4, <2>2, <2>5 DEF DeniedOk, SaidNo, After
<1> QED BY <1>5, <1>6

\* Each step keeps DeniedInv.
LEMMA DeniedStep ==
  TypeOK /\ HoldInv /\ SignalInv /\ BelievedInv /\ DeniedInv /\ [Next]_vars => DeniedInv'
<1> SUFFICES ASSUME TypeOK, HoldInv, SignalInv, BelievedInv, DeniedInv, [Next]_vars,
                    NEW j \in Scans
             PROVE  DeniedOk(j)'
  BY DEF DeniedInv
<1>0. /\ HoldOk(j) /\ SignalOk(j) /\ BelievedOk(j) /\ DeniedOk(j) /\ j # Nobody /\ j # Other
      /\ scans[j].step \in {"start"} \cup Trying => device.by = j
  BY ScanAssumption DEF SignalInv, BelievedInv, HoldInv, DeniedInv, HoldOk, Holds, Nobody
<1>a. ASSUME Matched(j)' => Matched(j),
             scans'[j].step = scans[j].step, scans'[j].outcome = scans[j].outcome,
             device.by = j \/ device'.by = j => device' = device,
             scans[j].step = "wait" => scans'[j].sigCh = scans[j].sigCh
      PROVE  DeniedOk(j)'
  BY <1>0, <1>a DEF DeniedOk, SaidNo, Holds, Trying
<1>b. reports' = reports => (Matched(j)' => Matched(j))
  BY DEF Matched
<1>1. ASSUME NEW c \in Callers, VerifyPresence(c) PROVE DeniedOk(j)'
  <2>1. reports' = reports /\ device' = device
    BY <1>1 DEF VerifyPresence
  <2>2. CASE scans' = scans
    BY <1>a, <1>b, <2>1, <2>2
  <2>3. CASE \E i \in Scans : scans[i].step = "off" /\ Goes(i, "connect")
    <3>1. PICK i \in Scans : scans[i].step = "off" /\ Goes(i, "connect")
      BY <2>3
    <3>2. /\ \A k \in Scans \ {i} : scans'[k] = scans[k]
          /\ scans'[i].step = "connect" /\ scans'[i].outcome = scans[i].outcome
      BY <3>1, GoesOn DEF Steps
    <3>3. CASE i # j
      BY <1>a, <1>b, <2>1, <3>2, <3>3
    <3>4. CASE i = j
      <4>1. ~SaidNo(j)' /\ ~Matched(j)'
        BY <1>0, <1>b, <2>1, <3>1, <3>2, <3>4 DEF SignalOk, DeniedOk, SaidNo, After
      <4> QED BY <3>2, <3>4, <4>1 DEF DeniedOk
    <3> QED BY <3>3, <3>4
  <2> QED BY <1>1, <2>2, <2>3, CallSteps
<1>2. ASSUME NEW c \in Callers, Receive(c) PROVE DeniedOk(j)'
  BY <1>2, <1>a, <1>b, ReceiveSteps DEF Receive
<1>3. ASSUME NEW i \in Scans, ScanStep(i) \/ Deadline(i) PROVE DeniedOk(j)'
  <2>1. CASE i = j
    BY <1>0, <1>3, <2>1, ScanDenies
  <2>2. CASE i # j
    <3>1. /\ scans'[j] = scans[j] /\ reports' \subseteq reports
          /\ device'.by = device.by \/ {device.by, device'.by} \subseteq {Nobody, i}
      BY <1>3, <2>2, ScanMoves, ScanHandsOver DEF Moves, HandsOver
    <3>2. Matched(j)' => Matched(j)
      BY <3>1 DEF Matched
    <3>3. device.by = j \/ device'.by = j => device' = device
      BY <1>0, <1>3, <2>2, <3>1, OthersSensor
    <3> QED BY <1>a, <3>1, <3>2, <3>3
  <2> QED BY <2>1, <2>2
<1>4. ASSUME NEW i \in Scans, Phantom(i) PROVE DeniedOk(j)'
  <2>1. reports' = reports /\ device' = device
    BY <1>4 DEF Phantom
  <2>2. CASE i # j
    BY <1>4, <1>a, <1>b, <2>1, <2>2, PhantomSteps
  <2>3. CASE i = j
    BY <1>4, <1>a, <1>b, <2>1, <2>3, PhantomSteps DEF Hears
  <2> QED BY <2>2, <2>3
<1>5. ASSUME NEW i \in Scans, NEW status \in Final \cup {"retry"}, SensorReports(i, status)
      PROVE  DeniedOk(j)'
  <2>1. CASE i = j
    BY <1>0, <1>5, <2>1, SensorDenies
  <2>2. CASE i # j
    <3>1. /\ Hears(j, Signal(status, i, scans[i].attempt))
          /\ device.by = i /\ device'.by = i
      BY <1>5, SensorSteps
    <3>2. \A r \in reports' : r \in reports \/ r.scan # j
      <4> DEFINE report == [scan |-> i, attempt |-> scans[i].attempt, status |-> status,
                            waited |-> scans[i].step = "wait"]
      <4>1. report.scan # j
        BY <2>2
      <4>2. reports' \subseteq reports \cup {report}
        BY <1>5 DEF SensorReports
      <4> HIDE DEF report
      <4> QED BY <4>1, <4>2
    <3>3. Matched(j)' => Matched(j)
      BY <3>2 DEF Matched
    <3>4. scans[j].step # "wait"
      BY <1>0, <2>2, <3>1 DEF Trying
    <3> QED BY <1>a, <2>2, <3>1, <3>3, <3>4 DEF Hears
  <2> QED BY <2>1, <2>2
<1>6. CASE OtherStep
  <2>1. /\ reports' = reports /\ scans[j].step # "wait"
        /\ device.by # j /\ device'.by # j
    BY <1>0, <1>6, OtherSteps DEF Trying
  <2>2. scans'[j].step = scans[j].step /\ scans'[j].outcome = scans[j].outcome
    BY <1>6, OtherSteps DEF Hears
  <2> QED BY <1>a, <1>b, <2>1, <2>2
<1>7. CASE UNCHANGED vars
  BY <1>a, <1>b, <1>7 DEF vars
<1> QED BY <1>1, <1>2, <1>3, <1>4, <1>5, <1>6, <1>7 DEF Next

\* At first nothing has matched and nothing is concluded.
LEMMA DeniedInit == Init => DeniedInv
BY DEF Init, DeniedInv, DeniedOk, Matched, SaidNo, NewScan

\* A match the scan was waiting for is its outcome, unless the 30 s run out first; one it
\* dropped with the signals of the settle delay is never turned into a refusal.
THEOREM BelievedMatch == Spec => []MatchIsBelieved
<1>1. TypeOK /\ SignalInv /\ BelievedInv /\ DeniedInv => MatchIsBelieved
  <2> SUFFICES ASSUME TypeOK, SignalInv, BelievedInv, DeniedInv,
                      NEW r \in reports, r.status = "match"
               PROVE  /\ scans[r.scan].outcome \notin {"no-match", "failed"}
                      /\ r.waited => scans[r.scan].outcome \in {"none", "ok", "timeout"}
    BY DEF MatchIsBelieved
  <2>1. r.scan \in Scans /\ Matched(r.scan) /\ (r.waited => WaitedMatch(r.scan))
    BY DEF TypeOK, WaitedMatch, Matched
  <2>2. ~SaidNo(r.scan)
    BY <2>1 DEF DeniedInv, DeniedOk
  <2>3. r.waited => scans[r.scan].outcome \in {"none", "ok", "timeout"}
    BY <2>1 DEF SignalInv, SignalOk, BelievedInv, BelievedOk, After
  <2> QED BY <2>2, <2>3 DEF SaidNo
<1> QED BY <1>1, DeniedInit, DeniedStep, BelievedInit, BelievedStep, SignalInit, SignalStep,
           HoldInit, HoldStep, TypeInit, TypeStep, PTL DEF Spec
=============================================================================
