---------------------------- MODULE AtomicStore -----------------------------
(***************************************************************************)
(* What the resident store promises the processes that use it: a Save      *)
(* changes the store in one step or not at all, says which of the two it   *)
(* was, and leaves the old contents or the new ones if the process dies;   *)
(* FindByRPID sees the contents of one moment.                             *)
(*                                                                         *)
(* The promise ends when two Saves overlap: nothing keeps the processes    *)
(* apart.                                                                  *)
(***************************************************************************)
EXTENDS Sequences

CONSTANTS
  Procs,    \* processes that use the store
  Entries   \* stored credentials: [cred, rp, ...]

VARIABLES
  content,    \* the stored credentials, oldest first
  calls,      \* what each process is about
  found,      \* what each got from its last FindByRPID
  overlapped  \* two Saves have been under way at the same time

storeVars == <<content, calls, found, overlapped>>

NoEntry == [cred |-> "none", rp |-> "none"]

IdleCall(result) == [at |-> "idle", entry |-> NoEntry, result |-> result]

\* The contents after entry has been saved: in the place of the one with its CredID,
\* or at the end.
Saved(list, entry) ==
  IF \E i \in DOMAIN list : list[i].cred = entry.cred
  THEN [i \in DOMAIN list |-> IF list[i].cred = entry.cred THEN entry ELSE list[i]]
  ELSE Append(list, entry)

OfRP(list, rp) == SelectSeq(list, LAMBDA entry : entry.rp = rp)

StoreInit ==
  /\ content = <<>>
  /\ calls = [p \in Procs |-> IdleCall("none")]
  /\ found = [p \in Procs |-> <<>>]
  /\ overlapped = FALSE

Call(p, e) ==
  /\ calls[p].at = "idle"
  /\ calls' = [calls EXCEPT ![p] = [at |-> "saving", entry |-> e, result |-> "none"]]
  /\ overlapped' = (overlapped \/ \E q \in Procs \ {p} : calls[q].at = "saving")
  /\ UNCHANGED <<content, found>>

Succeed(p) ==
  /\ calls[p].at = "saving"
  /\ content' = Saved(content, calls[p].entry)
  /\ calls' = [calls EXCEPT ![p] = IdleCall("ok")]
  /\ UNCHANGED <<found, overlapped>>

\* An error, or the death of the process.
Fail(p, result) ==
  /\ calls[p].at = "saving"
  /\ calls' = [calls EXCEPT ![p] = IdleCall(result)]
  /\ UNCHANGED <<content, found, overlapped>>

Lookup(p, rp) ==
  /\ calls[p].at = "idle"
  /\ \/ /\ calls' = [calls EXCEPT ![p] = IdleCall("ok")]
        /\ found' = [found EXCEPT ![p] = OfRP(content, rp)]
     \/ calls' = [calls EXCEPT ![p] = IdleCall("err")] /\ UNCHANGED found
  /\ UNCHANGED <<content, overlapped>>

StoreNext ==
  \/ overlapped'
  \/ \E p \in Procs :
       \/ \E e \in Entries : Call(p, e)
       \/ Succeed(p)
       \/ Fail(p, "err") \/ Fail(p, "none")
       \/ \E e \in Entries : Lookup(p, e.rp)

StoreSpec == StoreInit /\ [][StoreNext]_storeVars
=============================================================================
