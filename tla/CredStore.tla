----------------------------- MODULE CredStore ------------------------------
(***************************************************************************)
(* The resident store of src/ctap2/credstore.go: a JSON file that is read  *)
(* whole and replaced by way of a temporary file and a rename.             *)
(*                                                                         *)
(* A process may die at any step and any call of the operating system may  *)
(* fail.  Several processes may use the same file (a service and a server  *)
(* started by hand): there is no lock, and they share the temporary file.  *)
(* A file that is open stays the same file when it is renamed: "on" says   *)
(* under which name the file a process writes to is to be found by now.    *)
(*                                                                         *)
(* A text that was not written to its end is taken not to be JSON.  What a *)
(* loss of power leaves on disk is not modelled; nothing is synced.        *)
(***************************************************************************)
EXTENDS Sequences

CONSTANTS
  Procs,    \* processes that use the store
  Entries,  \* stored credentials: [cred, rp, ...]
  Absent, Empty, Torn   \* no file, a file of no bytes, a part or mixture of JSON texts

VARIABLES
  file,       \* what is found under "creds" and "tmp"
  procs,      \* each process: step of Save, its entry, what it will write, where to
  found,      \* what each process got from its last FindByRPID
  overlapped, \* history: two Saves have been under way at the same time
  given,      \* history: entries Save was called with
  acked       \* history: entries for which Save returned no error

vars == <<file, procs, found, overlapped, given, acked>>

ASSUME CredStoreAssumption ==
  /\ \A e \in Entries : {"cred", "rp"} \subseteq DOMAIN e
  /\ {Absent, Empty, Torn} \cap Seq(Entries) = {}
  /\ Absent # Empty /\ Empty # Torn /\ Absent # Torn

Lists == Seq(Entries)

Files == Lists \cup {Absent, Empty, Torn}

NoEntry == [cred |-> "none", rp |-> "none"]

IdleProc(result) ==
  [at |-> "idle", entry |-> NoEntry, creds |-> <<>>, on |-> "none", result |-> result]

ProcType ==
  [at : {"idle", "load", "open", "write", "rename"}, entry : Entries \cup {NoEntry},
   creds : Lists, on : {"none", "tmp", "creds", "gone"},
   result : {"none", "ok", "err"}]

TypeOK ==
  /\ file \in [{"creds", "tmp"} -> Files]
  /\ procs \in [Procs -> ProcType]
  /\ DOMAIN found = Procs
  /\ overlapped \in BOOLEAN
  /\ given \subseteq Entries
  /\ acked \subseteq given
  /\ \A p \in Procs :
       /\ procs[p].at # "idle" => procs[p].entry \in given
       /\ (procs[p].at = "write") = (procs[p].on # "none")

Init ==
  /\ file = [name \in {"creds", "tmp"} |-> Absent]
  /\ procs = [p \in Procs |-> IdleProc("none")]
  /\ found = [p \in Procs |-> <<>>]
  /\ overlapped = FALSE
  /\ given = {}
  /\ acked = {}

-----------------------------------------------------------------------------
Busy(p) == procs[p].at # "idle"

\* Seeded fault: an entry with the same CredID is kept beside the new one.
AppendAlways(list, entry) == Append(list, entry)

\* Seeded fault: the new entry takes the place of all.
OnlyNew(list, entry) == <<entry>>

\* Save's loop, and its append.
Replace(list, entry) ==
  IF \E i \in DOMAIN list : list[i].cred = entry.cred
  THEN [i \in DOMAIN list |-> IF list[i].cred = entry.cred THEN entry ELSE list[i]]
  ELSE Append(list, entry)

\* load: a file that is not there is an empty store, one that is no JSON is an error.
Readable == file["creds"] \notin {Empty, Torn}

Loaded == IF file["creds"] = Absent THEN <<>> ELSE file["creds"]

\* Save is called.  A credential is saved once.
Begin(p, e) ==
  /\ ~Busy(p)
  /\ e \notin given
  /\ procs' = [procs EXCEPT ![p] = [IdleProc("none") EXCEPT !.at = "load", !.entry = e]]
  /\ overlapped' = (overlapped \/ \E q \in Procs \ {p} : Busy(q))
  /\ given' = given \cup {e}
  /\ UNCHANGED <<file, found, acked>>

Returns(p, result) == procs' = [procs EXCEPT ![p] = IdleProc(result)]

Load(p) ==
  /\ procs[p].at = "load"
  /\ \/ Returns(p, "err")
     \/ /\ Readable
        /\ procs' = [procs EXCEPT ![p].creds = Replace(Loaded, procs[p].entry), ![p].at = "open"]
  /\ UNCHANGED <<file, found, overlapped, given, acked>>

\* Seeded fault: the store is written in place.
OpenInPlace(p) ==
  /\ procs[p].at = "open"
  /\ file' = [file EXCEPT !["creds"] = Empty]
  /\ procs' = [procs EXCEPT ![p].on = "creds", ![p].at = "write"]
  /\ UNCHANGED <<found, overlapped, given, acked>>

\* MkdirAll, and WriteFile up to its open, which truncates.
Open(p) ==
  /\ procs[p].at = "open"
  /\ \/ Returns(p, "err") /\ UNCHANGED file
     \/ /\ file' = [file EXCEPT !["tmp"] = Empty]
        /\ procs' = [procs EXCEPT ![p].on = "tmp", ![p].at = "write"]
  /\ UNCHANGED <<found, overlapped, given, acked>>

\* What the file holds after a list has been written from its beginning: bytes of
\* another process that go on further than the list stay.
Over(old, list) == IF old \in {Empty, list} THEN {list} ELSE {list, Torn}

WriteTo(name, contents) ==
  IF name = "gone" THEN UNCHANGED file
  ELSE \E new \in contents : file' = [file EXCEPT ![name] = new]

Present(name) == IF name = "gone" THEN Torn ELSE file[name]

\* Seeded fault: an error of WriteFile is not looked at.
WriteUnchecked(p) ==
  /\ procs[p].at = "write"
  /\ WriteTo(procs[p].on, {procs[p].creds, Torn})
  /\ procs' = [procs EXCEPT ![p].on = "none", ![p].at = "rename"]
  /\ UNCHANGED <<found, overlapped, given, acked>>

\* The rest of WriteFile.
Write(p) ==
  /\ procs[p].at = "write"
  /\ \/ /\ WriteTo(procs[p].on, {Present(procs[p].on), Torn})
        /\ Returns(p, "err")
     \/ /\ WriteTo(procs[p].on, Over(Present(procs[p].on), procs[p].creds))
        /\ procs' = [procs EXCEPT ![p].on = "none", ![p].at = "rename"]
  /\ UNCHANGED <<found, overlapped, given, acked>>

\* Where an open file is after the rename.
Moved(on) == IF on = "tmp" THEN "creds" ELSE IF on = "creds" THEN "gone" ELSE on

Rename(p) ==
  /\ procs[p].at = "rename"
  /\ \/ /\ Returns(p, "err")
        /\ UNCHANGED <<file, acked>>
     \/ /\ file["tmp"] # Absent
        /\ file' = [file EXCEPT !["creds"] = file["tmp"], !["tmp"] = Absent]
        /\ procs' = [q \in Procs |->
                      IF q = p THEN IdleProc("ok")
                      ELSE [procs[q] EXCEPT !.on = Moved(procs[q].on)]]
        /\ acked' = acked \cup {procs[p].entry}
  /\ UNCHANGED <<found, overlapped, given>>

\* The process is killed, perhaps when some of the bytes are written, and started again.
Dies(p) ==
  /\ Busy(p)
  /\ Returns(p, "none")
  /\ \/ UNCHANGED file
     \/ procs[p].at = "write" /\ WriteTo(procs[p].on, {Torn})
  /\ UNCHANGED <<found, overlapped, given, acked>>

OfRP(list, rp) == SelectSeq(list, LAMBDA entry : entry.rp = rp)

FindByRPID(p, rp) ==
  /\ ~Busy(p)
  /\ \/ Returns(p, "err") /\ UNCHANGED found
     \/ /\ Readable
        /\ Returns(p, "ok")
        /\ found' = [found EXCEPT ![p] = OfRP(Loaded, rp)]
  /\ UNCHANGED <<file, overlapped, given, acked>>

Next ==
  \E p \in Procs :
    \/ \E e \in Entries : Begin(p, e) \/ FindByRPID(p, e.rp)
    \/ Load(p) \/ Open(p) \/ Write(p) \/ Rename(p) \/ Dies(p)

Spec == Init /\ [][Next]_vars

-----------------------------------------------------------------------------
\* Unless two Saves overlapped, no fault and no death of a process at any step leaves
\* a store that cannot be read, which would make every later Save and FindByRPID fail.
StoreIsReadable == ~overlapped => Readable

\* Unless two Saves overlapped, what Save has acknowledged is in the store until its
\* CredID is saved again.
AckedSurvives ==
  ~overlapped =>
    \A e \in acked :
      \/ \E i \in DOMAIN Loaded : Loaded[i] = e
      \/ \E other \in given \ {e} : other.cred = e.cred

\* However Saves overlap, a store that can be read holds nothing that was not saved,
\* and no CredID twice.
NothingInvented ==
  Readable =>
    /\ \A i \in DOMAIN Loaded : Loaded[i] \in given
    /\ \A i, j \in DOMAIN Loaded : Loaded[i].cred = Loaded[j].cred => i = j

-----------------------------------------------------------------------------
(***************************************************************************)
(* Save takes effect with the rename.                                      *)
(***************************************************************************)
CallOf(proc) ==
  [at |-> IF proc.at = "idle" THEN "idle" ELSE "saving",
   entry |-> proc.entry, result |-> proc.result]

Store == INSTANCE AtomicStore WITH
  content <- Loaded,
  calls <- [p \in Procs |-> CallOf(procs[p])]

\* The store is atomic as long as no two Saves overlap.
ImplementsAtomicStore == Store!StoreSpec
=============================================================================
