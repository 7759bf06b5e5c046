-------------------------- MODULE CredStoreProofs ---------------------------
(***************************************************************************)
(* Theorems about CredStore, for any processes and entries.                *)
(***************************************************************************)
EXTENDS CredStore, Naturals, TLAPS

\* As long as no two Saves have overlapped, the one Save under way is alone with both
\* files, and what it has prepared is what it will put in the store's place.
SaverInv ==
  ~overlapped =>
    /\ Readable
    /\ \A p, q \in Procs : Busy(p) /\ Busy(q) => p = q
    /\ \A p \in Procs :
         /\ procs[p].at \in {"open", "write", "rename"} =>
              procs[p].creds = Replace(Loaded, procs[p].entry)
         /\ procs[p].at = "write" => procs[p].on = "tmp" /\ file["tmp"] = Empty
         /\ procs[p].at = "rename" => file["tmp"] = procs[p].creds

-----------------------------------------------------------------------------
\* Replace returns a list.
LEMMA ReplaceType ==
  ASSUME NEW list \in Lists, NEW entry \in Entries
  PROVE  Replace(list, entry) \in Lists
<1>1. CASE \E i \in DOMAIN list : list[i].cred = entry.cred
  <2> DEFINE new == [i \in DOMAIN list |-> IF list[i].cred = entry.cred THEN entry ELSE list[i]]
  <2>1. DOMAIN list = 1 .. Len(list) /\ Len(list) \in Nat
    BY DEF Lists
  <2>2. \A i \in 1 .. Len(list) : new[i] \in Entries
    BY <2>1 DEF Lists
  <2>3. new \in [1 .. Len(list) -> Entries]
    BY <2>1, <2>2
  <2>4. new \in Seq(Entries)
    BY <2>1, <2>3
  <2> QED BY <1>1, <2>4 DEF Replace, Lists
<1>2. CASE ~\E i \in DOMAIN list : list[i].cred = entry.cred
  BY <1>2 DEF Replace, Lists
<1> QED BY <1>1, <1>2

\* What load returns is a list.
LEMMA LoadedType ==
  ASSUME file \in [{"creds", "tmp"} -> Files], Readable
  PROVE  Loaded \in Lists
BY DEF Files, Readable, Loaded, Lists

\* An idle process has the type of a process.
LEMMA IdleType ==
  ASSUME NEW result \in {"none", "ok", "err"}
  PROVE  IdleProc(result) \in ProcType
BY DEF IdleProc, ProcType, Lists

\* A missing file counts as the empty list, which is a list.
LEMMA EmptyList == <<>> \in Lists
BY DEF Lists

-----------------------------------------------------------------------------
\* The type invariant: in particular a process has a file open only while it writes.
THEOREM TypeCorrect == Spec => []TypeOK
<1>1. Init => TypeOK
  <2> SUFFICES ASSUME Init PROVE TypeOK
    OBVIOUS
  <2>1. file \in [{"creds", "tmp"} -> Files]
    BY DEF Init, Files
  <2>2. procs \in [Procs -> ProcType]
    BY EmptyList, IdleType DEF Init
  <2>3. \A p \in Procs : procs[p].at = "idle" /\ procs[p].on = "none"
    BY DEF Init, IdleProc
  <2> QED BY <2>1, <2>2, <2>3 DEF Init, TypeOK
<1>2. TypeOK /\ [Next]_vars => TypeOK'
  <2> SUFFICES ASSUME TypeOK, [Next]_vars PROVE TypeOK'
    OBVIOUS
  <2>0. ASSUME NEW p \in Procs, NEW result \in {"none", "ok", "err"},
               procs' = [procs EXCEPT ![p] = IdleProc(result)], DOMAIN found' = Procs,
               file' \in [{"creds", "tmp"} -> Files],
               UNCHANGED <<overlapped, given>>, acked' \subseteq given
        PROVE  TypeOK'
    <3>1. procs' \in [Procs -> ProcType]
      BY <2>0, IdleType DEF TypeOK
    <3>2. procs'[p].at = "idle" /\ procs'[p].on = "none"
      BY <2>0 DEF TypeOK, IdleProc
    <3>3. \A q \in Procs \ {p} : procs'[q] = procs[q]
      BY <2>0 DEF TypeOK
    <3> QED BY <2>0, <3>1, <3>2, <3>3 DEF TypeOK
  <2>1. ASSUME NEW p \in Procs, NEW e \in Entries, Begin(p, e)
        PROVE  TypeOK'
    <3> DEFINE new == [IdleProc("none") EXCEPT !.at = "load", !.entry = e]
    <3>1. new \in ProcType /\ new.at = "load" /\ new.on = "none" /\ new.entry = e
      BY EmptyList DEF IdleProc, ProcType
    <3>2. procs' \in [Procs -> ProcType] /\ procs'[p] = new
      BY <2>1, <3>1 DEF TypeOK, Begin
    <3>3. \A q \in Procs \ {p} : procs'[q] = procs[q]
      BY <2>1 DEF TypeOK, Begin
    <3>4. overlapped' \in BOOLEAN
      BY <2>1 DEF TypeOK, Begin
    <3> QED BY <2>1, <3>1, <3>2, <3>3, <3>4 DEF TypeOK, Begin
  <2>2. ASSUME NEW p \in Procs, NEW e \in Entries, FindByRPID(p, e.rp)
        PROVE  TypeOK'
    <3>1. DOMAIN found' = Procs
      BY <2>2 DEF TypeOK, FindByRPID
    <3> QED BY <2>0, <2>2, <3>1 DEF TypeOK, FindByRPID, Returns
  <2>3. ASSUME NEW p \in Procs, Load(p)
        PROVE  TypeOK'
    <3>1. CASE Returns(p, "err")
      BY <2>0, <2>3, <3>1, EmptyList DEF TypeOK, Load, Returns
    <3>2. CASE /\ Readable
               /\ procs' = [procs EXCEPT ![p].creds = Replace(Loaded, procs[p].entry),
                                         ![p].at = "open"]
      <4> DEFINE new == [procs[p] EXCEPT !.creds = Replace(Loaded, procs[p].entry), !.at = "open"]
      <4>1. procs[p] \in ProcType /\ procs[p].entry \in Entries
        BY <2>3 DEF TypeOK, Load
      <4>2. Replace(Loaded, procs[p].entry) \in Lists
        BY <3>2, <4>1, LoadedType, ReplaceType DEF TypeOK
      <4>3. new \in ProcType /\ new.at = "open" /\ new.on = procs[p].on /\ new.entry = procs[p].entry
        BY <4>1, <4>2 DEF ProcType
      <4>4. procs' = [procs EXCEPT ![p] = new]
        BY <3>2, <4>1 DEF TypeOK
      <4>5. procs' \in [Procs -> ProcType] /\ procs'[p] = new
        BY <4>3, <4>4 DEF TypeOK
      <4>6. \A q \in Procs \ {p} : procs'[q] = procs[q]
        BY <4>4 DEF TypeOK
      <4> HIDE DEF new
      <4> QED BY <2>3, <4>1, <4>3, <4>5, <4>6 DEF TypeOK, Load
    <3> QED BY <2>3, <3>1, <3>2 DEF Load
  <2>4. ASSUME NEW p \in Procs, Open(p)
        PROVE  TypeOK'
    <3>1. CASE Returns(p, "err") /\ UNCHANGED file
      BY <2>0, <2>4, <3>1 DEF TypeOK, Open, Returns
    <3>2. CASE /\ file' = [file EXCEPT !["tmp"] = Empty]
               /\ procs' = [procs EXCEPT ![p].on = "tmp", ![p].at = "write"]
      <4> DEFINE new == [procs[p] EXCEPT !.on = "tmp", !.at = "write"]
      <4>1. procs[p] \in ProcType /\ procs[p].entry \in given
        BY <2>4 DEF TypeOK, Open
      <4>2. new \in ProcType /\ new.at = "write" /\ new.on = "tmp" /\ new.entry = procs[p].entry
        BY <4>1 DEF ProcType
      <4>3. procs' = [procs EXCEPT ![p] = new]
        BY <3>2, <4>1 DEF TypeOK
      <4>4. procs' \in [Procs -> ProcType] /\ procs'[p] = new
        BY <4>2, <4>3 DEF TypeOK
      <4>5. \A q \in Procs \ {p} : procs'[q] = procs[q]
        BY <4>3 DEF TypeOK
      <4>6. file' \in [{"creds", "tmp"} -> Files]
        BY <3>2 DEF TypeOK, Files
      <4> HIDE DEF new
      <4> QED BY <2>4, <4>1, <4>2, <4>4, <4>5, <4>6 DEF TypeOK, Open
    <3> QED BY <2>4, <3>1, <3>2 DEF Open
  <2>5. ASSUME NEW p \in Procs, Write(p)
        PROVE  TypeOK'
    <3>1. procs[p] \in ProcType /\ procs[p].entry \in given /\ procs[p].on \in {"tmp", "creds", "gone"}
      BY <2>5 DEF TypeOK, Write, ProcType
    <3>2. procs[p].creds \in Files /\ Torn \in Files /\ Present(procs[p].on) \in Files
      BY <3>1 DEF TypeOK, ProcType, Files, Lists, Present
    <3>3. CASE WriteTo(procs[p].on, {Present(procs[p].on), Torn}) /\ Returns(p, "err")
      <4>1. file' \in [{"creds", "tmp"} -> Files]
        BY <3>1, <3>2, <3>3 DEF TypeOK, WriteTo
      <4> QED BY <2>0, <2>5, <3>3, <4>1 DEF TypeOK, Write, Returns
    <3>4. CASE /\ WriteTo(procs[p].on, Over(Present(procs[p].on), procs[p].creds))
               /\ procs' = [procs EXCEPT ![p].on = "none", ![p].at = "rename"]
      <4> DEFINE new == [procs[p] EXCEPT !.on = "none", !.at = "rename"]
      <4>1. Over(Present(procs[p].on), procs[p].creds) \subseteq Files
        BY <3>2 DEF Over
      <4>2. file' \in [{"creds", "tmp"} -> Files]
        BY <3>1, <3>4, <4>1 DEF TypeOK, WriteTo
      <4>3. new \in ProcType /\ new.at = "rename" /\ new.on = "none" /\ new.entry = procs[p].entry
        BY <3>1 DEF ProcType
      <4>4. procs' = [procs EXCEPT ![p] = new]
        BY <3>1, <3>4 DEF TypeOK
      <4>5. procs' \in [Procs -> ProcType] /\ procs'[p] = new
        BY <4>3, <4>4 DEF TypeOK
      <4>6. \A q \in Procs \ {p} : procs'[q] = procs[q]
        BY <4>4 DEF TypeOK
      <4> HIDE DEF new
      <4> QED BY <2>5, <3>1, <4>2, <4>3, <4>5, <4>6 DEF TypeOK, Write
    <3> QED BY <2>5, <3>3, <3>4 DEF Write
  <2>6. ASSUME NEW p \in Procs, Rename(p)
        PROVE  TypeOK'
    <3>1. CASE Returns(p, "err") /\ UNCHANGED <<file, acked>>
      BY <2>0, <2>6, <3>1 DEF TypeOK, Rename, Returns
    <3>2. CASE /\ file["tmp"] # Absent
               /\ file' = [file EXCEPT !["creds"] = file["tmp"], !["tmp"] = Absent]
               /\ procs' = [q \in Procs |->
                             IF q = p THEN IdleProc("ok")
                             ELSE [procs[q] EXCEPT !.on = Moved(procs[q].on)]]
               /\ acked' = acked \cup {procs[p].entry}
      <4>1. file' \in [{"creds", "tmp"} -> Files] /\ acked' \subseteq given
        BY <2>6, <3>2 DEF TypeOK, Rename, Files
      <4>2. procs'[p] = IdleProc("ok") /\ DOMAIN procs' = Procs
        BY <3>2
      <4>3. ASSUME NEW q \in Procs \ {p}
            PROVE  /\ procs'[q] \in ProcType
                   /\ procs'[q].at # "idle" => procs'[q].entry \in given
                   /\ (procs'[q].at = "write") = (procs'[q].on # "none")
        <5>1. procs'[q] = [procs[q] EXCEPT !.on = Moved(procs[q].on)]
          BY <3>2
        <5>2. procs[q] \in ProcType
          BY DEF TypeOK
        <5>3. /\ Moved(procs[q].on) \in {"none", "tmp", "creds", "gone"}
              /\ (Moved(procs[q].on) # "none") = (procs[q].on # "none")
          BY <5>2 DEF Moved, ProcType
        <5> QED BY <5>1, <5>2, <5>3 DEF TypeOK, ProcType
      <4>4. procs'[p] \in ProcType /\ procs'[p].at = "idle" /\ procs'[p].on = "none"
        BY <4>2, IdleType DEF IdleProc
      <4>5. procs' \in [Procs -> ProcType]
        BY <3>2, <4>2, <4>3, <4>4
      <4> QED BY <2>6, <4>1, <4>3, <4>4, <4>5 DEF TypeOK, Rename
    <3> QED BY <2>6, <3>1, <3>2 DEF Rename
  <2>7. ASSUME NEW p \in Procs, Dies(p)
        PROVE  TypeOK'
    <3>1. file' \in [{"creds", "tmp"} -> Files]
      BY <2>7 DEF TypeOK, Dies, WriteTo, ProcType, Files
    <3> QED BY <2>0, <2>7, <3>1 DEF TypeOK, Dies, Returns
  <2>8. CASE UNCHANGED vars
    BY <2>8 DEF vars, TypeOK
  <2> QED BY <2>1, <2>2, <2>3, <2>4, <2>5, <2>6, <2>7, <2>8 DEF Next
<1> QED BY <1>1, <1>2, PTL DEF Spec

-----------------------------------------------------------------------------
\* What a list replaces is a list as well when it is all there is.
LEMMA OverEmpty ==
  ASSUME NEW list
  PROVE  Over(Empty, list) = {list}
BY DEF Over

\* A list can be read, and is what load returns.
LEMMA ListsAreReadable ==
  ASSUME NEW list \in Lists
  PROVE  list # Absent /\ list # Empty /\ list # Torn
BY CredStoreAssumption DEF Lists

\* At first nobody saves.
LEMMA SaverInit == Init => SaverInv
BY CredStoreAssumption DEF Init, SaverInv, IdleProc, Busy, Readable

\* One step keeps the saver alone with its files, unless it makes two Saves overlap.
LEMMA SaverStep ==
  ASSUME TypeOK, SaverInv, [Next]_vars
  PROVE  SaverInv'
<1> SUFFICES ASSUME ~overlapped' PROVE SaverInv'
  BY DEF SaverInv
<1> USE CredStoreAssumption
<1>0. ~overlapped
  BY DEF Next, vars, Begin, Load, Open, Write, Rename, Dies, FindByRPID
<1>1. ASSUME NEW p \in Procs, Busy(p), \A q \in Procs \ {p} : procs'[q].at = procs[q].at,
             Readable',
             procs'[p].at \in {"open", "write", "rename"} =>
               procs'[p].creds = Replace(Loaded', procs'[p].entry),
             procs'[p].at = "write" => procs'[p].on = "tmp" /\ file'["tmp"] = Empty,
             procs'[p].at = "rename" => file'["tmp"] = procs'[p].creds
      PROVE  SaverInv'
  <2>1. \A q \in Procs \ {p} : procs'[q].at = "idle"
    BY <1>0, <1>1 DEF SaverInv, Busy
  <2>2. \A x : (Replace(Loaded, x))' = Replace(Loaded', x')
    BY DEF Replace
  <2> QED BY <1>1, <2>1, <2>2 DEF SaverInv, Busy, Replace
<1>2. ASSUME NEW p \in Procs, NEW e \in Entries, Begin(p, e)
      PROVE  SaverInv'
  <2>1. \A q \in Procs \ {p} : procs[q].at = "idle" /\ procs'[q] = procs[q]
    BY <1>2 DEF Begin, Busy, TypeOK
  <2>2. procs'[p].at = "load"
    BY <1>2 DEF Begin, TypeOK, IdleProc
  <2>3. Readable'
    BY <1>0, <1>2 DEF SaverInv, Readable, Begin
  <2> QED BY <2>1, <2>2, <2>3 DEF SaverInv, Busy
<1>3. ASSUME NEW p \in Procs, NEW e \in Entries, FindByRPID(p, e.rp)
      PROVE  SaverInv'
  <2>1. \A q \in Procs : procs'[q] = procs[q] \/ procs'[q].at = "idle"
    BY <1>3 DEF FindByRPID, Returns, TypeOK, IdleProc
  <2>2. file' = file
    BY <1>3 DEF FindByRPID
  <2> QED BY <1>0, <2>1, <2>2 DEF SaverInv, Busy, Readable, Loaded
<1>4. ASSUME NEW p \in Procs, Load(p)
      PROVE  SaverInv'
  <2>1. file' = file /\ Busy(p) /\ Readable' /\ Loaded' = Loaded
    BY <1>0, <1>4 DEF SaverInv, Load, Busy, Readable, Loaded
  <2>2. CASE Returns(p, "err")
    <3> QED BY <1>1, <2>1, <2>2 DEF Returns, TypeOK, IdleProc
  <2>3. CASE procs' = [procs EXCEPT ![p].creds = Replace(Loaded, procs[p].entry), ![p].at = "open"]
    <3>1. procs'[p] = [procs[p] EXCEPT !.creds = Replace(Loaded, procs[p].entry), !.at = "open"]
      BY <2>3 DEF TypeOK
    <3>2. procs[p] \in ProcType
      BY DEF TypeOK
    <3>3. /\ procs'[p].at = "open" /\ procs'[p].entry = procs[p].entry
          /\ procs'[p].creds = Replace(Loaded, procs[p].entry)
      BY <3>1, <3>2 DEF ProcType
    <3> QED BY <1>1, <2>1, <2>3, <3>3 DEF TypeOK
  <2> QED BY <1>4, <2>2, <2>3 DEF Load
<1>5. ASSUME NEW p \in Procs, Open(p)
      PROVE  SaverInv'
  <2>1. Busy(p) /\ procs[p].creds = Replace(Loaded, procs[p].entry) /\ procs[p] \in ProcType
    BY <1>0, <1>5 DEF SaverInv, Open, Busy, TypeOK
  <2>2. CASE Returns(p, "err") /\ UNCHANGED file
    <3>1. Readable'
      BY <1>0, <2>2 DEF SaverInv, Readable
    <3> QED BY <1>1, <2>1, <2>2, <3>1 DEF Returns, TypeOK, IdleProc
  <2>3. CASE /\ file' = [file EXCEPT !["tmp"] = Empty]
             /\ procs' = [procs EXCEPT ![p].on = "tmp", ![p].at = "write"]
    <3>1. procs'[p] = [procs[p] EXCEPT !.on = "tmp", !.at = "write"]
      BY <2>3 DEF TypeOK
    <3>2. /\ procs'[p].at = "write" /\ procs'[p].entry = procs[p].entry
          /\ procs'[p].creds = procs[p].creds /\ procs'[p].on = "tmp"
      BY <2>1, <3>1 DEF ProcType
    <3>3. file'["creds"] = file["creds"] /\ file'["tmp"] = Empty
      BY <2>3 DEF TypeOK
    <3>4. Readable' /\ Loaded' = Loaded
      BY <1>0, <3>3 DEF SaverInv, Readable, Loaded
    <3> QED BY <1>1, <2>1, <2>3, <3>2, <3>3, <3>4 DEF TypeOK
  <2> QED BY <1>5, <2>2, <2>3 DEF Open
<1>6. ASSUME NEW p \in Procs, Write(p)
      PROVE  SaverInv'
  <2>1. /\ Busy(p) /\ procs[p].creds = Replace(Loaded, procs[p].entry) /\ procs[p] \in ProcType
        /\ procs[p].on = "tmp" /\ file["tmp"] = Empty
    BY <1>0, <1>6 DEF SaverInv, Write, Busy, TypeOK
  <2>2. file'["creds"] = file["creds"]
    BY <1>6, <2>1 DEF Write, WriteTo, TypeOK
  <2>3. Readable' /\ Loaded' = Loaded
    BY <1>0, <2>2 DEF SaverInv, Readable, Loaded
  <2>4. CASE Returns(p, "err")
    BY <1>1, <2>1, <2>3, <2>4 DEF Returns, TypeOK, IdleProc
  <2>5. CASE /\ WriteTo(procs[p].on, Over(Present(procs[p].on), procs[p].creds))
             /\ procs' = [procs EXCEPT ![p].on = "none", ![p].at = "rename"]
    <3>1. procs'[p] = [procs[p] EXCEPT !.on = "none", !.at = "rename"]
      BY <2>5 DEF TypeOK
    <3>2. /\ procs'[p].at = "rename" /\ procs'[p].entry = procs[p].entry
          /\ procs'[p].creds = procs[p].creds
      BY <2>1, <3>1 DEF ProcType
    <3>3. file'["tmp"] = procs[p].creds
      BY <2>1, <2>5, OverEmpty DEF WriteTo, Present, TypeOK
    <3> QED BY <1>1, <2>1, <2>3, <2>5, <3>2, <3>3 DEF TypeOK
  <2> QED BY <1>6, <2>4, <2>5 DEF Write
<1>7. ASSUME NEW p \in Procs, Rename(p)
      PROVE  SaverInv'
  <2>1. /\ Busy(p) /\ procs[p] \in ProcType /\ file["tmp"] = procs[p].creds
    BY <1>0, <1>7 DEF SaverInv, Rename, Busy, TypeOK
  <2>2. CASE Returns(p, "err") /\ UNCHANGED <<file, acked>>
    <3>1. Readable'
      BY <1>0, <2>2 DEF SaverInv, Readable
    <3> QED BY <1>1, <2>1, <2>2, <3>1 DEF Returns, TypeOK, IdleProc
  <2>3. CASE /\ file' = [file EXCEPT !["creds"] = file["tmp"], !["tmp"] = Absent]
             /\ procs' = [q \in Procs |->
                           IF q = p THEN IdleProc("ok")
                           ELSE [procs[q] EXCEPT !.on = Moved(procs[q].on)]]
    <3>1. file'["creds"] = procs[p].creds
      BY <2>1, <2>3 DEF TypeOK
    <3>2. Readable'
      BY <2>1, <3>1, ListsAreReadable DEF Readable, ProcType
    <3>3. procs'[p].at = "idle"
      BY <2>3 DEF IdleProc
    <3>4. ASSUME NEW q \in Procs \ {p}
          PROVE  procs'[q].at = procs[q].at
      <4>1. procs'[q] = [procs[q] EXCEPT !.on = Moved(procs[q].on)] /\ procs[q] \in ProcType
        BY <2>3 DEF TypeOK
      <4> QED BY <4>1 DEF ProcType
    <3> QED BY <1>1, <2>1, <3>2, <3>3, <3>4
  <2> QED BY <1>7, <2>2, <2>3 DEF Rename
<1>8. ASSUME NEW p \in Procs, Dies(p)
      PROVE  SaverInv'
  <2>1. file'["creds"] = file["creds"]
    BY <1>0, <1>8 DEF SaverInv, Dies, WriteTo, TypeOK
  <2>2. Readable'
    BY <1>0, <2>1 DEF SaverInv, Readable
  <2>3. procs'[p].at = "idle" /\ \A q \in Procs \ {p} : procs'[q].at = procs[q].at
    BY <1>8 DEF Dies, Returns, TypeOK, IdleProc
  <2> QED BY <1>1, <1>8, <2>2, <2>3 DEF Dies
<1>9. CASE UNCHANGED vars
  BY <1>9 DEF vars, SaverInv, Busy, Readable, Loaded, Replace
<1> QED BY <1>2, <1>3, <1>4, <1>5, <1>6, <1>7, <1>8, <1>9 DEF Next

\* As long as no two Saves have overlapped, the one under way has the files to itself.
THEOREM SaverAlone == Spec => []SaverInv
<1>1. Init => SaverInv
  BY SaverInit
<1>2. TypeOK /\ SaverInv /\ [Next]_vars => SaverInv'
  BY SaverStep
<1> QED BY <1>1, <1>2, TypeCorrect, PTL DEF Spec

\* Whatever fails and whenever the process dies, the store can be read again, unless two
\* Saves have overlapped.
THEOREM AlwaysReadable == Spec => []StoreIsReadable
<1>1. SaverInv => StoreIsReadable
  BY DEF SaverInv, StoreIsReadable
<1> QED BY <1>1, SaverAlone, PTL

-----------------------------------------------------------------------------
\* No CredID is in the list twice.
Distinct(list) == \A i, j \in DOMAIN list : list[i].cred = list[j].cred => i = j

\* What Replace does with the elements of a list.
LEMMA ReplaceElements ==
  ASSUME NEW list \in Lists, NEW entry \in Entries
  PROVE  /\ \E i \in DOMAIN Replace(list, entry) : Replace(list, entry)[i] = entry
         /\ \A i \in DOMAIN list : list[i].cred # entry.cred =>
              \E j \in DOMAIN Replace(list, entry) : Replace(list, entry)[j] = list[i]
         /\ \A i \in DOMAIN Replace(list, entry) :
              \/ Replace(list, entry)[i] = entry
              \/ \E j \in DOMAIN list : Replace(list, entry)[i] = list[j]
         /\ Distinct(list) => Distinct(Replace(list, entry))
<1>1. CASE \E i \in DOMAIN list : list[i].cred = entry.cred
  <2> DEFINE new == [i \in DOMAIN list |-> IF list[i].cred = entry.cred THEN entry ELSE list[i]]
  <2>1. Replace(list, entry) = new
    BY <1>1 DEF Replace
  <2>2. \A i \in DOMAIN list : new[i].cred = list[i].cred
    OBVIOUS
  <2>3. Distinct(list) => Distinct(new)
    BY <2>2 DEF Distinct
  <2> QED BY <1>1, <2>1, <2>3
<1>2. CASE \A i \in DOMAIN list : list[i].cred # entry.cred
  <2> DEFINE new == Append(list, entry)
  <2>1. Replace(list, entry) = new
    BY <1>2 DEF Replace
  <2>2. DOMAIN list = 1 .. Len(list) /\ DOMAIN new = 1 .. Len(list) + 1 /\ Len(list) \in Nat
    BY DEF Lists
  <2>3. new[Len(list) + 1] = entry /\ \A i \in 1 .. Len(list) : new[i] = list[i]
    BY DEF Lists
  <2> HIDE DEF new
  <2>4. Distinct(list) => Distinct(new)
    BY <1>2, <2>2, <2>3 DEF Distinct
  <2>5. \A i \in DOMAIN new : new[i] = entry \/ \E j \in DOMAIN list : new[i] = list[j]
    BY <2>2, <2>3
  <2>6. \A i \in DOMAIN list : i \in DOMAIN new /\ new[i] = list[i]
    BY <2>2, <2>3
  <2>7. Len(list) + 1 \in DOMAIN new
    BY <2>2
  <2> QED BY <2>1, <2>3, <2>4, <2>5, <2>6, <2>7
<1> QED BY <1>1, <1>2

\* While no two Saves overlap, a rename alone changes what the store holds, by one entry.
LEMMA OneEntryAtATime ==
  ASSUME TypeOK, SaverInv, [Next]_vars, ~overlapped'
  PROVE  \/ Loaded' = Loaded /\ acked' = acked /\ given \subseteq given'
         \/ \E entry \in given :
              /\ Loaded' = Replace(Loaded, entry)
              /\ acked' = acked \cup {entry}
              /\ given' = given
<1> USE CredStoreAssumption
<1>0. ~overlapped
  BY DEF Next, vars, Begin, Load, Open, Write, Rename, Dies, FindByRPID
<1>1. ASSUME file'["creds"] = file["creds"], acked' = acked, given \subseteq given'
      PROVE  Loaded' = Loaded /\ acked' = acked /\ given \subseteq given'
  BY <1>1 DEF Loaded
<1>2. ASSUME NEW p \in Procs, \E e \in Entries : Begin(p, e) \/ FindByRPID(p, e.rp)
      PROVE  Loaded' = Loaded /\ acked' = acked /\ given \subseteq given'
  BY <1>1, <1>2 DEF Begin, FindByRPID
<1>3. ASSUME NEW p \in Procs, Load(p) \/ Open(p)
      PROVE  Loaded' = Loaded /\ acked' = acked /\ given \subseteq given'
  BY <1>1, <1>3 DEF Load, Open, TypeOK
<1>4. ASSUME NEW p \in Procs, Write(p) \/ Dies(p)
      PROVE  Loaded' = Loaded /\ acked' = acked /\ given \subseteq given'
  <2>1. file'["creds"] = file["creds"]
    BY <1>0, <1>4 DEF SaverInv, Write, Dies, WriteTo, TypeOK
  <2> QED BY <1>1, <1>4, <2>1 DEF Write, Dies
<1>5. ASSUME NEW p \in Procs, Rename(p)
      PROVE  \/ Loaded' = Loaded /\ acked' = acked /\ given \subseteq given'
             \/ \E entry \in given :
                  /\ Loaded' = Replace(Loaded, entry)
                  /\ acked' = acked \cup {entry}
                  /\ given' = given
  <2>1. CASE UNCHANGED <<file, acked>>
    BY <1>1, <1>5, <2>1 DEF Rename
  <2>2. CASE /\ file' = [file EXCEPT !["creds"] = file["tmp"], !["tmp"] = Absent]
             /\ acked' = acked \cup {procs[p].entry}
    <3>1. /\ procs[p] \in ProcType /\ procs[p].entry \in given
          /\ file["tmp"] = procs[p].creds
          /\ procs[p].creds = Replace(Loaded, procs[p].entry)
      BY <1>0, <1>5 DEF SaverInv, TypeOK, Rename
    <3>2. file'["creds"] = procs[p].creds
      BY <2>2, <3>1 DEF TypeOK
    <3>3. Loaded' = procs[p].creds
      BY <3>1, <3>2, ListsAreReadable DEF Loaded, ProcType
    <3> QED BY <1>5, <2>2, <3>1, <3>3 DEF Rename
  <2> QED BY <1>5, <2>1, <2>2 DEF Rename
<1>6. CASE UNCHANGED vars
  BY <1>1, <1>6 DEF vars
<1> QED BY <1>2, <1>3, <1>4, <1>5, <1>6 DEF Next

\* What Save has acknowledged stays in the store until its CredID is saved again, whatever
\* fails and whenever the process dies, unless two Saves have overlapped.
THEOREM AckedSurvivesAlways == Spec => []AckedSurvives
<1>1. Init => AckedSurvives
  BY DEF Init, AckedSurvives
<1>2. ASSUME TypeOK, SaverInv, AckedSurvives, [Next]_vars
      PROVE  AckedSurvives'
  <2> SUFFICES ASSUME ~overlapped', NEW e \in acked'
               PROVE  \/ \E i \in DOMAIN Loaded' : Loaded'[i] = e
                      \/ \E other \in given' \ {e} : other.cred = e.cred
    BY DEF AckedSurvives
  <2>1. ~overlapped
    BY <1>2 DEF Next, vars, Begin, Load, Open, Write, Rename, Dies, FindByRPID
  <2>2. Loaded \in Lists
    BY <1>2, <2>1, LoadedType DEF SaverInv, TypeOK
  <2>3. CASE Loaded' = Loaded /\ acked' = acked /\ given \subseteq given'
    BY <1>2, <2>1, <2>3 DEF AckedSurvives
  <2>4. ASSUME NEW entry \in given, Loaded' = Replace(Loaded, entry),
               acked' = acked \cup {entry}, given' = given
        PROVE  \/ \E i \in DOMAIN Loaded' : Loaded'[i] = e
               \/ \E other \in given' \ {e} : other.cred = e.cred
    <3>1. entry \in Entries
      BY <1>2 DEF TypeOK
    <3>2. CASE e = entry
      BY <2>2, <2>4, <3>1, <3>2, ReplaceElements
    <3>3. CASE e # entry
      <4>1. \/ \E i \in DOMAIN Loaded : Loaded[i] = e
            \/ \E other \in given \ {e} : other.cred = e.cred
        BY <1>2, <2>1, <2>4, <3>3 DEF AckedSurvives
      <4>2. CASE \E other \in given \ {e} : other.cred = e.cred
        BY <2>4, <4>2
      <4>3. ASSUME NEW i \in DOMAIN Loaded, Loaded[i] = e, e.cred # entry.cred
            PROVE  \E j \in DOMAIN Loaded' : Loaded'[j] = e
        BY <2>2, <2>4, <3>1, <4>3, ReplaceElements
      <4>4. CASE e.cred = entry.cred
        BY <2>4, <3>3, <4>4
      <4> QED BY <4>1, <4>2, <4>3, <4>4
    <3> QED BY <3>2, <3>3
  <2> QED BY <1>2, <2>3, <2>4, OneEntryAtATime
<1> QED BY <1>1, <1>2, TypeCorrect, SaverAlone, PTL DEF Spec

-----------------------------------------------------------------------------
\* The list holds elements of saved only, and no CredID twice.
Honest(list, saved) == (\A i \in DOMAIN list : list[i] \in saved) /\ Distinct(list)

\* Both files and what each process is about to write are honest.
HonestInv ==
  /\ \A name \in {"creds", "tmp"} : file[name] \in Lists => Honest(file[name], given)
  /\ \A p \in Procs : Honest(procs[p].creds, given)

\* At first no list holds anything.
LEMMA HonestInit == Init => HonestInv
<1> SUFFICES ASSUME Init PROVE HonestInv
  OBVIOUS
<1>1. \A name \in {"creds", "tmp"} : file[name] \notin Lists
  BY CredStoreAssumption DEF Init, Lists
<1>2. \A p \in Procs : procs[p].creds = <<>>
  BY DEF Init, IdleProc
<1> QED BY <1>1, <1>2 DEF HonestInv, Honest, Distinct

\* However Saves overlap, a step writes honest lists only.
LEMMA HonestStep ==
  ASSUME TypeOK, HonestInv, [Next]_vars
  PROVE  HonestInv'
<1> USE CredStoreAssumption
<1>1. given \subseteq given'
  BY DEF Next, vars, Begin, Load, Open, Write, Rename, Dies, FindByRPID
<1>2. \A list : Honest(list, given) => Honest(list, given')
  BY <1>1 DEF Honest
<1>3. Honest(<<>>, given)
  BY DEF Honest, Distinct
<1>4. ASSUME \A name \in {"creds", "tmp"} :
               \/ file'[name] \in {file["creds"], file["tmp"], Absent, Empty, Torn}
               \/ \E p \in Procs : file'[name] = procs[p].creds,
             \A p \in Procs : Honest(procs'[p].creds, given)
      PROVE  HonestInv'
  <2>1. \A p \in Procs : Honest(procs'[p].creds, given')
    BY <1>2, <1>4
  <2>2. \A name \in {"creds", "tmp"} : file'[name] \in Lists => Honest(file'[name], given)
    BY <1>4 DEF HonestInv, Lists
  <2>3. \A name \in {"creds", "tmp"} : file'[name] \in Lists => Honest(file'[name], given')
    BY <1>2, <2>2
  <2> QED BY <2>1, <2>3 DEF HonestInv, Lists
<1>5. ASSUME NEW p \in Procs, procs' = [procs EXCEPT ![p] = procs'[p]],
             procs'[p].creds = <<>> \/ procs'[p].creds = procs[p].creds
      PROVE  \A q \in Procs : Honest(procs'[q].creds, given)
  BY <1>3, <1>5 DEF HonestInv, TypeOK
<1>6. ASSUME NEW p \in Procs, NEW result, Returns(p, result)
      PROVE  \A q \in Procs : Honest(procs'[q].creds, given)
  <2>1. procs'[p].creds = <<>> /\ procs' = [procs EXCEPT ![p] = procs'[p]]
    BY <1>6 DEF Returns, TypeOK, IdleProc
  <2> QED BY <1>5, <2>1
<1>7. ASSUME NEW p \in Procs, NEW e \in Entries, Begin(p, e) \/ FindByRPID(p, e.rp)
      PROVE  HonestInv'
  <2>1. file' = file
    BY <1>7 DEF Begin, FindByRPID
  <2>2. CASE Begin(p, e)
    <3>1. procs'[p].creds = <<>> /\ procs' = [procs EXCEPT ![p] = procs'[p]]
      BY <2>2 DEF Begin, TypeOK, IdleProc
    <3> QED BY <1>4, <1>5, <2>1, <3>1
  <2>3. CASE FindByRPID(p, e.rp)
    BY <1>4, <1>6, <2>1, <2>3 DEF FindByRPID
  <2> QED BY <1>7, <2>2, <2>3
<1>8. ASSUME NEW p \in Procs, Load(p)
      PROVE  HonestInv'
  <2>1. file' = file
    BY <1>8 DEF Load
  <2>2. CASE Returns(p, "err")
    BY <1>4, <1>6, <2>1, <2>2
  <2>3. CASE /\ Readable
             /\ procs' = [procs EXCEPT ![p].creds = Replace(Loaded, procs[p].entry),
                                       ![p].at = "open"]
    <3>1. procs[p] \in ProcType /\ procs[p].entry \in given /\ procs[p].entry \in Entries
      BY <1>8 DEF TypeOK, Load
    <3>2. Loaded \in Lists
      BY <2>3, LoadedType DEF TypeOK
    <3>3. Honest(Loaded, given)
      BY <1>3, <3>2 DEF HonestInv, Loaded
    <3>4. Honest(Replace(Loaded, procs[p].entry), given)
      BY <3>1, <3>2, <3>3, ReplaceElements DEF Honest
    <3>5. procs'[p] = [procs[p] EXCEPT !.creds = Replace(Loaded, procs[p].entry), !.at = "open"]
      BY <2>3 DEF TypeOK
    <3>6. procs'[p].creds = Replace(Loaded, procs[p].entry)
      BY <3>1, <3>5 DEF ProcType
    <3>7. \A q \in Procs \ {p} : procs'[q] = procs[q]
      BY <2>3 DEF TypeOK
    <3>8. \A q \in Procs : Honest(procs'[q].creds, given)
      BY <3>4, <3>6, <3>7 DEF HonestInv
    <3> QED BY <1>4, <2>1, <3>8
  <2> QED BY <1>8, <2>2, <2>3 DEF Load
<1>9. ASSUME NEW p \in Procs, Open(p)
      PROVE  HonestInv'
  <2>1. \A name \in {"creds", "tmp"} : file'[name] \in {file[name], Empty}
    BY <1>9 DEF Open, TypeOK
  <2>2. CASE Returns(p, "err")
    BY <1>4, <1>6, <2>1, <2>2
  <2>3. CASE procs' = [procs EXCEPT ![p].on = "tmp", ![p].at = "write"]
    <3>1. procs'[p] = [procs[p] EXCEPT !.on = "tmp", !.at = "write"]
      BY <2>3 DEF TypeOK
    <3>2. procs' = [procs EXCEPT ![p] = procs'[p]] /\ procs[p] \in ProcType
      BY <2>3 DEF TypeOK
    <3>3. procs'[p].creds = procs[p].creds
      BY <3>1, <3>2 DEF ProcType
    <3> QED BY <1>4, <1>5, <2>1, <3>2, <3>3
  <2> QED BY <1>9, <2>2, <2>3 DEF Open
<1>10. ASSUME NEW p \in Procs, Write(p)
       PROVE  HonestInv'
  <2>1. procs[p] \in ProcType /\ procs[p].on \in {"tmp", "creds", "gone"}
    BY <1>10 DEF TypeOK, Write, ProcType
  <2>2. CASE WriteTo(procs[p].on, {Present(procs[p].on), Torn}) /\ Returns(p, "err")
    <3>1. \A name \in {"creds", "tmp"} : file'[name] \in {file[name], Torn}
      BY <2>1, <2>2 DEF WriteTo, Present, TypeOK
    <3> QED BY <1>4, <1>6, <2>2, <3>1
  <2>3. CASE /\ WriteTo(procs[p].on, Over(Present(procs[p].on), procs[p].creds))
             /\ procs' = [procs EXCEPT ![p].on = "none", ![p].at = "rename"]
    <3>1. \A name \in {"creds", "tmp"} : file'[name] \in {file[name], Torn, procs[p].creds}
      BY <2>1, <2>3 DEF WriteTo, Over, TypeOK
    <3>2. procs'[p] = [procs[p] EXCEPT !.on = "none", !.at = "rename"]
      BY <2>3 DEF TypeOK
    <3>3. procs' = [procs EXCEPT ![p] = procs'[p]]
      BY <2>3 DEF TypeOK
    <3>4. procs'[p].creds = procs[p].creds
      BY <2>1, <3>2 DEF ProcType
    <3> QED BY <1>4, <1>5, <3>1, <3>3, <3>4
  <2> QED BY <1>10, <2>2, <2>3 DEF Write
<1>11. ASSUME NEW p \in Procs, Rename(p)
       PROVE  HonestInv'
  <2>1. \A name \in {"creds", "tmp"} : file'[name] \in {file["creds"], file["tmp"], Absent}
    BY <1>11 DEF Rename, TypeOK
  <2>2. CASE Returns(p, "err")
    BY <1>4, <1>6, <2>1, <2>2
  <2>3. CASE procs' = [q \in Procs |->
                        IF q = p THEN IdleProc("ok")
                        ELSE [procs[q] EXCEPT !.on = Moved(procs[q].on)]]
    <3>1. procs'[p].creds = <<>>
      BY <2>3 DEF IdleProc
    <3>2. ASSUME NEW q \in Procs \ {p}
          PROVE  procs'[q].creds = procs[q].creds
      <4>1. procs'[q] = [procs[q] EXCEPT !.on = Moved(procs[q].on)] /\ procs[q] \in ProcType
        BY <2>3 DEF TypeOK
      <4> QED BY <4>1 DEF ProcType
    <3>3. \A q \in Procs : Honest(procs'[q].creds, given)
      BY <1>3, <3>1, <3>2 DEF HonestInv
    <3> QED BY <1>4, <2>1, <3>3
  <2> QED BY <1>11, <2>2, <2>3 DEF Rename
<1>12. ASSUME NEW p \in Procs, Dies(p)
       PROVE  HonestInv'
  <2>1. \A name \in {"creds", "tmp"} : file'[name] \in {file[name], Torn}
    BY <1>12 DEF Dies, WriteTo, TypeOK
  <2> QED BY <1>4, <1>6, <1>12, <2>1 DEF Dies
<1>13. CASE UNCHANGED vars
  BY <1>13 DEF vars, HonestInv
<1> QED BY <1>7, <1>8, <1>9, <1>10, <1>11, <1>12, <1>13 DEF Next

\* However Saves overlap and whatever fails, a store that can be read holds nothing that
\* was not saved, and no CredID twice.
THEOREM NothingInventedAlways == Spec => []NothingInvented
<1>1. TypeOK /\ HonestInv => NothingInvented
  <2> SUFFICES ASSUME TypeOK, HonestInv, Readable
               PROVE  Honest(Loaded, given)
    BY DEF NothingInvented, Honest, Distinct
  <2>1. CASE file["creds"] = Absent
    BY <2>1 DEF Loaded, Honest, Distinct
  <2>2. CASE file["creds"] # Absent
    BY <2>2, LoadedType DEF TypeOK, HonestInv, Loaded
  <2> QED BY <2>1, <2>2
<1>2. Spec => []HonestInv
  <2>1. TypeOK /\ HonestInv /\ [Next]_vars => HonestInv'
    BY HonestStep
  <2> QED BY <2>1, HonestInit, TypeCorrect, PTL DEF Spec
<1> QED BY <1>1, <1>2, TypeCorrect, PTL

-----------------------------------------------------------------------------
\* Each process as the atomic store sees it.
Calls == [p \in Procs |-> CallOf(procs[p])]

\* A return is the return of the call.
LEMMA CallReturns ==
  ASSUME NEW p \in Procs, NEW result, TypeOK, Returns(p, result)
  PROVE  Calls' = [Calls EXCEPT ![p] = Store!IdleCall(result)]
BY DEF Calls, TypeOK, Returns, CallOf, IdleProc, Store!IdleCall, NoEntry, Store!NoEntry

\* A step inside Save does not show.
LEMMA CallGoesOn ==
  ASSUME NEW p \in Procs, TypeOK, Busy(p), procs' = [procs EXCEPT ![p] = procs'[p]],
         procs'[p].at # "idle", procs'[p].entry = procs[p].entry,
         procs'[p].result = procs[p].result
  PROVE  Calls' = Calls
BY DEF Calls, TypeOK, CallOf, Busy

\* A step of the store is a step of the atomic one.
LEMMA StoreStep ==
  ASSUME TypeOK, SaverInv, [Next]_vars
  PROVE  [Store!StoreNext]_(Store!storeVars)
<1> USE CredStoreAssumption
<1> SUFFICES ASSUME ~overlapped'
             PROVE  [Store!StoreNext]_(Store!storeVars)
  BY DEF Store!StoreNext
<1>0. ~overlapped
  BY DEF Next, vars, Begin, Load, Open, Write, Rename, Dies, FindByRPID
<1>1. ASSUME NEW p \in Procs, NEW result \in {"err", "none"}, Busy(p), Returns(p, result),
             Loaded' = Loaded, found' = found, overlapped' = overlapped
      PROVE  Store!Fail(p, result)
  BY <1>1, CallReturns DEF Store!Fail, Calls, Busy, CallOf
<1>2. ASSUME NEW p \in Procs, Busy(p), procs' = [procs EXCEPT ![p] = procs'[p]],
             procs'[p].at # "idle", procs'[p].entry = procs[p].entry,
             procs'[p].result = procs[p].result,
             Loaded' = Loaded, found' = found, overlapped' = overlapped
      PROVE  UNCHANGED Store!storeVars
  BY <1>2, CallGoesOn DEF Store!storeVars, Calls
<1>3. ASSUME NEW p \in Procs, NEW e \in Entries, Begin(p, e)
      PROVE  Store!Call(p, e)
  <2>1. procs'[p].at = "load" /\ procs'[p].entry = e /\ procs'[p].result = "none"
    BY <1>3 DEF Begin, TypeOK, IdleProc
  <2>2. Calls' = [Calls EXCEPT ![p] = [at |-> "saving", entry |-> e, result |-> "none"]]
    BY <1>3, <2>1 DEF Begin, Calls, CallOf, TypeOK
  <2>3. Calls[p].at = "idle" /\ \A q \in Procs : Busy(q) = (Calls[q].at = "saving")
    BY <1>3 DEF Begin, Calls, CallOf, Busy
  <2>4. overlapped' = (overlapped \/ \E q \in Procs \ {p} : Calls[q].at = "saving")
    BY <1>3, <2>3 DEF Begin
  <2>5. Loaded' = Loaded /\ found' = found
    BY <1>3 DEF Begin, Loaded
  <2> QED BY <2>2, <2>3, <2>4, <2>5 DEF Store!Call, Calls
<1>4. ASSUME NEW p \in Procs, NEW e \in Entries, FindByRPID(p, e.rp)
      PROVE  Store!Lookup(p, e.rp)
  <2>1. Calls[p].at = "idle" /\ Loaded' = Loaded
    BY <1>4 DEF FindByRPID, Calls, CallOf, Busy, Loaded
  <2>2. CASE Returns(p, "err") /\ UNCHANGED found
    BY <1>4, <2>1, <2>2, CallReturns DEF FindByRPID, Store!Lookup, Calls
  <2>3. CASE /\ Returns(p, "ok")
             /\ found' = [found EXCEPT ![p] = OfRP(Loaded, e.rp)]
    BY <1>4, <2>1, <2>3, CallReturns DEF FindByRPID, Store!Lookup, Calls, OfRP, Store!OfRP
  <2> QED BY <1>4, <2>2, <2>3 DEF FindByRPID
<1>5. ASSUME NEW p \in Procs, Load(p)
      PROVE  Store!Fail(p, "err") \/ UNCHANGED Store!storeVars
  <2>1. Busy(p) /\ Loaded' = Loaded /\ procs[p] \in ProcType
    BY <1>5 DEF Load, Busy, Loaded, TypeOK
  <2>2. CASE Returns(p, "err")
    BY <1>1, <1>5, <2>1, <2>2 DEF Load
  <2>3. CASE procs' = [procs EXCEPT ![p].creds = Replace(Loaded, procs[p].entry), ![p].at = "open"]
    <3>1. procs'[p] = [procs[p] EXCEPT !.creds = Replace(Loaded, procs[p].entry), !.at = "open"]
      BY <2>3 DEF TypeOK
    <3>2. procs'[p].at = "open" /\ procs'[p].entry = procs[p].entry /\ procs'[p].result = procs[p].result
      BY <2>1, <3>1 DEF ProcType
    <3>3. procs' = [procs EXCEPT ![p] = procs'[p]]
      BY <2>3 DEF TypeOK
    <3> QED BY <1>2, <1>5, <2>1, <3>2, <3>3 DEF Load
  <2> QED BY <1>5, <2>2, <2>3 DEF Load
<1>6. ASSUME NEW p \in Procs, Open(p)
      PROVE  Store!Fail(p, "err") \/ UNCHANGED Store!storeVars
  <2>1. Busy(p) /\ Loaded' = Loaded /\ procs[p] \in ProcType
    BY <1>6 DEF Open, Busy, Loaded, TypeOK
  <2>2. CASE Returns(p, "err")
    BY <1>1, <1>6, <2>1, <2>2 DEF Open
  <2>3. CASE procs' = [procs EXCEPT ![p].on = "tmp", ![p].at = "write"]
    <3>1. procs'[p] = [procs[p] EXCEPT !.on = "tmp", !.at = "write"]
      BY <2>3 DEF TypeOK
    <3>2. procs'[p].at = "write" /\ procs'[p].entry = procs[p].entry /\ procs'[p].result = procs[p].result
      BY <2>1, <3>1 DEF ProcType
    <3>3. procs' = [procs EXCEPT ![p] = procs'[p]]
      BY <2>3 DEF TypeOK
    <3> QED BY <1>2, <1>6, <2>1, <3>2, <3>3 DEF Open
  <2> QED BY <1>6, <2>2, <2>3 DEF Open
<1>7. ASSUME NEW p \in Procs, Write(p)
      PROVE  Store!Fail(p, "err") \/ UNCHANGED Store!storeVars
  <2>1. Busy(p) /\ procs[p] \in ProcType
    BY <1>7 DEF Write, Busy, TypeOK
  <2>2. file'["creds"] = file["creds"]
    BY <1>0, <1>7 DEF SaverInv, Write, WriteTo, TypeOK
  <2>3. Loaded' = Loaded
    BY <2>2 DEF Loaded
  <2>4. CASE Returns(p, "err")
    BY <1>1, <1>7, <2>1, <2>3, <2>4 DEF Write
  <2>5. CASE procs' = [procs EXCEPT ![p].on = "none", ![p].at = "rename"]
    <3>1. procs'[p] = [procs[p] EXCEPT !.on = "none", !.at = "rename"]
      BY <2>5 DEF TypeOK
    <3>2. procs'[p].at = "rename" /\ procs'[p].entry = procs[p].entry /\ procs'[p].result = procs[p].result
      BY <2>1, <3>1 DEF ProcType
    <3>3. procs' = [procs EXCEPT ![p] = procs'[p]]
      BY <2>5 DEF TypeOK
    <3> QED BY <1>2, <1>7, <2>1, <2>3, <3>2, <3>3 DEF Write
  <2> QED BY <1>7, <2>4, <2>5 DEF Write
<1>8. ASSUME NEW p \in Procs, Rename(p)
      PROVE  Store!Fail(p, "err") \/ Store!Succeed(p)
  <2>1. /\ Busy(p) /\ procs[p] \in ProcType /\ file["tmp"] = procs[p].creds
        /\ procs[p].creds = Replace(Loaded, procs[p].entry)
    BY <1>0, <1>8 DEF SaverInv, Rename, Busy, TypeOK
  <2>2. CASE Returns(p, "err") /\ UNCHANGED <<file, acked>>
    <3>1. Loaded' = Loaded
      BY <2>2 DEF Loaded
    <3> QED BY <1>1, <1>8, <2>1, <2>2, <3>1 DEF Rename
  <2>3. CASE /\ file' = [file EXCEPT !["creds"] = file["tmp"], !["tmp"] = Absent]
             /\ procs' = [q \in Procs |->
                           IF q = p THEN IdleProc("ok")
                           ELSE [procs[q] EXCEPT !.on = Moved(procs[q].on)]]
    <3>1. file'["creds"] = procs[p].creds
      BY <2>1, <2>3 DEF TypeOK
    <3>2. Loaded' = procs[p].creds
      BY <2>1, <3>1, ListsAreReadable DEF Loaded, ProcType
    <3>3. Loaded' = Store!Saved(Loaded, Calls[p].entry)
      BY <2>1, <3>2 DEF Replace, Store!Saved, Calls, CallOf
    <3>4. ASSUME NEW q \in Procs \ {p}
          PROVE  CallOf(procs'[q]) = CallOf(procs[q])
      <4>1. procs'[q] = [procs[q] EXCEPT !.on = Moved(procs[q].on)] /\ procs[q] \in ProcType
        BY <2>3 DEF TypeOK
      <4> QED BY <4>1 DEF ProcType, CallOf
    <3>5. CallOf(procs'[p]) = Store!IdleCall("ok")
      BY <2>3 DEF CallOf, IdleProc, Store!IdleCall, NoEntry, Store!NoEntry
    <3>6. Calls' = [Calls EXCEPT ![p] = Store!IdleCall("ok")]
      BY <3>4, <3>5 DEF Calls
    <3>7. Calls[p].at = "saving"
      BY <2>1 DEF Calls, CallOf, Busy
    <3> QED BY <1>8, <3>3, <3>6, <3>7 DEF Rename, Store!Succeed, Calls
  <2> QED BY <1>8, <2>2, <2>3 DEF Rename
<1>9. ASSUME NEW p \in Procs, Dies(p)
      PROVE  Store!Fail(p, "none")
  <2>1. file'["creds"] = file["creds"]
    BY <1>0, <1>9 DEF SaverInv, Dies, WriteTo, TypeOK
  <2>2. Loaded' = Loaded
    BY <2>1 DEF Loaded
  <2> QED BY <1>1, <1>9, <2>2 DEF Dies
<1>10. CASE UNCHANGED vars
  <2>1. Loaded' = Loaded /\ Calls' = Calls
    BY <1>10 DEF vars, Loaded, Calls
  <2> QED BY <1>10, <2>1 DEF vars, Store!storeVars, Calls
<1> QED BY <1>3, <1>4, <1>5, <1>6, <1>7, <1>8, <1>9, <1>10 DEF Next, Store!StoreNext

\* The file, its temporary copy and the rename implement a store that is changed in one
\* step, unless two Saves have overlapped.
THEOREM Atomic == Spec => ImplementsAtomicStore
<1>1. Init => Store!StoreInit
  BY DEF Init, Store!StoreInit, Loaded, CallOf, IdleProc, Store!IdleCall, NoEntry, Store!NoEntry
<1>2. TypeOK /\ SaverInv /\ [Next]_vars => [Store!StoreNext]_(Store!storeVars)
  BY StoreStep
<1> QED BY <1>1, <1>2, TypeCorrect, SaverAlone, PTL DEF Spec, ImplementsAtomicStore, Store!StoreSpec
=============================================================================
