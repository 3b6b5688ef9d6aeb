-------------------------- MODULE PolicySerialProofs --------------------------
(***************************************************************************)
(* What PolicyService does for clients that wait for every answer, for any *)
(* number of requests, ids and retries: as long as no call fails for a     *)
(* reason from outside, no request does, the share is left clean, nothing  *)
(* is both current and historical, and what was published or saved stays.  *)
(*                                                                         *)
(* The argument walks through a request.  It is the only one in flight, so *)
(* what it has read is still there when it writes; where it is tells what  *)
(* the directory it works on holds, and a publish holds in memory exactly  *)
(* what it has taken off the share.                                        *)
(***************************************************************************)
EXTENDS PolicyServiceProofs

\* Calls between which a directory is neither absent nor whole.
Busy == {"check", "unlink", "open", "bytes", "rmFile", "rmDir"}

Tidy(d) == store[d] = NoDir \/ Readable(d)

\* What a call finds in the directory it is made for.
Working(r) ==
  /\ pc[r] = "check" => store[target[r]] = NoFile \/ Readable(target[r])
  /\ pc[r] \in {"unlink", "rmFile"} => Readable(target[r])
  /\ pc[r] \in {"open", "rmDir"} => store[target[r]] = NoFile
  /\ pc[r] = "bytes" => store[target[r]] = Blank /\ handle[r] = target[r]
  /\ pc[r] \in ReadLabels => Readable(ReadFrom(r))

\* What a lookup by id has ruled out so far.
Looking(r) ==
  op[r] \in ById =>
    /\ pc[r] \in {"findCurrent", "readCurrent", "findDraft", "readDraft"} =>
         store[arg[r]] = NoDir
    /\ pc[r] \in {"findDraft", "readDraft"} /\ op[r] # "Delete" =>
         ~HoldsPolicy("current", arg[r])

OldLabels == {"findOld", "readOld"}
Promoting(r) == op[r] = "Publish" /\ pc[r] \in OldLabels \cup WriteLabels \cup RemoveLabels
ToCurrent(r) == pc[r] \in WriteLabels /\ target[r] = "current"
Archiving(r) == pc[r] \in WriteLabels /\ target[r] # "current"

\* How far a publish has come: the policy it has found is in its source until
\* it is current, and the policy it replaces is in the history or in memory.
Promoted(r) ==
  Promoting(r) =>
    /\ found[r].id = arg[r] /\ found[r].type \in {"Draft", "Historical"}
    /\ found[r].type = "Draft" => store[arg[r]] = NoDir
    /\ pc[r] \in OldLabels => ~HoldsPolicy("current", arg[r])
    /\ ToCurrent(r) => data[r] = AsCurrent(found[r])
    /\ pc[r] \in OldLabels \cup {"rmCheck", "rmFile"} \/ ToCurrent(r) =>
         store[Source(r)] = found[r]
    /\ pc[r] \in RemoveLabels => target[r] = Source(r)
    /\ pc[r] \in RemoveLabels \/ Archiving(r) => store["current"] = AsCurrent(found[r])
    /\ Archiving(r) => store[arg[r]] = NoDir /\ target[r] # arg[r]
    /\ current[r] # Null =>
         /\ current[r].id # arg[r]
         /\ ~Archiving(r) => store[current[r].id] = NoDir
         /\ Archiving(r) => data[r] = AsHistorical(current[r])

\* Only a publish that is removing its source leaves a policy in both places.
NoDouble ==
  \A i \in Ids : HoldsPolicy("current", i) =>
    \/ store[i] = NoDir
    \/ \E r \in Requests : op[r] = "Publish" /\ pc[r] \in RemoveLabels /\ target[r] = i

\* Where request r is, and nobody has failed.
InOrder(r) ==
  /\ pc[r] # "failed"
  /\ pc[r] \notin WriteLabels \cup RemoveLabels => current[r] = Null
  /\ Working(r) /\ Looking(r) /\ Promoted(r)

TidyUnlessBusy == \A d \in Dirs : Tidy(d) \/ \E r \in Requests : pc[r] \in Busy /\ target[r] = d

Orderly == TidyUnlessBusy /\ NoDouble /\ \A r \in Requests : InOrder(r)

\* The inductive invariant: all of this without errors from outside.
SerialInv == IInv /\ OneRequest /\ (faults = 0 => Orderly)

\* A step of r leaves the other requests as they are.
Still(r) ==
  \A q \in Requests \ {r} :
    /\ pc'[q] = pc[q] /\ op'[q] = op[q] /\ arg'[q] = arg[q] /\ found'[q] = found[q]
    /\ current'[q] = current[q] /\ target'[q] = target[q] /\ data'[q] = data[q]

-----------------------------------------------------------------------------
(* One request at a time. *)

\* What the type invariant says of request r.
LEMMA Typed ==
  ASSUME IInv, NEW r \in Requests
  PROVE  /\ store \in [Dirs -> Unreadable \cup Policies]
         /\ handle \in [Requests -> Dirs \cup {Closed, Orphan}]
         /\ LocalTypes /\ LocalOK(r)
         /\ pc[r] \in Labels /\ target[r] \in Dirs
         /\ found[r] \in Policies \cup {Null} /\ current[r] \in Policies \cup {Null}
         /\ data[r] \in Policies \cup {Null}
         /\ \A d \in Dirs : Readable(d) => store[d] \in Policies /\ Fits(store[d], d)
BY DEF IInv, TypeOK, FileStoreTypeOK, LocalsOK, LocalTypes, ContentMatchesPlace, Readable

\* The locals of a request are its own.
LEMMA LocalsAreItsOwn ==
  ASSUME IInv, NEW r \in Requests, Arrive(r) \/ Work(r)
  PROVE  Still(r)
<1> USE DEF Still
<1>1. LocalTypes
  BY DEF IInv, LocalsOK
<1>2. CASE Arrive(r)
  BY <1>1, <1>2 DEF LocalTypes, Arrive, GetDraft, GetCurrent, GetPolicyById, Publish, Delete,
                    SaveAsDraft, Begin, Goto
<1>3. ASSUME NEW o, NEW a, End(r, o, a) PROVE Still(r)
  BY <1>1, <1>3 DEF LocalTypes, End, Goto
<1>4. ASSUME NEW l, JustGoto(r, l) PROVE Still(r)
  BY <1>1, <1>4 DEF LocalTypes, JustGoto, Goto
<1>5. ASSUME NEW d, NEW p, StartWrite(r, d, p) PROVE Still(r)
  BY <1>1, <1>5 DEF LocalTypes, StartWrite, Goto
<1>6. ASSUME NEW d, StartRemove(r, d) PROVE Still(r)
  BY <1>1, <1>6 DEF LocalTypes, StartRemove, Goto
<1>7. ASSUME NEW p, Return(r, p) PROVE Still(r)
  BY <1>1, <1>3, <1>7 DEF LocalTypes, Return, Goto
<1>8. CASE Download(r)
  <2>1. CASE ReadOld(r)
    BY <1>1, <2>1 DEF LocalTypes, ReadOld, Goto
  <2> QED
    BY <1>3, <1>4, <1>5, <1>6, <1>7, <1>8, <2>1
    DEF Download, FindHistorical, NotHistorical, ReadHistorical, FindCurrent, NoCurrent,
        ReadCurrent, FindDraft, NoDraft, ReadDraft, FindBase, NoBase, ReadBase, FindOld,
        NoOld, Find
<1>9. CASE Change(r)
  <2>1. CASE RemoveFile(r)
    BY <1>1, <2>1 DEF LocalTypes, RemoveFile, locals
  <2> QED
    BY <1>3, <1>4, <1>5, <1>6, <1>9, <2>1
    DEF Change, MakeDirectory, CheckFile, UnlinkOld, OpenNew, WriteData, AfterWrite, Probe,
        CheckDirectory, AfterRemove, RemoveEmptied
<1>10. CASE Retry(r)
  BY <1>1, <1>10 DEF LocalTypes, Retry
<1>11. CASE GiveUp(r)
  BY <1>3, <1>11 DEF GiveUp
<1> QED
  BY <1>2, <1>8, <1>9, <1>10, <1>11 DEF Work

\* A request that works is the only one in flight.
LEMMA WorkerIsAlone ==
  ASSUME IInv, OneRequest, OneRequest', NEW r \in Requests, Arrive(r) \/ Work(r)
  PROVE  \A q \in Requests \ {r} : ~InFlight(q)
<1>1. CASE Arrive(r)
  <2>1. InFlight(r)'
    BY <1>1, Typed DEF Arrive, GetDraft, GetCurrent, GetPolicyById, Publish, Delete, SaveAsDraft,
              Begin, Goto, InFlight, Ended, LocalTypes
  <2>2. Still(r)
    BY <1>1, LocalsAreItsOwn
  <2> QED
    BY <2>1, <2>2 DEF Still, OneRequest, InFlight
<1>2. CASE Work(r)
  <2>1. InFlight(r)
    <3> USE DEF InFlight, Ended, ReadLabels
    <3>1. CASE Download(r)
      BY <3>1 DEF Download, FindHistorical, NotHistorical, ReadHistorical, FindCurrent, NoCurrent,
        ReadCurrent, FindDraft, NoDraft, ReadDraft, FindBase, NoBase, ReadBase, FindOld,
        NoOld, ReadOld, Find, Misses, Reads
    <3>2. CASE Change(r)
      BY <3>2 DEF Change, MakeDirectory, CheckFile, UnlinkOld, OpenNew, WriteData, Probe,
        CheckDirectory, RemoveFile, RemoveEmptied
    <3>3. CASE Retry(r) \/ GiveUp(r)
      BY <3>3 DEF Retry, GiveUp, CallThrows, ParseThrows
    <3> QED
      BY <1>2, <3>1, <3>2, <3>3 DEF Work
  <2> QED
    BY <2>1 DEF OneRequest
<1> QED
  BY <1>1, <1>2

\* All the others are at rest.
AloneIs(r) == \A q \in Requests \ {r} : ~InFlight(q)

TidyBut(r) == \A d \in Dirs : Tidy(d) \/ (pc[r] \in Busy /\ target[r] = d)

NoDoubleBut(r) ==
  \A i \in Ids : HoldsPolicy("current", i) =>
    store[i] = NoDir \/ (op[r] = "Publish" /\ pc[r] \in RemoveLabels /\ target[r] = i)

\* What is not in order is so because of the request in flight.
LEMMA SeesAll ==
  ASSUME Orderly, NEW r \in Requests, AloneIs(r)
  PROVE  TidyBut(r) /\ NoDoubleBut(r) /\ InOrder(r)
<1>1. \A q \in Requests \ {r} : pc[q] \notin Busy /\ pc[q] \notin RemoveLabels
  BY DEF AloneIs, InFlight, Ended, Busy, RemoveLabels
<1>2. TidyBut(r)
  BY <1>1 DEF Orderly, TidyUnlessBusy, TidyBut
<1>3. NoDoubleBut(r)
  BY <1>1 DEF Orderly, NoDouble, NoDoubleBut
<1> QED
  BY <1>2, <1>3 DEF Orderly

\* It is enough to look at the request that steps.
LEMMA StepOf ==
  ASSUME Orderly, NEW r \in Requests, AloneIs(r), Still(r),
         InOrder(r)', TidyBut(r)', NoDoubleBut(r)'
  PROVE  Orderly'
<1>1. TidyUnlessBusy'
  BY DEF TidyUnlessBusy, TidyBut
<1>2. NoDouble'
  BY DEF NoDouble, NoDoubleBut
<1>3. ASSUME NEW q \in Requests, q # r PROVE InOrder(q)'
  <2>1. pc'[q] \in {"idle", "done"} /\ current'[q] = Null
    BY <1>3 DEF AloneIs, InFlight, Ended, Still, Orderly, InOrder, WriteLabels, RemoveLabels
  <2>2. Working(q)' /\ Looking(q)'
    BY <2>1 DEF Working, Looking, ReadLabels
  <2>3. ~Promoting(q)'
    BY <2>1 DEF Promoting, OldLabels, WriteLabels, RemoveLabels
  <2> QED
    BY <2>1, <2>2, <2>3 DEF InOrder, Promoted
<1> QED
  BY <1>1, <1>2, <1>3 DEF Orderly

\* A step outside of writing and removing that changes nothing on the share.
LEMMA LookingStep ==
  ASSUME Orderly, NEW r \in Requests, AloneIs(r), Still(r), UNCHANGED store,
         pc[r] \notin Busy \cup RemoveLabels, InOrder(r)'
  PROVE  Orderly'
<1>1. TidyBut(r) /\ NoDoubleBut(r)
  BY SeesAll
<1>2. TidyBut(r)' /\ NoDoubleBut(r)'
  BY <1>1 DEF TidyBut, NoDoubleBut, Tidy, Readable, HoldsPolicy
<1> QED
  BY <1>2, StepOf

-----------------------------------------------------------------------------
(* Arriving, looking and reading. *)

\* A request arrives at a share in order.
LEMMA ArriveInOrder ==
  ASSUME IInv, Orderly, NEW r \in Requests, AloneIs(r), Still(r), Arrive(r)
  PROVE  Orderly'
<1> USE DEF ReadLabels, WriteLabels, RemoveLabels, OldLabels, ById
<1>1. LocalTypes /\ InOrder(r) /\ pc[r] = "idle" /\ UNCHANGED <<store, current>>
  BY Typed DEF Orderly, Arrive, GetDraft, GetCurrent, GetPolicyById, Publish, Delete,
               SaveAsDraft, Begin
<1>2. /\ pc'[r] \in {"findDraft", "findCurrent", "findHistorical", "probe", "mkdir"}
      /\ op'[r] \in ById => pc'[r] \in {"findHistorical", "probe"}
  BY <1>1 DEF LocalTypes, Arrive, GetDraft, GetCurrent, GetPolicyById, Publish, Delete,
              SaveAsDraft, Begin, Goto
<1>3. Working(r)' /\ Looking(r)'
  BY <1>2 DEF Working, Looking
<1>4. ~Promoting(r)'
  BY <1>2 DEF Promoting
<1>5. InOrder(r)'
  BY <1>1, <1>2, <1>3, <1>4 DEF InOrder, Promoted
<1> QED
  BY <1>1, <1>5, LookingStep DEF Busy

\* A request is answered.
LEMMA EndInOrder ==
  ASSUME IInv, NEW r \in Requests, NEW a, End(r, "done", a)
  PROVE  InOrder(r)'
<1>1. LocalTypes
  BY Typed
<1>2. pc'[r] = "done" /\ current'[r] = Null
  BY <1>1 DEF LocalTypes, End, Goto
<1>3. Working(r)' /\ Looking(r)'
  BY <1>2 DEF Working, Looking, ReadLabels
<1>4. ~Promoting(r)'
  BY <1>2 DEF Promoting, OldLabels, WriteLabels, RemoveLabels
<1> QED
  BY <1>2, <1>3, <1>4 DEF InOrder, Promoted

\* A lookup by id has found p, in a directory that holds it.
LEMMA ReturnInOrder ==
  ASSUME IInv, NEW r \in Requests, NEW d \in Dirs, Readable(d), Return(r, store[d]),
         UNCHANGED store, current[r] = Null,
         op[r] = "Publish" =>
           /\ store[d].id = arg[r]
           /\ d \in Ids => d = arg[r] /\ ~HoldsPolicy("current", arg[r])
           /\ d = "draft" => store[arg[r]] = NoDir /\ ~HoldsPolicy("current", arg[r])
  PROVE  InOrder(r)'
<1>1. LocalTypes /\ store[d] \in Policies /\ Fits(store[d], d)
  BY Typed
<1>2. CASE op[r] = "Publish" /\ store[d] # Null /\ store[d].type # "Current"
  <2>1. d \in {"draft"} \cup Ids
    BY <1>1, <1>2 DEF Fits, Dirs
  <2>2. /\ pc'[r] = "findOld" /\ found'[r] = store[d]
        /\ UNCHANGED <<op, arg, current, target, data>>
    BY <1>1, <1>2 DEF LocalTypes, Return, Goto
  <2>3. Working(r)' /\ Looking(r)'
    BY <2>2 DEF Working, Looking, ReadLabels
  <2>4. /\ found'[r].id = arg'[r] /\ found'[r].type \in {"Draft", "Historical"}
        /\ found'[r].type = "Draft" => store'[arg'[r]] = NoDir
        /\ ~HoldsPolicy("current", arg[r])'
    BY <1>1, <1>2, <2>1, <2>2, NamesAreDistinct DEF Fits, HoldsPolicy, Readable
  <2>5. store'[Source(r)'] = found'[r]
    <3>1. CASE d \in Ids
      BY <1>1, <1>2, <2>2, <3>1 DEF Source, Fits
    <3>2. CASE d = "draft"
      BY <1>1, <1>2, <2>2, <3>2 DEF Source, Fits
    <3> QED
      BY <2>1, <3>1, <3>2
  <2>6. Promoted(r)'
    BY <2>2, <2>4, <2>5 DEF Promoted, ToCurrent, Archiving, WriteLabels, RemoveLabels
  <2> QED
    BY <2>2, <2>3, <2>6 DEF InOrder
<1>3. CASE ~(op[r] = "Publish" /\ store[d] # Null /\ store[d].type # "Current")
  BY <1>3, EndInOrder DEF Return
<1> QED
  BY <1>2, <1>3

\* Whatever a step that only moves the program counter leads to, if the share
\* is right for it.
LEMMA LookOn ==
  ASSUME IInv, NEW r \in Requests, InOrder(r), NEW l \in ReadLabels \cup FindLabels,
         JustGoto(r, l), UNCHANGED <<store, handle>>, current[r] = Null,
         l \in ReadLabels => Readable(ReadFrom(r))',
         l \in OldLabels => pc[r] \in OldLabels,
         op[r] \in ById /\ l \in {"findCurrent", "readCurrent", "findDraft", "readDraft"} =>
           store[arg[r]] = NoDir,
         op[r] \in {"GetPolicyById", "Publish"} /\ l \in {"findDraft", "readDraft"} =>
           ~HoldsPolicy("current", arg[r])
  PROVE  InOrder(r)'
<1> USE DEF ReadLabels, FindLabels, WriteLabels, RemoveLabels, OldLabels
<1>1. pc'[r] = l /\ UNCHANGED <<store, handle, op, arg, found, current, target, data>>
  BY Typed DEF JustGoto, Goto, LocalTypes
<1>2. Working(r)'
  BY <1>1 DEF Working
<1>3. Looking(r)'
  BY <1>1 DEF Looking, ById, HoldsPolicy, Readable
<1>4. Promoted(r)'
  <2>1. CASE l \in OldLabels
    <3>1. Promoting(r)' => Promoting(r) /\ pc[r] \in OldLabels
      BY <1>1, <2>1 DEF Promoting
    <3> QED
      BY <1>1, <2>1, <3>1
      DEF Promoted, InOrder, Promoting, ToCurrent, Archiving, Source, HoldsPolicy, Readable
  <2>2. CASE l \notin OldLabels
    BY <1>1, <2>2 DEF Promoted, Promoting
  <2> QED
    BY <2>1, <2>2
<1> QED
  BY <1>1, <1>2, <1>3, <1>4 DEF InOrder

\* Looking for policies and reading them keeps the order.
LEMMA DownloadInOrder ==
  ASSUME IInv, Orderly, NEW r \in Requests, AloneIs(r), Still(r), Download(r)
  PROVE  Orderly'
<1> USE DEF ReadLabels, FindLabels, WriteLabels, RemoveLabels, OldLabels
<1>1. /\ LocalTypes /\ LocalOK(r) /\ InOrder(r) /\ TidyBut(r) /\ NoDoubleBut(r)
      /\ Working(r) /\ Looking(r) /\ Promoted(r)
  BY Typed, SeesAll DEF InOrder
<1>2. pc[r] \in FindLabels \cup ReadLabels /\ UNCHANGED <<store, handle>>
  BY DEF Download, FindHistorical, NotHistorical, ReadHistorical, FindCurrent, NoCurrent,
         ReadCurrent, FindDraft, NoDraft, ReadDraft, FindBase, NoBase, ReadBase, FindOld,
         NoOld, ReadOld, Find, Misses, Reads
<1>3. current[r] = Null /\ pc[r] \notin Busy \cup RemoveLabels
  BY <1>1, <1>2 DEF InOrder, Busy
<1>4. /\ \A d \in Dirs : FileExists(d) => Readable(d)
      /\ \A d \in Dirs : ~FileExists(d) => store[d] = NoDir
      /\ \A d \in Dirs : Readable(d) => store[d] \in Policies
  BY <1>1, <1>3, NamesAreDistinct DEF TidyBut, Tidy, FileExists, Readable, Unreadable
<1>5. /\ "current" \in Dirs /\ "draft" \in Dirs
      /\ op[r] \in ById => arg[r] \in Ids /\ arg[r] \in Dirs
  BY <1>1 DEF LocalOK, Dirs
<1>6. SUFFICES InOrder(r)'
  BY <1>2, <1>3, LookingStep
<1>7. CASE FindHistorical(r) \/ FindCurrent(r) \/ FindDraft(r) \/ FindBase(r) \/ FindOld(r)
  <2>1. PICK l \in ReadLabels :
          /\ pc[r] = (CASE l = "readHistorical" -> "findHistorical"
                        [] l = "readCurrent" -> "findCurrent"
                        [] l = "readDraft" -> "findDraft"
                        [] l = "readBase" -> "findBase"
                        [] OTHER -> "findOld")
          /\ JustGoto(r, l)
          /\ FileExists(CASE l = "readHistorical" -> arg[r]
                          [] l = "readDraft" -> "draft"
                          [] OTHER -> "current")
    BY <1>7 DEF FindHistorical, FindCurrent, FindDraft, FindBase, FindOld, Find
  <2>2. pc'[r] = l /\ UNCHANGED <<op, arg>>
    BY <1>1, <2>1 DEF JustGoto, Goto, LocalTypes
  <2>3. Readable(ReadFrom(r))'
    BY <1>1, <1>2, <1>4, <1>5, <2>1, <2>2 DEF ReadFrom, Readable, LocalOK, ById
  <2> QED
    BY <1>1, <1>2, <1>3, <2>1, <2>3, LookOn DEF Looking, ById
<1>8. CASE NotHistorical(r)
  <2>1. op[r] \in ById /\ store[arg[r]] = NoDir
    BY <1>1, <1>4, <1>5, <1>8 DEF NotHistorical, Misses, LocalOK, ById
  <2> QED
    BY <1>1, <1>2, <1>3, <1>8, <2>1, LookOn DEF NotHistorical
<1>9. CASE NoCurrent(r)
  <2>1. ~HoldsPolicy("current", arg[r])
    BY <1>4, <1>5, <1>9, NamesAreDistinct
    DEF NoCurrent, Misses, HoldsPolicy, Readable, Unreadable
  <2>2. op[r] \in ById => store[arg[r]] = NoDir
    BY <1>1, <1>9 DEF NoCurrent, Misses, Looking
  <2> QED
    BY <1>1, <1>2, <1>3, <1>9, <2>1, <2>2, LookOn, EndInOrder DEF NoCurrent
<1>10. CASE NoDraft(r)
  BY <1>1, <1>2, <1>3, <1>10, LookOn DEF NoDraft
<1>11. CASE NoBase(r) \/ ReadBase(r)
  BY <1>11, EndInOrder DEF NoBase, ReadBase
<1>12. CASE ReadHistorical(r)
  <2>1. pc[r] = "readHistorical" /\ op[r] \in ById /\ Readable(arg[r]) /\ Return(r, store[arg[r]])
    BY <1>1, <1>12 DEF ReadHistorical, Reads, LocalOK, ById
  <2>2. store[arg[r]] \in Policies /\ store[arg[r]].id = arg[r] /\ store[arg[r]] # NoDir
    BY <1>5, <2>1, Typed, NamesAreDistinct DEF Fits, Unreadable
  <2>3. ~HoldsPolicy("current", arg[r])
    BY <1>1, <1>5, <2>1, <2>2 DEF NoDoubleBut
  <2> QED
    BY <1>2, <1>3, <1>5, <2>1, <2>2, <2>3, NamesAreDistinct, ReturnInOrder
<1>13. CASE ReadCurrent(r)
  <2>1. pc[r] = "readCurrent" /\ Readable("current")
    BY <1>13 DEF ReadCurrent, Reads
  <2>2. CASE op[r] # "GetCurrent" /\ Asked(r, "current") /\ Return(r, store["current"])
    BY <1>2, <1>3, <1>5, <2>1, <2>2, NamesAreDistinct, ReturnInOrder DEF Asked
  <2>3. CASE ~Asked(r, "current") /\ JustGoto(r, "findDraft")
    <3>1. op[r] \in ById => store[arg[r]] = NoDir
      BY <1>1, <2>1 DEF Looking
    <3> QED
      BY <1>1, <1>2, <1>3, <2>3, <3>1, LookOn DEF Asked, HoldsPolicy
  <2>4. CASE End(r, "done", store["current"])
    BY <2>4, EndInOrder
  <2> QED
    BY <1>13, <2>2, <2>3, <2>4 DEF ReadCurrent, Asked
<1>14. CASE ReadDraft(r)
  <2>1. pc[r] = "readDraft" /\ Readable("draft")
    BY <1>14 DEF ReadDraft, Reads
  <2>2. CASE op[r] = "Delete" /\ StartRemove(r, "draft")
    <3>1. pc'[r] = "rmCheck" /\ op'[r] = "Delete" /\ pc'[r] \notin Busy
      BY <1>1, <2>2 DEF StartRemove, Goto, LocalTypes, Busy
    <3> QED
      BY <3>1 DEF InOrder, Working, Looking, Promoted, Promoting
  <2>3. CASE op[r] \notin {"GetDraft", "Delete"} /\ Asked(r, "draft") /\ Return(r, store["draft"])
    <3>1. op[r] = "Publish" => store[arg[r]] = NoDir /\ ~HoldsPolicy("current", arg[r])
      BY <1>1, <2>1 DEF Looking, ById
    <3> QED
      BY <1>2, <1>3, <1>5, <2>1, <2>3, <3>1, NamesAreDistinct, ReturnInOrder DEF Asked
  <2>4. CASE \E a : End(r, "done", a)
    BY <2>4, EndInOrder
  <2> QED
    BY <1>14, <2>2, <2>3, <2>4 DEF ReadDraft, Asked
<1>15. CASE NoOld(r)
  <2>1. pc[r] = "findOld" /\ op[r] = "Publish" /\ Promoting(r)
    BY <1>1, <1>15 DEF NoOld, Misses, LocalOK, Promoting
  <2>2. /\ pc'[r] = "mkdir" /\ target'[r] = "current" /\ data'[r] = AsCurrent(found[r])
        /\ UNCHANGED <<op, arg, found, current>>
    BY <1>1, <1>15 DEF NoOld, StartWrite, Goto, LocalTypes
  <2>3. Promoted(r)'
    BY <1>1, <1>2, <1>3, <2>1, <2>2 DEF Promoted, Promoting, ToCurrent, Archiving, Source
  <2> QED
    BY <2>2, <2>3 DEF InOrder, Working, Looking
<1>16. CASE ReadOld(r)
  <2>1. pc[r] = "readOld" /\ op[r] = "Publish" /\ Promoting(r) /\ Readable("current")
    BY <1>1, <1>16 DEF ReadOld, Reads, LocalOK, Promoting
  <2>2. /\ pc'[r] = "mkdir" /\ target'[r] = "current" /\ data'[r] = AsCurrent(found[r])
        /\ current'[r] = store["current"] /\ UNCHANGED <<op, arg, found>>
    BY <1>1, <1>16 DEF ReadOld, Goto, LocalTypes
  <2>3. store["current"] \in Policies /\ store["current"].id \in Ids
    BY <1>4, <1>5, <2>1 DEF Policies
  <2>4. store["current"].id # arg[r] /\ store[store["current"].id] = NoDir
    BY <1>1, <2>1, <2>3 DEF Promoted, HoldsPolicy, NoDoubleBut
  <2>5. Promoted(r)'
    BY <1>1, <1>2, <2>1, <2>2, <2>4 DEF Promoted, Promoting, ToCurrent, Archiving, Source
  <2> QED
    BY <2>2, <2>5 DEF InOrder, Working, Looking
<1> QED
  BY <1>7, <1>8, <1>9, <1>10, <1>11, <1>12, <1>13, <1>14, <1>15, <1>16 DEF Download

-----------------------------------------------------------------------------
(* Writing and removing. *)

\* What a request that works on a directory knows.
LEMMA AtWork ==
  ASSUME IInv, Orderly, NEW r \in Requests, AloneIs(r)
  PROVE  /\ LocalTypes /\ LocalOK(r) /\ InOrder(r) /\ TidyBut(r) /\ NoDoubleBut(r)
         /\ Working(r) /\ Looking(r) /\ Promoted(r)
         /\ target[r] \in Dirs /\ store \in [Dirs -> Unreadable \cup Policies]
         /\ {"current", "draft"} \subseteq Dirs
         /\ op[r] = "Publish" => arg[r] \in Ids /\ arg[r] \in Dirs
         /\ Promoting(r) =>
              /\ found[r] \in Policies /\ AsCurrent(found[r]).id = arg[r]
              /\ AsCurrent(found[r]) \in Policies
              /\ Source(r) \in {"draft", arg[r]} /\ Source(r) # "current"
              /\ current[r] # Null => current[r] \in Policies /\ current[r].id \in Ids
<1>1. /\ LocalTypes /\ LocalOK(r) /\ InOrder(r) /\ TidyBut(r) /\ NoDoubleBut(r)
      /\ Working(r) /\ Looking(r) /\ Promoted(r)
      /\ target[r] \in Dirs /\ store \in [Dirs -> Unreadable \cup Policies]
  BY Typed, SeesAll DEF InOrder
<1>2. /\ {"current", "draft"} \subseteq Dirs
      /\ op[r] = "Publish" => arg[r] \in Ids /\ arg[r] \in Dirs
  BY <1>1 DEF LocalOK, ById, Dirs
<1>3. ASSUME Promoting(r)
      PROVE  /\ found[r] \in Policies /\ AsCurrent(found[r]).id = arg[r]
             /\ AsCurrent(found[r]) \in Policies
             /\ Source(r) \in {"draft", arg[r]} /\ Source(r) # "current"
             /\ current[r] # Null => current[r] \in Policies /\ current[r].id \in Ids
  <2>1. found[r] \in Policies /\ found[r].id = arg[r]
    BY <1>1, <1>3 DEF Promoting, OldLabels, LocalOK, Promoted
  <2>2. AsCurrent(found[r]) \in Policies /\ AsCurrent(found[r]).id = arg[r]
    BY <2>1 DEF AsCurrent, Policies, Types
  <2>3. Source(r) \in {"draft", arg[r]} /\ Source(r) # "current"
    BY <1>2, <1>3, NamesAreDistinct DEF Promoting, Source
  <2>4. current[r] # Null => current[r] \in Policies /\ current[r].id \in Ids
    BY Typed DEF Policies
  <2> QED
    BY <2>1, <2>2, <2>3, <2>4
<1> QED
  BY <1>1, <1>2, <1>3

\* A step within WriteAsync before the bytes are written.
LEMMA WriteStep ==
  ASSUME IInv, Orderly, NEW r \in Requests, AloneIs(r), Still(r),
         pc[r] \in WriteLabels, pc'[r] \in WriteLabels \cap Busy,
         op'[r] = op[r], arg'[r] = arg[r], found'[r] = found[r], current'[r] = current[r],
         target'[r] = target[r], data'[r] = data[r],
         NEW x, x \notin Policies \/ x = store[target[r]],
         store' = [store EXCEPT ![target[r]] = x], Working(r)'
  PROVE  Orderly'
<1> USE DEF WriteLabels, RemoveLabels, OldLabels, ReadLabels
<1>1. /\ LocalOK(r) /\ InOrder(r) /\ TidyBut(r) /\ NoDoubleBut(r) /\ Promoted(r)
      /\ target[r] \in Dirs /\ store \in [Dirs -> Unreadable \cup Policies]
      /\ {"current", "draft"} \subseteq Dirs
      /\ op[r] = "Publish" => arg[r] \in Ids /\ arg[r] \in Dirs
  BY AtWork
<1>2. \A d \in Dirs : store'[d] = IF d = target[r] THEN x ELSE store[d]
  BY <1>1
<1>3. TidyBut(r)'
  BY <1>1, <1>2 DEF TidyBut, Tidy, Readable
<1>4. Looking(r)'
  BY DEF Looking
<1>5. op[r] = "Publish" => Promoting(r)
  BY DEF Promoting
<1>6. Promoted(r)'
  <2>1. SUFFICES ASSUME op[r] = "Publish" PROVE Promoted(r)'
    BY DEF Promoted, Promoting
  <2>2. /\ ToCurrent(r)' <=> ToCurrent(r)
        /\ Archiving(r)' <=> Archiving(r)
        /\ Source(r)' = Source(r)
    BY DEF ToCurrent, Archiving, Source
  <2>3. CASE target[r] = "current"
    <3>1. Source(r) \in Dirs /\ Source(r) # "current"
      BY <1>1, <1>5, <2>1, AtWork
    <3>2. current[r] # Null => current[r].id \in Ids
      BY <1>5, <2>1, AtWork
    <3>3. \A d \in Ids : store'[d] = store[d]
      BY <1>2, <2>3, NamesAreDistinct DEF Dirs
    <3>4. store'[Source(r)] = store[Source(r)]
      BY <1>2, <2>3, <3>1
    <3> QED
      BY <1>1, <1>5, <2>1, <2>2, <2>3, <3>2, <3>3, <3>4
      DEF Promoted, Promoting, ToCurrent, Archiving
  <2>4. CASE target[r] # "current"
    <3>1. Archiving(r) /\ target[r] # arg[r]
      BY <1>1, <1>5, <2>1, <2>4 DEF Archiving, Promoted
    <3>2. store'["current"] = store["current"] /\ store'[arg[r]] = store[arg[r]]
      BY <1>1, <1>2, <2>1, <2>4, <3>1
    <3> QED
      BY <1>1, <1>5, <2>1, <2>2, <2>4, <3>1, <3>2 DEF Promoted, Promoting, ToCurrent
  <2> QED
    BY <2>3, <2>4
<1>7. NoDoubleBut(r)'
  <2> SUFFICES ASSUME NEW i \in Ids, HoldsPolicy("current", i)' PROVE store'[i] = NoDir
    BY DEF NoDoubleBut
  <2>1. i \in Dirs /\ i # "current" /\ i # "draft"
    BY NamesAreDistinct DEF Dirs
  <2>2. HoldsPolicy("current", i)
    BY <1>1, <1>2 DEF HoldsPolicy, Readable
  <2>3. store[i] = NoDir
    BY <1>1, <2>2 DEF NoDoubleBut
  <2>4. target[r] # i
    <3> SUFFICES ASSUME target[r] = i PROVE FALSE
      OBVIOUS
    <3>1. op[r] = "Publish" /\ Archiving(r)
      BY <1>1, <2>1 DEF LocalOK, Archiving
    <3>2. i = arg[r] /\ target[r] # arg[r]
      BY <1>1, <1>5, <2>2, <3>1, AtWork DEF Promoted, HoldsPolicy
    <3> QED
      BY <3>2
  <2> QED
    BY <1>2, <2>1, <2>3, <2>4
<1>8. InOrder(r)'
  BY <1>4, <1>6 DEF InOrder
<1> QED
  BY <1>3, <1>7, <1>8, StepOf

\* The directory is gone: a publish goes on to archive, a delete is done.
LEMMA RemovedInOrder ==
  ASSUME IInv, Orderly, NEW r \in Requests, AloneIs(r), Still(r), pc[r] \in RemoveLabels,
         store' = [store EXCEPT ![target[r]] = NoDir], AfterRemove(r)
  PROVE  Orderly'
<1> USE DEF RemoveLabels
<1>1. /\ LocalTypes /\ LocalOK(r) /\ InOrder(r) /\ TidyBut(r) /\ NoDoubleBut(r) /\ Promoted(r)
      /\ target[r] \in Dirs /\ target[r] # "current"
      /\ store \in [Dirs -> Unreadable \cup Policies]
      /\ {"current", "draft"} \subseteq Dirs
      /\ op[r] = "Publish" => arg[r] \in Ids /\ arg[r] \in Dirs
  BY AtWork DEF LocalOK
<1>2. \A d \in Dirs : store'[d] = IF d = target[r] THEN NoDir ELSE store[d]
  BY <1>1
<1>3. \A d \in Dirs : Tidy(d)'
  BY <1>1, <1>2 DEF TidyBut, Tidy, Readable
<1>4. \A i \in Ids : HoldsPolicy("current", i)' =>
        HoldsPolicy("current", i) /\ store'[i] = NoDir
  <2> SUFFICES ASSUME NEW i \in Ids, HoldsPolicy("current", i)'
               PROVE  HoldsPolicy("current", i) /\ store'[i] = NoDir
    OBVIOUS
  <2>1. i \in Dirs
    BY DEF Dirs
  <2>2. HoldsPolicy("current", i)
    BY <1>1, <1>2 DEF HoldsPolicy, Readable
  <2> QED
    BY <1>1, <1>2, <2>1, <2>2 DEF NoDoubleBut
<1>5. TidyBut(r)' /\ NoDoubleBut(r)'
  BY <1>3, <1>4 DEF TidyBut, NoDoubleBut
<1>6. CASE op[r] # "Publish"
  <2>1. End(r, "done", Null)
    BY <1>6 DEF AfterRemove
  <2> QED
    BY <1>5, <2>1, EndInOrder, StepOf
<1>7. CASE op[r] = "Publish"
  <2>1. Promoting(r)
    BY <1>7 DEF Promoting
  <2>2. PICK p \in Archived(r) : StartWrite(r, p.id, p)
    BY <1>7 DEF AfterRemove
  <2>3. /\ pc'[r] = "mkdir" /\ target'[r] = p.id /\ data'[r] = p
        /\ op'[r] = op[r] /\ arg'[r] = arg[r] /\ found'[r] = found[r] /\ current'[r] = current[r]
    BY <1>1, <2>2 DEF StartWrite, Goto, LocalTypes
  <2>4. p.id \in Ids /\ p.id # arg[r] /\ p.id # "current"
    <3>1. CASE current[r] = Null
      <4>1. p.id \in FreshIds
        BY <3>1 DEF Archived
      <4> QED
        BY <4>1, NamesAreDistinct DEF FreshIds, IdsInUse
    <3>2. CASE current[r] # Null
      <4>1. p = AsHistorical(current[r]) /\ current[r] \in Policies
        BY <3>2, <2>1, AtWork DEF Archived
      <4>2. p.id = current[r].id /\ p.id \in Ids
        BY <4>1 DEF AsHistorical, Policies
      <4> QED
        BY <1>1, <2>1, <3>2, <4>2, NamesAreDistinct DEF Promoted
    <3> QED
      BY <3>1, <3>2
  <2>5. current[r] # Null => p = AsHistorical(current[r])
    BY DEF Archived
  <2>6. store'["current"] = AsCurrent(found[r])
    BY <1>1, <1>2, <2>1 DEF Promoted
  <2>7. store'[arg[r]] = NoDir
    <3>1. CASE found[r].type = "Draft"
      BY <1>1, <1>2, <1>7, <2>1, <3>1 DEF Promoted
    <3>2. CASE found[r].type = "Historical"
      BY <1>1, <1>2, <1>7, <2>1, <3>2 DEF Promoted, Source
    <3> QED
      BY <1>1, <2>1, <3>1, <3>2 DEF Promoted
  <2>8. Promoted(r)'
    BY <1>1, <2>1, <2>3, <2>4, <2>5, <2>6, <2>7
    DEF Promoted, Promoting, ToCurrent, Archiving, OldLabels, WriteLabels
  <2>9. InOrder(r)'
    BY <2>3, <2>8 DEF InOrder, Working, Looking, WriteLabels, ReadLabels
  <2> QED
    BY <1>5, <2>9, StepOf
<1> QED
  BY <1>6, <1>7

\* The bytes are written.
LEMMA WrittenInOrder ==
  ASSUME IInv, Orderly, NEW r \in Requests, AloneIs(r), Still(r), WriteData(r)
  PROVE  Orderly'
<1> USE DEF WriteLabels, RemoveLabels
<1>1. /\ LocalTypes /\ LocalOK(r) /\ InOrder(r) /\ TidyBut(r) /\ NoDoubleBut(r) /\ Promoted(r)
      /\ Working(r) /\ target[r] \in Dirs
      /\ store \in [Dirs -> Unreadable \cup Policies]
      /\ {"current", "draft"} \subseteq Dirs
      /\ op[r] = "Publish" => arg[r] \in Ids /\ arg[r] \in Dirs
  BY AtWork
<1>2. pc[r] = "bytes" /\ AfterWrite(r) /\ WriteBytes(r, data[r])
  BY DEF WriteData
<1>3. data[r] \in Policies /\ handle[r] = target[r] /\ store[target[r]] = Blank
  BY <1>1, <1>2 DEF LocalOK, Working
<1>4. store' = [store EXCEPT ![target[r]] = data[r]]
  BY <1>1, <1>2, <1>3, NamesAreDistinct DEF WriteBytes, WriteResults
<1>5. \A d \in Dirs : store'[d] = IF d = target[r] THEN data[r] ELSE store[d]
  BY <1>1, <1>4
<1>6. \A d \in Dirs : Tidy(d)'
  BY <1>1, <1>3, <1>5 DEF TidyBut, Tidy, Readable
<1>7. TidyBut(r)'
  BY <1>6 DEF TidyBut
<1>8. CASE op[r] # "Publish"
  <2>1. target[r] = "draft" /\ End(r, "done", data[r])
    BY <1>1, <1>2, <1>8 DEF LocalOK, AfterWrite
  <2>2. \A i \in Ids : HoldsPolicy("current", i)' => store'[i] = NoDir
    BY <1>1, <1>2, <1>5, <2>1, NamesAreDistinct DEF NoDoubleBut, HoldsPolicy, Readable, Dirs
  <2> QED
    BY <1>7, <2>1, <2>2, EndInOrder, StepOf DEF NoDoubleBut
<1>9. CASE op[r] = "Publish" /\ target[r] = "current"
  <2>1. Promoting(r) /\ ToCurrent(r) /\ StartRemove(r, Source(r))
    BY <1>2, <1>9 DEF Promoting, ToCurrent, AfterWrite
  <2>2. /\ pc'[r] = "rmCheck" /\ target'[r] = Source(r) /\ data'[r] = data[r]
        /\ op'[r] = op[r] /\ arg'[r] = arg[r] /\ found'[r] = found[r] /\ current'[r] = current[r]
    BY <1>1, <2>1, AtWork DEF StartRemove, Goto, LocalTypes
  <2>3. /\ Source(r) # "current" /\ Source(r) \in {"draft", arg[r]} /\ Source(r)' = Source(r)
        /\ current[r] # Null => current[r].id \in Ids
        /\ AsCurrent(found[r]).id = arg[r]
    BY <2>1, <2>2, AtWork DEF Source
  <2>4. \A d \in Ids : store'[d] = store[d]
    BY <1>5, <1>9, NamesAreDistinct DEF Dirs
  <2>5. store'["current"] = AsCurrent(found[r]) /\ store'[Source(r)] = found[r]
    BY <1>1, <1>5, <1>9, <2>1, <2>3 DEF Promoted
  <2>6. Promoted(r)'
    BY <1>1, <1>9, <2>1, <2>2, <2>3, <2>4, <2>5
    DEF Promoted, Promoting, ToCurrent, Archiving, OldLabels
  <2>7. InOrder(r)'
    BY <2>2, <2>6 DEF InOrder, Working, Looking, ReadLabels
  <2>8. NoDoubleBut(r)'
    <3> SUFFICES ASSUME NEW i \in Ids, HoldsPolicy("current", i)'
                 PROVE  store'[i] = NoDir \/ target'[r] = i
      BY <1>9, <2>2 DEF NoDoubleBut
    <3>1. i = arg[r]
      BY <2>3, <2>5 DEF HoldsPolicy
    <3>2. CASE found[r].type = "Draft"
      BY <1>1, <2>1, <2>4, <3>1, <3>2 DEF Promoted
    <3>3. CASE found[r].type = "Historical"
      BY <2>2, <3>1, <3>3 DEF Source
    <3> QED
      BY <1>1, <2>1, <3>2, <3>3 DEF Promoted
  <2> QED
    BY <1>7, <2>7, <2>8, StepOf
<1>10. CASE op[r] = "Publish" /\ target[r] # "current"
  <2>1. Promoting(r) /\ Archiving(r) /\ End(r, "done", found[r])
    BY <1>2, <1>10 DEF Promoting, Archiving, AfterWrite
  <2>2. store'["current"] = AsCurrent(found[r]) /\ store'[arg[r]] = NoDir
    BY <1>1, <1>5, <1>10, <2>1 DEF Promoted
  <2>3. NoDoubleBut(r)'
    BY <2>1, <2>2, AtWork DEF NoDoubleBut, HoldsPolicy
  <2> QED
    BY <1>7, <2>1, <2>3, EndInOrder, StepOf
<1> QED
  BY <1>8, <1>9, <1>10

\* Writing and removing keeps the order.
LEMMA ChangeInOrder ==
  ASSUME IInv, Orderly, NEW r \in Requests, AloneIs(r), Still(r), Change(r)
  PROVE  Orderly'
<1> USE DEF WriteLabels, RemoveLabels, Busy
<1>1. /\ LocalTypes /\ LocalOK(r) /\ InOrder(r) /\ TidyBut(r) /\ NoDoubleBut(r) /\ Promoted(r)
      /\ Working(r) /\ target[r] \in Dirs
      /\ store \in [Dirs -> Unreadable \cup Policies]
      /\ {"current", "draft"} \subseteq Dirs
  BY AtWork
<1>2. ASSUME NEW l, JustGoto(r, l)
      PROVE  /\ pc'[r] = l /\ op'[r] = op[r] /\ arg'[r] = arg[r] /\ found'[r] = found[r]
             /\ current'[r] = current[r] /\ target'[r] = target[r] /\ data'[r] = data[r]
  BY <1>1, <1>2 DEF JustGoto, Goto, LocalTypes
<1>3. store[target[r]] \in Policies => store[target[r]] \notin Unreadable
  BY NamesAreDistinct
<1>4. CASE MakeDirectory(r)
  <2> DEFINE x == IF store[target[r]] = NoDir THEN NoFile ELSE store[target[r]]
  <2>1. pc[r] = "mkdir" /\ JustGoto(r, "check") /\ store' = [store EXCEPT ![target[r]] = x]
    BY <1>4 DEF MakeDirectory, CreateDirectory
  <2>2. x = NoFile \/ (x = store[target[r]] /\ Readable(target[r]))
    BY <1>1, <2>1 DEF TidyBut, Tidy
  <2>3. x \notin Policies \/ x = store[target[r]]
    BY <2>2, NamesAreDistinct DEF Unreadable
  <2>4. store'[target[r]] = x
    BY <1>1, <2>1
  <2>5. Working(r)'
    BY <1>2, <2>1, <2>2, <2>4 DEF Working, Readable, ReadLabels
  <2> HIDE DEF x
  <2> QED
    BY <1>2, <2>1, <2>3, <2>5, WriteStep
<1>5. CASE CheckFile(r)
  <2>1. pc[r] = "check" /\ UNCHANGED store
        /\ JustGoto(r, IF FileExists(target[r]) THEN "unlink" ELSE "open")
    BY <1>5 DEF CheckFile
  <2>2. store' = [store EXCEPT ![target[r]] = store[target[r]]]
    BY <1>1, <2>1
  <2>3. /\ FileExists(target[r]) => Readable(target[r])
        /\ ~FileExists(target[r]) => store[target[r]] = NoFile
    BY <1>1, <1>3, <2>1 DEF Working, FileExists, Readable, Unreadable
  <2>4. Working(r)'
    BY <1>2, <2>1, <2>3 DEF Working, Readable, ReadLabels
  <2> QED
    BY <1>2, <2>1, <2>2, <2>4, WriteStep
<1>6. CASE UnlinkOld(r)
  <2>1. pc[r] = "unlink" /\ JustGoto(r, "open") /\ store' = [store EXCEPT ![target[r]] = NoFile]
    BY <1>6 DEF UnlinkOld, DeleteFile
  <2>2. NoFile \notin Policies /\ store'[target[r]] = NoFile
    BY <1>1, <2>1, NamesAreDistinct DEF Unreadable
  <2>3. Working(r)'
    BY <1>2, <2>1, <2>2 DEF Working, ReadLabels
  <2> QED
    BY <1>2, <2>1, <2>2, <2>3, WriteStep
<1>7. CASE OpenNew(r)
  <2>1. /\ pc[r] = "open" /\ JustGoto(r, "bytes") /\ store' = [store EXCEPT ![target[r]] = Blank]
        /\ handle' = [handle EXCEPT ![r] = target[r]]
    BY <1>7 DEF OpenNew, OpenForWrite
  <2>2. Blank \notin Policies /\ store'[target[r]] = Blank /\ handle'[r] = target[r]
    BY <1>1, <2>1, NamesAreDistinct, Typed DEF Unreadable
  <2>3. Working(r)'
    BY <1>2, <2>1, <2>2 DEF Working, ReadLabels
  <2> QED
    BY <1>2, <2>1, <2>2, <2>3, WriteStep
<1>8. CASE WriteData(r)
  BY <1>8, WrittenInOrder
<1>9. CASE Probe(r)
  <2>1. pc[r] = "probe" /\ UNCHANGED store /\ op[r] = "Delete"
    BY <1>1, <1>9 DEF Probe, LocalOK
  <2>2. CASE StartRemove(r, arg[r])
    <3>1. pc'[r] = "rmCheck" /\ op'[r] = op[r]
      BY <1>1, <2>2 DEF StartRemove, Goto, LocalTypes
    <3>2. InOrder(r)'
      BY <2>1, <3>1 DEF InOrder, Working, Looking, Promoted, Promoting, ReadLabels
    <3> QED
      BY <2>1, <3>2, LookingStep
  <2>3. CASE store[arg[r]] = NoDir /\ JustGoto(r, "findDraft")
    <3>1. current[r] = Null
      BY <1>1, <2>1 DEF InOrder
    <3>2. InOrder(r)'
      BY <1>2, <2>1, <2>3, <3>1
      DEF InOrder, Working, Looking, Promoted, Promoting, ReadLabels
    <3> QED
      BY <2>1, <3>2, LookingStep
  <2> QED
    BY <1>9, <2>2, <2>3 DEF Probe, DirectoryExists
<1>10. CASE CheckDirectory(r)
  <2>1. pc[r] = "rmCheck" /\ UNCHANGED store /\ target[r] # "current"
    BY <1>1, <1>10 DEF CheckDirectory, LocalOK
  <2>2. CASE store[target[r]] # NoDir /\ JustGoto(r, "rmFile")
    <3>1. Readable(target[r])
      BY <1>1, <2>1, <2>2 DEF TidyBut, Tidy
    <3>2. Working(r)' /\ Looking(r)'
      BY <1>2, <2>1, <2>2, <3>1 DEF Working, Looking, Readable, ReadLabels
    <3>3. Promoted(r)'
      BY <1>1, <1>2, <2>1, <2>2
      DEF Promoted, Promoting, OldLabels, ToCurrent, Archiving, Source
    <3>4. InOrder(r)'
      BY <1>2, <2>2, <3>2, <3>3 DEF InOrder
    <3>5. TidyBut(r)' /\ NoDoubleBut(r)'
      BY <1>1, <1>2, <2>1, <2>2 DEF TidyBut, Tidy, NoDoubleBut, HoldsPolicy, Readable
    <3> QED
      BY <3>4, <3>5, StepOf
  <2>3. CASE store[target[r]] = NoDir /\ AfterRemove(r)
    <3>1. store' = [store EXCEPT ![target[r]] = NoDir]
      BY <1>1, <2>1, <2>3
    <3> QED
      BY <2>1, <2>3, <3>1, RemovedInOrder
  <2> QED
    BY <1>10, <2>2, <2>3 DEF CheckDirectory, DirectoryExists
<1>11. CASE RemoveFile(r)
  <2>1. /\ pc[r] = "rmFile" /\ store' = [store EXCEPT ![target[r]] = NoFile]
        /\ pc' = [pc EXCEPT ![r] = "rmDir"] /\ UNCHANGED locals
        /\ Readable(target[r]) /\ target[r] # "current"
    BY <1>1, <1>11 DEF RemoveFile, EmptyDirectory, DeleteFile, Working, LocalOK
  <2>2. pc'[r] = "rmDir" /\ UNCHANGED <<op, arg, found, current, target, data>>
    BY <1>1, <2>1 DEF locals, LocalTypes
  <2>3. \A d \in Dirs : store'[d] = IF d = target[r] THEN NoFile ELSE store[d]
    BY <1>1, <2>1
  <2>4. TidyBut(r)'
    BY <1>1, <2>1, <2>2, <2>3 DEF TidyBut, Tidy, Readable
  <2>5. NoDoubleBut(r)'
    <3> SUFFICES ASSUME NEW i \in Ids, HoldsPolicy("current", i)'
                 PROVE  store'[i] = NoDir \/ (op[r] = "Publish" /\ target[r] = i)
      BY <2>2 DEF NoDoubleBut
    <3>1. i \in Dirs /\ HoldsPolicy("current", i)
      BY <1>1, <2>1, <2>3 DEF HoldsPolicy, Readable, Dirs
    <3> QED
      BY <1>1, <1>3, <2>1, <2>3, <3>1 DEF NoDoubleBut, Readable, Unreadable
  <2>6. Working(r)' /\ Looking(r)'
    BY <1>1, <2>2, <2>3 DEF Working, Looking, ReadLabels
  <2>7. Promoted(r)'
    <3> SUFFICES ASSUME op[r] = "Publish" PROVE Promoted(r)'
      BY <2>2 DEF Promoted, Promoting
    <3>1. Promoting(r) /\ target[r] = Source(r) /\ arg[r] \in Ids
      BY <1>1, <2>1, AtWork DEF Promoting, Promoted
    <3>2. store'["current"] = AsCurrent(found[r])
      BY <1>1, <2>1, <2>3, <3>1 DEF Promoted
    <3>3. found[r].type = "Draft" => store'[arg[r]] = NoDir
      BY <1>1, <2>3, <3>1, NamesAreDistinct DEF Promoted, Source, Dirs
    <3>4. current[r] # Null => store'[current[r].id] = NoDir
      <4> SUFFICES ASSUME current[r] # Null PROVE store'[current[r].id] = NoDir
        OBVIOUS
      <4>1. current[r].id \in Ids /\ current[r].id # arg[r] /\ Source(r) \in {"draft", arg[r]}
            /\ store[current[r].id] = NoDir
        BY <1>1, <2>1, <3>1, AtWork DEF Promoted, Archiving
      <4> QED
        BY <2>3, <3>1, <4>1, NamesAreDistinct DEF Dirs
    <3> QED
      BY <1>1, <2>1, <2>2, <3>1, <3>2, <3>3, <3>4
      DEF Promoted, Promoting, OldLabels, ToCurrent, Archiving, Source
  <2>8. InOrder(r)'
    BY <2>2, <2>6, <2>7 DEF InOrder
  <2> QED
    BY <2>4, <2>5, <2>8, StepOf
<1>12. CASE RemoveEmptied(r)
  BY <1>12, RemovedInOrder DEF RemoveEmptied, RemoveDirectory
<1> QED
  BY <1>4, <1>5, <1>6, <1>7, <1>8, <1>9, <1>10, <1>11, <1>12 DEF Change

\* Nothing goes wrong on the way: no call throws, no document fails to parse.
LEMMA NothingThrows ==
  ASSUME IInv, Orderly, NEW r \in Requests
  PROVE  ~Retry(r) /\ ~GiveUp(r)
<1>1. Working(r)
  BY DEF Orderly, InOrder
<1>2. ~CallThrows(r)
  BY <1>1, NamesAreDistinct
  DEF Working, CallThrows, Readable, DirectoryExists, FileExists, Unreadable, ReadLabels
<1>3. ~ParseThrows(r)
  BY <1>1, NamesAreDistinct DEF Working, ParseThrows, Readable, Unreadable
<1> QED
  BY <1>2, <1>3 DEF Retry, GiveUp

-----------------------------------------------------------------------------
(* The invariant. *)

\* Nothing is current and historical at first.
LEMMA NoDoubleAtFirst == ASSUME Init PROVE \A i \in Ids : HoldsPolicy("current", i) => store[i] = NoDir
<1> SUFFICES ASSUME NEW i \in Ids, HoldsPolicy("current", i) PROVE store[i] = NoDir
  OBVIOUS
<1>1. PICK c \in {NoDir} \cup Policies, d \in {NoDir} \cup Policies, H \in SUBSET Known :
        \E body \in [H -> Bodies] :
          /\ AtQuietTimes(c, d, H)
          /\ store = [x \in Dirs |->
               CASE x = "current" -> c
                 [] x = "draft" -> d
                 [] x \in H -> [id |-> x, type |-> "Historical", body |-> body[x]]
                 [] OTHER -> NoDir]
  BY DEF Init
<1>2. PICK body \in [H -> Bodies] :
        /\ AtQuietTimes(c, d, H)
        /\ store = [x \in Dirs |->
             CASE x = "current" -> c
               [] x = "draft" -> d
               [] x \in H -> [id |-> x, type |-> "Historical", body |-> body[x]]
               [] OTHER -> NoDir]
  BY <1>1
<1>3. /\ "current" \in Dirs /\ i \in Dirs /\ i # "current" /\ i # "draft" /\ "current" \notin H
  BY NamesAreDistinct, ParametersFit DEF Dirs
<1>4. store["current"] = c
  BY <1>2, <1>3
<1>5. i \notin H
  BY <1>2, <1>4, NamesAreDistinct DEF HoldsPolicy, Readable, AtQuietTimes, Unreadable
<1> QED
  BY <1>2, <1>3, <1>5

\* So everything is in order at first.
LEMMA SerialAtFirst == Init => SerialInv
<1> SUFFICES ASSUME Init PROVE SerialInv
  OBVIOUS
<1>1. IInv
  BY InitInvariant
<1>2. \A r \in Requests : pc[r] = "idle" /\ op[r] = Null /\ current[r] = Null
  BY DEF Init
<1>3. OneRequest
  BY <1>2 DEF OneRequest, InFlight
<1>4. \A d \in Dirs : Tidy(d)
  BY InitialStore DEF Tidy, Readable
<1>5. NoDouble
  BY NoDoubleAtFirst DEF NoDouble
<1>6. ASSUME NEW r \in Requests PROVE InOrder(r)
  <2>1. Null \notin ById
    BY ParametersFit DEF ById, AllOperations
  <2> QED
    BY <1>2, <2>1 DEF InOrder, Working, Looking, Promoted, Promoting, OldLabels,
                      ReadLabels, WriteLabels, RemoveLabels
<1> QED
  BY <1>1, <1>3, <1>4, <1>5, <1>6 DEF SerialInv, Orderly, TidyUnlessBusy

\* A step without an error from outside is one of a request, or none.
LEMMA WhoSteps ==
  ASSUME IInv, [Next]_vars, faults' = 0
  PROVE  /\ faults = 0
         /\ (\E r \in Requests : Arrive(r) \/ Work(r)) \/ UNCHANGED vars
<1>1. faults \in Nat
  BY ParametersFit DEF IInv, TypeOK
<1>2. ~Fault
  BY <1>1 DEF Fault
<1>3. (\E r \in Requests : Arrive(r) \/ Work(r)) \/ UNCHANGED vars
  BY <1>2 DEF Next, IOError, WriteAgain, Crash, Terminated
<1>4. CASE UNCHANGED vars
  BY <1>4 DEF vars
<1>5. ASSUME NEW r \in Requests, Arrive(r) \/ Work(r) PROVE faults' = faults
  <2>1. CASE Arrive(r)
    BY <2>1 DEF Arrive, GetDraft, GetCurrent, GetPolicyById, Publish, Delete, SaveAsDraft, Begin
  <2>2. CASE Download(r)
    BY <2>2 DEF Download, FindHistorical, NotHistorical, ReadHistorical, FindCurrent, NoCurrent,
        ReadCurrent, FindDraft, NoDraft, ReadDraft, FindBase, NoBase, ReadBase, FindOld,
        NoOld, ReadOld, Find, Misses, Reads
  <2>3. CASE Change(r)
    BY <2>3 DEF Change, MakeDirectory, CheckFile, UnlinkOld, OpenNew, WriteData, Probe,
        CheckDirectory, RemoveFile, RemoveEmptied
  <2>4. CASE Retry(r) \/ GiveUp(r)
    BY <2>4 DEF Retry, GiveUp
  <2> QED
    BY <1>5, <2>1, <2>2, <2>3, <2>4 DEF Work
<1> QED
  BY <1>3, <1>4, <1>5

\* Every step keeps the order.
LEMMA SerialStep == SerialInv /\ [Next /\ OneRequest']_vars => SerialInv'
<1> SUFFICES ASSUME SerialInv, [Next /\ OneRequest']_vars PROVE SerialInv'
  OBVIOUS
<1>1. IInv /\ IInv'
  BY StepKeeps DEF SerialInv
<1>2. OneRequest /\ OneRequest'
  BY DEF SerialInv, vars, locals, OneRequest, InFlight
<1>3. ASSUME faults' = 0 PROVE Orderly'
  <2>1. Orderly /\ ((\E r \in Requests : Arrive(r) \/ Work(r)) \/ UNCHANGED vars)
    BY <1>1, <1>3, WhoSteps DEF SerialInv
  <2>2. CASE UNCHANGED vars
    BY <2>1, <2>2
    DEF vars, locals, Orderly, TidyUnlessBusy, Tidy, Readable, NoDouble, HoldsPolicy, InOrder,
        Working, ReadFrom, Looking, Promoted, Promoting, ToCurrent, Archiving, Source
  <2>3. ASSUME NEW r \in Requests, Arrive(r) \/ Work(r) PROVE Orderly'
    <3>1. AloneIs(r) /\ Still(r)
      BY <1>1, <1>2, <2>3, WorkerIsAlone, LocalsAreItsOwn DEF AloneIs
    <3>2. CASE Arrive(r)
      BY <1>1, <2>1, <3>1, <3>2, ArriveInOrder
    <3>3. CASE Download(r)
      BY <1>1, <2>1, <3>1, <3>3, DownloadInOrder
    <3>4. CASE Change(r)
      BY <1>1, <2>1, <3>1, <3>4, ChangeInOrder
    <3> QED
      BY <1>1, <2>1, <2>3, <3>2, <3>3, <3>4, NothingThrows DEF Work
  <2> QED
    BY <2>1, <2>2, <2>3
<1> QED
  BY <1>1, <1>2, <1>3 DEF SerialInv

\* The inductive invariant holds as long as clients wait for every answer.
THEOREM SerialInvariance == SerialSpec => []SerialInv
<1>1. Init => SerialInv
  BY SerialAtFirst
<1>2. SerialInv /\ [Next /\ OneRequest']_vars => SerialInv'
  BY SerialStep
<1> QED
  BY <1>1, <1>2, PTL DEF SerialSpec

\* A client that waits for every answer gets no error, and finds no directory
\* without its policy: whatever PublishAsync, DeleteAsync and SaveAsDraftAsync
\* take apart call by call, they have put together when they answer.
THEOREM OneAtATimeHolds == SerialSpec => []OneAtATimeIsClean
<1>1. SerialInv => OneAtATimeIsClean
  <2> SUFFICES ASSUME SerialInv, AtRest, faults = 0
               PROVE  /\ \A r \in Requests : pc[r] # "failed"
                      /\ \A d \in Dirs : store[d] = NoDir \/ Readable(d)
    BY DEF OneAtATimeIsClean
  <2>1. Orderly
    BY DEF SerialInv
  <2>2. \A r \in Requests : pc[r] \notin Busy
    BY DEF AtRest, InFlight, Ended, Busy
  <2> QED
    BY <2>1, <2>2 DEF Orderly, InOrder, TidyUnlessBusy, Tidy
<1> QED
  BY <1>1, SerialInvariance, PTL

\* Nothing is both current and historical once every answer is out:
\* PublishAsync deletes the source it published from and archives under the
\* id of the policy it replaced, which is not the new one's.
THEOREM CurrentIsNotHistory == SerialSpec => []CurrentNotInHistory
<1>1. SerialInv => CurrentNotInHistory
  <2> SUFFICES ASSUME SerialInv, AtRest, faults = 0, NEW i \in Ids, HoldsPolicy("current", i)
               PROVE  ~DirectoryExists(i)
    BY DEF CurrentNotInHistory
  <2>1. Orderly
    BY DEF SerialInv
  <2>2. \A r \in Requests : pc[r] \notin RemoveLabels
    BY DEF AtRest, InFlight, Ended, RemoveLabels
  <2> QED
    BY <2>1, <2>2 DEF Orderly, NoDouble, DirectoryExists
<1> QED
  BY <1>1, SerialInvariance, PTL

\* Without a crash or an I/O error a publish of the current policy ends where
\* GetPolicyByIdAsync returns: the policy is in no other place by then, so it
\* is found under current/ with its type.  The run `republish' shows what one
\* crash changes.
THEOREM CurrentIsLeftAlone == SerialSpec => [](faults = 0 => PublishCurrentDoesNothing)
<1>1. SerialInv => (faults = 0 => PublishCurrentDoesNothing)
  BY DEF SerialInv, Orderly, InOrder, Promoted, Promoting, OldLabels, PublishCurrentDoesNothing
<1> QED
  BY <1>1, SerialInvariance, PTL

-----------------------------------------------------------------------------
(* What publishing and saving leave behind.  A policy is safe while it is on *)
(* the share or a publish holds it in memory to archive it.                  *)

\* A publish overwrites only what it holds in memory and archives into a new
\* directory; a delete removes only what has the id it was given.
Careful(r) ==
  /\ pc[r] = "idle" => op[r] = Null
  /\ pc[r] \in WriteLabels => op[r] \in {"Publish", "SaveAsDraft"}
  /\ pc[r] \in RemoveLabels => op[r] \in {"Publish", "Delete"}
  /\ /\ op[r] = "Publish" /\ ToCurrent(r) /\ Readable("current")
     /\ pc[r] \in {"mkdir", "check", "unlink"}
     => current[r] = store["current"]
  /\ op[r] = "Publish" /\ Archiving(r) =>
       /\ pc[r] # "unlink"
       /\ pc[r] = "mkdir" => store[target[r]] = NoDir
       /\ pc[r] = "check" => store[target[r]] = NoFile
  /\ op[r] = "Delete" /\ pc[r] \in RemoveLabels =>
       /\ target[r] \in {arg[r], "draft"}
       /\ target[r] = "draft" /\ pc[r] # "rmDir" /\ Readable("draft") =>
            store["draft"].id = arg[r]

\* SaveAsDraftAsync does nothing but write.
OnlyWrites(r) == op[r] = "SaveAsDraft" => pc[r] \in WriteLabels \cup {"done"}

\* A policy with id i that says b is in one of the directories D ...
Held(i, b, D) == \E d \in D : HoldsPolicy(d, i) /\ store[d].body = b

\* ... or about to be archived.
InMemory(i, b) ==
  \E r \in Requests : Promoting(r) /\ current[r] # Null /\ current[r].id = i /\ current[r].body = b

Safe(i, b, D) == Held(i, b, D) \/ InMemory(i, b)

Deleted(i) == \E r \in Requests : op[r] = "Delete" /\ arg[r] = i

Settled == Dirs \ {"draft"}

\* What the answer of a publish promises ...
PublishedOK(q) ==
  op[q] = "Publish" /\ pc[q] = "done" /\ found[q] # Null =>
    Deleted(arg[q]) \/ \E b \in Bodies : Safe(arg[q], b, Settled)

\* ... and that of a save.
SavedOK(q) ==
  op[q] = "SaveAsDraft" /\ pc[q] = "done" =>
    /\ found[q] \in Policies
    /\ \/ Deleted(found[q].id)
       \/ \E s \in Requests \ {q} : op[s] = "SaveAsDraft"
       \/ Safe(found[q].id, found[q].body, Dirs)

AllSafe ==
  \A q \in Requests : Careful(q) /\ OnlyWrites(q) /\ PublishedOK(q) /\ SavedOK(q)

\* The same invariant, and every promise kept.
KeepingInv == SerialInv /\ (faults = 0 => AllSafe)

\* A request at work keeps its operation and its id.
LEMMA WorkKeepsQuestion ==
  ASSUME IInv, NEW r \in Requests, Work(r)
  PROVE  op' = op /\ arg' = arg /\ pc[r] # "idle" /\ pc'[r] # "idle" /\ pc[r] # "done"
<1> USE DEF ReadLabels
<1>1. LocalTypes
  BY Typed
<1>2. /\ \A o, a : End(r, o, a) /\ o \in Ended => op' = op /\ arg' = arg /\ pc'[r] # "idle"
      /\ \A l : JustGoto(r, l) /\ l # "idle" => op' = op /\ arg' = arg /\ pc'[r] # "idle"
      /\ \A d, p : StartWrite(r, d, p) => op' = op /\ arg' = arg /\ pc'[r] # "idle"
      /\ \A d : StartRemove(r, d) => op' = op /\ arg' = arg /\ pc'[r] # "idle"
  BY <1>1 DEF LocalTypes, End, JustGoto, StartWrite, StartRemove, Goto, Ended
<1>3. \A p : Return(r, p) => op' = op /\ arg' = arg /\ pc'[r] # "idle"
  BY <1>1, <1>2 DEF LocalTypes, Return, Goto, Ended
<1>4. CASE Download(r)
  <2>1. CASE ReadOld(r)
    BY <1>1, <2>1 DEF LocalTypes, ReadOld, Reads, Goto
  <2> QED
    BY <1>2, <1>3, <1>4, <2>1
    DEF Download, FindHistorical, NotHistorical, ReadHistorical, FindCurrent, NoCurrent,
        ReadCurrent, FindDraft, NoDraft, ReadDraft, FindBase, NoBase, ReadBase, FindOld,
        NoOld, Find, Misses, Reads, Ended
<1>5. CASE Change(r)
  <2>1. CASE RemoveFile(r)
    BY <1>1, <2>1 DEF LocalTypes, RemoveFile, locals
  <2> QED
    BY <1>2, <1>5, <2>1
    DEF Change, MakeDirectory, CheckFile, UnlinkOld, OpenNew, WriteData, AfterWrite, Probe,
        CheckDirectory, AfterRemove, RemoveEmptied, Ended
<1>6. CASE Retry(r)
  BY <1>1, <1>6 DEF LocalTypes, Retry, CallThrows
<1>7. CASE GiveUp(r)
  BY <1>2, <1>7 DEF GiveUp, Ended, CallThrows, ParseThrows
<1> QED
  BY <1>4, <1>5, <1>6, <1>7 DEF Work

\* Every step of the request in flight is careful.
LEMMA CarefulStep ==
  ASSUME IInv, Orderly, NEW r \in Requests, AloneIs(r), Careful(r), Work(r)
  PROVE  Careful(r)'
<1> USE DEF ReadLabels, FindLabels, WriteLabels, RemoveLabels
<1>1. /\ LocalTypes /\ LocalOK(r) /\ InOrder(r) /\ TidyBut(r) /\ NoDoubleBut(r) /\ Promoted(r)
      /\ Working(r) /\ target[r] \in Dirs
      /\ store \in [Dirs -> Unreadable \cup Policies]
      /\ {"current", "draft"} \subseteq Dirs
  BY AtWork
<1>2. /\ pc'[r] # "idle" /\ op'[r] = op[r] /\ arg'[r] = arg[r]
  BY WorkKeepsQuestion
<1>3. ASSUME pc'[r] \notin WriteLabels \cup RemoveLabels PROVE Careful(r)'
  BY <1>2, <1>3 DEF Careful, ToCurrent, Archiving
<1>4. ASSUME NEW o \in Ended, NEW a, End(r, o, a) PROVE pc'[r] = o
  BY <1>1, <1>4 DEF LocalTypes, End, Goto
<1>5. ASSUME NEW l, JustGoto(r, l)
      PROVE  pc'[r] = l /\ current'[r] = current[r] /\ target'[r] = target[r]
  BY <1>1, <1>5 DEF LocalTypes, JustGoto, Goto
<1>6. ASSUME NEW p, Return(r, p) PROVE pc'[r] \in {"findOld", "done"}
  BY <1>1, <1>4, <1>6 DEF LocalTypes, Return, Goto, Ended
<1>7. CASE Download(r)
  <2>1. CASE NoOld(r)
    <3>1. /\ pc'[r] = "mkdir" /\ target'[r] = "current" /\ UNCHANGED store
          /\ ~FileExists("current") /\ op[r] = "Publish"
      BY <1>1, <2>1 DEF LocalTypes, NoOld, Misses, StartWrite, Goto, LocalOK
    <3>2. ~Readable("current")
      BY <3>1, NamesAreDistinct DEF Readable, FileExists, Unreadable
    <3> QED
      BY <1>2, <3>1, <3>2 DEF Careful, Archiving, Readable
  <2>2. CASE ReadOld(r)
    <3>1. /\ pc'[r] = "mkdir" /\ target'[r] = "current" /\ UNCHANGED store
          /\ current'[r] = store["current"] /\ op[r] = "Publish"
      BY <1>1, <2>2 DEF LocalTypes, ReadOld, Reads, Goto, LocalOK
    <3> QED
      BY <1>2, <3>1 DEF Careful, Archiving
  <2>3. CASE ReadDraft(r)
    <3>1. CASE StartRemove(r, "draft") /\ Asked(r, "draft") /\ op[r] = "Delete"
      <4>1. pc'[r] = "rmCheck" /\ target'[r] = "draft" /\ UNCHANGED store
        BY <1>1, <2>3, <3>1 DEF LocalTypes, StartRemove, Goto, ReadDraft, Reads
      <4> QED
        BY <1>2, <3>1, <4>1 DEF Careful, ToCurrent, Archiving, Asked
    <3>2. CASE pc'[r] \in {"done", "findOld"}
      BY <1>3, <3>2
    <3> QED
      BY <1>4, <1>6, <2>3, <3>1, <3>2 DEF ReadDraft, Ended
  <2>4. CASE pc'[r] \notin WriteLabels \cup RemoveLabels
    BY <1>3, <2>4
  <2> QED
    BY <1>4, <1>5, <1>6, <1>7, <2>1, <2>2, <2>3, <2>4
    DEF Download, FindHistorical, NotHistorical, ReadHistorical, FindCurrent, NoCurrent,
        ReadCurrent, FindDraft, NoDraft, FindBase, NoBase, ReadBase, FindOld, Find, Ended
<1>8. ASSUME pc[r] \in RemoveLabels, AfterRemove(r),
             \A d \in Dirs : store[d] = NoDir => store'[d] = NoDir
      PROVE  Careful(r)'
  <2>1. CASE op[r] # "Publish"
    BY <1>3, <1>4, <1>8, <2>1 DEF AfterRemove, Ended
  <2>2. CASE op[r] = "Publish"
    <3>1. PICK p \in Archived(r) : StartWrite(r, p.id, p)
      BY <1>8, <2>2 DEF AfterRemove
    <3>2. pc'[r] = "mkdir" /\ target'[r] = p.id
      BY <1>1, <3>1 DEF StartWrite, Goto, LocalTypes
    <3>3. p.id \in Ids /\ p.id # "current" /\ p.id \in Dirs /\ store[p.id] = NoDir
      <4>1. CASE current[r] = Null
        <5>1. p.id \in FreshIds
          BY <4>1 DEF Archived
        <5> QED
          BY <5>1, NamesAreDistinct DEF FreshIds, IdsInUse, DirectoryExists, Dirs
      <4>2. CASE current[r] # Null
        <5>1. Promoting(r) /\ ~Archiving(r)
          BY <1>8, <2>2 DEF Promoting, Archiving
        <5>2. p = AsHistorical(current[r]) /\ current[r] \in Policies
          BY <4>2, <5>1, AtWork DEF Archived
        <5>3. p.id = current[r].id /\ p.id \in Ids
          BY <5>2 DEF AsHistorical, Policies
        <5> QED
          BY <1>1, <4>2, <5>1, <5>3, NamesAreDistinct DEF Promoted, Dirs
      <4> QED
        BY <4>1, <4>2
    <3> QED
      BY <1>2, <1>8, <2>2, <3>2, <3>3 DEF Careful, ToCurrent
  <2> QED
    BY <2>1, <2>2
<1>9. CASE Change(r)
  <2>1. CASE MakeDirectory(r)
    <3>1. /\ pc[r] = "mkdir" /\ pc'[r] = "check" /\ current'[r] = current[r]
          /\ target'[r] = target[r]
          /\ store' = [store EXCEPT ![target[r]] = IF @ = NoDir THEN NoFile ELSE @]
      BY <1>5, <2>1 DEF MakeDirectory, CreateDirectory
    <3>2. /\ store[target[r]] = NoDir => store'[target[r]] = NoFile
          /\ Readable("current")' => Readable("current") /\ store'["current"] = store["current"]
      BY <1>1, <3>1, NamesAreDistinct DEF Readable, Unreadable
    <3> QED
      BY <1>2, <3>1, <3>2 DEF Careful, ToCurrent, Archiving
  <2>2. CASE CheckFile(r)
    <3>1. /\ pc[r] = "check" /\ current'[r] = current[r] /\ target'[r] = target[r] /\ UNCHANGED store
          /\ pc'[r] = IF FileExists(target[r]) THEN "unlink" ELSE "open"
      BY <1>5, <2>2 DEF CheckFile
    <3> QED
      BY <1>2, <3>1 DEF Careful, ToCurrent, Archiving, FileExists, Readable
  <2>3. CASE UnlinkOld(r)
    <3>1. pc'[r] = "open" /\ pc[r] = "unlink" /\ target'[r] = target[r]
      BY <1>5, <2>3 DEF UnlinkOld
    <3> QED
      BY <1>2, <3>1 DEF Careful, ToCurrent, Archiving
  <2>4. CASE OpenNew(r)
    <3>1. pc'[r] = "bytes" /\ pc[r] = "open" /\ target'[r] = target[r]
      BY <1>5, <2>4 DEF OpenNew
    <3> QED
      BY <1>2, <3>1 DEF Careful, ToCurrent, Archiving
  <2>5. CASE WriteData(r)
    <3>1. CASE op[r] = "Publish" /\ StartRemove(r, Source(r))
      <4>1. pc'[r] = "rmCheck"
        BY <1>1, <3>1 DEF StartRemove, Goto, LocalTypes
      <4> QED
        BY <1>2, <3>1, <4>1 DEF Careful, ToCurrent, Archiving
    <3> QED
      BY <1>3, <1>4, <2>5, <3>1 DEF WriteData, AfterWrite, Ended
  <2>6. CASE Probe(r)
    <3>1. CASE StartRemove(r, arg[r])
      <4>1. pc'[r] = "rmCheck" /\ target'[r] = arg[r] /\ arg[r] \in Ids
        BY <1>1, <2>6, <3>1 DEF StartRemove, Goto, LocalTypes, LocalOK, Probe, ById
      <4> QED
        BY <1>1, <1>2, <2>6, <4>1, NamesAreDistinct DEF Careful, ToCurrent, Archiving, Probe, LocalOK
    <3> QED
      BY <1>3, <1>5, <2>6, <3>1 DEF Probe
  <2>7. CASE CheckDirectory(r)
    <3>1. pc[r] = "rmCheck" /\ UNCHANGED store
      BY <2>7 DEF CheckDirectory
    <3>2. CASE JustGoto(r, "rmFile")
      <4>1. pc'[r] = "rmFile" /\ target'[r] = target[r]
        BY <1>5, <3>2
      <4> QED
        BY <1>2, <3>1, <4>1 DEF Careful, ToCurrent, Archiving, Readable
    <3> QED
      BY <1>8, <2>7, <3>1, <3>2 DEF CheckDirectory
  <2>8. CASE RemoveFile(r)
    <3>1. pc[r] = "rmFile" /\ pc'[r] = "rmDir" /\ target'[r] = target[r]
      BY <1>1, <2>8 DEF RemoveFile, locals, LocalTypes
    <3> QED
      BY <1>2, <3>1 DEF Careful, ToCurrent, Archiving
  <2>9. CASE RemoveEmptied(r)
    <3>1. pc[r] = "rmDir" /\ AfterRemove(r) /\ store' = [store EXCEPT ![target[r]] = NoDir]
      BY <2>9 DEF RemoveEmptied, RemoveDirectory
    <3> QED
      BY <1>1, <1>8, <3>1
  <2> QED
    BY <1>9, <2>1, <2>2, <2>3, <2>4, <2>5, <2>6, <2>7, <2>8, <2>9 DEF Change
<1> QED
  BY <1>7, <1>9, NothingThrows DEF Work

\* A publish holds on to what it replaces until it has written it.
LEMMA MemoryStep ==
  ASSUME IInv, Orderly, NEW r \in Requests, AloneIs(r), Change(r), Promoting(r),
         current[r] # Null
  PROVE  \/ Promoting(r)' /\ current'[r] = current[r]
         \/ /\ current[r].id \in Ids
            /\ store'[current[r].id] = AsHistorical(current[r])
<1> USE DEF WriteLabels, RemoveLabels
<1>1. /\ LocalTypes /\ LocalOK(r) /\ Promoted(r) /\ Working(r)
      /\ target[r] \in Dirs
      /\ store \in [Dirs -> Unreadable \cup Policies]
      /\ op'[r] = op[r] /\ op[r] = "Publish"
  BY AtWork, WorkKeepsQuestion DEF Promoting, Work
<1>2. \A l : JustGoto(r, l) => pc'[r] = l /\ current'[r] = current[r]
  BY <1>1 DEF LocalTypes, JustGoto, Goto
<1>3. \A d : StartRemove(r, d) => pc'[r] = "rmCheck" /\ current'[r] = current[r]
  BY <1>1 DEF LocalTypes, StartRemove, Goto
<1>4. AfterRemove(r) => pc'[r] = "mkdir" /\ current'[r] = current[r]
  BY <1>1 DEF LocalTypes, AfterRemove, StartWrite, Goto
<1>5. CASE WriteData(r)
  <2>1. CASE target[r] = "current"
    BY <1>1, <1>3, <1>5, <2>1 DEF WriteData, AfterWrite, Promoting
  <2>2. CASE target[r] # "current"
    <3>1. data[r] = AsHistorical(current[r]) /\ current[r] \in Policies /\ Fits(data[r], target[r])
      BY <1>1, <1>5, <2>2, AtWork DEF WriteData, Archiving, Promoted, LocalOK
    <3>2. target[r] # "draft" /\ AsHistorical(current[r]) \in Policies
      BY <3>1, Retyped DEF Fits, AsHistorical, Policies
    <3>3. target[r] = current[r].id /\ current[r].id \in Ids
      BY <1>1, <2>2, <3>1, <3>2 DEF Fits, AsHistorical, Policies, Dirs
    <3>4. store' = [store EXCEPT ![target[r]] = data[r]]
      <4>1. handle[r] = target[r] /\ store[target[r]] = Blank
        BY <1>1, <1>5 DEF WriteData, Working
      <4> QED
        BY <1>1, <1>5, <4>1, NamesAreDistinct DEF WriteData, WriteBytes, WriteResults
    <3> QED
      BY <1>1, <3>1, <3>3, <3>4
  <2> QED
    BY <2>1, <2>2
<1>6. CASE MakeDirectory(r) \/ CheckFile(r) \/ UnlinkOld(r) \/ OpenNew(r)
  BY <1>1, <1>2, <1>6 DEF MakeDirectory, CheckFile, UnlinkOld, OpenNew, Promoting
<1>7. CASE Probe(r)
  BY <1>1, <1>7 DEF Probe, LocalOK
<1>8. CASE CheckDirectory(r) \/ RemoveEmptied(r)
  BY <1>1, <1>2, <1>4, <1>8 DEF CheckDirectory, RemoveEmptied, Promoting
<1>9. CASE RemoveFile(r)
  BY <1>1, <1>9 DEF RemoveFile, locals, LocalTypes, Promoting
<1> QED
  BY <1>5, <1>6, <1>7, <1>8, <1>9 DEF Change

\* What is safe stays safe, unless it is deleted or a draft is saved.
LEMMA SafeStep ==
  ASSUME IInv, Orderly, NEW r \in Requests, AloneIs(r), Careful(r), Work(r),
         op[r] # "SaveAsDraft", NEW D \in {Dirs, Settled}, NEW i \in Ids, NEW b,
         Safe(i, b, D)
  PROVE  Safe(i, b, D)' \/ Deleted(i)'
<1> USE DEF WriteLabels, RemoveLabels
<1>1. /\ LocalTypes /\ LocalOK(r) /\ InOrder(r) /\ Promoted(r) /\ Working(r)
      /\ target[r] \in Dirs
      /\ store \in [Dirs -> Unreadable \cup Policies]
      /\ {"current", "draft"} \subseteq Dirs
      /\ op'[r] = op[r] /\ arg'[r] = arg[r]
  BY AtWork, WorkKeepsQuestion
<1>2. D \subseteq Dirs /\ "current" \in D /\ Ids \subseteq D
  BY NamesAreDistinct DEF Settled, Dirs
<1>3. Download(r) => UNCHANGED store
  BY DEF Download, FindHistorical, NotHistorical, ReadHistorical, FindCurrent, NoCurrent,
         ReadCurrent, FindDraft, NoDraft, ReadDraft, FindBase, NoBase, ReadBase, FindOld,
         NoOld, ReadOld, Find, Misses, Reads
<1>4. CASE Held(i, b, D)
  <2>1. PICK d \in D : HoldsPolicy(d, i) /\ store[d].body = b
    BY <1>4 DEF Held
  <2>2. d \in Dirs /\ store[d] \in Policies /\ store[d] \notin Unreadable /\ Fits(store[d], d)
        /\ store[d].id = i
    BY <1>2, <2>1, Typed, NamesAreDistinct DEF HoldsPolicy, Readable
  <2>3. CASE store'[d] = store[d]
    BY <2>1, <2>3 DEF Safe, Held, HoldsPolicy, Readable
  <2>4. CASE UnlinkOld(r)
    <3>1. /\ pc[r] = "unlink" /\ pc'[r] = "open" /\ current'[r] = current[r]
          /\ store' = [store EXCEPT ![target[r]] = NoFile]
      BY <1>1, <2>4 DEF UnlinkOld, DeleteFile, JustGoto, Goto, LocalTypes
    <3>2. CASE op[r] = "Publish" /\ target[r] = d
      <4>1. target[r] = "current" /\ current[r] = store["current"]
        BY <2>2, <3>1, <3>2 DEF Careful, ToCurrent, Archiving, Readable
      <4>2. Promoting(r)' /\ current'[r] # Null /\ current'[r].id = i /\ current'[r].body = b
        BY <1>1, <2>1, <2>2, <3>1, <3>2, <4>1, ParametersFit DEF Promoting
      <4> QED
        BY <4>2 DEF Safe, InMemory
    <3>3. op[r] = "Publish"
      BY <3>1 DEF Careful
    <3> QED
      BY <1>1, <2>2, <2>3, <3>1, <3>2, <3>3
  <2>5. CASE RemoveFile(r)
    <3>1. /\ pc[r] = "rmFile"
          /\ store' = [store EXCEPT ![target[r]] = NoFile]
      BY <2>5 DEF RemoveFile, EmptyDirectory, DeleteFile
    <3>2. CASE target[r] # d
      BY <1>1, <2>2, <2>3, <3>1, <3>2
    <3>3. CASE op[r] = "Publish" /\ target[r] = d
      <4>1. /\ Promoting(r) /\ Source(r) = d /\ store[d] = found[r]
            /\ store["current"] = AsCurrent(found[r]) /\ d # "current"
        BY <1>1, <3>1, <3>3, AtWork DEF Promoting, Promoted
      <4>2. /\ store'["current"] = AsCurrent(found[r]) /\ AsCurrent(found[r]) \in Policies
            /\ AsCurrent(found[r]).id = i /\ AsCurrent(found[r]).body = b
        BY <1>1, <2>1, <2>2, <3>1, <3>3, <4>1, Retyped DEF AsCurrent, Policies
      <4> QED
        BY <1>2, <4>2 DEF Safe, Held, HoldsPolicy, Readable
    <3>4. CASE op[r] = "Delete" /\ target[r] = d
      <4>1. arg[r] = i
        BY <1>1, <2>2, <3>1, <3>4, NamesAreDistinct
        DEF Careful, Fits, LocalOK, ById, Readable
      <4> QED
        BY <1>1, <3>4, <4>1 DEF Deleted
    <3>5. op[r] \in {"Publish", "Delete"}
      BY <3>1 DEF Careful
    <3> QED
      BY <3>2, <3>3, <3>4, <3>5
  <2>6. CASE MakeDirectory(r)
    BY <1>1, <2>2, <2>3, <2>6 DEF MakeDirectory, CreateDirectory, Unreadable
  <2>7. CASE OpenNew(r) \/ WriteData(r)
    <3>1. d # target[r] /\ (\E x : store' = [store EXCEPT ![target[r]] = x])
      <4>1. CASE OpenNew(r)
        BY <1>1, <2>2, <4>1 DEF OpenNew, OpenForWrite, Working, Unreadable
      <4>2. CASE WriteData(r)
        BY <1>1, <2>2, <4>2, NamesAreDistinct
        DEF WriteData, WriteBytes, WriteResults, Working, Unreadable
      <4> QED
        BY <2>7, <4>1, <4>2
    <3> QED
      BY <1>1, <2>2, <2>3, <3>1
  <2>8. CASE RemoveEmptied(r)
    BY <1>1, <2>2, <2>3, <2>8 DEF RemoveEmptied, RemoveDirectory, Unreadable
  <2>9. CASE Download(r) \/ CheckFile(r) \/ Probe(r) \/ CheckDirectory(r)
    BY <1>3, <2>3, <2>9 DEF CheckFile, Probe, CheckDirectory
  <2> QED
    BY <2>4, <2>5, <2>6, <2>7, <2>8, <2>9, NothingThrows DEF Work, Change
<1>5. CASE InMemory(i, b)
  <2>1. PICK s \in Requests : /\ Promoting(s) /\ current[s] # Null
                              /\ current[s].id = i /\ current[s].body = b
    BY <1>5 DEF InMemory
  <2>2. s = r
    BY <2>1 DEF AloneIs, InFlight, Promoting, OldLabels, Ended
  <2>3. pc[r] \in WriteLabels \cup RemoveLabels
    BY <1>1, <2>1, <2>2 DEF InOrder
  <2>4. Change(r)
    <3>1. ~Download(r)
      BY <2>3 DEF Download, FindHistorical, NotHistorical, ReadHistorical, FindCurrent, NoCurrent,
         ReadCurrent, FindDraft, NoDraft, ReadDraft, FindBase, NoBase, ReadBase, FindOld,
         NoOld, ReadOld, Find, Misses, Reads
    <3> QED
      BY <3>1, NothingThrows DEF Work
  <2>5. CASE Promoting(r)' /\ current'[r] = current[r]
    BY <2>1, <2>2, <2>5 DEF Safe, InMemory
  <2>6. CASE store'[i] = AsHistorical(current[r])
    <3>1. /\ AsHistorical(current[r]) \in Policies /\ AsHistorical(current[r]).id = i
          /\ AsHistorical(current[r]).body = b
      BY <1>1, <2>1, <2>2, Retyped, AtWork DEF AsHistorical, Policies
    <3> QED
      BY <1>2, <2>6, <3>1 DEF Safe, Held, HoldsPolicy, Readable
  <2> QED
    BY <2>1, <2>2, <2>4, <2>5, <2>6, MemoryStep
<1> QED
  BY <1>4, <1>5 DEF Safe

\* A publish that is answered with its policy has left it on the share.
LEMMA PublishAnswered ==
  ASSUME IInv, Orderly, NEW r \in Requests, AloneIs(r), Work(r), op[r] = "Publish",
         pc'[r] = "done", found'[r] # Null
  PROVE  \E b \in Bodies : Held(arg[r], b, Settled)'
<1>1. /\ LocalTypes /\ LocalOK(r) /\ Promoted(r) /\ Working(r)
      /\ target[r] \in Dirs /\ arg[r] \in Ids /\ arg[r] \in Dirs
      /\ {"current", "draft"} \subseteq Dirs /\ "current" \in Settled
      /\ store \in [Dirs -> Unreadable \cup Policies]
      /\ arg' = arg
  BY AtWork, WorkKeepsQuestion, NamesAreDistinct DEF Settled
<1>2. ASSUME store'["current"] \in Policies, store'["current"].id = arg[r]
      PROVE  \E b \in Bodies : Held(arg[r], b, Settled)'
  BY <1>1, <1>2 DEF Held, HoldsPolicy, Readable, Policies
<1>3. \A a : End(r, "done", a) => found'[r] = a
  BY <1>1 DEF LocalTypes, End, Goto
<1>4. \A l : JustGoto(r, l) => pc'[r] = l
  BY <1>1 DEF LocalTypes, JustGoto, Goto
<1>5. \A d, p : StartWrite(r, d, p) => pc'[r] = "mkdir"
  BY <1>1 DEF LocalTypes, StartWrite, Goto
<1>6. \A d : StartRemove(r, d) => pc'[r] = "rmCheck"
  BY <1>1 DEF LocalTypes, StartRemove, Goto
<1>7. \A p : Return(r, p) /\ p # Null /\ p.type # "Current" => pc'[r] = "findOld"
  BY <1>1 DEF LocalTypes, Return, Goto
<1>8. CASE Download(r)
  <2>1. CASE ReadHistorical(r)
    <3>1. Readable(arg[r]) /\ Return(r, store[arg[r]])
      BY <2>1 DEF ReadHistorical, Reads
    <3>2. store[arg[r]].type = "Historical" /\ store[arg[r]] # Null
      BY <1>1, <3>1, Typed, ParametersFit DEF Fits
    <3> QED
      BY <1>7, <3>1, <3>2
  <2>2. CASE ReadCurrent(r)
    <3>1. Readable("current") /\ UNCHANGED store /\ pc'[r] # "findDraft" => Asked(r, "current")
      BY <1>4, <2>2 DEF ReadCurrent, Reads
    <3> QED
      BY <1>2, <1>4, <2>2, <3>1 DEF ReadCurrent, Reads, Readable, Asked
  <2>3. CASE ReadDraft(r)
    <3>1. Readable("draft") /\ store["draft"] \in Policies /\ store["draft"].type = "Draft"
          /\ store["draft"] # Null
      BY <1>1, <2>3, Typed, ParametersFit DEF ReadDraft, Reads, Fits
    <3>2. End(r, "done", Null) \/ Return(r, store["draft"])
      BY <2>3 DEF ReadDraft
    <3> QED
      BY <1>3, <1>7, <3>1, <3>2
  <2>4. CASE ReadOld(r)
    BY <1>1, <2>4 DEF LocalTypes, ReadOld, Goto
  <2>5. CASE NoCurrent(r) \/ NoBase(r) \/ ReadBase(r)
    BY <1>3, <1>4, <2>5 DEF NoCurrent, NoBase, ReadBase
  <2> QED
    BY <1>4, <1>5, <1>8, <2>1, <2>2, <2>3, <2>4, <2>5
    DEF Download, FindHistorical, NotHistorical, FindCurrent, FindDraft, NoDraft, FindBase,
        FindOld, NoOld, Find
<1>9. CASE Change(r)
  <2>1. CASE WriteData(r)
    <3>1. target[r] # "current" /\ pc[r] = "bytes"
      BY <1>6, <2>1 DEF WriteData, AfterWrite
    <3>2. Promoting(r) /\ Archiving(r)
      BY <3>1 DEF Promoting, Archiving, WriteLabels
    <3>3. store["current"] = AsCurrent(found[r])
      BY <1>1, <3>2 DEF Promoted
    <3>4. store'["current"] = store["current"]
      BY <1>1, <2>1, <3>1, NamesAreDistinct DEF WriteData, WriteBytes, Working
    <3> QED
      BY <1>2, <3>2, <3>3, <3>4, AtWork
  <2>2. CASE RemoveFile(r)
    BY <1>1, <2>2 DEF RemoveFile, locals, LocalTypes
  <2> QED
    BY <1>4, <1>5, <1>6, <1>9, <2>1, <2>2
    DEF Change, MakeDirectory, CheckFile, UnlinkOld, OpenNew, Probe, CheckDirectory,
        AfterRemove, RemoveEmptied
<1> QED
  BY <1>8, <1>9, NothingThrows DEF Work

\* SaveAsDraftAsync writes until it is answered, with its policy on the share.
LEMMA SaveAnswered ==
  ASSUME IInv, Orderly, NEW r \in Requests, AloneIs(r), Work(r), OnlyWrites(r)
  PROVE  /\ OnlyWrites(r)'
         /\ op[r] = "SaveAsDraft" /\ pc'[r] = "done" =>
              found'[r] \in Policies /\ Held(found[r].id, found[r].body, Dirs)'
<1>1. /\ LocalTypes /\ LocalOK(r) /\ Working(r)
      /\ target[r] \in Dirs /\ "draft" \in Dirs
      /\ store \in [Dirs -> Unreadable \cup Policies]
      /\ op'[r] = op[r]
  BY AtWork, WorkKeepsQuestion
<1> SUFFICES ASSUME op[r] = "SaveAsDraft"
             PROVE  /\ pc'[r] \in WriteLabels \cup {"done"}
                    /\ pc'[r] = "done" =>
                         found'[r] \in Policies /\ Held(found[r].id, found[r].body, Dirs)'
  BY <1>1 DEF OnlyWrites
<1>2. pc[r] \in WriteLabels
  BY WorkKeepsQuestion DEF OnlyWrites
<1>3. MakeDirectory(r) \/ CheckFile(r) \/ UnlinkOld(r) \/ OpenNew(r) \/ WriteData(r)
  <2>1. ~Download(r)
    BY <1>2 DEF Download, FindHistorical, NotHistorical, ReadHistorical, FindCurrent, NoCurrent,
       ReadCurrent, FindDraft, NoDraft, ReadDraft, FindBase, NoBase, ReadBase, FindOld,
       NoOld, ReadOld, Find, Misses, Reads, WriteLabels
  <2>2. Change(r)
    BY <2>1, NothingThrows DEF Work
  <2> QED
    BY <1>2, <2>2 DEF Change, Probe, CheckDirectory, RemoveFile, RemoveEmptied, WriteLabels
<1>4. CASE WriteData(r)
  <2>1. /\ pc[r] = "bytes" /\ handle[r] = target[r] /\ target[r] = "draft"
        /\ store[target[r]] = Blank /\ data[r] \in Policies
    BY <1>1, <1>2, <1>4 DEF WriteData, Working, LocalOK
  <2>2. store'["draft"] = data[r]
    BY <1>1, <1>4, <2>1, NamesAreDistinct DEF WriteData, WriteBytes, WriteResults
  <2>3. pc'[r] = "done" /\ found'[r] = data[r]
    BY <1>1, <1>4 DEF WriteData, AfterWrite, End, Goto, LocalTypes
  <2> QED
    BY <1>1, <2>1, <2>2, <2>3 DEF Held, HoldsPolicy, Readable
<1>5. CASE ~WriteData(r)
  BY <1>1, <1>3, <1>5
  DEF MakeDirectory, CheckFile, UnlinkOld, OpenNew, JustGoto, Goto, LocalTypes, WriteLabels
<1> QED
  BY <1>4, <1>5

\* A request that arrives or saves a draft leaves the other directories alone.
LEMMA ElsewhereSafe ==
  ASSUME IInv, Orderly, NEW r \in Requests, AloneIs(r), Still(r), Careful(r), OnlyWrites(r),
         Arrive(r) \/ (Work(r) /\ op[r] = "SaveAsDraft"),
         NEW D \in {Dirs, Settled}, D = Settled \/ Arrive(r),
         NEW i \in Ids, NEW b, Safe(i, b, D)
  PROVE  Safe(i, b, D)'
<1>1. /\ LocalTypes /\ LocalOK(r) /\ Working(r) /\ store \in [Dirs -> Unreadable \cup Policies]
  BY AtWork
<1>2. \A d \in D : store'[d] = store[d]
  <2>1. CASE Arrive(r)
    BY <2>1 DEF Arrive, GetDraft, GetCurrent, GetPolicyById, Publish, Delete, SaveAsDraft, Begin
  <2>2. CASE Work(r) /\ op[r] = "SaveAsDraft"
    <3>1. pc[r] \in WriteLabels /\ target[r] = "draft"
      BY <1>1, <2>2, WorkKeepsQuestion DEF OnlyWrites, LocalOK
    <3>2. Change(r)
      <4>1. ~Download(r)
        BY <3>1 DEF Download, FindHistorical, NotHistorical, ReadHistorical, FindCurrent,
           NoCurrent, ReadCurrent, FindDraft, NoDraft, ReadDraft, FindBase, NoBase, ReadBase,
           FindOld, NoOld, ReadOld, Find, Misses, Reads, WriteLabels
      <4> QED
        BY <2>2, <4>1, NothingThrows DEF Work
    <3>3. \A d \in Settled : store'[d] = store[d]
      <4>1. CASE WriteData(r)
        BY <1>1, <3>1, <4>1, NamesAreDistinct DEF WriteData, WriteBytes, Working, Settled
      <4>2. CASE ~WriteData(r)
        BY <1>1, <3>1, <3>2, <4>2
        DEF Change, MakeDirectory, CreateDirectory, CheckFile, UnlinkOld, DeleteFile, OpenNew,
            OpenForWrite, Probe, CheckDirectory, RemoveFile, RemoveEmptied, WriteLabels, Settled
      <4> QED
        BY <4>1, <4>2
    <3>4. CASE D = Settled
      BY <3>3, <3>4
    <3>5. CASE Arrive(r)
      BY <3>1, <3>5 DEF Arrive, GetDraft, GetCurrent, GetPolicyById, Publish, Delete, SaveAsDraft,
                        Begin, WriteLabels
    <3> QED
      BY <3>4, <3>5
  <2> QED
    BY <2>1, <2>2
<1>3. CASE Held(i, b, D)
  BY <1>2, <1>3 DEF Safe, Held, HoldsPolicy, Readable
<1>4. CASE InMemory(i, b)
  <2>1. PICK s \in Requests : /\ Promoting(s) /\ current[s] # Null
                              /\ current[s].id = i /\ current[s].body = b
    BY <1>4 DEF InMemory
  <2>2. s # r
    <3>1. CASE Arrive(r)
      BY <2>1, <3>1 DEF Promoting, Arrive, GetDraft, GetCurrent, GetPolicyById, Publish, Delete,
         SaveAsDraft, Begin, OldLabels, WriteLabels, RemoveLabels
    <3> QED
      BY <2>1, <3>1 DEF Promoting
  <2>3. Promoting(s)' /\ current'[s] = current[s]
    BY <2>1, <2>2 DEF Still, Promoting
  <2> QED
    BY <2>1, <2>3 DEF Safe, InMemory
<1> QED
  BY <1>3, <1>4 DEF Safe

\* A deletion is not forgotten.
LEMMA DeletedStays ==
  ASSUME IInv, NEW r \in Requests, Still(r), Careful(r), Arrive(r) \/ Work(r),
         NEW i, Deleted(i)
  PROVE  Deleted(i)'
<1>1. PICK s \in Requests : op[s] = "Delete" /\ arg[s] = i
  BY DEF Deleted
<1>2. CASE s = r
  <2>1. ~Arrive(r)
    BY <1>1, <1>2, ParametersFit DEF Arrive, GetDraft, GetCurrent, GetPolicyById, Publish, Delete,
         SaveAsDraft, Begin, Careful, AllOperations
  <2> QED
    BY <1>1, <1>2, <2>1, WorkKeepsQuestion DEF Deleted
<1>3. CASE s # r
  BY <1>1, <1>3 DEF Still, Deleted
<1> QED
  BY <1>2, <1>3

\* Every step keeps every promise.
LEMMA KeepingStep ==
  ASSUME IInv, IInv', Orderly, Orderly', AllSafe, NEW r \in Requests, AloneIs(r), Still(r),
         Arrive(r) \/ Work(r)
  PROVE  AllSafe'
<1>1. /\ \A q \in Requests : Careful(q) /\ OnlyWrites(q) /\ PublishedOK(q) /\ SavedOK(q)
      /\ LocalTypes
  BY Typed DEF AllSafe
<1>2. ASSUME Arrive(r)
      PROVE  /\ pc'[r] \in {"findDraft", "findCurrent", "findHistorical", "probe", "mkdir"}
             /\ pc'[r] = "mkdir" <=> op'[r] = "SaveAsDraft"
             /\ target'[r] = target[r] /\ pc[r] = "idle"
  BY <1>1, <1>2 DEF LocalTypes, Arrive, GetDraft, GetCurrent, GetPolicyById, Publish, Delete,
                    SaveAsDraft, Begin, Goto
<1>3. ASSUME NEW q \in Requests PROVE Careful(q)' /\ OnlyWrites(q)'
  <2>1. CASE q # r
    <3>1. pc[q] \in {"idle", "done"} /\ pc'[q] = pc[q] /\ op'[q] = op[q]
      BY <2>1 DEF AloneIs, InFlight, Ended, Orderly, InOrder, Still
    <3> QED
      BY <1>1, <3>1 DEF Careful, OnlyWrites, ToCurrent, Archiving, WriteLabels, RemoveLabels
  <2>2. CASE q = r /\ Arrive(r)
    BY <1>2, <2>2, Typed
    DEF Careful, OnlyWrites, ToCurrent, Archiving, WriteLabels, RemoveLabels
  <2>3. CASE q = r /\ Work(r)
    BY <1>1, <2>3, CarefulStep, SaveAnswered
  <2> QED
    BY <2>1, <2>2, <2>3
<1>4. ASSUME NEW i \in Ids, NEW b, Safe(i, b, Settled)
      PROVE  Safe(i, b, Settled)' \/ Deleted(i)'
  BY <1>1, <1>4, SafeStep, ElsewhereSafe
<1>5. ASSUME NEW i \in Ids, NEW b, Safe(i, b, Dirs)
      PROVE  Safe(i, b, Dirs)' \/ Deleted(i)' \/ (op[r] = "SaveAsDraft" /\ Work(r))
  BY <1>1, <1>5, SafeStep, ElsewhereSafe
<1>6. ASSUME NEW s \in Requests, op[s] = "SaveAsDraft" PROVE op'[s] = "SaveAsDraft"
  <2>1. CASE s # r
    BY <1>6, <2>1 DEF Still
  <2>2. CASE s = r
    BY <1>1, <1>2, <1>6, <2>2, WorkKeepsQuestion, ParametersFit DEF Careful, AllOperations
  <2> QED
    BY <2>1, <2>2
<1>7. ASSUME NEW q \in Requests PROVE PublishedOK(q)'
  <2> SUFFICES ASSUME op'[q] = "Publish", pc'[q] = "done", found'[q] # Null,
                      NEW i \in Ids, i = arg'[q]
               PROVE  Deleted(i)' \/ \E b \in Bodies : Safe(i, b, Settled)'
    BY Typed DEF PublishedOK, IInv, LocalsOK, LocalOK, ById
  <2>1. CASE q # r
    <3>1. /\ op[q] = "Publish" /\ pc[q] = "done" /\ found[q] # Null /\ arg[q] = i
      BY <2>1 DEF Still
    <3>2. CASE Deleted(i)
      BY <1>1, <3>2, DeletedStays
    <3>3. CASE \E b \in Bodies : Safe(i, b, Settled)
      BY <1>4, <3>3
    <3> QED
      BY <1>1, <3>1, <3>2, <3>3 DEF PublishedOK
  <2>2. CASE q = r
    <3>1. Work(r)
      BY <1>2, <2>2
    <3>2. op[r] = "Publish" /\ arg[r] = i
      BY <2>2, <3>1, WorkKeepsQuestion
    <3>3. \E b \in Bodies : Held(arg[r], b, Settled)'
      BY <2>2, <3>1, <3>2, PublishAnswered
    <3> QED
      BY <2>2, <3>3 DEF Safe
  <2> QED
    BY <2>1, <2>2
<1>8. ASSUME NEW q \in Requests PROVE SavedOK(q)'
  <2> SUFFICES ASSUME op'[q] = "SaveAsDraft", pc'[q] = "done"
               PROVE  /\ found'[q] \in Policies
                      /\ \/ Deleted(found[q].id)'
                         \/ \E s \in Requests \ {q} : op'[s] = "SaveAsDraft"
                         \/ Safe(found[q].id, found[q].body, Dirs)'
    BY DEF SavedOK
  <2>1. CASE q # r
    <3>1. op[q] = "SaveAsDraft" /\ pc[q] = "done" /\ found'[q] = found[q]
      BY <2>1 DEF Still
    <3>2. /\ found[q] \in Policies /\ found[q].id \in Ids
          /\ \/ Deleted(found[q].id)
             \/ \E s \in Requests \ {q} : op[s] = "SaveAsDraft"
             \/ Safe(found[q].id, found[q].body, Dirs)
      BY <1>1, <3>1 DEF SavedOK, Policies
    <3>3. PICK i \in Ids : i = found[q].id
      BY <3>2
    <3>4. PICK b \in Bodies : b = found[q].body
      BY <3>2 DEF Policies
    <3>5. CASE Deleted(i)
      <4>1. Deleted(i)'
        BY <1>1, <3>5, DeletedStays
      <4> QED
        BY <3>1, <3>2, <3>3, <4>1
    <3>6. CASE \E s \in Requests \ {q} : op[s] = "SaveAsDraft"
      BY <1>6, <3>1, <3>2, <3>6
    <3>7. CASE Safe(i, b, Dirs)
      <4>1. CASE op[r] = "SaveAsDraft" /\ Work(r)
        BY <1>6, <2>1, <3>1, <3>2, <4>1
      <4>2. CASE Safe(i, b, Dirs)' \/ Deleted(i)'
        BY <3>1, <3>2, <3>3, <3>4, <4>2
      <4> QED
        BY <1>5, <3>7, <4>1, <4>2
    <3> QED
      BY <3>2, <3>3, <3>4, <3>5, <3>6, <3>7
  <2>2. CASE q = r
    <3>1. Work(r)
      BY <1>2, <2>2
    <3> QED
      BY <1>1, <2>2, <3>1, WorkKeepsQuestion, SaveAnswered DEF Safe
  <2> QED
    BY <2>1, <2>2
<1> QED
  BY <1>3, <1>7, <1>8 DEF AllSafe

\* At first nothing has been promised.
LEMMA KeepingAtFirst == Init => KeepingInv
<1> SUFFICES ASSUME Init PROVE KeepingInv
  OBVIOUS
<1>1. \A r \in Requests : pc[r] = "idle" /\ op[r] = Null
  BY DEF Init
<1>2. AllSafe
  BY <1>1, ParametersFit
  DEF AllSafe, Careful, OnlyWrites, PublishedOK, SavedOK, ToCurrent, Archiving, WriteLabels,
      RemoveLabels, AllOperations
<1> QED
  BY <1>2, SerialAtFirst DEF KeepingInv

\* The strengthened invariant holds as long as clients wait for every answer.
THEOREM KeepingInvariance == SerialSpec => []KeepingInv
<1>1. KeepingInv /\ [Next /\ OneRequest']_vars => KeepingInv'
  <2> SUFFICES ASSUME KeepingInv, [Next /\ OneRequest']_vars PROVE KeepingInv'
    OBVIOUS
  <2>1. SerialInv /\ SerialInv'
    BY SerialStep DEF KeepingInv
  <2>2. IInv /\ IInv' /\ OneRequest /\ OneRequest'
    BY <2>1 DEF SerialInv
  <2>3. ASSUME faults' = 0 PROVE AllSafe'
    <3>1. /\ faults = 0 /\ Orderly /\ Orderly' /\ AllSafe
          /\ (\E r \in Requests : Arrive(r) \/ Work(r)) \/ UNCHANGED vars
      BY <2>1, <2>2, <2>3, WhoSteps DEF SerialInv, KeepingInv
    <3>2. CASE UNCHANGED vars
      BY <3>1, <3>2
      DEF vars, locals, AllSafe, Careful, OnlyWrites, PublishedOK, SavedOK, ToCurrent, Archiving,
          Safe, Held, InMemory, Deleted, Promoting, HoldsPolicy, Readable
    <3>3. ASSUME NEW r \in Requests, Arrive(r) \/ Work(r) PROVE AllSafe'
      <4>1. AloneIs(r) /\ Still(r)
        BY <2>2, <3>3, WorkerIsAlone, LocalsAreItsOwn DEF AloneIs
      <4> QED
        BY <2>2, <3>1, <3>3, <4>1, KeepingStep
    <3> QED
      BY <3>1, <3>2, <3>3
  <2> QED
    BY <2>1, <2>3 DEF KeepingInv
<1> QED
  BY <1>1, KeepingAtFirst, PTL DEF SerialSpec

\* Once the answers are out nothing is in memory any more.
LEMMA NothingInMemory ==
  ASSUME AtRest, NEW i, NEW b, NEW D, Safe(i, b, D)
  PROVE  Held(i, b, D)
BY DEF AtRest, InFlight, Ended, Safe, InMemory, Promoting, OldLabels, WriteLabels, RemoveLabels

\* What PublishAsync answered with is current or historical until it is
\* deleted by its id, however many publishes and saves come after it.
THEOREM PublishedStays == SerialSpec => []PublishedIsKept
<1>1. KeepingInv => PublishedIsKept
  <2> SUFFICES ASSUME KeepingInv, AtRest, faults = 0, NEW r \in Requests,
                      op[r] = "Publish", pc[r] = "done", found[r] # Null, ~Deleted(arg[r])
               PROVE  Kept(arg[r])
    BY DEF PublishedIsKept, Deleted
  <2>1. PICK b \in Bodies : Safe(arg[r], b, Settled)
    BY DEF KeepingInv, AllSafe, PublishedOK
  <2>2. Held(arg[r], b, Settled)
    BY <2>1, NothingInMemory
  <2>3. PICK d \in Settled : HoldsPolicy(d, arg[r])
    BY <2>2 DEF Held
  <2>4. d = "current" \/ (d \in Ids /\ Readable(d) => store[d].id = d)
    BY Typed DEF Settled, Dirs, KeepingInv, SerialInv, Fits
  <2> QED
    BY <2>3, <2>4 DEF Kept, HoldsPolicy, Settled, Dirs
<1> QED
  BY <1>1, KeepingInvariance, PTL

\* A draft that SaveAsDraftAsync answered for is still on the share, with the
\* settings it was saved with, unless another save replaced it or it was
\* deleted by its id: publishing moves it and never loses or changes it.
THEOREM SavedDraftStays == SerialSpec => []SavedDraftIsKept
<1>1. KeepingInv => SavedDraftIsKept
  <2> SUFFICES ASSUME KeepingInv, AtRest, faults = 0, NEW r \in Requests,
                      op[r] = "SaveAsDraft", pc[r] = "done",
                      \A q \in Requests \ {r} : op[q] # "SaveAsDraft",
                      \A q \in Requests \ {r} : ~(op[q] = "Delete" /\ arg[q] = found[r].id)
               PROVE  Held(found[r].id, found[r].body, Dirs)
    BY DEF SavedDraftIsKept, Held
  <2>1. ~Deleted(found[r].id)
    BY DEF Deleted
  <2>2. Safe(found[r].id, found[r].body, Dirs)
    BY <2>1 DEF KeepingInv, AllSafe, SavedOK
  <2> QED
    BY <2>2, NothingInMemory
<1> QED
  BY <1>1, KeepingInvariance, PTL

=============================================================================
