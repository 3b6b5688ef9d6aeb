------------------------ MODULE PolicyRefinementProofs ------------------------
(***************************************************************************)
(* PolicyService implements PolicyArchive for clients that leave one mover *)
(* at a time, a publish or a delete, beside any reads and a bounded number *)
(* of saves, as long as no call fails for a reason from outside: of all    *)
(* the file-system calls of a publish exactly one is a step of the         *)
(* archive, and so is one of those of a delete.                            *)
(*                                                                         *)
(* First the order that a mover keeps and finds (MoverOrder), which gives  *)
(* CurrentNotInHistory and PublishedIsKept; then why a publish is never    *)
(* given up half way (Outlasts); then the refinement.                      *)
(***************************************************************************)
EXTENDS PolicySerialProofs, PolicyRefinement, FiniteSetTheorems

\* What a call of the mover finds in the directory it is made for.  In draft/
\* it finds whatever saves have left there, but it finds the directory.
AtHand(r) ==
  IF target[r] = "draft"
  THEN pc[r] \in {"rmFile", "rmDir"} => DirectoryExists("draft")
  ELSE /\ pc[r] = "check" => store[target[r]] = NoFile \/ Readable(target[r])
       /\ pc[r] \in {"unlink", "rmFile"} => Readable(target[r])
       /\ pc[r] \in {"open", "rmDir"} => store[target[r]] = NoFile
       /\ pc[r] = "bytes" => store[target[r]] = Blank /\ handle[r] = target[r]

\* How far a publish has come, beside saves: a historical policy is in its
\* directory until it is current, and the policy it replaces is in memory from
\* before its file goes until it is in the history.
Carried(r) ==
  Promoting(r) =>
    /\ found[r].id = arg[r] /\ found[r].type \in {"Draft", "Historical"}
    /\ found[r].type = "Draft" => store[arg[r]] = NoDir
    /\ pc[r] \in OldLabels => ~HoldsPolicy("current", arg[r])
    /\ ToCurrent(r) => data[r] = AsCurrent(found[r])
    /\ ToCurrent(r) /\ pc[r] \in {"mkdir", "check", "unlink"} =>
         current[r] = IF Readable("current") THEN store["current"] ELSE Null
    /\ /\ found[r].type = "Historical"
       /\ pc[r] \in OldLabels \cup {"rmCheck", "rmFile"} \/ ToCurrent(r)
       => store[arg[r]] = found[r]
    /\ pc[r] \in RemoveLabels => target[r] = Source(r)
    /\ pc[r] \in RemoveLabels \/ Archiving(r) => store["current"] = AsCurrent(found[r])
    /\ Archiving(r) =>
         /\ target[r] \in Ids \ {arg[r]} /\ ~Readable(target[r])
         /\ store[arg[r]] = NoDir
         /\ current[r] = Null => data[r].body = DefaultBody
    /\ current[r] # Null =>
         /\ current[r].id # arg[r]
         /\ ~Archiving(r) => store[current[r].id] = NoDir
         /\ Archiving(r) => data[r] = AsHistorical(current[r])

\* What request r is doing where it is, the mover in particular.
Guided(r) ==
  /\ pc[r] = "idle" => op[r] = Null
  /\ pc[r] \in WriteLabels => op[r] \in {"Publish", "SaveAsDraft"}
  /\ pc[r] \in RemoveLabels => op[r] \in {"Publish", "Delete"}
  /\ op[r] = "Delete" /\ pc[r] \in RemoveLabels => target[r] \in {arg[r], "draft"}
  /\ pc[r] \notin WriteLabels \cup RemoveLabels => current[r] = Null
  /\ Moving(r) => AtHand(r) /\ Looking(r) /\ Carried(r)

\* Outside of draft/ only the mover leaves a directory without its policy ...
TidySettled ==
  \A d \in Settled : Tidy(d) \/ \E r \in Requests : Moving(r) /\ pc[r] \in Busy /\ target[r] = d

\* ... and who has a file open that can be found has it open where it is.
OpenOnFiles == \A r \in Requests : handle[r] \in Dirs => FileExists(handle[r])

MoverOrder == TidySettled /\ NoDouble /\ OpenOnFiles /\ \A r \in Requests : Guided(r)

\* The inductive invariant: all of this without errors from outside.
MoverInv == IInv /\ OneMover /\ (faults = 0 => MoverOrder)

\* A publish that is past reading is not given up.
Steady == faults' = 0 => \A r \in Requests : Replacing(r) => pc'[r] # "failed"

SteadySpec == Init /\ [][Next /\ OneMover' /\ Steady]_vars

-----------------------------------------------------------------------------
(* The mover and the others. *)

SoleMover(r) == \A q \in Requests \ {r} : ~Moving(q)

SettledBut(r) == \A d \in Settled : Tidy(d) \/ (pc[r] \in Busy /\ target[r] = d)

\* A request at work is in flight, and what it was asked stays.
LEMMA AtWorkInFlight ==
  ASSUME IInv, NEW r \in Requests, Work(r)
  PROVE  InFlight(r) /\ op' = op /\ arg' = arg
<1> USE DEF InFlight, Ended, ReadLabels
<1>1. Download(r) => InFlight(r)
  BY DEF Download, FindHistorical, NotHistorical, ReadHistorical, FindCurrent, NoCurrent,
    ReadCurrent, FindDraft, NoDraft, ReadDraft, FindBase, NoBase, ReadBase, FindOld,
    NoOld, ReadOld, Find, Misses, Reads
<1>2. Change(r) => InFlight(r)
  BY DEF Change, MakeDirectory, CheckFile, UnlinkOld, OpenNew, WriteData, Probe,
    CheckDirectory, RemoveFile, RemoveEmptied
<1>3. Retry(r) \/ GiveUp(r) => InFlight(r)
  BY DEF Retry, GiveUp, CallThrows, ParseThrows
<1> QED
  BY <1>1, <1>2, <1>3, WorkKeepsQuestion DEF Work

\* What the mover knows.
LEMMA MoverSees ==
  ASSUME IInv, MoverOrder, NEW r \in Requests, Moving(r), SoleMover(r)
  PROVE  /\ LocalTypes /\ LocalOK(r) /\ SettledBut(r) /\ NoDoubleBut(r)
         /\ Guided(r) /\ AtHand(r) /\ Looking(r) /\ Carried(r)
         /\ target[r] \in Dirs /\ store \in [Dirs -> Unreadable \cup Policies]
         /\ {"current", "draft"} \subseteq Dirs /\ Ids \subseteq Settled /\ "current" \in Settled
         /\ Settled \subseteq Dirs /\ "draft" \notin Settled
         /\ "current" \notin Ids /\ "draft" \notin Ids
         /\ arg[r] \in Ids /\ arg[r] \in Dirs
         /\ Promoting(r) =>
              /\ found[r] \in Policies /\ AsCurrent(found[r]).id = arg[r]
              /\ AsCurrent(found[r]) \in Policies
              /\ Source(r) \in {"draft", arg[r]} /\ Source(r) # "current"
              /\ current[r] # Null => current[r] \in Policies /\ current[r].id \in Ids
<1>1. /\ LocalTypes /\ LocalOK(r) /\ target[r] \in Dirs
      /\ store \in [Dirs -> Unreadable \cup Policies]
  BY Typed
<1>2. SettledBut(r)
  BY DEF MoverOrder, TidySettled, SettledBut, SoleMover
<1>3. NoDoubleBut(r)
  BY DEF MoverOrder, NoDouble, NoDoubleBut, SoleMover, Moving, InFlight, Ended, RemoveLabels
<1>4. Guided(r) /\ AtHand(r) /\ Looking(r) /\ Carried(r)
  BY DEF MoverOrder, Guided
<1>5. /\ {"current", "draft"} \subseteq Dirs /\ Ids \subseteq Settled /\ "current" \in Settled
      /\ Settled \subseteq Dirs /\ "draft" \notin Settled
      /\ "current" \notin Ids /\ "draft" \notin Ids
  BY NamesAreDistinct DEF Dirs, Settled
<1>6. arg[r] \in Ids /\ arg[r] \in Dirs
  BY <1>1 DEF Moving, LocalOK, ById, Dirs
<1>7. ASSUME Promoting(r)
      PROVE  /\ found[r] \in Policies /\ AsCurrent(found[r]).id = arg[r]
             /\ AsCurrent(found[r]) \in Policies
             /\ Source(r) \in {"draft", arg[r]} /\ Source(r) # "current"
             /\ current[r] # Null => current[r] \in Policies /\ current[r].id \in Ids
  <2>1. found[r] \in Policies /\ found[r].id = arg[r]
    BY <1>1, <1>4, <1>7 DEF Promoting, OldLabels, LocalOK, Carried
  <2>2. AsCurrent(found[r]) \in Policies /\ AsCurrent(found[r]).id = arg[r]
    BY <2>1 DEF AsCurrent, Policies, Types
  <2>3. Source(r) \in {"draft", arg[r]} /\ Source(r) # "current"
    BY <1>6, NamesAreDistinct DEF Source
  <2>4. current[r] # Null => current[r] \in Policies /\ current[r].id \in Ids
    BY Typed DEF Policies
  <2> QED
    BY <2>1, <2>2, <2>3, <2>4
<1> QED
  BY <1>1, <1>2, <1>3, <1>4, <1>5, <1>6, <1>7

\* It is enough to look at the mover when it steps.
LEMMA MoverStepOf ==
  ASSUME MoverOrder, NEW r \in Requests, SoleMover(r), Still(r), Moving(r), op'[r] = op[r],
         SettledBut(r)', NoDoubleBut(r)', OpenOnFiles', Guided(r)'
  PROVE  MoverOrder'
<1>1. TidySettled'
  BY DEF TidySettled, SettledBut, Moving, InFlight, Busy, Ended
<1>2. NoDouble'
  BY DEF NoDouble, NoDoubleBut
<1>3. ASSUME NEW q \in Requests, q # r PROVE Guided(q)'
  <2>1. ~Moving(q) /\ ~Moving(q)'
    BY <1>3 DEF SoleMover, Still, Moving, InFlight
  <2> QED
    BY <1>3, <2>1 DEF MoverOrder, Guided, Still
<1> QED
  BY <1>1, <1>2, <1>3 DEF MoverOrder

\* No call leaves a handle on a file that is gone.
LEMMA HandlesFollow ==
  ASSUME IInv, OpenOnFiles, NEW r \in Requests, Arrive(r) \/ Work(r)
  PROVE  OpenOnFiles'
<1> USE NamesAreDistinct DEF OpenOnFiles, FileExists
<1>1. /\ store \in [Dirs -> Unreadable \cup Policies] /\ target[r] \in Dirs
      /\ handle \in [Requests -> Dirs \cup {Closed, Orphan}]
  BY Typed
<1>2. CASE UNCHANGED <<store, handle>>
  BY <1>2
<1>3. CASE MakeDirectory(r)
  BY <1>1, <1>3 DEF MakeDirectory, CreateDirectory
<1>4. CASE UnlinkOld(r)
  BY <1>1, <1>4 DEF UnlinkOld, DeleteFile, Unlinked
<1>5. CASE OpenNew(r)
  BY <1>1, <1>5 DEF OpenNew, OpenForWrite
<1>6. CASE WriteData(r)
  <2>1. data[r] \in Policies
    BY <1>6, Typed DEF WriteData, LocalOK, WriteLabels
  <2>2. \A c \in WriteResults(r, data[r]) : c # NoDir /\ c # NoFile
    BY <2>1 DEF WriteResults, Unreadable
  <2> QED
    BY <1>1, <1>6, <2>2 DEF WriteData, WriteBytes
<1>7. CASE RemoveFile(r)
  BY <1>1, <1>7 DEF RemoveFile, EmptyDirectory, DeleteFile, Unlinked
<1>8. CASE RemoveEmptied(r)
  BY <1>1, <1>8 DEF RemoveEmptied, RemoveDirectory
<1> QED
  BY <1>2, <1>3, <1>4, <1>5, <1>6, <1>7, <1>8
  DEF Work, Change, Arrive, GetDraft, GetCurrent, GetPolicyById, Publish, Delete, SaveAsDraft,
      Begin, Download, FindHistorical, NotHistorical, ReadHistorical, FindCurrent, NoCurrent,
      ReadCurrent, FindDraft, NoDraft, ReadDraft, FindBase, NoBase, ReadBase, FindOld,
      NoOld, ReadOld, Find, Misses, Reads, CheckFile, Probe, CheckDirectory, Retry, GiveUp

-----------------------------------------------------------------------------
(* A request arrives, or works without moving policies. *)

\* Nothing the mover relies on is in draft/ or with another request.
LEMMA OutsideStep ==
  ASSUME IInv, MoverOrder, NEW r \in Requests, Still(r), ~Moving(r), OpenOnFiles', Guided(r)',
         \A d \in Settled : store'[d] = store[d],
         DirectoryExists("draft") => DirectoryExists("draft")',
         \A q \in Requests \ {r} : handle[q] \in Settled => handle'[q] = handle[q]
  PROVE  MoverOrder'
<1>1. /\ Ids \subseteq Settled /\ "current" \in Settled
      /\ Settled \subseteq Dirs /\ "draft" \notin Settled
  BY NamesAreDistinct DEF Dirs, Settled
<1>2. \A d \in Settled : Readable(d)' = Readable(d)
  BY DEF Readable
<1>3. TidySettled'
  BY <1>2 DEF MoverOrder, TidySettled, Tidy, Still, Moving, InFlight
<1>4. \A i : HoldsPolicy("current", i)' = HoldsPolicy("current", i)
  BY <1>1, <1>2 DEF HoldsPolicy
<1>5. NoDouble'
  <2> SUFFICES ASSUME NEW i \in Ids, HoldsPolicy("current", i)'
               PROVE  \/ store'[i] = NoDir
                      \/ \E s \in Requests : /\ op'[s] = "Publish" /\ pc'[s] \in RemoveLabels
                                             /\ target'[s] = i
    BY DEF NoDouble
  <2>1. store'[i] = store[i] /\ HoldsPolicy("current", i)
    BY <1>1, <1>4
  <2>2. ASSUME NEW s \in Requests, op[s] = "Publish", pc[s] \in RemoveLabels
        PROVE  Moving(s)
    BY <2>2 DEF Moving, InFlight, Ended, RemoveLabels
  <2> QED
    BY <2>1, <2>2 DEF MoverOrder, NoDouble, Still
<1>6. ASSUME NEW q \in Requests, q # r PROVE Guided(q)'
  <2>1. /\ pc'[q] = pc[q] /\ op'[q] = op[q] /\ arg'[q] = arg[q] /\ found'[q] = found[q]
        /\ current'[q] = current[q] /\ target'[q] = target[q] /\ data'[q] = data[q]
        /\ handle[q] \in Settled => handle'[q] = handle[q]
        /\ Guided(q) /\ LocalTypes /\ LocalOK(q) /\ target[q] \in Dirs
    BY <1>6, Typed DEF Still, MoverOrder
  <2>2. ASSUME Moving(q) PROVE AtHand(q)' /\ Looking(q)' /\ Carried(q)'
    <3>1. arg[q] \in Settled /\ store'[arg[q]] = store[arg[q]]
      BY <1>1, <2>1, <2>2 DEF Moving, LocalOK, ById
    <3>2. store'["current"] = store["current"] /\ Readable("current")' = Readable("current")
      BY <1>1, <1>2
    <3>3. AtHand(q)'
      <4>1. CASE target[q] = "draft"
        BY <2>1, <2>2, <4>1 DEF AtHand, Guided
      <4>2. CASE target[q] # "draft"
        <5>1. target[q] \in Settled
          BY <2>1, <4>2 DEF Settled
        <5> QED
          BY <1>2, <2>1, <2>2, <4>2, <5>1 DEF AtHand, Guided
      <4> QED
        BY <4>1, <4>2
    <3>4. Looking(q)'
      BY <1>4, <2>1, <2>2, <3>1 DEF Looking, Guided
    <3>5. Carried(q)'
      <4>1. current[q] # Null => store'[current[q].id] = store[current[q].id]
        BY <1>1, Typed DEF Policies
      <4>2. target[q] \in Ids => Readable(target[q])' = Readable(target[q])
        BY <1>1, <2>1 DEF Readable
      <4>3. Source(q)' = Source(q) /\ Promoting(q)' = Promoting(q)
            /\ ToCurrent(q)' = ToCurrent(q) /\ Archiving(q)' = Archiving(q)
        BY <2>1 DEF Source, Promoting, ToCurrent, Archiving
      <4>4. Carried(q)
        BY <2>1, <2>2 DEF Guided
      <4> QED
        BY <1>4, <2>1, <3>1, <3>2, <4>1, <4>2, <4>3, <4>4 DEF Carried
    <3> QED
      BY <3>3, <3>4, <3>5
  <2>3. Moving(q)' => Moving(q)
    BY <2>1 DEF Moving, InFlight
  <2> QED
    BY <2>1, <2>2, <2>3 DEF Guided
<1> QED
  BY <1>3, <1>5, <1>6 DEF MoverOrder

\* A request arrives.
LEMMA ArriveGuided ==
  ASSUME IInv, MoverOrder, NEW r \in Requests, Arrive(r)
  PROVE  MoverOrder'
<1> USE DEF ReadLabels, WriteLabels, RemoveLabels, OldLabels, ById
<1>1. /\ LocalTypes /\ Guided(r) /\ pc[r] = "idle" /\ UNCHANGED <<store, handle, current>>
  BY Typed DEF MoverOrder, Arrive, GetDraft, GetCurrent, GetPolicyById, Publish, Delete,
               SaveAsDraft, Begin
<1>2. /\ pc'[r] \in {"findDraft", "findCurrent", "findHistorical", "probe", "mkdir"}
      /\ pc'[r] = "mkdir" => op'[r] = "SaveAsDraft"
      /\ op'[r] \in ById => pc'[r] \in {"findHistorical", "probe"}
  BY <1>1 DEF LocalTypes, Arrive, GetDraft, GetCurrent, GetPolicyById, Publish, Delete,
              SaveAsDraft, Begin, Goto
<1>3. current'[r] = Null
  BY <1>1 DEF Guided
<1>4. Moving(r)' => pc'[r] \in {"findHistorical", "probe"}
  BY <1>2 DEF Moving
<1>5. Guided(r)'
  BY <1>2, <1>3, <1>4 DEF Guided, AtHand, Looking, Carried, Promoting
<1>6. ~Moving(r)
  BY <1>1 DEF Moving, InFlight
<1>7. Still(r) /\ OpenOnFiles'
  BY LocalsAreItsOwn, HandlesFollow DEF MoverOrder
<1> QED
  BY <1>1, <1>5, <1>6, <1>7, OutsideStep DEF DirectoryExists

\* Reads and saves go on beside the mover.
LEMMA BesideGuided ==
  ASSUME IInv, MoverOrder, NEW r \in Requests, Work(r), ~Moving(r)
  PROVE  /\ MoverOrder'
         /\ op[r] \notin {"Publish", "Delete"} /\ op'[r] = op[r]
         /\ \A d \in Settled : store'[d] = store[d]
<1> USE DEF ReadLabels, FindLabels, WriteLabels, RemoveLabels
<1>1. /\ LocalTypes /\ LocalOK(r) /\ Guided(r) /\ target[r] \in Dirs
      /\ store \in [Dirs -> Unreadable \cup Policies]
      /\ handle \in [Requests -> Dirs \cup {Closed, Orphan}]
  BY Typed DEF MoverOrder
<1>2. op'[r] = op[r] /\ op[r] \notin {"Publish", "Delete"}
  BY AtWorkInFlight DEF Moving
<1>3. ~Moving(r)'
  BY <1>2 DEF Moving
<1>4. pc[r] \notin RemoveLabels \cup {"probe"} /\ (pc[r] \in WriteLabels => target[r] = "draft")
  BY <1>1, <1>2 DEF Guided, LocalOK
<1>5. \/ UNCHANGED <<store, handle>>
      \/ /\ pc[r] \in WriteLabels
         /\ \E x : x # NoDir /\ store' = [store EXCEPT !["draft"] = x]
         /\ \A q \in Requests \ {r} : handle[q] # "draft" => handle'[q] = handle[q]
      \/ /\ UNCHANGED store
         /\ \A q \in Requests \ {r} : handle'[q] = handle[q]
  <2>1. CASE MakeDirectory(r)
    BY <1>1, <1>4, <2>1, NamesAreDistinct DEF MakeDirectory, CreateDirectory
  <2>2. CASE UnlinkOld(r)
    BY <1>1, <1>4, <2>2, NamesAreDistinct DEF UnlinkOld, DeleteFile, Unlinked
  <2>3. CASE OpenNew(r)
    BY <1>1, <1>4, <2>3, NamesAreDistinct DEF OpenNew, OpenForWrite
  <2>4. CASE WriteData(r)
    <3>1. data[r] \in Policies /\ pc[r] = "bytes" /\ target[r] = "draft"
      BY <1>1, <1>4, <2>4 DEF WriteData, LocalOK
    <3>2. handle[r] \in Dirs => handle[r] = "draft"
      BY <3>1 DEF IInv, HandlesOK
    <3>3. \A c \in WriteResults(r, data[r]) : c # NoDir
      BY <3>1, NamesAreDistinct DEF WriteResults, Unreadable
    <3> QED
      BY <1>1, <2>4, <3>1, <3>2, <3>3 DEF WriteData, WriteBytes
  <2>5. ~Probe(r) /\ ~CheckDirectory(r) /\ ~RemoveFile(r) /\ ~RemoveEmptied(r)
    BY <1>4 DEF Probe, CheckDirectory, RemoveFile, RemoveEmptied
  <2> QED
    BY <2>1, <2>2, <2>3, <2>4, <2>5
    DEF Work, Change, Download, FindHistorical, NotHistorical, ReadHistorical, FindCurrent,
      NoCurrent, ReadCurrent, FindDraft, NoDraft, ReadDraft, FindBase, NoBase, ReadBase, FindOld,
      NoOld, ReadOld, Find, Misses, Reads, CheckFile, Retry, GiveUp
<1>6. /\ \A d \in Settled : store'[d] = store[d]
      /\ DirectoryExists("draft") => DirectoryExists("draft")'
      /\ \A q \in Requests \ {r} : handle[q] \in Settled => handle'[q] = handle[q]
  BY <1>1, <1>5, NamesAreDistinct DEF Settled, DirectoryExists, Dirs
<1>7. /\ pc'[r] # "idle"
      /\ pc'[r] \in WriteLabels => pc[r] \in WriteLabels
      /\ pc'[r] \notin RemoveLabels
      /\ pc'[r] \in WriteLabels \/ current'[r] = Null
  <2>1. ASSUME NEW o \in Ended, NEW a, End(r, o, a) PROVE <1>7!:
    BY <1>1, <2>1 DEF LocalTypes, End, Goto, Ended
  <2>2. ASSUME NEW l, JustGoto(r, l), l # "idle", l \notin RemoveLabels,
               l \in WriteLabels <=> pc[r] \in WriteLabels
        PROVE  <1>7!:
    BY <1>1, <1>4, <2>2 DEF LocalTypes, JustGoto, Goto, Guided
  <2>3. ASSUME NEW p, Return(r, p) PROVE <1>7!:
    BY <1>2, <2>1, <2>3 DEF Return, Ended
  <2>4. CASE Download(r)
    <3>1. ~NoOld(r) /\ ~ReadOld(r) /\ ~FindOld(r)
      BY <1>1, <1>2 DEF NoOld, ReadOld, FindOld, Find, Misses, Reads, LocalOK
    <3> QED
      BY <1>2, <2>1, <2>2, <2>3, <2>4, <3>1
      DEF Download, FindHistorical, NotHistorical, ReadHistorical, FindCurrent, NoCurrent,
        ReadCurrent, FindDraft, NoDraft, ReadDraft, FindBase, NoBase, ReadBase,
        Find, Misses, Reads, Ended
  <2>5. CASE Change(r)
    <3>1. ~Probe(r) /\ ~CheckDirectory(r) /\ ~RemoveFile(r) /\ ~RemoveEmptied(r)
      BY <1>4 DEF Probe, CheckDirectory, RemoveFile, RemoveEmptied
    <3> QED
      BY <1>2, <2>1, <2>2, <2>5, <3>1
      DEF Change, MakeDirectory, CheckFile, UnlinkOld, OpenNew, WriteData, AfterWrite, Ended
  <2>6. CASE Retry(r)
    BY <1>1, <1>4, <2>6 DEF Retry, LocalTypes, Guided, CallThrows
  <2>7. CASE GiveUp(r)
    BY <2>1, <2>7 DEF GiveUp, Ended
  <2> QED
    BY <2>4, <2>5, <2>6, <2>7 DEF Work
<1>8. Guided(r)'
  BY <1>1, <1>2, <1>3, <1>7 DEF Guided
<1>9. Still(r) /\ OpenOnFiles'
  BY LocalsAreItsOwn, HandlesFollow DEF MoverOrder
<1> QED
  BY <1>2, <1>6, <1>8, <1>9, OutsideStep

-----------------------------------------------------------------------------
(* The mover looks for its policy. *)

\* The mover is answered, or fails.
LEMMA EndGuided ==
  ASSUME IInv, NEW r \in Requests, NEW o \in Ended, NEW a, End(r, o, a)
  PROVE  Guided(r)'
<1>1. pc'[r] = o /\ current'[r] = Null
  BY Typed DEF LocalTypes, End, Goto
<1>2. ~Moving(r)'
  BY <1>1 DEF Moving, InFlight
<1> QED
  BY <1>1, <1>2 DEF Guided, Ended, WriteLabels, RemoveLabels

\* PublishAsync has found a policy, in a directory that holds it.
LEMMA ReturnGuided ==
  ASSUME IInv, NEW r \in Requests, Guided(r), NEW d \in Dirs, Readable(d),
         Return(r, store[d]), UNCHANGED store, current[r] = Null,
         op[r] = "Publish" =>
           /\ store[d].id = arg[r]
           /\ d \in Ids => d = arg[r] /\ ~HoldsPolicy("current", arg[r])
           /\ d = "draft" => store[arg[r]] = NoDir /\ ~HoldsPolicy("current", arg[r])
  PROVE  Guided(r)'
<1>1. LocalTypes /\ store[d] \in Policies /\ Fits(store[d], d)
  BY Typed
<1>2. CASE op[r] = "Publish" /\ store[d] # Null /\ store[d].type # "Current"
  <2>1. d \in {"draft"} \cup Ids
    BY <1>1, <1>2 DEF Fits, Dirs
  <2>2. /\ pc'[r] = "findOld" /\ found'[r] = store[d]
        /\ UNCHANGED <<op, arg, current, target, data>>
    BY <1>1, <1>2 DEF LocalTypes, Return, Goto
  <2>3. AtHand(r)' /\ Looking(r)'
    BY <2>2 DEF AtHand, Looking
  <2>4. /\ found'[r].id = arg'[r] /\ found'[r].type \in {"Draft", "Historical"}
        /\ found'[r].type = "Draft" => store'[arg'[r]] = NoDir
        /\ ~HoldsPolicy("current", arg[r])'
    BY <1>1, <1>2, <2>1, <2>2, NamesAreDistinct DEF Fits, HoldsPolicy, Readable
  <2>5. found'[r].type = "Historical" => store'[arg'[r]] = found'[r]
    <3>1. CASE d \in Ids
      BY <1>2, <2>2, <3>1
    <3>2. CASE d = "draft"
      BY <1>1, <2>2, <3>2 DEF Fits
    <3> QED
      BY <2>1, <3>1, <3>2
  <2>6. Carried(r)'
    BY <2>2, <2>4, <2>5 DEF Carried, ToCurrent, Archiving, WriteLabels, RemoveLabels
  <2> QED
    BY <1>2, <2>2, <2>3, <2>6 DEF Guided, WriteLabels, RemoveLabels
<1>3. CASE ~(op[r] = "Publish" /\ store[d] # Null /\ store[d].type # "Current")
  BY <1>3, EndGuided DEF Return, Ended
<1> QED
  BY <1>2, <1>3

\* The mover looks on, if the share is right for it.
LEMMA LookOnGuided ==
  ASSUME IInv, NEW r \in Requests, Guided(r), Moving(r), NEW l \in ReadLabels \cup FindLabels,
         JustGoto(r, l), UNCHANGED <<store, handle>>, current[r] = Null,
         l \in OldLabels => pc[r] \in OldLabels,
         l \in {"findCurrent", "readCurrent", "findDraft", "readDraft"} => store[arg[r]] = NoDir,
         op[r] = "Publish" /\ l \in {"findDraft", "readDraft"} => ~HoldsPolicy("current", arg[r])
  PROVE  Guided(r)'
<1> USE DEF ReadLabels, FindLabels, WriteLabels, RemoveLabels, OldLabels
<1>1. pc'[r] = l /\ UNCHANGED <<store, handle, op, arg, found, current, target, data>>
  BY Typed DEF JustGoto, Goto, LocalTypes
<1>2. AtHand(r)'
  BY <1>1 DEF AtHand
<1>3. Looking(r)'
  BY <1>1 DEF Looking, HoldsPolicy, Readable, Moving
<1>4. Carried(r)'
  <2>1. CASE l \in OldLabels
    <3>1. Promoting(r)' => Promoting(r) /\ pc[r] \in OldLabels
      BY <1>1, <2>1 DEF Promoting
    <3> QED
      BY <1>1, <2>1, <3>1
      DEF Carried, Guided, Promoting, ToCurrent, Archiving, Source, HoldsPolicy, Readable
  <2>2. CASE l \notin OldLabels
    BY <1>1, <2>2 DEF Carried, Promoting
  <2> QED
    BY <2>1, <2>2
<1> QED
  BY <1>1, <1>2, <1>3, <1>4 DEF Guided

\* The mover finds its policy as it is, and the current one before it replaces it.
LEMMA MoverDownloads ==
  ASSUME IInv, MoverOrder, NEW r \in Requests, Moving(r), SoleMover(r), Download(r)
  PROVE  MoverOrder'
<1> USE DEF ReadLabels, FindLabels, WriteLabels, RemoveLabels, OldLabels
<1>1. /\ LocalTypes /\ LocalOK(r) /\ SettledBut(r) /\ NoDoubleBut(r)
      /\ Guided(r) /\ Looking(r) /\ Carried(r)
      /\ {"current", "draft"} \subseteq Dirs /\ Ids \subseteq Settled /\ "current" \in Settled
      /\ Settled \subseteq Dirs /\ arg[r] \in Ids /\ arg[r] \in Dirs /\ "current" \notin Ids
      /\ "draft" \notin Ids
  BY MoverSees
<1>2. pc[r] \in FindLabels \cup ReadLabels /\ UNCHANGED <<store, handle>>
  BY DEF Download, FindHistorical, NotHistorical, ReadHistorical, FindCurrent, NoCurrent,
         ReadCurrent, FindDraft, NoDraft, ReadDraft, FindBase, NoBase, ReadBase, FindOld,
         NoOld, ReadOld, Find, Misses, Reads
<1>3. current[r] = Null /\ pc[r] \notin Busy \cup RemoveLabels
  BY <1>1, <1>2 DEF Guided, Busy
<1>4. /\ \A d \in Settled : FileExists(d) => Readable(d)
      /\ \A d \in Settled : ~FileExists(d) => store[d] = NoDir
      /\ \A d \in Dirs : Readable(d) => store[d] \in Policies
      /\ \A i \in Ids : HoldsPolicy("current", i) => store[i] = NoDir
  <2>1. \A d \in Settled : store[d] = NoDir \/ Readable(d)
    BY <1>1, <1>3 DEF SettledBut, Tidy
  <2>2. \A d \in Dirs : Readable(d) <=> store[d] \in Policies
    BY DEF Readable
  <2>3. NoDir \notin Policies /\ NoFile \notin Policies
    BY NamesAreDistinct DEF Unreadable
  <2>4. \A i \in Ids : HoldsPolicy("current", i) => store[i] = NoDir
    BY <1>1, <1>3 DEF NoDoubleBut
  <2> QED
    BY <1>1, <2>1, <2>2, <2>3, <2>4 DEF FileExists
<1>5. op'[r] = op[r] /\ Still(r) /\ OpenOnFiles' /\ op[r] \in {"Publish", "Delete"}
  BY AtWorkInFlight, LocalsAreItsOwn, HandlesFollow DEF Work, MoverOrder, Moving
<1>6. SettledBut(r)' /\ NoDoubleBut(r)'
  BY <1>1, <1>2, <1>3, <1>4 DEF SettledBut, Tidy, Readable, NoDoubleBut, HoldsPolicy
<1>7. SUFFICES Guided(r)'
  BY <1>5, <1>6, MoverStepOf
<1>8. CASE FindHistorical(r) \/ FindCurrent(r) \/ FindDraft(r) \/ FindBase(r) \/ FindOld(r)
  <2>1. PICK l \in ReadLabels :
          /\ pc[r] = (CASE l = "readHistorical" -> "findHistorical"
                        [] l = "readCurrent" -> "findCurrent"
                        [] l = "readDraft" -> "findDraft"
                        [] l = "readBase" -> "findBase"
                        [] OTHER -> "findOld")
          /\ JustGoto(r, l)
    BY <1>8 DEF FindHistorical, FindCurrent, FindDraft, FindBase, FindOld, Find
  <2> QED
    BY <1>1, <1>2, <1>3, <2>1, LookOnGuided DEF Looking, ById, Moving
<1>9. CASE NotHistorical(r)
  <2>1. store[arg[r]] = NoDir
    BY <1>1, <1>4, <1>9 DEF NotHistorical, Misses
  <2> QED
    BY <1>1, <1>2, <1>3, <1>9, <2>1, LookOnGuided DEF NotHistorical
<1>10. CASE NoCurrent(r)
  <2>1. ~HoldsPolicy("current", arg[r])
    BY <1>1, <1>4, <1>10, NamesAreDistinct DEF NoCurrent, Misses, HoldsPolicy, Readable, Unreadable
  <2>2. store[arg[r]] = NoDir
    BY <1>1, <1>5, <1>10 DEF NoCurrent, Misses, Looking, ById
  <2> QED
    BY <1>1, <1>2, <1>3, <1>10, <2>1, <2>2, LookOnGuided, EndGuided DEF NoCurrent, Ended
<1>11. CASE NoDraft(r)
  BY <1>1, <1>2, <1>3, <1>11, LookOnGuided DEF NoDraft
<1>12. CASE NoBase(r) \/ ReadBase(r)
  BY <1>12, EndGuided DEF NoBase, ReadBase, Ended
<1>13. CASE ReadHistorical(r)
  <2>1. Readable(arg[r]) /\ Return(r, store[arg[r]])
    BY <1>13 DEF ReadHistorical, Reads
  <2>2. store[arg[r]] \in Policies /\ store[arg[r]].id = arg[r] /\ store[arg[r]] # NoDir
    BY <1>1, <2>1, Typed, NamesAreDistinct DEF Fits, Unreadable
  <2>3. ~HoldsPolicy("current", arg[r])
    BY <1>1, <1>4, <2>2
  <2> QED
    BY <1>1, <1>2, <1>3, <2>1, <2>2, <2>3, ReturnGuided
<1>14. CASE ReadCurrent(r)
  <2>1. pc[r] = "readCurrent" /\ Readable("current")
    BY <1>14 DEF ReadCurrent, Reads
  <2>2. CASE Asked(r, "current") /\ Return(r, store["current"])
    BY <1>1, <1>2, <1>3, <2>1, <2>2, ReturnGuided DEF Asked
  <2>3. CASE ~Asked(r, "current") /\ JustGoto(r, "findDraft")
    <3>1. store[arg[r]] = NoDir
      BY <1>1, <1>5, <2>1 DEF Looking, ById
    <3> QED
      BY <1>1, <1>2, <1>3, <2>3, <3>1, LookOnGuided DEF Asked, HoldsPolicy
  <2>4. CASE End(r, "done", store["current"])
    BY <2>4, EndGuided DEF Ended
  <2> QED
    BY <1>14, <2>2, <2>3, <2>4 DEF ReadCurrent, Asked
<1>15. CASE ReadDraft(r)
  <2>1. pc[r] = "readDraft" /\ Readable("draft")
    BY <1>15 DEF ReadDraft, Reads
  <2>2. CASE op[r] = "Delete" /\ StartRemove(r, "draft")
    <3>1. /\ pc'[r] = "rmCheck" /\ op'[r] = "Delete" /\ target'[r] = "draft"
      BY <1>1, <2>2 DEF StartRemove, Goto, LocalTypes
    <3> QED
      BY <3>1 DEF Guided, AtHand, Looking, Carried, Promoting
  <2>3. CASE Asked(r, "draft") /\ Return(r, store["draft"])
    <3>1. op[r] = "Publish" => store[arg[r]] = NoDir /\ ~HoldsPolicy("current", arg[r])
      BY <1>1, <2>1 DEF Looking, ById
    <3> QED
      BY <1>1, <1>2, <1>3, <2>1, <2>3, <3>1, ReturnGuided DEF Asked
  <2>4. CASE \E a : End(r, "done", a)
    BY <2>4, EndGuided DEF Ended
  <2> QED
    BY <1>5, <1>15, <2>2, <2>3, <2>4 DEF ReadDraft, Asked
<1>16. CASE NoOld(r)
  <2>1. op[r] = "Publish" /\ Promoting(r) /\ pc[r] = "findOld"
    BY <1>1, <1>16 DEF NoOld, Misses, LocalOK, Promoting
  <2>2. /\ pc'[r] = "mkdir" /\ target'[r] = "current" /\ data'[r] = AsCurrent(found[r])
        /\ UNCHANGED <<op, arg, found, current>>
    BY <1>1, <1>16 DEF NoOld, StartWrite, Goto, LocalTypes
  <2>3. ~Readable("current")
    BY <1>16, NamesAreDistinct DEF NoOld, Misses, FileExists, Readable, Unreadable
  <2>4. Carried(r)'
    BY <1>1, <1>2, <1>3, <2>1, <2>2, <2>3
    DEF Carried, Promoting, ToCurrent, Archiving, Source, Readable
  <2> QED
    BY <1>1, <2>1, <2>2, <2>4 DEF Guided, AtHand, Looking
<1>17. CASE ReadOld(r)
  <2>1. pc[r] = "readOld" /\ op[r] = "Publish" /\ Promoting(r) /\ Readable("current")
    BY <1>1, <1>17 DEF ReadOld, Reads, LocalOK, Promoting
  <2>2. /\ pc'[r] = "mkdir" /\ target'[r] = "current" /\ data'[r] = AsCurrent(found[r])
        /\ current'[r] = store["current"] /\ UNCHANGED <<op, arg, found>>
    BY <1>1, <1>17 DEF ReadOld, Goto, LocalTypes
  <2>3. store["current"] \in Policies /\ store["current"].id \in Ids
    BY <1>1, <1>4, <2>1 DEF Policies
  <2>4. store["current"].id # arg[r] /\ store[store["current"].id] = NoDir
    BY <1>1, <1>4, <2>1, <2>3 DEF Carried, HoldsPolicy
  <2>5. Carried(r)'
    BY <1>1, <1>2, <2>1, <2>2, <2>4
    DEF Carried, Promoting, ToCurrent, Archiving, Source, Readable
  <2> QED
    BY <1>1, <2>1, <2>2, <2>5 DEF Guided, AtHand, Looking
<1> QED
  BY <1>8, <1>9, <1>10, <1>11, <1>12, <1>13, <1>14, <1>15, <1>16, <1>17 DEF Download

\* Outside of draft/ nothing the mover calls throws.
LEMMA MoverThrowsOnDraft ==
  ASSUME IInv, NEW r \in Requests, AtHand(r), target[r] \in Dirs, CallThrows(r)
  PROVE  target[r] # "draft" => pc[r] \in ReadLabels
<1>1. NoFile # NoDir /\ NoDir \notin Policies
  BY NamesAreDistinct DEF Unreadable
<1> QED
  BY <1>1 DEF CallThrows, AtHand, Readable, DirectoryExists, FileExists, ReadLabels

\* A call of the mover throws and is made again, or it gives up.
LEMMA MoverThrows ==
  ASSUME IInv, MoverOrder, NEW r \in Requests, Moving(r), SoleMover(r), Retry(r) \/ GiveUp(r),
         Replacing(r) => pc'[r] # "failed"
  PROVE  MoverOrder'
<1> USE DEF ReadLabels, WriteLabels, RemoveLabels
<1>1. /\ LocalTypes /\ LocalOK(r) /\ SettledBut(r) /\ NoDoubleBut(r) /\ Guided(r) /\ AtHand(r)
      /\ Looking(r) /\ Carried(r) /\ target[r] \in Dirs /\ "draft" \notin Settled
      /\ arg[r] # "draft"
  BY MoverSees
<1>2. op'[r] = op[r] /\ Still(r) /\ OpenOnFiles' /\ op[r] \in {"Publish", "Delete"}
      /\ UNCHANGED <<store, handle>>
  BY AtWorkInFlight, LocalsAreItsOwn, HandlesFollow DEF Work, MoverOrder, Moving, Retry, GiveUp
<1>3. SUFFICES Guided(r)' /\ SettledBut(r)' /\ NoDoubleBut(r)'
  BY <1>2, MoverStepOf
<1>4. CASE Retry(r)
  <2>1. /\ pc'[r] = IF pc[r] = "rmDir" THEN "rmFile" ELSE pc[r]
        /\ UNCHANGED <<op, arg, found, current, target, data>> /\ CallThrows(r)
    BY <1>1, <1>4 DEF Retry, LocalTypes
  <2>2. pc[r] = "rmDir" => target[r] = "draft"
    BY <1>1, <2>1, MoverThrowsOnDraft
  <2>3. SettledBut(r)' /\ NoDoubleBut(r)'
    BY <1>1, <1>2, <2>1 DEF SettledBut, NoDoubleBut, Tidy, Readable, HoldsPolicy, Busy
  <2>4. CASE pc[r] # "rmDir"
    <3>1. pc'[r] = pc[r]
      BY <2>1, <2>4
    <3>2. AtHand(r)'
      BY <1>1, <1>2, <2>1, <3>1 DEF AtHand, Readable, DirectoryExists
    <3>3. Looking(r)'
      BY <1>1, <1>2, <2>1, <3>1 DEF Looking, HoldsPolicy, Readable
    <3>4. Carried(r)'
      BY <1>1, <1>2, <2>1, <3>1
      DEF Carried, Promoting, ToCurrent, Archiving, Source, HoldsPolicy, Readable
    <3> QED
      BY <1>1, <2>1, <2>3, <3>1, <3>2, <3>3, <3>4 DEF Guided
  <2>5. CASE pc[r] = "rmDir"
    <3>1. pc'[r] = "rmFile" /\ target[r] = "draft"
      BY <2>1, <2>2, <2>5
    <3>2. AtHand(r)'
      BY <1>1, <1>2, <2>1, <2>5, <3>1 DEF AtHand, DirectoryExists
    <3>3. Looking(r)'
      BY <3>1 DEF Looking
    <3>4. Promoting(r) => found[r].type # "Historical"
      BY <1>1, <2>5, <3>1 DEF Carried, Source
    <3>5. Carried(r)'
      BY <1>1, <1>2, <2>1, <2>5, <3>1, <3>4
      DEF Carried, Promoting, ToCurrent, Archiving, Source, OldLabels
    <3> QED
      BY <1>1, <2>1, <2>3, <2>5, <3>1, <3>2, <3>3, <3>5 DEF Guided
  <2> QED
    BY <2>4, <2>5
<1>5. CASE GiveUp(r)
  <2>1. End(r, "failed", Null) /\ (pc[r] \in ReadLabels \/ CallThrows(r))
    BY <1>5 DEF GiveUp, ParseThrows
  <2>2. Guided(r)'
    BY <2>1, EndGuided DEF Ended
  <2>3. pc'[r] = "failed" /\ target'[r] = "draft"
    BY <1>1, <2>1 DEF End, Goto, LocalTypes
  <2>4. op[r] = "Publish" => pc[r] \notin WriteLabels \cup RemoveLabels
    BY <2>3 DEF Replacing
  <2>5. pc[r] \notin WriteLabels
    BY <1>1, <1>2, <2>4 DEF Guided
  <2>6. pc[r] \in Busy => target[r] = "draft"
    BY <1>1, <2>1, <2>5, MoverThrowsOnDraft DEF Busy
  <2>7. SettledBut(r)'
    BY <1>1, <1>2, <2>6 DEF SettledBut, Tidy, Readable
  <2>8. NoDoubleBut(r)'
    BY <1>1, <1>2, <2>4 DEF NoDoubleBut, HoldsPolicy, Readable
  <2> QED
    BY <2>2, <2>7, <2>8
<1> QED
  BY <1>4, <1>5

\* A step of the mover within WriteAsync, before the bytes are written.
LEMMA MoverWriteStep ==
  ASSUME IInv, MoverOrder, NEW r \in Requests, Moving(r), SoleMover(r), Still(r), OpenOnFiles',
         pc[r] \in WriteLabels, pc'[r] \in WriteLabels \cap Busy,
         op'[r] = op[r], arg'[r] = arg[r], found'[r] = found[r], current'[r] = current[r],
         target'[r] = target[r], data'[r] = data[r],
         NEW x, x \notin Policies \/ x = store[target[r]],
         store' = [store EXCEPT ![target[r]] = x], AtHand(r)',
         pc'[r] \in {"check", "unlink"} =>
           /\ pc[r] \in {"mkdir", "check"}
           /\ x = store[target[r]] \/ ~Readable(target[r])
  PROVE  MoverOrder'
<1> USE DEF WriteLabels, RemoveLabels, OldLabels, ReadLabels
<1>1. /\ LocalOK(r) /\ SettledBut(r) /\ NoDoubleBut(r) /\ Guided(r) /\ Carried(r)
      /\ target[r] \in Dirs /\ store \in [Dirs -> Unreadable \cup Policies]
      /\ {"current", "draft"} \subseteq Dirs /\ Settled \subseteq Dirs /\ Ids \subseteq Settled
      /\ "current" \notin Ids /\ arg[r] \in Ids
  BY MoverSees
<1>2. op[r] = "Publish" /\ Promoting(r)
  BY <1>1 DEF Guided, Moving, Promoting
<1>3. /\ found[r] \in Policies /\ AsCurrent(found[r]).id = arg[r]
      /\ Source(r) \in {"draft", arg[r]} /\ Source(r) # "current"
      /\ current[r] # Null => current[r].id \in Ids
  BY <1>2, MoverSees
<1>4. \A d \in Dirs : store'[d] = IF d = target[r] THEN x ELSE store[d]
  BY <1>1
<1>5. SettledBut(r)'
  BY <1>1, <1>4 DEF SettledBut, Tidy, Readable
<1>6. /\ ToCurrent(r)' <=> ToCurrent(r)
      /\ Archiving(r)' <=> Archiving(r)
      /\ Source(r)' = Source(r)
      /\ ToCurrent(r) <=> target[r] = "current"
      /\ Archiving(r) <=> target[r] # "current"
  BY DEF ToCurrent, Archiving, Source
<1>7. Carried(r)'
  <2>1. CASE target[r] = "current"
    <3>1. \A d \in Ids : store'[d] = store[d]
      BY <1>1, <1>4, <2>1
    <3>2. store'["current"] = x
      BY <1>1, <1>4, <2>1
    <3>3. pc'[r] \in {"check", "unlink"} =>
            current[r] = IF Readable("current")' THEN store'["current"] ELSE Null
      BY <1>1, <1>2, <1>6, <2>1, <3>2 DEF Carried, Readable
    <3> QED
      BY <1>1, <1>2, <1>3, <1>6, <2>1, <3>1, <3>3, NamesAreDistinct
      DEF Carried, Promoting, Busy
  <2>2. CASE target[r] # "current"
    <3>1. target[r] \in Ids \ {arg[r]} /\ ~Readable(target[r])
      BY <1>1, <1>2, <1>6, <2>2 DEF Carried
    <3>2. store'["current"] = store["current"] /\ store'[arg[r]] = store[arg[r]]
      BY <1>1, <1>4, <2>2, <3>1
    <3>3. ~Readable(target[r])'
      BY <1>1, <1>4, <3>1 DEF Readable
    <3> QED
      BY <1>1, <1>2, <1>6, <2>2, <3>1, <3>2, <3>3 DEF Carried, Promoting
  <2> QED
    BY <2>1, <2>2
<1>8. NoDoubleBut(r)'
  <2> SUFFICES ASSUME NEW i \in Ids, HoldsPolicy("current", i)' PROVE store'[i] = NoDir
    BY DEF NoDoubleBut
  <2>1. i \in Dirs /\ i # "current"
    BY <1>1
  <2>2. HoldsPolicy("current", i)
    BY <1>1, <1>4 DEF HoldsPolicy, Readable
  <2>3. store[i] = NoDir
    BY <1>1, <2>2 DEF NoDoubleBut
  <2>4. target[r] # i
    <3> SUFFICES ASSUME target[r] = i PROVE FALSE
      OBVIOUS
    <3>1. i = arg[r] /\ target[r] # arg[r]
      BY <1>1, <1>2, <1>3, <1>6, <2>1, <2>2 DEF Carried, HoldsPolicy
    <3> QED
      BY <3>1
  <2> QED
    BY <1>4, <2>1, <2>3, <2>4
<1>9. Guided(r)'
  BY <1>1, <1>2, <1>7 DEF Guided, Looking
<1> QED
  BY <1>5, <1>8, <1>9, MoverStepOf

\* The directory the mover removes is gone: a publish goes on to archive, a
\* delete is done.
LEMMA MoverRemoved ==
  ASSUME IInv, MoverOrder, NEW r \in Requests, Moving(r), SoleMover(r), Still(r), OpenOnFiles',
         pc[r] \in RemoveLabels, store' = [store EXCEPT ![target[r]] = NoDir], AfterRemove(r)
  PROVE  MoverOrder'
<1> USE DEF RemoveLabels
<1>1. /\ LocalTypes /\ LocalOK(r) /\ SettledBut(r) /\ NoDoubleBut(r) /\ Guided(r) /\ Carried(r)
      /\ target[r] \in Dirs /\ store \in [Dirs -> Unreadable \cup Policies]
      /\ {"current", "draft"} \subseteq Dirs /\ Settled \subseteq Dirs /\ Ids \subseteq Settled
      /\ "current" \notin Ids /\ arg[r] \in Ids /\ arg[r] \in Dirs
  BY MoverSees
<1>2. target[r] # "current" /\ op[r] \in {"Publish", "Delete"}
  BY <1>1 DEF LocalOK, Moving
<1>3. \A d \in Dirs : store'[d] = IF d = target[r] THEN NoDir ELSE store[d]
  BY <1>1
<1>4. \A d \in Settled : Tidy(d)'
  BY <1>1, <1>3 DEF SettledBut, Tidy, Readable
<1>5. \A i \in Ids : HoldsPolicy("current", i)' => store'[i] = NoDir
  <2> SUFFICES ASSUME NEW i \in Ids, HoldsPolicy("current", i)' PROVE store'[i] = NoDir
    OBVIOUS
  <2>1. HoldsPolicy("current", i)
    BY <1>1, <1>2, <1>3 DEF HoldsPolicy, Readable
  <2> QED
    BY <1>1, <1>3, <2>1 DEF NoDoubleBut
<1>6. SettledBut(r)' /\ NoDoubleBut(r)'
  BY <1>4, <1>5 DEF SettledBut, NoDoubleBut
<1>7. CASE op[r] # "Publish"
  <2>1. End(r, "done", Null)
    BY <1>7 DEF AfterRemove
  <2>2. op'[r] = op[r]
    BY <1>1, <2>1 DEF End
  <2> QED
    BY <1>6, <2>1, <2>2, EndGuided, MoverStepOf DEF Ended
<1>8. CASE op[r] = "Publish"
  <2>1. Promoting(r)
    BY <1>8 DEF Promoting
  <2>2. PICK p \in Archived(r) : StartWrite(r, p.id, p)
    BY <1>8 DEF AfterRemove
  <2>3. /\ pc'[r] = "mkdir" /\ target'[r] = p.id /\ data'[r] = p
        /\ op'[r] = op[r] /\ arg'[r] = arg[r] /\ found'[r] = found[r] /\ current'[r] = current[r]
    BY <1>1, <2>2 DEF StartWrite, Goto, LocalTypes
  <2>4. p.id \in Ids \ {arg[r]} /\ store[p.id] = NoDir
    <3>1. CASE current[r] = Null
      <4>1. p.id \in FreshIds
        BY <3>1 DEF Archived
      <4> QED
        BY <1>1, <4>1 DEF FreshIds, IdsInUse, DirectoryExists
    <3>2. CASE current[r] # Null
      <4>1. p = AsHistorical(current[r]) /\ current[r] \in Policies
        BY <3>2, <2>1, MoverSees DEF Archived
      <4>2. p.id = current[r].id /\ p.id \in Ids
        BY <4>1 DEF AsHistorical, Policies
      <4>3. ~Archiving(r)
        BY DEF Archiving, WriteLabels
      <4> QED
        BY <1>1, <2>1, <3>2, <4>2, <4>3 DEF Carried
    <3> QED
      BY <3>1, <3>2
  <2>5. /\ current[r] # Null => p = AsHistorical(current[r])
        /\ current[r] = Null => p.body = DefaultBody
    BY DEF Archived
  <2>6. store'["current"] = AsCurrent(found[r])
    BY <1>1, <1>2, <1>3, <2>1 DEF Carried
  <2>7. store'[arg[r]] = NoDir
    <3>1. CASE found[r].type = "Draft"
      BY <1>1, <1>3, <2>1, <3>1 DEF Carried
    <3>2. CASE found[r].type = "Historical"
      BY <1>1, <1>3, <2>1, <3>2 DEF Carried, Source
    <3> QED
      BY <1>1, <2>1, <3>1, <3>2 DEF Carried
  <2>8. ~Readable(p.id)'
    BY <1>1, <1>3, <2>4, NamesAreDistinct DEF Readable, Unreadable
  <2>9. p.id # "current"
    BY <1>1, <2>4
  <2>10. /\ found[r].id = arg[r] /\ found[r].type \in {"Draft", "Historical"}
         /\ current[r] # Null => current[r].id # arg[r]
    BY <1>1, <2>1 DEF Carried
  <2>11. Carried(r)'
    <3>1. ~ToCurrent(r)' /\ pc'[r] \notin OldLabels \cup RemoveLabels
      BY <2>3, <2>9 DEF ToCurrent, OldLabels
    <3>2. pc'[r] \notin OldLabels \cup {"rmCheck", "rmFile"}
      BY <2>3 DEF OldLabels
    <3>3. target'[r] \in Ids \ {arg'[r]} /\ ~Readable(target[r])' /\ store'[arg'[r]] = NoDir
      BY <2>3, <2>4, <2>7, <2>8 DEF Readable
    <3>4. store'["current"] = AsCurrent(found[r])' /\ (current'[r] = Null => data'[r].body = DefaultBody)
      BY <2>3, <2>5, <2>6 DEF AsCurrent
    <3>5. current'[r] # Null => /\ current'[r].id # arg'[r]
                                /\ data'[r] = AsHistorical(current[r])'
                                /\ Archiving(r)'
      BY <2>3, <2>5, <2>9, <2>10 DEF AsHistorical, Archiving, WriteLabels
    <3>6. found'[r].id = arg'[r] /\ found'[r].type \in {"Draft", "Historical"}
          /\ store'[arg'[r]] = NoDir
      BY <2>3, <2>7, <2>10
    <3> QED
      BY <3>1, <3>2, <3>3, <3>4, <3>5, <3>6 DEF Carried
  <2>12. Guided(r)'
    BY <1>8, <2>3, <2>4, <2>11, <1>1, <2>9, NamesAreDistinct
    DEF Guided, AtHand, Looking, WriteLabels
  <2> QED
    BY <1>6, <2>3, <2>12, MoverStepOf
<1> QED
  BY <1>7, <1>8

\* The bytes of the mover are written.
LEMMA MoverWritten ==
  ASSUME IInv, MoverOrder, NEW r \in Requests, Moving(r), SoleMover(r), Still(r), OpenOnFiles',
         WriteData(r)
  PROVE  MoverOrder'
<1> USE DEF WriteLabels, RemoveLabels
<1>1. /\ LocalTypes /\ LocalOK(r) /\ SettledBut(r) /\ NoDoubleBut(r) /\ Guided(r) /\ Carried(r)
      /\ AtHand(r) /\ target[r] \in Dirs /\ store \in [Dirs -> Unreadable \cup Policies]
      /\ {"current", "draft"} \subseteq Dirs /\ Settled \subseteq Dirs /\ Ids \subseteq Settled
      /\ "current" \notin Ids /\ "draft" \notin Ids /\ arg[r] \in Ids /\ arg[r] \in Dirs
  BY MoverSees
<1>2. pc[r] = "bytes" /\ AfterWrite(r) /\ WriteBytes(r, data[r])
  BY DEF WriteData
<1>3. op[r] = "Publish" /\ Promoting(r)
  BY <1>1, <1>2 DEF Guided, Moving, Promoting
<1>4. target[r] # "draft"
  BY <1>1, <1>2, <1>3 DEF Carried, Archiving
<1>5. data[r] \in Policies /\ handle[r] = target[r] /\ store[target[r]] = Blank
  BY <1>1, <1>2, <1>4 DEF LocalOK, AtHand
<1>6. store' = [store EXCEPT ![target[r]] = data[r]]
  BY <1>1, <1>2, <1>5, NamesAreDistinct DEF WriteBytes, WriteResults
<1>7. \A d \in Dirs : store'[d] = IF d = target[r] THEN data[r] ELSE store[d]
  BY <1>1, <1>6
<1>8. SettledBut(r)'
  BY <1>1, <1>5, <1>7 DEF SettledBut, Tidy, Readable
<1>9. /\ found[r] \in Policies /\ AsCurrent(found[r]).id = arg[r]
      /\ found[r].id = arg[r] /\ found[r].type \in {"Draft", "Historical"}
      /\ Source(r) \in {"draft", arg[r]} /\ Source(r) # "current"
      /\ current[r] # Null => current[r].id \in Ids /\ current[r].id # arg[r]
  BY <1>1, <1>3, MoverSees DEF Carried
<1>10. CASE target[r] = "current"
  <2>1. ToCurrent(r) /\ ~Archiving(r) /\ StartRemove(r, Source(r))
    BY <1>2, <1>3, <1>10 DEF ToCurrent, Archiving, AfterWrite
  <2>2. /\ pc'[r] = "rmCheck" /\ target'[r] = Source(r) /\ data'[r] = data[r]
        /\ op'[r] = op[r] /\ arg'[r] = arg[r] /\ found'[r] = found[r] /\ current'[r] = current[r]
    BY <1>1, <2>1, <1>9 DEF StartRemove, Goto, LocalTypes
  <2>3. \A d \in Ids : store'[d] = store[d]
    BY <1>1, <1>7, <1>10
  <2>4. store'["current"] = AsCurrent(found[r])
    BY <1>1, <1>3, <1>7, <1>10, <2>1 DEF Carried
  <2>5. Source(r)' = Source(r)
    BY <2>2 DEF Source
  <2>6. found[r].type = "Draft" => store'[arg[r]] = NoDir
    BY <1>1, <1>3, <2>3 DEF Carried
  <2>7. found[r].type = "Historical" => store'[arg[r]] = found[r]
    BY <1>1, <1>3, <2>1, <2>3 DEF Carried
  <2>8. Carried(r)'
    <3>1. ~ToCurrent(r)' /\ ~Archiving(r)' /\ pc'[r] \notin OldLabels
      BY <2>2 DEF ToCurrent, Archiving, OldLabels
    <3>2. store'["current"] = AsCurrent(found[r])'
      BY <2>2, <2>4 DEF AsCurrent
    <3>3. current[r] # Null => store'[current[r].id] = NoDir
      BY <1>1, <1>3, <1>9, <2>1, <2>3 DEF Carried
    <3> QED
      BY <1>9, <2>2, <2>5, <2>6, <2>7, <3>1, <3>2, <3>3 DEF Carried
  <2>9. Guided(r)'
    BY <1>3, <2>2, <2>8, <1>9 DEF Guided, AtHand, Looking
  <2>10. NoDoubleBut(r)'
    <3> SUFFICES ASSUME NEW i \in Ids, HoldsPolicy("current", i)'
                 PROVE  store'[i] = NoDir \/ target'[r] = i
      BY <1>3, <2>2 DEF NoDoubleBut
    <3>1. i = arg[r]
      BY <1>9, <2>4 DEF HoldsPolicy
    <3> QED
      BY <1>9, <2>2, <2>6, <3>1 DEF Source
  <2> QED
    BY <1>8, <2>2, <2>9, <2>10, MoverStepOf
<1>11. CASE target[r] # "current"
  <2>1. Archiving(r) /\ End(r, "done", found[r])
    BY <1>2, <1>3, <1>11 DEF Archiving, AfterWrite
  <2>2. target[r] # arg[r] /\ store["current"] = AsCurrent(found[r]) /\ store[arg[r]] = NoDir
    BY <1>1, <1>3, <2>1 DEF Carried
  <2>3. store'["current"] = AsCurrent(found[r]) /\ store'[arg[r]] = NoDir
    BY <1>1, <1>7, <1>11, <2>2
  <2>4. NoDoubleBut(r)'
    BY <1>9, <2>3 DEF NoDoubleBut, HoldsPolicy
  <2>5. op'[r] = op[r] /\ Guided(r)'
    BY <2>1, EndGuided DEF End, Ended
  <2> QED
    BY <1>8, <2>4, <2>5, MoverStepOf
<1> QED
  BY <1>10, <1>11

\* The mover makes, fills and empties directories in the order it should.
LEMMA MoverChanges ==
  ASSUME IInv, MoverOrder, NEW r \in Requests, Moving(r), SoleMover(r), Change(r)
  PROVE  MoverOrder'
<1> USE DEF WriteLabels, RemoveLabels, Busy
<1>1. /\ LocalTypes /\ LocalOK(r) /\ SettledBut(r) /\ NoDoubleBut(r) /\ Guided(r) /\ Carried(r)
      /\ AtHand(r) /\ target[r] \in Dirs /\ store \in [Dirs -> Unreadable \cup Policies]
      /\ {"current", "draft"} \subseteq Dirs /\ Settled \subseteq Dirs /\ Ids \subseteq Settled
      /\ "current" \notin Ids /\ "draft" \notin Ids /\ arg[r] \in Ids /\ "draft" \notin Settled
      /\ arg[r] \in Dirs
  BY MoverSees
<1>2. Still(r) /\ OpenOnFiles' /\ op'[r] = op[r] /\ op[r] \in {"Publish", "Delete"}
  BY AtWorkInFlight, LocalsAreItsOwn, HandlesFollow DEF Work, MoverOrder, Moving
<1>3. ASSUME NEW l, JustGoto(r, l)
      PROVE  /\ pc'[r] = l /\ op'[r] = op[r] /\ arg'[r] = arg[r] /\ found'[r] = found[r]
             /\ current'[r] = current[r] /\ target'[r] = target[r] /\ data'[r] = data[r]
  BY <1>1, <1>3 DEF JustGoto, Goto, LocalTypes
<1>4. pc[r] \in WriteLabels => target[r] # "draft" /\ target[r] \in Settled
  <2>1. ASSUME pc[r] \in WriteLabels PROVE target[r] # "draft"
    <3>1. Promoting(r)
      BY <1>1, <2>1 DEF Guided, Moving, Promoting
    <3> QED
      BY <1>1, <2>1, <3>1 DEF Carried, Archiving
  <2> QED
    BY <1>1, <2>1 DEF Settled
<1>5. NoDir \notin Policies /\ NoFile \notin Policies /\ Blank \notin Policies
      /\ NoFile # NoDir
  BY NamesAreDistinct DEF Unreadable
<1>6. CASE MakeDirectory(r)
  <2> DEFINE x == IF store[target[r]] = NoDir THEN NoFile ELSE store[target[r]]
  <2>1. pc[r] = "mkdir" /\ JustGoto(r, "check") /\ store' = [store EXCEPT ![target[r]] = x]
    BY <1>6 DEF MakeDirectory, CreateDirectory
  <2>2. Tidy(target[r]) /\ target[r] # "draft"
    BY <1>1, <1>4, <2>1 DEF SettledBut
  <2>3. (x = NoFile /\ ~Readable(target[r])) \/ (x = store[target[r]] /\ Readable(target[r]))
    BY <1>5, <2>2 DEF Tidy, Readable
  <2>4. store'[target[r]] = x
    BY <1>1, <2>1
  <2>5. AtHand(r)'
    BY <1>3, <2>1, <2>2, <2>3, <2>4 DEF AtHand, Readable
  <2> HIDE DEF x
  <2> QED
    BY <1>2, <1>3, <1>5, <2>1, <2>3, <2>5, MoverWriteStep
<1>7. CASE CheckFile(r)
  <2>1. pc[r] = "check" /\ UNCHANGED store
        /\ JustGoto(r, IF FileExists(target[r]) THEN "unlink" ELSE "open")
    BY <1>7 DEF CheckFile
  <2>2. store' = [store EXCEPT ![target[r]] = store[target[r]]]
    BY <1>1, <2>1
  <2>3. /\ FileExists(target[r]) => Readable(target[r])
        /\ ~FileExists(target[r]) => store[target[r]] = NoFile
    BY <1>1, <1>4, <1>5, <2>1 DEF AtHand, FileExists, Readable
  <2>4. AtHand(r)'
    BY <1>3, <1>4, <2>1, <2>3 DEF AtHand, Readable
  <2> QED
    BY <1>2, <1>3, <2>1, <2>2, <2>4, MoverWriteStep
<1>8. CASE UnlinkOld(r)
  <2>1. pc[r] = "unlink" /\ JustGoto(r, "open") /\ store' = [store EXCEPT ![target[r]] = NoFile]
    BY <1>8 DEF UnlinkOld, DeleteFile
  <2>2. store'[target[r]] = NoFile
    BY <1>1, <2>1
  <2>3. AtHand(r)'
    BY <1>3, <1>4, <2>1, <2>2 DEF AtHand
  <2> QED
    BY <1>2, <1>3, <1>5, <2>1, <2>3, MoverWriteStep
<1>9. CASE OpenNew(r)
  <2>1. /\ pc[r] = "open" /\ JustGoto(r, "bytes") /\ store' = [store EXCEPT ![target[r]] = Blank]
        /\ handle' = [handle EXCEPT ![r] = target[r]]
    BY <1>9 DEF OpenNew, OpenForWrite
  <2>2. store'[target[r]] = Blank /\ handle'[r] = target[r]
    BY <1>1, <2>1, Typed
  <2>3. AtHand(r)'
    BY <1>3, <1>4, <2>1, <2>2 DEF AtHand
  <2> QED
    BY <1>2, <1>3, <1>5, <2>1, <2>3, MoverWriteStep
<1>10. CASE WriteData(r)
  BY <1>2, <1>10, MoverWritten
<1>11. CASE Probe(r)
  <2>1. pc[r] = "probe" /\ UNCHANGED <<store, handle>> /\ op[r] = "Delete" /\ current[r] = Null
    BY <1>1, <1>11 DEF Probe, LocalOK, Guided
  <2>2. SettledBut(r)' /\ NoDoubleBut(r)'
    BY <1>1, <2>1 DEF SettledBut, Tidy, Readable, NoDoubleBut, HoldsPolicy
  <2>3. CASE StartRemove(r, arg[r])
    <3>1. pc'[r] = "rmCheck" /\ op'[r] = op[r] /\ target'[r] = arg[r] /\ arg'[r] = arg[r]
      BY <1>1, <2>3 DEF StartRemove, Goto, LocalTypes
    <3>2. Guided(r)'
      BY <2>1, <3>1 DEF Guided, AtHand, Looking, Carried, Promoting
    <3> QED
      BY <1>2, <2>2, <3>2, MoverStepOf
  <2>4. CASE store[arg[r]] = NoDir /\ JustGoto(r, "findDraft")
    <3>1. Guided(r)'
      BY <1>3, <2>1, <2>4 DEF Guided, AtHand, Looking, Carried, Promoting
    <3> QED
      BY <1>2, <2>2, <3>1, MoverStepOf
  <2> QED
    BY <1>11, <2>3, <2>4 DEF Probe, DirectoryExists
<1>12. CASE CheckDirectory(r)
  <2>1. pc[r] = "rmCheck" /\ UNCHANGED <<store, handle>> /\ target[r] # "current"
    BY <1>1, <1>12 DEF CheckDirectory, LocalOK
  <2>2. CASE store[target[r]] # NoDir /\ JustGoto(r, "rmFile")
    <3>1. target[r] # "draft" => Readable(target[r])
      BY <1>1, <2>1, <2>2 DEF SettledBut, Tidy, Settled
    <3>2. AtHand(r)' /\ Looking(r)'
      BY <1>3, <2>1, <2>2, <3>1 DEF AtHand, Looking, Readable, DirectoryExists
    <3>3. Carried(r)'
      BY <1>1, <1>3, <2>1, <2>2
      DEF Carried, Promoting, OldLabels, ToCurrent, Archiving, Source
    <3>4. Guided(r)'
      BY <1>1, <1>3, <2>1, <2>2, <3>2, <3>3 DEF Guided
    <3>5. SettledBut(r)' /\ NoDoubleBut(r)'
      BY <1>1, <1>3, <2>1, <2>2 DEF SettledBut, Tidy, NoDoubleBut, HoldsPolicy, Readable
    <3> QED
      BY <1>2, <3>4, <3>5, MoverStepOf
  <2>3. CASE store[target[r]] = NoDir /\ AfterRemove(r)
    <3>1. store' = [store EXCEPT ![target[r]] = NoDir]
      BY <1>1, <2>1, <2>3
    <3> QED
      BY <1>2, <2>1, <2>3, <3>1, MoverRemoved
  <2> QED
    BY <1>12, <2>2, <2>3 DEF CheckDirectory, DirectoryExists
<1>13. CASE RemoveFile(r)
  <2>1. /\ pc[r] = "rmFile" /\ store' = [store EXCEPT ![target[r]] = NoFile]
        /\ pc' = [pc EXCEPT ![r] = "rmDir"] /\ UNCHANGED locals /\ target[r] # "current"
    BY <1>1, <1>13 DEF RemoveFile, EmptyDirectory, DeleteFile, LocalOK
  <2>2. pc'[r] = "rmDir" /\ UNCHANGED <<op, arg, found, current, target, data>>
    BY <1>1, <2>1 DEF locals, LocalTypes
  <2>3. \A d \in Dirs : store'[d] = IF d = target[r] THEN NoFile ELSE store[d]
    BY <1>1, <2>1
  <2>4. SettledBut(r)'
    BY <1>1, <2>1, <2>2, <2>3 DEF SettledBut, Tidy, Readable
  <2>5. NoDoubleBut(r)'
    <3> SUFFICES ASSUME NEW i \in Ids, HoldsPolicy("current", i)'
                 PROVE  store'[i] = NoDir \/ (op[r] = "Publish" /\ target[r] = i)
      BY <2>2 DEF NoDoubleBut
    <3>1. i \in Dirs /\ HoldsPolicy("current", i)
      BY <1>1, <2>1, <2>3 DEF HoldsPolicy, Readable, Dirs
    <3>2. CASE i # target[r]
      BY <1>1, <2>3, <3>1, <3>2 DEF NoDoubleBut
    <3>3. CASE i = target[r]
      BY <1>1, <1>5, <2>1, <3>1, <3>3 DEF NoDoubleBut, AtHand, Readable
    <3> QED
      BY <3>2, <3>3
  <2>6. AtHand(r)' /\ Looking(r)'
    BY <1>1, <1>5, <2>2, <2>3 DEF AtHand, Looking, DirectoryExists
  <2>7. Carried(r)'
    <3> SUFFICES ASSUME op[r] = "Publish" PROVE Carried(r)'
      BY <2>2 DEF Carried, Promoting
    <3>1. Promoting(r) /\ ~Archiving(r) /\ target[r] = Source(r)
      BY <1>1, <2>1 DEF Promoting, Carried, Archiving
    <3>2. store'["current"] = AsCurrent(found[r])
      BY <1>1, <2>1, <2>3, <3>1 DEF Carried
    <3>3. found[r].type = "Draft" => store'[arg[r]] = NoDir
      BY <1>1, <2>3, <3>1 DEF Carried, Source
    <3>4. current[r] # Null => store'[current[r].id] = NoDir
      <4> SUFFICES ASSUME current[r] # Null PROVE store'[current[r].id] = NoDir
        OBVIOUS
      <4>1. current[r].id \in Ids /\ current[r].id # arg[r] /\ Source(r) \in {"draft", arg[r]}
            /\ store[current[r].id] = NoDir
        BY <1>1, <3>1, MoverSees DEF Carried
      <4> QED
        BY <1>1, <2>3, <3>1, <4>1
    <3> QED
      BY <1>1, <2>1, <2>2, <3>1, <3>2, <3>3, <3>4
      DEF Carried, Promoting, OldLabels, ToCurrent, Archiving, Source
  <2>8. Guided(r)'
    BY <1>1, <2>1, <2>2, <2>6, <2>7 DEF Guided
  <2> QED
    BY <1>2, <2>4, <2>5, <2>8, MoverStepOf
<1>14. CASE RemoveEmptied(r)
  BY <1>2, <1>14, MoverRemoved DEF RemoveEmptied, RemoveDirectory
<1> QED
  BY <1>6, <1>7, <1>8, <1>9, <1>10, <1>11, <1>12, <1>13, <1>14 DEF Change

-----------------------------------------------------------------------------
(* The invariant. *)

\* At first nobody moves anything.
LEMMA MoverAtFirst == Init => MoverInv
<1> SUFFICES ASSUME Init PROVE MoverInv
  OBVIOUS
<1>1. IInv
  BY InitInvariant
<1>2. \A r \in Requests : /\ pc[r] = "idle" /\ op[r] = Null /\ current[r] = Null
                          /\ handle[r] = Closed
  BY DEF Init
<1>3. \A r \in Requests : ~Moving(r)
  BY <1>2 DEF Moving, InFlight
<1>4. \A d \in Dirs : Tidy(d)
  BY InitialStore DEF Tidy, Readable
<1>5. TidySettled /\ NoDouble /\ OpenOnFiles
  BY <1>2, <1>4, NoDoubleAtFirst, NamesAreDistinct
  DEF TidySettled, Settled, NoDouble, OpenOnFiles
<1>6. \A r \in Requests : Guided(r)
  BY <1>2, <1>3 DEF Guided, WriteLabels, RemoveLabels
<1> QED
  BY <1>1, <1>3, <1>5, <1>6 DEF MoverInv, MoverOrder, OneMover

\* Each request's step keeps the order.
LEMMA MoverOrderStep ==
  ASSUME IInv, MoverOrder, OneMover, NEW r \in Requests, Arrive(r) \/ Work(r),
         Replacing(r) => pc'[r] # "failed"
  PROVE  MoverOrder'
<1>1. CASE Arrive(r)
  BY <1>1, ArriveGuided
<1>2. CASE Work(r) /\ ~Moving(r)
  BY <1>2, BesideGuided
<1>3. CASE Work(r) /\ Moving(r)
  <2>1. SoleMover(r)
    BY <1>3 DEF OneMover, SoleMover
  <2> QED
    BY <1>3, <2>1, MoverDownloads, MoverChanges, MoverThrows DEF Work
<1> QED
  BY <1>1, <1>2, <1>3

\* Every step of a steady mover keeps the invariant.
LEMMA MoverStep == MoverInv /\ [Next /\ OneMover' /\ Steady]_vars => MoverInv'
<1> SUFFICES ASSUME MoverInv, [Next /\ OneMover' /\ Steady]_vars PROVE MoverInv'
  OBVIOUS
<1>1. IInv /\ IInv'
  BY StepKeeps DEF MoverInv
<1>2. OneMover /\ OneMover'
  BY DEF MoverInv, vars, locals, OneMover, Moving, InFlight
<1>3. ASSUME faults' = 0 PROVE MoverOrder'
  <2>1. MoverOrder /\ ((\E r \in Requests : Arrive(r) \/ Work(r)) \/ UNCHANGED vars)
    BY <1>1, <1>3, WhoSteps DEF MoverInv
  <2>2. CASE UNCHANGED vars
    BY <2>1, <2>2
    DEF vars, locals, MoverOrder, TidySettled, Tidy, Readable, NoDouble, HoldsPolicy, OpenOnFiles,
        FileExists, DirectoryExists, Guided, AtHand, Moving, InFlight, Looking, Carried, Promoting,
        ToCurrent, Archiving, Source
  <2>3. CASE ~UNCHANGED vars
    <3>1. \A q \in Requests : Replacing(q) => pc'[q] # "failed"
      BY <1>3, <2>3 DEF Steady
    <3> QED
      BY <1>1, <1>2, <2>1, <2>3, <3>1, MoverOrderStep
  <2> QED
    BY <2>2, <2>3
<1> QED
  BY <1>1, <1>2, <1>3 DEF MoverInv

\* The invariant holds as long as clients leave one mover at a time and no
\* publish is given up.
LEMMA MoverInvariance == SteadySpec => []MoverInv
<1> QED
  BY MoverAtFirst, MoverStep, PTL DEF SteadySpec

\* PublishAsync and DeleteAsync, one at a time beside any reads and saves, leave
\* nothing both current and historical once the answers are out, as long as no
\* publish that is past reading is given up.
THEOREM CurrentWhenSteady == SteadySpec => []CurrentNotInHistory
<1>1. MoverInv => CurrentNotInHistory
  <2> SUFFICES ASSUME MoverInv, AtRest, faults = 0, NEW i \in Ids, HoldsPolicy("current", i)
               PROVE  ~DirectoryExists(i)
    BY DEF CurrentNotInHistory
  <2>1. store[i] = NoDir
    BY DEF MoverInv, MoverOrder, NoDouble, AtRest, InFlight, Ended, RemoveLabels
  <2> QED
    BY <2>1 DEF DirectoryExists
<1> QED
  BY <1>1, MoverInvariance, PTL

-----------------------------------------------------------------------------
(* What was published stays. *)

\* A publish goes on, call after call, until it writes what it archives.
LEMMA PublishGoesOn ==
  ASSUME IInv, NEW r \in Requests, Change(r), op[r] = "Publish",
         ~(pc[r] = "bytes" /\ target[r] # "current")
  PROVE  /\ op'[r] = op[r] /\ arg'[r] = arg[r] /\ found'[r] = found[r]
         /\ current'[r] = current[r] /\ pc'[r] \in WriteLabels \cup RemoveLabels
<1> DEFINE Goal == /\ op'[r] = op[r] /\ arg'[r] = arg[r] /\ found'[r] = found[r]
                   /\ current'[r] = current[r] /\ pc'[r] \in WriteLabels \cup RemoveLabels
<1>1. LocalTypes /\ LocalOK(r)
  BY Typed
<1>2. ASSUME NEW l, JustGoto(r, l), l \in WriteLabels \cup RemoveLabels PROVE Goal
  BY <1>1, <1>2 DEF JustGoto, Goto, LocalTypes
<1>3. ASSUME AfterRemove(r) PROVE Goal
  BY <1>1, <1>3 DEF AfterRemove, StartWrite, Goto, WriteLabels, LocalTypes
<1>4. CASE WriteData(r)
  BY <1>1, <1>4 DEF WriteData, AfterWrite, StartRemove, Goto, RemoveLabels, LocalTypes
<1>5. CASE RemoveFile(r)
  BY <1>1, <1>5 DEF RemoveFile, locals, RemoveLabels, LocalTypes
<1>6. CASE Probe(r)
  BY <1>1, <1>6 DEF Probe, LocalOK
<1> QED
  BY <1>2, <1>3, <1>4, <1>5, <1>6
  DEF Change, MakeDirectory, CheckFile, UnlinkOld, OpenNew, CheckDirectory, RemoveEmptied,
      WriteLabels, RemoveLabels

\* A publish has policy i in memory, to archive it.
InHand(i) == \E r \in Requests : Promoting(r) /\ current[r] # Null /\ current[r].id = i

\* What the answer of a publish promises.
Answered(q) ==
  op[q] = "Publish" /\ pc[q] = "done" /\ found[q] # Null =>
    Deleted(arg[q]) \/ Kept(arg[q]) \/ InHand(arg[q])

\* The inductive invariant of the promise.
AnsweredInv == MoverInv /\ (faults = 0 => \A q \in Requests : Answered(q))

\* A policy that is current or historical stays so, in memory for a while,
\* beside reads and saves.
LEMMA BesideKeeps ==
  ASSUME IInv, MoverOrder, NEW r \in Requests, Arrive(r) \/ Work(r), ~Moving(r),
         NEW i \in Ids, Kept(i) \/ InHand(i)
  PROVE  Kept(i)' \/ InHand(i)'
<1>1. \A d \in Settled : store'[d] = store[d]
  <2>1. CASE Arrive(r)
    BY <2>1 DEF Arrive, GetDraft, GetCurrent, GetPolicyById, Publish, Delete, SaveAsDraft, Begin
  <2> QED
    BY <2>1, BesideGuided
<1>2. CASE Kept(i)
  <2>1. store'[i] = store[i] /\ store'["current"] = store["current"]
    BY <1>1, NamesAreDistinct DEF Settled, Dirs
  <2> QED
    BY <1>2, <2>1 DEF Kept, HoldsPolicy, Readable
<1>3. CASE InHand(i)
  <2>1. PICK q \in Requests : Promoting(q) /\ current[q] # Null /\ current[q].id = i
    BY <1>3 DEF InHand
  <2>2. q # r
    BY <2>1 DEF Promoting, OldLabels, WriteLabels, RemoveLabels, Moving, InFlight, Ended
  <2>3. Promoting(q)' /\ current'[q] = current[q]
    BY <2>1, <2>2, LocalsAreItsOwn DEF Still, Promoting
  <2> QED
    BY <2>1, <2>3 DEF InHand
<1> QED
  BY <1>2, <1>3

\* The mover keeps it too: it takes the current policy into its memory before
\* it deletes the file, and a historical one is current before its file goes.
LEMMA MoverKeeps ==
  ASSUME IInv, MoverOrder, NEW r \in Requests, Work(r), Moving(r), SoleMover(r),
         Replacing(r) => pc'[r] # "failed",
         NEW i \in Ids, Kept(i) \/ InHand(i), ~(op[r] = "Delete" /\ arg[r] = i)
  PROVE  Kept(i)' \/ InHand(i)'
<1> USE DEF WriteLabels, RemoveLabels
<1>1. /\ LocalTypes /\ LocalOK(r) /\ Guided(r) /\ Carried(r)
      /\ AtHand(r) /\ target[r] \in Dirs /\ store \in [Dirs -> Unreadable \cup Policies]
      /\ {"current", "draft"} \subseteq Dirs /\ Ids \subseteq Settled /\ Settled \subseteq Dirs
      /\ "current" \notin Ids /\ "draft" \notin Ids /\ arg[r] \in Ids
  BY MoverSees
<1>2. op[r] \in {"Publish", "Delete"} /\ op' = op
  BY AtWorkInFlight DEF Moving
<1>3. InHand(i) => Promoting(r) /\ current[r] # Null /\ current[r].id = i
  <2> SUFFICES ASSUME NEW q \in Requests, Promoting(q), current[q] # Null, current[q].id = i
               PROVE  q = r
    BY DEF InHand
  <2> QED
    BY DEF SoleMover, Promoting, OldLabels, Moving, InFlight, Ended
<1>4. InHand(i) => pc[r] \in WriteLabels \cup RemoveLabels
  BY <1>1, <1>3 DEF Guided
<1>5. ASSUME UNCHANGED store, Kept(i) PROVE Kept(i)'
  BY <1>5 DEF Kept, HoldsPolicy, Readable
<1>6. CASE Download(r)
  <2>1. pc[r] \notin WriteLabels \cup RemoveLabels /\ UNCHANGED store
    BY <1>6 DEF Download, FindHistorical, NotHistorical, ReadHistorical, FindCurrent, NoCurrent,
         ReadCurrent, FindDraft, NoDraft, ReadDraft, FindBase, NoBase, ReadBase, FindOld,
         NoOld, ReadOld, Find, Misses, Reads
  <2> QED
    BY <1>4, <1>5, <2>1
<1>7. CASE Retry(r)
  <2>1. UNCHANGED <<store, current>> /\ (pc[r] \in RemoveLabels <=> pc'[r] \in RemoveLabels)
        /\ (pc[r] \in WriteLabels <=> pc'[r] \in WriteLabels)
    BY <1>1, <1>7 DEF Retry, LocalTypes
  <2>2. InHand(i) => InHand(i)'
    BY <1>2, <1>3, <1>4, <2>1 DEF InHand, Promoting
  <2> QED
    BY <1>5, <2>1, <2>2
<1>8. CASE GiveUp(r)
  <2>1. pc'[r] = "failed" /\ UNCHANGED store
    BY <1>1, <1>8 DEF GiveUp, End, Goto, LocalTypes
  <2>2. ~InHand(i)
    BY <1>3, <1>4, <2>1 DEF Replacing, Promoting
  <2> QED
    BY <1>5, <2>1, <2>2
<1>9. CASE Change(r) /\ op[r] = "Delete"
  <2>1. ~InHand(i) /\ i # arg[r]
    BY <1>3, <1>9 DEF Promoting
  <2>2. \A d \in Dirs \ {target[r]} : store'[d] = store[d]
    <3>1. pc[r] \notin WriteLabels
      BY <1>1, <1>9 DEF Guided
    <3> QED
      BY <1>1, <1>9, <3>1
      DEF Change, MakeDirectory, CheckFile, UnlinkOld, OpenNew, WriteData, Probe,
        CheckDirectory, RemoveFile, RemoveEmptied, EmptyDirectory, DeleteFile, RemoveDirectory
  <2>3. UNCHANGED store \/ target[r] \in {arg[r], "draft"}
    <3>1. CASE pc[r] \in RemoveLabels
      BY <1>1, <1>9, <3>1 DEF Guided
    <3>2. CASE pc[r] \notin RemoveLabels
      <4>1. Probe(r)
        BY <1>1, <1>9, <3>2
        DEF Guided, Change, MakeDirectory, CheckFile, UnlinkOld, OpenNew, WriteData,
          CheckDirectory, RemoveFile, RemoveEmptied
      <4> QED
        BY <4>1 DEF Probe
    <3> QED
      BY <3>1, <3>2
  <2>4. store'[i] = store[i] /\ store'["current"] = store["current"]
    BY <1>1, <2>1, <2>2, <2>3
  <2> QED
    BY <2>1, <2>4 DEF Kept, HoldsPolicy, Readable
<1>10. CASE Change(r) /\ op[r] = "Publish"
  <2>1. pc[r] \in WriteLabels \cup RemoveLabels
    BY <1>1, <1>10
    DEF Change, MakeDirectory, CheckFile, UnlinkOld, OpenNew, WriteData, Probe,
        CheckDirectory, RemoveFile, RemoveEmptied, LocalOK
  <2>2. Promoting(r)
    BY <1>10, <2>1 DEF Promoting
  <2>3. CASE pc[r] = "bytes" /\ target[r] # "current"
    <3>1. Archiving(r) /\ WriteData(r)
      BY <1>10, <2>3
      DEF Archiving, Change, MakeDirectory, CheckFile, UnlinkOld, OpenNew, Probe,
        CheckDirectory, RemoveFile, RemoveEmptied
    <3>2. PICK t \in Ids : t = target[r]
      BY <1>1, <2>2, <3>1 DEF Carried
    <3>3. store[t] = Blank /\ handle[r] = t /\ data[r] \in Policies /\ data[r].id = t
      BY <1>1, <2>3, <3>2 DEF AtHand, LocalOK, Fits
    <3>4. store' = [store EXCEPT ![t] = data[r]]
      BY <1>1, <3>1, <3>3, NamesAreDistinct DEF WriteData, WriteBytes, WriteResults
    <3>5. Blank \notin Policies
      BY NamesAreDistinct DEF Unreadable
    <3>6. CASE Kept(i)
      BY <1>1, <3>3, <3>4, <3>5, <3>6 DEF Kept, HoldsPolicy, Readable
    <3>7. CASE InHand(i)
      <4>1. data[r] = AsHistorical(current[r]) /\ current[r].id = i /\ current[r] \in Policies
        BY <1>1, <1>3, <2>2, <3>1, <3>7, Typed DEF Carried
      <4>2. t = i
        BY <3>3, <4>1 DEF AsHistorical, Policies
      <4> QED
        BY <1>1, <3>3, <3>4, <4>2 DEF Kept, HoldsPolicy, Readable
    <3> QED
      BY <3>6, <3>7
  <2>4. CASE ~(pc[r] = "bytes" /\ target[r] # "current")
    <3>1. current'[r] = current[r] /\ Promoting(r)'
      BY <1>10, <2>4, PublishGoesOn DEF Promoting
    <3>2. InHand(i) => InHand(i)'
      BY <1>3, <3>1 DEF InHand
    <3>3. \A d \in Dirs \ {target[r]} : store'[d] = store[d]
      <4>1. CASE WriteData(r)
        BY <1>1, <2>4, <4>1, NamesAreDistinct DEF WriteData, WriteBytes, AtHand
      <4> QED
        BY <1>1, <1>10, <4>1
        DEF Change, MakeDirectory, CreateDirectory, CheckFile, UnlinkOld, OpenNew, OpenForWrite,
          Probe, CheckDirectory, RemoveFile, RemoveEmptied, EmptyDirectory, DeleteFile,
          RemoveDirectory
    <3>4. ASSUME HoldsPolicy("current", i) PROVE Kept(i)' \/ InHand(i)'
      <4>1. CASE pc[r] = "unlink" /\ target[r] = "current"
        <5>1. current[r] = store["current"]
          BY <1>1, <2>2, <3>4, <4>1 DEF Carried, ToCurrent, HoldsPolicy
        <5>2. current[r] # Null /\ current[r].id = i
          BY <3>4, <5>1, ParametersFit DEF HoldsPolicy, Readable
        <5> QED
          BY <3>1, <5>2 DEF InHand
      <4>2. CASE ~(pc[r] = "unlink" /\ target[r] = "current")
        <5>1. store'["current"] = store["current"]
          <6>1. CASE target[r] # "current"
            BY <1>1, <3>3, <6>1
          <6>2. CASE target[r] = "current"
            <7>1. pc[r] \in {"mkdir", "check"}
              BY <1>1, <2>1, <3>4, <4>2, <6>2, NamesAreDistinct
              DEF AtHand, LocalOK, HoldsPolicy, Readable, Unreadable
            <7>2. MakeDirectory(r) \/ CheckFile(r)
              BY <1>10, <7>1
              DEF Change, UnlinkOld, OpenNew, WriteData, Probe, CheckDirectory, RemoveFile,
                RemoveEmptied
            <7> QED
              BY <1>1, <3>4, <6>2, <7>2, NamesAreDistinct
              DEF MakeDirectory, CreateDirectory, CheckFile, HoldsPolicy, Readable, Unreadable
          <6> QED
            BY <6>1, <6>2
        <5> QED
          BY <3>4, <5>1 DEF Kept, HoldsPolicy, Readable
      <4> QED
        BY <4>1, <4>2
    <3>5. ASSUME HoldsPolicy(i, i), ~HoldsPolicy("current", i) PROVE Kept(i)'
      <4>1. target[r] # i
        <5> SUFFICES ASSUME target[r] = i PROVE FALSE
          OBVIOUS
        <5>1. pc[r] \in WriteLabels => Archiving(r) /\ ~Readable(i)
          BY <1>1, <2>2 DEF Archiving, Carried
        <5>2. pc[r] \in RemoveLabels
          BY <2>1, <3>5, <5>1 DEF HoldsPolicy
        <5>3. i = arg[r]
          BY <1>1, <2>2, <5>2 DEF Carried, Source
        <5>4. store["current"] = AsCurrent(found[r])
          BY <1>1, <2>2, <5>2 DEF Carried
        <5> QED
          BY <2>2, <3>5, <5>3, <5>4, MoverSees DEF HoldsPolicy, Readable
      <4> QED
        BY <1>1, <3>3, <3>5, <4>1 DEF Kept, HoldsPolicy, Readable
    <3> QED
      BY <3>2, <3>4, <3>5 DEF Kept
  <2> QED
    BY <2>3, <2>4
<1> QED
  BY <1>2, <1>6, <1>7, <1>8, <1>9, <1>10 DEF Work

\* What PublishAsync answers with is current at that moment, or was so already.
LEMMA MoverAnswers ==
  ASSUME IInv, MoverOrder, NEW r \in Requests, Work(r), Moving(r), SoleMover(r),
         op[r] = "Publish", pc'[r] = "done", found'[r] # Null
  PROVE  Kept(arg[r])'
<1> USE DEF WriteLabels, RemoveLabels
<1>1. /\ LocalTypes /\ LocalOK(r) /\ Guided(r) /\ Carried(r)
      /\ AtHand(r) /\ target[r] \in Dirs /\ store \in [Dirs -> Unreadable \cup Policies]
      /\ {"current", "draft"} \subseteq Dirs /\ Ids \subseteq Settled /\ Settled \subseteq Dirs
      /\ "current" \notin Ids /\ "draft" \notin Ids /\ arg[r] \in Ids
  BY MoverSees
<1>2. arg' = arg
  BY AtWorkInFlight
<1>3. \A l : JustGoto(r, l) => l = "done"
  BY <1>1 DEF JustGoto, Goto, LocalTypes
<1>4. \A d, p : ~StartWrite(r, d, p) /\ ~StartRemove(r, d)
  BY <1>1 DEF StartWrite, StartRemove, Goto, LocalTypes
<1>5. \A a : End(r, "done", a) => a # Null
  BY <1>1 DEF End, LocalTypes
<1>6. \A d \in Dirs : Readable(d) => store[d] \in Policies /\ Fits(store[d], d)
  BY Typed
<1>7. CASE Download(r)
  <2>1. ASSUME NEW p, Return(r, p) PROVE p # Null /\ p.type = "Current"
    BY <1>1, <1>5, <2>1 DEF Return, Goto, LocalTypes
  <2>2. ReadHistorical(r) \/ ReadCurrent(r) \/ ReadDraft(r)
    BY <1>1, <1>3, <1>4, <1>5, <1>7
    DEF Download, FindHistorical, NotHistorical, FindCurrent, NoCurrent, FindDraft, NoDraft,
      FindBase, NoBase, ReadBase, FindOld, NoOld, ReadOld, Find, Goto, LocalTypes
  <2>3. CASE ReadHistorical(r)
    BY <1>1, <1>6, <2>1, <2>3 DEF ReadHistorical, Reads, Fits
  <2>4. CASE ReadDraft(r)
    BY <1>1, <1>4, <1>5, <1>6, <2>1, <2>4 DEF ReadDraft, Reads, Fits
  <2>5. CASE ReadCurrent(r)
    <3>1. HoldsPolicy("current", arg[r]) /\ UNCHANGED store
      BY <1>3, <2>5 DEF ReadCurrent, Reads, Asked, HoldsPolicy
    <3> QED
      BY <1>2, <3>1 DEF Kept, HoldsPolicy, Readable
  <2> QED
    BY <2>2, <2>3, <2>4, <2>5
<1>8. CASE Change(r)
  <2>1. pc[r] \in WriteLabels \cup RemoveLabels
    BY <1>1, <1>8
    DEF Change, MakeDirectory, CheckFile, UnlinkOld, OpenNew, WriteData, Probe,
        CheckDirectory, RemoveFile, RemoveEmptied, LocalOK
  <2>2. Promoting(r)
    BY <2>1 DEF Promoting
  <2>3. pc[r] = "bytes" /\ target[r] # "current"
    BY <1>8, PublishGoesOn
  <2>4. Archiving(r) /\ WriteData(r)
    BY <1>8, <2>3
    DEF Archiving, Change, MakeDirectory, CheckFile, UnlinkOld, OpenNew, Probe,
        CheckDirectory, RemoveFile, RemoveEmptied
  <2>5. store["current"] = AsCurrent(found[r]) /\ handle[r] = target[r]
    BY <1>1, <2>2, <2>3, <2>4 DEF Carried, AtHand, Archiving
  <2>6. store'["current"] = AsCurrent(found[r])
    BY <1>1, <2>3, <2>4, <2>5, NamesAreDistinct DEF WriteData, WriteBytes
  <2>7. AsCurrent(found[r]) \in Policies /\ AsCurrent(found[r]).id = arg[r]
    BY <2>2, MoverSees
  <2> QED
    BY <1>2, <2>6, <2>7 DEF Kept, HoldsPolicy, Readable
<1>9. CASE Retry(r) \/ GiveUp(r)
  BY <1>1, <1>9 DEF Retry, GiveUp, CallThrows, ReadLabels, End, Goto, LocalTypes
<1> QED
  BY <1>7, <1>8, <1>9 DEF Work

\* A deletion is not forgotten.
LEMMA DeletedIsDeleted ==
  ASSUME IInv, MoverOrder, NEW r \in Requests, Arrive(r) \/ Work(r), NEW i, Deleted(i)
  PROVE  Deleted(i)'
<1>1. PICK s \in Requests : op[s] = "Delete" /\ arg[s] = i
  BY DEF Deleted
<1>2. CASE s = r
  <2>1. ~Arrive(r)
    BY <1>1, <1>2, ParametersFit DEF Arrive, GetDraft, GetCurrent, GetPolicyById, Publish, Delete,
         SaveAsDraft, Begin, MoverOrder, Guided, AllOperations
  <2> QED
    BY <1>1, <1>2, <2>1, WorkKeepsQuestion DEF Deleted
<1>3. CASE s # r
  BY <1>1, <1>3, LocalsAreItsOwn DEF Still, Deleted
<1> QED
  BY <1>2, <1>3

\* Every step keeps the promise.
LEMMA AnsweredStep ==
  ASSUME IInv, MoverOrder, OneMover, NEW r \in Requests, Arrive(r) \/ Work(r),
         Replacing(r) => pc'[r] # "failed", NEW q \in Requests, Answered(q)
  PROVE  Answered(q)'
<1> SUFFICES ASSUME op'[q] = "Publish", pc'[q] = "done", found'[q] # Null,
                    NEW i \in Ids, i = arg'[q]
             PROVE  Deleted(i)' \/ Kept(i)' \/ InHand(i)'
  <2>1. IInv'
    BY StepKeeps DEF Next
  <2>2. op'[q] = "Publish" => arg'[q] \in Ids
    BY <2>1 DEF IInv, LocalsOK, LocalOK, ById
  <2> QED
    BY <2>2 DEF Answered
<1>1. LocalTypes /\ Still(r)
  BY Typed, LocalsAreItsOwn
<1>2. Moving(r) => SoleMover(r)
  BY DEF OneMover, SoleMover
<1>3. CASE q # r
  <2>1. op[q] = "Publish" /\ pc[q] = "done" /\ found[q] # Null /\ arg[q] = i
    BY <1>1, <1>3 DEF Still
  <2>2. Deleted(i) => Deleted(i)'
    BY DeletedIsDeleted
  <2>3. CASE Arrive(r) \/ (Work(r) /\ ~Moving(r))
    <3>1. Arrive(r) => ~Moving(r)
      BY DEF Arrive, GetDraft, GetCurrent, GetPolicyById, Publish, Delete, SaveAsDraft, Begin,
             Moving, InFlight
    <3> QED
      BY <2>1, <2>2, <2>3, <3>1, BesideKeeps DEF Answered
  <2>4. CASE Work(r) /\ Moving(r)
    <3>1. op[r] = "Delete" /\ arg[r] = i => Deleted(i)
      BY DEF Deleted
    <3> QED
      BY <1>2, <2>1, <2>2, <2>4, <3>1, MoverKeeps DEF Answered
  <2> QED
    BY <2>3, <2>4
<1>4. CASE q = r
  <2>1. Work(r)
    BY <1>1, <1>4 DEF Arrive, GetDraft, GetCurrent, GetPolicyById, Publish, Delete, SaveAsDraft,
                      Begin, Goto, LocalTypes
  <2>2. op[r] = "Publish" /\ arg[r] = i /\ Moving(r)
    BY <1>4, <2>1, AtWorkInFlight DEF Moving
  <2> QED
    BY <1>2, <1>4, <2>1, <2>2, MoverAnswers
<1> QED
  BY <1>3, <1>4

\* The promise is kept from the first request on.
LEMMA AnsweredInvariance == SteadySpec => []AnsweredInv
<1>1. Init => AnsweredInv
  BY MoverAtFirst DEF AnsweredInv, Init, Answered
<1>2. AnsweredInv /\ [Next /\ OneMover' /\ Steady]_vars => AnsweredInv'
  <2> SUFFICES ASSUME AnsweredInv, [Next /\ OneMover' /\ Steady]_vars PROVE AnsweredInv'
    OBVIOUS
  <2>1. MoverInv /\ MoverInv'
    BY MoverStep DEF AnsweredInv
  <2>2. ASSUME faults' = 0, NEW q \in Requests PROVE Answered(q)'
    <3>1. /\ IInv /\ MoverOrder /\ OneMover /\ Answered(q)
          /\ (\E r \in Requests : Arrive(r) \/ Work(r)) \/ UNCHANGED vars
      BY <2>1, <2>2, WhoSteps DEF MoverInv, AnsweredInv
    <3>2. CASE UNCHANGED vars
      BY <3>1, <3>2 DEF vars, locals, Answered, Deleted, Kept, InHand, HoldsPolicy, Readable,
                        Promoting
    <3>3. CASE ~UNCHANGED vars
      <4>1. \A p \in Requests : Replacing(p) => pc'[p] # "failed"
        BY <2>2, <3>3 DEF Steady
      <4> QED
        BY <3>1, <3>3, <4>1, AnsweredStep
    <3> QED
      BY <3>2, <3>3
  <2> QED
    BY <2>1, <2>2 DEF AnsweredInv
<1> QED
  BY <1>1, <1>2, PTL DEF SteadySpec

\* Under the same condition what PublishAsync answered with stays current or
\* historical until it is deleted by its id.
THEOREM PublishedWhenSteady == SteadySpec => []PublishedIsKept
<1>1. AnsweredInv => PublishedIsKept
  <2> SUFFICES ASSUME AnsweredInv, AtRest, faults = 0, NEW r \in Requests,
                      op[r] = "Publish", pc[r] = "done", found[r] # Null, ~Deleted(arg[r])
               PROVE  Kept(arg[r])
    BY DEF PublishedIsKept, Deleted
  <2>1. \A i : ~InHand(i)
    BY DEF AtRest, InFlight, Ended, InHand, Promoting, OldLabels, WriteLabels, RemoveLabels
  <2> QED
    BY <2>1 DEF AnsweredInv, Answered
<1> QED
  BY <1>1, AnsweredInvariance, PTL

-----------------------------------------------------------------------------
(* Why no publish is given up.  Only the removal of draft/ can throw under a *)
(* mover, when a save has put its file there since the mover deleted one; and *)
(* each save does that once.                                                  *)

Saves == {q \in Requests : op[q] = "SaveAsDraft"}

\* Once somebody publishes there are no more saves than calls are retried.
FewSaves ==
  (\E r \in Requests : op[r] = "Publish") =>
    IsFiniteSet(Saves) /\ Cardinality(Saves) <= MaxRetries

\* The saves that have put a file in draft/.
Opened == {q \in Saves : pc[q] \in {"bytes"} \cup Ended}

\* No more attempts to remove draft/ have failed than that.
Outlasts(r) ==
  op[r] = "Publish" /\ target[r] = "draft" =>
    /\ pc[r] = "rmFile" => tries[r] <= Cardinality(Opened)
    /\ pc[r] = "rmDir" =>
         tries[r] + (IF FileExists("draft") THEN 1 ELSE 0) <= Cardinality(Opened)

\* The inductive invariant.
EnduringInv == MoverInv /\ (faults = 0 => \A r \in Requests : Outlasts(r))

\* A step of r counts no attempts of others.
LEMMA TriesAreItsOwn ==
  ASSUME IInv, NEW r \in Requests, Arrive(r) \/ Work(r), NEW q \in Requests, q # r
  PROVE  tries'[q] = tries[q]
<1>1. LocalTypes
  BY Typed
<1>2. \A l : Goto(r, l) => tries'[q] = tries[q]
  BY <1>1 DEF LocalTypes, Goto
<1> QED
  BY <1>1, <1>2
  DEF LocalTypes, Arrive, GetDraft, GetCurrent, GetPolicyById, Publish, Delete, SaveAsDraft, Begin,
      Work, Download, FindHistorical, NotHistorical, ReadHistorical, FindCurrent, NoCurrent,
      ReadCurrent, FindDraft, NoDraft, ReadDraft, FindBase, NoBase, ReadBase, FindOld, NoOld,
      ReadOld, Find, Change, MakeDirectory, CheckFile, UnlinkOld, OpenNew, WriteData, AfterWrite,
      Probe, CheckDirectory, RemoveFile, AfterRemove, RemoveEmptied, Retry, GiveUp, End, JustGoto,
      StartWrite, StartRemove, Return, locals

\* A save that has put its file in draft/ has done so for good.
LEMMA OpenedGrows ==
  ASSUME IInv, MoverOrder, NEW r \in Requests, Arrive(r) \/ Work(r)
  PROVE  /\ Opened \subseteq Opened'
         /\ OpenNew(r) /\ op[r] = "SaveAsDraft" => r \in Opened' /\ r \notin Opened
<1>1. LocalTypes /\ Still(r)
  BY Typed, LocalsAreItsOwn
<1>2. ASSUME NEW q \in Requests \ {r}, q \in Opened PROVE q \in Opened'
  BY <1>1, <1>2 DEF Still, Opened, Saves
<1>3. ASSUME r \in Opened PROVE r \in Opened'
  <2>1. op[r] = "SaveAsDraft" /\ pc[r] \in {"bytes"} \cup Ended
    BY <1>3 DEF Opened, Saves
  <2>2. Work(r)
    BY <2>1 DEF Arrive, GetDraft, GetCurrent, GetPolicyById, Publish, Delete, SaveAsDraft, Begin,
                Ended
  <2>3. pc[r] = "bytes" /\ op' = op
    BY <2>1, <2>2, AtWorkInFlight DEF InFlight
  <2>4. WriteData(r)
    BY <2>2, <2>3
    DEF Work, Download, FindHistorical, NotHistorical, ReadHistorical, FindCurrent, NoCurrent,
        ReadCurrent, FindDraft, NoDraft, ReadDraft, FindBase, NoBase, ReadBase, FindOld, NoOld,
        ReadOld, Find, Misses, Reads, Change, MakeDirectory, CheckFile, UnlinkOld, OpenNew, Probe,
        CheckDirectory, RemoveFile, RemoveEmptied, Retry, GiveUp, CallThrows, ParseThrows, ReadLabels
  <2>5. pc'[r] = "done"
    BY <1>1, <2>1, <2>4 DEF WriteData, AfterWrite, End, Goto, LocalTypes
  <2> QED
    BY <2>1, <2>3, <2>5 DEF Opened, Saves, Ended
<1>4. ASSUME OpenNew(r), op[r] = "SaveAsDraft" PROVE r \in Opened' /\ r \notin Opened
  <2>1. pc[r] = "open" /\ pc'[r] = "bytes" /\ op'[r] = op[r]
    BY <1>1, <1>4 DEF OpenNew, JustGoto, Goto, LocalTypes
  <2> QED
    BY <1>4, <2>1 DEF Opened, Saves, Ended
<1>5. Opened \subseteq Requests
  BY DEF Opened, Saves
<1> QED
  BY <1>2, <1>3, <1>4, <1>5

\* Only a call that keeps throwing ends a publish that is past reading.
LEMMA FailsByGivingUp ==
  ASSUME IInv, NEW r \in Requests, Work(r), Replacing(r), pc'[r] = "failed"
  PROVE  GiveUp(r)
<1>1. LocalTypes /\ pc[r] \in WriteLabels \cup RemoveLabels /\ op[r] = "Publish"
  BY Typed DEF Replacing
<1>2. ~Download(r)
  BY <1>1 DEF Download, FindHistorical, NotHistorical, ReadHistorical, FindCurrent, NoCurrent,
         ReadCurrent, FindDraft, NoDraft, ReadDraft, FindBase, NoBase, ReadBase, FindOld,
         NoOld, ReadOld, Find, Misses, Reads, WriteLabels, RemoveLabels
<1>3. ~Retry(r)
  BY <1>1 DEF Retry, LocalTypes, WriteLabels, RemoveLabels
<1>4. ~Change(r)
  <2> SUFFICES ASSUME Change(r) PROVE FALSE
    OBVIOUS
  <2>1. pc[r] = "bytes" /\ target[r] # "current"
    BY <1>1, PublishGoesOn DEF WriteLabels, RemoveLabels
  <2>2. WriteData(r)
    BY <2>1 DEF Change, MakeDirectory, CheckFile, UnlinkOld, OpenNew, Probe, CheckDirectory,
                RemoveFile, RemoveEmptied
  <2> QED
    BY <1>1, <2>1, <2>2 DEF WriteData, AfterWrite, End, Goto, LocalTypes
<1> QED
  BY <1>2, <1>3, <1>4 DEF Work

\* With few saves that does not happen.
LEMMA PublishGoesThrough ==
  ASSUME IInv, MoverOrder, NEW r \in Requests, Moving(r), SoleMover(r), Replacing(r), FewSaves,
         Outlasts(r)
  PROVE  ~GiveUp(r)
<1> SUFFICES ASSUME GiveUp(r) PROVE FALSE
  OBVIOUS
<1>1. /\ AtHand(r) /\ Guided(r) /\ LocalTypes /\ target[r] \in Dirs /\ op[r] = "Publish"
      /\ pc[r] \in WriteLabels \cup RemoveLabels
      /\ Carried(r) /\ "draft" \notin Ids
  BY MoverSees DEF Replacing
<1>2. CallThrows(r) /\ ~RetriesLeft(r) /\ pc[r] \notin ReadLabels
  BY <1>1 DEF GiveUp, ParseThrows, ReadLabels, WriteLabels, RemoveLabels
<1>3. target[r] = "draft"
  BY <1>1, <1>2, MoverThrowsOnDraft
<1>4. pc[r] \in RemoveLabels
  BY <1>1, <1>3 DEF Carried, Promoting, Archiving
<1>5. pc[r] = "rmDir" /\ FileExists("draft")
  BY <1>1, <1>2, <1>3, <1>4 DEF CallThrows, AtHand, RemoveLabels
<1>6. tries[r] + 1 <= Cardinality(Opened)
  BY <1>1, <1>3, <1>5 DEF Outlasts
<1>7. IsFiniteSet(Saves) /\ Cardinality(Saves) <= MaxRetries
  BY <1>1 DEF FewSaves
<1>8. Cardinality(Opened) <= Cardinality(Saves) /\ Cardinality(Opened) \in Nat
      /\ Cardinality(Saves) \in Nat
  BY <1>7, FS_Subset, FS_CardinalityType DEF Opened
<1>9. tries[r] \in Nat /\ MaxRetries \in Nat
  BY <1>1, ParametersFit DEF LocalTypes
<1> QED
  BY <1>2, <1>6, <1>7, <1>8, <1>9 DEF RetriesLeft

\* What a request does beside the mover puts a file in draft/ only by opening it.
LEMMA FilesAppearOpened ==
  ASSUME IInv, MoverOrder, NEW r \in Requests, Arrive(r) \/ Work(r), ~Moving(r),
         FileExists("draft")', ~FileExists("draft")
  PROVE  OpenNew(r) /\ op[r] = "SaveAsDraft"
<1>1. /\ store \in [Dirs -> Unreadable \cup Policies] /\ target[r] \in Dirs /\ LocalOK(r)
      /\ Guided(r) /\ "draft" \in Dirs /\ NoFile # NoDir
  BY Typed, NamesAreDistinct DEF MoverOrder, Dirs
<1>2. ~UNCHANGED store
  BY DEF FileExists
<1>3. Work(r)
  BY <1>2 DEF Arrive, GetDraft, GetCurrent, GetPolicyById, Publish, Delete, SaveAsDraft, Begin
<1>4. op[r] \notin {"Publish", "Delete"}
  BY <1>3, AtWorkInFlight DEF Moving
<1>5. Change(r)
  BY <1>2, <1>3
  DEF Work, Download, FindHistorical, NotHistorical, ReadHistorical, FindCurrent, NoCurrent,
      ReadCurrent, FindDraft, NoDraft, ReadDraft, FindBase, NoBase, ReadBase, FindOld,
      NoOld, ReadOld, Find, Misses, Reads, Retry, GiveUp
<1>6. ~WriteData(r)
  <2> SUFFICES ASSUME WriteData(r) PROVE FALSE
    OBVIOUS
  <2>1. handle[r] \in Dirs /\ \E c : store' = [store EXCEPT ![handle[r]] = c]
    BY <1>2 DEF WriteData, WriteBytes
  <2>2. handle[r] = "draft"
    BY <1>1, <2>1 DEF FileExists
  <2> QED
    BY <2>1, <2>2 DEF MoverOrder, OpenOnFiles
<1>7. ~MakeDirectory(r)
  BY <1>1 DEF MakeDirectory, CreateDirectory, FileExists
<1>8. pc[r] \in WriteLabels => op[r] = "SaveAsDraft"
  BY <1>1, <1>4 DEF Guided
<1>9. ~UnlinkOld(r) /\ ~RemoveFile(r) /\ ~RemoveEmptied(r)
  BY <1>1
  DEF UnlinkOld, RemoveFile, EmptyDirectory, DeleteFile, RemoveEmptied, RemoveDirectory, FileExists
<1>10. OpenNew(r)
  BY <1>2, <1>5, <1>6, <1>7, <1>9 DEF Change, CheckFile, Probe, CheckDirectory
<1> QED
  BY <1>8, <1>10 DEF OpenNew, WriteLabels

\* Every step keeps the count.
LEMMA OutlastsStep ==
  ASSUME IInv, MoverOrder, OneMover, FewSaves, FewSaves', NEW r \in Requests,
         Arrive(r) \/ Work(r), NEW q \in Requests, Outlasts(q)
  PROVE  Outlasts(q)'
<1> USE DEF WriteLabels, RemoveLabels
<1> SUFFICES ASSUME op'[q] = "Publish", target'[q] = "draft", pc'[q] \in {"rmFile", "rmDir"}
             PROVE  Outlasts(q)'
  BY DEF Outlasts
<1>1. LocalTypes /\ Still(r) /\ MaxRetries \in Nat
  BY Typed, LocalsAreItsOwn, ParametersFit
<1>2. op[q] = "Publish" /\ pc[q] \notin {"idle"} \cup Ended
  <2>1. CASE q # r
    BY <1>1, <2>1 DEF Still, Ended
  <2>2. CASE q = r
    <3>1. Work(r)
      BY <1>1, <2>2 DEF Arrive, GetDraft, GetCurrent, GetPolicyById, Publish, Delete, SaveAsDraft,
                        Begin, Goto, LocalTypes
    <3> QED
      BY <2>2, <3>1, AtWorkInFlight DEF InFlight
  <2> QED
    BY <2>1, <2>2
<1>3. Moving(q) /\ SoleMover(q)
  BY <1>2 DEF Moving, InFlight, OneMover, SoleMover
<1>4. /\ IsFiniteSet(Saves) /\ IsFiniteSet(Saves)'
      /\ Opened \subseteq Saves /\ Opened' \subseteq Saves'
  BY <1>2 DEF FewSaves, Opened
<1>5. /\ Cardinality(Opened) \in Nat /\ Cardinality(Opened)' \in Nat
      /\ IsFiniteSet(Opened) /\ IsFiniteSet(Opened')
      /\ Opened \subseteq Opened' /\ Cardinality(Opened) <= Cardinality(Opened)'
  BY <1>4, OpenedGrows, FS_Subset, FS_CardinalityType
<1>6. tries[q] \in Nat /\ tries'[q] \in Nat
  <2>1. IInv'
    BY StepKeeps DEF Next
  <2> QED
    BY <1>1, <2>1 DEF LocalTypes, IInv, LocalsOK
<1>7. CASE q # r
  <2>1. /\ pc'[q] = pc[q] /\ target'[q] = target[q] /\ tries'[q] = tries[q] /\ ~Moving(r)
    BY <1>1, <1>3, <1>7, TriesAreItsOwn DEF Still, SoleMover
  <2>2. CASE FileExists("draft")' /\ ~FileExists("draft")
    <3>1. r \in Opened' /\ r \notin Opened
      BY <2>1, <2>2, FilesAppearOpened, OpenedGrows
    <3>2. Cardinality(Opened \cup {r}) = Cardinality(Opened) + 1
      BY <1>5, <3>1, FS_AddElement
    <3>3. Cardinality(Opened \cup {r}) <= Cardinality(Opened)'
      BY <1>5, <3>1, FS_Subset
    <3> QED
      BY <1>2, <1>5, <1>6, <2>1, <2>2, <3>2, <3>3 DEF Outlasts
  <2>3. CASE FileExists("draft")' => FileExists("draft")
    BY <1>2, <1>5, <1>6, <2>1, <2>3 DEF Outlasts
  <2> QED
    BY <2>2, <2>3
<1>8. CASE q = r
  <2>1. Work(r)
    BY <1>2, <1>8 DEF Arrive, GetDraft, GetCurrent, GetPolicyById, Publish, Delete, SaveAsDraft,
                      Begin
  <2>2. AtHand(r) /\ target[r] \in Dirs /\ "draft" \in Dirs
    BY <1>3, <1>8, MoverSees
  <2>3. ~Download(r) /\ ~GiveUp(r)
    <3>1. ASSUME NEW o \in Ended \cup {"done"}, NEW a, End(r, o, a) PROVE FALSE
      BY <1>1, <1>8, <3>1 DEF End, Goto, Ended, LocalTypes
    <3>2. ASSUME NEW l, JustGoto(r, l), l \notin {"rmFile", "rmDir"} PROVE FALSE
      BY <1>1, <1>8, <3>2 DEF JustGoto, Goto, LocalTypes
    <3>3. ASSUME NEW d, NEW p, StartWrite(r, d, p) \/ StartRemove(r, d) PROVE FALSE
      BY <1>1, <1>8, <3>3 DEF StartWrite, StartRemove, Goto, LocalTypes
    <3>4. ASSUME NEW p, Return(r, p) PROVE FALSE
      BY <1>1, <1>8, <3>1, <3>4 DEF Return, Goto, LocalTypes
    <3>5. ~ReadOld(r)
      BY <1>1, <1>8 DEF ReadOld, Goto, LocalTypes
    <3> QED
      BY <3>1, <3>2, <3>3, <3>4, <3>5
      DEF GiveUp, Download, FindHistorical, NotHistorical, ReadHistorical, FindCurrent, NoCurrent,
        ReadCurrent, FindDraft, NoDraft, ReadDraft, FindBase, NoBase, ReadBase, FindOld,
        NoOld, Find, Ended
  <2>4. CASE Retry(r)
    <3>1. /\ pc[r] \in {"rmFile", "rmDir"} /\ target[r] = "draft" /\ CallThrows(r)
          /\ tries'[r] = tries[r] + 1 /\ pc'[r] = "rmFile"
      BY <1>1, <1>8, <2>4 DEF Retry, LocalTypes, Attempts
    <3>2. pc[r] = "rmDir" /\ FileExists("draft")
      BY <2>2, <3>1 DEF CallThrows, AtHand, ReadLabels
    <3> QED
      BY <1>2, <1>5, <1>6, <1>8, <3>1, <3>2 DEF Outlasts
  <2>5. CASE Change(r)
    <3>1. CheckDirectory(r) \/ RemoveFile(r)
      <4>1. ASSUME NEW l, JustGoto(r, l), l \notin {"rmFile", "rmDir"} PROVE FALSE
        BY <1>1, <1>8, <4>1 DEF JustGoto, Goto, LocalTypes
      <4>2. ASSUME NEW d, StartRemove(r, d) PROVE FALSE
        BY <1>1, <1>8, <4>2 DEF StartRemove, Goto, LocalTypes
      <4>3. ~WriteData(r)
        BY <1>1, <1>8, <4>2 DEF WriteData, AfterWrite, End, Goto, LocalTypes
      <4>4. ~RemoveEmptied(r)
        BY <1>1, <1>8 DEF RemoveEmptied, AfterRemove, StartWrite, End, Goto, LocalTypes
      <4> QED
        BY <2>5, <4>1, <4>2, <4>3, <4>4
        DEF Change, MakeDirectory, CheckFile, UnlinkOld, OpenNew, Probe
    <3>2. CASE CheckDirectory(r)
      <4>1. pc'[r] = "rmFile" /\ tries'[r] = 0
        BY <1>1, <1>8, <3>2
        DEF CheckDirectory, AfterRemove, StartWrite, End, JustGoto, Goto, LocalTypes
      <4> QED
        BY <1>5, <1>8, <4>1 DEF Outlasts
    <3>3. CASE RemoveFile(r)
      <4>1. /\ pc[r] = "rmFile" /\ pc'[r] = "rmDir" /\ target'[r] = target[r]
            /\ tries'[r] = tries[r] /\ store' = [store EXCEPT ![target[r]] = NoFile]
        BY <1>1, <3>3 DEF RemoveFile, EmptyDirectory, DeleteFile, locals, LocalTypes
      <4>2. ~FileExists("draft")'
        BY <1>8, <2>2, <4>1, Typed DEF FileExists
      <4> QED
        BY <1>2, <1>5, <1>6, <1>8, <4>1, <4>2 DEF Outlasts
    <3> QED
      BY <3>1, <3>2, <3>3
  <2> QED
    BY <2>1, <2>3, <2>4, <2>5 DEF Work
<1> QED
  BY <1>7, <1>8

\* Every step beside few saves is steady, and keeps the invariant.
LEMMA EnduringStep ==
  ASSUME EnduringInv, FewSaves, FewSaves', [Next /\ OneMover']_vars
  PROVE  EnduringInv' /\ [Next /\ OneMover' /\ Steady]_vars
<1>1. IInv /\ OneMover
  BY DEF EnduringInv, MoverInv
<1>2. CASE UNCHANGED vars
  <2>1. MoverInv'
    BY <1>2, MoverStep DEF EnduringInv
  <2>2. ASSUME faults' = 0, NEW q \in Requests PROVE Outlasts(q)'
    <3>1. faults = 0 /\ Outlasts(q)
      BY <1>2, <2>2 DEF vars, EnduringInv
    <3>2. Opened' = Opened
      BY <1>2 DEF vars, locals, Opened, Saves
    <3> QED
      BY <1>2, <3>1, <3>2 DEF vars, locals, Outlasts, FileExists
  <2> QED
    BY <1>2, <2>1, <2>2 DEF EnduringInv
<1>3. CASE Next /\ OneMover' /\ ~UNCHANGED vars
  <2>1. Steady
    <3> SUFFICES ASSUME faults' = 0, NEW q \in Requests, Replacing(q), pc'[q] = "failed"
                 PROVE  FALSE
      BY DEF Steady
    <3>1. faults = 0 /\ \E r \in Requests : Arrive(r) \/ Work(r)
      BY <1>1, <1>3, WhoSteps
    <3>2. PICK r \in Requests : Arrive(r) \/ Work(r)
      BY <3>1
    <3>3. MoverOrder /\ Outlasts(q)
      BY <3>1 DEF EnduringInv, MoverInv
    <3>4. Moving(q) /\ SoleMover(q)
      BY <1>1 DEF Replacing, Moving, InFlight, Ended, WriteLabels, RemoveLabels, OneMover, SoleMover
    <3>5. q = r
      BY <1>1, <3>2, LocalsAreItsOwn DEF Still, Replacing, WriteLabels, RemoveLabels
    <3>6. Work(q)
      BY <3>2, <3>5 DEF Arrive, GetDraft, GetCurrent, GetPolicyById, Publish, Delete, SaveAsDraft,
                        Begin, Replacing, WriteLabels, RemoveLabels
    <3> QED
      BY <1>1, <3>3, <3>4, <3>6, FailsByGivingUp, PublishGoesThrough
  <2>2. MoverInv'
    BY <1>3, <2>1, MoverStep DEF EnduringInv
  <2>3. ASSUME faults' = 0, NEW q \in Requests PROVE Outlasts(q)'
    <3>1. faults = 0 /\ \E r \in Requests : Arrive(r) \/ Work(r)
      BY <1>1, <1>3, <2>3, WhoSteps
    <3> QED
      BY <1>1, <3>1, OutlastsStep DEF EnduringInv, MoverInv
  <2> QED
    BY <1>3, <2>1, <2>2, <2>3 DEF EnduringInv
<1> QED
  BY <1>2, <1>3

\* Beside few saves the one mover goes steadily on.
LEMMA OneMoverIsSteady == OneMoverSpec /\ []FewSaves => SteadySpec
<1>1. Init => EnduringInv
  <2>1. Init => \A r \in Requests : Outlasts(r)
    BY DEF Init, Outlasts
  <2> QED
    BY <2>1, MoverAtFirst DEF EnduringInv
<1>2. EnduringInv /\ FewSaves /\ FewSaves' /\ [Next /\ OneMover']_vars
        => EnduringInv' /\ [Next /\ OneMover' /\ Steady]_vars
  BY EnduringStep
<1> QED
  BY <1>1, <1>2, PTL DEF OneMoverSpec, SteadySpec

\* One request at a time is steady as well.
LEMMA SerialIsSteady == SerialSpec => SteadySpec
<1>1. SerialInv' /\ [Next /\ OneRequest']_vars => [Next /\ OneMover' /\ Steady]_vars
  <2>1. OneRequest' => OneMover'
    BY DEF OneRequest, OneMover, Moving
  <2>2. SerialInv' => Steady
    BY DEF SerialInv, Orderly, InOrder, Steady
  <2> QED
    BY <2>1, <2>2
<1> QED
  BY <1>1, SerialInvariance, PTL DEF SerialSpec, SteadySpec

\* The clients need not count if there are few of them.
LEMMA FewRequestsFewSaves ==
  ASSUME IsFiniteSet(Requests), Cardinality(Requests) <= MaxRetries + 1
  PROVE  FewSaves
<1> SUFFICES ASSUME NEW r \in Requests, op[r] = "Publish"
             PROVE  IsFiniteSet(Saves) /\ Cardinality(Saves) <= MaxRetries
  BY DEF FewSaves
<1>1. Saves \subseteq Requests \ {r}
  BY DEF Saves
<1>2. IsFiniteSet(Requests \ {r}) /\ Cardinality(Requests \ {r}) = Cardinality(Requests) - 1
  BY FS_RemoveElement
<1>3. /\ IsFiniteSet(Saves) /\ Cardinality(Saves) <= Cardinality(Requests \ {r})
      /\ Cardinality(Saves) \in Nat /\ Cardinality(Requests) \in Nat /\ MaxRetries \in Nat
  BY <1>1, <1>2, FS_Subset, FS_CardinalityType, ParametersFit
<1> QED
  BY <1>2, <1>3

\* PublishAsync and DeleteAsync leave no policy both current and historical once
\* the answers are out, beside any reads and no more saves than a failing call is
\* retried.
THEOREM CurrentWithOneMover == OneMoverSpec /\ []FewSaves => []CurrentNotInHistory
<1> QED
  BY OneMoverIsSteady, CurrentWhenSteady, PTL

\* What PublishAsync answered with is current or historical until it is deleted by
\* its id, beside any reads and no more saves than a failing call is retried.
THEOREM PublishedWithOneMover == OneMoverSpec /\ []FewSaves => []PublishedIsKept
<1> QED
  BY OneMoverIsSteady, PublishedWhenSteady, PTL

\* With one request for each attempt at a call nobody need count the saves.
THEOREM PublishedAmongFew ==
  ASSUME IsFiniteSet(Requests), Cardinality(Requests) <= MaxRetries + 1
  PROVE  OneMoverSpec => []PublishedIsKept
<1>1. FewSaves
  BY FewRequestsFewSaves
<1> QED
  BY <1>1, PublishedWithOneMover, PTL

-----------------------------------------------------------------------------
(* The refinement mapping, with one mover at a time.  *)

\* What can be read of a directory.
Shown(d) == IF Readable(d) THEN store[d] ELSE NoDir

\* While nothing is published the archive is what can be read ...
LEMMA MapAtRest ==
  ASSUME \A q \in Requests : ~Replacing(q)
  PROVE  /\ CurrentDocument = IF Readable("current") THEN Document(store["current"]) ELSE NoDir
         /\ \A i \in Ids : HistoryBody(i) = IF Readable(i) THEN store[i].body ELSE NoDir
<1>1. Publishing = {} /\ \A i : Reviving(i) = {}
  BY DEF Publishing, Reviving
<1> QED
  BY <1>1 DEF CurrentDocument, HistoryBody

LEMMA MapAtRestNext ==
  ASSUME \A q \in Requests : ~Replacing(q)'
  PROVE  /\ CurrentDocument' =
              IF Readable("current")' THEN Document(store'["current"]) ELSE NoDir
         /\ \A i \in Ids : HistoryBody(i)' = IF Readable(i)' THEN store'[i].body ELSE NoDir
<1>1. Publishing' = {} /\ \A i : Reviving(i)' = {}
  BY DEF Publishing, Reviving
<1> QED
  BY <1>1 DEF CurrentDocument, HistoryBody, Document

\* ... and while request r publishes, it is what r has found.
LEMMA MapPublishing ==
  ASSUME NEW r \in Requests, Replacing(r), \A q \in Requests \ {r} : ~Replacing(q)
  PROVE  /\ CurrentDocument = IF current[r] = Null THEN NoDir ELSE Document(current[r])
         /\ \A i \in Ids : HistoryBody(i) =
              IF found[r].type = "Historical" /\ arg[r] = i THEN found[r].body
              ELSE IF Readable(i) THEN store[i].body ELSE NoDir
<1>1. Publishing = {r}
  BY DEF Publishing
<1>2. (CHOOSE q \in Publishing : TRUE) = r
  BY <1>1
<1>3. ASSUME NEW i \in Ids
      PROVE  HistoryBody(i) =
               IF found[r].type = "Historical" /\ arg[r] = i THEN found[r].body
               ELSE IF Readable(i) THEN store[i].body ELSE NoDir
  <2>1. CASE found[r].type = "Historical" /\ arg[r] = i
    <3>1. Reviving(i) = {r}
      BY <1>1, <2>1 DEF Reviving
    <3>2. (CHOOSE q \in Reviving(i) : TRUE) = r
      BY <3>1
    <3> QED
      BY <2>1, <3>1, <3>2 DEF HistoryBody
  <2>2. CASE ~(found[r].type = "Historical" /\ arg[r] = i)
    <3>1. Reviving(i) = {}
      BY <1>1, <2>2 DEF Reviving
    <3> QED
      BY <2>2, <3>1 DEF HistoryBody
  <2> QED
    BY <2>1, <2>2
<1> QED
  BY <1>1, <1>2, <1>3 DEF CurrentDocument

LEMMA MapPublishingNext ==
  ASSUME NEW r \in Requests, Replacing(r)', \A q \in Requests \ {r} : ~Replacing(q)'
  PROVE  /\ CurrentDocument' = IF current'[r] = Null THEN NoDir ELSE Document(current'[r])
         /\ \A i \in Ids : HistoryBody(i)' =
              IF found'[r].type = "Historical" /\ arg'[r] = i THEN found'[r].body
              ELSE IF Readable(i)' THEN store'[i].body ELSE NoDir
<1>1. Publishing' = {r}
  BY DEF Publishing
<1>2. (CHOOSE q \in Publishing' : TRUE) = r
  BY <1>1
<1>3. ASSUME NEW i \in Ids
      PROVE  HistoryBody(i)' =
               IF found'[r].type = "Historical" /\ arg'[r] = i THEN found'[r].body
               ELSE IF Readable(i)' THEN store'[i].body ELSE NoDir
  <2>1. CASE found'[r].type = "Historical" /\ arg'[r] = i
    <3>1. Reviving(i)' = {r}
      BY <1>1, <2>1 DEF Reviving
    <3>2. (CHOOSE q \in Reviving(i)' : TRUE) = r
      BY <3>1
    <3> QED
      BY <2>1, <3>1, <3>2 DEF HistoryBody
  <2>2. CASE ~(found'[r].type = "Historical" /\ arg'[r] = i)
    <3>1. Reviving(i)' = {}
      BY <1>1, <2>2 DEF Reviving
    <3> QED
      BY <2>2, <3>1 DEF HistoryBody
  <2> QED
    BY <2>1, <2>2
<1> QED
  BY <1>1, <1>2, <1>3 DEF CurrentDocument, Document

\* Where neither changes, the archive does not.
LEMMA Stutters ==
  ASSUME CurrentDocument' = CurrentDocument, \A i \in Ids : HistoryBody(i)' = HistoryBody(i)
  PROVE  UNCHANGED Archive!vars
BY DEF Archive!vars

\* The other requests are not publishing.
LEMMA OthersAtRest ==
  ASSUME NEW r \in Requests, SoleMover(r), Still(r)
  PROVE  \A q \in Requests \ {r} : ~Replacing(q) /\ ~Replacing(q)'
BY DEF SoleMover, Still, Replacing, Moving, InFlight, Ended, WriteLabels, RemoveLabels

\* A step outside of publishing that changes nothing that can be read.
LEMMA QuietOutside ==
  ASSUME NEW r \in Requests, SoleMover(r), Still(r), ~Replacing(r), ~Replacing(r)',
         \A d \in {"current"} \cup Ids : Shown(d)' = Shown(d)
  PROVE  UNCHANGED Archive!vars
<1>1. /\ \A q \in Requests : ~Replacing(q)
      /\ \A q \in Requests : ~Replacing(q)'
  BY OthersAtRest
<1>2. ASSUME NEW d \in {"current"} \cup Ids
      PROVE  Readable(d)' = Readable(d) /\ (Readable(d) => store'[d] = store[d])
  <2>1. Shown(d)' = Shown(d) /\ NoDir \notin Policies
    BY NamesAreDistinct DEF Unreadable
  <2> QED
    BY <2>1 DEF Shown, Readable
<1>3. /\ CurrentDocument = IF Readable("current") THEN Document(store["current"]) ELSE NoDir
      /\ \A i \in Ids : HistoryBody(i) = IF Readable(i) THEN store[i].body ELSE NoDir
  BY <1>1, MapAtRest
<1>4. /\ CurrentDocument' = IF Readable("current")' THEN Document(store'["current"]) ELSE NoDir
      /\ \A i \in Ids : HistoryBody(i)' = IF Readable(i)' THEN store'[i].body ELSE NoDir
  BY <1>1, MapAtRestNext
<1> QED
  BY <1>2, <1>3, <1>4, Stutters

\* A step within a publish that changes nothing that can be read of the history,
\* except where the policy came from.
LEMMA QuietInside ==
  ASSUME NEW r \in Requests, SoleMover(r), Still(r), Replacing(r), Replacing(r)',
         current'[r] = current[r], found'[r] = found[r], arg'[r] = arg[r],
         \A i \in Ids : Shown(i)' = Shown(i) \/ (found[r].type = "Historical" /\ arg[r] = i)
  PROVE  UNCHANGED Archive!vars
<1>1. \A i \in Ids : \/ Readable(i)' = Readable(i) /\ (Readable(i) => store'[i] = store[i])
                     \/ found[r].type = "Historical" /\ arg[r] = i
  BY NamesAreDistinct DEF Shown, Readable, Unreadable
<1>2. /\ CurrentDocument = IF current[r] = Null THEN NoDir ELSE Document(current[r])
      /\ \A i \in Ids : HistoryBody(i) =
           IF found[r].type = "Historical" /\ arg[r] = i THEN found[r].body
           ELSE IF Readable(i) THEN store[i].body ELSE NoDir
  BY OthersAtRest, MapPublishing
<1>3. /\ CurrentDocument' = IF current'[r] = Null THEN NoDir ELSE Document(current'[r])
      /\ \A i \in Ids : HistoryBody(i)' =
           IF found'[r].type = "Historical" /\ arg'[r] = i THEN found'[r].body
           ELSE IF Readable(i)' THEN store'[i].body ELSE NoDir
  BY OthersAtRest, MapPublishingNext
<1> QED
  BY <1>1, <1>2, <1>3, Stutters

-----------------------------------------------------------------------------
(* The steps. *)

\* A call changes at most what can be read of the directory it is made for.
LEMMA OneDirectory ==
  ASSUME NEW t, NEW x, store \in [Dirs -> Unreadable \cup Policies],
         store' = [store EXCEPT ![t] = x]
  PROVE  /\ \A d \in Dirs \ {t} : Shown(d)' = Shown(d)
         /\ t \in Dirs /\ ~Readable(t) /\ x \notin Policies => Shown(t)' = Shown(t)
BY DEF Shown, Readable

\* Looking for a policy is no step of the archive.  The publish
\* that goes on to replace the current policy has it in memory from then on,
\* and the historical policy it is going to promote.
LEMMA LookingStutters ==
  ASSUME IInv, MoverOrder, NEW r \in Requests, Moving(r), SoleMover(r), Still(r), Download(r)
  PROVE  UNCHANGED Archive!vars
<1> USE DEF LocalTypes
<1>1. /\ LocalTypes /\ LocalOK(r) /\ Guided(r) /\ Carried(r)
      /\ store \in [Dirs -> Unreadable \cup Policies]
  BY MoverSees
<1>2. store' = store
  BY DEF Download, FindHistorical, NotHistorical, ReadHistorical, FindCurrent, NoCurrent,
      ReadCurrent, FindDraft, NoDraft, ReadDraft, FindBase, NoBase, ReadBase, FindOld,
      NoOld, ReadOld, Find, Misses, Reads
<1>3. ~Replacing(r)
  BY DEF Download, FindHistorical, NotHistorical, ReadHistorical, FindCurrent, NoCurrent,
      ReadCurrent, FindDraft, NoDraft, ReadDraft, FindBase, NoBase, ReadBase, FindOld,
      NoOld, ReadOld, Find, Misses, Reads, Replacing, WriteLabels, RemoveLabels
<1>4. CASE ~Replacing(r)'
  BY <1>2, <1>3, <1>4, QuietOutside DEF Shown, Readable
<1>5. CASE Replacing(r)'
  <2>1. NoOld(r) \/ ReadOld(r)
    <3>2. ASSUME NEW o, NEW a, End(r, o, a), o \in Ended PROVE FALSE
      BY <1>1, <1>5, <3>2 DEF End, Goto, Ended, Replacing, WriteLabels, RemoveLabels
    <3>3. ASSUME NEW l, JustGoto(r, l), l \notin WriteLabels \cup RemoveLabels PROVE FALSE
      BY <1>1, <1>5, <3>3 DEF JustGoto, Goto, Replacing
    <3>4. ASSUME NEW p, Return(r, p) PROVE FALSE
      BY <1>1, <1>5, <3>2, <3>4 DEF Return, Goto, Ended, Replacing, WriteLabels, RemoveLabels
    <3>5. ASSUME NEW d, StartRemove(r, d), op[r] # "Publish" PROVE FALSE
      BY <1>1, <1>5, <3>5 DEF StartRemove, Replacing
    <3> QED
      BY <3>2, <3>3, <3>4, <3>5
      DEF Download, FindHistorical, NotHistorical, ReadHistorical, FindCurrent, NoCurrent,
          ReadCurrent, FindDraft, NoDraft, ReadDraft, FindBase, NoBase, ReadBase, FindOld,
          Find, WriteLabels, RemoveLabels, Ended
  <2>2. /\ pc[r] \in OldLabels /\ op[r] = "Publish" /\ current[r] = Null
        /\ found'[r] = found[r] /\ arg'[r] = arg[r]
    BY <1>1, <2>1
    DEF NoOld, ReadOld, Misses, Reads, StartWrite, OldLabels, Guided, LocalOK,
        WriteLabels, RemoveLabels
  <2>3. current'[r] = IF Readable("current") THEN store["current"] ELSE Null
    BY <1>1, <2>1, <2>2, NamesAreDistinct
    DEF NoOld, ReadOld, Misses, Reads, StartWrite, FileExists, Readable, Unreadable
  <2>4. \A q \in Requests : ~Replacing(q)
    BY <1>3, OthersAtRest
  <2>5. /\ CurrentDocument = IF Readable("current") THEN Document(store["current"]) ELSE NoDir
        /\ \A i \in Ids : HistoryBody(i) = IF Readable(i) THEN store[i].body ELSE NoDir
    BY <2>4, MapAtRest
  <2>6. /\ CurrentDocument' = IF current'[r] = Null THEN NoDir ELSE Document(current'[r])
        /\ \A i \in Ids : HistoryBody(i)' =
             IF found[r].type = "Historical" /\ arg[r] = i THEN found[r].body
             ELSE IF Readable(i) THEN store[i].body ELSE NoDir
    BY <1>2, <1>5, <2>2, OthersAtRest, MapPublishingNext DEF Readable
  <2>7. CurrentDocument' = CurrentDocument
    BY <2>3, <2>5, <2>6, ParametersFit DEF Readable
  <2>8. found[r].type = "Historical" => Readable(arg[r]) /\ store[arg[r]] = found[r]
    BY <1>1, <2>2, MoverSees DEF Carried, Promoting, Readable
  <2> QED
    BY <2>5, <2>6, <2>7, <2>8, Stutters
<1> QED
  BY <1>4, <1>5

\* Deleting is a step of the archive when the file of a historical policy goes.
LEMMA DeleteStep ==
  ASSUME IInv, MoverOrder, NEW r \in Requests, Moving(r), SoleMover(r), Still(r), Change(r),
         op[r] # "Publish"
  PROVE  Archive!Next \/ UNCHANGED Archive!vars
<1> USE DEF LocalTypes
<1>1. /\ LocalTypes /\ LocalOK(r) /\ AtHand(r) /\ Guided(r) /\ target[r] \in Dirs
      /\ store \in [Dirs -> Unreadable \cup Policies] /\ {"current", "draft"} \cup Ids \subseteq Dirs
  BY MoverSees DEF Dirs
<1>2. op'[r] = op[r]
  BY DEF Change, MakeDirectory, CheckFile, UnlinkOld, OpenNew, WriteData, AfterWrite, Probe,
      CheckDirectory, RemoveFile, RemoveEmptied, AfterRemove, JustGoto, End, StartRemove,
      StartWrite, locals
<1>3. ~Replacing(r) /\ ~Replacing(r)'
  BY <1>2 DEF Replacing
<1>4. CASE store' = store
  BY <1>3, <1>4, QuietOutside DEF Shown, Readable
<1>5. ASSUME NEW x, store' = [store EXCEPT !["draft"] = x]
      PROVE  UNCHANGED Archive!vars
  <2>1. \A d \in Dirs \ {"draft"} : Shown(d)' = Shown(d)
    BY <1>1, <1>5, OneDirectory
  <2>2. {"current"} \cup Ids \subseteq Dirs \ {"draft"}
    BY <1>1, NamesAreDistinct
  <2> QED
    BY <1>3, <2>1, <2>2, QuietOutside
<1>6. ~MakeDirectory(r) /\ ~CheckFile(r) /\ ~UnlinkOld(r) /\ ~OpenNew(r) /\ ~WriteData(r)
  BY <1>1
  DEF MakeDirectory, CheckFile, UnlinkOld, OpenNew, WriteData, Guided, Moving, WriteLabels
<1>7. CASE Probe(r) \/ CheckDirectory(r)
  BY <1>4, <1>7 DEF Probe, CheckDirectory
<1>8. CASE RemoveEmptied(r)
  <2>1. store' = [store EXCEPT ![target[r]] = NoDir] /\ store[target[r]] = NoFile
    BY <1>8 DEF RemoveEmptied, RemoveDirectory
  <2>2. \A d \in {"current"} \cup Ids : Shown(d)' = Shown(d)
    BY <1>1, <2>1, OneDirectory, NamesAreDistinct DEF Readable, Unreadable
  <2> QED
    BY <1>3, <2>2, QuietOutside
<1>9. CASE RemoveFile(r)
  <2>1. /\ pc[r] = "rmFile" /\ store' = [store EXCEPT ![target[r]] = NoFile]
        /\ target[r] # "current" /\ (target[r] # "draft" => Readable(target[r]))
    BY <1>1, <1>9 DEF RemoveFile, EmptyDirectory, DeleteFile, AtHand, LocalOK, RemoveLabels
  <2>2. CASE target[r] = "draft"
    BY <1>5, <2>1, <2>2
  <2>3. CASE target[r] # "draft"
    <3>1. PICK i \in Ids : i = target[r]
      BY <1>1, <2>1, <2>3 DEF Dirs
    <3>2. /\ \A q \in Requests : ~Replacing(q)
          /\ \A q \in Requests : ~Replacing(q)'
      BY <1>3, OthersAtRest
    <3>3. /\ CurrentDocument = IF Readable("current") THEN Document(store["current"]) ELSE NoDir
          /\ \A j \in Ids : HistoryBody(j) = IF Readable(j) THEN store[j].body ELSE NoDir
      BY <3>2, MapAtRest
    <3>4. /\ CurrentDocument' =
               IF Readable("current")' THEN Document(store'["current"]) ELSE NoDir
          /\ \A j \in Ids : HistoryBody(j)' = IF Readable(j)' THEN store'[j].body ELSE NoDir
      BY <3>2, MapAtRestNext
    <3>5. /\ \A d \in Dirs \ {i} : store'[d] = store[d] /\ Readable(d)' = Readable(d)
          /\ ~Readable(i)'
      BY <1>1, <2>1, <3>1, NamesAreDistinct DEF Readable, Unreadable
    <3>6. CurrentDocument' = CurrentDocument
      BY <1>1, <3>1, <3>3, <3>4, <3>5, NamesAreDistinct
    <3>7. /\ HistoryBody(i) = store[i].body /\ HistoryBody(i)' = NoDir
          /\ \A j \in Ids \ {i} : HistoryBody(j)' = HistoryBody(j)
      BY <1>1, <2>1, <2>3, <3>1, <3>3, <3>4, <3>5
    <3>8. HistoryBody(i) # NoDir
      BY <2>1, <2>3, <3>1, <3>7, NoDirIsNoPolicy DEF Readable, Policies
    <3>9. [j \in Ids |-> HistoryBody(j)'] = [[j \in Ids |-> HistoryBody(j)] EXCEPT ![i] = NoDir]
      BY <3>7
    <3>10. Archive!Remove(i)
      BY <3>6, <3>8, <3>9 DEF Archive!Remove
    <3> QED
      BY <3>10 DEF Archive!Next
  <2> QED
    BY <2>2, <2>3
<1> QED
  BY <1>6, <1>7, <1>8, <1>9 DEF Change

\* The calls of a publish up to the last: what they change is the current
\* policy, which the publish knows as it was, its source, or unreadable anyway.
LEMMA PublishStutters ==
  ASSUME IInv, MoverOrder, NEW r \in Requests, Moving(r), SoleMover(r), Still(r), Change(r),
         op[r] = "Publish", ~(pc[r] = "bytes" /\ target[r] # "current")
  PROVE  UNCHANGED Archive!vars
<1> USE DEF LocalTypes
<1>1. /\ LocalTypes /\ LocalOK(r) /\ AtHand(r) /\ Carried(r) /\ target[r] \in Dirs
      /\ store \in [Dirs -> Unreadable \cup Policies] /\ Ids \subseteq Dirs
  BY MoverSees DEF Dirs
<1>2. pc[r] \in WriteLabels \cup RemoveLabels
  BY <1>1
  DEF Change, MakeDirectory, CheckFile, UnlinkOld, OpenNew, WriteData, Probe,
      CheckDirectory, RemoveFile, RemoveEmptied, WriteLabels, RemoveLabels, LocalOK
<1>3. Replacing(r) /\ Promoting(r)
  BY <1>2 DEF Replacing, Promoting
<1>4. /\ op'[r] = op[r] /\ arg'[r] = arg[r] /\ found'[r] = found[r] /\ current'[r] = current[r]
      /\ pc'[r] \in WriteLabels \cup RemoveLabels
  BY PublishGoesOn
<1>5. Replacing(r)'
  BY <1>4 DEF Replacing
<1>6. \/ store' = store
      \/ \E x : /\ store' = [store EXCEPT ![target[r]] = x]
                /\ \/ target[r] \in {"current", Source(r)}
                   \/ ~Readable(target[r]) /\ x \notin Policies
  <2>1. CASE MakeDirectory(r)
    <3>1. PICK x : /\ store' = [store EXCEPT ![target[r]] = x]
                   /\ x = IF store[target[r]] = NoDir THEN NoFile ELSE store[target[r]]
      BY <2>1 DEF MakeDirectory, CreateDirectory
    <3>2. target[r] # "current" => ~Readable(target[r]) /\ x \notin Policies
      BY <1>1, <1>3, <2>1, <3>1, NamesAreDistinct
      DEF MakeDirectory, Carried, Archiving, WriteLabels, Readable, Unreadable
    <3> QED
      BY <3>1, <3>2
  <2>2. CASE CheckFile(r) \/ CheckDirectory(r)
    BY <2>2 DEF CheckFile, CheckDirectory
  <2>3. CASE UnlinkOld(r)
    <3>1. pc[r] = "unlink" /\ store' = [store EXCEPT ![target[r]] = NoFile]
      BY <2>3 DEF UnlinkOld, DeleteFile
    <3>2. target[r] = "current"
      BY <1>1, <1>3, <3>1, NamesAreDistinct DEF Carried, Archiving, AtHand, WriteLabels
    <3> QED
      BY <3>1, <3>2
  <2>4. CASE OpenNew(r)
    <3>1. /\ pc[r] = "open" /\ store' = [store EXCEPT ![target[r]] = Blank]
      BY <2>4 DEF OpenNew, OpenForWrite
    <3>2. target[r] # "current" => ~Readable(target[r])
      BY <1>1, <1>3, <3>1 DEF Carried, Archiving, WriteLabels
    <3> QED
      BY <3>1, <3>2, NamesAreDistinct DEF Unreadable
  <2>5. CASE WriteData(r)
    BY <1>1, <2>5, NamesAreDistinct DEF WriteData, WriteBytes, AtHand
  <2>6. CASE RemoveFile(r) \/ RemoveEmptied(r)
    <3>1. pc[r] \in RemoveLabels /\ \E x : store' = [store EXCEPT ![target[r]] = x]
      BY <2>6
      DEF RemoveFile, RemoveEmptied, EmptyDirectory, DeleteFile, RemoveDirectory, RemoveLabels
    <3>2. target[r] = Source(r)
      BY <1>1, <1>3, <3>1 DEF Carried
    <3> QED
      BY <3>1, <3>2
  <2>7. CASE Probe(r)
    BY <2>7 DEF Probe
  <2> QED
    BY <2>1, <2>2, <2>3, <2>4, <2>5, <2>6, <2>7 DEF Change
<1>7. ASSUME NEW i \in Ids
      PROVE  Shown(i)' = Shown(i) \/ (found[r].type = "Historical" /\ arg[r] = i)
  <2>1. i \in Dirs /\ i \notin {"current", "draft"}
    BY <1>1, NamesAreDistinct
  <2>2. CASE store' = store
    BY <2>2 DEF Shown, Readable
  <2>3. ASSUME NEW x, store' = [store EXCEPT ![target[r]] = x],
               \/ target[r] \in {"current", Source(r)}
               \/ ~Readable(target[r]) /\ x \notin Policies
        PROVE  Shown(i)' = Shown(i) \/ (found[r].type = "Historical" /\ arg[r] = i)
    <3>1. CASE i # target[r]
      BY <1>1, <2>1, <2>3, <3>1, OneDirectory
    <3>2. CASE i = target[r] /\ i = Source(r)
      BY <2>1, <3>2 DEF Source
    <3>3. CASE i = target[r] /\ i # Source(r)
      BY <1>1, <2>1, <2>3, <3>3, OneDirectory
    <3> QED
      BY <3>1, <3>2, <3>3
  <2> QED
    BY <1>6, <2>2, <2>3
<1> QED
  BY <1>3, <1>4, <1>5, <1>7, QuietInside

\* The last call of a publish is the step of the archive.
LEMMA PublishPromotes ==
  ASSUME IInv, MoverOrder, NEW r \in Requests, Moving(r), SoleMover(r), Still(r), WriteData(r),
         op[r] = "Publish", target[r] # "current"
  PROVE  Archive!Next
<1> USE DEF LocalTypes
<1>1. /\ LocalTypes /\ LocalOK(r) /\ AtHand(r) /\ Carried(r) /\ target[r] \in Dirs
      /\ store \in [Dirs -> Unreadable \cup Policies]
      /\ {"current"} \cup Ids \subseteq Dirs
  BY MoverSees DEF Dirs
<1>2. pc[r] = "bytes" /\ Archiving(r) /\ Promoting(r) /\ Replacing(r)
  BY DEF WriteData, Archiving, Promoting, WriteLabels, Replacing
<1>3. /\ data[r] \in Policies /\ Fits(data[r], target[r]) /\ arg[r] \in Ids
      /\ found[r] \in Policies /\ found[r].id = arg[r]
      /\ AsCurrent(found[r]) \in Policies /\ store["current"] = AsCurrent(found[r])
      /\ store[arg[r]] = NoDir /\ target[r] # arg[r]
      /\ current[r] # Null => /\ current[r] \in Policies /\ current[r].id # arg[r]
                              /\ data[r] = AsHistorical(current[r])
      /\ current[r] = Null => data[r].body = DefaultBody
      /\ store[target[r]] = Blank /\ handle[r] = target[r]
  BY <1>1, <1>2, NamesAreDistinct, MoverSees DEF LocalOK, WriteLabels, Carried, AtHand
<1>4. PICK t \in Ids : t = target[r]
  BY <1>1, <1>2 DEF Carried
<1> DEFINE p == Document(found[r])
           old == Document(data[r])
           history == [i \in Ids |-> HistoryBody(i)]
<1>5. data[r].id = t /\ t # "current" /\ t # arg[r]
  BY <1>3, <1>4, NamesAreDistinct DEF Fits
<1>6. store' = [store EXCEPT ![t] = data[r]] /\ pc'[r] = "done"
  BY <1>1, <1>3, <1>4, NamesAreDistinct
  DEF WriteData, WriteBytes, WriteResults, AfterWrite, End, Goto
<1>7. \A q \in Requests : ~Replacing(q)'
  BY <1>6, OthersAtRest DEF Replacing, WriteLabels, RemoveLabels
<1>8. /\ CurrentDocument = IF current[r] = Null THEN NoDir ELSE Document(current[r])
      /\ \A i \in Ids : HistoryBody(i) =
           IF found[r].type = "Historical" /\ arg[r] = i THEN found[r].body
           ELSE IF Readable(i) THEN store[i].body ELSE NoDir
  BY <1>2, OthersAtRest, MapPublishing
<1>9. /\ CurrentDocument' =
           IF Readable("current")' THEN Document(store'["current"]) ELSE NoDir
      /\ \A i \in Ids : HistoryBody(i)' = IF Readable(i)' THEN store'[i].body ELSE NoDir
  BY <1>7, MapAtRestNext
<1>10. p.id = arg[r] /\ old.id = t /\ p \in Archive!Documents /\ old.body = data[r].body
  BY <1>3, <1>5 DEF Document, Policies, Archive!Documents
<1>11. CurrentDocument' = p
  <2>1. store'["current"] = AsCurrent(found[r]) /\ Readable("current")'
    BY <1>1, <1>3, <1>5, <1>6 DEF Readable
  <2>2. Document(AsCurrent(found[r])) = p
    BY <1>3 DEF Document, AsCurrent, Policies
  <2> QED
    BY <1>9, <2>1, <2>2
<1>12. ~Readable(t) /\ ~Readable(arg[r])
  BY <1>3, <1>4, NamesAreDistinct DEF Readable, Unreadable
<1>13. HistoryBody(arg[r]) \in {NoDir, p.body} /\ HistoryBody(t) = NoDir
  BY <1>3, <1>5, <1>8, <1>12 DEF Document
<1>14. ASSUME NEW i \in Ids
       PROVE  HistoryBody(i)' = IF i = t THEN old.body
                                ELSE IF i = arg[r] THEN NoDir ELSE HistoryBody(i)
  <2>1. store'[t] = data[r] /\ (i # t => store'[i] = store[i])
    BY <1>1, <1>6
  <2>2. CASE i = t
    BY <1>3, <1>9, <1>10, <2>1, <2>2 DEF Readable
  <2>3. CASE i = arg[r] /\ i # t
    BY <1>9, <1>12, <2>1, <2>3 DEF Readable
  <2>4. CASE i # arg[r] /\ i # t
    BY <1>8, <1>9, <2>1, <2>4 DEF Readable
  <2> QED
    BY <2>2, <2>3, <2>4
<1>15. [i \in Ids |-> HistoryBody(i)'] = [history EXCEPT ![arg[r]] = NoDir, ![t] = old.body]
  <2> HIDE DEF old
  <2> QED
    BY <1>3, <1>14
<1>16. CurrentDocument # NoDir => p.id # CurrentDocument.id
  BY <1>3, <1>8, <1>10 DEF Document
<1>17. old \in Archive!Retired
  <2>1. CASE current[r] = Null
    <3>1. CurrentDocument = NoDir /\ history[t] = NoDir
      BY <1>8, <1>13, <2>1
    <3>2. old = [id |-> t, body |-> DefaultBody]
      BY <1>3, <1>5, <2>1 DEF Document
    <3> QED
      BY <3>1, <3>2 DEF Archive!Retired
  <2>2. CASE current[r] # Null
    <3>1. CurrentDocument = Document(current[r]) /\ CurrentDocument # NoDir
      BY <1>3, <1>8, <2>2, NoDirIsNoPolicy DEF Document, Policies
    <3>2. old = Document(current[r])
      BY <1>3, <2>2 DEF Document, AsHistorical, Policies
    <3> QED
      BY <3>1, <3>2 DEF Archive!Retired
  <2> QED
    BY <2>1, <2>2
<1>18. Archive!Promote(p)
  BY <1>3, <1>5, <1>10, <1>11, <1>13, <1>15, <1>16, <1>17 DEF Archive!Promote
<1> QED
  BY <1>10, <1>18 DEF Archive!Next

\* A request that arrives, reads or saves does nothing to the archive, whatever
\* the mover has reached beside it.
LEMMA BesideStutters ==
  ASSUME IInv, MoverOrder, NEW r \in Requests, Arrive(r) \/ Work(r), ~Moving(r)
  PROVE  UNCHANGED Archive!vars
<1>1. \A d \in {"current"} \cup Ids : store'[d] = store[d]
  <2>1. {"current"} \cup Ids \subseteq Settled
    BY NamesAreDistinct DEF Settled, Dirs
  <2>2. CASE Arrive(r)
    BY <2>2 DEF Arrive, GetDraft, GetCurrent, GetPolicyById, Publish, Delete, SaveAsDraft, Begin
  <2>3. CASE Work(r)
    BY <2>1, <2>3, BesideGuided
  <2> QED
    BY <2>2, <2>3
<1>2. ~Replacing(r) /\ ~Replacing(r)'
  <2>1. CASE Arrive(r)
    <3>1. pc[r] = "idle" /\ pc'[r] \in {"findDraft", "findCurrent", "findHistorical", "probe", "mkdir"}
          /\ (op'[r] = "Publish" => pc'[r] = "findHistorical")
      BY <2>1, Typed
      DEF LocalTypes, Arrive, GetDraft, GetCurrent, GetPolicyById, Publish, Delete, SaveAsDraft,
          Begin, Goto
    <3> QED
      BY <3>1 DEF Replacing, WriteLabels, RemoveLabels
  <2>2. CASE Work(r)
    BY <2>2, BesideGuided DEF Replacing
  <2> QED
    BY <2>1, <2>2
<1>3. ASSUME NEW q \in Requests
      PROVE  /\ Replacing(q)' = Replacing(q)
             /\ Replacing(q) =>
                  current'[q] = current[q] /\ found'[q] = found[q] /\ arg'[q] = arg[q]
  <2>1. CASE q = r
    BY <1>2, <2>1 DEF Replacing
  <2>2. CASE q # r
    BY <2>2, LocalsAreItsOwn DEF Still, Replacing
  <2> QED
    BY <2>1, <2>2
<1>4. Publishing' = Publishing
  BY <1>3 DEF Publishing
<1>5. \A i \in Ids : Reviving(i)' = Reviving(i)
  BY <1>3, <1>4 DEF Reviving, Publishing
<1>6. CurrentDocument' = CurrentDocument
  <2>1. CASE Publishing = {}
    BY <1>1, <1>4, <2>1 DEF CurrentDocument, Readable, Document
  <2>2. CASE Publishing # {}
    <3>1. PICK q \in Publishing : q = (CHOOSE p \in Publishing : TRUE)
      BY <2>2
    <3>2. q = (CHOOSE p \in Publishing' : TRUE) /\ current'[q] = current[q]
      BY <1>3, <1>4, <3>1 DEF Publishing
    <3> QED
      BY <1>4, <3>1, <3>2 DEF CurrentDocument, Document
  <2> QED
    BY <2>1, <2>2
<1>7. ASSUME NEW i \in Ids PROVE HistoryBody(i)' = HistoryBody(i)
  <2>1. CASE Reviving(i) = {}
    <3>1. Reviving(i)' = {} /\ store'[i] = store[i] /\ Readable(i)' = Readable(i)
      BY <1>1, <1>5, <2>1 DEF Readable
    <3> QED
      BY <2>1, <3>1 DEF HistoryBody
  <2>2. CASE Reviving(i) # {}
    <3>1. PICK q \in Reviving(i) : q = (CHOOSE p \in Reviving(i) : TRUE)
      BY <2>2
    <3>2. q = (CHOOSE p \in Reviving(i)' : TRUE) /\ found'[q] = found[q]
      BY <1>3, <1>5, <3>1 DEF Reviving, Publishing
    <3> QED
      BY <1>5, <3>1, <3>2 DEF HistoryBody
  <2> QED
    BY <2>1, <2>2
<1> QED
  BY <1>6, <1>7, Stutters

\* A call of the mover that throws is no step of the archive: it is made again,
\* or it is given up before anything was replaced.
LEMMA ThrowingStutters ==
  ASSUME IInv, MoverOrder, NEW r \in Requests, Moving(r), SoleMover(r), Still(r),
         Retry(r) \/ GiveUp(r), Replacing(r) => pc'[r] # "failed"
  PROVE  UNCHANGED Archive!vars
<1>1. LocalTypes /\ store' = store
  BY Typed DEF Retry, GiveUp
<1>2. CASE Retry(r)
  <2>1. UNCHANGED <<op, arg, found, current>>
        /\ pc'[r] = (IF pc[r] = "rmDir" THEN "rmFile" ELSE pc[r])
    BY <1>1, <1>2 DEF Retry, LocalTypes
  <2>2. Replacing(r)' = Replacing(r)
    BY <2>1 DEF Replacing, RemoveLabels, WriteLabels
  <2>3. CASE Replacing(r)
    BY <1>1, <2>1, <2>2, <2>3, QuietInside DEF Shown, Readable
  <2>4. CASE ~Replacing(r)
    BY <1>1, <2>2, <2>4, QuietOutside DEF Shown, Readable
  <2> QED
    BY <2>3, <2>4
<1>3. CASE GiveUp(r)
  <2>1. pc'[r] = "failed"
    BY <1>1, <1>3 DEF GiveUp, End, Goto, LocalTypes
  <2>2. ~Replacing(r) /\ ~Replacing(r)'
    BY <2>1 DEF Replacing, WriteLabels, RemoveLabels
  <2> QED
    BY <1>1, <2>2, QuietOutside DEF Shown, Readable
<1> QED
  BY <1>2, <1>3

-----------------------------------------------------------------------------
(* The theorems. *)

\* The share at first is an archive.
LEMMA ArchiveAtFirst == ASSUME Init PROVE Archive!Init
<1>2. IInv /\ store \in [Dirs -> Unreadable \cup Policies]
  BY InitInvariant DEF IInv, TypeOK, FileStoreTypeOK
<1>3. \A q \in Requests : ~Replacing(q)
  BY DEF Init, Replacing, WriteLabels, RemoveLabels
<1>4. /\ CurrentDocument = IF Readable("current") THEN Document(store["current"]) ELSE NoDir
      /\ \A i \in Ids : HistoryBody(i) = IF Readable(i) THEN store[i].body ELSE NoDir
  BY <1>3, MapAtRest
<1>5. Archive!TypeOK
  BY <1>4 DEF Archive!TypeOK, Archive!Documents, Document, Readable, Policies
<1>6. CurrentDocument # NoDir => HistoryBody(CurrentDocument.id) = NoDir
  <2> SUFFICES ASSUME Readable("current") PROVE HistoryBody(store["current"].id) = NoDir
    BY <1>4 DEF Document
  <2>1. store["current"].id \in Ids
    BY DEF Readable, Policies
  <2>2. store[store["current"].id] = NoDir
    BY <2>1, NoDoubleAtFirst DEF HoldsPolicy
  <2> QED
    BY <1>4, <2>1, <2>2, NamesAreDistinct DEF Readable, Unreadable
<1>7. CurrentDocument = NoDir => \A i \in Ids : HistoryBody(i) = NoDir
  <2> SUFFICES ASSUME ~Readable("current"), NEW i \in Ids PROVE ~Readable(i)
    BY <1>4, NoDirIsNoPolicy DEF Document, Readable, Policies
  <2>1. PICK c \in {NoDir} \cup Policies, d \in {NoDir} \cup Policies, H \in SUBSET Known :
          \E body \in [H -> Bodies] :
            /\ AtQuietTimes(c, d, H)
            /\ store = [x \in Dirs |->
                 CASE x = "current" -> c
                   [] x = "draft" -> d
                   [] x \in H -> [id |-> x, type |-> "Historical", body |-> body[x]]
                   [] OTHER -> NoDir]
    BY DEF Init
  <2>2. PICK body \in [H -> Bodies] :
          /\ AtQuietTimes(c, d, H)
          /\ store = [x \in Dirs |->
               CASE x = "current" -> c
                 [] x = "draft" -> d
                 [] x \in H -> [id |-> x, type |-> "Historical", body |-> body[x]]
                 [] OTHER -> NoDir]
    BY <2>1
  <2>3. "current" \in Dirs /\ i \in Dirs /\ i # "current" /\ i # "draft" /\ "current" \notin H
    BY NamesAreDistinct, ParametersFit DEF Dirs
  <2>4. store["current"] = c
    BY <2>2, <2>3
  <2>5. c = NoDir
    BY <2>4 DEF Readable
  <2>6. store[i] = NoDir
    BY <2>2, <2>3, <2>5 DEF AtQuietTimes
  <2> QED
    BY <2>6, NamesAreDistinct DEF Readable, Unreadable
<1>8. Archive!Exclusive
  <2>1. CurrentDocument # NoDir => CurrentDocument.id \in Ids
    BY <1>5, NoDirIsNoPolicy DEF Archive!TypeOK, Archive!Documents
  <2> QED
    BY <1>6, <1>7, <2>1 DEF Archive!Exclusive
<1> QED
  BY <1>5, <1>8 DEF Archive!Init

\* Every step is one of the archive or none.
LEMMA StepRefines ==
  ASSUME MoverInv, [Next /\ OneMover' /\ Steady]_vars, faults' = 0
  PROVE  [Archive!Next]_(Archive!vars)
<1>1. /\ IInv /\ MoverOrder /\ OneMover
      /\ (\E r \in Requests : Arrive(r) \/ Work(r)) \/ UNCHANGED vars
  BY WhoSteps DEF MoverInv
<1>2. CASE UNCHANGED vars
  BY <1>2 DEF vars, locals, Archive!vars, CurrentDocument, HistoryBody, Publishing, Replacing,
      Reviving, Readable, Document
<1>3. ASSUME ~UNCHANGED vars, NEW r \in Requests, Arrive(r) \/ Work(r)
      PROVE  Archive!Next \/ UNCHANGED Archive!vars
  <2>1. Replacing(r) => pc'[r] # "failed"
    BY <1>3 DEF Steady
  <2>2. CASE ~Moving(r)
    BY <1>1, <1>3, <2>2, BesideStutters
  <2>3. CASE Moving(r)
    <3>1. SoleMover(r) /\ Still(r) /\ Work(r)
      <4>1. ~Arrive(r)
        BY <2>3
        DEF Arrive, GetDraft, GetCurrent, GetPolicyById, Publish, Delete, SaveAsDraft, Begin,
            Moving, InFlight
      <4> QED
        BY <1>1, <1>3, <2>3, <4>1, LocalsAreItsOwn DEF OneMover, SoleMover
    <3>2. CASE Download(r)
      BY <1>1, <2>3, <3>1, <3>2, LookingStutters
    <3>3. CASE Change(r) /\ op[r] # "Publish"
      BY <1>1, <2>3, <3>1, <3>3, DeleteStep
    <3>4. CASE Change(r) /\ op[r] = "Publish" /\ pc[r] = "bytes" /\ target[r] # "current"
      <4>1. WriteData(r)
        BY <3>4
        DEF Change, MakeDirectory, CheckFile, UnlinkOld, OpenNew, Probe, CheckDirectory,
            RemoveFile, RemoveEmptied
      <4> QED
        BY <1>1, <2>3, <3>1, <3>4, <4>1, PublishPromotes
    <3>5. CASE Change(r) /\ op[r] = "Publish" /\ ~(pc[r] = "bytes" /\ target[r] # "current")
      BY <1>1, <2>3, <3>1, <3>5, PublishStutters
    <3>6. CASE Retry(r) \/ GiveUp(r)
      BY <1>1, <2>1, <2>3, <3>1, <3>6, ThrowingStutters
    <3> QED
      BY <3>1, <3>2, <3>3, <3>4, <3>5, <3>6 DEF Work
  <2> QED
    BY <2>2, <2>3
<1> QED
  BY <1>1, <1>2, <1>3

\* Under the same condition PublishAsync and DeleteAsync are one indivisible step
\* of PolicyArchive each, whatever reads and saves go on beside them.
THEOREM ImplementsWhenSteady == SteadySpec /\ [](faults = 0) => ImplementsArchive
<1>1. Init => Archive!Init
  BY ArchiveAtFirst
<1>2. MoverInv /\ [Next /\ OneMover' /\ Steady]_vars /\ (faults = 0)'
        => [Archive!Next]_(Archive!vars)
  BY StepRefines
<1> QED
  BY <1>1, <1>2, MoverInvariance, PTL DEF SteadySpec, ImplementsArchive, Archive!Spec

\* PublishAsync is one indivisible step of PolicyArchive and so is DeleteAsync,
\* beside any reads and no more saves than a failing call is retried: the dozen
\* file-system calls a publish makes have the effect of its last one.
THEOREM ImplementsWithOneMover ==
  OneMoverSpec /\ []FewSaves /\ [](faults = 0) => ImplementsArchive
<1> QED
  BY OneMoverIsSteady, ImplementsWhenSteady, PTL

\* The same for clients that wait for every answer, however many saves they make.
THEOREM ImplementsWhenSerial == SerialSpec /\ [](faults = 0) => ImplementsArchive
<1> QED
  BY SerialIsSteady, ImplementsWhenSteady, PTL

=============================================================================
