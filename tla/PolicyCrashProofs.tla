--------------------------- MODULE PolicyCrashProofs ---------------------------
(***************************************************************************)
(* What PolicyService does for clients that wait for every answer, through *)
(* any number of crashes and I/O errors: a lookup by id that finds nothing *)
(* is right about it, and the last copy of a policy leaves the share only  *)
(* where the program means it to or while a publish holds it in memory.    *)
(*                                                                         *)
(* No step is assumed to succeed.  What a request has found out stays true *)
(* while it is the only one in flight, until it ends, by an answer, an     *)
(* error or a crash; what earlier requests have left torn is no copy.      *)
(***************************************************************************)
EXTENDS PolicySerialProofs

-----------------------------------------------------------------------------
(* Lookups.  While one runs the share stands still, so what it has ruled    *)
(* out stays ruled out.  Afterwards the policy cannot come back: publishing *)
(* and deleting write what they have read, or a default under a fresh id,   *)
(* and only saving a draft brings a policy from outside.                    *)

LookLabels ==
  {"findHistorical", "readHistorical", "findCurrent", "readCurrent", "findDraft", "readDraft",
   "findBase", "readBase"}

\* Where a lookup stands tells what it has ruled out.
RuledOut(r) ==
  op[r] = "GetPolicyById" =>
    /\ pc[r] \in LookLabels \cup Ended
    /\ pc[r] \in {"findCurrent", "readCurrent", "findDraft", "readDraft", "findBase", "readBase"} =>
         ~HoldsPolicy(arg[r], arg[r])
    /\ pc[r] \in {"findDraft", "readDraft", "findBase", "readBase"} =>
         ~HoldsPolicy("current", arg[r])
    /\ pc[r] \in {"findBase", "readBase"} => ~HoldsPolicy("draft", arg[r])

\* The policy i is neither on the share nor in what a publish has read.
Gone(i) ==
  /\ \A d \in Dirs : ~HoldsPolicy(d, i)
  /\ \A q \in Requests :
       /\ Promoting(q) => found[q].id # i /\ (current[q] # Null => current[q].id # i)
       /\ pc[q] \in WriteLabels => data[q].id # i

NoSaves == \A q \in Requests : op[q] # "SaveAsDraft"

LookedUp(r) ==
  op[r] = "GetPolicyById" /\ pc[r] = "done" /\ found[r] = Null /\ NoSaves => Gone(arg[r])

IdleIsNew == \A q \in Requests : pc[q] = "idle" => op[q] = Null

\* A publish holds the policy it replaces from when it begins to write.
EmptyHanded(r) == pc[r] \notin WriteLabels \cup RemoveLabels => current[r] = Null

\* The inductive invariant of lookups.
LookupInv ==
  /\ IInv /\ OneRequest /\ IdleIsNew
  /\ \A r \in Requests : EmptyHanded(r) /\ RuledOut(r) /\ LookedUp(r)

-----------------------------------------------------------------------------
(* A policy that is gone stays gone. *)

\* What a step can put on the share was there or was about to be written.
LEMMA NothingFromNowhere ==
  ASSUME IInv, [Next]_vars, NEW d \in Dirs, Readable(d)'
  PROVE  store'[d] = store[d] \/ \E q \in Requests : pc[q] \in WriteLabels /\ store'[d] = data[q]
<1>1. /\ store \in [Dirs -> Unreadable \cup Policies] /\ store'[d] \notin Unreadable
      /\ \A q \in Requests : target[q] \in Dirs
  BY NamesAreDistinct, Typed DEF Readable, IInv, TypeOK, FileStoreTypeOK
<1>2. ASSUME NEW R, store' \in LeftBy(R) PROVE store'[d] = store[d]
  BY <1>1, <1>2 DEF LeftBy, Unreadable
<1>3. ASSUME NEW r \in Requests, Arrive(r) \/ Download(r) \/ Retry(r) \/ GiveUp(r)
      PROVE  UNCHANGED store
  <2>1. CASE Arrive(r)
    BY <2>1 DEF Arrive, GetDraft, GetCurrent, GetPolicyById, Publish, Delete, SaveAsDraft, Begin
  <2>2. CASE Download(r)
    BY <2>2 DEF Download, FindHistorical, NotHistorical, ReadHistorical, FindCurrent, NoCurrent,
        ReadCurrent, FindDraft, NoDraft, ReadDraft, FindBase, NoBase, ReadBase, FindOld,
        NoOld, ReadOld, Find, Misses, Reads
  <2> QED
    BY <1>3, <2>1, <2>2 DEF Retry, GiveUp
<1>4. ASSUME NEW r \in Requests, Change(r)
      PROVE  store'[d] = store[d] \/ (pc[r] \in WriteLabels /\ store'[d] = data[r])
  <2>1. CASE WriteData(r)
    <3>1. CASE handle[r] \in Dirs
      BY <1>1, <2>1, <3>1, NamesAreDistinct
      DEF WriteData, WriteBytes, WriteResults, WriteLabels, Unreadable
    <3>2. CASE handle[r] \notin Dirs
      BY <2>1, <3>2 DEF WriteData, WriteBytes
    <3> QED
      BY <3>1, <3>2
  <2>2. CASE \/ MakeDirectory(r) \/ UnlinkOld(r) \/ OpenNew(r) \/ RemoveFile(r)
             \/ RemoveEmptied(r)
    <3>1. \E x \in Unreadable \cup {store[target[r]]} : store' = [store EXCEPT ![target[r]] = x]
      BY <2>2
      DEF MakeDirectory, CreateDirectory, UnlinkOld, DeleteFile, OpenNew, OpenForWrite,
          RemoveFile, EmptyDirectory, RemoveEmptied, RemoveDirectory, Unreadable
    <3> QED
      BY <1>1, <3>1
  <2>3. CASE CheckFile(r) \/ Probe(r) \/ CheckDirectory(r)
    BY <2>3 DEF CheckFile, Probe, CheckDirectory
  <2> QED
    BY <1>4, <2>1, <2>2, <2>3 DEF Change
<1>5. CASE Crash
  BY <1>2, <1>5 DEF Crash
<1>6. CASE \E r \in Requests : IOError(r) \/ WriteAgain(r)
  BY <1>2, <1>6 DEF IOError, WriteAgain
<1>7. CASE UNCHANGED vars
  BY <1>7 DEF vars
<1> QED
  BY <1>3, <1>4, <1>5, <1>6, <1>7 DEF Next, Work, Terminated

\* A request at work begins to hold a policy when it begins to write.
LEMMA EmptyHandedStep ==
  ASSUME IInv, NEW r \in Requests, Arrive(r) \/ Work(r), EmptyHanded(r)
  PROVE  EmptyHanded(r)'
<1> USE DEF EmptyHanded, ReadLabels, WriteLabels, RemoveLabels, Ended
<1>1. LocalTypes /\ LocalOK(r)
  BY Typed
<1>2. /\ \A o, a : End(r, o, a) => EmptyHanded(r)'
      /\ \A l : JustGoto(r, l) => pc'[r] = l /\ current'[r] = current[r]
      /\ \A d, p : StartWrite(r, d, p) => pc'[r] = "mkdir"
      /\ \A d : StartRemove(r, d) => pc'[r] = "rmCheck"
  BY <1>1 DEF LocalTypes, End, JustGoto, StartWrite, StartRemove, Goto
<1>3. \A p : Return(r, p) /\ pc[r] \in ReadLabels => EmptyHanded(r)'
  BY <1>1, <1>2 DEF LocalTypes, Return, Goto
<1>4. CASE Arrive(r)
  BY <1>1, <1>4 DEF LocalTypes, Arrive, GetDraft, GetCurrent, GetPolicyById, Publish, Delete,
                    SaveAsDraft, Begin, Goto
<1>5. CASE Download(r)
  <2>1. CASE ReadOld(r)
    BY <1>1, <2>1 DEF LocalTypes, ReadOld, Goto
  <2> QED
    BY <1>2, <1>3, <1>5, <2>1
    DEF Download, FindHistorical, NotHistorical, ReadHistorical, FindCurrent, NoCurrent,
        ReadCurrent, FindDraft, NoDraft, ReadDraft, FindBase, NoBase, ReadBase, FindOld,
        NoOld, Find, Misses, Reads
<1>6. CASE Change(r)
  <2>1. CASE RemoveFile(r)
    BY <1>1, <2>1 DEF LocalTypes, RemoveFile, locals
  <2> QED
    BY <1>2, <1>6, <2>1
    DEF Change, MakeDirectory, CheckFile, UnlinkOld, OpenNew, WriteData, AfterWrite, Probe,
        CheckDirectory, AfterRemove, RemoveEmptied
<1>7. CASE Retry(r)
  BY <1>1, <1>7 DEF LocalTypes, Retry
<1>8. CASE GiveUp(r)
  BY <1>2, <1>8 DEF GiveUp
<1> QED
  BY <1>4, <1>5, <1>6, <1>7, <1>8 DEF Work

\* A request at work holds on to what it has, or reads it from the share.
LEMMA HoldsWhatItRead ==
  ASSUME IInv, NEW r \in Requests, Work(r), EmptyHanded(r), NEW k \in Requests, NEW i,
         i = arg[k], Gone(i)
  PROVE  /\ Promoting(r)' => found'[r].id # i /\ (current'[r] # Null => current'[r].id # i)
         /\ pc'[r] \in WriteLabels => data'[r].id # i
<1> DEFINE Fine ==
      /\ Promoting(r)' => found'[r].id # i /\ (current'[r] # Null => current'[r].id # i)
      /\ pc'[r] \in WriteLabels => data'[r].id # i
<1> USE DEF ReadLabels, FindLabels, WriteLabels, RemoveLabels, OldLabels, Ended
<1>1. /\ LocalTypes /\ LocalOK(r) /\ op'[r] = op[r]
      /\ \A d \in Dirs : Readable(d) => store[d] \in Policies /\ store[d].id # i
      /\ {"current", "draft"} \subseteq Dirs
      /\ pc[r] \in {"findHistorical", "readHistorical"} => arg[r] \in Dirs
  BY Typed, WorkKeepsQuestion DEF Gone, HoldsPolicy, LocalOK, ById, Dirs
<1>2. /\ Promoting(r) => /\ found[r] \in Policies /\ found[r].id # i
                         /\ current[r] # Null => current[r].id # i
      /\ pc[r] \in WriteLabels => data[r].id # i
      /\ pc[r] \notin WriteLabels \cup RemoveLabels => current[r] = Null
  BY <1>1 DEF Gone, Promoting, LocalOK, EmptyHanded
<1>3. ASSUME NEW o \in Ended, NEW a, End(r, o, a) PROVE Fine
  BY <1>1, <1>3 DEF LocalTypes, End, Goto, Promoting
<1>4. ASSUME NEW l, JustGoto(r, l), l \in WriteLabels => pc[r] \in WriteLabels,
             l \in OldLabels \cup WriteLabels \cup RemoveLabels =>
               pc[r] \in OldLabels \cup WriteLabels \cup RemoveLabels
      PROVE  Fine
  <2>1. /\ pc'[r] = l /\ found'[r] = found[r] /\ current'[r] = current[r] /\ data'[r] = data[r]
    BY <1>1, <1>4 DEF LocalTypes, JustGoto, Goto
  <2> QED
    BY <1>1, <1>2, <1>4, <2>1 DEF Promoting
<1>5. ASSUME NEW d, StartRemove(r, d), op[r] = "Publish" => Promoting(r) PROVE Fine
  <2>1. /\ pc'[r] = "rmCheck" /\ found'[r] = found[r] /\ current'[r] = current[r]
    BY <1>1, <1>5 DEF LocalTypes, StartRemove, Goto
  <2> QED
    BY <1>1, <1>2, <1>5, <2>1 DEF Promoting
<1>6. ASSUME NEW d, NEW p, StartWrite(r, d, p), Promoting(r), p.id # i PROVE Fine
  <2>1. /\ pc'[r] = "mkdir" /\ found'[r] = found[r] /\ current'[r] = current[r]
        /\ data'[r] = p
    BY <1>1, <1>6 DEF LocalTypes, StartWrite, Goto
  <2> QED
    BY <1>2, <1>6, <2>1
<1>7. ASSUME NEW d \in Dirs, Readable(d), Return(r, store[d]), pc[r] \in ReadLabels PROVE Fine
  <2>1. CASE pc'[r] = "findOld" /\ found'[r] = store[d] /\ current'[r] = current[r]
    BY <1>1, <1>2, <1>7, <2>1
  <2> QED
    BY <1>1, <1>3, <1>7, <2>1 DEF Return, Goto, LocalTypes
<1>8. AfterRemove(r) /\ pc[r] \in RemoveLabels => Fine
  <2> SUFFICES ASSUME AfterRemove(r), pc[r] \in RemoveLabels PROVE Fine
    OBVIOUS
  <2>1. CASE op[r] # "Publish"
    BY <1>3, <2>1 DEF AfterRemove
  <2>2. CASE op[r] = "Publish"
    <3>1. PICK p \in Archived(r) : StartWrite(r, p.id, p)
      BY <2>2 DEF AfterRemove
    <3>2. Promoting(r)
      BY <2>2 DEF Promoting
    <3>3. CASE current[r] = Null
      BY <1>6, <3>1, <3>2, <3>3 DEF Archived, FreshIds, IdsInUse
    <3>4. CASE current[r] # Null
      <4>1. p = AsHistorical(current[r]) /\ current[r] \in Policies
        BY <1>1, <3>1, <3>4 DEF Archived, LocalTypes
      <4>2. p.id = current[r].id
        BY <4>1 DEF AsHistorical, Policies
      <4> QED
        BY <1>2, <1>6, <3>1, <3>2, <3>4, <4>2
    <3> QED
      BY <3>3, <3>4
  <2> QED
    BY <2>1, <2>2
<1> SUFFICES Fine
  OBVIOUS
<1> HIDE DEF Fine
<1>9. CASE Download(r)
  <2>1. CASE ReadOld(r)
    <3>1. /\ found'[r] = found[r] /\ current'[r] = store["current"]
          /\ data'[r] = AsCurrent(found[r]) /\ Readable("current") /\ Promoting(r)
      BY <1>1, <2>1 DEF LocalTypes, ReadOld, Reads, Goto, LocalOK, Promoting
    <3>2. AsCurrent(found[r]).id = found[r].id
      BY <1>2, <3>1 DEF AsCurrent, Policies
    <3> QED
      BY <1>1, <1>2, <3>1, <3>2 DEF Fine
  <2>2. CASE NoOld(r)
    <3>1. StartWrite(r, "current", AsCurrent(found[r])) /\ Promoting(r)
      BY <1>1, <2>2 DEF NoOld, Misses, LocalOK, Promoting
    <3>2. AsCurrent(found[r]).id = found[r].id
      BY <1>2, <3>1 DEF AsCurrent, Policies
    <3> QED
      BY <1>2, <1>6, <3>1, <3>2
  <2>3. CASE ReadHistorical(r) \/ ReadCurrent(r) \/ ReadDraft(r)
    BY <1>1, <1>3, <1>4, <1>5, <1>7, <2>3
    DEF ReadHistorical, ReadCurrent, ReadDraft, Reads
  <2>4. CASE FindOld(r)
    BY <1>4, <2>4 DEF FindOld, Find
  <2>5. CASE \/ FindHistorical(r) \/ NotHistorical(r) \/ FindCurrent(r) \/ NoCurrent(r)
             \/ FindDraft(r) \/ NoDraft(r) \/ FindBase(r) \/ NoBase(r) \/ ReadBase(r)
    BY <1>3, <1>4, <2>5
    DEF FindHistorical, NotHistorical, FindCurrent, NoCurrent, FindDraft, NoDraft, FindBase,
        NoBase, ReadBase, Find
  <2> QED
    BY <1>9, <2>1, <2>2, <2>3, <2>4, <2>5 DEF Download
<1>10. CASE Change(r)
  <2>1. CASE WriteData(r)
    <3>1. op[r] = "Publish" => Promoting(r)
      BY <2>1 DEF WriteData, Promoting
    <3> QED
      BY <1>3, <1>5, <2>1, <3>1 DEF WriteData, AfterWrite
  <2>2. CASE MakeDirectory(r) \/ CheckFile(r) \/ UnlinkOld(r) \/ OpenNew(r)
    BY <1>4, <2>2 DEF MakeDirectory, CheckFile, UnlinkOld, OpenNew
  <2>3. CASE Probe(r)
    BY <1>1, <1>4, <1>5, <2>3 DEF Probe, LocalOK
  <2>4. CASE CheckDirectory(r) \/ RemoveEmptied(r)
    BY <1>4, <1>8, <2>4 DEF CheckDirectory, RemoveEmptied
  <2>5. CASE RemoveFile(r)
    BY <1>1, <1>2, <2>5 DEF RemoveFile, locals, LocalTypes, Promoting, Fine
  <2> QED
    BY <1>10, <2>1, <2>2, <2>3, <2>4, <2>5 DEF Change
<1>11. CASE Retry(r)
  <2>1. /\ found'[r] = found[r] /\ current'[r] = current[r] /\ data'[r] = data[r]
        /\ pc'[r] \in {pc[r], "rmFile"} /\ (pc'[r] = "rmFile" => pc[r] \in RemoveLabels)
    BY <1>1, <1>11 DEF Retry, LocalTypes
  <2> QED
    BY <1>1, <1>2, <2>1 DEF Promoting, Fine
<1>12. CASE GiveUp(r)
  BY <1>3, <1>12 DEF GiveUp
<1> QED
  BY <1>9, <1>10, <1>11, <1>12 DEF Work

-----------------------------------------------------------------------------
(* Every step keeps the invariant. *)

\* A step of a lookup rules out what it has looked at; at its end, nothing is left.
LEMMA LookupStep ==
  ASSUME IInv, NEW r \in Requests, AloneIs(r), Still(r), Work(r), RuledOut(r), EmptyHanded(r),
         \A q \in Requests : EmptyHanded(q)
  PROVE  RuledOut(r)' /\ LookedUp(r)'
<1> USE DEF ReadLabels, FindLabels, WriteLabels, RemoveLabels, OldLabels, Ended, LookLabels
<1>1. /\ LocalTypes /\ LocalOK(r) /\ op'[r] = op[r] /\ arg'[r] = arg[r] /\ pc[r] # "done"
      /\ \A d \in Dirs : Readable(d) => store[d] \in Policies /\ Fits(store[d], d)
      /\ {"current", "draft"} \subseteq Dirs
      /\ \A d \in Dirs : ~FileExists(d) => ~Readable(d)
  BY Typed, WorkKeepsQuestion, NamesAreDistinct DEF Dirs, Readable, FileExists, Unreadable
<1> SUFFICES ASSUME op[r] = "GetPolicyById"
             PROVE  RuledOut(r)' /\ LookedUp(r)'
  BY <1>1 DEF RuledOut, LookedUp
<1>2. arg[r] \in Ids /\ arg[r] \in Dirs
  BY <1>1 DEF LocalOK, ById, Dirs
<1>3. pc[r] \in LookLabels \cup {"failed"}
  BY <1>1 DEF RuledOut
<1>4. \A o \in Ended : \A a : End(r, o, a) => pc'[r] = o /\ found'[r] = a
  BY <1>1 DEF LocalTypes, End, Goto
<1>5. \A l : JustGoto(r, l) => pc'[r] = l
  BY <1>1 DEF LocalTypes, JustGoto, Goto
<1>6. \A d \in Dirs : Return(r, store[d]) /\ Readable(d) => pc'[r] = "done" /\ found'[r] # Null
  BY <1>1, <1>4, ParametersFit DEF Return
<1>7. ASSUME pc'[r] = "failed" \/ (pc'[r] = "done" /\ found'[r] # Null)
      PROVE  RuledOut(r)' /\ LookedUp(r)'
  BY <1>7 DEF RuledOut, LookedUp
<1>8. ASSUME UNCHANGED store, pc'[r] = "done",
             ~HoldsPolicy(arg[r], arg[r]), ~HoldsPolicy("current", arg[r]),
             ~HoldsPolicy("draft", arg[r])
      PROVE  RuledOut(r)' /\ LookedUp(r)'
  <2>1. \A d \in Dirs : ~HoldsPolicy(d, arg[r])'
    BY <1>1, <1>8 DEF HoldsPolicy, Readable, Fits, Dirs
  <2>2. ASSUME NEW q \in Requests PROVE ~Promoting(q)' /\ pc'[q] \notin WriteLabels
    BY <1>8 DEF AloneIs, InFlight, Still, Promoting
  <2>3. Gone(arg[r])'
    BY <1>1, <2>1, <2>2 DEF Gone
  <2> QED
    BY <1>8, <2>3 DEF RuledOut, LookedUp
<1>9. ASSUME UNCHANGED store, pc'[r] \in LookLabels,
             pc'[r] \notin {"findHistorical", "readHistorical"} => ~HoldsPolicy(arg[r], arg[r]),
             pc'[r] \in {"findDraft", "readDraft", "findBase", "readBase"} =>
               ~HoldsPolicy("current", arg[r]),
             pc'[r] \in {"findBase", "readBase"} => ~HoldsPolicy("draft", arg[r])
      PROVE  RuledOut(r)' /\ LookedUp(r)'
  BY <1>1, <1>9 DEF RuledOut, LookedUp, HoldsPolicy, Readable
<1>10. CASE Download(r)
  <2>1. UNCHANGED store
    BY <1>10 DEF Download, FindHistorical, NotHistorical, ReadHistorical, FindCurrent,
       NoCurrent, ReadCurrent, FindDraft, NoDraft, ReadDraft, FindBase, NoBase, ReadBase,
       FindOld, NoOld, ReadOld, Find, Misses, Reads
  <2>2. CASE FindHistorical(r) \/ FindCurrent(r) \/ FindDraft(r) \/ FindBase(r)
    BY <1>5, <1>9, <2>1, <2>2
    DEF FindHistorical, FindCurrent, FindDraft, FindBase, Find, RuledOut
  <2>3. CASE NotHistorical(r) \/ NoDraft(r)
    BY <1>1, <1>2, <1>5, <1>9, <2>1, <2>3 DEF NotHistorical, NoDraft, Misses, RuledOut, HoldsPolicy
  <2>4. CASE NoCurrent(r)
    BY <1>1, <1>5, <1>9, <2>1, <2>4 DEF NoCurrent, Misses, RuledOut, HoldsPolicy
  <2>5. CASE NoBase(r) \/ ReadBase(r)
    BY <1>4, <1>8, <2>1, <2>5 DEF NoBase, ReadBase, Misses, Reads, RuledOut
  <2>6. CASE ReadHistorical(r)
    BY <1>2, <1>6, <1>7, <2>6 DEF ReadHistorical, Reads
  <2>7. CASE ReadCurrent(r)
    BY <1>1, <1>5, <1>6, <1>7, <1>9, <2>1, <2>7
    DEF ReadCurrent, Reads, Asked, HoldsPolicy, RuledOut
  <2>8. CASE ReadDraft(r)
    <3>1. CASE ~Asked(r, "draft")
      BY <1>4, <1>8, <2>1, <2>8, <3>1 DEF ReadDraft, Reads, Asked, HoldsPolicy, RuledOut
    <3>2. CASE Asked(r, "draft")
      BY <1>1, <1>6, <1>7, <2>8, <3>2 DEF ReadDraft, Reads
    <3> QED
      BY <3>1, <3>2
  <2>9. CASE FindOld(r) \/ NoOld(r) \/ ReadOld(r)
    BY <1>3, <2>9 DEF FindOld, Find, NoOld, Misses, ReadOld, Reads
  <2> QED
    BY <1>10, <2>2, <2>3, <2>4, <2>5, <2>6, <2>7, <2>8, <2>9 DEF Download
<1>11. CASE Change(r)
  BY <1>3, <1>11 DEF Change, MakeDirectory, CheckFile, UnlinkOld, OpenNew, WriteData, Probe,
      CheckDirectory, RemoveFile, RemoveEmptied
<1>12. CASE Retry(r)
  <2>1. pc'[r] = pc[r] /\ UNCHANGED store /\ pc[r] \in ReadLabels
    BY <1>1, <1>3, <1>12 DEF Retry, CallThrows, LocalTypes
  <2> QED
    BY <1>3, <1>9, <2>1 DEF RuledOut
<1>13. CASE GiveUp(r)
  BY <1>4, <1>7, <1>13 DEF GiveUp
<1> QED
  BY <1>10, <1>11, <1>12, <1>13 DEF Work

\* What is gone stays gone while another request takes a step.
LEMMA GoneStep ==
  ASSUME IInv, NEW q \in Requests, Still(q), [Next]_vars, Arrive(q) \/ Work(q),
         EmptyHanded(q), NoSaves', NEW k \in Requests, NEW i, i = arg[k], Gone(i)
  PROVE  Gone(i)'
<1>1. ASSUME NEW d \in Dirs PROVE ~HoldsPolicy(d, i)'
  BY NothingFromNowhere DEF Gone, HoldsPolicy, Readable
<1>2. ASSUME NEW s \in Requests
      PROVE  /\ Promoting(s)' => found'[s].id # i /\ (current'[s] # Null => current'[s].id # i)
             /\ pc'[s] \in WriteLabels => data'[s].id # i
  <2>1. CASE s # q
    BY <2>1 DEF Gone, Still, Promoting
  <2>2. CASE s = q /\ Work(q)
    BY <2>2, HoldsWhatItRead
  <2>3. CASE s = q /\ Arrive(q)
    <3>1. pc'[s] \in {"findDraft", "findCurrent", "findHistorical", "probe"}
      BY <2>3, Typed DEF LocalTypes, Arrive, GetDraft, GetCurrent, GetPolicyById, Publish,
         Delete, SaveAsDraft, Begin, Goto, NoSaves
    <3> QED
      BY <3>1 DEF Promoting, OldLabels, WriteLabels, RemoveLabels
  <2> QED
    BY <2>1, <2>2, <2>3
<1> QED
  BY <1>1, <1>2 DEF Gone

\* A crash or an I/O error ends requests and brings nothing back.
LEMMA FaultStep ==
  ASSUME LookupInv, IInv', OneRequest', [Next]_vars,
         Crash \/ \E q \in Requests : IOError(q) \/ WriteAgain(q)
  PROVE  LookupInv'
<1> USE DEF Ended
<1>1. LocalTypes /\ UNCHANGED <<op, arg>>
  BY DEF LookupInv, IInv, LocalsOK, Crash, IOError, End, WriteAgain, locals
<1>2. ASSUME NEW s \in Requests
      PROVE  \/ /\ pc'[s] = pc[s] /\ found'[s] = found[s]
                /\ data'[s] = data[s] /\ current'[s] = current[s]
             \/ /\ pc[s] \in {"idle", "done", "failed"} /\ pc'[s] = pc[s]
                /\ found'[s] = found[s] /\ current'[s] = Null
             \/ pc'[s] = "failed" /\ current'[s] = Null
             \/ /\ pc[s] = "bytes" /\ pc'[s] = "open" /\ found'[s] = found[s]
                /\ data'[s] = data[s] /\ current'[s] = current[s]
  <2>1. CASE Crash
    BY <1>1, <1>2, <2>1 DEF Crash, LocalTypes, InFlight
  <2>2. CASE \E q \in Requests : IOError(q) \/ WriteAgain(q)
    BY <1>1, <1>2, <2>2 DEF IOError, WriteAgain, End, Goto, locals, LocalTypes
  <2> QED
    BY <2>1, <2>2
<1>3. \A d \in Dirs : Readable(d)' => store'[d] = store[d]
  <2>1. \A R : store' \in LeftBy(R) => \A d \in Dirs : Readable(d)' => store'[d] = store[d]
    BY NamesAreDistinct DEF LeftBy, Readable, Unreadable
  <2> QED
    BY <2>1 DEF Crash, IOError, WriteAgain
<1>4. ASSUME NEW i, Gone(i) PROVE Gone(i)'
  BY <1>1, <1>2, <1>3, <1>4
  DEF Gone, HoldsPolicy, Readable, Promoting, OldLabels, WriteLabels, RemoveLabels
<1>5. IdleIsNew'
  BY <1>1, <1>2 DEF LookupInv, IdleIsNew
<1>6. ASSUME NEW s \in Requests PROVE EmptyHanded(s)' /\ RuledOut(s)' /\ LookedUp(s)'
  <2>1. EmptyHanded(s) /\ RuledOut(s) /\ LookedUp(s)
    BY DEF LookupInv
  <2>2. EmptyHanded(s)'
    BY <1>2, <2>1 DEF EmptyHanded, WriteLabels, RemoveLabels
  <2>3. RuledOut(s)'
    <3> SUFFICES ASSUME op[s] = "GetPolicyById" PROVE RuledOut(s)'
      BY <1>1 DEF RuledOut
    <3>1. arg[s] \in Dirs /\ {"current", "draft"} \subseteq Dirs /\ arg'[s] = arg[s]
      BY <1>1, Typed DEF LookupInv, LocalOK, ById, Dirs
    <3>2. pc'[s] = pc[s] \/ pc'[s] = "failed"
      BY <1>2, <2>1 DEF RuledOut, LookLabels
    <3> QED
      BY <1>3, <2>1, <3>1, <3>2 DEF RuledOut, HoldsPolicy, Readable
  <2>4. LookedUp(s)'
    <3> SUFFICES ASSUME op[s] = "GetPolicyById", pc'[s] = "done", found'[s] = Null, NoSaves,
                        NEW i, i = arg[s]
                 PROVE  Gone(i)'
      BY <1>1 DEF LookedUp, NoSaves
    <3>1. pc[s] = "done" /\ found[s] = Null
      BY <1>2
    <3> QED
      BY <1>4, <2>1, <3>1 DEF LookedUp
  <2> QED
    BY <2>2, <2>3, <2>4
<1> QED
  BY <1>5, <1>6 DEF LookupInv

\* Every step of a request keeps the invariant.
LEMMA RequestStep ==
  ASSUME LookupInv, IInv', OneRequest', [Next]_vars, NEW q \in Requests, Arrive(q) \/ Work(q)
  PROVE  LookupInv'
<1>1. IInv /\ AloneIs(q) /\ Still(q) /\ LocalTypes
  BY WorkerIsAlone, LocalsAreItsOwn, Typed DEF LookupInv, AloneIs
<1>2. Arrive(q) => /\ pc'[q] \in {"findDraft", "findCurrent", "findHistorical", "probe", "mkdir"}
                   /\ op'[q] = "GetPolicyById" => pc'[q] = "findHistorical"
                   /\ pc[q] = "idle"
  BY <1>1 DEF LocalTypes, Arrive, GetDraft, GetCurrent, GetPolicyById, Publish, Delete,
              SaveAsDraft, Begin, Goto
<1>3. IdleIsNew'
  BY <1>1, <1>2, WorkKeepsQuestion DEF LookupInv, IdleIsNew, Still
<1>4. NoSaves' => NoSaves
  <2>1. pc[q] = "idle" => op[q] # "SaveAsDraft"
    BY ParametersFit DEF LookupInv, IdleIsNew, AllOperations
  <2> QED
    BY <1>1, <1>2, <2>1, WorkKeepsQuestion DEF NoSaves, Still
<1>5. ASSUME NEW s \in Requests PROVE EmptyHanded(s)' /\ RuledOut(s)' /\ LookedUp(s)'
  <2>1. EmptyHanded(s) /\ RuledOut(s) /\ LookedUp(s)
    BY DEF LookupInv
  <2>2. CASE s # q
    <3>1. /\ pc'[s] = pc[s] /\ op'[s] = op[s] /\ arg'[s] = arg[s] /\ found'[s] = found[s]
          /\ current'[s] = current[s] /\ pc[s] \in {"idle", "done", "failed"}
      BY <1>1, <2>2 DEF Still, AloneIs, InFlight, Ended
    <3>2. EmptyHanded(s)' /\ RuledOut(s)'
      BY <2>1, <3>1 DEF EmptyHanded, RuledOut, Ended
    <3>3. LookedUp(s)'
      <4> SUFFICES ASSUME op[s] = "GetPolicyById", pc[s] = "done", found[s] = Null, NoSaves',
                          NEW i, i = arg[s]
                   PROVE  Gone(i)'
        BY <3>1 DEF LookedUp
      <4>1. Gone(i)
        BY <1>4, <2>1 DEF LookedUp
      <4> QED
        BY <1>1, <4>1, GoneStep DEF LookupInv
    <3> QED
      BY <3>2, <3>3
  <2>3. CASE s = q /\ Arrive(q)
    <3>1. EmptyHanded(s)'
      BY <1>1, <2>1, <2>3, EmptyHandedStep
    <3> QED
      BY <1>2, <2>3, <3>1 DEF RuledOut, LookedUp, LookLabels
  <2>4. CASE s = q /\ Work(q)
    BY <1>1, <2>1, <2>4, EmptyHandedStep, LookupStep DEF LookupInv
  <2> QED
    BY <2>2, <2>3, <2>4
<1> QED
  BY <1>3, <1>5 DEF LookupInv

\* The invariant holds as long as clients wait for every answer.
THEOREM LookupInvariance == SerialSpec => []LookupInv
<1>1. Init => LookupInv
  <2> SUFFICES ASSUME Init PROVE LookupInv
    OBVIOUS
  <2>1. IInv /\ OneRequest
    BY SerialAtFirst DEF SerialInv
  <2>2. \A r \in Requests : pc[r] = "idle" /\ op[r] = Null /\ current[r] = Null
    BY DEF Init
  <2> QED
    BY <2>1, <2>2, ParametersFit
    DEF LookupInv, IdleIsNew, EmptyHanded, RuledOut, LookedUp, AllOperations
<1>2. LookupInv /\ [Next /\ OneRequest']_vars => LookupInv'
  <2> SUFFICES ASSUME LookupInv, [Next /\ OneRequest']_vars PROVE LookupInv'
    OBVIOUS
  <2>1. [Next]_vars /\ IInv' /\ OneRequest'
    BY StepKeeps DEF LookupInv, vars, locals, OneRequest, InFlight
  <2>2. CASE UNCHANGED vars
    BY <2>1, <2>2
    DEF vars, locals, LookupInv, IdleIsNew, EmptyHanded, RuledOut, LookedUp, Gone, NoSaves,
        Promoting, HoldsPolicy, Readable
  <2> QED
    BY <2>1, <2>2, FaultStep, RequestStep DEF Next, Terminated
<1> QED
  BY <1>1, <1>2, PTL DEF SerialSpec

\* GetPolicyByIdAsync looks in three places, one after the other, and a
\* policy it has missed is in none of them: with one request at a time a
\* policy is not moved past a lookup, and nothing but a save brings one back.
THEOREM LookupIsRight == SerialSpec => []LookupFinds
<1>1. LookupInv => LookupFinds
  BY DEF LookupInv, LookedUp, LookupFinds, NoSaves, Gone
<1> QED
  BY <1>1, LookupInvariance, PTL

-----------------------------------------------------------------------------
(* Copies.  A request works on directories nobody else touches. *)

\* What a request knows of the directories it is going to change.
Holding(r) ==
  /\ pc[r] \in WriteLabels => op[r] \in {"Publish", "SaveAsDraft"}
  /\ pc[r] \in RemoveLabels => op[r] \in {"Publish", "Delete"}
  /\ pc[r] = "open" => ~Readable(target[r])
  /\ pc[r] = "bytes" => store[target[r]] = Blank /\ handle[r] = target[r]
  /\ op[r] = "Publish" /\ (pc[r] \in OldLabels \/ ToCurrent(r)) /\ Readable(Source(r)) =>
       store[Source(r)].id = found[r].id
  /\ op[r] = "Publish" /\ ToCurrent(r) =>
       /\ data[r].id = found[r].id
       /\ pc[r] \in {"mkdir", "check", "unlink"} /\ Readable("current") =>
            current[r] = store["current"]
  /\ op[r] = "Publish" /\ Archiving(r) =>
       /\ target[r] # "draft"
       /\ current[r] # Null => data[r].id = current[r].id
       /\ current[r] = Null =>
            /\ pc[r] # "unlink"
            /\ pc[r] = "mkdir" => store[target[r]] = NoDir
            /\ pc[r] = "check" => store[target[r]] = NoFile
  /\ op[r] = "Publish" /\ pc[r] \in RemoveLabels =>
       /\ Readable("current")
       /\ Readable(target[r]) => store[target[r]].id = store["current"].id
  /\ op[r] = "Delete" /\ pc[r] \in RemoveLabels /\ Readable(target[r]) =>
       store[target[r]].id = arg[r]

\* The inductive invariant of copies.
LossInv == IInv /\ OneRequest /\ \A r \in Requests : Holding(r)


\* At rest and while looking there is nothing to know.
LEMMA HoldingNothing ==
  ASSUME NEW r \in Requests, pc'[r] \notin OldLabels \cup WriteLabels \cup RemoveLabels
  PROVE  Holding(r)'
BY DEF Holding, OldLabels, WriteLabels, RemoveLabels, ToCurrent, Archiving

\* What holds of the request in flight before it steps.
LEMMA BeforeStep ==
  ASSUME IInv, NEW r \in Requests, Holding(r)
  PROVE  /\ LocalTypes /\ LocalOK(r) /\ target[r] \in Dirs
         /\ store \in [Dirs -> Unreadable \cup Policies]
         /\ \A d \in Dirs : Readable(d) => store[d] \in Policies /\ Fits(store[d], d)
         /\ \A d \in Dirs : Readable(d) => store[d] \notin Unreadable
         /\ {"current", "draft"} \subseteq Dirs
         /\ op[r] \in ById => arg[r] \in Ids /\ arg[r] \in Dirs
         /\ op[r] = "Publish" => Source(r) \in Dirs /\ Source(r) # "current"
BY Typed, NamesAreDistinct DEF Dirs, LocalOK, ById, Source, Readable

\* Looking and reading.
LEMMA DownloadHolds ==
  ASSUME IInv, NEW r \in Requests, Holding(r), Download(r)
  PROVE  Holding(r)'
<1> USE DEF ReadLabels, FindLabels, WriteLabels, RemoveLabels, OldLabels
<1>1. /\ LocalTypes /\ LocalOK(r)
      /\ \A d \in Dirs : Readable(d) => store[d] \in Policies /\ Fits(store[d], d)
      /\ \A d \in Dirs : ~FileExists(d) => ~Readable(d)
      /\ {"current", "draft"} \subseteq Dirs
      /\ op[r] \in ById => arg[r] \in Ids /\ arg[r] \in Dirs
  BY BeforeStep, NamesAreDistinct DEF Readable, FileExists, Unreadable
<1>2. UNCHANGED store /\ op'[r] = op[r] /\ arg'[r] = arg[r]
  BY WorkKeepsQuestion
  DEF Work, Download, FindHistorical, NotHistorical, ReadHistorical, FindCurrent,
      NoCurrent, ReadCurrent, FindDraft, NoDraft, ReadDraft, FindBase, NoBase, ReadBase,
      FindOld, NoOld, ReadOld, Find, Misses, Reads
<1>3. \A a : End(r, "done", a) => Holding(r)'
  BY <1>1, HoldingNothing DEF LocalTypes, End, Goto
<1>4. \A l : JustGoto(r, l) => pc'[r] = l /\ found'[r] = found[r]
  BY <1>1 DEF LocalTypes, JustGoto, Goto
<1>5. ASSUME NEW d \in Dirs, Readable(d), Return(r, store[d]),
             op[r] = "Publish" => d \in {arg[r], "draft", "current"}
      PROVE  Holding(r)'
  <2>1. CASE op[r] = "Publish" /\ store[d].type # "Current" /\ pc'[r] = "findOld"
             /\ found'[r] = store[d]
    <3>1. Source(r)' = d
      BY <1>1, <1>2, <1>5, <2>1, NamesAreDistinct DEF Source, Fits, ById
    <3>2. store'[Source(r)'].id = found'[r].id
      BY <1>2, <2>1, <3>1
    <3> QED
      BY <1>2, <2>1, <3>2 DEF Holding, ToCurrent, Archiving
  <2> QED
    BY <1>1, <1>3, <1>5, <2>1 DEF Return, Goto, LocalTypes
<1>6. CASE ReadHistorical(r)
  BY <1>1, <1>5, <1>6 DEF ReadHistorical, Reads, LocalOK, ById
<1>7. CASE ReadCurrent(r)
  BY <1>1, <1>3, <1>4, <1>5, <1>7, HoldingNothing DEF ReadCurrent, Reads
<1>8. CASE ReadDraft(r)
  <2>1. CASE op[r] = "Delete" /\ Asked(r, "draft") /\ StartRemove(r, "draft")
    <3>1. pc'[r] = "rmCheck" /\ target'[r] = "draft"
      BY <1>1, <2>1 DEF StartRemove, Goto, LocalTypes
    <3> QED
      BY <1>2, <2>1, <3>1 DEF Holding, ToCurrent, Archiving, Asked, Readable
  <2> QED
    BY <1>1, <1>3, <1>5, <1>8, <2>1 DEF ReadDraft, Reads
<1>9. CASE FindOld(r)
  BY <1>1, <1>2, <1>4, <1>9
  DEF FindOld, Find, LocalOK, Holding, ToCurrent, Archiving, Source, Readable
<1>10. CASE NoOld(r)
  <2>1. /\ pc[r] = "findOld" /\ op[r] = "Publish" /\ found[r] \in Policies
        /\ ~Readable("current")
    BY <1>1, <1>10 DEF NoOld, Misses, LocalOK
  <2>2. /\ pc'[r] = "mkdir" /\ target'[r] = "current" /\ data'[r] = AsCurrent(found[r])
        /\ found'[r] = found[r] /\ current'[r] = current[r]
    BY <1>1, <1>10 DEF NoOld, StartWrite, Goto, LocalTypes
  <2>3. data'[r].id = found'[r].id
    BY <2>1, <2>2 DEF AsCurrent, Policies
  <2> QED
    BY <1>2, <2>1, <2>2, <2>3 DEF Holding, ToCurrent, Archiving, Source, Readable
<1>11. CASE ReadOld(r)
  <2>1. pc[r] = "readOld" /\ op[r] = "Publish" /\ found[r] \in Policies
    BY <1>1, <1>11 DEF ReadOld, Reads, LocalOK
  <2>2. /\ pc'[r] = "mkdir" /\ target'[r] = "current" /\ data'[r] = AsCurrent(found[r])
        /\ found'[r] = found[r] /\ current'[r] = store["current"]
    BY <1>1, <1>11 DEF ReadOld, Goto, LocalTypes
  <2>3. data'[r].id = found'[r].id
    BY <2>1, <2>2 DEF AsCurrent, Policies
  <2> QED
    BY <1>2, <2>1, <2>2, <2>3 DEF Holding, ToCurrent, Archiving, Source, Readable
<1>12. CASE \/ FindHistorical(r) \/ NotHistorical(r) \/ FindCurrent(r) \/ NoCurrent(r)
            \/ FindDraft(r) \/ NoDraft(r) \/ FindBase(r) \/ NoBase(r) \/ ReadBase(r)
  BY <1>3, <1>4, <1>12, HoldingNothing
  DEF FindHistorical, NotHistorical, FindCurrent, NoCurrent, FindDraft, NoDraft, FindBase,
      NoBase, ReadBase, Find
<1> QED
  BY <1>6, <1>7, <1>8, <1>9, <1>10, <1>11, <1>12 DEF Download

\* Writing.
LEMMA WriteHolds ==
  ASSUME IInv, NEW r \in Requests, Holding(r),
         MakeDirectory(r) \/ CheckFile(r) \/ UnlinkOld(r) \/ OpenNew(r) \/ WriteData(r)
  PROVE  Holding(r)'
<1> USE DEF WriteLabels, RemoveLabels, OldLabels
<1>1. /\ LocalTypes /\ LocalOK(r) /\ target[r] \in Dirs
      /\ store \in [Dirs -> Unreadable \cup Policies]
      /\ \A d \in Dirs : Readable(d) => store[d] \notin Unreadable
      /\ {"current", "draft"} \subseteq Dirs
      /\ op[r] = "Publish" => Source(r) \in Dirs /\ Source(r) # "current"
      /\ handle \in [Requests -> Dirs \cup {Closed, Orphan}]
  BY BeforeStep, Typed
<1>2. op'[r] = op[r] /\ arg'[r] = arg[r]
  BY WorkKeepsQuestion DEF Work, Change
<1>3. \A l : JustGoto(r, l) =>
        /\ pc'[r] = l /\ found'[r] = found[r] /\ current'[r] = current[r]
        /\ target'[r] = target[r] /\ data'[r] = data[r]
  BY <1>1 DEF LocalTypes, JustGoto, Goto
<1>4. CASE WriteData(r)
  <2>1. /\ pc[r] = "bytes" /\ AfterWrite(r) /\ data[r] \in Policies
        /\ store' = [store EXCEPT ![target[r]] = data[r]]
    BY <1>1, <1>4, NamesAreDistinct
    DEF WriteData, WriteBytes, WriteResults, Holding, LocalOK
  <2>2. CASE op[r] = "Publish" /\ target[r] = "current"
    <3>1. /\ pc'[r] = "rmCheck" /\ target'[r] = Source(r) /\ found'[r] = found[r]
          /\ current'[r] = current[r]
      BY <1>1, <2>1, <2>2 DEF AfterWrite, StartRemove, Goto, LocalTypes
    <3>2. data[r].id = found[r].id /\ (Readable(Source(r)) => store[Source(r)].id = found[r].id)
      BY <2>1, <2>2 DEF Holding, ToCurrent
    <3>3. store'["current"] = data[r] /\ store'[Source(r)] = store[Source(r)]
      BY <1>1, <2>1, <2>2
    <3> QED
      BY <1>2, <2>1, <2>2, <3>1, <3>2, <3>3 DEF Holding, ToCurrent, Archiving, Readable
  <2>3. CASE ~(op[r] = "Publish" /\ target[r] = "current")
    <3>1. pc'[r] = "done"
      BY <1>1, <2>1, <2>3 DEF AfterWrite, End, Goto, LocalTypes
    <3> QED
      BY <3>1, HoldingNothing
  <2> QED
    BY <2>2, <2>3
<1>5. CASE ~WriteData(r)
  <2>1. PICK x \in Unreadable \cup {store[target[r]]} :
          store' = [store EXCEPT ![target[r]] = x]
    BY <1>1, <1>5
    DEF MakeDirectory, CreateDirectory, CheckFile, UnlinkOld, DeleteFile, OpenNew,
        OpenForWrite, Unreadable
  <2>2. \A d \in Dirs : Readable(d)' => Readable(d) /\ store'[d] = store[d]
    BY <1>1, <2>1, NamesAreDistinct DEF Readable
  <2>3. /\ pc[r] \in WriteLabels /\ pc'[r] \in {"check", "unlink", "open", "bytes"}
        /\ found'[r] = found[r] /\ current'[r] = current[r]
        /\ target'[r] = target[r] /\ data'[r] = data[r]
        /\ pc'[r] \in {"check", "unlink"} => pc[r] \in {"mkdir", "check"}
    BY <1>3, <1>5 DEF MakeDirectory, CheckFile, UnlinkOld, OpenNew
  <2>4. pc'[r] = "open" => ~Readable(target[r])'
    <3>1. CASE CheckFile(r)
      BY <1>1, <1>3, <2>3, <3>1 DEF CheckFile, FileExists, Readable, Unreadable
    <3>2. CASE UnlinkOld(r)
      BY <1>1, <2>3, <3>2, NamesAreDistinct DEF UnlinkOld, DeleteFile, Readable, Unreadable
    <3> QED
      BY <1>3, <1>5, <3>1, <3>2 DEF MakeDirectory, OpenNew
  <2>5. pc'[r] = "bytes" => store'[target[r]] = Blank /\ handle'[r] = target[r]
    BY <1>1, <1>3, <1>5 DEF MakeDirectory, CheckFile, UnlinkOld, OpenNew, OpenForWrite
  <2>6. op[r] = "Publish" /\ Archiving(r) /\ current[r] = Null =>
          /\ pc'[r] # "unlink"
          /\ pc'[r] = "check" => store'[target[r]] = NoFile
    BY <1>1, <1>3, <1>5
    DEF Holding, MakeDirectory, CreateDirectory, CheckFile, UnlinkOld, OpenNew, FileExists
  <2>7. /\ ToCurrent(r)' <=> ToCurrent(r)
        /\ Archiving(r)' <=> Archiving(r)
        /\ Source(r)' = Source(r)
    BY <1>2, <2>3 DEF ToCurrent, Archiving, Source
  <2>8. /\ op[r] = "Publish" /\ ToCurrent(r) /\ Readable(Source(r))' =>
             store'[Source(r)].id = found[r].id
        /\ op[r] = "Publish" /\ ToCurrent(r) =>
             /\ data[r].id = found[r].id
             /\ pc'[r] \in {"check", "unlink"} /\ Readable("current")' =>
                  current[r] = store'["current"]
    BY <1>1, <2>2, <2>3, <2>7 DEF Holding
  <2> QED
    BY <1>2, <2>3, <2>4, <2>5, <2>6, <2>7, <2>8 DEF Holding
<1> QED
  BY <1>4, <1>5

\* Removing.
LEMMA RemoveHolds ==
  ASSUME IInv, NEW r \in Requests, Holding(r),
         Probe(r) \/ CheckDirectory(r) \/ RemoveFile(r) \/ RemoveEmptied(r)
  PROVE  Holding(r)'
<1> USE DEF WriteLabels, RemoveLabels, OldLabels
<1>1. /\ LocalTypes /\ LocalOK(r) /\ target[r] \in Dirs
      /\ store \in [Dirs -> Unreadable \cup Policies]
      /\ \A d \in Dirs : Readable(d) => store[d] \in Policies /\ Fits(store[d], d)
      /\ {"current", "draft"} \subseteq Dirs
      /\ op[r] \in ById => arg[r] \in Ids /\ arg[r] \in Dirs
  BY BeforeStep
<1>2. op'[r] = op[r] /\ arg'[r] = arg[r]
  BY WorkKeepsQuestion DEF Work, Change
<1>3. \A l : JustGoto(r, l) =>
        /\ pc'[r] = l /\ found'[r] = found[r] /\ current'[r] = current[r]
        /\ target'[r] = target[r] /\ data'[r] = data[r]
  BY <1>1 DEF LocalTypes, JustGoto, Goto
<1>4. ASSUME pc[r] \in RemoveLabels, AfterRemove(r),
             \A d \in Dirs : store[d] = NoDir => store'[d] = NoDir
      PROVE  Holding(r)'
  <2>1. CASE op[r] # "Publish"
    <3>1. pc'[r] = "done"
      BY <1>1, <1>4, <2>1 DEF AfterRemove, End, Goto, LocalTypes
    <3> QED
      BY <3>1, HoldingNothing
  <2>2. CASE op[r] = "Publish"
    <3>1. PICK p \in Archived(r) : StartWrite(r, p.id, p)
      BY <1>4, <2>2 DEF AfterRemove
    <3>2. /\ pc'[r] = "mkdir" /\ target'[r] = p.id /\ data'[r] = p /\ current'[r] = current[r]
      BY <1>1, <3>1 DEF StartWrite, Goto, LocalTypes
    <3>3. CASE current[r] = Null
      <4>1. p.id \in FreshIds
        BY <3>1, <3>3 DEF Archived
      <4>2. p.id \in Dirs /\ p.id \notin {"current", "draft"} /\ store[p.id] = NoDir
        BY <4>1, NamesAreDistinct DEF FreshIds, IdsInUse, DirectoryExists, Dirs
      <4> QED
        BY <1>2, <1>4, <2>2, <3>2, <3>3, <4>2 DEF Holding, ToCurrent, Archiving
    <3>4. CASE current[r] # Null
      <4>1. p = AsHistorical(current[r]) /\ current[r] \in Policies
        BY <1>1, <3>1, <3>4 DEF Archived, LocalTypes
      <4>2. p.id = current[r].id /\ p.id \in Ids
        BY <4>1 DEF AsHistorical, Policies
      <4>3. p.id \notin {"current", "draft"}
        BY <4>2, NamesAreDistinct
      <4> QED
        BY <1>2, <2>2, <3>2, <3>4, <4>2, <4>3 DEF Holding, ToCurrent, Archiving
    <3> QED
      BY <3>3, <3>4
  <2> QED
    BY <2>1, <2>2
<1>5. CASE Probe(r)
  <2>1. pc[r] = "probe" /\ op[r] = "Delete" /\ UNCHANGED store
    BY <1>1, <1>5 DEF Probe, LocalOK
  <2>2. CASE StartRemove(r, arg[r])
    <3>1. pc'[r] = "rmCheck" /\ target'[r] = arg[r]
      BY <1>1, <2>1, <2>2 DEF StartRemove, Goto, LocalTypes, ById
    <3> QED
      BY <1>1, <1>2, <2>1, <3>1, NamesAreDistinct
      DEF Holding, ToCurrent, Archiving, Readable, Fits, ById
  <2> QED
    BY <1>3, <1>5, <2>2, HoldingNothing DEF Probe
<1>6. CASE CheckDirectory(r)
  <2>1. pc[r] = "rmCheck" /\ UNCHANGED store
    BY <1>6 DEF CheckDirectory
  <2>2. CASE JustGoto(r, "rmFile")
    <3>1. pc'[r] = "rmFile" /\ target'[r] = target[r]
      BY <1>3, <2>2
    <3> QED
      BY <1>2, <2>1, <3>1 DEF Holding, ToCurrent, Archiving, Readable
  <2> QED
    BY <1>4, <1>6, <2>1, <2>2 DEF CheckDirectory
<1>7. CASE RemoveFile(r)
  <2>1. /\ pc[r] = "rmFile" /\ pc'[r] = "rmDir" /\ target'[r] = target[r]
        /\ store' = [store EXCEPT ![target[r]] = NoFile] /\ target[r] # "current"
    BY <1>1, <1>7 DEF RemoveFile, EmptyDirectory, DeleteFile, locals, LocalTypes, LocalOK
  <2>2. ~Readable(target[r])' /\ store'["current"] = store["current"]
    BY <1>1, <2>1, NamesAreDistinct DEF Readable, Unreadable
  <2> QED
    BY <1>2, <2>1, <2>2 DEF Holding, ToCurrent, Archiving, Readable
<1>8. CASE RemoveEmptied(r)
  BY <1>1, <1>4, <1>8 DEF RemoveEmptied, RemoveDirectory
<1> QED
  BY <1>5, <1>6, <1>7, <1>8

\* Trying again.
LEMMA RetryHolds ==
  ASSUME IInv, NEW r \in Requests, Holding(r), Retry(r) \/ GiveUp(r)
  PROVE  Holding(r)'
<1>1. LocalTypes
  BY BeforeStep
<1>2. CASE GiveUp(r)
  BY <1>1, <1>2, HoldingNothing
  DEF GiveUp, End, Goto, LocalTypes, OldLabels, WriteLabels, RemoveLabels
<1>3. CASE Retry(r)
  <2>1. /\ op'[r] = op[r] /\ arg'[r] = arg[r] /\ found'[r] = found[r]
        /\ current'[r] = current[r] /\ target'[r] = target[r] /\ data'[r] = data[r]
        /\ UNCHANGED <<store, handle>>
        /\ pc'[r] = pc[r] \/ (pc[r] = "rmDir" /\ pc'[r] = "rmFile")
    BY <1>1, <1>3 DEF Retry, LocalTypes
  <2>2. CASE pc'[r] = pc[r]
    BY <2>1, <2>2 DEF Holding, ToCurrent, Archiving, Source, Readable
  <2>3. CASE pc[r] = "rmDir" /\ pc'[r] = "rmFile"
    BY <2>1, <2>3
    DEF Holding, ToCurrent, Archiving, Source, Readable, OldLabels, WriteLabels, RemoveLabels
  <2> QED
    BY <2>1, <2>2, <2>3
<1> QED
  BY <1>2, <1>3

\* A crash or an I/O error damages only what its request was writing.
LEMMA FaultHolds ==
  ASSUME LossInv, Crash \/ \E q \in Requests : IOError(q) \/ WriteAgain(q)
  PROVE  /\ \A r \in Requests : Holding(r)'
         /\ \A d \in Dirs : Readable(d) => store'[d] = store[d]
<1> USE DEF OldLabels, WriteLabels, RemoveLabels
<1>1. /\ LocalTypes /\ \A r \in Requests : Holding(r) /\ LocalOK(r)
      /\ store \in [Dirs -> Unreadable \cup Policies]
      /\ UNCHANGED <<op, arg>>
  BY DEF LossInv, IInv, TypeOK, FileStoreTypeOK, LocalsOK, Crash, IOError, End, WriteAgain, locals
<1>2. ASSUME NEW R \in SUBSET Requests, store' \in LeftBy(R)
      PROVE  \A d \in Dirs : IF Readable(d) \/ Readable(d)' THEN store'[d] = store[d] ELSE TRUE
  <2> SUFFICES ASSUME NEW d \in Dirs, Readable(d) \/ Readable(d)' PROVE store'[d] = store[d]
    OBVIOUS
  <2>1. PICK half \in SUBSET ({handle[r] : r \in R} \cap Dirs) :
          store' = [x \in Dirs |-> IF x \in half THEN Garbled ELSE store[x]]
    BY <1>2 DEF LeftBy
  <2>2. CASE d \in half
    <3>1. PICK r \in Requests : handle[r] = d
      BY <2>1, <2>2
    <3>2. store[d] = Blank
      BY <1>1, <3>1 DEF LossInv, IInv, HandlesOK, Holding
    <3> QED
      BY <2>1, <2>2, <3>2, NamesAreDistinct DEF Readable, Unreadable
  <2> QED
    BY <2>1, <2>2
<1>3. \A d \in Dirs : Readable(d) \/ Readable(d)' => store'[d] = store[d]
  <2>1. \E R \in SUBSET Requests : store' \in LeftBy(R)
    BY DEF Crash, IOError, WriteAgain
  <2> QED
    BY <1>2, <2>1
<1>4. ASSUME NEW r \in Requests PROVE Holding(r)'
  <2>1. CASE pc'[r] \in {"idle", "done", "failed"}
    BY <2>1, HoldingNothing
  <2>2. CASE /\ pc[r] = "bytes" /\ pc'[r] = "open" /\ found'[r] = found[r]
             /\ current'[r] = current[r] /\ target'[r] = target[r] /\ data'[r] = data[r]
    <3>1. store[target[r]] = Blank /\ target[r] \in Dirs /\ "current" \in Dirs
      BY <1>1, <2>2 DEF Holding, Dirs, LocalTypes
    <3>2. ~Readable(target[r])'
      BY <1>3, <2>2, <3>1, NamesAreDistinct DEF Readable, Unreadable
    <3>3. op[r] = "Publish" => Source(r) \in Dirs /\ Source(r)' = Source(r)
      BY <1>1, <2>2, BeforeStep DEF Source, LossInv
    <3>4. op[r] = "Publish" /\ ToCurrent(r) =>
            /\ data[r].id = found[r].id
            /\ Readable(Source(r))' => store'[Source(r)].id = found[r].id
      BY <1>1, <1>3, <2>2, <3>3 DEF Holding, Readable
    <3> QED
      BY <1>1, <2>2, <3>2, <3>3, <3>4 DEF Holding, ToCurrent, Archiving
  <2>3. CASE ~(pc'[r] \in {"idle", "done", "failed"})
    <3>1. ~Crash
      BY <1>1, <2>3 DEF Crash, InFlight, Ended, LocalTypes
    <3>2. PICK q \in Requests : IOError(q) \/ WriteAgain(q)
      BY <3>1
    <3>3. InFlight(q)
      BY <3>2 DEF IOError, WriteAgain, InFlight, Ended
    <3>4. q # r => pc'[r] = pc[r]
      BY <1>1, <3>2 DEF IOError, WriteAgain, End, Goto, LocalTypes
    <3>5. q = r
      BY <2>3, <3>3, <3>4 DEF LossInv, OneRequest, InFlight, Ended
    <3>6. WriteAgain(r)
      BY <1>1, <2>3, <3>2, <3>5 DEF IOError, End, Goto, LocalTypes
    <3> QED
      BY <1>1, <2>2, <3>6 DEF WriteAgain, locals, LocalTypes
  <2> QED
    BY <2>1, <2>3
<1> QED
  BY <1>3, <1>4

\* Every step keeps the invariant.
LEMMA LossStep == LossInv /\ [Next /\ OneRequest']_vars => LossInv'
<1> SUFFICES ASSUME LossInv, [Next /\ OneRequest']_vars PROVE LossInv'
  OBVIOUS
<1>1. IInv /\ IInv' /\ OneRequest /\ OneRequest'
  BY StepKeeps DEF LossInv, vars, locals, OneRequest, InFlight
<1>2. CASE UNCHANGED vars
  BY <1>1, <1>2
  DEF vars, locals, LossInv, Holding, ToCurrent, Archiving, Source, Readable
<1>3. CASE Crash \/ \E q \in Requests : IOError(q) \/ WriteAgain(q)
  BY <1>1, <1>3, FaultHolds DEF LossInv
<1>4. ASSUME NEW r \in Requests, Arrive(r) \/ Work(r) PROVE LossInv'
  <2>1. Still(r) /\ AloneIs(r) /\ LocalTypes /\ Holding(r)
    BY <1>1, <1>4, LocalsAreItsOwn, WorkerIsAlone, Typed DEF AloneIs, LossInv
  <2>2. ASSUME NEW q \in Requests, q # r PROVE Holding(q)'
    BY <2>1, <2>2, HoldingNothing
    DEF Still, AloneIs, InFlight, Ended, OldLabels, WriteLabels, RemoveLabels
  <2>3. CASE Arrive(r)
    <3>1. /\ pc'[r] \in {"findDraft", "findCurrent", "findHistorical", "probe", "mkdir"}
          /\ pc'[r] = "mkdir" => op'[r] = "SaveAsDraft"
      BY <2>1, <2>3 DEF LocalTypes, Arrive, GetDraft, GetCurrent, GetPolicyById, Publish,
         Delete, SaveAsDraft, Begin, Goto
    <3>2. Holding(r)'
      BY <3>1 DEF Holding, ToCurrent, Archiving, OldLabels, WriteLabels, RemoveLabels
    <3> QED
      BY <1>1, <2>2, <3>2 DEF LossInv
  <2>4. CASE Work(r)
    <3>1. Holding(r)'
      BY <1>1, <2>1, <2>4, DownloadHolds, WriteHolds, RemoveHolds, RetryHolds DEF Work, Change
    <3> QED
      BY <1>1, <2>2, <3>1 DEF LossInv
  <2> QED
    BY <1>4, <2>3, <2>4
<1> QED
  BY <1>2, <1>3, <1>4 DEF Next, Terminated

-----------------------------------------------------------------------------
(* The last copy. *)

\* With one request at a time, and whatever crashes and fails, the last copy
\* of a policy leaves the share only when it is deleted by its id, when a
\* draft replaces the draft, or when a publish that has read it replaces it
\* as the current policy: FileStore.WriteAsync deletes before it writes, but
\* PublishAsync never archives over a policy it has not read.
THEOREM LastCopyHolds == SerialSpec => OnlyCopyIsKept
<1>1. LossInv /\ [Next /\ OneRequest']_vars =>
        [ \A i \in Ids : Copies(i) # {} /\ Copies(i)' = {} =>
            \E r \in Requests :
              \/ op[r] = "Delete" /\ arg[r] = i /\ pc[r] = "rmFile"
              \/ op[r] = "SaveAsDraft" /\ pc[r] = "unlink"
              \/ /\ op[r] = "Publish" /\ pc[r] = "unlink"
                 /\ current[r] # Null /\ current[r].id = i ]_vars
  <2> SUFFICES ASSUME LossInv, Next, NEW i \in Ids, Copies(i) # {}, Copies(i)' = {}
               PROVE  \E r \in Requests :
                        \/ op[r] = "Delete" /\ arg[r] = i /\ pc[r] = "rmFile"
                        \/ op[r] = "SaveAsDraft" /\ pc[r] = "unlink"
                        \/ /\ op[r] = "Publish" /\ pc[r] = "unlink"
                           /\ current[r] # Null /\ current[r].id = i
    OBVIOUS
  <2> USE DEF WriteLabels, RemoveLabels
  <2>1. PICK d \in Dirs : HoldsPolicy(d, i)
    BY DEF Copies
  <2>2. \A x \in Dirs : ~HoldsPolicy(x, i)'
    BY DEF Copies
  <2>3. store'[d] # store[d]
    BY <2>1, <2>2 DEF HoldsPolicy, Readable
  <2>4. IInv /\ Readable(d) /\ store[d] \notin Unreadable /\ store[d].id = i
    BY <2>1, NamesAreDistinct DEF LossInv, HoldsPolicy, Readable
  <2>5. ~(Crash \/ \E q \in Requests : IOError(q) \/ WriteAgain(q))
    BY <2>3, <2>4, FaultHolds
  <2>6. PICK r \in Requests : Arrive(r) \/ Work(r)
    BY <2>3, <2>5 DEF Next, Terminated, vars
  <2>7. /\ Holding(r) /\ LocalTypes /\ LocalOK(r) /\ target[r] \in Dirs
        /\ store \in [Dirs -> Unreadable \cup Policies]
        /\ Fits(store[d], d) /\ store[d] \in Policies
        /\ {"current", "draft"} \subseteq Dirs
    BY <2>4, BeforeStep DEF LossInv
  <2>8. Change(r)
    <3>1. Arrive(r) \/ Download(r) \/ Retry(r) \/ GiveUp(r) => UNCHANGED store
      BY DEF Arrive, GetDraft, GetCurrent, GetPolicyById, Publish, Delete, SaveAsDraft, Begin,
         Download, FindHistorical, NotHistorical, ReadHistorical, FindCurrent, NoCurrent,
         ReadCurrent, FindDraft, NoDraft, ReadDraft, FindBase, NoBase, ReadBase, FindOld,
         NoOld, ReadOld, Find, Misses, Reads, Retry, GiveUp
    <3> QED
      BY <2>3, <2>6, <3>1 DEF Work
  <2>9. CASE UnlinkOld(r)
    <3>1. /\ pc[r] = "unlink" /\ target[r] = d
          /\ op[r] \in {"Publish", "SaveAsDraft"}
          /\ data[r] \in Policies /\ Fits(data[r], target[r])
      BY <2>3, <2>7, <2>9 DEF UnlinkOld, DeleteFile, Holding, LocalOK
    <3>2. CASE op[r] = "Publish" /\ d = "current"
      <4>1. current[r] = store["current"] /\ current[r] # Null
        BY <2>4, <2>7, <3>1, <3>2, ParametersFit DEF Holding, ToCurrent
      <4> QED
        BY <2>4, <3>1, <3>2, <4>1
    <3>3. CASE op[r] = "Publish" /\ d # "current"
      <4>1. d # "draft" /\ current[r] # Null /\ data[r].id = current[r].id
        BY <2>7, <3>1, <3>3 DEF Holding, Archiving
      <4>2. d \in Ids
        BY <3>3, <4>1 DEF Dirs
      <4>3. data[r].id = d /\ store[d].id = d
        BY <2>7, <3>1, <4>2 DEF Fits
      <4> QED
        BY <2>4, <3>1, <3>3, <4>1, <4>3
    <3> QED
      BY <3>1, <3>2, <3>3
  <2>10. CASE RemoveFile(r)
    <3>1. /\ pc[r] = "rmFile" /\ target[r] = d /\ op[r] \in {"Publish", "Delete"}
          /\ target[r] # "current"
          /\ store' = [store EXCEPT ![target[r]] = NoFile]
      BY <2>3, <2>7, <2>10 DEF RemoveFile, EmptyDirectory, DeleteFile, Holding, LocalOK
    <3>2. op[r] # "Publish"
      <4> SUFFICES ASSUME op[r] = "Publish" PROVE FALSE
        OBVIOUS
      <4>1. Readable("current") /\ store["current"].id = i
        BY <2>4, <2>7, <3>1 DEF Holding
      <4>2. store'["current"] = store["current"]
        BY <2>7, <3>1
      <4> QED
        BY <2>2, <2>7, <4>1, <4>2 DEF HoldsPolicy, Readable
    <3> QED
      BY <2>4, <2>7, <3>1, <3>2 DEF Holding
  <2>11. CASE MakeDirectory(r) \/ OpenNew(r) \/ RemoveEmptied(r)
    BY <2>3, <2>4, <2>7, <2>11
    DEF MakeDirectory, CreateDirectory, OpenNew, OpenForWrite, RemoveEmptied, RemoveDirectory,
        Holding, Unreadable, LocalOK, CheckFile
  <2>12. CASE WriteData(r)
    BY <2>3, <2>4, <2>7, <2>12, NamesAreDistinct
    DEF WriteData, WriteBytes, Holding, Unreadable
  <2>13. CASE CheckFile(r) \/ Probe(r) \/ CheckDirectory(r)
    BY <2>3, <2>13 DEF CheckFile, Probe, CheckDirectory
  <2> QED
    BY <2>8, <2>9, <2>10, <2>11, <2>12, <2>13 DEF Change
<1>2. Init => LossInv
  <2> SUFFICES ASSUME Init PROVE LossInv
    OBVIOUS
  <2>1. \A r \in Requests : pc[r] = "idle"
    BY DEF Init
  <2>2. \A r \in Requests : Holding(r)
    BY <2>1 DEF Holding, OldLabels, WriteLabels, RemoveLabels, ToCurrent, Archiving
  <2> QED
    BY <2>2, SerialAtFirst DEF LossInv, SerialInv
<1> QED
  BY <1>1, <1>2, LossStep, PTL DEF SerialSpec, OnlyCopyIsKept

=============================================================================
