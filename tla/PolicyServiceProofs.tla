------------------------- MODULE PolicyServiceProofs -------------------------
(***************************************************************************)
(* Safety of PolicyService for any number of requests, ids, retries and    *)
(* faults: type correctness, every policy in its place, and no directory   *)
(* left without its file.                                                  *)
(*                                                                         *)
(* The invariant ties the program counter of a request to its locals: what *)
(* it writes fits the directory it writes to, what it publishes is a       *)
(* policy it has found, and the file it has open is the one it was told    *)
(* to write.                                                               *)
(***************************************************************************)
EXTENDS PolicyService, TLAPS

ById == {"GetPolicyById", "Publish", "Delete"}

LocalTypes ==
  /\ pc \in [Requests -> Labels]
  /\ op \in [Requests -> Operations \cup {Null}]
  /\ arg \in [Requests -> Ids \cup {Null}]
  /\ found \in [Requests -> Policies \cup {Null}]
  /\ current \in [Requests -> Policies \cup {Null}]
  /\ target \in [Requests -> Dirs]
  /\ data \in [Requests -> Policies \cup {Null}]
  /\ tries \in [Requests -> 0 .. MaxRetries]

\* Where a request is tells what its locals hold.
LocalOK(r) ==
  /\ pc[r] = "idle" => target[r] = "draft"
  /\ op[r] \in ById => arg[r] \in Ids
  /\ pc[r] \in {"findHistorical", "readHistorical"} => op[r] \in {"GetPolicyById", "Publish"}
  /\ pc[r] = "probe" => op[r] = "Delete"
  /\ pc[r] \in {"findOld", "readOld"} => op[r] = "Publish"
  /\ op[r] = "Publish" /\ pc[r] \in {"findOld", "readOld"} \cup WriteLabels \cup RemoveLabels
       => found[r] \in Policies
  /\ pc[r] \in WriteLabels => data[r] \in Policies /\ Fits(data[r], target[r])
  /\ pc[r] \in WriteLabels /\ op[r] # "Publish" => target[r] = "draft"
  /\ pc[r] \in RemoveLabels => target[r] # "current"

LocalsOK == LocalTypes /\ \A r \in Requests : LocalOK(r)

\* Only a request about to write bytes has a file open: its target's.
HandlesOK ==
  \A r \in Requests : handle[r] \in Dirs => pc[r] = "bytes" /\ handle[r] = target[r]

\* A step of r moves no other request.
OthersStay(r) ==
  \A q \in Requests \ {r} : pc'[q] = pc[q] /\ target'[q] = target[q]

\* The inductive invariant.
IInv == TypeOK /\ LocalsOK /\ HandlesOK /\ ContentMatchesPlace

USE DEF LocalTypes

-----------------------------------------------------------------------------
(* Policies in their places. *)

\* Changing the type of a policy leaves a policy with its id.
LEMMA Retyped ==
  ASSUME NEW p \in Policies
  PROVE  /\ AsDraft(p) \in Policies /\ Fits(AsDraft(p), "draft")
         /\ AsCurrent(p) \in Policies /\ Fits(AsCurrent(p), "current")
         /\ AsHistorical(p) \in Policies /\ AsHistorical(p).id \in Ids
         /\ Fits(AsHistorical(p), AsHistorical(p).id)
BY NamesAreDistinct DEF Policies, Types, AsDraft, AsCurrent, AsHistorical, Fits

\* What PublishAsync archives is a historical policy, filed under its own id.
LEMMA ArchivedFits ==
  ASSUME LocalTypes, NEW r \in Requests, NEW p \in Archived(r)
  PROVE  p \in Policies /\ p.id \in Dirs /\ Fits(p, p.id)
<1>1. CASE current[r] = Null
  <2>1. p \in [id : FreshIds, type : {"Historical"}, body : {DefaultBody}]
    BY <1>1 DEF Archived
  <2>2. FreshIds \subseteq Ids
    BY DEF FreshIds
  <2> QED
    BY <2>1, <2>2, NamesAreDistinct, ParametersFit DEF Policies, Types, Dirs, Fits
<1>2. CASE current[r] # Null
  <2>1. current[r] \in Policies /\ p = AsHistorical(current[r])
    BY <1>2 DEF Archived
  <2> QED
    BY <2>1, Retyped DEF Dirs
<1> QED
  BY <1>1, <1>2

-----------------------------------------------------------------------------
(* The control flow keeps the locals in order. *)

\* Ending a request clears its locals.
LEMMA EndKeepsLocals ==
  ASSUME LocalsOK, NEW r \in Requests, NEW o \in Ended,
         NEW a \in Policies \cup {Null}, End(r, o, a)
  PROVE  LocalsOK' /\ OthersStay(r)
<1> USE DEF LocalsOK, End, Goto
<1>1. LocalTypes'
  BY ParametersFit DEF Labels, Dirs
<1>2. ASSUME NEW q \in Requests PROVE LocalOK(q)'
  <2>1. CASE q = r
    BY <2>1 DEF LocalOK, Ended, WriteLabels, RemoveLabels
  <2>2. CASE q # r
    BY <2>2 DEF LocalOK
  <2> QED
    BY <2>1, <2>2
<1>3. OthersStay(r)
  BY DEF OthersStay
<1> QED
  BY <1>1, <1>2, <1>3

\* Moving on within one of the phases of a request.
LEMMA GotoKeepsLocals ==
  ASSUME LocalsOK, NEW r \in Requests, NEW l \in Labels, JustGoto(r, l),
         l \in WriteLabels => pc[r] \in WriteLabels,
         l \in RemoveLabels => pc[r] \in RemoveLabels,
         l \in {"findOld", "readOld"} => pc[r] \in {"findOld", "readOld"},
         l = "readHistorical" => pc[r] = "findHistorical",
         l \notin {"idle", "findHistorical", "probe"}
  PROVE  LocalsOK' /\ OthersStay(r)
<1> USE DEF LocalsOK, JustGoto, Goto
<1>1. LocalTypes'
  BY ParametersFit DEF Labels
<1>2. ASSUME NEW q \in Requests PROVE LocalOK(q)'
  BY DEF LocalOK, WriteLabels, RemoveLabels
<1>3. OthersStay(r)
  BY DEF OthersStay
<1> QED
  BY <1>1, <1>2, <1>3

\* PublishAsync begins to write a policy where it belongs.
LEMMA StartWriteKeepsLocals ==
  ASSUME LocalsOK, NEW r \in Requests, NEW d \in Dirs, NEW p \in Policies,
         Fits(p, d), StartWrite(r, d, p), op[r] = "Publish", found[r] \in Policies
  PROVE  LocalsOK' /\ OthersStay(r)
<1> USE DEF LocalsOK, StartWrite, Goto
<1>1. LocalTypes'
  BY ParametersFit DEF Labels, WriteLabels
<1>2. ASSUME NEW q \in Requests PROVE LocalOK(q)'
  BY DEF LocalOK, WriteLabels, RemoveLabels
<1>3. OthersStay(r)
  BY DEF OthersStay
<1> QED
  BY <1>1, <1>2, <1>3

\* PublishAsync or DeleteAsync begins to delete a directory.
LEMMA StartRemoveKeepsLocals ==
  ASSUME LocalsOK, NEW r \in Requests, NEW d \in Dirs \ {"current"}, StartRemove(r, d),
         op[r] = "Publish" => found[r] \in Policies
  PROVE  LocalsOK' /\ OthersStay(r)
<1> USE DEF LocalsOK, StartRemove, Goto
<1>1. LocalTypes'
  BY ParametersFit DEF Labels, RemoveLabels
<1>2. ASSUME NEW q \in Requests PROVE LocalOK(q)'
  BY DEF LocalOK, WriteLabels, RemoveLabels
<1>3. OthersStay(r)
  BY DEF OthersStay
<1> QED
  BY <1>1, <1>2, <1>3

\* GetPolicyByIdAsync hands over a policy or nothing.
LEMMA ReturnKeepsLocals ==
  ASSUME LocalsOK, NEW r \in Requests, NEW p \in Policies \cup {Null}, Return(r, p)
  PROVE  LocalsOK' /\ OthersStay(r)
<1>1. CASE op[r] = "Publish" /\ p # Null /\ p.type # "Current"
  <2> USE <1>1 DEF LocalsOK, Return, Goto
  <2>1. LocalTypes'
    BY ParametersFit DEF Labels, FindLabels
  <2>2. ASSUME NEW q \in Requests PROVE LocalOK(q)'
    BY DEF LocalOK, WriteLabels, RemoveLabels
  <2>3. OthersStay(r)
    BY DEF OthersStay
  <2> QED
    BY <2>1, <2>2, <2>3
<1>2. CASE ~(op[r] = "Publish" /\ p # Null /\ p.type # "Current")
  BY <1>2, EndKeepsLocals DEF Return, Ended
<1> QED
  BY <1>1, <1>2

\* Taking a request from a client.
LEMMA BeginKeepsLocals ==
  ASSUME LocalsOK, NEW r \in Requests, NEW o, NEW l \in Labels, Begin(r, o, l),
         arg' \in [Requests -> Ids \cup {Null}], data' \in [Requests -> Policies \cup {Null}],
         \A q \in Requests \ {r} : arg'[q] = arg[q] /\ data'[q] = data[q],
         o \in ById => arg'[r] \in Ids,
         l \in {"findHistorical", "readHistorical"} => o \in {"GetPolicyById", "Publish"},
         l = "probe" => o = "Delete",
         l \notin {"findOld", "readOld"} \cup RemoveLabels,
         l \in WriteLabels => /\ o # "Publish"
                             /\ data'[r] \in Policies /\ Fits(data'[r], target[r])
  PROVE  LocalsOK' /\ OthersStay(r)
<1> USE DEF LocalsOK, Begin, Goto
<1>1. LocalTypes'
  <2>1. pc' \in [Requests -> Labels] /\ op' \in [Requests -> Operations \cup {Null}]
    OBVIOUS
  <2>2. tries' \in [Requests -> 0 .. MaxRetries]
    BY ParametersFit
  <2>3. UNCHANGED <<found, current, target>>
    OBVIOUS
  <2> QED
    BY <2>1, <2>2, <2>3
<1>2. ASSUME NEW q \in Requests PROVE LocalOK(q)'
  BY DEF LocalOK, Fits
<1>3. OthersStay(r)
  BY DEF OthersStay
<1> QED
  BY <1>1, <1>2, <1>3

-----------------------------------------------------------------------------
(* What a step does to the share. *)

\* A step that changes nothing on the share and has no file open.
LEMMA QuietStep ==
  ASSUME IInv, NEW r \in Requests, UNCHANGED <<store, handle, faults>>,
         LocalsOK', OthersStay(r), pc[r] # "bytes"
  PROVE  IInv'
<1>1. TypeOK'
  BY DEF IInv, TypeOK, FileStoreTypeOK, LocalsOK
<1>2. HandlesOK'
  BY DEF IInv, HandlesOK, OthersStay
<1>3. ContentMatchesPlace'
  BY DEF IInv, ContentMatchesPlace, Readable, Fits
<1> QED
  BY <1>1, <1>2, <1>3 DEF IInv

\* A step that leaves in d what was there or nothing to read, and opens no file.
LEMMA EmptyingStep ==
  ASSUME IInv, NEW r \in Requests, NEW d \in Dirs, NEW x \in Unreadable \cup {store[d]},
         store' = [store EXCEPT ![d] = x], handle' \in {handle, Unlinked(d)},
         UNCHANGED faults, LocalsOK', OthersStay(r), pc[r] # "bytes"
  PROVE  IInv'
<1>1. TypeOK'
  BY DEF IInv, TypeOK, FileStoreTypeOK, LocalsOK, Unlinked
<1>2. HandlesOK'
  BY NamesAreDistinct DEF IInv, HandlesOK, OthersStay, Unlinked, TypeOK, FileStoreTypeOK
<1>3. ContentMatchesPlace'
  BY NamesAreDistinct
  DEF IInv, ContentMatchesPlace, Readable, Fits, TypeOK, FileStoreTypeOK
<1> QED
  BY <1>1, <1>2, <1>3 DEF IInv

-----------------------------------------------------------------------------
(* The invariant holds at first and every step keeps it. *)

\* The share starts with whole policies in their places.
LEMMA InitialStore ==
  ASSUME Init
  PROVE  /\ store = [x \in Dirs |-> store[x]]
         /\ \A x \in Dirs : /\ store[x] \in {NoDir} \cup Policies
                            /\ Readable(x) => Fits(store[x], x)
<1> USE DEF Init
<1>1. PICK c \in {NoDir} \cup Policies, d \in {NoDir} \cup Policies, H \in SUBSET Known :
        \E body \in [H -> Bodies] :
          /\ AtQuietTimes(c, d, H)
          /\ store = [x \in Dirs |->
               CASE x = "current" -> c
                 [] x = "draft" -> d
                 [] x \in H -> [id |-> x, type |-> "Historical", body |-> body[x]]
                 [] OTHER -> NoDir]
  OBVIOUS
<1>2. PICK body \in [H -> Bodies] :
        /\ AtQuietTimes(c, d, H)
        /\ store = [x \in Dirs |->
             CASE x = "current" -> c
               [] x = "draft" -> d
               [] x \in H -> [id |-> x, type |-> "Historical", body |-> body[x]]
               [] OTHER -> NoDir]
  BY <1>1
<1>3. ASSUME NEW x \in Dirs
      PROVE  /\ store[x] \in {NoDir} \cup Policies
             /\ Readable(x) => Fits(store[x], x)
  <2>1. CASE x = "current"
    <3>1. x \notin H
      BY <2>1, NamesAreDistinct, ParametersFit
    <3>2. store[x] = c
      BY <1>2, <2>1, <3>1
    <3> QED
      BY <1>2, <2>1, <3>2, NamesAreDistinct
      DEF Readable, Fits, AtQuietTimes, Unreadable
  <2>2. CASE x = "draft"
    <3>1. x \notin H
      BY <2>2, NamesAreDistinct, ParametersFit
    <3>2. store[x] = d
      BY <1>2, <2>2, <3>1
    <3> QED
      BY <1>2, <2>2, <3>2, NamesAreDistinct
      DEF Readable, Fits, AtQuietTimes, Unreadable
  <2>3. CASE x \in H
    <3>1. x \in Ids /\ x # "current" /\ x # "draft"
      BY <2>3, NamesAreDistinct, ParametersFit
    <3>2. store[x] = [id |-> x, type |-> "Historical", body |-> body[x]]
      BY <1>2, <2>3, <3>1
    <3> QED
      BY <2>3, <3>1, <3>2 DEF Readable, Fits, Policies, Types
  <2>4. CASE x \notin H /\ x # "current" /\ x # "draft"
    BY <1>2, <2>4, NamesAreDistinct DEF Readable, Unreadable
  <2> QED
    BY <2>1, <2>2, <2>3, <2>4
<1> QED
  BY <1>2, <1>3

\* So the invariant holds at first.
LEMMA InitInvariant == Init => IInv
<1> SUFFICES ASSUME Init PROVE IInv
  OBVIOUS
<1> USE DEF Init
<1>1. \A x \in Dirs : /\ store[x] \in Unreadable \cup Policies
                      /\ Readable(x) => Fits(store[x], x)
  BY InitialStore DEF Unreadable
<1>2. FileStoreTypeOK
  BY <1>1, InitialStore DEF FileStoreTypeOK
<1>3. LocalTypes /\ faults \in 0 .. MaxFaults
  BY ParametersFit DEF Labels, Dirs
<1>4. \A r \in Requests : LocalOK(r)
  BY ParametersFit DEF LocalOK, ById, WriteLabels, RemoveLabels, AllOperations
<1>5. HandlesOK
  BY NamesAreDistinct DEF HandlesOK
<1> QED
  BY <1>1, <1>2, <1>3, <1>4, <1>5 DEF IInv, TypeOK, LocalsOK, ContentMatchesPlace

\* A request arrives.
LEMMA ArriveKeeps == ASSUME IInv, NEW r \in Requests, Arrive(r)
  PROVE IInv' /\ OthersStay(r)
<1> USE DEF Labels, ReadLabels, FindLabels, WriteLabels, RemoveLabels, Ended, ById
<1>1. CASE GetDraft(r) \/ GetCurrent(r)
  <2>1. LocalsOK' /\ OthersStay(r)
    BY <1>1, BeginKeepsLocals DEF GetDraft, GetCurrent, IInv, LocalsOK
  <2> QED
    BY <1>1, <2>1, QuietStep DEF GetDraft, GetCurrent, Begin
<1>2. CASE GetPolicyById(r) \/ Publish(r)
  <2>1. LocalsOK' /\ OthersStay(r)
    BY <1>2, BeginKeepsLocals DEF GetPolicyById, Publish, IInv, LocalsOK
  <2> QED
    BY <1>2, <2>1, QuietStep DEF GetPolicyById, Publish, Begin
<1>3. CASE Delete(r)
  <2>1. LocalsOK' /\ OthersStay(r)
    BY <1>3, BeginKeepsLocals DEF Delete, IInv, LocalsOK
  <2> QED
    BY <1>3, <2>1, QuietStep DEF Delete, Begin
<1>4. CASE SaveAsDraft(r)
  <2>1. PICK p \in Policies : data' = [data EXCEPT ![r] = AsDraft(p)]
    BY <1>4 DEF SaveAsDraft
  <2>2. AsDraft(p) \in Policies /\ Fits(AsDraft(p), "draft")
    BY Retyped
  <2>3. target[r] = "draft" /\ LocalsOK
    BY <1>4 DEF IInv, LocalsOK, LocalOK, SaveAsDraft, Begin
  <2>4. LocalsOK' /\ OthersStay(r)
    <3>1. data' \in [Requests -> Policies \cup {Null}] /\ data'[r] = AsDraft(p)
      BY <2>1, <2>2, <2>3 DEF LocalsOK
    <3> QED
      BY <1>4, <2>1, <2>2, <2>3, <3>1, BeginKeepsLocals DEF SaveAsDraft, LocalsOK
  <2> QED
    BY <1>4, <2>4, QuietStep DEF SaveAsDraft, Begin
<1> QED
  BY <1>1, <1>2, <1>3, <1>4 DEF Arrive

\* A request looks for a file or reads one.
LEMMA DownloadKeeps == ASSUME IInv, NEW r \in Requests, Download(r)
  PROVE IInv' /\ OthersStay(r)
<1> USE DEF Labels, ReadLabels, FindLabels, WriteLabels, RemoveLabels, Ended
<1>1. LocalsOK /\ LocalOK(r) /\ store \in [Dirs -> Unreadable \cup Policies]
  BY DEF IInv, LocalsOK, TypeOK, FileStoreTypeOK
<1>2. UNCHANGED <<store, handle, faults>> /\ pc[r] # "bytes"
  BY DEF Download, FindHistorical, NotHistorical, ReadHistorical, FindCurrent, NoCurrent,
         ReadCurrent, FindDraft, NoDraft, ReadDraft, FindBase, NoBase, ReadBase, FindOld,
         NoOld, ReadOld, Find, Misses, Reads
<1>3. ASSUME NEW d \in Dirs, Readable(d) PROVE store[d] \in Policies \cup {Null}
  BY <1>3 DEF Readable
<1>4. "current" \in Dirs /\ "draft" \in Dirs
  BY DEF Dirs
<1>5. LocalsOK' /\ OthersStay(r)
  <2>1. CASE FindHistorical(r) \/ FindCurrent(r) \/ FindDraft(r) \/ FindBase(r) \/ FindOld(r)
    BY <1>1, <2>1, GotoKeepsLocals
    DEF FindHistorical, FindCurrent, FindDraft, FindBase, FindOld, Find
  <2>2. CASE NotHistorical(r) \/ NoDraft(r)
    BY <1>1, <2>2, GotoKeepsLocals DEF NotHistorical, NoDraft, Misses
  <2>3. CASE ReadHistorical(r)
    BY <1>1, <1>3, <2>3, ReturnKeepsLocals
    DEF ReadHistorical, Reads, LocalOK, ById, Dirs
  <2>4. CASE NoCurrent(r)
    BY <1>1, <2>4, GotoKeepsLocals, EndKeepsLocals DEF NoCurrent, Misses
  <2>5. CASE ReadCurrent(r)
    <3>1. store["current"] \in Policies \cup {Null} /\ pc[r] = "readCurrent"
      BY <1>3, <1>4, <2>5 DEF ReadCurrent, Reads
    <3>2. \/ End(r, "done", store["current"])
          \/ Return(r, store["current"])
          \/ JustGoto(r, "findDraft")
      BY <2>5 DEF ReadCurrent
    <3> QED
      BY <1>1, <3>1, <3>2, GotoKeepsLocals, EndKeepsLocals, ReturnKeepsLocals
  <2>6. CASE ReadDraft(r)
    <3>1. store["draft"] \in Policies \cup {Null} /\ pc[r] = "readDraft"
      BY <1>3, <1>4, <2>6 DEF ReadDraft, Reads
    <3>2. \/ End(r, "done", store["draft"]) \/ End(r, "done", Null)
          \/ StartRemove(r, "draft") /\ op[r] = "Delete"
          \/ Return(r, store["draft"])
      BY <2>6 DEF ReadDraft
    <3> QED
      BY <1>1, <1>4, <3>1, <3>2, EndKeepsLocals, ReturnKeepsLocals, StartRemoveKeepsLocals
  <2>7. CASE NoBase(r) \/ ReadBase(r)
    BY <1>1, <2>7, EndKeepsLocals DEF NoBase, ReadBase
  <2>8. CASE NoOld(r)
    <3>1. op[r] = "Publish" /\ found[r] \in Policies /\ StartWrite(r, "current", AsCurrent(found[r]))
      BY <1>1, <2>8 DEF NoOld, Misses, LocalOK
    <3> QED
      BY <1>1, <1>4, <3>1, Retyped, StartWriteKeepsLocals
  <2>9. CASE ReadOld(r)
    <3>1. op[r] = "Publish" /\ found[r] \in Policies /\ store["current"] \in Policies
      BY <1>1, <2>9 DEF ReadOld, Reads, Readable, LocalOK
    <3>2. AsCurrent(found[r]) \in Policies /\ Fits(AsCurrent(found[r]), "current")
      BY <3>1, Retyped
    <3>3. LocalTypes'
      BY <1>1, <1>4, <2>9, <3>1, <3>2, ParametersFit DEF ReadOld, Goto, LocalsOK
    <3>4. ASSUME NEW q \in Requests PROVE LocalOK(q)'
      <4>1. CASE q = r
        BY <1>1, <2>9, <3>1, <3>2, <4>1 DEF ReadOld, Goto, LocalsOK, LocalOK
      <4>2. CASE q # r
        BY <1>1, <2>9, <4>2 DEF ReadOld, Goto, LocalsOK, LocalOK
      <4> QED
        BY <4>1, <4>2
    <3> QED
      BY <1>1, <2>9, <3>3, <3>4 DEF LocalsOK, OthersStay, ReadOld, Goto
  <2> QED
    BY <2>1, <2>2, <2>3, <2>4, <2>5, <2>6, <2>7, <2>8, <2>9 DEF Download
<1> QED
  BY <1>2, <1>5, QuietStep

\* A request writes or deletes.
LEMMA ChangeKeeps == ASSUME IInv, NEW r \in Requests, Change(r)
  PROVE IInv' /\ OthersStay(r)
<1> USE DEF Labels, ReadLabels, FindLabels, WriteLabels, RemoveLabels, Ended
<1>1. /\ LocalsOK /\ LocalOK(r) /\ target[r] \in Dirs
      /\ store \in [Dirs -> Unreadable \cup Policies]
  BY DEF IInv, LocalsOK, TypeOK, FileStoreTypeOK
<1>2. CASE MakeDirectory(r)
  <2>1. LocalsOK' /\ OthersStay(r)
    BY <1>1, <1>2, GotoKeepsLocals DEF MakeDirectory
  <2>2. PICK x \in Unreadable \cup {store[target[r]]} :
          store' = [store EXCEPT ![target[r]] = x]
    BY <1>2 DEF MakeDirectory, CreateDirectory, Unreadable
  <2> QED
    BY <1>1, <1>2, <2>1, <2>2, EmptyingStep DEF MakeDirectory, CreateDirectory
<1>3. CASE CheckFile(r)
  <2>1. LocalsOK' /\ OthersStay(r)
    BY <1>1, <1>3, GotoKeepsLocals DEF CheckFile
  <2> QED
    BY <1>3, <2>1, QuietStep DEF CheckFile
<1>4. CASE UnlinkOld(r)
  <2>1. LocalsOK' /\ OthersStay(r)
    BY <1>1, <1>4, GotoKeepsLocals DEF UnlinkOld
  <2> QED
    BY <1>1, <1>4, <2>1, EmptyingStep DEF UnlinkOld, DeleteFile, Unreadable
<1>5. CASE OpenNew(r)
  <2>1. LocalsOK' /\ OthersStay(r)
    BY <1>1, <1>5, GotoKeepsLocals DEF OpenNew
  <2>2. TypeOK'
    BY <1>1, <1>5, <2>1
    DEF IInv, TypeOK, FileStoreTypeOK, LocalsOK, OpenNew, OpenForWrite, Unreadable
  <2>3. HandlesOK'
    BY <1>1, <1>5, <2>1 DEF IInv, TypeOK, FileStoreTypeOK, LocalsOK, HandlesOK, OthersStay,
       OpenNew, OpenForWrite, JustGoto, Goto
  <2>4. ContentMatchesPlace'
    BY <1>1, <1>5, NamesAreDistinct
    DEF IInv, ContentMatchesPlace, Readable, Fits, OpenNew, OpenForWrite, Unreadable
  <2> QED
    BY <2>1, <2>2, <2>3, <2>4 DEF IInv
<1>6. CASE WriteData(r)
  <2>1. data[r] \in Policies /\ Fits(data[r], target[r])
    BY <1>1, <1>6 DEF WriteData, LocalOK
  <2>2. LocalsOK' /\ OthersStay(r)
    <3>1. CASE op[r] = "Publish" /\ target[r] = "current"
      <4>1. /\ found[r] \in Policies
            /\ Source(r) \in Dirs \ {"current"}
            /\ StartRemove(r, Source(r))
        BY <1>1, <1>6, <3>1, NamesAreDistinct
        DEF WriteData, AfterWrite, LocalOK, Source, Dirs, ById
      <4> QED
        BY <1>1, <4>1, StartRemoveKeepsLocals
    <3>2. CASE ~(op[r] = "Publish" /\ target[r] = "current")
      <4>1. found[r] \in Policies \cup {Null}
        BY <1>1 DEF LocalsOK
      <4>2. \/ End(r, "done", found[r]) \/ End(r, "done", data[r])
        BY <1>6, <3>2 DEF WriteData, AfterWrite
      <4> QED
        BY <1>1, <2>1, <4>1, <4>2, EndKeepsLocals
    <3> QED
      BY <3>1, <3>2
  <2>3. \/ UNCHANGED store
        \/ /\ handle[r] = target[r]
           /\ \E c \in {data[r], Garbled} : store' = [store EXCEPT ![target[r]] = c]
    <3>1. CASE handle[r] \in Dirs
      <4>1. handle[r] = target[r]
        BY <3>1 DEF IInv, HandlesOK
      <4> QED
        BY <1>6, <3>1, <4>1, NamesAreDistinct DEF WriteData, WriteBytes, WriteResults
    <3>2. CASE handle[r] \notin Dirs
      BY <1>6, <3>2 DEF WriteData, WriteBytes
    <3> QED
      BY <3>1, <3>2
  <2>4. TypeOK'
    BY <1>1, <1>6, <2>1, <2>2, <2>3
    DEF IInv, TypeOK, FileStoreTypeOK, LocalsOK, WriteData, WriteBytes, Unreadable
  <2>5. HandlesOK'
    BY <1>1, <1>6, <2>2, NamesAreDistinct
    DEF IInv, TypeOK, FileStoreTypeOK, HandlesOK, OthersStay, WriteData, WriteBytes
  <2>6. ContentMatchesPlace'
    BY <1>1, <2>1, <2>3, NamesAreDistinct
    DEF IInv, ContentMatchesPlace, Readable, Fits, Unreadable
  <2> QED
    BY <2>2, <2>4, <2>5, <2>6 DEF IInv
<1>7. ASSUME AfterRemove(r), pc[r] \in {"rmCheck", "rmDir"} PROVE LocalsOK' /\ OthersStay(r)
  <2>1. CASE op[r] = "Publish"
    <3>1. PICK p \in Archived(r) : StartWrite(r, p.id, p)
      BY <1>7, <2>1 DEF AfterRemove
    <3>2. found[r] \in Policies
      BY <1>1, <1>7, <2>1 DEF LocalOK
    <3>3. p \in Policies /\ p.id \in Dirs /\ Fits(p, p.id)
      BY <1>1, ArchivedFits DEF LocalsOK
    <3> QED
      BY <1>1, <2>1, <3>1, <3>2, <3>3, StartWriteKeepsLocals
  <2>2. CASE op[r] # "Publish"
    BY <1>1, <1>7, <2>2, EndKeepsLocals DEF AfterRemove
  <2> QED
    BY <2>1, <2>2
<1>8. CASE Probe(r)
  <2>1. LocalsOK' /\ OthersStay(r)
    <3>1. op[r] = "Delete" /\ arg[r] \in Dirs \ {"current"}
      BY <1>1, <1>8, NamesAreDistinct DEF Probe, LocalOK, ById, Dirs
    <3> QED
      BY <1>1, <1>8, <3>1, GotoKeepsLocals, StartRemoveKeepsLocals DEF Probe
  <2> QED
    BY <1>8, <2>1, QuietStep DEF Probe
<1>9. CASE CheckDirectory(r)
  <2>1. LocalsOK' /\ OthersStay(r)
    BY <1>1, <1>7, <1>9, GotoKeepsLocals DEF CheckDirectory
  <2> QED
    BY <1>9, <2>1, QuietStep DEF CheckDirectory
<1>10. CASE RemoveFile(r)
  <2>1. LocalsOK' /\ OthersStay(r)
    BY <1>1, <1>10 DEF RemoveFile, LocalsOK, LocalOK, locals, OthersStay
  <2> QED
    BY <1>1, <1>10, <2>1, EmptyingStep DEF RemoveFile, EmptyDirectory, DeleteFile, Unreadable
<1>11. CASE RemoveEmptied(r)
  <2>1. LocalsOK' /\ OthersStay(r)
    BY <1>7, <1>11 DEF RemoveEmptied
  <2> QED
    BY <1>1, <1>11, <2>1, EmptyingStep DEF RemoveEmptied, RemoveDirectory, Unreadable
<1> QED
  BY <1>2, <1>3, <1>4, <1>5, <1>6, <1>8, <1>9, <1>10, <1>11 DEF Change

\* A call throws, and is tried again or given up.
LEMMA ThrowKeeps == ASSUME IInv, NEW r \in Requests, Retry(r) \/ GiveUp(r)
  PROVE IInv' /\ OthersStay(r)
<1> USE DEF Labels, ReadLabels, FindLabels, WriteLabels, RemoveLabels, Ended
<1>1. LocalsOK /\ LocalOK(r) /\ tries[r] \in 0 .. MaxRetries
  BY DEF IInv, LocalsOK
<1>2. CASE Retry(r)
  <2>1. LocalTypes'
    <3>1. tries[r] + 1 \in 0 .. MaxRetries
      BY <1>1, <1>2, ParametersFit DEF Retry, RetriesLeft
    <3> QED
      BY <1>1, <1>2, <3>1 DEF LocalsOK, Retry, Attempts
  <2>2. ASSUME NEW q \in Requests PROVE LocalOK(q)'
    <3>1. CASE q = r
      BY <1>1, <1>2, <3>1 DEF LocalsOK, LocalOK, Retry
    <3>2. CASE q # r
      BY <1>1, <1>2, <3>2 DEF LocalsOK, LocalOK, Retry
    <3> QED
      BY <3>1, <3>2
  <2>3. OthersStay(r) /\ pc[r] # "bytes" /\ UNCHANGED <<store, handle, faults>>
    BY <1>1, <1>2 DEF LocalsOK, OthersStay, Retry, CallThrows
  <2> QED
    BY <2>1, <2>2, <2>3, QuietStep DEF LocalsOK
<1>3. CASE GiveUp(r)
  <2>1. LocalsOK' /\ OthersStay(r)
    BY <1>1, <1>3, EndKeepsLocals DEF GiveUp
  <2>2. pc[r] # "bytes" /\ UNCHANGED <<store, handle, faults>>
    BY <1>3 DEF GiveUp, ParseThrows, CallThrows
  <2> QED
    BY <2>1, <2>2, QuietStep
<1> QED
  BY <1>2, <1>3

\* Interrupted writes leave the policies that are whole where they were.
LEMMA LeftByKeeps ==
  ASSUME IInv, NEW R \in SUBSET Requests, store' \in LeftBy(R)
  PROVE  /\ store' \in [Dirs -> Unreadable \cup Policies]
         /\ ContentMatchesPlace'
<1>1. PICK half \in SUBSET Dirs :
        store' = [d \in Dirs |-> IF d \in half THEN Garbled ELSE store[d]]
  BY DEF LeftBy
<1>2. store \in [Dirs -> Unreadable \cup Policies]
  BY DEF IInv, TypeOK, FileStoreTypeOK
<1>3. store' \in [Dirs -> Unreadable \cup Policies]
  BY <1>1, <1>2 DEF Unreadable
<1>4. ContentMatchesPlace'
  BY <1>1, <1>2, NamesAreDistinct
  DEF IInv, ContentMatchesPlace, Readable, Fits, Unreadable
<1> QED
  BY <1>3, <1>4

\* An error ends one request, or makes it write again.
LEMMA ErrorKeeps ==
  ASSUME IInv, NEW r \in Requests, IOError(r) \/ WriteAgain(r) PROVE IInv'
<1> USE DEF Labels, ReadLabels, FindLabels, WriteLabels, RemoveLabels, Ended
<1>1. store' \in LeftBy({r}) /\ handle' = [handle EXCEPT ![r] = Closed]
  BY DEF IOError, WriteAgain
<1>2. faults' \in 0 .. MaxFaults
  BY ParametersFit DEF IInv, TypeOK, IOError, WriteAgain, Fault
<1>3. LocalsOK' /\ OthersStay(r)
  <2>1. CASE IOError(r)
    BY <2>1, EndKeepsLocals DEF IInv, IOError
  <2>2. CASE WriteAgain(r)
    BY <2>2 DEF IInv, WriteAgain, LocalsOK, LocalOK, locals, OthersStay
  <2> QED
    BY <2>1, <2>2
<1>4. store' \in [Dirs -> Unreadable \cup Policies] /\ ContentMatchesPlace'
  BY <1>1, LeftByKeeps
<1>5. TypeOK'
  BY <1>1, <1>2, <1>3, <1>4 DEF IInv, TypeOK, FileStoreTypeOK, LocalsOK
<1>6. HandlesOK'
  BY <1>1, <1>3, NamesAreDistinct DEF IInv, TypeOK, FileStoreTypeOK, HandlesOK, OthersStay
<1> QED
  BY <1>3, <1>4, <1>5, <1>6 DEF IInv

\* A crash ends every request in flight.
LEMMA CrashKeeps == ASSUME IInv, Crash PROVE IInv'
<1> USE DEF Labels, ReadLabels, FindLabels, WriteLabels, RemoveLabels, Ended
<1>1. PICK R \in SUBSET Requests :
        /\ R = {r \in Requests : InFlight(r)}
        /\ store' \in LeftBy(R)
        /\ pc' = [r \in Requests |-> IF r \in R THEN "failed" ELSE pc[r]]
        /\ found' = [r \in Requests |-> IF r \in R THEN Null ELSE found[r]]
  BY DEF Crash
<1>2. store' \in [Dirs -> Unreadable \cup Policies] /\ ContentMatchesPlace'
  BY <1>1, LeftByKeeps
<1>3. faults' \in 0 .. MaxFaults
  BY ParametersFit DEF IInv, TypeOK, Crash, Fault
<1>4. LocalTypes'
  BY <1>1, ParametersFit DEF IInv, LocalsOK, Crash, Dirs
<1>5. ASSUME NEW q \in Requests PROVE LocalOK(q)'
  BY <1>1 DEF IInv, LocalsOK, LocalOK, Crash, InFlight
<1>6. HandlesOK' /\ handle' \in [Requests -> Dirs \cup {Closed, Orphan}]
  BY NamesAreDistinct DEF HandlesOK, Crash
<1> QED
  BY <1>2, <1>3, <1>4, <1>5, <1>6 DEF IInv, TypeOK, FileStoreTypeOK, LocalsOK

\* Every step keeps the invariant.
LEMMA StepKeeps == IInv /\ [Next]_vars => IInv'
<1> SUFFICES ASSUME IInv, [Next]_vars PROVE IInv'
  OBVIOUS
<1>1. ASSUME NEW r \in Requests, Arrive(r) \/ Work(r) \/ IOError(r) \/ WriteAgain(r)
      PROVE  IInv'
  BY <1>1, ArriveKeeps, DownloadKeeps, ChangeKeeps, ThrowKeeps, ErrorKeeps DEF Work
<1>2. CASE Crash
  BY <1>2, CrashKeeps
<1>3. CASE UNCHANGED vars
  BY <1>3 DEF vars, locals, IInv, TypeOK, FileStoreTypeOK, LocalsOK, LocalOK, HandlesOK,
              ContentMatchesPlace, Readable, Fits
<1> QED
  BY <1>1, <1>2, <1>3 DEF Next, Terminated

-----------------------------------------------------------------------------
(* Theorems. *)

\* The invariant holds in every reachable state.
THEOREM Invariance == Spec => []IInv
<1>1. Init => IInv
  BY InitInvariant
<1>2. IInv /\ [Next]_vars => IInv'
  BY StepKeeps
<1> QED
  BY <1>1, <1>2, PTL DEF Spec

\* Type correctness, for any number of requests, ids, retries and faults.
THEOREM TypeCorrect == Spec => []TypeOK
<1>1. IInv => TypeOK
  BY DEF IInv
<1> QED
  BY <1>1, Invariance, PTL

\* In every interleaving and after any crash, a policy that can be read is a
\* draft in draft/, a current one in current/ or the historical policy of its
\* directory's id: PublishAsync, SaveAsDraftAsync and DeleteAsync never leave a
\* policy where a lookup would take it for something else.
THEOREM PlacesCorrect == Spec => []ContentMatchesPlace
<1>1. IInv => ContentMatchesPlace
  BY DEF IInv
<1> QED
  BY <1>1, Invariance, PTL

-----------------------------------------------------------------------------
(* No directory is left without its file. *)

\* Calls at which a request whose target has no file is about to put that
\* right: it will write the file or remove the directory.
Filling == {"check", "unlink", "open", "rmDir"}

\* A missing file has a request about to see to it, a blank one a request
\* that has it open.
Gapless ==
  faults = 0 =>
    \A d \in Dirs :
      /\ store[d] = NoFile => \E r \in Requests : target[r] = d /\ pc[r] \in Filling
      /\ store[d] = Blank => \E r \in Requests : handle[r] = d

\* Steps that leave the share alone, and any missing file to its request.
LEMMA QuietStepFills ==
  ASSUME IInv, Gapless, NEW r \in Requests, UNCHANGED <<store, handle, faults>>,
         OthersStay(r),
         pc[r] \in Filling /\ store[target[r]] = NoFile
           => pc'[r] \in Filling /\ target'[r] = target[r]
  PROVE  Gapless'
<1> SUFFICES ASSUME faults = 0, NEW d \in Dirs
             PROVE  /\ store[d] = NoFile =>
                         \E q \in Requests : target'[q] = d /\ pc'[q] \in Filling
                    /\ store[d] = Blank => \E q \in Requests : handle[q] = d
  BY DEF Gapless
<1>1. ASSUME store[d] = NoFile
      PROVE  \E q \in Requests : target'[q] = d /\ pc'[q] \in Filling
  <2>1. PICK q \in Requests : target[q] = d /\ pc[q] \in Filling
    BY <1>1 DEF Gapless
  <2> QED
    BY <1>1, <2>1 DEF OthersStay
<1> QED
  BY <1>1 DEF Gapless

\* Steps that change the share in one directory.
LEMMA WriteStepFills ==
  ASSUME IInv, Gapless, NEW r \in Requests, NEW d \in Dirs, NEW x,
         store' = [store EXCEPT ![d] = x], target[r] = d,
         OthersStay(r), UNCHANGED faults,
         \A q \in Requests : handle[q] # d => handle'[q] = handle[q],
         x = NoFile => target'[r] = d /\ pc'[r] \in Filling,
         x = Blank => handle'[r] = d
  PROVE  Gapless'
<1> SUFFICES ASSUME faults = 0, NEW e \in Dirs
             PROVE  /\ store'[e] = NoFile =>
                         \E q \in Requests : target'[q] = e /\ pc'[q] \in Filling
                    /\ store'[e] = Blank => \E q \in Requests : handle'[q] = e
  BY DEF Gapless
<1>1. store \in [Dirs -> Unreadable \cup Policies]
  BY DEF IInv, TypeOK, FileStoreTypeOK
<1>2. CASE e = d
  BY <1>1, <1>2
<1>3. CASE e # d
  <2>1. store'[e] = store[e]
    BY <1>1, <1>3
  <2>2. ASSUME store[e] = NoFile
        PROVE  \E q \in Requests : target'[q] = e /\ pc'[q] \in Filling
    <3>1. PICK q \in Requests : target[q] = e /\ pc[q] \in Filling
      BY <2>2 DEF Gapless
    <3> QED
      BY <1>3, <3>1 DEF OthersStay
  <2>3. ASSUME store[e] = Blank PROVE \E q \in Requests : handle'[q] = e
    <3>1. PICK q \in Requests : handle[q] = e
      BY <2>3 DEF Gapless
    <3> QED
      BY <1>3, <3>1
  <2> QED
    BY <2>1, <2>2, <2>3
<1> QED
  BY <1>2, <1>3

\* Writing and deleting.
LEMMA ChangeFills ==
  ASSUME IInv, Gapless, NEW r \in Requests, Change(r) PROVE Gapless'
<1> USE NamesAreDistinct
<1>1. OthersStay(r)
  BY ChangeKeeps
<1>2. /\ pc \in [Requests -> Labels] /\ target \in [Requests -> Dirs]
      /\ store \in [Dirs -> Unreadable \cup Policies]
      /\ handle \in [Requests -> Dirs \cup {Closed, Orphan}]
      /\ target[r] \in Dirs
  BY DEF IInv, TypeOK, FileStoreTypeOK
<1>3. CASE MakeDirectory(r)
  <2>1. CASE store[target[r]] = NoDir
    BY <1>1, <1>2, <1>3, <2>1, WriteStepFills
    DEF MakeDirectory, CreateDirectory, JustGoto, Goto, Filling
  <2>2. CASE store[target[r]] # NoDir
    <3>1. store' = store
      BY <1>2, <1>3, <2>2 DEF MakeDirectory, CreateDirectory
    <3> QED
      BY <1>1, <1>3, <3>1, QuietStepFills DEF MakeDirectory, CreateDirectory, Filling
  <2> QED
    BY <2>1, <2>2
<1>4. CASE CheckFile(r)
  <2>1. store[target[r]] = NoFile => pc'[r] \in Filling /\ target'[r] = target[r]
    BY <1>2, <1>4 DEF CheckFile, FileExists, JustGoto, Goto, Filling
  <2> QED
    BY <1>1, <1>4, <2>1, QuietStepFills DEF CheckFile
<1>5. CASE UnlinkOld(r)
  BY <1>1, <1>2, <1>5, WriteStepFills
  DEF UnlinkOld, DeleteFile, Unlinked, JustGoto, Goto, Filling
<1>6. CASE OpenNew(r)
  <2>1. handle[r] \notin Dirs
    BY <1>2, <1>6 DEF IInv, HandlesOK, OpenNew
  <2>2. \A d \in Dirs : store[d] = Blank => handle[r] # d
    BY <2>1
  <2>3. SUFFICES ASSUME faults' = 0, NEW e \in Dirs
                 PROVE  /\ store'[e] = NoFile =>
                             \E q \in Requests : target'[q] = e /\ pc'[q] \in Filling
                        /\ store'[e] = Blank => \E q \in Requests : handle'[q] = e
    BY DEF Gapless
  <2>4. CASE e = target[r]
    BY <1>2, <1>6, <2>4 DEF OpenNew, OpenForWrite
  <2>5. CASE e # target[r]
    <3>1. store'[e] = store[e] /\ faults = 0
      BY <1>2, <1>6, <2>3, <2>5 DEF OpenNew, OpenForWrite
    <3>2. ASSUME store[e] = NoFile
          PROVE  \E q \in Requests : target'[q] = e /\ pc'[q] \in Filling
      <4>1. PICK q \in Requests : target[q] = e /\ pc[q] \in Filling
        BY <3>1, <3>2 DEF Gapless
      <4> QED
        BY <1>1, <2>5, <4>1 DEF OthersStay
    <3>3. ASSUME store[e] = Blank PROVE \E q \in Requests : handle'[q] = e
      <4>1. PICK q \in Requests : handle[q] = e
        BY <3>1, <3>3 DEF Gapless
      <4> QED
        BY <1>2, <1>6, <2>1, <4>1 DEF OpenNew, OpenForWrite
    <3> QED
      BY <3>1, <3>2, <3>3
  <2> QED
    BY <2>4, <2>5
<1>7. CASE WriteData(r)
  <2>1. CASE handle[r] \in Dirs
    <3>1. handle[r] = target[r] /\ data[r] \in Policies
      BY <1>7, <2>1 DEF IInv, HandlesOK, LocalsOK, LocalOK, WriteData, WriteLabels
    <3>2. PICK c \in {data[r], Garbled} : store' = [store EXCEPT ![target[r]] = c]
      BY <1>7, <2>1, <3>1 DEF WriteData, WriteBytes, WriteResults
    <3>3. c # NoFile /\ c # Blank
      BY <3>1 DEF Unreadable
    <3> QED
      BY <1>1, <1>2, <1>7, <3>1, <3>2, <3>3, WriteStepFills DEF WriteData, WriteBytes
  <2>2. CASE handle[r] \notin Dirs
    <3>1. UNCHANGED <<store, faults>> /\ \A q \in Requests \ {r} : handle'[q] = handle[q]
      BY <1>2, <1>7, <2>2 DEF WriteData, WriteBytes
    <3>2. pc[r] \notin Filling
      BY <1>7 DEF WriteData, Filling
    <3>3. SUFFICES ASSUME faults = 0, NEW e \in Dirs
                   PROVE  /\ store[e] = NoFile =>
                               \E q \in Requests : target'[q] = e /\ pc'[q] \in Filling
                          /\ store[e] = Blank => \E q \in Requests : handle'[q] = e
      BY <3>1 DEF Gapless
    <3> QED
      BY <1>1, <2>2, <3>1, <3>2, <3>3 DEF Gapless, OthersStay
  <2> QED
    BY <2>1, <2>2
<1>8. CASE Probe(r) \/ CheckDirectory(r)
  BY <1>1, <1>8, QuietStepFills DEF Probe, CheckDirectory, Filling
<1>9. CASE RemoveFile(r)
  BY <1>1, <1>2, <1>9, WriteStepFills
  DEF RemoveFile, EmptyDirectory, DeleteFile, Unlinked, locals, Filling
<1>10. CASE RemoveEmptied(r)
  BY <1>1, <1>2, <1>10, WriteStepFills DEF RemoveEmptied, RemoveDirectory
<1> QED
  BY <1>3, <1>4, <1>5, <1>6, <1>7, <1>8, <1>9, <1>10 DEF Change

\* Every step keeps missing files in the hands of requests.
LEMMA StepFills == IInv /\ Gapless /\ [Next]_vars => Gapless'
<1> SUFFICES ASSUME IInv, Gapless, [Next]_vars PROVE Gapless'
  OBVIOUS
<1>1. ASSUME NEW r \in Requests, Arrive(r) PROVE Gapless'
  <2>1. OthersStay(r)
    BY <1>1, ArriveKeeps
  <2>2. UNCHANGED <<store, handle, faults>> /\ pc[r] \notin Filling
    BY <1>1 DEF Arrive, GetDraft, GetCurrent, GetPolicyById, Publish, Delete, SaveAsDraft,
                Begin, Filling
  <2> QED
    BY <2>1, <2>2, QuietStepFills
<1>2. ASSUME NEW r \in Requests, Download(r) PROVE Gapless'
  <2>1. OthersStay(r)
    BY <1>2, DownloadKeeps
  <2>2. UNCHANGED <<store, handle, faults>> /\ pc[r] \notin Filling
    BY <1>2 DEF Download, FindHistorical, NotHistorical, ReadHistorical, FindCurrent,
         NoCurrent, ReadCurrent, FindDraft, NoDraft, ReadDraft, FindBase, NoBase, ReadBase,
         FindOld, NoOld, ReadOld, Find, Misses, Reads, Filling
  <2> QED
    BY <2>1, <2>2, QuietStepFills
<1>3. ASSUME NEW r \in Requests, Retry(r) \/ GiveUp(r) PROVE Gapless'
  <2>1. OthersStay(r)
    BY <1>3, ThrowKeeps
  <2>2. UNCHANGED <<store, handle, faults>>
    BY <1>3 DEF Retry, GiveUp
  <2>3. ~(pc[r] \in Filling /\ store[target[r]] = NoFile)
    BY <1>3, NamesAreDistinct
    DEF Retry, GiveUp, CallThrows, ParseThrows, Filling, FileExists, DirectoryExists,
        ReadLabels
  <2> QED
    BY <2>1, <2>2, <2>3, QuietStepFills
<1>4. ASSUME NEW r \in Requests, IOError(r) \/ WriteAgain(r) PROVE Gapless'
  BY <1>4 DEF IOError, WriteAgain, Fault, Gapless, IInv, TypeOK
<1>5. CASE Crash
  BY <1>5 DEF Crash, Fault, Gapless, IInv, TypeOK
<1>6. CASE UNCHANGED vars
  BY <1>6 DEF vars, locals, Gapless
<1> QED
  BY <1>1, <1>2, <1>3, <1>4, <1>5, <1>6, ChangeFills DEF Next, Terminated, Work

\* Without I/O errors a directory lacks its complete file only while a request
\* is writing or deleting that directory, however many requests interleave:
\* WriteAsync and DeleteAsync always finish what they found half done.
THEOREM GapsAreFilled == Spec => []GapHasAWriter
<1>1. Init => Gapless
  BY InitialStore, NamesAreDistinct DEF Gapless, Unreadable
<1>2. IInv /\ Gapless /\ [Next]_vars => Gapless'
  BY StepFills
<1>3. IInv /\ Gapless => GapHasAWriter
  BY DEF IInv, Gapless, GapHasAWriter, HandlesOK, Filling, WriteLabels, RemoveLabels
<1> QED
  BY <1>1, <1>2, <1>3, Invariance, PTL DEF Spec

-----------------------------------------------------------------------------
(* A torn current policy stays torn. *)

\* Nobody but a publisher that is replacing it works on the current policy.
LEMMA OnlyPublishersWriteCurrent ==
  ASSUME IInv, NEW r \in Requests, ~Replacing(r)
  PROVE  /\ pc[r] \in WriteLabels \cup RemoveLabels =>
              target[r] # "current" /\ op[r] # "Publish"
         /\ handle[r] # "current"
BY DEF IInv, LocalsOK, LocalOK, HandlesOK, Replacing, Dirs, WriteLabels

\* Interrupted writes tear only what is being written.
LEMMA LeftAlone ==
  ASSUME IInv, NEW R \in SUBSET Requests, \A r \in R : handle[r] # "current",
         store' \in LeftBy(R)
  PROVE  store'["current"] = store["current"]
BY DEF LeftBy, Dirs

\* While the current policy is torn and nobody is past reading it, no request
\* gets past reading it and none touches it.
LEMMA TornStep ==
  ASSUME IInv, [Next]_vars, store["current"] \in {Blank, Garbled},
         \A r \in Requests : ~Replacing(r)
  PROVE  /\ store'["current"] = store["current"]
         /\ \A r \in Requests : ~Replacing(r)'
<1> DEFINE Same == store'["current"] = store["current"]
           Idle == \A r \in Requests : ~Replacing(r)'
<1> SUFFICES Same /\ Idle
  OBVIOUS
<1> USE NamesAreDistinct
<1>1. /\ "current" \in Dirs
      /\ store \in [Dirs -> Unreadable \cup Policies]
      /\ pc \in [Requests -> Labels]
      /\ op \in [Requests -> Operations \cup {Null}]
  BY DEF Dirs, IInv, TypeOK, FileStoreTypeOK
<1>2. FileExists("current") /\ ~Readable("current")
  BY DEF FileExists, Readable, Unreadable
<1>3. ASSUME NEW r \in Requests, OthersStay(r), op' = op, ~Replacing(r)' PROVE Idle
  BY <1>3 DEF OthersStay, Replacing
<1>4. ASSUME NEW r \in Requests, Arrive(r) PROVE Same /\ Idle
  <2>1. store' = store
    BY <1>4 DEF Arrive, GetDraft, GetCurrent, GetPolicyById, Publish, Delete, SaveAsDraft, Begin
  <2>2. PICK o, l : /\ pc' = [pc EXCEPT ![r] = l] /\ op' = [op EXCEPT ![r] = o]
                    /\ o = "Publish" => l = "findHistorical"
    BY <1>4 DEF Arrive, GetDraft, GetCurrent, GetPolicyById, Publish, Delete, SaveAsDraft,
                Begin, Goto
  <2> QED
    BY <1>1, <2>1, <2>2 DEF Replacing, WriteLabels, RemoveLabels
<1>5. ASSUME NEW r \in Requests, Download(r) PROVE Same /\ Idle
  <2>1. OthersStay(r)
    BY <1>5, DownloadKeeps
  <2>2. store' = store
    BY <1>5 DEF Download, FindHistorical, NotHistorical, ReadHistorical, FindCurrent,
         NoCurrent, ReadCurrent, FindDraft, NoDraft, ReadDraft, FindBase, NoBase, ReadBase,
         FindOld, NoOld, ReadOld, Find, Misses, Reads
  <2>3. \/ \E l \in ReadLabels \cup FindLabels : JustGoto(r, l)
        \/ \E p : Return(r, p)
        \/ \E p : End(r, "done", p)
        \/ StartRemove(r, "draft") /\ op[r] = "Delete"
    BY <1>2, <1>5 DEF Download, FindHistorical, NotHistorical, ReadHistorical, FindCurrent,
         NoCurrent, ReadCurrent, FindDraft, NoDraft, ReadDraft, FindBase, NoBase, ReadBase,
         FindOld, NoOld, ReadOld, Find, Misses, Reads, ReadLabels, FindLabels
  <2>4. op' = op /\ (pc'[r] \in ReadLabels \cup FindLabels \cup {"done"} \/ op[r] = "Delete")
    BY <1>1, <2>3 DEF JustGoto, Return, End, StartRemove, Goto, FindLabels
  <2>5. ~Replacing(r)'
    BY <2>4 DEF Replacing, ReadLabels, FindLabels, WriteLabels, RemoveLabels
  <2> QED
    BY <1>3, <2>1, <2>2, <2>4, <2>5
<1>6. ASSUME NEW r \in Requests, Change(r) PROVE Same /\ Idle
  <2>1. OthersStay(r)
    BY <1>6, ChangeKeeps
  <2>2. target[r] # "current" \/ pc[r] = "probe"
    BY <1>6, OnlyPublishersWriteCurrent
    DEF Change, MakeDirectory, CheckFile, UnlinkOld, OpenNew, WriteData, Probe,
        CheckDirectory, RemoveFile, RemoveEmptied, WriteLabels, RemoveLabels
  <2>3. op[r] # "Publish"
    BY <1>6, OnlyPublishersWriteCurrent
    DEF Change, MakeDirectory, CheckFile, UnlinkOld, OpenNew, WriteData, Probe,
        CheckDirectory, RemoveFile, RemoveEmptied, WriteLabels, RemoveLabels,
        IInv, LocalsOK, LocalOK
  <2>4. op' = op
    BY <1>6, <2>3
    DEF Change, MakeDirectory, CheckFile, UnlinkOld, OpenNew, WriteData, Probe,
        CheckDirectory, RemoveFile, RemoveEmptied, JustGoto, AfterWrite, AfterRemove,
        StartRemove, End, locals
  <2>5. Same
    BY <1>1, <1>6, <2>2, OnlyPublishersWriteCurrent
    DEF Change, MakeDirectory, CheckFile, UnlinkOld, OpenNew, WriteData, Probe,
        CheckDirectory, RemoveFile, RemoveEmptied, CreateDirectory, DeleteFile, OpenForWrite,
        WriteBytes, EmptyDirectory, RemoveDirectory
  <2> QED
    BY <1>3, <2>1, <2>3, <2>4, <2>5 DEF Replacing
<1>7. ASSUME NEW r \in Requests, Retry(r) \/ GiveUp(r) PROVE Same /\ Idle
  <2>1. OthersStay(r)
    BY <1>7, ThrowKeeps
  <2>2. store' = store /\ op' = op
    BY <1>7 DEF Retry, GiveUp, End
  <2>3. pc'[r] \in {pc[r], "failed"} \/ pc[r] = "rmDir"
    BY <1>1, <1>7 DEF Retry, GiveUp, End, Goto
  <2>4. ~Replacing(r)'
    BY <2>2, <2>3 DEF Replacing, WriteLabels, RemoveLabels
  <2> QED
    BY <1>3, <2>1, <2>2, <2>4
<1>8. ASSUME NEW r \in Requests, IOError(r) \/ WriteAgain(r) PROVE Same /\ Idle
  <2>1. Same
    BY <1>8, LeftAlone, OnlyPublishersWriteCurrent DEF IOError, WriteAgain
  <2>2. /\ op' = op /\ \A q \in Requests \ {r} : pc'[q] = pc[q]
        /\ pc'[r] = "failed" \/ pc[r] = "bytes"
    BY <1>1, <1>8 DEF IOError, WriteAgain, End, Goto, locals
  <2> QED
    BY <2>1, <2>2 DEF Replacing, WriteLabels, RemoveLabels
<1>9. CASE Crash
  <2>1. Same
    BY <1>9, LeftAlone, OnlyPublishersWriteCurrent DEF Crash
  <2>2. op' = op /\ \A q \in Requests : pc'[q] \in {"failed", pc[q]}
    BY <1>1, <1>9 DEF Crash
  <2> QED
    BY <2>1, <2>2 DEF Replacing, WriteLabels, RemoveLabels
<1>10. CASE UNCHANGED vars
  BY <1>10 DEF vars, locals, Replacing
<1> QED
  BY <1>4, <1>5, <1>6, <1>7, <1>8, <1>9, <1>10 DEF Next, Terminated, Work

\* A current policy that a crash tore is beyond repair by any request that
\* starts afterwards: GetCurrentAsync throws in each of them before it writes.
THEOREM TornForGood == Spec => TornCurrentStays
<1>1. IInv /\ [Next]_vars =>
        [ store["current"] \in {Blank, Garbled} /\ (\A r \in Requests : ~Replacing(r))
            => /\ store'["current"] = store["current"]
               /\ \A r \in Requests : ~Replacing(r)' ]_vars
  BY TornStep
<1> QED
  BY <1>1, Invariance, PTL DEF Spec, TornCurrentStays

-----------------------------------------------------------------------------
(* Bounded work: each call of a request leads it on, none takes it back. *)

\* What a request at label l that works on d has left to do.
CallsAt(l, d) ==
  IF l \in {"idle"} \cup Ended THEN 0
  ELSE CallsFrom[l] + (IF l \in WriteLabels /\ d = "current" THEN 7 ELSE 0)

\* CallsLeft depends on the label and the directory only.
LEMMA CallsLeftAt ==
  ASSUME NEW r \in Requests
  PROVE  /\ CallsLeft(r) = CallsAt(pc[r], target[r])
         /\ CallsLeft(r)' = CallsAt(pc'[r], target'[r])
BY DEF CallsLeft, CallsAt, InFlight

\* The order of the calls.
LEMMA CallsInOrder ==
  /\ \A l \in Labels, d \in Dirs : CallsAt(l, d) \in Nat
  /\ \A l \in Labels \ ({"idle"} \cup Ended), d \in Dirs :
       \A o \in Ended, e \in Dirs : CallsAt(o, e) < CallsAt(l, d)
  /\ \A d \in Dirs :
       /\ CallsAt("findDraft", d) < CallsAt("probe", d)
       /\ CallsAt("readHistorical", d) < CallsAt("findHistorical", d)
       /\ CallsAt("findCurrent", d) < CallsAt("findHistorical", d)
       /\ CallsAt("readCurrent", d) < CallsAt("findCurrent", d)
       /\ CallsAt("findDraft", d) < CallsAt("findCurrent", d)
       /\ CallsAt("findDraft", d) < CallsAt("readCurrent", d)
       /\ CallsAt("readDraft", d) < CallsAt("findDraft", d)
       /\ CallsAt("findBase", d) < CallsAt("findDraft", d)
       /\ CallsAt("readBase", d) < CallsAt("findBase", d)
       /\ \A l \in {"readHistorical", "readCurrent", "readDraft"} :
            CallsAt("findOld", d) < CallsAt(l, d)
       /\ CallsAt("readOld", d) < CallsAt("findOld", d)
       /\ \A e \in Dirs, l \in {"findOld", "readOld"} : CallsAt("mkdir", e) < CallsAt(l, d)
       /\ CallsAt("check", d) < CallsAt("mkdir", d)
       /\ CallsAt("unlink", d) < CallsAt("check", d)
       /\ CallsAt("open", d) < CallsAt("check", d)
       /\ CallsAt("open", d) < CallsAt("unlink", d)
       /\ CallsAt("bytes", d) < CallsAt("open", d)
       /\ \A e \in Dirs, l \in {"probe", "readDraft"} : CallsAt("rmCheck", e) < CallsAt(l, d)
       /\ \A e \in Dirs : CallsAt("rmCheck", e) < CallsAt("bytes", "current")
       /\ CallsAt("rmFile", d) < CallsAt("rmCheck", d)
       /\ CallsAt("rmDir", d) = CallsAt("rmFile", d)
       /\ \A e \in Ids, l \in RemoveLabels : CallsAt("mkdir", e) < CallsAt(l, d)
BY NamesAreDistinct DEF CallsAt, CallsFrom, Labels, ReadLabels, FindLabels, WriteLabels, RemoveLabels, Ended, Dirs

\* The pending call of r has returned: what comes next decides.
LEMMA NextCall ==
  ASSUME LocalTypes, NEW r \in Requests, NEW l, Goto(r, l), NEW d, target'[r] = d,
         CallsAt(l, d) < CallsAt(pc[r], target[r])
  PROVE  Closer(r)
<1>1. pc'[r] = l
  BY DEF Goto
<1> QED
  BY <1>1, CallsLeftAt DEF Closer

\* The request is answered.
LEMMA AnsweredIsCloser ==
  ASSUME LocalTypes, NEW r \in Requests, InFlight(r), NEW o \in Ended, NEW a, End(r, o, a)
  PROVE  Closer(r)
<1>1. Goto(r, o) /\ target'[r] = "draft" /\ "draft" \in Dirs
  BY DEF End, Dirs
<1>2. pc[r] \in Labels \ ({"idle"} \cup Ended) /\ target[r] \in Dirs
  BY DEF InFlight
<1> QED
  BY <1>1, <1>2, CallsInOrder, NextCall

\* The next call is for the same directory.
LEMMA JustGoingIsCloser ==
  ASSUME LocalTypes, NEW r \in Requests, NEW l, JustGoto(r, l),
         CallsAt(l, target[r]) < CallsAt(pc[r], target[r])
  PROVE  Closer(r)
<1>1. Goto(r, l) /\ target'[r] = target[r]
  BY DEF JustGoto
<1> QED
  BY <1>1, NextCall

\* GetPolicyByIdAsync returns.
LEMMA ReturnIsCloser ==
  ASSUME LocalTypes, NEW r \in Requests, NEW p, Return(r, p),
         pc[r] \in {"readHistorical", "readCurrent", "readDraft"}
  PROVE  Closer(r)
<1>1. target[r] \in Dirs /\ InFlight(r) /\ "done" \in Ended
  BY DEF InFlight, Ended
<1>2. CASE Goto(r, "findOld") /\ target' = target
  BY <1>1, <1>2, CallsInOrder, NextCall
<1>3. CASE End(r, "done", p)
  BY <1>1, <1>3, AnsweredIsCloser
<1> QED
  BY <1>2, <1>3 DEF Return

\* A write begins.
LEMMA StartWriteIsCloser ==
  ASSUME LocalTypes, NEW r \in Requests, NEW d \in Dirs, NEW p, StartWrite(r, d, p),
         CallsAt("mkdir", d) < CallsAt(pc[r], target[r])
  PROVE  Closer(r)
<1>1. Goto(r, "mkdir") /\ target'[r] = d
  BY DEF StartWrite
<1> QED
  BY <1>1, NextCall

\* A removal begins.
LEMMA StartRemoveIsCloser ==
  ASSUME LocalTypes, NEW r \in Requests, NEW d \in Dirs, StartRemove(r, d),
         CallsAt("rmCheck", d) < CallsAt(pc[r], target[r])
  PROVE  Closer(r)
<1>1. Goto(r, "rmCheck") /\ target'[r] = d
  BY DEF StartRemove
<1> QED
  BY <1>1, NextCall

\* The calls that look for policies.
LEMMA DownloadIsCloser ==
  ASSUME IInv, NEW r \in Requests, Download(r)
  PROVE  Closer(r)
<1>1. LocalTypes /\ target[r] \in Dirs /\ LocalOK(r) /\ "done" \in Ended
  BY DEF IInv, LocalsOK, Ended
<1>2. InFlight(r)
  BY DEF Download, FindHistorical, NotHistorical, ReadHistorical, FindCurrent, NoCurrent,
         ReadCurrent, FindDraft, NoDraft, ReadDraft, FindBase, NoBase, ReadBase, FindOld, NoOld,
         ReadOld, Find, Misses, Reads, InFlight, Ended
<1>3. CASE FindHistorical(r) \/ NotHistorical(r) \/ FindCurrent(r) \/ FindDraft(r) \/ NoDraft(r)
           \/ FindBase(r) \/ FindOld(r)
  <2>1. PICK l : /\ JustGoto(r, l)
                 /\ <<pc[r], l>> \in
                      {<<"findHistorical", "readHistorical">>, <<"findHistorical", "findCurrent">>,
                       <<"findCurrent", "readCurrent">>, <<"findDraft", "readDraft">>,
                       <<"findDraft", "findBase">>, <<"findBase", "readBase">>,
                       <<"findOld", "readOld">>}
    BY <1>3 DEF FindHistorical, NotHistorical, FindCurrent, FindDraft, NoDraft, FindBase, FindOld,
                Find, Misses
  <2>2. CallsAt(l, target[r]) < CallsAt(pc[r], target[r])
    BY <1>1, <2>1, CallsInOrder
  <2> QED
    BY <1>1, <2>1, <2>2, JustGoingIsCloser
<1>4. CASE ReadHistorical(r)
  BY <1>1, <1>4, ReturnIsCloser DEF ReadHistorical, Reads
<1>5. CASE NoCurrent(r)
  <2>1. CASE End(r, "done", Null)
    BY <1>1, <1>2, <2>1, AnsweredIsCloser
  <2>2. CASE JustGoto(r, "findDraft")
    BY <1>1, <1>5, <2>2, CallsInOrder, JustGoingIsCloser DEF NoCurrent, Misses
  <2> QED
    BY <1>5, <2>1, <2>2 DEF NoCurrent
<1>6. CASE ReadCurrent(r)
  <2>1. pc[r] = "readCurrent"
    BY <1>6 DEF ReadCurrent, Reads
  <2>2. CASE End(r, "done", store["current"])
    BY <1>1, <1>2, <2>2, AnsweredIsCloser
  <2>3. CASE Return(r, store["current"])
    BY <1>1, <2>1, <2>3, ReturnIsCloser
  <2>4. CASE JustGoto(r, "findDraft")
    BY <1>1, <2>1, <2>4, CallsInOrder, JustGoingIsCloser
  <2> QED
    BY <1>6, <2>2, <2>3, <2>4 DEF ReadCurrent
<1>7. CASE ReadDraft(r)
  <2>1. pc[r] = "readDraft" /\ "draft" \in Dirs
    BY <1>7 DEF ReadDraft, Reads, Dirs
  <2>2. CASE \E a : End(r, "done", a)
    BY <1>1, <1>2, <2>2, AnsweredIsCloser
  <2>3. CASE Return(r, store["draft"])
    BY <1>1, <2>1, <2>3, ReturnIsCloser
  <2>4. CASE StartRemove(r, "draft")
    BY <1>1, <2>1, <2>4, CallsInOrder, StartRemoveIsCloser
  <2> QED
    BY <1>7, <2>2, <2>3, <2>4 DEF ReadDraft
<1>8. CASE NoBase(r) \/ ReadBase(r)
  BY <1>1, <1>2, <1>8, AnsweredIsCloser DEF NoBase, ReadBase
<1>9. CASE NoOld(r)
  <2>1. pc[r] = "findOld" /\ StartWrite(r, "current", AsCurrent(found[r])) /\ "current" \in Dirs
    BY <1>9 DEF NoOld, Misses, Dirs
  <2> QED
    BY <1>1, <2>1, CallsInOrder, StartWriteIsCloser
<1>10. CASE ReadOld(r)
  <2>1. pc[r] = "readOld" /\ Goto(r, "mkdir") /\ target'[r] = "current" /\ "current" \in Dirs
    BY <1>1, <1>10 DEF ReadOld, Reads, Dirs
  <2> QED
    BY <1>1, <2>1, CallsInOrder, NextCall
<1> QED
  BY <1>3, <1>4, <1>5, <1>6, <1>7, <1>8, <1>9, <1>10 DEF Download

\* PublishAsync goes on to archive what it replaced; DeleteAsync is done.
LEMMA AfterRemoveIsCloser ==
  ASSUME IInv, NEW r \in Requests, AfterRemove(r), pc[r] \in RemoveLabels
  PROVE  Closer(r)
<1>1. LocalTypes /\ target[r] \in Dirs /\ InFlight(r) /\ "done" \in Ended
  BY DEF IInv, LocalsOK, InFlight, RemoveLabels, Ended
<1>2. CASE op[r] = "Publish"
  <2>1. PICK p \in Archived(r) : StartWrite(r, p.id, p)
    BY <1>2 DEF AfterRemove
  <2>2. p.id \in Ids /\ p.id \in Dirs
    <3>1. p \in Policies
      BY <1>1, ArchivedFits
    <3> QED
      BY <3>1 DEF Policies, Dirs
  <2> QED
    BY <1>1, <2>1, <2>2, CallsInOrder, StartWriteIsCloser
<1>3. CASE op[r] # "Publish"
  BY <1>1, <1>3, AnsweredIsCloser DEF AfterRemove
<1> QED
  BY <1>2, <1>3

\* The calls that write and delete.
LEMMA ChangeIsCloser ==
  ASSUME IInv, NEW r \in Requests, Change(r)
  PROVE  Closer(r)
<1>1. LocalTypes /\ target[r] \in Dirs /\ LocalOK(r) /\ "done" \in Ended
  BY DEF IInv, LocalsOK, Ended
<1>2. CASE MakeDirectory(r) \/ CheckFile(r) \/ UnlinkOld(r) \/ OpenNew(r)
  <2>1. PICK l : /\ JustGoto(r, l)
                 /\ <<pc[r], l>> \in
                      {<<"mkdir", "check">>, <<"check", "unlink">>, <<"check", "open">>,
                       <<"unlink", "open">>, <<"open", "bytes">>}
    BY <1>2 DEF MakeDirectory, CheckFile, UnlinkOld, OpenNew
  <2>2. CallsAt(l, target[r]) < CallsAt(pc[r], target[r])
    BY <1>1, <2>1, CallsInOrder
  <2> QED
    BY <1>1, <2>1, <2>2, JustGoingIsCloser
<1>3. CASE WriteData(r)
  <2>1. pc[r] = "bytes" /\ InFlight(r)
    BY <1>3 DEF WriteData, InFlight, Ended
  <2>2. CASE op[r] = "Publish" /\ target[r] = "current"
    <3>1. StartRemove(r, Source(r)) /\ Source(r) \in Dirs
      BY <1>1, <1>3, <2>1, <2>2 DEF WriteData, AfterWrite, Source, LocalOK, Dirs, ById
    <3> QED
      BY <1>1, <2>1, <2>2, <3>1, CallsInOrder, StartRemoveIsCloser
  <2>3. CASE ~(op[r] = "Publish" /\ target[r] = "current")
    BY <1>1, <1>3, <2>1, <2>3, AnsweredIsCloser DEF WriteData, AfterWrite
  <2> QED
    BY <2>2, <2>3
<1>4. CASE Probe(r)
  <2>1. pc[r] = "probe" /\ arg[r] \in Dirs
    BY <1>1, <1>4 DEF Probe, LocalOK, ById, Dirs
  <2>2. CASE StartRemove(r, arg[r])
    BY <1>1, <2>1, <2>2, CallsInOrder, StartRemoveIsCloser
  <2>3. CASE JustGoto(r, "findDraft")
    BY <1>1, <2>1, <2>3, CallsInOrder, JustGoingIsCloser
  <2> QED
    BY <1>4, <2>2, <2>3 DEF Probe
<1>5. CASE CheckDirectory(r)
  <2>1. pc[r] = "rmCheck" /\ pc[r] \in RemoveLabels
    BY <1>5 DEF CheckDirectory, RemoveLabels
  <2>2. CASE JustGoto(r, "rmFile")
    BY <1>1, <2>1, <2>2, CallsInOrder, JustGoingIsCloser
  <2>3. CASE AfterRemove(r)
    BY <2>1, <2>3, AfterRemoveIsCloser
  <2> QED
    BY <1>5, <2>2, <2>3 DEF CheckDirectory
<1>6. CASE RemoveFile(r)
  <2>1. /\ pc[r] = "rmFile" /\ pc'[r] = "rmDir"
        /\ target'[r] = target[r] /\ tries'[r] = tries[r]
    BY <1>1, <1>6 DEF RemoveFile, locals
  <2>2. CallsLeft(r)' = CallsLeft(r)
    BY <1>1, <2>1, CallsInOrder, CallsLeftAt
  <2>3. tries[r] \in 0 .. MaxRetries /\ MaxRetries \in Nat
    BY ParametersFit DEF IInv, TypeOK
  <2>4. AttemptsLeft(r)' \in 0 .. AttemptsLeft(r) - 1
    BY <2>1, <2>3 DEF AttemptsLeft
  <2> QED
    BY <2>2, <2>4 DEF Closer
<1>7. CASE RemoveEmptied(r)
  BY <1>7, AfterRemoveIsCloser DEF RemoveEmptied, RemoveLabels
<1> QED
  BY <1>2, <1>3, <1>4, <1>5, <1>6, <1>7 DEF Change

\* A call that throws has cost an attempt.
LEMMA ThrowIsCloser ==
  ASSUME IInv, NEW r \in Requests, Retry(r) \/ GiveUp(r)
  PROVE  Closer(r)
<1>1. LocalTypes /\ target[r] \in Dirs /\ "failed" \in Ended
  BY DEF IInv, LocalsOK, Ended
<1>2. InFlight(r)
  BY DEF Retry, GiveUp, CallThrows, ParseThrows, ReadLabels, InFlight, Ended
<1>3. CASE Retry(r)
  <2>1. /\ pc'[r] = IF pc[r] = "rmDir" THEN "rmFile" ELSE pc[r]
        /\ target'[r] = target[r] /\ tries'[r] = tries[r] + 1
    BY <1>1, <1>3 DEF Retry, Attempts
  <2>2. CallsLeft(r)' = CallsLeft(r)
    BY <1>1, <2>1, CallsInOrder, CallsLeftAt
  <2>3. tries[r] \in 0 .. MaxRetries /\ tries[r] < MaxRetries /\ MaxRetries \in Nat
    BY <1>3, ParametersFit DEF Retry, RetriesLeft, IInv, TypeOK
  <2>4. AttemptsLeft(r)' \in 0 .. AttemptsLeft(r) - 1
    BY <2>1, <2>3 DEF AttemptsLeft
  <2> QED
    BY <2>2, <2>4 DEF Closer
<1>4. CASE GiveUp(r)
  BY <1>1, <1>2, <1>4, AnsweredIsCloser DEF GiveUp
<1> QED
  BY <1>3, <1>4

\* A call of one request leaves what the others still have to do.
LEMMA OthersKeepTheirWork ==
  ASSUME IInv, NEW q \in Requests, Arrive(q) \/ Work(q), NEW r \in Requests, r # q
  PROVE  CallsLeft(r)' = CallsLeft(r) /\ AttemptsLeft(r)' = AttemptsLeft(r)
<1>1. LocalTypes
  BY DEF IInv, LocalsOK
<1>2. pc'[r] = pc[r] /\ target'[r] = target[r] /\ tries'[r] = tries[r]
  <2>1. ASSUME NEW l, Goto(q, l) PROVE pc'[r] = pc[r] /\ tries'[r] = tries[r]
    BY <1>1, <2>1 DEF Goto
  <2>2. ASSUME NEW o, NEW a, End(q, o, a) PROVE <1>2!:
    BY <1>1, <2>1, <2>2 DEF End
  <2>3. ASSUME NEW l, JustGoto(q, l) PROVE <1>2!:
    BY <2>1, <2>3 DEF JustGoto
  <2>4. ASSUME NEW d, NEW p, StartWrite(q, d, p) PROVE <1>2!:
    BY <1>1, <2>1, <2>4 DEF StartWrite
  <2>5. ASSUME NEW d, StartRemove(q, d) PROVE <1>2!:
    BY <1>1, <2>1, <2>5 DEF StartRemove
  <2>6. ASSUME NEW p, Return(q, p) PROVE <1>2!:
    BY <2>1, <2>2, <2>6 DEF Return
  <2>7. CASE Arrive(q)
    BY <2>1, <2>7 DEF Arrive, GetDraft, GetCurrent, GetPolicyById, Publish, Delete, SaveAsDraft, Begin
  <2>8. CASE Download(q)
    BY <1>1, <2>1, <2>2, <2>3, <2>4, <2>5, <2>6, <2>8
    DEF Download, FindHistorical, NotHistorical, ReadHistorical, FindCurrent, NoCurrent,
        ReadCurrent, FindDraft, NoDraft, ReadDraft, FindBase, NoBase, ReadBase, FindOld, NoOld,
        ReadOld, Find
  <2>9. CASE Change(q)
    BY <1>1, <2>2, <2>3, <2>4, <2>5, <2>9
    DEF Change, MakeDirectory, CheckFile, UnlinkOld, OpenNew, WriteData, AfterWrite, Probe,
        CheckDirectory, RemoveFile, RemoveEmptied, AfterRemove, locals
  <2>10. CASE Retry(q) \/ GiveUp(q)
    BY <1>1, <2>2, <2>10 DEF Retry, GiveUp
  <2> QED
    BY <2>7, <2>8, <2>9, <2>10 DEF Work
<1> QED
  BY <1>2, CallsLeftAt DEF AttemptsLeft

\* PolicyService and FileStore.Retry: a request makes a bounded number of
\* attempts at a bounded number of calls, whatever the others do to its files.
THEOREM BoundedWork == Spec => WorkIsBounded
<1> DEFINE Leads ==
      \A r \in Requests :
        /\ Work(r) => Closer(r)
        /\ InFlight(r) /\ faults' = faults /\ ~Work(r) =>
             CallsLeft(r)' = CallsLeft(r) /\ AttemptsLeft(r)' = AttemptsLeft(r)
<1>1. ASSUME IInv, Next PROVE Leads
  <2> SUFFICES ASSUME NEW r \in Requests
               PROVE  /\ Work(r) => Closer(r)
                      /\ InFlight(r) /\ faults' = faults /\ ~Work(r) =>
                           CallsLeft(r)' = CallsLeft(r) /\ AttemptsLeft(r)' = AttemptsLeft(r)
    OBVIOUS
  <2>1. Work(r) => Closer(r)
    BY <1>1, DownloadIsCloser, ChangeIsCloser, ThrowIsCloser DEF Work
  <2>2. ASSUME InFlight(r), faults' = faults, ~Work(r)
        PROVE  CallsLeft(r)' = CallsLeft(r) /\ AttemptsLeft(r)' = AttemptsLeft(r)
    <3>1. faults \in Nat
      BY <1>1, ParametersFit DEF IInv, TypeOK
    <3>2. ~Fault
      BY <2>2, <3>1 DEF Fault
    <3>3. ~Arrive(r)
      BY <2>2 DEF Arrive, GetDraft, GetCurrent, GetPolicyById, Publish, Delete, SaveAsDraft, Begin,
                  InFlight
    <3>4. CASE \E q \in Requests : Arrive(q) \/ Work(q)
      BY <1>1, <2>2, <3>3, <3>4, OthersKeepTheirWork
    <3>5. CASE UNCHANGED vars
      BY <3>5, CallsLeftAt DEF vars, locals, AttemptsLeft
    <3> QED
      BY <1>1, <3>2, <3>4, <3>5 DEF Next, IOError, WriteAgain, Crash, Terminated
  <2> QED
    BY <2>1, <2>2
<1>2. IInv /\ [Next]_vars => [Leads]_vars
  BY <1>1
<1> QED
  BY <1>2, Invariance, PTL DEF Spec, WorkIsBounded

=============================================================================
