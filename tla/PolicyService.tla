---------------------------- MODULE PolicyService ----------------------------
(***************************************************************************)
(* PolicyManagement.Business/Services/PolicyService.cs behind the          *)
(* endpoints of PolicyController.cs, several requests at a time.           *)
(*                                                                         *)
(* A policy is moved draft -> current -> historical by single file-system  *)
(* calls, with no lock, no transaction and no version check: what a        *)
(* request read may be gone when it writes.  Every request is a small      *)
(* state machine, one step per file-system call of FileStore, named in     *)
(* `pc' by the call it makes next.                                         *)
(***************************************************************************)
EXTENDS FileStore, Naturals

CONSTANTS
  Operations,   \* the endpoints clients use
  Known,        \* ids that may be on the share at first; Guid.NewGuid has the others
  DefaultBody,  \* what PolicyModel.Default says
  Null,
  MaxRetries,   \* attempts after the first (ten in the code)
  MaxFaults     \* bound on crashes and I/O errors

VARIABLES
  pc,           \* per request: the file-system call it makes next
  op,           \* the operation asked for
  arg,          \* the policy id of the query string
  found,        \* policyToPublish; at the end, the stored policy the request was
                \* about, Null if none (the answer may still be a made-up default)
  current,      \* Publish's currentPolicy, the policy it is about to replace
  target,       \* the directory being written or deleted
  data,         \* the policy being written
  tries,        \* failed attempts at the pending call
  faults        \* crashes and I/O errors so far

locals == <<op, arg, found, current, target, data, tries>>
vars == <<store, handle, pc, locals, faults>>

AllOperations ==
  {"GetDraft", "GetCurrent", "GetPolicyById", "SaveAsDraft", "Publish", "Delete"}

ASSUME ParametersFit ==
  /\ Operations \subseteq AllOperations
  /\ Known \subseteq Ids
  /\ DefaultBody \in Bodies
  /\ Null \notin Policies \cup Ids \cup AllOperations
  /\ MaxRetries \in Nat
  /\ MaxFaults \in Nat

ReadLabels == {"readHistorical", "readCurrent", "readDraft", "readBase", "readOld"}
FindLabels == {"findHistorical", "findCurrent", "findDraft", "findBase", "findOld"}
WriteLabels == {"mkdir", "check", "unlink", "open", "bytes"}
RemoveLabels == {"rmCheck", "rmFile", "rmDir"}
Ended == {"done", "failed"}
Labels == {"idle", "probe"} \cup ReadLabels \cup FindLabels \cup WriteLabels
            \cup RemoveLabels \cup Ended

\* State and type of every variable.  `found' and the other locals are Null
\* outside the method call they belong to.
TypeOK ==
  /\ FileStoreTypeOK
  /\ pc \in [Requests -> Labels]
  /\ op \in [Requests -> Operations \cup {Null}]
  /\ arg \in [Requests -> Ids \cup {Null}]
  /\ found \in [Requests -> Policies \cup {Null}]
  /\ current \in [Requests -> Policies \cup {Null}]
  /\ target \in [Requests -> Dirs]
  /\ data \in [Requests -> Policies \cup {Null}]
  /\ tries \in [Requests -> 0 .. MaxRetries]
  /\ faults \in 0 .. MaxFaults

InFlight(r) == pc[r] \notin {"idle"} \cup Ended
AtRest == \A r \in Requests : ~InFlight(r)

-----------------------------------------------------------------------------
(* Policies change type as they move. *)

AsDraft(p) == [p EXCEPT !.type = "Draft"]
AsCurrent(p) == [p EXCEPT !.type = "Current"]

\* slip: the type is left as it was
KeepType(p) == p

AsHistorical(p) == [p EXCEPT !.type = "Historical"]

\* Guid.NewGuid() makes an id that is nowhere in use.
IdsInUse ==
  LET Held(r) == {found[r], current[r], data[r]} \cap Policies
      Stored == {store[d] : d \in Dirs} \cap Policies
  IN {d \in Ids : DirectoryExists(d)}
       \cup {arg[r] : r \in Requests}
       \cup {p.id : p \in Stored \cup UNION {Held(r) : r \in Requests}}

FreshIds == Ids \ IdsInUse

\* slip: the source is taken to be the draft always
SourceIsDraft(r) == "draft"

\* Where PublishAsync found the policy, hence what it deletes afterwards.
Source(r) == IF found[r].type = "Historical" THEN arg[r] ELSE "draft"

\* slip: the new policy is archived, not the one it replaces
ArchivedNew(r) == {AsHistorical(found[r])}

\* What PublishAsync files under historical/ once the new policy is current.
Archived(r) ==
  IF current[r] = Null
  THEN [id : FreshIds, type : {"Historical"}, body : {DefaultBody}]
  ELSE {AsHistorical(current[r])}

-----------------------------------------------------------------------------
(* Control flow. *)

\* The pending call has returned; the next one is l.
Goto(r, l) ==
  /\ pc' = [pc EXCEPT ![r] = l]
  /\ tries' = [tries EXCEPT ![r] = 0]

\* The request ends and its locals with it.
End(r, outcome, answer) ==
  /\ Goto(r, outcome)
  /\ found' = [found EXCEPT ![r] = answer]
  /\ current' = [current EXCEPT ![r] = Null]
  /\ target' = [target EXCEPT ![r] = "draft"]
  /\ data' = [data EXCEPT ![r] = Null]
  /\ UNCHANGED <<op, arg>>

\* Only the program counter moves.
JustGoto(r, l) ==
  /\ Goto(r, l)
  /\ UNCHANGED <<op, arg, found, current, target, data>>

StartWrite(r, d, p) ==
  /\ Goto(r, "mkdir")
  /\ target' = [target EXCEPT ![r] = d]
  /\ data' = [data EXCEPT ![r] = p]
  /\ UNCHANGED <<op, arg, found, current>>

StartRemove(r, d) ==
  /\ Goto(r, "rmCheck")
  /\ target' = [target EXCEPT ![r] = d]
  /\ UNCHANGED <<op, arg, found, current, data>>

\* slip: the policy that is current already is published again
ReturnEven(r, p) ==
  IF op[r] = "Publish" /\ p # Null
  THEN /\ Goto(r, "findOld")
       /\ found' = [found EXCEPT ![r] = p]
       /\ UNCHANGED <<op, arg, current, target, data>>
  ELSE End(r, "done", p)

\* GetPolicyByIdAsync returns p, to the client or to PublishAsync.
Return(r, p) ==
  IF op[r] = "Publish" /\ p # Null /\ p.type # "Current"
  THEN /\ Goto(r, "findOld")
       /\ found' = [found EXCEPT ![r] = p]
       /\ UNCHANGED <<op, arg, current, target, data>>
  ELSE End(r, "done", p)

-----------------------------------------------------------------------------
(* The share at rest, before the first request: what earlier publishes and *)
(* saves can have left.  Nothing is historical before the first publish,   *)
(* and the current policy is not historical as well.                       *)

AtQuietTimes(c, d, H) ==
  /\ {p.id : p \in {c, d} \ {NoDir}} \subseteq Known
  /\ c = NoDir => H = {}
  /\ c # NoDir => c.type = "Current" /\ c.id \notin H
  /\ d # NoDir => d.type = "Draft"

Init ==
  /\ \E c, d \in {NoDir} \cup Policies, H \in SUBSET Known :
       \E body \in [H -> Bodies] :
         /\ AtQuietTimes(c, d, H)
         /\ store = [x \in Dirs |->
              CASE x = "current" -> c
                [] x = "draft" -> d
                [] x \in H -> [id |-> x, type |-> "Historical", body |-> body[x]]
                [] OTHER -> NoDir]
  /\ handle = [r \in Requests |-> Closed]
  /\ pc = [r \in Requests |-> "idle"]
  /\ op = [r \in Requests |-> Null]
  /\ arg = [r \in Requests |-> Null]
  /\ found = [r \in Requests |-> Null]
  /\ current = [r \in Requests |-> Null]
  /\ target = [r \in Requests |-> "draft"]
  /\ data = [r \in Requests |-> Null]
  /\ tries = [r \in Requests |-> 0]
  /\ faults = 0

-----------------------------------------------------------------------------
(* PolicyController: a request arrives. *)

Begin(r, o, l) ==
  /\ o \in Operations
  /\ pc[r] = "idle"
  /\ Goto(r, l)
  /\ op' = [op EXCEPT ![r] = o]
  /\ UNCHANGED <<store, handle, found, current, target, faults>>

GetDraft(r) == Begin(r, "GetDraft", "findDraft") /\ UNCHANGED <<arg, data>>

GetCurrent(r) == Begin(r, "GetCurrent", "findCurrent") /\ UNCHANGED <<arg, data>>

GetPolicyById(r) ==
  /\ Begin(r, "GetPolicyById", "findHistorical")
  /\ \E i \in Ids : arg' = [arg EXCEPT ![r] = i]
  /\ UNCHANGED data

Publish(r) ==
  /\ Begin(r, "Publish", "findHistorical")
  /\ \E i \in Ids : arg' = [arg EXCEPT ![r] = i]
  /\ UNCHANGED data

Delete(r) ==
  /\ Begin(r, "Delete", "probe")
  /\ \E i \in Ids : arg' = [arg EXCEPT ![r] = i]
  /\ UNCHANGED data

\* The client sends any policy, with any type and any id; the type is set here.
SaveAsDraft(r) ==
  /\ Begin(r, "SaveAsDraft", "mkdir")
  /\ \E p \in Policies : data' = [data EXCEPT ![r] = AsDraft(p)]
  /\ UNCHANGED arg

-----------------------------------------------------------------------------
(* InternalDownloadAsync: does the file exist, and if so read and parse it. *)

Find(r, at, d, hit) ==
  /\ pc[r] = at
  /\ FileExists(d)
  /\ JustGoto(r, hit)
  /\ UNCHANGED <<store, handle, faults>>


\* slip: a file that does not parse counts as missing
MissesUnreadable(r, at, d) ==
  /\ pc[r] = at
  /\ ~Readable(d)
  /\ UNCHANGED <<store, handle, faults>>

Misses(r, at, d) ==
  /\ pc[r] = at
  /\ ~FileExists(d)
  /\ UNCHANGED <<store, handle, faults>>

Reads(r, at, d) ==
  /\ pc[r] = at
  /\ Readable(d)
  /\ UNCHANGED <<store, handle, faults>>

\* slip: the id is not compared
AskedForAny(r, d) == TRUE

\* The policy just read is the one the request is about.
Asked(r, d) == store[d].id = arg[r]

\* GetPolicyByIdAsync: historical/{id} first, whatever id it says inside ...
FindHistorical(r) == Find(r, "findHistorical", arg[r], "readHistorical")

\* slip: the current policy is not looked at
NotHistoricalSoDraft(r) ==
  Misses(r, "findHistorical", arg[r]) /\ JustGoto(r, "findDraft")

NotHistorical(r) ==
  Misses(r, "findHistorical", arg[r]) /\ JustGoto(r, "findCurrent")
ReadHistorical(r) == Reads(r, "readHistorical", arg[r]) /\ Return(r, store[arg[r]])

\* ... then the current policy, which is also GetCurrentAsync ...
FindCurrent(r) == Find(r, "findCurrent", "current", "readCurrent")
NoCurrent(r) ==
  /\ Misses(r, "findCurrent", "current")
  /\ IF op[r] = "GetCurrent"
     THEN End(r, "done", Null)
     ELSE JustGoto(r, "findDraft")
ReadCurrent(r) ==
  /\ Reads(r, "readCurrent", "current")
  /\ CASE op[r] = "GetCurrent" -> End(r, "done", store["current"])
       [] op[r] # "GetCurrent" /\ Asked(r, "current") ->
            Return(r, store["current"])
       [] OTHER -> JustGoto(r, "findDraft")

\* ... then the draft: GetDraftAsync, which DeleteAsync calls as well.
FindDraft(r) == Find(r, "findDraft", "draft", "readDraft")
NoDraft(r) == Misses(r, "findDraft", "draft") /\ JustGoto(r, "findBase")
ReadDraft(r) ==
  /\ Reads(r, "readDraft", "draft")
  /\ CASE op[r] = "GetDraft" -> End(r, "done", store["draft"])
       [] op[r] # "GetDraft" /\ ~Asked(r, "draft") -> End(r, "done", Null)
       [] op[r] = "Delete" /\ Asked(r, "draft") -> StartRemove(r, "draft")
       [] OTHER -> Return(r, store["draft"])

\* Without a draft GetDraftAsync makes one of the current policy: under a new
\* id, so never the one a request by id asked for.
FindBase(r) == Find(r, "findBase", "current", "readBase")
NoBase(r) == Misses(r, "findBase", "current") /\ End(r, "done", Null)
ReadBase(r) == Reads(r, "readBase", "current") /\ End(r, "done", Null)

\* PublishAsync reads the current policy before it replaces it.
FindOld(r) == Find(r, "findOld", "current", "readOld")
NoOld(r) ==
  Misses(r, "findOld", "current") /\ StartWrite(r, "current", AsCurrent(found[r]))
ReadOld(r) ==
  /\ Reads(r, "readOld", "current")
  /\ Goto(r, "mkdir")
  /\ current' = [current EXCEPT ![r] = store["current"]]
  /\ target' = [target EXCEPT ![r] = "current"]
  /\ data' = [data EXCEPT ![r] = AsCurrent(found[r])]
  /\ UNCHANGED <<op, arg, found>>

-----------------------------------------------------------------------------
(* FileStore.WriteAsync. *)

MakeDirectory(r) ==
  /\ pc[r] = "mkdir"
  /\ CreateDirectory(target[r])
  /\ JustGoto(r, "check")
  /\ UNCHANGED faults

CheckFile(r) ==
  /\ pc[r] = "check"
  /\ JustGoto(r, IF FileExists(target[r]) THEN "unlink" ELSE "open")
  /\ UNCHANGED <<store, handle, faults>>

UnlinkOld(r) ==
  /\ pc[r] = "unlink"
  /\ DeleteFile(target[r])
  /\ JustGoto(r, "open")
  /\ UNCHANGED faults

OpenNew(r) ==
  /\ pc[r] = "open"
  /\ OpenForWrite(r, target[r])
  /\ JustGoto(r, "bytes")
  /\ UNCHANGED faults

\* After its new current policy PublishAsync deletes the source; any other
\* write is the last thing its request does.
AfterWrite(r) ==
  IF op[r] = "Publish" /\ target[r] = "current"
  THEN StartRemove(r, Source(r))
  ELSE End(r, "done", IF op[r] = "Publish" THEN found[r] ELSE data[r])

WriteData(r) ==
  /\ pc[r] = "bytes"
  /\ WriteBytes(r, data[r])
  /\ AfterWrite(r)
  /\ UNCHANGED faults

(* FileStore.DeleteAsync. *)

\* DeleteAsync of PolicyService asks whether historical/{id} exists.
Probe(r) ==
  /\ pc[r] = "probe"
  /\ IF DirectoryExists(arg[r]) THEN StartRemove(r, arg[r]) ELSE JustGoto(r, "findDraft")
  /\ UNCHANGED <<store, handle, faults>>

AfterRemove(r) ==
  IF op[r] = "Publish"
  THEN \E p \in Archived(r) : StartWrite(r, p.id, p)
  ELSE End(r, "done", Null)

CheckDirectory(r) ==
  /\ pc[r] = "rmCheck"
  /\ IF DirectoryExists(target[r]) THEN JustGoto(r, "rmFile") ELSE AfterRemove(r)
  /\ UNCHANGED <<store, handle, faults>>

\* slip: the file is deleted, its directory stays
RemoveFileOnly(r) ==
  /\ pc[r] = "rmFile"
  /\ EmptyDirectory(target[r])
  /\ AfterRemove(r)
  /\ UNCHANGED faults

RemoveFile(r) ==
  /\ pc[r] = "rmFile"
  /\ EmptyDirectory(target[r])
  /\ pc' = [pc EXCEPT ![r] = "rmDir"]
  /\ UNCHANGED <<locals, faults>>

RemoveEmptied(r) ==
  /\ pc[r] = "rmDir"
  /\ RemoveDirectory(target[r])
  /\ AfterRemove(r)
  /\ UNCHANGED faults

-----------------------------------------------------------------------------
(* FileStore.Retry: a call that throws is tried again at once, and in the   *)
(* end the exception leaves through the controller.                         *)

ReadFrom(r) ==
  CASE pc[r] = "readHistorical" -> arg[r]
    [] pc[r] = "readDraft" -> "draft"
    [] OTHER -> "current"

\* The file-system call itself throws.
CallThrows(r) ==
  \/ pc[r] \in ReadLabels /\ store[ReadFrom(r)] = Blank
  \/ pc[r] \in {"unlink", "open", "rmFile", "rmDir"} /\ ~DirectoryExists(target[r])
  \/ pc[r] = "rmDir" /\ FileExists(target[r])

\* Outside Retry: there is no file any more, or what it holds does not parse.
ParseThrows(r) ==
  pc[r] \in ReadLabels /\ store[ReadFrom(r)] \in {NoDir, NoFile, Garbled}

\* slip: retries are not limited
RetryForever(r) == TRUE

RetriesLeft(r) == tries[r] < MaxRetries

\* slip: failed attempts are not counted
AttemptsUncounted(r) == tries[r]

Attempts(r) == tries[r] + 1

\* The recursive delete starts again from the files.
Retry(r) ==
  /\ CallThrows(r)
  /\ RetriesLeft(r)
  /\ tries' = [tries EXCEPT ![r] = Attempts(r)]
  /\ pc' = [pc EXCEPT ![r] = IF @ = "rmDir" THEN "rmFile" ELSE @]
  /\ UNCHANGED <<store, handle, op, arg, found, current, target, data, faults>>

GiveUp(r) ==
  /\ ParseThrows(r) \/ (CallThrows(r) /\ ~RetriesLeft(r))
  /\ End(r, "failed", Null)
  /\ UNCHANGED <<store, handle, faults>>

-----------------------------------------------------------------------------
(* Crashes and I/O errors, MaxFaults of them. *)

\* What interrupted writes leave in a file: nothing yet, or half a document.
LeftBy(R) ==
  {[d \in Dirs |-> IF d \in half THEN Garbled ELSE store[d]] :
     half \in SUBSET ({handle[r] : r \in R} \cap Dirs)}

Fault ==
  /\ faults < MaxFaults
  /\ faults' = faults + 1

\* An error that outlasts every attempt, or a client that hangs up on a read.
IOError(r) ==
  /\ Fault
  /\ InFlight(r)
  /\ store' \in LeftBy({r})
  /\ handle' = [handle EXCEPT ![r] = Closed]
  /\ End(r, "failed", Null)

\* A write that fails once is made again from the start, by its path.
WriteAgain(r) ==
  /\ Fault
  /\ pc[r] = "bytes"
  /\ store' \in LeftBy({r})
  /\ handle' = [handle EXCEPT ![r] = Closed]
  /\ pc' = [pc EXCEPT ![r] = "open"]
  /\ UNCHANGED locals

\* The process dies; what is on the share is what its requests had done.
Crash ==
  LET Hit == {r \in Requests : InFlight(r)} IN
  /\ Fault
  /\ Hit # {}
  /\ store' \in LeftBy(Hit)
  /\ handle' = [r \in Requests |-> Closed]
  /\ pc' = [r \in Requests |-> IF r \in Hit THEN "failed" ELSE pc[r]]
  /\ found' = [r \in Requests |-> IF r \in Hit THEN Null ELSE found[r]]
  /\ current' = [r \in Requests |-> Null]
  /\ target' = [r \in Requests |-> "draft"]
  /\ data' = [r \in Requests |-> Null]
  /\ tries' = [r \in Requests |-> 0]
  /\ UNCHANGED <<op, arg>>

-----------------------------------------------------------------------------
Arrive(r) ==
  \/ GetDraft(r) \/ GetCurrent(r) \/ GetPolicyById(r)
  \/ Publish(r) \/ Delete(r) \/ SaveAsDraft(r)

Download(r) ==
  \/ FindHistorical(r) \/ NotHistorical(r) \/ ReadHistorical(r)
  \/ FindCurrent(r) \/ NoCurrent(r) \/ ReadCurrent(r)
  \/ FindDraft(r) \/ NoDraft(r) \/ ReadDraft(r)
  \/ FindBase(r) \/ NoBase(r) \/ ReadBase(r)
  \/ FindOld(r) \/ NoOld(r) \/ ReadOld(r)

Change(r) ==
  \/ MakeDirectory(r) \/ CheckFile(r) \/ UnlinkOld(r) \/ OpenNew(r) \/ WriteData(r)
  \/ Probe(r) \/ CheckDirectory(r) \/ RemoveFile(r) \/ RemoveEmptied(r)

\* One thread of the server, working on one request.
Work(r) == Download(r) \/ Change(r) \/ Retry(r) \/ GiveUp(r)

\* Every request has come and been answered.
Terminated == (\A r \in Requests : pc[r] \in Ended) /\ UNCHANGED vars

Next ==
  \/ \E r \in Requests : Arrive(r) \/ Work(r) \/ IOError(r) \/ WriteAgain(r)
  \/ Crash
  \/ Terminated

Spec == Init /\ [][Next]_vars

\* PublishAsync and DeleteAsync move and remove policies.
Moving(r) == InFlight(r) /\ op[r] \in {"Publish", "Delete"}

\* Clients that leave one mover at a time, whatever else is going on ...
OneMover == \A r, q \in Requests : Moving(r) /\ Moving(q) => r = q
OneMoverSpec == Init /\ [][Next /\ OneMover']_vars

\* ... and clients that wait for every answer.
OneRequest == \A r, q \in Requests : InFlight(r) /\ InFlight(q) => r = q
SerialSpec == Init /\ [][Next /\ OneRequest']_vars

\* The thread pool keeps running every request it has accepted.
FairSpec == Spec /\ \A r \in Requests : WF_vars(Work(r))

-----------------------------------------------------------------------------
(* What holds however requests interleave. *)

Fits(p, d) ==
  /\ d = "draft" => p.type = "Draft"
  /\ d = "current" => p.type = "Current"
  /\ d \in Ids => p.type = "Historical" /\ p.id = d

\* Every readable policy is where its type and id say, through all moves,
\* races and crashes: draft/ holds drafts, current/ the current policy and
\* historical/{id} a historical policy with that very id (lookups by id
\* trust the directory name).
ContentMatchesPlace == \A d \in Dirs : Readable(d) => Fits(store[d], d)

\* Without I/O errors a directory is without a complete file only as long as
\* some request is still working on that directory: no interleaving of
\* writes and deletes leaves a missing or blank policy.json behind.
GapHasAWriter ==
  faults = 0 =>
    \A d \in Dirs : store[d] \in {NoFile, Blank} =>
      \E r \in Requests : target[r] = d /\ pc[r] \in WriteLabels \cup RemoveLabels

\* A publisher that has got past reading the policy it is to replace.
Replacing(r) ==
  op[r] = "Publish" /\ pc[r] \in WriteLabels \cup RemoveLabels

\* A current policy that a crash left blank or garbled stays so: reading it
\* throws in every request that would replace it, and nothing deletes
\* current/.  Only a publish that had got past reading it before can heal it.
TornCurrentStays ==
  [][ store["current"] \in {Blank, Garbled} /\ (\A r \in Requests : ~Replacing(r))
        => /\ store'["current"] = store["current"]
           /\ \A r \in Requests : ~Replacing(r)' ]_vars

\* Every accepted request is answered, whatever the others do to its files.
EveryRequestAnswered == \A r \in Requests : InFlight(r) ~> ~InFlight(r)

\* How many different calls are still before a request that is about to make l.
CallsFrom ==
  [probe |-> 22, findHistorical |-> 21, readHistorical |-> 20, findCurrent |-> 19,
   readCurrent |-> 18, findDraft |-> 17, readDraft |-> 16, findBase |-> 15, readBase |-> 14,
   findOld |-> 14, readOld |-> 13, rmCheck |-> 7, rmFile |-> 6, rmDir |-> 6,
   mkdir |-> 5, check |-> 4, unlink |-> 3, open |-> 2, bytes |-> 1]

\* The current policy is written before its source is deleted and the old one archived.
CallsLeft(r) ==
  IF ~InFlight(r) THEN 0
  ELSE CallsFrom[pc[r]] + (IF pc[r] \in WriteLabels /\ target[r] = "current" THEN 7 ELSE 0)

\* A recursive delete makes two calls in one attempt.
AttemptsLeft(r) == 2 * (MaxRetries - tries[r]) + (IF pc[r] = "rmDir" THEN 0 ELSE 1)

Closer(r) ==
  \/ CallsLeft(r)' < CallsLeft(r)
  \/ CallsLeft(r)' = CallsLeft(r) /\ AttemptsLeft(r)' \in 0 .. AttemptsLeft(r) - 1

\* What bounds the work of a request, whatever the others do to its files: each
\* call it makes brings it closer to its end, by one call less to make or one
\* attempt less at the same one, and nobody else's call takes it back.
WorkIsBounded ==
  [][ \A r \in Requests :
        /\ Work(r) => Closer(r)
        /\ InFlight(r) /\ faults' = faults /\ ~Work(r) =>
             CallsLeft(r)' = CallsLeft(r) /\ AttemptsLeft(r)' = AttemptsLeft(r) ]_vars

-----------------------------------------------------------------------------
(* What clients may rely on. *)

HoldsPolicy(d, i) == Readable(d) /\ store[d].id = i

\* A published policy is the current one or in the history.
Kept(i) == HoldsPolicy("current", i) \/ HoldsPolicy(i, i)

\* Once nothing is going on, what was published and not deleted since is
\* still there: publishing a policy never throws away an earlier one.
PublishedIsKept ==
  AtRest /\ faults = 0 =>
    \A r \in Requests : op[r] = "Publish" /\ pc[r] = "done" /\ found[r] # Null =>
      \/ Kept(arg[r])
      \/ \E q \in Requests : op[q] = "Delete" /\ arg[q] = arg[r]

\* A publish archives the policy it has read as the current one: when it is about
\* to unlink the current policy of a publish that was answered before, that is
\* the policy it has read.
ReplacedIsArchived ==
  \A r, q \in Requests :
    /\ op[q] = "Publish" /\ pc[q] = "done" /\ HoldsPolicy("current", arg[q])
    /\ op[r] = "Publish" /\ pc[r] = "unlink" /\ target[r] = "current"
    /\ current[r] # Null /\ arg[r] # arg[q]
    => current[r].id = arg[q]

\* Nothing is both current and historical: PublishAsync deletes the source it
\* published from and archives what it replaced.
CurrentNotInHistory ==
  AtRest /\ faults = 0 =>
    \A i \in Ids : ~(HoldsPolicy("current", i) /\ DirectoryExists(i))

\* Once nothing is going on, a draft a client has saved is still the draft, or
\* was published with the settings it was saved with, unless a later save
\* replaced it or it was deleted by its id.
SavedDraftIsKept ==
  AtRest /\ faults = 0 =>
    \A r \in Requests : op[r] = "SaveAsDraft" /\ pc[r] = "done" =>
      \/ \E d \in Dirs : /\ HoldsPolicy(d, found[r].id)
                         /\ store[d].body = found[r].body
      \/ \E q \in Requests \ {r} : \/ op[q] = "SaveAsDraft"
                                   \/ op[q] = "Delete" /\ arg[q] = found[r].id

\* Publishing the policy that is current already does nothing.
PublishCurrentDoesNothing ==
  \A r \in Requests : op[r] = "Publish" /\ pc[r] = "findOld" =>
    ~HoldsPolicy("current", arg[r])

\* A client that waits for every answer never gets an error, and finds the
\* share clean after each answer: no directory without its policy.
OneAtATimeIsClean ==
  AtRest /\ faults = 0 =>
    /\ \A r \in Requests : pc[r] # "failed"
    /\ \A d \in Dirs : store[d] = NoDir \/ Readable(d)

\* A request by id finds a policy that publishing moves about: if it was told
\* there is none, and nobody has saved a draft since, there is none still.
LookupFinds ==
  \A r \in Requests :
    /\ op[r] = "GetPolicyById" /\ pc[r] = "done" /\ found[r] = Null
    /\ \A q \in Requests : op[q] # "SaveAsDraft"
    => \A d \in Dirs : ~HoldsPolicy(d, arg[r])

-----------------------------------------------------------------------------
(* What a crash or an I/O error can cost. *)

\* The policies with id i that can be read back from the share.
Copies(i) ==
  {store[d] : d \in {x \in Dirs : HoldsPolicy(x, i)}}

\* With one request at a time, the last copy of a policy leaves the share
\* only when it is deleted by its id, when it is the draft and another one is
\* being saved, or when it is the current policy a publish is replacing, which
\* holds it in memory until it has archived it.  No other step ends a policy,
\* after a crash neither.
OnlyCopyIsKept ==
  [][ \A i \in Ids : Copies(i) # {} /\ Copies(i)' = {} =>
        \E r \in Requests :
          \/ op[r] = "Delete" /\ arg[r] = i /\ pc[r] = "rmFile"
          \/ op[r] = "SaveAsDraft" /\ pc[r] = "unlink"
          \/ /\ op[r] = "Publish" /\ pc[r] = "unlink"
             /\ current[r] # Null /\ current[r].id = i ]_vars

=============================================================================
