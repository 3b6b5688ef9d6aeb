------------------------------ MODULE FileStore ------------------------------
(***************************************************************************)
(* PolicyManagement.Business/Store/FileStore.cs over the mounted share     *)
(* /mnt/policies.  The share holds the directories current, draft and      *)
(* historical/{id}, each with one file policy.json, so a directory and its *)
(* file together are one entry of `store'.                                 *)
(*                                                                         *)
(* The operators here are the single file-system calls FileStore makes;    *)
(* a caller takes them one per step, because nothing in the code makes two *)
(* of them atomic.  The guard of an operator is when the call does not     *)
(* throw; what the caller does about a call that throws is his business    *)
(* (PolicyService!Retry and GiveUp).                                       *)
(***************************************************************************)
CONSTANTS
  Requests,   \* HTTP requests, each served on a thread of its own
  Ids,        \* policy ids (Guid); an id also names the directory historical/{id}
  Bodies,     \* what a policy says: its Adaption and NCFS settings
  NoDir,      \* the directory does not exist
  NoFile,     \* the directory exists, policy.json does not
  Blank,      \* policy.json has been created or truncated, its bytes are not written
  Garbled,    \* policy.json holds bytes that are no JSON document
  Closed,     \* a request has no file open for writing
  Orphan      \* the file it has open was unlinked meanwhile

VARIABLES
  store,      \* what each directory of the share holds
  handle      \* per request: the directory whose file it has open for writing

Types == {"Draft", "Current", "Historical"}

Policies == [id : Ids, type : Types, body : Bodies]

\* An id stands for the directory historical/{id}.
Dirs == {"current", "draft"} \cup Ids

Unreadable == {NoDir, NoFile, Blank, Garbled}

ASSUME NamesAreDistinct ==
  /\ Ids \cap {"current", "draft"} = {}
  /\ Unreadable \cap Policies = {}
  /\ {Closed, Orphan} \cap Dirs = {}
  /\ Closed # Orphan
  /\ NoDir \notin {NoFile, Blank, Garbled}
  /\ NoFile \notin {Blank, Garbled}
  /\ Blank # Garbled

FileStoreTypeOK ==
  /\ store \in [Dirs -> Unreadable \cup Policies]
  /\ handle \in [Requests -> Dirs \cup {Closed, Orphan}]

-----------------------------------------------------------------------------
(* Questions a caller asks of the share. *)

DirectoryExists(d) == store[d] # NoDir

FileExists(d) == store[d] \notin {NoDir, NoFile}

\* ReadAsync and the JSON parser return a policy.  A blank file makes
\* CopyToAsync throw (its buffer size is the length, zero), a garbled one the
\* parser, and a missing one yields a null stream that Deserialize rejects.
Readable(d) == store[d] \in Policies

-----------------------------------------------------------------------------
(* WriteAsync: create the directory, delete the old file, write the new one. *)

\* slip: the directory is not created
TakeDirectoryForGranted(d) == UNCHANGED <<store, handle>>

CreateDirectory(d) ==
  /\ store' = [store EXCEPT ![d] = IF @ = NoDir THEN NoFile ELSE @]
  /\ UNCHANGED handle

\* Whoever has the deleted file open keeps writing into a file nobody can find.
Unlinked(d) == [r \in Requests |-> IF handle[r] = d THEN Orphan ELSE handle[r]]

DeleteFile(d) ==
  /\ DirectoryExists(d)
  /\ store' = [store EXCEPT ![d] = NoFile]
  /\ handle' = Unlinked(d)

\* File.WriteAllBytes creates or truncates the file ...
OpenForWrite(r, d) ==
  /\ DirectoryExists(d)
  /\ store' = [store EXCEPT ![d] = Blank]
  /\ handle' = [handle EXCEPT ![r] = d]

\* ... and then writes the bytes from offset 0.  If another writer has filled
\* the same file since, a longer document of his sticks out behind this one.
WriteResults(r, p) == {p} \cup (IF store[handle[r]] = Blank THEN {} ELSE {Garbled})

WriteBytes(r, p) ==
  /\ \/ handle[r] = Orphan /\ UNCHANGED store
     \/ /\ handle[r] \in Dirs
        /\ \E c \in WriteResults(r, p) : store' = [store EXCEPT ![handle[r]] = c]
  /\ handle' = [handle EXCEPT ![r] = Closed]

-----------------------------------------------------------------------------
(* DeleteAsync: Directory.Delete(path, recursive) empties the directory and  *)
(* then removes it; the removal throws when a file has appeared in between.  *)

EmptyDirectory(d) == DeleteFile(d)

RemoveDirectory(d) ==
  /\ store[d] = NoFile
  /\ store' = [store EXCEPT ![d] = NoDir]
  /\ UNCHANGED handle

=============================================================================
