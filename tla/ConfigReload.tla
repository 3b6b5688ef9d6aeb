----------------------------- MODULE ConfigReload -----------------------------
(***************************************************************************)
(* How the API comes by its settings and keeps up with their file:         *)
(* ConfigMapFileProvider.cs and ConfigMapFileProviderChangeToken.cs, the   *)
(* JSON provider of Program.cs that uses them and the ValidateAndBind of   *)
(* Startup.cs that every request starts with.                              *)
(*                                                                         *)
(* The provider watches config/appsettings.json through a token.  A token  *)
(* has a timer that compares checksums every 30 seconds; a change makes    *)
(* the tick's own thread take the next token, load the file and register   *)
(* for the next change.  Meanwhile the file may be edited, be away for a   *)
(* moment or not parse, and requests read the settings key by key.         *)
(***************************************************************************)
EXTENDS Naturals, Sequences

CONSTANTS
  Contents,    \* documents the file may hold
  Broken,      \* a document that does not parse
  Missing,     \* there is no file
  Empty,       \* a provider without any setting
  Keys,        \* the settings that come from this file, in the order they are read
  Gives,       \* which keys a document gives a value for
  Requests,
  None,
  MaxEdits     \* bound on edits of the file

VARIABLES
  file,        \* what config/appsettings.json holds
  edits,       \* edits so far
  up,          \* the process runs
  data,        \* FileConfigurationProvider.Data
  last,        \* the newest token, in `watchers'; tokens are numbered
  timer,       \* per token: its timer runs
  checksum,    \* per token: _lastChecksum
  callback,    \* per token: somebody is registered with it
  pc,          \* per thread: what it does next
  took,        \* per thread: the token its Watch returned
  raced,       \* the file was edited while the newest watch was being set up
  step,        \* per request: how far ValidateAndBind has come
  at,          \* per request: the key it reads next
  bound,       \* per request: per key, the document its value comes from
  overlapped   \* per request: the settings were reloaded during it

watch == <<last, timer, checksum, callback, took>>
binding == <<step, at, bound, overlapped>>
vars == <<file, edits, up, data, watch, pc, raced, binding>>

\* Each reload takes a token and needs an edit.
Tokens == 1 .. MaxEdits + 1

\* The thread of Main, and the thread that runs the ticks of a token.
Main == 0
Threads == {Main} \cup Tokens

Files == Contents \cup {Broken, Missing}
Settings == Contents \cup {Empty}
Members == {Keys[k] : k \in 1 .. Len(Keys)}
Labels == {"idle", "notify", "watch", "clear", "load", "register"}
Steps == {"idle", "validate", "bind", "served", "refused"}

ASSUME SettingsFit ==
  /\ {Broken, Missing, Empty, None} \cap Contents = {}
  /\ Broken # Missing /\ Empty # None
  /\ {Broken, Missing} \cap {Empty, None} = {}
  /\ Keys \in Seq(STRING) /\ Keys # <<>>
  /\ Gives \in [Contents -> SUBSET Members]
  /\ MaxEdits \in Nat

\* State and type of every variable.
TypeOK ==
  /\ file \in Files
  /\ edits \in 0 .. MaxEdits
  /\ up \in BOOLEAN
  /\ data \in Settings
  /\ last \in {0} \cup Tokens
  /\ timer \in [Tokens -> BOOLEAN]
  /\ checksum \in [Tokens -> Contents \cup {Broken, None}]
  /\ callback \in [Tokens -> BOOLEAN]
  /\ pc \in [Threads -> Labels]
  /\ took \in [Threads -> {0} \cup Tokens]
  /\ raced \in BOOLEAN
  /\ step \in [Requests -> Steps]
  /\ at \in [Requests -> 1 .. Len(Keys)]
  /\ bound \in [Requests -> [Members -> Settings]]
  /\ overlapped \in [Requests -> BOOLEAN]

\* The watch on token `last' has been set up: nobody is loading or about to
\* register, and a timer that was started has taken its first checksum.
Settled ==
  /\ up /\ last # 0
  /\ \A t \in Threads : pc[t] = "idle"
  /\ timer[last] => checksum[last] # None

\* The file was not there when the watch was set up: it has no timer, and
\* nothing ever starts one.
Unwatched == Settled /\ ~timer[last]

\* The file was edited between the load and the first tick, which took the
\* checksum of c: the next one finds no difference.
Overlooked(c) == Settled /\ raced /\ timer[last] /\ checksum[last] = c

Idle == [t \in Threads |-> "idle"]
NoTokens == [t \in Tokens |-> FALSE]

Init ==
  /\ file \in Files
  /\ edits = 0
  /\ up = TRUE
  /\ data = Empty
  /\ last = 0
  /\ timer = NoTokens
  /\ checksum = [t \in Tokens |-> None]
  /\ callback = NoTokens
  /\ took = [t \in Threads |-> 0]
  /\ pc = [Idle EXCEPT ![Main] = "watch"]
  /\ raced = FALSE
  /\ step = [r \in Requests |-> "idle"]
  /\ at = [r \in Requests |-> 1]
  /\ bound = [r \in Requests |-> [k \in Members |-> Empty]]
  /\ overlapped = [r \in Requests |-> FALSE]

-----------------------------------------------------------------------------
(* The file, and the process under whoever runs it. *)

\* A ConfigMap is replaced as a whole: a reader never sees half a document.
\* The set-up of a watch begins with Watch and ends as Settled says.
Edit ==
  /\ edits < MaxEdits
  /\ edits' = edits + 1
  /\ file' \in Files \ {file}
  /\ raced' = (raced \/ (up /\ last # 0 /\ ~Settled))
  /\ UNCHANGED <<up, data, watch, pc, binding>>

\* An exception nobody catches, on the thread of a timer or of Main.  All
\* that was in memory is gone, requests in flight included.
Die ==
  /\ up' = FALSE
  /\ data' = Empty
  /\ last' = 0
  /\ timer' = NoTokens
  /\ checksum' = [t \in Tokens |-> None]
  /\ callback' = NoTokens
  /\ took' = [t \in Threads |-> 0]
  /\ pc' = Idle
  /\ raced' = FALSE
  /\ step' = [r \in Requests |-> IF step[r] \in {"validate", "bind"} THEN "idle" ELSE step[r]]
  /\ at' = [r \in Requests |-> 1]
  /\ UNCHANGED <<file, edits, bound, overlapped>>

\* The container is started again.
Restart ==
  /\ ~up
  /\ up' = TRUE
  /\ pc' = [pc EXCEPT ![Main] = "watch"]
  /\ UNCHANGED <<file, edits, data, watch, raced, binding>>

-----------------------------------------------------------------------------
(* ConfigMapFileProviderChangeToken: the ticks of a timer. *)

Differs(t) == checksum[t] # None /\ checksum[t] # file

\* CheckForChanges.  Nothing but the next tick of the same timer, half a
\* minute later, looks at the checksum stored, so it is stored at once.
Tick(t) ==
  /\ up /\ timer[t] /\ pc[t] = "idle"
  /\ file # Missing
  /\ checksum' = [checksum EXCEPT ![t] = file]
  /\ pc' = [pc EXCEPT ![t] = IF Differs(t) THEN "notify" ELSE "idle"]
  /\ UNCHANGED <<file, edits, up, data, last, timer, callback, took, raced, binding>>

\* File.OpenRead throws, in a timer's callback.
TickThrows(t) ==
  /\ up /\ timer[t] /\ pc[t] = "idle"
  /\ file = Missing
  /\ Die

\* slip: the callbacks registered with the token are forgotten first
NotifyNobody(t) ==
  /\ pc[t] = "notify"
  /\ pc' = [pc EXCEPT ![t] = "idle"]
  /\ UNCHANGED <<file, edits, up, data, watch, raced, binding>>

\* NotifyChanges, to whoever is registered.
Notify(t) ==
  /\ pc[t] = "notify"
  /\ pc' = [pc EXCEPT ![t] = IF callback[t] THEN "watch" ELSE "idle"]
  /\ UNCHANGED <<file, edits, up, data, watch, raced, binding>>

-----------------------------------------------------------------------------
(* ConfigMapFileProvider.Watch, by the provider when it is made and by       *)
(* OnChangeTokenFired: first the next token, then the load, and only then    *)
(* is the next change registered for.                                        *)

\* slip: the old token keeps its timer and its callbacks
KeepOld(f) == f

\* The token that was watching is disposed of.
Disposed(f) == [t \in Tokens |-> IF t = last THEN FALSE ELSE f[t]]

Watch(t) ==
  /\ pc[t] = "watch"
  /\ last < MaxEdits + 1
  /\ last' = last + 1
  /\ took' = [took EXCEPT ![t] = last']
  /\ timer' = [Disposed(timer) EXCEPT ![last'] = (file # Missing)]
  /\ callback' = Disposed(callback)
  /\ pc' = [pc EXCEPT ![t] = IF t = Main THEN "register" ELSE "clear"]
  /\ raced' = FALSE
  /\ UNCHANGED <<file, edits, up, data, checksum, binding>>

\* slip: only the first token is registered with
RegisterOnce(t) == [callback EXCEPT ![took[t]] = (t = Main)]

Registered(t) == [callback EXCEPT ![took[t]] = TRUE]

Register(t) ==
  /\ pc[t] = "register"
  /\ callback' = Registered(t)
  /\ pc' = [pc EXCEPT ![t] = IF t = Main THEN "load" ELSE "idle"]
  /\ UNCHANGED <<file, edits, up, data, last, timer, checksum, took, raced, binding>>

-----------------------------------------------------------------------------
(* FileConfigurationProvider.Load. *)

Overlap ==
  overlapped' = [r \in Requests |-> overlapped[r] \/ step[r] \in {"validate", "bind"}]

\* A reload drops the old settings before it reads the new ones.
Clear(t) ==
  /\ pc[t] = "clear"
  /\ data' = Empty
  /\ pc' = [pc EXCEPT ![t] = IF file = Missing THEN "register" ELSE "load"]
  /\ Overlap
  /\ UNCHANGED <<file, edits, up, watch, raced, step, at, bound>>

AfterLoad(t) == IF t = Main THEN "idle" ELSE "register"

Load(t) ==
  /\ pc[t] = "load"
  /\ file \in Contents
  /\ data' = file
  /\ pc' = [pc EXCEPT ![t] = AfterLoad(t)]
  /\ Overlap
  /\ UNCHANGED <<file, edits, up, watch, raced, step, at, bound>>

\* The file is optional when the process starts.
LoadNothing ==
  /\ pc[Main] = "load"
  /\ file = Missing
  /\ pc' = [pc EXCEPT ![Main] = "idle"]
  /\ UNCHANGED <<file, edits, up, data, watch, raced, binding>>

\* What does not parse, or has gone since it was there, ends the process.
LoadThrows(t) ==
  /\ pc[t] = "load"
  /\ file = Broken \/ (file = Missing /\ t # Main)
  /\ Die

-----------------------------------------------------------------------------
(* Startup.ValidateAndBind: each key is read to see whether it has a value,  *)
(* and read again to be bound.                                               *)

Serving == up /\ last # 0 /\ pc[Main] = "idle"

Provided(k) == data # Empty /\ k \in Gives[data]

Arrive(r) ==
  /\ Serving
  /\ step[r] = "idle"
  /\ step' = [step EXCEPT ![r] = "validate"]
  /\ overlapped' = [overlapped EXCEPT ![r] = FALSE]
  /\ UNCHANGED <<file, edits, up, data, watch, pc, raced, at, bound>>

\* slip: the second phase goes on where the first has ended
KeyAfter(r, next) ==
  /\ at' = [at EXCEPT ![r] = @ + 1]
  /\ step' = [step EXCEPT ![r] = IF at[r] = Len(Keys) THEN next ELSE @]

\* Past the last key comes the next phase.
NextKey(r, next) ==
  /\ at' = [at EXCEPT ![r] = IF @ = Len(Keys) THEN 1 ELSE @ + 1]
  /\ step' = [step EXCEPT ![r] = IF at[r] = Len(Keys) THEN next ELSE @]

\* slip: a missing value is only logged
Passes(k) == TRUE

HasValue(k) == Provided(k)

Validate(r) ==
  /\ step[r] = "validate"
  /\ HasValue(Keys[at[r]])
  /\ NextKey(r, "bind")
  /\ UNCHANGED <<file, edits, up, data, watch, pc, raced, bound, overlapped>>

Refuse(r) ==
  /\ step[r] = "validate"
  /\ ~HasValue(Keys[at[r]])
  /\ step' = [step EXCEPT ![r] = "refused"]
  /\ UNCHANGED <<file, edits, up, data, watch, pc, raced, at, bound, overlapped>>

Bind(r) ==
  LET k == Keys[at[r]] IN
  /\ step[r] = "bind"
  /\ bound' = [bound EXCEPT ![r][k] = IF Provided(k) THEN data ELSE Empty]
  /\ NextKey(r, "served")
  /\ UNCHANGED <<file, edits, up, data, watch, pc, raced, overlapped>>

-----------------------------------------------------------------------------
\* What a thread does next, until its tick is over.
Work(t) ==
  \/ Notify(t) \/ Watch(t) \/ Register(t)
  \/ Clear(t) \/ Load(t) \/ LoadThrows(t)

Handle(r) == Validate(r) \/ Refuse(r) \/ Bind(r)

\* No more edits, and every request has ended.
Quiet ==
  /\ edits = MaxEdits /\ up /\ pc = Idle
  /\ \A r \in Requests : step[r] \in {"served", "refused"}
  /\ UNCHANGED vars

Next ==
  \/ Edit \/ Restart \/ LoadNothing
  \/ \E t \in Tokens : Tick(t) \/ TickThrows(t)
  \/ \E t \in Threads : Work(t)
  \/ \E r \in Requests : Arrive(r) \/ Handle(r)
  \/ Quiet

Spec == Init /\ [][Next]_vars

\* Threads run, timers fire and a container that has ended is started again.
FairSpec ==
  /\ Spec
  /\ WF_vars(Restart)
  /\ WF_vars(LoadNothing)
  /\ \A t \in Tokens : WF_vars(Tick(t) \/ TickThrows(t))
  /\ \A t \in Threads : WF_vars(Work(t))
  /\ \A r \in Requests : WF_vars(Handle(r))

-----------------------------------------------------------------------------
(* Properties. *)

Reloading(t) == pc[t] \in {"watch", "clear", "load", "register"}

\* At most one tick reloads; nobody registers with a token that has been
\* disposed of, which would throw; and only the newest token has a timer or
\* anybody registered: no change is loaded twice, none by two threads at once.
OneReload ==
  /\ \A t, u \in Tokens : Reloading(t) /\ Reloading(u) => t = u
  /\ \A t \in Threads : pc[t] = "register" => took[t] = last
  /\ \A t \in Tokens : timer[t] \/ callback[t] => t = last

\* Once a watch has been set up somebody is registered with it, and unless the
\* file was edited during just that time the settings are those of the document
\* the next tick compares the file with; of a file that was not there at that
\* time, which nobody watches, nothing is loaded.
SettledWatchIsTrue ==
  Settled => /\ callback[last]
             /\ ~raced => data = IF timer[last] THEN checksum[last] ELSE Empty

\* A request is served with settings that one document gives, all of them, or
\* they were being reloaded during it.
ServedAreWhole ==
  \A r \in Requests : step[r] = "served" /\ ~overlapped[r] =>
    \E c \in Contents : Gives[c] = Members /\ \A k \in Members : bound[r][k] = c

\* A document that stays in the file becomes what the API works with, also
\* after one that did not parse and after the file was away at a tick, both of
\* which take a restart.  Two things keep it out, both for as long as it stays:
\* the file was away when the watch was set up, or this edit came while it was
\* and the first tick compares with the edited file.
EditsAreNoticed ==
  \A c \in Contents : (file = c) ~> (data = c \/ file # c \/ Unwatched \/ Overlooked(c))

=============================================================================
