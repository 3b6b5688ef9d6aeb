-------------------------- MODULE ConfigReloadProofs --------------------------
(***************************************************************************)
(* Safety of ConfigReload for any documents, settings, requests and edits: *)
(* there is one reload at a time, a watch that has been set up has someone *)
(* registered and compares with what is loaded, and a request is served    *)
(* with whole settings.                                                    *)
(*                                                                         *)
(* The argument is about who holds the newest token.  A thread that has    *)
(* been notified holds the token it belongs to, one that is reloading the  *)
(* token it has just taken, with which nobody is registered before it is   *)
(* done: so nobody else is notified meanwhile.                             *)
(***************************************************************************)
EXTENDS ConfigReload, TLAPS

After == {"clear", "load", "register"}

\* The tick of t has the newest token to itself.
Holds(t) ==
  /\ timer[t] \/ callback[t] => t = last
  /\ checksum[t] # None => t <= last
  /\ pc[t] \in {"notify", "watch"} => t = last
  /\ pc[t] = "watch" => callback[t]
  /\ pc[t] \in After =>
       took[t] = last /\ last = t + 1 /\ last \in Tokens /\ ~callback[last]

\* The thread of Main takes the first token.
MainHolds ==
  /\ pc[Main] \in {"idle", "watch", "load", "register"}
  /\ pc[Main] = "watch" => last = 0
  /\ pc[Main] \in {"load", "register"} => last # 0
  /\ pc[Main] = "register" => took[Main] = last /\ last = 1 /\ ~callback[last]

\* A process that is down has nothing in memory.
DownIsEmpty ==
  /\ ~up => pc = Idle
  /\ ~up \/ last = 0 =>
       last = 0 /\ data = Empty /\ timer = NoTokens /\ callback = NoTokens
  /\ last = 0 => \A t \in Tokens : pc[t] = "idle"

Ownership == DownIsEmpty /\ MainHolds /\ \A t \in Tokens : Holds(t)

\* Somebody is registered with the newest token, or is going to be.
Armed ==
  last # 0 => \/ callback[last] \/ pc[Main] = "register"
              \/ \E t \in Tokens : pc[t] \in After

\* What a load of the file leaves.
Loading == IF file = Missing THEN Empty ELSE file

\* How far the settings of a watch that is being set up have come.  The thread
\* of Main may still be in its first load when a tick's thread loads as well.
LoadedSoFar ==
  \/ \E t \in Tokens : pc[t] = "clear"
  \/ data \in {Empty, file} /\ \E t \in Tokens : pc[t] = "load"
  \/ data = Empty /\ last = 1 /\ pc[Main] \in {"register", "load"}
  \/ data = Loading

\* All of a set-up sees one file, and nobody is told of a change meanwhile.
SetUp ==
  /\ timer[last] = (file # Missing)
  /\ checksum[last] \in {None, file}
  /\ \A t \in Tokens : pc[t] \notin {"notify", "watch"}
  /\ LoadedSoFar

\* The tick that has noticed a change is the only one at work.
Noticed == \E t \in Tokens : pc[t] \in {"notify", "watch"}
Alone == \A t \in Threads : pc[t] # "idle" => t = last

\* What is loaded is what the timer compares with.
WatchIsTrue == data = IF timer[last] THEN checksum[last] ELSE Empty

\* The life of a watch whose set-up no edit has fallen into.
Seen ==
  up /\ last # 0 /\ ~raced =>
    SetUp \/ (Settled /\ WatchIsTrue) \/ (Noticed /\ Alone)

\* How far a request has come with settings that did not change under it.
Whole(r) ==
  ~overlapped[r] =>
    /\ step[r] = "validate" => \A k \in 1 .. at[r] - 1 : Provided(Keys[k])
    /\ step[r] = "bind" => /\ \A m \in Members : Provided(m)
                           /\ \A k \in 1 .. at[r] - 1 : bound[r][Keys[k]] = data
    /\ step[r] = "served" =>
         \E c \in Contents : Gives[c] = Members /\ \A m \in Members : bound[r][m] = c

AtOnce == \A r \in Requests : Whole(r) /\ (step[r] = "idle" => at[r] = 1)

IInv == TypeOK /\ Ownership /\ Armed /\ Seen /\ AtOnce

-----------------------------------------------------------------------------
(* Types. *)

\* Settings are read from the first key to the last.
LEMMA KeysAreIndexed ==
  /\ Len(Keys) \in Nat \ {0}
  /\ Members = {Keys[k] : k \in 1 .. Len(Keys)}
  /\ \A k \in 1 .. Len(Keys) : Keys[k] \in Members
BY SettingsFit DEF Members

\* The process starts with variables of their types.
LEMMA InitTypes == Init => TypeOK
<1> SUFFICES ASSUME Init PROVE TypeOK
  OBVIOUS
<1>1. 1 \in 1 .. Len(Keys)
  BY KeysAreIndexed
<1>2. at \in [Requests -> 1 .. Len(Keys)]
  BY <1>1 DEF Init
<1>3. bound \in [Requests -> [Members -> Settings]]
  BY DEF Init, Settings
<1>4. pc \in [Threads -> Labels]
  BY DEF Init, Idle, Threads, Labels
<1>5. step \in [Requests -> Steps] /\ overlapped \in [Requests -> BOOLEAN]
  BY DEF Init, Steps
<1>6. timer \in [Tokens -> BOOLEAN] /\ callback \in [Tokens -> BOOLEAN]
  BY DEF Init, NoTokens
<1>7. checksum \in [Tokens -> Contents \cup {Broken, None}]
  BY DEF Init
<1>8. took \in [Threads -> {0} \cup Tokens]
  BY DEF Init
<1>9. edits \in 0 .. MaxEdits
  BY SettingsFit DEF Init
<1> QED
  BY <1>2, <1>3, <1>4, <1>5, <1>6, <1>7, <1>8, <1>9 DEF Init, TypeOK, Settings

\* A process that dies leaves every variable its type.
LEMMA DieTypes ==
  ASSUME TypeOK, Die
  PROVE  TypeOK'
<1>1. at' \in [Requests -> 1 .. Len(Keys)]
  <2>1. 1 \in 1 .. Len(Keys)
    BY KeysAreIndexed
  <2> QED
    BY <2>1 DEF Die
<1>2. step' \in [Requests -> Steps]
  BY DEF Die, TypeOK, Steps
<1>3. pc' \in [Threads -> Labels]
  BY DEF Die, Idle, Labels
<1> QED
  BY <1>1, <1>2, <1>3 DEF TypeOK, Die, Settings, NoTokens

\* A request moves to a key there is.
LEMMA NextKeyTypes ==
  ASSUME TypeOK, NEW r \in Requests, NEW next \in Steps, NextKey(r, next)
  PROVE  /\ at' \in [Requests -> 1 .. Len(Keys)]
         /\ step' \in [Requests -> Steps]
BY KeysAreIndexed DEF TypeOK, NextKey

\* No step takes a variable out of its type.
LEMMA NextTypes ==
  ASSUME TypeOK, [Next]_vars
  PROVE  TypeOK'
<1> USE DEF watch, binding
<1>1. CASE Edit
  BY <1>1, SettingsFit DEF Edit, TypeOK, Files
<1>2. CASE Restart
  BY <1>2 DEF Restart, TypeOK, Threads, Main, Labels
<1>3. CASE LoadNothing
  BY <1>3 DEF LoadNothing, TypeOK, Threads, Main, Labels
<1>4. ASSUME NEW t \in Tokens, Tick(t) PROVE TypeOK'
  <2>1. file \in Contents \cup {Broken}
    BY <1>4 DEF Tick, TypeOK, Files
  <2> QED
    BY <1>4, <2>1 DEF Tick, TypeOK, Threads, Labels
<1>5. ASSUME NEW t \in Tokens, TickThrows(t) PROVE TypeOK'
  BY <1>5, DieTypes DEF TickThrows
<1>6. ASSUME NEW t \in Threads, Work(t) PROVE TypeOK'
  <2>1. CASE Notify(t)
    BY <2>1 DEF Notify, TypeOK, Labels
  <2>2. CASE Watch(t)
    <3>1. last' \in Tokens
      BY <2>2, SettingsFit DEF Watch, TypeOK, Tokens
    <3> QED
      BY <2>2, <3>1 DEF Watch, Disposed, TypeOK, Labels
  <2>3. CASE Register(t)
    BY <2>3 DEF Register, Registered, TypeOK, Labels
  <2>4. CASE Clear(t)
    BY <2>4 DEF Clear, Overlap, TypeOK, Labels, Settings
  <2>5. CASE Load(t)
    BY <2>5 DEF Load, AfterLoad, Overlap, TypeOK, Labels, Settings
  <2>6. CASE LoadThrows(t)
    BY <2>6, DieTypes DEF LoadThrows
  <2> QED
    BY <1>6, <2>1, <2>2, <2>3, <2>4, <2>5, <2>6 DEF Work
<1>7. ASSUME NEW r \in Requests, Arrive(r) PROVE TypeOK'
  BY <1>7 DEF Arrive, TypeOK, Steps
<1>8. ASSUME NEW r \in Requests, Handle(r) PROVE TypeOK'
  <2>1. CASE Validate(r)
    <3>1. "bind" \in Steps
      BY DEF Steps
    <3> QED
      BY <2>1, <3>1, NextKeyTypes DEF Validate, TypeOK
  <2>2. CASE Refuse(r)
    BY <2>2 DEF Refuse, TypeOK, Steps
  <2>3. CASE Bind(r)
    <3>1. "served" \in Steps
      BY DEF Steps
    <3>2. Keys[at[r]] \in Members
      BY KeysAreIndexed DEF TypeOK
    <3>3. bound' \in [Requests -> [Members -> Settings]]
      BY <2>3, <3>2 DEF Bind, TypeOK, Settings
    <3> QED
      BY <2>3, <3>1, <3>3, NextKeyTypes DEF Bind, TypeOK
  <2> QED
    BY <1>8, <2>1, <2>2, <2>3 DEF Handle
<1>9. CASE Quiet \/ UNCHANGED vars
  BY <1>9 DEF Quiet, vars, TypeOK
<1> QED
  BY <1>1, <1>2, <1>3, <1>4, <1>5, <1>6, <1>7, <1>8, <1>9 DEF Next

\* Every variable keeps its type, in every behaviour.
THEOREM TypeCorrect == Spec => []TypeOK
<1>1. Init => TypeOK
  BY InitTypes
<1>2. TypeOK /\ [Next]_vars => TypeOK'
  BY NextTypes
<1> QED
  BY <1>1, <1>2, PTL DEF Spec

-----------------------------------------------------------------------------
(* The newest token. *)

owned == <<up, data, last, timer, checksum, callback, pc, took>>

\* The first thread is about to take the first token.
LEMMA InitOwnership == Init => Ownership
BY DEF Init, Ownership, DownIsEmpty, MainHolds, Holds, Idle, NoTokens, After, Threads, Main, Tokens

\* Nobody holds a token of a process that has died.
LEMMA DieOwnership ==
  ASSUME Die
  PROVE  Ownership'
BY DEF Die, Ownership, DownIsEmpty, MainHolds, Holds, Idle, NoTokens, After, Threads, Main, Tokens

\* Only steps on the watch or by its threads matter.
LEMMA SameOwnership ==
  ASSUME Ownership, UNCHANGED owned
  PROVE  Ownership'
BY DEF owned, Ownership, DownIsEmpty, MainHolds, Holds, Idle, NoTokens

\* A thread that does something runs in a process that is up and has a token.
LEMMA BusyIsUp ==
  ASSUME TypeOK, Ownership, NEW t \in Threads, pc[t] # "idle"
  PROVE  up /\ (t = Main \/ last # 0)
BY DEF Ownership, DownIsEmpty, Threads, Idle

\* A tick takes the newest token only.
LEMMA TickOwnership ==
  ASSUME TypeOK, Ownership, NEW t \in Tokens, Tick(t)
  PROVE  Ownership'
<1>1. t = last /\ t # 0 /\ t # Main
  BY DEF Tick, Ownership, Holds, Tokens, Main
<1>2. DownIsEmpty'
  BY <1>1 DEF Tick, Ownership, DownIsEmpty, Idle, NoTokens
<1>3. MainHolds'
  BY <1>1 DEF Tick, Ownership, MainHolds, TypeOK
<1>4. ASSUME NEW u \in Tokens PROVE Holds(u)'
  BY <1>1 DEF Tick, Ownership, Holds, TypeOK, After, Threads, Tokens
<1> QED
  BY <1>2, <1>3, <1>4 DEF Ownership

\* A reload takes the next token, from whoever has been notified.
LEMMA WatchOwnership ==
  ASSUME TypeOK, Ownership, NEW t \in Threads, Watch(t)
  PROVE  Ownership'
<1> USE DEF Main
<1>1. up /\ pc[t] = "watch"
  BY BusyIsUp DEF Watch
<1>2. last' = last + 1 /\ last' \in Tokens /\ last' # 0
  BY SettingsFit DEF Watch, TypeOK, Tokens
<1>3. DownIsEmpty'
  BY <1>1, <1>2 DEF Watch, DownIsEmpty
<1>4. CASE t = Main
  <2>1. last = 0 /\ last' = 1
    BY <1>1, <1>2, <1>4 DEF Ownership, MainHolds
  <2>2. \A u \in Tokens : pc[u] = "idle" /\ u # Main
    BY <2>1 DEF Ownership, DownIsEmpty, Tokens
  <2>3. \A u \in Tokens : ~timer[u] /\ ~callback[u]
    BY <2>1 DEF Ownership, DownIsEmpty, NoTokens
  <2>4. MainHolds'
    BY <1>2, <1>4, <2>1, <2>3 DEF Watch, Disposed, MainHolds, TypeOK, Threads
  <2>5. ASSUME NEW u \in Tokens PROVE Holds(u)'
    <3>1. pc'[u] = "idle" /\ checksum[u] = None
      BY <1>4, <2>1, <2>2 DEF Watch, TypeOK, Threads, Ownership, Holds, Tokens
    <3>2. ~callback'[u] /\ (timer'[u] => u = last')
      BY <1>2, <2>1, <2>3 DEF Watch, Disposed, TypeOK
    <3> QED
      BY <3>1, <3>2 DEF Watch, Holds, After
  <2> QED
    BY <1>3, <2>4, <2>5 DEF Ownership
<1>5. CASE t \in Tokens
  <2>1. t = last /\ callback[t] /\ t # Main
    BY <1>1, <1>5 DEF Ownership, Holds, Tokens
  <2>2. \A u \in Threads \ {t} : pc[u] \notin {"notify", "watch", "register"}
    BY <1>5, <2>1 DEF Ownership, Holds, MainHolds, Threads, After, Tokens
  <2>3. \A u \in Tokens \ {t} : pc[u] \notin After
    BY <1>5, <2>1 DEF Ownership, Holds
  <2>4. MainHolds'
    BY <1>2, <1>5, <2>1, <2>2 DEF Watch, MainHolds, Ownership, TypeOK, Threads
  <2>5. ASSUME NEW u \in Tokens PROVE Holds(u)'
    <3>1. u = last' \/ (~timer'[u] /\ ~callback'[u])
      BY <1>2 DEF Watch, Disposed, Ownership, Holds, TypeOK
    <3>2. ~callback'[last']
      BY <1>2 DEF Watch, Disposed, Ownership, Holds, TypeOK, Tokens
    <3>3. checksum'[u] # None => u <= last'
      BY <1>2 DEF Watch, Ownership, Holds, TypeOK, Tokens
    <3>4. CASE u = t
      BY <1>2, <1>5, <2>1, <3>1, <3>2, <3>3, <3>4 DEF Watch, Holds, TypeOK, Threads, After
    <3>5. CASE u # t
      BY <1>2, <1>5, <2>1, <2>2, <2>3, <3>1, <3>3, <3>5 DEF Watch, Holds, TypeOK, Threads, After
    <3> QED
      BY <3>4, <3>5
  <2> QED
    BY <1>3, <2>4, <2>5 DEF Ownership
<1> QED
  BY <1>4, <1>5 DEF Threads

\* Who registers does so with the newest token, which is his.
LEMMA RegisterOwnership ==
  ASSUME TypeOK, Ownership, NEW t \in Threads, Register(t)
  PROVE  Ownership'
<1> USE DEF Main
<1>1. up /\ took[t] = last /\ last \in Tokens /\ ~callback[last]
  BY BusyIsUp DEF Register, Ownership, MainHolds, Holds, Threads, Tokens, After, TypeOK
<1>2. DownIsEmpty'
  BY <1>1 DEF Register, DownIsEmpty, Tokens
<1>3. \A u \in Threads : pc[u] \in {"register"} => u = t
  BY <1>1 DEF Register, Ownership, MainHolds, Holds, Threads, Tokens, After
<1>4. MainHolds'
  BY <1>1, <1>3 DEF Register, Registered, MainHolds, Ownership, TypeOK, Threads, Tokens
<1>5. ASSUME NEW u \in Tokens PROVE Holds(u)'
  <2>1. u # t => pc[u] \notin After
    BY DEF Register, Ownership, MainHolds, Holds, Threads, Tokens, After
  <2>2. u # last => callback'[u] = callback[u]
    BY <1>1 DEF Register, Registered, TypeOK
  <2>3. u = t => pc'[u] = "idle"
    BY DEF Register, TypeOK, Tokens
  <2>4. u # t => pc'[u] = pc[u]
    BY DEF Register, TypeOK, Threads
  <2>5. callback[u] => callback'[u]
    BY <1>1 DEF Register, Registered, TypeOK
  <2>6. UNCHANGED <<timer, checksum, last, took>>
    BY DEF Register
  <2> QED
    BY <2>1, <2>2, <2>3, <2>4, <2>5, <2>6 DEF Ownership, Holds, After
<1> QED
  BY <1>2, <1>4, <1>5 DEF Ownership

\* No step gives the newest token to two, or an old one to anybody.
LEMMA NextOwnership ==
  ASSUME TypeOK, Ownership, [Next]_vars
  PROVE  Ownership'
<1> USE DEF watch, binding
<1>1. CASE Edit
  BY <1>1, SameOwnership DEF Edit, owned
<1>2. CASE Restart
  BY <1>2 DEF Restart, TypeOK, Ownership, DownIsEmpty, MainHolds, Holds, Idle, NoTokens, After,
              Threads, Main, Tokens
<1>3. CASE LoadNothing
  BY <1>3, BusyIsUp DEF LoadNothing, TypeOK, Ownership, DownIsEmpty, MainHolds, Holds, After,
                        Threads, Main, Tokens
<1>4. ASSUME NEW t \in Tokens, Tick(t) PROVE Ownership'
  BY <1>4, TickOwnership
<1>5. ASSUME NEW t \in Tokens, TickThrows(t) PROVE Ownership'
  BY <1>5, DieOwnership DEF TickThrows
<1>6. ASSUME NEW t \in Threads, Work(t) PROVE Ownership'
  <2>1. CASE Notify(t)
    <3>1. t \in Tokens /\ up /\ last # 0 /\ t = last
      BY <2>1, BusyIsUp DEF Notify, Ownership, MainHolds, Holds, Threads, Main, Tokens
    <3> QED
      BY <2>1, <3>1 DEF Notify, TypeOK, Ownership, DownIsEmpty, MainHolds, Holds, After, Main, Tokens
  <2>2. CASE Watch(t)
    BY <2>2, WatchOwnership
  <2>3. CASE Register(t)
    BY <2>3, RegisterOwnership
  <2>4. CASE Clear(t)
    <3>1. t \in Tokens /\ up /\ last # 0
      BY <2>4, BusyIsUp DEF Clear, Ownership, MainHolds, Threads, Main
    <3> QED
      BY <2>4, <3>1 DEF Clear, TypeOK, Ownership, DownIsEmpty, MainHolds, Holds, After, Main, Tokens
  <2>5. CASE Load(t)
    <3>1. up /\ last # 0
      BY <2>5, BusyIsUp DEF Load, Ownership, MainHolds
    <3> QED
      BY <2>5, <3>1 DEF Load, AfterLoad, TypeOK, Ownership, DownIsEmpty, MainHolds, Holds, After,
                        Threads, Main, Tokens
  <2>6. CASE LoadThrows(t)
    BY <2>6, DieOwnership DEF LoadThrows
  <2> QED
    BY <1>6, <2>1, <2>2, <2>3, <2>4, <2>5, <2>6 DEF Work
<1>7. ASSUME NEW r \in Requests, Arrive(r) \/ Handle(r) PROVE Ownership'
  BY <1>7, SameOwnership DEF Arrive, Handle, Validate, Refuse, Bind, owned
<1>8. CASE Quiet \/ UNCHANGED vars
  BY <1>8, SameOwnership DEF Quiet, vars, owned
<1> QED
  BY <1>1, <1>2, <1>3, <1>4, <1>5, <1>6, <1>7, <1>8 DEF Next

-----------------------------------------------------------------------------
(* The watch is armed. *)

\* There is no token yet.
LEMMA InitArmed == Init => Armed
BY DEF Init, Armed

\* There is no token any more.
LEMMA DieArmed ==
  ASSUME Die
  PROVE  Armed'
BY DEF Die, Armed

\* A new token is taken by a thread that is going to register with it.
LEMMA WatchArmed ==
  ASSUME TypeOK, Ownership, NEW t \in Threads, Watch(t)
  PROVE  Armed'
<1>1. last' = last + 1 /\ last' \in Tokens /\ checksum'[last'] = None
  BY SettingsFit DEF Watch, TypeOK, Ownership, Holds, Tokens
<1>2. t = Main => pc'[Main] = "register"
  BY DEF Watch, TypeOK
<1>3. t # Main => t \in Tokens /\ pc'[t] \in After
  BY DEF Watch, TypeOK, Threads, After
<1> QED
  BY <1>1, <1>2, <1>3 DEF Armed

\* No step leaves the newest token unattended.
LEMMA NextArmed ==
  ASSUME TypeOK, Ownership, Armed, [Next]_vars
  PROVE  Armed'
<1> USE DEF watch, binding
<1>1. CASE Edit
  BY <1>1 DEF Edit, Armed
<1>2. CASE Restart
  BY <1>2 DEF Restart, Ownership, DownIsEmpty, Armed
<1>3. CASE LoadNothing
  BY <1>3 DEF LoadNothing, TypeOK, Armed, Tokens, Threads, Main
<1>4. ASSUME NEW t \in Tokens, Tick(t) PROVE Armed'
  <2>1. t = last /\ t # Main
    BY <1>4 DEF Tick, Ownership, Holds, Tokens, Main
  <2>2. \A u \in Tokens : pc[u] \in After => pc'[u] \in After
    BY <1>4 DEF Tick, TypeOK, Threads, After
  <2> QED
    BY <1>4, <2>1, <2>2 DEF Tick, Armed, TypeOK
<1>5. ASSUME NEW t \in Tokens, TickThrows(t) PROVE Armed'
  BY <1>5, DieArmed DEF TickThrows
<1>6. ASSUME NEW t \in Threads, Work(t) PROVE Armed'
  <2>1. CASE Notify(t)
    <3>1. t # Main
      BY <2>1 DEF Notify, Ownership, MainHolds
    <3>2. \A u \in Tokens : pc[u] \in After => pc'[u] \in After
      BY <2>1 DEF Notify, TypeOK, Threads, After
    <3> QED
      BY <2>1, <3>1, <3>2 DEF Notify, Armed, TypeOK
  <2>2. CASE Watch(t)
    BY <2>2, WatchArmed
  <2>3. CASE Register(t)
    <3>1. took[t] = last /\ last \in Tokens
      BY <2>3 DEF Register, Ownership, MainHolds, Holds, Threads, Main, Tokens, After, TypeOK
    <3> QED
      BY <2>3, <3>1 DEF Register, Registered, Armed, TypeOK
  <2>4. CASE Clear(t)
    <3>1. t \in Tokens /\ pc'[t] \in After
      BY <2>4 DEF Clear, Ownership, MainHolds, TypeOK, Threads, After
    <3> QED
      BY <2>4, <3>1 DEF Clear, Armed
  <2>5. CASE Load(t)
    <3>1. t # Main => t \in Tokens /\ pc'[t] \in After
      BY <2>5 DEF Load, AfterLoad, TypeOK, Threads, After
    <3>2. t = Main => \A u \in Tokens : pc'[u] = pc[u]
      BY <2>5 DEF Load, TypeOK, Threads, Main, Tokens
    <3> QED
      BY <2>5, <3>1, <3>2 DEF Load, Armed
  <2>6. CASE LoadThrows(t)
    BY <2>6, DieArmed DEF LoadThrows
  <2> QED
    BY <1>6, <2>1, <2>2, <2>3, <2>4, <2>5, <2>6 DEF Work
<1>7. ASSUME NEW r \in Requests, Arrive(r) \/ Handle(r) PROVE Armed'
  BY <1>7 DEF Arrive, Handle, Validate, Refuse, Bind, Armed
<1>8. CASE Quiet \/ UNCHANGED vars
  BY <1>8 DEF Quiet, vars, Armed
<1> QED
  BY <1>1, <1>2, <1>3, <1>4, <1>5, <1>6, <1>7, <1>8 DEF Next

-----------------------------------------------------------------------------
(* What is loaded and what is compared with. *)

\* No step outside the watch and its threads changes what has been seen.
LEMMA SameSeen ==
  ASSUME Seen, UNCHANGED <<file, data, up, last, timer, checksum, pc, raced>>
  PROVE  Seen'
BY DEF Seen, Settled, WatchIsTrue, Noticed, Alone, SetUp, LoadedSoFar, Loading

\* There is nothing to compare with yet.
LEMMA InitSeen == Init => Seen
BY DEF Init, Seen

\* There is nothing to compare with any more.
LEMMA DieSeen ==
  ASSUME Die
  PROVE  Seen'
BY DEF Die, Seen

\* A set-up that is over has loaded what it compares with.
LEMMA SetUpEnds ==
  ASSUME SetUp, Settled
  PROVE  WatchIsTrue
<1>1. data = Loading
  BY DEF SetUp, LoadedSoFar, Settled, Threads, Main
<1>2. CASE timer[last]
  BY <1>1, <1>2 DEF SetUp, Settled, Loading, WatchIsTrue
<1>3. CASE ~timer[last]
  BY <1>1, <1>3 DEF SetUp, Loading, WatchIsTrue
<1> QED
  BY <1>2, <1>3

\* An edit while the watch is set up is remembered; at other times the next
\* tick is going to see it.
LEMMA EditSeen ==
  ASSUME Seen, Edit
  PROVE  Seen'
<1> SUFFICES ASSUME up', last' # 0, ~raced' PROVE Seen'
  BY DEF Seen
<1> USE DEF watch
<1>1. Settled /\ up /\ last # 0 /\ ~raced
  BY DEF Edit
<1>2. WatchIsTrue
  BY <1>1, SetUpEnds DEF Seen, Noticed, Settled, Threads
<1>3. UNCHANGED <<up, last, checksum, data, timer, pc>>
  BY DEF Edit
<1>4. Settled' /\ WatchIsTrue'
  BY <1>1, <1>2, <1>3 DEF Settled, WatchIsTrue
<1> QED
  BY <1>4 DEF Seen

\* A tick finds a difference only in a watch that has been set up.
LEMMA TickSeen ==
  ASSUME TypeOK, Ownership, Seen, NEW t \in Tokens, Tick(t)
  PROVE  Seen'
<1> SUFFICES ASSUME up', last' # 0, ~raced' PROVE Seen'
  BY DEF Seen
<1>1. t = last /\ t \in Threads /\ up /\ last # 0 /\ ~raced /\ pc[t] = "idle"
  BY DEF Tick, Ownership, Holds, Threads
<1>2. checksum'[last'] = file' /\ file' # None /\ timer[last]
  BY <1>1, SettingsFit DEF Tick, TypeOK, Files
<1>3. UNCHANGED <<file, data, last, timer, up, raced>>
  BY DEF Tick
<1>4. CASE Noticed /\ Alone
  BY <1>1, <1>4 DEF Noticed, Alone, Threads
<1>5. CASE SetUp
  <2>1. pc' = pc
    BY <1>1, <1>5 DEF Tick, TypeOK, SetUp, Differs
  <2>2. SetUp'
    BY <1>2, <1>3, <1>5, <2>1 DEF SetUp, LoadedSoFar, Loading
  <2> QED
    BY <2>2 DEF Seen
<1>6. CASE Settled /\ WatchIsTrue
  <2>1. checksum[last] # None
    BY <1>2, <1>6 DEF Settled
  <2>2. CASE Differs(t)
    <3>1. \A u \in Threads : pc'[u] = IF u = t THEN "notify" ELSE "idle"
      BY <1>1, <1>6, <2>2 DEF Tick, TypeOK, Settled
    <3>2. Noticed' /\ Alone'
      BY <1>1, <1>3, <3>1 DEF Noticed, Alone
    <3> QED
      BY <3>2 DEF Seen
  <2>3. CASE ~Differs(t)
    <3>1. pc' = pc /\ checksum[last] = file
      BY <1>1, <2>1, <2>3 DEF Tick, TypeOK, Differs
    <3>2. Settled' /\ WatchIsTrue'
      BY <1>2, <1>3, <1>6, <3>1 DEF Settled, WatchIsTrue
    <3> QED
      BY <3>2 DEF Seen
  <2> QED
    BY <2>2, <2>3
<1> QED
  BY <1>1, <1>4, <1>5, <1>6 DEF Seen

\* A thread that is notified goes on to reload.
LEMMA NotifySeen ==
  ASSUME TypeOK, Ownership, Armed, Seen, NEW t \in Threads, Notify(t)
  PROVE  Seen'
<1> USE DEF watch
<1> SUFFICES ASSUME up', last' # 0, ~raced' PROVE Seen'
  BY DEF Seen
<1>1. up /\ last # 0 /\ ~raced /\ pc[t] = "notify" /\ ~Settled
  BY DEF Notify, Settled
<1>2. t \in Tokens /\ t = last
  BY <1>1 DEF Ownership, MainHolds, Holds, Threads
<1>3. Alone
  BY <1>1, <1>2 DEF Seen, SetUp
<1>4. \A u \in Threads : u # t => pc[u] = "idle"
  BY <1>2, <1>3 DEF Alone
<1>5. callback[t]
  <2>1. pc[Main] # "register"
    BY <1>1, <1>4 DEF Threads
  <2>2. \A u \in Tokens : pc[u] \notin After
    BY <1>1, <1>4 DEF Threads, After
  <2> QED
    BY <1>1, <1>2, <2>1, <2>2 DEF Armed
<1>6. \A u \in Threads : pc'[u] = IF u = t THEN "watch" ELSE "idle"
  BY <1>4, <1>5 DEF Notify, TypeOK
<1>7. Noticed' /\ Alone'
  BY <1>2, <1>6 DEF Notify, Noticed, Alone, Threads
<1> QED
  BY <1>7 DEF Seen

\* A new watch starts without a checksum, with a timer if there is a file.
LEMMA WatchSeen ==
  ASSUME TypeOK, Ownership, NEW t \in Threads, Watch(t)
  PROVE  Seen'
<1>1. /\ last' = last + 1 /\ last' \in Tokens
      /\ checksum'[last'] = None /\ timer'[last'] = (file' # Missing)
  BY SettingsFit DEF Watch, Disposed, TypeOK, Ownership, Holds, Tokens
<1>2. \A u \in Threads :
        pc'[u] = IF u # t THEN pc[u] ELSE IF t = Main THEN "register" ELSE "clear"
  BY DEF Watch, TypeOK
<1>3. \A u \in Tokens : pc'[u] \notin {"notify", "watch"}
  <2>1. CASE t = Main
    <3>1. last = 0
      BY <2>1 DEF Watch, Ownership, MainHolds
    <3> QED
      BY <1>2, <2>1, <3>1 DEF Ownership, DownIsEmpty, Threads, Main, Tokens
  <2>2. CASE t \in Tokens
    BY <1>2, <2>2 DEF Watch, Ownership, Holds, Threads
  <2> QED
    BY <2>1, <2>2 DEF Threads
<1>4. LoadedSoFar'
  <2>1. CASE t = Main
    <3>1. last = 0 /\ data' = Empty
      BY <2>1 DEF Watch, Ownership, MainHolds, DownIsEmpty
    <3>2. last' = 1 /\ pc'[Main] = "register"
      BY <1>1, <1>2, <2>1, <3>1
    <3> QED
      BY <3>1, <3>2 DEF LoadedSoFar
  <2>2. CASE t \in Tokens
    BY <1>2, <2>2 DEF LoadedSoFar, Tokens, Main
  <2> QED
    BY <2>1, <2>2 DEF Threads
<1> QED
  BY <1>1, <1>3, <1>4 DEF Seen, SetUp

\* The last steps of a set-up: nobody is told of a change meanwhile.
LEMMA SetUpSeen ==
  ASSUME TypeOK, Ownership, Seen, NEW t \in Threads, pc[t] \in After,
         UNCHANGED <<file, up, last, timer, checksum, raced>>,
         NEW l \in {"idle", "load", "register"}, pc' = [pc EXCEPT ![t] = l],
         LoadedSoFar => LoadedSoFar'
  PROVE  Seen'
<1> SUFFICES ASSUME up', last' # 0, ~raced' PROVE Seen'
  BY DEF Seen
<1>1. ~Settled /\ pc[t] \notin {"idle", "notify", "watch"}
  BY DEF Settled, After
<1>2. ~(Noticed /\ Alone)
  BY <1>1 DEF Noticed, Alone, Threads
<1>3. SetUp
  BY <1>1, <1>2 DEF Seen
<1>4. SetUp'
  BY <1>3 DEF SetUp, TypeOK, Threads
<1> QED
  BY <1>4 DEF Seen

\* Without an edit during it, no step lets what is loaded and what is
\* compared with come apart.
LEMMA NextSeen ==
  ASSUME TypeOK, Ownership, Armed, Seen, [Next]_vars
  PROVE  Seen'
<1> USE DEF watch, binding
<1>1. CASE Edit
  BY <1>1, EditSeen
<1>2. CASE Restart
  BY <1>2 DEF Restart, Ownership, DownIsEmpty, Seen
<1>3. CASE LoadNothing
  <2>1. LoadedSoFar => LoadedSoFar'
    BY <1>3 DEF LoadNothing, LoadedSoFar, Loading, TypeOK, Threads, Main, Tokens
  <2> QED
    BY <1>3, <2>1, SetUpSeen DEF LoadNothing, After, Threads
<1>4. ASSUME NEW t \in Tokens, Tick(t) PROVE Seen'
  BY <1>4, TickSeen
<1>5. ASSUME NEW t \in Tokens, TickThrows(t) PROVE Seen'
  BY <1>5, DieSeen DEF TickThrows
<1>6. ASSUME NEW t \in Threads, Work(t) PROVE Seen'
  <2>1. CASE Notify(t)
    BY <2>1, NotifySeen
  <2>2. CASE Watch(t)
    BY <2>2, WatchSeen
  <2>3. CASE Register(t)
    <3>1. \A u \in Threads : u # t => pc'[u] = pc[u]
      BY <2>3 DEF Register, TypeOK
    <3>2. pc[t] = "register" /\ (t = Main => pc'[t] = "load")
      BY <2>3 DEF Register, TypeOK
    <3>3. LoadedSoFar => LoadedSoFar'
      BY <2>3, <3>1, <3>2 DEF Register, LoadedSoFar, Loading, Threads
    <3> QED
      BY <2>3, <3>3, SetUpSeen DEF Register, After
  <2>4. CASE Clear(t)
    <3>1. t \in Tokens
      BY <2>4 DEF Clear, Ownership, MainHolds, Threads
    <3>2. pc'[t] = IF file = Missing THEN "register" ELSE "load"
      BY <2>4 DEF Clear, TypeOK
    <3>3. LoadedSoFar'
      BY <2>4, <3>1, <3>2 DEF Clear, LoadedSoFar, Loading
    <3> QED
      BY <2>4, <3>3, SetUpSeen DEF Clear, After
  <2>5. CASE Load(t)
    <3>1. AfterLoad(t) \in {"idle", "register"}
      BY DEF AfterLoad
    <3>2. LoadedSoFar'
      BY <2>5, SettingsFit DEF Load, LoadedSoFar, Loading
    <3> QED
      BY <2>5, <3>1, <3>2, SetUpSeen DEF Load, After
  <2>6. CASE LoadThrows(t)
    BY <2>6, DieSeen DEF LoadThrows
  <2> QED
    BY <1>6, <2>1, <2>2, <2>3, <2>4, <2>5, <2>6 DEF Work
<1>7. ASSUME NEW r \in Requests, Arrive(r) \/ Handle(r) PROVE Seen'
  BY <1>7, SameSeen DEF Arrive, Handle, Validate, Refuse, Bind
<1>8. CASE Quiet \/ UNCHANGED vars
  BY <1>8, SameSeen DEF Quiet, vars
<1> QED
  BY <1>1, <1>2, <1>3, <1>4, <1>5, <1>6, <1>7, <1>8 DEF Next

-----------------------------------------------------------------------------
(* Requests. *)

\* No request has come yet.
LEMMA InitAtOnce == Init => AtOnce
BY DEF Init, AtOnce, Whole

\* A request in flight goes with the process, one that was answered stays so.
LEMMA DieAtOnce ==
  ASSUME TypeOK, AtOnce, Die
  PROVE  AtOnce'
BY DEF TypeOK, Die, AtOnce, Whole

\* Steps that touch neither the settings nor the requests.
LEMMA SameAtOnce ==
  ASSUME AtOnce, UNCHANGED <<data, binding>>
  PROVE  AtOnce'
BY DEF AtOnce, Whole, Provided, binding

\* A reload marks every request it overlaps.
LEMMA OverlapAtOnce ==
  ASSUME TypeOK, AtOnce, Overlap, UNCHANGED <<step, at, bound>>
  PROVE  AtOnce'
<1> SUFFICES ASSUME NEW r \in Requests
             PROVE  (Whole(r) /\ (step[r] = "idle" => at[r] = 1))'
  BY DEF AtOnce
<1>1. overlapped'[r] = (overlapped[r] \/ step[r] \in {"validate", "bind"})
  BY DEF Overlap
<1> QED
  BY <1>1 DEF AtOnce, Whole

\* A request starts with the first key.
LEMMA ArriveAtOnce ==
  ASSUME TypeOK, AtOnce, NEW r \in Requests, Arrive(r)
  PROVE  AtOnce'
<1> SUFFICES ASSUME NEW q \in Requests
             PROVE  (Whole(q) /\ (step[q] = "idle" => at[q] = 1))'
  BY DEF AtOnce
<1>1. CASE q = r
  BY <1>1 DEF Arrive, AtOnce, Whole, TypeOK
<1>2. CASE q # r
  BY <1>2 DEF Arrive, AtOnce, Whole, TypeOK, Provided
<1> QED
  BY <1>1, <1>2

\* A key that has a value is passed, and after the last one all have.
LEMMA ValidateAtOnce ==
  ASSUME TypeOK, AtOnce, NEW r \in Requests, Validate(r)
  PROVE  AtOnce'
<1> SUFFICES ASSUME NEW q \in Requests
             PROVE  (Whole(q) /\ (step[q] = "idle" => at[q] = 1))'
  BY DEF AtOnce
<1> USE DEF Validate, NextKey, HasValue
<1>1. CASE q = r
  <2>1. at[r] \in 1 .. Len(Keys) /\ Len(Keys) \in Nat \ {0}
    BY KeysAreIndexed DEF TypeOK
  <2>2. ~overlapped[r] => \A k \in 1 .. at[r] : Provided(Keys[k])
    BY <2>1 DEF AtOnce, Whole
  <2>3. UNCHANGED <<data, bound, overlapped>> /\ \A k : Provided(k)' = Provided(k)
    BY DEF Provided
  <2>4. CASE at[r] = Len(Keys)
    <3>1. at'[r] = 1 /\ step'[r] = "bind"
      BY <2>4 DEF TypeOK
    <3>2. ~overlapped[r] => \A m \in Members : Provided(m)
      BY <2>2, <2>4, KeysAreIndexed
    <3> QED
      BY <1>1, <2>3, <3>1, <3>2 DEF Whole
  <2>5. CASE at[r] # Len(Keys)
    <3>1. at'[r] = at[r] + 1 /\ step'[r] = "validate"
      BY <2>5 DEF TypeOK
    <3> QED
      BY <1>1, <2>1, <2>2, <2>3, <3>1 DEF Whole
  <2> QED
    BY <2>4, <2>5
<1>2. CASE q # r
  BY <1>2 DEF AtOnce, Whole, TypeOK, Provided
<1> QED
  BY <1>1, <1>2

\* A key is bound to the value of the document loaded, and after the last one
\* all are.
LEMMA BindAtOnce ==
  ASSUME TypeOK, AtOnce, NEW r \in Requests, Bind(r)
  PROVE  AtOnce'
<1> SUFFICES ASSUME NEW q \in Requests
             PROVE  (Whole(q) /\ (step[q] = "idle" => at[q] = 1))'
  BY DEF AtOnce
<1> USE DEF Bind, NextKey
<1>1. CASE q = r
  <2>1. at[r] \in 1 .. Len(Keys) /\ Len(Keys) \in Nat \ {0} /\ Keys[at[r]] \in Members
    BY KeysAreIndexed DEF TypeOK
  <2>2. UNCHANGED <<data, overlapped>> /\ \A k : Provided(k)' = Provided(k)
    BY DEF Provided
  <2>3. CASE overlapped[r]
    BY <1>1, <2>1, <2>2, <2>3 DEF Whole, TypeOK
  <2>4. CASE ~overlapped[r]
    <3>1. \A m \in Members : Provided(m)
      BY <2>4 DEF AtOnce, Whole
    <3>2. \A m \in Members : bound'[r][m] = IF m = Keys[at[r]] THEN data ELSE bound[r][m]
      BY <2>1, <3>1 DEF TypeOK
    <3>3. \A k \in 1 .. at[r] - 1 : bound[r][Keys[k]] = data
      BY <2>4 DEF AtOnce, Whole
    <3>4. \A k \in 1 .. at[r] : bound'[r][Keys[k]] = data
      <4>1. ASSUME NEW k \in 1 .. at[r] PROVE bound'[r][Keys[k]] = data
        <5>1. Keys[k] \in Members
          BY <2>1, KeysAreIndexed
        <5>2. k = at[r] \/ k \in 1 .. at[r] - 1
          BY <2>1
        <5> QED
          BY <3>2, <3>3, <5>1, <5>2
      <4> QED
        BY <4>1
    <3>5. CASE at[r] = Len(Keys)
      <4>1. at'[r] = 1 /\ step'[r] = "served"
        BY <3>5 DEF TypeOK
      <4>2. \A m \in Members : bound'[r][m] = data
        BY <3>4, <3>5, KeysAreIndexed
      <4>3. data \in Contents /\ Members \subseteq Gives[data]
        BY <2>1, <3>1 DEF Provided, TypeOK, Settings
      <4>4. Gives[data] = Members
        BY <4>3, SettingsFit
      <4> QED
        BY <1>1, <2>2, <4>1, <4>2, <4>3, <4>4 DEF Whole
    <3>6. CASE at[r] # Len(Keys)
      <4>1. at'[r] = at[r] + 1 /\ step'[r] = "bind"
        BY <3>6 DEF TypeOK
      <4> QED
        BY <1>1, <2>1, <2>2, <3>1, <3>4, <4>1 DEF Whole
    <3> QED
      BY <3>5, <3>6
  <2> QED
    BY <2>3, <2>4
<1>2. CASE q # r
  BY <1>2 DEF AtOnce, Whole, TypeOK, Provided
<1> QED
  BY <1>1, <1>2

\* No step mixes what a request has read, unless it marks the request.
LEMMA NextAtOnce ==
  ASSUME TypeOK, AtOnce, [Next]_vars
  PROVE  AtOnce'
<1>1. CASE Edit \/ Restart \/ LoadNothing
  BY <1>1, SameAtOnce DEF Edit, Restart, LoadNothing
<1>2. ASSUME NEW t \in Tokens, Tick(t) \/ TickThrows(t) PROVE AtOnce'
  BY <1>2, SameAtOnce, DieAtOnce DEF Tick, TickThrows
<1>3. ASSUME NEW t \in Threads, Work(t) PROVE AtOnce'
  <2>1. CASE Notify(t) \/ Watch(t) \/ Register(t)
    BY <2>1, SameAtOnce DEF Notify, Watch, Register
  <2>2. CASE Clear(t) \/ Load(t)
    BY <2>2, OverlapAtOnce DEF Clear, Load
  <2>3. CASE LoadThrows(t)
    BY <2>3, DieAtOnce DEF LoadThrows
  <2> QED
    BY <1>3, <2>1, <2>2, <2>3 DEF Work
<1>4. ASSUME NEW r \in Requests, Arrive(r) PROVE AtOnce'
  BY <1>4, ArriveAtOnce
<1>5. ASSUME NEW r \in Requests, Handle(r) PROVE AtOnce'
  <2>1. CASE Refuse(r)
    <3>1. \A q \in Requests : step'[q] = IF q = r THEN "refused" ELSE step[q]
      BY <2>1 DEF Refuse, TypeOK
    <3>2. UNCHANGED <<data, at, bound, overlapped>>
      BY <2>1 DEF Refuse
    <3> QED
      BY <3>1, <3>2 DEF AtOnce, Whole, Provided
  <2> QED
    BY <1>5, <2>1, ValidateAtOnce, BindAtOnce DEF Handle
<1>6. CASE Quiet \/ UNCHANGED vars
  BY <1>6, SameAtOnce DEF Quiet, vars
<1> QED
  BY <1>1, <1>2, <1>3, <1>4, <1>5, <1>6 DEF Next

-----------------------------------------------------------------------------
(* The invariant and what follows from it. *)

\* IInv holds in every behaviour.
LEMMA Invariance == Spec => []IInv
<1>1. Init => IInv
  BY InitTypes, InitOwnership, InitArmed, InitSeen, InitAtOnce DEF IInv
<1>2. IInv /\ [Next]_vars => IInv'
  BY NextTypes, NextOwnership, NextArmed, NextSeen, NextAtOnce DEF IInv
<1> QED
  BY <1>1, <1>2, PTL DEF Spec

\* OnChangeTokenFired never runs twice at once, no one registers with a token
\* that has been disposed of, and no change is loaded twice, whatever the
\* edits, ticks and restarts.
THEOREM OneReloadHolds == Spec => []OneReload
<1>1. ASSUME IInv PROVE OneReload
  <2> USE <1>1 DEF IInv, Ownership
  <2>1. ASSUME NEW t \in Tokens, NEW u \in Tokens, Reloading(t), Reloading(u)
        PROVE  t = u
    <3>1. pc[t] = "watch" => t = last /\ callback[last]
      BY DEF Holds
    <3>2. pc[t] \in After => last = t + 1 /\ ~callback[last]
      BY DEF Holds
    <3>3. pc[u] = "watch" => u = last /\ callback[last]
      BY DEF Holds
    <3>4. pc[u] \in After => last = u + 1 /\ ~callback[last]
      BY DEF Holds
    <3> QED
      BY <2>1, <3>1, <3>2, <3>3, <3>4, SettingsFit DEF Reloading, After, Tokens
  <2>2. \A t \in Threads : pc[t] = "register" => took[t] = last
    BY DEF MainHolds, Holds, Threads, After
  <2>3. \A t \in Tokens : timer[t] \/ callback[t] => t = last
    BY DEF Holds
  <2> QED
    BY <2>1, <2>2, <2>3 DEF OneReload
<1> QED
  BY <1>1, Invariance, PTL

\* Somebody is registered with a watch that has been set up, and unless an edit
\* fell into its set-up the settings are those its next tick compares with.
THEOREM SettledWatchHolds == Spec => []SettledWatchIsTrue
<1>1. ASSUME IInv, Settled PROVE callback[last] /\ (~raced => WatchIsTrue)
  <2>1. up /\ last # 0 /\ \A t \in Threads : pc[t] = "idle"
    BY <1>1 DEF Settled
  <2>2. callback[last]
    BY <1>1, <2>1 DEF IInv, Armed, After, Threads
  <2>3. ~raced => WatchIsTrue
    BY <1>1, <2>1, SetUpEnds DEF IInv, Seen, Noticed, Threads
  <2> QED
    BY <2>2, <2>3
<1>2. IInv => SettledWatchIsTrue
  BY <1>1 DEF SettledWatchIsTrue, WatchIsTrue
<1> QED
  BY <1>2, Invariance, PTL

\* A request is served with all the settings of one document, unless they were
\* reloaded while ValidateAndBind read them.
THEOREM ServedAreWholeHolds == Spec => []ServedAreWhole
<1>1. IInv => ServedAreWhole
  BY DEF IInv, AtOnce, Whole, ServedAreWhole
<1> QED
  BY <1>1, Invariance, PTL

=============================================================================
