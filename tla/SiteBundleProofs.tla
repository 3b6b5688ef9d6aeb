--------------------------- MODULE SiteBundleProofs ---------------------------
(***************************************************************************)
(* What the comments of the site's build configuration promise holds for   *)
(* every checkout, shell and set of .env files, and for every order in     *)
(* which its modules are required.                                         *)
(*                                                                         *)
(* env.js runs once: before that process.env is the shell's and no module  *)
(* is late, after that process.env does not change.  A module that is      *)
(* being loaded ranks below the one that required it, so none is loaded    *)
(* twice, and webpack.config.js reads its switches when env.js has run.    *)
(***************************************************************************)
EXTENDS SiteBundle, SequenceTheorems, WellFoundedInduction, TLAPS

Frame == [module : Modules, next : Nat \ {0}]

\* Requires leads downwards.
Rank == [paths |-> 0, env |-> 1, modules |-> 1, devServer |-> 1, webpack |-> 2]

StackOK ==
  /\ stack \in Seq(Frame)
  /\ \A i \in 1 .. Len(stack) :
       stack[i].module \notin cache /\ stack[i].next \in 1 .. Len(Requires[stack[i].module]) + 1
  /\ \A i, j \in 1 .. Len(stack) : i < j => Rank[stack[i].module] < Rank[stack[j].module]
  /\ \A i \in 1 .. Len(stack) :
       stack[i].module = "webpack" /\ stack[i].next = 4 => "env" \in cache

Ranges ==
  /\ project \in Projects
  /\ cache \subseteq Modules /\ late \subseteq Modules
  /\ switches \in [maps : BOOLEAN, inline : BOOLEAN]
  /\ thrown \in BOOLEAN
  /\ thrown => stack = <<>>

\* Before env.js.
Before == "env" \notin cache => late = {} /\ env = project.shell

\* A cached paths.js has read what env.js has left.
CachedPaths == "env" \in cache /\ "paths" \in cache => served = env.PUBLIC_URL

\* m is being loaded.
OnStack(m) == \E i \in 1 .. Len(stack) : stack[i].module = m

\* A module gets hold of paths.js while it is loaded.
Holder(m) == m \in cache \/ thrown \/ OnStack(m)

PathsAreHeld ==
  /\ paths = [m \in Modules |-> paths[m]] /\ paths["paths"] = Null
  /\ \A m \in Modules : paths[m] # Null => Holder(m)

\* env.js leaves relative folders only.
CleanFolders ==
  "env" \in cache => \A k \in DOMAIN FoldersOf(env.NODE_PATH) :
                       FoldersOf(env.NODE_PATH)[k].kind = "resolved"

\* webpack.config.js reads its switch after env.js.
SwitchRead ==
  "webpack" \in cache =>
    "env" \in cache /\ switches.maps = (env.GENERATE_SOURCEMAP # "false")

\* The source maps of a production bundle are what the environment says by now.
MapsFollowEnv ==
  bundle # Null /\ bundle.mode = "production" =>
    LET wanted == env.GENERATE_SOURCEMAP # "false" IN
    /\ (bundle.devtool = "source-map") = wanted
    /\ bundle.minifierMaps = wanted
    /\ \A rule \in StyleRules :
         (\A loader \in MappingLoaders(rule) : bundle.styleMaps[rule][loader]) = wanted

BundleHasSource == bundle # Null => "webpack" \in cache

IInv ==
  /\ StackOK /\ Ranges
  /\ Before /\ CachedPaths /\ PathsAreHeld /\ CleanFolders /\ SwitchRead /\ BundleHasSource
  /\ LatePathsFollowEnv /\ DotenvPrecedence /\ OnlyRelativeFolders /\ MapsFollowEnv

-----------------------------------------------------------------------------
(* The stack. *)

\* What a module requires has a lower rank; the last of webpack's is env.js.
LEMMA RequiresLeadDown ==
  /\ \A m \in Modules :
       /\ Rank[m] \in Nat /\ Requires[m] \in Seq(Modules) /\ Len(Requires[m]) \in Nat
       /\ \A k \in 1 .. Len(Requires[m]) :
            Requires[m][k] \in Modules /\ Rank[Requires[m][k]] < Rank[m]
  /\ Len(Requires["webpack"]) = 3 /\ Requires["webpack"][3] = "env"
BY DEF Modules, Requires, Rank

\* Two modules on the stack are two.
LEMMA NoneTwice ==
  ASSUME StackOK, NEW i \in 1 .. Len(stack), NEW j \in 1 .. Len(stack),
         stack[i].module = stack[j].module
  PROVE  i = j
<1>1. stack[i] \in Frame /\ stack[j] \in Frame /\ Len(stack) \in Nat
  BY ElementOfSeq, LenProperties DEF StackOK
<1>2. Rank[stack[i].module] \in Nat
  BY <1>1, RequiresLeadDown DEF Frame
<1> QED
  BY <1>1, <1>2 DEF StackOK

\* Beginning a module puts it on top.
LEMMA Pushed ==
  ASSUME NEW s \in Seq(Frame), NEW m \in Modules, NEW t, t = <<[module |-> m, next |-> 1]>> \o s
  PROVE  /\ t \in Seq(Frame) /\ Len(s) \in Nat /\ Len(t) = Len(s) + 1
         /\ t[1] = [module |-> m, next |-> 1]
         /\ \A i \in 2 .. Len(t) : i - 1 \in 1 .. Len(s) /\ t[i] = s[i - 1]
         /\ \A i \in 1 .. Len(s) : i + 1 \in 1 .. Len(t) /\ t[i + 1] = s[i]
<1> DEFINE u == <<[module |-> m, next |-> 1]>>
<1>1. u \in Seq(Frame) /\ Len(u) = 1 /\ u[1] = [module |-> m, next |-> 1]
  BY DEF Frame
<1>2. t = u \o s
  OBVIOUS
<1> HIDE DEF u
<1>3. /\ t \in Seq(Frame) /\ Len(t) = 1 + Len(s) /\ Len(s) \in Nat
      /\ \A i \in 1 .. 1 + Len(s) : t[i] = IF i <= 1 THEN u[i] ELSE s[i - 1]
  BY <1>1, <1>2, ConcatProperties, LenProperties
<1> QED
  BY <1>1, <1>3

\* Leaving a module takes it off.
LEMMA Popped ==
  ASSUME NEW s \in Seq(Frame), s # <<>>, NEW t, t = Tail(s)
  PROVE  /\ t \in Seq(Frame) /\ Len(s) \in Nat \ {0} /\ Len(t) = Len(s) - 1
         /\ \A i \in 1 .. Len(t) : i + 1 \in 2 .. Len(s) /\ t[i] = s[i + 1]
         /\ \A i \in 2 .. Len(s) : i - 1 \in 1 .. Len(t) /\ t[i - 1] = s[i]
<1>1. Len(s) \in Nat \ {0}
  BY EmptySeq
<1>2. t \in Seq(Frame) /\ Len(t) = Len(s) - 1 /\ \A i \in 1 .. Len(t) : t[i] = s[i + 1]
  BY HeadTailProperties
<1> QED
  BY <1>1, <1>2

\* Going on to the next require changes the top only.
LEMMA Advanced ==
  ASSUME NEW s \in Seq(Frame), s # <<>>, NEW t, t = [s EXCEPT ![1].next = @ + 1]
  PROVE  /\ t \in Seq(Frame) /\ Len(t) = Len(s) /\ Len(s) \in Nat \ {0}
         /\ t[1].module = s[1].module /\ t[1].next = s[1].next + 1
         /\ \A i \in 2 .. Len(s) : t[i] = s[i]
<1>1. Len(s) \in Nat \ {0} /\ 1 \in 1 .. Len(s) /\ s[1] \in Frame
  BY EmptySeq, ElementOfSeq
<1> DEFINE e == [s[1] EXCEPT !.next = @ + 1]
<1>2. e \in Frame /\ e.module = s[1].module /\ e.next = s[1].next + 1
  BY <1>1 DEF Frame
<1>3. t = [s EXCEPT ![1] = e]
  OBVIOUS
<1> HIDE DEF e
<1>4. /\ t \in Seq(Frame) /\ Len(t) = Len(s)
      /\ \A j \in 1 .. Len(s) : t[j] = IF j = 1 THEN e ELSE s[j]
  BY <1>1, <1>2, <1>3, ExceptSeq
<1> QED
  BY <1>1, <1>2, <1>4

\* The top of the stack.
LEMMA TopFacts ==
  ASSUME StackOK, stack # <<>>
  PROVE  /\ Len(stack) \in Nat \ {0} /\ 1 \in 1 .. Len(stack)
         /\ stack[1] \in Frame /\ Top \in Modules \ cache
         /\ stack[1].next \in 1 .. Len(Requires[Top]) + 1
         /\ \A i \in 2 .. Len(stack) :
              stack[i] \in Frame /\ Rank[Top] < Rank[stack[i].module] /\ Top # stack[i].module
<1>1. Len(stack) \in Nat \ {0} /\ 1 \in 1 .. Len(stack)
  BY EmptySeq DEF StackOK
<1>2. \A i \in 1 .. Len(stack) : stack[i] \in Frame
  BY ElementOfSeq DEF StackOK
<1>3. Top \in Modules \ cache /\ stack[1].next \in 1 .. Len(Requires[Top]) + 1
  BY <1>1, <1>2 DEF StackOK, Frame, Top
<1>4. ASSUME NEW i \in 2 .. Len(stack)
      PROVE  Rank[Top] < Rank[stack[i].module] /\ Top # stack[i].module
  <2>1. i \in 1 .. Len(stack) /\ 1 < i
    BY <1>1
  <2>2. Rank[Top] < Rank[stack[i].module]
    BY <1>1, <2>1 DEF StackOK, Top
  <2>3. Rank[Top] \in Nat
    BY <1>3, RequiresLeadDown
  <2> QED
    BY <2>2, <2>3
<1> QED
  BY <1>1, <1>2, <1>3, <1>4

\* A module that ranks below all that are being loaded may be begun.
LEMMA BeginKeepsStack ==
  ASSUME StackOK, NEW m \in Modules \ cache, Begin(m), cache' = cache,
         stack # <<>> => Rank[m] < Rank[Top]
  PROVE  StackOK' /\ OnStack(m)' /\ \A x : OnStack(x) => OnStack(x)'
<1>1. /\ stack' \in Seq(Frame) /\ Len(stack) \in Nat /\ Len(stack') = Len(stack) + 1
      /\ stack'[1] = [module |-> m, next |-> 1]
      /\ \A i \in 2 .. Len(stack') : i - 1 \in 1 .. Len(stack) /\ stack'[i] = stack[i - 1]
      /\ \A i \in 1 .. Len(stack) : i + 1 \in 1 .. Len(stack') /\ stack'[i + 1] = stack[i]
  BY Pushed DEF StackOK, Begin
<1>2. Len(Requires[m]) \in Nat /\ Rank[m] \in Nat
  BY RequiresLeadDown
<1>3. \A i \in 1 .. Len(stack) : stack[i] \in Frame /\ Rank[stack[i].module] \in Nat
  <2>1. \A i \in 1 .. Len(stack) : stack[i] \in Frame
    BY ElementOfSeq DEF StackOK
  <2>2. \A i \in 1 .. Len(stack) : stack[i].module \in Modules
    BY <2>1 DEF Frame
  <2> QED
    BY <2>1, <2>2, RequiresLeadDown
<1>4. \A i \in 1 .. Len(stack) : Rank[m] < Rank[stack[i].module]
  <2> SUFFICES ASSUME NEW i \in 1 .. Len(stack) PROVE Rank[m] < Rank[stack[i].module]
    OBVIOUS
  <2>1. stack # <<>>
    BY EmptySeq
  <2>2. i = 1 \/ i \in 2 .. Len(stack)
    BY <1>1
  <2>3. CASE i = 1
    BY <2>1, <2>3 DEF Top
  <2>4. CASE i \in 2 .. Len(stack)
    <3>1. Rank[Top] < Rank[stack[i].module] /\ Rank[Top] \in Nat
      BY <2>1, <2>4, TopFacts, RequiresLeadDown
    <3> QED
      BY <1>2, <1>3, <2>1, <3>1
  <2> QED
    BY <2>2, <2>3, <2>4
<1>5. ASSUME NEW i \in 1 .. Len(stack')
      PROVE  /\ stack'[i].module \notin cache'
             /\ stack'[i].next \in 1 .. Len(Requires[stack'[i].module]) + 1
             /\ stack'[i].module = "webpack" /\ stack'[i].next = 4 => "env" \in cache'
  <2>1. i = 1 \/ i \in 2 .. Len(stack')
    BY <1>1
  <2>2. CASE i = 1
    <3>1. stack'[i].module = m /\ stack'[i].next = 1
      BY <1>1, <2>2
    <3> QED
      BY <1>2, <3>1
  <2>3. CASE i \in 2 .. Len(stack')
    BY <1>1, <2>3 DEF StackOK
  <2> QED
    BY <2>1, <2>2, <2>3
<1>6. ASSUME NEW i \in 1 .. Len(stack'), NEW j \in 1 .. Len(stack'), i < j
      PROVE  Rank[stack'[i].module] < Rank[stack'[j].module]
  <2>1. j \in 2 .. Len(stack') /\ (i = 1 \/ i \in 2 .. Len(stack'))
    BY <1>1, <1>6
  <2>2. CASE i = 1
    BY <1>1, <1>4, <2>1, <2>2
  <2>3. CASE i \in 2 .. Len(stack')
    <3>1. i - 1 < j - 1
      BY <1>1, <1>6
    <3> QED
      BY <1>1, <2>1, <2>3, <3>1 DEF StackOK
  <2> QED
    BY <2>1, <2>2, <2>3
<1>7. OnStack(m)' /\ \A x : OnStack(x) => OnStack(x)'
  <2>1. 1 \in 1 .. Len(stack')
    BY <1>1
  <2> QED
    BY <1>1, <2>1 DEF OnStack
<1> QED
  BY <1>1, <1>5, <1>6, <1>7 DEF StackOK

\* A module that has been loaded leaves the stack.
LEMMA LoadedKeepsStack ==
  ASSUME StackOK, NEW m \in Modules, stack # <<>>, Top = m, stack' = Tail(stack),
         cache' \subseteq cache \cup {m}, "env" \in cache => "env" \in cache'
  PROVE  StackOK' /\ m \notin cache /\ \A x : OnStack(x) => x = m \/ OnStack(x)'
<1>1. /\ stack' \in Seq(Frame) /\ Len(stack) \in Nat \ {0} /\ Len(stack') = Len(stack) - 1
      /\ \A i \in 1 .. Len(stack') : i + 1 \in 2 .. Len(stack) /\ stack'[i] = stack[i + 1]
      /\ \A i \in 2 .. Len(stack) : i - 1 \in 1 .. Len(stack') /\ stack'[i - 1] = stack[i]
  BY Popped DEF StackOK
<1>2. ASSUME NEW i \in 1 .. Len(stack')
      PROVE  /\ stack'[i].module \notin cache'
             /\ stack'[i].next \in 1 .. Len(Requires[stack'[i].module]) + 1
             /\ stack'[i].module = "webpack" /\ stack'[i].next = 4 => "env" \in cache'
  <2>1. i + 1 \in 2 .. Len(stack) /\ i + 1 \in 1 .. Len(stack) /\ stack'[i] = stack[i + 1]
    BY <1>1
  <2>2. stack[i + 1].module # m
    BY <2>1, TopFacts
  <2> QED
    BY <2>1, <2>2 DEF StackOK
<1>3. ASSUME NEW i \in 1 .. Len(stack'), NEW j \in 1 .. Len(stack'), i < j
      PROVE  Rank[stack'[i].module] < Rank[stack'[j].module]
  <2>1. i + 1 \in 1 .. Len(stack) /\ j + 1 \in 1 .. Len(stack) /\ i + 1 < j + 1
    BY <1>1, <1>3
  <2> QED
    BY <1>1, <2>1 DEF StackOK
<1>4. ASSUME NEW x, OnStack(x), x # m PROVE OnStack(x)'
  <2>1. PICK i \in 1 .. Len(stack) : stack[i].module = x
    BY <1>4 DEF OnStack
  <2>2. i # 1
    BY <1>4, <2>1 DEF Top
  <2>3. i \in 2 .. Len(stack)
    BY <1>1, <2>2
  <2> QED
    BY <1>1, <2>1, <2>3 DEF OnStack
<1> QED
  BY <1>1, <1>2, <1>3, <1>4, TopFacts DEF StackOK

\* What the top requires next is there, so it goes on.
LEMMA AdvanceKeepsStack ==
  ASSUME StackOK, stack # <<>>, stack[1].next <= Len(Requires[Top]),
         Requires[Top][stack[1].next] \in cache,
         stack' = [stack EXCEPT ![1].next = @ + 1], cache' = cache
  PROVE  StackOK' /\ \A x : OnStack(x) => OnStack(x)'
<1>1. /\ stack' \in Seq(Frame) /\ Len(stack') = Len(stack) /\ Len(stack) \in Nat \ {0}
      /\ stack'[1].module = stack[1].module /\ stack'[1].next = stack[1].next + 1
      /\ \A i \in 2 .. Len(stack) : stack'[i] = stack[i]
  <2>1. stack \in Seq(Frame)
    BY DEF StackOK
  <2> QED
    BY <2>1, Advanced
<1>2. \A i \in 1 .. Len(stack) : stack'[i].module = stack[i].module
  <2> TAKE i \in 1 .. Len(stack)
  <2>1. i = 1 \/ i \in 2 .. Len(stack)
    BY <1>1
  <2> QED
    BY <1>1, <2>1
<1>3. stack[1].next \in Nat \ {0} /\ Len(Requires[Top]) \in Nat
  BY TopFacts, RequiresLeadDown DEF Frame
<1>4. ASSUME NEW i \in 1 .. Len(stack)
      PROVE  /\ stack'[i].next \in 1 .. Len(Requires[stack[i].module]) + 1
             /\ stack[i].module = "webpack" /\ stack'[i].next = 4 => "env" \in cache
  <2>1. i = 1 \/ i \in 2 .. Len(stack)
    BY <1>1
  <2>2. CASE i = 1
    <3>1. stack'[1].next \in 1 .. Len(Requires[Top]) + 1
      BY <1>1, <1>3
    <3>2. Top = "webpack" /\ stack'[1].next = 4 => "env" \in cache
      BY <1>1, <1>3, RequiresLeadDown
    <3> QED
      BY <2>2, <3>1, <3>2 DEF Top
  <2>3. CASE i \in 2 .. Len(stack)
    BY <1>1, <2>3 DEF StackOK
  <2> QED
    BY <2>1, <2>2, <2>3
<1> QED
  BY <1>1, <1>2, <1>4 DEF StackOK, OnStack

\* Nothing is being loaded.
LEMMA EmptyStackOK == ASSUME stack = <<>> PROVE StackOK
BY EmptySeq DEF StackOK

-----------------------------------------------------------------------------
(* Steps. *)

\* Nothing has been loaded at first.
LEMMA AtFirst == Init => IInv
<1> SUFFICES ASSUME Init PROVE IInv
  OBVIOUS
<1>1. StackOK
  BY EmptyStackOK DEF Init
<1>2. Ranges
  BY DEF Init, Ranges
<1>3. Before /\ CachedPaths /\ PathsAreHeld /\ CleanFolders /\ SwitchRead /\ BundleHasSource
  BY DEF Init, Before, CachedPaths, PathsAreHeld, CleanFolders, SwitchRead, BundleHasSource, Modules
<1>4. LatePathsFollowEnv /\ DotenvPrecedence /\ OnlyRelativeFolders /\ MapsFollowEnv
  BY DEF Init, LatePathsFollowEnv, DotenvPrecedence, OnlyRelativeFolders, MapsFollowEnv
<1> QED
  BY <1>1, <1>2, <1>3, <1>4 DEF IInv

\* A module that ranks below all that are being loaded is begun.
LEMMA BeginKeepsIInv ==
  ASSUME IInv, NEW m \in Modules \ cache, Begin(m), ~thrown,
         stack # <<>> => Rank[m] < Rank[Top],
         late' = (IF "env" \in cache THEN late \cup {m} ELSE late),
         UNCHANGED <<project, env, cache, served, paths, folders, aliases, switches, bundle, thrown>>
  PROVE  IInv'
<1>1. StackOK' /\ OnStack(m)' /\ \A x : OnStack(x) => OnStack(x)'
  BY BeginKeepsStack DEF IInv
<1>2. ~OnStack(m)
  <2> SUFFICES ASSUME NEW i \in 1 .. Len(stack), stack[i].module = m PROVE FALSE
    BY DEF OnStack
  <2>1. stack # <<>> /\ Len(stack) \in Nat
    BY EmptySeq DEF IInv, StackOK
  <2>2. Rank[m] \in Nat /\ Rank[Top] \in Nat
    BY <2>1, RequiresLeadDown, TopFacts DEF IInv
  <2>3. i = 1 \/ i \in 2 .. Len(stack)
    BY <2>1
  <2>4. CASE i = 1
    BY <2>1, <2>2, <2>4 DEF Top
  <2>5. CASE i \in 2 .. Len(stack)
    <3>1. Rank[Top] < Rank[m]
      BY <2>1, <2>5, TopFacts DEF IInv
    <3> QED
      BY <2>1, <2>2, <3>1
  <2> QED
    BY <2>3, <2>4, <2>5
<1>3. paths[m] = Null
  BY <1>2 DEF IInv, PathsAreHeld, Holder
<1>4. Ranges'
  BY DEF IInv, Ranges
<1>5. Before' /\ CachedPaths' /\ CleanFolders' /\ SwitchRead' /\ BundleHasSource'
  BY DEF IInv, Before, CachedPaths, CleanFolders, SwitchRead, BundleHasSource
<1>6. PathsAreHeld'
  <2>1. \A x : Holder(x) => Holder(x)'
    BY <1>1 DEF Holder
  <2> QED
    BY <2>1 DEF IInv, PathsAreHeld
<1>7. LatePathsFollowEnv'
  BY <1>3 DEF IInv, LatePathsFollowEnv
<1>8. DotenvPrecedence' /\ MapsFollowEnv'
  BY DEF IInv, DotenvPrecedence, MapsFollowEnv, Mentions
<1>9. OnlyRelativeFolders'
  BY DEF IInv, OnlyRelativeFolders
<1> QED
  BY <1>1, <1>4, <1>5, <1>6, <1>7, <1>8, <1>9 DEF IInv

\* Somebody requires a module.
LEMMA RequireKeeps ==
  ASSUME IInv, NEW m \in Modules, Require(m)
  PROVE  IInv'
BY BeginKeepsIInv DEF Require

\* A module requires one of its own.
LEMMA RequireNextKeeps ==
  ASSUME IInv, RequireNext
  PROVE  IInv'
<1> DEFINE d == Requires[Top][stack[1].next]
<1>1. /\ stack # <<>> /\ stack[1].next <= Len(Requires[Top]) /\ ~thrown
      /\ UNCHANGED <<project, env, cache, served, folders, aliases, switches, bundle, thrown>>
  BY DEF IInv, RequireNext, Ranges
<1>2. /\ Top \in Modules \ cache /\ stack[1].next \in 1 .. Len(Requires[Top])
      /\ d \in Modules /\ Rank[d] < Rank[Top] /\ Top # "paths"
  <2>1. Top \in Modules \ cache /\ stack[1].next \in 1 .. Len(Requires[Top]) + 1
    BY <1>1, TopFacts DEF IInv
  <2>2. Len(Requires[Top]) \in Nat
    BY <2>1, RequiresLeadDown
  <2>3. stack[1].next \in 1 .. Len(Requires[Top])
    BY <1>1, <2>1, <2>2
  <2>4. Len(Requires["paths"]) = 0
    BY DEF Requires
  <2>5. Top # "paths"
    BY <2>1, <2>3, <2>4
  <2> QED
    BY <2>1, <2>3, <2>5, RequiresLeadDown
<1>3. CASE d \notin cache
  <2>1. /\ Begin(d) /\ UNCHANGED paths
        /\ late' = (IF "env" \in cache THEN late \cup {d} ELSE late)
    BY <1>3 DEF RequireNext
  <2> HIDE DEF d
  <2> QED
    BY <1>1, <1>2, <1>3, <2>1, BeginKeepsIInv
<1>4. CASE d \in cache
  <2>1. /\ stack' = [stack EXCEPT ![1].next = @ + 1]
        /\ paths' = (IF d = "paths" THEN [paths EXCEPT ![Top] = served] ELSE paths)
        /\ UNCHANGED late
    BY <1>4 DEF RequireNext
  <2>2. StackOK' /\ \A x : OnStack(x) => OnStack(x)'
    BY <1>1, <1>4, <2>1, AdvanceKeepsStack DEF IInv
  <2>3. OnStack(Top)
    BY <1>1, TopFacts DEF OnStack, Top, IInv
  <2> HIDE DEF d
  <2>4. /\ paths' = [x \in Modules |-> paths'[x]]
        /\ "paths" \in Modules
        /\ \A x \in Modules : paths'[x] = paths[x] \/ (d = "paths" /\ x = Top /\ paths'[x] = served)
    BY <2>1 DEF IInv, PathsAreHeld, Modules
  <2>5. PathsAreHeld'
    <3>1. \A x : Holder(x) => Holder(x)'
      BY <1>1, <2>2 DEF Holder
    <3>2. \A x : x = Top => Holder(x)'
      BY <2>2, <2>3 DEF Holder
    <3>3. \A x \in Modules : paths'[x] # Null => Holder(x)'
      BY <2>4, <3>1, <3>2 DEF IInv, PathsAreHeld
    <3> QED
      BY <1>2, <2>4, <3>3 DEF IInv, PathsAreHeld
  <2>6. LatePathsFollowEnv'
    <3> SUFFICES ASSUME NEW x \in late, paths'[x] # Null PROVE paths'[x] = env.PUBLIC_URL
      BY <1>1, <2>1 DEF LatePathsFollowEnv
    <3>1. x \in Modules /\ "env" \in cache
      BY DEF IInv, Ranges, Before
    <3> QED
      BY <1>4, <2>4, <3>1 DEF IInv, LatePathsFollowEnv, CachedPaths
  <2>7. Ranges'
    BY <1>1, <2>1 DEF IInv, Ranges
  <2>8. Before' /\ CachedPaths' /\ CleanFolders' /\ SwitchRead' /\ BundleHasSource'
    BY <1>1, <2>1 DEF IInv, Before, CachedPaths, CleanFolders, SwitchRead, BundleHasSource
  <2>9. DotenvPrecedence' /\ MapsFollowEnv' /\ OnlyRelativeFolders'
    BY <1>1, <2>1 DEF IInv, DotenvPrecedence, MapsFollowEnv, OnlyRelativeFolders, Mentions
  <2> QED
    BY <2>2, <2>5, <2>6, <2>7, <2>8, <2>9 DEF IInv
<1> QED
  BY <1>3, <1>4

\* The stack and who holds paths.js when a module has been loaded.
LEMMA LoadedKeeps ==
  ASSUME IInv, NEW m \in Modules, Runs(m), Loaded(m), UNCHANGED paths,
         cache' \subseteq cache \cup {m}, cache \ {"paths"} \subseteq cache', m \in cache'
  PROVE  StackOK' /\ PathsAreHeld' /\ m \notin cache /\ cache' \subseteq Modules /\ (~thrown)'
<1>1. StackOK' /\ m \notin cache /\ \A x : OnStack(x) => x = m \/ OnStack(x)'
  BY LoadedKeepsStack DEF IInv, Runs, Loaded
<1>2. \A x : x # "paths" /\ Holder(x) => Holder(x)'
  BY <1>1 DEF Holder, Loaded
<1>3. PathsAreHeld'
  BY <1>2 DEF IInv, PathsAreHeld
<1> QED
  BY <1>1, <1>3 DEF IInv, Ranges, Runs, Loaded

\* A module other than env.js has been loaded, which is not webpack.config.js.
LEMMA PlainLoadKeeps ==
  ASSUME IInv, NEW m \in {"paths", "modules", "devServer"}, Runs(m), Loaded(m),
         cache' = cache \cup {m}, UNCHANGED <<env, paths, switches>>
  PROVE  /\ StackOK' /\ Ranges' /\ Before' /\ PathsAreHeld' /\ CleanFolders' /\ SwitchRead'
         /\ BundleHasSource' /\ LatePathsFollowEnv' /\ DotenvPrecedence' /\ MapsFollowEnv'
<1>1. StackOK' /\ PathsAreHeld' /\ cache' \subseteq Modules /\ (~thrown)'
  BY LoadedKeeps DEF Modules
<1>2. Ranges'
  BY <1>1 DEF IInv, Ranges, Loaded
<1>3. Before' /\ CleanFolders' /\ SwitchRead' /\ BundleHasSource'
  BY DEF IInv, Loaded, Before, CleanFolders, SwitchRead, BundleHasSource
<1>4. LatePathsFollowEnv' /\ DotenvPrecedence' /\ MapsFollowEnv'
  BY DEF IInv, Loaded, LatePathsFollowEnv, DotenvPrecedence, MapsFollowEnv, Mentions
<1> QED
  BY <1>1, <1>2, <1>3, <1>4

\* paths.js reads the environment.
LEMMA LoadPathsKeeps == ASSUME IInv, LoadPaths PROVE IInv'
<1>1. /\ StackOK' /\ Ranges' /\ Before' /\ PathsAreHeld' /\ CleanFolders' /\ SwitchRead'
      /\ BundleHasSource' /\ LatePathsFollowEnv' /\ DotenvPrecedence' /\ MapsFollowEnv'
  BY PlainLoadKeeps DEF LoadPaths
<1>2. CachedPaths' /\ OnlyRelativeFolders'
  BY DEF IInv, LoadPaths, Loaded, CachedPaths, OnlyRelativeFolders
<1> QED
  BY <1>1, <1>2 DEF IInv

\* The dev server's configuration takes nothing from the environment here.
LEMMA LoadDevServerKeeps == ASSUME IInv, LoadDevServer PROVE IInv'
<1>1. /\ StackOK' /\ Ranges' /\ Before' /\ PathsAreHeld' /\ CleanFolders' /\ SwitchRead'
      /\ BundleHasSource' /\ LatePathsFollowEnv' /\ DotenvPrecedence' /\ MapsFollowEnv'
  BY PlainLoadKeeps DEF LoadDevServer
<1>2. CachedPaths' /\ OnlyRelativeFolders'
  BY DEF IInv, LoadDevServer, Loaded, CachedPaths, OnlyRelativeFolders
<1> QED
  BY <1>1, <1>2 DEF IInv

\* modules.js takes the folders that env.js has left, or src.
LEMMA LoadModulesKeeps == ASSUME IInv, LoadModules PROVE IInv'
<1>1. /\ StackOK' /\ Ranges' /\ Before' /\ PathsAreHeld' /\ CleanFolders' /\ SwitchRead'
      /\ BundleHasSource' /\ LatePathsFollowEnv' /\ DotenvPrecedence' /\ MapsFollowEnv'
  BY PlainLoadKeeps DEF LoadModules
<1>2. CachedPaths'
  BY DEF IInv, LoadModules, Loaded, CachedPaths
<1>3. OnlyRelativeFolders'
  <2> SUFFICES ASSUME "modules" \in late, folders' # Null
               PROVE  \A k \in DOMAIN folders' : folders'[k].kind = "resolved"
    BY DEF OnlyRelativeFolders, LoadModules, Loaded
  <2>1. "env" \in cache
    BY DEF IInv, Before
  <2>2. folders' = AdditionalModulePaths(BaseUrl)
    BY DEF LoadModules
  <2>3. CASE BaseUrl = Unset
    BY <2>1, <2>2, <2>3 DEF AdditionalModulePaths, IInv, CleanFolders
  <2>4. CASE BaseUrl # Unset /\ BaseUrl = "src"
    <3>1. folders' = <<[name |-> "src", kind |-> "resolved"]>>
      BY <2>2, <2>4 DEF AdditionalModulePaths
    <3> QED
      BY <3>1
  <2>5. CASE BaseUrl # Unset /\ BaseUrl # "src"
    BY <2>2, <2>5 DEF AdditionalModulePaths
  <2> QED
    BY <2>3, <2>4, <2>5
<1> QED
  BY <1>1, <1>2, <1>3 DEF IInv

\* webpack.config.js reads its switches after env.js.
LEMMA LoadWebpackKeeps == ASSUME IInv, LoadWebpack PROVE IInv'
<1>1. /\ Runs("webpack") /\ Loaded("webpack") /\ cache' = cache \cup {"webpack"}
      /\ UNCHANGED <<env, served, paths, folders, aliases>>
      /\ switches' = [maps |-> Switch("GENERATE_SOURCEMAP"), inline |-> Switch("INLINE_RUNTIME_CHUNK")]
  BY DEF LoadWebpack
<1>2. StackOK' /\ PathsAreHeld' /\ "webpack" \notin cache /\ cache' \subseteq Modules /\ (~thrown)'
  BY <1>1, LoadedKeeps DEF Modules
<1>3. "env" \in cache
  <2>1. stack # <<>> /\ Top = "webpack" /\ stack[1].next > Len(Requires["webpack"])
    BY <1>1 DEF Runs
  <2>2. 1 \in 1 .. Len(stack) /\ stack[1].next \in 1 .. 4
    BY <2>1, TopFacts, RequiresLeadDown DEF IInv
  <2>3. stack[1].next = 4
    BY <2>1, <2>2, RequiresLeadDown
  <2> QED
    BY <2>1, <2>2, <2>3 DEF IInv, StackOK, Top
<1>4. bundle = Null /\ UNCHANGED bundle
  BY <1>1, <1>2 DEF IInv, BundleHasSource, Loaded
<1>5. Ranges'
  BY <1>1, <1>2 DEF IInv, Ranges, Loaded, Switch
<1>6. SwitchRead' /\ BundleHasSource' /\ MapsFollowEnv'
  BY <1>1, <1>3, <1>4 DEF SwitchRead, BundleHasSource, MapsFollowEnv, Switch
<1>7. Before' /\ CachedPaths' /\ CleanFolders'
  BY <1>1 DEF IInv, Loaded, Before, CachedPaths, CleanFolders
<1>8. LatePathsFollowEnv' /\ DotenvPrecedence' /\ OnlyRelativeFolders'
  BY <1>1 DEF IInv, Loaded, LatePathsFollowEnv, DotenvPrecedence, OnlyRelativeFolders, Mentions
<1> QED
  BY <1>2, <1>5, <1>6, <1>7, <1>8 DEF IInv

\* The first file that mentions v is the most particular one that counts.
LEMMA FirstSays ==
  ASSUME NEW v, NEW f \in DotenvFile, Mentions(f, v),
         \A g \in DotenvFile : Mentions(g, v) => Strength(g) <= Strength(f)
  PROVE  FromFiles(v) = project.dotenv[f][v]
<1> DEFINE says(k) == project.dotenv[DotenvFiles[k]][v] # Unset
           saying == {k \in DOMAIN DotenvFiles : says(k)}
           first == CHOOSE k \in saying : \A j \in saying : k <= j
<1>1. /\ DOMAIN DotenvFiles \in {1 .. 3, 1 .. 4}
      /\ \A k \in DOMAIN DotenvFiles : DotenvFiles[k] \in DotenvFile
      /\ \A k, j \in DOMAIN DotenvFiles :
           Strength(DotenvFiles[k]) \in Nat
           /\ (k < j => Strength(DotenvFiles[k]) > Strength(DotenvFiles[j]))
  <2>1. CASE env.NODE_ENV = "test"
    <3>1. DotenvFiles = <<"mode.local", "mode", "plain">>
      BY <2>1 DEF DotenvFiles
    <3> QED
      BY <3>1 DEF Strength, DotenvFile
  <2>2. CASE env.NODE_ENV # "test"
    <3>1. DotenvFiles = <<"mode.local", "mode", "local", "plain">>
      BY <2>2 DEF DotenvFiles
    <3> QED
      BY <3>1 DEF Strength, DotenvFile
  <2> QED
    BY <2>1, <2>2
<1>2. PICK n \in DOMAIN DotenvFiles : DotenvFiles[n] = f
  <2>1. CASE env.NODE_ENV = "test"
    <3>1. DotenvFiles = <<"mode.local", "mode", "plain">> /\ f # "local"
      BY <2>1 DEF DotenvFiles, Mentions
    <3> QED
      BY <3>1 DEF DotenvFile
  <2>2. CASE env.NODE_ENV # "test"
    <3>1. DotenvFiles = <<"mode.local", "mode", "local", "plain">>
      BY <2>2 DEF DotenvFiles
    <3> QED
      BY <3>1 DEF DotenvFile
  <2> QED
    BY <2>1, <2>2
<1>3. \A k \in saying : Mentions(DotenvFiles[k], v)
  <2> SUFFICES ASSUME NEW k \in saying PROVE ~(DotenvFiles[k] = "local" /\ env.NODE_ENV = "test")
    BY DEF Mentions
  <2>1. CASE env.NODE_ENV = "test"
    <3>1. DotenvFiles = <<"mode.local", "mode", "plain">>
      BY <2>1 DEF DotenvFiles
    <3> QED
      BY <3>1
  <2> QED
    BY <2>1
<1>4. n \in saying
  BY <1>2 DEF Mentions
<1>5. \A k \in saying : n <= k
  <2> SUFFICES ASSUME NEW k \in saying, ~(n <= k) PROVE FALSE
    OBVIOUS
  <2>1. k \in DOMAIN DotenvFiles /\ k < n
    BY <1>1
  <2>2. Strength(DotenvFiles[k]) > Strength(f)
    BY <1>1, <1>2, <2>1
  <2>3. Strength(DotenvFiles[k]) <= Strength(f)
    BY <1>1, <1>3, <2>1
  <2>4. Strength(DotenvFiles[k]) \in Nat /\ Strength(f) \in Nat
    BY <1>1, <1>2, <2>1
  <2> QED
    BY <2>2, <2>3, <2>4
<1>6. n \in Nat /\ \A k \in saying : k \in Nat
  BY <1>1
<1>7. first = n
  <2> HIDE DEF saying
  <2>1. first \in saying /\ \A j \in saying : first <= j
    BY <1>4, <1>5
  <2> QED
    BY <1>4, <1>5, <1>6, <2>1
<1>8. FromFiles(v) = IF saying = {} THEN Unset ELSE project.dotenv[DotenvFiles[first]][v]
  BY DEF FromFiles
<1> HIDE DEF saying, first
<1> QED
  BY <1>2, <1>4, <1>7, <1>8

\* env.js changes the environment, and whoever has read it before is not late.
LEMMA LoadEnvKeeps == ASSUME IInv, LoadEnv PROVE IInv'
<1> DEFINE read == [v \in Variables |-> IF env[v] # Unset THEN env[v] ELSE FromFiles(v)]
           list == RelativeFolders(FoldersOf(read.NODE_PATH))
<1>1. /\ Runs("env") /\ Loaded("env") /\ env.NODE_ENV # Unset
      /\ env' = [read EXCEPT !.NODE_PATH = list]
      /\ cache' = ForgetPaths(cache)
      /\ UNCHANGED <<served, paths, folders, aliases, switches>>
  BY DEF LoadEnv
<1>2. /\ cache' \subseteq cache \cup {"env"} /\ cache \ {"paths"} \subseteq cache'
      /\ "env" \in cache' /\ "paths" \notin cache'
  BY <1>1 DEF ForgetPaths
<1>3. StackOK' /\ PathsAreHeld' /\ "env" \notin cache /\ cache' \subseteq Modules /\ (~thrown)'
  BY <1>1, <1>2, LoadedKeeps DEF Modules
<1>4. late = {} /\ env = project.shell /\ late' = {} /\ UNCHANGED <<project, bundle>>
  BY <1>1, <1>3 DEF IInv, Before, Loaded
<1>5. "webpack" \notin cache' /\ bundle = Null
  BY <1>2, <1>3 DEF IInv, SwitchRead, BundleHasSource
<1>6. /\ \A v \in Variables \ {"NODE_PATH"} : env'[v] = read[v]
      /\ env'.NODE_PATH = list
      /\ env'.NODE_ENV = env.NODE_ENV
  <2>1. "NODE_PATH" \in Variables /\ "NODE_ENV" \in Variables \ {"NODE_PATH"}
    BY DEF Variables
  <2>2. read.NODE_ENV = env.NODE_ENV
    BY <1>1, <2>1
  <2>3. /\ \A v \in Variables \ {"NODE_PATH"} : env'[v] = read[v]
        /\ env'.NODE_PATH = list
    <3>1. DOMAIN read = Variables
      OBVIOUS
    <3> HIDE DEF read, list
    <3> QED
      BY <1>1, <2>1, <3>1
  <2> QED
    BY <2>1, <2>2, <2>3
<1>7. CleanFolders'
  <2>1. \A k \in DOMAIN list : list[k].kind = "resolved"
    BY DEF RelativeFolders
  <2> HIDE DEF list
  <2> QED
    BY <1>6, <2>1 DEF CleanFolders, FoldersOf
<1>8. DotenvPrecedence'
  <2> SUFFICES ASSUME NEW v \in Variables \ {"NODE_PATH"}
               PROVE  /\ project.shell[v] # Unset => env'[v] = project.shell[v]
                      /\ project.shell[v] = Unset =>
                           \A f \in DotenvFile :
                             Mentions(f, v) /\ (\A g \in DotenvFile :
                                                  Mentions(g, v) => Strength(g) <= Strength(f))
                             => env'[v] = project.dotenv[f][v]
    BY <1>4, <1>6 DEF DotenvPrecedence, Mentions
  <2>1. env'[v] = IF project.shell[v] # Unset THEN project.shell[v] ELSE FromFiles(v)
    BY <1>4, <1>6
  <2> QED
    BY <2>1, FirstSays
<1>9. Before' /\ CachedPaths' /\ SwitchRead' /\ BundleHasSource'
  BY <1>2, <1>4, <1>5 DEF Before, CachedPaths, SwitchRead, BundleHasSource
<1>10. LatePathsFollowEnv' /\ OnlyRelativeFolders' /\ MapsFollowEnv'
  <2>1. late' = {} /\ bundle' = Null
    BY <1>4, <1>5
  <2>2. LatePathsFollowEnv' /\ OnlyRelativeFolders'
    BY <2>1 DEF LatePathsFollowEnv, OnlyRelativeFolders
  <2>3. MapsFollowEnv'
    BY <2>1 DEF MapsFollowEnv
  <2> QED
    BY <2>2, <2>3
<1>11. Ranges'
  BY <1>1, <1>3, <1>4 DEF IInv, Ranges, Loaded
<1> QED
  BY <1>3, <1>7, <1>8, <1>9, <1>10, <1>11 DEF IInv

\* An exception leaves all as it is, except that paths.js may be forgotten.
LEMMA ThrowKeeps ==
  ASSUME IInv, Throw, cache' \in {cache, cache \ {"paths"}}
  PROVE  IInv'
<1>1. /\ stack' = <<>> /\ thrown'
      /\ cache' \subseteq cache /\ cache \ {"paths"} \subseteq cache'
      /\ UNCHANGED <<project, env, served, paths, late, folders, aliases, switches, bundle>>
  BY DEF Throw
<1>2. StackOK'
  BY <1>1, EmptySeq DEF StackOK
<1>3. Ranges' /\ PathsAreHeld'
  BY <1>1 DEF IInv, Throw, Ranges, PathsAreHeld, Holder
<1>4. Before' /\ CachedPaths' /\ CleanFolders' /\ SwitchRead' /\ BundleHasSource'
  BY <1>1 DEF IInv, Before, CachedPaths, CleanFolders, SwitchRead, BundleHasSource
<1>5. LatePathsFollowEnv' /\ DotenvPrecedence' /\ OnlyRelativeFolders' /\ MapsFollowEnv'
  BY <1>1 DEF IInv, LatePathsFollowEnv, DotenvPrecedence, OnlyRelativeFolders,
      MapsFollowEnv, Mentions
<1> QED
  BY <1>2, <1>3, <1>4, <1>5 DEF IInv

\* A production bundle takes its source maps from the switch.
LEMMA ConfigureKeeps ==
  ASSUME IInv, NEW mode \in Modes, Configure(mode)
  PROVE  IInv'
<1>1. /\ "webpack" \in cache /\ bundle' = Bundle(mode)
      /\ UNCHANGED <<project, env, stack, cache, served, paths, late, folders, aliases, switches, thrown>>
  BY DEF Configure, loading
<1>2. StackOK' /\ Ranges' /\ Before' /\ CachedPaths' /\ CleanFolders' /\ SwitchRead' /\ BundleHasSource'
  BY <1>1 DEF IInv, StackOK, Ranges, Before, CachedPaths, CleanFolders, SwitchRead, BundleHasSource
<1>3. PathsAreHeld'
  BY <1>1 DEF IInv, PathsAreHeld, Holder, OnStack
<1>4. LatePathsFollowEnv' /\ DotenvPrecedence' /\ OnlyRelativeFolders'
  BY <1>1 DEF IInv, LatePathsFollowEnv, DotenvPrecedence, OnlyRelativeFolders, Mentions
<1>5. MapsFollowEnv'
  <2>1. /\ switches.maps = (env.GENERATE_SOURCEMAP # "false") /\ switches.maps \in BOOLEAN
        /\ UNCHANGED env
    BY <1>1 DEF IInv, SwitchRead, Ranges
  <2>2. /\ bundle'.mode = mode
        /\ bundle'.devtool = Devtool(mode)
        /\ bundle'.minifierMaps = switches.maps
        /\ \A rule \in StyleRules : bundle'.styleMaps[rule] = StyleMaps(mode, rule)
    BY <1>1 DEF Bundle
  <2>3. SUFFICES ASSUME mode = "production"
                 PROVE  /\ (Devtool(mode) = "source-map") = switches.maps
                        /\ \A rule \in StyleRules :
                             (\A loader \in MappingLoaders(rule) : StyleMaps(mode, rule)[loader])
                               = switches.maps
    BY <2>1, <2>2 DEF MapsFollowEnv
  <2>4. (Devtool(mode) = "source-map") = switches.maps
    BY <2>1, <2>3 DEF Devtool
  <2>5. ASSUME NEW rule \in StyleRules
        PROVE  (\A loader \in MappingLoaders(rule) : StyleMaps(mode, rule)[loader]) = switches.maps
    <3>1. "css-loader" \in MappingLoaders(rule)
      BY DEF MappingLoaders
    <3>2. \A loader \in MappingLoaders(rule) :
            StyleMaps(mode, rule)[loader] = (loader = "sass-loader" \/ switches.maps)
      BY <2>3 DEF StyleMaps
    <3> QED
      BY <2>1, <3>1, <3>2
  <2> QED
    BY <2>4, <2>5
<1> QED
  BY <1>2, <1>3, <1>4, <1>5 DEF IInv

\* Every step keeps the invariant.
LEMMA Stepwise == ASSUME IInv, [Next]_vars PROVE IInv'
<1>1. ASSUME NEW m \in Modules, Require(m) PROVE IInv'
  BY <1>1, RequireKeeps
<1>2. CASE RequireNext
  BY <1>2, RequireNextKeeps
<1>3. CASE LoadPaths
  BY <1>3, LoadPathsKeeps
<1>4. CASE LoadEnv
  BY <1>4, LoadEnvKeeps
<1>5. CASE NodeEnvMissing
  BY <1>5, ThrowKeeps DEF NodeEnvMissing
<1>6. CASE LoadModules
  BY <1>6, LoadModulesKeeps
<1>7. CASE ModulesDoNotFit
  BY <1>7, ThrowKeeps DEF ModulesDoNotFit
<1>8. CASE LoadWebpack
  BY <1>8, LoadWebpackKeeps
<1>9. CASE LoadDevServer
  BY <1>9, LoadDevServerKeeps
<1>10. ASSUME NEW mode \in Modes, Configure(mode) PROVE IInv'
  BY <1>10, ConfigureKeeps
<1>11. CASE UNCHANGED vars
  <2>1. UNCHANGED <<project, env, stack, cache, served, paths, late, folders, aliases, switches,
                    bundle, thrown>>
    BY <1>11 DEF vars, loading
  <2>2. StackOK' /\ Ranges' /\ Before' /\ CachedPaths' /\ CleanFolders' /\ SwitchRead' /\ BundleHasSource'
    BY <2>1 DEF IInv, StackOK, Ranges, Before, CachedPaths, CleanFolders, SwitchRead, BundleHasSource
  <2>3. PathsAreHeld'
    BY <2>1 DEF IInv, PathsAreHeld, Holder, OnStack
  <2>4. LatePathsFollowEnv' /\ DotenvPrecedence' /\ OnlyRelativeFolders' /\ MapsFollowEnv'
    BY <2>1 DEF IInv, LatePathsFollowEnv, DotenvPrecedence, OnlyRelativeFolders,
        MapsFollowEnv, Mentions
  <2> QED
    BY <2>2, <2>3, <2>4 DEF IInv
<1> QED
  BY <1>1, <1>2, <1>3, <1>4, <1>5, <1>6, <1>7, <1>8, <1>9, <1>10, <1>11 DEF Next

-----------------------------------------------------------------------------
(* Theorems. *)

\* The invariant holds in whatever order the modules are required.
THEOREM Invariance == Spec => []IInv
BY AtFirst, Stepwise, PTL DEF Spec

\* No module is loaded twice at a time or again when it is cached, and every
\* variable keeps its type: require of env.js, paths.js and the others.
THEOREM TypeCorrect == Spec => []TypeOK
<1>1. IInv => TypeOK
  <2> SUFFICES ASSUME IInv PROVE TypeOK
    OBVIOUS
  <2>1. \A i \in 1 .. Len(stack) : stack[i] \in Frame
    BY ElementOfSeq DEF IInv, StackOK
  <2>2. \A i \in 1 .. Len(stack) : stack[i].module \in Modules \ cache
    BY <2>1 DEF Frame, IInv, StackOK
  <2>3. \A i, j \in 1 .. Len(stack) : stack[i].module = stack[j].module => i = j
    BY NoneTwice DEF IInv
  <2> QED
    BY <2>2, <2>3 DEF IInv, Ranges, StackOK, TypeOK
<1> QED
  BY <1>1, Invariance, PTL

\* What env.js promises of paths.js (env.js:6): whoever gets hold of it
\* afterwards sees the environment the .env files have been added to.
THEOREM LatePathsHold == Spec => []LatePathsFollowEnv
<1>1. IInv => LatePathsFollowEnv
  BY DEF IInv
<1> QED
  BY <1>1, Invariance, PTL

\* The shell comes first and then the most particular .env file (env.js:17-31).
THEOREM DotenvHolds == Spec => []DotenvPrecedence
<1>1. IInv => DotenvPrecedence
  BY DEF IInv
<1> QED
  BY <1>1, Invariance, PTL

\* A modules.js loaded after env.js searches relative folders only (env.js:41).
THEOREM FoldersAreRelative == Spec => []OnlyRelativeFolders
<1>1. IInv => OnlyRelativeFolders
  BY DEF IInv
<1> QED
  BY <1>1, Invariance, PTL

-----------------------------------------------------------------------------
(* What the shell and the .env files say. *)

\* env.js adds what the .env files say, and nobody touches it afterwards.
EnvIsRead ==
  "env" \in cache => \A v \in Variables \ {"NODE_PATH"} : env[v] = Counts(v)

\* Some .env files have a most particular one among them.
LEMMA StrongestOf ==
  ASSUME NEW files \in SUBSET DotenvFile, files # {}
  PROVE  Strongest(files) \in files /\ \A g \in files : Strength(g) <= Strength(Strongest(files))
<1>1. \A f \in DotenvFile : f \in {"mode.local", "mode", "local", "plain"}
  BY DEF DotenvFile
<1>2. /\ Strength("mode.local") = 4 /\ Strength("mode") = 3
      /\ Strength("local") = 2 /\ Strength("plain") = 1
  BY DEF Strength
<1>3. \E f \in files : \A g \in files : Strength(g) <= Strength(f)
  <2>1. CASE "mode.local" \in files
    BY <1>1, <1>2, <2>1
  <2>2. CASE "mode.local" \notin files /\ "mode" \in files
    BY <1>1, <1>2, <2>2
  <2>3. CASE "mode.local" \notin files /\ "mode" \notin files /\ "local" \in files
    BY <1>1, <1>2, <2>3
  <2>4. CASE "mode.local" \notin files /\ "mode" \notin files /\ "local" \notin files
    BY <1>1, <1>2, <2>4
  <2> QED
    BY <2>1, <2>2, <2>3, <2>4
<1> QED
  BY <1>3 DEF Strongest

\* Where the shell is silent, reading the files finds what counts.
LEMMA FilesSayWhatCounts ==
  ASSUME NEW v, project.shell[v] = Unset
  PROVE  FromFiles(v) = Counts(v)
<1> DEFINE mentioning == {f \in DotenvFile : Mentions(f, v)}
<1>1. Counts(v) = IF mentioning # {} THEN project.dotenv[Strongest(mentioning)][v] ELSE Unset
  BY DEF Counts
<1>2. CASE mentioning # {}
  <2> DEFINE f == Strongest(mentioning)
  <2>1. f \in mentioning /\ \A g \in mentioning : Strength(g) <= Strength(f)
    <3>1. mentioning \in SUBSET DotenvFile
      OBVIOUS
    <3> HIDE DEF mentioning
    <3> QED
      BY <1>2, <3>1, StrongestOf
  <2>2. /\ f \in DotenvFile /\ Mentions(f, v)
        /\ \A g \in DotenvFile : Mentions(g, v) => Strength(g) <= Strength(f)
    BY <2>1
  <2>3. FromFiles(v) = project.dotenv[f][v]
    <3> HIDE DEF f
    <3> QED
      BY <2>2, FirstSays
  <2> QED
    BY <1>1, <1>2, <2>3
<1>3. CASE mentioning = {}
  <2> DEFINE saying == {k \in DOMAIN DotenvFiles : project.dotenv[DotenvFiles[k]][v] # Unset}
             first == CHOOSE k \in saying : \A j \in saying : k <= j
  <2>1. \A k \in DOMAIN DotenvFiles :
          DotenvFiles[k] \in DotenvFile /\ ~(DotenvFiles[k] = "local" /\ env.NODE_ENV = "test")
    <3>1. CASE env.NODE_ENV = "test"
      <4>1. DotenvFiles = <<"mode.local", "mode", "plain">>
        BY <3>1 DEF DotenvFiles
      <4> QED
        BY <4>1 DEF DotenvFile
    <3>2. CASE env.NODE_ENV # "test"
      <4>1. DotenvFiles = <<"mode.local", "mode", "local", "plain">>
        BY <3>2 DEF DotenvFiles
      <4> QED
        BY <3>2, <4>1 DEF DotenvFile
    <3> QED
      BY <3>1, <3>2
  <2>2. saying = {}
    BY <1>3, <2>1 DEF Mentions
  <2>3. FromFiles(v) = IF saying = {} THEN Unset ELSE project.dotenv[DotenvFiles[first]][v]
    BY DEF FromFiles
  <2> HIDE DEF saying, first
  <2> QED
    BY <1>1, <1>3, <2>2, <2>3
<1> QED
  BY <1>2, <1>3

\* What counts depends on the mode and on what the project says only.
LEMMA CountsStay ==
  ASSUME UNCHANGED project, env'.NODE_ENV = env.NODE_ENV, NEW v
  PROVE  Counts(v)' = Counts(v)
<1> DEFINE mentioning == {f \in DotenvFile : Mentions(f, v)}
<1>1. mentioning' = mentioning
  BY DEF Mentions
<1>2. Counts(v) = IF project.shell[v] # Unset THEN project.shell[v]
                  ELSE IF mentioning # {} THEN project.dotenv[Strongest(mentioning)][v] ELSE Unset
  BY DEF Counts
<1>3. Counts(v)' = IF project'.shell[v] # Unset THEN project'.shell[v]
                   ELSE IF mentioning' # {} THEN project'.dotenv[Strongest(mentioning')][v] ELSE Unset
  BY DEF Counts
<1> HIDE DEF mentioning
<1> QED
  BY <1>1, <1>2, <1>3

\* env.js reads it, and it stays.
LEMMA EnvIsReadStep ==
  ASSUME IInv, EnvIsRead, [Next]_vars
  PROVE  EnvIsRead'
<1>1. ASSUME UNCHANGED <<project, env>>, "env" \in cache' => "env" \in cache PROVE EnvIsRead'
  BY <1>1, CountsStay DEF EnvIsRead
<1>2. CASE LoadEnv
  <2> DEFINE read == [v \in Variables |-> IF env[v] # Unset THEN env[v] ELSE FromFiles(v)]
             list == RelativeFolders(FoldersOf(read.NODE_PATH))
  <2>1. /\ Runs("env") /\ Loaded("env") /\ env.NODE_ENV # Unset
        /\ env' = [read EXCEPT !.NODE_PATH = list] /\ UNCHANGED <<project, paths>>
        /\ cache' = ForgetPaths(cache)
    BY <1>2 DEF LoadEnv, Loaded
  <2>2. env = project.shell
    <3>1. /\ cache' \subseteq cache \cup {"env"} /\ cache \ {"paths"} \subseteq cache'
          /\ "env" \in cache' /\ "env" \in Modules
      BY <2>1 DEF ForgetPaths, Modules
    <3>2. "env" \notin cache
      BY <2>1, <3>1, LoadedKeeps
    <3> QED
      BY <3>2 DEF IInv, Before
  <2>3. /\ "NODE_ENV" \in Variables \ {"NODE_PATH"} /\ "NODE_PATH" \in Variables
        /\ DOMAIN read = Variables
    BY DEF Variables
  <2>4. \A v \in Variables \ {"NODE_PATH"} :
          env'[v] = IF project.shell[v] # Unset THEN project.shell[v] ELSE FromFiles(v)
    <3>1. \A v \in Variables \ {"NODE_PATH"} : env'[v] = read[v]
      <4> HIDE DEF read, list
      <4> QED
        BY <2>1, <2>3
    <3> QED
      BY <2>2, <3>1
  <2>5. env'.NODE_ENV = env.NODE_ENV
    BY <2>1, <2>2, <2>3, <2>4
  <2>6. ASSUME NEW v \in Variables \ {"NODE_PATH"} PROVE env'[v] = Counts(v)
    <3>1. CASE project.shell[v] # Unset
      BY <2>4, <3>1 DEF Counts
    <3>2. CASE project.shell[v] = Unset
      BY <2>4, <3>2, FilesSayWhatCounts
    <3> QED
      BY <3>1, <3>2
  <2>7. \A v : Counts(v)' = Counts(v)
    BY <2>1, <2>5, CountsStay
  <2> QED
    BY <2>6, <2>7 DEF EnvIsRead
<1>3. ~LoadEnv => UNCHANGED <<project, env>> /\ ("env" \in cache' => "env" \in cache)
  BY DEF Next, vars, loading, Require, RequireNext, LoadPaths, NodeEnvMissing, LoadModules,
     ModulesDoNotFit, LoadWebpack, LoadDevServer, Configure, Loaded, Throw
<1> QED
  BY <1>1, <1>2, <1>3

\* GENERATE_SOURCEMAP=false leaves no source map in a production build,
\* whether the shell or an .env file says so and in whatever order the modules
\* are required; without it every map is made (webpack.config.js:35).
THEOREM MapsHold == Spec => []MapsAreSwitchedOff
<1>1. Init => EnvIsRead
  BY DEF Init, EnvIsRead
<1>2. IInv /\ EnvIsRead /\ [Next]_vars => EnvIsRead'
  BY EnvIsReadStep
<1>3. IInv /\ EnvIsRead => MapsAreSwitchedOff
  <2> SUFFICES ASSUME IInv, EnvIsRead, bundle # Null PROVE MapsAreSwitchedOff
    BY DEF MapsAreSwitchedOff
  <2>1. "env" \in cache
    BY DEF IInv, BundleHasSource, SwitchRead
  <2>2. "GENERATE_SOURCEMAP" \in Variables \ {"NODE_PATH"}
    BY DEF Variables
  <2>3. env["GENERATE_SOURCEMAP"] = Counts("GENERATE_SOURCEMAP")
    BY <2>1, <2>2 DEF EnvIsRead
  <2> QED
    BY <2>3 DEF IInv, MapsFollowEnv, MapsAreSwitchedOff
<1> QED
  BY <1>1, <1>2, <1>3, Invariance, PTL DEF Spec

-----------------------------------------------------------------------------
(* What paths.js has read is a url, or nothing. *)

\* Some numbers have a least one among them.
LEMMA LeastOf ==
  ASSUME NEW S \in SUBSET Nat, S # {}
  PROVE  \E k \in S : \A j \in S : k <= j
<1> DEFINE below == {p \in Nat \X Nat : p[1] < p[2]}
<1>1. IsWellFoundedOn(below, Nat)
  BY NatLessThanWellFounded DEF OpToRel
<1>2. \A j, k \in Nat : j < k => <<j, k>> \in below
  OBVIOUS
<1> HIDE DEF below
<1>3. PICK k \in S : \A j \in S : <<j, k>> \notin below
  BY <1>1, WFMin
<1>4. ASSUME NEW j \in S PROVE k <= j
  <2>1. ~(j < k)
    BY <1>2, <1>3
  <2> QED
    BY <2>1
<1> QED
  BY <1>3, <1>4

\* PUBLIC_URL, and what the cached paths.js and the one that webpack.config.js
\* holds have read of it: webpack.config.js has required paths.js before it
\* goes on to its second require.
PathsReadUrls ==
  /\ UrlOrUnset(env.PUBLIC_URL)
  /\ "paths" \in cache => UrlOrUnset(served)
  /\ "webpack" \in cache => UrlOrUnset(paths["webpack"])
  /\ \A i \in 1 .. Len(stack) :
       stack[i].module = "webpack" /\ stack[i].next > 1 => UrlOrUnset(paths["webpack"])

\* What an .env file says of PUBLIC_URL is a url.
LEMMA FilesSayUrls ==
  ASSUME project \in Projects
  PROVE  UrlOrUnset(FromFiles("PUBLIC_URL"))
<1> DEFINE saying == {k \in DOMAIN DotenvFiles : project.dotenv[DotenvFiles[k]]["PUBLIC_URL"] # Unset}
           first == CHOOSE k \in saying : \A j \in saying : k <= j
<1>1. /\ DOMAIN DotenvFiles \in {1 .. 3, 1 .. 4}
      /\ \A k \in DOMAIN DotenvFiles : DotenvFiles[k] \in DotenvFile
  <2>1. CASE env.NODE_ENV = "test"
    <3>1. DotenvFiles = <<"mode.local", "mode", "plain">>
      BY <2>1 DEF DotenvFiles
    <3> QED
      BY <3>1 DEF DotenvFile
  <2>2. CASE env.NODE_ENV # "test"
    <3>1. DotenvFiles = <<"mode.local", "mode", "local", "plain">>
      BY <2>2 DEF DotenvFiles
    <3> QED
      BY <3>1 DEF DotenvFile
  <2> QED
    BY <2>1, <2>2
<1>2. FromFiles("PUBLIC_URL") = IF saying = {} THEN Unset
                                ELSE project.dotenv[DotenvFiles[first]]["PUBLIC_URL"]
  BY DEF FromFiles
<1>3. saying # {} => first \in saying
  <2> SUFFICES ASSUME saying # {} PROVE \E k \in saying : \A j \in saying : k <= j
    OBVIOUS
  <2>1. saying \subseteq Nat
    BY <1>1
  <2> HIDE DEF saying
  <2> QED
    BY <2>1, LeastOf
<1>4. \A f \in DotenvFile : UrlOrUnset(project.dotenv[f]["PUBLIC_URL"])
  BY ProjectsFit
<1> QED
  <2>1. CASE saying = {}
    BY <1>2, <2>1 DEF UrlOrUnset
  <2>2. CASE saying # {}
    <3>1. first \in DOMAIN DotenvFiles
      BY <1>3, <2>2
    <3> HIDE DEF saying, first
    <3> QED
      BY <1>1, <1>2, <1>4, <2>2, <3>1
  <2> QED
    BY <2>1, <2>2

\* A step of the loader keeps it.
LEMMA PathsReadUrlsStep ==
  ASSUME IInv, PathsReadUrls, [Next]_vars
  PROVE  PathsReadUrls'
<1>1. ASSUME NEW m \in Modules, Begin(m), UNCHANGED <<env, cache, served, paths>>
      PROVE  PathsReadUrls'
  <2>1. /\ Len(stack) \in Nat /\ Len(stack') = Len(stack) + 1 /\ stack'[1].next = 1
        /\ \A i \in 2 .. Len(stack') : i - 1 \in 1 .. Len(stack) /\ stack'[i] = stack[i - 1]
    <3>1. /\ Len(stack) \in Nat /\ Len(stack') = Len(stack) + 1
          /\ stack'[1] = [module |-> m, next |-> 1]
          /\ \A i \in 2 .. Len(stack') : i - 1 \in 1 .. Len(stack) /\ stack'[i] = stack[i - 1]
      BY <1>1, Pushed DEF IInv, StackOK, Begin
    <3> QED
      BY <3>1
  <2>2. ASSUME NEW i \in 1 .. Len(stack'), stack'[i].module = "webpack", stack'[i].next > 1
        PROVE  UrlOrUnset(paths["webpack"])
    <3>1. i \in 2 .. Len(stack')
      BY <2>1, <2>2
    <3> QED
      BY <2>1, <2>2, <3>1 DEF PathsReadUrls
  <2> QED
    BY <1>1, <2>2 DEF PathsReadUrls, UrlOrUnset
<1>2. ASSUME NEW m \in Modules, Runs(m), Loaded(m), UNCHANGED paths,
             cache' \subseteq cache \cup {m},
             UrlOrUnset(env.PUBLIC_URL)', ("paths" \in cache => UrlOrUnset(served))'
      PROVE  PathsReadUrls'
  <2>1. /\ Len(stack) \in Nat \ {0} /\ Len(stack') = Len(stack) - 1
        /\ \A i \in 1 .. Len(stack') : i + 1 \in 2 .. Len(stack) /\ stack'[i] = stack[i + 1]
    BY <1>2, Popped DEF IInv, StackOK, Runs, Loaded
  <2>2. ASSUME NEW i \in 1 .. Len(stack'), stack'[i].module = "webpack", stack'[i].next > 1
        PROVE  UrlOrUnset(paths["webpack"])
    BY <2>1, <2>2 DEF PathsReadUrls
  <2>3. ASSUME "webpack" \in cache' PROVE UrlOrUnset(paths["webpack"])
    <3>1. CASE "webpack" \in cache
      BY <3>1 DEF PathsReadUrls
    <3>2. CASE m = "webpack"
      <4>1. Len(Requires["webpack"]) = 3 /\ stack # <<>> /\ stack[1].module = "webpack"
            /\ stack[1].next > 3
        BY <1>2, <3>2, RequiresLeadDown DEF Runs, Top
      <4>2. 1 \in 1 .. Len(stack) /\ stack[1].next \in Nat
        BY <4>1, TopFacts DEF IInv, Frame
      <4> QED
        BY <4>1, <4>2 DEF PathsReadUrls
    <3> QED
      BY <1>2, <2>3, <3>1, <3>2
  <2> QED
    BY <1>2, <2>2, <2>3 DEF PathsReadUrls, UrlOrUnset
<1>3. ASSUME Throw, cache' \subseteq cache PROVE PathsReadUrls'
  <2>1. 1 .. Len(stack') = {}
    BY <1>3, EmptySeq DEF Throw
  <2> QED
    BY <1>3, <2>1 DEF Throw, PathsReadUrls, UrlOrUnset
<1>4. ASSUME UNCHANGED <<env, cache, stack, served, paths>> PROVE PathsReadUrls'
  BY <1>4 DEF PathsReadUrls, UrlOrUnset
<1>5. ASSUME NEW m \in Modules, Require(m) PROVE PathsReadUrls'
  BY <1>1, <1>5 DEF Require
<1>6. CASE RequireNext
  <2> DEFINE d == Requires[Top][stack[1].next]
  <2>1. stack # <<>> /\ stack[1].next <= Len(Requires[Top]) /\ UNCHANGED <<env, cache, served>>
    BY <1>6 DEF RequireNext
  <2>2. /\ Len(stack) \in Nat \ {0} /\ Top \in Modules
        /\ stack[1].next \in 1 .. Len(Requires[Top]) /\ d \in Modules
    <3>1. Top \in Modules /\ stack[1].next \in 1 .. Len(Requires[Top]) + 1 /\ Len(stack) \in Nat \ {0}
      BY <2>1, TopFacts DEF IInv
    <3>2. Len(Requires[Top]) \in Nat
      BY <3>1, RequiresLeadDown
    <3> QED
      BY <2>1, <3>1, <3>2, RequiresLeadDown
  <2>3. CASE d \notin cache
    BY <1>1, <1>6, <2>2, <2>3 DEF RequireNext
  <2>4. CASE d \in cache
    <3>1. /\ stack' = [stack EXCEPT ![1].next = @ + 1]
          /\ paths' = IF d = "paths" THEN [paths EXCEPT ![Top] = served] ELSE paths
      BY <1>6, <2>4 DEF RequireNext
    <3>2. /\ Len(stack') = Len(stack)
          /\ stack'[1].module = Top /\ stack'[1].next = stack[1].next + 1
          /\ \A i \in 2 .. Len(stack) : stack'[i] = stack[i]
      <4>1. stack \in Seq(Frame)
        BY DEF IInv, StackOK
      <4> QED
        BY <2>1, <3>1, <4>1, Advanced DEF Top
    <3>3. UrlOrUnset(paths["webpack"]) => UrlOrUnset(paths'["webpack"])
      <4>1. CASE d = "paths" /\ Top = "webpack"
        <5>1. UrlOrUnset(served) /\ paths'["webpack"] = served
          BY <2>4, <3>1, <4>1 DEF PathsReadUrls, IInv, PathsAreHeld, Modules
        <5> QED
          BY <5>1
      <4>2. CASE ~(d = "paths" /\ Top = "webpack")
        <5>1. paths'["webpack"] = paths["webpack"]
          BY <3>1, <4>2 DEF IInv, PathsAreHeld, Modules
        <5> QED
          BY <5>1
      <4> QED
        BY <4>1, <4>2
    <3>4. ASSUME NEW i \in 1 .. Len(stack'), stack'[i].module = "webpack", stack'[i].next > 1
          PROVE  UrlOrUnset(paths'["webpack"])
      <4>1. i = 1 \/ i \in 2 .. Len(stack)
        BY <2>2, <3>2
      <4>2. CASE i \in 2 .. Len(stack)
        <5>1. UrlOrUnset(paths["webpack"])
          BY <2>2, <3>2, <3>4, <4>2 DEF PathsReadUrls
        <5> QED
          BY <3>3, <5>1
      <4>3. CASE i = 1 /\ stack[1].next > 1
        <5>1. UrlOrUnset(paths["webpack"])
          BY <2>2, <3>2, <3>4, <4>3 DEF PathsReadUrls, Top
        <5> QED
          BY <3>3, <5>1
      <4>4. CASE i = 1 /\ ~(stack[1].next > 1)
        <5>1. stack[1].next = 1 /\ Top = "webpack"
          BY <2>2, <3>2, <3>4, <4>4
        <5>2. d = "paths"
          BY <5>1 DEF Requires
        <5>3. UrlOrUnset(served) /\ paths'["webpack"] = served
          BY <2>4, <3>1, <5>1, <5>2 DEF PathsReadUrls, IInv, PathsAreHeld, Modules
        <5> QED
          BY <5>3
      <4> QED
        BY <4>1, <4>2, <4>3, <4>4
    <3>5. ("webpack" \in cache => UrlOrUnset(paths["webpack"]))'
      BY <2>1, <3>3 DEF PathsReadUrls
    <3>6. UrlOrUnset(env.PUBLIC_URL)' /\ ("paths" \in cache => UrlOrUnset(served))'
      BY <2>1 DEF PathsReadUrls, UrlOrUnset
    <3> QED
      BY <3>4, <3>5, <3>6 DEF PathsReadUrls
  <2> QED
    BY <2>3, <2>4
<1>7. CASE LoadPaths
  <2>1. /\ Runs("paths") /\ Loaded("paths") /\ UNCHANGED <<env, paths>> /\ served' = env.PUBLIC_URL
        /\ cache' = cache \cup {"paths"}
    BY <1>7 DEF LoadPaths
  <2>2. UrlOrUnset(env.PUBLIC_URL)' /\ ("paths" \in cache => UrlOrUnset(served))'
    BY <2>1 DEF PathsReadUrls, UrlOrUnset
  <2>3. "paths" \in Modules
    BY DEF Modules
  <2> QED
    BY <1>2, <2>1, <2>2, <2>3
<1>8. CASE LoadEnv
  <2> DEFINE read == [v \in Variables |-> IF env[v] # Unset THEN env[v] ELSE FromFiles(v)]
             list == RelativeFolders(FoldersOf(read.NODE_PATH))
  <2>1. /\ Runs("env") /\ Loaded("env") /\ UNCHANGED <<served, paths>>
        /\ env' = [read EXCEPT !.NODE_PATH = list]
        /\ cache' = (cache \ {"paths"}) \cup {"env"}
    BY <1>8 DEF LoadEnv, ForgetPaths
  <2>2. env'.PUBLIC_URL = IF env.PUBLIC_URL # Unset THEN env.PUBLIC_URL ELSE FromFiles("PUBLIC_URL")
    <3>1. DOMAIN read = Variables /\ "PUBLIC_URL" \in Variables
      BY DEF Variables
    <3>2. read["PUBLIC_URL"] = IF env.PUBLIC_URL # Unset THEN env.PUBLIC_URL ELSE FromFiles("PUBLIC_URL")
      BY <3>1
    <3> HIDE DEF read, list
    <3> QED
      BY <2>1, <3>1, <3>2
  <2>3. UrlOrUnset(env'.PUBLIC_URL)
    BY <2>2, FilesSayUrls DEF PathsReadUrls, IInv, Ranges
  <2>4. UrlOrUnset(env.PUBLIC_URL)' /\ ("paths" \in cache => UrlOrUnset(served))'
    BY <2>1, <2>3 DEF UrlOrUnset
  <2>5. "env" \in Modules
    BY DEF Modules
  <2> QED
    BY <1>2, <2>1, <2>4, <2>5
<1>9. CASE NodeEnvMissing
  BY <1>3, <1>9 DEF NodeEnvMissing
<1>10. CASE LoadModules
  <2>1. UrlOrUnset(env.PUBLIC_URL)' /\ ("paths" \in cache => UrlOrUnset(served))'
    BY <1>10 DEF LoadModules, PathsReadUrls, UrlOrUnset
  <2> QED
    BY <1>2, <1>10, <2>1 DEF LoadModules, Modules
<1>11. CASE ModulesDoNotFit
  BY <1>3, <1>11 DEF ModulesDoNotFit
<1>12. CASE LoadWebpack
  <2>1. UrlOrUnset(env.PUBLIC_URL)' /\ ("paths" \in cache => UrlOrUnset(served))'
    BY <1>12 DEF LoadWebpack, PathsReadUrls, UrlOrUnset
  <2> QED
    BY <1>2, <1>12, <2>1 DEF LoadWebpack, Modules
<1>13. CASE LoadDevServer
  <2>1. UrlOrUnset(env.PUBLIC_URL)' /\ ("paths" \in cache => UrlOrUnset(served))'
    BY <1>13 DEF LoadDevServer, PathsReadUrls, UrlOrUnset
  <2> QED
    BY <1>2, <1>13, <2>1 DEF LoadDevServer, Modules
<1>14. ASSUME NEW mode \in Modes, Configure(mode) PROVE PathsReadUrls'
  BY <1>4, <1>14 DEF Configure, loading
<1>15. CASE UNCHANGED vars
  BY <1>4, <1>15 DEF vars, loading
<1> QED
  BY <1>5, <1>6, <1>7, <1>8, <1>9, <1>10, <1>11, <1>12, <1>13, <1>14, <1>15 DEF Next

\* It holds throughout.
LEMMA PathsReadUrlsHold == Spec => []PathsReadUrls
<1>1. ASSUME Init PROVE PathsReadUrls
  <2>1. 1 .. Len(stack) = {}
    BY <1>1, EmptySeq DEF Init
  <2>2. UrlOrUnset(env.PUBLIC_URL)
    BY <1>1, ProjectsFit DEF Init
  <2> QED
    BY <1>1, <2>1, <2>2 DEF Init, PathsReadUrls
<1>2. IInv /\ PathsReadUrls /\ [Next]_vars => PathsReadUrls'
  BY PathsReadUrlsStep
<1> QED
  BY <1>1, <1>2, Invariance, PTL DEF Spec

-----------------------------------------------------------------------------
(* What Configure makes of it. *)

\* The site is served from a url that ends with a slash.
LEMMA ServedFromUrl ==
  ASSUME NEW u, UrlOrUnset(u), project \in Projects
  PROVE  ServedPath(u).slash = TRUE /\ ServedPath(u) = Url(ServedPath(u).path, TRUE)
<1>1. UrlOrUnset(project.homepage)
  BY ProjectsFit
<1>2. PICK url : ServedPath(u) = EnsureSlash(url, TRUE) /\ url = Url(url.path, url.slash)
  <2>1. CASE Given(u)
    BY <2>1 DEF ServedPath, Given, UrlOrUnset
  <2>2. CASE ~Given(u) /\ Given(project.homepage)
    BY <1>1, <2>2 DEF ServedPath, Given, UrlOrUnset
  <2>3. CASE ~Given(u) /\ ~Given(project.homepage)
    <3>1. Url("", TRUE) = Url(Url("", TRUE).path, Url("", TRUE).slash)
      BY DEF Url
    <3> QED
      BY <2>3, <3>1 DEF ServedPath
  <2> QED
    BY <2>1, <2>2, <2>3
<1> DEFINE p == url.path
<1>3. EnsureSlash(url, TRUE) = Url(p, TRUE)
  BY <1>2 DEF EnsureSlash, Url
<1> HIDE DEF p
<1>4. ServedPath(u) = Url(p, TRUE)
  BY <1>2, <1>3
<1>5. Url(p, TRUE).slash = TRUE /\ Url(p, TRUE).path = p
  BY DEF Url
<1> QED
  BY <1>4, <1>5

\* A url and the slash it has been given.
LEMMA Slashed ==
  ASSUME NEW p
  PROVE  [Url(p, FALSE) EXCEPT !.slash = TRUE] = Url(p, TRUE)
<1> DEFINE u == [Url(p, FALSE) EXCEPT !.slash = TRUE]
           v == Url(p, TRUE)
<1>1. DOMAIN u = {"path", "slash"} /\ u["path"] = p /\ u["slash"] = TRUE
  BY DEF Url
<1>2. DOMAIN v = {"path", "slash"} /\ v["path"] = p /\ v["slash"] = TRUE
  BY DEF Url
<1>3. u = [x \in {"path", "slash"} |-> u[x]] /\ v = [x \in {"path", "slash"} |-> v[x]]
  BY DEF Url
<1> HIDE DEF u, v
<1>4. u = v
  BY <1>1, <1>2, <1>3
<1> QED
  BY <1>4 DEF u, v

\* The public url of a bundle is its public path, less the slash.
LEMMA UrlsAgree ==
  ASSUME IInv, PathsReadUrls, "webpack" \in cache, NEW mode \in Modes
  PROVE  /\ PublicPath(mode).slash
         /\ [PublicUrl(mode) EXCEPT !.slash = TRUE] = PublicPath(mode)
<1>1. CASE mode = "production"
  <2> DEFINE path == ServedPath(paths["webpack"])
  <2>1. path.slash = TRUE /\ path = Url(path.path, TRUE)
    BY ServedFromUrl DEF PathsReadUrls, IInv, Ranges
  <2>2. PublicPath(mode) = path /\ PublicUrl(mode) = WithoutLast(path)
    BY <1>1 DEF PublicPath, PublicUrl
  <2> HIDE DEF path
  <2>3. WithoutLast(path) = Url(path.path, FALSE)
    BY <2>1 DEF WithoutLast, Url
  <2>4. [Url(path.path, FALSE) EXCEPT !.slash = TRUE] = Url(path.path, TRUE)
    BY Slashed
  <2> QED
    BY <2>1, <2>2, <2>3, <2>4
<1>2. CASE mode = "development"
  <2>1. PublicPath(mode) = Url("", TRUE) /\ PublicUrl(mode) = Url("", FALSE)
    BY <1>2 DEF PublicPath, PublicUrl, EmptyUrl
  <2>2. Url("", TRUE).slash
    BY DEF Url
  <2> QED
    BY <2>1, <2>2, Slashed
<1> QED
  BY <1>1, <1>2 DEF Modes

\* Only Configure makes a bundle, and its urls agree.
LEMMA PublicUrlsStep ==
  ASSUME IInv, PathsReadUrls, PublicUrlIsPublicPath, [Next]_vars
  PROVE  PublicUrlIsPublicPath'
<1>1. CASE UNCHANGED bundle
  BY <1>1 DEF PublicUrlIsPublicPath
<1>2. ASSUME NEW mode \in Modes, Configure(mode) PROVE PublicUrlIsPublicPath'
  <2>1. "webpack" \in cache /\ bundle' = Bundle(mode)
    BY <1>2 DEF Configure
  <2>2. /\ bundle'.publicPath = PublicPath(mode) /\ bundle'.publicUrl = PublicUrl(mode)
        /\ bundle'.client = ClientEnvironment(PublicUrl(mode))
    BY <2>1 DEF Bundle
  <2>3. bundle'.client["PUBLIC_URL"] = PublicUrl(mode)
    BY <2>2 DEF ClientEnvironment
  <2> QED
    BY <2>1, <2>2, <2>3, UrlsAgree DEF PublicUrlIsPublicPath
<1>3. UNCHANGED bundle \/ \E mode \in Modes : Configure(mode)
  BY DEF Next, vars, Require, RequireNext, LoadPaths, LoadEnv, NodeEnvMissing, LoadModules,
     ModulesDoNotFit, LoadWebpack, LoadDevServer, Loaded, Throw
<1> QED
  BY <1>1, <1>2, <1>3

\* %PUBLIC_URL% and process.env.PUBLIC_URL lead where webpack puts the files,
\* whatever PUBLIC_URL and homepage are (webpack.config.js:64-80).
THEOREM PublicUrlsHold == Spec => []PublicUrlIsPublicPath
<1>1. Init => PublicUrlIsPublicPath
  BY DEF Init, PublicUrlIsPublicPath
<1>2. IInv /\ PathsReadUrls /\ PublicUrlIsPublicPath /\ [Next]_vars => PublicUrlIsPublicPath'
  BY PublicUrlsStep
<1> QED
  BY <1>1, <1>2, Invariance, PathsReadUrlsHold, PTL DEF Spec

=============================================================================
