----------------------- MODULE PolicyDistributionProofs -----------------------
(***************************************************************************)
(* Safety of PolicyDistribution for any number of tasks, any endpoint      *)
(* lists and any number of publishes, edits and faults.                    *)
(***************************************************************************)
EXTENDS PolicyDistribution, TLAPS

Calling == {"token", "put", "wait"}

\* The endpoint has been given the policy of task t, or t's call to it failed.
Dealt(t, e) == policy[t] \in seen[e] \/ e \in missed[t]

\* Where a task is in its list tells whom it has dealt with.
Progress(t) ==
  /\ pc[t] \in {"idle", "compare", "read"} => pos[t] = 1
  /\ pc[t] = "idle" => ~byTimer[t]
  /\ pc[t] = "compare" => byTimer[t]
  /\ pc[t] \in Calling =>
       policy[t] \in Numbers /\ \A i \in 1 .. pos[t] - 1 : Dealt(t, List(t)[i])
  /\ pc[t] = "wait" => MyPut(t) \in wire \/ policy[t] \in seen[Callee(t)]
  /\ pc[t] = "done" /\ ~byTimer[t] =>
       policy[t] \in Numbers /\ \A i \in 1 .. Len(List(t)) : Dealt(t, List(t)[i])

\* Somebody has tried to give the endpoint a policy.
Tried(e) == seen[e] # {} \/ \E t \in Tasks : e \in missed[t]

CacheOK ==
  \A k \in Kinds : cache[k] # Null => \A i \in 1 .. Len(cache[k]) : Tried(cache[k][i])

\* The inductive invariant.
IInv == TypeOK /\ (\A t \in Tasks : Progress(t)) /\ CacheOK

-----------------------------------------------------------------------------
(* Endpoint lists. *)

\* An endpoint list is a sequence of endpoints, and it is not empty.
LEMMA ListsAreProper ==
  ASSUME NEW l \in AllLists
  PROVE  l \in Seq(Endpoints) /\ Len(l) \in Nat /\ Len(l) >= 1
         /\ \A i \in 1 .. Len(l) : l[i] \in Endpoints
<1>1. l \in Seq(Endpoints) /\ l # <<>>
  BY ListsOfEndpoints DEF AllLists, Kinds
<1>2. Len(l) \in Nat /\ Len(l) # 0
  BY <1>1
<1> QED
  BY <1>1, <1>2

\* A task works on such a list.
LEMMA TaskList ==
  ASSUME TypeOK, NEW t \in Tasks
  PROVE  /\ List(t) \in AllLists
         /\ Len(List(t)) \in Nat /\ Len(List(t)) >= 1
         /\ \A i \in 1 .. Len(List(t)) : List(t)[i] \in Endpoints
         /\ pos[t] \in 1 .. Len(List(t))
         /\ Callee(t) \in Endpoints
<1>1. List(t) \in AllLists /\ pos[t] \in 1 .. Len(List(t))
  BY DEF TypeOK, Configurations, List
<1> QED
  BY <1>1, ListsAreProper DEF Callee

-----------------------------------------------------------------------------
(* What a step does not disturb. *)

\* Endpoints do not forget, nor do tasks.
Grows ==
  /\ \A e \in Endpoints : seen[e] \subseteq seen'[e]
  /\ \A u \in Tasks : missed[u] \subseteq missed'[u]

\* The step is not one of task u.
Stays(u) ==
  /\ pc'[u] = pc[u] /\ byTimer'[u] = byTimer[u] /\ kind'[u] = kind[u]
  /\ settings'[u] = settings[u] /\ policy'[u] = policy[u] /\ pos'[u] = pos[u]

\* A put of task u that is under way stays so or arrives.
PutKept(u) ==
  MyPut(u) \in wire => MyPut(u) \in wire' \/ policy[u] \in seen'[Callee(u)]

\* Another task's step keeps what a task has achieved.
LEMMA Undisturbed ==
  ASSUME TypeOK, NEW u \in Tasks, Progress(u), Grows, Stays(u), PutKept(u)
  PROVE  Progress(u)'
<1>1. List(u)' = List(u) /\ Callee(u)' = Callee(u) /\ MyPut(u)' = MyPut(u)
  BY DEF Stays, List, Callee, MyPut
<1>2. ASSUME NEW i \in 1 .. Len(List(u)), Dealt(u, List(u)[i])
      PROVE  Dealt(u, List(u)[i])'
  BY <1>1, <1>2, TaskList DEF Dealt, Grows, Stays
<1>3. pos[u] \in 1 .. Len(List(u)) /\ Len(List(u)) \in Nat /\ Callee(u) \in Endpoints
  BY TaskList
<1>4. pc[u] = "wait" => MyPut(u)' \in wire' \/ policy'[u] \in seen'[Callee(u)']
  BY <1>1, <1>3 DEF Progress, PutKept, Grows, Stays
<1>5. pc[u] \in Calling => \A i \in 1 .. pos[u] - 1 : Dealt(u, List(u)[i])'
  BY <1>2, <1>3 DEF Progress
<1>6. pc[u] = "done" /\ ~byTimer[u] => \A i \in 1 .. Len(List(u)) : Dealt(u, List(u)[i])'
  BY <1>2 DEF Progress
<1> QED
  BY <1>1, <1>4, <1>5, <1>6 DEF Progress, Stays

\* An endpoint once tried stays tried.
LEMMA TriedStays ==
  ASSUME NEW e \in Endpoints, Tried(e), Grows
  PROVE  Tried(e)'
BY DEF Tried, Grows

\* So does a synchroniser's cache, where it is not set.
LEMMA CacheUndisturbed ==
  ASSUME TypeOK, CacheOK, Grows, NEW k \in Kinds, cache'[k] = cache[k], cache[k] # Null,
         NEW i \in 1 .. Len(cache'[k])
  PROVE  Tried(cache[k][i])'
<1>1. cache[k] \in AllLists /\ Tried(cache[k][i])
  BY DEF TypeOK, CacheOK
<1>2. PICK e \in Endpoints : e = cache[k][i]
  BY <1>1, ListsAreProper
<1>3. Tried(e)'
  BY <1>1, <1>2, TriedStays
<1> QED
  BY <1>2, <1>3 DEF Tried

\* A step that leaves all caches alone.
LEMMA CachesUndisturbed ==
  ASSUME TypeOK, CacheOK, Grows, cache' = cache
  PROVE  CacheOK'
BY CacheUndisturbed DEF CacheOK

-----------------------------------------------------------------------------
(* What the steps of a task do. *)

\* A list position stays valid for a task that keeps its list.
PlaceOK(u) == pos'[u] \in 1 .. Len(List(u)')

\* Handing over to the next synchroniser.
LEMMA NextSynchroniserOK ==
  ASSUME TypeOK, NEW t \in Tasks, byTimer[t], byTimer' = byTimer,
         settings' = settings, NextSynchroniser(t)
  PROVE  /\ Progress(t)'
         /\ pc' \in [Tasks -> Labels] /\ kind' \in [Tasks -> Kinds] /\ pos' \in [Tasks -> Nat]
         /\ \A u \in Tasks : PlaceOK(u)
         /\ \A u \in Tasks \ {t} : pc'[u] = pc[u] /\ kind'[u] = kind[u] /\ pos'[u] = pos[u]
<1> USE DEF NextSynchroniser
<1>1. /\ pc' \in [Tasks -> Labels] /\ kind' \in [Tasks -> Kinds] /\ pos' \in [Tasks -> Nat]
      /\ pc'[t] \in {"compare", "done"} /\ pos'[t] = 1 /\ kind'[t] = "adaption"
      /\ \A u \in Tasks \ {t} : pc'[u] = pc[u] /\ kind'[u] = kind[u] /\ pos'[u] = pos[u]
  BY DEF TypeOK, Labels, Kinds
<1>2. Progress(t)'
  BY <1>1 DEF Progress, Calling, TypeOK
<1>3. settings[t]["adaption"] \in AllLists
  BY DEF TypeOK, Configurations, Kinds
<1>4. PlaceOK(t)
  BY <1>1, <1>3, ListsAreProper DEF PlaceOK, List
<1>5. ASSUME NEW u \in Tasks \ {t} PROVE PlaceOK(u)
  BY <1>1, TaskList DEF PlaceOK, List
<1> QED
  BY <1>1, <1>2, <1>4, <1>5

\* What task t has not yet dealt with is dealt with after its call.
LEMMA AdvanceOK ==
  ASSUME TypeOK, CacheOK, NEW t \in Tasks, Progress(t), pc[t] \in Calling, Grows, Advance(t),
         byTimer' = byTimer, settings' = settings, policy' = policy,
         policy[t] \in seen'[Callee(t)] \/ Callee(t) \in missed'[t]
  PROVE  /\ Progress(t)' /\ CacheOK'
         /\ pc' \in [Tasks -> Labels] /\ kind' \in [Tasks -> Kinds] /\ pos' \in [Tasks -> Nat]
         /\ cache' \in [Kinds -> AllLists \cup {Null}]
         /\ \A u \in Tasks : PlaceOK(u)
         /\ \A u \in Tasks \ {t} : pc'[u] = pc[u] /\ kind'[u] = kind[u] /\ pos'[u] = pos[u]
<1> DEFINE Given(e) == policy[t] \in seen'[e] \/ e \in missed'[t]
<1>1. /\ List(t) \in AllLists /\ Len(List(t)) \in Nat /\ pos[t] \in 1 .. Len(List(t))
      /\ \A i \in 1 .. Len(List(t)) : List(t)[i] \in Endpoints
  BY TaskList
<1>2. \A i \in 1 .. pos[t] : Given(List(t)[i])
  <2>1. ASSUME NEW i \in 1 .. pos[t] - 1 PROVE Given(List(t)[i])
    <3>1. Dealt(t, List(t)[i]) /\ List(t)[i] \in Endpoints
      BY <1>1 DEF Progress
    <3> QED
      BY <3>1 DEF Dealt, Grows
  <2>2. Given(List(t)[pos[t]])
    BY DEF Callee
  <2> QED
    BY <1>1, <2>1, <2>2
<1>3. policy[t] \in Numbers
  BY DEF Progress
<1>4. CASE pos[t] < Len(List(t))
  <2>1. /\ pc' = [pc EXCEPT ![t] = "token"] /\ pos' = [pos EXCEPT ![t] = pos[t] + 1]
        /\ cache' = cache /\ kind' = kind
    BY <1>4 DEF Advance
  <2>2. List(t)' = List(t) /\ pos'[t] = pos[t] + 1 /\ pc'[t] = "token"
    BY <2>1 DEF List, TypeOK
  <2>3. Progress(t)'
    BY <1>1, <1>2, <1>3, <2>2 DEF Progress, Calling, Dealt
  <2>4. ASSUME NEW u \in Tasks PROVE PlaceOK(u)
    BY <1>1, <1>4, <2>1, TaskList DEF PlaceOK, List, TypeOK
  <2>5. pc' \in [Tasks -> Labels] /\ pos' \in [Tasks -> Nat]
    BY <2>1 DEF TypeOK, Labels
  <2> QED
    BY <2>1, <2>3, <2>4, <2>5, CachesUndisturbed DEF TypeOK
<1>5. CASE pos[t] >= Len(List(t))
  <2>1. pos[t] = Len(List(t)) /\ Finish(t)
    BY <1>1, <1>5 DEF Advance
  <2>2. CASE ~byTimer[t]
    <3>1. pc' = [pc EXCEPT ![t] = "done"] /\ cache' = cache /\ kind' = kind /\ pos' = pos
      BY <2>1, <2>2 DEF Finish
    <3>2. List(t)' = List(t) /\ pc'[t] = "done"
      BY <3>1 DEF List, TypeOK
    <3>3. Progress(t)'
      BY <1>2, <1>3, <2>1, <3>2 DEF Progress, Calling, Dealt
    <3>4. ASSUME NEW u \in Tasks PROVE PlaceOK(u)
      BY <3>1, TaskList DEF PlaceOK, List
    <3>5. pc' \in [Tasks -> Labels]
      BY <3>1 DEF TypeOK, Labels
    <3> QED
      BY <3>1, <3>3, <3>4, <3>5, CachesUndisturbed DEF TypeOK
  <2>3. CASE byTimer[t]
    <3>1. Remember(t) /\ NextSynchroniser(t)
      BY <2>1, <2>3 DEF Finish
    <3>2. cache' = [cache EXCEPT ![kind[t]] = List(t)] /\ kind[t] \in Kinds
      BY <3>1 DEF Remember, TypeOK
    <3>3. cache' \in [Kinds -> AllLists \cup {Null}]
      BY <1>1, <3>2 DEF TypeOK
    <3>4. CacheOK'
      <4> SUFFICES ASSUME NEW k \in Kinds, cache'[k] # Null, NEW i \in 1 .. Len(cache'[k])
                   PROVE  Tried(cache[k][i])'
        BY DEF CacheOK
      <4>1. CASE k = kind[t]
        <5>1. cache'[k] = List(t)
          BY <3>2, <4>1 DEF TypeOK
        <5>2. Given(List(t)[i])
          BY <1>2, <2>1, <5>1
        <5> QED
          BY <5>1, <5>2 DEF Tried
      <4>2. CASE k # kind[t]
        BY <3>2, <4>2, CacheUndisturbed DEF TypeOK
      <4> QED
        BY <4>1, <4>2
    <3> QED
      BY <2>3, <3>1, <3>3, <3>4, NextSynchroniserOK
  <2> QED
    BY <2>2, <2>3
<1> QED
  BY <1>1, <1>4, <1>5

-----------------------------------------------------------------------------
(* The invariant is inductive: one lemma per group of actions. *)

\* The invariant after a step of task t alone.
LEMMA StepOf ==
  ASSUME IInv, NEW t \in Tasks, TypeOK', Progress(t)', CacheOK', Grows,
         \A u \in Tasks \ {t} : Stays(u) /\ PutKept(u)
  PROVE  IInv'
BY Undisturbed DEF IInv

\* No step of a task: publishes and edits of the configuration.
LEMMA WorldSteps ==
  ASSUME IInv, PublishBegins \/ PublishEnds \/ \E k \in Kinds : Reconfigure(k)
  PROVE  IInv'
<1> USE DEF IInv
<1>1. TypeOK'
  <2>1. CASE PublishBegins
    BY <2>1 DEF PublishBegins, TypeOK, task, endpoints
  <2>2. CASE PublishEnds
    BY <2>2, ListsOfEndpoints DEF PublishEnds, TypeOK, task, endpoints, Numbers
  <2>3. ASSUME NEW k \in Kinds, Reconfigure(k) PROVE TypeOK'
    <3>1. config' \in Configurations
      <4>1. PICK l \in Lists[k] : config' = [config EXCEPT ![k] = l]
        BY <2>3 DEF Reconfigure
      <4>2. l \in AllLists
        BY <4>1 DEF AllLists, Kinds
      <4> QED
        BY <4>1, <4>2 DEF TypeOK, Configurations
    <3>2. changes' \in 0 .. MaxChanges
      BY <2>3, ListsOfEndpoints DEF Reconfigure, TypeOK
    <3> QED
      BY <2>3, <3>1, <3>2 DEF Reconfigure, TypeOK, task, endpoints
  <2> QED
    BY <2>1, <2>2, <2>3
<1>2. UNCHANGED <<cache, pc, task, endpoints, missed>>
  BY DEF PublishBegins, PublishEnds, Reconfigure
<1>3. Grows /\ \A u \in Tasks : Stays(u) /\ PutKept(u)
  BY <1>2 DEF task, endpoints, Grows, Stays, PutKept
<1> QED
  BY <1>1, <1>2, <1>3, Undisturbed, CachesUndisturbed

\* A task begins, and nobody has been dealt with yet.
LEMMA BeginSteps ==
  ASSUME IInv, NEW t \in Tasks, Tick(t) \/ \E k \in Kinds : Distribute(t, k)
  PROVE  IInv'
<1> USE DEF IInv
<1>1. UNCHANGED <<world, cache, policy, pos, hungUp, endpoints, missed, faults>> /\ pc[t] = "idle"
  BY DEF Tick, Distribute
<1>2. PICK k \in Kinds :
        /\ kind' = [kind EXCEPT ![t] = k]
        /\ settings' = [settings EXCEPT ![t] = config]
        /\ \/ pc' = [pc EXCEPT ![t] = "read"] /\ byTimer' = byTimer
           \/ pc' = [pc EXCEPT ![t] = "compare"] /\ byTimer' = [byTimer EXCEPT ![t] = TRUE]
  BY DEF Tick, Distribute, Kinds
<1>3. pos[t] = 1 /\ config[k] \in AllLists
  BY <1>1 DEF Progress, TypeOK, Configurations
<1>4. ASSUME NEW u \in Tasks PROVE pos'[u] \in 1 .. Len(settings'[u][kind'[u]])
  <2>1. CASE u = t
    BY <1>1, <1>2, <1>3, <2>1, ListsAreProper DEF TypeOK
  <2>2. CASE u # t
    BY <1>1, <1>2, <2>2 DEF TypeOK
  <2> QED
    BY <2>1, <2>2
<1>5. /\ pc' \in [Tasks -> Labels] /\ byTimer' \in [Tasks -> BOOLEAN]
      /\ kind' \in [Tasks -> Kinds] /\ settings' \in [Tasks -> Configurations]
  BY <1>2 DEF TypeOK, Labels
<1>6. TypeOK'
  BY <1>1, <1>4, <1>5 DEF TypeOK, world, endpoints
<1>7. Progress(t)'
  BY <1>1, <1>2, <1>3 DEF Progress, Calling, TypeOK
<1>8. Grows /\ \A u \in Tasks \ {t} : Stays(u) /\ PutKept(u)
  BY <1>1, <1>2 DEF Grows, Stays, PutKept, endpoints, TypeOK
<1> QED
  BY <1>1, <1>6, <1>7, <1>8, StepOf, CachesUndisturbed

\* A task reads the current policy.
LEMMA ReadStep ==
  ASSUME IInv, NEW t \in Tasks, Read(t)
  PROVE  IInv'
<1> USE DEF IInv
<1>1. /\ pc[t] = "read" /\ current \in Numbers
      /\ pc' = [pc EXCEPT ![t] = "token"] /\ policy' = [policy EXCEPT ![t] = current]
      /\ UNCHANGED <<world, cache, byTimer, kind, settings, pos, hungUp, endpoints, missed, faults>>
  BY DEF Read, TypeOK
<1>2. pc' \in [Tasks -> Labels] /\ policy' \in [Tasks -> Numbers \cup {Null}]
  BY <1>1 DEF TypeOK, Labels
<1>3. TypeOK'
  BY <1>1, <1>2 DEF TypeOK, world, endpoints
<1>4. Progress(t)'
  BY <1>1 DEF Progress, Calling, TypeOK
<1>5. Grows /\ \A u \in Tasks \ {t} : Stays(u) /\ PutKept(u)
  BY <1>1 DEF Grows, Stays, PutKept, endpoints
<1> QED
  BY <1>1, <1>3, <1>4, <1>5, StepOf, CachesUndisturbed

\* A synchroniser compares, or a task finds no policy.
LEMMA SkipSteps ==
  ASSUME IInv, NEW t \in Tasks, Compare(t) \/ NoPolicy(t)
  PROVE  IInv'
<1> USE DEF IInv
<1>1. UNCHANGED <<world, cache, byTimer, settings, policy, hungUp, endpoints, missed, faults>>
  BY DEF Compare, NoPolicy
<1>2. CASE byTimer[t] /\ NextSynchroniser(t)
  <2>1. /\ Progress(t)'
        /\ pc' \in [Tasks -> Labels] /\ kind' \in [Tasks -> Kinds] /\ pos' \in [Tasks -> Nat]
        /\ \A u \in Tasks : PlaceOK(u)
        /\ \A u \in Tasks \ {t} : pc'[u] = pc[u] /\ kind'[u] = kind[u] /\ pos'[u] = pos[u]
    BY <1>1, <1>2, NextSynchroniserOK
  <2>2. TypeOK'
    BY <1>1, <2>1 DEF TypeOK, world, endpoints, PlaceOK, List
  <2>3. Grows /\ \A u \in Tasks \ {t} : Stays(u) /\ PutKept(u)
    BY <1>1, <2>1 DEF Grows, Stays, PutKept, endpoints
  <2> QED
    BY <1>1, <2>1, <2>2, <2>3, StepOf, CachesUndisturbed
<1>3. CASE ~(byTimer[t] /\ NextSynchroniser(t))
  <2>1. PICK l \in {"read", "failed"} : pc' = [pc EXCEPT ![t] = l]
    BY <1>3 DEF Compare, NoPolicy, Progress
  <2>2. pc[t] \in {"compare", "read"} /\ kind' = kind /\ pos' = pos
    BY <1>3 DEF Compare, NoPolicy, Progress
  <2>3. pc' \in [Tasks -> Labels]
    BY <2>1 DEF TypeOK, Labels
  <2>4. TypeOK'
    BY <1>1, <2>2, <2>3 DEF TypeOK, world, endpoints
  <2>5. Progress(t)'
    BY <1>1, <2>1, <2>2 DEF Progress, Calling, TypeOK
  <2>6. Grows /\ \A u \in Tasks \ {t} : Stays(u) /\ PutKept(u)
    BY <1>1, <2>1, <2>2 DEF Grows, Stays, PutKept, endpoints
  <2> QED
    BY <1>1, <2>4, <2>5, <2>6, StepOf, CachesUndisturbed
<1> QED
  BY <1>2, <1>3

\* A task has its token, or sends its put.
LEMMA CallSteps ==
  ASSUME IInv, NEW t \in Tasks, GetToken(t) \/ PutPolicy(t)
  PROVE  IInv'
<1> USE DEF IInv
<1>1. UNCHANGED <<world, cache, task, held, seen, missed, faults>>
  BY DEF GetToken, PutPolicy, endpoints
<1>2. /\ pc[t] \in Calling
      /\ \/ pc' = [pc EXCEPT ![t] = "put"] /\ wire' = wire
         \/ pc' = [pc EXCEPT ![t] = "wait"] /\ wire' = wire \cup {MyPut(t)}
  BY DEF GetToken, PutPolicy, Calling, endpoints
<1>3. MyPut(t) \in Puts
  BY <1>2, TaskList DEF MyPut, Puts, Progress
<1>4. pc' \in [Tasks -> Labels] /\ wire' \subseteq Puts
  BY <1>2, <1>3 DEF TypeOK, Labels
<1>5. TypeOK'
  BY <1>1, <1>4 DEF TypeOK, world, task
<1>6. List(t)' = List(t) /\ MyPut(t)' = MyPut(t)
  BY <1>1 DEF List, MyPut, Callee, task
<1>7. Progress(t)'
  BY <1>1, <1>2, <1>6 DEF Progress, Calling, TypeOK, task, Dealt
<1>8. Grows /\ \A u \in Tasks \ {t} : Stays(u) /\ PutKept(u)
  BY <1>1, <1>2 DEF Grows, Stays, PutKept, task, TypeOK
<1> QED
  BY <1>1, <1>5, <1>7, <1>8, StepOf, CachesUndisturbed

\* A put arrives.
LEMMA DeliverStep ==
  ASSUME IInv, NEW m \in wire, Deliver(m)
  PROVE  IInv'
<1> USE DEF IInv
<1>1. /\ wire' = wire \ {m}
      /\ held' = [held EXCEPT ![m.to] = m.policy]
      /\ seen' = [seen EXCEPT ![m.to] = seen[m.to] \cup {m.policy}]
      /\ UNCHANGED <<world, cache, pc, task, missed, faults>>
      /\ m.to \in Endpoints /\ m.policy \in Numbers
  BY DEF Deliver, TypeOK, Puts
<1>2. /\ wire' \subseteq Puts /\ held' \in [Endpoints -> Numbers \cup {Null}]
      /\ seen' \in [Endpoints -> SUBSET Numbers]
  BY <1>1 DEF TypeOK
<1>3. TypeOK'
  BY <1>1, <1>2 DEF TypeOK, world, task
<1>4. Grows
  BY <1>1 DEF Grows, TypeOK
<1>5. ASSUME NEW u \in Tasks PROVE Stays(u) /\ PutKept(u)
  <2>1. Stays(u)
    BY <1>1 DEF Stays, task
  <2>2. CASE m = MyPut(u)
    BY <1>1, <2>1, <2>2 DEF PutKept, MyPut, TypeOK
  <2>3. CASE m # MyPut(u)
    BY <1>1, <2>1, <2>3 DEF PutKept
  <2> QED
    BY <2>1, <2>2, <2>3
<1> QED
  BY <1>1, <1>3, <1>4, <1>5, Undisturbed, CachesUndisturbed

\* A call is over, with an answer or without.
LEMMA ReturnSteps ==
  ASSUME IInv, NEW t \in Tasks, Answered(t) \/ CallFails(t)
  PROVE  IInv'
<1> USE DEF IInv
<1>1. /\ pc[t] \in Calling /\ Advance(t)
      /\ UNCHANGED <<world, byTimer, settings, policy, hungUp, held, seen>>
      /\ faults' \in 0 .. MaxFaults
      /\ wire' \in {wire, wire \ {MyPut(t)}}
  <2>1. CASE Answered(t)
    BY <2>1 DEF Answered, Calling, endpoints, TypeOK
  <2>2. CASE CallFails(t)
    BY <2>2, ListsOfEndpoints DEF CallFails, AfterFailure, Calling, Fault, TypeOK
  <2> QED
    BY <2>1, <2>2
<1>2. Callee(t) \in Endpoints
  BY TaskList
<1>3. /\ missed' \in [Tasks -> SUBSET Endpoints]
      /\ \A u \in Tasks : missed[u] \subseteq missed'[u]
      /\ policy[t] \in seen'[Callee(t)] \/ Callee(t) \in missed'[t]
  <2>1. CASE Answered(t)
    BY <2>1 DEF Answered, Arrived, Progress, Calling, TypeOK, endpoints
  <2>2. CASE CallFails(t)
    BY <1>2, <2>2 DEF CallFails, TypeOK
  <2> QED
    BY <2>1, <2>2
<1>4. Grows
  BY <1>1, <1>3 DEF Grows
<1>5. /\ Progress(t)' /\ CacheOK'
      /\ pc' \in [Tasks -> Labels] /\ kind' \in [Tasks -> Kinds] /\ pos' \in [Tasks -> Nat]
      /\ cache' \in [Kinds -> AllLists \cup {Null}]
      /\ \A u \in Tasks : PlaceOK(u)
      /\ \A u \in Tasks \ {t} : pc'[u] = pc[u] /\ kind'[u] = kind[u] /\ pos'[u] = pos[u]
  BY <1>1, <1>3, <1>4, AdvanceOK
<1>6. TypeOK'
  BY <1>1, <1>3, <1>5 DEF TypeOK, world, PlaceOK, List
<1>7. ASSUME NEW u \in Tasks \ {t} PROVE Stays(u) /\ PutKept(u)
  <2>1. MyPut(u) # MyPut(t)
    BY DEF MyPut
  <2> QED
    BY <1>1, <1>5, <2>1 DEF Stays, PutKept
<1> QED
  BY <1>4, <1>5, <1>6, <1>7, StepOf

\* A client hangs up.
LEMMA HangUpStep ==
  ASSUME IInv, NEW t \in Tasks, HangUp(t)
  PROVE  IInv'
<1> USE DEF IInv
<1>1. /\ hungUp' = [hungUp EXCEPT ![t] = TRUE] /\ faults' \in 0 .. MaxFaults
      /\ UNCHANGED <<world, cache, pc, byTimer, kind, settings, policy, pos, endpoints, missed>>
  BY ListsOfEndpoints DEF HangUp, Fault, TypeOK
<1>2. hungUp' \in [Tasks -> BOOLEAN]
  BY <1>1 DEF TypeOK
<1>3. TypeOK'
  BY <1>1, <1>2 DEF TypeOK, world, endpoints
<1>4. Grows /\ \A u \in Tasks : Stays(u) /\ PutKept(u)
  BY <1>1 DEF Grows, Stays, PutKept, endpoints
<1> QED
  BY <1>1, <1>3, <1>4, Undisturbed, CachesUndisturbed

\* The process is restarted.
LEMMA RestartStep ==
  ASSUME IInv, Restart
  PROVE  IInv'
<1> USE DEF IInv
<1>1. /\ faults' \in 0 .. MaxFaults
      /\ cache' = [k \in Kinds |-> Null]
      /\ UNCHANGED <<world, task, endpoints>>
  BY ListsOfEndpoints DEF Restart, Fault, TypeOK
<1>2. /\ pc' \in [Tasks -> Labels]
      /\ \A u \in Tasks : (pc'[u] = pc[u] /\ ~InFlight(u)) \/ pc'[u] = "failed"
  BY DEF Restart, TypeOK, Labels
<1>3. missed' \in [Tasks -> SUBSET Endpoints] /\ \A u \in Tasks : missed[u] \subseteq missed'[u]
  BY TaskList DEF Restart, TypeOK
<1>4. TypeOK'
  BY <1>1, <1>2, <1>3 DEF TypeOK, world, task, endpoints
<1>5. CacheOK'
  BY <1>1 DEF CacheOK
<1>6. Grows
  BY <1>1, <1>3 DEF Grows, endpoints
<1>7. ASSUME NEW u \in Tasks PROVE Progress(u)'
  <2>1. CASE pc'[u] = "failed"
    BY <2>1 DEF Progress, Calling
  <2>2. CASE pc'[u] = pc[u]
    BY <1>1, <1>6, <2>2, Undisturbed DEF Stays, PutKept, task, endpoints
  <2> QED
    BY <1>2, <2>1, <2>2
<1> QED
  BY <1>4, <1>5, <1>7

-----------------------------------------------------------------------------
(* The theorems. *)

\* The invariant holds at first.
LEMMA AtFirst ==
  ASSUME Init
  PROVE  IInv
<1>1. \A k \in Kinds : config[k] \in AllLists
  BY DEF Init, Configurations
<1>2. \A k \in Kinds : 1 \in 1 .. Len(config[k])
  BY <1>1, ListsAreProper
<1>3. TypeOK
  BY <1>2, ListsOfEndpoints DEF Init, TypeOK, Numbers, Labels, Kinds, Puts
<1>4. \A t \in Tasks : Progress(t)
  BY DEF Init, Progress, Calling
<1>5. CacheOK
  BY DEF Init, CacheOK
<1> QED
  BY <1>3, <1>4, <1>5 DEF IInv

\* Every step keeps it.
LEMMA Stepwise ==
  ASSUME IInv, [Next]_vars
  PROVE  IInv'
<1>1. CASE Next
  <2>1. CASE PublishBegins \/ PublishEnds \/ \E k \in Kinds : Reconfigure(k)
    BY <2>1, WorldSteps
  <2>2. ASSUME NEW t \in Tasks, Tick(t) \/ \E k \in Kinds : Distribute(t, k) PROVE IInv'
    BY <2>2, BeginSteps
  <2>3. ASSUME NEW t \in Tasks, Work(t) PROVE IInv'
    BY <2>3, ReadStep, SkipSteps, CallSteps, ReturnSteps DEF Work
  <2>4. ASSUME NEW t \in Tasks, CallFails(t) \/ HangUp(t) PROVE IInv'
    BY <2>4, ReturnSteps, HangUpStep
  <2>5. ASSUME NEW m \in wire, Deliver(m) PROVE IInv'
    BY <2>5, DeliverStep
  <2>6. CASE Restart
    BY <2>6, RestartStep
  <2>7. CASE Terminated
    BY <2>7 DEF Terminated, vars, world, task, endpoints, IInv, TypeOK, CacheOK, Progress,
                Dealt, Tried, List, Callee, MyPut
  <2> QED
    BY <1>1, <2>1, <2>2, <2>3, <2>4, <2>5, <2>6, <2>7 DEF Next
<1>2. CASE UNCHANGED vars
  BY <1>2 DEF vars, world, task, endpoints, IInv, TypeOK, CacheOK, Progress, Dealt, Tried,
              List, Callee, MyPut
<1> QED
  BY <1>1, <1>2

\* The invariant holds in every reachable state.
THEOREM Invariance == Spec => []IInv
<1>1. Init => IInv
  BY AtFirst
<1>2. IInv /\ [Next]_vars => IInv'
  BY Stepwise
<1> QED
  BY <1>1, <1>2, PTL DEF Spec

\* Every variable keeps its type.
THEOREM TypeCorrect == Spec => []TypeOK
<1>1. IInv => TypeOK
  BY DEF IInv
<1> QED
  BY <1>1, Invariance, PTL

\* A request that was answered has served every endpoint whose call did not
\* fail: the catch clause is inside PolicyDistributer's loops.
THEOREM AllEndpointsTried == Spec => []EveryEndpointIsTried
<1>1. IInv => EveryEndpointIsTried
  BY DEF IInv, Progress, Dealt, EveryEndpointIsTried, Members
<1> QED
  BY <1>1, Invariance, PTL

\* What a synchroniser has in its _endpointCache has been tried.
THEOREM CachedWasTried == Spec => []CachedMeansTried
<1>1. IInv => CachedMeansTried
  BY DEF IInv, CacheOK, Tried, CachedMeansTried, Members
<1> QED
  BY <1>1, Invariance, PTL

-----------------------------------------------------------------------------
(* One task at a time. *)

\* No call to the endpoint has failed.
Sound(e) == \A u \in Tasks : e \notin missed[u]

\* The task that sent the put is waiting for its answer.
Awaited(m) == pc[m.task] = "wait" /\ m = MyPut(m.task)

\* No policy has a higher number than the last one issued.
Numbered ==
  /\ current # Null => current = issued
  /\ \A t \in Tasks : policy[t] # Null => policy[t] <= issued
  /\ \A m \in wire : m.policy <= issued
  /\ \A e \in Endpoints : \A n \in seen[e] : n <= issued

\* A put that nobody waits for can only reach an endpoint that has missed a call.
NoLatePuts == \A m \in wire : Awaited(m) \/ ~Sound(m.to)

\* A sound endpoint enforces the newest policy that it was sent.
Newest ==
  \A e \in Endpoints : Sound(e) => \A n \in seen[e] : held[e] # Null /\ n <= held[e]

\* What is being distributed is no older than what the sound endpoints have.
Forward ==
  \A t \in Tasks : pc[t] \in Calling =>
    \A e \in Endpoints : Sound(e) => \A n \in seen[e] : n <= policy[t]

\* An endpoint enforces a policy that it was sent.
HeldWasSeen == \A e \in Endpoints : held[e] # Null => held[e] \in seen[e]

\* The inductive invariant of SerialSpec.
OrderInv == IInv /\ OneTask /\ Numbered /\ NoLatePuts /\ Newest /\ Forward /\ HeldWasSeen

\* A step that leaves calls alone: no task enters or leaves its calls, no put
\* is sent or arrives, no call fails.
LEMMA CallsUndisturbed ==
  ASSUME IInv, IInv', OrderInv, OneTask', issued' >= issued, Numbered',
         UNCHANGED <<endpoints, missed, policy>>,
         \A t \in Tasks : pc'[t] \in Calling => pc[t] \in Calling,
         \A t \in Tasks : pc[t] = "wait" => pc'[t] = "wait" /\ MyPut(t)' = MyPut(t)
  PROVE  OrderInv'
<1> USE DEF OrderInv
<1>1. \A e \in Endpoints : Sound(e)' = Sound(e)
  BY DEF Sound
<1>2. NoLatePuts'
  <2> SUFFICES ASSUME NEW m \in wire PROVE Awaited(m)' \/ ~Sound(m.to)'
    BY DEF NoLatePuts, endpoints
  <2>1. m.task \in Tasks /\ m.to \in Endpoints
    BY DEF IInv, TypeOK, Puts
  <2> QED
    BY <1>1, <2>1 DEF NoLatePuts, Awaited, MyPut
<1>3. Newest' /\ HeldWasSeen'
  BY <1>1 DEF Newest, HeldWasSeen, endpoints
<1>4. Forward'
  BY <1>1 DEF Forward, endpoints
<1> QED
  BY <1>2, <1>3, <1>4

\* Publishes, edits, the start of a task and what it does before its calls, and hang-ups.
LEMMA OutsideCalls ==
  ASSUME OrderInv, IInv', OneTask',
         \/ PublishBegins \/ PublishEnds \/ \E k \in Kinds : Reconfigure(k)
         \/ \E t \in Tasks : \/ Tick(t) \/ \E k \in Kinds : Distribute(t, k)
                             \/ Compare(t) \/ NoPolicy(t) \/ HangUp(t)
  PROVE  OrderInv'
<1> USE DEF OrderInv
<1>1. CASE PublishBegins \/ PublishEnds \/ \E k \in Kinds : Reconfigure(k)
  <2>1. UNCHANGED <<pc, task, endpoints, missed>>
    BY <1>1 DEF PublishBegins, PublishEnds, Reconfigure, world
  <2>2. issued' >= issued /\ Numbered'
    BY <1>1, ListsOfEndpoints
    DEF PublishBegins, PublishEnds, Reconfigure, Numbered, IInv, TypeOK, task, endpoints,
        Numbers, Puts
  <2>3. \A t \in Tasks : MyPut(t)' = MyPut(t)
    BY <2>1 DEF MyPut, Callee, List, task
  <2> QED
    BY <2>1, <2>2, <2>3, CallsUndisturbed DEF task
<1>2. ASSUME NEW t \in Tasks,
             \/ Tick(t) \/ \E k \in Kinds : Distribute(t, k)
             \/ Compare(t) \/ NoPolicy(t)
      PROVE  OrderInv'
  <2>1. /\ UNCHANGED <<world, endpoints, missed, policy>>
        /\ pc[t] \in {"idle", "compare", "read"}
        /\ pc'[t] \in {"compare", "read", "done", "failed"}
        /\ \A u \in Tasks \ {t} : Stays(u)
    BY <1>2 DEF Tick, Distribute, Compare, NoPolicy, NextSynchroniser, IInv, TypeOK, Stays
  <2>2. Numbered' /\ issued' >= issued
    BY <2>1 DEF Numbered, world, endpoints, IInv, TypeOK
  <2>3. \A u \in Tasks \ {t} : MyPut(u)' = MyPut(u)
    BY <2>1 DEF Stays, MyPut, Callee, List
  <2> QED
    BY <2>1, <2>2, <2>3, CallsUndisturbed DEF Stays, Calling
<1>3. ASSUME NEW t \in Tasks, HangUp(t) PROVE OrderInv'
  <2>1. UNCHANGED <<world, pc, kind, settings, policy, pos, endpoints, missed>>
    BY <1>3 DEF HangUp
  <2>2. Numbered' /\ issued' >= issued
    BY <2>1 DEF Numbered, world, endpoints, IInv, TypeOK
  <2>3. \A u \in Tasks : MyPut(u)' = MyPut(u)
    BY <2>1 DEF MyPut, Callee, List
  <2> QED
    BY <2>1, <2>2, <2>3, CallsUndisturbed
<1> QED
  BY <1>1, <1>2, <1>3

\* A task reads the current policy, which is the newest there is.
LEMMA ReadInOrder ==
  ASSUME OrderInv, IInv', OneTask', NEW t \in Tasks, Read(t)
  PROVE  OrderInv'
<1> USE DEF OrderInv
<1>1. /\ pc[t] = "read" /\ current # Null /\ current = issued
      /\ pc' = [pc EXCEPT ![t] = "token"]
      /\ policy' = [policy EXCEPT ![t] = current]
      /\ UNCHANGED <<world, kind, settings, pos, endpoints, missed>>
  BY DEF Read, Numbered
<1>2. policy'[t] = issued /\ \A u \in Tasks \ {t} : policy'[u] = policy[u] /\ pc'[u] = pc[u]
  BY <1>1 DEF IInv, TypeOK
<1>3. Numbered'
  BY <1>1, <1>2 DEF Numbered, world, endpoints, IInv, TypeOK
<1>4. \A e \in Endpoints : Sound(e)' = Sound(e)
  BY <1>1 DEF Sound
<1>5. NoLatePuts'
  <2> SUFFICES ASSUME NEW m \in wire PROVE Awaited(m)' \/ ~Sound(m.to)'
    BY <1>1 DEF NoLatePuts, endpoints
  <2>1. m.task \in Tasks /\ m.to \in Endpoints
    BY DEF IInv, TypeOK, Puts
  <2>2. Awaited(m) => m.task # t
    BY <1>1 DEF Awaited
  <2>3. Awaited(m) => Awaited(m)'
    BY <1>1, <1>2, <2>1, <2>2 DEF Awaited, MyPut, Callee, List
  <2> QED
    BY <1>4, <2>1, <2>3 DEF NoLatePuts
<1>6. Newest' /\ HeldWasSeen'
  BY <1>1, <1>4 DEF Newest, HeldWasSeen, endpoints
<1>7. Forward'
  BY <1>1, <1>2, <1>4 DEF Forward, Numbered, endpoints
<1> QED
  BY <1>3, <1>5, <1>6, <1>7

\* A task has its token, or sends its put and waits.
LEMMA CallInOrder ==
  ASSUME OrderInv, IInv', OneTask', NEW t \in Tasks, GetToken(t) \/ PutPolicy(t)
  PROVE  OrderInv'
<1> USE DEF OrderInv
<1>1. /\ UNCHANGED <<world, task, held, seen, missed>>
      /\ pc[t] \in {"token", "put"}
      /\ \/ pc' = [pc EXCEPT ![t] = "put"] /\ wire' = wire
         \/ pc' = [pc EXCEPT ![t] = "wait"] /\ wire' = wire \cup {MyPut(t)}
  BY DEF GetToken, PutPolicy, endpoints
<1>2. \A u \in Tasks : MyPut(u)' = MyPut(u)
  BY <1>1 DEF MyPut, Callee, List, task
<1>3. \A e \in Endpoints : Sound(e)' = Sound(e)
  BY <1>1 DEF Sound
<1>4. Numbered'
  <2>1. policy[t] \in Numbers /\ policy[t] # Null
    BY <1>1, ListsOfEndpoints DEF IInv, Progress, Calling
  <2>2. MyPut(t).policy <= issued
    BY <2>1 DEF MyPut, Numbered
  <2> QED
    BY <1>1, <2>2 DEF Numbered, world, task
<1>7. Newest' /\ HeldWasSeen'
  BY <1>1, <1>3 DEF Newest, HeldWasSeen, task
<1>5. NoLatePuts'
  <2> SUFFICES ASSUME NEW m \in wire' PROVE Awaited(m)' \/ ~Sound(m.to)'
    BY DEF NoLatePuts
  <2>1. CASE m \in wire
    <3>1. m.task \in Tasks /\ m.to \in Endpoints
      BY <2>1 DEF IInv, TypeOK, Puts
    <3>2. Awaited(m) => Awaited(m)'
      BY <1>1, <1>2, <3>1 DEF Awaited, MyPut, IInv, TypeOK
    <3> QED
      BY <1>3, <2>1, <3>1, <3>2 DEF NoLatePuts
  <2>2. CASE m \notin wire
    <3>1. m = MyPut(t) /\ m.task = t /\ pc'[t] = "wait"
      BY <1>1, <2>2 DEF MyPut, IInv, TypeOK
    <3> QED
      BY <1>2, <3>1 DEF Awaited
  <2> QED
    BY <2>1, <2>2
<1>6. Forward'
  BY <1>1, <1>3 DEF Forward, Calling, task, IInv, TypeOK
<1> QED
  BY <1>4, <1>5, <1>6, <1>7

\* A put arrives: at a sound endpoint it is that of the only task there is.
LEMMA DeliverInOrder ==
  ASSUME OrderInv, IInv', OneTask', NEW m \in wire, Deliver(m)
  PROVE  OrderInv'
<1> USE DEF OrderInv
<1>1. /\ wire' = wire \ {m}
      /\ held' = [held EXCEPT ![m.to] = m.policy]
      /\ seen' = [seen EXCEPT ![m.to] = seen[m.to] \cup {m.policy}]
      /\ UNCHANGED <<world, pc, task, missed>>
      /\ m.to \in Endpoints /\ m.policy \in Numbers /\ m.task \in Tasks
  BY DEF Deliver, IInv, TypeOK, Puts
<1>2. /\ held'[m.to] = m.policy /\ seen'[m.to] = seen[m.to] \cup {m.policy}
      /\ \A e \in Endpoints \ {m.to} : held'[e] = held[e] /\ seen'[e] = seen[e]
  BY <1>1 DEF IInv, TypeOK
<1>3. m.policy # Null /\ \A e \in Endpoints : Sound(e)' = Sound(e)
  BY <1>1, ListsOfEndpoints DEF Sound
<1>4. Sound(m.to) => /\ m.policy = policy[m.task] /\ pc[m.task] = "wait"
                     /\ \A n \in seen[m.to] : n <= m.policy
  <2> SUFFICES ASSUME Sound(m.to)
               PROVE  /\ m.policy = policy[m.task] /\ pc[m.task] = "wait"
                      /\ \A n \in seen[m.to] : n <= m.policy
    OBVIOUS
  <2>1. m = MyPut(m.task) /\ pc[m.task] = "wait"
    BY DEF NoLatePuts, Awaited
  <2>2. m.policy = policy[m.task]
    BY <2>1 DEF MyPut
  <2> QED
    BY <1>1, <2>1, <2>2 DEF Forward, Calling
<1>5. m.policy <= issued
  BY <1>1 DEF Numbered
<1>6. Numbered'
  BY <1>1, <1>2, <1>5 DEF Numbered, world, task
<1>7. NoLatePuts'
  <2> SUFFICES ASSUME NEW p \in wire, p # m PROVE Awaited(p)' \/ ~Sound(p.to)'
    BY <1>1 DEF NoLatePuts
  <2>1. p.to \in Endpoints
    BY DEF IInv, TypeOK, Puts
  <2> QED
    BY <1>1, <1>3, <2>1 DEF NoLatePuts, Awaited, MyPut, Callee, List, task
<1>8. Newest' /\ HeldWasSeen'
  BY <1>1, <1>2, <1>3, <1>4 DEF Newest, HeldWasSeen, Numbers
<1>9. Forward'
  <2> SUFFICES ASSUME NEW t \in Tasks, pc[t] \in Calling, NEW e \in Endpoints, Sound(e),
                      NEW n \in seen'[e]
               PROVE  n <= policy[t]
    BY <1>1, <1>3 DEF Forward, task
  <2>1. CASE n \in seen[e]
    BY <2>1 DEF Forward
  <2>2. CASE n \notin seen[e]
    <3>1. e = m.to /\ n = policy[m.task] /\ pc[m.task] = "wait"
      BY <1>2, <1>4, <2>2
    <3>2. t = m.task
      BY <1>1, <3>1 DEF OneTask, InFlight, Ended, Calling
    <3> QED
      BY <1>1, <1>4, <3>1, <3>2 DEF Numbers
  <2> QED
    BY <2>1, <2>2
<1> QED
  BY <1>6, <1>7, <1>8, <1>9

\* A call is over, and if its put may still arrive, it has failed.
LEMMA ReturnInOrder ==
  ASSUME OrderInv, IInv', OneTask', NEW t \in Tasks, Answered(t) \/ CallFails(t)
  PROVE  OrderInv'
<1> USE DEF OrderInv
<1>1. /\ pc[t] \in Calling /\ Advance(t)
      /\ UNCHANGED <<world, settings, policy, held, seen>>
      /\ wire' \subseteq wire
      /\ \A u \in Tasks : missed[u] \subseteq missed'[u]
  BY DEF Answered, CallFails, AfterFailure, Calling, endpoints, IInv, TypeOK
<1>2. pc[t] = "wait" => MyPut(t) \notin wire' \/ Callee(t) \in missed'[t]
  BY DEF Answered, Arrived, CallFails, IInv, TypeOK, endpoints
<1>3. \A u \in Tasks \ {t} : pc'[u] = pc[u] /\ MyPut(u)' = MyPut(u)
  BY <1>1 DEF Advance, Finish, NextSynchroniser, MyPut, Callee, List, IInv, TypeOK
<1>4. \A e \in Endpoints : Sound(e)' => Sound(e)
  BY <1>1 DEF Sound
<1>5. Numbered' /\ Newest' /\ HeldWasSeen'
  BY <1>1, <1>4 DEF Numbered, Newest, HeldWasSeen, world
<1>6. NoLatePuts'
  <2> SUFFICES ASSUME NEW m \in wire', Sound(m.to)' PROVE Awaited(m)'
    BY DEF NoLatePuts
  <2>1. m \in wire /\ m.task \in Tasks /\ m.to \in Endpoints
    BY <1>1 DEF IInv, TypeOK, Puts
  <2>2. Awaited(m)
    BY <1>4, <2>1 DEF NoLatePuts
  <2>3. m.task # t
    BY <1>2, <2>2 DEF Awaited, Sound, MyPut
  <2> QED
    BY <1>3, <2>1, <2>2, <2>3 DEF Awaited
<1>7. Forward'
  BY <1>1, <1>3, <1>4 DEF Forward
<1> QED
  BY <1>5, <1>6, <1>7

\* A restart fails the put that was waited for.
LEMMA RestartInOrder ==
  ASSUME OrderInv, IInv', OneTask', Restart
  PROVE  OrderInv'
<1> USE DEF OrderInv
<1>1. /\ UNCHANGED <<world, task, endpoints>>
      /\ \A u \in Tasks : pc'[u] = pc[u] \/ pc'[u] = "failed"
      /\ \A u \in Tasks : missed[u] \subseteq missed'[u]
      /\ \A u \in Tasks : pc[u] = "wait" => Callee(u) \in missed'[u]
  BY DEF Restart, InFlight, Ended, IInv, TypeOK
<1>2. \A e \in Endpoints : Sound(e)' => Sound(e)
  BY <1>1 DEF Sound
<1>3. Numbered' /\ Newest' /\ HeldWasSeen'
  BY <1>1, <1>2 DEF Numbered, Newest, HeldWasSeen, world, task, endpoints
<1>4. NoLatePuts'
  <2> SUFFICES ASSUME NEW m \in wire, Sound(m.to)' PROVE FALSE
    BY <1>1 DEF NoLatePuts, endpoints
  <2>1. m.task \in Tasks /\ m.to \in Endpoints
    BY DEF IInv, TypeOK, Puts
  <2>2. pc[m.task] = "wait" /\ m.to = Callee(m.task)
    BY <1>2, <2>1 DEF NoLatePuts, Awaited, MyPut
  <2> QED
    BY <1>1, <2>1, <2>2 DEF Sound
<1>5. Forward'
  BY <1>1, <1>2 DEF Forward, Calling, task, endpoints
<1> QED
  BY <1>3, <1>4, <1>5

\* The invariant holds when tasks come one after the other.
THEOREM OrderInvariance == SerialSpec => []OrderInv
<1>1. Init => OrderInv
  <2> SUFFICES ASSUME Init PROVE OrderInv
    OBVIOUS
  <2>1. IInv
    BY AtFirst
  <2>2. OneTask
    BY DEF Init, OneTask, InFlight, Ended
  <2>3. Numbered /\ NoLatePuts /\ Newest /\ Forward /\ HeldWasSeen
    BY DEF Init, Numbered, NoLatePuts, Newest, Forward, HeldWasSeen, Calling
  <2> QED
    BY <2>1, <2>2, <2>3 DEF OrderInv
<1>2. OrderInv /\ [Next /\ OneTask']_vars => OrderInv'
  <2> SUFFICES ASSUME OrderInv, [Next /\ OneTask']_vars PROVE OrderInv'
    OBVIOUS
  <2>1. IInv'
    BY Stepwise DEF OrderInv
  <2>2. CASE Next /\ OneTask'
    <3>1. CASE \/ PublishBegins \/ PublishEnds \/ \E k \in Kinds : Reconfigure(k)
               \/ \E t \in Tasks : \/ Tick(t) \/ \E k \in Kinds : Distribute(t, k)
                                   \/ Compare(t) \/ NoPolicy(t) \/ HangUp(t)
      BY <2>1, <2>2, <3>1, OutsideCalls
    <3>2. ASSUME NEW t \in Tasks,
                 \/ Read(t) \/ GetToken(t) \/ PutPolicy(t) \/ Answered(t) \/ CallFails(t)
          PROVE  OrderInv'
      BY <2>1, <2>2, <3>2, ReadInOrder, CallInOrder, ReturnInOrder
    <3>3. ASSUME NEW m \in wire, Deliver(m) PROVE OrderInv'
      BY <2>1, <2>2, <3>3, DeliverInOrder
    <3>4. CASE Restart
      BY <2>1, <2>2, <3>4, RestartInOrder
    <3>5. CASE UNCHANGED vars
      BY <3>5, <2>1 DEF vars, world, task, endpoints, OrderInv, OneTask, InFlight, Numbered,
                  NoLatePuts, Awaited, Sound, MyPut, Callee, List, Newest, Forward, HeldWasSeen
    <3> QED
      BY <2>2, <3>1, <3>2, <3>3, <3>4, <3>5 DEF Next, Work, Terminated
  <2>3. CASE UNCHANGED vars
    BY <2>3, <2>1 DEF vars, world, task, endpoints, OrderInv, OneTask, InFlight, Numbered,
                NoLatePuts, Awaited, Sound, MyPut, Callee, List, Newest, Forward, HeldWasSeen
  <2> QED
    BY <2>2, <2>3
<1> QED
  BY <1>1, <1>2, PTL DEF SerialSpec

\* Distributions that wait for each other leave the current policy enforced at
\* every endpoint no call to which has failed: PutJsonAsync is awaited, so no
\* older policy is on its way when the next distribution begins.
THEOREM SerialIsCurrent == SerialSpec => []DistributedIsCurrent
<1>1. OrderInv => DistributedIsCurrent
  <2> SUFFICES ASSUME OrderInv, NEW t \in Tasks, pc[t] = "done", ~byTimer[t],
                      policy[t] = current, NEW e \in Members(List(t)), Sound(e)
               PROVE  held[e] = current
    BY DEF DistributedIsCurrent, Sound
  <2>1. PICK i \in 1 .. Len(List(t)) : e = List(t)[i]
    BY DEF Members
  <2>2. e \in Endpoints /\ policy[t] \in Numbers /\ Dealt(t, e)
    BY <2>1, TaskList DEF OrderInv, IInv, Progress
  <2>3. current \in seen[e] /\ current \in Numbers /\ current # Null
    BY <2>2, ListsOfEndpoints DEF Dealt, Sound
  <2>4. held[e] # Null /\ current <= held[e] /\ held[e] <= issued /\ current = issued
    BY <2>2, <2>3 DEF OrderInv, Newest, Numbered, HeldWasSeen
  <2>5. held[e] \in Nat /\ issued \in Nat
    BY <2>2, <2>4 DEF OrderInv, IInv, TypeOK, Numbers
  <2> QED
    BY <2>4, <2>5
<1> QED
  BY <1>1, OrderInvariance, PTL

=============================================================================
