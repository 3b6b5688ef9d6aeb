-------------------------- MODULE PolicyDistribution --------------------------
(***************************************************************************)
(* Sending the current policy to the services that enforce it:             *)
(* PolicyDistributer.cs, called by two endpoints of PolicyController.cs    *)
(* and by the two synchronisers, NcfsPolicyDistributer.cs and              *)
(* AdaptationPolicyDistributer.cs.                                         *)
(*                                                                         *)
(* A task is one such HTTP request or one tick of the timer that runs the  *)
(* synchronisers.  It takes the configuration and the current policy once  *)
(* and then calls its endpoints one by one, first for a token and then to  *)
(* put the policy, while policies are published, the configuration is      *)
(* edited and other tasks do the same.                                     *)
(***************************************************************************)
EXTENDS Naturals, Sequences

CONSTANTS
  Tasks,
  Endpoints,      \* services that enforce policies
  Lists,          \* per kind: what the endpoint list may be configured to
  TimerStarted,   \* FALSE in this version: StartAsync has its timer commented out
  Null,
  MaxPublished,   \* bound on publishes
  MaxChanges,     \* bound on edits of the configuration
  MaxFaults       \* bound on failed calls, hang-ups and restarts

VARIABLES
  current,        \* the current policy on the share, Null while there is none
  issued,         \* how many policies have been made current; they are numbered
  config,         \* per kind: the endpoint list configured now
  cache,          \* per kind: the static _endpointCache of the synchroniser
  pc,             \* per task: what it does next
  byTimer,        \* per task: it is a tick, not a request
  kind,           \* per task: which distribution it does
  settings,       \* per task: the configuration it was started with
  policy,         \* per task: the policy it distributes
  pos,            \* per task: its position in the endpoint list
  hungUp,         \* per task: its cancellation token has been cancelled
  wire,           \* puts that are under way
  held,           \* per endpoint: the policy it enforces
  seen,           \* per endpoint: every policy it has been sent
  missed,         \* per task: endpoints whose call ended without an answer
  changes, faults \* edits and faults so far

world == <<current, issued, config, changes>>
endpoints == <<wire, held, seen>>
task == <<byTimer, kind, settings, policy, pos, hungUp>>
vars == <<world, cache, pc, task, endpoints, missed, faults>>

Kinds == {"ncfs", "adaption"}
Numbers == 1 .. MaxPublished
Labels == {"idle", "compare", "read", "token", "put", "wait", "done", "failed"}
Ended == {"done", "failed"}

ASSUME ListsOfEndpoints ==
  /\ Lists \in [Kinds -> SUBSET Seq(Endpoints)]
  /\ \A k \in Kinds : Lists[k] # {} /\ <<>> \notin Lists[k]
  /\ Null \notin Numbers
  /\ \A k \in Kinds : Null \notin Lists[k]
  /\ TimerStarted \in BOOLEAN
  /\ MaxPublished \in Nat \ {0} /\ MaxChanges \in Nat /\ MaxFaults \in Nat

AllLists == Lists["ncfs"] \cup Lists["adaption"]

Configurations == {c \in [Kinds -> AllLists] : \A k \in Kinds : c[k] \in Lists[k]}

Puts == [task : Tasks, to : Endpoints, policy : Numbers]

\* State and type of every variable.
TypeOK ==
  /\ current \in Numbers \cup {Null}
  /\ issued \in 0 .. MaxPublished
  /\ config \in Configurations
  /\ cache \in [Kinds -> AllLists \cup {Null}]
  /\ pc \in [Tasks -> Labels]
  /\ byTimer \in [Tasks -> BOOLEAN]
  /\ kind \in [Tasks -> Kinds]
  /\ settings \in [Tasks -> Configurations]
  /\ policy \in [Tasks -> Numbers \cup {Null}]
  /\ pos \in [Tasks -> Nat]
  /\ \A t \in Tasks : pos[t] \in 1 .. Len(settings[t][kind[t]])
  /\ hungUp \in [Tasks -> BOOLEAN]
  /\ wire \subseteq Puts
  /\ held \in [Endpoints -> Numbers \cup {Null}]
  /\ seen \in [Endpoints -> SUBSET Numbers]
  /\ missed \in [Tasks -> SUBSET Endpoints]
  /\ changes \in 0 .. MaxChanges
  /\ faults \in 0 .. MaxFaults

InFlight(t) == pc[t] \notin {"idle"} \cup Ended

List(t) == settings[t][kind[t]]

\* The endpoint a task is calling.
Callee(t) == List(t)[pos[t]]

MyPut(t) == [task |-> t, to |-> Callee(t), policy |-> policy[t]]

Fault ==
  /\ faults < MaxFaults
  /\ faults' = faults + 1

Init ==
  /\ issued \in {0, 1}
  /\ current = IF issued = 0 THEN Null ELSE issued
  /\ config \in Configurations
  /\ cache = [k \in Kinds |-> Null]
  /\ pc = [t \in Tasks |-> "idle"]
  /\ byTimer = [t \in Tasks |-> FALSE]
  /\ kind = [t \in Tasks |-> "ncfs"]
  /\ settings = [t \in Tasks |-> config]
  /\ policy = [t \in Tasks |-> Null]
  /\ pos = [t \in Tasks |-> 1]
  /\ hungUp = [t \in Tasks |-> FALSE]
  /\ wire = {}
  /\ held = [e \in Endpoints |-> Null]
  /\ seen = [e \in Endpoints |-> {}]
  /\ missed = [t \in Tasks |-> {}]
  /\ changes = 0
  /\ faults = 0

-----------------------------------------------------------------------------
(* The world around: publishes, which take the current policy away for a    *)
(* while, and edits of the configuration.                                  *)

PublishBegins ==
  /\ current # Null
  /\ issued < MaxPublished
  /\ current' = Null
  /\ UNCHANGED <<issued, config, changes, cache, pc, task, endpoints, missed, faults>>

PublishEnds ==
  /\ current = Null
  /\ issued < MaxPublished
  /\ issued' = issued + 1
  /\ current' = issued'
  /\ UNCHANGED <<config, changes, cache, pc, task, endpoints, missed, faults>>

Reconfigure(k) ==
  /\ changes < MaxChanges
  /\ changes' = changes + 1
  /\ \E l \in Lists[k] \ {config[k]} : config' = [config EXCEPT ![k] = l]
  /\ UNCHANGED <<current, issued, cache, pc, task, endpoints, missed, faults>>

-----------------------------------------------------------------------------
(* A task begins: with a scope, and so a configuration, of its own. *)

Distribute(t, k) ==
  /\ pc[t] = "idle"
  /\ pc' = [pc EXCEPT ![t] = "read"]
  /\ kind' = [kind EXCEPT ![t] = k]
  /\ settings' = [settings EXCEPT ![t] = config]
  /\ UNCHANGED <<world, cache, byTimer, policy, pos, hungUp, endpoints, missed, faults>>

\* A tick runs the NCFS synchroniser and then the Adaption one.  The timer
\* does not wait for its last tick to be over.
Tick(t) ==
  /\ TimerStarted
  /\ pc[t] = "idle"
  /\ pc' = [pc EXCEPT ![t] = "compare"]
  /\ byTimer' = [byTimer EXCEPT ![t] = TRUE]
  /\ kind' = [kind EXCEPT ![t] = "ncfs"]
  /\ settings' = [settings EXCEPT ![t] = config]
  /\ UNCHANGED <<world, cache, policy, pos, hungUp, endpoints, missed, faults>>

\* One synchroniser is over, well or not; the next has its turn.
NextSynchroniser(t) ==
  /\ pc' = [pc EXCEPT ![t] = IF kind[t] = "ncfs" THEN "compare" ELSE "done"]
  /\ kind' = [kind EXCEPT ![t] = "adaption"]
  /\ pos' = [pos EXCEPT ![t] = 1]

\* SyncPoliciesAsync: nothing to do when the endpoints are those of last time.
Compare(t) ==
  /\ pc[t] = "compare"
  /\ IF List(t) = cache[kind[t]]
     THEN NextSynchroniser(t)
     ELSE pc' = [pc EXCEPT ![t] = "read"] /\ UNCHANGED <<kind, pos>>
  /\ UNCHANGED <<world, cache, byTimer, settings, policy, hungUp, endpoints, missed, faults>>

Read(t) ==
  /\ pc[t] = "read"
  /\ current # Null /\ ~hungUp[t]
  /\ pc' = [pc EXCEPT ![t] = "token"]
  /\ policy' = [policy EXCEPT ![t] = current]
  /\ UNCHANGED <<world, cache, byTimer, kind, settings, pos, hungUp, endpoints, missed, faults>>

\* Without a policy a request fails and a synchroniser leaves its cache as it is.
NoPolicy(t) ==
  /\ pc[t] = "read"
  /\ current = Null \/ hungUp[t]
  /\ IF byTimer[t]
     THEN NextSynchroniser(t)
     ELSE pc' = [pc EXCEPT ![t] = "failed"] /\ UNCHANGED <<kind, pos>>
  /\ UNCHANGED <<world, cache, byTimer, settings, policy, hungUp, endpoints, missed, faults>>

-----------------------------------------------------------------------------
(* The loop over the endpoints. *)

\* slip: it remembers the endpoints that are configured by now
RememberConfigured(t) == cache' = [cache EXCEPT ![kind[t]] = config[kind[t]]]

\* A synchroniser remembers which endpoints it has distributed to.
Remember(t) == cache' = [cache EXCEPT ![kind[t]] = List(t)]

Finish(t) ==
  IF byTimer[t]
  THEN Remember(t) /\ NextSynchroniser(t)
  ELSE pc' = [pc EXCEPT ![t] = "done"] /\ UNCHANGED <<cache, kind, pos>>

\* slip: one endpoint too many
PastTheEnd(t) ==
  /\ pc' = [pc EXCEPT ![t] = "token"]
  /\ pos' = [pos EXCEPT ![t] = @ + 1]
  /\ UNCHANGED <<cache, kind>>

\* The call is over, answered or not: on to the next endpoint.
Advance(t) ==
  IF pos[t] < Len(List(t))
  THEN /\ pc' = [pc EXCEPT ![t] = "token"]
       /\ pos' = [pos EXCEPT ![t] = @ + 1]
       /\ UNCHANGED <<cache, kind>>
  ELSE Finish(t)

GetToken(t) ==
  /\ pc[t] = "token"
  /\ ~hungUp[t]
  /\ pc' = [pc EXCEPT ![t] = "put"]
  /\ UNCHANGED <<world, cache, task, endpoints, missed, faults>>

PutPolicy(t) ==
  /\ pc[t] = "put"
  /\ ~hungUp[t]
  /\ wire' = wire \cup {MyPut(t)}
  /\ pc' = [pc EXCEPT ![t] = "wait"]
  /\ UNCHANGED <<world, cache, task, held, seen, missed, faults>>

\* An endpoint takes the policy it is sent in place of the one it has.
Deliver(m) ==
  /\ m \in wire
  /\ wire' = wire \ {m}
  /\ held' = [held EXCEPT ![m.to] = m.policy]
  /\ seen' = [seen EXCEPT ![m.to] = @ \cup {m.policy}]
  /\ UNCHANGED <<world, cache, pc, task, missed, faults>>

\* slip: the answer is not awaited
NotAwaited(t) == TRUE

\* PutJsonAsync is awaited.
Arrived(t) == MyPut(t) \notin wire

Answered(t) ==
  /\ pc[t] = "wait"
  /\ Arrived(t)
  /\ Advance(t)
  /\ UNCHANGED <<world, byTimer, settings, policy, hungUp, endpoints, missed, faults>>

\* slip: the exception is caught around the loop, not in it
StopAtFailure(t) == Finish(t)

\* slip: the endpoint is called again until it answers
TryAgain(t) == pc' = [pc EXCEPT ![t] = "token"] /\ UNCHANGED <<cache, kind, pos>>

\* The exception is caught, logged, and the loop goes on.
AfterFailure(t) == Advance(t)

\* A call fails: the endpoint is down, refuses, or does not answer in time, and
\* then a put may still arrive.  Every call fails once the token is cancelled.
CallFails(t) ==
  /\ pc[t] \in {"token", "put", "wait"}
  /\ \/ hungUp[t] /\ UNCHANGED faults
     \/ ~hungUp[t] /\ Fault
  /\ missed' = [missed EXCEPT ![t] = @ \cup {Callee(t)}]
  /\ wire' \in {wire, wire \ {MyPut(t)}}
  /\ AfterFailure(t)
  /\ UNCHANGED <<world, byTimer, settings, policy, hungUp, held, seen>>

\* The client of a request does not wait for its answer.
HangUp(t) ==
  /\ Fault
  /\ InFlight(t) /\ ~byTimer[t] /\ ~hungUp[t]
  /\ hungUp' = [hungUp EXCEPT ![t] = TRUE]
  /\ UNCHANGED <<world, cache, pc, byTimer, kind, settings, policy, pos, endpoints, missed>>

\* The process is restarted.  Static fields start afresh.
Restart ==
  LET Hit == {t \in Tasks : InFlight(t)} IN
  /\ Fault
  /\ pc' = [t \in Tasks |-> IF t \in Hit THEN "failed" ELSE pc[t]]
  /\ missed' = [t \in Tasks |->
       missed[t] \cup (IF t \in Hit /\ pc[t] = "wait" THEN {Callee(t)} ELSE {})]
  /\ cache' = [k \in Kinds |-> Null]
  /\ UNCHANGED <<world, task, endpoints>>

-----------------------------------------------------------------------------
\* What the server does for a task.
Work(t) ==
  \/ Compare(t) \/ Read(t) \/ NoPolicy(t)
  \/ GetToken(t) \/ PutPolicy(t) \/ Answered(t)

Terminated == (\A t \in Tasks : pc[t] \in Ended) /\ UNCHANGED vars

Next ==
  \/ PublishBegins \/ PublishEnds
  \/ \E k \in Kinds : Reconfigure(k)
  \/ \E t \in Tasks, k \in Kinds : Distribute(t, k)
  \/ \E t \in Tasks : Tick(t) \/ Work(t) \/ CallFails(t) \/ HangUp(t)
  \/ \E m \in wire : Deliver(m)
  \/ Restart
  \/ Terminated

Spec == Init /\ [][Next]_vars

\* One task at a time.
OneTask == \A t, u \in Tasks : InFlight(t) /\ InFlight(u) => t = u
SerialSpec == Init /\ [][Next /\ OneTask']_vars

\* Tasks keep running, and a put that is under way arrives or fails: the
\* HTTP client gives up after a timeout.
FairSpec ==
  /\ Spec
  /\ \A t \in Tasks : WF_vars(Work(t) \/ CallFails(t))
  /\ \A t \in Tasks : WF_vars(\E m \in wire : m.task = t /\ Deliver(m))

-----------------------------------------------------------------------------
Members(l) == {l[i] : i \in 1 .. Len(l)}

\* One endpoint that fails takes nothing from the others: a request that was
\* answered has put its policy to every endpoint of its list whose call did
\* not itself fail.
EveryEndpointIsTried ==
  \A t \in Tasks : pc[t] = "done" /\ ~byTimer[t] =>
    \A e \in Members(List(t)) \ missed[t] : policy[t] \in seen[e]

\* A synchroniser keeps still about an endpoint list only once every endpoint
\* of it has been tried: sent a policy, or found not to answer.
CachedMeansTried ==
  \A k \in Kinds : cache[k] # Null =>
    \A e \in Members(cache[k]) : seen[e] # {} \/ \E t \in Tasks : e \in missed[t]

\* After a distribution of the policy that is current, and with nothing
\* going on, the endpoints enforce it, unless a call to them has failed.
DistributedIsCurrent ==
  \A t \in Tasks :
    /\ pc[t] = "done" /\ ~byTimer[t] /\ policy[t] = current
    /\ \A u \in Tasks : ~InFlight(u)
    => \A e \in Members(List(t)) : held[e] = current \/ \E u \in Tasks : e \in missed[u]

\* Every distribution comes to an end, whatever its endpoints do.
EveryDistributionEnds == \A t \in Tasks : InFlight(t) ~> ~InFlight(t)

=============================================================================
