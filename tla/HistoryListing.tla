---------------------------- MODULE HistoryListing ----------------------------
(***************************************************************************)
(* The two history endpoints of PolicyController.cs, with                  *)
(* GetHistoricalPoliciesAsync and CountHistoricalPoliciesAsync of          *)
(* PolicyService.cs and the SearchAsync of FileStore.cs under them, while  *)
(* the requests of PolicyService move policies.                            *)
(*                                                                         *)
(* A listing takes the names of the directories under historical/ once and *)
(* then downloads one policy after the other; by then they may have been   *)
(* published or deleted.  For a page it counts the directories again, and  *)
(* its bounds are 32-bit products of what the client sent.                 *)
(***************************************************************************)
EXTENDS PolicyService, Integers, Sequences, FiniteSets, Functions

CONSTANTS
  Listers,     \* requests for the history, beside the Requests of PolicyService
  Pages,       \* what clients ask for: records of an index and a size
  All,         \* GET history asks for no page
  Span         \* an int is at least -Span and less than Span, 2^31 in the code

VARIABLES
  stage,       \* per lister: what it does next
  asked,       \* per lister: the page, or All
  entries,     \* per lister: the directory names its search found, in order
  index,       \* per lister: policyIndex
  listed,      \* per lister: `policies'; Null for one that was gone
  total,       \* per lister: TotalPolicies
  untouched,   \* per lister: directories that hold what they held at its search
  quiet        \* per lister: nothing has changed under historical/ since it came

listing == <<stage, asked, entries, index, listed, total, untouched, quiet>>
allVars == <<vars, listing>>

\* What fits into an int.
Ints == -Span .. Span - 1

ASSUME PagesFit ==
  /\ Span \in Nat \ {0}
  /\ Pages \subseteq [index : Ints, size : Ints]
  /\ All \notin Pages
  /\ IsFiniteSet(Ids)

Stages == {"idle", "search", "probe", "read", "count", "done", "failed"}

\* State and type of the variables of this module.
ListingTypeOK ==
  /\ stage \in [Listers -> Stages]
  /\ asked \in [Listers -> Pages \cup {All}]
  /\ entries \in [Listers -> Seq(Ids)]
  /\ index \in [Listers -> Nat]
  /\ \A l \in Listers : stage[l] \in {"probe", "read"} => index[l] < Len(entries[l])
  /\ listed \in [Listers -> Seq(Policies \cup {Null})]
  /\ total \in [Listers -> Nat]
  /\ untouched \in [Listers -> SUBSET Ids]
  /\ quiet \in [Listers -> BOOLEAN]

Listing(l) == stage[l] \notin {"idle", "done", "failed"}

ListingInit ==
  /\ Init
  /\ stage = [l \in Listers |-> "idle"]
  /\ asked = [l \in Listers |-> All]
  /\ entries = [l \in Listers |-> <<>>]
  /\ index = [l \in Listers |-> 0]
  /\ listed = [l \in Listers |-> <<>>]
  /\ total = [l \in Listers |-> 0]
  /\ untouched = [l \in Listers |-> {}]
  /\ quiet = [l \in Listers |-> TRUE]

-----------------------------------------------------------------------------
(* The page a client asks for. *)

\* int arithmetic is unchecked: it wraps around.
Wrap(n) == ((n + Span) % (2 * Span)) - Span

StartOf(page) == Wrap(page.index * page.size)

\* slip: the page's own index is left out
StopAfterSize(page) == page.size

StopOf(page) == Wrap(StartOf(page) + page.size)

\* slip: the last index is taken as well
CollectedAndNext(l) == asked[l] = All \/ index[l] \in StartOf(asked[l]) .. StopOf(asked[l])

\* The entry just downloaded is on the page.
Collected(l) ==
  asked[l] = All \/ (index[l] >= StartOf(asked[l]) /\ index[l] < StopOf(asked[l]))

\* The loop has gone past the page; it looks only after an entry.
PastPage(l, n) == asked[l] # All /\ n > 0 /\ n >= StopOf(asked[l])

\* slip: the loop runs up to and including the count
OneTooMany(l, e, n, p) == IF n <= Len(e) /\ ~PastPage(l, n) THEN "probe" ELSE "done"

\* The loop over the entries e goes on at n, with p collected so far.  An empty
\* page is NoContent, and only a page is counted.
Onward(l, e, n, p) ==
  CASE n < Len(e) /\ ~PastPage(l, n) -> "probe"
    [] (n = Len(e) \/ PastPage(l, n)) /\ asked[l] # All /\ p # <<>> -> "count"
    [] OTHER -> "done"

-----------------------------------------------------------------------------
(* FileStore.SearchAsync with HistorySearch: everything under historical/ is *)
(* collected, draft/ and current/ are passed over.  The names are read in    *)
(* one system call, in the order of the file system.                         *)

Historical == {d \in Ids : DirectoryExists(d)}

Orders(S) == Bijection(1 .. Cardinality(S), S)

Ask(l, page) ==
  /\ stage[l] = "idle"
  /\ stage' = [stage EXCEPT ![l] = "search"]
  /\ asked' = [asked EXCEPT ![l] = page]
  /\ UNCHANGED <<vars, entries, index, listed, total, untouched, quiet>>

GetHistory(l) == Ask(l, All)

GetPage(l) == \E page \in Pages : Ask(l, page)

Search(l) ==
  /\ stage[l] = "search"
  /\ \E s \in Orders(Historical) :
       /\ entries' = [entries EXCEPT ![l] = s]
       /\ stage' = [stage EXCEPT ![l] = Onward(l, s, 0, <<>>)]
  /\ untouched' = [untouched EXCEPT ![l] = {d \in Ids : Readable(d)}]
  /\ UNCHANGED <<vars, asked, index, listed, total, quiet>>

-----------------------------------------------------------------------------
(* The loop: one download after the other. *)

Entry(l) == entries[l][index[l] + 1]

\* slip: an entry that is gone is not counted
SkipGone(l, p) ==
  LET more == IF Collected(l) /\ p # Null THEN Append(listed[l], p) ELSE listed[l]
      n == IF p = Null THEN index[l] ELSE index[l] + 1
  IN /\ listed' = [listed EXCEPT ![l] = more]
     /\ index' = [index EXCEPT ![l] = n]
     /\ stage' = [stage EXCEPT ![l] = Onward(l, entries[l], n, more)]

\* slip: the listing ends at an entry that is gone
StopAtGone(l, p) ==
  /\ listed' = [listed EXCEPT ![l] = IF p = Null THEN @ ELSE Append(@, p)]
  /\ index' = [index EXCEPT ![l] = @ + 1]
  /\ stage' = [stage EXCEPT ![l] =
       IF p = Null THEN "done" ELSE Onward(l, entries[l], index'[l], listed'[l])]

\* The download has returned p, Null when there was no file.
Take(l, p) ==
  LET more == IF Collected(l) THEN Append(listed[l], p) ELSE listed[l] IN
  /\ listed' = [listed EXCEPT ![l] = more]
  /\ index' = [index EXCEPT ![l] = @ + 1]
  /\ stage' = [stage EXCEPT ![l] = Onward(l, entries[l], index[l] + 1, more)]

FindEntry(l) ==
  /\ stage[l] = "probe"
  /\ FileExists(Entry(l))
  /\ stage' = [stage EXCEPT ![l] = "read"]
  /\ UNCHANGED <<vars, asked, entries, index, listed, total, untouched, quiet>>

EntryGone(l) ==
  /\ stage[l] = "probe"
  /\ ~FileExists(Entry(l))
  /\ Take(l, Null)
  /\ UNCHANGED <<vars, asked, entries, total, untouched, quiet>>

ReadEntry(l) ==
  /\ stage[l] = "read"
  /\ Readable(Entry(l))
  /\ Take(l, store[Entry(l)])
  /\ UNCHANGED <<vars, asked, entries, total, untouched, quiet>>

Fail(l) ==
  /\ stage' = [stage EXCEPT ![l] = "failed"]
  /\ UNCHANGED <<asked, entries, index, listed, total, untouched, quiet>>

\* It has gone since it was found, does not parse, or stays blank for as many
\* attempts as there are: the whole request fails.
ReadEntryThrows(l) ==
  /\ stage[l] = "read"
  /\ ~Readable(Entry(l))
  /\ Fail(l)
  /\ UNCHANGED vars

\* CountHistoricalPoliciesAsync searches a second time.
CountHistory(l) ==
  /\ stage[l] = "count"
  /\ total' = [total EXCEPT ![l] = Cardinality(Historical)]
  /\ stage' = [stage EXCEPT ![l] = "done"]
  /\ UNCHANGED <<vars, asked, entries, index, listed, untouched, quiet>>

-----------------------------------------------------------------------------
(* Both kinds of requests. *)

\* What a step of PolicyService does to the directories listers walk over.
Observed ==
  /\ untouched' = [l \in Listers |->
       IF Listing(l) THEN {d \in untouched[l] : store'[d] = store[d]} ELSE untouched[l]]
  /\ quiet' = [l \in Listers |->
       quiet[l] /\ (Listing(l) => \A d \in Ids : store'[d] = store[d])]

ServiceStep ==
  /\ \E r \in Requests : Arrive(r) \/ Work(r) \/ IOError(r) \/ WriteAgain(r)
  /\ Observed
  /\ UNCHANGED <<stage, asked, entries, index, listed, total>>

\* An I/O error, or a client that hangs up.
ListerError(l) ==
  /\ Fault
  /\ Listing(l)
  /\ Fail(l)
  /\ UNCHANGED <<store, handle, pc, locals>>

CrashAll ==
  /\ Crash
  /\ Observed
  /\ stage' = [l \in Listers |-> IF Listing(l) THEN "failed" ELSE stage[l]]
  /\ UNCHANGED <<asked, entries, index, listed, total>>

ListerWork(l) ==
  \/ Search(l) \/ FindEntry(l) \/ EntryGone(l) \/ ReadEntry(l) \/ ReadEntryThrows(l)
  \/ CountHistory(l)

AllAnswered ==
  /\ \A r \in Requests : pc[r] \in Ended
  /\ \A l \in Listers : stage[l] \in {"done", "failed"}
  /\ UNCHANGED allVars

ListingNext ==
  \/ \E l \in Listers : GetHistory(l) \/ GetPage(l) \/ ListerWork(l) \/ ListerError(l)
  \/ ServiceStep
  \/ CrashAll
  \/ AllAnswered

ListingSpec == ListingInit /\ [][ListingNext]_allVars

\* The thread pool keeps running listings, too.
FairListingSpec == ListingSpec /\ \A l \in Listers : WF_allVars(ListerWork(l))

-----------------------------------------------------------------------------
(* Properties. *)

Shows(l, k, d) == listed[l][k] # Null /\ listed[l][k].id = d

\* A policy that was historical when the search was made and stayed it is in
\* the answer, once, whatever was published or deleted around it.
ListedThroughout ==
  \A l \in Listers : stage[l] = "done" /\ asked[l] = All =>
    \A d \in untouched[l] :
      Cardinality({k \in 1 .. Len(listed[l]) : Shows(l, k, d)}) = 1

\* Never more than the client asked for ("the maximum count of historical
\* policies per page", api.yaml), also when index times size wraps.
AtMostPageSize ==
  \A l \in Listers : asked[l] # All /\ asked[l].size >= 0 =>
    Len(listed[l]) <= asked[l].size

PageFits(page) == page.index >= 0 /\ page.size >= 0 /\ (page.index + 1) * page.size \in Ints

FirstOf(page) == page.index * page.size

\* The positions of the entries that make up a page.
PageOf(e, page) ==
  {k \in 1 .. Len(e) : k > FirstOf(page) /\ k <= FirstOf(page) + page.size}

\* With nothing moving a page that fits an int is the right one, complete,
\* with the right total, and it does not fail: in particular every policy is
\* on exactly one page.
QuietPageIsRight ==
  \A l \in Listers :
    /\ stage[l] \in {"done", "failed"} /\ asked[l] # All /\ PageFits(asked[l])
    /\ quiet[l] /\ faults = 0 /\ \A k \in 1 .. Len(entries[l]) : entries[l][k] \in untouched[l]
    => LET first == FirstOf(asked[l])
           places == 1 .. Len(listed[l])
       IN /\ stage[l] = "done"
          /\ {first + k : k \in places} = PageOf(entries[l], asked[l])
          /\ \A k \in places : Shows(l, k, entries[l][first + k])
          /\ places # {} => total[l] = Len(entries[l])

\* Every listing is answered, whatever becomes of its entries.
EveryListingEnds == \A l \in Listers : Listing(l) ~> ~Listing(l)

=============================================================================
