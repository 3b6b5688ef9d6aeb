------------------------- MODULE HistoryListingProofs -------------------------
(***************************************************************************)
(* Safety of HistoryListing for any number of listings, requests, ids,     *)
(* pages and widths of an int: a page is never longer than asked for, a    *)
(* listing misses no policy that stayed where it was, and with nothing     *)
(* moving a page that fits an int is the right one.                        *)
(*                                                                         *)
(* The argument follows the loop.  What it has collected is, entry by      *)
(* entry, what lies behind its index; a page holds no more of that than    *)
(* the distance of its two bounds, and wrapping can only bring the upper   *)
(* bound down.  What the other requests do to the share they do as         *)
(* PolicyService says, so its invariant is part of this one.               *)
(***************************************************************************)
EXTENDS HistoryListing, PolicyServiceProofs, FiniteSetTheorems, TLAPS

\* A listing that has not searched has nothing.
Fresh(l) == stage[l] \in {"idle", "search"} => index[l] = 0 /\ listed[l] = <<>>

\* What is collected of a page lies between its bounds and behind the index.
Page(l) ==
  asked[l] # All /\ listed[l] # <<>> =>
    /\ Len(listed[l]) <= index[l] - StartOf(asked[l])
    /\ Len(listed[l]) <= StopOf(asked[l]) - StartOf(asked[l])

Walked == {"probe", "read", "done"}

\* The k-th entry has been listed, or was gone; it is not gone when nothing
\* has happened to it.
Walk(l, k) ==
  /\ listed[l][k] # Null => listed[l][k].id = entries[l][k]
  /\ entries[l][k] \in untouched[l] => listed[l][k] # Null

\* A listing of everything has walked over its entries up to the index.
Whole(l) ==
  asked[l] = All =>
    /\ stage[l] # "count"
    /\ stage[l] \in Walked =>
         /\ entries[l] \in Injection(1 .. Len(entries[l]), Ids)
         /\ \A d \in untouched[l] : \E k \in 1 .. Len(entries[l]) : entries[l][k] = d
         /\ Len(listed[l]) = index[l] /\ index[l] \in 0 .. Len(entries[l])
         /\ stage[l] = "done" => index[l] = Len(entries[l])
         /\ \A k \in 1 .. index[l] : Walk(l, k)

\* What is untouched can be read as long as the listing goes on.
Unmoved(l) == stage[l] \in {"probe", "read"} => \A d \in untouched[l] : Readable(d)

LoopOK(l) == Fresh(l) /\ Page(l) /\ Whole(l) /\ Unmoved(l)

\* The inductive invariant.
ListingInv == IInv /\ ListingTypeOK /\ \A l \in Listers : LoopOK(l)

-----------------------------------------------------------------------------
(* The arithmetic of a page. *)

\* Wrapping an int gives an int, and of a sum that is not too small nothing larger.
LEMMA WrapBounds ==
  ASSUME NEW n \in Int
  PROVE  /\ Wrap(n) \in Ints
         /\ n >= -Span => Wrap(n) <= n
<1>1. Span \in Nat \ {0}
  BY PagesFit
<1>2. (n + Span) % (2 * Span) \in 0 .. 2 * Span - 1
  BY <1>1
<1>3. n >= -Span => (n + Span) % (2 * Span) <= n + Span
  BY <1>1
<1> QED
  BY <1>1, <1>2, <1>3 DEF Wrap, Ints

\* The bounds of a page are ints, no further apart than its size.
LEMMA PageBounds ==
  ASSUME NEW page \in Pages
  PROVE  /\ page.index \in Int /\ page.size \in Int
         /\ StartOf(page) \in Int /\ StopOf(page) \in Int
         /\ page.size >= 0 => StopOf(page) - StartOf(page) <= page.size
<1>1. page.index \in Int /\ page.size \in Int /\ Span \in Nat
  BY PagesFit DEF Ints
<1>2. page.index * page.size \in Int
  BY <1>1
<1>3. StartOf(page) \in Int /\ StartOf(page) >= -Span
  BY <1>1, <1>2, WrapBounds DEF StartOf, Ints
<1>4. StartOf(page) + page.size \in Int
  BY <1>1, <1>3
<1>5. StopOf(page) \in Int
  BY <1>1, <1>4, WrapBounds DEF StopOf, Ints
<1>6. page.size >= 0 => StopOf(page) <= StartOf(page) + page.size
  BY <1>1, <1>3, <1>4, WrapBounds DEF StopOf
<1> QED
  BY <1>1, <1>3, <1>5, <1>6

-----------------------------------------------------------------------------
(* What a search finds. *)

\* A search returns the name of every directory under historical/, once.
LEMMA OrdersAreLists ==
  ASSUME NEW s \in Orders(Historical)
  PROVE  /\ s \in Seq(Ids) /\ Len(s) \in Nat
         /\ s \in Injection(1 .. Len(s), Ids)
         /\ \A d \in Historical : \E k \in 1 .. Len(s) : s[k] = d
<1>1. IsFiniteSet(Historical)
  BY FS_Subset, PagesFit DEF Historical
<1>2. Cardinality(Historical) \in Nat
  BY <1>1, FS_CardinalityType
<1>3. /\ s \in [1 .. Cardinality(Historical) -> Historical]
      /\ IsInjective(s)
      /\ \A d \in Historical : \E k \in 1 .. Cardinality(Historical) : s[k] = d
  BY DEF Orders, Bijection, Injection, Surjection
<1>4. s \in [1 .. Cardinality(Historical) -> Ids]
  BY <1>3 DEF Historical
<1>5. s \in Seq(Ids) /\ Len(s) = Cardinality(Historical)
  BY <1>2, <1>4
<1> QED
  BY <1>2, <1>3, <1>4, <1>5 DEF Injection

\* A directory whose policy can be read is there.
LEMMA ReadableIsHistorical ==
  ASSUME NEW d \in Ids, Readable(d)
  PROVE  d \in Historical
BY NamesAreDistinct DEF Historical, DirectoryExists, Readable, Unreadable

-----------------------------------------------------------------------------
(* The steps of a listing. *)

\* A step of l moves no other listing.
OnlyLister(l) ==
  \A m \in Listers \ {l} :
    /\ stage'[m] = stage[m] /\ asked'[m] = asked[m] /\ entries'[m] = entries[m]
    /\ index'[m] = index[m] /\ listed'[m] = listed[m]

\* Where the loop goes on.
LEMMA OnwardGoes ==
  ASSUME NEW l, NEW e, Len(e) \in Nat, NEW n \in 0 .. Len(e), NEW p
  PROVE  /\ Onward(l, e, n, p) \in {"probe", "count", "done"}
         /\ Onward(l, e, n, p) = "probe" => n < Len(e)
         /\ asked[l] = All => Onward(l, e, n, p) = IF n < Len(e) THEN "probe" ELSE "done"
BY DEF Onward, PastPage

\* A listing that is not stepped stays as it is.
LEMMA IdleLister ==
  ASSUME NEW m \in Listers, LoopOK(m), UNCHANGED store,
         stage'[m] = stage[m], asked'[m] = asked[m], entries'[m] = entries[m],
         index'[m] = index[m], listed'[m] = listed[m], untouched'[m] = untouched[m]
  PROVE  LoopOK(m)'
<1>1. Fresh(m)' /\ Page(m)'
  BY DEF LoopOK, Fresh, Page, StartOf, StopOf
<1>2. Whole(m)' /\ Unmoved(m)'
  BY DEF LoopOK, Whole, Walk, Unmoved, Readable
<1> QED
  BY <1>1, <1>2 DEF LoopOK

\* A listing moves on, and all others stay as they are.
LEMMA OthersStayLoopOK ==
  ASSUME \A m \in Listers : LoopOK(m), NEW l \in Listers, OnlyLister(l), LoopOK(l)',
         UNCHANGED <<store, untouched>>
  PROVE  \A m \in Listers : LoopOK(m)'
BY IdleLister DEF OnlyLister

\* A client asks.
LEMMA AskKeeps ==
  ASSUME ListingInv, NEW l \in Listers, NEW page \in Pages \cup {All}, Ask(l, page)
  PROVE  ListingTypeOK' /\ \A m \in Listers : LoopOK(m)'
<1> USE DEF Ask, ListingInv, ListingTypeOK
<1>1. ListingTypeOK'
  BY DEF Stages
<1>2. OnlyLister(l) /\ UNCHANGED <<store, untouched>>
  BY DEF OnlyLister, vars
<1>3. stage'[l] = "search" /\ listed'[l] = <<>> /\ index'[l] = 0
  BY DEF LoopOK, Fresh
<1>4. LoopOK(l)'
  BY <1>3 DEF LoopOK, Fresh, Page, Whole, Walked, Unmoved
<1> QED
  BY <1>1, <1>2, <1>4, OthersStayLoopOK

\* The walk begins.
LEMMA SearchKeeps ==
  ASSUME ListingInv, NEW l \in Listers, Search(l)
  PROVE  ListingTypeOK' /\ \A m \in Listers : LoopOK(m)'
<1> USE DEF ListingInv
<1>1. PICK s \in Orders(Historical) :
        /\ entries' = [entries EXCEPT ![l] = s]
        /\ stage' = [stage EXCEPT ![l] = Onward(l, s, 0, <<>>)]
  BY DEF Search
<1>2. /\ s \in Seq(Ids) /\ Len(s) \in Nat /\ s \in Injection(1 .. Len(s), Ids)
      /\ \A d \in Historical : \E k \in 1 .. Len(s) : s[k] = d
  BY OrdersAreLists
<1>3. /\ untouched' = [untouched EXCEPT ![l] = {d \in Ids : Readable(d)}]
      /\ stage[l] = "search"
      /\ UNCHANGED <<store, asked, index, listed, total, quiet>>
  BY DEF Search, vars
<1>4. index[l] = 0 /\ listed[l] = <<>>
  BY <1>3 DEF LoopOK, Fresh
<1>5. /\ Onward(l, s, 0, <<>>) \in {"probe", "count", "done"}
      /\ Onward(l, s, 0, <<>>) = "probe" => 0 < Len(s)
      /\ asked[l] = All => Onward(l, s, 0, <<>>) = IF 0 < Len(s) THEN "probe" ELSE "done"
  BY <1>2, OnwardGoes
<1>6. ListingTypeOK'
  BY <1>1, <1>2, <1>3, <1>4, <1>5 DEF ListingTypeOK, Stages
<1>7. /\ entries'[l] = s /\ untouched'[l] = {d \in Ids : Readable(d)}
      /\ stage'[l] = Onward(l, s, 0, <<>>)
  BY <1>1, <1>3 DEF ListingTypeOK
<1>8. LoopOK(l)'
  <2>1. Fresh(l)' /\ Page(l)'
    BY <1>3, <1>4, <1>5, <1>7 DEF Fresh, Page
  <2>2. \A d \in untouched'[l] : \E k \in 1 .. Len(s) : s[k] = d
    BY <1>2, <1>7, ReadableIsHistorical
  <2>3. Whole(l)'
    BY <1>2, <1>3, <1>4, <1>5, <1>7, <2>2 DEF Whole, Walked, Walk
  <2>4. Unmoved(l)'
    BY <1>3, <1>7 DEF Unmoved, Readable
  <2> QED
    BY <2>1, <2>3, <2>4 DEF LoopOK
<1>9. ASSUME NEW m \in Listers, m # l PROVE LoopOK(m)'
  <2>1. stage'[m] = stage[m] /\ entries'[m] = entries[m] /\ untouched'[m] = untouched[m]
    BY <1>1, <1>3, <1>9 DEF ListingTypeOK
  <2> QED
    BY <1>3, <2>1, IdleLister
<1> QED
  BY <1>6, <1>8, <1>9

\* The download of an entry has ended, with p.
LEMMA TakeKeeps ==
  ASSUME ListingInv, NEW l \in Listers, stage[l] \in {"probe", "read"},
         NEW p \in Policies \cup {Null}, Take(l, p),
         p # Null => p.id = Entry(l), Entry(l) \in untouched[l] => p # Null,
         UNCHANGED <<vars, asked, entries, total, untouched, quiet>>
  PROVE  ListingTypeOK' /\ \A m \in Listers : LoopOK(m)'
<1> USE DEF ListingInv
<1> DEFINE e == entries[l]
           n == index[l] + 1
           more == IF Collected(l) THEN Append(listed[l], p) ELSE listed[l]
<1>1. /\ e \in Seq(Ids) /\ Len(e) \in Nat /\ index[l] \in Nat /\ n \in 1 .. Len(e)
      /\ index[l] < Len(e)
      /\ listed[l] \in Seq(Policies \cup {Null}) /\ asked[l] \in Pages \cup {All}
  BY DEF ListingTypeOK
<1>2. more \in Seq(Policies \cup {Null}) /\ Len(listed[l]) \in Nat
  BY <1>1
<1>3. /\ listed' = [listed EXCEPT ![l] = more]
      /\ index' = [index EXCEPT ![l] = n]
      /\ stage' = [stage EXCEPT ![l] = Onward(l, e, n, more)]
  BY DEF Take
<1> HIDE DEF e, n, more
<1>4. /\ Onward(l, e, n, more) \in {"probe", "count", "done"}
      /\ Onward(l, e, n, more) = "probe" => n < Len(e)
      /\ asked[l] = All => Onward(l, e, n, more) = IF n < Len(e) THEN "probe" ELSE "done"
  <2>1. n \in 0 .. Len(e)
    BY <1>1
  <2> QED
    BY <1>1, <2>1, OnwardGoes
<1>5. ListingTypeOK'
  BY <1>1, <1>2, <1>3, <1>4 DEF ListingTypeOK, Stages, e
<1>6. OnlyLister(l) /\ UNCHANGED store
  BY <1>3 DEF OnlyLister, ListingTypeOK, vars
<1>7. listed'[l] = more /\ index'[l] = n /\ stage'[l] = Onward(l, e, n, more)
  BY <1>3 DEF ListingTypeOK
<1>8. Fresh(l)'
  BY <1>4, <1>7 DEF Fresh
<1>9. Page(l)'
  <2>1. CASE asked[l] = All
    BY <2>1 DEF Page
  <2>2. CASE asked[l] # All
    <3>1. asked[l] \in Pages /\ StartOf(asked[l]) \in Int /\ StopOf(asked[l]) \in Int
      BY <1>1, <2>2, PageBounds
    <3>2. CASE Collected(l)
      <4>1. StartOf(asked[l]) <= index[l] /\ index[l] < StopOf(asked[l])
        BY <1>1, <2>2, <3>1, <3>2 DEF Collected
      <4>2. Len(more) = Len(listed[l]) + 1
        BY <1>1, <3>2 DEF more
      <4>3. listed[l] = <<>> => Len(listed[l]) = 0
        OBVIOUS
      <4>4. /\ Len(more) <= n - StartOf(asked[l])
            /\ Len(more) <= StopOf(asked[l]) - StartOf(asked[l])
        BY <1>1, <1>2, <2>2, <3>1, <4>1, <4>2, <4>3 DEF LoopOK, Page, n
      <4> QED
        BY <1>7, <4>4 DEF Page
    <3>3. CASE ~Collected(l)
      <4>1. more = listed[l]
        BY <3>3 DEF more
      <4>2. more # <<>> => /\ Len(more) <= n - StartOf(asked[l])
                           /\ Len(more) <= StopOf(asked[l]) - StartOf(asked[l])
        BY <1>1, <1>2, <2>2, <3>1, <4>1 DEF LoopOK, Page, n
      <4> QED
        BY <1>7, <4>2 DEF Page
    <3> QED
      BY <3>2, <3>3
  <2> QED
    BY <2>1, <2>2
<1>10. Whole(l)'
  <2>1. SUFFICES ASSUME asked[l] = All PROVE Whole(l)'
    BY DEF Whole
  <2>2. /\ e \in Injection(1 .. Len(e), Ids)
        /\ \A d \in untouched[l] : \E k \in 1 .. Len(e) : e[k] = d
        /\ Len(listed[l]) = index[l]
        /\ \A k \in 1 .. index[l] : Walk(l, k)
    BY <2>1 DEF LoopOK, Whole, Walked, e
  <2>3. more = Append(listed[l], p)
    BY <2>1 DEF more, Collected
  <2>4. /\ Len(more) = n
        /\ more[n] = p
        /\ \A k \in 1 .. index[l] : more[k] = listed[l][k]
    BY <1>1, <2>2, <2>3 DEF n
  <2>5. ASSUME NEW k \in 1 .. n PROVE Walk(l, k)'
    <3>1. CASE k = n
      <4>1. entries'[l][k] = Entry(l) /\ listed'[l][k] = p
        BY <1>7, <2>4, <3>1 DEF Entry, n
      <4> QED
        BY <4>1 DEF Walk
    <3>2. CASE k # n
      <4>1. k \in 1 .. index[l]
        BY <1>1, <3>2 DEF n
      <4> QED
        BY <1>7, <2>2, <2>4, <4>1 DEF Walk
    <3> QED
      BY <3>1, <3>2
  <2> QED
    BY <1>1, <1>4, <1>7, <2>1, <2>2, <2>4, <2>5 DEF Whole, e
<1>11. Unmoved(l)'
  BY DEF LoopOK, Unmoved, Readable, vars
<1> QED
  BY <1>5, <1>6, <1>8, <1>9, <1>10, <1>11, OthersStayLoopOK DEF LoopOK

\* A listing moves to another stage, or fails.
LEMMA GotoStageKeeps ==
  ASSUME ListingInv, NEW l \in Listers, NEW g \in {"read", "failed"},
         stage' = [stage EXCEPT ![l] = g], stage[l] # "probe" => g = "failed",
         UNCHANGED <<store, asked, entries, index, listed, total, untouched, quiet>>
  PROVE  ListingTypeOK' /\ \A m \in Listers : LoopOK(m)'
<1> USE DEF ListingInv
<1>1. ListingTypeOK'
  BY DEF ListingTypeOK, Stages
<1>2. OnlyLister(l) /\ stage'[l] = g
  BY DEF OnlyLister, ListingTypeOK
<1>3. Fresh(l)' /\ Page(l)'
  BY <1>2 DEF LoopOK, Fresh, Page, StartOf, StopOf
<1>4. Whole(l)' /\ Unmoved(l)'
  BY <1>2 DEF LoopOK, Whole, Walked, Walk, Unmoved, Readable
<1> QED
  BY <1>1, <1>2, <1>3, <1>4, OthersStayLoopOK DEF LoopOK

\* What the server does on a listing.
LEMMA ListerWorkKeeps ==
  ASSUME ListingInv, NEW l \in Listers, ListerWork(l)
  PROVE  ListingTypeOK' /\ \A m \in Listers : LoopOK(m)'
<1> USE DEF ListingInv
<1>1. CASE Search(l)
  BY <1>1, SearchKeeps
<1>2. CASE FindEntry(l)
  BY <1>2, GotoStageKeeps DEF FindEntry, vars
<1>3. ASSUME stage[l] \in {"probe", "read"}
      PROVE  /\ Entry(l) \in Ids
             /\ Entry(l) \in untouched[l] => Readable(Entry(l))
             /\ Readable(Entry(l)) =>
                  /\ store[Entry(l)] \in Policies /\ store[Entry(l)] # Null
                  /\ store[Entry(l)].id = Entry(l)
  <2>1. Entry(l) \in Ids
    BY <1>3 DEF Entry, ListingTypeOK
  <2>2. Readable(Entry(l)) => store[Entry(l)].id = Entry(l)
    BY <2>1 DEF IInv, ContentMatchesPlace, Fits, Dirs
  <2>3. Entry(l) \in untouched[l] => Readable(Entry(l))
    BY <1>3 DEF LoopOK, Unmoved
  <2> QED
    BY <2>1, <2>2, <2>3, ParametersFit DEF Readable
<1>4. CASE EntryGone(l)
  <2>1. ~Readable(Entry(l))
    BY <1>4, NamesAreDistinct DEF EntryGone, FileExists, Readable, Unreadable
  <2> QED
    BY <1>3, <1>4, <2>1, TakeKeeps DEF EntryGone
<1>5. CASE ReadEntry(l)
  BY <1>3, <1>5, TakeKeeps DEF ReadEntry
<1>6. CASE ReadEntryThrows(l)
  BY <1>6, GotoStageKeeps DEF ReadEntryThrows, Fail, vars
<1>7. CASE CountHistory(l)
  <2>1. IsFiniteSet(Historical)
    BY FS_Subset, PagesFit DEF Historical
  <2>2. ListingTypeOK'
    BY <1>7, <2>1, FS_CardinalityType DEF CountHistory, ListingTypeOK, Stages
  <2>3. OnlyLister(l) /\ UNCHANGED <<store, untouched, asked, entries, index, listed>>
    BY <1>7 DEF CountHistory, OnlyLister, ListingTypeOK, vars
  <2>4. stage[l] = "count" /\ stage'[l] = "done"
    BY <1>7 DEF CountHistory, ListingTypeOK
  <2>5. Fresh(l)' /\ Page(l)'
    BY <2>3, <2>4 DEF LoopOK, Fresh, Page, StartOf, StopOf
  <2>6. Whole(l)' /\ Unmoved(l)'
    BY <2>3, <2>4 DEF LoopOK, Whole, Unmoved
  <2> QED
    BY <2>2, <2>3, <2>5, <2>6, OthersStayLoopOK DEF LoopOK
<1> QED
  BY <1>1, <1>2, <1>4, <1>5, <1>6, <1>7 DEF ListerWork

-----------------------------------------------------------------------------
(* The steps of the other requests. *)

\* What is untouched is so because nobody has touched it.
LEMMA ObservedKeeps ==
  ASSUME ListingInv, Observed, UNCHANGED <<asked, entries, index, listed, total>>,
         stage' = [l \in Listers |-> stage'[l]],
         \A l \in Listers : stage'[l] = stage[l] \/ (Listing(l) /\ stage'[l] = "failed")
  PROVE  ListingTypeOK' /\ \A l \in Listers : LoopOK(l)'
<1> USE DEF ListingInv
<1>1. ListingTypeOK'
  <2>1. stage' \in [Listers -> Stages]
    BY DEF ListingTypeOK, Stages
  <2>2. untouched' \in [Listers -> SUBSET Ids]
    BY DEF Observed, ListingTypeOK
  <2>3. quiet' \in [Listers -> BOOLEAN]
    BY DEF Observed, ListingTypeOK
  <2> QED
    BY <2>1, <2>2, <2>3 DEF ListingTypeOK
<1>2. ASSUME NEW l \in Listers PROVE LoopOK(l)'
  <2>1. /\ untouched'[l] \subseteq untouched[l]
        /\ Listing(l) => \A d \in untouched'[l] : store'[d] = store[d]
    BY DEF Observed
  <2>2. Fresh(l)' /\ Page(l)'
    BY <1>2 DEF LoopOK, Fresh, Page, StartOf, StopOf
  <2>3. Whole(l)'
    BY <2>1 DEF LoopOK, Whole, Walked, Walk
  <2>4. Unmoved(l)'
    <3>1. SUFFICES ASSUME stage'[l] \in {"probe", "read"}, NEW d \in untouched'[l]
                   PROVE  Readable(d)'
      BY DEF Unmoved
    <3>2. stage[l] \in {"probe", "read"} /\ Listing(l)
      BY <3>1 DEF Listing
    <3> QED
      BY <2>1, <3>1, <3>2 DEF LoopOK, Unmoved, Readable
  <2> QED
    BY <2>2, <2>3, <2>4 DEF LoopOK
<1> QED
  BY <1>1, <1>2

\* Every step of either kind keeps the invariant.
LEMMA ListingStep ==
  ASSUME ListingInv, [ListingNext]_allVars
  PROVE  ListingInv'
<1> USE DEF ListingInv
<1>1. ASSUME NEW l \in Listers, GetHistory(l) \/ GetPage(l) PROVE ListingInv'
  <2>1. PICK page \in Pages \cup {All} : Ask(l, page)
    BY <1>1 DEF GetHistory, GetPage
  <2>2. UNCHANGED vars
    BY <2>1 DEF Ask
  <2> QED
    BY <2>1, <2>2, AskKeeps, StepKeeps
<1>2. ASSUME NEW l \in Listers, ListerWork(l) PROVE ListingInv'
  <2>1. UNCHANGED vars
    BY <1>2 DEF ListerWork, Search, FindEntry, EntryGone, ReadEntry, ReadEntryThrows, CountHistory
  <2> QED
    BY <1>2, <2>1, ListerWorkKeeps, StepKeeps
<1>3. ASSUME NEW l \in Listers, ListerError(l) PROVE ListingInv'
  <2>1. IInv'
    <3>1. faults' \in 0 .. MaxFaults
      BY <1>3, ParametersFit DEF ListerError, Fault, IInv, TypeOK
    <3>2. UNCHANGED <<store, handle, pc, op, arg, found, current, target, data, tries>>
      BY <1>3 DEF ListerError, locals
    <3>3. TypeOK'
      BY <3>1, <3>2 DEF IInv, TypeOK, FileStoreTypeOK
    <3>4. LocalsOK'
      <4>1. ASSUME NEW r \in Requests PROVE LocalOK(r)'
        BY <3>2 DEF IInv, LocalsOK, LocalOK
      <4>2. LocalTypes'
        BY <3>2 DEF IInv, LocalsOK, LocalTypes
      <4> QED
        BY <4>1, <4>2 DEF LocalsOK
    <3>5. HandlesOK' /\ ContentMatchesPlace'
      BY <3>2 DEF IInv, HandlesOK, ContentMatchesPlace, Readable, Fits
    <3> QED
      BY <3>3, <3>4, <3>5 DEF IInv
  <2>2. ListingTypeOK' /\ \A m \in Listers : LoopOK(m)'
    BY <1>3, GotoStageKeeps DEF ListerError, Fail
  <2> QED
    BY <2>1, <2>2
<1>4. CASE ServiceStep
  <2>1. IInv'
    BY <1>4, StepKeeps DEF ServiceStep, Next
  <2>2. stage' = [l \in Listers |-> stage'[l]]
    BY <1>4 DEF ServiceStep, ListingTypeOK
  <2> QED
    BY <1>4, <2>1, <2>2, ObservedKeeps DEF ServiceStep
<1>5. CASE CrashAll
  <2>1. IInv'
    BY <1>5, StepKeeps DEF CrashAll, Next
  <2>2. /\ stage' = [l \in Listers |-> stage'[l]]
        /\ \A l \in Listers : stage'[l] = stage[l] \/ (Listing(l) /\ stage'[l] = "failed")
    BY <1>5 DEF CrashAll
  <2> QED
    BY <1>5, <2>1, <2>2, ObservedKeeps DEF CrashAll
<1>6. CASE AllAnswered \/ UNCHANGED allVars
  <2>1. UNCHANGED <<vars, listing>>
    BY <1>6 DEF AllAnswered, allVars
  <2>2. IInv'
    BY <2>1, StepKeeps
  <2>3. ListingTypeOK'
    BY <2>1 DEF listing, ListingTypeOK
  <2>4. \A l \in Listers : LoopOK(l)'
    BY <2>1, IdleLister DEF listing, vars
  <2> QED
    BY <2>2, <2>3, <2>4
<1> QED
  BY <1>1, <1>2, <1>3, <1>4, <1>5, <1>6 DEF ListingNext

\* The invariant holds at first.
LEMMA ListingStart == ListingInit => ListingInv
<1> SUFFICES ASSUME ListingInit PROVE ListingInv
  OBVIOUS
<1>1. IInv
  BY InitInvariant DEF ListingInit
<1>2. ListingTypeOK
  BY DEF ListingInit, ListingTypeOK, Stages
<1>3. \A l \in Listers : LoopOK(l)
  BY DEF ListingInit, LoopOK, Fresh, Page, Whole, Walked, Unmoved
<1> QED
  BY <1>1, <1>2, <1>3 DEF ListingInv

\* And so it holds in every reachable state.
LEMMA ListingInvariance == ListingSpec => []ListingInv
<1>1. ListingInv /\ [ListingNext]_allVars => ListingInv'
  BY ListingStep
<1> QED
  BY <1>1, ListingStart, PTL DEF ListingSpec

-----------------------------------------------------------------------------
(* A page with nothing moving. *)

\* How much of a page the loop has collected when it has come to n.
CollectedBy(page, n) ==
  IF n <= FirstOf(page) THEN 0
  ELSE IF n <= FirstOf(page) + page.size THEN n - FirstOf(page) ELSE page.size

\* A listing of a page that fits an int, with nothing moving.
Calm(l) ==
  /\ asked[l] # All /\ PageFits(asked[l]) /\ quiet[l] /\ faults = 0
  /\ \A k \in 1 .. Len(entries[l]) : entries[l][k] \in untouched[l]

\* The history has as many policies as when it was searched.
StillCounted(l) ==
  stage[l] \in {"probe", "read", "count"} => Len(entries[l]) = Cardinality(Historical)

\* What is collected is the beginning of the page.
OnThePage(l) ==
  stage[l] \notin {"idle", "search"} =>
    /\ index[l] \in 0 .. Len(entries[l])
    /\ Len(listed[l]) = CollectedBy(asked[l], index[l])
    /\ \A k \in 1 .. Len(listed[l]) : Shows(l, k, entries[l][FirstOf(asked[l]) + k])

\* The loop has ended behind the page or with the last entry, and in no error.
EndsRight(l) ==
  /\ stage[l] # "failed"
  /\ stage[l] \in {"count", "done"} =>
       index[l] = Len(entries[l]) \/ index[l] >= FirstOf(asked[l]) + asked[l].size
  /\ stage[l] = "done" /\ listed[l] # <<>> => total[l] = Len(entries[l])

PageSoFar(l) == Calm(l) => StillCounted(l) /\ OnThePage(l) /\ EndsRight(l)

\* The inductive invariant of such a page.
PageInv == ListingInv /\ \A l \in Listers : PageSoFar(l)

\* What fits an int does not wrap.
LEMMA WrapFits ==
  ASSUME NEW n \in Ints
  PROVE  Wrap(n) = n
<1>1. Span \in Nat \ {0} /\ n \in Int /\ n + Span \in 0 .. 2 * Span - 1
  BY PagesFit DEF Ints
<1>2. (n + Span) % (2 * Span) = n + Span
  BY <1>1
<1> QED
  BY <1>1, <1>2 DEF Wrap

\* The bounds of a page that fits are those of the page.
LEMMA FittingPage ==
  ASSUME NEW page \in Pages, PageFits(page)
  PROVE  /\ FirstOf(page) \in Nat /\ page.size \in Nat
         /\ StartOf(page) = FirstOf(page) /\ StopOf(page) = FirstOf(page) + page.size
<1>1. page.index \in Nat /\ page.size \in Nat /\ Span \in Nat
  BY PagesFit DEF Ints, PageFits
<1>2. FirstOf(page) \in Nat
  BY <1>1 DEF FirstOf
<1>3. (page.index + 1) * page.size = FirstOf(page) + page.size
  BY <1>1 DEF FirstOf
<1>4. FirstOf(page) + page.size \in Ints
  BY <1>3 DEF PageFits
<1>5. FirstOf(page) \in Ints
  BY <1>1, <1>2, <1>4 DEF Ints
<1> QED
  BY <1>1, <1>2, <1>4, <1>5, WrapFits DEF StartOf, StopOf, FirstOf

\* One entry more is collected if it is on the page.
LEMMA OneMore ==
  ASSUME NEW page, FirstOf(page) \in Nat, page.size \in Nat, NEW n \in Nat
  PROVE  /\ CollectedBy(page, n) \in Nat
         /\ CollectedBy(page, 0) = 0
         /\ n >= FirstOf(page) /\ n < FirstOf(page) + page.size
              => /\ CollectedBy(page, n + 1) = CollectedBy(page, n) + 1
                 /\ FirstOf(page) + CollectedBy(page, n) = n
         /\ ~(n >= FirstOf(page) /\ n < FirstOf(page) + page.size)
              => CollectedBy(page, n + 1) = CollectedBy(page, n)
BY DEF CollectedBy

\* A listing to which nothing happens.
LEMMA IdlePage ==
  ASSUME NEW m \in Listers, PageSoFar(m), UNCHANGED <<store, faults>>,
         stage'[m] = stage[m], asked'[m] = asked[m], entries'[m] = entries[m],
         index'[m] = index[m], listed'[m] = listed[m], untouched'[m] = untouched[m],
         total'[m] = total[m], quiet'[m] = quiet[m]
  PROVE  PageSoFar(m)'
<1>1. Calm(m)' = Calm(m)
  BY DEF Calm, PageFits
<1>2. StillCounted(m)' = StillCounted(m)
  BY DEF StillCounted, Historical, DirectoryExists
<1>3. OnThePage(m)' = OnThePage(m)
  BY DEF OnThePage, CollectedBy, FirstOf, Shows
<1>4. EndsRight(m)' = EndsRight(m)
  BY DEF EndsRight, FirstOf
<1> QED
  BY <1>1, <1>2, <1>3, <1>4 DEF PageSoFar

\* A listing of a page reads its next entry.
LEMMA ReadOnPage ==
  ASSUME ListingInv, NEW l \in Listers, ReadEntry(l), Calm(l), StillCounted(l), OnThePage(l),
         EndsRight(l)
  PROVE  StillCounted(l)' /\ OnThePage(l)' /\ EndsRight(l)'
<1> USE DEF ListingInv
<1> DEFINE e == entries[l]
           page == asked[l]
           first == FirstOf(page)
           p == store[Entry(l)]
           n == index[l] + 1
           more == IF Collected(l) THEN Append(listed[l], p) ELSE listed[l]
<1>1. /\ stage[l] = "read" /\ Readable(Entry(l))
      /\ UNCHANGED <<vars, asked, entries, total, untouched, quiet>>
      /\ listed' = [listed EXCEPT ![l] = more]
      /\ index' = [index EXCEPT ![l] = n]
      /\ stage' = [stage EXCEPT ![l] = Onward(l, e, n, more)]
  BY DEF ReadEntry, Take
<1>2. /\ e \in Seq(Ids) /\ Len(e) \in Nat /\ index[l] \in Nat /\ n \in 1 .. Len(e)
      /\ listed[l] \in Seq(Policies \cup {Null}) /\ Len(listed[l]) \in Nat /\ page \in Pages
  BY <1>1 DEF ListingTypeOK, Calm
<1>3. /\ first \in Nat /\ page.size \in Nat
      /\ StartOf(page) = first /\ StopOf(page) = first + page.size
  BY <1>2, FittingPage DEF Calm
<1>4. p \in Policies /\ p # Null /\ p.id = e[n]
  <2>1. Entry(l) \in Ids /\ Entry(l) = e[n]
    BY <1>2 DEF Entry
  <2>2. p \in Policies /\ p.id = Entry(l)
    BY <1>1, <2>1 DEF IInv, ContentMatchesPlace, Fits, Dirs, Readable
  <2> QED
    BY <2>1, <2>2, ParametersFit
<1>5. /\ Len(listed[l]) = CollectedBy(page, index[l])
      /\ \A k \in 1 .. Len(listed[l]) : Shows(l, k, e[first + k])
  BY <1>1 DEF OnThePage
<1>6. Collected(l) <=> index[l] >= first /\ index[l] < first + page.size
  BY <1>3 DEF Collected, Calm
<1> HIDE DEF e, page, first, p, n, more
<1>7. /\ more \in Seq(Policies \cup {Null}) /\ Len(more) = CollectedBy(page, n)
      /\ \A k \in 1 .. Len(more) : more[k] # Null /\ more[k].id = e[first + k]
  <2>1. CASE Collected(l)
    <3>1. more = Append(listed[l], p) /\ Len(more) = Len(listed[l]) + 1
      BY <1>2, <2>1 DEF more
    <3>2. CollectedBy(page, n) = Len(listed[l]) + 1 /\ first + Len(more) = n
      <4>1. /\ CollectedBy(page, n) = CollectedBy(page, index[l]) + 1
            /\ first + CollectedBy(page, index[l]) = index[l]
        BY <1>2, <1>3, <1>6, <2>1, OneMore DEF n, first
      <4> QED
        BY <1>2, <1>3, <1>5, <3>1, <4>1 DEF n
    <3>3. more[Len(more)] = p /\ \A k \in 1 .. Len(listed[l]) : more[k] = listed[l][k]
      BY <1>2, <3>1
    <3> QED
      BY <1>2, <1>4, <1>5, <3>1, <3>2, <3>3 DEF Shows
  <2>2. CASE ~Collected(l)
    <3>1. more = listed[l] /\ CollectedBy(page, n) = Len(listed[l])
      BY <1>2, <1>3, <1>5, <1>6, <2>2, OneMore DEF n, more, first
    <3> QED
      BY <1>2, <1>5, <3>1 DEF Shows
  <2> QED
    BY <2>1, <2>2
<1>8. /\ stage'[l] = Onward(l, e, n, more) /\ index'[l] = n /\ listed'[l] = more
      /\ asked'[l] = page /\ entries'[l] = e
  BY <1>1 DEF ListingTypeOK, page, e
<1>9. /\ Onward(l, e, n, more) \in {"probe", "count", "done"}
      /\ Onward(l, e, n, more) # "probe" => n = Len(e) \/ n >= first + page.size
      /\ Onward(l, e, n, more) = "done" => more = <<>>
  BY <1>2, <1>3 DEF Onward, PastPage, Calm, page
<1>10. StillCounted(l)'
  <2>1. Len(e) = Cardinality(Historical) /\ Historical' = Historical
    BY <1>1 DEF StillCounted, Historical, DirectoryExists, vars, e
  <2> QED
    BY <1>8, <2>1 DEF StillCounted
<1>11. OnThePage(l)'
  <2>1. FirstOf(asked'[l]) = first /\ CollectedBy(asked'[l], index'[l]) = CollectedBy(page, n)
    BY <1>8 DEF first
  <2> QED
    BY <1>2, <1>7, <1>8, <2>1 DEF OnThePage, Shows
<1>12. EndsRight(l)'
  BY <1>8, <1>9 DEF EndsRight, first
<1> QED
  BY <1>10, <1>11, <1>12

\* What the server does on a listing of a page.
LEMMA WorkOnPage ==
  ASSUME PageInv, NEW l \in Listers, ListerWork(l)
  PROVE  PageSoFar(l)'
<1> USE DEF PageInv, ListingInv
<1>1. SUFFICES ASSUME Calm(l)' PROVE StillCounted(l)' /\ OnThePage(l)' /\ EndsRight(l)'
  BY DEF PageSoFar
<1>2. UNCHANGED <<vars, store, faults, asked, quiet>>
  BY DEF ListerWork, Search, FindEntry, EntryGone, ReadEntry, ReadEntryThrows, CountHistory, Fail,
      vars
<1>3. asked[l] \in Pages /\ PageFits(asked[l]) /\ quiet[l] /\ faults = 0
  BY <1>1, <1>2 DEF Calm, ListingTypeOK, PageFits
<1>4. FirstOf(asked[l]) \in Nat /\ asked[l].size \in Nat
  BY <1>3, FittingPage
<1>5. CASE Search(l)
  <2>1. PICK s \in Orders(Historical) :
          /\ entries' = [entries EXCEPT ![l] = s]
          /\ stage' = [stage EXCEPT ![l] = Onward(l, s, 0, <<>>)]
    BY <1>5 DEF Search
  <2>2. /\ stage[l] = "search" /\ index' = index /\ listed' = listed
        /\ index[l] = 0 /\ listed[l] = <<>>
    BY <1>5 DEF Search, LoopOK, Fresh
  <2>3. Len(s) = Cardinality(Historical) /\ Len(s) \in Nat
    <3>1. Cardinality(Historical) \in Nat
      BY FS_Subset, FS_CardinalityType, PagesFit DEF Historical
    <3>2. s \in [1 .. Cardinality(Historical) -> Historical]
      BY DEF Orders, Bijection, Injection
    <3> QED
      BY <3>1, <3>2
  <2>4. /\ entries'[l] = s /\ stage'[l] = Onward(l, s, 0, <<>>)
        /\ index'[l] = 0 /\ listed'[l] = <<>>
    BY <2>1, <2>2 DEF ListingTypeOK
  <2>5. Onward(l, s, 0, <<>>) = IF 0 < Len(s) THEN "probe" ELSE "done"
    BY <2>3 DEF Onward, PastPage
  <2>6. Historical' = Historical
    BY <1>2 DEF Historical, DirectoryExists
  <2>7. StillCounted(l)'
    BY <2>3, <2>4, <2>6 DEF StillCounted
  <2>8. CollectedBy(asked'[l], index'[l]) = 0
    BY <1>2, <1>4, <2>4, OneMore
  <2>9. OnThePage(l)'
    BY <2>3, <2>4, <2>8 DEF OnThePage
  <2> QED
    BY <2>3, <2>4, <2>5, <2>7, <2>9 DEF EndsRight
<1>6. ASSUME ~Search(l)
      PROVE  Calm(l) /\ StillCounted(l) /\ OnThePage(l) /\ EndsRight(l)
             /\ UNCHANGED <<entries, untouched>>
  <2>1. UNCHANGED <<entries, untouched>>
    BY <1>6 DEF ListerWork, FindEntry, EntryGone, ReadEntry, ReadEntryThrows, CountHistory, Fail
  <2>2. Calm(l)
    BY <1>1, <1>2, <1>3, <2>1 DEF Calm
  <2> QED
    BY <2>1, <2>2 DEF PageSoFar
<1>7. ASSUME ~Search(l), stage[l] \in {"probe", "read"} PROVE Readable(Entry(l))
  <2>1. Entry(l) \in untouched[l]
    BY <1>6, <1>7 DEF Calm, Entry, ListingTypeOK
  <2> QED
    BY <1>7, <2>1 DEF LoopOK, Unmoved
<1>8. CASE ReadEntry(l)
  <2>1. ~Search(l)
    BY <1>8 DEF ReadEntry, Search
  <2> QED
    BY <1>6, <1>8, <2>1, ReadOnPage
<1>9. CASE FindEntry(l)
  <2>1. ~Search(l) /\ stage[l] = "probe" /\ stage'[l] = "read"
    BY <1>9 DEF FindEntry, Search, ListingTypeOK
  <2>2. UNCHANGED <<index, listed, total>> /\ Historical' = Historical
    BY <1>2, <1>9 DEF FindEntry, Historical, DirectoryExists
  <2> QED
    BY <1>2, <1>6, <2>1, <2>2 DEF StillCounted, OnThePage, EndsRight, Shows
<1>10. ~EntryGone(l) /\ ~ReadEntryThrows(l)
  BY <1>7, NamesAreDistinct
  DEF EntryGone, ReadEntryThrows, Search, FileExists, Readable, Unreadable
<1>11. CASE CountHistory(l)
  <2>1. /\ ~Search(l) /\ stage[l] = "count" /\ stage'[l] = "done"
        /\ total'[l] = Cardinality(Historical) /\ UNCHANGED <<index, listed>>
    BY <1>11 DEF CountHistory, Search, ListingTypeOK
  <2> QED
    BY <1>2, <1>6, <2>1 DEF StillCounted, OnThePage, EndsRight, Shows
<1> QED
  BY <1>5, <1>8, <1>9, <1>10, <1>11 DEF ListerWork

\* Every step keeps the invariant of a page.
LEMMA PageStep ==
  ASSUME PageInv, [ListingNext]_allVars
  PROVE  PageInv'
<1>1. ListingInv /\ ListingInv'
  BY ListingStep DEF PageInv
<1>2. SUFFICES ASSUME NEW m \in Listers, Calm(m)' PROVE PageSoFar(m)'
  BY <1>1 DEF PageInv, PageSoFar
<1>3. PageSoFar(m) /\ faults' = 0 /\ faults \in Nat
  BY <1>1, <1>2 DEF PageInv, Calm, ListingInv, IInv, TypeOK
<1>4. ASSUME NEW l \in Listers, GetHistory(l) \/ GetPage(l) PROVE PageSoFar(m)'
  <2>1. PICK page \in Pages \cup {All} : Ask(l, page)
    BY <1>4 DEF GetHistory, GetPage
  <2>2. CASE m = l
    <3>1. stage'[m] = "search"
      BY <1>1, <2>1, <2>2 DEF Ask, ListingInv, ListingTypeOK
    <3> QED
      BY <3>1 DEF PageSoFar, StillCounted, OnThePage, EndsRight
  <2>3. CASE m # l
    <3>1. UNCHANGED <<store, faults>>
      BY <2>1 DEF Ask, vars
    <3>2. /\ stage'[m] = stage[m] /\ asked'[m] = asked[m] /\ entries'[m] = entries[m]
          /\ index'[m] = index[m] /\ listed'[m] = listed[m] /\ untouched'[m] = untouched[m]
          /\ total'[m] = total[m] /\ quiet'[m] = quiet[m]
      BY <1>1, <2>1, <2>3 DEF Ask, ListingInv, ListingTypeOK
    <3> QED
      BY <1>3, <3>1, <3>2, IdlePage
  <2> QED
    BY <2>2, <2>3
<1>5. ASSUME NEW l \in Listers, ListerWork(l) PROVE PageSoFar(m)'
  <2>1. CASE m = l
    BY <1>5, <2>1, WorkOnPage
  <2>2. CASE m # l
    <3>1. UNCHANGED <<store, faults>>
      BY <1>5
      DEF ListerWork, Search, FindEntry, EntryGone, ReadEntry, ReadEntryThrows, CountHistory, vars
    <3>2. /\ stage'[m] = stage[m] /\ asked'[m] = asked[m] /\ entries'[m] = entries[m]
          /\ index'[m] = index[m] /\ listed'[m] = listed[m] /\ untouched'[m] = untouched[m]
          /\ total'[m] = total[m] /\ quiet'[m] = quiet[m]
      BY <1>1, <1>5, <2>2
      DEF ListerWork, Search, FindEntry, EntryGone, ReadEntry, ReadEntryThrows, CountHistory,
          Take, Fail, ListingInv, ListingTypeOK
    <3> QED
      BY <1>3, <3>1, <3>2, IdlePage
  <2> QED
    BY <2>1, <2>2
<1>6. ~CrashAll /\ \A l \in Listers : ~ListerError(l)
  BY <1>3 DEF CrashAll, Crash, ListerError, Fault
<1>7. CASE ServiceStep
  <2>1. PICK r \in Requests : Arrive(r) \/ Work(r)
    BY <1>3, <1>7 DEF ServiceStep, IOError, WriteAgain, Fault
  <2>2. faults = 0
    BY <1>3, <2>1
    DEF Work, Change, MakeDirectory, CheckFile, UnlinkOld, OpenNew, WriteData, Probe, CheckDirectory,
      RemoveFile, RemoveEmptied, Retry, GiveUp, Arrive, GetDraft, GetCurrent, GetPolicyById, Publish,
      Delete, SaveAsDraft, Begin, Download, FindHistorical, NotHistorical, ReadHistorical,
      FindCurrent, NoCurrent, ReadCurrent, FindDraft, NoDraft, ReadDraft, FindBase, NoBase, ReadBase,
      FindOld, NoOld, ReadOld, Find, Misses, Reads
  <2>3. /\ UNCHANGED <<stage, asked, entries, index, listed, total>>
        /\ untouched'[m] \subseteq untouched[m] /\ (quiet'[m] => quiet[m])
        /\ quiet'[m] /\ Listing(m) => \A d \in Ids : store'[d] = store[d]
    BY <1>1, <1>7 DEF ServiceStep, Observed, ListingInv, ListingTypeOK
  <2>4. Calm(m)
    BY <1>2, <2>2, <2>3 DEF Calm, PageFits
  <2>5. StillCounted(m)'
    <3>1. SUFFICES ASSUME stage[m] \in {"probe", "read", "count"}
                   PROVE  Len(entries[m]) = Cardinality(Historical')
      BY <2>3 DEF StillCounted
    <3>2. Historical' = Historical
      BY <1>2, <2>3, <3>1 DEF Calm, Listing, Historical, DirectoryExists
    <3> QED
      BY <1>3, <2>4, <3>1, <3>2 DEF PageSoFar, StillCounted
  <2>6. OnThePage(m)' /\ EndsRight(m)'
    BY <1>3, <2>3, <2>4 DEF PageSoFar, OnThePage, EndsRight, Shows
  <2> QED
    BY <2>5, <2>6 DEF PageSoFar
<1>8. CASE AllAnswered \/ UNCHANGED allVars
  <2>1. UNCHANGED <<vars, listing>>
    BY <1>8 DEF AllAnswered, allVars
  <2> QED
    BY <1>3, <2>1, IdlePage DEF listing, vars
<1> QED
  BY <1>4, <1>5, <1>6, <1>7, <1>8 DEF ListingNext

\* And so it holds in every reachable state.
LEMMA PageInvariance == ListingSpec => []PageInv
<1>1. ListingInit => PageInv
  <2>1. ListingInit => \A l \in Listers : PageSoFar(l)
    BY DEF ListingInit, PageSoFar, StillCounted, OnThePage, EndsRight
  <2> QED
    BY <2>1, ListingStart DEF PageInv
<1>2. PageInv /\ [ListingNext]_allVars => PageInv'
  BY PageStep
<1> QED
  BY <1>1, <1>2, PTL DEF ListingSpec

-----------------------------------------------------------------------------
(* Theorems. *)

\* Every variable of a listing keeps its type; in particular the loop never
\* reads past the entries it has.
THEOREM ListingTypeCorrect == ListingSpec => []ListingTypeOK
<1>1. ListingInv => ListingTypeOK
  BY DEF ListingInv
<1> QED
  BY <1>1, ListingInvariance, PTL

\* GetHistoricPolicies never answers with more policies than the page size it
\* was asked for, whatever the index and however wide an int is: a product
\* that wraps moves the page but does not widen it.
THEOREM PagesAreBounded == ListingSpec => []AtMostPageSize
<1>1. ASSUME ListingInv, NEW l \in Listers, asked[l] # All, asked[l].size >= 0
      PROVE  Len(listed[l]) <= asked[l].size
  <2>1. /\ asked[l] \in Pages /\ listed[l] \in Seq(Policies \cup {Null})
        /\ Len(listed[l]) \in Nat
    BY <1>1 DEF ListingInv, ListingTypeOK
  <2>2. /\ asked[l].size \in Int /\ StartOf(asked[l]) \in Int /\ StopOf(asked[l]) \in Int
        /\ StopOf(asked[l]) - StartOf(asked[l]) <= asked[l].size
    BY <1>1, <2>1, PageBounds
  <2>3. CASE listed[l] = <<>>
    BY <1>1, <2>2, <2>3
  <2>4. CASE listed[l] # <<>>
    <3>1. Len(listed[l]) <= StopOf(asked[l]) - StartOf(asked[l])
      BY <1>1, <2>4 DEF ListingInv, LoopOK, Page
    <3> QED
      BY <2>1, <2>2, <3>1
  <2> QED
    BY <2>3, <2>4
<1>2. ListingInv => AtMostPageSize
  BY <1>1 DEF AtMostPageSize
<1> QED
  BY <1>2, ListingInvariance, PTL

\* A policy that stayed in the history from a listing's search to its end is
\* in the answer of GetHistoricPolicies exactly once, whatever was published
\* or deleted around it.
THEOREM NothingIsSkipped == ListingSpec => []ListedThroughout
<1>1. ASSUME ListingInv, NEW l \in Listers, stage[l] = "done", asked[l] = All,
             NEW d \in untouched[l]
      PROVE  Cardinality({k \in 1 .. Len(listed[l]) : Shows(l, k, d)}) = 1
  <2>1. /\ IsInjective(entries[l]) /\ DOMAIN entries[l] = 1 .. Len(entries[l])
        /\ Len(listed[l]) = Len(entries[l])
        /\ \A k \in 1 .. Len(entries[l]) : Walk(l, k)
    BY <1>1 DEF ListingInv, LoopOK, Whole, Walked, Injection
  <2>2. PICK j \in 1 .. Len(entries[l]) : entries[l][j] = d
    BY <1>1 DEF ListingInv, LoopOK, Whole, Walked
  <2>3. Shows(l, j, d)
    BY <2>1, <2>2 DEF Shows, Walk
  <2>4. \A k \in 1 .. Len(entries[l]) : Shows(l, k, d) => k = j
    BY <2>1, <2>2 DEF Shows, Walk, IsInjective
  <2>5. {k \in 1 .. Len(listed[l]) : Shows(l, k, d)} = {j}
    BY <2>1, <2>3, <2>4
  <2> QED
    BY <2>5, FS_Singleton
<1>2. ListingInv => ListedThroughout
  BY <1>1 DEF ListedThroughout
<1> QED
  BY <1>2, ListingInvariance, PTL

\* A page that fits an int, asked for while nothing moves, is the right one and
\* complete: GetHistoricPolicies answers with the entries from index times size
\* on, as many as there are of a page, and with the number of all of them.
THEOREM QuietPagesAreRight == ListingSpec => []QuietPageIsRight
<1>1. ASSUME PageInv, NEW l \in Listers, stage[l] \in {"done", "failed"}, Calm(l)
      PROVE  LET first == FirstOf(asked[l])
                 places == 1 .. Len(listed[l])
             IN /\ stage[l] = "done"
                /\ {first + k : k \in places} = PageOf(entries[l], asked[l])
                /\ \A k \in places : Shows(l, k, entries[l][first + k])
                /\ places # {} => total[l] = Len(entries[l])
  <2> DEFINE first == FirstOf(asked[l])
             size == asked[l].size
             places == 1 .. Len(listed[l])
  <2>1. OnThePage(l) /\ EndsRight(l)
    BY <1>1 DEF PageInv, PageSoFar
  <2>2. asked[l] \in Pages /\ PageFits(asked[l]) /\ Len(entries[l]) \in Nat
        /\ listed[l] \in Seq(Policies \cup {Null}) /\ Len(listed[l]) \in Nat
    BY <1>1 DEF PageInv, ListingInv, ListingTypeOK, Calm
  <2>3. first \in Nat /\ size \in Nat
    BY <2>2, FittingPage
  <2>4. /\ stage[l] = "done" /\ index[l] \in 0 .. Len(entries[l])
        /\ index[l] = Len(entries[l]) \/ index[l] >= first + size
        /\ Len(listed[l]) = CollectedBy(asked[l], index[l])
        /\ \A k \in places : Shows(l, k, entries[l][first + k])
    BY <1>1, <2>1 DEF OnThePage, EndsRight
  <2>5. places # {} => total[l] = Len(entries[l])
    <3>1. places # {} => listed[l] # <<>>
      BY <2>2
    <3> QED
      BY <2>1, <2>4, <3>1 DEF EndsRight
  <2>6. Len(listed[l]) = IF index[l] <= first THEN 0
                         ELSE IF index[l] <= first + size THEN index[l] - first ELSE size
    BY <2>4 DEF CollectedBy
  <2> HIDE DEF first, size
  <2>7. \A k \in Int : k \in places <=> first + k > first /\ first + k <= first + size
                                        /\ first + k <= Len(entries[l])
    BY <2>2, <2>3, <2>4, <2>6
  <2>8. PageOf(entries[l], asked[l])
          = {j \in 1 .. Len(entries[l]) : j > first /\ j <= first + size}
    BY DEF PageOf, first, size
  <2>9. \A j \in PageOf(entries[l], asked[l]) : j - first \in places /\ first + (j - first) = j
    BY <2>2, <2>3, <2>7, <2>8
  <2>10. \A k \in places : first + k \in PageOf(entries[l], asked[l])
    BY <2>2, <2>3, <2>7, <2>8
  <2>11. {first + k : k \in places} = PageOf(entries[l], asked[l])
    BY <2>9, <2>10
  <2> QED
    BY <2>4, <2>5, <2>11 DEF first
<1>2. PageInv => QuietPageIsRight
  BY <1>1 DEF QuietPageIsRight, Calm
<1> QED
  BY <1>2, PageInvariance, PTL

=============================================================================
