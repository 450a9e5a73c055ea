----------------------------- MODULE PagedFetch -----------------------------
(***************************************************************************)
(* relay.fetch_all: reading a channel's whole history in pages, newest     *)
(* first, with an inclusive `until` on the oldest second of the page       *)
(* before.  The relay (external) clamps a page to Limit rows, is free to   *)
(* choose among events of the boundary second, and gains and loses events  *)
(* while the reader pages.                                                 *)
(***************************************************************************)
EXTENDS Integers, FiniteSets

CONSTANTS
  Event,       \* all events that match the filter and may ever exist
  At,          \* created_at of each
  Limit,       \* rows of a full page
  NoUntil      \* the first query has no `until`

ASSUME PageAssumption ==
  /\ IsFiniteSet(Event)
  /\ At \in [Event -> Nat]
  /\ Limit \in Nat \ {0}
  /\ NoUntil \notin Nat

VARIABLES
  relay,       \* the events the relay holds
  pc,          \* "paging", "done", "refused" (the RuntimeError), "failed"
  until,       \* the filter's `until`
  seen,        \* the events collected so far
  kept,        \* history: the events held ever since the read began
  had          \* history: the events held at some moment since

fetchVars == <<relay, pc, until, seen, kept, had>>

-----------------------------------------------------------------------------
Matches(e) == until = NoUntil \/ At[e] <= until
Matching == {e \in relay : Matches(e)}

\* What the relay may answer: everything, or the newest Limit rows.
Pages ==
  { p \in SUBSET Matching :
      \/ p = Matching /\ Cardinality(p) <= Limit
      \/ /\ Cardinality(p) = Limit
         /\ \A e \in p, f \in Matching \ p : At[f] <= At[e] }

Full(page) == Cardinality(page) >= Limit

Last(page) == {e \in page : \A f \in page : At[e] <= At[f]}

OldestExclusive(page) == {At[e] - 1 : e \in Last(page)}   \* bug: one second too far

\* The oldest second of a page: one of its seconds, as a singleton.
Oldest(page) == {At[e] : e \in Last(page)}

FetchInit ==
  /\ relay \in SUBSET Event
  /\ pc = "paging"
  /\ until = NoUntil
  /\ seen = {}
  /\ kept = relay
  /\ had = relay

StopNever(page) ==                   \* bug: a full page of repeats is asked for again
  pc' = IF Full(page) THEN "paging" ELSE "done"

\* A page that brings nothing new: done, or stuck on a full second.
StopPaging(page) == pc' = IF Full(page) THEN "refused" ELSE "done"

NothingNew(page) ==
  /\ page \subseteq seen
  /\ StopPaging(page)
  /\ UNCHANGED <<until, seen>>

LastPage(page) ==
  /\ ~(page \subseteq seen) /\ ~Full(page)
  /\ seen' = seen \cup page
  /\ pc' = "done"
  /\ UNCHANGED until

FullPage(page) ==
  /\ ~(page \subseteq seen) /\ Full(page)
  /\ seen' = seen \cup page
  /\ until' \in Oldest(page)
  /\ UNCHANGED pc

Query ==
  /\ pc = "paging"
  /\ \E page \in Pages : NothingNew(page) \/ LastPage(page) \/ FullPage(page)
  /\ UNCHANGED <<relay, kept, had>>

\* The relay closes the subscription or does not answer in time.
QueryFails ==
  /\ pc = "paging"
  /\ pc' = "failed"
  /\ UNCHANGED <<relay, until, seen, kept, had>>

\* An event of any age reaches the relay; the owner deletes one.
Arrive(e) ==
  /\ e \notin relay
  /\ relay' = relay \cup {e}
  /\ had' = had \cup {e}
  /\ UNCHANGED <<pc, until, seen, kept>>

Delete(e) ==
  /\ e \in relay
  /\ relay' = relay \ {e}
  /\ kept' = kept \ {e}
  /\ UNCHANGED <<pc, until, seen, had>>

FetchNext == Query \/ QueryFails \/ \E e \in Event : Arrive(e) \/ Delete(e)

\* Each query is answered within the signer's time limit, or fails.
FetchSpec == FetchInit /\ [][FetchNext]_fetchVars /\ WF_fetchVars(Query)
-----------------------------------------------------------------------------
FetchTypes ==
  /\ kept \subseteq relay /\ relay \subseteq had
  /\ seen \subseteq had /\ had \subseteq Event
  /\ pc \in {"paging", "done", "refused", "failed"}
  /\ until \in Nat \cup {NoUntil}

\* A read that returns has every event that was there all along, ties at page
\* boundaries included ("ties at the boundary are re-fetched, not lost", the
\* design's section 5.2; relay.py:26-55).
ReturnsWholeHistory == pc = "done" => kept \subseteq seen

\* What makes it so: nothing newer than `until` is missing.
NewerIsSeen == \A e \in kept : ~Matches(e) => e \in seen

\* A read is refused only when the second it has paged down to holds a full
\* page (relay.py:30-31, 44-47): no history that moves on within every page is
\* refused, whatever arrives and disappears.  A second of exactly `limit`
\* events, with nothing older, is refused as well.
RefusedOnlyAtFullSecond ==
  pc = "refused" => Cardinality({e \in seen : At[e] = until}) >= Limit

\* What makes it so: a read pages downwards.
SeenIsNewer ==
  pc = "paging" => IF until = NoUntil THEN seen = {} ELSE \A e \in seen : until <= At[e]

-----------------------------------------------------------------------------
(* The pages, seen from outside, are one read. *)

Status == IF pc = "paging" THEN "pending" ELSE pc
Returned == IF pc = "done" THEN seen ELSE {}

History == INSTANCE HistoryRead WITH status <- Status, result <- Returned

\* A caller of fetch_all may take it for a single read: the pages, their ties
\* and what happens between them do not show in the answer (relay.py:26-55,
\* whose callers reduce it as the channel's history).
IsOneRead == History!Safe

\* ... and for one that ends, whatever arrives and disappears meanwhile: a page
\* with nothing new stops the paging, and Event is finite (relay.py:43-52).
Terminates == <>(pc # "paging")
=============================================================================
