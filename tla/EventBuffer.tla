----------------------------- MODULE EventBuffer -----------------------------
(***************************************************************************)
(* The events of a run: a ring in the run's record, a copy of it in SQLite *)
(* once the run has ended, and the pages a reader is given.  Events get    *)
(* consecutive cursors, so a ring is the interval of the cursors it holds; *)
(* what an event says is left out.                                         *)
(***************************************************************************)
EXTENDS Integers, FiniteSets, FiniteSetsExt

CONSTANTS
  RingSize,  (* 512: events a record keeps             *)
  PageSize   (* limit.min(200): events of one page     *)

ASSUME BufferAssumption == RingSize \in Nat \ {0} /\ PageSize \in Nat \ {0}

Rings == [first : Nat, next : Nat, dropped : Nat]

EmptyRing == [first |-> 0, next |-> 0, dropped |-> 0]

Held(ring) == ring.first .. (ring.next - 1)

\* push_event, n times: each event beyond RingSize drops the oldest.
Pushed(ring, n) ==
  LET held == ring.next + n - ring.first
      drop == IF held > RingSize THEN held - RingSize ELSE 0
  IN  [first |-> ring.first + drop, next |-> ring.next + n, dropped |-> ring.dropped + drop]

\* The cursors of a page: the first PageSize that are held from `cursor` on.
Selected(ring, cursor) ==
  {c \in Held(ring) : c >= cursor /\ Cardinality({d \in Held(ring) : cursor <= d /\ d < c}) < PageSize}

\* Deviation: the first dropped event is not a gap.
PageBlindToFirst(ring, cursor, dropped) ==
  [events |-> Selected(ring, cursor), next |-> ring.next, gap |-> cursor + 1 < ring.first,
   truncated |-> dropped > 0, dropped |-> dropped]

Page(ring, cursor, dropped) ==
  [events |-> Selected(ring, cursor),
   next |-> ring.next,
   gap |-> cursor < ring.first,
   truncated |-> dropped > 0,
   dropped |-> dropped]

\* RunManager::events, from the record.
MemoryPage(ring, cursor) == Page(ring, cursor, ring.dropped)

\* PersistentStore::load_events: the copy does not know what was truncated.
DurablePage(ring, cursor) == [Page(ring, cursor, ring.first) EXCEPT !.truncated = FALSE]
=============================================================================
