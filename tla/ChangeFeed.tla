----------------------------- MODULE ChangeFeed -----------------------------
(***************************************************************************)
(* Cursor-based pulls (server/sync/changeFeed.ts) against the push         *)
(* pipeline.  A pull is one SELECT, so it sees the rows committed so far;  *)
(* change_seq was drawn before COMMIT, so a lower number can appear later. *)
(***************************************************************************)
EXTENDS PushPipeline

CONSTANTS
  Reader,     \* devices that pull
  PageLimit   \* the limit they pass

ASSUME ReaderAssumption == PageLimit \in Nat \ {0}

VARIABLES
  cursor,     \* next_cursor of the last page each reader received, 0 at first
  delivered   \* the change_seq values each reader has been handed

fvars == <<entities, idem, feed, conflicts, nextSeq, pc, req, locked, pending,
           seq, verdict, cursor, delivered>>

FInit ==
  /\ Init
  /\ cursor = [d \in Reader |-> 0]
  /\ delivered = [d \in Reader |-> {}]

\* changeFeedRepo.listAfter: the PageLimit lowest rows above the cursor.
Page(after) ==
  {row \in feed :
     /\ row.seq > after
     /\ Cardinality({r \in feed : r.seq > after /\ r.seq < row.seq}) < PageLimit}

\* pullChanges: next_cursor is the last change_seq of the page; an empty page
\* leaves the cursor where it is.
PullChanges(d) ==
  LET page == Page(cursor[d])
  IN  /\ page # {}
      /\ delivered' = [delivered EXCEPT ![d] = @ \cup {row.seq : row \in page}]
      /\ \E last \in page :
           /\ \A row \in page : row.seq <= last.seq
           /\ cursor' = [cursor EXCEPT ![d] = last.seq]
      /\ UNCHANGED vars

FNext ==
  \/ Next /\ UNCHANGED <<cursor, delivered>>
  \/ \E d \in Reader : PullChanges(d)

FSpec == FInit /\ [][FNext]_fvars

-----------------------------------------------------------------------------
(* Properties *)

\* ADR-002 D7: a reader that has advanced to a cursor was handed every
\* accepted change up to it.
CursorCoversFeed ==
  \A d \in Reader, row \in feed : row.seq <= cursor[d] => row.seq \in delivered[d]

\* What does hold: changes pushed by one device, and changes of one entity,
\* commit in the order they draw change_seq.  A reader misses a change only
\* by having been handed a later one of another device to another entity.
GapsOnlyAcrossSources ==
  \A d \in Reader, missed \in feed :
    missed.seq <= cursor[d] /\ missed.seq \notin delivered[d] =>
      \E row \in feed :
        /\ row.seq \in delivered[d]
        /\ row.seq > missed.seq
        /\ row.entity # missed.entity
        /\ idem[row.sid].device # idem[missed.sid].device

=============================================================================
