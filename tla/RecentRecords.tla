--------------------------- MODULE RecentRecords ---------------------------
(* What the Recorder retains, as its documentation puts it: the last        *)
(* `capacity` records, oldest first, older ones evicted as new ones arrive. *)
EXTENDS Integers, Sequences

CONSTANT Record

VARIABLES
  capacity,  \* WithRetention's n
  recent     \* what Records returns

RecentInit == capacity \in Nat /\ recent = << >>

Newest(s) == IF Len(s) <= capacity THEN s ELSE Tail(s)

Add(rec) ==
  /\ recent' = Newest(Append(recent, rec))
  /\ UNCHANGED capacity

RecentNext == \E rec \in Record : Add(rec)

RecentSpec == RecentInit /\ [][RecentNext]_<<capacity, recent>>
=============================================================================
