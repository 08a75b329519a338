----------------------------- MODULE WatchFeed -----------------------------
(***************************************************************************)
(* What a watch on an etcd key promises its subscriber: values the key     *)
(* really had, none older than the one before.  Values may be passed over  *)
(* or told again, never taken back to an earlier one.  A subscriber that   *)
(* restarts begins anew.                                                   *)
(***************************************************************************)
EXTENDS Naturals, Sequences

CONSTANTS Values,   \* values written to the key
          Gone      \* marks an event that removed the key

VARIABLES hist,     \* every change of the key so far
          last      \* position in hist of the last value delivered, 0 for none

Init == hist = <<>> /\ last = 0

Change == \E v \in Values \cup {Gone} : hist' = Append(hist, v) /\ UNCHANGED last

Deliver == \E i \in DOMAIN hist : i >= last /\ hist[i] # Gone /\ last' = i /\ UNCHANGED hist

Restart == last' = 0 /\ UNCHANGED hist

Next == Change \/ Deliver \/ Restart

Spec == Init /\ [][Next]_<<hist, last>>
=============================================================================
