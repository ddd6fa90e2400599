----------------------------- MODULE ReadState -----------------------------
(***************************************************************************)
(* What the activity feed promises a reader about read state, with no      *)
(* floor, no exception rows and no statements in flight: a log of events   *)
(* and, per reader, the set of events that are read.  Events are known by  *)
(* the sequence number the database gave them.                             *)
(***************************************************************************)
EXTENDS Naturals

CONSTANTS Users,    \* the readers
          MaxSeq    \* bound on the events ever recorded

VARIABLES recorded, \* the events that are in the log
          read      \* per reader, the events that are read

vars == <<recorded, read>>

Seqs == 1..MaxSeq

Init == /\ recorded = {}
        /\ read = [u \in Users |-> {}]

(* A batch of events is recorded.  An event is born unread for every       *)
(* reader, but for one case the schema accepts: a reader who has already   *)
(* read a later event may find it read at birth.                           *)
Record == \E batch \in SUBSET Seqs :
             /\ batch # {}
             /\ recorded' = recorded \cup batch
             /\ \E late \in [Users -> SUBSET batch] :
                  /\ \A u \in Users, s \in batch :
                        s \in late[u] => \E t \in read[u] : s < t
                  /\ read' = [u \in Users |-> read[u] \cup late[u]]

(* One event becomes read for one reader; every other event keeps its state. *)
MarkOne(u) == \E s \in recorded :
                 /\ read' = [read EXCEPT ![u] = @ \cup {s}]
                 /\ UNCHANGED recorded

(* Everything recorded up to some event becomes read for one reader. *)
MarkAll(u) == \E m \in recorded :
                 /\ read' = [read EXCEPT ![u] = @ \cup {s \in recorded : s <= m}]
                 /\ UNCHANGED recorded

(* The reader's account is deleted and its read state with it. *)
Forget(u) == /\ read' = [read EXCEPT ![u] = {}]
             /\ UNCHANGED recorded

Next == \/ Record
        \/ \E u \in Users : MarkOne(u) \/ MarkAll(u) \/ Forget(u)

Spec == Init /\ [][Next]_vars
=============================================================================
