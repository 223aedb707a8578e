------------------------ MODULE DatasetPublication ------------------------
(***************************************************************************)
(* What COPY ... TO root (FORMAT lerobot) promises its user: the dataset   *)
(* root appears at once, with every episode the query delivered and        *)
(* nothing else, or it does not appear at all.  A COPY does not begin on a *)
(* root that is there, and a root that somebody else puts there meanwhile  *)
(* is never touched, unless it is an empty directory, which is replaced.   *)
(***************************************************************************)
EXTENDS Integers, Sequences

CONSTANTS Episode     \* what a reader finds in one episode

VARIABLES
    delivered,        \* the complete episodes of the query's result so far
    root,             \* what is at the dataset root, and the episodes a reader finds there
    outcome           \* "starting", "running", "done" or "failed"

vars == <<delivered, root, outcome>>

Absent == [holds |-> "absent", episodes |-> <<>>]
Empty == [holds |-> "empty", episodes |-> <<>>]
Foreign == [holds |-> "foreign", episodes |-> <<>>]
Published(episodes) == [holds |-> "ours", episodes |-> episodes]

Init ==
    /\ delivered = <<>>
    /\ root \in {Absent, Empty, Foreign}
    /\ outcome = "starting"

Begin ==
    /\ outcome = "starting" /\ root = Absent
    /\ outcome' = "running"
    /\ UNCHANGED <<delivered, root>>

Deliver ==
    /\ outcome = "running"
    /\ Len(delivered') = Len(delivered) + 1
    /\ SubSeq(delivered', 1, Len(delivered)) = delivered
    /\ delivered'[Len(delivered')] \in Episode
    /\ UNCHANGED <<root, outcome>>

Publish ==
    /\ outcome = "running" /\ root \in {Absent, Empty}
    /\ root' = Published(delivered) /\ outcome' = "done"
    /\ UNCHANGED delivered

Fail ==
    /\ outcome \in {"starting", "running"}
    /\ outcome' = "failed"
    /\ UNCHANGED <<delivered, root>>

OtherPublishes ==
    /\ root \in {Absent, Empty} /\ root' = Foreign
    /\ UNCHANGED <<delivered, outcome>>

OtherCreates ==
    /\ root = Absent /\ root' = Empty
    /\ UNCHANGED <<delivered, outcome>>

Next == Begin \/ Deliver \/ Publish \/ Fail \/ OtherPublishes \/ OtherCreates

Spec == Init /\ [][Next]_vars
=============================================================================
