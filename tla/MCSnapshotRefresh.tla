------------------------- MODULE MCSnapshotRefresh -------------------------
(* Values for the constants of SnapshotRefresh that a configuration file   *)
(* cannot write.                                                           *)
EXTENDS SnapshotRefresh, TLC

CONSTANT Cron   \* the calls that one process of wp-cron.php makes

\* Every other call is made by a request of its own.
ProcessOf == [c \in Call |-> IF c \in Cron THEN "wp-cron" ELSE c]
Process == {ProcessOf[c] : c \in Call}

\* WordPress's default: an array that lives as long as the request.
OwnCacheId == Process
OwnCache == [r \in Process |-> r]

\* A persistent object-cache drop-in.
SharedCacheId == {"memcached"}
SharedCache == [r \in Process |-> "memcached"]

\* Runs differ by the process they share, or do not.
Symmetry == {f @@ g @@ h : f \in Permutations(Worker \cap Cron), g \in Permutations(Worker \ Cron),
                           h \in Permutations(Origin)}
=============================================================================
