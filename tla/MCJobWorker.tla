---------------------------- MODULE MCJobWorker ----------------------------
(* Small instances of JobWorker for TLC.                                   *)
EXTENDS JobWorker, TLC

CONSTANTS j1, j2, w1, w2, c1, c2

WorkerSymmetry == Permutations(Workers)

\* A chat of several turns, or one turn of a parent and its delegated child on
\* one worker, which make no call.
Bounded ==
  \/ \A j \in Jobs \ RootJobs : job[j] = "none"
  \/ /\ \A j \in Jobs : last[j] <= 1 /\ \A c \in Calls : call[j][c].status = "none"
     /\ \A j \in Jobs, n \in Seqs : frame[j][n].target = None
     /\ \E w \in Workers : \A j \in Jobs, n \in Seqs : attempt[j][n].worker \in {w, None}

=============================================================================
