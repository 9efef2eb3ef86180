--------------------------- MODULE MCJobAttempts ---------------------------
(* Small instances of JobAttempts for TLC.                                 *)
EXTENDS JobAttempts, TLC

CONSTANTS j1, j2, w1, w2, c1, c2

WorkerSymmetry == Permutations(Workers)

\* Two turns of a chat with two workers and both calls, three with one worker
\* and without c2, or two chats of one turn with one worker and no call, one of
\* which may be a child of the other.
OneChat ==
  /\ job[j2] = "none"
  /\ last[j1] <= 2 \/ /\ call[j1][c2].status = "none"
                      /\ \E w \in Workers : \A n \in Seqs : attempt[j1][n].worker \in {w, None}
TwoChats ==
  /\ last[j1] = 1 /\ last[j2] = 1
  /\ \A j \in Jobs, c \in Calls : call[j][c].status = "none"
  /\ \E w \in Workers : \A j \in Jobs, n \in Seqs : attempt[j][n].worker \in {w, None}
Bounded == OneChat \/ TwoChats

=============================================================================
