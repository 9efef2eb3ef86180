----------------------------- MODULE PersonaPages -----------------------------
(***************************************************************************)
(* What belongs to one persona, and the pages on which its owner manages   *)
(* it: the facts and notes it keeps, its charter and tools, its routines.  *)
(* The four parts share no state here; each property takes the parts that  *)
(* make one promise together.                                              *)
(***************************************************************************)
EXTENDS PersonaMemory, PersonaWorkspace, RoutinePanel, LoopNotes

(* What a persona was told it keeps is what it keeps: its facts            *)
(* (persona-memory-repo.ts) and its notes (builtin.ts).                    *)
MemoryIsAsTold == LiveFactsAreTold /\ NotesAreKept

(* What the pages on which a persona, its routines and its memory are      *)
(* managed tell (persona-tools-section.tsx, persona-side-panel.tsx).       *)
WorkspaceTellsTheRows == PersonaPageTellsTheRow /\ RoutinePanelTellsTheRow /\ PanelForgetsTheRows

=============================================================================
