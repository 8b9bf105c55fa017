------------------------------- MODULE MC_Board -------------------------------
(* Three boards: one on which everything is done once or twice, the timer is  *)
(* on and the process crashes; one with three Tasks whose dependencies are    *)
(* wired and rewired; and one with a setback and a crash whose Tasks are      *)
(* carried on fairly.  Beside them a habitat is replaced by an import.  A     *)
(* behaviour is one of the part it takes, while the variables of the others   *)
(* rest.                                                                      *)
EXTENDS Board, TLC

CONSTANTS a1, a2, b1, A, B, q1, q2, q3, v1, v2

VARIABLES part, row, coord, attempts, habitat, call, changes, stops, lapses

import == <<row, coord, attempts, habitat, call, changes, stops, lapses>>

Two == a1 :> A @@ b1 :> B
Three == Two @@ a2 :> A

Wired == INSTANCE Board WITH
  Tasks <- {a1, a2, b1}, MissionOf <- Three, Unpublished <- {}, Debounce <- FALSE,
  Commands <- {"wire"}, MaxEdits <- 2, MaxSetbacks <- 0, MaxCrashes <- 0

Fair == INSTANCE Board WITH
  Unpublished <- {}, Terminal <- FALSE, Columns <- 2, Commands <- {"delete", "move"}, MaxEdits <- 1,
  MaxSetbacks <- 1

(* Three requests bring two manifests under one id.                           *)
Import == INSTANCE ImportPublication WITH
  Requests <- {q1, q2, q3}, Contents <- {v1, v2}, Imported <- {a1, b1},
  MaxChanges <- 1, MaxStops <- 1, MaxLapses <- 2

Start ==
  /\ part \in {"edited", "wired", "fair", "import"}
  /\ Import!Init /\ (part # "import" => row.mode = "new")
  /\ CASE part = "edited" -> Init [] part = "wired" -> Wired!Init [] part = "fair" -> Fair!Init [] OTHER -> Init

Step ==
  \/ part = "edited" /\ Next /\ UNCHANGED <<part, import>>
  \/ part = "wired" /\ Wired!Next /\ UNCHANGED <<part, import>>
  \/ part = "fair" /\ Fair!Next /\ UNCHANGED <<part, import>>
  \/ part = "import" /\ Import!Next /\ UNCHANGED <<part, vars>>

(* The fairness of Board, of the part whose liveness is checked.              *)
Behaviour == Start /\ [][Step]_<<part, vars, import>> /\ WF_vars(part = "fair" /\ Fair!Progress)
-----------------------------------------------------------------------------
(* Dependencies have no circle, the stored status is the derived one unless   *)
(* its recalculation is to come or was lost, and done is finished; what is    *)
(* imported is the manifest of the id, once, over what its preflight saw.     *)
HabitatAgrees ==
  CASE part = "edited" -> TypeOK /\ BoardAgrees
    [] part = "wired" -> Wired!TypeOK /\ Wired!BoardAgrees
    [] part = "fair" -> Fair!TypeOK /\ Fair!BoardAgrees
    [] OTHER -> Import!ImportAgrees

(* What can be finished is finished.                                          *)
WorkIsFinished == part = "fair" => Fair!TasksFinish
=============================================================================
