----------------------------- MODULE FilterUpdate -----------------------------
(***************************************************************************)
(* The iterated update of FAST-LIO's filter with one scan: the samples of  *)
(* the IMU have predicted the state, and every turn of the loop matches    *)
(* the points of the scan with planes of the map and corrects the state.   *)
(* The planes are searched again only when the last correction was small.  *)
(*                                                                         *)
(* The state is the number of corrections it has seen since it was         *)
(* predicted, the covariance the way it was computed last.                 *)
(***************************************************************************)
EXTENDS Integers, FiniteSets

CONSTANTS
  ScanPoints,       \* feats_down_body, the points of a scan
  maximum_iter      \* NUM_MAX_ITERATIONS

ASSUME UpdateAssumption == IsFiniteSet(ScanPoints) /\ maximum_iter \in Nat

VARIABLES
  updating,               \* the loop runs
  i, t,                   \* its counter, from -1, and the small corrections
  converge,               \* dyn_share.converge
  point_selected_surf,    \* the points that have a plane
  x_, P_,
  Nearest_Points,         \* the state for which the planes were searched
  emptied                 \* history: turns of the loop that found no point

updateVars == <<updating, i, t, converge, point_selected_surf, x_, P_, Nearest_Points, emptied>>

-----------------------------------------------------------------------------
(* h_share_model *)

\* A search finds planes for any of the points; without it the planes of before are
\* tried, and a point that fails stays out until the next search.
Searched ==
  IF converge THEN point_selected_surf' \in SUBSET ScanPoints /\ Nearest_Points' = x_
  ELSE point_selected_surf' \in SUBSET point_selected_surf /\ UNCHANGED Nearest_Points

h_share_model == Searched

valid == point_selected_surf' # {}

-----------------------------------------------------------------------------
(* update_iterated_dyn_share_modified *)

BeginUpdate ==
  /\ ~updating
  /\ updating' = TRUE
  /\ i' = -1 /\ t' = 0 /\ converge' = TRUE
  /\ emptied' = 0
  /\ UNCHANGED <<point_selected_surf, Nearest_Points>>

\* The samples of the IMU before the scan, then the update with it.
predict ==
  /\ BeginUpdate
  /\ x_' = 0 /\ P_' = "propagated"

\* continue: also in the last turn, which is then never closed.
NoEffectivePoints ==
  /\ ~valid
  /\ i' = i + 1
  /\ updating' = (i' < maximum_iter)
  /\ emptied' = emptied + 1
  /\ UNCHANGED <<t, converge, x_, P_>>

\* Faulty: the search before the last turn is not forced.
Faulty_Converge(small) == small

\* The planes are searched again before the last turn when no correction was small yet.
Converge(small) == small \/ (t + (IF small THEN 1 ELSE 0) = 0 /\ i = maximum_iter - 2)

\* The covariance starts over from the propagated one in every turn, in the tangent
\* space of the state of the moment, and takes in the scan only in the turn that closes
\* the update.
Transported == "transported"
ScanTakenIn == "updated"

Correction(small) ==
  LET closing == t' > 1 \/ i = maximum_iter - 1 IN
  /\ valid
  /\ x_' = x_ + 1
  /\ t' = t + (IF small THEN 1 ELSE 0)
  /\ converge' = Converge(small)
  /\ P_' = IF closing THEN ScanTakenIn ELSE Transported
  /\ i' = i + 1
  /\ updating' = ~closing
  /\ UNCHANGED emptied

LoopTurn ==
  /\ updating
  /\ h_share_model
  /\ NoEffectivePoints \/ \E small \in BOOLEAN : Correction(small)

-----------------------------------------------------------------------------

\* init_dyn_share.
UpdateInit ==
  /\ updating = FALSE /\ i = -1 /\ t = 0 /\ converge = TRUE
  /\ point_selected_surf = ScanPoints
  /\ x_ = 0 /\ P_ = "identity"
  /\ Nearest_Points = 0
  /\ emptied = 0

UpdateNext == predict \/ LoopTurn

UpdateSpec == UpdateInit /\ [][UpdateNext]_updateVars

-----------------------------------------------------------------------------
(* Properties *)

\* The covariance takes in a scan only through planes that were searched after a
\* correction, never through those of the predicted pose alone, as long as every turn
\* had a point; and a scan that moved the state without being taken in had none left
\* in the last turn (esekfom.hpp:1638-1641 and :1829-1834).
FreshMatches ==
  ~updating /\ maximum_iter > 0 =>
    /\ P_ = ScanTakenIn /\ emptied = 0 => Nearest_Points > 0
    /\ P_ = Transported => point_selected_surf = {}
=============================================================================
