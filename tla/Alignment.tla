----------------------------- MODULE Alignment -----------------------------
(***************************************************************************)
(* The alignment window: two devices are frozen in a snapshot, pairs of    *)
(* points are picked in it, a transform that maps the second device on the *)
(* first is computed from the pairs, refined in the background and applied *)
(* to the second device. A placement is how far a device is from where the *)
(* scene has its origin, along a line and in millimetres; a transform is   *)
(* a movement along it. The 3D view counts in centimetres.                 *)
(***************************************************************************)
EXTENDS Integers

CONSTANTS
  Placements,    \* where the second device may be, in mm, a multiple of ten
  PickErrors,    \* how far picked pairs may be off, in mm, a multiple of ten
  MaxPairs,      \* bound: pairs picked, at least 3
  MaxSnapshots,  \* bound: snapshots
  MaxPlacings    \* bound: transforms applied and devices moved

ASSUME AlignmentAssumption ==
  /\ \A p \in Placements : p \in Int /\ p % 10 = 0
  /\ \A e \in PickErrors : e \in Nat /\ e % 10 = 0

VARIABLES
  placed,      \* transform of the second device; the first stays at 0
  mode,        \* windowState.mode
  picks,       \* windowState.pairs and pendingPrimaryPick: [pairs, pending]
  snapshots,
  snapshot,    \* where the frozen second device was
  result,      \* _hasResult and _rawTransform, in cm, or <<>>
  refinement,  \* the refinement under way, with what it was given, or <<>>
  placings,
  untouched,   \* history: the second device is where it was frozen
  applied      \* history: the result that placed the device where it is, or <<>>

alignmentVars == <<placed, mode, picks, snapshots, snapshot, result, refinement, placings,
                   untouched, applied>>

AlignmentInit ==
  /\ placed \in Placements /\ snapshot = 0 /\ snapshots = 0
  /\ mode = "snapshot" /\ picks = [pairs |-> 0, pending |-> FALSE]
  /\ result = <<>> /\ refinement = <<>>
  /\ placings = 0 /\ untouched = FALSE /\ applied = <<>>

deviceAndResult == <<placed, snapshots, snapshot, result, refinement, placings, untouched, applied>>

Size(n) == IF n < 0 THEN -n ELSE n

-----------------------------------------------------------------------------
(* snapshotClouds, and on to picking.                                        *)
SnapshotClouds ==
  /\ mode = "snapshot" /\ snapshots < MaxSnapshots
  /\ snapshots' = snapshots + 1 /\ snapshot' = placed /\ mode' = "picking"
  /\ untouched' = TRUE
  /\ UNCHANGED <<placed, picks, result, refinement, placings, applied>>

(* Points are picked in turn, first of the first device, then of the second. *)
PickPrimary ==
  /\ mode = "picking" /\ ~picks.pending /\ picks.pairs < MaxPairs
  /\ picks' = [picks EXCEPT !.pending = TRUE]
  /\ UNCHANGED <<mode, deviceAndResult>>
PickSecondary ==
  /\ mode = "picking" /\ picks.pending
  /\ picks' = [pairs |-> picks.pairs + 1, pending |-> FALSE]
  /\ UNCHANGED <<mode, deviceAndResult>>
UndoLastPick ==
  /\ mode = "picking" /\ (picks.pending \/ picks.pairs > 0)
  /\ picks' = IF picks.pending THEN [picks EXCEPT !.pending = FALSE]
              ELSE [pairs |-> picks.pairs - 1, pending |-> TRUE]
  /\ UNCHANGED <<mode, deviceAndResult>>

(* The window starts over, the result and a refinement under way stay.       *)
ResetAlignment ==
  /\ mode = "picking"
  /\ mode' = "snapshot" /\ picks' = [pairs |-> 0, pending |-> FALSE]
  /\ UNCHANGED deviceAndResult

(* computeFromPairs, of points picked in the view and so in centimetres.     *)
ComputeFromPairs(error) ==
  /\ mode = "picking" /\ picks.pairs >= 3
  /\ result' = <<[move |-> (error - snapshot) \div 10, of |-> snapshots, off |-> error]>>
  /\ mode' = "refinement"
  /\ UNCHANGED <<placed, picks, snapshots, snapshot, refinement, placings, untouched, applied>>

BackToPicking ==
  /\ mode = "refinement" /\ mode' = "picking"
  /\ UNCHANGED <<picks, deviceAndResult>>

-----------------------------------------------------------------------------
(* refine: the clouds, which count in millimetres, are handed to a task.     *)
Refine ==
  /\ mode = "refinement" /\ result # <<>> /\ refinement = <<>>
  /\ refinement' = <<[guess |-> result[1].move * 10, source |-> snapshot, of |-> snapshots]>>
  /\ UNCHANGED <<placed, mode, picks, snapshots, snapshot, result, placings, untouched, applied>>

(* refine_alignment moves the source exactly on its target when it converges.*)
RefineAlignment(task) == - task.source

(* Slip: the refined transform is left in millimetres.                       *)
InMillimetres(transform) == transform

InSceneUnits(transform) == transform \div 10

(* The watcher's slot on the user interface's thread, whatever the window    *)
(* has been used for meanwhile. A refinement that does not converge, or      *)
(* throws, changes nothing.                                                  *)
RefinementFinished ==
  /\ refinement # <<>> /\ refinement' = <<>>
  /\ \/ result' = <<[move |-> InSceneUnits(RefineAlignment(refinement[1])),
                     of |-> refinement[1].of, off |-> 0]>>
     \/ UNCHANGED result
  /\ UNCHANGED <<placed, mode, picks, snapshots, snapshot, placings, untouched, applied>>

(* The result is a movement from where the device was frozen, and is put on  *)
(* top of where the device is now. A group that cannot be inverted refuses.  *)
ApplyResult ==
  /\ mode = "refinement" /\ result # <<>> /\ placings < MaxPlacings
  /\ placings' = placings + 1
  /\ placed' = placed + result[1].move * 10
  /\ applied' = IF untouched /\ result[1].of = snapshots THEN result ELSE <<>>
  /\ untouched' = FALSE
  /\ UNCHANGED <<mode, picks, snapshots, snapshot, result, refinement>>

(* The second device, or its group, is moved by hand, or its transform       *)
(* undone.                                                                   *)
MoveDevice(to) ==
  /\ placings < MaxPlacings /\ placings' = placings + 1
  /\ to # placed /\ placed' = to
  /\ untouched' = FALSE /\ applied' = <<>>
  /\ UNCHANGED <<mode, picks, snapshots, snapshot, result, refinement>>

AlignmentNext ==
  \/ SnapshotClouds \/ PickPrimary \/ PickSecondary \/ UndoLastPick \/ ResetAlignment
  \/ \E e \in PickErrors : ComputeFromPairs(e)
  \/ BackToPicking \/ Refine \/ RefinementFinished \/ ApplyResult
  \/ \E to \in Placements : MoveDevice(to)

AlignmentSpec == AlignmentInit /\ [][AlignmentNext]_alignmentVars

-----------------------------------------------------------------------------
(* PROPERTIES                                                                *)

(* Applying a result puts the second device on the first: exactly after a    *)
(* refinement and up to the error of the picks before, across the window's   *)
(* way back and forth and with the refinement counting in other units than   *)
(* the window. It is so only of a result of the clouds frozen last, applied  *)
(* to a device that is still where it was frozen: applied twice it moves the *)
(* device twice, and a refinement of an older snapshot that ends late takes  *)
(* the place of a newer result.                                              *)
AppliedAligns == applied # <<>> => Size(placed) <= applied[1].off
=============================================================================
