---------------------------- MODULE FrameMailbox ----------------------------
(***************************************************************************)
(* What an operator pipeline promises to the host that feeds it, without   *)
(* the queue, the threads or the locks: a mailbox in which only the newest *)
(* frame matters.  Frames are numbered in the order they are offered.      *)
(*                                                                         *)
(*   - a frame is shown at most once, and only after every frame shown     *)
(*     before it was older;                                                *)
(*   - while the mailbox is open a frame may be dropped only if a newer    *)
(*     one was offered; the newest one leaves only by being shown or by    *)
(*     being rejected by an operator;                                      *)
(*   - a closed mailbox may lose anything and shows what it still holds;   *)
(*     reopened, it is a new mailbox.                                      *)
(***************************************************************************)
EXTENDS Naturals

VARIABLES
  offered,   (* number of frames offered since the mailbox was opened      *)
  pending,   (* the frames offered and neither shown, dropped nor rejected *)
  shown,     (* the newest frame shown; 0 before the first                 *)
  rejected,  (* the frames an operator refused                             *)
  open       (* FALSE while the pipeline behind the mailbox is stopped     *)

vars == <<offered, pending, shown, rejected, open>>

Init ==
  /\ offered = 0
  /\ pending = {}
  /\ shown = 0
  /\ rejected = {}
  /\ open = TRUE

Offer ==
  /\ open
  /\ offered' = offered + 1
  /\ pending' = pending \union {offered + 1}
  /\ UNCHANGED <<shown, rejected, open>>

Show(f) ==
  /\ f \in pending
  /\ f > shown
  /\ shown' = f
  /\ pending' = pending \ {f}
  /\ UNCHANGED <<offered, rejected, open>>

(* Only a superseded frame may be dropped.                                 *)
Drop(f) ==
  /\ f \in pending
  /\ f < offered
  /\ pending' = pending \ {f}
  /\ UNCHANGED <<offered, shown, rejected, open>>

Reject(f) ==
  /\ f \in pending
  /\ pending' = pending \ {f}
  /\ rejected' = rejected \union {f}
  /\ UNCHANGED <<offered, shown, open>>

Close ==
  /\ open
  /\ open' = FALSE
  /\ UNCHANGED <<offered, pending, shown, rejected>>

Discard(lost) ==
  /\ ~open
  /\ lost \subseteq pending
  /\ pending' = pending \ lost
  /\ UNCHANGED <<offered, shown, rejected, open>>

Reopen ==
  /\ ~open
  /\ offered' = 0
  /\ pending' = {}
  /\ shown' = 0
  /\ rejected' = {}
  /\ open' = TRUE

Next ==
  \/ Offer
  \/ Close
  \/ Reopen
  \/ \E f \in pending : Show(f) \/ Drop(f) \/ Reject(f)
  \/ \E lost \in SUBSET pending : Discard(lost)

Spec == Init /\ [][Next]_vars
=============================================================================
