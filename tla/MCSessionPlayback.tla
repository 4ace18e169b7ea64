------------------------- MODULE MCSessionPlayback -------------------------
(* SessionPlayback for TLC: the records of the instances, which a .cfg     *)
(* cannot write.                                                           *)
EXTENDS SessionPlayback

(* A device that loops all but its first frame, and one that plays once.   *)
Trimmed == [in |-> 1, out |-> -1, looping |-> TRUE]
Once == [in |-> 0, out |-> -1, looping |-> FALSE]
MCRanges == {Trimmed, Once}
Whole == [in |-> 0, out |-> -1, looping |-> TRUE]
OneRange == {Whole}

MCRegions == {[in |-> 1, out |-> -1], [in |-> 2, out |-> 1]}
NoRegions == {}

MCPositions == {-1, 2}

DefaultTimeline == [looping |-> TRUE, start |-> 0, current |-> 0, end |-> -1,
                    length |-> -1]
Cut == [looping |-> TRUE, start |-> 0, current |-> 1, end |-> -1,
        length |-> 2]
Default == {DefaultTimeline}
MCTimelines == {DefaultTimeline, Cut}
=============================================================================
