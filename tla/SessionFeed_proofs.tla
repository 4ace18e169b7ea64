------------------------- MODULE SessionFeed_proofs -------------------------
(***************************************************************************)
(* Proofs about SessionFeed, for any number of devices, lists of devices   *)
(* and workers.                                                            *)
(***************************************************************************)
EXTENDS SessionFeed, FiniteSetTheorems, TLAPS

(* The frame fed last is made of last_clouds, unless a rebuild has lost it *)
(* and the clouds are still to be fed again.                               *)
FedInv ==
  /\ loop.at = "feed" => Clouds(loop.last) # {}
  /\ loop.at \in {"empty", "clearRender", "clearNotify"} => Clouds(loop.last) = {}
  /\ \A f \in Frames : payload[f].ops <= ops
  /\ /\ Clouds(loop.last) # {} /\ loop.at # "feed"
     /\ ui.at \notin {"rebuild", "reprocess"} /\ ~force
     => /\ cleared < offered
        /\ payload[offered].clouds = Clouds(loop.last)
        /\ payload[offered].ops = ops

(* A running pipeline has the newest frame, or it was shown or refused.    *)
KeptInv ==
  open /\ offered > 0 => offered \in pending \union rejected \/ shown = offered

(* What a call of on_pipeline_output carries comes from the frame it is of. *)
Carries(out, f) ==
  /\ out.clouds = payload[f].clouds
  /\ payload[f].ops <= out.ops
  /\ out.ops <= ops

PublishedInv ==
  \A p \in publishing : p.seq <= shown /\ Carries(p.out, p.seq)

(* The frame that won the gate last is stored, unless it is still to be,   *)
(* or was overtaken.                                                       *)
StoredInv ==
  /\ shown > cleared
  /\ "cloud" \notin late
  /\ \A p \in publishing : p.seq = shown => p.at = "notify"
  => Carries(current, shown)

(* A session that nothing feeds has no cloud but an overtaken one.         *)
ClearedInv ==
  Clouds(loop.last) = {} /\ loop.at # "empty" =>
    cleared = offered /\ (current = None \/ "cloud" \in late)

IInv ==
  /\ TypeOK
  /\ IsFiniteSet(publishing)
  /\ FedInv
  /\ KeptInv
  /\ PublishedInv
  /\ StoredInv
  /\ ClearedInv

(* Replacing an element of a finite set adds none.                         *)
LEMMA Replaced ==
  ASSUME NEW S, IsFiniteSet(S), NEW x \in S, NEW y
  PROVE  /\ IsFiniteSet((S \ {x}) \union {y})
         /\ Cardinality((S \ {x}) \union {y}) \in Nat
         /\ Cardinality((S \ {x}) \union {y}) <= Cardinality(S)
<1>1. /\ IsFiniteSet(S \ {x})
      /\ Cardinality(S \ {x}) = Cardinality(S) - 1
  BY FS_RemoveElement
<1>2. Cardinality(S) \in Nat /\ Cardinality(S \ {x}) \in Nat
  BY <1>1, FS_CardinalityType
<1>3. /\ IsFiniteSet((S \ {x}) \union {y})
      /\ Cardinality((S \ {x}) \union {y}) =
           IF y \in S \ {x} THEN Cardinality(S \ {x})
           ELSE Cardinality(S \ {x}) + 1
  BY <1>1, FS_AddElement
<1>4. QED
  BY <1>1, <1>2, <1>3

(* What Append adds to a sequence, and where.                              *)
LEMMA Appended ==
  ASSUME NEW S, NEW s \in Seq(S), NEW e \in S
  PROVE  /\ Append(s, e) \in Seq(S) /\ Len(Append(s, e)) = Len(s) + 1
         /\ Len(s) \in Nat
         /\ Append(s, e)[Len(s) + 1] = e
         /\ \A i \in 1 .. Len(s) : Append(s, e)[i] = s[i]
  OBVIOUS

(* The elements of a sequence are typed.                                   *)
LEMMA ElementsTyped ==
  ASSUME NEW S, NEW s \in Seq(S)
  PROVE  Len(s) \in Nat /\ \A i \in 1 .. Len(s) : s[i] \in S
  OBVIOUS

(* The clouds of a list are a set of clouds.                               *)
LEMMA CloudsType ==
  ASSUME NEW list \in Seq(Nat)
  PROVE  Clouds(list) \in SUBSET Nat
  BY DEF Clouds

(* What the payload of one more frame is.                                  *)
LEMMA FeedPayload ==
  ASSUME LoopType, MailboxType, PayloadType, Feed
  PROVE  /\ payload' \in Seq([clouds : SUBSET Nat, ops : Nat])
         /\ offered' = offered + 1 /\ Len(payload') = offered'
         /\ payload'[offered'] = [clouds |-> Clouds(loop.last), ops |-> ops]
         /\ \A f \in Frames : payload'[f] = payload[f]
<1> DEFINE Made == [clouds : SUBSET Nat, ops : Nat]
<1>1. offered' = offered + 1 /\ offered \in Nat
  BY DEF Feed, Mailbox!Offer, MailboxType
<1>2. PICK made \in Made : made = [clouds |-> Clouds(loop.last), ops |-> ops]
  <2>1. Clouds(loop.last) \in SUBSET Nat
    BY CloudsType DEF LoopType
  <2>2. QED
    BY <2>1 DEF PayloadType
<1>3. payload' = Append(payload, made) /\ payload \in Seq(Made) /\ Len(payload) = offered
  BY <1>2 DEF Feed, PayloadType
<1> HIDE DEF Made
<1>4. /\ payload' \in Seq(Made) /\ Len(payload') = Len(payload) + 1
      /\ payload'[Len(payload) + 1] = made
      /\ \A i \in 1 .. Len(payload) : payload'[i] = payload[i]
  BY ONLY <1>2, <1>3, Appended
<1>5. QED
  BY <1>1, <1>2, <1>3, <1>4 DEF Made, Frames

(* The end of an iteration leaves last_clouds.                             *)
LEMMA IterationType ==
  ASSUME LoopType, NextIteration, force' \in BOOLEAN
  PROVE  LoopType'
<1>1. PICK none : none = << >>
  OBVIOUS
<1>2. none \in Seq(Devices) /\ none \in Seq(Nat)
  BY <1>1
<1>3. loop' = [loop EXCEPT !.at = "collect", !.devices = none, !.clouds = none]
  BY <1>1 DEF NextIteration
<1>4. QED
  BY <1>2, <1>3 DEF LoopType

(* One step keeps the types of the devices ...                             *)
LEMMA DevicesStep ==
  ASSUME DevicesType, [Next]_vars
  PROVE  DevicesType'
<1> USE FeedAssumption DEF DevicesType,
       deviceVars, editVars, historyVars, sessionVars, mailboxVars
<1>1. CASE ChangeMembership
  BY <1>1 DEF ChangeMembership
<1>2. ASSUME NEW d \in Devices, NewCloud(d)
     PROVE  DevicesType'
  BY <1>2 DEF NewCloud
<1>3. ASSUME NEW d \in Devices, NoCloud(d)
     PROVE  DevicesType'
  BY <1>3 DEF NoCloud
<1>4. CASE Collect
  BY <1>4 DEF Collect
<1>5. CASE ReadCloud
  BY <1>5 DEF ReadCloud
<1>6. CASE TakeClouds
  BY <1>6 DEF TakeClouds
<1>7. CASE FindUnchanged
  BY <1>7 DEF FindUnchanged
<1>8. CASE Feed
  BY <1>8 DEF Feed, Mailbox!Offer
<1>9. CASE FindCleared
  BY <1>9 DEF FindCleared
<1>10. CASE ClearCloud
  BY <1>10 DEF ClearCloud
<1>11. CASE ClearRender
  BY <1>11 DEF ClearRender
<1>12. CASE ClearNotify
  BY <1>12 DEF ClearNotify
<1>13. ASSUME NEW f \in pending, Publish(f)
     PROVE  DevicesType'
  BY <1>13 DEF Publish, Mailbox!Show
<1>14. ASSUME NEW f \in pending, Supersede(f)
     PROVE  DevicesType'
  BY <1>14 DEF Supersede, Mailbox!Drop
<1>15. ASSUME NEW f \in pending, RejectFrame(f)
     PROVE  DevicesType'
  BY <1>15 DEF RejectFrame, Mailbox!Reject
<1>16. CASE LoseFrames
  BY <1>16 DEF LoseFrames, Mailbox!Discard
<1>17. ASSUME NEW p \in publishing, StoreRender(p)
     PROVE  DevicesType'
  BY <1>17 DEF StoreRender
<1>18. ASSUME NEW p \in publishing, StoreCloud(p)
     PROVE  DevicesType'
  BY <1>18 DEF StoreCloud
<1>19. ASSUME NEW p \in publishing, Notify(p)
     PROVE  DevicesType'
  BY <1>19 DEF Notify
<1>20. CASE BeginDraw
  BY <1>20 DEF BeginDraw
<1>21. CASE DrawCloud
  BY <1>21 DEF DrawCloud
<1>22. CASE DrawRender
  BY <1>22 DEF DrawRender
<1>23. CASE EditOperator
  BY <1>23 DEF EditOperator
<1>24. CASE BeginRebuild
  BY <1>24 DEF BeginRebuild, Mailbox!Close
<1>25. CASE EndRebuild
  BY <1>25 DEF EndRebuild, Mailbox!Reopen
<1>26. CASE Reprocess
  BY <1>26 DEF Reprocess
<1>27. CASE UNCHANGED vars
  BY <1>27 DEF vars
<1>28. QED
  BY <1>1, <1>2, <1>3, <1>4, <1>5, <1>6, <1>7, <1>8, <1>9, <1>10, <1>11,
     <1>12, <1>13, <1>14, <1>15, <1>16, <1>17, <1>18, <1>19, <1>20,
     <1>21, <1>22, <1>23, <1>24, <1>25, <1>26, <1>27
     DEF Next, DeviceStep, LoopStep, HandleFrame, OutputStep, DrawStep,
     EditStep

(* ... of the update loop ...                                              *)
LEMMA LoopStepTypes ==
  ASSUME DevicesType, LoopType, [Next]_vars
  PROVE  LoopType'
<1> USE FeedAssumption DEF DevicesType, LoopType,
       deviceVars, editVars, historyVars, sessionVars, mailboxVars
<1>1. CASE ChangeMembership
  BY <1>1 DEF ChangeMembership
<1>2. ASSUME NEW d \in Devices, NewCloud(d)
     PROVE  LoopType'
  BY <1>2 DEF NewCloud
<1>3. ASSUME NEW d \in Devices, NoCloud(d)
     PROVE  LoopType'
  BY <1>3 DEF NoCloud
<1>4. CASE Collect
  <2>1. members \in Seq(Devices)
    OBVIOUS
  <2>2. loop' = [loop EXCEPT !.at = "read", !.devices = members] /\ force' = force
    BY <1>4 DEF Collect
  <2>3. QED
    BY <2>1, <2>2
<1>5. CASE ReadCloud
  <2>1. loop.devices[Len(loop.clouds) + 1] \in Devices
    BY <1>5 DEF ReadCloud
  <2>2. PICK c \in Nat : c = cloud[loop.devices[Len(loop.clouds) + 1]]
    BY <2>1
  <2>3. PICK read \in Seq(Nat) : read = Append(loop.clouds, c)
    <3>1. loop.clouds \in Seq(Nat)
      OBVIOUS
    <3>2. Append(loop.clouds, c) \in Seq(Nat)
      BY ONLY <2>2, <3>1, Appended
    <3>3. QED
      BY ONLY <3>2, Zenon
  <2>4. loop' = [loop EXCEPT !.clouds = read] /\ force' = force
    BY <1>5, <2>2, <2>3 DEF ReadCloud
  <2>5. QED
    BY <2>4
<1>6. CASE TakeClouds
  BY <1>6 DEF TakeClouds
<1>7. CASE FindUnchanged
  <2>1. NextIteration /\ force' = force
    BY <1>7 DEF FindUnchanged
  <2>2. QED
    BY <2>1, IterationType DEF LoopType
<1>8. CASE Feed
  <2>1. NextIteration /\ force' = force
    BY <1>8 DEF Feed, Mailbox!Offer
  <2>2. QED
    BY <2>1, IterationType DEF LoopType
<1>9. CASE FindCleared
  <2>1. NextIteration /\ force' = force
    BY <1>9 DEF FindCleared
  <2>2. QED
    BY <2>1, IterationType DEF LoopType
<1>10. CASE ClearCloud
  BY <1>10 DEF ClearCloud
<1>11. CASE ClearRender
  BY <1>11 DEF ClearRender
<1>12. CASE ClearNotify
  <2>1. NextIteration /\ force' = force
    BY <1>12 DEF ClearNotify
  <2>2. QED
    BY <2>1, IterationType DEF LoopType
<1>13. ASSUME NEW f \in pending, Publish(f)
     PROVE  LoopType'
  BY <1>13 DEF Publish, Mailbox!Show
<1>14. ASSUME NEW f \in pending, Supersede(f)
     PROVE  LoopType'
  BY <1>14 DEF Supersede, Mailbox!Drop
<1>15. ASSUME NEW f \in pending, RejectFrame(f)
     PROVE  LoopType'
  BY <1>15 DEF RejectFrame, Mailbox!Reject
<1>16. CASE LoseFrames
  BY <1>16 DEF LoseFrames, Mailbox!Discard
<1>17. ASSUME NEW p \in publishing, StoreRender(p)
     PROVE  LoopType'
  BY <1>17 DEF StoreRender
<1>18. ASSUME NEW p \in publishing, StoreCloud(p)
     PROVE  LoopType'
  BY <1>18 DEF StoreCloud
<1>19. ASSUME NEW p \in publishing, Notify(p)
     PROVE  LoopType'
  BY <1>19 DEF Notify
<1>20. CASE BeginDraw
  BY <1>20 DEF BeginDraw
<1>21. CASE DrawCloud
  BY <1>21 DEF DrawCloud
<1>22. CASE DrawRender
  BY <1>22 DEF DrawRender
<1>23. CASE EditOperator
  BY <1>23 DEF EditOperator
<1>24. CASE BeginRebuild
  BY <1>24 DEF BeginRebuild, Mailbox!Close
<1>25. CASE EndRebuild
  BY <1>25 DEF EndRebuild, Mailbox!Reopen
<1>26. CASE Reprocess
  BY <1>26 DEF Reprocess
<1>27. CASE UNCHANGED vars
  BY <1>27 DEF vars
<1>28. QED
  BY <1>1, <1>2, <1>3, <1>4, <1>5, <1>6, <1>7, <1>8, <1>9, <1>10, <1>11,
     <1>12, <1>13, <1>14, <1>15, <1>16, <1>17, <1>18, <1>19, <1>20,
     <1>21, <1>22, <1>23, <1>24, <1>25, <1>26, <1>27
     DEF Next, DeviceStep, LoopStep, HandleFrame, OutputStep, DrawStep,
     EditStep

(* ... of the mailbox ...                                                  *)
LEMMA MailboxStep ==
  ASSUME MailboxType, StoresType, [Next]_vars
  PROVE  MailboxType'
<1> USE FeedAssumption DEF MailboxType, StoresType, Frames,
       deviceVars, editVars, historyVars, sessionVars, mailboxVars
<1>1. CASE ChangeMembership
  BY <1>1 DEF ChangeMembership
<1>2. ASSUME NEW d \in Devices, NewCloud(d)
     PROVE  MailboxType'
  BY <1>2 DEF NewCloud
<1>3. ASSUME NEW d \in Devices, NoCloud(d)
     PROVE  MailboxType'
  BY <1>3 DEF NoCloud
<1>4. CASE Collect
  BY <1>4 DEF Collect
<1>5. CASE ReadCloud
  BY <1>5 DEF ReadCloud
<1>6. CASE TakeClouds
  BY <1>6 DEF TakeClouds
<1>7. CASE FindUnchanged
  BY <1>7 DEF FindUnchanged
<1>8. CASE Feed
  <2>1. /\ offered' = offered + 1 /\ pending' = pending \union {offered + 1}
        /\ rejected' = rejected /\ shown' = shown /\ cleared' = cleared
        /\ open' = open /\ ui' = ui
    BY <1>8 DEF Feed, Mailbox!Offer
  <2>2. QED
    BY <2>1
<1>9. CASE FindCleared
  BY <1>9 DEF FindCleared
<1>10. CASE ClearCloud
  BY <1>10 DEF ClearCloud
<1>11. CASE ClearRender
  BY <1>11 DEF ClearRender
<1>12. CASE ClearNotify
  BY <1>12 DEF ClearNotify
<1>13. ASSUME NEW f \in pending, Publish(f)
     PROVE  MailboxType'
  BY <1>13 DEF Publish, Mailbox!Show
<1>14. ASSUME NEW f \in pending, Supersede(f)
     PROVE  MailboxType'
  BY <1>14 DEF Supersede, Mailbox!Drop
<1>15. ASSUME NEW f \in pending, RejectFrame(f)
     PROVE  MailboxType'
  BY <1>15 DEF RejectFrame, Mailbox!Reject
<1>16. CASE LoseFrames
  BY <1>16 DEF LoseFrames, Mailbox!Discard
<1>17. ASSUME NEW p \in publishing, StoreRender(p)
     PROVE  MailboxType'
  BY <1>17 DEF StoreRender
<1>18. ASSUME NEW p \in publishing, StoreCloud(p)
     PROVE  MailboxType'
  BY <1>18 DEF StoreCloud
<1>19. ASSUME NEW p \in publishing, Notify(p)
     PROVE  MailboxType'
  BY <1>19 DEF Notify
<1>20. CASE BeginDraw
  BY <1>20 DEF BeginDraw
<1>21. CASE DrawCloud
  BY <1>21 DEF DrawCloud
<1>22. CASE DrawRender
  BY <1>22 DEF DrawRender
<1>23. CASE EditOperator
  BY <1>23 DEF EditOperator
<1>24. CASE BeginRebuild
  BY <1>24 DEF BeginRebuild, Mailbox!Close
<1>25. CASE EndRebuild
  <2>1. ui' = [ui EXCEPT !.at = "reprocess"]
    BY <1>25 DEF EndRebuild
  <2>2. ui'.at = "reprocess"
    BY <2>1
  <2>3. /\ offered' = 0 /\ pending' = {} /\ rejected' = {} /\ shown' = 0
        /\ cleared' = 0 /\ open' = TRUE
    BY <1>25 DEF EndRebuild, Mailbox!Reopen
  <2>4. open' = (ui'.at # "rebuild")
    BY ONLY <2>2, <2>3
  <2>5. /\ offered' \in Nat /\ shown' \in 0 .. offered' /\ cleared' \in 0 .. offered'
    BY ONLY <2>3
  <2>6. QED
    BY <2>3, <2>4, <2>5
<1>26. CASE Reprocess
  BY <1>26 DEF Reprocess
<1>27. CASE UNCHANGED vars
  BY <1>27 DEF vars
<1>28. QED
  BY <1>1, <1>2, <1>3, <1>4, <1>5, <1>6, <1>7, <1>8, <1>9, <1>10, <1>11,
     <1>12, <1>13, <1>14, <1>15, <1>16, <1>17, <1>18, <1>19, <1>20,
     <1>21, <1>22, <1>23, <1>24, <1>25, <1>26, <1>27
     DEF Next, DeviceStep, LoopStep, HandleFrame, OutputStep, DrawStep,
     EditStep

(* ... of the payloads ...                                                 *)
LEMMA PayloadStep ==
  ASSUME LoopType, MailboxType, PayloadType, [Next]_vars
  PROVE  PayloadType'
<1> USE FeedAssumption DEF PayloadType,
       deviceVars, editVars, historyVars, sessionVars, mailboxVars
<1>1. CASE ChangeMembership
  BY <1>1 DEF ChangeMembership
<1>2. ASSUME NEW d \in Devices, NewCloud(d)
     PROVE  PayloadType'
  BY <1>2 DEF NewCloud
<1>3. ASSUME NEW d \in Devices, NoCloud(d)
     PROVE  PayloadType'
  BY <1>3 DEF NoCloud
<1>4. CASE Collect
  BY <1>4 DEF Collect
<1>5. CASE ReadCloud
  BY <1>5 DEF ReadCloud
<1>6. CASE TakeClouds
  BY <1>6 DEF TakeClouds
<1>7. CASE FindUnchanged
  BY <1>7 DEF FindUnchanged
<1>8. CASE Feed
  <2>1. ops' = ops
    BY <1>8 DEF Feed
  <2>2. QED
    BY <1>8, <2>1, FeedPayload
<1>9. CASE FindCleared
  BY <1>9 DEF FindCleared
<1>10. CASE ClearCloud
  BY <1>10 DEF ClearCloud
<1>11. CASE ClearRender
  BY <1>11 DEF ClearRender
<1>12. CASE ClearNotify
  BY <1>12 DEF ClearNotify
<1>13. ASSUME NEW f \in pending, Publish(f)
     PROVE  PayloadType'
  BY <1>13 DEF Publish, Mailbox!Show
<1>14. ASSUME NEW f \in pending, Supersede(f)
     PROVE  PayloadType'
  BY <1>14 DEF Supersede, Mailbox!Drop
<1>15. ASSUME NEW f \in pending, RejectFrame(f)
     PROVE  PayloadType'
  BY <1>15 DEF RejectFrame, Mailbox!Reject
<1>16. CASE LoseFrames
  BY <1>16 DEF LoseFrames, Mailbox!Discard
<1>17. ASSUME NEW p \in publishing, StoreRender(p)
     PROVE  PayloadType'
  BY <1>17 DEF StoreRender
<1>18. ASSUME NEW p \in publishing, StoreCloud(p)
     PROVE  PayloadType'
  BY <1>18 DEF StoreCloud
<1>19. ASSUME NEW p \in publishing, Notify(p)
     PROVE  PayloadType'
  BY <1>19 DEF Notify
<1>20. CASE BeginDraw
  BY <1>20 DEF BeginDraw
<1>21. CASE DrawCloud
  BY <1>21 DEF DrawCloud
<1>22. CASE DrawRender
  BY <1>22 DEF DrawRender
<1>23. CASE EditOperator
  BY <1>23 DEF EditOperator
<1>24. CASE BeginRebuild
  BY <1>24 DEF BeginRebuild, Mailbox!Close
<1>25. CASE EndRebuild
  BY <1>25 DEF EndRebuild, Mailbox!Reopen
<1>26. CASE Reprocess
  BY <1>26 DEF Reprocess
<1>27. CASE UNCHANGED vars
  BY <1>27 DEF vars
<1>28. QED
  BY <1>1, <1>2, <1>3, <1>4, <1>5, <1>6, <1>7, <1>8, <1>9, <1>10, <1>11,
     <1>12, <1>13, <1>14, <1>15, <1>16, <1>17, <1>18, <1>19, <1>20,
     <1>21, <1>22, <1>23, <1>24, <1>25, <1>26, <1>27
     DEF Next, DeviceStep, LoopStep, HandleFrame, OutputStep, DrawStep,
     EditStep

(* What comes out of a frame is typed, and bears its clouds.               *)
LEMMA OutcomeType ==
  ASSUME PayloadType, NEW f \in Frames, NEW out \in Outcomes(f)
  PROVE  /\ out \in Shown
         /\ Carries(out, f)
         /\ payload[f].ops \in Nat /\ ops \in Nat
<1> DEFINE Made == [clouds : SUBSET Nat, ops : Nat]
<1>a. payload \in Seq(Made) /\ f \in 1 .. Len(payload) /\ ops \in Nat
  BY DEF PayloadType, Frames
<1> HIDE DEF Made
<1>b. payload[f] \in Made
  BY ONLY <1>a, ElementsTyped
<1>1. payload[f] \in [clouds : SUBSET Nat, ops : Nat] /\ ops \in Nat
  BY <1>a, <1>b DEF Made
<1>2. PICK v \in payload[f].ops .. ops, e \in BOOLEAN :
        out = [clouds |-> payload[f].clouds, ops |-> v, empty |-> e]
  BY DEF Outcomes
<1>3. QED
  BY <1>1, <1>2 DEF Shown, Carries

(* ... of what is being published ...                                      *)
LEMMA PublishingStep ==
  ASSUME MailboxType, PayloadType, PublishingType, IsFiniteSet(publishing), [Next]_vars
  PROVE  PublishingType' /\ IsFiniteSet(publishing)'
<1> USE FeedAssumption DEF PublishingType, Frames,
       deviceVars, editVars, historyVars, sessionVars, mailboxVars
<1>1. CASE ChangeMembership
  BY <1>1 DEF ChangeMembership
<1>2. ASSUME NEW d \in Devices, NewCloud(d)
     PROVE  PublishingType' /\ IsFiniteSet(publishing)'
  BY <1>2 DEF NewCloud
<1>3. ASSUME NEW d \in Devices, NoCloud(d)
     PROVE  PublishingType' /\ IsFiniteSet(publishing)'
  BY <1>3 DEF NoCloud
<1>4. CASE Collect
  BY <1>4 DEF Collect
<1>5. CASE ReadCloud
  BY <1>5 DEF ReadCloud
<1>6. CASE TakeClouds
  BY <1>6 DEF TakeClouds
<1>7. CASE FindUnchanged
  BY <1>7 DEF FindUnchanged
<1>8. CASE Feed
  <2>1. offered' = offered + 1 /\ publishing' = publishing /\ offered \in Nat
    BY <1>8 DEF Feed, Mailbox!Offer, MailboxType
  <2>2. Frames \subseteq Frames'
    BY <2>1
  <2>3. QED
    BY <2>1, <2>2
<1>9. CASE FindCleared
  BY <1>9 DEF FindCleared
<1>10. CASE ClearCloud
  BY <1>10 DEF ClearCloud
<1>11. CASE ClearRender
  BY <1>11 DEF ClearRender
<1>12. CASE ClearNotify
  BY <1>12 DEF ClearNotify
<1>13. ASSUME NEW f \in pending, Publish(f)
     PROVE  PublishingType' /\ IsFiniteSet(publishing)'
  <2>1. PICK out \in Outcomes(f) :
          publishing' = publishing \union
            {[seq |-> f, out |-> out, at |-> IF out.empty THEN "cloud" ELSE "render"]}
    BY <1>13 DEF Publish
  <2>2. out \in Shown
    BY <1>13, OutcomeType DEF MailboxType
  <2>3. PICK p : p = [seq |-> f, out |-> out,
                      at |-> IF out.empty THEN "cloud" ELSE "render"]
    OBVIOUS
  <2>4. p \in [seq : Frames, out : Shown, at : {"render", "cloud", "notify"}]
    BY <2>2, <2>3 DEF MailboxType
  <2>5. /\ publishing' = publishing \union {p} /\ offered' = offered
        /\ Cardinality(publishing) < Workers
    BY <1>13, <2>1, <2>3 DEF Publish, Mailbox!Show
  <2>6. Cardinality(publishing) \in Nat
    BY FS_CardinalityType
  <2>7. /\ IsFiniteSet(publishing')
        /\ Cardinality(publishing') <= Cardinality(publishing) + 1
    <3>1. /\ IsFiniteSet(publishing \union {p})
          /\ Cardinality(publishing \union {p}) =
               IF p \in publishing THEN Cardinality(publishing)
               ELSE Cardinality(publishing) + 1
      BY ONLY IsFiniteSet(publishing), FS_AddElement
    <3>2. QED
      BY <2>5, <2>6, <3>1
  <2>8. Cardinality(publishing') \in Nat
    BY <2>7, FS_CardinalityType
  <2>9. QED
    BY <2>4, <2>5, <2>6, <2>7, <2>8
<1>14. ASSUME NEW f \in pending, Supersede(f)
     PROVE  PublishingType' /\ IsFiniteSet(publishing)'
  BY <1>14 DEF Supersede, Mailbox!Drop
<1>15. ASSUME NEW f \in pending, RejectFrame(f)
     PROVE  PublishingType' /\ IsFiniteSet(publishing)'
  BY <1>15 DEF RejectFrame, Mailbox!Reject
<1>16. CASE LoseFrames
  BY <1>16 DEF LoseFrames, Mailbox!Discard
<1>17. ASSUME NEW p \in publishing, StoreRender(p)
     PROVE  PublishingType' /\ IsFiniteSet(publishing)'
  <2>1. PICK q : q = [p EXCEPT !.at = "cloud"]
    OBVIOUS
  <2>2. q \in [seq : Frames, out : Shown, at : {"render", "cloud", "notify"}]
    BY <2>1
  <2>3. publishing' = (publishing \ {p}) \union {q} /\ offered' = offered
    BY <1>17, <2>1 DEF StoreRender
  <2>4. /\ IsFiniteSet(publishing') /\ Cardinality(publishing') \in Nat
        /\ Cardinality(publishing') <= Cardinality(publishing)
    BY <2>3, Replaced
  <2>5. Cardinality(publishing) \in Nat
    BY FS_CardinalityType
  <2>6. QED
    BY <2>2, <2>3, <2>4, <2>5
<1>18. ASSUME NEW p \in publishing, StoreCloud(p)
     PROVE  PublishingType' /\ IsFiniteSet(publishing)'
  <2>1. PICK q : q = [p EXCEPT !.at = "notify"]
    OBVIOUS
  <2>2. q \in [seq : Frames, out : Shown, at : {"render", "cloud", "notify"}]
    BY <2>1
  <2>3. publishing' = (publishing \ {p}) \union {q} /\ offered' = offered
    BY <1>18, <2>1 DEF StoreCloud
  <2>4. /\ IsFiniteSet(publishing') /\ Cardinality(publishing') \in Nat
        /\ Cardinality(publishing') <= Cardinality(publishing)
    BY <2>3, Replaced
  <2>5. Cardinality(publishing) \in Nat
    BY FS_CardinalityType
  <2>6. QED
    BY <2>2, <2>3, <2>4, <2>5
<1>19. ASSUME NEW p \in publishing, Notify(p)
     PROVE  PublishingType' /\ IsFiniteSet(publishing)'
  <2>1. publishing' = publishing \ {p} /\ offered' = offered
    BY <1>19 DEF Notify
  <2>2. /\ IsFiniteSet(publishing')
        /\ Cardinality(publishing') = Cardinality(publishing) - 1
    BY <2>1, FS_RemoveElement
  <2>3. Cardinality(publishing) \in Nat /\ Cardinality(publishing') \in Nat
    BY <2>2, FS_CardinalityType
  <2>4. QED
    BY <2>1, <2>2, <2>3
<1>20. CASE BeginDraw
  BY <1>20 DEF BeginDraw
<1>21. CASE DrawCloud
  BY <1>21 DEF DrawCloud
<1>22. CASE DrawRender
  BY <1>22 DEF DrawRender
<1>23. CASE EditOperator
  BY <1>23 DEF EditOperator
<1>24. CASE BeginRebuild
  BY <1>24 DEF BeginRebuild, Mailbox!Close
<1>25. CASE EndRebuild
  <2>1. publishing = {} /\ publishing' = {}
    BY <1>25 DEF EndRebuild, Joined
  <2>2. QED
    BY <2>1
<1>26. CASE Reprocess
  BY <1>26 DEF Reprocess
<1>27. CASE UNCHANGED vars
  BY <1>27 DEF vars
<1>28. QED
  BY <1>1, <1>2, <1>3, <1>4, <1>5, <1>6, <1>7, <1>8, <1>9, <1>10, <1>11,
     <1>12, <1>13, <1>14, <1>15, <1>16, <1>17, <1>18, <1>19, <1>20,
     <1>21, <1>22, <1>23, <1>24, <1>25, <1>26, <1>27
     DEF Next, DeviceStep, LoopStep, HandleFrame, OutputStep, DrawStep,
     EditStep

(* The null pointer is typed.                                              *)
LEMMA NoneType == None \in Shown
  BY DEF None, Shown

(* ... and of what is stored and drawn.                                    *)
LEMMA StoresStep ==
  ASSUME PublishingType, StoresType, [Next]_vars
  PROVE  StoresType'
<1> USE FeedAssumption DEF StoresType,
       MarkStore, deviceVars, editVars, historyVars, sessionVars, mailboxVars
<1>1. CASE ChangeMembership
  BY <1>1 DEF ChangeMembership
<1>2. ASSUME NEW d \in Devices, NewCloud(d)
     PROVE  StoresType'
  BY <1>2 DEF NewCloud
<1>3. ASSUME NEW d \in Devices, NoCloud(d)
     PROVE  StoresType'
  BY <1>3 DEF NoCloud
<1>4. CASE Collect
  BY <1>4 DEF Collect
<1>5. CASE ReadCloud
  BY <1>5 DEF ReadCloud
<1>6. CASE TakeClouds
  BY <1>6 DEF TakeClouds
<1>7. CASE FindUnchanged
  BY <1>7 DEF FindUnchanged
<1>8. CASE Feed
  BY <1>8 DEF Feed, Mailbox!Offer
<1>9. CASE FindCleared
  BY <1>9 DEF FindCleared
<1>10. CASE ClearCloud
  <2>1. current' = None /\ late' \subseteq late /\ UNCHANGED <<render, notified, ui, edits>>
    BY <1>10 DEF ClearCloud
  <2>2. QED
    BY <2>1, NoneType
<1>11. CASE ClearRender
  <2>1. render' = None /\ late' \subseteq late /\ UNCHANGED <<current, notified, ui, edits>>
    BY <1>11 DEF ClearRender
  <2>2. QED
    BY <2>1, NoneType
<1>12. CASE ClearNotify
  BY <1>12 DEF ClearNotify
<1>13. ASSUME NEW f \in pending, Publish(f)
     PROVE  StoresType'
  BY <1>13 DEF Publish, Mailbox!Show
<1>14. ASSUME NEW f \in pending, Supersede(f)
     PROVE  StoresType'
  BY <1>14 DEF Supersede, Mailbox!Drop
<1>15. ASSUME NEW f \in pending, RejectFrame(f)
     PROVE  StoresType'
  BY <1>15 DEF RejectFrame, Mailbox!Reject
<1>16. CASE LoseFrames
  BY <1>16 DEF LoseFrames, Mailbox!Discard
<1>17. ASSUME NEW p \in publishing, StoreRender(p)
     PROVE  StoresType'
  <2>1. p.out \in Shown
    BY DEF PublishingType
  <2>2. /\ render' = p.out /\ late' \subseteq late \union {"render"}
        /\ UNCHANGED <<current, notified, ui, edits>>
    BY <1>17 DEF StoreRender
  <2>3. QED
    BY <2>1, <2>2
<1>18. ASSUME NEW p \in publishing, StoreCloud(p)
     PROVE  StoresType'
  <2>1. p.out \in Shown
    BY DEF PublishingType
  <2>2. /\ current' = p.out /\ late' \subseteq late \union {"cloud"}
        /\ UNCHANGED <<render, notified, ui, edits>>
    BY <1>18 DEF StoreCloud
  <2>3. QED
    BY <2>1, <2>2
<1>19. ASSUME NEW p \in publishing, Notify(p)
     PROVE  StoresType'
  BY <1>19 DEF Notify
<1>20. CASE BeginDraw
  BY <1>20 DEF BeginDraw
<1>21. CASE DrawCloud
  BY <1>21 DEF DrawCloud
<1>22. CASE DrawRender
  BY <1>22 DEF DrawRender
<1>23. CASE EditOperator
  BY <1>23 DEF EditOperator
<1>24. CASE BeginRebuild
  BY <1>24 DEF BeginRebuild, Mailbox!Close
<1>25. CASE EndRebuild
  BY <1>25 DEF EndRebuild, Mailbox!Reopen
<1>26. CASE Reprocess
  BY <1>26 DEF Reprocess
<1>27. CASE UNCHANGED vars
  BY <1>27 DEF vars
<1>28. QED
  BY <1>1, <1>2, <1>3, <1>4, <1>5, <1>6, <1>7, <1>8, <1>9, <1>10, <1>11,
     <1>12, <1>13, <1>14, <1>15, <1>16, <1>17, <1>18, <1>19, <1>20,
     <1>21, <1>22, <1>23, <1>24, <1>25, <1>26, <1>27
     DEF Next, DeviceStep, LoopStep, HandleFrame, OutputStep, DrawStep,
     EditStep

(* One step keeps all the types.                                           *)
LEMMA TypeStep ==
  ASSUME TypeOK, IsFiniteSet(publishing), [Next]_vars
  PROVE  TypeOK' /\ IsFiniteSet(publishing)'
BY DevicesStep, LoopStepTypes, MailboxStep, PayloadStep, PublishingStep, StoresStep
   DEF TypeOK

(* The payload of a frame is typed.                                        *)
LEMMA FrameTyped ==
  ASSUME MailboxType, PayloadType, NEW f \in Frames
  PROVE  payload[f].clouds \in SUBSET Nat /\ payload[f].ops \in Nat /\ ops \in Nat
<1> DEFINE Made == [clouds : SUBSET Nat, ops : Nat]
<1>1. payload \in Seq(Made) /\ f \in 1 .. Len(payload) /\ ops \in Nat
  BY DEF PayloadType, Frames
<1> HIDE DEF Made
<1>2. payload[f] \in Made
  BY ONLY <1>1, ElementsTyped
<1>3. QED
  BY <1>1, <1>2 DEF Made

(* One step keeps what was fed last.                                       *)
LEMMA FedStep ==
  ASSUME TypeOK, FedInv, [Next]_vars
  PROVE  FedInv'
<1> USE FeedAssumption DEF FedInv, Frames, TypeOK, LoopType, MailboxType,
       StoresType, deviceVars, editVars, historyVars, sessionVars, mailboxVars, NextIteration,
       MarkStore
<1>1. CASE ChangeMembership
  BY <1>1 DEF ChangeMembership
<1>2. ASSUME NEW d \in Devices, NewCloud(d)
     PROVE  FedInv'
  BY <1>2 DEF NewCloud
<1>3. ASSUME NEW d \in Devices, NoCloud(d)
     PROVE  FedInv'
  BY <1>3 DEF NoCloud
<1>4. CASE Collect
  BY <1>4 DEF Collect
<1>5. CASE ReadCloud
  BY <1>5 DEF ReadCloud
<1>6. CASE TakeClouds
  BY <1>6 DEF TakeClouds, AllRead
<1>7. CASE FindUnchanged
  BY <1>7 DEF FindUnchanged, AllRead
<1>8. CASE Feed
  <2>1. /\ offered' = offered + 1 /\ offered \in Nat /\ cleared' = cleared
        /\ cleared \in 0 .. offered /\ ops' = ops /\ ops \in Nat
        /\ loop'.last = loop.last /\ loop'.at = "collect" /\ Clouds(loop.last) # {}
    BY <1>8 DEF Feed, Mailbox!Offer, PayloadType
  <2>2. /\ payload'[offered'].clouds = Clouds(loop.last)
        /\ payload'[offered'].ops = ops
        /\ \A f \in Frames : payload'[f] = payload[f]
    BY <1>8, FeedPayload
  <2>3. \A f \in Frames' : payload'[f].ops <= ops'
    <3>1. ASSUME NEW f \in Frames' PROVE payload'[f].ops <= ops'
      <4>1. CASE f = offered'
        BY <2>1, <2>2, <4>1
      <4>2. CASE f \in Frames
        BY <2>1, <2>2, <4>2
      <4>3. QED
        BY <2>1, <4>1, <4>2
    <3>2. QED
      BY <3>1
  <2>4. QED
    BY <2>1, <2>2, <2>3
<1>9. CASE FindCleared
  BY <1>9 DEF FindCleared
<1>10. CASE ClearCloud
  BY <1>10 DEF ClearCloud
<1>11. CASE ClearRender
  BY <1>11 DEF ClearRender
<1>12. CASE ClearNotify
  BY <1>12 DEF ClearNotify
<1>13. ASSUME NEW f \in pending, Publish(f)
     PROVE  FedInv'
  BY <1>13 DEF Publish, Mailbox!Show
<1>14. ASSUME NEW f \in pending, Supersede(f)
     PROVE  FedInv'
  BY <1>14 DEF Supersede, Mailbox!Drop
<1>15. ASSUME NEW f \in pending, RejectFrame(f)
     PROVE  FedInv'
  BY <1>15 DEF RejectFrame, Mailbox!Reject
<1>16. CASE LoseFrames
  BY <1>16 DEF LoseFrames, Mailbox!Discard
<1>17. ASSUME NEW p \in publishing, StoreRender(p)
     PROVE  FedInv'
  BY <1>17 DEF StoreRender
<1>18. ASSUME NEW p \in publishing, StoreCloud(p)
     PROVE  FedInv'
  BY <1>18 DEF StoreCloud
<1>19. ASSUME NEW p \in publishing, Notify(p)
     PROVE  FedInv'
  BY <1>19 DEF Notify
<1>20. CASE BeginDraw
  BY <1>20 DEF BeginDraw
<1>21. CASE DrawCloud
  BY <1>21 DEF DrawCloud
<1>22. CASE DrawRender
  BY <1>22 DEF DrawRender
<1>23. CASE EditOperator
  <2>1. ops \in Nat /\ \A f \in Frames : payload[f].ops \in Nat
    BY FrameTyped DEF PayloadType
  <2>2. /\ ui' = [ui EXCEPT !.at = "reprocess"] /\ ops' = ops + 1
        /\ UNCHANGED <<loop, offered, payload>>
    BY <1>23 DEF EditOperator
  <2>3. ui'.at = "reprocess"
    BY <2>2
  <2>4. \A f \in Frames' : payload'[f].ops <= ops'
    BY <2>1, <2>2
  <2>5. QED
    BY <2>2, <2>3, <2>4
<1>24. CASE BeginRebuild
  BY <1>24 DEF BeginRebuild, Mailbox!Close
<1>25. CASE EndRebuild
  BY <1>25 DEF EndRebuild, Mailbox!Reopen
<1>26. CASE Reprocess
  BY <1>26 DEF Reprocess
<1>27. CASE UNCHANGED vars
  BY <1>27 DEF vars
<1>28. QED
  BY <1>1, <1>2, <1>3, <1>4, <1>5, <1>6, <1>7, <1>8, <1>9, <1>10, <1>11,
     <1>12, <1>13, <1>14, <1>15, <1>16, <1>17, <1>18, <1>19, <1>20,
     <1>21, <1>22, <1>23, <1>24, <1>25, <1>26, <1>27
     DEF Next, DeviceStep, LoopStep, HandleFrame, OutputStep, DrawStep,
     EditStep

(* One step keeps the newest frame from being lost.                        *)
LEMMA KeptStep ==
  ASSUME TypeOK, KeptInv, [Next]_vars
  PROVE  KeptInv'
<1> USE FeedAssumption DEF KeptInv, Frames, TypeOK, MailboxType, deviceVars, editVars, historyVars, sessionVars, mailboxVars, NextIteration,
       MarkStore
<1>1. CASE ChangeMembership
  BY <1>1 DEF ChangeMembership
<1>2. ASSUME NEW d \in Devices, NewCloud(d)
     PROVE  KeptInv'
  BY <1>2 DEF NewCloud
<1>3. ASSUME NEW d \in Devices, NoCloud(d)
     PROVE  KeptInv'
  BY <1>3 DEF NoCloud
<1>4. CASE Collect
  BY <1>4 DEF Collect
<1>5. CASE ReadCloud
  BY <1>5 DEF ReadCloud
<1>6. CASE TakeClouds
  BY <1>6 DEF TakeClouds
<1>7. CASE FindUnchanged
  BY <1>7 DEF FindUnchanged
<1>8. CASE Feed
  BY <1>8 DEF Feed, Mailbox!Offer
<1>9. CASE FindCleared
  BY <1>9 DEF FindCleared
<1>10. CASE ClearCloud
  BY <1>10 DEF ClearCloud
<1>11. CASE ClearRender
  BY <1>11 DEF ClearRender
<1>12. CASE ClearNotify
  BY <1>12 DEF ClearNotify
<1>13. ASSUME NEW f \in pending, Publish(f)
     PROVE  KeptInv'
  BY <1>13 DEF Publish, Mailbox!Show
<1>14. ASSUME NEW f \in pending, Supersede(f)
     PROVE  KeptInv'
  BY <1>14 DEF Supersede, Mailbox!Drop
<1>15. ASSUME NEW f \in pending, RejectFrame(f)
     PROVE  KeptInv'
  BY <1>15 DEF RejectFrame, Mailbox!Reject
<1>16. CASE LoseFrames
  BY <1>16 DEF LoseFrames, Mailbox!Discard
<1>17. ASSUME NEW p \in publishing, StoreRender(p)
     PROVE  KeptInv'
  BY <1>17 DEF StoreRender
<1>18. ASSUME NEW p \in publishing, StoreCloud(p)
     PROVE  KeptInv'
  BY <1>18 DEF StoreCloud
<1>19. ASSUME NEW p \in publishing, Notify(p)
     PROVE  KeptInv'
  BY <1>19 DEF Notify
<1>20. CASE BeginDraw
  BY <1>20 DEF BeginDraw
<1>21. CASE DrawCloud
  BY <1>21 DEF DrawCloud
<1>22. CASE DrawRender
  BY <1>22 DEF DrawRender
<1>23. CASE EditOperator
  BY <1>23 DEF EditOperator
<1>24. CASE BeginRebuild
  BY <1>24 DEF BeginRebuild, Mailbox!Close
<1>25. CASE EndRebuild
  BY <1>25 DEF EndRebuild, Mailbox!Reopen
<1>26. CASE Reprocess
  BY <1>26 DEF Reprocess
<1>27. CASE UNCHANGED vars
  BY <1>27 DEF vars
<1>28. QED
  BY <1>1, <1>2, <1>3, <1>4, <1>5, <1>6, <1>7, <1>8, <1>9, <1>10, <1>11,
     <1>12, <1>13, <1>14, <1>15, <1>16, <1>17, <1>18, <1>19, <1>20,
     <1>21, <1>22, <1>23, <1>24, <1>25, <1>26, <1>27
     DEF Next, DeviceStep, LoopStep, HandleFrame, OutputStep, DrawStep,
     EditStep

(* One step keeps what is being published.                                *)
LEMMA PublishedStep ==
  ASSUME TypeOK, IsFiniteSet(publishing), PublishedInv, [Next]_vars
  PROVE  PublishedInv'
<1> USE FeedAssumption DEF PublishedInv, Frames, TypeOK, MailboxType,
       PublishingType, Carries, deviceVars, editVars, historyVars, sessionVars, mailboxVars, NextIteration,
       MarkStore
<1>1. CASE ChangeMembership
  BY <1>1 DEF ChangeMembership
<1>2. ASSUME NEW d \in Devices, NewCloud(d)
     PROVE  PublishedInv'
  BY <1>2 DEF NewCloud
<1>3. ASSUME NEW d \in Devices, NoCloud(d)
     PROVE  PublishedInv'
  BY <1>3 DEF NoCloud
<1>4. CASE Collect
  BY <1>4 DEF Collect
<1>5. CASE ReadCloud
  BY <1>5 DEF ReadCloud
<1>6. CASE TakeClouds
  BY <1>6 DEF TakeClouds
<1>7. CASE FindUnchanged
  BY <1>7 DEF FindUnchanged
<1>8. CASE Feed
  <2>1. /\ publishing' = publishing /\ shown' = shown /\ ops' = ops
        /\ \A f \in Frames : payload'[f] = payload[f]
    BY <1>8, FeedPayload DEF Feed, Mailbox!Offer
  <2>2. QED
    BY <2>1
<1>9. CASE FindCleared
  BY <1>9 DEF FindCleared
<1>10. CASE ClearCloud
  BY <1>10 DEF ClearCloud
<1>11. CASE ClearRender
  BY <1>11 DEF ClearRender
<1>12. CASE ClearNotify
  BY <1>12 DEF ClearNotify
<1>13. ASSUME NEW f \in pending, Publish(f)
     PROVE  PublishedInv'
  <2>1. PICK out \in Outcomes(f) :
          publishing' = publishing \union
            {[seq |-> f, out |-> out, at |-> IF out.empty THEN "cloud" ELSE "render"]}
    BY <1>13 DEF Publish
  <2>2. /\ shown' = f /\ f > shown /\ f \in Frames /\ payload' = payload /\ ops' = ops
    BY <1>13 DEF Publish, Mailbox!Show
  <2>3. Carries(out, f)
    BY <2>2, OutcomeType
  <2>4. ASSUME NEW p \in publishing' PROVE p.seq <= shown' /\ Carries(p.out, p.seq)'
    <3>1. CASE p \in publishing
      BY <2>2, <3>1
    <3>2. CASE p.seq = f /\ p.out = out
      BY <2>2, <2>3, <3>2
    <3>3. QED
      BY <2>1, <3>1, <3>2
  <2>5. QED
    BY <2>4
<1>14. ASSUME NEW f \in pending, Supersede(f)
     PROVE  PublishedInv'
  BY <1>14 DEF Supersede, Mailbox!Drop
<1>15. ASSUME NEW f \in pending, RejectFrame(f)
     PROVE  PublishedInv'
  BY <1>15 DEF RejectFrame, Mailbox!Reject
<1>16. CASE LoseFrames
  BY <1>16 DEF LoseFrames, Mailbox!Discard
<1>17. ASSUME NEW p \in publishing, StoreRender(p)
     PROVE  PublishedInv'
  BY <1>17 DEF StoreRender
<1>18. ASSUME NEW p \in publishing, StoreCloud(p)
     PROVE  PublishedInv'
  BY <1>18 DEF StoreCloud
<1>19. ASSUME NEW p \in publishing, Notify(p)
     PROVE  PublishedInv'
  BY <1>19 DEF Notify
<1>20. CASE BeginDraw
  BY <1>20 DEF BeginDraw
<1>21. CASE DrawCloud
  BY <1>21 DEF DrawCloud
<1>22. CASE DrawRender
  BY <1>22 DEF DrawRender
<1>23. CASE EditOperator
  <2>1. \A p \in publishing : p.out.ops \in Nat /\ ops \in Nat
    BY DEF Shown, PayloadType
  <2>2. QED
    BY <1>23, <2>1 DEF EditOperator
<1>24. CASE BeginRebuild
  BY <1>24 DEF BeginRebuild, Mailbox!Close
<1>25. CASE EndRebuild
  BY <1>25 DEF EndRebuild, Mailbox!Reopen, Joined
<1>26. CASE Reprocess
  BY <1>26 DEF Reprocess
<1>27. CASE UNCHANGED vars
  BY <1>27 DEF vars
<1>28. QED
  BY <1>1, <1>2, <1>3, <1>4, <1>5, <1>6, <1>7, <1>8, <1>9, <1>10, <1>11,
     <1>12, <1>13, <1>14, <1>15, <1>16, <1>17, <1>18, <1>19, <1>20,
     <1>21, <1>22, <1>23, <1>24, <1>25, <1>26, <1>27
     DEF Next, DeviceStep, LoopStep, HandleFrame, OutputStep, DrawStep,
     EditStep

(* One step keeps what is stored.                                          *)
LEMMA StoredStep ==
  ASSUME TypeOK, PublishedInv, StoredInv, [Next]_vars
  PROVE  StoredInv'
<1> USE FeedAssumption DEF StoredInv, PublishedInv, Frames, TypeOK, MailboxType,
       PublishingType, Carries, Overtaken, deviceVars, editVars, historyVars, sessionVars, mailboxVars, NextIteration,
       MarkStore
<1>1. CASE ChangeMembership
  BY <1>1 DEF ChangeMembership
<1>2. ASSUME NEW d \in Devices, NewCloud(d)
     PROVE  StoredInv'
  BY <1>2 DEF NewCloud
<1>3. ASSUME NEW d \in Devices, NoCloud(d)
     PROVE  StoredInv'
  BY <1>3 DEF NoCloud
<1>4. CASE Collect
  BY <1>4 DEF Collect
<1>5. CASE ReadCloud
  BY <1>5 DEF ReadCloud
<1>6. CASE TakeClouds
  BY <1>6 DEF TakeClouds
<1>7. CASE FindUnchanged
  BY <1>7 DEF FindUnchanged
<1>8. CASE Feed
  <2>1. /\ publishing' = publishing /\ shown' = shown /\ ops' = ops /\ cleared' = cleared
        /\ late' = late /\ current' = current
        /\ \A f \in Frames : payload'[f] = payload[f]
    BY <1>8, FeedPayload DEF Feed, Mailbox!Offer
  <2>2. CASE shown > cleared
    <3>1. shown \in Frames
      BY <2>2
    <3>2. payload'[shown] = payload[shown]
      BY <2>1, <3>1
    <3>3. QED
      BY ONLY StoredInv, <2>1, <3>2 DEF StoredInv, Carries
  <2>3. CASE ~(shown > cleared)
    BY ONLY <2>1, <2>3 DEF StoredInv
  <2>4. QED
    BY <2>2, <2>3
<1>9. CASE FindCleared
  BY <1>9 DEF FindCleared
<1>10. CASE ClearCloud
  BY <1>10 DEF ClearCloud
<1>11. CASE ClearRender
  BY <1>11 DEF ClearRender
<1>12. CASE ClearNotify
  BY <1>12 DEF ClearNotify
<1>13. ASSUME NEW f \in pending, Publish(f)
     PROVE  StoredInv'
  <2>1. PICK out \in Outcomes(f) :
          publishing' = publishing \union
            {[seq |-> f, out |-> out, at |-> IF out.empty THEN "cloud" ELSE "render"]}
    BY <1>13 DEF Publish
  <2>2. shown' = f
    BY <1>13 DEF Publish, Mailbox!Show
  <2>3. PICK p : p = [seq |-> f, out |-> out,
                      at |-> IF out.empty THEN "cloud" ELSE "render"]
    OBVIOUS
  <2>4. p \in publishing' /\ p.seq = shown' /\ p.at # "notify"
    <3>1. p.seq = f /\ p.at # "notify"
      BY <2>3
    <3>2. p \in publishing'
      BY <2>1, <2>3
    <3>3. QED
      BY <2>2, <3>1, <3>2
  <2>5. QED
    BY <2>4
<1>14. ASSUME NEW f \in pending, Supersede(f)
     PROVE  StoredInv'
  BY <1>14 DEF Supersede, Mailbox!Drop
<1>15. ASSUME NEW f \in pending, RejectFrame(f)
     PROVE  StoredInv'
  BY <1>15 DEF RejectFrame, Mailbox!Reject
<1>16. CASE LoseFrames
  BY <1>16 DEF LoseFrames, Mailbox!Discard
<1>17. ASSUME NEW p \in publishing, StoreRender(p)
     PROVE  StoredInv'
  <2>1. PICK q : q = [p EXCEPT !.at = "cloud"]
    OBVIOUS
  <2>2. q.seq = p.seq /\ q.at = "cloud" /\ p.at = "render"
    BY <1>17, <2>1 DEF StoreRender
  <2>3. /\ publishing' = (publishing \ {p}) \union {q}
        /\ UNCHANGED <<current, payload, shown, cleared, ops>>
        /\ "cloud" \notin late' => "cloud" \notin late
    BY <1>17, <2>1 DEF StoreRender
  <2>4. CASE p.seq = shown
    BY <2>2, <2>3, <2>4
  <2>5. CASE p.seq # shown
    BY <2>2, <2>3, <2>5
  <2>6. QED
    BY <2>4, <2>5
<1>18. ASSUME NEW p \in publishing, StoreCloud(p)
     PROVE  StoredInv'
  BY <1>18 DEF StoreCloud
<1>19. ASSUME NEW p \in publishing, Notify(p)
     PROVE  StoredInv'
  BY <1>19 DEF Notify
<1>20. CASE BeginDraw
  BY <1>20 DEF BeginDraw
<1>21. CASE DrawCloud
  BY <1>21 DEF DrawCloud
<1>22. CASE DrawRender
  BY <1>22 DEF DrawRender
<1>23. CASE EditOperator
  <2>1. current.ops \in Nat /\ ops \in Nat
    BY DEF Shown, PayloadType, StoresType
  <2>2. QED
    BY <1>23, <2>1 DEF EditOperator
<1>24. CASE BeginRebuild
  BY <1>24 DEF BeginRebuild, Mailbox!Close
<1>25. CASE EndRebuild
  BY <1>25 DEF EndRebuild, Mailbox!Reopen
<1>26. CASE Reprocess
  BY <1>26 DEF Reprocess
<1>27. CASE UNCHANGED vars
  BY <1>27 DEF vars
<1>28. QED
  BY <1>1, <1>2, <1>3, <1>4, <1>5, <1>6, <1>7, <1>8, <1>9, <1>10, <1>11,
     <1>12, <1>13, <1>14, <1>15, <1>16, <1>17, <1>18, <1>19, <1>20,
     <1>21, <1>22, <1>23, <1>24, <1>25, <1>26, <1>27
     DEF Next, DeviceStep, LoopStep, HandleFrame, OutputStep, DrawStep,
     EditStep

(* One step keeps a session cleared.                                       *)
LEMMA ClearedStep ==
  ASSUME TypeOK, FedInv, PublishedInv, ClearedInv, [Next]_vars
  PROVE  ClearedInv'
<1> USE FeedAssumption DEF ClearedInv, FedInv, Frames, TypeOK, LoopType, MailboxType,
       PublishingType, Overtaken, deviceVars, editVars, historyVars, sessionVars, mailboxVars, NextIteration,
       MarkStore
<1>1. CASE ChangeMembership
  BY <1>1 DEF ChangeMembership
<1>2. ASSUME NEW d \in Devices, NewCloud(d)
     PROVE  ClearedInv'
  BY <1>2 DEF NewCloud
<1>3. ASSUME NEW d \in Devices, NoCloud(d)
     PROVE  ClearedInv'
  BY <1>3 DEF NoCloud
<1>4. CASE Collect
  BY <1>4 DEF Collect
<1>5. CASE ReadCloud
  BY <1>5 DEF ReadCloud
<1>6. CASE TakeClouds
  BY <1>6 DEF TakeClouds, AllRead
<1>7. CASE FindUnchanged
  BY <1>7 DEF FindUnchanged, AllRead
<1>8. CASE Feed
  BY <1>8 DEF Feed, Mailbox!Offer
<1>9. CASE FindCleared
  BY <1>9 DEF FindCleared
<1>10. CASE ClearCloud
  BY <1>10 DEF ClearCloud
<1>11. CASE ClearRender
  BY <1>11 DEF ClearRender
<1>12. CASE ClearNotify
  BY <1>12 DEF ClearNotify
<1>13. ASSUME NEW f \in pending, Publish(f)
     PROVE  ClearedInv'
  BY <1>13 DEF Publish, Mailbox!Show
<1>14. ASSUME NEW f \in pending, Supersede(f)
     PROVE  ClearedInv'
  BY <1>14 DEF Supersede, Mailbox!Drop
<1>15. ASSUME NEW f \in pending, RejectFrame(f)
     PROVE  ClearedInv'
  BY <1>15 DEF RejectFrame, Mailbox!Reject
<1>16. CASE LoseFrames
  BY <1>16 DEF LoseFrames, Mailbox!Discard
<1>17. ASSUME NEW p \in publishing, StoreRender(p)
     PROVE  ClearedInv'
  BY <1>17 DEF StoreRender
<1>18. ASSUME NEW p \in publishing, StoreCloud(p)
     PROVE  ClearedInv'
  BY <1>18 DEF StoreCloud
<1>19. ASSUME NEW p \in publishing, Notify(p)
     PROVE  ClearedInv'
  BY <1>19 DEF Notify
<1>20. CASE BeginDraw
  BY <1>20 DEF BeginDraw
<1>21. CASE DrawCloud
  BY <1>21 DEF DrawCloud
<1>22. CASE DrawRender
  BY <1>22 DEF DrawRender
<1>23. CASE EditOperator
  BY <1>23 DEF EditOperator
<1>24. CASE BeginRebuild
  BY <1>24 DEF BeginRebuild, Mailbox!Close
<1>25. CASE EndRebuild
  BY <1>25 DEF EndRebuild, Mailbox!Reopen
<1>26. CASE Reprocess
  BY <1>26 DEF Reprocess
<1>27. CASE UNCHANGED vars
  BY <1>27 DEF vars
<1>28. QED
  BY <1>1, <1>2, <1>3, <1>4, <1>5, <1>6, <1>7, <1>8, <1>9, <1>10, <1>11,
     <1>12, <1>13, <1>14, <1>15, <1>16, <1>17, <1>18, <1>19, <1>20,
     <1>21, <1>22, <1>23, <1>24, <1>25, <1>26, <1>27
     DEF Next, DeviceStep, LoopStep, HandleFrame, OutputStep, DrawStep,
     EditStep

(* The initial states satisfy the strengthening.                           *)
LEMMA InitInv == Init => IInv
<1> SUFFICES ASSUME Init PROVE IInv
  OBVIOUS
<1>1. DevicesType /\ LoopType
  BY FeedAssumption DEF Init, DevicesType, LoopType
<1>2. MailboxType /\ PayloadType
  <2>1. ui.at = "idle" /\ open = TRUE
    BY DEF Init, Mailbox!Init
  <2>2. open = (ui.at # "rebuild")
    BY ONLY <2>1
  <2>3. /\ offered = 0 /\ pending = {} /\ rejected = {} /\ shown = 0
        /\ cleared = 0 /\ ops = 1 /\ payload = << >>
    BY DEF Init, Mailbox!Init
  <2>4. QED
    BY <2>2, <2>3 DEF MailboxType, PayloadType, Frames
<1>3. IsFiniteSet(publishing) /\ Cardinality(publishing) = 0
  BY FS_EmptySet DEF Init
<1>4. PublishingType /\ StoresType
  <2>1. PublishingType
    BY <1>3, FeedAssumption DEF Init, PublishingType
  <2>2. PICK none \in Shown : none = None
    BY NoneType
  <2>3. /\ ui = [at |-> "idle", cloud |-> none, render |-> none]
        /\ current = none /\ render = none /\ notified = FALSE
        /\ late = {} /\ edits = 0
    BY <2>2 DEF Init
  <2>4. ui \in [at : {"idle", "rebuild", "reprocess", "readCloud", "readRender"},
                cloud : Shown, render : Shown]
    BY ONLY <2>2, <2>3
  <2>5. edits \in 0 .. MaxEdits
    BY <2>3, FeedAssumption
  <2>6. QED
    BY <2>1, <2>2, <2>3, <2>4, <2>5 DEF StoresType
<1>5. Clouds(loop.last) = {}
  BY DEF Init, Clouds
<1>6. FedInv /\ KeptInv /\ PublishedInv /\ StoredInv /\ ClearedInv
  BY <1>5 DEF Init, Mailbox!Init, FedInv, KeptInv, PublishedInv, StoredInv,
     ClearedInv, Frames
<1>7. QED
  BY <1>1, <1>2, <1>3, <1>4, <1>6 DEF IInv, TypeOK

(* Every step keeps it.                                                    *)
LEMMA StepInv == IInv /\ [Next]_vars => IInv'
BY TypeStep, FedStep, KeptStep, PublishedStep, StoredStep, ClearedStep DEF IInv

(* The strengthened invariant holds in every state.                        *)
LEMMA Invariance == Spec => []IInv
<1>1. Init => IInv
  BY InitInv
<1>2. IInv /\ [Next]_vars => IInv'
  BY StepInv
<1>3. QED
  BY <1>1, <1>2, PTL DEF Spec

(* Types, for every number of workers, devices and lists of devices.       *)
THEOREM TypeCorrect == Spec => []TypeOK
<1>1. IInv => TypeOK
  BY DEF IInv
<1>2. QED
  BY <1>1, Invariance, PTL

(* When all is quiet the session shows the union of its devices' clouds as *)
(* the operators now process it, or no cloud: neither a rebuild that loses *)
(* the frames it finds nor an edit between two frames is forgotten.        *)
THEOREM QuietSessionShowsDevices == Spec => []QuietShowsDevices
<1>1. ASSUME IInv, Quiet, "cloud" \notin late
      PROVE  LET now == Clouds(Gathered)
             IN IF now = {} THEN current = None
                ELSE offered \in rejected
                     \/ (current.clouds = now /\ current.ops = ops)
  <2>1. /\ Clouds(loop.last) = Clouds(Gathered)
        /\ loop.at \in {"collect", "read"} /\ ui.at = "idle" /\ ~force
        /\ pending = {} /\ publishing = {}
    BY <1>1 DEF Quiet
  <2>2. CASE Clouds(loop.last) = {}
    BY <1>1, <2>1, <2>2 DEF IInv, ClearedInv
  <2>3. CASE Clouds(loop.last) # {} /\ offered \notin rejected
    <3>1. /\ cleared < offered
          /\ payload[offered].clouds = Clouds(loop.last)
          /\ payload[offered].ops = ops
      BY <1>1, <2>1, <2>3 DEF IInv, FedInv
    <3>2. open /\ offered > 0
      <4>1. open = (ui.at # "rebuild") /\ cleared \in 0 .. offered /\ offered \in Nat
        BY <1>1 DEF IInv, TypeOK, MailboxType
      <4>2. open
        BY ONLY <2>1, <4>1, Zenon
      <4>3. QED
        BY <3>1, <4>1, <4>2
    <3>3. shown = offered
      BY <1>1, <2>1, <2>3, <3>2 DEF IInv, KeptInv
    <3>4. Carries(current, offered)
      BY <1>1, <2>1, <3>1, <3>3 DEF IInv, TypeOK, MailboxType, StoredInv
    <3>5. current.ops \in Nat /\ ops \in Nat
      BY <1>1 DEF IInv, TypeOK, StoresType, PayloadType, Shown
    <3>6. QED
      BY <2>1, <2>3, <3>1, <3>4, <3>5 DEF Carries
  <2>4. QED
    BY <2>1, <2>2, <2>3
<1>2. IInv => QuietShowsDevices
  BY <1>1 DEF QuietShowsDevices
<1>3. QED
  BY <1>2, Invariance, PTL

(* One step loses no call of the UI.                                       *)
LEMMA CallStep ==
  ASSUME TypeOK, NoCallLost, [Next]_vars
  PROVE  NoCallLost'
<1> USE FeedAssumption DEF NoCallLost, Behind, TypeOK, LoopType, StoresType,
       deviceVars, editVars, historyVars, sessionVars, mailboxVars, NextIteration,
       MarkStore
<1>1. CASE ChangeMembership
  BY <1>1 DEF ChangeMembership
<1>2. ASSUME NEW d \in Devices, NewCloud(d)
     PROVE  NoCallLost'
  BY <1>2 DEF NewCloud
<1>3. ASSUME NEW d \in Devices, NoCloud(d)
     PROVE  NoCallLost'
  BY <1>3 DEF NoCloud
<1>4. CASE Collect
  BY <1>4 DEF Collect
<1>5. CASE ReadCloud
  BY <1>5 DEF ReadCloud
<1>6. CASE TakeClouds
  BY <1>6 DEF TakeClouds, AllRead
<1>7. CASE FindUnchanged
  BY <1>7 DEF FindUnchanged, AllRead
<1>8. CASE Feed
  BY <1>8 DEF Feed, Mailbox!Offer
<1>9. CASE FindCleared
  BY <1>9 DEF FindCleared
<1>10. CASE ClearCloud
  BY <1>10 DEF ClearCloud
<1>11. CASE ClearRender
  BY <1>11 DEF ClearRender
<1>12. CASE ClearNotify
  BY <1>12 DEF ClearNotify
<1>13. ASSUME NEW f \in pending, Publish(f)
     PROVE  NoCallLost'
  BY <1>13 DEF Publish, Mailbox!Show
<1>14. ASSUME NEW f \in pending, Supersede(f)
     PROVE  NoCallLost'
  BY <1>14 DEF Supersede, Mailbox!Drop
<1>15. ASSUME NEW f \in pending, RejectFrame(f)
     PROVE  NoCallLost'
  BY <1>15 DEF RejectFrame, Mailbox!Reject
<1>16. CASE LoseFrames
  BY <1>16 DEF LoseFrames, Mailbox!Discard
<1>17. ASSUME NEW p \in publishing, StoreRender(p)
     PROVE  NoCallLost'
  <2>1. [p EXCEPT !.at = "cloud"] \in publishing'
    BY <1>17 DEF StoreRender
  <2>2. QED
    BY <2>1
<1>18. ASSUME NEW p \in publishing, StoreCloud(p)
     PROVE  NoCallLost'
  <2>1. [p EXCEPT !.at = "notify"] \in publishing'
    BY <1>18 DEF StoreCloud
  <2>2. QED
    BY <2>1
<1>19. ASSUME NEW p \in publishing, Notify(p)
     PROVE  NoCallLost'
  BY <1>19 DEF Notify
<1>20. CASE BeginDraw
  BY <1>20 DEF BeginDraw
<1>21. CASE DrawCloud
  BY <1>21 DEF DrawCloud
<1>22. CASE DrawRender
  BY <1>22 DEF DrawRender
<1>23. CASE EditOperator
  BY <1>23 DEF EditOperator
<1>24. CASE BeginRebuild
  BY <1>24 DEF BeginRebuild, Mailbox!Close
<1>25. CASE EndRebuild
  BY <1>25 DEF EndRebuild, Mailbox!Reopen, Joined
<1>26. CASE Reprocess
  BY <1>26 DEF Reprocess
<1>27. CASE UNCHANGED vars
  BY <1>27 DEF vars
<1>28. QED
  BY <1>1, <1>2, <1>3, <1>4, <1>5, <1>6, <1>7, <1>8, <1>9, <1>10, <1>11,
     <1>12, <1>13, <1>14, <1>15, <1>16, <1>17, <1>18, <1>19, <1>20,
     <1>21, <1>22, <1>23, <1>24, <1>25, <1>26, <1>27
     DEF Next, DeviceStep, LoopStep, HandleFrame, OutputStep, DrawStep,
     EditStep

(* No store is left undrawn: the flag that holds back calls of the UI      *)
(* never holds back the last one.                                          *)
THEOREM NoCallIsLost == Spec => []NoCallLost
<1>1. Init => NoCallLost
  BY DEF Init, NoCallLost, Behind
<1>2. IInv /\ NoCallLost /\ [Next]_vars => NoCallLost'
  BY CallStep DEF IInv
<1>3. QED
  BY <1>1, <1>2, Invariance, PTL DEF Spec


-----------------------------------------------------------------------------
(* Each frame has one call of on_pipeline_output, which stores the buffer of *)
(* its points before its cloud: once the call of the newest frame is through *)
(* the two stores are of that frame, unless another store was late.          *)
OneCallInv == \A p, q \in publishing : p.seq = q.seq => p = q
BufferInv ==
  shown > cleared /\ "render" \notin late =>
    \A p \in publishing :
      p.seq = shown /\ p.at = "cloud" /\ ~p.out.empty => render = p.out
PairedInv ==
  /\ shown > cleared /\ late = {} /\ ~current.empty
  /\ \A p \in publishing : p.seq = shown => p.at = "notify"
  => render = current
PairInv == OneCallInv /\ BufferInv /\ PairedInv

(* One call moves on, and the others stay as they are.                       *)
LEMMA CallMoves ==
  ASSUME OneCallInv, PublishingType, NEW p \in publishing, NEW at,
         publishing' = (publishing \ {p}) \union {[p EXCEPT !.at = at]}
  PROVE  /\ OneCallInv'
         /\ \A q \in publishing' :
              \/ q \in publishing /\ q.seq # p.seq
              \/ q.seq = p.seq /\ q.out = p.out /\ q.at = at
<1>1. PICK r : r = [p EXCEPT !.at = at]
  OBVIOUS
<1>2. r.seq = p.seq /\ r.out = p.out /\ r.at = at
  BY <1>1 DEF PublishingType
<1>3. publishing' = (publishing \ {p}) \union {r}
  BY <1>1
<1>4. \A q \in publishing' : q = r \/ (q \in publishing /\ q.seq # p.seq)
  BY <1>3 DEF OneCallInv
<1>5. QED
  BY <1>2, <1>3, <1>4 DEF OneCallInv

(* One step keeps the two stores together.                                   *)
LEMMA PairStep ==
  ASSUME IInv, PairInv, [Next]_vars
  PROVE  PairInv'
<1> USE DEF PairInv, OneCallInv, BufferInv, PairedInv
<1>1. /\ shown \in Nat /\ cleared \in Nat /\ offered \in Nat /\ shown <= offered
      /\ PublishingType /\ \A p \in publishing : p.seq \in Nat /\ p.seq <= shown
  BY DEF IInv, TypeOK, MailboxType, PublishingType, PublishedInv, Frames
<1>2. CASE UNCHANGED <<publishing, shown, cleared, late, render, current>>
  BY <1>2
<1>3. ASSUME cleared' = offered, shown' = shown
      PROVE  ~(shown' > cleared')
  BY <1>1, <1>3
<1>4. CASE FindCleared
  BY <1>3, <1>4 DEF FindCleared, mailboxVars
<1>5. CASE ClearCloud
  BY <1>3, <1>5 DEF ClearCloud, mailboxVars
<1>6. CASE ClearRender
  <2>1. cleared' = cleared /\ shown' = shown /\ publishing' = publishing
    BY <1>6 DEF ClearRender, mailboxVars
  <2>2. cleared = offered
    BY <1>6 DEF ClearRender, IInv, FedInv, ClearedInv
  <2>3. QED
    BY <1>3, <2>1, <2>2
<1>7. ASSUME NEW f \in pending, Publish(f)
      PROVE  PairInv'
  <2>1. shown' = f /\ f > shown
    BY <1>7 DEF Publish, Mailbox!Show
  <2>2. PICK out \in Outcomes(f) :
          publishing' = publishing \union
            {[seq |-> f, out |-> out, at |-> IF out.empty THEN "cloud" ELSE "render"]}
    BY <1>7 DEF Publish
  <2>3. PICK r : r = [seq |-> f, out |-> out, at |-> IF out.empty THEN "cloud" ELSE "render"]
    OBVIOUS
  <2>4. r.seq = f /\ r.at # "notify" /\ (r.at = "cloud" => r.out.empty)
    BY <2>3
  <2>5. publishing' = publishing \union {r}
    BY <2>2, <2>3
  <2>6. \A q \in publishing : q.seq # f
    BY <1>1, <2>1
  <2>7. OneCallInv'
    BY <2>4, <2>5, <2>6
  <2>8. BufferInv'
    BY <2>1, <2>4, <2>5, <2>6
  <2>9. PairedInv'
    BY <2>1, <2>4, <2>5
  <2>10. QED
    BY <2>7, <2>8, <2>9
<1>8. ASSUME NEW p \in publishing, StoreRender(p)
      PROVE  PairInv'
  <2>1. /\ publishing' = (publishing \ {p}) \union {[p EXCEPT !.at = "cloud"]}
        /\ render' = p.out
        /\ UNCHANGED <<shown, cleared, current>>
        /\ "render" \notin late' => ~Overtaken(p)
    BY <1>8 DEF StoreRender, MarkStore, mailboxVars
  <2>2. /\ OneCallInv'
        /\ \A q \in publishing' : \/ q \in publishing /\ q.seq # p.seq
                                  \/ q.seq = p.seq /\ q.out = p.out /\ q.at = "cloud"
    <3>1. publishing' = (publishing \ {p}) \union {[p EXCEPT !.at = "cloud"]}
      BY <2>1
    <3>2. OneCallInv /\ PublishingType
      BY <1>1
    <3>3. QED
      BY ONLY <3>1, <3>2, CallMoves
  <2>3. "render" \notin late' => p.seq = shown
    BY <1>1, <2>1 DEF Overtaken
  <2>4. BufferInv'
    BY <2>1, <2>2, <2>3
  <2>5. [p EXCEPT !.at = "cloud"] \in publishing' /\ [p EXCEPT !.at = "cloud"].at # "notify"
        /\ [p EXCEPT !.at = "cloud"].seq = p.seq
    BY <1>1, <2>1 DEF PublishingType
  <2>6. PairedInv'
    BY <2>1, <2>3, <2>5
  <2>7. QED
    BY <2>2, <2>4, <2>6
<1>9. ASSUME NEW p \in publishing, StoreCloud(p)
      PROVE  PairInv'
  <2>1. /\ publishing' = (publishing \ {p}) \union {[p EXCEPT !.at = "notify"]}
        /\ current' = p.out /\ p.at = "cloud"
        /\ UNCHANGED <<shown, cleared, render>>
        /\ "cloud" \notin late' => ~Overtaken(p)
        /\ "render" \notin late' => "render" \notin late
    BY <1>9 DEF StoreCloud, MarkStore, mailboxVars
  <2>2. /\ OneCallInv'
        /\ \A q \in publishing' : \/ q \in publishing /\ q.seq # p.seq
                                  \/ q.seq = p.seq /\ q.out = p.out /\ q.at = "notify"
    <3>1. publishing' = (publishing \ {p}) \union {[p EXCEPT !.at = "notify"]}
      BY <2>1
    <3>2. OneCallInv /\ PublishingType
      BY <1>1
    <3>3. QED
      BY ONLY <3>1, <3>2, CallMoves
  <2>3. "cloud" \notin late' => p.seq = shown
    BY <1>1, <2>1 DEF Overtaken
  <2>4. BufferInv'
    BY <2>1, <2>2
  <2>5. PairedInv'
    BY <2>1, <2>3
  <2>6. QED
    BY <2>2, <2>4, <2>5
<1>10. ASSUME NEW p \in publishing, Notify(p)
       PROVE  PairInv'
  <2>1. /\ publishing' = publishing \ {p} /\ p.at = "notify"
        /\ UNCHANGED <<shown, cleared, render, current, late>>
    BY <1>10 DEF Notify, mailboxVars, historyVars
  <2>2. OneCallInv' /\ BufferInv'
    BY <2>1
  <2>3. PairedInv'
    BY <2>1
  <2>4. QED
    BY <2>2, <2>3
<1>11. CASE EndRebuild
  <2>1. shown' = 0 /\ cleared' = 0 /\ publishing' = publishing
    BY <1>11 DEF EndRebuild, Mailbox!Reopen
  <2>2. QED
    BY <2>1
<1>12. CASE DeviceStep
  BY <1>2, <1>12 DEF DeviceStep, ChangeMembership, NewCloud, NoCloud, sessionVars,
     historyVars, mailboxVars
<1>13. CASE Collect \/ ReadCloud \/ TakeClouds \/ FindUnchanged
  BY <1>2, <1>13 DEF Collect, ReadCloud, TakeClouds, FindUnchanged, sessionVars, historyVars,
     mailboxVars
<1>14. CASE Feed \/ ClearNotify
  BY <1>2, <1>14 DEF Feed, ClearNotify, Mailbox!Offer, sessionVars, historyVars, mailboxVars
<1>15. ASSUME NEW f \in pending, Supersede(f) \/ RejectFrame(f)
       PROVE  PairInv'
  BY <1>2, <1>15 DEF Supersede, RejectFrame, Mailbox!Drop, Mailbox!Reject, sessionVars,
     historyVars
<1>16. CASE LoseFrames
  BY <1>2, <1>16 DEF LoseFrames, Mailbox!Discard, sessionVars, historyVars
<1>17. CASE DrawStep
  BY <1>2, <1>17 DEF DrawStep, BeginDraw, DrawCloud, DrawRender, sessionVars, historyVars,
     mailboxVars
<1>18. CASE EditOperator \/ BeginRebuild \/ Reprocess
  BY <1>2, <1>18 DEF EditOperator, BeginRebuild, Reprocess, Mailbox!Close, sessionVars,
     historyVars, mailboxVars
<1>19. CASE UNCHANGED vars
  BY <1>2, <1>19 DEF vars, sessionVars, historyVars, mailboxVars
<1>20. QED
  BY <1>4, <1>5, <1>6, <1>7, <1>8, <1>9, <1>10, <1>11, <1>12, <1>13, <1>14, <1>15, <1>16,
     <1>17, <1>18, <1>19
     DEF Next, LoopStep, HandleFrame, OutputStep, EditStep

(* When all is quiet the buffer drawn is that of the cloud drawn, although   *)
(* the two are stored and drawn one after the other by different threads.    *)
THEOREM OneFrameIsDrawn == Spec => []QuietDrawsOneFrame
<1>1. Init => PairInv
  BY DEF Init, Mailbox!Init, PairInv, OneCallInv, BufferInv, PairedInv
<1>2. IInv /\ PairInv /\ [Next]_vars => PairInv'
  BY PairStep
<1>3. Spec => []PairInv
  BY <1>1, <1>2, Invariance, PTL DEF Spec
<1>4. ASSUME IInv, PairInv, NoCallLost, Quiet, late = {}, offered \notin rejected,
             ~current.empty
      PROVE  ui.render = ui.cloud
  <2>1. /\ loop.at \in {"collect", "read"} /\ ~force /\ pending = {} /\ publishing = {}
        /\ ~notified /\ ui.at = "idle"
    BY <1>4 DEF Quiet
  <2>2. ui.cloud = current /\ ui.render = render
    BY <1>4, <2>1 DEF NoCallLost, Behind
  <2>3. Clouds(loop.last) # {}
    <3>1. current # None
      BY <1>4 DEF None
    <3>2. QED
      BY <1>4, <2>1, <3>1 DEF IInv, ClearedInv
  <2>4. cleared < offered
    BY <1>4, <2>1, <2>3 DEF IInv, FedInv
  <2>5. open /\ offered > 0
    <3>1. open = (ui.at # "rebuild") /\ cleared \in 0 .. offered /\ offered \in Nat
      BY <1>4 DEF IInv, TypeOK, MailboxType
    <3>2. open
      BY ONLY <2>1, <3>1, Zenon
    <3>3. QED
      BY <2>4, <3>1, <3>2
  <2>6. shown = offered
    BY <1>4, <2>1, <2>5 DEF IInv, KeptInv
  <2>7. render = current
    BY <1>4, <2>1, <2>4, <2>6 DEF PairInv, PairedInv, IInv, TypeOK, MailboxType
  <2>8. QED
    BY <2>2, <2>7
<1>5. IInv /\ PairInv /\ NoCallLost => QuietDrawsOneFrame
  BY <1>4 DEF QuietDrawsOneFrame
<1>6. QED
  BY <1>3, <1>5, Invariance, NoCallIsLost, PTL
=============================================================================
