----------------------- MODULE SitePublicationProofs -----------------------
(***************************************************************************)
(* Proofs about the publications of a site's changes, for every number of   *)
(* revisions and of pushes: types; that what the platform merges is the     *)
(* head it pinned; that the phases implement GovernedWrite; and that an     *)
(* approved site change never rolls a newer one back.                       *)
(***************************************************************************)
EXTENDS SitePublication, TLAPS

LEMMA RevisionFacts ==
    /\ Revisions \subseteq Nat \ {0}
    /\ NoRevision = 0 /\ NoRevision \notin Revisions
    /\ NoCommit = -1 /\ NoHead = 0
BY SiteAssumption DEF Revisions, NoRevision, NoCommit, NoHead

-----------------------------------------------------------------------------
(* Types *)

Entry == [pub : Revisions, head : Nat, by : {"platform", "person"}]

LEMMA InitTypes == Init => SiteTypeOK
BY RevisionFacts DEF Init, SiteTypeOK, RevisionStatus, Item, FirstItem, ItemStatus, Publication,
    AbsentPublication, PublicationStatus, Handler, IdleHandler, Phases, Branch, NoBranch, DeployStates

LEMMA LandTypes ==
    ASSUME SiteTypeOK, NEW p \in Revisions, NEW who \in {"platform", "person"}, Land(p, who)
    PROVE  main' \in Seq(Entry) /\ pr' \in [Revisions -> {"none", "open", "closed", "merged"}]
BY DEF SiteTypeOK, Land, Entry, Branch

\* What the steps of a handler do to its rows.
LEMMA IdleTypes == IdleHandler \in Handler
BY DEF IdleHandler, Handler, Phases, FirstItem, Item, ItemStatus, NoRevision

LEMMA StatusTypes ==
    ASSUME pub \in [Revisions -> Publication], NEW p \in Revisions,
           NEW status \in PublicationStatus, SetStatus(p, status)
    PROVE  pub' \in [Revisions -> Publication]
BY DEF SetStatus, Publication

LEMMA ReturnTypes ==
    ASSUME run \in [Revisions -> Handler], NEW p \in Revisions, Return(p)
    PROVE  run' \in [Revisions -> Handler]
BY IdleTypes DEF Return

LEMMA GoToTypes ==
    ASSUME run \in [Revisions -> Handler], NEW p \in Revisions, NEW phase \in Phases, GoTo(p, phase)
    PROVE  run' \in [Revisions -> Handler]
BY DEF GoTo, Handler

LEMMA HeadTypes ==
    ASSUME branch \in [Revisions -> Branch], NEW p \in Revisions, NEW head \in Nat,
           branch' = [branch EXCEPT ![p].head = head]
    PROVE  branch' \in [Revisions -> Branch]
BY DEF Branch

LEMMA FieldTypes ==
    ASSUME NEW row \in Publication, NEW status \in PublicationStatus, NEW base \in Int,
           NEW made \in BOOLEAN, NEW head \in Nat
    PROVE  /\ [row EXCEPT !.status = status, !.base = base] \in Publication
           /\ [row EXCEPT !.status = status, !.branch = made, !.base = base] \in Publication
           /\ [row EXCEPT !.status = status, !.pr = made, !.head = head] \in Publication
BY DEF Publication

LEMMA PinTypes ==
    ASSUME NEW row \in Publication, NEW head \in Nat
    PROVE  [row EXCEPT !.status = "pull_request_created", !.pr = TRUE, !.head = head] \in Publication
BY DEF Publication, PublicationStatus

LEMMA RowTypes ==
    ASSUME pub \in [Revisions -> Publication], NEW p \in Revisions, NEW row \in Publication,
           pub' = [pub EXCEPT ![p] = row]
    PROVE  pub' \in [Revisions -> Publication]
OBVIOUS

LEMMA UnlockTypes ==
    ASSUME lock \in Revisions \cup {NoRevision}, NEW p \in Revisions, Unlock(p)
    PROVE  lock' \in Revisions \cup {NoRevision}
BY DEF Unlock

LEMMA ValueTypes ==
    ASSUME main \in Seq(Entry), NEW k \in 0..Len(main)
    PROVE  ValueAt(k) \in Revisions \cup {NoRevision}
<1>1. k # 0 => main[k] \in Entry
  OBVIOUS
<1>2. QED
  BY <1>1 DEF ValueAt, Entry

LEMMA MainTypes == SiteTypeOK => main \in Seq(Entry) /\ Len(main) \in Nat
BY DEF SiteTypeOK, Entry

LEMMA EntryTypes ==
    ASSUME SiteTypeOK, NEW k \in DOMAIN main
    PROVE  main[k] \in Entry /\ main[k].pub \in Revisions /\ k \in 1..Len(main)
<1>1. main[k] \in Entry /\ k \in 1..Len(main)
  BY MainTypes
<1>2. QED
  BY <1>1 DEF Entry

LEMMA OperatorTypes ==
    ASSUME SiteTypeOK, NEW r \in Revisions, Operators(r)
    PROVE  SiteTypeOK'
<1> USE RevisionFacts DEF SiteTypeOK, people, rows, github, RevisionStatus, Item, ItemStatus
<1>1. CASE CreateRevision(r)
  <2>1. rev' \in [Revisions -> RevisionStatus]
    BY <1>1 DEF CreateRevision
  <2>2. item' \in Item
    BY <1>1 DEF CreateRevision
  <2>3. QED
    BY <1>1, <2>1, <2>2 DEF CreateRevision
<1>2. CASE OpenDecision(r)
  BY <1>2 DEF OpenDecision
<1>3. CASE Decide(r)
  <2>1. rev' \in [Revisions -> RevisionStatus]
    BY <1>3 DEF Decide, Reject, ApproveEditorial, ApproveClient
  <2>2. item' \in Item
    BY <1>3 DEF Decide, Reject, ApproveEditorial, ApproveClient
  <2>3. seen' \in [Revisions -> RevisionStatus]
    BY <1>3 DEF Decide
  <2>4. QED
    BY <1>3, <2>1, <2>2, <2>3 DEF Decide
<1>4. "reserved" \in PublicationStatus
  BY DEF PublicationStatus
<1>5. CASE Publish(r)
  <2>1. pub' \in [Revisions -> Publication]
    BY <1>4, <1>5, StatusTypes DEF Publish, Reserved, SetStatus
  <2>2. item' \in Item
    BY <1>5 DEF Publish
  <2>3. QED
    BY <1>5, <2>1, <2>2 DEF Publish
<1>6. CASE Recommend(r)
  <2>1. Value \in Revisions \cup {NoRevision}
    BY MainTypes, ValueTypes DEF Value
  <2>2. rev' \in [Revisions -> RevisionStatus]
    BY <1>6 DEF Recommend
  <2>3. QED
    BY <1>6, <2>1, <2>2 DEF Recommend
<1>7. CASE DecideRecommendation(r)
  BY <1>7 DEF DecideRecommendation
<1>8. CASE Implement(r)
  <2>1. pub' \in [Revisions -> Publication]
    BY <1>4, <1>8, StatusTypes DEF Implement, Reserved, SetStatus
  <2>2. QED
    BY <1>8, <2>1 DEF Implement
<1>9. QED
  BY <1>1, <1>2, <1>3, <1>5, <1>6, <1>7, <1>8 DEF Operators

LEMMA EndTypes ==
    ASSUME SiteTypeOK, NEW p \in Revisions, NEW status \in PublicationStatus, End(p, status)
    PROVE  /\ pub' \in [Revisions -> Publication]
           /\ run' \in [Revisions -> Handler]
           /\ lock' \in Revisions \cup {NoRevision}
BY StatusTypes, ReturnTypes, UnlockTypes DEF SiteTypeOK, End

LEMMA InterruptedTypes ==
    ASSUME SiteTypeOK, NEW p \in Revisions, Interrupted(p)
    PROVE  /\ pub' \in [Revisions -> Publication]
           /\ run' \in [Revisions -> Handler]
           /\ lock' \in Revisions \cup {NoRevision}
<1>1. "reconciliation_required" \in PublicationStatus
  BY DEF PublicationStatus
<1>2. pub' \in [Revisions -> Publication]
  BY <1>1, StatusTypes DEF SiteTypeOK, Interrupted
<1>3. QED
  BY <1>2, ReturnTypes, UnlockTypes DEF SiteTypeOK, Interrupted

LEMMA ItemTypes ==
    ASSUME SiteTypeOK, NEW p \in Revisions, NEW status \in ItemStatus,
           NEW approved \in Revisions \cup {NoRevision}, SetItem(p, status, approved)
    PROVE  item' \in Item
BY DEF SiteTypeOK, SetItem, Kept, Item, Handler

LEMMA HandlerTypes ==
    ASSUME SiteTypeOK, NEW p \in Revisions, Handle(p)
    PROVE  SiteTypeOK'
<1> USE RevisionFacts DEF SiteTypeOK, people, github
<1> DEFINE RowsOK == /\ pub' \in [Revisions -> Publication]
                       /\ run' \in [Revisions -> Handler]
                       /\ lock' \in Revisions \cup {NoRevision}
<1>1. CASE Load(p)
  <2>1. [phase |-> "loaded", item |-> item] \in Handler
    BY DEF Handler, Phases
  <2>2. run' \in [Revisions -> Handler] /\ lock' \in Revisions \cup {NoRevision}
    BY <1>1, <2>1 DEF Load
  <2>3. QED
    BY <1>1, <2>2 DEF Load
<1>2. CASE Refuse(p)
  <2>1. RowsOK
    BY <1>2, EndTypes DEF Refuse, PublicationStatus, Stopped
  <2>2. QED
    BY <1>2, <2>1 DEF Refuse
<1>3. CASE Reconcile(p)
  <2>1. Reconciled(p) \in PublicationStatus
    BY DEF Reconciled, PublicationStatus, Merged, Stopped
  <2>2. pub' \in [Revisions -> Publication]
    BY <1>3, <2>1, StatusTypes DEF Reconcile
  <2>3. run' \in [Revisions -> Handler] /\ lock' \in Revisions \cup {NoRevision}
    BY <1>3, ReturnTypes, UnlockTypes DEF Reconcile
  <2>4. QED
    BY <1>3, <2>2, <2>3 DEF Reconcile
<1>4. Pinned(p) \in Int
  BY DEF Pinned, Publication
<1>5. ASSUME Branched(p, Pinned(p)) PROVE branch' \in [Revisions -> Branch]
  BY <1>4, <1>5 DEF Branched, Branch
<1>6. CASE Prepare(p)
  <2>1. pub' \in [Revisions -> Publication]
    <3> DEFINE row == [pub[p] EXCEPT !.status = "branch_created", !.branch = TRUE, !.base = Pinned(p)]
    <3>1. row \in Publication
      BY <1>4, FieldTypes DEF PublicationStatus
    <3>2. pub' = [pub EXCEPT ![p] = row]
      BY <1>6 DEF Prepare
    <3>3. QED
      BY <3>1, <3>2, RowTypes
  <2>2. run' \in [Revisions -> Handler] /\ lock' \in Revisions \cup {NoRevision}
    BY <1>6, GoToTypes, UnlockTypes DEF Prepare, Phases
  <2>3. branch' \in [Revisions -> Branch]
    BY <1>5, <1>6 DEF Prepare
  <2>4. QED
    BY <1>6, <2>1, <2>2, <2>3 DEF Prepare
<1>7. CASE BuildFails(p)
  <2>1. pub' \in [Revisions -> Publication]
    <3> DEFINE row == [pub[p] EXCEPT !.status = "failed", !.base = Pinned(p)]
    <3>1. row \in Publication
      BY <1>4, FieldTypes DEF PublicationStatus, Stopped
    <3>2. pub' = [pub EXCEPT ![p] = row]
      BY <1>7 DEF BuildFails
    <3>3. QED
      BY <3>1, <3>2, RowTypes
  <2>2. run' \in [Revisions -> Handler] /\ lock' \in Revisions \cup {NoRevision}
    BY <1>7, ReturnTypes, UnlockTypes DEF BuildFails
  <2>3. QED
    BY <1>7, <2>1, <2>2 DEF BuildFails
<1>8. CASE PrepareFails(p)
  <2>1. pub' \in [Revisions -> Publication]
    <3> DEFINE row == [pub[p] EXCEPT !.status = "reconciliation_required", !.base = Pinned(p)]
    <3>1. row \in Publication
      BY <1>4, FieldTypes DEF PublicationStatus
    <3>2. pub' = [pub EXCEPT ![p] = row] \/ UNCHANGED pub
      BY <1>8 DEF PrepareFails
    <3>3. QED
      BY <3>1, <3>2, RowTypes
  <2>2. run' \in [Revisions -> Handler] /\ lock' \in Revisions \cup {NoRevision}
    BY <1>8, ReturnTypes, UnlockTypes DEF PrepareFails
  <2>3. branch' \in [Revisions -> Branch]
    BY <1>5, <1>8 DEF PrepareFails
  <2>4. QED
    BY <1>8, <2>1, <2>2, <2>3 DEF PrepareFails
<1>9. CASE OpenPullRequest(p)
  <2>1. RowsOK
    <3>1. CASE GoTo(p, "pin") /\ UNCHANGED <<pub, lock>>
      BY <3>1, GoToTypes DEF Phases
    <3>2. CASE Interrupted(p)
      BY <3>2, InterruptedTypes
    <3>3. QED
      BY <1>9, <3>1, <3>2 DEF OpenPullRequest
  <2>2. branch' \in [Revisions -> Branch]
    <3>1. branch[p].head \in Nat /\ 1 \in Nat
      BY DEF Branch
    <3>2. QED
      BY <1>9, <3>1, HeadTypes DEF OpenPullRequest, FilePut
  <2>3. pr' \in [Revisions -> {"none", "open", "closed", "merged"}]
    BY <1>9 DEF OpenPullRequest, OnePullRequest
  <2>4. QED
    BY <1>9, <2>1, <2>2, <2>3 DEF OpenPullRequest
<1>10. CASE PinHead(p)
  <2>1. pub' \in [Revisions -> Publication]
    <3> DEFINE row == [pub[p] EXCEPT !.status = "pull_request_created", !.pr = TRUE,
                                     !.head = branch[p].head]
    <3>1. branch[p].head \in Nat
      BY DEF Branch
    <3>2. row \in Publication
      BY <3>1, PinTypes
    <3>3. pub' = [pub EXCEPT ![p] = row]
      BY <1>10 DEF PinHead
    <3>4. QED
      BY <3>2, <3>3, RowTypes
  <2>2. run' \in [Revisions -> Handler]
    BY <1>10, GoToTypes DEF PinHead, Phases
  <2>3. QED
    BY <1>10, <2>1, <2>2 DEF PinHead
<1>11. CASE RequestFails(p)
  <2>1. RowsOK
    BY <1>11, EndTypes DEF RequestFails, PublicationStatus
  <2>2. QED
    BY <1>11, <2>1 DEF RequestFails
<1>12. CASE WaitForChecks(p)
  <2>1. CheckOutcome(p) \cup {"reconciliation_required"} \subseteq PublicationStatus
    BY DEF CheckOutcome, PublicationStatus, Stopped
  <2>2. RowsOK
    BY <1>12, <2>1, EndTypes DEF WaitForChecks
  <2>3. QED
    BY <1>12, <2>2 DEF WaitForChecks
<1>13. CASE ChecksPass(p)
  <2>1. pub' \in [Revisions -> Publication]
    BY <1>13, StatusTypes DEF ChecksPass, PublicationStatus
  <2>2. run' \in [Revisions -> Handler] /\ lock' \in Revisions \cup {NoRevision}
    BY <1>13, GoToTypes, UnlockTypes DEF ChecksPass, Phases
  <2>3. QED
    BY <1>13, <2>1, <2>2 DEF ChecksPass
<1>14. CASE Merge(p)
  <2>1. RowsOK
    <3>1. CASE SetStatus(p, "merged") /\ GoTo(p, "loaded") /\ UNCHANGED lock
      BY <3>1, StatusTypes, GoToTypes DEF PublicationStatus, Merged, Phases
    <3>2. CASE Interrupted(p)
      BY <3>2, InterruptedTypes
    <3>3. QED
      BY <1>14, <3>1, <3>2 DEF Merge
  <2>2. main' \in Seq(Entry) /\ pr' \in [Revisions -> {"none", "open", "closed", "merged"}]
    BY <1>14, LandTypes DEF Merge, Entry
  <2>3. QED
    BY <1>14, <2>1, <2>2 DEF Merge, Entry
<1>15. CASE VerifyDeployment(p)
  <2>1. PICK status \in PublicationStatus, s \in ItemStatus : SetItemStatus(p, s) /\ End(p, status)
    BY <1>15 DEF VerifyDeployment, Undeployed, Pending, Failed, PublicationStatus, ItemStatus,
                 Merged, Stopped
  <2>2. RowsOK
    BY <2>1, EndTypes
  <2>3. item' \in Item
    BY <2>1, ItemTypes DEF SetItemStatus, Handler, Item
  <2>4. QED
    BY <1>15, <2>2, <2>3 DEF VerifyDeployment
<1>16. CASE MarkPublished(p)
  <2>1. RowsOK
    BY <1>16, EndTypes DEF MarkPublished, PublicationStatus, Stopped
  <2>2. item' \in Item
    BY <1>16, ItemTypes DEF MarkPublished, ItemStatus
  <2>3. QED
    BY <1>16, <2>1, <2>2 DEF MarkPublished
<1>17. CASE ReadLivePages(p)
  BY <1>17, GoToTypes DEF ReadLivePages, Phases
<1>18. CASE VerifyLive(p)
  <2>1. LiveVerdicts(p) \subseteq PublicationStatus
    BY DEF LiveVerdicts, PublicationStatus, Merged, Stopped
  <2>2. RowsOK
    BY <1>18, <2>1, EndTypes DEF VerifyLive
  <2>3. QED
    BY <1>18, <2>2 DEF VerifyLive
<1>19. CASE Crash(p)
  BY <1>19, ReturnTypes, UnlockTypes DEF Crash
<1>20. QED
  BY <1>1, <1>2, <1>3, <1>6, <1>7, <1>8, <1>9, <1>10, <1>11, <1>12, <1>13, <1>14, <1>15, <1>16,
     <1>17, <1>18, <1>19 DEF Handle

LEMMA OutsideTypes ==
    ASSUME SiteTypeOK, NEW p \in Revisions, Outside(p)
    PROVE  SiteTypeOK'
<1> USE DEF SiteTypeOK, people, rows
<1>1. CASE Push(p)
  <2>1. branch[p].head + 1 \in Nat
    BY DEF Branch
  <2>2. branch' \in [Revisions -> Branch]
    BY <1>1, <2>1, HeadTypes DEF Push
  <2>3. QED
    BY <1>1, <2>2 DEF Push
<1>2. CASE Close(p)
  BY <1>2 DEF Close
<1>3. CASE MergeByHand(p)
  <2>1. main' \in Seq(Entry) /\ pr' \in [Revisions -> {"none", "open", "closed", "merged"}]
    BY <1>3, LandTypes DEF MergeByHand
  <2>2. QED
    BY <1>3, <2>1 DEF MergeByHand, Entry
<1>4. CASE Report(p)
  BY <1>4 DEF Report
<1>5. CASE Deploy(p)
  BY <1>5 DEF Deploy, DeployStates
<1>6. QED
  BY <1>1, <1>2, <1>3, <1>4, <1>5 DEF Outside

LEMMA NextTypes == SiteTypeOK /\ [Next]_vars => SiteTypeOK'
<1>1. SiteTypeOK /\ UNCHANGED vars => SiteTypeOK'
  BY DEF vars, people, rows, github, SiteTypeOK
<1>2. QED
  BY <1>1, OperatorTypes, HandlerTypes, OutsideTypes DEF Next

\* SitePublication keeps its types.
THEOREM SiteTypesCorrect == Spec => []SiteTypeOK
<1>1. QED
  BY InitTypes, NextTypes, PTL DEF Spec

-----------------------------------------------------------------------------
(* What the platform merges *)

\* A publication with a handler is under way; its branch exists before its pull request does.
UnderWay(p) ==
    /\ ~In(p, "idle") => pub[p].status \notin Stopped \cup {"absent"}
    /\ branch[p].base # NoCommit => pub[p].status # "absent"
    /\ In(p, "open") \/ pr[p] # "none" => branch[p].base # NoCommit
    /\ deploy[p] # "none" => pr[p] = "merged"

\* The base branch has the merged publications.
OnMain(p) == pr[p] = "merged" <=> \E k \in DOMAIN main : main[k].pub = p

\* The head is pinned with the pull request, once; who is about to merge has seen its checks.
Pinning(p) ==
    /\ pub[p].status \in {"absent", "reserved", "branch_created"} => ~pub[p].pr
    /\ run[p].phase \in {"open", "pin"} => ~pub[p].pr
    /\ pub[p].status \in {"pull_request_created", "checks_running"} => pub[p].pr
    /\ In(p, "merge") => pub[p].pr /\ (green[p] \/ HeadChanged(p))
    /\ pub[p].head <= branch[p].head

\* The platform's merges are of publications whose pull request is recorded.
Merges ==
    \A k \in DOMAIN main : main[k].by = "platform" =>
        LET p == main[k].pub IN pub[p].pr /\ main[k].head = pub[p].head /\ green[p]

MergeInv ==
    /\ SiteTypeOK
    /\ \A p \in Revisions : UnderWay(p) /\ OnMain(p) /\ Pinning(p)
    /\ Merges

LEMMA InitMerges == Init => MergeInv
<1>1. Init => SiteTypeOK
  BY InitTypes
<1>2. ASSUME Init, NEW p \in Revisions PROVE UnderWay(p) /\ OnMain(p) /\ Pinning(p)
  <2>1. UnderWay(p)
    BY <1>2 DEF Init, UnderWay, IdleHandler, NoBranch, In
  <2>2. OnMain(p)
    BY <1>2 DEF Init, OnMain
  <2>3. Pinning(p)
    BY <1>2 DEF Init, Pinning, AbsentPublication, IdleHandler, NoBranch, In, NoHead
  <2>4. QED
    BY <2>1, <2>2, <2>3
<1>3. Init => Merges
  BY DEF Init, Merges
<1>4. QED
  BY <1>1, <1>2, <1>3 DEF MergeInv

\* A step that leaves GitHub alone and moves one publication.
LEMMA RowStep ==
    ASSUME MergeInv, NEW p \in Revisions, UNCHANGED github,
           pub' \in [Revisions -> Publication], run' \in [Revisions -> Handler],
           \A q \in Revisions \ {p} : pub'[q] = pub[q] /\ run'[q] = run[q],
           run'[p].phase # "idle" => pub'[p].status \notin Stopped \cup {"absent"},
           pub[p].status # "absent" => pub'[p].status # "absent",
           run'[p].phase # "open",
           pub[p].pr => pub'[p].pr /\ pub'[p].head = pub[p].head,
           Pinning(p)'
    PROVE  (\A q \in Revisions : UnderWay(q) /\ OnMain(q) /\ Pinning(q))' /\ Merges'
<1>1. UnderWay(p)' /\ OnMain(p)'
  BY DEF MergeInv, UnderWay, OnMain, In, github
<1>2. ASSUME NEW q \in Revisions \ {p} PROVE (UnderWay(q) /\ OnMain(q) /\ Pinning(q))'
  BY DEF MergeInv, UnderWay, OnMain, Pinning, In, HeadChanged, github
<1>3. Merges'
  <2>1. main' = main /\ green' = green
    BY DEF github
  <2>2. QED
    BY <2>1, EntryTypes DEF MergeInv, Merges
<1>4. QED
  BY <1>1, <1>2, <1>3

LEMMA EndStep ==
    ASSUME MergeInv, NEW p \in Revisions, UNCHANGED github,
           NEW status \in PublicationStatus \ {"absent", "reserved", "branch_created"},
           status \in {"pull_request_created", "checks_running"} => pub[p].pr,
           End(p, status)
    PROVE  (\A q \in Revisions : UnderWay(q) /\ OnMain(q) /\ Pinning(q))' /\ Merges'
<1>1. /\ pub' \in [Revisions -> Publication]
      /\ run' \in [Revisions -> Handler]
  BY EndTypes DEF MergeInv
<1>2. /\ pub'[p] = [pub[p] EXCEPT !.status = status]
      /\ run'[p] = IdleHandler
      /\ \A q \in Revisions \ {p} : pub'[q] = pub[q] /\ run'[q] = run[q]
  BY DEF MergeInv, SiteTypeOK, End, SetStatus, Return
<1>3. pub'[p].status = status /\ pub'[p].pr = pub[p].pr /\ pub'[p].head = pub[p].head
  BY <1>2 DEF MergeInv, SiteTypeOK, Publication
<1>4. Pinning(p)'
  BY <1>2, <1>3 DEF MergeInv, Pinning, IdleHandler, In, github
<1>5. run'[p].phase = "idle" /\ pub'[p].status # "absent"
  BY <1>2, <1>3 DEF IdleHandler
<1>6. QED
  BY <1>1, <1>2, <1>3, <1>4, <1>5, RowStep

\* The steps of a handler that leave GitHub alone.
LEMMA RowSteps ==
    ASSUME MergeInv, NEW p \in Revisions,
           \/ Load(p) \/ Refuse(p) \/ Reconcile(p) \/ BuildFails(p) \/ PinHead(p) \/ RequestFails(p)
           \/ WaitForChecks(p) \/ ChecksPass(p) \/ VerifyDeployment(p) \/ MarkPublished(p)
           \/ ReadLivePages(p) \/ VerifyLive(p) \/ Crash(p)
    PROVE  (\A q \in Revisions : UnderWay(q) /\ OnMain(q) /\ Pinning(q))' /\ Merges'
<1>1. SiteTypeOK /\ SiteTypeOK' /\ UnderWay(p) /\ Pinning(p)
  BY HandlerTypes DEF Handle, MergeInv
<1>2. pub \in [Revisions -> Publication] /\ run \in [Revisions -> Handler] /\ branch \in [Revisions -> Branch]
      /\ pub' \in [Revisions -> Publication] /\ run' \in [Revisions -> Handler]
  BY <1>1 DEF SiteTypeOK
<1>3. pub[p] \in Publication /\ run[p] \in Handler /\ branch[p] \in Branch
  BY <1>2
<1>4. CASE Load(p)
  <2>1. /\ UNCHANGED <<pub, github>>
        /\ run'[p].phase = "loaded"
        /\ \A q \in Revisions \ {p} : run'[q] = run[q]
    BY <1>2, <1>4 DEF Load
  <2>2. Pinning(p)' /\ pub[p].status \notin Stopped \cup {"absent"}
    BY <1>1, <1>4, <2>1 DEF Load, Pinning, In, github, Attemptable
  <2>3. QED
    BY <1>2, <2>1, <2>2, RowStep
<1>5. CASE Refuse(p)
  BY <1>5, EndStep DEF Refuse, PublicationStatus, Stopped
<1>6. CASE Reconcile(p)
  <2>1. /\ UNCHANGED github
        /\ pub[p].status = "reconciliation_required" /\ run[p].phase = "loaded"
        /\ \A q \in Revisions \ {p} : pub'[q] = pub[q] /\ run'[q] = run[q]
    BY <1>2, <1>6 DEF Reconcile, SetStatus, Return, In
  <2>2. pub'[p].pr = pub[p].pr /\ pub'[p].head = pub[p].head
    BY <1>2, <1>3, <1>6 DEF Reconcile, SetStatus, Publication
  <2>3. pub'[p].status \in {Reconciled(p), "reconciliation_required"}
    BY <1>2, <1>3, <1>6 DEF Reconcile, SetStatus, Publication
  <2>4. run'[p].phase = IF pub'[p].status \in {"failed", "reconciliation_required"} THEN "idle"
                        ELSE "loaded"
    BY <1>2, <1>6, <2>1 DEF Reconcile, Return, IdleHandler
  <2>5. Reconciled(p) \in {"reserved", "branch_created"} => ~pub[p].pr
    BY DEF Reconciled
  <2>6. Reconciled(p) = "pull_request_created" => pub[p].pr
    BY DEF Reconciled
  <2>7. Reconciled(p) \in {"reserved", "branch_created", "pull_request_created", "failed", "merged"}
    BY DEF Reconciled
  <2>8. Pinning(p)'
    BY <1>1, <2>1, <2>2, <2>3, <2>4, <2>5, <2>6, <2>7 DEF Pinning, In, github
  <2>9. /\ run'[p].phase # "idle" => pub'[p].status \notin Stopped \cup {"absent"}
        /\ pub'[p].status # "absent" /\ run'[p].phase # "open"
    BY <2>3, <2>4, <2>7 DEF Stopped
  <2>10. QED
    BY <1>2, <2>1, <2>2, <2>8, <2>9, RowStep
<1>7. CASE BuildFails(p)
  <2>1. /\ UNCHANGED github
        /\ run'[p] = IdleHandler
        /\ \A q \in Revisions \ {p} : pub'[q] = pub[q] /\ run'[q] = run[q]
    BY <1>2, <1>7 DEF BuildFails, Return
  <2>2. pub'[p].pr = pub[p].pr /\ pub'[p].head = pub[p].head /\ pub'[p].status = "failed"
    BY <1>2, <1>3, <1>7 DEF BuildFails, Publication
  <2>3. Pinning(p)'
    BY <1>1, <2>1, <2>2 DEF Pinning, In, IdleHandler, github
  <2>4. QED
    BY <1>2, <2>1, <2>2, <2>3, RowStep DEF IdleHandler
<1>8. CASE PinHead(p)
  <2>1. /\ UNCHANGED github
        /\ run[p].phase = "pin" /\ run'[p].phase = "loaded"
        /\ \A q \in Revisions \ {p} : pub'[q] = pub[q] /\ run'[q] = run[q]
    BY <1>2, <1>3, <1>8 DEF PinHead, GoTo, In, Handler
  <2>2. pub'[p].pr = TRUE /\ pub'[p].head = branch[p].head /\ pub'[p].status = "pull_request_created"
    BY <1>2, <1>3, <1>8 DEF PinHead, Publication
  <2>3. ~pub[p].pr
    BY <1>1, <2>1 DEF Pinning
  <2>4. Pinning(p)'
    BY <1>3, <2>1, <2>2 DEF Pinning, In, github, Branch
  <2>5. QED
    BY <1>2, <2>1, <2>2, <2>3, <2>4, RowStep DEF Stopped
<1>9. CASE RequestFails(p)
  BY <1>9, EndStep DEF RequestFails, PublicationStatus
<1>10. CASE WaitForChecks(p)
  <2>1. PICK status \in CheckOutcome(p) \cup {"reconciliation_required"} : End(p, status)
    BY <1>10 DEF WaitForChecks
  <2>2. status \in PublicationStatus \ {"absent", "reserved", "branch_created"}
    BY DEF CheckOutcome, PublicationStatus, Stopped
  <2>3. pub[p].pr
    BY <1>1, <1>10 DEF WaitForChecks, Waiting, Pinning
  <2>4. QED
    BY <1>10, <2>1, <2>2, <2>3, EndStep DEF WaitForChecks
<1>11. CASE ChecksPass(p)
  <2>1. /\ UNCHANGED github
        /\ run'[p].phase = "merge"
        /\ \A q \in Revisions \ {p} : pub'[q] = pub[q] /\ run'[q] = run[q]
    BY <1>2, <1>3, <1>11 DEF ChecksPass, GoTo, SetStatus, Handler
  <2>2. pub'[p].pr = pub[p].pr /\ pub'[p].head = pub[p].head
        /\ pub'[p].status = "pull_request_created"
    BY <1>2, <1>3, <1>11 DEF ChecksPass, SetStatus, Publication
  <2>3. pub[p].pr /\ green[p]
    BY <1>1, <1>11 DEF ChecksPass, Waiting, Pinning, CheckOutcome
  <2>4. Pinning(p)'
    BY <1>1, <2>1, <2>2, <2>3 DEF Pinning, In, github
  <2>5. QED
    BY <1>2, <2>1, <2>2, <2>3, <2>4, RowStep DEF Stopped
<1>12. CASE VerifyDeployment(p)
  <2>1. PICK status \in {"deployment_pending", "failed", "reconciliation_required"} : End(p, status)
    BY <1>12 DEF VerifyDeployment, Undeployed, Pending, Failed
  <2>2. QED
    BY <1>12, <2>1, EndStep DEF VerifyDeployment, PublicationStatus, Merged, Stopped
<1>13. CASE MarkPublished(p)
  BY <1>13, EndStep DEF MarkPublished, PublicationStatus, Stopped
<1>14. CASE ReadLivePages(p)
  <2>1. /\ UNCHANGED <<pub, github>>
        /\ run'[p].phase = "live" /\ run[p].phase = "loaded"
        /\ \A q \in Revisions \ {p} : run'[q] = run[q]
    BY <1>2, <1>3, <1>14 DEF ReadLivePages, GoTo, In, Handler, Verifying
  <2>2. Pinning(p)' /\ pub[p].status \notin Stopped \cup {"absent"}
    BY <1>1, <2>1 DEF Pinning, In, github, UnderWay
  <2>3. QED
    BY <1>2, <2>1, <2>2, RowStep
<1>15. CASE VerifyLive(p)
  <2>1. PICK status \in {"verified", "failed", "deployed"} : End(p, status)
    BY <1>15 DEF VerifyLive, LiveVerdicts
  <2>2. QED
    BY <1>15, <2>1, EndStep DEF VerifyLive, PublicationStatus, Merged, Stopped
<1>16. CASE Crash(p)
  <2>1. /\ UNCHANGED <<pub, github>>
        /\ run'[p] = IdleHandler
        /\ \A q \in Revisions \ {p} : run'[q] = run[q]
    BY <1>2, <1>16 DEF Crash, Return
  <2>2. Pinning(p)'
    BY <1>1, <2>1 DEF Pinning, In, IdleHandler, github
  <2>3. QED
    BY <1>2, <2>1, <2>2, RowStep DEF IdleHandler
<1>17. QED
  BY <1>4, <1>5, <1>6, <1>7, <1>8, <1>9, <1>10, <1>11, <1>12, <1>13, <1>14, <1>15, <1>16

\* What a step of one publication leaves true of the others, and of what was merged.
LEMMA Elsewhere ==
    ASSUME MergeInv, NEW p \in Revisions,
           \A q \in Revisions \ {p} : /\ pub'[q] = pub[q] /\ run'[q] = run[q]
                                      /\ branch'[q] = branch[q] /\ pr'[q] = pr[q]
                                      /\ green'[q] = green[q] /\ (deploy'[q] = "none" <=> deploy[q] = "none")
    PROVE  \A q \in Revisions \ {p} : UnderWay(q)' /\ Pinning(q)'
BY DEF MergeInv, UnderWay, Pinning, HeadChanged, In

LEMMA SameMain ==
    ASSUME MergeInv, main' = main,
           \A q \in Revisions : pr'[q] = "merged" <=> pr[q] = "merged",
           \A q \in Revisions : pub[q].pr => pub'[q].pr /\ pub'[q].head = pub[q].head,
           \A q \in Revisions : green[q] /\ pr[q] = "merged" => green'[q]
    PROVE  (\A q \in Revisions : OnMain(q)') /\ Merges'
<1>1. ASSUME NEW q \in Revisions PROVE OnMain(q)'
  BY DEF MergeInv, OnMain
<1>2. ASSUME NEW k \in DOMAIN main, main[k].by = "platform"
      PROVE  LET p == main[k].pub IN pub'[p].pr /\ main[k].head = pub'[p].head /\ green'[p]
  <2>1. main[k].pub \in Revisions
    BY EntryTypes DEF MergeInv
  <2>2. pr[main[k].pub] = "merged"
    BY <2>1 DEF MergeInv, OnMain
  <2>3. QED
    BY <1>2, <2>1, <2>2 DEF MergeInv, Merges
<1>3. QED
  BY <1>1, <1>2 DEF Merges

LEMMA LandStep ==
    ASSUME MergeInv, NEW p \in Revisions, NEW who \in {"platform", "person"}, Land(p, who),
           \A q \in Revisions : pub[q].pr => pub'[q].pr /\ pub'[q].head = pub[q].head,
           green' = green,
           who = "platform" => pub[p].pr /\ branch[p].head = pub[p].head /\ green[p]
    PROVE  (\A q \in Revisions : OnMain(q)') /\ Merges'
<1> DEFINE e == [pub |-> p, head |-> branch[p].head, by |-> who]
<1>1. main \in Seq(Entry) /\ Len(main) \in Nat /\ pr \in [Revisions -> {"none", "open", "closed", "merged"}]
  BY MainTypes DEF MergeInv, SiteTypeOK
<1>2. main' = Append(main, e) /\ pr' = [pr EXCEPT ![p] = "merged"]
  BY DEF Land
<1>3. /\ DOMAIN main' = DOMAIN main \cup {Len(main) + 1}
      /\ \A k \in DOMAIN main : main'[k] = main[k]
      /\ main'[Len(main) + 1] = e
  BY <1>1, <1>2
<1>4. e.pub = p /\ e.head = branch[p].head /\ e.by = who
  OBVIOUS
<1>5. ASSUME NEW q \in Revisions PROVE OnMain(q)'
  <2>1. pr[q] = "merged" <=> \E k \in DOMAIN main : main[k].pub = q
    BY DEF MergeInv, OnMain
  <2>2. pr'[q] = "merged" <=> pr[q] = "merged" \/ q = p
    BY <1>1, <1>2
  <2>3. (\E k \in DOMAIN main' : main'[k].pub = q) <=> (\E k \in DOMAIN main : main[k].pub = q) \/ q = p
    BY <1>3, <1>4
  <2>4. QED
    BY <2>1, <2>2, <2>3 DEF OnMain
<1>6. ASSUME NEW k \in DOMAIN main', main'[k].by = "platform"
      PROVE  LET q == main'[k].pub IN pub'[q].pr /\ main'[k].head = pub'[q].head /\ green'[q]
  <2>1. CASE k \in DOMAIN main
    <3>1. main[k].pub \in Revisions
      BY <2>1, EntryTypes DEF MergeInv
    <3>2. QED
      BY <1>3, <1>6, <2>1, <3>1 DEF MergeInv, Merges
  <2>2. CASE k = Len(main) + 1
    BY <1>3, <1>4, <1>6, <2>2
  <2>3. QED
    BY <1>3, <2>1, <2>2
<1>7. QED
  BY <1>5, <1>6 DEF Merges

\* The steps of a handler that write to GitHub.
LEMMA RequestSteps ==
    ASSUME MergeInv, NEW p \in Revisions,
           Prepare(p) \/ PrepareFails(p) \/ OpenPullRequest(p) \/ Merge(p)
    PROVE  (\A q \in Revisions : UnderWay(q) /\ OnMain(q) /\ Pinning(q))' /\ Merges'
<1>1. SiteTypeOK /\ SiteTypeOK' /\ UnderWay(p) /\ Pinning(p)
  BY HandlerTypes DEF Handle, MergeInv
<1>2. /\ pub \in [Revisions -> Publication] /\ run \in [Revisions -> Handler]
      /\ branch \in [Revisions -> Branch] /\ pr \in [Revisions -> {"none", "open", "closed", "merged"}]
      /\ branch' \in [Revisions -> Branch]
  BY <1>1 DEF SiteTypeOK
<1>3. pub[p] \in Publication /\ run[p] \in Handler /\ branch[p] \in Branch /\ branch'[p] \in Branch
  BY <1>2
<1>4. Pinned(p) # NoCommit
  BY <1>1, MainTypes DEF Pinned, NoCommit
<1>5. ASSUME Preparing(p) PROVE ~pub[p].pr /\ pub[p].status \notin Stopped \cup {"absent"}
  BY <1>1, <1>5 DEF Preparing, Pinning, Stopped
<1>6. ASSUME Branched(p, Pinned(p))
      PROVE  /\ \A q \in Revisions \ {p} : branch'[q] = branch[q]
             /\ branch'[p].base # NoCommit /\ branch'[p].head = branch[p].head
  BY <1>2, <1>3, <1>4, <1>6 DEF Branched, Branch
<1>7. ASSUME Interrupted(p)
      PROVE  /\ \A q \in Revisions \ {p} : pub'[q] = pub[q] /\ run'[q] = run[q]
             /\ run'[p] = IdleHandler
             /\ pub'[p].pr = pub[p].pr /\ pub'[p].head = pub[p].head
             /\ pub'[p].status \in {pub[p].status, "reconciliation_required"}
  BY <1>2, <1>3, <1>7 DEF Interrupted, SetStatus, Return, Publication
<1>8. CASE Prepare(p)
  <2>1. /\ UNCHANGED <<main, pr, green, deploy>>
        /\ \A q \in Revisions \ {p} : pub'[q] = pub[q] /\ run'[q] = run[q] /\ branch'[q] = branch[q]
        /\ run'[p].phase = "open"
    BY <1>2, <1>3, <1>6, <1>8 DEF Prepare, GoTo, Handler
  <2>2. pub'[p].pr = pub[p].pr /\ pub'[p].head = pub[p].head /\ pub'[p].status = "branch_created"
    BY <1>2, <1>3, <1>8 DEF Prepare, Publication
  <2>3. UnderWay(p)'
    BY <1>1, <1>6, <1>8, <2>1, <2>2 DEF Prepare, UnderWay, In, Stopped
  <2>4. Pinning(p)'
    BY <1>1, <1>5, <1>6, <1>8, <2>1, <2>2 DEF Prepare, Pinning, In
  <2>5. QED
    BY <2>1, <2>2, <2>3, <2>4, Elsewhere, SameMain
<1>9. CASE PrepareFails(p)
  <2>1. /\ UNCHANGED <<main, pr, green, deploy>>
        /\ \A q \in Revisions \ {p} : pub'[q] = pub[q] /\ run'[q] = run[q]
        /\ run'[p] = IdleHandler
    BY <1>2, <1>9 DEF PrepareFails, Return
  <2>2. pub'[p].pr = pub[p].pr /\ pub'[p].head = pub[p].head
        /\ pub'[p].status \in {pub[p].status, "reconciliation_required"}
    <3>1. CASE UNCHANGED pub
      BY <3>1
    <3>2. CASE pub' = [pub EXCEPT ![p] = [@ EXCEPT !.status = "reconciliation_required",
                                                  !.base = Pinned(p)]]
      BY <1>2, <1>3, <3>2 DEF Publication
    <3>3. QED
      BY <1>9, <3>1, <3>2 DEF PrepareFails
  <2>3. /\ \A q \in Revisions \ {p} : branch'[q] = branch[q]
        /\ branch[p].base # NoCommit => branch'[p].base # NoCommit
        /\ branch'[p].head = branch[p].head
    BY <1>6, <1>9 DEF PrepareFails
  <2>4. UnderWay(p)'
    BY <1>1, <1>5, <1>9, <2>1, <2>2, <2>3 DEF PrepareFails, UnderWay, In, IdleHandler
  <2>5. Pinning(p)'
    BY <1>1, <1>5, <1>9, <2>1, <2>2, <2>3 DEF PrepareFails, Pinning, In, IdleHandler
  <2>6. QED
    BY <2>1, <2>2, <2>3, <2>4, <2>5, Elsewhere, SameMain
<1>10. CASE OpenPullRequest(p)
  <2>1. UNCHANGED <<main, green, deploy>> /\ In(p, "open") /\ ~pub[p].pr
        /\ branch[p].base # NoCommit /\ pub[p].status \notin Stopped \cup {"absent"}
    BY <1>1, <1>10 DEF OpenPullRequest, Pinning, UnderWay, In
  <2>2. /\ \A q \in Revisions \ {p} : branch'[q] = branch[q] /\ pr'[q] = pr[q]
        /\ pr'[p] = "merged" <=> pr[p] = "merged"
    BY <1>2, <1>10 DEF OpenPullRequest, FilePut, OnePullRequest
  <2>3. branch'[p].base = branch[p].base /\ branch[p].head <= branch'[p].head
    BY <1>2, <1>3, <1>10 DEF OpenPullRequest, FilePut, Branch, NoHead
  <2>4. /\ \A q \in Revisions \ {p} : pub'[q] = pub[q] /\ run'[q] = run[q]
        /\ run'[p].phase \in {"idle", "pin"}
        /\ pub'[p].pr = pub[p].pr /\ pub'[p].head = pub[p].head
        /\ pub'[p].status \in {pub[p].status, "reconciliation_required"}
    <3>1. CASE GoTo(p, "pin") /\ UNCHANGED <<pub, lock>>
      BY <1>2, <1>3, <3>1 DEF GoTo, Handler
    <3>2. CASE Interrupted(p)
      BY <1>7, <3>2 DEF IdleHandler
    <3>3. QED
      BY <1>10, <3>1, <3>2 DEF OpenPullRequest
  <2>5. UnderWay(p)'
    BY <1>1, <2>1, <2>2, <2>3, <2>4 DEF UnderWay, In, Stopped
  <2>6. Pinning(p)'
    BY <1>1, <1>3, <2>1, <2>3, <2>4 DEF Pinning, In, Publication, Branch
  <2>7. QED
    BY <2>1, <2>2, <2>4, <2>5, <2>6, Elsewhere, SameMain
<1>11. CASE Merge(p)
  <2>1. /\ UNCHANGED <<branch, green, deploy>> /\ In(p, "merge") /\ ~HeadChanged(p)
        /\ pub[p].pr /\ green[p] /\ branch[p].head = pub[p].head
        /\ pub[p].status \notin Stopped \cup {"absent"}
    BY <1>1, <1>11 DEF Merge, Pinning, UnderWay, In, HeadChanged
  <2>2. /\ \A q \in Revisions \ {p} : pub'[q] = pub[q] /\ run'[q] = run[q]
        /\ run'[p].phase \in {"idle", "loaded"}
        /\ pub'[p].pr = pub[p].pr /\ pub'[p].head = pub[p].head
        /\ pub'[p].status \in {pub[p].status, "merged", "reconciliation_required"}
    <3>1. CASE SetStatus(p, "merged") /\ GoTo(p, "loaded") /\ UNCHANGED lock
      BY <1>2, <1>3, <3>1 DEF SetStatus, GoTo, Handler, Publication
    <3>2. CASE Interrupted(p)
      BY <1>7, <3>2 DEF IdleHandler
    <3>3. QED
      BY <1>11, <3>1, <3>2 DEF Merge
  <2>3. \A q \in Revisions : pub[q].pr => pub'[q].pr /\ pub'[q].head = pub[q].head
    BY <2>2
  <2>4. \A q \in Revisions \ {p} : pr'[q] = pr[q]
    BY <1>2, <1>11 DEF Merge, Land
  <2>5. (\A q \in Revisions : OnMain(q)') /\ Merges'
    <3>1. CASE UNCHANGED <<main, pr>>
      BY <2>1, <2>3, <3>1, SameMain
    <3>2. CASE Land(p, "platform")
      BY <2>1, <2>3, <3>2, LandStep
    <3>3. QED
      BY <1>11, <3>1, <3>2 DEF Merge
  <2>6. pr[p] # "none" /\ pr'[p] = "merged"
    <3>1. CASE pr[p] = "merged"
      BY <1>11, <3>1 DEF Merge
    <3>2. CASE pr[p] # "merged"
      BY <1>2, <1>11, <3>2 DEF Merge, Land, Mergeable
    <3>3. QED
      BY <3>1, <3>2
  <2>7. UnderWay(p)'
    BY <1>1, <2>1, <2>2, <2>6 DEF UnderWay, In, Stopped
  <2>8. Pinning(p)'
    BY <1>1, <2>1, <2>2 DEF Pinning, In
  <2>9. QED
    BY <2>1, <2>2, <2>4, <2>5, <2>7, <2>8, Elsewhere
<1>12. QED
  BY <1>8, <1>9, <1>10, <1>11

LEMMA OutsideSteps ==
    ASSUME MergeInv, NEW p \in Revisions, Outside(p)
    PROVE  (\A q \in Revisions : UnderWay(q) /\ OnMain(q) /\ Pinning(q))' /\ Merges'
<1>1. SiteTypeOK /\ UnderWay(p) /\ Pinning(p)
  BY DEF MergeInv
<1>2. /\ pub \in [Revisions -> Publication] /\ branch \in [Revisions -> Branch]
      /\ pr \in [Revisions -> {"none", "open", "closed", "merged"}]
      /\ green \in [Revisions -> BOOLEAN] /\ deploy \in [Revisions -> DeployStates]
  BY <1>1 DEF SiteTypeOK
<1>3. pub[p] \in Publication /\ branch[p] \in Branch
  BY <1>2
<1>4. CASE Push(p)
  <2>1. /\ UNCHANGED <<pub, run, main, pr, deploy>> /\ pr[p] = "open"
        /\ \A q \in Revisions \ {p} : branch'[q] = branch[q] /\ green'[q] = green[q]
    BY <1>2, <1>4 DEF Push, rows
  <2>2. branch'[p].base = branch[p].base /\ branch'[p].head = branch[p].head + 1
    BY <1>2, <1>3, <1>4 DEF Push, Branch
  <2>3. UnderWay(p)'
    BY <1>1, <2>1, <2>2 DEF UnderWay, In
  <2>4. pub[p].head <= branch[p].head /\ pub[p].head \in Nat /\ branch[p].head \in Nat
    BY <1>1, <1>3 DEF Pinning, Publication, Branch
  <2>5. Pinning(p)'
    BY <1>1, <2>1, <2>2, <2>4 DEF Pinning, In, HeadChanged
  <2>6. QED
    BY <2>1, <2>3, <2>5, Elsewhere, SameMain
<1>5. CASE Close(p)
  <2>1. /\ UNCHANGED <<pub, run, main, branch, green, deploy>>
        /\ pr[p] = "open" /\ pr'[p] = "closed"
        /\ \A q \in Revisions \ {p} : pr'[q] = pr[q]
    BY <1>2, <1>5 DEF Close, rows
  <2>2. UnderWay(p)'
    BY <1>1, <2>1 DEF UnderWay, In
  <2>3. Pinning(p)'
    BY <1>1, <2>1 DEF Pinning, In, HeadChanged
  <2>4. QED
    BY <2>1, <2>2, <2>3, Elsewhere, SameMain
<1>6. CASE MergeByHand(p)
  <2>1. /\ UNCHANGED <<pub, run, branch, green, deploy>>
        /\ pr[p] = "open" /\ pr'[p] = "merged"
        /\ \A q \in Revisions \ {p} : pr'[q] = pr[q]
    BY <1>2, <1>6 DEF MergeByHand, Land, Mergeable, rows
  <2>2. (\A q \in Revisions : OnMain(q)') /\ Merges'
    BY <1>6, <2>1, LandStep DEF MergeByHand
  <2>3. UnderWay(p)'
    BY <1>1, <2>1 DEF UnderWay, In
  <2>4. Pinning(p)'
    BY <1>1, <2>1 DEF Pinning, In, HeadChanged
  <2>5. QED
    BY <2>1, <2>2, <2>3, <2>4, Elsewhere
<1>7. CASE Report(p)
  <2>1. /\ UNCHANGED <<pub, run, main, branch, pr, deploy>>
        /\ green'[p]
        /\ \A q \in Revisions \ {p} : green'[q] = green[q]
    BY <1>2, <1>7 DEF Report, rows
  <2>2. UnderWay(p)'
    BY <1>1, <2>1 DEF UnderWay, In
  <2>3. Pinning(p)'
    BY <1>1, <2>1 DEF Pinning, In, HeadChanged
  <2>4. QED
    BY <2>1, <2>2, <2>3, Elsewhere, SameMain
<1>8. CASE Deploy(p)
  <2>1. /\ UNCHANGED <<pub, run, main, branch, pr, green>>
        /\ pr[p] = "merged"
        /\ \A q \in Revisions \ {p} : deploy'[q] = "none" <=> deploy[q] = "none"
    BY <1>2, <1>8 DEF Deploy, rows
  <2>2. UnderWay(p)'
    BY <1>1, <2>1 DEF UnderWay, In
  <2>3. Pinning(p)'
    BY <1>1, <2>1 DEF Pinning, In, HeadChanged
  <2>4. QED
    BY <2>1, <2>2, <2>3, Elsewhere, SameMain
<1>9. QED
  BY <1>4, <1>5, <1>6, <1>7, <1>8 DEF Outside

LEMMA OperatorSteps ==
    ASSUME MergeInv, NEW r \in Revisions, Operators(r)
    PROVE  (\A q \in Revisions : UnderWay(q) /\ OnMain(q) /\ Pinning(q))' /\ Merges'
<1>1. CASE UNCHANGED <<pub, run, github>>
  <2>1. UnderWay(r)' /\ Pinning(r)'
    BY <1>1 DEF MergeInv, UnderWay, Pinning, HeadChanged, In, github
  <2>2. QED
    BY <1>1, <2>1, Elsewhere, SameMain DEF github
<1>2. CASE Publish(r) \/ Implement(r)
  <2>1. /\ UNCHANGED <<run, github>> /\ pub[r].status = "absent"
        /\ pub' = [pub EXCEPT ![r].status = "reserved"]
    BY <1>2 DEF Publish, Implement, Reserved
  <2>2. pub \in [Revisions -> Publication] /\ pub[r] \in Publication /\ UnderWay(r) /\ Pinning(r)
    BY DEF MergeInv, SiteTypeOK
  <2>3. /\ \A q \in Revisions \ {r} : pub'[q] = pub[q]
        /\ pub'[r].status = "reserved" /\ pub'[r].pr = pub[r].pr /\ pub'[r].head = pub[r].head
    BY <2>1, <2>2 DEF Publication
  <2>4. UnderWay(r)'
    BY <2>1, <2>2, <2>3 DEF UnderWay, In, github, Stopped
  <2>5. Pinning(r)'
    BY <2>1, <2>2, <2>3 DEF Pinning, In, HeadChanged, github
  <2>6. QED
    BY <2>1, <2>3, <2>4, <2>5, Elsewhere, SameMain DEF github
<1>3. QED
  BY <1>1, <1>2 DEF Operators, CreateRevision, OpenDecision, Decide, Recommend, DecideRecommendation, rows

LEMMA NextMerges == MergeInv /\ [Next]_vars => MergeInv'
<1>1. MergeInv /\ UNCHANGED vars => MergeInv'
  BY NextTypes DEF vars, people, rows, github, MergeInv, UnderWay, OnMain, Pinning, Merges, In, HeadChanged
<1>2. ASSUME MergeInv, NEW p \in Revisions, Operators(p) \/ Handle(p) \/ Outside(p) PROVE MergeInv'
  <2>1. SiteTypeOK'
    BY <1>2, OperatorTypes, HandlerTypes, OutsideTypes DEF MergeInv
  <2>2. (\A q \in Revisions : UnderWay(q) /\ OnMain(q) /\ Pinning(q))' /\ Merges'
    BY <1>2, OperatorSteps, OutsideSteps, RowSteps, RequestSteps DEF Handle
  <2>3. QED
    BY <2>1, <2>2 DEF MergeInv
<1>3. QED
  BY <1>1, <1>2 DEF Next

LEMMA AlwaysMerges == Spec => []MergeInv
<1>1. QED
  BY InitMerges, NextMerges, PTL DEF Spec

\* Whoever interferes, the platform merges the head it pinned, with checks that passed.
THEOREM PlatformMergesPinned == Spec => []PlatformMergesPinnedHead
<1>1. MergeInv => PlatformMergesPinnedHead
  BY DEF MergeInv, Merges, PlatformMergesPinnedHead
<1>2. QED
  BY <1>1, AlwaysMerges, PTL

-----------------------------------------------------------------------------
(* The phases implement the governed write *)

LEMMA GovernedInit == Init => Governed!Init
<1>1. Init => {p \in Revisions : pub[p].status # "absent"} = {}
  BY DEF Init, AbsentPublication
<1>2. Init => [k \in DOMAIN main |-> main[k].pub] = <<>>
  BY DEF Init
<1>3. Init => {p \in Revisions : deploy[p] # "none"} = {}
  BY DEF Init
<1>4. Init => {p \in Revisions : pub[p].status = "verified"} = {}
  BY DEF Init, AbsentPublication
<1>5. QED
  BY <1>1, <1>2, <1>3, <1>4 DEF Governed!Init

\* A publication moves between phases that the governed write does not tell apart.
Quiet(p) ==
    /\ \A q \in Revisions \ {p} : pub'[q].status = pub[q].status
    /\ pub'[p].status = "absent" <=> pub[p].status = "absent"
    /\ pub'[p].status = "verified" <=> pub[p].status = "verified"

LEMMA QuietStep ==
    ASSUME NEW p \in Revisions, Quiet(p), main' = main,
           \A q \in Revisions : deploy'[q] = "none" <=> deploy[q] = "none"
    PROVE  UNCHANGED Governed!abstractVars
<1>1. {q \in Revisions : pub'[q].status # "absent"} = {q \in Revisions : pub[q].status # "absent"}
  BY DEF Quiet
<1>2. {q \in Revisions : pub'[q].status = "verified"} = {q \in Revisions : pub[q].status = "verified"}
  BY DEF Quiet
<1>3. {q \in Revisions : deploy'[q] # "none"} = {q \in Revisions : deploy[q] # "none"}
  OBVIOUS
<1>4. QED
  BY <1>1, <1>2, <1>3 DEF Governed!abstractVars

LEMMA ApproveStep ==
    ASSUME MergeInv, NEW r \in Revisions, Publish(r) \/ Implement(r)
    PROVE  Governed!Approve(r)
<1>1. /\ UNCHANGED github /\ pub[r].status = "absent"
      /\ pub' = [pub EXCEPT ![r].status = "reserved"]
  BY DEF Publish, Implement, Reserved
<1>2. pub \in [Revisions -> Publication] /\ pub[r] \in Publication
  BY DEF MergeInv, SiteTypeOK
<1>3. (\A q \in Revisions \ {r} : pub'[q] = pub[q]) /\ pub'[r].status = "reserved"
  BY <1>1, <1>2 DEF Publication
<1>4. {q \in Revisions : pub'[q].status # "absent"} = {q \in Revisions : pub[q].status # "absent"} \cup {r}
  BY <1>3
<1>5. {q \in Revisions : pub'[q].status = "verified"} = {q \in Revisions : pub[q].status = "verified"}
  BY <1>1, <1>3
<1>6. main' = main /\ deploy' = deploy
  BY <1>1 DEF github
<1>7. QED
  BY <1>4, <1>5, <1>6 DEF Governed!Approve

LEMMA ApplyStep ==
    ASSUME MergeInv, NEW p \in Revisions, NEW who \in {"platform", "person"}, Land(p, who),
           Quiet(p), deploy' = deploy
    PROVE  Governed!Apply(p)
<1> DEFINE e == [pub |-> p, head |-> branch[p].head, by |-> who]
           applied == [k \in DOMAIN main |-> main[k].pub]
<1>1. main \in Seq(Entry) /\ Len(main) \in Nat /\ main' = Append(main, e) /\ pr[p] = "open"
  BY MainTypes DEF MergeInv, Land, Mergeable
<1>2. /\ DOMAIN main' = 1..(Len(main) + 1) /\ DOMAIN main = 1..Len(main)
      /\ \A k \in DOMAIN main : main'[k] = main[k]
      /\ main'[Len(main) + 1] = e /\ e.pub = p
  BY <1>1
<1>3. applied \in Seq(Revisions) /\ Len(applied) = Len(main)
  <2>1. \A k \in 1..Len(main) : main[k].pub \in Revisions
    BY <1>2, EntryTypes DEF MergeInv
  <2>2. QED
    BY <1>1, <1>2, <2>1
<1>4. [k \in DOMAIN main' |-> main'[k].pub] = Append(applied, p)
  <2>1. Append(applied, p) = [k \in 1..(Len(main) + 1) |-> IF k = Len(main) + 1 THEN p ELSE applied[k]]
    BY <1>1, <1>3
  <2>2. QED
    BY <1>1, <1>2, <2>1
<1>5. p \in {q \in Revisions : pub[q].status # "absent"}
  BY <1>1 DEF MergeInv, UnderWay
<1>6. p \notin {applied[k] : k \in DOMAIN applied}
  BY <1>1 DEF MergeInv, OnMain
<1>7. {q \in Revisions : pub'[q].status # "absent"} = {q \in Revisions : pub[q].status # "absent"}
      /\ {q \in Revisions : pub'[q].status = "verified"} = {q \in Revisions : pub[q].status = "verified"}
  BY DEF Quiet
<1>8. QED
  BY <1>4, <1>5, <1>6, <1>7 DEF Governed!Apply, Governed!Applied

LEMMA DeliverStep ==
    ASSUME MergeInv, NEW p \in Revisions, Deploy(p)
    PROVE  Governed!Deliver(p)
<1>1. UNCHANGED <<pub, main>> /\ pr[p] = "merged"
  BY DEF Deploy, rows
<1>2. \E k \in DOMAIN main : main[k].pub = p
  BY <1>1 DEF MergeInv, OnMain
<1>3. p \in {[k \in DOMAIN main |-> main[k].pub][j] : j \in DOMAIN [k \in DOMAIN main |-> main[k].pub]}
  BY <1>2
<1>4. {q \in Revisions : deploy'[q] # "none"} = {q \in Revisions : deploy[q] # "none"} \cup {p}
  BY DEF Deploy, MergeInv, SiteTypeOK
<1>5. QED
  BY <1>1, <1>3, <1>4 DEF Governed!Deliver, Governed!Applied

LEMMA ConfirmStep ==
    ASSUME MergeInv, NEW p \in Revisions, UNCHANGED github, End(p, "verified"),
           pub[p].status # "absent", deploy[p] # "none"
    PROVE  Governed!Confirm(p)
<1>1. pub \in [Revisions -> Publication] /\ pub[p] \in Publication
  BY DEF MergeInv, SiteTypeOK
<1>2. (\A q \in Revisions \ {p} : pub'[q] = pub[q]) /\ pub'[p].status = "verified"
  BY <1>1 DEF End, SetStatus, Publication
<1>3. {q \in Revisions : pub'[q].status # "absent"} = {q \in Revisions : pub[q].status # "absent"}
  BY <1>2
<1>4. {q \in Revisions : pub'[q].status = "verified"} = {q \in Revisions : pub[q].status = "verified"} \cup {p}
  BY <1>2
<1>5. p \in {q \in Revisions : deploy[q] # "none"}
  OBVIOUS
<1>6. main' = main /\ deploy' = deploy
  BY DEF github
<1>7. QED
  BY <1>3, <1>4, <1>5, <1>6 DEF Governed!Confirm

\* A status given to a publication under way, other than verified.
LEMMA StatusIsQuiet ==
    ASSUME MergeInv, NEW p \in Revisions, ~In(p, "idle") \/ Attemptable(p),
           pub' \in [Revisions -> Publication],
           \A q \in Revisions \ {p} : pub'[q] = pub[q],
           pub'[p].status = pub[p].status \/ pub'[p].status \notin {"absent", "verified"}
    PROVE  Quiet(p)
BY DEF MergeInv, UnderWay, Attemptable, Stopped, Quiet

LEMMA EndIsQuiet ==
    ASSUME MergeInv, NEW p \in Revisions, ~In(p, "idle") \/ Attemptable(p),
           NEW status \in PublicationStatus \ {"absent", "verified"}, End(p, status)
    PROVE  Quiet(p)
<1>1. pub \in [Revisions -> Publication] /\ pub[p] \in Publication
      /\ pub' \in [Revisions -> Publication]
  BY EndTypes DEF MergeInv, SiteTypeOK
<1>2. (\A q \in Revisions \ {p} : pub'[q] = pub[q]) /\ pub'[p].status = status
  BY <1>1 DEF End, SetStatus, Publication
<1>3. QED
  BY <1>1, <1>2, StatusIsQuiet

LEMMA InterruptedIsQuiet ==
    ASSUME MergeInv, NEW p \in Revisions, ~In(p, "idle"), Interrupted(p)
    PROVE  Quiet(p)
<1>1. pub \in [Revisions -> Publication] /\ pub[p] \in Publication
      /\ pub' \in [Revisions -> Publication]
  BY InterruptedTypes DEF MergeInv, SiteTypeOK
<1>2. (\A q \in Revisions \ {p} : pub'[q] = pub[q])
      /\ pub'[p].status \in {pub[p].status, "reconciliation_required"}
  BY <1>1 DEF Interrupted, SetStatus, Publication
<1>3. QED
  BY <1>1, <1>2, StatusIsQuiet

LEMMA HandlerSimulates ==
    ASSUME MergeInv, NEW p \in Revisions, Handle(p)
    PROVE  Governed!Next \/ UNCHANGED Governed!abstractVars
<1>1. pub \in [Revisions -> Publication] /\ pub[p] \in Publication
      /\ pub' \in [Revisions -> Publication]
  BY HandlerTypes DEF MergeInv, SiteTypeOK
<1>2. CASE Load(p) \/ ReadLivePages(p) \/ Crash(p)
  BY <1>2, QuietStep DEF Load, ReadLivePages, Crash, Quiet, github
<1>3. CASE Refuse(p)
  BY <1>3, EndIsQuiet, QuietStep DEF Refuse, PublicationStatus, Stopped, github
<1>4. CASE Reconcile(p)
  <2>1. ~In(p, "idle") /\ (\A q \in Revisions \ {p} : pub'[q] = pub[q])
    BY <1>1, <1>4 DEF Reconcile, SetStatus, In
  <2>2. pub'[p].status \in {pub[p].status, Reconciled(p)}
    BY <1>1, <1>4 DEF Reconcile, SetStatus, Publication
  <2>3. Reconciled(p) \notin {"absent", "verified"}
    BY DEF Reconciled
  <2>4. Quiet(p)
    BY <1>1, <2>1, <2>2, <2>3, StatusIsQuiet
  <2>5. QED
    BY <1>4, <2>4, QuietStep DEF Reconcile, github
<1>5. CASE Prepare(p) \/ BuildFails(p) \/ PrepareFails(p)
  <2>1. ~In(p, "idle") /\ (\A q \in Revisions \ {p} : pub'[q] = pub[q]) /\ UNCHANGED <<main, deploy>>
    BY <1>1, <1>5 DEF Prepare, BuildFails, PrepareFails, Preparing, In, github
  <2>2. pub'[p].status \in {pub[p].status, "branch_created", "failed", "reconciliation_required"}
    <3>1. CASE Prepare(p)
      BY <1>1, <3>1 DEF Prepare, Publication
    <3>2. CASE BuildFails(p)
      BY <1>1, <3>2 DEF BuildFails, Publication
    <3>3. CASE PrepareFails(p)
      <4>1. CASE UNCHANGED pub
        BY <4>1
      <4>2. CASE pub' = [pub EXCEPT ![p] = [@ EXCEPT !.status = "reconciliation_required",
                                                    !.base = Pinned(p)]]
        BY <1>1, <4>2 DEF Publication
      <4>3. QED
        BY <3>3, <4>1, <4>2 DEF PrepareFails
    <3>4. QED
      BY <1>5, <3>1, <3>2, <3>3
  <2>3. Quiet(p)
    BY <1>1, <2>1, <2>2, StatusIsQuiet
  <2>4. QED
    BY <2>1, <2>3, QuietStep
<1>6. CASE OpenPullRequest(p)
  <2>1. ~In(p, "idle") /\ UNCHANGED <<main, deploy>>
    BY <1>6 DEF OpenPullRequest, In
  <2>2. Quiet(p)
    BY <1>6, <2>1, InterruptedIsQuiet DEF OpenPullRequest, Quiet
  <2>3. QED
    BY <2>1, <2>2, QuietStep
<1>7. CASE PinHead(p) \/ ChecksPass(p)
  <2>1. ~In(p, "idle") /\ (\A q \in Revisions \ {p} : pub'[q] = pub[q]) /\ UNCHANGED <<main, deploy>>
    BY <1>1, <1>7 DEF PinHead, ChecksPass, Waiting, SetStatus, In, github
  <2>2. pub'[p].status = "pull_request_created"
    <3>1. CASE PinHead(p)
      BY <1>1, <3>1 DEF PinHead, Publication
    <3>2. CASE ChecksPass(p)
      BY <1>1, <3>2 DEF ChecksPass, SetStatus, Publication
    <3>3. QED
      BY <1>7, <3>1, <3>2
  <2>3. Quiet(p)
    BY <1>1, <2>1, <2>2, StatusIsQuiet
  <2>4. QED
    BY <2>1, <2>3, QuietStep
<1>8. CASE RequestFails(p)
  BY <1>8, EndIsQuiet, QuietStep DEF RequestFails, PublicationStatus, In, github
<1>9. CASE WaitForChecks(p)
  <2>1. PICK status \in {"failed", "checks_failed", "checks_running", "reconciliation_required"} :
          End(p, status)
    BY <1>9 DEF WaitForChecks, CheckOutcome
  <2>2. Quiet(p)
    BY <1>9, <2>1, EndIsQuiet DEF WaitForChecks, Waiting, In, PublicationStatus, Stopped
  <2>3. QED
    BY <1>9, <2>2, QuietStep DEF WaitForChecks, github
<1>10. CASE Merge(p)
  <2>1. ~In(p, "idle") /\ deploy' = deploy
    BY <1>10 DEF Merge, In
  <2>2. Quiet(p)
    <3>1. CASE SetStatus(p, "merged")
      <4>1. (\A q \in Revisions \ {p} : pub'[q] = pub[q]) /\ pub'[p].status = "merged"
        BY <1>1, <3>1 DEF SetStatus, Publication
      <4>2. QED
        BY <1>1, <2>1, <4>1, StatusIsQuiet
    <3>2. CASE Interrupted(p)
      BY <2>1, <3>2, InterruptedIsQuiet
    <3>3. QED
      BY <1>10, <3>1, <3>2 DEF Merge
  <2>3. CASE UNCHANGED main
    BY <2>1, <2>2, <2>3, QuietStep
  <2>4. CASE Land(p, "platform")
    BY <2>1, <2>2, <2>4, ApplyStep DEF Governed!Next
  <2>5. QED
    BY <1>10, <2>3, <2>4 DEF Merge
<1>11. CASE VerifyDeployment(p)
  <2>1. PICK status \in {"deployment_pending", "failed", "reconciliation_required"} : End(p, status)
    BY <1>11 DEF VerifyDeployment, Undeployed, Pending, Failed
  <2>2. Quiet(p)
    BY <1>11, <2>1, EndIsQuiet DEF VerifyDeployment, Verifying, In, PublicationStatus, Merged, Stopped
  <2>3. QED
    BY <1>11, <2>2, QuietStep DEF VerifyDeployment, github
<1>12. CASE MarkPublished(p)
  <2>1. UNCHANGED github /\ End(p, "verified") /\ pub[p].status # "absent" /\ deploy[p] # "none"
    BY <1>12 DEF MarkPublished, Verifying, Merged
  <2>2. QED
    BY <2>1, ConfirmStep DEF Governed!Next
<1>13. CASE VerifyLive(p)
  <2>1. UNCHANGED github /\ ~In(p, "idle") /\ pub[p].status # "absent"
    BY <1>13 DEF VerifyLive, In, MergeInv, UnderWay
  <2>2. CASE End(p, "verified") /\ deploy[p] = "success"
    BY <2>1, <2>2, ConfirmStep DEF Governed!Next
  <2>3. CASE End(p, "failed") \/ End(p, "deployed")
    <3>1. Quiet(p)
      BY <2>1, <2>3, EndIsQuiet DEF PublicationStatus, Merged, Stopped
    <3>2. QED
      BY <2>1, <3>1, QuietStep DEF github
  <2>4. QED
    BY <1>13, <2>2, <2>3 DEF VerifyLive, LiveVerdicts
<1>14. QED
  BY <1>2, <1>3, <1>4, <1>5, <1>6, <1>7, <1>8, <1>9, <1>10, <1>11, <1>12, <1>13 DEF Handle

LEMMA NextSimulates ==
    MergeInv /\ [Next]_vars => [Governed!Next]_(Governed!abstractVars)
<1>1. ASSUME MergeInv, UNCHANGED vars PROVE UNCHANGED Governed!abstractVars
  BY <1>1 DEF vars, rows, github, Governed!abstractVars
<1>2. ASSUME MergeInv, NEW p \in Revisions, Operators(p) \/ Handle(p) \/ Outside(p)
      PROVE  Governed!Next \/ UNCHANGED Governed!abstractVars
  <2>1. CASE Handle(p)
    BY <1>2, <2>1, HandlerSimulates
  <2>2. CASE Publish(p) \/ Implement(p)
    BY <1>2, <2>2, ApproveStep DEF Governed!Next
  <2>3. CASE Operators(p) /\ ~(Publish(p) \/ Implement(p))
    <3>1. UNCHANGED <<pub, main, deploy>>
      BY <2>3 DEF Operators, CreateRevision, OpenDecision, Decide, Recommend, DecideRecommendation,
                  rows, github
    <3>2. QED
      BY <3>1, QuietStep DEF Quiet
  <2>4. CASE MergeByHand(p)
    <3>1. Quiet(p) /\ deploy' = deploy
      BY <2>4 DEF MergeByHand, rows, Quiet
    <3>2. QED
      BY <1>2, <2>4, <3>1, ApplyStep DEF MergeByHand, Governed!Next
  <2>5. CASE Deploy(p)
    BY <1>2, <2>5, DeliverStep DEF Governed!Next
  <2>6. CASE Push(p) \/ Close(p) \/ Report(p)
    BY <2>6, QuietStep DEF Push, Close, Report, rows, Quiet
  <2>7. QED
    BY <1>2, <2>1, <2>2, <2>3, <2>4, <2>5, <2>6 DEF Outside
<1>3. QED
  BY <1>1, <1>2 DEF Next

\* Publication of site changes implements the governed write.
THEOREM SiteImplementsGovernedWrite == Spec => ImplementsGovernedWrite
<1>1. QED
  BY GovernedInit, NextSimulates, AlwaysMerges, PTL DEF Spec, ImplementsGovernedWrite, Governed!Spec

-----------------------------------------------------------------------------
(* Site changes in order *)

\* Revisions are made in order, a change starts from an older value, and branches start where
\* the change does.
FromOlder(p) ==
    /\ rev[p] # "absent" => \A q \in Revisions : q < p => rev[q] # "absent"
    /\ pub[p].status # "absent" \/ seen[p] # "absent" => rev[p] # "absent"
    /\ current[p] < p
    /\ pub[p].base \in -1..Len(main) /\ branch[p].base \in -1..Len(main)
    /\ kind = "site_change" /\ branch[p].base # NoCommit => ValueAt(branch[p].base) = current[p]

OrderInv ==
    /\ MergeInv
    /\ \A p \in Revisions : FromOlder(p)
    /\ NoRollback

LEMMA InitOrder == Init => OrderInv
<1>1. ASSUME Init, NEW p \in Revisions PROVE FromOlder(p)
  BY <1>1, RevisionFacts DEF Init, FromOlder, AbsentPublication, NoBranch
<1>2. Init => NoRollback
  BY DEF Init, NoRollback
<1>3. QED
  BY <1>1, <1>2, InitMerges DEF OrderInv

\* What a merge leaves of the values before it.
LEMMA ValuesKept ==
    ASSUME SiteTypeOK, NEW e, main' = Append(main, e), NEW k \in 0..Len(main)
    PROVE  ValueAt(k)' = ValueAt(k)
<1>1. main \in Seq(Entry) /\ Len(main) \in Nat
  BY MainTypes
<1>2. k # 0 => main'[k] = main[k]
  BY <1>1
<1>3. CASE k = 0
  BY <1>3 DEF ValueAt
<1>4. CASE k # 0
  BY <1>2, <1>4 DEF ValueAt
<1>5. QED
  BY <1>3, <1>4

\* Revisions of merges exist.
LEMMA MergedExists ==
    ASSUME OrderInv, NEW k \in DOMAIN main
    PROVE  main[k].pub \in Revisions /\ rev[main[k].pub] # "absent"
<1> DEFINE p == main[k].pub
<1>1. p \in Revisions
  BY EntryTypes DEF OrderInv, MergeInv
<1>2. pr[p] = "merged"
  BY <1>1 DEF OrderInv, MergeInv, OnMain
<1>3. pub[p].status # "absent"
  BY <1>1, <1>2 DEF OrderInv, MergeInv, UnderWay
<1>4. QED
  BY <1>1, <1>3 DEF OrderInv, FromOlder

\* A step that merges nothing and leaves the publications' branches where they started.
LEMMA SameOrder ==
    ASSUME OrderInv, MergeInv', UNCHANGED <<kind, main, current>>,
           \A q \in Revisions : rev[q] # "absent" => rev'[q] # "absent",
           \A q \in Revisions : rev'[q] # "absent" => \A o \in Revisions : o < q => rev'[o] # "absent",
           \A q \in Revisions : pub'[q].status # "absent" \/ seen'[q] # "absent" =>
                                 pub[q].status # "absent" \/ rev[q] # "absent",
           \A q \in Revisions : pub'[q].base = pub[q].base \/ pub'[q].base \in 0..Len(main),
           \A q \in Revisions :
               \/ branch'[q].base = branch[q].base
               \/ /\ branch'[q].base \in 0..Len(main)
                  /\ kind = "site_change" => ValueAt(branch'[q].base) = current[q]
    PROVE  OrderInv'
<1>1. ASSUME NEW p \in Revisions PROVE FromOlder(p)'
  <2>1. FromOlder(p)
    BY DEF OrderInv
  <2>3. /\ rev'[p] # "absent" => \A q \in Revisions : q < p => rev'[q] # "absent"
        /\ pub'[p].status # "absent" \/ seen'[p] # "absent" => rev'[p] # "absent"
        /\ current'[p] < p
    BY <2>1 DEF FromOlder
  <2>4. Len(main) \in Nat
    BY MainTypes DEF OrderInv, MergeInv
  <2>5. pub'[p].base \in -1..Len(main') /\ branch'[p].base \in -1..Len(main')
    BY <2>1, <2>4 DEF FromOlder
  <2>6. kind' = "site_change" /\ branch'[p].base # NoCommit => ValueAt(branch[p].base)' = current'[p]
    <3>1. CASE branch'[p].base = branch[p].base
      BY <2>1, <3>1 DEF FromOlder, ValueAt
    <3>2. CASE branch'[p].base # branch[p].base
      BY <3>2 DEF ValueAt
    <3>3. QED
      BY <3>1, <3>2
  <2>7. QED
    BY <2>3, <2>5, <2>6 DEF FromOlder, ValueAt
<1>2. NoRollback'
  BY DEF OrderInv, NoRollback
<1>3. QED
  BY <1>1, <1>2 DEF OrderInv

LEMMA LandOrder ==
    ASSUME OrderInv, MergeInv', NEW p \in Revisions, NEW who \in {"platform", "person"}, Land(p, who),
           UNCHANGED people, \A q \in Revisions : branch'[q] = branch[q] /\ pub'[q].base = pub[q].base,
           \A q \in Revisions : pub'[q].status # "absent" => pub[q].status # "absent"
    PROVE  OrderInv'
<1> DEFINE e == [pub |-> p, head |-> branch[p].head, by |-> who]
<1>1. main \in Seq(Entry) /\ Len(main) \in Nat /\ main' = Append(main, e) /\ SiteTypeOK
  BY MainTypes DEF OrderInv, MergeInv, Land
<1>2. /\ DOMAIN main' = 1..(Len(main) + 1) /\ DOMAIN main = 1..Len(main) /\ Len(main') = Len(main) + 1
      /\ \A k \in DOMAIN main : main'[k] = main[k]
      /\ main'[Len(main) + 1] = e /\ e.pub = p
  BY <1>1
<1>3. ASSUME NEW q \in Revisions PROVE FromOlder(q)'
  <2>1. FromOlder(q)
    BY DEF OrderInv
  <2>2. branch[q].base \in 0..Len(main) => ValueAt(branch[q].base)' = ValueAt(branch[q].base)
    BY <1>1, ValuesKept
  <2>3. QED
    BY <1>2, <2>1, <2>2, RevisionFacts DEF FromOlder, people, ValueAt
<1>4. NoRollback'
  <2>1. SUFFICES ASSUME kind' = "site_change", NEW i \in DOMAIN main', NEW j \in DOMAIN main', i < j
                 PROVE  main'[i].pub < main'[j].pub
    BY DEF NoRollback
  <2>2. kind = "site_change"
    BY <2>1 DEF people
  <2>3. CASE j \in DOMAIN main
    BY <1>2, <2>1, <2>2, <2>3 DEF OrderInv, NoRollback
  <2>4. CASE j = Len(main) + 1
    <3>1. i \in DOMAIN main /\ Len(main) # 0
      BY <1>1, <1>2, <2>1, <2>4
    <3>2. Value = ValueAt(branch[p].base) /\ branch[p].base # NoCommit
      BY DEF Land, Mergeable, OrderInv, MergeInv, UnderWay
    <3>3. Value = current[p] /\ current[p] < p
      BY <2>2, <3>2 DEF OrderInv, FromOlder
    <3>4. Value = main[Len(main)].pub
      BY <3>1 DEF Value, ValueAt
    <3>5. main[i].pub \in Nat /\ main[Len(main)].pub \in Nat /\ p \in Nat
      <4>1. Len(main) \in DOMAIN main
        BY <1>1, <1>2, <3>1
      <4>2. main[i].pub \in Revisions /\ main[Len(main)].pub \in Revisions
        BY <1>1, <3>1, <4>1, EntryTypes
      <4>3. QED
        BY <4>2, RevisionFacts
    <3>6. i = Len(main) \/ main[i].pub < main[Len(main)].pub
      BY <1>1, <1>2, <2>2, <3>1 DEF OrderInv, NoRollback
    <3>7. main[i].pub < p
      BY <3>3, <3>4, <3>5, <3>6
    <3>8. QED
      BY <1>2, <2>4, <3>1, <3>7
  <2>5. QED
    BY <1>1, <1>2, <2>3, <2>4
<1>5. QED
  BY <1>3, <1>4 DEF OrderInv

LEMMA RecommendOrder ==
    ASSUME OrderInv, MergeInv', NEW r \in Revisions, Recommend(r)
    PROVE  OrderInv'
<1>1. UNCHANGED <<kind, seen, pub, main, branch>> /\ rev[r] = "absent" /\ kind = "site_change"
      /\ current' = [current EXCEPT ![r] = Value]
  BY DEF Recommend, rows, github, Newest
<1>2. main \in Seq(Entry) /\ Len(main) \in Nat /\ current \in [Revisions -> Revisions \cup {NoRevision}]
      /\ rev \in [Revisions -> RevisionStatus]
  BY MainTypes DEF OrderInv, MergeInv, SiteTypeOK
<1>3. Value < r
  <2>1. CASE Len(main) = 0
    BY <2>1, RevisionFacts DEF Value, ValueAt
  <2>2. CASE Len(main) # 0
    <3>1. main[Len(main)].pub \in Revisions /\ rev[main[Len(main)].pub] # "absent"
      BY <1>2, <2>2, MergedExists
    <3>2. main[Len(main)].pub # r /\ ~(r < main[Len(main)].pub)
      BY <1>1, <3>1 DEF OrderInv, FromOlder
    <3>3. Value = main[Len(main)].pub
      BY <2>2 DEF Value, ValueAt
    <3>4. main[Len(main)].pub \in Nat /\ r \in Nat
      BY <3>1, RevisionFacts
    <3>5. QED
      BY <3>2, <3>3, <3>4
  <2>3. QED
    BY <2>1, <2>2
<1>4. \A q \in Revisions : (rev'[q] # "absent" <=> rev[q] # "absent" \/ q = r)
  BY <1>2 DEF Recommend
<1>5. \A q \in Revisions : q < r => rev[q] # "absent"
  BY DEF Recommend, Newest
<1>6. branch[r].base = NoCommit
  BY <1>1 DEF OrderInv, FromOlder, MergeInv, UnderWay
<1>7. ASSUME NEW q \in Revisions PROVE FromOlder(q)'
  <2>1. FromOlder(q)
    BY DEF OrderInv
  <2>2. /\ rev'[q] # "absent" => \A o \in Revisions : o < q => rev'[o] # "absent"
        /\ pub'[q].status # "absent" \/ seen'[q] # "absent" => rev'[q] # "absent"
    BY <1>1, <1>4, <1>5, <2>1 DEF FromOlder
  <2>3. current'[q] < q
    BY <1>1, <1>2, <1>3, <2>1 DEF FromOlder
  <2>4. pub'[q].base \in -1..Len(main') /\ branch'[q].base \in -1..Len(main')
    BY <1>1, <2>1 DEF FromOlder
  <2>5. branch[q].base # NoCommit => current'[q] = current[q]
    BY <1>1, <1>2, <1>6
  <2>6. kind' = "site_change" /\ branch'[q].base # NoCommit => ValueAt(branch[q].base)' = current'[q]
    BY <1>1, <2>1, <2>5 DEF FromOlder, ValueAt
  <2>7. QED
    BY <2>2, <2>3, <2>4, <2>6 DEF FromOlder, ValueAt
<1>8. NoRollback'
  BY <1>1 DEF OrderInv, NoRollback
<1>9. QED
  BY <1>7, <1>8 DEF OrderInv

\* Handlers' rows: statuses of publications that are reserved, and bases they pinned.
LEMMA HandlerRows ==
    ASSUME OrderInv, NEW p \in Revisions, Handle(p)
    PROVE  /\ \A q \in Revisions \ {p} : pub'[q] = pub[q]
           /\ pub[p].status # "absent"
           /\ pub'[p].base = pub[p].base \/ pub'[p].base \in 0..Len(main)
<1>1. /\ pub \in [Revisions -> Publication] /\ pub[p] \in Publication
  BY DEF OrderInv, MergeInv, SiteTypeOK
<1>2. pub[p].status # "absent"
  <2>1. Attemptable(p) \/ ~In(p, "idle")
    BY DEF Handle, Load, Refuse, Reconcile, Prepare, BuildFails, PrepareFails, Preparing, OpenPullRequest,
           PinHead, RequestFails, WaitForChecks, ChecksPass, Waiting, Merge, VerifyDeployment, MarkPublished,
           ReadLivePages, Verifying, VerifyLive, Crash, In
  <2>2. QED
    BY <2>1 DEF Attemptable, OrderInv, MergeInv, UnderWay
<1>3. Pinned(p) \in 0..Len(main)
  <2>1. pub[p].base \in -1..Len(main) /\ Len(main) \in Nat
    BY MainTypes DEF OrderInv, FromOlder, MergeInv
  <2>2. QED
    BY <2>1 DEF Pinned, NoCommit
<1>4. CASE UNCHANGED pub
  BY <1>2, <1>4
<1>5. ASSUME NEW status, SetStatus(p, status)
      PROVE  (\A q \in Revisions \ {p} : pub'[q] = pub[q]) /\ pub'[p].base = pub[p].base
  BY <1>1, <1>5 DEF SetStatus, Publication
<1>6. CASE Prepare(p)
  <2>1. pub'[p].base = Pinned(p) /\ \A q \in Revisions \ {p} : pub'[q] = pub[q]
    BY <1>1, <1>6 DEF Prepare, Publication
  <2>2. QED
    BY <1>2, <1>3, <2>1
<1>7. CASE BuildFails(p)
  <2>1. pub'[p].base = Pinned(p) /\ \A q \in Revisions \ {p} : pub'[q] = pub[q]
    BY <1>1, <1>7 DEF BuildFails, Publication
  <2>2. QED
    BY <1>2, <1>3, <2>1
<1>8. CASE pub' = [pub EXCEPT ![p] = [@ EXCEPT !.status = "reconciliation_required", !.base = Pinned(p)]]
  <2>1. pub'[p].base = Pinned(p) /\ \A q \in Revisions \ {p} : pub'[q] = pub[q]
    BY <1>1, <1>8 DEF Publication
  <2>2. QED
    BY <1>2, <1>3, <2>1
<1>9. CASE PinHead(p)
  <2>1. pub'[p].base = pub[p].base /\ \A q \in Revisions \ {p} : pub'[q] = pub[q]
    BY <1>1, <1>9 DEF PinHead, Publication
  <2>2. QED
    BY <1>2, <2>1
<1>10. CASE \E status : SetStatus(p, status)
  BY <1>2, <1>5, <1>10
<1>11. Interrupted(p) => UNCHANGED pub \/ \E status : SetStatus(p, status)
  BY DEF Interrupted
<1>12. \A status : End(p, status) => SetStatus(p, status)
  BY DEF End
<1>13. QED
  BY <1>4, <1>6, <1>7, <1>8, <1>9, <1>10, <1>11, <1>12
  DEF Handle, Load, Refuse, Reconcile, PrepareFails, OpenPullRequest, RequestFails, WaitForChecks,
      ChecksPass, Merge, VerifyDeployment, MarkPublished, ReadLivePages, VerifyLive, Crash

LEMMA HandlerOrder ==
    ASSUME OrderInv, MergeInv', NEW p \in Revisions, Handle(p)
    PROVE  OrderInv'
<1>1. UNCHANGED people
  BY DEF Handle, Load, Refuse, Reconcile, Prepare, BuildFails, PrepareFails, OpenPullRequest,
         PinHead, RequestFails, WaitForChecks, ChecksPass, Merge, VerifyDeployment, MarkPublished,
         ReadLivePages, VerifyLive, Crash
<1>2. /\ pub \in [Revisions -> Publication] /\ branch \in [Revisions -> Branch] /\ branch[p] \in Branch
      /\ pub[p].base \in -1..Len(main) /\ Len(main) \in Nat
  BY MainTypes DEF OrderInv, MergeInv, SiteTypeOK, FromOlder
<1>3. Pinned(p) \in 0..Len(main)
  BY <1>2 DEF Pinned, NoCommit
<1>4. CASE Merge(p) /\ Land(p, "platform")
  <2>1. branch' = branch
    BY <1>4 DEF Merge
  <2>2. \A q \in Revisions : pub'[q].base = pub[q].base
    <3>1. pub' = pub \/ \E status : SetStatus(p, status)
      BY <1>4 DEF Merge, Interrupted
    <3>2. QED
      BY <1>2, <3>1 DEF SetStatus, Publication
  <2>3. QED
    BY <1>1, <1>4, <2>1, <2>2, HandlerRows, LandOrder
<1>5. CASE ~(Merge(p) /\ Land(p, "platform"))
  <2>1. main' = main
    BY <1>5 DEF Handle, Load, Refuse, Reconcile, Prepare, BuildFails, PrepareFails, OpenPullRequest,
           PinHead, RequestFails, WaitForChecks, ChecksPass, Merge, VerifyDeployment, MarkPublished,
           ReadLivePages, VerifyLive, Crash, github
  <2>2. ASSUME NEW q \in Revisions
        PROVE  \/ branch'[q].base = branch[q].base
               \/ /\ branch'[q].base \in 0..Len(main)
                  /\ kind = "site_change" => ValueAt(branch'[q].base) = current[q]
    <3>1. CASE UNCHANGED branch
      BY <3>1
    <3>2. CASE Branched(p, Pinned(p)) /\ NotDrifted(p, Pinned(p))
      <4>1. branch[p].base = NoCommit => branch'[p].base = Pinned(p)
        BY <1>2, <3>2 DEF Branched, Branch
      <4>2. branch[p].base # NoCommit => branch' = branch
        BY <3>2 DEF Branched
      <4>3. q # p => branch'[q] = branch[q]
        BY <1>2, <3>2 DEF Branched
      <4>4. QED
        BY <1>3, <3>2, <4>1, <4>2, <4>3 DEF NotDrifted
    <3>3. CASE FilePut(p)
      BY <1>2, <3>3 DEF FilePut, Branch
    <3>4. QED
      BY <3>1, <3>2, <3>3 DEF Handle, Load, Refuse, Reconcile, Prepare, BuildFails, PrepareFails,
           OpenPullRequest, PinHead, RequestFails, WaitForChecks, ChecksPass, Merge, VerifyDeployment,
           MarkPublished, ReadLivePages, VerifyLive, Crash, github
  <2>3. UNCHANGED <<kind, current, rev, seen>>
    BY <1>1 DEF people
  <2>4. \A q \in Revisions : pub'[q].status # "absent" \/ seen'[q] # "absent" =>
                             pub[q].status # "absent" \/ rev[q] # "absent"
    BY <2>3, HandlerRows DEF OrderInv, FromOlder
  <2>5. \A q \in Revisions : pub'[q].base = pub[q].base \/ pub'[q].base \in 0..Len(main)
    BY HandlerRows
  <2>6. \A q \in Revisions : rev'[q] # "absent" => \A o \in Revisions : o < q => rev'[o] # "absent"
    BY <2>3 DEF OrderInv, FromOlder
  <2>7. QED
    BY <2>1, <2>2, <2>3, <2>4, <2>5, <2>6, SameOrder
<1>6. QED
  BY <1>4, <1>5

LEMMA OutsideOrder ==
    ASSUME OrderInv, MergeInv', NEW p \in Revisions, Outside(p)
    PROVE  OrderInv'
<1>1. CASE MergeByHand(p)
  BY <1>1, LandOrder DEF MergeByHand, rows
<1>2. CASE Push(p) \/ Close(p) \/ Report(p) \/ Deploy(p)
  <2>1. UNCHANGED <<kind, rev, seen, current, pub, main>>
    BY <1>2 DEF Push, Close, Report, Deploy, people, rows
  <2>2. \A q \in Revisions : branch'[q].base = branch[q].base
    <3>1. branch \in [Revisions -> Branch]
      BY DEF OrderInv, MergeInv, SiteTypeOK
    <3>2. CASE Push(p)
      BY <3>1, <3>2 DEF Push, Branch
    <3>3. CASE UNCHANGED branch
      BY <3>3
    <3>4. QED
      BY <1>2, <3>2, <3>3 DEF Close, Report, Deploy
  <2>3. \A q \in Revisions : rev'[q] # "absent" => \A o \in Revisions : o < q => rev'[o] # "absent"
    BY <2>1 DEF OrderInv, FromOlder
  <2>4. \A q \in Revisions : seen[q] # "absent" => rev[q] # "absent"
    BY DEF OrderInv, FromOlder
  <2>5. QED
    BY <2>1, <2>2, <2>3, <2>4, SameOrder
<1>3. QED
  BY <1>1, <1>2 DEF Outside

LEMMA OperatorOrder ==
    ASSUME OrderInv, MergeInv', NEW r \in Revisions, Operators(r)
    PROVE  OrderInv'
<1>1. CASE Recommend(r)
  BY <1>1, RecommendOrder
<1>2. CASE ~Recommend(r)
  <2>1. UNCHANGED <<kind, current, main, branch>>
    BY <1>2 DEF Operators, CreateRevision, OpenDecision, Decide, Publish, DecideRecommendation, Implement,
                people, github
  <2>2. rev \in [Revisions -> RevisionStatus] /\ pub \in [Revisions -> Publication]
    BY DEF OrderInv, MergeInv, SiteTypeOK
  <2>3. /\ \A q \in Revisions : rev[q] # "absent" => rev'[q] # "absent"
        /\ \A q \in Revisions : rev'[q] # "absent" => rev[q] # "absent" \/ (q = r /\ Newest(r))
    <3>1. CASE CreateRevision(r)
      BY <2>2, <3>1 DEF CreateRevision
    <3>2. CASE UNCHANGED rev
      BY <3>2
    <3>3. CASE Decide(r)
      <4>1. rev[r] # "absent"
        BY <3>3 DEF Decide, Reject, ApproveEditorial, ApproveClient, OrderInv, FromOlder
      <4>2. CASE Reject(r)
        BY <2>2, <4>1, <4>2 DEF Reject
      <4>3. CASE \E read : ApproveEditorial(r, read)
        BY <2>2, <4>1, <4>3 DEF ApproveEditorial
      <4>4. CASE \E read : ApproveClient(r, read)
        BY <2>2, <4>1, <4>4 DEF ApproveClient
      <4>5. QED
        BY <3>3, <4>2, <4>3, <4>4 DEF Decide
    <3>4. CASE DecideRecommendation(r)
      BY <2>2, <3>4 DEF DecideRecommendation
    <3>5. QED
      BY <1>2, <3>1, <3>2, <3>3, <3>4 DEF Operators, OpenDecision, Publish, Implement, people
  <2>4. \A q \in Revisions : rev'[q] # "absent" => \A o \in Revisions : o < q => rev'[o] # "absent"
    BY <2>3 DEF OrderInv, FromOlder, Newest
  <2>5. /\ \A q \in Revisions : pub'[q].base = pub[q].base
        /\ \A q \in Revisions : pub'[q].status # "absent" => pub[q].status # "absent" \/ rev[q] # "absent"
    <3>1. CASE UNCHANGED pub
      BY <3>1
    <3>2. CASE (Publish(r) \/ Implement(r))
      <4>1. pub' = [pub EXCEPT ![r].status = "reserved"] /\ rev[r] = "approved"
        BY <3>2 DEF Publish, Implement, Reserved, Publishable, Approved
      <4>2. QED
        BY <2>2, <4>1 DEF Publication
    <3>3. QED
      BY <1>2, <3>1, <3>2 DEF Operators, CreateRevision, OpenDecision, Decide, DecideRecommendation, rows
  <2>6. \A q \in Revisions : seen'[q] # "absent" => rev[q] # "absent"
    <3>1. \A q \in Revisions : seen[q] # "absent" => rev[q] # "absent"
      BY DEF OrderInv, FromOlder
    <3>2. seen \in [Revisions -> RevisionStatus]
      BY DEF OrderInv, MergeInv, SiteTypeOK
    <3>3. CASE OpenDecision(r)
      BY <3>1, <3>2, <3>3 DEF OpenDecision
    <3>4. CASE Decide(r)
      BY <3>1, <3>2, <3>4 DEF Decide
    <3>5. CASE UNCHANGED seen
      BY <3>1, <3>5
    <3>6. QED
      BY <1>2, <3>3, <3>4, <3>5 DEF Operators, CreateRevision, Publish, DecideRecommendation, Implement, people
  <2>7. QED
    BY <2>1, <2>3, <2>4, <2>5, <2>6, SameOrder
<1>3. QED
  BY <1>1, <1>2

LEMMA NextOrder == OrderInv /\ [Next]_vars => OrderInv'
<1>1. ASSUME OrderInv, UNCHANGED vars PROVE OrderInv'
  <2>1. MergeInv'
    BY <1>1, NextMerges DEF OrderInv
  <2>2. \A q \in Revisions : rev'[q] # "absent" => \A o \in Revisions : o < q => rev'[o] # "absent"
    BY <1>1 DEF OrderInv, FromOlder, vars, people
  <2>3. UNCHANGED <<kind, rev, seen, current, pub, main, branch>>
    BY <1>1 DEF vars, people, rows, github
  <2>4. \A q \in Revisions : seen[q] # "absent" => rev[q] # "absent"
    BY <1>1 DEF OrderInv, FromOlder
  <2>5. QED
    BY <1>1, <2>1, <2>2, <2>3, <2>4, SameOrder
<1>2. ASSUME OrderInv, NEW p \in Revisions, Operators(p) \/ Handle(p) \/ Outside(p) PROVE OrderInv'
  <2>1. MergeInv'
    BY <1>2, NextMerges DEF OrderInv, Next
  <2>2. QED
    BY <1>2, <2>1, OperatorOrder, HandlerOrder, OutsideOrder
<1>3. QED
  BY <1>1, <1>2 DEF Next

\* An approved site change never lands over a newer one.
THEOREM NeverRollsBack == Spec => []NoRollback
<1>1. OrderInv => NoRollback
  BY DEF OrderInv
<1>2. QED
  BY <1>1, InitOrder, NextOrder, PTL DEF Spec
=============================================================================
